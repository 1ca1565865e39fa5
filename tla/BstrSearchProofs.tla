--------------------------- MODULE BstrSearchProofs ---------------------------
(***************************************************************************)
(* The searches for one text in another are exact, whatever the texts, the *)
(* position and the library's tolower are.                                 *)
(*                                                                         *)
(* The inductive invariant says of the loop of binstr what NoneIsPassed    *)
(* says, that the j characters it has end in front of i, and that they are *)
(* b2's when they are contiguous; and of the other loops that no offset    *)
(* they have left behind is an occurrence.                                 *)
(*                                                                         *)
(* The functions that answer at once are right by what they compute, which *)
(* is proved of them as functions of texts: the searches for a character   *)
(* look at the same offsets as their promise does, bstrcmp and bstricmp    *)
(* compare keys, and the other comparisons come down to these.             *)
(***************************************************************************)
EXTENDS BstrSearch, SequenceTheorems, WellFoundedInduction, TLAPS

(* The variables of a search that runs. *)
LoopType ==
  pc = "loop" =>
    /\ fun \in Searches
    /\ b1 \in Seq(0..UCHAR_MAX) /\ b2 \in Seq(0..UCHAR_MAX)
    /\ pos \in 0..Len(b1) /\ i \in Nat /\ j \in Nat /\ ii \in Int
    /\ Len(b2) >= 1 /\ Len(b2) <= Len(b1) /\ j < Len(b2)

(* The loops that try one position after the other. *)
ScanSound ==
  pc = "loop" /\ fun # "binstr" =>
    /\ i <= Len(b1) - Len(b2) /\ Ahead(i)
    /\ \A k \in 1..j : Equal(fun, b2[k], b1[i + k])
    /\ \A p \in 0..Len(b1) : Ahead(p) /\ Occurs(p) =>
         IF fun \in Forward THEN i <= p ELSE i >= p

(* The loops of binstr. *)
BinstrSound ==
  pc = "loop" /\ fun = "binstr" =>
    /\ i >= pos /\ i <= Len(b1) /\ (Len(b2) = 1 => j = 0)
    /\ \A p \in pos..Len(b1) : Occurs(p) => p + j >= i
    /\ j > 0 => /\ ii >= pos /\ i - ii >= j
                /\ i - ii = j => \A k \in 1..j : b2[k] = b1[ii + k]

SearchInv ==
  /\ pc \in {"idle", "loop", "done"}
  /\ LoopType /\ ScanSound /\ BinstrSound /\ NearestIsFound

-----------------------------------------------------------------------------

(* binstr takes a character for itself and no other. *)
LEMMA EqualIsEqual ==
  ASSUME NEW c, NEW d
  PROVE  Equal("binstr", c, d) <=> c = d
BY DEF Equal

(* The names of the functions differ. *)
LEMMA Names ==
  /\ "binstr" \in Forward /\ "binstr" \notin Backward
  /\ Forward \cap Backward = {}
  /\ "none" \notin Searches
  /\ \A f \in CharSearches \cup Orders \cup Equalities : f \notin Searches
BY DEF Searches, Forward, Backward, CharSearches, Orders, Equalities

(* Whether a text occurs depends on the arguments alone. *)
LEMMA SameArguments ==
  ASSUME fun' = fun, b1' = b1, b2' = b2, pos' = pos
  PROVE  /\ \A p : Occurs(p)' <=> Occurs(p)
         /\ \A p : Ahead(p)' <=> Ahead(p)
BY DEF Occurs, Ahead

(* A call that is over leaves nothing to show but its result. *)
LEMMA DoneIsEnough ==
  ASSUME pc' = "done", NearestIsFound'
  PROVE  SearchInv'
BY DEF SearchInv, LoopType, ScanSound, BinstrSound

(* A search that begins has not passed anything, and one that returns at   *)
(* once is right to.                                                       *)
LEMMA BeginSound ==
  ASSUME SearchInv, Begin
  PROVE  SearchInv'
<1>1. PICK f \in Searches, t \in Hays, u \in Needles, p \in Positions, same \in BOOLEAN :
        /\ same => Bisstemeqblk(t, u) = 1
        /\ Enter(f, t, u, p, same)
  BY DEF Begin
<1>2. /\ t \in Seq(0..UCHAR_MAX) /\ u \in Seq(0..UCHAR_MAX) /\ p \in Int
      /\ Len(t) \in Nat /\ Len(u) \in Nat
  BY SearchAssumption
<1>3. /\ fun' = f /\ b1' = t /\ b2' = u /\ pos' = p /\ j' = 0 /\ ii' = -1
      /\ i' = IF f \in Backward /\ p > Len(t) - Len(u) THEN Len(t) - Len(u) ELSE p
  BY <1>1 DEF Enter
<1>4. u = <<>> <=> Len(u) = 0
  BY <1>2
<1>5. CASE Outside(f, t, u, p)
  <2>1. pc' = "done" /\ ret' = BSTR_ERR
    BY <1>1, <1>5 DEF Enter
  <2>2. ASSUME p \in 0..Len(t), NEW q \in 0..Len(t), Ahead(q)' PROVE ~Occurs(q)'
    BY <2>2, <1>2, <1>3, <1>4, <1>5 DEF Outside, Ahead, Occurs
  <2>3. NearestIsFound'
    BY <2>1, <2>2, <1>3 DEF NearestIsFound
  <2> QED BY <2>1, <2>3, DoneIsEnough
<1>6. CASE ~Outside(f, t, u, p) /\ u = <<>>
  <2>1. pc' = "done" /\ ret' = p
    BY <1>1, <1>6 DEF Enter
  <2>2. p \in 0..Len(t)
    BY <1>2, <1>6 DEF Outside
  <2>3. Occurs(p)' /\ Ahead(p)'
    BY <1>2, <1>3, <1>4, <1>6, <2>2 DEF Occurs, Ahead
  <2>4. NearestIsFound'
    BY <2>1, <2>2, <2>3, <1>2, <1>3 DEF NearestIsFound, Ahead, BSTR_ERR
  <2> QED BY <2>1, <2>4, DoneIsEnough
<1>7. CASE ~Outside(f, t, u, p) /\ u # <<>>
  <2>1. p \in 0..Len(t) /\ Len(u) >= 1 /\ Len(u) <= Len(t)
        /\ (f \in Forward => p <= Len(t) - Len(u))
    BY <1>2, <1>4, <1>7 DEF Outside, Searches
  <2>2. CASE same /\ p = 0 /\ pc' = "done" /\ ret' = 0
    <3>1. Len(u) <= Len(t) /\ \A k \in 1..Len(u) : t[k] = u[k]
      BY <1>1, <2>2 DEF Bisstemeqblk, Bool
    <3>2. Occurs(0)' /\ Ahead(0)'
      BY <1>2, <1>3, <2>1, <2>2, <3>1 DEF Occurs, Ahead, Equal
    <3>3. NearestIsFound'
      BY <2>1, <2>2, <3>2, <1>2, <1>3 DEF NearestIsFound, Ahead, BSTR_ERR
    <3> QED BY <2>2, <3>3, DoneIsEnough
  <2>3. CASE pc' = "loop"
    <3>1. LoopType'
      BY <1>2, <1>3, <2>1 DEF LoopType
    <3>2. ScanSound'
      <4>1. Ahead(i)' /\ i' <= Len(t) - Len(u)
        BY <1>2, <1>3, <2>1 DEF Ahead, Searches
      <4>2. ASSUME NEW q \in 0..Len(t), Ahead(q)', Occurs(q)'
            PROVE  IF f \in Forward THEN i' <= q ELSE i' >= q
        BY <4>2, <1>2, <1>3, <2>1, Names DEF Ahead, Occurs, Searches
      <4> QED BY <4>1, <4>2, <1>3 DEF ScanSound
    <3>3. BinstrSound'
      BY <1>2, <1>3, <2>1, Names DEF BinstrSound
    <3> QED BY <2>3, <3>1, <3>2, <3>3 DEF SearchInv, NearestIsFound
  <2> QED BY <1>1, <1>7, <2>2, <2>3 DEF Enter
<1> QED BY <1>5, <1>6, <1>7

(* One step of the loop of binstrcaseless, binstrr or binstrrcaseless.     *)
LEMMA ScanIsSound ==
  ASSUME SearchInv, Scan
  PROVE  SearchInv'
<1>1. /\ pc = "loop" /\ fun # "binstr" /\ fun \in Searches
      /\ b1 \in Seq(0..UCHAR_MAX) /\ b2 \in Seq(0..UCHAR_MAX)
      /\ Len(b1) \in Nat /\ Len(b2) \in Nat
      /\ pos \in 0..Len(b1) /\ i \in Nat /\ j \in Nat /\ ii \in Int
      /\ Len(b2) >= 1 /\ Len(b2) <= Len(b1) /\ j < Len(b2)
      /\ i <= Len(b1) - Len(b2) /\ Ahead(i)
      /\ \A k \in 1..j : Equal(fun, b2[k], b1[i + k])
  BY DEF SearchInv, LoopType, ScanSound, Scan
<1>2. ASSUME NEW p \in 0..Len(b1), Ahead(p), Occurs(p)
      PROVE  IF fun \in Forward THEN i <= p ELSE i >= p
  BY <1>1, <1>2 DEF SearchInv, ScanSound
<1>3. fun' = fun /\ b1' = b1 /\ b2' = b2 /\ pos' = pos
  BY DEF Scan, Return
<1>4. /\ \A p : Occurs(p)' <=> Occurs(p)
      /\ \A p : Ahead(p)' <=> Ahead(p)
  BY <1>3, SameArguments
<1>5. CASE Equal(fun, b2[j + 1], b1[i + j + 1])
  <2>1. \A k \in 1..(j + 1) : Equal(fun, b2[k], b1[i + k])
    BY <1>1, <1>5
  <2>2. CASE j + 1 >= Len(b2)
    <3>1. pc' = "done" /\ ret' = i
      BY <1>5, <2>2 DEF Scan, Return
    <3>2. Occurs(i)
      BY <1>1, <2>1, <2>2 DEF Occurs
    <3>3. NearestIsFound'
      BY <3>1, <3>2, <1>1, <1>2, <1>3, <1>4 DEF NearestIsFound, BSTR_ERR
    <3> QED BY <3>1, <3>3, DoneIsEnough
  <2>3. CASE j + 1 < Len(b2)
    <3>1. j' = j + 1 /\ UNCHANGED <<fun, b1, b2, pos, pc, i, ii, ret>>
      BY <1>1, <1>5, <2>3 DEF Scan
    <3>2. ScanSound'
      BY <3>1, <2>1, <1>1, <1>2, <1>4 DEF ScanSound
    <3> QED BY <3>1, <3>2, <2>3, <1>1 DEF SearchInv, LoopType, BinstrSound, NearestIsFound
  <2> QED BY <2>2, <2>3, <1>1
<1>6. CASE ~Equal(fun, b2[j + 1], b1[i + j + 1])
  <2> DEFINE next == IF fun \in Forward THEN i + 1 ELSE i - 1
  <2>1. ~Occurs(i)
    BY <1>1, <1>6 DEF Occurs
  <2>2. ASSUME NEW p \in 0..Len(b1), Ahead(p), Occurs(p)
        PROVE  IF fun \in Forward THEN next <= p ELSE next >= p
    <3>1. p # i
      BY <2>1, <2>2
    <3> QED BY <3>1, <2>2, <1>1, <1>2
  <2>3. CASE next \in 0..(Len(b1) - Len(b2))
    <3>1. i' = next /\ j' = 0 /\ UNCHANGED <<fun, b1, b2, pos, pc, ii, ret>>
      BY <1>6, <2>3 DEF Scan
    <3>2. Ahead(next)
      BY <1>1 DEF Ahead
    <3>3. ScanSound'
      BY <3>1, <3>2, <2>2, <2>3, <1>1, <1>4 DEF ScanSound
    <3> QED BY <3>1, <3>3, <2>3, <1>1 DEF SearchInv, LoopType, BinstrSound, NearestIsFound
  <2>4. CASE next \notin 0..(Len(b1) - Len(b2))
    <3>1. pc' = "done" /\ ret' = BSTR_ERR
      BY <1>6, <2>4 DEF Scan, Return
    <3>2. ASSUME NEW p \in 0..Len(b1), Ahead(p) PROVE ~Occurs(p)
      BY <3>2, <2>2, <2>4, <1>1 DEF Occurs
    <3>3. NearestIsFound'
      BY <3>1, <3>2, <1>1, <1>3, <1>4 DEF NearestIsFound
    <3> QED BY <3>1, <3>3, DoneIsEnough
  <2> QED BY <2>3, <2>4
<1> QED BY <1>5, <1>6

(* What is known of the variables while binstr runs. *)
BinstrState ==
  /\ pc = "loop" /\ fun = "binstr" /\ fun \in Forward /\ fun \in Searches
  /\ b1 \in Seq(0..UCHAR_MAX) /\ b2 \in Seq(0..UCHAR_MAX)
  /\ Len(b1) \in Nat /\ Len(b2) \in Nat
  /\ pos \in 0..Len(b1) /\ i \in Nat /\ j \in Nat /\ ii \in Int
  /\ Len(b2) >= 1 /\ Len(b2) <= Len(b1) /\ j < Len(b2)
  /\ i >= pos /\ i <= Len(b1) /\ (Len(b2) = 1 => j = 0)
  /\ \A p \in pos..Len(b1) : Occurs(p) => p + j >= i
  /\ j > 0 => /\ ii >= pos /\ i - ii >= j
              /\ i - ii = j => \A k \in 1..j : b2[k] = b1[ii + k]

(* What the invariant says while binstr runs. *)
LEMMA BinstrFacts ==
  ASSUME SearchInv, pc = "loop", fun = "binstr"
  PROVE  BinstrState
BY Names DEF SearchInv, LoopType, BinstrSound, BinstrState, Searches

(* binstr has an occurrence of b2 from its characters.                     *)
LEMMA OccursIsEqual ==
  ASSUME BinstrState, NEW p
  PROVE  Occurs(p) <=> p \in 0..(Len(b1) - Len(b2))
                       /\ \A k \in 1..Len(b2) : b2[k] = b1[p + k]
BY EqualIsEqual DEF BinstrState, Occurs

(* A search forwards may answer with an offset before which there is no    *)
(* occurrence, and that there is none.                                     *)
LEMMA AnswerFound ==
  ASSUME BinstrState, NEW p \in pos..Len(b1), Return(p), Occurs(p),
         \A q \in pos..Len(b1) : Occurs(q) => q >= p
  PROVE  SearchInv'
<1>1. /\ pc' = "done" /\ ret' = p
      /\ fun' = fun /\ b1' = b1 /\ b2' = b2 /\ pos' = pos
  BY DEF Return
<1>2. NearestIsFound'
  BY <1>1, SameArguments DEF BinstrState, NearestIsFound, Ahead, BSTR_ERR
<1> QED BY <1>1, <1>2, DoneIsEnough

(* binstr may answer that there is none when no occurrence is left. *)
LEMMA AnswerNone ==
  ASSUME BinstrState, Return(BSTR_ERR), \A q \in pos..Len(b1) : ~Occurs(q)
  PROVE  SearchInv'
<1>1. /\ pc' = "done" /\ ret' = BSTR_ERR
      /\ fun' = fun /\ b1' = b1 /\ b2' = b2 /\ pos' = pos
  BY DEF Return
<1>2. NearestIsFound'
  BY <1>1, SameArguments DEF BinstrState, NearestIsFound, Ahead
<1> QED BY <1>1, <1>2, DoneIsEnough

(* The loop goes on if what it has and where it is are sound.              *)
LEMMA GoesOn ==
  ASSUME BinstrState, UNCHANGED <<fun, b1, b2, pos, pc, ret>>,
         i' \in Nat, j' \in Nat, ii' \in Int, j' < Len(b2),
         i' >= pos, i' <= Len(b1), Len(b2) = 1 => j' = 0,
         \A p \in pos..Len(b1) : Occurs(p) => p + j' >= i',
         j' > 0 => /\ ii' >= pos /\ i' - ii' >= j'
                   /\ i' - ii' = j' => \A k \in 1..j' : b2[k] = b1[ii' + k]
  PROVE  SearchInv'
<1>1. \A p : Occurs(p)' <=> Occurs(p)
  BY SameArguments
<1>2. BinstrSound'
  BY <1>1 DEF BinstrState, BinstrSound
<1> QED BY <1>2 DEF BinstrState, SearchInv, LoopType, ScanSound, NearestIsFound

(* All characters of b2 have been taken, the last but n of them before k:  *)
(* either they are contiguous, or the search goes back to the first offset *)
(* where an occurrence can be.                                             *)
LEMMA CompleteIsSound ==
  ASSUME BinstrState, NEW k \in Nat, NEW start \in Int, NEW n \in Nat,
         k <= Len(b1), start >= pos, k - start >= n,
         k = start + n => Occurs(start),
         \A p \in pos..Len(b1) : Occurs(p) => p + n >= k,
         Complete(k, start, n)
  PROVE  SearchInv'
<1>1. CASE k = start + n
  <2>1. Return(start)
    BY <1>1 DEF Complete
  <2>2. start \in pos..Len(b1)
    BY <1>1 DEF BinstrState
  <2>3. \A q \in pos..Len(b1) : Occurs(q) => q >= start
    BY <1>1 DEF BinstrState
  <2> QED BY <1>1, <2>1, <2>2, <2>3, AnswerFound
<1>2. CASE k # start + n
  <2>1. i' = k - n /\ j' = 0 /\ ii' = start /\ UNCHANGED <<fun, b1, b2, pos, pc, ret>>
    BY <1>2 DEF Complete
  <2>2. k - n >= pos /\ k - n \in Nat /\ k - n <= Len(b1)
    BY DEF BinstrState
  <2>3. \A p \in pos..Len(b1) : Occurs(p) => p + 0 >= k - n
    BY DEF BinstrState
  <2>4. 0 < Len(b2)
    BY DEF BinstrState
  <2> QED BY <2>1, <2>2, <2>3, <2>4, GoesOn
<1> QED BY <1>1, <1>2

(* One step of the loop for a b2 of one character.                         *)
LEMMA SingleIsSound ==
  ASSUME SearchInv, Single
  PROVE  SearchInv'
<1>1. BinstrState /\ Len(b2) = 1 /\ j = 0
  BY BinstrFacts DEF Single, BinstrState
<1>2. ASSUME NEW q \in pos..Len(b1), Occurs(q)
      PROVE  q >= i /\ q \in 0..(Len(b1) - 1) /\ b2[1] = b1[q + 1]
  BY <1>1, <1>2, OccursIsEqual DEF BinstrState
<1>3. CASE i >= Len(b1)
  <2>1. Return(BSTR_ERR)
    BY <1>3 DEF Single
  <2>2. \A q \in pos..Len(b1) : ~Occurs(q)
    BY <1>1, <1>2, <1>3 DEF BinstrState
  <2> QED BY <1>1, <2>1, <2>2, AnswerNone
<1>4. CASE i < Len(b1) /\ b2[1] = b1[i + 1]
  <2>1. Return(i)
    BY <1>1, <1>4 DEF Single, BinstrState
  <2>2. Occurs(i) /\ i \in pos..Len(b1)
    BY <1>1, <1>4, OccursIsEqual DEF BinstrState
  <2> QED BY <1>1, <1>2, <2>1, <2>2, AnswerFound
<1>5. CASE i < Len(b1) /\ b2[1] # b1[i + 1]
  <2>1. i' = i + 1 /\ UNCHANGED <<fun, b1, b2, pos, pc, j, ii, ret>>
    BY <1>1, <1>5 DEF Single, BinstrState
  <2>2. \A q \in pos..Len(b1) : Occurs(q) => q + j' >= i'
    BY <1>1, <1>2, <1>5, <2>1 DEF BinstrState
  <2>3. i' \in Nat /\ i' >= pos /\ i' <= Len(b1) /\ j' = 0 /\ j' \in Nat /\ ii' \in Int
        /\ j' < Len(b2)
    BY <1>1, <1>5, <2>1 DEF BinstrState
  <2> QED BY <1>1, <2>1, <2>2, <2>3, GoesOn
<1> QED BY <1>1, <1>3, <1>4, <1>5 DEF BinstrState

(* The character of b2 that is looked for is in an occurrence further on,  *)
(* unless it is where the occurrence would have it.                        *)
LEMMA NextOfOccurrence ==
  ASSUME BinstrState, NEW p \in pos..Len(b1), Occurs(p)
  PROVE  /\ p + j >= i
         /\ p + j < Len(b1)
         /\ b2[j + 1] = b1[p + j + 1]
<1>1. p \in 0..(Len(b1) - Len(b2)) /\ \A k \in 1..Len(b2) : b2[k] = b1[p + k]
  BY OccursIsEqual
<1>2. j + 1 \in 1..Len(b2) /\ p + (j + 1) = p + j + 1
  BY <1>1 DEF BinstrState
<1>3. b2[j + 1] = b1[p + (j + 1)]
  BY <1>1, <1>2
<1> QED BY <1>1, <1>2, <1>3 DEF BinstrState

(* Two characters, neither of them the one looked for, are passed over. *)
LEMMA SkipIsSound ==
  ASSUME SearchInv, Skip
  PROVE  SearchInv'
<1>1. BinstrState /\ i < lf
  BY BinstrFacts DEF Skip, Running
<1>2. i' = i + 2 /\ UNCHANGED <<fun, b1, b2, pos, pc, j, ii, ret>>
  BY DEF Skip
<1>3. ASSUME NEW p \in pos..Len(b1), Occurs(p) PROVE p + j >= i + 2
  <2>1. p + j >= i /\ b2[j + 1] = b1[p + j + 1]
    BY <1>1, <1>3, NextOfOccurrence
  <2>2. p + j # i /\ p + j # i + 1
    <3>1. b2[j + 1] # b1[i + 1] /\ b2[j + 1] # b1[i + 2] /\ i + 2 = (i + 1) + 1
      BY <1>1 DEF Skip, BinstrState
    <3> QED BY <2>1, <3>1
  <2>3. i \in Int /\ j \in Int /\ pos \in Int
    BY <1>1 DEF BinstrState
  <2>4. p \in Int
    BY <2>3, <1>3
  <2> QED BY <2>1, <2>2, <2>3, <2>4
<1>4. /\ i' \in Nat /\ j' \in Nat /\ ii' \in Int /\ j' < Len(b2)
      /\ i' >= pos /\ i' <= Len(b1) /\ (Len(b2) = 1 => j' = 0)
  BY <1>1, <1>2 DEF BinstrState, lf
<1>5. j' > 0 => /\ ii' >= pos /\ i' - ii' >= j'
                /\ i' - ii' = j' => \A k \in 1..j' : b2[k] = b1[ii' + k]
  BY <1>1, <1>2 DEF BinstrState
<1> QED BY <1>1, <1>2, <1>3, <1>4, <1>5, GoesOn

(* A character of b2 is taken where it next occurs; if it was the last of  *)
(* them binstr answers or goes back.                                       *)
LEMMA TakeIsSound ==
  ASSUME SearchInv, Take
  PROVE  SearchInv'
<1>1. BinstrState /\ i < lf /\ Len(b2) > 1
  BY BinstrFacts DEF Take, Running
<1>a. /\ Len(b1) \in Nat /\ Len(b2) \in Nat /\ i \in Nat /\ j \in Nat /\ ii \in Int
      /\ pos \in Nat /\ j < Len(b2) /\ i >= pos /\ i + 1 < Len(b1) /\ Len(b2) > 1
  BY <1>1 DEF BinstrState, lf
<1>e. Len(b2) = 1 => FALSE
  BY <1>a
<1>2. PICK k \in {i, i + 1} :
        /\ b2[j + 1] = b1[k + 1]
        /\ k = i + 1 => b2[j + 1] # b1[i + 1]
        /\ IF j + 1 < Len(b2)
           THEN /\ j' = j + 1 /\ i' = k + 1 /\ ii' = Start(k)
                /\ UNCHANGED <<fun, b1, b2, pos, pc, ret>>
           ELSE Complete(k + 1, Start(k), j + 1)
  BY DEF Take
<1>d. k \in Nat
  BY <1>a
<1>b. PICK s \in Int : s = Start(k) /\ (j = 0 => s = k) /\ (j > 0 => s = ii)
  BY <1>a DEF Start
<1>c. /\ b2[j + 1] = b1[k + 1]
      /\ IF j + 1 < Len(b2)
         THEN /\ j' = j + 1 /\ i' = k + 1 /\ ii' = s
              /\ UNCHANGED <<fun, b1, b2, pos, pc, ret>>
         ELSE Complete(k + 1, s, j + 1)
  BY <1>2, <1>b
<1>3. ASSUME NEW p \in pos..Len(b1), Occurs(p) PROVE p + (j + 1) >= k + 1
  <2>1. p + j >= i /\ b2[j + 1] = b1[p + j + 1]
    BY <1>1, <1>3, NextOfOccurrence
  <2>2. k = i + 1 => p + j # i
    BY <1>2, <2>1
  <2> QED BY <1>a, <2>1, <2>2
<1>4. /\ k + 1 \in Nat /\ k + 1 <= Len(b1) /\ k + 1 >= pos
      /\ s \in Int /\ s >= pos /\ k + 1 - s >= j + 1
  <2>1. j > 0 => ii >= pos /\ i - ii >= j
    BY <1>1 DEF BinstrState
  <2>2. k >= i /\ k <= i + 1
    BY <1>a
  <2> QED
    BY <1>a, <1>b, <1>d, <2>1, <2>2
<1>5. ASSUME k + 1 - s = j + 1
      PROVE  \A l \in 1..(j + 1) : b2[l] = b1[s + l]
  <2>1. CASE j = 0
    <3>1. s = k /\ b2[1] = b1[k + 1]
      BY <1>b, <1>c, <2>1
    <3> QED BY <2>1, <3>1
  <2>2. CASE j > 0
    <3>1. s = ii /\ k = i /\ i - ii = j
      <4>1. s = ii /\ i - ii >= j
        BY <1>1, <1>b, <2>2 DEF BinstrState
      <4>2. k = i \/ k = i + 1
        OBVIOUS
      <4> QED BY <1>a, <1>d, <4>1, <4>2, <1>5
    <3>2. \A l \in 1..j : b2[l] = b1[ii + l]
      BY <1>1, <2>2, <3>1 DEF BinstrState
    <3>3. b2[j + 1] = b1[ii + (j + 1)]
      BY <1>1, <1>2, <3>1 DEF BinstrState
    <3>4. \A l \in 1..(j + 1) : l \in 1..j \/ l = j + 1
      BY <1>a
    <3> QED BY <3>1, <3>2, <3>3, <3>4
  <2> QED BY <1>a, <2>1, <2>2
<1>6. CASE j + 1 < Len(b2)
  <2>1. j' = j + 1 /\ i' = k + 1 /\ ii' = s /\ UNCHANGED <<fun, b1, b2, pos, pc, ret>>
    BY <1>c, <1>6
  <2>2. i' \in Nat /\ j' \in Nat /\ ii' \in Int /\ j' < Len(b2)
        /\ i' >= pos /\ i' <= Len(b1) /\ (Len(b2) = 1 => j' = 0)
    <3>1. i' \in Nat /\ i' >= pos /\ i' <= Len(b1) /\ ii' \in Int
      BY <1>4, <2>1
    <3>2. j' = j + 1
      BY <2>1
    <3>3. j' \in Nat /\ j' < Len(b2)
      BY <1>a, <1>6, <3>2
    <3> QED BY <1>e, <3>1, <3>3
  <2>3. \A p \in pos..Len(b1) : Occurs(p) => p + j' >= i'
    BY <1>3, <2>1
  <2>4. j' > 0 => /\ ii' >= pos /\ i' - ii' >= j'
                  /\ i' - ii' = j' => \A l \in 1..j' : b2[l] = b1[ii' + l]
    <3>1. j' = j + 1 /\ ii' = s /\ i' - ii' >= j + 1 /\ ii' >= pos
      BY <1>a, <1>d, <1>4, <2>1
    <3>2. ASSUME i' - ii' = j' PROVE \A l \in 1..j' : b2[l] = b1[ii' + l]
      BY <1>a, <1>d, <1>5, <2>1, <3>1, <3>2
    <3> QED BY <3>1, <3>2
  <2> QED BY <1>1, <2>1, <2>2, <2>3, <2>4, GoesOn
<1>7. CASE j + 1 >= Len(b2)
  <2>1. Complete(k + 1, s, j + 1) /\ j + 1 = Len(b2)
    BY <1>a, <1>c, <1>7
  <2>2. ASSUME k + 1 = s + (j + 1) PROVE Occurs(s)
    <3>1. s \in 0..(Len(b1) - Len(b2))
      BY <1>1, <1>4, <2>1, <2>2 DEF BinstrState
    <3>2. \A l \in 1..Len(b2) : b2[l] = b1[s + l]
      BY <1>1, <1>4, <1>5, <2>1, <2>2 DEF BinstrState
    <3> QED BY <1>1, <3>1, <3>2, OccursIsEqual
  <2>3. j + 1 \in Nat
    BY <1>a
  <2>4. k + 1 \in Nat /\ s \in Int /\ k + 1 <= Len(b1) /\ s >= pos /\ k + 1 - s >= j + 1
    BY <1>4
  <2>5. \A p \in pos..Len(b1) : Occurs(p) => p + (j + 1) >= k + 1
    BY <1>3
  <2>6. k + 1 = s + (j + 1) => Occurs(s)
    BY <2>2
  <2> DEFINE m == k + 1
             n == j + 1
  <2>7. /\ m \in Nat /\ n \in Nat /\ m <= Len(b1) /\ s >= pos /\ m - s >= n
        /\ m = s + n => Occurs(s)
        /\ \A p \in pos..Len(b1) : Occurs(p) => p + n >= m
        /\ Complete(m, s, n)
    <3>1. m \in Nat /\ n \in Nat /\ m <= Len(b1) /\ s >= pos /\ m - s >= n
      BY <1>a, <1>d, <2>3, <2>4
    <3>2. m = s + n => Occurs(s)
      BY <2>6
    <3>3. \A p \in pos..Len(b1) : Occurs(p) => p + n >= m
      BY <2>5
    <3>4. Complete(m, s, n)
      BY <2>1
    <3> QED BY <3>1, <3>2, <3>3, <3>4
  <2> HIDE DEF m, n
  <2> QED BY <1>1, <2>7, CompleteIsSound
<1> QED BY <1>1, <1>6, <1>7 DEF BinstrState

(* The last character of b1, outside of the loop, completes b2 or there is *)
(* no occurrence.                                                          *)
LEMMA MisalignedIsSound ==
  ASSUME SearchInv, Misaligned
  PROVE  SearchInv'
<1>1. BinstrState /\ i >= lf /\ Len(b2) > 1
  BY BinstrFacts DEF Misaligned, Running
<1>2. CASE i = lf /\ Len(b2) = j + 1 /\ b2[j + 1] = b1[i + 1]
  <2>1. Complete(i, ii, j)
    BY <1>2 DEF Misaligned
  <2>2. j > 0 /\ ii >= pos /\ i - ii >= j
    BY <1>1, <1>2 DEF BinstrState
  <2>3. ASSUME i = ii + j PROVE Occurs(ii)
    <3>1. \A k \in 1..j : b2[k] = b1[ii + k]
      BY <1>1, <2>2, <2>3 DEF BinstrState
    <3>2. b2[j + 1] = b1[ii + (j + 1)]
      BY <1>2, <2>3, <1>1 DEF BinstrState
    <3>3. ii \in 0..(Len(b1) - Len(b2))
      BY <1>1, <1>2, <2>2, <2>3 DEF BinstrState, lf
    <3>4. j \in Nat /\ \A k \in 1..Len(b2) : k \in 1..j \/ k = j + 1
      BY <1>1, <1>2 DEF BinstrState
    <3>5. \A k \in 1..Len(b2) : b2[k] = b1[ii + k]
      BY <3>1, <3>2, <3>4
    <3> QED BY <1>1, <3>3, <3>5, OccursIsEqual
  <2>4. i \in Nat /\ j \in Nat /\ ii \in Int /\ i <= Len(b1)
        /\ \A p \in pos..Len(b1) : Occurs(p) => p + j >= i
    BY <1>1 DEF BinstrState
  <2> QED BY <1>1, <2>1, <2>2, <2>3, <2>4, CompleteIsSound
<1>3. CASE ~(i = lf /\ Len(b2) = j + 1 /\ b2[j + 1] = b1[i + 1])
  <2>1. Return(BSTR_ERR)
    BY <1>3 DEF Misaligned
  <2>2. ASSUME NEW p \in pos..Len(b1), Occurs(p) PROVE FALSE
    <3>1. p + j >= i /\ p + j < Len(b1) /\ b2[j + 1] = b1[p + j + 1]
      BY <1>1, <2>2, NextOfOccurrence
    <3>2. p + Len(b2) <= Len(b1)
      BY <1>1, <2>2, OccursIsEqual DEF BinstrState
    <3>3. p + j = i /\ i = lf /\ Len(b2) = j + 1
      <4>1. /\ Len(b1) \in Nat /\ Len(b2) \in Nat /\ i \in Nat /\ j \in Nat /\ pos \in Nat
            /\ j < Len(b2) /\ i >= Len(b1) - 1
        BY <1>1 DEF BinstrState, lf
      <4> QED BY <4>1, <3>1, <3>2 DEF lf
    <3> QED BY <1>3, <3>1, <3>3
  <2> QED BY <1>1, <2>1, <2>2, AnswerNone
<1> QED BY <1>2, <1>3

(* The calls that are over in one step are none of the searches.           *)
LEMMA OthersSound ==
  ASSUME FindChar \/ Compare \/ Taken
  PROVE  SearchInv'
<1>1. CASE Taken
  <2>1. pc' = "idle"
    BY <1>1 DEF Taken
  <2> QED BY <2>1 DEF SearchInv, LoopType, ScanSound, BinstrSound, NearestIsFound
<1>2. CASE FindChar \/ Compare
  <2>1. PICK f \in CharSearches \cup Orders \cup Equalities : fun' = f /\ pc' = "done"
    BY <1>2 DEF FindChar, Compare, At1
  <2>2. NearestIsFound'
    BY <2>1, Names DEF NearestIsFound
  <2> QED BY <2>1, <2>2, DoneIsEnough
<1> QED BY <1>1, <1>2

(* A step that changes nothing keeps the invariant. *)
LEMMA StutterSound ==
  ASSUME SearchInv, UNCHANGED vars
  PROVE  SearchInv'
BY DEF vars, SearchInv, LoopType, ScanSound, BinstrSound, NearestIsFound, Ahead, Occurs

-----------------------------------------------------------------------------

(***************************************************************************)
(* Every binstr, binstrr, binstrcaseless and binstrrcaseless that returns  *)
(* has found the occurrence of b2 in b1 that is nearest to pos, or there   *)
(* is none: for all texts, all positions and any tolower.                  *)
(***************************************************************************)
THEOREM SearchInvariant == Spec => []SearchInv
<1>1. Init => SearchInv
  BY DEF Init, SearchInv, LoopType, ScanSound, BinstrSound, NearestIsFound
<1>2. SearchInv /\ [Next]_vars => SearchInv'
  <2> SUFFICES ASSUME SearchInv, [Next]_vars PROVE SearchInv'
    OBVIOUS
  <2>1. CASE Begin
    BY <2>1, BeginSound
  <2>2. CASE Scan
    BY <2>2, ScanIsSound
  <2>3. CASE Single
    BY <2>3, SingleIsSound
  <2>4. CASE Skip
    BY <2>4, SkipIsSound
  <2>5. CASE Take
    BY <2>5, TakeIsSound
  <2>6. CASE Misaligned
    BY <2>6, MisalignedIsSound
  <2>7. CASE FindChar \/ Compare \/ Taken
    BY <2>7, OthersSound
  <2>8. CASE UNCHANGED vars
    BY <2>8, StutterSound
  <2> QED BY <2>1, <2>2, <2>3, <2>4, <2>5, <2>6, <2>7, <2>8 DEF Next, Loop
<1> QED BY <1>1, <1>2, PTL DEF Spec

(* What a search answers is the nearest occurrence.                        *)
THEOREM SearchIsExact == Spec => []NearestIsFound
<1>1. SearchInv => NearestIsFound
  BY DEF SearchInv
<1> QED BY <1>1, SearchInvariant, PTL

(* binstr, for all it goes through the text but once, loses no occurrence. *)
THEOREM BinstrLosesNone == Spec => []NoneIsPassed
<1>1. SearchInv => NoneIsPassed
  BY BinstrFacts DEF BinstrState, NoneIsPassed, Running
<1> QED BY <1>1, SearchInvariant, PTL

-----------------------------------------------------------------------------
(* The functions that answer at once: least and highest elements. *)

(* A set of natural numbers has a lowest one. *)
LEMMA LowestFacts ==
  ASSUME NEW S, S \subseteq Nat, S # {}
  PROVE  Lowest(S) \in S /\ \A y \in S : Lowest(S) <= y
<1>1. \E x \in S : \A y \in S : ~(<<y, x>> \in OpToRel(<, Nat))
  BY NatLessThanWellFounded, WFMin, Zenon
<1>2. \E x \in S : \A y \in S : x <= y
  <2>1. PICK x \in S : \A y \in S : ~(<<y, x>> \in OpToRel(<, Nat))
    BY <1>1
  <2>2. ASSUME NEW y \in S PROVE x <= y
    <3>1. <<y, x>> \in Nat \X Nat /\ ~(<<y, x>> \in OpToRel(<, Nat))
      BY <2>1
    <3>2. ~(y < x)
      BY <3>1 DEF OpToRel
    <3> QED
      BY <3>2
  <2> QED
    BY <2>2
<1> QED
  BY <1>2 DEF Lowest

(* What is lowest is known by that. *)
LEMMA LowestIs ==
  ASSUME NEW S, S \subseteq Nat, NEW x \in S, \A y \in S : x <= y
  PROVE  Lowest(S) = x
<1> DEFINE low == Lowest(S)
<1>1. low \in S /\ \A y \in S : low <= y
  BY LowestFacts
<1> HIDE DEF low
<1>2. low \in Nat /\ x \in Nat /\ low <= x /\ x <= low
  BY <1>1
<1>3. low = x
  BY <1>2
<1> QED
  BY <1>3 DEF low

(* A set of numbers below n has a highest one. *)
LEMMA HighestFacts ==
  ASSUME NEW S, NEW n \in Int, S \subseteq 0..n, S # {}
  PROVE  Highest(S) \in S /\ \A y \in S : Highest(S) >= y
<1> DEFINE T == {n - x : x \in S}
<1>1. T \subseteq Nat /\ T # {}
  <2>1. ASSUME NEW x \in S PROVE n - x \in Nat
    <3>1. x \in 0..n
      OBVIOUS
    <3> QED
      BY <3>1
  <2>2. T \subseteq Nat
    <3> SUFFICES ASSUME NEW v \in T PROVE v \in Nat
      OBVIOUS
    <3>1. PICK x \in S : v = n - x
      OBVIOUS
    <3> QED
      BY <2>1, <3>1
  <2>3. PICK x : x \in S
    OBVIOUS
  <2>4. n - x \in T
    BY <2>3
  <2> QED
    BY <2>2, <2>4
<1>2. PICK x \in S : Lowest(T) = n - x
  BY <1>1, LowestFacts
<1>3. ASSUME NEW y \in S PROVE x >= y
  <2>1. n - x <= n - y
    BY <1>1, <1>2, LowestFacts
  <2> QED
    BY <2>1
<1> QED
  BY <1>3 DEF Highest

-----------------------------------------------------------------------------
(* Searches for characters. *)

(* The characters of a text are bytes. *)
LEMMA ByteOf ==
  ASSUME NEW t \in Seq(0..UCHAR_MAX), NEW k \in DOMAIN t
  PROVE  k \in 1..Len(t) /\ t[k] \in 0..UCHAR_MAX
<1> DEFINE B == 0..UCHAR_MAX
<1> HIDE DEF B
<1>1. ASSUME NEW s \in Seq(B), NEW l \in DOMAIN s PROVE l \in 1..Len(s) /\ s[l] \in B
  <2>1. DOMAIN s = 1..Len(s)
    OBVIOUS
  <2>2. l \in 1..Len(s)
    BY <2>1
  <2> QED
    BY <2>2
<1>2. t \in Seq(B)
  BY DEF B
<1> QED
  BY <1>1, <1>2 DEF B

(* A byte is known by its cell and its bit. *)
LEMMA CellAndBit ==
  ASSUME NEW c \in 0..255, NEW d \in 0..255, c \div 8 = d \div 8, c % 8 = d % 8
  PROVE  c = d
OBVIOUS

(* A character is in the field that was built of a text when the text has  *)
(* it, and in the inverted one when it has not.                            *)
LEMMA CharFieldFacts ==
  ASSUME NEW t \in Seq(0..UCHAR_MAX), NEW c \in 0..UCHAR_MAX
  PROVE  LET cf == BuildCharField(t)
             among == {t[k] : k \in DOMAIN t}
         IN  /\ TestInCharField(cf, c) <=> c \in among
             /\ TestInCharField(InvertCharField(cf), c) <=> c \notin among
<1> DEFINE cf == BuildCharField(t)
           cell == c \div LONG_BITS_QTY
           bit == c % LONG_BITS_QTY
<1>1. cell \in 0..(CFCLEN - 1) /\ bit \in 0..(LONG_BITS_QTY - 1)
  BY DEF LONG_BITS_QTY, CFCLEN, UCHAR_MAX
<1>2. /\ DOMAIN cf = 0..(CFCLEN - 1)
      /\ cf[cell] = {d % LONG_BITS_QTY : d \in {t[k] : k \in {l \in DOMAIN t :
                                            t[l] \div LONG_BITS_QTY = cell}}}
  BY <1>1 DEF BuildCharField
<1>3. ASSUME NEW k \in DOMAIN t, t[k] \div LONG_BITS_QTY = cell,
             t[k] % LONG_BITS_QTY = bit
      PROVE  t[k] = c
  <2>1. t[k] \in 0..255 /\ c \in 0..255
    BY ByteOf DEF UCHAR_MAX
  <2> QED
    BY <1>3, <2>1, CellAndBit DEF LONG_BITS_QTY
<1>4. bit \in cf[cell] <=> c \in {t[k] : k \in DOMAIN t}
  <2>1. ASSUME bit \in cf[cell] PROVE c \in {t[k] : k \in DOMAIN t}
    <3>1. PICK k \in DOMAIN t : t[k] \div LONG_BITS_QTY = cell /\ t[k] % LONG_BITS_QTY = bit
      <4> HIDE DEF cf, cell, bit
      <4> QED
        BY <1>2, <2>1
    <3> QED
      BY <1>3, <3>1
  <2>2. ASSUME NEW k \in DOMAIN t, c = t[k] PROVE bit \in cf[cell]
    <3>1. t[k] \div LONG_BITS_QTY = cell /\ t[k] % LONG_BITS_QTY = bit
      BY <2>2
    <3> HIDE DEF cf, cell, bit
    <3> QED
      BY <1>2, <3>1
  <2> QED
    BY <2>1, <2>2
<1>5. InvertCharField(cf)[cell] = (0..(LONG_BITS_QTY - 1)) \ cf[cell]
  <2> HIDE DEF cf, cell
  <2> QED
    BY <1>1, <1>2 DEF InvertCharField
<1> QED
  <2> HIDE DEF cf
  <2>1. /\ TestInCharField(cf, c) <=> bit \in cf[cell]
        /\ TestInCharField(InvertCharField(cf), c) <=> bit \in InvertCharField(cf)[cell]
    BY DEF TestInCharField
  <2> HIDE DEF cell, bit
  <2>2. TestInCharField(InvertCharField(cf), c) <=> c \notin {t[k] : k \in DOMAIN t}
    BY <1>1, <1>4, <1>5, <2>1
  <2> QED
    BY <1>4, <2>1, <2>2 DEF cf

(* The characters of a text. *)
Among(u) == {u[k] : k \in DOMAIN u}

(* Where the function f may find one in t, from p. *)
Hits(f, t, u, p) ==
  {q \in 0..(Len(t) - 1) :
     /\ (t[q + 1] \in Among(u)) = (f \in {"binchr", "binchrr"})
     /\ IF f \in {"binchr", "bninchr"} THEN q >= p ELSE q <= p}

(* The tests of a field, at the offsets of a text. *)
LEMMA FieldAt ==
  ASSUME NEW t \in Seq(0..UCHAR_MAX), NEW u \in Seq(0..UCHAR_MAX),
         NEW q \in 0..(Len(t) - 1)
  PROVE  /\ TestInCharField(BuildCharField(u), t[q + 1]) <=> t[q + 1] \in Among(u)
         /\ TestInCharField(InvertCharField(BuildCharField(u)), t[q + 1])
              <=> t[q + 1] \notin Among(u)
<1>1. q + 1 \in DOMAIN t
  OBVIOUS
<1>2. t[q + 1] \in 0..UCHAR_MAX
  BY <1>1, ByteOf
<1> QED
  BY <1>2, CharFieldFacts DEF Among

(* A text of one character has that one. *)
LEMMA AmongOne ==
  ASSUME NEW u \in Seq(0..UCHAR_MAX), Len(u) = 1, NEW c
  PROVE  c = u[1] <=> c \in Among(u)
<1>1. DOMAIN u = {1}
  OBVIOUS
<1> QED
  BY <1>1 DEF Among

(* What the searches backwards start from. *)
LEMMA FromLastFacts ==
  ASSUME NEW t \in Seq(0..UCHAR_MAX), NEW p \in 0..Len(t)
  PROVE  /\ FromLast(t, p) \in -1..(Len(t) - 1)
         /\ \A q \in 0..(Len(t) - 1) : q <= p <=> q <= FromLast(t, p)
BY DEF FromLast

(* The searches for a character find what they search for. *)
LEMMA ForwardHits ==
  ASSUME NEW t \in Seq(0..UCHAR_MAX), NEW u \in Seq(0..UCHAR_MAX),
         NEW p \in 0..(Len(t) - 1)
  PROVE  /\ Len(u) = 1 =>
              {q \in p..(Len(t) - 1) : t[q + 1] = u[1]} = Hits("binchr", t, u, p)
         /\ {q \in p..(Len(t) - 1) : TestInCharField(BuildCharField(u), t[q + 1])}
              = Hits("binchr", t, u, p)
         /\ {q \in p..(Len(t) - 1) :
                TestInCharField(InvertCharField(BuildCharField(u)), t[q + 1])}
              = Hits("bninchr", t, u, p)
<1>1. \A q : q \in p..(Len(t) - 1) <=> q \in 0..(Len(t) - 1) /\ q >= p
  OBVIOUS
<1>2. /\ Hits("binchr", t, u, p) = {q \in p..(Len(t) - 1) : t[q + 1] \in Among(u)}
      /\ Hits("bninchr", t, u, p) = {q \in p..(Len(t) - 1) : t[q + 1] \notin Among(u)}
  BY <1>1 DEF Hits
<1>3. Len(u) = 1 =>
        \A q \in p..(Len(t) - 1) : t[q + 1] = u[1] <=> t[q + 1] \in Among(u)
  BY AmongOne
<1>4. \A q \in p..(Len(t) - 1) :
        /\ TestInCharField(BuildCharField(u), t[q + 1]) <=> t[q + 1] \in Among(u)
        /\ TestInCharField(InvertCharField(BuildCharField(u)), t[q + 1])
             <=> t[q + 1] \notin Among(u)
  BY <1>1, FieldAt
<1> QED
  BY <1>2, <1>3, <1>4

(* So do the searches backwards. *)
LEMMA BackwardHits ==
  ASSUME NEW t \in Seq(0..UCHAR_MAX), NEW u \in Seq(0..UCHAR_MAX),
         NEW p \in 0..Len(t)
  PROVE  LET last == FromLast(t, p)
         IN  /\ Len(u) = 1 =>
                  {q \in 0..last : t[q + 1] = u[1]} = Hits("binchrr", t, u, p)
             /\ {q \in 0..last : TestInCharField(BuildCharField(u), t[q + 1])}
                  = Hits("binchrr", t, u, p)
             /\ {q \in 0..last :
                    TestInCharField(InvertCharField(BuildCharField(u)), t[q + 1])}
                  = Hits("bninchrr", t, u, p)
<1> DEFINE last == FromLast(t, p)
<1>1. \A q : q \in 0..last <=> q \in 0..(Len(t) - 1) /\ q <= p
  <2> DEFINE n == Len(t)
  <2>1. n \in Nat /\ last \in -1..(n - 1) /\ \A q \in 0..(n - 1) : q <= p <=> q <= last
    BY FromLastFacts
  <2> HIDE DEF last, n
  <2>2. last \in Int /\ last <= n - 1
    BY <2>1
  <2>3. \A q : q \in 0..last => q \in 0..(n - 1) /\ q <= last
    BY <2>1, <2>2
  <2>4. \A q : q \in 0..(n - 1) /\ q <= last => q \in 0..last
    BY <2>1, <2>2
  <2> QED
    BY <2>1, <2>3, <2>4 DEF n
<1> HIDE DEF last
<1>2. /\ Hits("binchrr", t, u, p) = {q \in 0..last : t[q + 1] \in Among(u)}
      /\ Hits("bninchrr", t, u, p) = {q \in 0..last : t[q + 1] \notin Among(u)}
  BY <1>1 DEF Hits
<1>3. Len(u) = 1 =>
        \A q \in 0..last : t[q + 1] = u[1] <=> t[q + 1] \in Among(u)
  BY AmongOne
<1>4. \A q \in 0..last :
        /\ TestInCharField(BuildCharField(u), t[q + 1]) <=> t[q + 1] \in Among(u)
        /\ TestInCharField(InvertCharField(BuildCharField(u)), t[q + 1])
             <=> t[q + 1] \notin Among(u)
  BY <1>1, FieldAt
<1> QED
  BY <1>2, <1>3, <1>4 DEF last

(* Each search for a character answers with the nearest. *)
LEMMA CharSearchIsNearest ==
  ASSUME NEW f \in CharSearches, NEW t \in Seq(0..UCHAR_MAX),
         NEW u \in Seq(0..UCHAR_MAX), NEW p \in Int
  PROVE  CharSearched(f, t, u, p) =
           IF p \notin 0..Len(t) \/ Hits(f, t, u, p) = {} \/ u = <<>> THEN BSTR_ERR
           ELSE IF f \in {"binchr", "bninchr"} THEN Lowest(Hits(f, t, u, p))
           ELSE Highest(Hits(f, t, u, p))
<1> DEFINE S == Hits(f, t, u, p)
<1>1. Len(t) \in Nat
  OBVIOUS
<1>2. CASE f = "binchr"
  <2>1. CharSearched(f, t, u, p) = Binchr(t, p, u)
    BY <1>2 DEF CharSearched
  <2>2. p = Len(t) => S = {}
    BY <1>1, <1>2 DEF Hits
  <2>3. CASE p \notin 0..(Len(t) - 1) \/ u = <<>>
    <3>1. Binchr(t, p, u) = BSTR_ERR
      BY <1>1, <2>3 DEF Binchr
    <3>2. p \notin 0..Len(t) \/ p = Len(t) \/ u = <<>>
      BY <1>1, <2>3
    <3> HIDE DEF S
    <3>3. p \notin 0..Len(t) \/ S = {} \/ u = <<>>
      BY <2>2, <3>2
    <3> QED
      BY <2>1, <3>1, <3>3 DEF S
  <2>4. CASE p \in 0..(Len(t) - 1) /\ u # <<>>
    <3>1. Len(u) = 1 => {q \in p..(Len(t) - 1) : t[q + 1] = u[1]} = S
      BY <1>2, <2>4, ForwardHits
    <3>2. {q \in p..(Len(t) - 1) : TestInCharField(BuildCharField(u), t[q + 1])} = S
      BY <1>2, <2>4, ForwardHits
    <3>3. p \in 0..Len(t) /\ ~(p < 0) /\ ~(p >= Len(t))
      BY <1>1, <2>4
    <3> HIDE DEF S
    <3>4. Binchr(t, p, u) = IF S = {} THEN BSTR_ERR ELSE Lowest(S)
      BY <2>4, <3>1, <3>2, <3>3 DEF Binchr, Bstrchrp, BinchrCF
    <3> QED
      BY <1>2, <2>1, <2>4, <3>3, <3>4 DEF S
  <2> QED
    BY <2>3, <2>4
<1>3. CASE f = "bninchr"
  <2>1. CharSearched(f, t, u, p) = Bninchr(t, p, u)
    BY <1>3 DEF CharSearched
  <2>2. p = Len(t) => S = {}
    BY <1>1, <1>3 DEF Hits
  <2>3. CASE p \notin 0..(Len(t) - 1) \/ u = <<>>
    <3>1. Bninchr(t, p, u) = BSTR_ERR
      BY <1>1, <2>3 DEF Bninchr
    <3>2. p \notin 0..Len(t) \/ p = Len(t) \/ u = <<>>
      BY <1>1, <2>3
    <3> HIDE DEF S
    <3>3. p \notin 0..Len(t) \/ S = {} \/ u = <<>>
      BY <2>2, <3>2
    <3> QED
      BY <2>1, <3>1, <3>3 DEF S
  <2>4. CASE p \in 0..(Len(t) - 1) /\ u # <<>>
    <3>1. {q \in p..(Len(t) - 1) :
             TestInCharField(InvertCharField(BuildCharField(u)), t[q + 1])} = S
      BY <1>3, <2>4, ForwardHits
    <3>2. p \in 0..Len(t) /\ ~(p < 0) /\ ~(p >= Len(t))
      BY <1>1, <2>4
    <3> HIDE DEF S
    <3>3. Bninchr(t, p, u) = IF S = {} THEN BSTR_ERR ELSE Lowest(S)
      BY <2>4, <3>1, <3>2 DEF Bninchr, BinchrCF
    <3> QED
      BY <1>3, <2>1, <2>4, <3>2, <3>3 DEF S
  <2> QED
    BY <2>3, <2>4
<1>4. CASE f = "binchrr"
  <2>1. CharSearched(f, t, u, p) = Binchrr(t, p, u)
    BY <1>4 DEF CharSearched
  <2>2. CASE p \notin 0..Len(t) \/ u = <<>>
    <3>1. Binchrr(t, p, u) = BSTR_ERR
      BY <1>1, <2>2 DEF Binchrr
    <3> HIDE DEF S
    <3> QED
      BY <2>1, <2>2, <3>1 DEF S
  <2>3. CASE p \in 0..Len(t) /\ u # <<>>
    <3> DEFINE last == FromLast(t, p)
    <3>1. Len(u) = 1 => {q \in 0..last : t[q + 1] = u[1]} = S
      BY <1>4, <2>3, BackwardHits
    <3>2. {q \in 0..last : TestInCharField(BuildCharField(u), t[q + 1])} = S
      BY <1>4, <2>3, BackwardHits
    <3>3. ~(p < 0) /\ ~(p > Len(t)) /\ last \in -1..(Len(t) - 1)
      BY <1>1, <2>3, FromLastFacts
    <3> HIDE DEF last
    <3>4. last < 0 => {q \in 0..last : TestInCharField(BuildCharField(u), t[q + 1])} = {}
      BY <3>3
    <3>5. ~(last >= Len(t)) /\ (last < 0 => S = {})
      <4>1. last < 0 => S = {}
        <5> HIDE DEF S
        <5> QED
          BY <3>2, <3>4
      <4>2. ~(last >= Len(t))
        BY <1>1, <3>3
      <4> QED
        BY <4>1, <4>2
    <3> HIDE DEF S
    <3>6. Len(u) = 1 /\ S # {} => Bstrrchrp(t, u[1], last) = Highest(S)
      BY <3>1, <3>5 DEF Bstrrchrp
    <3>7. Len(u) = 1 /\ S = {} => Bstrrchrp(t, u[1], last) = BSTR_ERR
      BY <3>1 DEF Bstrrchrp
    <3>8. BinchrrCF(t, last, BuildCharField(u)) = IF S = {} THEN BSTR_ERR ELSE Highest(S)
      BY <3>2 DEF BinchrrCF
    <3>9. Binchrr(t, p, u) = IF Len(u) = 1 THEN Bstrrchrp(t, u[1], last)
                             ELSE BinchrrCF(t, last, BuildCharField(u))
      BY <2>3, <3>3 DEF Binchrr, last
    <3>10. Binchrr(t, p, u) = IF S = {} THEN BSTR_ERR ELSE Highest(S)
      BY <3>6, <3>7, <3>8, <3>9
    <3> QED
      BY <1>4, <2>1, <2>3, <3>10 DEF S
  <2> QED
    BY <2>2, <2>3
<1>5. CASE f = "bninchrr"
  <2>1. CharSearched(f, t, u, p) = Bninchrr(t, p, u)
    BY <1>5 DEF CharSearched
  <2>2. CASE p \notin 0..Len(t) \/ u = <<>>
    <3>1. Bninchrr(t, p, u) = BSTR_ERR
      BY <1>1, <2>2 DEF Bninchrr
    <3> HIDE DEF S
    <3> QED
      BY <2>1, <2>2, <3>1 DEF S
  <2>3. CASE p \in 0..Len(t) /\ u # <<>>
    <3> DEFINE last == FromLast(t, p)
               cf == InvertCharField(BuildCharField(u))
    <3>1. {q \in 0..last : TestInCharField(cf, t[q + 1])} = S
      BY <1>5, <2>3, BackwardHits
    <3>2. ~(p < 0) /\ ~(p > Len(t))
      BY <1>1, <2>3
    <3> HIDE DEF S, last, cf
    <3>3. BinchrrCF(t, last, cf) = IF S = {} THEN BSTR_ERR ELSE Highest(S)
      BY <3>1 DEF BinchrrCF
    <3>4. Bninchrr(t, p, u) = BinchrrCF(t, last, cf)
      BY <2>3, <3>2 DEF Bninchrr, last, cf
    <3> QED
      BY <1>5, <2>1, <2>3, <3>3, <3>4 DEF S
  <2> QED
    BY <2>2, <2>3
<1> QED
  BY <1>2, <1>3, <1>4, <1>5 DEF CharSearches

-----------------------------------------------------------------------------
(* Order.  Each comparison gives every text a key, a number for each place *)
(* in it and beyond its end, and orders the texts as their keys are where  *)
(* they first differ.                                                      *)

Places == Nat \ {0}

Keys == [Places -> Int]

Less(f, g) == \E k \in Places : f[k] < g[k] /\ \A l \in 1..(k - 1) : f[l] = g[l]

(* Two keys differ first in one place, one way or the other. *)
LEMMA FirstDifference ==
  ASSUME NEW f \in Keys, NEW g \in Keys, NEW k \in Places, f[k] < g[k],
         \A l \in 1..(k - 1) : f[l] = g[l]
  PROVE  Less(f, g) /\ ~Less(g, f)
<1>1. Less(f, g)
  BY DEF Less
<1>2. ASSUME NEW m \in Places, g[m] < f[m], \A l \in 1..(m - 1) : g[l] = f[l]
      PROVE  FALSE
  <2>1. f[k] \in Int /\ g[k] \in Int /\ f[m] \in Int /\ g[m] \in Int
    BY DEF Keys
  <2>2. k \in Nat /\ m \in Nat /\ k >= 1 /\ m >= 1
    BY DEF Places
  <2>3. CASE k = m
    BY <1>2, <2>1, <2>3
  <2>4. CASE k < m
    <3>1. k \in 1..(m - 1)
      BY <2>2, <2>4
    <3> QED
      BY <1>2, <2>1, <3>1
  <2>5. CASE m < k
    <3>1. m \in 1..(k - 1)
      BY <2>2, <2>5
    <3> QED
      BY <1>2, <2>1, <3>1
  <2> QED
    BY <2>2, <2>3, <2>4, <2>5
<1> QED
  BY <1>1, <1>2 DEF Less

(* A key is not before itself. *)
LEMMA NotLessThanItself ==
  ASSUME NEW f \in Keys
  PROVE  ~Less(f, f)
BY DEF Less, Keys

(* One of two keys that differ is before the other. *)
LEMMA OneIsLess ==
  ASSUME NEW f \in Keys, NEW g \in Keys, f # g
  PROVE  Less(f, g) \/ Less(g, f)
<1> DEFINE D == {k \in Places : f[k] # g[k]}
           k == Lowest(D)
<1>1. D # {}
  BY DEF Keys
<1>2. k \in D /\ \A l \in D : k <= l
  BY <1>1, LowestFacts DEF Places
<1>3. k \in Places /\ f[k] # g[k] /\ k \in Nat
  BY <1>2 DEF Places
<1>4. ASSUME NEW l \in 1..(k - 1) PROVE f[l] = g[l]
  <2> HIDE DEF D, k
  <2>1. l \in Places /\ ~(k <= l)
    BY <1>3 DEF Places
  <2>2. l \notin D
    BY <1>2, <2>1
  <2> QED
    BY <2>1, <2>2 DEF D
<1> HIDE DEF k
<1>5. f[k] \in Int /\ g[k] \in Int
  BY <1>3 DEF Keys
<1>6. CASE f[k] < g[k]
  BY <1>3, <1>4, <1>6 DEF Less
<1>7. CASE g[k] < f[k]
  BY <1>3, <1>4, <1>7 DEF Less
<1> QED
  BY <1>3, <1>5, <1>6, <1>7

(* What is before a key that is before another is before that. *)
LEMMA LessThanLess ==
  ASSUME NEW f \in Keys, NEW g \in Keys, NEW h \in Keys, Less(f, g), Less(g, h)
  PROVE  Less(f, h)
<1>1. PICK k \in Places : f[k] < g[k] /\ \A l \in 1..(k - 1) : f[l] = g[l]
  BY DEF Less
<1>2. PICK m \in Places : g[m] < h[m] /\ \A l \in 1..(m - 1) : g[l] = h[l]
  BY DEF Less
<1>3. k \in Nat /\ m \in Nat /\ k >= 1 /\ m >= 1
  BY DEF Places
<1>4. /\ f[k] \in Int /\ g[k] \in Int /\ h[k] \in Int
      /\ f[m] \in Int /\ g[m] \in Int /\ h[m] \in Int
  BY DEF Keys
<1>5. CASE k <= m
  <2>1. f[k] < h[k]
    <3>1. k = m \/ k \in 1..(m - 1)
      BY <1>3, <1>5
    <3> QED
      BY <1>1, <1>2, <1>4, <3>1
  <2>2. \A l \in 1..(k - 1) : l \in 1..(m - 1)
    BY <1>3, <1>5
  <2>3. \A l \in 1..(k - 1) : f[l] = h[l]
    BY <1>1, <1>2, <2>2
  <2> QED
    BY <2>1, <2>3 DEF Less
<1>6. CASE m < k
  <2>1. m \in 1..(k - 1)
    BY <1>3, <1>6
  <2>2. f[m] < h[m]
    BY <1>1, <1>2, <1>4, <2>1
  <2>3. \A l \in 1..(m - 1) : l \in 1..(k - 1)
    BY <1>3, <1>6
  <2>4. \A l \in 1..(m - 1) : f[l] = h[l]
    BY <1>1, <1>2, <2>3
  <2> QED
    BY <2>2, <2>4 DEF Less
<1> QED
  BY <1>3, <1>5, <1>6

(* That a key is not before another goes from one to the next. *)
LEMMA NotLess ==
  ASSUME NEW f \in Keys, NEW g \in Keys, NEW h \in Keys, ~Less(g, f), ~Less(h, g)
  PROVE  ~Less(h, f)
<1>1. ASSUME Less(h, f) PROVE FALSE
  <2>1. CASE f = g
    BY <1>1, <2>1
  <2>2. CASE Less(f, g)
    BY <1>1, <2>2, LessThanLess
  <2> QED
    BY <2>1, <2>2, OneIsLess
<1> QED
  BY <1>1

(* What v, the answer of a comparison, says of the keys. *)
Says(v, f, g) == v \in Int /\ (v < 0 <=> Less(f, g)) /\ (v > 0 <=> Less(g, f))

(* The difference where the keys first differ says it. *)
LEMMA DifferenceSays ==
  ASSUME NEW f \in Keys, NEW g \in Keys, NEW k \in Places, NEW v \in Int, v # 0,
         v < 0 <=> f[k] < g[k], v > 0 <=> g[k] < f[k],
         \A l \in 1..(k - 1) : f[l] = g[l]
  PROVE  Says(v, f, g)
<1>1. CASE v < 0
  <2>1. Less(f, g) /\ ~Less(g, f)
    BY <1>1, FirstDifference
  <2> QED
    BY <1>1, <2>1 DEF Says
<1>2. CASE v > 0
  <2>1. Less(g, f) /\ ~Less(f, g)
    BY <1>2, FirstDifference
  <2> QED
    BY <1>2, <2>1 DEF Says
<1> QED
  BY <1>1, <1>2

Texts == Seq(0..UCHAR_MAX)

(* What there is in a place of a text. *)
LEMMA PlaceFacts ==
  ASSUME NEW t \in Texts
  PROVE  /\ Len(t) \in Nat /\ DOMAIN t = 1..Len(t)
         /\ \A k \in 1..Len(t) : t[k] \in 0..UCHAR_MAX
<1>1. Len(t) \in Nat /\ DOMAIN t = 1..Len(t)
  BY DEF Texts
<1>2. \A k \in DOMAIN t : t[k] \in 0..UCHAR_MAX
  BY ByteOf DEF Texts
<1> QED
  BY <1>1, <1>2

(* A char is one of 256 numbers, and tells the byte. *)
LEMMA CharFacts ==
  ASSUME NEW c \in 0..UCHAR_MAX, NEW d \in 0..UCHAR_MAX
  PROVE  /\ Char(c) \in -128..127
         /\ Char(c) = Char(d) <=> c = d
         /\ Char(c) = 0 <=> c = NUL
BY DEF Char, UCHAR_MAX, NUL

(* The lesser of two lengths. *)
LEMMA ShorterFacts ==
  ASSUME NEW m \in Nat, NEW n \in Nat
  PROVE  /\ Shorter(m, n) \in Nat /\ Shorter(m, n) <= m /\ Shorter(m, n) <= n
         /\ Shorter(m, n) = m \/ Shorter(m, n) = n
         /\ m <= n => Shorter(m, n) = m
         /\ n <= m => Shorter(m, n) = n
BY DEF Shorter

(* The key of bstrcmp: after a '\0' nothing counts, and the end of a text  *)
(* is below every char.                                                    *)
CmpKey(t) ==
  [k \in Places |->
     IF \E l \in 1..(k - 1) : l <= Len(t) /\ t[l] = NUL THEN 0
     ELSE IF k > Len(t) THEN -129 ELSE Char(t[k])]

(* A key of bstrcmp, in one place. *)
LEMMA CmpKeyFacts ==
  ASSUME NEW t \in Texts, NEW k \in Places
  PROVE  /\ CmpKey(t) \in Keys
         /\ (\E l \in 1..(k - 1) : l <= Len(t) /\ t[l] = NUL) => CmpKey(t)[k] = 0
         /\ (\A l \in 1..(k - 1) : l <= Len(t) => t[l] # NUL) =>
              /\ k > Len(t) => CmpKey(t)[k] = -129
              /\ k <= Len(t) => CmpKey(t)[k] = Char(t[k])
<1>1. \A l \in Places : l <= Len(t) => Char(t[l]) \in Int
  <2>1. \A l \in Places : l <= Len(t) => l \in 1..Len(t)
    BY PlaceFacts DEF Places
  <2> QED
    BY <2>1, PlaceFacts, CharFacts
<1>2. \A l \in Places : l <= Len(t) \/ l > Len(t)
  BY PlaceFacts DEF Places
<1>3. CmpKey(t) \in Keys
  BY <1>1, <1>2 DEF CmpKey, Keys
<1>4. CmpKey(t)[k] = IF \E l \in 1..(k - 1) : l <= Len(t) /\ t[l] = NUL THEN 0
                     ELSE IF k > Len(t) THEN -129 ELSE Char(t[k])
  BY DEF CmpKey
<1>5. k <= Len(t) => ~(k > Len(t))
  BY PlaceFacts DEF Places
<1> QED
  BY <1>3, <1>4, <1>5

(* Where bstrcmp of two texts is decided. *)
Decides(t, u) ==
  {k \in 1..Shorter(Len(t), Len(u)) : t[k] # u[k] \/ t[k] = NUL}

(* In front of there the texts are equal and without '\0'; at it both have *)
(* a character.                                                            *)
LEMMA DecidesFacts ==
  ASSUME NEW t \in Texts, NEW u \in Texts
  PROVE  LET S == Decides(t, u)
             k == Lowest(S)
             n == Shorter(Len(t), Len(u))
         IN  /\ S # {} => /\ k \in 1..n /\ (t[k] # u[k] \/ t[k] = NUL)
                          /\ \A l \in 1..(k - 1) : l \in 1..n /\ t[l] = u[l] /\ t[l] # NUL
             /\ S = {} => \A l \in 1..n : t[l] = u[l] /\ t[l] # NUL
<1> DEFINE S == Decides(t, u)
           k == Lowest(S)
           n == Shorter(Len(t), Len(u))
<1>1. n \in Nat
  BY PlaceFacts, ShorterFacts
<1>2. ASSUME S # {}
      PROVE  /\ k \in 1..n /\ (t[k] # u[k] \/ t[k] = NUL)
             /\ \A l \in 1..(k - 1) : l \in 1..n /\ t[l] = u[l] /\ t[l] # NUL
  <2>1. S \subseteq Nat
    BY DEF Decides
  <2>2. k \in S /\ \A l \in S : k <= l
    BY <1>2, <2>1, LowestFacts
  <2>3. k \in 1..n /\ (t[k] # u[k] \/ t[k] = NUL)
    BY <2>2 DEF Decides
  <2>4. ASSUME NEW l \in 1..(k - 1) PROVE l \in 1..n /\ t[l] = u[l] /\ t[l] # NUL
    <3> HIDE DEF k, n
    <3>1. l \in 1..n /\ ~(k <= l)
      BY <1>1, <2>3
    <3>2. l \notin S
      BY <2>2, <3>1
    <3> QED
      BY <3>1, <3>2 DEF Decides, n
  <2> QED
    BY <2>3, <2>4
<1>3. ASSUME S = {} PROVE \A l \in 1..n : t[l] = u[l] /\ t[l] # NUL
  BY <1>3 DEF Decides
<1> QED
  BY <1>2, <1>3

(* What bstrcmp returns. *)
LEMMA BstrcmpIs ==
  ASSUME NEW t \in Texts, NEW u \in Texts
  PROVE  LET S == Decides(t, u)
             k == Lowest(S)
         IN  Bstrcmp(t, u) = IF S # {} THEN Char(t[k]) - Char(u[k])
                             ELSE IF Len(t) > Len(u) THEN 1
                             ELSE IF Len(t) < Len(u) THEN -1 ELSE 0
BY DEF Bstrcmp, Decides

(* bstrcmp orders texts by their keys. *)
LEMMA BstrcmpSays ==
  ASSUME NEW t \in Texts, NEW u \in Texts
  PROVE  Says(Bstrcmp(t, u), CmpKey(t), CmpKey(u))
<1> DEFINE S == Decides(t, u)
           k == Lowest(S)
           n == Shorter(Len(t), Len(u))
           f == CmpKey(t)
           g == CmpKey(u)
           v == Bstrcmp(t, u)
<1> HIDE DEF S, k, n, f, g, v
<1>1. /\ Len(t) \in Nat /\ Len(u) \in Nat /\ n \in Nat /\ n <= Len(t) /\ n <= Len(u)
      /\ n = Len(t) \/ n = Len(u)
      /\ f \in Keys /\ g \in Keys
      /\ \A l \in 1..n : t[l] \in 0..UCHAR_MAX /\ u[l] \in 0..UCHAR_MAX
  <2>1. Len(t) \in Nat /\ Len(u) \in Nat
    BY PlaceFacts
  <2>2. n \in Nat /\ n <= Len(t) /\ n <= Len(u) /\ (n = Len(t) \/ n = Len(u))
    BY <2>1, ShorterFacts DEF n
  <2>3. f \in Keys /\ g \in Keys
    <3>1. 1 \in Places
      BY DEF Places
    <3> QED
      BY <3>1, CmpKeyFacts DEF f, g
  <2>4. \A l \in 1..n : l \in 1..Len(t) /\ l \in 1..Len(u)
    BY <2>1, <2>2
  <2> QED
    BY <2>1, <2>2, <2>3, <2>4, PlaceFacts
<1>2. ASSUME NEW m \in Places, \A l \in 1..(m - 1) : l \in 1..n => t[l] = u[l] /\ t[l] # NUL
      PROVE  m <= n => f[m] = Char(t[m]) /\ g[m] = Char(u[m])
  <2>1. m <= n => \A l \in 1..(m - 1) : l \in 1..n
    BY <1>1 DEF Places
  <2>2. m <= n => \A l \in 1..(m - 1) : t[l] # NUL /\ u[l] # NUL
    BY <1>2, <2>1
  <2>3. m <= n => m <= Len(t) /\ m <= Len(u)
    BY <1>1 DEF Places
  <2> QED
    BY <2>2, <2>3, CmpKeyFacts DEF f, g
<1>3. CASE S # {}
  <2>1. /\ k \in 1..n /\ (t[k] # u[k] \/ t[k] = NUL)
        /\ \A l \in 1..(k - 1) : l \in 1..n /\ t[l] = u[l] /\ t[l] # NUL
    BY <1>3, DecidesFacts DEF S, k, n
  <2>2. k \in Places /\ k <= n /\ k \in Nat
    BY <1>1, <2>1 DEF Places
  <2>3. f[k] = Char(t[k]) /\ g[k] = Char(u[k])
    BY <1>2, <2>1, <2>2
  <2>4. \A l \in 1..(k - 1) : f[l] = g[l]
    <3> SUFFICES ASSUME NEW l \in 1..(k - 1) PROVE f[l] = g[l]
      OBVIOUS
    <3>1. l \in Places /\ l <= n
      BY <1>1, <2>2 DEF Places
    <3>2. \A h \in 1..(l - 1) : h \in 1..(k - 1)
      BY <2>2
    <3>3. f[l] = Char(t[l]) /\ g[l] = Char(u[l])
      BY <1>2, <2>1, <3>1, <3>2
    <3> QED
      BY <2>1, <3>3
  <2>5. v = Char(t[k]) - Char(u[k])
    BY <1>3, BstrcmpIs DEF S, k, v
  <2>6. Char(t[k]) \in Int /\ Char(u[k]) \in Int
    <3>1. t[k] \in 0..UCHAR_MAX /\ u[k] \in 0..UCHAR_MAX
      BY <1>1, <2>1
    <3>2. Char(t[k]) \in -128..127 /\ Char(u[k]) \in -128..127
      BY <3>1, CharFacts
    <3> QED
      BY <3>2
  <2>7. CASE t[k] # u[k]
    <3>1. Char(t[k]) # Char(u[k])
      BY <1>1, <2>1, <2>7, CharFacts
    <3>2. v \in Int /\ v # 0 /\ (v < 0 <=> f[k] < g[k]) /\ (v > 0 <=> g[k] < f[k])
      BY <2>3, <2>5, <2>6, <3>1
    <3>3. Says(v, f, g)
      BY <1>1, <2>2, <2>4, <3>2, DifferenceSays
    <3> QED
      BY <3>3 DEF v, f, g
  <2>8. CASE t[k] = u[k] /\ t[k] = NUL
    <3>1. v = 0
      BY <2>5, <2>6, <2>8
    <3>2. \A m \in Places : f[m] = g[m]
      <4> SUFFICES ASSUME NEW m \in Places PROVE f[m] = g[m]
        OBVIOUS
      <4>1. CASE m < k
        BY <2>2, <2>4, <4>1 DEF Places
      <4>2. CASE m = k
        BY <2>3, <2>8, <4>2
      <4>3. CASE m > k
        <5>1. k \in 1..(m - 1) /\ k <= Len(t) /\ k <= Len(u)
          BY <1>1, <2>2, <4>3 DEF Places
        <5>2. f[m] = 0 /\ g[m] = 0
          BY <2>8, <5>1, CmpKeyFacts DEF f, g
        <5> QED
          BY <5>2
      <4> QED
        BY <2>2, <4>1, <4>2, <4>3 DEF Places
    <3>3. f = g
      BY <1>1, <3>2 DEF Keys
    <3>4. ~Less(f, g) /\ ~Less(g, f)
      BY <1>1, <3>3, NotLessThanItself
    <3> QED
      BY <3>1, <3>4 DEF Says, v, f, g
  <2> QED
    BY <2>1, <2>7, <2>8
<1>4. CASE S = {}
  <2>1. \A l \in 1..n : t[l] = u[l] /\ t[l] # NUL /\ u[l] # NUL
    BY <1>4, DecidesFacts DEF S, n
  <2>2. \A m \in Places : m <= n => f[m] = g[m]
    <3> SUFFICES ASSUME NEW m \in Places, m <= n PROVE f[m] = g[m]
      OBVIOUS
    <3>1. f[m] = Char(t[m]) /\ g[m] = Char(u[m])
      BY <1>2, <2>1
    <3>2. m \in 1..n
      BY <1>1 DEF Places
    <3> QED
      BY <2>1, <3>1, <3>2
  <2>3. v = IF Len(t) > Len(u) THEN 1 ELSE IF Len(t) < Len(u) THEN -1 ELSE 0
    BY <1>4, BstrcmpIs DEF S, v
  <2>4. n + 1 \in Places
    BY <1>1 DEF Places
  <2>5. \A l \in 1..((n + 1) - 1) : f[l] = g[l] /\ t[l] # NUL /\ u[l] # NUL
    BY <1>1, <2>1, <2>2 DEF Places
  <2>6. /\ n + 1 > Len(t) => f[n + 1] = -129
        /\ n + 1 > Len(u) => g[n + 1] = -129
        /\ n + 1 <= Len(t) => f[n + 1] = Char(t[n + 1]) /\ f[n + 1] \in -128..127
        /\ n + 1 <= Len(u) => g[n + 1] = Char(u[n + 1]) /\ g[n + 1] \in -128..127
    <3>1. /\ n + 1 <= Len(t) => n + 1 \in 1..Len(t)
          /\ n + 1 <= Len(u) => n + 1 \in 1..Len(u)
      BY <1>1
    <3>2. /\ n + 1 <= Len(t) => Char(t[n + 1]) \in -128..127
          /\ n + 1 <= Len(u) => Char(u[n + 1]) \in -128..127
      BY <3>1, PlaceFacts, CharFacts
    <3> DEFINE m == n + 1
    <3>3. /\ \A l \in 1..(m - 1) : t[l] # NUL
          /\ \A l \in 1..(m - 1) : u[l] # NUL
      BY <2>5
    <3>4. m \in Places
      BY <2>4
    <3> HIDE DEF m
    <3>5. /\ m > Len(t) => f[m] = -129
          /\ m <= Len(t) => f[m] = Char(t[m])
      BY <3>3, <3>4, CmpKeyFacts DEF f
    <3>6. /\ m > Len(u) => g[m] = -129
          /\ m <= Len(u) => g[m] = Char(u[m])
      BY <3>3, <3>4, CmpKeyFacts DEF g
    <3> QED
      BY <3>2, <3>5, <3>6 DEF m
  <2>7. CASE Len(t) # Len(u)
    <3> DEFINE a == f[n + 1]
               b == g[n + 1]
    <3>1. CASE Len(t) > Len(u)
      <4>1. v = 1 /\ n = Len(u) /\ n + 1 <= Len(t) /\ n + 1 > Len(u)
        BY <1>1, <2>3, <3>1
      <4>2. b = -129 /\ a \in -128..127
        BY <2>6, <4>1
      <4> HIDE DEF a, b
      <4>3. v \in Int /\ v # 0 /\ (v < 0 <=> a < b) /\ (v > 0 <=> b < a)
        BY <4>1, <4>2
      <4>4. Says(v, f, g)
        BY <1>1, <2>4, <2>5, <4>3, DifferenceSays DEF a, b
      <4> QED
        BY <4>4 DEF v, f, g
    <3>2. CASE Len(t) < Len(u)
      <4>1. v = -1 /\ n = Len(t) /\ n + 1 <= Len(u) /\ n + 1 > Len(t)
        BY <1>1, <2>3, <3>2
      <4>2. a = -129 /\ b \in -128..127
        BY <2>6, <4>1
      <4> HIDE DEF a, b
      <4>3. v \in Int /\ v # 0 /\ (v < 0 <=> a < b) /\ (v > 0 <=> b < a)
        BY <4>1, <4>2
      <4>4. Says(v, f, g)
        BY <1>1, <2>4, <2>5, <4>3, DifferenceSays DEF a, b
      <4> QED
        BY <4>4 DEF v, f, g
    <3> QED
      BY <1>1, <2>7, <3>1, <3>2
  <2>8. CASE Len(t) = Len(u)
    <3>1. v = 0 /\ n = Len(t)
      BY <1>1, <2>3, <2>8
    <3>2. ASSUME NEW m \in Places, m > n PROVE f[m] = g[m]
      <4>1. \A l \in 1..(m - 1) : l <= n => l \in 1..n
        BY <1>1
      <4>2. \A l \in 1..(m - 1) : (l <= Len(t) => t[l] # NUL) /\ (l <= Len(u) => u[l] # NUL)
        BY <2>1, <2>8, <3>1, <4>1
      <4>3. m > Len(t) /\ m > Len(u)
        BY <2>8, <3>1, <3>2
      <4>4. f[m] = -129
        BY <4>2, <4>3, CmpKeyFacts DEF f
      <4>5. g[m] = -129
        BY <4>2, <4>3, CmpKeyFacts DEF g
      <4> QED
        BY <4>4, <4>5
    <3>3. \A m \in Places : f[m] = g[m]
      BY <1>1, <2>2, <3>2 DEF Places
    <3>4. f = g
      BY <1>1, <3>3 DEF Keys
    <3>5. ~Less(f, g) /\ ~Less(g, f)
      BY <1>1, <3>4, NotLessThanItself
    <3> QED
      BY <3>1, <3>5 DEF Says, v, f, g
  <2> QED
    BY <2>7, <2>8
<1> QED
  BY <1>3, <1>4

(* The key of bstricmp: the end of a text is below '\0', above the chars   *)
(* that are negative and below those that are positive.                    *)
CaseValue(d) == IF d = NUL THEN 1 ELSE 2 * Char(d)

CaseKey(t) ==
  [k \in Places |-> IF k > Len(t) THEN 0 ELSE CaseValue(Downcase(t[k]))]

(* Its numbers are ordered as the chars are, and none is that of the end.  *)
LEMMA CaseValueFacts ==
  ASSUME NEW c \in 0..UCHAR_MAX, NEW d \in 0..UCHAR_MAX
  PROVE  /\ CaseValue(c) \in Int /\ CaseValue(c) # 0
         /\ CaseValue(c) < CaseValue(d) <=> Char(c) < Char(d)
<1>1. Char(c) \in -128..127 /\ Char(d) \in -128..127
  BY CharFacts
<1>2. (c = NUL <=> Char(c) = 0) /\ (d = NUL <=> Char(d) = 0)
  BY CharFacts
<1> DEFINE x == Char(c)
           y == Char(d)
<1> HIDE DEF x, y
<1>3. /\ CaseValue(c) = IF x = 0 THEN 1 ELSE 2 * x
      /\ CaseValue(d) = IF y = 0 THEN 1 ELSE 2 * y
  BY <1>2 DEF CaseValue, x, y
<1>4. x \in -128..127 /\ y \in -128..127
  BY <1>1 DEF x, y
<1>5. /\ CaseValue(c) \in Int /\ CaseValue(c) # 0
      /\ CaseValue(c) < CaseValue(d) <=> x < y
  BY <1>3, <1>4
<1> QED
  BY <1>5 DEF x, y

(* What a character adds to a text that has nothing in its place.          *)
LEMMA ExtraFacts ==
  ASSUME NEW c \in 0..UCHAR_MAX
  PROVE  /\ Downcase(c) \in 0..UCHAR_MAX
         /\ Extra(c) \in Int /\ Extra(c) # 0
         /\ Extra(c) < 0 <=> CaseValue(Downcase(c)) < 0
<1>1. Downcase(c) \in 0..UCHAR_MAX
  BY DowncaseAssumption
<1> DEFINE d == Downcase(c)
           x == Char(d)
<1>2. x \in -128..127 /\ (d = NUL <=> x = 0)
  BY <1>1, CharFacts
<1>3. Extra(c) = IF x # 0 THEN x ELSE 256
  BY DEF Extra, UCHAR_MAX
<1>4. CaseValue(d) = IF x = 0 THEN 1 ELSE 2 * x
  BY <1>2 DEF CaseValue
<1> HIDE DEF x
<1> QED
  BY <1>1, <1>2, <1>3, <1>4

(* A key of bstricmp, place by place. *)
LEMMA CaseKeyFacts ==
  ASSUME NEW t \in Texts
  PROVE  /\ CaseKey(t) \in Keys
         /\ \A k \in 1..Len(t) : /\ Downcase(t[k]) \in 0..UCHAR_MAX
                                 /\ CaseKey(t)[k] = CaseValue(Downcase(t[k]))
         /\ \A k \in Places : k > Len(t) => CaseKey(t)[k] = 0
<1>1. \A k \in 1..Len(t) : Downcase(t[k]) \in 0..UCHAR_MAX
  BY PlaceFacts, DowncaseAssumption
<1>2. \A k \in 1..Len(t) : CaseValue(Downcase(t[k])) \in Int
  BY <1>1, CaseValueFacts
<1>3. \A k \in Places : k > Len(t) \/ k \in 1..Len(t)
  BY PlaceFacts DEF Places
<1>4. \A k \in 1..Len(t) : k \in Places /\ ~(k > Len(t))
  BY PlaceFacts DEF Places
<1>5. CaseKey(t) \in Keys
  BY <1>2, <1>3 DEF CaseKey, Keys
<1> QED
  BY <1>1, <1>4, <1>5 DEF CaseKey

(* Where bstricmp of two texts is decided. *)
Differs(t, u) ==
  {k \in 1..Shorter(Len(t), Len(u)) : Downcase(t[k]) # Downcase(u[k])}

(* In front of there they differ in case at most. *)
LEMMA DiffersFacts ==
  ASSUME NEW t \in Texts, NEW u \in Texts
  PROVE  LET S == Differs(t, u)
             k == Lowest(S)
             n == Shorter(Len(t), Len(u))
         IN  /\ S # {} => /\ k \in 1..n /\ Downcase(t[k]) # Downcase(u[k])
                          /\ \A l \in 1..(k - 1) : l \in 1..n /\ Downcase(t[l]) = Downcase(u[l])
             /\ S = {} => \A l \in 1..n : Downcase(t[l]) = Downcase(u[l])
<1> DEFINE S == Differs(t, u)
           k == Lowest(S)
           n == Shorter(Len(t), Len(u))
<1>1. n \in Nat
  BY PlaceFacts, ShorterFacts
<1>2. ASSUME S # {}
      PROVE  /\ k \in 1..n /\ Downcase(t[k]) # Downcase(u[k])
             /\ \A l \in 1..(k - 1) : l \in 1..n /\ Downcase(t[l]) = Downcase(u[l])
  <2>1. S \subseteq Nat
    BY DEF Differs
  <2>2. k \in S /\ \A l \in S : k <= l
    BY <1>2, <2>1, LowestFacts
  <2>3. k \in 1..n /\ Downcase(t[k]) # Downcase(u[k])
    BY <2>2 DEF Differs
  <2>4. ASSUME NEW l \in 1..(k - 1) PROVE l \in 1..n /\ Downcase(t[l]) = Downcase(u[l])
    <3> HIDE DEF k, n
    <3>1. l \in 1..n /\ ~(k <= l)
      BY <1>1, <2>3
    <3>2. l \notin S
      BY <2>2, <3>1
    <3> QED
      BY <3>1, <3>2 DEF Differs, n
  <2> QED
    BY <2>3, <2>4
<1>3. ASSUME S = {} PROVE \A l \in 1..n : Downcase(t[l]) = Downcase(u[l])
  BY <1>3 DEF Differs
<1> QED
  BY <1>2, <1>3

(* What bstricmp returns. *)
LEMMA BstricmpIs ==
  ASSUME NEW t \in Texts, NEW u \in Texts
  PROVE  LET S == Differs(t, u)
             k == Lowest(S)
             n == Shorter(Len(t), Len(u))
         IN  Bstricmp(t, u) =
               IF S # {} THEN Char(Downcase(t[k])) - Char(Downcase(u[k]))
               ELSE IF Len(t) > n THEN Extra(t[n + 1])
               ELSE IF Len(u) > n THEN -Extra(u[n + 1]) ELSE 0
BY DEF Bstricmp, Differs

(* bstricmp orders texts by their keys. *)
LEMMA BstricmpSays ==
  ASSUME NEW t \in Texts, NEW u \in Texts
  PROVE  Says(Bstricmp(t, u), CaseKey(t), CaseKey(u))
<1> DEFINE S == Differs(t, u)
           k == Lowest(S)
           n == Shorter(Len(t), Len(u))
           f == CaseKey(t)
           g == CaseKey(u)
           v == Bstricmp(t, u)
<1> HIDE DEF S, k, n, f, g, v
<1>1. /\ Len(t) \in Nat /\ Len(u) \in Nat /\ n \in Nat /\ n <= Len(t) /\ n <= Len(u)
      /\ n = Len(t) \/ n = Len(u)
  <2>1. Len(t) \in Nat /\ Len(u) \in Nat
    BY PlaceFacts
  <2> QED
    BY <2>1, ShorterFacts DEF n
<1>2. f \in Keys /\ g \in Keys
  BY CaseKeyFacts DEF f, g
<1>3. \A l \in 1..n : /\ Downcase(t[l]) \in 0..UCHAR_MAX /\ f[l] = CaseValue(Downcase(t[l]))
                      /\ Downcase(u[l]) \in 0..UCHAR_MAX /\ g[l] = CaseValue(Downcase(u[l]))
  <2>1. \A l \in 1..n : l \in 1..Len(t) /\ l \in 1..Len(u)
    BY <1>1
  <2> QED
    BY <2>1, CaseKeyFacts DEF f, g
<1>4. \A l \in Places : (l > Len(t) => f[l] = 0) /\ (l > Len(u) => g[l] = 0)
  BY CaseKeyFacts DEF f, g
<1>5. CASE S # {}
  <2>1. /\ k \in 1..n /\ Downcase(t[k]) # Downcase(u[k])
        /\ \A l \in 1..(k - 1) : l \in 1..n /\ Downcase(t[l]) = Downcase(u[l])
    BY <1>5, DiffersFacts DEF S, k, n
  <2>2. k \in Places
    BY <1>1, <2>1 DEF Places
  <2>3. \A l \in 1..(k - 1) : f[l] = g[l]
    BY <1>3, <2>1
  <2>4. v = Char(Downcase(t[k])) - Char(Downcase(u[k]))
    BY <1>5, BstricmpIs DEF S, k, v
  <2> DEFINE x == Char(Downcase(t[k]))
             y == Char(Downcase(u[k]))
  <2>5. x \in -128..127 /\ y \in -128..127 /\ x # y
    BY <1>3, <2>1, CharFacts
  <2>6. (f[k] < g[k] <=> x < y) /\ (g[k] < f[k] <=> y < x)
    BY <1>3, <2>1, CaseValueFacts
  <2> HIDE DEF x, y
  <2>7. v \in Int /\ v # 0 /\ (v < 0 <=> f[k] < g[k]) /\ (v > 0 <=> g[k] < f[k])
    <3>1. v = x - y
      BY <2>4 DEF x, y
    <3> QED
      BY <2>5, <2>6, <3>1
  <2>8. Says(v, f, g)
    BY <1>2, <2>2, <2>3, <2>7, DifferenceSays
  <2> QED
    BY <2>8 DEF v, f, g
<1>6. CASE S = {}
  <2>1. \A l \in 1..n : f[l] = g[l]
    BY <1>3, <1>6, DiffersFacts DEF S, n
  <2>2. \A l \in Places : l <= n => l \in 1..n
    BY <1>1 DEF Places
  <2>3. n + 1 \in Places /\ \A l \in 1..((n + 1) - 1) : f[l] = g[l]
    BY <1>1, <2>1 DEF Places
  <2>4. v = IF Len(t) > n THEN Extra(t[n + 1]) ELSE IF Len(u) > n THEN -Extra(u[n + 1]) ELSE 0
    BY <1>6, BstricmpIs DEF S, n, v
  <2> DEFINE a == f[n + 1]
             b == g[n + 1]
  <2>5. CASE Len(t) > n
    <3> DEFINE e == Extra(t[n + 1])
    <3>1. n + 1 \in 1..Len(t) /\ n + 1 > Len(u)
      BY <1>1, <2>5
    <3>2. t[n + 1] \in 0..UCHAR_MAX
      BY <3>1, PlaceFacts
    <3>3. a = CaseValue(Downcase(t[n + 1])) /\ b = 0 /\ a \in Int /\ a # 0
      BY <1>4, <2>3, <3>1, <3>2, CaseKeyFacts, CaseValueFacts DEF f
    <3>4. e \in Int /\ e # 0 /\ (e < 0 <=> a < 0)
      BY <3>2, <3>3, ExtraFacts
    <3>5. v = e
      BY <2>4, <2>5
    <3> HIDE DEF a, b, e
    <3>6. v \in Int /\ v # 0 /\ (v < 0 <=> a < b) /\ (v > 0 <=> b < a)
      BY <3>3, <3>4, <3>5
    <3>7. Says(v, f, g)
      BY <1>2, <2>3, <3>6, DifferenceSays DEF a, b
    <3> QED
      BY <3>7 DEF v, f, g
  <2>6. CASE ~(Len(t) > n) /\ Len(u) > n
    <3> DEFINE e == Extra(u[n + 1])
    <3>1. n + 1 \in 1..Len(u) /\ n + 1 > Len(t)
      BY <1>1, <2>6
    <3>2. u[n + 1] \in 0..UCHAR_MAX
      BY <3>1, PlaceFacts
    <3>3. b = CaseValue(Downcase(u[n + 1])) /\ a = 0 /\ b \in Int /\ b # 0
      BY <1>4, <2>3, <3>1, <3>2, CaseKeyFacts, CaseValueFacts DEF g
    <3>4. e \in Int /\ e # 0 /\ (e < 0 <=> b < 0)
      BY <3>2, <3>3, ExtraFacts
    <3>5. v = -e
      BY <2>4, <2>6
    <3> HIDE DEF a, b, e
    <3>6. v \in Int /\ v # 0 /\ (v < 0 <=> a < b) /\ (v > 0 <=> b < a)
      BY <3>3, <3>4, <3>5
    <3>7. Says(v, f, g)
      BY <1>2, <2>3, <3>6, DifferenceSays DEF a, b
    <3> QED
      BY <3>7 DEF v, f, g
  <2>7. CASE ~(Len(t) > n) /\ ~(Len(u) > n)
    <3>1. v = 0 /\ Len(t) = n /\ Len(u) = n
      BY <1>1, <2>4, <2>7
    <3>2. \A l \in Places : f[l] = g[l]
      BY <1>1, <1>4, <2>1, <2>2, <3>1 DEF Places
    <3>3. f = g
      BY <1>2, <3>2 DEF Keys
    <3>4. ~Less(f, g) /\ ~Less(g, f)
      BY <1>2, <3>3, NotLessThanItself
    <3> QED
      BY <3>1, <3>4 DEF Says, v, f, g
  <2> QED
    BY <2>5, <2>6, <2>7
<1> QED
  BY <1>5, <1>6

-----------------------------------------------------------------------------
(* The comparisons and one another. *)

(* The first m characters of a text. *)
LEMMA PrefixFacts ==
  ASSUME NEW t \in Texts, NEW m \in 0..Len(t)
  PROVE  /\ SubSeq(t, 1, m) \in Texts /\ Len(SubSeq(t, 1, m)) = m
         /\ \A k \in 1..m : SubSeq(t, 1, m)[k] = t[k]
<1>1. m \in Nat /\ m <= Len(t) /\ Len(t) \in Nat
  BY PlaceFacts
<1>2. \A k \in 1..m : t[k] \in 0..UCHAR_MAX
  <2>1. \A k \in 1..m : k \in 1..Len(t)
    BY <1>1
  <2> QED
    BY <2>1, PlaceFacts
<1> QED
  BY <1>1, <1>2, SubSeqProperties DEF Texts

(* A text is cut to at most n characters, which are its own. *)
LEMMA CutFacts ==
  ASSUME NEW t \in Texts, NEW n \in Nat
  PROVE  /\ Cut(t, n) \in Texts
         /\ Len(Cut(t, n)) = Shorter(n, Len(t))
         /\ \A k \in 1..Shorter(n, Len(t)) : Cut(t, n)[k] = t[k]
<1> DEFINE m == Shorter(n, Len(t))
<1>1. m \in 0..Len(t)
  BY PlaceFacts, ShorterFacts
<1> HIDE DEF m
<1>2. /\ SubSeq(t, 1, m) \in Texts /\ Len(SubSeq(t, 1, m)) = m
      /\ \A k \in 1..m : SubSeq(t, 1, m)[k] = t[k]
  BY <1>1, PrefixFacts DEF Texts
<1> QED
  BY <1>2 DEF Cut, m

(* bstrncmp is bstrcmp of the texts cut. *)
LEMMA BstrncmpIsCut ==
  ASSUME NEW t \in Texts, NEW u \in Texts, NEW n \in Nat
  PROVE  Bstrncmp(t, u, n) = Bstrcmp(Cut(t, n), Cut(u, n))
<1> DEFINE tt == Cut(t, n)
           uu == Cut(u, n)
           m == Shorter(n, Shorter(Len(t), Len(u)))
<1>1. /\ Len(t) \in Nat /\ Len(u) \in Nat
      /\ Len(tt) = Shorter(n, Len(t)) /\ Len(uu) = Shorter(n, Len(u))
      /\ \A k \in 1..Shorter(n, Len(t)) : tt[k] = t[k]
      /\ \A k \in 1..Shorter(n, Len(u)) : uu[k] = u[k]
  BY PlaceFacts, CutFacts
<1> HIDE DEF tt, uu
<1>2. /\ m \in Nat /\ m = Shorter(Len(tt), Len(uu)) /\ m <= Len(tt) /\ m <= Len(uu)
      /\ n = m \/ Len(t) = Len(u) <=> Len(tt) = Len(uu)
      /\ ~(n = m \/ Len(t) = Len(u)) => (Len(t) > m <=> Len(tt) > Len(uu))
      /\ Len(tt) = Len(uu) \/ Len(tt) > Len(uu) \/ Len(tt) < Len(uu)
      /\ ~(Len(tt) > Len(uu) /\ Len(tt) < Len(uu))
      /\ ~(Len(tt) = Len(uu) /\ (Len(tt) < Len(uu) \/ Len(tt) > Len(uu)))
  BY <1>1 DEF Shorter
<1>3. \A k \in 1..m : tt[k] = t[k] /\ uu[k] = u[k]
  <2> HIDE DEF m
  <2>1. \A k \in 1..m : k \in 1..Len(tt) /\ k \in 1..Len(uu)
    BY <1>1, <1>2
  <2> QED
    BY <1>1, <2>1
<1> DEFINE S == {k \in 1..m : t[k] # u[k] \/ t[k] = NUL}
           T == {k \in 1..Shorter(Len(tt), Len(uu)) : tt[k] # uu[k] \/ tt[k] = NUL}
<1>4. S = T
  BY <1>2, <1>3
<1>5. Bstrncmp(t, u, n) =
        IF S # {} THEN Char(t[Lowest(S)]) - Char(u[Lowest(S)])
        ELSE IF n = m \/ Len(t) = Len(u) THEN 0 ELSE IF Len(t) > m THEN 1 ELSE -1
  BY DEF Bstrncmp
<1>6. Bstrcmp(tt, uu) =
        IF T # {} THEN Char(tt[Lowest(T)]) - Char(uu[Lowest(T)])
        ELSE IF Len(tt) > Len(uu) THEN 1 ELSE IF Len(tt) < Len(uu) THEN -1 ELSE 0
  BY DEF Bstrcmp
<1>7. S # {} => Lowest(S) \in 1..m
  <2> HIDE DEF m
  <2>1. S \subseteq 1..m
    OBVIOUS
  <2>2. S \subseteq Nat
    BY <2>1
  <2>3. S # {} => Lowest(S) \in S
    BY <2>2, LowestFacts
  <2> QED
    BY <2>1, <2>3
<1> HIDE DEF S, T, m
<1>8. CASE S # {}
  BY <1>3, <1>4, <1>5, <1>6, <1>7, <1>8 DEF tt, uu
<1>9. CASE S = {}
  BY <1>2, <1>4, <1>5, <1>6, <1>9 DEF tt, uu
<1> QED
  BY <1>8, <1>9

(* Two texts are in the same place for bstricmp when they differ in case   *)
(* at most.                                                                *)
LEMMA BstricmpZero ==
  ASSUME NEW t \in Texts, NEW u \in Texts
  PROVE  Bstricmp(t, u) = 0 <=>
           Len(t) = Len(u) /\ \A k \in 1..Len(t) : Downcase(t[k]) = Downcase(u[k])
<1> DEFINE S == Differs(t, u)
           k == Lowest(S)
           n == Shorter(Len(t), Len(u))
           v == Bstricmp(t, u)
<1> HIDE DEF S, k, n, v
<1>1. /\ Len(t) \in Nat /\ Len(u) \in Nat /\ n \in Nat /\ n <= Len(t) /\ n <= Len(u)
      /\ n = Len(t) \/ n = Len(u)
  <2>1. Len(t) \in Nat /\ Len(u) \in Nat
    BY PlaceFacts
  <2> QED
    BY <2>1, ShorterFacts DEF n
<1>2. v = IF S # {} THEN Char(Downcase(t[k])) - Char(Downcase(u[k]))
          ELSE IF Len(t) > n THEN Extra(t[n + 1])
          ELSE IF Len(u) > n THEN -Extra(u[n + 1]) ELSE 0
  BY BstricmpIs DEF S, k, n, v
<1>3. CASE S # {}
  <2>1. k \in 1..n /\ Downcase(t[k]) # Downcase(u[k])
    BY <1>3, DiffersFacts DEF S, k, n
  <2>2. k \in 1..Len(t) /\ k \in 1..Len(u)
    BY <1>1, <2>1
  <2> DEFINE x == Char(Downcase(t[k]))
             y == Char(Downcase(u[k]))
  <2>3. Downcase(t[k]) \in 0..UCHAR_MAX /\ Downcase(u[k]) \in 0..UCHAR_MAX
    BY <2>2, CaseKeyFacts
  <2>4. x \in -128..127 /\ y \in -128..127 /\ x # y
    BY <2>1, <2>3, CharFacts
  <2>5. v = x - y
    BY <1>2, <1>3
  <2> HIDE DEF x, y
  <2>6. v # 0
    BY <2>4, <2>5
  <2> QED
    BY <2>1, <2>2, <2>6 DEF v
<1>4. CASE S = {}
  <2>1. \A l \in 1..n : Downcase(t[l]) = Downcase(u[l])
    BY <1>4, DiffersFacts DEF S, n
  <2>2. CASE Len(t) > n
    <3>1. n + 1 \in 1..Len(t)
      BY <1>1, <2>2
    <3>2. v # 0
      BY <1>2, <1>4, <2>2, <3>1, PlaceFacts, ExtraFacts
    <3>3. Len(t) # Len(u)
      BY <1>1, <2>2
    <3> QED
      BY <3>2, <3>3 DEF v
  <2>3. CASE ~(Len(t) > n) /\ Len(u) > n
    <3> DEFINE e == Extra(u[n + 1])
    <3>1. n + 1 \in 1..Len(u)
      BY <1>1, <2>3
    <3>2. e \in Int /\ e # 0
      BY <3>1, PlaceFacts, ExtraFacts
    <3>3. v = -e
      BY <1>2, <1>4, <2>3
    <3> HIDE DEF e
    <3>4. v # 0 /\ Len(t) # Len(u)
      BY <1>1, <2>3, <3>2, <3>3
    <3> QED
      BY <3>4 DEF v
  <2>4. CASE ~(Len(t) > n) /\ ~(Len(u) > n)
    <3>1. v = 0 /\ Len(t) = n /\ Len(u) = n
      BY <1>1, <1>2, <1>4, <2>4
    <3> QED
      BY <2>1, <3>1 DEF v
  <2> QED
    BY <2>2, <2>3, <2>4
<1> QED
  BY <1>3, <1>4

(* bstrnicmp answers with a number, 0 when bstricmp does of the texts cut. *)
LEMMA BstrnicmpZero ==
  ASSUME NEW t \in Texts, NEW u \in Texts, NEW n \in Nat
  PROVE  /\ Bstrnicmp(t, u, n) \in Int
         /\ Bstrnicmp(t, u, n) = 0 <=> Bstricmp(Cut(t, n), Cut(u, n)) = 0
<1> DEFINE tt == Cut(t, n)
           uu == Cut(u, n)
           m == Shorter(n, Shorter(Len(t), Len(u)))
           S == {k \in 1..m : Downcase(t[k]) # Downcase(u[k])}
           k == Lowest(S)
           v == Bstrnicmp(t, u, n)
<1>1. /\ Len(t) \in Nat /\ Len(u) \in Nat /\ tt \in Texts /\ uu \in Texts
      /\ Len(tt) = Shorter(n, Len(t)) /\ Len(uu) = Shorter(n, Len(u))
      /\ \A l \in 1..Shorter(n, Len(t)) : tt[l] = t[l]
      /\ \A l \in 1..Shorter(n, Len(u)) : uu[l] = u[l]
  BY PlaceFacts, CutFacts
<1>2. v = IF S # {} THEN t[k] - u[k]
          ELSE IF n = m \/ Len(t) = Len(u) THEN 0
          ELSE IF Len(t) > m THEN Extra(t[m + 1]) ELSE -Extra(u[m + 1])
  BY DEF Bstrnicmp
<1> HIDE DEF tt, uu, v
<1>3. /\ m \in Nat /\ m <= Len(tt) /\ m <= Len(uu) /\ m <= Len(t) /\ m <= Len(u)
      /\ n = m \/ Len(t) = Len(u) <=> Len(tt) = Len(uu)
      /\ Len(tt) = Len(uu) => Len(tt) = m
      /\ ~(n = m \/ Len(t) = Len(u)) => Len(t) > m \/ Len(u) > m
  BY <1>1 DEF Shorter
<1> HIDE DEF m
<1>4. \A l \in 1..m : /\ l \in 1..Len(t) /\ l \in 1..Len(u)
                      /\ tt[l] = t[l] /\ uu[l] = u[l]
  <2>1. \A l \in 1..m : /\ l \in 1..Len(t) /\ l \in 1..Len(u)
                        /\ l \in 1..Len(tt) /\ l \in 1..Len(uu)
    BY <1>1, <1>3
  <2> QED
    BY <1>1, <2>1
<1>5. Bstricmp(tt, uu) = 0 <=>
        Len(tt) = Len(uu) /\ \A l \in 1..Len(tt) : Downcase(tt[l]) = Downcase(uu[l])
  BY <1>1, BstricmpZero
<1>6. Bstricmp(tt, uu) = 0 <=> Len(tt) = Len(uu) /\ S = {}
  BY <1>3, <1>4, <1>5
<1>7. CASE S # {}
  <2>1. S \subseteq Nat
    BY <1>4
  <2>2. k \in S
    BY <1>7, <2>1, LowestFacts
  <2>3. k \in 1..m /\ Downcase(t[k]) # Downcase(u[k])
    BY <2>2
  <2> HIDE DEF k, S
  <2>4. t[k] \in 0..UCHAR_MAX /\ u[k] \in 0..UCHAR_MAX
    BY <1>4, <2>3, PlaceFacts
  <2>5. t[k] # u[k]
    BY <2>3
  <2>6. v = t[k] - u[k]
    BY <1>2, <1>7
  <2> DEFINE x == t[k]
             y == u[k]
  <2>7. x \in Int /\ y \in Int /\ x # y /\ v = x - y
    BY <2>4, <2>5, <2>6
  <2> HIDE DEF x, y
  <2>8. v \in Int /\ v # 0
    BY <2>7
  <2> QED
    BY <1>6, <1>7, <2>8 DEF tt, uu, v
<1>8. CASE S = {}
  <2> HIDE DEF k, S
  <2>1. CASE n = m \/ Len(t) = Len(u)
    BY <1>2, <1>3, <1>6, <1>8, <2>1 DEF tt, uu, v
  <2>2. CASE ~(n = m \/ Len(t) = Len(u))
    <3> DEFINE e == IF Len(t) > m THEN Extra(t[m + 1]) ELSE Extra(u[m + 1])
    <3>1. /\ Len(t) > m => m + 1 \in 1..Len(t)
          /\ ~(Len(t) > m) => m + 1 \in 1..Len(u)
      BY <1>1, <1>3, <2>2
    <3>2. e \in Int /\ e # 0
      BY <3>1, PlaceFacts, ExtraFacts
    <3>3. v = IF Len(t) > m THEN e ELSE -e
      BY <1>2, <1>8, <2>2
    <3> HIDE DEF e
    <3>4. v \in Int /\ v # 0
      BY <3>2, <3>3
    <3> QED
      BY <1>3, <1>6, <2>2, <3>4 DEF tt, uu, v
  <2> QED
    BY <2>1, <2>2
<1> QED
  BY <1>7, <1>8

(* A text has no '\0' and is a C string, or its C string ends in front of  *)
(* the first.                                                              *)
LEMMA CtextFacts ==
  ASSUME NEW t \in Texts
  PROVE  /\ Ctext(t) \in Texts
         /\ \/ Ctext(t) = t /\ \A k \in 1..Len(t) : t[k] # NUL
            \/ \E p \in 1..Len(t) :
                 /\ t[p] = NUL /\ Len(Ctext(t)) = p - 1
                 /\ \A k \in 1..(p - 1) : /\ k \in 1..Len(t) /\ t[k] # NUL
                                          /\ Ctext(t)[k] = t[k]
<1> DEFINE S == {k \in DOMAIN t : t[k] = NUL}
           p == Lowest(S)
<1>1. Len(t) \in Nat /\ DOMAIN t = 1..Len(t)
  BY PlaceFacts
<1>2. Ctext(t) = IF S = {} THEN t ELSE SubSeq(t, 1, p - 1)
  BY DEF Ctext
<1>3. CASE S = {}
  <2>1. \A k \in 1..Len(t) : t[k] # NUL
    BY <1>1, <1>3
  <2> HIDE DEF S
  <2> QED
    BY <1>2, <1>3, <2>1
<1>4. CASE S # {}
  <2>1. S \subseteq Nat
    BY <1>1
  <2>2. p \in S /\ \A k \in S : p <= k
    BY <1>4, <2>1, LowestFacts
  <2>3. p \in 1..Len(t) /\ t[p] = NUL
    BY <1>1, <2>2
  <2> HIDE DEF p
  <2>4. p - 1 \in 0..Len(t)
    BY <1>1, <2>3
  <2>5. \A k \in 1..(p - 1) : k \in 1..Len(t) /\ ~(p <= k)
    BY <1>1, <2>3
  <2>6. \A k \in 1..(p - 1) : t[k] # NUL
    BY <1>1, <2>2, <2>5
  <2> DEFINE q == p - 1
  <2>7. q \in 0..Len(t)
    BY <2>4
  <2> HIDE DEF q
  <2>8. /\ SubSeq(t, 1, q) \in Texts /\ Len(SubSeq(t, 1, q)) = q
        /\ \A k \in 1..q : SubSeq(t, 1, q)[k] = t[k]
    BY <2>7, PrefixFacts
  <2>9. Ctext(t) = SubSeq(t, 1, q)
    BY <1>2, <1>4 DEF q
  <2>10. /\ Ctext(t) \in Texts /\ Len(Ctext(t)) = p - 1
         /\ \A k \in 1..(p - 1) : Ctext(t)[k] = t[k]
    BY <2>8, <2>9 DEF q
  <2> HIDE DEF S
  <2> QED
    BY <2>3, <2>5, <2>6, <2>10
<1> QED
  BY <1>3, <1>4

(* Texts are equal when they are in every place. *)
LEMMA SameText ==
  ASSUME NEW t \in Texts, NEW u \in Texts, Len(t) = Len(u),
         \A k \in 1..Len(t) : t[k] = u[k]
  PROVE  t = u
BY SeqEqual DEF Texts

(* bstrcmp answers 0 when the texts are equal, or are up to a '\0' in both. *)
LEMMA BstrcmpZero ==
  ASSUME NEW t \in Texts, NEW u \in Texts
  PROVE  Bstrcmp(t, u) = 0 <=>
           t = u \/ (Ctext(t) = Ctext(u) /\ Ctext(t) # t /\ Ctext(u) # u)
<1> DEFINE S == Decides(t, u)
           k == Lowest(S)
           n == Shorter(Len(t), Len(u))
           v == Bstrcmp(t, u)
<1> HIDE DEF S, k, n, v
<1>1. /\ Len(t) \in Nat /\ Len(u) \in Nat /\ n \in Nat /\ n <= Len(t) /\ n <= Len(u)
      /\ n = Len(t) \/ n = Len(u)
  <2>1. Len(t) \in Nat /\ Len(u) \in Nat
    BY PlaceFacts
  <2> QED
    BY <2>1, ShorterFacts DEF n
<1>2. v = IF S # {} THEN Char(t[k]) - Char(u[k])
          ELSE IF Len(t) > Len(u) THEN 1 ELSE IF Len(t) < Len(u) THEN -1 ELSE 0
  BY BstrcmpIs DEF S, k, v
<1>3. Ctext(t) \in Texts /\ Ctext(u) \in Texts
  BY CtextFacts
<1>4. CASE S # {}
  <2>1. /\ k \in 1..n /\ (t[k] # u[k] \/ t[k] = NUL)
        /\ \A l \in 1..(k - 1) : l \in 1..n /\ t[l] = u[l] /\ t[l] # NUL
    BY <1>4, DecidesFacts DEF S, k, n
  <2>2. k \in 1..Len(t) /\ k \in 1..Len(u) /\ k \in Nat
    BY <1>1, <2>1
  <2>3. v = 0 <=> t[k] = u[k]
    <3>1. t[k] \in 0..UCHAR_MAX /\ u[k] \in 0..UCHAR_MAX
      BY <2>2, PlaceFacts
    <3> DEFINE x == Char(t[k])
               y == Char(u[k])
    <3>2. x \in -128..127 /\ y \in -128..127 /\ (x = y <=> t[k] = u[k])
      BY <3>1, CharFacts
    <3>3. v = x - y
      BY <1>2, <1>4
    <3> HIDE DEF x, y
    <3>4. v = 0 <=> x = y
      BY <3>2, <3>3
    <3> QED
      BY <3>2, <3>4
  <2>4. ASSUME NEW s \in {t, u}, s[k] = NUL
        PROVE  /\ Len(Ctext(s)) = k - 1 /\ Ctext(s) # s
               /\ \A l \in 1..(k - 1) : Ctext(s)[l] = s[l]
    <3>1. s \in Texts /\ k \in 1..Len(s) /\ \A l \in 1..(k - 1) : s[l] # NUL
      BY <2>1, <2>2
    <3>2. PICK p \in 1..Len(s) :
            /\ s[p] = NUL /\ Len(Ctext(s)) = p - 1
            /\ \A l \in 1..(p - 1) : s[l] # NUL /\ Ctext(s)[l] = s[l]
      BY <2>4, <3>1, CtextFacts
    <3>3. p = k
      <4>1. p \notin 1..(k - 1) /\ k \notin 1..(p - 1)
        BY <2>4, <3>1, <3>2
      <4> QED
        BY <2>2, <3>2, <4>1
    <3>4. Len(s) # k - 1
      BY <3>1
    <3> QED
      BY <3>2, <3>3, <3>4
  <2>5. CASE t[k] = u[k]
    <3>1. t[k] = NUL /\ u[k] = NUL
      BY <2>1, <2>5
    <3>2. /\ Len(Ctext(t)) = k - 1 /\ Ctext(t) # t /\ Len(Ctext(u)) = k - 1 /\ Ctext(u) # u
          /\ \A l \in 1..(k - 1) : Ctext(t)[l] = t[l] /\ Ctext(u)[l] = u[l]
      BY <2>4, <3>1
    <3>3. Ctext(t) = Ctext(u)
      BY <1>3, <2>1, <3>2, SameText
    <3> QED
      BY <2>3, <2>5, <3>2, <3>3 DEF v
  <2>6. CASE t[k] # u[k]
    <3>1. t # u
      BY <2>6
    <3>2. ASSUME Ctext(t) = Ctext(u), Ctext(t) # t, Ctext(u) # u PROVE FALSE
      <4>1. PICK p \in 1..Len(t) :
              /\ t[p] = NUL /\ Len(Ctext(t)) = p - 1
              /\ \A l \in 1..(p - 1) : t[l] # NUL /\ Ctext(t)[l] = t[l]
        BY <3>2, CtextFacts
      <4>2. PICK q \in 1..Len(u) :
              /\ u[q] = NUL /\ Len(Ctext(u)) = q - 1
              /\ \A l \in 1..(q - 1) : u[l] # NUL /\ Ctext(u)[l] = u[l]
        BY <3>2, CtextFacts
      <4>3. p = q /\ p \in Nat
        BY <3>2, <4>1, <4>2
      <4>4. CASE p < k
        <5>1. p \in 1..(k - 1)
          BY <2>2, <4>1, <4>4
        <5> QED
          BY <2>1, <4>1, <5>1
      <4>5. CASE p = k
        BY <2>6, <4>1, <4>2, <4>3, <4>5
      <4>6. CASE k < p
        <5>1. k \in 1..(p - 1) /\ k \in 1..(q - 1)
          BY <2>2, <4>3, <4>6
        <5> QED
          BY <2>6, <3>2, <4>1, <4>2, <5>1
      <4> QED
        BY <2>2, <4>3, <4>4, <4>5, <4>6
    <3> QED
      BY <2>3, <2>6, <3>1, <3>2 DEF v
  <2> QED
    BY <2>5, <2>6
<1>5. CASE S = {}
  <2>1. \A l \in 1..n : t[l] = u[l] /\ t[l] # NUL
    BY <1>5, DecidesFacts DEF S, n
  <2>2. v = 0 <=> Len(t) = Len(u)
    BY <1>1, <1>2, <1>5
  <2>3. Len(t) = Len(u) => t = u
    BY <1>1, <2>1, SameText
  <2>4. Ctext(t) = t \/ Ctext(u) = u
    <3>1. CASE n = Len(t)
      BY <2>1, <3>1, CtextFacts
    <3>2. CASE n = Len(u)
      <4>1. \A l \in 1..Len(u) : u[l] # NUL
        BY <2>1, <3>2
      <4> QED
        BY <4>1, CtextFacts
    <3> QED
      BY <1>1, <3>1, <3>2
  <2> QED
    BY <2>2, <2>3, <2>4 DEF v
<1> QED
  BY <1>4, <1>5

(* A text in lower case is a text, and stays as it is when it is put in    *)
(* lower case once more.                                                   *)
LEMMA LowerFacts ==
  ASSUME NEW t \in Texts
  PROVE  /\ Lower(t) \in Texts /\ Len(Lower(t)) = Len(t)
         /\ \A k \in 1..Len(t) : /\ Downcase(t[k]) \in 0..UCHAR_MAX
                                 /\ Downcase(Lower(t)[k]) = Downcase(t[k])
<1>1. Len(t) \in Nat /\ DOMAIN t = 1..Len(t)
  BY PlaceFacts
<1>2. \A k \in 1..Len(t) : /\ Downcase(t[k]) \in 0..UCHAR_MAX
                           /\ Downcase(Downcase(t[k])) = Downcase(t[k])
  BY PlaceFacts, DowncaseAssumption
<1>3. Lower(t) = [k \in 1..Len(t) |-> Downcase(t[k])]
  BY <1>1 DEF Lower
<1>4. Lower(t) \in [1..Len(t) -> 0..UCHAR_MAX]
  BY <1>2, <1>3
<1>5. Lower(t) \in Texts /\ Len(Lower(t)) = Len(t)
  <2>1. Lower(t) \in Texts
    BY <1>1, <1>4, SeqDef DEF Texts
  <2>2. DOMAIN Lower(t) = 1..Len(t)
    BY <1>3
  <2> QED
    BY <1>1, <2>1, <2>2, PlaceFacts
<1> QED
  BY <1>2, <1>3, <1>5

(* bstricmp of two texts is that of the texts in lower case. *)
LEMMA BstricmpOfLower ==
  ASSUME NEW t \in Texts, NEW u \in Texts
  PROVE  Bstricmp(t, u) = Bstricmp(Lower(t), Lower(u))
<1> DEFINE tt == Lower(t)
           uu == Lower(u)
           n == Shorter(Len(t), Len(u))
           S == Differs(t, u)
           k == Lowest(S)
<1>1. /\ Len(t) \in Nat /\ Len(u) \in Nat /\ n \in Nat /\ n <= Len(t) /\ n <= Len(u)
      /\ n = Len(t) \/ n = Len(u)
  <2>1. Len(t) \in Nat /\ Len(u) \in Nat
    BY PlaceFacts
  <2> QED
    BY <2>1, ShorterFacts
<1>2. /\ tt \in Texts /\ uu \in Texts /\ Len(tt) = Len(t) /\ Len(uu) = Len(u)
      /\ \A l \in 1..Len(t) : Downcase(tt[l]) = Downcase(t[l])
      /\ \A l \in 1..Len(u) : Downcase(uu[l]) = Downcase(u[l])
  BY LowerFacts
<1> HIDE DEF tt, uu
<1>3. n = Shorter(Len(tt), Len(uu))
  BY <1>2
<1> HIDE DEF n
<1>4. \A l \in 1..n : Downcase(tt[l]) = Downcase(t[l]) /\ Downcase(uu[l]) = Downcase(u[l])
  <2>1. \A l \in 1..n : l \in 1..Len(t) /\ l \in 1..Len(u)
    BY <1>1
  <2> QED
    BY <1>2, <2>1
<1>5. Differs(tt, uu) = S
  BY <1>3, <1>4 DEF Differs, n
<1>6. Bstricmp(t, u) =
        IF S # {} THEN Char(Downcase(t[k])) - Char(Downcase(u[k]))
        ELSE IF Len(t) > n THEN Extra(t[n + 1])
        ELSE IF Len(u) > n THEN -Extra(u[n + 1]) ELSE 0
  BY BstricmpIs DEF n
<1>7. Bstricmp(tt, uu) =
        IF S # {} THEN Char(Downcase(tt[k])) - Char(Downcase(uu[k]))
        ELSE IF Len(tt) > n THEN Extra(tt[n + 1])
        ELSE IF Len(uu) > n THEN -Extra(uu[n + 1]) ELSE 0
  <2> HIDE DEF S
  <2> QED
    BY <1>2, <1>3, <1>5, BstricmpIs
<1>8. S # {} => k \in 1..n
  BY DiffersFacts DEF n
<1>9. /\ Len(t) > n => Extra(tt[n + 1]) = Extra(t[n + 1])
      /\ Len(u) > n => Extra(uu[n + 1]) = Extra(u[n + 1])
  <2>1. (Len(t) > n => n + 1 \in 1..Len(t)) /\ (Len(u) > n => n + 1 \in 1..Len(u))
    BY <1>1
  <2> QED
    BY <1>2, <2>1 DEF Extra
<1> HIDE DEF S, k
<1>10. CASE S # {}
  <2>1. Downcase(tt[k]) = Downcase(t[k]) /\ Downcase(uu[k]) = Downcase(u[k])
    BY <1>4, <1>8, <1>10
  <2> QED
    BY <1>6, <1>7, <1>10, <2>1 DEF tt, uu
<1>11. CASE S = {}
  <2>1. /\ Len(t) > n <=> Len(tt) > n
        /\ Len(u) > n <=> Len(uu) > n
    BY <1>2
  <2> QED
    BY <1>6, <1>7, <1>9, <1>11, <2>1 DEF tt, uu
<1> QED
  BY <1>10, <1>11

(* biseqcaseless and bstricmp agree on which texts are equal. *)
LEMMA BiseqcaselessIs ==
  ASSUME NEW t \in Texts, NEW u \in Texts
  PROVE  Biseqcaseless(t, u) = 1 <=> Bstricmp(t, u) = 0
BY BstricmpZero DEF Biseqcaseless, Bool

(* biseq is equality. *)
LEMMA BiseqIs ==
  ASSUME NEW t \in Texts, NEW u \in Texts
  PROVE  Biseq(t, u) = 1 <=> t = u
<1>1. Biseq(t, u) = 1 <=> Len(t) = Len(u) /\ \A k \in 1..Len(t) : t[k] = u[k]
  BY DEF Biseq, Bool
<1> QED
  BY <1>1, SameText

(* A text begins with another when what it is cut to is that.              *)
LEMMA StemIs ==
  ASSUME NEW t \in Texts, NEW u \in Texts
  PROVE  /\ Bisstemeqblk(t, u) = Biseq(Cut(t, Len(u)), u)
         /\ Bisstemeqcaselessblk(t, u) = Biseqcaseless(Cut(t, Len(u)), u)
<1> DEFINE tt == Cut(t, Len(u))
<1>1. Len(t) \in Nat /\ Len(u) \in Nat
  BY PlaceFacts
<1>2. /\ Len(tt) = Shorter(Len(u), Len(t))
      /\ \A k \in 1..Shorter(Len(u), Len(t)) : tt[k] = t[k]
  BY <1>1, CutFacts
<1> HIDE DEF tt
<1>3. CASE Len(t) >= Len(u)
  <2>1. Shorter(Len(u), Len(t)) = Len(u)
    BY <1>1, <1>3, ShorterFacts
  <2>2. Len(tt) = Len(u) /\ \A k \in 1..Len(u) : tt[k] = t[k]
    BY <1>2, <2>1
  <2> QED
    BY <1>3, <2>2 DEF Bisstemeqblk, Biseq, Bisstemeqcaselessblk, Biseqcaseless, Bool, tt
<1>4. CASE ~(Len(t) >= Len(u))
  <2>1. Shorter(Len(u), Len(t)) = Len(t)
    BY <1>1, <1>4, ShorterFacts
  <2>2. Len(tt) # Len(u)
    BY <1>1, <1>2, <1>4, <2>1
  <2> QED
    BY <1>4, <2>2 DEF Bisstemeqblk, Biseq, Bisstemeqcaselessblk, Biseqcaseless, Bool, tt
<1> QED
  BY <1>3, <1>4

(* A text is a C string when it is what lies in front of its terminator.   *)
LEMMA CstrIs ==
  ASSUME NEW t \in Texts, NEW u \in Texts
  PROVE  /\ Biseqcstr(t, u) = Biseq(t, Ctext(u))
         /\ Biseqcstrcaseless(t, u) = Biseqcaseless(t, Ctext(u))
<1> DEFINE c == Ctext(u)
           n == Len(t)
<1>1. n \in Nat /\ Len(u) \in Nat /\ DOMAIN u = 1..Len(u)
  BY PlaceFacts
<1>2. Len(c) \in 0..Len(u)
  <2>1. CASE c = u
    BY <1>1, <2>1
  <2>2. CASE c # u
    BY <1>1, <2>2, CtextFacts
  <2> QED
    BY <2>1, <2>2
<1>3. /\ \A k \in 1..Len(c) : At(u, k) = c[k] /\ At(u, k) # NUL
      /\ At(u, Len(c) + 1) = NUL
  <2>1. CASE c = u /\ \A k \in 1..Len(u) : u[k] # NUL
    <3>1. Len(u) + 1 \notin 1..Len(u)
      BY <1>1
    <3> QED
      BY <1>1, <2>1, <3>1 DEF At
  <2>2. CASE ~(c = u /\ \A k \in 1..Len(u) : u[k] # NUL)
    <3>1. PICK p \in 1..Len(u) :
            /\ u[p] = NUL /\ Len(c) = p - 1
            /\ \A k \in 1..(p - 1) : k \in 1..Len(u) /\ u[k] # NUL /\ c[k] = u[k]
      BY <2>2, CtextFacts
    <3>2. Len(c) + 1 = p
      BY <1>1, <3>1
    <3> QED
      BY <1>1, <3>1, <3>2 DEF At
  <2> QED
    BY <2>1, <2>2
<1> HIDE DEF c, n
<1>4. (\A k \in 1..n : At(u, k) # NUL) /\ At(u, n + 1) = NUL => n = Len(c)
  <2>1. CASE n < Len(c)
    <3>1. n + 1 \in 1..Len(c)
      BY <1>1, <1>2, <2>1
    <3> QED
      BY <1>3, <3>1
  <2>2. CASE n > Len(c)
    <3>1. Len(c) + 1 \in 1..n
      BY <1>1, <1>2, <2>2
    <3> QED
      BY <1>3, <3>1
  <2> QED
    BY <1>1, <1>2, <2>1, <2>2
<1>5. /\ (\A k \in 1..n : At(u, k) # NUL /\ t[k] = At(u, k)) /\ At(u, n + 1) = NUL
           <=> n = Len(c) /\ \A k \in 1..n : t[k] = c[k]
      /\ (\A k \in 1..n : At(u, k) # NUL /\ Downcase(t[k]) = Downcase(At(u, k)))
           /\ At(u, n + 1) = NUL
           <=> n = Len(c) /\ \A k \in 1..n : Downcase(t[k]) = Downcase(c[k])
  BY <1>3, <1>4
<1>6. Biseqcstr(t, u) = Biseq(t, c)
  BY <1>5 DEF Biseqcstr, Biseq, n
<1>7. Biseqcstrcaseless(t, u) = Biseqcaseless(t, c)
  BY <1>5 DEF Biseqcstrcaseless, Biseqcaseless, n
<1> QED
  BY <1>6, <1>7 DEF c

-----------------------------------------------------------------------------
(* The functions that answer at once, called. *)

(* The key by which the comparison f, of n characters at most, orders t.   *)
OrderKey(f, t, n) ==
  CASE f = "bstrcmp" -> CmpKey(t)
    [] f = "bstrncmp" -> CmpKey(Cut(t, n))
    [] f = "bstricmp" -> CaseKey(t)

(* All but bstrnicmp order texts by keys. *)
LEMMA OrderSays ==
  ASSUME NEW f \in Orders \ {"bstrnicmp"}, NEW t \in Texts, NEW u \in Texts, NEW n \in Nat
  PROVE  /\ OrderKey(f, t, n) \in Keys
         /\ Says(Compared(f, t, u, n), OrderKey(f, t, n), OrderKey(f, u, n))
<1>1. Cut(t, n) \in Texts /\ Cut(u, n) \in Texts /\ 1 \in Places
  BY CutFacts DEF Places
<1>2. CASE f = "bstrcmp"
  BY <1>1, <1>2, BstrcmpSays, CmpKeyFacts DEF Compared, OrderKey
<1>3. CASE f = "bstrncmp"
  BY <1>1, <1>3, BstrncmpIsCut, BstrcmpSays, CmpKeyFacts DEF Compared, OrderKey
<1>4. CASE f = "bstricmp"
  BY <1>4, BstricmpSays, CaseKeyFacts DEF Compared, OrderKey
<1> QED
  BY <1>2, <1>3, <1>4 DEF Orders

(* So they put two texts one way or the other, and three in a row.         *)
LEMMA OrderFacts ==
  ASSUME NEW f \in Orders \ {"bstrnicmp"}, NEW t \in Texts, NEW u \in Texts, NEW n \in Nat
  PROVE  /\ Sign(Compared(f, u, t, n)) = -Sign(Compared(f, t, u, n))
         /\ Compared(f, t, u, n) <= 0 =>
              \A s \in Texts : Compared(f, u, s, n) <= 0 => Compared(f, t, s, n) <= 0
<1> DEFINE key(s) == OrderKey(f, s, n)
<1>1. \A s, r \in Texts : key(s) \in Keys /\ Says(Compared(f, s, r, n), key(s), key(r))
  BY OrderSays
<1> HIDE DEF key
<1>2. Sign(Compared(f, u, t, n)) = -Sign(Compared(f, t, u, n))
  <2> DEFINE v == Compared(f, t, u, n)
             w == Compared(f, u, t, n)
  <2>1. v \in Int /\ w \in Int /\ (v < 0 <=> w > 0) /\ (v > 0 <=> w < 0)
    BY <1>1 DEF Says
  <2> HIDE DEF v, w
  <2>2. Sign(w) = -Sign(v)
    BY <2>1 DEF Sign
  <2> QED
    BY <2>2 DEF v, w
<1>3. ASSUME NEW s \in Texts, Compared(f, t, u, n) <= 0, Compared(f, u, s, n) <= 0
      PROVE  Compared(f, t, s, n) <= 0
  <2> DEFINE v == Compared(f, t, u, n)
             w == Compared(f, u, s, n)
             x == Compared(f, t, s, n)
  <2>1. /\ Says(v, key(t), key(u)) /\ Says(w, key(u), key(s)) /\ Says(x, key(t), key(s))
        /\ key(t) \in Keys /\ key(u) \in Keys /\ key(s) \in Keys
    BY <1>1
  <2>2. v <= 0 /\ w <= 0
    BY <1>3
  <2> HIDE DEF v, w, x
  <2>3. ~Less(key(u), key(t)) /\ ~Less(key(s), key(u))
    BY <2>1, <2>2 DEF Says
  <2>4. ~Less(key(s), key(t))
    BY <2>1, <2>3, NotLess
  <2>5. x <= 0
    BY <2>1, <2>4 DEF Says
  <2> QED
    BY <2>5 DEF x
<1> QED
  BY <1>2, <1>3

(* A comparison answers with a number, and agrees with the others.         *)
LEMMA ComparedFacts ==
  ASSUME NEW f \in Orders \cup Equalities, NEW t \in Texts, NEW u \in Texts, NEW n \in Nat
  PROVE  LET v == Compared(f, t, u, n)
         IN  /\ v \in Int
             /\ f = "bstrncmp" => Sign(v) = Sign(Bstrcmp(Cut(t, n), Cut(u, n)))
             /\ f = "bstrnicmp" => (v = 0) = (Bstricmp(Cut(t, n), Cut(u, n)) = 0)
             /\ f = "bstrcmp" => (v = 0) =
                  (t = u \/ (Ctext(t) = Ctext(u) /\ Ctext(t) # t /\ Ctext(u) # u))
             /\ f = "bstricmp" => v = Bstricmp(Lower(t), Lower(u))
             /\ f = "biseqcaseless" => (v = 1) = (Bstricmp(t, u) = 0)
             /\ f = "biseq" => (v = 1) = (t = u)
             /\ f = "bisstemeqblk" => v = Biseq(Cut(t, Len(u)), u)
             /\ f = "bisstemeqcaselessblk" => v = Biseqcaseless(Cut(t, Len(u)), u)
             /\ f = "biseqcstr" => v = Biseq(t, Ctext(u))
             /\ f = "biseqcstrcaseless" => v = Biseqcaseless(t, Ctext(u))
<1>1. CASE f \in Orders \ {"bstrnicmp"}
  <2>1. Compared(f, t, u, n) \in Int
    BY <1>1, OrderSays DEF Says
  <2>2. CASE f = "bstrcmp"
    BY <2>1, <2>2, BstrcmpZero DEF Compared
  <2>3. CASE f = "bstrncmp"
    BY <2>1, <2>3, BstrncmpIsCut DEF Compared
  <2>4. CASE f = "bstricmp"
    BY <2>1, <2>4, BstricmpOfLower DEF Compared
  <2> QED
    BY <1>1, <2>2, <2>3, <2>4 DEF Orders
<1>2. CASE f = "bstrnicmp"
  BY <1>2, BstrnicmpZero DEF Compared
<1>3. CASE f \in Equalities
  <2>1. Compared(f, t, u, n) \in Int
    BY <1>3 DEF Equalities, Compared, Bool, Biseq, Biseqcaseless, Bisstemeqblk,
                Bisstemeqcaselessblk, Biseqcstr, Biseqcstrcaseless
  <2>2. CASE f = "biseq" \/ f = "biseqcaseless"
    BY <2>1, <2>2, BiseqIs, BiseqcaselessIs DEF Compared
  <2>3. CASE f = "bisstemeqblk" \/ f = "bisstemeqcaselessblk"
    BY <2>1, <2>3, StemIs DEF Compared
  <2>4. CASE f = "biseqcstr" \/ f = "biseqcstrcaseless"
    BY <2>1, <2>4, CstrIs DEF Compared
  <2> QED
    BY <1>3, <2>2, <2>3, <2>4 DEF Equalities
<1> QED
  BY <1>1, <1>2, <1>3

(* Of a search for a text they say nothing, nor of a call that runs or is  *)
(* none.                                                                   *)
LEMMA NothingToSay ==
  ASSUME fun' \in Searches \/ pc' # "done"
  PROVE  NearestCharIsFound' /\ OrderIsTotal' /\ ComparisonsAgree'
<1>1. CASE pc' # "done"
  BY <1>1 DEF NearestCharIsFound, OrderIsTotal, ComparisonsAgree
<1>2. CASE fun' \in Searches
  BY <1>2, Zenon DEF NearestCharIsFound, OrderIsTotal, ComparisonsAgree, Searches, Forward,
                     Backward, CharSearches, Orders
<1> QED
  BY <1>1, <1>2

(* The functions that answer at once answer with what they should.         *)
LEMMA FindCharSound ==
  ASSUME FindChar
  PROVE  AnswersAgree'
<1>1. PICK f \in CharSearches, t \in Hays, u \in Needles, p \in Positions :
        At1(f, t, u, p, CharSearched(f, t, u, p))
  BY DEF FindChar
<1>2. /\ t \in Seq(0..UCHAR_MAX) /\ u \in Seq(0..UCHAR_MAX) /\ p \in Int
  BY SearchAssumption
<1>3. /\ fun' = f /\ b1' = t /\ b2' = u /\ pos' = p
      /\ i' = 0 /\ j' = 0 /\ ii' = -1 /\ pc' = "done"
      /\ ret' = CharSearched(f, t, u, p)
  BY <1>1 DEF At1
<1> DEFINE S == Hits(f, t, u, p)
           v == CharSearched(f, t, u, p)
<1>4. v = IF p \notin 0..Len(t) \/ S = {} \/ u = <<>> THEN BSTR_ERR
          ELSE IF f \in {"binchr", "bninchr"} THEN Lowest(S) ELSE Highest(S)
  BY <1>2, CharSearchIsNearest
<1>5. S \subseteq 0..(Len(t) - 1) /\ Len(t) - 1 \in Int /\ S \subseteq Nat
  <2>1. Len(t) \in Nat
    BY <1>2
  <2>2. S \subseteq 0..(Len(t) - 1)
    BY DEF Hits
  <2> HIDE DEF S
  <2> QED
    BY <2>1, <2>2
<1>6. v \in Int
  <2> HIDE DEF S, v
  <2>1. S # {} => Lowest(S) \in S /\ Highest(S) \in S
    BY <1>5, LowestFacts, HighestFacts
  <2>2. \A x \in S : x \in Int
    <3>1. \A x \in Nat : x \in Int
      OBVIOUS
    <3> QED
      BY <1>5, <3>1, Zenon
  <2>3. BSTR_ERR \in Int
    BY DEF BSTR_ERR
  <2> QED
    BY <1>4, <2>1, <2>2, <2>3
<1>7. TypeOK'
  <2> HIDE DEF v
  <2>1. ret' \in Int
    BY <1>3, <1>6 DEF v
  <2> QED
    BY <1>2, <1>3, <2>1 DEF TypeOK
<1>8. NearestCharIsFound'
  <2>1. NearestCharIsFound' <=>
          (pc' = "done" /\ fun' \in CharSearches =>
             IF pos' \notin 0..Len(b1') \/ Hits(fun', b1', b2', pos') = {} \/ b2' = <<>>
             THEN ret' = BSTR_ERR
             ELSE ret' = IF fun' \in {"binchr", "bninchr"}
                         THEN Lowest(Hits(fun', b1', b2', pos'))
                         ELSE Highest(Hits(fun', b1', b2', pos')))
    BY DEF NearestCharIsFound, Hits, Among
  <2>2. S = Hits(fun', b1', b2', pos')
    BY <1>3
  <2> HIDE DEF S, v
  <2>3. ret' = v
    BY <1>3 DEF v
  <2> QED
    BY <1>3, <1>4, <2>1, <2>2, <2>3
<1>9. OrderIsTotal' /\ ComparisonsAgree'
  BY <1>3 DEF OrderIsTotal, ComparisonsAgree, CharSearches, Orders
<1> QED
  BY <1>7, <1>8, <1>9 DEF AnswersAgree

(* So do the comparisons. *)
LEMMA CompareSound ==
  ASSUME Compare
  PROVE  AnswersAgree'
<1>1. PICK f \in Orders \cup Equalities, t \in Samples, u \in Samples, n \in Positions \cap Nat :
        At1(f, t, u, n, Compared(f, t, u, n))
  BY DEF Compare
<1>2. /\ t \in Texts /\ u \in Texts /\ n \in Nat /\ Samples \subseteq Texts
  BY SearchAssumption DEF Texts
<1> DEFINE v == Compared(f, t, u, n)
<1>3. /\ fun' = f /\ b1' = t /\ b2' = u /\ pos' = n
      /\ i' = 0 /\ j' = 0 /\ ii' = -1 /\ pc' = "done" /\ ret' = v
  BY <1>1 DEF At1
<1>4. v \in Int
  BY <1>2, ComparedFacts
<1>5. TypeOK'
  <2> HIDE DEF v
  <2> QED
    BY <1>2, <1>3, <1>4 DEF TypeOK, Texts
<1>6. NearestCharIsFound'
  BY <1>3 DEF NearestCharIsFound, CharSearches, Orders, Equalities
<1>7. OrderIsTotal'
  <2>1. CASE f \in Orders \ {"bstrnicmp"}
    <3>1. /\ Sign(Compared(f, u, t, n)) = -Sign(v)
          /\ v <= 0 => \A s \in Texts : Compared(f, u, s, n) <= 0 => Compared(f, t, s, n) <= 0
      BY <1>2, <2>1, OrderFacts
    <3> HIDE DEF v
    <3> QED
      BY <1>2, <1>3, <3>1 DEF OrderIsTotal
  <2>2. CASE f \notin Orders \ {"bstrnicmp"}
    BY <1>3, <2>2 DEF OrderIsTotal
  <2> QED
    BY <2>1, <2>2
<1>8. ComparisonsAgree'
  <2>1. /\ f = "bstrncmp" => Sign(v) = Sign(Bstrcmp(Cut(t, n), Cut(u, n)))
        /\ f = "bstrnicmp" => (v = 0) = (Bstricmp(Cut(t, n), Cut(u, n)) = 0)
        /\ f = "bstrcmp" => (v = 0) =
             (t = u \/ (Ctext(t) = Ctext(u) /\ Ctext(t) # t /\ Ctext(u) # u))
        /\ f = "bstricmp" => v = Bstricmp(Lower(t), Lower(u))
        /\ f = "biseqcaseless" => (v = 1) = (Bstricmp(t, u) = 0)
        /\ f = "biseq" => (v = 1) = (t = u)
        /\ f = "bisstemeqblk" => v = Biseq(Cut(t, Len(u)), u)
        /\ f = "bisstemeqcaselessblk" => v = Biseqcaseless(Cut(t, Len(u)), u)
        /\ f = "biseqcstr" => v = Biseq(t, Ctext(u))
        /\ f = "biseqcstrcaseless" => v = Biseqcaseless(t, Ctext(u))
    BY <1>2, ComparedFacts
  <2> HIDE DEF v
  <2> QED
    BY <1>3, <2>1 DEF ComparisonsAgree
<1> QED
  BY <1>5, <1>6, <1>7, <1>8 DEF AnswersAgree

(* The searches for a text keep the types. *)
LEMMA SearchesSound ==
  ASSUME SearchInv, SearchInv', TypeOK, Begin \/ Loop
  PROVE  AnswersAgree'
<1>1. pc' = "loop" =>
        /\ i' >= 0 /\ b2' # <<>> /\ j' < Len(b2')
        /\ i' <= IF fun' = "binstr" THEN Len(b1') ELSE Len(b1') - Len(b2')
  <2>1. pc' = "loop" => /\ i' \in Nat /\ j' < Len(b2') /\ Len(b2') >= 1
                        /\ b2' \in Seq(0..UCHAR_MAX)
    BY DEF SearchInv, LoopType
  <2>2. pc' = "loop" => i' <= IF fun' = "binstr" THEN Len(b1') ELSE Len(b1') - Len(b2')
    BY DEF SearchInv, ScanSound, BinstrSound
  <2> QED
    BY <2>1, <2>2
<1>2. CASE Begin
  <2>1. PICK f \in Searches, t \in Hays, u \in Needles, p \in Positions, same \in BOOLEAN :
          Enter(f, t, u, p, same)
    BY <1>2 DEF Begin
  <2>2. /\ t \in Seq(0..UCHAR_MAX) /\ u \in Seq(0..UCHAR_MAX) /\ p \in Int
        /\ Len(t) - Len(u) \in Int
    BY SearchAssumption
  <2>3. /\ fun' = f /\ b1' = t /\ b2' = u /\ pos' = p /\ j' = 0 /\ ii' = -1
        /\ i' = IF f \in Backward /\ p > Len(t) - Len(u) THEN Len(t) - Len(u) ELSE p
        /\ pc' \in {"loop", "done"} /\ ret' \in {BSTR_ERR, p, 0}
    BY <2>1 DEF Enter
  <2>4. i' \in Int /\ ret' \in Int
    BY <2>2, <2>3 DEF BSTR_ERR
  <2>5. TypeOK'
    BY <1>1, <2>2, <2>3, <2>4 DEF TypeOK
  <2>6. fun' \in Searches
    BY <2>3
  <2> QED
    BY <2>5, <2>6, NothingToSay DEF AnswersAgree
<1>3. CASE Loop
  <2>1. pc = "loop" /\ fun \in Searches /\ UNCHANGED <<fun, b1, b2, pos>>
    BY <1>3 DEF SearchInv, LoopType, Loop, Scan, Single, Skip, Take, Misaligned, Running,
                Complete, Return
  <2>2. /\ i \in Int /\ j \in Nat /\ ii \in Int /\ ret \in Int
        /\ Len(b2) \in Nat
    BY DEF TypeOK
  <2>3. /\ i' \in Int /\ j' \in Nat /\ ii' \in Int /\ ret' \in Int
        /\ pc' \in {"loop", "done"}
    <3> DEFINE Typed == /\ i' \in Int /\ j' \in Nat /\ ii' \in Int /\ ret' \in Int
                        /\ pc' \in {"loop", "done"}
    <3>1. ASSUME NEW k \in Int, NEW start \in Int, NEW n \in Int, Complete(k, start, n)
          PROVE  Typed
      BY <2>1, <2>2, <3>1 DEF Complete, Return
    <3>2. CASE Scan
      <4>1. \/ ret' \in {i, BSTR_ERR} /\ pc' = "done" /\ UNCHANGED <<i, j, ii>>
            \/ j' = j + 1 /\ UNCHANGED <<pc, i, ii, ret>>
            \/ i' \in {i + 1, i - 1} /\ j' = 0 /\ UNCHANGED <<pc, ii, ret>>
        BY <3>2 DEF Scan, Return
      <4> QED
        BY <2>1, <2>2, <4>1 DEF BSTR_ERR
    <3>3. CASE Single
      <4>1. \/ ret' \in {i, BSTR_ERR} /\ pc' = "done" /\ UNCHANGED <<i, j, ii>>
            \/ i' = i + 1 /\ UNCHANGED <<pc, j, ii, ret>>
        BY <3>3 DEF Single, Return
      <4> QED
        BY <2>1, <2>2, <4>1 DEF BSTR_ERR
    <3>4. CASE Skip
      BY <2>1, <2>2, <3>4 DEF Skip
    <3>5. CASE Take
      <4>1. PICK k \in {i, i + 1} :
              IF j + 1 < Len(b2)
              THEN j' = j + 1 /\ i' = k + 1 /\ ii' = Start(k) /\ UNCHANGED <<pc, ret>>
              ELSE Complete(k + 1, Start(k), j + 1)
        BY <3>5 DEF Take
      <4>2. k + 1 \in Int /\ Start(k) \in Int /\ j + 1 \in Nat /\ j + 1 \in Int
        BY <2>2 DEF Start
      <4>3. CASE j + 1 < Len(b2)
        BY <2>1, <2>2, <4>1, <4>2, <4>3
      <4>4. CASE ~(j + 1 < Len(b2))
        BY <3>1, <4>1, <4>2, <4>4
      <4> QED
        BY <4>3, <4>4
    <3>6. CASE Misaligned
      <4>1. Complete(i, ii, j) \/ Return(BSTR_ERR)
        BY <3>6 DEF Misaligned
      <4>2. Return(BSTR_ERR) => Typed
        BY <2>2 DEF Return, BSTR_ERR
      <4> QED
        BY <2>2, <3>1, <4>1, <4>2
    <3> QED
      BY <1>3, <3>2, <3>3, <3>4, <3>5, <3>6 DEF Loop
  <2>4. TypeOK'
    BY <1>1, <2>1, <2>3 DEF TypeOK
  <2>5. fun' \in Searches
    BY <2>1
  <2> QED
    BY <2>4, <2>5, NothingToSay DEF AnswersAgree
<1> QED
  BY <1>2, <1>3

(***************************************************************************)
(* The searches for a character answer with the nearest one, bstrcmp,      *)
(* bstrncmp and bstricmp order all texts, and the comparisons agree with   *)
(* one another: for all texts and every tolower that leaves lower case as  *)
(* it is.                                                                  *)
(***************************************************************************)
THEOREM AnswersAreRight == Spec => []AnswersAgree
<1>1. Init => AnswersAgree
  <2>1. Init => TypeOK
    <3>1. <<>> \in Seq(0..UCHAR_MAX)
      BY EmptySeq
    <3> QED
      BY <3>1 DEF Init, TypeOK, BSTR_ERR
  <2>2. Init => NearestCharIsFound /\ OrderIsTotal /\ ComparisonsAgree
    BY DEF Init, NearestCharIsFound, OrderIsTotal, ComparisonsAgree
  <2> QED
    BY <2>1, <2>2 DEF AnswersAgree
<1>2. AnswersAgree /\ SearchInv /\ SearchInv' /\ [Next]_vars => AnswersAgree'
  <2> SUFFICES ASSUME AnswersAgree, SearchInv, SearchInv', [Next]_vars PROVE AnswersAgree'
    OBVIOUS
  <2>1. CASE Begin \/ Loop
    BY <2>1, SearchesSound DEF AnswersAgree
  <2>2. CASE FindChar
    BY <2>2, FindCharSound
  <2>3. CASE Compare
    BY <2>3, CompareSound
  <2>4. CASE Taken
    <3>1. <<>> \in Seq(0..UCHAR_MAX)
      BY EmptySeq
    <3>2. TypeOK'
      BY <2>4, <3>1 DEF Taken, TypeOK, BSTR_ERR
    <3>3. pc' # "done"
      BY <2>4 DEF Taken
    <3> QED
      BY <3>2, <3>3, NothingToSay DEF AnswersAgree
  <2>5. CASE UNCHANGED vars
    <3>1. UNCHANGED <<fun, b1, b2, pos, pc, i, j, ii, ret>>
      BY <2>5 DEF vars
    <3>2. TypeOK'
      BY <3>1 DEF AnswersAgree, TypeOK
    <3>3. NearestCharIsFound'
      BY <3>1 DEF AnswersAgree, NearestCharIsFound
    <3>4. OrderIsTotal'
      BY <3>1 DEF AnswersAgree, OrderIsTotal
    <3>5. ComparisonsAgree'
      BY <3>1 DEF AnswersAgree, ComparisonsAgree
    <3> QED
      BY <3>2, <3>3, <3>4, <3>5 DEF AnswersAgree
  <2> QED
    BY <2>1, <2>2, <2>3, <2>4, <2>5 DEF Next
<1> QED
  BY <1>1, <1>2, SearchInvariant, PTL DEF Spec

=============================================================================

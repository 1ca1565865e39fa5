---------------------------- MODULE DecodingProofs ----------------------------
(***************************************************************************)
(* The two components that decode what comes to them.                      *)
(*                                                                         *)
(* bsUuDecode, for all inputs, lengths of a line, of a group and of a read *)
(* and all requests: what is handed over is the text of the lines, in      *)
(* order and with nothing left out, and the end is met only behind it.     *)
(*                                                                         *)
(* The inductive invariant follows the position in the input: src and what *)
(* is left to read are what lies behind it, it is behind the end of a      *)
(* line, and what was handed over and is in dst is the text of the lines   *)
(* in front of it.  When the last line is decoded, or one that is bad and  *)
(* not counted, all of the text is there; what follows only adds to it.    *)
(*                                                                         *)
(* UTF-8, for all bytes: the iterator and the backward scan read what is   *)
(* written.  What is read at a position is a code point in its one         *)
(* encoding (ReadsEncoding), a code point whose encoding is there is read  *)
(* (WrittenIsRead), and the byte a code point begins with can continue     *)
(* none, so that none lies in another one (NoneBeginsInside) and the       *)
(* nearest first byte is the owner (ScanIsRight).                          *)
(*                                                                         *)
(* The text of the lines is a FlattenSeq: the lemmas of BstrLemmas on      *)
(* joining and cutting sequences are all that is used of that module.      *)
(***************************************************************************)
EXTENDS UuStream, BstrUtf, BstrLemmas, FiniteSetTheorems

-----------------------------------------------------------------------------
(* Prefixes. *)

(* A prefix is what something follows. *)
LEMMA PrefixFacts ==
  ASSUME NEW s \in Seq(Nat), NEW u \in Seq(Nat)
  PROVE  IsPrefix(s, s \o u)
<1>1. SubSeq(s \o u, 1, Len(s)) = s /\ Len(s) \in 0..Len(s \o u)
  BY CutOfConcat
<1>2. SubSeq(s, 1, Len(s)) = s
  BY SubSeqFull
<1>3. Len(s) \in Nat /\ Len(s \o u) \in Nat
  BY TextFacts
<1>4. Len(s) <= Len(s \o u)
  BY <1>1, <1>3
<1> QED
  BY <1>1, <1>2, <1>4 DEF IsPrefix

(* What follows it. *)
LEMMA PrefixRest ==
  ASSUME NEW s \in Seq(Nat), NEW t \in Seq(Nat), IsPrefix(s, t)
  PROVE  \E u \in Seq(Nat) : t = s \o u
<1>1. Len(s) \in 0..Len(t)
  BY LenProperties DEF IsPrefix
<1>2. SubSeq(t, 1, Len(s)) = s
  BY SubSeqFull DEF IsPrefix
<1> DEFINE u == SubSeq(t, Len(s) + 1, Len(t))
<1>3. u \in Seq(Nat) /\ SubSeq(t, 1, Len(s)) \o u = t
  BY <1>1, CutFacts
<1> QED
  BY <1>2, <1>3

(* It remains one when more follows. *)
LEMMA PrefixGrows ==
  ASSUME NEW s \in Seq(Nat), NEW t \in Seq(Nat), IsPrefix(s, t), NEW u \in Seq(Nat)
  PROVE  IsPrefix(s, t \o u)
<1>1. PICK v \in Seq(Nat) : t = s \o v
  BY PrefixRest
<1>2. v \o u \in Seq(Nat) /\ t \o u = s \o (v \o u)
  BY <1>1, TextFacts
<1> QED
  BY <1>2, PrefixFacts

(* Prefixes of prefixes are prefixes. *)
LEMMA PrefixTransitive ==
  ASSUME NEW s \in Seq(Nat), NEW t \in Seq(Nat), NEW u \in Seq(Nat),
         IsPrefix(s, t), IsPrefix(t, u)
  PROVE  IsPrefix(s, u)
<1>1. PICK v \in Seq(Nat) : u = t \o v
  BY PrefixRest
<1> QED
  BY <1>1, PrefixGrows

(* Of two beginnings of one text, one is a prefix of the other. *)
LEMMA PrefixesCompare ==
  ASSUME NEW s \in Seq(Nat), NEW t \in Seq(Nat), NEW u \in Seq(Nat),
         IsPrefix(s, u), IsPrefix(t, u)
  PROVE  IsPrefix(s, t) \/ IsPrefix(t, s)
<1>1. Len(s) \in Nat /\ Len(t) \in Nat /\ Len(u) \in Nat
  BY LenProperties
<1>2. Len(s) <= Len(u) /\ SubSeq(u, 1, Len(s)) = s
  BY SubSeqFull DEF IsPrefix
<1>3. Len(t) <= Len(u) /\ SubSeq(u, 1, Len(t)) = t
  BY SubSeqFull DEF IsPrefix
<1>4. ASSUME NEW a \in Seq(Nat), NEW b \in Seq(Nat), Len(a) \in Nat, Len(b) \in Nat,
             Len(a) <= Len(b), Len(b) <= Len(u),
             SubSeq(u, 1, Len(a)) = a, SubSeq(u, 1, Len(b)) = b
      PROVE  IsPrefix(a, b)
  <2>1. Len(a) \in 0..Len(u) /\ Len(b) \in 0..Len(u) /\ Len(a) \in 0..Len(b)
    BY <1>1, <1>4
  <2>2. \A i \in 1..Len(a) : a[i] = u[i]
    BY <1>4, <2>1, CutFacts
  <2>3. \A i \in 1..Len(b) : b[i] = u[i]
    BY <1>4, <2>1, CutFacts
  <2>4. /\ SubSeq(b, 1, Len(a)) \in Seq(Nat) /\ Len(SubSeq(b, 1, Len(a))) = Len(a)
        /\ \A i \in 1..Len(a) : SubSeq(b, 1, Len(a))[i] = b[i]
    BY <2>1, CutFacts
  <2>5. \A i \in 1..Len(a) : i \in 1..Len(b)
    BY <1>4
  <2>6. SubSeq(b, 1, Len(a)) = a
    BY <2>2, <2>3, <2>4, <2>5, SeqEqual
  <2>7. SubSeq(a, 1, Len(a)) = a
    BY SubSeqFull
  <2> QED
    BY <1>4, <2>6, <2>7 DEF IsPrefix
<1>5. Len(s) <= Len(t) \/ Len(t) <= Len(s)
  BY <1>1
<1> QED
  BY <1>1, <1>2, <1>3, <1>4, <1>5

-----------------------------------------------------------------------------
(* Lines. *)

(* The next end of a line, and that it is the next. *)
LEMMA NextEolFacts ==
  ASSUME NEW t \in Seq(Nat), NEW k \in Nat
  PROVE  LET e == NextEol(t, k)
         IN  /\ e = 0 => \A i \in (k + 1)..Len(t) : t[i] # Eol
             /\ e # 0 => /\ e \in (k + 1)..Len(t) /\ t[e] = Eol
                         /\ \A i \in (k + 1)..(e - 1) : t[i] # Eol
<1> DEFINE S == {i \in (k + 1)..Len(t) : t[i] = Eol}
           e == NextEol(t, k)
<1>1. Len(t) \in Nat
  BY LenProperties
<1>2. CASE S = {}
  <2>1. \A i \in (k + 1)..Len(t) : t[i] # Eol
    BY <1>2
  <2>2. e = 0
    BY <2>1 DEF NextEol
  <2> QED
    BY <2>1, <2>2
<1>3. CASE S # {}
  <2>1. S \subseteq Nat
    BY <1>1
  <2>2. \E i \in S : \A j \in S : i <= j
    <3> HIDE DEF S
    <3> QED
      BY <1>3, <2>1, LeastExists
  <2>3. PICK i \in S : \A j \in S : i <= j
    BY <2>2
  <2>4. ASSUME NEW j \in (k + 1)..(i - 1) PROVE t[j] # Eol
    <3>1. j \in (k + 1)..Len(t) /\ ~(i <= j)
      BY <1>1
    <3> QED
      BY <2>3, <3>1
  <2>5. \E x \in (k + 1)..Len(t) :
          t[x] = Eol /\ \A j \in (k + 1)..(x - 1) : t[j] # Eol
    BY <2>3, <2>4
  <2>6. \E x \in (k + 1)..Len(t) : t[x] = Eol
    BY <2>3
  <2>7. e = CHOOSE x \in (k + 1)..Len(t) :
              t[x] = Eol /\ \A j \in (k + 1)..(x - 1) : t[j] # Eol
    BY <2>6 DEF NextEol
  <2> HIDE DEF e, S
  <2>8. /\ e \in (k + 1)..Len(t) /\ t[e] = Eol
        /\ \A j \in (k + 1)..(e - 1) : t[j] # Eol
    BY <2>5, <2>7
  <2>9. e # 0
    BY <1>1, <2>8
  <2> QED
    BY <2>8, <2>9 DEF e
<1> QED
  BY <1>2, <1>3

(* It is known by that. *)
LEMMA NextEolIs ==
  ASSUME NEW t \in Seq(Nat), NEW k \in Nat
  PROVE  /\ (\A i \in (k + 1)..Len(t) : t[i] # Eol) => NextEol(t, k) = 0
         /\ \A e \in (k + 1)..Len(t) :
              t[e] = Eol /\ (\A i \in (k + 1)..(e - 1) : t[i] # Eol)
                => NextEol(t, k) = e
<1> DEFINE x == NextEol(t, k)
<1>1. /\ x = 0 => \A i \in (k + 1)..Len(t) : t[i] # Eol
      /\ x # 0 => /\ x \in (k + 1)..Len(t) /\ t[x] = Eol
                  /\ \A i \in (k + 1)..(x - 1) : t[i] # Eol
  BY NextEolFacts
<1> HIDE DEF x
<1>2. Len(t) \in Nat
  BY LenProperties
<1>3. ASSUME \A i \in (k + 1)..Len(t) : t[i] # Eol PROVE x = 0
  BY <1>1, <1>3
<1>4. ASSUME NEW e \in (k + 1)..Len(t), t[e] = Eol,
             \A i \in (k + 1)..(e - 1) : t[i] # Eol
      PROVE  x = e
  <2>1. x # 0
    BY <1>1, <1>4
  <2>2. x \in Int /\ e \in Int
    BY <1>1, <1>2, <2>1
  <2>3. ~(x < e)
    <3> SUFFICES ASSUME x < e PROVE FALSE
      OBVIOUS
    <3>1. x \in (k + 1)..(e - 1)
      BY <1>1, <1>2, <2>1
    <3> QED
      BY <1>1, <1>4, <2>1, <3>1
  <2>4. ~(e < x)
    <3> SUFFICES ASSUME e < x PROVE FALSE
      OBVIOUS
    <3>1. e \in (k + 1)..(x - 1)
      BY <1>2, <2>2
    <3> QED
      BY <1>1, <1>4, <2>1, <3>1
  <2> QED
    BY <2>2, <2>3, <2>4
<1> QED
  BY <1>3, <1>4 DEF x

(* The text s, and the rest r behind it, are what lies behind q in t. *)
Rest(t, q, s, r) == s \o r = After(t, q)

(* A line in s is then a line of t. *)
LineIn(t, q, s, r, p) ==
  /\ Len(t) = q + Len(s) + Len(r)
  /\ \A i \in 1..Len(s) : s[i] = t[q + i]
  /\ NextEol(s, p) # 0 =>
       /\ NextEol(t, q + p) = q + NextEol(s, p)
       /\ LineFrom(t, q + p + 1) = SubSeq(s, p + 1, NextEol(s, p) - 1)

LEMMA LinesArePlaced ==
  ASSUME NEW t \in Seq(Nat), NEW s \in Seq(Nat), NEW r \in Seq(Nat),
         NEW q \in 0..Len(t), Rest(t, q, s, r), NEW p \in 0..Len(s)
  PROVE  LineIn(t, q, s, r, p)
<1>1. Len(t) \in Nat /\ Len(s) \in Nat /\ Len(r) \in Nat /\ q \in Nat /\ p \in Nat
  BY LenProperties
<1>2. /\ Len(s \o r) = Len(s) + Len(r)
      /\ \A i \in 1..(Len(s) + Len(r)) :
           (s \o r)[i] = IF i <= Len(s) THEN s[i] ELSE r[i - Len(s)]
  BY ConcatProperties
<1>3. /\ Len(s \o r) = Len(t) - q
      /\ \A i \in 1..(Len(t) - q) : (s \o r)[i] = t[q + i]
  <2>1. s \o r = SubSeq(t, q + 1, Len(t))
    BY DEF After, Rest
  <2> QED
    BY <2>1, CutFacts
<1>4. Len(t) = q + Len(s) + Len(r)
  <2>1. Len(s) + Len(r) = Len(t) - q
    BY <1>2, <1>3
  <2> QED
    BY <1>1, <2>1
<1>5. ASSUME NEW i \in 1..Len(s) PROVE s[i] = t[q + i]
  <2>1. i \in 1..(Len(s) + Len(r)) /\ i \in 1..(Len(t) - q) /\ i <= Len(s)
    BY <1>1, <1>4
  <2> QED
    BY <1>2, <1>3, <2>1
<1> DEFINE l == NextEol(s, p)
           k == q + p
<1>6. k \in Nat
  BY <1>1
<1>7. /\ l = 0 => \A i \in (p + 1)..Len(s) : s[i] # Eol
      /\ l # 0 => /\ l \in (p + 1)..Len(s) /\ s[l] = Eol
                  /\ \A i \in (p + 1)..(l - 1) : s[i] # Eol
  BY <1>1, NextEolFacts
<1> HIDE DEF l, k
<1>8. \A i \in (k + 1)..(q + Len(s)) : i - q \in (p + 1)..Len(s) /\ t[i] = s[i - q]
  <2> SUFFICES ASSUME NEW i \in (k + 1)..(q + Len(s))
               PROVE  i - q \in (p + 1)..Len(s) /\ t[i] = s[i - q]
    OBVIOUS
  <2>1. i - q \in (p + 1)..Len(s) /\ i - q \in 1..Len(s) /\ q + (i - q) = i
    BY <1>1 DEF k
  <2> QED
    BY <1>5, <2>1
<1>9. CASE l # 0
  <2> DEFINE e == q + l
  <2>0. l \in Nat /\ p + 1 <= l /\ l <= Len(s)
    <3>1. l \in (p + 1)..Len(s)
      BY <1>7, <1>9
    <3> QED
      BY <1>1, <3>1
  <2>1. e \in (k + 1)..Len(t) /\ e <= q + Len(s) /\ e # 0 /\ e - q = l
    BY <1>1, <1>4, <2>0 DEF k
  <2>2. t[e] = Eol
    <3>1. e \in (k + 1)..(q + Len(s))
      BY <1>1, <2>1
    <3> QED
      BY <1>7, <1>8, <1>9, <2>1, <3>1
  <2>3. ASSUME NEW i \in (k + 1)..(e - 1) PROVE t[i] # Eol
    <3>1. i \in (k + 1)..(q + Len(s)) /\ i - q \in (p + 1)..(l - 1)
      BY <1>1, <2>0, <2>1 DEF k
    <3> QED
      BY <1>7, <1>8, <1>9, <3>1
  <2> HIDE DEF e
  <2>4. NextEol(t, k) = e
    BY <1>6, <2>1, <2>2, <2>3, NextEolIs
  <2> DEFINE a == k + 1
             b == e - 1
             c == p + 1
             d == l - 1
  <2>5. /\ a \in Int /\ b \in Int /\ c \in Int /\ d \in Int
        /\ b - a + 1 = d - c + 1 /\ (a <= b <=> c <= d)
    BY <1>1, <1>6, <2>0, <2>1 DEF k, e
  <2>6. LineFrom(t, k + 1) = SubSeq(t, a, b)
    <3>1. (k + 1) - 1 = k
      BY <1>6
    <3> QED
      BY <2>1, <2>4, <3>1 DEF LineFrom
  <2>7. \A i \in a..b : t[i] \in Nat
    <3>1. \A i \in a..b : i \in 1..Len(t)
      BY <1>1, <1>6, <2>1
    <3> HIDE DEF a, b
    <3> QED
      BY <3>1, ElementOfSeq
  <2>8. \A i \in c..d : s[i] \in Nat
    <3>1. \A i \in c..d : i \in 1..Len(s)
      BY <1>1, <2>0
    <3> HIDE DEF c, d
    <3> QED
      BY <3>1, ElementOfSeq
  <2>9. \A i \in 1..(d - c + 1) : t[a + i - 1] = s[c + i - 1]
    <3> SUFFICES ASSUME NEW i \in 1..(d - c + 1) PROVE t[a + i - 1] = s[c + i - 1]
      OBVIOUS
    <3> DEFINE j == c + i - 1
    <3>1. j \in 1..Len(s) /\ a + i - 1 = q + j
      BY <1>1, <2>0 DEF k
    <3> HIDE DEF a, c, d, j
    <3>2. s[j] = t[q + j]
      BY <1>5, <3>1
    <3> QED
      BY <3>1, <3>2 DEF j
  <2> HIDE DEF a, b, c, d
  <2>10. /\ SubSeq(t, a, b) \in Seq(Nat)
         /\ Len(SubSeq(t, a, b)) = IF a <= b THEN b - a + 1 ELSE 0
         /\ \A i \in 1..(b - a + 1) : SubSeq(t, a, b)[i] = t[a + i - 1]
    BY <2>5, <2>7, SubSeqProperties
  <2>11. /\ SubSeq(s, c, d) \in Seq(Nat)
         /\ Len(SubSeq(s, c, d)) = IF c <= d THEN d - c + 1 ELSE 0
         /\ \A i \in 1..(d - c + 1) : SubSeq(s, c, d)[i] = s[c + i - 1]
    BY <2>5, <2>8, SubSeqProperties
  <2>12. SubSeq(t, a, b) = SubSeq(s, c, d)
    <3>1. Len(SubSeq(t, a, b)) = Len(SubSeq(s, c, d))
      <4>1. CASE a <= b
        BY <4>1, <2>5, <2>10, <2>11
      <4>2. CASE ~(a <= b)
        BY <4>2, <2>5, <2>10, <2>11
      <4> QED
        BY <4>1, <4>2
    <3>2. \A i \in 1..Len(SubSeq(t, a, b)) : i \in 1..(d - c + 1)
      BY <2>5, <2>10
    <3>3. \A i \in 1..Len(SubSeq(t, a, b)) : SubSeq(t, a, b)[i] = SubSeq(s, c, d)[i]
      BY <2>5, <2>9, <2>10, <2>11, <3>2
    <3> QED
      BY <2>10, <2>11, <3>1, <3>3, SeqEqual
  <2>13. LineFrom(t, k + 1) = SubSeq(s, p + 1, l - 1)
    BY <2>6, <2>12 DEF c, d
  <2> QED
    BY <1>4, <1>5, <1>9, <2>4, <2>13 DEF e, k, l, LineIn
<1>10. CASE l = 0
  BY <1>4, <1>5, <1>10 DEF k, l, LineIn
<1> QED
  BY <1>9, <1>10

(* Where the lines begin. *)
LEMMA StartsFacts ==
  ASSUME NEW t \in Seq(Nat), NEW k \in 0..Len(t)
  PROVE  /\ 1 \in Starts(t) /\ Starts(t) \subseteq 1..(Len(t) + 1)
         /\ k = 0 \/ t[k] = Eol => k + 1 \in Starts(t)
         /\ NextEol(t, k) = 0 => \A j \in (k + 2)..(Len(t) + 1) : j \notin Starts(t)
         /\ NextEol(t, k) # 0 => \A j \in (k + 2)..NextEol(t, k) : j \notin Starts(t)
<1>1. Len(t) \in Nat /\ k \in Nat
  BY LenProperties
<1>2. 1 \in Starts(t) /\ Starts(t) \subseteq 1..(Len(t) + 1)
  BY <1>1 DEF Starts
<1>3. k = 0 \/ t[k] = Eol => k + 1 \in Starts(t)
  BY <1>1 DEF Starts
<1> DEFINE e == NextEol(t, k)
<1>4. /\ e = 0 => \A i \in (k + 1)..Len(t) : t[i] # Eol
      /\ e # 0 => /\ e \in (k + 1)..Len(t) /\ t[e] = Eol
                  /\ \A i \in (k + 1)..(e - 1) : t[i] # Eol
  BY <1>1, NextEolFacts
<1> HIDE DEF e
<1>5. ASSUME NEW j \in Starts(t), k + 2 <= j
      PROVE  j \in Int /\ j - 1 \in (k + 1)..Len(t) /\ t[j - 1] = Eol
  <2>1. PICK i \in 1..Len(t) : t[i] = Eol /\ j = i + 1
    BY <1>1, <1>5 DEF Starts
  <2>2. i = j - 1 /\ j - 1 \in (k + 1)..Len(t) /\ j \in Int
    BY <1>1, <1>5, <2>1
  <2> QED
    BY <2>1, <2>2
<1>6. ASSUME e = 0, NEW j \in (k + 2)..(Len(t) + 1) PROVE j \notin Starts(t)
  <2>1. k + 2 <= j
    BY <1>1
  <2> QED
    BY <1>4, <1>5, <1>6, <2>1
<1>7. ASSUME e # 0, NEW j \in (k + 2)..e PROVE j \notin Starts(t)
  <2>1. e \in (k + 1)..Len(t)
    BY <1>4, <1>7
  <2>2. k + 2 <= j /\ j - 1 \in (k + 1)..(e - 1)
    BY <1>1, <2>1
  <2> QED
    BY <1>4, <1>5, <1>7, <2>2
<1> QED
  BY <1>2, <1>3, <1>6, <1>7 DEF e

(* A line is characters of its text. *)
LEMMA LineTyped ==
  ASSUME NEW t \in Seq(Nat), NEW k \in Starts(t)
  PROVE  LineFrom(t, k) \in Seq(Nat)
<1>1. Len(t) \in Nat /\ 0 \in 0..Len(t)
  BY LenProperties
<1>2. k \in 1..(Len(t) + 1)
  BY <1>1, StartsFacts
<1> DEFINE e == NextEol(t, k - 1)
           b == IF e = 0 THEN Len(t) ELSE e - 1
<1>3. k - 1 \in Nat /\ k \in Int
  BY <1>1, <1>2
<1>4. e # 0 => e \in ((k - 1) + 1)..Len(t)
  BY <1>3, NextEolFacts
<1> HIDE DEF e
<1>5. b \in Int /\ b <= Len(t)
  BY <1>1, <1>3, <1>4
<1>6. \A i \in k..b : i \in 1..Len(t)
  BY <1>1, <1>2, <1>3, <1>5
<1>7. LineFrom(t, k) = SubSeq(t, k, b)
  BY DEF LineFrom, e
<1> HIDE DEF b
<1>8. \A i \in k..b : t[i] \in Nat
  BY <1>6, ElementOfSeq
<1> QED
  BY <1>3, <1>5, <1>7, <1>8, SubSeqProperties

(* The characters it announces are one for each of its count. *)
LEMMA GivenTyped ==
  ASSUME NEW line \in Seq(Nat), line # <<>>
  PROVE  /\ line[1] \in Nat /\ Given(line) \in Seq(Nat)
         /\ Len(Given(line)) = line[1]
<1>1. Len(line) \in Nat /\ Len(line) # 0
  BY LenProperties, EmptySeq
<1>2. \A i \in 1..Len(line) : line[i] \in Nat
  BY ElementOfSeq
<1>3. line[1] \in Nat
  BY <1>1, <1>2
<1>4. ASSUME NEW k \in 1..line[1]
      PROVE  (IF k < Len(line) THEN line[k + 1] ELSE Missing) \in Nat
  <2>1. k < Len(line) => k + 1 \in 1..Len(line)
    BY <1>1, <1>3
  <2>2. Missing \in Nat
    BY UuAssumption
  <2> QED
    BY <1>2, <2>1, <2>2
<1>5. Given(line) \in [1..line[1] -> Nat]
  BY <1>4 DEF Given
<1> QED
  BY <1>3, <1>5, SeqDef, LenProperties

(* What a line decodes to, and that one of no characters is nothing. *)
LEMMA TextTyped ==
  ASSUME NEW line \in Seq(Nat)
  PROVE  /\ TextOf(line) \in Seq(Nat)
         /\ TextOf(<<>>) = <<>> /\ ~IsBad(<<>>) /\ Beginnings(<<>>) = {}
<1>1. TextOf(<<>>) = <<>> /\ ~IsBad(<<>>) /\ Beginnings(<<>>) = {}
  BY DEF TextOf, IsBad, Beginnings
<1>2. <<>> \in Seq(Nat)
  BY EmptySeq
<1>3. CASE line = <<>>
  BY <1>1, <1>2, <1>3
<1>4. CASE line # <<>>
  <2>1. Given(line) \in Seq(Nat)
    BY <1>4, GivenTyped
  <2> QED
    BY <1>1, <1>2, <2>1 DEF TextOf
<1> QED
  BY <1>3, <1>4

(* bUuDecLine adds to dst and never takes a bad line back. *)
LEMMA DecLineFacts ==
  ASSUME dst \in Seq(Nat), bad \in Nat, counts \in BOOLEAN,
         NEW line \in Seq(Nat), NEW d \in DecLine(line)
  PROVE  /\ d.go \in BOOLEAN /\ d.starved \in BOOLEAN /\ d.bad \in Nat
         /\ bad <= d.bad
         /\ \E u \in Seq(Nat) : d.dst = dst \o u
         /\ ~d.starved =>
              /\ d.go <=> (counts \/ ~IsBad(line))
              /\ d.bad = bad + (IF IsBad(line) /\ counts THEN 1 ELSE 0)
              /\ d.dst = dst \o TextOf(line)
<1>1. CASE d = [go |-> counts \/ ~IsBad(line), starved |-> FALSE,
                bad |-> bad + (IF IsBad(line) /\ counts THEN 1 ELSE 0),
                dst |-> dst \o TextOf(line)]
  <2>1. TextOf(line) \in Seq(Nat)
    BY TextTyped
  <2>2. d.dst = dst \o TextOf(line)
    BY <1>1
  <2>3. d.bad = bad + (IF IsBad(line) /\ counts THEN 1 ELSE 0)
    BY <1>1
  <2>4. d.go = (counts \/ ~IsBad(line))
    BY <1>1
  <2>5. d.starved = FALSE
    BY <1>1
  <2>6. d.bad \in Nat /\ bad <= d.bad
    BY <2>3
  <2>7. d.go \in BOOLEAN /\ (d.go <=> (counts \/ ~IsBad(line)))
    BY <2>4
  <2> QED
    BY <2>1, <2>2, <2>3, <2>5, <2>6, <2>7
<1>2. ASSUME NEW u \in Beginnings(line),
             d = [go |-> FALSE, starved |-> TRUE, bad |-> bad, dst |-> dst \o u]
      PROVE  /\ d.go = FALSE /\ d.starved = TRUE /\ d.bad = bad
             /\ d.dst = dst \o u /\ u \in Seq(Nat)
  <2>1. line # <<>>
    BY TextTyped
  <2>2. line[1] \in Nat /\ Given(line) \in Seq(Nat) /\ Len(Given(line)) = line[1]
    BY <2>1, GivenTyped
  <2>3. PICK j \in 0..(line[1] - 1) : u = First(Given(line), j)
    BY <2>1 DEF Beginnings
  <2>4. j \in 0..Len(Given(line))
    BY <2>2
  <2>5. u \in Seq(Nat)
    BY <2>2, <2>3, <2>4, CutFacts DEF First
  <2> QED
    BY <1>2, <2>5
<1>3. CASE \E u \in Beginnings(line) :
             d = [go |-> FALSE, starved |-> TRUE, bad |-> bad, dst |-> dst \o u]
  <2>1. PICK u \in Beginnings(line) :
             d = [go |-> FALSE, starved |-> TRUE, bad |-> bad, dst |-> dst \o u]
    BY <1>3
  <2>2. /\ d.go = FALSE /\ d.starved = TRUE /\ d.bad = bad
        /\ d.dst = dst \o u /\ u \in Seq(Nat)
    BY <1>2, <2>1
  <2>3. d.bad \in Nat /\ bad <= d.bad
    BY <2>2
  <2>4. \E v \in Seq(Nat) : d.dst = dst \o v
    BY <2>2
  <2>5. d.go \in BOOLEAN /\ d.starved \in BOOLEAN /\ d.starved
    BY <2>2
  <2> QED
    BY <2>3, <2>4, <2>5
<1>4. \/ d = [go |-> counts \/ ~IsBad(line), starved |-> FALSE,
                bad |-> bad + (IF IsBad(line) /\ counts THEN 1 ELSE 0),
                dst |-> dst \o TextOf(line)]
      \/ \E u \in Beginnings(line) :
             d = [go |-> FALSE, starved |-> TRUE, bad |-> bad, dst |-> dst \o u]
  BY Zenon DEF DecLine
<1> QED
  BY <1>1, <1>3, <1>4

(* The texts of the lines that begin at the first positions, one more each *)
(* time.                                                                   *)
LEMMA TextsFacts ==
  ASSUME NEW t \in Seq(Nat)
  PROVE  /\ TextsOf(t, 0) = <<>>
         /\ \A k \in Nat : TextFrom(t, k) \in Seq(Nat)
         /\ \A n \in Nat :
              /\ TextsOf(t, n) \in Seq(Nat)
              /\ TextsOf(t, n + 1) = TextsOf(t, n) \o TextFrom(t, n + 1)
<1> DEFINE F(n) == [k \in 1..n |-> TextFrom(t, k)]
<1>1. \A k \in Nat : TextFrom(t, k) \in Seq(Nat)
  <2> SUFFICES ASSUME NEW k \in Nat PROVE TextFrom(t, k) \in Seq(Nat)
    OBVIOUS
  <2>1. CASE k \in Starts(t)
    <3>1. LineFrom(t, k) \in Seq(Nat)
      BY <2>1, LineTyped
    <3>2. TextOf(LineFrom(t, k)) \in Seq(Nat)
      BY <3>1, TextTyped
    <3> QED
      BY <2>1, <3>2 DEF TextFrom
  <2>2. CASE k \notin Starts(t)
    BY <2>2, TextFacts DEF TextFrom
  <2> QED
    BY <2>1, <2>2
<1>2. ASSUME NEW n \in Nat PROVE F(n) \in Seq(Seq(Nat)) /\ Len(F(n)) = n
  <2>1. \A k \in 1..n : TextFrom(t, k) \in Seq(Nat)
    BY <1>1
  <2>2. F(n) \in [1..n -> Seq(Nat)]
    BY <2>1
  <2> HIDE DEF F
  <2>3. F(n) \in Seq(Seq(Nat))
    BY <2>2, SeqDef
  <2> QED
    BY <2>2, <2>3, LenProperties
<1>3. TextsOf(t, 0) = <<>>
  <2>1. F(0) = <<>>
    <3>1. F(0) \in Seq(Seq(Nat)) /\ Len(F(0)) = 0
      BY <1>2
    <3> QED
      BY <3>1, EmptySeq
  <2> QED
    BY <2>1, FlattenNone DEF TextsOf
<1>4. ASSUME NEW n \in Nat
      PROVE  /\ TextsOf(t, n) \in Seq(Nat)
             /\ TextsOf(t, n + 1) = TextsOf(t, n) \o TextFrom(t, n + 1)
  <2> DEFINE x == TextFrom(t, n + 1)
             a == F(n)
             b == F(n + 1)
  <2>1. a \in Seq(Seq(Nat)) /\ Len(a) = n
    BY <1>2
  <2>2. b \in Seq(Seq(Nat)) /\ Len(b) = n + 1
    BY <1>2
  <2>3. x \in Seq(Nat)
    BY <1>1
  <2>4. (\A i \in 1..n : b[i] = a[i]) /\ b[n + 1] = x
    OBVIOUS
  <2>5. TextsOf(t, n) = FlattenSeq(a) /\ TextsOf(t, n + 1) = FlattenSeq(b)
    BY DEF TextsOf
  <2> HIDE DEF a, b, x
  <2>6. /\ Append(a, x) \in Seq(Seq(Nat)) /\ Len(Append(a, x)) = n + 1
        /\ \A i \in 1..n : Append(a, x)[i] = a[i]
        /\ Append(a, x)[n + 1] = x
    BY <2>1, <2>3, AppendProperties
  <2>7. \A i \in 1..(n + 1) : b[i] = Append(a, x)[i]
    <3>1. \A i \in 1..(n + 1) : i \in 1..n \/ i = n + 1
      OBVIOUS
    <3> QED
      BY <2>4, <2>6, <3>1
  <2>8. b = Append(a, x)
    BY <2>2, <2>6, <2>7, SeqEqual
  <2>9. FlattenSeq(b) = FlattenSeq(a) \o x
    BY <2>1, <2>3, <2>8, FlattenAppend
  <2> QED
    BY <2>1, <2>5, <2>9, FlattenTyped DEF x
<1> QED
  BY <1>1, <1>3, <1>4

(* What decodes to nothing may be left out of the count. *)
LEMMA TextsSame ==
  ASSUME NEW t \in Seq(Nat), NEW m \in Nat, NEW n \in Nat, m <= n,
         \A j \in (m + 1)..n : j \notin Starts(t)
  PROVE  TextsOf(t, n) = TextsOf(t, m)
<1> DEFINE T == {i \in 0..(n - m) : TextsOf(t, m + i) = TextsOf(t, m)}
<1>1. 0 \in T
  OBVIOUS
<1>2. ASSUME NEW i \in 1..(n - m), i - 1 \in T PROVE i \in T
  <2> DEFINE j == m + (i - 1)
  <2>1. j \in Nat /\ j + 1 = m + i /\ j + 1 \in (m + 1)..n /\ i \in 0..(n - m)
    OBVIOUS
  <2>2. TextsOf(t, j) = TextsOf(t, m)
    BY <1>2
  <2> HIDE DEF j
  <2>3. TextFrom(t, j + 1) = <<>>
    BY <2>1 DEF TextFrom
  <2>4. TextsOf(t, j + 1) = TextsOf(t, j) \o TextFrom(t, j + 1)
    BY <2>1, TextsFacts
  <2>5. TextsOf(t, m) \o <<>> = TextsOf(t, m)
    BY TextsFacts, TextFacts
  <2>6. TextsOf(t, m + i) = TextsOf(t, m)
    BY <2>1, <2>2, <2>3, <2>4, <2>5
  <2> QED
    BY <2>1, <2>6
<1>3. n - m \in Nat
  OBVIOUS
<1>4. 0..(n - m) \subseteq T
  <2> HIDE DEF T
  <2> QED
    BY <1>1, <1>2, <1>3, AllUpTo
<1>5. n - m \in 0..(n - m) /\ m + (n - m) = n
  OBVIOUS
<1> QED
  BY <1>4, <1>5

(* Fewer lines are the beginning of more. *)
LEMMA TextsPrefix ==
  ASSUME NEW t \in Seq(Nat), NEW m \in Nat, NEW n \in Nat, m <= n
  PROVE  IsPrefix(TextsOf(t, m), TextsOf(t, n))
<1> DEFINE T == {i \in 0..(n - m) : IsPrefix(TextsOf(t, m), TextsOf(t, m + i))}
<1>0. \A k \in Nat : TextsOf(t, k) \in Seq(Nat)
  BY TextsFacts
<1>1. 0 \in T
  <2>1. TextsOf(t, m) \o <<>> = TextsOf(t, m) /\ <<>> \in Seq(Nat)
    BY <1>0, TextFacts
  <2>2. IsPrefix(TextsOf(t, m), TextsOf(t, m))
    BY <1>0, <2>1, PrefixFacts
  <2>3. m + 0 = m /\ 0 \in 0..(n - m)
    OBVIOUS
  <2> QED
    BY <2>2, <2>3
<1>2. ASSUME NEW i \in 1..(n - m), i - 1 \in T PROVE i \in T
  <2> DEFINE j == m + (i - 1)
  <2>1. j \in Nat /\ j + 1 = m + i /\ j + 1 \in Nat /\ i \in 0..(n - m)
    OBVIOUS
  <2>2. IsPrefix(TextsOf(t, m), TextsOf(t, j))
    BY <1>2
  <2> HIDE DEF j
  <2>3. TextFrom(t, j + 1) \in Seq(Nat)
    BY <2>1, TextsFacts
  <2>4. TextsOf(t, j + 1) = TextsOf(t, j) \o TextFrom(t, j + 1)
    BY <2>1, TextsFacts
  <2>5. IsPrefix(TextsOf(t, m), TextsOf(t, j + 1))
    BY <1>0, <2>1, <2>2, <2>3, <2>4, PrefixGrows
  <2> QED
    BY <2>1, <2>5
<1>3. n - m \in Nat
  OBVIOUS
<1>4. 0..(n - m) \subseteq T
  <2> HIDE DEF T
  <2> QED
    BY <1>1, <1>2, <1>3, AllUpTo
<1>5. n - m \in 0..(n - m) /\ m + (n - m) = n
  OBVIOUS
<1> QED
  BY <1>4, <1>5

(* The bad lines that begin at the first n positions. *)
BadUpTo(t, n) == {k \in BadLines(t) : k <= n}

(* There are finitely many. *)
LEMMA BadFinite ==
  ASSUME NEW t \in Seq(Nat), NEW n \in Nat
  PROVE  /\ IsFiniteSet(BadUpTo(t, n)) /\ Cardinality(BadUpTo(t, n)) \in Nat
         /\ BadUpTo(t, 0) = {} /\ BadUpTo(t, Len(t) + 1) = BadLines(t)
         /\ BadLines(t) \subseteq 1..(Len(t) + 1)
<1>1. Len(t) \in Nat /\ 0 \in 0..Len(t)
  BY LenProperties
<1>2. BadLines(t) \subseteq 1..(Len(t) + 1)
  BY <1>1, StartsFacts DEF BadLines
<1>3. IsFiniteSet(1..(Len(t) + 1))
  BY <1>1, FS_Interval
<1>4. BadUpTo(t, n) \subseteq 1..(Len(t) + 1)
  BY <1>2 DEF BadUpTo
<1>5. IsFiniteSet(BadUpTo(t, n))
  BY <1>3, <1>4, FS_Subset
<1>6. BadUpTo(t, 0) = {} /\ BadUpTo(t, Len(t) + 1) = BadLines(t)
  BY <1>1, <1>2 DEF BadUpTo
<1> QED
  BY <1>2, <1>5, <1>6, FS_CardinalityType

(* One line more: its text, and itself when it is bad. *)
LEMMA OneLine ==
  ASSUME NEW t \in Seq(Nat), NEW k \in 0..Len(t), k = 0 \/ t[k] = Eol
  PROVE  LET e == NextEol(t, k)
             m == IF e = 0 THEN Len(t) + 1 ELSE e
             x == LineFrom(t, k + 1)
         IN  /\ x \in Seq(Nat) /\ m \in Nat /\ k + 1 <= m
             /\ TextsOf(t, m) = TextsOf(t, k) \o TextOf(x)
             /\ IsBad(x) => /\ k + 1 \in BadUpTo(t, m)
                            /\ Cardinality(BadUpTo(t, m)) =
                                 Cardinality(BadUpTo(t, k)) + 1
             /\ ~IsBad(x) => BadUpTo(t, m) = BadUpTo(t, k)
<1> DEFINE e == NextEol(t, k)
           m == IF e = 0 THEN Len(t) + 1 ELSE e
           x == LineFrom(t, k + 1)
<1>1. Len(t) \in Nat /\ k \in Nat /\ k + 1 \in Nat
  BY LenProperties
<1>2. k + 1 \in Starts(t)
  BY StartsFacts
<1>3. e # 0 => e \in (k + 1)..Len(t)
  BY <1>1, NextEolFacts
<1>4. /\ e = 0 => \A j \in (k + 2)..(Len(t) + 1) : j \notin Starts(t)
      /\ e # 0 => \A j \in (k + 2)..e : j \notin Starts(t)
  BY StartsFacts
<1> HIDE DEF e
<1>5. m \in Nat /\ k + 1 <= m
  BY <1>1, <1>3
<1>6. \A j \in ((k + 1) + 1)..m : j \notin Starts(t)
  BY <1>1, <1>4
<1> HIDE DEF m
<1>7. TextsOf(t, m) = TextsOf(t, k + 1)
  BY <1>1, <1>5, <1>6, TextsSame
<1>8. TextsOf(t, k + 1) = TextsOf(t, k) \o TextFrom(t, k + 1)
  BY <1>1, TextsFacts
<1>9. TextFrom(t, k + 1) = TextOf(x)
  BY <1>2 DEF TextFrom
<1>10. x \in Seq(Nat)
  BY <1>2, LineTyped
<1>11. BadUpTo(t, m) = {j \in BadLines(t) : j <= k + 1}
  <2>1. \A j \in Starts(t) : j \in Nat
    BY <1>1, StartsFacts
  <2>2. \A j \in Starts(t) : j <= m <=> j <= k + 1
    BY <1>1, <1>5, <1>6, <2>1
  <2> QED
    BY <2>2 DEF BadUpTo, BadLines
<1>12. k + 1 \in BadLines(t) <=> IsBad(x)
  BY <1>2 DEF BadLines
<1>13. \A j \in BadLines(t) : j <= k + 1 <=> j <= k \/ j = k + 1
  <2>1. BadLines(t) \subseteq 1..(Len(t) + 1)
    BY <1>1, BadFinite
  <2>2. \A j \in BadLines(t) : j \in Int
    BY <2>1
  <2> QED
    BY <1>1, <2>2
<1> HIDE DEF x
<1>14. ASSUME IsBad(x)
       PROVE  /\ k + 1 \in BadUpTo(t, m)
              /\ Cardinality(BadUpTo(t, m)) = Cardinality(BadUpTo(t, k)) + 1
  <2>1. k + 1 \notin BadUpTo(t, k)
    BY <1>1 DEF BadUpTo
  <2>2. BadUpTo(t, m) = BadUpTo(t, k) \cup {k + 1}
    <3>1. k + 1 \in BadLines(t)
      BY <1>12, <1>14
    <3>2. {j \in BadLines(t) : j <= k + 1} = {j \in BadLines(t) : j <= k} \cup {k + 1}
      BY <1>1, <1>13, <3>1
    <3> QED
      BY <1>11, <3>2 DEF BadUpTo
  <2>3. IsFiniteSet(BadUpTo(t, k))
    BY <1>1, BadFinite
  <2> QED
    BY <2>1, <2>2, <2>3, FS_AddElement
<1>15. ASSUME ~IsBad(x) PROVE BadUpTo(t, m) = BadUpTo(t, k)
  BY <1>11, <1>12, <1>13, <1>15 DEF BadUpTo
<1> QED
  BY <1>5, <1>7, <1>8, <1>9, <1>10, <1>14, <1>15 DEF e, m, x

(* What has no end and nothing behind it is the last line. *)
LEMMA LastIsPlaced ==
  ASSUME NEW t \in Seq(Nat), NEW s \in Seq(Nat), NEW q \in 0..Len(t),
         Rest(t, q, s, <<>>), NextEol(s, 0) = 0
  PROVE  NextEol(t, q) = 0 /\ LineFrom(t, q + 1) = s
<1>1. Len(t) \in Nat /\ q \in Nat /\ (q + 1) - 1 = q
  BY LenProperties
<1>2. s = SubSeq(t, q + 1, Len(t))
  <2>1. s \o <<>> = s
    BY TextFacts
  <2> QED
    BY <2>1 DEF Rest, After
<1>3. Len(s) = Len(t) - q /\ \A i \in 1..(Len(t) - q) : s[i] = t[q + i]
  BY <1>2, CutFacts
<1>4. \A i \in 1..Len(s) : s[i] # Eol
  <2>1. \A i \in (0 + 1)..Len(s) : s[i] # Eol
    BY NextEolFacts
  <2> QED
    BY <2>1
<1>5. ASSUME NEW i \in (q + 1)..Len(t) PROVE t[i] # Eol
  <2>1. i - q \in 1..Len(s) /\ i - q \in 1..(Len(t) - q) /\ q + (i - q) = i
    BY <1>1, <1>3
  <2> QED
    BY <1>3, <1>4, <2>1
<1>6. NextEol(t, q) = 0
  BY <1>1, <1>5, NextEolIs
<1>7. LineFrom(t, q + 1) = SubSeq(t, q + 1, Len(t))
  BY <1>1, <1>6 DEF LineFrom
<1> QED
  BY <1>2, <1>6, <1>7

(* What lies behind p characters of s lies behind q + p of t. *)
LEMMA CutPlaced ==
  ASSUME NEW t \in Seq(Nat), NEW s \in Seq(Nat), NEW r \in Seq(Nat),
         NEW q \in 0..Len(t), Rest(t, q, s, r), NEW p \in 0..Len(s)
  PROVE  /\ q + p \in 0..Len(t) /\ Rest(t, q + p, After(s, p), r)
         /\ After(s, p) \in Seq(Nat) /\ Len(After(s, p)) = Len(s) - p
<1>1. Len(t) \in Nat /\ Len(s) \in Nat /\ Len(r) \in Nat /\ q \in Nat /\ p \in Nat
  BY LenProperties
<1>2. Len(t) = q + Len(s) + Len(r)
  BY LinesArePlaced DEF LineIn
<1>3. q + p \in 0..Len(t)
  BY <1>1, <1>2
<1> DEFINE a == After(s, p)
           b == After(t, q + p)
<1>4. /\ a \in Seq(Nat) /\ Len(a) = Len(s) - p
      /\ \A i \in 1..(Len(s) - p) : a[i] = s[p + i]
  BY CutFacts DEF After
<1>5. /\ b \in Seq(Nat) /\ Len(b) = Len(t) - (q + p)
      /\ \A i \in 1..(Len(t) - (q + p)) : b[i] = t[(q + p) + i]
  BY <1>3, CutFacts DEF After
<1> HIDE DEF a, b
<1>6. /\ a \o r \in Seq(Nat) /\ Len(a \o r) = Len(a) + Len(r)
      /\ \A i \in 1..(Len(a) + Len(r)) :
           (a \o r)[i] = IF i <= Len(a) THEN a[i] ELSE r[i - Len(a)]
  BY <1>4, ConcatProperties
<1>7. /\ Len(s \o r) = Len(s) + Len(r)
      /\ \A i \in 1..(Len(s) + Len(r)) :
           (s \o r)[i] = IF i <= Len(s) THEN s[i] ELSE r[i - Len(s)]
  BY ConcatProperties
<1>8. \A i \in 1..(Len(t) - q) : (s \o r)[i] = t[q + i]
  <2>1. s \o r = SubSeq(t, q + 1, Len(t))
    BY DEF After, Rest
  <2> QED
    BY <2>1, CutFacts
<1>9. Len(a) = Len(s) - p /\ Len(b) = Len(t) - (q + p) /\ Len(a \o r) = Len(a) + Len(r)
  BY <1>4, <1>5, <1>6
<1>10. Len(a \o r) = Len(b)
  BY <1>1, <1>2, <1>9
<1>11. ASSUME NEW i \in 1..Len(b) PROVE (a \o r)[i] = b[i]
  <2>1. /\ i \in 1..(Len(a) + Len(r)) /\ i \in 1..(Len(t) - (q + p))
        /\ p + i \in 1..(Len(s) + Len(r)) /\ p + i \in 1..(Len(t) - q)
        /\ q + (p + i) = (q + p) + i
        /\ (i <= Len(a) <=> p + i <= Len(s)) /\ (i <= Len(a) => i \in 1..(Len(s) - p))
        /\ (p + i) - Len(s) = i - Len(a)
    BY <1>1, <1>2, <1>9
  <2>2. b[i] = (s \o r)[p + i]
    BY <1>5, <1>8, <2>1
  <2>3. CASE i <= Len(a)
    <3>1. (s \o r)[p + i] = s[p + i]
      BY <1>7, <2>1, <2>3
    <3>2. (a \o r)[i] = s[p + i]
      BY <1>4, <1>6, <2>1, <2>3
    <3> QED
      BY <2>2, <3>1, <3>2
  <2>4. CASE ~(i <= Len(a))
    <3>1. (s \o r)[p + i] = r[i - Len(a)]
      BY <1>7, <2>1, <2>4
    <3>2. (a \o r)[i] = r[i - Len(a)]
      BY <1>6, <2>1, <2>4
    <3> QED
      BY <2>2, <3>1, <3>2
  <2> QED
    BY <2>3, <2>4
<1>12. a \o r = b
  BY <1>5, <1>6, <1>10, <1>11, SeqEqual
<1> QED
  BY <1>3, <1>4, <1>12 DEF a, b, Rest

-----------------------------------------------------------------------------
(* The invariant. *)

(* What is due, and how far that is. *)
LEMMA StopFacts ==
  ASSUME input \in Seq(Nat), counts \in BOOLEAN
  PROVE  /\ Stop \in Nat /\ Decoded \in Seq(Nat)
         /\ \A n \in 0..(Len(input) + 1) :
              counts \/ BadUpTo(input, n) = {} => IsPrefix(TextsOf(input, n), Decoded)
         /\ counts \/ BadLines(input) = {} => Decoded = TextsOf(input, Len(input) + 1)
         /\ \A k \in Nat : /\ ~counts /\ BadUpTo(input, k) = {}
                           /\ k + 1 \in BadLines(input)
                           => Decoded = TextsOf(input, k)
<1> DEFINE B == BadLines(input)
           x == CHOOSE k \in B : \A j \in B : k <= j
<1>1. Len(input) \in Nat /\ B \subseteq 1..(Len(input) + 1)
  BY LenProperties, BadFinite
<1>2. CASE counts \/ B = {}
  <2>1. Stop = Len(input) + 1
    BY <1>2 DEF Stop
  <2>2. Decoded = TextsOf(input, Len(input) + 1)
    BY <2>1 DEF Decoded
  <2>3. Stop \in Nat /\ Decoded \in Seq(Nat) /\ Len(input) + 1 \in Nat
    BY <1>1, <2>1, <2>2, TextsFacts
  <2>4. \A n \in 0..(Len(input) + 1) : IsPrefix(TextsOf(input, n), Decoded)
    BY <1>1, <2>2, TextsPrefix
  <2>5. \A k \in Nat : ~(~counts /\ k + 1 \in B)
    BY <1>2
  <2> QED
    BY <2>2, <2>3, <2>4, <2>5
<1>3. CASE ~(counts \/ B = {})
  <2>1. B \subseteq Nat
    BY <1>1
  <2>2. \E k \in B : \A j \in B : k <= j
    <3> HIDE DEF B
    <3> QED
      BY <1>3, <2>1, LeastExists
  <2>3. Stop = x - 1
    BY <1>3 DEF Stop
  <2>4. x \in B /\ \A j \in B : x <= j
    BY <2>2
  <2>5. x \in Nat /\ x - 1 \in Nat
    BY <1>1, <2>4
  <2> HIDE DEF x
  <2>6. Stop \in Nat /\ Decoded \in Seq(Nat)
    BY <2>3, <2>5, TextsFacts DEF Decoded
  <2>7. ASSUME NEW n \in 0..(Len(input) + 1), BadUpTo(input, n) = {}
        PROVE  IsPrefix(TextsOf(input, n), Decoded)
    <3>1. ~(x <= n)
      BY <2>4, <2>7 DEF BadUpTo
    <3>2. n \in Nat /\ n <= x - 1
      BY <2>5, <3>1
    <3> QED
      BY <2>3, <2>5, <3>2, TextsPrefix DEF Decoded
  <2>8. ASSUME NEW k \in Nat, BadUpTo(input, k) = {}, k + 1 \in B
        PROVE  Decoded = TextsOf(input, k)
    <3>1. ~(x <= k) /\ x <= k + 1
      BY <2>4, <2>8 DEF BadUpTo
    <3>2. x - 1 = k
      BY <2>5, <3>1
    <3> QED
      BY <2>3, <3>2 DEF Decoded
  <2> QED
    BY <1>3, <2>6, <2>7, <2>8
<1> QED
  BY <1>2, <1>3

(* How much of the input is neither in src nor behind it. *)
Position == Len(input) - Len(left) - Len(src)

(* src and what is left to read are the rest of the input, from a line on; *)
(* the loop over the lines stands at another.                              *)
Placed ==
  /\ Position \in 0..Len(input) /\ (Position = 0 \/ input[Position] = Eol)
  /\ Rest(input, Position, src, left)
  /\ ol = 0 \/ (part.pc = "lines" /\ src[ol] = Eol)
  /\ part.pc = "read" => NextEol(src, 0) = 0

(* The types of the answer, and where the two buffers stand: they exist    *)
(* until the end is answered, and no request is worked on without them.    *)
Base ==
  /\ part \in [pc : {"idle", "check", "lines", "read", "done", "crashed"},
               ask : Nat, got : Nat, ended : BOOLEAN]
  /\ part.got <= part.ask /\ (part.ended <=> ~alive)
  /\ IF alive THEN Placed ELSE part.pc \in {"idle", "crashed"} /\ ol = 0

(* The lines so far were decoded, and the bad ones counted. *)
Regular ==
  /\ alive /\ part.pc # "done"
  /\ out \o dst = TextsOf(input, Position + ol)
  /\ counts => bad = Cardinality(BadUpTo(input, Position + ol))
  /\ ~counts => BadUpTo(input, Position + ol) = {}

(* All that is due was decoded, and nothing else unless a line is decoded  *)
(* again.                                                                  *)
Over ==
  /\ IsPrefix(Decoded, out \o dst)
  /\ counts => bad >= Cardinality(BadLines(input))
  /\ Terminated /\ ~Stuck =>
       /\ src = <<>> /\ left = <<>> /\ out \o dst = Decoded
       /\ counts => bad = Cardinality(BadLines(input))
  /\ ~alive => dst = <<>>

Told == starved \/ Regular \/ Over

UuInv == TypeOK /\ Base /\ Told

(* The types, and a few facts on lengths. *)
LEMMA UuTypes ==
  ASSUME TypeOK
  PROVE  /\ input \in Seq(Nat) /\ left \in Seq(Nat) /\ src \in Seq(Nat)
         /\ dst \in Seq(Nat) /\ out \in Seq(Nat) /\ out \o dst \in Seq(Nat)
         /\ Len(input) \in Nat /\ Len(left) \in Nat /\ Len(src) \in Nat
         /\ Len(dst) \in Nat /\ ol \in Nat /\ ol <= Len(src) /\ Position \in Int
         /\ counts \in BOOLEAN /\ bad \in Nat /\ starved \in BOOLEAN
<1>1. /\ input \in Seq(Nat) /\ left \in Seq(Nat) /\ src \in Seq(Nat)
      /\ dst \in Seq(Nat) /\ out \in Seq(Nat)
  BY UuAssumption DEF TypeOK
<1>2. /\ Len(input) \in Nat /\ Len(left) \in Nat /\ Len(src) \in Nat
      /\ Len(dst) \in Nat
  BY <1>1, LenProperties
<1>3. out \o dst \in Seq(Nat)
  BY <1>1, TextFacts
<1>4. ol \in Nat /\ ol <= Len(src)
  BY <1>2 DEF TypeOK
<1>5. Position \in Int
  BY <1>2 DEF Position
<1> QED
  BY <1>1, <1>2, <1>3, <1>4, <1>5 DEF TypeOK

(* Where the loop over the lines stands, and the line it is about to take. *)
LEMMA PlacedFacts ==
  ASSUME TypeOK, Placed
  PROVE  LET k == Position + ol
             l == NextEol(src, ol)
         IN  /\ Len(input) = Position + Len(src) + Len(left)
             /\ \A i \in 1..Len(src) : src[i] = input[Position + i]
             /\ k \in 0..Len(input) /\ (k = 0 \/ input[k] = Eol)
             /\ Rest(input, k, After(src, ol), left)
             /\ l # 0 => /\ l \in (ol + 1)..Len(src) /\ src[l] = Eol
                         /\ Position + l \in 0..Len(input)
                         /\ input[Position + l] = Eol
                         /\ NextEol(input, k) = Position + l
                         /\ LineFrom(input, k + 1) = SubSeq(src, ol + 1, l - 1)
                         /\ Rest(input, Position + l, After(src, l), left)
             /\ l = 0 /\ left = <<>> /\ ol = 0 =>
                  NextEol(input, Position) = 0 /\ LineFrom(input, Position + 1) = src
<1> DEFINE k == Position + ol
           l == NextEol(src, ol)
<1>1. /\ input \in Seq(Nat) /\ left \in Seq(Nat) /\ src \in Seq(Nat)
      /\ Len(input) \in Nat /\ Len(src) \in Nat /\ ol \in Nat /\ ol <= Len(src)
  BY UuTypes
<1>2. /\ Position \in 0..Len(input) /\ (Position = 0 \/ input[Position] = Eol)
      /\ Rest(input, Position, src, left) /\ (ol = 0 \/ src[ol] = Eol)
  BY DEF Placed
<1>3. ol \in 0..Len(src) /\ Position \in Nat
  <2>1. Position \in 0..Len(input)
    BY <1>2
  <2> QED
    BY <1>1, <2>1
<1>4. /\ Len(input) = Position + Len(src) + Len(left)
      /\ \A i \in 1..Len(src) : src[i] = input[Position + i]
      /\ l # 0 => /\ NextEol(input, k) = Position + l
                  /\ LineFrom(input, k + 1) = SubSeq(src, ol + 1, l - 1)
      /\ l = 0 /\ left = <<>> /\ ol = 0 =>
           NextEol(input, Position) = 0 /\ LineFrom(input, Position + 1) = src
  <2>1. Position \in 0..Len(input) /\ Rest(input, Position, src, left)
    BY <1>2
  <2>2. LineIn(input, Position, src, left, ol)
    BY <1>1, <1>3, <2>1, LinesArePlaced
  <2>3. ASSUME l = 0, left = <<>>, ol = 0
        PROVE  NextEol(input, Position) = 0 /\ LineFrom(input, Position + 1) = src
    <3>1. Rest(input, Position, src, <<>>) /\ NextEol(src, 0) = 0
      BY <2>1, <2>3
    <3> QED
      BY <1>1, <2>1, <3>1, LastIsPlaced
  <2> QED
    BY <2>2, <2>3 DEF LineIn
<1>5. k \in 0..Len(input) /\ Rest(input, k, After(src, ol), left)
  BY <1>1, <1>2, <1>3, CutPlaced, Zenon
<1>6. k = 0 \/ input[k] = Eol
  <2>1. CASE ol = 0
    BY <1>2, <1>3, <2>1
  <2>2. CASE ol # 0
    <3>1. ol \in 1..Len(src)
      BY <1>3, <2>2
    <3> QED
      BY <1>2, <1>4, <2>2, <3>1
  <2> QED
    BY <2>1, <2>2
<1>7. l # 0 => l \in (ol + 1)..Len(src) /\ src[l] = Eol
  BY <1>1, NextEolFacts
<1> HIDE DEF l, k
<1>8. ASSUME l # 0
      PROVE  /\ Position + l \in 0..Len(input) /\ input[Position + l] = Eol
             /\ Rest(input, Position + l, After(src, l), left)
  <2>1. l \in (ol + 1)..Len(src)
    BY <1>7, <1>8
  <2>2. l \in 0..Len(src) /\ l \in 1..Len(src)
    BY <1>3, <2>1
  <2>3. /\ Position + l \in 0..Len(input)
        /\ Rest(input, Position + l, After(src, l), left)
    BY <1>1, <1>2, <2>2, CutPlaced, Zenon
  <2> QED
    BY <1>4, <1>7, <1>8, <2>2, <2>3
<1> QED
  BY <1>4, <1>5, <1>6, <1>7, <1>8 DEF l, k

(* A step that decodes nothing. *)
LEMMA ToldKept ==
  ASSUME Told, input' = input, counts' = counts, alive' = alive, bad' = bad,
         starved' = starved, out' \o dst' = out \o dst,
         Position' + ol' = Position + ol,
         src = <<>> /\ left = <<>> => src' = <<>> /\ left' = <<>>,
         alive \/ dst' = dst, part'.pc # "done"
  PROVE  Told'
<1>1. Decoded' = Decoded /\ Terminated' = Terminated /\ Stuck' = Stuck
  BY DEF Decoded, Stop, Terminated, Stuck
<1>2. CASE starved
  BY <1>2 DEF Told
<1>3. CASE Regular
  <2>1. Regular'
    BY <1>3 DEF Regular
  <2> QED
    BY <2>1 DEF Told
<1>4. CASE Over
  <2>1. Over'
    BY <1>1, <1>4 DEF Over
  <2> QED
    BY <2>1 DEF Told
<1> QED
  BY <1>2, <1>3, <1>4 DEF Told

(* Handing over what is decoded changes nothing of what was. *)
LEMMA AnswerKeeps ==
  ASSUME TypeOK, NEW k \in 0..Len(dst), Answers(k)
  PROVE  /\ out' \in Seq(Nat) /\ dst' \in Seq(Nat) /\ out' \o dst' = out \o dst
<1>1. dst \in Seq(Nat) /\ out \in Seq(Nat)
  BY UuTypes
<1>2. /\ First(dst, k) \in Seq(Nat) /\ After(dst, k) \in Seq(Nat)
      /\ First(dst, k) \o After(dst, k) = dst
  BY <1>1, CutFacts DEF First, After
<1>3. out' = out \o First(dst, k) /\ dst' = After(dst, k)
  BY DEF Answers
<1>4. out' \in Seq(Nat) /\ dst' \in Seq(Nat)
  BY <1>1, <1>2, <1>3, TextFacts
<1>5. (out \o First(dst, k)) \o After(dst, k) = out \o (First(dst, k) \o After(dst, k))
  BY <1>1, <1>2, TextFacts, Zenon
<1> QED
  BY <1>2, <1>3, <1>4, <1>5

-----------------------------------------------------------------------------
(* It holds in the beginning, and every step keeps it. *)

LEMMA InitInv == Init => UuInv
<1> SUFFICES ASSUME Init PROVE UuInv
  OBVIOUS
<1>1. input \in Seq(Nat) /\ left = input /\ counts \in BOOLEAN
  BY UuAssumption DEF Init
<1>2. /\ src = <<>> /\ dst = <<>> /\ ol = 0 /\ alive = TRUE /\ bad = 0
      /\ out = <<>> /\ starved = FALSE
      /\ part = [pc |-> "idle", ask |-> 0, got |-> 0, ended |-> FALSE]
  BY DEF Init
<1>3. <<>> \in Seq(Nat) /\ Len(<<>>) = 0
  BY EmptySeq
<1>4. Len(input) \in Nat /\ Len(left) = Len(input) /\ Len(src) = 0
  BY <1>1, <1>2, <1>3, LenProperties
<1>5. Position = 0
  BY <1>4 DEF Position
<1>6. TypeOK
  <2>1. ol \in 0..Len(src)
    BY <1>2, <1>4
  <2>2. /\ left \in Seq(Nat) /\ src \in Seq(Nat) /\ dst \in Seq(Nat) /\ out \in Seq(Nat)
        /\ input \in Inputs
    BY <1>1, <1>2, <1>3 DEF Init
  <2>3. /\ bad \in Nat /\ alive \in BOOLEAN /\ starved \in BOOLEAN
        /\ part.pc = "idle"
    BY <1>2
  <2> QED
    BY <1>1, <2>1, <2>2, <2>3 DEF TypeOK
<1>7. Base
  <2>1. Rest(input, Position, src, left)
    <3>1. <<>> \o input = input
      BY <1>1, TextFacts
    <3>2. After(input, 0) = input
      BY <1>1, <1>4, SubSeqFull DEF After
    <3> QED
      BY <1>1, <1>2, <1>5, <3>1, <3>2 DEF Rest
  <2>2. Placed
    BY <1>2, <1>4, <1>5, <2>1 DEF Placed
  <2> QED
    BY <1>2, <2>2 DEF Base
<1>8. Regular
  <2>1. out \o dst = <<>>
    BY <1>2, <1>3, TextFacts
  <2>2. Position + ol = 0
    BY <1>2, <1>5
  <2>3. TextsOf(input, 0) = <<>>
    BY <1>1, TextsFacts
  <2>4. BadUpTo(input, 0) = {} /\ Cardinality({}) = 0
    BY <1>1, BadFinite, FS_EmptySet
  <2> QED
    BY <1>2, <2>1, <2>2, <2>3, <2>4 DEF Regular
<1> QED
  BY <1>6, <1>7, <1>8 DEF UuInv, Told

LEMMA AskInv ==
  ASSUME UuInv, Ask
  PROVE  UuInv'
<1>1. TypeOK /\ Base /\ Told
  BY DEF UuInv
<1>2. /\ part.pc = "idle"
      /\ \E n \in Asks, line \in BOOLEAN :
           part' = [part EXCEPT !.pc = IF alive THEN "check" ELSE "crashed",
                                !.ask = n, !.got = 0]
  BY DEF Ask
<1>3. PICK n \in Asks :
        part' = [part EXCEPT !.pc = IF alive THEN "check" ELSE "crashed",
                             !.ask = n, !.got = 0]
  BY <1>2
<1>4. /\ input' = input /\ counts' = counts /\ left' = left /\ src' = src
      /\ dst' = dst /\ ol' = ol /\ alive' = alive /\ bad' = bad /\ out' = out
      /\ starved' = starved
  BY DEF Ask
<1>5. n \in Nat /\ 0 <= n
  BY UuAssumption
<1>6. /\ part' \in [pc : {"idle", "check", "lines", "read", "done", "crashed"},
                    ask : Nat, got : Nat, ended : BOOLEAN]
      /\ part'.pc = (IF alive THEN "check" ELSE "crashed")
      /\ part'.ask = n /\ part'.got = 0 /\ part'.ended = part.ended
  BY <1>1, <1>3, <1>5 DEF Base
<1>7. TypeOK'
  BY <1>1, <1>4, <1>6 DEF TypeOK
<1>8. Position' = Position
  BY <1>4 DEF Position
<1>9. ASSUME alive PROVE Placed'
  <2>1. Placed
    BY <1>1, <1>9 DEF Base
  <2>2. ol = 0
    BY <1>2, <2>1 DEF Placed
  <2> QED
    BY <1>4, <1>6, <1>8, <1>9, <2>1, <2>2 DEF Placed
<1>10. ASSUME ~alive PROVE ol' = 0
  BY <1>1, <1>4, <1>10 DEF Base
<1>11. Base'
  <2>1. part'.got <= part'.ask /\ (part'.ended <=> ~alive')
    BY <1>1, <1>4, <1>5, <1>6 DEF Base
  <2> QED
    BY <1>4, <1>6, <1>9, <1>10, <2>1 DEF Base
<1>12. Told'
  <2>1. part'.pc # "done"
    BY <1>6
  <2> QED
    BY <1>1, <1>4, <1>8, <2>1, ToldKept
<1> QED
  BY <1>7, <1>11, <1>12 DEF UuInv

(* Where a request is worked on the buffers exist. *)
LEMMA Working ==
  ASSUME UuInv, part.pc \notin {"idle", "crashed"}
  PROVE  alive /\ Placed
BY DEF UuInv, Base

LEMMA CheckInv ==
  ASSUME UuInv, Check
  PROVE  UuInv'
<1>1. TypeOK /\ Base /\ Told
  BY DEF UuInv
<1>2. part.pc = "check"
  BY DEF Check
<1>3. alive /\ Placed /\ ol = 0
  BY <1>2, Working DEF Placed
<1>4. /\ input' = input /\ counts' = counts /\ left' = left /\ src' = src
      /\ ol' = ol /\ alive' = alive /\ bad' = bad /\ starved' = starved
  BY DEF Check
<1>5. Position' = Position
  BY <1>4 DEF Position
<1>6. /\ dst \in Seq(Nat) /\ out \in Seq(Nat) /\ Len(dst) \in Nat
      /\ part.ask \in Nat
  BY <1>1, UuTypes DEF Base
<1>7. CASE Len(dst) > part.ask
  <2>1. Answers(part.ask)
    BY <1>7 DEF Check
  <2>2. part.ask \in 0..Len(dst)
    BY <1>6, <1>7
  <2>3. out' \in Seq(Nat) /\ dst' \in Seq(Nat) /\ out' \o dst' = out \o dst
    BY <1>1, <2>1, <2>2, AnswerKeeps
  <2>4. part' = [part EXCEPT !.pc = "idle", !.got = part.ask]
    BY <2>1 DEF Answers
  <2>5. /\ part' \in [pc : {"idle", "check", "lines", "read", "done", "crashed"},
                      ask : Nat, got : Nat, ended : BOOLEAN]
        /\ part'.pc = "idle" /\ part'.ask = part.ask /\ part'.got = part.ask
        /\ part'.ended = part.ended
    BY <1>1, <1>6, <2>4 DEF Base
  <2>6. TypeOK'
    BY <1>1, <1>4, <2>3, <2>5 DEF TypeOK
  <2>7. Placed'
    BY <1>3, <1>4, <1>5, <2>5 DEF Placed
  <2>8. Base'
    <3>1. part'.got <= part'.ask /\ (part'.ended <=> ~alive')
      BY <1>1, <1>4, <1>6, <2>5 DEF Base
    <3> QED
      BY <1>3, <1>4, <2>5, <2>7, <3>1 DEF Base
  <2>9. Told'
    <3>1. part'.pc # "done"
      BY <2>5
    <3> QED
      BY <1>1, <1>3, <1>4, <1>5, <2>3, <3>1, ToldKept
  <2> QED
    BY <2>6, <2>8, <2>9 DEF UuInv
<1>8. CASE ~(Len(dst) > part.ask)
  <2>1. /\ part' = [part EXCEPT !.pc = IF NextEol(src, 0) = 0 THEN "read" ELSE "lines"]
        /\ dst' = dst /\ out' = out
    BY <1>8 DEF Check, Goes
  <2>2. /\ part' \in [pc : {"idle", "check", "lines", "read", "done", "crashed"},
                      ask : Nat, got : Nat, ended : BOOLEAN]
        /\ part'.pc = (IF NextEol(src, 0) = 0 THEN "read" ELSE "lines")
        /\ part'.ask = part.ask /\ part'.got = part.got
        /\ part'.ended = part.ended
    BY <1>1, <2>1 DEF Base
  <2>3. TypeOK'
    BY <1>1, <1>4, <2>1, <2>2 DEF TypeOK
  <2>4. Placed'
    BY <1>3, <1>4, <1>5, <2>2 DEF Placed
  <2>5. Base'
    <3>1. part'.got <= part'.ask /\ (part'.ended <=> ~alive')
      BY <1>1, <1>4, <2>2 DEF Base
    <3> QED
      BY <1>3, <1>4, <2>2, <2>4, <3>1 DEF Base
  <2>6. Told'
    <3>1. part'.pc # "done"
      BY <2>2
    <3> QED
      BY <1>1, <1>3, <1>4, <1>5, <2>1, <3>1, ToldKept
  <2> QED
    BY <2>3, <2>5, <2>6 DEF UuInv
<1> QED
  BY <1>7, <1>8

(* When all is decoded, more of it changes nothing. *)
LEMMA OverGrows ==
  ASSUME TypeOK, Over, NEW u \in Seq(Nat), alive,
         input' = input, counts' = counts, out' = out, dst' = dst \o u,
         alive' = alive, bad' \in Nat, bad <= bad',
         Terminated /\ ~Stuck =>
           src' = <<>> /\ left' = <<>> /\ u = <<>> /\ bad' = bad
  PROVE  Over'
<1>1. /\ dst \in Seq(Nat) /\ out \in Seq(Nat) /\ out \o dst \in Seq(Nat)
      /\ input \in Seq(Nat) /\ counts \in BOOLEAN /\ bad \in Nat
  BY UuTypes
<1>2. Decoded' = Decoded /\ Terminated' = Terminated /\ Stuck' = Stuck
  BY DEF Decoded, Stop, Terminated, Stuck
<1>3. out' \o dst' = (out \o dst) \o u
  <2>1. out \in Seq(Nat) /\ dst \in Seq(Nat)
    BY <1>1
  <2>2. (out \o dst) \o u = out \o (dst \o u)
    BY <2>1, TextFacts, Zenon
  <2> QED
    BY <2>2
<1>4. Decoded \in Seq(Nat)
  BY <1>1, StopFacts
<1>5. IsPrefix(Decoded, (out \o dst) \o u)
  BY <1>1, <1>4, PrefixGrows DEF Over
<1>6. Cardinality(BadLines(input)) \in Nat
  <2>1. Len(input) + 1 \in Nat
    BY <1>1, LenProperties
  <2> QED
    BY <1>1, <2>1, BadFinite
<1>7. ASSUME counts PROVE bad' >= Cardinality(BadLines(input))
  <2>1. bad >= Cardinality(BadLines(input))
    BY <1>7 DEF Over
  <2> QED
    BY <1>1, <1>6, <2>1
<1>8. ASSUME Terminated, ~Stuck
      PROVE  /\ src' = <<>> /\ left' = <<>> /\ out' \o dst' = Decoded
             /\ counts => bad' = Cardinality(BadLines(input))
  <2>1. /\ out \o dst = Decoded /\ (counts => bad = Cardinality(BadLines(input)))
        /\ src' = <<>> /\ left' = <<>> /\ u = <<>> /\ bad' = bad
    BY <1>8 DEF Over
  <2>2. (out \o dst) \o u = out \o dst
    BY <1>1, <2>1, TextFacts
  <2> QED
    BY <1>3, <2>1, <2>2
<1> QED
  BY <1>2, <1>3, <1>5, <1>7, <1>8 DEF Over

(* A line of src is decoded, and taken off or left where it is. *)
LEMMA TurnTold ==
  ASSUME UuInv, part.pc = "lines", NextEol(src, ol) # 0,
         NEW d \in DecLine(SubSeq(src, ol + 1, NextEol(src, ol) - 1)),
         dst' = d.dst, bad' = d.bad, starved' = (starved \/ d.starved),
         input' = input, counts' = counts, left' = left, alive' = alive, out' = out,
         d.go => /\ Position' + ol' = Position + NextEol(src, ol)
                 /\ part'.pc # "done"
  PROVE  Told'
<1> DEFINE l == NextEol(src, ol)
           k == Position + ol
           m == Position + l
           x == SubSeq(src, ol + 1, l - 1)
<1>1. TypeOK /\ Told /\ alive /\ Placed
  BY Working DEF UuInv
<1>2. /\ dst \in Seq(Nat) /\ out \in Seq(Nat) /\ out \o dst \in Seq(Nat)
      /\ input \in Seq(Nat) /\ src \in Seq(Nat) /\ counts \in BOOLEAN /\ bad \in Nat
      /\ Len(input) \in Nat /\ Len(src) \in Nat /\ ol \in Nat
  BY <1>1, UuTypes
<1>3. /\ k \in 0..Len(input) /\ (k = 0 \/ input[k] = Eol)
      /\ l \in (ol + 1)..Len(src) /\ m \in 0..Len(input)
      /\ NextEol(input, k) = m /\ LineFrom(input, k + 1) = x
  BY <1>1, PlacedFacts
<1>4. k \in Nat /\ m \in Nat /\ m # 0
  <2>1. l \in Nat /\ l # 0 /\ Position \in 0..Len(input)
    BY <1>1, <1>2, <1>3 DEF Placed
  <2> QED
    BY <1>2, <1>3, <2>1
<1> HIDE DEF l, k, m, x
<1>5. /\ x \in Seq(Nat) /\ TextsOf(input, m) = TextsOf(input, k) \o TextOf(x)
      /\ IsBad(x) => /\ k + 1 \in BadUpTo(input, m)
                     /\ Cardinality(BadUpTo(input, m)) =
                          Cardinality(BadUpTo(input, k)) + 1
      /\ ~IsBad(x) => BadUpTo(input, m) = BadUpTo(input, k)
  BY <1>2, <1>3, <1>4, OneLine
<1>6. d \in DecLine(x)
  BY DEF x, l
<1>7. /\ d.go \in BOOLEAN /\ d.starved \in BOOLEAN /\ d.bad \in Nat /\ bad <= d.bad
      /\ \E u \in Seq(Nat) : d.dst = dst \o u
      /\ ~d.starved =>
           /\ d.go <=> (counts \/ ~IsBad(x))
           /\ d.bad = bad + (IF IsBad(x) /\ counts THEN 1 ELSE 0)
           /\ d.dst = dst \o TextOf(x)
  BY <1>2, <1>5, <1>6, DecLineFacts
<1>8. CASE starved \/ d.starved
  BY <1>8 DEF Told
<1>9. CASE Over
  <2>1. PICK u \in Seq(Nat) : d.dst = dst \o u
    BY <1>7
  <2>2. src # <<>>
    <3>1. Len(src) # 0
      BY <1>2, <1>3
    <3> QED
      BY <3>1, EmptySeq
  <2>3. ~(Terminated /\ ~Stuck)
    BY <1>9, <2>2 DEF Over
  <2>4. Over'
    BY <1>1, <1>7, <1>9, <2>1, <2>3, OverGrows
  <2> QED
    BY <2>4 DEF Told
<1>10. CASE Regular /\ ~starved /\ ~d.starved
  <2>1. /\ out \o dst = TextsOf(input, k)
        /\ counts => bad = Cardinality(BadUpTo(input, k))
        /\ ~counts => BadUpTo(input, k) = {}
    BY <1>10 DEF Regular, k
  <2>2. TextOf(x) \in Seq(Nat)
    BY <1>5, TextTyped
  <2>3. out' \o dst' = (out \o dst) \o TextOf(x)
    <3>1. (out \o dst) \o TextOf(x) = out \o (dst \o TextOf(x))
      <4>1. out \in Seq(Nat) /\ dst \in Seq(Nat)
        BY <1>2
      <4> QED
        BY <2>2, <4>1, TextFacts, Zenon
    <3> QED
      BY <1>7, <1>10, <3>1
  <2>4. CASE counts \/ ~IsBad(x)
    <3>1. Position' + ol' = m /\ part'.pc # "done"
      BY <1>7, <1>10, <2>4 DEF m, l
    <3>2. out' \o dst' = TextsOf(input, m)
      BY <1>5, <2>1, <2>3
    <3>3. ASSUME counts PROVE bad' = Cardinality(BadUpTo(input, m))
      <4>1. bad' = bad + (IF IsBad(x) /\ counts THEN 1 ELSE 0)
        BY <1>7, <1>10
      <4>2. bad = Cardinality(BadUpTo(input, k))
        BY <2>1, <3>3
      <4>3. CASE IsBad(x)
        BY <1>5, <3>3, <4>1, <4>2, <4>3
      <4>4. CASE ~IsBad(x)
        BY <1>2, <1>5, <4>1, <4>2, <4>4
      <4> QED
        BY <4>3, <4>4
    <3>4. ~counts => BadUpTo(input, m) = {}
      BY <1>5, <2>1, <2>4
    <3>5. Regular'
      BY <1>1, <3>1, <3>2, <3>3, <3>4 DEF Regular
    <3> QED
      BY <3>5 DEF Told
  <2>5. CASE ~counts /\ IsBad(x)
    <3>1. k + 1 \in BadLines(input)
      BY <1>5, <2>5 DEF BadUpTo
    <3>2. Decoded = TextsOf(input, k)
      BY <1>2, <1>4, <2>1, <2>5, <3>1, StopFacts
    <3>3. Stuck
      BY <2>5, <3>1 DEF Stuck
    <3>4. IsPrefix(Decoded, out' \o dst')
      BY <1>2, <2>1, <2>2, <2>3, <3>2, PrefixFacts
    <3>5. Decoded' = Decoded /\ Stuck' = Stuck
      BY DEF Decoded, Stop, Stuck
    <3>6. Over'
      BY <1>1, <2>5, <3>3, <3>4, <3>5 DEF Over
    <3> QED
      BY <3>6 DEF Told
  <2> QED
    BY <1>2, <2>4, <2>5
<1> QED
  BY <1>1, <1>7, <1>8, <1>9, <1>10 DEF Told

(* What part is when only where it is changes. *)
LEMMA GoesFacts ==
  ASSUME Base, NEW pc \in {"check", "lines", "read", "done"}, Goes(pc), alive' = alive
  PROVE  /\ part' \in [pc : {"idle", "check", "lines", "read", "done", "crashed"},
                       ask : Nat, got : Nat, ended : BOOLEAN]
         /\ part'.pc = pc
         /\ part'.got <= part'.ask /\ (part'.ended <=> ~alive')
<1>1. /\ part' \in [pc : {"idle", "check", "lines", "read", "done", "crashed"},
                    ask : Nat, got : Nat, ended : BOOLEAN]
      /\ part'.pc = pc /\ part'.got = part.got /\ part'.ask = part.ask
      /\ part'.ended = part.ended
  BY DEF Base, Goes
<1> QED
  BY <1>1 DEF Base

(* The lines up to k are taken off. *)
LEMMA EndLinesPlaced ==
  ASSUME UuInv, part.pc = "lines", NEW k \in 0..Len(src), EndLines(k),
         input' = input, left' = left, alive' = alive,
         Position + k \in 0..Len(input),
         Position + k = 0 \/ input[Position + k] = Eol,
         Rest(input, Position + k, After(src, k), left)
  PROVE  /\ Base' /\ src' \in Seq(Nat) /\ ol' = 0 /\ ol' \in 0..Len(src')
         /\ part'.pc = "check" /\ Position' + ol' = Position + k
         /\ src = <<>> => src' = <<>>
<1>1. TypeOK /\ Base /\ alive
  BY Working DEF UuInv
<1>2. /\ src \in Seq(Nat) /\ Len(src) \in Nat /\ Len(input) \in Nat
      /\ Len(left) \in Nat
  BY <1>1, UuTypes
<1>3. src' = After(src, k) /\ ol' = 0 /\ Goes("check")
  BY DEF EndLines
<1>4. src' \in Seq(Nat) /\ Len(src') = Len(src) - k
  BY <1>2, <1>3, CutFacts DEF After
<1>5. Len(src') \in Nat /\ k \in Nat
  BY <1>2, <1>4
<1>6. Position' = Position + k
  BY <1>2, <1>4, <1>5 DEF Position
<1>7. /\ part' \in [pc : {"idle", "check", "lines", "read", "done", "crashed"},
                    ask : Nat, got : Nat, ended : BOOLEAN]
      /\ part'.pc = "check"
      /\ part'.got <= part'.ask /\ (part'.ended <=> ~alive')
  BY <1>1, <1>3, GoesFacts
<1>8. Placed'
  BY <1>3, <1>6, <1>7 DEF Placed
<1>9. Base'
  BY <1>1, <1>7, <1>8 DEF Base
<1>10. ol' \in 0..Len(src') /\ Position' + ol' = Position + k
  BY <1>2, <1>3, <1>5, <1>6 DEF Position
<1>11. ASSUME src = <<>> PROVE src' = <<>>
  <2>1. Len(src) = 0
    BY <1>2, <1>11, EmptySeq
  <2>2. Len(src') = 0
    <3>1. k = 0
      BY <1>5, <2>1
    <3> QED
      BY <1>4, <2>1, <3>1
  <2> QED
    BY <1>4, <2>2, EmptySeq
<1> QED
  BY <1>3, <1>4, <1>7, <1>9, <1>10, <1>11

LEMMA LinesInv ==
  ASSUME UuInv, Lines
  PROVE  UuInv'
<1> DEFINE l == NextEol(src, ol)
<1>1. TypeOK /\ Base /\ Told
  BY DEF UuInv
<1>2. /\ part.pc = "lines" /\ input' = input /\ counts' = counts /\ left' = left
      /\ alive' = alive /\ out' = out
  BY DEF Lines
<1>3. alive /\ Placed
  BY <1>2, Working
<1>4. /\ dst \in Seq(Nat) /\ src \in Seq(Nat) /\ counts \in BOOLEAN /\ bad \in Nat
      /\ Len(input) \in Nat /\ Len(src) \in Nat /\ ol \in Nat /\ ol <= Len(src)
      /\ starved \in BOOLEAN /\ out \in Seq(Nat)
  BY <1>1, UuTypes
<1>5. /\ Position + ol \in 0..Len(input)
      /\ (Position + ol = 0 \/ input[Position + ol] = Eol)
      /\ Rest(input, Position + ol, After(src, ol), left)
      /\ l # 0 => /\ l \in (ol + 1)..Len(src) /\ src[l] = Eol
                  /\ Position + l \in 0..Len(input)
                  /\ input[Position + l] = Eol
                  /\ Rest(input, Position + l, After(src, l), left)
  BY <1>1, <1>3, PlacedFacts
<1>6. CASE l = 0
  <2>1. EndLines(ol) /\ dst' = dst /\ bad' = bad /\ starved' = starved
    BY <1>6 DEF Lines
  <2>2. ol \in 0..Len(src)
    BY <1>4
  <2>3. /\ Base' /\ src' \in Seq(Nat) /\ ol' = 0 /\ ol' \in 0..Len(src')
        /\ part'.pc = "check" /\ Position' + ol' = Position + ol
        /\ src = <<>> => src' = <<>>
    BY <1>2, <1>5, <2>1, <2>2, EndLinesPlaced
  <2>4. TypeOK'
    BY <1>1, <1>2, <2>1, <2>3 DEF TypeOK
  <2>5. Told'
    <3>1. part'.pc # "done" /\ out' \o dst' = out \o dst
      BY <1>2, <2>1, <2>3
    <3>2. src = <<>> /\ left = <<>> => src' = <<>> /\ left' = <<>>
      BY <1>2, <2>3
    <3> QED
      BY <1>1, <1>2, <1>3, <2>1, <2>3, <3>1, <3>2, ToldKept
  <2> QED
    BY <2>3, <2>4, <2>5 DEF UuInv
<1>7. CASE l # 0
  <2> DEFINE x == SubSeq(src, ol + 1, l - 1)
  <2>1. PICK d \in DecLine(x) :
          /\ dst' = d.dst /\ bad' = d.bad /\ starved' = (starved \/ d.starved)
          /\ CASE ~d.go -> Goes("done") /\ ol' = 0 /\ UNCHANGED src
               [] d.go /\ Len(d.dst) > part.ask -> EndLines(l)
               [] d.go /\ Len(d.dst) <= part.ask -> ol' = l /\ UNCHANGED <<src, part>>
    BY <1>7 DEF Lines
  <2>2. x \in Seq(Nat)
    <3>1. ol \in 0..Len(src) /\ ol + 1 \in Int /\ l - 1 \in Int
      BY <1>4, <1>5, <1>7
    <3>2. \A i \in (ol + 1)..(l - 1) : i \in 1..Len(src)
      BY <1>4, <1>5, <1>7
    <3>3. \A i \in (ol + 1)..(l - 1) : src[i] \in Nat
      BY <1>4, <3>2, ElementOfSeq
    <3> QED
      BY <3>1, <3>3, SubSeqProperties
  <2> HIDE DEF x
  <2>3. /\ d.go \in BOOLEAN /\ d.starved \in BOOLEAN /\ d.bad \in Nat
        /\ \E u \in Seq(Nat) : d.dst = dst \o u
    BY <1>4, <2>1, <2>2, DecLineFacts
  <2>4. d.dst \in Seq(Nat) /\ Len(d.dst) \in Nat /\ part.ask \in Nat
    <3>1. d.dst \in Seq(Nat)
      BY <1>4, <2>3, TextFacts
    <3> QED
      BY <1>1, <3>1, LenProperties DEF Base
  <2>5. l \in 0..Len(src) /\ l \in Nat
    BY <1>4, <1>5, <1>7
  <2>6. ASSUME Base', src' \in Seq(Nat), ol' \in 0..Len(src'),
               d.go => Position' + ol' = Position + l /\ part'.pc # "done"
        PROVE  UuInv'
    <3>1. dst' \in Seq(Nat) /\ bad' \in Nat /\ starved' \in BOOLEAN
      BY <1>4, <2>1, <2>3, <2>4
    <3>2. part'.pc \in {"idle", "check", "lines", "read", "done", "crashed"}
      BY <2>6 DEF Base
    <3>3. TypeOK'
      BY <1>1, <1>2, <2>6, <3>1, <3>2 DEF TypeOK
    <3>4. Told'
      BY <1>2, <1>7, <2>1, <2>6, TurnTold DEF x
    <3> QED
      BY <2>6, <3>3, <3>4 DEF UuInv
  <2>7. CASE ~d.go
    <3>1. Goes("done") /\ ol' = 0 /\ src' = src
      BY <2>1, <2>7
    <3>2. /\ part' \in [pc : {"idle", "check", "lines", "read", "done", "crashed"},
                        ask : Nat, got : Nat, ended : BOOLEAN]
          /\ part'.pc = "done"
          /\ part'.got <= part'.ask /\ (part'.ended <=> ~alive')
      BY <1>1, <1>2, <3>1, GoesFacts
    <3>3. Position' = Position
      BY <1>2, <3>1 DEF Position
    <3>4. Placed'
      BY <1>2, <1>3, <3>1, <3>2, <3>3 DEF Placed
    <3>5. Base'
      BY <1>2, <1>3, <3>2, <3>4 DEF Base
    <3>6. src' \in Seq(Nat) /\ ol' \in 0..Len(src')
      BY <1>4, <3>1
    <3> QED
      BY <2>6, <2>7, <3>5, <3>6
  <2>8. CASE d.go /\ Len(d.dst) > part.ask
    <3>1. EndLines(l)
      <4>1. ~(Len(d.dst) <= part.ask)
        BY <2>4, <2>8
      <4> QED
        BY <2>1, <2>8, <4>1, Zenon
    <3>2. /\ Base' /\ src' \in Seq(Nat) /\ ol' \in 0..Len(src')
          /\ part'.pc = "check" /\ Position' + ol' = Position + l
      BY <1>2, <1>5, <1>7, <2>5, <3>1, EndLinesPlaced
    <3>3. part'.pc # "done"
      BY <3>2
    <3> QED
      BY <2>6, <3>2, <3>3
  <2>9. CASE d.go /\ Len(d.dst) <= part.ask
    <3>1. ol' = l /\ src' = src /\ part' = part
      BY <2>1, <2>4, <2>9
    <3>2. Position' = Position
      BY <1>2, <3>1 DEF Position
    <3>3. Placed'
      BY <1>2, <1>3, <1>5, <1>7, <3>1, <3>2 DEF Placed
    <3>4. Base'
      BY <1>1, <1>2, <1>3, <3>1, <3>3 DEF Base
    <3>5. src' \in Seq(Nat) /\ ol' \in 0..Len(src')
      BY <1>4, <2>5, <3>1
    <3>6. Position' + ol' = Position + l /\ part'.pc # "done"
      BY <1>2, <3>1, <3>2
    <3> QED
      BY <2>6, <3>4, <3>5, <3>6
  <2>10. d.go => Len(d.dst) > part.ask \/ Len(d.dst) <= part.ask
    BY <2>4
  <2> QED
    BY <2>3, <2>7, <2>8, <2>9, <2>10
<1> QED
  BY <1>6, <1>7

LEMMA ReadInv ==
  ASSUME UuInv, Read
  PROVE  UuInv'
<1>1. TypeOK /\ Base /\ Told
  BY DEF UuInv
<1>2. /\ part.pc = "read" /\ input' = input /\ counts' = counts /\ dst' = dst
      /\ ol' = ol /\ alive' = alive /\ bad' = bad /\ out' = out /\ starved' = starved
  BY DEF Read
<1>3. alive /\ Placed /\ ol = 0
  BY <1>2, Working DEF Placed
<1>4. PICK k \in 1..Len(left) : src' = src \o First(left, k) /\ left' = After(left, k)
  BY DEF Read
<1>5. /\ src \in Seq(Nat) /\ left \in Seq(Nat) /\ Len(src) \in Nat
      /\ Len(left) \in Nat /\ Len(input) \in Nat
  BY <1>1, UuTypes
<1>6. /\ First(left, k) \in Seq(Nat) /\ Len(First(left, k)) = k
      /\ After(left, k) \in Seq(Nat) /\ Len(After(left, k)) = Len(left) - k
      /\ First(left, k) \o After(left, k) = left
  <2>1. k \in 0..Len(left)
    BY <1>5
  <2> QED
    BY <1>5, <2>1, CutFacts DEF First, After
<1>7. src' \in Seq(Nat) /\ left' \in Seq(Nat) /\ Len(src') = Len(src) + k
  <2>1. /\ src \o First(left, k) \in Seq(Nat)
        /\ Len(src \o First(left, k)) = Len(src) + Len(First(left, k))
    BY <1>5, <1>6, TextFacts
  <2> QED
    BY <1>4, <1>6, <2>1
<1>8. Position' = Position
  <2>1. Len(left') = Len(left) - k
    BY <1>4, <1>6
  <2>2. Len(input') = Len(input) /\ Len(src') = Len(src) + k
    BY <1>2, <1>7
  <2> QED
    BY <1>5, <2>1, <2>2 DEF Position
<1>9. Rest(input', Position', src', left')
  <2>1. (src \o First(left, k)) \o After(left, k) =
          src \o (First(left, k) \o After(left, k))
    BY <1>5, <1>6, TextFacts, Zenon
  <2>2. src' \o left' = src \o left
    BY <1>4, <1>6, <2>1, Zenon
  <2>3. src \o left = After(input, Position)
    BY <1>3 DEF Placed, Rest
  <2> QED
    BY <1>2, <1>8, <2>2, <2>3, Zenon DEF Rest
<1>10. /\ part' \in [pc : {"idle", "check", "lines", "read", "done", "crashed"},
                     ask : Nat, got : Nat, ended : BOOLEAN]
       /\ part'.pc = (IF NextEol(src', 0) = 0 THEN "read" ELSE "lines")
       /\ part'.got = part.got /\ part'.ask = part.ask /\ part'.ended = part.ended
  <2>1. part' = [part EXCEPT !.pc = IF NextEol(src', 0) = 0 THEN "read" ELSE "lines"]
    BY DEF Read
  <2> QED
    BY <1>1, <2>1 DEF Base
<1>11. TypeOK'
  <2>1. ol' \in 0..Len(src')
    BY <1>2, <1>3, <1>5, <1>7
  <2>2. part'.pc \in {"idle", "check", "lines", "read", "done", "crashed"}
    BY <1>10
  <2> QED
    BY <1>1, <1>2, <1>7, <2>1, <2>2 DEF TypeOK
<1>12. Placed'
  <2>1. part'.pc = "read" => NextEol(src', 0) = 0
    BY <1>10
  <2> QED
    BY <1>2, <1>3, <1>8, <1>9, <2>1 DEF Placed
<1>13. Base'
  <2>1. part'.got <= part'.ask /\ (part'.ended <=> ~alive')
    BY <1>1, <1>2, <1>10 DEF Base
  <2> QED
    BY <1>2, <1>3, <1>10, <1>12, <2>1 DEF Base
<1>14. Told'
  <2>1. part'.pc # "done" /\ out' \o dst' = out \o dst /\ Position' + ol' = Position + ol
    BY <1>2, <1>8, <1>10
  <2>2. left # <<>>
    BY <1>5, EmptySeq
  <2> QED
    BY <1>1, <1>2, <1>3, <2>1, <2>2, ToldKept
<1> QED
  BY <1>11, <1>13, <1>14 DEF UuInv

(* A text whose last line has an end leaves nothing to decode behind it. *)
LEMMA NothingBehind ==
  ASSUME TypeOK, Placed, left = <<>>, NextEol(src, 0) = 0, Terminated
  PROVE  src = <<>>
<1> SUFFICES ASSUME src # <<>> PROVE FALSE
  OBVIOUS
<1> DEFINE n == Len(src)
<1>1. /\ input \in Seq(Nat) /\ left \in Seq(Nat) /\ src \in Seq(Nat)
      /\ Len(input) \in Nat /\ n \in Nat
  BY UuTypes
<1>2. n # 0 /\ Len(left) = 0
  BY <1>1, EmptySeq
<1>3. Position \in 0..Len(input)
  BY DEF Placed
<1>4. n \in 1..Len(src)
  BY <1>1, <1>2
<1>5. /\ Len(input) = Position + Len(src) + Len(left)
      /\ \A i \in 1..Len(src) : src[i] = input[Position + i]
  BY PlacedFacts
<1>6. Position + n = Len(input) /\ Len(input) # 0
  BY <1>1, <1>2, <1>3, <1>5
<1>7. src[n] = input[Len(input)]
  BY <1>4, <1>5, <1>6
<1>8. input # <<>>
  BY <1>1, <1>6, EmptySeq
<1>9. src[n] = Eol
  BY <1>7, <1>8 DEF Terminated
<1>10. \A i \in (0 + 1)..Len(src) : src[i] # Eol
  BY <1>1, NextEolFacts
<1>11. n \in (0 + 1)..Len(src)
  BY <1>4
<1> QED
  BY <1>9, <1>10, <1>11

(* The end of the input: src is the last line, and is decoded as one. *)
LEMMA LastTold ==
  ASSUME UuInv, part.pc = "read", NEW d \in DecLine(src),
         dst' = d.dst, bad' = d.bad,
         starved' = (starved \/ d.starved \/ left # <<>>),
         input' = input, counts' = counts, left' = left, src' = src,
         alive' = alive, out' = out
  PROVE  Told'
<1> DEFINE k == Position
           m == Len(input) + 1
<1>1. TypeOK /\ Told /\ alive /\ Placed
  BY Working DEF UuInv
<1>2. /\ dst \in Seq(Nat) /\ out \in Seq(Nat) /\ out \o dst \in Seq(Nat)
      /\ input \in Seq(Nat) /\ src \in Seq(Nat) /\ counts \in BOOLEAN /\ bad \in Nat
      /\ Len(input) \in Nat
  BY <1>1, UuTypes
<1>3. ol = 0 /\ NextEol(src, 0) = 0 /\ NextEol(src, ol) = 0
  BY <1>1 DEF Placed
<1>4. k \in 0..Len(input) /\ (k = 0 \/ input[k] = Eol) /\ k + ol = k
  BY <1>1, <1>2, <1>3 DEF Placed
<1>5. k \in Nat /\ m \in Nat
  BY <1>2, <1>4
<1>6. /\ d.go \in BOOLEAN /\ d.starved \in BOOLEAN /\ d.bad \in Nat /\ bad <= d.bad
      /\ \E u \in Seq(Nat) : d.dst = dst \o u
      /\ ~d.starved =>
           /\ d.bad = bad + (IF IsBad(src) /\ counts THEN 1 ELSE 0)
           /\ d.dst = dst \o TextOf(src)
  BY <1>2, DecLineFacts
<1>7. left = <<>> /\ Terminated => src = <<>>
  BY <1>1, <1>3, NothingBehind
<1>8. TextOf(src) \in Seq(Nat) /\ (src = <<>> => TextOf(src) = <<>> /\ ~IsBad(src))
  BY <1>2, TextTyped
<1>9. CASE starved \/ d.starved \/ left # <<>>
  BY <1>9 DEF Told
<1>10. CASE Over /\ ~d.starved /\ left = <<>>
  <2>1. ASSUME Terminated, ~Stuck
        PROVE  src' = <<>> /\ left' = <<>> /\ TextOf(src) = <<>> /\ bad' = bad
    <3>1. src = <<>>
      BY <1>7, <1>10, <2>1
    <3>2. bad' = bad
      BY <1>2, <1>6, <1>8, <1>10, <3>1
    <3> QED
      BY <1>8, <1>10, <3>1, <3>2
  <2>2. dst' = dst \o TextOf(src) /\ bad' \in Nat /\ bad <= bad'
    BY <1>6, <1>10
  <2>3. Over'
    BY <1>1, <1>8, <1>10, <2>1, <2>2, OverGrows
  <2> QED
    BY <2>3 DEF Told
<1>11. CASE Regular /\ ~starved /\ ~d.starved /\ left = <<>>
  <2>1. NextEol(input, k) = 0 /\ LineFrom(input, k + 1) = src
    BY <1>1, <1>3, <1>11, PlacedFacts
  <2>2. /\ out \o dst = TextsOf(input, k)
        /\ counts => bad = Cardinality(BadUpTo(input, k))
        /\ ~counts => BadUpTo(input, k) = {}
    BY <1>4, <1>11 DEF Regular
  <2> HIDE DEF k, m
  <2>3. /\ TextsOf(input, m) = TextsOf(input, k) \o TextOf(src)
        /\ IsBad(src) => /\ k + 1 \in BadUpTo(input, m)
                         /\ Cardinality(BadUpTo(input, m)) =
                              Cardinality(BadUpTo(input, k)) + 1
        /\ ~IsBad(src) => BadUpTo(input, m) = BadUpTo(input, k)
    BY <1>2, <1>4, <2>1, OneLine DEF m
  <2>4. BadUpTo(input, m) = BadLines(input)
    BY <1>2, <1>5, BadFinite DEF m
  <2>5. out' \o dst' = (out \o dst) \o TextOf(src)
    <3>1. (out \o dst) \o TextOf(src) = out \o (dst \o TextOf(src))
      <4>1. out \in Seq(Nat) /\ dst \in Seq(Nat) /\ TextOf(src) \in Seq(Nat)
        BY <1>2, <1>8
      <4> QED
        BY <4>1, TextFacts, Zenon
    <3> QED
      BY <1>6, <1>11, <3>1
  <2>6. out' \o dst' = TextsOf(input, m)
    BY <2>2, <2>3, <2>5
  <2>7. ASSUME counts PROVE bad' = Cardinality(BadLines(input))
    <3>1. bad' = bad + (IF IsBad(src) /\ counts THEN 1 ELSE 0)
      BY <1>6, <1>11
    <3>2. bad = Cardinality(BadUpTo(input, k))
      BY <2>2, <2>7
    <3>3. CASE IsBad(src)
      BY <2>3, <2>4, <2>7, <3>1, <3>2, <3>3
    <3>4. CASE ~IsBad(src)
      BY <1>2, <2>3, <2>4, <3>1, <3>2, <3>4
    <3> QED
      BY <3>3, <3>4
  <2>8. Decoded' = Decoded /\ Terminated' = Terminated /\ Stuck' = Stuck
    BY DEF Decoded, Stop, Terminated, Stuck
  <2>9. Cardinality(BadLines(input)) \in Nat
    BY <1>2, <1>5, <2>4, BadFinite
  <2>10. CASE counts \/ BadLines(input) = {}
    <3>1. Decoded = TextsOf(input, m)
      BY <1>2, <2>10, StopFacts DEF m
    <3>2. out' \o dst' = Decoded /\ Decoded \in Seq(Nat)
      BY <1>2, <2>6, <3>1, StopFacts
    <3>3. IsPrefix(Decoded, Decoded)
      <4>1. Decoded \o <<>> = Decoded /\ <<>> \in Seq(Nat)
        BY <3>2, TextFacts
      <4> QED
        BY <3>2, <4>1, PrefixFacts
    <3>4. Terminated => src' = <<>> /\ left' = <<>>
      BY <1>7, <1>11
    <3>5. counts => bad' >= Cardinality(BadLines(input))
      BY <2>7, <2>9
    <3>6. Over'
      BY <1>1, <2>7, <2>8, <3>2, <3>3, <3>4, <3>5 DEF Over
    <3> QED
      BY <3>6 DEF Told
  <2>11. CASE ~counts /\ BadLines(input) # {}
    <3>1. IsBad(src)
      BY <2>2, <2>3, <2>4, <2>11
    <3>2. k + 1 \in BadLines(input)
      BY <2>3, <2>4, <3>1
    <3>3. Decoded = TextsOf(input, k)
      BY <1>2, <1>5, <2>2, <2>11, <3>2, StopFacts
    <3>4. IsPrefix(Decoded, out' \o dst')
      BY <1>2, <1>8, <2>2, <2>5, <3>3, PrefixFacts
    <3>5. Stuck
      BY <2>11 DEF Stuck
    <3>6. Over'
      BY <1>1, <2>8, <2>11, <3>4, <3>5 DEF Over
    <3> QED
      BY <3>6 DEF Told
  <2> QED
    BY <2>10, <2>11
<1> QED
  BY <1>1, <1>9, <1>10, <1>11 DEF Told

LEMMA ReadFailsInv ==
  ASSUME UuInv, ReadFails
  PROVE  UuInv'
<1>1. TypeOK /\ Base /\ Told
  BY DEF UuInv
<1>2. /\ part.pc = "read" /\ input' = input /\ counts' = counts /\ left' = left
      /\ src' = src /\ ol' = ol /\ alive' = alive /\ out' = out /\ Goes("done")
  BY DEF ReadFails
<1>3. PICK d \in DecLine(src) :
        /\ dst' = d.dst /\ bad' = d.bad
        /\ starved' = (starved \/ d.starved \/ left # <<>>)
  BY DEF ReadFails
<1>4. alive /\ Placed /\ ol = 0
  BY <1>2, Working DEF Placed
<1>5. /\ dst \in Seq(Nat) /\ src \in Seq(Nat) /\ counts \in BOOLEAN /\ bad \in Nat
  BY <1>1, UuTypes
<1>6. /\ d.starved \in BOOLEAN /\ d.bad \in Nat
      /\ \E u \in Seq(Nat) : d.dst = dst \o u
  BY <1>5, DecLineFacts
<1>7. dst' \in Seq(Nat) /\ bad' \in Nat /\ starved' \in BOOLEAN
  BY <1>3, <1>5, <1>6, TextFacts
<1>8. /\ part' \in [pc : {"idle", "check", "lines", "read", "done", "crashed"},
                    ask : Nat, got : Nat, ended : BOOLEAN]
      /\ part'.pc = "done"
      /\ part'.got <= part'.ask /\ (part'.ended <=> ~alive')
  BY <1>1, <1>2, GoesFacts
<1>9. TypeOK'
  BY <1>1, <1>2, <1>7, <1>8 DEF TypeOK
<1>10. Position' = Position
  BY <1>2 DEF Position
<1>11. Placed'
  BY <1>2, <1>4, <1>8, <1>10 DEF Placed
<1>12. Base'
  BY <1>2, <1>4, <1>8, <1>11 DEF Base
<1>13. Told'
  BY <1>2, <1>3, LastTold
<1> QED
  BY <1>9, <1>12, <1>13 DEF UuInv

LEMMA DoneInv ==
  ASSUME UuInv, Done
  PROVE  UuInv'
<1>1. TypeOK /\ Base /\ Told
  BY DEF UuInv
<1>2. /\ part.pc = "done" /\ input' = input /\ counts' = counts /\ left' = left
      /\ ol' = ol /\ bad' = bad /\ starved' = starved
  BY DEF Done
<1>3. alive /\ Placed /\ ol = 0
  BY <1>2, Working DEF Placed
<1>4. /\ dst \in Seq(Nat) /\ src \in Seq(Nat) /\ Len(dst) \in Nat /\ part.ask \in Nat
      /\ out \in Seq(Nat)
  BY <1>1, UuTypes DEF Base
<1>5. dst = <<>> <=> Len(dst) = 0
  BY <1>4, EmptySeq
<1>6. CASE Len(dst) > part.ask
  <2>1. Goes("check") /\ src' = src /\ dst' = dst /\ out' = out /\ alive' = alive
    <3>1. ~(Len(dst) \in 1..part.ask) /\ ~(dst = <<>>)
      BY <1>4, <1>5, <1>6
    <3> QED
      BY <1>6, <3>1, Zenon DEF Done
  <2>2. /\ part' \in [pc : {"idle", "check", "lines", "read", "done", "crashed"},
                      ask : Nat, got : Nat, ended : BOOLEAN]
        /\ part'.pc = "check"
        /\ part'.got <= part'.ask /\ (part'.ended <=> ~alive')
    BY <1>1, <2>1, GoesFacts
  <2>3. TypeOK'
    BY <1>1, <1>2, <2>1, <2>2 DEF TypeOK
  <2>4. Position' = Position
    BY <1>2, <2>1 DEF Position
  <2>5. Placed'
    BY <1>2, <1>3, <2>1, <2>2, <2>4 DEF Placed
  <2>6. Base'
    BY <1>3, <2>1, <2>2, <2>5 DEF Base
  <2>7. Told'
    <3>1. part'.pc # "done"
      BY <2>2
    <3> QED
      BY <1>1, <1>2, <1>3, <2>1, <2>4, <3>1, ToldKept
  <2> QED
    BY <2>3, <2>6, <2>7 DEF UuInv
<1>7. CASE Len(dst) \in 1..part.ask
  <2>1. Answers(Len(dst)) /\ src' = src /\ alive' = alive
    <3>1. ~(Len(dst) > part.ask) /\ ~(dst = <<>>)
      BY <1>4, <1>5, <1>7
    <3> QED
      BY <1>7, <3>1, Zenon DEF Done
  <2>2. Len(dst) \in 0..Len(dst) /\ Len(dst) <= part.ask
    BY <1>4, <1>7
  <2>3. out' \in Seq(Nat) /\ dst' \in Seq(Nat) /\ out' \o dst' = out \o dst
    BY <1>1, <2>1, <2>2, AnswerKeeps
  <2>4. part' = [part EXCEPT !.pc = "idle", !.got = Len(dst)]
    BY <2>1 DEF Answers
  <2>5. /\ part' \in [pc : {"idle", "check", "lines", "read", "done", "crashed"},
                      ask : Nat, got : Nat, ended : BOOLEAN]
        /\ part'.pc = "idle" /\ part'.ask = part.ask /\ part'.got = Len(dst)
        /\ part'.ended = part.ended
    BY <1>1, <1>4, <2>4 DEF Base
  <2>6. TypeOK'
    BY <1>1, <1>2, <2>1, <2>3, <2>5 DEF TypeOK
  <2>7. Position' = Position
    BY <1>2, <2>1 DEF Position
  <2>8. Placed'
    BY <1>2, <1>3, <2>1, <2>5, <2>7 DEF Placed
  <2>9. Base'
    <3>1. part'.got <= part'.ask /\ (part'.ended <=> ~alive')
      BY <1>1, <2>1, <2>2, <2>5 DEF Base
    <3> QED
      BY <1>3, <2>1, <2>5, <2>8, <3>1 DEF Base
  <2>10. Told'
    <3>1. part'.pc # "done"
      BY <2>5
    <3> QED
      BY <1>1, <1>2, <1>3, <2>1, <2>3, <2>7, <3>1, ToldKept
  <2> QED
    BY <2>6, <2>9, <2>10 DEF UuInv
<1>8. CASE dst = <<>>
  <2>1. /\ alive' = FALSE /\ src' = <<>> /\ dst' = dst /\ out' = out
        /\ part' = [part EXCEPT !.pc = "idle", !.got = 0, !.ended = TRUE]
    <3>1. ~(Len(dst) > part.ask) /\ ~(Len(dst) \in 1..part.ask)
      BY <1>4, <1>5, <1>8
    <3> QED
      BY <1>8, <3>1, Zenon DEF Done
  <2>2. /\ part' \in [pc : {"idle", "check", "lines", "read", "done", "crashed"},
                      ask : Nat, got : Nat, ended : BOOLEAN]
        /\ part'.pc = "idle" /\ part'.ask = part.ask /\ part'.got = 0
        /\ part'.ended = TRUE
    BY <1>1, <2>1 DEF Base
  <2>3. TypeOK'
    <3>1. src' \in Seq(Nat) /\ ol' \in 0..Len(src')
      BY <1>2, <1>3, <2>1, EmptySeq
    <3> QED
      BY <1>1, <1>2, <2>1, <2>2, <3>1 DEF TypeOK
  <2>4. Base'
    <3>1. part'.got <= part'.ask
      BY <1>4, <2>2
    <3> QED
      BY <1>2, <1>3, <2>1, <2>2, <3>1 DEF Base
  <2>5. CASE starved
    BY <1>2, <2>3, <2>4, <2>5 DEF UuInv, Told
  <2>6. CASE Over
    <3>1. Decoded' = Decoded /\ Terminated' = Terminated /\ Stuck' = Stuck
      BY <1>2 DEF Decoded, Stop, Terminated, Stuck
    <3>2. Over'
      BY <1>2, <1>8, <2>1, <2>6, <3>1 DEF Over
    <3> QED
      BY <2>3, <2>4, <3>2 DEF UuInv, Told
  <2>7. ~Regular
    BY <1>2 DEF Regular
  <2> QED
    BY <1>1, <2>5, <2>6, <2>7 DEF Told
<1>9. Len(dst) > part.ask \/ Len(dst) \in 1..part.ask \/ dst = <<>>
  BY <1>4, <1>5
<1> QED
  BY <1>6, <1>7, <1>8, <1>9

LEMMA StutterInv ==
  ASSUME UuInv, UNCHANGED vars
  PROVE  UuInv'
<1>1. /\ input' = input /\ counts' = counts /\ left' = left /\ src' = src /\ dst' = dst
      /\ ol' = ol /\ alive' = alive /\ part' = part /\ bad' = bad /\ out' = out
      /\ starved' = starved
  BY DEF vars
<1>2. TypeOK' = TypeOK
  BY <1>1 DEF TypeOK
<1>3. Position' = Position
  BY <1>1 DEF Position
<1>4. Base' = Base
  BY <1>1, <1>3 DEF Base, Placed
<1>5. Decoded' = Decoded /\ Terminated' = Terminated /\ Stuck' = Stuck
  BY <1>1 DEF Decoded, Stop, Terminated, Stuck
<1>6. Regular' = Regular
  BY <1>1, <1>3 DEF Regular
<1>7. Over' = Over
  BY <1>1, <1>5 DEF Over
<1> QED
  BY <1>1, <1>2, <1>4, <1>6, <1>7 DEF UuInv, Told

(* The inductive invariant. *)
LEMMA UuInvHolds == Spec => []UuInv
<1>1. Init => UuInv
  BY InitInv
<1>2. UuInv /\ [Next]_vars => UuInv'
  BY AskInv, CheckInv, LinesInv, ReadInv, ReadFailsInv, DoneInv, StutterInv
  DEF Next, Steps
<1> QED
  BY <1>1, <1>2, PTL DEF Spec

-----------------------------------------------------------------------------
(* What follows. *)

(* What was handed over is a beginning of what is due, or all of it and    *)
(* more in the two cases where a line is decoded again.                    *)
LEMMA InvDecodesInOrder ==
  ASSUME UuInv
  PROVE  DecodesInOrder
<1>1. TypeOK /\ Told
  BY DEF UuInv
<1>2. /\ dst \in Seq(Nat) /\ out \in Seq(Nat) /\ out \o dst \in Seq(Nat)
      /\ input \in Seq(Nat) /\ counts \in BOOLEAN /\ Len(input) \in Nat
  BY <1>1, UuTypes
<1>3. Decoded \in Seq(Nat) /\ IsPrefix(out, out \o dst)
  BY <1>2, StopFacts, PrefixFacts
<1>4. CASE Regular
  <2> DEFINE n == Position + ol
  <2>1. alive /\ out \o dst = TextsOf(input, n) /\ (counts \/ BadUpTo(input, n) = {})
    BY <1>4 DEF Regular
  <2>2. n \in 0..Len(input)
    <3>1. Placed
      BY <2>1 DEF UuInv, Base
    <3> QED
      BY <1>1, <3>1, PlacedFacts
  <2> HIDE DEF n
  <2>3. n \in 0..(Len(input) + 1)
    BY <1>2, <2>2
  <2>4. IsPrefix(TextsOf(input, n), Decoded)
    BY <1>2, <2>1, <2>3, StopFacts
  <2>5. IsPrefix(out, Decoded)
    BY <1>2, <1>3, <2>1, <2>4, PrefixTransitive
  <2> QED
    BY <2>5 DEF DecodesInOrder
<1>5. CASE Over
  <2>1. IsPrefix(Decoded, out \o dst)
    BY <1>5 DEF Over
  <2>2. IsPrefix(out, Decoded) \/ IsPrefix(Decoded, out)
    BY <1>2, <1>3, <2>1, PrefixesCompare
  <2>3. Terminated /\ ~Stuck => IsPrefix(out, Decoded)
    BY <1>3, <1>5 DEF Over
  <2> QED
    BY <2>2, <2>3 DEF DecodesInOrder
<1> QED
  BY <1>1, <1>4, <1>5 DEF Told, DecodesInOrder

(* The answers are beginnings, and no more than beginnings, of what is     *)
(* due: whatever the requests, the blocks read and the lines they cut.     *)
THEOREM UuIsSound == Spec => []UuSound
<1>1. UuInv => UuSound
  BY InvDecodesInOrder DEF UuInv, Base, UuSound, AnswerFits
<1> QED
  BY <1>1, UuInvHolds, PTL

(* The end is met only behind all of the text, and behind every bad line.  *)
THEOREM UuEndIsTheEnd == Spec => []EndIsTheEnd
<1>1. ASSUME UuInv PROVE EndIsTheEnd
  <2>1. SUFFICES ASSUME part.ended, ~starved PROVE EndIsTheEnd
    BY DEF EndIsTheEnd
  <2>2. TypeOK /\ Base /\ Told
    BY <1>1 DEF UuInv
  <2>3. ~alive /\ Over
    BY <2>1, <2>2 DEF Base, Told, Regular
  <2>4. out \o dst = out
    <3>1. dst = <<>> /\ out \in Seq(Nat)
      BY <2>2, <2>3, UuTypes DEF Over
    <3> QED
      BY <3>1, TextFacts
  <2>5. counts /\ Terminated => ~Stuck
    BY DEF Stuck
  <2> QED
    BY <2>3, <2>4, <2>5 DEF Over, EndIsTheEnd
<1> QED
  BY <1>1, UuInvHolds, PTL

-----------------------------------------------------------------------------
(* UTF-8: bytes and code points. *)

(* What a byte announces. *)
Announces(c, n) ==
  /\ n \in 0..4
  /\ n = 1 <=> c < 128
  /\ n = 2 <=> c \in 192..223
  /\ n = 3 <=> c \in 224..239
  /\ n = 4 <=> c \in 240..247

LEMMA AnnouncedIs ==
  ASSUME NEW c \in 0..255
  PROVE  Announces(c, Announced(c)) /\ (Continues(c) => Announced(c) = 0)
BY DEF Announced, Announces, Continues

(* The least code point of an encoding, by its length. *)
LEMMA LeastIs ==
  Least(1) = 0 /\ Least(2) = 128 /\ Least(3) = 2048 /\ Least(4) = 65536
BY DEF Least

(* And a code point is its parts put together. *)
LEMMA PartsOf ==
  ASSUME NEW v \in Nat, v <= 1114111
  PROVE  /\ 128 <= v /\ v < 2048 =>
              /\ v \div 64 \in 2..31 /\ v % 64 \in 0..63
              /\ v = (v \div 64) * 64 + (v % 64)
         /\ 2048 <= v /\ v < 65536 =>
              /\ v \div 4096 \in 0..15 /\ (v \div 64) % 64 \in 0..63 /\ v % 64 \in 0..63
              /\ v = (v \div 4096) * 4096 + ((v \div 64) % 64) * 64 + (v % 64)
         /\ 65536 <= v =>
              /\ v \div 262144 \in 0..4 /\ (v \div 4096) % 64 \in 0..63
              /\ (v \div 64) % 64 \in 0..63 /\ v % 64 \in 0..63
              /\ v = (v \div 262144) * 262144 + ((v \div 4096) % 64) * 4096
                       + ((v \div 64) % 64) * 64 + (v % 64)
BY SMT

(* The code points of n bytes. *)
Takes(v, n) ==
  /\ v \in Nat /\ v <= 1114111 /\ n \in 1..4
  /\ n = 1 <=> v < 128
  /\ n = 2 <=> 128 <= v /\ v < 2048
  /\ n = 3 <=> 2048 <= v /\ v < 65536
  /\ n = 4 <=> 65536 <= v

(* The code points that two bytes are, or three, or four. *)
OfBytes2(v, a, b) ==
  /\ a \in 192..223 /\ b \in 128..191
  /\ v = (a - 192) * 64 + (b - 128) /\ v >= 128

OfBytes3(v, a, b, c) ==
  /\ a \in 224..239 /\ b \in 128..191 /\ c \in 128..191
  /\ v = (a - 224) * 4096 + (b - 128) * 64 + (c - 128)
  /\ v >= 2048 /\ IsLegalUnicodeCodePoint(v)

OfBytes4(v, a, b, c, d) ==
  /\ a \in 240..247 /\ b \in 128..191 /\ c \in 128..191 /\ d \in 128..191
  /\ v = (a - 240) * 262144 + (b - 128) * 4096 + (c - 128) * 64 + (d - 128)
  /\ v >= 65536 /\ IsLegalUnicodeCodePoint(v)

(* What bytes are worth together is a code point that they encode. *)
LEMMA OfTwo ==
  ASSUME NEW a, NEW b, NEW v, OfBytes2(v, a, b)
  PROVE  IsLegalUnicodeCodePoint(v) /\ Takes(v, 2) /\ Encoded(v) = <<a, b>>
<1> DEFINE x == a - 192
           y == b - 128
<1>1. /\ x \in 0..31 /\ y \in 0..63 /\ v = x * 64 + y /\ v >= 128
      /\ 192 + x = a /\ 128 + y = b
  BY SMT DEF OfBytes2
<1> HIDE DEF x, y
<1>2. v \in Nat /\ v < 2048 /\ v \div 64 = x /\ v % 64 = y
  BY <1>1, SMT
<1>3. Encoded(v) = <<192 + v \div 64, 128 + (v % 64)>>
  <2>1. ~(v < 128) /\ 128 <= v /\ ~(2048 <= v) /\ ~(65536 <= v)
    BY <1>1, <1>2, SMT
  <2> QED
    BY <1>2, <2>1, SMT DEF Encoded
<1>4. Encoded(v) = <<a, b>>
  BY <1>1, <1>2, <1>3, SMT
<1> QED
  BY <1>1, <1>2, <1>4, SMT DEF IsLegalUnicodeCodePoint, Takes

LEMMA OfThree ==
  ASSUME NEW a, NEW b, NEW c, NEW v, OfBytes3(v, a, b, c)
  PROVE  IsLegalUnicodeCodePoint(v) /\ Takes(v, 3) /\ Encoded(v) = <<a, b, c>>
<1> DEFINE x == a - 224
           y == b - 128
           z == c - 128
<1>1. /\ x \in 0..15 /\ y \in 0..63 /\ z \in 0..63 /\ v = x * 4096 + y * 64 + z
      /\ v >= 2048 /\ 224 + x = a /\ 128 + y = b /\ 128 + z = c
  BY SMT DEF OfBytes3
<1> HIDE DEF x, y, z
<1> DEFINE h == x * 64 + y
           r == y * 64 + z
<1>2. /\ v \in Nat /\ v < 65536 /\ h \in Int /\ r \in Nat /\ r < 4096
      /\ v = h * 64 + z /\ v = x * 4096 + r /\ h % 64 = y
  BY <1>1, SMT
<1> HIDE DEF h, r
<1>3. v \div 4096 = x /\ (v \div 64) % 64 = y /\ v % 64 = z
  BY <1>1, <1>2, SMT
<1>4. Encoded(v) = <<224 + v \div 4096, 128 + ((v \div 64) % 64), 128 + (v % 64)>>
  <2>1. ~(v < 128) /\ ~(v < 2048) /\ 2048 <= v /\ ~(65536 <= v)
    BY <1>1, <1>2, SMT
  <2> QED
    BY <1>2, <2>1, SMT DEF Encoded
<1>5. Encoded(v) = <<a, b, c>>
  BY <1>1, <1>3, <1>4, SMT
<1>6. IsLegalUnicodeCodePoint(v)
  BY SMT DEF OfBytes3
<1>7. Takes(v, 3)
  BY <1>1, <1>2, SMT DEF Takes
<1> QED
  BY <1>5, <1>6, <1>7

LEMMA OfFour ==
  ASSUME NEW a, NEW b, NEW c, NEW d, NEW v, OfBytes4(v, a, b, c, d)
  PROVE  IsLegalUnicodeCodePoint(v) /\ Takes(v, 4) /\ Encoded(v) = <<a, b, c, d>>
<1> DEFINE w == a - 240
           x == b - 128
           y == c - 128
           z == d - 128
<1>1. /\ w \in 0..7 /\ x \in 0..63 /\ y \in 0..63 /\ z \in 0..63
      /\ v = w * 262144 + x * 4096 + y * 64 + z /\ v >= 65536
      /\ 240 + w = a /\ 128 + x = b /\ 128 + y = c /\ 128 + z = d
  BY SMT DEF OfBytes4
<1> HIDE DEF w, x, y, z
<1> DEFINE g == w * 64 + x
           h == w * 4096 + x * 64 + y
           q == y * 64 + z
           r == x * 4096 + y * 64 + z
<1>2. /\ v \in Nat /\ g \in Int /\ h \in Int
      /\ q \in Nat /\ q < 4096 /\ r \in Nat /\ r < 262144
      /\ v = h * 64 + z /\ h = g * 64 + y /\ g % 64 = x
      /\ v = g * 4096 + q /\ v = w * 262144 + r
  BY <1>1, SMT
<1> HIDE DEF g, h, q, r
<1>3. v \div 64 = h /\ v % 64 = z /\ h % 64 = y
  BY <1>1, <1>2, SMT
<1>4. v \div 4096 = g /\ v \div 262144 = w
  BY <1>1, <1>2, SMT
<1>5. (v \div 4096) % 64 = x /\ (v \div 64) % 64 = y
  BY <1>1, <1>2, <1>3, <1>4, SMT
<1>6. Encoded(v) = <<240 + v \div 262144, 128 + ((v \div 4096) % 64),
                     128 + ((v \div 64) % 64), 128 + (v % 64)>>
  BY <1>1, <1>2, SMT DEF Encoded
<1>7. Encoded(v) = <<a, b, c, d>>
  BY <1>1, <1>3, <1>4, <1>5, <1>6, SMT
<1>8. IsLegalUnicodeCodePoint(v)
  BY SMT DEF OfBytes4
<1>9. Takes(v, 4)
  BY <1>1, <1>2, <1>8, SMT DEF Takes, IsLegalUnicodeCodePoint
<1> QED
  BY <1>7, <1>8, <1>9

-----------------------------------------------------------------------------
(* The code point at a position. *)

(* Whether s is in t from position p on. *)
At(s, t, p) == p + Len(s) <= Len(t) /\ \A i \in 1..Len(s) : t[p + i] = s[i]

(* It can be cut out then. *)
LEMMA AtIsCut ==
  ASSUME NEW s \in Seq(Int), NEW t \in Seq(Int), NEW p \in Nat, At(s, t, p)
  PROVE  SubSeq(t, p + 1, p + Len(s)) = s
<1> DEFINE m == p + 1
           n == p + Len(s)
<1>1. Len(s) \in Nat /\ Len(t) \in Nat /\ m \in Int /\ n \in Int /\ n <= Len(t)
  BY LenProperties DEF At
<1>2. \A i \in m..n : t[i] \in Int
  BY <1>1, ElementOfSeq
<1>3. \A i \in 1..Len(s) : t[m + i - 1] = s[i]
  <2>1. \A i \in 1..Len(s) : t[p + i] = s[i]
    BY DEF At
  <2>2. \A i \in 1..Len(s) : m + i - 1 = p + i
    OBVIOUS
  <2> QED
    BY <2>1, <2>2
<1>4. /\ n - m + 1 = Len(s)
      /\ (IF m <= n THEN n - m + 1 ELSE 0) = Len(s)
  BY <1>1
<1> HIDE DEF m, n
<1>5. /\ SubSeq(t, m, n) \in Seq(Int)
      /\ Len(SubSeq(t, m, n)) = IF m <= n THEN n - m + 1 ELSE 0
      /\ \A i \in 1..(n - m + 1) : SubSeq(t, m, n)[i] = t[m + i - 1]
  BY <1>1, <1>2, SubSeqProperties
<1>6. Len(SubSeq(t, m, n)) = Len(s) /\ \A i \in 1..Len(s) : SubSeq(t, m, n)[i] = s[i]
  BY <1>3, <1>4, <1>5
<1>7. SubSeq(t, m, n) = s
  BY <1>5, <1>6, SeqEqual
<1> QED
  BY <1>7 DEF m, n

(* And it is there if what begins at p begins with it. *)
LEMMA PrefixIsAt ==
  ASSUME NEW s \in Seq(Int), NEW t \in Seq(Int), NEW p \in 0..Len(t),
         IsPrefix(s, From(t, p))
  PROVE  At(s, t, p)
<1> DEFINE r == From(t, p)
<1>1. /\ r \in Seq(Int) /\ Len(r) = Len(t) - p
      /\ \A i \in 1..(Len(t) - p) : r[i] = t[p + i]
  BY CutFacts DEF From
<1>2. Len(s) <= Len(r) /\ SubSeq(s, 1, Len(s)) = SubSeq(r, 1, Len(s))
  BY DEF IsPrefix
<1> HIDE DEF r
<1>3. Len(s) \in Nat /\ Len(r) \in Nat /\ Len(t) \in Nat
  BY <1>1, LenProperties
<1>4. SubSeq(s, 1, Len(s)) = s
  BY SubSeqFull
<1>5. \A i \in 1..Len(s) : SubSeq(r, 1, Len(s))[i] = r[i]
  <2>1. Len(s) \in 0..Len(r)
    BY <1>2, <1>3
  <2> QED
    BY <1>1, <2>1, CutFacts
<1>6. p + Len(s) <= Len(t)
  BY <1>1, <1>2, <1>3
<1>7. ASSUME NEW i \in 1..Len(s) PROVE t[p + i] = s[i]
  <2>1. i \in 1..(Len(t) - p)
    BY <1>3, <1>6
  <2> QED
    BY <1>1, <1>2, <1>4, <1>5, <2>1
<1> QED
  BY <1>6, <1>7 DEF At

(* The bytes of an encoding that is there. *)
LEMMA WholeIs ==
  ASSUME NEW t \in Seq(0..255), NEW p \in 0..(Len(t) - 1), Whole(t, p)
  PROVE  LET n == Announced(t[p + 1])
         IN  /\ t[p + 1] \in 0..255 /\ n \in 1..4 /\ p + n <= Len(t)
             /\ n > 1 => t[p + 2] \in 128..191
             /\ n > 2 => t[p + 3] \in 128..191
             /\ n > 3 => t[p + 4] \in 128..191
<1> DEFINE n == Announced(t[p + 1])
<1>1. Len(t) \in Nat /\ p + 1 \in 1..Len(t)
  <2>1. Len(t) \in Nat
    BY LenProperties
  <2> QED
    BY <2>1
<1>2. t[p + 1] \in 0..255
  BY <1>1, ElementOfSeq
<1>3. n \in 0..4
  BY <1>2, AnnouncedIs DEF Announces
<1>4. n > 0 /\ p + n <= Len(t) /\ \A j \in 1..(n - 1) : Continues(t[p + 1 + j])
  BY DEF Whole
<1>5. \A j \in 1..(n - 1) : t[p + 1 + j] \in 128..191
  BY <1>4, Zenon DEF Continues
<1> HIDE DEF n
<1>a. /\ n > 1 => 1 \in 1..(n - 1)
      /\ n > 2 => 2 \in 1..(n - 1)
      /\ n > 3 => 3 \in 1..(n - 1)
  BY <1>3
<1>6. n > 1 => t[p + 1 + 1] \in 128..191
  BY <1>5, <1>a, Zenon
<1>7. n > 2 => t[p + 1 + 2] \in 128..191
  BY <1>5, <1>a, Zenon
<1>8. n > 3 => t[p + 1 + 3] \in 128..191
  BY <1>5, <1>a, Zenon
<1>9. p + 1 + 1 = p + 2 /\ p + 1 + 2 = p + 3 /\ p + 1 + 3 = p + 4
  OBVIOUS
<1>10. n \in 1..4
  BY <1>3, <1>4
<1> QED
  BY <1>2, <1>4, <1>6, <1>7, <1>8, <1>9, <1>10 DEF n

(* What they are worth, by how many they are. *)
IsWorth(v, t, p, n) ==
  /\ n = 1 => v = t[p + 1]
  /\ n = 2 => v = (t[p + 1] - 192) * 64 + (t[p + 2] - 128)
  /\ n = 3 => v = (t[p + 1] - 224) * 4096 + (t[p + 2] - 128) * 64 + (t[p + 3] - 128)
  /\ n = 4 => v = (t[p + 1] - 240) * 262144 + (t[p + 2] - 128) * 4096
                   + (t[p + 3] - 128) * 64 + (t[p + 4] - 128)

LEMMA ValueIs ==
  ASSUME NEW t, NEW p
  PROVE  IsWorth(Value(t, p), t, p, Announced(t[p + 1]))
<1> DEFINE n == Announced(t[p + 1])
<1>1. /\ n = 1 => n # 2 /\ n # 3 /\ n # 4
      /\ n = 2 => n # 1 /\ n # 3 /\ n # 4
      /\ n = 3 => n # 1 /\ n # 2 /\ n # 4
      /\ n = 4 => n # 1 /\ n # 2 /\ n # 3
  OBVIOUS
<1>2. CASE n = 1
  BY <1>1, <1>2, SMT DEF Value, IsWorth
<1>3. CASE n = 2
  BY <1>1, <1>3, SMT DEF Value, IsWorth
<1>4. CASE n = 3
  BY <1>1, <1>4, SMT DEF Value, IsWorth
<1>5. CASE n = 4
  BY <1>1, <1>5, SMT DEF Value, IsWorth
<1>6. CASE n # 1 /\ n # 2 /\ n # 3 /\ n # 4
  BY <1>6, SMT DEF IsWorth
<1> QED
  BY <1>2, <1>3, <1>4, <1>5, <1>6, Zenon

(* The first bytes from p on are there. *)
LEMMA BytesAreAt ==
  ASSUME NEW t \in Seq(0..255), NEW p \in Nat
  PROVE  /\ p + 1 <= Len(t) => At(<<t[p + 1]>>, t, p)
         /\ p + 2 <= Len(t) => At(<<t[p + 1], t[p + 2]>>, t, p)
         /\ p + 3 <= Len(t) => At(<<t[p + 1], t[p + 2], t[p + 3]>>, t, p)
         /\ p + 4 <= Len(t) => At(<<t[p + 1], t[p + 2], t[p + 3], t[p + 4]>>, t, p)
<1>1. ASSUME p + 1 <= Len(t) PROVE At(<<t[p + 1]>>, t, p)
  <2> DEFINE s == <<t[p + 1]>>
  <2>1. /\ Len(s) = 1 /\ s[1] = t[p + 1]
    OBVIOUS
  <2> HIDE DEF s
  <2>2. ASSUME NEW i \in 1..1 PROVE t[p + i] = s[i]
    <3>1. i = 1
      OBVIOUS
    <3> QED
      BY <2>1, <3>1
  <2>3. At(s, t, p)
    BY <1>1, <2>1, <2>2 DEF At
  <2> QED
    BY <2>3 DEF s
<1>2. ASSUME p + 2 <= Len(t) PROVE At(<<t[p + 1], t[p + 2]>>, t, p)
  <2> DEFINE s == <<t[p + 1], t[p + 2]>>
  <2>1. /\ Len(s) = 2 /\ s[1] = t[p + 1] /\ s[2] = t[p + 2]
    OBVIOUS
  <2> HIDE DEF s
  <2>2. ASSUME NEW i \in 1..2 PROVE t[p + i] = s[i]
    <3>1. i = 1 \/ i = 2
      OBVIOUS
    <3> QED
      BY <2>1, <3>1
  <2>3. At(s, t, p)
    BY <1>2, <2>1, <2>2 DEF At
  <2> QED
    BY <2>3 DEF s
<1>3. ASSUME p + 3 <= Len(t) PROVE At(<<t[p + 1], t[p + 2], t[p + 3]>>, t, p)
  <2> DEFINE s == <<t[p + 1], t[p + 2], t[p + 3]>>
  <2>1. /\ Len(s) = 3 /\ s[1] = t[p + 1] /\ s[2] = t[p + 2] /\ s[3] = t[p + 3]
    OBVIOUS
  <2> HIDE DEF s
  <2>2. ASSUME NEW i \in 1..3 PROVE t[p + i] = s[i]
    <3>1. i = 1 \/ i = 2 \/ i = 3
      OBVIOUS
    <3> QED
      BY <2>1, <3>1
  <2>3. At(s, t, p)
    BY <1>3, <2>1, <2>2 DEF At
  <2> QED
    BY <2>3 DEF s
<1>4. ASSUME p + 4 <= Len(t) PROVE At(<<t[p + 1], t[p + 2], t[p + 3], t[p + 4]>>, t, p)
  <2> DEFINE s == <<t[p + 1], t[p + 2], t[p + 3], t[p + 4]>>
  <2>1. /\ Len(s) = 4 /\ s[1] = t[p + 1] /\ s[2] = t[p + 2]
        /\ s[3] = t[p + 3] /\ s[4] = t[p + 4]
    OBVIOUS
  <2> HIDE DEF s
  <2>2. ASSUME NEW i \in 1..4 PROVE t[p + i] = s[i]
    <3>1. i = 1 \/ i = 2 \/ i = 3 \/ i = 4
      OBVIOUS
    <3> QED
      BY <2>1, <3>1
  <2>3. At(s, t, p)
    BY <1>4, <2>1, <2>2 DEF At
  <2> QED
    BY <2>3 DEF s
<1> QED
  BY <1>1, <1>2, <1>3, <1>4

(* Whether v is a code point, and its encoding of n bytes at p. *)
IsEncodedAt(v, t, p, n) ==
  /\ IsLegalUnicodeCodePoint(v) /\ Takes(v, n)
  /\ Encoded(v) \in Seq(Int) /\ Len(Encoded(v)) = n /\ At(Encoded(v), t, p)

(* A code point that is read is a legal one of as many bytes as its first  *)
(* byte announced, and they are its encoding.                              *)
LEMMA ReadsEncoding ==
  ASSUME NEW t \in Seq(0..255), NEW p \in 0..(Len(t) - 1), CodePoint(t, p) # Invalid
  PROVE  /\ Whole(t, p)
         /\ IsEncodedAt(CodePoint(t, p), t, p, Announced(t[p + 1]))
<1> DEFINE n == Announced(t[p + 1])
           v == CodePoint(t, p)
           a == t[p + 1]
           b == t[p + 2]
           c == t[p + 3]
           d == t[p + 4]
<1>1. /\ Whole(t, p) /\ v = Value(t, p) /\ Value(t, p) >= Least(n)
      /\ n > 2 => IsLegalUnicodeCodePoint(v)
  BY Zenon DEF CodePoint
<1>2. /\ a \in 0..255 /\ n \in 1..4 /\ p + n <= Len(t)
      /\ n > 1 => b \in 128..191
      /\ n > 2 => c \in 128..191
      /\ n > 3 => d \in 128..191
  BY <1>1, WholeIs, SMT
<1>3. IsWorth(v, t, p, n)
  BY <1>1, ValueIs, Zenon
<1>4. Announces(a, n)
  BY <1>2, AnnouncedIs, Zenon
<1>5. /\ n = 1 => v = a
      /\ n = 2 => v = (a - 192) * 64 + (b - 128)
      /\ n = 3 => v = (a - 224) * 4096 + (b - 128) * 64 + (c - 128)
      /\ n = 4 => v = (a - 240) * 262144 + (b - 128) * 4096 + (c - 128) * 64 + (d - 128)
  BY <1>3, SMT DEF IsWorth
<1>6. p \in Nat /\ Len(t) \in Nat
  BY LenProperties
<1> HIDE DEF n, v, a, b, c, d
<1>7. CASE n = 1
  <2>1. a \in Nat /\ a < 128 /\ v = a
    BY <1>2, <1>4, <1>5, <1>7, SMT DEF Announces
  <2>2. Encoded(v) = <<a>>
    <3>1. v < 128 /\ ~(128 <= v) /\ ~(2048 <= v) /\ ~(65536 <= v)
      BY <2>1, SMT
    <3> QED
      BY <2>1, <3>1, SMT DEF Encoded
  <2>3. IsLegalUnicodeCodePoint(v) /\ Takes(v, n)
    BY <1>7, <2>1, SMT DEF IsLegalUnicodeCodePoint, Takes
  <2>4. <<a>> \in Seq(Int) /\ Len(<<a>>) = 1
    BY <2>1, SMT
  <2>6. p + 1 <= Len(t)
    BY <1>2, <1>7
  <2>5. At(<<a>>, t, p)
    BY <1>6, <2>6, BytesAreAt, Zenon DEF a
  <2> QED
    BY <1>1, <1>7, <2>2, <2>3, <2>4, <2>5, Zenon DEF IsEncodedAt, n, v
<1>8. CASE n = 2
  <2>1. v >= Least(n)
    BY <1>1, <1>8, SMT
  <2>2. OfBytes2(v, a, b)
    BY <1>2, <1>4, <1>5, <1>8, <2>1, LeastIs, SMT DEF Announces, OfBytes2
  <2>3. IsLegalUnicodeCodePoint(v) /\ Takes(v, 2) /\ Encoded(v) = <<a, b>>
    BY <2>2, OfTwo, Zenon
  <2>7. a \in Int /\ b \in Int
    BY <2>2, SMT DEF OfBytes2
  <2>6. p + 2 <= Len(t)
    BY <1>2, <1>8, SMT
  <2>4. <<a, b>> \in Seq(Int) /\ Len(<<a, b>>) = 2
    BY <2>7, SMT
  <2>5. At(<<a, b>>, t, p)
    BY <1>6, <2>6, BytesAreAt, Zenon DEF a, b
  <2> QED
    BY <1>1, <1>8, <2>3, <2>4, <2>5, Zenon DEF IsEncodedAt, n, v
<1>9. CASE n = 3
  <2>1. v >= Least(n) /\ IsLegalUnicodeCodePoint(v)
    BY <1>1, <1>9, SMT
  <2>2. OfBytes3(v, a, b, c)
    BY <1>2, <1>4, <1>5, <1>9, <2>1, LeastIs, SMT DEF Announces, OfBytes3
  <2>3. IsLegalUnicodeCodePoint(v) /\ Takes(v, 3) /\ Encoded(v) = <<a, b, c>>
    BY <2>2, OfThree, Zenon
  <2>7. a \in Int /\ b \in Int /\ c \in Int
    BY <2>2, SMT DEF OfBytes3
  <2>6. p + 3 <= Len(t)
    BY <1>2, <1>9, SMT
  <2>4. <<a, b, c>> \in Seq(Int) /\ Len(<<a, b, c>>) = 3
    BY <2>7, SMT
  <2>5. At(<<a, b, c>>, t, p)
    BY <1>6, <2>6, BytesAreAt, Zenon DEF a, b, c
  <2> QED
    BY <1>1, <1>9, <2>3, <2>4, <2>5, Zenon DEF IsEncodedAt, n, v
<1>10. CASE n = 4
  <2>1. v >= Least(n) /\ IsLegalUnicodeCodePoint(v)
    BY <1>1, <1>10, SMT
  <2>2. OfBytes4(v, a, b, c, d)
    BY <1>2, <1>4, <1>5, <1>10, <2>1, LeastIs, SMT DEF Announces, OfBytes4
  <2>3. IsLegalUnicodeCodePoint(v) /\ Takes(v, 4) /\ Encoded(v) = <<a, b, c, d>>
    BY <2>2, OfFour, Zenon
  <2>7. a \in Int /\ b \in Int /\ c \in Int /\ d \in Int
    BY <2>2, SMT DEF OfBytes4
  <2>6. p + 4 <= Len(t)
    BY <1>2, <1>10, SMT
  <2>4. <<a, b, c, d>> \in Seq(Int) /\ Len(<<a, b, c, d>>) = 4
    BY <2>7, SMT
  <2>5. At(<<a, b, c, d>>, t, p)
    BY <1>6, <2>6, BytesAreAt, Zenon DEF a, b, c, d
  <2> QED
    BY <1>1, <1>10, <2>3, <2>4, <2>5, Zenon DEF IsEncodedAt, n, v
<1>11. n = 1 \/ n = 2 \/ n = 3 \/ n = 4
  BY <1>2
<1> QED
  BY <1>7, <1>8, <1>9, <1>10, <1>11, Zenon

(* The other way round: bytes that are announced make an encoding,         *)
LEMMA WholeOf ==
  ASSUME NEW t, NEW p \in Nat, NEW n \in 1..4, n = Announced(t[p + 1]),
         p + n <= Len(t),
         n > 1 => Continues(t[p + 2]),
         n > 2 => Continues(t[p + 3]),
         n > 3 => Continues(t[p + 4])
  PROVE  Whole(t, p)
<1>1. ASSUME NEW j \in 1..(n - 1) PROVE Continues(t[p + 1 + j])
  <2>1. j = 1 \/ j = 2 \/ j = 3
    OBVIOUS
  <2>2. /\ j = 1 => n > 1 /\ p + 1 + j = p + 2
        /\ j = 2 => n > 2 /\ p + 1 + j = p + 3
        /\ j = 3 => n > 3 /\ p + 1 + j = p + 4
    OBVIOUS
  <2> QED
    BY <2>1, <2>2, Zenon
<1>2. n > 0
  OBVIOUS
<1> QED
  BY <1>1, <1>2, Zenon DEF Whole

(* and what they are worth is the code point, if it takes so many.         *)
LEMMA CodePointOf ==
  ASSUME NEW t, NEW p, NEW n, n = Announced(t[p + 1]), Whole(t, p), NEW v,
         IsWorth(v, t, p, n), Takes(v, n), IsLegalUnicodeCodePoint(v)
  PROVE  CodePoint(t, p) = v
<1>1. IsWorth(Value(t, p), t, p, n)
  BY ValueIs, Zenon
<1>2. n \in 1..4
  BY SMT DEF Takes
<1>3. Value(t, p) = v
  <2>1. CASE n = 1
    BY <1>1, <2>1, SMT DEF IsWorth
  <2>2. CASE n = 2
    BY <1>1, <2>2, SMT DEF IsWorth
  <2>3. CASE n = 3
    BY <1>1, <2>3, SMT DEF IsWorth
  <2>4. CASE n = 4
    BY <1>1, <2>4, SMT DEF IsWorth
  <2> QED
    BY <1>2, <2>1, <2>2, <2>3, <2>4
<1>4. v >= Least(n)
  BY <1>2, LeastIs, SMT DEF Takes
<1> QED
  BY <1>3, <1>4, Zenon DEF CodePoint

(* What is written is read: where the encoding of a code point is, the code *)
(* point is found.                                                         *)
LEMMA WrittenIsRead ==
  ASSUME NEW t \in Seq(0..255), NEW p \in Nat, NEW v \in Int,
         IsLegalUnicodeCodePoint(v), At(Encoded(v), t, p)
  PROVE  CodePoint(t, p) = v
<1> DEFINE a == t[p + 1]
           b == t[p + 2]
           c == t[p + 3]
           d == t[p + 4]
           s == Encoded(v)
<1>1. v \in Nat /\ v <= 1114111
  BY SMT DEF IsLegalUnicodeCodePoint
<1>2. p + Len(s) <= Len(t) /\ \A i \in 1..Len(s) : t[p + i] = s[i]
  BY Zenon DEF At
<1> HIDE DEF a, b, c, d, s
<1>3. CASE v < 128
  <2>1. ~(128 <= v) /\ ~(2048 <= v) /\ ~(65536 <= v)
    BY <1>1, <1>3, SMT
  <2>2. s = <<v>>
    BY <1>3, <2>1, SMT DEF Encoded, s
  <2>3. Len(s) = 1 /\ a = v
    BY <1>2, <2>2, SMT DEF a
  <2>4. Announced(a) = 1
    <3>1. a \in 0..255 /\ a < 128
      BY <1>1, <1>3, <2>3
    <3>2. Announces(a, Announced(a))
      BY <3>1, AnnouncedIs, Zenon
    <3> QED
      BY <3>1, <3>2, SMT DEF Announces
  <2>6. Takes(v, 1)
    BY <1>1, <1>3, SMT DEF Takes
  <2>7. IsWorth(v, t, p, 1)
    BY <2>3, SMT DEF IsWorth, a
  <2>5. Whole(t, p)
    BY <1>2, <2>3, <2>4, WholeOf DEF a
  <2> QED
    BY <2>4, <2>5, <2>6, <2>7, CodePointOf, Zenon DEF a
<1>4. CASE 128 <= v /\ v < 2048
  <2> DEFINE x == v \div 64
             y == v % 64
  <2>1. ~(v < 128) /\ ~(2048 <= v) /\ ~(65536 <= v)
    BY <1>1, <1>4, SMT
  <2>2. x \in 2..31 /\ y \in 0..63 /\ v = x * 64 + y
    BY <1>1, <1>4, PartsOf, SMT
  <2>3. s = <<192 + x, 128 + y>>
    BY <1>4, <2>1, SMT DEF Encoded, s
  <2> HIDE DEF x, y
  <2>4. Len(s) = 2 /\ a = 192 + x /\ b = 128 + y
    BY <1>2, <2>3, SMT DEF a, b
  <2>5. Announced(a) = 2 /\ Continues(b)
    <3>1. a \in 0..255 /\ a \in 192..223
      BY <2>2, <2>4
    <3>2. Announces(a, Announced(a))
      BY <3>1, AnnouncedIs, Zenon
    <3>3. Continues(b)
      BY <2>2, <2>4, SMT DEF Continues
    <3> QED
      BY <3>1, <3>2, <3>3, SMT DEF Announces
  <2>6. Takes(v, 2)
    BY <1>1, <1>4, SMT DEF Takes
  <2>7. IsWorth(v, t, p, 2)
    BY <2>2, <2>4, SMT DEF IsWorth, a, b
  <2>8. Whole(t, p)
    BY <1>2, <2>4, <2>5, WholeOf DEF a, b
  <2> QED
    BY <2>5, <2>6, <2>7, <2>8, CodePointOf, Zenon DEF a
<1>5. CASE 2048 <= v /\ v < 65536
  <2> DEFINE x == v \div 4096
             y == (v \div 64) % 64
             z == v % 64
  <2>1. ~(v < 128) /\ ~(v < 2048) /\ ~(65536 <= v)
    BY <1>1, <1>5, SMT
  <2>2. x \in 0..15 /\ y \in 0..63 /\ z \in 0..63 /\ v = x * 4096 + y * 64 + z
    BY <1>1, <1>5, PartsOf, SMT
  <2>3. s = <<224 + x, 128 + y, 128 + z>>
    BY <1>5, <2>1, SMT DEF Encoded, s
  <2> HIDE DEF x, y, z
  <2>4. Len(s) = 3 /\ a = 224 + x /\ b = 128 + y /\ c = 128 + z
    BY <1>2, <2>3, SMT DEF a, b, c
  <2>5. Announced(a) = 3 /\ Continues(b) /\ Continues(c)
    <3>1. a \in 0..255 /\ a \in 224..239
      BY <2>2, <2>4
    <3>2. Announces(a, Announced(a))
      BY <3>1, AnnouncedIs, Zenon
    <3>3. Continues(b) /\ Continues(c)
      BY <2>2, <2>4, SMT DEF Continues
    <3> QED
      BY <3>1, <3>2, <3>3, SMT DEF Announces
  <2>6. Takes(v, 3)
    BY <1>1, <1>5, SMT DEF Takes
  <2>7. IsWorth(v, t, p, 3)
    BY <2>2, <2>4, SMT DEF IsWorth, a, b, c
  <2>8. Whole(t, p)
    BY <1>2, <2>4, <2>5, WholeOf DEF a, b, c
  <2> QED
    BY <2>5, <2>6, <2>7, <2>8, CodePointOf, Zenon DEF a
<1>6. CASE 65536 <= v
  <2> DEFINE w == v \div 262144
             x == (v \div 4096) % 64
             y == (v \div 64) % 64
             z == v % 64
  <2>1. ~(v < 128) /\ ~(v < 2048) /\ ~(v < 65536)
    BY <1>1, <1>6, SMT
  <2>2. /\ w \in 0..4 /\ x \in 0..63 /\ y \in 0..63 /\ z \in 0..63
        /\ v = w * 262144 + x * 4096 + y * 64 + z
    BY <1>1, <1>6, PartsOf, SMT
  <2>3. s = <<240 + w, 128 + x, 128 + y, 128 + z>>
    BY <1>6, <2>1, SMT DEF Encoded, s
  <2> HIDE DEF w, x, y, z
  <2>4. Len(s) = 4 /\ a = 240 + w /\ b = 128 + x /\ c = 128 + y /\ d = 128 + z
    BY <1>2, <2>3, SMT DEF a, b, c, d
  <2>5. Announced(a) = 4 /\ Continues(b) /\ Continues(c) /\ Continues(d)
    <3>1. a \in 0..255 /\ a \in 240..247
      BY <2>2, <2>4
    <3>2. Announces(a, Announced(a))
      BY <3>1, AnnouncedIs, Zenon
    <3>3. Continues(b) /\ Continues(c) /\ Continues(d)
      BY <2>2, <2>4, SMT DEF Continues
    <3> QED
      BY <3>1, <3>2, <3>3, SMT DEF Announces
  <2>6. Takes(v, 4)
    BY <1>1, <1>6, SMT DEF Takes
  <2>7. IsWorth(v, t, p, 4)
    BY <2>2, <2>4, SMT DEF IsWorth, a, b, c, d
  <2>8. Whole(t, p)
    BY <1>2, <2>4, <2>5, WholeOf DEF a, b, c, d
  <2> QED
    BY <2>5, <2>6, <2>7, <2>8, CodePointOf, Zenon DEF a
<1> QED
  BY <1>1, <1>3, <1>4, <1>5, <1>6, SMT

-----------------------------------------------------------------------------
(* Where what is read ends, and where it began. *)

(* Behind a code point; or behind the bytes that would continue it.        *)
LEMMA BehindIs ==
  ASSUME NEW t \in Seq(0..255), NEW p \in 0..(Len(t) - 1)
  PROVE  /\ Len(t) \in Nat /\ Behind(t, p) \in (p + 1)..Len(t)
         /\ CodePoint(t, p) # Invalid => Behind(t, p) = p + Announced(t[p + 1])
         /\ \A j \in (p + 1)..(Behind(t, p) - 1) : Continues(t[j + 1])
<1> DEFINE n == Announced(t[p + 1])
           Ends(q) == /\ q = Len(t) \/ ~Continues(t[q + 1])
                      /\ \A j \in (p + 1)..(q - 1) : Continues(t[j + 1])
<1>1. Len(t) \in Nat
  BY LenProperties
<1>2. CASE CodePoint(t, p) # Invalid
  <2>1. Whole(t, p) /\ Behind(t, p) = p + n
    BY <1>2, ReadsEncoding, Zenon DEF Behind
  <2>2. n \in 1..4 /\ p + n <= Len(t)
    BY <2>1, WholeIs, Zenon
  <2>3. ASSUME NEW j \in (p + 1)..(Behind(t, p) - 1) PROVE Continues(t[j + 1])
    <3> DEFINE i == j - p
    <3>1. i \in 1..(n - 1) /\ p + 1 + i = j + 1
      BY <2>1, <2>2
    <3>2. Continues(t[p + 1 + i])
      BY <2>1, <3>1, Zenon DEF Whole
    <3> QED
      BY <3>1, <3>2
  <2> HIDE DEF n
  <2>5. p + n \in (p + 1)..Len(t)
    BY <1>1, <2>2
  <2> QED
    BY <1>1, <2>1, <2>3, <2>5, Zenon DEF n
<1>3. CASE CodePoint(t, p) = Invalid
  <2> DEFINE S == {q \in (p + 1)..Len(t) : q = Len(t) \/ ~Continues(t[q + 1])}
  <2>1. S \subseteq Nat /\ Len(t) \in S
    BY <1>1
  <2>2. PICK q \in S : \A j \in S : q <= j
    BY <2>1, LeastExists, Zenon
  <2>3. q \in (p + 1)..Len(t) /\ (q = Len(t) \/ ~Continues(t[q + 1]))
    BY <2>2
  <2>4. ASSUME NEW j \in (p + 1)..(q - 1) PROVE Continues(t[j + 1])
    <3>1. j \in (p + 1)..Len(t) /\ ~(q <= j)
      BY <1>1, <2>3
    <3> QED
      BY <2>2, <3>1
  <2>5. Ends(q)
    BY <2>3, <2>4
  <2>6. Behind(t, p) = CHOOSE r \in (p + 1)..Len(t) : Ends(r)
    BY <1>3, Zenon DEF Behind
  <2> HIDE DEF Ends
  <2>7. Behind(t, p) \in (p + 1)..Len(t) /\ Ends(Behind(t, p))
    BY <2>3, <2>5, <2>6, Zenon
  <2> QED
    BY <1>1, <1>3, <2>7, Zenon DEF Ends
<1> QED
  BY <1>2, <1>3

(* No code point begins in what is read, or passed over, from further back. *)
LEMMA NoneBeginsInside ==
  ASSUME NEW t \in Seq(0..255), NEW p \in 0..(Len(t) - 1), NEW q \in 0..(p - 1),
         CodePoint(t, p) # Invalid
  PROVE  Behind(t, q) <= p
<1>1. Whole(t, p)
  BY ReadsEncoding, Zenon
<1>2. t[p + 1] \in 0..255 /\ Announced(t[p + 1]) # 0
  <2>1. t[p + 1] \in 0..255 /\ Announced(t[p + 1]) \in 1..4
    BY <1>1, WholeIs, SMT
  <2> QED
    BY <2>1
<1>3. ~Continues(t[p + 1])
  BY <1>2, AnnouncedIs, Zenon
<1>4. Len(t) \in Nat /\ q \in 0..(Len(t) - 1)
  <2>1. Len(t) \in Nat
    BY LenProperties
  <2> QED
    BY <2>1
<1>5. /\ Behind(t, q) \in (q + 1)..Len(t)
      /\ \A j \in (q + 1)..(Behind(t, q) - 1) : Continues(t[j + 1])
  BY <1>4, BehindIs, Zenon
<1>6. p \notin (q + 1)..(Behind(t, q) - 1)
  BY <1>3, <1>5, Zenon
<1> QED
  BY <1>4, <1>5, <1>6

(* What the backward scan goes by: the first of its cases that fits.       *)
LEMMA BackIs ==
  ASSUME NEW t, NEW p
  PROVE  LET b(k) == Before(t, p, k)
             continue(n) == \A k \in 0..(n - 1) : Continues(b(k))
         IN  /\ ~continue(1) => Back(t, p) = 0
             /\ continue(1) /\ b(1) \in 193..247 => Back(t, p) = 1
             /\ continue(2) /\ b(2) \in 224..247 => Back(t, p) = 2
             /\ continue(3) /\ b(3) \in 240..247 => Back(t, p) = 3
             /\ \/ Back(t, p) = 0 /\ ~continue(1)
                \/ Back(t, p) = 1 /\ continue(1) /\ b(1) \in 193..247
                \/ Back(t, p) = 2 /\ continue(2) /\ b(2) \in 224..247
                \/ Back(t, p) = 3 /\ continue(3) /\ b(3) \in 240..247
                \/ Back(t, p) = BSTR_ERR
<1> DEFINE b(k) == Before(t, p, k)
           continue(n) == \A k \in 0..(n - 1) : Continues(b(k))
           one == b(1) \in 193..247
           two == b(2) \in 224..247
           three == b(3) \in 240..247
<1>1. /\ continue(2) => continue(1) /\ Continues(b(1))
      /\ continue(3) => continue(2) /\ Continues(b(2))
  <2>1. 0..(1 - 1) = {0} /\ 0..(2 - 1) = {0, 1} /\ 0..(3 - 1) = {0, 1, 2}
    BY SMT
  <2> QED
    BY <2>1, Zenon
<1>2. /\ Continues(b(1)) => ~one
      /\ Continues(b(2)) => ~two
  BY SMT DEF Continues
<1>3. Back(t, p) = CASE ~continue(1) -> 0
                     [] continue(1) /\ one -> 1
                     [] continue(2) /\ two -> 2
                     [] continue(3) /\ three -> 3
                     [] OTHER -> BSTR_ERR
  BY Zenon DEF Back
<1> HIDE DEF b, continue, one, two, three
<1>4. CASE ~continue(1)
  <2>1. ~continue(2) /\ ~continue(3)
    BY <1>1, <1>4, Zenon
  <2>2. Back(t, p) = 0
    BY <1>3, <1>4, <2>1, Zenon
  <2> QED
    BY <1>4, <2>1, <2>2, Zenon DEF b, continue
<1>5. CASE continue(1) /\ one
  <2>1. ~continue(2) /\ ~continue(3)
    BY <1>1, <1>2, <1>5, Zenon
  <2>2. Back(t, p) = 1
    BY <1>3, <1>5, <2>1, Zenon
  <2> QED
    BY <1>5, <2>1, <2>2, Zenon DEF b, continue, one
<1>6. CASE continue(2) /\ two
  <2>1. continue(1) /\ ~one /\ ~continue(3)
    BY <1>1, <1>2, <1>6, Zenon
  <2>2. Back(t, p) = 2
    BY <1>3, <1>6, <2>1, Zenon
  <2> QED
    BY <1>6, <2>1, <2>2, Zenon DEF b, continue, one, two
<1>7. CASE continue(3) /\ three
  <2>1. continue(1) /\ ~one /\ continue(2) /\ ~two
    BY <1>1, <1>2, <1>7, Zenon
  <2>2. Back(t, p) = 3
    BY <1>3, <1>7, <2>1, Zenon
  <2> QED
    BY <1>7, <2>1, <2>2, Zenon DEF b, continue, one, two, three
<1>8. CASE /\ continue(1) /\ ~one /\ ~(continue(2) /\ two) /\ ~(continue(3) /\ three)
  <2>1. Back(t, p) = BSTR_ERR
    BY <1>3, <1>8, Zenon
  <2> QED
    BY <1>8, <2>1, Zenon DEF b, continue, one, two, three
<1> QED
  BY <1>4, <1>5, <1>6, <1>7, <1>8, Zenon

(* No code point begins with 192: its two bytes would be worth less than   *)
(* the least that takes two.                                               *)
LEMMA NoneBeginsWith192 ==
  ASSUME NEW t \in Seq(0..255), NEW p \in 0..(Len(t) - 1), CodePoint(t, p) # Invalid
  PROVE  t[p + 1] # 192
<1> DEFINE n == Announced(t[p + 1])
           a == t[p + 1]
           b == t[p + 2]
           v == Value(t, p)
<1>1. SUFFICES ASSUME a = 192 PROVE FALSE
  OBVIOUS
<1>2. Whole(t, p) /\ v >= Least(n)
  BY Zenon DEF CodePoint
<1>3. n = 2
  <2>1. a \in 0..255 /\ a \in 192..223
    BY <1>1
  <2>2. Announces(a, n)
    BY <2>1, AnnouncedIs, Zenon
  <2> QED
    BY <2>1, <2>2, SMT DEF Announces
<1>4. b \in 128..191
  BY <1>2, <1>3, WholeIs, SMT
<1>5. IsWorth(v, t, p, 2)
  BY <1>3, ValueIs, Zenon
<1>6. v = (a - 192) * 64 + (b - 128)
  BY <1>5, SMT DEF IsWorth
<1>7. v >= 128
  BY <1>2, <1>3, LeastIs, SMT
<1> HIDE DEF n, a, b, v
<1> QED
  BY <1>1, <1>4, <1>6, <1>7, SMT

(* Whether the byte at p belongs to the code point k bytes in front.       *)
HasByte(t, p, k) == CodePoint(t, p - k) # Invalid /\ Behind(t, p - k) > p

(* Where the code point began that has a byte, the scan looks.             *)
LEMMA OwnerIsFound ==
  ASSUME NEW t \in Seq(0..255), NEW p \in 0..(Len(t) - 1), NEW k \in 0..p,
         HasByte(t, p, k)
  PROVE  Back(t, p) = k
<1> DEFINE q == p - k
           n == Announced(t[q + 1])
           b(i) == Before(t, p, i)
           a == t[q + 1]
<1>1. Len(t) \in Nat /\ q \in 0..(Len(t) - 1) /\ q = p - k /\ p \in Nat /\ k \in Nat
  <2>1. Len(t) \in Nat
    BY LenProperties
  <2> QED
    BY <2>1
<1>2. CodePoint(t, q) # Invalid /\ Behind(t, q) > p
  BY Zenon DEF HasByte
<1> HIDE DEF q
<1>3. Whole(t, q)
  BY <1>1, <1>2, ReadsEncoding, Zenon
<1>4. a \in 0..255 /\ n \in 1..4
  BY <1>1, <1>3, WholeIs, SMT
<1>5. Announces(a, n) /\ ~Continues(a)
  <2>1. Announces(a, n) /\ (Continues(a) => n = 0)
    BY <1>4, AnnouncedIs, Zenon
  <2> QED
    BY <1>4, <2>1
<1>6. Behind(t, q) = q + n /\ a # 192
  <2>1. Behind(t, q) = q + n
    BY <1>1, <1>2, BehindIs, Zenon
  <2>2. a # 192
    BY <1>1, <1>2, NoneBeginsWith192, SMT
  <2> QED
    BY <2>1, <2>2
<1>7. \A i \in 1..(n - 1) : Continues(t[q + 1 + i])
  BY <1>3, Zenon DEF Whole
<1> HIDE DEF n, a
<1>8. k < n /\ k \in 0..3
  BY <1>1, <1>2, <1>4, <1>6
<1>9. b(k) = a
  <2>1. k <= p /\ p - k + 1 = q + 1
    BY <1>1
  <2> QED
    BY <2>1, Zenon DEF Before, a
<1>10. ASSUME NEW i \in 0..(k - 1) PROVE Continues(b(i))
  <2> DEFINE j == k - i
  <2>1. i <= p /\ p - i + 1 = q + 1 + j /\ j \in 1..(n - 1)
    BY <1>1, <1>4, <1>8
  <2>2. b(i) = t[q + 1 + j]
    BY <2>1, Zenon DEF Before
  <2> HIDE DEF j
  <2> QED
    BY <1>7, <2>1, <2>2, Zenon
<1>11. CASE k = 0
  <2>1. 0 \in 0..(1 - 1)
    OBVIOUS
  <2> QED
    BY <1>5, <1>9, <1>11, <2>1, BackIs, Zenon
<1>12. CASE k = 1
  <2>1. a \in 193..247
    BY <1>4, <1>5, <1>6, <1>8, <1>12, SMT DEF Announces
  <2> QED
    BY <1>9, <1>10, <1>12, <2>1, BackIs, Zenon
<1>13. CASE k = 2
  <2>1. a \in 224..247
    BY <1>4, <1>5, <1>8, <1>13, SMT DEF Announces
  <2> QED
    BY <1>9, <1>10, <1>13, <2>1, BackIs, Zenon
<1>14. CASE k = 3
  <2>1. a \in 240..247
    BY <1>4, <1>5, <1>8, <1>14, SMT DEF Announces
  <2> QED
    BY <1>9, <1>10, <1>14, <2>1, BackIs, Zenon
<1> QED
  BY <1>8, <1>11, <1>12, <1>13, <1>14, SMT

(* And what it finds there has the byte.                                   *)
LEMMA FoundIsOwner ==
  ASSUME NEW t \in Seq(0..255), NEW p \in 0..(Len(t) - 1),
         Back(t, p) # BSTR_ERR, CodePoint(t, p - Back(t, p)) # Invalid
  PROVE  Back(t, p) \in 0..p /\ HasByte(t, p, Back(t, p))
<1> DEFINE k == Back(t, p)
           q == p - k
           n == Announced(t[q + 1])
           a == t[q + 1]
           b(i) == Before(t, p, i)
           continue(m) == \A i \in 0..(m - 1) : Continues(b(i))
<1>1. \/ k = 0
      \/ k = 1 /\ b(k) \in 193..247
      \/ k = 2 /\ b(k) \in 224..247
      \/ k = 3 /\ b(k) \in 240..247
  <2>1. \/ k = 0 /\ ~continue(1)
        \/ k = 1 /\ continue(1) /\ b(1) \in 193..247
        \/ k = 2 /\ continue(2) /\ b(2) \in 224..247
        \/ k = 3 /\ continue(3) /\ b(3) \in 240..247
        \/ k = BSTR_ERR
    BY BackIs, Zenon
  <2>2. k # BSTR_ERR
    OBVIOUS
  <2> HIDE DEF k, b, continue
  <2>3. CASE k = 0
    BY <2>3
  <2>4. CASE k = 1 /\ continue(1) /\ b(1) \in 193..247
    BY <2>4, SMT
  <2>5. CASE k = 2 /\ continue(2) /\ b(2) \in 224..247
    BY <2>5, SMT
  <2>6. CASE k = 3 /\ continue(3) /\ b(3) \in 240..247
    BY <2>6, SMT
  <2> QED
    BY <2>1, <2>2, <2>3, <2>4, <2>5, <2>6, Zenon
<1>2. k \in 0..p /\ (k > 0 => b(k) = a)
  <2> DEFINE c == b(k)
  <2>1. k \in 0..3 /\ (k > 0 => c # 0)
    <3> HIDE DEF k, c, b
    <3>1. CASE k = 0
      BY <3>1, SMT
    <3>2. CASE k = 1 /\ c \in 193..247
      BY <3>2, SMT
    <3>3. CASE k = 2 /\ c \in 224..247
      BY <3>3, SMT
    <3>4. CASE k = 3 /\ c \in 240..247
      BY <3>4, SMT
    <3> QED
      BY <1>1, <3>1, <3>2, <3>3, <3>4, Zenon DEF c
  <2>2. k > 0 => k <= p /\ b(k) = t[p - k + 1]
    BY <2>1, Zenon DEF Before
  <2> HIDE DEF k, b
  <2> QED
    BY <2>1, <2>2, SMT
<1>3. Len(t) \in Nat /\ q \in 0..(Len(t) - 1) /\ q = p - k /\ p \in Nat /\ k \in Nat
  <2>1. Len(t) \in Nat
    BY LenProperties
  <2> HIDE DEF k
  <2> QED
    BY <1>2, <2>1
<1>4. CodePoint(t, q) # Invalid
  OBVIOUS
<1> HIDE DEF k, q
<1>5. Whole(t, q)
  BY <1>3, <1>4, ReadsEncoding, Zenon
<1>6. a \in 0..255 /\ n \in 1..4
  BY <1>3, <1>5, WholeIs, SMT
<1>7. Announces(a, n)
  BY <1>6, AnnouncedIs, Zenon
<1>8. Behind(t, q) = q + n
  BY <1>3, <1>4, BehindIs, Zenon
<1> HIDE DEF n, a, b, continue
<1>9. n > k
  <2>1. CASE k = 0
    BY <1>6, <2>1, SMT
  <2>2. CASE k = 1 /\ a \in 193..247
    BY <1>6, <1>7, <2>2, SMT DEF Announces
  <2>3. CASE k = 2 /\ a \in 224..247
    BY <1>6, <1>7, <2>3, SMT DEF Announces
  <2>4. CASE k = 3 /\ a \in 240..247
    BY <1>6, <1>7, <2>4, SMT DEF Announces
  <2>5. k = 1 \/ k = 2 \/ k = 3 => b(k) = a
    BY <1>2, SMT
  <2> QED
    BY <1>1, <2>1, <2>2, <2>3, <2>4, <2>5, Zenon
<1>10. Behind(t, q) > p
  BY <1>3, <1>6, <1>8, <1>9, SMT
<1> QED
  BY <1>2, <1>4, <1>10, Zenon DEF HasByte, k, q

(* So the scan agrees with what is read from the front.                    *)
LEMMA ScanIsRight ==
  ASSUME NEW t \in Seq(0..255), NEW p \in 0..(Len(t) - 1)
  PROVE  LET r == ScanBackwards(t, p)
             owners == {k \in 0..p : HasByte(t, p, k)}
         IN  IF owners = {} THEN r.ret = BSTR_ERR
             ELSE r.ret \in owners /\ r.out = CodePoint(t, p - r.ret)
<1> DEFINE r == ScanBackwards(t, p)
           owners == {k \in 0..p : HasByte(t, p, k)}
           k == Back(t, p)
<1>1. CASE k # BSTR_ERR /\ CodePoint(t, p - k) # Invalid
  <2>1. r = [ret |-> k, out |-> CodePoint(t, p - k)]
    BY <1>1, Zenon DEF ScanBackwards
  <2>2. k \in owners
    BY <1>1, FoundIsOwner, Zenon
  <2>3. r.ret = k /\ r.out = CodePoint(t, p - k)
    BY <2>1
  <2> QED
    BY <2>2, <2>3, Zenon
<1>2. CASE k = BSTR_ERR \/ CodePoint(t, p - k) = Invalid
  <2>1. r = [ret |-> BSTR_ERR, out |-> Invalid]
    BY <1>2, Zenon DEF ScanBackwards
  <2>2. owners = {}
    <3>1. SUFFICES ASSUME NEW j \in 0..p, HasByte(t, p, j) PROVE FALSE
      OBVIOUS
    <3>2. k = j
      BY <3>1, OwnerIsFound, Zenon
    <3>3. j # BSTR_ERR
      BY SMT DEF BSTR_ERR
    <3> QED
      BY <1>2, <3>1, <3>2, <3>3, Zenon DEF HasByte
  <2> QED
    BY <2>1, <2>2
<1> QED
  BY <1>1, <1>2, Zenon

-----------------------------------------------------------------------------
(* The iterator. *)

(* Bytes are integers. *)
LEMMA BytesAreInts ==
  ASSUME NEW t \in Seq(0..255)
  PROVE  t \in Seq(Int)
<1>1. 0..255 \subseteq Int
  OBVIOUS
<1> QED
  BY <1>1, SeqMonotonic, Zenon

(* Encodings are sequences of them. *)
LEMMA EncodingsAreInts ==
  ASSUME NEW v \in Int, IsLegalUnicodeCodePoint(v)
  PROVE  Encoded(v) \in Seq(Int)
<1>1. v \in Nat /\ v <= 1114111
  BY SMT DEF IsLegalUnicodeCodePoint
<1>2. CASE v < 128
  <2>1. ~(128 <= v) /\ ~(2048 <= v) /\ ~(65536 <= v)
    BY <1>1, <1>2, SMT
  <2>2. Encoded(v) = <<v>>
    BY <1>2, <2>1, SMT DEF Encoded
  <2> QED
    BY <2>2, SMT
<1>3. CASE 128 <= v /\ v < 2048
  <2>1. ~(v < 128) /\ ~(2048 <= v) /\ ~(65536 <= v)
    BY <1>1, <1>3, SMT
  <2>2. Encoded(v) = <<192 + v \div 64, 128 + (v % 64)>>
    BY <1>3, <2>1, SMT DEF Encoded
  <2> QED
    BY <2>2, SMT
<1>4. CASE 2048 <= v /\ v < 65536
  <2>1. ~(v < 128) /\ ~(v < 2048) /\ ~(65536 <= v)
    BY <1>1, <1>4, SMT
  <2>2. Encoded(v) = <<224 + v \div 4096, 128 + ((v \div 64) % 64), 128 + (v % 64)>>
    BY <1>4, <2>1, SMT DEF Encoded
  <2> QED
    BY <2>2, SMT
<1>5. CASE 65536 <= v
  <2>1. ~(v < 128) /\ ~(v < 2048) /\ ~(v < 65536)
    BY <1>1, <1>5, SMT
  <2>2. Encoded(v) = <<240 + v \div 262144, 128 + ((v \div 4096) % 64),
                       128 + ((v \div 64) % 64), 128 + (v % 64)>>
    BY <1>5, <2>1, SMT DEF Encoded
  <2> QED
    BY <2>2, SMT
<1> QED
  BY <1>1, <1>2, <1>3, <1>4, <1>5, SMT

(* What is read at a position, as the properties say it. *)
LEMMA ReadIsCut ==
  ASSUME NEW t \in Seq(0..255), NEW p \in 0..(Len(t) - 1), CodePoint(t, p) # Invalid
  PROVE  LET v == CodePoint(t, p)
             n == Announced(t[p + 1])
         IN  /\ IsLegalUnicodeCodePoint(v) /\ Len(Encoded(v)) = n /\ n \in 1..4
             /\ SubSeq(t, p + 1, p + n) = Encoded(v)
<1> DEFINE v == CodePoint(t, p)
           n == Announced(t[p + 1])
<1>1. Whole(t, p) /\ IsEncodedAt(v, t, p, n)
  BY ReadsEncoding, Zenon
<1>2. /\ IsLegalUnicodeCodePoint(v) /\ Encoded(v) \in Seq(Int)
      /\ Len(Encoded(v)) = n /\ At(Encoded(v), t, p)
  BY <1>1, Zenon DEF IsEncodedAt
<1>3. p \in Nat /\ t \in Seq(Int)
  BY BytesAreInts
<1>4. SubSeq(t, p + 1, p + Len(Encoded(v))) = Encoded(v)
  BY <1>2, <1>3, AtIsCut, Zenon
<1>5. n \in 1..4
  BY <1>1, WholeIs, SMT
<1> QED
  BY <1>2, <1>4, <1>5, Zenon

(* The iterator is of bytes, and of all of them; where it is, is in them.  *)
UtfInv ==
  /\ kind = "utf8" => text \in Seq(0..255)
  /\ kind # "utf8" => it = NoIterator /\ val = Unread
  /\ it \in [slen : Int, start : Int, next : Int, error : {0, 1}]
  /\ it.next >= 0 => kind = "utf8" /\ it.slen = Len(text) /\ it.next <= Len(text)
  /\ ReadIsThere

(* It holds at first, *)
LEMMA UtfInvHoldsFirst ==
  ASSUME UtfInit \/ UtfIdle
  PROVE  UtfInv
<1>1. it = NoIterator /\ val = Unread
  BY Zenon DEF UtfInit, UtfIdle
<1>2. it \in [slen : Int, start : Int, next : Int, error : {0, 1}] /\ it.next = -1
  BY <1>1, SMT DEF NoIterator
<1>3. val.v = ErrCh
  BY <1>1, SMT DEF Unread
<1>4. kind = "utf8" => text \in Seq(0..255)
  <2>1. UtfInit => (kind = "utf8" => text \in Utf8s)
    BY SMT DEF UtfInit
  <2>2. UtfIdle => kind # "utf8"
    BY SMT DEF UtfIdle
  <2>3. Utf8s \subseteq Seq(0..255)
    BY TextAssumption, Zenon
  <2> QED
    BY <2>1, <2>2, <2>3, Zenon
<1>5. ReadIsThere
  BY <1>3, Zenon DEF ReadIsThere
<1>6. ~(it.next >= 0)
  BY <1>2, SMT
<1> QED
  BY <1>1, <1>2, <1>4, <1>5, <1>6, Zenon DEF UtfInv

(* and when something is read, what there is is read. *)
LEMMA ReadingKeepsInv ==
  ASSUME UtfInv, Walking, it.next >= 0, NEW by, NEW i, NEW v, Reads(by, i, v),
         i \in [slen : Int, start : Int, next : Int, error : {0, 1}],
         i.next >= 0 => i.slen = Len(text) /\ i.next <= Len(text),
         v # ErrCh =>
           /\ i.error = 0
           /\ by = "next" => EncodedAt(i.start, i.next - i.start, v)
           /\ by = "curr" => EncodedAt(i.next, Len(Encoded(v)), v)
  PROVE  UtfInv'
<1>1. kind' = "utf8" /\ text' = text /\ kind = "utf8" /\ it' = i
  BY Zenon DEF Walking, Reads
<1>2. val'.v = v /\ val'.by = by
  BY SMT DEF Reads
<1>3. ReadIsThere'
  BY <1>1, <1>2, Zenon DEF ReadIsThere, EncodedAt
<1>4. text' \in Seq(0..255)
  BY <1>1, Zenon DEF UtfInv
<1>5. it' \in [slen : Int, start : Int, next : Int, error : {0, 1}]
  BY <1>1, Zenon
<1>6. it'.next >= 0 => it'.slen = Len(text') /\ it'.next <= Len(text')
  BY <1>1, Zenon
<1> QED
  BY <1>1, <1>3, <1>4, <1>5, <1>6, Zenon DEF UtfInv

(* Three fields of the iterator that are set are set one after another. *)
LEMMA MovedIs ==
  ASSUME NEW i \in [slen : Int, start : Int, next : Int, error : {0, 1}],
         NEW e, NEW s, NEW n
  PROVE  [i EXCEPT !.error = e, !.start = s, !.next = n]
           = [slen |-> i.slen, start |-> s, next |-> n, error |-> e]
<1> DEFINE a == [i EXCEPT !.error = e]
           b == [a EXCEPT !.start = s]
<1>1. i = [slen |-> i.slen, start |-> i.start, next |-> i.next, error |-> i.error]
  BY SMT
<1>2. a = [slen |-> i.slen, start |-> i.start, next |-> i.next, error |-> e]
  BY <1>1, SMT
<1> HIDE DEF a
<1>3. b = [slen |-> i.slen, start |-> s, next |-> i.next, error |-> e]
  BY <1>2, SMT
<1> HIDE DEF b
<1>4. [b EXCEPT !.next = n] = [slen |-> i.slen, start |-> s, next |-> n, error |-> e]
  BY <1>3, SMT
<1> QED
  BY <1>4, Zenon DEF a, b

LEMMA ClosedIs ==
  ASSUME NEW i \in [slen : Int, start : Int, next : Int, error : {0, 1}]
  PROVE  [i EXCEPT !.slen = -1, !.start = -1, !.next = -1]
           = [slen |-> -1, start |-> -1, next |-> -1, error |-> i.error]
<1> DEFINE a == [i EXCEPT !.slen = -1]
           b == [a EXCEPT !.start = -1]
<1>1. i = [slen |-> i.slen, start |-> i.start, next |-> i.next, error |-> i.error]
  BY SMT
<1>2. a = [slen |-> -1, start |-> i.start, next |-> i.next, error |-> i.error]
  BY <1>1, SMT
<1> HIDE DEF a
<1>3. b = [slen |-> -1, start |-> -1, next |-> i.next, error |-> i.error]
  BY <1>2, SMT
<1> HIDE DEF b
<1>4. [b EXCEPT !.next = -1] = [slen |-> -1, start |-> -1, next |-> -1, error |-> i.error]
  BY <1>3, SMT
<1> QED
  BY <1>4, Zenon DEF a, b

(* Each step of UtfNext keeps it. *)
LEMMA UtfInvIsKept ==
  ASSUME UtfInv, [UtfNext]_utfVars
  PROVE  UtfInv'
<1> DEFINE It == [slen : Int, start : Int, next : Int, error : {0, 1}]
<1>1. it \in It
  BY Zenon DEF UtfInv
<1>2. /\ kind = "utf8" => text \in Seq(0..255)
      /\ kind # "utf8" => it = NoIterator /\ val = Unread
      /\ it.next >= 0 => kind = "utf8" /\ it.slen = Len(text) /\ it.next <= Len(text)
      /\ ReadIsThere
  BY Zenon DEF UtfInv
<1>3. ASSUME Walking, it.next >= 0
      PROVE  /\ text \in Seq(0..255) /\ Len(text) \in Nat
             /\ it.slen = Len(text) /\ it.next \in 0..Len(text)
             /\ it.next < it.slen => it.next \in 0..(Len(text) - 1)
  <2>1. text \in Seq(0..255) /\ it.slen = Len(text) /\ it.next <= Len(text)
    BY <1>2, <1>3, Zenon DEF Walking
  <2>2. Len(text) \in Nat
    BY <2>1, LenProperties, Zenon
  <2> QED
    BY <1>1, <1>3, <2>1, <2>2, SMT
<1>4. CASE Utf8IteratorInit
  <2>1. /\ kind' = "utf8" /\ text' = text /\ kind = "utf8" /\ val' = Unread
        /\ it' = [slen |-> Len(text), start |-> -1, next |-> 0, error |-> 0]
    BY <1>4, Zenon DEF Utf8IteratorInit, Walking
  <2>2. text \in Seq(0..255) /\ Len(text) \in Nat
    BY <1>2, <2>1, LenProperties, Zenon
  <2>3. it' \in It /\ it'.slen = Len(text') /\ it'.next = 0
    BY <2>1, <2>2, SMT
  <2>4. it'.next <= Len(text')
    BY <2>1, <2>2, <2>3, SMT
  <2>5. val'.v = ErrCh
    BY <2>1, SMT DEF Unread
  <2>6. ReadIsThere'
    BY <2>5, Zenon DEF ReadIsThere
  <2> QED
    BY <2>1, <2>2, <2>3, <2>4, <2>6, Zenon DEF UtfInv
<1>5. CASE Utf8IteratorGetNextCodePoint
  <2> DEFINE p == it.next
  <2>1. Walking /\ p >= 0
    BY <1>5, Zenon DEF Utf8IteratorGetNextCodePoint
  <2>2. /\ text \in Seq(0..255) /\ Len(text) \in Nat /\ it.slen = Len(text)
        /\ p \in 0..Len(text) /\ (p < it.slen => p \in 0..(Len(text) - 1))
    BY <1>3, <2>1, Zenon
  <2>3. CASE p >= it.slen
    <3> DEFINE i == [it EXCEPT !.start = it.slen]
    <3>1. Reads("next", i, ErrCh)
      BY <1>5, <2>3, Zenon DEF Utf8IteratorGetNextCodePoint
    <3>2. i \in It /\ i.slen = it.slen /\ i.next = it.next
      BY <1>1, <2>2, SMT
    <3> HIDE DEF i
    <3> QED
      BY <1>2, <2>1, <2>2, <3>1, <3>2, ReadingKeepsInv, Zenon
  <2>4. CASE ~(p >= it.slen)
    <3> DEFINE i == [it EXCEPT !.error = Error(p), !.start = p, !.next = Behind(text, p)]
               v == ValueAt(p)
               b == Behind(text, p)
               n == Announced(text[p + 1])
    <3>1. Reads("next", i, v)
      BY <1>5, <2>4, Zenon DEF Utf8IteratorGetNextCodePoint
    <3>2. p \in 0..(Len(text) - 1)
      BY <2>2, <2>4, SMT
    <3>3. b \in (p + 1)..Len(text)
      BY <2>2, <3>2, BehindIs, Zenon
    <3>4. Error(p) \in {0, 1}
      BY SMT DEF Error
    <3>5. /\ i \in It /\ i.slen = Len(text) /\ i.next = b /\ i.next <= Len(text)
          /\ i.start = p /\ i.error = Error(p)
      <4> HIDE DEF b
      <4>1. i = [slen |-> it.slen, start |-> p, next |-> b, error |-> Error(p)]
        BY <1>1, MovedIs, Zenon DEF b
      <4> HIDE DEF i, b
      <4> QED
        BY <1>1, <2>2, <3>2, <3>3, <3>4, <4>1, SMT
    <3>6. ASSUME v # ErrCh
          PROVE  i.error = 0 /\ EncodedAt(i.start, i.next - i.start, v)
      <4>1. CodePoint(text, p) # Invalid /\ v = CodePoint(text, p) /\ Error(p) = 0
        BY <3>6, Zenon DEF ValueAt, Error
      <4>2. b = p + n
        BY <2>2, <3>2, <4>1, BehindIs, Zenon
      <4>3. /\ IsLegalUnicodeCodePoint(v) /\ n \in 1..4
            /\ SubSeq(text, p + 1, p + n) = Encoded(v)
        BY <2>2, <3>2, <4>1, ReadIsCut, Zenon
      <4>4. i.next - i.start = n
        <5> HIDE DEF b, n, i
        <5> QED
          BY <2>2, <3>5, <4>2, <4>3, SMT
      <4> HIDE DEF i
      <4> QED
        BY <3>5, <4>1, <4>3, <4>4, Zenon DEF EncodedAt
    <3> HIDE DEF i, v
    <3> QED
      BY <2>1, <3>1, <3>5, <3>6, ReadingKeepsInv, Zenon
  <2> QED
    BY <2>3, <2>4
<1>6. CASE Utf8IteratorGetCurrCodePoint
  <2> DEFINE p == it.next
  <2>1. Walking /\ p >= 0
    BY <1>6, Zenon DEF Utf8IteratorGetCurrCodePoint
  <2>2. /\ text \in Seq(0..255) /\ Len(text) \in Nat /\ it.slen = Len(text)
        /\ p \in 0..Len(text) /\ (p < it.slen => p \in 0..(Len(text) - 1))
    BY <1>3, <2>1, Zenon
  <2>3. CASE p >= it.slen
    <3> DEFINE i == [it EXCEPT !.start = it.slen]
    <3>1. Reads("curr", i, ErrCh)
      BY <1>6, <2>3, Zenon DEF Utf8IteratorGetCurrCodePoint
    <3>2. i \in It /\ i.slen = it.slen /\ i.next = it.next
      BY <1>1, <2>2, SMT
    <3> HIDE DEF i
    <3> QED
      BY <1>2, <2>1, <2>2, <3>1, <3>2, ReadingKeepsInv, Zenon
  <2>4. CASE ~(p >= it.slen)
    <3> DEFINE i == [it EXCEPT !.error = Error(p)]
               v == ValueAt(p)
               n == Announced(text[p + 1])
    <3>1. Reads("curr", i, v)
      BY <1>6, <2>4, Zenon DEF Utf8IteratorGetCurrCodePoint
    <3>2. p \in 0..(Len(text) - 1)
      BY <2>2, <2>4, SMT
    <3>3. Error(p) \in {0, 1}
      BY SMT DEF Error
    <3>4. /\ i \in It /\ i.slen = Len(text) /\ i.next = p /\ i.error = Error(p)
      BY <1>1, <2>2, <3>3, SMT
    <3>5. p <= Len(text)
      BY <2>2, SMT
    <3>6. ASSUME v # ErrCh
          PROVE  i.error = 0 /\ EncodedAt(i.next, Len(Encoded(v)), v)
      <4>1. CodePoint(text, p) # Invalid /\ v = CodePoint(text, p) /\ Error(p) = 0
        BY <3>6, Zenon DEF ValueAt, Error
      <4> DEFINE w == CodePoint(text, p)
      <4>2. /\ IsLegalUnicodeCodePoint(w) /\ Len(Encoded(w)) = n
            /\ SubSeq(text, p + 1, p + n) = Encoded(w)
        BY <2>2, <3>2, <4>1, ReadIsCut, Zenon
      <4> HIDE DEF i, v
      <4> QED
        BY <3>4, <4>1, <4>2, Zenon DEF EncodedAt
    <3> HIDE DEF i, v
    <3> QED
      BY <2>1, <3>1, <3>4, <3>5, <3>6, ReadingKeepsInv, Zenon
  <2> QED
    BY <2>3, <2>4
<1>7. CASE Utf8IteratorUninit
  <2> DEFINE i == [it EXCEPT !.slen = -1, !.start = -1, !.next = -1]
  <2>1. Walking /\ it.next >= 0 /\ Reads("none", i, ErrCh)
    BY <1>7, Zenon DEF Utf8IteratorUninit
  <2>2. i \in It /\ i.next = -1
    <3>1. i = [slen |-> -1, start |-> -1, next |-> -1, error |-> it.error]
      BY <1>1, ClosedIs, Zenon
    <3> HIDE DEF i
    <3> QED
      BY <1>1, <3>1, SMT
  <2> HIDE DEF i
  <2>3. ~(i.next >= 0)
    BY <2>2, SMT
  <2> QED
    BY <2>1, <2>2, <2>3, ReadingKeepsInv, Zenon
<1>8. ASSUME UNCHANGED <<kind, it, val>>, text' = text \/ kind # "utf8"
      PROVE  UtfInv'
  <2>1. CASE text' = text
    BY <1>1, <1>2, <1>8, <2>1, Zenon DEF UtfInv, ReadIsThere, EncodedAt
  <2>2. CASE kind # "utf8"
    <3>1. it' = NoIterator /\ val' = Unread /\ kind' # "utf8" /\ it' \in It
      BY <1>1, <1>2, <1>8, <2>2, Zenon
    <3>2. val'.v = ErrCh /\ ~(it'.next >= 0)
      BY <3>1, SMT DEF Unread, NoIterator
    <3> QED
      BY <3>1, <3>2, Zenon DEF UtfInv, ReadIsThere
  <2> QED
    BY <1>8, <2>1, <2>2
<1>9. CASE GetBlkUTF16
  <2>1. UNCHANGED <<kind, it, val>> /\ text' = text
    BY <1>9, Zenon DEF GetBlkUTF16
  <2> QED
    BY <1>8, <2>1, Zenon
<1>10. CASE AppendBlkUcs4
  <2>1. UNCHANGED <<kind, it, val>> /\ kind = "ucs4"
    BY <1>10, Zenon DEF AppendBlkUcs4, Converted
  <2> QED
    BY <1>8, <2>1
<1>11. CASE AppendBlkUTF16
  <2>1. UNCHANGED <<kind, it, val>> /\ kind = "utf16"
    BY <1>11, Zenon DEF AppendBlkUTF16, Converted
  <2> QED
    BY <1>8, <2>1
<1>12. CASE UNCHANGED utfVars
  <2>1. UNCHANGED <<kind, it, val>> /\ text' = text
    BY <1>12, Zenon DEF utfVars
  <2> QED
    BY <1>8, <2>1, Zenon
<1> QED
  BY <1>4, <1>5, <1>6, <1>7, <1>9, <1>10, <1>11, <1>12, Zenon DEF UtfNext

(* So the property holds where the invariant does. *)
LEMMA WhatIsThereIsRead ==
  ASSUME UtfInv
  PROVE  ReadsCodePoints
<1>1. ReadIsThere
  BY Zenon DEF UtfInv
<1>2. ASSUME it.next = 0
      PROVE  text \in Seq(0..255)
  <2>1. it.next >= 0
    BY <1>2, SMT
  <2> QED
    BY <2>1, Zenon DEF UtfInv
<1>3. NothingIsPassedOver
  <2>1. SUFFICES ASSUME it.next = 0, NEW p \in 0..(Len(text) - 1)
                 PROVE  /\ BeginsPoint(p) => CodePoint(text, p) # Invalid
                        /\ CodePoint(text, p) # Invalid =>
                             \A q \in 0..(p - 1) : Behind(text, q) <= p
    BY Zenon DEF NothingIsPassedOver
  <2>2. text \in Seq(0..255) /\ text \in Seq(Int)
    BY <1>2, <2>1, BytesAreInts, Zenon
  <2>3. p \in Nat /\ p \in 0..Len(text)
    BY <2>2, LenProperties, SMT
  <2>4. ASSUME BeginsPoint(p)
        PROVE  CodePoint(text, p) # Invalid
    <3>1. PICK w \in Points : \E k \in DOMAIN w :
            IsLegalUnicodeCodePoint(w[k]) /\ IsPrefix(Encoded(w[k]), From(text, p))
      BY <2>4, Zenon DEF BeginsPoint
    <3>2. PICK k \in DOMAIN w :
            IsLegalUnicodeCodePoint(w[k]) /\ IsPrefix(Encoded(w[k]), From(text, p))
      BY <3>1, Zenon
    <3>3. w \in Seq(Int)
      BY TextAssumption, Zenon
    <3>4. w[k] \in Int
      BY <3>2, <3>3, SMT
    <3>5. Encoded(w[k]) \in Seq(Int)
      BY <3>2, <3>4, EncodingsAreInts, Zenon
    <3>6. At(Encoded(w[k]), text, p)
      BY <2>2, <2>3, <3>2, <3>5, PrefixIsAt, Zenon
    <3>7. CodePoint(text, p) = w[k]
      BY <2>2, <2>3, <3>2, <3>4, <3>6, WrittenIsRead, Zenon
    <3>8. w[k] # Invalid
      BY <3>2, <3>4, SMT DEF IsLegalUnicodeCodePoint, Invalid
    <3> QED
      BY <3>7, <3>8, Zenon
  <2> QED
    BY <2>2, <2>4, NoneBeginsInside, Zenon
<1>4. ScanAgrees
  <2>1. ASSUME it.next = 0, NEW p \in 0..(Len(text) - 1)
        PROVE  LET r == ScanBackwards(text, p)
                   owners == {k \in 0..p : HasByte(text, p, k)}
               IN  IF owners = {} THEN r.ret = BSTR_ERR
                   ELSE r.ret \in owners /\ r.out = CodePoint(text, p - r.ret)
    BY <1>2, <2>1, ScanIsRight, Zenon
  <2> QED
    BY <2>1, Zenon DEF ScanAgrees, HasByte
<1> QED
  BY <1>1, <1>3, <1>4, Zenon DEF ReadsCodePoints

(***************************************************************************)
(* Whatever the bytes are, the iterator and the backward scan read the     *)
(* code points whose encodings are there, all of them and nothing else:    *)
(* utf8IteratorGetNextCodePoint, utf8IteratorGetCurrCodePoint and          *)
(* utf8ScanBackwardsForCodePoint.                                          *)
(***************************************************************************)
THEOREM ReadsWhatIsThere == UtfSpec => []ReadsCodePoints
<1>1. UtfInit \/ UtfIdle => UtfInv
  BY UtfInvHoldsFirst, Zenon
<1>2. UtfInv /\ [UtfNext]_utfVars => UtfInv'
  BY UtfInvIsKept, Zenon
<1>3. UtfInv => ReadsCodePoints
  BY WhatIsThereIsRead, Zenon
<1> QED
  BY <1>1, <1>2, <1>3, PTL DEF UtfSpec

=============================================================================

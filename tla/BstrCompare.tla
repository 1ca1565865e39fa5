----------------------------- MODULE BstrCompare -----------------------------
(***************************************************************************)
(* The comparisons of bstring/bstrlib.c and its searches for characters,   *)
(* as functions of texts: sequences of bytes, none of them with more       *)
(* characters than an int counts.                                          *)
(***************************************************************************)
EXTENDS Integers, Sequences

CONSTANT
  Downcase(_)  \* tolower of the C library, on bytes

NUL == 0

BSTR_ERR == -1

(* unsigned char, and the char it becomes where char is signed. *)
UCHAR_MAX == 255

(* A byte in lower case is a byte, which is in lower case. *)
ASSUME DowncaseAssumption ==
  \A c \in 0..UCHAR_MAX :
    Downcase(c) \in 0..UCHAR_MAX /\ Downcase(Downcase(c)) = Downcase(c)

Char(c) == IF c > 127 THEN c - 256 ELSE c

Shorter(m, n) == IF m < n THEN m ELSE n

Lowest(S) == CHOOSE x \in S : \A y \in S : x <= y

Highest(S) == CHOOSE x \in S : \A y \in S : x >= y

Lower(t) == [k \in DOMAIN t |-> Downcase(t[k])]

(* A C string is read up to its terminator, and so is what lies in front   *)
(* of the first '\0' of a text.                                            *)
Ctext(t) ==
  LET S == {k \in DOMAIN t : t[k] = NUL}
  IN  IF S = {} THEN t ELSE SubSeq(t, 1, Lowest(S) - 1)

-----------------------------------------------------------------------------
(* Equality: 1 or 0. *)

Bool(p) == IF p THEN 1 ELSE 0

(* biseq and biseqblk. *)
Biseq(b0, b1) ==
  Bool(Len(b0) = Len(b1) /\ \A k \in 1..Len(b0) : b0[k] = b1[k])

(* biseqcaseless and biseqcaselessblk. *)
Biseqcaseless(b0, b1) ==
  Bool(Len(b0) = Len(b1) /\ \A k \in 1..Len(b0) : Downcase(b0[k]) = Downcase(b1[k]))

Bisstemeqblk(b0, blk) ==
  Bool(Len(b0) >= Len(blk) /\ \A k \in 1..Len(blk) : b0[k] = blk[k])

Bisstemeqcaselessblk(b0, blk) ==
  Bool(Len(b0) >= Len(blk) /\ \A k \in 1..Len(blk) : Downcase(b0[k]) = Downcase(blk[k]))

(* s[i], of a C string that need not be read behind its terminator. *)
At(s, k) == IF k \in DOMAIN s THEN s[k] ELSE NUL

Biseqcstr(b, s) ==
  Bool(/\ \A k \in 1..Len(b) : At(s, k) # NUL /\ b[k] = At(s, k)
       /\ At(s, Len(b) + 1) = NUL)

Biseqcstrcaseless(b, s) ==
  Bool(/\ \A k \in 1..Len(b) : At(s, k) # NUL /\ Downcase(b[k]) = Downcase(At(s, k))
       /\ At(s, Len(b) + 1) = NUL)

-----------------------------------------------------------------------------
(* Order: negative, zero or positive. *)

(* bstrcmp: up to the first difference or the first common '\0', and then  *)
(* by length.                                                              *)
Bstrcmp(b0, b1) ==
  LET S == {k \in 1..Shorter(Len(b0), Len(b1)) : b0[k] # b1[k] \/ b0[k] = NUL}
  IN  IF S # {} THEN Char(b0[Lowest(S)]) - Char(b1[Lowest(S)])
      ELSE IF Len(b0) > Len(b1) THEN 1
      ELSE IF Len(b0) < Len(b1) THEN -1
      ELSE 0

(* Mutant: lengths are compared although n characters have been. *)
BstrncmpWhole(b0, b1, n) ==
  LET m == Shorter(n, Shorter(Len(b0), Len(b1)))
      S == {k \in 1..m : b0[k] # b1[k] \/ b0[k] = NUL}
  IN  IF S # {} THEN Char(b0[Lowest(S)]) - Char(b1[Lowest(S)])
      ELSE IF Len(b0) = Len(b1) THEN 0
      ELSE IF Len(b0) > m THEN 1
      ELSE -1

Bstrncmp(b0, b1, n) ==
  LET m == Shorter(n, Shorter(Len(b0), Len(b1)))
      S == {k \in 1..m : b0[k] # b1[k] \/ b0[k] = NUL}
  IN  IF S # {} THEN Char(b0[Lowest(S)]) - Char(b1[Lowest(S)])
      ELSE IF n = m \/ Len(b0) = Len(b1) THEN 0
      ELSE IF Len(b0) > m THEN 1
      ELSE -1

(* The value of the first character that only one of two texts has: '\0'   *)
(* counts as UCHAR_MAX + 1.                                                *)
Extra(c) ==
  IF Char(Downcase(c)) # 0 THEN Char(Downcase(c)) ELSE UCHAR_MAX + 1

Bstricmp(b0, b1) ==
  LET n == Shorter(Len(b0), Len(b1))
      S == {k \in 1..n : Downcase(b0[k]) # Downcase(b1[k])}
  IN  IF S # {} THEN Char(Downcase(b0[Lowest(S)])) - Char(Downcase(b1[Lowest(S)]))
      ELSE IF Len(b0) > n THEN Extra(b0[n + 1])
      ELSE IF Len(b1) > n THEN -Extra(b1[n + 1])
      ELSE 0

(* bstrnicmp: what it returns of two characters that differ, whatever      *)
(* their case, is the difference of the bytes themselves.                  *)
Bstrnicmp(b0, b1, n) ==
  LET m == Shorter(n, Shorter(Len(b0), Len(b1)))
      S == {k \in 1..m : Downcase(b0[k]) # Downcase(b1[k])}
  IN  IF S # {} THEN b0[Lowest(S)] - b1[Lowest(S)]
      ELSE IF n = m \/ Len(b0) = Len(b1) THEN 0
      ELSE IF Len(b0) > m THEN Extra(b0[m + 1])
      ELSE -Extra(b1[m + 1])

-----------------------------------------------------------------------------
(* Characters. *)

(* bstrchrp and bstrrchrp; pos is not checked against 0 by binchrr, which  *)
(* passes -1 for the end of an empty string.                               *)
Bstrchrp(b, c, pos) ==
  LET S == {i \in pos..(Len(b) - 1) : b[i + 1] = c}
  IN  IF pos < 0 \/ pos >= Len(b) \/ S = {} THEN BSTR_ERR ELSE Lowest(S)

Bstrrchrp(b, c, pos) ==
  LET S == {i \in 0..pos : b[i + 1] = c}
  IN  IF pos < 0 \/ pos >= Len(b) \/ S = {} THEN BSTR_ERR ELSE Highest(S)

(* struct charField: one bit for each character, in CFCLEN cells of        *)
(* LONG_BITS_QTY bits.                                                     *)
LONG_BITS_QTY == 8

CFCLEN == 256 \div LONG_BITS_QTY

BuildCharField(b) ==
  [cell \in 0..(CFCLEN - 1) |->
     {c % LONG_BITS_QTY : c \in {b[k] : k \in {l \in DOMAIN b :
                                       b[l] \div LONG_BITS_QTY = cell}}}]

InvertCharField(cf) ==
  [cell \in DOMAIN cf |-> (0..(LONG_BITS_QTY - 1)) \ cf[cell]]

TestInCharField(cf, c) == (c % LONG_BITS_QTY) \in cf[c \div LONG_BITS_QTY]

BinchrCF(b, pos, cf) ==
  LET S == {i \in pos..(Len(b) - 1) : TestInCharField(cf, b[i + 1])}
  IN  IF S = {} THEN BSTR_ERR ELSE Lowest(S)

BinchrrCF(b, pos, cf) ==
  LET S == {i \in 0..pos : TestInCharField(cf, b[i + 1])}
  IN  IF S = {} THEN BSTR_ERR ELSE Highest(S)

(* An empty b1 is refused by buildCharField. *)
Binchr(b0, pos, b1) ==
  IF pos < 0 \/ pos >= Len(b0) \/ b1 = <<>> THEN BSTR_ERR
  ELSE IF Len(b1) = 1 THEN Bstrchrp(b0, b1[1], pos)
  ELSE BinchrCF(b0, pos, BuildCharField(b1))

Bninchr(b0, pos, b1) ==
  IF pos < 0 \/ pos >= Len(b0) \/ b1 = <<>> THEN BSTR_ERR
  ELSE BinchrCF(b0, pos, InvertCharField(BuildCharField(b1)))

(* Backwards from the end of the text is from its last character. *)
FromLast(b, pos) == IF pos = Len(b) THEN pos - 1 ELSE pos

Binchrr(b0, pos, b1) ==
  IF pos < 0 \/ pos > Len(b0) \/ b1 = <<>> THEN BSTR_ERR
  ELSE IF Len(b1) = 1 THEN Bstrrchrp(b0, b1[1], FromLast(b0, pos))
  ELSE BinchrrCF(b0, FromLast(b0, pos), BuildCharField(b1))

Bninchrr(b0, pos, b1) ==
  IF pos < 0 \/ pos > Len(b0) \/ b1 = <<>> THEN BSTR_ERR
  ELSE BinchrrCF(b0, FromLast(b0, pos), InvertCharField(BuildCharField(b1)))

=============================================================================

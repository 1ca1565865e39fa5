------------------------------ MODULE BstrCodecs ------------------------------
(***************************************************************************)
(* The encodings of bstring/bstraux.c: base64, UU, yEnc and netstrings.    *)
(* Characters are bytes and keep their values; texts and encodings are     *)
(* sequences of them.  A decoder reads its input once, front to back: it   *)
(* is a fold of what one character does.                                   *)
(*                                                                         *)
(* The behaviour is a transmission: a text is encoded, the encoding is     *)
(* perhaps cut or has one character changed or inserted on the way, and    *)
(* what arrives is decoded, by a decoder that may run out of memory.  How  *)
(* the UU decoder buffers its lines, and ends, is the matter of UuStream.  *)
(***************************************************************************)
EXTENDS Integers, Sequences, SequencesExt

CONSTANTS
  Texts,    \* the texts that are sent
  Strays,   \* the characters a damaged encoding gets
  B64Line,  \* how much bBase64Encode puts on a line, 57 in the source
  UuLine,   \* UU_MAX_LINELEN, 45 in the source
  YBuffer,  \* MAX_OB_LEN, 64 in the source
  IntMax    \* INT_MAX

ASSUME CodecsAssumption ==
  /\ Texts \subseteq Seq(0..255) /\ Strays \subseteq 0..255
  /\ \A t \in Texts : Len(t) <= IntMax
  /\ \A n \in {B64Line, UuLine} : n \in Nat \ {0} /\ n % 3 = 0
  /\ YBuffer \in Nat \ {0} /\ IntMax \in Nat

VARIABLES
  codec,    \* which encoding is used
  sent,     \* the text to send
  wire,     \* its encoding, as far as it has come
  damage,   \* what happened to it
  got,      \* what the decoder made of it
  pc        \* "encode", "send", "decode" or "done"

codecsVars == <<codec, sent, wire, damage, got, pc>>

-----------------------------------------------------------------------------
NUL == 0   LF == 10   CR == 13

CRLF == <<13, 10>>

NULL == <<-1>>

First(t, n) == SubSeq(t, 1, n)

After(t, n) == SubSeq(t, n + 1, Len(t))

Shorter(m, n) == IF m < n THEN m ELSE n

(* The character at position k, or what stands for one behind the end. *)
At(t, k, behind) == IF k \in DOMAIN t THEN t[k] ELSE behind

(* In how many pieces of n characters k characters come. *)
Pieces(k, n) == (k + n - 1) \div n

(* The four values of six bits of three bytes, and back. *)
Sextets(a, b, c) ==
  <<a \div 4, (a % 4) * 16 + b \div 16, (b % 16) * 4 + c \div 64, c % 64>>

Octets(q) ==
  <<q[1] * 4 + q[2] \div 16, (q[2] % 16) * 16 + q[3] \div 4, (q[3] % 4) * 64 + q[4]>>

-----------------------------------------------------------------------------
(* Base64. *)

PAD == 61

(* b64ETable, and base64DecodeSymbol: -1 is a character to pass over. *)
B64ETable(v) ==
  CASE v \in 0..25  -> v + 65
    [] v \in 26..51 -> v + 71
    [] v \in 52..61 -> v - 4
    [] v = 62       -> 43
    [] v = 63       -> 47

Base64DecodeSymbol(c) ==
  CASE c \in 65..90  -> c - 65
    [] c \in 97..122 -> c - 71
    [] c \in 48..57  -> c + 4
    [] c = 43        -> 62
    [] c = 47        -> 63
    [] OTHER         -> -1

(* The four characters of the bytes from i on: what is missing is padded. *)
Quad(b, i) ==
  LET n == Shorter(3, Len(b) - i)
      v == Sextets(b[i + 1], At(b, i + 2, 0), At(b, i + 3, 0))
  IN  [k \in 1..4 |-> IF k <= n + 1 THEN B64ETable(v[k]) ELSE PAD]

(* Every full line is ended, the last one too. *)
LineEnd(i) == IF i > 0 /\ i % B64Line = 0 THEN CRLF ELSE <<>>

BBase64Encode(b) ==
  FlattenSeq([g \in 1..(Len(b) \div 3 + 1) |->
    LET i == 3 * (g - 1)
    IN  LineEnd(i) \o (IF i < Len(b) THEN Quad(b, i) ELSE <<>>)])

(* d.out with characters appended one by one, as far as there is memory. *)
Append1(d, chars) == d.out \o First(chars, Shorter(d.room - Len(d.out), Len(chars)))

Fits(d, chars) == Len(d.out) + Len(chars) <= d.room

Ended(d, chars, flag) ==
  [d EXCEPT !.at = "end", !.out = Append1(d, chars), !.flag = flag]

(***************************************************************************)
(* One character, in bBase64DecodeEx: d.q is what there is of a group of   *)
(* four.  boolTruncError becomes 1 at a "=" too early or not followed by   *)
(* its second, and -1 when there is no memory for a whole group (1 at the  *)
(* padding).                                                               *)
(***************************************************************************)
Base64Turn(d, c) ==
  LET v == Base64DecodeSymbol(c)
      tail == Octets(d.q \o <<0, 0, 0>>)
      whole == Octets(Append(d.q, v) \o <<0, 0, 0>>)
      group(n) == d.at = "group" /\ c # PAD /\ Len(d.q) \in n
      padded(n) == d.at = "group" /\ c = PAD /\ Len(d.q) \in n
  IN  CASE d.at = "end" \/ (d.at = "group" /\ c # PAD /\ v = -1) -> d
        [] group(0..2) /\ v # -1 -> [d EXCEPT !.q = Append(d.q, v)]
        [] group({3}) /\ v # -1 /\ Fits(d, whole) ->
             [d EXCEPT !.q = <<>>, !.out = Append1(d, whole)]
        [] group({3}) /\ v # -1 /\ ~Fits(d, whole) -> Ended(d, whole, -1)
        [] padded({0, 1}) -> Ended(d, <<>>, 1)
        [] padded({2}) -> [d EXCEPT !.at = "pad"]
        [] padded({3}) ->
             Ended(d, First(tail, 2), IF Fits(d, First(tail, 2)) THEN 0 ELSE 1)
        [] d.at = "pad" /\ c = PAD /\ Fits(d, First(tail, 1)) ->
             Ended(d, First(tail, 1), 0)
        [] d.at = "pad" /\ ~(c = PAD /\ Fits(d, First(tail, 1))) -> Ended(d, <<>>, 1)

(* Mutant: the end within a group is not noticed. *)
BBase64DecodeExQuiet(w, room) ==
  LET d == FoldLeft(Base64Turn,
             [at |-> "group", q |-> <<>>, out |-> <<>>, flag |-> 0, room |-> room], w)
  IN  [text |-> d.out, flag |-> d.flag]

(* A text that ends within a group is truncated as well. *)
BBase64DecodeEx(w, room) ==
  LET d == FoldLeft(Base64Turn,
             [at |-> "group", q |-> <<>>, out |-> <<>>, flag |-> 0, room |-> room], w)
  IN  [text |-> d.out,
       flag |-> IF d.at = "pad" \/ (d.at = "group" /\ d.q # <<>>) THEN 1 ELSE d.flag]

-----------------------------------------------------------------------------
(* UU. *)

UuEncodeByte(v) == IF v = 0 THEN 96 ELSE v + 32

UuDecodeByte(c) == IF c = 96 THEN 0 ELSE c - 32

BUuEncode(b) ==
  FlattenSeq([n \in 1..Pieces(Len(b), UuLine) |->
    LET line == First(After(b, (n - 1) * UuLine), Shorter(UuLine, Len(b) - (n - 1) * UuLine))
        v(g) == Sextets(line[3*g - 2], At(line, 3*g - 1, 0), At(line, 3*g, 0))
    IN  <<UuEncodeByte(Len(line))>>
        \o FlattenSeq([g \in 1..Pieces(Len(line), 3) |->
             [k \in 1..4 |-> UuEncodeByte(v(g)[k])]])
        \o CRLF])

Codes(c) == UuDecodeByte(c) \in 0..63

(* What ends a line: neither a code, nor white space, nor a missing one. *)
Spoils(c) == ~Codes(c) /\ c # 31 /\ c \notin 9..13

(***************************************************************************)
(* One group of four, q, in bUuDecLine, for a line of n bytes.  A group    *)
(* that spoils the line takes back all of it; one that is bad otherwise    *)
(* counts as zeros from there on; one there is no memory for ends it.      *)
(***************************************************************************)
UuGroup(d, q) ==
  LET k == Shorter(d.n - Len(d.text), 3)
      used == {q[j] : j \in 1..(k + 1)}
      c(j) == IF Codes(q[j]) THEN UuDecodeByte(q[j]) ELSE 0
      pair == Codes(q[1]) /\ Codes(q[2])
      o == Octets(<<IF pair THEN c(1) ELSE 0, IF pair THEN c(2) ELSE 0, c(3), c(4)>>)
  IN  CASE d.spoilt \/ d.lack \/ k = 0 -> d
        [] ~d.lack /\ k > 0 /\ \E x \in used : Spoils(x) ->
             [d EXCEPT !.spoilt = TRUE, !.bad = TRUE, !.text = <<>>]
        [] ~d.lack /\ k > 0 /\ (\A x \in used : ~Spoils(x))
             /\ Len(d.text) + k > d.room -> [d EXCEPT !.lack = TRUE]
        [] OTHER -> [d EXCEPT !.bad = d.bad \/ (\E x \in used : ~Codes(x)),
                              !.text = d.text \o First(o, k)]

(* A line that lacked memory keeps what it has, and is not called bad. *)
BUuDecLine(line, room) ==
  LET n == UuDecodeByte(line[1])
      q(g) == [j \in 1..4 |-> At(line, 4*g - 3 + j, 31)]
      d == FoldLeft(UuGroup, [n |-> n, text |-> <<>>, bad |-> FALSE, spoilt |-> FALSE,
                              room |-> room, lack |-> FALSE],
                    [g \in 1..Pieces(Len(line) - 1, 4) |-> q(g)])
  IN  CASE n \notin 0..UuLine -> [text |-> <<>>, bad |-> TRUE, lack |-> FALSE]
        [] n \in 0..UuLine /\ d.lack -> [text |-> d.text, bad |-> FALSE, lack |-> TRUE]
        [] n \in 0..UuLine /\ ~d.lack /\ Len(d.text) < n ->
             [text |-> <<>>, bad |-> TRUE, lack |-> FALSE]
        [] OTHER -> [text |-> d.text, bad |-> d.bad, lack |-> FALSE]

(* The lines of a text, as bsUuDecodePart finds them; empty ones are none. *)
LineTurn(d, c) ==
  IF c \notin {CR, LF} THEN [d EXCEPT !.line = Append(d.line, c)]
  ELSE [line |-> <<>>,
        lines |-> IF d.line = <<>> THEN d.lines ELSE Append(d.lines, d.line)]

(* The last of them may be without an end. *)
UuLines(w) ==
  LET d == FoldLeft(LineTurn, [line |-> <<>>, lines |-> <<>>], w)
  IN  IF d.line = <<>> THEN d.lines ELSE Append(d.lines, d.line)

(* One line more, unless one before it lacked memory. *)
UuTurn(d, line) ==
  IF d.lack THEN d
  ELSE LET x == BUuDecLine(line, d.room - Len(d.out))
       IN  [d EXCEPT !.out = d.out \o x.text, !.lack = x.lack,
                     !.flag = d.flag + (IF x.bad THEN 1 ELSE 0)]

(***************************************************************************)
(* The text is read in one request (it is shorter than the 256 characters  *)
(* the string it goes to has from the first): the stream hands over what   *)
(* it could decode, all the same when that was cut short by a lack of      *)
(* memory.  bsread calls it an error if there is nothing; it is not asked  *)
(* for an encoding without a character.  The flag is *badlines.            *)
(***************************************************************************)
BUuDecodeEx(w, room) ==
  LET d == FoldLeft(UuTurn, [out |-> <<>>, flag |-> 0, lack |-> FALSE, room |-> room],
                    UuLines(w))
  IN  [text |-> IF w # <<>> /\ d.out = <<>> THEN NULL ELSE d.out, flag |-> d.flag]

-----------------------------------------------------------------------------
(* yEnc. *)

(* Mutant: the escape character itself is not escaped. *)
BYEncodePlain(b) ==
  FlattenSeq([k \in DOMAIN b |->
    LET c == (b[k] + 42) % 256
    IN  IF c \in {NUL, CR, LF} THEN <<PAD, (c + 64) % 256>> ELSE <<c>>])

BYEncode(b) ==
  FlattenSeq([k \in DOMAIN b |->
    LET c == (b[k] + 42) % 256
    IN  IF c \in {PAD, NUL, CR, LF} THEN <<PAD, (c + 64) % 256>> ELSE <<c>>])

(* The characters of octetbuff go to the text when it is full. *)
Flushed(d) == [d EXCEPT !.text = d.text \o d.buff, !.buff = <<>>]

Put(d, c) ==
  LET e == [d EXCEPT !.at = "char", !.buff = Append(d.buff, (c + 256 - 42) % 256)]
  IN  IF Len(e.buff) >= YBuffer THEN Flushed(e) ELSE e

YTurn(d, c) ==
  CASE d.at = "null" -> d
    [] d.at = "escape" -> Put(d, (c + 256 - 64) % 256)
    [] d.at = "char" /\ c = PAD -> [d EXCEPT !.at = "escape"]
    [] d.at = "char" /\ c = NUL -> [d EXCEPT !.at = "null"]
    [] d.at = "char" /\ c \in {CR, LF} -> d
    [] OTHER -> Put(d, c)

BYDecode(w) ==
  LET d == Flushed(FoldLeft(YTurn, [at |-> "char", buff |-> <<>>, text |-> <<>>], w))
  IN  [text |-> IF d.at = "char" THEN d.text ELSE NULL, flag |-> 0]

-----------------------------------------------------------------------------
(* Netstrings. *)

COLON == 58

COMMA == 44

Decimal[n \in Nat] ==
  IF n < 10 THEN <<48 + n>> ELSE Decimal[n \div 10] \o <<48 + (n % 10)>>

BStr2NetStr(b) == Decimal[Len(b)] \o <<COLON>> \o b \o <<COMMA>>

(* One digit of the length; -1 when it is none, or overflows an int. *)
Digit(x, c) ==
  LET v == c - 48
  IN  IF x = -1 \/ v \notin 0..9 \/ x > (IntMax - v) \div 10 THEN -1 ELSE x * 10 + v

(***************************************************************************)
(* Up to 11 digits, a colon, and as many characters as they say, none of   *)
(* them '\0', with a comma behind.  buff is a C string: a '\0' follows it. *)
(***************************************************************************)
BNetStr2Bstr(buff) ==
  LET i == CHOOSE j \in 0..11 :
             /\ j = 11 \/ At(buff, j + 1, NUL) = COLON
             /\ \A k \in 0..(j - 1) : At(buff, k + 1, NUL) # COLON
      x == FoldLeft(Digit, 0, [k \in 1..i |-> At(buff, k, NUL)])
  IN  [flag |-> 0,
       text |-> IF /\ x # -1 /\ At(buff, i + 1, NUL) = COLON
                   /\ \A k \in 1..(i + 2 + x) : At(buff, k, NUL) # NUL
                   /\ buff[i + x + 2] = COMMA
                THEN SubSeq(buff, i + 2, i + 1 + x) ELSE NULL]

-----------------------------------------------------------------------------
Codecs == {"base64", "uu", "yenc", "netstring"}

EncodedAs(c, t) ==
  CASE c = "base64"    -> BBase64Encode(t)
    [] c = "uu"        -> BUuEncode(t)
    [] c = "yenc"      -> BYEncode(t)
    [] c = "netstring" -> BStr2NetStr(t)

(* NULL where there is no room for all of the text. *)
WholeOrNull(d, room) ==
  IF d.text # NULL /\ room < Len(d.text) THEN [text |-> NULL, flag |-> 0] ELSE d

(* What a decoder that has room for so many characters may make of w: the  *)
(* first block it asks for may be refused already, unless nothing is.      *)
Decoded(c, w, room) ==
  {CASE c = "base64"    -> BBase64DecodeEx(w, room)
     [] c = "uu"        -> BUuDecodeEx(w, room)
     [] c = "yenc"      -> WholeOrNull(BYDecode(w), room)
     [] c = "netstring" -> WholeOrNull(BNetStr2Bstr(w), room)}
  \cup (IF room < IntMax THEN {[text |-> NULL, flag |-> 0]} ELSE {})

Undamaged == [kind |-> "none", at |-> 0, by |-> 0]

Nothing == [text |-> NULL, flag |-> 0, room |-> 0]

CodecsInit ==
  /\ codec \in Codecs /\ sent \in Texts
  /\ wire = <<>> /\ damage = Undamaged
  /\ got = Nothing /\ pc = "encode"

(* An encoder that runs out of memory returns NULL: nothing is sent. *)
Encode ==
  /\ pc = "encode"
  /\ wire' = EncodedAs(codec, sent)
  /\ pc' = "send"
  /\ UNCHANGED <<codec, sent, damage, got>>

Arrives(w, d) ==
  /\ pc = "send"
  /\ wire' = w /\ damage' = d /\ pc' = "decode"
  /\ UNCHANGED <<codec, sent, got>>

Delivered == Arrives(wire, Undamaged)

(* The rest is lost. *)
Cut ==
  \E k \in 0..(Len(wire) - 1) :
    Arrives(First(wire, k), [kind |-> "cut", at |-> k, by |-> 0])

Changed ==
  \E k \in DOMAIN wire, c \in Strays :
    /\ c # wire[k]
    /\ Arrives(ReplaceAt(wire, k, c), [kind |-> "changed", at |-> k - 1, by |-> c])

Inserted ==
  \E k \in 0..Len(wire), c \in Strays :
    Arrives(First(wire, k) \o <<c>> \o After(wire, k), [kind |-> "inserted", at |-> k, by |-> c])

(* Room for all there may be; or for less, of an encoding that is as it was. *)
Decode ==
  /\ pc = "decode"
  /\ \E room \in {IntMax} \cup (IF damage = Undamaged THEN 0..Len(sent) ELSE {}) :
       \E d \in Decoded(codec, wire, room) :
         got' = [text |-> d.text, flag |-> d.flag, room |-> room]
  /\ pc' = "done"
  /\ UNCHANGED <<codec, sent, wire, damage>>

CodecsNext == Encode \/ Delivered \/ Cut \/ Changed \/ Inserted \/ Decode

-----------------------------------------------------------------------------
(* Properties. *)

Granted == got.room = IntMax

(* How many characters are encoded together, whatever surrounds them, and  *)
(* the places where a text may be divided so that its parts are encoded as *)
(* they are in the whole.                                                  *)
Unit ==
  CASE codec = "base64" -> 3 [] codec = "uu" -> UuLine [] OTHER -> 1

Divisions == {n \in 0..Len(sent) : n % Unit = 0}

Sent(n) == EncodedAs(codec, First(sent, n))

SentWhole == Sent(Len(sent))

(***************************************************************************)
(* What a decoder has to bear: characters that are none of base64 (but not *)
(* between the two paddings), line ends in a yEnc encoding (but not behind *)
(* its "=") and between UU lines, anything behind a netstring.             *)
(***************************************************************************)
Borne ==
  \/ damage.kind = "none"
  \/ /\ damage.kind = "inserted"
     /\ CASE codec = "base64" ->
               /\ damage.by # PAD /\ Base64DecodeSymbol(damage.by) = -1
               /\ ~(/\ damage.at \in 1..(Len(SentWhole) - 1)
                    /\ SentWhole[damage.at] = PAD /\ SentWhole[damage.at + 1] = PAD)
          [] codec = "yenc" ->
               /\ damage.by \in {CR, LF}
               /\ ~(damage.at > 0 /\ SentWhole[damage.at] = PAD)
          [] codec = "uu" ->
               /\ damage.by \in {CR, LF}
               /\ \E n \in Divisions : damage.at = Len(Sent(n))
          [] codec = "netstring" -> damage.at = Len(SentWhole)

(***************************************************************************)
(* What was encoded is decoded to what it was, with no error, and so it is *)
(* where there is only something to pass over.  There are two exceptions:  *)
(* a netstring that holds a '\0' is taken for one that was cut, and a      *)
(* uuencoding of nothing but ends of lines is an error, though it decodes  *)
(* to the empty text.                                                      *)
(***************************************************************************)
ComesBack ==
  pc = "done" /\ Borne /\ Granted =>
    IF \/ codec = "netstring" /\ NUL \in ToSet(sent)
       \/ codec = "uu" /\ sent = <<>> /\ wire # <<>>
    THEN got.text = NULL
    ELSE got.text = sent /\ got.flag = 0

(***************************************************************************)
(* Damage stays where it is: what was sent in front of it is decoded as it *)
(* was, and what follows is too where the decoder finds its place again:   *)
(* at the next line for UU, unless it was the end of the line in front     *)
(* that was changed; for yEnc, after one more character.  (That the UU     *)
(* decoder returns NULL says that it could decode nothing.)                *)
(***************************************************************************)
Heard == IF codec = "uu" /\ got.text = NULL THEN <<>> ELSE got.text

BeforeDamage ==
  \A n \in Divisions :
    Len(Sent(n)) <= damage.at => IsPrefix(First(sent, n), Heard)

Reach == damage.at + (IF damage.kind = "changed" THEN 2 ELSE 1)

BehindDamage ==
  \A n \in Divisions :
    /\ codec \in {"uu", "yenc"} /\ damage.kind \in {"changed", "inserted"}
    /\ Len(Sent(n)) >= Reach
    => IsSuffix(After(sent, n), Heard)

(* A text that was cut is not passed off as whole: a netstring is refused, *)
(* base64 cut within a group is called truncated, and a UU line that was   *)
(* cut is counted unless only its end is missing.                          *)
CutIsNoticed ==
  CASE codec = "netstring" -> got.text = NULL
    [] codec = "base64"    ->
         /\ IsPrefix(got.text, sent)
         /\ got.flag = 0 =>
              \/ got.text = sent
              \/ Cardinality({k \in DOMAIN wire : wire[k] \notin {CR, LF}}) % 4 = 0
    [] codec = "uu" -> Heard \in {First(sent, n) : n \in Divisions \cup {Len(sent)}}
                         \/ got.flag = 1
    [] codec = "yenc" -> got.text = NULL \/ IsPrefix(got.text, sent)

(* Neither is one for which there was no memory.  UU is the exception: the *)
(* lines, or groups, that could be decoded are passed off as all there is. *)
LackIsNoticed ==
  \/ got.text = NULL
  \/ codec = "base64" /\ got.flag # 0 /\ IsPrefix(got.text, sent)
  \/ codec = "uu" /\ IsPrefix(got.text, sent)

(* Damage, a loss at the end and a lack of memory: none goes unnoticed or  *)
(* reaches further than it must.                                           *)
DamageIsContained ==
  pc = "done" =>
    /\ Granted /\ Heard # NULL /\ codec # "netstring" => BeforeDamage /\ BehindDamage
    /\ Granted /\ damage.kind = "cut" => CutIsNoticed
    /\ damage.kind = "none" /\ got.room < Len(sent) => LackIsNoticed

=============================================================================

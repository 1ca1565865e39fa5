--------------------------- MODULE MCBstrConversions ---------------------------
EXTENDS BstrConversions

(* Texts of up to seven bytes, enough for more than a line or a group:     *)
(* '\0', all bits, bytes yEnc escapes and others.  Damage by a character   *)
(* that is a code, ends a line, pads, separates, or is none.               *)
MCTexts ==
  UNION {[1..n -> {0, 77, 214, 255}] : n \in 0..3}
  \cup UNION {[1..n -> {19, 227}] : n \in {4, 7}}

MCStrays == {0, 13, 44, 61, 65, 126}

(* Bytes on both sides of every bound the code compares with, in texts of  *)
(* up to three, and whole encodings of four with one byte before or after; *)
(* code units and code points likewise.                                    *)
Of(chars, lens) == UNION {[1..n -> chars] : n \in lens}

MCUtf8s ==
  Of({65, 128, 191, 193, 195, 224, 237, 239, 240, 248}, 0..3)
  \cup {<<a, b, c, d>> : a \in {240, 244, 248}, b \in {128, 144, 191},
                         c \in {128, 191}, d \in {128, 191, 195}}
  \cup {<<a, 240, 144, b, c, d>> : a \in {65, 191}, b \in {128, 191},
                                   c \in {128, 191}, d \in {0, 128, 195}}

MCUnits == Of({65, 254, 2047, 55296, 56319, 56320, 57343, 65279, 65534, 65535}, 0..3)

MCPoints ==
  Of({-1, 0, 65, 127, 128, 255, 2047, 4095, 53248, 55296, 57343, 65533, 65534,
      65536, 258048, 1048576, 1114109, 1114112}, 0..2)

MCErrChars == {-1, 63, 128512}

MCLengths == {1, 2, 5}

=============================================================================

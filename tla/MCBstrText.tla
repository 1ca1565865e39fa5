------------------------------ MODULE MCBstrText ------------------------------
(* Texts with overlapping and differently cased occurrences, with words,   *)
(* with nothing and with characters to quote, in buffers with no byte to   *)
(* spare, with one, and with room, which an earlier text may have used.    *)
EXTENDS BstrText

MCStrings ==
  {[buf |-> t \o spare, slen |-> Len(t)] :
     t \in {<<1, 2, 11, 2, 1, 2>>, <<9, 1, 9, 9, 2, 9>>, <<6, 7, 1, 6>>, <<3>>},
     spare \in {<<>>, <<NUL>>, <<NUL>> \o Repeated(JUNK, 8),
               <<NUL, 3, 2, 3, NUL>> \o Repeated(JUNK, 4)}}
  \cup {[buf |-> <<NUL>>, slen |-> 0]}

MCTexts == {<<2>>, <<12, 1>>, <<3, 4, 3>>}

MCViews == {<<0, 2>>, <<2, 2>>, <<7, 2>>}

MCInts == {0, 1, 3, 8}

MCWidths == {0, 5, 10}

MCSgmlPairs == <<<<6, <<6, 1>>>>, <<7, <<6, 2>>>>>>

=============================================================================

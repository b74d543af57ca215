-------------------------- MODULE MCPathRewriters ---------------------------
(* A digit, zeros of one node, a digit that is no numeral, a unit of each  *)
(* kind, the separators, and another word; katakana that are unknown,      *)
(* short, neither, and such that no unknown word begins with.              *)
EXTENDS PathRewriters

Known(cats, norm, num) ==
  [cats |-> cats, norm |-> norm, num |-> num, oov |-> FALSE, len |-> Len(norm), bow |-> TRUE]

Arabic(ds) == Known({"NUMERIC"}, ds, TRUE)
Kanji(c)   == Known({"KANJINUMERIC"}, <<c>>, TRUE)
Name       == Known({"KANJINUMERIC"}, <<3>>, FALSE)
Sign(c)    == Known({}, <<c>>, FALSE)

OtherChar == 12

Kana(oov, len, bow) ==
  [cats |-> {"KATAKANA"}, norm |-> <<OtherChar>>, num |-> FALSE, oov |-> oov, len |-> len, bow |-> bow]

PathsUpTo(S, n) == UNION {[1..k -> S] : k \in 1..n}

Written == {Arabic(<<1>>), Arabic(<<0, 0, 0>>), Sign(Comma), Sign(Point), Sign(OtherChar)}

Numerals == {Arabic(<<0>>), Arabic(<<5>>), Kanji(-1), Kanji(-3), Kanji(-4), Kanji(-8), Sign(Point)}

Katakana == {Kana(TRUE, 3, TRUE), Kana(FALSE, 1, TRUE), Kana(FALSE, 2, TRUE),
             Kana(FALSE, 3, FALSE), Kana(TRUE, 2, FALSE)}

MCPaths == PathsUpTo(Written, 5)
  \cup PathsUpTo(Numerals, 4)
  \cup PathsUpTo({Arabic(<<1>>), Arabic(<<5>>), Kanji(-1), Kanji(-4), Sign(Point)}, 5)
  \cup PathsUpTo(Written \cup {Name, Kanji(-1), Kanji(-4)}, 4)
  \cup PathsUpTo(Katakana \cup {Sign(OtherChar), Arabic(<<1>>)}, 4)
  \cup PathsUpTo({Kana(TRUE, 3, TRUE), Kana(FALSE, 2, TRUE), Kana(FALSE, 3, FALSE), Sign(OtherChar)}, 5)
=============================================================================

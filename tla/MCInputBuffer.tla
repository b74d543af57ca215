---------------------------- MODULE MCInputBuffer ----------------------------
(* Instance of InputBuffer and its plugins for TLC: a one-byte letter, a   *)
(* two-byte letter of another script that shares a category with it and is *)
(* an upper case, a three-byte kanji; a sign whose NFKC form is longer, a  *)
(* kana of two characters that becomes one, prolonged sound marks, brackets.*)
EXTENDS InputTextPlugins

CONSTANTS a, b, k, sign, half, voiced, kana, mark, wave, left, right

MCChars == {a, b, k, sign, half, voiced, kana, mark, wave, left, right}

MCEncoding == [c \in MCChars |->
  IF c \in {a, left, right} THEN <<c>> ELSE IF c = b THEN <<c, Cont>> ELSE <<c, Cont, Cont>>]

MCCodePoint ==
  (a :> 10) @@ (b :> 12) @@ (k :> 13) @@ (left :> 2) @@ (right :> 3) @@ (wave :> 4)
    @@ (voiced :> 22) @@ (half :> 23) @@ (kana :> 24) @@ (mark :> 25) @@ (sign :> 30)

DefLine(first, last, types) == [codes |-> <<first, last>>, types |-> types]

(* Hiragana in front of the letters, two neighbours that share a category, *)
(* kana of two neighbouring lines, signs of one line and of another.       *)
MCCharDef ==
  <<DefLine(10, 12, {"ALPHA"}), DefLine(12, 13, {"KANJI"}), DefLine(2, 4, {"SYMBOL"}),
    DefLine(23, 24, {"KATAKANA"}), [codes |-> <<25>>, types |-> {"KATAKANA"}],
    DefLine(22, 22, {"SYMBOL"}), DefLine(30, 40, {"SYMBOL"})>>

MCLines ==
  [codes : {<<0>>, <<1>>, <<2>>, <<0, 1>>, <<1, 3>>, <<2, 4>>, <<3, 2>>, <<LastChar - 1>>},
   types : {{"KANJI"}, {"DEFAULT"}, {"ALPHA", "KANJI"}, {}}]
  \cup {DefLine(1, NotHex, {"KANJI"}), DefLine(1, 2, {"NAME"}), DefLine(1, 2, {NoColumn}),
        DefLine(4, LastChar, {"KANJI"}), DefLine(55000, 57343, {"KANJI"}), DefLine(55000, 55295, {"KANJI"})}

MCTriples ==
  [codes : {<<0>>, <<1>>, <<0, 1>>, <<1, 3>>}, types : {{"KANJI"}, {"DEFAULT"}, {}}]

MCDefinitions == UNION {[1 .. n -> MCLines] : n \in 0 .. 2} \cup [1 .. 3 -> MCTriples]

MCTexts == {Encoded(t) : t \in {
  << >>, <<b, k>>, <<a, b>>,
  <<half, voiced, b, wave, wave, mark>>,    \* a key of two characters, then marks
  <<kana, wave, wave, wave, mark>>,         \* nothing to normalize, nested keys
  <<sign, left, half, right, voiced>>,      \* a reading behind what NFKC makes of the sign
  <<k, left, kana, kana, right, mark>>,     \* a reading that is too long
  <<sign, sign, sign, sign>>,               \* grows beyond the limit
  <<k, k, k, k, k, k>>}}                    \* too long to begin with

MCConfigurations == {
  <<"foreign", "foreign">>, <<"default">>, <<"default", "yomigana">>,
  <<"default", "prolonged", "default">>, <<"prolonged", "yomigana", "default">>,
  <<"yomigana", "foreign", "default">>}

MCRewriteRules ==
  (<<half, voiced>> :> <<kana>>) @@ (<<wave>> :> <<mark>>) @@ (<<wave, wave>> :> <<mark, mark>>)

MCLowercase == (b :> <<a>>)

MCNfkc == [c \in MCChars |->
  CASE c = sign -> <<left, k, right>> [] c = half -> <<kana>> [] c = voiced -> <<a>> [] OTHER -> <<c>>]

MCForeignReplacements == {Encoded(t) : t \in {<< >>, <<a, b>>, <<k, k, k, k>>}}

MCReplacements == MCForeignReplacements \cup {Encoded(t) : t \in {
  <<a>>, <<kana>>, <<mark>>, <<mark, mark>>, <<left, k, right>>}}

AllUpper    == {b}
AllNotNfkc  == {sign, half, voiced}
AllMarks    == {mark, wave}
AllLeft     == {left}
AllRight    == {right}
AllIgnored  == {}
=============================================================================

----------------------------- MODULE MCDictionary -----------------------------
(* Instance of DictionaryBuilder for TLC.  Lexicons of a few rows, in the  *)
(* old and in the new layout: references by line, by key, by reference id  *)
(* and by normalized form, shared and unshared lists, phantoms, entries    *)
(* that are not indexed, homographs, rows that are refused; two user       *)
(* dictionaries that bring parts of speech of their own, and words whose   *)
(* cost is open.                                                           *)
EXTENDS DictionaryBuilder

Matrix(left, right, ok) == [left |-> left, right |-> right, ok |-> ok]
Plain == Matrix(3, 3, TRUE)

T(name, id) == [name |-> name, id |-> id]
NoIds(names) == [hasIds |-> FALSE, rows |-> [i \in DOMAIN names |-> T(names[i], 0)]]

K == <<"k">>
KY == <<"k", "y">>
KYT == <<"k", "y", "t">>
YT == <<"y", "t">>
TT == <<"t">>
LONG == <<"k", "y", "t", "o", "k", "y", "t">>

(* A row of the old layout; the function f changes or adds columns.        *)
RowWith(form, name, f) ==
  f @@ [INDEX_FORM |-> form, LEFT_ID |-> 1, RIGHT_ID |-> 1, COST |-> 10, READING_FORM |-> form,
        NORMALIZED_FORM |-> Empty, DICTIONARY_FORM |-> Empty, POS |-> name,
        SPLIT_A |-> << >>, SPLIT_B |-> << >>, WORD_STRUCTURE |-> << >>]

Row(form, name) == RowWith(form, name, << >>)

V0(rows) == [header |-> << >>, rows |-> rows]

NewHeader == Required \o SetToSeq(PosParts) \o
             <<"HEADWORD", "POS_ID", "REFERENCE_ID", "SPLIT_C", "SYNONYM_GROUPS", "USER_DATA">>
New(rows) == [header |-> NewHeader, rows |-> rows]

Key(form, name) == NamedKey(form, name, form, << >>)

OldSystem ==
  V0(<<Row(K, "N"), Row(YT, "V"),
       RowWith(KYT, "N", [SPLIT_A |-> <<Line(0, FALSE), Line(1, FALSE)>>,
                          SPLIT_B |-> <<Line(0, FALSE), Line(1, FALSE)>>,
                          WORD_STRUCTURE |-> <<Line(0, FALSE), Line(1, FALSE)>>,
                          DICTIONARY_FORM |-> Line(1, FALSE), NORMALIZED_FORM |-> Word(LONG)]),
       RowWith(K, "V", [LEFT_ID |-> -1, NORMALIZED_FORM |-> Star, DICTIONARY_FORM |-> Star]),
       RowWith(KY, "N", [NORMALIZED_FORM |-> Word(LONG), READING_FORM |-> LONG])>>)

NewSystemRows ==
  <<RowWith(K, "N", [REFERENCE_ID |-> <<"r">>]),
    RowWith(K, "N", [REFERENCE_ID |-> <<"q">>, COST |-> 20]),
    RowWith(TT, "V", [SYNONYM_GROUPS |-> <<1, 2>>, USER_DATA |-> TT]),
    RowWith(KYT, NoPos, [POS_ID |-> 0,
                         SPLIT_A |-> <<NamedKey(K, "N", K, <<"q">>), Key(TT, "V")>>,
                         SPLIT_B |-> <<Key(K, "N")>>,
                         SPLIT_C |-> <<NumberedKey(TT, 1, TT, << >>)>>,
                         WORD_STRUCTURE |-> <<Key(K, "N"), Key(K, "N"), Key(TT, "V")>>,
                         NORMALIZED_FORM |-> Star, HEADWORD |-> LONG]),
    RowWith(KY, "N", [NORMALIZED_FORM |-> Key(TT, "V"), DICTIONARY_FORM |-> Key(K, "N"),
                      SPLIT_C |-> <<Key(TT, "V")>>, SPLIT_B |-> <<Key(TT, "V")>>,
                      SPLIT_A |-> <<Key(TT, "V")>>])>>

(* The second row is refused: it refers to a line.                         *)
Broken == New(<<Row(YT, "X"), RowWith(TT, "Y", [DICTIONARY_FORM |-> Line(0, FALSE)]), Row(KY, "N")>>)

UserOne ==
  New(<<RowWith(K, "U", [COST |-> MinCost]),
        RowWith(LONG, "N", [SPLIT_A |-> <<Key(K, "U"), Key(YT, "V")>>, NORMALIZED_FORM |-> Word(YT)]),
        RowWith(YT, "W", [DICTIONARY_FORM |-> Key(K, "N"), NORMALIZED_FORM |-> Word(TT),
                          WORD_STRUCTURE |-> <<Key(K, "N")>>])>>)

UserTwo ==
  V0(<<RowWith(K, "W", [SPLIT_A |-> <<Line(1, FALSE), Line(1, TRUE)>>, DICTIONARY_FORM |-> Line(0, FALSE)]),
       RowWith(KY, "U", [COST |-> MinCost, NORMALIZED_FORM |-> Word(K)])>>)

MCSources ==
  {[reads |-> 1, signatures |-> {"s"}, matrices |-> {Plain}, tables |-> {NoIds(<<"N", "V">>)},
    lexicons |-> {OldSystem}, userLexicons |-> {UserOne, UserTwo}, plugins |-> {<< >>}],
   [reads |-> 2, signatures |-> {"s"}, matrices |-> {Plain, Matrix(1, 1, FALSE)},
    tables |-> {[hasIds |-> TRUE, rows |-> <<T("V", 1), T("N", 0)>>],
                [hasIds |-> TRUE, rows |-> <<T("V", 2), T("N", 0)>>], NoIds(<<"N", "N">>)},
    lexicons |-> {New(NewSystemRows), Broken}, userLexicons |-> {},
    plugins |-> {<< >>, <<"N", "P">>}],
   [reads |-> 2, signatures |-> {"s", ""}, matrices |-> {Plain}, tables |-> {},
    lexicons |-> {V0(<<Row(K, "N"), RowWith(YT, "V", [COST |-> MinCost])>>),
                  V0(<<Row(K \o LONG \o K, "N")>>)},
    userLexicons |-> {UserOne}, plugins |-> {<< >>, <<"U">>}]}

(* The same list, once with the reference id of its word and once without. *)
SpelledTwice ==
  New(<<RowWith(K, "N", [REFERENCE_ID |-> <<"r">>]), Row(TT, "N"),
        RowWith(KYT, "N", [SPLIT_A |-> <<Key(K, "N"), Key(TT, "N")>>,
                           SPLIT_B |-> <<NamedKey(K, "N", K, <<"r">>), Key(TT, "N")>>]),
        Row(KY, "N")>>)

MCSpelledTwice ==
  {[reads |-> 2, signatures |-> {"s"}, matrices |-> {Plain}, tables |-> {NoIds(<<"N", "V">>)},
    lexicons |-> {SpelledTwice, New(NewSystemRows)}, userLexicons |-> {UserTwo},
    plugins |-> {<< >>}]}
=============================================================================

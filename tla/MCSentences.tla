---------------------------- MODULE MCSentences ----------------------------
(* From a text to the best path of its sentences: SentenceSplitter cuts a  *)
(* text, and LatticeBuilder, with Lattice, analyses sentences one after    *)
(* the other.                                                              *)
EXTENDS LatticeBuilder, SentenceSplitter

-----------------------------------------------------------------------------
(* The builder: two connection ids and words that differ in ids and costs, *)
(* so that greedy and optimal paths differ, and ties; texts of letters (no *)
(* word begins inside), digits of two categories, ideographs, and a        *)
(* character on which no unknown word begins; dictionaries with shared     *)
(* prefixes, an entry that is not indexed and a phantom.                   *)
MCIds == {0, 1}

MCConn == [r \in MCIds |-> [l \in MCIds |-> IF r = l THEN 1 ELSE IF r = 0 THEN 0 ELSE -2]]

Plain == [left |-> 0, right |-> 0, cost |-> 1]
Other == [left |-> 1, right |-> 1, cost |-> 1]
Mixed == [left |-> 0, right |-> 1, cost |-> 3]
Dear == [left |-> 1, right |-> 0, cost |-> 2]

MCWords == {Plain, Other, Mixed, Dear}

MCCatsOf == [a |-> {"ALPHA"}, k |-> {"KANJI"}, d |-> {"NUMERIC", "ALPHA"},
             n |-> {"KANJI", "NUMERIC"}, x |-> {"NOOOVBOW"}, y |-> {"KANJI", "NOOVEOW"}]

MCCatOrder == <<"KANJI", "NUMERIC", "ALPHA", "NOOOVBOW", "NOOVEOW">>

MCTexts == {<<"k">>, <<"x">>, <<"a", "a">>, <<"k", "n", "d">>, <<"a", "d", "a">>,
            <<"k", "x", "k">>, <<"y", "k", "k">>, <<"k", "k", "a", "a">>,
            <<"n", "n", "n", "n">>, <<"d", "a", "k", "x">>}

Hidden == [left |-> -1, right |-> -1, cost |-> 0]

Added(id, form, word) == [id |-> id, form |-> form, word |-> word]

SystemDictionary ==
  <<Added(2, <<"k">>, Plain), Added(4, <<"k", "k">>, Mixed), Added(7, <<"a">>, Other),
    Added(9, <<"k">>, Other), Added(11, <<"k", "n">>, Hidden), Added(12, << >>, Hidden),
    Added(14, <<"k", "k", "a">>, Plain), Added(15, <<"n", "d">>, Dear),
    Added(17, <<"a", "a">>, Dear), Added(19, <<"k">>, Dear)>>

UserDictionary ==
  <<Added(2, <<"k", "x">>, Mixed), Added(5, <<"k">>, Mixed), Added(6, <<"a", "d", "a">>, Plain),
    Added(8, <<"n", "n">>, Other)>>

Runs ==
  [kind |-> "mecab",
   categories |-> [KANJI |-> [invoke |-> FALSE, group |-> FALSE, length |-> 2],
                   NUMERIC |-> [invoke |-> TRUE, group |-> TRUE, length |-> 3],
                   ALPHA |-> [invoke |-> TRUE, group |-> TRUE, length |-> 0]],
   oovs |-> [KANJI |-> <<Mixed, Dear>>, NUMERIC |-> <<Other>>]]

OneWord == [kind |-> "simple", word |-> Other]

Pattern(strict, loose, debug) ==
  [kind |-> "regex", strict |-> strict, loose |-> loose, debug |-> debug,
   maxLength |-> 3, of |-> {"a", "d", "n"}, word |-> Plain]

Setup(dictionaries, providers, pipelined) ==
  [dictionaries |-> dictionaries, providers |-> providers, pipelined |-> pipelined]

MCSetups ==
  {Setup(<<SystemDictionary, UserDictionary>>, <<Runs, OneWord>>, TRUE),
   Setup(<<SystemDictionary, UserDictionary>>, <<Pattern(TRUE, FALSE, FALSE), OneWord>>, TRUE),
   Setup(<<SystemDictionary>>, <<Pattern(FALSE, TRUE, FALSE), Runs, OneWord>>, FALSE),
   Setup(<<SystemDictionary, UserDictionary>>, <<Runs, Pattern(FALSE, TRUE, TRUE)>>, FALSE)}

-----------------------------------------------------------------------------
(* The splitter: short texts over all kinds of characters, longer ones     *)
(* over a few; and texts with words of a checker behind a small limit.     *)
SeqsUpTo(S, n) == UNION {[1..k -> S] : k \in 0..n}

AllKinds == {"x", "to", "desu", "no", "alnum", "dot", "comma", "period",
             "mark", "open", "close", "quote", "cdot", "br", "space"}

SplitTexts == SeqsUpTo(AllKinds, 3)
  \cup SeqsUpTo({"x", "to", "alnum", "dot", "period", "mark", "open", "close"}, 4)
  \cup SeqsUpTo({"x", "period", "cdot", "br", "comma"}, 5)

CheckerTexts == SeqsUpTo({"x", "to", "mark", "period", "space", "open", "close"}, 5)

MCLexicons ==
  << {<<"period">>, <<"to", "mark", "x">>}, {<<"x", "period">>, <<"period", "to", "to">>} >>

MCInputs ==
  [text : SplitTexts, limit : {6}, checker : {FALSE}]
    \cup [text : CheckerTexts, limit : {3}, checker : {TRUE}]

-----------------------------------------------------------------------------
(* One of the two at a time: a text is split, and the caller has what it   *)
(* asked for when there is no sentence left; or there is nothing to split, *)
(* and the builder gets sentences for ever.                                *)
NoText == [text |-> << >>, limit |-> 1, checker |-> FALSE]

NothingToSplit ==
  /\ given = NoText /\ position = 0 /\ index = 0 /\ level = 0 /\ rv = 0
  /\ sentences = << >> /\ pc = "done"

SentencesInit ==
  /\ BInit
  /\ \/ SplitInit /\ setup = CHOOSE s \in Setups : TRUE
     \/ NothingToSplit

SplitOn == SplitNext /\ UNCHANGED <<vars, bvars>>

IsSplit == given # NoText /\ pc = "done" /\ UNCHANGED <<vars, bvars, splitVars>>

SentencesNext ==
  \/ SplitOn \/ IsSplit
  \/ given = NoText /\ BNext /\ UNCHANGED splitVars

SentencesSpec ==
  /\ SentencesInit /\ [][SentencesNext]_<<vars, bvars, splitVars>>
  /\ WF_<<vars, bvars, splitVars>>(SplitOn)
=============================================================================

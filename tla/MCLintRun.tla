----------------------------- MODULE MCLintRun -----------------------------
(* Instance of LintRun for TLC: two files; texts with duplicates of both   *)
(* kinds, a word rule and a finding about the whole text; a configuration  *)
(* that excludes; reports of odd shapes; at most two runs.                 *)
EXTENDS LintRun

Hit(name, id, line, head, severity, span, related) ==
  [category |-> <<name, id>>, line |-> line, head |-> head,
   severity |-> severity, span |-> span, related |-> related]

Preview  == Hit("repeated_explanation_preview", NoId, 2, "p", "info",
                <<20, 29>>, {20, 30})
Template == Hit("repeated_syntax_template", NoId, 3, "q", "info", <<30, 34>>, {})
Morph    == Hit("inanimate_subject_morph", NoId, 1, "m", "warn", <<11, 14>>, {})
Surface  == Hit("english_syntax_inanimate_subject", NoId, 1, "s", "warn",
                <<10, 15>>, {})
Phrase   == Hit("forbidden_phrase", NoId, 2, "p", "critical", <<22, 24>>, {})
Bold     == Hit("bullet_bold_label", NoId, 1, "m", "info", NoSpan, {})
Whole(h) == Hit("antithesis_repetition", NoId, 1, h, "warn", NoSpan, {})
Rule     == Hit("custom_wording", "w1", 1, "m", "info", <<11, 12>>, {})
Long     == Hit("sentence_too_long", NoId, 1, "s", "info", <<10, 19>>, {})

Text(hits, load) == [readable |-> TRUE, hits |-> hits, load |-> load]
MCTexts ==
  {Text(<<Surface, Morph, Whole("s")>>, <<Long>>),
   Text(<<Whole("m"), Phrase, Phrase, Rule, Bold>>, << >>),
   Text(<<Template, Preview>>, << >>), Text(<< >>, <<Long>>),
   [readable |-> FALSE, hits |-> << >>, load |-> << >>]}

MCConfig == [NoConfig EXCEPT !.given = TRUE]
MCConfigs ==
  {[MCConfig EXCEPT !.wordRules = {"w1"}, !.genre = "tech"],
   [MCConfig EXCEPT !.disabled = {"inanimate_subject_morph"},
      !.allow = {[name |-> "forbidden_phrase", rule |-> NoId, text |-> "p"]}],
   [MCConfig EXCEPT !.valid = FALSE]}

Command(files, genre, exp, failOn, noConfig, baseline, load) ==
  [files |-> files, genre |-> genre, experimental |-> exp,
   failOn |-> failOn, noConfig |-> noConfig, baseline |-> baseline,
   readingLoad |-> load]
MCCommands ==
  {Command(<<"a", "b">>, "none", FALSE, "warn", FALSE, TRUE, TRUE),
   Command(<<"a">>, "tech", TRUE, "info", FALSE, FALSE, TRUE),
   Command(<<"a">>, "none", TRUE, NoThreshold, TRUE, TRUE, FALSE),
   Command(<<"b", "a">>, "none", FALSE, NoThreshold, FALSE, FALSE, FALSE)}

Record(file, version, genre, hasFindings, found) ==
  [file |-> file, version |-> version, genre |-> genre,
   experimental |-> FALSE, hasFindings |-> hasFindings, findings |-> found,
   origin |-> << >>]
Found(h) == [category |-> h.category, head |-> h.head]
MCOddReports ==
  {[shape |-> "garbage", records |-> << >>],
   [shape |-> "other", records |-> << >>],
   [shape |-> "records",
    records |-> <<Record("a", "none", "tech", TRUE,
                         <<Malformed, Found(Phrase), Found(Phrase)>>)>>],
   [shape |-> "records",
    records |-> <<Record("a", "old", "none", TRUE, << >>),
                  Record("b", "none", "tech", FALSE, << >>),
                  Record("a", "none", "tech", TRUE, <<Found(Rule)>>)>>]}

MCCategories ==
  {h.category : h \in UNION {ToSet(t.hits \o t.load) : t \in MCTexts}}
MCCategoryOnly == {<<"antithesis_repetition", NoId>>}
=============================================================================

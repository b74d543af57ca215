----------------------------- MODULE LintReport -----------------------------
(***************************************************************************)
(* What becomes of the findings of one text: the detectors a run uses, the *)
(* filters of analyze_with_thresholds in their order, the exclusions of    *)
(* the configuration, and the comparison of what is left with an earlier   *)
(* report.  A text is the sequence of everything any detector can say      *)
(* about it; a detector's own analysis is not modelled.                    *)
(* A category is <<name, id>>: the id of a project's word rule, or NoId.   *)
(***************************************************************************)
EXTENDS Integers, Sequences, FiniteSets, SequencesExt, FiniteSetsExt

NoSpan == << >>
NoId == ""

Genres == {"none", "tech", "essay", "business"}
Severity == [info |-> 1, warn |-> 2, critical |-> 3]
NoThreshold == "none"

(* retain: what stands at the positions is, in its order.                  *)
Kept(fs, is) ==
  [n \in 1 .. Cardinality(is) |->
     fs[CHOOSE i \in is : Cardinality({j \in is : j < i}) = n - 1]]

(* sort_by_key by line: findings of one line keep their order.             *)
Before(fs, i, j) ==
  fs[i].line < fs[j].line \/ (fs[i].line = fs[j].line /\ i < j)

ByLine(fs) ==
  [n \in 1 .. Len(fs) |->
     fs[CHOOSE i \in DOMAIN fs :
          Cardinality({j \in DOMAIN fs : Before(fs, j, i)}) = n - 1]]

Named(f) == f.category[1]
WithNames(names, f) == Named(f) \in names
-----------------------------------------------------------------------------
EXPERIMENTAL_CATEGORIES ==
  {"copy_fragment", "boilerplate_closing", "consecutive_nominal_endings",
   "declared_item_count_mismatch", "decision_direction_metaphor",
   "high_length_autocorrelation", "paragraph_lead_conjunction",
   "repeated_syntax_template", "english_syntax_cleft_because",
   "high_bold_density", "high_bullet_ratio", "boilerplate_heading",
   "numbered_phase_structure", "high_emoji_symbol_density",
   "demonstrative_reference", "mixed_latin_spacing", "negative_listing",
   "repeated_explanation_preview", "repeated_sentence_mode",
   "respectively_scope", "self_labeling_repetition", "short_object_comma",
   "short_topic_comma", "technical_jargon_metaphor",
   "uniform_bullet_structure", "low_lexical_diversity_ttr",
   "low_lexical_diversity_mtld", "repeated_sentence_lead",
   "vague_sensory_term"}

StructureCategories ==
  {"high_bullet_ratio", "high_bold_density", "boilerplate_heading",
   "numbered_phase_structure", "bullet_bold_label", "bullet_emoji"}

(* The groups of detectors that run under a condition only.                *)
Detects(f, genre, experimental) ==
  /\ WithNames({"mixed_latin_spacing", "boilerplate_closing",
                "declared_item_count_mismatch", "short_topic_comma",
                "short_object_comma", "decision_direction_metaphor",
                "vague_sensory_term", "copy_fragment"}, f) => experimental
  /\ WithNames({"uniform_bullet_structure"}, f)
       => experimental /\ genre = "essay"
  /\ WithNames({"repeated_distinction", "repeated_em_dash"}, f)
       => genre = "tech"
  /\ WithNames({"repeated_explanation_preview", "demonstrative_reference",
                "respectively_scope", "technical_jargon_metaphor"}, f)
       => experimental /\ genre = "tech"
  /\ ~WithNames({"custom_wording"}, f)

(* A 4-gram that starts where a repeated explanation was pointed at        *)
(* (preview_starts) says less than that finding.                           *)
SaysLess(f, fs) ==
  /\ Named(f) = "repeated_syntax_template" /\ f.span # NoSpan
  /\ \E g \in fs : /\ Named(g) = "repeated_explanation_preview"
                   /\ f.span[1] \in g.related

SpanContains(outer, inner) == outer[1] <= inner[1] /\ outer[2] >= inner[2]

(* suppress_surface_inanimate_duplicates                                   *)
IsSurfaceDuplicate(f, fs) ==
  /\ Named(f) = "english_syntax_inanimate_subject" /\ f.span # NoSpan
  /\ \E g \in fs :
       /\ Named(g) = "inanimate_subject_morph" /\ g.span # NoSpan
       /\ SpanContains(f.span, g.span) \/ SpanContains(g.span, f.span)

Bug_DemotesMorph(f, genre, experimental) ==
  WithNames(EXPERIMENTAL_CATEGORIES \cup {"inanimate_subject_morph"}, f)
    => experimental

(* The filters that depend on the options of the run only.                 *)
Wanted(f, genre, experimental) ==
  /\ WithNames(EXPERIMENTAL_CATEGORIES, f) => experimental
  /\ WithNames(StructureCategories, f) => genre # "business"

(* The filters in the order of the code.                                   *)
At(fs, is) == {fs[i] : i \in is}
Detected(text, genre, experimental) ==
  {i \in DOMAIN text : Detects(text[i], genre, experimental)}
Concrete(text, is) == {i \in is : ~SaysLess(text[i], At(text, is))}
Single(text, is) == {i \in is : ~IsSurfaceDuplicate(text[i], At(text, is))}
Passing(text, genre, experimental) ==
  {i \in Single(text, Concrete(text, Detected(text, genre, experimental))) :
     Wanted(text[i], genre, experimental)}

Analyze(text, genre, experimental) ==
  ByLine(Kept(text, Passing(text, genre, experimental)))
-----------------------------------------------------------------------------
(* The configuration, or NoConfig when none was found or read ("given"):   *)
(* disabled names, allowances and word rules.                              *)

NoConfig == [given |-> FALSE, valid |-> TRUE, genre |-> "none", failOn |-> NoThreshold,
             disabled |-> {}, allow |-> {}, wordRules |-> {}]

(* Allowance: a name, a word rule or NoId, and a text of the excerpt.      *)
Allows(a, f) ==
  /\ a.name = Named(f) /\ (a.rule = NoId \/ a.rule = f.category[2])
  /\ a.text = f.head

Suppresses(config, f) ==
  Named(f) \in config.disabled \/ \E a \in config.allow : Allows(a, f)

WordRuleFindings(text, config) ==
  Kept(text, {i \in DOMAIN text : /\ Named(text[i]) = "custom_wording"
                                 /\ text[i].category[2] \in config.wordRules})

(* Config::suppresses over a list of findings.                             *)
Allowed(fs, config) == Kept(fs, {i \in DOMAIN fs : ~Suppresses(config, fs[i])})

(* stats: how many findings a list has, and how many of each name.         *)
Counts(fs) ==
  [total |-> Len(fs),
   byCategory |-> [name \in {Named(fs[i]) : i \in DOMAIN fs} |->
                     Cardinality({i \in DOMAIN fs : Named(fs[i]) = name})]]

(* A report as a detector returns it: its findings, counted.               *)
Counted(fs) == [findings |-> fs, stats |-> Counts(fs)]

(* Findings of the project's word rules come in; the counts stay.          *)
WithWordRules(report, text, config) ==
  [report EXCEPT !.findings = ByLine(@ \o WordRuleFindings(text, config))]

Bug_CountsStay(report, config) ==
  [report EXCEPT !.findings = Allowed(@, config)]

(* apply_config, apply_reading_load_config: what is left is counted anew.  *)
Configured(report, config) == Counted(Allowed(report.findings, config))

(* The report of a file that the run prints, compares and judges.  Without *)
(* a configuration it stays as analyze returned it.                        *)
Report(text, config, genre, experimental) ==
  LET report == Counted(Analyze(text, genre, experimental))
  IN  IF config.given
      THEN Configured(WithWordRules(report, text, config), config)
      ELSE report

Reaches(f, threshold) ==
  threshold # NoThreshold /\ Severity[f.severity] >= Severity[threshold]
-----------------------------------------------------------------------------
(***************************************************************************)
(* apply_baseline: the findings of one file against the findings an        *)
(* earlier report has of it.  Earlier findings lie in buckets by key; each *)
(* finding of today takes the first one that is left in its bucket.        *)
(***************************************************************************)
CONSTANTS
  Categories,
  CategoryOnly, (* the categories compared without their excerpt           *)
  Heads,        (* what counts of an excerpt: its first 20 characters that *)
                (* are not white space                                     *)
  Malformed     (* an entry of the report without category or excerpt      *)

ASSUME BaselineAssumption ==
  /\ CategoryOnly \subseteq Categories
  /\ Malformed \notin [category : Categories, head : Heads]

Finding == [category : Categories, head : Heads]

VARIABLES
  entries,  (* the "findings" array of the earlier record                  *)
  findings, (* today's findings, in the order of the report                *)
  left,     (* the buckets: for each key the entries not taken yet         *)
  status,   (* what each finding compared so far is: "new", "persisting"   *)
  pc        (* "compare", "done"                                           *)

-----------------------------------------------------------------------------
(* baseline_key: a finding is recognised by its category and the start of  *)
(* its excerpt, one of a whole document by its category.                   *)
Key(f) ==
  <<f.category, IF f.category \in CategoryOnly THEN {} ELSE {f.head}>>

Keys == {Key(f) : f \in Finding}

Bug_SkipsLast(es) == {j \in DOMAIN es : es[j] # Malformed /\ j < Len(es)}

Usable(es) == {j \in DOMAIN es : es[j] # Malformed}

(* The positions in es of the entries with key k: what the bucket holds.   *)
Bucket(es, k) == {j \in Usable(es) : Key(es[j]) = k}

First(js) == CHOOSE j \in js : \A i \in js : j <= i

Bug_TakesLast(js) == js \ {CHOOSE j \in js : \A i \in js : i <= j}

(* bucket.remove(0)                                                        *)
WithoutFirst(js) == js \ {First(js)}
-----------------------------------------------------------------------------
Buckets(es) == [k \in Keys |-> Bucket(es, k)]

Current == findings[Len(status) + 1]

Persists ==
  /\ pc = "compare" /\ Len(status) < Len(findings)
  /\ left[Key(Current)] # {}
  /\ left' = [left EXCEPT ![Key(Current)] = WithoutFirst(@)]
  /\ status' = Append(status, "persisting")
  /\ UNCHANGED <<entries, findings, pc>>

IsNew ==
  /\ pc = "compare" /\ Len(status) < Len(findings)
  /\ left[Key(Current)] = {}
  /\ status' = Append(status, "new")
  /\ UNCHANGED <<entries, findings, left, pc>>

Summarize ==
  /\ pc = "compare" /\ Len(status) = Len(findings)
  /\ pc' = "done"
  /\ UNCHANGED <<entries, findings, left, status>>

Next == Persists \/ IsNew \/ Summarize
-----------------------------------------------------------------------------
(* The report: what is left is resolved, the rest is counted by status.    *)

Resolved == UNION {left[k] : k \in Keys}
WithStatus(s) == {i \in DOMAIN status : status[i] = s}

(* What the comparison calls the same finding, stated without the keys.    *)
SameFinding(f, g) ==
  f.category = g.category /\ (f.category \in CategoryOnly \/ f.head = g.head)

FindingsLike(f, is) == {i \in is : SameFinding(findings[i], f)}
EntriesLike(f, js) ==
  {j \in js : entries[j] # Malformed /\ SameFinding(entries[j], f)}

(* Nothing is lost or counted twice: at every moment of apply_baseline     *)
(* each usable entry of the earlier report is either still in its bucket   *)
(* or stands behind one persisting finding that is the same.               *)
EntriesConserved ==
  \A f \in Finding :
    Cardinality(EntriesLike(f, Resolved))
      + Cardinality(FindingsLike(f, WithStatus("persisting")))
        = Cardinality(EntriesLike(f, DOMAIN entries))

(* A finding is called new only when every entry that is the same has been *)
(* recognised: the report never shows one finding as new and as resolved.  *)
NeverNewAndResolved ==
  \A i \in WithStatus("new"), j \in Resolved :
    ~SameFinding(findings[i], entries[j])

(* Moving text about changes nothing: apply_baseline calls the findings of *)
(* the earlier report, in any other order, all persisting.                 *)
SameAsBefore ==
  \A f \in Finding : Cardinality(FindingsLike(f, DOMAIN findings))
                       = Cardinality(EntriesLike(f, DOMAIN entries))
OrderDoesNotMatter ==
  pc = "done" /\ SameAsBefore => Resolved = {} /\ WithStatus("new") = {}

(* Of several entries that are the same the later ones are resolved: a     *)
(* persisting finding takes the first of them (bucket.remove(0)).          *)
EarlierEntriesFirst ==
  \A j \in Resolved, i \in DOMAIN entries \ Resolved :
    entries[i] # Malformed /\ SameFinding(entries[i], entries[j]) => i < j

(* apply_baseline compares one to one and as bags: nothing is lost,        *)
(* counted twice or told as two things, the order of the findings says     *)
(* nothing, and of equal entries the first is the one that persists.       *)
BaselineIsAnswered ==
  /\ EntriesConserved /\ NeverNewAndResolved
  /\ OrderDoesNotMatter /\ EarlierEntriesFirst
=============================================================================

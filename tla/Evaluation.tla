----------------------------- MODULE Evaluation -----------------------------
(***************************************************************************)
(* What the evaluations compute from a corpus: a document has been through *)
(* the detectors and is known by its label, its split, its genre, its      *)
(* length and how often the rule in question fires in it, by threshold.    *)
(***************************************************************************)
EXTENDS Integers, Sequences, FiniteSets, FiniteSetsExt, SequencesExt, Selections

CONSTANTS
  Corpora,      (* what a corpus can be: documents, external documents,    *)
                (* labelled samples; "default" is a threshold of documents *)
  Commands,     (* the commands with their arguments                       *)
  Accepted,     (* the thresholds that are in the range of the rule        *)
  Terms,        (* dictionary forms, numbers in their order                *)
  Known,        (* those in the lists of phrases                           *)
  MIN_SAMPLES,  (* fewer documents of a label are too few                  *)
  ShortEnd, MediumEnd,  (* where the buckets of length end                 *)
  MinDocuments, (* documents of AI a candidate term is in, at least        *)
  MinRatio,     (* how much more frequent it is there, at least            *)
  MaxCandidates (* how many of them are shown                              *)

Documents ==
  [label : {"human", "ai"}, split : {"dev", "holdout"}, genre : STRING, chars : Nat,
   prefixed : BOOLEAN, terms : [Terms -> Nat], fires : [Accepted \cup {"default"} -> Nat]]

ASSUME CorporaAreLists ==
  \A c \in Corpora : c.documents \in Seq(Documents) /\ c.external \in Seq(Documents)
ASSUME ValuesAreLists ==
  \A c \in Commands : c.name = "calibrate" => c.values \in Seq(STRING) /\ c.limit \in 0 .. 10

VARIABLES
  documents,    (* of corpus.toml                                          *)
  external,     (* that --external adds                                    *)
  samples,
  out           (* what was printed                                        *)

evaluationVars == <<documents, external, samples, out>>
-----------------------------------------------------------------------------
(* Sums over the positions of a sequence. *)
Total(f(_), seq) == MapThenSumSet(LAMBDA i : f(seq[i]), DOMAIN seq)
Number(Test(_), seq) == Cardinality({i \in DOMAIN seq : Test(seq[i])})

Bug_AllSplits(docs, split) == docs

OfSplit(docs, split) ==
  IF split = "all" THEN docs ELSE Chosen(docs, {i \in DOMAIN docs : docs[i].split = split})

(* evaluate: a report for every document of the split.                     *)
Evaluate(docs, threshold, split) ==
  LET of == OfSplit(docs, split)
  IN [i \in DOMAIN of |->
        [label |-> of[i].label, genre |-> of[i].genre, chars |-> of[i].chars,
         findings |-> of[i].fires[threshold]]]

OfLabel(reports, label) == Chosen(reports, {i \in DOMAIN reports : reports[i].label = label})

(* label_totals                                                            *)
LabelTotal(reports, label) == Len(OfLabel(reports, label))

(* category_counts for the rule: by_category has it only where it fired.   *)
Fires(reports, label) ==
  LET of == OfLabel(reports, label)
  IN Cardinality({i \in DOMAIN of : of[i].findings > 0})
CategoryCounts(reports, label) ==
  [documents |-> Fires(reports, label),
   findings  |-> Total(LAMBDA r : r.findings, OfLabel(reports, label))]

(* counts_line                                                             *)
Counts(reports) ==
  [label \in {"human", "ai"} |->
     [counts |-> CategoryCounts(reports, label), total |-> LabelTotal(reports, label)]]

(* The upper end of the Wilson interval (z = 1.96) is at most limit tenths,*)
(* with the square root multiplied out; without documents it is 1.         *)
UpperAtMost(fired, total, limit) ==
  IF total = 0 THEN limit = 10
  ELSE /\ 10 * fired <= limit * total
       /\ 10000 * (limit * total - 10 * fired) * (limit * total - 10 * fired)
            >= 38416 * total * limit * (10 - limit)
-----------------------------------------------------------------------------
(* sweep: the counts of each threshold over the development split.         *)
Sweep(docs, values) ==
  [i \in DOMAIN values |-> Counts(Evaluate(docs, values[i], "dev"))]

OutOfRange(values) == \E i \in DOMAIN values : values[i] \notin Accepted

(* A threshold out of range anywhere in the list is an error.              *)
SweepOf(c) ==
  IF OutOfRange(c.values) THEN [kind |-> "error"]
  ELSE [kind |-> "sweep", command |-> c, lines |-> Sweep(documents, c.values)]

Candidates(docs, values, limit) ==
  [i \in DOMAIN values |->
     LET reports == Evaluate(docs, values[i], "dev")
     IN [value     |-> values[i],
         detection |-> Fires(reports, "ai"),
         feasible  |-> UpperAtMost(Fires(reports, "human"), LabelTotal(reports, "human"), limit)]]

Feasible(cs) == {i \in DOMAIN cs : cs[i].feasible}
NoCandidate == [value |-> "none", detection |-> 0, feasible |-> FALSE]

Bug_BestOfAll(cs) ==
  IF cs = << >> THEN NoCandidate
  ELSE cs[Max({i \in DOMAIN cs :
                 \A j \in DOMAIN cs : cs[j].detection <= cs[i].detection})]

(* max_by: of several greatest elements the last.  All candidates have the *)
(* same documents, so the rate is as great as the number.                  *)
Best(cs) ==
  IF Feasible(cs) = {} THEN NoCandidate
  ELSE cs[Max({i \in Feasible(cs) :
                 \A j \in Feasible(cs) : cs[j].detection <= cs[i].detection})]

(* The documents calibrate and vocab begin with.                           *)
DocumentsOf(c) ==
  LET docs == documents \o IF c.external THEN external ELSE << >>
  IN Chosen(docs, {i \in DOMAIN docs : ~ (c.exclude /\ docs[i].prefixed)})

(* calibrate                                                               *)
Calibrate(docs, c) ==
  IF OutOfRange(c.values)
  THEN [kind |-> "error"]
  ELSE LET reports == Evaluate(docs, "default", "dev")
       IN [kind   |-> "calibrate", command |-> c,
           best   |-> Best(Candidates(docs, c.values, c.limit)),
           usable |-> \A label \in {"human", "ai"} :
                        LabelTotal(reports, label) >= MIN_SAMPLES]
-----------------------------------------------------------------------------
(* report: everything, and again genre by genre.                           *)
Report(docs, split) ==
  LET reports == Evaluate(docs, "default", split)
      genres  == {reports[i].genre : i \in DOMAIN reports}
  IN [kind |-> "report", all |-> Counts(reports),
      genres |-> [g \in genres |->
                    Counts(SelectSeq(reports, LAMBDA r : r.genre = g))]]

Bug_IncludesEnd(chars) ==
  {n \in 1..3 : <<chars <= ShortEnd, chars >= ShortEnd /\ chars < MediumEnd,
                  chars >= MediumEnd>>[n]}

(* length_analysis: the buckets a length falls into.                       *)
Buckets(chars) ==
  {n \in 1..3 : <<chars < ShortEnd, chars >= ShortEnd /\ chars < MediumEnd,
                  chars >= MediumEnd>>[n]}

LengthAnalysis(docs) ==
  LET reports == Evaluate(docs, "default", "all")
  IN [kind |-> "lengths",
      buckets |-> [n \in 1..3 |->
        Counts(SelectSeq(reports, LAMBDA r : n \in Buckets(r.chars)))]]

Fired(s) == s.findings > 0

IsMismatch(s) == (s.expect = "fire") # Fired(s)

(* labeled: counts by category and the samples that are not as expected.   *)
Labeled(ss) ==
  LET rates(c) ==
        LET of(e) == SelectSeq(ss, LAMBDA s : s.category = c /\ s.expect = e)
        IN [fire_total   |-> Len(of("fire")),   fire_hit     |-> Number(Fired, of("fire")),
            silent_total |-> Len(of("silent")), silent_fired |-> Number(Fired, of("silent"))]
  IN IF ss = << >> THEN [kind |-> "error"]
     ELSE [kind |-> "labeled", mismatches |-> SelectSeq(ss, IsMismatch),
           categories |-> [c \in {ss[i].category : i \in DOMAIN ss} |-> rates(c)]]
-----------------------------------------------------------------------------
(* vocab: a side has the terms of its documents.                           *)
Occurrences(side, t) == Total(LAMBDA d : d.terms[t], side)
DocumentsWith(side, t) == Number(LAMBDA d : d.terms[t] > 0, side)
Chars(side) == LET n == Total(LAMBDA d : d.chars, side) IN IF n = 0 THEN 1 ELSE n

(* How much more frequent a term is in the documents of AI, half an        *)
(* occurrence added to both sides: a fraction.                             *)
Over(ai, human, t)  == (2 * Occurrences(ai, t) + 1) * Chars(human)
Under(ai, human, t) == (2 * Occurrences(human, t) + 1) * Chars(ai)

Qualifies(ai, human, t) ==
  /\ DocumentsWith(ai, t) >= MinDocuments /\ t \notin Known
  /\ Over(ai, human, t) >= MinRatio * Under(ai, human, t)

(* The sort is stable and the terms come in their order.                   *)
Ahead(ai, human, t, u) ==
  LET l == Over(ai, human, t) * Under(ai, human, u)
      r == Over(ai, human, u) * Under(ai, human, t)
  IN l > r \/ (l = r /\ t < u)

CandidateTerms(dev) ==
  LET human == OfLabel(dev, "human")
      ai    == OfLabel(dev, "ai")
      found == SetToSortSeq({t \in Terms : Qualifies(ai, human, t)},
                            LAMBDA t, u : Ahead(ai, human, t, u))
  IN SubSeq(found, 1, Min({Len(found), MaxCandidates}))

Vocab(docs, c) ==
  [kind |-> "vocab", command |-> c, candidates |-> CandidateTerms(OfSplit(docs, "dev"))]
-----------------------------------------------------------------------------
EvaluationInit ==
  /\ \E c \in Corpora :
       documents = c.documents /\ external = c.external /\ samples = c.samples
  /\ out = [kind |-> "nothing"]

Run(c, name, result) ==
  /\ out.kind = "nothing" /\ c.name = name
  /\ out' = result
  /\ UNCHANGED <<documents, external, samples>>

EvaluationNext ==
  \E c \in Commands :
    \/ Run(c, "sweep", SweepOf(c))
    \/ Run(c, "calibrate", Calibrate(DocumentsOf(c), c))
    \/ Run(c, "report", Report(documents \o IF c.external THEN external ELSE << >>, c.split))
    \/ Run(c, "lengths", LengthAnalysis(documents))
    \/ Run(c, "labeled", Labeled(samples))
    \/ Run(c, "vocab", Vocab(DocumentsOf(c), c))

EvaluationSpec == EvaluationInit /\ [][EvaluationNext]_evaluationVars
-----------------------------------------------------------------------------
Calibrated == out.kind = "calibrate"
CandidatesOf(docs) == Candidates(docs, out.command.values, out.command.limit)
DevOnly(docs) == Chosen(docs, {i \in DOMAIN docs : docs[i].split = "dev"})

(* calibrate recommends a threshold that keeps the constraint and none     *)
(* that keeps it detects more; it recommends none only if none keeps it.   *)
RecommendedIsBest ==
  Calibrated =>
    LET kept == {c \in Range(CandidatesOf(DocumentsOf(out.command))) : c.feasible}
    IN IF kept = {} THEN out.best = NoCandidate
       ELSE out.best \in kept /\ \A c \in kept : c.detection <= out.best.detection

(* Of the thresholds that keep the constraint and detect most the one that *)
(* was given first is recommended (the line calibrate prints).             *)
FirstOfTheBest ==
  Calibrated /\ out.best # NoCandidate =>
    LET cs == CandidatesOf(DocumentsOf(out.command)) IN
    \A i \in Feasible(cs) :
      cs[i].detection = out.best.detection =>
        \E j \in 1 .. i : cs[j] = out.best

(* No threshold, count or word is chosen by what lies in the holdout       *)
(* split, external documents and exclusions included                       *)
(* (annotation-guide.md:45, the comment on calibrate).                     *)
HoldoutNeverDecides ==
  /\ Calibrated => out = Calibrate(DevOnly(DocumentsOf(out.command)), out.command)
  /\ out.kind = "sweep" => out.lines = Sweep(DevOnly(documents), out.command.values)
  /\ out.kind = "vocab" => out = Vocab(DevOnly(DocumentsOf(out.command)), out.command)

(* A false alarm less never makes a threshold break the constraint: the    *)
(* Wilson bound grows with the documents that fire.                        *)
SilenceKeepsFeasible ==
  Calibrated =>
    LET docs == DocumentsOf(out.command)
        kept == Feasible(CandidatesOf(docs))
    IN \A i \in DOMAIN docs :
         docs[i].label = "human" =>
           LET silent == [docs EXCEPT ![i].fires = [v \in DOMAIN @ |-> 0]]
           IN kept \subseteq Feasible(CandidatesOf(silent))

Adds(parts, whole) ==
  \A label \in {"human", "ai"} :
    /\ whole[label].total =
         MapThenSumSet(LAMBDA x : parts[x][label].total, DOMAIN parts)
    /\ \A field \in {"documents", "findings"} :
         whole[label].counts[field] =
           MapThenSumSet(LAMBDA x : parts[x][label].counts[field], DOMAIN parts)

(* The genres of a report and the buckets of length_analysis are parts of  *)
(* the whole: every document is in exactly one, with all its findings.     *)
PartsAddUp ==
  /\ out.kind = "report" => Adds(out.genres, out.all)
  /\ out.kind = "lengths" => Adds(out.buckets, Counts(Evaluate(documents, "default", "all")))

(* The listed mismatches of labeled are the misses and the false alarms of *)
(* its rates, and every sample is in the rates of its category.            *)
MismatchesAreCounted ==
  out.kind = "labeled" =>
    LET sum(f(_)) == MapThenSumSet(LAMBDA c : f(out.categories[c]), DOMAIN out.categories)
    IN /\ Len(out.mismatches) =
            sum(LAMBDA r : r.fire_total - r.fire_hit + r.silent_fired)
       /\ Len(samples) = sum(LAMBDA r : r.fire_total + r.silent_total)

(* calibrate: the recommended threshold is the best of those that keep the *)
(* constraint, a false alarm less never takes one out of them, and nothing *)
(* of the holdout split decides which it is.                               *)
RecommendationIsSound == RecommendedIsBest /\ SilenceKeepsFeasible /\ HoldoutNeverDecides

(* report, length_analysis and labeled: the parts are all of the whole.    *)
CountsAddUp == PartsAddUp /\ MismatchesAreCounted
=============================================================================

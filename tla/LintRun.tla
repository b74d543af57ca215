------------------------------ MODULE LintRun ------------------------------
(***************************************************************************)
(* The lint command used again and again: texts and the configuration are  *)
(* edited between runs, and the JSON of one run is the baseline of a later *)
(* one.  A run takes its files one by one and prints only at the end.      *)
(***************************************************************************)
EXTENDS LintReport

CONSTANTS
  Files,       (* names of files                                           *)
  Texts,       (* texts: readable or not, what the detectors can find in   *)
               (* them, what the lane of reading load finds                *)
  Configs,     (* what .suiko.toml can hold: NoConfig with other values    *)
  Commands,    (* the arguments a user gives                               *)
  OddReports,  (* JSON files that no run printed                           *)
  MaxRuns      (* bound on the number of runs                              *)

VARIABLES
  docs,        (* the text of each file                                    *)
  config,      (* .suiko.toml, with "valid"                                *)
  earlier,     (* the JSON file given as --baseline: its shape ("garbage": *)
               (* no JSON, "other": no records) and its records            *)
  command,     (* arguments of the last run                                *)
  stage,       (* "idle", "files", "compare", "printed", "failed"          *)
  runs,        (* the LintRuns so far; when "printed" what was printed     *)
  removed,     (* files of the earlier report that the run says are gone   *)
  code,        (* exit code of the last run                                *)
  count        (* runs started                                             *)

(* What a detector can say.                                                *)
AnyFinding ==
  [category : Categories, line : Nat, head : Heads,
   severity : DOMAIN Severity, span : Seq(Nat), related : SUBSET Nat]

(* The "findings" of a record of a report.                                 *)
Entries == Seq(Finding \cup {Malformed})

ASSUME LintAssumption ==
  /\ MaxRuns \in Nat /\ \A cfg \in Configs : cfg.given \/ cfg = NoConfig
  /\ \A t \in Texts : t.hits \in Seq(AnyFinding) /\ t.load \in Seq(AnyFinding)
  /\ \A c \in Commands : c.files \in Seq(Files)
  /\ \A r \in OddReports :
       /\ r.records \in Seq({r.records[i] : i \in DOMAIN r.records})
       /\ \A i \in DOMAIN r.records : /\ r.records[i].findings \in Entries
                                     /\ r.records[i].origin = << >>

compareVars == <<entries, findings, left, status, pc>>
userVars == <<docs, config, earlier>>
lintVars ==
  <<userVars, command, stage, runs, removed, code, count, compareVars>>
-----------------------------------------------------------------------------
(* --no-config: the file is not even read.                                 *)
ConfigOf(c) == IF c.noConfig THEN NoConfig ELSE config

GenreOf(c) == IF c.genre # "none" THEN c.genre ELSE ConfigOf(c).genre
Threshold(c) ==
  IF c.failOn # NoThreshold THEN c.failOn ELSE ConfigOf(c).failOn

(* baseline_map: records are found by the name of their file.              *)
RecordsOf(f) == {i \in DOMAIN earlier.records : earlier.records[i].file = f}

(* Of several records of one file the map keeps the last.                  *)
RecordOf(f) == earlier.records[Max(RecordsOf(f))]

HasMap == command.baseline /\ earlier.shape = "records"

Bug_GenreOfArguments(r) ==
  /\ r.version \in {"none", "current"}
  /\ r.genre = command.genre /\ r.experimental = command.experimental

(* ensure_baseline_compatible: a record without a version passes.          *)
Compatible(r) ==
  /\ r.version \in {"none", "current"}
  /\ r.genre = GenreOf(command) /\ r.experimental = command.experimental
-----------------------------------------------------------------------------
File == command.files[Len(runs) + 1]

(* The report of a file under the arguments of this run.                   *)
ReportOf(f) == Report(docs[f].hits, ConfigOf(command), GenreOf(command),
                      command.experimental)

(* The lane of reading load, with the exclusions of the configuration and  *)
(* counts of its own.                                                      *)
LoadOf(f) ==
  IF ~command.readingLoad THEN Counted(<< >>)
  ELSE IF ConfigOf(command).given
       THEN Configured(Counted(docs[f].load), ConfigOf(command))
       ELSE Counted(docs[f].load)

Reported == ReportOf(File).findings

LintRunOf(fs, kind, marks, resolved) ==
  [file |-> File, findings |-> fs, stats |-> ReportOf(File).stats,
   baseline |-> kind, status |-> marks, resolved |-> resolved,
   load |-> LoadOf(File)]
-----------------------------------------------------------------------------
EditText(f, t) ==
  /\ stage = "idle" /\ docs' = [docs EXCEPT ![f] = t]
  /\ UNCHANGED <<config, earlier, command, stage, runs, removed, code, count,
                 compareVars>>

EditConfig(cfg) ==
  /\ stage = "idle" /\ config' = cfg
  /\ UNCHANGED <<docs, earlier, command, stage, runs, removed, code, count,
                 compareVars>>

OtherReport(r) ==
  /\ stage = "idle" /\ earlier' = r
  /\ UNCHANGED <<docs, config, command, stage, runs, removed, code, count,
                 compareVars>>

(* What --json prints of a run.  The "origin" is not printed: it remembers *)
(* what the record was made of, and is << >> in one from elsewhere.        *)
Printed(r) ==
  [file |-> r.file, version |-> "current", genre |-> GenreOf(command),
   experimental |-> command.experimental, hasFindings |-> TRUE,
   findings |-> [i \in DOMAIN r.findings |->
                   [category |-> r.findings[i].category,
                    head |-> r.findings[i].head]],
   origin |-> <<docs[r.file], ConfigOf(command)>>]

Leave ==
  /\ stage' = "idle" /\ runs' = << >> /\ removed' = {} /\ code' = 0
  /\ UNCHANGED <<docs, config, command, count, compareVars>>

SaveReport ==
  /\ stage = "printed"
  /\ earlier' = [shape |-> "records",
                 records |-> [i \in DOMAIN runs |-> Printed(runs[i])]]
  /\ Leave

Discard == stage \in {"printed", "failed"} /\ UNCHANGED earlier /\ Leave
-----------------------------------------------------------------------------
(* validate_inputs, load_config and the parsing of the earlier report.     *)
CanStart(c) ==
  /\ ConfigOf(c).valid
  /\ c.baseline => earlier.shape # "garbage"

Start(c) ==
  /\ stage = "idle" /\ count < MaxRuns
  /\ command' = c /\ count' = count + 1
  /\ runs' = << >> /\ removed' = {}
  /\ IF CanStart(c) THEN stage' = "files" /\ code' = 0
                    ELSE stage' = "failed" /\ code' = 1
  /\ UNCHANGED <<userVars, compareVars>>

InFile == stage = "files" /\ Len(runs) < Len(command.files)

Fail ==
  /\ stage' = "failed" /\ code' = 1
  /\ UNCHANGED <<userVars, command, runs, removed, count, compareVars>>

Unreadable == InFile /\ ~docs[File].readable /\ Fail

IncompatibleRecord ==
  /\ InFile /\ docs[File].readable
  /\ HasMap /\ RecordsOf(File) # {} /\ ~Compatible(RecordOf(File))
  /\ Fail

Finish(run) ==
  /\ runs' = Append(runs, run) /\ stage' = "files"
  /\ UNCHANGED <<userVars, command, removed, code, count>>

(* No comparison: not asked for, or refused with a warning.                *)
LintFile ==
  /\ InFile /\ docs[File].readable
  /\ HasMap => /\ RecordsOf(File) # {}
               /\ Compatible(RecordOf(File)) /\ ~RecordOf(File).hasFindings
  /\ Finish(LintRunOf(Reported, "none", << >>, {}))
  /\ UNCHANGED compareVars

(* baseline_added                                                          *)
LintAdded ==
  /\ InFile /\ docs[File].readable
  /\ HasMap /\ RecordsOf(File) = {}
  /\ Finish(LintRunOf(Reported, "added", [i \in DOMAIN Reported |-> "new"],
                      {}))
  /\ UNCHANGED compareVars

CompareFile ==
  /\ InFile /\ docs[File].readable
  /\ HasMap /\ RecordsOf(File) # {}
  /\ Compatible(RecordOf(File)) /\ RecordOf(File).hasFindings
  /\ stage' = "compare"
  /\ entries' = RecordOf(File).findings /\ findings' = Reported
  /\ left' = Buckets(entries') /\ status' = << >> /\ pc' = "compare"
  /\ UNCHANGED <<userVars, command, runs, removed, code, count>>

CompareNext ==
  /\ stage = "compare" /\ Next
  /\ UNCHANGED <<userVars, command, stage, runs, removed, code, count>>

FinishComparison ==
  /\ stage = "compare" /\ pc = "done"
  /\ Finish(LintRunOf(findings, "matched", status, Resolved))
  /\ entries' = << >> /\ findings' = << >> /\ status' = << >>
  /\ left' = Buckets(<< >>) /\ pc' = "done"

Gate ==
  \E i \in DOMAIN runs : \E f \in ToSet(runs[i].findings) :
    Reaches(f, Threshold(command))

Output ==
  /\ stage = "files" /\ Len(runs) = Len(command.files)
  /\ stage' = "printed"
  /\ removed' = IF HasMap
                THEN {earlier.records[i].file : i \in DOMAIN earlier.records}
                       \ ToSet(command.files)
                ELSE {}
  /\ code' = IF Gate THEN 2 ELSE 0
  /\ UNCHANGED <<userVars, command, runs, count, compareVars>>
-----------------------------------------------------------------------------
LintInit ==
  /\ docs \in [Files -> Texts] /\ config \in Configs
  /\ earlier \in OddReports /\ command \in Commands
  /\ stage = "idle" /\ runs = << >> /\ removed = {} /\ code = 0 /\ count = 0
  /\ entries = << >> /\ findings = << >> /\ status = << >>
  /\ left = Buckets(<< >>) /\ pc = "done"

LintNext ==
  \/ \E f \in Files, t \in Texts : EditText(f, t)
  \/ \E cfg \in Configs : EditConfig(cfg)
  \/ \E r \in OddReports : OtherReport(r)
  \/ \E c \in Commands : Start(c)
  \/ Unreadable \/ IncompatibleRecord
  \/ LintFile \/ LintAdded \/ CompareFile \/ CompareNext \/ FinishComparison
  \/ Output \/ SaveReport \/ Discard

LintSpec == LintInit /\ [][LintNext]_lintVars
-----------------------------------------------------------------------------
Persisting(run) == {i \in DOMAIN run.status : run.status[i] = "persisting"}

(* execute, over all files: of every record of the earlier report each     *)
(* usable entry is told to the user as persisting or resolved, or its file *)
(* as removed.  Only a record another one of the same file hides, and one  *)
(* without findings, say nothing.                                          *)
EarlierReportIsAnswered ==
  stage = "printed" /\ HasMap =>
    \A i \in DOMAIN earlier.records :
      LET r == earlier.records[i]
      IN  \/ r.file \in removed
          \/ ~r.hasFindings
          \/ \E i2 \in DOMAIN earlier.records :
               i < i2 /\ earlier.records[i2].file = r.file
          \/ \E n \in DOMAIN runs :
               /\ runs[n].file = r.file
               /\ Cardinality(Persisting(runs[n]))
                    + Cardinality(runs[n].resolved)
                      = Cardinality({j \in DOMAIN r.findings :
                                      r.findings[j] # Malformed})

(* A comparison is of findings made alike: nothing is called new, resolved *)
(* or persisting against a record made for another genre or with another   *)
(* setting of --experimental, wherever the genre comes from.               *)
ComparedAlike ==
  stage = "printed" =>
    \A n \in DOMAIN runs : runs[n].baseline = "matched" =>
      \E i \in RecordsOf(runs[n].file) :
        /\ earlier.records[i].genre = GenreOf(command)
        /\ earlier.records[i].experimental = command.experimental

(* A finding left out because a more concrete one says the same is covered *)
(* by that one in what analyze returns (suppress_surface_inanimate_        *)
(* duplicates, preview_starts), whatever genre and options are given.      *)
Covers(g, f) ==
  \/ /\ Named(g) = "inanimate_subject_morph"
     /\ Named(f) = "english_syntax_inanimate_subject"
     /\ f.span # NoSpan /\ g.span # NoSpan
     /\ SpanContains(f.span, g.span) \/ SpanContains(g.span, f.span)
  \/ /\ Named(g) = "repeated_explanation_preview"
     /\ Named(f) = "repeated_syntax_template"
     /\ f.span # NoSpan /\ f.span[1] \in g.related

CoveredIn(f, fs) == f \in ToSet(fs) \/ \E g \in ToSet(fs) : Covers(g, f)

DuplicateIsCovered ==
  \A t \in {docs[f] : f \in Files}, genre \in Genres, exp \in BOOLEAN :
    \A f \in ToSet(t.hits) :
      Detects(f, genre, exp) /\ Wanted(f, genre, exp)
        => CoveredIn(f, Analyze(t.hits, genre, exp))

(* A run fails for a reason that lies in its arguments, the configuration, *)
(* the earlier report or any one of its files, and otherwise prints: no    *)
(* file before the bad one, and none after it, makes a difference.         *)
MustFail ==
  \/ ~ConfigOf(command).valid
  \/ command.baseline /\ earlier.shape = "garbage"
  \/ \E f \in ToSet(command.files) :
       \/ ~docs[f].readable
       \/ HasMap /\ RecordsOf(f) # {} /\ ~Compatible(RecordOf(f))

AllOrNothing ==
  /\ stage = "failed" => MustFail /\ code = 1
  /\ stage = "printed" => ~MustFail /\ code # 1

(* What the user is told of a text, said of each thing a detector can find *)
(* there: word rules of the project without a filter, the others when the  *)
(* options want them and no detected one covers them; exclusions apply to  *)
(* all, also to one that kept a covered one back.                          *)
IsTold(f, hits, cfg, genre, exp) ==
  /\ ~Suppresses(cfg, f)
  /\ \/ WithNames({"custom_wording"}, f) /\ f.category[2] \in cfg.wordRules
     \/ /\ Detects(f, genre, exp) /\ Wanted(f, genre, exp)
        /\ ~\E g \in ToSet(hits) : Detects(g, genre, exp) /\ Covers(g, f)

(* Exit code 2 is decided by the texts: by the worst of what their user is *)
(* told, over all files of the command, whether a baseline knows it or     *)
(* not.  The lane of reading load never decides.                           *)
ExitCodeIsOfTexts ==
  stage = "printed" =>
    (code = 2 <=>
       \E f \in ToSet(command.files) : \E h \in ToSet(docs[f].hits) :
         /\ IsTold(h, docs[f].hits, ConfigOf(command), GenreOf(command),
                   command.experimental)
         /\ Reaches(h, Threshold(command)))

(* The counts printed are of the findings printed below them, whether they *)
(* are those of analyze or of apply_config, and those of the lane of       *)
(* reading load likewise; a comparison's new and persisting findings make  *)
(* up the total.                                                           *)
HasItsCounts(report) ==
  /\ report.stats.total = Len(report.findings)
  /\ \A f \in ToSet(report.findings) :
       /\ Named(f) \in DOMAIN report.stats.byCategory
       /\ report.stats.byCategory[Named(f)]
            = Cardinality({i \in DOMAIN report.findings :
                             Named(report.findings[i]) = Named(f)})
  /\ \A name \in DOMAIN report.stats.byCategory :
       \E f \in ToSet(report.findings) : Named(f) = name

CountsDescribeFindings ==
  \A n \in DOMAIN runs :
    /\ HasItsCounts(runs[n]) /\ HasItsCounts(runs[n].load)
    /\ runs[n].baseline # "none" =>
         Cardinality(Persisting(runs[n]))
           + Cardinality({i \in DOMAIN runs[n].status : runs[n].status[i] = "new"})
             = runs[n].stats.total

(* A file compared with what a run printed of the same text, under the     *)
(* same configuration and options, has nothing new and nothing resolved,   *)
(* whatever was edited back and forth in between.                          *)
NothingChangedNothingNew ==
  stage = "printed" /\ HasMap =>
    \A n \in DOMAIN runs :
      /\ RecordsOf(runs[n].file) # {}
      /\ RecordOf(runs[n].file).origin = <<docs[runs[n].file], ConfigOf(command)>>
      => /\ runs[n].baseline = "matched" /\ runs[n].resolved = {}
         /\ Persisting(runs[n]) = DOMAIN runs[n].findings

(* What execute prints, and its exit code, describe the texts it was given *)
(* and one and the same run: all of it or nothing, a code that the texts   *)
(* alone decide, counts that are not stale, and no difference where        *)
(* nothing was changed.                                                    *)
OutcomeTellsReport ==
  /\ AllOrNothing /\ ExitCodeIsOfTexts
  /\ CountsDescribeFindings /\ NothingChangedNothingNew
=============================================================================

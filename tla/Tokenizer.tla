------------------------------ MODULE Tokenizer ------------------------------
(***************************************************************************)
(* The life of a StatefulTokenizer and of the list its results are         *)
(* collected into.  Nothing is copied on the way: the buffers of the       *)
(* tokenizer and of the list are swapped, so each works with memory the    *)
(* other one filled before.                                                *)
(***************************************************************************)
EXTENDS Words

CONSTANT NoPath  (* None: the path was taken and not given back          *)

ASSUME NoPathAssumption == NoPath \notin Seq(Node)

VARIABLES
  mode, subset, (* settings of the tokenizer                               *)
  text,         (* what its input buffer holds                             *)
  topPath,      (* the result path, or NoPath (None)                       *)
  stage,        (* last call: "reset", "done", "failed", "taken"; "panic"  *)
  list          (* the list's text, the subset it believes in, its nodes   *)

vars == <<mode, subset, text, topPath, stage, list>>
-----------------------------------------------------------------------------
Init ==
  /\ mode = "C" /\ subset = Fields
  /\ text \in {t \in Texts : Analysis[t] = << >>}
  /\ topPath = << >> /\ stage = "taken"
  /\ list = [text |-> text, subset |-> Fields, nodes |-> << >>]

SetMode(m) ==
  /\ stage # "panic"
  /\ mode' = m
  /\ subset' = subset \cup SplitOf(m)
  /\ UNCHANGED <<text, topPath, stage, list>>

Bug_ForgetsMode(s) == Normalize(s)

SubsetFor(s) == Normalize(s \cup SplitOf(mode)) \cup SplitOf(mode)

SetSubset(s) ==
  /\ stage # "panic"
  /\ subset' = SubsetFor(s)
  /\ UNCHANGED <<mode, text, topPath, stage, list>>

(* The path keeps its memory; a path that was lost stays lost.             *)
Emptied == IF topPath = NoPath THEN NoPath ELSE << >>

Reset(t) ==
  /\ stage # "panic"
  /\ text' = t /\ topPath' = Emptied /\ stage' = "reset"
  /\ UNCHANGED <<mode, subset, list>>
-----------------------------------------------------------------------------
(* do_tokenize, one action for each way it can end.                        *)

(* The text is too long, or an input-text plugin fails.                    *)
InputFails ==
  /\ stage = "reset"
  /\ stage' = "failed"
  /\ UNCHANGED <<mode, subset, text, topPath, list>>

(* Nothing is left of the text to analyse: the path is not touched.        *)
NothingToAnalyse ==
  /\ stage = "reset"
  /\ Analysis[text] = << >>
  /\ stage' = "done"
  /\ UNCHANGED <<mode, subset, text, topPath, list>>

(* A boundary without words, or a provider of unknown words that fails.    *)
LatticeFails ==
  /\ stage = "reset"
  /\ Analysis[text] # << >>
  /\ stage' = "failed"
  /\ UNCHANGED <<mode, subset, text, topPath, list>>

(* A word info that cannot be read, or a path rewriter that fails: the old *)
(* path has been taken and the new one is dropped.                         *)
PathFails ==
  /\ stage = "reset"
  /\ Analysis[text] # << >>
  /\ topPath' = NoPath /\ stage' = "failed"
  /\ UNCHANGED <<mode, subset, text, list>>

(* resolve_best_path appends to the path it took.                          *)
Tokenize ==
  LET taken == IF topPath = NoPath THEN << >> ELSE topPath
  IN
  /\ stage = "reset"
  /\ Analysis[text] # << >>
  /\ topPath' = SplitPath(taken \o WordNodes(text, subset), mode, subset)
  /\ stage' = "done"
  /\ UNCHANGED <<mode, subset, text, list>>
-----------------------------------------------------------------------------
(* swap_result: input and path change places with those of the list.  What *)
(* the list showed before is now in the tokenizer, until the next reset or *)
(* the next collection.                                                    *)

Bug_KeepsInput == list.text

CollectedText == text

Collect ==
  /\ stage # "panic" /\ topPath # NoPath
  /\ list' = [text |-> CollectedText, subset |-> subset, nodes |-> topPath]
  /\ text' = list.text /\ topPath' = list.nodes
  /\ stage' = "taken"
  /\ UNCHANGED <<mode, subset>>

(* swap_result unwraps the path.                                           *)
CollectPanics ==
  /\ stage # "panic" /\ topPath = NoPath
  /\ stage' = "panic"
  /\ UNCHANGED <<mode, subset, text, topPath, list>>

ClearList ==
  /\ stage # "panic"
  /\ list' = [list EXCEPT !.nodes = << >>]
  /\ UNCHANGED <<mode, subset, text, topPath, stage>>

Next ==
  \/ \E m \in Modes : SetMode(m)
  \/ \E s \in Subsets : SetSubset(s)
  \/ \E t \in Texts : Reset(t)
  \/ InputFails \/ NothingToAnalyse \/ LatticeFails \/ PathFails \/ Tokenize
  \/ Collect \/ CollectPanics \/ ClearList

Spec == Init /\ [][Next]_vars
-----------------------------------------------------------------------------
(* After do_tokenize returned Ok a path that is there is the path of this  *)
(* text, all of it: nothing of an earlier text, whose analysis lost its    *)
(* path or failed half-way, or which was collected before, is left in it.  *)
(* The same of the list: whatever was analysed, refused or lost between    *)
(* two collections, its nodes and its input belong together.               *)
ResultsAreOfTheirTexts ==
  /\ stage = "done" /\ topPath # NoPath => IsResultOf(topPath, text)
  /\ list.nodes # << >> => IsResultOf(list.nodes, list.text)

(* Whatever the order in which mode and subset are set, a text analysed in *)
(* mode A or B has all its compound words split: their units were read.    *)
WordsAreSplit ==
  [][stage = "reset" /\ stage' = "done" =>
       \A i \in 1 .. Len(Analysis[text]) :
         mode # "C" /\ Len(Analysis[text][i].units[mode]) > 1 =>
           ~\E k \in DOMAIN topPath' : /\ topPath'[k].from = Analysis[text][i].from
                                       /\ topPath'[k].to = Analysis[text][i].to]_vars
=============================================================================

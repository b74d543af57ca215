------------------------------- MODULE Words -------------------------------
(***************************************************************************)
(* Words of an analysed text as the tokenizer and the morpheme lists       *)
(* handle them: which fields of a word were read, the units it is split    *)
(* into, and the paths made of them.                                       *)
(*                                                                         *)
(* What the analysis of a text yields is given by Analysis: its words and, *)
(* for each splitting mode, the lengths of the units a word is made of.    *)
(* The fields of a word that were not asked for read as empty or 0.        *)
(***************************************************************************)
EXTENDS Integers, Sequences, FiniteSets

CONSTANTS
  Texts,        (* what a caller analyses or looks up                      *)
  Analysis,     (* text -> its words; none if the rewritten text is empty  *)
  Modes,        (* "A", "B" and "C"                                        *)
  Subsets       (* field subsets a caller asks for                         *)

SplitFields == {"SPLIT_A", "SPLIT_B"}
Fields == SplitFields \cup {"INDEX_FORM_LENGTH"}

ASSUME ModesAssumption == Modes \subseteq {"A", "B", "C"} /\ "C" \in Modes
ASSUME SubsetsAssumption == Subsets \subseteq SUBSET Fields

SplitOf(m) == IF m = "A" THEN {"SPLIT_A"} ELSE IF m = "B" THEN {"SPLIT_B"} ELSE {}

Normalize(s) == s \cup (IF s \cap SplitFields # {} THEN {"INDEX_FORM_LENGTH"} ELSE {})

(* The word infos are read with the normalized subset.                     *)
Load(fields, units) ==
  [m \in {"A", "B"} |-> IF SplitOf(m) \subseteq Normalize(fields) THEN units[m] ELSE << >>]

NoUnits == [m \in {"A", "B"} |-> << >>]

NodeOf(t, word, fields) ==
  [text |-> t, from |-> word.from, to |-> word.to, units |-> Load(fields, word.units)]

NumSplits(node, m) == IF m = "C" THEN 0 ELSE Len(node.units[m])

Bug_OwnLength(node, from, len, last) == from + len

(* The last unit takes what is left of the word.                           *)
EndOfUnit(node, from, len, last) == IF last THEN node.to ELSE from + len

(* The units of a word; a unit whose index form length was not read has    *)
(* length 0.                                                               *)
Split(node, m, fields) ==
  LET n == NumSplits(node, m)
      len(i) == IF "INDEX_FORM_LENGTH" \in Normalize(fields) THEN node.units[m][i] ELSE 0
      ends[i \in 0 .. n] ==
        IF i = 0 THEN node.from ELSE EndOfUnit(node, ends[i - 1], len(i), i = n)
  IN [i \in 1 .. n |-> [text |-> node.text, from |-> ends[i - 1], to |-> ends[i], units |-> NoUnits]]

(* split_path: words of one unit or none stay as they are.                 *)
SplitPath(path, m, fields) ==
  LET pieces(i) == IF NumSplits(path[i], m) <= 1 THEN <<path[i]>> ELSE Split(path[i], m, fields)
      upTo[i \in 0 .. Len(path)] == IF i = 0 THEN << >> ELSE upTo[i - 1] \o pieces(i)
  IN upTo[Len(path)]

WordNodes(t, fields) == [i \in 1 .. Len(Analysis[t]) |-> NodeOf(t, Analysis[t][i], fields)]

LengthOf(t) == IF Analysis[t] = << >> THEN 0 ELSE Analysis[t][Len(Analysis[t])].to
-----------------------------------------------------------------------------
Node == [text : Texts, from : Nat, to : Nat, units : [{"A", "B"} -> Seq(Nat)]]

(* Nodes that follow each other without gap or overlap from a to b.        *)
Covers(path, a, b) ==
  IF path = << >> THEN a = b
  ELSE /\ path[1].from = a /\ path[Len(path)].to = b
       /\ \A i \in 1 .. Len(path) - 1 : path[i].to = path[i + 1].from

IsResultOf(path, t) ==
  Covers(path, 0, LengthOf(t)) /\ \A i \in DOMAIN path : path[i].text = t

(* What the analysis yields are words with their units, from the beginning *)
(* of the text to its end.                                                 *)
ASSUME AnalysisAssumption ==
  /\ Analysis \in [Texts -> Seq([from : Nat, to : Nat, units : [{"A", "B"} -> Seq(Nat)]])]
  /\ \A t \in Texts : Covers(Analysis[t], 0, LengthOf(t))
=============================================================================

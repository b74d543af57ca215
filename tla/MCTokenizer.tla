----------------------------- MODULE MCTokenizer -----------------------------
(* Instance of Tokenizer and of MorphemeLists for TLC: two lists, an empty *)
(* text, a text of a word and a compound word whose units are shorter than *)
(* it, and a word that is also a dictionary entry.                         *)
EXTENDS Tokenizer, MorphemeLists, TLC

CONSTANTS empty, compound, entry

MCTexts == {empty, compound, entry}

MCUnits == [m \in {"A", "B"} |-> IF m = "A" THEN <<1, 1>> ELSE <<1, 2>>]

MCAnalysis ==
  (empty :> << >>) @@
  (compound :> <<[from |-> 0, to |-> 1, units |-> NoUnits],
                 [from |-> 1, to |-> 4, units |-> MCUnits]>>) @@
  (entry :> <<[from |-> 0, to |-> 2, units |-> NoUnits]>>)

MCEntries == (empty :> 0) @@ (compound :> 0) @@ (entry :> 1)

MCSymmetry == Permutations(Lists) \cup Permutations(Parts)

MCSubsets == {{}, {"SPLIT_A"}}
-----------------------------------------------------------------------------
(* A caller uses either a tokenizer and the list it collects into, or      *)
(* lists that share their inputs.                                          *)
VARIABLE uses

CallerInit == Init /\ LInit /\ uses \in {"tokenizer", "lists"}

CallerNext ==
  /\ \/ uses = "tokenizer" /\ Next /\ UNCHANGED lvars
     \/ uses = "lists" /\ LNext /\ UNCHANGED vars
  /\ UNCHANGED uses

CallerSpec == CallerInit /\ [][CallerNext]_<<vars, lvars, uses>>
=============================================================================

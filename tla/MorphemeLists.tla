---------------------------- MODULE MorphemeLists ----------------------------
(***************************************************************************)
(* Morpheme lists that share inputs.  A list holds its nodes itself and    *)
(* its text through an Rc<RefCell<InputPart>>, which clones and the lists  *)
(* split results are written to point to as well.  What a list shows can   *)
(* therefore change under it, and a borrowed text must not.                *)
(*                                                                         *)
(* CollectResults gives a list a whole result of a tokenizer (Tokenizer    *)
(* has the swap of buffers behind it): the words of a text, read with one  *)
(* subset, while the tokenizer's current subset, which the list takes over *)
(* as its own, may have been set since.                                    *)
(***************************************************************************)
EXTENDS Words

CONSTANTS
  Entries,      (* text -> number of dictionary entries that match it whole *)
  Lists,        (* handles of morpheme lists                               *)
  Parts,        (* identities of shared inputs                             *)
  MaxNodes      (* bound: nodes of one list                                *)

ASSUME EntriesAssumption == Entries \in [Texts -> Nat]

VARIABLES
  parts,        (* the shared inputs: their text and subset                *)
  partOf,       (* list -> its input                                       *)
  nodes,        (* list -> its nodes                                       *)
  holders,      (* lists whose surface is borrowed by a caller             *)
  panicked

lvars == <<parts, partOf, nodes, holders, panicked>>
-----------------------------------------------------------------------------
LInit ==
  /\ \E t \in Texts : /\ Analysis[t] = << >>
                      /\ parts = [p \in Parts |-> [text |-> t, subset |-> Fields]]
  /\ partOf \in [Lists -> Parts]
  /\ \A l, k \in Lists : partOf[l] = partOf[k] => l = k
  /\ nodes = [l \in Lists |-> << >>]
  /\ holders = {} /\ panicked = FALSE

(* A list whose surface is borrowed cannot be changed through that list;   *)
(* the shared input knows of borrows through other lists.                  *)
Free(l) == ~panicked /\ l \notin holders

Bug_IgnoresBorrows(l) == FALSE

PartBorrowed(l) == \E k \in holders : partOf[k] = partOf[l]

Panic == panicked' = TRUE /\ UNCHANGED <<parts, partOf, nodes, holders>>

(* collect_results of text t, whose words were read with loaded.           *)
CollectResults(l, t, loaded, current) ==
  /\ Free(l) /\ ~PartBorrowed(l)
  /\ parts' = [parts EXCEPT ![partOf[l]] = [text |-> t, subset |-> current]]
  /\ nodes' = [nodes EXCEPT ![l] = WordNodes(t, loaded)]
  /\ UNCHANGED <<partOf, holders, panicked>>

(* Borrowed elsewhere: collect_results returns an error.                   *)
CollectRefused(l) == Free(l) /\ PartBorrowed(l) /\ UNCHANGED lvars

(* split_into: out joins the input of the list and gets the units of the   *)
(* word appended; out is another list.                                     *)
SplitInto(l, i, m, out) ==
  LET node == nodes[l][i]
  IN
  /\ Free(out) /\ out # l
  /\ i \in 1 .. Len(nodes[l])
  /\ NumSplits(node, m) > 0
  /\ Len(nodes[out]) + NumSplits(node, m) <= MaxNodes
  /\ partOf' = [partOf EXCEPT ![out] = partOf[l]]
  /\ nodes' = [nodes EXCEPT ![out] = @ \o Split(node, m, parts[partOf[l]].subset)]
  /\ UNCHANGED <<parts, holders, panicked>>

Clear(l) ==
  /\ Free(l)
  /\ nodes' = [nodes EXCEPT ![l] = << >>]
  /\ UNCHANGED <<parts, partOf, holders, panicked>>

(* copy_slice appends the nodes only; out keeps its own input.             *)
CopySlice(l, from, to, out) ==
  /\ Free(out) /\ out # l
  /\ from <= to /\ to <= Len(nodes[l])
  /\ Len(nodes[out]) + to - from <= MaxNodes
  /\ nodes' = [nodes EXCEPT ![out] = @ \o SubSeq(nodes[l], from + 1, to)]
  /\ UNCHANGED <<parts, partOf, holders, panicked>>

(* A caller replaces list k: by an empty list of its own input ...         *)
NewList(k, p) ==
  /\ Free(k) /\ \A l \in Lists \ {k} : partOf[l] # p
  /\ \E t \in Texts : /\ Analysis[t] = << >>
                      /\ parts' = [parts EXCEPT ![p] = [text |-> t, subset |-> Fields]]
  /\ partOf' = [partOf EXCEPT ![k] = p]
  /\ nodes' = [nodes EXCEPT ![k] = << >>]
  /\ UNCHANGED <<holders, panicked>>

(* ... or by one that shares the input of l.                               *)
EmptyClone(l, k) ==
  /\ Free(k) /\ k # l
  /\ partOf' = [partOf EXCEPT ![k] = partOf[l]]
  /\ nodes' = [nodes EXCEPT ![k] = << >>]
  /\ UNCHANGED <<parts, holders, panicked>>

Found(q, fields) ==
  [i \in 1 .. Entries[q] |->
     NodeOf(q, [from |-> 0, to |-> LengthOf(q), units |-> NoUnits], fields)]

(* lookup: the input becomes the normalized query, whether or not the call *)
(* succeeds; the entries found are appended to the list.                   *)
Lookup(l, q, fields) ==
  /\ Free(l) /\ ~PartBorrowed(l)
  /\ Len(nodes[l]) + Entries[q] <= MaxNodes
  /\ parts' = [parts EXCEPT ![partOf[l]].text = q]
  /\ nodes' = [nodes EXCEPT ![l] = @ \o Found(q, fields)]
  /\ UNCHANGED <<partOf, holders, panicked>>

LookupFails(l, q) ==
  /\ Free(l) /\ ~PartBorrowed(l)
  /\ parts' = [parts EXCEPT ![partOf[l]].text = q]
  /\ UNCHANGED <<partOf, nodes, holders, panicked>>

(* borrow_mut of the shared input.                                         *)
LookupPanics(l) == Free(l) /\ PartBorrowed(l) /\ Panic

Hold(l) == Free(l) /\ holders' = holders \cup {l} /\ UNCHANGED <<parts, partOf, nodes, panicked>>

Release(l) ==
  /\ ~panicked /\ l \in holders
  /\ holders' = holders \ {l}
  /\ UNCHANGED <<parts, partOf, nodes, panicked>>

LNext ==
  \E l \in Lists :
    \/ \E t \in Texts, s, c \in Subsets : CollectResults(l, t, s, c)
    \/ CollectRefused(l)
    \/ \E i \in 1 .. MaxNodes, m \in Modes, out \in Lists : SplitInto(l, i, m, out)
    \/ \E from, to \in 0 .. MaxNodes, out \in Lists : CopySlice(l, from, to, out)
    \/ Clear(l)
    \/ \E p \in Parts : NewList(l, p)
    \/ \E k \in Lists : EmptyClone(l, k)
    \/ \E q \in Texts, s \in Subsets : Lookup(l, q, s)
    \/ \E q \in Texts : LookupFails(l, q)
    \/ LookupPanics(l)
    \/ Hold(l) \/ Release(l)

LSpec == LInit /\ [][LNext]_lvars
-----------------------------------------------------------------------------
(* While a caller holds the surface of a list, the text behind it stays,   *)
(* also when another list that shares it collects or looks up.             *)
HeldSurfaceStays ==
  [][\A l \in holders : parts'[partOf[l]].text = parts[partOf[l]].text]_lvars

(* The units split_into appends begin where the word begins and end where  *)
(* it ends, although their own lengths may not add up to it, and the list  *)
(* they are written to shows the text they were cut from.                  *)
UnitsTileTheirWord ==
  [][\A l, out \in Lists : nodes[out] = << >> =>
       \A i \in 1 .. Len(nodes[l]), m \in Modes :
         SplitInto(l, i, m, out) =>
           /\ Covers(nodes'[out], nodes[l][i].from, nodes[l][i].to)
           /\ partOf'[out] = partOf'[l]]_lvars
=============================================================================

------------------------------- MODULE Lattice -------------------------------
(***************************************************************************)
(* The lattice of the Viterbi search, and the loop of the tokenizer that   *)
(* fills it.  Rows are indexed by the character boundary where a word      *)
(* ends; the three arrays of rows are parallel, except that row 0 of ends  *)
(* holds the beginning of the sentence (BOS) and the others do not.  The   *)
(* arrays are kept from one sentence to the next and never shrink.         *)
(*                                                                         *)
(* The builder walks the boundaries from left to right (at) and inserts    *)
(* the words that begin there, from the dictionary and then from the       *)
(* providers of unknown words; which words those are is left open here.    *)
(* The loop of fill_top_path is unrolled: TraceBack is one iteration.      *)
(***************************************************************************)
EXTENDS Integers, Sequences, FiniteSets

CONSTANTS
  Ids,          (* connection ids; EOS and BOS use BosId                   *)
  BosId,
  Conn,         (* Conn[right][left]: connection cost, an i16              *)
  Words,        (* [left, right, cost] of the words a provider may return  *)
  MaxStep,      (* largest sum of a connection and a word cost, either way *)
  MaxLen,       (* bound: characters of a sentence                         *)
  MaxWords,     (* bound: words that end at one boundary                   *)
  CostWidth     (* 2^31: total costs are i32 and wrap around               *)

ASSUME IdsAssumption == BosId \in Ids /\ Conn \in [Ids -> [Ids -> Int]]
ASSUME WordsAssumption == Words \subseteq [left : Ids, right : Ids, cost : Int]
ASSUME StepAssumption ==
  /\ MaxStep \in Nat
  /\ \A r, l \in Ids, w \in Words : Conn[r][l] + w.cost \in -MaxStep .. MaxStep
ASSUME EosAssumption == \A r \in Ids : Conn[r][BosId] \in -MaxStep .. MaxStep
ASSUME SizesAssumption ==
  MaxLen \in Nat \ {0} /\ MaxWords \in Nat /\ CostWidth \in Nat \ {0}

VARIABLES
  ends,         (* row -> costs and right ids of the words ending there    *)
  ends_full,    (* row -> those words                                      *)
  indices,      (* row -> the best word before each of them                *)
  eos,          (* back pointer and cost of the end of the sentence        *)
  size,         (* number of rows of the current sentence                  *)
  at,           (* boundary the builder works on                           *)
  created,      (* whether a word was inserted at this boundary            *)
  phase,        (* "new", "building", "connected", "tracing", "done", "failed" *)
  path          (* the top path, from its last word to its first one       *)

vars == <<ends, ends_full, indices, eos, size, at, created, phase, path>>

VNode == [total : Int, right : Ids]
Node == [begin : Nat, end : Nat, left : Ids, right : Ids, cost : Int]

(* NodeIdx::empty, which no row holds, and i32::MAX: not connected to BOS. *)
NoIdx == [end |-> -1, index |-> -1]
NodeIdx == [end : Nat, index : Nat] \cup {NoIdx}
I32_MAX == CostWidth - 1

NoEos == [idx |-> NoIdx, cost |-> I32_MAX]
-----------------------------------------------------------------------------
Wrap(c) ==
  IF -CostWidth <= c /\ c < CostWidth THEN c
  ELSE ((c + CostWidth) % (2 * CostWidth)) - CostWidth

(* Row e of a Vec of rows; its elements are numbered from 0.               *)
Entry(rows, idx) == rows[idx.end][idx.index + 1]

Connected(l) == l.total # I32_MAX

Bug_WordCostTwice(l, r) == Wrap(l.total + Conn[l.right][r.left] + 2 * r.cost)

NewCost(l, r) == Wrap(l.total + Conn[l.right][r.left] + r.cost)

(* The words of a row that r may follow; the row is that of its beginning. *)
Candidates(row, r) ==
  {i \in 0 .. Len(row) - 1 : Connected(row[i + 1]) /\ NewCost(row[i + 1], r) < I32_MAX}

CostVia(row, r, i) == NewCost(row[i + 1], r)

Bug_FirstWins(row, r, i) == \A j \in Candidates(row, r) : i <= j

(* The first of the cheapest predecessors: a later one must be cheaper.    *)
IsBest(row, r, i) ==
  \A j \in Candidates(row, r) :
    \/ CostVia(row, r, i) < CostVia(row, r, j)
    \/ CostVia(row, r, i) = CostVia(row, r, j) /\ i <= j

ConnectNode(row, r) ==
  IF Candidates(row, r) = {} THEN [idx |-> NoIdx, cost |-> I32_MAX]
  ELSE LET i == CHOOSE i \in Candidates(row, r) : IsBest(row, r, i)
       IN [idx |-> [end |-> r.begin, index |-> i], cost |-> CostVia(row, r, i)]

Bug_KeepsRows(rows, target) ==
  [i \in DOMAIN rows \cup 0 .. target - 1 |->
     IF i \in DOMAIN rows THEN rows[i] ELSE << >>]

(* Every row is emptied; rows are added up to the wanted number.           *)
ResetVec(rows, target) == [i \in DOMAIN rows \cup 0 .. target - 1 |-> << >>]

HasPreviousNode(i) == i \in DOMAIN ends /\ ends[i] # << >>
-----------------------------------------------------------------------------
Init ==
  /\ ends = << >> /\ ends_full = << >> /\ indices = << >>
  /\ eos = NoEos /\ size = 0
  /\ at = 0 /\ created = FALSE /\ phase = "new" /\ path = << >>

(* reset, at the start of the builder; empty sentences never come here.    *)
Reset(length) ==
  /\ phase # "building" /\ phase # "tracing"
  /\ ends' = [ResetVec(ends, length + 1) EXCEPT ![0] = <<[total |-> 0, right |-> BosId]>>]
  /\ ends_full' = ResetVec(ends_full, length + 1)
  /\ indices' = ResetVec(indices, length + 1)
  /\ eos' = NoEos /\ size' = length + 1
  /\ at' = 0 /\ created' = FALSE /\ phase' = "building" /\ path' = << >>

(* No word ends at this boundary: no word can begin here.                  *)
SkipUnreachable ==
  /\ phase = "building" /\ at < size - 1
  /\ ~HasPreviousNode(at)
  /\ at' = at + 1
  /\ UNCHANGED <<ends, ends_full, indices, eos, size, created, phase, path>>

RowOf(node) == node.end

(* insert: the word joins the row of its end, with its best predecessor.   *)
Insert(end, word) ==
  LET node == [begin |-> at, end |-> end, left |-> word.left,
               right |-> word.right, cost |-> word.cost]
      best == ConnectNode(ends[at], node)
      row == RowOf(node)
  IN
  /\ phase = "building" /\ at < size - 1
  /\ HasPreviousNode(at)
  /\ Len(ends_full[end]) < MaxWords
  /\ ends' = [ends EXCEPT ![row] = Append(@, [total |-> best.cost, right |-> node.right])]
  /\ indices' = [indices EXCEPT ![row] = Append(@, best.idx)]
  /\ ends_full' = [ends_full EXCEPT ![row] = Append(@, node)]
  /\ created' = TRUE
  /\ UNCHANGED <<eos, size, at, phase, path>>

WordsWereCreated == created

NextBoundary ==
  /\ phase = "building" /\ at < size - 1
  /\ HasPreviousNode(at)
  /\ WordsWereCreated
  /\ at' = at + 1 /\ created' = FALSE
  /\ UNCHANGED <<ends, ends_full, indices, eos, size, phase, path>>

(* insert_oovs gives up when even the last provider returned nothing, and  *)
(* returns any error of a provider: the lattice stays as it is.            *)
GiveUp ==
  /\ phase = "building" /\ at < size - 1
  /\ HasPreviousNode(at)
  /\ phase' = "failed"
  /\ UNCHANGED <<ends, ends_full, indices, eos, size, at, created, path>>

Bug_EosBeforeLastRow ==
  [begin |-> size - 2, end |-> size - 2, left |-> BosId, right |-> BosId, cost |-> 0]

EosNode ==
  [begin |-> size - 1, end |-> size - 1, left |-> BosId, right |-> BosId, cost |-> 0]

ConnectEos ==
  LET best == ConnectNode(ends[EosNode.begin], EosNode)
  IN
  /\ phase = "building" /\ at = size - 1
  /\ IF best.cost = I32_MAX THEN phase' = "failed" /\ UNCHANGED eos
     ELSE phase' = "connected" /\ eos' = best
  /\ UNCHANGED <<ends, ends_full, indices, size, at, created, path>>

StartTrace ==
  /\ phase = "connected"
  /\ path' = <<eos.idx>>
  /\ phase' = "tracing"
  /\ UNCHANGED <<ends, ends_full, indices, eos, size, at, created>>

(* One word further back; the pointer to row 0 is BOS and ends the loop.   *)
TraceBack ==
  LET prev == Entry(indices, path[Len(path)])
  IN
  /\ phase = "tracing"
  /\ IF prev.end # 0 THEN path' = Append(path, prev) /\ UNCHANGED phase
     ELSE phase' = "done" /\ UNCHANGED path
  /\ UNCHANGED <<ends, ends_full, indices, eos, size, at, created>>

Next ==
  \/ \E length \in 1 .. MaxLen : Reset(length)
  \/ SkipUnreachable
  \/ \E end \in at + 1 .. size - 1, word \in Words : Insert(end, word)
  \/ NextBoundary \/ GiveUp
  \/ ConnectEos \/ StartTrace \/ TraceBack

Spec == Init /\ [][Next]_vars
-----------------------------------------------------------------------------
TypeOK ==
  /\ DOMAIN ends \subseteq Nat /\ 0 .. size - 1 \subseteq DOMAIN ends
  /\ ends \in [DOMAIN ends -> Seq(VNode)]
  /\ ends_full \in [DOMAIN ends -> Seq(Node)]
  /\ indices \in [DOMAIN ends -> Seq(NodeIdx)]
  /\ eos \in [idx : NodeIdx, cost : Int]
  /\ size \in Nat /\ at \in Nat /\ created \in BOOLEAN
  /\ phase \in {"new", "building", "connected", "tracing", "done", "failed"}
  /\ path \in Seq(NodeIdx)

(* The three arrays stay parallel (row 0 holds only BOS), words lie in the *)
(* row of their end, and rows behind the current sentence are empty, so    *)
(* nothing of an earlier and longer sentence can be seen.                  *)
RowsAreParallel ==
  phase # "new" =>
    /\ ends[0] = <<[total |-> 0, right |-> BosId]>>
    /\ ends_full[0] = << >> /\ indices[0] = << >>
    /\ \A e \in DOMAIN ends \ {0} :
         /\ Len(ends[e]) = Len(ends_full[e]) /\ Len(ends[e]) = Len(indices[e])
         /\ e >= size => ends[e] = << >>
         /\ \A i \in 1 .. Len(ends_full[e]) :
              /\ ends_full[e][i].end = e
              /\ ends_full[e][i].begin < e
              /\ ends[e][i].right = ends_full[e][i].right

(* A back pointer and a cost are those of the first of the cheapest        *)
(* predecessors in a row.                                                  *)
FirstOfCheapest(row, r, prev, total) ==
  IF total = I32_MAX THEN prev = NoIdx /\ Candidates(row, r) = {}
  ELSE /\ prev.end = r.begin /\ prev.index \in Candidates(row, r)
       /\ total = CostVia(row, r, prev.index)
       /\ \A j \in Candidates(row, r) :
            /\ total <= CostVia(row, r, j)
            /\ j < prev.index => total < CostVia(row, r, j)

(* The assumption written at insert and connect_node, that the lattice of  *)
(* all earlier boundaries is complete: the predecessor chosen when a word  *)
(* was inserted is still the first of the cheapest ones at any later time, *)
(* and the word's total cost is still the cost through it.                 *)
PredecessorsStayBest ==
  phase # "new" =>
    \A e \in 1 .. size - 1 : \A i \in 1 .. Len(ends_full[e]) :
      FirstOfCheapest(ends[ends_full[e][i].begin], ends_full[e][i],
                      indices[e][i], ends[e][i].total)

(* Either some word ends at or behind the boundary the builder has reached *)
(* or it has given up: connect_eos never finds the sentence disconnected.  *)
NoDeadEnd ==
  phase = "building" => \E e \in at .. size - 1 : ends[e] # << >>

(* The indices fill_top_path reads exist, the words of the path follow     *)
(* each other without gap or overlap, it ends at the end of the sentence,  *)
(* and a finished path begins at its beginning.                            *)
PathTilesSentence ==
  phase \in {"tracing", "done"} =>
    /\ path # << >> /\ path[1].end = size - 1
    /\ \A k \in 1 .. Len(path) :
         /\ path[k].end \in 1 .. size - 1
         /\ path[k].index \in 0 .. Len(ends_full[path[k].end]) - 1
    /\ \A k \in 1 .. Len(path) - 1 : Entry(ends_full, path[k]).begin = path[k + 1].end
    /\ phase = "done" => Entry(ends_full, path[Len(path)]).begin = 0

(* Costs and last ids of all the ways to reach boundary e, by enumeration. *)
Chains ==
  LET chains[e \in 0 .. size - 1] ==
        IF e = 0 THEN {<<0, BosId>>}
        ELSE UNION {{<<c[1] + Conn[c[2]][n.left] + n.cost, n.right>> : c \in chains[n.begin]} :
                      n \in {ends_full[e][i] : i \in 1 .. Len(ends_full[e])}}
  IN chains[size - 1]

(* Viterbi: the cost of the end of the sentence is the least cost of all   *)
(* segmentations of it into inserted words, and the words of the path are  *)
(* a segmentation with that cost.                                          *)
TopPathIsOptimal ==
  phase = "done" =>
    LET word(k) == Entry(ends_full, path[Len(path) + 1 - k])
        costTo[k \in 0 .. Len(path)] ==
          IF k = 0 THEN 0
          ELSE costTo[k - 1] + Conn[IF k = 1 THEN BosId ELSE word(k - 1).right][word(k).left]
               + word(k).cost
        total == costTo[Len(path)] + Conn[word(Len(path)).right][BosId]
    IN /\ eos.cost = total
       /\ \A c \in Chains : total <= c[1] + Conn[c[2]][BosId]

(* Every cost of a word that ends at e is at most e steps away from 0, a   *)
(* step being one connection and one word.  So no i32 wraps around, and    *)
(* no word is taken for one that is not connected, as long as the sentence *)
(* has fewer than 2^31 / MaxStep characters.                               *)
CostsWithin ==
  phase # "new" /\ (size - 1) * MaxStep < I32_MAX =>
    \A e \in 1 .. size - 1 : \A i \in 1 .. Len(ends[e]) :
      ends[e][i].total \in -(e * MaxStep) .. e * MaxStep

(* The rows are of the current sentence and nothing else: every one has    *)
(* its type, the three arrays are parallel (reset, insert).                *)
RowsAreSound == TypeOK /\ RowsAreParallel

(* What fill_top_path promises: a segmentation of the sentence, and none   *)
(* is cheaper.                                                             *)
TopPathIsBest == PathTilesSentence /\ TopPathIsOptimal
=============================================================================

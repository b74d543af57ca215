---------------------------- MODULE LatticeProofs ----------------------------
(***************************************************************************)
(* Proofs about Lattice and LatticeBuilder, for any connection costs,      *)
(* words, dictionaries, providers and sentences of any length, in this     *)
(* order: the lattice itself (LatticeInv is inductive; what it adds is     *)
(* where the builder stands, Frontier, and that the pointers a path        *)
(* starts from reach the beginning, EosConnected); the path is the         *)
(* cheapest (ViterbiInv); the index of a dictionary and its walk           *)
(* (IndexFacts); the lanes of the batch lookup (BatchInv); the unknown     *)
(* words of the providers; the words of a boundary while they are          *)
(* inserted (OfferInv, BuilderInv); and from these that the builder        *)
(* implements OfferedWords.                                                *)
(***************************************************************************)
EXTENDS LatticeBuilder, SequenceLemmas

(* No word begins behind the boundary the builder works on, and a word     *)
(* created there ends behind it.                                           *)
Frontier ==
  phase # "new" =>
    /\ size \in Nat \ {0} /\ at \in 0 .. size - 1
    /\ \A e \in DOMAIN ends \ {0} : \A i \in 1 .. Len(ends_full[e]) :
         ends_full[e][i].begin <= at
    /\ phase = "building" /\ created =>
         ends[at] # << >> /\ \E e \in at + 1 .. size - 1 : ends[e] # << >>

SentenceNotEmpty == phase # "new" => size # 1

EosConnected ==
  /\ phase \in {"connected", "tracing", "done"} =>
       /\ size > 1 /\ eos.idx.end = size - 1
       /\ eos.idx.index \in 0 .. Len(ends[size - 1]) - 1
       /\ Connected(Entry(ends, eos.idx))
  /\ phase \in {"tracing", "done"} =>
       \A k \in 1 .. Len(path) : Connected(Entry(ends, path[k]))

LatticeInv ==
  /\ TypeOK
  /\ RowsAreParallel
  /\ SentenceNotEmpty
  /\ Frontier
  /\ PredecessorsStayBest
  /\ NoDeadEnd
  /\ EosConnected
  /\ PathTilesSentence
  /\ CostsWithin
-----------------------------------------------------------------------------
(* Wrapped costs are i32 values.                                           *)
LEMMA WrapRange == \A c \in Int : Wrap(c) \in -CostWidth .. I32_MAX
<1> SUFFICES ASSUME NEW c \in Int PROVE Wrap(c) \in -CostWidth .. I32_MAX
  OBVIOUS
<1>1. CostWidth \in Nat \ {0}
  BY SizesAssumption
<1>2. CASE -CostWidth <= c /\ c < CostWidth
  BY <1>1, <1>2 DEF Wrap, I32_MAX
<1>3. CASE ~(-CostWidth <= c /\ c < CostWidth)
  <2> DEFINE d == c + CostWidth
             w == 2 * CostWidth
  <2>1. d \in Int /\ w \in Nat \ {0}
    BY <1>1
  <2>2. d % w \in 0 .. w - 1
    <3> HIDE DEF d, w
    <3> QED BY <2>1
  <2>3. Wrap(c) = (d % w) - CostWidth
    BY <1>3 DEF Wrap
  <2>4. ASSUME NEW m \in 0 .. w - 1 PROVE m - CostWidth \in -CostWidth .. I32_MAX
    BY <1>1 DEF I32_MAX
  <2> QED BY <2>2, <2>3, <2>4
<1> QED BY <1>2, <1>3

(* Types of what a row holds.                                              *)
LEMMA RowTypes ==
  ASSUME TypeOK, NEW e \in DOMAIN ends
  PROVE  /\ ends[e] \in Seq(VNode) /\ ends_full[e] \in Seq(Node) /\ indices[e] \in Seq(NodeIdx)
         /\ Len(ends[e]) \in Nat /\ Len(ends_full[e]) \in Nat /\ Len(indices[e]) \in Nat
         /\ \A i \in 1 .. Len(ends[e]) : ends[e][i].total \in Int /\ ends[e][i].right \in Ids
         /\ \A i \in 1 .. Len(ends_full[e]) : ends_full[e][i] \in Node
         /\ \A i \in 1 .. Len(indices[e]) : indices[e][i] \in NodeIdx
<1>1. ends[e] \in Seq(VNode) /\ ends_full[e] \in Seq(Node) /\ indices[e] \in Seq(NodeIdx)
  BY DEF TypeOK
<1>2. \A i \in 1 .. Len(ends[e]) : ends[e][i] \in VNode
  BY <1>1, ElementOfSeq
<1>3. \A i \in 1 .. Len(ends[e]) : ends[e][i].total \in Int /\ ends[e][i].right \in Ids
  BY <1>2 DEF VNode
<1> QED BY <1>1, <1>3, ElementOfSeq, LenProperties

(* The cost of an edge of the lattice is an i32.                           *)
LEMMA CostViaType ==
  ASSUME NEW row \in Seq(VNode), NEW r \in Node, NEW i \in 0 .. Len(row) - 1
  PROVE  CostVia(row, r, i) \in -CostWidth .. I32_MAX
<1> DEFINE l == row[i + 1]
<1>1. l.total \in Int /\ l.right \in Ids
  <2>1. i + 1 \in 1 .. Len(row)
    BY LenProperties
  <2>2. l \in VNode
    BY <2>1, ElementOfSeq
  <2> QED BY <2>2 DEF VNode
<1>2. r.left \in Ids /\ r.cost \in Int
  BY DEF Node
<1>3. Conn[l.right][r.left] \in Int
  BY <1>1, <1>2, IdsAssumption
<1>4. l.total + Conn[l.right][r.left] + r.cost \in Int
  BY <1>1, <1>2, <1>3
<1> QED BY <1>4, WrapRange DEF CostVia, NewCost

(* connect_node returns the first of the cheapest connected predecessors,  *)
(* if there is one.                                                        *)
LEMMA ConnectNodeCorrect ==
  ASSUME NEW row \in Seq(VNode), NEW r \in Node
  PROVE  /\ FirstOfCheapest(row, r, ConnectNode(row, r).idx, ConnectNode(row, r).cost)
         /\ ConnectNode(row, r).cost \in Int /\ ConnectNode(row, r).idx \in NodeIdx
         /\ ConnectNode(row, r).cost # I32_MAX =>
              ConnectNode(row, r).idx.index \in 0 .. Len(row) - 1
         /\ Candidates(row, r) # {} => ConnectNode(row, r).cost # I32_MAX
<1> DEFINE C == Candidates(row, r)
<1>0. /\ CostWidth \in Nat \ {0} /\ I32_MAX \in Int /\ Len(row) \in Nat
      /\ -CostWidth .. I32_MAX \subseteq Int
  BY SizesAssumption, LenProperties DEF I32_MAX
<1>1. CASE C = {}
  BY <1>0, <1>1 DEF ConnectNode, FirstOfCheapest, NodeIdx
<1>2. CASE C # {}
  <2>1. C \subseteq 0 .. Len(row) - 1
    BY DEF Candidates
  <2>2. \A i \in C : CostVia(row, r, i) \in -CostWidth .. I32_MAX
    BY <2>1, CostViaType
  <2>3. \A i \in C : CostVia(row, r, i) < I32_MAX
    BY DEF Candidates, CostVia
  <2> HIDE DEF C
  <2>4. PICK m \in {CostVia(row, r, i) + CostWidth : i \in C} :
          \A n \in {CostVia(row, r, i) + CostWidth : i \in C} : m <= n
    <3> DEFINE T == {CostVia(row, r, i) + CostWidth : i \in C}
    <3>1. T \subseteq Nat
      BY <1>0, <2>2 DEF I32_MAX
    <3>2. T # {}
      BY <1>2
    <3> HIDE DEF T
    <3>3. \E m \in T : \A n \in T : m <= n
      BY <3>1, <3>2, LeastNatural
    <3> QED BY <3>3 DEF T
  <2> DEFINE Cheapest == {i \in C : CostVia(row, r, i) + CostWidth = m}
  <2>5. PICK i \in Cheapest : \A j \in Cheapest : i <= j
    <3>1. Cheapest \subseteq Nat /\ Cheapest # {}
      <4>1. Cheapest \subseteq Nat
        <5>1. C \subseteq Nat
          BY <1>0, <2>1
        <5>2. Cheapest \subseteq C
          BY Zenon
        <5> HIDE DEF Cheapest
        <5> QED BY <5>1, <5>2
      <4>2. PICK j \in C : m = CostVia(row, r, j) + CostWidth
        BY <2>4
      <4>3. j \in Cheapest
        BY <4>2
      <4> QED BY <4>1, <4>3
    <3> HIDE DEF Cheapest
    <3> QED BY <3>1, LeastNatural
  <2>6. i \in C /\ IsBest(row, r, i)
    <3>1. i \in C /\ CostVia(row, r, i) + CostWidth = m
      BY <2>5
    <3>2. ASSUME NEW j \in C
          PROVE  \/ CostVia(row, r, i) < CostVia(row, r, j)
                 \/ CostVia(row, r, i) = CostVia(row, r, j) /\ i <= j
      <4>1. m <= CostVia(row, r, j) + CostWidth
        BY <2>4
      <4>2. CostVia(row, r, j) + CostWidth = m => i <= j
        BY <2>5
      <4>3. CostVia(row, r, i) \in Int /\ CostVia(row, r, j) \in Int
        BY <1>0, <2>2, <3>1
      <4> QED BY <1>0, <3>1, <4>1, <4>2, <4>3
    <3> QED BY <3>1, <3>2 DEF IsBest, C
  <2> DEFINE c == CHOOSE i_1 \in C : IsBest(row, r, i_1)
             k == CostVia(row, r, c)
  <2>7. c \in C /\ IsBest(row, r, c)
    BY <2>6
  <2>8. ConnectNode(row, r) = [idx |-> [end |-> r.begin, index |-> c], cost |-> k]
    BY <1>2 DEF ConnectNode, C
  <2> HIDE DEF c
  <2>9. k \in Int /\ k < I32_MAX /\ k # I32_MAX
    <3>1. k \in Int /\ k < I32_MAX
      BY <1>0, <2>2, <2>3, <2>7
    <3> QED BY <1>0, <3>1
  <2>10. c \in 0 .. Len(row) - 1 /\ c \in Nat /\ r.begin \in Nat
    BY <1>0, <2>1, <2>7 DEF Node
  <2>11. ASSUME NEW j \in C
         PROVE  k <= CostVia(row, r, j) /\ (j < c => k < CostVia(row, r, j))
    <3>1. k < CostVia(row, r, j) \/ (k = CostVia(row, r, j) /\ c <= j)
      BY <2>7 DEF IsBest, C
    <3>2. CostVia(row, r, j) \in Int /\ j \in Nat
      BY <1>0, <2>1, <2>2
    <3> QED BY <2>9, <2>10, <3>1, <3>2
  <2> HIDE DEF k
  <2>12. FirstOfCheapest(row, r, [end |-> r.begin, index |-> c], k)
    BY <2>7, <2>9, <2>11 DEF FirstOfCheapest, C, k
  <2>13. [end |-> r.begin, index |-> c] \in NodeIdx
    BY <2>10 DEF NodeIdx
  <2> QED BY <2>8, <2>9, <2>10, <2>12, <2>13
<1> QED BY <1>1, <1>2
-----------------------------------------------------------------------------
(* It holds before the first sentence.                                     *)
LEMMA InitLatticeInv == Init => LatticeInv
<1> SUFFICES ASSUME Init PROVE LatticeInv
  OBVIOUS
<1> USE DEF Init
<1>1. TypeOK
  <2>1. << >> \in Seq(NodeIdx) /\ DOMAIN ends = {} /\ size = 0
    BY EmptySeq
  <2>2. NoEos \in [idx : NodeIdx, cost : Int]
    BY SizesAssumption DEF NoEos, NodeIdx, I32_MAX
  <2>3. /\ << >> \in [1 .. 0 -> Seq(VNode)] /\ << >> \in [1 .. 0 -> Seq(Node)]
        /\ << >> \in [1 .. 0 -> Seq(NodeIdx)] /\ DOMAIN << >> = 1 .. 0
    BY EmptySeq, LenProperties
  <2>4. /\ ends \in [DOMAIN ends -> Seq(VNode)] /\ ends_full \in [DOMAIN ends -> Seq(Node)]
        /\ indices \in [DOMAIN ends -> Seq(NodeIdx)]
    BY <2>3
  <2>5. 0 .. size - 1 \subseteq DOMAIN ends
    BY <2>1
  <2>6. DOMAIN ends \subseteq Nat /\ eos \in [idx : NodeIdx, cost : Int]
    BY <2>1, <2>2
  <2>7. /\ size \in Nat /\ at \in Nat /\ path \in Seq(NodeIdx)
        /\ phase \in {"new", "building", "connected", "tracing", "done", "failed"}
    BY <2>1
  <2>8. created \in BOOLEAN
    BY Zenon
  <2> HIDE DEF Init
  <2> QED BY <2>4, <2>5, <2>6, <2>7, <2>8 DEF TypeOK
<1> QED BY <1>1 DEF LatticeInv, RowsAreParallel, SentenceNotEmpty, Frontier, PredecessorsStayBest, NoDeadEnd,
                    EosConnected, PathTilesSentence, CostsWithin

(* The rows right after a reset: BOS in row 0 and nothing else.            *)
LEMMA ResetLatticeInv ==
  ASSUME LatticeInv, NEW length \in 1 .. MaxLen, Reset(length)
  PROVE  LatticeInv'
<1> DEFINE Bos == [total |-> 0, right |-> BosId]
<1>1. /\ length \in Nat /\ length >= 1 /\ DOMAIN ends \subseteq Nat
      /\ DOMAIN ends_full = DOMAIN ends /\ DOMAIN indices = DOMAIN ends
  BY SizesAssumption DEF LatticeInv, TypeOK
<1>2. /\ size' = length + 1 /\ at' = 0 /\ created' = FALSE /\ phase' = "building"
      /\ path' = << >> /\ eos' = NoEos
      /\ DOMAIN ends' = DOMAIN ends \cup 0 .. length
      /\ DOMAIN ends_full' = DOMAIN ends' /\ DOMAIN indices' = DOMAIN ends'
      /\ ends'[0] = <<Bos>>
      /\ \A e \in DOMAIN ends' \ {0} : ends'[e] = << >>
      /\ \A e \in DOMAIN ends' : ends_full'[e] = << >> /\ indices'[e] = << >>
      /\ ends' = [e \in DOMAIN ends' |-> ends'[e]]
      /\ ends_full' = [e \in DOMAIN ends' |-> << >>] /\ indices' = [e \in DOMAIN ends' |-> << >>]
  <2> DEFINE Rows == DOMAIN ends \cup 0 .. length
             Empty == [e \in Rows |-> << >>]
  <2>1. length + 1 - 1 = length
    BY <1>1
  <2>2. /\ ends' = [Empty EXCEPT ![0] = <<Bos>>]
        /\ ends_full' = Empty /\ indices' = Empty
    BY <1>1, <2>1 DEF Reset, ResetVec
  <2>3. 0 \in Rows
    BY <1>1
  <2>4. DOMAIN ends' = Rows /\ DOMAIN ends_full' = Rows /\ DOMAIN indices' = Rows
    BY <2>2
  <2>5. /\ ends'[0] = <<Bos>> /\ \A e \in Rows \ {0} : ends'[e] = << >>
        /\ \A e \in Rows : ends_full'[e] = << >> /\ indices'[e] = << >>
    BY <2>2, <2>3
  <2>6. ends' = [e \in Rows |-> ends'[e]]
    BY <2>2
  <2>7. /\ size' = length + 1 /\ at' = 0 /\ created' = FALSE /\ phase' = "building"
        /\ path' = << >> /\ eos' = NoEos
    BY DEF Reset
  <2> HIDE DEF Rows
  <2>8. ends_full' = [e \in Rows |-> << >>] /\ indices' = [e \in Rows |-> << >>]
    BY <2>2
  <2> QED BY <2>4, <2>5, <2>6, <2>7, <2>8 DEF Rows
<1>3. <<Bos>> \in Seq(VNode) /\ Len(<<Bos>>) = 1 /\ <<Bos>>[1] = Bos /\ <<Bos>> # << >>
  <2>1. Bos \in VNode
    BY IdsAssumption DEF VNode
  <2> QED BY <2>1
<1>4. /\ << >> \in Seq(VNode) /\ << >> \in Seq(Node) /\ << >> \in Seq(NodeIdx)
      /\ Len(<< >>) = 0
  BY EmptySeq
<1> HIDE DEF Bos
<1>5. 0 \in DOMAIN ends' /\ DOMAIN ends' \subseteq Nat /\ 0 .. size' - 1 \subseteq DOMAIN ends'
  BY <1>1, <1>2
<1>6. TypeOK'
  <2>1. \A e \in DOMAIN ends' : ends'[e] \in Seq(VNode)
    BY <1>2, <1>3, <1>4
  <2>2. ends' \in [DOMAIN ends' -> Seq(VNode)]
    BY <1>2, <2>1
  <2>3. ends_full' \in [DOMAIN ends' -> Seq(Node)] /\ indices' \in [DOMAIN ends' -> Seq(NodeIdx)]
    BY <1>2, <1>4
  <2>4. NoEos \in [idx : NodeIdx, cost : Int]
    BY SizesAssumption DEF NoEos, NodeIdx, I32_MAX
  <2>5. size' \in Nat /\ at' \in Nat
    BY <1>1, <1>2
  <2> QED BY <1>2, <1>4, <1>5, <2>2, <2>3, <2>4, <2>5 DEF TypeOK
<1>7. RowsAreParallel'
  BY <1>2, <1>4, <1>5 DEF RowsAreParallel, Bos
<1>8. Frontier'
  <2>1. size' \in Nat \ {0} /\ at' \in 0 .. size' - 1
    BY <1>1, <1>2
  <2> QED BY <1>2, <1>4, <1>5, <2>1 DEF Frontier
<1>9. PredecessorsStayBest'
  <2>1. \A e \in 1 .. size' - 1 : e \in DOMAIN ends' /\ ends_full'[e] = << >>
    BY <1>1, <1>2, <1>5
  <2> QED BY <1>4, <2>1 DEF PredecessorsStayBest
<1>10. NoDeadEnd'
  <2>1. 0 \in at' .. size' - 1 /\ ends'[0] # << >>
    BY <1>1, <1>2, <1>3
  <2> QED BY <2>1 DEF NoDeadEnd
<1>11. EosConnected' /\ PathTilesSentence'
  BY <1>2 DEF EosConnected, PathTilesSentence
<1>12. CostsWithin'
  <2>1. \A e \in 1 .. size' - 1 : e \in DOMAIN ends' \ {0} /\ ends'[e] = << >>
    BY <1>1, <1>2, <1>5
  <2> QED BY <1>4, <2>1 DEF CostsWithin
<1>13. SentenceNotEmpty'
  BY <1>1, <1>2 DEF SentenceNotEmpty
<1> QED BY <1>6, <1>7, <1>8, <1>9, <1>10, <1>11, <1>12, <1>13 DEF LatticeInv

(* Steps of the builder that insert nothing.                               *)
LEMMA MoveLatticeInv ==
  ASSUME LatticeInv, SkipUnreachable \/ NextBoundary \/ GiveUp
  PROVE  LatticeInv'
<1>1. /\ UNCHANGED <<ends, ends_full, indices, eos, size, path>>
      /\ phase = "building" /\ at < size - 1
      /\ phase' \in {"building", "failed"}
      /\ phase' = "building" => at' = at + 1
      /\ phase' = "failed" => at' = at
  BY DEF SkipUnreachable, NextBoundary, GiveUp
<1>2. size \in Nat /\ at \in Nat
  BY DEF LatticeInv, TypeOK
<1>3. at' \in Nat /\ at' \in 0 .. size - 1 /\ at <= at' /\ created' \in BOOLEAN
  <2>1. at' = at \/ at' = at + 1
    BY DEF SkipUnreachable, NextBoundary, GiveUp
  <2>2. created' = created \/ created' = FALSE
    BY DEF SkipUnreachable, NextBoundary, GiveUp
  <2>3. at' \in Nat /\ at' \in 0 .. size - 1 /\ at <= at'
    BY <1>1, <1>2, <2>1
  <2>4. created \in BOOLEAN
    BY DEF LatticeInv, TypeOK
  <2> QED BY <2>2, <2>3, <2>4
<1>4. TypeOK'
  BY <1>1, <1>3 DEF LatticeInv, TypeOK
<1>5. RowsAreParallel' /\ EosConnected' /\ PathTilesSentence' /\ CostsWithin'
  BY <1>1 DEF LatticeInv, RowsAreParallel, EosConnected, PathTilesSentence, CostsWithin
<1>6. PredecessorsStayBest'
  <2>1. PredecessorsStayBest
    BY DEF LatticeInv
  <2> QED BY <1>1, <2>1 DEF PredecessorsStayBest
<1>7. phase' = "building" => \E e \in at + 1 .. size - 1 : ends[e] # << >>
  <2>1. CASE SkipUnreachable
    <3>1. PICK e \in at .. size - 1 : ends[e] # << >>
      BY <1>1 DEF LatticeInv, NoDeadEnd
    <3>2. at \in DOMAIN ends
      <4>1. at \in 0 .. size - 1 /\ 0 .. size - 1 \subseteq DOMAIN ends
        BY <1>1, <1>2 DEF LatticeInv, TypeOK
      <4> QED BY <4>1
    <3>3. e # at
      BY <2>1, <3>1, <3>2 DEF SkipUnreachable, HasPreviousNode
    <3>4. e \in at + 1 .. size - 1
      BY <1>2, <3>1, <3>3
    <3> QED BY <3>1, <3>4
  <2>2. CASE NextBoundary
    BY <1>1, <2>2 DEF NextBoundary, WordsWereCreated, LatticeInv, Frontier
  <2>3. CASE GiveUp
    BY <2>3 DEF GiveUp
  <2> QED BY <2>1, <2>2, <2>3
<1>8. NoDeadEnd'
  BY <1>1, <1>7 DEF NoDeadEnd
<1>9. Frontier'
  <2>1. size' \in Nat \ {0} /\ at' \in 0 .. size' - 1
    BY <1>1, <1>2, <1>3
  <2>2. ASSUME NEW e \in DOMAIN ends' \ {0}, NEW i \in 1 .. Len(ends_full'[e])
        PROVE  ends_full'[e][i].begin <= at'
    <3>1. ends_full[e][i].begin <= at /\ ends_full[e][i] \in Node
      <4>1. e \in DOMAIN ends
        BY <1>1
      <4> QED BY <1>1, <4>1, RowTypes DEF LatticeInv, Frontier
    <3> QED BY <1>1, <1>2, <1>3, <3>1 DEF Node
  <2>3. ~(phase' = "building" /\ created')
    <3>1. CASE SkipUnreachable
      <4>1. at \in 0 .. size - 1 /\ ends[at] = << >>
        <5>1. at \in 0 .. size - 1 /\ 0 .. size - 1 \subseteq DOMAIN ends
          BY <1>1, <1>2 DEF LatticeInv, TypeOK
        <5> QED BY <3>1, <5>1 DEF SkipUnreachable, HasPreviousNode
      <4> QED BY <1>1, <3>1, <4>1 DEF SkipUnreachable, LatticeInv, Frontier
    <3>2. CASE NextBoundary
      BY <3>2 DEF NextBoundary
    <3>3. CASE GiveUp
      BY <3>3 DEF GiveUp
    <3> QED BY <3>1, <3>2, <3>3
  <2> QED BY <2>1, <2>2, <2>3 DEF Frontier
<1>10. SentenceNotEmpty'
  BY <1>1 DEF LatticeInv, SentenceNotEmpty
<1> QED BY <1>4, <1>5, <1>6, <1>8, <1>9, <1>10 DEF LatticeInv
-----------------------------------------------------------------------------
(* What insert does to the three arrays: one element more in the row of    *)
(* the word's end, all other rows as they were.                            *)
LEMMA InsertRows ==
  ASSUME LatticeInv, NEW end \in at + 1 .. size - 1, NEW word \in Words, Insert(end, word),
         NEW node, node = [begin |-> at, end |-> end, left |-> word.left,
                           right |-> word.right, cost |-> word.cost]
  PROVE  /\ node \in Node /\ at \in DOMAIN ends /\ end \in DOMAIN ends \ {0} /\ at < end
         /\ DOMAIN ends' = DOMAIN ends
         /\ \A e \in DOMAIN ends \ {end} :
              ends'[e] = ends[e] /\ ends_full'[e] = ends_full[e] /\ indices'[e] = indices[e]
         /\ ends'[end] = Append(ends[end], [total |-> ConnectNode(ends[at], node).cost, right |-> node.right])
         /\ ends_full'[end] = Append(ends_full[end], node)
         /\ indices'[end] = Append(indices[end], ConnectNode(ends[at], node).idx)
         /\ ends' \in [DOMAIN ends -> Seq(VNode)]
         /\ ends_full' \in [DOMAIN ends -> Seq(Node)]
         /\ indices' \in [DOMAIN ends -> Seq(NodeIdx)]
<1> DEFINE v == [total |-> ConnectNode(ends[at], node).cost, right |-> node.right]
           idx == ConnectNode(ends[at], node).idx
<1>1. /\ at \in Nat /\ size \in Nat /\ DOMAIN ends \subseteq Nat /\ 0 .. size - 1 \subseteq DOMAIN ends
      /\ at < size - 1
  BY DEF LatticeInv, TypeOK, Insert
<1>2. at \in DOMAIN ends /\ end \in DOMAIN ends \ {0} /\ at < end /\ end \in Nat
  <2>1. at \in 0 .. size - 1 /\ end \in 0 .. size - 1 /\ end # 0 /\ at < end
    BY <1>1
  <2> QED BY <1>1, <2>1
<1>3. node \in Node
  <2>1. word.left \in Ids /\ word.right \in Ids /\ word.cost \in Int
    BY WordsAssumption
  <2> QED BY <1>1, <1>2, <2>1 DEF Node
<1>4. v \in VNode /\ idx \in NodeIdx
  <2>1. ends[at] \in Seq(VNode) /\ node.right \in Ids
    BY <1>2, <1>3, RowTypes DEF LatticeInv, Node
  <2>2. ConnectNode(ends[at], node).cost \in Int /\ idx \in NodeIdx
    BY <1>3, <2>1, ConnectNodeCorrect
  <2> QED BY <2>1, <2>2 DEF VNode
<1>5. /\ ends' = [ends EXCEPT ![end] = Append(@, v)]
      /\ indices' = [indices EXCEPT ![end] = Append(@, idx)]
      /\ ends_full' = [ends_full EXCEPT ![end] = Append(@, node)]
  BY DEF Insert, RowOf
<1> HIDE DEF v, idx
<1>6. /\ ends \in [DOMAIN ends -> Seq(VNode)] /\ ends_full \in [DOMAIN ends -> Seq(Node)]
      /\ indices \in [DOMAIN ends -> Seq(NodeIdx)]
  BY DEF LatticeInv, TypeOK
<1>7. /\ ends[end] \in Seq(VNode) /\ ends_full[end] \in Seq(Node) /\ indices[end] \in Seq(NodeIdx)
  BY <1>2, <1>6
<1>8. /\ Append(ends[end], v) \in Seq(VNode) /\ Append(ends_full[end], node) \in Seq(Node)
      /\ Append(indices[end], idx) \in Seq(NodeIdx)
  BY <1>3, <1>4, <1>7, AppendProperties
<1>9. /\ ends' \in [DOMAIN ends -> Seq(VNode)] /\ ends_full' \in [DOMAIN ends -> Seq(Node)]
      /\ indices' \in [DOMAIN ends -> Seq(NodeIdx)]
  BY <1>5, <1>6, <1>8
<1>10. /\ \A e \in DOMAIN ends \ {end} :
            ends'[e] = ends[e] /\ ends_full'[e] = ends_full[e] /\ indices'[e] = indices[e]
       /\ ends'[end] = Append(ends[end], v) /\ ends_full'[end] = Append(ends_full[end], node)
       /\ indices'[end] = Append(indices[end], idx)
  BY <1>2, <1>5, <1>6
<1>11. DOMAIN ends' = DOMAIN ends
  BY <1>5
<1> QED BY <1>2, <1>3, <1>9, <1>10, <1>11 DEF v, idx

(* The last element of an appended row, and the others.                    *)
LEMMA AppendElements ==
  ASSUME NEW S, NEW s \in Seq(S), NEW x \in S
  PROVE  /\ Len(Append(s, x)) = Len(s) + 1 /\ Len(s) \in Nat
         /\ \A i \in 1 .. Len(s) : Append(s, x)[i] = s[i]
         /\ Append(s, x)[Len(s) + 1] = x
         /\ Append(s, x) # << >>
<1>1. /\ Len(s) \in Nat /\ Len(Append(s, x)) = Len(s) + 1
      /\ \A i \in 1 .. Len(s) : Append(s, x)[i] = s[i]
      /\ Append(s, x)[Len(s) + 1] = x
  BY AppendProperties, LenProperties
<1>2. Append(s, x) # << >>
  BY <1>1, EmptySeq
<1> QED BY <1>1, <1>2

(* Costs stay within reach when one more word is put behind a predecessor. *)
LEMMA StepBound ==
  ASSUME NEW e \in Nat, NEW f \in Nat, NEW n \in Nat, e < f, f <= n,
         NEW step \in Nat, NEW total \in Int, total \in -(e * step) .. e * step,
         NEW delta \in -step .. step, n * step < I32_MAX
  PROVE  /\ total + delta \in -(f * step) .. f * step
         /\ Wrap(total + delta) = total + delta
         /\ total + delta < I32_MAX
<1>1. CostWidth \in Nat \ {0} /\ I32_MAX \in Nat /\ I32_MAX = CostWidth - 1
  BY SizesAssumption DEF I32_MAX
<1>2. \A a, b \in Nat : a * step \in Nat /\ (a <= b => a * step <= b * step)
  <2> SUFFICES ASSUME NEW a \in Nat, NEW b \in Nat, a <= b
               PROVE  a * step \in Nat /\ b * step \in Nat /\ a * step <= b * step
    OBVIOUS
  <2>1. PICK d \in Nat : b = a + d
    <3>1. b - a \in Nat /\ b = a + (b - a)
      OBVIOUS
    <3> QED BY <3>1
  <2>2. b * step = a * step + d * step /\ d * step \in Nat /\ a * step \in Nat
    BY <2>1
  <2> QED BY <2>2
<1>3. (e + 1) * step = e * step + step
  OBVIOUS
<1>4. e * step + step <= f * step /\ f * step <= n * step
  BY <1>2, <1>3, e + 1 <= f
<1> DEFINE es == e * step
           fs == f * step
           ns == n * step
<1>5. es \in Nat /\ fs \in Nat /\ ns \in Nat /\ es + step <= fs /\ fs <= ns /\ ns < I32_MAX
      /\ total \in -es .. es
  BY <1>2, <1>4
<1> HIDE DEF es, fs, ns
<1>6. total + delta \in -fs .. fs /\ total + delta < I32_MAX
      /\ -CostWidth <= total + delta /\ total + delta < CostWidth
  BY <1>1, <1>5
<1> QED BY <1>6 DEF Wrap, fs

(* insert keeps it: the new word joins a row behind the one it looks back  *)
(* to, so no earlier choice of a predecessor changes.                      *)
LEMMA InsertLatticeInv ==
  ASSUME LatticeInv, NEW end \in at + 1 .. size - 1, NEW word \in Words, Insert(end, word)
  PROVE  LatticeInv'
<1> DEFINE node == [begin |-> at, end |-> end, left |-> word.left,
                    right |-> word.right, cost |-> word.cost]
           c == ConnectNode(ends[at], node)
           v == [total |-> c.cost, right |-> node.right]
           n == Len(ends[end])
<1>0. TypeOK /\ RowsAreParallel /\ Frontier /\ PredecessorsStayBest /\ CostsWithin
  BY DEF LatticeInv
<1>1. /\ UNCHANGED <<eos, size, at, phase, path>> /\ created' = TRUE /\ phase = "building"
      /\ at < size - 1 /\ HasPreviousNode(at)
  BY DEF Insert
<1>2. /\ node \in Node /\ at \in DOMAIN ends /\ end \in DOMAIN ends \ {0} /\ at < end
      /\ DOMAIN ends' = DOMAIN ends
      /\ \A e \in DOMAIN ends \ {end} :
           ends'[e] = ends[e] /\ ends_full'[e] = ends_full[e] /\ indices'[e] = indices[e]
      /\ ends'[end] = Append(ends[end], v)
      /\ ends_full'[end] = Append(ends_full[end], node)
      /\ indices'[end] = Append(indices[end], c.idx)
      /\ ends' \in [DOMAIN ends -> Seq(VNode)]
      /\ ends_full' \in [DOMAIN ends -> Seq(Node)]
      /\ indices' \in [DOMAIN ends -> Seq(NodeIdx)]
  BY InsertRows, Zenon
<1>3. /\ node.begin = at /\ node.end = end /\ node.left = word.left /\ node.right = word.right
      /\ node.cost = word.cost /\ v.total = c.cost /\ v.right = node.right
  OBVIOUS
<1>4. FirstOfCheapest(ends[at], node, c.idx, c.cost) /\ v \in VNode /\ c.idx \in NodeIdx
  <2>1. ends[at] \in Seq(VNode) /\ node.right \in Ids
    BY <1>0, <1>2, RowTypes DEF Node
  <2>2. FirstOfCheapest(ends[at], node, c.idx, c.cost) /\ c.cost \in Int /\ c.idx \in NodeIdx
    BY <1>2, <2>1, ConnectNodeCorrect
  <2> QED BY <2>1, <2>2 DEF VNode
<1> HIDE DEF node, c, v
(* the three rows of the word's end, one element longer                    *)
<1>6. /\ n \in Nat /\ Len(ends_full[end]) = n /\ Len(indices[end]) = n
      /\ Len(ends'[end]) = n + 1 /\ Len(ends_full'[end]) = n + 1 /\ Len(indices'[end]) = n + 1
      /\ ends'[end] # << >>
      /\ \A i \in 1 .. n : /\ ends'[end][i] = ends[end][i]
                           /\ ends_full'[end][i] = ends_full[end][i]
                           /\ indices'[end][i] = indices[end][i]
      /\ ends'[end][n + 1] = v /\ ends_full'[end][n + 1] = node /\ indices'[end][n + 1] = c.idx
  <2>1. ends[end] \in Seq(VNode) /\ ends_full[end] \in Seq(Node) /\ indices[end] \in Seq(NodeIdx)
    BY <1>0, <1>2, RowTypes
  <2>2. Len(ends_full[end]) = n /\ Len(indices[end]) = n
    BY <1>0, <1>1, <1>2 DEF RowsAreParallel
  <2>3. /\ Len(Append(ends[end], v)) = n + 1 /\ n \in Nat
        /\ \A i \in 1 .. n : Append(ends[end], v)[i] = ends[end][i]
        /\ Append(ends[end], v)[n + 1] = v /\ Append(ends[end], v) # << >>
    BY <1>4, <2>1, AppendElements
  <2>4. /\ Len(Append(ends_full[end], node)) = n + 1
        /\ \A i \in 1 .. n : Append(ends_full[end], node)[i] = ends_full[end][i]
        /\ Append(ends_full[end], node)[n + 1] = node
    <3>1. node \in Node /\ ends_full[end] \in Seq(Node)
      BY <1>2, <2>1
    <3> HIDE DEF n
    <3> QED BY <2>2, <3>1, AppendElements
  <2>5. /\ Len(Append(indices[end], c.idx)) = n + 1
        /\ \A i \in 1 .. n : Append(indices[end], c.idx)[i] = indices[end][i]
        /\ Append(indices[end], c.idx)[n + 1] = c.idx
    <3>1. c.idx \in NodeIdx /\ indices[end] \in Seq(NodeIdx)
      BY <1>4, <2>1
    <3> HIDE DEF n
    <3> QED BY <2>2, <3>1, AppendElements
  <2> QED BY <1>2, <2>2, <2>3, <2>4, <2>5
<1> HIDE DEF n
<1>7. /\ size \in Nat /\ at \in Nat /\ DOMAIN ends \subseteq Nat
      /\ 0 .. size - 1 \subseteq DOMAIN ends /\ size \in Nat \ {0} /\ at \in 0 .. size - 1
  BY <1>0, <1>1 DEF TypeOK, Frontier
<1>8. TypeOK'
  <2>1. created' \in BOOLEAN
    BY <1>1
  <2>2. ends' \in [DOMAIN ends' -> Seq(VNode)]
    BY <1>2
  <2>3. ends_full' \in [DOMAIN ends' -> Seq(Node)] /\ indices' \in [DOMAIN ends' -> Seq(NodeIdx)]
    BY <1>2
  <2>4. DOMAIN ends' \subseteq Nat /\ 0 .. size' - 1 \subseteq DOMAIN ends'
    BY <1>1, <1>2, <1>7
  <2>5. eos' \in [idx : NodeIdx, cost : Int] /\ size' \in Nat /\ at' \in Nat
        /\ phase' \in {"new", "building", "connected", "tracing", "done", "failed"}
        /\ path' \in Seq(NodeIdx)
    BY <1>0, <1>1 DEF TypeOK
  <2> QED BY <2>1, <2>2, <2>3, <2>4, <2>5 DEF TypeOK
<1>9. RowsAreParallel'
  <2>1. /\ ends'[0] = <<[total |-> 0, right |-> BosId]>>
        /\ ends_full'[0] = << >> /\ indices'[0] = << >>
    <3>1. 0 \in DOMAIN ends \ {end}
      BY <1>2, <1>7
    <3> QED BY <1>0, <1>1, <1>2, <3>1 DEF RowsAreParallel
  <2>2. ASSUME NEW e \in DOMAIN ends \ {0}
        PROVE  /\ Len(ends'[e]) = Len(ends_full'[e]) /\ Len(ends'[e]) = Len(indices'[e])
               /\ e >= size => ends'[e] = << >>
               /\ \A i \in 1 .. Len(ends_full'[e]) :
                    /\ ends_full'[e][i].end = e
                    /\ ends_full'[e][i].begin < e
                    /\ ends'[e][i].right = ends_full'[e][i].right
    <3>1. CASE e # end
      <4>1. /\ ends'[e] = ends[e] /\ ends_full'[e] = ends_full[e] /\ indices'[e] = indices[e]
        BY <1>2, <3>1
      <4> QED BY <1>0, <1>1, <4>1 DEF RowsAreParallel
    <3>2. CASE e = end
      <4>1. ~(end >= size)
        BY <1>7
      <4>2. ASSUME NEW i \in 1 .. n + 1
            PROVE  /\ ends_full'[end][i].end = end
                   /\ ends_full'[end][i].begin < end
                   /\ ends'[end][i].right = ends_full'[end][i].right
        <5>1. CASE i = n + 1
          <6>1. ends_full'[end][i] = node /\ ends'[end][i] = v
            BY <1>6, <5>1
          <6> QED BY <1>2, <1>3, <6>1
        <5>2. CASE i # n + 1
          <6>1. i \in 1 .. n /\ i \in 1 .. Len(ends_full[end])
            BY <1>6, <5>2
          <6>2. /\ ends_full[end][i].end = end /\ ends_full[end][i].begin < end
                /\ ends[end][i].right = ends_full[end][i].right
            BY <1>0, <1>1, <1>2, <6>1 DEF RowsAreParallel
          <6> QED BY <1>6, <6>1, <6>2
        <5> QED BY <5>1, <5>2
      <4> QED BY <1>6, <3>2, <4>1, <4>2
    <3> QED BY <3>1, <3>2
  <2> QED BY <1>1, <1>2, <2>1, <2>2 DEF RowsAreParallel
<1>10. Frontier'
  <2>1. ASSUME NEW e \in DOMAIN ends \ {0}, NEW i \in 1 .. Len(ends_full'[e])
        PROVE  ends_full'[e][i].begin <= at
    <3>1. CASE e # end
      BY <1>0, <1>1, <1>2, <2>1, <3>1 DEF Frontier
    <3>2. CASE e = end
      <4>1. CASE i = n + 1
        BY <1>3, <1>6, <1>7, <3>2, <4>1
      <4>2. CASE i # n + 1
        <5>1. i \in 1 .. n
          BY <1>6, <2>1, <3>2, <4>2
        <5> QED BY <1>0, <1>1, <1>2, <1>6, <3>2, <5>1 DEF Frontier
      <4> QED BY <4>1, <4>2
    <3> QED BY <3>1, <3>2
  <2>2. ends'[at] # << >> /\ end \in at + 1 .. size - 1 /\ ends'[end] # << >>
    <3>1. at \in DOMAIN ends \ {end} /\ ends[at] # << >>
      BY <1>1, <1>2, <1>7 DEF HasPreviousNode
    <3> QED BY <1>2, <1>6, <3>1
  <2> QED BY <1>1, <1>2, <1>7, <2>1, <2>2 DEF Frontier
(* predecessors lie in rows up to at, which insert leaves alone            *)
<1>11. PredecessorsStayBest'
  <2> SUFFICES ASSUME NEW e \in 1 .. size - 1, NEW i \in 1 .. Len(ends_full'[e])
               PROVE  FirstOfCheapest(ends'[ends_full'[e][i].begin], ends_full'[e][i],
                                      indices'[e][i], ends'[e][i].total)
    BY <1>1 DEF PredecessorsStayBest
  <2>0. e \in DOMAIN ends \ {0}
    BY <1>7
  <2>1. CASE e # end \/ i # n + 1
    <3>1. /\ i \in 1 .. Len(ends_full[e]) /\ ends_full'[e][i] = ends_full[e][i]
          /\ ends'[e][i] = ends[e][i] /\ indices'[e][i] = indices[e][i]
      <4>1. CASE e # end
        BY <1>2, <2>0, <4>1
      <4>2. CASE e = end
        <5>1. i \in 1 .. n
          BY <1>6, <2>1, <4>2
        <5> QED BY <1>6, <4>2, <5>1
      <4> QED BY <4>1, <4>2
    <3>2. ends'[ends_full[e][i].begin] = ends[ends_full[e][i].begin]
      <4>1. ends_full[e][i].begin \in Nat
        BY <1>0, <2>0, <3>1, RowTypes DEF Node
      <4>2. ends_full[e][i].begin <= at
        BY <1>0, <1>1, <2>0, <3>1 DEF Frontier
      <4>3. ends_full[e][i].begin \in 0 .. size - 1 /\ ends_full[e][i].begin # end
        <5>1. at \in Nat /\ size \in Nat /\ at < size - 1 /\ end \in Nat /\ at < end
          BY <1>1, <1>2, <1>7
        <5> QED BY <4>1, <4>2, <5>1
      <4> QED BY <1>2, <1>7, <4>3
    <3>3. FirstOfCheapest(ends[ends_full[e][i].begin], ends_full[e][i],
                          indices[e][i], ends[e][i].total)
      BY <1>0, <1>1, <3>1 DEF PredecessorsStayBest
    <3> QED BY <3>1, <3>2, <3>3
  <2>2. CASE e = end /\ i = n + 1
    <3>1. ends_full'[e][i] = node /\ ends'[e][i].total = c.cost /\ indices'[e][i] = c.idx
      BY <1>3, <1>6, <2>2
    <3>2. ends'[node.begin] = ends[at]
      BY <1>2, <1>3, <1>7
    <3> QED BY <1>4, <3>1, <3>2
  <2> QED BY <2>1, <2>2
<1>12. NoDeadEnd'
  <2>1. end \in at .. size - 1
    BY <1>7
  <2>2. ends'[end] # << >>
    BY <1>6
  <2> QED BY <1>1, <2>1, <2>2 DEF NoDeadEnd
<1>13. EosConnected' /\ PathTilesSentence'
  BY <1>1 DEF EosConnected, PathTilesSentence
<1>14. CostsWithin'
  <2> SUFFICES ASSUME (size - 1) * MaxStep < I32_MAX,
                      NEW e \in 1 .. size - 1, NEW i \in 1 .. Len(ends'[e])
               PROVE  ends'[e][i].total \in -(e * MaxStep) .. e * MaxStep
    BY <1>1 DEF CostsWithin
  <2>0. e \in DOMAIN ends \ {0}
    BY <1>7
  <2>1. CASE e # end \/ i # n + 1
    <3>1. i \in 1 .. Len(ends[e]) /\ ends'[e][i] = ends[e][i]
      <4>1. CASE e # end
        BY <1>2, <2>0, <4>1
      <4>2. CASE e = end
        <5>1. i \in 1 .. n
          BY <1>6, <2>1, <4>2
        <5> QED BY <1>6, <4>2, <5>1 DEF n
      <4> QED BY <4>1, <4>2
    <3> QED BY <1>0, <1>1, <3>1 DEF CostsWithin
  <2>2. CASE e = end /\ i = n + 1
    <3>1. ends'[e][i].total = c.cost
      BY <1>3, <1>6, <2>2
    (* what any predecessor contributes *)
    <3>2. ASSUME NEW k \in 0 .. Len(ends[at]) - 1
          PROVE  /\ CostVia(ends[at], node, k) \in -(end * MaxStep) .. end * MaxStep
                 /\ CostVia(ends[at], node, k) < I32_MAX
                 /\ Connected(ends[at][k + 1])
      <4> DEFINE l == ends[at][k + 1]
                 delta == Conn[l.right][word.left] + word.cost
      <4>1. k + 1 \in 1 .. Len(ends[at]) /\ l.right \in Ids /\ l.total \in Int
        <5>1. at \in DOMAIN ends
          BY <1>2
        <5>2. /\ Len(ends[at]) \in Nat
              /\ \A j \in 1 .. Len(ends[at]) : ends[at][j].total \in Int /\ ends[at][j].right \in Ids
          BY <1>0, <5>1, RowTypes
        <5>3. k + 1 \in 1 .. Len(ends[at])
          BY <5>2
        <5> QED BY <5>2, <5>3
      <4>2. l.total \in -(at * MaxStep) .. at * MaxStep
        <5>1. CASE at = 0
          <6>1. ends[at] = <<[total |-> 0, right |-> BosId]>>
            BY <1>0, <1>1, <5>1 DEF RowsAreParallel
          <6>2. l.total = 0
            BY <4>1, <6>1
          <6>3. at * MaxStep = 0
            BY <5>1, StepAssumption
          <6> QED BY <6>2, <6>3
        <5>2. CASE at # 0
          <6>1. at \in 1 .. size - 1
            BY <1>7, <5>2
          <6> QED BY <1>0, <1>1, <4>1, <6>1 DEF CostsWithin
        <5> QED BY <5>1, <5>2
      <4>3. delta \in -MaxStep .. MaxStep /\ MaxStep \in Nat
        <5>1. word.left \in Ids /\ word.cost \in Int
          BY WordsAssumption
        <5> QED BY <4>1, <5>1, StepAssumption
      <4> HIDE DEF delta
      <4>4. /\ at \in Nat /\ end \in Nat /\ size - 1 \in Nat /\ at < end /\ end <= size - 1
        BY <1>2, <1>7
      <4>5. /\ l.total + delta \in -(end * MaxStep) .. end * MaxStep
            /\ Wrap(l.total + delta) = l.total + delta
            /\ l.total + delta < I32_MAX
        BY <4>1, <4>2, <4>3, <4>4, StepBound
      <4>6. CostVia(ends[at], node, k) = Wrap(l.total + delta)
        <5>1. word.left \in Ids /\ word.cost \in Int
          BY WordsAssumption
        <5>2. Conn[l.right][word.left] \in Int
          BY <4>1, <5>1, IdsAssumption
        <5>3. l.total + Conn[l.right][word.left] + word.cost = l.total + delta
          <6>1. l.total \in Int
            BY <4>1
          <6> HIDE DEF l
          <6> QED BY <5>1, <5>2, <6>1 DEF delta
        <5> QED BY <1>3, <5>3 DEF CostVia, NewCost
      <4>7. Connected(l)
        <5>1. /\ at * MaxStep \in Nat /\ l.total <= at * MaxStep
          BY <4>2, <4>3, <4>4
        <5>2. at * MaxStep <= (size - 1) * MaxStep
          <6>1. ASSUME NEW d \in Nat PROVE (at + d) * MaxStep = at * MaxStep + d * MaxStep
                                             /\ d * MaxStep \in Nat
            BY <4>3, <4>4
          <6>2. (size - 1) - at \in Nat /\ at + ((size - 1) - at) = size - 1
            BY <4>4
          <6> QED BY <5>1, <6>1, <6>2
        <5>3. (size - 1) * MaxStep \in Int /\ I32_MAX \in Int
          BY <4>3, <4>4, SizesAssumption DEF I32_MAX
        <5> QED BY <4>1, <5>1, <5>2, <5>3 DEF Connected
      <4> QED BY <4>5, <4>6, <4>7
    <3>3. Candidates(ends[at], node) # {}
      <4>1. Len(ends[at]) \in Nat \ {0}
        BY <1>0, <1>1, <1>2, RowTypes, EmptySeq DEF HasPreviousNode
      <4>2. 0 \in 0 .. Len(ends[at]) - 1
        BY <4>1
      <4>3. 0 \in Candidates(ends[at], node)
        BY <3>2, <4>2 DEF Candidates, CostVia
      <4> QED BY <4>3
    <3>4. c.cost # I32_MAX
      BY <1>4, <3>3 DEF FirstOfCheapest
    <3>5. c.idx.index \in 0 .. Len(ends[at]) - 1 /\ c.cost = CostVia(ends[at], node, c.idx.index)
      BY <1>4, <3>4 DEF FirstOfCheapest, Candidates
    <3> QED BY <2>2, <3>1, <3>2, <3>5
  <2> QED BY <2>1, <2>2
<1>15. SentenceNotEmpty'
  BY <1>1 DEF LatticeInv, SentenceNotEmpty
<1> QED BY <1>8, <1>9, <1>10, <1>11, <1>12, <1>13, <1>14, <1>15 DEF LatticeInv

(* connect_eos keeps it: the pointer it stores is into the last row.       *)
LEMMA ConnectEosLatticeInv == ASSUME LatticeInv, ConnectEos PROVE LatticeInv'
<1> DEFINE c == ConnectNode(ends[EosNode.begin], EosNode)
<1>1. /\ UNCHANGED <<ends, ends_full, indices, size, at, created, path>>
      /\ phase = "building" /\ at = size - 1
      /\ \/ phase' = "failed" /\ eos' = eos
         \/ phase' = "connected" /\ eos' = c /\ c.cost # I32_MAX
  BY DEF ConnectEos
<1>2. /\ size \in Nat \ {0} /\ DOMAIN ends \subseteq Nat /\ 0 .. size - 1 \subseteq DOMAIN ends
      /\ TypeOK
  BY <1>1 DEF LatticeInv, TypeOK, Frontier
<1>3. size - 1 \in DOMAIN ends /\ EosNode \in Node /\ EosNode.begin = size - 1
  <2>1. size - 1 \in DOMAIN ends /\ size - 1 \in Nat
    BY <1>2
  <2> QED BY <2>1, IdsAssumption DEF EosNode, Node
<1>4. /\ FirstOfCheapest(ends[size - 1], EosNode, c.idx, c.cost)
      /\ c.cost \in Int /\ c.idx \in NodeIdx
  <2>1. ends[size - 1] \in Seq(VNode)
    BY <1>2, <1>3, RowTypes
  <2> QED BY <1>3, <2>1, ConnectNodeCorrect
<1>5. c = [idx |-> c.idx, cost |-> c.cost]
  BY DEF ConnectNode
<1> HIDE DEF c
<1>6. TypeOK'
  <2>1. eos' \in [idx : NodeIdx, cost : Int]
    BY <1>1, <1>2, <1>4, <1>5 DEF TypeOK
  <2> QED BY <1>1, <1>2, <2>1 DEF TypeOK
<1>7. RowsAreParallel' /\ PredecessorsStayBest' /\ CostsWithin'
  BY <1>1 DEF LatticeInv, RowsAreParallel, PredecessorsStayBest, CostsWithin
<1>8. Frontier' /\ NoDeadEnd' /\ PathTilesSentence'
  BY <1>1 DEF LatticeInv, Frontier, NoDeadEnd, PathTilesSentence
<1>9. EosConnected'
  <2> SUFFICES ASSUME phase' = "connected"
               PROVE  /\ size > 1 /\ eos'.idx.end = size - 1
                      /\ eos'.idx.index \in 0 .. Len(ends[size - 1]) - 1
                      /\ Connected(Entry(ends, eos'.idx))
    BY <1>1 DEF EosConnected, Entry
  <2>1. /\ eos' = c /\ c.idx.end = size - 1 /\ c.idx.index \in Candidates(ends[size - 1], EosNode)
    BY <1>1, <1>3, <1>4 DEF FirstOfCheapest
  <2>2. /\ c.idx.index \in 0 .. Len(ends[size - 1]) - 1
        /\ Connected(ends[size - 1][c.idx.index + 1])
    BY <2>1 DEF Candidates
  <2>3. size > 1
    <3>1. size - 1 # 0
      BY <1>1, <1>2 DEF LatticeInv, SentenceNotEmpty
    <3> QED BY <1>2, <3>1
  <2> QED BY <2>1, <2>2, <2>3 DEF Entry
<1>10. SentenceNotEmpty'
  BY <1>1 DEF LatticeInv, SentenceNotEmpty
<1> QED BY <1>6, <1>7, <1>8, <1>9, <1>10 DEF LatticeInv

(* A connected word of row e has a predecessor in the row of its beginning *)
(* that exists and is connected too.                                       *)
LEMMA PointerIsGood ==
  ASSUME LatticeInv, phase # "new",
         NEW e \in 1 .. size - 1, NEW i \in 1 .. Len(ends_full[e]), Connected(ends[e][i])
  PROVE  LET prev == indices[e][i]
         IN /\ prev.end = ends_full[e][i].begin
            /\ prev \in NodeIdx
            /\ prev.end \in 0 .. size - 1
            /\ prev.index \in 0 .. Len(ends[prev.end]) - 1
            /\ Connected(Entry(ends, prev))
<1> DEFINE prev == indices[e][i]
           r == ends_full[e][i]
<1>1. /\ TypeOK /\ RowsAreParallel /\ size \in Nat /\ 0 .. size - 1 \subseteq DOMAIN ends
      /\ e \in DOMAIN ends \ {0} /\ DOMAIN ends \subseteq Nat
  BY DEF LatticeInv, TypeOK
<1>2. FirstOfCheapest(ends[r.begin], r, prev, ends[e][i].total)
  BY DEF LatticeInv, PredecessorsStayBest
<1>3. prev.end = r.begin /\ prev.index \in Candidates(ends[r.begin], r)
  BY <1>2 DEF FirstOfCheapest, Connected
<1>4. prev.index \in 0 .. Len(ends[prev.end]) - 1 /\ Connected(ends[prev.end][prev.index + 1])
  BY <1>3 DEF Candidates
<1>5. r \in Node /\ r.begin < e
  BY <1>1, RowTypes DEF RowsAreParallel
<1>6. prev.end \in 0 .. size - 1
  BY <1>1, <1>3, <1>5 DEF Node
<1>7. prev \in NodeIdx
  <2>1. Len(indices[e]) = Len(ends_full[e])
    BY <1>1 DEF RowsAreParallel
  <2> QED BY <1>1, <2>1, RowTypes
<1> QED BY <1>3, <1>4, <1>6, <1>7 DEF Entry

(* fill_top_path begins at a pointer to a word that is connected.          *)
LEMMA StartTraceLatticeInv == ASSUME LatticeInv, StartTrace PROVE LatticeInv'
<1>1. /\ UNCHANGED <<ends, ends_full, indices, eos, size, at, created>>
      /\ phase = "connected" /\ phase' = "tracing" /\ path' = <<eos.idx>>
  BY DEF StartTrace
<1>2. /\ size > 1 /\ eos.idx.end = size - 1 /\ size \in Nat
      /\ eos.idx.index \in 0 .. Len(ends[size - 1]) - 1
      /\ Connected(Entry(ends, eos.idx)) /\ eos.idx \in NodeIdx
  BY <1>1 DEF LatticeInv, EosConnected, TypeOK
<1>3. path' \in Seq(NodeIdx) /\ Len(path') = 1 /\ path'[1] = eos.idx /\ path' # << >>
  BY <1>1, <1>2
<1>4. TypeOK'
  BY <1>1, <1>3 DEF LatticeInv, TypeOK
<1>5. RowsAreParallel' /\ PredecessorsStayBest' /\ CostsWithin' /\ SentenceNotEmpty'
  BY <1>1 DEF LatticeInv, RowsAreParallel, PredecessorsStayBest, CostsWithin, SentenceNotEmpty
<1>6. Frontier' /\ NoDeadEnd'
  BY <1>1 DEF LatticeInv, Frontier, NoDeadEnd
<1>7. EosConnected'
  BY <1>1, <1>2, <1>3 DEF EosConnected, Entry
<1>8. PathTilesSentence'
  <2>1. size - 1 \in DOMAIN ends \ {0}
    <3>1. size - 1 \in 0 .. size - 1 /\ size - 1 # 0
      BY <1>2
    <3> QED BY <3>1 DEF LatticeInv, TypeOK
  <2>2. Len(ends_full[size - 1]) = Len(ends[size - 1])
    BY <1>1, <2>1 DEF LatticeInv, RowsAreParallel
  <2>3. size - 1 \in 1 .. size - 1
    BY <1>2
  <2>4. \A k \in 1 .. 1 : k = 1
    OBVIOUS
  <2>5. \A k \in 1 .. Len(path') :
          /\ path'[k].end \in 1 .. size - 1
          /\ path'[k].index \in 0 .. Len(ends_full[path'[k].end]) - 1
    BY <1>2, <1>3, <2>2, <2>3, <2>4
  <2>6. 1 .. Len(path') - 1 = {}
    BY <1>3
  <2> QED BY <1>1, <1>2, <1>3, <2>5, <2>6 DEF PathTilesSentence
<1> QED BY <1>4, <1>5, <1>6, <1>7, <1>8 DEF LatticeInv

(* One word further back: the pointer read there is of a connected word    *)
(* again, and the path grows by the word that ends where the last one      *)
(* begins.                                                                 *)
LEMMA TraceBackLatticeInv == ASSUME LatticeInv, TraceBack PROVE LatticeInv'
<1> DEFINE n == Len(path)
           last == path[n]
           prev == Entry(indices, last)
<1>1. /\ UNCHANGED <<ends, ends_full, indices, eos, size, at, created>> /\ phase = "tracing"
      /\ \/ prev.end # 0 /\ path' = Append(path, prev) /\ phase' = "tracing"
         \/ prev.end = 0 /\ path' = path /\ phase' = "done"
  BY DEF TraceBack
<1>2. /\ path \in Seq(NodeIdx) /\ path # << >> /\ path[1].end = size - 1 /\ size \in Nat
      /\ \A k \in 1 .. n : /\ path[k].end \in 1 .. size - 1
                           /\ path[k].index \in 0 .. Len(ends_full[path[k].end]) - 1
                           /\ Connected(Entry(ends, path[k]))
      /\ \A k \in 1 .. n - 1 : Entry(ends_full, path[k]).begin = path[k + 1].end
  BY <1>1 DEF LatticeInv, TypeOK, PathTilesSentence, EosConnected
<1>3. n \in Nat \ {0} /\ n \in 1 .. n
  <2>1. n \in Nat /\ n # 0
    BY <1>2, EmptySeq, LenProperties
  <2> QED BY <2>1
<1>4. /\ last.end \in 1 .. size - 1 /\ last.index + 1 \in 1 .. Len(ends_full[last.end])
      /\ Connected(ends[last.end][last.index + 1])
  <2>1. /\ last.end \in 1 .. size - 1 /\ last.index \in 0 .. Len(ends_full[last.end]) - 1
        /\ Connected(ends[last.end][last.index + 1])
    BY <1>2, <1>3 DEF Entry
  <2>2. last.end \in DOMAIN ends
    BY <2>1, <1>2 DEF LatticeInv, TypeOK
  <2>3. Len(ends_full[last.end]) \in Nat
    BY <2>2, RowTypes DEF LatticeInv
  <2> QED BY <2>1, <2>3
<1>5. /\ prev.end = Entry(ends_full, last).begin /\ prev \in NodeIdx
      /\ prev.end \in 0 .. size - 1 /\ prev.index \in 0 .. Len(ends[prev.end]) - 1
      /\ Connected(Entry(ends, prev))
  BY <1>1, <1>4, PointerIsGood DEF Entry
<1> HIDE DEF last, prev
<1>6. /\ path' \in Seq(NodeIdx) /\ path' # << >>
      /\ phase' = "done" => path' = path
      /\ phase' = "tracing" => /\ path' = Append(path, prev) /\ Len(path') = n + 1
                               /\ path'[n + 1] = prev /\ prev.end # 0
                               /\ \A k \in 1 .. n : path'[k] = path[k]
  <2>1. CASE phase' = "done"
    BY <1>1, <1>2, <2>1
  <2>2. CASE phase' = "tracing"
    <3>1. /\ Append(path, prev) \in Seq(NodeIdx) /\ Append(path, prev) # << >>
          /\ Len(Append(path, prev)) = n + 1 /\ Append(path, prev)[n + 1] = prev
          /\ \A k \in 1 .. n : Append(path, prev)[k] = path[k]
      BY <1>2, <1>5, AppendElements, AppendProperties
    <3> QED BY <1>1, <2>2, <3>1
  <2> QED BY <1>1, <2>1, <2>2
<1>7. TypeOK'
  BY <1>1, <1>6 DEF LatticeInv, TypeOK
<1>8. RowsAreParallel' /\ PredecessorsStayBest' /\ CostsWithin' /\ SentenceNotEmpty'
  BY <1>1 DEF LatticeInv, RowsAreParallel, PredecessorsStayBest, CostsWithin, SentenceNotEmpty
<1>9. Frontier' /\ NoDeadEnd'
  BY <1>1 DEF LatticeInv, Frontier, NoDeadEnd
<1>10. CASE phase' = "done"
  <2>1. path' = path
    BY <1>6, <1>10
  <2>2. EosConnected'
    BY <1>1, <1>10, <2>1 DEF LatticeInv, EosConnected, Entry
  <2>3. Entry(ends_full, path[Len(path)]).begin = 0
    BY <1>1, <1>5, <1>10 DEF last
  <2>4. PathTilesSentence'
    BY <1>1, <1>2, <1>10, <2>1, <2>3 DEF PathTilesSentence, Entry
  <2> QED BY <1>7, <1>8, <1>9, <2>2, <2>4 DEF LatticeInv
<1>11. CASE phase' = "tracing"
  <2>1. /\ Len(path') = n + 1 /\ path'[n + 1] = prev /\ prev.end # 0
        /\ \A k \in 1 .. n : path'[k] = path[k]
    BY <1>6, <1>11
  <2>2. ASSUME NEW k \in 1 .. n + 1
        PROVE  /\ path'[k].end \in 1 .. size - 1
               /\ path'[k].index \in 0 .. Len(ends_full[path'[k].end]) - 1
               /\ Connected(Entry(ends, path'[k]))
    <3>1. CASE k # n + 1
      <4>1. k \in 1 .. n
        BY <1>3, <3>1
      <4> QED BY <1>2, <2>1, <4>1
    <3>2. CASE k = n + 1
      <4>1. prev.end \in 1 .. size - 1 /\ prev.end \in DOMAIN ends \ {0}
        <5>1. prev.end \in 1 .. size - 1
          BY <1>2, <1>5, <2>1
        <5> QED BY <1>2, <5>1 DEF LatticeInv, TypeOK
      <4>2. Len(ends[prev.end]) = Len(ends_full[prev.end])
        BY <1>1, <4>1 DEF LatticeInv, RowsAreParallel
      <4> QED BY <1>5, <2>1, <3>2, <4>1, <4>2
    <3> QED BY <3>1, <3>2
  <2>3. ASSUME NEW k \in 1 .. n PROVE Entry(ends_full, path'[k]).begin = path'[k + 1].end
    <3>1. CASE k # n
      <4>1. k \in 1 .. n - 1 /\ k + 1 \in 1 .. n
        BY <1>3, <3>1
      <4> QED BY <1>2, <2>1, <4>1
    <3>2. CASE k = n
      BY <1>3, <1>5, <2>1, <3>2 DEF last
    <3> QED BY <3>1, <3>2
  <2>4. path'[1].end = size - 1
    <3>1. 1 \in 1 .. n
      BY <1>3
    <3> QED BY <1>2, <2>1, <3>1
  <2>5. n + 1 - 1 = n
    BY <1>3
  <2>6. EosConnected'
    BY <1>1, <1>11, <2>1, <2>2 DEF LatticeInv, EosConnected, Entry
  <2>7. PathTilesSentence'
    BY <1>1, <1>6, <1>11, <2>1, <2>2, <2>3, <2>4, <2>5 DEF PathTilesSentence, Entry
  <2> QED BY <1>7, <1>8, <1>9, <2>6, <2>7 DEF LatticeInv
<1> QED BY <1>1, <1>10, <1>11
-----------------------------------------------------------------------------
(* Every step of the lattice keeps the invariant.                          *)
LEMMA NextLatticeInv == LatticeInv /\ [Next]_vars => LatticeInv'
<1> SUFFICES ASSUME LatticeInv, [Next]_vars PROVE LatticeInv'
  OBVIOUS
<1>1. ASSUME NEW length \in 1 .. MaxLen, Reset(length) PROVE LatticeInv'
  BY <1>1, ResetLatticeInv
<1>2. CASE SkipUnreachable \/ NextBoundary \/ GiveUp
  BY <1>2, MoveLatticeInv
<1>3. ASSUME NEW end \in at + 1 .. size - 1, NEW word \in Words, Insert(end, word)
      PROVE  LatticeInv'
  BY <1>3, InsertLatticeInv
<1>4. CASE ConnectEos
  BY <1>4, ConnectEosLatticeInv
<1>5. CASE StartTrace
  BY <1>5, StartTraceLatticeInv
<1>6. CASE TraceBack
  BY <1>6, TraceBackLatticeInv
<1>7. CASE UNCHANGED vars
  BY <1>7 DEF vars, LatticeInv, TypeOK, RowsAreParallel, SentenceNotEmpty, Frontier,
              PredecessorsStayBest, NoDeadEnd, EosConnected, PathTilesSentence, CostsWithin,
              Entry
<1> QED BY <1>1, <1>2, <1>3, <1>4, <1>5, <1>6, <1>7 DEF Next

(* LatticeInv holds in every reachable state.                              *)
THEOREM LatticeInvHolds == Spec => []LatticeInv
<1>1. Init => LatticeInv
  BY InitLatticeInv
<1>2. LatticeInv /\ [Next]_vars => LatticeInv'
  BY NextLatticeInv
<1> QED BY <1>1, <1>2, PTL DEF Spec

(* reset and insert keep the three arrays parallel and of their types, and *)
(* no row behind the sentence holds a word of an earlier one.              *)
THEOREM RowsStaySound == Spec => []RowsAreSound
<1>1. LatticeInv => RowsAreSound
  BY DEF LatticeInv, RowsAreSound
<1> QED BY <1>1, LatticeInvHolds, PTL

(* The Bellman equation: the predecessor connect_node chose stays the      *)
(* first of the cheapest ones, whatever is inserted later.                 *)
THEOREM PredecessorsAreBest == Spec => []PredecessorsStayBest
<1>1. LatticeInv => PredecessorsStayBest
  BY DEF LatticeInv
<1> QED BY <1>1, LatticeInvHolds, PTL

(* A builder that has not given up can always go on to a later boundary.   *)
THEOREM BuilderHasNoDeadEnd == Spec => []NoDeadEnd
<1>1. LatticeInv => NoDeadEnd
  BY DEF LatticeInv
<1> QED BY <1>1, LatticeInvHolds, PTL

(* The walk of fill_top_path reads only entries that exist and yields a    *)
(* segmentation of the whole sentence.                                     *)
THEOREM TopPathTilesSentence == Spec => []PathTilesSentence
<1>1. LatticeInv => PathTilesSentence
  BY DEF LatticeInv
<1> QED BY <1>1, LatticeInvHolds, PTL

(* No i32 wraps around in a sentence of fewer than 2^31 / MaxStep          *)
(* characters, with any costs and connections of at most MaxStep.          *)
THEOREM CostsStayWithin == Spec => []CostsWithin
<1>1. LatticeInv => CostsWithin
  BY DEF LatticeInv
<1> QED BY <1>1, LatticeInvHolds, PTL
-----------------------------------------------------------------------------
(***************************************************************************)
(* The search is optimal: for any connection costs, any words inserted in  *)
(* any order and any sentence short enough that no i32 wraps around, the   *)
(* path fill_top_path reads off the lattice is a segmentation of least     *)
(* cost.  What is proved above gives the Bellman equation of each word and *)
(* that the path tiles the sentence; here the equations are put together,  *)
(* along the boundaries for all the segmentations and along the path for   *)
(* its cost.                                                               *)
(***************************************************************************)
(* Whatever word precedes it, a word of the lattice costs one step.        *)
WordsAreSteps ==
  phase # "new" =>
    \A e \in 1 .. size - 1 : \A i \in 1 .. Len(ends_full[e]) : \A x \in Ids :
      Conn[x][ends_full[e][i].left] + ends_full[e][i].cost \in -MaxStep .. MaxStep

(* The pointer of the end of the sentence is the best one, and the path    *)
(* follows the pointers from there.                                        *)
PathFollowsPointers ==
  /\ phase \in {"connected", "tracing", "done"} =>
       eos.cost # I32_MAX /\ FirstOfCheapest(ends[size - 1], EosNode, eos.idx, eos.cost)
  /\ phase \in {"tracing", "done"} =>
       /\ path[1] = eos.idx
       /\ \A k \in 1 .. Len(path) - 1 : path[k + 1] = Entry(indices, path[k])
  /\ phase = "done" => Entry(indices, path[Len(path)]).end = 0

ViterbiInv == LatticeInv /\ WordsAreSteps /\ PathFollowsPointers
-----------------------------------------------------------------------------
(* A word that is inserted costs one step behind any word.                 *)
LEMMA InsertViterbiInv ==
  ASSUME ViterbiInv, NEW end \in at + 1 .. size - 1, NEW word \in Words, Insert(end, word)
  PROVE  ViterbiInv'
<1> DEFINE node == [begin |-> at, end |-> end, left |-> word.left,
                    right |-> word.right, cost |-> word.cost]
<1>1. LatticeInv /\ LatticeInv'
  BY InsertLatticeInv DEF ViterbiInv
<1>2. /\ phase = "building" /\ UNCHANGED <<phase, size>>
  BY DEF Insert
<1>3. /\ node \in Node /\ end \in DOMAIN ends \ {0}
      /\ \A e \in DOMAIN ends \ {end} : ends_full'[e] = ends_full[e]
      /\ ends_full'[end] = Append(ends_full[end], node)
  <2>1. /\ node \in Node /\ at \in DOMAIN ends /\ end \in DOMAIN ends \ {0} /\ at < end
        /\ DOMAIN ends' = DOMAIN ends
        /\ \A e \in DOMAIN ends \ {end} :
             ends'[e] = ends[e] /\ ends_full'[e] = ends_full[e] /\ indices'[e] = indices[e]
        /\ ends'[end] = Append(ends[end], [total |-> ConnectNode(ends[at], node).cost,
                                            right |-> node.right])
        /\ ends_full'[end] = Append(ends_full[end], node)
        /\ indices'[end] = Append(indices[end], ConnectNode(ends[at], node).idx)
        /\ ends' \in [DOMAIN ends -> Seq(VNode)]
        /\ ends_full' \in [DOMAIN ends -> Seq(Node)]
        /\ indices' \in [DOMAIN ends -> Seq(NodeIdx)]
    BY <1>1, InsertRows, Zenon
  <2> HIDE DEF node
  <2> QED BY <2>1
<1>4. node.left = word.left /\ node.cost = word.cost
  OBVIOUS
<1> HIDE DEF node
<1>5. ends_full[end] \in Seq(Node)
  BY <1>1, <1>3, RowTypes DEF LatticeInv
<1>6. ASSUME NEW e \in 1 .. size - 1, NEW i \in 1 .. Len(ends_full'[e]), NEW x \in Ids
      PROVE  Conn[x][ends_full'[e][i].left] + ends_full'[e][i].cost \in -MaxStep .. MaxStep
  <2>1. e \in DOMAIN ends
    BY <1>1 DEF LatticeInv, TypeOK
  <2>2. CASE e # end
    BY <1>2, <1>3, <2>1, <2>2 DEF ViterbiInv, WordsAreSteps
  <2>3. CASE e = end
    <3>1. /\ Len(ends_full'[e]) = Len(ends_full[end]) + 1 /\ Len(ends_full[end]) \in Nat
          /\ \A j \in 1 .. Len(ends_full[end]) : ends_full'[e][j] = ends_full[end][j]
          /\ ends_full'[e][Len(ends_full[end]) + 1] = node
      BY <1>3, <1>5, <2>3, AppendElements
    <3>2. CASE i # Len(ends_full[end]) + 1
      <4>1. i \in 1 .. Len(ends_full[end])
        BY <3>1, <3>2
      <4> QED BY <1>2, <2>3, <3>1, <4>1 DEF ViterbiInv, WordsAreSteps
    <3>3. CASE i = Len(ends_full[end]) + 1
      <4>1. word.left \in Ids
        BY WordsAssumption
      <4> QED BY <1>4, <3>1, <3>3, <4>1, StepAssumption
    <3> QED BY <3>2, <3>3
  <2> QED BY <2>2, <2>3
<1>7. WordsAreSteps'
  BY <1>2, <1>6 DEF WordsAreSteps
<1>8. PathFollowsPointers'
  BY <1>2 DEF PathFollowsPointers
<1> QED BY <1>1, <1>7, <1>8 DEF ViterbiInv

(* connect_eos stores the best pointer of the end of the sentence.         *)
LEMMA ConnectEosViterbiInv == ASSUME ViterbiInv, ConnectEos PROVE ViterbiInv'
<1> DEFINE c == ConnectNode(ends[EosNode.begin], EosNode)
<1>1. /\ UNCHANGED <<ends, ends_full, size>> /\ phase = "building"
      /\ \/ phase' = "failed"
         \/ phase' = "connected" /\ eos' = c /\ c.cost # I32_MAX
  BY DEF ConnectEos
<1>2. LatticeInv /\ LatticeInv'
  BY ConnectEosLatticeInv DEF ViterbiInv
<1>3. /\ size \in Nat \ {0} /\ size - 1 \in DOMAIN ends /\ TypeOK
  <2>1. TypeOK /\ size \in Nat \ {0}
    BY <1>1, <1>2 DEF LatticeInv, Frontier
  <2>2. size - 1 \in 0 .. size - 1
    BY <2>1
  <2> QED BY <2>1, <2>2 DEF TypeOK
<1>4. EosNode \in Node /\ EosNode.begin = size - 1
  <2>1. size - 1 \in Nat
    BY <1>3
  <2> QED BY <2>1, IdsAssumption DEF EosNode, Node
<1>5. FirstOfCheapest(ends[size - 1], EosNode, c.idx, c.cost)
  <2>1. ends[size - 1] \in Seq(VNode)
    BY <1>3, RowTypes
  <2> QED BY <1>4, <2>1, ConnectNodeCorrect
<1> HIDE DEF c
<1>6. PathFollowsPointers'
  <2>1. EosNode' = EosNode
    BY <1>1 DEF EosNode
  <2>2. phase' = "connected" => FirstOfCheapest(ends[size - 1], EosNode, eos.idx, eos.cost)'
    BY <1>1, <1>5, <2>1 DEF FirstOfCheapest, Candidates, CostVia, NewCost, Connected
  <2> QED BY <1>1, <2>2 DEF PathFollowsPointers
<1>7. WordsAreSteps'
  BY <1>1 DEF ViterbiInv, WordsAreSteps
<1> QED BY <1>2, <1>6, <1>7 DEF ViterbiInv

(* The path follows the stored pointers.                                   *)
LEMMA TraceViterbiInv ==
  ASSUME ViterbiInv, StartTrace \/ TraceBack
  PROVE  ViterbiInv'
<1>1. LatticeInv /\ LatticeInv'
  BY StartTraceLatticeInv, TraceBackLatticeInv DEF ViterbiInv
<1>2. UNCHANGED <<ends, ends_full, indices, eos, size>>
  BY DEF StartTrace, TraceBack
<1>3. /\ eos'.cost # I32_MAX
      /\ FirstOfCheapest(ends[size - 1], EosNode, eos.idx, eos.cost)'
  <2>1. phase \in {"connected", "tracing"}
    BY DEF StartTrace, TraceBack
  <2>2. eos.cost # I32_MAX /\ FirstOfCheapest(ends[size - 1], EosNode, eos.idx, eos.cost)
    BY <2>1 DEF ViterbiInv, PathFollowsPointers
  <2> QED BY <1>2, <2>2 DEF FirstOfCheapest, Candidates, CostVia, NewCost, Connected, EosNode
<1>4. WordsAreSteps'
  <2>1. phase # "new"
    BY DEF StartTrace, TraceBack
  <2> QED BY <1>2, <2>1 DEF ViterbiInv, WordsAreSteps
<1>5. CASE StartTrace
  <2>1. phase' = "tracing" /\ path' = <<eos.idx>>
    BY <1>5 DEF StartTrace
  <2>2. path'[1] = eos'.idx /\ Len(path') = 1
    BY <1>2, <2>1
  <2>3. 1 .. Len(path') - 1 = {}
    BY <2>2
  <2>4. PathFollowsPointers'
    BY <1>3, <2>1, <2>2, <2>3 DEF PathFollowsPointers
  <2> QED BY <1>1, <1>4, <2>4 DEF ViterbiInv
<1>6. CASE TraceBack
  <2> DEFINE n == Len(path)
             prev == Entry(indices, path[n])
  <2>1. /\ phase = "tracing"
        /\ \/ prev.end # 0 /\ path' = Append(path, prev) /\ phase' = "tracing"
           \/ prev.end = 0 /\ path' = path /\ phase' = "done"
    BY <1>6 DEF TraceBack
  <2>2. /\ path[1] = eos.idx
        /\ \A k \in 1 .. n - 1 : path[k + 1] = Entry(indices, path[k])
    BY <2>1 DEF ViterbiInv, PathFollowsPointers
  <2>3. path \in Seq(NodeIdx) /\ n \in Nat \ {0}
    <3>1. path \in Seq(NodeIdx) /\ path # << >>
      BY <1>1, <2>1 DEF LatticeInv, TypeOK, PathTilesSentence
    <3> QED BY <3>1, EmptySeq, LenProperties
  <2>4. CASE prev.end = 0
    <3>1. path' = path /\ phase' = "done"
      BY <2>1, <2>4
    <3>2. PathFollowsPointers'
      BY <1>2, <1>3, <2>2, <2>4, <3>1 DEF PathFollowsPointers, Entry
    <3> QED BY <1>1, <1>4, <3>2 DEF ViterbiInv
  <2>5. CASE prev.end # 0
    <3>1. path' = Append(path, prev) /\ phase' = "tracing"
      BY <2>1, <2>5
    <3>2. path' \in Seq(NodeIdx)
      BY <1>1 DEF LatticeInv, TypeOK
    <3>0. prev \in NodeIdx
      <4>1. PathTilesSentence /\ EosConnected /\ LatticeInv
        BY <1>1 DEF LatticeInv
      <4>2. n \in 1 .. n
        BY <2>3
      <4>3. /\ path[n].end \in 1 .. size - 1 /\ path[n].index \in 0 .. Len(ends_full[path[n].end]) - 1
            /\ Connected(Entry(ends, path[n]))
        BY <2>1, <4>1, <4>2 DEF PathTilesSentence, EosConnected
      <4>4. path[n].index + 1 \in 1 .. Len(ends_full[path[n].end])
        <5>1. path[n].end \in DOMAIN ends
          BY <4>1, <4>3 DEF LatticeInv, TypeOK
        <5>2. Len(ends_full[path[n].end]) \in Nat
          BY <4>1, <5>1, RowTypes DEF LatticeInv
        <5> QED BY <4>3, <5>2
      <4> QED BY <2>1, <4>1, <4>3, <4>4, PointerIsGood DEF Entry
    <3> HIDE DEF prev
    <3>3. /\ Len(path') = n + 1 /\ path'[n + 1] = prev
          /\ \A k \in 1 .. n : path'[k] = path[k]
      BY <2>3, <3>0, <3>1, AppendElements
    <3>4. ASSUME NEW k \in 1 .. Len(path') - 1 PROVE path'[k + 1] = Entry(indices, path'[k])
      <4>1. k \in 1 .. n /\ path'[k] = path[k]
        BY <2>3, <3>3
      <4>2. CASE k = n
        BY <3>3, <4>1, <4>2 DEF prev
      <4>3. CASE k # n
        <5>1. k \in 1 .. n - 1 /\ k + 1 \in 1 .. n
          BY <2>3, <4>1, <4>3
        <5> QED BY <2>2, <3>3, <4>1, <5>1
      <4> QED BY <4>2, <4>3
    <3>5. path'[1] = eos'.idx
      <4>1. 1 \in 1 .. n
        BY <2>3
      <4> QED BY <1>2, <2>2, <3>3, <4>1
    <3>6. PathFollowsPointers'
      BY <1>2, <1>3, <3>1, <3>4, <3>5 DEF PathFollowsPointers, Entry
    <3> QED BY <1>1, <1>4, <3>6 DEF ViterbiInv
  <2> QED BY <2>4, <2>5
<1> QED BY <1>5, <1>6

(* Every step of the lattice keeps the facts about costs.                  *)
LEMMA NextViterbiInv == ViterbiInv /\ [Next]_vars => ViterbiInv'
<1> SUFFICES ASSUME ViterbiInv, [Next]_vars PROVE ViterbiInv'
  OBVIOUS
<1>0. LatticeInv'
  BY NextLatticeInv DEF ViterbiInv
<1>1. ASSUME NEW length \in 1 .. MaxLen, Reset(length) PROVE ViterbiInv'
  <2>1. /\ phase' = "building" /\ size' = length + 1
        /\ ends_full' = [i \in DOMAIN ends_full \cup 0 .. length |-> << >>]
    <3>1. length + 1 - 1 = length
      BY SizesAssumption
    <3> QED BY <1>1, <3>1 DEF Reset, ResetVec
  <2>2. \A e \in 1 .. size' - 1 : ends_full'[e] = << >>
    <3>1. \A e \in 1 .. size' - 1 : e \in 0 .. length
      BY <2>1, SizesAssumption
    <3> QED BY <2>1, <3>1
  <2>3. \A e \in 1 .. size' - 1 : 1 .. Len(ends_full'[e]) = {}
    BY <2>2
  <2>4. WordsAreSteps' /\ PathFollowsPointers'
    BY <2>1, <2>3 DEF WordsAreSteps, PathFollowsPointers
  <2> QED BY <1>0, <2>4 DEF ViterbiInv
<1>2. CASE SkipUnreachable \/ NextBoundary \/ GiveUp
  <2>1. UNCHANGED <<ends_full, size>> /\ phase = "building" /\ phase' \in {"building", "failed"}
    BY <1>2 DEF SkipUnreachable, NextBoundary, GiveUp
  <2>2. WordsAreSteps' /\ PathFollowsPointers'
    BY <2>1 DEF ViterbiInv, WordsAreSteps, PathFollowsPointers
  <2> QED BY <1>0, <2>2 DEF ViterbiInv
<1>3. ASSUME NEW end \in at + 1 .. size - 1, NEW word \in Words, Insert(end, word)
      PROVE  ViterbiInv'
  BY <1>3, InsertViterbiInv
<1>4. CASE ConnectEos
  BY <1>4, ConnectEosViterbiInv
<1>5. CASE StartTrace \/ TraceBack
  BY <1>5, TraceViterbiInv
<1>6. CASE UNCHANGED vars
  <2>1. WordsAreSteps' /\ PathFollowsPointers'
    BY <1>6 DEF vars, ViterbiInv, WordsAreSteps, PathFollowsPointers, FirstOfCheapest,
                Candidates, CostVia, NewCost, Connected, EosNode, Entry
  <2> QED BY <1>0, <2>1 DEF ViterbiInv
<1> QED BY <1>1, <1>2, <1>3, <1>4, <1>5, <1>6 DEF Next

(* ViterbiInv holds in every reachable state.                              *)
THEOREM ViterbiInvHolds == Spec => []ViterbiInv
<1>1. Init => ViterbiInv
  <2>1. Init => LatticeInv
    BY InitLatticeInv
  <2>2. Init => WordsAreSteps /\ PathFollowsPointers
    BY DEF Init, WordsAreSteps, PathFollowsPointers
  <2> QED BY <2>1, <2>2 DEF ViterbiInv
<1>2. ViterbiInv /\ [Next]_vars => ViterbiInv'
  BY NextViterbiInv
<1> QED BY <1>1, <1>2, PTL DEF Spec
-----------------------------------------------------------------------------
(* Sentences short enough that no total cost wraps around, not even that   *)
(* of the end of the sentence.                                             *)
Short == size * MaxStep < I32_MAX

(* A node costs one step behind any word.                                  *)
IsStep(r) == r \in Node /\ \A x \in Ids : Conn[x][r.left] + r.cost \in -MaxStep .. MaxStep

(* The cost of r behind a word v of the lattice.                           *)
CostBehind(v, r) == v.total + (Conn[v.right][r.left] + r.cost)

(* In a short sentence every word of a row is a candidate, at its cost.    *)
LEMMA EdgeCost ==
  ASSUME LatticeInv, phase # "new", Short, NEW e \in 0 .. size - 1,
         NEW i \in 1 .. Len(ends[e]), NEW r, IsStep(r)
  PROVE  /\ i - 1 \in Candidates(ends[e], r)
         /\ CostVia(ends[e], r, i - 1) = CostBehind(ends[e][i], r)
         /\ CostBehind(ends[e][i], r) \in Int /\ ends[e][i].total \in Int
         /\ ends[e][i].total # I32_MAX
<1> DEFINE v == ends[e][i]
           delta == Conn[v.right][r.left] + r.cost
<1>1. /\ TypeOK /\ size \in Nat \ {0} /\ e \in DOMAIN ends /\ e \in Nat /\ MaxStep \in Nat
      /\ e < e + 1 /\ e + 1 \in Nat /\ e + 1 <= size /\ I32_MAX \in Int
  <2>1. /\ TypeOK /\ size \in Nat \ {0} /\ 0 .. size - 1 \subseteq DOMAIN ends
    BY DEF LatticeInv, TypeOK, Frontier
  <2>2. MaxStep \in Nat /\ I32_MAX \in Int
    BY StepAssumption, SizesAssumption DEF I32_MAX
  <2>3. e \in Nat /\ e < e + 1 /\ e + 1 \in Nat /\ e + 1 <= size
    BY <2>1
  <2> QED BY <2>1, <2>2, <2>3
<1>2. v.total \in Int /\ v.right \in Ids /\ Len(ends[e]) \in Nat
  BY <1>1, RowTypes
<1>3. delta \in -MaxStep .. MaxStep
  BY <1>2 DEF IsStep
<1>4. v.total \in -(e * MaxStep) .. e * MaxStep
  <2>1. CASE e = 0
    <3>1. ends[0] = <<[total |-> 0, right |-> BosId]>>
      BY DEF LatticeInv, RowsAreParallel
    <3>2. i = 1
      BY <2>1, <3>1
    <3>3. v.total = 0
      BY <2>1, <3>1, <3>2
    <3> QED BY <1>1, <2>1, <3>3
  <2>2. CASE e # 0
    <3>1. (size - 1) * MaxStep < I32_MAX
      <4>1. size * MaxStep = (size - 1) * MaxStep + MaxStep /\ (size - 1) * MaxStep \in Int
        BY <1>1
      <4> QED BY <1>1, <4>1 DEF Short
    <3>2. e \in 1 .. size - 1
      BY <2>2
    <3> QED BY <3>1, <3>2 DEF LatticeInv, CostsWithin
  <2> QED BY <2>1, <2>2
<1>5. 0 \in -MaxStep .. MaxStep
  BY <1>1
<1> HIDE DEF delta, v
<1> DEFINE f == e + 1
<1>c. f \in Nat /\ e < f /\ f <= size /\ size \in Nat /\ size * MaxStep < I32_MAX
  BY <1>1 DEF Short
<1> HIDE DEF f
<1>6. Wrap(v.total + delta) = v.total + delta /\ v.total + delta < I32_MAX
  <2>1. ASSUME NEW d \in -MaxStep .. MaxStep
        PROVE  Wrap(v.total + d) = v.total + d /\ v.total + d < I32_MAX
    <3> DEFINE t == v.total
    <3>1. t \in Int /\ t \in -(e * MaxStep) .. e * MaxStep
      BY <1>2, <1>4
    <3> HIDE DEF t
    <3>2. /\ t + d \in -(f * MaxStep) .. f * MaxStep
          /\ Wrap(t + d) = t + d
          /\ t + d < I32_MAX
      BY <1>1, <1>c, <3>1, StepBound, Zenon
    <3> QED BY <3>2 DEF t
  <2> QED BY <1>3, <2>1
<1>7. v.total < I32_MAX
  <2>1. \A d \in -MaxStep .. MaxStep : v.total + d < I32_MAX
    BY <1>1, <1>2, <1>4, <1>c, StepBound, Zenon
  <2>2. v.total + 0 < I32_MAX
    BY <1>5, <2>1, Zenon
  <2> QED BY <1>2, <2>2
<1>8. v.total # I32_MAX /\ v.total + delta \in Int
  BY <1>1, <1>2, <1>3, <1>7
<1>9. NewCost(v, r) = v.total + delta
  <2>1. Conn[v.right][r.left] \in Int /\ r.cost \in Int
    BY <1>2, IdsAssumption DEF IsStep, Node
  <2>2. v.total + Conn[v.right][r.left] + r.cost = v.total + delta
    BY <1>2, <2>1 DEF delta
  <2> QED BY <1>6, <2>2 DEF NewCost
<1>10. i - 1 \in 0 .. Len(ends[e]) - 1 /\ ends[e][i - 1 + 1] = v
  <2>1. i - 1 + 1 = i
    OBVIOUS
  <2> QED BY <1>2, <2>1 DEF v
<1> QED BY <1>2, <1>6, <1>8, <1>9, <1>10 DEF Candidates, CostVia, CostBehind, Connected, v, delta

(* So a pointer and a cost that are those of the first of the cheapest     *)
(* predecessors are those of the cheapest of all words of the row.         *)
LEMMA CheapestOfRow ==
  ASSUME LatticeInv, phase # "new", Short, NEW r, IsStep(r), r.begin \in 0 .. size - 1,
         NEW prev, NEW total, FirstOfCheapest(ends[r.begin], r, prev, total)
  PROVE  /\ total # I32_MAX =>
              /\ prev.end = r.begin /\ prev.index + 1 \in 1 .. Len(ends[r.begin])
              /\ total = CostBehind(ends[r.begin][prev.index + 1], r)
         /\ total # I32_MAX =>
              \A j \in 1 .. Len(ends[r.begin]) : total <= CostBehind(ends[r.begin][j], r)
         /\ total = I32_MAX => ends[r.begin] = << >>
<1> DEFINE row == ends[r.begin]
<1>1. row \in Seq(VNode) /\ Len(row) \in Nat
  BY RowTypes DEF LatticeInv, TypeOK
<1>2. \A j \in 1 .. Len(row) : /\ j - 1 \in Candidates(row, r)
                               /\ CostVia(row, r, j - 1) = CostBehind(row[j], r)
  BY EdgeCost
<1> HIDE DEF row
<1>3. CASE total = I32_MAX
  <2>1. Candidates(row, r) = {}
    BY <1>3 DEF FirstOfCheapest, row
  <2>2. Len(row) = 0
    BY <1>1, <1>2, <2>1
  <2> QED BY <1>1, <1>3, <2>2, EmptySeq DEF row
<1>4. CASE total # I32_MAX
  <2>1. /\ prev.end = r.begin /\ prev.index \in Candidates(row, r)
        /\ total = CostVia(row, r, prev.index)
        /\ \A j \in Candidates(row, r) : total <= CostVia(row, r, j)
    BY <1>4 DEF FirstOfCheapest, row
  <2>2. prev.index \in 0 .. Len(row) - 1
    BY <2>1 DEF Candidates
  <2>3. prev.index + 1 \in 1 .. Len(row) /\ prev.index + 1 - 1 = prev.index
    BY <1>1, <2>2
  <2>4. total = CostBehind(row[prev.index + 1], r)
    <3> DEFINE j == prev.index + 1
               p == prev.index
    <3>1. j \in 1 .. Len(row) /\ j - 1 = p
      BY <1>1, <2>2
    <3> HIDE DEF j, p
    <3>2. CostVia(row, r, j - 1) = CostBehind(row[j], r)
      BY <1>2, <3>1
    <3>3. CostVia(row, r, p) = CostBehind(row[j], r)
      BY <3>1, <3>2
    <3> QED BY <2>1, <3>3 DEF j, p
  <2>5. \A j \in 1 .. Len(row) : total <= CostBehind(row[j], r)
    BY <1>2, <2>1
  <2> QED BY <1>4, <2>1, <2>3, <2>4, <2>5 DEF row
<1> QED BY <1>3, <1>4
-----------------------------------------------------------------------------
(* The chains that reach boundary e, given those that reach earlier ones.  *)
ReachedBy(ch, e) ==
  IF e = 0 THEN {<<0, BosId>>}
  ELSE UNION {{<<c[1] + Conn[c[2]][n.left] + n.cost, n.right>> : c \in ch[n.begin]} :
                n \in {ends_full[e][i] : i \in 1 .. Len(ends_full[e])}}

(* What reaches e depends on the boundaries before it only.                *)
LEMMA ReachedByEarlier ==
  ASSUME LatticeInv, phase # "new", NEW e \in 0 .. size - 1, NEW f, NEW g,
         \A b \in 0 .. e - 1 : f[b] = g[b]
  PROVE  ReachedBy(f, e) = ReachedBy(g, e)
<1>1. CASE e = 0
  BY <1>1 DEF ReachedBy
<1>2. CASE e # 0
  <2>1. \A i \in 1 .. Len(ends_full[e]) : ends_full[e][i].begin \in 0 .. e - 1
    <3>1. e \in DOMAIN ends \ {0} /\ TypeOK
      BY <1>2 DEF LatticeInv, TypeOK
    <3>2. \A i \in 1 .. Len(ends_full[e]) : ends_full[e][i].begin < e /\ ends_full[e][i] \in Node
      BY <3>1, RowTypes DEF LatticeInv, RowsAreParallel
    <3>3. \A n \in Node : n.begin \in Nat
      BY DEF Node
    <3> QED BY <3>2, <3>3
  <2>2. \A i \in 1 .. Len(ends_full[e]) :
          f[ends_full[e][i].begin] = g[ends_full[e][i].begin]
    BY <2>1
  <2> DEFINE Ws == {ends_full[e][i] : i \in 1 .. Len(ends_full[e])}
             Of(h, n) == {<<c[1] + Conn[c[2]][n.left] + n.cost, n.right>> : c \in h[n.begin]}
  <2>3. \A n \in Ws : Of(f, n) = Of(g, n)
    BY <2>2
  <2>4. ReachedBy(f, e) = UNION {Of(f, n) : n \in Ws} /\ ReachedBy(g, e) = UNION {Of(g, n) : n \in Ws}
    BY <1>2 DEF ReachedBy
  <2> HIDE DEF Ws, Of
  <2>5. {Of(f, n) : n \in Ws} = {Of(g, n) : n \in Ws}
    BY <2>3
  <2> QED BY <2>4, <2>5
<1> QED BY <1>1, <1>2

(* The function Chains is defined by exists.                               *)
LEMMA ChainsExist ==
  ASSUME LatticeInv, phase # "new"
  PROVE  \E ch : /\ Chains = ch[size - 1]
                 /\ \A e \in 0 .. size - 1 : ch[e] = ReachedBy(ch, e)
<1> DEFINE UpTo(k, ch) == ch = [e \in 0 .. k |-> ReachedBy(ch, e)]
           Bad == {k \in 0 .. size - 1 : ~\E ch : UpTo(k, ch)}
<1>1. size \in Nat \ {0}
  BY DEF LatticeInv, Frontier
<1>2. ASSUME Bad # {} PROVE FALSE
  <2>1. PICK k \in Bad : \A j \in Bad : k <= j
    <3>1. Bad \subseteq Nat
      BY <1>1
    <3> HIDE DEF Bad
    <3> QED BY <1>2, <3>1, LeastNatural
  <2>2. CASE k = 0
    <3>1. UpTo(0, [e \in 0 .. 0 |-> {<<0, BosId>>}])
      BY DEF ReachedBy
    <3> QED BY <2>2, <3>1
  <2>3. CASE k # 0
    <3>1. k - 1 \in 0 .. size - 1 /\ k - 1 \notin Bad /\ k \in Nat
      BY <1>1, <2>1, <2>3
    <3>2. PICK ch : UpTo(k - 1, ch)
      BY <3>1
    <3> DEFINE new == [e \in 0 .. k |-> IF e <= k - 1 THEN ch[e] ELSE ReachedBy(ch, k)]
    <3>3. ASSUME NEW e \in 0 .. k PROVE new[e] = ReachedBy(new, e)
      <4>1. \A b \in 0 .. e - 1 : ch[b] = new[b]
        BY <3>1
      <4>2. ReachedBy(ch, e) = ReachedBy(new, e)
        <5>1. e \in 0 .. size - 1
          BY <1>1, <3>1
        <5> HIDE DEF new
        <5> QED BY <4>1, <5>1, ReachedByEarlier
      <4>3. CASE e <= k - 1
        <5>1. e \in 0 .. k - 1
          BY <3>1, <4>3
        <5>2. ch[e] = ReachedBy(ch, e)
          BY <3>2, <5>1
        <5>3. new[e] = ch[e]
          BY <4>3
        <5> QED BY <4>2, <5>2, <5>3
      <4>4. CASE e = k
        <5>1. new[e] = ReachedBy(ch, k)
          BY <3>1, <4>4
        <5> QED BY <4>2, <4>4, <5>1
      <4> QED BY <3>1, <4>3, <4>4
    <3>4. UpTo(k, new)
      BY <3>3
    <3> QED BY <2>1, <3>4
  <2> QED BY <2>2, <2>3
<1>3. size - 1 \notin Bad /\ size - 1 \in 0 .. size - 1
  BY <1>1, <1>2
<1> DEFINE all == CHOOSE ch : UpTo(size - 1, ch)
<1>4. UpTo(size - 1, all)
  BY <1>3
<1>5. Chains = all[size - 1]
  BY DEF Chains, ReachedBy
<1> HIDE DEF all
<1>6. \A e \in 0 .. size - 1 : all[e] = ReachedBy(all, e)
  BY <1>4
<1> QED BY <1>5, <1>6
-----------------------------------------------------------------------------
(* A word of the lattice: a step, with the first of its cheapest           *)
(* predecessors in the row of its beginning.                               *)
LEMMA WordFacts ==
  ASSUME ViterbiInv, phase # "new", NEW e \in 1 .. size - 1, NEW i \in 1 .. Len(ends_full[e])
  PROVE  /\ IsStep(ends_full[e][i]) /\ ends_full[e][i].begin \in 0 .. e - 1
         /\ i \in 1 .. Len(ends[e]) /\ ends[e][i].right = ends_full[e][i].right
         /\ FirstOfCheapest(ends[ends_full[e][i].begin], ends_full[e][i],
                            indices[e][i], ends[e][i].total)
<1>1. LatticeInv /\ TypeOK /\ e \in DOMAIN ends \ {0}
  BY DEF ViterbiInv, LatticeInv, TypeOK
<1>2. /\ ends_full[e][i] \in Node /\ ends_full[e][i].begin < e
      /\ Len(ends[e]) = Len(ends_full[e]) /\ ends[e][i].right = ends_full[e][i].right
  BY <1>1, RowTypes DEF LatticeInv, RowsAreParallel
<1>3. ends_full[e][i].begin \in 0 .. e - 1
  <2>1. \A n \in Node : n.begin \in Nat
    BY DEF Node
  <2> QED BY <1>2, <2>1
<1>4. IsStep(ends_full[e][i])
  BY <1>2 DEF IsStep, ViterbiInv, WordsAreSteps
<1>5. FirstOfCheapest(ends[ends_full[e][i].begin], ends_full[e][i], indices[e][i], ends[e][i].total)
  BY <1>1 DEF LatticeInv, PredecessorsStayBest
<1> QED BY <1>2, <1>3, <1>4, <1>5

(* For every chain there is a word of the row it reaches that ends in the  *)
(* same id and does not cost more.                                         *)
LEMMA NoCheaperChain ==
  ASSUME ViterbiInv, phase # "new", Short,
         NEW ch, \A e \in 0 .. size - 1 : ch[e] = ReachedBy(ch, e)
  PROVE  \A e \in 0 .. size - 1 : \A c \in ch[e] :
           /\ c[1] \in Int
           /\ \E j \in 1 .. Len(ends[e]) : ends[e][j].right = c[2] /\ ends[e][j].total <= c[1]
<1> DEFINE Good(e, c) ==
             /\ c[1] \in Int
             /\ \E j \in 1 .. Len(ends[e]) : ends[e][j].right = c[2] /\ ends[e][j].total <= c[1]
           Bad == {e \in 0 .. size - 1 : \E c \in ch[e] : ~Good(e, c)}
<1>1. LatticeInv /\ size \in Nat \ {0}
  BY DEF ViterbiInv, LatticeInv, Frontier
<1>2. ASSUME Bad # {} PROVE FALSE
  <2>1. PICK e \in Bad : \A b \in Bad : e <= b
    <3>1. Bad \subseteq Nat
      BY <1>1
    <3> HIDE DEF Bad
    <3> QED BY <1>2, <3>1, LeastNatural
  <2>2. PICK c \in ch[e] : ~Good(e, c)
    BY <2>1
  <2>3. e \in 0 .. size - 1 /\ \A b \in 0 .. e - 1 : \A d \in ch[b] : Good(b, d)
    BY <1>1, <2>1
  <2>4. c \in ReachedBy(ch, e)
    BY <2>2, <2>3
  <2>5. CASE e = 0
    <3>1. c = <<0, BosId>>
      BY <2>4, <2>5 DEF ReachedBy
    <3>2. ends[0] = <<[total |-> 0, right |-> BosId]>>
      BY <1>1 DEF LatticeInv, RowsAreParallel
    <3>3. Len(ends[0]) = 1 /\ ends[0][1].total = 0 /\ ends[0][1].right = BosId
      BY <3>2
    <3>4. Good(0, c)
      BY <3>1, <3>3
    <3> QED BY <2>2, <2>5, <3>4
  <2>6. CASE e # 0
    <3>0. PICK i \in 1 .. Len(ends_full[e]) : \E d \in ch[ends_full[e][i].begin] :
            c = <<d[1] + Conn[d[2]][ends_full[e][i].left] + ends_full[e][i].cost,
                  ends_full[e][i].right>>
      BY <2>4, <2>6 DEF ReachedBy
    <3>1. PICK d \in ch[ends_full[e][i].begin] :
            c = <<d[1] + Conn[d[2]][ends_full[e][i].left] + ends_full[e][i].cost,
                  ends_full[e][i].right>>
      BY <3>0
    <3> DEFINE n == ends_full[e][i]
               b == n.begin
    <3>2. e \in 1 .. size - 1
      BY <2>3, <2>6
    <3>3. /\ IsStep(n) /\ b \in 0 .. e - 1 /\ b \in 0 .. size - 1
          /\ i \in 1 .. Len(ends[e]) /\ ends[e][i].right = n.right
          /\ FirstOfCheapest(ends[b], n, indices[e][i], ends[e][i].total)
      <4>1. /\ IsStep(n) /\ b \in 0 .. e - 1
            /\ i \in 1 .. Len(ends[e]) /\ ends[e][i].right = n.right
            /\ FirstOfCheapest(ends[b], n, indices[e][i], ends[e][i].total)
        BY <3>2, WordFacts
      <4>2. b \in 0 .. size - 1
        BY <1>1, <2>3, <4>1
      <4> QED BY <4>1, <4>2
    <3>4. d \in ch[b]
      BY <3>1
    <3>5. PICK j \in 1 .. Len(ends[b]) : ends[b][j].right = d[2] /\ ends[b][j].total <= d[1]
      BY <2>3, <3>3, <3>4
    <3>6. d[1] \in Int
      BY <2>3, <3>3, <3>4
    <3>7. c[1] = d[1] + Conn[d[2]][n.left] + n.cost /\ c[2] = n.right
      BY <3>1
    <3> HIDE DEF n, b
    <3>8. ends[b] # << >>
      <4>1. ends[b] = << >> => 1 .. Len(ends[b]) = {}
        OBVIOUS
      <4> QED BY <3>5, <4>1
    <3>9. ends[e][i].total <= CostBehind(ends[b][j], n)
      <4>1. n.begin = b
        BY DEF b
      <4>2. /\ ends[e][i].total # I32_MAX =>
                 \A k \in 1 .. Len(ends[b]) : ends[e][i].total <= CostBehind(ends[b][k], n)
            /\ ends[e][i].total = I32_MAX => ends[b] = << >>
        BY <1>1, <3>3, <4>1, CheapestOfRow
      <4> QED BY <3>5, <3>8, <4>2
    <3>10. /\ ends[b][j].right \in Ids /\ ends[b][j].total \in Int /\ ends[e][i].total \in Int
      <4>1. b \in DOMAIN ends /\ e \in DOMAIN ends /\ TypeOK
        BY <1>1, <3>2, <3>3 DEF LatticeInv, TypeOK
      <4> QED BY <3>3, <3>5, <4>1, RowTypes
    <3>11. Conn[d[2]][n.left] \in Int /\ n.cost \in Int
      BY <3>3, <3>5, <3>10, IdsAssumption DEF IsStep, Node
    <3>12. ends[e][i].total <= c[1] /\ c[1] \in Int
      <4> DEFINE edge == Conn[d[2]][n.left]
      <4>1. CostBehind(ends[b][j], n) = ends[b][j].total + (edge + n.cost)
        BY <3>5 DEF CostBehind
      <4>2. edge \in Int /\ c[1] = d[1] + edge + n.cost
        BY <3>7, <3>11
      <4> DEFINE te == ends[e][i].total
                 tj == ends[b][j].total
                 d1 == d[1]
                 step == edge + n.cost
      <4>3. /\ te \in Int /\ tj \in Int /\ d1 \in Int /\ step \in Int
            /\ te <= tj + step /\ tj <= d1
        BY <3>5, <3>6, <3>9, <3>10, <3>11, <4>1, <4>2
      <4>4. c[1] = d1 + step
        BY <3>6, <3>11, <4>2
      <4> HIDE DEF edge, te, tj, d1, step
      <4>5. te <= d1 + step /\ d1 + step \in Int
        BY <4>3
      <4> QED BY <4>4, <4>5 DEF te
    <3> QED BY <2>2, <3>3, <3>7, <3>12
  <2> QED BY <2>5, <2>6
<1> QED BY <1>2
-----------------------------------------------------------------------------
(* The cost of a word of the path is that of the word the path has behind  *)
(* it (the one before it in the sentence) and one step.                    *)
LEMMA PathCosts ==
  ASSUME ViterbiInv, phase = "done", Short, NEW k \in 1 .. Len(path)
  PROVE  LET word == Entry(ends_full, path[k])
             prev == Entry(indices, path[k])
         IN  /\ word.right = Entry(ends, path[k]).right
             /\ word.right \in Ids /\ word.left \in Ids /\ word.cost \in Int
             /\ Entry(ends, path[k]).total \in Int
             /\ Entry(ends, path[k]).total = CostBehind(Entry(ends, prev), word)
             /\ prev.end = word.begin /\ prev.index + 1 \in 1 .. Len(ends[prev.end])
<1> DEFINE e == path[k].end
           i == path[k].index + 1
           n == ends_full[e][i]
           prev == indices[e][i]
<1>1. /\ LatticeInv /\ TypeOK /\ PathTilesSentence /\ EosConnected /\ phase # "new"
  BY DEF ViterbiInv, LatticeInv
<1>2. /\ e \in 1 .. size - 1 /\ path[k].index \in 0 .. Len(ends_full[e]) - 1
      /\ Connected(ends[e][i])
  BY <1>1 DEF PathTilesSentence, EosConnected, Entry
<1>3. e \in DOMAIN ends
  BY <1>1, <1>2 DEF TypeOK
<1>4. i \in 1 .. Len(ends_full[e])
  <2>1. Len(ends_full[e]) \in Nat
    BY <1>1, <1>3, RowTypes
  <2> QED BY <1>2, <2>1
<1>5. /\ Entry(ends_full, path[k]) = n /\ Entry(indices, path[k]) = prev
      /\ Entry(ends, path[k]) = ends[e][i]
  BY DEF Entry
<1> HIDE DEF e, i
<1>6. /\ IsStep(n) /\ n.begin \in 0 .. e - 1 /\ i \in 1 .. Len(ends[e])
      /\ ends[e][i].right = n.right
      /\ FirstOfCheapest(ends[n.begin], n, prev, ends[e][i].total)
  BY <1>1, <1>2, <1>4, WordFacts
<1>7. ends[e][i].total # I32_MAX
  BY <1>2 DEF Connected
<1>8. n.begin \in 0 .. size - 1
  <2>1. size \in Nat
    BY <1>1 DEF TypeOK
  <2> QED BY <1>2, <1>6, <2>1
<1> HIDE DEF n, prev
<1>9. /\ prev.end = n.begin /\ prev.index + 1 \in 1 .. Len(ends[n.begin])
      /\ ends[e][i].total = CostBehind(ends[n.begin][prev.index + 1], n)
  BY <1>1, <1>6, <1>7, <1>8, CheapestOfRow
<1>10. ends[e][i].total \in Int
  BY <1>1, <1>3, <1>6, RowTypes
<1>11. n.right \in Ids /\ n.left \in Ids /\ n.cost \in Int
  BY <1>6 DEF IsStep, Node
<1> QED BY <1>5, <1>6, <1>9, <1>10, <1>11 DEF Entry

(* The end of the sentence: its cost is that of the last word and the      *)
(* connection to EOS, and no word that ends there is cheaper.              *)
LEMMA EosCosts ==
  ASSUME ViterbiInv, phase = "done", Short
  PROVE  /\ eos.cost = Entry(ends, path[1]).total + Conn[Entry(ends, path[1]).right][BosId]
         /\ \A j \in 1 .. Len(ends[size - 1]) :
              eos.cost <= ends[size - 1][j].total + Conn[ends[size - 1][j].right][BosId]
<1>1. /\ LatticeInv /\ TypeOK /\ phase # "new" /\ size \in Nat \ {0}
      /\ eos.cost # I32_MAX /\ FirstOfCheapest(ends[size - 1], EosNode, eos.idx, eos.cost)
      /\ path[1] = eos.idx
  BY DEF ViterbiInv, LatticeInv, Frontier, PathFollowsPointers
<1>2. EosNode.begin = size - 1 /\ EosNode.left = BosId /\ EosNode.cost = 0
  BY DEF EosNode
<1>3. /\ size - 1 \in 0 .. size - 1 /\ size - 1 \in DOMAIN ends
  <2>1. size - 1 \in 0 .. size - 1
    BY <1>1
  <2> QED BY <1>1, <2>1 DEF TypeOK
<1>4. IsStep(EosNode)
  <2>1. EosNode \in Node
    <3>1. size - 1 \in Nat
      BY <1>1
    <3> QED BY <3>1, IdsAssumption DEF EosNode, Node
  <2>2. \A x \in Ids : Conn[x][BosId] + 0 \in -MaxStep .. MaxStep
    <3>1. \A x \in Ids : Conn[x][BosId] \in Int
      BY IdsAssumption
    <3> QED BY <3>1, EosAssumption
  <2> QED BY <1>2, <2>1, <2>2 DEF IsStep
<1>5. /\ eos.idx.end = size - 1 /\ eos.idx.index + 1 \in 1 .. Len(ends[size - 1])
      /\ eos.cost = CostBehind(ends[size - 1][eos.idx.index + 1], EosNode)
      /\ \A j \in 1 .. Len(ends[size - 1]) : eos.cost <= CostBehind(ends[size - 1][j], EosNode)
  <2>1. /\ EosNode.begin \in 0 .. size - 1
        /\ FirstOfCheapest(ends[EosNode.begin], EosNode, eos.idx, eos.cost)
    BY <1>1, <1>2, <1>3
  <2>2. /\ eos.idx.end = EosNode.begin /\ eos.idx.index + 1 \in 1 .. Len(ends[EosNode.begin])
        /\ eos.cost = CostBehind(ends[EosNode.begin][eos.idx.index + 1], EosNode)
        /\ \A j \in 1 .. Len(ends[EosNode.begin]) :
             eos.cost <= CostBehind(ends[EosNode.begin][j], EosNode)
    BY <1>1, <1>4, <2>1, CheapestOfRow
  <2> QED BY <1>2, <2>2
<1>6. \A j \in 1 .. Len(ends[size - 1]) :
        CostBehind(ends[size - 1][j], EosNode)
          = ends[size - 1][j].total + Conn[ends[size - 1][j].right][BosId]
  <2> TAKE j \in 1 .. Len(ends[size - 1])
  <2>1. ends[size - 1][j].right \in Ids
    BY <1>1, <1>3, RowTypes
  <2>2. Conn[ends[size - 1][j].right][BosId] \in Int
    BY <2>1, IdsAssumption
  <2> QED BY <1>2, <2>2 DEF CostBehind
<1> QED BY <1>1, <1>5, <1>6 DEF Entry

(* The k-th word of the sentence, what the lattice says it costs to get    *)
(* behind it, and the id it connects to.                                   *)
WordAt(k) == Entry(ends_full, path[Len(path) + 1 - k])
CostAt(k) == IF k = 0 THEN 0 ELSE Entry(ends, path[Len(path) + 1 - k]).total
IdBefore(k) == IF k = 1 THEN BosId ELSE WordAt(k - 1).right

(* From word to word the cost grows by a connection and a word.            *)
LEMMA CostsAlongPath ==
  ASSUME ViterbiInv, phase = "done", Short, NEW k \in 1 .. Len(path)
  PROVE  CostAt(k) = CostAt(k - 1) + Conn[IdBefore(k)][WordAt(k).left] + WordAt(k).cost
<1> DEFINE p == Len(path) + 1 - k
           word == WordAt(k)
           prev == Entry(indices, path[p])
           edge == Conn[IdBefore(k)][word.left]
<1>1. Len(path) \in Nat /\ k \in Nat /\ k # 0
  <2>1. path \in Seq(NodeIdx)
    BY DEF ViterbiInv, LatticeInv, TypeOK
  <2> QED BY <2>1, LenProperties
<1>2. p \in 1 .. Len(path)
  BY <1>1
<1>3. word = Entry(ends_full, path[p]) /\ CostAt(k) = Entry(ends, path[p]).total
  BY <1>1 DEF WordAt, CostAt
<1> HIDE DEF p, word
<1>4. /\ word.left \in Ids /\ word.cost \in Int
      /\ CostAt(k) = CostBehind(Entry(ends, prev), word)
      /\ prev.end = word.begin /\ prev.index + 1 \in 1 .. Len(ends[prev.end])
  BY <1>2, <1>3, PathCosts
<1>5. /\ Entry(ends, prev).total = CostAt(k - 1) /\ CostAt(k - 1) \in Int
      /\ Entry(ends, prev).right = IdBefore(k) /\ IdBefore(k) \in Ids
  <2>1. CASE k = 1
    <3>1. p = Len(path)
      BY <1>1, <2>1 DEF p
    <3>2. word.begin = 0
      BY <1>3, <3>1 DEF ViterbiInv, LatticeInv, PathTilesSentence
    <3>3. ends[0] = <<[total |-> 0, right |-> BosId]>>
      BY DEF ViterbiInv, LatticeInv, RowsAreParallel
    <3>4. Len(ends[0]) = 1 /\ ends[0][1] = [total |-> 0, right |-> BosId]
      BY <3>3
    <3>5. prev.index + 1 = 1 /\ prev.end = 0
      BY <1>4, <3>2, <3>4
    <3> HIDE DEF prev
    <3>6. Entry(ends, prev) = ends[0][1]
      BY <3>5 DEF Entry
    <3>7. CostAt(k - 1) = 0 /\ IdBefore(k) = BosId
      BY <2>1 DEF CostAt, IdBefore
    <3> QED BY <3>4, <3>6, <3>7, IdsAssumption
  <2>2. CASE k # 1
    <3> DEFINE q == Len(path) + 1 - (k - 1)
    <3>1. q = p + 1 /\ p \in 1 .. Len(path) - 1 /\ q \in 1 .. Len(path) /\ k - 1 # 0
      BY <1>1, <1>2, <2>2 DEF p
    <3>2. CostAt(k - 1) = Entry(ends, path[q]).total /\ IdBefore(k) = Entry(ends_full, path[q]).right
      BY <2>2, <3>1 DEF CostAt, IdBefore, WordAt
    <3> HIDE DEF q
    <3>3. prev = path[q]
      BY <3>1 DEF ViterbiInv, PathFollowsPointers
    <3>4. /\ Entry(ends_full, path[q]).right = Entry(ends, path[q]).right
          /\ Entry(ends_full, path[q]).right \in Ids
          /\ Entry(ends, path[q]).total \in Int
      BY <3>1, PathCosts
    <3> HIDE DEF prev
    <3> QED BY <3>2, <3>3, <3>4
  <2> QED BY <2>1, <2>2
<1>6. edge \in Int
  BY <1>4, <1>5, IdsAssumption
<1>7. CostAt(k) = CostAt(k - 1) + (edge + word.cost)
  BY <1>4, <1>5 DEF CostBehind
<1> DEFINE c == CostAt(k - 1)
           w == word.cost
<1>8. c \in Int /\ w \in Int
  BY <1>4, <1>5
<1> HIDE DEF edge, c, w
<1>9. c + (edge + w) = c + edge + w
  BY <1>6, <1>8
<1> QED BY <1>7, <1>9 DEF edge, c, w, word

(* The function costTo of TopPathIsOptimal is CostAt.                      *)
LEMMA CostToIsCostAt ==
  ASSUME ViterbiInv, phase = "done", Short
  PROVE  LET costTo[k \in 0 .. Len(path)] ==
               IF k = 0 THEN 0
               ELSE costTo[k - 1] + Conn[IdBefore(k)][WordAt(k).left] + WordAt(k).cost
         IN  costTo[Len(path)] = CostAt(Len(path))
<1> DEFINE L == Len(path)
           Sum(f) == [k \in 0 .. L |->
             IF k = 0 THEN 0 ELSE f[k - 1] + Conn[IdBefore(k)][WordAt(k).left] + WordAt(k).cost]
           costs == [k \in 0 .. L |-> CostAt(k)]
           costTo == CHOOSE f : f = Sum(f)
           Bad == {k \in 0 .. L : costTo[k] # CostAt(k)}
<1>1. L \in Nat
  <2>1. path \in Seq(NodeIdx)
    BY DEF ViterbiInv, LatticeInv, TypeOK
  <2> QED BY <2>1, LenProperties
<1>2. costs = Sum(costs)
  <2>1. ASSUME NEW k \in 0 .. L PROVE CostAt(k) = Sum(costs)[k]
    <3>1. CASE k = 0
      BY <3>1 DEF CostAt
    <3>2. CASE k # 0
      <4>1. k \in 1 .. L /\ k - 1 \in 0 .. L
        BY <1>1, <3>2
      <4>2. costs[k - 1] = CostAt(k - 1)
        BY <4>1
      <4>3. CostAt(k) = CostAt(k - 1) + Conn[IdBefore(k)][WordAt(k).left] + WordAt(k).cost
        BY <4>1, CostsAlongPath
      <4> HIDE DEF costs
      <4> QED BY <3>2, <4>2, <4>3
    <3> QED BY <3>1, <3>2
  <2> QED BY <2>1
<1>3. costTo = Sum(costTo)
  BY <1>2
<1> HIDE DEF costTo
<1>4. /\ costTo[0] = 0
      /\ \A k \in 1 .. L :
           costTo[k] = costTo[k - 1] + Conn[IdBefore(k)][WordAt(k).left] + WordAt(k).cost
  BY <1>1, <1>3
<1>5. ASSUME Bad # {} PROVE FALSE
  <2>1. Bad \subseteq Nat /\ \A k \in Bad : k \in 0 .. L /\ costTo[k] # CostAt(k)
    BY <1>1
  <2>2. \A k \in 0 .. L : k \notin Bad => costTo[k] = CostAt(k)
    OBVIOUS
  <2> HIDE DEF Bad
  <2>3. PICK k \in Bad : \A j \in Bad : k <= j
    BY <1>5, <2>1, LeastNatural
  <2>4. k # 0
    BY <1>4, <2>1, <2>3 DEF CostAt
  <2>5. k \in 1 .. L /\ k - 1 \in 0 .. L /\ k - 1 \notin Bad
    BY <1>1, <2>1, <2>3, <2>4
  <2>6. costTo[k] = CostAt(k - 1) + Conn[IdBefore(k)][WordAt(k).left] + WordAt(k).cost
    BY <1>4, <2>2, <2>5
  <2> QED BY <2>1, <2>3, <2>5, <2>6, CostsAlongPath
<1>6. costTo[L] = CostAt(L)
  <2>1. L \in 0 .. L /\ L \notin Bad
    BY <1>1, <1>5
  <2> QED BY <2>1
<1> QED BY <1>6 DEF costTo
-----------------------------------------------------------------------------
(* The path costs what the end of the sentence costs, and that is no more  *)
(* than any chain of words.                                                *)
LEMMA PathIsOptimal == ASSUME ViterbiInv, Short PROVE TopPathIsOptimal
<1> SUFFICES ASSUME phase = "done" PROVE TopPathIsOptimal
  BY DEF TopPathIsOptimal
<1> DEFINE L == Len(path)
           total == CostAt(L) + Conn[WordAt(L).right][BosId]
<1>1. /\ LatticeInv /\ TypeOK /\ phase # "new" /\ size \in Nat \ {0}
      /\ path \in Seq(NodeIdx) /\ path # << >>
  BY DEF ViterbiInv, LatticeInv, TypeOK, PathTilesSentence, Frontier
<1>2. L \in Nat /\ L # 0 /\ L + 1 - L = 1 /\ 1 \in 1 .. L
  <2>1. L \in Nat /\ L # 0
    BY <1>1, EmptySeq, LenProperties
  <2> QED BY <2>1
<1>3. eos.cost = total
  <2>1. CostAt(L) = Entry(ends, path[1]).total /\ WordAt(L) = Entry(ends_full, path[1])
    BY <1>2 DEF CostAt, WordAt
  <2>2. Entry(ends_full, path[1]).right = Entry(ends, path[1]).right
    BY <1>2, PathCosts
  <2> QED BY <2>1, <2>2, EosCosts
<1>4. \A c \in Chains : eos.cost <= c[1] + Conn[c[2]][BosId]
  <2> TAKE c \in Chains
  <2>1. PICK ch : /\ Chains = ch[size - 1]
                  /\ \A e \in 0 .. size - 1 : ch[e] = ReachedBy(ch, e)
    BY <1>1, ChainsExist
  <2>2. size - 1 \in 0 .. size - 1 /\ size - 1 \in DOMAIN ends
    <3>1. size - 1 \in 0 .. size - 1
      BY <1>1
    <3> QED BY <1>1, <3>1 DEF TypeOK
  <2>3. /\ c[1] \in Int
        /\ \E j \in 1 .. Len(ends[size - 1]) :
             ends[size - 1][j].right = c[2] /\ ends[size - 1][j].total <= c[1]
    BY <1>1, <2>1, <2>2, NoCheaperChain
  <2>4. PICK j \in 1 .. Len(ends[size - 1]) :
          ends[size - 1][j].right = c[2] /\ ends[size - 1][j].total <= c[1]
    BY <2>3
  <2>5. eos.cost <= ends[size - 1][j].total + Conn[c[2]][BosId]
    BY <2>4, EosCosts
  <2>6. ends[size - 1][j].total \in Int /\ Conn[c[2]][BosId] \in Int /\ eos.cost \in Int
    <3>1. ends[size - 1][j].total \in Int /\ ends[size - 1][j].right \in Ids
      BY <1>1, <2>2, RowTypes
    <3> QED BY <1>1, <2>4, <3>1, IdsAssumption DEF TypeOK
  <2> DEFINE edge == Conn[c[2]][BosId]
             t == ends[size - 1][j].total
             d == c[1]
  <2>7. /\ edge \in Int /\ t \in Int /\ d \in Int /\ eos.cost \in Int
        /\ t <= d /\ eos.cost <= t + edge
    BY <2>3, <2>4, <2>5, <2>6
  <2> HIDE DEF edge, t, d
  <2>8. eos.cost <= d + edge
    BY <2>7
  <2> QED BY <2>8 DEF d, edge
<1> DEFINE costTo[k \in 0 .. L] ==
             IF k = 0 THEN 0
             ELSE costTo[k - 1] + Conn[IdBefore(k)][WordAt(k).left] + WordAt(k).cost
<1>5. costTo[L] = CostAt(L)
  BY CostToIsCostAt
<1>6. LET sum == costTo[L] + Conn[WordAt(L).right][BosId]
      IN  /\ eos.cost = sum
          /\ \A c \in Chains : sum <= c[1] + Conn[c[2]][BosId]
  BY <1>3, <1>4, <1>5
<1> QED BY <1>6 DEF TopPathIsOptimal, WordAt, IdBefore

(* fill_top_path returns a segmentation of the sentence, and no            *)
(* segmentation into words of the lattice is cheaper: for any costs and    *)
(* words, in every sentence of fewer than 2^31 / MaxStep characters.       *)
THEOREM TopPathStaysBest == Spec => [](size * MaxStep < I32_MAX => TopPathIsBest)
<1>1. ViterbiInv => (size * MaxStep < I32_MAX => TopPathIsBest)
  BY PathIsOptimal DEF ViterbiInv, LatticeInv, TopPathIsBest, Short
<1> QED BY <1>1, ViterbiInvHolds, PTL

-----------------------------------------------------------------------------
(* Only the places in the sequence matter, and one more element is chosen  *)
(* or not.                                                                 *)
AgreeUpTo(n, places, more) == \A i \in 1 .. n : i \in places <=> i \in more

(* Chosen of a sequence with one more element.                             *)
LEMMA ChosenStep ==
  ASSUME NEW V, NEW seq \in Seq(V), NEW e \in V, NEW places, NEW more,
         AgreeUpTo(Len(seq), places, more)
  PROVE  Chosen(Append(seq, e), more) =
           IF Len(seq) + 1 \in more THEN Append(Chosen(seq, places), e) ELSE Chosen(seq, places)
<1> DEFINE n == Len(seq)
           long == Append(seq, e)
<1>1. /\ n \in Nat /\ 0 \in Nat /\ 0 <= n /\ long \in Seq(V) /\ Len(long) = n + 1
      /\ long[n + 1] = e /\ \A i \in 1 .. n : long[i] = seq[i]
  BY LenProperties, AppendProperties
<1>2. PICK f : IsChoice(f, seq, places) /\ Chosen(seq, places) = f[n]
  BY ChosenSteps
<1>3. PICK g : IsChoice(g, long, more) /\ Chosen(long, more) = g[n + 1]
  <2> HIDE DEF long
  <2> QED BY <1>1, ChosenSteps
<1> HIDE DEF long
<1>4. StepAlike(f, g, 0, n)
  <2>1. \A i \in 0 + 1 .. n : i \in 1 .. n /\ i \in 1 .. n + 1
    BY <1>1
  <2> QED BY <1>1, <1>2, <1>3, <2>1 DEF IsChoice, StepAlike, AgreeUpTo
<1>5. f[n] = g[n]
  <2>1. \A i \in 0 .. n : f[i] = g[i]
    BY <1>1, <1>4, SameByStep
  <2> QED BY <1>1, <2>1
<1>6. n + 1 \in 1 .. n + 1 /\ (n + 1) - 1 = n
  BY <1>1
<1>7. g[n + 1] = IF n + 1 \in more THEN Append(g[n], e) ELSE g[n]
  BY <1>1, <1>3, <1>6 DEF IsChoice
<1>8. Chosen(long, more) =
        IF n + 1 \in more THEN Append(Chosen(seq, places), e) ELSE Chosen(seq, places)
  BY <1>2, <1>3, <1>5, <1>7
<1> QED BY <1>8, Zenon DEF long

(* Two sequences put together have the elements of both.                   *)
LEMMA ToSetConcat ==
  ASSUME NEW V, NEW s \in Seq(V), NEW t \in Seq(V)
  PROVE  ToSet(s \o t) = ToSet(s) \cup ToSet(t)
<1> DEFINE m == Len(s)
           n == Len(t)
<1>1. m \in Nat /\ n \in Nat /\ DOMAIN s = 1 .. m /\ DOMAIN t = 1 .. n
  BY LenProperties
<1>2. s \o t \in Seq(V) /\ Len(s \o t) = m + n
      /\ \A i \in 1 .. m + n : (s \o t)[i] = IF i <= m THEN s[i] ELSE t[i - m]
  BY ConcatProperties
<1>3. DOMAIN (s \o t) = 1 .. m + n
  BY <1>2, LenProperties
<1>4. ASSUME NEW i \in 1 .. m + n PROVE (s \o t)[i] \in ToSet(s) \cup ToSet(t)
  <2>1. CASE i <= m
    BY <1>1, <1>2, <2>1 DEF ToSet
  <2>2. CASE ~(i <= m)
    <3>1. i - m \in 1 .. n
      BY <1>1, <2>2
    <3> QED BY <1>1, <1>2, <2>2, <3>1 DEF ToSet
  <2> QED BY <2>1, <2>2
<1>5. ASSUME NEW i \in 1 .. m PROVE s[i] \in ToSet(s \o t)
  <2>1. i \in 1 .. m + n /\ i <= m
    BY <1>1
  <2> QED BY <1>2, <1>3, <2>1 DEF ToSet
<1>6. ASSUME NEW i \in 1 .. n PROVE t[i] \in ToSet(s \o t)
  <2>1. i + m \in 1 .. m + n /\ ~(i + m <= m) /\ (i + m) - m = i
    BY <1>1
  <2>2. (s \o t)[i + m] = t[i]
    BY <1>2, <2>1
  <2> QED BY <1>3, <2>1, <2>2 DEF ToSet
<1>7. ToSet(s \o t) \subseteq ToSet(s) \cup ToSet(t)
  <2> SUFFICES ASSUME NEW v \in ToSet(s \o t) PROVE v \in ToSet(s) \cup ToSet(t)
    OBVIOUS
  <2>1. PICK i \in 1 .. m + n : v = (s \o t)[i]
    BY <1>3 DEF ToSet
  <2> QED BY <1>4, <2>1
<1>8. ToSet(s) \subseteq ToSet(s \o t)
  <2> SUFFICES ASSUME NEW v \in ToSet(s) PROVE v \in ToSet(s \o t)
    OBVIOUS
  <2>1. PICK i \in 1 .. m : v = s[i]
    BY <1>1 DEF ToSet
  <2> QED BY <1>5, <2>1
<1>9. ToSet(t) \subseteq ToSet(s \o t)
  <2> SUFFICES ASSUME NEW v \in ToSet(t) PROVE v \in ToSet(s \o t)
    OBVIOUS
  <2>1. PICK i \in 1 .. n : v = t[i]
    BY <1>1 DEF ToSet
  <2> QED BY <1>6, <2>1
<1> QED BY <1>7, <1>8, <1>9

(* What is in the sequences is in them when they are put together.         *)
LEMMA FlattenElements ==
  ASSUME NEW V, NEW ss \in Seq(Seq(V))
  PROVE  ToSet(FlattenSeq(ss)) = UNION {ToSet(ss[i]) : i \in 1 .. Len(ss)}
<1> DEFINE n == Len(ss)
           Within(i) == UNION {ToSet(ss[j]) : j \in 1 .. i}
<1>1. n \in Nat /\ 1 \in Nat
  BY LenProperties
<1>2. CASE n = 0
  <2>1. ss = << >> /\ ToSet(<< >>) = {}
    BY <1>2, EmptySeq DEF ToSet
  <2>2. FlattenSeq(ss) = << >>
    BY <1>2, <2>1, FlattenEmpty
  <2>3. Within(n) = {}
    BY <1>2
  <2> QED BY <2>1, <2>2, <2>3
<1>3. CASE n # 0
  <2>1. PICK f : f \in [1 .. n -> Seq(V)] /\ IsFlattening(f, ss) /\ FlattenSeq(ss) = f[n]
    BY <1>3, FlattenSteps
  <2> DEFINE Good == {i \in 1 .. n : ToSet(f[i]) = Within(i)}
  <2>2. 1 \in Good
    <3>1. 1 \in 1 .. n
      BY <1>1, <1>3
    <3>2. f[1] = ss[1] /\ 1 \in 1 .. n
      BY <2>1, <3>1 DEF IsFlattening
    <3>3. Within(1) = ToSet(ss[1])
      <4>1. 1 .. 1 = {1}
        OBVIOUS
      <4>2. {ToSet(ss[j]) : j \in {1}} = {ToSet(ss[1])}
        OBVIOUS
      <4> QED BY <4>1, <4>2
    <3> HIDE DEF Within
    <3> QED BY <3>2, <3>3
  <2>3. ASSUME NEW i \in 1 + 1 .. n, i - 1 \in Good PROVE i \in Good
    <3>1. i \in 1 .. n /\ i # 1 /\ i - 1 \in 1 .. n
      BY <1>1
    <3>2. f[i] = f[i - 1] \o ss[i] /\ f[i - 1] \in Seq(V) /\ ss[i] \in Seq(V)
      BY <2>1, <3>1, ElementOfSeq DEF IsFlattening
    <3>3. ToSet(f[i]) = ToSet(f[i - 1]) \cup ToSet(ss[i])
      BY <3>2, ToSetConcat
    <3>4. Within(i) = Within(i - 1) \cup ToSet(ss[i])
      <4>1. \A j \in 1 .. i : j = i \/ j \in 1 .. i - 1
        BY <3>1
      <4>2. \A j \in 1 .. i - 1 : j \in 1 .. i
        BY <3>1
      <4>3. i \in 1 .. i
        BY <3>1
      <4> QED BY <4>1, <4>2, <4>3
    <3>5. ToSet(f[i - 1]) = Within(i - 1)
      BY <2>3
    <3> HIDE DEF Within
    <3> QED BY <3>1, <3>3, <3>4, <3>5
  <2>4. n \in Good
    <3> HIDE DEF Good
    <3>1. \A i \in 1 .. n : i \in Good
      BY <1>1, <2>2, <2>3, ByStep
    <3> QED BY <1>1, <1>3, <3>1
  <2> QED BY <2>1, <2>4
<1> QED BY <1>2, <1>3

-----------------------------------------------------------------------------
(***************************************************************************)
(* The index of a dictionary: every list of ids is read as it was written, *)
(* and the trie leads every indexed form to the list of its entries.       *)
(***************************************************************************)
IsAscending(ids) == \A j, k \in 1 .. Len(ids) : j < k => ids[j] < ids[k]

(* The difference that is written for the i-th id.                         *)
Delta(ids, i) ==
  LET before == IF i = 1 THEN 0 ELSE ids[i - 1]
  IN IF ids[i] > before THEN ids[i] - before ELSE 0

(* A list of ids is written as its length, its first id and the            *)
(* differences.                                                            *)
LEMMA WrittenIds ==
  ASSUME NEW ids \in Seq(Nat), IsAscending(ids)
  PROVE  /\ WriteIds(ids) \in Seq(Nat) /\ Len(WriteIds(ids)) = Len(ids) + 1
         /\ WriteIds(ids)[1] = Len(ids)
         /\ \A i \in 1 .. Len(ids) :
              /\ WriteIds(ids)[i + 1] \in Nat
              /\ i = 1 => WriteIds(ids)[i + 1] = ids[1]
              /\ i # 1 => ids[i - 1] + WriteIds(ids)[i + 1] = ids[i]
<1> DEFINE n == Len(ids)
           deltas == [i \in DOMAIN ids |-> Delta(ids, i)]
<1>1. n \in Nat /\ DOMAIN ids = 1 .. n /\ \A i \in 1 .. n : ids[i] \in Nat
  BY LenProperties, ElementOfSeq
<1>2. ASSUME NEW i \in 1 .. n
      PROVE  /\ Delta(ids, i) \in Nat
             /\ i = 1 => Delta(ids, i) = ids[1]
             /\ i # 1 => ids[i - 1] + Delta(ids, i) = ids[i]
  <2>1. CASE i = 1
    BY <1>1, <2>1 DEF Delta
  <2>2. CASE i # 1
    <3>1. i - 1 \in 1 .. n /\ i - 1 < i
      BY <1>1, <2>2
    <3>2. ids[i - 1] < ids[i] /\ ids[i - 1] \in Nat /\ ids[i] \in Nat
      BY <1>1, <3>1 DEF IsAscending
    <3> QED BY <2>2, <3>2 DEF Delta
  <2> QED BY <2>1, <2>2
<1>3. deltas \in Seq(Nat) /\ Len(deltas) = n /\ \A i \in 1 .. n : deltas[i] = Delta(ids, i)
  <2>1. deltas \in [1 .. n -> Nat]
    BY <1>1, <1>2
  <2>2. \A i \in 1 .. n : deltas[i] = Delta(ids, i)
    BY <1>1
  <2> HIDE DEF deltas
  <2>3. deltas \in Seq(Nat)
    BY <1>1, <2>1, SeqDef
  <2>4. Len(deltas) = n
    BY <1>1, <2>1, <2>3, LenProperties
  <2> QED BY <2>2, <2>3, <2>4
<1>4. WriteIds(ids) = <<n>> \o deltas
  BY Zenon DEF WriteIds, Delta
<1> HIDE DEF deltas
<1>5. <<n>> \in Seq(Nat) /\ Len(<<n>>) = 1 /\ <<n>>[1] = n
  BY <1>1
<1>6. /\ WriteIds(ids) \in Seq(Nat) /\ Len(WriteIds(ids)) = 1 + n
      /\ \A i \in 1 .. 1 + n : WriteIds(ids)[i] = IF i <= 1 THEN <<n>>[i] ELSE deltas[i - 1]
  BY <1>3, <1>4, <1>5, ConcatProperties
<1>7. WriteIds(ids)[1] = n
  BY <1>1, <1>5, <1>6
<1>8. \A i \in 1 .. n : WriteIds(ids)[i + 1] = Delta(ids, i)
  <2> SUFFICES ASSUME NEW i \in 1 .. n PROVE WriteIds(ids)[i + 1] = Delta(ids, i)
    OBVIOUS
  <2>1. i + 1 \in 1 .. 1 + n /\ ~(i + 1 <= 1) /\ (i + 1) - 1 = i
    BY <1>1
  <2> QED BY <1>3, <1>6, <2>1
<1> QED BY <1>1, <1>2, <1>6, <1>7, <1>8

(* A list in the table is read as it was written.                          *)
IsWrittenAt(ids, table, index) ==
  \A j \in 1 .. Len(ids) + 1 : table[index + j] = WriteIds(ids)[j]

(* What was written at a place of the table is read from there.            *)
LEMMA ReadIds ==
  ASSUME NEW ids \in Seq(Nat), IsAscending(ids), NEW table, NEW index \in Nat,
         IsWrittenAt(ids, table, index)
  PROVE  EntriesAt(table, index) = ids
<1> DEFINE n == Len(ids)
           w == WriteIds(ids)
           Rec(f) == f = [i \in 0 .. table[index + 1] |->
                            IF i = 0 THEN 0 ELSE f[i - 1] + table[index + 1 + i]]
           sum == CHOOSE f : Rec(f)
           next == [p \in (0 .. n) \X Nat |-> IF p[1] = 0 THEN 0 ELSE p[2] + w[p[1] + 1]]
<1>1. n \in Nat /\ 0 \in Nat /\ 0 <= n /\ DOMAIN ids = 1 .. n
      /\ \A i \in 1 .. n : ids[i] \in Nat
  BY LenProperties, ElementOfSeq
<1>2. /\ Len(w) = n + 1 /\ w[1] = n
      /\ \A i \in 1 .. n : /\ w[i + 1] \in Nat
                           /\ i = 1 => w[i + 1] = ids[1]
                           /\ i # 1 => ids[i - 1] + w[i + 1] = ids[i]
  BY WrittenIds
<1>3. table[index + 1] = n /\ \A i \in 1 .. n : table[index + 1 + i] = w[i + 1]
  <2>1. 1 \in 1 .. n + 1 /\ \A i \in 1 .. n : i + 1 \in 1 .. n + 1 /\ index + (i + 1) = index + 1 + i
    BY <1>1
  <2> QED BY <1>2, <2>1 DEF IsWrittenAt
<1>4. next \in [(0 .. n) \X Nat -> Nat]
  <2>1. ASSUME NEW p \in (0 .. n) \X Nat
        PROVE  (IF p[1] = 0 THEN 0 ELSE p[2] + w[p[1] + 1]) \in Nat
    <3>1. p[1] \in 0 .. n /\ p[2] \in Nat
      OBVIOUS
    <3>2. p[1] # 0 => w[p[1] + 1] \in Nat
      <4>1. p[1] # 0 => p[1] \in 1 .. n
        BY <1>1, <3>1
      <4> QED BY <1>2, <4>1
    <3> QED BY <3>1, <3>2
  <2> QED BY <2>1
<1>5. \A i \in 1 .. n, s \in Nat : next[<<i, s>>] = s + w[i + 1]
  <2> SUFFICES ASSUME NEW i \in 1 .. n, NEW s \in Nat PROVE next[<<i, s>>] = s + w[i + 1]
    OBVIOUS
  <2>1. <<i, s>> \in (0 .. n) \X Nat /\ i # 0
    BY <1>1
  <2> HIDE DEF w
  <2> QED BY <2>1
<1> HIDE DEF next, w
<1>6. PICK f : IsStepwise(f, 0, n, Nat, 0, next)
  <2> HIDE DEF n
  <2> QED BY <1>1, <1>4, StepwiseExists
<1>7. /\ f \in [0 .. n -> Nat] /\ f[0] = 0
      /\ \A i \in 1 .. n : f[i] = f[i - 1] + table[index + 1 + i]
  <2>1. \A i \in 1 .. n : i \in 0 .. n /\ i - 1 \in 0 .. n /\ i # 0
    BY <1>1
  <2>2. 0 \in 0 .. n
    BY <1>1
  <2> QED BY <1>3, <1>5, <1>6, <2>1, <2>2 DEF IsStepwise
<1>8. Rec(f)
  <2> DEFINE body(i) == IF i = 0 THEN 0 ELSE f[i - 1] + table[index + 1 + i]
  <2>1. \A i \in 0 .. n : i # 0 => i \in 1 .. n
    BY <1>1
  <2>2. \A i \in 0 .. n : f[i] = body(i)
    BY <1>7, <2>1
  <2>3. f = [i \in 0 .. n |-> body(i)]
    <3> HIDE DEF body
    <3> QED BY <1>7, <2>2
  <2> QED BY <1>3, <2>3
<1>9. Rec(sum)
  <2> HIDE DEF Rec
  <2> QED BY <1>8, Zenon
<1>10. EntriesAt(table, index) = [i \in 1 .. table[index + 1] |-> sum[i]]
  BY Zenon DEF EntriesAt
<1> HIDE DEF sum
<1>11. \A i \in 0 .. n : sum[i] = IF i = 0 THEN 0 ELSE sum[i - 1] + table[index + 1 + i]
  BY <1>3, <1>9
<1> HIDE DEF Rec
<1>12. \A i \in 1 .. n : sum[i] = ids[i]
  <2>1. StepAlike(sum, ids, 1, n) \/ n = 0
    <3> SUFFICES ASSUME n # 0 PROVE StepAlike(sum, ids, 1, n)
      OBVIOUS
    <3>1. 1 \in 0 .. n /\ 0 \in 0 .. n /\ 1 \in 1 .. n /\ 1 # 0 /\ 1 - 1 = 0
      BY <1>1
    <3>2. sum[0] = 0
      BY <1>11, <3>1
    <3>3. sum[1] = sum[0] + table[index + 1 + 1]
      BY <1>11, <3>1
    <3>4. sum[1] = ids[1]
      BY <1>1, <1>2, <1>3, <3>1, <3>2, <3>3
    <3>5. ASSUME NEW i \in 1 + 1 .. n, sum[i - 1] = ids[i - 1] PROVE sum[i] = ids[i]
      <4>1. i \in 1 .. n /\ i \in 0 .. n /\ i # 0 /\ i # 1
        BY <1>1
      <4>2. sum[i] = sum[i - 1] + table[index + 1 + i]
        BY <1>11, <4>1
      <4> QED BY <1>2, <1>3, <3>5, <4>1, <4>2
    <3> QED BY <3>4, <3>5 DEF StepAlike
  <2>2. 1 \in Nat
    OBVIOUS
  <2>3. CASE n = 0
    BY <1>1, <2>3
  <2>4. CASE n # 0
    BY <1>1, <2>1, <2>2, <2>4, SameByStep
  <2> QED BY <2>3, <2>4
<1>13. ids = [i \in 1 .. n |-> ids[i]]
  BY <1>1, LenProperties
<1> QED BY <1>3, <1>10, <1>12, <1>13

(* Where the sequences that are put together begin.                        *)
IsOffsets(offset, ss) ==
  /\ Len(ss) # 0 => offset[1] = 0
  /\ \A k \in 2 .. Len(ss) : offset[k] = offset[k - 1] + Len(ss[k - 1])

(* The first i sequences, put together in t, are found where they begin.   *)
IsFoundAt(offset, ss, t, i) ==
  /\ offset[i] + Len(ss[i]) = Len(t)
  /\ \A k \in 1 .. i :
       /\ offset[k] \in Nat
       /\ \A j \in 1 .. Len(ss[k]) : offset[k] + j \in 1 .. Len(t) /\ t[offset[k] + j] = ss[k][j]

(* Each part is found at its offset in the whole.                          *)
LEMMA FlattenPlaces ==
  ASSUME NEW V, NEW ss \in Seq(Seq(V)), Len(ss) # 0, NEW offset, IsOffsets(offset, ss)
  PROVE  IsFoundAt(offset, ss, FlattenSeq(ss), Len(ss))
<1> DEFINE n == Len(ss)
<1>1. n \in Nat /\ 1 \in Nat /\ 1 \in 1 .. n
  BY LenProperties
<1>2. \A i \in 1 .. n : ss[i] \in Seq(V) /\ Len(ss[i]) \in Nat
  BY ElementOfSeq, LenProperties
<1>3. PICK f : f \in [1 .. n -> Seq(V)] /\ IsFlattening(f, ss) /\ FlattenSeq(ss) = f[n]
  BY FlattenSteps
<1> DEFINE Good == {i \in 1 .. n : IsFoundAt(offset, ss, f[i], i)}
<1>4. 1 \in Good
  <2>1. f[1] = ss[1] /\ offset[1] = 0
    BY <1>1, <1>3 DEF IsFlattening, IsOffsets
  <2>2. \A k \in 1 .. 1 : k = 1
    OBVIOUS
  <2>3. \A j \in 1 .. Len(ss[1]) : 0 + j = j
    OBVIOUS
  <2>4. IsFoundAt(offset, ss, f[1], 1)
    BY <1>1, <1>2, <2>1, <2>2, <2>3 DEF IsFoundAt
  <2> QED BY <1>1, <2>4
<1>5. ASSUME NEW i \in 1 + 1 .. n, i - 1 \in Good PROVE i \in Good
  <2>1. i \in 1 .. n /\ i # 1 /\ i - 1 \in 1 .. n /\ i \in 2 .. n
    BY <1>1
  <2> DEFINE s == f[i - 1]
             t == ss[i]
             m == Len(s)
  <2>2. f[i] = s \o t /\ s \in Seq(V) /\ t \in Seq(V)
    BY <1>2, <1>3, <2>1 DEF IsFlattening
  <2>3. m \in Nat /\ Len(t) \in Nat /\ Len(f[i]) = m + Len(t)
        /\ \A j \in 1 .. m + Len(t) : f[i][j] = IF j <= m THEN s[j] ELSE t[j - m]
    <3> HIDE DEF s, t
    <3> QED BY <2>2, LenProperties, ConcatProperties
  <2>4. /\ offset[i - 1] + Len(ss[i - 1]) = m
        /\ \A k \in 1 .. i - 1 :
             /\ offset[k] \in Nat
             /\ \A j \in 1 .. Len(ss[k]) : offset[k] + j \in 1 .. m /\ s[offset[k] + j] = ss[k][j]
    BY <1>5 DEF IsFoundAt
  <2>5. offset[i] = m
    BY <2>1, <2>4 DEF IsOffsets
  <2>6. ASSUME NEW j \in 1 .. Len(t) PROVE m + j \in 1 .. Len(f[i]) /\ f[i][m + j] = t[j]
    <3> HIDE DEF m, s, t
    <3>1. m + j \in 1 .. m + Len(t) /\ ~(m + j <= m) /\ (m + j) - m = j
      BY <2>3
    <3> QED BY <2>3, <3>1
  <2>7. \A j \in 1 .. m : j \in 1 .. Len(f[i]) /\ f[i][j] = s[j]
    <3> HIDE DEF m, s, t
    <3>1. \A j \in 1 .. m : j \in 1 .. m + Len(t) /\ j <= m
      BY <2>3
    <3> QED BY <2>3, <3>1
  <2>8. \A k \in 1 .. i : k = i \/ k \in 1 .. i - 1
    BY <2>1
  <2>9. ASSUME NEW k \in 1 .. i
        PROVE  /\ offset[k] \in Nat
               /\ \A j \in 1 .. Len(ss[k]) :
                    offset[k] + j \in 1 .. Len(f[i]) /\ f[i][offset[k] + j] = ss[k][j]
    <3>1. CASE k = i
      <4> HIDE DEF m
      <4> QED BY <2>3, <2>5, <2>6, <3>1
    <3>2. CASE k \in 1 .. i - 1
      <4> HIDE DEF m, s
      <4> QED BY <2>4, <2>7, <3>2
    <3> QED BY <2>8, <3>1, <3>2
  <2>10. IsFoundAt(offset, ss, f[i], i)
    <3>1. offset[i] + Len(ss[i]) = Len(f[i])
      BY <2>3, <2>5
    <3> HIDE DEF m, s, t
    <3> QED BY <2>9, <3>1 DEF IsFoundAt
  <2> QED BY <2>1, <2>10
<1>6. n \in Good
  <2> HIDE DEF Good, n
  <2>1. \A i \in 1 .. n : i \in Good
    BY <1>1, <1>4, <1>5, ByStep
  <2> QED BY <1>1, <2>1
<1> QED BY <1>3, <1>6
-----------------------------------------------------------------------------
(* The ids of the entries at some places of a dictionary.                  *)
LEMMA EntryIdsFacts ==
  ASSUME NEW entries \in Seq(IndexRow), IsDictionary(entries), NEW places
  PROVE  LET ids == EntryIdsAt(entries, places)
         IN /\ ids \in Seq(Nat) /\ IsAscending(ids)
            /\ ToSet(ids) = {entries[i].id : i \in places \cap DOMAIN entries}
<1> DEFINE n == Len(entries)
           all == [i \in DOMAIN entries |-> entries[i].id]
           ids == Chosen(all, places)
<1>1. n \in Nat /\ DOMAIN entries = 1 .. n /\ \A i \in 1 .. n : entries[i] \in IndexRow
  BY LenProperties, ElementOfSeq
<1>2. \A i \in 1 .. n : entries[i].id \in Nat
  BY <1>1 DEF IndexRow
<1>3. all \in Seq(Nat) /\ Len(all) = n /\ \A i \in 1 .. n : all[i] = entries[i].id
  <2>1. all \in [1 .. n -> Nat]
    BY <1>1, <1>2
  <2>2. \A i \in 1 .. n : all[i] = entries[i].id
    BY <1>1
  <2> HIDE DEF all
  <2>3. all \in Seq(Nat)
    BY <1>1, <2>1, SeqDef
  <2>4. Len(all) = n
    BY <1>1, <2>1, <2>3, LenProperties
  <2> QED BY <2>2, <2>3, <2>4
<1>4. ids = EntryIdsAt(entries, places)
  BY Zenon DEF EntryIdsAt
<1> HIDE DEF all
<1>5. ids \in Seq(Nat)
  BY <1>3, ChosenFacts
<1>6. PICK ord : IsOrderOf(ord, ids, all, places \cap (1 .. n))
  <2>1. \E ord : IsOrderOf(ord, ids, all, places \cap (1 .. Len(all)))
    BY <1>3, ChosenFacts
  <2> QED BY <1>3, <2>1
<1> HIDE DEF ids
<1>7. Len(ids) \in Nat /\ DOMAIN ids = 1 .. Len(ids)
  BY <1>5, LenProperties
<1>8. \A k \in 1 .. Len(ids) : ord[k] \in places /\ ord[k] \in 1 .. n /\ ids[k] = entries[ord[k]].id
  BY <1>3, <1>6 DEF IsOrderOf
<1>9. IsAscending(ids)
  BY <1>1, <1>6, <1>8 DEF IsAscending, IsOrderOf, IsDictionary
<1>10. ToSet(ids) = {entries[i].id : i \in places \cap DOMAIN entries}
  <2>1. ASSUME NEW k \in 1 .. Len(ids)
        PROVE  ids[k] \in {entries[i].id : i \in places \cap DOMAIN entries}
    BY <1>1, <1>8
  <2>2. ASSUME NEW i \in places \cap DOMAIN entries
        PROVE  \E k \in 1 .. Len(ids) : ids[k] = entries[i].id
    <3>1. PICK k \in 1 .. Len(ids) : ord[k] = i
      BY <1>1, <1>6 DEF IsOrderOf
    <3> QED BY <1>8, <3>1
  <2> QED BY <1>7, <2>1, <2>2 DEF ToSet
<1> QED BY <1>4, <1>5, <1>9, <1>10

IndexedForms(entries) ==
  {entries[i].form : i \in {j \in DOMAIN entries : IsIndexed(entries[j])}}

(* The forms the trie is built of are those of the indexed entries.        *)
LEMMA FormsFacts ==
  ASSUME NEW entries \in Seq(IndexRow)
  PROVE  /\ FormsInOrder(entries) \in Seq(Seq(DOMAIN CatsOf))
         /\ ToSet(FormsInOrder(entries)) = IndexedForms(entries)
<1> DEFINE n == Len(entries)
           forms == [i \in DOMAIN entries |-> entries[i].form]
           isNew(i) == \A j \in 1 .. i - 1 : IsIndexed(entries[j]) => forms[j] # forms[i]
           places == {i \in DOMAIN entries : IsIndexed(entries[i]) /\ isNew(i)}
           c == Chosen(forms, places)
<1>1. n \in Nat /\ DOMAIN entries = 1 .. n /\ \A i \in 1 .. n : entries[i] \in IndexRow
  BY LenProperties, ElementOfSeq
<1>2. \A i \in 1 .. n : entries[i].form \in Seq(DOMAIN CatsOf)
  BY <1>1 DEF IndexRow
<1>3. forms \in Seq(Seq(DOMAIN CatsOf)) /\ Len(forms) = n
      /\ \A i \in 1 .. n : forms[i] = entries[i].form
  <2>1. forms \in [1 .. n -> Seq(DOMAIN CatsOf)]
    BY <1>1, <1>2
  <2>2. \A i \in 1 .. n : forms[i] = entries[i].form
    BY <1>1
  <2> HIDE DEF forms
  <2>3. forms \in Seq(Seq(DOMAIN CatsOf))
    BY <1>1, <2>1, SeqDef
  <2>4. Len(forms) = n
    BY <1>1, <2>1, <2>3, LenProperties
  <2> QED BY <2>2, <2>3, <2>4
<1>4. c = FormsInOrder(entries)
  BY Zenon DEF FormsInOrder
<1> HIDE DEF forms
<1>5. \A i \in places : i \in 1 .. n /\ IsIndexed(entries[i])
  BY <1>1
<1>6. ASSUME NEW i \in 1 .. n, IsIndexed(entries[i])
      PROVE  \E j \in places : forms[j] = forms[i]
  <2> DEFINE Same == {j \in 1 .. n : IsIndexed(entries[j]) /\ forms[j] = forms[i]}
  <2>1. Same \subseteq Nat /\ i \in Same
    BY <1>6
  <2>2. PICK j \in Same : \A k \in Same : j <= k
    <3> HIDE DEF Same
    <3> QED BY <2>1, LeastNatural
  <2>3. j \in 1 .. n /\ IsIndexed(entries[j]) /\ forms[j] = forms[i]
    OBVIOUS
  <2>4. isNew(j)
    <3> SUFFICES ASSUME NEW k \in 1 .. j - 1, IsIndexed(entries[k]), forms[k] = forms[j]
                 PROVE  FALSE
      OBVIOUS
    <3>1. k \in 1 .. n /\ ~(j <= k)
      BY <2>3, <1>1
    <3>2. k \in Same
      BY <2>3, <3>1
    <3> HIDE DEF Same
    <3> QED BY <2>2, <3>1, <3>2
  <2> QED BY <1>1, <2>3, <2>4
<1> HIDE DEF places
<1>7. c \in Seq(Seq(DOMAIN CatsOf))
  BY <1>3, ChosenFacts
<1>8. PICK ord : IsOrderOf(ord, c, forms, places \cap (1 .. n))
  <2>1. \E ord : IsOrderOf(ord, c, forms, places \cap (1 .. Len(forms)))
    BY <1>3, ChosenFacts
  <2> QED BY <1>3, <2>1
<1> HIDE DEF c
<1>9. DOMAIN c = 1 .. Len(c)
  BY <1>7, LenProperties
<1>10. \A k \in 1 .. Len(c) : ord[k] \in places /\ ord[k] \in 1 .. n /\ c[k] = entries[ord[k]].form
  BY <1>3, <1>8 DEF IsOrderOf
<1>11. ASSUME NEW k \in 1 .. Len(c) PROVE c[k] \in IndexedForms(entries)
  BY <1>1, <1>5, <1>10 DEF IndexedForms
<1>12. ASSUME NEW i \in 1 .. n, IsIndexed(entries[i])
       PROVE  \E k \in 1 .. Len(c) : c[k] = entries[i].form
  <2>1. PICK j \in places : forms[j] = forms[i]
    BY <1>6, <1>12
  <2>2. PICK k \in 1 .. Len(c) : ord[k] = j
    BY <1>5, <1>8, <2>1 DEF IsOrderOf
  <2>3. c[k] = entries[i].form
    BY <1>3, <1>5, <1>10, <2>1, <2>2
  <2> QED BY <2>3
<1>13. ToSet(c) = IndexedForms(entries)
  BY <1>1, <1>9, <1>11, <1>12 DEF ToSet, IndexedForms
<1> QED BY <1>4, <1>7, <1>13

(* Offsets that are computed from one sequence to the next, as BuildIndex  *)
(* computes those of its lists.                                            *)
ComputedOffsets(offset, ss) ==
  offset = [k \in 1 .. Len(ss) + 1 |-> IF k = 1 THEN 0 ELSE offset[k - 1] + Len(ss[k - 1])]

(* Offsets as the builder counts them exist.                               *)
LEMMA OffsetsExist ==
  ASSUME NEW V, NEW ss \in Seq(Seq(V))
  PROVE  \E offset : ComputedOffsets(offset, ss)
<1> DEFINE n == Len(ss)
           next == [p \in (1 .. n + 1) \X Nat |->
                      IF p[1] = 1 THEN 0 ELSE p[2] + Len(ss[p[1] - 1])]
<1>1. n \in Nat /\ 1 \in Nat /\ n + 1 \in Nat /\ 1 <= n + 1 /\ 0 \in Nat
  BY LenProperties
<1>2. \A k \in 1 .. n + 1 : k # 1 => Len(ss[k - 1]) \in Nat
  <2>1. \A k \in 1 .. n + 1 : k # 1 => k - 1 \in 1 .. n
    BY <1>1
  <2>2. \A i \in 1 .. n : Len(ss[i]) \in Nat
    BY ElementOfSeq, LenProperties
  <2> QED BY <2>1, <2>2
<1>3. next \in [(1 .. n + 1) \X Nat -> Nat]
  <2>1. ASSUME NEW p \in (1 .. n + 1) \X Nat
        PROVE  (IF p[1] = 1 THEN 0 ELSE p[2] + Len(ss[p[1] - 1])) \in Nat
    <3>1. p[1] \in 1 .. n + 1 /\ p[2] \in Nat
      OBVIOUS
    <3> QED BY <1>2, <3>1
  <2> QED BY <2>1
<1>4. \A k \in 1 .. n + 1, x \in Nat :
        next[<<k, x>>] = IF k = 1 THEN 0 ELSE x + Len(ss[k - 1])
  OBVIOUS
<1> HIDE DEF next
<1>5. PICK f : IsStepwise(f, 1, n + 1, Nat, 0, next)
  <2> HIDE DEF n
  <2> QED BY <1>1, <1>3, StepwiseExists
<1>6. ComputedOffsets(f, ss)
  <2> DEFINE body(k) == IF k = 1 THEN 0 ELSE f[k - 1] + Len(ss[k - 1])
  <2>1. \A k \in 1 .. n + 1 : k # 1 => k - 1 \in 1 .. n + 1
    BY <1>1
  <2>2. \A k \in 1 .. n + 1 : f[k] = body(k)
    <3>1. \A k \in 1 .. n + 1 : k # 1 => f[k - 1] \in Nat
      BY <1>5, <2>1 DEF IsStepwise
    <3> QED BY <1>4, <1>5, <3>1 DEF IsStepwise
  <2>3. f = [k \in 1 .. n + 1 |-> body(k)]
    <3> HIDE DEF body
    <3> QED BY <1>5, <2>2 DEF IsStepwise
  <2> QED BY <2>3 DEF ComputedOffsets
<1> QED BY <1>6

(* Each of them is the length of the parts before it.                      *)
LEMMA ComputedAreOffsets ==
  ASSUME NEW V, NEW ss \in Seq(Seq(V)), NEW offset, ComputedOffsets(offset, ss)
  PROVE  IsOffsets(offset, ss)
<1>1. Len(ss) \in Nat
  BY LenProperties
<1>2. 1 \in 1 .. Len(ss) + 1 /\ \A k \in 2 .. Len(ss) : k \in 1 .. Len(ss) + 1 /\ k # 1
  BY <1>1
<1>3. \A k \in 1 .. Len(ss) + 1 :
        offset[k] = IF k = 1 THEN 0 ELSE offset[k - 1] + Len(ss[k - 1])
  BY DEF ComputedOffsets
<1> QED BY <1>2, <1>3 DEF IsOffsets

IndexIds(entries, form) == {entries[i].id : i \in {j \in DOMAIN entries :
                              IsIndexed(entries[j]) /\ entries[j].form = form}}

(* The ids of a form ascend and are those of all its entries.              *)
LEMMA IdsOfFacts ==
  ASSUME NEW entries \in Seq(IndexRow), IsDictionary(entries), NEW form
  PROVE  /\ IdsOf(entries, form) \in Seq(Nat) /\ IsAscending(IdsOf(entries, form))
         /\ ToSet(IdsOf(entries, form)) = IndexIds(entries, form)
<1> DEFINE places == {i \in DOMAIN entries : IsIndexed(entries[i]) /\ entries[i].form = form}
<1>1. IdsOf(entries, form) = EntryIdsAt(entries, places)
  BY Zenon DEF IdsOf
<1>2. places \cap DOMAIN entries = places
  OBVIOUS
<1>3. IndexIds(entries, form) = {entries[i].id : i \in places}
  BY Zenon DEF IndexIds
<1> HIDE DEF places
<1> DEFINE ids == EntryIdsAt(entries, places)
<1>4. ids \in Seq(Nat) /\ IsAscending(ids)
      /\ ToSet(ids) = {entries[i].id : i \in places \cap DOMAIN entries}
  <2> HIDE DEF ids
  <2> QED BY EntryIdsFacts, Zenon DEF ids
<1> HIDE DEF ids
<1> QED BY <1>1, <1>2, <1>3, <1>4 DEF ids

(* So do the ids of the entries that are not indexed.                      *)
LEMMA RestType ==
  ASSUME NEW entries \in Seq(IndexRow), IsDictionary(entries)
  PROVE  NotIndexed(entries) \in Seq(Nat) /\ IsAscending(NotIndexed(entries))
<1> DEFINE places == {i \in DOMAIN entries : ~IsIndexed(entries[i]) /\ entries[i].form # << >>}
<1>1. NotIndexed(entries) = EntryIdsAt(entries, places)
  BY Zenon DEF NotIndexed
<1> HIDE DEF places
<1>2. EntryIdsAt(entries, places) \in Seq(Nat) /\ IsAscending(EntryIdsAt(entries, places))
  BY EntryIdsFacts, Zenon
<1> QED BY <1>1, <1>2

(* The trie has exactly the indexed forms, and what it has for a form leads*)
(* to the list of its entries.                                             *)
LEMMA IndexFacts ==
  ASSUME NEW entries \in Seq(IndexRow), IsDictionary(entries)
  PROVE  /\ DOMAIN BuildIndex(entries).trie = IndexedForms(entries)
         /\ \A f \in IndexedForms(entries) :
              EntriesAt(BuildIndex(entries).table, BuildIndex(entries).trie[f])
                = IdsOf(entries, f)
<1> DEFINE forms == FormsInOrder(entries)
           n == Len(forms)
           list(k) == WriteIds(IdsOf(entries, forms[k]))
           lists == [k \in DOMAIN forms |-> list(k)]
           Rec(f) == f = [k \in 1 .. n + 1 |->
                            IF k = 1 THEN 0 ELSE f[k - 1] + Len(list(k - 1))]
           offset == CHOOSE f : Rec(f)
           rest == NotIndexed(entries)
           tail == IF rest = << >> THEN << >> ELSE WriteIds(rest)
           flat == FlattenSeq(lists)
           table == flat \o tail
           trie == [f \in ToSet(forms) |-> offset[CHOOSE k \in DOMAIN forms : forms[k] = f]]
<1>1. BuildIndex(entries).table = table /\ BuildIndex(entries).trie = trie
  <2>1. BuildIndex(entries) = [table |-> table, trie |-> trie]
    BY Zenon DEF BuildIndex
  <2> HIDE DEF table, trie
  <2> QED BY <2>1
<1>2. ToSet(forms) = IndexedForms(entries) /\ forms \in Seq(Seq(DOMAIN CatsOf))
  BY FormsFacts
<1>3. n \in Nat /\ DOMAIN forms = 1 .. n
  BY <1>2, LenProperties
<1>4. ASSUME NEW k \in 1 .. n
      PROVE  list(k) \in Seq(Nat) /\ Len(list(k)) = Len(IdsOf(entries, forms[k])) + 1
  BY IdsOfFacts, WrittenIds
<1>5. /\ lists \in Seq(Seq(Nat)) /\ Len(lists) = n
      /\ \A k \in 1 .. n : lists[k] = list(k)
  <2>1. \A k \in 1 .. n : lists[k] = list(k)
    BY <1>3
  <2>2. lists \in [1 .. n -> Seq(Nat)]
    <3> HIDE DEF list
    <3> QED BY <1>3, <1>4
  <2> HIDE DEF lists, list
  <2>3. lists \in Seq(Seq(Nat))
    BY <1>3, <2>2, SeqDef
  <2>4. Len(lists) = n
    BY <1>3, <2>2, <2>3, LenProperties
  <2> QED BY <2>1, <2>3, <2>4
<1>6. \A f : Rec(f) <=> ComputedOffsets(f, lists)
  <2> SUFFICES ASSUME NEW f PROVE Rec(f) <=> ComputedOffsets(f, lists)
    OBVIOUS
  <2> DEFINE one(k) == IF k = 1 THEN 0 ELSE f[k - 1] + Len(list(k - 1))
             two(k) == IF k = 1 THEN 0 ELSE f[k - 1] + Len(lists[k - 1])
  <2>1. \A k \in 1 .. n + 1 : one(k) = two(k)
    <3>1. \A k \in 1 .. n + 1 : k # 1 => k - 1 \in 1 .. n
      BY <1>3
    <3> HIDE DEF list, lists
    <3> QED BY <1>5, <3>1
  <2>2. [k \in 1 .. n + 1 |-> one(k)] = [k \in 1 .. n + 1 |-> two(k)]
    <3> HIDE DEF one, two
    <3> QED BY <2>1
  <2>3. ComputedOffsets(f, lists) <=> f = [k \in 1 .. n + 1 |-> two(k)]
    <3> HIDE DEF list, lists
    <3>1. ComputedOffsets(f, lists)
            <=> f = [k \in 1 .. Len(lists) + 1 |-> two(k)]
      BY Zenon DEF ComputedOffsets
    <3> HIDE DEF two, n
    <3> QED BY <1>5, <3>1
  <2> QED BY <2>2, <2>3, Zenon
<1>7. Rec(offset)
  <2>1. \E f : Rec(f)
    <3>1. PICK f : ComputedOffsets(f, lists)
      <4> HIDE DEF lists
      <4> QED BY <1>5, OffsetsExist
    <3> HIDE DEF Rec, lists
    <3> QED BY <1>6, <3>1
  <2> HIDE DEF Rec
  <2> QED BY <2>1, Zenon
<1>8. IsOffsets(offset, lists)
  <2> HIDE DEF Rec, lists, offset
  <2>1. ComputedOffsets(offset, lists)
    BY <1>6, <1>7
  <2> QED BY <1>5, <2>1, ComputedAreOffsets
<1> HIDE DEF Rec, offset
<1>9. tail \in Seq(Nat)
  BY RestType, WrittenIds, EmptySeq
<1>10. flat \in Seq(Nat)
  <2> HIDE DEF lists
  <2> QED BY <1>5, FlattenType
<1> HIDE DEF tail
<1>11. ASSUME NEW k \in 1 .. n
       PROVE  EntriesAt(table, offset[k]) = IdsOf(entries, forms[k])
  <2>1. IsFoundAt(offset, lists, flat, n)
    <3>1. Len(lists) # 0
      BY <1>3, <1>5
    <3>2. IsFoundAt(offset, lists, FlattenSeq(lists), Len(lists))
      <4> HIDE DEF lists, flat
      <4> QED BY <1>5, <1>8, <3>1, FlattenPlaces
    <3> HIDE DEF lists
    <3> QED BY <1>5, <3>2
  <2> HIDE DEF flat, lists
  <2>2. /\ offset[k] \in Nat
        /\ \A j \in 1 .. Len(list(k)) :
             offset[k] + j \in 1 .. Len(flat) /\ flat[offset[k] + j] = list(k)[j]
    <3> HIDE DEF list
    <3> QED BY <1>5, <2>1 DEF IsFoundAt
  <2>3. \A j \in 1 .. Len(flat) : table[j] = flat[j]
    <3>1. Len(flat) \in Nat /\ Len(tail) \in Nat
      BY <1>9, <1>10, LenProperties
    <3>2. \A j \in 1 .. Len(flat) + Len(tail) : table[j] = IF j <= Len(flat) THEN flat[j] ELSE tail[j - Len(flat)]
      BY <1>9, <1>10, ConcatProperties
    <3>3. \A j \in 1 .. Len(flat) : j \in 1 .. Len(flat) + Len(tail) /\ j <= Len(flat)
      BY <3>1
    <3> HIDE DEF table
    <3> QED BY <3>2, <3>3
  <2> HIDE DEF table
  <2>4. IsWrittenAt(IdsOf(entries, forms[k]), table, offset[k])
    BY <1>4, <2>2, <2>3 DEF IsWrittenAt
  <2> QED BY <2>2, <2>4, IdsOfFacts, ReadIds
<1>12. ASSUME NEW f \in IndexedForms(entries)
       PROVE  EntriesAt(table, trie[f]) = IdsOf(entries, f)
  <2>1. \E k \in DOMAIN forms : forms[k] = f
    BY <1>2 DEF ToSet
  <2> DEFINE k == CHOOSE k \in DOMAIN forms : forms[k] = f
  <2>2. k \in DOMAIN forms /\ forms[k] = f
    BY <2>1, Zenon
  <2>3. trie[f] = offset[k]
    BY <1>2
  <2> HIDE DEF k, table, trie
  <2> QED BY <1>3, <1>11, <2>2, <2>3
<1>13. DOMAIN trie = IndexedForms(entries)
  BY <1>2
<1> HIDE DEF table, trie
<1> QED BY <1>1, <1>12, <1>13

-----------------------------------------------------------------------------
(***************************************************************************)
(* The lookup: what it finds up to a character of the text, and what one   *)
(* more character adds.                                                    *)
(***************************************************************************)
Counted(n) == [x \in 1 .. n |-> x]

(* The numbers from 1 to n in their order.                                 *)
LEMMA CountedFacts ==
  ASSUME NEW n \in Nat
  PROVE  /\ Counted(n) \in Seq(Nat) /\ Len(Counted(n)) = n
         /\ \A x \in 1 .. n : Counted(n)[x] = x
<1>1. Counted(n) \in [1 .. n -> Nat] /\ \A x \in 1 .. n : Counted(n)[x] = x
  BY DEF Counted
<1>2. Counted(n) \in Seq(Nat)
  BY <1>1, SeqDef
<1>3. Len(Counted(n)) = n
  BY <1>1, <1>2, LenProperties
<1> QED BY <1>1, <1>2, <1>3

(* One number more.                                                        *)
LEMMA CountedAppend ==
  ASSUME NEW n \in Nat
  PROVE  Counted(n + 1) = Append(Counted(n), n + 1)
<1> DEFINE s == Counted(n + 1)
           t == Append(Counted(n), n + 1)
<1>1. n + 1 \in Nat
  OBVIOUS
<1>2. s \in Seq(Nat) /\ Len(s) = n + 1 /\ \A x \in 1 .. n + 1 : s[x] = x
  BY <1>1, CountedFacts
<1>3. /\ t \in Seq(Nat) /\ Len(t) = n + 1 /\ t[n + 1] = n + 1
      /\ \A x \in 1 .. n : t[x] = x
  <2>1. Counted(n) \in Seq(Nat) /\ Len(Counted(n)) = n /\ \A x \in 1 .. n : Counted(n)[x] = x
    BY CountedFacts
  <2> QED BY <1>1, <2>1, AppendProperties
<1>4. \A x \in 1 .. n + 1 : x = n + 1 \/ x \in 1 .. n
  OBVIOUS
<1> HIDE DEF s, t
<1>5. \A x \in 1 .. Len(s) : s[x] = t[x]
  BY <1>2, <1>3, <1>4
<1>6. s = t
  BY <1>2, <1>3, <1>5, SeqEqual
<1> QED BY <1>6, Zenon DEF s, t

(* The ends of the forms that chars has behind b, up to e.                 *)
FormEnds(trie, chars, b, e) ==
  {x \in b + 1 .. e : SubSeq(chars, b + 1, x) \in DOMAIN trie}

PrefixEnds(trie, chars, b, e) == Chosen(Counted(e), FormEnds(trie, chars, b, e))

ExpandedEnd(index, lexicon, chars, b, x) ==
  Expand(index, lexicon, index.trie[SubSeq(chars, b + 1, x)], x)

ExpandedEnds(index, lexicon, chars, b, cut) ==
  [i \in DOMAIN cut |-> ExpandedEnd(index, lexicon, chars, b, cut[i])]

FoundUpTo(index, lexicon, chars, b, e) ==
  FlattenSeq(ExpandedEnds(index, lexicon, chars, b, PrefixEnds(index.trie, chars, b, e)))

(* The ends the search of prefixes gives are those of the forms in the     *)
(* trie that stand at the boundary.                                        *)
LEMMA PrefixEndsFacts ==
  ASSUME NEW trie, NEW chars, NEW b \in Nat, NEW e \in Nat
  PROVE  LET c == PrefixEnds(trie, chars, b, e)
         IN /\ c \in Seq(Nat)
            /\ \A i \in 1 .. Len(c) : c[i] \in FormEnds(trie, chars, b, e)
            /\ \A x \in FormEnds(trie, chars, b, e) : \E i \in 1 .. Len(c) : c[i] = x
<1> DEFINE c == PrefixEnds(trie, chars, b, e)
           S == FormEnds(trie, chars, b, e)
<1>1. S \cap (1 .. e) = S /\ \A x \in S : x \in 1 .. e
  BY DEF FormEnds
<1>2. c \in Seq(Nat) /\ \E ord : IsOrderOf(ord, c, Counted(e), S \cap (1 .. Len(Counted(e))))
  BY CountedFacts, ChosenFacts DEF PrefixEnds
<1> HIDE DEF c, S
<1>3. PICK ord : IsOrderOf(ord, c, Counted(e), S)
  <2>1. S \cap (1 .. Len(Counted(e))) = S
    BY <1>1, CountedFacts
  <2> QED BY <1>2, <2>1, Zenon
<1>4. \A i \in 1 .. Len(c) : c[i] = ord[i] /\ ord[i] \in S
  BY <1>1, <1>3, CountedFacts DEF IsOrderOf
<1>5. \A x \in S : \E i \in 1 .. Len(c) : c[i] = x
  BY <1>3, <1>4 DEF IsOrderOf
<1>6. \A i \in 1 .. Len(c) : c[i] \in S
  BY <1>4
<1> QED BY <1>2, <1>5, <1>6 DEF c, S

(* An index whose lists are lists of ids.                                  *)
IsIndex(index) ==
  \A f \in DOMAIN index.trie : EntriesAt(index.table, index.trie[f]) \in Seq(Nat)

Hit == [dict : Nat, entry : Nat, end : Nat]

(* A value of the trie expands to a hit for each id behind it.             *)
LEMMA ExpandFacts ==
  ASSUME NEW index, IsIndex(index), NEW lexicon \in Nat, NEW end \in Nat,
         NEW f \in DOMAIN index.trie
  PROVE  LET ids == EntriesAt(index.table, index.trie[f])
             hits == Expand(index, lexicon, index.trie[f], end)
         IN /\ hits \in Seq(Hit)
            /\ ToSet(hits) = {[dict |-> lexicon, entry |-> x, end |-> end] : x \in ToSet(ids)}
<1> DEFINE ids == EntriesAt(index.table, index.trie[f])
           hits == Expand(index, lexicon, index.trie[f], end)
           hit(i) == [dict |-> lexicon, entry |-> ids[i], end |-> end]
<1>1. ids \in Seq(Nat)
  BY DEF IsIndex
<1>2. hits = [i \in DOMAIN ids |-> hit(i)]
  BY Zenon DEF Expand
<1> HIDE DEF ids, hits
<1>3. Len(ids) \in Nat /\ DOMAIN ids = 1 .. Len(ids) /\ \A i \in 1 .. Len(ids) : ids[i] \in Nat
  BY <1>1, LenProperties, ElementOfSeq
<1>4. \A i \in 1 .. Len(ids) : hit(i) \in Hit
  BY <1>3 DEF Hit
<1>5. hits \in [1 .. Len(ids) -> Hit] /\ DOMAIN hits = 1 .. Len(ids)
      /\ \A i \in 1 .. Len(ids) : hits[i] = hit(i)
  <2> HIDE DEF hit
  <2> QED BY <1>2, <1>3, <1>4
<1>6. hits \in Seq(Hit)
  BY <1>3, <1>5, SeqDef
<1>7. ToSet(hits) = {[dict |-> lexicon, entry |-> x, end |-> end] : x \in ToSet(ids)}
  BY <1>3, <1>5 DEF ToSet
<1> QED BY <1>6, <1>7 DEF ids, hits

IsExpansion(all, index, lexicon, chars, b, c) ==
  /\ all \in Seq(Seq(Hit)) /\ Len(all) = Len(c)
  /\ \A i \in 1 .. Len(c) : all[i] = ExpandedEnd(index, lexicon, chars, b, c[i])

(* The hits of all ends are those of the entries found there.              *)
LEMMA ExpandedEndsFacts ==
  ASSUME NEW index, IsIndex(index), NEW lexicon \in Nat, NEW chars,
         NEW b \in Nat, NEW e \in Nat, NEW c, c = PrefixEnds(index.trie, chars, b, e)
  PROVE  IsExpansion(ExpandedEnds(index, lexicon, chars, b, c), index, lexicon, chars, b, c)
<1> DEFINE all == ExpandedEnds(index, lexicon, chars, b, c)
           one(i) == ExpandedEnd(index, lexicon, chars, b, c[i])
<1>1. /\ c \in Seq(Nat)
      /\ \A i \in 1 .. Len(c) : c[i] \in FormEnds(index.trie, chars, b, e)
  BY PrefixEndsFacts
<1>2. all = [i \in DOMAIN c |-> one(i)]
  BY Zenon DEF ExpandedEnds
<1> HIDE DEF all
<1>3. Len(c) \in Nat /\ DOMAIN c = 1 .. Len(c)
  BY <1>1, LenProperties
<1>4. ASSUME NEW i \in 1 .. Len(c) PROVE one(i) \in Seq(Hit)
  <2>1. c[i] \in Nat /\ SubSeq(chars, b + 1, c[i]) \in DOMAIN index.trie
    BY <1>1 DEF FormEnds
  <2> QED BY <2>1, ExpandFacts DEF ExpandedEnd
<1>5. all \in [1 .. Len(c) -> Seq(Hit)] /\ \A i \in 1 .. Len(c) : all[i] = one(i)
  <2> HIDE DEF one
  <2> QED BY <1>2, <1>3, <1>4
<1>6. all \in Seq(Seq(Hit))
  BY <1>3, <1>5, SeqDef
<1>7. Len(all) = Len(c)
  BY <1>3, <1>5, <1>6, LenProperties
<1> QED BY <1>5, <1>6, <1>7 DEF IsExpansion, all

(* What is found up to a boundary is a sequence of hits.                   *)
LEMMA FoundType ==
  ASSUME NEW index, IsIndex(index), NEW lexicon \in Nat, NEW chars,
         NEW b \in Nat, NEW e \in Nat
  PROVE  FoundUpTo(index, lexicon, chars, b, e) \in Seq(Hit)
<1> DEFINE c == PrefixEnds(index.trie, chars, b, e)
           all == ExpandedEnds(index, lexicon, chars, b, c)
<1>1. IsExpansion(all, index, lexicon, chars, b, c)
  BY ExpandedEndsFacts, Zenon
<1>2. FoundUpTo(index, lexicon, chars, b, e) = FlattenSeq(all)
  BY Zenon DEF FoundUpTo
<1> HIDE DEF all, c
<1>3. all \in Seq(Seq(Hit))
  BY <1>1 DEF IsExpansion
<1> QED BY <1>2, <1>3, FlattenType

(* No form is empty: nothing is found before the first character.          *)
LEMMA FoundFirst ==
  ASSUME NEW index, IsIndex(index), NEW lexicon \in Nat, NEW chars, NEW b \in Nat
  PROVE  FoundUpTo(index, lexicon, chars, b, b) = << >>
<1> DEFINE c == PrefixEnds(index.trie, chars, b, b)
           all == ExpandedEnds(index, lexicon, chars, b, c)
<1>1. FormEnds(index.trie, chars, b, b) = {}
  BY DEF FormEnds
<1>2. c \in Seq(Nat) /\ \A i \in 1 .. Len(c) : c[i] \in {}
  BY <1>1, PrefixEndsFacts
<1>3. all \in Seq(Seq(Hit)) /\ Len(all) = Len(c)
  <2>1. IsExpansion(all, index, lexicon, chars, b, c)
    BY ExpandedEndsFacts, Zenon
  <2> HIDE DEF c, all
  <2> QED BY <2>1 DEF IsExpansion
<1>4. FoundUpTo(index, lexicon, chars, b, b) = FlattenSeq(all)
  BY Zenon DEF FoundUpTo
<1> HIDE DEF c, all
<1>5. Len(c) = 0
  <2>1. Len(c) \in Nat
    BY <1>2, LenProperties
  <2>2. Len(c) # 0 => Len(c) \in 1 .. Len(c)
    BY <2>1
  <2> QED BY <1>2, <2>2
<1>6. all = << >>
  BY <1>3, <1>5, EmptySeq
<1> QED BY <1>3, <1>4, <1>5, <1>6, FlattenEmpty

(* One more character: the entries of the form that ends there, if any.    *)
LEMMA FoundStep ==
  ASSUME NEW index, IsIndex(index), NEW lexicon \in Nat, NEW chars,
         NEW b \in Nat, NEW e \in Nat, b <= e
  PROVE  FoundUpTo(index, lexicon, chars, b, e + 1) =
           IF SubSeq(chars, b + 1, e + 1) \in DOMAIN index.trie
           THEN FoundUpTo(index, lexicon, chars, b, e)
                  \o ExpandedEnd(index, lexicon, chars, b, e + 1)
           ELSE FoundUpTo(index, lexicon, chars, b, e)
<1> DEFINE c == PrefixEnds(index.trie, chars, b, e)
           d == PrefixEnds(index.trie, chars, b, e + 1)
           P == FormEnds(index.trie, chars, b, e)
           Q == FormEnds(index.trie, chars, b, e + 1)
           all == ExpandedEnds(index, lexicon, chars, b, c)
           more == ExpandedEnds(index, lexicon, chars, b, d)
           new == ExpandedEnd(index, lexicon, chars, b, e + 1)
           isHit == SubSeq(chars, b + 1, e + 1) \in DOMAIN index.trie
<1>1. e + 1 \in Nat
  OBVIOUS
<1>2. /\ FoundUpTo(index, lexicon, chars, b, e) = FlattenSeq(all)
      /\ FoundUpTo(index, lexicon, chars, b, e + 1) = FlattenSeq(more)
  BY Zenon DEF FoundUpTo
<1>3. c \in Seq(Nat) /\ d \in Seq(Nat) /\ Len(c) \in Nat
  <2>1. c \in Seq(Nat)
    BY PrefixEndsFacts
  <2>2. d \in Seq(Nat)
    BY <1>1, PrefixEndsFacts
  <2> QED BY <2>1, <2>2, LenProperties
<1>4. /\ all \in Seq(Seq(Hit)) /\ Len(all) = Len(c)
      /\ \A i \in 1 .. Len(c) : all[i] = ExpandedEnd(index, lexicon, chars, b, c[i])
  <2>1. IsExpansion(all, index, lexicon, chars, b, c)
    BY ExpandedEndsFacts, Zenon
  <2> HIDE DEF c, all
  <2> QED BY <2>1 DEF IsExpansion
<1>5. /\ more \in Seq(Seq(Hit)) /\ Len(more) = Len(d)
      /\ \A i \in 1 .. Len(d) : more[i] = ExpandedEnd(index, lexicon, chars, b, d[i])
  <2>1. IsExpansion(more, index, lexicon, chars, b, d)
    BY <1>1, ExpandedEndsFacts, Zenon
  <2> HIDE DEF d, more
  <2> QED BY <2>1 DEF IsExpansion
<1>6. d = IF isHit THEN Append(c, e + 1) ELSE c
  <2>1. AgreeUpTo(Len(Counted(e)), P, Q)
    BY CountedFacts DEF FormEnds, AgreeUpTo
  <2>2. e + 1 \in Q <=> isHit
    BY DEF FormEnds
  <2>3. d = Chosen(Append(Counted(e), e + 1), Q) /\ c = Chosen(Counted(e), P)
    BY CountedAppend DEF PrefixEnds
  <2>4. Chosen(Append(Counted(e), e + 1), Q) =
          IF Len(Counted(e)) + 1 \in Q THEN Append(Chosen(Counted(e), P), e + 1)
          ELSE Chosen(Counted(e), P)
    <3> DEFINE s == Counted(e)
               x == e + 1
    <3>1. s \in Seq(Nat) /\ x \in Nat /\ AgreeUpTo(Len(s), P, Q)
      BY <1>1, <2>1, CountedFacts
    <3> HIDE DEF P, Q, s, x
    <3>2. Chosen(Append(s, x), Q) =
            IF Len(s) + 1 \in Q THEN Append(Chosen(s, P), x) ELSE Chosen(s, P)
      BY <3>1, ChosenStep
    <3> QED BY <3>2, Zenon DEF s, x
  <2> HIDE DEF P, Q, c, d, isHit
  <2> QED BY <2>2, <2>3, <2>4, CountedFacts
<1>7. isHit => new \in Seq(Hit)
  BY <1>1, ExpandFacts DEF ExpandedEnd
<1> HIDE DEF c, d, P, Q
<1>8. CASE isHit
  <2>1. Len(d) = Len(c) + 1 /\ d[Len(c) + 1] = e + 1 /\ \A i \in 1 .. Len(c) : d[i] = c[i]
    <3> HIDE DEF isHit
    <3> QED BY <1>1, <1>3, <1>6, <1>8, AppendProperties
  <2> HIDE DEF all, more, new, isHit
  <2>2. Len(Append(all, new)) = Len(c) + 1 /\ Append(all, new) \in Seq(Seq(Hit))
        /\ Append(all, new)[Len(c) + 1] = new /\ \A i \in 1 .. Len(c) : Append(all, new)[i] = all[i]
    BY <1>4, <1>7, <1>8, AppendProperties
  <2>3. more = Append(all, new)
    <3>1. \A i \in 1 .. Len(c) + 1 : i = Len(c) + 1 \/ i \in 1 .. Len(c)
      BY <1>3
    <3>2. \A i \in 1 .. Len(c) + 1 : more[i] = Append(all, new)[i]
      <4>1. more[Len(c) + 1] = new
        <5>1. Len(c) + 1 \in 1 .. Len(d)
          BY <1>3, <2>1
        <5>2. more[Len(c) + 1] = ExpandedEnd(index, lexicon, chars, b, e + 1)
          BY <1>5, <2>1, <5>1
        <5> QED BY <5>2, Zenon DEF new
      <4>2. \A i \in 1 .. Len(c) : more[i] = all[i]
        <5>1. \A i \in 1 .. Len(c) : i \in 1 .. Len(d)
          BY <1>3, <2>1
        <5> QED BY <1>4, <1>5, <2>1, <5>1
      <4> QED BY <2>2, <3>1, <4>1, <4>2
    <3> QED BY <1>5, <2>1, <2>2, <3>2, SeqEqual
  <2>4. FlattenSeq(more) = FlattenSeq(all) \o new
    BY <1>4, <1>7, <1>8, <2>3, FlattenAppend
  <2> QED BY <1>2, <1>8, <2>4, Zenon DEF isHit, new
<1>9. CASE ~isHit
  <2>1. all = more
    BY <1>6, <1>9
  <2> HIDE DEF all, more
  <2> QED BY <1>2, <1>9, <2>1
<1> QED BY <1>8, <1>9

(* A dead end: nothing is found any more.                                  *)
LEMMA FoundNoMore ==
  ASSUME NEW index, IsIndex(index), NEW lexicon \in Nat, NEW chars,
         NEW b \in Nat, NEW e \in Nat, NEW n \in Nat, b <= e, e <= n,
         \A x \in e + 1 .. n : SubSeq(chars, b + 1, x) \notin DOMAIN index.trie
  PROVE  FoundUpTo(index, lexicon, chars, b, n) = FoundUpTo(index, lexicon, chars, b, e)
<1> DEFINE F(x) == FoundUpTo(index, lexicon, chars, b, x)
           S == {x \in e .. n : F(x) = F(e)}
<1>1. e \in S
  OBVIOUS
<1>2. ASSUME NEW x \in e + 1 .. n, x - 1 \in S PROVE x \in S
  <2>1. x - 1 \in Nat /\ b <= x - 1 /\ (x - 1) + 1 = x /\ x \in e .. n
    OBVIOUS
  <2>2. F((x - 1) + 1) = F(x - 1)
    <3>1. SubSeq(chars, b + 1, (x - 1) + 1) \notin DOMAIN index.trie
      BY <2>1
    <3> QED BY <2>1, <3>1, FoundStep
  <2>3. F(x - 1) = F(e)
    BY <1>2
  <2> QED BY <2>1, <2>2, <2>3
<1>3. n \in S
  <2> HIDE DEF S
  <2>1. \A x \in e .. n : x \in S
    BY <1>1, <1>2, ByStep
  <2> QED BY <2>1
<1> QED BY <1>3

(* The lookup at a boundary is what is found up to the end of the text.    *)
LEMMA LookupInIsFound ==
  ASSUME NEW index, NEW lexicon, NEW chars, NEW b \in Nat, Len(chars) \in Nat
  PROVE  LookupIn(index, lexicon, chars, b) = FoundUpTo(index, lexicon, chars, b, Len(chars))
<1> DEFINE c == PrefixEnds(index.trie, chars, b, Len(chars))
           found == FoundPrefixes(index.trie, chars, b)
           expanded == [i \in DOMAIN found |->
                          Expand(index, lexicon, found[i].value, found[i].end)]
           value(i) == index.trie[SubSeq(chars, b + 1, c[i])]
           all == ExpandedEnds(index, lexicon, chars, b, c)
<1>1. LookupIn(index, lexicon, chars, b) = FlattenSeq(expanded)
  BY Zenon DEF LookupIn
<1>2. FoundUpTo(index, lexicon, chars, b, Len(chars)) = FlattenSeq(all)
  BY Zenon DEF FoundUpTo
<1>3. found = [i \in DOMAIN c |-> [end |-> c[i], value |-> value(i)]]
  BY Zenon DEF FoundPrefixes, PrefixEnds, FormEnds, Counted
<1>4. all = [i \in DOMAIN c |-> Expand(index, lexicon, value(i), c[i])]
  BY Zenon DEF ExpandedEnds, ExpandedEnd
<1> HIDE DEF c, found, value, all
<1>5. DOMAIN found = DOMAIN c
      /\ \A i \in DOMAIN c : found[i].end = c[i] /\ found[i].value = value(i)
  BY <1>3
<1>6. expanded = all
  BY <1>4, <1>5
<1> QED BY <1>1, <1>2, <1>6

(* What a lookup finds: the entries of every form that the text has there. *)
FoundIn(index, lexicon, chars, b) ==
  {[dict |-> lexicon, entry |-> p[2], end |-> p[1]] :
     p \in {q \in FormEnds(index.trie, chars, b, Len(chars)) \X Nat :
              q[2] \in ToSet(EntriesAt(index.table, index.trie[SubSeq(chars, b + 1, q[1])]))}}

(* The plain lookup of one dictionary finds what stands at the boundary.   *)
LEMMA LookupInFacts ==
  ASSUME NEW index, IsIndex(index), NEW lexicon \in Nat, NEW chars, NEW b \in Nat,
         Len(chars) \in Nat
  PROVE  /\ LookupIn(index, lexicon, chars, b) \in Seq(Hit)
         /\ ToSet(LookupIn(index, lexicon, chars, b)) = FoundIn(index, lexicon, chars, b)
<1> DEFINE L == Len(chars)
           c == PrefixEnds(index.trie, chars, b, L)
           all == ExpandedEnds(index, lexicon, chars, b, c)
           S == FormEnds(index.trie, chars, b, L)
           form(x) == SubSeq(chars, b + 1, x)
           ids(x) == EntriesAt(index.table, index.trie[form(x)])
<1>1. L \in Nat
  OBVIOUS
<1>2. /\ LookupIn(index, lexicon, chars, b) = FoundUpTo(index, lexicon, chars, b, L)
      /\ FoundUpTo(index, lexicon, chars, b, L) \in Seq(Hit)
  BY LookupInIsFound, FoundType
<1>3. FoundUpTo(index, lexicon, chars, b, L) = FlattenSeq(all)
  BY Zenon DEF FoundUpTo
<1>4. /\ \A i \in 1 .. Len(c) : c[i] \in S
      /\ \A x \in S : \E i \in 1 .. Len(c) : c[i] = x
  <2> HIDE DEF L
  <2> QED BY <1>1, PrefixEndsFacts
<1>5. /\ all \in Seq(Seq(Hit)) /\ Len(all) = Len(c)
      /\ \A i \in 1 .. Len(c) : all[i] = ExpandedEnd(index, lexicon, chars, b, c[i])
  <2>1. IsExpansion(all, index, lexicon, chars, b, c)
    BY ExpandedEndsFacts, Zenon
  <2> HIDE DEF c, all
  <2> QED BY <2>1 DEF IsExpansion
<1>6. ASSUME NEW x \in S
      PROVE  /\ ids(x) \in Seq(Nat)
             /\ ToSet(ExpandedEnd(index, lexicon, chars, b, x)) =
                  {[dict |-> lexicon, entry |-> y, end |-> x] : y \in ToSet(ids(x))}
  <2>1. x \in Nat /\ form(x) \in DOMAIN index.trie
    BY DEF FormEnds
  <2>2. ids(x) \in Seq(Nat)
    BY <2>1 DEF IsIndex
  <2> DEFINE f == form(x)
  <2>3. ToSet(Expand(index, lexicon, index.trie[f], x)) =
          {[dict |-> lexicon, entry |-> y, end |-> x] :
             y \in ToSet(EntriesAt(index.table, index.trie[f]))}
    <3> HIDE DEF f
    <3> QED BY <2>1, ExpandFacts DEF f
  <2>4. ExpandedEnd(index, lexicon, chars, b, x) = Expand(index, lexicon, index.trie[f], x)
    BY Zenon DEF ExpandedEnd
  <2> QED BY <2>2, <2>3, <2>4
<1>7. ToSet(FlattenSeq(all)) = UNION {ToSet(all[i]) : i \in 1 .. Len(all)}
  <2> HIDE DEF all
  <2> QED BY <1>5, FlattenElements
<1>8. \A x \in S : \A y \in ToSet(ids(x)) : y \in Nat
  <2> HIDE DEF S, ids
  <2> QED BY <1>6, ElementOfSeq, LenProperties DEF ToSet
<1>9. FoundIn(index, lexicon, chars, b) =
        {[dict |-> lexicon, entry |-> p[2], end |-> p[1]] :
           p \in {q \in S \X Nat : q[2] \in ToSet(ids(q[1]))}}
  BY Zenon DEF FoundIn
<1> HIDE DEF all, c, S, ids
<1>10. UNION {ToSet(all[i]) : i \in 1 .. Len(all)} = FoundIn(index, lexicon, chars, b)
  <2>1. ASSUME NEW i \in 1 .. Len(all), NEW h \in ToSet(all[i])
        PROVE  h \in FoundIn(index, lexicon, chars, b)
    <3>1. c[i] \in S /\ all[i] = ExpandedEnd(index, lexicon, chars, b, c[i])
      BY <1>4, <1>5
    <3>2. PICK y \in ToSet(ids(c[i])) : h = [dict |-> lexicon, entry |-> y, end |-> c[i]]
      BY <1>6, <3>1
    <3>3. <<c[i], y>> \in {q \in S \X Nat : q[2] \in ToSet(ids(q[1]))}
      BY <1>8, <3>1
    <3> QED BY <1>9, <3>2, <3>3
  <2>2. ASSUME NEW h \in FoundIn(index, lexicon, chars, b)
        PROVE  \E i \in 1 .. Len(all) : h \in ToSet(all[i])
    <3>1. PICK x \in S, y \in Nat :
            y \in ToSet(ids(x)) /\ h = [dict |-> lexicon, entry |-> y, end |-> x]
      BY <1>9
    <3>2. PICK i \in 1 .. Len(c) : c[i] = x
      BY <1>4
    <3>3. all[i] = ExpandedEnd(index, lexicon, chars, b, x)
      BY <1>5, <3>2
    <3>4. h \in ToSet(all[i])
      BY <1>6, <3>1, <3>3
    <3> QED BY <1>5, <3>2, <3>4
  <2> QED BY <2>1, <2>2
<1> QED BY <1>2, <1>3, <1>7, <1>10

-----------------------------------------------------------------------------
(***************************************************************************)
(* The batch, for any indices xs and characters: what a bucket holds while *)
(* the lanes walk.  Before is what the dictionaries that are done have     *)
(* found at a boundary; a bucket holds that and what the dictionary d that *)
(* is walked has up to where the lane of the bucket stands.                *)
(***************************************************************************)
LookupsBefore(xs, chars, d, b) ==
  [k \in 1 .. Len(xs) - d |-> LookupIn(xs[Len(xs) + 1 - k], Len(xs) - k, chars, b)]

Before(xs, chars, d, b) == FlattenSeq(LookupsBefore(xs, chars, d, b))

WalkedTo(xs, chars, d, b, e) ==
  Before(xs, chars, d, b) \o FoundUpTo(xs[d], d - 1, chars, b, e)

LaneType == [node : Seq(DOMAIN CatsOf), pos : Nat, bucket : Nat, active : BOOLEAN]

Walking(ls) == {i \in DOMAIN ls : ls[i].active}

LaneIsSound(xs, chars, d, cache, lane, start) ==
  /\ lane.bucket \in 0 .. start - 1
  /\ lane.pos \in lane.bucket .. Len(chars)
  /\ lane.node = SubSeq(chars, lane.bucket + 1, lane.pos)
  /\ cache[lane.bucket] = WalkedTo(xs, chars, d, lane.bucket, lane.pos)

IsHeld(ls, b) == \E i \in Walking(ls) : ls[i].bucket = b

BatchIsSound(xs, chars, d, cache, ls, start) ==
  /\ d \in 1 .. Len(xs)
  /\ start \in 0 .. Len(chars)
  /\ 0 .. Len(chars) - 1 \subseteq DOMAIN cache
  /\ ls \in [0 .. Lanes - 1 -> LaneType]
  /\ start < Len(chars) => Walking(ls) = 0 .. Lanes - 1
  /\ \A i \in Walking(ls) : LaneIsSound(xs, chars, d, cache, ls[i], start)
  /\ \A i, j \in Walking(ls) : i # j => ls[i].bucket # ls[j].bucket
  /\ \A b \in 0 .. start - 1 : IsHeld(ls, b) \/ cache[b] = WalkedTo(xs, chars, d, b, Len(chars))
  /\ \A b \in start .. Len(chars) - 1 : cache[b] = Before(xs, chars, d, b)

BatchInv ==
  /\ setup \in Setups
  /\ stage # "idle" => text = TextOf(text.chars) /\ text.chars \in Texts
  /\ stage = "batch" =>
       BatchIsSound(Indices, text.chars, dictionary, match_cache, lanes, next_start)
  /\ BatchReproducesLookup
-----------------------------------------------------------------------------
AreIndices(xs) ==
  /\ Len(xs) \in Nat \ {0} /\ DOMAIN xs = 1 .. Len(xs)
  /\ \A d \in 1 .. Len(xs) : IsIndex(xs[d])

(* A dictionary has an index.                                              *)
LEMMA DictionaryIndexed ==
  ASSUME NEW entries \in Seq(IndexRow), IsDictionary(entries)
  PROVE  IsIndex(BuildIndex(entries))
BY IndexFacts, IdsOfFacts DEF IsIndex

(* The indices are those of the loaded dictionaries.                       *)
LEMMA IndicesFacts ==
  ASSUME setup \in Setups
  PROVE  /\ AreIndices(Indices) /\ Len(Indices) = Len(setup.dictionaries)
         /\ \A d \in 1 .. Len(Indices) :
              /\ setup.dictionaries[d] \in Seq(IndexRow) /\ IsDictionary(setup.dictionaries[d])
              /\ Indices[d] = BuildIndex(setup.dictionaries[d])
<1> DEFINE ds == setup.dictionaries
           xs == [d \in DOMAIN ds |-> BuildIndex(ds[d])]
<1>1. ds \in Seq(Seq(IndexRow)) /\ ds # << >> /\ \A d \in DOMAIN ds : IsDictionary(ds[d])
  BY SetupsAssumption
<1>2. Indices = xs
  BY Zenon DEF Indices
<1> HIDE DEF ds
<1>3. Len(ds) \in Nat /\ DOMAIN ds = 1 .. Len(ds) /\ Len(ds) # 0
      /\ \A d \in 1 .. Len(ds) : ds[d] \in Seq(IndexRow)
  BY <1>1, LenProperties, ElementOfSeq, EmptySeq
<1>4. DOMAIN xs = 1 .. Len(ds) /\ \A d \in 1 .. Len(ds) : xs[d] = BuildIndex(ds[d])
  BY <1>3
<1>5. Len(xs) = Len(ds)
  <2> DEFINE V == {BuildIndex(ds[d]) : d \in 1 .. Len(ds)}
  <2>1. xs \in [1 .. Len(ds) -> V]
    BY <1>3
  <2> HIDE DEF V, xs
  <2>2. xs \in Seq(V)
    BY <1>3, <2>1, SeqDef
  <2> QED BY <1>3, <2>1, <2>2, LenProperties
<1> HIDE DEF xs
<1>6. \A d \in 1 .. Len(ds) : IsIndex(xs[d])
  BY <1>1, <1>3, <1>4, DictionaryIndexed
<1>7. AreIndices(xs)
  BY <1>3, <1>4, <1>5, <1>6 DEF AreIndices
<1>8. \A d \in 1 .. Len(xs) :
        ds[d] \in Seq(IndexRow) /\ IsDictionary(ds[d]) /\ xs[d] = BuildIndex(ds[d])
  BY <1>1, <1>3, <1>4, <1>5
<1>9. AreIndices(Indices) /\ Len(Indices) = Len(ds)
  BY <1>2, <1>5, <1>7
<1> QED BY <1>2, <1>8, <1>9 DEF ds

AreLookups(ls, xs, chars, m, b) ==
  /\ ls \in Seq(Seq(Hit)) /\ Len(ls) = m
  /\ \A k \in 1 .. m : ls[k] = LookupIn(xs[Len(xs) + 1 - k], Len(xs) - k, chars, b)

(* The lookups of some of the dictionaries are a sequence of hits each.    *)
LEMMA LookupsType ==
  ASSUME NEW xs, AreIndices(xs), NEW chars, Len(chars) \in Nat, NEW b \in Nat,
         NEW d \in 0 .. Len(xs)
  PROVE  AreLookups(LookupsBefore(xs, chars, d, b), xs, chars, Len(xs) - d, b)
<1> DEFINE n == Len(xs)
           ls == LookupsBefore(xs, chars, d, b)
           one(k) == LookupIn(xs[n + 1 - k], n - k, chars, b)
<1>1. n \in Nat /\ n - d \in Nat
  BY DEF AreIndices
<1>2. ASSUME NEW k \in 1 .. n - d PROVE one(k) \in Seq(Hit)
  <2>1. n + 1 - k \in 1 .. n /\ n - k \in Nat
    BY <1>1
  <2>2. IsIndex(xs[n + 1 - k])
    BY <2>1 DEF AreIndices
  <2> DEFINE lexicon == n - k
  <2> HIDE DEF lexicon
  <2>3. lexicon \in Nat
    BY <2>1 DEF lexicon
  <2>4. LookupIn(xs[n + 1 - k], lexicon, chars, b) \in Seq(Hit)
    BY <2>2, <2>3, LookupInFacts
  <2> QED BY <2>4 DEF lexicon
<1>3. ls = [k \in 1 .. n - d |-> one(k)]
  BY Zenon DEF LookupsBefore
<1>4. ls \in [1 .. n - d -> Seq(Hit)] /\ \A k \in 1 .. n - d : ls[k] = one(k)
  <2> HIDE DEF one, ls
  <2> QED BY <1>2, <1>3
<1> HIDE DEF ls
<1> DEFINE m == n - d
<1>5. m \in Nat /\ ls \in [1 .. m -> Seq(Hit)]
  BY <1>1, <1>4
<1>6. ls \in Seq(Seq(Hit)) /\ Len(ls) = m
  <2> HIDE DEF m
  <2>1. ls \in Seq(Seq(Hit))
    BY <1>5, SeqDef
  <2> QED BY <1>5, <2>1, LenProperties
<1> QED BY <1>4, <1>6 DEF ls, AreLookups

(* What the dictionaries already walked have found is a sequence of hits.  *)
LEMMA BeforeType ==
  ASSUME NEW xs, AreIndices(xs), NEW chars, Len(chars) \in Nat, NEW b \in Nat,
         NEW d \in 0 .. Len(xs)
  PROVE  Before(xs, chars, d, b) \in Seq(Hit)
<1>1. LookupsBefore(xs, chars, d, b) \in Seq(Seq(Hit))
  BY LookupsType DEF AreLookups
<1> QED BY <1>1, FlattenType DEF Before

(* It is empty before the first of them (the last one is walked first).    *)
LEMMA BeforeAny ==
  ASSUME NEW xs, AreIndices(xs), NEW chars, Len(chars) \in Nat, NEW b \in Nat
  PROVE  Before(xs, chars, Len(xs), b) = << >>
<1> DEFINE ls == LookupsBefore(xs, chars, Len(xs), b)
<1>1. Len(xs) \in 0 .. Len(xs) /\ Len(xs) - Len(xs) = 0
  BY DEF AreIndices
<1>2. ls \in Seq(Seq(Hit)) /\ Len(ls) = 0
  BY <1>1, LookupsType DEF AreLookups
<1>3. Before(xs, chars, Len(xs), b) = FlattenSeq(ls)
  BY Zenon DEF Before
<1> HIDE DEF ls
<1>4. ls = << >>
  BY <1>2, EmptySeq
<1> QED BY <1>2, <1>3, <1>4, FlattenEmpty

(* It is the plain lookup when all are walked.                             *)
LEMMA BeforeAll ==
  ASSUME NEW xs, AreIndices(xs), NEW chars, NEW b
  PROVE  Before(xs, chars, 0, b) = Lookup(xs, chars, b)
<1> DEFINE n == Len(xs)
           one(k) == LookupIn(xs[n + 1 - k], n - k, chars, b)
           two(k) == LookupIn(xs[n + 1 - k], (n + 1 - k) - 1, chars, b)
<1>1. n \in Nat /\ DOMAIN xs = 1 .. n /\ n - 0 = n
  BY DEF AreIndices
<1>2. \A k \in 1 .. n : n - k = (n + 1 - k) - 1
  BY <1>1
<1>3. \A k \in 1 .. n : one(k) = two(k)
  BY <1>2
<1>4. [k \in 1 .. n |-> one(k)] = [k \in 1 .. n |-> two(k)]
  <2> HIDE DEF one, two
  <2> QED BY <1>3
<1>5. Before(xs, chars, 0, b) = FlattenSeq([k \in 1 .. n - 0 |-> one(k)])
  BY Zenon DEF Before, LookupsBefore
<1>6. Lookup(xs, chars, b) = FlattenSeq([k \in DOMAIN xs |-> two(k)])
  BY Zenon DEF Lookup
<1> HIDE DEF one, two, n
<1> QED BY <1>1, <1>4, <1>5, <1>6

(* When a dictionary is done, its lookup is what was missing.              *)
LEMMA BeforeStep ==
  ASSUME NEW xs, AreIndices(xs), NEW chars, Len(chars) \in Nat, NEW b \in Nat,
         NEW d \in 1 .. Len(xs)
  PROVE  Before(xs, chars, d - 1, b) = WalkedTo(xs, chars, d, b, Len(chars))
<1> DEFINE n == Len(xs)
           ls == LookupsBefore(xs, chars, d, b)
           more == LookupsBefore(xs, chars, d - 1, b)
           new == LookupIn(xs[d], d - 1, chars, b)
<1>1. n \in Nat /\ d \in 0 .. n /\ d - 1 \in 0 .. n /\ n - (d - 1) = (n - d) + 1
      /\ n - d \in Nat /\ d - 1 \in Nat
  BY DEF AreIndices
<1> DEFINE m == n - d
<1>2. /\ ls \in Seq(Seq(Hit)) /\ Len(ls) = m
      /\ \A k \in 1 .. m : ls[k] = LookupIn(xs[n + 1 - k], n - k, chars, b)
  <2>1. AreLookups(ls, xs, chars, m, b)
    BY <1>1, LookupsType, Zenon
  <2> HIDE DEF ls, m
  <2> QED BY <2>1, Zenon DEF AreLookups
<1>3. /\ more \in Seq(Seq(Hit)) /\ Len(more) = m + 1
      /\ \A k \in 1 .. m + 1 : more[k] = LookupIn(xs[n + 1 - k], n - k, chars, b)
  <2>1. AreLookups(more, xs, chars, n - (d - 1), b)
    BY <1>1, LookupsType, Zenon
  <2> HIDE DEF more
  <2>2. AreLookups(more, xs, chars, m + 1, b)
    BY <1>1, <2>1
  <2> HIDE DEF m
  <2> QED BY <2>2, Zenon DEF AreLookups
<1>4. new \in Seq(Hit) /\ new = FoundUpTo(xs[d], d - 1, chars, b, Len(chars))
  BY <1>1, LookupInFacts, LookupInIsFound DEF AreIndices
<1>5. /\ Before(xs, chars, d, b) = FlattenSeq(ls)
      /\ Before(xs, chars, d - 1, b) = FlattenSeq(more)
  BY Zenon DEF Before
<1> HIDE DEF ls, more
<1>6. m \in Nat /\ n + 1 - (m + 1) = d /\ n - (m + 1) = d - 1
  BY <1>1
<1>7. more = Append(ls, new)
  <2> HIDE DEF m, n
  <2>1. more[m + 1] = new
    <3>1. m + 1 \in 1 .. m + 1
      BY <1>6
    <3> QED BY <1>3, <1>6, <3>1
  <2> HIDE DEF new
  <2>2. /\ Append(ls, new) \in Seq(Seq(Hit)) /\ Len(Append(ls, new)) = m + 1
        /\ Append(ls, new)[m + 1] = new
        /\ \A k \in 1 .. m : Append(ls, new)[k] = ls[k]
    BY <1>2, <1>4, AppendProperties
  <2>3. \A k \in 1 .. m + 1 : k = m + 1 \/ k \in 1 .. m
    BY <1>6
  <2>4. \A k \in 1 .. m : k \in 1 .. m + 1
    BY <1>6
  <2>5. \A k \in 1 .. Len(more) : more[k] = Append(ls, new)[k]
    BY <1>2, <1>3, <2>1, <2>2, <2>3, <2>4
  <2> QED BY <1>3, <2>2, <2>5, SeqEqual
<1>8. FlattenSeq(more) = FlattenSeq(ls) \o new
  <2> HIDE DEF new
  <2> QED BY <1>2, <1>4, <1>7, FlattenAppend
<1> QED BY <1>4, <1>5, <1>8 DEF WalkedTo

(* A walk that has just begun has found nothing in its dictionary.         *)
LEMMA WalkedFirst ==
  ASSUME NEW xs, AreIndices(xs), NEW chars, Len(chars) \in Nat, NEW b \in Nat,
         NEW d \in 1 .. Len(xs)
  PROVE  WalkedTo(xs, chars, d, b, b) = Before(xs, chars, d, b)
<1>1. d \in 0 .. Len(xs) /\ d - 1 \in Nat /\ IsIndex(xs[d])
  BY DEF AreIndices
<1>2. FoundUpTo(xs[d], d - 1, chars, b, b) = << >>
  BY <1>1, FoundFirst
<1>3. Before(xs, chars, d, b) \in Seq(Hit)
  BY <1>1, BeforeType
<1> QED BY <1>2, <1>3, ConcatEmptySeq DEF WalkedTo

(* A walk that goes on by one character has found the form that ends       *)
(* there, if there is one.                                                 *)
LEMMA WalkedStep ==
  ASSUME NEW xs, AreIndices(xs), NEW chars, Len(chars) \in Nat, NEW b \in Nat, NEW e \in Nat,
         b <= e, NEW d \in 1 .. Len(xs)
  PROVE  WalkedTo(xs, chars, d, b, e + 1) =
           IF SubSeq(chars, b + 1, e + 1) \in DOMAIN xs[d].trie
           THEN WalkedTo(xs, chars, d, b, e) \o ExpandedEnd(xs[d], d - 1, chars, b, e + 1)
           ELSE WalkedTo(xs, chars, d, b, e)
<1> DEFINE s == Before(xs, chars, d, b)
           t == FoundUpTo(xs[d], d - 1, chars, b, e)
           u == ExpandedEnd(xs[d], d - 1, chars, b, e + 1)
           isHit == SubSeq(chars, b + 1, e + 1) \in DOMAIN xs[d].trie
<1>1. d \in 0 .. Len(xs) /\ d - 1 \in Nat /\ IsIndex(xs[d]) /\ e + 1 \in Nat
  BY DEF AreIndices
<1>2. s \in Seq(Hit) /\ t \in Seq(Hit)
  BY <1>1, BeforeType, FoundType
<1>3. isHit => u \in Seq(Hit)
  BY <1>1, ExpandFacts DEF ExpandedEnd
<1>4. FoundUpTo(xs[d], d - 1, chars, b, e + 1) = IF isHit THEN t \o u ELSE t
  BY <1>1, FoundStep
<1>5. WalkedTo(xs, chars, d, b, e) = s \o t
      /\ WalkedTo(xs, chars, d, b, e + 1) = s \o (IF isHit THEN t \o u ELSE t)
  BY <1>4, Zenon DEF WalkedTo
<1> HIDE DEF s, t, u, isHit
<1>6. isHit => s \o (t \o u) = (s \o t) \o u
  BY <1>2, <1>3, ConcatAssociative
<1>7. WalkedTo(xs, chars, d, b, e + 1) =
        IF isHit THEN WalkedTo(xs, chars, d, b, e) \o u ELSE WalkedTo(xs, chars, d, b, e)
  BY <1>5, <1>6
<1> QED BY <1>7, Zenon DEF isHit, u

(* A walk beyond which no form goes has found all there is.                *)
LEMMA WalkedNoMore ==
  ASSUME NEW xs, AreIndices(xs), NEW chars, Len(chars) \in Nat, NEW b \in Nat, NEW e \in Nat,
         b <= e, e <= Len(chars), NEW d \in 1 .. Len(xs),
         \A x \in e + 1 .. Len(chars) : SubSeq(chars, b + 1, x) \notin DOMAIN xs[d].trie
  PROVE  WalkedTo(xs, chars, d, b, Len(chars)) = WalkedTo(xs, chars, d, b, e)
<1>1. d - 1 \in Nat /\ IsIndex(xs[d])
  BY DEF AreIndices
<1>2. FoundUpTo(xs[d], d - 1, chars, b, Len(chars)) = FoundUpTo(xs[d], d - 1, chars, b, e)
  BY <1>1, FoundNoMore
<1> QED BY <1>2 DEF WalkedTo

(* The node of a walk is the text it has read.                             *)
LEMMA NodeStep ==
  ASSUME NEW V, NEW chars \in Seq(V), NEW b \in Nat, NEW p \in Nat, b <= p, p < Len(chars)
  PROVE  Append(SubSeq(chars, b + 1, p), chars[p + 1]) = SubSeq(chars, b + 1, p + 1)
<1> DEFINE s == SubSeq(chars, b + 1, p)
           t == SubSeq(chars, b + 1, p + 1)
           n == p - b
<1>1. Len(chars) \in Nat /\ \A i \in 1 .. Len(chars) : chars[i] \in V
  BY LenProperties, ElementOfSeq
<1>2. /\ p + 1 \in 1 .. Len(chars) /\ n \in Nat
      /\ \A i \in b + 1 .. p + 1 : i \in 1 .. Len(chars)
      /\ \A i \in b + 1 .. p : i \in 1 .. Len(chars)
  BY <1>1
<1>3. s \in Seq(V) /\ Len(s) = n /\ \A i \in 1 .. n : s[i] = chars[b + i]
  <2>1. b + 1 \in Int /\ p \in Int /\ \A i \in b + 1 .. p : chars[i] \in V
    BY <1>1, <1>2
  <2>2. /\ s \in Seq(V) /\ Len(s) = IF b + 1 <= p THEN p - (b + 1) + 1 ELSE 0
        /\ \A i \in 1 .. p - (b + 1) + 1 : s[i] = chars[b + 1 + i - 1]
    BY <2>1, SubSeqProperties
  <2>3. p - (b + 1) + 1 = n /\ (b + 1 <= p \/ n = 0) /\ \A i \in 1 .. n : b + 1 + i - 1 = b + i
    BY <1>2
  <2> HIDE DEF s
  <2> QED BY <2>2, <2>3
<1>4. t \in Seq(V) /\ Len(t) = n + 1 /\ \A i \in 1 .. n + 1 : t[i] = chars[b + i]
  <2>1. b + 1 \in Int /\ p + 1 \in Int /\ \A i \in b + 1 .. p + 1 : chars[i] \in V
    BY <1>1, <1>2
  <2>2. /\ t \in Seq(V) /\ Len(t) = IF b + 1 <= p + 1 THEN (p + 1) - (b + 1) + 1 ELSE 0
        /\ \A i \in 1 .. (p + 1) - (b + 1) + 1 : t[i] = chars[b + 1 + i - 1]
    BY <2>1, SubSeqProperties
  <2>3. (p + 1) - (b + 1) + 1 = n + 1 /\ b + 1 <= p + 1 /\ \A i \in 1 .. n + 1 : b + 1 + i - 1 = b + i
    BY <1>2
  <2> HIDE DEF t
  <2> QED BY <2>2, <2>3
<1>5. chars[p + 1] \in V
  BY <1>1, <1>2
<1> HIDE DEF s, t
<1>6. /\ Append(s, chars[p + 1]) \in Seq(V) /\ Len(Append(s, chars[p + 1])) = n + 1
      /\ Append(s, chars[p + 1])[n + 1] = chars[p + 1]
      /\ \A i \in 1 .. n : Append(s, chars[p + 1])[i] = s[i]
  BY <1>3, <1>5, AppendProperties
<1>7. \A i \in 1 .. n + 1 : i = n + 1 \/ i \in 1 .. n
  BY <1>2
<1>8. b + (n + 1) = p + 1 /\ n + 1 \in 1 .. n + 1
  BY <1>2
<1> HIDE DEF n
<1>9. \A i \in 1 .. n + 1 : Append(s, chars[p + 1])[i] = t[i]
  BY <1>3, <1>4, <1>6, <1>7, <1>8
<1>10. Append(s, chars[p + 1]) = t
  BY <1>4, <1>6, <1>9, SeqEqual
<1> QED BY <1>10, Zenon DEF s, t

(* A node of the trie is a prefix of the nodes behind it.                  *)
LEMMA NodeIsPrefix ==
  ASSUME NEW V, NEW chars \in Seq(V), NEW b \in Nat, NEW p \in Nat, NEW x \in Nat,
         b <= p, p <= x, x <= Len(chars)
  PROVE  IsPrefix(SubSeq(chars, b + 1, p), SubSeq(chars, b + 1, x))
<1> DEFINE s == SubSeq(chars, b + 1, p)
           t == SubSeq(chars, b + 1, x)
           n == p - b
           m == x - b
<1>1. Len(chars) \in Nat /\ \A i \in 1 .. Len(chars) : chars[i] \in V
  BY LenProperties, ElementOfSeq
<1>2. /\ n \in Nat /\ m \in Nat /\ n <= m
      /\ \A i \in b + 1 .. x : i \in 1 .. Len(chars)
      /\ \A i \in b + 1 .. p : i \in 1 .. Len(chars)
  BY <1>1
<1>3. s \in Seq(V) /\ Len(s) = n /\ \A i \in 1 .. n : s[i] = chars[b + i]
  <2>1. b + 1 \in Int /\ p \in Int /\ \A i \in b + 1 .. p : chars[i] \in V
    BY <1>1, <1>2
  <2>2. /\ s \in Seq(V) /\ Len(s) = IF b + 1 <= p THEN p - (b + 1) + 1 ELSE 0
        /\ \A i \in 1 .. p - (b + 1) + 1 : s[i] = chars[b + 1 + i - 1]
    BY <2>1, SubSeqProperties
  <2>3. p - (b + 1) + 1 = n /\ (b + 1 <= p \/ n = 0) /\ \A i \in 1 .. n : b + 1 + i - 1 = b + i
    BY <1>2
  <2> HIDE DEF s
  <2> QED BY <2>2, <2>3
<1>4. t \in Seq(V) /\ Len(t) = m /\ \A i \in 1 .. m : t[i] = chars[b + i]
  <2>1. b + 1 \in Int /\ x \in Int /\ \A i \in b + 1 .. x : chars[i] \in V
    BY <1>1, <1>2
  <2>2. /\ t \in Seq(V) /\ Len(t) = IF b + 1 <= x THEN x - (b + 1) + 1 ELSE 0
        /\ \A i \in 1 .. x - (b + 1) + 1 : t[i] = chars[b + 1 + i - 1]
    BY <2>1, SubSeqProperties
  <2>3. x - (b + 1) + 1 = m /\ (b + 1 <= x \/ m = 0) /\ \A i \in 1 .. m : b + 1 + i - 1 = b + i
    BY <1>2
  <2> HIDE DEF t
  <2> QED BY <2>2, <2>3
<1> HIDE DEF s, t, n, m
<1>5. \A i \in 1 .. n : i \in 1 .. m /\ t[i] \in V
  <2>1. \A i \in 1 .. n : i \in 1 .. m
    BY <1>2
  <2>2. \A i \in 1 .. m : t[i] \in V
    BY <1>4, ElementOfSeq
  <2> QED BY <2>1, <2>2
<1> DEFINE u == SubSeq(t, 1, n)
<1>6. u \in Seq(V) /\ Len(u) = n /\ \A i \in 1 .. n : u[i] = t[i]
  <2>1. 1 \in Int /\ n \in Int
    BY <1>2
  <2>2. /\ u \in Seq(V) /\ Len(u) = IF 1 <= n THEN n - 1 + 1 ELSE 0
        /\ \A i \in 1 .. n - 1 + 1 : u[i] = t[1 + i - 1]
    BY <1>5, <2>1, SubSeqProperties
  <2>3. n - 1 + 1 = n /\ (1 <= n \/ n = 0) /\ \A i \in 1 .. n : 1 + i - 1 = i
    BY <1>2
  <2> HIDE DEF u
  <2> QED BY <2>2, <2>3
<1> HIDE DEF u
<1>7. \A i \in 1 .. Len(s) : s[i] = u[i]
  BY <1>3, <1>4, <1>5, <1>6
<1>8. s = u
  BY <1>3, <1>6, <1>7, SeqEqual
<1>9. SubSeq(s, 1, Len(s)) = s
  BY <1>3, SubSeqFull
<1>10. IsPrefix(s, t)
  BY <1>2, <1>3, <1>4, <1>8, <1>9, Zenon DEF IsPrefix, u
<1> QED BY <1>10, Zenon DEF s, t

(* The first lanes begin at the first boundaries.                          *)
LEMMA FirstLanesFacts ==
  ASSUME NEW n \in Nat
  PROVE  /\ FirstLanes(n) \in [0 .. Lanes - 1 -> LaneType]
         /\ Walking(FirstLanes(n)) = {i \in 0 .. Lanes - 1 : i < n}
         /\ \A i \in Walking(FirstLanes(n)) :
              FirstLanes(n)[i] = LaneAt(i) /\ FirstLanes(n)[i].bucket = i
<1> DEFINE ls == FirstLanes(n)
<1>1. Lanes \in Nat \ {0}
  BY LanesAssumption
<1>2. NoLane \in LaneType /\ ~NoLane.active
  <2>1. << >> \in Seq(DOMAIN CatsOf)
    BY EmptySeq
  <2> QED BY <2>1 DEF NoLane, LaneType, Root
<1>3. \A i \in Nat : LaneAt(i) \in LaneType /\ LaneAt(i).active /\ LaneAt(i).bucket = i
  <2>1. << >> \in Seq(DOMAIN CatsOf)
    BY EmptySeq
  <2> QED BY <2>1 DEF LaneAt, LaneType, Root
<1>4. ls = [i \in 0 .. Lanes - 1 |-> IF i < n THEN LaneAt(i) ELSE NoLane]
  BY DEF FirstLanes
<1>5. DOMAIN ls = 0 .. Lanes - 1
      /\ \A i \in 0 .. Lanes - 1 : ls[i] = IF i < n THEN LaneAt(i) ELSE NoLane
  BY <1>4
<1>6. \A i \in 0 .. Lanes - 1 : i \in Nat
  BY <1>1
<1>7. ls \in [0 .. Lanes - 1 -> LaneType]
  <2>1. \A i \in 0 .. Lanes - 1 : (IF i < n THEN LaneAt(i) ELSE NoLane) \in LaneType
    BY <1>2, <1>3, <1>6
  <2> QED BY <1>4, <2>1
<1> HIDE DEF ls
<1>8. Walking(ls) = {i \in 0 .. Lanes - 1 : i < n}
  BY <1>2, <1>3, <1>5, <1>6 DEF Walking
<1>9. \A i \in Walking(ls) : ls[i] = LaneAt(i) /\ ls[i].bucket = i
  BY <1>3, <1>5, <1>6, <1>8
<1> QED BY <1>7, <1>8, <1>9 DEF ls

(* The smaller of two numbers.                                             *)
LEMMA MinOfTwo ==
  ASSUME NEW x \in Int, NEW y \in Int
  PROVE  Min({x, y}) = IF x <= y THEN x ELSE y
<1> DEFINE m == IF x <= y THEN x ELSE y
           IsMin(z) == z \in {x, y} /\ \A u \in {x, y} : u >= z
<1>1. \E z : IsMin(z)
  <2>1. IsMin(m)
    OBVIOUS
  <2> HIDE DEF IsMin, m
  <2> QED BY <2>1
<1>2. Min({x, y}) = CHOOSE z \in {x, y} : \A u \in {x, y} : z <= u
  BY DEF Min
<1> QED BY <1>2

(* At the start of a dictionary.                                           *)
LEMMA FirstLanesAreSound ==
  ASSUME NEW xs, AreIndices(xs), NEW chars, Len(chars) \in Nat, NEW d \in 1 .. Len(xs),
         NEW cache, 0 .. Len(chars) - 1 \subseteq DOMAIN cache,
         \A b \in 0 .. Len(chars) - 1 : cache[b] = Before(xs, chars, d, b)
  PROVE  BatchIsSound(xs, chars, d, cache, FirstLanes(Len(chars)), Min({Lanes, Len(chars)}))
<1> DEFINE L == Len(chars)
           ls == FirstLanes(L)
           start == Min({Lanes, L})
<1>1. Lanes \in Nat \ {0} /\ L \in Nat
  BY LanesAssumption
<1>2. start = IF Lanes <= L THEN Lanes ELSE L
  BY <1>1, MinOfTwo
<1>3. /\ ls \in [0 .. Lanes - 1 -> LaneType]
      /\ Walking(ls) = {i \in 0 .. Lanes - 1 : i < L}
      /\ \A i \in Walking(ls) : ls[i] = LaneAt(i) /\ ls[i].bucket = i
  BY FirstLanesFacts
<1> HIDE DEF ls, start
<1>4. start \in 0 .. L
  BY <1>1, <1>2
<1>5. \A i \in Walking(ls) : i \in 0 .. start - 1 /\ i \in 0 .. L - 1
  <2> HIDE DEF L
  <2> QED BY <1>1, <1>2, <1>3
<1>6. start < L => Walking(ls) = 0 .. Lanes - 1
  <2> HIDE DEF L
  <2> QED BY <1>1, <1>2, <1>3
<1>7. \A b \in 0 .. start - 1 : b \in Walking(ls)
  <2> HIDE DEF L
  <2> QED BY <1>1, <1>2, <1>3
<1>8. \A b \in start .. L - 1 : cache[b] = Before(xs, chars, d, b)
  <2>1. \A b \in start .. L - 1 : b \in 0 .. L - 1
    BY <1>4
  <2> QED BY <2>1
<1>9. ASSUME NEW i \in Walking(ls) PROVE LaneIsSound(xs, chars, d, cache, ls[i], start)
  <2>1. i \in 0 .. L - 1 /\ i \in Nat /\ i \in i .. L /\ i \in 0 .. start - 1
    BY <1>1, <1>5
  <2>2. ls[i].bucket = i /\ ls[i].pos = i /\ ls[i].node = << >>
    BY <1>3 DEF LaneAt, Root
  <2>3. SubSeq(chars, i + 1, i) = << >>
    BY <2>1, SubSeqEmpty
  <2>4. cache[i] = WalkedTo(xs, chars, d, i, i)
    BY <2>1, WalkedFirst
  <2> QED BY <2>1, <2>2, <2>3, <2>4 DEF LaneIsSound
<1>10. \A i, j \in Walking(ls) : i # j => ls[i].bucket # ls[j].bucket
  BY <1>3
<1>11. \A b \in 0 .. start - 1 : IsHeld(ls, b)
  BY <1>3, <1>7 DEF IsHeld
<1>12. BatchIsSound(xs, chars, d, cache, ls, start)
  BY <1>3, <1>4, <1>6, <1>8, <1>9, <1>10, <1>11 DEF BatchIsSound
<1> QED BY <1>12, Zenon DEF ls, start

(* A lane takes one more character.                                        *)
LEMMA LaneMoves ==
  ASSUME NEW l \in LaneType, NEW node \in Seq(DOMAIN CatsOf)
  PROVE  LET m == [l EXCEPT !.node = node, !.pos = @ + 1]
         IN m \in LaneType /\ m.node = node /\ m.pos = l.pos + 1
            /\ m.bucket = l.bucket /\ m.active = l.active
<1> DEFINE V == Seq(DOMAIN CatsOf)
           m == [l EXCEPT !.node = node, !.pos = @ + 1]
<1>1. l \in [node : V, pos : Nat, bucket : Nat, active : BOOLEAN] /\ node \in V
  BY Zenon DEF LaneType
<1> HIDE DEF V
<1>2. l.pos \in Nat /\ l.bucket \in Nat /\ l.active \in BOOLEAN
  BY <1>1
<1> DEFINE p == l.pos + 1
<1>3. p \in Nat
  BY <1>2
<1>4. m = [l EXCEPT !.node = node, !.pos = p]
  BY <1>1
<1> HIDE DEF p
<1>5. m.node = node /\ m.pos = p /\ m.bucket = l.bucket /\ m.active = l.active
  BY <1>1, <1>4
<1>6. m \in [node : V, pos : Nat, bucket : Nat, active : BOOLEAN]
  BY <1>1, <1>2, <1>3, <1>4
<1>7. LaneType = [node : V, pos : Nat, bucket : Nat, active : BOOLEAN]
  BY Zenon DEF LaneType, V
<1> HIDE DEF m
<1> QED BY <1>6, <1>7, <1>5 DEF m, p

Advances(lane, chars, next) ==
  lane.pos < Len(chars) /\ next = Append(lane.node, chars[lane.pos + 1])

Records(xs, d, lane, next, cache, cache2) ==
  cache2 = IF next \in DOMAIN xs[d].trie
           THEN [cache EXCEPT ![lane.bucket] =
                   @ \o Expand(xs[d], d - 1, xs[d].trie[next], lane.pos + 1)]
           ELSE cache

(* A lane that goes on keeps what is known of all lanes and buckets.       *)
LEMMA AdvanceIsSound ==
  ASSUME NEW xs, AreIndices(xs), NEW chars \in Seq(DOMAIN CatsOf), NEW d \in 1 .. Len(xs),
         NEW cache, NEW ls, NEW start, BatchIsSound(xs, chars, d, cache, ls, start),
         NEW i \in Walking(ls), NEW next, Advances(ls[i], chars, next),
         NEW cache2, Records(xs, d, ls[i], next, cache, cache2)
  PROVE  BatchIsSound(xs, chars, d, cache2,
           [ls EXCEPT ![i].node = next, ![i].pos = @ + 1], start)
<1> DEFINE L == Len(chars)
           b == ls[i].bucket
           p == ls[i].pos
           new == [ls EXCEPT ![i].node = next, ![i].pos = @ + 1]
<1>1. /\ start \in 0 .. L /\ 0 .. L - 1 \subseteq DOMAIN cache
      /\ ls \in [0 .. Lanes - 1 -> LaneType]
      /\ start < L => Walking(ls) = 0 .. Lanes - 1
      /\ \A j \in Walking(ls) : LaneIsSound(xs, chars, d, cache, ls[j], start)
      /\ \A j, k \in Walking(ls) : j # k => ls[j].bucket # ls[k].bucket
      /\ \A c \in 0 .. start - 1 : IsHeld(ls, c) \/ cache[c] = WalkedTo(xs, chars, d, c, L)
      /\ \A c \in start .. L - 1 : cache[c] = Before(xs, chars, d, c)
  BY DEF BatchIsSound
<1>2. L \in Nat
  BY LenProperties
<1>3. L \in Nat /\ \A k \in 1 .. L : chars[k] \in DOMAIN CatsOf
  BY LenProperties, ElementOfSeq
<1>4. start \in Nat /\ start <= L
  <2>1. start \in 0 .. L
    BY <1>1
  <2> HIDE DEF L
  <2> QED BY <1>3, <2>1
<1>5. i \in 0 .. Lanes - 1 /\ ls[i] \in LaneType /\ ls[i].active
  BY <1>1 DEF Walking
<1>6. /\ b \in 0 .. start - 1 /\ p \in b .. L /\ ls[i].node = SubSeq(chars, b + 1, p)
      /\ cache[b] = WalkedTo(xs, chars, d, b, p)
  BY <1>1 DEF LaneIsSound
<1>7. b \in Nat /\ p \in Nat /\ b <= p /\ p < L /\ p + 1 \in Nat /\ b \in DOMAIN cache
  <2>1. b \in 0 .. L - 1
    <3> HIDE DEF b, p, L
    <3> QED BY <1>4, <1>2, <1>6
  <2>2. p < L
    BY DEF Advances
  <2>3. b \in DOMAIN cache
    BY <1>1, <2>1
  <2> HIDE DEF b, p, L
  <2> QED BY <1>3, <1>6, <2>1, <2>2, <2>3
<1>8. next = SubSeq(chars, b + 1, p + 1) /\ next \in Seq(DOMAIN CatsOf)
  <2>1. next = SubSeq(chars, b + 1, p + 1)
    <3> HIDE DEF b, p
    <3>1. Append(SubSeq(chars, b + 1, p), chars[p + 1]) = SubSeq(chars, b + 1, p + 1)
      BY <1>7, NodeStep
    <3> QED BY <1>6, <3>1 DEF p, Advances
  <2>2. next \in Seq(DOMAIN CatsOf)
    <3>1. ls[i].node \in Seq(DOMAIN CatsOf)
      BY <1>5 DEF LaneType
    <3>2. chars[p + 1] \in DOMAIN CatsOf
      <4>1. p + 1 \in 1 .. L
        <5> HIDE DEF p
        <5> QED BY <1>3, <1>7
      <4> QED BY <1>3, <4>1
    <3> QED BY <3>1, <3>2, AppendProperties DEF Advances
  <2> QED BY <2>1, <2>2
<1>9. /\ DOMAIN cache2 = DOMAIN cache
      /\ \A c \in DOMAIN cache : c # b => cache2[c] = cache[c]
      /\ cache2[b] = IF next \in DOMAIN xs[d].trie
                     THEN cache[b] \o Expand(xs[d], d - 1, xs[d].trie[next], p + 1)
                     ELSE cache[b]
  BY <1>7 DEF Records
<1>10. cache2[b] = WalkedTo(xs, chars, d, b, p + 1)
  <2> HIDE DEF b, p
  <2>1. WalkedTo(xs, chars, d, b, p + 1) =
           IF next \in DOMAIN xs[d].trie
           THEN WalkedTo(xs, chars, d, b, p) \o ExpandedEnd(xs[d], d - 1, chars, b, p + 1)
           ELSE WalkedTo(xs, chars, d, b, p)
    <3>1. Len(chars) \in Nat
      BY <1>3
    <3>2. WalkedTo(xs, chars, d, b, p + 1) =
           IF SubSeq(chars, b + 1, p + 1) \in DOMAIN xs[d].trie
           THEN WalkedTo(xs, chars, d, b, p) \o ExpandedEnd(xs[d], d - 1, chars, b, p + 1)
           ELSE WalkedTo(xs, chars, d, b, p)
      <4> DEFINE D == xs[d]
      <4> HIDE DEF D
      <4> QED BY <1>7, <3>1, WalkedStep DEF D
    <3> QED BY <1>8, <3>2
  <2>2. ExpandedEnd(xs[d], d - 1, chars, b, p + 1) =
          Expand(xs[d], d - 1, xs[d].trie[next], p + 1)
    BY <1>8, Zenon DEF ExpandedEnd
  <2> QED BY <1>6, <1>9, <2>1, <2>2
<1>11. /\ new \in [0 .. Lanes - 1 -> LaneType]
       /\ \A j \in 0 .. Lanes - 1 : j # i => new[j] = ls[j]
       /\ new[i].node = next /\ new[i].pos = p + 1 /\ new[i].bucket = b /\ new[i].active
  <2> DEFINE lane == [ls[i] EXCEPT !.node = next, !.pos = @ + 1]
  <2>1. new = [ls EXCEPT ![i] = lane]
    BY <1>1, <1>5
  <2>2. lane \in LaneType /\ lane.node = next /\ lane.pos = p + 1 /\ lane.bucket = b /\ lane.active
    BY <1>5, <1>8, LaneMoves
  <2> HIDE DEF lane, new
  <2> QED BY <1>1, <1>5, <2>1, <2>2
<1> HIDE DEF new
<1>12. Walking(new) = Walking(ls) /\ \A j \in 0 .. Lanes - 1 : new[j].bucket = ls[j].bucket
  BY <1>1, <1>5, <1>11 DEF Walking
<1>13. ASSUME NEW j \in Walking(new) PROVE LaneIsSound(xs, chars, d, cache2, new[j], start)
  <2>1. CASE j = i
    <3>1. p + 1 \in b .. L
      <4> HIDE DEF b, p, L
      <4> QED BY <1>7, <1>2
    <3> HIDE DEF b, p
    <3> QED BY <1>6, <1>8, <1>10, <1>11, <2>1, <3>1 DEF LaneIsSound
  <2>2. CASE j # i
    <3>1. j \in Walking(ls) /\ new[j] = ls[j] /\ ls[j].bucket # b
      BY <1>1, <1>5, <1>11, <1>12, <2>2 DEF Walking
    <3>2. LaneIsSound(xs, chars, d, cache, ls[j], start)
      BY <1>1, <3>1
    <3>3. ls[j].bucket \in DOMAIN cache
      <4>1. ls[j].bucket \in 0 .. start - 1
        BY <3>2 DEF LaneIsSound
      <4>2. ls[j].bucket \in 0 .. L - 1
        <5> HIDE DEF L
        <5> QED BY <1>4, <1>2, <4>1
      <4> QED BY <1>1, <4>2
    <3>4. cache2[ls[j].bucket] = cache[ls[j].bucket]
      BY <1>9, <3>1, <3>3
    <3> HIDE DEF b, p
    <3> QED BY <3>1, <3>2, <3>4 DEF LaneIsSound
  <2> QED BY <2>1, <2>2
<1>14. \A j, k \in Walking(new) : j # k => new[j].bucket # new[k].bucket
  BY <1>1, <1>12 DEF Walking
<1>15. \A c \in 0 .. start - 1 : IsHeld(new, c) \/ cache2[c] = WalkedTo(xs, chars, d, c, L)
  <2> SUFFICES ASSUME NEW c \in 0 .. start - 1, ~IsHeld(new, c)
               PROVE  cache2[c] = WalkedTo(xs, chars, d, c, L)
    OBVIOUS
  <2>1. ~IsHeld(ls, c) /\ c # b
    BY <1>1, <1>5, <1>12 DEF IsHeld, Walking
  <2>2. c \in DOMAIN cache
    <3>1. c \in 0 .. L - 1
      <4> HIDE DEF L
      <4> QED BY <1>4, <1>2
    <3> QED BY <1>1, <3>1
  <2> HIDE DEF b
  <2> QED BY <1>1, <1>9, <2>1, <2>2
<1>16. \A c \in start .. L - 1 : cache2[c] = Before(xs, chars, d, c)
  <2> SUFFICES ASSUME NEW c \in start .. L - 1 PROVE cache2[c] = Before(xs, chars, d, c)
    OBVIOUS
  <2> HIDE DEF b, p, L
  <2>1. c \in 0 .. L - 1 /\ c # b
    BY <1>4, <1>2, <1>6
  <2> QED BY <1>1, <1>9, <2>1
<1>17. BatchIsSound(xs, chars, d, cache2, new, start)
  BY <1>1, <1>9, <1>11, <1>12, <1>13, <1>14, <1>15, <1>16 DEF BatchIsSound
<1> QED BY <1>17, Zenon DEF new

(* The walk of a lane is over: no form goes on with the next character.    *)
IsDead(xs, chars, d, lane) ==
  lane.pos < Len(chars) =>
    LET next == Append(lane.node, chars[lane.pos + 1])
    IN next \notin DOMAIN xs[d].trie /\ \A f \in DOMAIN xs[d].trie : ~IsPrefix(next, f)

(* The bucket of a lane whose walk is over has all that is found there.    *)
LEMMA DeadIsDone ==
  ASSUME NEW xs, AreIndices(xs), NEW chars \in Seq(DOMAIN CatsOf), NEW d \in 1 .. Len(xs),
         NEW cache, NEW l, NEW start \in 0 .. Len(chars),
         LaneIsSound(xs, chars, d, cache, l, start),
         IsDead(xs, chars, d, l)
  PROVE  cache[l.bucket] = WalkedTo(xs, chars, d, l.bucket, Len(chars))
<1> DEFINE L == Len(chars)
           b == l.bucket
           p == l.pos
<1>1. L \in Nat
  BY LenProperties
<1>2. /\ b \in 0 .. start - 1 /\ p \in b .. L /\ l.node = SubSeq(chars, b + 1, p)
      /\ cache[b] = WalkedTo(xs, chars, d, b, p)
  BY DEF LaneIsSound
<1>3. b \in Nat /\ p \in Nat /\ b <= p /\ p <= L /\ p + 1 \in Nat /\ b <= p + 1
  <2>1. start \in 0 .. L
    OBVIOUS
  <2> HIDE DEF b, p, L
  <2> QED BY <1>1, <1>2, <2>1
<1>4. ASSUME NEW x \in p + 1 .. L PROVE SubSeq(chars, b + 1, x) \notin DOMAIN xs[d].trie
  <2> DEFINE next == Append(l.node, chars[p + 1])
             f == SubSeq(chars, b + 1, x)
  <2> HIDE DEF b, p, L
  <2>1. p < L /\ x \in Nat /\ p + 1 <= x /\ x <= L
    BY <1>1, <1>3, <1>4
  <2>2. \A g \in DOMAIN xs[d].trie : ~IsPrefix(next, g)
    BY <2>1 DEF IsDead, p, L
  <2>3. next = SubSeq(chars, b + 1, p + 1)
    <3>1. Append(SubSeq(chars, b + 1, p), chars[p + 1]) = SubSeq(chars, b + 1, p + 1)
      BY <1>3, <2>1, NodeStep DEF L
    <3> QED BY <1>2, <3>1
  <2>4. IsPrefix(SubSeq(chars, b + 1, p + 1), SubSeq(chars, b + 1, x))
    <3> DEFINE q == p + 1
    <3>1. q \in Nat /\ b <= q /\ q <= x
      BY <1>3, <2>1
    <3> HIDE DEF q
    <3>2. IsPrefix(SubSeq(chars, b + 1, q), SubSeq(chars, b + 1, x))
      BY <1>3, <2>1, <3>1, NodeIsPrefix DEF L
    <3> QED BY <3>2 DEF q
  <2> HIDE DEF next, f
  <2>5. IsPrefix(next, f)
    BY <2>3, <2>4 DEF f
  <2> QED BY <2>2, <2>5 DEF f
<1>5. WalkedTo(xs, chars, d, b, L) = WalkedTo(xs, chars, d, b, p)
  <2> HIDE DEF b, p
  <2> QED BY <1>1, <1>3, <1>4, WalkedNoMore
<1> QED BY <1>2, <1>5

(* A lane whose walk is over leaves its bucket done and takes the next     *)
(* boundary, or rests when there is none.                                  *)
LEMMA RestartIsSound ==
  ASSUME NEW xs, AreIndices(xs), NEW chars \in Seq(DOMAIN CatsOf), NEW d \in 1 .. Len(xs),
         NEW cache, NEW ls, NEW start, BatchIsSound(xs, chars, d, cache, ls, start),
         NEW i \in Walking(ls), IsDead(xs, chars, d, ls[i]), start < Len(chars)
  PROVE  BatchIsSound(xs, chars, d, cache, [ls EXCEPT ![i] = LaneAt(start)], start + 1)
<1> DEFINE L == Len(chars)
           b == ls[i].bucket
           new == [ls EXCEPT ![i] = LaneAt(start)]
<1>1. /\ start \in 0 .. L /\ 0 .. L - 1 \subseteq DOMAIN cache
      /\ ls \in [0 .. Lanes - 1 -> LaneType]
      /\ Walking(ls) = 0 .. Lanes - 1
      /\ \A j \in Walking(ls) : LaneIsSound(xs, chars, d, cache, ls[j], start)
      /\ \A j, k \in Walking(ls) : j # k => ls[j].bucket # ls[k].bucket
      /\ \A c \in 0 .. start - 1 : IsHeld(ls, c) \/ cache[c] = WalkedTo(xs, chars, d, c, L)
      /\ \A c \in start .. L - 1 : cache[c] = Before(xs, chars, d, c)
  BY DEF BatchIsSound
<1>2. L \in Nat
  BY LenProperties
<1>3. start \in Nat /\ start < L /\ start + 1 \in 0 .. L
  <2>1. start \in 0 .. L /\ start < L
    BY <1>1
  <2> HIDE DEF L
  <2> QED BY <1>2, <2>1
<1>4. i \in 0 .. Lanes - 1
  BY <1>1
<1>5. cache[b] = WalkedTo(xs, chars, d, b, L) /\ b \in 0 .. start - 1
  <2>1. LaneIsSound(xs, chars, d, cache, ls[i], start)
    BY <1>1
  <2> DEFINE l == ls[i]
  <2>2. cache[l.bucket] = WalkedTo(xs, chars, d, l.bucket, L)
    <3> HIDE DEF l
    <3>1. LaneIsSound(xs, chars, d, cache, l, start) /\ IsDead(xs, chars, d, l)
      BY <2>1 DEF l
    <3>2. start \in 0 .. Len(chars)
      BY <1>1
    <3> QED BY <3>1, <3>2, DeadIsDone
  <2> QED BY <2>1, <2>2 DEF LaneIsSound
<1>6. LaneAt(start) \in LaneType /\ LaneAt(start).bucket = start /\ LaneAt(start).active
      /\ LaneAt(start).pos = start /\ LaneAt(start).node = << >>
  <2>1. << >> \in Seq(DOMAIN CatsOf)
    BY EmptySeq
  <2> QED BY <1>3, <2>1 DEF LaneAt, LaneType, Root
<1>7. /\ new \in [0 .. Lanes - 1 -> LaneType] /\ new[i] = LaneAt(start)
      /\ \A j \in 0 .. Lanes - 1 : j # i => new[j] = ls[j]
  BY <1>1, <1>4, <1>6
<1> HIDE DEF new
<1>8. Walking(new) = 0 .. Lanes - 1
  <2>1. \A j \in 0 .. Lanes - 1 : ls[j].active
    BY <1>1 DEF Walking
  <2> QED BY <1>6, <1>7, <2>1 DEF Walking
<1>9. \A j \in 0 .. Lanes - 1 : ls[j].bucket \in 0 .. start - 1 /\ ls[j].bucket # start
  <2>1. \A j \in 0 .. Lanes - 1 : ls[j].bucket \in 0 .. start - 1
    BY <1>1 DEF LaneIsSound
  <2> QED BY <1>3, <2>1
<1>10. ASSUME NEW j \in Walking(new) PROVE LaneIsSound(xs, chars, d, cache, new[j], start + 1)
  <2>1. CASE j = i
    <3>1. start \in 0 .. (start + 1) - 1 /\ start \in start .. L /\ start \in 0 .. L - 1
      <4> HIDE DEF L
      <4> QED BY <1>2, <1>3
    <3>2. SubSeq(chars, start + 1, start) = << >>
      BY <1>3, SubSeqEmpty
    <3>3. cache[start] = WalkedTo(xs, chars, d, start, start)
      <4>1. cache[start] = Before(xs, chars, d, start)
        <5>1. start \in start .. L - 1
          <6> HIDE DEF L
          <6> QED BY <1>2, <1>3
        <5> QED BY <1>1, <5>1
      <4> QED BY <1>2, <1>3, <4>1, WalkedFirst
    <3> QED BY <1>6, <1>7, <2>1, <3>1, <3>2, <3>3 DEF LaneIsSound
  <2>2. CASE j # i
    <3>1. new[j] = ls[j] /\ LaneIsSound(xs, chars, d, cache, ls[j], start)
      BY <1>1, <1>7, <1>8, <2>2
    <3>2. ls[j].bucket \in 0 .. (start + 1) - 1
      BY <1>3, <1>8, <1>9
    <3> QED BY <3>1, <3>2 DEF LaneIsSound
  <2> QED BY <2>1, <2>2
<1>11. \A j, k \in Walking(new) : j # k => new[j].bucket # new[k].bucket
  BY <1>1, <1>6, <1>7, <1>8, <1>9
<1>12. ASSUME NEW c \in 0 .. (start + 1) - 1
       PROVE  IsHeld(new, c) \/ cache[c] = WalkedTo(xs, chars, d, c, L)
  <2>1. CASE c = start
    <3>1. IsHeld(new, c)
      BY <1>4, <1>6, <1>7, <1>8, <2>1 DEF IsHeld
    <3> QED BY <3>1
  <2>2. CASE c = b
    BY <1>5, <2>2
  <2>3. CASE c # start /\ c # b
    <3>1. c \in 0 .. start - 1
      BY <1>3, <2>3
    <3>2. IsHeld(ls, c) => IsHeld(new, c)
      BY <1>1, <1>7, <1>8, <2>3 DEF IsHeld
    <3> QED BY <1>1, <3>1, <3>2
  <2> QED BY <2>1, <2>2, <2>3
<1>13. \A c \in start + 1 .. L - 1 : cache[c] = Before(xs, chars, d, c)
  <2>1. \A c \in start + 1 .. L - 1 : c \in start .. L - 1
    <3> HIDE DEF L
    <3> QED BY <1>2, <1>3
  <2> QED BY <1>1, <2>1
<1>14. BatchIsSound(xs, chars, d, cache, new, start + 1)
  BY <1>1, <1>3, <1>7, <1>8, <1>10, <1>11, <1>12, <1>13 DEF BatchIsSound
<1> QED BY <1>14, Zenon DEF new

(* A lane for which no boundary is left may rest.                          *)
LEMMA RestIsSound ==
  ASSUME NEW xs, AreIndices(xs), NEW chars \in Seq(DOMAIN CatsOf), NEW d \in 1 .. Len(xs),
         NEW cache, NEW ls, NEW start, BatchIsSound(xs, chars, d, cache, ls, start),
         NEW i \in Walking(ls), IsDead(xs, chars, d, ls[i]), start = Len(chars)
  PROVE  BatchIsSound(xs, chars, d, cache, [ls EXCEPT ![i] = NoLane], start)
<1> DEFINE L == Len(chars)
           b == ls[i].bucket
           new == [ls EXCEPT ![i] = NoLane]
<1>1. /\ start \in 0 .. L /\ 0 .. L - 1 \subseteq DOMAIN cache
      /\ ls \in [0 .. Lanes - 1 -> LaneType]
      /\ \A j \in Walking(ls) : LaneIsSound(xs, chars, d, cache, ls[j], start)
      /\ \A j, k \in Walking(ls) : j # k => ls[j].bucket # ls[k].bucket
      /\ \A c \in 0 .. start - 1 : IsHeld(ls, c) \/ cache[c] = WalkedTo(xs, chars, d, c, L)
      /\ \A c \in start .. L - 1 : cache[c] = Before(xs, chars, d, c)
  BY DEF BatchIsSound
<1>2. L \in Nat /\ start = L /\ ~(start < L)
  BY LenProperties
<1>3. i \in 0 .. Lanes - 1
  BY <1>1 DEF Walking
<1>4. cache[b] = WalkedTo(xs, chars, d, b, L)
  <2>1. LaneIsSound(xs, chars, d, cache, ls[i], start)
    BY <1>1
  <2> DEFINE l == ls[i]
  <2> HIDE DEF l
  <2>2. LaneIsSound(xs, chars, d, cache, l, start) /\ IsDead(xs, chars, d, l)
    BY <2>1 DEF l
  <2>3. start \in 0 .. Len(chars)
    BY <1>1
  <2>4. cache[l.bucket] = WalkedTo(xs, chars, d, l.bucket, L)
    BY <2>2, <2>3, DeadIsDone
  <2> QED BY <2>4 DEF l
<1>5. NoLane \in LaneType /\ ~NoLane.active
  <2>1. << >> \in Seq(DOMAIN CatsOf)
    BY EmptySeq
  <2> QED BY <2>1 DEF NoLane, LaneType, Root
<1>6. /\ new \in [0 .. Lanes - 1 -> LaneType] /\ new[i] = NoLane
      /\ \A j \in 0 .. Lanes - 1 : j # i => new[j] = ls[j]
  BY <1>1, <1>3, <1>5
<1> HIDE DEF new
<1>7. Walking(new) = Walking(ls) \ {i}
  BY <1>1, <1>5, <1>6 DEF Walking
<1>8. \A j \in Walking(new) : new[j] = ls[j] /\ j \in Walking(ls) /\ j # i
  BY <1>1, <1>6, <1>7 DEF Walking
<1>9. \A j \in Walking(new) : LaneIsSound(xs, chars, d, cache, new[j], start)
  BY <1>1, <1>8
<1>10. \A j, k \in Walking(new) : j # k => new[j].bucket # new[k].bucket
  BY <1>1, <1>8
<1>11. ASSUME NEW c \in 0 .. start - 1
       PROVE  IsHeld(new, c) \/ cache[c] = WalkedTo(xs, chars, d, c, L)
  <2>1. CASE c = b
    BY <1>4, <2>1
  <2>2. CASE c # b
    <3>1. IsHeld(ls, c) => IsHeld(new, c)
      <4> SUFFICES ASSUME NEW j \in Walking(ls), ls[j].bucket = c PROVE IsHeld(new, c)
        BY DEF IsHeld
      <4>1. j # i /\ j \in Walking(new)
        BY <1>7, <2>2
      <4> QED BY <1>8, <4>1 DEF IsHeld
    <3> QED BY <1>1, <3>1
  <2> QED BY <2>1, <2>2
<1>12. BatchIsSound(xs, chars, d, cache, new, start)
  BY <1>1, <1>2, <1>6, <1>9, <1>10, <1>11 DEF BatchIsSound
<1> QED BY <1>12, Zenon DEF new

(* What is computed of a sentence belongs to its characters.               *)
LEMMA TextFacts ==
  ASSUME NEW chars \in Texts
  PROVE  /\ TextOf(chars).chars = chars /\ chars \in Seq(DOMAIN CatsOf)
         /\ Len(chars) \in Nat \ {0} /\ Length(TextOf(chars)) = Len(chars)
<1>1. chars \in Seq(DOMAIN CatsOf) /\ Len(chars) \in 1 .. MaxLen
  BY TextsAssumption
<1>2. TextOf(chars).chars = chars
  BY DEF TextOf
<1>3. Len(chars) \in Nat \ {0}
  BY <1>1, LenProperties
<1> QED BY <1>1, <1>2, <1>3 DEF Length

(* Where every bucket is done, it holds what the lookup finds.             *)
LEMMA DoneIsLookup ==
  ASSUME NEW xs, AreIndices(xs), NEW chars, Len(chars) \in Nat, NEW cache,
         \A b \in 0 .. Len(chars) - 1 : cache[b] = Before(xs, chars, 0, b)
  PROVE  \A b \in 0 .. Len(chars) - 1 : cache[b] = Lookup(xs, chars, b)
BY BeforeAll

(* A dictionary is done when all lanes rest.                               *)
LEMMA RestingIsDone ==
  ASSUME NEW xs, AreIndices(xs), NEW chars, Len(chars) \in Nat, NEW d \in 1 .. Len(xs),
         NEW cache, NEW ls, NEW start, BatchIsSound(xs, chars, d, cache, ls, start),
         Walking(ls) = {}
  PROVE  \A b \in 0 .. Len(chars) - 1 : cache[b] = Before(xs, chars, d - 1, b)
<1>1. start \in 0 .. Len(chars)
  BY DEF BatchIsSound
<1>2. start = Len(chars)
  <2>1. Lanes \in Nat \ {0}
    BY LanesAssumption
  <2>2. 0 .. Lanes - 1 # {}
    <3>1. 0 \in 0 .. Lanes - 1
      BY <2>1
    <3> QED BY <3>1
  <2>3. ~(start < Len(chars))
    BY <2>2 DEF BatchIsSound
  <2> QED BY <1>1, <2>3
<1>3. ASSUME NEW b \in 0 .. Len(chars) - 1 PROVE cache[b] = Before(xs, chars, d - 1, b)
  <2>1. ~IsHeld(ls, b)
    BY DEF IsHeld
  <2>2. cache[b] = WalkedTo(xs, chars, d, b, Len(chars))
    BY <1>2, <2>1 DEF BatchIsSound
  <2>3. b \in Nat
    OBVIOUS
  <2>4. Before(xs, chars, d - 1, b) = WalkedTo(xs, chars, d, b, Len(chars))
    BY <2>3, BeforeStep
  <2> QED BY <2>2, <2>4
<1> QED BY <1>3

(* Nothing is looked up before the first sentence.                         *)
LEMMA InitBatchInv == BInit => BatchInv
BY DEF BInit, BatchInv, BatchReproducesLookup

(* A sentence begins with empty buckets, whatever is left of an earlier    *)
(* one.                                                                    *)
LEMMA StartBatchInv ==
  ASSUME BatchInv, NEW chars \in Texts, StartSentence(chars)
  PROVE  BatchInv'
<1>1. setup' = setup /\ setup \in Setups /\ text' = TextOf(chars)
  BY DEF StartSentence, BatchInv
<1>2. /\ text'.chars = chars /\ text' = TextOf(text'.chars) /\ text'.chars \in Texts
      /\ Len(chars) \in Nat \ {0} /\ chars \in Seq(DOMAIN CatsOf)
  BY <1>1, TextFacts
<1>3. Indices' = Indices
  BY <1>1 DEF Indices
<1>4. AreIndices(Indices) /\ Len(Indices) = Len(setup.dictionaries)
  BY <1>1, IndicesFacts
<1>5. CASE setup.pipelined
  <2>1. /\ match_cache' = ClearedCache(match_cache, Len(chars))
        /\ lanes' = FirstLanes(Len(chars)) /\ next_start' = Min({Lanes, Len(chars)})
        /\ dictionary' = Len(Indices) /\ stage' = "batch"
    BY <1>4, <1>5 DEF StartSentence
  <2>2. Len(Indices) \in 1 .. Len(Indices)
    BY <1>4 DEF AreIndices
  <2> DEFINE cache == match_cache'
  <2>3. 0 .. Len(chars) - 1 \subseteq DOMAIN cache
        /\ \A b \in 0 .. Len(chars) - 1 : cache[b] = << >>
    BY <2>1 DEF ClearedCache
  <2>4. \A b \in 0 .. Len(chars) - 1 : cache[b] = Before(Indices, chars, Len(Indices), b)
    <3>1. \A b \in 0 .. Len(chars) - 1 : b \in Nat
      BY <1>2
    <3> HIDE DEF cache
    <3> QED BY <1>2, <1>4, <2>3, <3>1, BeforeAny
  <2>5. BatchIsSound(Indices, chars, Len(Indices), cache, FirstLanes(Len(chars)), Min({Lanes, Len(chars)}))
    <3> DEFINE xs == Indices
               n == Len(Indices)
    <3>1. AreIndices(xs) /\ n \in 1 .. Len(xs) /\ \A b \in 0 .. Len(chars) - 1 : cache[b] = Before(xs, chars, n, b)
      BY <1>4, <2>2, <2>4
    <3> HIDE DEF xs, n, cache
    <3>2. BatchIsSound(xs, chars, n, cache, FirstLanes(Len(chars)), Min({Lanes, Len(chars)}))
      BY <1>2, <2>3, <3>1, FirstLanesAreSound
    <3> QED BY <3>2 DEF xs, n
  <2>6. BatchIsSound(Indices, text.chars, dictionary, match_cache, lanes, next_start)'
    BY <1>2, <1>3, <2>1, <2>5
  <2> QED BY <1>1, <1>2, <2>1, <2>6 DEF BatchInv, BatchReproducesLookup
<1>6. CASE ~setup.pipelined
  <2>1. stage' = "boundary"
    BY <1>6 DEF StartSentence
  <2> QED BY <1>1, <1>2, <1>6, <2>1 DEF BatchInv, BatchReproducesLookup
<1> QED BY <1>5, <1>6

(* A step of any lane keeps the buckets sound.                             *)
LEMMA LaneBatchInv ==
  ASSUME BatchInv, NEW i \in DOMAIN lanes, LaneStep(i)
  PROVE  BatchInv'
<1> DEFINE xs == Indices
           chars == text.chars
           d == dictionary
           lane == lanes[i]
           next == Append(lane.node, chars[lane.pos + 1])
           step == IF lane.pos < Length(text)
                   THEN StepOnce(Indices[dictionary].trie, lane.node, text.chars[lane.pos + 1])
                   ELSE [kind |-> "Dead"]
<1>1. /\ setup' = setup /\ text' = text /\ dictionary' = dictionary
      /\ stage = "batch" /\ stage' = "batch" /\ i \in Live
  BY DEF LaneStep, TakesTurn
<1>2. /\ setup \in Setups /\ text = TextOf(chars) /\ chars \in Texts
      /\ BatchIsSound(xs, chars, d, match_cache, lanes, next_start)
  BY <1>1 DEF BatchInv
<1>3. Length(text) = Len(chars) /\ chars \in Seq(DOMAIN CatsOf)
  BY <1>2, TextFacts DEF Length
<1>4. AreIndices(xs)
  BY <1>2, IndicesFacts
<1>5. d \in 1 .. Len(xs) /\ next_start \in 0 .. Len(chars)
  BY <1>2 DEF BatchIsSound
<1>6. i \in Walking(lanes)
  BY <1>1 DEF Live, Walking
<1>7. /\ match_cache' =
           IF step.kind = "Match"
           THEN [match_cache EXCEPT ![lane.bucket] =
                   @ \o Expand(Indices[dictionary], dictionary - 1, step.value, lane.pos + 1)]
           ELSE match_cache
      /\ \/ /\ step.kind # "Dead"
            /\ lanes' = [lanes EXCEPT ![i].node = step.node, ![i].pos = @ + 1]
            /\ next_start' = next_start
         \/ /\ step.kind = "Dead" /\ next_start < Length(text)
            /\ lanes' = [lanes EXCEPT ![i] = LaneAt(next_start)]
            /\ next_start' = next_start + 1
         \/ /\ step.kind = "Dead" /\ next_start = Length(text)
            /\ lanes' = [lanes EXCEPT ![i] = NoLane]
            /\ next_start' = next_start
  BY DEF LaneStep, Restarted
<1>8. \/ /\ lane.pos < Len(chars) /\ next \in DOMAIN xs[d].trie
         /\ step = [kind |-> "Match", node |-> next, value |-> xs[d].trie[next]]
      \/ /\ lane.pos < Len(chars) /\ next \notin DOMAIN xs[d].trie
         /\ step = [kind |-> "Continue", node |-> next]
      \/ IsDead(xs, chars, d, lane) /\ step = [kind |-> "Dead"]
  BY <1>3, Zenon DEF StepOnce, IsDead
<1>9. step.kind = "Dead" => IsDead(xs, chars, d, lane) /\ match_cache' = match_cache
  <2> HIDE DEF step, lane, next, xs, d, chars
  <2> QED BY <1>7, <1>8
<1>10. step.kind # "Dead" =>
         /\ Advances(lane, chars, next)
         /\ Records(xs, d, lane, next, match_cache, match_cache')
         /\ step.node = next
  <2> SUFFICES ASSUME step.kind # "Dead"
               PROVE  /\ Advances(lane, chars, next)
                      /\ Records(xs, d, lane, next, match_cache, match_cache')
                      /\ step.node = next
    OBVIOUS
  <2>1. lane.pos < Len(chars) /\ step.node = next
        /\ (step.kind = "Match" <=> next \in DOMAIN xs[d].trie)
        /\ (step.kind = "Match" => step.value = xs[d].trie[next])
    <3> HIDE DEF step, lane, next, xs, d, chars
    <3> QED BY <1>8
  <2>2. Advances(lane, chars, next)
    BY <2>1 DEF Advances
  <2> HIDE DEF step, lane, next
  <2>3. Records(xs, d, lane, next, match_cache, match_cache')
    BY <1>7, <2>1 DEF Records
  <2> QED BY <2>1, <2>2, <2>3
<1>11. BatchIsSound(xs, chars, d, match_cache', lanes', next_start')
  <2> DEFINE cache == match_cache
             cache2 == match_cache'
             ls == lanes
             start == next_start
  <2>1. /\ AreIndices(xs) /\ chars \in Seq(DOMAIN CatsOf) /\ d \in 1 .. Len(xs)
        /\ BatchIsSound(xs, chars, d, cache, ls, start) /\ i \in Walking(ls)
    BY <1>2, <1>3, <1>4, <1>5, <1>6
  <2>2. CASE step.kind # "Dead"
    <3>1. lanes' = [ls EXCEPT ![i].node = next, ![i].pos = @ + 1] /\ next_start' = start
      <4> HIDE DEF step, next
      <4> QED BY <1>7, <1>10, <2>2
    <3>2. Advances(ls[i], chars, next) /\ Records(xs, d, ls[i], next, cache, cache2)
      BY <1>10, <2>2
    <3> HIDE DEF step, next, xs, chars, d, cache, cache2, ls, start
    <3>3. BatchIsSound(xs, chars, d, cache2, [ls EXCEPT ![i].node = next, ![i].pos = @ + 1], start)
      BY <2>1, <3>2, AdvanceIsSound
    <3>4. BatchIsSound(xs, chars, d, cache2, lanes', next_start')
      BY <3>1, <3>3
    <3> QED BY <3>4 DEF cache2
  <2>3. CASE step.kind = "Dead" /\ next_start < Length(text)
    <3>1. lanes' = [ls EXCEPT ![i] = LaneAt(start)] /\ next_start' = start + 1 /\ match_cache' = cache
      <4> HIDE DEF step
      <4>1. ~(next_start = Length(text))
        <5>1. Len(chars) \in Nat
          BY <1>3, LenProperties
        <5> QED BY <1>3, <1>5, <2>3, <5>1
      <4> QED BY <1>7, <1>9, <2>3, <4>1
    <3>2. IsDead(xs, chars, d, ls[i]) /\ start < Len(chars)
      BY <1>3, <1>9, <2>3
    <3> HIDE DEF step, next, xs, chars, d, cache, ls, start
    <3>3. BatchIsSound(xs, chars, d, cache, [ls EXCEPT ![i] = LaneAt(start)], start + 1)
      BY <2>1, <3>2, RestartIsSound
    <3> QED BY <3>1, <3>3
  <2>4. CASE step.kind = "Dead" /\ ~(next_start < Length(text))
    <3>1. next_start = Length(text)
      <4> HIDE DEF step
      <4> QED BY <1>7, <2>4
    <3>2. lanes' = [ls EXCEPT ![i] = NoLane] /\ next_start' = start /\ match_cache' = cache
      <4> HIDE DEF step
      <4> QED BY <1>7, <1>9, <2>4, <3>1
    <3>3. IsDead(xs, chars, d, ls[i]) /\ start = Len(chars)
      BY <1>3, <1>9, <2>4, <3>1
    <3> HIDE DEF step, next, xs, chars, d, cache, ls, start
    <3>4. BatchIsSound(xs, chars, d, cache, [ls EXCEPT ![i] = NoLane], start)
      BY <2>1, <3>3, RestIsSound
    <3> QED BY <3>2, <3>4
  <2> QED BY <2>2, <2>3, <2>4
<1>12. Indices' = Indices /\ text'.chars = chars
  BY <1>1 DEF Indices
<1>13. BatchIsSound(Indices, text.chars, dictionary, match_cache, lanes, next_start)'
  BY <1>1, <1>11, <1>12
<1>14. text' = TextOf(text'.chars) /\ text'.chars \in Texts
  BY <1>1, <1>2
<1> QED BY <1>1, <1>2, <1>13, <1>14 DEF BatchInv, BatchReproducesLookup

(* When all lanes rest the walks of one dictionary are over.               *)
LEMMA DictionaryBatchInv == ASSUME BatchInv, NextDictionary PROVE BatchInv'
<1> DEFINE xs == Indices
           chars == text.chars
           d == dictionary
<1>1. /\ setup' = setup /\ text' = text /\ match_cache' = match_cache
      /\ stage = "batch" /\ Live = {} /\ dictionary' = d - 1
  BY DEF NextDictionary
<1>2. /\ setup \in Setups /\ text = TextOf(chars) /\ chars \in Texts
      /\ BatchIsSound(xs, chars, d, match_cache, lanes, next_start)
  BY <1>1 DEF BatchInv
<1>3. Length(text) = Len(chars) /\ Len(chars) \in Nat
  BY <1>2, TextFacts DEF Length
<1>4. AreIndices(xs) /\ d \in 1 .. Len(xs) /\ 0 .. Len(chars) - 1 \subseteq DOMAIN match_cache
  BY <1>2, IndicesFacts DEF BatchIsSound
<1>5. Walking(lanes) = {}
  BY <1>1 DEF Live, Walking
<1>6. \A b \in 0 .. Len(chars) - 1 : match_cache[b] = Before(xs, chars, d - 1, b)
  <2> DEFINE ls == lanes
             cache == match_cache
             start == next_start
  <2>1. BatchIsSound(xs, chars, d, cache, ls, start) /\ Walking(ls) = {}
    BY <1>2, <1>5
  <2> HIDE DEF xs, chars, d, cache, ls, start
  <2>2. \A b \in 0 .. Len(chars) - 1 : cache[b] = Before(xs, chars, d - 1, b)
    BY <1>3, <1>4, <2>1, RestingIsDone
  <2> QED BY <2>2 DEF cache
<1>7. Indices' = Indices /\ text'.chars = chars
  BY <1>1 DEF Indices
<1>8. setup' \in Setups /\ text' = TextOf(text'.chars) /\ text'.chars \in Texts
  BY <1>1, <1>2
<1>9. CASE d > 1
  <2>1. /\ lanes' = FirstLanes(Len(chars)) /\ next_start' = Min({Lanes, Len(chars)})
        /\ stage' = "batch"
    BY <1>1, <1>3, <1>9 DEF NextDictionary
  <2>2. BatchIsSound(xs, chars, d - 1, match_cache, FirstLanes(Len(chars)), Min({Lanes, Len(chars)}))
    <3> DEFINE c == d - 1
               cache == match_cache
    <3>1. c \in 1 .. Len(xs)
      <4> HIDE DEF xs
      <4> QED BY <1>4, <1>9 DEF AreIndices
    <3>2. \A b \in 0 .. Len(chars) - 1 : cache[b] = Before(xs, chars, c, b)
      BY <1>6
    <3> HIDE DEF xs, chars, c, cache
    <3>3. BatchIsSound(xs, chars, c, cache, FirstLanes(Len(chars)), Min({Lanes, Len(chars)}))
      BY <1>3, <1>4, <3>1, <3>2, FirstLanesAreSound DEF cache
    <3> QED BY <3>3 DEF c, cache
  <2>3. BatchIsSound(Indices, text.chars, dictionary, match_cache, lanes, next_start)'
    BY <1>1, <1>7, <2>1, <2>2
  <2> QED BY <1>8, <2>1, <2>3 DEF BatchInv, BatchReproducesLookup
<1>10. CASE ~(d > 1)
  <2>1. stage' = "boundary"
    BY <1>10 DEF NextDictionary
  <2>2. d - 1 = 0
    <3> HIDE DEF xs
    <3> QED BY <1>4, <1>10 DEF AreIndices
  <2>3. \A b \in 0 .. Len(chars) - 1 : match_cache[b] = Lookup(xs, chars, b)
    <3> DEFINE cache == match_cache
    <3>1. \A b \in 0 .. Len(chars) - 1 : cache[b] = Before(xs, chars, 0, b)
      BY <1>6, <2>2
    <3> HIDE DEF xs, chars, cache
    <3>2. \A b \in 0 .. Len(chars) - 1 : cache[b] = Lookup(xs, chars, b)
      BY <1>3, <1>4, <3>1, DoneIsLookup
    <3> QED BY <3>2 DEF cache
  <2>4. \A b \in 0 .. Length(text') - 1 : match_cache'[b] = Lookup(Indices', text'.chars, b)
    BY <1>1, <1>3, <1>7, <2>3
  <2>5. BatchReproducesLookup'
    BY <2>4 DEF BatchReproducesLookup
  <2> QED BY <1>8, <2>1, <2>5 DEF BatchInv
<1> QED BY <1>9, <1>10

(* The steps that leave the cache and the text alone.                      *)
LEMMA OtherBatchInv ==
  ASSUME BatchInv, setup' = setup, text' = text, match_cache' = match_cache,
         \/ stage' = "idle"
         \/ stage' \notin {"idle", "batch"} /\ stage \notin {"idle", "batch"}
         \/ stage' = stage /\ UNCHANGED <<dictionary, lanes, next_start>>
  PROVE  BatchInv'
<1>1. Indices' = Indices
  BY DEF Indices
<1>2. CASE stage' = "idle"
  BY <1>2 DEF BatchInv, BatchReproducesLookup
<1>3. CASE stage' \notin {"idle", "batch"} /\ stage \notin {"idle", "batch"}
  BY <1>1, <1>3 DEF BatchInv, BatchReproducesLookup
<1>4. CASE stage' = stage /\ UNCHANGED <<dictionary, lanes, next_start>>
  <2>1. stage' = "batch" =>
          BatchIsSound(Indices, text.chars, dictionary, match_cache, lanes, next_start)'
    BY <1>1, <1>4 DEF BatchInv
  <2> QED BY <1>1, <1>4, <2>1 DEF BatchInv, BatchReproducesLookup
<1> QED BY <1>2, <1>3, <1>4

(* Every step of the builder keeps the buckets sound.                      *)
LEMMA NextBatchInv == BatchInv /\ [BNext]_<<vars, bvars>> => BatchInv'
<1> SUFFICES ASSUME BatchInv, [BNext]_<<vars, bvars>> PROVE BatchInv'
  OBVIOUS
<1>1. CASE UNCHANGED <<vars, bvars>>
  BY <1>1, OtherBatchInv DEF bvars
<1>2. CASE \E chars \in Texts : StartSentence(chars)
  BY <1>2, StartBatchInv
<1>3. CASE \E i \in DOMAIN lanes : LaneStep(i)
  BY <1>3, LaneBatchInv
<1>4. CASE NextDictionary
  BY <1>4, DictionaryBatchInv
<1>5. CASE Skip
  BY <1>5, OtherBatchInv DEF Skip, bvars
<1>6. CASE TakeMatches
  BY <1>6, OtherBatchInv DEF TakeMatches
<1>7. CASE InsertWord
  BY <1>7, OtherBatchInv DEF InsertWord
<1>8. CASE AskProvider
  BY <1>8, OtherBatchInv DEF AskProvider
<1>9. CASE AskLastProvider
  BY <1>9, OtherBatchInv DEF AskLastProvider
<1>10. CASE FinishBoundary
  BY <1>10, OtherBatchInv DEF FinishBoundary, IsFilled
<1>11. CASE Disconnected
  BY <1>11, OtherBatchInv DEF Disconnected
<1>12. CASE Connect
  BY <1>12, OtherBatchInv DEF Connect
<1>13. CASE FillTopPath
  BY <1>13, OtherBatchInv DEF FillTopPath, bvars
<1> QED BY <1>1, <1>2, <1>3, <1>4, <1>5, <1>6, <1>7, <1>8, <1>9, <1>10, <1>11, <1>12, <1>13
        DEF BNext

(* At every moment of a batch (lookup_batch) each boundary that has been   *)
(* given out is held by one lane or done, and its bucket has what the      *)
(* dictionaries done and the walk so far have found.                       *)
THEOREM BatchInvHolds == BSpec => []BatchInv
<1>1. BInit => BatchInv
  BY InitBatchInv
<1>2. BatchInv /\ [BNext]_<<vars, bvars>> => BatchInv'
  BY NextBatchInv
<1> QED BY <1>1, <1>2, PTL DEF BSpec

(* lookup_batch: grouped by boundary, what the lanes find is what the plain*)
(* lookup finds, in the same order.                                        *)
THEOREM BatchStaysLookup == BSpec => []BatchReproducesLookup
<1>1. BatchInv => BatchReproducesLookup
  BY DEF BatchInv
<1> QED BY <1>1, BatchInvHolds, PTL

-----------------------------------------------------------------------------
(***************************************************************************)
(* What the builder inserts.  First, the text: the ends of words that      *)
(* providers give are behind the boundary and within the text.             *)
(***************************************************************************)
LEMMA MaxOfSome ==
  ASSUME NEW a \in Int, NEW b \in Int, NEW S, S \subseteq a .. b, S # {}
  PROVE  Max(S) \in S /\ \A y \in S : y <= Max(S)
<1> DEFINE T == {n \in Nat : b - n \in S}
           IsMax(x) == x \in S /\ \A y \in S : x >= y
<1>1. T # {}
  <2>1. PICK y \in S : TRUE
    OBVIOUS
  <2>2. y \in a .. b
    OBVIOUS
  <2>3. b - y \in Nat /\ b - (b - y) = y
    BY <2>2
  <2> QED BY <2>1, <2>3
<1>2. PICK n \in T : \A m \in T : n <= m
  <2>1. T \subseteq Nat
    OBVIOUS
  <2> HIDE DEF T
  <2> QED BY <1>1, <2>1, LeastNatural
<1>3. \E x : IsMax(x)
  <2>1. b - n \in S /\ n \in Nat
    OBVIOUS
  <2>2. ASSUME NEW y \in S PROVE b - n >= y
    <3>1. y \in a .. b
      OBVIOUS
    <3>2. b - y \in Nat /\ b - (b - y) = y /\ y \in Int
      BY <3>1
    <3>3. b - y \in T
      BY <3>2
    <3> QED BY <1>2, <2>1, <3>2, <3>3
  <2>3. IsMax(b - n)
    BY <2>1, <2>2
  <2> HIDE DEF IsMax
  <2> QED BY <2>3
<1>4. Max(S) = CHOOSE x \in S : \A y \in S : x >= y
  BY DEF Max
<1>5. IsMax(Max(S))
  BY <1>3, <1>4
<1>6. \A y \in S : y \in Int
  OBVIOUS
<1> HIDE DEF T
<1> QED BY <1>5, <1>6

(* The least of some numbers between two bounds.                           *)
LEMMA MinOfSome ==
  ASSUME NEW a \in Int, NEW b \in Int, NEW S, S \subseteq a .. b, S # {}
  PROVE  Min(S) \in S /\ \A y \in S : Min(S) <= y
<1> DEFINE T == {n \in Nat : a + n \in S}
           IsMin(x) == x \in S /\ \A y \in S : x <= y
<1>1. T # {}
  <2>1. PICK y \in S : TRUE
    OBVIOUS
  <2>2. y \in a .. b
    OBVIOUS
  <2>3. y - a \in Nat /\ a + (y - a) = y
    BY <2>2
  <2> QED BY <2>1, <2>3
<1>2. PICK n \in T : \A m \in T : n <= m
  <2>1. T \subseteq Nat
    OBVIOUS
  <2> HIDE DEF T
  <2> QED BY <1>1, <2>1, LeastNatural
<1>3. \E x : IsMin(x)
  <2>1. a + n \in S /\ n \in Nat
    OBVIOUS
  <2>2. ASSUME NEW y \in S PROVE a + n <= y
    <3>1. y \in a .. b
      OBVIOUS
    <3>2. y - a \in Nat /\ a + (y - a) = y /\ y \in Int
      BY <3>1
    <3>3. y - a \in T
      BY <3>2
    <3> QED BY <1>2, <2>1, <3>2, <3>3
  <2>3. IsMin(a + n)
    BY <2>1, <2>2
  <2> HIDE DEF IsMin
  <2> QED BY <2>3
<1>4. Min(S) = CHOOSE x \in S : \A y \in S : x <= y
  BY DEF Min
<1>5. IsMin(Min(S))
  BY <1>3, <1>4
<1> HIDE DEF T
<1> QED BY <1>5

(* A run of characters goes on for one character at least and not behind   *)
(* the text.                                                               *)
LEMMA RunBounds ==
  ASSUME NEW cats, Len(cats) \in Nat
  PROVE  \A i \in 1 .. Len(cats) : CategoryContinuity(cats)[i] \in 1 .. Len(cats) - i + 1
<1> DEFINE n == Len(cats)
           longest(i) == Max({1} \cup {l \in 2 .. n - i + 1 : Common(cats, i, i + l - 1) # {}})
           Rec(f) == f = [i \in 1 .. n |->
                            IF i > 1 /\ f[i - 1] > 1 THEN f[i - 1] - 1 ELSE longest(i)]
           run == CHOOSE f : Rec(f)
           next == [p \in (1 .. n) \X Nat |->
                      IF p[1] > 1 /\ p[2] > 1 THEN p[2] - 1 ELSE longest(p[1])]
<1>1. CategoryContinuity(cats) = run
  BY Zenon DEF CategoryContinuity
<1>2. ASSUME NEW i \in 1 .. n PROVE longest(i) \in 1 .. n - i + 1 /\ longest(i) \in Nat
  <2> DEFINE S == {1} \cup {l \in 2 .. n - i + 1 : Common(cats, i, i + l - 1) # {}}
             m == n - i + 1
  <2>1. S \subseteq 1 .. m /\ S # {} /\ m \in Int
    OBVIOUS
  <2>2. longest(i) = Max(S) /\ m = n - i + 1
    BY Zenon
  <2> HIDE DEF S, m, longest, n
  <2>3. Max(S) \in 1 .. m
    <3>1. 1 \in Int
      OBVIOUS
    <3>2. Max(S) \in S
      BY <2>1, <3>1, MaxOfSome, Zenon
    <3> QED BY <2>1, <3>2
  <2>4. Max(S) \in Nat
    BY <2>3
  <2> QED BY <2>2, <2>3, <2>4
<1> HIDE DEF longest
<1> SUFFICES ASSUME n # 0 PROVE \A i \in 1 .. n : run[i] \in 1 .. n - i + 1
  BY <1>1
<1>3. n \in Nat /\ 1 \in Nat /\ 1 <= n /\ 1 \in 1 .. n
  OBVIOUS
<1>4. next \in [(1 .. n) \X Nat -> Nat]
  <2>1. ASSUME NEW p \in (1 .. n) \X Nat
        PROVE  (IF p[1] > 1 /\ p[2] > 1 THEN p[2] - 1 ELSE longest(p[1])) \in Nat
    <3>1. p[1] \in 1 .. n /\ p[2] \in Nat
      OBVIOUS
    <3>2. longest(p[1]) \in Nat
      BY <1>2, <3>1
    <3> QED BY <3>1, <3>2
  <2> QED BY <2>1
<1>5. \A i \in 1 .. n, x \in Nat :
        next[<<i, x>>] = IF i > 1 /\ x > 1 THEN x - 1 ELSE longest(i)
  <2> SUFFICES ASSUME NEW i \in 1 .. n, NEW x \in Nat
               PROVE  next[<<i, x>>] = IF i > 1 /\ x > 1 THEN x - 1 ELSE longest(i)
    OBVIOUS
  <2>1. <<i, x>> \in (1 .. n) \X Nat /\ <<i, x>>[1] = i /\ <<i, x>>[2] = x
    OBVIOUS
  <2> HIDE DEF n
  <2> QED BY <2>1
<1> HIDE DEF next
<1>6. PICK f : IsStepwise(f, 1, n, Nat, longest(1), next)
  <2>1. longest(1) \in Nat
    BY <1>2, <1>3
  <2> HIDE DEF n
  <2> QED BY <1>3, <1>4, <2>1, StepwiseExists
<1>7. Rec(f)
  <2> DEFINE body(i) == IF i > 1 /\ f[i - 1] > 1 THEN f[i - 1] - 1 ELSE longest(i)
  <2>1. \A i \in 1 .. n : i # 1 => i - 1 \in 1 .. n
    BY <1>3
  <2>2. \A i \in 1 .. n : f[i] = body(i)
    <3>1. \A i \in 1 .. n : i # 1 => f[i - 1] \in Nat
      BY <1>6, <2>1 DEF IsStepwise
    <3>2. \A i \in 1 .. n : f[i] = IF i = 1 THEN longest(1) ELSE next[<<i, f[i - 1]>>]
      BY <1>6 DEF IsStepwise
    <3>3. \A i \in 1 .. n : i # 1 => next[<<i, f[i - 1]>>] = body(i)
      BY <1>5, <3>1
    <3>4. body(1) = longest(1)
      OBVIOUS
    <3> HIDE DEF body
    <3> QED BY <3>2, <3>3, <3>4
  <2>3. f = [i \in 1 .. n |-> body(i)]
    <3> HIDE DEF body
    <3> QED BY <1>6, <2>2 DEF IsStepwise
  <2> QED BY <2>3
<1>8. Rec(run)
  <2> HIDE DEF Rec
  <2> QED BY <1>7, Zenon
<1> HIDE DEF run
<1>9. \A i \in 1 .. n : run[i] = IF i > 1 /\ run[i - 1] > 1 THEN run[i - 1] - 1 ELSE longest(i)
  BY <1>8
<1> DEFINE Good == {i \in 1 .. n : run[i] \in 1 .. n - i + 1}
<1>10. 1 \in Good
  <2>1. run[1] = longest(1)
    BY <1>3, <1>9
  <2> QED BY <1>2, <1>3, <2>1
<1>11. ASSUME NEW i \in 1 + 1 .. n, i - 1 \in Good PROVE i \in Good
  <2>1. i \in 1 .. n /\ i > 1 /\ i \in Nat
    BY <1>3
  <2>2. run[i - 1] \in 1 .. n - (i - 1) + 1
    BY <1>11
  <2>3. longest(i) \in 1 .. n - i + 1
    BY <1>2, <2>1
  <2>4. run[i] = IF run[i - 1] > 1 THEN run[i - 1] - 1 ELSE longest(i)
    BY <1>9, <2>1
  <2>5. run[i] \in 1 .. n - i + 1
    <3> HIDE DEF n
    <3> QED BY <1>3, <2>1, <2>2, <2>3, <2>4
  <2> QED BY <2>1, <2>5
<1>12. \A i \in 1 .. n : i \in Good
  <2> HIDE DEF Good, n
  <2> QED BY <1>3, <1>10, <1>11, ByStep
<1> QED BY <1>12

(* A boundary o of a text of the input, and the words that may begin there.*)
IsPlace(chars, o) == chars \in Texts /\ o \in 0 .. Len(chars) - 1

Offers(t, o) == [end : o + 1 .. Length(t), word : Words]

(* A place in a text, and the run that begins there.                       *)
LEMMA PlaceFacts ==
  ASSUME NEW chars, NEW o, IsPlace(chars, o)
  PROVE  /\ Length(TextOf(chars)) = Len(chars) /\ TextOf(chars).chars = chars
         /\ Len(chars) \in Nat /\ o \in Nat /\ o < Len(chars) /\ o + 1 \in 1 .. Len(chars)
         /\ TextOf(chars).run[o + 1] \in 1 .. Len(chars) - o
         /\ TextOf(chars).cats[o + 1] \subseteq ToSet(CatOrder)
<1> DEFINE cats == [i \in DOMAIN chars |-> CatsOf[chars[i]]]
           n == Len(chars)
<1>1. chars \in Texts /\ o \in 0 .. n - 1
  BY DEF IsPlace
<1>2. /\ Length(TextOf(chars)) = n /\ TextOf(chars).chars = chars
      /\ n \in Nat /\ chars \in Seq(DOMAIN CatsOf)
  BY <1>1, TextFacts
<1>3. o \in Nat /\ o < n /\ o + 1 \in 1 .. n /\ n - (o + 1) + 1 = n - o
  BY <1>1, <1>2
<1>4. TextOf(chars).run = CategoryContinuity(cats) /\ TextOf(chars).cats = cats
  BY DEF TextOf
<1>5. DOMAIN chars = 1 .. n /\ chars[o + 1] \in DOMAIN CatsOf
  BY <1>2, <1>3, LenProperties, ElementOfSeq
<1>6. Len(cats) = n /\ cats[o + 1] = CatsOf[chars[o + 1]]
  <2> DEFINE V == {CatsOf[chars[i]] : i \in 1 .. n}
  <2>1. cats \in [1 .. n -> V]
    BY <1>5
  <2>2. cats[o + 1] = CatsOf[chars[o + 1]]
    BY <1>3, <1>5
  <2> HIDE DEF V, cats, n
  <2>3. cats \in Seq(V)
    BY <1>2, <2>1, SeqDef
  <2> QED BY <1>2, <2>1, <2>2, <2>3, LenProperties
<1>7. cats[o + 1] \subseteq ToSet(CatOrder)
  BY <1>5, <1>6, CategoriesAssumption
<1>8. CategoryContinuity(cats)[o + 1] \in 1 .. n - o
  <2> HIDE DEF cats, n
  <2>1. CategoryContinuity(cats)[o + 1] \in 1 .. Len(cats) - (o + 1) + 1
    BY <1>2, <1>3, <1>6, RunBounds
  <2> QED BY <1>3, <1>6, <2>1
<1> HIDE DEF cats
<1> QED BY <1>2, <1>3, <1>4, <1>7, <1>8

(* A candidate of a word is not empty and ends in the text.                *)
LEMMA CandidateBounds ==
  ASSUME NEW chars, NEW o, IsPlace(chars, o)
  PROVE  o + WordCandidateLength(TextOf(chars), o) \in o + 1 .. Len(chars)
<1> DEFINE t == TextOf(chars)
           n == Len(chars)
           S == {n} \cup {i \in o + 1 .. n - 1 : CanBow(t, i)}
<1>1. Length(t) = n /\ n \in Nat /\ o \in Nat /\ o < n
  BY PlaceFacts
<1>2. WordCandidateLength(t, o) = Min(S) - o
  BY <1>1 DEF WordCandidateLength
<1>3. S \subseteq o + 1 .. n /\ S # {} /\ o + 1 \in Int /\ n \in Int
  BY <1>1
<1> HIDE DEF S, t, n
<1>4. Min(S) \in o + 1 .. n
  <2>1. Min(S) \in S
    BY <1>3, MinOfSome, Zenon
  <2> QED BY <1>3, <2>1
<1> QED BY <1>1, <1>2, <1>4 DEF t, n

(* So do the first characters of a run.                                    *)
LEMMA DistanceBounds ==
  ASSUME NEW chars, NEW o, IsPlace(chars, o), NEW i \in Nat \ {0}
  PROVE  CharDistance(TextOf(chars), o, i) \in 1 .. Len(chars) - o
<1> DEFINE n == Len(chars)
<1>1. Length(TextOf(chars)) = n /\ n \in Nat /\ o \in Nat /\ o < n
  BY PlaceFacts
<1>2. Min({o + i, n}) = IF o + i <= n THEN o + i ELSE n
  <2>1. o + i \in Int /\ n \in Int
    BY <1>1
  <2> HIDE DEF n
  <2> QED BY <2>1, MinOfTwo
<1>3. CharDistance(TextOf(chars), o, i) = Min({o + i, n}) - o
  BY <1>1 DEF CharDistance
<1> HIDE DEF n
<1> QED BY <1>1, <1>2, <1>3 DEF n

(* A match ends in the text.                                               *)
LEMMA MatchBounds ==
  ASSUME NEW chars, NEW o, IsPlace(chars, o), NEW p, p.maxLength \in Nat
  PROVE  MatchLength(p, TextOf(chars), o) \in 0 .. Len(chars) - o
<1> DEFINE n == Len(chars)
           t == TextOf(chars)
           last == Min({Length(t), o + p.maxLength})
           S == {0} \cup {l \in 1 .. last - o :
                            \A i \in o + 1 .. o + l : t.chars[i] \in p.of}
<1>1. Length(t) = n /\ n \in Nat /\ o \in Nat /\ o < n
  BY PlaceFacts
<1>2. last = IF n <= o + p.maxLength THEN n ELSE o + p.maxLength
  <2> DEFINE m == o + p.maxLength
  <2>1. n \in Int /\ m \in Int
    BY <1>1
  <2>2. last = Min({n, m})
    BY <1>1
  <2> HIDE DEF n, m, last
  <2> QED BY <2>1, <2>2, MinOfTwo DEF m
<1>3. MatchLength(p, t, o) = Max(S)
  BY Zenon DEF MatchLength
<1>4. last \in Int /\ last - o <= n - o
  <2> HIDE DEF last, n
  <2> QED BY <1>1, <1>2
<1>5. S \subseteq 0 .. n - o /\ S # {} /\ 0 \in Int /\ n - o \in Int
  <2> HIDE DEF last, n
  <2> QED BY <1>1, <1>4
<1> HIDE DEF S
<1>6. Max(S) \in S
  <2> DEFINE m == n - o
  <2>1. S \subseteq 0 .. m /\ m \in Int
    BY <1>5
  <2> HIDE DEF m
  <2> QED BY <1>5, <2>1, MaxOfSome, Zenon
<1> QED BY <1>3, <1>5, <1>6
-----------------------------------------------------------------------------
(* The elements of a choice, and of sequences put together one for each    *)
(* element of another.                                                     *)
LEMMA ChosenElements ==
  ASSUME NEW V, NEW seq \in Seq(V), NEW places
  PROVE  /\ Chosen(seq, places) \in Seq(V)
         /\ ToSet(Chosen(seq, places)) = {seq[i] : i \in places \cap DOMAIN seq}
<1> DEFINE c == Chosen(seq, places)
           S == places \cap (1 .. Len(seq))
<1>1. c \in Seq(V) /\ \E ord : IsOrderOf(ord, c, seq, S)
  BY ChosenFacts
<1>2. PICK ord : IsOrderOf(ord, c, seq, S)
  BY <1>1
<1>3. DOMAIN seq = 1 .. Len(seq) /\ DOMAIN c = 1 .. Len(c)
  BY <1>1, LenProperties
<1> HIDE DEF c
<1>4. \A k \in 1 .. Len(c) : ord[k] \in S /\ c[k] = seq[ord[k]]
  BY <1>2 DEF IsOrderOf
<1>5. \A s \in S : \E k \in 1 .. Len(c) : ord[k] = s
  BY <1>2 DEF IsOrderOf
<1>6. ToSet(c) = {seq[i] : i \in S}
  <2>1. ToSet(c) = {c[k] : k \in 1 .. Len(c)}
    BY <1>3 DEF ToSet
  <2> HIDE DEF S
  <2>2. ASSUME NEW x, x \in ToSet(c) PROVE x \in {seq[i] : i \in S}
    <3>1. PICK k \in 1 .. Len(c) : x = c[k]
      BY <2>1, <2>2
    <3> QED BY <1>4, <3>1
  <2>3. ASSUME NEW i \in S PROVE seq[i] \in ToSet(c)
    <3>1. PICK k \in 1 .. Len(c) : ord[k] = i
      BY <1>5
    <3> QED BY <1>4, <2>1, <3>1
  <2> QED BY <2>2, <2>3
<1> QED BY <1>1, <1>3, <1>6 DEF c

ForEach(s, g) == FlattenSeq([i \in DOMAIN s |-> g[s[i]]])

(* A sequence for each element, put together.                              *)
LEMMA ForEachFacts ==
  ASSUME NEW V, NEW W, NEW s \in Seq(W), NEW g, \A x \in ToSet(s) : g[x] \in Seq(V)
  PROVE  /\ ForEach(s, g) \in Seq(V)
         /\ ToSet(ForEach(s, g)) = UNION {ToSet(g[x]) : x \in ToSet(s)}
<1> DEFINE ss == [i \in DOMAIN s |-> g[s[i]]]
<1>1. DOMAIN s = 1 .. Len(s) /\ Len(s) \in Nat
  BY LenProperties
<1>2. \A i \in 1 .. Len(s) : s[i] \in ToSet(s)
  BY <1>1 DEF ToSet
<1>3. \A x \in ToSet(s) : \E i \in 1 .. Len(s) : s[i] = x
  BY <1>1 DEF ToSet
<1>4. ss \in [1 .. Len(s) -> Seq(V)] /\ \A i \in 1 .. Len(s) : ss[i] = g[s[i]]
  BY <1>1, <1>2
<1>5. ForEach(s, g) = FlattenSeq(ss)
  BY Zenon DEF ForEach
<1> HIDE DEF ss
<1>6. ss \in Seq(Seq(V)) /\ Len(ss) = Len(s)
  <2>1. ss \in Seq(Seq(V))
    BY <1>1, <1>4, SeqDef
  <2> QED BY <1>1, <1>4, <2>1, LenProperties
<1>7. /\ FlattenSeq(ss) \in Seq(V)
      /\ ToSet(FlattenSeq(ss)) = UNION {ToSet(ss[i]) : i \in 1 .. Len(ss)}
  BY <1>6, FlattenType, FlattenElements
<1>8. UNION {ToSet(ss[i]) : i \in 1 .. Len(ss)} = UNION {ToSet(g[x]) : x \in ToSet(s)}
  <2>1. ASSUME NEW i \in 1 .. Len(ss), NEW h \in ToSet(ss[i])
        PROVE  \E x \in ToSet(s) : h \in ToSet(g[x])
    BY <1>2, <1>4, <1>6, <2>1
  <2>2. ASSUME NEW x \in ToSet(s), NEW h \in ToSet(g[x])
        PROVE  \E i \in 1 .. Len(ss) : h \in ToSet(ss[i])
    BY <1>3, <1>4, <1>6, <2>2
  <2> DEFINE A == UNION {ToSet(ss[i]) : i \in 1 .. Len(ss)}
             B == UNION {ToSet(g[x]) : x \in ToSet(s)}
  <2>3. \A h : h \in A <=> \E i \in 1 .. Len(ss) : h \in ToSet(ss[i])
    BY Zenon
  <2>4. \A h : h \in B <=> \E x \in ToSet(s) : h \in ToSet(g[x])
    BY Zenon
  <2>5. A = B
    <3> HIDE DEF A, B
    <3> QED BY <2>1, <2>2, <2>3, <2>4
  <2> QED BY <2>5
<1> QED BY <1>5, <1>7, <1>8

(* The lengths of the words of one category of a run.                      *)
PartLengths(t, o, info) ==
  {l \in 1 .. t.run[o + 1] : l <= LongestPart(t.run[o + 1], info)
                             /\ \E i \in 1 .. info.length : l = CharDistance(t, o, i)}

RunLengths(t, o, info) ==
  PartLengths(t, o, info) \cup (IF info.group THEN {t.run[o + 1]} ELSE {})

WordsOfLength(o, oovs, l) == [k \in DOMAIN oovs |-> [end |-> o + l, word |-> oovs[k]]]

(* provide_oov_gen collects lengths first, and then words of each length.  *)
LengthsInOrder(t, o, info) ==
  LET parts == [i \in 1 .. info.length |-> CharDistance(t, o, i)]
  IN (IF info.group THEN <<t.run[o + 1]>> ELSE << >>)
       \o Chosen(parts, {i \in DOMAIN parts : parts[i] <= LongestPart(t.run[o + 1], info)})

(* The lengths the provider tries are those of the run and of its parts.   *)
LEMMA LengthsFacts ==
  ASSUME NEW chars, NEW o, IsPlace(chars, o), NEW info \in CategoryInfo
  PROVE  /\ LengthsInOrder(TextOf(chars), o, info) \in Seq(1 .. Len(chars) - o)
         /\ ToSet(LengthsInOrder(TextOf(chars), o, info)) = RunLengths(TextOf(chars), o, info)
<1> DEFINE t == TextOf(chars)
           V == 1 .. Len(chars) - o
           run == t.run[o + 1]
           m == info.length
           parts == [i \in 1 .. m |-> CharDistance(t, o, i)]
           places == {i \in DOMAIN parts : parts[i] <= LongestPart(run, info)}
           first == IF info.group THEN <<run>> ELSE << >>
           rest == Chosen(parts, places)
<1>1. run \in V /\ m \in Nat /\ info.group \in BOOLEAN
  BY PlaceFacts DEF CategoryInfo
<1>2. parts \in Seq(V) /\ DOMAIN parts = 1 .. m
  <2>1. \A i \in 1 .. m : i \in Nat \ {0}
    BY <1>1
  <2>2. \A i \in 1 .. m : CharDistance(t, o, i) \in V
    BY <2>1, DistanceBounds
  <2>3. parts \in [1 .. m -> V] /\ DOMAIN parts = 1 .. m
    BY <2>2
  <2> HIDE DEF parts, V
  <2> QED BY <1>1, <2>3, SeqDef
<1>3. first \in Seq(V) /\ ToSet(first) = IF info.group THEN {run} ELSE {}
  <2>1. CASE info.group
    <3> HIDE DEF V, run
    <3>1. <<run>> \in Seq(V) /\ DOMAIN <<run>> = {1} /\ <<run>>[1] = run
      BY <1>1
    <3>2. ToSet(<<run>>) = {run}
      BY <3>1 DEF ToSet
    <3> QED BY <2>1, <3>1, <3>2
  <2>2. CASE ~info.group
    <3>1. << >> \in Seq(V) /\ ToSet(<< >>) = {}
      BY EmptySeq DEF ToSet
    <3> QED BY <2>2, <3>1
  <2> QED BY <2>1, <2>2
<1>4. rest \in Seq(V) /\ ToSet(rest) = {parts[i] : i \in places \cap DOMAIN parts}
  <2> HIDE DEF V, parts, places
  <2> QED BY <1>2, ChosenElements
<1>5. {parts[i] : i \in places \cap DOMAIN parts} = PartLengths(t, o, info)
  <2>1. \A i \in 1 .. m : parts[i] = CharDistance(t, o, i) /\ parts[i] \in V
    BY <1>2, ElementOfSeq, LenProperties
  <2>2. LongestPart(run, info) <= run /\ LongestPart(run, info) \in Int
    <3> HIDE DEF run
    <3> QED BY <1>1 DEF LongestPart
  <2>3. places \cap DOMAIN parts = {i \in 1 .. m : parts[i] <= LongestPart(run, info)}
    BY <1>2
  <2>4. ASSUME NEW i \in 1 .. m, parts[i] <= LongestPart(run, info) PROVE parts[i] \in 1 .. run
    <3>1. parts[i] \in V
      BY <2>1
    <3> HIDE DEF parts, run
    <3> QED BY <1>1, <2>2, <2>4, <3>1
  <2>5. PartLengths(t, o, info) =
          {l \in 1 .. run : l <= LongestPart(run, info) /\ \E i \in 1 .. m : l = CharDistance(t, o, i)}
    BY DEF PartLengths
  <2> HIDE DEF run, parts, places, m, t
  <2>6. ASSUME NEW i \in places \cap DOMAIN parts PROVE parts[i] \in PartLengths(t, o, info)
    BY <2>1, <2>3, <2>4, <2>5, <2>6
  <2>7. ASSUME NEW l \in PartLengths(t, o, info)
        PROVE  \E i \in places \cap DOMAIN parts : parts[i] = l
    BY <2>1, <2>3, <2>5
  <2> DEFINE A == {parts[i] : i \in places \cap DOMAIN parts}
  <2>8. \A h : h \in A <=> \E i \in places \cap DOMAIN parts : h = parts[i]
    OBVIOUS
  <2>9. A = PartLengths(t, o, info)
    <3> HIDE DEF A
    <3> QED BY <2>6, <2>7, <2>8
  <2> QED BY <2>9
<1>6. LengthsInOrder(t, o, info) = first \o rest
  BY Zenon DEF LengthsInOrder
<1>7. ToSet(first \o rest) = ToSet(first) \cup ToSet(rest) /\ first \o rest \in Seq(V)
  <2>1. first \in Seq(V) /\ rest \in Seq(V)
    BY <1>3, <1>4
  <2> HIDE DEF V, first, rest
  <2>2. ToSet(first \o rest) = ToSet(first) \cup ToSet(rest)
    BY <2>1, ToSetConcat, Zenon
  <2> QED BY <2>1, <2>2, ConcatProperties
<1>8. RunLengths(t, o, info) = PartLengths(t, o, info) \cup (IF info.group THEN {run} ELSE {})
  BY DEF RunLengths
<1> HIDE DEF first, rest, parts, places, run, V, t
<1>9. ToSet(first \o rest) = RunLengths(t, o, info)
  BY <1>3, <1>4, <1>5, <1>7, <1>8
<1> QED BY <1>6, <1>7, <1>9 DEF t, V

(* The words of a category: every one of its words with every length.      *)
HasWordsOf(given, t, o, info, oovs) ==
  /\ given \in Seq(Offers(t, o))
  /\ ToSet(given) = {[end |-> o + l, word |-> w] : l \in RunLengths(t, o, info), w \in ToSet(oovs)}

(* provide_oov_gen gives every word of the category each of the lengths.   *)
LEMMA OfCategoryFacts ==
  ASSUME NEW chars, NEW o, IsPlace(chars, o), NEW info \in CategoryInfo,
         NEW oovs \in Seq(Words), NEW p
  PROVE  HasWordsOf(OfCategory(p, TextOf(chars), o, info, oovs), TextOf(chars), o, info, oovs)
<1> DEFINE t == TextOf(chars)
           n == Len(chars)
           L == 1 .. n - o
           V == Offers(t, o)
           all == LengthsInOrder(t, o, info)
           g == [l \in L |-> WordsOfLength(o, oovs, l)]
           given == OfCategory(p, t, o, info, oovs)
<1>1. Length(t) = n /\ n \in Nat /\ o \in Nat
  BY PlaceFacts
<1>2. all \in Seq(L) /\ ToSet(all) = RunLengths(t, o, info)
  BY LengthsFacts
<1>3. /\ DOMAIN oovs = 1 .. Len(oovs) /\ Len(oovs) \in Nat
      /\ \A k \in 1 .. Len(oovs) : oovs[k] \in Words
      /\ ToSet(oovs) = {oovs[k] : k \in 1 .. Len(oovs)}
  BY LenProperties, ElementOfSeq DEF ToSet
<1>4. ASSUME NEW l \in L
      PROVE  /\ g[l] \in Seq(V)
             /\ ToSet(g[l]) = {[end |-> o + l, word |-> w] : w \in ToSet(oovs)}
  <2> DEFINE s == WordsOfLength(o, oovs, l)
  <2>1. g[l] = s
    BY Zenon
  <2>2. /\ DOMAIN s = 1 .. Len(oovs)
        /\ \A k \in 1 .. Len(oovs) : s[k] = [end |-> o + l, word |-> oovs[k]]
    BY <1>3 DEF WordsOfLength
  <2>3. o + l \in o + 1 .. Length(t)
    BY <1>1
  <2>4. \A w \in Words : [end |-> o + l, word |-> w] \in V
    BY <2>3 DEF Offers
  <2>5. s \in [1 .. Len(oovs) -> V]
    <3>1. \A k \in 1 .. Len(oovs) : [end |-> o + l, word |-> oovs[k]] \in V
      BY <1>3, <2>4
    <3>2. s = [k \in 1 .. Len(oovs) |-> [end |-> o + l, word |-> oovs[k]]]
      BY <1>3 DEF WordsOfLength
    <3> HIDE DEF V
    <3> QED BY <3>1, <3>2
  <2> HIDE DEF s, V, g
  <2>6. s \in Seq(V)
    BY <1>3, <2>5, SeqDef
  <2>7. ToSet(s) = {s[k] : k \in 1 .. Len(oovs)}
    BY <2>2 DEF ToSet
  <2>8. {s[k] : k \in 1 .. Len(oovs)} = {[end |-> o + l, word |-> w] : w \in ToSet(oovs)}
    BY <1>3, <2>2
  <2> QED BY <2>1, <2>6, <2>7, <2>8
<1>5. given = ForEach(all, g)
  <2> DEFINE a == [i \in DOMAIN all |-> [k \in DOMAIN oovs |-> [end |-> o + all[i], word |-> oovs[k]]]]
             b == [i \in DOMAIN all |-> g[all[i]]]
  <2>1. given = FlattenSeq(a)
    BY Zenon DEF OfCategory, LengthsInOrder
  <2>2. ForEach(all, g) = FlattenSeq(b)
    BY Zenon DEF ForEach
  <2>3. \A i \in DOMAIN all : g[all[i]] = [k \in DOMAIN oovs |-> [end |-> o + all[i], word |-> oovs[k]]]
    <3>1. \A i \in DOMAIN all : all[i] \in L
      BY <1>2, LenProperties, ElementOfSeq
    <3> HIDE DEF all, L
    <3> QED BY <3>1, Zenon DEF WordsOfLength
  <2>4. a = b
    <3> HIDE DEF all, g
    <3> QED BY <2>3
  <2> QED BY <2>1, <2>2, <2>4
<1>6. \A x \in ToSet(all) : x \in L
  <2> HIDE DEF all, L
  <2> QED BY <1>2, LenProperties, ElementOfSeq DEF ToSet
<1>7. /\ ForEach(all, g) \in Seq(V)
      /\ ToSet(ForEach(all, g)) = UNION {ToSet(g[x]) : x \in ToSet(all)}
  <2>1. \A x \in ToSet(all) : g[x] \in Seq(V)
    <3> HIDE DEF all, g, L, V
    <3> QED BY <1>4, <1>6
  <2> HIDE DEF all, g, L, V
  <2> QED BY <1>2, <2>1, ForEachFacts
<1>8. UNION {ToSet(g[x]) : x \in ToSet(all)} =
        {[end |-> o + l, word |-> w] : l \in ToSet(all), w \in ToSet(oovs)}
  <2>1. \A x \in ToSet(all) : ToSet(g[x]) = {[end |-> o + x, word |-> w] : w \in ToSet(oovs)}
    <3> HIDE DEF all, g, L, V
    <3> QED BY <1>4, <1>6
  <2> HIDE DEF all, g
  <2> DEFINE A == UNION {ToSet(g[x]) : x \in ToSet(all)}
             B == {[end |-> o + l, word |-> w] : l \in ToSet(all), w \in ToSet(oovs)}
  <2>2. \A h : h \in A <=> \E x \in ToSet(all) : h \in ToSet(g[x])
    BY Zenon
  <2>3. \A h : h \in B <=> \E x \in ToSet(all), w \in ToSet(oovs) : h = [end |-> o + x, word |-> w]
    OBVIOUS
  <2>4. \A x \in ToSet(all) : \A h : h \in ToSet(g[x]) <=>
          \E w \in ToSet(oovs) : h = [end |-> o + x, word |-> w]
    BY <2>1
  <2>5. A = B
    <3> HIDE DEF A, B
    <3>1. ASSUME NEW h \in A PROVE h \in B
      <4>1. PICK x \in ToSet(all) : h \in ToSet(g[x])
        BY <2>2
      <4>2. \E w \in ToSet(oovs) : h = [end |-> o + x, word |-> w]
        BY <2>4, <4>1
      <4> QED BY <2>3, <4>2
    <3>2. ASSUME NEW h \in B PROVE h \in A
      <4>1. PICK x \in ToSet(all), w \in ToSet(oovs) : h = [end |-> o + x, word |-> w]
        BY <2>3
      <4>2. h \in ToSet(g[x])
        BY <2>4, <4>1
      <4> QED BY <2>2, <4>2
    <3> QED BY <3>1, <3>2
  <2> QED BY <2>5
<1> HIDE DEF all, g, given, V, t
<1>9. given \in Seq(V) /\ ToSet(given) = {[end |-> o + l, word |-> w] :
                                           l \in RunLengths(t, o, info), w \in ToSet(oovs)}
  BY <1>2, <1>5, <1>7, <1>8
<1>10. HasWordsOf(given, t, o, info, oovs)
  BY <1>9 DEF HasWordsOf, V
<1> QED BY <1>10 DEF given, t

-----------------------------------------------------------------------------
(***************************************************************************)
(* What a provider gives, as a set: the words of UnknownAt, which knows of *)
(* the other words what the promise of the builder (OfferedWords) says, or *)
(* an error.                                                               *)
(***************************************************************************)
CategoryWords(t, p, o, c) ==
  {[end |-> o + l, word |-> w] : l \in RunLengths(t, o, p.categories[c]), w \in ToSet(p.oovs[c])}

CategoriesAsked(t, p, o, others) == {c \in t.cats[o + 1] : IsAsked(p, c, others)}

RunWordsAt(t, p, o, others) ==
  UNION {CategoryWords(t, p, o, c) : c \in CategoriesAsked(t, p, o, others)}

UnknownAt(t, p, o, others) ==
  CASE p.kind = "mecab" -> RunWordsAt(t, p, o, others)
    [] p.kind = "simple" ->
         IF others # {} THEN {}
         ELSE {[end |-> o + WordCandidateLength(t, o), word |-> p.word]}
    [] p.kind = "regex" ->
         LET l == MatchLength(p, t, o)
         IN IF IsInsideRun(p, t, o) \/ l = 0 \/ \E w \in others : w.end = o + l THEN {}
            ELSE {[end |-> o + l, word |-> p.word]}

FailsAt(t, p, o) ==
  /\ p.kind = "regex" /\ ~IsInsideRun(p, t, o) /\ MatchLength(p, t, o) = 0
  /\ MatchesLater(p, t, o) /\ p.debug

LengthBits(nodes, o) == {BitOf(nodes[k].end - o) : k \in DOMAIN nodes}

(* An answer of a provider, good for the boundary o.                       *)
IsAnswer(a, t, p, o, others) ==
  /\ FailsAt(t, p, o) => a.status = "error"
  /\ ~FailsAt(t, p, o) =>
       /\ a.status = "ok" /\ a.words \in Seq(Offers(t, o))
       /\ ToSet(a.words) = UnknownAt(t, p, o, others)

(* The provider by categories gives the words of the runs it is asked for, *)
(* and never fails.                                                        *)
LEMMA MecabFacts ==
  ASSUME NEW chars, NEW o, IsPlace(chars, o), NEW p, IsProvider(p), p.kind = "mecab",
         NEW bits_, NEW others, bits_ = {} <=> others = {}
  PROVE  LET a == Mecab(p, TextOf(chars), o, bits_)
         IN /\ a.status = "ok" /\ a.words \in Seq(Offers(TextOf(chars), o))
            /\ ToSet(a.words) = RunWordsAt(TextOf(chars), p, o, others)
<1> DEFINE t == TextOf(chars)
           V == Offers(t, o)
           asked_ == {i \in DOMAIN CatOrder :
                        CatOrder[i] \in t.cats[o + 1] /\ IsAsked(p, CatOrder[i], bits_)}
           cats == Chosen(CatOrder, asked_)
           C == CategoriesAsked(t, p, o, others)
           one(c) == OfCategory(p, t, o, p.categories[c], p.oovs[c])
           g == [c \in C |-> one(c)]
           all == FlattenSeq([i \in DOMAIN cats |-> one(cats[i])])
           set(c) == CategoryWords(t, p, o, c)
<1>1. Mecab(p, t, o, bits_) = [status |-> "ok", words |-> all]
  BY Zenon DEF Mecab, Given
<1>2. \A c : IsAsked(p, c, bits_) <=> IsAsked(p, c, others)
  BY DEF IsAsked
<1>3. t.cats[o + 1] \subseteq ToSet(CatOrder)
  BY PlaceFacts
<1>4. cats \in Seq(ToSet(CatOrder)) /\ ToSet(cats) = C
  <2>1. CatOrder \in Seq(ToSet(CatOrder))
    BY CategoriesAssumption
  <2>2. /\ cats \in Seq(ToSet(CatOrder))
        /\ ToSet(cats) = {CatOrder[i] : i \in asked_ \cap DOMAIN CatOrder}
    <3> HIDE DEF asked_
    <3> QED BY <2>1, ChosenElements
  <2>3. asked_ \cap DOMAIN CatOrder = asked_
    OBVIOUS
  <2>4. {CatOrder[i] : i \in asked_} = C
    <3> USE DEF CategoriesAsked
    <3>1. \A i \in asked_ : CatOrder[i] \in C
      BY <1>2
    <3>2. ASSUME NEW c \in C PROVE \E i \in asked_ : CatOrder[i] = c
      <4>1. PICK i \in DOMAIN CatOrder : CatOrder[i] = c
        BY <1>3 DEF ToSet
      <4> QED BY <1>2, <4>1
    <3> HIDE DEF asked_, C
    <3> QED BY <3>1, <3>2
  <2> HIDE DEF cats, C
  <2> QED BY <2>2, <2>3, <2>4
<1>5. ASSUME NEW c \in C PROVE g[c] \in Seq(V) /\ ToSet(g[c]) = set(c)
  <2>1. p.categories[c] \in CategoryInfo /\ p.oovs[c] \in Seq(Words)
    BY DEF IsAsked, IsProvider, CategoriesAsked
  <2>2. one(c) \in Seq(V) /\ ToSet(one(c)) = set(c)
    <3>1. HasWordsOf(one(c), t, o, p.categories[c], p.oovs[c])
      BY <2>1, OfCategoryFacts, Zenon
    <3> HIDE DEF one, t
    <3>2. one(c) \in Seq(V)
      BY <3>1, Zenon DEF HasWordsOf
    <3>3. ToSet(one(c)) = set(c)
      BY <3>1 DEF HasWordsOf, CategoryWords
    <3> QED BY <3>2, <3>3
  <2>3. g[c] = one(c)
    BY Zenon
  <2> QED BY <2>2, <2>3
<1>6. all = ForEach(cats, g)
  <2> DEFINE a == [i \in DOMAIN cats |-> one(cats[i])]
             b == [i \in DOMAIN cats |-> g[cats[i]]]
  <2>1. \A i \in DOMAIN cats : cats[i] \in C
    <3> HIDE DEF cats, C
    <3> QED BY <1>4 DEF ToSet
  <2>2. \A i \in DOMAIN cats : g[cats[i]] = one(cats[i])
    <3> HIDE DEF cats, C, one
    <3> QED BY <2>1
  <2>3. a = b
    <3> HIDE DEF cats, g, one
    <3> QED BY <2>2
  <2> QED BY <2>3, Zenon DEF ForEach
<1>7. all \in Seq(V) /\ ToSet(all) = UNION {ToSet(g[c]) : c \in C}
  <2> HIDE DEF all, cats, C, V, g
  <2>1. \A x \in ToSet(cats) : g[x] \in Seq(V)
    BY <1>4, <1>5
  <2> DEFINE W == ToSet(CatOrder)
  <2>2. cats \in Seq(W)
    BY <1>4
  <2> HIDE DEF W
  <2> QED BY <1>4, <1>6, <2>1, <2>2, ForEachFacts
<1>8. UNION {ToSet(g[c]) : c \in C} = UNION {set(c) : c \in C}
  <2> HIDE DEF g, C, set
  <2>1. \A c \in C : ToSet(g[c]) = set(c)
    BY <1>5
  <2> QED BY <2>1, Zenon
<1>9. RunWordsAt(t, p, o, others) = UNION {set(c) : c \in C}
  BY Zenon DEF RunWordsAt
<1> DEFINE m == Mecab(p, t, o, bits_)
<1>10. m.status = "ok" /\ m.words \in Seq(V) /\ ToSet(m.words) = RunWordsAt(t, p, o, others)
  <2> HIDE DEF all, V, t, m, g, C
  <2>1. m.status = "ok" /\ m.words = all
    BY <1>1 DEF m
  <2> QED BY <1>7, <1>8, <1>9, <2>1
<1> QED BY <1>10 DEF m

(* A provider that gives one word.                                         *)
LEMMA OneWord ==
  ASSUME NEW t, NEW o \in Nat, NEW e \in o + 1 .. Length(t), NEW w \in Words
  PROVE  /\ WordsAt(<<e>>, w) \in Seq(Offers(t, o))
         /\ ToSet(WordsAt(<<e>>, w)) = {[end |-> e, word |-> w]}
<1>1. WordsAt(<<e>>, w) = <<[end |-> e, word |-> w]>>
  BY DEF WordsAt
<1>2. [end |-> e, word |-> w] \in Offers(t, o)
  BY DEF Offers
<1> DEFINE x == [end |-> e, word |-> w]
<1>3. ToSet(<<x>>) = {x}
  <2> HIDE DEF x
  <2>1. DOMAIN <<x>> = {1} /\ <<x>>[1] = x
    OBVIOUS
  <2> QED BY <2>1 DEF ToSet
<1> HIDE DEF x
<1>4. <<x>> \in Seq(Offers(t, o))
  BY <1>2 DEF x
<1> QED BY <1>1, <1>3, <1>4 DEF x

(* No words are words.                                                     *)
LEMMA NoWordFacts == ASSUME NEW V PROVE << >> \in Seq(V) /\ ToSet(<< >>) = {}
BY EmptySeq DEF ToSet

(* The bits and the list of words tell together whether there is a word of *)
(* a length.                                                               *)
LEMMA IsThereFacts ==
  ASSUME NEW chars, NEW o, IsPlace(chars, o), NEW nodes \in Seq(Offers(TextOf(chars), o)),
         NEW l \in 1 .. Len(chars) - o
  PROVE  IsThere(LengthBits(nodes, o), nodes, o, l) <=> \E w \in ToSet(nodes) : w.end = o + l
<1> DEFINE t == TextOf(chars)
           n == Len(chars)
<1>1. Length(t) = n /\ n \in Nat /\ o \in Nat
  BY PlaceFacts
<1>2. \A k \in DOMAIN nodes : nodes[k].end \in o + 1 .. n
  <2> DEFINE V == Offers(t, o)
  <2>1. \A k \in DOMAIN nodes : nodes[k] \in V
    <3> HIDE DEF V
    <3>1. nodes \in Seq(V)
      BY DEF V
    <3> QED BY <3>1, LenProperties, ElementOfSeq
  <2> QED BY <1>1, <2>1 DEF Offers
<1>3. MaxBit \in Nat \ {0}
  BY BitAssumption
<1>4. \A x \in Int : BitOf(x) = IF x <= MaxBit THEN x ELSE MaxBit
  BY <1>3, MinOfTwo DEF BitOf
<1>5. (\E w \in ToSet(nodes) : w.end = o + l) <=> \E k \in DOMAIN nodes : nodes[k].end = o + l
  BY DEF ToSet
<1>6. BitOf(l) \in LengthBits(nodes, o) <=> \E k \in DOMAIN nodes : BitOf(nodes[k].end - o) = BitOf(l)
  BY DEF LengthBits
<1> HIDE DEF t, n
<1>7. l \in Int /\ l \in Nat
  BY <1>1
<1>8. ASSUME NEW k \in DOMAIN nodes, nodes[k].end = o + l
      PROVE  BitOf(nodes[k].end - o) = BitOf(l)
  <2>1. nodes[k].end - o = l
    BY <1>1, <1>7, <1>8
  <2> QED BY <2>1
<1>9. ASSUME NEW k \in DOMAIN nodes, BitOf(nodes[k].end - o) = BitOf(l), l < MaxBit
      PROVE  nodes[k].end = o + l
  <2> DEFINE e == nodes[k].end
  <2>1. e \in Int /\ e - o \in Int
    BY <1>1, <1>2
  <2>2. BitOf(e - o) = IF e - o <= MaxBit THEN e - o ELSE MaxBit
    BY <1>4, <2>1
  <2>3. BitOf(l) = l
    BY <1>3, <1>4, <1>7, <1>9
  <2>4. BitOf(e - o) = l
    BY <1>9, <2>3
  <2> HIDE DEF e
  <2>5. e - o = l
    BY <1>3, <1>7, <1>9, <2>1, <2>2, <2>4
  <2> QED BY <1>1, <1>7, <2>1, <2>5 DEF e
<1>10. CASE BitOf(l) \notin LengthBits(nodes, o)
  <2>1. ~IsThere(LengthBits(nodes, o), nodes, o, l)
    BY <1>10 DEF IsThere, HasWord
  <2> QED BY <1>5, <1>6, <1>8, <1>10, <2>1
<1>11. CASE BitOf(l) \in LengthBits(nodes, o) /\ l >= MaxBit
  <2>1. IsThere(LengthBits(nodes, o), nodes, o, l) <=> \E k \in DOMAIN nodes : nodes[k].end = o + l
    BY <1>11 DEF IsThere, HasWord
  <2> QED BY <1>5, <2>1
<1>12. CASE BitOf(l) \in LengthBits(nodes, o) /\ ~(l >= MaxBit)
  <2>1. IsThere(LengthBits(nodes, o), nodes, o, l)
    BY <1>12 DEF IsThere, HasWord
  <2>2. l < MaxBit
    BY <1>3, <1>7, <1>12
  <2> QED BY <1>5, <1>6, <1>9, <1>12, <2>1, <2>2
<1> QED BY <1>10, <1>11, <1>12

(* A provider told of the words there by CreatedWords and the list of      *)
(* nodes answers as one that sees the words themselves, or fails where     *)
(* that one fails: the bit for all long words is resolved through the      *)
(* list.                                                                   *)
LEMMA ProviderFacts ==
  ASSUME NEW chars, NEW o, IsPlace(chars, o), NEW p, IsProvider(p),
         NEW nodes \in Seq(Offers(TextOf(chars), o))
  PROVE  IsAnswer(ProvideOov(p, TextOf(chars), o, LengthBits(nodes, o), nodes),
                  TextOf(chars), p, o, ToSet(nodes))
<1> DEFINE t == TextOf(chars)
           n == Len(chars)
           B == LengthBits(nodes, o)
           others == ToSet(nodes)
           V == Offers(t, o)
           a == ProvideOov(p, t, o, B, nodes)
<1> SUFFICES IsAnswer(a, t, p, o, others)
  OBVIOUS
<1>1. Length(t) = n /\ n \in Nat /\ o \in Nat
  BY PlaceFacts
<1>2. B = {} <=> others = {}
  BY DEF LengthBits, ToSet
<1>3. << >> \in Seq(V) /\ ToSet(<< >>) = {}
  BY NoWordFacts
<1>4. CASE p.kind = "mecab"
  <2>1. a = Mecab(p, t, o, B)
    BY <1>4 DEF ProvideOov
  <2>2. UnknownAt(t, p, o, others) = RunWordsAt(t, p, o, others) /\ ~FailsAt(t, p, o)
    BY <1>4 DEF UnknownAt, FailsAt
  <2>3. LET m == Mecab(p, t, o, B)
        IN /\ m.status = "ok" /\ m.words \in Seq(V)
           /\ ToSet(m.words) = RunWordsAt(t, p, o, others)
    <3> HIDE DEF B, others
    <3> QED BY <1>2, <1>4, MecabFacts
  <2> HIDE DEF a, t, others, V
  <2> QED BY <2>1, <2>2, <2>3 DEF IsAnswer, V
<1>5. CASE p.kind = "simple"
  <2>1. a = Simple(p, t, o, B) /\ p.word \in Words
    BY <1>5 DEF ProvideOov, IsProvider
  <2>2. ~FailsAt(t, p, o) /\ UnknownAt(t, p, o, others) =
          IF others # {} THEN {}
          ELSE {[end |-> o + WordCandidateLength(t, o), word |-> p.word]}
    BY <1>5 DEF UnknownAt, FailsAt
  <2>3. CASE others # {}
    <3>1. a.status = "ok" /\ a.words = << >>
      BY <1>2, <2>1, <2>3 DEF Simple, NoWords, Given
    <3> HIDE DEF a, t, others, V
    <3> QED BY <1>3, <2>2, <2>3, <3>1 DEF IsAnswer, V
  <2>4. CASE others = {}
    <3> DEFINE e == o + WordCandidateLength(t, o)
    <3>1. a.status = "ok" /\ a.words = WordsAt(<<e>>, p.word)
      BY <1>2, <2>1, <2>4 DEF Simple, Given
    <3>2. e \in o + 1 .. Length(t)
      BY <1>1, CandidateBounds
    <3>3. a.words \in Seq(V) /\ ToSet(a.words) = {[end |-> e, word |-> p.word]}
      <4> HIDE DEF e, t, a
      <4>1. WordsAt(<<e>>, p.word) \in Seq(Offers(t, o))
            /\ ToSet(WordsAt(<<e>>, p.word)) = {[end |-> e, word |-> p.word]}
        BY <1>1, <2>1, <3>2, OneWord, Zenon
      <4> QED BY <3>1, <4>1
    <3> HIDE DEF a, t, others, V
    <3> QED BY <2>2, <2>4, <3>1, <3>3 DEF IsAnswer, V
  <2> QED BY <2>3, <2>4
<1>6. CASE p.kind = "regex"
  <2> DEFINE l == MatchLength(p, t, o)
  <2>1. a = Regex(p, t, o, B, nodes) /\ p.word \in Words /\ p.maxLength \in Nat
    BY <1>6 DEF ProvideOov, IsProvider
  <2>2. l \in 0 .. n - o
    BY <2>1, MatchBounds
  <2>3. /\ UnknownAt(t, p, o, others) =
             IF IsInsideRun(p, t, o) \/ l = 0 \/ \E w \in others : w.end = o + l THEN {}
             ELSE {[end |-> o + l, word |-> p.word]}
        /\ FailsAt(t, p, o) <=> ~IsInsideRun(p, t, o) /\ l = 0 /\ MatchesLater(p, t, o) /\ p.debug
    BY <1>6 DEF UnknownAt, FailsAt
  <2>4. a = IF IsInsideRun(p, t, o) THEN NoWords
            ELSE IF l = 0
                 THEN IF MatchesLater(p, t, o) /\ p.debug
                      THEN [status |-> "error", words |-> << >>]
                      ELSE NoWords
            ELSE IF IsThere(B, nodes, o, l) THEN NoWords
            ELSE Given(WordsAt(<<o + l>>, p.word))
    BY <2>1, Zenon DEF Regex
  <2>5. l # 0 => (IsThere(B, nodes, o, l) <=> \E w \in others : w.end = o + l)
    <3> SUFFICES ASSUME l # 0 PROVE IsThere(B, nodes, o, l) <=> \E w \in others : w.end = o + l
      OBVIOUS
    <3>1. l \in 1 .. n - o
      <4> HIDE DEF l, n
      <4> QED BY <1>1, <2>2
    <3> HIDE DEF l
    <3> QED BY <3>1, IsThereFacts
  <2>6. NoWords.status = "ok" /\ NoWords.words = << >>
    BY DEF NoWords, Given
  <2>7. CASE IsInsideRun(p, t, o)
    <3> HIDE DEF a, t, others, V, B, l
    <3> QED BY <1>3, <2>3, <2>4, <2>6, <2>7 DEF IsAnswer, V
  <2>8. CASE ~IsInsideRun(p, t, o) /\ l = 0
    <3> HIDE DEF a, t, others, V, B, l
    <3> QED BY <1>3, <2>3, <2>4, <2>6, <2>8 DEF IsAnswer, V
  <2>9. CASE ~IsInsideRun(p, t, o) /\ l # 0 /\ IsThere(B, nodes, o, l)
    <3> HIDE DEF a, t, others, V, B, l
    <3> QED BY <1>3, <2>3, <2>4, <2>5, <2>6, <2>9 DEF IsAnswer, V
  <2>10. CASE ~IsInsideRun(p, t, o) /\ l # 0 /\ ~IsThere(B, nodes, o, l)
    <3> DEFINE e == o + l
    <3>1. e \in o + 1 .. Length(t)
      <4> HIDE DEF l, n, t
      <4> QED BY <1>1, <2>2, <2>10
    <3>2. WordsAt(<<e>>, p.word) \in Seq(V) /\ ToSet(WordsAt(<<e>>, p.word)) = {[end |-> e, word |-> p.word]}
      <4> HIDE DEF e, t
      <4> QED BY <1>1, <2>1, <3>1, OneWord, Zenon
    <3>3. a.status = "ok" /\ a.words = WordsAt(<<e>>, p.word)
      <4> HIDE DEF a, t, others, V, B, l
      <4> QED BY <2>4, <2>10 DEF Given
    <3> HIDE DEF a, t, others, V, B, l
    <3> QED BY <2>3, <2>5, <2>10, <3>2, <3>3 DEF IsAnswer, V
  <2> QED BY <2>7, <2>8, <2>9, <2>10
<1> QED BY <1>4, <1>5, <1>6 DEF IsProvider

-----------------------------------------------------------------------------
(***************************************************************************)
(* What OfferedWords promises, of a text, dictionaries and providers: its  *)
(* operators are those of the builder's text and setup.                    *)
(***************************************************************************)
HasFormAt(t, o, form) ==
  /\ o + Len(form) <= Length(t)
  /\ SubSeq(t.chars, o + 1, o + Len(form)) = form

EndsAt(t, e) == e < Length(t) => CanBow(t, e)

RowsOf(ds) == UNION {ToSet(d) : d \in ToSet(ds)}

IsOffered(t, o, row) ==
  IF row.word.left < 0 THEN FALSE ELSE HasFormAt(t, o, row.form) /\ EndsAt(t, o + Len(row.form))

DictionaryAt(t, ds, o) ==
  {[end |-> o + Len(e.form), word |-> e.word] : e \in {x \in RowsOf(ds) : IsOffered(t, o, x)}}

(* The words known when the first k providers have been asked.             *)
KnownAfter(t, ps, o, known, k) ==
  LET words[j \in 0 .. Len(ps)] ==
        IF j = 0 THEN known
        ELSE words[j - 1] \cup UnknownAt(t, ps[j], o, words[j - 1])
  IN words[k]

(* OfferedWords means the same unknown words.                              *)
LEMMA UnknownIsThat ==
  \A p, o, others : O!UnknownWordsOf(p, o, others) = UnknownAt(text, p, o, others)
<1> SUFFICES ASSUME NEW p, NEW o, NEW others
             PROVE  O!UnknownWordsOf(p, o, others) = UnknownAt(text, p, o, others)
  OBVIOUS
<1>1. \A s : O!ToSet(s) = ToSet(s)
  BY DEF O!ToSet, ToSet
<1>2. \A i : O!CharDistance(text, o, i) = CharDistance(text, o, i)
  BY Zenon DEF O!CharDistance, CharDistance, O!Min, Min, O!Length, Length
<1>3. O!MatchLength(p, text, o) = MatchLength(p, text, o)
  BY Zenon DEF O!MatchLength, MatchLength, O!Min, Min, O!Length, Length, O!Max, Max
<1>4. \A c : O!IsAsked(p, c, others) = IsAsked(p, c, others)
  BY Zenon DEF O!IsAsked, IsAsked
<1>5. O!WordCandidateLength(text, o) = WordCandidateLength(text, o)
  BY Zenon DEF O!WordCandidateLength, WordCandidateLength, O!Min, Min, O!Length, Length,
               O!CanBow, CanBow
<1>6. O!IsInsideRun(p, text, o) = IsInsideRun(p, text, o)
  BY Zenon DEF O!IsInsideRun, IsInsideRun
<1>7. \A r, info : O!LongestPart(r, info) = LongestPart(r, info)
  BY Zenon DEF O!LongestPart, LongestPart
<1>8. O!RunWords(p, o, others) = RunWordsAt(text, p, o, others)
  <2>1. \A info : O!PartLengths(o, info) = PartLengths(text, o, info)
    BY <1>2, <1>7, Zenon DEF O!PartLengths, PartLengths
  <2>2. \A info : O!RunLengths(o, info) = RunLengths(text, o, info)
    BY <2>1, Zenon DEF O!RunLengths, RunLengths
  <2>3. \A c : O!CategoryWords(p, o, c) = CategoryWords(text, p, o, c)
    <3> SUFFICES ASSUME NEW c PROVE O!CategoryWords(p, o, c) = CategoryWords(text, p, o, c)
      OBVIOUS
    <3>1. O!RunLengths(o, p.categories[c]) = RunLengths(text, o, p.categories[c])
      BY <2>2
    <3>2. O!ToSet(p.oovs[c]) = ToSet(p.oovs[c])
      BY <1>1
    <3> QED BY <3>1, <3>2 DEF O!CategoryWords, CategoryWords
  <2>4. O!CategoriesAsked(p, o, others) = CategoriesAsked(text, p, o, others)
    BY <1>4, Zenon DEF O!CategoriesAsked, CategoriesAsked
  <2>5. O!RunWords(p, o, others)
          = UNION {O!CategoryWords(p, o, c) : c \in CategoriesAsked(text, p, o, others)}
    BY <2>4, Zenon DEF O!RunWords
  <2> QED BY <2>3, <2>5, Zenon DEF RunWordsAt
<1>9. O!UnknownWordsOf(p, o, others) =
        CASE p.kind = "mecab" -> O!RunWords(p, o, others)
          [] p.kind = "simple" ->
               IF others # {} THEN {}
               ELSE {[end |-> o + O!WordCandidateLength(text, o), word |-> p.word]}
          [] p.kind = "regex" ->
               LET l == O!MatchLength(p, text, o)
               IN IF O!IsInsideRun(p, text, o) \/ l = 0 \/ \E w \in others : w.end = o + l THEN {}
                  ELSE {[end |-> o + l, word |-> p.word]}
  BY Zenon DEF O!UnknownWordsOf
<1> QED BY <1>3, <1>5, <1>6, <1>8, <1>9, Zenon DEF UnknownAt

(* It means the same words of the dictionaries.                            *)
LEMMA DictionaryIsThat ==
  \A o : O!DictionaryWords(o) = DictionaryAt(text, setup.dictionaries, o)
<1> SUFFICES ASSUME NEW o PROVE O!DictionaryWords(o) = DictionaryAt(text, setup.dictionaries, o)
  OBVIOUS
<1>1. \A s : O!ToSet(s) = ToSet(s)
  BY DEF O!ToSet, ToSet
<1>2. \A form : O!HasForm(o, form) = HasFormAt(text, o, form)
  BY Zenon DEF O!HasForm, HasFormAt, O!Length, Length
<1>3. \A e : O!MayEndAt(e) = EndsAt(text, e)
  BY Zenon DEF O!MayEndAt, EndsAt, O!Length, Length, O!CanBow, CanBow
<1> DEFINE entries == UNION {O!ToSet(d) : d \in O!ToSet(setup.dictionaries)}
           good(x) == IF x.word.left < 0 THEN FALSE
                      ELSE O!HasForm(o, x.form) /\ O!MayEndAt(o + Len(x.form))
<1>4. O!DictionaryWords(o) =
        {[end |-> o + Len(e.form), word |-> e.word] : e \in {x \in entries : good(x)}}
  BY Zenon DEF O!DictionaryWords
<1>5. entries = RowsOf(setup.dictionaries)
  BY <1>1, Zenon DEF RowsOf
<1>6. \A x : good(x) = IsOffered(text, o, x)
  BY <1>2, <1>3, Zenon DEF IsOffered
<1> HIDE DEF entries, good
<1>7. {x \in entries : good(x)} = {x \in RowsOf(setup.dictionaries) : IsOffered(text, o, x)}
  BY <1>5, <1>6, Zenon
<1> QED BY <1>4, <1>7, Zenon DEF DictionaryAt

(* It asks the providers in the same order.                                *)
LEMMA KnownIsThat ==
  \A known, ps, o : O!WithUnknownWords(known, ps, o) = KnownAfter(text, ps, o, known, Len(ps))
<1> SUFFICES ASSUME NEW known, NEW ps, NEW o
             PROVE  O!WithUnknownWords(known, ps, o) = KnownAfter(text, ps, o, known, Len(ps))
  OBVIOUS
<1> DEFINE n == Len(ps)
           Body(f) == [j \in 0 .. n |-> IF j = 0 THEN known
                         ELSE f[j - 1] \cup O!UnknownWordsOf(ps[j], o, f[j - 1])]
           Body2(f) == [j \in 0 .. n |-> IF j = 0 THEN known
                          ELSE f[j - 1] \cup UnknownAt(text, ps[j], o, f[j - 1])]
<1>1. O!WithUnknownWords(known, ps, o) = (CHOOSE f : f = Body(f))[n]
  BY Zenon DEF O!WithUnknownWords
<1>2. KnownAfter(text, ps, o, known, n) = (CHOOSE f : f = Body2(f))[n]
  BY Zenon DEF KnownAfter
<1>3. \A f : Body(f) = Body2(f)
  BY UnknownIsThat, Zenon
<1> HIDE DEF Body, Body2
<1>4. (CHOOSE f : f = Body(f)) = (CHOOSE f : f = Body2(f))
  BY <1>3, Zenon
<1> QED BY <1>1, <1>2, <1>4, Zenon

(* The entries a lookup finds at a boundary are those whose form the text  *)
(* has there.                                                              *)
HitOf(entries, lexicon, o, i) ==
  [dict |-> lexicon, entry |-> entries[i].id, end |-> o + Len(entries[i].form)]

RowsAt(entries, t, o) ==
  {i \in DOMAIN entries : IsIndexed(entries[i]) /\ HasFormAt(t, o, entries[i].form)}

HitsOf(entries, lexicon, t, o) ==
  {HitOf(entries, lexicon, o, i) : i \in RowsAt(entries, t, o)}

(* The hits of one dictionary are its indexed rows whose form stands at    *)
(* the boundary.                                                           *)
LEMMA FoundRows ==
  ASSUME NEW entries \in Seq(IndexRow), IsDictionary(entries), NEW lexicon, NEW t,
         NEW o \in Nat, Len(t.chars) \in Nat, t.chars \in Seq(DOMAIN CatsOf)
  PROVE  FoundIn(BuildIndex(entries), lexicon, t.chars, o)
           = HitsOf(entries, lexicon, t, o)
<1> DEFINE index == BuildIndex(entries)
           chars == t.chars
           n == Len(chars)
           S == FormEnds(index.trie, chars, o, n)
           form(e) == SubSeq(chars, o + 1, e)
           ids(e) == ToSet(EntriesAt(index.table, index.trie[form(e)]))
           H == {HitOf(entries, lexicon, o, i) : i \in RowsAt(entries, t, o)}
           F == FoundIn(index, lexicon, chars, o)
<1>1. /\ n \in Nat /\ DOMAIN index.trie = IndexedForms(entries)
      /\ \A f \in IndexedForms(entries) : EntriesAt(index.table, index.trie[f]) = IdsOf(entries, f)
  BY IndexFacts
<1>2. S = {e \in o + 1 .. n : form(e) \in IndexedForms(entries)}
  BY <1>1 DEF FormEnds
<1>3. \A f : ToSet(IdsOf(entries, f)) = IndexIds(entries, f)
  BY IdsOfFacts
<1>4. \A e \in S : ids(e) = IndexIds(entries, form(e))
  BY <1>1, <1>2, <1>3
<1>5. \A i \in DOMAIN entries : entries[i] \in IndexRow
  BY ElementOfSeq, LenProperties
<1>6. \A e \in o + 1 .. n : Len(form(e)) = e - o
  <2> HIDE DEF chars
  <2> SUFFICES ASSUME NEW e \in o + 1 .. n PROVE Len(form(e)) = e - o
    OBVIOUS
  <2>1. chars \in Seq(DOMAIN CatsOf) /\ o + 1 \in 1 .. n + 1 /\ e \in Int /\ e <= n /\ o + 1 <= e
    BY <1>1 DEF chars
  <2>2. Len(SubSeq(chars, o + 1, e)) = e - (o + 1) + 1
    BY <1>1, <2>1, SubSeqProperties
  <2> QED BY <2>2
<1>7. ASSUME NEW h \in F PROVE h \in H
  <2>1. PICK q \in S \X Nat : q[2] \in ids(q[1])
                              /\ h = [dict |-> lexicon, entry |-> q[2], end |-> q[1]]
    BY <1>7 DEF FoundIn
  <2> DEFINE e == q[1]
             x == q[2]
  <2>2. e \in S /\ x \in ids(e) /\ h = [dict |-> lexicon, entry |-> x, end |-> e]
    BY <2>1
  <2> HIDE DEF e, x, S
  <2>3. x \in IndexIds(entries, form(e)) /\ e \in o + 1 .. n
    BY <1>2, <1>4, <2>2
  <2>4. PICK i \in DOMAIN entries :
          IsIndexed(entries[i]) /\ entries[i].form = form(e) /\ x = entries[i].id
    BY <2>3 DEF IndexIds
  <2>5. Len(entries[i].form) = e - o
    BY <1>6, <2>3, <2>4
  <2>6. o + Len(entries[i].form) = e
    BY <1>1, <2>3, <2>5
  <2>7. HasFormAt(t, o, entries[i].form)
    BY <1>1, <2>3, <2>4, <2>6 DEF HasFormAt, Length
  <2>8. h = HitOf(entries, lexicon, o, i)
    BY <2>2, <2>4, <2>6 DEF HitOf
  <2> QED BY <2>4, <2>7, <2>8 DEF RowsAt
<1>8. ASSUME NEW h \in H PROVE h \in F
  <2>1. PICK i \in RowsAt(entries, t, o) : h = HitOf(entries, lexicon, o, i)
    BY <1>8
  <2> DEFINE f == entries[i].form
             e == o + Len(f)
             x == entries[i].id
  <2>2. /\ i \in DOMAIN entries /\ IsIndexed(entries[i])
        /\ o + Len(f) <= n /\ SubSeq(chars, o + 1, o + Len(f)) = f
    BY <2>1 DEF RowsAt, HasFormAt, Length
  <2>3. f \in Seq(DOMAIN CatsOf) /\ x \in Nat /\ f # << >>
    BY <1>5, <2>2 DEF IndexRow, IsDictionary
  <2>4. Len(f) \in Nat \ {0}
    <3> HIDE DEF f
    <3> QED BY <2>3, LenProperties, EmptySeq
  <2>5. e \in o + 1 .. n
    <3> HIDE DEF f
    <3> QED BY <1>1, <2>2, <2>4
  <2>6. f \in IndexedForms(entries) /\ x \in IndexIds(entries, f)
    BY <2>2 DEF IndexedForms, IndexIds
  <2>7. form(e) = f
    BY <2>2
  <2> HIDE DEF f, e, x
  <2>8. e \in S /\ x \in ids(e)
    BY <1>2, <1>4, <2>5, <2>6, <2>7
  <2>9. h = [dict |-> lexicon, entry |-> x, end |-> e]
    BY <2>1 DEF HitOf, e, f, x
  <2> HIDE DEF S, ids
  <2>10. h \in {[dict |-> lexicon, entry |-> p[2], end |-> p[1]] : p \in {q \in S \X Nat : q[2] \in ids(q[1])}}
    <3> DEFINE q == <<e, x>>
    <3>1. q \in S \X Nat /\ q[1] = e /\ q[2] = x
      BY <2>3, <2>8
    <3> QED BY <2>8, <2>9, <3>1
  <2> QED BY <2>10 DEF FoundIn, S, ids
<1>9. F = H
  BY <1>7, <1>8
<1> QED BY <1>9, Zenon DEF HitsOf

(* An id leads to the parameters of its row.                               *)
LEMMA WordParamFacts ==
  ASSUME setup \in Setups, NEW d \in 1 .. Len(setup.dictionaries),
         NEW i \in DOMAIN setup.dictionaries[d]
  PROVE  WordParam(d - 1, setup.dictionaries[d][i].id) = setup.dictionaries[d][i].word
<1> DEFINE entries == setup.dictionaries[d]
           j == CHOOSE k \in DOMAIN entries : entries[k].id = entries[i].id
<1>1. entries \in Seq(IndexRow) /\ IsDictionary(entries)
  BY IndicesFacts
<1>2. d - 1 + 1 = d
  <2>1. Len(setup.dictionaries) \in Nat
    BY IndicesFacts DEF AreIndices
  <2> HIDE DEF entries
  <2> QED BY <2>1
<1>3. WordParam(d - 1, entries[i].id) = entries[j].word
  BY <1>2, Zenon DEF WordParam
<1>4. j \in DOMAIN entries /\ entries[j].id = entries[i].id
  OBVIOUS
<1> HIDE DEF j, entries
<1>5. j = i
  <2>1. DOMAIN entries = 1 .. Len(entries) /\ Len(entries) \in Nat
    BY <1>1, LenProperties
  <2>2. i \in DOMAIN entries
    BY DEF entries
  <2>3. entries[i].id \in Nat
    <3>1. entries[i] \in IndexRow
      BY <1>1, <2>1, <2>2, ElementOfSeq
    <3> QED BY <3>1 DEF IndexRow
  <2>4. \A k, l \in DOMAIN entries : k < l => entries[k].id < entries[l].id
    BY <1>1, Zenon DEF IsDictionary
  <2>5. ~(j < i) /\ ~(i < j)
    BY <1>4, <2>2, <2>3, <2>4
  <2> QED BY <1>4, <2>1, <2>2, <2>5
<1> QED BY <1>3, <1>5 DEF entries

AllHits(ds, t, o) == UNION {HitsOf(ds[d], d - 1, t, o) : d \in 1 .. Len(ds)}

(* The hits of all dictionaries are the rows of all of them.               *)
LEMMA LookupRows ==
  ASSUME setup \in Setups, NEW t, NEW o \in Nat, Len(t.chars) \in Nat,
         t.chars \in Seq(DOMAIN CatsOf)
  PROVE  /\ Lookup(Indices, t.chars, o) \in Seq(Hit)
         /\ ToSet(Lookup(Indices, t.chars, o)) = AllHits(setup.dictionaries, t, o)
<1> DEFINE xs == Indices
           ds == setup.dictionaries
           n == Len(xs)
           chars == t.chars
           ls == LookupsBefore(xs, chars, 0, o)
           found == Lookup(xs, chars, o)
           hits(d) == HitsOf(ds[d], d - 1, t, o)
<1>1. /\ AreIndices(xs) /\ n = Len(ds) /\ n \in Nat
      /\ \A d \in 1 .. n : ds[d] \in Seq(IndexRow) /\ IsDictionary(ds[d]) /\ xs[d] = BuildIndex(ds[d])
  BY IndicesFacts DEF AreIndices
<1>2. \A d \in 1 .. n : FoundIn(xs[d], d - 1, chars, o) = hits(d)
  <2> SUFFICES ASSUME NEW d \in 1 .. n PROVE FoundIn(xs[d], d - 1, chars, o) = hits(d)
    OBVIOUS
  <2> DEFINE entries == ds[d]
             lexicon == d - 1
  <2>1. entries \in Seq(IndexRow) /\ IsDictionary(entries) /\ xs[d] = BuildIndex(entries)
    BY <1>1
  <2> HIDE DEF entries, lexicon, xs
  <2>2. FoundIn(BuildIndex(entries), lexicon, t.chars, o) = HitsOf(entries, lexicon, t, o)
    BY <2>1, FoundRows, Zenon
  <2> QED BY <2>1, <2>2 DEF entries, lexicon
<1> HIDE DEF xs, hits
<1>3. found = FlattenSeq(ls) /\ found \in Seq(Hit)
  <2>1. 0 \in 0 .. n
    BY <1>1
  <2>2. Before(xs, chars, 0, o) = found
    BY <1>1, BeforeAll
  <2>3. Before(xs, chars, 0, o) \in Seq(Hit)
    BY <1>1, <2>1, BeforeType
  <2> QED BY <2>2, <2>3 DEF Before
<1>4. AreLookups(ls, xs, chars, n, o)
  <2>1. 0 \in 0 .. n /\ n - 0 = n
    BY <1>1
  <2>2. AreLookups(ls, xs, chars, n - 0, o)
    BY <1>1, <2>1, LookupsType
  <2> QED BY <2>1, <2>2
<1> HIDE DEF ls
<1>5. \A k \in 1 .. n : ToSet(ls[k]) = hits(n + 1 - k)
  <2> SUFFICES ASSUME NEW k \in 1 .. n PROVE ToSet(ls[k]) = hits(n + 1 - k)
    OBVIOUS
  <2> DEFINE d == n + 1 - k
             lexicon == n - k
  <2>1. d \in 1 .. n /\ lexicon \in Nat /\ lexicon = d - 1
    BY <1>1
  <2>2. ls[k] = LookupIn(xs[d], lexicon, chars, o)
    BY <1>4 DEF AreLookups
  <2> HIDE DEF d, lexicon
  <2>3. IsIndex(xs[d])
    BY <1>1, <2>1 DEF AreIndices
  <2>4. ToSet(LookupIn(xs[d], lexicon, chars, o)) = FoundIn(xs[d], lexicon, chars, o)
    BY <2>1, <2>3, LookupInFacts
  <2>5. ToSet(ls[k]) = hits(d)
    BY <1>2, <2>1, <2>2, <2>4
  <2> QED BY <2>5 DEF d
<1>6. ToSet(found) = UNION {ToSet(ls[k]) : k \in 1 .. n}
  <2>1. ls \in Seq(Seq(Hit)) /\ Len(ls) = n
    BY <1>4 DEF AreLookups
  <2> HIDE DEF n
  <2> QED BY <1>3, <2>1, FlattenElements
<1>7. ToSet(found) = UNION {hits(d) : d \in 1 .. n}
  <2>1. ASSUME NEW h \in ToSet(found) PROVE \E d \in 1 .. n : h \in hits(d)
    <3>1. PICK k \in 1 .. n : h \in ToSet(ls[k])
      BY <1>6, <2>1
    <3>2. n + 1 - k \in 1 .. n
      BY <1>1
    <3>3. h \in hits(n + 1 - k)
      BY <1>5, <3>1
    <3> QED BY <3>2, <3>3
  <2>2. ASSUME NEW d \in 1 .. n, NEW h \in hits(d) PROVE h \in ToSet(found)
    <3>1. n + 1 - d \in 1 .. n /\ n + 1 - (n + 1 - d) = d
      BY <1>1
    <3>2. ToSet(ls[n + 1 - d]) = hits(d)
      BY <1>5, <3>1
    <3> QED BY <1>6, <2>2, <3>1, <3>2
  <2> QED BY <2>1, <2>2
<1>8. ToSet(found) = AllHits(ds, t, o)
  <2> HIDE DEF found
  <2> QED BY <1>1, <1>7, Zenon DEF hits, AllHits
<1> QED BY <1>3, <1>8 DEF xs

Mapped(s, g) == [k \in DOMAIN s |-> g[s[k]]]

(* A sequence mapped element by element.                                   *)
LEMMA MappedElements ==
  ASSUME NEW V, NEW W, NEW s \in Seq(W), NEW g, \A x \in ToSet(s) : g[x] \in V
  PROVE  Mapped(s, g) \in Seq(V) /\ ToSet(Mapped(s, g)) = {g[x] : x \in ToSet(s)}
<1> DEFINE m == [k \in DOMAIN s |-> g[s[k]]]
<1>1. DOMAIN s = 1 .. Len(s) /\ Len(s) \in Nat
  BY LenProperties
<1>2. \A i \in 1 .. Len(s) : s[i] \in ToSet(s)
  BY <1>1 DEF ToSet
<1>3. \A x \in ToSet(s) : \E i \in 1 .. Len(s) : s[i] = x
  BY <1>1 DEF ToSet
<1>4. m \in [1 .. Len(s) -> V] /\ \A i \in 1 .. Len(s) : m[i] = g[s[i]]
  BY <1>1, <1>2
<1> HIDE DEF m
<1>5. m \in Seq(V) /\ DOMAIN m = 1 .. Len(s)
  BY <1>1, <1>4, SeqDef
<1>6. ToSet(m) = {m[i] : i \in 1 .. Len(s)}
  BY <1>5 DEF ToSet
<1>7. ToSet(m) = {g[x] : x \in ToSet(s)}
  BY <1>2, <1>3, <1>4, <1>6
<1> QED BY <1>5, <1>7 DEF m, Mapped

(* What the builder takes for the words of the dictionaries is what        *)
(* OfferedWords takes for them.                                            *)
LEMMA MatchesFacts ==
  ASSUME setup \in Setups, text = TextOf(text.chars), IsPlace(text.chars, at),
         setup.pipelined => match_cache[at] = Lookup(Indices, text.chars, at)
  PROVE  /\ Matches \in Seq(Offers(text, at))
         /\ ToSet(Matches) = DictionaryAt(text, setup.dictionaries, at)
<1> DEFINE ds == setup.dictionaries
           n == Len(ds)
           V == Offers(text, at)
           found == Lookup(Indices, text.chars, at)
           places == {k \in DOMAIN found : MayEnd(found[k].end)}
           kept == Chosen(found, places)
           of(h) == [end |-> h.end, word |-> WordParam(h.dict, h.entry)]
           M == [k \in DOMAIN kept |-> of(kept[k])]
           D == DictionaryAt(text, ds, at)
<1>1. /\ Length(text) = Len(text.chars) /\ text.chars \in Seq(DOMAIN CatsOf)
      /\ Len(text.chars) \in Nat /\ at \in Nat
  BY PlaceFacts, TextFacts DEF IsPlace
<1>2. /\ n \in Nat /\ DOMAIN ds = 1 .. n
      /\ \A d \in 1 .. n : ds[d] \in Seq(IndexRow) /\ IsDictionary(ds[d])
  BY IndicesFacts, SetupsAssumption, LenProperties DEF AreIndices
<1>3. Matches = M
  BY Zenon DEF Matches
<1>4. /\ found \in Seq(Hit)
      /\ \A h : h \in ToSet(found) <=>
           \E d \in 1 .. n : \E i \in RowsAt(ds[d], text, at) : h = HitOf(ds[d], d - 1, at, i)
  <2>1. found \in Seq(Hit) /\ ToSet(found) = AllHits(ds, text, at)
    BY <1>1, LookupRows
  <2> DEFINE hits(d) == {HitOf(ds[d], d - 1, at, i) : i \in RowsAt(ds[d], text, at)}
  <2>2. AllHits(ds, text, at) = UNION {hits(d) : d \in 1 .. n}
    BY Zenon DEF AllHits, HitsOf
  <2> HIDE DEF found, hits
  <2>3. \A h : h \in ToSet(found) <=> \E d \in 1 .. n : h \in hits(d)
    BY <2>1, <2>2
  <2>4. \A d : \A h : h \in hits(d) <=> \E i \in RowsAt(ds[d], text, at) : h = HitOf(ds[d], d - 1, at, i)
    BY DEF hits
  <2>5. ASSUME NEW h
        PROVE  h \in ToSet(found) <=>
                 \E d \in 1 .. n : \E i \in RowsAt(ds[d], text, at) : h = HitOf(ds[d], d - 1, at, i)
    <3> HIDE DEF n
    <3>1. h \in ToSet(found) <=> \E d \in 1 .. n : h \in hits(d)
      BY <2>3
    <3> QED BY <2>4, <3>1
  <2> QED BY <2>1, <2>5
<1>5. kept \in Seq(Hit) /\ ToSet(kept) = {h \in ToSet(found) : MayEnd(h.end)}
  <2> HIDE DEF found
  <2>1. kept \in Seq(Hit) /\ ToSet(kept) = {found[i] : i \in places \cap DOMAIN found}
    <3> HIDE DEF places
    <3> QED BY <1>4, ChosenElements
  <2>2. ToSet(found) = {found[i] : i \in DOMAIN found}
    BY DEF ToSet
  <2> HIDE DEF kept
  <2> QED BY <2>1, <2>2
<1> HIDE DEF found, places, kept
(* A row of a dictionary that is found gives its own word.                 *)
<1>6. ASSUME NEW d \in 1 .. n, NEW i \in RowsAt(ds[d], text, at)
      PROVE  of(HitOf(ds[d], d - 1, at, i)) = [end |-> at + Len(ds[d][i].form), word |-> ds[d][i].word]
  <2>1. i \in DOMAIN ds[d]
    BY DEF RowsAt
  <2>2. WordParam(d - 1, ds[d][i].id) = ds[d][i].word
    BY <2>1, WordParamFacts
  <2> QED BY <2>2 DEF HitOf
<1>7. ASSUME NEW d \in 1 .. n, NEW i \in RowsAt(ds[d], text, at)
      PROVE  /\ ds[d][i] \in RowsOf(ds)
             /\ [end |-> at + Len(ds[d][i].form), word |-> ds[d][i].word] \in V
             /\ EndsAt(text, at + Len(ds[d][i].form)) => IsOffered(text, at, ds[d][i])
  <2> DEFINE row == ds[d][i]
  <2>1. i \in DOMAIN ds[d] /\ IsIndexed(row) /\ HasFormAt(text, at, row.form)
    BY DEF RowsAt
  <2>2. ds[d][i] \in RowsOf(ds)
    <3>1. ds[d] \in ToSet(ds) /\ ds[d][i] \in ToSet(ds[d])
      BY <1>2, <2>1 DEF ToSet
    <3> QED BY <3>1 DEF RowsOf
  <2>3. row \in IndexRow
    BY <1>2, <2>1, ElementOfSeq, LenProperties
  <2>4. row.form # << >> /\ row.word \in Words
    BY <1>2, <2>1 DEF IsDictionary
  <2> HIDE DEF row
  <2>5. row.form \in Seq(DOMAIN CatsOf) /\ row.word.left \in Int
    BY <2>3 DEF IndexRow
  <2>6. Len(row.form) \in Nat \ {0}
    <3> DEFINE f == row.form
    <3>1. f \in Seq(DOMAIN CatsOf) /\ f # << >>
      BY <2>4, <2>5
    <3> HIDE DEF f
    <3>2. Len(f) \in Nat \ {0}
      BY <3>1, LenProperties, EmptySeq
    <3> QED BY <3>2 DEF f
  <2>7. at + Len(row.form) \in at + 1 .. Length(text)
    BY <1>1, <2>1, <2>6 DEF HasFormAt, row
  <2>8. [end |-> at + Len(row.form), word |-> row.word] \in V
    BY <2>4, <2>7 DEF Offers
  <2>9. EndsAt(text, at + Len(row.form)) => IsOffered(text, at, row)
    BY <2>1, <2>5 DEF IsOffered, IsIndexed, row
  <2> QED BY <2>2, <2>8, <2>9 DEF row
<1>8. ASSUME NEW h \in ToSet(kept) PROVE of(h) \in V /\ of(h) \in D
  <2>1. PICK d \in 1 .. n : \E i \in RowsAt(ds[d], text, at) : h = HitOf(ds[d], d - 1, at, i)
    BY <1>4, <1>5
  <2>2. PICK i \in RowsAt(ds[d], text, at) : h = HitOf(ds[d], d - 1, at, i)
    BY <2>1
  <2> DEFINE row == ds[d][i]
             e == at + Len(row.form)
  <2>3. h.end = e /\ MayEnd(h.end)
    BY <1>5, <2>2 DEF HitOf
  <2>4. EndsAt(text, e)
    BY <2>3 DEF MayEnd, EndsAt
  <2>5. of(h) = [end |-> e, word |-> row.word]
    BY <1>6, <2>2
  <2>6. row \in RowsOf(ds) /\ IsOffered(text, at, row) /\ [end |-> e, word |-> row.word] \in V
    BY <1>7, <2>4
  <2> HIDE DEF row, of, V
  <2>7. [end |-> e, word |-> row.word] \in D
    BY <2>6 DEF DictionaryAt
  <2> QED BY <2>5, <2>6, <2>7
<1>9. ASSUME NEW w \in D PROVE \E h \in ToSet(kept) : w = of(h)
  <2>1. PICK row \in RowsOf(ds) : IsOffered(text, at, row)
                                  /\ w = [end |-> at + Len(row.form), word |-> row.word]
    BY <1>9 DEF DictionaryAt
  <2>2. PICK d \in 1 .. n : row \in ToSet(ds[d])
    BY <1>2 DEF RowsOf, ToSet
  <2>3. PICK i \in DOMAIN ds[d] : row = ds[d][i]
    BY <2>2 DEF ToSet
  <2>4. row \in IndexRow
    BY <1>2, <2>3, ElementOfSeq, LenProperties
  <2>5. row.word.left \in Int
    BY <2>4 DEF IndexRow
  <2>6. IsIndexed(row) /\ HasFormAt(text, at, row.form) /\ EndsAt(text, at + Len(row.form))
    BY <2>1, <2>5 DEF IsOffered, IsIndexed
  <2>7. i \in RowsAt(ds[d], text, at)
    BY <2>3, <2>6 DEF RowsAt
  <2> DEFINE h == HitOf(ds[d], d - 1, at, i)
  <2>8. h \in ToSet(found) /\ h.end = at + Len(row.form)
    BY <1>4, <2>3, <2>7 DEF HitOf
  <2>9. MayEnd(h.end)
    BY <2>6, <2>8 DEF MayEnd, EndsAt
  <2>10. h \in ToSet(kept)
    BY <1>5, <2>8, <2>9
  <2>11. w = of(h)
    BY <1>6, <2>1, <2>3, <2>7
  <2> QED BY <2>10, <2>11
<1> HIDE DEF of, V, D
<1> DEFINE g == [h \in ToSet(kept) |-> of(h)]
<1>10. M = [k \in DOMAIN kept |-> g[kept[k]]]
  <2>1. \A k \in DOMAIN kept : kept[k] \in ToSet(kept)
    BY DEF ToSet
  <2>2. \A k \in DOMAIN kept : g[kept[k]] = of(kept[k])
    BY <2>1
  <2> HIDE DEF g
  <2> QED BY <2>2
<1>11. \A h \in ToSet(kept) : g[h] = of(h)
  OBVIOUS
<1>12. \A h \in ToSet(kept) : g[h] \in V
  BY <1>8, <1>11
<1> HIDE DEF g
<1>13. M \in Seq(V) /\ ToSet(M) = {g[x] : x \in ToSet(kept)}
  <2>1. M = Mapped(kept, g)
    BY <1>10, Zenon DEF Mapped
  <2> HIDE DEF M
  <2> QED BY <1>5, <1>12, <2>1, MappedElements
<1>14. {g[x] : x \in ToSet(kept)} = D
  BY <1>8, <1>9, <1>11
<1> QED BY <1>3, <1>13, <1>14 DEF V, D

(* The words of a provider begin where they should and end in the text,    *)
(* whatever words were there before.                                       *)
LEMMA UnknownWithin ==
  ASSUME NEW chars, NEW o, IsPlace(chars, o), NEW p, IsProvider(p), NEW others
  PROVE  UnknownAt(TextOf(chars), p, o, others) \subseteq Offers(TextOf(chars), o)
<1> DEFINE t == TextOf(chars)
           n == Len(chars)
           V == Offers(t, o)
<1>1. Length(t) = n /\ n \in Nat /\ o \in Nat /\ V = [end : o + 1 .. n, word : Words]
  BY PlaceFacts DEF Offers
<1>2. CASE p.kind = "mecab"
  <2>1. ASSUME NEW c \in CategoriesAsked(t, p, o, others) PROVE CategoryWords(t, p, o, c) \subseteq V
    <3> DEFINE info == p.categories[c]
               oovs == p.oovs[c]
    <3>1. c \in DOMAIN p.categories /\ c \in DOMAIN p.oovs
      BY Zenon DEF CategoriesAsked, IsAsked
    <3>2. info \in CategoryInfo /\ oovs \in Seq(Words)
      BY <1>2, <3>1 DEF IsProvider
    <3> HIDE DEF info, oovs
    <3>3. /\ LengthsInOrder(t, o, info) \in Seq(1 .. n - o)
          /\ ToSet(LengthsInOrder(t, o, info)) = RunLengths(t, o, info)
      BY <3>2, LengthsFacts
    <3>4. RunLengths(t, o, info) \subseteq 1 .. n - o
      <4> DEFINE s == LengthsInOrder(t, o, info)
                 L == 1 .. n - o
      <4> HIDE DEF s, L
      <4>1. s \in Seq(L) /\ ToSet(s) = RunLengths(t, o, info)
        BY <3>3 DEF s, L
      <4>2. ToSet(s) \subseteq L
        BY <4>1, LenProperties, ElementOfSeq DEF ToSet
      <4> QED BY <4>1, <4>2 DEF L
    <3>5. ToSet(oovs) \subseteq Words
      BY <3>2, LenProperties, ElementOfSeq DEF ToSet
    <3>6. ASSUME NEW l \in RunLengths(t, o, info), NEW w \in ToSet(oovs)
          PROVE  [end |-> o + l, word |-> w] \in V
      <4>1. o + l \in o + 1 .. n /\ w \in Words
        BY <1>1, <3>4, <3>5
      <4> HIDE DEF V, t
      <4> QED BY <1>1, <4>1
    <3>7. CategoryWords(t, p, o, c)
            = {[end |-> o + l, word |-> w] : l \in RunLengths(t, o, info), w \in ToSet(oovs)}
      BY DEF CategoryWords, info, oovs
    <3> HIDE DEF V
    <3> QED BY <3>6, <3>7
  <2>2. UnknownAt(t, p, o, others)
          = UNION {CategoryWords(t, p, o, c) : c \in CategoriesAsked(t, p, o, others)}
    BY <1>2, Zenon DEF UnknownAt, RunWordsAt
  <2> HIDE DEF t, V
  <2>3. UnknownAt(t, p, o, others) \subseteq V
    BY <2>1, <2>2
  <2> QED BY <2>3 DEF t, V
<1>3. CASE p.kind = "simple"
  <2>1. o + WordCandidateLength(t, o) \in o + 1 .. n
    BY CandidateBounds
  <2>2. p.word \in Words
    BY <1>3 DEF IsProvider
  <2>3. UnknownAt(t, p, o, others) = IF others # {} THEN {}
          ELSE {[end |-> o + WordCandidateLength(t, o), word |-> p.word]}
    BY <1>3 DEF UnknownAt
  <2>4. [end |-> o + WordCandidateLength(t, o), word |-> p.word] \in V
    BY <1>1, <2>1, <2>2
  <2> QED BY <2>3, <2>4
<1>4. CASE p.kind = "regex"
  <2> DEFINE l == MatchLength(p, t, o)
             x == [end |-> o + l, word |-> p.word]
  <2>1. p.word \in Words /\ p.maxLength \in Nat
    BY <1>4 DEF IsProvider
  <2>2. l \in 0 .. n - o
    BY <2>1, MatchBounds
  <2>3. UnknownAt(t, p, o, others)
          = IF IsInsideRun(p, t, o) \/ l = 0 \/ \E w \in others : w.end = o + l THEN {} ELSE {x}
    BY <1>4 DEF UnknownAt
  <2>4. l # 0 => x \in V
    <3> HIDE DEF l
    <3> QED BY <1>1, <2>1, <2>2
  <2> HIDE DEF x, l, V
  <2> QED BY <2>3, <2>4 DEF V
<1> QED BY <1>2, <1>3, <1>4 DEF IsProvider

AreProviders(ps) == Len(ps) \in Nat /\ \A k \in 1 .. Len(ps) : IsProvider(ps[k])

(* Each provider adds to what is known what it has to.                     *)
KnownStepwise(t, ps, o, known) ==
  /\ KnownAfter(t, ps, o, known, 0) = known
  /\ \A k \in 1 .. Len(ps) :
       KnownAfter(t, ps, o, known, k)
         = KnownAfter(t, ps, o, known, k - 1)
             \cup UnknownAt(t, ps[k], o, KnownAfter(t, ps, o, known, k - 1))

(* Each provider adds its words to those known before it, so the recursion *)
(* of OfferedWords is defined.                                             *)
LEMMA KnownFacts ==
  ASSUME NEW chars, NEW o, IsPlace(chars, o), NEW ps, AreProviders(ps),
         NEW known, known \subseteq Offers(TextOf(chars), o)
  PROVE  KnownStepwise(TextOf(chars), ps, o, known)
<1> DEFINE t == TextOf(chars)
           n == Len(ps)
           V == SUBSET Offers(t, o)
           more(i, s) == IF i = 0 THEN known ELSE s \cup UnknownAt(t, ps[i], o, s)
           next == [q \in (0 .. n) \X V |-> more(q[1], q[2])]
           Rec(f) == f = [j \in 0 .. n |-> IF j = 0 THEN known
                            ELSE f[j - 1] \cup UnknownAt(t, ps[j], o, f[j - 1])]
           words == CHOOSE f : Rec(f)
<1>1. n \in Nat /\ \A k \in 1 .. n : IsProvider(ps[k])
  BY DEF AreProviders
<1>2. \A k : KnownAfter(t, ps, o, known, k) = words[k]
  BY Zenon DEF KnownAfter
<1>3. \A i \in 0 .. n, s \in V : more(i, s) \in V
  <2> SUFFICES ASSUME NEW i \in 0 .. n, NEW s \in V PROVE more(i, s) \in V
    OBVIOUS
  <2>1. CASE i = 0
    BY <2>1
  <2>2. CASE i # 0
    <3>1. IsProvider(ps[i])
      BY <1>1, <2>2
    <3>2. UnknownAt(t, ps[i], o, s) \subseteq Offers(t, o)
      BY <3>1, UnknownWithin
    <3> QED BY <2>2, <3>2
  <2> QED BY <2>1, <2>2
<1>4. known \in V
  OBVIOUS
<1> HIDE DEF V, more
<1>5. /\ next \in [(0 .. n) \X V -> V]
      /\ \A i \in 0 .. n, s \in V : next[<<i, s>>] = more(i, s)
  <2>1. ASSUME NEW q \in (0 .. n) \X V PROVE more(q[1], q[2]) \in V
    <3>1. q[1] \in 0 .. n /\ q[2] \in V
      OBVIOUS
    <3> QED BY <1>3, <3>1
  <2>2. ASSUME NEW i \in 0 .. n, NEW s \in V PROVE next[<<i, s>>] = more(i, s)
    <3>1. <<i, s>> \in (0 .. n) \X V /\ <<i, s>>[1] = i /\ <<i, s>>[2] = s
      OBVIOUS
    <3> HIDE DEF n
    <3> QED BY <3>1
  <2> QED BY <2>1, <2>2
<1> HIDE DEF next
<1>6. PICK f : IsStepwise(f, 0, n, V, known, next)
  <2> HIDE DEF n
  <2>1. 0 \in Nat /\ 0 <= n
    BY <1>1
  <2> QED BY <1>1, <1>4, <1>5, <2>1, StepwiseExists
<1>7. Rec(f)
  <2> DEFINE body(j) == IF j = 0 THEN known ELSE f[j - 1] \cup UnknownAt(t, ps[j], o, f[j - 1])
  <2>1. \A j \in 0 .. n : f[j] = body(j)
    <3> SUFFICES ASSUME NEW j \in 0 .. n PROVE f[j] = body(j)
      OBVIOUS
    <3>1. f[j] = IF j = 0 THEN known ELSE next[<<j, f[j - 1]>>]
      BY <1>6 DEF IsStepwise
    <3>2. CASE j = 0
      BY <3>1, <3>2
    <3>3. CASE j # 0
      <4>1. j - 1 \in 0 .. n
        BY <1>1, <3>3
      <4>2. f[j - 1] \in V
        BY <1>6, <4>1 DEF IsStepwise
      <4>3. next[<<j, f[j - 1]>>] = more(j, f[j - 1])
        BY <1>5, <4>2
      <4> QED BY <3>1, <3>3, <4>3 DEF more
    <3> QED BY <3>2, <3>3
  <2>2. f = [j \in 0 .. n |-> body(j)]
    <3> HIDE DEF body
    <3> QED BY <1>6, <2>1 DEF IsStepwise
  <2> QED BY <2>2
<1>8. Rec(words)
  <2> HIDE DEF Rec
  <2> QED BY <1>7, Zenon
<1> HIDE DEF words
<1>9. \A j \in 0 .. n : words[j] = IF j = 0 THEN known
                                    ELSE words[j - 1] \cup UnknownAt(t, ps[j], o, words[j - 1])
  <2> DEFINE body(j) == IF j = 0 THEN known
                        ELSE words[j - 1] \cup UnknownAt(t, ps[j], o, words[j - 1])
  <2>1. words = [j \in 0 .. n |-> body(j)]
    BY <1>8
  <2>2. \A j \in 0 .. n : words[j] = body(j)
    <3> HIDE DEF body
    <3> QED BY <2>1
  <2> QED BY <2>2
<1>10. words[0] = known
  <2>1. 0 \in 0 .. n
    BY <1>1
  <2> QED BY <1>9, <2>1
<1>11. \A k \in 1 .. n : words[k] = words[k - 1] \cup UnknownAt(t, ps[k], o, words[k - 1])
  <2>1. \A k \in 1 .. n : k \in 0 .. n /\ k # 0
    BY <1>1
  <2> HIDE DEF n, t
  <2> QED BY <1>9, <2>1
<1> HIDE DEF t, n
<1>12. KnownStepwise(t, ps, o, known)
  BY <1>2, <1>10, <1>11, Zenon DEF KnownStepwise, n
<1> QED BY <1>12 DEF t

(* There is a provider, and each is one of the three.                      *)
LEMMA SetupFacts ==
  ASSUME setup \in Setups
  PROVE  /\ AreProviders(setup.providers) /\ Len(setup.providers) # 0
         /\ IsProvider(setup.providers[Len(setup.providers)])
<1> DEFINE ps == setup.providers
<1>1. ps \in Seq(ToSet(ps)) /\ ps # << >> /\ \A k \in DOMAIN ps : IsProvider(ps[k])
  BY SetupsAssumption
<1> HIDE DEF ps
<1>2. DOMAIN ps = 1 .. Len(ps) /\ Len(ps) \in Nat /\ Len(ps) # 0
  BY <1>1, LenProperties, EmptySeq
<1>3. Len(ps) \in 1 .. Len(ps)
  BY <1>2
<1>4. AreProviders(ps) /\ IsProvider(ps[Len(ps)])
  BY <1>1, <1>2, <1>3 DEF AreProviders
<1> QED BY <1>2, <1>4 DEF ps

(* The rows a text has at a boundary give words that begin there.          *)
LEMMA FallbackFacts ==
  ASSUME NEW chars, NEW o, IsPlace(chars, o), NEW p, IsProvider(p)
  PROVE  KnownAfter(TextOf(chars), <<p>>, o, {}, 1) = UnknownAt(TextOf(chars), p, o, {})
<1> DEFINE t == TextOf(chars)
           ps == <<p>>
           A(k) == KnownAfter(t, ps, o, {}, k)
<1>1. AreProviders(ps) /\ Len(ps) = 1 /\ ps[1] = p
  BY DEF AreProviders
<1>2. KnownStepwise(t, ps, o, {})
  <2> HIDE DEF ps
  <2> QED BY <1>1, KnownFacts
<1>3. A(0) = {} /\ A(1) = A(1 - 1) \cup UnknownAt(t, ps[1], o, A(1 - 1))
  <2> HIDE DEF ps
  <2> QED BY <1>1, <1>2 DEF KnownStepwise
<1>4. 1 - 1 = 0
  OBVIOUS
<1>5. A(1) = A(0) \cup UnknownAt(t, p, o, A(0))
  <2> HIDE DEF ps, A, t
  <2>1. A(1) = A(0) \cup UnknownAt(t, ps[1], o, A(0))
    BY <1>3, <1>4
  <2> QED BY <1>1, <2>1
<1> HIDE DEF A, t
<1>6. A(1) = UnknownAt(t, p, o, {})
  BY <1>3, <1>5
<1> QED BY <1>6, Zenon DEF A, t

-----------------------------------------------------------------------------
(***************************************************************************)
(* Where the builder stands between two steps of OfferedWords.  At a       *)
(* boundary that it has just come to no word begins yet.  While it inserts *)
(* words there, those inserted and those still to be inserted are together *)
(* what OfferedWords knows at that point: the words of the dictionaries,   *)
(* then with those of the providers asked so far, then those of the last   *)
(* provider, when there were no others.                                    *)
(***************************************************************************)
Placed(S, o) == {[begin |-> o, end |-> x.end, word |-> x.word] : x \in S}

LastProvider == setup.providers[Len(setup.providers)]

KnownHere(k) ==
  KnownAfter(text, setup.providers, at, DictionaryAt(text, setup.dictionaries, at), k)

(* The providers asked by now, none of which has failed.                   *)
AskedWell(k) == \A j \in 1 .. k : ~FailsAt(text, setup.providers[j], at)

WordsStand ==
  asked = 0 /\ ToSet(node_buffer) \cup ToSet(todo) = DictionaryAt(text, setup.dictionaries, at)

UnknownStand ==
  /\ CanOovBow(text, at) /\ asked \in 1 .. Len(setup.providers) /\ AskedWell(asked)
  /\ ToSet(node_buffer) \cup ToSet(todo) = KnownHere(asked)

LastStand ==
  /\ IF CanOovBow(text, at)
     THEN AskedWell(Len(setup.providers)) /\ KnownHere(Len(setup.providers)) = {}
     ELSE DictionaryAt(text, setup.dictionaries, at) = {}
  /\ ~FailsAt(text, LastProvider, at)
  /\ ToSet(node_buffer) \cup ToSet(todo) = UnknownAt(text, LastProvider, at, {})

Inserting ==
  /\ at < size - 1 /\ HasPreviousNode(at)
  /\ node_buffer \in Seq(Offers(text, at)) /\ todo \in Seq(Offers(text, at))
  /\ bits = LengthBits(node_buffer, at)
  /\ created <=> node_buffer # << >>
  /\ Entered = Offered \cup Placed(ToSet(node_buffer), at)
  /\ stage = "words" => WordsStand
  /\ stage = "unknown" => UnknownStand
  /\ stage = "last" => LastStand

OfferInv ==
  /\ stage \in {"idle", "batch", "boundary", "words", "unknown", "last"}
  /\ stage # "idle" <=> phase = "building"
  /\ phase = "building" => size = Length(text) + 1
  /\ stage = "batch" => at = 0
  /\ stage \in {"batch", "boundary"} => Entered = Offered /\ created = FALSE /\ todo = << >>
  /\ stage \in {"words", "unknown", "last"} => Inserting

BuilderInv == LatticeInv /\ BatchInv /\ OfferInv

IsInserting == stage \in {"words", "unknown", "last"}
-----------------------------------------------------------------------------
(* Where the builder stands, when it inserts or is about to.               *)
LEMMA HereFacts ==
  ASSUME BuilderInv, phase = "building"
  PROVE  /\ setup \in Setups /\ text = TextOf(text.chars) /\ text.chars \in Texts
         /\ Length(text) = Len(text.chars) /\ Len(text.chars) \in Nat
         /\ size = Length(text) + 1 /\ at \in 0 .. size - 1
         /\ at < size - 1 => IsPlace(text.chars, at)
<1>1. stage # "idle" /\ size = Length(text) + 1 /\ at \in Nat
  BY DEF BuilderInv, OfferInv, LatticeInv, TypeOK
<1>2. setup \in Setups /\ text = TextOf(text.chars) /\ text.chars \in Texts
  BY <1>1 DEF BuilderInv, BatchInv
<1>3. Length(text) = Len(text.chars) /\ Len(text.chars) \in Nat
  BY <1>2, TextFacts DEF Length
<1>4. at \in 0 .. size - 1
  BY DEF BuilderInv, LatticeInv, Frontier
<1>5. at < size - 1 => IsPlace(text.chars, at)
  BY <1>1, <1>2, <1>3 DEF IsPlace
<1> QED BY <1>1, <1>2, <1>3, <1>4, <1>5

(* A word is to be inserted only where words are inserted.                 *)
LEMMA TodoFacts ==
  ASSUME BuilderInv, phase = "building", todo # << >>
  PROVE  IsInserting /\ Inserting
BY DEF BuilderInv, OfferInv, IsInserting

(* Words are inserted at a place of the text that is reached.              *)
LEMMA InsertingFacts ==
  ASSUME BuilderInv, IsInserting
  PROVE  phase = "building" /\ Inserting /\ IsPlace(text.chars, at)
<1>1. phase = "building" /\ Inserting
  BY DEF BuilderInv, OfferInv, IsInserting
<1> QED BY <1>1, HereFacts DEF Inserting

(* Every step of the builder is a step of the lattice.                     *)
LEMMA BuilderStepsAreLatticeSteps == BuilderInv /\ [BNext]_<<vars, bvars>> => [Next]_vars
<1> SUFFICES ASSUME BuilderInv, [BNext]_<<vars, bvars>> PROVE [Next]_vars
  OBVIOUS
<1>1. CASE UNCHANGED <<vars, bvars>>
  BY <1>1
<1>2. ASSUME NEW chars \in Texts, StartSentence(chars) PROVE Next
  <2>1. Reset(Len(chars)) /\ Len(chars) \in 1 .. MaxLen
    BY <1>2, TextsAssumption DEF StartSentence
  <2> QED BY <2>1 DEF Next
<1>3. ASSUME NEW i \in DOMAIN lanes, LaneStep(i) PROVE UNCHANGED vars
  BY <1>3, Zenon DEF LaneStep
<1>4. CASE NextDictionary
  BY <1>4 DEF NextDictionary
<1>5. CASE Skip
  BY <1>5 DEF Skip, Next
<1>6. CASE TakeMatches
  BY <1>6 DEF TakeMatches
<1>7. CASE InsertWord
  <2> DEFINE h == Head(todo)
  <2>1. Insert(h.end, h.word) /\ phase = "building" /\ todo # << >>
    BY <1>7 DEF InsertWord, Insert
  <2>2. todo \in Seq(Offers(text, at)) /\ size = Length(text) + 1 /\ Length(text) \in Nat
    BY <2>1, TodoFacts, HereFacts DEF Inserting
  <2>3. h \in Offers(text, at)
    <3> DEFINE V == Offers(text, at)
    <3> HIDE DEF V
    <3>1. todo \in Seq(V)
      BY <2>2 DEF V
    <3> QED BY <2>1, <3>1, HeadTailProperties DEF V
  <2>4. h.end \in at + 1 .. size - 1 /\ h.word \in Words
    <3>1. h \in [end : at + 1 .. Length(text), word : Words]
      BY <2>3, Zenon DEF Offers
    <3>2. size - 1 = Length(text)
      BY <2>2
    <3> HIDE DEF h
    <3> QED BY <3>1, <3>2
  <2> HIDE DEF h
  <2> QED BY <2>1, <2>4, Zenon DEF Next
<1>8. CASE AskProvider
  BY <1>8, Zenon DEF AskProvider, Take, Next
<1>9. CASE AskLastProvider
  BY <1>9, Zenon DEF AskLastProvider, Take, Next
<1>10. CASE FinishBoundary
  BY <1>10 DEF FinishBoundary, Next
<1>11. CASE Disconnected
  BY <1>11 DEF Disconnected, Next
<1>12. CASE Connect
  BY <1>12 DEF Connect, Next
<1>13. CASE FillTopPath
  BY <1>13 DEF FillTopPath, Next
<1> QED BY <1>1, <1>2, <1>3, <1>4, <1>5, <1>6, <1>7, <1>8, <1>9, <1>10, <1>11, <1>12, <1>13
        DEF BNext

(* The words in the rows.                                                  *)
EntryOf(n) ==
  [begin |-> n.begin, end |-> n.end,
   word |-> [left |-> n.left, right |-> n.right, cost |-> n.cost]]

(* A word is entered when it is in a row.                                  *)
LEMMA EnteredMembers ==
  \A w : w \in Entered <=> \E e \in DOMAIN ends_full : \E i \in DOMAIN ends_full[e] :
                             w = EntryOf(ends_full[e][i])
<1> DEFINE all == UNION {ToSet(ends_full[e]) : e \in DOMAIN ends_full}
<1>1. Entered = {EntryOf(n) : n \in all}
  BY Zenon DEF Entered, EntryOf
<1>2. \A n : n \in all <=> \E e \in DOMAIN ends_full : \E i \in DOMAIN ends_full[e] : n = ends_full[e][i]
  BY DEF ToSet
<1> HIDE DEF all
<1> QED BY <1>1, <1>2

(* The rows and their elements.                                            *)
LEMMA RowFacts ==
  ASSUME LatticeInv
  PROVE  /\ DOMAIN ends_full = DOMAIN ends
         /\ \A e \in DOMAIN ends :
              /\ e \in Nat /\ ends_full[e] \in Seq(Node) /\ ends[e] \in Seq(VNode)
              /\ DOMAIN ends_full[e] = 1 .. Len(ends_full[e])
              /\ \A i \in 1 .. Len(ends_full[e]) : ends_full[e][i] \in Node
<1>1. /\ ends_full \in [DOMAIN ends -> Seq(Node)] /\ ends \in [DOMAIN ends -> Seq(VNode)]
      /\ DOMAIN ends \subseteq Nat
  BY DEF LatticeInv, TypeOK
<1>2. \A e \in DOMAIN ends : ends_full[e] \in Seq(Node) /\ ends[e] \in Seq(VNode) /\ e \in Nat
  BY <1>1
<1>3. \A e \in DOMAIN ends : DOMAIN ends_full[e] = 1 .. Len(ends_full[e])
        /\ \A i \in 1 .. Len(ends_full[e]) : ends_full[e][i] \in Node
  BY <1>2, LenProperties, ElementOfSeq
<1> QED BY <1>1, <1>2, <1>3

(* A word is in the row of its end, begins before that and at no boundary  *)
(* behind the one the builder is at.                                       *)
LEMMA EnteredFacts ==
  ASSUME LatticeInv, phase # "new", NEW w \in Entered
  PROVE  /\ w.begin \in Nat /\ w.end \in Nat /\ w.begin < w.end /\ w.begin <= at
         /\ w.end \in DOMAIN ends /\ ends[w.end] # << >>
<1>1. PICK e \in DOMAIN ends_full : \E i \in DOMAIN ends_full[e] : w = EntryOf(ends_full[e][i])
  BY EnteredMembers
<1>2. PICK i \in DOMAIN ends_full[e] : w = EntryOf(ends_full[e][i])
  BY <1>1
<1>3. /\ e \in DOMAIN ends /\ e \in Nat /\ i \in 1 .. Len(ends_full[e]) /\ ends_full[e][i] \in Node
      /\ ends_full[e] \in Seq(Node) /\ ends[e] \in Seq(VNode)
  BY <1>2, RowFacts
<1>4. e # 0
  <2>1. ends_full[0] = << >>
    BY DEF LatticeInv, RowsAreParallel
  <2> QED BY <1>3, <2>1
<1>5. ends_full[e][i].end = e /\ ends_full[e][i].begin < e /\ Len(ends[e]) = Len(ends_full[e])
  BY <1>3, <1>4 DEF LatticeInv, RowsAreParallel
<1>6. ends_full[e][i].begin <= at
  BY <1>3, <1>4 DEF LatticeInv, Frontier
<1>7. w.begin = ends_full[e][i].begin /\ w.end = e /\ w.begin \in Nat
  <2> DEFINE node == ends_full[e][i]
  <2>1. node \in Node /\ node.end = e /\ w = EntryOf(node)
    BY <1>2, <1>3, <1>5
  <2> HIDE DEF node
  <2>2. w.begin = node.begin /\ w.end = e /\ w.begin \in Nat
    BY <2>1 DEF EntryOf, Node
  <2> QED BY <2>2 DEF node
<1>8. ends[e] # << >>
  <2> DEFINE row == ends[e]
  <2>1. Len(row) = Len(ends_full[e]) /\ Len(ends_full[e]) # 0
    BY <1>3, <1>5, LenProperties
  <2>2. Len(row) # 0
    BY <2>1
  <2> HIDE DEF row
  <2>3. row # << >>
    BY <2>2, EmptySeq
  <2> QED BY <2>3 DEF row
<1> QED BY <1>3, <1>5, <1>6, <1>7, <1>8

(* A boundary is reached when a word of an earlier one ends there.         *)
LEMMA ReachedFacts ==
  ASSUME LatticeInv, phase # "new"
  PROVE  HasPreviousNode(at) <=> at = 0 \/ \E w \in Offered : w.end = at
<1>1. at \in 0 .. size - 1 /\ size \in Nat /\ 0 .. size - 1 \subseteq DOMAIN ends
  BY DEF LatticeInv, TypeOK, Frontier
<1>2. CASE at = 0
  <2>1. ends[0] = <<[total |-> 0, right |-> BosId]>>
    BY DEF LatticeInv, RowsAreParallel
  <2>2. 0 \in DOMAIN ends
    BY <1>1, <1>2
  <2> QED BY <1>2, <2>1, <2>2 DEF HasPreviousNode
<1>3. CASE at # 0
  <2>1. ASSUME HasPreviousNode(at) PROVE \E w \in Offered : w.end = at
    <3>1. at \in DOMAIN ends /\ ends[at] # << >>
      BY <2>1 DEF HasPreviousNode
    <3>2. /\ Len(ends[at]) = Len(ends_full[at])
          /\ \A i \in 1 .. Len(ends_full[at]) : ends_full[at][i].end = at /\ ends_full[at][i].begin < at
      BY <1>3, <3>1 DEF LatticeInv, RowsAreParallel
    <3>3. /\ at \in DOMAIN ends_full /\ ends_full[at] \in Seq(Node) /\ ends[at] \in Seq(VNode)
          /\ DOMAIN ends_full[at] = 1 .. Len(ends_full[at])
      BY <3>1, RowFacts
    <3>4. Len(ends_full[at]) \in Nat \ {0}
      <4>1. Len(ends[at]) \in Nat /\ Len(ends[at]) # 0
        BY <3>1, <3>3, EmptySeq, LenProperties
      <4> QED BY <3>2, <4>1
    <3> DEFINE node == ends_full[at][1]
               w == EntryOf(node)
    <3>5. 1 \in 1 .. Len(ends_full[at])
      BY <3>4
    <3>6. w \in Entered
      BY <3>3, <3>5, EnteredMembers
    <3>7. w.begin < at /\ w.end = at
      BY <3>2, <3>5 DEF EntryOf
    <3> HIDE DEF w
    <3> QED BY <3>6, <3>7 DEF Offered
  <2>2. ASSUME NEW w \in Offered, w.end = at PROVE HasPreviousNode(at)
    <3>1. w \in Entered
      BY DEF Offered
    <3> QED BY <2>2, <3>1, EnteredFacts DEF HasPreviousNode
  <2> QED BY <1>3, <2>1, <2>2
<1> QED BY <1>2, <1>3

(* The same rows hold the same words.                                      *)
LEMMA SameRows == ASSUME ends_full' = ends_full PROVE Entered' = Entered
BY DEF Entered

(* At the next boundary all words there are begin before it.               *)
LEMMA NextRows ==
  ASSUME LatticeInv, phase # "new", ends_full' = ends_full, at' = at + 1
  PROVE  Entered' = Offered'
<1>1. at \in Nat
  BY DEF LatticeInv, TypeOK
<1>2. Entered' = Entered
  BY SameRows
<1>3. \A w \in Entered : w.begin < at'
  BY <1>1, EnteredFacts
<1> QED BY <1>2, <1>3 DEF Offered

(* After reset no row holds a word.                                        *)
LEMMA ResetRows ==
  ASSUME LatticeInv, NEW length \in Nat, Reset(length)
  PROVE  Entered' = {}
<1>1. ends_full' = [i \in DOMAIN ends_full \cup 0 .. (length + 1) - 1 |-> << >>]
  BY DEF Reset, ResetVec
<1>2. (\A w : w \in Entered <=> \E e \in DOMAIN ends_full : \E i \in DOMAIN ends_full[e] :
                                  w = EntryOf(ends_full[e][i]))'
  BY EnteredMembers, PTL
<1>3. ASSUME NEW w \in Entered' PROVE FALSE
  <2>1. \E e \in DOMAIN ends_full' : \E i \in DOMAIN ends_full'[e] : w = EntryOf(ends_full'[e][i])
    BY <1>2
  <2>2. PICK e \in DOMAIN ends_full' : \E i \in DOMAIN ends_full'[e] : TRUE
    BY <2>1
  <2>3. ends_full'[e] = << >>
    BY <1>1, <2>2
  <2>4. DOMAIN << >> = {}
    OBVIOUS
  <2> QED BY <2>2, <2>3, <2>4
<1> QED BY <1>3

(* An inserted word joins those of its boundary.                           *)
LEMMA InsertedRows ==
  ASSUME LatticeInv, NEW end \in at + 1 .. size - 1, NEW word \in Words, Insert(end, word)
  PROVE  Entered' = Entered \cup {[begin |-> at, end |-> end, word |-> word]}
<1> DEFINE node == [begin |-> at, end |-> end, left |-> word.left,
                    right |-> word.right, cost |-> word.cost]
           x == [begin |-> at, end |-> end, word |-> word]
<1>1. ends_full' = [ends_full EXCEPT ![end] = Append(@, node)]
  BY DEF Insert, RowOf
<1>2. at \in Nat /\ size \in Nat /\ 0 .. size - 1 \subseteq DOMAIN ends
  BY DEF LatticeInv, TypeOK
<1>3. end \in DOMAIN ends
  BY <1>2
<1>4. word \in [left : Ids, right : Ids, cost : Int]
  BY WordsAssumption
<1>5. EntryOf(node) = x
  BY <1>4 DEF EntryOf
<1>6. node \in Node
  BY <1>2, <1>4 DEF Node
<1> HIDE DEF node, x
<1> DEFINE row == ends_full[end]
<1>7. DOMAIN ends_full = DOMAIN ends /\ row \in Seq(Node)
  BY <1>3, RowFacts
<1>8. /\ ends_full'[end] = Append(row, node) /\ DOMAIN ends_full' = DOMAIN ends_full
      /\ \A e \in DOMAIN ends_full : e # end => ends_full'[e] = ends_full[e]
  BY <1>1, <1>3, <1>7
<1>9. /\ DOMAIN row = 1 .. Len(row) /\ DOMAIN Append(row, node) = 1 .. Len(row) + 1
      /\ Append(row, node)[Len(row) + 1] = node /\ Len(row) \in Nat
      /\ \A i \in 1 .. Len(row) : Append(row, node)[i] = row[i]
  <2> HIDE DEF row
  <2> QED BY <1>6, <1>7, AppendProperties, LenProperties
<1>10. \A w : w \in Entered' <=> \E e \in DOMAIN ends_full' : \E i \in DOMAIN ends_full'[e] :
                                  w = EntryOf(ends_full'[e][i])
  <2>1. (\A w : w \in Entered <=> \E e \in DOMAIN ends_full : \E i \in DOMAIN ends_full[e] :
                                    w = EntryOf(ends_full[e][i]))'
    BY EnteredMembers, PTL
  <2> QED BY <2>1
<1>11. ASSUME NEW w \in Entered' PROVE w \in Entered \/ w = x
  <2>1. PICK e \in DOMAIN ends_full' : \E i \in DOMAIN ends_full'[e] : w = EntryOf(ends_full'[e][i])
    BY <1>10
  <2>2. PICK i \in DOMAIN ends_full'[e] : w = EntryOf(ends_full'[e][i])
    BY <2>1
  <2>3. CASE e # end
    <3>1. e \in DOMAIN ends_full /\ i \in DOMAIN ends_full[e] /\ w = EntryOf(ends_full[e][i])
      BY <1>8, <2>2, <2>3
    <3> QED BY <3>1, EnteredMembers
  <2>4. CASE e = end
    <3>1. i \in 1 .. Len(row) + 1 /\ w = EntryOf(Append(row, node)[i])
      BY <1>8, <1>9, <2>2, <2>4
    <3>2. CASE i = Len(row) + 1
      BY <1>5, <1>9, <3>1, <3>2
    <3>3. CASE i # Len(row) + 1
      <4>1. i \in 1 .. Len(row) /\ w = EntryOf(row[i])
        BY <1>9, <3>1, <3>3
      <4>2. end \in DOMAIN ends_full /\ i \in DOMAIN ends_full[end] /\ w = EntryOf(ends_full[end][i])
        BY <1>3, <1>7, <1>9, <4>1
      <4> QED BY <4>2, EnteredMembers
    <3> QED BY <3>2, <3>3
  <2> QED BY <2>3, <2>4
<1>12. ASSUME NEW w \in Entered PROVE w \in Entered'
  <2>1. PICK e \in DOMAIN ends_full : \E i \in DOMAIN ends_full[e] : w = EntryOf(ends_full[e][i])
    BY EnteredMembers
  <2>2. PICK i \in DOMAIN ends_full[e] : w = EntryOf(ends_full[e][i])
    BY <2>1
  <2>3. i \in DOMAIN ends_full'[e] /\ ends_full'[e][i] = ends_full[e][i]
    <3>1. CASE e # end
      BY <1>8, <2>2, <3>1
    <3>2. CASE e = end
      <4>1. i \in 1 .. Len(row)
        BY <1>9, <2>2, <3>2
      <4>2. i \in 1 .. Len(row) + 1
        BY <1>9, <4>1
      <4> QED BY <1>8, <1>9, <3>2, <4>1, <4>2
    <3> QED BY <3>1, <3>2
  <2> QED BY <1>8, <1>10, <2>2, <2>3
<1>13. x \in Entered'
  <2>1. end \in DOMAIN ends_full' /\ Len(row) + 1 \in DOMAIN ends_full'[end]
        /\ x = EntryOf(ends_full'[end][Len(row) + 1])
    <3>1. Len(row) + 1 \in 1 .. Len(row) + 1
      BY <1>9
    <3> QED BY <1>3, <1>5, <1>7, <1>8, <1>9, <3>1
  <2> QED BY <1>10, <2>1
<1>14. Entered' = Entered \cup {x}
  BY <1>11, <1>12, <1>13
<1> QED BY <1>14 DEF x

(* A sentence begins with no words.                                        *)
LEMMA StartOfferInv ==
  ASSUME BuilderInv, NEW chars \in Texts, StartSentence(chars)
  PROVE  OfferInv'
<1>1. Reset(Len(chars)) /\ text' = TextOf(chars) /\ Len(chars) \in Nat /\ todo' = << >>
  BY TextFacts DEF StartSentence
<1>2. Length(text') = Len(chars)
  BY <1>1, TextFacts
<1>3. phase' = "building" /\ size' = Len(chars) + 1 /\ at' = 0 /\ created' = FALSE
  BY <1>1 DEF Reset
<1>4. Entered' = {}
  BY <1>1, ResetRows DEF BuilderInv
<1>5. Offered' = {}
  BY <1>4 DEF Offered
<1>6. stage' \in {"batch", "boundary"}
  BY DEF StartSentence
<1> QED BY <1>1, <1>2, <1>3, <1>4, <1>5, <1>6 DEF OfferInv

(* The steps of the lookup leave rows and text alone.                      *)
LEMMA LookupOfferInv ==
  ASSUME BuilderInv, UNCHANGED <<vars, text, todo>>, stage = "batch",
         stage' \in {"batch", "boundary"}
  PROVE  OfferInv'
<1>1. Entered' = Entered /\ Offered' = Offered
  BY DEF Entered, Offered, vars
<1>2. UNCHANGED <<at, size, phase, created, text, todo>>
  BY DEF vars
<1> QED BY <1>1, <1>2 DEF BuilderInv, OfferInv

(* The boundary is left: none of its words is left to insert.              *)
LEMMA LeaveOfferInv ==
  ASSUME BuilderInv, phase = "building", UNCHANGED <<ends_full, size, phase, text, todo>>,
         at' = at + 1, created' = FALSE, todo = << >>, stage' = "boundary"
  PROVE  OfferInv'
<1>1. Entered' = Offered'
  BY NextRows DEF BuilderInv
<1>2. size' = Length(text)' + 1
  BY HereFacts
<1> QED BY <1>1, <1>2 DEF OfferInv

(* Nothing is promised when the builder has stopped.                       *)
LEMMA StopOfferInv ==
  ASSUME phase' # "building", stage' = "idle" PROVE OfferInv'
BY DEF OfferInv

(* While words are inserted, what stands in the rows for them.             *)
LEMMA TakeOfferInv == ASSUME BuilderInv, TakeMatches PROVE OfferInv'
<1>1. stage = "boundary" /\ phase = "building" /\ at < size - 1 /\ HasPreviousNode(at)
  BY DEF TakeMatches, BuilderInv, OfferInv
<1>2. Entered = Offered /\ created = FALSE
  BY <1>1 DEF BuilderInv, OfferInv
<1>3. UNCHANGED <<ends, ends_full, size, at, created, phase, setup, text>>
  BY DEF TakeMatches, vars
<1>4. todo' = Matches /\ node_buffer' = << >> /\ bits' = {} /\ asked' = 0 /\ stage' = "words"
  BY DEF TakeMatches
<1>5. setup \in Setups /\ text = TextOf(text.chars) /\ IsPlace(text.chars, at)
      /\ size = Length(text) + 1 /\ Length(text) \in Nat /\ at \in Nat
  BY <1>1, HereFacts
<1>6. setup.pipelined => match_cache[at] = Lookup(Indices, text.chars, at)
  <2>1. at \in 0 .. Length(text) - 1
    BY <1>1, <1>5
  <2> QED BY <1>1, <2>1 DEF BuilderInv, BatchInv, BatchReproducesLookup
<1>7. /\ Matches \in Seq(Offers(text, at))
      /\ ToSet(Matches) = DictionaryAt(text, setup.dictionaries, at)
  BY <1>5, <1>6, MatchesFacts
<1>8. Entered' = Entered /\ Offered' = Offered
  BY <1>3 DEF Entered, Offered
<1>9. << >> \in Seq(Offers(text, at)) /\ ToSet(<< >>) = {}
  BY NoWordFacts
<1>10. LengthBits(<< >>, at) = {} /\ Placed({}, at) = {}
  BY DEF LengthBits, Placed
<1>11. WordsStand'
  <2> DEFINE D == DictionaryAt(text, setup.dictionaries, at)
  <2>1. WordsStand' <=> asked' = 0 /\ ToSet(node_buffer') \cup ToSet(todo') = D
    BY <1>3, Zenon DEF WordsStand
  <2> HIDE DEF D
  <2>2. ToSet(node_buffer') = {} /\ ToSet(todo') = D
    BY <1>4, <1>7, <1>9 DEF D
  <2> QED BY <1>4, <2>1, <2>2
<1>12. Inserting'
  <2>1. (at < size - 1)' /\ (HasPreviousNode(at))'
    BY <1>1, <1>3 DEF HasPreviousNode
  <2>2. node_buffer' \in Seq(Offers(text', at')) /\ todo' \in Seq(Offers(text', at'))
    BY <1>3, <1>4, <1>7, <1>9, Zenon
  <2>3. bits' = LengthBits(node_buffer', at')
    BY <1>3, <1>4, <1>10, Zenon
  <2>4. created' <=> node_buffer' # << >>
    BY <1>2, <1>3, <1>4
  <2>5. Entered' = Offered' \cup Placed(ToSet(node_buffer'), at')
    <3>1. Placed(ToSet(node_buffer'), at') = {}
      BY <1>3, <1>4, <1>9, <1>10, Zenon
    <3> QED BY <1>2, <1>8, <3>1
  <2> QED BY <1>4, <1>11, <2>1, <2>2, <2>3, <2>4, <2>5 DEF Inserting
<1>13. phase' = "building" /\ size' = Length(text)' + 1
  <2>1. Length(text)' = Length(text)
    BY <1>3, Zenon
  <2> QED BY <1>1, <1>3, <1>5, <2>1
<1> QED BY <1>4, <1>12, <1>13 DEF OfferInv

(* One more element.                                                       *)
LEMMA AppendToSet ==
  ASSUME NEW V, NEW s \in Seq(V), NEW x \in V
  PROVE  /\ Append(s, x) \in Seq(V) /\ Append(s, x) # << >>
         /\ ToSet(Append(s, x)) = ToSet(s) \cup {x}
<1> DEFINE a == Append(s, x)
<1>1. /\ a \in Seq(V) /\ Len(a) = Len(s) + 1 /\ a[Len(s) + 1] = x
      /\ \A i \in 1 .. Len(s) : a[i] = s[i]
  BY AppendProperties
<1>2. DOMAIN s = 1 .. Len(s) /\ Len(s) \in Nat
  BY LenProperties
<1> HIDE DEF a
<1>3. DOMAIN a = 1 .. Len(s) + 1
  BY <1>1, LenProperties
<1>4. a # << >>
  BY <1>1, <1>2, EmptySeq
<1>5. ToSet(a) = ToSet(s) \cup {x}
  <2>1. \A i \in 1 .. Len(s) + 1 : i \in 1 .. Len(s) \/ i = Len(s) + 1
    BY <1>2
  <2>2. \A i \in 1 .. Len(s) : i \in 1 .. Len(s) + 1
    BY <1>2
  <2>3. Len(s) + 1 \in 1 .. Len(s) + 1
    BY <1>2
  <2> QED BY <1>1, <1>2, <1>3, <2>1, <2>2, <2>3 DEF ToSet
<1> QED BY <1>1, <1>4, <1>5 DEF a

(* A sequence is its first element and the rest.                           *)
LEMMA TailToSet ==
  ASSUME NEW V, NEW s \in Seq(V), s # << >>
  PROVE  Head(s) \in V /\ Tail(s) \in Seq(V) /\ ToSet(s) = {Head(s)} \cup ToSet(Tail(s))
<1>1. Head(s) \in V /\ Tail(s) \in Seq(V) /\ Len(s) \in Nat \ {0} /\ DOMAIN s = 1 .. Len(s)
  BY HeadTailProperties, LenProperties, EmptySeq
<1>2. /\ Head(s) = s[1] /\ Len(Tail(s)) = Len(s) - 1
      /\ \A i \in 1 .. Len(s) - 1 : Tail(s)[i] = s[i + 1]
  BY <1>1, HeadTailProperties
<1> DEFINE t == Tail(s)
<1>3. DOMAIN t = 1 .. Len(s) - 1
  BY <1>1, <1>2, LenProperties
<1> HIDE DEF t
<1>4. \A x : x \in ToSet(t) <=> \E i \in 1 .. Len(s) - 1 : x = s[i + 1]
  BY <1>2, <1>3 DEF ToSet, t
<1>5. \A x : x \in ToSet(s) <=> \E i \in 1 .. Len(s) : x = s[i]
  BY <1>1 DEF ToSet
<1>6. ASSUME NEW x \in ToSet(s) PROVE x = s[1] \/ x \in ToSet(t)
  <2>1. PICK i \in 1 .. Len(s) : x = s[i]
    BY <1>5
  <2>2. i = 1 \/ (i - 1 \in 1 .. Len(s) - 1 /\ i - 1 + 1 = i)
    BY <1>1
  <2> QED BY <1>4, <2>1, <2>2
<1>7. ASSUME NEW x \in ToSet(t) PROVE x \in ToSet(s)
  <2>1. PICK i \in 1 .. Len(s) - 1 : x = s[i + 1]
    BY <1>4
  <2>2. i + 1 \in 1 .. Len(s)
    BY <1>1
  <2> QED BY <1>5, <2>1, <2>2
<1>8. s[1] \in ToSet(s)
  <2>1. 1 \in 1 .. Len(s)
    BY <1>1
  <2> QED BY <1>5, <2>1
<1>9. ToSet(s) = {s[1]} \cup ToSet(t)
  BY <1>6, <1>7, <1>8
<1> QED BY <1>1, <1>2, <1>9 DEF t

(* What stands at a boundary does not depend on which of its words have    *)
(* been inserted already.                                                  *)
LEMMA SameStand ==
  ASSUME UNCHANGED <<text, setup, at, asked>>,
         ToSet(node_buffer') \cup ToSet(todo') = ToSet(node_buffer) \cup ToSet(todo)
  PROVE  /\ WordsStand => WordsStand'
         /\ UnknownStand => UnknownStand'
         /\ LastStand => LastStand'
<1>1. text' = text /\ setup' = setup /\ at' = at /\ asked' = asked
  OBVIOUS
<1>2. WordsStand => WordsStand'
  BY <1>1, Zenon DEF WordsStand
<1>3. \A k : KnownHere(k)' = KnownHere(k) /\ (AskedWell(k)' <=> AskedWell(k))
  BY <1>1, Zenon DEF KnownHere, AskedWell
<1>4. UnknownStand => UnknownStand'
  <2>1. KnownHere(asked)' = KnownHere(asked) /\ (AskedWell(asked)' <=> AskedWell(asked))
    BY <1>1, Zenon DEF KnownHere, AskedWell
  <2> QED BY <1>1, <2>1, Zenon DEF UnknownStand
<1>5. LastStand => LastStand'
  BY <1>1, Zenon DEF LastStand, LastProvider, KnownHere, AskedWell
<1> QED BY <1>2, <1>4, <1>5

(* A word that is inserted goes from those to be inserted to those         *)
(* inserted, and its length into CreatedWords.                             *)
LEMMA InsertOfferInv == ASSUME BuilderInv, LatticeInv', InsertWord PROVE OfferInv'
<1> DEFINE h == Head(todo)
           V == Offers(text, at)
           x == [begin |-> at, end |-> h.end, word |-> h.word]
<1>1. Insert(h.end, h.word) /\ phase = "building" /\ todo # << >>
  BY DEF InsertWord, Insert
<1>2. IsInserting /\ Inserting
  BY <1>1, TodoFacts
<1>3. size = Length(text) + 1 /\ Length(text) \in Nat /\ at \in Nat
  BY <1>1, HereFacts
<1>4. UNCHANGED <<size, at, phase, setup, text, stage, asked>> /\ created' = TRUE
  BY <1>1 DEF InsertWord, Insert
<1>5. /\ todo' = Tail(todo) /\ node_buffer' = Append(node_buffer, h)
      /\ bits' = AddWord(bits, h.end - at)
  BY DEF InsertWord
<1>6. node_buffer \in Seq(V) /\ todo \in Seq(V)
  BY <1>2 DEF Inserting
<1>7. h \in V /\ Tail(todo) \in Seq(V) /\ ToSet(todo) = {h} \cup ToSet(Tail(todo))
  <2> HIDE DEF V, h
  <2> QED BY <1>1, <1>6, TailToSet DEF h
<1>8. h.end \in at + 1 .. size - 1 /\ h.word \in Words /\ h.end \in Nat
  <2>1. h \in [end : at + 1 .. Length(text), word : Words]
    BY <1>7, Zenon DEF Offers
  <2>2. size - 1 = Length(text)
    BY <1>3
  <2> HIDE DEF h
  <2>3. h.end \in at + 1 .. size - 1 /\ h.word \in Words
    BY <2>1, <2>2
  <2> QED BY <1>3, <2>3
<1>9. Entered' = Entered \cup {x}
  <2> HIDE DEF h
  <2> QED BY <1>1, <1>8, InsertedRows DEF BuilderInv
<1>10. Offered' = Offered
  <2>1. ~(at < at)
    BY <1>3
  <2>2. x.begin = at
    OBVIOUS
  <2> HIDE DEF x
  <2> QED BY <1>4, <1>9, <2>1, <2>2 DEF Offered
<1>11. /\ node_buffer' \in Seq(V) /\ node_buffer' # << >>
       /\ ToSet(node_buffer') = ToSet(node_buffer) \cup {h}
  <2> HIDE DEF V, h
  <2> QED BY <1>5, <1>6, <1>7, AppendToSet
<1>12. bits' = LengthBits(node_buffer', at)
  <2>1. bits = LengthBits(node_buffer, at)
    BY <1>2 DEF Inserting
  <2>2. \A nb : LengthBits(nb, at) = {BitOf(w.end - at) : w \in ToSet(nb)}
    BY DEF LengthBits, ToSet
  <2>3. bits' = bits \cup {BitOf(h.end - at)}
    BY <1>5 DEF AddWord
  <2>4. bits = {BitOf(w.end - at) : w \in ToSet(node_buffer)}
    BY <2>1, <2>2
  <2>5. LengthBits(node_buffer', at) = {BitOf(w.end - at) : w \in ToSet(node_buffer')}
    BY <2>2
  <2> HIDE DEF h
  <2> QED BY <1>11, <2>3, <2>4, <2>5
<1>13. Entered' = Offered' \cup Placed(ToSet(node_buffer'), at)
  <2>1. Entered = Offered \cup Placed(ToSet(node_buffer), at)
    BY <1>2 DEF Inserting
  <2>2. Placed(ToSet(node_buffer'), at) = Placed(ToSet(node_buffer), at) \cup {x}
    <3> HIDE DEF h
    <3> QED BY <1>11 DEF Placed
  <2> HIDE DEF x
  <2> QED BY <1>9, <1>10, <2>1, <2>2
<1>14. ToSet(node_buffer') \cup ToSet(todo') = ToSet(node_buffer) \cup ToSet(todo)
  <2> HIDE DEF h
  <2> QED BY <1>5, <1>7, <1>11
<1>15. /\ WordsStand => WordsStand'
       /\ UnknownStand => UnknownStand'
       /\ LastStand => LastStand'
  BY <1>4, <1>14, SameStand
<1>16. at' < size' - 1 /\ (HasPreviousNode(at))'
  <2>1. at < size - 1 /\ at \in 0 .. size - 1
    BY <1>1, <1>2, HereFacts DEF Inserting
  <2>2. ends'[at'] # << >> /\ 0 .. size' - 1 \subseteq DOMAIN ends'
    BY <1>1, <1>4 DEF LatticeInv, Frontier, TypeOK
  <2>3. at' \in DOMAIN ends'
    BY <1>4, <2>1, <2>2
  <2> QED BY <1>4, <2>1, <2>2, <2>3 DEF HasPreviousNode
<1>17. node_buffer' \in Seq(Offers(text', at')) /\ todo' \in Seq(Offers(text', at'))
  BY <1>4, <1>5, <1>7, <1>11
<1>18. bits' = LengthBits(node_buffer', at') /\ Entered' = Offered' \cup Placed(ToSet(node_buffer'), at')
  BY <1>4, <1>12, <1>13
<1> HIDE DEF h, V, x
<1>19. (stage = "words" => WordsStand) /\ (stage = "unknown" => UnknownStand) /\ (stage = "last" => LastStand)
  BY <1>2 DEF Inserting
<1>20. Inserting'
  BY <1>4, <1>11, <1>15, <1>16, <1>17, <1>18, <1>19 DEF Inserting
<1>21. Length(text)' = Length(text)
  BY <1>4, Zenon
<1> QED BY <1>1, <1>2, <1>3, <1>4, <1>20, <1>21 DEF OfferInv, IsInserting

(* The words at a boundary when no more are left to insert.                *)
LEMMA EmptyToSet == ToSet(<< >>) = {}
BY DEF ToSet

(* A provider is asked: what it returns is what is missing.                *)
LEMMA AnswerFacts ==
  ASSUME BuilderInv, IsInserting, todo = << >>, NEW p, IsProvider(p)
  PROVE  IsAnswer(ProvideOov(p, text, at, bits, node_buffer), text, p, at, ToSet(node_buffer))
<1>1. IsPlace(text.chars, at) /\ Inserting /\ text = TextOf(text.chars)
  BY InsertingFacts, HereFacts
<1>2. node_buffer \in Seq(Offers(TextOf(text.chars), at)) /\ bits = LengthBits(node_buffer, at)
  BY <1>1, Zenon DEF Inserting
<1>3. IsAnswer(ProvideOov(p, TextOf(text.chars), at, LengthBits(node_buffer, at), node_buffer),
               TextOf(text.chars), p, at, ToSet(node_buffer))
  BY <1>1, <1>2, ProviderFacts
<1> QED BY <1>1, <1>2, <1>3, Zenon

(* What the dictionaries have begins at the boundary.                      *)
LEMMA DictionaryWithin ==
  ASSUME BuilderInv, IsInserting
  PROVE  DictionaryAt(text, setup.dictionaries, at) \subseteq Offers(text, at)
<1>1. /\ setup \in Setups /\ text = TextOf(text.chars) /\ text.chars \in Texts /\ at \in Nat
      /\ Length(text) = Len(text.chars) /\ Len(text.chars) \in Nat
  BY InsertingFacts, HereFacts
<1>2. ASSUME NEW row \in RowsOf(setup.dictionaries), IsOffered(text, at, row)
      PROVE  [end |-> at + Len(row.form), word |-> row.word] \in Offers(text, at)
  <2>1. PICK d \in DOMAIN setup.dictionaries : row \in ToSet(setup.dictionaries[d])
    BY DEF RowsOf, ToSet
  <2> DEFINE entries == setup.dictionaries[d]
  <2>2. entries \in Seq(IndexRow) /\ IsDictionary(entries)
    <3>1. d \in 1 .. Len(setup.dictionaries)
      BY <1>1, <2>1, SetupsAssumption, LenProperties
    <3>2. Len(Indices) = Len(setup.dictionaries)
      BY <1>1, IndicesFacts
    <3> QED BY <1>1, <3>1, <3>2, IndicesFacts
  <2> HIDE DEF entries
  <2>3. PICK i \in DOMAIN entries : row = entries[i]
    BY <2>1 DEF entries, ToSet
  <2>4. row \in IndexRow
    BY <2>2, <2>3, ElementOfSeq, LenProperties
  <2>5. row.word.left \in Int /\ row.form \in Seq(DOMAIN CatsOf)
    BY <2>4 DEF IndexRow
  <2>6. IsIndexed(row) /\ HasFormAt(text, at, row.form)
    BY <1>2, <2>5 DEF IsOffered, IsIndexed
  <2>7. row.form # << >> /\ row.word \in Words
    BY <2>2, <2>3, <2>6 DEF IsDictionary
  <2>8. Len(row.form) \in Nat \ {0}
    <3> DEFINE f == row.form
    <3>1. f \in Seq(DOMAIN CatsOf) /\ f # << >>
      BY <2>5, <2>7
    <3> HIDE DEF f
    <3>2. Len(f) \in Nat \ {0}
      BY <3>1, LenProperties, EmptySeq
    <3> QED BY <3>2 DEF f
  <2>9. at + Len(row.form) \in at + 1 .. Length(text)
    BY <1>1, <2>6, <2>8 DEF HasFormAt
  <2> QED BY <2>7, <2>9 DEF Offers
<1> QED BY <1>2 DEF DictionaryAt

(* What is known at the boundary, provider by provider.                    *)
LEMMA KnownHereFacts ==
  ASSUME BuilderInv, IsInserting
  PROVE  /\ KnownHere(0) = DictionaryAt(text, setup.dictionaries, at)
         /\ \A k \in 1 .. Len(setup.providers) :
              KnownHere(k) = KnownHere(k - 1)
                               \cup UnknownAt(text, setup.providers[k], at, KnownHere(k - 1))
<1> DEFINE known == DictionaryAt(text, setup.dictionaries, at)
           ps == setup.providers
<1>1. IsPlace(text.chars, at) /\ text = TextOf(text.chars) /\ AreProviders(ps)
  BY InsertingFacts, HereFacts, SetupFacts
<1>2. known \subseteq Offers(TextOf(text.chars), at)
  BY <1>1, DictionaryWithin
<1> HIDE DEF known, ps
<1>3. KnownStepwise(TextOf(text.chars), ps, at, known)
  BY <1>1, <1>2, KnownFacts
<1>4. KnownStepwise(text, ps, at, known)
  BY <1>1, <1>3, Zenon
<1>5. \A k : KnownHere(k) = KnownAfter(text, ps, at, known, k)
  BY Zenon DEF KnownHere, ps, known
<1>6. KnownHere(0) = known
  BY <1>4, <1>5, Zenon DEF KnownStepwise
<1>7. \A k \in 1 .. Len(ps) :
        KnownHere(k) = KnownHere(k - 1) \cup UnknownAt(text, ps[k], at, KnownHere(k - 1))
  BY <1>4, <1>5, Zenon DEF KnownStepwise
<1> QED BY <1>6, <1>7 DEF ps, known

(* No word is waiting: what is there is what is known.                     *)
LEMMA KnownNow ==
  ASSUME BuilderInv, stage \in {"words", "unknown"}, todo = << >>
  PROVE  /\ asked \in 0 .. Len(setup.providers) /\ ToSet(node_buffer) = KnownHere(asked)
         /\ AskedWell(asked)
         /\ stage = "unknown" <=> asked # 0
<1>1. IsInserting /\ Inserting /\ setup \in Setups
  BY InsertingFacts, HereFacts DEF IsInserting
<1>2. Len(setup.providers) \in Nat
  BY <1>1, SetupFacts DEF AreProviders
<1>3. ToSet(node_buffer) \cup ToSet(todo) = ToSet(node_buffer)
  BY EmptyToSet
<1>4. CASE stage = "words"
  <2>1. asked = 0 /\ ToSet(node_buffer) = DictionaryAt(text, setup.dictionaries, at)
    BY <1>1, <1>3, <1>4 DEF Inserting, WordsStand
  <2>2. KnownHere(0) = DictionaryAt(text, setup.dictionaries, at)
    BY <1>1, KnownHereFacts
  <2>3. AskedWell(0)
    BY DEF AskedWell
  <2> QED BY <1>2, <1>4, <2>1, <2>2, <2>3
<1>5. CASE stage = "unknown"
  <2>1. UnknownStand
    BY <1>1, <1>5 DEF Inserting
  <2>2. asked \in 1 .. Len(setup.providers) /\ AskedWell(asked) /\ ToSet(node_buffer) = KnownHere(asked)
    BY <1>3, <2>1 DEF UnknownStand
  <2> QED BY <1>2, <1>5, <2>2
<1> QED BY <1>4, <1>5

(* A provider that answers brings what is known to the next provider.      *)
LEMMA AskOfferInv == ASSUME BuilderInv, AskProvider PROVE OfferInv'
<1> DEFINE k == asked + 1
           p == setup.providers[k]
           answer == ProvideOov(p, text, at, bits, node_buffer)
<1>1. /\ stage \in {"words", "unknown"} /\ todo = << >>
      /\ CanOovBow(text, at) /\ asked < Len(setup.providers) /\ Take(answer)
      /\ asked' = k /\ stage' = IF answer.status = "ok" THEN "unknown" ELSE "idle"
      /\ UNCHANGED <<setup, text, node_buffer, bits>>
  BY Zenon DEF AskProvider
<1>2. IsInserting /\ Inserting /\ phase = "building" /\ setup \in Setups
      /\ size = Length(text) + 1
  BY <1>1, InsertingFacts, HereFacts DEF IsInserting
<1>3. /\ asked \in 0 .. Len(setup.providers) /\ ToSet(node_buffer) = KnownHere(asked)
      /\ AskedWell(asked)
  BY <1>1, KnownNow
<1>4. Len(setup.providers) \in Nat /\ k \in 1 .. Len(setup.providers) /\ k - 1 = asked
  <2>1. Len(setup.providers) \in Nat
    BY <1>2, SetupFacts DEF AreProviders
  <2> QED BY <1>1, <1>3, <2>1
<1>5. IsProvider(p)
  BY <1>2, <1>4, SetupFacts DEF AreProviders
<1> HIDE DEF k, p
<1>6. IsAnswer(answer, text, p, at, KnownHere(asked))
  <2>1. IsAnswer(ProvideOov(p, text, at, bits, node_buffer), text, p, at, ToSet(node_buffer))
    BY <1>1, <1>2, <1>5, AnswerFacts
  <2> QED BY <1>3, <2>1, Zenon
<1> HIDE DEF answer
<1>7. CASE answer.status = "ok"
  <2>1. todo' = answer.words /\ UNCHANGED vars
    BY <1>1, <1>7 DEF Take
  <2>2. /\ ~FailsAt(text, p, at) /\ todo' \in Seq(Offers(text, at))
        /\ ToSet(todo') = UnknownAt(text, p, at, KnownHere(asked))
    BY <1>6, <1>7, <2>1 DEF IsAnswer
  <2>3. KnownHere(k) = KnownHere(asked) \cup UnknownAt(text, p, at, KnownHere(asked))
    BY <1>2, <1>4, KnownHereFacts DEF p
  <2>4. AskedWell(k)
    <3>1. \A j \in 1 .. k : j \in 1 .. asked \/ j = k
      BY <1>3, <1>4
    <3> QED BY <1>3, <2>2, <3>1, Zenon DEF AskedWell, p
  <2>5. ToSet(node_buffer) \cup ToSet(todo') = KnownHere(k)
    BY <1>3, <2>2, <2>3
  <2>6. text' = text /\ setup' = setup /\ at' = at /\ asked' = k /\ node_buffer' = node_buffer
    BY <1>1, <2>1 DEF vars
  <2>7. UnknownStand'
    <3>1. KnownHere(asked)' = KnownHere(k) /\ (AskedWell(asked)' <=> AskedWell(k))
      BY <2>6, Zenon DEF KnownHere, AskedWell
    <3>2. CanOovBow(text, at)' /\ asked' \in 1 .. Len(setup'.providers)
      BY <1>1, <1>4, <2>6, Zenon
    <3> QED BY <2>4, <2>5, <2>6, <3>1, <3>2, Zenon DEF UnknownStand
  <2>8. stage' = "unknown" /\ UNCHANGED <<ends, ends_full, size, at, created, phase, node_buffer, bits, text>>
    BY <1>1, <1>7, <2>1 DEF vars
  <2>9. Entered' = Entered /\ Offered' = Offered
    BY <2>8 DEF Entered, Offered
  <2>10. Inserting'
    <3>1. (at < size - 1)' /\ (HasPreviousNode(at))'
      BY <1>2, <2>8 DEF Inserting, HasPreviousNode
    <3>2. node_buffer' \in Seq(Offers(text', at')) /\ todo' \in Seq(Offers(text', at'))
      BY <1>2, <2>2, <2>8 DEF Inserting
    <3>3. bits' = LengthBits(node_buffer', at') /\ (created' <=> node_buffer' # << >>)
      BY <1>2, <2>8 DEF Inserting
    <3>4. Entered' = Offered' \cup Placed(ToSet(node_buffer'), at')
      BY <1>2, <2>8, <2>9 DEF Inserting
    <3> QED BY <2>7, <2>8, <3>1, <3>2, <3>3, <3>4 DEF Inserting
  <2>11. size' = Length(text)' + 1
    <3>1. Length(text)' = Length(text)
      BY <2>8, Zenon
    <3> QED BY <1>2, <2>8, <3>1
  <2> QED BY <1>2, <2>8, <2>10, <2>11 DEF OfferInv
<1>8. CASE answer.status # "ok"
  <2>1. GiveUp /\ stage' = "idle"
    BY <1>1, <1>8 DEF Take
  <2>2. phase' # "building"
    BY <2>1 DEF GiveUp
  <2> QED BY <2>1, <2>2, StopOfferInv
<1> QED BY <1>7, <1>8

(* No word has been inserted: no word is known.                            *)
LEMMA NoneHere ==
  ASSUME BuilderInv, stage \in {"words", "unknown"}, todo = << >>, AllAsked, bits = {}
  PROVE  /\ node_buffer = << >>
         /\ IF CanOovBow(text, at)
            THEN AskedWell(Len(setup.providers)) /\ KnownHere(Len(setup.providers)) = {}
            ELSE DictionaryAt(text, setup.dictionaries, at) = {}
<1>1. IsInserting /\ Inserting /\ setup \in Setups
  BY InsertingFacts, HereFacts DEF IsInserting
<1>2. /\ asked \in 0 .. Len(setup.providers) /\ ToSet(node_buffer) = KnownHere(asked)
      /\ AskedWell(asked)
      /\ stage = "unknown" <=> asked # 0
  BY KnownNow
<1>3. node_buffer = << >>
  <2>1. bits = {BitOf(node_buffer[k].end - at) : k \in DOMAIN node_buffer}
    BY <1>1, Zenon DEF Inserting, LengthBits
  <2>2. DOMAIN node_buffer = {}
    BY <2>1
  <2>3. node_buffer \in Seq(Offers(text, at))
    BY <1>1 DEF Inserting
  <2> DEFINE V == Offers(text, at)
  <2> HIDE DEF V
  <2>4. node_buffer \in Seq(V)
    BY <2>3 DEF V
  <2>5. Len(node_buffer) \in Nat /\ DOMAIN node_buffer = 1 .. Len(node_buffer)
    BY <2>4, LenProperties
  <2>6. Len(node_buffer) = 0
    <3>1. 1 \notin 1 .. Len(node_buffer)
      BY <2>2, <2>5
    <3> QED BY <2>5, <3>1
  <2> QED BY <2>4, <2>6, EmptySeq
<1>4. KnownHere(asked) = {}
  BY <1>2, <1>3, EmptyToSet
<1>5. CASE CanOovBow(text, at)
  BY <1>2, <1>3, <1>4, <1>5, Zenon DEF AllAsked
<1>6. CASE ~CanOovBow(text, at)
  <2>1. stage = "words"
    BY <1>1, <1>6 DEF Inserting, UnknownStand
  <2>2. asked = 0
    BY <1>2, <2>1
  <2>3. KnownHere(0) = {} /\ KnownHere(0) = DictionaryAt(text, setup.dictionaries, at)
    BY <1>1, <1>4, <2>2, KnownHereFacts
  <2> QED BY <1>3, <1>6, <2>3
<1> QED BY <1>5, <1>6

(* The last provider, asked because there is no word at all, brings its    *)
(* own words.                                                              *)
LEMMA AskLastOfferInv == ASSUME BuilderInv, AskLastProvider PROVE OfferInv'
<1> DEFINE p == setup.providers[Len(setup.providers)]
           answer == ProvideOov(p, text, at, bits, node_buffer)
<1>1. /\ stage \in {"words", "unknown"} /\ todo = << >> /\ AllAsked /\ bits = {} /\ Take(answer)
      /\ stage' = IF answer.status = "ok" THEN "last" ELSE "idle"
      /\ UNCHANGED <<setup, text, node_buffer, bits>>
  BY Zenon DEF AskLastProvider, NeedsFallback
<1>2. IsInserting /\ Inserting /\ phase = "building" /\ setup \in Setups
      /\ size = Length(text) + 1
  BY <1>1, InsertingFacts, HereFacts DEF IsInserting
<1>3. /\ node_buffer = << >>
      /\ IF CanOovBow(text, at)
         THEN AskedWell(Len(setup.providers)) /\ KnownHere(Len(setup.providers)) = {}
         ELSE DictionaryAt(text, setup.dictionaries, at) = {}
  BY <1>1, NoneHere
<1>4. IsProvider(p)
  BY <1>2, SetupFacts
<1> HIDE DEF p
<1>5. IsAnswer(answer, text, p, at, {})
  <2>1. IsAnswer(ProvideOov(p, text, at, bits, node_buffer), text, p, at, ToSet(node_buffer))
    BY <1>1, <1>2, <1>4, AnswerFacts
  <2>2. ToSet(node_buffer) = {}
    BY <1>3, EmptyToSet
  <2> QED BY <2>1, <2>2, Zenon
<1> HIDE DEF answer
<1>6. CASE answer.status = "ok"
  <2>1. todo' = answer.words /\ UNCHANGED vars
    BY <1>1, <1>6 DEF Take
  <2>2. /\ ~FailsAt(text, p, at) /\ todo' \in Seq(Offers(text, at))
        /\ ToSet(todo') = UnknownAt(text, p, at, {})
    BY <1>5, <1>6, <2>1 DEF IsAnswer
  <2>3. /\ stage' = "last"
        /\ UNCHANGED <<ends, ends_full, size, at, created, phase, node_buffer, bits, text, setup>>
    BY <1>1, <1>6, <2>1 DEF vars
  <2>4. Entered' = Entered /\ Offered' = Offered
    BY <2>3 DEF Entered, Offered
  <2>5. ToSet(node_buffer) \cup ToSet(todo') = UnknownAt(text, p, at, {})
    BY <1>3, <2>2, EmptyToSet
  <2>6. LastStand'
    <3>1. text' = text /\ setup' = setup /\ at' = at /\ node_buffer' = node_buffer
      BY <2>3
    <3> QED BY <1>3, <2>2, <2>5, <3>1, Zenon DEF LastStand, LastProvider, KnownHere, AskedWell, p
  <2>7. Inserting'
    <3>1. (at < size - 1)' /\ (HasPreviousNode(at))'
      BY <1>2, <2>3 DEF Inserting, HasPreviousNode
    <3>2. node_buffer' \in Seq(Offers(text', at')) /\ todo' \in Seq(Offers(text', at'))
      BY <1>2, <2>2, <2>3 DEF Inserting
    <3>3. bits' = LengthBits(node_buffer', at') /\ (created' <=> node_buffer' # << >>)
      BY <1>2, <2>3 DEF Inserting
    <3>4. Entered' = Offered' \cup Placed(ToSet(node_buffer'), at')
      BY <1>2, <2>3, <2>4 DEF Inserting
    <3> QED BY <2>3, <2>6, <3>1, <3>2, <3>3, <3>4 DEF Inserting
  <2>8. size' = Length(text)' + 1
    <3>1. Length(text)' = Length(text)
      BY <2>3, Zenon
    <3> QED BY <1>2, <2>3, <3>1
  <2> QED BY <1>2, <2>3, <2>7, <2>8 DEF OfferInv
<1>7. CASE answer.status # "ok"
  <2>1. GiveUp /\ stage' = "idle"
    BY <1>1, <1>7 DEF Take
  <2>2. phase' # "building"
    BY <2>1 DEF GiveUp
  <2> QED BY <2>1, <2>2, StopOfferInv
<1> QED BY <1>6, <1>7

(* A boundary that is done leaves no word to insert.                       *)
LEMMA FinishFacts ==
  ASSUME BuilderInv, FinishBoundary PROVE OfferInv'
<1>1. /\ todo = << >> /\ phase = "building" /\ stage' = "boundary" /\ at' = at + 1 /\ created' = FALSE
      /\ UNCHANGED <<ends_full, size, phase, text, todo>>
  BY DEF FinishBoundary, IsFilled, NextBoundary
<1> QED BY <1>1, LeaveOfferInv

(* A boundary that is skipped has no words.                                *)
LEMMA SkipOfferInv == ASSUME BuilderInv, Skip PROVE OfferInv'
<1>1. /\ stage = "boundary" /\ stage' = stage /\ phase = "building" /\ at' = at + 1
      /\ UNCHANGED <<ends_full, size, phase, created, text, todo>>
  BY DEF Skip, SkipUnreachable, bvars
<1>2. todo = << >> /\ created = FALSE
  BY <1>1 DEF BuilderInv, OfferInv
<1> QED BY <1>1, <1>2, LeaveOfferInv

(* What a step leaves alone stays as it stands.                            *)
LEMMA SameOfferInv ==
  ASSUME BuilderInv, UNCHANGED <<ends, ends_full, size, at, created>>,
         UNCHANGED <<setup, text, stage, todo, node_buffer, bits, asked>>,
         phase' = phase
  PROVE  OfferInv'
<1>1. UNCHANGED <<setup, text, stage, todo, node_buffer, bits, asked>>
  OBVIOUS
<1>2. Entered' = Entered /\ Offered' = Offered
  BY DEF Entered, Offered
<1>3. Inserting => Inserting'
  <2>1. (WordsStand => WordsStand') /\ (UnknownStand => UnknownStand') /\ (LastStand => LastStand')
    BY <1>1, SameStand
  <2>2. HasPreviousNode(at) => (HasPreviousNode(at))'
    BY DEF HasPreviousNode
  <2> QED BY <1>1, <1>2, <2>1, <2>2 DEF Inserting
<1>4. Length(text)' = Length(text)
  BY <1>1, Zenon
<1>5. OfferInv
  BY DEF BuilderInv
<1>6. stage' \in {"words", "unknown", "last"} => Inserting'
  BY <1>1, <1>3, <1>5 DEF OfferInv
<1>7. phase' = "building" => size' = (Length(text) + 1)'
  BY <1>4, <1>5 DEF OfferInv
<1>8. stage' \in {"batch", "boundary"} => Entered' = Offered' /\ created' = FALSE /\ todo' = << >>
  BY <1>1, <1>2, <1>5 DEF OfferInv
<1>9. (stage' # "idle" <=> phase' = "building") /\ (stage' = "batch" => at' = 0)
      /\ stage' \in {"idle", "batch", "boundary", "words", "unknown", "last"}
  BY <1>1, <1>5 DEF OfferInv
<1> QED BY <1>6, <1>7, <1>8, <1>9 DEF OfferInv

(* Every step of the builder keeps the words those they should be.         *)
LEMMA NextOfferInv == BuilderInv /\ LatticeInv' /\ [BNext]_<<vars, bvars>> => OfferInv'
<1> SUFFICES ASSUME BuilderInv, LatticeInv', [BNext]_<<vars, bvars>> PROVE OfferInv'
  OBVIOUS
<1>1. CASE UNCHANGED <<vars, bvars>>
  <2>1. UNCHANGED <<ends, ends_full, size, at, created>>
    BY <1>1 DEF vars
  <2>2. UNCHANGED <<setup, text, stage, todo, node_buffer, bits, asked>>
    BY <1>1 DEF bvars
  <2>3. phase' = phase
    BY <1>1 DEF vars
  <2> QED BY ONLY <2>1, <2>2, <2>3, BuilderInv, SameOfferInv
<1>2. CASE \E chars \in Texts : StartSentence(chars)
  BY <1>2, StartOfferInv
<1>3. ASSUME NEW i \in DOMAIN lanes, LaneStep(i) PROVE OfferInv'
  <2>1. UNCHANGED <<vars, text, todo>> /\ stage = "batch" /\ stage' = stage
    BY <1>3, Zenon DEF LaneStep
  <2> QED BY <2>1, LookupOfferInv
<1>4. CASE NextDictionary
  <2>1. UNCHANGED <<vars, text, todo>> /\ stage = "batch" /\ stage' \in {"batch", "boundary"}
    BY <1>4 DEF NextDictionary
  <2> QED BY <2>1, LookupOfferInv
<1>5. CASE Skip
  BY <1>5, SkipOfferInv
<1>6. CASE TakeMatches
  BY <1>6, TakeOfferInv
<1>7. CASE InsertWord
  BY <1>7, InsertOfferInv
<1>8. CASE AskProvider
  BY <1>8, AskOfferInv
<1>9. CASE AskLastProvider
  BY <1>9, AskLastOfferInv
<1>10. CASE FinishBoundary
  BY <1>10, FinishFacts
<1>11. CASE Disconnected
  <2>1. phase' # "building" /\ stage' = "idle"
    BY <1>11 DEF Disconnected, GiveUp
  <2> QED BY <2>1, StopOfferInv
<1>12. CASE Connect
  <2>1. phase' # "building" /\ stage' = "idle"
    BY <1>12 DEF Connect, ConnectEos
  <2> QED BY <2>1, StopOfferInv
<1>13. CASE FillTopPath
  <2>1. phase # "building" /\ phase' # "building"
    BY <1>13 DEF FillTopPath, StartTrace, TraceBack
  <2>2. stage' = "idle"
    BY <1>13, <2>1 DEF FillTopPath, bvars, BuilderInv, OfferInv
  <2> QED BY <2>1, <2>2, StopOfferInv
<1> QED BY <1>1, <1>2, <1>3, <1>4, <1>5, <1>6, <1>7, <1>8, <1>9, <1>10, <1>11, <1>12, <1>13
        DEF BNext

(* No word is there before the first sentence.                             *)
LEMMA InitBuilderInv == BInit => BuilderInv
<1> SUFFICES ASSUME BInit PROVE BuilderInv
  OBVIOUS
<1>1. LatticeInv
  BY InitLatticeInv DEF BInit
<1>2. OfferInv
  BY DEF BInit, Init, OfferInv
<1> QED BY <1>1, <1>2, InitBatchInv DEF BuilderInv

(* Every step of the builder keeps its invariant.                          *)
LEMMA NextBuilderInv == BuilderInv /\ [BNext]_<<vars, bvars>> => BuilderInv'
<1> SUFFICES ASSUME BuilderInv, [BNext]_<<vars, bvars>> PROVE BuilderInv'
  OBVIOUS
<1>1. LatticeInv'
  BY BuilderStepsAreLatticeSteps, NextLatticeInv DEF BuilderInv
<1>2. BatchInv'
  BY NextBatchInv DEF BuilderInv
<1>3. OfferInv'
  BY <1>1, NextOfferInv
<1> QED BY <1>1, <1>2, <1>3 DEF BuilderInv

(* The invariant of the builder: that of its lattice, that of its lookup,  *)
(* and that the words at a boundary are those they should be so far.       *)
THEOREM BuilderInvHolds == BSpec => []BuilderInv
<1>1. BInit => BuilderInv
  BY InitBuilderInv
<1>2. BuilderInv /\ [BNext]_<<vars, bvars>> => BuilderInv'
  BY NextBuilderInv
<1> QED BY <1>1, <1>2, PTL DEF BSpec

(* Whatever dictionaries and providers are loaded, the builder uses the    *)
(* lattice as module Lattice says: what is proved of that holds of it.     *)
THEOREM BuilderUsesLattice == BSpec => Spec
<1>1. BInit => Init
  BY DEF BInit
<1>2. BuilderInv /\ [BNext]_<<vars, bvars>> => [Next]_vars
  BY BuilderStepsAreLatticeSteps
<1> QED BY <1>1, <1>2, BuilderInvHolds, PTL DEF BSpec, Spec

-----------------------------------------------------------------------------
(***************************************************************************)
(* The steps of the builder are steps of OfferedWords, or none: those that *)
(* leave a boundary take it there, and the others change nothing it sees.  *)
(***************************************************************************)
WordsHere ==
  LET all == IF CanOovBow(text, at) THEN KnownHere(Len(setup.providers))
             ELSE DictionaryAt(text, setup.dictionaries, at)
  IN IF all = {} THEN UnknownAt(text, LastProvider, at, {}) ELSE all

IsAskedHere(k) ==
  \/ CanOovBow(text, at)
  \/ k = Len(setup.providers) /\ DictionaryAt(text, setup.dictionaries, at) = {}

FailingHere ==
  \E k \in 1 .. Len(setup.providers) :
    IsAskedHere(k) /\ FailsAt(text, setup.providers[k], at)

(* OfferedWords means the words described here.                            *)
LEMMA WordsAreThose ==
  ASSUME BuilderInv, phase = "building", at < size - 1
  PROVE  O!WordsFrom(at) = WordsHere
<1>1. setup \in Setups /\ text = TextOf(text.chars) /\ IsPlace(text.chars, at)
  BY HereFacts
<1>2. IsProvider(LastProvider)
  BY <1>1, SetupFacts DEF LastProvider
<1>3. O!CanOovBow(text, at) <=> CanOovBow(text, at)
  BY Zenon DEF O!CanOovBow, CanOovBow
<1>4. O!DictionaryWords(at) = DictionaryAt(text, setup.dictionaries, at)
  BY DictionaryIsThat
<1>5. \A known : O!WithUnknownWords(known, setup.providers, at)
                   = KnownAfter(text, setup.providers, at, known, Len(setup.providers))
  BY KnownIsThat
<1>6. O!WithUnknownWords({}, O!Fallback, at) = UnknownAt(text, LastProvider, at, {})
  <2>1. O!Fallback = <<LastProvider>>
    BY DEF O!Fallback, LastProvider
  <2>2. Len(<<LastProvider>>) = 1
    OBVIOUS
  <2>3. O!WithUnknownWords({}, <<LastProvider>>, at)
          = KnownAfter(text, <<LastProvider>>, at, {}, Len(<<LastProvider>>))
    BY KnownIsThat
  <2>4. KnownAfter(TextOf(text.chars), <<LastProvider>>, at, {}, 1)
          = UnknownAt(TextOf(text.chars), LastProvider, at, {})
    BY <1>1, <1>2, FallbackFacts
  <2> QED BY <1>1, <2>1, <2>2, <2>3, <2>4, Zenon
<1>7. O!WordsFrom(at) =
        LET all == IF O!CanOovBow(text, at)
                   THEN O!WithUnknownWords(O!DictionaryWords(at), setup.providers, at)
                   ELSE O!DictionaryWords(at)
        IN IF all = {} THEN O!WithUnknownWords(all, O!Fallback, at) ELSE all
  BY Zenon DEF O!WordsFrom
<1> DEFINE all == IF CanOovBow(text, at) THEN KnownHere(Len(setup.providers))
                  ELSE DictionaryAt(text, setup.dictionaries, at)
           theirs == IF O!CanOovBow(text, at)
                     THEN O!WithUnknownWords(O!DictionaryWords(at), setup.providers, at)
                     ELSE O!DictionaryWords(at)
<1>8. theirs = all
  <2>1. O!WithUnknownWords(O!DictionaryWords(at), setup.providers, at)
          = KnownHere(Len(setup.providers))
    BY <1>4, <1>5, Zenon DEF KnownHere
  <2> QED BY <1>3, <1>4, <2>1, Zenon
<1>9. O!WordsFrom(at) = IF theirs = {} THEN O!WithUnknownWords(theirs, O!Fallback, at) ELSE theirs
  BY <1>7, Zenon
<1>10. WordsHere = IF all = {} THEN UnknownAt(text, LastProvider, at, {}) ELSE all
  BY Zenon DEF WordsHere
<1> HIDE DEF all, theirs
<1> QED BY <1>6, <1>8, <1>9, <1>10

(* And the same failures of providers.                                     *)
LEMMA FailingIsThat ==
  ASSUME BuilderInv, phase = "building", at < size - 1
  PROVE  O!Failing(at) <=> FailingHere
<1>1. setup \in Setups
  BY HereFacts
<1>2. DOMAIN setup.providers = 1 .. Len(setup.providers)
  <2>1. setup.providers \in Seq(ToSet(setup.providers))
    BY <1>1, SetupsAssumption
  <2> DEFINE V == ToSet(setup.providers)
  <2> HIDE DEF V
  <2>2. setup.providers \in Seq(V)
    BY <2>1 DEF V
  <2> QED BY <2>2, LenProperties
<1>3. O!CanOovBow(text, at) <=> CanOovBow(text, at)
  BY Zenon DEF O!CanOovBow, CanOovBow
<1>4. O!DictionaryWords(at) = DictionaryAt(text, setup.dictionaries, at)
  BY DictionaryIsThat
<1>5. \A p : O!MatchLength(p, text, at) = MatchLength(p, text, at)
  BY Zenon DEF O!MatchLength, MatchLength, O!Min, Min, O!Length, Length, O!Max, Max
<1>6. \A p : O!IsInsideRun(p, text, at) <=> IsInsideRun(p, text, at)
  BY Zenon DEF O!IsInsideRun, IsInsideRun
<1>7. \A p : O!MatchesLater(p, text, at) <=> MatchesLater(p, text, at)
  BY Zenon DEF O!MatchesLater, MatchesLater, O!Min, Min, O!Length, Length
<1>8. \A k : O!IsProviderAsked(k, at) <=> IsAskedHere(k)
  BY <1>3, <1>4, Zenon DEF O!IsProviderAsked, IsAskedHere
<1>9. O!Failing(at) <=>
        \E k \in DOMAIN setup.providers :
          O!IsProviderAsked(k, at) /\ FailsAt(text, setup.providers[k], at)
  BY <1>5, <1>6, <1>7, Zenon DEF O!Failing, FailsAt
<1> QED BY <1>2, <1>8, <1>9 DEF FailingHere

(* It reaches the boundaries the lattice reaches.                          *)
LEMMA ReachedIsThat ==
  ASSUME BuilderInv, phase # "new"
  PROVE  O!IsReached(at) <=> HasPreviousNode(at)
<1>1. O!IsReached(at) <=> (at = 0 \/ \E w \in Offered : w.end = at)
  BY Zenon DEF O!IsReached
<1>2. HasPreviousNode(at) <=> (at = 0 \/ \E w \in Offered : w.end = at)
  BY ReachedFacts DEF BuilderInv
<1> QED BY <1>1, <1>2, Zenon

(* It counts the same characters.                                          *)
LEMMA LengthIsThat == O!Length(text) = Length(text)
BY DEF O!Length, Length

(* All words of the boundary are inserted: they are those it should get,   *)
(* and no provider has failed.                                             *)
LEMMA FilledFacts ==
  ASSUME BuilderInv, IsFilled
  PROVE  /\ IsInserting /\ Inserting /\ phase = "building"
         /\ ToSet(node_buffer) = WordsHere /\ ~FailingHere
<1>1. todo = << >> /\ (stage = "last" \/ (stage \in {"words", "unknown"} /\ AllAsked /\ bits # {}))
  BY DEF IsFilled, NeedsFallback
<1>2. IsInserting /\ Inserting /\ phase = "building" /\ setup \in Setups
  BY <1>1, InsertingFacts, HereFacts DEF IsInserting
<1>3. ToSet(node_buffer) \cup ToSet(todo) = ToSet(node_buffer)
  BY <1>1, EmptyToSet
<1>4. CASE stage = "last"
  <2>1. /\ IF CanOovBow(text, at)
           THEN AskedWell(Len(setup.providers)) /\ KnownHere(Len(setup.providers)) = {}
           ELSE DictionaryAt(text, setup.dictionaries, at) = {}
        /\ ~FailsAt(text, LastProvider, at)
        /\ ToSet(node_buffer) = UnknownAt(text, LastProvider, at, {})
    BY <1>2, <1>3, <1>4 DEF Inserting, LastStand
  <2>2. ToSet(node_buffer) = WordsHere
    BY <2>1, Zenon DEF WordsHere
  <2>3. ~FailingHere
    BY <2>1, Zenon DEF FailingHere, IsAskedHere, AskedWell, LastProvider
  <2> QED BY <1>2, <2>2, <2>3
<1>5. CASE stage # "last"
  <2>1. stage \in {"words", "unknown"} /\ AllAsked /\ bits # {}
    BY <1>1, <1>5
  <2>2. /\ asked \in 0 .. Len(setup.providers) /\ ToSet(node_buffer) = KnownHere(asked)
        /\ AskedWell(asked)
        /\ stage = "unknown" <=> asked # 0
    BY <1>1, <2>1, KnownNow
  <2>3. ToSet(node_buffer) # {}
    <3>1. bits = {BitOf(node_buffer[k].end - at) : k \in DOMAIN node_buffer}
      BY <1>2, Zenon DEF Inserting, LengthBits
    <3> QED BY <2>1, <3>1 DEF ToSet
  <2>4. CASE CanOovBow(text, at)
    <3>1. asked = Len(setup.providers)
      BY <2>1, <2>4 DEF AllAsked
    <3>2. ToSet(node_buffer) = WordsHere
      BY <2>2, <2>3, <2>4, <3>1, Zenon DEF WordsHere
    <3>3. ~FailingHere
      BY <2>2, <3>1, Zenon DEF FailingHere, AskedWell
    <3> QED BY <1>2, <3>2, <3>3
  <2>5. CASE ~CanOovBow(text, at)
    <3>1. stage = "words"
      BY <1>2, <2>1, <2>5 DEF Inserting, UnknownStand
    <3>2. asked = 0
      BY <2>2, <3>1
    <3>3. ToSet(node_buffer) = DictionaryAt(text, setup.dictionaries, at)
      BY <1>2, <2>2, <3>2, KnownHereFacts
    <3>4. ToSet(node_buffer) = WordsHere
      BY <2>3, <2>5, <3>3, Zenon DEF WordsHere
    <3>5. ~FailingHere
      BY <2>3, <2>5, <3>3, Zenon DEF FailingHere, IsAskedHere
    <3> QED BY <1>2, <3>4, <3>5
  <2> QED BY <2>4, <2>5
<1> QED BY <1>4, <1>5

(* A sentence of at most MaxLen characters is short enough for its costs.  *)
LEMMA ShortSentence ==
  ASSUME NEW n \in 1 .. MaxLen, (MaxLen + 1) * MaxStep < I32_MAX
  PROVE  (n + 1) * MaxStep < I32_MAX
<1>1. MaxLen \in Nat /\ MaxStep \in Nat /\ I32_MAX \in Int
  BY SizesAssumption, StepAssumption DEF I32_MAX
<1>2. PICK d \in Nat : MaxLen = n + d
  <2>1. MaxLen - n \in Nat /\ MaxLen = n + (MaxLen - n)
    BY <1>1
  <2> QED BY <2>1
<1>3. (MaxLen + 1) * MaxStep = (n + 1) * MaxStep + d * MaxStep
      /\ d * MaxStep \in Nat /\ (n + 1) * MaxStep \in Nat
  BY <1>1, <1>2
<1> QED BY <1>1, <1>3

(* No boundary behind the last word is left, so it is the end.             *)
LEMMA EosReached ==
  ASSUME BuilderInv, phase = "building", at = size - 1
  PROVE  HasPreviousNode(at) /\ ends[at] # << >> /\ at \in DOMAIN ends
<1>1. /\ \E e \in at .. size - 1 : ends[e] # << >>
      /\ at \in 0 .. size - 1 /\ size \in Nat /\ 0 .. size - 1 \subseteq DOMAIN ends
  BY DEF BuilderInv, LatticeInv, NoDeadEnd, Frontier, TypeOK
<1>2. at .. size - 1 = {at}
  BY <1>1
<1> QED BY <1>1, <1>2 DEF HasPreviousNode

(* connect_eos does not find a short sentence disconnected.                *)
LEMMA EosConnects ==
  ASSUME BuilderInv, phase = "building", at = size - 1, Short
  PROVE  ConnectNode(ends[EosNode.begin], EosNode).cost # I32_MAX
<1>1. size \in Nat \ {0} /\ EosNode.begin = size - 1 /\ LatticeInv
  BY DEF BuilderInv, LatticeInv, Frontier, EosNode
<1>2. EosNode \in Node
  BY <1>1, IdsAssumption DEF EosNode, Node
<1>3. IsStep(EosNode)
  <2>1. \A x \in Ids : Conn[x][EosNode.left] + EosNode.cost \in -MaxStep .. MaxStep
    <3>1. EosNode.left = BosId /\ EosNode.cost = 0
      BY DEF EosNode
    <3>2. \A x \in Ids : Conn[x][BosId] \in -MaxStep .. MaxStep
      BY EosAssumption
    <3>3. MaxStep \in Nat
      BY StepAssumption
    <3> HIDE DEF EosNode
    <3> QED BY <3>1, <3>2, <3>3
  <2> QED BY <1>2, <2>1 DEF IsStep
<1>4. size - 1 \in 0 .. size - 1 /\ size - 1 \in DOMAIN ends /\ ends[size - 1] # << >>
  BY <1>1, EosReached
<1>5. ends[size - 1] \in Seq(VNode)
  BY <1>1, <1>4 DEF LatticeInv, TypeOK
<1>6. 1 \in 1 .. Len(ends[size - 1])
  BY <1>4, <1>5, EmptySeq, LenProperties
<1>7. 1 - 1 \in Candidates(ends[size - 1], EosNode)
  BY <1>1, <1>3, <1>4, <1>6, EdgeCost
<1>8. Candidates(ends[EosNode.begin], EosNode) # {}
  BY <1>1, <1>7
<1>9. ends[EosNode.begin] \in Seq(VNode)
  BY <1>1, <1>5
<1> HIDE DEF EosNode
<1> QED BY <1>2, <1>8, <1>9, ConnectNodeCorrect
-----------------------------------------------------------------------------
(* The outcome, phase by phase.                                            *)
LEMMA OutcomeFacts ==
  /\ phase = "building" <=> Outcome = "building"
  /\ phase = "failed" => Outcome = "failed"
  /\ phase \in {"connected", "tracing", "done"} => Outcome = "complete"
  /\ phase = "new" => Outcome = "none"
BY DEF Outcome

(* What a step leaves alone does not change what OfferedWords sees.        *)
LEMMA SameOffers ==
  ASSUME UNCHANGED <<ends_full, at>>
  PROVE  Offered' = Offered
BY DEF Offered, Entered

(* A new sentence is a new one for OfferedWords.                           *)
LEMMA BeginMaps ==
  ASSUME BuilderInv, NEW chars \in Texts, StartSentence(chars) PROVE O!ABegin
<1>1. Len(chars) \in Nat /\ Reset(Len(chars)) /\ UNCHANGED setup
  BY TextFacts DEF StartSentence
<1>2. Entered' = {}
  BY <1>1, ResetRows DEF BuilderInv
<1>3. Offered' = {}
  BY <1>2 DEF Offered
<1>4. phase # "building" /\ phase' = "building" /\ at' = 0
  BY <1>1 DEF Reset
<1>5. Outcome # "building" /\ Outcome' = "building"
  BY <1>4 DEF Outcome
<1> QED BY <1>1, <1>3, <1>4, <1>5 DEF O!ABegin

(* A boundary that no word reaches is skipped there too.                   *)
LEMMA SkipMaps == ASSUME BuilderInv, Skip PROVE O!ASkip
<1>1. /\ stage = "boundary" /\ phase = "building" /\ at < size - 1 /\ ~HasPreviousNode(at)
      /\ at' = at + 1 /\ UNCHANGED <<phase, ends_full, text, setup>>
  BY DEF Skip, SkipUnreachable, bvars
<1>2. Entered = Offered /\ size = Length(text) + 1 /\ Length(text) \in Nat
  BY <1>1, HereFacts DEF BuilderInv, OfferInv
<1>3. Offered' = Offered
  <2>1. Entered' = Offered'
    BY <1>1, NextRows DEF BuilderInv
  <2>2. Entered' = Entered
    BY <1>1, SameRows
  <2> QED BY <1>2, <2>1, <2>2
<1>4. at < O!Length(text)
  BY <1>1, <1>2, LengthIsThat, HereFacts
<1>5. ~O!IsReached(at)
  BY <1>1, ReachedIsThat
<1>6. Outcome = "building" /\ Outcome' = Outcome
  BY <1>1 DEF Outcome
<1> QED BY <1>1, <1>3, <1>4, <1>5, <1>6, Zenon DEF O!ASkip

(* A boundary that is finished is given all its words at once.             *)
LEMMA FinishMaps == ASSUME BuilderInv, FinishBoundary PROVE O!AOffer
<1>1. /\ IsFilled /\ at < size - 1 /\ HasPreviousNode(at) /\ created
      /\ at' = at + 1 /\ UNCHANGED <<phase, ends_full, text, setup>>
  BY DEF FinishBoundary, NextBoundary, WordsWereCreated
<1>2. /\ IsInserting /\ Inserting /\ phase = "building"
      /\ ToSet(node_buffer) = WordsHere /\ ~FailingHere
  BY <1>1, FilledFacts
<1>3. size = Length(text) + 1 /\ Length(text) \in Nat /\ at \in Nat
  BY <1>2, HereFacts
<1>4. O!WordsFrom(at) = ToSet(node_buffer)
  BY <1>1, <1>2, WordsAreThose
<1>5. O!WordsFrom(at) # {}
  <2>1. node_buffer \in Seq(Offers(text, at)) /\ node_buffer # << >>
    BY <1>1, <1>2 DEF Inserting
  <2> DEFINE V == Offers(text, at)
  <2> HIDE DEF V
  <2>2. node_buffer \in Seq(V)
    BY <2>1 DEF V
  <2>3. 1 \in DOMAIN node_buffer
    BY <2>1, <2>2, EmptySeq, LenProperties
  <2>4. node_buffer[1] \in ToSet(node_buffer)
    BY <2>3 DEF ToSet
  <2> QED BY <1>4, <2>4
<1>6. Offered' = Offered \cup {[begin |-> at, end |-> w.end, word |-> w.word] : w \in O!WordsFrom(at)}
  <2>1. Entered = Offered \cup Placed(ToSet(node_buffer), at)
    BY <1>2 DEF Inserting
  <2>2. Entered' = Entered /\ Entered' = Offered'
    BY <1>1, <1>2, SameRows, NextRows DEF BuilderInv
  <2>3. Placed(ToSet(node_buffer), at)
          = {[begin |-> at, end |-> w.end, word |-> w.word] : w \in O!WordsFrom(at)}
    BY <1>4, Zenon DEF Placed
  <2> QED BY <2>1, <2>2, <2>3
<1>7. at < O!Length(text)
  BY <1>1, <1>3, LengthIsThat
<1>8. O!IsReached(at) /\ ~O!Failing(at)
  BY <1>1, <1>2, ReachedIsThat, FailingIsThat
<1>9. Outcome = "building" /\ Outcome' = Outcome
  BY <1>1, <1>2 DEF Outcome
<1> QED BY <1>1, <1>5, <1>6, <1>7, <1>8, <1>9, Zenon DEF O!AOffer

(* A provider's error, and a boundary at which no word begins.             *)
LEMMA FailMaps ==
  ASSUME BuilderInv, phase = "building", at < size - 1, HasPreviousNode(at),
         WordsHere = {} \/ FailingHere,
         phase' = "failed", UNCHANGED <<ends_full, at, text, setup>>
  PROVE  O!AFail
<1>1. size = Length(text) + 1 /\ Length(text) \in Nat /\ at \in Nat
  BY HereFacts
<1>2. at < O!Length(text)
  BY <1>1, LengthIsThat
<1>3. O!IsReached(at) /\ (O!WordsFrom(at) = {} \/ O!Failing(at))
  BY ReachedIsThat, WordsAreThose, FailingIsThat
<1>4. Offered' = Offered
  BY SameOffers
<1>5. Outcome = "building" /\ Outcome' = "failed"
  BY DEF Outcome
<1> QED BY <1>2, <1>3, <1>4, <1>5, Zenon DEF O!AFail

(* A boundary without a word fails.                                        *)
LEMMA DisconnectedMaps == ASSUME BuilderInv, Disconnected PROVE O!AFail
<1>1. /\ IsFilled /\ bits = {} /\ phase = "building" /\ at < size - 1 /\ HasPreviousNode(at)
      /\ phase' = "failed" /\ UNCHANGED <<ends_full, at, text, setup>>
  BY DEF Disconnected, GiveUp
<1>2. Inserting /\ ToSet(node_buffer) = WordsHere
  BY <1>1, FilledFacts
<1>3. WordsHere = {}
  <2>1. bits = {BitOf(node_buffer[k].end - at) : k \in DOMAIN node_buffer}
    BY <1>2, Zenon DEF Inserting, LengthBits
  <2> QED BY <1>1, <1>2, <2>1 DEF ToSet
<1> QED BY <1>1, <1>3, FailMaps

(* A provider that is asked fails where it should, or nothing is seen of   *)
(* it.                                                                     *)
LEMMA AskMaps ==
  ASSUME BuilderInv, AskProvider PROVE O!AFail \/ UNCHANGED O!avars
<1> DEFINE k == asked + 1
           p == setup.providers[k]
           answer == ProvideOov(p, text, at, bits, node_buffer)
<1>1. /\ stage \in {"words", "unknown"} /\ todo = << >>
      /\ CanOovBow(text, at) /\ asked < Len(setup.providers) /\ Take(answer)
      /\ UNCHANGED <<setup, text>>
  BY Zenon DEF AskProvider
<1>2. IsInserting /\ Inserting /\ phase = "building" /\ setup \in Setups
  BY <1>1, InsertingFacts, HereFacts DEF IsInserting
<1>3. k \in 1 .. Len(setup.providers)
  <2>1. Len(setup.providers) \in Nat
    BY <1>2, SetupFacts DEF AreProviders
  <2>2. asked \in 0 .. Len(setup.providers)
    BY <1>1, KnownNow
  <2> QED BY <1>1, <2>1, <2>2
<1>4. IsProvider(p)
  BY <1>2, <1>3, SetupFacts DEF AreProviders
<1> HIDE DEF k
<1>5. FailsAt(text, p, at) \/ answer.status = "ok"
  <2> HIDE DEF p
  <2>1. IsAnswer(ProvideOov(p, text, at, bits, node_buffer), text, p, at, ToSet(node_buffer))
    BY <1>1, <1>2, <1>4, AnswerFacts
  <2> QED BY <2>1 DEF IsAnswer
<1> HIDE DEF answer
<1>6. CASE answer.status = "ok"
  <2>1. UNCHANGED vars
    BY <1>1, <1>6 DEF Take
  <2>2. Offered' = Offered /\ at' = at /\ Outcome' = Outcome
    BY <2>1, SameOffers DEF vars, Outcome
  <2> QED BY <1>1, <2>2 DEF O!avars
<1>7. CASE answer.status # "ok"
  <2>1. GiveUp
    BY <1>1, <1>7 DEF Take
  <2>2. /\ at < size - 1 /\ HasPreviousNode(at) /\ phase' = "failed" /\ UNCHANGED <<ends_full, at>>
    BY <2>1 DEF GiveUp
  <2>3. FailingHere
    BY <1>1, <1>3, <1>5, <1>7 DEF FailingHere, IsAskedHere
  <2> QED BY <1>1, <1>2, <2>2, <2>3, FailMaps
<1> QED BY <1>6, <1>7

(* So does the last one when it is asked again.                            *)
LEMMA AskLastMaps ==
  ASSUME BuilderInv, AskLastProvider PROVE O!AFail \/ UNCHANGED O!avars
<1> DEFINE k == Len(setup.providers)
           p == setup.providers[k]
           answer == ProvideOov(p, text, at, bits, node_buffer)
<1>1. /\ stage \in {"words", "unknown"} /\ todo = << >> /\ AllAsked /\ bits = {} /\ Take(answer)
      /\ UNCHANGED <<setup, text>>
  BY Zenon DEF AskLastProvider, NeedsFallback
<1>2. IsInserting /\ Inserting /\ phase = "building" /\ setup \in Setups
  BY <1>1, InsertingFacts, HereFacts DEF IsInserting
<1>3. k \in 1 .. Len(setup.providers) /\ IsProvider(p)
  BY <1>2, SetupFacts DEF AreProviders
<1>4. \/ CanOovBow(text, at)
      \/ k = Len(setup.providers) /\ DictionaryAt(text, setup.dictionaries, at) = {}
  BY <1>1, NoneHere
<1> HIDE DEF k
<1>5. FailsAt(text, p, at) \/ answer.status = "ok"
  <2> HIDE DEF p
  <2>1. IsAnswer(ProvideOov(p, text, at, bits, node_buffer), text, p, at, ToSet(node_buffer))
    BY <1>1, <1>2, <1>3, AnswerFacts
  <2> QED BY <2>1 DEF IsAnswer
<1> HIDE DEF answer
<1>6. CASE answer.status = "ok"
  <2>1. UNCHANGED vars
    BY <1>1, <1>6 DEF Take
  <2>2. Offered' = Offered /\ at' = at /\ Outcome' = Outcome
    BY <2>1, SameOffers DEF vars, Outcome
  <2> QED BY <1>1, <2>2 DEF O!avars
<1>7. CASE answer.status # "ok"
  <2>1. GiveUp
    BY <1>1, <1>7 DEF Take
  <2>2. /\ at < size - 1 /\ HasPreviousNode(at) /\ phase' = "failed" /\ UNCHANGED <<ends_full, at>>
    BY <2>1 DEF GiveUp
  <2>3. FailingHere
    BY <1>3, <1>4, <1>5, <1>7 DEF FailingHere, IsAskedHere
  <2> QED BY <1>1, <1>2, <2>2, <2>3, FailMaps
<1> QED BY <1>6, <1>7

(* The end of the sentence is complete.                                    *)
LEMMA ConnectMaps ==
  ASSUME BuilderInv, Connect, (MaxLen + 1) * MaxStep < I32_MAX PROVE O!AComplete
<1>1. /\ phase = "building" /\ at = size - 1
      /\ ConnectNode(ends[EosNode.begin], EosNode).cost # I32_MAX => phase' = "connected"
      /\ UNCHANGED <<ends_full, at, text, setup>>
  BY Zenon DEF Connect, ConnectEos
<1>2. size = Length(text) + 1 /\ Length(text) = Len(text.chars) /\ text.chars \in Texts
      /\ at \in Nat
  BY <1>1, HereFacts
<1>3. Len(text.chars) \in 1 .. MaxLen
  BY <1>2, TextsAssumption
<1>4. Short
  BY <1>2, <1>3, ShortSentence DEF Short
<1>5. phase' = "connected"
  BY <1>1, <1>4, EosConnects
<1>6. Outcome = "building" /\ Outcome' = "complete"
  BY <1>1, <1>5 DEF Outcome
<1>7. at = O!Length(text)
  BY <1>1, <1>2, <1>3, LengthIsThat
<1>8. O!IsReached(at)
  BY <1>1, EosReached, ReachedIsThat
<1>9. Offered' = Offered
  BY <1>1, SameOffers
<1> QED BY <1>1, <1>6, <1>7, <1>8, <1>9, Zenon DEF O!AComplete

(* An inserted word counts when its boundary is done.                      *)
LEMMA InsertMaps == ASSUME BuilderInv, InsertWord PROVE UNCHANGED O!avars
<1> DEFINE h == Head(todo)
           x == [begin |-> at, end |-> h.end, word |-> h.word]
<1>1. todo # << >> /\ Insert(h.end, h.word) /\ UNCHANGED <<setup, text>>
  BY DEF InsertWord
<1>2. phase = "building" /\ phase' = phase /\ at' = at
  BY <1>1, Zenon DEF Insert
<1>3. Inserting /\ size = Length(text) + 1 /\ Length(text) \in Nat /\ at \in Nat
  BY <1>1, <1>2, TodoFacts, HereFacts
<1>4. h \in Offers(text, at)
  <2> DEFINE V == Offers(text, at)
  <2> HIDE DEF V
  <2>1. todo \in Seq(V)
    BY <1>3 DEF V, Inserting
  <2> QED BY <1>1, <2>1, HeadTailProperties DEF V
<1>5. h.end \in at + 1 .. size - 1 /\ h.word \in Words
  <2>1. h \in [end : at + 1 .. Length(text), word : Words]
    BY <1>4, Zenon DEF Offers
  <2>2. size - 1 = Length(text)
    BY <1>3
  <2> HIDE DEF h
  <2> QED BY <2>1, <2>2
<1> HIDE DEF h
<1>6. Entered' = Entered \cup {x}
  BY <1>1, <1>5, InsertedRows DEF BuilderInv
<1>7. ~(x.begin < at)
  BY <1>3
<1> HIDE DEF x
<1>8. Offered' = Offered
  BY <1>2, <1>6, <1>7 DEF Offered
<1>9. Outcome' = Outcome
  BY <1>2 DEF Outcome
<1> QED BY <1>1, <1>2, <1>8, <1>9 DEF O!avars

OfferStep == O!ABegin \/ O!AOffer \/ O!ASkip \/ O!AFail \/ O!AComplete

(* The builder begins as OfferedWords does.                                *)
LEMMA InitOffers == BInit => O!AInit
<1> SUFFICES ASSUME BInit PROVE O!AInit
  OBVIOUS
<1>1. \A cats : O!CategoryContinuity(cats) = CategoryContinuity(cats)
  BY Zenon DEF O!CategoryContinuity, CategoryContinuity, O!Common, Common, O!Max, Max
<1>2. O!TextOf(<< >>) = TextOf(<< >>)
  BY <1>1, Zenon DEF O!TextOf, TextOf
<1>3. ends_full = << >> /\ at = 0 /\ phase = "new" /\ text = TextOf(<< >>)
  BY DEF BInit, Init
<1>4. Offered = {}
  BY <1>3 DEF Offered, Entered
<1>5. Outcome = "none"
  BY <1>3 DEF Outcome
<1> QED BY <1>2, <1>3, <1>4, <1>5 DEF O!AInit

(* Every step of the builder is one of OfferedWords or none.               *)
LEMMA NextOffers ==
  ASSUME (MaxLen + 1) * MaxStep < I32_MAX
  PROVE  BuilderInv /\ [BNext]_<<vars, bvars>> => [OfferStep]_(O!avars)
<1> SUFFICES ASSUME BuilderInv, [BNext]_<<vars, bvars>> PROVE OfferStep \/ UNCHANGED O!avars
  OBVIOUS
<1>1. CASE UNCHANGED <<vars, bvars>>
  <2>1. UNCHANGED <<ends_full, at, phase, text, setup>>
    BY <1>1 DEF vars, bvars
  <2>2. Offered' = Offered /\ Outcome' = Outcome
    BY <2>1, SameOffers DEF Outcome
  <2> QED BY <2>1, <2>2 DEF O!avars
<1>2. CASE \E chars \in Texts : StartSentence(chars)
  BY <1>2, BeginMaps DEF OfferStep
<1>3. CASE (\E i \in DOMAIN lanes : LaneStep(i)) \/ NextDictionary \/ TakeMatches
  <2>1. UNCHANGED vars /\ UNCHANGED <<text, setup>>
    BY <1>3, Zenon DEF LaneStep, NextDictionary, TakeMatches
  <2>2. Offered' = Offered /\ Outcome' = Outcome /\ at' = at
    BY <2>1, SameOffers DEF Outcome, vars
  <2> QED BY <2>1, <2>2 DEF O!avars
<1>4. CASE Skip
  BY <1>4, SkipMaps DEF OfferStep
<1>5. CASE InsertWord
  BY <1>5, InsertMaps
<1>6. CASE AskProvider
  BY <1>6, AskMaps DEF OfferStep
<1>7. CASE AskLastProvider
  BY <1>7, AskLastMaps DEF OfferStep
<1>8. CASE FinishBoundary
  BY <1>8, FinishMaps DEF OfferStep
<1>9. CASE Disconnected
  BY <1>9, DisconnectedMaps DEF OfferStep
<1>10. CASE Connect
  BY <1>10, ConnectMaps DEF OfferStep
<1>11. CASE FillTopPath
  <2>1. UNCHANGED <<ends_full, at, text, setup>>
    BY <1>11 DEF FillTopPath, StartTrace, TraceBack, bvars
  <2>2. phase \in {"connected", "tracing"} /\ phase' \in {"tracing", "done"}
    <3>1. phase \in {"connected", "tracing"} /\ phase' \in {phase, "tracing", "done"}
          /\ (phase = "connected" => phase' = "tracing")
      BY <1>11 DEF FillTopPath, StartTrace, TraceBack
    <3> QED BY <3>1
  <2>3. Outcome' = Outcome
    BY <2>2 DEF Outcome
  <2>4. Offered' = Offered
    BY <2>1, SameOffers
  <2> QED BY <2>1, <2>3, <2>4 DEF O!avars
<1> QED BY <1>1, <1>2, <1>3, <1>4, <1>5, <1>6, <1>7, <1>8, <1>9, <1>10, <1>11 DEF BNext

(* The builder implements OfferedWords.                                    *)
THEOREM BuilderOffersItsWords ==
  ASSUME (MaxLen + 1) * MaxStep < I32_MAX
  PROVE  BSpec => OffersItsWords
<1>1. BInit => O!AInit
  BY InitOffers
<1>2. BuilderInv /\ [BNext]_<<vars, bvars>> =>
        [O!ABegin \/ O!AOffer \/ O!ASkip \/ O!AFail \/ O!AComplete]_(O!avars)
  BY NextOffers DEF OfferStep
<1> QED BY <1>1, <1>2, BuilderInvHolds, PTL DEF BSpec, OffersItsWords, O!ASpec

(* So the path that is read off the words it offers is the cheapest one.   *)
THEOREM BuilderPathIsBest == BSpec => [](size * MaxStep < I32_MAX => TopPathIsBest)
BY BuilderUsesLattice, TopPathStaysBest, PTL
=============================================================================

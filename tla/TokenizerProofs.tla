--------------------------- MODULE TokenizerProofs ---------------------------
(***************************************************************************)
(* Proofs about Tokenizer and MorphemeLists: whatever the order of calls,  *)
(* for every text, every analysis and every number of lists, results are   *)
(* results of the text they come with, a text that is borrowed stays, and  *)
(* units tile their word.                                                  *)
(***************************************************************************)
EXTENDS Tokenizer, MorphemeLists, SequenceLemmas

(***************************************************************************)
(* What splitting does to words, for any words, units and field subsets:   *)
(* the units of a word tile it, and a path that tiles its text still does  *)
(* after its words were split.  The ends of the units, and the pieces put  *)
(* together so far, are functions defined by recursion; that they exist is *)
(* shown by a least counterexample.                                        *)
(***************************************************************************)
LEMMA NodeFields ==
  ASSUME NEW node \in Node
  PROVE  /\ node.text \in Texts /\ node.from \in Nat /\ node.to \in Nat
         /\ node.units["A"] \in Seq(Nat) /\ node.units["B"] \in Seq(Nat)
  BY DEF Node

(* The number of units and their lengths are naturals.                     *)
LEMMA SplitsOfNode ==
  ASSUME NEW node \in Node, NEW m \in {"A", "B", "C"}
  PROVE  /\ NumSplits(node, m) \in Nat
         /\ m # "C" => \A i \in 1 .. NumSplits(node, m) : node.units[m][i] \in Nat
  BY NodeFields, LenProperties, ElementOfSeq DEF NumSplits
-----------------------------------------------------------------------------
(* The lengths of the units as split reads them, and the ends of the units.*)
LenOf(node, m, fields, i) ==
  IF "INDEX_FORM_LENGTH" \in Normalize(fields) THEN node.units[m][i] ELSE 0

Ends(node, m, fields) ==
  CHOOSE ends : ends = [i \in 0 .. NumSplits(node, m) |->
    IF i = 0 THEN node.from
    ELSE EndOfUnit(node, ends[i - 1], LenOf(node, m, fields, i), i = NumSplits(node, m))]

(* A unit reaches from the end of the one before it to its own end.        *)
LEMMA SplitByEnds ==
  ASSUME NEW node, NEW m, NEW fields
  PROVE  Split(node, m, fields) =
           [i \in 1 .. NumSplits(node, m) |->
              [text |-> node.text, from |-> Ends(node, m, fields)[i - 1],
               to |-> Ends(node, m, fields)[i], units |-> NoUnits]]
  BY DEF Split, Ends, LenOf

(* The ends satisfy the recursion by which split computes them.            *)
LEMMA EndsExist ==
  ASSUME NEW node, NEW m, NEW fields, NumSplits(node, m) \in Nat
  PROVE  LET n == NumSplits(node, m)
             e == Ends(node, m, fields)
         IN  e = [i \in 0 .. n |->
                    IF i = 0 THEN node.from
                    ELSE EndOfUnit(node, e[i - 1], LenOf(node, m, fields, i), i = n)]
<1> DEFINE n == NumSplits(node, m)
           Unit(x, i) == EndOfUnit(node, x, LenOf(node, m, fields, i), i = n)
           IsUpTo(k, e) == e = [i \in 0 .. k |-> IF i = 0 THEN node.from ELSE Unit(e[i - 1], i)]
           Bad == {k \in 0 .. n : ~\E e : IsUpTo(k, e)}
<1> HIDE DEF n, Unit
<1>1. n \in Nat
  BY DEF n
<1>2. ASSUME Bad # {} PROVE FALSE
  <2>1. Bad \subseteq Nat
    BY <1>1
  <2>2. PICK k \in Bad : \A j \in Bad : k <= j
    <3> HIDE DEF Bad
    <3> QED BY <1>2, <2>1, LeastNatural
  <2>3. CASE k = 0
    <3>1. IsUpTo(0, [i \in 0 .. 0 |-> node.from])
      OBVIOUS
    <3> QED BY <2>2, <2>3, <3>1
  <2>4. CASE k # 0
    <3>1. k - 1 \in 0 .. n /\ k - 1 \notin Bad /\ k \in Nat
      <4>1. k \in 0 .. n
        OBVIOUS
      <4> HIDE DEF Bad
      <4> QED BY <1>1, <2>2, <2>4, <4>1
    <3>2. PICK e : IsUpTo(k - 1, e)
      BY <3>1
    <3> DEFINE new == [i \in 0 .. k |-> IF i <= k - 1 THEN e[i] ELSE Unit(e[k - 1], k)]
    <3>3. ASSUME NEW i \in 0 .. k
          PROVE  new[i] = IF i = 0 THEN node.from ELSE Unit(new[i - 1], i)
      <4>1. CASE i <= k - 1
        <5>1. e[i] = IF i = 0 THEN node.from ELSE Unit(e[i - 1], i)
          BY <3>2, <4>1
        <5> QED BY <3>1, <4>1, <5>1
      <4>2. CASE i = k
        <5>1. new[k] = Unit(e[k - 1], k)
          BY <3>1
        <5>2. new[k - 1] = e[k - 1]
          BY <3>1, <2>4
        <5> HIDE DEF new
        <5> QED BY <2>4, <4>2, <5>1, <5>2
      <4> QED BY <3>1, <4>1, <4>2
    <3>4. IsUpTo(k, new)
      BY <3>3
    <3> QED BY <2>2, <3>4
  <2> QED BY <2>3, <2>4
<1>3. n \in 0 .. n /\ n \notin Bad
  <2> HIDE DEF Bad
  <2> QED BY <1>1, <1>2
<1>4. PICK e : IsUpTo(n, e)
  BY <1>3
<1> QED BY <1>4 DEF Ends, n, Unit

(* The ends of the units: they begin where the word begins, they end where *)
(* it ends, and all of them are positions.                                 *)
LEMMA EndsOfUnits ==
  ASSUME NEW node \in Node, NEW m \in {"A", "B", "C"}, NEW fields, NumSplits(node, m) > 0
  PROVE  LET n == NumSplits(node, m)
             e == Ends(node, m, fields)
         IN  /\ e[0] = node.from /\ e[n] = node.to
             /\ \A i \in 0 .. n : e[i] \in Nat
<1> DEFINE n == NumSplits(node, m)
           e == Ends(node, m, fields)
           Bad == {i \in 0 .. n : e[i] \notin Nat}
<1>1. n \in Nat \ {0} /\ m # "C"
  <2>1. n \in Nat \ {0}
    BY SplitsOfNode
  <2>2. m = "C" => n = 0
    BY DEF NumSplits
  <2> QED BY <2>1, <2>2
<1>2. /\ e[0] = node.from
      /\ \A i \in 1 .. n : e[i] = EndOfUnit(node, e[i - 1], LenOf(node, m, fields, i), i = n)
  <2>1. e = [i \in 0 .. n |->
               IF i = 0 THEN node.from
               ELSE EndOfUnit(node, e[i - 1], LenOf(node, m, fields, i), i = n)]
    BY <1>1, EndsExist
  <2> HIDE DEF n, e
  <2> QED BY <1>1, <2>1
<1>3. e[n] = node.to
  BY <1>1, <1>2 DEF EndOfUnit
<1>4. ASSUME NEW i \in 1 .. n, e[i - 1] \in Nat PROVE e[i] \in Nat
  <2>1. LenOf(node, m, fields, i) \in Nat
    BY <1>1, SplitsOfNode DEF LenOf
  <2> HIDE DEF e, n
  <2> QED BY <1>2, <1>4, <2>1, NodeFields DEF EndOfUnit
<1>5. ASSUME Bad # {} PROVE FALSE
  <2>1. Bad \subseteq Nat /\ \A i \in Bad : i \in 0 .. n /\ e[i] \notin Nat
    BY <1>1
  <2>2. \A i \in 0 .. n : i \notin Bad => e[i] \in Nat
    OBVIOUS
  <2> HIDE DEF Bad, n, e
  <2>3. PICK i \in Bad : \A j \in Bad : i <= j
    BY <1>5, <2>1, LeastNatural
  <2>4. i # 0
    BY <1>2, <2>1, <2>3, NodeFields
  <2>5. i \in 1 .. n /\ i - 1 \in 0 .. n /\ i - 1 \notin Bad
    BY <1>1, <2>1, <2>3, <2>4
  <2> QED BY <1>4, <2>1, <2>2, <2>3, <2>5
<1>6. \A i \in 0 .. n : e[i] \in Nat
  BY <1>5
<1> QED BY <1>2, <1>3, <1>6

(* The units of a word tile it, are of its text and are nodes themselves.  *)
LEMMA SplitTiles ==
  ASSUME NEW node \in Node, NEW m \in {"A", "B", "C"}, NEW fields, NumSplits(node, m) > 0
  PROVE  /\ Split(node, m, fields) \in Seq(Node)
         /\ Len(Split(node, m, fields)) = NumSplits(node, m)
         /\ Covers(Split(node, m, fields), node.from, node.to)
         /\ \A i \in DOMAIN Split(node, m, fields) : Split(node, m, fields)[i].text = node.text
<1> DEFINE n == NumSplits(node, m)
           e == Ends(node, m, fields)
           s == Split(node, m, fields)
           unit(i) == [text |-> node.text, from |-> e[i - 1], to |-> e[i], units |-> NoUnits]
<1>1. n \in Nat \ {0}
  BY SplitsOfNode
<1>2. s = [i \in 1 .. n |-> unit(i)]
  BY SplitByEnds
<1>3. e[0] = node.from /\ e[n] = node.to /\ \A i \in 0 .. n : e[i] \in Nat
  BY EndsOfUnits
<1> HIDE DEF n, e, s
<1>4. \A i \in 1 .. n : unit(i) \in Node
  <2> TAKE i \in 1 .. n
  <2>1. i - 1 \in 0 .. n /\ i \in 0 .. n
    BY <1>1
  <2>2. NoUnits \in [{"A", "B"} -> Seq(Nat)]
    BY EmptySeq DEF NoUnits
  <2> QED BY <1>3, <2>1, <2>2, NodeFields DEF Node
<1>5. s \in Seq(Node) /\ Len(s) = n /\ DOMAIN s = 1 .. n
  BY <1>1, <1>2, <1>4
<1>6. \A i \in 1 .. n : s[i].text = node.text /\ s[i].from = e[i - 1] /\ s[i].to = e[i]
  BY <1>2
<1>7. Covers(s, node.from, node.to)
  <2>1. s # << >> /\ 1 \in 1 .. n /\ n \in 1 .. n
    BY <1>1, <1>5, EmptySeq
  <2>2. s[1].from = node.from /\ s[n].to = node.to
    BY <1>3, <1>6, <2>1
  <2>3. \A i \in 1 .. n - 1 : s[i].to = s[i + 1].from
    <3> TAKE i \in 1 .. n - 1
    <3>1. i \in 1 .. n /\ i + 1 \in 1 .. n /\ i + 1 - 1 = i
      BY <1>1
    <3> QED BY <1>6, <3>1
  <2> QED BY <1>5, <2>1, <2>2, <2>3 DEF Covers
<1> QED BY <1>5, <1>6, <1>7 DEF n, s
-----------------------------------------------------------------------------
(* Paths that follow each other make one path.                             *)
LEMMA CoversConcat ==
  ASSUME NEW p \in Seq(Node), NEW q \in Seq(Node), NEW a, NEW b, NEW c,
         Covers(p, a, b), Covers(q, b, c), q # << >>
  PROVE  Covers(p \o q, a, c) /\ p \o q \in Seq(Node)
<1> DEFINE r == p \o q
           k == Len(p)
           l == Len(q)
<1>1. /\ k \in Nat /\ l \in Nat \ {0} /\ r \in Seq(Node) /\ Len(r) = k + l
      /\ \A i \in 1 .. k + l : r[i] = IF i <= k THEN p[i] ELSE q[i - k]
  BY EmptySeq, LenProperties, ConcatProperties
<1>2. q[1].from = b /\ q[l].to = c /\ \A i \in 1 .. l - 1 : q[i].to = q[i + 1].from
  BY DEF Covers
<1>3. CASE p = << >>
  <2>1. a = b /\ r = q
    BY <1>3, ConcatEmptySeq DEF Covers
  <2> QED BY <2>1
<1>4. CASE p # << >>
  <2>1. /\ k \in Nat \ {0} /\ p[1].from = a /\ p[k].to = b
        /\ \A i \in 1 .. k - 1 : p[i].to = p[i + 1].from
    BY <1>1, <1>4, EmptySeq DEF Covers
  <2> HIDE DEF r, k, l
  <2>2. r[1] = p[1] /\ r[k + l] = q[l]
    BY <1>1, <2>1
  <2>3. ASSUME NEW i \in 1 .. k + l - 1 PROVE r[i].to = r[i + 1].from
    <3>1. CASE i < k
      <4>1. r[i] = p[i] /\ r[i + 1] = p[i + 1] /\ i \in 1 .. k - 1
        BY <1>1, <2>1, <3>1
      <4> QED BY <2>1, <4>1
    <3>2. CASE i = k
      <4>1. r[i] = p[k] /\ r[i + 1] = q[1]
        BY <1>1, <2>1, <3>2
      <4> QED BY <1>2, <2>1, <4>1
    <3>3. CASE i > k
      <4>1. i - k \in 1 .. l - 1 /\ i + 1 - k = (i - k) + 1
        BY <1>1, <3>3
      <4>2. r[i] = q[i - k] /\ r[i + 1] = q[(i - k) + 1]
        BY <1>1, <3>3, <4>1
      <4> QED BY <1>2, <4>1, <4>2
    <3> QED BY <1>1, <3>1, <3>2, <3>3
  <2>4. r # << >> /\ Len(r) = k + l
    BY <1>1, <2>1, EmptySeq
  <2>5. r[1].from = a /\ r[Len(r)].to = c
    BY <1>2, <2>1, <2>2, <2>4
  <2>6. \A i \in 1 .. Len(r) - 1 : r[i].to = r[i + 1].from
    <3> TAKE i \in 1 .. Len(r) - 1
    <3>1. i \in 1 .. k + l - 1
      BY <1>1, <2>4
    <3> QED BY <2>3, <3>1
  <2>7. Covers(r, a, c)
    BY <2>4, <2>5, <2>6 DEF Covers
  <2> QED BY <1>1, <2>7 DEF r
<1> QED BY <1>1, <1>3, <1>4

(* One piece of split_path: the word itself, or its units.                 *)
PieceOf(path, m, fields, i) ==
  IF NumSplits(path[i], m) <= 1 THEN <<path[i]>> ELSE Split(path[i], m, fields)

(* What stands for one word in the split path covers that word.            *)
LEMMA PieceTiles ==
  ASSUME NEW path \in Seq(Node), NEW m \in {"A", "B", "C"}, NEW fields, NEW i \in 1 .. Len(path)
  PROVE  LET piece == PieceOf(path, m, fields, i)
         IN  /\ piece \in Seq(Node) /\ piece # << >>
             /\ Covers(piece, path[i].from, path[i].to)
             /\ \A j \in 1 .. Len(piece) : piece[j].text = path[i].text
<1>1. path[i] \in Node
  BY ElementOfSeq, LenProperties
<1>2. NumSplits(path[i], m) \in Nat
  BY <1>1, SplitsOfNode
<1>3. CASE NumSplits(path[i], m) <= 1
  <2>1. PieceOf(path, m, fields, i) = <<path[i]>>
    BY <1>3 DEF PieceOf
  <2>2. /\ <<path[i]>> \in Seq(Node) /\ <<path[i]>> # << >> /\ Len(<<path[i]>>) = 1
        /\ <<path[i]>>[1] = path[i]
    BY <1>1
  <2>3. Covers(<<path[i]>>, path[i].from, path[i].to)
    BY <2>2 DEF Covers
  <2> QED BY <2>1, <2>2, <2>3
<1>4. CASE ~(NumSplits(path[i], m) <= 1)
  <2> DEFINE s == Split(path[i], m, fields)
  <2>1. PieceOf(path, m, fields, i) = s
    BY <1>4 DEF PieceOf
  <2>2. /\ s \in Seq(Node) /\ Len(s) = NumSplits(path[i], m)
        /\ Covers(s, path[i].from, path[i].to)
        /\ \A j \in DOMAIN s : s[j].text = path[i].text
    BY <1>1, <1>2, <1>4, SplitTiles
  <2> HIDE DEF s
  <2>3. s # << >> /\ DOMAIN s = 1 .. Len(s)
    BY <1>2, <1>4, <2>2, EmptySeq, LenProperties
  <2> QED BY <2>1, <2>2, <2>3
<1> QED BY <1>3, <1>4

UpTo(path, m, fields) ==
  CHOOSE upTo : upTo = [i \in 0 .. Len(path) |->
    IF i = 0 THEN << >> ELSE upTo[i - 1] \o PieceOf(path, m, fields, i)]

(* A split path is its pieces put together.                                *)
LEMMA SplitPathByPieces ==
  ASSUME NEW path, NEW m, NEW fields
  PROVE  SplitPath(path, m, fields) = UpTo(path, m, fields)[Len(path)]
  BY DEF SplitPath, UpTo, PieceOf

(* The pieces put together so far satisfy their recursion.                 *)
LEMMA UpToExists ==
  ASSUME NEW path \in Seq(Node), NEW m, NEW fields
  PROVE  LET u == UpTo(path, m, fields)
         IN  /\ u[0] = << >>
             /\ \A i \in 1 .. Len(path) : u[i] = u[i - 1] \o PieceOf(path, m, fields, i)
<1> DEFINE n == Len(path)
           Piece(i) == PieceOf(path, m, fields, i)
           Join(x, i) == x \o Piece(i)
           Empty == << >>
           IsUpTo(k, u) == u = [i \in 0 .. k |-> IF i = 0 THEN Empty ELSE Join(u[i - 1], i)]
           Bad == {k \in 0 .. n : ~\E u : IsUpTo(k, u)}
<1>1. n \in Nat
  BY LenProperties
<1> HIDE DEF n, Piece, Join, Empty
<1>2. ASSUME Bad # {} PROVE FALSE
  <2>1. Bad \subseteq Nat
    BY <1>1
  <2>2. PICK k \in Bad : \A j \in Bad : k <= j
    <3> HIDE DEF Bad
    <3> QED BY <1>2, <2>1, LeastNatural
  <2>3. CASE k = 0
    <3>1. IsUpTo(0, [i \in 0 .. 0 |-> Empty])
      OBVIOUS
    <3> QED BY <2>2, <2>3, <3>1
  <2>4. CASE k # 0
    <3>1. k - 1 \in 0 .. n /\ k - 1 \notin Bad /\ k \in Nat
      <4>1. k \in 0 .. n
        OBVIOUS
      <4> HIDE DEF Bad
      <4> QED BY <1>1, <2>2, <2>4, <4>1
    <3>2. PICK u : IsUpTo(k - 1, u)
      BY <3>1
    <3> DEFINE new == [i \in 0 .. k |-> IF i <= k - 1 THEN u[i] ELSE Join(u[k - 1], k)]
    <3>3. ASSUME NEW i \in 0 .. k
          PROVE  new[i] = IF i = 0 THEN Empty ELSE Join(new[i - 1], i)
      <4>1. CASE i <= k - 1
        <5>1. u[i] = IF i = 0 THEN Empty ELSE Join(u[i - 1], i)
          BY <3>2, <4>1
        <5> QED BY <3>1, <4>1, <5>1
      <4>2. CASE i = k
        <5>1. new[k] = Join(u[k - 1], k)
          BY <3>1
        <5>2. new[k - 1] = u[k - 1]
          BY <3>1, <2>4
        <5> HIDE DEF new
        <5> QED BY <2>4, <4>2, <5>1, <5>2
      <4> QED BY <3>1, <4>1, <4>2
    <3>4. IsUpTo(k, new)
      BY <3>3
    <3> QED BY <2>2, <3>4
  <2> QED BY <2>3, <2>4
<1>3. n \in 0 .. n /\ n \notin Bad
  <2> HIDE DEF Bad
  <2> QED BY <1>1, <1>2
<1>4. PICK u : IsUpTo(n, u)
  BY <1>3
<1> DEFINE w == UpTo(path, m, fields)
<1>5. w = [i \in 0 .. n |-> IF i = 0 THEN Empty ELSE Join(w[i - 1], i)]
  BY <1>4 DEF UpTo, n, Piece, Join, Empty
<1> HIDE DEF w
<1>6. w[0] = Empty /\ \A i \in 1 .. n : w[i] = Join(w[i - 1], i)
  BY <1>1, <1>5
<1> QED BY <1>6 DEF w, n, Piece, Join, Empty

(* split_path keeps a result of a text a result of it.                     *)
LEMMA SplitPathTiles ==
  ASSUME NEW path \in Seq(Node), NEW m \in {"A", "B", "C"}, NEW fields, NEW t,
         IsResultOf(path, t)
  PROVE  /\ SplitPath(path, m, fields) \in Seq(Node)
         /\ IsResultOf(SplitPath(path, m, fields), t)
<1> DEFINE n == Len(path)
           u == UpTo(path, m, fields)
           Piece(i) == PieceOf(path, m, fields, i)
           End(i) == IF i = 0 THEN 0 ELSE path[i].to
           Good(i) == /\ u[i] \in Seq(Node) /\ Covers(u[i], 0, End(i))
                      /\ \A j \in 1 .. Len(u[i]) : u[i][j].text = t
           Bad == {i \in 0 .. n : ~Good(i)}
<1>1. /\ n \in Nat /\ DOMAIN path = 1 .. n /\ Covers(path, 0, LengthOf(t))
      /\ \A i \in 1 .. n : path[i].text = t
  BY LenProperties DEF IsResultOf
<1>2. u[0] = << >> /\ \A i \in 1 .. n : u[i] = u[i - 1] \o Piece(i)
  BY UpToExists
<1>3. \A i \in 1 .. n : path[i].from = End(i - 1)
  <2> TAKE i \in 1 .. n
  <2>1. path # << >> /\ path[1].from = 0 /\ \A j \in 1 .. n - 1 : path[j].to = path[j + 1].from
    BY <1>1, EmptySeq DEF Covers
  <2>2. CASE i = 1
    BY <2>1, <2>2
  <2>3. CASE i # 1
    <3>1. i - 1 \in 1 .. n - 1 /\ i - 1 + 1 = i
      BY <1>1, <2>3
    <3> QED BY <2>1, <3>1
  <2> QED BY <2>2, <2>3
<1>4. Good(0)
  <2>1. u[0] \in Seq(Node) /\ Len(u[0]) = 0
    BY <1>2, EmptySeq
  <2> QED BY <1>2, <2>1 DEF Covers
<1> HIDE DEF u, Piece
<1>5. ASSUME NEW i \in 1 .. n, Good(i - 1) PROVE Good(i)
  <2> DEFINE p == Piece(i)
             v == u[i - 1]
  <2>1. /\ p \in Seq(Node) /\ p # << >> /\ Covers(p, End(i - 1), path[i].to)
        /\ \A j \in 1 .. Len(p) : p[j].text = t
    BY <1>1, <1>3, PieceTiles DEF Piece
  <2>2. v \in Seq(Node) /\ Covers(v, 0, End(i - 1)) /\ \A j \in 1 .. Len(v) : v[j].text = t
    BY <1>5
  <2>3. u[i] = v \o p
    BY <1>2
  <2> HIDE DEF p, v, End
  <2>4. v \o p \in Seq(Node) /\ Covers(v \o p, 0, path[i].to)
    BY <2>1, <2>2, CoversConcat
  <2>5. \A j \in 1 .. Len(v \o p) : (v \o p)[j].text = t
    <3>1. /\ Len(v) \in Nat /\ Len(p) \in Nat /\ Len(v \o p) = Len(v) + Len(p)
          /\ \A j \in 1 .. Len(v) + Len(p) : (v \o p)[j] = IF j <= Len(v) THEN v[j] ELSE p[j - Len(v)]
      BY <2>1, <2>2, LenProperties, ConcatProperties
    <3> TAKE j \in 1 .. Len(v \o p)
    <3>2. CASE j <= Len(v)
      BY <2>2, <3>1, <3>2
    <3>3. CASE ~(j <= Len(v))
      <4>1. j - Len(v) \in 1 .. Len(p)
        BY <3>1, <3>3
      <4> QED BY <2>1, <3>1, <3>3, <4>1
    <3> QED BY <3>2, <3>3
  <2> QED BY <2>3, <2>4, <2>5 DEF End
<1>6. ASSUME Bad # {} PROVE FALSE
  <2>1. Bad \subseteq Nat /\ \A i \in Bad : i \in 0 .. n /\ ~Good(i)
    BY <1>1
  <2>2. \A i \in 0 .. n : i \notin Bad => Good(i)
    OBVIOUS
  <2> HIDE DEF Bad, n, Good
  <2>3. PICK i \in Bad : \A j \in Bad : i <= j
    BY <1>6, <2>1, LeastNatural
  <2>4. i # 0
    BY <1>4, <2>1, <2>3
  <2>5. i \in 1 .. n /\ i - 1 \in 0 .. n /\ i - 1 \notin Bad
    BY <1>1, <2>1, <2>3, <2>4
  <2> QED BY <1>5, <2>1, <2>2, <2>3, <2>5
<1>7. Good(n)
  <2>1. n \in 0 .. n /\ n \notin Bad
    <3> HIDE DEF Bad
    <3> QED BY <1>1, <1>6
  <2> QED BY <2>1
<1>8. End(n) = LengthOf(t)
  <2>1. CASE path = << >>
    BY <1>1, <2>1, EmptySeq DEF Covers
  <2>2. CASE path # << >>
    BY <1>1, <2>2, EmptySeq DEF Covers
  <2> QED BY <2>1, <2>2
<1>9. SplitPath(path, m, fields) = u[n] /\ DOMAIN u[n] = 1 .. Len(u[n])
  BY <1>7, SplitPathByPieces, LenProperties DEF u
<1> QED BY <1>7, <1>8, <1>9 DEF IsResultOf
-----------------------------------------------------------------------------
(* What the analysis of a text yields is a result of that text.            *)
LEMMA WordNodesAreResults ==
  ASSUME NEW t \in Texts, NEW fields
  PROVE  WordNodes(t, fields) \in Seq(Node) /\ IsResultOf(WordNodes(t, fields), t)
<1> DEFINE ws == Analysis[t]
           n == Len(ws)
           Word == [from : Nat, to : Nat, units : [{"A", "B"} -> Seq(Nat)]]
           path == WordNodes(t, fields)
<1>1. ws \in Seq(Word) /\ Covers(ws, 0, LengthOf(t))
  BY AnalysisAssumption
<1>2. n \in Nat /\ \A i \in 1 .. n : ws[i] \in Word
  BY <1>1, LenProperties, ElementOfSeq
<1>3. path = [i \in 1 .. n |-> NodeOf(t, ws[i], fields)]
  BY DEF WordNodes
<1>4. ASSUME NEW w \in Word
      PROVE  /\ NodeOf(t, w, fields) \in Node /\ NodeOf(t, w, fields).text = t
             /\ NodeOf(t, w, fields).from = w.from /\ NodeOf(t, w, fields).to = w.to
  <2>1. Load(fields, w.units) \in [{"A", "B"} -> Seq(Nat)]
    <3>1. w.units \in [{"A", "B"} -> Seq(Nat)] /\ << >> \in Seq(Nat)
      BY EmptySeq
    <3> QED BY <3>1 DEF Load
  <2>2. w.from \in Nat /\ w.to \in Nat
    OBVIOUS
  <2> QED BY <2>1, <2>2 DEF NodeOf, Node
<1> HIDE DEF ws, n, Word, path
<1>5. path \in Seq(Node) /\ Len(path) = n
      /\ \A i \in 1 .. n : /\ path[i].text = t
                           /\ path[i].from = ws[i].from /\ path[i].to = ws[i].to
  <2>1. \A i \in 1 .. n : NodeOf(t, ws[i], fields) \in Node
    BY <1>2, <1>4
  <2>2. path \in Seq(Node) /\ Len(path) = n /\ DOMAIN path = 1 .. n
    <3>1. path \in [1 .. n -> Node]
      BY <1>3, <2>1
    <3> QED BY <1>2, <3>1, SeqDef, IsASeq, LenProperties
  <2> QED BY <1>2, <1>3, <1>4, <2>2
<1>6. DOMAIN path = 1 .. n /\ Len(ws) = n
  BY <1>5, LenProperties DEF n
<1>7. Covers(path, 0, LengthOf(t))
  <2>1. CASE n = 0
    <3>1. path = << >> /\ ws = << >>
      BY <1>1, <1>5, <1>6, <2>1, EmptySeq
    <3> QED BY <1>1, <3>1 DEF Covers
  <2>2. CASE n # 0
    <3>1. path # << >> /\ ws # << >> /\ 1 \in 1 .. n /\ n \in 1 .. n
      BY <1>1, <1>2, <1>5, <1>6, <2>2, EmptySeq
    <3>2. /\ ws[1].from = 0 /\ ws[n].to = LengthOf(t)
          /\ \A i \in 1 .. n - 1 : ws[i].to = ws[i + 1].from
      BY <1>1, <1>6, <3>1 DEF Covers
    <3>3. \A i \in 1 .. n - 1 : path[i].to = path[i + 1].from
      <4> TAKE i \in 1 .. n - 1
      <4>1. i \in 1 .. n /\ i + 1 \in 1 .. n
        BY <1>2
      <4> QED BY <1>5, <3>2, <4>1
    <3>4. path[1].from = 0 /\ path[n].to = LengthOf(t)
      BY <1>5, <3>1, <3>2
    <3> QED BY <1>5, <3>1, <3>3, <3>4 DEF Covers
  <2> QED BY <2>1, <2>2
<1> QED BY <1>5, <1>6, <1>7 DEF path, IsResultOf
-----------------------------------------------------------------------------
Stages == {"reset", "done", "failed", "taken", "panic"}

(* Everything has its type, but for the settings of the tokenizer.         *)
WellFormed ==
  /\ mode \in {"A", "B", "C"} /\ text \in Texts /\ stage \in Stages
  /\ topPath \in Seq(Node) \cup {NoPath}
  /\ list.text \in Texts /\ list.nodes \in Seq(Node)

(* A path that is about to be filled is empty or lost.                     *)
FilledFromEmpty == stage = "reset" => topPath \in {<< >>, NoPath}

(* A path with words in it, fresh or just taken back from the list, is a   *)
(* result of the text the tokenizer holds.                                 *)
PathBelongs == topPath \notin {NoPath, << >>} => IsResultOf(topPath, text)

TokenizerInv == WellFormed /\ FilledFromEmpty /\ PathBelongs /\ ResultsAreOfTheirTexts

(* The empty path is the result of a text without words.                   *)
LEMMA EmptyIsResult ==
  ASSUME NEW t \in Texts, Analysis[t] = << >>
  PROVE  IsResultOf(<< >>, t)
<1>1. DOMAIN << >> = {} /\ Covers(<< >>, 0, LengthOf(t))
  BY DEF Covers, LengthOf
<1> QED BY <1>1 DEF IsResultOf

(* create: nothing has been analysed, nothing is in the list.              *)
LEMMA TokenizerInvInit == Init => TokenizerInv
<1> SUFFICES ASSUME Init PROVE TokenizerInv
  OBVIOUS
<1>1. << >> \in Seq(Node)
  BY EmptySeq
<1>2. WellFormed
  BY <1>1 DEF Init, WellFormed, Stages
<1>3. FilledFromEmpty /\ PathBelongs /\ ResultsAreOfTheirTexts
  BY DEF Init, FilledFromEmpty, PathBelongs, ResultsAreOfTheirTexts
<1> QED BY <1>2, <1>3 DEF TokenizerInv

(* do_tokenize fills an empty path with the words of its text.             *)
LEMMA TokenizeStep ==
  ASSUME TokenizerInv, Tokenize
  PROVE  TokenizerInv'
<1> DEFINE taken == IF topPath = NoPath THEN << >> ELSE topPath
           words == WordNodes(text, subset)
<1>1. taken = << >> /\ text \in Texts /\ mode \in {"A", "B", "C"}
  BY DEF TokenizerInv, WellFormed, FilledFromEmpty, Tokenize
<1>2. words \in Seq(Node) /\ IsResultOf(words, text)
  BY <1>1, WordNodesAreResults
<1>3. topPath' = SplitPath(taken \o words, mode, subset)
  BY DEF Tokenize
<1> HIDE DEF taken, words
<1>4. taken \o words = words
  BY <1>1, <1>2, ConcatEmptySeq
<1>5. topPath' \in Seq(Node) /\ IsResultOf(topPath', text)
  BY <1>1, <1>2, <1>3, <1>4, SplitPathTiles
<1>6. stage' = "done" /\ UNCHANGED <<mode, subset, text, list>>
  BY DEF Tokenize
<1>7. WellFormed'
  BY <1>5, <1>6 DEF TokenizerInv, WellFormed, Stages
<1>8. FilledFromEmpty' /\ PathBelongs' /\ ResultsAreOfTheirTexts'
  BY <1>5, <1>6 DEF TokenizerInv, FilledFromEmpty, PathBelongs, ResultsAreOfTheirTexts
<1> QED BY <1>7, <1>8 DEF TokenizerInv

(* Each call keeps texts and paths together.                               *)
LEMMA TokenizerInvStep == TokenizerInv /\ [Next]_vars => TokenizerInv'
<1> SUFFICES ASSUME TokenizerInv, [Next]_vars PROVE TokenizerInv'
  OBVIOUS
<1> USE DEF TokenizerInv, WellFormed, FilledFromEmpty, PathBelongs, ResultsAreOfTheirTexts, Stages
<1>1. ASSUME NEW m \in Modes, SetMode(m) PROVE TokenizerInv'
  BY <1>1, ModesAssumption DEF SetMode
<1>2. ASSUME NEW s \in Subsets, SetSubset(s) PROVE TokenizerInv'
  BY <1>2 DEF SetSubset
<1>3. ASSUME NEW t \in Texts, Reset(t) PROVE TokenizerInv'
  BY <1>3, EmptySeq DEF Reset, Emptied
<1>4. CASE InputFails
  BY <1>4 DEF InputFails
<1>5. CASE NothingToAnalyse
  <2>1. IsResultOf(<< >>, text)
    BY <1>5, EmptyIsResult DEF NothingToAnalyse
  <2> QED BY <1>5, <2>1 DEF NothingToAnalyse
<1>6. CASE LatticeFails
  BY <1>6 DEF LatticeFails
<1>7. CASE PathFails
  BY <1>7 DEF PathFails
<1>8. CASE Tokenize
  <2> USE DEF TokenizerInv
  <2> QED BY <1>8, TokenizeStep
<1>9. CASE Collect
  <2>1. /\ list'.text = text /\ list'.nodes = topPath
        /\ text' = list.text /\ topPath' = list.nodes /\ stage' = "taken"
        /\ mode' = mode /\ topPath # NoPath
    BY <1>9 DEF Collect, CollectedText
  <2> QED BY <2>1
<1>10. CASE CollectPanics
  BY <1>10 DEF CollectPanics
<1>11. CASE ClearList
  <2>1. /\ list'.text = list.text /\ list'.nodes = << >> /\ << >> \in Seq(Node)
        /\ UNCHANGED <<mode, subset, text, topPath, stage>>
    BY <1>11, EmptySeq DEF ClearList
  <2> QED BY <2>1
<1>12. CASE UNCHANGED vars
  BY <1>12 DEF vars
<1> QED BY <1>1, <1>2, <1>3, <1>4, <1>5, <1>6, <1>7, <1>8, <1>9, <1>10, <1>11, <1>12 DEF Next

(* Whatever is set, analysed, refused, lost and collected, in any order:   *)
(* after an analysis that succeeded a path that is there is the path of    *)
(* the text analysed, all of it, and the nodes of the list are those of    *)
(* the text in the list.                                                   *)
THEOREM ResultsBelong == Spec => []ResultsAreOfTheirTexts
<1>1. TokenizerInv => ResultsAreOfTheirTexts
  BY DEF TokenizerInv
<1> QED BY <1>1, TokenizerInvInit, TokenizerInvStep, PTL DEF Spec
-----------------------------------------------------------------------------
(* The lists, their inputs and their nodes have their types.               *)
ListsInv ==
  /\ parts \in [Parts -> [text : Texts, subset : SUBSET Fields]]
  /\ partOf \in [Lists -> Parts]
  /\ nodes \in [Lists -> Seq(Node)]
  /\ holders \subseteq Lists

(* The subsets that can be asked for are sets of fields.                   *)
LEMMA SubsetsAreFields == Fields \in SUBSET Fields /\ \A s \in Subsets : s \in SUBSET Fields
  BY SubsetsAssumption

(* A word without units has units of their type.                           *)
LEMMA NoUnitsTyped == NoUnits \in [{"A", "B"} -> Seq(Nat)]
<1>1. << >> \in Seq(Nat)
  BY EmptySeq
<1> QED BY <1>1 DEF NoUnits

(* The entries a lookup finds are nodes.                                   *)
LEMMA FoundAreNodes ==
  ASSUME NEW q \in Texts, NEW fields
  PROVE  Found(q, fields) \in Seq(Node)
<1> DEFINE n == Entries[q]
           node == NodeOf(q, [from |-> 0, to |-> LengthOf(q), units |-> NoUnits], fields)
<1>1. n \in Nat
  BY EntriesAssumption
<1>2. LengthOf(q) \in Nat
  <2> DEFINE ws == Analysis[q]
             Word == [from : Nat, to : Nat, units : [{"A", "B"} -> Seq(Nat)]]
  <2>1. ws \in Seq(Word)
    BY AnalysisAssumption
  <2>2. CASE ws = << >>
    BY <2>2 DEF LengthOf
  <2>3. CASE ws # << >>
    <3> HIDE DEF ws, Word
    <3>1. Len(ws) \in 1 .. Len(ws)
      BY <2>1, <2>3, EmptySeq, LenProperties
    <3>2. ws[Len(ws)] \in Word
      BY <2>1, <3>1, ElementOfSeq
    <3>3. ws[Len(ws)].to \in Nat
      BY <3>2 DEF Word
    <3> QED BY <2>3, <3>3 DEF LengthOf, ws
  <2> QED BY <2>2, <2>3
<1>3. node \in Node
  <2>1. Load(fields, NoUnits) \in [{"A", "B"} -> Seq(Nat)]
    <3>1. << >> \in Seq(Nat)
      BY EmptySeq
    <3> QED BY <3>1, NoUnitsTyped DEF Load
  <2> QED BY <1>2, <2>1 DEF NodeOf, Node
<1>4. Found(q, fields) = [i \in 1 .. n |-> node]
  BY DEF Found
<1> HIDE DEF n, node
<1> QED BY <1>1, <1>3, <1>4, IsASeq
-----------------------------------------------------------------------------
(* The lists are empty at the beginning.                                   *)
LEMMA ListsInvInit == LInit => ListsInv
<1> SUFFICES ASSUME LInit PROVE ListsInv
  OBVIOUS
<1>1. << >> \in Seq(Node)
  BY EmptySeq
<1>2. parts \in [Parts -> [text : Texts, subset : SUBSET Fields]]
  <2>1. PICK t \in Texts : parts = [p \in Parts |-> [text |-> t, subset |-> Fields]]
    BY DEF LInit
  <2> QED BY <2>1, SubsetsAreFields
<1> QED BY <1>1, <1>2 DEF LInit, ListsInv

(* What is written to a list is appended nodes.                            *)
LEMMA AppendedNodes ==
  ASSUME ListsInv, NEW out \in Lists, NEW s \in Seq(Node),
         nodes' = [nodes EXCEPT ![out] = @ \o s]
  PROVE  nodes' \in [Lists -> Seq(Node)]
<1>1. nodes[out] \in Seq(Node)
  BY DEF ListsInv
<1>2. nodes[out] \o s \in Seq(Node)
  BY <1>1, ConcatProperties
<1> DEFINE new == nodes[out] \o s
<1>3. nodes' = [nodes EXCEPT ![out] = new]
  OBVIOUS
<1> HIDE DEF new
<1> QED BY <1>2, <1>3 DEF ListsInv, new

(* split_into appends units that tile their word.                          *)
LEMMA SplitIntoStep ==
  ASSUME ListsInv, NEW l \in Lists, NEW i, NEW m \in Modes, NEW out \in Lists,
         SplitInto(l, i, m, out)
  PROVE  /\ ListsInv'
         /\ nodes[out] = << >> =>
              /\ Covers(nodes'[out], nodes[l][i].from, nodes[l][i].to)
              /\ partOf'[out] = partOf'[l]
<1> DEFINE node == nodes[l][i]
           units == Split(node, m, parts[partOf[l]].subset)
<1>1. nodes[l] \in Seq(Node) /\ i \in 1 .. Len(nodes[l]) /\ m \in {"A", "B", "C"}
  BY ModesAssumption DEF SplitInto, ListsInv
<1>2. node \in Node
  BY <1>1, ElementOfSeq
<1>3. NumSplits(node, m) > 0 /\ nodes' = [nodes EXCEPT ![out] = @ \o units]
      /\ partOf' = [partOf EXCEPT ![out] = partOf[l]] /\ out # l
      /\ UNCHANGED <<parts, holders>>
  BY DEF SplitInto
<1>4. units \in Seq(Node) /\ Covers(units, node.from, node.to)
  BY <1>1, <1>2, <1>3, SplitTiles
<1> HIDE DEF node, units
<1>5. ListsInv'
  BY <1>3, <1>4, AppendedNodes DEF ListsInv
<1>6. ASSUME nodes[out] = << >> PROVE Covers(nodes'[out], node.from, node.to)
  <2>1. nodes'[out] = nodes[out] \o units
    BY <1>3 DEF ListsInv
  <2>2. nodes'[out] = units
    BY <1>4, <1>6, <2>1, ConcatEmptySeq
  <2> QED BY <1>4, <2>2
<1>7. partOf'[out] = partOf'[l]
  BY <1>3 DEF ListsInv
<1> QED BY <1>5, <1>6, <1>7 DEF node

(* Of the input behind a borrowed surface only the holders know; a list    *)
(* that is changed shares it with none of them.                            *)
LEMMA WrittenPartIsNotHeld ==
  ASSUME ListsInv, NEW k \in Lists, ~PartBorrowed(k), NEW part,
         parts' = [parts EXCEPT ![partOf[k]] = part], NEW l \in holders
  PROVE  parts'[partOf[l]].text = parts[partOf[l]].text
<1>1. partOf[l] # partOf[k] /\ partOf[l] \in Parts
  BY DEF PartBorrowed, ListsInv
<1> QED BY <1>1 DEF ListsInv

(* Each step keeps the types, and the texts that are borrowed.             *)
HeldStay == \A l \in holders : parts'[partOf[l]].text = parts[partOf[l]].text

LEMMA ListsStep ==
  ASSUME ListsInv, [LNext]_lvars
  PROVE  ListsInv' /\ HeldStay
<1>1. ASSUME NEW l \in Lists, NEW t \in Texts, NEW s \in Subsets, NEW c \in Subsets,
             CollectResults(l, t, s, c)
      PROVE  ListsInv' /\ HeldStay
  <2> DEFINE part == [text |-> t, subset |-> c]
             words == WordNodes(t, s)
  <2>1. /\ ~PartBorrowed(l) /\ parts' = [parts EXCEPT ![partOf[l]] = part]
        /\ nodes' = [nodes EXCEPT ![l] = words] /\ UNCHANGED <<partOf, holders>>
    BY <1>1 DEF CollectResults
  <2>2. words \in Seq(Node)
    BY WordNodesAreResults
  <2>3. part \in [text : Texts, subset : SUBSET Fields]
    BY SubsetsAreFields
  <2> HIDE DEF part, words
  <2>4. ListsInv'
    BY <2>1, <2>2, <2>3 DEF ListsInv
  <2>5. HeldStay
    BY <2>1, WrittenPartIsNotHeld DEF HeldStay
  <2> QED BY <2>4, <2>5
<1>2. ASSUME NEW l \in Lists, NEW i \in 1 .. MaxNodes, NEW m \in Modes, NEW out \in Lists,
             SplitInto(l, i, m, out)
      PROVE  ListsInv' /\ HeldStay
  <2>1. parts' = parts
    BY <1>2 DEF SplitInto
  <2> QED BY <1>2, <2>1, SplitIntoStep DEF HeldStay
<1>3. ASSUME NEW l \in Lists, NEW from \in 0 .. MaxNodes, NEW to \in 0 .. MaxNodes,
             NEW out \in Lists, CopySlice(l, from, to, out)
      PROVE  ListsInv' /\ HeldStay
  <2> DEFINE slice == SubSeq(nodes[l], from + 1, to)
  <2>1. /\ from <= to /\ to <= Len(nodes[l]) /\ UNCHANGED <<parts, partOf, holders>>
        /\ nodes' = [nodes EXCEPT ![out] = @ \o slice]
    BY <1>3 DEF CopySlice
  <2>2. nodes[l] \in Seq(Node)
    BY DEF ListsInv
  <2>3. slice \in Seq(Node)
    BY <2>1, <2>2, SubSeqProperties
  <2> HIDE DEF slice
  <2>4. nodes' \in [Lists -> Seq(Node)]
    BY <2>1, <2>3, AppendedNodes
  <2> QED BY <2>1, <2>4 DEF ListsInv, HeldStay
<1>4. ASSUME NEW l \in Lists, Clear(l) PROVE ListsInv' /\ HeldStay
  BY <1>4, EmptySeq DEF Clear, ListsInv, HeldStay
<1>5. ASSUME NEW l \in Lists, NEW p \in Parts, NewList(l, p) PROVE ListsInv' /\ HeldStay
  <2>1. PICK t \in Texts : parts' = [parts EXCEPT ![p] = [text |-> t, subset |-> Fields]]
    BY <1>5 DEF NewList
  <2>2. /\ l \notin holders /\ \A k \in Lists \ {l} : partOf[k] # p
        /\ partOf' = [partOf EXCEPT ![l] = p] /\ nodes' = [nodes EXCEPT ![l] = << >>]
        /\ holders' = holders
    BY <1>5 DEF NewList, Free
  <2>3. [text |-> t, subset |-> Fields] \in [text : Texts, subset : SUBSET Fields]
    OBVIOUS
  <2>4. ListsInv'
    BY <2>1, <2>2, <2>3, EmptySeq DEF ListsInv
  <2>5. ASSUME NEW k \in holders PROVE parts'[partOf[k]].text = parts[partOf[k]].text
    <3>1. partOf[k] # p /\ partOf[k] \in Parts
      BY <2>2 DEF ListsInv
    <3> QED BY <2>1, <3>1 DEF ListsInv
  <2> QED BY <2>4, <2>5 DEF HeldStay
<1>6. ASSUME NEW l \in Lists, NEW k \in Lists, EmptyClone(l, k) PROVE ListsInv' /\ HeldStay
  BY <1>6, EmptySeq DEF EmptyClone, ListsInv, HeldStay
<1>7. ASSUME NEW l \in Lists, NEW q \in Texts, NEW s \in Subsets, Lookup(l, q, s)
      PROVE  ListsInv' /\ HeldStay
  <2> DEFINE part == [parts[partOf[l]] EXCEPT !.text = q]
             found == Found(q, s)
  <2>1. /\ ~PartBorrowed(l) /\ parts' = [parts EXCEPT ![partOf[l]] = part]
        /\ nodes' = [nodes EXCEPT ![l] = @ \o found] /\ UNCHANGED <<partOf, holders>>
    BY <1>7 DEF Lookup
  <2>2. found \in Seq(Node)
    BY FoundAreNodes
  <2>3. part \in [text : Texts, subset : SUBSET Fields]
    BY DEF ListsInv
  <2> HIDE DEF part, found
  <2>4. nodes' \in [Lists -> Seq(Node)]
    BY <2>1, <2>2, AppendedNodes
  <2>5. ListsInv'
    BY <2>1, <2>3, <2>4 DEF ListsInv
  <2>6. HeldStay
    BY <2>1, WrittenPartIsNotHeld DEF HeldStay
  <2> QED BY <2>5, <2>6
<1>8. ASSUME NEW l \in Lists, NEW q \in Texts, LookupFails(l, q) PROVE ListsInv' /\ HeldStay
  <2> DEFINE part == [parts[partOf[l]] EXCEPT !.text = q]
  <2>1. /\ ~PartBorrowed(l) /\ parts' = [parts EXCEPT ![partOf[l]] = part]
        /\ UNCHANGED <<nodes, partOf, holders>>
    BY <1>8 DEF LookupFails
  <2>2. part \in [text : Texts, subset : SUBSET Fields]
    BY DEF ListsInv
  <2> HIDE DEF part
  <2>3. ListsInv'
    BY <2>1, <2>2 DEF ListsInv
  <2>4. HeldStay
    BY <2>1, WrittenPartIsNotHeld DEF HeldStay
  <2> QED BY <2>3, <2>4
<1>9. ASSUME NEW l \in Lists, Hold(l) PROVE ListsInv' /\ HeldStay
  BY <1>9 DEF Hold, ListsInv, HeldStay
<1>10. ASSUME NEW l \in Lists, Release(l) PROVE ListsInv' /\ HeldStay
  BY <1>10 DEF Release, ListsInv, HeldStay
<1>11. ASSUME NEW l \in Lists, CollectRefused(l) \/ LookupPanics(l) PROVE ListsInv' /\ HeldStay
  BY <1>11 DEF CollectRefused, LookupPanics, Panic, lvars, ListsInv, HeldStay
<1>12. CASE UNCHANGED lvars
  BY <1>12 DEF lvars, ListsInv, HeldStay
<1> QED
  BY <1>1, <1>2, <1>3, <1>4, <1>5, <1>6, <1>7, <1>8, <1>9, <1>10, <1>11, <1>12 DEF LNext
-----------------------------------------------------------------------------
(* While a caller holds the surface of a list, nothing any list does       *)
(* changes the text behind it.                                             *)
THEOREM BorrowedTextStays == LSpec => HeldSurfaceStays
<1>1. ListsInv /\ [LNext]_lvars => ListsInv'
  BY ListsStep
<1>2. ListsInv /\ [LNext]_lvars =>
        [\A l \in holders : parts'[partOf[l]].text = parts[partOf[l]].text]_lvars
  BY ListsStep DEF HeldStay
<1> QED BY <1>1, <1>2, ListsInvInit, PTL DEF LSpec, HeldSurfaceStays

(* The units split_into writes to an empty list begin where the word       *)
(* begins, follow each other without gap and end where it ends, whatever   *)
(* their own lengths are, and the list shows the text they were cut from.  *)
THEOREM UnitsTile == LSpec => UnitsTileTheirWord
<1>1. ListsInv /\ [LNext]_lvars => ListsInv'
  BY ListsStep
<1>2. ListsInv =>
        \A l, out \in Lists : \A i \in 1 .. Len(nodes[l]) : \A m \in Modes :
          nodes[out] = << >> /\ SplitInto(l, i, m, out) =>
            /\ Covers(nodes'[out], nodes[l][i].from, nodes[l][i].to)
            /\ partOf'[out] = partOf'[l]
  BY SplitIntoStep
<1>3. ListsInv =>
        \A l, out \in Lists : nodes[out] = << >> =>
          \A i \in 1 .. Len(nodes[l]), m \in Modes :
            SplitInto(l, i, m, out) =>
              /\ Covers(nodes'[out], nodes[l][i].from, nodes[l][i].to)
              /\ partOf'[out] = partOf'[l]
  BY <1>2, Zenon
<1> QED BY <1>1, <1>3, ListsInvInit, PTL DEF LSpec, UnitsTileTheirWord
=============================================================================

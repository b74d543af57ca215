----------------------- MODULE SentenceSplitterProofs -----------------------
(***************************************************************************)
(* Proofs about SentenceSplitter for any texts, limits and lexicons: the   *)
(* sentences are the text, cut at breaks outside of parentheses only and   *)
(* in no word the checker sees; and without a checker every plain end is a *)
(* cut.  The depth the scan counts is compared with the depth of the text, *)
(* a function defined by recursion; that it exists is shown by a least     *)
(* counterexample.                                                         *)
(***************************************************************************)
EXTENDS SentenceSplitter, SequenceLemmas
-----------------------------------------------------------------------------
(* The run of characters of a set exists, and its end is as it says.       *)
LEMMA RunEndFacts ==
  ASSUME NEW s, Len(s) \in Nat, NEW i \in 0 .. Len(s), NEW set
  PROVE  /\ RunEnd(s, i, set) \in i .. Len(s)
         /\ \A k \in i + 1 .. RunEnd(s, i, set) : s[k] \in set
         /\ RunEnd(s, i, set) < Len(s) => s[RunEnd(s, i, set) + 1] \notin set
<1> DEFINE n == Len(s)
           Stops == {j \in i .. n : j < n => s[j + 1] \notin set}
<1>1. Stops \subseteq Nat /\ n \in Stops
  OBVIOUS
<1>2. PICK j \in Stops : \A y \in Stops : j <= y
  <2> HIDE DEF Stops
  <2> QED BY <1>1, LeastNatural
<1>3. \A k \in i + 1 .. j : s[k] \in set
  <2> TAKE k \in i + 1 .. j
  <2>1. j \in i .. n
    BY <1>2
  <2>2. k - 1 \in i .. n /\ k - 1 < n /\ k - 1 < j
    BY <2>1
  <2>3. k - 1 \notin Stops
    <3> HIDE DEF Stops
    <3> QED BY <1>1, <1>2, <2>1, <2>2
  <2> QED BY <2>2, <2>3
<1> QED BY <1>2, <1>3 DEF RunEnd

Breaks == Periods \cup Dots \cup {"cdot", "br"}

(* A candidate lies behind the character it was found at, and all that is  *)
(* passed on the way are breaks; at a period there always is one.          *)
LEMMA CandidateFacts ==
  ASSUME NEW s, Len(s) \in Nat, NEW i \in 0 .. Len(s) - 1
  PROVE  LET c == CandidateEnd(s, i) IN
         /\ s[i + 1] \in Periods => c # NoCandidate
         /\ c # NoCandidate => /\ c \in i + 1 .. Len(s)
                               /\ \A k \in i + 1 .. c : s[k] \in Breaks
<1> DEFINE c == CandidateEnd(s, i)
           ch == s[i + 1]
<1>1. ASSUME ch \in Breaks, NEW j \in i + 1 .. Len(s), c = TrailingBreaks(s, j),
             \A k \in i + 1 .. j : s[k] \in Breaks
      PROVE  /\ c # NoCandidate /\ c \in i + 1 .. Len(s)
             /\ \A k \in i + 1 .. c : s[k] \in Breaks
  <2>1. /\ c \in j .. Len(s)
        /\ \A k \in j + 1 .. c : s[k] \in Dots \cup Periods
    BY <1>1, RunEndFacts DEF TrailingBreaks
  <2> HIDE DEF c
  <2>2. \A k \in i + 1 .. c : s[k] \in Breaks
    <3> TAKE k \in i + 1 .. c
    <3>1. k \in i + 1 .. j \/ k \in j + 1 .. c
      BY <2>1
    <3> QED BY <1>1, <2>1, <3>1 DEF Breaks
  <2> QED BY <2>1, <2>2 DEF NoCandidate
<1>2. i + 1 \in i + 1 .. Len(s)
  OBVIOUS
<1>3. CASE ch \in Periods
  <2>1. c = TrailingBreaks(s, i + 1) /\ ch \in Breaks
    BY <1>3 DEF CandidateEnd, Breaks, Periods, Dots
  <2>2. \A k \in i + 1 .. i + 1 : s[k] \in Breaks
    BY <2>1
  <2> HIDE DEF c
  <2> QED BY <1>1, <1>2, <2>1, <2>2 DEF c
<1>4. CASE ch = "cdot"
  <2> DEFINE end == RunEnd(s, i, {"cdot"})
  <2>1. c = IF end - i >= 3 THEN TrailingBreaks(s, end) ELSE NoCandidate
    BY <1>4 DEF CandidateEnd, Periods, Dots
  <2>2. end \in i .. Len(s) /\ \A k \in i + 1 .. end : s[k] \in {"cdot"}
    BY RunEndFacts
  <2>3. ch \notin Periods
    BY <1>4 DEF Periods
  <2> HIDE DEF end, c
  <2>4. CASE end - i >= 3
    <3>1. end \in i + 1 .. Len(s) /\ c = TrailingBreaks(s, end) /\ ch \in Breaks
      BY <1>4, <2>1, <2>2, <2>4 DEF Breaks
    <3>2. \A k \in i + 1 .. end : s[k] \in Breaks
      BY <2>2 DEF Breaks
    <3> QED BY <1>1, <3>1, <3>2 DEF c
  <2> QED BY <2>1, <2>3, <2>4 DEF c
<1>5. CASE ch \in Dots
  <2>1. /\ c = NoCandidate \/ c = TrailingBreaks(s, i + 1)
        /\ ch \in Breaks /\ ch \notin Periods
    BY <1>5 DEF CandidateEnd, Breaks, Dots, Periods
  <2>2. \A k \in i + 1 .. i + 1 : s[k] \in Breaks
    BY <2>1
  <2> HIDE DEF c
  <2> QED BY <1>1, <1>2, <2>1, <2>2 DEF c
<1>6. CASE ch = "br"
  <2> DEFINE end == RunEnd(s, i, {"br"})
  <2>1. c = IF end - i >= 2 THEN end ELSE NoCandidate
    BY <1>6 DEF CandidateEnd, Periods, Dots
  <2>2. end \in i .. Len(s) /\ \A k \in i + 1 .. end : s[k] \in {"br"}
    BY RunEndFacts
  <2>3. ch \notin Periods
    BY <1>6 DEF Periods
  <2> HIDE DEF end, c
  <2> QED BY <2>1, <2>2, <2>3 DEF Breaks, c, NoCandidate
<1>7. CASE ch \notin Periods \cup Dots \cup {"cdot", "br"}
  <2>1. c = NoCandidate
    BY <1>7 DEF CandidateEnd
  <2> QED BY <1>7, <2>1
<1> QED BY <1>3, <1>4, <1>5, <1>6, <1>7
-----------------------------------------------------------------------------
Depths(s, from) ==
  CHOOSE d : d = [i \in from .. Len(s) |-> IF i = from THEN 0 ELSE Nested(d[i - 1], s[i])]

LEMMA DepthsExist ==
  ASSUME NEW s, Len(s) \in Nat, NEW from \in 0 .. Len(s)
  PROVE  LET d == Depths(s, from)
         IN  d = [i \in from .. Len(s) |-> IF i = from THEN 0 ELSE Nested(d[i - 1], s[i])]
<1> DEFINE n == Len(s)
           IsUpTo(k, d) ==
             d = [i \in from .. k |-> IF i = from THEN 0 ELSE Nested(d[i - 1], s[i])]
           Bad == {k \in from .. n : ~\E d : IsUpTo(k, d)}
<1>1. n \in Nat /\ from \in Nat /\ from <= n
  OBVIOUS
<1> HIDE DEF n
<1>2. ASSUME Bad # {} PROVE FALSE
  <2>1. Bad \subseteq Nat
    BY <1>1
  <2>2. PICK k \in Bad : \A j \in Bad : k <= j
    <3> HIDE DEF Bad
    <3> QED BY <1>2, <2>1, LeastNatural
  <2>3. k \in from .. n
    OBVIOUS
  <2>4. CASE k = from
    <3>1. IsUpTo(from, [i \in from .. from |-> 0])
      BY <1>1
    <3> QED BY <2>2, <2>4, <3>1
  <2>5. CASE k # from
    <3>1. k - 1 \in from .. n /\ k - 1 \notin Bad /\ k \in Nat
      <4> HIDE DEF Bad
      <4> QED BY <1>1, <2>2, <2>3, <2>5
    <3>2. PICK d : IsUpTo(k - 1, d)
      BY <3>1
    <3> DEFINE new == [i \in from .. k |-> IF i <= k - 1 THEN d[i] ELSE Nested(d[k - 1], s[k])]
    <3>3. ASSUME NEW i \in from .. k
          PROVE  new[i] = IF i = from THEN 0 ELSE Nested(new[i - 1], s[i])
      <4>1. CASE i <= k - 1
        <5>1. d[i] = IF i = from THEN 0 ELSE Nested(d[i - 1], s[i])
          BY <1>1, <2>3, <3>1, <3>2, <4>1
        <5>2. new[i] = d[i]
          BY <4>1
        <5>3. i # from => new[i - 1] = d[i - 1]
          BY <1>1, <2>3, <4>1
        <5> QED BY <5>1, <5>2, <5>3
      <4>2. CASE i = k
        <5>1. new[k] = Nested(d[k - 1], s[k])
          BY <1>1, <2>3, <3>1
        <5>2. new[k - 1] = d[k - 1]
          BY <3>1, <2>5
        <5> HIDE DEF new
        <5> QED BY <2>5, <4>2, <5>1, <5>2
      <4> QED BY <1>1, <2>3, <3>1, <4>1, <4>2
    <3>4. IsUpTo(k, new)
      BY <3>3
    <3> QED BY <2>2, <3>4
  <2> QED BY <2>4, <2>5
<1>3. n \in from .. n /\ n \notin Bad
  <2> HIDE DEF Bad
  <2> QED BY <1>1, <1>2
<1>4. PICK d : IsUpTo(n, d)
  BY <1>3
<1> QED BY <1>4 DEF Depths, n

LEMMA DepthFacts ==
  ASSUME NEW s, Len(s) \in Nat, NEW from \in 0 .. Len(s)
  PROVE  /\ Depth(s, from, from) = 0
         /\ \A i \in from + 1 .. Len(s) :
              Depth(s, from, i) = Nested(Depth(s, from, i - 1), s[i])
<1> DEFINE d == Depths(s, from)
<1>1. \A to : Depth(s, from, to) = d[to]
  BY DEF Depth, Depths
<1>2. d = [i \in from .. Len(s) |-> IF i = from THEN 0 ELSE Nested(d[i - 1], s[i])]
  BY DepthsExist
<1> HIDE DEF d
<1>3. from \in from .. Len(s) /\ d[from] = 0
  <2>1. from \in from .. Len(s)
    OBVIOUS
  <2> QED BY <1>2, <2>1
<1>4. ASSUME NEW i \in from + 1 .. Len(s) PROVE d[i] = Nested(d[i - 1], s[i])
  <2>1. i \in from .. Len(s) /\ i # from
    OBVIOUS
  <2> QED BY <1>2, <2>1
<1> QED BY <1>1, <1>3, <1>4

(* Characters that neither open nor close leave the depth as it is.        *)
LEMMA DepthStays ==
  ASSUME NEW s, Len(s) \in Nat, NEW from \in 0 .. Len(s), NEW i \in from .. Len(s),
         NEW j \in i .. Len(s), \A k \in i + 1 .. j : s[k] \notin Opens \cup Closes
  PROVE  Depth(s, from, j) = Depth(s, from, i)
<1> DEFINE Bad == {k \in i .. j : Depth(s, from, k) # Depth(s, from, i)}
<1>1. ASSUME Bad # {} PROVE FALSE
  <2>1. Bad \subseteq Nat
    OBVIOUS
  <2>2. PICK k \in Bad : \A y \in Bad : k <= y
    <3> HIDE DEF Bad
    <3> QED BY <1>1, <2>1, LeastNatural
  <2>3. k \in i .. j /\ k # i
    BY <2>2
  <2>4. k - 1 \in i .. j /\ k - 1 < k /\ k \in i + 1 .. j /\ k \in from + 1 .. Len(s)
    BY <2>3
  <2>5. Depth(s, from, k - 1) = Depth(s, from, i)
    <3>1. k - 1 \notin Bad
      <4> HIDE DEF Bad
      <4> QED BY <2>1, <2>2, <2>3, <2>4
    <3> QED BY <2>4, <3>1
  <2>6. Depth(s, from, k) = Depth(s, from, k - 1)
    BY <2>4, DepthFacts DEF Nested
  <2> QED BY <2>2, <2>5, <2>6
<1>2. j \in i .. j /\ j \notin Bad
  <2> HIDE DEF Bad
  <2> QED BY <1>1
<1> QED BY <1>2
-----------------------------------------------------------------------------
(* What is left of the text, and what of it the detector looks at.         *)
LEMMA InputTyped ==
  ASSUME given \in Inputs
  PROVE  /\ data \in Seq({data[i] : i \in DOMAIN data}) /\ Len(data) \in Nat
         /\ DOMAIN data = 1 .. Len(data)
         /\ Limit \in Nat \ {0} /\ UseChecker \in BOOLEAN
<1>1. data \in Seq({data[i] : i \in DOMAIN data})
  BY SplitterAssumption DEF data
<1> QED BY <1>1, SplitterAssumption, LenProperties DEF Limit, UseChecker

LEMMA SliceFacts ==
  ASSUME given \in Inputs, position \in 0 .. Len(data) - 1
  PROVE  /\ Slice \in Seq({data[i] : i \in DOMAIN data})
         /\ Len(Slice) = Len(data) - position
         /\ \A k \in 1 .. Len(Slice) : Slice[k] = data[position + k]
         /\ Len(Limited) \in 1 .. Len(Slice)
         /\ Limit >= Len(data) => Len(Limited) = Len(Slice)
         /\ \A k \in 1 .. Len(Limited) : Limited[k] = data[position + k]
         /\ DOMAIN Limited = 1 .. Len(Limited)
<1> DEFINE S == {data[i] : i \in DOMAIN data}
<1>1. /\ data \in Seq(S) /\ Len(data) \in Nat /\ DOMAIN data = 1 .. Len(data)
      /\ Limit \in Nat \ {0} /\ position \in Nat /\ position < Len(data)
  BY InputTyped
<1> HIDE DEF S
<1>2. /\ Slice \in Seq(S) /\ Len(Slice) = Len(data) - position
      /\ \A k \in 1 .. Len(Slice) : Slice[k] = data[position + k]
  <2> DEFINE u == data
  <2>1. u \in Seq(S) /\ position + 1 \in 1 .. Len(u) + 1 /\ Len(u) \in position + 1 - 1 .. Len(u)
    BY <1>1
  <2>2. Slice = SubSeq(u, position + 1, Len(u))
    BY DEF Slice
  <2> HIDE DEF u
  <2>3. /\ SubSeq(u, position + 1, Len(u)) \in Seq(S)
        /\ Len(SubSeq(u, position + 1, Len(u))) = Len(u) - position
        /\ \A k \in 1 .. Len(u) - position :
             SubSeq(u, position + 1, Len(u))[k] = u[position + k]
    BY <1>1, <2>1, SMT
  <2>4. /\ Slice \in Seq(S) /\ Len(Slice) = Len(u) - position
        /\ \A k \in 1 .. Len(u) - position : Slice[k] = u[position + k]
    BY <2>2, <2>3, Zenon
  <2>5. \A k \in 1 .. Len(Slice) : Slice[k] = u[position + k]
    BY <2>4, Zenon
  <2> QED BY <2>4, <2>5 DEF u
<1>3. Len(Slice) \in Nat \ {0} /\ Len(Slice) <= Len(data)
  <2> DEFINE n == Len(data)
  <2>1. n \in Nat /\ position \in Nat /\ position < n /\ Len(Slice) = n - position
    BY <1>1, <1>2
  <2> HIDE DEF n
  <2>2. n - position \in Nat \ {0} /\ n - position <= n
    BY <2>1
  <2> QED BY <2>1, <2>2 DEF n
<1>6. Smaller(Len(Slice), Limit) \in 1 .. Len(Slice)
  BY <1>1, <1>3 DEF Smaller
<1>4. /\ Len(Limited) = Smaller(Len(Slice), Limit)
      /\ \A k \in 1 .. Len(Limited) : Limited[k] = Slice[k]
      /\ DOMAIN Limited = 1 .. Len(Limited)
  <2> DEFINE u == Slice
             m == Smaller(Len(Slice), Limit)
  <2>1. u \in Seq(S) /\ m \in 1 .. Len(u)
    BY <1>2, <1>6
  <2>2. Limited = SubSeq(u, 1, m)
    BY DEF Limited
  <2> HIDE DEF u, m
  <2>3. /\ SubSeq(u, 1, m) \in Seq(S) /\ Len(SubSeq(u, 1, m)) = m
        /\ \A k \in 1 .. m : SubSeq(u, 1, m)[k] = u[k]
    BY <2>1, SMT
  <2> QED BY <2>2, <2>3 DEF u, m
<1>5. Limit >= Len(data) => Smaller(Len(Slice), Limit) = Len(Slice)
  BY <1>1, <1>3 DEF Smaller
<1>7. \A k \in 1 .. Len(Limited) : Limited[k] = data[position + k]
  <2> TAKE k \in 1 .. Len(Limited)
  <2>1. k \in 1 .. Len(Slice)
    BY <1>3, <1>4, <1>6
  <2> QED BY <1>2, <1>4, <2>1
<1> QED BY <1>2, <1>4, <1>5, <1>6, <1>7 DEF S
-----------------------------------------------------------------------------
LEMMA WordEndFacts ==
  ASSUME NEW s, Len(s) \in Nat, NEW i \in Nat, NEW l \in DOMAIN Lexicons,
         NEW e \in WordEnds(Lexicons[l], s, i)
  PROVE  e \in Nat /\ e <= Len(s)
<1>1. PICK w \in Lexicons[l] : e = i + Len(w) /\ i + Len(w) <= Len(s)
  BY DEF WordEnds
<1>2. Len(w) \in Nat
  BY SplitterAssumption, LenProperties
<1> QED BY <1>1, <1>2

(* A boundary the checker lets pass is in no word that begins within its   *)
(* reach: the first of the words that reach it decides, and if that one    *)
(* does not veto, the boundary is the end of the slice.                    *)
LEMMA NoWordAcross ==
  ASSUME NEW s, Len(s) \in Nat, NEW end \in 1 .. Len(s), UseChecker,
         ~HasNonBreakWord(s, end), NEW b \in 0 .. end - 1, b >= end - Lookback,
         NEW l \in DOMAIN Lexicons, NEW e \in WordEnds(Lexicons[l], s, b)
  PROVE  e <= end
<1> DEFINE starts == (IF end > Lookback THEN end - Lookback ELSE 0) .. (end - 1)
           ends(p) == {x \in WordEnds(Lexicons[p[2]], s, p[1]) : x >= end}
           reach == {p \in starts \X DOMAIN Lexicons :
                       \E x \in WordEnds(Lexicons[p[2]], s, p[1]) : x >= end}
           first == CHOOSE p \in reach : \A q \in reach :
                      p[1] < q[1] \/ (p[1] = q[1] /\ p[2] >= q[2])
<1> SUFFICES ASSUME e > end PROVE FALSE
  <2>1. e \in Nat
    BY WordEndFacts
  <2> QED BY <2>1
<1>1. ~(reach # {} /\ Vetoes(s, end, first[1], Min(ends(first))))
  BY DEF HasNonBreakWord
<1>2. Lookback \in Nat /\ DOMAIN Lexicons = 1 .. Len(Lexicons) /\ Len(Lexicons) \in Nat
  BY SplitterAssumption, LenProperties
<1>3. <<b, l>> \in reach
  <2>1. b \in starts
    BY <1>2
  <2>2. e >= end
    BY <1>2, WordEndFacts
  <2> QED BY <2>1, <2>2
<1>4. \A p \in reach : /\ p \in Nat \X (1 .. Len(Lexicons)) /\ p[1] < end
                       /\ p[2] \in DOMAIN Lexicons /\ p = <<p[1], p[2]>>
  BY <1>2
<1>5. \A p \in reach : ends(p) # {} /\ ends(p) \subseteq Nat
  <2> TAKE p \in reach
  <2>1. ends(p) # {}
    OBVIOUS
  <2>2. \A x \in ends(p) : x \in Nat
    BY <1>4, WordEndFacts
  <2> QED BY <2>1, <2>2
<1>6. \A p \in reach : \A x \in ends(p) : x >= end /\ x <= Len(s)
  BY <1>4, WordEndFacts
<1>7. \E p \in reach : \A q \in reach : p[1] < q[1] \/ (p[1] = q[1] /\ p[2] >= q[2])
  <2> HIDE DEF reach
  <2> DEFINE P == {p[1] : p \in reach}
  <2>1. P \subseteq Nat /\ P # {}
    BY <1>3, <1>4
  <2>2. PICK a \in P : \A y \in P : a <= y
    <3> HIDE DEF P
    <3> QED BY <2>1, LeastNatural
  <2> DEFINE L == {p[2] : p \in {q \in reach : q[1] = a}}
  <2>3. L \subseteq 0 .. Len(Lexicons) /\ L # {}
    BY <1>2, <1>4, <2>2
  <2>4. PICK g \in L : \A y \in L : y <= g
    <3> HIDE DEF L
    <3> QED BY <1>2, <2>3, GreatestOf
  <2>5. PICK p \in reach : p[1] = a /\ p[2] = g
    BY <2>4
  <2>6. ASSUME NEW q \in reach PROVE p[1] < q[1] \/ (p[1] = q[1] /\ p[2] >= q[2])
    <3>1. a <= q[1] /\ a \in Nat /\ q[1] \in Nat /\ q[2] \in Nat /\ g \in Nat
      BY <1>4, <2>2, <2>5
    <3>2. q[1] = a => q[2] <= g
      BY <2>4
    <3> QED BY <2>5, <3>1, <3>2
  <2> QED BY <2>5, <2>6
<1>8. first \in reach
  <2> HIDE DEF reach
  <2> QED BY <1>7
<1> HIDE DEF reach, first, ends
<1>9. Min(ends(first)) \in ends(first)
  <2> DEFINE M == ends(first)
  <2>1. M \subseteq Nat /\ M # {}
    BY <1>5, <1>8
  <2> HIDE DEF M
  <2>2. \E x \in M : \A y \in M : x <= y
    BY <2>1, LeastNatural
  <2>3. Min(M) \in M
    BY <2>2 DEF Min
  <2> QED BY <2>3 DEF M
<1>10. ~Vetoes(s, end, first[1], Min(ends(first)))
  BY <1>1, <1>8
<1> DEFINE m == Min(ends(first))
<1>11. m \in Nat /\ m >= end /\ m <= Len(s) /\ first[1] \in Nat /\ first[1] < end
  BY <1>4, <1>5, <1>6, <1>8, <1>9
<1> HIDE DEF m
<1>12. ~(m > end) /\ ~(m = end /\ first[1] + 2 <= Len(s))
  BY <1>10 DEF m, Vetoes
<1>13. end = Len(s)
  BY <1>11, <1>12
<1> QED BY <1>13, WordEndFacts

LEMMA CutIsInNoWord ==
  ASSUME given \in Inputs, position \in 0 .. Len(data) - 1, UseChecker,
         NEW end \in 1 .. Len(Slice), ~HasNonBreakWord(Slice, end)
  PROVE  ~CutsWord(data, position, position + end)
<1> DEFINE S == {data[i] : i \in DOMAIN data}
           n == Len(data)
<1>1. /\ data \in Seq(S) /\ n \in Nat /\ position \in Nat /\ position < n
      /\ Len(Slice) = n - position /\ end \in Nat
  <2>1. data \in Seq(S) /\ n \in Nat
    BY InputTyped
  <2>2. Len(Slice) = n - position
    BY SliceFacts
  <2> HIDE DEF S, n
  <2>3. position \in 0 .. n - 1
    BY DEF n
  <2>4. position \in Nat /\ position < n
    BY <2>1, <2>3
  <2>5. end \in 1 .. n - position
    BY <2>2
  <2> QED BY <2>1, <2>2, <2>4, <2>5
<1> HIDE DEF S, n
<1>2. ASSUME NEW b \in position .. (position + end) - 1, NEW e \in position + end + 1 .. n,
             b >= (position + end) - Lookback, NEW l \in DOMAIN Lexicons,
             SubSeq(data, b + 1, e) \in Lexicons[l]
      PROVE  FALSE
  <2> DEFINE w == SubSeq(data, b + 1, e)
  <2>1. Lookback \in Nat
    BY SplitterAssumption
  <2>2. /\ position + 1 \in 1 .. n /\ n \in 1 .. n
        /\ b - position + 1 \in 1 .. n - (position + 1) + 1
        /\ e - position \in 1 .. n - (position + 1) + 1
    BY <1>1
  <2>3. SubSeq(SubSeq(data, position + 1, n), b - position + 1, e - position)
          = SubSeq(data, position + 1 + (b - position + 1) - 1, position + 1 + (e - position) - 1)
    BY <1>1, <2>2, SubSeqOfSubSeq DEF n
  <2>4. SubSeq(Slice, b - position + 1, e - position) = w
    <3>1. /\ position + 1 + (b - position + 1) - 1 = b + 1
          /\ position + 1 + (e - position) - 1 = e
      BY <1>1
    <3> QED BY <2>3, <3>1 DEF Slice, n
  <2>5. Len(w) = e - b
    <3>1. b + 1 \in Int /\ e \in Int /\ b + 1 <= e /\ e - (b + 1) + 1 = e - b
      BY <1>1
    <3>2. \A i \in b + 1 .. e : data[i] \in S
      <4> TAKE i \in b + 1 .. e
      <4>1. i \in 1 .. n
        BY <1>1
      <4> QED BY <1>1, <4>1, ElementOfSeq DEF n
    <3>3. Len(SubSeq(data, b + 1, e)) = e - (b + 1) + 1
      BY <3>1, <3>2, SubSeqProperties
    <3> QED BY <3>1, <3>3
  <2> HIDE DEF w
  <2>6. /\ b - position \in 0 .. end - 1 /\ b - position >= end - Lookback
        /\ b - position + Len(w) = e - position
        /\ b - position + Len(w) <= Len(Slice) /\ ~(e - position <= end)
    BY <1>1, <1>2, <2>1, <2>5
  <2>7. e - position \in WordEnds(Lexicons[l], Slice, b - position)
    BY <1>2, <2>4, <2>6 DEF WordEnds, w
  <2> QED BY <1>1, <2>6, <2>7, NoWordAcross
<1>3. ASSUME CutsWord(data, position, position + end) PROVE FALSE
  <2>1. PICK b \in position .. (position + end) - 1, e \in position + end + 1 .. n :
          b >= (position + end) - Lookback /\ IsWord(data, b, e)
    BY <1>3, Zenon DEF CutsWord, n
  <2>2. PICK l \in DOMAIN Lexicons : SubSeq(data, b + 1, e) \in Lexicons[l]
    BY <2>1 DEF IsWord
  <2> QED BY <1>2, <2>1, <2>2
<1> QED BY <1>3
-----------------------------------------------------------------------------
NoPlainEnd(s, from, to) == \A j \in from + 1 .. to - 1 : ~IsPlainEnd(s, from, j)

IsGood(g, from, to) ==
  /\ to = Len(g.text) \/ IsAtBreak(g.text, from, to)
  /\ g.checker => ~CutsWord(g.text, from, to)
  /\ ~g.checker /\ g.limit >= Len(g.text) => NoPlainEnd(g.text, from, to)

(* No plain end among the n characters after from.                         *)
NonePassed(g, from, n) ==
  ~g.checker /\ g.limit >= Len(g.text) =>
    \A j \in from + 1 .. from + n : j < Len(g.text) => ~IsPlainEnd(g.text, from, j)

Begins(ss, i) == IF i = 1 THEN 0 ELSE ss[i - 1][2]

AllGood(g, ss) ==
  \A i \in DOMAIN ss : /\ ss[i][1] = Begins(ss, i) /\ ss[i][1] < ss[i][2]
                       /\ IsGood(g, ss[i][1], ss[i][2])

Scanned(g, p, i, n) == n = Depth(g.text, p, p + i) /\ NonePassed(g, p, i)

SplitInv ==
  /\ given \in Inputs /\ position \in 0 .. Len(data)
  /\ sentences \in Seq(Nat \X Nat) /\ AllGood(given, sentences)
  /\ position = Begins(sentences, Len(sentences) + 1)
  /\ pc = "done" => position = Len(data)
  /\ pc \in {"scan", "found"} => position < Len(data)
  /\ pc = "scan" => /\ index \in 0 .. Len(Limited) /\ level \in Nat
                    /\ Scanned(given, position, index, level)
  /\ pc = "found" => /\ SentenceEnd \in position + 1 .. Len(data)
                     /\ IsGood(given, position, SentenceEnd)
-----------------------------------------------------------------------------
LEMMA ScanFacts ==
  ASSUME SplitInv, pc = "scan"
  PROVE  /\ position \in Nat /\ position \in 0 .. Len(data) - 1 /\ position < Len(data)
         /\ Len(data) \in Nat /\ Len(Limited) \in Nat /\ index \in Nat
         /\ position + Len(Limited) <= Len(data)
         /\ Limit >= Len(data) => position + Len(Limited) = Len(data)
         /\ \A k \in 1 .. Len(Limited) : Limited[k] = data[position + k]
         /\ DOMAIN Limited = 1 .. Len(Limited) /\ Len(Limited) <= Len(Slice)
         /\ level \in Nat /\ level = Depth(data, position, position + index)
         /\ NonePassed(given, position, index)
<1> DEFINE n == Len(data)
           m == Len(Limited)
<1>1. /\ given \in Inputs /\ position \in 0 .. n /\ position < n
      /\ index \in 0 .. m /\ level \in Nat
      /\ Scanned(given, position, index, level)
  BY DEF SplitInv
<1>2. n \in Nat
  BY <1>1, InputTyped
<1> HIDE DEF n
<1>3. position \in Nat /\ position \in 0 .. n - 1
  BY <1>1, <1>2
<1>4. /\ Len(Slice) = n - position /\ m \in 1 .. Len(Slice)
      /\ Limit >= n => m = Len(Slice)
      /\ \A k \in 1 .. m : Limited[k] = data[position + k]
      /\ DOMAIN Limited = 1 .. m
  BY <1>1, <1>3, SliceFacts DEF n
<1> HIDE DEF m
<1>5. m \in Nat /\ m <= Len(Slice) /\ position + m <= n /\ (Limit >= n => position + m = n)
  BY <1>2, <1>3, <1>4
<1>6. index \in Nat
  BY <1>1, <1>5
<1>7. level = Depth(data, position, position + index) /\ NonePassed(given, position, index)
  BY <1>1 DEF Scanned, data
<1> QED BY <1>1, <1>2, <1>3, <1>4, <1>5, <1>6, <1>7 DEF n, m

(* The scan passes characters behind index that are no plain end.          *)
LEMMA PassesNone ==
  ASSUME SplitInv, pc = "scan", NEW m \in index + 1 .. Len(Limited), NEW l,
         l = Depth(data, position, position + m),
         ~UseChecker /\ Limit >= Len(data) =>
           \A k \in index + 1 .. m :
             position + k < Len(data) => ~IsPlainEnd(data, position, position + k)
  PROVE  Scanned(given, position, m, l)
<1>1. /\ position \in Nat /\ index \in Nat /\ Len(Limited) \in Nat
      /\ NonePassed(given, position, index)
  BY ScanFacts
<1>2. m \in Nat /\ index < m
  BY <1>1
<1>3. ASSUME ~given.checker, given.limit >= Len(given.text),
             NEW j \in position + 1 .. position + m, j < Len(given.text)
      PROVE  ~IsPlainEnd(given.text, position, j)
  <2>1. CASE j \in position + 1 .. position + index
    BY <1>1, <1>3, <2>1 DEF NonePassed
  <2>2. CASE j - position \in index + 1 .. m
    <3>1. j = position + (j - position)
      BY <1>1, <1>2
    <3>2. ~IsPlainEnd(data, position, position + (j - position))
      BY <1>3, <2>2, <3>1 DEF UseChecker, Limit, data
    <3> QED BY <3>1, <3>2 DEF data
  <2> QED BY <1>1, <1>2, <2>1, <2>2
<1>4. NonePassed(given, position, m)
  BY <1>3 DEF NonePassed
<1> QED BY <1>4 DEF Scanned, data

LEMMA PassesOne ==
  ASSUME SplitInv, Here, Char \notin Periods
  PROVE  /\ Scanned(given, position, index + 1, Nested(level, Char))
         /\ Nested(level, Char) \in Nat /\ index + 1 \in index + 1 .. Len(Limited)
<1>1. pc = "scan" /\ index < Len(Limited)
  BY DEF Here
<1>2. /\ position \in Nat /\ position \in 0 .. Len(data) /\ index \in Nat /\ level \in Nat
      /\ Len(data) \in Nat /\ Len(Limited) \in Nat /\ position + Len(Limited) <= Len(data)
  BY <1>1, ScanFacts
<1>3. index + 1 \in index + 1 .. Len(Limited) /\ index + 1 \in 1 .. Len(Limited)
  BY <1>1, <1>2
<1>4. Char = data[position + (index + 1)] /\ level = Depth(data, position, position + index)
  BY <1>1, <1>3, ScanFacts DEF Char
<1>5. /\ position + (index + 1) \in position + 1 .. Len(data)
      /\ position + (index + 1) - 1 = position + index
  BY <1>1, <1>2
<1>6. Depth(data, position, position + (index + 1)) = Nested(level, Char)
  BY <1>2, <1>4, <1>5, DepthFacts
<1>7. \A k \in index + 1 .. index + 1 : ~IsPlainEnd(data, position, position + k)
  <2> TAKE k \in index + 1 .. index + 1
  <2>1. k = index + 1
    BY <1>2
  <2> QED BY <1>4, <2>1 DEF IsPlainEnd
<1>8. Nested(level, Char) \in Nat
  BY <1>2 DEF Nested
<1> QED BY <1>1, <1>3, <1>6, <1>7, <1>8, PassesNone
-----------------------------------------------------------------------------
(* What the scan knows at a candidate: all up to it are breaks, so the     *)
(* depth is still the one it counted, and plain ends are none but the      *)
(* candidate itself.                                                       *)
LEMMA AtCandidate ==
  ASSUME SplitInv, Here, NEW c, c = CandidateEnd(Limited, index), c # NoCandidate
  PROVE  /\ c \in index + 1 .. Len(Limited) /\ c \in 1 .. Len(Limited)
         /\ Limited[c] \in Breaks
         /\ Boundary(c) \in c .. Len(Limited)
         /\ \A k \in c + 1 .. Boundary(c) : Limited[k] \in Closes \cup Commas \cup Periods
         /\ level = Depth(data, position, position + c)
         /\ \A k \in index + 1 .. Boundary(c) :
              k < Boundary(c) => k = c \/ Limited[k + 1] # "x"
         /\ \A k \in index + 1 .. c - 1 : Limited[k + 1] # "x"
<1>1. pc = "scan" /\ index < Len(Limited)
  BY DEF Here
<1>2. /\ position \in Nat /\ position \in 0 .. Len(data) /\ index \in Nat
      /\ Len(data) \in Nat /\ Len(Limited) \in Nat /\ position + Len(Limited) <= Len(data)
      /\ level = Depth(data, position, position + index)
      /\ \A k \in 1 .. Len(Limited) : Limited[k] = data[position + k]
  BY <1>1, ScanFacts
<1>3. index \in 0 .. Len(Limited) - 1
  BY <1>1, <1>2
<1>4. c \in index + 1 .. Len(Limited) /\ \A k \in index + 1 .. c : Limited[k] \in Breaks
  BY <1>2, <1>3, CandidateFacts
<1>5. c \in Nat /\ c \in 1 .. Len(Limited) /\ c \in 0 .. Len(Limited) /\ c \in index + 1 .. c
  BY <1>2, <1>4
<1>6. /\ Boundary(c) \in c .. Len(Limited)
      /\ \A k \in c + 1 .. Boundary(c) : Limited[k] \in Closes \cup Commas \cup Periods
  BY <1>2, <1>5, RunEndFacts DEF Boundary, SkipProhibited
<1>7. level = Depth(data, position, position + c)
  <2>1. /\ position + index \in position .. Len(data)
        /\ position + c \in position + index .. Len(data)
    BY <1>1, <1>2, <1>4, <1>5
  <2>2. \A k \in position + index + 1 .. position + c : data[k] \notin Opens \cup Closes
    <3> TAKE k \in position + index + 1 .. position + c
    <3>1. k - position \in index + 1 .. c /\ k - position \in 1 .. Len(Limited)
          /\ k = position + (k - position)
      BY <1>2, <1>5
    <3>2. data[k] \in Breaks
      BY <1>2, <1>4, <3>1
    <3> QED BY <3>2 DEF Breaks, Periods, Dots, Opens, Closes
  <2> QED BY <1>2, <2>1, <2>2, DepthStays
<1>8. \A k \in index + 1 .. c - 1 : Limited[k + 1] # "x"
  <2> TAKE k \in index + 1 .. c - 1
  <2>1. k + 1 \in index + 1 .. c
    BY <1>2, <1>5
  <2>2. Limited[k + 1] \in Breaks
    BY <1>4, <2>1
  <2> QED BY <2>2 DEF Breaks, Periods, Dots
<1>9. ASSUME NEW k \in index + 1 .. Boundary(c), k < Boundary(c)
      PROVE  k = c \/ Limited[k + 1] # "x"
  <2>1. k \in index + 1 .. c - 1 \/ k = c \/ k + 1 \in c + 1 .. Boundary(c)
    BY <1>2, <1>5, <1>6, <1>9
  <2>2. "x" \notin Closes \cup Commas \cup Periods
    BY DEF Closes, Commas, Periods
  <2> QED BY <1>6, <1>8, <2>1, <2>2
<1> QED BY <1>4, <1>5, <1>6, <1>7, <1>8, <1>9

(* A candidate that is refused for its depth, as an item or as a phrase    *)
(* that goes on is no plain end.                                           *)
LEMMA RefusedIsPassed ==
  ASSUME SplitInv, Here, NEW c, c = CandidateEnd(Limited, index), c # NoCandidate,
         ~IsBoundary(c)
  PROVE  Scanned(given, position, c, level)
<1>1. /\ pc = "scan" /\ position \in Nat /\ index \in Nat /\ Len(Limited) \in Nat
      /\ Len(data) \in Nat
      /\ Limit >= Len(data) => position + Len(Limited) = Len(data)
      /\ \A k \in 1 .. Len(Limited) : Limited[k] = data[position + k]
      /\ DOMAIN Limited = 1 .. Len(Limited)
  BY ScanFacts DEF Here
<1>2. /\ c \in index + 1 .. Len(Limited) /\ c \in 1 .. Len(Limited)
      /\ Limited[c] \in Breaks
      /\ Boundary(c) \in c .. Len(Limited)
      /\ \A k \in c + 1 .. Boundary(c) : Limited[k] \in Closes \cup Commas \cup Periods
      /\ level = Depth(data, position, position + c)
      /\ \A k \in index + 1 .. c - 1 : Limited[k + 1] # "x"
  BY AtCandidate
<1>3. ASSUME ~UseChecker, Limit >= Len(data), NEW k \in index + 1 .. c,
             position + k < Len(data), IsPlainEnd(data, position, position + k)
      PROVE  FALSE
  <2>1. /\ k \in 1 .. Len(Limited) /\ k + 1 \in 1 .. Len(Limited) /\ k \in Nat
        /\ position + (k + 1) = position + k + 1
    BY <1>1, <1>2, <1>3
  <2>2. Limited[k] \in Periods /\ Limited[k + 1] = "x"
    BY <1>1, <1>3, <2>1 DEF IsPlainEnd
  <2>3. k = c
    <3>1. k \notin index + 1 .. c - 1
      BY <1>2, <2>2
    <3> QED BY <1>1, <1>2, <2>1, <3>1
  <2>4. level = 0
    BY <1>2, <1>3, <2>3 DEF IsPlainEnd
  <2>5. ~IsItemizeHeader(Limited)
    <3>1. Limited[k] \notin Alnum \cup Dots
      BY <2>2 DEF Periods, Alnum, Dots
    <3>2. Len(Limited) = 2 => k = 1 \/ k = 2
      BY <2>1
    <3> QED BY <3>1, <3>2 DEF IsItemizeHeader
  <2>6. Boundary(c) = c
    <3>1. c + 1 \notin c + 1 .. Boundary(c)
      BY <1>2, <2>2, <2>3 DEF Closes, Commas, Periods
    <3> QED BY <1>1, <1>2, <3>1
  <2>7. ~ContinuesPhrase(Limited, Boundary(c))
    BY <2>2, <2>3, <2>6 DEF ContinuesPhrase, Particles, Joiners
  <2>8. ~HasNonBreakWord(Slice, Boundary(c))
    BY <1>3 DEF HasNonBreakWord
  <2> QED BY <2>4, <2>5, <2>7, <2>8 DEF IsBoundary
<1> QED BY <1>1, <1>2, <1>3, PassesNone

(* A boundary makes a good sentence of what lies before it.                *)
LEMMA BoundaryIsGood ==
  ASSUME SplitInv, Here, NEW c, c = CandidateEnd(Limited, index), c # NoCandidate,
         IsBoundary(c)
  PROVE  /\ Boundary(c) \in 1 .. Len(Limited)
         /\ position + Boundary(c) \in position + 1 .. Len(data)
         /\ IsGood(given, position, position + Boundary(c))
<1> DEFINE e == Boundary(c)
<1>1. /\ pc = "scan" /\ position \in Nat /\ index \in Nat /\ Len(Limited) \in Nat
      /\ Len(data) \in Nat /\ position + Len(Limited) <= Len(data)
      /\ position \in 0 .. Len(data) - 1 /\ Len(Limited) <= Len(Slice)
      /\ \A k \in 1 .. Len(Limited) : Limited[k] = data[position + k]
      /\ NonePassed(given, position, index)
  BY ScanFacts DEF Here
<1>2. /\ c \in index + 1 .. Len(Limited) /\ c \in 1 .. Len(Limited)
      /\ Limited[c] \in Breaks
      /\ e \in c .. Len(Limited)
      /\ \A k \in c + 1 .. e : Limited[k] \in Closes \cup Commas \cup Periods
      /\ level = Depth(data, position, position + c)
      /\ \A k \in index + 1 .. e : k < e => k = c \/ Limited[k + 1] # "x"
      /\ \A k \in index + 1 .. c - 1 : Limited[k + 1] # "x"
  BY AtCandidate
<1>3. level = 0 /\ ~HasNonBreakWord(Slice, e)
  BY DEF IsBoundary
<1> HIDE DEF e
<1>4. /\ c \in Nat /\ e \in Nat /\ e \in 1 .. Len(Limited) /\ e <= Len(Limited)
      /\ c <= e /\ position + e \in position + 1 .. Len(data)
  BY <1>1, <1>2
<1>5. IsAtBreak(data, position, position + e)
  <2>1. position + c \in position + 1 .. position + e
    BY <1>1, <1>2, <1>4
  <2>2. data[position + c] \in Periods \cup Dots \cup {"cdot", "br"}
    BY <1>1, <1>2 DEF Breaks
  <2>3. \A k \in position + c + 1 .. position + e : data[k] \in Closes \cup Commas \cup Periods
    <3> TAKE k \in position + c + 1 .. position + e
    <3>1. k - position \in c + 1 .. e /\ k - position \in 1 .. Len(Limited)
          /\ k = position + (k - position)
      BY <1>1, <1>4
    <3> QED BY <1>1, <1>2, <3>1
  <2>4. Depth(data, position, position + c) = 0
    BY <1>2, <1>3
  <2> QED BY <2>1, <2>2, <2>3, <2>4 DEF IsAtBreak
<1>6. UseChecker => ~CutsWord(data, position, position + e)
  <2>1. e \in 1 .. Len(Slice)
    <3>1. given \in Inputs
      BY DEF SplitInv
    <3>2. Len(Slice) \in Int
      BY <1>1, <3>1, SliceFacts
    <3> QED BY <1>1, <1>4, <3>2
  <2> QED BY <1>1, <1>3, <2>1, CutIsInNoWord DEF SplitInv
<1>7. ASSUME ~given.checker, given.limit >= Len(given.text),
             NEW j \in position + 1 .. (position + e) - 1
      PROVE  ~IsPlainEnd(given.text, position, j)
  <2>1. /\ j - position \in 1 .. Len(Limited) /\ j + 1 - position \in 1 .. Len(Limited)
        /\ j = position + (j - position) /\ j + 1 = position + (j - position + 1)
        /\ j < Len(data) /\ j - position < e /\ j - position + 1 \in 1 .. Len(Limited)
    BY <1>1, <1>4
  <2>2. CASE j \in position + 1 .. position + index
    BY <1>1, <1>7, <2>1, <2>2 DEF NonePassed, data
  <2>3. CASE j - position \in index + 1 .. e /\ j - position # c
    <3>1. Limited[j - position + 1] # "x"
      BY <1>2, <2>1, <2>3
    <3>2. data[j + 1] # "x"
      BY <1>1, <2>1, <3>1
    <3> QED BY <3>2 DEF IsPlainEnd, data
  <2>4. CASE j - position = c
    <3>1. c + 1 \in c + 1 .. e /\ c + 1 \in 1 .. Len(Limited) /\ j + 1 = position + (c + 1)
      BY <1>1, <1>4, <2>1, <2>4
    <3>2. data[j + 1] \in Closes \cup Commas \cup Periods
      BY <1>1, <1>2, <3>1
    <3>3. data[j + 1] # "x"
      BY <3>2 DEF Closes, Commas, Periods
    <3> QED BY <3>3 DEF IsPlainEnd, data
  <2> QED BY <1>1, <1>4, <2>1, <2>2, <2>3, <2>4
<1>8. IsGood(given, position, position + e)
  BY <1>5, <1>6, <1>7 DEF IsGood, NoPlainEnd, data, UseChecker
<1> QED BY <1>4, <1>8 DEF e
-----------------------------------------------------------------------------
LEMMA SplitBegins == SplitInit => SplitInv
<1> SUFFICES ASSUME SplitInit PROVE SplitInv
  OBVIOUS
<1>1. /\ given \in Inputs /\ position = 0 /\ sentences = << >> /\ pc = "next"
  BY DEF SplitInit
<1>2. position \in 0 .. Len(data)
  BY <1>1, InputTyped
<1>3. sentences \in Seq(Nat \X Nat) /\ DOMAIN sentences = {} /\ Len(sentences) = 0
  BY <1>1
<1> QED BY <1>1, <1>2, <1>3 DEF SplitInv, AllGood, Begins

(* The scan goes on behind what it passed.                                 *)
LEMMA ScanGoesOn ==
  ASSUME SplitInv, pc = "scan", UNCHANGED <<given, position, sentences, pc>>,
         NEW m \in index + 1 .. Len(Limited), index' = m,
         NEW l \in Nat, level' = l, Scanned(given, position, m, l)
  PROVE  SplitInv'
<1>1. data' = data /\ Limited' = Limited
  BY DEF data, Limited, Slice, Limit
<1>2. index' \in 0 .. Len(Limited)'
  <2>1. index \in Nat /\ Len(Limited) \in Nat
    BY ScanFacts
  <2>2. m \in 0 .. Len(Limited)
    BY <2>1
  <2> QED BY <1>1, <2>2
<1>3. Scanned(given, position, index, level)'
  BY DEF Scanned
<1> QED BY <1>1, <1>2, <1>3 DEF SplitInv

(* A sentence is found: what is known of it stays until it is handed out.  *)
LEMMA EndIsFound ==
  ASSUME SplitInv, pc = "scan", UNCHANGED <<given, position, sentences>>,
         pc' = "found", NEW to \in position + 1 .. Len(data), SentenceEnd' = to,
         IsGood(given, position, to)
  PROVE  SplitInv'
<1>1. data' = data
  BY DEF data
<1>2. IsGood(given, position, SentenceEnd)'
  OBVIOUS
<1> QED BY <1>1, <1>2 DEF SplitInv

LEMMA SplitStep == SplitInv /\ [SplitNext]_splitVars => SplitInv'
<1> SUFFICES ASSUME SplitInv, [SplitNext]_splitVars PROVE SplitInv'
  OBVIOUS
<1>1. CASE Begin
  <2>1. /\ UNCHANGED <<given, position, sentences>> /\ index' = 0 /\ level' = 0
        /\ pc' = IF position = Len(data) THEN "done" ELSE "scan"
    BY <1>1 DEF Begin
  <2>2. data' = data /\ Limited' = Limited
    BY <2>1 DEF data, Limited, Slice, Limit
  <2>3. given \in Inputs /\ position \in 0 .. Len(data) /\ Len(data) \in Nat
    BY InputTyped DEF SplitInv
  <2>4. CASE position = Len(data)
    BY <2>1, <2>2, <2>4 DEF SplitInv
  <2>5. CASE position # Len(data)
    <3>1. position < Len(data) /\ position \in 0 .. Len(data) - 1
      BY <2>3, <2>5
    <3>2. Len(Limited) \in Nat
      <4>1. Len(Slice) \in Int /\ Len(Limited) \in 1 .. Len(Slice)
        BY <2>3, <3>1, SliceFacts
      <4> QED BY <4>1
    <3>3. Depth(data, position, position + 0) = 0
      <4>1. position + 0 = position
        BY <2>3
      <4> QED BY <2>3, <4>1, DepthFacts
    <3>4. \A j : j \notin position + 1 .. position + 0
      BY <2>3
    <3>5. Scanned(given, position, 0, 0)
      BY <3>3, <3>4 DEF Scanned, NonePassed, data
    <3>6. Scanned(given, position, index, level)'
      BY <2>1, <3>5
    <3> QED BY <2>1, <2>2, <2>5, <3>1, <3>2, <3>6 DEF SplitInv
  <2> QED BY <2>4, <2>5
<1>2. CASE OpenParenthesis
  <2>1. Here /\ Char \in Opens /\ Char \notin Periods
    BY <1>2 DEF OpenParenthesis, Opens, Periods
  <2>2. level' = Nested(level, Char) /\ index' = index + 1
    BY <1>2, <2>1 DEF OpenParenthesis, Nested
  <2> QED BY <1>2, <2>1, <2>2, PassesOne, ScanGoesOn DEF OpenParenthesis, Here
<1>3. CASE CloseParenthesis
  <2>1. Here /\ Char \in Closes \ Opens /\ Char \notin Periods
    BY <1>3 DEF CloseParenthesis, Closes, Opens, Periods
  <2>2. level \in Nat
    BY <2>1 DEF SplitInv, Here
  <2>3. level' = Nested(level, Char) /\ index' = index + 1
    BY <1>3, <2>1, <2>2 DEF CloseParenthesis, LevelBelow, Nested
  <2> QED BY <1>3, <2>1, <2>3, PassesOne, ScanGoesOn DEF CloseParenthesis, Here
<1>4. CASE Pass
  <2>1. Here /\ Char \notin Opens \cup Closes /\ CandidateEnd(Limited, index) = NoCandidate
    BY <1>4 DEF Pass
  <2>2. Char \notin Periods
    <3>1. Len(Limited) \in Nat /\ index \in 0 .. Len(Limited) - 1
      BY <2>1, ScanFacts DEF Here
    <3> QED BY <2>1, <3>1, CandidateFacts DEF Char
  <2>3. level' = Nested(level, Char) /\ index' = index + 1
    BY <1>4, <2>1 DEF Pass, Nested
  <2> QED BY <1>4, <2>1, <2>2, <2>3, PassesOne, ScanGoesOn DEF Pass, Here
<1>5. CASE Candidate
  <2> DEFINE c == CandidateEnd(Limited, index)
  <2>1. Here /\ c # NoCandidate /\ UNCHANGED <<given, position, level, sentences>>
    BY <1>5 DEF Candidate
  <2>2. CASE IsBoundary(c)
    <3>1. pc' = "found" /\ rv' = Boundary(c)
      BY <1>5, <2>2 DEF Candidate
    <3>2. /\ Boundary(c) \in 1 .. Len(Limited) /\ Len(Limited) \in Nat
          /\ position + Boundary(c) \in position + 1 .. Len(data)
          /\ IsGood(given, position, position + Boundary(c))
      BY <2>1, <2>2, BoundaryIsGood, ScanFacts DEF Here
    <3>3. SentenceEnd' = position + Boundary(c)
      <4>1. ~(Boundary(c) < 0)
        BY <3>2
      <4>2. rv' = Boundary(c) /\ position' = position
        BY <2>1, <3>1
      <4> HIDE DEF c
      <4> QED BY <4>1, <4>2 DEF SentenceEnd
    <3> QED BY <2>1, <3>1, <3>2, <3>3, EndIsFound DEF Here
  <2>3. CASE ~IsBoundary(c)
    <3>1. index' = c /\ pc' = pc
      BY <1>5, <2>3 DEF Candidate, Resume
    <3>2. Scanned(given, position, c, level) /\ c \in index + 1 .. Len(Limited) /\ level \in Nat
      BY <2>1, <2>3, RefusedIsPassed, AtCandidate, ScanFacts DEF Here
    <3> HIDE DEF c
    <3> QED BY <2>1, <3>1, <3>2, ScanGoesOn DEF Here
  <2> QED BY <2>2, <2>3
<1>6. CASE NoBoundary
  <2>1. /\ pc = "scan" /\ index = Len(Limited) /\ rv' = -ProvisionalEnd /\ pc' = "found"
        /\ UNCHANGED <<given, position, sentences>>
    BY <1>6 DEF NoBoundary
  <2>2. /\ position \in Nat /\ Len(data) \in Nat /\ position < Len(data)
        /\ Len(Limited) \in Nat /\ NonePassed(given, position, Len(Limited))
        /\ Limit >= Len(data) => position + Len(Limited) = Len(data)
    BY <2>1, ScanFacts
  <2>3. ProvisionalEnd \in Nat \ {0}
    <3> DEFINE spaces == {i \in 2 .. Len(Limited) : Limited[i] = "space"}
    <3>1. Len(Limited) \in Nat \ {0}
      <4>1. /\ given \in Inputs /\ position \in 0 .. Len(data) - 1
        BY <2>2 DEF SplitInv
      <4>2. Len(Limited) \in 1 .. Len(Slice)
        BY <4>1, SliceFacts
      <4> QED BY <2>2, <4>2
    <3>2. spaces # {} => Max(spaces) \in spaces
      <4>1. spaces \subseteq 0 .. Len(Limited)
        BY <2>2
      <4> HIDE DEF spaces
      <4>2. ASSUME spaces # {} PROVE \E x \in spaces : \A y \in spaces : x >= y
        <5>1. PICK x \in spaces : \A y \in spaces : y <= x
          BY <2>2, <4>1, <4>2, GreatestOf
        <5>2. \A y \in spaces : x >= y
          BY <2>2, <4>1, <5>1
        <5> QED BY <5>2
      <4> QED BY <4>2 DEF Max
    <3>3. \A x \in spaces : x \in Nat \ {0}
      BY <2>2
    <3>4. ProvisionalEnd = IF Len(Slice) > Limit /\ spaces # {} THEN Max(spaces) ELSE Len(Limited)
      BY DEF ProvisionalEnd
    <3> HIDE DEF spaces
    <3> QED BY <3>1, <3>2, <3>3, <3>4
  <2>4. SentenceEnd' = Len(data)
    <3>1. rv' < 0 /\ data' = data
      BY <2>1, <2>3 DEF data
    <3> QED BY <3>1 DEF SentenceEnd
  <2>5. UseChecker => ~CutsWord(data, position, Len(data))
    <3>1. \A e : e \notin Len(data) + 1 .. Len(data)
      BY <2>2
    <3> QED BY <3>1 DEF CutsWord
  <2>6. ASSUME ~given.checker, given.limit >= Len(given.text),
               NEW j \in position + 1 .. Len(given.text) - 1
        PROVE  ~IsPlainEnd(given.text, position, j)
    <3>1. position + Len(Limited) = Len(given.text) /\ Len(given.text) \in Nat
      BY <2>2, <2>6 DEF Limit, data
    <3>2. j \in position + 1 .. position + Len(Limited) /\ j < Len(given.text)
      BY <2>2, <3>1
    <3> QED BY <2>2, <2>6, <3>2 DEF NonePassed
  <2>7. IsGood(given, position, Len(data))
    BY <2>5, <2>6 DEF IsGood, NoPlainEnd, data, UseChecker
  <2>8. Len(data) \in position + 1 .. Len(data)
    BY <2>2
  <2> QED BY <2>1, <2>4, <2>7, <2>8, EndIsFound
<1>7. CASE HandOut
  <2> DEFINE to == SentenceEnd
             new == <<position, to>>
             old == sentences
  <2>1. /\ pc = "found" /\ sentences' = Append(old, new) /\ position' = to
        /\ pc' = "next" /\ given' = given
    BY <1>7 DEF HandOut
  <2>2. /\ given \in Inputs /\ position \in 0 .. Len(data) /\ to \in position + 1 .. Len(data)
        /\ IsGood(given, position, to) /\ old \in Seq(Nat \X Nat) /\ AllGood(given, old)
        /\ position = Begins(old, Len(old) + 1) /\ Len(data) \in Nat
    BY <2>1, InputTyped DEF SplitInv
  <2> HIDE DEF to
  <2>3. position \in Nat /\ to \in Nat /\ position < to /\ to \in 0 .. Len(data)
    BY <2>2
  <2>4. /\ Append(old, new) \in Seq(Nat \X Nat) /\ Len(Append(old, new)) = Len(old) + 1
        /\ Append(old, new)[Len(old) + 1] = new
        /\ \A i \in 1 .. Len(old) : Append(old, new)[i] = old[i]
        /\ DOMAIN Append(old, new) = 1 .. Len(old) + 1 /\ DOMAIN old = 1 .. Len(old)
        /\ Len(old) \in Nat
    BY <2>2, <2>3
  <2>5. AllGood(given, Append(old, new))
    <3> SUFFICES ASSUME NEW i \in 1 .. Len(old) + 1
                 PROVE  LET ss == Append(old, new) IN
                        /\ ss[i][1] = Begins(ss, i) /\ ss[i][1] < ss[i][2]
                        /\ IsGood(given, ss[i][1], ss[i][2])
      BY <2>4 DEF AllGood
    <3>1. Begins(Append(old, new), i) = Begins(old, i)
      <4>1. i # 1 => i - 1 \in 1 .. Len(old)
        BY <2>4
      <4> QED BY <2>4, <4>1 DEF Begins
    <3>2. CASE i \in 1 .. Len(old)
      BY <2>2, <2>4, <3>1, <3>2 DEF AllGood
    <3>3. CASE i = Len(old) + 1
      <4>1. Append(old, new)[i] = <<position, to>>
        BY <2>4, <3>3
      <4> QED BY <2>2, <2>3, <3>1, <3>3, <4>1
    <3> QED BY <2>4, <3>2, <3>3
  <2>6. Begins(Append(old, new), Len(Append(old, new)) + 1) = to
    <3>1. Len(old) + 1 + 1 # 1 /\ Len(old) + 1 + 1 - 1 = Len(old) + 1
      BY <2>4
    <3> QED BY <2>4, <3>1 DEF Begins
  <2>7. AllGood(given, sentences)' /\ (position = Begins(sentences, Len(sentences) + 1))'
    BY <2>1, <2>5, <2>6
  <2>8. data' = data
    BY <2>1 DEF data
  <2> QED BY <2>1, <2>2, <2>3, <2>4, <2>7, <2>8 DEF SplitInv
<1>8. CASE UNCHANGED splitVars
  <2>1. /\ given' = given /\ position' = position /\ sentences' = sentences /\ pc' = pc
        /\ index' = index /\ level' = level /\ rv' = rv
    BY <1>8 DEF splitVars
  <2>2. data' = data /\ Limited' = Limited /\ SentenceEnd' = SentenceEnd
    BY <2>1 DEF data, Limited, Slice, Limit, SentenceEnd
  <2> QED BY <2>1, <2>2 DEF SplitInv
<1> QED BY <1>1, <1>2, <1>3, <1>4, <1>5, <1>6, <1>7, <1>8 DEF SplitNext

LEMMA SplitAlways == SplitSpec => []SplitInv
  BY SplitBegins, SplitStep, PTL DEF SplitSpec
-----------------------------------------------------------------------------
(* SentenceIter, find_sentence_boundary, has_non_break_word: the sentences *)
(* are the whole text in order, none of them empty; all but the last end   *)
(* outside of parentheses at a break and what may not begin a sentence;    *)
(* and with a checker no end lies in a word the checker sees.              *)
THEOREM SentencesAreCutAtBreaks == SplitSpec => []TextIsCutAtBreaks
<1>1. SplitInv => TextIsCutAtBreaks
  <2> SUFFICES ASSUME SplitInv PROVE TextIsCutAtBreaks
    OBVIOUS
  <2>1. AllGood(given, sentences) /\ position = Begins(sentences, Len(sentences) + 1)
    BY DEF SplitInv
  <2>2. SentencesCoverText
    BY <2>1 DEF SentencesCoverText, AllGood, Begins, SplitInv
  <2>3. EndsAtBreak
    BY <2>1 DEF EndsAtBreak, AllGood, IsGood, data
  <2>4. NoWordIsCut
    BY <2>1 DEF NoWordIsCut, AllGood, IsGood, data, UseChecker
  <2> QED BY <2>2, <2>3, <2>4 DEF TextIsCutAtBreaks
<1> QED BY <1>1, SplitAlways, PTL

(* sentence_candidate_end and the scan behind a rejected candidate: when   *)
(* there is no checker and the text fits into the limit, a period outside  *)
(* of parentheses before a plain character always ends a sentence.         *)
THEOREM PlainEndsSplit == SplitSpec => []EveryPlainEndSplits
<1>1. SplitInv => EveryPlainEndSplits
  BY DEF SplitInv, EveryPlainEndSplits, AllGood, IsGood, NoPlainEnd, data, UseChecker, Limit
<1> QED BY <1>1, SplitAlways, PTL
=============================================================================

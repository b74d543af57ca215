--------------------------- MODULE SequenceLemmas ---------------------------
(***************************************************************************)
(* Lemmas about numbers and sequences that the proofs of several modules   *)
(* rest on.  The provers cannot use an induction over data; what holds of  *)
(* every step is shown by way of the least number at which it would fail,  *)
(* and that a function defined by recursion exists, in the same way.       *)
(***************************************************************************)
EXTENDS Integers, Sequences, SequencesExt, Selections, SequenceTheorems, WellFoundedInduction, TLAPS

(* Every nonempty set of naturals has a least element.                     *)
LEMMA LeastNatural ==
  ASSUME NEW T, T \subseteq Nat, T # {}
  PROVE  \E x \in T : \A y \in T : x <= y
<1> DEFINE Less == OpToRel(<, Nat)
<1>1. IsWellFoundedOn(Less, Nat)
  BY NatLessThanWellFounded, Zenon
<1>2. \A x, y \in Nat : x < y => <<x, y>> \in Less
  BY Zenon DEF OpToRel
<1> HIDE DEF Less
<1>3. PICK x \in T : \A y \in T : ~(<<y, x>> \in Less)
  BY <1>1, WFMin
<1>4. ASSUME NEW y \in T PROVE x <= y
  <2>1. x \in Nat /\ y \in Nat /\ ~(y < x)
    BY <1>2, <1>3
  <2> QED BY <2>1
<1> QED BY <1>4

(* Every nonempty set of naturals that is bounded has a greatest element.  *)
LEMMA GreatestOf ==
  ASSUME NEW n \in Nat, NEW T, T \subseteq 0 .. n, T # {}
  PROVE  \E x \in T : \A y \in T : x >= y
<1> DEFINE Bounds == {b \in Nat : \A y \in T : y <= b}
<1>1. n \in Bounds /\ Bounds \subseteq Nat
  OBVIOUS
<1>2. PICK b \in Bounds : \A c \in Bounds : b <= c
  BY <1>1, LeastNatural
<1>3. CASE b \in T
  BY <1>3
<1>4. CASE b \notin T
  <2>1. b \in Nat /\ \A y \in T : y \in 0 .. n /\ y <= b /\ y # b
    BY <1>4
  <2>2. \A y \in T : y <= b - 1
    BY <2>1
  <2>3. b # 0
    <3>1. PICK y \in T : TRUE
      OBVIOUS
    <3> QED BY <2>1, <3>1
  <2>4. b - 1 \in Bounds
    BY <2>1, <2>2, <2>3
  <2> QED BY <2>1, <2>4, <1>2
<1> QED BY <1>3, <1>4

-----------------------------------------------------------------------------
(***************************************************************************)
(* Induction from a to n for a set of numbers, and functions defined from  *)
(* one number to the next.                                                 *)
(***************************************************************************)
LEMMA ByStep ==
  ASSUME NEW a \in Nat, NEW n \in Nat, NEW S, a <= n => a \in S,
         \A i \in a + 1 .. n : i - 1 \in S => i \in S
  PROVE  \A i \in a .. n : i \in S
<1> DEFINE Bad == {i \in a .. n : i \notin S}
<1>1. ASSUME Bad # {} PROVE FALSE
  <2>1. Bad \subseteq Nat
    OBVIOUS
  <2>2. PICK i \in Bad : \A j \in Bad : i <= j
    <3> HIDE DEF Bad
    <3> QED BY <1>1, <2>1, LeastNatural
  <2>3. i \in a .. n /\ i \notin S /\ a <= n
    BY <2>2
  <2>4. i - 1 \in a .. n /\ ~(i <= i - 1) /\ i \in a + 1 .. n
    BY <2>3
  <2>5. i - 1 \notin Bad
    <3> HIDE DEF Bad
    <3> QED BY <2>2, <2>4
  <2> QED BY <2>3, <2>4, <2>5
<1> QED BY <1>1

IsStepwise(f, a, n, V, first, next) ==
  /\ f \in [a .. n -> V]
  /\ \A i \in a .. n : f[i] = IF i = a THEN first ELSE next[<<i, f[i - 1]>>]

(* A function that is given from one number to the next exists.            *)
LEMMA StepwiseExists ==
  ASSUME NEW a \in Nat, NEW n \in Nat, a <= n,
         NEW V, NEW first \in V, NEW next \in [(a .. n) \X V -> V]
  PROVE  \E f : IsStepwise(f, a, n, V, first, next)
<1> USE DEF IsStepwise
<1> DEFINE IsUpTo(m, f) == IsStepwise(f, a, m, V, first, next)
           Good == {m \in a .. n : \E f : IsUpTo(m, f)}
<1>1. a \in Good
  <2> DEFINE g == [i \in a .. a |-> first]
  <2>1. IsUpTo(a, g)
    OBVIOUS
  <2>2. \E f : IsUpTo(a, f)
    <3> HIDE DEF IsUpTo, g
    <3> QED BY <2>1
  <2> QED BY <2>2
<1>2. ASSUME NEW m \in a + 1 .. n, m - 1 \in Good PROVE m \in Good
  <2>1. m - 1 \in a .. n /\ m \in a .. n /\ m # a /\ m \in Nat
    OBVIOUS
  <2>2. PICK f : IsUpTo(m - 1, f)
    BY <1>2
  <2> DEFINE new == next[<<m, f[m - 1]>>]
             g == [i \in a .. m |-> IF i = m THEN new ELSE f[i]]
  <2>3. new \in V
    <3>1. m - 1 \in a .. m - 1
      BY <2>1
    <3>2. f[m - 1] \in V
      BY <2>2, <3>1
    <3>3. <<m, f[m - 1]>> \in (a .. n) \X V
      BY <2>1, <3>2
    <3> QED BY <3>3
  <2>4. \A i \in a .. m : i # m => i \in a .. m - 1
    BY <2>1
  <2>5. g \in [a .. m -> V]
    <3>1. \A i \in a .. m - 1 : f[i] \in V
      BY <2>2
    <3> HIDE DEF new
    <3> QED BY <2>3, <2>4, <3>1
  <2>6. ASSUME NEW i \in a .. m
        PROVE  g[i] = IF i = a THEN first ELSE next[<<i, g[i - 1]>>]
    <3>1. i # a => g[i - 1] = f[i - 1]
      <4>1. i # a => i - 1 \in a .. m /\ i - 1 # m
        BY <2>1
      <4> QED BY <4>1
    <3>2. CASE i = m
      <4>1. i # a /\ g[i] = new
        BY <2>1, <3>2
      <4> HIDE DEF g
      <4> QED BY <3>1, <3>2, <4>1
    <3>3. CASE i # m
      <4>1. g[i] = f[i]
        BY <3>3
      <4>2. f[i] = IF i = a THEN first ELSE next[<<i, f[i - 1]>>]
        BY <2>2, <2>4, <3>3
      <4> HIDE DEF g
      <4> QED BY <3>1, <4>1, <4>2
    <3> QED BY <3>2, <3>3
  <2>7. IsUpTo(m, g)
    <3> HIDE DEF g
    <3> QED BY <2>5, <2>6
  <2>8. \E h : IsUpTo(m, h)
    <3> HIDE DEF IsUpTo, g
    <3> QED BY <2>7
  <2> QED BY <2>1, <2>8
<1>3. n \in Good
  <2> HIDE DEF Good
  <2>1. \A m \in a .. n : m \in Good
    BY <1>1, <1>2, ByStep
  <2> QED BY <2>1
<1>4. \E f : IsUpTo(n, f)
  <2> HIDE DEF IsUpTo
  <2> QED BY <1>3
<1> QED BY <1>4, Zenon

(* Two functions that begin alike and step alike.                          *)
StepAlike(f, g, a, n) ==
  /\ f[a] = g[a]
  /\ \A i \in a + 1 .. n : f[i - 1] = g[i - 1] => f[i] = g[i]

(* Two functions that go on alike from one number to the next are the      *)
(* same.                                                                   *)
LEMMA SameByStep ==
  ASSUME NEW a \in Nat, NEW n \in Nat, NEW f, NEW g, StepAlike(f, g, a, n)
  PROVE  \A i \in a .. n : f[i] = g[i]
<1> USE DEF StepAlike
<1> DEFINE S == {i \in a .. n : f[i] = g[i]}
<1>1. a <= n => a \in S
  OBVIOUS
<1>2. \A i \in a + 1 .. n : i - 1 \in S => i \in S
  OBVIOUS
<1>3. \A i \in a .. n : i \in S
  <2> HIDE DEF S
  <2> QED BY <1>1, <1>2, ByStep
<1> QED BY <1>3
-----------------------------------------------------------------------------
(* The function in FlattenSeq: the first i sequences, put together.        *)
IsFlattening(f, ss) ==
  \A i \in 1 .. Len(ss) : f[i] = IF i = 1 THEN ss[i] ELSE f[i - 1] \o ss[i]

(* FlattenSeq, part by part.                                               *)
LEMMA FlattenSteps ==
  ASSUME NEW V, NEW ss \in Seq(Seq(V)), Len(ss) # 0
  PROVE  \E f : /\ f \in [1 .. Len(ss) -> Seq(V)] /\ IsFlattening(f, ss)
                /\ FlattenSeq(ss) = f[Len(ss)]
<1> DEFINE n == Len(ss)
           Rec(f) == f = [i \in 1 .. n |-> IF i = 1 THEN ss[i] ELSE f[i - 1] \o ss[i]]
           all == CHOOSE f : Rec(f)
           next == [p \in (1 .. n) \X Seq(V) |-> p[2] \o ss[p[1]]]
           first == ss[1]
<1>1. n \in Nat /\ 1 \in Nat /\ 1 <= n
  BY LenProperties
<1>2. \A i \in 1 .. n : ss[i] \in Seq(V)
  BY ElementOfSeq
<1>3. first \in Seq(V)
  BY <1>1, <1>2
<1>4. next \in [(1 .. n) \X Seq(V) -> Seq(V)]
  <2>1. ASSUME NEW p \in (1 .. n) \X Seq(V) PROVE p[2] \o ss[p[1]] \in Seq(V)
    <3>1. p[1] \in 1 .. n /\ p[2] \in Seq(V)
      OBVIOUS
    <3> QED BY <1>2, <3>1, ConcatProperties
  <2> QED BY <2>1
<1>5. \A i \in 1 .. n, t \in Seq(V) : next[<<i, t>>] = t \o ss[i]
  OBVIOUS
<1> HIDE DEF next, first
<1>6. PICK f : IsStepwise(f, 1, n, Seq(V), first, next)
  <2> HIDE DEF n
  <2> QED BY <1>1, <1>3, <1>4, StepwiseExists
<1>7. f \in [1 .. n -> Seq(V)] /\ IsFlattening(f, ss)
  <2>1. \A i \in 1 .. n : i # 1 => i - 1 \in 1 .. n
    BY <1>1
  <2>2. \A i \in 1 .. n : i # 1 => f[i - 1] \in Seq(V)
    BY <1>6, <2>1 DEF IsStepwise
  <2> QED BY <1>5, <1>6, <2>2 DEF IsFlattening, IsStepwise, first
<1>8. Rec(f)
  <2> DEFINE body(i) == IF i = 1 THEN ss[i] ELSE f[i - 1] \o ss[i]
  <2>1. \A i \in 1 .. n : f[i] = body(i)
    BY <1>7 DEF IsFlattening
  <2>2. f = [i \in 1 .. n |-> body(i)]
    <3> HIDE DEF body
    <3> QED BY <1>7, <2>1
  <2> QED BY <2>2
<1>9. Rec(all)
  <2> HIDE DEF Rec
  <2> QED BY <1>8, Zenon
<1>10. FlattenSeq(ss) = all[n]
  <2>1. Len(ss) # 0
    OBVIOUS
  <2> QED BY <2>1, Zenon DEF FlattenSeq
<1> HIDE DEF all
<1>11. StepAlike(all, f, 1, n)
  <2>1. \A i \in 1 + 1 .. n : i \in 1 .. n /\ i # 1
    BY <1>1
  <2>2. 1 \in 1 .. n
    BY <1>1
  <2>3. \A i \in 1 .. n : all[i] = IF i = 1 THEN ss[i] ELSE all[i - 1] \o ss[i]
    BY <1>9
  <2> QED BY <1>7, <2>1, <2>2, <2>3 DEF IsFlattening, StepAlike
<1>12. all[n] = f[n]
  <2>1. \A i \in 1 .. n : all[i] = f[i]
    BY <1>1, <1>11, SameByStep
  <2> QED BY <1>1, <2>1
<1> QED BY <1>7, <1>10, <1>12

(* No parts make the empty sequence.                                       *)
LEMMA FlattenEmpty == ASSUME NEW ss, Len(ss) = 0, ss = << >> PROVE FlattenSeq(ss) = << >>
BY Zenon DEF FlattenSeq

(* The parts put together have the elements of the parts.                  *)
LEMMA FlattenType ==
  ASSUME NEW V, NEW ss \in Seq(Seq(V))
  PROVE  FlattenSeq(ss) \in Seq(V)
<1>1. Len(ss) \in Nat
  BY LenProperties
<1>2. CASE Len(ss) = 0
  <2>1. ss = << >> /\ << >> \in Seq(V)
    BY <1>2, EmptySeq
  <2> QED BY <1>2, <2>1, FlattenEmpty
<1>3. CASE Len(ss) # 0
  <2>1. Len(ss) \in 1 .. Len(ss)
    BY <1>1, <1>3
  <2>2. PICK f : f \in [1 .. Len(ss) -> Seq(V)] /\ FlattenSeq(ss) = f[Len(ss)]
    BY <1>3, FlattenSteps
  <2> QED BY <2>1, <2>2
<1> QED BY <1>2, <1>3

(* One more part comes behind the others.                                  *)
LEMMA FlattenAppend ==
  ASSUME NEW V, NEW ss \in Seq(Seq(V)), NEW t \in Seq(V)
  PROVE  FlattenSeq(Append(ss, t)) = FlattenSeq(ss) \o t
<1> DEFINE n == Len(ss)
           long == Append(ss, t)
<1>1. /\ n \in Nat /\ long \in Seq(Seq(V)) /\ Len(long) = n + 1
      /\ long[n + 1] = t /\ \A i \in 1 .. n : long[i] = ss[i]
  BY LenProperties, AppendProperties
<1>2. PICK g : IsFlattening(g, long) /\ FlattenSeq(long) = g[n + 1]
  <2>1. Len(long) # 0
    BY <1>1
  <2> HIDE DEF long
  <2> QED BY <1>1, <2>1, FlattenSteps
<1> HIDE DEF long
<1>3. n + 1 \in 1 .. n + 1 /\ (n + 1) - 1 = n
  BY <1>1
<1>4. g[n + 1] = IF n + 1 = 1 THEN t ELSE g[n] \o t
  BY <1>1, <1>2, <1>3 DEF IsFlattening
<1>5. FlattenSeq(long) = FlattenSeq(ss) \o t
  <2>1. CASE n = 0
    <3>1. ss = << >>
      BY <2>1, EmptySeq
    <3>2. FlattenSeq(ss) = << >>
      BY <2>1, <3>1, FlattenEmpty
    <3>3. << >> \o t = t
      BY ConcatEmptySeq
    <3> QED BY <1>2, <1>4, <2>1, <3>2, <3>3
  <2>2. CASE n # 0
    <3>1. PICK f : IsFlattening(f, ss) /\ FlattenSeq(ss) = f[n]
      BY <2>2, FlattenSteps
    <3>2. 1 \in Nat /\ 1 \in 1 .. n /\ n \in 1 .. n
      BY <1>1, <2>2
    <3>3. StepAlike(f, g, 1, n)
      <4>1. \A i \in 1 + 1 .. n : i \in 1 .. n /\ i \in 1 .. n + 1 /\ i # 1
        BY <1>1
      <4>2. 1 \in 1 .. n + 1
        BY <1>1
      <4> QED BY <1>1, <1>2, <3>1, <3>2, <4>1, <4>2 DEF IsFlattening, StepAlike
    <3>4. \A i \in 1 .. n : f[i] = g[i]
      BY <1>1, <3>2, <3>3, SameByStep
    <3>5. n + 1 # 1
      BY <1>1, <2>2
    <3>6. f[n] = g[n]
      BY <3>2, <3>4, Zenon
    <3> QED BY <1>2, <1>4, <3>1, <3>5, <3>6
  <2> QED BY <2>1, <2>2
<1> QED BY <1>5, Zenon DEF long
-----------------------------------------------------------------------------
(* The function in Chosen: what is kept of the first i elements.           *)
IsChoice(f, seq, places) ==
  /\ f[0] = << >>
  /\ \A i \in 1 .. Len(seq) :
       f[i] = IF i \in places THEN Append(f[i - 1], seq[i]) ELSE f[i - 1]

(* Chosen, place by place.                                                 *)
LEMMA ChosenSteps ==
  ASSUME NEW V, NEW seq \in Seq(V), NEW places
  PROVE  \E f : /\ IsChoice(f, seq, places) /\ Chosen(seq, places) = f[Len(seq)]
                /\ f \in [0 .. Len(seq) -> Seq(V)]
<1> DEFINE n == Len(seq)
           Rec(f) == f = [i \in 0 .. n |->
                       IF i = 0 THEN << >>
                       ELSE IF i \in places THEN Append(f[i - 1], seq[i]) ELSE f[i - 1]]
           all == CHOOSE f : Rec(f)
           next == [p \in (0 .. n) \X Seq(V) |->
                      IF p[1] \in places /\ p[1] # 0 THEN Append(p[2], seq[p[1]]) ELSE p[2]]
<1>1. n \in Nat /\ 0 \in Nat /\ 0 <= n
  BY LenProperties
<1>2. next \in [(0 .. n) \X Seq(V) -> Seq(V)]
  <2>1. ASSUME NEW p \in (0 .. n) \X Seq(V)
        PROVE  (IF p[1] \in places /\ p[1] # 0 THEN Append(p[2], seq[p[1]]) ELSE p[2]) \in Seq(V)
    <3>1. p[1] \in 0 .. n /\ p[2] \in Seq(V)
      OBVIOUS
    <3>2. p[1] # 0 => seq[p[1]] \in V
      BY <1>1, <3>1, ElementOfSeq
    <3> QED BY <3>1, <3>2, AppendProperties
  <2> QED BY <2>1
<1>3. \A i \in 1 .. n, s \in Seq(V) : next[<<i, s>>] = IF i \in places THEN Append(s, seq[i]) ELSE s
  <2> SUFFICES ASSUME NEW i \in 1 .. n, NEW s \in Seq(V)
               PROVE  next[<<i, s>>] = IF i \in places THEN Append(s, seq[i]) ELSE s
    OBVIOUS
  <2>1. <<i, s>> \in (0 .. n) \X Seq(V) /\ i # 0
    BY <1>1
  <2> QED BY <2>1
<1> HIDE DEF next
<1>4. << >> \in Seq(V)
  BY EmptySeq
<1>5. PICK f : IsStepwise(f, 0, n, Seq(V), << >>, next)
  <2> HIDE DEF n
  <2> QED BY <1>1, <1>2, <1>4, StepwiseExists
<1>6. f \in [0 .. n -> Seq(V)] /\ IsChoice(f, seq, places)
  <2>1. \A i \in 1 .. n : i - 1 \in 0 .. n /\ i \in 0 .. n /\ i # 0
    BY <1>1
  <2>2. \A i \in 1 .. n : f[i - 1] \in Seq(V) /\ f[i] = next[<<i, f[i - 1]>>]
    BY <1>5, <2>1 DEF IsStepwise
  <2>3. 0 \in 0 .. n
    BY <1>1
  <2> QED BY <1>3, <1>5, <2>2, <2>3 DEF IsChoice, IsStepwise
<1>7. Rec(f)
  <2> DEFINE body(i) == IF i = 0 THEN << >>
                        ELSE IF i \in places THEN Append(f[i - 1], seq[i]) ELSE f[i - 1]
  <2>1. \A i \in 0 .. n : i # 0 => i \in 1 .. n
    BY <1>1
  <2>2. \A i \in 0 .. n : f[i] = body(i)
    BY <1>6, <2>1 DEF IsChoice
  <2>3. f = [i \in 0 .. n |-> body(i)]
    <3> HIDE DEF body
    <3> QED BY <1>6, <2>2
  <2> QED BY <2>3
<1>8. Rec(all)
  <2> HIDE DEF Rec
  <2> QED BY <1>7, Zenon
<1>9. Chosen(seq, places) = all[n]
  BY Zenon DEF Chosen
<1> HIDE DEF all
<1>10. StepAlike(all, f, 0, n)
  <2>1. \A i \in 0 + 1 .. n : i \in 1 .. n /\ i \in 0 .. n /\ i # 0
    BY <1>1
  <2>2. 0 \in 0 .. n
    BY <1>1
  <2>3. \A i \in 0 .. n : all[i] = IF i = 0 THEN << >>
                      ELSE IF i \in places THEN Append(all[i - 1], seq[i]) ELSE all[i - 1]
    BY <1>8
  <2> QED BY <1>6, <2>1, <2>2, <2>3 DEF IsChoice, StepAlike
<1>11. all[n] = f[n]
  <2>1. \A i \in 0 .. n : all[i] = f[i]
    BY <1>1, <1>10, SameByStep
  <2> QED BY <1>1, <2>1
<1> QED BY <1>6, <1>9, <1>11

(* Which elements are chosen: those at the places, in their order.         *)
IsOrderOf(ord, c, seq, S) ==
  /\ ord \in [1 .. Len(c) -> S]
  /\ \A k \in 1 .. Len(c) : c[k] = seq[ord[k]]
  /\ \A j, k \in 1 .. Len(c) : j < k => ord[j] < ord[k]
  /\ \A s \in S : \E k \in 1 .. Len(c) : ord[k] = s

(* Chosen keeps the elements at the places, in their order.                *)
LEMMA ChosenFacts ==
  ASSUME NEW V, NEW seq \in Seq(V), NEW places
  PROVE  /\ Chosen(seq, places) \in Seq(V)
         /\ \E ord : IsOrderOf(ord, Chosen(seq, places), seq, places \cap (1 .. Len(seq)))
<1> DEFINE n == Len(seq)
           Good(f) == {i \in 0 .. n : \E ord : IsOrderOf(ord, f[i], seq, places \cap (1 .. i))}
<1>1. n \in Nat /\ 0 \in Nat /\ 0 <= n
  BY LenProperties
<1>2. PICK f : /\ IsChoice(f, seq, places) /\ Chosen(seq, places) = f[n]
               /\ f \in [0 .. n -> Seq(V)]
  BY ChosenSteps
<1>3. 0 \in Good(f)
  <2>1. f[0] = << >> /\ Len(f[0]) = 0
    BY <1>2, EmptySeq DEF IsChoice
  <2>2. IsOrderOf([k \in 1 .. 0 |-> k], f[0], seq, places \cap (1 .. 0))
    BY <2>1 DEF IsOrderOf
  <2> QED BY <1>1, <2>2
<1>4. ASSUME NEW i \in 0 + 1 .. n, i - 1 \in Good(f) PROVE i \in Good(f)
  <2>1. i \in 1 .. n /\ i \in 0 .. n /\ i - 1 \in 0 .. n
    BY <1>1
  <2>2. PICK ord : IsOrderOf(ord, f[i - 1], seq, places \cap (1 .. i - 1))
    BY <1>4
  <2>3. f[i] = IF i \in places THEN Append(f[i - 1], seq[i]) ELSE f[i - 1]
    BY <1>2, <2>1 DEF IsChoice
  <2>4. f[i - 1] \in Seq(V) /\ seq[i] \in V /\ Len(f[i - 1]) \in Nat
    BY <1>2, <2>1, ElementOfSeq, LenProperties
  <2>5. CASE i \notin places
    <3>1. places \cap (1 .. i) = places \cap (1 .. i - 1)
      BY <2>1, <2>5
    <3> QED BY <2>1, <2>2, <2>3, <2>5, <3>1
  <2>6. CASE i \in places
    <3> DEFINE m == Len(f[i - 1])
               new == [k \in 1 .. m + 1 |-> IF k = m + 1 THEN i ELSE ord[k]]
               S == places \cap (1 .. i)
    <3>1. /\ Len(f[i]) = m + 1 /\ f[i][m + 1] = seq[i]
          /\ \A k \in 1 .. m : f[i][k] = f[i - 1][k]
      BY <2>3, <2>4, <2>6, AppendProperties
    <3>2. /\ \A k \in 1 .. m : ord[k] \in places \cap (1 .. i - 1) /\ f[i - 1][k] = seq[ord[k]]
          /\ \A j, k \in 1 .. m : j < k => ord[j] < ord[k]
          /\ \A s \in places \cap (1 .. i - 1) : \E k \in 1 .. m : ord[k] = s
      BY <2>2 DEF IsOrderOf
    <3>3. \A k \in 1 .. m + 1 : k = m + 1 \/ k \in 1 .. m
      BY <2>4
    <3>4. /\ new[m + 1] = i /\ \A k \in 1 .. m : new[k] = ord[k] /\ k \in 1 .. m + 1
      BY <2>4
    <3>5. new \in [1 .. m + 1 -> S]
      <4>1. i \in S /\ \A s \in places \cap (1 .. i - 1) : s \in S
        BY <2>1, <2>6
      <4> HIDE DEF m, S
      <4> QED BY <3>2, <3>3, <4>1
    <3> HIDE DEF new
    <3>6. \A k \in 1 .. m + 1 : f[i][k] = seq[new[k]]
      BY <3>1, <3>2, <3>3, <3>4
    <3>7. ASSUME NEW j \in 1 .. m + 1, NEW k \in 1 .. m + 1, j < k PROVE new[j] < new[k]
      <4>1. j \in 1 .. m
        BY <2>4, <3>7
      <4>2. CASE k = m + 1
        <5>1. new[j] \in 1 .. i - 1 /\ new[k] = i
          BY <3>2, <3>4, <4>1, <4>2
        <5> QED BY <2>1, <5>1
      <4>3. CASE k \in 1 .. m
        BY <3>2, <3>4, <3>7, <4>1, <4>3
      <4> QED BY <3>3, <4>2, <4>3
    <3>8. ASSUME NEW s \in S PROVE \E k \in 1 .. m + 1 : new[k] = s
      <4>1. CASE s = i
        <5>1. m + 1 \in 1 .. m + 1
          BY <2>4
        <5> QED BY <3>4, <4>1, <5>1
      <4>2. CASE s # i
        <5>1. s \in places \cap (1 .. i - 1)
          BY <2>1, <4>2
        <5> QED BY <3>2, <3>4, <5>1
      <4> QED BY <4>1, <4>2
    <3>9. IsOrderOf(new, f[i], seq, S)
      <4> HIDE DEF m, S
      <4> QED BY <3>1, <3>5, <3>6, <3>7, <3>8 DEF IsOrderOf
    <3> QED BY <2>1, <3>9
  <2> QED BY <2>5, <2>6
<1>5. n \in Good(f)
  <2> HIDE DEF Good
  <2>1. \A i \in 0 .. n : i \in Good(f)
    BY <1>1, <1>3, <1>4, ByStep
  <2> QED BY <1>1, <2>1
<1>6. Chosen(seq, places) \in Seq(V)
  BY <1>1, <1>2
<1>7. \E ord : IsOrderOf(ord, Chosen(seq, places), seq, places \cap (1 .. n))
  BY <1>2, <1>5
<1> QED BY <1>6, <1>7

(* What is chosen of a sequence is what stands at the places chosen of its *)
(* positions: the same for every sequence of that length.                  *)
LEMMA ChosenByPosition ==
  ASSUME NEW V, NEW seq \in Seq(V), NEW n \in Nat, n = Len(seq), NEW places,
         NEW c, c = Chosen([i \in 1 .. n |-> i], places)
  PROVE  /\ c \in Seq(1 .. n) /\ Len(Chosen(seq, places)) = Len(c)
         /\ \A k \in 1 .. Len(c) : c[k] \in places /\ Chosen(seq, places)[k] = seq[c[k]]
<1> DEFINE all == [i \in 1 .. n |-> i]
<1>1. all \in Seq(1 .. n) /\ Len(all) = n /\ \A i \in 1 .. n : all[i] = i
  <2>1. all \in [1 .. n -> 1 .. n]
    OBVIOUS
  <2> HIDE DEF all
  <2>2. all \in Seq(1 .. n)
    BY <2>1
  <2>3. DOMAIN all = 1 .. n /\ DOMAIN all = 1 .. Len(all) /\ Len(all) \in Nat
    BY <2>1, <2>2, LenProperties
  <2>4. Len(all) = n
    BY <2>2, <2>3, LenProperties
  <2> QED BY <2>2, <2>4 DEF all
<1>2. c = Chosen(all, places)
  OBVIOUS
<1> HIDE DEF all
<1>3. c \in Seq(1 .. n)
  BY <1>1, <1>2, ChosenFacts
<1>4. PICK ord : IsOrderOf(ord, c, all, places \cap (1 .. n))
  <2>1. \E ord : IsOrderOf(ord, Chosen(all, places), all, places \cap (1 .. Len(all)))
    BY <1>1, ChosenFacts
  <2> QED BY <1>1, <1>2, <2>1
<1>5. \A k \in 1 .. Len(c) : c[k] \in places
  BY <1>1, <1>4 DEF IsOrderOf
<1>6. PICK f : /\ IsChoice(f, seq, places) /\ Chosen(seq, places) = f[n]
               /\ f \in [0 .. n -> Seq(V)]
  BY ChosenSteps
<1>7. PICK g : /\ IsChoice(g, all, places) /\ c = g[n] /\ g \in [0 .. n -> Seq(1 .. n)]
  <2>1. \E g : /\ IsChoice(g, all, places) /\ Chosen(all, places) = g[Len(all)]
               /\ g \in [0 .. Len(all) -> Seq(1 .. n)]
    BY <1>1, ChosenSteps
  <2> QED BY <1>1, <1>2, <2>1
<1> DEFINE Alike(i) == Len(f[i]) = Len(g[i]) /\ \A k \in 1 .. Len(g[i]) : f[i][k] = seq[g[i][k]]
           Good == {i \in 0 .. n : Alike(i)}
<1>8. 0 \in Good
  <2>1. f[0] = << >> /\ g[0] = << >> /\ Len(<< >>) = 0
    BY <1>6, <1>7, EmptySeq DEF IsChoice
  <2> QED BY <2>1
<1>9. ASSUME NEW i \in 0 + 1 .. n, i - 1 \in Good PROVE i \in Good
  <2>1. i \in 1 .. n /\ i \in 0 .. n /\ i - 1 \in 0 .. n
    OBVIOUS
  <2>2. /\ f[i - 1] \in Seq(V) /\ g[i - 1] \in Seq(1 .. n) /\ seq[i] \in V /\ all[i] = i
    BY <1>1, <1>6, <1>7, <2>1, ElementOfSeq
  <2>3. /\ f[i] = IF i \in places THEN Append(f[i - 1], seq[i]) ELSE f[i - 1]
        /\ g[i] = IF i \in places THEN Append(g[i - 1], i) ELSE g[i - 1]
    BY <1>1, <1>6, <1>7, <2>1, <2>2 DEF IsChoice
  <2>4. Alike(i - 1)
    BY <1>9
  <2>5. CASE i \notin places
    BY <2>1, <2>3, <2>4, <2>5
  <2>6. CASE i \in places
    <3> DEFINE m == Len(g[i - 1])
    <3>1. m \in Nat /\ Len(f[i - 1]) = m
      BY <2>2, <2>4, LenProperties
    <3>2. /\ Len(g[i]) = m + 1 /\ g[i][m + 1] = i
          /\ \A k \in 1 .. m : g[i][k] = g[i - 1][k]
      BY <2>1, <2>2, <2>3, <2>6, AppendProperties
    <3>3. /\ Len(f[i]) = m + 1 /\ f[i][m + 1] = seq[i]
          /\ \A k \in 1 .. m : f[i][k] = f[i - 1][k]
      BY <2>2, <2>3, <2>6, <3>1, AppendProperties
    <3>4. \A k \in 1 .. m + 1 : k = m + 1 \/ k \in 1 .. m
      BY <3>1
    <3> QED BY <2>1, <2>4, <3>2, <3>3, <3>4
  <2> QED BY <2>5, <2>6
<1>10. Alike(n)
  <2>1. 0 \in Nat /\ (0 <= n => 0 \in Good)
    BY <1>8
  <2>2. \A i \in 0 .. n : i \in Good
    <3> HIDE DEF Good
    <3> QED BY <1>9, <2>1, ByStep
  <2> QED BY <2>2
<1> QED BY <1>3, <1>5, <1>6, <1>7, <1>10

(* All places together are the sequence.                                   *)
LEMMA ChosenAll ==
  ASSUME NEW V, NEW seq \in Seq(V), NEW places, 1 .. Len(seq) \subseteq places
  PROVE  Chosen(seq, places) = seq
<1> DEFINE n == Len(seq)
<1>1. n \in Nat
  BY LenProperties
<1>2. PICK f : /\ IsChoice(f, seq, places) /\ Chosen(seq, places) = f[n]
               /\ f \in [0 .. n -> Seq(V)]
  BY ChosenSteps
<1> DEFINE Same(i) == Len(f[i]) = i /\ \A k \in 1 .. i : f[i][k] = seq[k]
           Good == {i \in 0 .. n : Same(i)}
<1>3. 0 \in Good
  <2>1. f[0] = << >> /\ Len(<< >>) = 0
    BY <1>2, EmptySeq DEF IsChoice
  <2> QED BY <1>1, <2>1
<1>4. ASSUME NEW i \in 0 + 1 .. n, i - 1 \in Good PROVE i \in Good
  <2>1. i \in 1 .. n /\ i \in 0 .. n /\ i - 1 \in 0 .. n
    BY <1>1
  <2>2. f[i - 1] \in Seq(V) /\ seq[i] \in V /\ f[i] = Append(f[i - 1], seq[i])
    BY <1>2, <2>1, ElementOfSeq DEF IsChoice
  <2>3. /\ Len(f[i]) = Len(f[i - 1]) + 1 /\ f[i][Len(f[i - 1]) + 1] = seq[i]
        /\ \A k \in 1 .. Len(f[i - 1]) : f[i][k] = f[i - 1][k]
    BY <2>2, AppendProperties
  <2>4. Same(i - 1)
    BY <1>4
  <2>5. Len(f[i]) = i /\ f[i][i] = seq[i] /\ \A k \in 1 .. i - 1 : f[i][k] = seq[k]
    BY <2>1, <2>3, <2>4
  <2>6. \A k \in 1 .. i : k = i \/ k \in 1 .. i - 1
    BY <2>1
  <2> QED BY <2>1, <2>5, <2>6
<1>5. Same(n)
  <2>1. 0 \in Nat /\ (0 <= n => 0 \in Good)
    BY <1>3
  <2>2. \A i \in 0 .. n : i \in Good
    <3> HIDE DEF Good
    <3> QED BY <1>1, <1>4, <2>1, ByStep
  <2> QED BY <1>1, <2>2
<1>6. f[n] \in Seq(V)
  BY <1>1, <1>2
<1> QED BY <1>2, <1>5, <1>6, SeqEqual
=============================================================================

-------------------------- MODULE InputBufferProofs --------------------------
(***************************************************************************)
(* Proofs about InputBuffer, for every set of texts, every limit and any   *)
(* number of plugins and edits: the byte mapping stays well formed, maps   *)
(* character boundaries to character boundaries, and the rewritten text    *)
(* stays within u16.                                                       *)
(*                                                                         *)
(* MapInv is the inductive invariant.  What it adds to the three           *)
(* properties is what a half-resolved commit looks like (ScratchInv) and   *)
(* that the recorded edits are ordered (EditsOrdered).                     *)
(*                                                                         *)
(* InputBuffer lets the editor be used in order only; that the plugins use *)
(* it so is the second half: a scan that fits the characters gives edits   *)
(* in order (ScanInOrder), the plugins' scans do fit (ScansFit), and what  *)
(* is planned stays in order behind what is recorded (PlansInv).           *)
(*                                                                         *)
(* The third part is about the tables: what the compiled categories give a *)
(* character (TableGives), what the index tables of any text are           *)
(* (TablesAreInverse, OrigCharsAscend, ContinuityFacts), and that a built  *)
(* buffer holds those of its text (BuiltInv).                              *)
(***************************************************************************)
EXTENDS InputTextPlugins, SequenceTheorems, FiniteSetTheorems, FunctionTheorems,
        WellFoundedInduction, TLAPS

Sorted(s) == \A i, j \in 1 .. Len(s) : i <= j => s[i] <= s[j]

(* All values of a mapping lie between lo and hi.                          *)
Between(s, lo, hi) == \A i \in 1 .. Len(s) : lo <= s[i] /\ s[i] <= hi

EditsOrdered ==
  /\ \A i \in 1 .. Len(replaces) :
       /\ replaces[i].from < replaces[i].to
       /\ IsBoundary(modified, replaces[i].from)
       /\ IsBoundary(modified, replaces[i].to)
  /\ \A i, j \in 1 .. Len(replaces) : i < j => replaces[i].to <= replaces[j].from

ScratchInv ==
  /\ m2o_2 \in Seq(Nat)
  /\ 0 < Len(modified) /\ start <= Len(modified)
  /\ replaces # << >> => start <= replaces[1].from
  /\ curLen = Len(modified_2) + Len(modified) - start
  /\ curLen <= REALLY_MAX_LENGTH
  /\ Len(m2o_2) = Len(modified_2)
  /\ Sorted(m2o_2)
  /\ Between(m2o_2, 0, m2o[start + 1])
  /\ \A i \in 1 .. Len(m2o_2) : modified_2[i] # Cont => IsBoundary(original, m2o_2[i])

MapInv ==
  /\ TypeOK
  /\ original # << >> => original[1] # Cont
  /\ phase # "idle" => state = "RW"
  /\ phase = "idle" => replaces = << >>
  /\ state = "Clean" => modified = << >> /\ m2o = << >>
  /\ MappingWellFormed
  /\ BoundariesMapToBoundaries
  /\ LengthBounded
  /\ EditsOrdered
  /\ phase = "resolving" => ScratchInv
-----------------------------------------------------------------------------
LEMMA LeqTransitive == \A a, b, c \in Int : a <= b /\ b <= c => a <= c
OBVIOUS

(* The elements of a concatenation.                                        *)
LEMMA ConcatElements ==
  ASSUME NEW S, NEW u \in Seq(S), NEW t \in Seq(S)
  PROVE  /\ u \o t \in Seq(S) /\ Len(u \o t) = Len(u) + Len(t)
         /\ Len(u) \in Nat /\ Len(t) \in Nat
         /\ \A i \in 1 .. Len(u) : (u \o t)[i] = u[i]
         /\ \A i \in 1 .. Len(t) : (u \o t)[Len(u) + i] = t[i]
<1>1. /\ u \o t \in Seq(S) /\ Len(u \o t) = Len(u) + Len(t)
      /\ \A i \in 1 .. Len(u) + Len(t) :
           (u \o t)[i] = IF i <= Len(u) THEN u[i] ELSE t[i - Len(u)]
  BY ConcatProperties
<1>2. Len(u) \in Nat /\ Len(t) \in Nat
  BY LenProperties
<1>3. \A i \in 1 .. Len(u) : (u \o t)[i] = u[i]
  BY <1>1, <1>2
<1>4. \A i \in 1 .. Len(t) : (u \o t)[Len(u) + i] = t[i]
  <2> SUFFICES ASSUME NEW i \in 1 .. Len(t) PROVE (u \o t)[Len(u) + i] = t[i]
    OBVIOUS
  <2>1. Len(u) + i \in 1 .. Len(u) + Len(t) /\ ~(Len(u) + i <= Len(u)) /\ Len(u) + i - Len(u) = i
    BY <1>2
  <2> QED BY <1>1, <2>1
<1> QED BY <1>1, <1>2, <1>3, <1>4

(* Concatenating two sorted mappings where the first ends no later than    *)
(* the second begins gives a sorted mapping.                               *)
LEMMA JoinSorted ==
  ASSUME NEW u, NEW s, NEW t, NEW m \in Nat, NEW n \in Nat,
         \A i \in 1 .. m : u[i] = s[i],
         \A i \in 1 .. n : u[m + i] = t[i],
         \A i, j \in 1 .. m : i <= j => s[i] <= s[j],
         \A i, j \in 1 .. n : i <= j => t[i] <= t[j],
         \A i \in 1 .. m, j \in 1 .. n : s[i] <= t[j]
  PROVE  \A i, j \in 1 .. m + n : i <= j => u[i] <= u[j]
<1> TAKE i, j \in 1 .. m + n
<1> HAVE i <= j
<1>0. ASSUME NEW k \in 1 .. m + n, m < k
      PROVE  k - m \in 1 .. n /\ u[k] = t[k - m]
  <2>1. k - m \in 1 .. n /\ m + (k - m) = k
    BY <1>0
  <2> QED BY <2>1
<1>1. CASE j <= m
  <2>1. i \in 1 .. m /\ j \in 1 .. m
    BY <1>1
  <2> QED BY <2>1
<1>2. CASE i <= m /\ m < j
  <2>1. i \in 1 .. m
    BY <1>2
  <2>2. j - m \in 1 .. n /\ u[j] = t[j - m]
    BY <1>0, <1>2
  <2> QED BY <2>1, <2>2
<1>3. CASE m < i
  <2>1. i - m \in 1 .. n /\ u[i] = t[i - m]
    BY <1>0, <1>3
  <2>2. j - m \in 1 .. n /\ u[j] = t[j - m]
    <3>1. m < j
      BY <1>3
    <3> QED BY <1>0, <3>1
  <2>3. i - m <= j - m
    OBVIOUS
  <2> QED BY <2>1, <2>2, <2>3
<1> QED BY <1>1, <1>2, <1>3

LEMMA ConcatSorted ==
  ASSUME NEW s \in Seq(Nat), NEW t \in Seq(Nat), Sorted(s), Sorted(t),
         \A i \in 1 .. Len(s), j \in 1 .. Len(t) : s[i] <= t[j]
  PROVE  Sorted(s \o t)
<1>1. /\ Len(s) \in Nat /\ Len(t) \in Nat /\ Len(s \o t) = Len(s) + Len(t)
      /\ \A i \in 1 .. Len(s) : (s \o t)[i] = s[i]
      /\ \A i \in 1 .. Len(t) : (s \o t)[Len(s) + i] = t[i]
  BY ConcatElements
<1>2. /\ \A i, j \in 1 .. Len(s) : i <= j => s[i] <= s[j]
      /\ \A i, j \in 1 .. Len(t) : i <= j => t[i] <= t[j]
  BY Zenon DEF Sorted
<1>3. \A i, j \in 1 .. Len(s) + Len(t) : i <= j => (s \o t)[i] <= (s \o t)[j]
  BY <1>1, <1>2, JoinSorted, Zenon
<1> QED BY <1>1, <1>3, Zenon DEF Sorted

(* A slice of a sequence, element by element; m is the 0-based first       *)
(* offset and n the offset behind the last one, as in a Rust range.        *)
LEMMA SliceProperties ==
  ASSUME NEW S, NEW s \in Seq(S), NEW m \in Nat, NEW n \in Nat, m <= n, n <= Len(s)
  PROVE  /\ SubSeq(s, m + 1, n) \in Seq(S)
         /\ Len(SubSeq(s, m + 1, n)) = n - m
         /\ \A i \in 1 .. n - m : SubSeq(s, m + 1, n)[i] = s[m + i]
<1>1. \A i \in m + 1 .. n : s[i] \in S
  BY LenProperties, ElementOfSeq
<1>2. /\ SubSeq(s, m + 1, n) \in Seq(S)
      /\ Len(SubSeq(s, m + 1, n)) = IF m + 1 <= n THEN n - (m + 1) + 1 ELSE 0
      /\ \A i \in 1 .. n - (m + 1) + 1 : SubSeq(s, m + 1, n)[i] = s[m + 1 + i - 1]
  BY <1>1, SubSeqProperties, m + 1 \in Int, n \in Int
<1> QED BY <1>2

LEMMA SliceSorted ==
  ASSUME NEW s \in Seq(Nat), NEW m \in Nat, NEW n \in Nat, m <= n, n <= Len(s), Sorted(s)
  PROVE  Sorted(SubSeq(s, m + 1, n))
<1>1. /\ Len(SubSeq(s, m + 1, n)) = n - m
      /\ \A i \in 1 .. n - m : SubSeq(s, m + 1, n)[i] = s[m + i]
  BY SliceProperties
<1> SUFFICES ASSUME NEW i \in 1 .. n - m, NEW j \in 1 .. n - m, i <= j
             PROVE  SubSeq(s, m + 1, n)[i] <= SubSeq(s, m + 1, n)[j]
  BY <1>1 DEF Sorted
<1>2. m + i \in 1 .. Len(s) /\ m + j \in 1 .. Len(s) /\ m + i <= m + j
  BY LenProperties
<1> QED BY <1>1, <1>2 DEF Sorted
-----------------------------------------------------------------------------
(* The fields of a recorded edit.                                          *)
LEMMA EditTypes ==
  ASSUME TypeOK
  PROVE  \A i \in 1 .. Len(replaces) :
           /\ replaces[i].from \in Nat
           /\ replaces[i].to \in 0 .. Len(modified)
           /\ replaces[i].with \in Seq(Byte)
<1> DEFINE Edits == [from : Nat, to : 0 .. Len(modified), with : Seq(Byte)]
<1>1. \A i \in 1 .. Len(replaces) : replaces[i] \in Edits
  <2>1. replaces \in Seq(Edits)
    BY DEF TypeOK
  <2> HIDE DEF Edits
  <2> QED BY <2>1, ElementOfSeq
<1> QED BY <1>1

LEMMA InitMapInv == Init => MapInv
<1> SUFFICES ASSUME Init PROVE MapInv
  OBVIOUS
<1> USE DEF Init
<1>1. /\ original \in Seq(Byte) /\ modified \in Seq(Byte) /\ modified_2 \in Seq(Byte)
      /\ m2o \in Seq(Nat) /\ m2o_2 \in Seq(Nat \cup {NoChar})
      /\ replaces \in Seq([from : Nat, to : 0 .. Len(modified), with : Seq(Byte)])
      /\ Len(modified) = 0 /\ Len(replaces) = 0
  BY EmptySeq
<1>2. TypeOK
  BY <1>1 DEF TypeOK
<1>3. LengthBounded
  BY <1>1, LimitsAssumption DEF LengthBounded
<1>4. EditsOrdered
  BY <1>1 DEF EditsOrdered
<1> QED BY <1>2, <1>3, <1>4 DEF MapInv, MappingWellFormed, BoundariesMapToBoundaries

(* Steps that leave the text, its mapping and the resolution alone.        *)
LEMMA StutterMapInv == MapInv /\ UNCHANGED mapping => MapInv'
<1> SUFFICES ASSUME MapInv, UNCHANGED mapping PROVE MapInv'
  OBVIOUS
<1> QED BY DEF MapInv, mapping, TypeOK, MappingWellFormed, BoundariesMapToBoundaries,
              LengthBounded, EditsOrdered, ScratchInv, Sorted, Between, IsBoundary

LEMMA ResetMapInv == ASSUME MapInv, NEW text \in Texts, Reset(text) PROVE MapInv'
<1> USE DEF Reset
<1>1. text \in Seq(Byte) /\ (text # << >> => text[1] # Cont)
  BY TextsAssumption
<1>2. /\ << >> \in Seq(Byte) /\ << >> \in Seq(Nat) /\ Len(<< >>) = 0
      /\ << >> \in Seq([from : Nat, to : 0 .. Len(<< >>), with : Seq(Byte)])
  BY EmptySeq
<1>3. replaces' = << >> /\ modified' = << >> /\ m2o' = << >>
  BY DEF MapInv
<1>4. TypeOK'
  BY <1>1, <1>2, <1>3 DEF TypeOK, MapInv
<1>5. LengthBounded'
  BY <1>2, <1>3, LimitsAssumption DEF LengthBounded
<1>6. EditsOrdered'
  BY <1>2, <1>3 DEF EditsOrdered
<1>7. MappingWellFormed' /\ BoundariesMapToBoundaries'
  BY DEF MappingWellFormed, BoundariesMapToBoundaries
<1> QED BY <1>1, <1>3, <1>4, <1>5, <1>6, <1>7 DEF MapInv

LEMMA StartBuildMapInv == ASSUME MapInv, StartBuild PROVE MapInv'
<1> USE DEF StartBuild
<1> DEFINE id == [i \in 1 .. Len(original) + 1 |-> i - 1]
<1>0. original \in Seq(Byte) /\ Len(original) \in Nat
  BY LenProperties DEF MapInv, TypeOK
<1>1. modified' = original
  <2>1. modified = << >>
    BY DEF MapInv
  <2> QED BY <1>0, <2>1, ConcatEmptySeq
<1>2. id \in Seq(Nat) /\ Len(id) = Len(original) + 1
  <2>1. \A i \in 1 .. Len(original) + 1 : i - 1 \in Nat
    BY <1>0
  <2> QED BY <1>0, <2>1
<1>3. m2o' = id
  <2>1. m2o = << >> /\ m2o' = m2o \o id
    BY <1>1 DEF MapInv
  <2> QED BY <1>2, <2>1, ConcatEmptySeq
<1>4. replaces = << >> /\ replaces' = << >>
  BY DEF MapInv
<1>5. TypeOK'
  <2>1. replaces' \in Seq([from : Nat, to : 0 .. Len(modified'), with : Seq(Byte)])
    BY <1>4, EmptySeq
  <2> QED BY <1>0, <1>1, <1>2, <1>3, <2>1 DEF MapInv, TypeOK
<1>6. MappingWellFormed'
  BY <1>0, <1>1, <1>2, <1>3 DEF MappingWellFormed
<1>7. BoundariesMapToBoundaries'
  BY <1>0, <1>1, <1>2, <1>3 DEF BoundariesMapToBoundaries, IsBoundary
<1>8. LengthBounded'
  BY <1>0, <1>1, LimitsAssumption DEF LengthBounded
<1>9. EditsOrdered'
  BY <1>4, EmptySeq DEF EditsOrdered
<1> QED BY <1>1, <1>3, <1>4, <1>5, <1>6, <1>7, <1>8, <1>9 DEF MapInv

(* A recorded edit begins where the previous one ended or later, so the    *)
(* recorded edits stay ordered.                                            *)
LEMMA RecordEditMapInv ==
  ASSUME MapInv, NEW from \in 0 .. Len(modified), NEW to \in 0 .. Len(modified),
         NEW with \in Replacements, RecordEdit(from, to, with)
  PROVE  MapInv'
<1> USE DEF RecordEdit
<1> DEFINE edit == [from |-> from, to |-> to, with |-> with]
           Edits == [from : Nat, to : 0 .. Len(modified), with : Seq(Byte)]
<1>0. Len(modified) \in Nat /\ modified \in Seq(Byte)
  BY LenProperties DEF MapInv, TypeOK
<1>1. edit \in Edits /\ replaces \in Seq(Edits)
  BY <1>0, ReplacementsAssumption DEF MapInv, TypeOK
<1>2. /\ replaces' \in Seq(Edits) /\ Len(replaces') = Len(replaces) + 1
      /\ \A i \in 1 .. Len(replaces) : replaces'[i] = replaces[i]
      /\ replaces'[Len(replaces) + 1] = edit
      /\ Len(replaces) \in Nat
  <2> HIDE DEF edit, Edits
  <2> QED BY <1>1, AppendProperties, LenProperties DEF edit
<1>e. \A i \in 1 .. Len(replaces) :
        replaces[i].from \in Nat /\ replaces[i].to \in 0 .. Len(modified)
  BY EditTypes DEF MapInv
<1>3. TypeOK'
  BY <1>2 DEF MapInv, TypeOK
<1>4. EditsOrdered'
  <2>1. \A i \in 1 .. Len(replaces') :
          /\ replaces'[i].from < replaces'[i].to
          /\ IsBoundary(modified, replaces'[i].from)
          /\ IsBoundary(modified, replaces'[i].to)
    BY <1>2 DEF MapInv, EditsOrdered
  <2>2. ASSUME NEW i \in 1 .. Len(replaces'), NEW j \in 1 .. Len(replaces'), i < j
        PROVE  replaces'[i].to <= replaces'[j].from
    <3>1. CASE j <= Len(replaces)
      BY <1>2, <2>2, <3>1 DEF MapInv, EditsOrdered
    <3>2. CASE j = Len(replaces) + 1
      <4>1. i \in 1 .. Len(replaces) /\ replaces # << >>
        BY <1>1, <1>2, <2>2, <3>2, EmptySeq
      <4>2. replaces[Len(replaces)].to <= from
        BY <1>0, <1>2, <1>e, <4>1
      <4>3. replaces[i].to <= replaces[Len(replaces)].to
        <5>1. CASE i = Len(replaces)
          BY <1>0, <1>e, <4>1, <5>1
        <5>2. CASE i < Len(replaces)
          <6>0. EditsOrdered /\ Len(replaces) \in 1 .. Len(replaces)
            BY <1>2, <4>1 DEF MapInv
          <6>1. /\ replaces[i].to <= replaces[Len(replaces)].from
                /\ replaces[Len(replaces)].from < replaces[Len(replaces)].to
            <7> HIDE DEF RecordEdit
            <7> QED BY <4>1, <5>2, <6>0 DEF EditsOrdered
          <6>2. replaces[i].to \in Int
            BY <1>0, <1>e, <4>1
          <6>3. Len(replaces) \in 1 .. Len(replaces)
            BY <1>2, <4>1
          <6>4. replaces[Len(replaces)].from \in Int /\ replaces[Len(replaces)].to \in Int
            BY <1>0, <1>e, <6>3
          <6> QED BY <6>1, <6>2, <6>4
        <5> QED BY <1>2, <4>1, <5>1, <5>2
      <4>4. replaces[i].to \in Int /\ replaces[Len(replaces)].to \in Int /\ from \in Int
        <5>1. Len(replaces) \in 1 .. Len(replaces)
          BY <1>2, <4>1
        <5>2. replaces[i].to \in 0 .. Len(modified)
          BY <1>e, <4>1
        <5>3. replaces[Len(replaces)].to \in 0 .. Len(modified)
          BY <1>e, <5>1
        <5> QED BY <1>0, <5>2, <5>3
      <4>5. replaces'[i] = replaces[i] /\ replaces'[j].from = from
        BY <1>2, <3>2, <4>1
      <4>6. replaces[i].to <= from
        BY <4>2, <4>3, <4>4, LeqTransitive, Zenon
      <4> HIDE DEF RecordEdit
      <4>7. replaces'[i].to <= from
        BY <4>5, <4>6
      <4> QED BY <4>5, <4>7
    <3>3. j <= Len(replaces) \/ j = Len(replaces) + 1
      <4>1. j \in 1 .. Len(replaces) + 1 /\ Len(replaces) \in Nat
        BY <1>2
      <4> HIDE DEF RecordEdit
      <4> QED BY <4>1
    <3> QED BY <3>1, <3>2, <3>3, Zenon
  <2> QED BY <2>1, <2>2 DEF EditsOrdered, IsBoundary
<1>5. MappingWellFormed' /\ BoundariesMapToBoundaries' /\ LengthBounded'
  BY DEF MapInv, MappingWellFormed, BoundariesMapToBoundaries, LengthBounded, IsBoundary
<1> QED BY <1>3, <1>4, <1>5 DEF MapInv

(* The steps of with_editor that touch neither the text nor the mapping.   *)
LEMMA EditorMapInv ==
  ASSUME MapInv, StartBuildTooLong \/ OpenEditor \/ Rollback \/ CommitNothing
  PROVE  MapInv'
<1> USE DEF StartBuildTooLong, OpenEditor, Rollback, CommitNothing
<1>1. /\ UNCHANGED <<state, original, modified, m2o, modified_2, m2o_2, start, curLen>>
      /\ phase' # "resolving"
      /\ replaces' \in {replaces, << >>}
      /\ phase' = "idle" => replaces' = << >>
      /\ phase' # "idle" => state' = "RW"
  BY DEF MapInv
<1>2. /\ << >> \in Seq([from : Nat, to : 0 .. Len(modified), with : Seq(Byte)])
      /\ Len(<< >>) = 0
  BY EmptySeq
<1>3. TypeOK'
  <2>0. rounds \in Nat /\ TypeOK
    BY DEF MapInv, TypeOK
  <2>1. rounds' \in Nat
    BY <2>0
  <2>2. phase' \in {"idle", "editing", "resolving"}
    BY <2>0 DEF TypeOK
  <2>3. result' \in {"ok", "InputTooLong", "PluginFailed"}
    BY <2>0 DEF TypeOK
  <2>4. replaces' \in Seq([from : Nat, to : 0 .. Len(modified), with : Seq(Byte)])
    BY <1>1, <1>2, <2>0 DEF TypeOK
  <2> HIDE DEF StartBuildTooLong, OpenEditor, Rollback, CommitNothing
  <2> QED BY <1>1, <2>0, <2>1, <2>2, <2>3, <2>4 DEF TypeOK
<1>4. EditsOrdered'
  BY <1>1, <1>2 DEF MapInv, EditsOrdered, IsBoundary
<1>5. MappingWellFormed' /\ BoundariesMapToBoundaries' /\ LengthBounded'
  BY <1>1 DEF MapInv, MappingWellFormed, BoundariesMapToBoundaries, LengthBounded, IsBoundary
<1> QED BY <1>1, <1>3, <1>4, <1>5 DEF MapInv

LEMMA BeginCommitMapInv == ASSUME MapInv, BeginCommit PROVE MapInv'
<1> USE DEF BeginCommit
<1>0. Len(modified) \in Nat /\ Len(replaces) \in Nat
  BY LenProperties DEF MapInv, TypeOK
<1>1. << >> \in Seq(Byte) /\ << >> \in Seq(Nat) /\ << >> \in Seq(Nat \cup {NoChar})
      /\ Len(<< >>) = 0
  BY EmptySeq
<1>2. TypeOK'
  BY <1>0, <1>1 DEF MapInv, TypeOK
<1>3. EditsOrdered' /\ MappingWellFormed' /\ BoundariesMapToBoundaries' /\ LengthBounded'
  BY DEF MapInv, EditsOrdered, MappingWellFormed, BoundariesMapToBoundaries, LengthBounded,
         IsBoundary
<1>4. ScratchInv'
  <2>1. replaces[1].from \in Nat /\ 0 < Len(modified)
    <3>1. TypeOK /\ EditsOrdered /\ replaces # << >>
      BY DEF MapInv
    <3>2. 1 \in 1 .. Len(replaces)
      BY <1>0, <3>1, EmptySeq DEF TypeOK
    <3>3. replaces[1].from \in Nat /\ replaces[1].to \in 0 .. Len(modified)
      BY <3>1, <3>2, EditTypes
    <3>4. replaces[1].from < replaces[1].to
      BY <3>1, <3>2 DEF EditsOrdered
    <3> QED BY <1>0, <3>3, <3>4
  <2> QED BY <1>0, <1>1, <2>1
          DEF MapInv, TypeOK, LengthBounded, ScratchInv, Sorted, Between, IsBoundary
<1> QED BY <1>2, <1>3, <1>4 DEF MapInv

(* Appending two sequences to a third, element by element.                 *)
LEMMA ConcatThree ==
  ASSUME NEW S, NEW u \in Seq(S), NEW t \in Seq(S), NEW w \in Seq(S)
  PROVE  /\ (u \o t) \o w \in Seq(S)
         /\ Len((u \o t) \o w) = Len(u) + Len(t) + Len(w)
         /\ Len(u) \in Nat /\ Len(t) \in Nat /\ Len(w) \in Nat
         /\ \A i \in 1 .. Len(u) : ((u \o t) \o w)[i] = u[i]
         /\ \A i \in 1 .. Len(t) : ((u \o t) \o w)[Len(u) + i] = t[i]
         /\ \A i \in 1 .. Len(w) : ((u \o t) \o w)[Len(u) + Len(t) + i] = w[i]
<1> DEFINE v == u \o t
<1>1. /\ v \in Seq(S) /\ Len(v) = Len(u) + Len(t)
      /\ Len(u) \in Nat /\ Len(t) \in Nat
      /\ \A i \in 1 .. Len(u) : v[i] = u[i]
      /\ \A i \in 1 .. Len(t) : v[Len(u) + i] = t[i]
  BY ConcatElements
<1>v. v \in Seq(S)
  BY <1>1
<1> HIDE DEF v
<1>2. /\ v \o w \in Seq(S) /\ Len(v \o w) = Len(v) + Len(w)
      /\ Len(v) \in Nat /\ Len(w) \in Nat
      /\ \A i \in 1 .. Len(v) : (v \o w)[i] = v[i]
      /\ \A i \in 1 .. Len(w) : (v \o w)[Len(v) + i] = w[i]
  BY <1>v, ConcatElements
<1>3. \A i \in 1 .. Len(u) : (v \o w)[i] = u[i]
  BY <1>1, <1>2
<1>4. \A i \in 1 .. Len(t) : (v \o w)[Len(u) + i] = t[i]
  <2> SUFFICES ASSUME NEW i \in 1 .. Len(t) PROVE (v \o w)[Len(u) + i] = t[i]
    OBVIOUS
  <2>1. Len(u) + i \in 1 .. Len(v)
    BY <1>1
  <2> QED BY <1>1, <1>2, <2>1
<1> QED BY <1>1, <1>2, <1>3, <1>4 DEF v

(* Concatenation of sorted mappings with a value between them.             *)
LEMMA ConcatBetween ==
  ASSUME NEW u \in Seq(Nat), NEW t \in Seq(Nat),
         NEW lo \in Nat, NEW mid \in Nat, NEW hi \in Nat, lo <= mid, mid <= hi,
         Sorted(u), Sorted(t), Between(u, lo, mid), Between(t, mid, hi)
  PROVE  Sorted(u \o t) /\ Between(u \o t, lo, hi)
<1>1. /\ u \o t \in Seq(Nat) /\ Len(u \o t) = Len(u) + Len(t)
      /\ Len(u) \in Nat /\ Len(t) \in Nat
      /\ \A i \in 1 .. Len(u) : (u \o t)[i] = u[i]
      /\ \A i \in 1 .. Len(t) : (u \o t)[Len(u) + i] = t[i]
  BY ConcatElements
<1>2. \A i \in 1 .. Len(u) : u[i] \in Nat
  BY ElementOfSeq
<1>3. \A i \in 1 .. Len(t) : t[i] \in Nat
  BY ElementOfSeq
<1>4. ASSUME NEW i \in 1 .. Len(u), NEW j \in 1 .. Len(t)
      PROVE  u[i] <= t[j]
  <2>1. u[i] <= mid
    BY DEF Between
  <2>2. mid <= t[j]
    BY DEF Between
  <2>3. u[i] \in Int /\ t[j] \in Int /\ mid \in Int
    BY <1>2, <1>3
  <2> QED BY <2>1, <2>2, <2>3, LeqTransitive, Zenon
<1>5. Sorted(u \o t)
  BY <1>4, ConcatSorted
<1>6. ASSUME NEW i \in 1 .. Len(u) + Len(t)
      PROVE  lo <= (u \o t)[i] /\ (u \o t)[i] <= hi
  <2>1. CASE i <= Len(u)
    <3>1. i \in 1 .. Len(u)
      BY <1>1, <2>1
    <3> QED BY <1>1, <1>2, <3>1 DEF Between
  <2>2. CASE Len(u) < i
    <3>1. i - Len(u) \in 1 .. Len(t) /\ i = Len(u) + (i - Len(u))
      BY <1>1, <2>2
    <3>2. (u \o t)[i] = t[i - Len(u)]
      BY <1>1, <3>1
    <3> QED BY <1>3, <3>1, <3>2 DEF Between
  <2> QED BY <1>1, <2>1, <2>2
<1> QED BY <1>1, <1>5, <1>6 DEF Between

(* The slice of the mapping that goes with a copied part of the text.      *)
LEMMA MappingSlice ==
  ASSUME NEW s \in Seq(Nat), NEW m \in Nat, NEW n \in Nat, m <= n, n < Len(s), Sorted(s)
  PROVE  /\ SubSeq(s, m + 1, n) \in Seq(Nat)
         /\ Len(SubSeq(s, m + 1, n)) = n - m
         /\ Sorted(SubSeq(s, m + 1, n))
         /\ Between(SubSeq(s, m + 1, n), s[m + 1], s[n + 1])
         /\ s[m + 1] \in Nat /\ s[n + 1] \in Nat /\ s[m + 1] <= s[n + 1]
<1>0. Len(s) \in Nat
  BY LenProperties
<1>1. n <= Len(s)
  BY <1>0
<1>2. /\ SubSeq(s, m + 1, n) \in Seq(Nat)
      /\ Len(SubSeq(s, m + 1, n)) = n - m
      /\ \A i \in 1 .. n - m : SubSeq(s, m + 1, n)[i] = s[m + i]
  BY <1>1, SliceProperties
<1>3. Sorted(SubSeq(s, m + 1, n))
  BY <1>1, SliceSorted
<1>4. ASSUME NEW i \in 1 .. n - m PROVE s[m + 1] <= s[m + i] /\ s[m + i] <= s[n + 1]
  <2>1. m + 1 \in 1 .. Len(s) /\ m + i \in 1 .. Len(s) /\ n + 1 \in 1 .. Len(s)
    BY <1>0
  <2> QED BY <2>1 DEF Sorted
<1>5. Between(SubSeq(s, m + 1, n), s[m + 1], s[n + 1])
  BY <1>2, <1>4 DEF Between
<1>6. m + 1 \in 1 .. Len(s) /\ n + 1 \in 1 .. Len(s)
  BY <1>0
<1>7. s[m + 1] \in Nat /\ s[n + 1] \in Nat
  BY <1>6, ElementOfSeq
<1>8. s[m + 1] <= s[n + 1]
  BY <1>6 DEF Sorted
<1> QED BY <1>2, <1>3, <1>5, <1>7, <1>8

(* What one iteration appends, before the length check: the copied part of *)
(* the text and the replacement, each with its part of the mapping.        *)
LEMMA ResolveEditScratch ==
  ASSUME MapInv, ResolveEdit
  PROVE  /\ modified_2' \in Seq(Byte) /\ m2o_2' \in Seq(Nat)
         /\ start' \in Nat /\ start' <= Len(modified) /\ curLen' \in Nat
         /\ start' = replaces[1].to
         /\ curLen' = Len(modified_2') + Len(modified) - start'
         /\ Len(m2o_2') = Len(modified_2')
         /\ Sorted(m2o_2')
         /\ Between(m2o_2', 0, m2o[start' + 1])
         /\ \A i \in 1 .. Len(m2o_2') :
              modified_2'[i] # Cont => IsBoundary(original, m2o_2'[i])
<1> DEFINE from == replaces[1].from
           to == replaces[1].to
           with == replaces[1].with
           A == SubSeq(modified, start + 1, from)
           B == SubSeq(m2o, start + 1, from)
           R == ReplacementMapping(replaces[1])
<1>1. /\ modified_2' = (modified_2 \o A) \o with
      /\ m2o_2' = (m2o_2 \o B) \o R
      /\ start' = to
      /\ curLen' = curLen + Len(with) - (to - from)
  BY DEF ResolveEdit, LengthAfter
<1>2. /\ modified \in Seq(Byte) /\ m2o \in Seq(Nat) /\ modified_2 \in Seq(Byte)
      /\ m2o_2 \in Seq(Nat) /\ start \in Nat /\ curLen \in Nat
      /\ ScratchInv
      /\ Len(m2o) = Len(modified) + 1 /\ Sorted(m2o)
      /\ \A b \in 0 .. Len(modified) :
           IsBoundary(modified, b) => IsBoundary(original, m2o[b + 1])
  BY DEF ResolveEdit, MapInv, TypeOK, ScratchInv, MappingWellFormed, Sorted,
         BoundariesMapToBoundaries
<1>3. /\ Len(modified) \in Nat /\ Len(modified_2) \in Nat /\ Len(m2o_2) = Len(modified_2)
      /\ curLen = Len(modified_2) + Len(modified) - start
      /\ Sorted(m2o_2) /\ Between(m2o_2, 0, m2o[start + 1])
  BY <1>2, LenProperties DEF ScratchInv
<1>4. /\ from \in Nat /\ to \in 0 .. Len(modified) /\ with \in Seq(Byte)
      /\ start <= from /\ from < to
      /\ IsBoundary(modified, from) /\ IsBoundary(modified, to)
  <2>1. 1 \in 1 .. Len(replaces)
    BY EmptySeq DEF ResolveEdit, MapInv, TypeOK
  <2> QED BY <1>2, <2>1, EditTypes DEF ResolveEdit, MapInv, EditsOrdered, ScratchInv
<1> HIDE DEF from, to, with
<1>5. /\ A \in Seq(Byte) /\ Len(A) = from - start
      /\ \A i \in 1 .. from - start : A[i] = modified[start + i]
  <2>1. modified \in Seq(Byte) /\ start \in Nat /\ from \in Nat /\ start <= from
    BY <1>2, <1>4
  <2>2. from <= Len(modified)
    BY <1>3, <1>4
  <2> QED BY <2>1, <2>2, SliceProperties
<1>6. /\ B \in Seq(Nat) /\ Len(B) = from - start /\ Sorted(B)
      /\ Between(B, m2o[start + 1], m2o[from + 1])
      /\ m2o[start + 1] \in Nat /\ m2o[from + 1] \in Nat /\ m2o[start + 1] <= m2o[from + 1]
      /\ \A i \in 1 .. from - start : B[i] = m2o[start + i]
  <2>1. m2o \in Seq(Nat) /\ start \in Nat /\ from \in Nat /\ start <= from /\ Sorted(m2o)
    BY <1>2, <1>4
  <2>2. from < Len(m2o) /\ from <= Len(m2o)
    <3>1. Len(m2o) = Len(modified) + 1 /\ Len(modified) \in Nat
      BY <1>2, <1>3
    <3>2. from \in Nat /\ from <= Len(modified)
      BY <1>3, <1>4
    <3> HIDE DEF from
    <3> QED BY <3>1, <3>2
  <2>3. \A i \in 1 .. from - start : B[i] = m2o[start + i]
    BY <2>1, <2>2, SliceProperties
  <2> QED BY <2>1, <2>2, <2>3, MappingSlice
<1>7. m2o[to + 1] \in Nat /\ m2o[from + 1] <= m2o[to + 1]
  <2>1. from + 1 \in 1 .. Len(m2o) /\ to + 1 \in 1 .. Len(m2o) /\ from + 1 <= to + 1
    BY <1>2, <1>3, <1>4
  <2>2. m2o[to + 1] \in Nat
    BY <1>2, <2>1, ElementOfSeq
  <2> QED BY <1>2, <2>1, <2>2 DEF Sorted
<1>8. /\ R \in Seq(Nat) /\ Len(R) = Len(with)
      /\ \A i \in 1 .. Len(with) : R[i] = IF i = 1 THEN m2o[from + 1] ELSE m2o[to + 1]
  <2>1. R = [i \in 1 .. Len(with) |-> IF i = 1 THEN m2o[from + 1] ELSE m2o[to + 1]]
    BY DEF ReplacementMapping, from, to, with
  <2>2. Len(with) \in Nat
    BY <1>4, LenProperties
  <2> HIDE DEF R
  <2> QED BY <1>6, <1>7, <2>1, <2>2
<1> HIDE DEF A, B, R
<1>9. Sorted(R) /\ Between(R, m2o[from + 1], m2o[to + 1])
  <2> DEFINE a == m2o[from + 1]
             b == m2o[to + 1]
  <2>1. a \in Nat /\ b \in Nat /\ a <= b
    BY <1>6, <1>7
  <2>2. \A i \in 1 .. Len(R) : R[i] = IF i = 1 THEN a ELSE b
    BY <1>8
  <2>3. Len(R) \in Nat
    BY <1>8, LenProperties
  <2> HIDE DEF a, b
  <2>4. Sorted(R)
    BY <2>1, <2>2, <2>3 DEF Sorted
  <2>5. Between(R, a, b)
    BY <2>1, <2>2, <2>3 DEF Between
  <2> QED BY <2>4, <2>5 DEF a, b
<1>10. /\ m2o_2 \o B \in Seq(Nat) /\ Sorted(m2o_2 \o B)
       /\ Between(m2o_2 \o B, 0, m2o[from + 1])
  <2>1. m2o_2 \in Seq(Nat) /\ B \in Seq(Nat)
    BY <1>2, <1>6
  <2>2. m2o_2 \o B \in Seq(Nat)
    BY <2>1, ConcatElements
  <2>3. /\ 0 \in Nat /\ m2o[start + 1] \in Nat /\ m2o[from + 1] \in Nat
        /\ 0 <= m2o[start + 1] /\ m2o[start + 1] <= m2o[from + 1]
    BY <1>6
  <2> QED BY <1>3, <1>6, <2>1, <2>2, <2>3, ConcatBetween
<1>11. Sorted(m2o_2') /\ Between(m2o_2', 0, m2o[to + 1])
  <2>1. /\ 0 \in Nat /\ m2o[to + 1] \in Nat /\ m2o[from + 1] \in Nat
        /\ 0 <= m2o[from + 1] /\ m2o[from + 1] <= m2o[to + 1]
    BY <1>6, <1>7
  <2>2. R \in Seq(Nat)
    BY <1>8
  <2> QED BY <1>1, <1>9, <1>10, <2>1, <2>2, ConcatBetween
<1>12. /\ modified_2' \in Seq(Byte)
       /\ Len(modified_2') = Len(modified_2) + Len(A) + Len(with)
       /\ Len(with) \in Nat /\ Len(A) \in Nat
       /\ \A i \in 1 .. Len(modified_2) : modified_2'[i] = modified_2[i]
       /\ \A i \in 1 .. Len(A) : modified_2'[Len(modified_2) + i] = A[i]
  <2>1. A \in Seq(Byte) /\ with \in Seq(Byte) /\ modified_2 \in Seq(Byte)
    BY <1>2, <1>4, <1>5
  <2> QED BY <1>1, <2>1, ConcatThree
<1>13. /\ m2o_2' \in Seq(Nat)
       /\ Len(m2o_2') = Len(m2o_2) + Len(B) + Len(R)
       /\ \A i \in 1 .. Len(m2o_2) : m2o_2'[i] = m2o_2[i]
       /\ \A i \in 1 .. Len(B) : m2o_2'[Len(m2o_2) + i] = B[i]
       /\ \A i \in 1 .. Len(R) : m2o_2'[Len(m2o_2) + Len(B) + i] = R[i]
  <2>1. B \in Seq(Nat) /\ R \in Seq(Nat) /\ m2o_2 \in Seq(Nat)
    BY <1>2, <1>6, <1>8
  <2>2. m2o_2' = (m2o_2 \o B) \o R
    BY <1>1
  <2> HIDE DEF B, R
  <2> QED BY <2>1, <2>2, ConcatThree
<1>14. ASSUME NEW i \in 1 .. Len(m2o_2'), modified_2'[i] # Cont
       PROVE  IsBoundary(original, m2o_2'[i])
  <2>1. CASE i \in 1 .. Len(m2o_2)
    BY <1>3, <1>12, <1>13, <1>14, <1>2, <2>1 DEF ScratchInv
  <2>2. ASSUME NEW j \in 1 .. Len(B), i = Len(m2o_2) + j
        PROVE  IsBoundary(original, m2o_2'[i])
    <3>1. j \in 1 .. from - start
      BY <1>6
    <3>2. modified_2'[i] = modified[start + j] /\ m2o_2'[i] = m2o[start + j]
      BY <1>3, <1>5, <1>6, <1>12, <1>13, <2>2, <3>1
    <3>3. start + j - 1 \in 0 .. Len(modified) - 1 /\ (start + j - 1) + 1 = start + j
      BY <1>2, <1>3, <1>4, <3>1
    <3>4. IsBoundary(modified, start + j - 1)
      BY <1>3, <1>14, <3>2, <3>3 DEF IsBoundary
    <3>5. start + j - 1 \in 0 .. Len(modified)
      BY <1>3, <3>3
    <3>6. IsBoundary(original, m2o[(start + j - 1) + 1])
      BY <1>2, <3>4, <3>5
    <3> QED BY <3>2, <3>3, <3>6
  <2>3. ASSUME NEW j \in 1 .. Len(R), i = Len(m2o_2) + Len(B) + j
        PROVE  IsBoundary(original, m2o_2'[i])
    <3>1. m2o_2'[i] = m2o[from + 1] \/ m2o_2'[i] = m2o[to + 1]
      BY <1>8, <1>13, <2>3
    <3>2. from \in 0 .. Len(modified)
      BY <1>3, <1>4
    <3> QED BY <1>2, <1>4, <3>1, <3>2
  <2>4. /\ Len(m2o_2) \in Nat /\ Len(B) \in Nat /\ Len(R) \in Nat
        /\ i \in 1 .. Len(m2o_2) + Len(B) + Len(R)
    BY <1>3, <1>5, <1>6, <1>8, <1>12, <1>13
  <2>5. CASE i <= Len(m2o_2)
    BY <2>1, <2>4, <2>5
  <2>6. CASE Len(m2o_2) < i /\ i <= Len(m2o_2) + Len(B)
    <3>1. i - Len(m2o_2) \in 1 .. Len(B) /\ i = Len(m2o_2) + (i - Len(m2o_2))
      BY <2>4, <2>6
    <3> QED BY <2>2, <3>1
  <2>7. CASE Len(m2o_2) + Len(B) < i
    <3>1. /\ i - (Len(m2o_2) + Len(B)) \in 1 .. Len(R)
          /\ i = Len(m2o_2) + Len(B) + (i - (Len(m2o_2) + Len(B)))
      BY <2>4, <2>7
    <3> QED BY <2>3, <3>1
  <2> QED BY <2>4, <2>5, <2>6, <2>7
<1>15. /\ start' \in Nat /\ start' <= Len(modified) /\ curLen' \in Nat
       /\ curLen' = Len(modified_2') + Len(modified) - start'
       /\ Len(m2o_2') = Len(modified_2')
  BY <1>1, <1>2, <1>3, <1>4, <1>5, <1>6, <1>8, <1>12, <1>13
<1> QED BY <1>1, <1>11, <1>12, <1>13, <1>14, <1>15 DEF to

LEMMA ResolveEditMapInv == ASSUME MapInv, ResolveEdit PROVE MapInv'
<1>1. /\ modified_2' \in Seq(Byte) /\ m2o_2' \in Seq(Nat)
      /\ start' \in Nat /\ start' <= Len(modified) /\ curLen' \in Nat
      /\ start' = replaces[1].to
      /\ curLen' = Len(modified_2') + Len(modified) - start'
      /\ Len(m2o_2') = Len(modified_2')
      /\ Sorted(m2o_2')
      /\ Between(m2o_2', 0, m2o[start' + 1])
      /\ \A i \in 1 .. Len(m2o_2') :
           modified_2'[i] # Cont => IsBoundary(original, m2o_2'[i])
  BY ResolveEditScratch
<1>2. /\ UNCHANGED <<state, original, modified, m2o, rounds>>
      /\ state = "RW" /\ replaces # << >> /\ phase = "resolving"
      /\ IF curLen' > REALLY_MAX_LENGTH
         THEN replaces' = << >> /\ phase' = "idle" /\ result' = "InputTooLong"
         ELSE replaces' = Tail(replaces) /\ UNCHANGED <<phase, result>>
  BY DEF ResolveEdit, TooLong, MapInv
<1> DEFINE Edits == [from : Nat, to : 0 .. Len(modified), with : Seq(Byte)]
<1>3. replaces \in Seq(Edits) /\ Len(replaces) \in Nat /\ Len(replaces) # 0
  <2>1. replaces \in Seq(Edits)
    BY DEF MapInv, TypeOK
  <2> HIDE DEF Edits
  <2> QED BY <1>2, <2>1, EmptySeq, LenProperties
<1>4. /\ Tail(replaces) \in Seq(Edits) /\ Len(Tail(replaces)) = Len(replaces) - 1
      /\ \A i \in 1 .. Len(Tail(replaces)) : Tail(replaces)[i] = replaces[i + 1]
      /\ << >> \in Seq(Edits) /\ Len(<< >>) = 0
  <2> HIDE DEF Edits
  <2> QED BY <1>2, <1>3, HeadTailProperties, EmptySeq
<1>5. TypeOK'
  <2>1. replaces' \in Seq([from : Nat, to : 0 .. Len(modified'), with : Seq(Byte)])
    BY <1>2, <1>4
  <2>2. m2o_2' \in Seq(Nat \cup {NoChar})
    BY <1>1, SeqMonotonic
  <2> QED BY <1>1, <1>2, <2>1, <2>2 DEF MapInv, TypeOK
<1>6. EditsOrdered'
  <2>1. CASE replaces' = << >>
    BY <1>4, <2>1 DEF EditsOrdered
  <2>2. CASE replaces' = Tail(replaces)
    <3>1. ASSUME NEW i \in 1 .. Len(replaces')
          PROVE  i + 1 \in 1 .. Len(replaces) /\ replaces'[i] = replaces[i + 1]
      BY <1>3, <1>4, <2>2
    <3>2. EditsOrdered
      BY DEF MapInv
    <3>3. ASSUME NEW i \in 1 .. Len(replaces')
          PROVE  /\ replaces'[i].from < replaces'[i].to
                 /\ IsBoundary(modified', replaces'[i].from)
                 /\ IsBoundary(modified', replaces'[i].to)
      <4>1. i + 1 \in 1 .. Len(replaces) /\ replaces'[i] = replaces[i + 1]
        BY <3>1, <3>3
      <4>2. /\ replaces[i + 1].from < replaces[i + 1].to
            /\ IsBoundary(modified, replaces[i + 1].from)
            /\ IsBoundary(modified, replaces[i + 1].to)
        BY <3>2, <4>1 DEF EditsOrdered
      <4> QED BY <1>2, <4>1, <4>2
    <3>4. ASSUME NEW i \in 1 .. Len(replaces'), NEW j \in 1 .. Len(replaces'), i < j
          PROVE  replaces'[i].to <= replaces'[j].from
      <4>1. /\ i + 1 \in 1 .. Len(replaces) /\ replaces'[i] = replaces[i + 1]
            /\ j + 1 \in 1 .. Len(replaces) /\ replaces'[j] = replaces[j + 1]
        BY <3>1, <3>4
      <4>2. i + 1 < j + 1
        BY <3>4
      <4> QED BY <3>2, <4>1, <4>2 DEF EditsOrdered
    <3> QED BY <3>3, <3>4 DEF EditsOrdered
  <2> QED BY <1>2, <2>1, <2>2
<1>7. MappingWellFormed' /\ BoundariesMapToBoundaries' /\ LengthBounded'
  BY <1>2 DEF MapInv, MappingWellFormed, BoundariesMapToBoundaries, LengthBounded, IsBoundary
<1>8. phase' = "resolving" => ScratchInv'
  <2> SUFFICES ASSUME phase' = "resolving" PROVE ScratchInv'
    OBVIOUS
  <2>1. replaces' = Tail(replaces) /\ ~(curLen' > REALLY_MAX_LENGTH)
    BY <1>2
  <2>2. replaces' # << >> => start' <= replaces'[1].from
    <3> SUFFICES ASSUME replaces' # << >> PROVE start' <= replaces'[1].from
      OBVIOUS
    <3>1. Len(replaces) - 1 # 0
      <4> HIDE DEF Edits
      <4> QED BY <1>3, <1>4, <2>1, EmptySeq
    <3>2. 1 \in 1 .. Len(replaces) /\ 2 \in 1 .. Len(replaces) /\ replaces'[1] = replaces[2]
      <4>1. 1 \in 1 .. Len(replaces) - 1 /\ 1 \in 1 .. Len(replaces) /\ 2 \in 1 .. Len(replaces)
        <5>1. Len(replaces) \in Nat /\ Len(replaces) # 0 /\ Len(replaces) - 1 # 0
          BY <1>3, <3>1
        <5>2. \A n \in Nat : n # 0 /\ n - 1 # 0 =>
                1 \in 1 .. n - 1 /\ 1 \in 1 .. n /\ 2 \in 1 .. n
          OBVIOUS
        <5> QED BY <5>1, <5>2, Zenon
      <4>2. Tail(replaces)[1] = replaces[1 + 1]
        BY <1>4, <4>1
      <4> QED BY <2>1, <4>1, <4>2
    <3>3. EditsOrdered /\ start' = replaces[1].to
      BY <1>1 DEF MapInv
    <3>4. replaces[1].to <= replaces[2].from
      BY <3>2, <3>3, 1 < 2 DEF EditsOrdered
    <3> QED BY <3>2, <3>3, <3>4
  <2>3. curLen' <= REALLY_MAX_LENGTH
    BY <1>1, <2>1, LimitsAssumption
  <2>4. 0 < Len(modified)
    BY <1>2 DEF MapInv, ScratchInv
  <2> QED BY <1>1, <1>2, <2>2, <2>3, <2>4 DEF ScratchInv, Sorted, Between, IsBoundary
<1> QED BY <1>2, <1>5, <1>6, <1>7, <1>8 DEF MapInv

(* The text and the mapping a commit installs.                             *)
LEMMA FinishCommitMapInv == ASSUME MapInv, FinishCommit PROVE MapInv'
<1> DEFINE A == SubSeq(modified, start + 1, Len(modified))
           B == SubSeq(m2o, start + 1, Len(m2o))
           M == m2o_2 \o B
<1>1. /\ modified' = modified_2 \o A /\ m2o' = FirstIsZero(M)
      /\ modified_2' = modified /\ m2o_2' = m2o
      /\ UNCHANGED <<state, original, replaces, start, curLen, rounds>>
      /\ phase' = "idle" /\ result' = "ok" /\ replaces = << >> /\ state = "RW"
  BY DEF FinishCommit, RestOfMapping, MapInv
<1>2. /\ modified \in Seq(Byte) /\ m2o \in Seq(Nat) /\ modified_2 \in Seq(Byte)
      /\ m2o_2 \in Seq(Nat) /\ start \in Nat /\ curLen \in Nat /\ original \in Seq(Byte)
      /\ ScratchInv
      /\ Len(m2o) = Len(modified) + 1 /\ Sorted(m2o) /\ m2o[Len(m2o)] = Len(original)
      /\ \A b \in 0 .. Len(modified) :
           IsBoundary(modified, b) => IsBoundary(original, m2o[b + 1])
  BY EmptySeq DEF FinishCommit, MapInv, TypeOK, ScratchInv, MappingWellFormed, Sorted,
                  BoundariesMapToBoundaries
<1>3. /\ Len(modified) \in Nat /\ Len(modified_2) \in Nat /\ Len(m2o_2) = Len(modified_2)
      /\ curLen = Len(modified_2) + Len(modified) - start /\ curLen <= REALLY_MAX_LENGTH
      /\ start <= Len(modified) /\ 0 < Len(modified)
      /\ Sorted(m2o_2) /\ Between(m2o_2, 0, m2o[start + 1])
      /\ Len(original) \in Nat
  BY <1>2, LenProperties DEF ScratchInv
<1>4. /\ A \in Seq(Byte) /\ Len(A) = Len(modified) - start
      /\ \A i \in 1 .. Len(modified) - start : A[i] = modified[start + i]
  <2>1. /\ modified \in Seq(Byte) /\ start \in Nat /\ Len(modified) \in Nat
        /\ start <= Len(modified) /\ Len(modified) <= Len(modified)
    BY <1>2, <1>3
  <2> QED BY <2>1, SliceProperties
<1>5. /\ B \in Seq(Nat) /\ Len(B) = Len(modified) + 1 - start /\ Sorted(B)
      /\ \A i \in 1 .. Len(modified) + 1 - start : B[i] = m2o[start + i]
  <2>1. m2o \in Seq(Nat) /\ start \in Nat /\ Len(m2o) \in Nat /\ start <= Len(m2o)
    BY <1>2, <1>3
  <2>2. /\ B \in Seq(Nat) /\ Len(B) = Len(m2o) - start
        /\ \A i \in 1 .. Len(m2o) - start : B[i] = m2o[start + i]
    BY <2>1, SliceProperties
  <2>3. Sorted(B)
    BY <1>2, <2>1, SliceSorted
  <2> QED BY <1>2, <2>2, <2>3
<1>6. \A i \in 1 .. Len(m2o) : m2o[i] \in Nat /\ m2o[i] <= Len(original)
  <2> SUFFICES ASSUME NEW i \in 1 .. Len(m2o)
               PROVE  m2o[i] \in Nat /\ m2o[i] <= Len(original)
    OBVIOUS
  <2>1. m2o[i] \in Nat
    BY <1>2, ElementOfSeq
  <2>2. Len(m2o) \in 1 .. Len(m2o) /\ i <= Len(m2o)
    BY <1>2, <1>3
  <2>3. m2o[i] <= m2o[Len(m2o)]
    BY <1>2, <2>2 DEF Sorted
  <2> QED BY <1>2, <2>1, <2>3
<1>7. Between(B, m2o[start + 1], Len(original)) /\ m2o[start + 1] \in Nat
      /\ m2o[start + 1] <= Len(original)
  <2>1. start + 1 \in 1 .. Len(m2o)
    BY <1>2, <1>3
  <2>2. ASSUME NEW i \in 1 .. Len(modified) + 1 - start
        PROVE  m2o[start + 1] <= m2o[start + i] /\ m2o[start + i] <= Len(original)
    <3>1. start + i \in 1 .. Len(m2o) /\ start + 1 <= start + i
      BY <1>2, <1>3
    <3> QED BY <1>2, <1>6, <2>1, <3>1 DEF Sorted
  <2>3. Between(B, m2o[start + 1], Len(original))
    BY <1>5, <2>2 DEF Between
  <2> QED BY <1>6, <2>1, <2>3
<1> HIDE DEF A, B
<1>8. Sorted(M) /\ Between(M, 0, Len(original))
  <2>1. 0 \in Nat /\ 0 <= m2o[start + 1] /\ Len(original) \in Nat /\ m2o[start + 1] \in Nat
    BY <1>3, <1>7
  <2>2. m2o_2 \in Seq(Nat) /\ B \in Seq(Nat)
    BY <1>2, <1>5
  <2> QED BY <1>3, <1>5, <1>7, <2>1, <2>2, ConcatBetween
<1>9. /\ modified' \in Seq(Byte) /\ Len(modified') = Len(modified_2) + Len(A)
      /\ \A i \in 1 .. Len(modified_2) : modified'[i] = modified_2[i]
      /\ \A i \in 1 .. Len(A) : modified'[Len(modified_2) + i] = A[i]
  <2>1. modified_2 \in Seq(Byte) /\ A \in Seq(Byte)
    BY <1>2, <1>4
  <2> QED BY <1>1, <2>1, ConcatElements
<1>10. /\ M \in Seq(Nat) /\ Len(M) = Len(m2o_2) + Len(B)
       /\ \A i \in 1 .. Len(m2o_2) : M[i] = m2o_2[i]
       /\ \A i \in 1 .. Len(B) : M[Len(m2o_2) + i] = B[i]
  <2>1. m2o_2 \in Seq(Nat) /\ B \in Seq(Nat)
    BY <1>2, <1>5
  <2> QED BY <2>1, ConcatElements
<1> HIDE DEF M
<1>11. Len(M) = Len(modified') + 1 /\ Len(modified') = curLen /\ 1 \in 1 .. Len(M)
  BY <1>2, <1>3, <1>4, <1>5, <1>9, <1>10
<1>12. /\ m2o' \in Seq(Nat) /\ Len(m2o') = Len(M)
       /\ \A i \in 1 .. Len(M) : m2o'[i] = IF i = 1 THEN 0 ELSE M[i]
  <2>1. m2o' = [M EXCEPT ![1] = 0] /\ 0 \in Nat
    BY <1>1 DEF FirstIsZero
  <2> QED BY <1>10, <1>11, <2>1, ExceptSeq
<1>13. TypeOK'
  <2>1. m2o_2' \in Seq(Nat \cup {NoChar})
    BY <1>1, <1>2, SeqMonotonic
  <2>2. replaces' \in Seq([from : Nat, to : 0 .. Len(modified'), with : Seq(Byte)])
    BY <1>1, EmptySeq
  <2> QED BY <1>1, <1>2, <1>9, <1>12, <2>1, <2>2 DEF MapInv, TypeOK
<1>14. LengthBounded'
  BY <1>3, <1>11 DEF LengthBounded
<1>15. M[Len(M)] = Len(original)
  <2>1. Len(B) \in 1 .. Len(B) /\ Len(m2o_2) + Len(B) = Len(M)
    BY <1>2, <1>3, <1>5, <1>10
  <2>2. M[Len(M)] = B[Len(B)]
    BY <1>10, <2>1
  <2>3. /\ Len(modified) + 1 - start \in 1 .. Len(modified) + 1 - start
        /\ start + (Len(modified) + 1 - start) = Len(m2o)
    BY <1>2, <1>3
  <2> QED BY <1>2, <1>5, <2>2, <2>3
<1>16. MappingWellFormed'
  <2>1. m2o'[1] = 0
    BY <1>11, <1>12
  <2>2. ASSUME NEW i \in 1 .. Len(M), NEW j \in 1 .. Len(M), i <= j PROVE m2o'[i] <= m2o'[j]
    <3>1. M[i] <= M[j] /\ 0 <= M[j]
      BY <1>8, <2>2 DEF Sorted, Between
    <3> QED BY <1>12, <2>2, <3>1
  <2>3. modified' # << >> => m2o'[Len(M)] = Len(original)
    <3> SUFFICES ASSUME modified' # << >> PROVE m2o'[Len(M)] = Len(original)
      OBVIOUS
    <3>1. Len(modified') \in Nat \ {0}
      BY <1>9, EmptySeq
    <3>2. Len(M) \in 1 .. Len(M) /\ Len(M) # 1
      BY <1>11, <3>1
    <3> QED BY <1>12, <1>15, <3>2
  <2> QED BY <1>1, <1>11, <1>12, <2>1, <2>2, <2>3 DEF MappingWellFormed
<1>17. ASSUME NEW b \in 0 .. Len(modified'), IsBoundary(modified', b)
       PROVE  IsBoundary(original, m2o'[b + 1])
  <2>0. Len(modified') \in Nat /\ b + 1 \in 1 .. Len(M)
    BY <1>2, <1>11
  <2>1. CASE b = 0
    <3>1. m2o'[b + 1] = 0
      BY <1>12, <2>0, <2>1
    <3>2. original = << >> \/ original[1] # Cont
      BY DEF MapInv
    <3> QED BY <1>2, <1>3, <3>1, <3>2, EmptySeq DEF IsBoundary
  <2>2. CASE b # 0 /\ b = Len(modified')
    <3>1. m2o'[b + 1] = M[Len(M)]
      BY <1>11, <1>12, <2>0, <2>2
    <3> QED BY <1>15, <3>1 DEF IsBoundary
  <2>3. CASE b # 0 /\ b < Len(modified')
    <3>1. modified'[b + 1] # Cont /\ m2o'[b + 1] = M[b + 1]
      BY <1>12, <1>17, <2>0, <2>3 DEF IsBoundary
    <3>2. CASE b + 1 <= Len(modified_2)
      <4>1. b + 1 \in 1 .. Len(modified_2)
        BY <2>0, <3>2
      <4>2. modified'[b + 1] = modified_2[b + 1] /\ M[b + 1] = m2o_2[b + 1]
        BY <1>3, <1>9, <1>10, <4>1
      <4> QED BY <1>2, <1>3, <3>1, <4>1, <4>2 DEF ScratchInv
    <3>3. CASE Len(modified_2) < b + 1
      <4> DEFINE j == b + 1 - Len(modified_2)
      <4>1. /\ j \in 1 .. Len(A) /\ j \in 1 .. Len(B) /\ Len(modified_2) + j = b + 1
            /\ start + j - 1 \in 0 .. Len(modified) /\ start + j - 1 < Len(modified)
            /\ (start + j - 1) + 1 = start + j
        <5>1. /\ start \in Nat /\ Len(modified) \in Nat /\ start <= Len(modified)
              /\ Len(modified_2) \in Nat /\ b \in Nat
              /\ b < Len(modified_2) + (Len(modified) - start)
              /\ Len(A) = Len(modified) - start /\ Len(B) = Len(modified) + 1 - start
          BY <1>2, <1>3, <1>4, <1>5, <1>9, <2>0, <2>3
        <5> QED BY <5>1, <3>3
      <4> HIDE DEF j
      <4>2. modified'[b + 1] = modified[start + j]
        <5>1. modified'[Len(modified_2) + j] = A[j]
          BY <1>9, <4>1
        <5>2. A[j] = modified[start + j]
          BY <1>4, <4>1
        <5> QED BY <4>1, <5>1, <5>2
      <4>5. M[b + 1] = m2o[start + j]
        <5>1. M[Len(m2o_2) + j] = B[j]
          BY <1>10, <4>1
        <5>2. B[j] = m2o[start + j]
          BY <1>5, <4>1
        <5> QED BY <1>3, <4>1, <5>1, <5>2
      <4>3. IsBoundary(modified, start + j - 1)
        BY <3>1, <4>1, <4>2 DEF IsBoundary
      <4>4. IsBoundary(original, m2o[(start + j - 1) + 1])
        BY <1>2, <4>1, <4>3
      <4> QED BY <3>1, <4>1, <4>4, <4>5
    <3> QED BY <1>3, <2>0, <3>2, <3>3
  <2> QED BY <2>0, <2>1, <2>2, <2>3
<1>18. BoundariesMapToBoundaries'
  BY <1>1, <1>17 DEF BoundariesMapToBoundaries, IsBoundary
<1>19. EditsOrdered'
  BY <1>1, EmptySeq DEF EditsOrdered
<1> QED BY <1>1, <1>13, <1>14, <1>16, <1>18, <1>19 DEF MapInv
-----------------------------------------------------------------------------
(* The byte -> character table of the original holds character indices and *)
(* the hole value.                                                         *)
LEMMA OrigByteToCharType ==
  ASSUME NEW text \in Seq(Byte)
  PROVE  OrigByteToChar(text) \in Seq(Nat \cup {NoChar})
<1>1. Len(text) \in Nat
  BY LenProperties
<1>2. ASSUME NEW b \in Nat PROVE CharsBefore(text, b) \in Nat
  <2>1. IsFiniteSet(0 .. Len(text) - 1)
    BY <1>1, FS_Interval
  <2>2. {s \in CharStarts(text) : s < b} \subseteq 0 .. Len(text) - 1
    BY DEF CharStarts
  <2>3. IsFiniteSet({s \in CharStarts(text) : s < b})
    BY <2>1, <2>2, FS_Subset
  <2> QED BY <2>3, FS_CardinalityType DEF CharsBefore
<1>3. ASSUME NEW i \in 1 .. Len(text) + 1
      PROVE  (IF i > Len(text) THEN (IF text = << >> THEN 1 ELSE CharsBefore(text, Len(text)))
              ELSE IF text[i] # Cont THEN CharsBefore(text, i - 1)
              ELSE NoChar) \in Nat \cup {NoChar}
  <2>1. i - 1 \in Nat
    BY <1>1
  <2> QED BY <1>1, <1>2, <2>1
<1> DEFINE n == Len(text) + 1
<1>4. n \in Nat /\ OrigByteToChar(text) \in [1 .. n -> Nat \cup {NoChar}]
  BY <1>1, <1>3 DEF OrigByteToChar
<1> HIDE DEF n
<1> QED BY <1>4, IsASeq

LEMMA BuildMapInv == ASSUME MapInv, Build PROVE MapInv'
<1>1. /\ UNCHANGED <<original, modified, m2o, modified_2, replaces, start, curLen, phase, rounds>>
      /\ state' = "RO" /\ result' = "ok" /\ phase = "idle" /\ state = "RW"
      /\ m2o_2' = OrigByteToChar(original) /\ replaces = << >>
  BY DEF Build, MapInv
<1>2. m2o_2' \in Seq(Nat \cup {NoChar})
  <2>1. original \in Seq(Byte)
    BY DEF MapInv, TypeOK
  <2> QED BY <1>1, <2>1, OrigByteToCharType
<1>3. TypeOK'
  BY <1>1, <1>2 DEF MapInv, TypeOK
<1>4. MappingWellFormed' /\ BoundariesMapToBoundaries' /\ LengthBounded'
  BY <1>1 DEF MapInv, MappingWellFormed, BoundariesMapToBoundaries, LengthBounded, IsBoundary
<1>5. EditsOrdered'
  BY <1>1 DEF MapInv, EditsOrdered, IsBoundary
<1> QED BY <1>1, <1>3, <1>4, <1>5 DEF MapInv

(* Every step of the buffer preserves the invariant.                       *)
LEMMA NextMapInv == MapInv /\ [Next]_vars => MapInv'
<1> SUFFICES ASSUME MapInv, [Next]_vars PROVE MapInv'
  OBVIOUS
<1>1. ASSUME NEW text \in Texts, Reset(text) PROVE MapInv'
  BY <1>1, ResetMapInv
<1>2. CASE StartBuildTooLong
  BY <1>2, EditorMapInv
<1>3. CASE StartBuild
  BY <1>3, StartBuildMapInv
<1>4. CASE RefreshChars
  BY <1>4, StutterMapInv DEF RefreshChars
<1>5. CASE OpenEditor
  BY <1>5, EditorMapInv
<1>6. ASSUME NEW from \in 0 .. Len(modified), NEW to \in 0 .. Len(modified),
             NEW with \in Replacements, RecordEdit(from, to, with)
      PROVE  MapInv'
  BY <1>6, RecordEditMapInv
<1>7. CASE Rollback \/ CommitNothing
  BY <1>7, EditorMapInv
<1>8. CASE BeginCommit
  BY <1>8, BeginCommitMapInv
<1>9. CASE ResolveEdit
  BY <1>9, ResolveEditMapInv
<1>10. CASE FinishCommit
  BY <1>10, FinishCommitMapInv
<1>11. CASE Build
  BY <1>11, BuildMapInv
<1>12. CASE UNCHANGED vars
  BY <1>12, StutterMapInv DEF vars
<1> QED
  BY <1>1, <1>2, <1>3, <1>4, <1>5, <1>6, <1>7, <1>8, <1>9, <1>10, <1>11, <1>12 DEF Next

(* MapInv holds in every reachable state.                                  *)
THEOREM MapInvHolds == Spec => []MapInv
<1>1. Init => MapInv
  BY InitMapInv
<1>2. MapInv /\ [Next]_vars => MapInv'
  BY NextMapInv
<1> QED BY <1>1, <1>2, PTL DEF Spec

(* Every variable of the buffer keeps its type.                            *)
THEOREM TypeCorrect == Spec => []TypeOK
<1>1. MapInv => TypeOK
  BY DEF MapInv
<1> QED BY <1>1, MapInvHolds, PTL

(* Both halves of what the mapping promises, for any number of commits.    *)
THEOREM MappingIsCorrect == Spec => []MappingCorrect
<1>1. MapInv => MappingCorrect
  BY DEF MapInv, MappingCorrect
<1> QED BY <1>1, MapInvHolds, PTL

(* The limit is kept and is checked against the real length.               *)
THEOREM LengthIsCorrect == Spec => []LengthCorrect
<1>1. MapInv => LengthCorrect
  BY DEF MapInv, ScratchInv, RunningLengthIsExact, LengthCorrect
<1> QED BY <1>1, MapInvHolds, PTL
-----------------------------------------------------------------------------
(* Every nonempty set of numbers has a least element, and a greatest one   *)
(* if it is bounded.                                                       *)
LEMMA LeastNumber ==
  ASSUME NEW T, T \subseteq Nat, T # {}
  PROVE  \E x \in T : \A y \in T : x <= y
<1> DEFINE Less == {pair \in Nat \X Nat : pair[1] < pair[2]}
<1>1. IsWellFoundedOn(Less, Nat)
  BY NatLessThanWellFounded DEF OpToRel
<1>2. \A x, y \in Nat : x < y => <<x, y>> \in Less
  OBVIOUS
<1> HIDE DEF Less
<1>3. PICK x \in T : \A y \in T : <<y, x>> \notin Less
  BY <1>1, WFMin
<1>4. ASSUME NEW y \in T PROVE x <= y
  <2>1. x \in Nat /\ y \in Nat /\ ~(y < x)
    BY <1>2, <1>3
  <2> QED BY <2>1
<1> QED BY <1>4

LEMMA GreatestNumber ==
  ASSUME NEW n \in Nat, NEW T, T \subseteq 0 .. n, T # {}
  PROVE  \E x \in T : \A y \in T : y <= x
<1> DEFINE Gaps == {n - y : y \in T}
<1>1. Gaps \subseteq Nat /\ Gaps # {}
  <2>1. \A y \in T : n - y \in Nat
    OBVIOUS
  <2>2. PICK y \in T : TRUE
    OBVIOUS
  <2>3. n - y \in Gaps
    OBVIOUS
  <2> QED BY <2>1, <2>3
<1>2. PICK g \in Gaps : \A h \in Gaps : g <= h
  <2> HIDE DEF Gaps
  <2> QED BY <1>1, LeastNumber
<1>3. PICK x \in T : g = n - x
  BY <1>2
<1>4. ASSUME NEW y \in T PROVE y <= x
  <2>1. n - x <= n - y /\ x \in 0 .. n /\ y \in 0 .. n
    BY <1>2, <1>3
  <2> QED BY <2>1
<1> QED BY <1>4

(* The places of the elements of a finite set of numbers are the numbers   *)
(* from 0 on, one each, in their order.                                    *)
LEMMA PlacesAreTaken ==
  ASSUME NEW S, S \subseteq Nat, IsFiniteSet(S)
  PROVE  /\ \A b \in Nat : Cardinality({s \in S : s < b}) \in Nat
         /\ \A b, c \in S :
              b < c => Cardinality({s \in S : s < b}) < Cardinality({s \in S : s < c})
         /\ \A k \in 1 .. Cardinality(S) :
              \E b \in S : Cardinality({s \in S : s < b}) = k - 1
         /\ \A b \in S : Cardinality({s \in S : s < b}) < Cardinality(S)
<1> DEFINE Below(b) == {s \in S : s < b}
           size == Cardinality(S)
           place == [b \in S |-> Cardinality(Below(b)) + 1]
<1>1. size \in Nat
  BY FS_CardinalityType
<1>2. ASSUME NEW b \in Nat PROVE IsFiniteSet(Below(b)) /\ Cardinality(Below(b)) \in Nat
  <2>1. Below(b) \in SUBSET S
    OBVIOUS
  <2>2. IsFiniteSet(Below(b))
    BY <2>1, FS_Subset
  <2> QED BY <2>2, FS_CardinalityType
<1>3. ASSUME NEW b \in S PROVE Cardinality(Below(b)) < size
  <2>1. Below(b) \in SUBSET S /\ Below(b) # S
    OBVIOUS
  <2>2. Cardinality(Below(b)) <= size /\ (size = Cardinality(Below(b)) => S = Below(b))
    BY <2>1, FS_Subset
  <2>3. Cardinality(Below(b)) \in Nat
    BY <1>2
  <2> HIDE DEF Below, size
  <2> QED BY <1>1, <2>1, <2>2, <2>3
<1>4. ASSUME NEW b \in S, NEW c \in S, b < c
      PROVE  Cardinality(Below(b)) < Cardinality(Below(c))
  <2>1. Below(b) \in SUBSET Below(c) /\ b \in Below(c) /\ b \notin Below(b)
    <3>1. b \in Nat /\ c \in Nat /\ ~(b < b)
      OBVIOUS
    <3>2. ASSUME NEW s \in S, s < b PROVE s < c
      <4>1. s \in Nat
        OBVIOUS
      <4> QED BY <1>4, <3>1, <3>2, <4>1
    <3> QED BY <1>4, <3>1, <3>2
  <2>2. /\ Cardinality(Below(b)) <= Cardinality(Below(c))
        /\ (Cardinality(Below(c)) = Cardinality(Below(b)) => Below(c) = Below(b))
    <3>1. IsFiniteSet(Below(c))
      BY <1>2
    <3> HIDE DEF Below
    <3> QED BY <2>1, <3>1, FS_Subset
  <2>3. Cardinality(Below(b)) \in Nat /\ Cardinality(Below(c)) \in Nat
    BY <1>2
  <2> HIDE DEF Below
  <2> QED BY <2>1, <2>2, <2>3
<1> HIDE DEF Below, size
<1>5. \A b \in S : place[b] \in 1 .. size
  <2> SUFFICES ASSUME NEW b \in S PROVE Cardinality(Below(b)) + 1 \in 1 .. size
    OBVIOUS
  <2>1. Cardinality(Below(b)) \in Nat /\ Cardinality(Below(b)) < size
    BY <1>2, <1>3
  <2> QED BY <1>1, <2>1
<1>6. \A b, c \in S : place[b] = place[c] => b = c
  <2> SUFFICES ASSUME NEW b \in S, NEW c \in S, place[b] = place[c] PROVE b = c
    OBVIOUS
  <2>1. /\ Cardinality(Below(b)) \in Nat /\ Cardinality(Below(c)) \in Nat
        /\ Cardinality(Below(b)) + 1 = Cardinality(Below(c)) + 1 /\ b \in Nat /\ c \in Nat
    BY <1>2
  <2>2. ~(b < c) /\ ~(c < b)
    BY <1>4, <2>1
  <2> QED BY <2>1, <2>2
<1>7. place \in Injection(S, 1 .. size)
  <2>1. place \in [S -> 1 .. size]
    BY <1>5
  <2> QED BY <1>6, <2>1, Fun_IsInj
<1>8. IsFiniteSet(1 .. size) /\ Cardinality(1 .. size) = size
  BY <1>1, FS_Interval
<1>9. \A k \in 1 .. size : \E b \in S : place[b] = k
  <2>1. place \in Surjection(S, 1 .. size)
    <3> HIDE DEF place
    <3> QED BY <1>7, <1>8, FS_Injection DEF size
  <2> HIDE DEF place
  <2> QED BY <2>1, Fun_SurjectionProperties
<1>10. ASSUME NEW k \in 1 .. size PROVE \E b \in S : Cardinality(Below(b)) = k - 1
  <2>1. PICK b \in S : Cardinality(Below(b)) + 1 = k
    BY <1>9
  <2>2. Cardinality(Below(b)) \in Nat
    BY <1>2
  <2> QED BY <2>1, <2>2
<1> QED BY <1>1, <1>2, <1>3, <1>4, <1>10 DEF Below, size
-----------------------------------------------------------------------------
LEMMA CharStartsFacts ==
  ASSUME NEW text \in Seq(Byte)
  PROVE  /\ CharStarts(text) \subseteq Nat /\ IsFiniteSet(CharStarts(text))
         /\ CharStarts(text) \subseteq 0 .. Len(text) - 1
         /\ NumChars(text) \in Nat /\ NumChars(text) <= Len(text) /\ Len(text) \in Nat
<1>1. Len(text) \in Nat
  BY LenProperties
<1>2. IsFiniteSet(0 .. Len(text) - 1) /\ Cardinality(0 .. Len(text) - 1) = Len(text)
  <2>1. IsFiniteSet(0 .. Len(text) - 1)
        /\ Cardinality(0 .. Len(text) - 1) = IF 0 > Len(text) - 1 THEN 0 ELSE Len(text) - 1 - 0 + 1
    BY <1>1, FS_Interval
  <2> QED BY <1>1, <2>1
<1>3. CharStarts(text) \in SUBSET (0 .. Len(text) - 1)
  BY DEF CharStarts
<1>4. IsFiniteSet(CharStarts(text)) /\ Cardinality(CharStarts(text)) <= Len(text)
  BY <1>2, <1>3, FS_Subset
<1>5. Cardinality(CharStarts(text)) \in Nat
  BY <1>4, FS_CardinalityType
<1> QED BY <1>1, <1>3, <1>4, <1>5 DEF NumChars

(* The members of a finite set of numbers in their order.                  *)
LEMMA AscendingFacts ==
  ASSUME NEW S, S \subseteq Nat, IsFiniteSet(S)
  PROVE  LET n == Cardinality(S)
             a == Ascending(S)
         IN  /\ n \in Nat /\ a \in Seq(S) /\ Len(a) = n /\ DOMAIN a = 1 .. n
             /\ \A k \in 1 .. n : a[k] \in S /\ Cardinality({s \in S : s < a[k]}) = k - 1
             /\ \A j, k \in 1 .. n : j < k => a[j] < a[k]
             /\ \A j, k \in 1 .. n : j <= k => a[j] <= a[k]
             /\ \A b \in S : \E k \in 1 .. n : a[k] = b
<1> DEFINE n == Cardinality(S)
           a == Ascending(S)
           Place(b) == Cardinality({s \in S : s < b})
<1>1. /\ \A b \in Nat : Place(b) \in Nat
      /\ \A b, c \in S : b < c => Place(b) < Place(c)
      /\ \A k \in 1 .. n : \E b \in S : Place(b) = k - 1
      /\ \A b \in S : Place(b) < n
  BY PlacesAreTaken
<1>2. n \in Nat
  BY FS_CardinalityType
<1>3. a = [k \in 1 .. n |-> CHOOSE b \in S : Place(b) = k - 1]
  BY DEF Ascending
<1> HIDE DEF n, a, Place
<1>4. ASSUME NEW k \in 1 .. n PROVE a[k] \in S /\ Place(a[k]) = k - 1
  <2>1. a[k] = CHOOSE b \in S : Place(b) = k - 1
    BY <1>3
  <2> QED BY <1>1, <2>1
<1>5. ASSUME NEW b \in S, NEW c \in S, Place(b) = Place(c) PROVE b = c
  <2>1. b \in Nat /\ c \in Nat /\ Place(b) \in Nat /\ ~(b < c) /\ ~(c < b)
    BY <1>1, <1>5
  <2> QED BY <2>1
<1>6. ASSUME NEW j \in 1 .. n, NEW k \in 1 .. n, j < k PROVE a[j] < a[k]
  <2>1. a[j] \in S /\ a[k] \in S /\ a[j] \in Nat /\ a[k] \in Nat
    BY <1>4
  <2>2. Place(a[j]) = j - 1 /\ Place(a[k]) = k - 1
    BY <1>4
  <2>3. a[j] # a[k] /\ ~(a[k] < a[j])
    <3>1. j - 1 # k - 1 /\ ~(k - 1 < j - 1)
      BY <1>2, <1>6
    <3> QED BY <1>1, <2>1, <2>2, <3>1
  <2> QED BY <2>1, <2>3
<1>7. ASSUME NEW j \in 1 .. n, NEW k \in 1 .. n, j <= k PROVE a[j] <= a[k]
  <2>1. a[j] \in Nat /\ a[k] \in Nat
    BY <1>4
  <2>2. CASE j = k
    BY <2>1, <2>2
  <2>3. CASE j < k
    BY <1>6, <2>1, <2>3
  <2> QED BY <1>2, <1>7, <2>2, <2>3
<1>8. ASSUME NEW b \in S PROVE \E k \in 1 .. n : a[k] = b
  <2>1. Place(b) \in Nat /\ Place(b) < n
    BY <1>1
  <2>2. Place(b) + 1 \in 1 .. n /\ (Place(b) + 1) - 1 = Place(b)
    BY <1>2, <2>1
  <2>3. a[Place(b) + 1] = b
    BY <1>4, <1>5, <2>2
  <2> QED BY <2>2, <2>3
<1>9. a \in [1 .. n -> S]
  BY <1>3, <1>4
<1>10. a \in Seq(S) /\ Len(a) = n /\ DOMAIN a = 1 .. n
  BY <1>2, <1>9, IsASeq, LenProperties
<1> QED BY <1>2, <1>4, <1>6, <1>7, <1>8, <1>10 DEF n, a, Place

(* The offsets of the characters of a text are boundaries, in their order, *)
(* what is behind the last one is the end of the text, and the characters  *)
(* before a boundary are counted by its index.                             *)
LEMMA OffsetFacts ==
  ASSUME NEW text \in Seq(Byte)
  PROVE  LET n == NumChars(text)
             o == CharToByte(text)
         IN  /\ o \in Seq(Nat) /\ Len(o) = n + 1
             /\ o[n + 1] = Len(text)
             /\ \A k \in 1 .. n : o[k] \in CharStarts(text)
             /\ \A k \in 1 .. n : CharsBefore(text, o[k]) = k - 1
             /\ \A k \in 1 .. n + 1 : o[k] \in 0 .. Len(text) /\ IsBoundary(text, o[k])
             /\ \A j, k \in 1 .. n + 1 : j < k => o[j] < o[k]
             /\ \A j, k \in 1 .. n + 1 : j <= k => o[j] <= o[k]
             /\ \A b \in CharStarts(text) : \E k \in 1 .. n : o[k] = b
<1> DEFINE n == NumChars(text)
           o == CharToByte(text)
           S == CharStarts(text)
           a == Ascending(S)
<1>1. /\ S \subseteq Nat /\ IsFiniteSet(S) /\ S \subseteq 0 .. Len(text) - 1
      /\ n \in Nat /\ Len(text) \in Nat
  BY CharStartsFacts
<1>2. /\ n = Cardinality(S)
      /\ \A b : CharsBefore(text, b) = Cardinality({s \in S : s < b})
  BY DEF NumChars, CharsBefore
<1>3. o = Append(a, Len(text))
  BY DEF CharToByte
<1>4. \A b \in S : text[b + 1] # Cont
  BY DEF CharStarts
<1>5. /\ a \in Seq(S) /\ Len(a) = n
      /\ \A k \in 1 .. n : a[k] \in S /\ CharsBefore(text, a[k]) = k - 1
      /\ \A j, k \in 1 .. n : j < k => a[j] < a[k]
      /\ \A b \in S : \E k \in 1 .. n : a[k] = b
  <2> HIDE DEF S, n
  <2>1. /\ a \in Seq(S) /\ Len(a) = Cardinality(S)
        /\ \A k \in 1 .. Cardinality(S) :
             a[k] \in S /\ Cardinality({s \in S : s < a[k]}) = k - 1
        /\ \A j, k \in 1 .. Cardinality(S) : j < k => a[j] < a[k]
        /\ \A b \in S : \E k \in 1 .. Cardinality(S) : a[k] = b
    BY <1>1, AscendingFacts
  <2> HIDE DEF a
  <2> QED BY <1>2, <2>1, Zenon
<1> HIDE DEF n, o, S, a
<1>6. /\ o \in Seq(Nat) /\ Len(o) = n + 1 /\ o[n + 1] = Len(text)
      /\ \A k \in 1 .. n : o[k] = a[k]
  <2>1. a \in Seq(Nat)
    BY <1>1, <1>5, SeqMonotonic
  <2> QED BY <1>1, <1>3, <1>5, <2>1, AppendProperties
<1>7. ASSUME NEW k \in 1 .. n PROVE o[k] \in S /\ CharsBefore(text, o[k]) = k - 1
  BY <1>5, <1>6
<1>8. ASSUME NEW k \in 1 .. n + 1 PROVE o[k] \in 0 .. Len(text) /\ IsBoundary(text, o[k])
  <2>1. CASE k = n + 1
    BY <1>1, <1>6, <2>1 DEF IsBoundary
  <2>2. CASE k # n + 1
    <3>1. k \in 1 .. n
      BY <1>1, <2>2
    <3>2. o[k] \in S /\ o[k] \in 0 .. Len(text) - 1 /\ text[o[k] + 1] # Cont
      BY <1>1, <1>4, <1>7, <3>1
    <3> QED BY <1>1, <3>2 DEF IsBoundary
  <2> QED BY <2>1, <2>2
<1>9. ASSUME NEW j \in 1 .. n + 1, NEW k \in 1 .. n + 1, j < k PROVE o[j] < o[k]
  <2>1. j \in 1 .. n
    BY <1>1, <1>9
  <2>2. o[j] \in 0 .. Len(text) - 1
    BY <1>1, <1>7, <2>1
  <2>3. CASE k = n + 1
    BY <1>1, <1>6, <2>2, <2>3
  <2>4. CASE k # n + 1
    <3>1. k \in 1 .. n
      BY <1>1, <2>4
    <3> QED BY <1>5, <1>6, <1>9, <2>1, <3>1
  <2> QED BY <2>3, <2>4
<1>10. ASSUME NEW j \in 1 .. n + 1, NEW k \in 1 .. n + 1, j <= k PROVE o[j] <= o[k]
  <2>1. o[j] \in Nat /\ o[k] \in Nat
    BY <1>1, <1>8
  <2>2. CASE j = k
    BY <2>1, <2>2
  <2>3. CASE j < k
    BY <1>9, <2>1, <2>3
  <2> QED BY <1>1, <1>10, <2>2, <2>3
<1>11. \A b \in S : \E k \in 1 .. n : o[k] = b
  BY <1>5, <1>6
<1> QED BY <1>6, <1>7, <1>8, <1>9, <1>10, <1>11 DEF n, o, S
-----------------------------------------------------------------------------
(* The edits of a scan.                                                    *)
EditSet(text) == [from : Nat, to : 0 .. Len(text), with : Replacements]

IsEdit(text, e) ==
  /\ e \in EditSet(text) /\ e.from < e.to
  /\ IsBoundary(text, e.from) /\ IsBoundary(text, e.to)

InOrder(text, es) ==
  /\ es \in Seq(EditSet(text))
  /\ \A k \in 1 .. Len(es) : IsEdit(text, es[k])
  /\ \A j, k \in 1 .. Len(es) : j < k => es[j].to <= es[k].from

(* What is found at a character is an edit of it and those behind it.      *)
Fits(text, found) ==
  \A i \in 1 .. NumChars(text) :
    found[i] # << >> =>
      LET e == found[i][1]
      IN e.next \in i + 1 .. NumChars(text) + 1 /\ e.resume = e.next
         /\ Encoded(e.with) \in Replacements

EditAt(text, found, i) ==
  [from |-> CharToByte(text)[i], to |-> CharToByte(text)[found[i][1].next],
   with |-> Encoded(found[i][1].with)]

Scan(text, found) ==
  CHOOSE scan : scan = [i \in 1 .. NumChars(text) + 1 |->
    IF i > NumChars(text) THEN << >>
    ELSE IF found[i] = << >> THEN scan[i + 1]
    ELSE <<EditAt(text, found, i)>> \o scan[found[i][1].resume]]

LEMMA EditsByScan ==
  ASSUME NEW text, NEW found
  PROVE  EditsOf(text, found) = Scan(text, found)[1]
BY Zenon DEF EditsOf, Scan, EditAt

LEMMA ScanExists ==
  ASSUME NEW text \in Seq(Byte), NEW found, Fits(text, found)
  PROVE  Scan(text, found) = [i \in 1 .. NumChars(text) + 1 |->
           IF i > NumChars(text) THEN << >>
           ELSE IF found[i] = << >> THEN Scan(text, found)[i + 1]
           ELSE <<EditAt(text, found, i)>> \o Scan(text, found)[found[i][1].resume]]
<1> DEFINE n == NumChars(text)
           At(f, i) == IF i > n THEN << >>
                       ELSE IF found[i] = << >> THEN f[i + 1]
                       ELSE <<EditAt(text, found, i)>> \o f[found[i][1].resume]
           IsFrom(k, f) == f = [i \in k .. n + 1 |-> At(f, i)]
           Bad == {m \in 0 .. n : ~\E f : IsFrom(n + 1 - m, f)}
<1>1. n \in Nat
  BY CharStartsFacts
<1>2. ASSUME NEW i \in 1 .. n, found[i] # << >>
      PROVE  found[i][1].resume \in i + 1 .. n + 1
  BY <1>2 DEF Fits
<1> HIDE DEF n
<1>3. ASSUME NEW f, NEW g, NEW i \in 1 .. n + 1, \A j \in i + 1 .. n + 1 : f[j] = g[j]
      PROVE  At(f, i) = At(g, i)
  <2>1. CASE i > n
    BY <2>1
  <2>2. CASE i <= n
    <3>1. i \in 1 .. n /\ i + 1 \in i + 1 .. n + 1
      BY <1>1, <2>2
    <3>2. f[i + 1] = g[i + 1]
      BY <1>3, <3>1
    <3>3. found[i] # << >> => f[found[i][1].resume] = g[found[i][1].resume]
      BY <1>2, <1>3, <3>1
    <3> QED BY <3>2, <3>3
  <2> QED BY <1>1, <2>1, <2>2
<1> HIDE DEF At
<1>4. ASSUME Bad # {} PROVE FALSE
  <2>1. Bad \subseteq Nat /\ \A m \in Bad : m \in 0 .. n /\ ~\E f : IsFrom(n + 1 - m, f)
    BY <1>1
  <2>2. \A m \in 0 .. n : m \notin Bad => \E f : IsFrom(n + 1 - m, f)
    OBVIOUS
  <2> HIDE DEF Bad, IsFrom
  <2>3. PICK m \in Bad : \A j \in Bad : m <= j
    BY <1>4, <2>1, LeastNumber
  <2>4. m \in 0 .. n
    BY <2>1, <2>3
  <2>5. CASE m = 0
    <3> DEFINE f == [i \in n + 1 .. n + 1 |-> At(<< >>, i)]
    <3>1. \A i \in n + 1 .. n + 1 : At(<< >>, i) = At(f, i)
      BY <1>1 DEF At
    <3> HIDE DEF f
    <3>2. f = [i \in n + 1 .. n + 1 |-> At(f, i)]
      BY <3>1 DEF f
    <3>3. IsFrom(n + 1 - 0, f)
      BY <1>1, <3>2 DEF IsFrom
    <3> QED BY <2>1, <2>3, <2>5, <3>3
  <2>6. CASE m # 0
    <3>1. m - 1 \in 0 .. n /\ m - 1 \notin Bad
      BY <1>1, <2>1, <2>3, <2>4, <2>6
    <3> DEFINE k == n + 1 - m
    <3>2. k \in 1 .. n /\ n + 1 - (m - 1) = k + 1
      BY <1>1, <2>4, <2>6
    <3>3. PICK f : IsFrom(k + 1, f)
      BY <2>2, <3>1, <3>2
    <3> HIDE DEF k
    <3> DEFINE g == [i \in k .. n + 1 |-> IF i = k THEN At(f, k) ELSE f[i]]
    <3>4. ASSUME NEW j \in k + 1 .. n + 1 PROVE g[j] = f[j] /\ f[j] = At(f, j)
      <4>1. f = [i \in k + 1 .. n + 1 |-> At(f, i)]
        BY <3>3, Zenon DEF IsFrom
      <4>2. j \in k .. n + 1 /\ j # k
        BY <1>1, <3>2
      <4>3. g[j] = f[j]
        BY <4>2
      <4>4. f[j] = At(f, j)
        BY <4>1, Zenon
      <4> QED BY <4>3, <4>4
    <3>5. g[k] = At(f, k)
      BY <1>1, <3>2
    <3>6. g = [i \in k .. n + 1 |-> g[i]]
      OBVIOUS
    <3> HIDE DEF g
    <3>7. ASSUME NEW i \in k .. n + 1 PROVE g[i] = At(g, i)
      <4>1. i \in 1 .. n + 1 /\ \A j \in i + 1 .. n + 1 : j \in k + 1 .. n + 1
        BY <1>1, <3>2
      <4>2. \A j \in i + 1 .. n + 1 : f[j] = g[j]
        BY <3>4, <4>1
      <4>3. At(f, i) = At(g, i)
        BY <1>3, <4>1, <4>2
      <4>4. i = k \/ i \in k + 1 .. n + 1
        BY <1>1, <3>2
      <4> QED BY <3>4, <3>5, <4>3, <4>4
    <3>8. IsFrom(k, g)
      BY <3>6, <3>7 DEF IsFrom
    <3>9. IsFrom(n + 1 - m, g)
      BY <3>8 DEF k
    <3> QED BY <2>1, <2>3, <3>9
  <2> QED BY <2>5, <2>6
<1>5. n \in 0 .. n /\ n \notin Bad
  <2> HIDE DEF Bad
  <2> QED BY <1>1, <1>4
<1>6. PICK f : IsFrom(n + 1 - n, f)
  BY <1>5
<1>7. n + 1 - n = 1
  BY <1>1
<1>8. f = [i \in 1 .. n + 1 |-> At(f, i)]
  BY <1>6, <1>7
<1> QED BY <1>8 DEF Scan, At, n

(* One more edit before those of a scan.                                   *)
LEMMA EditBefore ==
  ASSUME NEW text \in Seq(Byte), NEW e, NEW es, IsEdit(text, e), InOrder(text, es),
         \A k \in 1 .. Len(es) : e.to <= es[k].from
  PROVE  /\ InOrder(text, <<e>> \o es) /\ Len(<<e>> \o es) = Len(es) + 1
         /\ Len(es) \in Nat
         /\ \A k \in 1 .. Len(<<e>> \o es) :
              (<<e>> \o es)[k] = e \/ \E j \in 1 .. Len(es) : (<<e>> \o es)[k] = es[j]
<1> DEFINE all == <<e>> \o es
           Edits == EditSet(text)
<1>1. e \in Edits /\ es \in Seq(Edits) /\ <<e>> \in Seq(Edits) /\ Len(<<e>>) = 1
  BY DEF IsEdit, InOrder
<1>2. /\ all \in Seq(Edits) /\ Len(all) = 1 + Len(es) /\ Len(es) \in Nat
      /\ \A i \in 1 .. Len(<<e>>) : all[i] = <<e>>[i]
      /\ \A i \in 1 .. Len(es) : all[1 + i] = es[i]
  <2> HIDE DEF Edits
  <2> QED BY <1>1, ConcatElements
<1>3. all[1] = e
  BY <1>1, <1>2
<1> HIDE DEF all, Edits
<1>4. ASSUME NEW k \in 1 .. Len(all)
      PROVE  k = 1 \/ (k - 1 \in 1 .. Len(es) /\ all[k] = es[k - 1])
  <2>1. CASE k # 1
    <3>1. k - 1 \in 1 .. Len(es) /\ 1 + (k - 1) = k
      BY <1>2, <2>1
    <3>2. all[1 + (k - 1)] = es[k - 1]
      BY <1>2, <3>1
    <3> QED BY <3>1, <3>2
  <2> QED BY <2>1
<1>5. ASSUME NEW k \in 1 .. Len(all) PROVE IsEdit(text, all[k])
  BY <1>3, <1>4, Zenon DEF InOrder
<1>6. ASSUME NEW j \in 1 .. Len(all), NEW k \in 1 .. Len(all), j < k
      PROVE  all[j].to <= all[k].from
  <2>1. k # 1
    BY <1>2, <1>6
  <2>2. k - 1 \in 1 .. Len(es) /\ all[k] = es[k - 1]
    BY <1>4, <2>1
  <2>3. CASE j = 1
    BY <1>3, <2>2, <2>3
  <2>4. CASE j # 1
    <3>1. j - 1 \in 1 .. Len(es) /\ all[j] = es[j - 1] /\ j - 1 < k - 1
      BY <1>2, <1>4, <1>6, <2>4
    <3> QED BY <2>2, <3>1 DEF InOrder
  <2> QED BY <2>3, <2>4
<1>7. InOrder(text, all)
  BY <1>2, <1>5, <1>6 DEF InOrder, Edits
<1>8. Len(all) = Len(es) + 1
  BY <1>2
<1> QED BY <1>2, <1>3, <1>4, <1>7, <1>8 DEF all

(* What a plugin finds that fits the characters becomes edits in the order *)
(* of the text, apart from each other and cut at characters.               *)
LEMMA ScanInOrder ==
  ASSUME NEW text \in Seq(Byte), NEW found, Fits(text, found)
  PROVE  InOrder(text, EditsOf(text, found)) /\ Len(EditsOf(text, found)) <= Len(text)
<1> DEFINE n == NumChars(text)
           o == CharToByte(text)
           scan == Scan(text, found)
           Good(i) == /\ InOrder(text, scan[i]) /\ Len(scan[i]) <= n + 1 - i
                      /\ \A k \in 1 .. Len(scan[i]) : o[i] <= scan[i][k].from
           Bad == {m \in 0 .. n : ~Good(n + 1 - m)}
<1>1. n \in Nat /\ n <= Len(text) /\ Len(text) \in Nat
  BY CharStartsFacts
<1>2. /\ \A k \in 1 .. n + 1 : o[k] \in 0 .. Len(text) /\ IsBoundary(text, o[k])
      /\ \A j, k \in 1 .. n + 1 : j < k => o[j] < o[k]
      /\ \A j, k \in 1 .. n + 1 : j <= k => o[j] <= o[k]
  BY OffsetFacts
<1>3. \A i \in 1 .. n + 1 :
        scan[i] = IF i > n THEN << >>
                  ELSE IF found[i] = << >> THEN scan[i + 1]
                  ELSE <<EditAt(text, found, i)>> \o scan[found[i][1].resume]
  <2> DEFINE At(i) == IF i > n THEN << >>
                      ELSE IF found[i] = << >> THEN scan[i + 1]
                      ELSE <<EditAt(text, found, i)>> \o scan[found[i][1].resume]
  <2>1. scan = [i \in 1 .. n + 1 |-> At(i)]
    BY ScanExists
  <2> HIDE DEF scan, At
  <2>2. \A i \in 1 .. n + 1 : scan[i] = At(i)
    BY <2>1
  <2> QED BY <2>2 DEF At
<1>4. \A i \in 1 .. n : found[i] # << >> =>
        /\ found[i][1].next \in i + 1 .. n + 1 /\ found[i][1].resume = found[i][1].next
        /\ Encoded(found[i][1].with) \in Replacements
        /\ EditAt(text, found, i) = [from |-> o[i], to |-> o[found[i][1].next],
                                     with |-> Encoded(found[i][1].with)]
  BY DEF Fits, EditAt
<1> HIDE DEF n, o, scan
<1>5. ASSUME NEW i \in 1 .. n + 1, \A j \in i + 1 .. n + 1 : Good(j) PROVE Good(i)
  <2>1. CASE i > n
    <3>1. scan[i] = << >>
      BY <1>3, <2>1
    <3>2. << >> \in Seq(EditSet(text)) /\ Len(<< >>) = 0
      BY EmptySeq
    <3> QED BY <1>1, <3>1, <3>2 DEF InOrder
  <2>2. CASE i <= n /\ found[i] = << >>
    <3>1. i + 1 \in i + 1 .. n + 1 /\ i + 1 \in 1 .. n + 1 /\ ~(i > n) /\ i < i + 1
      BY <1>1, <2>2
    <3>2. scan[i] = scan[i + 1]
      BY <1>3, <2>2, <3>1
    <3>3. Good(i + 1)
      BY <1>5, <3>1
    <3>4. Len(scan[i]) <= n + 1 - i
      <4>1. Len(scan[i]) \in Nat
        <5>1. scan[i] \in Seq(EditSet(text))
          BY <3>2, <3>3 DEF InOrder
        <5> QED BY <5>1, LenProperties
      <4> QED BY <1>1, <3>2, <3>3, <4>1
    <3>5. ASSUME NEW k \in 1 .. Len(scan[i]) PROVE o[i] <= scan[i][k].from
      <4>1. o[i + 1] <= scan[i][k].from /\ o[i] < o[i + 1]
        BY <1>2, <3>1, <3>2, <3>3
      <4>2. IsEdit(text, scan[i][k])
        BY <3>2, <3>3 DEF InOrder
      <4>3. scan[i][k].from \in Nat /\ o[i] \in Nat /\ o[i + 1] \in Nat
        <5>1. scan[i][k].from \in Nat
          BY <4>2 DEF IsEdit, EditSet
        <5> QED BY <1>1, <1>2, <3>1, <5>1
      <4> QED BY <4>1, <4>3
    <3> QED BY <3>2, <3>3, <3>4, <3>5
  <2>3. CASE i <= n /\ found[i] # << >>
    <3> DEFINE next == found[i][1].next
               e == EditAt(text, found, i)
               es == scan[next]
    <3>1. i \in 1 .. n /\ i \in 1 .. n + 1 /\ ~(i > n)
      BY <1>1, <2>3
    <3>2. /\ next \in i + 1 .. n + 1 /\ found[i][1].resume = next
          /\ e = [from |-> o[i], to |-> o[next], with |-> Encoded(found[i][1].with)]
          /\ Encoded(found[i][1].with) \in Replacements
      BY <1>4, <2>3, <3>1
    <3>3. scan[i] = <<e>> \o es
      BY <1>3, <2>3, <3>1, <3>2
    <3> HIDE DEF next, e, es
    <3>4. next \in 1 .. n + 1 /\ i < next
      BY <1>1, <3>1, <3>2
    <3>5. /\ o[i] \in 0 .. Len(text) /\ o[next] \in 0 .. Len(text) /\ o[i] < o[next]
          /\ IsBoundary(text, o[i]) /\ IsBoundary(text, o[next])
      BY <1>2, <3>1, <3>4
    <3>6. e.from = o[i] /\ e.to = o[next] /\ IsEdit(text, e)
      BY <1>1, <3>2, <3>5 DEF IsEdit, EditSet
    <3>7. /\ InOrder(text, es) /\ Len(es) <= n + 1 - next
          /\ \A k \in 1 .. Len(es) : e.to <= es[k].from
      BY <1>5, <3>2, <3>6 DEF es
    <3>8. /\ InOrder(text, scan[i]) /\ Len(scan[i]) = Len(es) + 1 /\ Len(es) \in Nat
          /\ \A k \in 1 .. Len(scan[i]) :
               scan[i][k] = e \/ \E j \in 1 .. Len(es) : scan[i][k] = es[j]
      BY <3>3, <3>6, <3>7, EditBefore
    <3>9. ASSUME NEW k \in 1 .. Len(scan[i]) PROVE o[i] <= scan[i][k].from
      <4>1. CASE scan[i][k] = e
        BY <1>1, <3>5, <3>6, <4>1
      <4>2. ASSUME NEW j \in 1 .. Len(es), scan[i][k] = es[j] PROVE o[i] <= scan[i][k].from
        <5>1. o[next] <= es[j].from /\ es[j].from \in Nat
          <6>1. IsEdit(text, es[j])
            BY <3>7 DEF InOrder
          <6>2. es[j].from \in Nat
            BY <6>1 DEF IsEdit, EditSet
          <6> QED BY <3>6, <3>7, <6>2
        <5> QED BY <1>1, <3>5, <4>2, <5>1
      <4> QED BY <3>8, <4>1, <4>2
    <3>10. Len(scan[i]) <= n + 1 - i
      BY <1>1, <3>4, <3>7, <3>8
    <3> QED BY <3>8, <3>9, <3>10
  <2> QED BY <1>1, <2>1, <2>2, <2>3
<1> HIDE DEF Good
<1>6. ASSUME Bad # {} PROVE FALSE
  <2>1. Bad \subseteq Nat /\ Bad \subseteq 0 .. n /\ \A m \in Bad : ~Good(n + 1 - m)
    BY <1>1
  <2>2. \A m \in 0 .. n : m \notin Bad => Good(n + 1 - m)
    OBVIOUS
  <2> HIDE DEF Bad
  <2>3. PICK m \in Bad : \A j \in Bad : m <= j
    BY <1>6, <2>1, LeastNumber
  <2>4. m \in 0 .. n /\ n + 1 - m \in 1 .. n + 1
    <3>1. m \in 0 .. n
      BY <2>1
    <3> QED BY <1>1, <3>1
  <2>5. ASSUME NEW j \in (n + 1 - m) + 1 .. n + 1 PROVE Good(j)
    <3>1. n + 1 - j \in 0 .. n /\ ~(m <= n + 1 - j) /\ n + 1 - (n + 1 - j) = j
      BY <1>1, <2>4
    <3>2. Good(n + 1 - (n + 1 - j))
      BY <2>2, <2>3, <3>1
    <3> QED BY <3>1, <3>2
  <2>6. Good(n + 1 - m)
    BY <1>5, <2>4, <2>5
  <2> QED BY <2>1, <2>6
<1>7. Good(1)
  <2>1. n \in 0 .. n /\ n \notin Bad /\ n + 1 - n = 1
    <3> HIDE DEF Bad
    <3> QED BY <1>1, <1>6
  <2>2. Good(n + 1 - n)
    BY <2>1
  <2> QED BY <2>1, <2>2
<1>8. EditsOf(text, found) = scan[1]
  BY EditsByScan DEF scan
<1>9. Len(scan[1]) <= n
  BY <1>1, <1>7 DEF Good
<1>10. Len(scan[1]) \in Nat
  <2>1. scan[1] \in Seq(EditSet(text))
    BY <1>7 DEF Good, InOrder
  <2> QED BY <2>1, LenProperties
<1> QED BY <1>1, <1>7, <1>8, <1>9, <1>10 DEF Good
-----------------------------------------------------------------------------
LEMMA CharsOfFacts ==
  ASSUME NEW text \in Seq(Byte)
  PROVE  /\ CharsOf(text) \in Seq(Chars) /\ Len(CharsOf(text)) = NumChars(text)
         /\ DOMAIN CharsOf(text) = 1 .. NumChars(text)
         /\ \A i \in 1 .. NumChars(text) : CharsOf(text)[i] \in Chars
<1> DEFINE n == NumChars(text)
           o == CharToByte(text)
           cs == [k \in 1 .. n |-> text[o[k] + 1]]
<1>1. n \in Nat /\ CharStarts(text) \subseteq 0 .. Len(text) - 1 /\ Len(text) \in Nat
  BY CharStartsFacts
<1>2. \A k \in 1 .. n : o[k] \in CharStarts(text)
  BY OffsetFacts
<1>3. CharsOf(text) = cs
  BY DEF CharsOf
<1> HIDE DEF n, o
<1>4. ASSUME NEW k \in 1 .. n PROVE text[o[k] + 1] \in Chars
  <2>1. o[k] \in 0 .. Len(text) - 1 /\ text[o[k] + 1] # Cont
    BY <1>1, <1>2 DEF CharStarts
  <2>2. o[k] + 1 \in 1 .. Len(text)
    BY <1>1, <2>1
  <2>3. text[o[k] + 1] \in Byte
    BY <2>2, ElementOfSeq
  <2> QED BY <2>1, <2>3 DEF Byte
<1>5. cs \in [1 .. n -> Chars]
  BY <1>4
<1>6. cs \in Seq(Chars) /\ Len(cs) = n /\ DOMAIN cs = 1 .. n
  <2> HIDE DEF cs
  <2> QED BY <1>1, <1>5, IsASeq, LenProperties
<1> QED BY <1>3, <1>4, <1>6 DEF n

(* A key found at a character ends at a later one, or behind the last.     *)
LEMMA KeysFit ==
  ASSUME NEW n \in Nat, NEW cs \in Seq(Chars), Len(cs) = n, NEW i \in 1 .. n,
         NEW key \in KeysAt(cs, i)
  PROVE  Len(key) \in 1 .. n + 1 - i /\ i + Len(key) \in i + 1 .. n + 1
         /\ Encoded(RewriteRules[key]) \in Replacements
<1>1. key \in DOMAIN RewriteRules /\ Len(key) <= Len(SubSeq(cs, i, Len(cs)))
  BY Zenon DEF KeysAt, IsPrefix
<1>2. key \in Seq(Chars) /\ key # << >>
  BY <1>1, PluginsAssumption
<1>3. Len(key) \in Nat /\ Len(key) # 0
  BY <1>2, EmptySeq, LenProperties
<1>4. Len(SubSeq(cs, i, Len(cs))) = n + 1 - i
  <2>1. \A k \in i .. n : cs[k] \in Chars
    BY ElementOfSeq
  <2>2. Len(SubSeq(cs, i, n)) = IF i <= n THEN n - i + 1 ELSE 0
    BY <2>1, SubSeqProperties, i \in Int, n \in Int
  <2> QED BY <2>2
<1>5. Encoded(RewriteRules[key]) \in Replacements
  BY <1>1, InsertionsAssumption
<1> QED BY <1>1, <1>3, <1>4, <1>5

LEMMA ScansFit ==
  ASSUME NEW text \in Seq(Byte)
  PROVE  LET cs == CharsOf(text)
         IN  /\ Fits(text, [i \in DOMAIN cs |-> FastEdit(cs, i)])
             /\ Fits(text, [i \in DOMAIN cs |-> SlowEdit(cs, i)])
             /\ Fits(text, [i \in DOMAIN cs |-> ProlongedEdit(cs, i)])
             /\ Fits(text, [i \in DOMAIN cs |-> YomiganaEdit(cs, i)])
<1> DEFINE n == NumChars(text)
           cs == CharsOf(text)
           Fit(i, found) ==
             found # << >> =>
               LET e == found[1]
               IN e.next \in i + 1 .. n + 1 /\ e.resume = e.next
                  /\ Encoded(e.with) \in Replacements
<1>1. n \in Nat /\ cs \in Seq(Chars) /\ Len(cs) = n /\ DOMAIN cs = 1 .. n
      /\ \A i \in 1 .. n : cs[i] \in Chars
  BY CharStartsFacts, CharsOfFacts
<1>2. \A found : (\A i \in 1 .. n : Fit(i, found[i])) => Fits(text, found)
  BY DEF Fits
<1> HIDE DEF n, cs
<1>3. ASSUME NEW i \in 1 .. n, NEW next, NEW with,
             next \in i + 1 .. n + 1, Encoded(with) \in Replacements
      PROVE  Fit(i, Edit(next, with))
  BY <1>3 DEF Edit
<1>4. ASSUME NEW i \in 1 .. n PROVE Fit(i, << >>)
  OBVIOUS
<1>5. ASSUME NEW i \in 1 .. n, NEW key \in KeysAt(cs, i)
      PROVE  Len(key) \in 0 .. n /\ i + Len(key) \in i + 1 .. n + 1
             /\ Encoded(RewriteRules[key]) \in Replacements
  <2>1. /\ Len(key) \in 1 .. n + 1 - i /\ i + Len(key) \in i + 1 .. n + 1
        /\ Encoded(RewriteRules[key]) \in Replacements
    BY <1>1, KeysFit
  <2> QED BY <1>1, <2>1
<1>6. ASSUME NEW i \in 1 .. n PROVE Fit(i, FastEdit(cs, i))
  <2>1. CASE KeysAt(cs, i) = {}
    BY <1>4, <2>1 DEF FastEdit
  <2>2. CASE KeysAt(cs, i) # {}
    <3> DEFINE Longest(k) == \A l \in KeysAt(cs, i) : Len(l) <= Len(k)
               Lens == {Len(k) : k \in KeysAt(cs, i)}
               key == CHOOSE k \in KeysAt(cs, i) : Longest(k)
    <3>1. Lens \subseteq 0 .. n /\ Lens # {}
      BY <1>5, <2>2
    <3>2. PICK len \in Lens : \A m \in Lens : m <= len
      <4> HIDE DEF Lens
      <4> QED BY <1>1, <3>1, GreatestNumber
    <3>3. \E k \in KeysAt(cs, i) : Longest(k)
      <4>1. PICK k \in KeysAt(cs, i) : len = Len(k)
        BY <3>2
      <4>2. \A l \in KeysAt(cs, i) : Len(l) \in Lens
        OBVIOUS
      <4> HIDE DEF Lens
      <4> QED BY <3>2, <4>1, <4>2
    <3>4. key \in KeysAt(cs, i)
      <4> HIDE DEF Longest
      <4> QED BY <3>3
    <3>5. FastEdit(cs, i) = Edit(i + Len(key), RewriteRules[key])
      BY <2>2, Zenon DEF FastEdit
    <3> HIDE DEF key
    <3> QED BY <1>3, <1>5, <3>4, <3>5
  <2> QED BY <2>1, <2>2
<1>7. ASSUME NEW i \in 1 .. n PROVE Fit(i, SlowEdit(cs, i))
  <2>1. CASE KeysAt(cs, i) = {}
    <3> DEFINE new == NormalizedChar(cs[i])
    <3>1. SlowEdit(cs, i) = IF new # << >> /\ new[1] # cs[i] THEN Edit(i + 1, new) ELSE << >>
      BY <2>1, Zenon DEF SlowEdit
    <3>2. new # << >> /\ new[1] # cs[i] => Encoded(new) \in Replacements
      BY <1>1, InsertionsAssumption
    <3>3. i + 1 \in i + 1 .. n + 1
      BY <1>1
    <3> HIDE DEF new
    <3> QED BY <1>3, <1>4, <3>1, <3>2, <3>3
  <2>2. CASE KeysAt(cs, i) # {}
    <3> DEFINE Shortest(k) == \A l \in KeysAt(cs, i) : Len(k) <= Len(l)
               Lens == {Len(k) : k \in KeysAt(cs, i)}
               key == CHOOSE k \in KeysAt(cs, i) : Shortest(k)
    <3>1. Lens \subseteq Nat /\ Lens # {}
      <4>1. \A k \in KeysAt(cs, i) : Len(k) \in Nat
        BY <1>1, <1>5
      <4> QED BY <2>2, <4>1
    <3>2. PICK len \in Lens : \A m \in Lens : len <= m
      <4> HIDE DEF Lens
      <4> QED BY <3>1, LeastNumber
    <3>3. \E k \in KeysAt(cs, i) : Shortest(k)
      <4>1. PICK k \in KeysAt(cs, i) : len = Len(k)
        BY <3>2
      <4>2. \A l \in KeysAt(cs, i) : Len(l) \in Lens
        OBVIOUS
      <4> HIDE DEF Lens
      <4> QED BY <3>2, <4>1, <4>2
    <3>4. key \in KeysAt(cs, i)
      <4> HIDE DEF Shortest
      <4> QED BY <3>3
    <3>5. SlowEdit(cs, i) = Edit(i + Len(key), RewriteRules[key])
      BY <2>2, Zenon DEF SlowEdit, MinOffset, Edit
    <3> HIDE DEF key
    <3> QED BY <1>3, <1>5, <3>4, <3>5
  <2> QED BY <2>1, <2>2
<1>8. ASSUME NEW i \in 1 .. n PROVE Fit(i, ProlongedEdit(cs, i))
  <2> DEFINE Marks(j) == \A k \in i .. j - 1 : cs[k] \in ProlongedSoundMarks
             IsEnd(j) == Marks(j) /\ (j <= Len(cs) => cs[j] \notin ProlongedSoundMarks)
             end == CHOOSE j \in i .. Len(cs) + 1 : IsEnd(j)
             Ends == {j \in i .. n + 1 : j = n + 1 \/ cs[j] \notin ProlongedSoundMarks}
  <2>1. Ends \subseteq Nat /\ n + 1 \in Ends /\ Ends \subseteq i .. n + 1
    BY <1>1
  <2>2. PICK j \in Ends : \A k \in Ends : j <= k
    <3> HIDE DEF Ends
    <3> QED BY <2>1, LeastNumber
  <2>3. Marks(j)
    <3> SUFFICES ASSUME NEW k \in i .. j - 1 PROVE cs[k] \in ProlongedSoundMarks
      OBVIOUS
    <3>1. k \in i .. n + 1 /\ k # n + 1 /\ ~(j <= k)
      BY <1>1, <2>1, <2>2
    <3> QED BY <2>2, <3>1
  <2>4. IsEnd(j)
    <3>1. j <= Len(cs) => cs[j] \notin ProlongedSoundMarks
      BY <1>1, <2>2
    <3> QED BY <2>3, <3>1
  <2>5. end \in i .. n + 1
    <3>1. j \in i .. Len(cs) + 1
      BY <1>1, <2>1, <2>2
    <3> HIDE DEF IsEnd
    <3> QED BY <1>1, <2>4, <3>1
  <2>6. ProlongedEdit(cs, i) = IF end - i >= 2 THEN Edit(end, <<ReplacementSymbol>>) ELSE << >>
    BY Zenon DEF ProlongedEdit
  <2>7. Encoded(<<ReplacementSymbol>>) \in Replacements
    BY InsertionsAssumption
  <2> HIDE DEF end
  <2>8. end - i >= 2 => end \in i + 1 .. n + 1
    BY <1>1, <2>5
  <2> QED BY <1>3, <1>4, <2>6, <2>7, <2>8
<1>9. ASSUME NEW i \in 1 .. n PROVE Fit(i, YomiganaEdit(cs, i))
  <2> DEFINE last == Min({Len(cs), i + MaxYomiganaLength + 1})
             IsEnd(j) == /\ i > 1 /\ Kanji(cs[i - 1])
                         /\ cs[i] \in LeftBrackets
                         /\ \A k \in i + 1 .. j - 1 : Reading(cs[k])
                         /\ cs[j] \in RightBrackets
             ends == {j \in i + 2 .. last : IsEnd(j)}
  <2>1. YomiganaEdit(cs, i) = IF ends = {} THEN << >> ELSE Edit(Max(ends) + 1, << >>)
    BY Zenon DEF YomiganaEdit
  <2>2. last \in Int /\ last <= n
    <3> DEFINE limit == i + MaxYomiganaLength + 1
    <3>1. limit \in Int /\ n \in Int /\ Len(cs) = n
      BY <1>1, PluginsAssumption
    <3>2. last = CHOOSE x \in {Len(cs), limit} : \A y \in {Len(cs), limit} : x =< y
      BY DEF Min
    <3> HIDE DEF limit, last
    <3>3. \E x \in {n, limit} : \A y \in {n, limit} : x =< y
      BY <3>1
    <3>4. last \in {n, limit} /\ \A y \in {n, limit} : last =< y
      BY <3>1, <3>2, <3>3
    <3> QED BY <3>1, <3>4
  <2> HIDE DEF last, IsEnd
  <2>3. ends \subseteq 0 .. n /\ ends \subseteq i + 2 .. n
    BY <1>1, <2>2
  <2> HIDE DEF ends
  <2>4. CASE ends # {}
    <3>1. PICK x \in ends : \A y \in ends : y <= x
      BY <1>1, <2>3, <2>4, GreatestNumber
    <3>2. \A y \in ends : x >= y
      BY <1>1, <2>3, <3>1
    <3>3. Max(ends) \in ends
      <4>1. \E w \in ends : \A y \in ends : w >= y
        BY <3>1, <3>2
      <4> QED BY <4>1, Zenon DEF Max
    <3>4. Max(ends) + 1 \in i + 1 .. n + 1
      <4>1. Max(ends) \in i + 2 .. n
        BY <2>3, <3>3, Zenon
      <4>2. \A m \in i + 2 .. n : m + 1 \in i + 1 .. n + 1
        BY <1>1
      <4> QED BY <4>1, <4>2, Zenon
    <3>5. Encoded(<< >>) \in Replacements
      BY InsertionsAssumption
    <3> QED BY <1>3, <2>1, <2>4, <3>4, <3>5
  <2> QED BY <1>4, <2>1, <2>4
<1>10. /\ \A i \in 1 .. n : [j \in DOMAIN cs |-> FastEdit(cs, j)][i] = FastEdit(cs, i)
       /\ \A i \in 1 .. n : [j \in DOMAIN cs |-> SlowEdit(cs, j)][i] = SlowEdit(cs, i)
       /\ \A i \in 1 .. n : [j \in DOMAIN cs |-> ProlongedEdit(cs, j)][i] = ProlongedEdit(cs, i)
       /\ \A i \in 1 .. n : [j \in DOMAIN cs |-> YomiganaEdit(cs, j)][i] = YomiganaEdit(cs, i)
  BY <1>1
<1> HIDE DEF Fit
<1>11. Fits(text, [j \in DOMAIN cs |-> FastEdit(cs, j)])
  BY <1>2, <1>6, <1>10
<1>12. Fits(text, [j \in DOMAIN cs |-> SlowEdit(cs, j)])
  BY <1>2, <1>7, <1>10
<1>13. Fits(text, [j \in DOMAIN cs |-> ProlongedEdit(cs, j)])
  BY <1>2, <1>8, <1>10
<1>14. Fits(text, [j \in DOMAIN cs |-> YomiganaEdit(cs, j)])
  BY <1>2, <1>9, <1>10
<1> QED BY <1>11, <1>12, <1>13, <1>14 DEF cs

(* Every bundled plugin plans its edits in the order of the text.          *)
LEMMA PlansAreInOrder ==
  ASSUME modified \in Seq(Byte), NEW plugin \in Plugins
  PROVE  InOrder(modified, PlannedBy(plugin)) /\ Len(PlannedBy(plugin)) <= Len(modified)
<1> DEFINE cs == CharsOf(modified)
           Scanned(found) == EditsOf(modified, found)
           Sound(es) == InOrder(modified, es) /\ Len(es) <= Len(modified)
<1>1. /\ Sound(EditsOf(modified, [i \in DOMAIN cs |-> FastEdit(cs, i)]))
      /\ Sound(EditsOf(modified, [i \in DOMAIN cs |-> SlowEdit(cs, i)]))
      /\ Sound(EditsOf(modified, [i \in DOMAIN cs |-> ProlongedEdit(cs, i)]))
      /\ Sound(EditsOf(modified, [i \in DOMAIN cs |-> YomiganaEdit(cs, i)]))
  BY ScansFit, ScanInOrder
<1>2. Sound(<< >>)
  <2>1. /\ << >> \in Seq(EditSet(modified)) /\ Len(<< >>) = 0 /\ Len(modified) \in Nat
    BY EmptySeq, LenProperties
  <2> QED BY <2>1 DEF InOrder
<1> HIDE DEF Sound
<1>3. Sound(DefaultEdits)
  BY <1>1, Zenon DEF DefaultEdits
<1>4. CASE plugin = "default"
  BY <1>3, <1>4 DEF PlannedBy, Sound
<1>5. CASE plugin = "prolonged"
  BY <1>1, <1>5 DEF PlannedBy, Sound
<1>6. CASE plugin = "yomigana"
  BY <1>1, <1>6 DEF PlannedBy, Sound
<1>7. CASE plugin = "foreign"
  BY <1>2, <1>7 DEF PlannedBy, Sound
<1> QED BY <1>4, <1>5, <1>6, <1>7 DEF Plugins
-----------------------------------------------------------------------------
(* What is planned is in order, lies behind what is recorded, and is no    *)
(* more than the characters that are left.                                 *)
PlansInv ==
  /\ MapInv
  /\ configured \in Seq(Plugins)
  /\ phase # "editing" \/ Foreign => planned = << >>
  /\ InOrder(modified, planned)
  /\ planned # << >> =>
       /\ Len(replaces) + Len(planned) <= Len(modified)
       /\ replaces # << >> => replaces[Len(replaces)].to <= planned[1].from

LEMMA PluginTypes ==
  ASSUME PlansInv
  PROVE  /\ modified \in Seq(Byte) /\ Len(modified) \in Nat /\ Len(modified) <= REALLY_MAX_LENGTH
         /\ Len(replaces) \in Nat /\ Len(planned) \in Nat /\ planned \in Seq(EditSet(modified))
         /\ rounds \in Nat /\ (phase = "idle" => replaces = << >>)
<1>1. /\ modified \in Seq(Byte) /\ rounds \in Nat
      /\ replaces \in Seq([from : Nat, to : 0 .. Len(modified), with : Seq(Byte)])
      /\ Len(modified) <= REALLY_MAX_LENGTH
      /\ phase = "idle" => replaces = << >>
  BY DEF PlansInv, MapInv, TypeOK, LengthBounded
<1>2. planned \in Seq(EditSet(modified))
  BY DEF PlansInv, InOrder
<1> QED BY <1>1, <1>2, LenProperties

(* Steps of the buffer while nothing is planned.                           *)
LEMMA NothingPlanned ==
  ASSUME PlansInv, [Next]_vars, planned = << >>, UNCHANGED <<configured, planned>>
  PROVE  PlansInv'
<1>1. MapInv'
  BY NextMapInv DEF PlansInv
<1>2. InOrder(modified', << >>)
  <2>1. << >> \in Seq(EditSet(modified')) /\ Len(<< >>) = 0
    BY EmptySeq
  <2> QED BY <2>1 DEF InOrder
<1> QED BY <1>1, <1>2 DEF PlansInv, InOrder, IsEdit, EditSet, IsBoundary

LEMMA StutterPlans == ASSUME PlansInv, UNCHANGED pluginVars PROVE PlansInv'
<1>1. MapInv'
  BY NextMapInv DEF PlansInv, pluginVars
<1> QED BY <1>1 DEF PlansInv, pluginVars, vars, mapping, InOrder, IsEdit, EditSet, IsBoundary,
                    Foreign

LEMMA RunPluginStep == ASSUME PlansInv, RunPlugin PROVE Next /\ PlansInv'
<1>1. /\ OpenEditor /\ planned' = PlannedBy(NextPlugin) /\ configured' = configured
      /\ rounds < Len(configured) /\ phase = "idle" /\ phase' = "editing"
      /\ rounds' = rounds + 1 /\ modified' = modified /\ replaces' = replaces
  BY DEF RunPlugin, Rewriting, OpenEditor
<1>2. Next /\ MapInv'
  <2>1. Next
    BY <1>1 DEF Next
  <2> QED BY <2>1, NextMapInv DEF PlansInv
<1>3. /\ modified \in Seq(Byte) /\ rounds \in Nat /\ replaces = << >>
      /\ Len(modified) \in Nat /\ configured \in Seq(Plugins)
  BY <1>1, PluginTypes DEF PlansInv
<1>4. NextPlugin \in Plugins
  <2>1. rounds + 1 \in 1 .. Len(configured)
    <3>1. Len(configured) \in Nat
      BY <1>3, LenProperties
    <3> QED BY <1>1, <1>3, <3>1
  <2> QED BY <1>3, <2>1, ElementOfSeq DEF NextPlugin
<1>5. InOrder(modified, planned') /\ Len(planned') <= Len(modified)
  BY <1>1, <1>3, <1>4, PlansAreInOrder
<1>6. Foreign' => planned' = << >>
  <2>1. Foreign' => NextPlugin = "foreign"
    BY <1>1 DEF Foreign, NextPlugin
  <2> QED BY <1>1, <2>1 DEF PlannedBy
<1>7. Len(replaces') + Len(planned') <= Len(modified)
  <2>1. Len(replaces') = 0
    BY <1>1, <1>3
  <2>2. Len(planned') \in Nat
    <3>1. planned' \in Seq(EditSet(modified))
      BY <1>5 DEF InOrder
    <3> QED BY <3>1, LenProperties
  <2> QED BY <1>3, <1>5, <2>1, <2>2
<1>8. InOrder(modified', planned')
  BY <1>1, <1>5
<1> QED BY <1>1, <1>2, <1>3, <1>6, <1>7, <1>8 DEF PlansInv

(* The next planned edit is one the editor of InputBuffer lets be recorded.*)
LEMMA ReplaceStep ==
  ASSUME PlansInv, Replace
  PROVE  Next /\ PlansInv'
<1> DEFINE e == planned[1]
           m == Len(planned)
           Edits == EditSet(modified)
<1>1. /\ phase = "editing" /\ planned # << >> /\ planned' = Tail(planned)
      /\ replaces' = Append(replaces, e) /\ configured' = configured /\ phase' = phase
      /\ modified' = modified /\ rounds' = rounds
      /\ UNCHANGED <<state, original, modified, m2o, modified_2, m2o_2, start, curLen,
                     phase, result, rounds, mod_chars, tables>>
  BY DEF Replace
<1>2. /\ modified \in Seq(Byte) /\ Len(modified) \in Nat /\ Len(modified) <= REALLY_MAX_LENGTH
      /\ Len(replaces) \in Nat /\ m \in Nat /\ planned \in Seq(Edits)
  BY PluginTypes
<1>3. /\ Len(replaces) + m <= Len(modified)
      /\ replaces # << >> => replaces[Len(replaces)].to <= e.from
      /\ \A k \in 1 .. m : IsEdit(modified, planned[k])
      /\ \A j, k \in 1 .. m : j < k => planned[j].to <= planned[k].from
  BY <1>1 DEF PlansInv, InOrder
<1>4. m # 0 /\ 1 \in 1 .. m
  <2> HIDE DEF Edits
  <2> QED BY <1>1, <1>2, EmptySeq
<1>5. /\ IsEdit(modified, e) /\ e.from \in 0 .. Len(modified) /\ e.to \in 0 .. Len(modified)
      /\ e.with \in Replacements /\ e.from < e.to
      /\ e = [from |-> e.from, to |-> e.to, with |-> e.with]
  <2>1. IsEdit(modified, e)
    BY <1>3, <1>4
  <2>2. e \in Edits /\ e.from < e.to
    BY <2>1 DEF IsEdit
  <2> HIDE DEF e
  <2> QED BY <1>2, <2>1, <2>2 DEF EditSet
<1> HIDE DEF e, m, Edits
<1>6. Len(replaces) < MaxEdits
  BY <1>2, <1>3, <1>4, LimitsAssumption, BoundsAssumption, PluginsAssumption
<1>7. RecordEdit(e.from, e.to, e.with)
  BY <1>1, <1>2, <1>3, <1>5, <1>6 DEF RecordEdit, IsEdit
<1>8. Next /\ MapInv'
  <2>1. Next
    BY <1>5, <1>7 DEF Next
  <2> QED BY <2>1, NextMapInv DEF PlansInv
<1>9. /\ Tail(planned) \in Seq(Edits) /\ Len(Tail(planned)) = m - 1
      /\ \A k \in 1 .. m - 1 : Tail(planned)[k] = planned[k + 1]
  BY <1>1, <1>2, HeadTailProperties DEF m
<1>10. InOrder(modified, Tail(planned))
  <2>1. ASSUME NEW k \in 1 .. m - 1 PROVE k + 1 \in 1 .. m
    BY <1>2
  <2>2. ASSUME NEW k \in 1 .. m - 1 PROVE IsEdit(modified, Tail(planned)[k])
    BY <1>3, <1>9, <2>1
  <2>3. ASSUME NEW j \in 1 .. m - 1, NEW k \in 1 .. m - 1, j < k
        PROVE  Tail(planned)[j].to <= Tail(planned)[k].from
    <3>1. j + 1 < k + 1
      BY <1>2, <2>3
    <3>2. planned[j + 1].to <= planned[k + 1].from
      BY <1>3, <2>1, <3>1
    <3> QED BY <1>9, <3>2
  <2> QED BY <1>9, <2>2, <2>3 DEF InOrder, Edits
<1>11. /\ Len(replaces') = Len(replaces) + 1 /\ replaces'[Len(replaces')] = e
  <2>1. replaces \in Seq([from : Nat, to : 0 .. Len(modified), with : Seq(Byte)])
    BY DEF PlansInv, MapInv, TypeOK
  <2>2. e \in [from : Nat, to : 0 .. Len(modified), with : Seq(Byte)]
    BY <1>2, <1>5, ReplacementsAssumption
  <2> QED BY <1>1, <2>1, <2>2, AppendProperties
<1>12. Len(replaces') + Len(planned') <= Len(modified)
  BY <1>1, <1>2, <1>3, <1>9, <1>11
<1>13. ASSUME planned' # << >> PROVE replaces'[Len(replaces')].to <= planned'[1].from
  <2>1. m - 1 # 0
    BY <1>1, <1>9, <1>13, EmptySeq
  <2>2. 1 \in 1 .. m - 1 /\ 2 \in 1 .. m /\ 1 + 1 = 2 /\ 1 < 2
    BY <1>2, <1>4, <2>1
  <2>3. planned'[1] = planned[2] /\ planned[1].to <= planned[2].from
    BY <1>1, <1>3, <1>4, <1>9, <2>2
  <2> QED BY <1>11, <2>3 DEF e
<1>14. ~Foreign /\ ~Foreign'
  BY <1>1 DEF PlansInv, Foreign
<1>15. InOrder(modified', planned')
  BY <1>1, <1>10
<1> QED BY <1>1, <1>8, <1>12, <1>13, <1>14, <1>15 DEF PlansInv

LEMMA PluginStep ==
  ASSUME PlansInv, [PluginNext]_pluginVars
  PROVE  [Next]_vars /\ PlansInv'
<1>1. CASE BufferCall
  <2>1. phase = "idle" /\ Next /\ UNCHANGED <<configured, planned>>
    BY <1>1 DEF BufferCall, Reset, StartBuildTooLong, StartBuild, Build, Next
  <2>2. planned = << >>
    BY <2>1 DEF PlansInv
  <2> QED BY <2>1, <2>2, NothingPlanned
<1>2. CASE RefreshForPlugin
  <2>1. phase = "idle" /\ Next /\ UNCHANGED <<configured, planned>>
    BY <1>2 DEF RefreshForPlugin, RefreshChars, Next
  <2>2. planned = << >>
    BY <2>1 DEF PlansInv
  <2> QED BY <2>1, <2>2, NothingPlanned
<1>3. CASE RunPlugin
  BY <1>3, RunPluginStep
<1>4. CASE Replace
  BY <1>4, ReplaceStep
<1>5. CASE ForeignEdit
  <2>1. Next /\ Foreign /\ UNCHANGED <<configured, planned>>
    BY <1>5, PluginsAssumption DEF ForeignEdit, Next
  <2>2. planned = << >>
    BY <2>1 DEF PlansInv
  <2> QED BY <2>1, <2>2, NothingPlanned
<1>6. CASE PluginFails
  <2>1. Next /\ Foreign /\ UNCHANGED <<configured, planned>>
    BY <1>6 DEF PluginFails, Next
  <2>2. planned = << >>
    BY <2>1 DEF PlansInv
  <2> QED BY <2>1, <2>2, NothingPlanned
<1>7. CASE Commit
  <2>1. Next /\ planned = << >> /\ UNCHANGED <<configured, planned>>
    BY <1>7 DEF Commit, Next
  <2> QED BY <2>1, NothingPlanned
<1>8. CASE UNCHANGED pluginVars
  BY <1>8, StutterPlans DEF pluginVars
<1> QED BY <1>1, <1>2, <1>3, <1>4, <1>5, <1>6, <1>7, <1>8 DEF PluginNext

LEMMA InitPlans == PluginInit => Init /\ PlansInv
<1> SUFFICES ASSUME PluginInit PROVE Init /\ PlansInv
  OBVIOUS
<1>1. Init /\ MapInv /\ planned = << >>
  BY InitMapInv DEF PluginInit
<1>2. configured \in Seq(Plugins)
  BY PluginsAssumption DEF PluginInit
<1>3. InOrder(modified, << >>)
  <2>1. << >> \in Seq(EditSet(modified)) /\ Len(<< >>) = 0
    BY EmptySeq
  <2> QED BY <2>1 DEF InOrder
<1> QED BY <1>1, <1>2, <1>3 DEF PlansInv

(* The bundled plugins, in any order and number, and any library that uses *)
(* the editor as it must, behave as the editor the mapping is proved for:  *)
(* every edit they record is behind the one before, not empty and cut at   *)
(* characters of the text they edit (rewrite of the three plugins,         *)
(* resolve_edits).                                                         *)
THEOREM PluginsEditInOrder == PluginSpec => EditsAreSorted
<1>1. PluginInit => Init /\ PlansInv
  BY InitPlans
<1>2. PlansInv /\ [PluginNext]_pluginVars => [Next]_vars /\ PlansInv'
  BY PluginStep
<1> QED BY <1>1, <1>2, PTL DEF PluginSpec, EditsAreSorted, Spec
-----------------------------------------------------------------------------
(* Where a number stands among the members of a finite set of numbers: q   *)
(* is the first place whose member it is below, or the one behind the last.*)
IsPlaceIn(a, n, x, q) ==
  /\ q \in 1 .. n + 1
  /\ \A i \in 1 .. q - 1 : a[i] <= x
  /\ \A i \in q .. n : x < a[i]

LEMMA PlaceExists ==
  ASSUME NEW n \in Nat, NEW a, NEW x \in Nat, \A i \in 1 .. n : a[i] \in Nat,
         \A i, j \in 1 .. n : i <= j => a[i] <= a[j]
  PROVE  \E q \in 1 .. n + 1 : IsPlaceIn(a, n, x, q)
<1> DEFINE T == {i \in 1 .. n + 1 : i = n + 1 \/ x < a[i]}
<1>1. T \subseteq Nat /\ n + 1 \in T
  OBVIOUS
<1>2. PICK q \in T : \A i \in T : q <= i
  <2> HIDE DEF T
  <2> QED BY <1>1, LeastNumber
<1>3. q \in 1 .. n + 1
  OBVIOUS
<1>4. ASSUME NEW i \in 1 .. q - 1 PROVE a[i] <= x
  <2>1. i \in 1 .. n /\ ~(q <= i)
    BY <1>3
  <2>2. ~(x < a[i]) /\ a[i] \in Nat
    BY <1>2, <2>1
  <2> QED BY <2>2
<1>5. ASSUME NEW i \in q .. n PROVE x < a[i]
  <2>1. q \in 1 .. n /\ i \in 1 .. n /\ q <= i /\ q # n + 1
    BY <1>3
  <2>2. x < a[q] /\ a[q] <= a[i] /\ a[q] \in Nat /\ a[i] \in Nat
    BY <1>2, <2>1
  <2> QED BY <2>2
<1> QED BY <1>3, <1>4, <1>5 DEF IsPlaceIn

(* The search of get_category_types ends at that place, whether the code   *)
(* point is a boundary itself or not.                                      *)
LEMMA SearchFindsPlace ==
  ASSUME NEW n \in Nat, NEW table, NEW x \in Nat, NEW q,
         DOMAIN table.boundaries = 1 .. n,
         \A i \in 1 .. n : table.boundaries[i] \in Nat,
         \A i, j \in 1 .. n : i < j => table.boundaries[i] < table.boundaries[j],
         IsPlaceIn(table.boundaries, n, x, q)
  PROVE  CategoryTypesOf(table, x) = table.types[q]
<1> DEFINE a == table.boundaries
           Before == {i \in DOMAIN a : a[i] < x}
           before == Cardinality(Before)
<1>1. CategoryTypesOf(table, x)
      = IF x \in ToSet(a) THEN table.types[before + 2] ELSE table.types[before + 1]
  BY DEF CategoryTypesOf
<1>2. /\ q \in 1 .. n + 1
      /\ \A i \in 1 .. q - 1 : a[i] <= x
      /\ \A i \in q .. n : x < a[i]
      /\ DOMAIN a = 1 .. n
      /\ \A i \in 1 .. n : a[i] \in Nat
      /\ \A i, j \in 1 .. n : i < j => a[i] < a[j]
  BY DEF IsPlaceIn
<1>3. \A m \in 0 .. n : Cardinality(1 .. m) = m
  <2> TAKE m \in 0 .. n
  <2>1. Cardinality(1 .. m) = IF 1 > m THEN 0 ELSE m - 1 + 1
    BY FS_Interval
  <2> QED BY <2>1
<1> HIDE DEF a
<1>4. CASE x \in ToSet(a)
  <2>1. PICK i \in 1 .. n : a[i] = x
    BY <1>2, <1>4 DEF ToSet
  <2>2. i = q - 1
    <3>1. ~(i \in q .. n) /\ i \in 1 .. q - 1
      BY <1>2, <2>1
    <3>2. q - 1 \in 1 .. n /\ a[q - 1] <= x
      BY <1>2, <3>1
    <3>3. ~(i < q - 1)
      BY <1>2, <2>1, <3>2
    <3> QED BY <1>2, <3>1, <3>3
  <2>3. Before = 1 .. q - 2
    <3>1. ASSUME NEW j \in Before PROVE j \in 1 .. q - 2
      <4>1. j \in 1 .. n /\ a[j] < x
        BY <1>2
      <4>2. ~(j \in q .. n)
        BY <1>2, <4>1
      <4>3. j # q - 1
        BY <2>1, <2>2, <4>1
      <4> QED BY <1>2, <4>1, <4>2, <4>3
    <3>2. ASSUME NEW j \in 1 .. q - 2 PROVE j \in Before
      <4>1. j \in 1 .. n /\ j < i
        BY <1>2, <2>2
      <4>2. a[j] < x
        BY <1>2, <2>1, <4>1
      <4> QED BY <1>2, <4>1, <4>2
    <3> QED BY <3>1, <3>2
  <2>4. before = q - 2
    <3>1. q - 2 \in 0 .. n
      BY <1>2, <2>1, <2>2
    <3> QED BY <1>3, <2>3, <3>1
  <2>5. before + 2 = q
    BY <1>2, <2>4
  <2> QED BY <1>1, <1>4, <2>5
<1>5. CASE x \notin ToSet(a)
  <2>1. Before = 1 .. q - 1
    <3>1. ASSUME NEW j \in Before PROVE j \in 1 .. q - 1
      <4>1. j \in 1 .. n /\ a[j] < x /\ ~(j \in q .. n)
        BY <1>2
      <4> QED BY <1>2, <4>1
    <3>2. ASSUME NEW j \in 1 .. q - 1 PROVE j \in Before
      <4>1. j \in 1 .. n /\ a[j] <= x
        BY <1>2
      <4>2. a[j] # x
        BY <1>2, <1>5, <4>1 DEF ToSet
      <4> QED BY <1>2, <4>1, <4>2
    <3> QED BY <3>1, <3>2
  <2>2. before = q - 1
    <3>1. q - 1 \in 0 .. n
      BY <1>2
    <3> QED BY <1>3, <2>1, <3>1
  <2>3. before + 1 = q
    BY <1>2, <2>2
  <2> QED BY <1>1, <1>5, <2>3
<1> QED BY <1>4, <1>5

(* The ranges of a table do not meet: the one at the place of a code point *)
(* is the only one it lies in.                                             *)
LEMMA IterFindsPlace ==
  ASSUME NEW n \in Nat, NEW table, NEW x \in Nat, x < LastChar, NEW q, NEW types,
         DOMAIN table.boundaries = 1 .. n, Len(table.boundaries) = n,
         \A i \in 1 .. n : table.boundaries[i] \in Nat,
         IsPlaceIn(table.boundaries, n, x, q)
  PROVE  InClass(table, types, x) <=> table.types[q] \cap types # {}
<1> DEFINE a == table.boundaries
           iter == Iter(table)
<1>1. /\ q \in 1 .. n + 1
      /\ \A i \in 1 .. q - 1 : a[i] <= x
      /\ \A i \in q .. n : x < a[i]
      /\ \A i \in 1 .. n : a[i] \in Nat
  BY DEF IsPlaceIn
<1>2. iter = [i \in 1 .. n + 1 |->
                [begin |-> IF i = 1 THEN 0 ELSE a[i - 1],
                 end   |-> IF i > n THEN LastChar ELSE a[i],
                 types |-> table.types[i]]]
  BY DEF Iter
<1>3. /\ DOMAIN iter = 1 .. n + 1
      /\ \A i \in 1 .. n + 1 :
           /\ iter[i].begin = IF i = 1 THEN 0 ELSE a[i - 1]
           /\ iter[i].end = IF i > n THEN LastChar ELSE a[i]
           /\ iter[i].types = table.types[i]
  BY <1>2
<1>4. InClass(table, types, x)
      <=> \E i \in DOMAIN iter : /\ iter[i].types \cap types # {}
                                 /\ iter[i].begin <= x /\ x < iter[i].end
  BY DEF InClass
<1> HIDE DEF a, iter
<1>5. iter[q].begin <= x
  <2>1. CASE q = 1
    BY <1>1, <1>3, <2>1
  <2>2. CASE q # 1
    <3>1. q - 1 \in 1 .. q - 1
      BY <1>1, <2>2
    <3> QED BY <1>1, <1>3, <2>2, <3>1
  <2> QED BY <2>1, <2>2
<1>6. x < iter[q].end
  <2>1. CASE q > n
    BY <1>1, <1>3, <2>1
  <2>2. CASE ~(q > n)
    <3>1. q \in q .. n
      BY <1>1, <2>2
    <3> QED BY <1>1, <1>3, <2>2, <3>1
  <2> QED BY <2>1, <2>2
<1>7. ASSUME NEW i \in 1 .. n + 1, iter[i].begin <= x, x < iter[i].end PROVE i = q
  <2>1. ~(i < q)
    <3> SUFFICES ASSUME i < q PROVE FALSE
      OBVIOUS
    <3>1. i \in 1 .. q - 1 /\ i \in 1 .. n /\ ~(i > n)
      BY <1>1
    <3>2. iter[i].end = a[i] /\ a[i] <= x /\ a[i] \in Nat
      BY <1>1, <1>3, <3>1
    <3> QED BY <1>1, <1>7, <3>2
  <2>2. ~(q < i)
    <3> SUFFICES ASSUME q < i PROVE FALSE
      OBVIOUS
    <3>1. i - 1 \in q .. n /\ i - 1 \in 1 .. n /\ i # 1
      BY <1>1
    <3>2. iter[i].begin = a[i - 1] /\ x < a[i - 1] /\ a[i - 1] \in Nat
      BY <1>1, <1>3, <3>1
    <3> QED BY <1>1, <1>7, <3>2
  <2> QED BY <1>1, <2>1, <2>2
<1> QED BY <1>1, <1>3, <1>4, <1>5, <1>6, <1>7

LEMMA CharIsNumber == LastChar \in Nat /\ \A code : IsChar(code) => code \in 0 .. LastChar
<1>1. LastChar \in Nat
  BY SMT DEF LastChar
<1>2. ASSUME NEW code, IsChar(code) PROVE code \in 0 .. LastChar
  BY <1>2, SMT DEF IsChar
<1> QED BY <1>1, <1>2, Zenon

(* The code points at which ranges begin or end.                           *)
Bounds(ranges) == {r.begin : r \in ranges} \cup {r.end : r \in ranges}

LEMMA BoundsFacts ==
  ASSUME NEW lines, IsDefinition(lines)
  PROVE  /\ Bounds(Ranges(lines)) \subseteq Nat /\ IsFiniteSet(Bounds(Ranges(lines)))
         /\ \A r \in Ranges(lines) : /\ r.begin \in Bounds(Ranges(lines))
                                     /\ r.end \in Bounds(Ranges(lines))
                                     /\ r.begin < r.end
         /\ Ranges(lines) # {} => Bounds(Ranges(lines)) # {}
<1> DEFINE R == Ranges(lines)
           B == Bounds(R)
<1>1. ASSUME NEW r \in R
      PROVE  r.begin \in 0 .. LastChar /\ r.end \in 0 .. LastChar /\ r.begin < r.end
  <2>1. PICK i \in DOMAIN lines : r = RangeOf(lines[i])
    BY DEF Ranges
  <2>2. IsReadable(lines[i])
    BY DEF IsDefinition
  <2>3. r.begin < r.end /\ IsChar(r.begin) /\ IsChar(r.end)
    BY <2>1, <2>2, Zenon DEF IsReadable
  <2> QED BY <2>3, CharIsNumber
<1> HIDE DEF R
<1>2. B \subseteq 0 .. LastChar
  BY <1>1 DEF Bounds
<1>3. B \in SUBSET Nat /\ \A b \in B : b <= LastChar
  <2> HIDE DEF B
  <2> QED BY <1>2, CharIsNumber
<1>4. IsFiniteSet(B)
  <2> HIDE DEF B
  <2> QED BY <1>3, CharIsNumber, FS_BoundedSetOfNaturals
<1>5. \A r \in R : r.begin \in B /\ r.end \in B
  BY DEF Bounds
<1>6. R # {} => B # {}
  BY <1>5
<1> QED BY <1>1, <1>3, <1>4, <1>5, <1>6 DEF R

(* The categories the lines give are those of the range between successive *)
(* bounds that the code point lies in; before the first one and behind the *)
(* last one they give none.                                                *)
LEMMA GivenInRange ==
  ASSUME NEW lines, IsDefinition(lines), NEW x \in Nat,
         NEW p, IsPlaceIn(CollectBoundaries(Ranges(lines)),
                          Cardinality(Bounds(Ranges(lines))), x, p)
  PROVE  LET n  == Cardinality(Bounds(Ranges(lines)))
             bs == CollectBoundaries(Ranges(lines))
             ts == Split(Ranges(lines), bs)[p]
         IN  CategoriesGiven(lines, x)
             = IF p = n + 1 \/ ts = {} THEN {"DEFAULT"} ELSE ts
<1> DEFINE R == Ranges(lines)
           B == Bounds(R)
           n == Cardinality(B)
           bs == CollectBoundaries(R)
           ts == Split(R, bs)[p]
           Over == {r \in R : r.begin <= x /\ x < r.end}
           own == UNION {r.types : r \in Over}
<1>1. /\ B \subseteq Nat /\ IsFiniteSet(B)
      /\ \A r \in R : r.begin \in B /\ r.end \in B /\ r.begin < r.end
  BY BoundsFacts
<1>2. bs = Ascending(B)
  BY DEF CollectBoundaries, Bounds
<1>3. CategoriesGiven(lines, x) = IF own = {} THEN {"DEFAULT"} ELSE own
  BY DEF CategoriesGiven
<1>4. Split(R, bs) = [i \in DOMAIN bs |-> IF i = 1 THEN {"DEFAULT"}
                        ELSE UNION {r.types : r \in {r \in R : Covers(r, bs[i - 1], bs[i])}}]
  BY DEF Split
<1>5. /\ p \in 1 .. n + 1
      /\ \A i \in 1 .. p - 1 : bs[i] <= x
      /\ \A i \in p .. n : x < bs[i]
  BY DEF IsPlaceIn
<1> HIDE DEF R, B, bs
<1>6. /\ n \in Nat /\ DOMAIN bs = 1 .. n
      /\ \A k \in 1 .. n : bs[k] \in B
      /\ \A b \in B : \E k \in 1 .. n : bs[k] = b
      /\ \A j, k \in 1 .. n : j <= k => bs[j] <= bs[k]
  BY <1>1, <1>2, AscendingFacts
<1>7. \A k \in 1 .. n : bs[k] \in Nat
  BY <1>1, <1>6
<1> HIDE DEF n
<1>8. CASE p = 1 \/ p = n + 1
  <2>1. ASSUME NEW r \in Over PROVE FALSE
    <3>1. PICK k \in 1 .. n : bs[k] = r.begin
      BY <1>1, <1>6
    <3>2. PICK m \in 1 .. n : bs[m] = r.end
      BY <1>1, <1>6
    <3>3. r.begin <= x /\ x < r.end /\ r.begin \in Nat /\ r.end \in Nat
      BY <1>7, <3>1, <3>2
    <3>4. CASE p = 1
      <4>1. k \in p .. n
        BY <1>6, <3>4
      <4> QED BY <1>5, <3>1, <3>3, <4>1
    <3>5. CASE p = n + 1
      <4>1. m \in 1 .. p - 1
        BY <1>6, <3>5
      <4> QED BY <1>5, <3>2, <3>3, <4>1
    <3> QED BY <1>8, <3>4, <3>5
  <2>2. own = {}
    <3> HIDE DEF Over
    <3> QED BY <2>1
  <2>3. p = 1 /\ p # n + 1 => ts = {"DEFAULT"}
    <3> SUFFICES ASSUME p = 1, p # n + 1 PROVE ts = {"DEFAULT"}
      OBVIOUS
    <3>1. 1 \in DOMAIN bs
      BY <1>5, <1>6
    <3> QED BY <1>4, <3>1
  <2> HIDE DEF own, ts
  <2> QED BY <1>3, <1>8, <2>2, <2>3 DEF R, n, bs, ts, B
<1>9. CASE p # 1 /\ p # n + 1
  <2>1. p \in 1 .. n /\ p - 1 \in 1 .. n /\ p - 1 \in 1 .. p - 1 /\ p \in p .. n
    BY <1>5, <1>6, <1>9
  <2>2. bs[p - 1] <= x /\ x < bs[p]
    BY <1>5, <2>1
  <2>3. ASSUME NEW r \in R
        PROVE  Covers(r, bs[p - 1], bs[p]) <=> r.begin <= x /\ x < r.end
    <3>1. PICK k \in 1 .. n : bs[k] = r.begin
      BY <1>1, <1>6
    <3>2. PICK m \in 1 .. n : bs[m] = r.end
      BY <1>1, <1>6
    <3>3. /\ bs[p - 1] \in Nat /\ bs[p] \in Nat /\ r.begin \in Nat /\ r.end \in Nat
      BY <1>7, <2>1, <3>1, <3>2
    <3>4. r.begin <= bs[p - 1] <=> r.begin <= x
      <4>1. CASE k <= p - 1
        <5>1. bs[k] <= bs[p - 1]
          BY <1>6, <2>1, <4>1
        <5> QED BY <2>2, <3>1, <3>3, <5>1
      <4>2. CASE ~(k <= p - 1)
        <5>1. k \in p .. n
          BY <1>6, <2>1, <4>2
        <5>2. x < bs[k]
          BY <1>5, <5>1
        <5> QED BY <2>2, <3>1, <3>3, <5>2
      <4> QED BY <4>1, <4>2
    <3>5. bs[p] <= r.end <=> x < r.end
      <4>1. CASE m >= p
        <5>1. bs[p] <= bs[m]
          BY <1>6, <2>1, <4>1
        <5> QED BY <2>2, <3>2, <3>3, <5>1
      <4>2. CASE ~(m >= p)
        <5>1. m \in 1 .. p - 1
          BY <1>6, <2>1, <4>2
        <5>2. bs[m] <= x
          BY <1>5, <5>1
        <5> QED BY <2>2, <3>2, <3>3, <5>2
      <4> QED BY <4>1, <4>2
    <3> QED BY <3>4, <3>5 DEF Covers
  <2>4. ts = UNION {r.types : r \in {r \in R : Covers(r, bs[p - 1], bs[p])}}
    BY <1>4, <1>6, <1>9, <2>1
  <2>5. {r \in R : Covers(r, bs[p - 1], bs[p])} = Over
    BY <2>3
  <2>6. ts = own
    BY <2>4, <2>5
  <2> HIDE DEF own, ts
  <2> QED BY <1>3, <1>9, <2>6 DEF R, n, bs, ts, B
<1> QED BY <1>8, <1>9

(* The table of a definition gives what its lines give, by the search and  *)
(* by its ranges, although ranges of the same categories are merged.       *)
LEMMA TableGives ==
  ASSUME NEW lines, IsDefinition(lines), NEW x \in Nat
  PROVE  /\ CategoryTypesOf(TableOf(lines), x) = CategoriesGiven(lines, x)
         /\ x < LastChar =>
              \A types : InClass(TableOf(lines), types, x)
                         <=> CategoriesGiven(lines, x) \cap types # {}
<1> DEFINE R == Ranges(lines)
           B == Bounds(R)
           n == Cardinality(B)
           bs == CollectBoundaries(R)
           split == Split(R, bs)
           K == {i \in DOMAIN bs : i = Len(bs) \/ split[i] # split[i + 1]}
           k == Ascending(K)
           M == Cardinality(K)
           OrDefault(types) == IF types = {} THEN {"DEFAULT"} ELSE types
           table == TableOf(lines)
           given == CategoriesGiven(lines, x)
<1>1. /\ B \subseteq Nat /\ IsFiniteSet(B) /\ (R # {} => B # {})
  BY BoundsFacts
<1>2. SUFFICES \E m \in Nat, q \in 1 .. Len(table.boundaries) + 1 :
                 /\ DOMAIN table.boundaries = 1 .. m /\ Len(table.boundaries) = m
                 /\ \A i \in 1 .. m : table.boundaries[i] \in Nat
                 /\ \A i, j \in 1 .. m : i < j => table.boundaries[i] < table.boundaries[j]
                 /\ IsPlaceIn(table.boundaries, m, x, q)
                 /\ table.types[q] = given
  <2> HIDE DEF table, given
  <2>1. PICK m \in Nat, q \in 1 .. Len(table.boundaries) + 1 :
           /\ DOMAIN table.boundaries = 1 .. m /\ Len(table.boundaries) = m
           /\ \A i \in 1 .. m : table.boundaries[i] \in Nat
           /\ \A i, j \in 1 .. m : i < j => table.boundaries[i] < table.boundaries[j]
           /\ IsPlaceIn(table.boundaries, m, x, q)
           /\ table.types[q] = given
    BY <1>2
  <2>2. CategoryTypesOf(table, x) = table.types[q]
    BY <2>1, SearchFindsPlace
  <2>3. ASSUME x < LastChar, NEW types
        PROVE  InClass(table, types, x) <=> table.types[q] \cap types # {}
    BY <2>1, <2>3, IterFindsPlace
  <2> QED BY <2>1, <2>2, <2>3 DEF table, given
<1>3. CASE R = {}
  <2>1. table = DefaultTable
    BY <1>3 DEF TableOf, Compile
  <2>2. /\ table.boundaries = << >> /\ table.types = <<{"DEFAULT"}>>
    BY <2>1 DEF DefaultTable
  <2>3. given = {"DEFAULT"}
    BY <1>3 DEF CategoriesGiven
  <2> HIDE DEF table, given
  <2>4. IsPlaceIn(table.boundaries, 0, x, 1)
    BY <2>2 DEF IsPlaceIn
  <2> QED BY <2>2, <2>3, <2>4
<1>4. CASE R # {}
  <2>1. table = [boundaries |-> [i \in DOMAIN k |-> bs[k[i]]],
                 types |-> Append([i \in DOMAIN k |-> OrDefault(split[k[i]])], {"DEFAULT"})]
    BY <1>4, Zenon DEF TableOf, Compile
  <2>2. bs = Ascending(B)
    BY DEF CollectBoundaries, Bounds
  <2>3. \A p : IsPlaceIn(bs, n, x, p)
               => given = IF p = n + 1 THEN {"DEFAULT"} ELSE OrDefault(split[p])
    BY GivenInRange
  <2> HIDE DEF R, B, bs, split, table, given
  <2>4. /\ n \in Nat /\ bs \in Seq(B) /\ DOMAIN bs = 1 .. n /\ Len(bs) = n
        /\ \A i \in 1 .. n : bs[i] \in B
        /\ \A b \in B : \E i \in 1 .. n : bs[i] = b
        /\ \A i, j \in 1 .. n : i < j => bs[i] < bs[j]
        /\ \A i, j \in 1 .. n : i <= j => bs[i] <= bs[j]
    BY <1>1, <2>2, AscendingFacts
  <2> HIDE DEF n
  <2>5. /\ \A i \in 1 .. n : bs[i] \in Nat
        /\ n # 0
    <3>1. PICK b \in B : TRUE
      BY <1>1, <1>4
    <3>2. PICK i \in 1 .. n : bs[i] = b
      BY <2>4, <3>1
    <3>3. n # 0
      BY <2>4, <3>2
    <3> QED BY <1>1, <2>4, <3>3
  <2>6. /\ K \subseteq 1 .. n /\ K \subseteq Nat /\ n \in K
        /\ \A i \in 1 .. n : i \notin K => split[i] = split[i + 1]
    BY <2>4, <2>5
  <2>7. IsFiniteSet(K)
    <3>1. K \in SUBSET (1 .. n) /\ IsFiniteSet(1 .. n)
      BY <2>4, <2>6, FS_Interval
    <3> QED BY <3>1, FS_Subset
  <2> HIDE DEF K
  <2>8. /\ M \in Nat /\ k \in Seq(K) /\ DOMAIN k = 1 .. M
        /\ \A i \in 1 .. M : k[i] \in K
        /\ \A i \in K : \E j \in 1 .. M : k[j] = i
        /\ \A i, j \in 1 .. M : i < j => k[i] < k[j]
        /\ \A i, j \in 1 .. M : i <= j => k[i] <= k[j]
    BY <2>6, <2>7, AscendingFacts
  <2> HIDE DEF M, k
  <2>9. M \in 1 .. M /\ k[M] = n
    <3>1. PICK j \in 1 .. M : k[j] = n
      BY <2>6, <2>8
    <3>2. M \in 1 .. M /\ j <= M
      BY <2>8
    <3>3. n <= k[M] /\ k[M] \in 1 .. n
      BY <2>6, <2>8, <3>1, <3>2
    <3> QED BY <2>4, <3>2, <3>3
  <2> DEFINE bd == table.boundaries
  <2>10. /\ DOMAIN bd = 1 .. M /\ Len(bd) = M
         /\ \A i \in 1 .. M : bd[i] = bs[k[i]] /\ bd[i] \in Nat
    <3>1. bd = [i \in 1 .. M |-> bs[k[i]]]
      BY <2>1, <2>8
    <3>2. \A i \in 1 .. M : bs[k[i]] \in Nat
      BY <2>5, <2>6, <2>8
    <3>3. bd \in [1 .. M -> Nat]
      BY <3>1, <3>2
    <3>4. bd \in Seq(Nat) /\ DOMAIN bd = 1 .. M
      <4> HIDE DEF bd
      <4> QED BY <2>8, <3>3, IsASeq
    <3>5. Len(bd) = M
      <4> HIDE DEF bd
      <4> QED BY <2>8, <3>4, LenProperties
    <3> QED BY <3>1, <3>2, <3>4, <3>5
  <2>11. /\ table.types[M + 1] = {"DEFAULT"}
         /\ \A i \in 1 .. M : table.types[i] = OrDefault(split[k[i]])
    <3> DEFINE own == [i \in 1 .. M |-> OrDefault(split[k[i]])]
               S == {own[i] : i \in 1 .. M} \cup {{"DEFAULT"}}
    <3>1. table.types = Append(own, {"DEFAULT"})
      BY <2>1, <2>8
    <3>2. own \in [1 .. M -> S] /\ {"DEFAULT"} \in S
      OBVIOUS
    <3>3. \A i \in 1 .. M : own[i] = OrDefault(split[k[i]])
      OBVIOUS
    <3> HIDE DEF own, S
    <3>4. own \in Seq(S) /\ Len(own) = M
      <4>1. own \in Seq(S) /\ DOMAIN own = 1 .. M
        BY <2>8, <3>2, IsASeq
      <4> QED BY <2>8, <4>1, LenProperties
    <3>5. /\ \A i \in 1 .. M : Append(own, {"DEFAULT"})[i] = own[i]
          /\ Append(own, {"DEFAULT"})[M + 1] = {"DEFAULT"}
      BY <3>2, <3>4, AppendProperties
    <3> HIDE DEF OrDefault
    <3> QED BY <3>1, <3>3, <3>5
  <2> HIDE DEF bd, OrDefault
  <2>12. ASSUME NEW i \in 1 .. M, NEW j \in 1 .. M, i < j PROVE bd[i] < bd[j]
    <3>1. k[i] < k[j] /\ k[i] \in 1 .. n /\ k[j] \in 1 .. n
      BY <2>6, <2>8, <2>12
    <3> QED BY <2>4, <2>10, <3>1
  <2>13. ASSUME NEW i \in 1 .. M, NEW j \in 1 .. M, i <= j PROVE bd[i] <= bd[j]
    <3>1. k[i] <= k[j] /\ k[i] \in 1 .. n /\ k[j] \in 1 .. n
      BY <2>6, <2>8, <2>13
    <3> QED BY <2>4, <2>10, <3>1
  <2>14. PICK p \in 1 .. n + 1 : IsPlaceIn(bs, n, x, p)
    BY <2>4, <2>5, PlaceExists
  <2>15. PICK q \in 1 .. M + 1 : IsPlaceIn(bd, M, x, q)
    BY <2>8, <2>10, <2>13, PlaceExists
  <2>16. /\ \A i \in 1 .. p - 1 : bs[i] <= x
         /\ \A i \in p .. n : x < bs[i]
         /\ \A i \in 1 .. q - 1 : bd[i] <= x
         /\ \A i \in q .. M : x < bd[i]
    BY <2>14, <2>15 DEF IsPlaceIn
  <2>17. bd[M] = bs[n] /\ bs[n] \in Nat
    BY <2>9, <2>10
  <2>18. CASE p = n + 1
    <3>1. n \in 1 .. p - 1
      BY <2>4, <2>5, <2>18
    <3>2. ~(M \in q .. M)
      BY <2>16, <2>17, <3>1
    <3>3. q = M + 1
      BY <2>8, <2>15, <3>2
    <3>4. table.types[q] = given
      BY <2>3, <2>11, <2>14, <2>18, <3>3
    <3> QED BY <2>8, <2>10, <2>12, <2>15, <3>4 DEF bd
  <2>19. CASE p # n + 1
    <3>1. p \in 1 .. n /\ n \in p .. n
      BY <2>4, <2>19
    <3>2. ~(M \in 1 .. q - 1)
      BY <2>16, <2>17, <3>1
    <3>3. q \in 1 .. M /\ q \in q .. M
      BY <2>8, <2>9, <2>15, <3>2
    <3> DEFINE m == k[q]
    <3>4. m \in K /\ m \in 1 .. n /\ x < bs[m] /\ bs[m] \in Nat
      BY <2>5, <2>6, <2>8, <2>10, <2>16, <3>3
    <3>5. p <= m
      <4>1. ~(m \in 1 .. p - 1)
        BY <2>16, <3>4
      <4> QED BY <2>4, <3>1, <3>4, <4>1
    <3>6. ASSUME NEW i \in p .. m - 1 PROVE split[i] = split[i + 1]
      <4>1. i \in 1 .. n /\ i \in p .. n /\ i < m
        BY <2>4, <3>1, <3>4
      <4>2. i \notin K
        <5> SUFFICES ASSUME i \in K PROVE FALSE
          OBVIOUS
        <5>1. PICK j \in 1 .. M : k[j] = i
          BY <2>8
        <5>2. ~(q <= j)
          BY <2>8, <3>3, <3>4, <4>1, <5>1
        <5>3. j \in 1 .. q - 1
          BY <2>8, <3>3, <5>2
        <5>4. bd[j] = bs[i] /\ bd[j] <= x /\ x < bs[i] /\ bs[i] \in Nat
          BY <2>5, <2>10, <2>16, <4>1, <5>1, <5>3
        <5> QED BY <5>4
      <4> QED BY <2>6, <4>1, <4>2
    <3> HIDE DEF m
    <3>7. split[p] = split[m]
      <4> DEFINE Bad == {j \in p .. m : split[j] # split[p]}
      <4>1. Bad # {} => FALSE
        <5> SUFFICES ASSUME Bad # {} PROVE FALSE
          OBVIOUS
        <5>1. Bad \subseteq Nat
          BY <3>1
        <5>2. PICK j \in Bad : \A i \in Bad : j <= i
          <6> HIDE DEF Bad
          <6> QED BY <5>1, LeastNumber
        <5>3. j \in p .. m /\ split[j] # split[p]
          OBVIOUS
        <5>4. j - 1 \in p .. m - 1 /\ j - 1 \in p .. m /\ (j - 1) + 1 = j /\ ~(j <= j - 1)
          <6>1. j # p
            BY <5>3
          <6> QED BY <3>1, <3>4, <5>3, <6>1
        <5>5. split[j - 1] = split[p]
          BY <5>2, <5>4
        <5>6. split[j - 1] = split[(j - 1) + 1]
          BY <3>6, <5>4
        <5> QED BY <5>3, <5>4, <5>5, <5>6
      <4>2. m \in p .. m
        BY <3>1, <3>4, <3>5
      <4> QED BY <4>1, <4>2
    <3>8. given = OrDefault(split[p])
      BY <2>3, <2>14, <2>19
    <3>9. table.types[q] = given
      BY <2>11, <3>3, <3>7, <3>8 DEF m
    <3> QED BY <2>8, <2>10, <2>12, <2>15, <3>9 DEF bd
  <2> QED BY <2>18, <2>19
<1> QED BY <1>3, <1>4

(* Every definition that can be read gives each character its categories.  *)
LEMMA CategoriesAlwaysGiven == CategoriesAreGiven
<1> SUFFICES ASSUME NEW def \in {d \in Definitions : IsDefinition(d)}, NEW code, IsChar(code)
             PROVE  /\ CategoryTypesOf(TableOf(def), code) = CategoriesGiven(def, code)
                    /\ code # LastChar =>
                         \A type \in CategoryTypes :
                           InClass(TableOf(def), {type}, code)
                           <=> type \in CategoriesGiven(def, code)
  BY Zenon DEF CategoriesAreGiven
<1>1. code \in Nat /\ (code # LastChar => code < LastChar)
  BY CharIsNumber
<1>2. /\ CategoryTypesOf(TableOf(def), code) = CategoriesGiven(def, code)
      /\ code < LastChar =>
           \A types : InClass(TableOf(def), types, code)
                      <=> CategoriesGiven(def, code) \cap types # {}
  BY <1>1, TableGives
<1>3. \A type : CategoriesGiven(def, code) \cap {type} # {} <=> type \in CategoriesGiven(def, code)
  OBVIOUS
<1> QED BY <1>1, <1>2, <1>3
-----------------------------------------------------------------------------
LEMMA CharsBeforeFacts ==
  ASSUME NEW text \in Seq(Byte)
  PROVE  /\ \A b \in Nat : CharsBefore(text, b) \in Nat
         /\ \A b, c \in Nat : b <= c => CharsBefore(text, b) <= CharsBefore(text, c)
<1> DEFINE S == CharStarts(text)
           Before(b) == {s \in S : s < b}
<1>1. IsFiniteSet(S) /\ S \subseteq Nat
  BY CharStartsFacts
<1>2. \A b : CharsBefore(text, b) = Cardinality(Before(b))
  BY DEF CharsBefore
<1> HIDE DEF S
<1>3. ASSUME NEW b \in Nat PROVE IsFiniteSet(Before(b)) /\ Cardinality(Before(b)) \in Nat
  <2>1. Before(b) \in SUBSET S
    OBVIOUS
  <2>2. IsFiniteSet(Before(b))
    BY <1>1, <2>1, FS_Subset
  <2> QED BY <2>2, FS_CardinalityType
<1>4. ASSUME NEW b \in Nat, NEW c \in Nat, b <= c
      PROVE  Cardinality(Before(b)) <= Cardinality(Before(c))
  <2>1. Before(b) \in SUBSET Before(c)
    <3>1. ASSUME NEW x \in Before(b) PROVE x \in Before(c)
      <4>1. x \in S /\ x \in Nat /\ x < b
        BY <1>1
      <4> QED BY <1>4, <4>1
    <3> HIDE DEF Before
    <3> QED BY <3>1
  <2>2. IsFiniteSet(Before(c))
    BY <1>3
  <2> HIDE DEF Before
  <2> QED BY <2>1, <2>2, FS_Subset
<1> QED BY <1>2, <1>3, <1>4

(* Of every byte of a character, the character is the last one that begins *)
(* at or before it.                                                        *)
LEMMA CharOfByte ==
  ASSUME NEW text \in Seq(Byte), NEW k \in 1 .. NumChars(text),
         NEW b \in CharToByte(text)[k] .. CharToByte(text)[k + 1] - 1
  PROVE  /\ b \in 0 .. Len(text) - 1 /\ CharsBefore(text, b + 1) = k
<1> DEFINE n == NumChars(text)
           o == CharToByte(text)
           S == CharStarts(text)
           Upto == {s \in S : s < b + 1}
           Before == {s \in S : s < o[k]}
<1>1. /\ S \subseteq Nat /\ IsFiniteSet(S) /\ S \subseteq 0 .. Len(text) - 1
      /\ n \in Nat /\ Len(text) \in Nat
  BY CharStartsFacts
<1>2. /\ \A j \in 1 .. n : o[j] \in S
      /\ \A j \in 1 .. n : CharsBefore(text, o[j]) = j - 1
      /\ \A j \in 1 .. n + 1 : o[j] \in 0 .. Len(text)
      /\ \A i, j \in 1 .. n + 1 : i <= j => o[i] <= o[j]
      /\ \A c \in S : \E j \in 1 .. n : o[j] = c
  BY OffsetFacts
<1>3. /\ CharsBefore(text, o[k]) = Cardinality(Before)
      /\ CharsBefore(text, b + 1) = Cardinality(Upto)
  BY DEF CharsBefore
<1>4. k \in 1 .. n /\ b \in o[k] .. o[k + 1] - 1
  OBVIOUS
<1> HIDE DEF n, o, S
<1>5. /\ k \in 1 .. n + 1 /\ k + 1 \in 1 .. n + 1 /\ o[k] \in Nat /\ o[k + 1] \in 0 .. Len(text)
      /\ b \in Nat /\ o[k] <= b /\ b < o[k + 1]
  <2>1. k \in 1 .. n + 1 /\ k + 1 \in 1 .. n + 1
    BY <1>1, <1>4
  <2>2. o[k] \in 0 .. Len(text) /\ o[k + 1] \in 0 .. Len(text)
    BY <1>2, <2>1
  <2>3. o[k] \in Nat /\ o[k + 1] \in Int
    BY <1>1, <2>2
  <2>4. b \in Int /\ o[k] <= b /\ b < o[k + 1]
    <3> DEFINE x == o[k]
               y == o[k + 1]
    <3>1. x \in Int /\ y \in Int /\ b \in x .. y - 1
      BY <1>4, <2>3
    <3> HIDE DEF x, y
    <3>2. b \in Int /\ x <= b /\ b < y
      BY <3>1
    <3> QED BY <3>2 DEF x, y
  <2> QED BY <2>1, <2>2, <2>3, <2>4
<1>6. Upto = Before \cup {o[k]}
  <2>1. ASSUME NEW c \in Upto, c # o[k] PROVE c \in Before
    <3>1. PICK j \in 1 .. n : o[j] = c
      BY <1>2
    <3>2. c \in Nat /\ c < b + 1 /\ ~(o[k + 1] <= c)
      BY <1>1, <1>5
    <3>3. ~(k + 1 <= j)
      BY <1>1, <1>2, <1>5, <3>1, <3>2
    <3>4. j <= k /\ j \in 1 .. n + 1
      BY <1>1, <1>4, <3>3
    <3>5. o[j] <= o[k]
      BY <1>2, <1>5, <3>4
    <3> QED BY <1>5, <2>1, <3>1, <3>2, <3>5
  <2>2. ASSUME NEW c \in Before PROVE c \in Upto
    <3>1. c \in Nat /\ c < o[k]
      BY <1>1
    <3> QED BY <1>5, <3>1
  <2>3. o[k] \in Upto
    BY <1>2, <1>4, <1>5
  <2> HIDE DEF Upto, Before
  <2> QED BY <2>1, <2>2, <2>3
<1>7. IsFiniteSet(Before) /\ o[k] \notin Before
  <2>1. Before \in SUBSET S
    OBVIOUS
  <2>2. IsFiniteSet(Before)
    BY <1>1, <2>1, FS_Subset
  <2>3. o[k] \notin Before
    BY <1>5
  <2> QED BY <2>2, <2>3
<1>8. Cardinality(Upto) = Cardinality(Before) + 1
  <2> HIDE DEF Upto, Before
  <2> QED BY <1>6, <1>7, FS_AddElement
<1>9. Cardinality(Before) = k - 1
  BY <1>2, <1>3, <1>4
<1>10. Cardinality(Upto) = k
  BY <1>1, <1>4, <1>8, <1>9
<1>11. b \in 0 .. Len(text) - 1
  BY <1>1, <1>5
<1> QED BY <1>3, <1>10, <1>11

(* The two index tables of a text.                                         *)
LEMMA TablesAreInverse ==
  ASSUME NEW text \in Seq(Byte)
  PROVE  /\ Len(CharToByte(text)) = Len(CharsOf(text)) + 1
         /\ ByteToChar(text) \in Seq(Int) /\ Len(ByteToChar(text)) = Len(text) + 1
         /\ \A c \in 1 .. Len(CharsOf(text)) :
              \A b \in CharToByte(text)[c] .. CharToByte(text)[c + 1] - 1 :
                ByteToChar(text)[b + 1] = c - 1
<1> DEFINE m == Len(text) + 1
           At(i) == IF i <= Len(text) THEN CharsBefore(text, i) - 1
                    ELSE IF text = << >> THEN 1 ELSE CharsBefore(text, Len(text))
<1>1. Len(text) \in Nat /\ m \in Nat
  BY LenProperties
<1>2. ByteToChar(text) = [i \in 1 .. m |-> At(i)]
  BY DEF ByteToChar
<1>3. \A i \in 1 .. m : At(i) \in Int
  BY <1>1, CharsBeforeFacts
<1> HIDE DEF At
<1>4. ByteToChar(text) \in [1 .. m -> Int]
  BY <1>2, <1>3
<1>5. ByteToChar(text) \in Seq(Int) /\ Len(ByteToChar(text)) = m
  <2>1. ByteToChar(text) \in Seq(Int) /\ DOMAIN ByteToChar(text) = 1 .. m
    <3> HIDE DEF m
    <3> QED BY <1>1, <1>4, IsASeq
  <2> HIDE DEF m
  <2> QED BY <1>1, <2>1, LenProperties
<1>6. ASSUME NEW c \in 1 .. NumChars(text),
             NEW b \in CharToByte(text)[c] .. CharToByte(text)[c + 1] - 1
      PROVE  ByteToChar(text)[b + 1] = c - 1
  <2>1. b \in 0 .. Len(text) - 1 /\ CharsBefore(text, b + 1) = c
    BY CharOfByte
  <2>2. b + 1 \in 1 .. m /\ b + 1 <= Len(text)
    BY <1>1, <2>1
  <2>3. ByteToChar(text)[b + 1] = At(b + 1)
    BY <1>2, <2>2
  <2> QED BY <2>1, <2>2, <2>3 DEF At
<1>7. Len(CharsOf(text)) = NumChars(text) /\ Len(CharToByte(text)) = NumChars(text) + 1
  BY CharsOfFacts, OffsetFacts
<1> QED BY <1>5, <1>6, <1>7

(* The character indices of the original's boundaries.                     *)
LEMMA OrigCharsAscend ==
  ASSUME NEW text \in Seq(Byte), NEW b \in 0 .. Len(text), IsBoundary(text, b)
  PROVE  /\ OrigByteToChar(text)[b + 1] # NoChar
         /\ \A c \in 0 .. Len(text) : b <= c /\ IsBoundary(text, c)
              => OrigByteToChar(text)[b + 1] <= OrigByteToChar(text)[c + 1]
<1> DEFINE Index(a) == IF a = Len(text) /\ text = << >> THEN 1 ELSE CharsBefore(text, a)
<1>1. Len(text) \in Nat
  BY LenProperties
<1>2. ASSUME NEW a \in 0 .. Len(text), IsBoundary(text, a)
      PROVE  OrigByteToChar(text)[a + 1] = Index(a) /\ Index(a) \in Nat
  <2>1. a + 1 \in 1 .. Len(text) + 1 /\ (a + 1) - 1 = a /\ a \in Nat
    BY <1>1
  <2>2. OrigByteToChar(text)[a + 1]
        = IF a + 1 > Len(text) THEN (IF text = << >> THEN 1 ELSE CharsBefore(text, Len(text)))
          ELSE IF text[a + 1] # Cont THEN CharsBefore(text, (a + 1) - 1)
          ELSE NoChar
    BY <2>1, Zenon DEF OrigByteToChar
  <2>3. CharsBefore(text, a) \in Nat
    BY <2>1, CharsBeforeFacts
  <2>4. CASE a = Len(text)
    <3>1. a + 1 > Len(text)
      BY <1>1, <2>4
    <3> QED BY <2>2, <2>3, <2>4, <3>1
  <2>5. CASE a # Len(text)
    <3>1. ~(a + 1 > Len(text)) /\ text[a + 1] # Cont
      BY <1>1, <1>2, <2>5 DEF IsBoundary
    <3> QED BY <2>1, <2>2, <2>3, <2>5, <3>1
  <2> QED BY <2>4, <2>5
<1>3. ASSUME NEW c \in 0 .. Len(text), b <= c, IsBoundary(text, c) PROVE Index(b) <= Index(c)
  <2>1. CharsBefore(text, b) <= CharsBefore(text, c)
    BY <1>1, <1>3, CharsBeforeFacts
  <2>2. text = << >> => b = Len(text) /\ c = Len(text)
    BY <1>1, EmptySeq
  <2>3. Index(c) \in Nat
    BY <1>2, <1>3
  <2> QED BY <2>1, <2>2, <2>3
<1>4. Index(b) # NoChar
  <2>1. Index(b) \in Nat
    BY <1>2
  <2> HIDE DEF Index
  <2> QED BY <2>1 DEF NoChar
<1> HIDE DEF Index
<1> QED BY <1>2, <1>3, <1>4
-----------------------------------------------------------------------------
(* A function defined from one number to the next does exist.              *)
IsStepwise(f, n, V, first, next) ==
  /\ f \in [1 .. n -> V]
  /\ \A i \in 1 .. n : f[i] = IF i = 1 THEN first ELSE next[<<i, f[i - 1]>>]

LEMMA StepwiseExists ==
  ASSUME NEW n \in Nat, NEW V, NEW first \in V, NEW next \in [(1 .. n) \X V -> V]
  PROVE  \E f : IsStepwise(f, n, V, first, next)
<1> USE DEF IsStepwise
<1> DEFINE IsUpTo(m, f) == IsStepwise(f, m, V, first, next)
           Bad == {m \in 0 .. n : ~\E f : IsUpTo(m, f)}
<1>1. ASSUME Bad # {} PROVE FALSE
  <2>1. Bad \subseteq Nat
    OBVIOUS
  <2>2. PICK m \in Bad : \A j \in Bad : m <= j
    <3> HIDE DEF Bad
    <3> QED BY <1>1, <2>1, LeastNumber
  <2>3. m \in 0 .. n /\ ~\E f : IsUpTo(m, f)
    BY <2>2
  <2>4. CASE m = 0
    <3> DEFINE g == [i \in 1 .. 0 |-> first]
    <3>1. IsUpTo(0, g)
      OBVIOUS
    <3> HIDE DEF IsUpTo
    <3> QED BY <2>3, <2>4, <3>1
  <2>5. CASE m # 0
    <3>1. m - 1 \in 0 .. n /\ m \in 1 .. n /\ ~(m <= m - 1)
      BY <2>3, <2>5
    <3>2. m - 1 \notin Bad
      <4> HIDE DEF Bad
      <4> QED BY <2>2, <3>1
    <3>3. PICK f : IsUpTo(m - 1, f)
      BY <3>1, <3>2
    <3> DEFINE new == IF m = 1 THEN first ELSE next[<<m, f[m - 1]>>]
               g == [i \in 1 .. m |-> IF i = m THEN new ELSE f[i]]
    <3>4. new \in V
      <4>1. CASE m = 1
        BY <4>1
      <4>2. CASE m # 1
        <5>1. m - 1 \in 1 .. m - 1
          BY <3>1, <4>2
        <5>2. f[m - 1] \in V
          BY <3>3, <5>1
        <5>3. <<m, f[m - 1]>> \in (1 .. n) \X V
          BY <3>1, <5>2
        <5> QED BY <4>2, <5>3
      <4> QED BY <4>1, <4>2
    <3>5. \A i \in 1 .. m : i # m => i \in 1 .. m - 1
      BY <3>1
    <3>6. g \in [1 .. m -> V]
      <4>1. \A i \in 1 .. m - 1 : f[i] \in V
        BY <3>3
      <4> HIDE DEF new
      <4> QED BY <3>4, <3>5, <4>1
    <3>7. ASSUME NEW i \in 1 .. m
          PROVE  g[i] = IF i = 1 THEN first ELSE next[<<i, g[i - 1]>>]
      <4>1. i # 1 => g[i - 1] = f[i - 1]
        <5>1. i # 1 => i - 1 \in 1 .. m /\ i - 1 # m
          BY <3>1
        <5> QED BY <5>1
      <4>2. CASE i = m
        BY <4>1, <4>2
      <4>3. CASE i # m
        <5>1. g[i] = f[i]
          BY <4>3
        <5>2. f[i] = IF i = 1 THEN first ELSE next[<<i, f[i - 1]>>]
          BY <3>3, <3>5, <4>3
        <5> HIDE DEF g
        <5> QED BY <4>1, <5>1, <5>2
      <4> QED BY <4>2, <4>3
    <3>8. IsUpTo(m, g)
      <4> HIDE DEF g
      <4> QED BY <3>6, <3>7
    <3> HIDE DEF IsUpTo, g
    <3> QED BY <2>3, <3>8
  <2> QED BY <2>4, <2>5
<1>2. n \in 0 .. n
  OBVIOUS
<1>3. \E f : IsUpTo(n, f)
  <2> HIDE DEF IsUpTo
  <2> QED BY <1>1, <1>2
<1> QED BY <1>3, Zenon

(* Adjacent slices of a sequence, put together again, are that sequence.   *)
LEMMA SlicesFlatten ==
  ASSUME NEW S, NEW seq \in Seq(S), NEW n \in Nat, n > 0, NEW cut,
         \A i \in 1 .. n + 1 : cut[i] \in 0 .. Len(seq),
         \A i, j \in 1 .. n + 1 : i <= j => cut[i] <= cut[j],
         cut[1] = 0, cut[n + 1] = Len(seq)
  PROVE  FlattenSeq([i \in 1 .. n |-> SubSeq(seq, cut[i] + 1, cut[i + 1])]) = seq
<1> DEFINE slices == [i \in 1 .. n |-> SubSeq(seq, cut[i] + 1, cut[i + 1])]
           IsFlat(f) == f = [i \in 1 .. n |-> IF i = 1 THEN slices[i] ELSE f[i - 1] \o slices[i]]
           flat == CHOOSE f : IsFlat(f)
<1>1. Len(seq) \in Nat
  BY LenProperties
<1>2. ASSUME NEW i \in 1 .. n
      PROVE  /\ i \in 1 .. n + 1 /\ i + 1 \in 1 .. n + 1
             /\ cut[i] \in 0 .. Len(seq) /\ cut[i + 1] \in 0 .. Len(seq) /\ cut[i] <= cut[i + 1]
             /\ slices[i] = SubSeq(seq, cut[i] + 1, cut[i + 1])
             /\ slices[i] \in Seq(S)
  <2>1. i \in 1 .. n + 1 /\ i + 1 \in 1 .. n + 1 /\ i <= i + 1
    OBVIOUS
  <2>2. cut[i] \in 0 .. Len(seq) /\ cut[i + 1] \in 0 .. Len(seq) /\ cut[i] <= cut[i + 1]
    BY <2>1
  <2>3. \A j \in cut[i] + 1 .. cut[i + 1] : seq[j] \in S
    BY <1>1, <2>2, ElementOfSeq
  <2>4. SubSeq(seq, cut[i] + 1, cut[i + 1]) \in Seq(S)
    <3>1. cut[i] + 1 \in Int /\ cut[i + 1] \in Int
      BY <1>1, <2>2
    <3> QED BY <2>3, <3>1, SubSeqProperties
  <2> QED BY <2>1, <2>2, <2>4
<1>3. slices \in Seq(Seq(S)) /\ Len(slices) = n
  <2>1. slices \in [1 .. n -> Seq(S)]
    BY <1>2
  <2> HIDE DEF slices
  <2> QED BY <2>1, IsASeq, LenProperties
<1> HIDE DEF slices
<1>4. FlattenSeq(slices) = flat[n]
  <2>1. Len(slices) # 0
    BY <1>3
  <2> QED BY <1>3, <2>1, Zenon DEF FlattenSeq
<1>5. IsFlat(flat)
  <2> DEFINE next == [p \in (1 .. n) \X Seq(S) |-> p[2] \o slices[p[1]]]
             first == slices[1]
  <2>1. first \in Seq(S)
    BY <1>2
  <2>2. next \in [(1 .. n) \X Seq(S) -> Seq(S)]
    <3>1. ASSUME NEW p \in (1 .. n) \X Seq(S) PROVE p[2] \o slices[p[1]] \in Seq(S)
      <4>1. p[1] \in 1 .. n /\ p[2] \in Seq(S)
        OBVIOUS
      <4> QED BY <1>2, <4>1, ConcatProperties
    <3> QED BY <3>1
  <2>3. \A i \in 1 .. n, t \in Seq(S) : next[<<i, t>>] = t \o slices[i]
    OBVIOUS
  <2> HIDE DEF next, first
  <2>4. PICK f : IsStepwise(f, n, Seq(S), first, next)
    BY <2>1, <2>2, StepwiseExists
  <2>5. ASSUME NEW i \in 1 .. n
        PROVE  f[i] = IF i = 1 THEN slices[i] ELSE f[i - 1] \o slices[i]
    <3>1. i # 1 => i - 1 \in 1 .. n
      OBVIOUS
    <3>2. i # 1 => f[i - 1] \in Seq(S)
      BY <2>4, <3>1 DEF IsStepwise
    <3> QED BY <2>3, <2>4, <3>2 DEF first, IsStepwise
  <2>6. IsFlat(f)
    <3>1. f = [i \in 1 .. n |-> f[i]]
      BY <2>4 DEF IsStepwise
    <3> QED BY <2>5, <3>1
  <2> HIDE DEF IsFlat
  <2> QED BY <2>6, Zenon
<1> HIDE DEF flat
<1>6. \A i \in 1 .. n : flat[i] = IF i = 1 THEN slices[i] ELSE flat[i - 1] \o slices[i]
  BY <1>5
<1> DEFINE Bad == {i \in 1 .. n : flat[i] # SubSeq(seq, 1, cut[i + 1])}
<1>7. ASSUME Bad # {} PROVE FALSE
  <2>1. Bad \subseteq Nat
    OBVIOUS
  <2>2. PICK i \in Bad : \A j \in Bad : i <= j
    <3> HIDE DEF Bad
    <3> QED BY <1>7, <2>1, LeastNumber
  <2>3. i \in 1 .. n /\ flat[i] # SubSeq(seq, 1, cut[i + 1])
    BY <2>2
  <2>4. CASE i = 1
    <3>1. cut[i] + 1 = 1
      BY <2>4
    <3> QED BY <1>2, <1>6, <2>3, <2>4, <3>1
  <2>5. CASE i # 1
    <3>1. i - 1 \in 1 .. n /\ (i - 1) + 1 = i /\ ~(i <= i - 1)
      BY <2>3, <2>5
    <3>2. i - 1 \notin Bad
      <4> HIDE DEF Bad
      <4> QED BY <2>2, <3>1
    <3>3. flat[i - 1] = SubSeq(seq, 1, cut[i])
      BY <3>1, <3>2
    <3>4. flat[i] = SubSeq(seq, 1, cut[i]) \o SubSeq(seq, cut[i] + 1, cut[i + 1])
      BY <1>2, <1>6, <2>3, <2>5, <3>3
    <3>5. cut[i] \in 1 - 1 .. Len(seq) /\ cut[i + 1] \in cut[i] .. Len(seq) /\ 1 \in 1 .. Len(seq) + 1
      BY <1>1, <1>2, <2>3
    <3>6. SubSeq(seq, 1, cut[i]) \o SubSeq(seq, cut[i] + 1, cut[i + 1]) = SubSeq(seq, 1, cut[i + 1])
      BY <3>5, ConcatAdjacentSubSeq
    <3> QED BY <2>3, <3>4, <3>6
  <2> QED BY <2>4, <2>5
<1>8. flat[n] = SubSeq(seq, 1, cut[n + 1])
  <2>1. n \in 1 .. n
    OBVIOUS
  <2> QED BY <1>7, <2>1
<1> QED BY <1>4, <1>8, SubSeqFull DEF slices

LEMMA MaxFacts ==
  ASSUME NEW n \in Nat, NEW T, T \subseteq 0 .. n, T # {}
  PROVE  Max(T) \in T
<1>1. PICK x \in T : \A y \in T : y <= x
  BY GreatestNumber
<1>2. \A y \in T : x >= y
  BY <1>1
<1> QED BY <1>2, Zenon DEF Max

(* A run of the continuity table stays among the characters, and all of    *)
(* them share a category: where it is counted down by what the run before  *)
(* shares, and where it is computed anew by how it is computed.            *)
LEMMA ContinuityFacts ==
  ASSUME NEW S, NEW cats \in Seq(S), NEW at \in 1 .. Len(cats)
  PROVE  LET last == at + CategoryContinuity(cats)[at] - 1
         IN last <= Len(cats) /\ (last > at => Common(cats, at, last) # {})
<1> DEFINE n == Len(cats)
           Lengths(i) == {1} \cup {l \in 2 .. n - i + 1 : Common(cats, i, i + l - 1) # {}}
           longest(i) == Max(Lengths(i))
           IsRun(f) == f = [i \in 1 .. n |->
                              IF i > 1 /\ f[i - 1] > 1 THEN f[i - 1] - 1 ELSE longest(i)]
           run == CHOOSE f : IsRun(f)
           Holds(i) == /\ run[i] \in Nat /\ run[i] >= 1 /\ i + run[i] - 1 <= n
                       /\ run[i] > 1 => Common(cats, i, i + run[i] - 1) # {}
<1>1. n \in Nat
  BY LenProperties
<1>2. CategoryContinuity(cats) = run
  BY Zenon DEF CategoryContinuity
<1> HIDE DEF n
<1>3. ASSUME NEW i \in 1 .. n
      PROVE  /\ longest(i) \in Nat /\ longest(i) >= 1 /\ i + longest(i) - 1 <= n
             /\ longest(i) > 1 => Common(cats, i, i + longest(i) - 1) # {}
  <2>1. Lengths(i) \subseteq 0 .. n /\ Lengths(i) # {}
    BY <1>1
  <2>2. longest(i) \in Lengths(i)
    <3> HIDE DEF Lengths
    <3> QED BY <1>1, <2>1, MaxFacts
  <2> HIDE DEF longest
  <2>3. CASE longest(i) = 1
    BY <1>1, <2>3
  <2>4. CASE longest(i) # 1
    <3>1. longest(i) \in 2 .. n - i + 1 /\ Common(cats, i, i + longest(i) - 1) # {}
      BY <2>2, <2>4
    <3> QED BY <1>1, <3>1
  <2> QED BY <2>3, <2>4
<1> HIDE DEF longest
<1>4. IsRun(run)
  <2>1. CASE n = 0
    <3> DEFINE f == [i \in 1 .. n |-> 0]
    <3>1. f = [i \in 1 .. n |-> IF i > 1 /\ f[i - 1] > 1 THEN f[i - 1] - 1 ELSE longest(i)]
      BY <2>1
    <3> HIDE DEF f
    <3> QED BY <3>1
  <2>2. CASE n # 0
    <3> DEFINE next == [p \in (1 .. n) \X Nat |-> IF p[2] > 1 THEN p[2] - 1 ELSE longest(p[1])]
               first == longest(1)
    <3>1. first \in Nat /\ 1 \in 1 .. n
      BY <1>1, <1>3, <2>2
    <3>2. next \in [(1 .. n) \X Nat -> Nat]
      <4>1. ASSUME NEW p \in (1 .. n) \X Nat
            PROVE  (IF p[2] > 1 THEN p[2] - 1 ELSE longest(p[1])) \in Nat
        <5>1. p[1] \in 1 .. n /\ p[2] \in Nat
          OBVIOUS
        <5> QED BY <1>3, <5>1
      <4> QED BY <4>1
    <3>3. \A i \in 1 .. n, l \in Nat : next[<<i, l>>] = IF l > 1 THEN l - 1 ELSE longest(i)
      OBVIOUS
    <3> HIDE DEF next
    <3>4. PICK f : IsStepwise(f, n, Nat, first, next)
      <4> HIDE DEF first
      <4> QED BY <1>1, <3>1, <3>2, StepwiseExists
    <3>5. ASSUME NEW i \in 1 .. n
          PROVE  f[i] = IF i > 1 /\ f[i - 1] > 1 THEN f[i - 1] - 1 ELSE longest(i)
      <4>1. CASE i = 1
        <5>1. ~(i > 1)
          BY <4>1
        <5>2. f[i] = longest(i)
          <6>1. f[i] = first
            BY <3>4, <4>1, Zenon DEF IsStepwise
          <6> QED BY <4>1, <6>1
        <5> QED BY <5>1, <5>2, Zenon
      <4>2. CASE i # 1
        <5>1. i > 1 /\ i - 1 \in 1 .. n
          BY <1>1, <4>2
        <5>2. f[i - 1] \in Nat
          BY <3>4, <5>1 DEF IsStepwise
        <5> QED BY <3>3, <3>4, <4>2, <5>1, <5>2 DEF IsStepwise
      <4> QED BY <4>1, <4>2
    <3>6. IsRun(f)
      <4>1. f = [i \in 1 .. n |-> f[i]]
        BY <3>4 DEF IsStepwise
      <4> QED BY <3>5, <4>1
    <3> HIDE DEF IsRun
    <3> QED BY <3>6, Zenon
  <2> QED BY <2>1, <2>2
<1> HIDE DEF run
<1>5. \A i \in 1 .. n :
        run[i] = IF i > 1 /\ run[i - 1] > 1 THEN run[i - 1] - 1 ELSE longest(i)
  BY <1>4
<1> DEFINE Bad == {i \in 1 .. n : ~Holds(i)}
<1>6. ASSUME Bad # {} PROVE FALSE
  <2>1. Bad \subseteq Nat
    OBVIOUS
  <2>2. PICK i \in Bad : \A j \in Bad : i <= j
    <3> HIDE DEF Bad
    <3> QED BY <1>6, <2>1, LeastNumber
  <2>3. i \in 1 .. n /\ ~Holds(i)
    BY <2>2
  <2>4. CASE i > 1 /\ run[i - 1] > 1
    <3>1. i - 1 \in 1 .. n /\ ~(i <= i - 1)
      BY <1>1, <2>3, <2>4
    <3>2. i - 1 \notin Bad
      <4> HIDE DEF Bad
      <4> QED BY <2>2, <3>1
    <3>3. Holds(i - 1)
      <4> HIDE DEF Holds
      <4> QED BY <3>1, <3>2
    <3> DEFINE last == (i - 1) + run[i - 1] - 1
    <3>4. last \in Nat /\ i <= last /\ last <= n
      BY <1>1, <2>3, <2>4, <3>3
    <3>5. Common(cats, i - 1, last) # {}
      BY <2>4, <3>3
    <3>6. run[i] = run[i - 1] - 1 /\ i + run[i] - 1 = last
      BY <1>5, <2>3, <2>4, <3>3
    <3> HIDE DEF last
    <3>7. Common(cats, i, last) # {}
      <4>1. PICK c : \A j \in i - 1 .. last : c \in cats[j]
        BY <3>5 DEF Common
      <4>2. i \in i - 1 .. last /\ \A j \in i .. last : j \in i - 1 .. last
        BY <1>1, <2>3, <3>4
      <4>3. c \in Common(cats, i, last)
        BY <4>1, <4>2 DEF Common
      <4> QED BY <4>3
    <3>8. run[i] \in Nat /\ run[i] >= 1
      BY <2>4, <3>3, <3>6
    <3> QED BY <2>3, <3>4, <3>6, <3>7, <3>8
  <2>5. CASE ~(i > 1 /\ run[i - 1] > 1)
    <3>1. run[i] = longest(i)
      BY <1>5, <2>3, <2>5
    <3> QED BY <1>3, <2>3, <3>1
  <2> QED BY <2>4, <2>5
<1>7. at \in 1 .. n
  BY DEF n
<1>8. Holds(at)
  <2> HIDE DEF Holds
  <2> QED BY <1>6, <1>7
<1>9. at + run[at] - 1 <= n
      /\ (at + run[at] - 1 > at => Common(cats, at, at + run[at] - 1) # {})
  BY <1>7, <1>8
<1> QED BY <1>2, <1>9 DEF n
-----------------------------------------------------------------------------
(* What the tables of a built buffer are, and why: a text begins with a    *)
(* character, also one that is half rewritten, and before build a table is *)
(* empty, since build adds to it.                                          *)
Begins(text) == text # << >> => text[1] # Cont

TextsBegin ==
  /\ Begins(modified)
  /\ phase = "resolving" => Begins(modified_2) /\ IsBoundary(modified, start)
  /\ \A i \in 1 .. Len(replaces) : replaces[i].with \in Replacements

TablesOf ==
  /\ mod_chars = CharsOf(modified)
  /\ mod_c2b = CharToByte(modified) /\ mod_b2c = ByteToChar(modified)
  /\ mod_cat = CategoriesOf(mod_chars) /\ mod_cat_continuity = CategoryContinuity(mod_cat)
  /\ m2o_2 = OrigByteToChar(original)

TablesBuilt ==
  /\ state # "RO" => mod_c2b = << >> /\ mod_b2c = << >> /\ mod_cat = << >>
  /\ state = "Clean" \/ phase = "resolving" => mod_chars = << >>
  /\ CharsAreFresh
  /\ state = "RO" => TablesOf

BuiltInv == MapInv /\ TextsBegin /\ TablesBuilt

LEMMA BeginsConcat ==
  ASSUME NEW u \in Seq(Byte), NEW t \in Seq(Byte), Begins(u), Begins(t)
  PROVE  Begins(u \o t)
<1>1. /\ u \o t \in Seq(Byte) /\ Len(u \o t) = Len(u) + Len(t)
      /\ Len(u) \in Nat /\ Len(t) \in Nat
      /\ \A i \in 1 .. Len(u) : (u \o t)[i] = u[i]
      /\ \A i \in 1 .. Len(t) : (u \o t)[Len(u) + i] = t[i]
  BY ConcatElements
<1>2. CASE u = << >>
  <2>1. u \o t = t
    BY <1>2, ConcatEmptySeq
  <2> QED BY <2>1
<1>3. CASE u # << >>
  <2>1. 1 \in 1 .. Len(u)
    BY <1>1, <1>3, EmptySeq
  <2> QED BY <1>1, <1>3, <2>1 DEF Begins
<1> QED BY <1>2, <1>3

LEMMA BeginsSlice ==
  ASSUME NEW text \in Seq(Byte), NEW a \in Nat, IsBoundary(text, a),
         NEW b \in Nat, a <= b, b <= Len(text)
  PROVE  SubSeq(text, a + 1, b) \in Seq(Byte) /\ Begins(SubSeq(text, a + 1, b))
<1>1. /\ SubSeq(text, a + 1, b) \in Seq(Byte) /\ Len(SubSeq(text, a + 1, b)) = b - a
      /\ \A i \in 1 .. b - a : SubSeq(text, a + 1, b)[i] = text[a + i]
  BY SliceProperties
<1>2. Len(text) \in Nat
  BY LenProperties
<1>3. ASSUME SubSeq(text, a + 1, b) # << >> PROVE SubSeq(text, a + 1, b)[1] # Cont
  <2>1. b - a # 0
    BY <1>1, <1>3, EmptySeq
  <2>2. 1 \in 1 .. b - a /\ a # Len(text)
    BY <1>2, <2>1
  <2> QED BY <1>1, <2>2 DEF IsBoundary
<1> QED BY <1>1, <1>3 DEF Begins

LEMMA TypesOfBuffer ==
  ASSUME MapInv
  PROVE  /\ modified \in Seq(Byte) /\ modified_2 \in Seq(Byte) /\ original \in Seq(Byte)
         /\ m2o \in Seq(Nat) /\ start \in Nat
         /\ Len(modified) \in Nat /\ Len(replaces) \in Nat /\ Len(original) \in Nat
BY LenProperties DEF MapInv, TypeOK

LEMMA InitBuiltInv == Init => BuiltInv
<1> SUFFICES ASSUME Init PROVE BuiltInv
  OBVIOUS
<1>1. MapInv
  BY InitMapInv
<1>2. Len(replaces) = 0
  BY EmptySeq DEF Init
<1>3. TextsBegin
  BY <1>2 DEF Init, TextsBegin, Begins
<1>4. TablesBuilt
  BY DEF Init, TablesBuilt, CharsAreFresh
<1> QED BY <1>1, <1>3, <1>4 DEF BuiltInv

(* Steps that leave the text and the tables alone.                         *)
LEMMA TextsKept ==
  ASSUME BuiltInv,
         UNCHANGED <<state, original, modified, m2o_2, mod_chars, tables>>,
         phase' # "resolving"
  PROVE  /\ TablesBuilt'
         /\ UNCHANGED replaces \/ replaces' = << >> => TextsBegin'
<1>1. Len(<< >>) = 0
  BY EmptySeq
<1> QED BY <1>1 DEF BuiltInv, TextsBegin, TablesBuilt, TablesOf, CharsAreFresh, Begins, tables

LEMMA ResetBuilt ==
  ASSUME BuiltInv, NEW text \in Texts, Reset(text) PROVE TextsBegin' /\ TablesBuilt'
<1>1. Len(<< >>) = 0
  BY EmptySeq
<1>2. /\ state' = "Clean" /\ modified' = << >> /\ phase' = "idle" /\ UNCHANGED replaces
      /\ mod_chars' = << >> /\ mod_c2b' = << >> /\ mod_b2c' = << >> /\ mod_cat' = << >>
  BY DEF Reset
<1>3. TextsBegin'
  BY <1>2 DEF BuiltInv, TextsBegin, Begins
<1>4. TablesBuilt'
  BY <1>2 DEF TablesBuilt, CharsAreFresh
<1> QED BY <1>3, <1>4

LEMMA StartBuildBuilt ==
  ASSUME BuiltInv, StartBuild PROVE TextsBegin' /\ TablesBuilt'
<1>1. /\ state = "Clean" /\ state' = "RW" /\ modified' = modified \o original
      /\ phase' = "idle" /\ UNCHANGED <<replaces, mod_chars, tables>>
      /\ MapInv /\ TextsBegin /\ TablesBuilt
  BY DEF StartBuild, BuiltInv
<1>2. Begins(modified')
  <2>1. modified = << >> /\ Begins(original)
    BY <1>1 DEF MapInv, Begins
  <2>2. modified' = original
    BY <1>1, <2>1, TypesOfBuffer, ConcatEmptySeq
  <2> QED BY <2>1, <2>2
<1>3. TextsBegin'
  BY <1>1, <1>2 DEF TextsBegin, Begins
<1>4. mod_chars = << >>
  BY <1>1 DEF TablesBuilt, CharsAreFresh
<1>5. TablesBuilt'
  BY <1>1, <1>4 DEF TablesBuilt, CharsAreFresh, tables
<1> QED BY <1>3, <1>5

LEMMA RefreshCharsBuilt ==
  ASSUME BuiltInv, RefreshChars PROVE TextsBegin' /\ TablesBuilt'
<1>1. /\ state = "RW" /\ phase = "idle" /\ mod_chars' = CharsOf(modified)
      /\ UNCHANGED <<mapping, tables>> /\ TextsBegin /\ TablesBuilt
  BY DEF RefreshChars, BuiltInv
<1>2. TextsBegin'
  BY <1>1 DEF TextsBegin, Begins, mapping
<1>3. TablesBuilt'
  BY <1>1 DEF TablesBuilt, CharsAreFresh, mapping, tables
<1> QED BY <1>2, <1>3

LEMMA RecordEditBuilt ==
  ASSUME BuiltInv, NEW from, NEW to, NEW with \in Replacements, RecordEdit(from, to, with)
  PROVE  TextsBegin' /\ TablesBuilt'
<1> DEFINE edit == [from |-> from, to |-> to, with |-> with]
           Edits == [from : Nat, to : 0 .. Len(modified), with : Seq(Byte)]
<1>1. /\ replaces' = Append(replaces, edit) /\ phase = "editing" /\ UNCHANGED phase
      /\ UNCHANGED <<state, original, modified, m2o_2, mod_chars, tables>>
      /\ MapInv /\ TextsBegin /\ TablesBuilt
  BY DEF RecordEdit, BuiltInv
<1>2. replaces \in Seq(Edits)
  BY <1>1 DEF MapInv, TypeOK
<1> HIDE DEF Edits
<1>3. /\ Len(replaces') = Len(replaces) + 1 /\ Len(replaces) \in Nat
      /\ \A i \in 1 .. Len(replaces) : replaces'[i] = replaces[i]
      /\ replaces'[Len(replaces) + 1] = edit
  <2> HIDE DEF edit
  <2>1. replaces \in Seq(Edits \cup {edit}) /\ edit \in Edits \cup {edit}
    BY <1>2, SeqMonotonic, Edits \subseteq Edits \cup {edit}
  <2> QED BY <1>1, <2>1, AppendProperties, LenProperties
<1>4. ASSUME NEW i \in 1 .. Len(replaces') PROVE replaces'[i].with \in Replacements
  <2>1. CASE i = Len(replaces) + 1
    BY <1>3, <2>1
  <2>2. CASE i # Len(replaces) + 1
    <3>1. i \in 1 .. Len(replaces)
      BY <1>3, <2>2
    <3> QED BY <1>1, <1>3, <3>1 DEF TextsBegin
  <2> QED BY <2>1, <2>2
<1>5. TextsBegin'
  BY <1>1, <1>4 DEF TextsBegin, Begins
<1>6. TablesBuilt'
  BY <1>1, TextsKept
<1> QED BY <1>5, <1>6

LEMMA BeginCommitBuilt ==
  ASSUME BuiltInv, BeginCommit PROVE TextsBegin' /\ TablesBuilt'
<1>1. /\ mod_chars' = << >> /\ modified_2' = << >> /\ start' = 0
      /\ phase = "editing" /\ phase' = "resolving" /\ replaces # << >>
      /\ UNCHANGED <<state, original, modified, replaces, tables>>
      /\ MapInv /\ TextsBegin /\ TablesBuilt /\ state = "RW"
  BY DEF BeginCommit, CharsOfCommit, BuiltInv, MapInv
<1>2. MapInv'
  BY <1>1, BeginCommitMapInv
<1>3. 0 < Len(modified) /\ modified \in Seq(Byte)
  <2>1. 0 < Len(modified')
    BY <1>1, <1>2 DEF MapInv, ScratchInv
  <2> QED BY <1>1, <2>1, TypesOfBuffer
<1>4. IsBoundary(modified, 0)
  <2>1. modified # << >>
    BY <1>3, EmptySeq
  <2> QED BY <1>1, <1>3, <2>1 DEF TextsBegin, Begins, IsBoundary
<1>5. TextsBegin'
  BY <1>1, <1>4 DEF TextsBegin, Begins, IsBoundary
<1>6. TablesBuilt'
  BY <1>1 DEF TablesBuilt, CharsAreFresh, tables
<1> QED BY <1>5, <1>6

(* What is appended begins with a character: what was not consumed begins  *)
(* behind an edit, or at the beginning, and so does a replacement.         *)
LEMMA ResolveEditBuilt ==
  ASSUME BuiltInv, ResolveEdit PROVE TextsBegin' /\ TablesBuilt'
<1> DEFINE edit == replaces[1]
           slice == SubSeq(modified, start + 1, edit.from)
<1>1. /\ modified_2' = (modified_2 \o slice) \o edit.with /\ start' = edit.to
      /\ replaces # << >> /\ phase = "resolving" /\ phase' \in {"idle", "resolving"}
      /\ replaces' = << >> \/ replaces' = Tail(replaces)
      /\ UNCHANGED <<state, original, modified, mod_chars, tables>>
      /\ MapInv /\ TextsBegin /\ TablesBuilt /\ state = "RW" /\ TypeOK
  BY DEF ResolveEdit, BuiltInv, MapInv
<1>2. 1 \in 1 .. Len(replaces)
  BY <1>1, EmptySeq DEF TypeOK
<1>3. /\ edit.from \in Nat /\ edit.to \in 0 .. Len(modified) /\ edit.with \in Seq(Byte)
      /\ edit.with \in Replacements
      /\ edit.from < edit.to /\ IsBoundary(modified, edit.to) /\ start <= edit.from
  <2>1. EditsOrdered /\ ScratchInv
    BY <1>1 DEF MapInv
  <2> QED BY <1>1, <1>2, <2>1, EditTypes DEF EditsOrdered, ScratchInv, TextsBegin
<1>4. /\ modified \in Seq(Byte) /\ modified_2 \in Seq(Byte) /\ start \in Nat
      /\ Len(modified) \in Nat /\ Len(replaces) \in Nat
  BY <1>1, TypesOfBuffer
<1>5. Begins(modified_2) /\ IsBoundary(modified, start)
  BY <1>1 DEF TextsBegin
<1>6. Begins(edit.with)
  BY <1>3, ReplacementsAssumption DEF Begins
<1>7. slice \in Seq(Byte) /\ Begins(slice)
  <2>1. edit.from <= Len(modified)
    BY <1>3, <1>4
  <2> QED BY <1>3, <1>4, <1>5, <2>1, BeginsSlice
<1> HIDE DEF slice
<1>8. Begins(modified_2')
  <2>1. modified_2 \o slice \in Seq(Byte) /\ Begins(modified_2 \o slice)
    BY <1>4, <1>5, <1>7, BeginsConcat, ConcatProperties
  <2> QED BY <1>1, <1>3, <1>6, <2>1, BeginsConcat
<1>9. ASSUME NEW i \in 1 .. Len(replaces') PROVE replaces'[i].with \in Replacements
  <2>1. CASE replaces' = << >>
    <3>1. Len(<< >>) = 0
      BY EmptySeq
    <3> QED BY <2>1, <3>1
  <2>2. CASE replaces' = Tail(replaces)
    <3> DEFINE Edits == [from : Nat, to : 0 .. Len(modified), with : Seq(Byte)]
    <3>1. replaces \in Seq(Edits)
      BY <1>1 DEF TypeOK
    <3> HIDE DEF Edits
    <3>2. /\ Len(Tail(replaces)) = Len(replaces) - 1
          /\ \A j \in 1 .. Len(Tail(replaces)) : Tail(replaces)[j] = replaces[j + 1]
      BY <1>1, <3>1, HeadTailProperties
    <3>3. i + 1 \in 1 .. Len(replaces)
      BY <1>4, <2>2, <3>2
    <3> QED BY <1>1, <2>2, <3>2, <3>3 DEF TextsBegin
  <2> QED BY <1>1, <2>1, <2>2
<1>10. TextsBegin'
  BY <1>1, <1>3, <1>8, <1>9 DEF TextsBegin, Begins, IsBoundary
<1>11. TablesBuilt'
  BY <1>1 DEF TablesBuilt, CharsAreFresh, tables
<1> QED BY <1>10, <1>11

LEMMA FinishCommitBuilt ==
  ASSUME BuiltInv, FinishCommit PROVE TextsBegin' /\ TablesBuilt'
<1> DEFINE rest == SubSeq(modified, start + 1, Len(modified))
<1>1. /\ modified' = modified_2 \o rest /\ phase = "resolving" /\ phase' = "idle"
      /\ UNCHANGED <<state, original, replaces, mod_chars, tables>>
      /\ MapInv /\ TextsBegin /\ TablesBuilt /\ state = "RW"
  BY DEF FinishCommit, BuiltInv, MapInv
<1>2. /\ modified \in Seq(Byte) /\ modified_2 \in Seq(Byte) /\ start \in Nat
      /\ Len(modified) \in Nat
  BY <1>1, TypesOfBuffer
<1>3. start <= Len(modified) /\ Begins(modified_2) /\ IsBoundary(modified, start)
  BY <1>1 DEF MapInv, ScratchInv, TextsBegin
<1>4. rest \in Seq(Byte) /\ Begins(rest)
  BY <1>2, <1>3, BeginsSlice
<1> HIDE DEF rest
<1>5. Begins(modified')
  BY <1>1, <1>2, <1>3, <1>4, BeginsConcat
<1>6. TextsBegin'
  BY <1>1, <1>5 DEF TextsBegin, Begins
<1>7. TablesBuilt'
  BY <1>1 DEF TablesBuilt, CharsAreFresh, tables
<1> QED BY <1>6, <1>7

LEMMA CategoriesOfType ==
  ASSUME NEW text \in Seq(Byte)
  PROVE  CategoriesOf(CharsOf(text)) \in Seq({Cats[c] : c \in Chars})
<1> DEFINE n == NumChars(text)
           S == {Cats[c] : c \in Chars}
           cats == CategoriesOf(CharsOf(text))
<1>1. /\ DOMAIN CharsOf(text) = 1 .. n /\ \A i \in 1 .. n : CharsOf(text)[i] \in Chars
      /\ n \in Nat
  BY CharsOfFacts, CharStartsFacts
<1> HIDE DEF n
<1>2. cats = [i \in 1 .. n |-> Cats[CharsOf(text)[i]]]
  BY <1>1 DEF CategoriesOf
<1>3. cats \in [1 .. n -> S]
  BY <1>1, <1>2
<1> HIDE DEF cats, S
<1>4. cats \in Seq(S)
  BY <1>1, <1>3, IsASeq
<1> QED BY <1>4 DEF cats, S

LEMMA BuildBuilt ==
  ASSUME BuiltInv, Build PROVE TextsBegin' /\ TablesBuilt'
<1>1. /\ state = "RW" /\ phase = "idle" /\ state' = "RO"
      /\ mod_chars' = CharsOf(modified)
      /\ mod_c2b' = mod_c2b \o CharToByte(modified)
      /\ mod_b2c' = mod_b2c \o ByteToChar(modified)
      /\ mod_cat' = mod_cat \o CategoriesOf(CharsOf(modified))
      /\ mod_cat_continuity' = CategoryContinuity(mod_cat')
      /\ m2o_2' = OrigByteToChar(original)
      /\ UNCHANGED <<original, modified, replaces, phase>>
      /\ MapInv /\ TextsBegin /\ TablesBuilt
  BY DEF Build, BuiltInv
<1>2. mod_c2b = << >> /\ mod_b2c = << >> /\ mod_cat = << >>
  BY <1>1 DEF TablesBuilt
<1>3. modified \in Seq(Byte)
  BY <1>1, TypesOfBuffer
<1>4. mod_c2b' = CharToByte(modified)
  <2>1. CharToByte(modified) \in Seq(Nat)
    BY <1>3, OffsetFacts
  <2> QED BY <1>1, <1>2, <2>1, ConcatEmptySeq
<1>5. mod_b2c' = ByteToChar(modified)
  <2>1. ByteToChar(modified) \in Seq(Int)
    BY <1>3, TablesAreInverse
  <2> QED BY <1>1, <1>2, <2>1, ConcatEmptySeq
<1>6. mod_cat' = CategoriesOf(mod_chars')
  BY <1>1, <1>2, <1>3, CategoriesOfType, ConcatEmptySeq
<1>7. TextsBegin'
  BY <1>1 DEF TextsBegin, Begins
<1>8. TablesOf'
  <2>1. modified' = modified /\ original' = original
    BY <1>1
  <2> QED BY <1>1, <1>4, <1>5, <1>6, <2>1, Zenon DEF TablesOf
<1>9. TablesBuilt'
  BY <1>1, <1>8 DEF TablesBuilt, CharsAreFresh
<1> QED BY <1>7, <1>9

LEMMA NextBuiltInv == BuiltInv /\ [Next]_vars => BuiltInv'
<1>1. BuiltInv /\ [Next]_vars => MapInv'
  BY NextMapInv DEF BuiltInv
<1> SUFFICES ASSUME BuiltInv, [Next]_vars PROVE TextsBegin' /\ TablesBuilt'
  BY <1>1 DEF BuiltInv
<1>2. ASSUME NEW text \in Texts, Reset(text) PROVE TextsBegin' /\ TablesBuilt'
  BY <1>2, ResetBuilt
<1>3. CASE StartBuildTooLong \/ OpenEditor \/ Rollback \/ CommitNothing
  <2>1. /\ UNCHANGED <<state, original, modified, m2o_2, mod_chars, tables>>
        /\ phase' # "resolving" /\ (UNCHANGED replaces \/ replaces' = << >>)
    BY <1>3 DEF StartBuildTooLong, OpenEditor, Rollback, CommitNothing
  <2> QED BY <2>1, TextsKept
<1>4. CASE StartBuild
  BY <1>4, StartBuildBuilt
<1>5. CASE RefreshChars
  BY <1>5, RefreshCharsBuilt
<1>6. ASSUME NEW from \in 0 .. Len(modified), NEW to \in 0 .. Len(modified),
             NEW with \in Replacements, RecordEdit(from, to, with)
      PROVE  TextsBegin' /\ TablesBuilt'
  BY <1>6, RecordEditBuilt
<1>7. CASE BeginCommit
  BY <1>7, BeginCommitBuilt
<1>8. CASE ResolveEdit
  BY <1>8, ResolveEditBuilt
<1>9. CASE FinishCommit
  BY <1>9, FinishCommitBuilt
<1>10. CASE Build
  BY <1>10, BuildBuilt
<1>11. CASE UNCHANGED vars
  BY <1>11 DEF BuiltInv, TextsBegin, TablesBuilt, TablesOf, CharsAreFresh, Begins,
               IsBoundary, vars, mapping, tables
<1> QED
  BY <1>2, <1>3, <1>4, <1>5, <1>6, <1>7, <1>8, <1>9, <1>10, <1>11 DEF Next
-----------------------------------------------------------------------------
(* What a built buffer has: its text, the tables of it, and the mapping.   *)
LEMMA BuiltFacts ==
  ASSUME BuiltInv, state = "RO"
  PROVE  /\ TablesOf /\ modified \in Seq(Byte) /\ original \in Seq(Byte) /\ m2o \in Seq(Nat)
         /\ Len(original) \in Nat /\ Begins(modified)
         /\ \A b \in 0 .. Len(modified) :
              m2o[b + 1] \in 0 .. Len(original)
              /\ (IsBoundary(modified, b) => IsBoundary(original, m2o[b + 1]))
         /\ \A a, b \in 0 .. Len(modified) : a <= b => m2o[a + 1] <= m2o[b + 1]
         /\ m2o[1] = 0 /\ (modified # << >> => m2o[Len(modified) + 1] = Len(original))
<1>1. MapInv /\ TextsBegin /\ TablesBuilt
  BY DEF BuiltInv
<1>2. /\ modified \in Seq(Byte) /\ original \in Seq(Byte) /\ m2o \in Seq(Nat)
      /\ Len(original) \in Nat /\ Len(modified) \in Nat
  BY <1>1, TypesOfBuffer
<1>3. /\ Len(m2o) = Len(modified) + 1 /\ m2o[1] = 0
      /\ \A i, j \in 1 .. Len(m2o) : i <= j => m2o[i] <= m2o[j]
      /\ modified # << >> => m2o[Len(m2o)] = Len(original)
      /\ \A b \in 0 .. Len(modified) : IsBoundary(modified, b) => IsBoundary(original, m2o[b + 1])
  BY <1>1 DEF MapInv, MappingWellFormed, BoundariesMapToBoundaries
<1>4. \A b \in 0 .. Len(modified) : b + 1 \in 1 .. Len(m2o)
  BY <1>2, <1>3
<1>5. ASSUME NEW b \in 0 .. Len(modified) PROVE m2o[b + 1] \in 0 .. Len(original)
  <2>1. b + 1 \in 1 .. Len(m2o) /\ Len(m2o) \in 1 .. Len(m2o) /\ b + 1 <= Len(m2o)
    BY <1>2, <1>3, <1>4
  <2>2. m2o[b + 1] \in Nat
    BY <1>2, <2>1, ElementOfSeq
  <2>3. CASE modified = << >>
    <3>1. b = 0
      BY <2>3, EmptySeq
    <3> QED BY <1>2, <1>3, <3>1
  <2>4. CASE modified # << >>
    <3>1. m2o[b + 1] <= Len(original)
      BY <1>3, <2>1, <2>4
    <3> QED BY <1>2, <2>2, <3>1
  <2> QED BY <2>3, <2>4
<1>6. ASSUME NEW a \in 0 .. Len(modified), NEW b \in 0 .. Len(modified), a <= b
      PROVE  m2o[a + 1] <= m2o[b + 1]
  <2>1. a + 1 <= b + 1
    BY <1>2, <1>6
  <2> QED BY <1>3, <1>4, <2>1
<1> QED BY <1>1, <1>2, <1>3, <1>5, <1>6 DEF TextsBegin, TablesBuilt

(* The characters of a built buffer, their bytes and the original's ones.  *)
LEMMA BuiltOffsets ==
  ASSUME BuiltInv, state = "RO"
  PROVE  LET n == NumChars(modified)
         IN  /\ n \in Nat /\ Len(mod_chars) = n /\ Len(mod_c2b) = n + 1
             /\ \A i \in 1 .. n + 1 : /\ mod_c2b[i] \in 0 .. Len(modified)
                                      /\ OrigByte(i) \in 0 .. Len(original)
                                      /\ IsBoundary(original, OrigByte(i))
             /\ \A i, j \in 1 .. n + 1 : i <= j => OrigByte(i) <= OrigByte(j)
<1> DEFINE n == NumChars(modified)
           o == CharToByte(modified)
<1>1. /\ modified \in Seq(Byte) /\ mod_chars = CharsOf(modified) /\ mod_c2b = o
      /\ \A b \in 0 .. Len(modified) :
           m2o[b + 1] \in 0 .. Len(original)
           /\ (IsBoundary(modified, b) => IsBoundary(original, m2o[b + 1]))
      /\ \A a, b \in 0 .. Len(modified) : a <= b => m2o[a + 1] <= m2o[b + 1]
  BY BuiltFacts DEF TablesOf
<1>2. /\ Len(o) = n + 1 /\ n \in Nat /\ Len(mod_chars) = n
      /\ \A k \in 1 .. n + 1 : o[k] \in 0 .. Len(modified) /\ IsBoundary(modified, o[k])
      /\ \A j, k \in 1 .. n + 1 : j <= k => o[j] <= o[k]
  BY <1>1, OffsetFacts, CharStartsFacts, CharsOfFacts
<1> HIDE DEF n, o
<1>3. ASSUME NEW i \in 1 .. n + 1
      PROVE  /\ mod_c2b[i] \in 0 .. Len(modified) /\ OrigByte(i) \in 0 .. Len(original)
             /\ IsBoundary(original, OrigByte(i))
  <2>1. mod_c2b[i] \in 0 .. Len(modified) /\ IsBoundary(modified, mod_c2b[i])
    BY <1>1, <1>2
  <2> QED BY <1>1, <2>1 DEF OrigByte
<1>4. ASSUME NEW i \in 1 .. n + 1, NEW j \in 1 .. n + 1, i <= j
      PROVE  OrigByte(i) <= OrigByte(j)
  <2>1. mod_c2b[i] \in 0 .. Len(modified) /\ mod_c2b[j] \in 0 .. Len(modified)
        /\ mod_c2b[i] <= mod_c2b[j]
    BY <1>1, <1>2, <1>4
  <2> QED BY <1>1, <2>1 DEF OrigByte
<1> QED BY <1>1, <1>2, <1>3, <1>4 DEF n

LEMMA BuiltIndexTables == BuiltInv => IndexTablesAgree
<1> SUFFICES ASSUME BuiltInv, state = "RO"
             PROVE  /\ Len(mod_c2b) = Len(mod_chars) + 1
                    /\ Len(mod_b2c) = Len(modified) + 1
                    /\ \A c \in 1 .. Len(mod_chars) :
                         \A b \in mod_c2b[c] .. mod_c2b[c + 1] - 1 : mod_b2c[b + 1] = c - 1
  BY DEF IndexTablesAgree
<1>1. /\ modified \in Seq(Byte) /\ mod_chars = CharsOf(modified)
      /\ mod_c2b = CharToByte(modified) /\ mod_b2c = ByteToChar(modified)
  BY BuiltFacts DEF TablesOf
<1> QED BY <1>1, TablesAreInverse

LEMMA BuiltOrigChars == BuiltInv => OrigCharIndexDefined
<1> SUFFICES ASSUME BuiltInv, state = "RO",
                    NEW i \in 1 .. Len(mod_c2b), NEW j \in 1 .. Len(mod_c2b)
             PROVE  /\ m2o_2[OrigByte(i) + 1] # NoChar
                    /\ i <= j => m2o_2[OrigByte(i) + 1] <= m2o_2[OrigByte(j) + 1]
  BY DEF OrigCharIndexDefined
<1>1. original \in Seq(Byte) /\ m2o_2 = OrigByteToChar(original)
  BY BuiltFacts DEF TablesOf
<1>2. /\ OrigByte(i) \in 0 .. Len(original) /\ IsBoundary(original, OrigByte(i))
      /\ OrigByte(j) \in 0 .. Len(original) /\ IsBoundary(original, OrigByte(j))
      /\ i <= j => OrigByte(i) <= OrigByte(j)
  BY BuiltOffsets
<1> QED BY <1>1, <1>2, OrigCharsAscend

LEMMA BuiltContinuity == BuiltInv => ContinuitySpansOneCategory
<1> SUFFICES ASSUME BuiltInv, state = "RO", NEW i \in 1 .. Len(mod_cat)
             PROVE  LET last == i + mod_cat_continuity[i] - 1
                    IN  last <= Len(mod_cat) /\ (last > i => Common(mod_cat, i, last) # {})
  BY DEF ContinuitySpansOneCategory
<1>1. /\ modified \in Seq(Byte) /\ mod_cat = CategoriesOf(CharsOf(modified))
      /\ mod_cat_continuity = CategoryContinuity(mod_cat)
  BY BuiltFacts DEF TablesOf
<1>2. mod_cat \in Seq({Cats[c] : c \in Chars})
  BY <1>1, CategoriesOfType
<1> QED BY <1>1, <1>2, ContinuityFacts

LEMMA BuiltSurfaces == BuiltInv => SurfacesTileOriginal
<1> SUFFICES ASSUME BuiltInv, state = "RO", modified # << >>
             PROVE  FlattenSeq([i \in 1 .. Len(mod_chars) |->
                      SubSeq(original, OrigByte(i) + 1, OrigByte(i + 1))]) = original
  BY DEF SurfacesTileOriginal
<1> DEFINE n == NumChars(modified)
           cut == [i \in 1 .. n + 1 |-> OrigByte(i)]
<1>1. /\ n \in Nat /\ Len(mod_chars) = n
      /\ \A i \in 1 .. n + 1 : OrigByte(i) \in 0 .. Len(original)
      /\ \A i, j \in 1 .. n + 1 : i <= j => OrigByte(i) <= OrigByte(j)
  BY BuiltOffsets
<1>2. /\ modified \in Seq(Byte) /\ original \in Seq(Byte) /\ mod_c2b = CharToByte(modified)
      /\ m2o[1] = 0 /\ m2o[Len(modified) + 1] = Len(original) /\ modified[1] # Cont
      /\ Len(modified) \in Nat
  BY BuiltFacts, LenProperties DEF TablesOf, Begins
<1>3. 0 \in CharStarts(modified)
  <2>1. Len(modified) # 0
    BY <1>2, EmptySeq
  <2> QED BY <1>2, <2>1 DEF CharStarts
<1>4. /\ mod_c2b[n + 1] = Len(modified)
      /\ \A i \in 1 .. n + 1 : mod_c2b[i] \in 0 .. Len(modified)
      /\ \A i, j \in 1 .. n + 1 : i <= j => mod_c2b[i] <= mod_c2b[j]
      /\ \A b \in CharStarts(modified) : \E k \in 1 .. n : mod_c2b[k] = b
  BY <1>2, OffsetFacts
<1> HIDE DEF n
<1>5. n > 0 /\ mod_c2b[1] = 0
  <2>1. PICK k \in 1 .. n : mod_c2b[k] = 0
    BY <1>3, <1>4
  <2>2. 1 \in 1 .. n + 1 /\ k \in 1 .. n + 1 /\ 1 <= k
    BY <1>1, <2>1
  <2>3. mod_c2b[1] \in 0 .. Len(modified) /\ mod_c2b[1] <= 0
    BY <1>4, <2>1, <2>2
  <2> QED BY <1>1, <1>2, <2>1, <2>3
<1>6. /\ \A i \in 1 .. n + 1 : cut[i] \in 0 .. Len(original)
      /\ \A i, j \in 1 .. n + 1 : i <= j => cut[i] <= cut[j]
      /\ cut[1] = 0 /\ cut[n + 1] = Len(original)
  <2>1. OrigByte(1) = 0 /\ OrigByte(n + 1) = Len(original)
    BY <1>2, <1>4, <1>5 DEF OrigByte
  <2>2. 1 \in 1 .. n + 1 /\ n + 1 \in 1 .. n + 1
    BY <1>1
  <2> QED BY <1>1, <2>1, <2>2
<1>7. \A i \in 1 .. n : cut[i] = OrigByte(i) /\ cut[i + 1] = OrigByte(i + 1)
  <2>1. \A i \in 1 .. n : i \in 1 .. n + 1 /\ i + 1 \in 1 .. n + 1
    BY <1>1
  <2> QED BY <2>1
<1> HIDE DEF cut
<1>8. FlattenSeq([i \in 1 .. n |-> SubSeq(original, cut[i] + 1, cut[i + 1])]) = original
  BY <1>1, <1>2, <1>5, <1>6, SlicesFlatten
<1>9. [i \in 1 .. n |-> SubSeq(original, cut[i] + 1, cut[i + 1])]
      = [i \in 1 .. Len(mod_chars) |-> SubSeq(original, OrigByte(i) + 1, OrigByte(i + 1))]
  BY <1>1, <1>7
<1> QED BY <1>8, <1>9

(* The tables of build are those of the rewritten text, whatever was       *)
(* edited, for every definition of the categories: the index tables agree, *)
(* each character has an original one, a run shares a category, and the    *)
(* surfaces are the original text (build, CharacterCategory::compile).     *)
THEOREM TablesAreOfTheText == Spec => []TablesDescribeText
<1>1. Init => BuiltInv
  BY InitBuiltInv
<1>2. BuiltInv /\ [Next]_vars => BuiltInv'
  BY NextBuiltInv
<1>3. BuiltInv => TablesDescribeText
  <2>1. BuiltInv => CharsAreFresh
    BY DEF BuiltInv, TablesBuilt
  <2> QED BY <2>1, CategoriesAlwaysGiven, BuiltIndexTables, BuiltOrigChars, BuiltContinuity,
             BuiltSurfaces DEF TablesDescribeText
<1> QED BY <1>1, <1>2, <1>3, PTL DEF Spec

(* So the mapping, the limit and the tables stay correct with the plugins  *)
(* themselves, which read the text they edit (with_editor, commit, build). *)
THEOREM PluginsKeepMapping ==
  PluginSpec => [](MappingCorrect /\ LengthCorrect /\ TablesDescribeText)
BY PluginsEditInOrder, MappingIsCorrect, LengthIsCorrect, TablesAreOfTheText, PTL
   DEF EditsAreSorted
=============================================================================

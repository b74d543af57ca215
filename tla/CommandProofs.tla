---------------------------- MODULE CommandProofs ----------------------------
(***************************************************************************)
(* Proofs about the commands that read files their users go on editing:    *)
(* about LintReport and LintRun for any files, texts, configurations and   *)
(* reports, and for any number of runs; about AcademicAudit for any        *)
(* contract, any files and any order of saving them and auditing them.     *)
(***************************************************************************)
EXTENDS LintRun, AcademicAudit, SequenceLemmas, FiniteSetTheorems, FunctionTheorems

(* A member of a set of sequences, and one appended to it.                 *)
LEMMA SeqFacts ==
  ASSUME NEW S, NEW s \in Seq(S)
  PROVE  /\ Len(s) \in Nat /\ DOMAIN s = 1 .. Len(s)
         /\ \A i \in DOMAIN s : s[i] \in S
BY ElementOfSeq, LenProperties

LEMMA AppendFacts ==
  ASSUME NEW S, NEW s \in Seq(S), NEW e \in S
  PROVE  /\ Append(s, e) \in Seq(S) /\ Len(Append(s, e)) = Len(s) + 1
         /\ DOMAIN Append(s, e) = (DOMAIN s) \cup {Len(s) + 1}
         /\ Len(s) + 1 \notin DOMAIN s
         /\ \A i \in DOMAIN s : Append(s, e)[i] = s[i]
         /\ Append(s, e)[Len(s) + 1] = e
<1>1. Len(s) \in Nat /\ DOMAIN s = 1 .. Len(s)
  BY SeqFacts
<1>2. /\ Append(s, e) \in Seq(S) /\ Len(Append(s, e)) = Len(s) + 1
      /\ \A i \in 1 .. Len(s) : Append(s, e)[i] = s[i]
      /\ Append(s, e)[Len(s) + 1] = e
  BY AppendProperties
<1>3. DOMAIN Append(s, e) = 1 .. Len(s) + 1
  BY <1>2, SeqFacts
<1> QED
  BY <1>1, <1>2, <1>3

(* Positions of a sequence are finitely many.                              *)
LEMMA PositionsFinite ==
  ASSUME NEW S, NEW s \in Seq(S), NEW T \in SUBSET DOMAIN s
  PROVE  IsFiniteSet(T) /\ Cardinality(T) \in Nat
<1>1. IsFiniteSet(DOMAIN s)
  BY SeqFacts, FS_Interval
<1>2. IsFiniteSet(T)
  BY <1>1, FS_Subset
<1> QED
  BY <1>2, FS_CardinalityType
-----------------------------------------------------------------------------
(* The keys of the comparison say what SameFinding says.                   *)
IsFinding(f) == f.category \in Categories /\ f.head \in Heads

LEMMA KeyOfFinding ==
  ASSUME NEW f, IsFinding(f)
  PROVE  Key(f) \in Keys
<1> DEFINE g == [category |-> f.category, head |-> f.head]
<1>1. g \in Finding /\ Key(g) = Key(f)
  BY DEF IsFinding, Finding, Key
<1> QED
  BY <1>1 DEF Keys

LEMMA SameKey ==
  ASSUME NEW f, NEW g, IsFinding(f), IsFinding(g)
  PROVE  Key(f) = Key(g) <=> SameFinding(f, g)
BY DEF Key, SameFinding

LEMMA FindingIsFinding ==
  /\ \A f \in Finding : IsFinding(f)
  /\ \A f \in AnyFinding : IsFinding(f)
BY DEF Finding, AnyFinding, IsFinding

(* The comparison, before and after every finding: buckets only shrink, by *)
(* their first entry, once for each persisting finding of their key.       *)
StatusNames == {"new", "persisting"}

Likes(k) == {i \in WithStatus("persisting") : Key(findings[i]) = k}
Taken(k) == Bucket(entries, k) \ left[k]

ComparisonTypes ==
  /\ entries \in Entries /\ findings \in Seq(AnyFinding)
  /\ status \in Seq(StatusNames) /\ Len(status) <= Len(findings)
  /\ DOMAIN left = Keys /\ \A k \in Keys : left[k] \subseteq Bucket(entries, k)
  /\ pc = "done" => Len(status) = Len(findings)

OneForOne == \A k \in Keys : Cardinality(Taken(k)) = Cardinality(Likes(k))

FirstAreTaken ==
  \A k \in Keys : \A j \in left[k], i \in Taken(k) : i < j

NewHadNoEntry == \A i \in WithStatus("new") : left[Key(findings[i])] = {}

TakenInAll ==
  Cardinality(Usable(entries) \ Resolved) = Cardinality(WithStatus("persisting"))

ComparisonInv ==
  /\ ComparisonTypes /\ OneForOne /\ FirstAreTaken /\ NewHadNoEntry
  /\ TakenInAll

(* Every usable entry lies in the bucket of its key and in no other.       *)
LEMMA UsableEntry ==
  ASSUME NEW es \in Entries, NEW j \in Usable(es)
  PROVE  IsFinding(es[j]) /\ Key(es[j]) \in Keys /\ j \in Bucket(es, Key(es[j]))
<1>1. es[j] \in Finding
  BY SeqFacts DEF Entries, Usable
<1>2. IsFinding(es[j])
  BY <1>1, FindingIsFinding
<1> QED
  BY <1>2, KeyOfFinding DEF Bucket

(* Before the first finding nothing is taken.                              *)
FreshComparison ==
  /\ entries \in Entries /\ findings \in Seq(AnyFinding)
  /\ left = Buckets(entries) /\ status = << >>
  /\ pc = "done" => findings = << >>

LEMMA FreshIsSound == FreshComparison => ComparisonInv
<1> SUFFICES ASSUME FreshComparison PROVE ComparisonInv
  OBVIOUS
<1>1. WithStatus("persisting") = {} /\ WithStatus("new") = {}
  BY DEF WithStatus, FreshComparison
<1>2. \A k \in Keys : Taken(k) = {} /\ Likes(k) = {}
  BY <1>1 DEF Taken, Likes, FreshComparison, Buckets
<1>3. Usable(entries) \ Resolved = {}
  <2>1. \A j \in Usable(entries) : j \in Resolved
    BY UsableEntry DEF Resolved, FreshComparison, Buckets
  <2> QED
    BY <2>1
<1>4. ComparisonTypes
  <2>1. status \in Seq(StatusNames) /\ Len(status) = 0 /\ Len(findings) \in Nat
    BY SeqFacts, EmptySeq DEF FreshComparison
  <2>2. pc = "done" => Len(findings) = 0
    BY EmptySeq DEF FreshComparison
  <2> QED
    BY <2>1, <2>2 DEF ComparisonTypes, FreshComparison, Buckets
<1> QED
  BY <1>1, <1>2, <1>3, <1>4, FS_EmptySet
     DEF ComparisonInv, OneForOne, FirstAreTaken, NewHadNoEntry, TakenInAll

(* One more finding has its status.                                        *)
LEMMA MoreStatus ==
  ASSUME ComparisonTypes, Len(status) < Len(findings),
         NEW m \in StatusNames, status' = Append(status, m)
  PROVE  /\ status' \in Seq(StatusNames) /\ Len(status') = Len(status) + 1
         /\ Len(status) + 1 \in DOMAIN findings
         /\ WithStatus(m)' = WithStatus(m) \cup {Len(status) + 1}
         /\ \A x \in StatusNames \ {m} : WithStatus(x)' = WithStatus(x)
         /\ \A x \in StatusNames : /\ Len(status) + 1 \notin WithStatus(x)
                                   /\ WithStatus(x) \subseteq DOMAIN findings
<1>1. /\ status \in Seq(StatusNames) /\ findings \in Seq(AnyFinding)
      /\ Len(status) <= Len(findings)
  BY DEF ComparisonTypes
<1>2. /\ Len(status) \in Nat /\ DOMAIN status = 1 .. Len(status)
      /\ Len(findings) \in Nat /\ DOMAIN findings = 1 .. Len(findings)
  BY <1>1, SeqFacts
<1>3. /\ status' \in Seq(StatusNames) /\ Len(status') = Len(status) + 1
      /\ DOMAIN status' = (DOMAIN status) \cup {Len(status) + 1}
      /\ Len(status) + 1 \notin DOMAIN status
      /\ \A i \in DOMAIN status : status'[i] = status[i]
      /\ status'[Len(status) + 1] = m
  BY <1>1, AppendFacts
<1> QED
  BY <1>2, <1>3 DEF WithStatus

LEMMA CurrentIsFinding ==
  ASSUME ComparisonTypes, Len(status) < Len(findings)
  PROVE  /\ Len(status) + 1 \in DOMAIN findings
         /\ IsFinding(Current) /\ Key(Current) \in Keys
<1>1. Len(status) + 1 \in DOMAIN findings /\ Current \in AnyFinding
  BY SeqFacts DEF ComparisonTypes, Current
<1> QED
  BY <1>1, FindingIsFinding, KeyOfFinding

(* What lies in buckets and what was taken out are positions of entries.   *)
LEMMA BucketsFinite ==
  ASSUME ComparisonTypes
  PROVE  /\ \A k \in Keys : /\ left[k] \subseteq Usable(entries)
                            /\ IsFiniteSet(left[k]) /\ IsFiniteSet(Taken(k))
                            /\ IsFiniteSet(Bucket(entries, k))
                            /\ \A j \in left[k] : Key(entries[j]) = k
                            /\ left[k] \subseteq 1 .. Len(entries)
         /\ IsFiniteSet(Usable(entries)) /\ IsFiniteSet(Resolved)
         /\ Resolved \subseteq Usable(entries) /\ Len(entries) \in Nat
<1>1. /\ entries \in Entries /\ DOMAIN entries = 1 .. Len(entries)
      /\ Len(entries) \in Nat
  BY SeqFacts DEF ComparisonTypes, Entries
<1>2. ASSUME NEW k \in Keys
      PROVE  /\ left[k] \subseteq Bucket(entries, k)
             /\ Bucket(entries, k) \subseteq Usable(entries)
  BY DEF ComparisonTypes, Bucket
<1>3. Usable(entries) \subseteq DOMAIN entries
  BY DEF Usable
<1>4. Resolved \subseteq Usable(entries)
  BY <1>2 DEF Resolved
<1>5. \A T \in SUBSET Usable(entries) : IsFiniteSet(T)
  BY <1>1, <1>3, PositionsFinite DEF Entries
<1> QED
  BY <1>1, <1>2, <1>3, <1>4, <1>5 DEF Taken, Bucket

LEMMA FirstIsFirst ==
  ASSUME ComparisonTypes, NEW k \in Keys, left[k] # {}
  PROVE  First(left[k]) \in left[k] /\ \A i \in left[k] : First(left[k]) <= i
<1>1. left[k] \subseteq Nat
  BY BucketsFinite
<1> QED
  BY <1>1, LeastNatural DEF First

(* The finding takes the first entry left in its bucket.                   *)
LEMMA PersistsKeeps ==
  ASSUME ComparisonInv, Persists
  PROVE  ComparisonInv'
<1> PICK k : k = Key(Current)
  OBVIOUS
<1> PICK f : f = First(left[k])
  OBVIOUS
<1> PICK c : c = Len(status) + 1
  OBVIOUS
<1>1. /\ ComparisonTypes /\ Len(status) < Len(findings) /\ pc = "compare"
      /\ left[k] # {} /\ left' = [left EXCEPT ![k] = left[k] \ {f}]
      /\ status' = Append(status, "persisting")
      /\ UNCHANGED <<entries, findings, pc>>
  BY DEF ComparisonInv, Persists, WithoutFirst
<1>2. k \in Keys /\ Key(findings[c]) = k
  BY <1>1, CurrentIsFinding DEF Current
<1>3. f \in left[k] /\ \A i \in left[k] : f <= i
  BY <1>1, <1>2, FirstIsFirst
<1>4. /\ status' \in Seq(StatusNames) /\ Len(status') = c
      /\ WithStatus("persisting")' = WithStatus("persisting") \cup {c}
      /\ WithStatus("new")' = WithStatus("new")
      /\ c \notin WithStatus("persisting")
      /\ WithStatus("persisting") \subseteq DOMAIN findings
      /\ WithStatus("new") \subseteq DOMAIN findings
  BY <1>1, MoreStatus DEF StatusNames
<1>5. /\ DOMAIN left' = Keys /\ left'[k] = left[k] \ {f}
      /\ \A k2 \in Keys \ {k} : left'[k2] = left[k2]
  BY <1>1, <1>2 DEF ComparisonTypes
<1>6. /\ Taken(k)' = Taken(k) \cup {f} /\ f \notin Taken(k)
      /\ \A k2 \in Keys \ {k} : Taken(k2)' = Taken(k2)
  BY <1>1, <1>2, <1>3, <1>5 DEF Taken, ComparisonTypes
<1>7. /\ Likes(k)' = Likes(k) \cup {c} /\ c \notin Likes(k)
      /\ \A k2 \in Keys \ {k} : Likes(k2)' = Likes(k2)
  BY <1>1, <1>2, <1>4 DEF Likes
<1>8. Resolved' = Resolved \ {f} /\ f \in Resolved
  <2>1. \A k2 \in Keys : f \in left[k2] => k2 = k
    BY <1>1, <1>2, <1>3, BucketsFinite
  <2> QED
    BY <1>2, <1>3, <1>5, <2>1 DEF Resolved
<1>9. findings \in Seq(AnyFinding) /\ IsFiniteSet(WithStatus("persisting"))
  BY <1>1, <1>4, PositionsFinite DEF ComparisonTypes
<1>10. ComparisonTypes'
  <2>1. Len(status) \in Nat /\ Len(findings) \in Nat
    BY <1>1, SeqFacts DEF ComparisonTypes
  <2>2. c <= Len(findings)
    BY <1>1, <2>1
  <2>3. \A k2 \in Keys : left'[k2] \subseteq Bucket(entries, k2)
    BY <1>1, <1>2, <1>5 DEF ComparisonTypes
  <2> QED
    BY <1>1, <1>4, <1>5, <2>2, <2>3 DEF ComparisonTypes
<1>11. OneForOne'
  <2>1. ASSUME NEW k2 \in Keys
        PROVE  /\ IsFiniteSet(Taken(k2)) /\ IsFiniteSet(Likes(k2))
               /\ Cardinality(Taken(k2)) = Cardinality(Likes(k2))
    <3>1. Likes(k2) \in SUBSET WithStatus("persisting")
      BY DEF Likes
    <3> QED
      BY <1>1, <1>9, <3>1, BucketsFinite, FS_Subset DEF ComparisonInv, OneForOne
  <2>2. Cardinality(Taken(k) \cup {f}) = Cardinality(Likes(k) \cup {c})
    <3>1. Cardinality(Taken(k) \cup {f}) = Cardinality(Taken(k)) + 1
      BY <1>2, <1>6, <2>1, FS_AddElement
    <3>2. Cardinality(Likes(k) \cup {c}) = Cardinality(Likes(k)) + 1
      BY <1>2, <1>7, <2>1, FS_AddElement
    <3> QED
      BY <1>2, <2>1, <3>1, <3>2
  <2> QED
    BY <1>2, <1>6, <1>7, <2>1, <2>2 DEF OneForOne
<1>12. FirstAreTaken'
  <2> SUFFICES ASSUME NEW k2 \in Keys, NEW j \in left'[k2], NEW i \in Taken(k2)'
               PROVE  i < j
    BY DEF FirstAreTaken
  <2>1. CASE k2 # k
    BY <1>5, <1>6, <2>1 DEF ComparisonInv, FirstAreTaken
  <2>2. CASE k2 = k /\ i # f
    BY <1>5, <1>6, <2>2 DEF ComparisonInv, FirstAreTaken
  <2>3. CASE k2 = k /\ i = f
    <3>1. j \in left[k] /\ j # f /\ f <= j /\ left[k] \subseteq Nat
      BY <1>1, <1>2, <1>3, <1>5, <2>3, BucketsFinite
    <3> QED
      BY <1>3, <2>3, <3>1
  <2> QED
    BY <2>1, <2>2, <2>3
<1>13. NewHadNoEntry'
  <2>1. \A i \in WithStatus("new") : Key(findings[i]) \in Keys
    BY <1>4, <1>9, SeqFacts, FindingIsFinding, KeyOfFinding
  <2> QED
    BY <1>1, <1>3, <1>4, <1>5, <2>1 DEF ComparisonInv, NewHadNoEntry
<1>14. TakenInAll'
  <2>1. /\ (Usable(entries) \ Resolved)' = (Usable(entries) \ Resolved) \cup {f}
        /\ f \notin Usable(entries) \ Resolved
    BY <1>1, <1>8, BucketsFinite
  <2>2. IsFiniteSet(Usable(entries) \ Resolved)
    BY <1>1, BucketsFinite, FS_Difference
  <2>3. Cardinality((Usable(entries) \ Resolved)')
          = Cardinality(Usable(entries) \ Resolved) + 1
    BY <2>1, <2>2, FS_AddElement
  <2>4. Cardinality(WithStatus("persisting")')
          = Cardinality(WithStatus("persisting")) + 1
    BY <1>4, <1>9, FS_AddElement
  <2> QED
    BY <2>3, <2>4 DEF ComparisonInv, TakenInAll
<1> QED
  BY <1>10, <1>11, <1>12, <1>13, <1>14 DEF ComparisonInv

(* Nothing is left for the finding.                                        *)
LEMMA IsNewKeeps ==
  ASSUME ComparisonInv, IsNew
  PROVE  ComparisonInv'
<1> DEFINE c == Len(status) + 1
<1>1. /\ ComparisonTypes /\ Len(status) < Len(findings) /\ pc = "compare"
      /\ left[Key(findings[c])] = {} /\ status' = Append(status, "new")
      /\ UNCHANGED <<entries, findings, left, pc>>
  BY DEF ComparisonInv, IsNew, Current
<1>2. /\ status' \in Seq(StatusNames) /\ Len(status') = c
      /\ WithStatus("new")' = WithStatus("new") \cup {c}
      /\ WithStatus("persisting")' = WithStatus("persisting")
  BY <1>1, MoreStatus DEF StatusNames
<1>3. Len(status) \in Nat /\ Len(findings) \in Nat
  BY <1>1, SeqFacts DEF ComparisonTypes
<1>4. ComparisonTypes'
  BY <1>1, <1>2, <1>3 DEF ComparisonTypes
<1>5. /\ \A k \in Keys : Taken(k)' = Taken(k) /\ Likes(k)' = Likes(k)
      /\ Resolved' = Resolved /\ Usable(entries)' = Usable(entries)
  BY <1>1, <1>2 DEF Taken, Likes, Resolved
<1> HIDE DEF c
<1>6. OneForOne' /\ FirstAreTaken' /\ TakenInAll'
  BY <1>1, <1>2, <1>5 DEF ComparisonInv, OneForOne, FirstAreTaken, TakenInAll
<1>7. NewHadNoEntry'
  BY <1>1, <1>2 DEF ComparisonInv, NewHadNoEntry
<1> QED
  BY <1>4, <1>6, <1>7 DEF ComparisonInv

LEMMA SummarizeKeeps ==
  ASSUME ComparisonInv, Summarize
  PROVE  ComparisonInv'
<1>1. UNCHANGED <<entries, findings, left, status>> /\ Len(status) = Len(findings)
  BY DEF Summarize
<1>2. ComparisonTypes'
  BY <1>1 DEF ComparisonInv, ComparisonTypes
<1>3. OneForOne' /\ FirstAreTaken' /\ NewHadNoEntry' /\ TakenInAll'
  BY <1>1 DEF ComparisonInv, OneForOne, FirstAreTaken, NewHadNoEntry, TakenInAll,
              Taken, Likes, WithStatus, Resolved
<1> QED
  BY <1>2, <1>3 DEF ComparisonInv

LEMMA StatusIsOfFinding ==
  ASSUME ComparisonTypes, NEW x
  PROVE  /\ IsFiniteSet(WithStatus(x)) /\ WithStatus(x) \subseteq DOMAIN findings
         /\ \A i \in WithStatus(x) : IsFinding(findings[i])
<1>1. /\ status \in Seq(StatusNames) /\ findings \in Seq(AnyFinding)
      /\ Len(status) <= Len(findings)
  BY DEF ComparisonTypes
<1>2. /\ DOMAIN status = 1 .. Len(status) /\ DOMAIN findings = 1 .. Len(findings)
      /\ Len(status) \in Nat /\ Len(findings) \in Nat
  BY <1>1, SeqFacts
<1>3. WithStatus(x) \subseteq DOMAIN status
  BY DEF WithStatus
<1>4. DOMAIN status \subseteq DOMAIN findings
  BY <1>1, <1>2
<1>5. \A i \in DOMAIN findings : IsFinding(findings[i])
  BY <1>1, SeqFacts, FindingIsFinding
<1>6. IsFiniteSet(WithStatus(x))
  BY <1>1, <1>3, PositionsFinite
<1> QED
  BY <1>3, <1>4, <1>5, <1>6

(* The two ways of saying which findings and entries are the same.         *)
LEMMA LikesAreAlike ==
  ASSUME ComparisonTypes, NEW f \in Finding
  PROVE  /\ Key(f) \in Keys
         /\ EntriesLike(f, Resolved) = left[Key(f)]
         /\ EntriesLike(f, DOMAIN entries) = Bucket(entries, Key(f))
         /\ FindingsLike(f, WithStatus("persisting")) = Likes(Key(f))
<1>1. IsFinding(f) /\ Key(f) \in Keys
  BY FindingIsFinding, KeyOfFinding
<1>2. ASSUME NEW j \in Usable(entries)
      PROVE  SameFinding(entries[j], f) <=> Key(entries[j]) = Key(f)
  BY <1>1, UsableEntry, SameKey DEF ComparisonTypes
<1>3. ASSUME NEW i \in WithStatus("persisting")
      PROVE  SameFinding(findings[i], f) <=> Key(findings[i]) = Key(f)
  <2>1. IsFinding(findings[i])
    BY StatusIsOfFinding
  <2> QED
    BY <1>1, <2>1, SameKey
<1>4. EntriesLike(f, DOMAIN entries) = Bucket(entries, Key(f))
  BY <1>2 DEF EntriesLike, Bucket, Usable
<1>5. FindingsLike(f, WithStatus("persisting")) = Likes(Key(f))
  BY <1>3 DEF FindingsLike, Likes
<1>6. EntriesLike(f, Resolved) = left[Key(f)]
  <2>1. \A j \in Resolved : j \in Usable(entries)
    BY BucketsFinite
  <2>2. ASSUME NEW j \in Resolved PROVE Key(entries[j]) = Key(f) <=> j \in left[Key(f)]
    <3>1. PICK k \in Keys : j \in left[k]
      BY DEF Resolved
    <3> QED
      BY <1>1, <3>1, BucketsFinite
  <2>3. left[Key(f)] \subseteq Resolved
    BY <1>1 DEF Resolved
  <2>4. \A j \in Resolved : SameFinding(entries[j], f) <=> j \in left[Key(f)]
    BY <1>2, <2>1, <2>2
  <2>5. \A j \in Resolved : entries[j] # Malformed
    BY <2>1 DEF Usable
  <2> QED
    BY <2>3, <2>4, <2>5 DEF EntriesLike
<1> QED
  BY <1>1, <1>4, <1>5, <1>6

LEMMA Conserved ==
  ASSUME ComparisonInv
  PROVE  EntriesConserved
<1> SUFFICES ASSUME NEW f \in Finding
             PROVE  Cardinality(EntriesLike(f, Resolved))
                      + Cardinality(FindingsLike(f, WithStatus("persisting")))
                        = Cardinality(EntriesLike(f, DOMAIN entries))
  BY DEF EntriesConserved
<1> DEFINE k == Key(f)
<1>1. /\ k \in Keys /\ EntriesLike(f, Resolved) = left[k]
      /\ EntriesLike(f, DOMAIN entries) = Bucket(entries, k)
      /\ FindingsLike(f, WithStatus("persisting")) = Likes(k)
  BY LikesAreAlike DEF ComparisonInv
<1>2. /\ left[k] \subseteq Bucket(entries, k) /\ IsFiniteSet(Bucket(entries, k))
      /\ IsFiniteSet(left[k])
  BY <1>1, BucketsFinite DEF ComparisonInv, ComparisonTypes
<1>3. Cardinality(Taken(k)) = Cardinality(Bucket(entries, k)) - Cardinality(left[k])
  <2>1. Bucket(entries, k) \cap left[k] = left[k]
    BY <1>2
  <2> QED
    BY <1>2, <2>1, FS_Difference DEF Taken
<1>4. Cardinality(Taken(k)) = Cardinality(Likes(k))
  BY <1>1 DEF ComparisonInv, OneForOne
<1>5. Cardinality(Bucket(entries, k)) \in Nat /\ Cardinality(left[k]) \in Nat
  BY <1>2, FS_CardinalityType
<1> HIDE DEF k
<1> QED
  BY <1>1, <1>3, <1>4, <1>5

LEMMA NotNewAndResolved ==
  ASSUME ComparisonInv
  PROVE  NeverNewAndResolved
<1> SUFFICES ASSUME NEW i \in WithStatus("new"), NEW j \in Resolved,
                    SameFinding(findings[i], entries[j])
             PROVE  FALSE
  BY DEF NeverNewAndResolved
<1>1. PICK k \in Keys : j \in left[k]
  BY DEF Resolved
<1>2. j \in Usable(entries) /\ Key(entries[j]) = k
  BY <1>1, BucketsFinite DEF ComparisonInv
<1>3. IsFinding(findings[i]) /\ IsFinding(entries[j])
  BY <1>2, StatusIsOfFinding, UsableEntry DEF ComparisonInv, ComparisonTypes
<1>4. Key(findings[i]) = k
  BY <1>2, <1>3, SameKey
<1> QED
  BY <1>1, <1>4 DEF ComparisonInv, NewHadNoEntry

LEMMA FirstPersist ==
  ASSUME ComparisonInv
  PROVE  EarlierEntriesFirst
<1> SUFFICES ASSUME NEW j \in Resolved, NEW i \in DOMAIN entries \ Resolved,
                    entries[i] # Malformed, SameFinding(entries[i], entries[j])
             PROVE  i < j
  BY DEF EarlierEntriesFirst
<1>1. PICK k \in Keys : j \in left[k]
  BY DEF Resolved
<1>2. j \in Usable(entries) /\ Key(entries[j]) = k /\ i \in Usable(entries)
  BY <1>1, BucketsFinite DEF ComparisonInv, Usable
<1>3. IsFinding(entries[i]) /\ IsFinding(entries[j]) /\ i \in Bucket(entries, Key(entries[i]))
  BY <1>2, UsableEntry DEF ComparisonInv, ComparisonTypes
<1>4. i \in Bucket(entries, k)
  BY <1>2, <1>3, SameKey
<1>5. i \notin left[k]
  BY DEF Resolved
<1> QED
  BY <1>1, <1>4, <1>5 DEF ComparisonInv, FirstAreTaken, Taken

(* At the end every finding has its status, so that as many findings as    *)
(* entries of a key leave nothing over on either side.                     *)
LEMMA OrderSaysNothing ==
  ASSUME ComparisonInv
  PROVE  OrderDoesNotMatter
<1> SUFFICES ASSUME pc = "done", SameAsBefore
             PROVE  Resolved = {} /\ WithStatus("new") = {}
  BY DEF OrderDoesNotMatter
<1>1. /\ status \in Seq(StatusNames) /\ findings \in Seq(AnyFinding)
      /\ Len(status) = Len(findings) /\ ComparisonTypes
  BY DEF ComparisonInv, ComparisonTypes
<1>2. DOMAIN findings = WithStatus("persisting") \cup WithStatus("new")
  <2>1. /\ DOMAIN findings = DOMAIN status
        /\ \A i \in DOMAIN status : status[i] \in StatusNames
    BY <1>1, SeqFacts
  <2> QED
    BY <2>1 DEF WithStatus, StatusNames
<1>3. WithStatus("persisting") \cap WithStatus("new") = {}
  BY DEF WithStatus
<1>4. ASSUME NEW f \in Finding
      PROVE  /\ EntriesLike(f, Resolved) = {}
             /\ FindingsLike(f, WithStatus("new")) = {}
  <2> DEFINE P == FindingsLike(f, WithStatus("persisting"))
             A == FindingsLike(f, DOMAIN findings)
             N == FindingsLike(f, WithStatus("new"))
             R == EntriesLike(f, Resolved)
  <2>1. Cardinality(R) + Cardinality(P) = Cardinality(A)
    BY Conserved DEF EntriesConserved, SameAsBefore
  <2>2. A = P \cup N /\ P \cap N = {}
    BY <1>2, <1>3 DEF FindingsLike
  <2>3. IsFiniteSet(P) /\ IsFiniteSet(N)
    <3>1. /\ P \in SUBSET WithStatus("persisting") /\ N \in SUBSET WithStatus("new")
      BY DEF FindingsLike
    <3> QED
      BY <1>1, <3>1, StatusIsOfFinding, FS_Subset
  <2>4. IsFiniteSet(R)
    <3>1. R \in SUBSET Resolved
      BY DEF EntriesLike
    <3> QED
      BY <1>1, <3>1, BucketsFinite, FS_Subset
  <2> HIDE DEF P, A, N, R
  <2>5. Cardinality(A) = Cardinality(P) + Cardinality(N)
    <3>1. Cardinality(P \cup N)
            = Cardinality(P) + Cardinality(N) - Cardinality(P \cap N)
      BY <2>3, FS_Union
    <3>2. Cardinality(P \cap N) = 0
      BY <2>2, FS_EmptySet
    <3>3. Cardinality(P) \in Nat /\ Cardinality(N) \in Nat
      BY <2>3, FS_CardinalityType
    <3> QED
      BY <2>2, <3>1, <3>2, <3>3
  <2>6. Cardinality(R) = Cardinality(N) /\ Cardinality(R) \in Nat
    BY <2>1, <2>3, <2>4, <2>5, FS_CardinalityType
  <2>7. R = {} \/ N = {}
    <3>1. CASE N # {}
      <4>1. PICK i \in WithStatus("new") : SameFinding(findings[i], f)
        BY <3>1 DEF N, FindingsLike
      <4>2. IsFinding(findings[i]) /\ IsFinding(f) /\ Key(f) \in Keys
        BY <1>1, StatusIsOfFinding, FindingIsFinding, KeyOfFinding
      <4>3. left[Key(f)] = {}
        BY <4>1, <4>2, SameKey DEF ComparisonInv, NewHadNoEntry
      <4> QED
        BY <1>1, <4>3, LikesAreAlike DEF R
    <3> QED
      BY <3>1
  <2>8. R = {} /\ N = {}
    BY <2>3, <2>4, <2>6, <2>7, FS_EmptySet
  <2> QED
    BY <2>8 DEF R, N
<1>5. Resolved = {}
  <2> SUFFICES ASSUME NEW j \in Resolved PROVE FALSE
    OBVIOUS
  <2>1. j \in Usable(entries) /\ entries \in Entries
    BY <1>1, BucketsFinite DEF ComparisonTypes
  <2>2. entries[j] \in Finding /\ entries[j] # Malformed
    BY <2>1, SeqFacts DEF Usable, Entries
  <2>3. j \in EntriesLike(entries[j], Resolved)
    BY <2>2 DEF EntriesLike, SameFinding
  <2> QED
    BY <1>4, <2>2, <2>3
<1>6. WithStatus("new") = {}
  <2> SUFFICES ASSUME NEW i \in WithStatus("new") PROVE FALSE
    OBVIOUS
  <2>1. IsFinding(findings[i])
    BY <1>1, StatusIsOfFinding
  <2> DEFINE f == [category |-> findings[i].category, head |-> findings[i].head]
  <2>2. f \in Finding /\ SameFinding(findings[i], f)
    BY <2>1 DEF IsFinding, Finding, SameFinding
  <2> HIDE DEF f
  <2>3. i \in FindingsLike(f, WithStatus("new"))
    BY <2>2 DEF FindingsLike
  <2> QED
    BY <1>4, <2>2, <2>3
<1> QED
  BY <1>5, <1>6

LEMMA ComparisonAnswers ==
  ASSUME ComparisonInv
  PROVE  BaselineIsAnswered
BY Conserved, NotNewAndResolved, OrderSaysNothing, FirstPersist DEF BaselineIsAnswered
-----------------------------------------------------------------------------
(* In an order of finitely many things every place is taken by one.        *)
LEMMA EveryPlaceIsTaken ==
  ASSUME NEW D, IsFiniteSet(D), NEW R, R \subseteq D \X D,
         \A i \in D : <<i, i>> \notin R,
         \A i, j \in D : i # j => <<i, j>> \in R \/ <<j, i>> \in R,
         \A i, j, l \in D : <<i, j>> \in R /\ <<j, l>> \in R => <<i, l>> \in R
  PROVE  /\ Cardinality(D) \in Nat
         /\ \A n \in 1 .. Cardinality(D) : \E i \in D :
              Cardinality({j \in D : <<j, i>> \in R}) = n - 1
         /\ \A i \in D : \E n \in 1 .. Cardinality(D) :
              Cardinality({j \in D : <<j, i>> \in R}) = n - 1
         /\ \A i, j \in D : Cardinality({l \in D : <<l, i>> \in R})
                              = Cardinality({l \in D : <<l, j>> \in R}) => i = j
<1> DEFINE Below(i) == {j \in D : <<j, i>> \in R}
           Size == Cardinality(D)
           place == [i \in D |-> Cardinality(Below(i)) + 1]
<1>1. ASSUME NEW i \in D
      PROVE  /\ IsFiniteSet(Below(i)) /\ Cardinality(Below(i)) \in Nat
             /\ Cardinality(Below(i)) < Size /\ Size \in Nat
  <2>1. Below(i) \in SUBSET D /\ Below(i) # D
    OBVIOUS
  <2>2. /\ IsFiniteSet(Below(i)) /\ Cardinality(Below(i)) <= Size
        /\ (Size = Cardinality(Below(i)) => D = Below(i))
    BY <2>1, FS_Subset
  <2> QED
    BY <2>1, <2>2, FS_CardinalityType
<1>2. ASSUME NEW i \in D, NEW j \in D, <<i, j>> \in R
      PROVE  Cardinality(Below(i)) < Cardinality(Below(j))
  <2>1. /\ Below(i) \in SUBSET Below(j) /\ i \in Below(j) /\ i \notin Below(i)
    BY <1>2
  <2>2. /\ Cardinality(Below(i)) <= Cardinality(Below(j))
        /\ (Cardinality(Below(j)) = Cardinality(Below(i)) => Below(j) = Below(i))
    BY <1>1, <2>1, FS_Subset
  <2> HIDE DEF Below
  <2> QED
    BY <1>1, <2>1, <2>2
<1>3. ASSUME NEW i \in D, NEW j \in D, Cardinality(Below(i)) = Cardinality(Below(j))
      PROVE  i = j
  <2>1. Cardinality(Below(i)) \in Nat /\ Cardinality(Below(j)) \in Nat
    BY <1>1
  <2>2. <<i, j>> \notin R /\ <<j, i>> \notin R
    BY <1>2, <1>3, <2>1
  <2> QED
    BY <2>2
<1>4. Size \in Nat /\ IsFiniteSet(1 .. Size) /\ Cardinality(1 .. Size) = Size
  <2>1. Size \in Nat
    BY FS_CardinalityType
  <2> HIDE DEF Size
  <2> QED
    BY <2>1, FS_Interval
<1> HIDE DEF Below
<1>5. place \in [D -> 1 .. Size]
  <2> HIDE DEF Size
  <2>1. \A i \in D : Cardinality(Below(i)) + 1 \in 1 .. Size
    BY <1>1, <1>4
  <2> QED
    BY <2>1
<1>6. \A i, j \in D : place[i] = place[j] => i = j
  <2> SUFFICES ASSUME NEW i \in D, NEW j \in D, place[i] = place[j] PROVE i = j
    OBVIOUS
  <2>1. Cardinality(Below(i)) = Cardinality(Below(j))
    BY <1>1
  <2> QED
    BY <1>3, <2>1
<1>7. place \in Injection(D, 1 .. Size)
  BY <1>5, <1>6, Fun_IsInj
<1> HIDE DEF place
<1>8. place \in Surjection(D, 1 .. Size)
  BY <1>4, <1>7, FS_Injection
<1>9. \A n \in 1 .. Size : \E i \in D : place[i] = n
  BY <1>8, Fun_SurjectionProperties
<1>10. \A n \in 1 .. Size : \E i \in D : Cardinality(Below(i)) = n - 1
  <2> SUFFICES ASSUME NEW n \in 1 .. Size
               PROVE  \E i \in D : Cardinality(Below(i)) = n - 1
    OBVIOUS
  <2>1. PICK i \in D : place[i] = n
    BY <1>9
  <2>2. Cardinality(Below(i)) + 1 = n
    BY <2>1 DEF place
  <2> QED
    BY <1>1, <1>4, <2>2
<1>11. \A i \in D : \E n \in 1 .. Size : Cardinality(Below(i)) = n - 1
  <2> SUFFICES ASSUME NEW i \in D
               PROVE  \E n \in 1 .. Size : Cardinality(Below(i)) = n - 1
    OBVIOUS
  <2>1. Cardinality(Below(i)) + 1 \in 1 .. Size
    <3> HIDE DEF Size
    <3> QED
      BY <1>1, <1>4
  <2> QED
    BY <1>1, <2>1
<1> QED
  BY <1>3, <1>4, <1>10, <1>11 DEF Below

(* Kept and ByLine choose for each place the one finding that has it.      *)
LEMMA KeptFacts ==
  ASSUME NEW S, NEW fs \in Seq(S), NEW is \in SUBSET DOMAIN fs
  PROVE  /\ Kept(fs, is) \in Seq(S)
         /\ ToSet(Kept(fs, is)) = At(fs, is)
<1> DEFINE R == {pair \in is \X is : pair[1] < pair[2]}
           pick(n) == CHOOSE i \in is : Cardinality({j \in is : j < i}) = n - 1
<1>1. is \subseteq Nat /\ IsFiniteSet(is)
  <2>1. DOMAIN fs = 1 .. Len(fs) /\ Len(fs) \in Nat
    BY SeqFacts
  <2> QED
    BY <2>1, PositionsFinite
<1>2. \A i \in is : {j \in is : <<j, i>> \in R} = {j \in is : j < i}
  OBVIOUS
<1>3. /\ R \subseteq is \X is
      /\ \A i \in is : <<i, i>> \notin R
      /\ \A i, j \in is : i # j => <<i, j>> \in R \/ <<j, i>> \in R
      /\ \A i, j, l \in is : <<i, j>> \in R /\ <<j, l>> \in R => <<i, l>> \in R
  BY <1>1
<1> HIDE DEF R
<1>4. /\ Cardinality(is) \in Nat
      /\ \A n \in 1 .. Cardinality(is) : \E i \in is :
           Cardinality({j \in is : <<j, i>> \in R}) = n - 1
      /\ \A i \in is : \E n \in 1 .. Cardinality(is) :
           Cardinality({j \in is : <<j, i>> \in R}) = n - 1
      /\ \A i, j \in is : Cardinality({l \in is : <<l, i>> \in R})
                            = Cardinality({l \in is : <<l, j>> \in R}) => i = j
  BY <1>1, <1>3, EveryPlaceIsTaken
<1>5. ASSUME NEW n \in 1 .. Cardinality(is)
      PROVE  pick(n) \in is /\ Cardinality({j \in is : j < pick(n)}) = n - 1
  <2>1. \E i \in is : Cardinality({j \in is : j < i}) = n - 1
    BY <1>2, <1>4
  <2> QED
    BY <2>1
<1>6. ASSUME NEW i \in is
      PROVE  \E n \in 1 .. Cardinality(is) : pick(n) = i
  <2>1. PICK n \in 1 .. Cardinality(is) : Cardinality({j \in is : j < i}) = n - 1
    BY <1>2, <1>4
  <2>2. pick(n) \in is /\ Cardinality({j \in is : j < pick(n)}) = n - 1
    BY <1>5
  <2> HIDE DEF pick
  <2>3. pick(n) = i
    BY <1>2, <1>4, <2>1, <2>2
  <2> QED
    BY <2>3
<1>7. Kept(fs, is) = [n \in 1 .. Cardinality(is) |-> fs[pick(n)]]
  BY DEF Kept
<1> HIDE DEF pick
<1>8. \A i \in is : fs[i] \in S
  BY SeqFacts
<1>9. Kept(fs, is) \in Seq(S)
  <2>1. \A n \in 1 .. Cardinality(is) : Kept(fs, is)[n] \in S
    BY <1>5, <1>7, <1>8
  <2> QED
    BY <1>4, <1>7, <2>1, IsASeq
<1>10. ToSet(Kept(fs, is)) = {fs[i] : i \in is}
  <2>1. /\ DOMAIN Kept(fs, is) = 1 .. Cardinality(is)
        /\ \A n \in 1 .. Cardinality(is) : Kept(fs, is)[n] = fs[pick(n)]
    BY <1>7
  <2>2. \A n \in 1 .. Cardinality(is) : Kept(fs, is)[n] \in {fs[i] : i \in is}
    BY <1>5, <2>1
  <2>3. \A i \in is : \E n \in 1 .. Cardinality(is) : Kept(fs, is)[n] = fs[i]
    BY <1>6, <2>1
  <2> QED
    BY <2>1, <2>2, <2>3 DEF ToSet
<1> QED
  BY <1>9, <1>10 DEF At

LEMMA ByLineFacts ==
  ASSUME NEW fs \in Seq(AnyFinding)
  PROVE  ByLine(fs) \in Seq(AnyFinding) /\ ToSet(ByLine(fs)) = ToSet(fs)
<1> DEFINE D == DOMAIN fs
           R == {pair \in D \X D : Before(fs, pair[1], pair[2])}
           pick(n) == CHOOSE i \in DOMAIN fs :
                        Cardinality({j \in DOMAIN fs : Before(fs, j, i)}) = n - 1
<1>1. /\ DOMAIN fs = 1 .. Len(fs) /\ Len(fs) \in Nat
      /\ \A i \in DOMAIN fs : fs[i] \in AnyFinding
  BY SeqFacts
<1>2. \A i \in D : i \in Nat /\ fs[i].line \in Nat
  BY <1>1 DEF AnyFinding
<1>3. IsFiniteSet(D) /\ Cardinality(D) = Len(fs)
  BY <1>1, FS_Interval
<1>4. \A i \in D : {j \in D : <<j, i>> \in R} = {j \in D : Before(fs, j, i)}
  OBVIOUS
<1> HIDE DEF D
<1>5. /\ R \subseteq D \X D
      /\ \A i \in D : <<i, i>> \notin R
      /\ \A i, j \in D : i # j => <<i, j>> \in R \/ <<j, i>> \in R
      /\ \A i, j, l \in D : <<i, j>> \in R /\ <<j, l>> \in R => <<i, l>> \in R
  <2>1. \A i, j \in D : <<i, j>> \in R <=> Before(fs, i, j)
    OBVIOUS
  <2>2. \A i \in D : ~Before(fs, i, i)
    BY <1>2 DEF Before
  <2>3. \A i, j \in D : i # j => Before(fs, i, j) \/ Before(fs, j, i)
    BY <1>2 DEF Before
  <2>4. \A i, j, l \in D : Before(fs, i, j) /\ Before(fs, j, l) => Before(fs, i, l)
    BY <1>2 DEF Before
  <2>5. R \subseteq D \X D
    OBVIOUS
  <2> HIDE DEF R
  <2> QED
    BY <2>1, <2>2, <2>3, <2>4, <2>5
<1> HIDE DEF R
<1>6. /\ Cardinality(D) \in Nat
      /\ \A n \in 1 .. Cardinality(D) : \E i \in D :
           Cardinality({j \in D : <<j, i>> \in R}) = n - 1
      /\ \A i \in D : \E n \in 1 .. Cardinality(D) :
           Cardinality({j \in D : <<j, i>> \in R}) = n - 1
      /\ \A i, j \in D : Cardinality({l \in D : <<l, i>> \in R})
                           = Cardinality({l \in D : <<l, j>> \in R}) => i = j
  BY <1>3, <1>5, EveryPlaceIsTaken
<1> USE DEF D
<1>7. ASSUME NEW n \in 1 .. Len(fs)
      PROVE  /\ pick(n) \in DOMAIN fs
             /\ Cardinality({j \in DOMAIN fs : Before(fs, j, pick(n))}) = n - 1
  <2>1. \E i \in DOMAIN fs : Cardinality({j \in DOMAIN fs : Before(fs, j, i)}) = n - 1
    BY <1>3, <1>4, <1>6
  <2> QED
    BY <2>1
<1>8. ASSUME NEW i \in DOMAIN fs
      PROVE  \E n \in 1 .. Len(fs) : pick(n) = i
  <2>1. PICK n \in 1 .. Len(fs) :
          Cardinality({j \in DOMAIN fs : Before(fs, j, i)}) = n - 1
    BY <1>3, <1>4, <1>6
  <2>2. /\ pick(n) \in DOMAIN fs
        /\ Cardinality({j \in DOMAIN fs : Before(fs, j, pick(n))}) = n - 1
    BY <1>7
  <2> HIDE DEF pick
  <2>3. pick(n) = i
    BY <1>4, <1>6, <2>1, <2>2
  <2> QED
    BY <2>3
<1>9. ByLine(fs) = [n \in 1 .. Len(fs) |-> fs[pick(n)]]
  BY DEF ByLine
<1> HIDE DEF pick
<1>10. ByLine(fs) \in Seq(AnyFinding)
  <2>1. \A n \in 1 .. Len(fs) : ByLine(fs)[n] \in AnyFinding
    BY <1>1, <1>7, <1>9
  <2> QED
    BY <1>1, <1>9, <2>1, IsASeq
<1>11. ToSet(ByLine(fs)) = ToSet(fs)
  <2>1. /\ DOMAIN ByLine(fs) = 1 .. Len(fs)
        /\ \A n \in 1 .. Len(fs) : ByLine(fs)[n] = fs[pick(n)]
    BY <1>9
  <2>2. \A n \in 1 .. Len(fs) : ByLine(fs)[n] \in {fs[i] : i \in DOMAIN fs}
    BY <1>7, <2>1
  <2>3. \A i \in DOMAIN fs : \E n \in 1 .. Len(fs) : ByLine(fs)[n] = fs[i]
    BY <1>8, <2>1
  <2> QED
    BY <2>1, <2>2, <2>3 DEF ToSet
<1> QED
  BY <1>10, <1>11

(* What analyze finds is what passes the filters, and a report is made of  *)
(* findings of its text.                                                   *)
LEMMA AnalyzeFacts ==
  ASSUME NEW text \in Seq(AnyFinding), NEW genre, NEW exp
  PROVE  /\ Analyze(text, genre, exp) \in Seq(AnyFinding)
         /\ ToSet(Analyze(text, genre, exp)) = At(text, Passing(text, genre, exp))
<1>1. Passing(text, genre, exp) \in SUBSET DOMAIN text
  BY DEF Passing, Single, Concrete, Detected
<1> QED
  BY <1>1, KeptFacts, ByLineFacts DEF Analyze

LEMMA AllowedFacts ==
  ASSUME NEW fs \in Seq(AnyFinding), NEW cfg
  PROVE  /\ Allowed(fs, cfg) \in Seq(AnyFinding)
         /\ \A f : f \in ToSet(Allowed(fs, cfg))
                    <=> f \in ToSet(fs) /\ ~Suppresses(cfg, f)
<1> DEFINE is == {i \in DOMAIN fs : ~Suppresses(cfg, fs[i])}
<1>1. is \in SUBSET DOMAIN fs
  OBVIOUS
<1>2. Kept(fs, is) \in Seq(AnyFinding) /\ ToSet(Kept(fs, is)) = At(fs, is)
  BY <1>1, KeptFacts
<1>3. \A f : f \in At(fs, is) <=> f \in ToSet(fs) /\ ~Suppresses(cfg, f)
  BY DEF At, ToSet
<1> QED
  BY <1>2, <1>3 DEF Allowed

LEMMA WordRuleFacts ==
  ASSUME NEW text \in Seq(AnyFinding), NEW cfg
  PROVE  /\ WordRuleFindings(text, cfg) \in Seq(AnyFinding)
         /\ \A f : f \in ToSet(WordRuleFindings(text, cfg))
                    <=> /\ f \in ToSet(text) /\ WithNames({"custom_wording"}, f)
                        /\ f.category[2] \in cfg.wordRules
<1> DEFINE is == {i \in DOMAIN text : /\ Named(text[i]) = "custom_wording"
                                      /\ text[i].category[2] \in cfg.wordRules}
<1>1. is \in SUBSET DOMAIN text
  OBVIOUS
<1>2. Kept(text, is) \in Seq(AnyFinding) /\ ToSet(Kept(text, is)) = At(text, is)
  BY <1>1, KeptFacts
<1>3. \A f : f \in At(text, is)
               <=> /\ f \in ToSet(text) /\ WithNames({"custom_wording"}, f)
                   /\ f.category[2] \in cfg.wordRules
  BY DEF At, ToSet, WithNames
<1> QED
  BY <1>2, <1>3 DEF WordRuleFindings

LEMMA TogetherFacts ==
  ASSUME NEW S, NEW fs \in Seq(S), NEW gs \in Seq(S)
  PROVE  /\ fs \o gs \in Seq(S)
         /\ \A f : f \in ToSet(fs \o gs) <=> f \in ToSet(fs) \/ f \in ToSet(gs)
<1>1. /\ fs \o gs \in Seq(S) /\ Len(fs \o gs) = Len(fs) + Len(gs)
      /\ \A i \in 1 .. Len(fs) + Len(gs) :
           (fs \o gs)[i] = IF i <= Len(fs) THEN fs[i] ELSE gs[i - Len(fs)]
  BY ConcatProperties
<1>2. /\ DOMAIN fs = 1 .. Len(fs) /\ DOMAIN gs = 1 .. Len(gs)
      /\ Len(fs) \in Nat /\ Len(gs) \in Nat
      /\ DOMAIN (fs \o gs) = 1 .. Len(fs) + Len(gs)
  BY <1>1, SeqFacts
<1>3. ASSUME NEW f, f \in ToSet(fs \o gs)
      PROVE  f \in ToSet(fs) \/ f \in ToSet(gs)
  <2>1. PICK i \in 1 .. Len(fs) + Len(gs) : (fs \o gs)[i] = f
    BY <1>2, <1>3 DEF ToSet
  <2>2. CASE i <= Len(fs)
    BY <1>1, <1>2, <2>1, <2>2 DEF ToSet
  <2>3. CASE ~(i <= Len(fs))
    <3>1. i - Len(fs) \in DOMAIN gs /\ gs[i - Len(fs)] = f
      BY <1>1, <1>2, <2>1, <2>3
    <3> QED
      BY <3>1 DEF ToSet
  <2> QED
    BY <2>2, <2>3
<1>4. ASSUME NEW i \in DOMAIN fs
      PROVE  fs[i] \in ToSet(fs \o gs)
  <2>1. i \in DOMAIN (fs \o gs) /\ (fs \o gs)[i] = fs[i]
    BY <1>1, <1>2
  <2> QED
    BY <2>1 DEF ToSet
<1>5. ASSUME NEW i \in DOMAIN gs
      PROVE  gs[i] \in ToSet(fs \o gs)
  <2>1. i + Len(fs) \in DOMAIN (fs \o gs) /\ (fs \o gs)[i + Len(fs)] = gs[i]
    BY <1>1, <1>2
  <2> QED
    BY <2>1 DEF ToSet
<1>6. \A f : f \in ToSet(fs) \/ f \in ToSet(gs) => f \in ToSet(fs \o gs)
  BY <1>4, <1>5 DEF ToSet
<1> QED
  BY <1>1, <1>3, <1>6

(* What a filter takes out for the sake of another finding is covered by   *)
(* that one, which none of the later filters takes out: it is no less      *)
(* wanted than the finding it covers.                                      *)
LEMMA LeftOutIsCovered ==
  ASSUME NEW text \in Seq(AnyFinding), NEW genre, NEW exp, NEW i \in DOMAIN text,
         Detects(text[i], genre, exp), Wanted(text[i], genre, exp)
  PROVE  CoveredIn(text[i], Analyze(text, genre, exp))
<1> DEFINE found == Detected(text, genre, exp)
           concrete == Concrete(text, found)
<1>1. ToSet(Analyze(text, genre, exp)) = {text[j] : j \in Passing(text, genre, exp)}
  BY AnalyzeFacts DEF At
<1>2. i \in found
  BY DEF Detected
<1>3. CASE i \in Passing(text, genre, exp)
  BY <1>1, <1>3 DEF CoveredIn
<1>4. CASE i \notin concrete
  <2>1. SaysLess(text[i], At(text, found))
    BY <1>2, <1>4 DEF Concrete
  <2>2. PICK j \in found :
          /\ Named(text[j]) = "repeated_explanation_preview"
          /\ text[i].span[1] \in text[j].related
    BY <2>1 DEF SaysLess, At
  <2>3. Named(text[i]) = "repeated_syntax_template" /\ text[i].span # NoSpan
    BY <2>1 DEF SaysLess
  <2>4. j \in concrete /\ j \in Single(text, concrete)
    BY <2>2 DEF Concrete, SaysLess, Single, IsSurfaceDuplicate
  <2>5. Wanted(text[j], genre, exp)
    BY <2>2, <2>3 DEF Wanted, WithNames, EXPERIMENTAL_CATEGORIES, StructureCategories
  <2>6. j \in Passing(text, genre, exp)
    BY <2>4, <2>5 DEF Passing
  <2>7. Covers(text[j], text[i])
    BY <2>2, <2>3 DEF Covers
  <2> QED
    BY <1>1, <2>6, <2>7 DEF CoveredIn
<1>5. CASE i \in concrete /\ i \notin Passing(text, genre, exp)
  <2>1. IsSurfaceDuplicate(text[i], At(text, concrete))
    BY <1>5 DEF Passing, Single
  <2>2. PICK j \in concrete :
          /\ Named(text[j]) = "inanimate_subject_morph" /\ text[j].span # NoSpan
          /\ \/ SpanContains(text[i].span, text[j].span)
             \/ SpanContains(text[j].span, text[i].span)
    BY <2>1 DEF IsSurfaceDuplicate, At
  <2>3. /\ Named(text[i]) = "english_syntax_inanimate_subject"
        /\ text[i].span # NoSpan
    BY <2>1 DEF IsSurfaceDuplicate
  <2>4. j \in Single(text, concrete)
    BY <2>2 DEF Single, IsSurfaceDuplicate
  <2>5. Wanted(text[j], genre, exp)
    BY <2>2 DEF Wanted, WithNames, EXPERIMENTAL_CATEGORIES, StructureCategories
  <2>6. j \in Passing(text, genre, exp)
    BY <2>4, <2>5 DEF Passing
  <2>7. Covers(text[j], text[i])
    BY <2>2, <2>3 DEF Covers
  <2> QED
    BY <1>1, <2>6, <2>7 DEF CoveredIn
<1> QED
  BY <1>3, <1>4, <1>5

(* The filters one after another let through what is to be told: a finding *)
(* that keeps another one back is itself never kept back.                  *)
LEMMA PassingIsTold ==
  ASSUME NEW text, NEW genre, NEW exp, NEW i \in DOMAIN text
  PROVE  i \in Passing(text, genre, exp) <=>
           /\ Detects(text[i], genre, exp) /\ Wanted(text[i], genre, exp)
           /\ ~\E g \in ToSet(text) : Detects(g, genre, exp) /\ Covers(g, text[i])
<1> DEFINE found == Detected(text, genre, exp)
           concrete == Concrete(text, found)
           Covered == \E g \in ToSet(text) :
                        Detects(g, genre, exp) /\ Covers(g, text[i])
<1>1. \A j : j \in found <=> j \in DOMAIN text /\ Detects(text[j], genre, exp)
  BY DEF Detected
<1>2. ASSUME Covered, i \in found
      PROVE  SaysLess(text[i], At(text, found))
               \/ IsSurfaceDuplicate(text[i], At(text, concrete))
  <2>1. PICK j \in DOMAIN text :
          Detects(text[j], genre, exp) /\ Covers(text[j], text[i])
    BY <1>2 DEF ToSet
  <2>2. j \in found
    BY <1>1, <2>1
  <2>3. CASE Named(text[j]) = "inanimate_subject_morph"
    <3>1. j \in concrete
      BY <2>2, <2>3 DEF Concrete, SaysLess
    <3> QED
      BY <2>1, <2>3, <3>1 DEF Covers, IsSurfaceDuplicate, At
  <2>4. CASE Named(text[j]) # "inanimate_subject_morph"
    BY <2>1, <2>2, <2>4 DEF Covers, SaysLess, At
  <2> QED
    BY <2>3, <2>4
<1>3. ASSUME SaysLess(text[i], At(text, found))
               \/ IsSurfaceDuplicate(text[i], At(text, concrete))
      PROVE  Covered
  <2>1. \A j \in concrete : j \in found
    BY DEF Concrete
  <2>2. PICK j \in found : Covers(text[j], text[i])
    BY <1>3, <2>1 DEF SaysLess, IsSurfaceDuplicate, At, Covers
  <2> QED
    BY <1>1, <2>2 DEF ToSet
<1>4. i \in Passing(text, genre, exp) <=>
        /\ i \in found /\ ~SaysLess(text[i], At(text, found))
        /\ ~IsSurfaceDuplicate(text[i], At(text, concrete))
        /\ Wanted(text[i], genre, exp)
  BY DEF Passing, Single, Concrete
<1> QED
  BY <1>1, <1>2, <1>3, <1>4

(* A report holds what is to be told of its text, and its counts are of    *)
(* what it holds, with a configuration and without.                        *)
LEMMA ReportFacts ==
  ASSUME NEW text \in Seq(AnyFinding), NEW cfg, cfg.given \/ cfg = NoConfig,
         NEW genre, NEW exp
  PROVE  LET rep == Report(text, cfg, genre, exp)
         IN  /\ rep.findings \in Seq(AnyFinding)
             /\ rep.stats = Counts(rep.findings)
             /\ \A f : f \in ToSet(rep.findings)
                        <=> f \in ToSet(text) /\ IsTold(f, text, cfg, genre, exp)
<1> DEFINE fs == Analyze(text, genre, exp)
           ws == WordRuleFindings(text, cfg)
           rep == Report(text, cfg, genre, exp)
           Clear(f) == /\ Detects(f, genre, exp) /\ Wanted(f, genre, exp)
                       /\ ~\E g \in ToSet(text) : Detects(g, genre, exp) /\ Covers(g, f)
<1>1. /\ fs \in Seq(AnyFinding)
      /\ \A f : f \in ToSet(fs) <=> f \in ToSet(text) /\ Clear(f)
  <2>1. fs \in Seq(AnyFinding) /\ ToSet(fs) = At(text, Passing(text, genre, exp))
    BY AnalyzeFacts
  <2>2. \A i \in DOMAIN text : i \in Passing(text, genre, exp) <=> Clear(text[i])
    BY PassingIsTold
  <2>3. Passing(text, genre, exp) \subseteq DOMAIN text
    BY DEF Passing, Single, Concrete, Detected
  <2> HIDE DEF Clear
  <2> QED
    BY <2>1, <2>2, <2>3 DEF At, ToSet
<1>2. CASE cfg.given
  <2> DEFINE all == ByLine(fs \o ws)
  <2>1. /\ ws \in Seq(AnyFinding) /\ fs \o ws \in Seq(AnyFinding)
        /\ \A f : f \in ToSet(fs \o ws) <=> f \in ToSet(fs) \/ f \in ToSet(ws)
    BY <1>1, WordRuleFacts, TogetherFacts
  <2>2. all \in Seq(AnyFinding) /\ ToSet(all) = ToSet(fs \o ws)
    BY <2>1, ByLineFacts
  <2>3. rep = Counted(Allowed(all, cfg))
    BY <1>2 DEF Report, Configured, WithWordRules, Counted
  <2>4. /\ rep.findings = Allowed(all, cfg)
        /\ rep.stats = Counts(rep.findings)
    BY <2>3 DEF Counted
  <2>5. /\ Allowed(all, cfg) \in Seq(AnyFinding)
        /\ \A f : f \in ToSet(Allowed(all, cfg))
                   <=> f \in ToSet(all) /\ ~Suppresses(cfg, f)
    BY <2>2, AllowedFacts
  <2>6. \A f : f \in ToSet(ws)
                 <=> /\ f \in ToSet(text) /\ WithNames({"custom_wording"}, f)
                     /\ f.category[2] \in cfg.wordRules
    BY WordRuleFacts
  <2>7. \A f : f \in ToSet(Allowed(all, cfg))
                 <=> f \in ToSet(text) /\ IsTold(f, text, cfg, genre, exp)
    <3> HIDE DEF fs, ws, all
    <3> QED
      BY <1>1, <2>1, <2>2, <2>5, <2>6 DEF IsTold
  <2> QED
    BY <2>4, <2>5, <2>7
<1>3. CASE cfg = NoConfig
  <2>1. rep = Counted(fs)
    BY <1>3 DEF Report, NoConfig
  <2>2. rep.findings = fs /\ rep.stats = Counts(rep.findings)
    BY <2>1 DEF Counted
  <2>3. /\ cfg.wordRules = {} /\ \A f : ~Suppresses(cfg, f)
    BY <1>3 DEF NoConfig, Suppresses
  <2>4. \A f : IsTold(f, text, cfg, genre, exp) <=> Clear(f)
    BY <2>3 DEF IsTold
  <2> QED
    BY <1>1, <2>2, <2>4
<1> QED
  BY <1>2, <1>3

LEMMA CountsFacts ==
  ASSUME NEW r, r.findings \in Seq(AnyFinding), r.stats = Counts(r.findings)
  PROVE  HasItsCounts(r)
<1> DEFINE fs == r.findings
<1>1. \A i \in DOMAIN fs : fs[i] \in ToSet(fs)
  BY DEF ToSet
<1>2. /\ r.stats.total = Len(fs)
      /\ DOMAIN r.stats.byCategory = {Named(fs[i]) : i \in DOMAIN fs}
      /\ \A name \in {Named(fs[i]) : i \in DOMAIN fs} :
           r.stats.byCategory[name]
             = Cardinality({i \in DOMAIN fs : Named(fs[i]) = name})
  BY DEF Counts
<1>3. \A f \in ToSet(fs) : Named(f) \in {Named(fs[i]) : i \in DOMAIN fs}
  BY DEF ToSet
<1> QED
  BY <1>1, <1>2, <1>3 DEF HasItsCounts
-----------------------------------------------------------------------------
(* The runs: what is printed about a file and what the earlier report says *)
(* of it, from the first file on.                                          *)
AnyCounts == {Counts(fs) : fs \in Seq(AnyFinding)}
AnyCounted ==
  {r \in [findings : Seq(AnyFinding), stats : AnyCounts] :
     r.stats = Counts(r.findings)}

RunRecords ==
  {run \in [file : Files, findings : Seq(AnyFinding), stats : AnyCounts,
            baseline : {"none", "added", "matched"}, status : Seq(StatusNames),
            resolved : SUBSET Nat, load : AnyCounted] :
     /\ run.stats = Counts(run.findings)
     /\ run.baseline # "none" => Len(run.status) = Len(run.findings)}

PrintedOf(fs) ==
  [i \in DOMAIN fs |-> [category |-> fs[i].category, head |-> fs[i].head]]

EarlierTyped ==
  /\ \E n \in Nat : DOMAIN earlier.records = 1 .. n
  /\ \A i \in DOMAIN earlier.records : earlier.records[i].findings \in Entries

(* A record that knows its origin has the findings of that origin.         *)
TrueToOrigin(r) ==
  r.origin # << >> =>
    /\ r.hasFindings
    /\ r.findings = PrintedOf(Report(r.origin[1].hits, r.origin[2], r.genre,
                                     r.experimental).findings)

RecordsTell ==
  \A i \in DOMAIN earlier.records : TrueToOrigin(earlier.records[i])

LintTypes ==
  /\ docs \in [Files -> Texts] /\ config \in Configs /\ command \in Commands
  /\ stage \in {"idle", "files", "compare", "printed", "failed"}
  /\ runs \in Seq(RunRecords) /\ EarlierTyped

(* The record of this file is of the same text and configuration.          *)
IsRerun(f) ==
  /\ HasMap /\ RecordsOf(f) # {}
  /\ RecordOf(f).origin = <<docs[f], ConfigOf(command)>>

(* A file did not make the run fail; the run has its report; a comparison  *)
(* was allowed and answers for the whole record.                           *)
Fits(run) ==
  /\ docs[run.file].readable /\ run.findings = ReportOf(run.file).findings
  /\ HasMap /\ RecordsOf(run.file) # {} => Compatible(RecordOf(run.file))
  /\ run.baseline = "matched" => RecordsOf(run.file) # {} /\ HasMap
  /\ HasMap /\ RecordsOf(run.file) # {} /\ RecordOf(run.file).hasFindings =>
       Cardinality(Persisting(run)) + Cardinality(run.resolved)
         = Cardinality(Usable(RecordOf(run.file).findings))
  /\ IsRerun(run.file) =>
       /\ run.baseline = "matched" /\ run.resolved = {}
       /\ Persisting(run) = DOMAIN run.findings

FilesInOrder ==
  stage \in {"files", "compare", "printed"} =>
    /\ Len(runs) <= Len(command.files)
    /\ \A n \in DOMAIN runs : runs[n].file = command.files[n] /\ Fits(runs[n])

Comparing ==
  stage = "compare" =>
    /\ Len(runs) < Len(command.files) /\ HasMap /\ RecordsOf(File) # {}
    /\ docs[File].readable /\ Compatible(RecordOf(File))
    /\ entries = RecordOf(File).findings /\ findings = Reported

Printing ==
  stage = "printed" =>
    /\ Len(runs) = Len(command.files) /\ (code = 2 <=> Gate)
    /\ HasMap => removed = {earlier.records[i].file : i \in DOMAIN earlier.records}
                             \ ToSet(command.files)

Failing ==
  /\ stage \in {"files", "compare", "printed"} => CanStart(command)
  /\ stage = "failed" => MustFail
  /\ code = 1 <=> stage = "failed"

LintInv ==
  /\ LintTypes /\ ComparisonInv /\ FilesInOrder /\ Comparing /\ Printing
  /\ RecordsTell /\ Failing

LEMMA LastRecord ==
  ASSUME EarlierTyped, NEW f, RecordsOf(f) # {}
  PROVE  /\ Max(RecordsOf(f)) \in RecordsOf(f)
         /\ \A i \in RecordsOf(f) : i <= Max(RecordsOf(f))
         /\ RecordOf(f).findings \in Entries
<1>1. PICK n \in Nat : DOMAIN earlier.records = 1 .. n
  BY DEF EarlierTyped
<1>2. RecordsOf(f) \subseteq 1 .. n
  BY <1>1 DEF RecordsOf
<1>3. \E i \in RecordsOf(f) : \A j \in RecordsOf(f) : i >= j
  BY <1>1, <1>2, GreatestOf
<1>4. /\ Max(RecordsOf(f)) \in RecordsOf(f)
      /\ \A j \in RecordsOf(f) : Max(RecordsOf(f)) >= j
  BY <1>3 DEF Max
<1>5. RecordOf(f).findings \in Entries
  BY <1>4 DEF RecordOf, RecordsOf, EarlierTyped
<1> QED
  BY <1>1, <1>2, <1>4, <1>5

LEMMA FileTyped ==
  ASSUME LintTypes, Len(runs) < Len(command.files)
  PROVE  /\ File \in Files /\ docs[File] \in Texts
         /\ Len(runs) + 1 \in DOMAIN command.files
<1>1. command.files \in Seq(Files) /\ runs \in Seq(RunRecords)
  BY LintAssumption DEF LintTypes
<1>2. Len(runs) + 1 \in DOMAIN command.files
  BY <1>1, SeqFacts
<1>3. File \in Files
  BY <1>1, <1>2, SeqFacts DEF File
<1> QED
  BY <1>2, <1>3 DEF LintTypes

(* The two reports of a file.                                              *)
LEMMA ReportsOfFile ==
  ASSUME LintTypes, NEW f \in Files
  PROVE  /\ ReportOf(f).findings \in Seq(AnyFinding)
         /\ ReportOf(f).stats = Counts(ReportOf(f).findings)
         /\ \A h : h \in ToSet(ReportOf(f).findings) <=>
                /\ h \in ToSet(docs[f].hits)
                /\ IsTold(h, docs[f].hits, ConfigOf(command), GenreOf(command),
                          command.experimental)
         /\ LoadOf(f) \in AnyCounted
<1>1. docs[f].hits \in Seq(AnyFinding) /\ docs[f].load \in Seq(AnyFinding)
  BY LintAssumption DEF LintTypes
<1>2. ConfigOf(command).given \/ ConfigOf(command) = NoConfig
  BY LintAssumption DEF LintTypes, ConfigOf
<1>3. \A fs \in Seq(AnyFinding) : Counted(fs) \in AnyCounted
  BY DEF Counted, AnyCounted, AnyCounts
<1>4. LoadOf(f) \in AnyCounted
  <2>1. << >> \in Seq(AnyFinding)
    BY EmptySeq
  <2>2. Counted(docs[f].load).findings = docs[f].load
    BY DEF Counted
  <2>3. Configured(Counted(docs[f].load), ConfigOf(command)) \in AnyCounted
    BY <1>1, <1>3, <2>2, AllowedFacts DEF Configured
  <2> QED
    BY <1>1, <1>3, <2>1, <2>3 DEF LoadOf
<1> PICK hits, cfg, genre, exp :
      /\ hits \in Seq(AnyFinding) /\ hits = docs[f].hits /\ cfg = ConfigOf(command)
      /\ genre = GenreOf(command) /\ exp = command.experimental
  BY <1>1
<1>5. ReportOf(f) = Report(hits, cfg, genre, exp) /\ (cfg.given \/ cfg = NoConfig)
  BY <1>2 DEF ReportOf
<1>6. /\ Report(hits, cfg, genre, exp).findings \in Seq(AnyFinding)
      /\ Report(hits, cfg, genre, exp).stats
           = Counts(Report(hits, cfg, genre, exp).findings)
      /\ \A h : h \in ToSet(Report(hits, cfg, genre, exp).findings)
                 <=> h \in ToSet(hits) /\ IsTold(h, hits, cfg, genre, exp)
  <2>1. cfg.given \/ cfg = NoConfig
    BY <1>5
  <2> QED
    BY <2>1, ReportFacts
<1> QED
  BY <1>4, <1>5, <1>6

LEMMA InitIsSound == LintInit => LintInv
<1> SUFFICES ASSUME LintInit PROVE LintInv
  OBVIOUS
<1>1. FreshComparison
  BY EmptySeq DEF LintInit, FreshComparison, Entries
<1>2. runs \in Seq(RunRecords) /\ DOMAIN runs = {}
  BY EmptySeq DEF LintInit
<1>3. EarlierTyped /\ RecordsTell
  <2>1. PICK r \in OddReports : earlier = r
    BY DEF LintInit
  <2>2. /\ r.records \in Seq({r.records[i] : i \in DOMAIN r.records})
        /\ \A i \in DOMAIN r.records : /\ r.records[i].findings \in Entries
                                      /\ r.records[i].origin = << >>
    BY LintAssumption
  <2> QED
    BY <2>1, <2>2, SeqFacts DEF EarlierTyped, RecordsTell, TrueToOrigin
<1> QED
  BY <1>1, <1>2, <1>3, FreshIsSound
     DEF LintInit, LintInv, LintTypes, FilesInOrder, Comparing, Printing, Failing

(* The settings of a run, which no step within it changes.                 *)
LEMMA SameSettings ==
  ASSUME UNCHANGED <<docs, config, earlier, command>>
  PROVE  /\ HasMap' = HasMap /\ \A f : RecordsOf(f)' = RecordsOf(f)
         /\ \A f : RecordOf(f)' = RecordOf(f)
         /\ \A r : Compatible(r)' = Compatible(r)
         /\ \A f : ReportOf(f)' = ReportOf(f)
         /\ \A run : Fits(run)' = Fits(run)
         /\ Threshold(command)' = Threshold(command)
         /\ CanStart(command)' = CanStart(command) /\ MustFail' = MustFail
         /\ EarlierTyped' = EarlierTyped /\ RecordsTell' = RecordsTell
<1>1. HasMap' = HasMap /\ \A f : RecordsOf(f)' = RecordsOf(f)
  BY DEF HasMap, RecordsOf
<1>2. \A f : RecordOf(f)' = RecordOf(f)
  BY <1>1 DEF RecordOf
<1>3. /\ GenreOf(command)' = GenreOf(command) /\ Threshold(command)' = Threshold(command)
      /\ ConfigOf(command)' = ConfigOf(command)
  BY DEF GenreOf, Threshold, ConfigOf
<1>4. \A r : Compatible(r)' = Compatible(r)
  BY <1>3 DEF Compatible
<1>5. \A f : ReportOf(f)' = ReportOf(f)
  BY <1>3 DEF ReportOf
<1>6. \A f : IsRerun(f)' = IsRerun(f)
  BY <1>1, <1>2, <1>3 DEF IsRerun
<1>7. \A run : Fits(run)' = Fits(run)
  BY <1>1, <1>2, <1>4, <1>5, <1>6 DEF Fits
<1>8. CanStart(command)' = CanStart(command) /\ MustFail' = MustFail
  BY <1>1, <1>2, <1>3, <1>4 DEF CanStart, MustFail
<1> QED
  BY <1>1, <1>2, <1>3, <1>4, <1>5, <1>7, <1>8 DEF EarlierTyped, RecordsTell

LEMMA SameComparison ==
  ASSUME ComparisonInv, UNCHANGED compareVars
  PROVE  ComparisonInv'
<1>1. UNCHANGED <<entries, findings, left, status, pc>>
  BY DEF compareVars
<1>2. ComparisonTypes'
  BY <1>1 DEF ComparisonInv, ComparisonTypes
<1>3. OneForOne' /\ FirstAreTaken' /\ NewHadNoEntry' /\ TakenInAll'
  BY <1>1 DEF ComparisonInv, OneForOne, FirstAreTaken, NewHadNoEntry, TakenInAll,
              Taken, Likes, WithStatus, Resolved
<1> QED
  BY <1>2, <1>3 DEF ComparisonInv

LEMMA SameFiles ==
  ASSUME FilesInOrder, stage \in {"files", "compare", "printed"},
         UNCHANGED <<docs, config, earlier, command, runs>>
  PROVE  FilesInOrder'
<1>1. ASSUME NEW n \in DOMAIN runs'
      PROVE  runs'[n].file = command'.files[n] /\ Fits(runs[n])'
  <2>1. PICK r : r = runs'[n]
    OBVIOUS
  <2>2. r.file = command'.files[n] /\ Fits(r)
    BY <2>1 DEF FilesInOrder
  <2>3. Fits(r)'
    BY <2>2, SameSettings
  <2>4. Fits(runs[n])'
    BY <2>1, <2>3 DEF Fits, RecordsOf, RecordOf, Persisting, ReportOf, IsRerun
  <2> QED
    BY <2>1, <2>2, <2>4
<1> QED
  BY <1>1 DEF FilesInOrder

(* Whatever the user does between two runs.                                *)
LEMMA EditKeeps ==
  ASSUME LintInv,
         \/ \E f \in Files, t \in Texts : EditText(f, t)
         \/ \E cfg \in Configs : EditConfig(cfg)
         \/ \E r \in OddReports : OtherReport(r)
  PROVE  LintInv'
<1>1. /\ stage = "idle" /\ stage' = "idle" /\ UNCHANGED compareVars
      /\ runs' = runs /\ code' = code /\ command' = command
  BY DEF EditText, EditConfig, OtherReport
<1>2. docs' \in [Files -> Texts] /\ config' \in Configs
  BY DEF LintInv, LintTypes, EditText, EditConfig, OtherReport
<1>3. EarlierTyped' /\ RecordsTell'
  <2>1. CASE earlier' = earlier
    BY <2>1 DEF LintInv, LintTypes, EarlierTyped, RecordsTell
  <2>2. CASE earlier' # earlier
    <3>1. PICK r \in OddReports : earlier' = r
      BY <2>2 DEF EditText, EditConfig, OtherReport
    <3>2. /\ r.records \in Seq({r.records[i] : i \in DOMAIN r.records})
          /\ \A i \in DOMAIN r.records : /\ r.records[i].findings \in Entries
                                        /\ r.records[i].origin = << >>
      BY LintAssumption
    <3> QED
      BY <3>1, <3>2, SeqFacts DEF EarlierTyped, RecordsTell, TrueToOrigin
  <2> QED
    BY <2>1, <2>2
<1> QED
  BY <1>1, <1>2, <1>3, SameComparison
     DEF LintInv, LintTypes, FilesInOrder, Comparing, Printing, Failing

LEMMA StartKeeps ==
  ASSUME LintInv, NEW c \in Commands, Start(c)
  PROVE  LintInv'
<1>1. /\ command' = c /\ runs' = << >> /\ UNCHANGED <<docs, config, earlier>>
      /\ UNCHANGED compareVars
      /\ \/ stage' = "files" /\ code' = 0 /\ CanStart(c)
         \/ stage' = "failed" /\ code' = 1 /\ ~CanStart(c)
  BY DEF Start, userVars
<1>2. runs' \in Seq(RunRecords) /\ DOMAIN runs' = {} /\ Len(runs') = 0
  BY <1>1, EmptySeq
<1>3. command'.files \in Seq(Files) /\ Len(command'.files) \in Nat
  BY <1>1, LintAssumption, SeqFacts
<1>4. LintTypes' /\ RecordsTell'
  BY <1>1, <1>2 DEF LintInv, LintTypes, EarlierTyped, RecordsTell
<1>5. Failing'
  BY <1>1 DEF Failing, CanStart, MustFail, ConfigOf
<1> QED
  BY <1>1, <1>2, <1>3, <1>4, <1>5, SameComparison
     DEF LintInv, FilesInOrder, Comparing, Printing

(* A file that is unreadable, or a record of other settings.               *)
LEMMA FailKeeps ==
  ASSUME LintInv, Unreadable \/ IncompatibleRecord
  PROVE  LintInv'
<1>1. /\ stage' = "failed" /\ code' = 1
      /\ UNCHANGED <<docs, config, earlier, command, runs>> /\ UNCHANGED compareVars
  BY DEF Unreadable, IncompatibleRecord, Fail, userVars
<1>2. LintTypes' /\ RecordsTell'
  BY <1>1, SameSettings DEF LintInv, LintTypes
<1>3. MustFail
  <2>1. Len(runs) < Len(command.files)
    BY DEF Unreadable, IncompatibleRecord, InFile
  <2>2. File \in ToSet(command.files)
    BY <2>1, FileTyped DEF LintInv, ToSet, File
  <2> QED
    BY <2>2 DEF Unreadable, IncompatibleRecord, MustFail
<1>4. Failing'
  BY <1>1, <1>3, SameSettings DEF Failing
<1> QED
  BY <1>1, <1>2, <1>4, SameComparison DEF LintInv, FilesInOrder, Comparing, Printing

(* The record of a file is added, with or without a comparison.            *)
LEMMA FinishKeeps ==
  ASSUME LintInv, stage \in {"files", "compare"}, Len(runs) < Len(command.files),
         NEW kind \in {"none", "added", "matched"},
         NEW marks \in Seq(StatusNames), NEW resolved \in SUBSET Nat,
         kind # "none" => Len(marks) = Len(Reported),
         Finish(LintRunOf(Reported, kind, marks, resolved)),
         Fits(LintRunOf(Reported, kind, marks, resolved)), ComparisonInv'
  PROVE  LintInv'
<1> PICK run : run = LintRunOf(Reported, kind, marks, resolved)
  OBVIOUS
<1>1. run.file = File /\ run \in RunRecords
  <2>1. /\ File \in Files /\ LoadOf(File) \in AnyCounted
        /\ Reported \in Seq(AnyFinding) /\ ReportOf(File).stats = Counts(Reported)
    BY FileTyped, ReportsOfFile DEF LintInv, Reported
  <2> QED
    BY <2>1 DEF LintRunOf, RunRecords, AnyCounts
<1>2. /\ runs' = Append(runs, run) /\ stage' = "files" /\ code' = code
      /\ UNCHANGED <<docs, config, earlier, command>>
  BY DEF Finish, userVars
<1>3. /\ runs \in Seq(RunRecords) /\ command.files \in Seq(Files)
      /\ Len(runs) \in Nat /\ Len(command.files) \in Nat
  BY LintAssumption, SeqFacts DEF LintInv, LintTypes
<1>4. /\ runs' \in Seq(RunRecords) /\ Len(runs') = Len(runs) + 1
      /\ DOMAIN runs' = (DOMAIN runs) \cup {Len(runs) + 1}
      /\ Len(runs) + 1 \notin DOMAIN runs
      /\ \A n \in DOMAIN runs : runs'[n] = runs[n]
      /\ runs'[Len(runs) + 1] = run
  BY <1>1, <1>2, <1>3, AppendFacts
<1>5. LintTypes' /\ RecordsTell'
  BY <1>2, <1>4, SameSettings DEF LintInv, LintTypes
<1>6. FilesInOrder'
  <2>1. \A n \in DOMAIN runs : runs[n].file = command.files[n] /\ Fits(runs[n])
    BY DEF LintInv, FilesInOrder
  <2>2. run.file = command.files[Len(runs) + 1] /\ Fits(run)
    BY <1>1 DEF File
  <2>3. \A n \in DOMAIN runs' : runs'[n].file = command.files[n] /\ Fits(runs'[n])
    BY <1>4, <2>1, <2>2
  <2>4. ASSUME NEW n \in DOMAIN runs'
        PROVE  Fits(runs[n])'
    <3>1. PICK r : r = runs'[n]
      OBVIOUS
    <3>2. Fits(r)'
      BY <1>2, <2>3, <3>1, SameSettings
    <3> QED
      BY <3>1, <3>2 DEF Fits, RecordsOf, RecordOf, Persisting, ReportOf, IsRerun
  <2>5. Len(runs') <= Len(command'.files)
    BY <1>2, <1>3, <1>4
  <2> QED
    BY <1>2, <2>3, <2>4, <2>5 DEF FilesInOrder
<1>7. Comparing' /\ Printing'
  BY <1>2 DEF Comparing, Printing
<1>8. Failing'
  BY <1>2, SameSettings DEF LintInv, Failing
<1> QED
  BY <1>5, <1>6, <1>7, <1>8 DEF LintInv

LEMMA LintFileKeeps ==
  ASSUME LintInv, LintFile \/ LintAdded
  PROVE  LintInv'
<1>1. /\ stage = "files" /\ Len(runs) < Len(command.files)
      /\ docs[File].readable /\ UNCHANGED compareVars
  BY DEF LintFile, LintAdded, InFile
<1>2. Reported \in Seq(AnyFinding) /\ Reported = ReportOf(File).findings
  BY <1>1, FileTyped, ReportsOfFile DEF LintInv, Reported
<1>3. ComparisonInv'
  BY <1>1, SameComparison DEF LintInv
<1>4. CASE LintFile
  <2>1. << >> \in Seq(StatusNames) /\ {} \in SUBSET Nat
    BY EmptySeq
  <2>2. ~IsRerun(File)
    <3> SUFFICES ASSUME IsRerun(File) PROVE FALSE
      OBVIOUS
    <3>1. RecordsOf(File) # {} /\ ~RecordOf(File).hasFindings
      BY <1>4 DEF LintFile, IsRerun
    <3>2. TrueToOrigin(RecordOf(File))
      BY <3>1, LastRecord DEF LintInv, LintTypes, RecordsTell, RecordOf, RecordsOf
    <3>3. RecordOf(File).origin # << >>
      BY DEF IsRerun
    <3> QED
      BY <3>1, <3>2, <3>3 DEF TrueToOrigin
  <2>3. Fits(LintRunOf(Reported, "none", << >>, {}))
    BY <1>1, <1>2, <1>4, <2>2 DEF LintFile, Fits, LintRunOf
  <2>4. Finish(LintRunOf(Reported, "none", << >>, {}))
    BY <1>4 DEF LintFile
  <2>5. "none" \in {"none", "added", "matched"} /\ stage \in {"files", "compare"}
    BY <1>1
  <2> QED
    BY <1>1, <1>3, <2>1, <2>3, <2>4, <2>5, FinishKeeps, Zenon
<1>5. CASE LintAdded
  <2> PICK marks : marks = [i \in DOMAIN Reported |-> "new"]
    OBVIOUS
  <2>1. marks \in Seq(StatusNames) /\ Len(marks) = Len(Reported)
    <3>1. DOMAIN Reported = 1 .. Len(Reported) /\ Len(Reported) \in Nat
      BY <1>2, SeqFacts
    <3>2. marks \in Seq(StatusNames)
      BY <3>1, IsASeq DEF StatusNames
    <3> QED
      BY <3>1, <3>2, SeqFacts
  <2>2. Fits(LintRunOf(Reported, "added", marks, {}))
    BY <1>1, <1>2, <1>5, <2>1 DEF LintAdded, Fits, LintRunOf, IsRerun
  <2> QED
    BY <1>1, <1>3, <1>5, <2>1, <2>2, FinishKeeps DEF LintAdded
<1> QED
  BY <1>4, <1>5

LEMMA PrimedFresh == FreshComparison' => ComparisonInv'
BY FreshIsSound, PTL

LEMMA CompareFileKeeps ==
  ASSUME LintInv, CompareFile
  PROVE  LintInv'
<1>1. /\ stage = "files" /\ Len(runs) < Len(command.files) /\ stage' = "compare"
      /\ UNCHANGED <<docs, config, earlier, command, runs, code>>
      /\ docs[File].readable /\ HasMap
      /\ RecordsOf(File) # {} /\ Compatible(RecordOf(File))
      /\ entries' = RecordOf(File).findings /\ findings' = Reported
      /\ left' = Buckets(entries') /\ status' = << >> /\ pc' = "compare"
  BY DEF CompareFile, InFile, userVars
<1>2. Reported \in Seq(AnyFinding) /\ RecordOf(File).findings \in Entries
  BY <1>1, FileTyped, ReportsOfFile, LastRecord DEF LintInv, LintTypes, Reported
<1>3. ComparisonInv'
  <2>1. FreshComparison'
    BY <1>1, <1>2 DEF FreshComparison, Buckets
  <2> QED
    BY <2>1, PrimedFresh
<1>4. LintTypes' /\ RecordsTell'
  BY <1>1, SameSettings DEF LintInv, LintTypes
<1>5. FilesInOrder'
  BY <1>1, SameFiles DEF LintInv
<1>6. Comparing'
  BY <1>1 DEF Comparing, File, RecordsOf, RecordOf, Compatible, GenreOf, ConfigOf,
              HasMap, Reported, ReportOf
<1>7. Failing'
  BY <1>1, SameSettings DEF LintInv, Failing
<1> QED
  BY <1>1, <1>3, <1>4, <1>5, <1>6, <1>7 DEF LintInv, Printing

LEMMA CompareNextKeeps ==
  ASSUME LintInv, CompareNext
  PROVE  LintInv'
<1>1. /\ stage = "compare" /\ Next /\ entries' = entries /\ findings' = findings
      /\ UNCHANGED <<docs, config, earlier, command, stage, runs, removed, code>>
  BY DEF CompareNext, userVars, Next, Persists, IsNew, Summarize
<1>2. ComparisonInv'
  BY <1>1, PersistsKeeps, IsNewKeeps, SummarizeKeeps DEF LintInv, Next
<1>3. LintTypes' /\ RecordsTell'
  BY <1>1, SameSettings DEF LintInv, LintTypes
<1>4. FilesInOrder'
  BY <1>1, SameFiles DEF LintInv
<1>5. Comparing'
  BY <1>1 DEF LintInv, Comparing, File, RecordsOf, RecordOf, Compatible, GenreOf,
              ConfigOf, HasMap, Reported, ReportOf
<1>6. Failing'
  BY <1>1, SameSettings DEF LintInv, Failing
<1> QED
  BY <1>1, <1>2, <1>3, <1>4, <1>5, <1>6 DEF LintInv, Printing

(* A comparison with what was printed of the same text and configuration   *)
(* is a comparison of the same findings.                                   *)
LEMMA RerunPersists ==
  ASSUME LintInv, stage = "compare", pc = "done", IsRerun(File)
  PROVE  Resolved = {} /\ WithStatus("persisting") = DOMAIN findings
<1>1. /\ RecordsOf(File) # {} /\ Compatible(RecordOf(File))
      /\ entries = RecordOf(File).findings /\ findings = Reported
  BY DEF LintInv, Comparing
<1>2. /\ status \in Seq(StatusNames) /\ findings \in Seq(AnyFinding)
      /\ Len(status) = Len(findings)
  BY DEF LintInv, ComparisonInv, ComparisonTypes
<1>3. entries = PrintedOf(findings)
  <2>1. TrueToOrigin(RecordOf(File))
    BY <1>1, LastRecord DEF LintInv, LintTypes, RecordsTell, RecordOf, RecordsOf
  <2>2. RecordOf(File).origin = <<docs[File], ConfigOf(command)>>
    BY DEF IsRerun
  <2>3. /\ RecordOf(File).genre = GenreOf(command)
        /\ RecordOf(File).experimental = command.experimental
    BY <1>1 DEF Compatible
  <2>4. /\ RecordOf(File).origin # << >>
        /\ RecordOf(File).origin[1] = docs[File]
        /\ RecordOf(File).origin[2] = ConfigOf(command)
    BY <2>2
  <2> QED
    BY <1>1, <2>1, <2>3, <2>4 DEF TrueToOrigin, Reported, ReportOf
<1>4. /\ DOMAIN entries = DOMAIN findings
      /\ \A i \in DOMAIN findings : /\ entries[i] # Malformed
                                   /\ entries[i].category = findings[i].category
                                   /\ entries[i].head = findings[i].head
  <2>1. \A i \in DOMAIN findings :
          findings[i].category \in Categories /\ findings[i].head \in Heads
    <3>1. \A i \in DOMAIN findings : findings[i] \in AnyFinding
      BY <1>2, SeqFacts
    <3> QED
      BY <3>1 DEF AnyFinding
  <2>2. \A i \in DOMAIN findings :
          entries[i] = [category |-> findings[i].category, head |-> findings[i].head]
    BY <1>3 DEF PrintedOf
  <2>3. \A i \in DOMAIN findings : entries[i] # Malformed
    <3>1. \A i \in DOMAIN findings :
            entries[i] \in [category : Categories, head : Heads]
      <4> SUFFICES ASSUME NEW i \in DOMAIN findings
                   PROVE  entries[i] \in [category : Categories, head : Heads]
        OBVIOUS
      <4> PICK c \in Categories, h \in Heads :
            c = findings[i].category /\ h = findings[i].head
        BY <2>1
      <4>1. entries[i] = [category |-> c, head |-> h]
        BY <2>2
      <4> QED
        BY <4>1
    <3>2. Malformed \notin [category : Categories, head : Heads]
      BY BaselineAssumption
    <3> QED
      BY <3>1, <3>2, Zenon
  <2> QED
    BY <1>3, <2>2, <2>3 DEF PrintedOf
<1>5. SameAsBefore
  <2>1. \A f \in Finding :
          FindingsLike(f, DOMAIN findings) = EntriesLike(f, DOMAIN entries)
    BY <1>4 DEF FindingsLike, EntriesLike, SameFinding
  <2> QED
    BY <2>1 DEF SameAsBefore
<1>6. Resolved = {} /\ WithStatus("new") = {}
  BY <1>5, OrderSaysNothing DEF LintInv, OrderDoesNotMatter
<1>7. WithStatus("persisting") = DOMAIN findings
  <2>1. /\ DOMAIN findings = DOMAIN status
        /\ \A i \in DOMAIN status : status[i] \in StatusNames
    BY <1>2, SeqFacts
  <2> QED
    BY <1>6, <2>1 DEF WithStatus, StatusNames
<1> QED
  BY <1>6, <1>7

LEMMA FinishComparisonKeeps ==
  ASSUME LintInv, FinishComparison
  PROVE  LintInv'
<1>1. /\ stage = "compare" /\ pc = "done"
      /\ Finish(LintRunOf(findings, "matched", status, Resolved))
      /\ entries' = << >> /\ findings' = << >> /\ status' = << >>
      /\ left' = Buckets(<< >>) /\ pc' = "done"
  BY DEF FinishComparison
<1>2. /\ Len(runs) < Len(command.files) /\ HasMap /\ RecordsOf(File) # {}
      /\ docs[File].readable /\ Compatible(RecordOf(File))
      /\ entries = RecordOf(File).findings
      /\ findings = Reported /\ Reported = ReportOf(File).findings
  BY <1>1 DEF LintInv, Comparing, Reported
<1>3. /\ findings \in Seq(AnyFinding) /\ status \in Seq(StatusNames)
      /\ ComparisonTypes /\ Len(status) = Len(findings)
  BY <1>1 DEF LintInv, ComparisonInv, ComparisonTypes
<1>4. /\ Resolved \subseteq Usable(entries) /\ IsFiniteSet(Usable(entries))
      /\ IsFiniteSet(Resolved) /\ IsFiniteSet(WithStatus("persisting"))
  BY <1>3, BucketsFinite, StatusIsOfFinding
<1>5. Resolved \in SUBSET Nat
  BY <1>3, BucketsFinite DEF Resolved
<1>6. Cardinality(WithStatus("persisting")) + Cardinality(Resolved)
        = Cardinality(Usable(entries))
  <2>1. Usable(entries) \cap Resolved = Resolved
    BY <1>4
  <2>2. Cardinality(Usable(entries) \ Resolved)
          = Cardinality(Usable(entries)) - Cardinality(Resolved)
    BY <1>4, <2>1, FS_Difference
  <2>3. Cardinality(Usable(entries)) \in Nat /\ Cardinality(Resolved) \in Nat
    BY <1>4, FS_CardinalityType
  <2> QED
    BY <2>2, <2>3 DEF LintInv, ComparisonInv, TakenInAll
<1>7. IsRerun(File) =>
        Resolved = {} /\ WithStatus("persisting") = DOMAIN findings
  BY <1>1, RerunPersists
<1>8. Fits(LintRunOf(findings, "matched", status, Resolved))
  BY <1>2, <1>3, <1>6, <1>7 DEF Fits, LintRunOf, Persisting, WithStatus
<1>9. ComparisonInv'
  <2>1. FreshComparison'
    BY <1>1, EmptySeq DEF FreshComparison, Buckets, Entries
  <2> QED
    BY <2>1, PrimedFresh
<1> QED
  BY <1>1, <1>2, <1>3, <1>5, <1>8, <1>9, FinishKeeps

LEMMA OutputKeeps ==
  ASSUME LintInv, Output
  PROVE  LintInv'
<1>1. /\ stage = "files" /\ Len(runs) = Len(command.files) /\ stage' = "printed"
      /\ UNCHANGED <<docs, config, earlier, command, runs>> /\ UNCHANGED compareVars
      /\ HasMap => removed' = {earlier.records[i].file : i \in DOMAIN earlier.records}
                                \ ToSet(command.files)
      /\ code' = IF Gate THEN 2 ELSE 0
  BY DEF Output, userVars
<1>2. LintTypes' /\ RecordsTell' /\ FilesInOrder'
  BY <1>1, SameFiles, SameSettings DEF LintInv, LintTypes
<1>3. Printing'
  BY <1>1 DEF Printing, Gate, HasMap, Threshold, ConfigOf
<1>4. Failing'
  BY <1>1, SameSettings DEF LintInv, Failing
<1> QED
  BY <1>1, <1>2, <1>3, <1>4, SameComparison DEF LintInv, Comparing

(* What is printed is a report that later runs can be compared with.       *)
LEMMA LeaveKeeps ==
  ASSUME LintInv, SaveReport \/ Discard
  PROVE  LintInv'
<1>1. /\ stage' = "idle" /\ runs' = << >> /\ code' = 0
      /\ UNCHANGED <<docs, config, command>> /\ UNCHANGED compareVars
  BY DEF SaveReport, Discard, Leave
<1>2. runs' \in Seq(RunRecords) /\ DOMAIN runs' = {}
  BY <1>1, EmptySeq
<1>3. EarlierTyped' /\ RecordsTell'
  <2>1. CASE Discard
    BY <2>1 DEF Discard, LintInv, LintTypes, EarlierTyped, RecordsTell
  <2>2. CASE SaveReport
    <3>1. /\ runs \in Seq(RunRecords) /\ DOMAIN runs = 1 .. Len(runs)
          /\ Len(runs) \in Nat /\ \A n \in DOMAIN runs : runs[n] \in RunRecords
      BY SeqFacts DEF LintInv, LintTypes
    <3>2. earlier'.records = [i \in DOMAIN runs |-> Printed(runs[i])]
      BY <2>2 DEF SaveReport
    <3>3. ASSUME NEW i \in DOMAIN runs
          PROVE  Printed(runs[i]).findings \in Entries
      <4>1. runs[i].findings \in Seq(AnyFinding)
        BY <3>1 DEF RunRecords
      <4>2. /\ DOMAIN runs[i].findings = 1 .. Len(runs[i].findings)
            /\ Len(runs[i].findings) \in Nat
            /\ \A j \in DOMAIN runs[i].findings : runs[i].findings[j] \in AnyFinding
        BY <4>1, SeqFacts
      <4>3. \A j \in DOMAIN runs[i].findings :
              [category |-> runs[i].findings[j].category,
               head |-> runs[i].findings[j].head] \in Finding \cup {Malformed}
        BY <4>2 DEF AnyFinding, Finding
      <4> QED
        BY <4>2, <4>3, IsASeq DEF Printed, Entries
    <3>4. ASSUME NEW i \in DOMAIN runs
          PROVE  TrueToOrigin(Printed(runs[i]))
      <4>1. runs[i].findings = ReportOf(runs[i].file).findings
        BY <2>2 DEF SaveReport, LintInv, FilesInOrder, Fits
      <4> QED
        BY <4>1 DEF Printed, TrueToOrigin, PrintedOf, ReportOf
    <3> QED
      BY <3>1, <3>2, <3>3, <3>4 DEF EarlierTyped, RecordsTell
  <2> QED
    BY <2>1, <2>2
<1> QED
  BY <1>1, <1>2, <1>3, SameComparison
     DEF LintInv, LintTypes, FilesInOrder, Comparing, Printing, Failing

LEMMA NextKeeps == LintInv /\ [LintNext]_lintVars => LintInv'
<1> SUFFICES ASSUME LintInv, [LintNext]_lintVars PROVE LintInv'
  OBVIOUS
<1>1. CASE UNCHANGED lintVars
  <2>1. /\ UNCHANGED <<docs, config, earlier, command, stage, runs, removed, code>>
        /\ UNCHANGED compareVars
    BY <1>1 DEF lintVars, userVars
  <2>2. LintTypes' /\ RecordsTell' /\ FilesInOrder'
    <3>1. LintTypes' /\ RecordsTell'
      BY <2>1, SameSettings DEF LintInv, LintTypes
    <3>2. CASE stage \in {"files", "compare", "printed"}
      BY <2>1, <3>1, <3>2, SameFiles DEF LintInv
    <3>3. CASE stage \notin {"files", "compare", "printed"}
      BY <2>1, <3>1, <3>3 DEF FilesInOrder
    <3> QED
      BY <3>1, <3>2, <3>3
  <2>3. Comparing' /\ Printing'
    BY <2>1 DEF LintInv, Comparing, Printing, File, RecordsOf, RecordOf, Compatible,
                GenreOf, ConfigOf, HasMap, Gate, Threshold, compareVars, Reported,
                ReportOf
  <2>4. Failing'
    BY <2>1, SameSettings DEF LintInv, Failing
  <2> QED
    BY <2>1, <2>2, <2>3, <2>4, SameComparison DEF LintInv
<1>2. CASE \/ \E f \in Files, t \in Texts : EditText(f, t)
           \/ \E cfg \in Configs : EditConfig(cfg)
           \/ \E r \in OddReports : OtherReport(r)
  BY <1>2, EditKeeps
<1>3. CASE \E c \in Commands : Start(c)
  BY <1>3, StartKeeps
<1>4. CASE Unreadable \/ IncompatibleRecord
  BY <1>4, FailKeeps
<1>5. CASE LintFile \/ LintAdded
  BY <1>5, LintFileKeeps
<1>6. CASE CompareFile
  BY <1>6, CompareFileKeeps
<1>7. CASE CompareNext
  BY <1>7, CompareNextKeeps
<1>8. CASE FinishComparison
  BY <1>8, FinishComparisonKeeps
<1>9. CASE Output
  BY <1>9, OutputKeeps
<1>10. CASE SaveReport \/ Discard
  BY <1>10, LeaveKeeps
<1> QED
  BY <1>1, <1>2, <1>3, <1>4, <1>5, <1>6, <1>7, <1>8, <1>9, <1>10 DEF LintNext

LEMMA AlwaysSound == LintSpec => []LintInv
BY InitIsSound, NextKeeps, PTL DEF LintSpec
-----------------------------------------------------------------------------
(* apply_baseline matches one to one, at every moment of every comparison  *)
(* a run makes.                                                            *)
THEOREM BaselineAnswersOneToOne == LintSpec => []BaselineIsAnswered
<1>1. LintInv => BaselineIsAnswered
  BY ComparisonAnswers DEF LintInv
<1> QED
  BY <1>1, AlwaysSound, PTL

(* execute compares only what was found under the same settings.           *)
THEOREM OnlyLikeIsCompared == LintSpec => []ComparedAlike
<1>1. LintInv => ComparedAlike
  <2> SUFFICES ASSUME LintInv, stage = "printed", NEW n \in DOMAIN runs,
                      runs[n].baseline = "matched"
               PROVE  \E i \in RecordsOf(runs[n].file) :
                        /\ earlier.records[i].genre = GenreOf(command)
                        /\ earlier.records[i].experimental = command.experimental
    BY DEF ComparedAlike
  <2>1. RecordsOf(runs[n].file) # {} /\ Compatible(RecordOf(runs[n].file))
    BY DEF LintInv, FilesInOrder, Fits
  <2>2. Max(RecordsOf(runs[n].file)) \in RecordsOf(runs[n].file)
    BY <2>1, LastRecord DEF LintInv, LintTypes
  <2> QED
    BY <2>1, <2>2 DEF Compatible, RecordOf
<1> QED
  BY <1>1, AlwaysSound, PTL

(* What a run prints of its files, once it prints.                         *)
LEMMA PrintedFiles ==
  ASSUME LintInv, stage = "printed"
  PROVE  /\ DOMAIN runs = DOMAIN command.files
         /\ \A n \in DOMAIN runs :
              /\ runs[n] \in RunRecords /\ runs[n].file = command.files[n]
              /\ runs[n].file \in Files /\ Fits(runs[n])
<1>1. runs \in Seq(RunRecords) /\ command.files \in Seq(Files)
  BY LintAssumption DEF LintInv, LintTypes
<1>2. /\ DOMAIN runs = 1 .. Len(runs) /\ DOMAIN command.files = 1 .. Len(command.files)
      /\ \A n \in DOMAIN runs : runs[n] \in RunRecords
  BY <1>1, SeqFacts
<1>3. Len(runs) = Len(command.files)
  BY DEF LintInv, Printing
<1>4. \A n \in DOMAIN runs : runs[n].file \in Files
  BY <1>2 DEF RunRecords
<1> QED
  BY <1>2, <1>3, <1>4 DEF LintInv, FilesInOrder

(* Outcome, exit code and counts of a run are of the texts it was given.   *)
THEOREM OutcomeIsOfTheReport == LintSpec => []OutcomeTellsReport
<1>1. LintInv => OutcomeTellsReport
  <2> SUFFICES ASSUME LintInv PROVE OutcomeTellsReport
    OBVIOUS
  <2>1. AllOrNothing
    <3>1. ASSUME stage = "printed" PROVE ~MustFail
      <4>1. \A f \in ToSet(command.files) :
              /\ docs[f].readable
              /\ HasMap /\ RecordsOf(f) # {} => Compatible(RecordOf(f))
        BY <3>1, PrintedFiles DEF Fits, ToSet
      <4> QED
        BY <3>1, <4>1 DEF LintInv, Failing, CanStart, MustFail
    <3> QED
      BY <3>1 DEF LintInv, Failing, AllOrNothing
  <2>2. ExitCodeIsOfTexts
    <3> SUFFICES ASSUME stage = "printed"
                 PROVE  code = 2 <=>
                          \E f \in ToSet(command.files) : \E h \in ToSet(docs[f].hits) :
                            /\ IsTold(h, docs[f].hits, ConfigOf(command),
                                      GenreOf(command), command.experimental)
                            /\ Reaches(h, Threshold(command))
      BY DEF ExitCodeIsOfTexts
    <3>1. code = 2 <=> \E n \in DOMAIN runs : \E h \in ToSet(runs[n].findings) :
                         Reaches(h, Threshold(command))
      BY DEF LintInv, Printing, Gate
    <3>2. \A n \in DOMAIN runs : \A h :
            h \in ToSet(runs[n].findings) <=>
              /\ h \in ToSet(docs[command.files[n]].hits)
              /\ IsTold(h, docs[command.files[n]].hits, ConfigOf(command),
                        GenreOf(command), command.experimental)
      <4> SUFFICES ASSUME NEW n \in DOMAIN runs, NEW h
                   PROVE  h \in ToSet(runs[n].findings) <=>
                            /\ h \in ToSet(docs[command.files[n]].hits)
                            /\ IsTold(h, docs[command.files[n]].hits,
                                      ConfigOf(command), GenreOf(command),
                                      command.experimental)
        OBVIOUS
      <4> PICK f \in Files : f = command.files[n]
        BY PrintedFiles
      <4>1. runs[n].findings = ReportOf(f).findings
        BY PrintedFiles DEF Fits
      <4> QED
        BY <4>1, ReportsOfFile DEF LintInv
    <3>3. ToSet(command.files) = {command.files[n] : n \in DOMAIN runs}
      BY PrintedFiles DEF ToSet
    <3> QED
      BY <3>1, <3>2, <3>3
  <2>3. CountsDescribeFindings
    <3> SUFFICES ASSUME NEW n \in DOMAIN runs
                 PROVE  /\ HasItsCounts(runs[n]) /\ HasItsCounts(runs[n].load)
                        /\ runs[n].baseline # "none" =>
                             Cardinality(Persisting(runs[n]))
                               + Cardinality({i \in DOMAIN runs[n].status :
                                                runs[n].status[i] = "new"})
                                 = runs[n].stats.total
      BY DEF CountsDescribeFindings
    <3>1. runs \in Seq(RunRecords) /\ runs[n] \in RunRecords
      BY SeqFacts DEF LintInv, LintTypes
    <3>2. HasItsCounts(runs[n])
      BY <3>1, CountsFacts DEF RunRecords
    <3>3. HasItsCounts(runs[n].load)
      BY <3>1, CountsFacts DEF RunRecords, AnyCounted
    <3>4. ASSUME runs[n].baseline # "none"
          PROVE  Cardinality(Persisting(runs[n]))
                   + Cardinality({i \in DOMAIN runs[n].status :
                                    runs[n].status[i] = "new"})
                     = runs[n].stats.total
      <4> DEFINE P == Persisting(runs[n])
                 N == {i \in DOMAIN runs[n].status : runs[n].status[i] = "new"}
      <4>1. /\ runs[n].status \in Seq(StatusNames)
            /\ runs[n].findings \in Seq(AnyFinding)
            /\ runs[n].stats.total = Len(runs[n].status)
        BY <3>1, <3>2, <3>4 DEF RunRecords, HasItsCounts
      <4>2. /\ DOMAIN runs[n].status = 1 .. Len(runs[n].status)
            /\ Len(runs[n].status) \in Nat
            /\ \A i \in DOMAIN runs[n].status : runs[n].status[i] \in StatusNames
        BY <4>1, SeqFacts
      <4>3. P \cup N = 1 .. Len(runs[n].status) /\ P \cap N = {}
        BY <4>2 DEF Persisting, StatusNames
      <4>4. /\ IsFiniteSet(P) /\ IsFiniteSet(N)
            /\ Cardinality(P) \in Nat /\ Cardinality(N) \in Nat
        <5>1. P \in SUBSET DOMAIN runs[n].status /\ N \in SUBSET DOMAIN runs[n].status
          BY DEF Persisting
        <5> QED
          BY <4>1, <5>1, PositionsFinite
      <4> HIDE DEF P, N
      <4>5. Cardinality(P \cup N) = Cardinality(P) + Cardinality(N)
        <5>1. Cardinality(P \cup N)
                = Cardinality(P) + Cardinality(N) - Cardinality(P \cap N)
          BY <4>4, FS_Union
        <5>2. Cardinality(P \cap N) = 0
          BY <4>3, FS_EmptySet
        <5> QED
          BY <4>4, <5>1, <5>2
      <4>6. Cardinality(1 .. Len(runs[n].status)) = Len(runs[n].status)
        BY <4>2, FS_Interval
      <4> QED
        BY <4>1, <4>3, <4>5, <4>6 DEF P, N
    <3> QED
      BY <3>2, <3>3, <3>4
  <2>4. NothingChangedNothingNew
    BY PrintedFiles DEF NothingChangedNothingNew, Fits, IsRerun
  <2> QED
    BY <2>1, <2>2, <2>3, <2>4 DEF OutcomeTellsReport
<1> QED
  BY <1>1, AlwaysSound, PTL

(* Nothing of the earlier report vanishes unmentioned.                     *)
THEOREM EarlierReportIsTold == LintSpec => []EarlierReportIsAnswered
<1>1. LintInv => EarlierReportIsAnswered
  <2> SUFFICES ASSUME LintInv, stage = "printed", HasMap,
                      NEW i \in DOMAIN earlier.records,
                      earlier.records[i].file \notin removed,
                      earlier.records[i].hasFindings,
                      ~\E i2 \in DOMAIN earlier.records :
                         i < i2 /\ earlier.records[i2].file = earlier.records[i].file
               PROVE  \E n \in DOMAIN runs :
                        /\ runs[n].file = earlier.records[i].file
                        /\ Cardinality(Persisting(runs[n]))
                             + Cardinality(runs[n].resolved)
                               = Cardinality({j \in DOMAIN earlier.records[i].findings :
                                   earlier.records[i].findings[j] # Malformed})
    BY DEF EarlierReportIsAnswered
  <2> PICK f : f = earlier.records[i].file
    OBVIOUS
  <2>1. f \in ToSet(command.files) /\ Len(runs) = Len(command.files)
    BY DEF LintInv, Printing
  <2>2. PICK n \in DOMAIN command.files : command.files[n] = f
    BY <2>1 DEF ToSet
  <2>3. n \in DOMAIN runs
    <3>1. command.files \in Seq(Files) /\ runs \in Seq(RunRecords)
      BY LintAssumption DEF LintInv, LintTypes
    <3> QED
      BY <2>1, <3>1, SeqFacts
  <2>4. runs[n].file = f /\ Fits(runs[n])
    BY <2>2, <2>3 DEF LintInv, FilesInOrder
  <2>5. i \in RecordsOf(f)
    BY DEF RecordsOf
  <2>6. RecordOf(f) = earlier.records[i]
    <3>1. EarlierTyped
      BY DEF LintInv, LintTypes
    <3>2. Max(RecordsOf(f)) \in RecordsOf(f) /\ i <= Max(RecordsOf(f))
      BY <2>5, <3>1, LastRecord
    <3>3. \A j \in RecordsOf(f) : j \in Nat /\ ~(i < j)
      BY <3>1 DEF RecordsOf, EarlierTyped
    <3>4. Max(RecordsOf(f)) = i
      BY <2>5, <3>2, <3>3
    <3> QED
      BY <3>4 DEF RecordOf
  <2>7. Cardinality(Persisting(runs[n])) + Cardinality(runs[n].resolved)
          = Cardinality(Usable(earlier.records[i].findings))
    BY <2>4, <2>5, <2>6 DEF Fits
  <2> QED
    BY <2>3, <2>4, <2>7 DEF Usable
<1> QED
  BY <1>1, AlwaysSound, PTL

(* analyze leaves nothing out that it does not say in another finding.     *)
THEOREM LeftOutIsAlwaysCovered == LintSpec => []DuplicateIsCovered
<1>1. LintInv => DuplicateIsCovered
  <2> SUFFICES ASSUME LintInv, NEW file \in Files, NEW genre \in Genres,
                      NEW exp \in BOOLEAN, NEW f \in ToSet(docs[file].hits),
                      Detects(f, genre, exp), Wanted(f, genre, exp)
               PROVE  CoveredIn(f, Analyze(docs[file].hits, genre, exp))
    BY DEF DuplicateIsCovered
  <2>1. docs[file].hits \in Seq(AnyFinding)
    BY LintAssumption DEF LintInv, LintTypes
  <2>2. PICK i \in DOMAIN docs[file].hits : f = docs[file].hits[i]
    BY DEF ToSet
  <2> QED
    BY <2>1, <2>2, LeftOutIsCovered
<1> QED
  BY <1>1, AlwaysSound, PTL

(***************************************************************************)
(* The audit of a manuscript                                               *)
(***************************************************************************)

(* A function on the first numbers is a sequence.                          *)
LEMMA ListOfFunction ==
  ASSUME NEW n \in Nat, NEW S, NEW f \in [1 .. n -> S]
  PROVE  f \in Seq(S) /\ Len(f) = n /\ DOMAIN f = 1 .. n
<1>1. f \in Seq(S)
  BY SeqDef
<1> QED BY <1>1, LenProperties

LEMMA ListFacts ==
  ASSUME NEW s, IsList(s)
  PROVE  /\ Len(s) \in Nat /\ DOMAIN s = 1 .. Len(s)
         /\ s = [i \in 1 .. Len(s) |-> s[i]]
<1>1. s \in Seq(ToSet(s))
  BY DEF IsList
<1>2. Len(s) \in Nat /\ DOMAIN s = 1 .. Len(s) /\ s \in [1 .. Len(s) -> ToSet(s)]
  BY <1>1, LenProperties
<1> QED BY <1>2

(* Comments are masked line by line.                                       *)
LEMMA MaskedIsList ==
  ASSUME NEW lines, IsList(lines)
  PROVE  /\ IsList(mask_html_comments(lines))
         /\ Len(mask_html_comments(lines)) = Len(lines)
<1> DEFINE inside[n \in 0 .. Len(lines)] == n > 0 /\ InsideAfter(inside[n - 1], lines[n])
           masked == [n \in 1 .. Len(lines) |-> Uncommented(inside[n - 1], lines[n])]
<1>1. mask_html_comments(lines) = masked
  BY Zenon DEF mask_html_comments
<1>2. Len(lines) \in Nat
  BY ListFacts
<1> HIDE DEF inside
<1>3. ToSet(masked) = {masked[n] : n \in 1 .. Len(lines)}
  BY DEF ToSet
<1>4. masked \in [1 .. Len(lines) -> ToSet(masked)]
  BY <1>3
<1> HIDE DEF masked
<1>5. masked \in Seq(ToSet(masked)) /\ Len(masked) = Len(lines)
  BY <1>2, <1>4, ListOfFunction
<1> QED BY <1>1, <1>5 DEF IsList

-----------------------------------------------------------------------------
(* The state behind the lines read so far, line by line.                   *)
IsReading(f, n, masked) ==
  /\ f = [i \in 0 .. n |-> f[i]]
  /\ \A i \in 0 .. n : f[i] = IF i = 0 THEN ViewStart ELSE ReadLine(f[i - 1], masked[i])

LEMMA ReadingExists ==
  ASSUME NEW n \in Nat, NEW masked
  PROVE  \E f : IsReading(f, n, masked)
<1> DEFINE Good == {m \in 0 .. n : \E f : IsReading(f, m, masked)}
<1>1. 0 \in Good
  <2> DEFINE g == [i \in 0 .. 0 |-> ViewStart]
  <2>1. IsReading(g, 0, masked)
    BY DEF IsReading
  <2> HIDE DEF g
  <2>2. \E f : IsReading(f, 0, masked)
    BY <2>1, Zenon
  <2> QED BY <2>2
<1>2. ASSUME NEW m \in 0 + 1 .. n, m - 1 \in Good PROVE m \in Good
  <2>1. m \in 0 .. n /\ m # 0 /\ m - 1 \in 0 .. m - 1 /\ m \in Nat
    OBVIOUS
  <2>2. PICK f : IsReading(f, m - 1, masked)
    BY <1>2, Zenon
  <2> DEFINE new == ReadLine(f[m - 1], masked[m])
             g == [i \in 0 .. m |-> IF i = m THEN new ELSE f[i]]
  <2>3. g = [i \in 0 .. m |-> g[i]]
    <3> HIDE DEF new
    <3> QED OBVIOUS
  <2>4. ASSUME NEW i \in 0 .. m
        PROVE  g[i] = IF i = 0 THEN ViewStart ELSE ReadLine(g[i - 1], masked[i])
    <3>1. CASE i = m
      <4>1. m - 1 \in 0 .. m /\ m - 1 # m
        BY <2>1
      <4>2. g[m - 1] = f[m - 1]
        <5> HIDE DEF new
        <5> QED BY <4>1
      <4>3. g[i] = new
        <5> HIDE DEF new
        <5> QED BY <3>1
      <4> HIDE DEF g
      <4> QED BY <2>1, <3>1, <4>2, <4>3
    <3>2. CASE i # m
      <4>1. i \in 0 .. m - 1 /\ (i # 0 => i - 1 \in 0 .. m /\ i - 1 # m)
        BY <2>1, <3>2
      <4>2. g[i] = f[i] /\ (i # 0 => g[i - 1] = f[i - 1])
        <5> HIDE DEF new
        <5> QED BY <3>2, <4>1
      <4>3. f[i] = IF i = 0 THEN ViewStart ELSE ReadLine(f[i - 1], masked[i])
        BY <2>2, <4>1 DEF IsReading
      <4> HIDE DEF g
      <4> QED BY <4>2, <4>3
    <3> QED BY <3>1, <3>2
  <2> HIDE DEF g
  <2>5. IsReading(g, m, masked)
    BY <2>3, <2>4 DEF IsReading
  <2>6. \E h : IsReading(h, m, masked)
    BY <2>5, Zenon
  <2> QED BY <2>1, <2>6
<1> HIDE DEF Good
<1>3. \A m \in 0 .. n : m \in Good
  BY <1>1, <1>2, ByStep
<1>4. n \in Good
  BY <1>3
<1> QED BY <1>4, Zenon DEF Good

(* What source_view reads is what reading the lines one by one ends with.  *)
LEMMA ViewReads ==
  ASSUME NEW lines, IsList(lines)
  PROVE  \E f : /\ IsReading(f, Len(lines), mask_html_comments(lines))
                /\ source_view(lines) = f[Len(lines)]
<1> DEFINE masked == mask_html_comments(lines)
           Rec(f) == f = [n \in 0 .. Len(masked) |->
                            IF n = 0 THEN ViewStart ELSE ReadLine(f[n - 1], masked[n])]
           upTo == CHOOSE f : Rec(f)
<1>1. source_view(lines) = upTo[Len(masked)]
  BY Zenon DEF source_view
<1>2. Len(masked) = Len(lines) /\ Len(lines) \in Nat
  BY MaskedIsList, ListFacts
<1> HIDE DEF masked
<1>3. PICK f : IsReading(f, Len(lines), masked)
  BY <1>2, ReadingExists
<1>4. Rec(f)
  <2> DEFINE body(n) == IF n = 0 THEN ViewStart ELSE ReadLine(f[n - 1], masked[n])
  <2>1. \A n \in 0 .. Len(masked) : f[n] = body(n)
    BY <1>2, <1>3 DEF IsReading
  <2>2. f = [n \in 0 .. Len(masked) |-> f[n]]
    BY <1>2, <1>3 DEF IsReading
  <2> HIDE DEF body
  <2>3. f = [n \in 0 .. Len(masked) |-> body(n)]
    BY <2>1, <2>2
  <2> QED BY <2>3 DEF body
<1>5. Rec(upTo)
  <2> HIDE DEF Rec
  <2> QED BY <1>4, Zenon
<1> HIDE DEF upTo
<1>6. IsReading(upTo, Len(lines), masked)
  <2> DEFINE body(n) == IF n = 0 THEN ViewStart ELSE ReadLine(upTo[n - 1], masked[n])
  <2>1. upTo = [n \in 0 .. Len(masked) |-> body(n)]
    BY <1>5
  <2> HIDE DEF body
  <2>2. upTo = [n \in 0 .. Len(lines) |-> upTo[n]]
    BY <1>2, <2>1
  <2>3. \A n \in 0 .. Len(lines) : upTo[n] = body(n)
    BY <1>2, <2>1
  <2> QED BY <2>2, <2>3 DEF IsReading, body
<1> QED BY <1>1, <1>2, <1>6, Zenon DEF masked

(* What a state of the reading has in its main text, the line taken up or  *)
(* not.                                                                    *)
HasMain(t, main, line) == "main" \in DOMAIN t /\ t.main \in {main, Append(main, line)}

LEMMA ReadKeepsMain ==
  ASSUME NEW s, "main" \in DOMAIN s
  PROVE  "main" \in DOMAIN Read(s) /\ Read(s).main = s.main
BY DEF Read

LEMMA BodyMain ==
  ASSUME NEW s, "main" \in DOMAIN s, NEW line
  PROVE  HasMain(Body(s, line), s.main, line)
<1> DEFINE r == Read(s)
<1>1. "main" \in DOMAIN r /\ r.main = s.main
  BY ReadKeepsMain
<1> HIDE DEF r
<1> USE DEF HasMain
<1>2. CASE line.omit
  BY <1>1, <1>2 DEF Body, r
<1>3. CASE ~line.omit /\ s.note # 0
  <2>1. Body(s, line) = [r EXCEPT !.sync = Append(@, line)]
    BY <1>3 DEF Body, r
  <2> QED BY <1>1, <2>1
<1>4. CASE ~line.omit /\ s.note = 0 /\ s.reference # 0
  <2>1. Body(s, line) = [r EXCEPT !.sync = Append(@, line), !.references = Append(@, line)]
    BY <1>4 DEF Body, r
  <2> QED BY <1>1, <2>1
<1>5. CASE ~line.omit /\ s.note = 0 /\ s.reference = 0
  <2>1. Body(s, line) =
          [r EXCEPT !.sync = Append(@, line), !.citation = Append(@, line),
                    !.main = IF line.kind = "table" THEN @ ELSE Append(@, line)]
    BY <1>5 DEF Body, r
  <2> QED BY <1>1, <2>1
<1> QED BY <1>2, <1>3, <1>4, <1>5

LEMMA NoteMain ==
  ASSUME NEW s, "main" \in DOMAIN s, NEW marker, NEW omit, NEW line
  PROVE  HasMain(AddNote(s, marker, omit, line), s.main, line)
BY DEF AddNote, HasMain

LEMMA SectionMain ==
  ASSUME NEW s, "main" \in DOMAIN s, NEW line
  PROVE  HasMain(OpenSection(s, line), s.main, line)
BY ReadKeepsMain DEF OpenSection, HasMain

LEMMA LineMain ==
  ASSUME NEW s, "main" \in DOMAIN s, NEW line
  PROVE  HasMain(ReadLine(s, line), s.main, line)
<1> DEFINE rule == line.kind = "rule"
           fence == FenceAfter(s.fence, line, ClosesFence(s.fence, line))
           behind == [s EXCEPT !.reference = Left(@, line), !.note = Left(@, line)]
           front == s.first /\ rule
           goes == s.open.is /\ line.indent > 0
           inCode == s.fence # NoFence \/ fence # NoFence
           section == line.kind = "heading" /\ line.mark \in {"references", "notes"}
           note == line.kind = "note" \/ (line.kind = "jpnote" /\ behind.note # 0)
<1>1. "main" \in DOMAIN behind /\ behind.main = s.main
  OBVIOUS
<1> HIDE DEF rule, fence, behind, front, goes, inCode, section, note
<1>2. ReadLine(s, line) \in
        {[Read(s) EXCEPT !.front = TRUE], [Read(s) EXCEPT !.front = ~rule],
         AddNote(s, s.open.marker, s.open.omit, line), [Read(s) EXCEPT !.fence = fence],
         OpenSection(s, line), AddNote(Read(behind), line.mark, line.omit, line), Body(behind, line)}
  <2>1. CASE front
    BY <2>1 DEF ReadLine, front, rule
  <2>2. CASE ~front /\ s.front
    BY <2>2 DEF ReadLine, front, rule
  <2>3. CASE ~front /\ ~s.front /\ goes
    BY <2>3 DEF ReadLine, front, rule, goes
  <2>4. CASE ~front /\ ~s.front /\ ~goes /\ inCode
    BY <2>4 DEF ReadLine, front, rule, goes, inCode, fence
  <2>5. CASE ~front /\ ~s.front /\ ~goes /\ ~inCode /\ section
    BY <2>5 DEF ReadLine, front, rule, goes, inCode, fence, section
  <2>6. CASE ~front /\ ~s.front /\ ~goes /\ ~inCode /\ ~section /\ note
    BY <2>6 DEF ReadLine, front, rule, goes, inCode, fence, section, note, behind
  <2>7. CASE ~front /\ ~s.front /\ ~goes /\ ~inCode /\ ~section /\ ~note
    BY <2>7 DEF ReadLine, front, rule, goes, inCode, fence, section, note, behind
  <2> QED BY <2>1, <2>2, <2>3, <2>4, <2>5, <2>6, <2>7
<1>3. /\ "main" \in DOMAIN Read(s) /\ Read(s).main = s.main
      /\ "main" \in DOMAIN Read(behind) /\ Read(behind).main = s.main
  BY <1>1, ReadKeepsMain
<1>4. /\ HasMain([Read(s) EXCEPT !.front = TRUE], s.main, line)
      /\ HasMain([Read(s) EXCEPT !.front = ~rule], s.main, line)
      /\ HasMain([Read(s) EXCEPT !.fence = fence], s.main, line)
  BY <1>3 DEF HasMain
<1>5. /\ HasMain(AddNote(s, s.open.marker, s.open.omit, line), s.main, line)
      /\ HasMain(AddNote(Read(behind), line.mark, line.omit, line), s.main, line)
  BY <1>3, NoteMain
<1>6. HasMain(OpenSection(s, line), s.main, line) /\ HasMain(Body(behind, line), s.main, line)
  BY <1>1, SectionMain, BodyMain
<1> QED BY <1>2, <1>4, <1>5, <1>6

(* The main text of a view is a list of lines.                             *)
LEMMA MainIsList ==
  ASSUME NEW lines, IsList(lines)
  PROVE  IsList(MainText(source_view(lines)))
<1> DEFINE masked == mask_html_comments(lines)
           n == Len(lines)
           L == ToSet(masked)
<1>1. n \in Nat /\ IsList(masked) /\ Len(masked) = n
  BY ListFacts, MaskedIsList
<1>2. \A i \in 1 .. n : masked[i] \in L
  <2> HIDE DEF masked, n
  <2> QED BY <1>1, ListFacts DEF ToSet
<1>3. PICK f : IsReading(f, n, masked) /\ source_view(lines) = f[n]
  BY ViewReads
<1> HIDE DEF masked, n, L
<1> DEFINE Good == {i \in 0 .. n : "main" \in DOMAIN f[i] /\ f[i].main \in Seq(L)}
<1>4. 0 \in Good
  <2>1. 0 \in 0 .. n
    BY <1>1
  <2>2. f[0] = ViewStart
    BY <1>3, <2>1 DEF IsReading
  <2>3. "main" \in DOMAIN ViewStart /\ ViewStart.main = << >>
    BY DEF ViewStart
  <2> QED BY <2>1, <2>2, <2>3, EmptySeq
<1>5. ASSUME NEW i \in 0 + 1 .. n, i - 1 \in Good PROVE i \in Good
  <2>1. i \in 0 .. n /\ i # 0 /\ i \in 1 .. n
    BY <1>1
  <2>2. f[i] = ReadLine(f[i - 1], masked[i])
    BY <1>3, <2>1 DEF IsReading
  <2>3. "main" \in DOMAIN f[i - 1] /\ f[i - 1].main \in Seq(L)
    BY <1>5
  <2>4. HasMain(f[i], f[i - 1].main, masked[i])
    BY <2>2, <2>3, LineMain
  <2>5. Append(f[i - 1].main, masked[i]) \in Seq(L)
    BY <1>2, <2>1, <2>3, AppendProperties
  <2> QED BY <2>1, <2>3, <2>4, <2>5 DEF HasMain
<1> HIDE DEF Good
<1>6. \A i \in 0 .. n : i \in Good
  BY <1>1, <1>4, <1>5, ByStep
<1>7. source_view(lines).main \in Seq(L)
  BY <1>1, <1>3, <1>6 DEF Good
<1> DEFINE main == source_view(lines).main
           text == MainText(source_view(lines))
<1>8. Len(main) \in Nat /\ DOMAIN main = 1 .. Len(main)
  BY <1>7, LenProperties
<1>9. text = [i \in 1 .. Len(main) |-> main[i].block]
  BY <1>8 DEF MainText
<1> HIDE DEF text, main
<1>10. text \in [1 .. Len(main) -> ToSet(text)]
  BY <1>9 DEF ToSet
<1>11. text \in Seq(ToSet(text))
  BY <1>8, <1>10, ListOfFunction
<1> QED BY <1>11 DEF IsList, text

-----------------------------------------------------------------------------
LEMMA MinIsIn ==
  ASSUME NEW T, T \subseteq Nat, T # {}
  PROVE  Min(T) \in T
<1>1. \E x \in T : \A y \in T : x <= y
  BY LeastNatural
<1> QED BY <1>1, Zenon DEF Min

(* Where the search for the k-th text arrives, from where the one before   *)
(* it was found.                                                           *)
Later(wanted, texts, k, at) == {i \in at + 1 .. Len(texts) : texts[i] = wanted[k]}
NextPlace(wanted, texts, k, at) ==
  IF Later(wanted, texts, k, at) = {} THEN Len(texts) + 1 ELSE Min(Later(wanted, texts, k, at))

LEMMA NextPlaceFacts ==
  ASSUME NEW wanted, NEW texts, Len(texts) \in Nat, NEW k, NEW at \in 0 .. Len(texts) + 1
  PROVE  LET p == NextPlace(wanted, texts, k, at)
         IN /\ p \in 0 .. Len(texts) + 1
            /\ p # Len(texts) + 1 => at < p /\ p \in 1 .. Len(texts) /\ texts[p] = wanted[k]
<1> DEFINE later == Later(wanted, texts, k, at)
           p == NextPlace(wanted, texts, k, at)
<1>1. later \subseteq Nat
  BY DEF Later
<1>2. CASE later = {}
  <2>1. p = Len(texts) + 1
    BY <1>2 DEF NextPlace
  <2> QED BY <2>1
<1>3. CASE later # {}
  <2>1. p = Min(later)
    BY <1>3 DEF NextPlace
  <2>2. p \in later
    <3> HIDE DEF later, p
    <3> QED BY <1>1, <1>3, <2>1, MinIsIn
  <2>3. p \in at + 1 .. Len(texts) /\ texts[p] = wanted[k]
    BY <2>2 DEF Later
  <2>4. p \in 0 .. Len(texts) + 1 /\ at < p /\ p \in 1 .. Len(texts)
    <3> HIDE DEF p
    <3> QED BY <2>3
  <2> QED BY <2>3, <2>4
<1> QED BY <1>2, <1>3

(* The places at which texts are found in order.                           *)
InOrderAt(at, wanted, texts) ==
  \A i, j \in DOMAIN wanted : texts[at[i]] = wanted[i] /\ (i < j => at[i] < at[j])

(* Texts that are found one behind the other stand in this order, each at  *)
(* a place of its own.                                                     *)
LEMMA FoundAreInOrder ==
  ASSUME NEW wanted, IsList(wanted), NEW texts, IsList(texts), FoundInOrder(wanted, texts)
  PROVE  \E at \in [DOMAIN wanted -> DOMAIN texts] : InOrderAt(at, wanted, texts)
<1> DEFINE missing == Len(texts) + 1
           n == Len(wanted)
           Rec(f) == f = [k \in 0 .. n |->
                            IF k = 0 THEN 0
                            ELSE LET later == {i \in f[k - 1] + 1 .. Len(texts) : texts[i] = wanted[k]}
                                 IN IF later = {} THEN missing ELSE Min(later)]
           place == CHOOSE f : Rec(f)
           V == 0 .. missing
           next == [p \in (0 .. n) \X V |-> NextPlace(wanted, texts, p[1], p[2])]
           body(f, k) == IF k = 0 THEN 0 ELSE NextPlace(wanted, texts, k, f[k - 1])
<1>1. /\ Len(texts) \in Nat /\ DOMAIN texts = 1 .. Len(texts)
      /\ n \in Nat /\ DOMAIN wanted = 1 .. n
  BY ListFacts
<1>2. \A k \in 1 .. n : place[k] # missing
  BY Zenon DEF FoundInOrder
<1>3. next \in [(0 .. n) \X V -> V]
  <2>1. ASSUME NEW p \in (0 .. n) \X V PROVE NextPlace(wanted, texts, p[1], p[2]) \in V
    <3>1. p[2] \in 0 .. Len(texts) + 1
      OBVIOUS
    <3> QED BY <1>1, <3>1, NextPlaceFacts
  <2> QED BY <2>1
<1>4. \A k \in 0 .. n, x \in V : next[<<k, x>>] = NextPlace(wanted, texts, k, x)
  OBVIOUS
<1>5. 0 \in V /\ 0 \in Nat /\ 0 <= n /\ missing \in Nat
  BY <1>1
<1> HIDE DEF next
<1>6. PICK f : IsStepwise(f, 0, n, V, 0, next)
  <2> HIDE DEF n, V, missing
  <2> QED BY <1>1, <1>3, <1>5, StepwiseExists
<1>7. \A g : Rec(g) <=> g = [k \in 0 .. n |-> body(g, k)]
  BY DEF NextPlace, Later
<1> HIDE DEF Rec
<1>8. Rec(f)
  <2>1. f = [k \in 0 .. n |-> f[k]]
    BY <1>6 DEF IsStepwise
  <2>2. ASSUME NEW k \in 0 .. n PROVE f[k] = body(f, k)
    <3>1. k # 0 => k - 1 \in 0 .. n
      BY <1>1
    <3>2. k # 0 => f[k - 1] \in V
      BY <1>6, <3>1 DEF IsStepwise
    <3>3. k # 0 => next[<<k, f[k - 1]>>] = NextPlace(wanted, texts, k, f[k - 1])
      BY <1>4, <3>2
    <3>4. f[k] = IF k = 0 THEN 0 ELSE next[<<k, f[k - 1]>>]
      BY <1>6 DEF IsStepwise
    <3> QED BY <3>3, <3>4
  <2> HIDE DEF body
  <2>3. f = [k \in 0 .. n |-> body(f, k)]
    BY <2>1, <2>2
  <2> QED BY <1>7, <2>3
<1>9. Rec(place)
  BY <1>8, Zenon
<1> HIDE DEF place
<1>10. /\ place[0] = 0
       /\ \A k \in 1 .. n : place[k] = NextPlace(wanted, texts, k, place[k - 1])
  <2>1. place = [k \in 0 .. n |-> body(place, k)]
    BY <1>7, <1>9
  <2>2. 0 \in 0 .. n /\ \A k \in 1 .. n : k \in 0 .. n /\ k # 0
    BY <1>1
  <2>3. \A k \in 0 .. n : place[k] = body(place, k)
    <3> HIDE DEF body
    <3> QED BY <2>1
  <2> QED BY <2>2, <2>3
<1> DEFINE Good == {k \in 0 .. n : place[k] \in V}
<1>11. 0 \in Good
  BY <1>5, <1>10
<1>12. ASSUME NEW k \in 0 + 1 .. n, k - 1 \in Good PROVE k \in Good
  <2>1. k \in 1 .. n /\ k \in 0 .. n /\ place[k - 1] \in 0 .. Len(texts) + 1
    BY <1>1, <1>12
  <2>2. place[k] \in V
    BY <1>1, <1>10, <2>1, NextPlaceFacts
  <2> QED BY <2>1, <2>2
<1>13. \A k \in 0 .. n : k \in Good
  <2> HIDE DEF Good
  <2> QED BY <1>1, <1>11, <1>12, ByStep
<1>14. ASSUME NEW k \in 1 .. n
       PROVE  place[k - 1] < place[k] /\ place[k] \in 1 .. Len(texts) /\ texts[place[k]] = wanted[k]
  <2>1. place[k - 1] \in 0 .. Len(texts) + 1
    <3>1. k - 1 \in 0 .. n
      BY <1>1
    <3> QED BY <1>13, <3>1
  <2> QED BY <1>1, <1>2, <1>10, <2>1, NextPlaceFacts
<1> DEFINE at == [k \in DOMAIN wanted |-> place[k]]
<1>15. at \in [DOMAIN wanted -> DOMAIN texts]
  BY <1>1, <1>14
<1>16. ASSUME NEW i \in DOMAIN wanted, NEW j \in DOMAIN wanted, i < j
       PROVE  at[i] < at[j]
  <2> DEFINE Above == {k \in i + 1 .. n : place[i] < place[k]}
  <2>1. i \in 1 .. n /\ j \in 1 .. n /\ i + 1 \in Nat /\ i + 1 \in 1 .. n /\ (i + 1) - 1 = i
    BY <1>1, <1>16
  <2>2. i + 1 <= n => i + 1 \in Above
    <3>1. place[(i + 1) - 1] < place[i + 1]
      BY <2>1, <1>14
    <3> QED BY <2>1, <3>1
  <2>3. ASSUME NEW k \in (i + 1) + 1 .. n, k - 1 \in Above PROVE k \in Above
    <3>1. k \in 1 .. n /\ k \in i + 1 .. n /\ k - 1 \in 1 .. n
      BY <1>1, <2>1
    <3>2. place[i] < place[k - 1] /\ place[k - 1] < place[k]
      BY <1>14, <2>3, <3>1
    <3>3. place[i] \in Nat /\ place[k - 1] \in Nat /\ place[k] \in Nat
      <4>1. \A m \in 1 .. n : place[m] \in Nat
        BY <1>1, <1>14
      <4> QED BY <2>1, <3>1, <4>1
    <3> QED BY <3>1, <3>2, <3>3
  <2>4. \A k \in i + 1 .. n : k \in Above
    <3> HIDE DEF Above
    <3> QED BY <1>1, <2>1, <2>2, <2>3, ByStep
  <2>5. j \in i + 1 .. n
    BY <1>1, <1>16, <2>1
  <2> QED BY <2>4, <2>5
<1>17. \A i \in DOMAIN wanted : texts[at[i]] = wanted[i]
  BY <1>1, <1>14
<1> HIDE DEF at
<1>18. InOrderAt(at, wanted, texts)
  BY <1>16, <1>17 DEF InOrderAt
<1> QED BY <1>15, <1>18

-----------------------------------------------------------------------------
(* Captions behind their tables, and as many: every table has its caption. *)
LEMMA EveryItemHasItsCaption ==
  ASSUME NEW items, IsList(items), CaptionsPlaced(items), NEW kind \in {"table", "figure"},
         NEW i \in DOMAIN items
  PROVE  items[i] = <<kind>> <=> i < Len(items) /\ items[i + 1] = <<"caption", kind>>
<1> DEFINE C == Captions(items, kind)
           P == Placed(items, kind)
           before == [c \in C |-> c - 1]
<1>1. Len(items) \in Nat /\ DOMAIN items = 1 .. Len(items)
  BY ListFacts
<1>2. /\ \A c \in C : c > 1 /\ items[c - 1] = <<kind>>
      /\ Cardinality(C) = Cardinality(P)
  BY Zenon DEF CaptionsPlaced
<1>3. /\ C \subseteq 1 .. Len(items) /\ P \subseteq 1 .. Len(items)
      /\ \A c \in 1 .. Len(items) : c \in C <=> items[c] = <<"caption", kind>>
      /\ \A c \in 1 .. Len(items) : c \in P <=> items[c] = <<kind>>
  BY <1>1 DEF Captions, Placed
<1> HIDE DEF C, P
<1>4. IsFiniteSet(P)
  <2>1. IsFiniteSet(1 .. Len(items))
    BY <1>1, FS_Interval
  <2> QED BY <1>3, <2>1, FS_Subset
<1>5. before \in Injection(C, P)
  <2>1. \A c \in C : c - 1 \in P
    BY <1>1, <1>2, <1>3
  <2>2. before \in [C -> P]
    BY <2>1
  <2>3. \A c, d \in C : before[c] = before[d] => c = d
    BY <1>3
  <2> HIDE DEF before
  <2> QED BY <2>2, <2>3 DEF Injection, IsInjective
<1>6. before \in Surjection(C, P)
  <2> HIDE DEF before
  <2> QED BY <1>2, <1>4, <1>5, FS_Injection
<1>7. ASSUME items[i] = <<kind>> PROVE i < Len(items) /\ items[i + 1] = <<"caption", kind>>
  <2>1. i \in P
    BY <1>1, <1>3, <1>7
  <2>2. PICK c \in C : before[c] = i
    <3> HIDE DEF before
    <3> QED BY <1>6, <2>1 DEF Surjection
  <2>3. c = i + 1 /\ c \in 1 .. Len(items)
    BY <1>1, <1>3, <2>2
  <2> QED BY <1>1, <1>3, <2>2, <2>3
<1>8. ASSUME i < Len(items), items[i + 1] = <<"caption", kind>> PROVE items[i] = <<kind>>
  <2>1. i + 1 \in 1 .. Len(items) /\ (i + 1) - 1 = i
    BY <1>1, <1>8
  <2>2. i + 1 \in C
    BY <1>3, <1>8, <2>1
  <2>3. items[(i + 1) - 1] = <<kind>>
    BY <1>2, <2>2
  <2> QED BY <2>1, <2>3
<1> QED BY <1>7, <1>8

-----------------------------------------------------------------------------
NumberOf(blocks, b) == Cardinality({i \in DOMAIN blocks : blocks[i] = b})

(* Equal inventories: every block is there equally often.                  *)
LEMMA SyncedBlocks ==
  ASSUME NEW view, NEW blocks, InSync(view, blocks), NEW b, Compared(b)
  PROVE  NumberOf(SyncText(view), b) = NumberOf(blocks, b)
<1> DEFINE places(s) == {i \in DOMAIN s : s[i] = b}
           kept(s) == {i \in DOMAIN s : Compared(s[i])}
<1>1. ASSUME NEW s
      PROVE  /\ b \in DOMAIN sync_inventory(s) <=> places(s) # {}
             /\ places(s) # {} => sync_inventory(s)[b] = NumberOf(s, b)
  <2>1. sync_inventory(s) =
          [c \in {s[i] : i \in kept(s)} |-> Cardinality({i \in kept(s) : s[i] = c})]
    BY DEF sync_inventory
  <2>2. places(s) = {i \in kept(s) : s[i] = b}
    OBVIOUS
  <2>3. b \in {s[i] : i \in kept(s)} <=> places(s) # {}
    OBVIOUS
  <2> HIDE DEF places, kept
  <2>4. b \in DOMAIN sync_inventory(s) <=> places(s) # {}
    BY <2>1, <2>3
  <2>5. places(s) # {} => sync_inventory(s)[b] = Cardinality(places(s))
    BY <2>1, <2>2, <2>3
  <2> QED BY <2>4, <2>5 DEF NumberOf, places
<1>2. sync_inventory(SyncText(view)) = sync_inventory(blocks)
  BY DEF InSync
<1> HIDE DEF kept
<1>3. CASE places(blocks) # {}
  <2> HIDE DEF places
  <2> QED BY <1>1, <1>2, <1>3
<1>4. CASE places(blocks) = {}
  <2>1. places(SyncText(view)) = {}
    <3> HIDE DEF places
    <3> QED BY <1>1, <1>2, <1>4
  <2> QED BY <1>4, <2>1 DEF NumberOf
<1> QED BY <1>3, <1>4

(* What the template has in a part that may not change is still there.     *)
LEMMA PartsAreKept ==
  ASSUME NEW template, NEW file, audit_ooxml(template, file),
         NEW name \in DOMAIN template.parts \ Contract.docx_mutable_entries,
         NEW id \in DOMAIN template.parts[name]
  PROVE  name \in DOMAIN file.parts /\ file.parts[name][id] = template.parts[name][id]
<1>1. ~Changed(template.parts, file.parts, name)
  BY DEF audit_ooxml
<1>2. /\ name \in DOMAIN file.parts
      /\ IF name \in {"types", "relations"} THEN Preserves(template.parts[name], file.parts[name])
         ELSE template.parts[name] = file.parts[name]
  BY <1>1 DEF Changed
<1> QED BY <1>2 DEF Preserves

(* The checks together are what is promised of a delivery.                 *)
LEMMA ChecksMeanDelivered ==
  ASSUME NEW text, NEW word, NEW print, NEW rec, IsList(text), IsList(word.items),
         InSync(source_view(text), word.text), InSync(source_view(text), print),
         FoundInOrder(Contract.required_order, MainText(source_view(text))),
         audit_ooxml(Template, word), CaptionsPlaced(word.items),
         rec.reviewed, rec.source = text, rec.docx = word, rec.pdf = print
  PROVE  Delivered(text, word, print, rec)
<1> DEFINE shown == SyncText(source_view(text))
           main == MainText(source_view(text))
           wanted == Contract.required_order
<1>1. \A b : Compared(b) => /\ NumberOf(shown, b) = NumberOf(word.text, b)
                            /\ NumberOf(shown, b) = NumberOf(print, b)
  BY SyncedBlocks
<1>2. word.sections = Template.sections
  BY DEF audit_ooxml
<1>3. \A name \in DOMAIN Template.parts \ Contract.docx_mutable_entries :
        \A id \in DOMAIN Template.parts[name] :
          name \in DOMAIN word.parts /\ word.parts[name][id] = Template.parts[name][id]
  BY PartsAreKept
<1>4. \A i \in DOMAIN word.items : \A kind \in {"table", "figure"} :
        word.items[i] = <<kind>> <=>
          i < Len(word.items) /\ word.items[i + 1] = <<"caption", kind>>
  <2> DEFINE items == word.items
  <2>1. IsList(items) /\ CaptionsPlaced(items)
    OBVIOUS
  <2> HIDE DEF items
  <2>2. \A i \in DOMAIN items : \A kind \in {"table", "figure"} :
          items[i] = <<kind>> <=> i < Len(items) /\ items[i + 1] = <<"caption", kind>>
    BY <2>1, EveryItemHasItsCaption
  <2> QED BY <2>2 DEF items
<1>5. \E at \in [DOMAIN wanted -> DOMAIN main] : InOrderAt(at, wanted, main)
  <2>1. IsList(main) /\ IsList(wanted)
    BY MainIsList, ListsAreLists
  <2> HIDE DEF main, wanted
  <2>2. FoundInOrder(wanted, main)
    BY DEF main, wanted
  <2> QED BY <2>1, <2>2, FoundAreInOrder
<1>6. rec.reviewed /\ <<rec.source, rec.docx, rec.pdf>> = <<text, word, print>>
  OBVIOUS
<1> QED BY <1>1, <1>2, <1>3, <1>4, <1>5, <1>6 DEF Delivered, NumberOf, InOrderAt

-----------------------------------------------------------------------------
(***************************************************************************)
(* While nothing is saved, the checks made so far are checks of the files  *)
(* as they are.                                                            *)
(***************************************************************************)
IsAudit(a) == a = [step |-> a.step, given |-> a.given, view |-> a.view, checks |-> a.checks]

(* A check was made and, if it passed, p holds.                            *)
Means(checks, id, p) == id \in DOMAIN checks /\ (checks[id] => p)

(* What an audit of all deliverables that came to its present step has     *)
(* found out of four files.                                                *)
FoundOut(a, text, word, print, rec) ==
  /\ a.view = source_view(text)
  /\ Means(a.checks, "required_order",
           FoundInOrder(Contract.required_order, MainText(source_view(text))))
  /\ a.step # "sync" =>
       /\ word # None
       /\ Means(a.checks, "markdown_docx_sync", InSync(source_view(text), word.text))
       /\ Means(a.checks, "markdown_pdf_sync", InSync(source_view(text), print))
  /\ a.step \notin {"sync", "ooxml"} =>
       Means(a.checks, "ooxml_invariants", audit_ooxml(Template, word))
  /\ a.step \notin {"sync", "ooxml", "layout"} =>
       Means(a.checks, "docx_table_figure_placement", CaptionsPlaced(word.items))
  /\ a.step = "finish" =>
       /\ Means(a.checks, "pdf_visual_review_declaration", rec.reviewed)
       /\ Means(a.checks, "export_record_hashes",
                rec.source = text /\ rec.docx = word /\ rec.pdf = print)

Steps == {"sync", "ooxml", "layout", "export", "finish"}

AuditInv ==
  /\ source \in Drafts \cup Sources /\ (docx # None => docx \in Docxs)
  /\ audit # Idle => IsAudit(audit) /\ audit.step \in Steps
  /\ (audit # Idle /\ quiet /\ audit.given = Deliverables) =>
       FoundOut(audit, source, docx, pdf, record)
  /\ ReadyMeansDelivered

Gone(a, step, more) == [a EXCEPT !.step = step, !.checks = AddChecks(@, more)]

(* A step adds checks to those already made.                               *)
LEMMA GoneFacts ==
  ASSUME NEW a, IsAudit(a), NEW step, NEW more
  PROVE  LET b == Gone(a, step, more)
         IN /\ IsAudit(b) /\ b.step = step /\ b.given = a.given /\ b.view = a.view
            /\ \A id \in DOMAIN a.checks : id \notin DOMAIN more =>
                 id \in DOMAIN b.checks /\ b.checks[id] = a.checks[id]
            /\ \A id \in DOMAIN more : id \in DOMAIN b.checks /\ b.checks[id] = more[id]
<1> DEFINE given == a.given
           view == a.view
           checks == a.checks
           new == AddChecks(checks, more)
           b == Gone(a, step, more)
<1>1. b = [step |-> step, given |-> given, view |-> view, checks |-> new]
  <2>1. a = [step |-> a.step, given |-> given, view |-> view, checks |-> checks]
    BY DEF IsAudit
  <2> HIDE DEF given, view, checks
  <2>2. PICK s : a = [step |-> s, given |-> given, view |-> view, checks |-> checks]
    BY <2>1
  <2>3. b = [x \in DOMAIN a |-> b[x]] /\ DOMAIN a = {"step", "given", "view", "checks"}
    BY <2>2 DEF Gone
  <2>4. a.checks = checks
    BY <2>2
  <2>5. b.step = step /\ b.given = given /\ b.view = view /\ b.checks = AddChecks(checks, more)
    BY <2>2, <2>4 DEF Gone
  <2> HIDE DEF b
  <2>6. b = [step |-> b.step, given |-> b.given, view |-> b.view, checks |-> b.checks]
    BY <2>3
  <2> QED BY <2>5, <2>6
<1>2. /\ \A id \in DOMAIN checks : id \notin DOMAIN more =>
           id \in DOMAIN new /\ new[id] = checks[id]
      /\ \A id \in DOMAIN more : id \in DOMAIN new /\ new[id] = more[id]
  <2> HIDE DEF checks
  <2> QED BY DEF AddChecks
<1> HIDE DEF given, view, checks, new, b
<1>3. b.step = step /\ b.given = given /\ b.view = view /\ b.checks = new
  BY <1>1
<1>4. IsAudit(b)
  BY <1>1, <1>3 DEF IsAudit
<1> QED BY <1>2, <1>3, <1>4 DEF given, view, checks, b

(* The order of the required texts is among the checks of the manuscript.  *)
LEMMA OrderIsChecked ==
  ASSUME NEW view, NEW more, "required_order" \notin DOMAIN more
  PROVE  Means(AddChecks(ManuscriptChecks(view), more), "required_order",
               FoundInOrder(Contract.required_order, MainText(view)))
<1> DEFINE outline == academic_outline(view)
           headings == SelectSeq(outline, LAMBDA entry : entry.kind = "heading")
           leads == [i \in DOMAIN Leads(outline) |-> Leads(outline)[i].text]
           terms == \A term \in Contract.terms :
                      \E p \in prose_blocks(view) : Provenance(term, p)
           order == FoundInOrder(Contract.required_order, MainText(view))
           leading == FoundInOrder(Contract.first_sentence_order, leads)
           bridges == Len(headings) < 2 \/ Contract.section_bridges # {}
           bridged == \A rule \in Contract.section_bridges : Bridged(outline, rule)
           claim == Says(MainText(view), Contract.central_claim)
           asked == Says(MainText(view), Contract.explanandum)
           first == AddChecks(audit_citations(view), audit_notes(view, Contract.note_decisions))
           last == [central_claim |-> claim, explanandum |-> asked, term_provenance |-> terms,
                    required_order |-> order, first_sentence_order |-> leading,
                    section_bridge_contract |-> bridges, section_bridge |-> bridged]
           checks == ManuscriptChecks(view)
<1>1. checks = AddChecks(first, last)
  BY Zenon DEF ManuscriptChecks
<1> HIDE DEF first, outline, headings, leads, terms, order, leading, bridges, bridged, claim, asked, checks
<1>2. "required_order" \in DOMAIN last /\ (last["required_order"] => order)
  OBVIOUS
<1> HIDE DEF last
<1>3. "required_order" \in DOMAIN checks /\ checks["required_order"] = last["required_order"]
  BY <1>1, <1>2 DEF AddChecks
<1>4. /\ "required_order" \in DOMAIN AddChecks(checks, more)
      /\ AddChecks(checks, more)["required_order"] = checks["required_order"]
  BY <1>3 DEF AddChecks
<1>5. Means(AddChecks(checks, more), "required_order", order)
  BY <1>2, <1>3, <1>4 DEF Means
<1> QED BY <1>5 DEF checks, order

THEOREM AuditInvInit == AuditInit => AuditInv
BY DEF AuditInit, AuditInv, ReadyMeansDelivered

(* Whatever is saved, and whatever the audit had found out, is not told of *)
(* as found in the files as they are.                                      *)
LEMMA SavingKeepsAuditInv ==
  ASSUME AuditInv, Revise \/ ExportDocx \/ ExportPdf \/ WriteRecord
  PROVE  AuditInv'
<1>1. Saves
  BY DEF Revise, ExportDocx, ExportPdf, WriteRecord
<1>2. audit' = audit /\ report' = report /\ quiet' = FALSE
  BY <1>1 DEF Saves
<1>3. source' \in Drafts \cup Sources /\ (docx' # None => docx' \in Docxs)
  BY DEF Revise, ExportDocx, ExportPdf, WriteRecord, AuditInv
<1>4. ReadyMeansDelivered'
  BY <1>2 DEF AuditInv, ReadyMeansDelivered
<1>5. audit' # Idle => IsAudit(audit') /\ audit'.step \in Steps
  BY <1>2 DEF AuditInv
<1> QED BY <1>2, <1>3, <1>4, <1>5 DEF AuditInv

LEMMA StartingKeepsAuditInv ==
  ASSUME AuditInv, NEW given \in Invocations, StartAudit(given)
  PROVE  AuditInv'
<1> DEFINE more == [delivery_artifacts |-> given \in {{}, Deliverables}]
           view == source_view(source)
           checks == AddChecks(ManuscriptChecks(view), more)
<1>1. /\ audit' = [step |-> "sync", given |-> given, view |-> view, checks |-> checks]
      /\ files' = files /\ report' = report
  BY DEF StartAudit
<1>2. source' = source /\ docx' = docx
  BY <1>1 DEF files
<1>3. Means(checks, "required_order", FoundInOrder(Contract.required_order, MainText(view)))
  <2>1. "required_order" \notin DOMAIN more
    OBVIOUS
  <2> HIDE DEF more
  <2> QED BY <2>1, OrderIsChecked
<1> HIDE DEF view, checks
<1>4. IsAudit(audit') /\ audit'.step = "sync" /\ audit'.view = view /\ audit'.checks = checks
  BY <1>1 DEF IsAudit
<1>5. FoundOut(audit', source', docx', pdf', record')
  <2>1. audit'.view = source_view(source')
    BY <1>2, <1>4 DEF view
  <2>2. Means(audit'.checks, "required_order",
              FoundInOrder(Contract.required_order, MainText(source_view(source'))))
    BY <1>2, <1>3, <1>4 DEF view
  <2> QED BY <1>4, <2>1, <2>2 DEF FoundOut
<1>6. ReadyMeansDelivered'
  BY <1>1 DEF AuditInv, ReadyMeansDelivered
<1> QED BY <1>2, <1>4, <1>5, <1>6 DEF AuditInv, Steps

(* An audit that ends without a report, or does nothing, keeps the rest.   *)
LEMMA EndingKeepsAuditInv ==
  ASSUME AuditInv, audit' = Idle, files' = files, ReadyMeansDelivered'
  PROVE  AuditInv'
<1>1. source' = source /\ docx' = docx
  BY DEF files
<1> QED BY <1>1 DEF AuditInv

LEMMA GoingKeepsAuditInv ==
  ASSUME AuditInv, files' = files, report' = report, quiet' = quiet,
         IsAudit(audit'), audit'.step \in Steps,
         (quiet /\ audit'.given = Deliverables) => FoundOut(audit', source, docx, pdf, record)
  PROVE  AuditInv'
<1>1. source' = source /\ docx' = docx /\ pdf' = pdf /\ record' = record
  BY DEF files
<1>2. ReadyMeansDelivered'
  BY DEF AuditInv, ReadyMeansDelivered
<1> QED BY <1>1, <1>2 DEF AuditInv

(* What is known of a running audit.                                       *)
LEMMA Running ==
  ASSUME AuditInv, audit.step \in Steps
  PROVE  /\ IsAudit(audit)
         /\ (quiet /\ audit.given = Deliverables) => FoundOut(audit, source, docx, pdf, record)
BY DEF AuditInv, Steps, Idle

(* Blocks: a DOCX and a PDF that were named are read and compared.         *)
LEMMA SyncKeepsAuditInv ==
  ASSUME AuditInv, audit_sync
  PROVE  AuditInv'
<1> DEFINE docxSync == "docx" \in audit.given => InSync(audit.view, docx.text)
           pdfSync == "pdf" \in audit.given => InSync(audit.view, pdf)
           more == [markdown_docx_sync |-> docxSync, markdown_pdf_sync |-> pdfSync]
           b == Gone(audit, "ooxml", more)
<1>1. /\ audit.step = "sync" /\ UNCHANGED <<files, report, quiet>>
      /\ audit' = IF \A path \in {"docx", "pdf"} \cap audit.given : Exists(path)
                  THEN b ELSE Idle
  BY Zenon DEF audit_sync, Step, Gone
<1> HIDE DEF b
<1>2. CASE audit' = Idle
  <2>1. ReadyMeansDelivered'
    BY <1>1 DEF AuditInv, ReadyMeansDelivered
  <2> QED BY <1>1, <1>2, <2>1, EndingKeepsAuditInv
<1>3. CASE audit' # Idle
  <2>1. audit' = b /\ \A path \in {"docx", "pdf"} \cap audit.given : Exists(path)
    BY <1>1, <1>3
  <2>2. IsAudit(audit) /\ (quiet /\ audit.given = Deliverables => FoundOut(audit, source, docx, pdf, record))
    BY <1>1, Running DEF Steps
  <2> HIDE DEF docxSync, pdfSync
  <2>3. /\ "markdown_docx_sync" \in DOMAIN more /\ (more["markdown_docx_sync"] => docxSync)
        /\ "markdown_pdf_sync" \in DOMAIN more /\ (more["markdown_pdf_sync"] => pdfSync)
        /\ "required_order" \notin DOMAIN more
    OBVIOUS
  <2> HIDE DEF more
  <2>4. /\ IsAudit(b) /\ b.step = "ooxml" /\ b.given = audit.given /\ b.view = audit.view
        /\ \A id \in DOMAIN audit.checks : id \notin DOMAIN more =>
             id \in DOMAIN b.checks /\ b.checks[id] = audit.checks[id]
        /\ \A id \in DOMAIN more : id \in DOMAIN b.checks /\ b.checks[id] = more[id]
    BY <2>2, GoneFacts DEF b
  <2>5. ASSUME quiet, audit.given = Deliverables PROVE FoundOut(b, source, docx, pdf, record)
    <3>1. FoundOut(audit, source, docx, pdf, record)
      BY <2>2, <2>5
    <3>2. "docx" \in audit.given /\ "pdf" \in audit.given
      BY <2>5 DEF Deliverables
    <3>3. docx # None
      BY <2>1, <3>2 DEF Exists
    <3>4. audit.view = source_view(source)
      BY <3>1 DEF FoundOut
    <3>5. /\ Means(b.checks, "markdown_docx_sync", InSync(source_view(source), docx.text))
          /\ Means(b.checks, "markdown_pdf_sync", InSync(source_view(source), pdf))
      BY <2>3, <2>4, <3>2, <3>4 DEF Means, docxSync, pdfSync
    <3>6. Means(b.checks, "required_order",
                FoundInOrder(Contract.required_order, MainText(source_view(source))))
      BY <2>3, <2>4, <3>1 DEF FoundOut, Means
    <3> QED BY <2>4, <3>3, <3>4, <3>5, <3>6 DEF FoundOut
  <2> QED BY <1>1, <2>1, <2>4, <2>5, GoingKeepsAuditInv DEF Steps
<1> QED BY <1>2, <1>3

(* The template's layout: the DOCX is compared with the template.          *)
LEMMA OoxmlKeepsAuditInv ==
  ASSUME AuditInv, Ooxml
  PROVE  AuditInv'
<1> DEFINE kept == {"docx", "template"} \subseteq audit.given => audit_ooxml(Template, docx)
           more == [ooxml_invariants |-> kept]
           b == Gone(audit, "layout", more)
           Earlier == {"required_order", "markdown_docx_sync", "markdown_pdf_sync"}
<1>1. /\ audit.step = "ooxml" /\ UNCHANGED <<files, report, quiet>>
      /\ audit' = IF \A path \in {"docx"} \cap audit.given : Exists(path)
                  THEN b ELSE Idle
  BY Zenon DEF Ooxml, Step, Gone
<1> HIDE DEF b
<1>2. CASE audit' = Idle
  <2>1. ReadyMeansDelivered'
    BY <1>1 DEF AuditInv, ReadyMeansDelivered
  <2> QED BY <1>1, <1>2, <2>1, EndingKeepsAuditInv
<1>3. CASE audit' # Idle
  <2>1. audit' = b
    BY <1>1, <1>3
  <2>2. IsAudit(audit) /\ (quiet /\ audit.given = Deliverables => FoundOut(audit, source, docx, pdf, record))
    BY <1>1, Running DEF Steps
  <2> DEFINE kept1 == audit_ooxml(Template, docx)
  <2>3. audit.given = Deliverables => (kept => kept1)
    BY DEF Deliverables
  <2> HIDE DEF kept, kept1
  <2>4. audit.given = Deliverables =>
          /\ "ooxml_invariants" \in DOMAIN more /\ (more["ooxml_invariants"] => kept1)
          /\ \A id \in Earlier : id \notin DOMAIN more
    BY <2>3
  <2> HIDE DEF more
  <2>5. /\ IsAudit(b) /\ b.step = "layout" /\ b.given = audit.given /\ b.view = audit.view
        /\ \A id \in DOMAIN audit.checks : id \notin DOMAIN more =>
             id \in DOMAIN b.checks /\ b.checks[id] = audit.checks[id]
        /\ \A id \in DOMAIN more : id \in DOMAIN b.checks /\ b.checks[id] = more[id]
    BY <2>2, GoneFacts DEF b
  <2>6. ASSUME quiet, audit.given = Deliverables PROVE FoundOut(b, source, docx, pdf, record)
    <3>1. FoundOut(audit, source, docx, pdf, record)
      BY <2>2, <2>6
    <3>2. \A id \in Earlier : id \in DOMAIN audit.checks
      BY <1>1, <3>1 DEF FoundOut, Means
    <3>3. \A id \in Earlier : id \in DOMAIN b.checks /\ b.checks[id] = audit.checks[id]
      BY <2>4, <2>5, <2>6, <3>2
    <3>4. Means(b.checks, "ooxml_invariants", audit_ooxml(Template, docx))
      BY <2>4, <2>5, <2>6 DEF Means, kept1
    <3> QED BY <1>1, <2>5, <3>1, <3>3, <3>4 DEF FoundOut, Means
  <2> QED BY <1>1, <2>1, <2>5, <2>6, GoingKeepsAuditInv DEF Steps
<1> QED BY <1>2, <1>3

(* The layout of the DOCX itself.                                          *)
LEMMA LayoutKeepsAuditInv ==
  ASSUME AuditInv, audit_docx_layout
  PROVE  AuditInv'
<1> DEFINE more == IF "docx" \in audit.given THEN LayoutChecks(docx) ELSE << >>
           b == Gone(audit, "export", more)
           Earlier == {"required_order", "markdown_docx_sync", "markdown_pdf_sync", "ooxml_invariants"}
<1>1. /\ audit.step = "layout" /\ UNCHANGED <<files, report, quiet>>
      /\ audit' = IF \A path \in {"docx"} \cap audit.given : Exists(path)
                  THEN b ELSE Idle
  BY Zenon DEF audit_docx_layout, Step, Gone
<1> HIDE DEF b
<1>2. CASE audit' = Idle
  <2>1. ReadyMeansDelivered'
    BY <1>1 DEF AuditInv, ReadyMeansDelivered
  <2> QED BY <1>1, <1>2, <2>1, EndingKeepsAuditInv
<1>3. CASE audit' # Idle
  <2>1. audit' = b
    BY <1>1, <1>3
  <2>2. IsAudit(audit) /\ (quiet /\ audit.given = Deliverables => FoundOut(audit, source, docx, pdf, record))
    BY <1>1, Running DEF Steps
  <2>3. audit.given = Deliverables =>
          /\ "docx_table_figure_placement" \in DOMAIN more
          /\ more["docx_table_figure_placement"] => CaptionsPlaced(docx.items)
          /\ \A id \in Earlier : id \notin DOMAIN more
    BY DEF Deliverables, LayoutChecks
  <2> HIDE DEF more
  <2>4. /\ IsAudit(b) /\ b.step = "export" /\ b.given = audit.given /\ b.view = audit.view
        /\ \A id \in DOMAIN audit.checks : id \notin DOMAIN more =>
             id \in DOMAIN b.checks /\ b.checks[id] = audit.checks[id]
        /\ \A id \in DOMAIN more : id \in DOMAIN b.checks /\ b.checks[id] = more[id]
    BY <2>2, GoneFacts DEF b
  <2>5. ASSUME quiet, audit.given = Deliverables PROVE FoundOut(b, source, docx, pdf, record)
    <3>1. FoundOut(audit, source, docx, pdf, record)
      BY <2>2, <2>5
    <3>2. \A id \in Earlier : id \in DOMAIN audit.checks
      BY <1>1, <3>1 DEF FoundOut, Means
    <3>3. \A id \in Earlier : id \in DOMAIN b.checks /\ b.checks[id] = audit.checks[id]
      BY <2>3, <2>4, <2>5, <3>2
    <3>4. Means(b.checks, "docx_table_figure_placement", CaptionsPlaced(docx.items))
      BY <2>3, <2>4, <2>5 DEF Means
    <3> QED BY <1>1, <2>4, <3>1, <3>3, <3>4 DEF FoundOut, Means
  <2> QED BY <1>1, <2>1, <2>4, <2>5, GoingKeepsAuditInv DEF Steps
<1> QED BY <1>2, <1>3

(* The record of the export: it names the files as they are.               *)
LEMMA ExportKeepsAuditInv ==
  ASSUME AuditInv, audit_export_record
  PROVE  AuditInv'
<1> DEFINE more == IF "record" \in audit.given THEN ExportChecks(audit.given) ELSE << >>
           b == Gone(audit, "finish", more)
           Earlier == {"required_order", "markdown_docx_sync", "markdown_pdf_sync",
                    "ooxml_invariants", "docx_table_figure_placement"}
<1>1. /\ audit.step = "export" /\ UNCHANGED <<files, report, quiet>>
      /\ audit' = IF \A path \in {"record"} \cap audit.given : Exists(path)
                  THEN b ELSE Idle
  BY Zenon DEF audit_export_record, Step, Gone
<1> HIDE DEF b
<1>2. CASE audit' = Idle
  <2>1. ReadyMeansDelivered'
    BY <1>1 DEF AuditInv, ReadyMeansDelivered
  <2> QED BY <1>1, <1>2, <2>1, EndingKeepsAuditInv
<1>3. CASE audit' # Idle
  <2>1. audit' = b
    BY <1>1, <1>3
  <2>2. IsAudit(audit) /\ (quiet /\ audit.given = Deliverables => FoundOut(audit, source, docx, pdf, record))
    BY <1>1, Running DEF Steps
  <2> DEFINE hashes == record.source = source /\ record.docx = docx /\ record.pdf = pdf
  <2>3. audit.given = Deliverables =>
          /\ "pdf_visual_review_declaration" \in DOMAIN more
          /\ more["pdf_visual_review_declaration"] => record.reviewed
          /\ "export_record_hashes" \in DOMAIN more
          /\ more["export_record_hashes"] => hashes
          /\ \A id \in Earlier : id \notin DOMAIN more
    BY DEF Deliverables, ExportChecks
  <2> HIDE DEF more
  <2>4. /\ IsAudit(b) /\ b.step = "finish" /\ b.given = audit.given /\ b.view = audit.view
        /\ \A id \in DOMAIN audit.checks : id \notin DOMAIN more =>
             id \in DOMAIN b.checks /\ b.checks[id] = audit.checks[id]
        /\ \A id \in DOMAIN more : id \in DOMAIN b.checks /\ b.checks[id] = more[id]
    BY <2>2, GoneFacts DEF b
  <2>5. ASSUME quiet, audit.given = Deliverables PROVE FoundOut(b, source, docx, pdf, record)
    <3>1. FoundOut(audit, source, docx, pdf, record)
      BY <2>2, <2>5
    <3>2. \A id \in Earlier : id \in DOMAIN audit.checks
      BY <1>1, <3>1 DEF FoundOut, Means
    <3>3. \A id \in Earlier : id \in DOMAIN b.checks /\ b.checks[id] = audit.checks[id]
      BY <2>3, <2>4, <2>5, <3>2
    <3>4. /\ Means(b.checks, "pdf_visual_review_declaration", record.reviewed)
          /\ Means(b.checks, "export_record_hashes", hashes)
      BY <2>3, <2>4, <2>5 DEF Means
    <3> QED BY <1>1, <2>4, <3>1, <3>3, <3>4 DEF FoundOut, Means
  <2> QED BY <1>1, <2>1, <2>4, <2>5, GoingKeepsAuditInv DEF Steps
<1> QED BY <1>2, <1>3

(* The report is of the files as they are if nothing was saved meanwhile.  *)
LEMMA FinishingKeepsAuditInv ==
  ASSUME AuditInv, FinishAudit
  PROVE  AuditInv'
<1> DEFINE passed == \A id \in DOMAIN audit.checks : audit.checks[id]
           ready == passed /\ audit.given = Deliverables
           filed == files
<1>1. /\ audit.step = "finish" /\ audit' = Idle /\ files' = files
      /\ report' = [passed |-> passed, quiet |-> quiet, files |-> filed, ready |-> ready]
  BY Zenon DEF FinishAudit
<1> HIDE DEF passed, ready
<1>2. report'.ready = ready /\ report'.quiet = quiet /\ report'.files = filed
  <2> HIDE DEF filed
  <2> QED BY <1>1
<1>3. ASSUME ready, quiet PROVE Delivered(source, docx, pdf, record)
  <2>1. audit.given = Deliverables /\ \A id \in DOMAIN audit.checks : audit.checks[id]
    BY <1>3 DEF ready, passed
  <2>2. FoundOut(audit, source, docx, pdf, record)
    BY <1>1, <1>3, <2>1, Running DEF Steps
  <2>3. docx # None /\ docx \in Docxs /\ source \in Drafts \cup Sources
    BY <1>1, <2>2 DEF FoundOut, AuditInv
  <2>4. IsList(source) /\ IsList(docx.items)
    BY <2>3, ListsAreLists
  <2>5. /\ FoundInOrder(Contract.required_order, MainText(source_view(source)))
        /\ InSync(source_view(source), docx.text) /\ InSync(source_view(source), pdf)
    BY <1>1, <2>1, <2>2 DEF FoundOut, Means
  <2>6. audit_ooxml(Template, docx) /\ CaptionsPlaced(docx.items)
    BY <1>1, <2>1, <2>2 DEF FoundOut, Means
  <2>7. record.reviewed /\ record.source = source /\ record.docx = docx /\ record.pdf = pdf
    BY <1>1, <2>1, <2>2 DEF FoundOut, Means
  <2> QED BY <2>4, <2>5, <2>6, <2>7, ChecksMeanDelivered
<1>4. ReadyMeansDelivered'
  <2>1. ASSUME report'.ready, report'.quiet
        PROVE  Delivered(report'.files[1], report'.files[2], report'.files[3], report'.files[4])
    <3>1. Delivered(source, docx, pdf, record)
      BY <1>2, <1>3, <2>1
    <3>2. /\ report'.files[1] = source /\ report'.files[2] = docx
          /\ report'.files[3] = pdf /\ report'.files[4] = record
      BY <1>2 DEF files
    <3> QED BY <3>1, <3>2
  <2> QED BY <2>1 DEF ReadyMeansDelivered
<1> QED BY <1>1, <1>4, EndingKeepsAuditInv

THEOREM AuditInvNext == AuditInv /\ [AuditNext]_auditVars => AuditInv'
<1> SUFFICES ASSUME AuditInv, [AuditNext]_auditVars PROVE AuditInv'
  OBVIOUS
<1>1. CASE Revise \/ ExportDocx \/ ExportPdf \/ WriteRecord
  BY <1>1, SavingKeepsAuditInv
<1>2. ASSUME NEW given \in Invocations, StartAudit(given) PROVE AuditInv'
  BY <1>2, StartingKeepsAuditInv
<1>3. CASE audit_sync
  BY <1>3, SyncKeepsAuditInv
<1>4. CASE Ooxml
  BY <1>4, OoxmlKeepsAuditInv
<1>5. CASE audit_docx_layout
  BY <1>5, LayoutKeepsAuditInv
<1>6. CASE audit_export_record
  BY <1>6, ExportKeepsAuditInv
<1>7. CASE FinishAudit
  BY <1>7, FinishingKeepsAuditInv
<1>8. CASE UNCHANGED auditVars
  BY <1>8 DEF auditVars, files, AuditInv, ReadyMeansDelivered
<1> QED BY <1>1, <1>2, <1>3, <1>4, <1>5, <1>6, <1>7, <1>8, Zenon DEF AuditNext

(* Throughout every run of audits and edits, the running audit knows the   *)
(* files as they are unless one of them was saved since it began.          *)
THEOREM AuditInvHolds == AuditSpec => []AuditInv
<1>1. AuditInit => AuditInv
  BY AuditInvInit
<1>2. AuditInv /\ [AuditNext]_auditVars => AuditInv'
  BY AuditInvNext
<1> QED BY <1>1, <1>2, PTL DEF AuditSpec

(* Who is told that a delivery is ready, and saved nothing while the audit *)
(* ran, has files that belong together: the same blocks, the template's    *)
(* layout, captions and required order, and a record of these very files.  *)
THEOREM ReadyIsDelivered == AuditSpec => []ReadyMeansDelivered
<1>1. AuditInv => ReadyMeansDelivered
  BY DEF AuditInv
<1> QED BY <1>1, AuditInvHolds, PTL
=============================================================================

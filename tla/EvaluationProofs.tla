-------------------------- MODULE EvaluationProofs --------------------------
(***************************************************************************)
(* Proofs about suiko-eval.                                                *)
(*                                                                         *)
(* ExternalCorpus, for any list of sources, any pages and any number of    *)
(* processes, fetches, deaths and evaluations: an evaluation computes on   *)
(* nothing whose digest is not in the lock it read; and with one fetch at  *)
(* a time a mismatch between a file and the lock is the work of a fetch    *)
(* that died, and what is saved is what was selected.                      *)
(*                                                                         *)
(* Evaluation, for any corpora and thresholds: the threshold calibrate     *)
(* recommends is the best that keeps the constraint, a false alarm less    *)
(* never makes one break it, and the holdout split decides nothing.        *)
(***************************************************************************)
EXTENDS ExternalCorpus, Evaluation, SequenceLemmas, FiniteSetTheorems, FunctionTheorems

Readers ==
  [pc : {"idle", "reading", "loaded", "error"}, entries : Entries, left : Seq(Ids),
   docs : Seq(Ids \X Payloads), missing : Nat, unfetched : Nat]

TypeOK ==
  /\ alone \in BOOLEAN
  /\ file \in [Ids -> Payloads \cup {"absent", "torn"}]
  /\ lock \in [state : {"absent", "torn", "whole"}, entries : Entries]
  /\ pc \in [Fetchers -> {"idle", "get", "write", "saving"}]
  /\ todo \in [Fetchers -> Seq(Ids)]
  /\ \A p \in Fetchers : pc[p] = "write" => todo[p] # << >> /\ got[p] \in Payloads
  /\ got \in [Fetchers -> Payloads \cup {"none"}]
  /\ mem \in [Fetchers -> Entries]
  /\ failed \in [Fetchers -> BOOLEAN]
  /\ mixed \subseteq Fetchers
  /\ runs \in Nat /\ loads \in Nat
  /\ reader \in Readers
  /\ loaded \in [Fetchers -> [entries : Entries, sel : Seq(Ids)]]
  /\ unsaved \subseteq Ids

(* An evaluation keeps what it has accounted for and what is left.         *)
ReaderInv ==
  /\ \A i \in DOMAIN reader.docs : reader.docs[i][2] = reader.entries[reader.docs[i][1]]
  /\ reader.pc \in {"reading", "loaded"} =>
       Len(reader.docs) + reader.missing + reader.unfetched + Len(reader.left) = Len(Sources)
  /\ reader.pc = "loaded" => reader.left = << >>

(* The process that runs every fetch where they run one at a time.         *)
Only == CHOOSE q \in Fetchers : TRUE

(* A source is settled in the entries of the running fetch once it was     *)
(* read, and until then if no fetch left its file unsaved.                 *)
Handled(s) == s \in Range(loaded[Only].sel) \ Range(todo[Only])
Settled(s) == Handled(s) \/ s \notin unsaved

RunningInv ==
  /\ Range(todo[Only]) \subseteq Range(loaded[Only].sel)
  /\ pc[Only] = "write" => Head(todo[Only]) \in unsaved
  /\ pc[Only] = "saving" => todo[Only] = << >> /\ lock.state = "torn"
  /\ \A s \in Ids : Settled(s) /\ mem[Only][s] \in Payloads => file[s] \in {mem[Only][s], "absent"}
  /\ \A s \in Ids \ Range(loaded[Only].sel) : mem[Only][s] = loaded[Only].entries[s]
  /\ \A s \in Ids : Handled(s) =>
       mem[Only][s] \in Payloads \cup IF failed[Only] THEN {"error"} ELSE {}

AloneInv ==
  alone =>
    /\ \A q \in Fetchers \ {Only} : pc[q] = "idle"
    /\ mixed = {}
    /\ lock.state = "absent" => lock.entries = NoEntries
    /\ Only \in Fetchers /\ pc[Only] # "idle" => RunningInv

Inv == TypeOK /\ ReaderInv /\ AloneInv /\ MismatchMeansInterrupted
-----------------------------------------------------------------------------
LEMMA SourcesType == Sources \in Seq(Ids)
<1>1. \A i \in 1 .. Len(Sources) : Sources[i] \in Ids
  BY SourcesAreIds DEF Ids, Range
<1> QED
  BY <1>1, SourcesAreIds

LEMMA RangeOfHeadTail ==
  ASSUME NEW S, NEW t \in Seq(S), t # << >>
  PROVE  /\ Head(t) \in S /\ Tail(t) \in Seq(S) /\ Len(Tail(t)) = Len(t) - 1
         /\ Range(t) = {Head(t)} \cup Range(Tail(t))
<1>1. /\ Head(t) = t[1] /\ Tail(t) \in Seq(S) /\ Len(Tail(t)) = Len(t) - 1
      /\ \A i \in 1 .. Len(Tail(t)) : Tail(t)[i] = t[i + 1]
  BY HeadTailProperties
<1>2. Len(t) \in Nat \ {0} /\ \A i \in 1 .. Len(t) : t[i] \in S
  OBVIOUS
<1>3. Range(t) \subseteq {Head(t)} \cup Range(Tail(t))
  <2> SUFFICES ASSUME NEW i \in 1 .. Len(t), i # 1
               PROVE  t[i] \in Range(Tail(t))
    BY <1>1, <1>2 DEF Range
  <2>1. i - 1 \in 1 .. Len(Tail(t)) /\ Tail(t)[i - 1] = t[i]
    BY <1>1, <1>2
  <2>2. DOMAIN Tail(t) = 1 .. Len(Tail(t))
    BY <1>1
  <2> QED
    BY <2>1, <2>2 DEF Range
<1>4. {Head(t)} \cup Range(Tail(t)) \subseteq Range(t)
  <2>1. t[1] \in Range(t)
    BY <1>2 DEF Range
  <2>2. ASSUME NEW i \in 1 .. Len(Tail(t))
        PROVE  Tail(t)[i] \in Range(t)
    <3>1. i + 1 \in 1 .. Len(t)
      BY <1>1, <1>2
    <3> QED
      BY <3>1, <1>1 DEF Range
  <2> QED
    BY <1>1, <2>1, <2>2 DEF Range
<1> QED
  BY <1>1, <1>2, <1>3, <1>4

LEMMA SelectionsType == Selections \subseteq Seq(Ids)
<1>1. \A n \in 1 .. Len(Sources) : SubSeq(Sources, 1, n) \in Seq(Ids)
  BY SourcesType, SubSeqProperties
<1>2. \A s \in Ids : <<s>> \in Seq(Ids)
  OBVIOUS
<1>3. ASSUME NEW x \in Selections PROVE x \in Seq(Ids)
  <2>1. CASE \E s \in Ids : x = <<s>>
    BY <1>2, <2>1
  <2>2. CASE \E n \in 1 .. Len(Sources) : x = SubSeq(Sources, 1, n)
    BY <1>1, <2>2
  <2> QED
    BY <1>3, <2>1, <2>2 DEF Selections
<1> QED
  BY <1>3

LEMMA RangeOfIds == ASSUME NEW t \in Seq(Ids) PROVE Range(t) \subseteq Ids
BY DEF Range

LEMMA EmptyRange == Range(<< >>) = {}
BY DEF Range
-----------------------------------------------------------------------------
LEMMA InitInv == Init => Inv
<1> SUFFICES ASSUME Init PROVE Inv
  OBVIOUS
<1>1. NoEntries \in Entries
  BY DEF NoEntries, Entries
<1>2. TypeOK
  <2>1. << >> \in Seq(Ids) /\ << >> \in Seq(Ids \X Payloads)
    OBVIOUS
  <2>2. reader \in Readers
    BY <1>1, <2>1 DEF Init, Readers
  <2>3. loaded \in [Fetchers -> [entries : Entries, sel : Seq(Ids)]]
    BY <1>1, <2>1 DEF Init
  <2> QED
    BY <1>1, <2>1, <2>2, <2>3 DEF Init, TypeOK
<1>3. ReaderInv
  BY DEF Init, ReaderInv
<1>4. AloneInv /\ MismatchMeansInterrupted
  BY DEF Init, AloneInv, MismatchMeansInterrupted
<1> QED
  BY <1>2, <1>3, <1>4 DEF Inv

(* What SourceDone does to the variables of its fetch.                     *)
LEMMA SourceDoneType ==
  ASSUME TypeOK, NEW p \in Fetchers, NEW entry \in Payloads \cup {"error"},
         todo[p] # << >>, SourceDone(p, entry)
  PROVE  /\ mem' \in [Fetchers -> Entries] /\ failed' \in [Fetchers -> BOOLEAN]
         /\ todo' \in [Fetchers -> Seq(Ids)]
         /\ pc' \in [Fetchers -> {"idle", "get", "write", "saving"}]
         /\ todo'[p] = Tail(todo[p]) /\ pc'[p] = "get"
         /\ mem'[p] = [mem[p] EXCEPT ![Head(todo[p])] = entry]
         /\ failed'[p] = (failed[p] \/ entry = "error")
<1>1. Head(todo[p]) \in Ids /\ Tail(todo[p]) \in Seq(Ids)
  BY RangeOfHeadTail DEF TypeOK
<1>2. [mem[p] EXCEPT ![Head(todo[p])] = entry] \in Entries
  BY <1>1 DEF TypeOK, Entries
<1>3. mem' = [mem EXCEPT ![p] = [mem[p] EXCEPT ![Head(todo[p])] = entry]]
  BY DEF SourceDone, Record
<1>4. mem' \in [Fetchers -> Entries] /\ mem'[p] = [mem[p] EXCEPT ![Head(todo[p])] = entry]
  BY <1>2, <1>3 DEF TypeOK
<1> QED
  BY <1>1, <1>4 DEF TypeOK, SourceDone

LEMMA EndsType ==
  ASSUME TypeOK, NEW p \in Fetchers, Ends(p)
  PROVE  /\ pc' \in [Fetchers -> {"idle", "get", "write", "saving"}]
         /\ todo' \in [Fetchers -> Seq(Ids)] /\ got' \in [Fetchers -> Payloads \cup {"none"}]
         /\ mem' \in [Fetchers -> Entries] /\ failed' \in [Fetchers -> BOOLEAN]
         /\ loaded' \in [Fetchers -> [entries : Entries, sel : Seq(Ids)]]
         /\ mixed' \subseteq Fetchers /\ pc'[p] = "idle"
<1>1. NoEntries \in Entries
  BY DEF NoEntries, Entries
<1> QED
  BY <1>1 DEF TypeOK, Ends

LEMMA SharingType ==
  ASSUME TypeOK, NEW p \in Fetchers, NEW path PROVE Sharing(p, path) \subseteq Fetchers
BY DEF TypeOK, Sharing, Sharers

LEMMA ReaderType ==
  ASSUME TypeOK, ReadSource PROVE reader' \in Readers
<1> DEFINE s == Head(reader.left)
<1>1. s \in Ids /\ Tail(reader.left) \in Seq(Ids)
  BY RangeOfHeadTail DEF TypeOK, Readers, ReadSource
<1>2. reader' = AfterSource(s)
  BY DEF ReadSource
<1>3. CASE reader.entries[s] \notin Payloads
  <2>1. reader' = [reader EXCEPT !.unfetched = reader.unfetched + 1, !.left = Tail(reader.left)]
    BY <1>2, <1>3 DEF AfterSource
  <2>2. reader \in Readers
    BY DEF TypeOK
  <2>3. reader' = [pc |-> reader.pc, entries |-> reader.entries, left |-> Tail(reader.left),
                   docs |-> reader.docs, missing |-> reader.missing, unfetched |-> reader.unfetched + 1]
    BY <2>1, <2>2 DEF Readers
  <2> QED
    BY <1>1, <2>2, <2>3 DEF Readers
<1>4. CASE reader.entries[s] \in Payloads /\ file[s] = "absent"
  <2>1. reader' = [reader EXCEPT !.missing = reader.missing + 1, !.left = Tail(reader.left)]
    BY <1>2, <1>4 DEF AfterSource
  <2>2. reader \in Readers
    BY DEF TypeOK
  <2>3. reader' = [pc |-> reader.pc, entries |-> reader.entries, left |-> Tail(reader.left),
                   docs |-> reader.docs, missing |-> reader.missing + 1, unfetched |-> reader.unfetched]
    BY <2>1, <2>2 DEF Readers
  <2> QED
    BY <1>1, <2>2, <2>3 DEF Readers
<1>5. CASE reader.entries[s] \in Payloads /\ file[s] # "absent" /\ Matches(s)
  <2>1. Append(reader.docs, <<s, file[s]>>) \in Seq(Ids \X Payloads)
    BY <1>1, <1>5 DEF TypeOK, Readers, Matches
  <2>2. reader' = [reader EXCEPT !.docs = Append(reader.docs, <<s, file[s]>>), !.left = Tail(reader.left)]
    BY <1>2, <1>5 DEF AfterSource
  <2> QED
    BY <1>1, <2>1, <2>2 DEF TypeOK, Readers
<1>6. CASE reader.entries[s] \in Payloads /\ file[s] # "absent" /\ ~ Matches(s)
  <2>1. << >> \in Seq(Ids \X Payloads)
    OBVIOUS
  <2>2. reader' = [reader EXCEPT !.pc = "error", !.docs = << >>]
    BY <1>2, <1>6 DEF AfterSource
  <2>3. reader \in Readers
    BY DEF TypeOK
  <2>4. reader' = [pc |-> "error", entries |-> reader.entries, left |-> reader.left,
                   docs |-> << >>, missing |-> reader.missing, unfetched |-> reader.unfetched]
    BY <2>2, <2>3 DEF Readers
  <2> QED
    BY <2>1, <2>3, <2>4 DEF Readers
<1> QED
  BY <1>3, <1>4, <1>5, <1>6

LEMMA TypeStep == TypeOK /\ [Next]_vars => TypeOK'
<1> SUFFICES ASSUME TypeOK, [Next]_vars PROVE TypeOK'
  OBVIOUS
<1>0. NoEntries \in Entries
  BY DEF NoEntries, Entries
<1>1. ASSUME NEW p \in Fetchers, NEW sel \in Selections, Start(p, sel) PROVE TypeOK'
  <2>1. sel \in Seq(Ids) /\ LoadedEntries \in Entries
    BY <1>0, SelectionsType DEF TypeOK, LoadedEntries
  <2>2. [entries |-> lock.entries, sel |-> sel] \in [entries : Entries, sel : Seq(Ids)]
    BY <2>1 DEF TypeOK
  <2>3. /\ pc' \in [Fetchers -> {"idle", "get", "write", "saving"}]
        /\ \A q \in Fetchers : pc'[q] = "write" => pc[q] = "write" /\ q # p
        /\ todo' \in [Fetchers -> Seq(Ids)] /\ \A q \in Fetchers : q # p => todo'[q] = todo[q]
    BY <1>1, <2>1 DEF TypeOK, Start
  <2> QED
    BY <1>1, <2>1, <2>2, <2>3 DEF TypeOK, Start, disk
<1>2. ASSUME NEW p \in Fetchers, NEW v \in Payloads, Download(p, v) PROVE TypeOK'
  <2>1. Head(todo[p]) \in Ids /\ todo[p] # << >>
    BY <1>2, RangeOfHeadTail DEF TypeOK, Download
  <2>2. mixed' \subseteq Fetchers
    BY <1>2, SharingType DEF Download
  <2>3. /\ pc' \in [Fetchers -> {"idle", "get", "write", "saving"}]
        /\ got' \in [Fetchers -> Payloads \cup {"none"}]
        /\ \A q \in Fetchers : pc'[q] = "write" => todo[q] # << >> /\ got'[q] \in Payloads
    BY <1>2, <2>1 DEF TypeOK, Download
  <2> QED
    BY <1>2, <2>1, <2>2, <2>3 DEF TypeOK, Download
<1>3. ASSUME NEW p \in Fetchers, NEW entry \in Payloads \cup {"error"}, todo[p] # << >>,
             SourceDone(p, entry), mixed' \subseteq mixed,
             file' \in [Ids -> Payloads \cup {"absent", "torn"}],
             UNCHANGED <<alone, lock, runs, reader, loads, loaded, unsaved>>
      PROVE  TypeOK'
  <2>1. \A q \in Fetchers : pc'[q] = "write" =>
          pc[q] = "write" /\ todo'[q] = todo[q] /\ got'[q] = got[q]
    BY <1>3 DEF TypeOK, SourceDone
  <2>2. /\ mem' \in [Fetchers -> Entries] /\ failed' \in [Fetchers -> BOOLEAN]
        /\ todo' \in [Fetchers -> Seq(Ids)]
        /\ pc' \in [Fetchers -> {"idle", "get", "write", "saving"}]
    BY <1>3, SourceDoneType
  <2>3. \A q \in Fetchers : pc'[q] = "write" => todo'[q] # << >> /\ got'[q] \in Payloads
    BY <1>3, <2>1 DEF TypeOK
  <2>4. got' \in [Fetchers -> Payloads \cup {"none"}]
    BY <1>3 DEF TypeOK, SourceDone
  <2> QED
    BY <1>3, <2>2, <2>3, <2>4 DEF TypeOK
<1>4. ASSUME NEW p \in Fetchers, NEW v \in Payloads, Written(p, v) PROVE TypeOK'
  <2>1. Head(todo[p]) \in Ids /\ todo[p] # << >>
    BY <1>4, RangeOfHeadTail DEF TypeOK, Written
  <2>2. file' \in [Ids -> Payloads \cup {"absent", "torn"}]
    BY <1>4, <2>1 DEF TypeOK, Written
  <2> QED
    BY <1>3, <1>4, <2>1, <2>2 DEF Written
<1>5. ASSUME NEW p \in Fetchers, DownloadFails(p) PROVE TypeOK'
  BY <1>3, <1>5 DEF DownloadFails, disk, TypeOK
<1>6. ASSUME NEW p \in Fetchers, WriteFails(p) PROVE TypeOK'
  BY <1>3, <1>6 DEF WriteFails, TypeOK
<1>7. ASSUME NEW p \in Fetchers, Save(p) PROVE TypeOK'
  <2>1. mixed' \subseteq Fetchers
    BY <1>7, SharingType DEF Save
  <2>2. /\ pc' \in [Fetchers -> {"idle", "get", "write", "saving"}]
        /\ \A q \in Fetchers : pc'[q] = "write" => pc[q] = "write"
    BY <1>7 DEF TypeOK, Save
  <2> QED
    BY <1>0, <1>7, <2>1, <2>2 DEF TypeOK, Save
<1>8. ASSUME NEW p \in Fetchers, Ends(p), lock' \in [state : {"absent", "torn", "whole"}, entries : Entries],
             unsaved' \subseteq Ids, UNCHANGED <<alone, file, runs, reader, loads>>
      PROVE  TypeOK'
  <2>1. \A q \in Fetchers : pc'[q] = "write" =>
          pc[q] = "write" /\ todo'[q] = todo[q] /\ got'[q] = got[q]
    BY <1>8 DEF TypeOK, Ends
  <2> QED
    BY <1>8, <2>1, EndsType DEF TypeOK
<1>9. ASSUME NEW p \in Fetchers, Saved(p) PROVE TypeOK'
  <2>1. lock' \in [state : {"absent", "torn", "whole"}, entries : Entries]
    BY <1>0, <1>9 DEF TypeOK, Saved
  <2> QED
    BY <1>8, <1>9, <2>1 DEF TypeOK, Saved
<1>10. ASSUME NEW p \in Fetchers, Crash(p) PROVE TypeOK'
  BY <1>8, <1>10 DEF TypeOK, Crash
<1>11. CASE Load
  <2>1. CASE lock.state = "whole"
    <3>1. reader' = [pc |-> "reading", entries |-> lock.entries, left |-> Sources,
                     docs |-> << >>, missing |-> 0, unfetched |-> 0]
          /\ << >> \in Seq(Ids \X Payloads) /\ lock.entries \in Entries
      BY <1>11, <2>1 DEF Load, TypeOK
    <3>2. reader' \in Readers
      BY <3>1, SourcesType DEF Readers
    <3> QED
      BY <1>11, <3>2 DEF TypeOK, Load, disk, fetcher
  <2>2. CASE lock.state # "whole"
    <3>1. reader' = [reader EXCEPT !.pc = "error"]
      BY <1>11, <2>2 DEF Load
    <3>2. reader' \in Readers
      BY <3>1 DEF TypeOK, Readers
    <3> QED
      BY <1>11, <3>2 DEF TypeOK, Load, disk, fetcher
  <2> QED
    BY <2>1, <2>2
<1>12. CASE ReadSource
  BY <1>12, ReaderType DEF TypeOK, ReadSource, disk, fetcher
<1>13. CASE Loaded
  <2>1. reader' \in Readers
    BY <1>13 DEF TypeOK, Readers, Loaded
  <2> QED
    BY <1>13, <2>1 DEF TypeOK, Loaded, disk, fetcher
<1>14. CASE Again
  <2>1. /\ reader' = [pc |-> "idle", entries |-> NoEntries, left |-> << >>,
                      docs |-> << >>, missing |-> 0, unfetched |-> 0]
        /\ << >> \in Seq(Ids) /\ << >> \in Seq(Ids \X Payloads)
    BY <1>14 DEF Again
  <2>2. reader' \in Readers
    BY <1>0, <2>1 DEF Readers
  <2> QED
    BY <1>14, <2>2 DEF TypeOK, Again, disk, fetcher
<1>15. ASSUME NEW s \in Ids, Delete(s) PROVE TypeOK'
  BY <1>15 DEF TypeOK, Delete, fetcher
<1>16. CASE UNCHANGED vars
  BY <1>16 DEF TypeOK, vars, disk, fetcher
<1> QED
  BY <1>1, <1>2, <1>4, <1>5, <1>6, <1>7, <1>9, <1>10, <1>11, <1>12, <1>13, <1>14, <1>15, <1>16
  DEF Next, Fetching
-----------------------------------------------------------------------------
LEMMA ReaderInvStep == TypeOK /\ ReaderInv /\ [Next]_vars => ReaderInv'
<1> SUFFICES ASSUME TypeOK, ReaderInv, [Next]_vars PROVE ReaderInv'
  OBVIOUS
<1>1. CASE UNCHANGED reader
  BY <1>1 DEF ReaderInv
<1>2. CASE Load
  <2>1. CASE lock.state = "whole"
    BY <1>2, <2>1, SourcesType DEF Load, ReaderInv
  <2>2. CASE lock.state # "whole"
    BY <1>2, <2>2 DEF Load, ReaderInv, TypeOK, Readers
  <2> QED
    BY <2>1, <2>2
<1>3. CASE ReadSource
  <2> DEFINE s == Head(reader.left)
  <2>1. /\ s \in Ids /\ Tail(reader.left) \in Seq(Ids) /\ Len(reader.left) \in Nat
        /\ Len(Tail(reader.left)) = Len(reader.left) - 1
        /\ reader.pc = "reading" /\ reader' = AfterSource(s)
    BY <1>3, RangeOfHeadTail DEF TypeOK, Readers, ReadSource
  <2>2. /\ reader \in Readers /\ reader.docs \in Seq(Ids \X Payloads)
        /\ reader.missing \in Nat /\ reader.unfetched \in Nat /\ Len(reader.docs) \in Nat
    BY DEF TypeOK, Readers
  <2>0. Len(reader.docs) + reader.missing + reader.unfetched + Len(reader.left) = Len(Sources)
    BY <2>1 DEF ReaderInv
  <2>8. reader.pc = "reading" /\ Len(Tail(reader.left)) = Len(reader.left) - 1
    BY <2>1
  <2>9. /\ Len(reader.left) \in Nat /\ reader.missing \in Nat
        /\ reader.unfetched \in Nat /\ Len(reader.docs) \in Nat /\ Len(Sources) \in Nat
    BY <2>1, <2>2, SourcesType
  <2> DEFINE d == Len(reader.docs)
  <2> DEFINE m == reader.missing
  <2> DEFINE u == reader.unfetched
  <2> DEFINE l == Len(reader.left)
  <2>10. /\ d + m + (u + 1) + (l - 1) = d + m + u + l
         /\ d + (m + 1) + u + (l - 1) = d + m + u + l
         /\ (d + 1) + m + u + (l - 1) = d + m + u + l
    <3>1. d \in Nat /\ m \in Nat /\ u \in Nat /\ l \in Nat
      BY <2>9
    <3> HIDE DEF d, m, u, l
    <3> QED
      BY <3>1
  <2> HIDE DEF d, m, u, l
  <2>3. CASE reader' = [reader EXCEPT !.unfetched = @ + 1, !.left = Tail(@)]
    <3>1. /\ reader'.pc = reader.pc /\ reader'.docs = reader.docs /\ reader'.entries = reader.entries
          /\ reader'.missing = reader.missing /\ reader'.unfetched = reader.unfetched + 1
          /\ reader'.left = Tail(reader.left)
      BY <2>2, <2>3 DEF Readers
    <3>2. \A i \in DOMAIN reader'.docs : reader'.docs[i][2] = reader'.entries[reader'.docs[i][1]]
      BY <3>1 DEF ReaderInv
    <3>3. Len(reader'.docs) + reader'.missing + reader'.unfetched + Len(reader'.left) = Len(Sources)
      <4>1. Len(reader'.docs) = Len(reader.docs) /\ Len(reader'.left) = Len(reader.left) - 1
        BY <2>8, <3>1
      <4>2. Len(reader'.docs) + reader'.missing + reader'.unfetched + Len(reader'.left) =
            Len(reader.docs) + reader.missing + (reader.unfetched + 1) + (Len(reader.left) - 1)
        BY <3>1, <4>1
      <4>3. Len(reader.docs) + reader.missing + (reader.unfetched + 1) + (Len(reader.left) - 1) = Len(Sources)
        BY <2>0, <2>10 DEF d, m, u, l
      <4> QED
        BY <4>2, <4>3
    <3> QED
      BY <2>8, <3>1, <3>2, <3>3 DEF ReaderInv
  <2>4. CASE reader' = [reader EXCEPT !.missing = @ + 1, !.left = Tail(@)]
    <3>1. /\ reader'.pc = reader.pc /\ reader'.docs = reader.docs /\ reader'.entries = reader.entries
          /\ reader'.missing = reader.missing + 1 /\ reader'.unfetched = reader.unfetched
          /\ reader'.left = Tail(reader.left)
      BY <2>2, <2>4 DEF Readers
    <3>2. \A i \in DOMAIN reader'.docs : reader'.docs[i][2] = reader'.entries[reader'.docs[i][1]]
      BY <3>1 DEF ReaderInv
    <3>3. Len(reader'.docs) + reader'.missing + reader'.unfetched + Len(reader'.left) = Len(Sources)
      <4>1. Len(reader'.docs) = Len(reader.docs) /\ Len(reader'.left) = Len(reader.left) - 1
        BY <2>8, <3>1
      <4>2. Len(reader'.docs) + reader'.missing + reader'.unfetched + Len(reader'.left) =
            Len(reader.docs) + (reader.missing + 1) + reader.unfetched + (Len(reader.left) - 1)
        BY <3>1, <4>1
      <4>3. Len(reader.docs) + (reader.missing + 1) + reader.unfetched + (Len(reader.left) - 1) = Len(Sources)
        BY <2>0, <2>10 DEF d, m, u, l
      <4> QED
        BY <4>2, <4>3
    <3> QED
      BY <2>8, <3>1, <3>2, <3>3 DEF ReaderInv
  <2>7. reader.entries[s] \in Payloads /\ Matches(s) => <<s, file[s]>> \in Ids \X Payloads
    BY <2>1 DEF Matches
  <2>5. CASE reader.entries[s] \in Payloads /\ Matches(s) /\ reader' = [reader EXCEPT !.docs = Append(@, <<s, file[s]>>), !.left = Tail(@)]
    <3>1. /\ reader'.pc = reader.pc /\ reader'.docs = Append(reader.docs, <<s, file[s]>>)
          /\ reader'.entries = reader.entries /\ reader'.missing = reader.missing
          /\ reader'.unfetched = reader.unfetched /\ reader'.left = Tail(reader.left)
      BY <2>2, <2>5 DEF Readers
    <3>2. /\ Len(reader'.docs) = Len(reader.docs) + 1 /\ DOMAIN reader.docs = 1 .. Len(reader.docs)
          /\ DOMAIN reader'.docs = 1 .. Len(reader.docs) + 1
          /\ reader'.docs[Len(reader.docs) + 1] = <<s, file[s]>>
          /\ \A i \in DOMAIN reader.docs : reader'.docs[i] = reader.docs[i]
      BY <2>2, <3>1, AppendProperties, <2>7
    <3>3. ASSUME NEW i \in DOMAIN reader'.docs
          PROVE  reader'.docs[i][2] = reader'.entries[reader'.docs[i][1]]
      <4>1. CASE i \in DOMAIN reader.docs
        BY <4>1, <3>1, <3>2 DEF ReaderInv
      <4>2. CASE i = Len(reader.docs) + 1
        BY <4>2, <2>5, <3>1, <3>2 DEF Matches
      <4> QED
        BY <2>2, <3>2, <4>1, <4>2
    <3>4. Len(reader'.docs) + reader'.missing + reader'.unfetched + Len(reader'.left) = Len(Sources)
      <4>1. Len(reader'.docs) = Len(reader.docs) + 1 /\ Len(reader'.left) = Len(reader.left) - 1
        BY <2>8, <3>1, <3>2
      <4>2. Len(reader'.docs) + reader'.missing + reader'.unfetched + Len(reader'.left) =
            (Len(reader.docs) + 1) + reader.missing + reader.unfetched + (Len(reader.left) - 1)
        BY <3>1, <4>1
      <4>3. (Len(reader.docs) + 1) + reader.missing + reader.unfetched + (Len(reader.left) - 1) = Len(Sources)
        BY <2>0, <2>10 DEF d, m, u, l
      <4> QED
        BY <4>2, <4>3
    <3> QED
      BY <2>8, <3>1, <3>3, <3>4 DEF ReaderInv
  <2>6. CASE reader' = [reader EXCEPT !.pc = "error", !.docs = << >>]
    <3>1. reader'.pc = "error" /\ reader'.docs = << >>
      BY <2>2, <2>6 DEF Readers
    <3> QED
      BY <3>1 DEF ReaderInv
  <2> QED
    BY <2>1, <2>3, <2>4, <2>5, <2>6 DEF AfterSource
<1>4. CASE Loaded
  <2>1. reader' = [reader EXCEPT !.pc = "loaded"] /\ reader \in Readers
    BY <1>4 DEF Loaded, TypeOK
  <2>2. /\ reader'.pc = "loaded" /\ reader'.docs = reader.docs /\ reader'.entries = reader.entries
        /\ reader'.missing = reader.missing /\ reader'.unfetched = reader.unfetched
        /\ reader'.left = reader.left
    BY <2>1 DEF Readers
  <2> QED
    BY <1>4, <2>2 DEF Loaded, ReaderInv
<1>5. CASE Again
  BY <1>5 DEF Again, ReaderInv
<1>6. CASE \E p \in Fetchers, sel \in Selections : Start(p, sel)
  BY <1>1, <1>6 DEF Start
<1>7. ASSUME NEW p \in Fetchers, Fetching(p) \/ Crash(p) PROVE UNCHANGED reader
  BY <1>7 DEF Fetching, Crash, Download, Written, DownloadFails, WriteFails, Save, Saved
<1>8. CASE \E s \in Ids : Delete(s)
  BY <1>1, <1>8 DEF Delete
<1>9. CASE UNCHANGED vars
  BY <1>1, <1>9 DEF vars
<1> QED
  BY <1>1, <1>2, <1>3, <1>4, <1>5, <1>6, <1>7, <1>8, <1>9 DEF Next
-----------------------------------------------------------------------------
LEMMA AloneIsOnly ==
  ASSUME AloneInv, alone, NEW p \in Fetchers, pc[p] # "idle"
  PROVE  p = Only /\ Only \in Fetchers /\ pc[Only] # "idle" /\ RunningInv
BY DEF AloneInv

LEMMA AloneSharesNothing ==
  ASSUME TypeOK, AloneInv, alone, Only \in Fetchers, NEW path, path # "none"
  PROVE  Sharing(Only, path) = {}
<1>1. \A q \in Fetchers \ {Only} : Open(q) = "none"
  BY DEF AloneInv, Open
<1>2. Sharers(Only, path) = {}
  BY <1>1 DEF Sharers
<1> QED
  BY <1>2 DEF Sharing, AloneInv

(* A source was fetched or failed: the file of the source holds the digest *)
(* that is recorded, or no digest is.                                      *)
LEMMA AloneSourceDone ==
  ASSUME Inv, alone, NEW p \in Fetchers, NEW entry \in Payloads \cup {"error"},
         p = Only, todo[p] # << >>, SourceDone(p, entry), mixed' = mixed \ {p} \/ mixed' = mixed,
         \/ file' = file /\ entry = "error"
         \/ file' = [file EXCEPT ![Head(todo[p])] = entry] /\ Head(todo[p]) \in unsaved,
         RunningInv, UNCHANGED <<alone, lock, loaded, unsaved>>
  PROVE  AloneInv' /\ MismatchMeansInterrupted'
<1> DEFINE h == Head(todo[p])
<1>0. todo[Only] \in Seq(Ids) /\ todo[Only] # << >> /\ h = Head(todo[Only]) /\ TypeOK
  BY DEF Inv, TypeOK
<1>1. /\ h \in Ids /\ h \in Range(todo[Only]) /\ todo'[Only] = Tail(todo[Only])
      /\ Range(todo[Only]) = {h} \cup Range(todo'[Only])
  <2>1. todo'[Only] = Tail(todo[Only])
    BY <1>0, SourceDoneType
  <2>2. h \in Ids /\ Range(todo[Only]) = {h} \cup Range(Tail(todo[Only]))
    BY <1>0, RangeOfHeadTail
  <2> QED
    BY <2>1, <2>2
<1>2. /\ pc'[Only] = "get" /\ mem'[Only] = [mem[Only] EXCEPT ![h] = entry]
      /\ failed'[Only] = (failed[Only] \/ entry = "error") /\ mem[Only] \in Entries
  BY SourceDoneType DEF Inv, TypeOK
<1>3. \A s \in Ids : /\ s # h => mem'[Only][s] = mem[Only][s] /\ file'[s] = file[s]
                     /\ s = h => mem'[Only][s] = entry
  BY <1>1, <1>2 DEF Entries, Inv, TypeOK
<1>4. \A s \in Ids : s # h => (Handled(s)' <=> Handled(s))
  BY <1>1 DEF Handled
<1>5. \A s \in Ids : Settled(s)' /\ mem'[Only][s] \in Payloads => file'[s] \in {mem'[Only][s], "absent"}
  <2> SUFFICES ASSUME NEW s \in Ids, Settled(s)', mem'[Only][s] \in Payloads
               PROVE  file'[s] \in {mem'[Only][s], "absent"}
    OBVIOUS
  <2>1. CASE s = h
    BY <2>1, <1>1, <1>3, PayloadsAreDigests DEF Inv, TypeOK
  <2>2. CASE s # h
    BY <2>2, <1>3, <1>4 DEF Settled, RunningInv
  <2> QED
    BY <2>1, <2>2
<1>6. \A s \in Ids \ Range(loaded'[Only].sel) : mem'[Only][s] = loaded'[Only].entries[s]
  BY <1>1, <1>3 DEF RunningInv
<1>7. \A s \in Ids : Handled(s)' =>
        mem'[Only][s] \in Payloads \cup IF failed'[Only] THEN {"error"} ELSE {}
  BY <1>2, <1>3, <1>4 DEF RunningInv
<1>8. RunningInv'
  BY <1>1, <1>2, <1>5, <1>6, <1>7 DEF RunningInv
<1>9. (\A q \in Fetchers \ {Only} : pc'[q] = "idle") /\ mixed' = {}
  BY DEF Inv, AloneInv, SourceDone, TypeOK
<1>10. AloneInv'
  BY <1>8, <1>9 DEF AloneInv, Inv
<1>11. MismatchMeansInterrupted'
  BY <1>1, <1>3 DEF MismatchMeansInterrupted, Inv
<1> QED
  BY <1>10, <1>11

(* Under the policy of one fetch at a time, what a step of the running     *)
(* fetch does to its bookkeeping, and what it leaves on disk when it ends. *)
LEMMA AloneStep == Inv /\ alone /\ [Next]_vars => AloneInv' /\ MismatchMeansInterrupted'
<1> SUFFICES ASSUME Inv, alone, [Next]_vars PROVE AloneInv' /\ MismatchMeansInterrupted'
  OBVIOUS
<1>0. TypeOK /\ AloneInv /\ MismatchMeansInterrupted /\ Ids \cap {"lock", "none"} = {}
  BY SourcesAreIds DEF Inv, Ids
<1>1. ASSUME NEW p \in Fetchers, NEW sel \in Selections, Start(p, sel)
      PROVE  AloneInv' /\ MismatchMeansInterrupted'
  <2>1. p = Only /\ alone' /\ pc[Only] = "idle" /\ lock.state # "torn"
    <3>1. p = Only
      BY <1>1, Zenon DEF Start, Only
    <3> QED
      BY <1>1, <3>1 DEF Start
  <2>2. /\ todo'[Only] = sel /\ loaded'[Only] = [entries |-> lock.entries, sel |-> sel]
        /\ mem'[Only] = LoadedEntries /\ pc'[Only] = "get"
        /\ UNCHANGED <<lock, file, mixed, unsaved>>
        /\ \A q \in Fetchers \ {Only} : pc'[q] = pc[q]
    BY <1>0, <1>1, <2>1 DEF Start, TypeOK, disk
  <2>3. \A s \in Ids : ~ Handled(s)'
    BY <2>2 DEF Handled
  <2>4. LoadedEntries = lock.entries
    BY <1>0, <2>1 DEF LoadedEntries, AloneInv
  <2>5. \A s \in Ids : s \notin unsaved /\ lock.entries[s] \in Payloads =>
          file[s] \in {lock.entries[s], "absent"}
    <3>1. CASE lock.state = "whole"
      BY <1>0, <3>1 DEF MismatchMeansInterrupted
    <3>2. CASE lock.state = "absent"
      BY <1>0, <3>2, PayloadsAreDigests DEF AloneInv, NoEntries
    <3> QED
      BY <1>0, <2>1, <3>1, <3>2 DEF TypeOK
  <2>6. RunningInv'
    BY <2>2, <2>3, <2>4, <2>5 DEF RunningInv, Settled
  <2> QED
    BY <1>0, <2>1, <2>2, <2>6 DEF AloneInv, MismatchMeansInterrupted
<1>2. ASSUME NEW p \in Fetchers, NEW v \in Payloads, Download(p, v)
      PROVE  AloneInv' /\ MismatchMeansInterrupted'
  <2> DEFINE h == Head(todo[Only])
  <2>1. p = Only /\ RunningInv /\ alone' /\ todo[Only] # << >> /\ Only \in Fetchers
    BY <1>0, <1>2, AloneIsOnly DEF Download
  <2>2. h \in Ids /\ h \in Range(todo[Only])
    <3>1. todo[Only] \in Seq(Ids)
      BY <1>0, <2>1 DEF TypeOK
    <3> QED
      BY <2>1, <3>1, RangeOfHeadTail
  <2>3. /\ file' = [file EXCEPT ![h] = "torn"] /\ unsaved' = unsaved \cup {h}
        /\ pc'[Only] = "write" /\ UNCHANGED <<lock, todo, mem, failed, loaded>>
        /\ \A q \in Fetchers \ {Only} : pc'[q] = pc[q]
    BY <1>0, <1>2, <2>1 DEF Download, TypeOK
  <2>4. mixed' = {}
    BY <1>0, <1>2, <2>1, <2>2, AloneSharesNothing DEF Download
  <2>5. ASSUME NEW s \in Ids, Settled(s)' PROVE s # h /\ Settled(s)
    BY <2>2, <2>3, <2>5 DEF Settled, Handled
  <2>6. \A s \in Ids : s # h => file'[s] = file[s]
    BY <1>0, <2>3 DEF TypeOK
  <2>7. RunningInv'
    BY <2>1, <2>2, <2>3, <2>5, <2>6 DEF RunningInv, Handled
  <2>8. MismatchMeansInterrupted'
    BY <1>0, <2>3, <2>6 DEF MismatchMeansInterrupted
  <2> QED
    BY <1>0, <2>1, <2>3, <2>4, <2>7, <2>8 DEF AloneInv
<1>3. ASSUME NEW p \in Fetchers, NEW v \in Payloads, Written(p, v)
      PROVE  AloneInv' /\ MismatchMeansInterrupted'
  <2>1. p = Only /\ RunningInv /\ pc[p] = "write" /\ p \notin mixed
    BY <1>0, <1>3, AloneIsOnly DEF Written, AloneInv
  <2>2. todo[p] # << >> /\ Head(todo[p]) \in unsaved
    BY <1>0, <2>1 DEF TypeOK, RunningInv
  <2>3. file' = [file EXCEPT ![Head(todo[p])] = v]
    BY <1>3, <2>1 DEF Written
  <2> QED
    BY <1>3, <2>1, <2>2, <2>3, AloneSourceDone DEF Written
<1>4. ASSUME NEW p \in Fetchers, DownloadFails(p) PROVE AloneInv' /\ MismatchMeansInterrupted'
  <2>1. p = Only /\ RunningInv
    BY <1>0, <1>4, AloneIsOnly DEF DownloadFails
  <2>2. /\ SourceDone(p, "error") /\ todo[p] # << >>
        /\ mixed' = mixed /\ file' = file /\ UNCHANGED <<alone, lock, loaded, unsaved>>
    BY <1>4 DEF DownloadFails, disk
  <2> QED
    BY <2>1, <2>2, AloneSourceDone
<1>5. ASSUME NEW p \in Fetchers, WriteFails(p) PROVE AloneInv' /\ MismatchMeansInterrupted'
  <2>1. p = Only /\ RunningInv /\ todo[p] # << >>
    BY <1>0, <1>5, AloneIsOnly DEF WriteFails, TypeOK
  <2>2. /\ SourceDone(p, "error")
        /\ mixed' = mixed \ {p} /\ file' = file /\ UNCHANGED <<alone, lock, loaded, unsaved>>
    BY <1>5 DEF WriteFails
  <2> QED
    BY <2>1, <2>2, AloneSourceDone
<1>6. ASSUME NEW p \in Fetchers, Save(p) PROVE AloneInv' /\ MismatchMeansInterrupted'
  <2>1. p = Only /\ RunningInv /\ alone' /\ todo[Only] = << >> /\ Only \in Fetchers
    BY <1>0, <1>6, AloneIsOnly DEF Save
  <2>2. /\ pc'[Only] = "saving" /\ lock' = [state |-> "torn", entries |-> NoEntries]
        /\ UNCHANGED <<file, todo, mem, failed, loaded, unsaved>>
        /\ \A q \in Fetchers \ {Only} : pc'[q] = pc[q]
    BY <1>0, <1>6, <2>1 DEF Save, TypeOK
  <2>3. mixed' = {}
    BY <1>0, <1>6, <2>1, AloneSharesNothing DEF Save
  <2>4. RunningInv'
    BY <2>1, <2>2 DEF RunningInv, Settled, Handled
  <2> QED
    BY <1>0, <2>1, <2>2, <2>3, <2>4 DEF AloneInv, MismatchMeansInterrupted
<1>7. ASSUME NEW p \in Fetchers, p = Only, Ends(p), UNCHANGED alone
      PROVE  mixed' = {} /\ \A q \in Fetchers : pc'[q] = "idle"
  BY <1>0, <1>7 DEF Ends, AloneInv, TypeOK
<1>8. ASSUME NEW p \in Fetchers, Saved(p) PROVE AloneInv' /\ MismatchMeansInterrupted'
  <2>1. p = Only /\ RunningInv /\ pc[Only] = "saving" /\ todo[Only] = << >> /\ p \notin mixed
    BY <1>0, <1>8, AloneIsOnly DEF Saved, RunningInv, AloneInv
  <2>2. /\ lock' = [state |-> "whole", entries |-> mem[Only]] /\ UNCHANGED <<alone, file>>
        /\ unsaved' = unsaved \ Range(loaded[Only].sel)
    BY <1>8, <2>1 DEF Saved
  <2>3. \A s \in Ids \ unsaved' : Settled(s)
    BY <2>1, <2>2, EmptyRange DEF Settled, Handled
  <2>4. MismatchMeansInterrupted'
    BY <2>1, <2>2, <2>3 DEF MismatchMeansInterrupted, RunningInv
  <2> QED
    BY <1>7, <1>8, <2>1, <2>2, <2>4 DEF AloneInv, Saved
<1>9. ASSUME NEW p \in Fetchers, Crash(p) PROVE AloneInv' /\ MismatchMeansInterrupted'
  <2>1. p = Only
    BY <1>0, <1>9, AloneIsOnly DEF Crash
  <2> QED
    BY <1>0, <1>7, <1>9, <2>1 DEF AloneInv, Crash, MismatchMeansInterrupted
<1>10. ASSUME UNCHANGED <<disk, fetcher, loaded, unsaved>>
       PROVE  AloneInv' /\ MismatchMeansInterrupted'
  BY <1>0, <1>10
  DEF AloneInv, MismatchMeansInterrupted, RunningInv, Settled, Handled, disk, fetcher
<1>11. ASSUME NEW s \in Ids, Delete(s) PROVE AloneInv' /\ MismatchMeansInterrupted'
  <2>1. /\ file' = [file EXCEPT ![s] = "absent"]
        /\ UNCHANGED <<lock, mixed, fetcher, loaded, unsaved>>
    BY <1>11 DEF Delete
  <2>2. \A t \in Ids : file'[t] \in {file[t], "absent"}
    BY <1>0, <2>1 DEF TypeOK
  <2>3. RunningInv => RunningInv'
    BY <2>1, <2>2 DEF RunningInv, Settled, Handled, fetcher
  <2>4. AloneInv'
    BY <1>0, <2>1, <2>3 DEF AloneInv, fetcher
  <2>5. MismatchMeansInterrupted'
    BY <1>0, <2>1, <2>2 DEF MismatchMeansInterrupted, fetcher
  <2> QED
    BY <2>4, <2>5
<1>12. CASE Load \/ ReadSource \/ Loaded \/ Again \/ UNCHANGED vars
  BY <1>10, <1>12 DEF Load, ReadSource, Loaded, Again, vars
<1> QED
  BY <1>1, <1>2, <1>3, <1>4, <1>5, <1>6, <1>8, <1>9, <1>11, <1>12 DEF Next, Fetching

LEMMA InvStep == Inv /\ [Next]_vars => Inv'
<1> SUFFICES ASSUME Inv, [Next]_vars PROVE Inv'
  OBVIOUS
<1>1. TypeOK' /\ ReaderInv'
  BY TypeStep, ReaderInvStep DEF Inv
<1>2. UNCHANGED alone
  BY DEF Next, Start, Fetching, Download, Written, DownloadFails, WriteFails, Save, Saved, Crash,
         Load, ReadSource, Loaded, Again, Delete, fetcher, vars
<1>3. CASE alone
  BY <1>1, <1>3, AloneStep DEF Inv
<1>4. CASE ~ alone
  BY <1>1, <1>2, <1>4 DEF Inv, AloneInv, MismatchMeansInterrupted
<1> QED
  BY <1>3, <1>4

(* The bookkeeping behind the two properties holds in every reachable      *)
(* state.                                                                  *)
THEOREM InvHolds == Spec => []Inv
<1> QED
  BY InitInv, InvStep, PTL DEF Spec

(* load_external_documents: whatever fetches write, fail or die meanwhile, *)
(* an evaluation computes on nothing that is not in the lock it read and   *)
(* accounts for every source; and, one fetch at a time, only a fetch that  *)
(* died leaves a file that differs from its entry.                         *)
THEOREM CorpusStaysSound == Spec => []CorpusIsSound
<1>1. Inv => CorpusIsSound
  <2> SUFFICES ASSUME Inv PROVE DocumentsAreLocked /\ MismatchMeansInterrupted
    BY DEF CorpusIsSound
  <2>1. \A i \in DOMAIN reader.docs : reader.docs[i][2] \in Payloads
    BY DEF Inv, TypeOK, Readers
  <2>2. reader.pc = "loaded" =>
          Len(reader.docs) + reader.missing + reader.unfetched = Len(Sources)
    BY DEF Inv, TypeOK, ReaderInv, Readers
  <2> QED
    BY <2>1, <2>2 DEF Inv, DocumentsAreLocked, ReaderInv
<1> QED
  BY <1>1, InvHolds, PTL

(* save_lock: a fetch saves what it got for the sources it was asked for   *)
(* and leaves the entries of the others as they were.                      *)
THEOREM FetchSavesItsSelection == Spec => SavesSelection
<1>1. ASSUME Inv, [Next]_vars, NEW p \in Fetchers, alone, pc[p] = "saving", pc'[p] = "idle",
             lock'.state = "whole"
      PROVE  /\ p = Only /\ RunningInv /\ todo[Only] = << >> /\ lock'.entries = mem[Only]
  <2>1. p = Only /\ RunningInv /\ lock.state = "torn" /\ todo[Only] = << >>
    BY <1>1, AloneIsOnly DEF Inv, RunningInv
  <2>2. lock' # lock
    BY <1>1, <2>1
  <2>3. ~ \E q \in Fetchers : Save(q)
    BY <1>1, <2>1, AloneIsOnly DEF Save, Inv
  <2>4. PICK q \in Fetchers : Saved(q)
    BY <1>1, <2>2, <2>3 DEF Next, Start, Fetching, Download, Written, DownloadFails, WriteFails,
         Crash, Load, ReadSource, Loaded, Again, Delete, disk, vars
  <2>5. q = Only /\ q \notin mixed
    BY <1>1, <2>4, AloneIsOnly DEF Inv, AloneInv, Saved
  <2> QED
    BY <2>1, <2>4, <2>5 DEF Saved
<1>2. Inv /\ [Next]_vars =>
        [\A p \in Fetchers :
           (alone /\ pc[p] = "saving" /\ pc'[p] = "idle" /\ lock'.state = "whole") =>
             LET sel == Range(loaded[p].sel) IN
             \A s \in Ids :
               IF s \notin sel THEN lock'.entries[s] = loaded[p].entries[s]
               ELSE lock'.entries[s] \in
                      Payloads \cup IF failed[p] THEN {"error"} ELSE {}]_vars
  BY <1>1, EmptyRange DEF RunningInv, Handled
<1> QED
  BY <1>2, InvHolds, PTL DEF Spec, SavesSelection
-----------------------------------------------------------------------------
(***************************************************************************)
(* The commands.  The reports an evaluation computes of documents.         *)
(***************************************************************************)
Thresholds == Accepted \cup {"default"}

Reports == [label : {"human", "ai"}, genre : STRING, chars : Nat, findings : Nat]

(* The documents of a split are documents.                                 *)
LEMMA SplitIsList ==
  ASSUME NEW docs \in Seq(Documents), NEW split
  PROVE  OfSplit(docs, split) \in Seq(Documents)
BY ChosenFacts DEF OfSplit

(* There is a report for every document of the split, of what fires in it. *)
LEMMA EvaluateFacts ==
  ASSUME NEW docs \in Seq(Documents), NEW v \in Thresholds, NEW split
  PROVE  /\ Evaluate(docs, v, split) \in Seq(Reports)
         /\ Len(Evaluate(docs, v, split)) = Len(OfSplit(docs, split))
         /\ \A k \in 1 .. Len(OfSplit(docs, split)) :
              /\ Evaluate(docs, v, split)[k].label = OfSplit(docs, split)[k].label
              /\ Evaluate(docs, v, split)[k].findings = OfSplit(docs, split)[k].fires[v]
<1> DEFINE of == OfSplit(docs, split)
           R(k) == [label |-> of[k].label, genre |-> of[k].genre, chars |-> of[k].chars,
                    findings |-> of[k].fires[v]]
<1>1. of \in Seq(Documents) /\ Len(of) \in Nat /\ DOMAIN of = 1 .. Len(of)
  BY SplitIsList, LenProperties
<1>2. Evaluate(docs, v, split) = [k \in 1 .. Len(of) |-> R(k)]
  BY <1>1 DEF Evaluate
<1> HIDE DEF of
<1>3. ASSUME NEW k \in 1 .. Len(of) PROVE R(k) \in Reports
  <2>1. of[k] \in Documents
    BY <1>1, <1>3, ElementOfSeq
  <2>2. of[k].fires \in [Thresholds -> Nat]
    BY <2>1, Zenon DEF Documents, Thresholds
  <2>3. of[k].fires[v] \in Nat
    BY <2>2
  <2> QED BY <2>1, <2>3 DEF Documents, Reports
<1>4. [k \in 1 .. Len(of) |-> R(k)] \in [1 .. Len(of) -> Reports]
  <2> HIDE DEF R
  <2> QED BY <1>3
<1>5. Evaluate(docs, v, split) \in Seq(Reports) /\ Len(Evaluate(docs, v, split)) = Len(of)
  <2> DEFINE e == Evaluate(docs, v, split)
  <2>1. e \in [1 .. Len(of) -> Reports]
    BY <1>2, <1>4
  <2> HIDE DEF e
  <2>2. e \in Seq(Reports)
    BY <1>1, <2>1
  <2>3. DOMAIN e = 1 .. Len(e) /\ DOMAIN e = 1 .. Len(of) /\ Len(e) \in Nat
    BY <2>1, <2>2, LenProperties
  <2>4. Len(e) = Len(of)
    <3> DEFINE m == Len(e)
               n == Len(of)
    <3>1. m \in Nat /\ n \in Nat /\ 1 .. m = 1 .. n
      BY <1>1, <2>3
    <3> HIDE DEF m, n
    <3>2. m = n
      BY <3>1
    <3> QED BY <3>2 DEF m, n
  <2> QED BY <2>2, <2>4 DEF e
<1>6. \A k \in 1 .. Len(of) : /\ Evaluate(docs, v, split)[k].label = of[k].label
                              /\ Evaluate(docs, v, split)[k].findings = of[k].fires[v]
  BY <1>2
<1> QED BY <1>5, <1>6 DEF of

(* The numbers of a report are naturals.                                   *)
LEMMA LabelFacts ==
  ASSUME NEW reports \in Seq(Reports), NEW label
  PROVE  /\ OfLabel(reports, label) \in Seq(Reports)
         /\ LabelTotal(reports, label) \in Nat /\ Fires(reports, label) \in Nat
<1>1. OfLabel(reports, label) \in Seq(Reports)
  BY ChosenFacts DEF OfLabel
<1>2. LabelTotal(reports, label) \in Nat
  BY <1>1, LenProperties DEF LabelTotal
<1>3. Fires(reports, label) \in Nat
  <2> DEFINE of == OfLabel(reports, label)
             fired == {i \in DOMAIN of : of[i].findings > 0}
  <2>1. DOMAIN of = 1 .. Len(of) /\ Len(of) \in Nat
    BY <1>1, LenProperties
  <2>2. IsFiniteSet(fired)
    <3>1. IsFiniteSet(DOMAIN of)
      BY <2>1, FS_Interval
    <3>2. fired \subseteq DOMAIN of
      OBVIOUS
    <3> QED BY <3>1, <3>2, FS_Subset
  <2>3. Fires(reports, label) = Cardinality(fired)
    BY DEF Fires
  <2> QED BY <2>2, <2>3, FS_CardinalityType
<1> QED BY <1>1, <1>2, <1>3
-----------------------------------------------------------------------------
(* What does not lie in the development split decides nothing.             *)
LEMMA DevOfDev ==
  ASSUME NEW docs \in Seq(Documents)
  PROVE  OfSplit(DevOnly(docs), "dev") = OfSplit(docs, "dev")
<1> DEFINE places == {i \in DOMAIN docs : docs[i].split = "dev"}
           dev == Chosen(docs, places)
<1>1. DevOnly(docs) = dev /\ OfSplit(docs, "dev") = dev
  BY DEF DevOnly, OfSplit
<1>2. DOMAIN docs = 1 .. Len(docs) /\ Len(docs) \in Nat
  BY LenProperties
<1>3. dev \in Seq(Documents)
  BY ChosenFacts
<1>4. PICK ord : IsOrderOf(ord, dev, docs, places \cap (1 .. Len(docs)))
  <2> HIDE DEF places
  <2> QED BY ChosenFacts
<1>5. DOMAIN dev = 1 .. Len(dev)
  BY <1>3, LenProperties
<1>6. \A k \in 1 .. Len(dev) : dev[k].split = "dev"
  <2>1. \A k \in 1 .. Len(dev) : ord[k] \in places /\ dev[k] = docs[ord[k]]
    <3> HIDE DEF places, dev
    <3> QED BY <1>4 DEF IsOrderOf
  <2> HIDE DEF dev
  <2> QED BY <2>1
<1>7. OfSplit(dev, "dev") = Chosen(dev, {i \in DOMAIN dev : dev[i].split = "dev"})
  BY DEF OfSplit
<1> HIDE DEF dev
<1>8. Chosen(dev, {i \in DOMAIN dev : dev[i].split = "dev"}) = dev
  <2>1. 1 .. Len(dev) \subseteq {i \in DOMAIN dev : dev[i].split = "dev"}
    BY <1>5, <1>6
  <2> QED BY <1>3, <2>1, ChosenAll
<1> QED BY <1>1, <1>7, <1>8

(* The reports of the development split are those of it alone, and so is    *)
(* all that is computed of them.                                           *)
LEMMA EvaluateDev ==
  ASSUME NEW docs \in Seq(Documents), NEW v
  PROVE  Evaluate(DevOnly(docs), v, "dev") = Evaluate(docs, v, "dev")
BY DevOfDev DEF Evaluate

LEMMA HoldoutIsIgnored ==
  ASSUME NEW docs \in Seq(Documents)
  PROVE  /\ \A values : Sweep(DevOnly(docs), values) = Sweep(docs, values)
         /\ \A c : Calibrate(DevOnly(docs), c) = Calibrate(docs, c)
         /\ \A c : Vocab(DevOnly(docs), c) = Vocab(docs, c)
<1>1. \A v : Evaluate(DevOnly(docs), v, "dev") = Evaluate(docs, v, "dev")
  BY EvaluateDev
<1>2. ASSUME NEW values PROVE Sweep(DevOnly(docs), values) = Sweep(docs, values)
  BY <1>1 DEF Sweep
<1>3. ASSUME NEW values, NEW limit
      PROVE  Candidates(DevOnly(docs), values, limit) = Candidates(docs, values, limit)
  <2> DEFINE Judged(reports, i) ==
               [value     |-> values[i],
                detection |-> Fires(reports, "ai"),
                feasible  |-> UpperAtMost(Fires(reports, "human"), LabelTotal(reports, "human"), limit)]
  <2>1. \A d : Candidates(d, values, limit) =
                [i \in DOMAIN values |-> Judged(Evaluate(d, values[i], "dev"), i)]
    BY Zenon DEF Candidates
  <2>2. \A i : Judged(Evaluate(DevOnly(docs), values[i], "dev"), i) =
              Judged(Evaluate(docs, values[i], "dev"), i)
    <3> HIDE DEF Judged
    <3> QED BY <1>1
  <2> DEFINE L(i) == Judged(Evaluate(DevOnly(docs), values[i], "dev"), i)
             R(i) == Judged(Evaluate(docs, values[i], "dev"), i)
  <2>3. \A i : L(i) = R(i)
    BY <2>2, Zenon
  <2> DEFINE before == [i \in DOMAIN values |-> L(i)]
             after == [i \in DOMAIN values |-> R(i)]
  <2>4. Candidates(DevOnly(docs), values, limit) = before /\ Candidates(docs, values, limit) = after
    BY <2>1, Zenon
  <2>5. before = after
    <3> HIDE DEF L, R
    <3> QED BY <2>3
  <2> HIDE DEF before, after
  <2> QED BY <2>4, <2>5
<1>4. ASSUME NEW c PROVE Calibrate(DevOnly(docs), c) = Calibrate(docs, c)
  <2> DEFINE reports(d) == Evaluate(d, "default", "dev")
             usable(e) == \A label \in {"human", "ai"} : LabelTotal(e, label) >= MIN_SAMPLES
             result(e, cs) == IF OutOfRange(c.values) THEN [kind |-> "error"]
                              ELSE [kind |-> "calibrate", command |-> c, best |-> Best(cs),
                                    usable |-> usable(e)]
  <2>1. \A d : Calibrate(d, c) = result(reports(d), Candidates(d, c.values, c.limit))
    BY Zenon DEF Calibrate
  <2>2. reports(DevOnly(docs)) = reports(docs)
    BY <1>1
  <2>3. Candidates(DevOnly(docs), c.values, c.limit) = Candidates(docs, c.values, c.limit)
    BY <1>3
  <2> HIDE DEF result, reports
  <2> QED BY <2>1, <2>2, <2>3
<1>5. ASSUME NEW c PROVE Vocab(DevOnly(docs), c) = Vocab(docs, c)
  BY DevOfDev DEF Vocab
<1> QED BY <1>2, <1>4, <1>5
-----------------------------------------------------------------------------
(* No document of t fires more often than the one of s in its place.       *)
Quieter(t, s) ==
  /\ Len(t) = Len(s)
  /\ \A i \in 1 .. Len(s) :
       /\ t[i].label = s[i].label /\ t[i].split = s[i].split
       /\ \A v \in Thresholds : t[i].fires[v] <= s[i].fires[v]

(* A corpus with one document silenced is quieter.                         *)
LEMMA SilencedIsQuieter ==
  ASSUME NEW docs \in Seq(Documents), NEW i \in DOMAIN docs,
         NEW silent, silent = [docs EXCEPT ![i].fires = [v \in DOMAIN @ |-> 0]]
  PROVE  silent \in Seq(Documents) /\ Quieter(silent, docs)
<1> DEFINE n == Len(docs)
           none == [v \in DOMAIN docs[i].fires |-> 0]
           mute == [docs[i] EXCEPT !.fires = none]
<1>1. n \in Nat /\ DOMAIN docs = 1 .. n /\ \A k \in 1 .. n : docs[k] \in Documents
  BY LenProperties, ElementOfSeq
<1>2. docs[i] \in Documents /\ docs[i].fires \in [Thresholds -> Nat]
  <2>1. docs[i] \in Documents
    BY <1>1
  <2> QED BY <2>1 DEF Documents, Thresholds
<1>3. none \in [Thresholds -> Nat] /\ \A v \in Thresholds : none[v] = 0
  BY <1>2
<1>4. silent = [docs EXCEPT ![i] = mute]
  OBVIOUS
<1> HIDE DEF none
<1>5. /\ mute \in Documents /\ mute.fires = none
      /\ mute.label = docs[i].label /\ mute.split = docs[i].split
  BY <1>2, <1>3 DEF Documents, Thresholds
<1> HIDE DEF mute
<1>6. silent \in Seq(Documents) /\ Len(silent) = n
  BY <1>1, <1>4, <1>5, ExceptSeq
<1>7. silent[i] = mute /\ \A k \in 1 .. n : k # i => silent[k] = docs[k]
  BY <1>1, <1>4
<1>8. ASSUME NEW k \in 1 .. n
      PROVE  /\ silent[k].label = docs[k].label /\ silent[k].split = docs[k].split
             /\ \A v \in Thresholds : silent[k].fires[v] <= docs[k].fires[v]
  <2>1. docs[k].fires \in [Thresholds -> Nat]
    <3>1. docs[k] \in Documents
      BY <1>1
    <3> QED BY <3>1 DEF Documents, Thresholds
  <2>2. \A v \in Thresholds : docs[k].fires[v] \in Nat
    BY <2>1
  <2>3. CASE k = i
    <3>1. \A v \in Thresholds : silent[k].fires[v] = 0
      BY <1>3, <1>5, <1>7, <2>3
    <3> QED BY <1>5, <1>7, <2>2, <2>3, <3>1
  <2>4. CASE k # i
    BY <1>7, <2>2, <2>4
  <2> QED BY <2>3, <2>4
<1> QED BY <1>6, <1>8 DEF Quieter

(* The same documents lie in the development split, with the same labels.  *)
QuieterReports(f, e) ==
  /\ Len(f) = Len(e)
  /\ \A k \in 1 .. Len(e) : f[k].label = e[k].label /\ f[k].findings <= e[k].findings

LEMMA QuieterEvaluates ==
  ASSUME NEW s \in Seq(Documents), NEW t \in Seq(Documents), Quieter(t, s), NEW v \in Thresholds
  PROVE  QuieterReports(Evaluate(t, v, "dev"), Evaluate(s, v, "dev"))
<1> DEFINE n == Len(s)
           places == {i \in 1 .. n : s[i].split = "dev"}
           c == Chosen([i \in 1 .. n |-> i], places)
           ds == OfSplit(s, "dev")
           dt == OfSplit(t, "dev")
<1>1. n \in Nat /\ n = Len(t) /\ DOMAIN s = 1 .. n /\ DOMAIN t = 1 .. n
  BY LenProperties DEF Quieter
<1>2. places = {i \in DOMAIN s : s[i].split = "dev"} /\ places = {i \in DOMAIN t : t[i].split = "dev"}
  BY <1>1 DEF Quieter
<1>3. ds = Chosen(s, places) /\ dt = Chosen(t, places)
  <2>1. OfSplit(s, "dev") = Chosen(s, {i \in DOMAIN s : s[i].split = "dev"})
    BY DEF OfSplit
  <2>2. OfSplit(t, "dev") = Chosen(t, {i \in DOMAIN t : t[i].split = "dev"})
    BY DEF OfSplit
  <2> QED BY <1>2, <2>1, <2>2
<1> HIDE DEF places, ds, dt
<1>4. /\ c \in Seq(1 .. n) /\ Len(ds) = Len(c) /\ Len(dt) = Len(c)
      /\ \A k \in 1 .. Len(c) : ds[k] = s[c[k]] /\ dt[k] = t[c[k]]
  <2> HIDE DEF n
  <2>1. c = Chosen([i \in 1 .. n |-> i], places)
    OBVIOUS
  <2> HIDE DEF c
  <2>2. /\ c \in Seq(1 .. n) /\ Len(Chosen(s, places)) = Len(c)
        /\ \A k \in 1 .. Len(c) : Chosen(s, places)[k] = s[c[k]]
    BY <1>1, <2>1, ChosenByPosition DEF n
  <2>3. /\ Len(Chosen(t, places)) = Len(c)
        /\ \A k \in 1 .. Len(c) : Chosen(t, places)[k] = t[c[k]]
    BY <1>1, <2>1, ChosenByPosition
  <2> QED BY <1>3, <2>2, <2>3
<1> HIDE DEF c
<1>5. ASSUME NEW k \in 1 .. Len(c)
      PROVE  dt[k].label = ds[k].label /\ dt[k].fires[v] <= ds[k].fires[v]
  <2>1. c[k] \in 1 .. n
    BY <1>4, ElementOfSeq
  <2> QED BY <1>4, <2>1 DEF Quieter
<1>6. /\ Len(Evaluate(s, v, "dev")) = Len(c) /\ Len(Evaluate(t, v, "dev")) = Len(c)
      /\ \A k \in 1 .. Len(c) :
           /\ Evaluate(s, v, "dev")[k].label = ds[k].label
           /\ Evaluate(s, v, "dev")[k].findings = ds[k].fires[v]
           /\ Evaluate(t, v, "dev")[k].label = dt[k].label
           /\ Evaluate(t, v, "dev")[k].findings = dt[k].fires[v]
  BY <1>4, EvaluateFacts DEF ds, dt
<1> QED BY <1>5, <1>6 DEF QuieterReports

(* Of a label no more documents fire.                                      *)
LEMMA QuieterFires ==
  ASSUME NEW e \in Seq(Reports), NEW f \in Seq(Reports), QuieterReports(f, e), NEW label
  PROVE  LabelTotal(f, label) = LabelTotal(e, label) /\ Fires(f, label) <= Fires(e, label)
<1> DEFINE n == Len(e)
           places == {i \in 1 .. n : e[i].label = label}
           c == Chosen([i \in 1 .. n |-> i], places)
           le == OfLabel(e, label)
           lf == OfLabel(f, label)
<1>1. n \in Nat /\ n = Len(f) /\ DOMAIN e = 1 .. n /\ DOMAIN f = 1 .. n
  BY LenProperties DEF QuieterReports
<1>2. places = {i \in DOMAIN e : e[i].label = label} /\ places = {i \in DOMAIN f : f[i].label = label}
  BY <1>1 DEF QuieterReports
<1>3. le = Chosen(e, places) /\ lf = Chosen(f, places)
  BY <1>2 DEF OfLabel
<1>4. le \in Seq(Reports) /\ lf \in Seq(Reports)
  BY LabelFacts
<1> HIDE DEF places, le, lf
<1>5. /\ c \in Seq(1 .. n) /\ Len(le) = Len(c) /\ Len(lf) = Len(c)
      /\ \A k \in 1 .. Len(c) : le[k] = e[c[k]] /\ lf[k] = f[c[k]]
  <2> HIDE DEF n
  <2>1. c = Chosen([i \in 1 .. n |-> i], places)
    OBVIOUS
  <2> HIDE DEF c
  <2>2. /\ c \in Seq(1 .. n) /\ Len(Chosen(e, places)) = Len(c)
        /\ \A k \in 1 .. Len(c) : Chosen(e, places)[k] = e[c[k]]
    BY <1>1, <2>1, ChosenByPosition DEF n
  <2>3. /\ Len(Chosen(f, places)) = Len(c)
        /\ \A k \in 1 .. Len(c) : Chosen(f, places)[k] = f[c[k]]
    BY <1>1, <2>1, ChosenByPosition
  <2> QED BY <1>3, <2>2, <2>3
<1> HIDE DEF c
<1>6. Len(c) \in Nat /\ DOMAIN le = 1 .. Len(c) /\ DOMAIN lf = 1 .. Len(c)
  BY <1>4, <1>5, LenProperties
<1>7. \A k \in 1 .. Len(c) : lf[k].findings <= le[k].findings /\ lf[k].findings \in Nat /\ le[k].findings \in Nat
  <2> SUFFICES ASSUME NEW k \in 1 .. Len(c)
               PROVE  lf[k].findings <= le[k].findings /\ lf[k].findings \in Nat /\ le[k].findings \in Nat
    OBVIOUS
  <2>1. c[k] \in 1 .. n
    BY <1>5, ElementOfSeq
  <2>2. lf[k] \in Reports /\ le[k] \in Reports
    BY <1>4, <1>5, ElementOfSeq
  <2> QED BY <1>5, <2>1, <2>2 DEF QuieterReports, Reports
<1> DEFINE firedE == {i \in DOMAIN le : le[i].findings > 0}
           firedF == {i \in DOMAIN lf : lf[i].findings > 0}
<1>8. firedF \subseteq firedE /\ firedE \subseteq 1 .. Len(c)
  BY <1>6, <1>7
<1>9. Fires(e, label) = Cardinality(firedE) /\ Fires(f, label) = Cardinality(firedF)
  BY DEF Fires, le, lf
<1>10. LabelTotal(e, label) = Len(le) /\ LabelTotal(f, label) = Len(lf)
  BY DEF LabelTotal, le, lf
<1> HIDE DEF firedE, firedF
<1>11. IsFiniteSet(firedE)
  <2>1. IsFiniteSet(1 .. Len(c))
    BY <1>6, FS_Interval
  <2> QED BY <1>8, <2>1, FS_Subset
<1>12. Cardinality(firedF) <= Cardinality(firedE)
  BY <1>8, <1>11, FS_Subset
<1> QED BY <1>5, <1>9, <1>10, <1>12

(* The Wilson bound grows with the documents that fire.                    *)
LEMMA BoundGrows ==
  ASSUME NEW fired \in Nat, NEW fewer \in Nat, fewer <= fired, NEW total \in Nat,
         NEW limit \in 0 .. 10, UpperAtMost(fired, total, limit)
  PROVE  UpperAtMost(fewer, total, limit)
<1>1. CASE total = 0
  BY <1>1 DEF UpperAtMost
<1>2. CASE total # 0
  <2> DEFINE whole == limit * total
             less == whole - 10 * fired
             more == whole - 10 * fewer
             least == 38416 * total * limit * (10 - limit)
  <2>1. limit \in Int /\ whole \in Int
    OBVIOUS
  <2>2. /\ 10 * fired <= whole /\ 10000 * less * less >= least
        /\ 10 * fewer <= whole /\ 10000 * more * more >= least => UpperAtMost(fewer, total, limit)
    BY <1>2 DEF UpperAtMost
  <2>3. least \in Int
    <3>1. total * limit \in Int /\ 38416 * total \in Int
      OBVIOUS
    <3>2. 38416 * total * limit \in Int /\ 10 - limit \in Int
      BY <2>1, <3>1
    <3> QED BY <3>2
  <2> HIDE DEF whole, least
  <2>4. less \in Nat /\ more \in Nat /\ less <= more /\ 10 * fewer <= whole
    BY <2>1, <2>2
  <2> HIDE DEF less, more
  <2>5. more * more >= less * less
    <3>1. PICK d \in Nat : more = less + d
      <4>1. more - less \in Nat /\ more = less + (more - less)
        BY <2>4
      <4> QED BY <4>1
    <3>2. more * more = less * less + 2 * (less * d) + d * d
      BY <2>4, <3>1
    <3>3. less * d \in Nat /\ d * d \in Nat /\ less * less \in Nat
      BY <2>4, <3>1
    <3> QED BY <3>2, <3>3
  <2>6. 10000 * more * more >= 10000 * less * less
    <3>1. 10000 * more * more = 10000 * (more * more) /\ 10000 * less * less = 10000 * (less * less)
      BY <2>4
    <3>2. more * more \in Nat /\ less * less \in Nat
      BY <2>4
    <3> QED BY <2>5, <3>1, <3>2
  <2>7. 10000 * more * more >= least
    <3>1. 10000 * more * more \in Int /\ 10000 * less * less \in Int
      <4>1. 10000 * more \in Int /\ 10000 * less \in Int
        BY <2>4
      <4> QED BY <2>4, <4>1
    <3> QED BY <2>2, <2>3, <2>6, <3>1
  <2> QED BY <2>2, <2>4, <2>7
<1> QED BY <1>1, <1>2
-----------------------------------------------------------------------------
(* The candidates for the values of a command.                             *)
KeepsLimit(reports, limit) ==
  UpperAtMost(Fires(reports, "human"), LabelTotal(reports, "human"), limit)

(* A candidate is accepted, and feasible if its reports keep the limit.     *)
LEMMA CandidateFacts ==
  ASSUME NEW docs \in Seq(Documents), NEW values \in Seq(STRING), ~OutOfRange(values),
         NEW limit \in 0 .. 10, NEW cs, cs = Candidates(docs, values, limit)
  PROVE  /\ DOMAIN cs = 1 .. Len(values) /\ Len(values) \in Nat
         /\ \A i \in 1 .. Len(values) :
              /\ values[i] \in Thresholds /\ cs[i].detection \in Nat
              /\ cs[i].feasible <=> KeepsLimit(Evaluate(docs, values[i], "dev"), limit)
<1>1. DOMAIN values = 1 .. Len(values) /\ Len(values) \in Nat
  BY LenProperties
<1>2. DOMAIN cs = 1 .. Len(values)
  BY <1>1 DEF Candidates
<1>3. ASSUME NEW i \in 1 .. Len(values)
      PROVE  /\ values[i] \in Thresholds /\ cs[i].detection \in Nat
             /\ cs[i].feasible <=> KeepsLimit(Evaluate(docs, values[i], "dev"), limit)
  <2> DEFINE reports == Evaluate(docs, values[i], "dev")
  <2>1. values[i] \in Thresholds
    BY <1>1 DEF OutOfRange, Thresholds
  <2>2. reports \in Seq(Reports)
    BY <2>1, EvaluateFacts
  <2>3. cs[i].detection = Fires(reports, "ai")
    BY <1>1 DEF Candidates
  <2>4. cs[i].feasible = KeepsLimit(reports, limit)
    BY <1>1, Zenon DEF Candidates, KeepsLimit
  <2> HIDE DEF reports
  <2>5. cs[i].detection \in Nat
    BY <2>2, <2>3, LabelFacts
  <2> QED BY <2>1, <2>4, <2>5 DEF reports
<1> QED BY <1>1, <1>2, <1>3

(* A candidate that keeps the limit keeps it when documents fire less.     *)
LEMMA QuieterKeeps ==
  ASSUME NEW s \in Seq(Documents), NEW t \in Seq(Documents), Quieter(t, s),
         NEW values \in Seq(STRING), ~OutOfRange(values), NEW limit \in 0 .. 10
  PROVE  Feasible(Candidates(s, values, limit)) \subseteq Feasible(Candidates(t, values, limit))
<1> SUFFICES ASSUME NEW i \in Feasible(Candidates(s, values, limit))
             PROVE  i \in Feasible(Candidates(t, values, limit))
  OBVIOUS
<1> DEFINE cs == Candidates(s, values, limit)
           ct == Candidates(t, values, limit)
           e == Evaluate(s, values[i], "dev")
           f == Evaluate(t, values[i], "dev")
<1>1. i \in DOMAIN cs /\ cs[i].feasible
  BY DEF Feasible
<1>2. /\ i \in 1 .. Len(values) /\ values[i] \in Thresholds
      /\ cs[i].feasible <=> KeepsLimit(e, limit)
  BY <1>1, CandidateFacts
<1>3. i \in DOMAIN ct /\ (ct[i].feasible <=> KeepsLimit(f, limit))
  BY <1>2, CandidateFacts
<1>4. e \in Seq(Reports) /\ f \in Seq(Reports) /\ QuieterReports(f, e)
  BY <1>2, EvaluateFacts, QuieterEvaluates
<1> HIDE DEF e, f, cs, ct
<1>5. /\ LabelTotal(f, "human") = LabelTotal(e, "human") /\ Fires(f, "human") <= Fires(e, "human")
      /\ LabelTotal(e, "human") \in Nat /\ Fires(e, "human") \in Nat /\ Fires(f, "human") \in Nat
  BY <1>4, LabelFacts, QuieterFires
<1>6. KeepsLimit(f, limit)
  <2>1. UpperAtMost(Fires(e, "human"), LabelTotal(e, "human"), limit)
    BY <1>1, <1>2 DEF KeepsLimit
  <2>2. UpperAtMost(Fires(f, "human"), LabelTotal(e, "human"), limit)
    BY <1>5, <2>1, BoundGrows
  <2> QED BY <1>5, <2>2 DEF KeepsLimit
<1> QED BY <1>3, <1>6 DEF Feasible, ct

(* Best takes one of the feasible candidates that detect most.             *)
LEMMA BestFacts ==
  ASSUME NEW n \in Nat, NEW cs, DOMAIN cs = 1 .. n, \A i \in 1 .. n : cs[i].detection \in Nat
  PROVE  /\ Feasible(cs) = {} => Best(cs) = NoCandidate
         /\ Feasible(cs) # {} =>
              \E i \in Feasible(cs) :
                Best(cs) = cs[i] /\ \A j \in Feasible(cs) : cs[j].detection <= cs[i].detection
<1> DEFINE F == Feasible(cs)
           d(i) == cs[i].detection
           M == {i \in F : \A j \in F : d(j) <= d(i)}
<1>1. F \subseteq 1 .. n
  BY DEF Feasible
<1>2. F = {} => Best(cs) = NoCandidate
  BY DEF Best
<1>3. F # {} => Best(cs) = cs[Max(M)]
  BY Zenon DEF Best
<1> HIDE DEF F
<1>4. ASSUME F # {} PROVE \E i \in F : Best(cs) = cs[i] /\ \A j \in F : d(j) <= d(i)
  <2>1. PICK b \in Nat : \A i \in 1 .. n : d(i) <= b
    <3> DEFINE Good == {i \in 0 .. n : \E b \in Nat : \A j \in 1 .. i : d(j) <= b}
    <3>1. 0 \in Good
      <4>1. 0 \in Nat /\ \A j \in 1 .. 0 : d(j) <= 0
        OBVIOUS
      <4>2. \E b \in Nat : \A j \in 1 .. 0 : d(j) <= b
        BY <4>1
      <4> QED BY <4>2
    <3>2. ASSUME NEW i \in 0 + 1 .. n, i - 1 \in Good PROVE i \in Good
      <4>1. i \in 1 .. n /\ i \in 0 .. n
        OBVIOUS
      <4>2. PICK b \in Nat : \A j \in 1 .. i - 1 : d(j) <= b
        BY <3>2
      <4>3. d(i) \in Nat /\ \A j \in 1 .. i : d(j) \in Nat /\ (j = i \/ j \in 1 .. i - 1)
        <5>1. \A j \in 1 .. i : j \in 1 .. n /\ (j = i \/ j \in 1 .. i - 1)
          BY <4>1
        <5>2. \A j \in 1 .. n : d(j) \in Nat
          OBVIOUS
        <5> HIDE DEF d
        <5> QED BY <4>1, <5>1, <5>2
      <4>4. b + d(i) \in Nat /\ \A j \in 1 .. i : d(j) <= b + d(i)
        <5> HIDE DEF d
        <5> QED BY <4>2, <4>3
      <4>5. \E m \in Nat : \A j \in 1 .. i : d(j) <= m
        <5> HIDE DEF d
        <5> QED BY <4>4
      <4> QED BY <4>1, <4>5
    <3>3. 0 \in Nat /\ (0 <= n => 0 \in Good)
      BY <3>1
    <3>4. \A i \in 0 .. n : i \in Good
      <4> HIDE DEF Good
      <4> QED BY <3>2, <3>3, ByStep
    <3>5. n \in Good
      <4> HIDE DEF Good
      <4> QED BY <3>4
    <3> HIDE DEF d
    <3> QED BY <3>5
  <2> DEFINE D == {d(i) : i \in F}
  <2>2. D \subseteq 0 .. b /\ D # {}
    <3>1. \A i \in F : d(i) \in 0 .. b
      BY <1>1, <2>1
    <3> HIDE DEF d
    <3> QED BY <1>4, <3>1
  <2>3. PICK x \in D : \A y \in D : x >= y
    <3> HIDE DEF D
    <3> QED BY <2>2, GreatestOf
  <2>4. PICK i \in F : x = d(i)
    <3> HIDE DEF d
    <3> QED BY <2>3
  <2>5. \A j \in F : d(j) <= d(i)
    <3>1. \A j \in F : d(j) \in D
      <4> HIDE DEF d
      <4> QED OBVIOUS
    <3>2. \A j \in F : d(j) \in Nat
      BY <1>1
    <3> HIDE DEF d, D
    <3> QED BY <2>3, <2>4, <3>1, <3>2
  <2>6. M \subseteq 0 .. n /\ M # {}
    <3>1. i \in M
      <4> HIDE DEF d
      <4> QED BY <2>5
    <3>2. M \subseteq F
      <4> HIDE DEF d
      <4> QED OBVIOUS
    <3> HIDE DEF M
    <3> QED BY <1>1, <3>1, <3>2
  <2>7. Max(M) \in M
    <3> HIDE DEF M
    <3>1. \E k \in M : \A y \in M : k >= y
      BY <2>6, GreatestOf
    <3> QED BY <3>1, Zenon DEF Max
  <2> DEFINE k == Max(M)
  <2>8. k \in F /\ Best(cs) = cs[k] /\ \A j \in F : d(j) <= d(k)
    <3> HIDE DEF d, k
    <3>1. k \in M /\ Best(cs) = cs[k]
      BY <1>3, <1>4, <2>7 DEF k
    <3> QED BY <3>1
  <2> HIDE DEF k
  <2> QED BY <2>8
<1> QED BY <1>2, <1>4 DEF F
-----------------------------------------------------------------------------
(* What was printed was computed of the corpus as it is.                   *)
CommandsInv ==
  /\ documents \in Seq(Documents) /\ external \in Seq(Documents)
  /\ Calibrated => /\ out.command \in Commands /\ out.command.name = "calibrate"
                   /\ ~OutOfRange(out.command.values)
                   /\ out = Calibrate(DocumentsOf(out.command), out.command)
  /\ out.kind = "sweep" => out.lines = Sweep(documents, out.command.values)
  /\ out.kind = "vocab" => out = Vocab(DocumentsOf(out.command), out.command)

(* The documents calibrate and vocab begin with are documents.             *)
LEMMA DocumentsOfAreList ==
  ASSUME documents \in Seq(Documents), external \in Seq(Documents), NEW c
  PROVE  DocumentsOf(c) \in Seq(Documents)
<1> DEFINE all == documents \o IF c.external THEN external ELSE << >>
           places == {i \in DOMAIN all : ~ (c.exclude /\ all[i].prefixed)}
<1>1. (IF c.external THEN external ELSE << >>) \in Seq(Documents)
  BY EmptySeq
<1>2. all \in Seq(Documents)
  BY <1>1, ConcatProperties
<1>3. DocumentsOf(c) = Chosen(all, places)
  BY Zenon DEF DocumentsOf
<1> HIDE DEF all, places
<1> QED BY <1>2, <1>3, ChosenFacts

(* What kind of output a command gives.                                    *)
LEMMA OutputKinds ==
  /\ \A c : SweepOf(c).kind = "error"
              \/ /\ SweepOf(c).kind = "sweep" /\ SweepOf(c).command = c
                 /\ SweepOf(c).lines = Sweep(documents, c.values)
  /\ \A docs, c : \/ Calibrate(docs, c).kind = "error"
                  \/ /\ Calibrate(docs, c).kind = "calibrate" /\ Calibrate(docs, c).command = c
                     /\ ~OutOfRange(c.values)
                     /\ Calibrate(docs, c).best = Best(Candidates(docs, c.values, c.limit))
  /\ \A docs, split : Report(docs, split).kind = "report"
  /\ \A docs : LengthAnalysis(docs).kind = "lengths"
  /\ \A ss : Labeled(ss).kind \in {"error", "labeled"}
  /\ \A docs, c : Vocab(docs, c).kind = "vocab" /\ Vocab(docs, c).command = c
<1>1. ASSUME NEW c
      PROVE  SweepOf(c).kind = "error"
              \/ /\ SweepOf(c).kind = "sweep" /\ SweepOf(c).command = c
                 /\ SweepOf(c).lines = Sweep(documents, c.values)
  BY DEF SweepOf
<1>2. ASSUME NEW docs, NEW c
      PROVE  \/ Calibrate(docs, c).kind = "error"
             \/ /\ Calibrate(docs, c).kind = "calibrate" /\ Calibrate(docs, c).command = c
                /\ ~OutOfRange(c.values)
                /\ Calibrate(docs, c).best = Best(Candidates(docs, c.values, c.limit))
  <2> DEFINE usable == \A label \in {"human", "ai"} :
                         LabelTotal(Evaluate(docs, "default", "dev"), label) >= MIN_SAMPLES
  <2>1. Calibrate(docs, c) = IF OutOfRange(c.values) THEN [kind |-> "error"]
                             ELSE [kind |-> "calibrate", command |-> c,
                                   best |-> Best(Candidates(docs, c.values, c.limit)),
                                   usable |-> usable]
    BY Zenon DEF Calibrate
  <2> HIDE DEF usable
  <2> QED BY <2>1
<1>3. \A docs, split : Report(docs, split).kind = "report"
  BY DEF Report
<1>4. \A docs : LengthAnalysis(docs).kind = "lengths"
  BY DEF LengthAnalysis
<1>5. \A ss : Labeled(ss).kind \in {"error", "labeled"}
  BY DEF Labeled
<1>6. \A docs, c : Vocab(docs, c).kind = "vocab" /\ Vocab(docs, c).command = c
  BY DEF Vocab
<1> QED BY <1>1, <1>2, <1>3, <1>4, <1>5, <1>6

(* CommandsInv holds before a command, every command keeps it, and it says  *)
(* what the property says.                                                  *)
LEMMA CommandsInvInit == EvaluationInit => CommandsInv
<1> SUFFICES ASSUME EvaluationInit PROVE CommandsInv
  OBVIOUS
<1>1. PICK c \in Corpora : documents = c.documents /\ external = c.external
  BY DEF EvaluationInit
<1>2. documents \in Seq(Documents) /\ external \in Seq(Documents)
  BY <1>1, CorporaAreLists
<1>3. out.kind = "nothing"
  BY DEF EvaluationInit
<1> QED BY <1>2, <1>3 DEF CommandsInv, Calibrated

LEMMA CommandsInvStep == CommandsInv /\ [EvaluationNext]_evaluationVars => CommandsInv'
<1> SUFFICES ASSUME CommandsInv, [EvaluationNext]_evaluationVars PROVE CommandsInv'
  OBVIOUS
<1>1. CASE UNCHANGED evaluationVars
  BY <1>1 DEF CommandsInv, evaluationVars, Calibrated, DocumentsOf
<1>2. CASE EvaluationNext
  <2>1. /\ documents' = documents /\ external' = external
        /\ documents' \in Seq(Documents) /\ external' \in Seq(Documents)
    BY <1>2 DEF EvaluationNext, Run, CommandsInv
  <2>2. \A c : DocumentsOf(c)' = DocumentsOf(c)
    BY <2>1 DEF DocumentsOf
  <2>3. PICK c \in Commands :
          \/ Run(c, "sweep", SweepOf(c))
          \/ Run(c, "calibrate", Calibrate(DocumentsOf(c), c))
          \/ out'.kind \in {"report", "lengths", "labeled", "error"}
          \/ Run(c, "vocab", Vocab(DocumentsOf(c), c))
    BY <1>2, OutputKinds DEF EvaluationNext, Run
  <2>4. CASE Run(c, "sweep", SweepOf(c))
    <3>1. out' = SweepOf(c)
      BY <2>4 DEF Run
    <3>2. out'.kind = "error" \/ (out'.kind = "sweep" /\ out'.lines = Sweep(documents, out'.command.values))
      BY <3>1, OutputKinds
    <3> QED BY <2>1, <3>2 DEF CommandsInv, Calibrated
  <2>5. CASE Run(c, "calibrate", Calibrate(DocumentsOf(c), c))
    <3>1. out' = Calibrate(DocumentsOf(c), c) /\ c.name = "calibrate"
      BY <2>5 DEF Run
    <3>2. \/ out'.kind = "error"
          \/ out'.kind = "calibrate" /\ out'.command = c /\ ~OutOfRange(c.values)
      BY <3>1, OutputKinds
    <3> QED BY <2>1, <2>2, <3>1, <3>2 DEF CommandsInv, Calibrated
  <2>6. CASE out'.kind \in {"report", "lengths", "labeled", "error"}
    BY <2>1, <2>6 DEF CommandsInv, Calibrated
  <2>7. CASE Run(c, "vocab", Vocab(DocumentsOf(c), c))
    <3>1. out' = Vocab(DocumentsOf(c), c)
      BY <2>7 DEF Run
    <3>2. out'.kind = "vocab" /\ out'.command = c
      BY <3>1, OutputKinds
    <3> QED BY <2>1, <2>2, <3>1, <3>2 DEF CommandsInv, Calibrated
  <2> QED BY <2>3, <2>4, <2>5, <2>6, <2>7
<1> QED BY <1>1, <1>2

LEMMA RecommendationFromInv == CommandsInv => RecommendationIsSound
<1> SUFFICES ASSUME CommandsInv PROVE RecommendationIsSound
  OBVIOUS
<1> DEFINE c == out.command
           docs == DocumentsOf(c)
           cs == Candidates(docs, c.values, c.limit)
<1>1. docs \in Seq(Documents) /\ documents \in Seq(Documents)
  BY DocumentsOfAreList DEF CommandsInv
<1>2. ASSUME Calibrated
      PROVE  /\ c.values \in Seq(STRING) /\ c.limit \in 0 .. 10 /\ ~OutOfRange(c.values)
             /\ out.best = Best(cs) /\ out = Calibrate(docs, c)
  <2>1. out = Calibrate(docs, c) /\ ~OutOfRange(c.values) /\ c \in Commands /\ c.name = "calibrate"
    BY <1>2 DEF CommandsInv
  <2>2. out.best = Best(cs)
    BY <1>2, <2>1, OutputKinds DEF Calibrated
  <2> QED BY <2>1, <2>2, ValuesAreLists
<1>3. RecommendedIsBest
  <2> SUFFICES ASSUME Calibrated
               PROVE  LET kept == {k \in Range(cs) : k.feasible}
                      IN IF kept = {} THEN out.best = NoCandidate
                         ELSE out.best \in kept /\ \A k \in kept : k.detection <= out.best.detection
    BY DEF RecommendedIsBest, CandidatesOf
  <2> DEFINE kept == {k \in Range(cs) : k.feasible}
             n == Len(c.values)
  <2>1. n \in Nat /\ DOMAIN cs = 1 .. n /\ \A i \in 1 .. n : cs[i].detection \in Nat
    <3> DEFINE values == c.values
               limit == c.limit
    <3>1. values \in Seq(STRING) /\ limit \in 0 .. 10 /\ ~OutOfRange(values)
      BY <1>2
    <3>2. cs = Candidates(docs, values, limit)
      OBVIOUS
    <3> HIDE DEF cs, docs, c, values, limit
    <3>3. /\ DOMAIN cs = 1 .. Len(values) /\ Len(values) \in Nat
          /\ \A i \in 1 .. Len(values) : cs[i].detection \in Nat
      BY <1>1, <3>1, <3>2, CandidateFacts
    <3> QED BY <3>3 DEF values
  <2>2. out.best = Best(cs)
    BY <1>2
  <2> HIDE DEF cs, n
  <2>3. kept = {cs[i] : i \in Feasible(cs)}
    BY DEF Feasible, Range
  <2>4. CASE Feasible(cs) = {}
    BY <2>1, <2>2, <2>3, <2>4, BestFacts
  <2>5. CASE Feasible(cs) # {}
    <3>1. PICK i \in Feasible(cs) :
            Best(cs) = cs[i] /\ \A j \in Feasible(cs) : cs[j].detection <= cs[i].detection
      BY <2>1, <2>5, BestFacts
    <3> QED BY <2>2, <2>3, <3>1
  <2> QED BY <2>4, <2>5
<1>4. SilenceKeepsFeasible
  <2> SUFFICES ASSUME Calibrated, NEW i \in DOMAIN docs, NEW silent,
                      silent = [docs EXCEPT ![i].fires = [v \in DOMAIN @ |-> 0]]
               PROVE  Feasible(cs) \subseteq Feasible(Candidates(silent, c.values, c.limit))
    BY Zenon DEF SilenceKeepsFeasible, CandidatesOf
  <2>1. silent \in Seq(Documents) /\ Quieter(silent, docs)
    <3> HIDE DEF docs
    <3> QED BY <1>1, SilencedIsQuieter
  <2> HIDE DEF docs, c
  <2> QED BY <1>1, <1>2, <2>1, QuieterKeeps
<1>5. HoldoutNeverDecides
  <2>1. Calibrated => out = Calibrate(DevOnly(docs), c)
    BY <1>1, <1>2, HoldoutIsIgnored
  <2>2. out.kind = "sweep" => out.lines = Sweep(DevOnly(documents), c.values)
    BY <1>1, HoldoutIsIgnored DEF CommandsInv
  <2>3. out.kind = "vocab" => out = Vocab(DevOnly(docs), c)
    BY <1>1, HoldoutIsIgnored DEF CommandsInv
  <2> QED BY <2>1, <2>2, <2>3 DEF HoldoutNeverDecides
<1> QED BY <1>3, <1>4, <1>5 DEF RecommendationIsSound

(* calibrate recommends a threshold that keeps the constraint and detects  *)
(* most of those that do, a false alarm less never takes a threshold out   *)
(* of them, and the holdout split decides no threshold, count or word, for *)
(* any corpora, values, limits and lists of phrases.                       *)
THEOREM RecommendationStaysSound == EvaluationSpec => []RecommendationIsSound
BY CommandsInvInit, CommandsInvStep, RecommendationFromInv, PTL DEF EvaluationSpec
=============================================================================

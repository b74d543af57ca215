--------------------------- MODULE ExternalCorpus ---------------------------
(***************************************************************************)
(* The external documents of the evaluation: fetch_corpus downloads pages  *)
(* to one file each and records their digests in one lock file; the        *)
(* evaluations read the lock and use the files whose digest is in it.      *)
(* Several fetches and one evaluation may run at the same time, each may   *)
(* die between two steps, and fs::write truncates before it writes.        *)
(***************************************************************************)
EXTENDS Naturals, Sequences, SequencesExt

CONSTANTS
  Sources,     (* ids of the web sources in the order of sources.toml      *)
  Fetchers,    (* processes that may run fetch                             *)
  Payloads,    (* what a page can yield; stands for its digest as well     *)
  MaxRuns,     (* bound on the fetches started one at a time               *)
  MaxShared,   (* bound on the fetches started at any time                 *)
  MaxLoads     (* bound on the evaluations started beside shared fetches   *)

(* What stands for a path, a state of a file or an entry is no id and no   *)
(* payload.                                                                *)
ASSUME SourcesAreIds ==
  Sources \in Seq(STRING) /\ {"lock", "none"} \cap Range(Sources) = {}
ASSUME PayloadsAreDigests ==
  Payloads \cap {"absent", "torn", "error", "none"} = {}
ASSUME CountsAssumption == MaxRuns \in Nat /\ MaxShared \in Nat /\ MaxLoads \in Nat

VARIABLES
  alone,       (* the user starts a fetch only when none is running: one   *)
               (* of the processes runs them all                           *)
  file,        (* by id: "absent", "torn" or the payload                   *)
  lock,        (* external-lock.json: its state ("absent", "torn",         *)
               (* "whole") and its entries                                 *)
  pc,          (* by fetcher: "idle", "get", "write", "saving"             *)
  todo,        (* by fetcher: the ids still to fetch                       *)
  got,         (* by fetcher: payload just downloaded                      *)
  mem,         (* by fetcher: its entries of the lock                      *)
  failed,      (* by fetcher: a source failed                              *)
  mixed,       (* fetchers whose open file another one opened too          *)
  runs,        (* fetches started                                          *)
  reader,      (* the evaluation: pc, entries it expects, sources left,    *)
               (* documents, numbers of documents missing and unfetched    *)
  loaded,      (* by fetcher: the lock it started from and its selection   *)
               (* (history)                                                *)
  loads,       (* evaluations started                                      *)
  unsaved      (* ids whose file was written to by a fetch that has not    *)
               (* saved the lock since (history)                           *)

disk == <<file, lock, mixed>>
fetcher == <<alone, pc, todo, got, mem, failed, runs>>
vars == <<disk, fetcher, reader, loads, loaded, unsaved>>
-----------------------------------------------------------------------------
Ids == Range(Sources)
NoEntries == [s \in Ids |-> "none"]

(* An entry: a digest, the error of the last fetch, or nothing.            *)
Entries == [Ids -> Payloads \cup {"error", "none"}]

(* --id takes one source, --limit the first few, neither takes all.        *)
Selections == {<<s>> : s \in Ids} \cup {SubSeq(Sources, 1, n) : n \in 1..Len(Sources)}

(* The path a fetcher has open for writing.                                *)
Open(p) == CASE pc[p] = "write" -> Head(todo[p])
             [] pc[p] = "saving" -> "lock"
             [] OTHER -> "none"
Sharers(p, path) == {q \in Fetchers \ {p} : Open(q) = path}
Sharing(p, path) ==
  mixed \cup IF Sharers(p, path) = {} THEN {} ELSE {p} \cup Sharers(p, path)

Init ==
  /\ alone \in BOOLEAN
  /\ file = [s \in Ids |-> "absent"]
  /\ lock = [state |-> "absent", entries |-> NoEntries]
  /\ pc = [p \in Fetchers |-> "idle"]
  /\ todo = [p \in Fetchers |-> << >>]
  /\ got = [p \in Fetchers |-> "none"]
  /\ mem = [p \in Fetchers |-> NoEntries]
  /\ failed = [p \in Fetchers |-> FALSE]
  /\ mixed = {}
  /\ runs = 0 /\ loads = 0
  /\ reader = [pc |-> "idle", entries |-> NoEntries, left |-> << >>,
               docs |-> << >>, missing |-> 0, unfetched |-> 0]
  /\ loaded = [p \in Fetchers |-> [entries |-> NoEntries, sel |-> << >>]]
  /\ unsaved = {}
-----------------------------------------------------------------------------
Bug_StartsAfresh == [s \in Ids |-> "none"]

(* load_lock and lock_entry_map: without a lock there are no entries; a    *)
(* lock that does not parse stops every fetch.                             *)
LoadedEntries == IF lock.state = "absent" THEN NoEntries ELSE lock.entries

Start(p, sel) ==
  /\ pc[p] = "idle" /\ runs < IF alone THEN MaxRuns ELSE MaxShared
  /\ alone => p = CHOOSE q \in Fetchers : TRUE
  /\ lock.state # "torn"
  /\ pc' = [pc EXCEPT ![p] = "get"]
  /\ todo' = [todo EXCEPT ![p] = sel]
  /\ mem' = [mem EXCEPT ![p] = LoadedEntries]
  /\ failed' = [failed EXCEPT ![p] = FALSE]
  /\ runs' = runs + 1
  /\ loaded' = [loaded EXCEPT ![p] = [entries |-> lock.entries, sel |-> sel]]
  /\ UNCHANGED <<alone, disk, got, reader, loads, unsaved>>

(* fetch_one succeeds; fs::write opens, and so truncates, the file.        *)
Download(p, v) ==
  /\ pc[p] = "get" /\ todo[p] # << >>
  /\ pc' = [pc EXCEPT ![p] = "write"]
  /\ got' = [got EXCEPT ![p] = v]
  /\ file' = [file EXCEPT ![Head(todo[p])] = "torn"]
  /\ mixed' = Sharing(p, Head(todo[p]))
  /\ unsaved' = unsaved \cup {Head(todo[p])}
  /\ UNCHANGED <<alone, lock, todo, mem, failed, runs, reader, loads, loaded>>

Bug_KeepsDigest(p, entry) ==
  mem' = [mem EXCEPT ![p][Head(todo[p])] = IF entry = "error" THEN @ ELSE entry]

(* entries.insert replaces the entry of the source.                        *)
Record(p, entry) ==
  mem' = [mem EXCEPT ![p][Head(todo[p])] = entry]

Bug_RetriesForEver(p, entry) ==
  /\ Record(p, entry)
  /\ failed' = [failed EXCEPT ![p] = @ \/ entry = "error"]
  /\ todo' = [todo EXCEPT ![p] = IF entry = "error" THEN @ ELSE Tail(@)]
  /\ pc' = [pc EXCEPT ![p] = "get"]
  /\ got' = [got EXCEPT ![p] = "none"]

SourceDone(p, entry) ==
  /\ Record(p, entry)
  /\ failed' = [failed EXCEPT ![p] = @ \/ entry = "error"]
  /\ todo' = [todo EXCEPT ![p] = Tail(@)]
  /\ pc' = [pc EXCEPT ![p] = "get"]
  /\ got' = [got EXCEPT ![p] = "none"]

(* Another fetch that has the file open too may have left bytes in it.     *)
Written(p, v) ==
  /\ pc[p] = "write" /\ v = got[p]
  /\ \E content \in IF p \in mixed THEN {v, "torn"} ELSE {v} :
       file' = [file EXCEPT ![Head(todo[p])] = content]
  /\ mixed' = mixed \ {p}
  /\ SourceDone(p, v)
  /\ UNCHANGED <<alone, lock, runs, reader, loads, loaded, unsaved>>

(* No answer within the time allowed, no page, no PDF ...                  *)
DownloadFails(p) ==
  /\ pc[p] = "get" /\ todo[p] # << >>
  /\ SourceDone(p, "error")
  /\ UNCHANGED <<alone, disk, runs, reader, loads, loaded, unsaved>>

(* ... or the disk is full: what was written so far stays in the file.     *)
WriteFails(p) ==
  /\ pc[p] = "write"
  /\ mixed' = mixed \ {p}
  /\ SourceDone(p, "error")
  /\ UNCHANGED <<alone, file, lock, runs, reader, loads, loaded, unsaved>>

(* With the process go its variables.                                      *)
Ends(p) ==
  /\ pc' = [pc EXCEPT ![p] = "idle"]
  /\ todo' = [todo EXCEPT ![p] = << >>]
  /\ got' = [got EXCEPT ![p] = "none"]
  /\ mem' = [mem EXCEPT ![p] = NoEntries]
  /\ failed' = [failed EXCEPT ![p] = FALSE]
  /\ loaded' = [loaded EXCEPT ![p] = [entries |-> NoEntries, sel |-> << >>]]
  /\ mixed' = mixed \ {p}

(* save_lock, once after the last source, whatever failed.                 *)
Save(p) ==
  /\ pc[p] = "get" /\ todo[p] = << >>
  /\ pc' = [pc EXCEPT ![p] = "saving"]
  /\ lock' = [state |-> "torn", entries |-> NoEntries]
  /\ mixed' = Sharing(p, "lock")
  /\ UNCHANGED <<alone, file, todo, got, mem, failed, runs, reader, loads, loaded, unsaved>>

(* The command succeeds only when no source failed.                        *)
Saved(p) ==
  /\ pc[p] = "saving"
  /\ \/ lock' = [state |-> "whole", entries |-> mem[p]]
     \/ p \in mixed /\ lock' = [state |-> "torn", entries |-> NoEntries]
  /\ Ends(p)
  /\ unsaved' = unsaved \ Range(loaded[p].sel)
  /\ UNCHANGED <<alone, file, runs, reader, loads>>

(* The process dies; its half-written file stays as it is.                 *)
Crash(p) ==
  /\ pc[p] # "idle"
  /\ Ends(p)
  /\ UNCHANGED <<alone, file, lock, runs, reader, loads, unsaved>>

Fetching(p) ==
  \/ \E v \in Payloads : Download(p, v) \/ Written(p, v)
  \/ DownloadFails(p) \/ WriteFails(p) \/ Save(p) \/ Saved(p)
-----------------------------------------------------------------------------
(* load_external_documents: without a lock, or with one that does not      *)
(* parse, the evaluation ends with an error.                               *)
Load ==
  /\ reader.pc = "idle" /\ ~ alone /\ loads < MaxLoads
  /\ loads' = loads + 1
  /\ reader' = IF lock.state = "whole"
               THEN [pc |-> "reading", entries |-> lock.entries, left |-> Sources,
                     docs |-> << >>, missing |-> 0, unfetched |-> 0]
               ELSE [reader EXCEPT !.pc = "error"]
  /\ UNCHANGED <<disk, fetcher, loaded, unsaved>>

(* The digest of what the file holds now against the lock read before.     *)
Matches(s) == file[s] = reader.entries[s]

AfterSource(s) ==
  IF reader.entries[s] \notin Payloads
  THEN [reader EXCEPT !.unfetched = @ + 1, !.left = Tail(@)]
  ELSE IF file[s] = "absent"
  THEN [reader EXCEPT !.missing = @ + 1, !.left = Tail(@)]
  ELSE IF Matches(s)
  THEN [reader EXCEPT !.docs = Append(@, <<s, file[s]>>), !.left = Tail(@)]
  ELSE [reader EXCEPT !.pc = "error", !.docs = << >>]

ReadSource ==
  /\ reader.pc = "reading" /\ reader.left # << >>
  /\ reader' = AfterSource(Head(reader.left))
  /\ UNCHANGED <<disk, fetcher, loads, loaded, unsaved>>

Loaded ==
  /\ reader.pc = "reading" /\ reader.left = << >>
  /\ reader' = [reader EXCEPT !.pc = "loaded"]
  /\ UNCHANGED <<disk, fetcher, loads, loaded, unsaved>>

(* The evaluation has ended and another may begin.                         *)
Again ==
  /\ reader.pc \in {"loaded", "error"}
  /\ reader' = [pc |-> "idle", entries |-> NoEntries, left |-> << >>,
                docs |-> << >>, missing |-> 0, unfetched |-> 0]
  /\ UNCHANGED <<disk, fetcher, loads, loaded, unsaved>>

(* The files are not in the repository: a user may delete them.            *)
Delete(s) ==
  /\ file[s] # "absent" /\ \A p \in Fetchers : Open(p) # s
  /\ file' = [file EXCEPT ![s] = "absent"]
  /\ UNCHANGED <<lock, mixed, fetcher, reader, loads, loaded, unsaved>>

Next ==
  \/ \E p \in Fetchers, sel \in Selections : Start(p, sel)
  \/ \E p \in Fetchers : Fetching(p) \/ Crash(p)
  \/ Load \/ ReadSource \/ Loaded \/ Again
  \/ \E s \in Ids : Delete(s)

Spec == Init /\ [][Next]_vars

(* Every request ends: the agent gives one 60 seconds in all.              *)
FairSpec == Spec /\ \A p \in Fetchers : WF_vars(Fetching(p))
-----------------------------------------------------------------------------
(* An evaluation computes only on whole payloads whose digest the lock it  *)
(* read has, whatever fetches write or die meanwhile, and it accounts for  *)
(* every source: used, missing or not fetched (load_external_documents).   *)
DocumentsAreLocked ==
  /\ \A i \in DOMAIN reader.docs :
       LET s == reader.docs[i][1]
           v == reader.docs[i][2]
       IN v \in Payloads /\ v = reader.entries[s]
  /\ reader.pc = "loaded" =>
       Len(reader.docs) + reader.missing + reader.unfetched = Len(Sources)

(* A file that differs from its entry was written to by a fetch that died  *)
(* before it saved the lock: with one fetch at a time a fetch that ends    *)
(* leaves the corpus usable, and a fetch of the source resolves the        *)
(* mismatch (the comment on load_external_documents).                      *)
MismatchMeansInterrupted ==
  alone /\ lock.state = "whole" =>
    \A s \in Ids \ unsaved :
      lock.entries[s] \in Payloads => file[s] \in {lock.entries[s], "absent"}

(* The two together: what an evaluation may read, and why it may not.      *)
CorpusIsSound == DocumentsAreLocked /\ MismatchMeansInterrupted

(* What a fetch saves: for the selected sources what it got, a digest for  *)
(* each if it reports success, and for the others what it started from     *)
(* (--id and --limit leave the rest of the lock alone).                    *)
SavesSelection ==
  [][\A p \in Fetchers :
       (alone /\ pc[p] = "saving" /\ pc'[p] = "idle" /\ lock'.state = "whole") =>
         LET sel == Range(loaded[p].sel) IN
         \A s \in Ids :
           IF s \notin sel THEN lock'.entries[s] = loaded[p].entries[s]
           ELSE lock'.entries[s] \in
                  Payloads \cup IF failed[p] THEN {"error"} ELSE {}]_vars

(* A fetch that is started ends, whatever the pages answer.                *)
FetchEnds == \A p \in Fetchers : pc[p] # "idle" ~> pc[p] = "idle"
=============================================================================

--------------------------- MODULE LatticeBuilder ---------------------------
(***************************************************************************)
(* How the tokenizer fills the lattice of a sentence: the words of the     *)
(* dictionaries and of the providers of unknown words, boundary by         *)
(* boundary.  The lattice itself is that of module Lattice; every step     *)
(* here that changes it is one of its actions.                             *)
(*                                                                         *)
(* There are two ways to the dictionary words.  The plain one looks up the *)
(* boundary that is being worked on.  The pipelined one looks up all the   *)
(* boundaries first, dictionary by dictionary, in a few lanes that take    *)
(* turns, one character each, and each take the next boundary when their   *)
(* walk is over; what they find is kept in one bucket per boundary, in a   *)
(* cache that lives as long as the tokenizer.                              *)
(***************************************************************************)
EXTENDS Lattice, UnknownWords, DictionaryIndex

CONSTANTS
  Texts,        (* sentences: sequences of characters                      *)
  Setups,       (* [dictionaries, providers, pipelined]                    *)
  Lanes         (* DEFAULT_PREFETCH_LANES (4)                              *)

ASSUME LanesAssumption == Lanes \in Nat \ {0}
ASSUME TextsAssumption ==
  \A chars \in Texts : chars \in Seq(DOMAIN CatsOf) /\ Len(chars) \in 1 .. MaxLen

(* The rows of a dictionary: ids go up, and an entry that is indexed has   *)
(* an index form and parameters with which it can be connected.            *)
IndexRow == [id : Nat, form : Seq(DOMAIN CatsOf), word : [left : Int, right : Int, cost : Int]]

IsDictionary(entries) ==
  /\ \A i, j \in DOMAIN entries : i < j => entries[i].id < entries[j].id
  /\ \A i \in DOMAIN entries :
       IsIndexed(entries[i]) => entries[i].form # << >> /\ entries[i].word \in Words

CategoryInfo == [invoke : BOOLEAN, group : BOOLEAN, length : Nat]

IsProvider(p) ==
  \/ /\ p.kind = "mecab"
     /\ \A c \in DOMAIN p.categories : p.categories[c] \in CategoryInfo
     /\ \A c \in DOMAIN p.oovs : p.oovs[c] \in Seq(Words)
  \/ p.kind = "simple" /\ p.word \in Words
  \/ p.kind = "regex" /\ p.maxLength \in Nat /\ p.word \in Words

ASSUME SetupsAssumption ==
  \A s \in Setups :
    /\ s.dictionaries \in Seq(Seq(IndexRow)) \ {<< >>}
    /\ \A d \in DOMAIN s.dictionaries : IsDictionary(s.dictionaries[d])
    /\ s.providers \in Seq(ToSet(s.providers)) \ {<< >>}
    /\ \A k \in DOMAIN s.providers : IsProvider(s.providers[k])

VARIABLES
  setup,        (* the loaded dictionaries and plugins                     *)
  text,         (* the sentence in the input buffer                        *)
  stage,        (* "idle", "batch", "boundary", "words", "unknown", "last" *)
  match_cache,  (* boundary -> dictionary words found there                *)
  lanes,        (* the walks: [node, pos, bucket, active]                  *)
  turn,         (* the lane that is looked at next                         *)
  next_start,   (* the next boundary a lane may take                       *)
  dictionary,   (* number of the dictionary that is walked, from 1         *)
  todo,         (* words to insert                                         *)
  node_buffer,  (* words inserted at this boundary                         *)
  bits,         (* CreatedWords                                            *)
  asked         (* number of providers asked                               *)

bvars == <<setup, text, stage, match_cache, lanes, turn, next_start, dictionary,
           todo, node_buffer, bits, asked>>

(* The index of each dictionary, and the parameters of an entry by its id. *)
Indices == [d \in DOMAIN setup.dictionaries |-> BuildIndex(setup.dictionaries[d])]

WordParam(d, entry) ==
  LET entries == setup.dictionaries[d + 1]
  IN entries[CHOOSE i \in DOMAIN entries : entries[i].id = entry].word

NoLane == [node |-> Root, pos |-> 0, bucket |-> 0, active |-> FALSE]
LaneAt(start) == [node |-> Root, pos |-> start, bucket |-> start, active |-> TRUE]

FirstLanes(n) == [i \in 0 .. Lanes - 1 |-> IF i < n THEN LaneAt(i) ELSE NoLane]

(* The cache grows to the number of boundaries; every bucket is emptied.   *)
ClearedCache(cache, n) == [b \in DOMAIN cache \cup 0 .. n - 1 |-> << >>]

BInit ==
  /\ Init
  /\ setup \in Setups
  /\ text = TextOf(<< >>) /\ stage = "idle" /\ match_cache = << >>
  /\ lanes = FirstLanes(0) /\ turn = 0 /\ next_start = 0 /\ dictionary = 0
  /\ todo = << >> /\ node_buffer = << >> /\ bits = {} /\ asked = 0

StartSentence(chars) ==
  /\ stage = "idle"
  /\ Reset(Len(chars))
  /\ text' = TextOf(chars)
  /\ IF setup.pipelined
     THEN /\ match_cache' = ClearedCache(match_cache, Len(chars))
          /\ lanes' = FirstLanes(Len(chars)) /\ turn' = 0
          /\ next_start' = Min({Lanes, Len(chars)})
          /\ dictionary' = Len(setup.dictionaries)
          /\ stage' = "batch"
     ELSE /\ stage' = "boundary"
          /\ UNCHANGED <<match_cache, lanes, turn, next_start, dictionary>>
  /\ todo' = << >> /\ node_buffer' = << >> /\ bits' = {} /\ asked' = 0
  /\ UNCHANGED setup
-----------------------------------------------------------------------------
Live == {i \in DOMAIN lanes : lanes[i].active}

(* The lane whose turn it is: lanes at rest are passed over.               *)
TakesTurn(i) ==
  /\ i \in Live
  /\ \A j \in Live : (j - turn) % Lanes >= (i - turn) % Lanes

Bug_KeepsNode(i) == [LaneAt(next_start) EXCEPT !.node = lanes[i].node]

(* A lane whose walk is over begins anew at the next boundary.             *)
Restarted(i) == LaneAt(next_start)

LaneStep(i) ==
  LET lane == lanes[i]
      trie == Indices[dictionary].trie
      step == IF lane.pos < Length(text)
              THEN StepOnce(trie, lane.node, text.chars[lane.pos + 1])
              ELSE [kind |-> "Dead"]
  IN
  /\ stage = "batch" /\ TakesTurn(i)
  /\ turn' = (i + 1) % Lanes
  /\ match_cache' =
       IF step.kind = "Match"
       THEN [match_cache EXCEPT ![lane.bucket] =
               @ \o Expand(Indices[dictionary], dictionary - 1, step.value, lane.pos + 1)]
       ELSE match_cache
  /\ \/ /\ step.kind # "Dead"
        /\ lanes' = [lanes EXCEPT ![i].node = step.node, ![i].pos = @ + 1]
        /\ UNCHANGED next_start
     \/ /\ step.kind = "Dead" /\ next_start < Length(text)
        /\ lanes' = [lanes EXCEPT ![i] = Restarted(i)]
        /\ next_start' = next_start + 1
     \/ /\ step.kind = "Dead" /\ next_start = Length(text)
        /\ lanes' = [lanes EXCEPT ![i] = NoLane]
        /\ UNCHANGED next_start
  /\ UNCHANGED <<vars, setup, text, stage, dictionary, todo, node_buffer, bits, asked>>

(* All walks of one dictionary are over: the one before it, or the         *)
(* boundaries.                                                             *)
NextDictionary ==
  /\ stage = "batch" /\ Live = {}
  /\ dictionary' = dictionary - 1
  /\ IF dictionary > 1
     THEN /\ lanes' = FirstLanes(Length(text)) /\ turn' = 0
          /\ next_start' = Min({Lanes, Length(text)})
          /\ UNCHANGED stage
     ELSE stage' = "boundary" /\ UNCHANGED <<lanes, turn, next_start>>
  /\ UNCHANGED <<vars, setup, text, match_cache, todo, node_buffer, bits, asked>>
-----------------------------------------------------------------------------
MayEnd(e) == e < Length(text) => CanBow(text, e)

Matches ==
  LET found == IF setup.pipelined THEN match_cache[at] ELSE Lookup(Indices, text.chars, at)
      kept == Chosen(found, {k \in DOMAIN found : MayEnd(found[k].end)})
  IN [k \in DOMAIN kept |->
        [end |-> kept[k].end, word |-> WordParam(kept[k].dict, kept[k].entry)]]

Skip ==
  /\ stage = "boundary"
  /\ SkipUnreachable
  /\ UNCHANGED bvars

TakeMatches ==
  /\ stage = "boundary" /\ at < size - 1 /\ HasPreviousNode(at)
  /\ todo' = Matches /\ node_buffer' = << >> /\ bits' = {} /\ asked' = 0
  /\ stage' = "words"
  /\ UNCHANGED <<vars, setup, text, match_cache, lanes, turn, next_start, dictionary>>

InsertWord ==
  /\ todo # << >>
  /\ Insert(Head(todo).end, Head(todo).word)
  /\ todo' = Tail(todo)
  /\ node_buffer' = Append(node_buffer, Head(todo))
  /\ bits' = AddWord(bits, Head(todo).end - at)
  /\ UNCHANGED <<setup, text, stage, match_cache, lanes, turn, next_start, dictionary, asked>>

(* What a provider returned, or its error.                                 *)
Take(answer) ==
  \/ /\ answer.status = "ok"
     /\ todo' = answer.words
     /\ UNCHANGED vars
  \/ /\ answer.status = "error"
     /\ GiveUp
     /\ UNCHANGED todo

AskProvider ==
  LET k == asked + 1
      answer == ProvideOov(setup.providers[k], text, at, bits, node_buffer)
  IN
  /\ stage \in {"words", "unknown"} /\ todo = << >>
  /\ CanOovBow(text, at) /\ asked < Len(setup.providers)
  /\ Take(answer)
  /\ asked' = k
  /\ stage' = IF answer.status = "ok" THEN "unknown" ELSE "idle"
  /\ UNCHANGED <<setup, text, match_cache, lanes, turn, next_start, dictionary, node_buffer, bits>>

AllAsked == CanOovBow(text, at) => asked = Len(setup.providers)

NeedsFallback == bits = {}

(* No word at all: the last provider is asked (again).                     *)
AskLastProvider ==
  LET answer == ProvideOov(setup.providers[Len(setup.providers)], text, at, bits, node_buffer)
  IN
  /\ stage \in {"words", "unknown"} /\ todo = << >> /\ AllAsked
  /\ NeedsFallback
  /\ Take(answer)
  /\ stage' = IF answer.status = "ok" THEN "last" ELSE "idle"
  /\ UNCHANGED <<setup, text, match_cache, lanes, turn, next_start, dictionary,
                 node_buffer, bits, asked>>

IsFilled == todo = << >> /\ (stage = "last" \/ (stage \in {"words", "unknown"} /\ AllAsked
                                                /\ ~NeedsFallback))

FinishBoundary ==
  /\ IsFilled
  /\ NextBoundary
  /\ stage' = "boundary"
  /\ UNCHANGED <<setup, text, match_cache, lanes, turn, next_start, dictionary,
                 todo, node_buffer, bits, asked>>

Disconnected ==
  /\ IsFilled
  /\ bits = {}
  /\ GiveUp
  /\ stage' = "idle"
  /\ UNCHANGED <<setup, text, match_cache, lanes, turn, next_start, dictionary,
                 todo, node_buffer, bits, asked>>

Connect ==
  /\ stage = "boundary"
  /\ ConnectEos
  /\ stage' = "idle"
  /\ UNCHANGED <<setup, text, match_cache, lanes, turn, next_start, dictionary,
                 todo, node_buffer, bits, asked>>

FillTopPath == (StartTrace \/ TraceBack) /\ UNCHANGED bvars

BNext ==
  \/ \E chars \in Texts : StartSentence(chars)
  \/ \E i \in DOMAIN lanes : LaneStep(i)
  \/ NextDictionary
  \/ Skip \/ TakeMatches \/ InsertWord \/ AskProvider \/ AskLastProvider
  \/ FinishBoundary \/ Disconnected \/ Connect
  \/ FillTopPath

BSpec == BInit /\ [][BNext]_<<vars, bvars>>
-----------------------------------------------------------------------------
(* The documentation of lookup_batch: grouped by boundary, what the lanes  *)
(* find is what the plain lookup finds, in the same order, however the     *)
(* walks are interleaved and whatever an earlier sentence left behind.     *)
BatchReproducesLookup ==
  setup.pipelined /\ stage \notin {"idle", "batch"} =>
    \A b \in 0 .. Length(text) - 1 : match_cache[b] = Lookup(Indices, text.chars, b)

Outcome ==
  CASE phase = "new" -> "none"
    [] phase = "building" -> "building"
    [] phase = "failed" -> "failed"
    [] OTHER -> "complete"

(* The words in the rows, and those of them whose boundary is done.        *)
Entered ==
  {[begin |-> n.begin, end |-> n.end,
    word |-> [left |-> n.left, right |-> n.right, cost |-> n.cost]] :
     n \in UNION {ToSet(ends_full[e]) : e \in DOMAIN ends_full}}

Offered == {w \in Entered : w.begin < at}

O == INSTANCE OfferedWords WITH
       sources <- setup, offered <- Offered, done <- at, outcome <- Outcome

(* The builder offers the search every word it should and no other: it     *)
(* implements the builder that adds all the words of a boundary at once.   *)
OffersItsWords == O!ASpec
=============================================================================

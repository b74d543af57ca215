---------------------------- MODULE OfferedWords ----------------------------
(***************************************************************************)
(* What the lattice builder promises, without its index, its lanes, its    *)
(* bit sets and its queues: the boundaries of the text are taken from left *)
(* to right, and a boundary that some word reaches gets, all at once,      *)
(*   - every dictionary entry whose index form the text has there, unless  *)
(*     it ends where no word may begin, and                                *)
(*   - the unknown words of each provider, which knows the words of the    *)
(*     dictionary and of the providers before it.                          *)
(* A boundary that gets no word ends the analysis with an error.           *)
(***************************************************************************)
EXTENDS UnknownWords

VARIABLES
  text,     (* the text, or NoText                                         *)
  sources,  (* [dictionaries, providers]: entries with form and word       *)
  offered,  (* the words [begin, end, word] of the boundaries done         *)
  done,     (* number of boundaries done                                   *)
  outcome   (* "none", "building", "complete" or "failed"                  *)

avars == <<text, sources, offered, done, outcome>>

HasForm(at, form) ==
  /\ at + Len(form) <= Length(text)
  /\ SubSeq(text.chars, at + 1, at + Len(form)) = form

MayEndAt(e) == e < Length(text) => CanBow(text, e)

DictionaryWords(at) ==
  LET entries == UNION {ToSet(d) : d \in ToSet(sources.dictionaries)}
  IN {[end |-> at + Len(e.form), word |-> e.word] :
        e \in {x \in entries : IF x.word.left < 0 THEN FALSE
                               ELSE HasForm(at, x.form) /\ MayEndAt(at + Len(x.form))}}

(* Words of a run: of all of it, and of its first characters.              *)
PartLengths(at, info) ==
  {l \in 1 .. text.run[at + 1] : l <= LongestPart(text.run[at + 1], info)
                                 /\ \E i \in 1 .. info.length : l = CharDistance(text, at, i)}

RunLengths(at, info) ==
  PartLengths(at, info) \cup (IF info.group THEN {text.run[at + 1]} ELSE {})

CategoryWords(p, at, c) ==
  {[end |-> at + l, word |-> w] : l \in RunLengths(at, p.categories[c]), w \in ToSet(p.oovs[c])}

CategoriesAsked(p, at, others) == {c \in text.cats[at + 1] : IsAsked(p, c, others)}

RunWords(p, at, others) ==
  UNION {CategoryWords(p, at, c) : c \in CategoriesAsked(p, at, others)}

UnknownWordsOf(p, at, others) ==
  CASE p.kind = "mecab" -> RunWords(p, at, others)
    [] p.kind = "simple" ->
         IF others # {} THEN {}
         ELSE {[end |-> at + WordCandidateLength(text, at), word |-> p.word]}
    [] p.kind = "regex" ->
         LET l == MatchLength(p, text, at)
         IN IF IsInsideRun(p, text, at) \/ l = 0 \/ \E o \in others : o.end = at + l THEN {}
            ELSE {[end |-> at + l, word |-> p.word]}

WithUnknownWords(known, providers, at) ==
  LET words[k \in 0 .. Len(providers)] ==
        IF k = 0 THEN known
        ELSE words[k - 1] \cup UnknownWordsOf(providers[k], at, words[k - 1])
  IN words[Len(providers)]

Fallback == <<sources.providers[Len(sources.providers)]>>

WordsFrom(at) ==
  LET known == DictionaryWords(at)
      all == IF CanOovBow(text, at) THEN WithUnknownWords(known, sources.providers, at) ELSE known
  IN IF all = {} THEN WithUnknownWords(all, Fallback, at) ELSE all

IsReached(at) == at = 0 \/ \E w \in offered : w.end = at

IsProviderAsked(k, at) ==
  \/ CanOovBow(text, at)
  \/ k = Len(sources.providers) /\ DictionaryWords(at) = {}

Failing(at) ==
  \E k \in DOMAIN sources.providers :
    LET p == sources.providers[k]
    IN IsProviderAsked(k, at) /\ p.kind = "regex" /\ ~IsInsideRun(p, text, at) /\ MatchLength(p, text, at) = 0
       /\ MatchesLater(p, text, at) /\ p.debug
-----------------------------------------------------------------------------
AInit == text = TextOf(<< >>) /\ offered = {} /\ done = 0 /\ outcome = "none"

ABegin ==
  /\ outcome # "building"
  /\ offered' = {} /\ done' = 0 /\ outcome' = "building"
  /\ sources' = sources

AOffer ==
  /\ outcome = "building" /\ done < Length(text)
  /\ IsReached(done) /\ WordsFrom(done) # {} /\ ~Failing(done)
  /\ offered' = offered \cup
       {[begin |-> done, end |-> w.end, word |-> w.word] : w \in WordsFrom(done)}
  /\ done' = done + 1
  /\ UNCHANGED <<text, sources, outcome>>

ASkip ==
  /\ outcome = "building" /\ done < Length(text)
  /\ ~IsReached(done)
  /\ done' = done + 1
  /\ UNCHANGED <<text, sources, offered, outcome>>

AFail ==
  /\ outcome = "building" /\ done < Length(text)
  /\ IsReached(done) /\ (WordsFrom(done) = {} \/ Failing(done))
  /\ outcome' = "failed"
  /\ UNCHANGED <<text, sources, offered, done>>

AComplete ==
  /\ outcome = "building" /\ done = Length(text) /\ IsReached(done)
  /\ outcome' = "complete"
  /\ UNCHANGED <<text, sources, offered, done>>

ASpec == AInit /\ [][ABegin \/ AOffer \/ ASkip \/ AFail \/ AComplete]_avars
=============================================================================

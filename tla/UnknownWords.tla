---------------------------- MODULE UnknownWords ----------------------------
(***************************************************************************)
(* The providers of unknown words and the set of word lengths they are     *)
(* told about.  A provider is asked at one boundary of the text, after the *)
(* dictionary and the providers before it; it sees the lengths of the      *)
(* words that begin there (CreatedWords, one bit per length, the last bit  *)
(* for all lengths from MaxBit on) and the list of those words.            *)
(***************************************************************************)
EXTENDS Integers, Sequences, SequencesExt, FiniteSetsExt, Selections, CharacterCategories

CONSTANTS
  CatsOf,       (* categories of a character                               *)
  CatOrder,     (* all categories, in the order of their bits              *)
  NonStarting,  (* ALPHA, GREEK, CYRILLIC: no word begins inside a run     *)
  NoOovBow,     (* the category on which no unknown word begins            *)
  NoOovEow,     (* the category after which no unknown word begins         *)
  MaxBit        (* CreatedWords::MAX_VALUE (64)                            *)

ASSUME BitAssumption == MaxBit \in Nat \ {0}
ASSUME CategoriesAssumption ==
  /\ CatOrder \in Seq(ToSet(CatOrder))
  /\ \A c \in DOMAIN CatsOf : CatsOf[c] \subseteq ToSet(CatOrder)

(* What InputBuffer::build computes of a text; offsets count characters.   *)
TextOf(chars) ==
  LET cats == [i \in DOMAIN chars |-> CatsOf[chars[i]]]
  IN [chars |-> chars, cats |-> cats,
      bow |-> [i \in DOMAIN chars |->
                 (cats[i] \cap NonStarting # {} /\ i > 1) => cats[i] \cap cats[i - 1] = {}],
      run |-> CategoryContinuity(cats)]

Length(text) == Len(text.chars)

CanBow(text, offset) == text.bow[offset + 1]

CanOovBow(text, offset) ==
  /\ NoOovBow \notin text.cats[offset + 1]
  /\ offset > 0 => NoOovEow \notin text.cats[offset]

(* get_word_candidate_length: up to the next place where a word may begin. *)
WordCandidateLength(text, offset) ==
  Min({Length(text)} \cup {i \in offset + 1 .. Length(text) - 1 : CanBow(text, i)}) - offset

CharDistance(text, offset, n) == Min({offset + n, Length(text)}) - offset
-----------------------------------------------------------------------------
BitOf(length) == Min({length, MaxBit})

AddWord(bits, length) == bits \cup {BitOf(length)}

Bug_SureOfLongOnes(bits, length) == IF BitOf(length) \in bits THEN "Yes" ELSE "No"

HasWord(bits, length) ==
  IF BitOf(length) \notin bits THEN "No" ELSE IF length >= MaxBit THEN "Maybe" ELSE "Yes"
-----------------------------------------------------------------------------
WordsAt(ends, word) == [i \in DOMAIN ends |-> [end |-> ends[i], word |-> word]]

Given(words) == [status |-> "ok", words |-> words]
NoWords == Given(<< >>)

(* The longest part of a run a word of fixed length may take: a group word *)
(* already has all of it.                                                  *)
LongestPart(run, info) == IF info.group THEN run - 1 ELSE run

(* provide_oov_gen, for one category: the words of the whole run, then of  *)
(* its first 1, 2, ... characters.  At the end of the text several of      *)
(* these lengths are one and the same, and so are the words.               *)
OfCategory(p, text, offset, info, oovs) ==
  LET run == text.run[offset + 1]
      parts == [i \in 1 .. info.length |-> CharDistance(text, offset, i)]
      lengths == Chosen(parts, {i \in DOMAIN parts : parts[i] <= LongestPart(run, info)})
      all == (IF info.group THEN <<run>> ELSE << >>) \o lengths
  IN FlattenSeq([i \in DOMAIN all |->
       [k \in DOMAIN oovs |-> [end |-> offset + all[i], word |-> oovs[k]]]])

IsAsked(p, cat, bits) ==
  /\ cat \in DOMAIN p.categories /\ cat \in DOMAIN p.oovs
  /\ p.categories[cat].invoke \/ bits = {}

Mecab(p, text, offset, bits) ==
  LET asked == {i \in DOMAIN CatOrder :
                  CatOrder[i] \in text.cats[offset + 1] /\ IsAsked(p, CatOrder[i], bits)}
      cats == Chosen(CatOrder, asked)
  IN Given(FlattenSeq([i \in DOMAIN cats |->
             OfCategory(p, text, offset, p.categories[cats[i]], p.oovs[cats[i]])]))

Simple(p, text, offset, bits) ==
  IF bits # {} THEN NoWords
  ELSE Given(WordsAt(<<offset + WordCandidateLength(text, offset)>>, p.word))

(* The regular expression takes the longest run of characters of a set;    *)
(* one with an alternative that is not anchored also finds a later one.    *)
IsInsideRun(p, text, offset) ==
  p.strict /\ offset > 0 /\ text.run[offset + 1] + 1 = text.run[offset]

MatchLength(p, text, offset) ==
  LET last == Min({Length(text), offset + p.maxLength})
  IN Max({0} \cup {l \in 1 .. last - offset :
                     \A i \in offset + 1 .. offset + l : text.chars[i] \in p.of})

MatchesLater(p, text, offset) ==
  /\ p.loose
  /\ \E i \in offset + 1 .. Min({Length(text), offset + p.maxLength}) : text.chars[i] \in p.of

IsThere(bits, nodes, offset, length) ==
  \/ HasWord(bits, length) = "Yes"
  \/ HasWord(bits, length) = "Maybe" /\ \E k \in DOMAIN nodes : nodes[k].end = offset + length

Regex(p, text, offset, bits, nodes) ==
  LET length == MatchLength(p, text, offset)
  IN IF IsInsideRun(p, text, offset) THEN NoWords
     ELSE IF length = 0
          THEN IF MatchesLater(p, text, offset) /\ p.debug
               THEN [status |-> "error", words |-> << >>]
               ELSE NoWords
     ELSE IF IsThere(bits, nodes, offset, length) THEN NoWords
     ELSE Given(WordsAt(<<offset + length>>, p.word))

ProvideOov(p, text, offset, bits, nodes) ==
  CASE p.kind = "mecab" -> Mecab(p, text, offset, bits)
    [] p.kind = "simple" -> Simple(p, text, offset, bits)
    [] p.kind = "regex" -> Regex(p, text, offset, bits, nodes)
=============================================================================

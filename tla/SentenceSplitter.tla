-------------------------- MODULE SentenceSplitter --------------------------
(***************************************************************************)
(* SentenceIter and SentenceDetector: the text is handed out sentence by   *)
(* sentence; for each the detector scans what is left for a boundary,      *)
(* keeping the depth of parentheses, and a lexicon may veto a boundary.    *)
(* A character is known by what the detector asks of it.                   *)
(***************************************************************************)
EXTENDS Integers, Sequences, FiniteSets, FiniteSetsExt

CONSTANTS
  Inputs,      (* [text, limit, checker]: sequences of characters, how     *)
               (* many of them the detector looks at, and whether it has a *)
               (* checker of words                                         *)
  Lexicons,    (* the lexicons of the checker, user dictionaries last:     *)
               (* sequences of sets of words                               *)
  Lookback     (* how far back the checker looks for a word                *)

ASSUME SplitterAssumption ==
  /\ Lookback \in Nat /\ Lexicons \in Seq({Lexicons[l] : l \in DOMAIN Lexicons})
  /\ \A l \in DOMAIN Lexicons : \A w \in Lexicons[l] : w \in Seq({w[i] : i \in DOMAIN w})
  /\ \A input \in Inputs :
       /\ input.text \in Seq({input.text[i] : i \in DOMAIN input.text})
       /\ input.limit \in Nat \ {0} /\ input.checker \in BOOLEAN

VARIABLES
  given,       (* the input                                                *)
  position,    (* characters handed out already                            *)
  index,       (* scan: characters of the slice passed                     *)
  level,       (* scan: parentheses open                                   *)
  rv,          (* what get_eos returned: where the sentence ends, negative *)
               (* when no boundary was found                               *)
  sentences,   (* the ranges handed out                                    *)
  pc           (* "next", "scan", "found", "done"                          *)

splitVars == <<given, position, index, level, rv, sentences, pc>>
-----------------------------------------------------------------------------
(* Characters: "x" has no role; "mark" is one of the sentence periods that *)
(* close a quotation as well, like "?"; "quote" opens and closes.          *)
Opens     == {"open", "quote"}
Closes    == {"close", "quote"}
Periods   == {"period", "mark"}
Dots      == {"dot"}
Commas    == {"comma"}
Alnum     == {"alnum"}
QuoteEnds == {"mark"} \cup Closes
Particles == {"to", "desu"}      (* と, and っ or です                      *)
Joiners   == {"to", "no"}        (* と, and や or の                        *)

data       == given.text
Limit      == given.limit
UseChecker == given.checker

Smaller(a, b) == IF a < b THEN a ELSE b

Slice == SubSeq(data, position + 1, Len(data))

(* limited_prefix *)
Limited == SubSeq(Slice, 1, Smaller(Len(Slice), Limit))

(* The end of the run of characters of set that begins after position i.   *)
RunEnd(s, i, set) ==
  CHOOSE j \in i..Len(s) :
    /\ \A k \in i + 1..j : s[k] \in set
    /\ j < Len(s) => s[j + 1] \notin set

(* consume_trailing_break_chars, prohibited_bos_len                        *)
TrailingBreaks(s, i) == RunEnd(s, i, Dots \cup Periods)

SkipProhibited(s, i) == RunEnd(s, i, Closes \cup Commas \cup Periods)

Is(s, i, set) == i \in DOMAIN s /\ s[i] \in set

NoCandidate == -1

(* sentence_candidate_end for the character after i.                       *)
CandidateEnd(s, i) ==
  LET c == s[i + 1] IN
  CASE c \in Periods -> TrailingBreaks(s, i + 1)
    [] c = "cdot" ->
         LET end == RunEnd(s, i, {"cdot"})
         IN IF end - i >= 3 THEN TrailingBreaks(s, end) ELSE NoCandidate
    [] c \in Dots ->
         IF Is(s, i, Alnum) \/ Is(s, i + 2, Alnum \cup Commas) THEN NoCandidate
         ELSE TrailingBreaks(s, i + 1)
    [] c = "br" ->
         LET end == RunEnd(s, i, {"br"})
         IN IF end - i >= 2 THEN end ELSE NoCandidate
    [] OTHER -> NoCandidate

Bug_AnyHeader(s) == Len(s) >= 2 /\ s[1] \in Alnum /\ s[2] \in Dots

IsItemizeHeader(s) == Len(s) = 2 /\ s[1] \in Alnum /\ s[2] \in Dots

EndsWithItemizeHeader(s, end) == Is(s, end - 1, Alnum) /\ Is(s, end, Dots)

ContinuesPhrase(s, end) ==
  /\ end < Len(s)
  /\ \/ s[end] \in QuoteEnds /\ s[end + 1] \in Particles
     \/ s[end + 1] \in Joiners /\ EndsWithItemizeHeader(s, end)

(* The ends of the words of a lexicon that begin after i.                  *)
WordEnds(lexicon, s, i) ==
  {i + Len(w) : w \in {v \in lexicon : i + Len(v) <= Len(s) /\ SubSeq(s, i + 1, i + Len(v)) = v}}

(* The checker's answer for a word from i to e, if that is one.  At the    *)
(* boundary it asks for two characters after i, in the whole slice.        *)
Vetoes(s, end, i, e) == e > end \/ (e = end /\ i + 2 <= Len(s))

(* has_non_break_word: the first word that reaches the boundary decides.   *)
HasNonBreakWord(s, end) ==
  LET starts == (IF end > Lookback THEN end - Lookback ELSE 0)..(end - 1)
      reach  == {p \in starts \X DOMAIN Lexicons :
                   \E e \in WordEnds(Lexicons[p[2]], s, p[1]) : e >= end}
      first  == CHOOSE p \in reach : \A q \in reach :
                 p[1] < q[1] \/ (p[1] = q[1] /\ p[2] >= q[2])
  IN /\ UseChecker /\ reach # {}
     /\ Vetoes(s, end, first[1],
               Min({e \in WordEnds(Lexicons[first[2]], s, first[1]) : e >= end}))

(* What find_sentence_boundary returns for a candidate, if it does.        *)
Boundary(candidate) == SkipProhibited(Limited, candidate)

Bug_AnyDepth(candidate) ==
  /\ ~ IsItemizeHeader(Limited)
  /\ ~ ContinuesPhrase(Limited, Boundary(candidate))

IsBoundary(candidate) ==
  /\ level = 0
  /\ ~ IsItemizeHeader(Limited)
  /\ ~ ContinuesPhrase(Limited, Boundary(candidate))
  /\ ~ HasNonBreakWord(Slice, Boundary(candidate))

(* legacy_whitespace_end, for a text without line breaks.                  *)
ProvisionalEnd ==
  LET spaces == {i \in 2..Len(Limited) : Limited[i] = "space"}
  IN IF Len(Slice) > Limit /\ spaces # {} THEN Max(spaces) ELSE Len(Limited)
-----------------------------------------------------------------------------
SplitInit ==
  /\ given \in Inputs
  /\ position = 0 /\ index = 0 /\ level = 0 /\ rv = 0
  /\ sentences = << >>
  /\ pc = "next"

(* SentenceIter::next, get_eos                                             *)
Begin ==
  /\ pc = "next"
  /\ pc' = IF position = Len(data) THEN "done" ELSE "scan"
  /\ index' = 0 /\ level' = 0
  /\ UNCHANGED <<given, position, rv, sentences>>

Here == pc = "scan" /\ index < Len(Limited)
Char == Limited[index + 1]

OpenParenthesis ==
  /\ Here /\ Char \in Opens
  /\ level' = level + 1 /\ index' = index + 1
  /\ UNCHANGED <<given, position, rv, sentences, pc>>

(* saturating_sub                                                          *)
LevelBelow == IF level = 0 THEN 0 ELSE level - 1

CloseParenthesis ==
  /\ Here /\ Char \in Closes \ Opens
  /\ level' = LevelBelow /\ index' = index + 1
  /\ UNCHANGED <<given, position, rv, sentences, pc>>

Pass ==
  /\ Here /\ Char \notin Opens \cup Closes
  /\ CandidateEnd(Limited, index) = NoCandidate
  /\ index' = index + 1
  /\ UNCHANGED <<given, position, level, rv, sentences, pc>>

Bug_ScansAgain(candidate) == index

(* A rejected candidate is passed with all the periods that belong to it.  *)
Resume(candidate) == candidate

Candidate ==
  /\ Here /\ Char \notin Opens \cup Closes
  /\ CandidateEnd(Limited, index) # NoCandidate
  /\ LET candidate == CandidateEnd(Limited, index) IN
     IF IsBoundary(candidate)
     THEN pc' = "found" /\ rv' = Boundary(candidate) /\ index' = index
     ELSE index' = Resume(candidate) /\ UNCHANGED <<rv, pc>>
  /\ UNCHANGED <<given, position, level, sentences>>

NoBoundary ==
  /\ pc = "scan" /\ index = Len(Limited)
  /\ rv' = -ProvisionalEnd
  /\ pc' = "found"
  /\ UNCHANGED <<given, position, index, level, sentences>>

(* A negative value ends the last sentence.                                *)
SentenceEnd == IF rv < 0 THEN Len(data) ELSE position + rv

HandOut ==
  /\ pc = "found"
  /\ sentences' = Append(sentences, <<position, SentenceEnd>>)
  /\ position' = SentenceEnd
  /\ pc' = "next"
  /\ UNCHANGED <<given, index, level, rv>>

SplitNext ==
  \/ Begin \/ OpenParenthesis \/ CloseParenthesis \/ Pass \/ Candidate
  \/ NoBoundary \/ HandOut

SplitSpec == SplitInit /\ [][SplitNext]_splitVars

(* The caller takes the sentences until there is none left.                *)
FairSpec == SplitSpec /\ WF_splitVars(SplitNext)
-----------------------------------------------------------------------------
(* Nothing of the text is lost, repeated or handed out empty.              *)
SentencesCoverText ==
  LET from(i) == IF i = 1 THEN 0 ELSE sentences[i - 1][2] IN
  /\ \A i \in DOMAIN sentences :
       sentences[i][1] = from(i) /\ sentences[i][1] < sentences[i][2]
  /\ position = from(Len(sentences) + 1)
  /\ pc = "done" => position = Len(data)

(* Parentheses open after the characters from+1..to of s.                  *)
Nested(open, c) ==
  IF c \in Opens THEN open + 1
  ELSE IF c \in Closes /\ open > 0 THEN open - 1 ELSE open

Depth(s, from, to) ==
  LET d[i \in from..Len(s)] == IF i = from THEN 0 ELSE Nested(d[i - 1], s[i])
  IN d[to]

(* A cut after character to, of a sentence of s that begins after from,    *)
(* stands outside of parentheses, at a break and what may not begin a      *)
(* sentence after it.                                                      *)
IsAtBreak(s, from, to) ==
  \E j \in (from + 1)..to :
    /\ s[j] \in Periods \cup Dots \cup {"cdot", "br"}
    /\ Depth(s, from, j) = 0
    /\ \A k \in (j + 1)..to : s[k] \in Closes \cup Commas \cup Periods

(* All sentences but the last end at a break.                              *)
EndsAtBreak ==
  \A i \in DOMAIN sentences :
    sentences[i][2] = Len(data) \/ IsAtBreak(data, sentences[i][1], sentences[i][2])

(* A period outside of parentheses before a plain character.               *)
IsPlainEnd(s, from, j) ==
  s[j] \in Periods /\ s[j + 1] = "x" /\ Depth(s, from, j) = 0

(* Without a checker such a place always ends a sentence, whatever stands  *)
(* before it: items, dots, marks that were no boundary.                    *)
EveryPlainEndSplits ==
  (~ UseChecker /\ Limit >= Len(data)) =>
    \A i \in DOMAIN sentences :
      \A j \in (sentences[i][1] + 1)..(sentences[i][2] - 1) :
        ~ IsPlainEnd(data, sentences[i][1], j)

(* A word from b to e of some lexicon.                                     *)
IsWord(s, b, e) == \E l \in DOMAIN Lexicons : SubSeq(s, b + 1, e) \in Lexicons[l]

(* A word that begins after from, within what the checker sees of it, goes *)
(* on behind to.                                                           *)
CutsWord(s, from, to) ==
  \E b \in from..(to - 1), e \in (to + 1)..Len(s) :
    b >= to - Lookback /\ IsWord(s, b, e)

(* With a checker no word is cut in two.                                   *)
NoWordIsCut ==
  UseChecker =>
    \A i \in DOMAIN sentences : ~ CutsWord(data, sentences[i][1], sentences[i][2])

(* The caller gets all sentences of a text.                                *)
SplittingEnds == <>(pc = "done")

(* SentenceIter: the sentences are the text, cut only at breaks, and in no *)
(* word.                                                                   *)
TextIsCutAtBreaks == SentencesCoverText /\ EndsAtBreak /\ NoWordIsCut
=============================================================================

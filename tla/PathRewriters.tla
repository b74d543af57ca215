--------------------------- MODULE PathRewriters ----------------------------
(***************************************************************************)
(* The two rewriters of the path, in the order of the configuration.       *)
(*                                                                         *)
(* JoinNumericPlugin::rewrite_gen: one scan over the path of nodes that    *)
(* feeds a number parser and joins the nodes of each number.  Where a      *)
(* separator turns out not to belong to a number, the run is read again    *)
(* with that separator as a word.                                          *)
(*                                                                         *)
(* JoinKatakanaOovPlugin::rewrite_gen on the path that leaves: where a node*)
(* is unknown or short and of katakana, the katakana around it become one  *)
(* word, from the first node on that may begin an unknown word.  For it the*)
(* nodes of original have three more fields: oov, len (characters) and bow *)
(* (no NOOOVBOW in the categories of the first one).                       *)
(***************************************************************************)
EXTENDS NumericParser

CONSTANT
  Paths      (* paths of nodes [cats, norm, num]: the categories all       *)
             (* characters of a node share, its normalized form, and       *)
             (* whether its part of speech is the numeric one              *)

ASSUME PathsAssumption ==
  \A p \in Paths : p \in Seq(Range(p)) \ {<< >>} /\ \A k \in DOMAIN p :
    p[k].norm \in Seq(Int) /\ p[k].num \in BOOLEAN /\ p[k].cats \subseteq {"NUMERIC", "KANJINUMERIC", "KATAKANA"}

VARIABLES
  original,   (* the path before the rewriting                             *)
  normalize,  (* enableNormalize                                           *)
  path,       (* nodes [first, last, norm, num] over the original path     *)
  i, begin,   (* the node before the next one, and where the run began     *)
  commaAsDigit, periodAsDigit,
  parser,
  pc          (* "scan", "done", "error"                                   *)

input == <<original, normalize>>
scan  == <<i, begin, commaAsDigit, periodAsDigit, parser>>
vars  == <<input, path, scan, pc>>

(* No run: the scan counts nodes from 1, the code from 0.                  *)
NoRun == 0

Init ==
  /\ original \in Paths
  /\ normalize \in BOOLEAN
  /\ path = [k \in DOMAIN original |->
       [first |-> k, last |-> k, norm |-> original[k].norm, num |-> original[k].num]]
  /\ i = 0 /\ begin = NoRun /\ commaAsDigit = TRUE /\ periodAsDigit = TRUE
  /\ parser = NewParser /\ pc = "scan"
-----------------------------------------------------------------------------
Norms(ns) == FlattenSeq([k \in DOMAIN ns |-> ns[k].norm])

(* concat_nodes of b..e                                                    *)
ConcatNodes(p, b, e, norm) ==
  SubSeq(p, 1, b - 1)
    \o <<[first |-> p[b].first, last |-> p[e].last, norm |-> norm, num |-> p[b].num]>>
    \o SubSeq(p, e + 1, Len(p))

(* JoinNumericPlugin::concat of b..e                                       *)
Concat(p, b, e, number) ==
  LET norm == Normalized(number) IN
  IF ~ p[b].num THEN p
  ELSE IF normalize
  THEN IF e > b \/ norm # p[b].norm THEN ConcatNodes(p, b, e, norm) ELSE p
  ELSE IF e > b THEN ConcatNodes(p, b, e, Norms(SubSeq(p, b, e))) ELSE p

(* cat_of_range of the characters of a node                                *)
SharedCats(n) == {c \in original[n.first].cats : \A k \in n.first..n.last : c \in original[k].cats}
IsNumeric(n) ==
  \/ SharedCats(n) \cap {"NUMERIC", "KANJINUMERIC"} # {}
  \/ commaAsDigit /\ n.norm = <<Comma>>
  \/ periodAsDigit /\ n.norm = <<Point>>

(* The separator the parser stopped at is the last node of the run.        *)
Hanging(p, n) ==
  \/ p.error = "comma" /\ n.norm = <<Comma>>
  \/ p.error = "point" /\ n.norm = <<Point>>

Current == path[i + 1]

Bug_NoClear == parser
(* The parser the current node is read into.                               *)
RunParser == IF begin = NoRun THEN NewParser ELSE parser

Bug_FlagsStay(error) ==
  IF error = "none" THEN i' = i + 1 /\ UNCHANGED <<commaAsDigit, periodAsDigit>>
  ELSE i' = (IF begin = NoRun THEN i + 1 ELSE begin) - 1 /\ UNCHANGED <<commaAsDigit, periodAsDigit>>

Bug_GivesUp(error) ==
  /\ i' = i + 1
  /\ commaAsDigit' = (commaAsDigit /\ error # "comma")
  /\ periodAsDigit' = (periodAsDigit /\ error # "point")

(* Back to the beginning of the run, with the separator as a word; without *)
(* an error of a separator on to the next node.                            *)
ReadAgain(error) ==
  /\ i' = IF error = "none" THEN i + 1
          ELSE IF begin = NoRun THEN i ELSE begin - 1
  /\ commaAsDigit' = (commaAsDigit /\ error # "comma")
  /\ periodAsDigit' = (periodAsDigit /\ error # "point")
-----------------------------------------------------------------------------
NumericNode ==
  LET p == AppendAll(RunParser, Current.norm) IN
  /\ pc = "scan" /\ i < Len(path) /\ IsNumeric(Current)
  /\ parser' = p
  /\ IF p.ok
     THEN /\ begin' = IF begin = NoRun THEN i + 1 ELSE begin
          /\ i' = i + 1
          /\ UNCHANGED <<commaAsDigit, periodAsDigit>>
     ELSE ReadAgain(p.error) /\ begin' = NoRun
  /\ UNCHANGED <<input, path, pc>>

(* What ends the run at node e with parser p: the path and where the scan  *)
(* goes on; concat_nodes of no nodes is an error.                          *)
EndRun(p, e) ==
  IF p.ok THEN <<Concat(path, begin, e, p.total), begin + 1>>
  ELSE IF Hanging(p, path[e]) /\ (e > begin \/ ~ path[begin].num)
  THEN <<Concat(path, begin, e - 1, p.total), begin + 2>>
  ELSE <<path, e + 1>>

Fails(p, e) == ~ p.ok /\ Hanging(p, path[e]) /\ e = begin /\ path[begin].num

OtherNode ==
  LET p == Done(parser) IN
  /\ pc = "scan" /\ i < Len(path) /\ ~ IsNumeric(Current)
  /\ IF begin = NoRun
     THEN i' = i + 1 /\ UNCHANGED <<path, parser, pc>>
     ELSE /\ path' = EndRun(p, i)[1] /\ i' = EndRun(p, i)[2] /\ parser' = p
          /\ pc' = IF Fails(p, i) THEN "error" ELSE "scan"
  /\ begin' = NoRun
  /\ commaAsDigit' = (commaAsDigit \/ Current.norm # <<Comma>>)
  /\ periodAsDigit' = (periodAsDigit \/ Current.norm # <<Point>>)
  /\ UNCHANGED input

LastPart ==
  LET p == Done(parser) IN
  /\ pc = "scan" /\ i = Len(path)
  /\ IF begin = NoRun THEN UNCHANGED <<path, parser>> /\ pc' = "done"
     ELSE /\ path' = EndRun(p, i)[1] /\ parser' = p
          /\ pc' = IF Fails(p, i) THEN "error" ELSE "done"
  /\ UNCHANGED <<input, i, begin, commaAsDigit, periodAsDigit>>

Next == NumericNode \/ OtherNode \/ LastPart

-----------------------------------------------------------------------------
TextOf(n) == Norms(SubSeq(original, n.first, n.last))
IsRewritten(n) == n.first # n.last \/ n.norm # original[n.first].norm

(* A text of digits, units and separators the parser accepts is normalized *)
(* to the number it means, and one without separators is refused only for  *)
(* a reason (append, done, get_normalized).                                *)
ParserReadsNumbers ==
  pc = "done" /\ IsNumeral(Norms(original)) => ReadAsMeant(Norms(original))

(* concat_nodes moves nodes, the code's indices with them: the nodes of    *)
(* the path cover the original one without gap or overlap, in order.       *)
PathKeepsNodes ==
  /\ path[1].first = 1 /\ path[Len(path)].last = Len(original)
  /\ \A k \in DOMAIN path : path[k].first <= path[k].last
  /\ \A k \in 1..Len(path) - 1 : path[k + 1].first = path[k].last + 1
  /\ pc = "scan" => i \in 0..Len(path) /\ begin \in 0..i

(* What a node would be if its text were all that was ever read.           *)
IsNumber(n) == Parsed(TextOf(n)).ok
ReadsOwnText(n) ==
  n.norm = IF normalize THEN Normalized(Parsed(TextOf(n)).total) ELSE TextOf(n)

(* All that is wrong with a text is that its numbers do not add up.        *)
OnlySumFails(n) ==
  Range(TextOf(n)) \cap (SmallUnits \cup LargeUnits) # {} /\ Parsed(TextOf(n)).error = "none"
BeforeSeparator(k) == k < Len(path) /\ path[k + 1].norm \in {<<Comma>>, <<Point>>}

(* The parser is shared by all runs of a path and keeps what it read.  Yet *)
(* the form of a joined node (or a single one written in other digits) is  *)
(* what its own text is read to, and the text is a number.  Only before a  *)
(* separator it may be one whose sum fails: the parser tells of a hanging  *)
(* separator before it tells of the sum (done), and what was added by then *)
(* is joined (十 and 000 before a point become 0).  No node is lost or     *)
(* read twice.                                                             *)
JoinedReadsItsText ==
  PathKeepsNodes /\ \A k \in DOMAIN path : IsRewritten(path[k]) =>
    /\ ReadsOwnText(path[k])
    /\ IsNumber(path[k]) \/ (OnlySumFails(path[k]) /\ BeforeSeparator(k))

(* Digits that stand together end in one node, whatever separators stand   *)
(* around them and however often the run was read again.  Three cases are  *)
(* not joined: a run that begins with a node of another part of speech, a  *)
(* unit in the wrong place, and what is only noticed at the end, too late  *)
(* to read the run again: a last group behind a comma that is not of three *)
(* digits, two separators at the end.                                      *)
IsDigits(n) == Range(TextOf(n)) \subseteq Digits
OnlyDigitsAndWords ==
  \A k \in DOMAIN original :
    /\ original[k].num \/ original[k].cats = {}
    /\ Range(original[k].norm) \cap (SmallUnits \cup LargeUnits) = {}
LateError(n) ==
  LET Between(k) == Min({k, n.first})..Max({k, n.first})
      stretch == {k \in DOMAIN original : \A m \in Between(k) :
                    Range(original[m].norm) \subseteq Digits \cup {Point, Comma}}
      chars   == Norms(SubSeq(original, Min(stretch), Max(stretch)))
      commas  == {k \in DOMAIN chars : chars[k] = Comma}
  IN \/ commas # {} /\ Len(chars) - Max(commas) \notin {0, 3}
     \/ SubSeq(chars, Len(chars) - 1, Len(chars)) = <<Point, Comma>>
DigitsAreJoined ==
  pc = "done" /\ OnlyDigitsAndWords =>
    \A k \in 1..Len(path) - 1 :
      IsDigits(path[k]) /\ IsDigits(path[k + 1]) => LateError(path[k])

(* What is written as a number is read as that number, and its digits are  *)
(* not left apart.                                                         *)
NumbersAreRead == ParserReadsNumbers /\ DigitsAreJoined

-----------------------------------------------------------------------------
CONSTANT MinLength  (* minLength: shorter nodes are joined like unknown ones *)

VARIABLES
  words,  (* nodes [first, last] over the original path                    *)
  read    (* nodes of words the scan has passed                            *)

katakanaVars == <<vars, words, read>>

KatakanaInit == Init /\ words = << >> /\ read = 0
-----------------------------------------------------------------------------
(* A joined node is an unknown word.                                       *)
IsOov(n)   == n.first # n.last \/ original[n.first].oov
Lengths(n) == [m \in 1 .. n.last - n.first + 1 |-> original[n.first + m - 1].len]
Characters(lengths) == FoldSeq(+, 0, lengths)
IsShort(n) == Characters(Lengths(n)) < MinLength
IsKatakana(n)     == "KATAKANA" \in SharedCats(n)
CanBeginUnknown(n) == original[n.first].bow

Asks(n) == (IsOov(n) \/ IsShort(n)) /\ IsKatakana(n)

(* The nodes of katakana around node m of p, and the first of them that    *)
(* may begin an unknown word; behind the last one if there is none.        *)
AllKatakana(p, b, e) == \A m \in b .. e : IsKatakana(p[m])
RunBegin(p, m) == CHOOSE b \in 1 .. m :
  AllKatakana(p, b, m) /\ (b > 1 => ~ IsKatakana(p[b - 1]))
RunEnd(p, m) == CHOOSE e \in m .. Len(p) :
  AllKatakana(p, m, e) /\ (e < Len(p) => ~ IsKatakana(p[e + 1]))

Bug_FromNode(p, m) == m

WordBegin(p, m) == CHOOSE b \in RunBegin(p, m) .. RunEnd(p, m) + 1 :
  /\ \A n \in RunBegin(p, m) .. b - 1 : ~ CanBeginUnknown(p[n])
  /\ b <= RunEnd(p, m) => CanBeginUnknown(p[b])

(* concat_oov_nodes: the cheapest node of the lattice over the same        *)
(* characters, or a new unknown word.                                      *)
Concatenated(p, b, e) ==
  SubSeq(p, 1, b - 1) \o <<[first |-> p[b].first, last |-> p[e].last]>> \o SubSeq(p, e + 1, Len(p))
-----------------------------------------------------------------------------
(* do_tokenize gives the path from one rewriter to the next.               *)
NextRewriter ==
  /\ pc = "done"
  /\ pc' = "katakana"
  /\ words' = [m \in DOMAIN path |-> [first |-> path[m].first, last |-> path[m].last]]
  /\ UNCHANGED <<input, path, scan, read>>

Passed == read + 1

PassNode ==
  /\ pc = "katakana" /\ read < Len(words)
  /\ Asks(words[Passed]) => WordBegin(words, Passed) >= RunEnd(words, Passed)
  /\ read' = read + 1
  /\ UNCHANGED <<vars, words>>

(* The node behind the joined one is no katakana: it is passed as well.    *)
JoinRun ==
  LET begin_ == WordBegin(words, Passed) IN
  /\ pc = "katakana" /\ read < Len(words)
  /\ Asks(words[Passed]) /\ begin_ < RunEnd(words, Passed)
  /\ words' = Concatenated(words, begin_, RunEnd(words, Passed))
  /\ read' = begin_ + 1
  /\ UNCHANGED vars

Rewritten ==
  /\ pc = "katakana" /\ read >= Len(words)
  /\ pc' = "rewritten"
  /\ UNCHANGED <<input, path, scan, words, read>>

KatakanaNext ==
  \/ Next /\ UNCHANGED <<words, read>>
  \/ NextRewriter \/ PassNode \/ JoinRun \/ Rewritten

(* Both scans are loops that run until they return.                        *)
RewriteSpec == KatakanaInit /\ [][KatakanaNext]_katakanaVars /\ WF_katakanaVars(KatakanaNext)
-----------------------------------------------------------------------------
(* Where katakana stand together and one of their nodes is unknown or      *)
(* short, they end as one word, with the nodes in front of it that may not *)
(* begin one; other katakana stay as they are.                             *)
RunOf(n) == LET m == CHOOSE m \in DOMAIN path : path[m].first = n.first
            IN {path[j] : j \in RunBegin(path, m) .. RunEnd(path, m)}
Wanted(n)  == \E m \in RunOf(n) : Asks(m)

KatakanaAreJoined ==
  pc = "rewritten" =>
    /\ FlattenSeq([m \in DOMAIN words |-> [j \in 1 .. words[m].last - words[m].first + 1 |->
                                            words[m].first + j - 1]])
         = [j \in DOMAIN original |-> j]
    /\ \A m \in DOMAIN words :
         IF \E j \in DOMAIN path : path[j].first = words[m].first /\ path[j].last = words[m].last
         THEN m < Len(words) /\ IsKatakana(words[m]) /\ IsKatakana(words[m + 1]) /\ Wanted(words[m])
                => ~ CanBeginUnknown(words[m])
         ELSE /\ AllKatakana(words, m, m) /\ Wanted(words[m])
              /\ CanBeginUnknown(words[m])
              /\ m < Len(words) => ~ IsKatakana(words[m + 1])

(* Both scans go back, over nodes they then remove, and still they end.    *)
RewritingEnds == <>(pc = "rewritten")
=============================================================================

--------------------------- MODULE LexicalReports ---------------------------
(***************************************************************************)
(* The commands outline, terms, terms --audit and lexical-audit: what the  *)
(* headings of a text are like, which of its words are terms, how often    *)
(* they stand there and whether they are explained, and what of the        *)
(* compounds of several texts is worth telling.                            *)
(*                                                                         *)
(* A text is [readable, lines]; a line is one of Markdown with tokens, the *)
(* morphemes of its content: [surface, pos, sub], the surface a sequence   *)
(* of characters, pos and sub the first two parts of the part of speech.   *)
(* The surfaces of a line tile it, so neighbours in tokens are neighbours  *)
(* in the line.  NormalOf stands for the normalized forms.                 *)
(***************************************************************************)
EXTENDS Markdown, Integers, FiniteSets, FiniteSetsExt, Functions

CONSTANTS
  KatakanaChars, Dot,      (* the katakana; among them the middle dot      *)
  Alnum, Upper, Digits,    (* of ASCII                                     *)
  CompoundChars,           (* kanji, hiragana, katakana without the dot    *)
  Parens, NewLine,
  NormalOf,                (* character -> characters of the normal form   *)
  GlossMarks,              (* what explains in the context of a term       *)
  GLOSS_MARKERS,           (* what explains right behind a compound        *)
  FORBIDDEN_PHRASES,
  CONTEXT_CHARS,
  TEMPLATE_HEADING_WORDS,
  NumberMarks, DefinitionMarks,  (* a heading begins, ends with            *)
  Requests                 (* [command, inputs, reference] a user asks for *)

ASSUME ContextAssumption == CONTEXT_CHARS \in Nat \ {0}

VARIABLES
  request,
  stage,       (* "open", "read", "analyze", "forbidden", "variation",     *)
               (* "register", "novel", "printed" or "failed"               *)
  next,        (* the input the stage comes to                             *)
  reports,     (* terms, outline: what is found in each input              *)
  table,       (* terms --audit: term -> [normalized, total, files]        *)
  candidates,  (* lexical-audit: the compounds of each input               *)
  findings     (* lexical-audit: [term, at, line, category, of], at the    *)
               (* input and of the reason among several                    *)

reportVars == <<request, stage, next, reports, table, candidates, findings>>

inputs    == request.inputs
reference == request.reference
-----------------------------------------------------------------------------
(* Strings.                                                                *)

Surfaces(tokens) == FlattenSeq([k \in DOMAIN tokens |-> tokens[k].surface])
StringOf(line)   == Surfaces(line.tokens)

Stands(t, s, i) == i + Len(t) - 1 <= Len(s) /\ SubSeq(s, i, i + Len(t) - 1) = t
HasPart(s, t)  == \E i \in DOMAIN s : Stands(t, s, i)

(* match_indices: matches do not overlap.                                  *)
Matches(s, t) ==
  LET from[i \in 1 .. Len(s) + Len(t)] ==
        IF i > Len(s) THEN 0 ELSE IF Stands(t, s, i) THEN 1 + from[i + Len(t)] ELSE from[i + 1]
  IN from[1]

Trimmed(s) ==
  LET ks == {k \in DOMAIN s : s[k] # Dot}
  IN IF ks = {} THEN << >> ELSE SubSeq(s, Min(ks), Max(ks))

Normalized(s) == FlattenSeq([k \in DOMAIN s |-> NormalOf[s[k]]])

All(chars, s) == ToSet(s) \subseteq chars

(* The text without comments; of that the lines of prose with the          *)
(* headings, and without them.                                             *)
NoComments(text) == mask_html_comments(text.lines)
ProseOf(text, shown) ==
  [n \in DOMAIN text.lines |-> IF shown[n] THEN NoComments(text)[n] ELSE BlankLine]
TermLines(text) == ProseOf(text, MaskWith(TRUE, text.lines))
WordLines(text) == ProseOf(text, mask_markdown_structure(text.lines))
BodyOf(lines) == FlattenSeq([n \in DOMAIN lines |-> StringOf(lines[n]) \o <<NewLine>>])
-----------------------------------------------------------------------------
(* terms::analyze.                                                         *)

katakana(t) == All(KatakanaChars, t.surface)
capitalized_latin(s) == s[1] \in Upper /\ All(Alnum, s) /\ Len(s) >= 2
proper_noun(t) ==
  IF All(Alnum, t.surface) THEN capitalized_latin(t.surface)
  ELSE t.pos = "noun" /\ t.sub = "proper" /\ Len(t.surface) >= 2

(* [A-Z]{2,}[0-9]* with no letter and no digit around it.                  *)
Acronyms(s) ==
  {r \in [from : DOMAIN s, to : DOMAIN s] :
     /\ r.from > 1 => s[r.from - 1] \notin Alnum
     /\ r.to < Len(s) => s[r.to + 1] \notin Alnum
     /\ \E u \in r.from + 1 .. r.to : /\ \A i \in r.from .. u : s[i] \in Upper
                                      /\ \A i \in u + 1 .. r.to : s[i] \in Digits}

(* A run goes on as it began.                                              *)
RunEnd(tokens, b) ==
  Max({e \in b .. Len(tokens) :
         \A k \in b .. e : IF katakana(tokens[b]) THEN katakana(tokens[k])
                           ELSE proper_noun(tokens[k])})

Runs(tokens) ==
  LET from[k \in 1 .. Len(tokens) + 1] ==
        IF k > Len(tokens) THEN {}
        ELSE IF katakana(tokens[k]) \/ proper_noun(tokens[k])
        THEN {[from |-> k, to |-> RunEnd(tokens, k)]} \cup from[RunEnd(tokens, k) + 1]
        ELSE from[k + 1]
  IN from[1]

Bug_DotJoins(tokens, r) ==
  \/ r.from > 1 /\ tokens[r.from - 1].pos \in {"noun", "pronoun", "prefix"}
  \/ r.to < Len(tokens) /\ tokens[r.to + 1].pos \in {"noun", "pronoun", "suffix"}

(* A piece of a longer compound; a middle dot only enumerates.             *)
Joined(tokens, r) ==
  \/ /\ r.from > 1 /\ tokens[r.from - 1].pos \in {"noun", "pronoun", "prefix"}
     /\ tokens[r.from].surface[1] # Dot
  \/ /\ r.to < Len(tokens) /\ tokens[r.to + 1].pos \in {"noun", "pronoun", "suffix"}
     /\ Last(tokens[r.to].surface) # Dot

TermOf(tokens, r) == Trimmed(Surfaces(SubSeq(tokens, r.from, r.to)))

IsTerm(tokens, r) ==
  /\ TermOf(tokens, r) # << >>
  /\ katakana(tokens[r.from]) => ~Joined(tokens, r) /\ Len(TermOf(tokens, r)) >= 3

TermsIn(line) ==
  {SubSeq(StringOf(line), r.from, r.to) : r \in Acronyms(StringOf(line))}
    \cup {TermOf(line.tokens, r) : r \in {r \in Runs(line.tokens) : IsTerm(line.tokens, r)}}

(* The lines that register a term; the first one is told.                  *)
LinesWith(text, term) ==
  {n \in DOMAIN text.lines : term \in TermsIn(TermLines(text)[n])}

(* context_and_gloss: CONTEXT_CHARS around the first place in the line,    *)
(* over the ends of lines.                                                 *)
HasGloss(text, term, n) ==
  LET body  == BodyOf(NoComments(text))
      line  == StringOf(NoComments(text)[n])
      lead  == Len(BodyOf(SubSeq(NoComments(text), 1, n - 1)))
      start == lead + Min({i \in DOMAIN line : Stands(term, line, i)})
      end   == start + Len(term)
      context == SubSeq(body, Max({1, start - CONTEXT_CHARS}), Min({Len(body), end - 1 + CONTEXT_CHARS}))
  IN \/ end <= Len(body) /\ body[end] \in Parens
     \/ \E m \in GlossMarks : HasPart(context, m)

(* The terms of one text by their first line.                              *)
Analyze(text) ==
  LET terms == UNION {TermsIn(line) : line \in ToSet(TermLines(text))}
  IN [term \in terms |->
        LET first == Min(LinesWith(text, term))
        IN [line |-> first, count |-> Matches(BodyOf(NoComments(text)), term),
            gloss |-> HasGloss(text, term, first)]]
-----------------------------------------------------------------------------
(* outline::analyze.  Means and ratios are kept as the counts they are of. *)

(* The last token that is no symbol.                                       *)
nominal(tokens) ==
  LET words == {k \in DOMAIN tokens : tokens[k].pos # "symbol"}
  IN words # {} /\ tokens[Max(words)].pos \in {"noun", "pronoun"}

signature(tokens) ==
  LET parts == SelectSeq(tokens, LAMBDA t : t.pos \in {"noun", "pronoun", "adjectival", "verb",
                                                      "adjective", "adverb", "prefix"})
  IN [k \in DOMAIN parts |-> parts[k].pos]

stripped_heading(s) ==
  LET ks == {k \in DOMAIN s : s[k] \notin Digits \cup Parens}
  IN IF ks = {} THEN << >> ELSE SubSeq(s, Min(ks), Len(s))

(* The first template word the heading begins with, in their order.        *)
template_word(s) ==
  LET ks == {k \in DOMAIN TEMPLATE_HEADING_WORDS :
               stripped_heading(s) # << >> /\ Stands(TEMPLATE_HEADING_WORDS[k], stripped_heading(s), 1)}
  IN IF ks = {} THEN 0 ELSE Min(ks)

structural_pattern(s) ==
  \/ \E m \in NumberMarks : Stands(m, s, 1) /\ Len(s) > Len(m)
  \/ Len(s) >= 3 /\ {s[1], Last(s)} \subseteq Parens
  \/ \E m \in DefinitionMarks : Len(s) > Len(m) /\ Stands(m, s, Len(s) - Len(m) + 1)

(* The headings of one group, given by their lines.                        *)
Summarize(text, ns) ==
  LET tokens(n) == text.lines[n].tokens
      s(n) == StringOf(text.lines[n])
      alike(sig) == Cardinality({n \in ns : signature(tokens(n)) = sig})
      parts == {signature(tokens(n)) : n \in ns} \ {<< >>}
  IN [count |-> Cardinality(ns),
      length |-> MapThenSumSet(LAMBDA n : Len(s(n)), ns),
      nominal |-> Cardinality({n \in ns : nominal(tokens(n))}),
      dominant |-> Max({0} \cup {alike(sig) : sig \in parts}),
      template |-> {<<n, template_word(s(n))>> : n \in {n \in ns : template_word(s(n)) # 0}},
      structural |-> Cardinality({n \in ns : structural_pattern(s(n))})]

Bug_HeadingsUpTo(headings, level) == {h.line : h \in {h \in headings : h.size <= level}}
HeadingsAt(headings, level) == {h.line : h \in {h \in headings : h.size = level}}

AnalyzeOutline(text) ==
  LET outline == build_outline(text.lines)
      headings == {e \in ToSet(outline) : e.kind = "heading"}
  IN [outline |-> outline,
      by_level |-> [level \in {h.size : h \in headings} |->
                      Summarize(text, HeadingsAt(headings, level))],
      overall |-> Summarize(text, {h.line : h \in headings})]
-----------------------------------------------------------------------------
(* lexical::audit.                                                         *)

IsValid(ref) ==
  /\ ref.version = 1
  /\ \A i \in DOMAIN ref.sets : ref.sets[i].id # "" /\ Len(ref.sets[i].terms) >= 2

compound_component(t) ==
  (t.pos = "noun" /\ t.sub = "common") \/ t.pos \in {"suffix", "adjectival"}

valid_surface(s) == Len(s) \in 2 .. 20 /\ All(CompoundChars, s)

(* Up to four components; the next compound begins behind them.            *)
CompoundEnd(tokens, b) ==
  Max({e \in b .. Min({b + 3, Len(tokens)}) : \A k \in b .. e : compound_component(tokens[k])})

Compounds(tokens) ==
  LET from[k \in 1 .. Len(tokens) + 1] ==
        IF k > Len(tokens) THEN << >>
        ELSE IF ~compound_component(tokens[k]) \/ tokens[k].pos = "suffix" THEN from[k + 1]
        ELSE <<SubSeq(tokens, k, CompoundEnd(tokens, k))>> \o from[CompoundEnd(tokens, k) + 1]
  IN from[1]

CompoundsIn(line) ==
  LET found == SelectSeq(Compounds(line.tokens), LAMBDA c : Len(c) >= 2 /\ valid_surface(Surfaces(c)))
  IN [i \in DOMAIN found |-> Surfaces(found[i])]

(* extract_candidates: the compounds of one text by their first line.      *)
Candidates(text) ==
  LET of == [n \in DOMAIN text.lines |-> CompoundsIn(WordLines(text)[n])]
      lines(term) == {n \in DOMAIN of : term \in ToSet(of[n])}
      times(n, term) == Cardinality({i \in DOMAIN of[n] : of[n][i] = term})
  IN [term \in UNION {ToSet(of[n]) : n \in DOMAIN of} |->
        [line |-> Min(lines(term)),
         count |-> MapThenSumSet(LAMBDA n : times(n, term), lines(term)),
         gloss |-> \E n \in lines(term), m \in GLOSS_MARKERS :
                     HasPart(StringOf(WordLines(text)[n]), term \o m)]]

Finding(term, at, line, category, of) ==
  [term |-> term, at |-> at, line |-> line, category |-> category, of |-> of]

(* The lines of an input somebody sees a string in.                        *)
LinesOf(at, s) ==
  {n \in DOMAIN inputs[at].lines : HasPart(StringOf(WordLines(inputs[at])[n]), s)}
InputsOf(s) == {at \in DOMAIN inputs : LinesOf(at, s) # {}}

ForbiddenIn(at) ==
  {Finding(p, at, Min(LinesOf(at, p)), "forbidden_match", "") :
     p \in {p \in FORBIDDEN_PHRASES : LinesOf(at, p) # {}}}

Spellings(form) ==
  {term \in UNION {DOMAIN candidates[at] : at \in DOMAIN candidates} : Normalized(term) = form}

Variations ==
  UNION {{Finding(term, at, candidates[at][term].line, "orthographic_variation", "") :
            term \in {t \in DOMAIN candidates[at] : Cardinality(Spellings(Normalized(t))) > 1}} :
         at \in DOMAIN candidates}

(* Where a term of a register set is told: at its first candidate or,      *)
(* where it is none, at the first line that contains it.                   *)
PlaceOf(term) ==
  LET own == {at \in DOMAIN candidates : term \in DOMAIN candidates[at]}
      at  == Min(InputsOf(term))
  IN IF own # {} THEN <<Min(own), candidates[Min(own)][term].line>>
     ELSE <<at, Min(LinesOf(at, term))>>

RegistersOf(set) ==
  LET present == {t \in ToSet(set.terms) : InputsOf(t) # {}}
      several == Len(SelectSeq(set.terms, LAMBDA t : t \in present)) >= 2
  IN {Finding(t, PlaceOf(t)[1], PlaceOf(t)[2], "register_variation", set.id) :
        t \in {t \in present : several}}

IsNovel(term, c) ==
  /\ term \in DOMAIN reference.counts /\ reference.counts[term] <= 1
  /\ c.count <= 5 /\ ~c.gloss
  /\ term \notin reference.known

Bug_ToldHere(term, at) == \E f \in findings : f.term = term /\ f.at = at
Told(term, at) == \E f \in findings : f.term = term
-----------------------------------------------------------------------------
ReportInit ==
  /\ request \in Requests
  /\ stage = "open" /\ next = 1
  /\ reports = << >> /\ table = << >> /\ candidates = << >> /\ findings = {}

Fail ==
  /\ stage' = "failed"
  /\ UNCHANGED <<request, next, reports, table, candidates, findings>>

(* The reference is parsed before the inputs are read and looked into when *)
(* all of them are there.                                                  *)
Open ==
  /\ stage = "open"
  /\ IF request.command = "lexical" /\ ~reference.parses THEN Fail
     ELSE /\ stage' = "read"
          /\ UNCHANGED <<request, next, reports, table, candidates, findings>>

ReadInput ==
  /\ stage = "read" /\ next <= Len(inputs)
  /\ IF ~inputs[next].readable THEN Fail
     ELSE /\ next' = next + 1
          /\ reports' = CASE request.command = "terms" -> Append(reports, Analyze(inputs[next]))
                          [] request.command = "outline" -> Append(reports, AnalyzeOutline(inputs[next]))
                          [] OTHER -> reports
          /\ UNCHANGED <<request, stage, table, candidates, findings>>

AllRead ==
  /\ stage = "read" /\ next > Len(inputs)
  /\ IF request.command = "lexical" /\ ~IsValid(reference) THEN Fail
     ELSE /\ stage' = IF request.command \in {"terms", "outline"} THEN "printed" ELSE "analyze"
          /\ next' = 1
          /\ UNCHANGED <<request, reports, table, candidates, findings>>

(* terms::audit of one file.                                               *)
AddTerms ==
  LET found == Analyze(inputs[next])
      known(term) == IF term \in DOMAIN table THEN table[term]
                     ELSE [normalized |-> Normalized(term), total |-> 0, files |-> << >>]
  IN
  /\ stage = "analyze" /\ request.command = "audit" /\ next <= Len(inputs)
  /\ table' = [term \in DOMAIN table \cup DOMAIN found |->
                 IF term \in DOMAIN found
                 THEN [known(term) EXCEPT !.total = @ + found[term].count,
                                          !.files = Append(@, [at |-> next, of |-> found[term]])]
                 ELSE table[term]]
  /\ next' = next + 1
  /\ UNCHANGED <<request, stage, reports, candidates, findings>>

ExtractCandidates ==
  /\ stage = "analyze" /\ request.command = "lexical" /\ next <= Len(inputs)
  /\ candidates' = Append(candidates, Candidates(inputs[next]))
  /\ next' = next + 1
  /\ UNCHANGED <<request, stage, reports, table, findings>>

ToStage(s) ==
  /\ stage' = s /\ next' = 1
  /\ UNCHANGED <<request, reports, table, candidates, findings>>

Analyzed ==
  /\ stage = "analyze" /\ next > Len(inputs)
  /\ ToStage(IF request.command = "audit" THEN "printed" ELSE "forbidden")

Add(fs, s) ==
  /\ findings' = findings \cup fs
  /\ IF s = stage THEN next' = next + 1 ELSE next' = 1
  /\ stage' = s
  /\ UNCHANGED <<request, reports, table, candidates>>

MatchForbidden == stage = "forbidden" /\ next <= Len(inputs) /\ Add(ForbiddenIn(next), "forbidden")
ForbiddenDone  == stage = "forbidden" /\ next > Len(inputs) /\ ToStage("variation")
AddVariations  == stage = "variation" /\ Add(Variations, "register")
AddRegister ==
  /\ stage = "register" /\ next <= Len(reference.sets)
  /\ Add(RegistersOf(reference.sets[next]), "register")
RegistersDone  == stage = "register" /\ next > Len(reference.sets) /\ ToStage("novel")

(* What something else was said of already is not told again.              *)
AddNovel ==
  /\ stage = "novel" /\ next <= Len(candidates)
  /\ Add({Finding(term, next, candidates[next][term].line, "novel_compound", "") :
            term \in {t \in DOMAIN candidates[next] : /\ IsNovel(t, candidates[next][t])
                                                      /\ ~Told(t, next)}}, "novel")
NovelDone == stage = "novel" /\ next > Len(candidates) /\ ToStage("printed")

ReportNext ==
  \/ Open \/ ReadInput \/ AllRead
  \/ AddTerms \/ ExtractCandidates \/ Analyzed
  \/ MatchForbidden \/ ForbiddenDone \/ AddVariations \/ AddRegister \/ RegistersDone
  \/ AddNovel \/ NovelDone

ReportSpec == ReportInit /\ [][ReportNext]_reportVars
-----------------------------------------------------------------------------
Printed(command) == stage = "printed" /\ request.command = command

(* Whether a stretch of katakana and middle dots of a line is one word or  *)
(* an enumeration of them, by the characters of the line: nothing of a     *)
(* compound stands beside it.  A dot at its end divides it from anything.  *)
EndOf(tokens, k) == Len(Surfaces(SubSeq(tokens, 1, k)))
Alone(line, from, to) ==
  LET s == StringOf(line) IN
  /\ \E k, l \in DOMAIN line.tokens :
       /\ EndOf(line.tokens, k - 1) = from - 1 /\ EndOf(line.tokens, l) = to
       /\ k > 1 /\ s[from] # Dot => line.tokens[k - 1].pos \notin {"noun", "pronoun", "prefix"}
       /\ l < Len(line.tokens) /\ s[to] # Dot => line.tokens[l + 1].pos \notin {"noun", "pronoun", "suffix"}
Stretches(s) ==
  {r \in [from : DOMAIN s, to : DOMAIN s] :
     /\ r.from <= r.to /\ All(KatakanaChars, SubSeq(s, r.from, r.to))
     /\ r.from > 1 => s[r.from - 1] \notin KatakanaChars
     /\ r.to < Len(s) => s[r.to + 1] \notin KatakanaChars}

(* analyze misses no katakana word of a visible line that stands alone,    *)
(* takes no term from a line nobody sees, tells the first of the lines a   *)
(* term is found in and counts it at least once for each of them.          *)
ReportOf(text, report) ==
  /\ \A n \in DOMAIN text.lines :
       LET line == TermLines(text)[n] IN
       \A r \in Stretches(StringOf(line)) :
         LET word == Trimmed(SubSeq(StringOf(line), r.from, r.to)) IN
         Alone(line, r.from, r.to) /\ Len(word) >= 3 =>
           \E term \in DOMAIN report : HasPart(term, word) /\ report[term].line <= n
  /\ \A term \in DOMAIN report :
       LET lines == LinesWith(text, term) IN
       /\ report[term].line \in lines /\ \A n \in lines : report[term].line <= n
       /\ \A n \in lines : HasPart(StringOf(text.lines[n]), term)
       /\ report[term].count >= Cardinality(lines)

(* terms --audit says of each file what terms says of it, in the order of  *)
(* the inputs, and its totals leave none of them out or count it twice.    *)
AuditOf(entry, term) ==
  LET told == entry.files IN
  /\ \A i \in 1 .. Len(told) - 1 : told[i].at < told[i + 1].at
  /\ {told[i].at : i \in DOMAIN told} = {at \in DOMAIN inputs : term \in DOMAIN Analyze(inputs[at])}
  /\ \A i \in DOMAIN told : told[i].of = Analyze(inputs[told[i].at])[term]
  /\ entry.total = MapThenSumSet(LAMBDA at : Matches(BodyOf(NoComments(inputs[at])), term),
                                 {told[i].at : i \in DOMAIN told})

(* terms and terms --audit (terms.rs).                                     *)
TermsAreFoundAndCounted ==
  /\ Printed("terms") =>
       /\ Len(reports) = Len(inputs)
       /\ \A at \in DOMAIN inputs : ReportOf(inputs[at], reports[at])
  /\ Printed("audit") => \A term \in DOMAIN table : AuditOf(table[term], term)

(* The headings the outline tells are those terms are looked for in, each  *)
(* in one level; the levels add up to the text, and the shape most of its  *)
(* headings have is as frequent as that of any level (outline.rs).         *)
HeadingsAddUp ==
  Printed("outline") =>
    \A at \in DOMAIN inputs :
      LET r == reports[at]
          told == {e \in ToSet(r.outline) : e.kind = "heading"}
          seen == {n \in DOMAIN inputs[at].lines : TermLines(inputs[at])[n].kind = "heading"}
          levels == DOMAIN r.by_level
          sum(f(_)) == MapThenSumSet(LAMBDA l : f(r.by_level[l]), levels)
      IN /\ {e.line : e \in told} = seen
         /\ r.overall.count = Cardinality(seen)
         /\ r.overall.count = sum(LAMBDA g : g.count)
         /\ r.overall.length = sum(LAMBDA g : g.length)
         /\ r.overall.nominal = sum(LAMBDA g : g.nominal)
         /\ r.overall.structural = sum(LAMBDA g : g.structural)
         /\ r.overall.template = UNION {r.by_level[l].template : l \in levels}
         /\ r.overall.dominant <= sum(LAMBDA g : g.dominant)
         /\ \A l \in levels : r.by_level[l].count > 0 /\ r.by_level[l].dominant <= r.overall.dominant

(* What the reports tell of a text is all of it, each part once: no term   *)
(* is missed or counted short, no total and no level leaves anything out   *)
(* (terms and terms --audit in terms.rs, outline in outline.rs).           *)
ReportsAddUp == TermsAreFoundAndCounted /\ HeadingsAddUp

(* The lines of a finding show its term to the reader: none lies in code,  *)
(* in a comment or in front matter.                                        *)
InSight(f) ==
  /\ mask_markdown_structure(inputs[f.at].lines)[f.line]
  /\ HasPart(StringOf(NoComments(inputs[f.at])[f.line]), f.term)

(* A spelling is told only beside another one of the same normal form, a   *)
(* word of a register set only beside another one of that set, wherever in *)
(* the inputs the other stands.                                            *)
HasPartner(f) ==
  \E g \in findings :
    /\ g.category = f.category /\ g.of = f.of /\ g.term # f.term
    /\ f.category = "orthographic_variation" => Normalized(g.term) = Normalized(f.term)

(* A compound nobody explains is told where it is first seldom, and only   *)
(* if nothing else was said of that word, in any of the inputs.            *)
ToldOnce(f) ==
  /\ \A g \in findings : g.term = f.term => g = f
  /\ \A at \in 1 .. f.at - 1 :
       f.term \in DOMAIN candidates[at] => ~IsNovel(f.term, candidates[at][f.term])

(* lexical::audit gives no finding without its reason and keeps none back: *)
(* what reads like a new compound in some input is told, as that or as     *)
(* something else, and every spelling of a word that has two.              *)
FindingsHaveReasons ==
  Printed("lexical") =>
    /\ \A f \in findings :
         /\ InSight(f)
         /\ f.category \in {"orthographic_variation", "register_variation"} => HasPartner(f)
         /\ f.category = "novel_compound" => ToldOnce(f)
    /\ \A at \in DOMAIN candidates : \A term \in DOMAIN candidates[at] :
         IsNovel(term, candidates[at][term]) => \E f \in findings : f.term = term
    /\ \A at, bt \in DOMAIN candidates :
         \A t \in DOMAIN candidates[at], u \in DOMAIN candidates[bt] :
           t # u /\ Normalized(t) = Normalized(u) =>
             \E f \in findings : f.term = t /\ f.at = at /\ f.category = "orthographic_variation"
=============================================================================

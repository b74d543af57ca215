---------------------------- MODULE MCDocuments ----------------------------
(* The commands that read documents.  A user either writes a manuscript    *)
(* and has it audited: all drafts of up to three kinds of lines, longer    *)
(* ones of fewer kinds, one manuscript that can be delivered, with good    *)
(* and bad files for it; or asks for one of the reports: texts of up to    *)
(* two kinds of lines and some with code, comments, front matter and       *)
(* headings; terms of one, audits of two of the shorter ones, compounds of *)
(* two texts with references that know, count or group them.               *)
EXTENDS AcademicAudit, LexicalReports

Line(kind, block) ==
  Plain @@ [block |-> block, omit |-> FALSE, keys |-> {}, ids |-> << >>, notes |-> {}, entry |-> FALSE]
Of(kind, block) == [Line(kind, block) EXCEPT !.kind = kind]
Title(mark, level) == [Of("heading", mark) EXCEPT !.mark = mark, !.size = level]
K(author) == [author |-> author, year |-> 1]
Cites(author) == [Of("text", "claim") EXCEPT !.keys = {K(author)}]
Entry(author) == [Of("text", "entry") EXCEPT !.keys = {K(author)}, !.entry = TRUE]

MCBlankLine == [tokens |-> << >>] @@ Of("blank", "nothing")
Rule == Of("rule", "rule")
Fence == [Of("fence", "code") EXCEPT !.mark = "tick", !.size = 3]
Note == [Of("note", "note") EXCEPT !.mark = "n", !.ids = <<"x">>]
JpNote == [Of("jpnote", "aside") EXCEPT !.mark = "m"]
More == [Of("text", "more") EXCEPT !.indent = 2]
Omitted == [Of("text", "left out") EXCEPT !.omit = TRUE]
OmittedNote == [Note EXCEPT !.omit = TRUE]
Refers == [Of("text", "claim") EXCEPT !.notes = {"n"}]
Id(kind, ids) == [Of(kind, "claim") EXCEPT !.ids = ids, !.entry = TRUE]

Structure == {Rule, Fence, Title("plain", 1), Title("plain", 2), Title("references", 1),
              Title("notes", 1), JpNote, More, Refers}
Kinds == Structure \cup
  {MCBlankLine, [MCBlankLine EXCEPT !.indent = 2], Title("references", 2), Note, OmittedNote,
   Omitted, [Note EXCEPT !.opens = TRUE],
   Of("table", "cells"), [Refers EXCEPT !.opens = TRUE], [Refers EXCEPT !.closes = TRUE],
   [Fence EXCEPT !.size = 4], Cites(<<"a">>), Entry(<<"a">>)}
Citing == {Cites(<<"a">>), Cites(<<"k">>), Cites(<<"k", "l">>), Id("text", <<"x">>), Id("table", <<"y">>)}
Entries == {Entry(<<"a">>), Entry(<<"b">>), Entry(<<"k">>), Entry(<<"l">>), Id("text", <<"x">>),
            Id("text", <<"y">>), Id("text", <<"x", "x">>), More}

Paper == <<Title("plain", 1), MCBlankLine, [Cites(<<"a">>) EXCEPT !.notes = {"n"}],
           [Of("text", "result") EXCEPT !.indent = 0],
           [Of("note", "note") EXCEPT !.mark = "n"],
           Title("references", 1), [Entry(<<"b">>) EXCEPT !.block = "entry"]>>
Reordered == <<Paper[1], Paper[2], Paper[4], Paper[3], Paper[5], Paper[6], Paper[7]>>

Item(mark, indent) == [Of("item", "item") EXCEPT !.mark = mark, !.indent = indent, !.size = 1]
Deep(line) == [line EXCEPT !.indent = 2]
Announces(n) == [Of("text", "claim") EXCEPT !.size = n]
Listing == {Item("bullet", 0), Deep(Item("bullet", 0)), MCBlankLine, More, Deep(Fence),
            Of("text", "claim")}
Odd == {Item("number", 0), [Item("bullet", 0) EXCEPT !.size = 0], Title("plain", 1), Fence,
        [Deep(Fence) EXCEPT !.size = 4], [Fence EXCEPT !.bare = FALSE]}
Lead(n, rest) == <<Announces(n)>> \o rest

Labelled(mark) == [Item("bullet", 0) EXCEPT !.decor = {"label", mark}, !.ends = "verb"]
Long == [Item("number", 0) EXCEPT !.words = 3]
LeadsOver(indent) == [Of("text", "claim") EXCEPT !.lead = TRUE, !.indent = indent]
Mute == [Item("bullet", 0) EXCEPT !.words = 0]
Shapes == {Item("bullet", 0), Long, Labelled("emoji"), LeadsOver(0), Mute, MCBlankLine,
           Fence, Of("quote", "claim")}

MCDrafts ==
  UNION {[1..n -> Shapes] : n \in 1..4} \cup
  {<<a>> \o [i \in 1..n |-> Item("bullet", 0)] \o <<b>> \o [i \in 1..m |-> c] :
     a \in Shapes, b \in Shapes, c \in {Item("bullet", 0), Long}, n \in 2..5, m \in 0..4} \cup
  UNION {{Lead(2, <<i>> \o r) : i \in Listing, r \in [1..n -> Listing]} : n \in 1..3} \cup
  {Lead(2, <<Item("bullet", 0)>> \o r) : r \in [1..4 -> Listing]} \cup
  {Lead(2, <<Item("bullet", 0), a, o, b, Item("bullet", 0)>>) : a \in Listing, b \in Listing, o \in Odd} \cup
  UNION {[1..n -> Kinds] : n \in 1..3} \cup [1..4 -> Structure] \cup
  {<<c>> \o <<Title("references", 1)>> \o e : c \in Citing, e \in UNION {[1..n -> Entries] : n \in 1..2}} \cup
  {<<c, d, Title("references", 1), e>> : c \in Citing, d \in Citing, e \in Entries} \cup
  {Paper}
MCSources == {Paper, Reordered}

MCContract ==
  [central_claim |-> "claim", explanandum |-> "result",
   terms |-> {[term |-> "claim", status |-> "source-specific", source |-> "result"]},
   required_order |-> <<"claim", "result">>,
   first_sentence_order |-> <<"claim">>, section_bridges |-> {},
   note_decisions |-> {[marker |-> "n", disposition |-> "note", text |-> "note"]},
   sync_omit_fragments |-> {"header"}, docx_mutable_entries |-> {"core"},
   docx_layout_order |-> <<"claim">>]

Parts == [types |-> [a |-> 1], relations |-> [a |-> 1], picture |-> [a |-> 1], styles |-> [a |-> 1],
          core |-> [a |-> 1]]
MCMedia == {"picture", "picture 2"}
Blocks == <<"plain", "claim", "result", "references", "entry", "header", "note">>
MCTemplate == [text |-> << >>, items |-> << >>, sections |-> <<"A4">>, rules |-> [r |-> 1], parts |-> Parts]
Good == [MCTemplate EXCEPT !.text = Blocks,
           !.items = <<<<"text">>, <<"table">>, <<"caption", "table">>>>,
           !.parts = [@ EXCEPT !.relations = @ @@ [b |-> 1], !.core = [a |-> 2]] @@
                      [x \in {"picture 2"} |-> [a |-> 1]]]
MCDocxs ==
  {Good, [Good EXCEPT !.text = Append(@, "claim")],
   [Good EXCEPT !.sections = <<"A4", "A4">>], [Good EXCEPT !.rules = << >>],
   [Good EXCEPT !.parts.styles = [a |-> 2]], [Good EXCEPT !.parts.relations = [b |-> 1]],
   [Good EXCEPT !.parts.picture = [a |-> 2]],
   [Good EXCEPT !.items = <<<<"caption", "table">>, <<"table">>>>],
   [Good EXCEPT !.items = <<<<"table">>, <<"caption", "table">>, <<"figure">>>>]}
MCPdfs == {Blocks, Tail(Blocks)}
MCDeclarations == {[exporter |-> "Microsoft Word", reviewed |-> r] : r \in BOOLEAN}
MCInvocations == {{}, {"docx"}, Deliverables}
MCAliases == <<"b">> :> <<"a">>
MCKanji == {"k", "l"}
-----------------------------------------------------------------------------
Token(surface, pos, sub) == [surface |-> surface, pos |-> pos, sub |-> sub]
Noun(c)  == Token(<<c>>, "noun", "common")
Kata     == Token(<<"k", "l", "m">>, "noun", "common")
Short    == Token(<<"k", "l">>, "noun", "common")
Middle   == Token(<<"dot">>, "symbol", "none")
Proper   == Token(<<"p", "q">>, "noun", "proper")
Acronym  == Token(<<"A", "B", "1">>, "noun", "common")
Broken   == Token(<<"A", "B", "c">>, "noun", "common")
Particle == Token(<<"h">>, "particle", "none")
Suffix   == Token(<<"s">>, "suffix", "none")
Marker   == Token(<<"g">>, "particle", "none")
Bracket  == Token(<<"(">>, "symbol", "none")
Phrase   == Token(<<"f">>, "adverb", "none")

Words(tokens) == Plain @@ [tokens |-> tokens]
WordFence        == [Words(<< >>) EXCEPT !.kind = "fence", !.mark = "tick", !.size = 3]
WordRule         == [Words(<< >>) EXCEPT !.kind = "rule"]
WordHeading(ts)  == [Words(ts) EXCEPT !.kind = "heading", !.size = 1]
WordOpening(ts)  == [Words(ts) EXCEPT !.opens = TRUE]
WordClosing(ts)  == [Words(ts) EXCEPT !.closes = TRUE]

MCNormalOf ==
  [c \in {"k", "l", "m", "dot", "p", "q", "A", "B", "1", "c", "h", "s", "g", "(", "f", "x", "y", "w", "v"} |->
     CASE c = "w" -> <<"x">> [] c = "m" -> <<"l">> [] OTHER -> <<c>>]

TermTokens ==
  {<<Kata>>, <<Short, Particle>>, <<Noun("x"), Kata>>, <<Kata, Suffix>>, <<Noun("x"), Middle, Kata>>,
   <<Kata, Middle, Noun("x")>>, <<Short, Middle, Short, Particle, Kata>>, <<Particle, Kata, Kata, Marker>>,
   <<Proper, Proper, Bracket>>, <<Acronym, Particle, Broken>>, <<Proper, Kata>>, <<Middle>>,
   <<Kata, Middle, Short, Suffix>>}
Framed(line) ==
  {<<WordFence, line, WordFence, line>>, <<WordRule, line, WordRule, line>>, <<line, WordFence, line>>,
   <<WordOpening(<<Particle>>), line, WordClosing(<<Kata>>), line>>, <<WordHeading(line.tokens), line>>}
TermTexts ==
  {<<Words(t)>> : t \in TermTokens} \cup {<<Words(t), Words(u)>> : t \in TermTokens, u \in TermTokens}
    \cup UNION {Framed(Words(t)) : t \in {<<Kata>>, <<Particle, Kata, Kata, Marker>>, <<Acronym, Particle, Broken>>}}

Compound(a, b) == <<Noun(a), Noun(b)>>
Often == FlattenSeq([i \in 1 .. 6 |-> Compound("x", "y") \o <<Particle>>])
WordTexts ==
  {<<Words(Compound("x", "y"))>>, <<Words(Compound("x", "y") \o <<Marker>>)>>,
   <<Words(<<Phrase>> \o Compound("w", "y"))>>, <<Words(Often)>>, <<Words(<<Particle>>)>>,
   <<Words(<<Suffix>> \o Compound("v", "y") \o Compound("v", "y") \o Compound("x", "y"))>>,
   <<MCBlankLine, Words(<<Noun("v"), Suffix, Particle, Noun("v"), Suffix, Marker>>), Words(<<Phrase>>)>>}
    \cup Framed(Words(Compound("x", "y")))

In(lines) == [readable |-> TRUE, lines |-> lines]
Unreadable == [readable |-> FALSE, lines |-> << >>]
NoReference == [parses |-> FALSE]

Set(id, terms) == [id |-> id, terms |-> terms]
Reference(counts, known, sets) ==
  [parses |-> TRUE, version |-> 1, counts |-> counts, known |-> known, sets |-> sets]
Seldom == <<"x", "y">> :> 0 @@ <<"w", "y">> :> 1 @@ <<"v", "y", "v", "y">> :> 0 @@ <<"v", "s">> :> 0
References ==
  {Reference(Seldom, {}, << >>), Reference(Seldom, {<<"x", "y">>}, << >>),
   Reference(<<"x", "y">> :> 2 @@ <<"v", "s">> :> 1, {}, << >>),
   Reference(Seldom, {}, <<Set("a", << <<"x", "y">>, <<"h">>, <<"v", "s">> >>), Set("b", << <<"f">>, <<"y">> >>)>>)}
BadReferences ==
  {NoReference, [Reference(Seldom, {}, << >>) EXCEPT !.version = 2],
   Reference(Seldom, {}, <<Set("a", << <<"x">> >>)>>), Reference(Seldom, {}, <<Set("", << <<"x">>, <<"y">> >>)>>)}

HeadingTokens ==
  {<<Noun("x"), Noun("y")>>, <<Acronym, Particle, Noun("x")>>, <<Marker>>, <<Noun("y"), Marker>>,
   <<Token(<<"1">>, "noun", "numeral"), Noun("x"), Middle>>, <<Bracket, Noun("x"), Bracket>>}
WordHeadings == {[WordHeading(ts) EXCEPT !.size = l] : ts \in HeadingTokens, l \in 1 .. 2}
OutlineTexts ==
  {<<h, i>> : h \in WordHeadings, i \in WordHeadings} \cup {<<h, Words(<<Kata>>), i, h>> : h \in WordHeadings, i \in WordHeadings}
    \cup UNION {Framed(h) : h \in WordHeadings} \cup {<<Words(<<Kata>>)>>, << >>}
MCTemplates == << <<"x", "y">>, <<"x">> >>
MCNumberMarks == {<<"1">>}

MCGlossMarks == {<<"g">>}
MCForbidden == {<<"f">>, <<"x", "y", "f">>}

Ask(command, inp, ref) == [command |-> command, inputs |-> inp, reference |-> ref]
MCRequests ==
  {Ask("terms", <<In(t)>>, NoReference) : t \in TermTexts}
    \cup {Ask("outline", <<In(t), In(u)>>, NoReference) : t \in OutlineTexts, u \in {<< >>} \cup Framed(WordHeading(<<Kata>>))}
    \cup {Ask("audit", <<In(t), In(u)>>, NoReference) :
            t \in {<<Words(v)>> : v \in TermTokens}, u \in {<<Words(v)>> : v \in TermTokens} \cup Framed(Words(<<Kata>>))}
    \cup {Ask("lexical", <<In(t), In(u)>>, r) : t \in WordTexts, u \in WordTexts, r \in References}
    \cup {Ask("lexical", <<In(<<Words(Compound("x", "y"))>>)>>, r) : r \in BadReferences}
    \cup {Ask(c, <<In(<<Words(<<Kata>>)>>), Unreadable>>, r) : c \in {"terms", "outline", "audit", "lexical"}, r \in References}
-----------------------------------------------------------------------------
(* One of the two at a time: what one leaves alone is empty.               *)
NoRequest == Ask("none", << >>, NoReference)

DocumentsInit ==
  \/ /\ AuditInit
     /\ request = NoRequest /\ stage = "none" /\ next = 1
     /\ reports = << >> /\ table = << >> /\ candidates = << >> /\ findings = {}
  \/ /\ ReportInit
     /\ source = << >> /\ docx = None /\ pdf = None /\ record = None
     /\ audit = Idle /\ report = None /\ quiet = TRUE
     /\ edits = MaxEdits /\ audits = MaxAudits

DocumentsNext ==
  \/ AuditNext /\ UNCHANGED reportVars
  \/ ReportNext /\ UNCHANGED auditVars

DocumentsSpec == DocumentsInit /\ [][DocumentsNext]_<<auditVars, reportVars>>
=============================================================================

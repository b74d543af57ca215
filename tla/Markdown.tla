------------------------------ MODULE Markdown ------------------------------
(***************************************************************************)
(* The passes over a Markdown text that decide, line by line, what is      *)
(* prose and what is not: the masks of text.rs, build_outline, the lines   *)
(* of code fences and the count of announced items.  Each pass scans the   *)
(* text once and carries a small state from line to line, so each is a     *)
(* fold over the lines.                                                    *)
(*                                                                         *)
(* A line is a record:                                                     *)
(*   kind    what it begins with, blanks aside                             *)
(*   indent  the blanks in front of that                                   *)
(*   mark    the character of a fence, the sort of a heading's title, of   *)
(*           an item, the marker of a note                                 *)
(*   size    the length of a fence, the level of a heading, the number a   *)
(*           line of text announces (0: none)                              *)
(*   bare    nothing follows the fence                                     *)
(*   opens   an HTML comment begins behind the content                     *)
(*   closes  the end of an HTML comment stands in front of the content     *)
(*   words   the words of content, and the part of speech it ends with     *)
(*   ends    ("none": it has no word)                                      *)
(*   decor   what the text of an item begins with: a bold label, an emoji  *)
(*   lead    a short predicate and a colon are all of the line             *)
(***************************************************************************)
EXTENDS Naturals, Sequences, SequencesExt

CONSTANT BlankLine   \* an empty line

Plain == [kind |-> "text", indent |-> 0, mark |-> "none", size |-> 0,
          bare |-> TRUE, opens |-> FALSE, closes |-> FALSE,
          words |-> 1, ends |-> "noun", decor |-> {}, lead |-> FALSE]
NoFence == [mark |-> "none", size |-> 0]

---------------------------------------------------------------------------
(* HTML comments are blanked before anything else looks at the text, in    *)
(* code as well: a blank for every byte, so that lines keep their width.   *)
(* The end of no comment is text.                                          *)

CommentWidth == 3   \* of what a comment has in a line, its end at least

Uncommented(inside, line) ==
  LET width == IF line.kind = "blank" THEN line.indent ELSE line.indent + CommentWidth
  IN CASE inside /\ ~line.closes  -> [BlankLine EXCEPT !.indent = width]
       [] inside /\ line.closes   -> [line EXCEPT !.indent = @ + CommentWidth]
       [] ~inside /\ line.closes  -> [line EXCEPT !.kind = "text"]
       [] OTHER                   -> line

InsideAfter(inside, line) == (inside /\ ~line.closes) \/ line.opens

mask_html_comments(lines) ==
  LET inside[n \in 0..Len(lines)] == n > 0 /\ InsideAfter(inside[n - 1], lines[n])
  IN [n \in 1..Len(lines) |-> Uncommented(inside[n - 1], lines[n])]

---------------------------------------------------------------------------
(* Fences: a run of at least three opens one, a run of the same character  *)
(* that is at least as long closes it.                                     *)

OpensFence(line) == line.kind = "fence" /\ line.size >= 3
ClosesFence(fence, line) ==
  line.kind = "fence" /\ line.mark = fence.mark /\ line.size >= fence.size
\* any fence closes the code of another
Bug_FenceAfter(fence, line, closes) ==
  CASE fence # NoFence /\ line.kind = "fence"  -> NoFence
    [] fence # NoFence /\ line.kind # "fence"  -> fence
    [] fence = NoFence /\ OpensFence(line) -> [mark |-> line.mark, size |-> line.size]
    [] OTHER                              -> NoFence
FenceAfter(fence, line, closes) ==
  CASE fence # NoFence /\ closes          -> NoFence
    [] fence # NoFence /\ ~closes         -> fence
    [] fence = NoFence /\ OpensFence(line) -> [mark |-> line.mark, size |-> line.size]
    [] OTHER                              -> NoFence

\* fenced_lines of the detectors: the fences themselves belong to the code
fenced_lines(lines) ==
  FoldLeft(LAMBDA s, line :
             LET after == FenceAfter(s.fence, line, ClosesFence(s.fence, line))
             IN [fence |-> after,
                 out |-> Append(s.out, s.fence # NoFence \/ after # NoFence)],
           [fence |-> NoFence, out |-> << >>], lines).out

---------------------------------------------------------------------------
(* mask_markdown: which lines are left as prose                            *)

MaskStart == [first |-> TRUE, front |-> FALSE, fence |-> NoFence, reference |-> 0,
              shown |-> << >>]

NotProse == {"item", "quote", "table", "embed", "reference", "note", "annotation"}

\* the level of the reference section behind this line, 0 for none
ReferenceAfter(level, line) ==
  IF line.kind # "heading" THEN level
  ELSE IF line.mark = "references" THEN line.size
  ELSE IF line.size <= level THEN 0 ELSE level

MaskLine(headings, s, line) ==
  LET hide == [s EXCEPT !.first = FALSE, !.shown = Append(@, FALSE)]
      rule == line.kind = "rule"
      fence == FenceAfter(s.fence, line, ClosesFence(s.fence, line))
      level == ReferenceAfter(s.reference, line)
      heading == line.kind = "heading"
      prose == /\ line.kind \notin NotProse
               /\ heading => headings
               /\ heading \/ level = 0
  IN CASE s.first /\ rule -> [hide EXCEPT !.front = TRUE]
       [] s.front         -> [hide EXCEPT !.front = ~rule]
       [] ~s.front /\ ~(s.first /\ rule) /\ (s.fence # NoFence \/ fence # NoFence) ->
            [hide EXCEPT !.fence = fence]
       [] OTHER -> [hide EXCEPT !.reference = level,
                                !.shown = Append(s.shown, prose)]

\* mask_markdown_structure, and the variant that keeps headings
MaskWith(headings, lines) ==
  FoldLeft(LAMBDA s, line : MaskLine(headings, s, line), MaskStart,
           mask_html_comments(lines)).shown
mask_markdown_structure(lines) == MaskWith(FALSE, lines)

---------------------------------------------------------------------------
(* build_outline: headings, the first sentence of each block of prose and  *)
(* the number of items of each block of items.  Other than the masks it    *)
(* wants nothing behind a closing fence.                                   *)

block_kind(line) ==
  CASE line.kind = "item" -> "bullets"
    [] line.kind \in {"quote", "table"} -> line.kind
    [] OTHER -> "lead"

OutlineStart == [n |-> 0, front |-> FALSE, fence |-> NoFence, buffer |-> << >>,
                 out |-> << >>]

\* the entry a finished block leaves; of quotes and tables there is none
flush_block(s) ==
  LET items == SelectSeq(s.buffer, LAMBDA b : b.line.kind = "item")
      entry == [line |-> s.buffer[1].n, kind |-> block_kind(s.buffer[1].line),
                size |-> Len(items)]
  IN IF s.buffer = << >> THEN s
     ELSE [s EXCEPT !.buffer = << >>,
                    !.out = IF entry.kind \in {"lead", "bullets"} THEN Append(@, entry) ELSE @]

\* an indented line of prose continues an item
Continues(first, line) ==
  \/ block_kind(first) = block_kind(line)
  \/ /\ block_kind(first) = "bullets"
     /\ block_kind(line) = "lead"
     /\ line.indent > 0

OutlineLine(before, line) ==
  LET s == [before EXCEPT !.n = @ + 1]
      fence == FenceAfter(s.fence, line, ClosesFence(s.fence, line) /\ line.bare)
      kept == IF s.buffer # << >> /\ ~Continues(s.buffer[1].line, line)
              THEN flush_block(s) ELSE s
  IN CASE s.n = 1 /\ line.kind = "rule" -> [s EXCEPT !.front = TRUE]
       [] s.n # 1 /\ s.front            -> [s EXCEPT !.front = line.kind # "rule"]
       [] ~s.front /\ s.fence # NoFence -> [s EXCEPT !.fence = fence]
       [] ~s.front /\ s.fence = NoFence /\ fence # NoFence ->
            [flush_block(s) EXCEPT !.fence = fence]
       [] ~s.front /\ s.fence = NoFence /\ line.kind = "blank" -> flush_block(s)
       [] ~s.front /\ s.fence = NoFence /\ line.kind = "heading" ->
            [flush_block(s) EXCEPT !.out =
               Append(@, [line |-> s.n, kind |-> "heading", size |-> line.size])]
       [] OTHER -> [kept EXCEPT !.buffer = Append(@, [n |-> s.n, line |-> line])]

build_outline(lines) ==
  flush_block(FoldLeft(OutlineLine, OutlineStart, mask_html_comments(lines))).out

---------------------------------------------------------------------------
(* declared_item_count: the items of the list that begins at a line, and   *)
(* the line that announces their number.                                   *)

IsItem(line) == line.kind = "item"
IsBlank(line) == line.kind = "blank"
is_block_boundary(line) == line.kind \in {"heading", "quote", "table"}

\* the next line, 0 for none
Bug_NextText(lines, i) == IF i < Len(lines) THEN i + 1 ELSE 0
\* the next line that is not blank, 0 for none
NextText(lines, i) ==
  LET later == {j \in i + 1..Len(lines) : ~IsBlank(lines[j])}
  IN IF later = {} THEN 0 ELSE CHOOSE j \in later : \A k \in later : j <= k

\* the lines of the items the loop meets from a line on
ItemsFrom(lines, start) ==
  LET fenced == fenced_lines(lines)
      base == lines[start].indent
      goes[i \in 1..Len(lines) + 1] ==
        LET line == lines[i]
            next == NextText(lines, i)
            deeper == lines[next].indent > base
            same == lines[next].indent = base
        IN IF i > Len(lines) THEN << >>
           ELSE IF fenced[i] THEN (IF line.indent <= base THEN << >> ELSE goes[i + 1])
           ELSE IF IsBlank(line) THEN
             IF next # 0 /\ (deeper \/ (same /\ ~fenced[next] /\ IsItem(lines[next])))
             THEN goes[next] ELSE << >>
           ELSE IF line.indent < base \/ (line.indent = base /\ is_block_boundary(line)) THEN << >>
           ELSE IF line.indent = base /\ IsItem(line) THEN <<i>> \o goes[i + 1]
           ELSE goes[i + 1]
  IN <<start>> \o goes[start + 1]

\* a list whose markers change, or with an item that says nothing, is not counted
top_level_items(lines, start) ==
  LET items == ItemsFrom(lines, start)
      counted == \A k \in 1..Len(items) :
                   /\ lines[items[k]].mark = lines[start].mark
                   /\ lines[items[k]].size # 0
  IN IF counted THEN items ELSE << >>

\* 0 if nothing announces the list
lead_line(lines, start) ==
  LET above == IF start > 1 /\ IsBlank(lines[start - 1]) THEN start - 2 ELSE start - 1
      line == lines[above]
  IN IF /\ above > 0
        /\ ~fenced_lines(lines)[above]
        /\ ~IsBlank(line) /\ ~IsItem(line) /\ ~is_block_boundary(line) /\ line.indent = 0
     THEN above ELSE 0

StartsList(lines, i) ==
  /\ ~fenced_lines(lines)[i] /\ IsItem(lines[i]) /\ lines[i].indent = 0
  /\ i > 1 => ~IsItem(lines[i - 1])

\* the lists the detector looks at, each the lines of its items
Lists(lines) ==
  LET last(items, i) == IF items = << >> THEN i ELSE items[Len(items)]
      from[i \in 1..Len(lines) + 1] ==
        IF i > Len(lines) THEN << >>
        ELSE IF ~StartsList(lines, i) THEN from[i + 1]
        ELSE LET items == top_level_items(lines, i)
             IN <<[at |-> i, items |-> items]>> \o from[last(items, i) + 1]
  IN from[1]

MaxAnnounced == 30
declared_item_count_findings(raw) ==
  LET lines == mask_html_comments(raw)
      wrong(list) ==
        LET lead == lead_line(lines, list.at)
        IN /\ list.items # << >> /\ lead # 0
           /\ lines[lead].kind = "text" /\ lines[lead].size \in 1..MaxAnnounced
           /\ lines[lead].size # Len(list.items)
  IN SelectSeq(Lists(lines), wrong)
---------------------------------------------------------------------------
(* The detectors of lists: items that begin alike, lines that lead over to *)
(* a block, and lists whose items are of one shape.                        *)

\* local_pattern_findings: per kind of decoration one finding at the first item
local_pattern_findings(raw) ==
  LET lines == mask_html_comments(raw)
      fenced == fenced_lines(lines)
      read == {i \in DOMAIN lines : ~fenced[i] /\ lines[i].kind # "quote"}
      hits(d) == {i \in read : IsItem(lines[i]) /\ d \in lines[i].decor}
      first(is) == CHOOSE i \in is : \A j \in is : i <= j
      next(i) == lines[NextText(lines, i)]
      leads == {i \in read : /\ lines[i].lead /\ lines[i].kind \notin {"heading", "item"}
                             /\ NextText(lines, i) # 0
                             /\ next(i).kind \in {"item", "table"} \/ OpensFence(next(i))}
  IN {[category |-> d, line |-> first(hits(d)), related |-> hits(d)] :
        d \in {d \in {"label", "emoji"} : hits(d) # {}}}
       \cup {[category |-> "lead", line |-> i, related |-> {}] : i \in leads}

\* an item that says something goes on a group, anything else ends it
Shaped(line) == IsItem(line) /\ line.words > 0 /\ line.ends # "none"
Bug_GroupLine(fenced, s, line) ==
  IF Shaped(line) /\ ~fenced[s.n] THEN [s EXCEPT !.n = @ + 1, !.current = Append(@, s.n)]
  ELSE IF IsBlank(line) THEN [s EXCEPT !.n = @ + 1]
  ELSE [s EXCEPT !.n = @ + 1, !.groups = Append(@, s.current), !.current = << >>]
GroupLine(fenced, s, line) ==
  IF Shaped(line) /\ ~fenced[s.n] THEN [s EXCEPT !.n = @ + 1, !.current = Append(@, s.n)]
  ELSE [s EXCEPT !.n = @ + 1, !.groups = Append(@, s.current), !.current = << >>]
Groups(lines) ==
  LET fenced == fenced_lines(lines)
      s == FoldLeft(LAMBDA s, line : GroupLine(fenced, s, line),
                    [n |-> 1, groups |-> << >>, current |-> << >>], lines)
  IN SelectSeq(Append(s.groups, s.current), LAMBDA g : g # << >>)

\* the coefficient of variation of the words is at most a quarter
Uniform(lines, is) ==
  LET words == [k \in DOMAIN is |-> lines[is[k]].words]
      sum(ns) == FoldLeft(LAMBDA a, n : a + n, 0, ns)
      total == sum(words)
      squares == Len(is) * sum([k \in DOMAIN words |-> words[k] * words[k]])
  IN /\ Len(is) >= 4
     /\ \A k \in DOMAIN is : lines[is[k]].ends = lines[is[1]].ends
     /\ 16 * squares <= 17 * total * total

\* all uniform groups in one finding, at the first of them; << >>: none
uniform_bullet_structure_findings(raw) ==
  LET lines == mask_html_comments(raw)
      found == SelectSeq(Groups(lines), LAMBDA g : Uniform(lines, g))
  IN IF found = << >> THEN << >>
     ELSE <<[line |-> found[1][1], last |-> found[1][Len(found[1])], related |-> FlattenSeq(found)]>>

---------------------------------------------------------------------------
(* What is code and front matter, told without a scan: a fence opens code  *)
(* unless it lies in the code of an earlier one.  Lines without comments.  *)

FrontMatter(lines) ==
  LET rules == {i \in 2..Len(lines) : lines[i].kind = "rule"}
      end == IF rules = {} THEN Len(lines) ELSE CHOOSE i \in rules : \A j \in rules : i <= j
  IN IF lines = << >> \/ lines[1].kind # "rule" THEN {} ELSE 1..end

CodeEnd(lines, i) ==
  LET ends == {j \in i + 1..Len(lines) : ClosesFence(lines[i], lines[j])}
  IN IF ends = {} THEN Len(lines) ELSE CHOOSE j \in ends : \A k \in ends : j <= k

CodeOutside(lines, front) ==
  LET opens[i \in 1..Len(lines)] ==
        /\ i \notin front /\ OpensFence(lines[i])
        /\ \A o \in 1..i - 1 : opens[o] => CodeEnd(lines, o) < i
  IN UNION {i..CodeEnd(lines, i) : i \in {o \in DOMAIN lines : opens[o]}}
Code(lines) == CodeOutside(lines, FrontMatter(lines))

\* No line of code or of the front matter is prose, an entry of the outline or an item,
\* and all other headings are in the outline.  Code may not hold a fence with a tail: of
\* those build_outline says they close nothing.
CodeHidden(text) ==
  LET lines == mask_html_comments(text)
      front == FrontMatter(lines)
      code == CodeOutside(lines, front)
      outline == build_outline(text)
      listed == {i \in DOMAIN outline : outline[i].kind = "heading"}
  IN (\A i \in code : lines[i].kind = "fence" => lines[i].bare) =>
       /\ \A i \in front \cup code : ~mask_markdown_structure(text)[i]
       /\ \A i \in DOMAIN outline : outline[i].line \notin front \cup code
       /\ {outline[i].line : i \in listed} =
            {i \in DOMAIN lines \ (front \cup code) : lines[i].kind = "heading"}
       /\ \A i, j \in DOMAIN outline : i < j => outline[i].line < outline[j].line
       /\ front = {} => \A list \in ToSet(Lists(lines)) : ToSet(list.items) \cap code = {}

\* a list as a reader sees it: what is deeper than its items, and the empty lines in front
\* of that, are plain text of an item; ends are the lines that end every list
ReadUpTo(lines, start, ends) ==
  LET after == {i \in ends : i > start}
      end == IF after = {} THEN Len(lines) ELSE (CHOOSE i \in after : \A j \in after : i <= j) - 1
      text(i) == LET texts == {j \in i..end : ~IsBlank(lines[j])}
                 IN texts # {} /\ lines[CHOOSE j \in texts : \A k \in texts : j <= k].indent > 0
  IN [i \in 1..end |-> IF i > start /\ text(i) THEN [Plain EXCEPT !.indent = 2] @@ lines[i]
                       ELSE lines[i]]

\* a list is reported if and only if the number in front of it is not the number of its items
CountsItemsOf(lines, ends) ==
  \A list \in ToSet(Lists(lines)) :
    LET lead == lead_line(lines, list.at)
        items == top_level_items(ReadUpTo(lines, list.at, ends), list.at)
    IN (lead # 0 /\ lines[lead].kind = "text" /\ lines[lead].size \in 1..MaxAnnounced
          /\ items # << >>) =>
         (list \in ToSet(declared_item_count_findings(lines)) <=> lines[lead].size # Len(items))

\* the lines of code that are not deeper than a list
NotDeeper(lines) == {i \in CodeOutside(lines, {}) : lines[i].indent = 0}

\* Every decorated item a reader sees is in one finding of its kind, none of code is; what
\* leads over stands in front of the block it leads to and not of code it lies in; and the
\* lists of one shape are, as a whole, the longest stretches of items that follow each other.
PatternsOf(raw) ==
  LET lines == mask_html_comments(raw)
      plain == DOMAIN lines \ CodeOutside(lines, {})
      shaped == {i \in plain : Shaped(lines[i])}
      stretches == {r \in shaped \X shaped :
                      /\ r[1]..r[2] \subseteq shaped
                      /\ r[1] - 1 \notin shaped /\ r[2] + 1 \notin shaped}
      uniform == {r \in stretches : Uniform(lines, [k \in 1..r[2] - r[1] + 1 |-> r[1] + k - 1])}
      local == local_pattern_findings(raw)
      shapes == uniform_bullet_structure_findings(raw)
  IN /\ \A d \in {"label", "emoji"} :
          UNION {f.related : f \in {f \in local : f.category = d}}
            = {i \in plain : IsItem(lines[i]) /\ d \in lines[i].decor}
     /\ \A f \in local : /\ f.line \in plain
                         /\ \A i \in f.related : f.line <= i
                         /\ f.category = "lead" =>
                              \E j \in DOMAIN lines :
                                /\ j > f.line /\ lines[j].kind \in {"item", "table", "fence"}
                                /\ \A i \in f.line + 1..j - 1 : IsBlank(lines[i])
     /\ (shapes = << >>) <=> (uniform = {})
     /\ \A f \in ToSet(shapes) :
          /\ ToSet(f.related) = UNION {r[1]..r[2] : r \in uniform}
          /\ \A i, j \in DOMAIN f.related : i < j => f.related[i] < f.related[j]
          /\ <<f.line, f.last>> \in uniform /\ f.line = f.related[1]
=============================================================================

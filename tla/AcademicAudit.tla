--------------------------- MODULE AcademicAudit ---------------------------
(***************************************************************************)
(* suiko academic: the audit of a manuscript against its contract and of   *)
(* the files to be delivered with it.  The audit reads the files one after *)
(* the other, some of them several times, while their author may go on     *)
(* editing them.                                                           *)
(*                                                                         *)
(* A DOCX is a record of its text (blocks), its items in order outside of  *)
(* tables (layout), the settings of its sections, its horizontal rules and *)
(* its other parts (a function from names).  A digest is what is digested. *)
(***************************************************************************)
EXTENDS Manuscript

CONSTANTS
  Contract,       \* the fields of AcademicContract the checks use
  Drafts, Sources, Docxs, Pdfs,   \* what the author may begin with and save
  Invocations,       \* which files a command line may name besides the manuscript
  Template,       \* the official template, a DOCX
  Media,          \* the names of parts below word/media/
  Declarations,   \* what an export record may declare: [exporter, reviewed]
  MaxEdits,       \* bound: edits of files
  MaxAudits       \* bound: audits

IsList(s) == s \in Seq(ToSet(s))

ASSUME ListsAreLists ==
  /\ \A lines \in Drafts \cup Sources : IsList(lines)
  /\ \A word \in Docxs : IsList(word.items)
  /\ IsList(Contract.required_order)

VARIABLES
  source, docx, pdf, record,  \* the files; None if there is none
  audit,                      \* the running audit: its step, what it read, its checks
  report,                     \* the last report
  quiet,                      \* no file was saved since the audit began
  edits, audits               \* counters for the bounds

files == <<source, docx, pdf, record>>
auditVars == <<source, docx, pdf, record, audit, report, quiet, edits, audits>>

None == [none |-> TRUE]
Idle == [step |-> "idle"]
Deliverables == {"docx", "pdf", "template", "record"}

---------------------------------------------------------------------------
(* Checks of the manuscript.  Main text and leads are sequences of blocks. *)

MainText(view) == [i \in DOMAIN view.main |-> view.main[i].block]
Says(text, block) == \E i \in DOMAIN text : text[i] = block

academic_outline(view) ==
  SelectSeq([i \in DOMAIN build_outline(view.main) |->
               LET entry == build_outline(view.main)[i]
               IN [kind |-> entry.kind, level |-> entry.size,
                   text |-> view.main[entry.line].block]],
            LAMBDA entry : entry.kind = "lead" => entry.text # "nothing")
Leads(outline) == SelectSeq(outline, LAMBDA entry : entry.kind = "lead")

\* every text of a list after the one before it: the first place behind the last one,
\* the place behind all texts as soon as one is missing
FoundInOrder(wanted, texts) ==
  LET missing == Len(texts) + 1
      place[k \in 0..Len(wanted)] ==
        IF k = 0 THEN 0
        ELSE LET later == {i \in place[k - 1] + 1..Len(texts) : texts[i] = wanted[k]}
             IN IF later = {} THEN missing ELSE Min(later)
  IN \A k \in 1..Len(wanted) : place[k] # missing

\* first and last entry of the section of the first heading of that name
section_bounds(outline, name) ==
  LET at == {i \in DOMAIN outline : outline[i].kind = "heading" /\ outline[i].text = name}
      first == Min(at)
      ends == {i \in first + 1..Len(outline) :
                 outline[i].kind = "heading" /\ outline[i].level <= outline[first].level}
  IN IF at = {} THEN << >> ELSE <<first, IF ends = {} THEN Len(outline) ELSE Min(ends) - 1>>

\* the last lead of one section and the first of the other share a term
Bridged(outline, rule) ==
  LET from == section_bounds(outline, rule.from)
      to == section_bounds(outline, rule.to)
      leads(bounds) == Leads(SubSeq(outline, bounds[1], bounds[2]))
  IN /\ from # << >> /\ to # << >>
     /\ leads(from) # << >> /\ leads(to) # << >>
     /\ <<leads(from)[Len(leads(from))].text, leads(to)[1].text>> \in rule.shares

\* what each paragraph says: a run of lines that no heading begins
prose_blocks(view) ==
  LET inside == {i \in DOMAIN view.main : ~IsBlank(view.main[i])}
      runs == {run \in inside \X inside :
                 /\ run[1]..run[2] \subseteq inside
                 /\ {run[1] - 1, run[2] + 1} \cap inside = {}}
  IN {{view.main[i].block : i \in run[1]..run[2]} :
        run \in {r \in runs : view.main[r[1]].kind # "heading"}}

\* one paragraph has the term and tells where it comes from
Provenance(term, paragraph) ==
  /\ term.term \in paragraph
  /\ CASE term.status = "coined" -> "we call it" \in paragraph
       [] term.status \in {"established", "source-specific"} -> term.source \in paragraph
       [] term.status = "ordinary" -> TRUE
       [] OTHER -> FALSE

validate_contract ==
  /\ Contract.required_order # << >> /\ Contract.first_sentence_order # << >>
  /\ \A d \in Contract.note_decisions : d.disposition \in {"body", "note", "drop"}

\* the checks so far and some more
AddChecks(checks, more) ==
  [id \in DOMAIN checks \cup DOMAIN more |-> IF id \in DOMAIN more THEN more[id] ELSE checks[id]]

ManuscriptChecks(view) ==
  LET outline == academic_outline(view)
      headings == SelectSeq(outline, LAMBDA entry : entry.kind = "heading")
      leads == [i \in DOMAIN Leads(outline) |-> Leads(outline)[i].text]
  IN AddChecks(AddChecks(audit_citations(view), audit_notes(view, Contract.note_decisions)),
     [central_claim |-> Says(MainText(view), Contract.central_claim),
      explanandum |-> Says(MainText(view), Contract.explanandum),
      term_provenance |-> \A term \in Contract.terms :
                            \E p \in prose_blocks(view) : Provenance(term, p),
      required_order |-> FoundInOrder(Contract.required_order, MainText(view)),
      first_sentence_order |-> FoundInOrder(Contract.first_sentence_order, leads),
      section_bridge_contract |-> Len(headings) < 2 \/ Contract.section_bridges # {},
      section_bridge |-> \A rule \in Contract.section_bridges : Bridged(outline, rule)])

---------------------------------------------------------------------------
(* Checks of the files *)

Compared(block) == block \notin Contract.sync_omit_fragments \cup {"nothing"}
\* which blocks there are, not how many
Bug_Inventory(blocks) ==
  [b \in {blocks[i] : i \in {j \in DOMAIN blocks : Compared(blocks[j])}} |-> 1]
\* blocks with their number, whatever their order; fragments both sides leave out
sync_inventory(blocks) ==
  LET kept == {i \in DOMAIN blocks : Compared(blocks[i])}
  IN [b \in {blocks[i] : i \in kept} |-> Cardinality({i \in kept : blocks[i] = b})]
SyncText(view) == [i \in DOMAIN view.sync |-> view.sync[i].block]
InSync(view, blocks) == sync_inventory(SyncText(view)) = sync_inventory(blocks)

Preserves(before, after) ==
  \A k \in DOMAIN before : k \in DOMAIN after /\ after[k] = before[k]

\* a part that changed without leave: pictures may be added, types and relations extended
Changed(before, after, name) ==
  /\ name \notin Contract.docx_mutable_entries
  /\ ~ \/ name \in Media \ DOMAIN before
       \/ /\ name \in DOMAIN before \cap DOMAIN after
          /\ IF name \in {"types", "relations"} THEN Preserves(before[name], after[name])
             ELSE before[name] = after[name]

audit_ooxml(template, file) ==
  /\ \A name \in DOMAIN template.parts \cup DOMAIN file.parts :
       ~Changed(template.parts, file.parts, name)
  /\ template.sections = file.sections
  /\ Preserves(template.rules, file.rules)

\* captions stand behind their table or figure, and there are as many
Captions(items, kind) == {i \in DOMAIN items : items[i] = <<"caption", kind>>}
Placed(items, kind) == {i \in DOMAIN items : items[i] = <<kind>>}
CaptionsPlaced(items) ==
  \A kind \in {"table", "figure"} :
    /\ \A i \in Captions(items, kind) : i > 1 /\ items[i - 1] = <<kind>>
    /\ Cardinality(Captions(items, kind)) = Cardinality(Placed(items, kind))

LayoutChecks(file) ==
  [docx_table_figure_placement |-> CaptionsPlaced(file.items),
   docx_layout_order |-> FoundInOrder(Contract.docx_layout_order, file.text)]

ExportChecks(given) ==
  [word_exporter_declaration |-> record.exporter = "Microsoft Word",
   pdf_visual_review_declaration |-> record.reviewed,
   export_record_hashes |->
     /\ record.source = source
     /\ "docx" \in given /\ record.docx = docx
     /\ "pdf" \in given /\ record.pdf = pdf]

---------------------------------------------------------------------------
(* The author *)

Saves ==
  /\ edits < MaxEdits /\ edits' = edits + 1
  /\ quiet' = FALSE
  /\ UNCHANGED <<audit, report, audits>>

Revise == Saves /\ source' \in Sources /\ UNCHANGED <<docx, pdf, record>>
ExportDocx == Saves /\ docx' \in Docxs /\ UNCHANGED <<source, pdf, record>>
ExportPdf == Saves /\ pdf' \in Pdfs /\ UNCHANGED <<source, docx, record>>
WriteRecord ==
  /\ Saves /\ docx # None /\ pdf # None
  /\ \E d \in Declarations :
       record' = [exporter |-> d.exporter, reviewed |-> d.reviewed,
                  source |-> source, docx |-> docx, pdf |-> pdf]
  /\ UNCHANGED <<source, docx, pdf>>

---------------------------------------------------------------------------
(* The audit: each step reads the files it needs anew *)

Exists(path) == CASE path = "docx" -> docx # None [] path = "pdf" -> pdf # None
                  [] path = "record" -> record # None [] OTHER -> TRUE

StartAudit(given) ==
  /\ audit = Idle /\ audits < MaxAudits /\ audits' = audits + 1
  /\ validate_contract
  /\ audit' = [step |-> "sync", given |-> given, view |-> source_view(source),
               checks |-> AddChecks(ManuscriptChecks(source_view(source)),
                 [delivery_artifacts |-> given \in {{}, Deliverables}])]
  /\ quiet' = TRUE
  /\ UNCHANGED <<files, report, edits>>

\* a file that was named and cannot be read ends the audit without a report
Step(step, next, needs, checks) ==
  /\ audit.step = step
  /\ audit' = IF \A path \in needs \cap audit.given : Exists(path)
              THEN [audit EXCEPT !.step = next, !.checks = AddChecks(@, checks)] ELSE Idle
  /\ UNCHANGED <<files, report, quiet, edits, audits>>

audit_sync ==
  Step("sync", "ooxml", {"docx", "pdf"},
       [markdown_docx_sync |-> "docx" \in audit.given => InSync(audit.view, docx.text),
        markdown_pdf_sync |-> "pdf" \in audit.given => InSync(audit.view, pdf)])

Ooxml ==
  Step("ooxml", "layout", {"docx"},
       [ooxml_invariants |->
          {"docx", "template"} \subseteq audit.given => audit_ooxml(Template, docx)])

audit_docx_layout ==
  Step("layout", "export", {"docx"},
       IF "docx" \in audit.given THEN LayoutChecks(docx) ELSE << >>)

audit_export_record ==
  Step("export", "finish", {"record"},
       IF "record" \in audit.given THEN ExportChecks(audit.given) ELSE << >>)

FinishAudit ==
  /\ audit.step = "finish"
  /\ LET passed == \A id \in DOMAIN audit.checks : audit.checks[id]
     IN report' = [passed |-> passed, quiet |-> quiet, files |-> files,
                   ready |-> passed /\ audit.given = Deliverables]
  /\ audit' = Idle
  /\ UNCHANGED <<files, quiet, edits, audits>>

---------------------------------------------------------------------------
AuditInit ==
  /\ source \in Drafts /\ docx = None /\ pdf = None /\ record = None
  /\ audit = Idle /\ report = None /\ quiet = TRUE
  /\ edits = IF source \in Sources THEN 0 ELSE MaxEdits     \* bound: other drafts are
  /\ audits = IF source \in Sources THEN 0 ELSE MaxAudits   \* neither saved nor audited

AuditNext ==
  \/ Revise \/ ExportDocx \/ ExportPdf \/ WriteRecord
  \/ \E given \in Invocations : StartAudit(given)
  \/ audit_sync \/ Ooxml \/ audit_docx_layout \/ audit_export_record \/ FinishAudit

AuditSpec == AuditInit /\ [][AuditNext]_auditVars

---------------------------------------------------------------------------
(* Properties.  The lines of a section and the parts of a note are         *)
(* described by what stands before them, not by a scan.                    *)

Visible(lines) == (DOMAIN lines \ FrontMatter(lines)) \ Code(lines)
Headings(lines) == {i \in Visible(lines) : lines[i].kind = "heading"}
InSection(lines, i, mark) ==
  \E h \in Headings(lines) :
    /\ h < i /\ lines[h].mark = mark
    /\ \A k \in Headings(lines) \cap (h + 1..i) :
         lines[k].mark \notin {"references", "notes"} /\ lines[k].size > lines[h].size
NoteHead(lines, i) ==
  /\ i \in Visible(lines)
  /\ \/ lines[i].kind = "note"
     \/ lines[i].kind = "jpnote" /\ InSection(lines, i, "notes")
\* the definition a line belongs to, 0 for none
NoteOf(lines, i) ==
  LET heads == {h \in 1..i : NoteHead(lines, h) /\ \A k \in h + 1..i : lines[k].indent > 0}
  IN IF heads = {} THEN 0 ELSE Max(heads)
Shown(lines) == {i \in Visible(lines) :
                  /\ ~lines[IF NoteOf(lines, i) = 0 THEN i ELSE NoteOf(lines, i)].omit
                     \/ (lines[i].kind = "heading" /\ lines[i].mark # "plain")}
InReferences(lines, i) ==
  NoteOf(lines, i) = 0 /\ InSection(lines, i, "references")
InBody(lines, i) ==
  /\ NoteOf(lines, i) = 0
  /\ lines[i].kind = "heading" => lines[i].mark = "plain"
  /\ ~InSection(lines, i, "references") /\ ~InSection(lines, i, "notes")

Pick(lines, set) ==
  LET place(k) == CHOOSE i \in set : Cardinality({j \in set : j <= i}) = k
  IN [k \in 1..Cardinality(set) |-> lines[place(k)]]

\* The passes agree on what is code: none of it is prose, outline or item, whatever text,
\* comments and lists stand around it (mask_markdown, build_outline, fenced_lines).
CodeIsNobodysText == CodeHidden(source)

\* A declared number of items is found wrong exactly when the list has another number of
\* items, whatever paragraphs, deeper code and lists the items hold; code that is not deeper
\* than the items ends the list, and so does an empty line of any code
\* (declared_item_count_findings).
AnnouncedItemsAreCounted ==
  LET lines == mask_html_comments(source)
  IN CountsItemsOf(lines, NotDeeper(lines))

\* CHANGELOG.md:61 says of the count that it deals rightly with code inside of the items
\* (「項目内の補足段落やコード、空行を挟む項目の区切りを正しく扱う」): code that is deeper than
\* the items does not end a list, whatever empty lines it has (top_level_items).
CodeStaysInItsItem ==
  LET lines == mask_html_comments(source)
  IN CountsItemsOf(lines, {i \in NotDeeper(lines) : ~IsBlank(lines[i])})

\* The detectors of lists speak of the items a reader sees, all of them and no others, and
\* of whole lists (declared_item_count_findings, local_pattern_findings,
\* uniform_bullet_structure_findings).
ListsAreTakenWhole == AnnouncedItemsAreCounted /\ PatternsOf(source)


\* the lines a reader may find citations in, and those of the bibliography
MayCite(lines) == {i \in Shown(lines) : InBody(lines, i) \/ NoteOf(lines, i) # 0}
Listed(lines) == {i \in Shown(lines) : InReferences(lines, i)}
AuthorsListed(lines) ==
  \A i \in MayCite(lines) : \A c \in lines[i].keys :
    \E e \in Listed(lines) : \E r \in lines[e].keys : citation_key_matches(c, r)

\* If the three checks of citations pass: in a manuscript with an id anywhere a reader sees
\* it, every id that is cited is that of one entry, and every id of an entry is cited; in one
\* without ids, every citation by author and year is answered by an entry, and every entry
\* is cited.  The first says nothing of authors and years beside the ids (audit_citations).
CitationsAreAnswered ==
  LET lines == mask_html_comments(source)
      citing == MayCite(lines)
      entries == Listed(lines)
      ids(set) == {at \in set \X (1..2) : at[2] \in DOMAIN lines[at[1]].ids}
      id(at) == lines[at[1]].ids[at[2]]
      checks == audit_citations(source_view(source))
  IN (\A name \in DOMAIN checks : checks[name]) =>
       IF ids(citing \cup entries) # {}
       THEN /\ \A c \in ids(citing) : Cardinality({e \in ids(entries) : id(e) = id(c)}) = 1
            /\ \A e \in ids(entries) : \E c \in ids(citing) : id(c) = id(e)
       ELSE /\ AuthorsListed(lines)
            /\ \A e \in entries : \A r \in lines[e].keys :
                 lines[e].indent = 0 =>
                   \E i \in citing : \E c \in lines[i].keys : citation_key_matches(c, r)

\* What academic.rs:929 prints when citation_reference_match passes: the bibliography has
\* the author and the year of what the text cites
\* (「本文引用に対応する著者名・年が参考文献欄にあります」), ids or not.
CitedAuthorsAreListed ==
  audit_citations(source_view(source)).citation_reference_match =>
    AuthorsListed(mask_html_comments(source))

\* A manuscript, a DOCX and a PDF with the same blocks, on record as they are, the DOCX in
\* the template's own layout, with a caption behind every table and figure, and the required
\* order in the body.
Delivered(text, word, print, rec) ==
  LET shown == SyncText(source_view(text))
      main == MainText(source_view(text))
      number(blocks, b) == Cardinality({i \in DOMAIN blocks : blocks[i] = b})
      wanted == Contract.required_order
  IN /\ \A b \in {c \in ToSet(shown) \cup ToSet(word.text) \cup ToSet(print) : Compared(c)} :
          number(shown, b) = number(word.text, b) /\ number(shown, b) = number(print, b)
     /\ rec.reviewed /\ <<rec.source, rec.docx, rec.pdf>> = <<text, word, print>>
     /\ word.sections = Template.sections
     /\ \A name \in DOMAIN Template.parts \ Contract.docx_mutable_entries :
          \A id \in DOMAIN Template.parts[name] :
            name \in DOMAIN word.parts /\ word.parts[name][id] = Template.parts[name][id]
     /\ \A i \in DOMAIN word.items : \A kind \in {"table", "figure"} :
          word.items[i] = <<kind>> <=>
            i < Len(word.items) /\ word.items[i + 1] = <<"caption", kind>>
     /\ \E at \in [DOMAIN wanted -> DOMAIN main] :
          \A i, j \in DOMAIN wanted :
            main[at[i]] = wanted[i] /\ (i < j => at[i] < at[j])

\* Whoever is told that the delivery is ready, and saved nothing meanwhile, delivers three
\* files that belong together, whatever was saved between earlier audits and during them.
ReadyMeansDelivered ==
  (report # None /\ report.ready /\ report.quiet) =>
    Delivered(report.files[1], report.files[2], report.files[3], report.files[4])
=============================================================================

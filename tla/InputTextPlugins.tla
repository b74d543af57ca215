-------------------------- MODULE InputTextPlugins --------------------------
(***************************************************************************)
(* The input text plugins and the buffer they edit: DefaultInputTextPlugin,*)
(* ProlongedSoundMarkPlugin, IgnoreYomiganaPlugin, and a plugin loaded     *)
(* from a library.  The editor takes any ranges and resolve_edits assumes  *)
(* them sorted, apart from each other and cut at characters; that the      *)
(* bundled plugins give it such ranges is what is shown here.              *)
(*                                                                         *)
(* A plugin is a scan over the characters: at each it finds an edit        *)
(* [next, with] of the characters up to next, or none.  Regular            *)
(* expressions and the automaton of the rewrite list are modelled by what  *)
(* they match; characters are counted from 1.                              *)
(***************************************************************************)
EXTENDS InputBuffer

CONSTANTS
  Encoding,            (* Chars -> bytes of the character                  *)
  Configurations,      (* sequences of plugins a dictionary may configure  *)
  RewriteRules,        (* rewrite.def: sequences of characters -> same     *)
  IgnoreNormalize,     (* rewrite.def: characters NFKC leaves alone        *)
  Upper, Lowercase,    (* upper-case characters, and what they become      *)
  NotNfkc, Nfkc,       (* characters whose quick check is not Yes, -> NFKC *)
  ProlongedSoundMarks, ReplacementSymbol,
  LeftBrackets, RightBrackets, MaxYomiganaLength,
  ForeignReplacements, (* what a loaded plugin inserts                     *)
  MaxForeignEdits,     (* bound: its edits                                 *)
  MaxForeignLength     (* bound: the longest text it edits                 *)

Plugins == {"default", "prolonged", "yomigana", "foreign"}

Encoded(chars) == FlattenSeq([i \in DOMAIN chars |-> Encoding[chars[i]]])

ASSUME PluginsAssumption ==
  /\ \A c \in Chars : Encoding[c] = <<c>> \o [i \in 1 .. Len(Encoding[c]) - 1 |-> Cont]
  /\ ForeignReplacements \subseteq Replacements
  /\ \A key \in DOMAIN RewriteRules : key \in Seq(Chars) /\ key # << >>
  /\ \A c \in Configurations : c \in Seq(Plugins)
  /\ MaxYomiganaLength \in Nat
  /\ REALLY_MAX_LENGTH <= MaxEdits  (* that bound stops no bundled plugin   *)

VARIABLES
  configured,  (* the input text plugins of the dictionary                 *)
  planned      (* edits the running plugin found and has not recorded yet  *)

pluginVars == <<vars, configured, planned>>

PluginInit == Init /\ configured \in Configurations /\ planned = << >>
-----------------------------------------------------------------------------
(* The edits of one scan over the characters; found[i] is << >> or one     *)
(* edit of what begins at i.                                               *)
EditsOf(text, found) ==
  LET count   == NumChars(text)
      offset  == CharToByte(text)
      scan[i \in 1 .. count + 1] ==
        IF i > count THEN << >>
        ELSE IF found[i] = << >> THEN scan[i + 1]
        ELSE LET e == found[i][1]
             IN <<[from |-> offset[i], to |-> offset[e.next], with |-> Encoded(e.with)]>>
                  \o scan[e.resume]
  IN scan[1]

Edit(next, with) == <<[next |-> next, resume |-> next, with |-> with]>>

KeysAt(cs, i) ==
  {key \in DOMAIN RewriteRules : IsPrefix(key, SubSeq(cs, i, Len(cs)))}

(* replace_fast: the leftmost keys, the longest of those.                  *)
FastEdit(cs, i) ==
  IF KeysAt(cs, i) = {} THEN << >>
  ELSE LET key == CHOOSE k \in KeysAt(cs, i) : \A l \in KeysAt(cs, i) : Len(l) <= Len(k)
       IN Edit(i + Len(key), RewriteRules[key])

NfkcOf(cs) == FlattenSeq([i \in DOMAIN cs |-> Nfkc[cs[i]]])

NeedsNfkc(c) == c \notin IgnoreNormalize /\ c \in NotNfkc

(* What handle_normalization_slow is given for a character.                *)
NormalizedChar(c) ==
  LET lower == IF c \in Upper THEN Lowercase[c] ELSE <<c>>
  IN IF NeedsNfkc(c) THEN NfkcOf(lower) ELSE lower

(* Replacements is what plugins insert.                                    *)
ASSUME InsertionsAssumption ==
  /\ {Encoded(RewriteRules[key]) : key \in DOMAIN RewriteRules} \subseteq Replacements
  /\ \A c \in Chars : LET new == NormalizedChar(c)
                      IN new # << >> /\ new[1] # c => Encoded(new) \in Replacements
  /\ {Encoded(<<ReplacementSymbol>>), Encoded(<< >>)} \subseteq Replacements

(* Where replace_slow reads on behind a key that ended before next.        *)
Bug_ReadsEveryChar(i, next) == i + 1
MinOffset(i, next) == next

(* replace_slow: the search is anchored and stops at the first match, which *)
(* is the shortest key; where there is none the character is normalized.   *)
SlowEdit(cs, i) ==
  IF KeysAt(cs, i) # {}
  THEN LET key == CHOOSE k \in KeysAt(cs, i) : \A l \in KeysAt(cs, i) : Len(k) <= Len(l)
       IN <<[next |-> i + Len(key), resume |-> MinOffset(i, i + Len(key)),
             with |-> RewriteRules[key]]>>
  ELSE LET new == NormalizedChar(cs[i])
       IN IF new # << >> /\ new[1] # cs[i] THEN Edit(i + 1, new) ELSE << >>

(* DefaultInputTextPlugin: which of the two it takes is decided on the     *)
(* characters the buffer keeps, the edits on its text.                     *)
DefaultEdits ==
  LET cs == CharsOf(modified)
  IN IF Range(mod_chars) \cap (NotNfkc \cup Upper) # {}
     THEN EditsOf(modified, [i \in DOMAIN cs |-> SlowEdit(cs, i)])
     ELSE EditsOf(modified, [i \in DOMAIN cs |-> FastEdit(cs, i)])

(* ProlongedSoundMarkPlugin: [marks]{2,}                                   *)
ProlongedEdit(cs, i) ==
  LET Marks(j) == \A k \in i .. j - 1 : cs[k] \in ProlongedSoundMarks
      end == CHOOSE j \in i .. Len(cs) + 1 :
               Marks(j) /\ (j <= Len(cs) => cs[j] \notin ProlongedSoundMarks)
  IN IF end - i >= 2 THEN Edit(end, <<ReplacementSymbol>>) ELSE << >>

Kanji(c)   == InClass(CharacterCategory, {"KANJI"}, CodePoint[c])
Reading(c) == InClass(CharacterCategory, {"HIRAGANA", "KATAKANA"}, CodePoint[c])

(* IgnoreYomiganaPlugin: kanji([left][reading]{1,max}[right]); the edit is *)
(* of the group, which begins behind the kanji at i - 1.                   *)
YomiganaEdit(cs, i) ==
  LET ends == {j \in i + 2 .. Min({Len(cs), i + MaxYomiganaLength + 1}) :
                 /\ i > 1 /\ Kanji(cs[i - 1])
                 /\ cs[i] \in LeftBrackets
                 /\ \A k \in i + 1 .. j - 1 : Reading(cs[k])
                 /\ cs[j] \in RightBrackets}
  IN IF ends = {} THEN << >> ELSE Edit(Max(ends) + 1, << >>)

PlannedBy(plugin) ==
  LET cs == CharsOf(modified) IN
  CASE plugin = "default"   -> DefaultEdits
    [] plugin = "prolonged" -> EditsOf(modified, [i \in DOMAIN cs |-> ProlongedEdit(cs, i)])
    [] plugin = "yomigana"  -> EditsOf(modified, [i \in DOMAIN cs |-> YomiganaEdit(cs, i)])
    [] plugin = "foreign"   -> << >>
-----------------------------------------------------------------------------
(* InputTextPlugin::rewrite of the next plugin.  An error ends the loop    *)
(* over the plugins; the next text begins with reset.                      *)
NextPlugin == configured[rounds + 1]
Rewriting  == rounds < Len(configured) /\ result = "ok"

RefreshForPlugin ==
  /\ Rewriting /\ NextPlugin = "default"
  /\ RefreshChars
  /\ UNCHANGED <<configured, planned>>

RunPlugin ==
  /\ Rewriting
  /\ NextPlugin = "default" => mod_chars # << >> \/ modified = << >>
  /\ OpenEditor
  /\ planned' = PlannedBy(NextPlugin)
  /\ UNCHANGED configured

(* InputEditor::replace_ref, replace_char, replace_own: pushed unchecked.  *)
Replace ==
  /\ phase = "editing" /\ planned # << >>
  /\ replaces' = Append(replaces, planned[1])
  /\ planned' = Tail(planned)
  /\ UNCHANGED <<state, original, modified, m2o, modified_2, m2o_2, start, curLen,
                 phase, result, rounds, mod_chars, tables, configured>>

Foreign == configured[rounds] = "foreign"

ForeignEdit ==
  /\ phase = "editing" /\ Foreign
  /\ Len(replaces) < MaxForeignEdits /\ Len(modified) <= MaxForeignLength
  /\ \E from, to \in 0 .. Len(modified), with \in ForeignReplacements : RecordEdit(from, to, with)
  /\ UNCHANGED <<configured, planned>>

(* Only a loaded plugin reports an error of its own.                       *)
PluginFails == phase = "editing" /\ Foreign /\ Rollback /\ UNCHANGED <<configured, planned>>

Commit ==
  /\ planned = << >>
  /\ BeginCommit \/ CommitNothing \/ ResolveEdit \/ FinishCommit
  /\ UNCHANGED <<configured, planned>>

BufferCall ==
  /\ \/ \E text \in Texts : Reset(text)
     \/ StartBuildTooLong \/ StartBuild
     \/ rounds = Len(configured) /\ result = "ok" /\ Build
  /\ UNCHANGED <<configured, planned>>

PluginNext ==
  BufferCall \/ RefreshForPlugin \/ RunPlugin \/ Replace \/ ForeignEdit \/ PluginFails \/ Commit

PluginSpec == PluginInit /\ [][PluginNext]_pluginVars
-----------------------------------------------------------------------------
(* Edits are assumed to be sorted and not to overlap, and nothing checks   *)
(* it (resolve_edits): whatever plugins are configured in whatever order,  *)
(* and whatever the plugins before made of the text, each of them uses the *)
(* editor the way InputBuffer, and its proofs, let it be used.             *)
EditsAreSorted == Spec
=============================================================================

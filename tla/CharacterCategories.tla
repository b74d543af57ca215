------------------------ MODULE CharacterCategories ------------------------
(***************************************************************************)
(* Categories of characters: the table that is compiled from the lines of  *)
(* a character definition, the lookup in it, and how far a run of          *)
(* characters that share a category goes on.                               *)
(*                                                                         *)
(* A definition is a sequence of lines.  A line is [codes, types]: one     *)
(* code point or the first and the last one, and the names behind it up to *)
(* a comment; a line that does not begin with "0x" is not read and left    *)
(* out here.  NotHex stands for what is no hexadecimal number, NoColumn    *)
(* for the missing names of a line that ends behind its code points.       *)
(***************************************************************************)
EXTENDS Integers, Sequences, SequencesExt, FiniteSetsExt

CategoryTypes ==
  {"DEFAULT", "SPACE", "KANJI", "SYMBOL", "NUMERIC", "ALPHA", "HIRAGANA", "KATAKANA",
   "KANJINUMERIC", "GREEK", "CYRILLIC", "USER1", "USER2", "USER3", "USER4", "NOOOVBOW", "NOOOVEOW"}

NotHex == -1
NoColumn == "no column"
LastChar == 1114111                                          (* char::MAX  *)
IsChar(code) == code \in 0 .. LastChar /\ code \notin 55296 .. 57343

(* Ranges are half-open.  The code point behind the last one must be a     *)
(* character as well.                                                      *)
RangeOf(line) ==
  [begin |-> line.codes[1], end |-> Last(line.codes) + 1, types |-> line.types]

IsReadable(line) ==
  LET r == RangeOf(line) IN
  /\ NotHex \notin ToSet(line.codes)
  /\ r.begin < r.end /\ IsChar(r.begin) /\ IsChar(r.end)
  /\ r.types \subseteq CategoryTypes

(* read_character_definition: the first line that cannot be read refuses   *)
(* the whole definition.                                                   *)
IsDefinition(lines) == \A i \in DOMAIN lines : IsReadable(lines[i])
Ranges(lines) == {RangeOf(lines[i]) : i \in DOMAIN lines}
-----------------------------------------------------------------------------
(* The members of a finite set of numbers, from the least one on.           *)
Ascending(S) ==
  [n \in 1 .. Cardinality(S) |-> CHOOSE b \in S : Cardinality({c \in S : c < b}) = n - 1]

(* A table: types[i] holds from boundaries[i - 1] on, before boundaries[i].*)
DefaultTable == [boundaries |-> << >>, types |-> <<{"DEFAULT"}>>]

CollectBoundaries(ranges) ==
  Ascending({r.begin : r \in ranges} \cup {r.end : r \in ranges})

Bug_WithEnd(r, from, to) == r.begin <= from /\ from <= r.end

Covers(r, from, to) == r.begin <= from /\ to <= r.end

Split(ranges, bs) ==
  [i \in DOMAIN bs |-> IF i = 1 THEN {"DEFAULT"}
                       ELSE UNION {r.types : r \in {r \in ranges : Covers(r, bs[i - 1], bs[i])}}]

(* Successive ranges of the same categories are one.  A range no line      *)
(* covers is empty still, and differs from one a line calls DEFAULT.       *)
Compile(ranges) ==
  LET bs     == CollectBoundaries(ranges)
      split  == Split(ranges, bs)
      kept   == Ascending({i \in DOMAIN bs : i = Len(bs) \/ split[i] # split[i + 1]})
      OrDefault(types) == IF types = {} THEN {"DEFAULT"} ELSE types
  IN IF ranges = {} THEN DefaultTable
     ELSE [boundaries |-> [n \in DOMAIN kept |-> bs[kept[n]]],
           types |-> Append([n \in DOMAIN kept |-> OrDefault(split[kept[n]])], {"DEFAULT"})]

TableOf(lines) == Compile(Ranges(lines))

(* A boundary that is found begins the next range; of a code point that is *)
(* not found the search gives where it would be inserted.                  *)
CategoryTypesOf(table, code) ==
  LET before == Cardinality({i \in DOMAIN table.boundaries : table.boundaries[i] < code})
  IN IF code \in ToSet(table.boundaries) THEN table.types[before + 2] ELSE table.types[before + 1]

(* CharCategoryIter, of a table with boundaries: the range behind the last *)
(* one leaves the last character out.                                      *)
Iter(table) ==
  LET n == Len(table.boundaries)
  IN [i \in 1 .. n + 1 |->
        [begin |-> IF i = 1 THEN 0 ELSE table.boundaries[i - 1],
         end   |-> IF i > n THEN LastChar ELSE table.boundaries[i],
         types |-> table.types[i]]]

(* A class of characters in the regular expression of a plugin.            *)
InClass(table, types, code) ==
  \E i \in DOMAIN Iter(table) :
    /\ Iter(table)[i].types \cap types # {}
    /\ Iter(table)[i].begin <= code /\ code < Iter(table)[i].end

(* What a definition means: all the categories its lines give a character. *)
CategoriesGiven(lines, code) ==
  LET own == UNION {r.types : r \in {r \in Ranges(lines) : r.begin <= code /\ code < r.end}}
  IN IF own = {} THEN {"DEFAULT"} ELSE own
-----------------------------------------------------------------------------
Common(cats, from, to) == {c \in cats[from] : \A j \in from .. to : c \in cats[j]}

(* Number of characters from i on that share a category.  Inside a run the *)
(* length only counts down; it is computed anew where the run ends.        *)
CategoryContinuity(cats) ==
  LET longest(i) ==
        Max({1} \cup {l \in 2 .. Len(cats) - i + 1 : Common(cats, i, i + l - 1) # {}})
      run[i \in 1 .. Len(cats)] ==
        IF i > 1 /\ run[i - 1] > 1 THEN run[i - 1] - 1 ELSE longest(i)
  IN run
=============================================================================

--------------------------- MODULE NumericParser ---------------------------
(***************************************************************************)
(* NumericParser and its StringNumber: numbers written with digits, units  *)
(* and separators are read character by character into three sums and      *)
(* normalized to digits.  The second half of the module says, without the  *)
(* parser, what such a text means: each digit has its place.               *)
(***************************************************************************)
EXTENDS Integers, Sequences, SequencesExt, FiniteSets, FiniteSetsExt

(* Characters: digits, units with their negated exponent as in CHAR_TO_NUM,*)
(* and the separators.                                                     *)
Digits     == 0..9
SmallUnits == {-1, -2, -3}
LargeUnits == {-4, -8, -12}
Point      == 10
Comma      == 11
-----------------------------------------------------------------------------
(* StringNumber                                                            *)
NoNumber == [significand |-> << >>, scale |-> 0, point |-> -1, allZero |-> TRUE]

IsZero(s) == s.significand = << >>

AppendDigit(s, n) ==
  [s EXCEPT !.significand = Append(@, n), !.allZero = @ /\ n = 0]

(* A unit without digits stands for one of its kind.                       *)
ShiftScale(s, n) ==
  [s EXCEPT !.significand = IF IsZero(s) THEN <<1>> ELSE @, !.scale = @ + n]

FillZero(s, n) == [s EXCEPT !.significand = @ \o [i \in 1..n |-> 0]]

NormalizeScale(s) ==
  LET decimals == Len(s.significand) - s.point IN
  IF s.point < 0 THEN s
  ELSE IF decimals > s.scale THEN [s EXCEPT !.point = @ + s.scale, !.scale = 0]
  ELSE [s EXCEPT !.scale = @ - decimals, !.point = -1]

(* int_length of a normalized number                                       *)
IntLength(s) == IF s.point >= 0 THEN s.point ELSE Len(s.significand) + s.scale

(* There is room for the integer part below the last digit.                *)
HasRoom(self, number) == self.scale >= IntLength(number)

Bug_NoZeros(self, number) ==
  LET s == NormalizeScale(self)
      n == NormalizeScale(number)
  IN IF IsZero(number) THEN <<TRUE, self>>
     ELSE IF IsZero(self)
     THEN <<TRUE, [number EXCEPT !.allZero = self.allZero]>>
     ELSE IF ~ HasRoom(s, n) THEN <<FALSE, s>>
     ELSE <<TRUE, [s EXCEPT
              !.point = IF n.point >= 0 THEN Len(s.significand) + n.point ELSE @,
              !.significand = @ \o n.significand, !.scale = n.scale]>>

(* add: whether it could, and self afterwards.                             *)
Plus(self, number) ==
  LET s == NormalizeScale(self)
      n == NormalizeScale(number)
      f == FillZero(s, s.scale - IntLength(n))
  IN IF IsZero(number) THEN <<TRUE, self>>
     ELSE IF IsZero(self)
     THEN <<TRUE, [number EXCEPT !.allZero = self.allZero]>>
     ELSE IF ~ HasRoom(s, n) THEN <<FALSE, s>>
     ELSE <<TRUE, [f EXCEPT
              !.point = IF n.point >= 0 THEN Len(f.significand) + n.point ELSE @,
              !.significand = @ \o n.significand, !.scale = n.scale]>>

(* The digits without the zeros, and the point, at their end.              *)
TrimDecimals(digits) ==
  LET kept == CHOOSE n \in 0..Len(digits) :
        /\ \A i \in n + 1..Len(digits) : digits[i] = 0
        /\ n = 0 \/ digits[n] # 0
  IN IF kept > 0 /\ digits[kept] = Point THEN SubSeq(digits, 1, kept - 1)
     ELSE SubSeq(digits, 1, kept)

(* get_normalized                                                          *)
Normalized(number) ==
  LET s == NormalizeScale(number)
      d == s.significand
  IN IF IsZero(number) THEN <<0>>
     ELSE IF s.scale > 0 THEN FillZero(s, s.scale).significand
     ELSE IF s.point < 0 THEN d
     ELSE TrimDecimals((IF s.point = 0 THEN <<0>> ELSE << >>)
            \o SubSeq(d, 1, s.point) \o <<Point>> \o SubSeq(d, s.point + 1, Len(d)))
-----------------------------------------------------------------------------
(* NumericParser: clear(). The result of the last append is in ok.         *)
NewParser ==
  [digitLength |-> 0, firstDigit |-> TRUE, comma |-> FALSE, hanging |-> FALSE,
   error |-> "none", ok |-> TRUE,
   total |-> NoNumber, subtotal |-> NoNumber, tmp |-> NoNumber]

Refuses(p, error) == [p EXCEPT !.ok = FALSE, !.error = error]

CheckComma(p) ==
  /\ ~ p.firstDigit
  /\ IF p.comma THEN p.digitLength = 3
     ELSE p.digitLength <= 3 /\ ~ IsZero(p.tmp) /\ ~ p.tmp.allZero

AppendPoint(parser) ==
  LET p == [parser EXCEPT !.hanging = TRUE] IN
  IF p.firstDigit THEN Refuses(p, "point")
  ELSE IF p.comma /\ ~ CheckComma(p) THEN Refuses(p, "comma")
  ELSE IF p.tmp.scale # 0 \/ p.tmp.point >= 0 THEN Refuses(p, "point")
  ELSE [p EXCEPT !.tmp.point = Len(p.tmp.significand), !.comma = FALSE]

AppendComma(p) ==
  IF ~ CheckComma(p) THEN Refuses(p, "comma")
  ELSE [p EXCEPT !.comma = TRUE, !.digitLength = 0]

AfterUnit(p) ==
  [p EXCEPT !.tmp = NoNumber, !.firstDigit = TRUE, !.digitLength = 0, !.comma = FALSE]

AppendSmallUnit(p, n) ==
  LET tmp == ShiftScale(p.tmp, -n)
      sum == Plus(p.subtotal, tmp)
  IN IF ~ sum[1] THEN [p EXCEPT !.ok = FALSE, !.tmp = tmp]
     ELSE AfterUnit([p EXCEPT !.subtotal = sum[2]])

AppendLargeUnit(p, n) ==
  LET group == Plus(p.subtotal, p.tmp)
      sum   == Plus(p.total, ShiftScale(group[2], -n))
  IN IF ~ group[1] \/ IsZero(group[2]) \/ ~ sum[1] THEN [p EXCEPT !.ok = FALSE]
     ELSE AfterUnit([p EXCEPT !.total = sum[2], !.subtotal = NoNumber])

(* append                                                                  *)
AppendChar(p, c) ==
  CASE c = Point        -> AppendPoint(p)
    [] c = Comma        -> AppendComma(p)
    [] c \in SmallUnits -> AppendSmallUnit(p, c)
    [] c \in LargeUnits -> AppendLargeUnit(p, c)
    [] c \in Digits     -> [p EXCEPT !.tmp = AppendDigit(@, c), !.firstDigit = FALSE,
                                     !.digitLength = @ + 1, !.hanging = FALSE]
    [] OTHER            -> [p EXCEPT !.ok = FALSE]

(* append until the first character that is refused                        *)
AppendAll(p, cs) ==
  LET read[n \in 0..Len(cs)] ==
        IF n = 0 THEN [p EXCEPT !.ok = TRUE]
        ELSE LET q == read[n - 1] IN IF q.ok THEN AppendChar(q, cs[n]) ELSE q
  IN read[Len(cs)]

(* done: a separator that hangs is the error, whether or not the sums were *)
(* made.                                                                   *)
Done(p) ==
  LET sum == Plus(p.subtotal, p.tmp)
      all == Plus(p.total, sum[2])
      q   == [p EXCEPT !.total = IF sum[1] THEN all[2] ELSE @]
  IN IF p.hanging THEN Refuses(q, "point")
     ELSE IF p.comma /\ p.digitLength # 3 THEN Refuses(q, "comma")
     ELSE [q EXCEPT !.ok = sum[1] /\ all[1]]
-----------------------------------------------------------------------------
(* Some digits, units and separators, and the parser that has read them    *)
(* and was asked for the number, as far as it accepted them.               *)
IsNumeral(t) == t # << >> /\ Range(t) \subseteq Digits \cup SmallUnits \cup LargeUnits \cup {Point, Comma}
Parsed(t) == LET p == AppendAll(NewParser, t) IN IF p.ok THEN Done(p) ELSE p
-----------------------------------------------------------------------------
(* What a text means.  The digits and points that stand together:          *)
NoCommas(t) == SelectSeq(t, LAMBDA c : c # Comma)
InRun(t, i, j) == \A k \in Min({i, j})..Max({i, j}) : t[k] \in Digits \cup {Point}

(* The place of the digit at i within them: how many digits follow before  *)
(* the point, or how far behind the point it is.                           *)
PlaceInRun(t, i) ==
  LET run    == {j \in DOMAIN t : InRun(t, i, j)}
      points == {j \in run : t[j] = Point}
      last   == IF points = {} THEN Max(run) ELSE Min(points) - 1
  IN IF i <= last THEN last - i ELSE last + 1 - i

(* The exponent of the unit that follows the character at i: the first     *)
(* unit for a small one, the first large one for that.                     *)
After(t, i, units) == {j \in i..Len(t) : t[j] \in units}
FirstOf(js) == IF js = {} THEN 0 ELSE Min(js)
SmallAfter(t, i) ==
  LET j == FirstOf(After(t, i, SmallUnits \cup LargeUnits))
  IN IF j # 0 /\ t[j] \in SmallUnits THEN -t[j] ELSE 0
LargeAfter(t, i) ==
  LET j == FirstOf(After(t, i, LargeUnits)) IN IF j # 0 THEN -t[j] ELSE 0

(* The digits with their places; a small unit alone is a digit 1.          *)
IsAlone(t, i) ==
  t[i] \in SmallUnits /\ (i = 1 \/ t[i - 1] \notin Digits \cup {Point})
Significant(t) == {i \in DOMAIN t : t[i] \in Digits \/ IsAlone(t, i)}
PlaceOf(t, i) ==
  (IF t[i] \in Digits THEN PlaceInRun(t, i) ELSE 0) + SmallAfter(t, i) + LargeAfter(t, i)
Meaning(t) ==
  {<<IF t[i] \in Digits THEN t[i] ELSE 1, PlaceOf(t, i)>> : i \in Significant(t)}

NonZero(ds) == {d \in ds : d[1] # 0}

(* Each digit lies below the one before it.                                *)
InOrder(t) ==
  \A i, j \in Significant(t) : i < j => PlaceOf(t, i) > PlaceOf(t, j)
-----------------------------------------------------------------------------
(* The digits of an accepted text are in order, and the normalized form    *)
(* has the same digits at the same places: it is the same number.          *)
NormalizedMeans(t) ==
  LET plain == NoCommas(t) IN
  /\ InOrder(plain)
  /\ NonZero(Meaning(Normalized(Parsed(t).total))) = NonZero(Meaning(plain))

(* Normalized forms have no units, no commas, no point at either end and   *)
(* no zeros behind the decimals: equal numbers without leading zeros have  *)
(* equal forms.                                                            *)
NormalizedIsPlain(t) ==
  LET n == Normalized(Parsed(t).total)
      points == {i \in DOMAIN n : n[i] = Point}
  IN /\ n # << >> /\ Cardinality(points) <= 1
     /\ Range(n) \subseteq Digits \cup {Point}
     /\ points # {} => n[1] # Point /\ n[Len(n)] \notin {0, Point}

(* In an accepted text without units commas part groups of three digits,   *)
(* and the integer part before the first has at most three, not all zeros. *)
(* (check_comma counts decimals too: "1.5,000" is accepted.)               *)
CommasPartThousands(t) ==
  Range(t) \subseteq Digits \cup {Point, Comma} =>
    \A i \in DOMAIN t : t[i] = Comma =>
      LET before == 1..i - 1
          after  == {j \in i + 1..Len(t) : \A k \in i + 1..j : t[k] \in Digits}
      IN /\ Cardinality(after) = 3
         /\ (\A j \in before : t[j] \in Digits) =>
              i - 1 <= 3 /\ \E j \in before : t[j] # 0

(* The parser refuses a text without separators only where the digits are  *)
(* out of order or a large unit has nothing to multiply.                   *)
UnitOfNothing(t) ==
  \E i \in DOMAIN t : t[i] \in LargeUnits /\ (i = 1 \/ t[i - 1] \in LargeUnits)
RefusedForReason(t) ==
  Range(t) \cap {Point, Comma} = {} => ~ InOrder(t) \/ UnitOfNothing(t)

ReadAsMeant(t) ==
  IF Parsed(t).ok
  THEN NormalizedMeans(t) /\ NormalizedIsPlain(t) /\ CommasPartThousands(t)
  ELSE RefusedForReason(t)
=============================================================================

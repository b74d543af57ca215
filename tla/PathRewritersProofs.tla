------------------------- MODULE PathRewritersProofs -------------------------
(***************************************************************************)
(* Proofs about PathRewriters, for any paths of nodes with any normalized  *)
(* forms: numbers are joined from the nodes whose text they are read from, *)
(* though one parser serves all runs.  First the parser: it reads a text   *)
(* in parts as it reads it at once, and what done leaves behind before a   *)
(* separator that hangs is what it leaves of the text alone.  Then the     *)
(* path while nodes are joined, the end of a run, and the scan.  Last the  *)
(* joining of katakana, for any nodes, wherever words may not begin.       *)
(***************************************************************************)
EXTENDS PathRewriters, SequenceLemmas, TLAPS
-----------------------------------------------------------------------------
(***************************************************************************)
(* The parser of numbers: types, and reading a text in parts.              *)
(***************************************************************************)
Number == [significand : Seq(Int), scale : Int, point : Int, allZero : BOOLEAN]
ParserState ==
  [digitLength : Int, firstDigit : BOOLEAN, comma : BOOLEAN, hanging : BOOLEAN,
   error : {"none", "point", "comma"}, ok : BOOLEAN,
   total : Number, subtotal : Number, tmp : Number]

(* A number has its fields.                                                *)
LEMMA NumberFields ==
  ASSUME NEW s \in Number
  PROVE  /\ s.significand \in Seq(Int) /\ s.scale \in Int /\ s.point \in Int
         /\ s.allZero \in BOOLEAN /\ Len(s.significand) \in Nat
<1>1. s.significand \in Seq(Int) /\ s.scale \in Int /\ s.point \in Int /\ s.allZero \in BOOLEAN
  BY DEF Number
<1> QED BY <1>1, LenProperties

(* The empty number, and the 1 that a unit alone stands for.               *)
LEMMA NoNumberType == NoNumber \in Number /\ <<1>> \in Seq(Int)
<1>1. << >> \in Seq(Int) /\ <<1>> \in Seq(Int)
  BY EmptySeq
<1> QED BY <1>1 DEF NoNumber, Number

(* A record of a number with the fields of another.                        *)
LEMMA NumberWith ==
  ASSUME NEW s \in Number, NEW d \in Seq(Int), NEW c \in Int, NEW p \in Int, NEW z \in BOOLEAN
  PROVE  /\ [s EXCEPT !.significand = d] \in Number
         /\ [s EXCEPT !.allZero = z] \in Number
         /\ [s EXCEPT !.point = p, !.significand = d, !.scale = c] \in Number
BY DEF Number

(* Zeros at the end.                                                       *)
LEMMA FillZeroType ==
  ASSUME NEW s \in Number, NEW n \in Int
  PROVE  FillZero(s, n) \in Number
<1> DEFINE zeros == [i_ \in 1 .. n |-> 0]
<1>1. zeros \in Seq(Int)
  <2>1. CASE n \in Nat
    <3>1. \A k \in 1 .. n : zeros[k] \in Int
      OBVIOUS
    <3> QED BY <2>1, IsASeq
  <2>2. CASE n \notin Nat
    <3>1. 1 .. n = 1 .. 0
      BY <2>2
    <3>2. zeros = [k \in 1 .. 0 |-> 0]
      BY <3>1
    <3>3. [k \in 1 .. 0 |-> 0] \in Seq(Int)
      BY IsASeq
    <3> QED BY <3>2, <3>3
  <2> QED BY <2>1, <2>2
<1>2. s.significand \o zeros \in Seq(Int)
  <2> HIDE DEF zeros
  <2> QED BY <1>1, NumberFields, ConcatProperties
<1> DEFINE d == s.significand \o zeros
<1>3. FillZero(s, n) = [s EXCEPT !.significand = d]
  BY DEF FillZero
<1> HIDE DEF d
<1> QED BY <1>2, <1>3, NumberWith DEF d

(* The operations on numbers return numbers.                               *)
LEMMA NormalizeScaleType ==
  ASSUME NEW s \in Number
  PROVE  NormalizeScale(s) \in Number
<1> DEFINE decimals == Len(s.significand) - s.point
<1>1. decimals \in Int /\ s.scale \in Int /\ s.point + s.scale \in Int /\ s.scale - decimals \in Int
  BY NumberFields
<1>2. NormalizeScale(s) =
        IF s.point < 0 THEN s
        ELSE IF decimals > s.scale THEN [s EXCEPT !.point = s.point + s.scale, !.scale = 0]
        ELSE [s EXCEPT !.scale = s.scale - decimals, !.point = -1]
  BY DEF NormalizeScale
<1>3. /\ [s EXCEPT !.point = s.point + s.scale, !.scale = 0] \in Number
      /\ [s EXCEPT !.scale = s.scale - decimals, !.point = -1] \in Number
  <2> DEFINE c == s.scale - decimals
             p == s.point + s.scale
  <2>1. c \in Int /\ p \in Int /\ 0 \in Int /\ -1 \in Int
    BY <1>1
  <2>2. [s EXCEPT !.point = p, !.scale = 0] \in Number /\ [s EXCEPT !.scale = c, !.point = -1] \in Number
    <3> HIDE DEF c, p
    <3> QED BY <2>1 DEF Number
  <2> QED BY <2>2
<1> HIDE DEF decimals
<1> QED BY <1>2, <1>3

(* A number times a unit.                                                  *)
LEMMA ShiftScaleType ==
  ASSUME NEW s \in Number, NEW n \in Int
  PROVE  ShiftScale(s, n) \in Number
<1> DEFINE d == IF IsZero(s) THEN <<1>> ELSE s.significand
<1>1. d \in Seq(Int) /\ s.scale + n \in Int
  BY NumberFields, NoNumberType
<1>2. ShiftScale(s, n) = [s EXCEPT !.significand = d, !.scale = s.scale + n]
  BY DEF ShiftScale
<1> HIDE DEF d
<1> QED BY <1>1, <1>2 DEF Number

(* A number and one more digit.                                            *)
LEMMA AppendDigitType ==
  ASSUME NEW s \in Number, NEW n \in Int
  PROVE  AppendDigit(s, n) \in Number
<1> DEFINE d == Append(s.significand, n)
           z == (s.allZero /\ n = 0)
<1>1. d \in Seq(Int) /\ z \in BOOLEAN
  BY NumberFields, AppendProperties
<1>2. AppendDigit(s, n) = [s EXCEPT !.significand = d, !.allZero = z]
  BY DEF AppendDigit
<1> HIDE DEF d, z
<1> QED BY <1>1, <1>2 DEF Number

(* add tells whether it could and returns a number in any case.            *)
LEMMA PlusType ==
  ASSUME NEW self \in Number, NEW number \in Number
  PROVE  Plus(self, number)[1] \in BOOLEAN /\ Plus(self, number)[2] \in Number
<1> DEFINE s == NormalizeScale(self)
           n == NormalizeScale(number)
           f == FillZero(s, s.scale - IntLength(n))
           p == IF n.point >= 0 THEN Len(f.significand) + n.point ELSE f.point
           d == f.significand \o n.significand
<1>1. s \in Number /\ n \in Number
  BY NormalizeScaleType
<1>2. s.scale - IntLength(n) \in Int
  <2> HIDE DEF s, n
  <2> QED BY <1>1, NumberFields DEF IntLength
<1>3. f \in Number
  <2> HIDE DEF s, n
  <2> QED BY <1>1, <1>2, FillZeroType
<1>4. p \in Int /\ d \in Seq(Int) /\ n.scale \in Int
  <2> HIDE DEF s, n, f
  <2>1. p \in Int /\ n.scale \in Int
    BY <1>1, <1>3, NumberFields
  <2>2. d \in Seq(Int)
    BY <1>1, <1>3, NumberFields, ConcatProperties
  <2> QED BY <2>1, <2>2
<1>5. Plus(self, number) =
        IF IsZero(number) THEN <<TRUE, self>>
        ELSE IF IsZero(self) THEN <<TRUE, [number EXCEPT !.allZero = self.allZero]>>
        ELSE IF ~ HasRoom(s, n) THEN <<FALSE, s>>
        ELSE <<TRUE, [f EXCEPT !.point = p, !.significand = d, !.scale = n.scale]>>
  BY DEF Plus
<1>6. [number EXCEPT !.allZero = self.allZero] \in Number
  BY NumberFields, NumberWith
<1>7. [f EXCEPT !.point = p, !.significand = d, !.scale = n.scale] \in Number
  <2> HIDE DEF s, n, f, p, d
  <2> QED BY <1>3, <1>4, NumberWith
<1> HIDE DEF s, n, f, p, d
<1>8. CASE IsZero(number)
  BY <1>5, <1>8
<1>9. CASE ~ IsZero(number) /\ IsZero(self)
  BY <1>5, <1>6, <1>9
<1>10. CASE ~ IsZero(number) /\ ~ IsZero(self) /\ ~ HasRoom(s, n)
  BY <1>1, <1>5, <1>10
<1>11. CASE ~ IsZero(number) /\ ~ IsZero(self) /\ HasRoom(s, n)
  BY <1>5, <1>7, <1>11
<1> QED BY <1>8, <1>9, <1>10, <1>11

(* A parser has its fields.                                                *)
LEMMA ParserFields ==
  ASSUME NEW p \in ParserState
  PROVE  /\ p.digitLength \in Int /\ p.firstDigit \in BOOLEAN /\ p.comma \in BOOLEAN
         /\ p.hanging \in BOOLEAN /\ p.ok \in BOOLEAN
         /\ p.total \in Number /\ p.subtotal \in Number /\ p.tmp \in Number
BY DEF ParserState

(* The parser at the start accepts.                                        *)
LEMMA NewParserType == NewParser \in ParserState /\ NewParser.ok
BY NoNumberType DEF NewParser, ParserState

(* A refusal is a state of the parser.                                     *)
LEMMA RefusesType ==
  ASSUME NEW p \in ParserState, NEW e \in {"point", "comma"}
  PROVE  Refuses(p, e) \in ParserState
BY DEF Refuses, ParserState

(* A point, accepted or not.                                               *)
LEMMA AppendPointType ==
  ASSUME NEW parser_ \in ParserState
  PROVE  AppendPoint(parser_) \in ParserState
<1> DEFINE p == [parser_ EXCEPT !.hanging = TRUE]
           n == Len(p.tmp.significand)
           t == [p.tmp EXCEPT !.point = n]
           r == [p EXCEPT !.tmp.point = n, !.comma = FALSE]
<1>1. p \in ParserState /\ p.tmp \in Number
  BY DEF ParserState
<1>2. n \in Int
  <2> HIDE DEF p
  <2> QED BY <1>1, NumberFields
<1>3. t \in Number
  <2> HIDE DEF p, n
  <2> QED BY <1>1, <1>2 DEF Number
<1>4. r \in ParserState
  <2>1. r = [p EXCEPT !.tmp = t, !.comma = FALSE]
    <3> HIDE DEF p, n
    <3> QED BY <1>1 DEF ParserState, Number
  <2>2. [p EXCEPT !.tmp = t, !.comma = FALSE] \in ParserState
    <3> HIDE DEF p, t
    <3> QED BY <1>1, <1>3 DEF ParserState
  <2> QED BY <2>1, <2>2
<1>5. Refuses(p, "point") \in ParserState /\ Refuses(p, "comma") \in ParserState
  <2> HIDE DEF p
  <2> QED BY <1>1, RefusesType
<1>6. AppendPoint(parser_) \in {Refuses(p, "point"), Refuses(p, "comma"), r}
  BY DEF AppendPoint
<1> HIDE DEF p, r
<1> QED BY <1>4, <1>5, <1>6

(* A comma, accepted or not.                                               *)
LEMMA AppendCommaType ==
  ASSUME NEW p \in ParserState
  PROVE  AppendComma(p) \in ParserState
<1>1. [p EXCEPT !.comma = TRUE, !.digitLength = 0] \in ParserState
  <2> DEFINE yes == TRUE
             zero == 0
  <2>1. yes \in BOOLEAN /\ zero \in Int
    OBVIOUS
  <2>2. [p EXCEPT !.comma = yes, !.digitLength = zero] \in ParserState
    <3> HIDE DEF yes, zero
    <3> QED BY <2>1 DEF ParserState
  <2> QED BY <2>2
<1>2. AppendComma(p) \in {Refuses(p, "comma"), [p EXCEPT !.comma = TRUE, !.digitLength = 0]}
  BY DEF AppendComma
<1> QED BY <1>1, <1>2, RefusesType

(* The parser behind a unit.                                               *)
LEMMA AfterUnitType ==
  ASSUME NEW p \in ParserState
  PROVE  AfterUnit(p) \in ParserState
<1> DEFINE yes == TRUE
           no == FALSE
           zero == 0
           t == NoNumber
<1>1. yes \in BOOLEAN /\ no \in BOOLEAN /\ zero \in Int /\ t \in Number
  BY NoNumberType
<1>2. AfterUnit(p) = [p EXCEPT !.tmp = t, !.firstDigit = yes, !.digitLength = zero, !.comma = no]
  BY DEF AfterUnit
<1> HIDE DEF yes, no, zero, t
<1> QED BY <1>1, <1>2 DEF ParserState

(* A unit that multiplies the digits before it.                            *)
LEMMA AppendSmallUnitType ==
  ASSUME NEW p \in ParserState, NEW n \in Int
  PROVE  AppendSmallUnit(p, n) \in ParserState
<1> DEFINE t == ShiftScale(p.tmp, -n)
           sum == Plus(p.subtotal, t)
           bad == [p EXCEPT !.ok = FALSE, !.tmp = t]
           good == [p EXCEPT !.subtotal = sum[2]]
<1>1. t \in Number
  BY ParserFields, ShiftScaleType
<1>2. sum[2] \in Number
  <2> HIDE DEF t
  <2> QED BY <1>1, ParserFields, PlusType
<1>3. bad \in ParserState /\ good \in ParserState
  <2> HIDE DEF t, sum
  <2> QED BY <1>1, <1>2 DEF ParserState
<1>4. AppendSmallUnit(p, n) \in {bad, AfterUnit(good)}
  BY DEF AppendSmallUnit
<1> HIDE DEF bad, good
<1> QED BY <1>3, <1>4, AfterUnitType

(* A unit that multiplies the sum before it.                               *)
LEMMA AppendLargeUnitType ==
  ASSUME NEW p \in ParserState, NEW n \in Int
  PROVE  AppendLargeUnit(p, n) \in ParserState
<1> DEFINE group == Plus(p.subtotal, p.tmp)
           t == ShiftScale(group[2], -n)
           sum == Plus(p.total, t)
           bad == [p EXCEPT !.ok = FALSE]
           good == [p EXCEPT !.total = sum[2], !.subtotal = NoNumber]
<1>1. group[2] \in Number
  BY ParserFields, PlusType
<1>2. t \in Number
  <2> HIDE DEF group
  <2> QED BY <1>1, ShiftScaleType
<1>3. sum[2] \in Number
  <2> HIDE DEF t
  <2> QED BY <1>2, ParserFields, PlusType
<1>4. bad \in ParserState /\ good \in ParserState
  <2> HIDE DEF t, sum, group
  <2> QED BY <1>3, NoNumberType DEF ParserState
<1>5. AppendLargeUnit(p, n) \in {bad, AfterUnit(good)}
  BY DEF AppendLargeUnit
<1> HIDE DEF bad, good
<1> QED BY <1>4, <1>5, AfterUnitType

(* The parser after a digit.                                               *)
ReadDigit(p, c) ==
  [p EXCEPT !.tmp = AppendDigit(@, c), !.firstDigit = FALSE,
            !.digitLength = @ + 1, !.hanging = FALSE]

(* A digit.                                                                *)
LEMMA ReadDigitType ==
  ASSUME NEW p \in ParserState, NEW c \in Int
  PROVE  ReadDigit(p, c) \in ParserState
<1> DEFINE t == AppendDigit(p.tmp, c)
           no == FALSE
           n == p.digitLength + 1
<1>1. t \in Number /\ n \in Int /\ no \in BOOLEAN
  BY ParserFields, AppendDigitType
<1>2. ReadDigit(p, c) = [p EXCEPT !.tmp = t, !.firstDigit = no,
                                  !.digitLength = n, !.hanging = no]
  BY DEF ReadDigit
<1> HIDE DEF t, no, n
<1> QED BY <1>1, <1>2 DEF ParserState

(* append, by the kind of the character.                                   *)
LEMMA AppendCharCases ==
  ASSUME NEW p, NEW c \in Int
  PROVE  /\ c = Point => AppendChar(p, c) = AppendPoint(p)
         /\ c = Comma => AppendChar(p, c) = AppendComma(p)
         /\ c \in SmallUnits => AppendChar(p, c) = AppendSmallUnit(p, c)
         /\ c \in LargeUnits => AppendChar(p, c) = AppendLargeUnit(p, c)
         /\ c \in Digits => AppendChar(p, c) = ReadDigit(p, c)
         /\ c \notin {Point, Comma} \cup SmallUnits \cup LargeUnits \cup Digits =>
              AppendChar(p, c) = [p EXCEPT !.ok = FALSE]
BY DEF AppendChar, ReadDigit, Point, Comma, SmallUnits, LargeUnits, Digits

(* Whatever character is read, the parser is in one of its states.         *)
LEMMA AppendCharType ==
  ASSUME NEW p \in ParserState, NEW c \in Int
  PROVE  AppendChar(p, c) \in ParserState
<1>1. [p EXCEPT !.ok = FALSE] \in ParserState
  BY DEF ParserState
<1>2. CASE c = Point
  BY <1>2, AppendCharCases, AppendPointType
<1>3. CASE c = Comma
  BY <1>3, AppendCharCases, AppendCommaType
<1>4. CASE c \in SmallUnits
  BY <1>4, AppendCharCases, AppendSmallUnitType
<1>5. CASE c \in LargeUnits
  BY <1>5, AppendCharCases, AppendLargeUnitType
<1>6. CASE c \in Digits
  BY <1>6, AppendCharCases, ReadDigitType
<1>7. CASE c \notin {Point, Comma} \cup SmallUnits \cup LargeUnits \cup Digits
  BY <1>1, <1>7, AppendCharCases
<1> QED BY <1>2, <1>3, <1>4, <1>5, <1>6, <1>7

(* A parser that is fed is fed on.                                         *)
Started(p) == [p EXCEPT !.ok = TRUE]
ReadChar(q, c) == IF q.ok THEN AppendChar(q, c) ELSE q

(* A parser that accepts is one that can be started.                       *)
LEMMA StartedFacts ==
  ASSUME NEW p \in ParserState
  PROVE  /\ Started(p) \in ParserState /\ Started(p).ok
         /\ p.ok => Started(p) = p
<1>1. Started(p) \in ParserState /\ Started(p).ok
  BY DEF Started, ParserState
<1>2. p.ok => Started(p) = p
  BY DEF Started, ParserState
<1> QED BY <1>1, <1>2

(* One character of a text, behind a refusal none.                         *)
LEMMA ReadCharType ==
  ASSUME NEW q \in ParserState, NEW c \in Int
  PROVE  ReadChar(q, c) \in ParserState
BY AppendCharType DEF ReadChar

(* The function in AppendAll: the parser after the first characters.       *)
IsReading(f, p, cs) ==
  /\ f \in [0 .. Len(cs) -> ParserState]
  /\ f[0] = Started(p)
  /\ \A n \in 1 .. Len(cs) : f[n] = ReadChar(f[n - 1], cs[n])

(* AppendAll, character by character.                                      *)
LEMMA AppendAllSteps ==
  ASSUME NEW p \in ParserState, NEW cs \in Seq(Int)
  PROVE  \E f : IsReading(f, p, cs) /\ AppendAll(p, cs) = f[Len(cs)]
<1> DEFINE n == Len(cs)
           Rec(f) == f = [k \in 0 .. n |->
                       IF k = 0 THEN [p EXCEPT !.ok = TRUE]
                       ELSE IF f[k - 1].ok THEN AppendChar(f[k - 1], cs[k]) ELSE f[k - 1]]
           all == CHOOSE f : Rec(f)
           first == Started(p)
           next == [x \in (0 .. n) \X ParserState |->
                      IF x[1] # 0 THEN ReadChar(x[2], cs[x[1]]) ELSE x[2]]
<1>1. n \in Nat /\ 0 \in Nat /\ 0 <= n
  BY LenProperties
<1>2. first \in ParserState
  BY StartedFacts
<1>3. next \in [(0 .. n) \X ParserState -> ParserState]
  <2>1. ASSUME NEW x \in (0 .. n) \X ParserState
        PROVE  (IF x[1] # 0 THEN ReadChar(x[2], cs[x[1]]) ELSE x[2]) \in ParserState
    <3>1. x[1] \in 0 .. n /\ x[2] \in ParserState
      OBVIOUS
    <3>2. x[1] # 0 => cs[x[1]] \in Int
      BY <1>1, <3>1, ElementOfSeq
    <3> QED BY <3>1, <3>2, ReadCharType
  <2> QED BY <2>1
<1>4. \A k \in 1 .. n, q \in ParserState : next[<<k, q>>] = ReadChar(q, cs[k])
  <2> SUFFICES ASSUME NEW k \in 1 .. n, NEW q \in ParserState
               PROVE  next[<<k, q>>] = ReadChar(q, cs[k])
    OBVIOUS
  <2>1. <<k, q>> \in (0 .. n) \X ParserState /\ k # 0
    BY <1>1
  <2> QED BY <2>1
<1> HIDE DEF next, first
<1>5. PICK f : IsStepwise(f, 0, n, ParserState, first, next)
  <2> HIDE DEF n
  <2> QED BY <1>1, <1>2, <1>3, StepwiseExists
<1>6. IsReading(f, p, cs)
  <2>1. \A k \in 1 .. n : k - 1 \in 0 .. n /\ k \in 0 .. n /\ k # 0
    BY <1>1
  <2>2. \A k \in 1 .. n : f[k - 1] \in ParserState /\ f[k] = next[<<k, f[k - 1]>>]
    BY <1>5, <2>1 DEF IsStepwise
  <2>3. 0 \in 0 .. n
    BY <1>1
  <2>4. f \in [0 .. n -> ParserState] /\ f[0] = first
    BY <1>5, <2>3 DEF IsStepwise
  <2>5. \A k \in 1 .. n : f[k] = ReadChar(f[k - 1], cs[k])
    BY <1>4, <2>2
  <2> QED BY <2>4, <2>5 DEF IsReading, first
<1>7. Rec(f)
  <2> DEFINE body(k) == IF k = 0 THEN [p EXCEPT !.ok = TRUE]
                        ELSE IF f[k - 1].ok THEN AppendChar(f[k - 1], cs[k]) ELSE f[k - 1]
  <2>1. \A k \in 0 .. n : k # 0 => k \in 1 .. n
    BY <1>1
  <2>2. \A k \in 0 .. n : f[k] = body(k)
    BY <1>6, <2>1 DEF IsReading, Started, ReadChar
  <2>3. f = [k \in 0 .. n |-> body(k)]
    <3>1. f \in [0 .. n -> ParserState]
      BY <1>6 DEF IsReading
    <3> HIDE DEF body
    <3> QED BY <2>2, <3>1
  <2> QED BY <2>3
<1>8. Rec(all)
  <2> HIDE DEF Rec
  <2> QED BY <1>7, Zenon
<1>9. AppendAll(p, cs) = all[n]
  BY Zenon DEF AppendAll
<1> HIDE DEF all
<1>10. StepAlike(all, f, 0, n)
  <2>1. \A k \in 0 + 1 .. n : k \in 1 .. n /\ k \in 0 .. n /\ k # 0
    BY <1>1
  <2>2. 0 \in 0 .. n
    BY <1>1
  <2>3. \A k \in 0 .. n : all[k] = IF k = 0 THEN [p EXCEPT !.ok = TRUE]
                       ELSE IF all[k - 1].ok THEN AppendChar(all[k - 1], cs[k]) ELSE all[k - 1]
    BY <1>8
  <2>4. \A k \in 1 .. n : k \in 0 .. n /\ k # 0
    BY <1>1
  <2>5. \A k \in 1 .. n : all[k] = ReadChar(all[k - 1], cs[k])
    <3> SUFFICES ASSUME NEW k \in 1 .. n PROVE all[k] = ReadChar(all[k - 1], cs[k])
      OBVIOUS
    <3> QED BY <2>3, <2>4 DEF ReadChar
  <2>6. all[0] = f[0]
    BY <1>6, <2>2, <2>3 DEF IsReading, Started
  <2>7. ASSUME NEW k \in 0 + 1 .. n, all[k - 1] = f[k - 1] PROVE all[k] = f[k]
    <3>1. f[k] = ReadChar(f[k - 1], cs[k]) /\ all[k] = ReadChar(all[k - 1], cs[k])
      BY <1>6, <2>1, <2>5 DEF IsReading
    <3> QED BY <2>7, <3>1
  <2> HIDE DEF Rec
  <2> QED BY <2>6, <2>7 DEF StepAlike
<1>11. all[n] = f[n]
  <2>1. \A k \in 0 .. n : all[k] = f[k]
    <3> HIDE DEF Rec, n
    <3> QED BY <1>1, <1>10, SameByStep
  <2> QED BY <1>1, <2>1
<1> QED BY <1>6, <1>9, <1>11

(* After a text the parser is in one of its states.                        *)
LEMMA AppendAllType ==
  ASSUME NEW p \in ParserState, NEW cs \in Seq(Int)
  PROVE  AppendAll(p, cs) \in ParserState
<1>1. PICK f : IsReading(f, p, cs) /\ AppendAll(p, cs) = f[Len(cs)]
  BY AppendAllSteps
<1>2. Len(cs) \in 0 .. Len(cs)
  BY LenProperties
<1> QED BY <1>1, <1>2 DEF IsReading

(* Nothing read.                                                           *)
LEMMA AppendAllEmpty ==
  ASSUME NEW p \in ParserState
  PROVE  AppendAll(p, << >>) = Started(p)
<1>1. << >> \in Seq(Int) /\ Len(<< >>) = 0
  BY EmptySeq
<1>2. PICK f : IsReading(f, p, << >>) /\ AppendAll(p, << >>) = f[0]
  BY <1>1, AppendAllSteps
<1> QED BY <1>2 DEF IsReading

(* Two texts that begin alike are read alike as far as that.               *)
LEMMA ReadAlike ==
  ASSUME NEW p, NEW a \in Seq(Int), NEW b \in Seq(Int), NEW f, NEW g,
         IsReading(f, p, a), IsReading(g, p, b), Len(a) <= Len(b),
         \A k \in 1 .. Len(a) : a[k] = b[k]
  PROVE  f[Len(a)] = g[Len(a)]
<1> DEFINE n == Len(a)
<1>1. n \in Nat /\ 0 \in Nat /\ Len(b) \in Nat
  BY LenProperties
<1>2. StepAlike(f, g, 0, n)
  <2>1. ASSUME NEW k \in 0 + 1 .. n, f[k - 1] = g[k - 1] PROVE f[k] = g[k]
    <3>1. k \in 1 .. Len(a) /\ k \in 1 .. Len(b)
      BY <1>1
    <3>2. f[k] = ReadChar(f[k - 1], a[k]) /\ g[k] = ReadChar(g[k - 1], b[k]) /\ a[k] = b[k]
      BY <3>1 DEF IsReading
    <3> QED BY <2>1, <3>2
  <2>2. f[0] = g[0]
    BY DEF IsReading
  <2> QED BY <2>1, <2>2 DEF StepAlike
<1>3. \A k \in 0 .. n : f[k] = g[k]
  <2> HIDE DEF n
  <2> QED BY <1>1, <1>2, SameByStep
<1> QED BY <1>1, <1>3

(* One more character.                                                     *)
LEMMA AppendAllLast ==
  ASSUME NEW p \in ParserState, NEW t \in Seq(Int), NEW c \in Int
  PROVE  AppendAll(p, Append(t, c)) = ReadChar(AppendAll(p, t), c)
<1> DEFINE n == Len(t)
           long == Append(t, c)
<1>1. /\ n \in Nat /\ long \in Seq(Int) /\ Len(long) = n + 1
      /\ long[n + 1] = c /\ \A k \in 1 .. n : t[k] = long[k]
  BY LenProperties, AppendProperties
<1> HIDE DEF long
<1>2. PICK f : IsReading(f, p, t) /\ AppendAll(p, t) = f[n]
  BY AppendAllSteps
<1>3. PICK g : IsReading(g, p, long) /\ AppendAll(p, long) = g[n + 1]
  BY <1>1, AppendAllSteps
<1>4. f[n] = g[n]
  <2>1. Len(t) <= Len(long)
    BY <1>1
  <2> QED BY <1>1, <1>2, <1>3, <2>1, ReadAlike
<1>5. g[n + 1] = ReadChar(g[n], c)
  <2>1. n + 1 \in 1 .. Len(long) /\ (n + 1) - 1 = n
    BY <1>1
  <2>2. g[n + 1] = ReadChar(g[(n + 1) - 1], long[n + 1])
    BY <1>3, <2>1 DEF IsReading
  <2> QED BY <1>1, <2>1, <2>2
<1>6. AppendAll(p, long) = ReadChar(AppendAll(p, t), c)
  BY <1>2, <1>3, <1>4, <1>5
<1> QED BY <1>6 DEF long

(* A text read in two parts.                                               *)
LEMMA AppendAllConcat ==
  ASSUME NEW p \in ParserState, NEW a \in Seq(Int), NEW b \in Seq(Int), AppendAll(p, a).ok
  PROVE  AppendAll(p, a \o b) = AppendAll(AppendAll(p, a), b)
<1> DEFINE m == Len(a)
           n == Len(b)
           q == AppendAll(p, a)
           long == a \o b
<1>1. /\ m \in Nat /\ n \in Nat /\ 0 \in Nat /\ long \in Seq(Int) /\ Len(long) = m + n
      /\ \A k \in 1 .. m : a[k] = long[k]
      /\ \A k \in 1 .. n : long[m + k] = b[k]
  <2>1. m \in Nat /\ n \in Nat
    BY LenProperties
  <2>2. /\ long \in Seq(Int) /\ Len(long) = m + n
        /\ \A k \in 1 .. m + n : long[k] = IF k <= m THEN a[k] ELSE b[k - m]
    BY ConcatProperties
  <2>3. \A k \in 1 .. m : a[k] = long[k]
    BY <2>1, <2>2
  <2>4. ASSUME NEW k \in 1 .. n PROVE long[m + k] = b[k]
    <3>1. m + k \in 1 .. m + n /\ ~(m + k <= m) /\ (m + k) - m = k
      BY <2>1
    <3> QED BY <2>2, <3>1
  <2> QED BY <2>1, <2>2, <2>3, <2>4
<1> HIDE DEF long
<1>2. q \in ParserState /\ Started(q) = q
  BY AppendAllType, StartedFacts
<1>3. PICK f : IsReading(f, p, a) /\ q = f[m]
  BY AppendAllSteps
<1>4. PICK g : IsReading(g, p, long) /\ AppendAll(p, long) = g[m + n]
  BY <1>1, AppendAllSteps
<1> HIDE DEF q
<1>5. PICK h : IsReading(h, q, b) /\ AppendAll(q, b) = h[n]
  BY <1>2, AppendAllSteps
<1>6. f[m] = g[m]
  <2>1. Len(a) <= Len(long)
    BY <1>1
  <2> QED BY <1>1, <1>3, <1>4, <2>1, ReadAlike
<1> DEFINE rest == [k \in 0 .. n |-> g[m + k]]
<1>7. StepAlike(rest, h, 0, n)
  <2>1. rest[0] = h[0]
    <3>1. 0 \in 0 .. n /\ m + 0 = m
      BY <1>1
    <3> QED BY <1>2, <1>3, <1>5, <1>6, <3>1 DEF IsReading
  <2>2. ASSUME NEW k \in 0 + 1 .. n, rest[k - 1] = h[k - 1] PROVE rest[k] = h[k]
    <3>1. /\ k \in 1 .. n /\ k \in 0 .. n /\ k - 1 \in 0 .. n /\ m + k \in 1 .. Len(long)
          /\ (m + k) - 1 = m + (k - 1)
      BY <1>1
    <3>2. g[m + k] = ReadChar(g[m + (k - 1)], b[k])
      <4>1. g[m + k] = ReadChar(g[(m + k) - 1], long[m + k])
        BY <1>4, <3>1 DEF IsReading
      <4> QED BY <1>1, <3>1, <4>1
    <3>3. h[k] = ReadChar(h[k - 1], b[k])
      BY <1>5, <3>1 DEF IsReading
    <3>4. rest[k] = g[m + k] /\ rest[k - 1] = g[m + (k - 1)]
      BY <3>1
    <3> QED BY <2>2, <3>2, <3>3, <3>4
  <2> HIDE DEF rest
  <2> QED BY <2>1, <2>2 DEF StepAlike
<1>8. rest[n] = g[m + n]
  BY <1>1
<1>9. rest[n] = h[n]
  <2>1. \A k \in 0 .. n : rest[k] = h[k]
    <3> HIDE DEF n, rest
    <3> QED BY <1>1, <1>7, SameByStep
  <2> QED BY <1>1, <2>1
<1>10. AppendAll(p, long) = AppendAll(q, b)
  BY <1>4, <1>5, <1>8, <1>9
<1> QED BY <1>10 DEF long, q

-----------------------------------------------------------------------------
(***************************************************************************)
(* Numbers without units: nothing is summed before done.                   *)
(***************************************************************************)
UnitFree(p) == p.ok => p.subtotal = NoNumber /\ p.total = NoNumber

(* What was accepted has no error, and a separator that hangs is a point   *)
(* behind the digits read last.                                            *)
Unhindered(p) ==
  p.ok => p.error = "none" /\ (p.hanging /\ ~ p.firstDigit => p.tmp.point >= 0)

(* What append makes of a separator that it accepts.                       *)
LEMMA PointAccepted ==
  ASSUME NEW q \in ParserState, AppendPoint(q).ok, q.ok
  PROVE  LET p == AppendPoint(q)
         IN /\ p.total = q.total /\ p.subtotal = q.subtotal /\ p.hanging
            /\ p.tmp = [q.tmp EXCEPT !.point = Len(q.tmp.significand)]
            /\ p.error = q.error /\ ~ q.firstDigit
            /\ q.tmp.scale = 0 /\ ~(q.tmp.point >= 0)
            /\ q.comma => q.digitLength = 3
<1> DEFINE h == [q EXCEPT !.hanging = TRUE]
           r == [h EXCEPT !.tmp.point = Len(h.tmp.significand), !.comma = FALSE]
<1>1. /\ h.firstDigit = q.firstDigit /\ h.comma = q.comma /\ h.digitLength = q.digitLength
      /\ h.tmp = q.tmp /\ h.total = q.total /\ h.subtotal = q.subtotal /\ h.hanging
      /\ h.error = q.error /\ h \in ParserState
  BY DEF ParserState
<1>2. /\ Refuses(h, "point").ok = FALSE /\ Refuses(h, "comma").ok = FALSE
  <2> HIDE DEF h
  <2> QED BY <1>1 DEF Refuses, ParserState
<1>3. AppendPoint(q) = IF h.firstDigit THEN Refuses(h, "point")
                       ELSE IF h.comma /\ ~ CheckComma(h) THEN Refuses(h, "comma")
                       ELSE IF h.tmp.scale # 0 \/ h.tmp.point >= 0 THEN Refuses(h, "point")
                       ELSE r
  BY DEF AppendPoint
<1>4. /\ r.total = h.total /\ r.subtotal = h.subtotal /\ r.hanging = h.hanging
      /\ r.error = h.error
      /\ r.tmp = [h.tmp EXCEPT !.point = Len(h.tmp.significand)]
  <2> HIDE DEF h
  <2> QED BY <1>1 DEF ParserState
<1> HIDE DEF h, r
<1>5. /\ AppendPoint(q) = r /\ h.tmp.scale = 0 /\ ~(h.tmp.point >= 0)
      /\ ~ h.firstDigit /\ (h.comma => CheckComma(h))
  BY <1>2, <1>3
<1>6. q.comma => q.digitLength = 3
  BY <1>1, <1>5 DEF CheckComma
<1> QED BY <1>1, <1>4, <1>5, <1>6

(* A comma changes no number.                                              *)
LEMMA CommaAccepted ==
  ASSUME NEW q \in ParserState, AppendComma(q).ok, q.ok
  PROVE  LET p == AppendComma(q)
         IN /\ p.total = q.total /\ p.subtotal = q.subtotal /\ p.hanging = q.hanging
            /\ p.tmp = q.tmp /\ p.error = q.error /\ p.firstDigit = q.firstDigit
            /\ q.comma => q.digitLength = 3
<1> DEFINE r == [q EXCEPT !.comma = TRUE, !.digitLength = 0]
<1>1. Refuses(q, "comma").ok = FALSE
  BY DEF Refuses, ParserState
<1>2. /\ r.total = q.total /\ r.subtotal = q.subtotal /\ r.hanging = q.hanging
      /\ r.tmp = q.tmp /\ r.error = q.error /\ r.firstDigit = q.firstDigit
  BY DEF ParserState
<1>3. AppendComma(q) = IF ~ CheckComma(q) THEN Refuses(q, "comma") ELSE r
  BY DEF AppendComma
<1> HIDE DEF r
<1>4. AppendComma(q) = r /\ CheckComma(q)
  BY <1>1, <1>3
<1> QED BY <1>2, <1>4 DEF CheckComma

(* Behind a digit no separator hangs.                                      *)
LEMMA DigitRead ==
  ASSUME NEW q \in ParserState, NEW c
  PROVE  LET p == ReadDigit(q, c)
         IN /\ p.total = q.total /\ p.subtotal = q.subtotal
            /\ p.hanging = FALSE /\ p.ok = q.ok /\ p.error = q.error
BY DEF ReadDigit, ParserState

(* Behind a unit the next digit is the first.                              *)
LEMMA UnitDone ==
  ASSUME NEW q \in ParserState
  PROVE  AfterUnit(q).firstDigit /\ AfterUnit(q).error = q.error
BY DEF AfterUnit, ParserState

(* What append makes of a unit that it accepts.                            *)
LEMMA UnitAccepted ==
  ASSUME NEW q \in ParserState, NEW c \in SmallUnits \cup LargeUnits, AppendChar(q, c).ok
  PROVE  AppendChar(q, c).firstDigit /\ AppendChar(q, c).error = q.error
<1>1. c \in Int
  BY DEF SmallUnits, LargeUnits
<1>2. CASE c \in SmallUnits
  <2> DEFINE t == ShiftScale(q.tmp, -c)
             sum == Plus(q.subtotal, t)
             bad == [q EXCEPT !.ok = FALSE, !.tmp = t]
             good == [q EXCEPT !.subtotal = sum[2]]
  <2>1. AppendChar(q, c) \in {bad, AfterUnit(good)}
    BY <1>1, <1>2, AppendCharCases DEF AppendSmallUnit
  <2>2. t \in Number
    BY <1>1, ParserFields, ShiftScaleType
  <2>3. sum[2] \in Number
    <3> HIDE DEF t
    <3> QED BY <2>2, ParserFields, PlusType
  <2>4. bad.ok = FALSE /\ good \in ParserState /\ good.error = q.error
    <3> HIDE DEF t, sum
    <3> QED BY <2>2, <2>3 DEF ParserState
  <2> HIDE DEF bad, good
  <2> QED BY <2>1, <2>4, UnitDone
<1>3. CASE c \in LargeUnits
  <2> DEFINE group == Plus(q.subtotal, q.tmp)
             t == ShiftScale(group[2], -c)
             sum == Plus(q.total, t)
             bad == [q EXCEPT !.ok = FALSE]
             good == [q EXCEPT !.total = sum[2], !.subtotal = NoNumber]
  <2>1. AppendChar(q, c) \in {bad, AfterUnit(good)}
    BY <1>1, <1>3, AppendCharCases DEF AppendLargeUnit
  <2>2. group[2] \in Number
    BY ParserFields, PlusType
  <2>3. t \in Number
    <3> HIDE DEF group
    <3> QED BY <1>1, <2>2, ShiftScaleType
  <2>4. sum[2] \in Number
    <3> HIDE DEF t
    <3> QED BY <2>3, ParserFields, PlusType
  <2>5. bad.ok = FALSE /\ good \in ParserState /\ good.error = q.error
    <3> HIDE DEF t, sum, group
    <3> QED BY <2>4, NoNumberType DEF ParserState
  <2> HIDE DEF bad, good
  <2> QED BY <2>1, <2>5, UnitDone
<1> QED BY <1>2, <1>3

(* A character that is accepted is no error.                               *)
LEMMA UnhinderedChar ==
  ASSUME NEW q \in ParserState, Unhindered(q), NEW c \in Int
  PROVE  Unhindered(ReadChar(q, c))
<1>1. CASE ~ q.ok
  BY <1>1 DEF ReadChar
<1>2. ASSUME q.ok, AppendChar(q, c).ok PROVE Unhindered(AppendChar(q, c))
  <2> USE <1>2
  <2> DEFINE p == AppendChar(q, c)
  <2>1. q.error = "none" /\ (q.hanging /\ ~ q.firstDigit => q.tmp.point >= 0)
    BY DEF Unhindered
  <2>2. CASE c = Point
    <3> DEFINE n == Len(q.tmp.significand)
    <3>1. p = AppendPoint(q)
      BY <2>2, AppendCharCases
    <3>2. p.tmp = [q.tmp EXCEPT !.point = n] /\ p.error = q.error
      BY <3>1, PointAccepted
    <3>3. n \in Nat /\ q.tmp \in Number
      BY ParserFields, NumberFields
    <3> HIDE DEF p, n
    <3>4. p.tmp.point = n
      BY <3>2, <3>3 DEF Number
    <3>5. Unhindered(p)
      BY <2>1, <3>2, <3>3, <3>4 DEF Unhindered
    <3> QED BY <3>5 DEF p
  <2>3. CASE c = Comma
    <3>1. p = AppendComma(q)
      BY <2>3, AppendCharCases
    <3>2. /\ p.tmp = q.tmp /\ p.error = q.error /\ p.firstDigit = q.firstDigit
          /\ p.hanging = q.hanging
      BY <3>1, CommaAccepted
    <3> HIDE DEF p
    <3>3. Unhindered(p)
      BY <2>1, <3>2 DEF Unhindered
    <3> QED BY <3>3 DEF p
  <2>4. CASE c \in Digits
    <3>1. p = ReadDigit(q, c)
      BY <2>4, AppendCharCases
    <3>2. p.hanging = FALSE /\ p.error = q.error
      BY <3>1, DigitRead
    <3> HIDE DEF p
    <3>3. Unhindered(p)
      BY <2>1, <3>2 DEF Unhindered
    <3> QED BY <3>3 DEF p
  <2>5. CASE c \in SmallUnits \cup LargeUnits
    BY <2>1, <2>5, UnitAccepted DEF Unhindered
  <2>6. CASE c \notin {Point, Comma} \cup SmallUnits \cup LargeUnits \cup Digits
    <3>1. AppendChar(q, c) = [q EXCEPT !.ok = FALSE]
      BY <2>6, AppendCharCases
    <3>2. ~ AppendChar(q, c).ok
      BY <3>1 DEF ParserState
    <3> QED BY <3>2
  <2> QED BY <2>2, <2>3, <2>4, <2>5, <2>6
<1>3. ASSUME ~ AppendChar(q, c).ok PROVE Unhindered(AppendChar(q, c))
  BY <1>3 DEF Unhindered
<1> QED BY <1>1, <1>2, <1>3 DEF ReadChar

(* A text that is accepted has no error.                                   *)
LEMMA UnhinderedText ==
  ASSUME NEW t \in Seq(Int)
  PROVE  Unhindered(AppendAll(NewParser, t))
<1> DEFINE n == Len(t)
<1>1. n \in Nat /\ 0 \in Nat /\ n \in 0 .. n
  BY LenProperties
<1>2. PICK f : IsReading(f, NewParser, t) /\ AppendAll(NewParser, t) = f[n]
  BY NewParserType, AppendAllSteps
<1> DEFINE Good == {k \in 0 .. n : Unhindered(f[k])}
<1>3. 0 \in Good
  <2>1. f[0] = NewParser
    BY <1>2, NewParserType, StartedFacts DEF IsReading
  <2>2. Unhindered(NewParser)
    BY DEF Unhindered, NewParser
  <2> QED BY <1>1, <2>1, <2>2
<1>4. ASSUME NEW k \in 0 + 1 .. n, k - 1 \in Good PROVE k \in Good
  <2>1. k \in 1 .. n /\ k \in 0 .. n /\ k - 1 \in 0 .. n
    BY <1>1
  <2>2. f[k - 1] \in ParserState /\ f[k] = ReadChar(f[k - 1], t[k])
    BY <1>2, <2>1 DEF IsReading
  <2>3. t[k] \in Int
    BY <2>1, ElementOfSeq
  <2>4. Unhindered(f[k])
    BY <1>4, <2>2, <2>3, UnhinderedChar
  <2> QED BY <2>1, <2>4
<1>5. n \in Good
  <2> HIDE DEF Good, n
  <2>1. \A k \in 0 .. n : k \in Good
    BY <1>1, <1>3, <1>4, ByStep
  <2> QED BY <1>1, <2>1
<1> QED BY <1>2, <1>5

(* Characters that are no units leave the sums empty.                      *)
LEMMA UnitFreeChar ==
  ASSUME NEW q \in ParserState, UnitFree(q), NEW c \in Int,
         c \notin SmallUnits \cup LargeUnits
  PROVE  UnitFree(ReadChar(q, c))
<1>1. CASE ~ q.ok
  BY <1>1 DEF ReadChar
<1>2. ASSUME q.ok PROVE UnitFree(AppendChar(q, c))
  <2> USE <1>2
  <2>1. CASE c = Point
    <3>1. AppendChar(q, c) = AppendPoint(q)
      BY <2>1, AppendCharCases
    <3> QED BY <3>1, PointAccepted DEF UnitFree
  <2>2. CASE c = Comma
    <3>1. AppendChar(q, c) = AppendComma(q)
      BY <2>2, AppendCharCases
    <3> QED BY <3>1, CommaAccepted DEF UnitFree
  <2>3. CASE c \in Digits
    <3>1. AppendChar(q, c) = ReadDigit(q, c)
      BY <2>3, AppendCharCases
    <3> DEFINE p == AppendChar(q, c)
    <3>2. p.total = q.total /\ p.subtotal = q.subtotal /\ ~ p.hanging
      BY <3>1, DigitRead
    <3>3. q.total = NoNumber /\ q.subtotal = NoNumber
      BY DEF UnitFree
    <3> HIDE DEF p
    <3>4. UnitFree(p)
      BY <3>2, <3>3 DEF UnitFree
    <3> QED BY <3>4 DEF p
  <2>4. CASE c \notin {Point, Comma} \cup Digits
    <3>1. AppendChar(q, c) = [q EXCEPT !.ok = FALSE]
      BY <2>4, AppendCharCases
    <3>2. ~ AppendChar(q, c).ok
      BY <3>1 DEF ParserState
    <3> QED BY <3>2 DEF UnitFree
  <2> QED BY <2>1, <2>2, <2>3, <2>4
<1> QED BY <1>1, <1>2 DEF ReadChar

(* So do texts without units.                                              *)
LEMMA UnitFreeText ==
  ASSUME NEW t \in Seq(Int), \A k \in 1 .. Len(t) : t[k] \notin SmallUnits \cup LargeUnits
  PROVE  UnitFree(AppendAll(NewParser, t))
<1> DEFINE n == Len(t)
<1>1. n \in Nat /\ 0 \in Nat /\ n \in 0 .. n
  BY LenProperties
<1>2. PICK f : IsReading(f, NewParser, t) /\ AppendAll(NewParser, t) = f[n]
  BY NewParserType, AppendAllSteps
<1> DEFINE Good == {k \in 0 .. n : UnitFree(f[k])}
<1>3. 0 \in Good
  <2>1. f[0] = NewParser
    BY <1>2, NewParserType, StartedFacts DEF IsReading
  <2>2. UnitFree(NewParser)
    BY DEF UnitFree, NewParser
  <2> QED BY <1>1, <2>1, <2>2
<1>4. ASSUME NEW k \in 0 + 1 .. n, k - 1 \in Good PROVE k \in Good
  <2>1. k \in 1 .. n /\ k \in 0 .. n /\ k - 1 \in 0 .. n
    BY <1>1
  <2>2. f[k - 1] \in ParserState /\ f[k] = ReadChar(f[k - 1], t[k])
    BY <1>2, <2>1 DEF IsReading
  <2>3. t[k] \in Int /\ t[k] \notin SmallUnits \cup LargeUnits
    BY <2>1, ElementOfSeq
  <2>4. UnitFree(f[k])
    BY <1>4, <2>2, <2>3, UnitFreeChar
  <2> QED BY <2>1, <2>4
<1>5. n \in Good
  <2> HIDE DEF Good, n
  <2>1. \A k \in 0 .. n : k \in Good
    BY <1>1, <1>3, <1>4, ByStep
  <2> QED BY <1>1, <2>1
<1> QED BY <1>2, <1>5
-----------------------------------------------------------------------------
(* What done computes.                                                     *)
LastSum(p) == Plus(p.subtotal, p.tmp)
WholeSum(p) == Plus(p.total, LastSum(p)[2])
DoneTotal(p) == IF LastSum(p)[1] THEN WholeSum(p)[2] ELSE p.total
BadGroup(p) == p.comma /\ p.digitLength # 3

(* done sums up, and tells of a separator that hangs before it tells of a  *)
(* sum that failed.                                                        *)
LEMMA DoneFields ==
  ASSUME NEW p \in ParserState
  PROVE  /\ Done(p).total = DoneTotal(p)
         /\ Done(p).ok <=> ~ p.hanging /\ ~ BadGroup(p) /\ LastSum(p)[1] /\ WholeSum(p)[1]
         /\ p.hanging => Done(p).error = "point"
         /\ ~ p.hanging /\ ~ BadGroup(p) => Done(p).error = p.error
         /\ Done(p) \in ParserState
<1> DEFINE q == [p EXCEPT !.total = DoneTotal(p)]
           v == LastSum(p)[1] /\ WholeSum(p)[1]
           r == [q EXCEPT !.ok = v]
<1>1. LastSum(p)[1] \in BOOLEAN /\ LastSum(p)[2] \in Number
  BY ParserFields, PlusType DEF LastSum
<1>2. WholeSum(p)[1] \in BOOLEAN /\ WholeSum(p)[2] \in Number
  BY <1>1, ParserFields, PlusType DEF WholeSum
<1>3. DoneTotal(p) \in Number /\ v \in BOOLEAN
  BY <1>1, <1>2, ParserFields DEF DoneTotal
<1>4. /\ q \in ParserState /\ q.total = DoneTotal(p) /\ q.error = p.error
  <2> DEFINE d == DoneTotal(p)
  <2>1. d \in Number
    BY <1>3
  <2>2. /\ [p EXCEPT !.total = d] \in ParserState /\ [p EXCEPT !.total = d].total = d
        /\ [p EXCEPT !.total = d].error = p.error
    <3> HIDE DEF d
    <3> QED BY <2>1 DEF ParserState
  <2> QED BY <2>2
<1>5. /\ Refuses(q, "point").ok = FALSE /\ Refuses(q, "point").error = "point"
      /\ Refuses(q, "point").total = q.total
      /\ Refuses(q, "comma").ok = FALSE /\ Refuses(q, "comma").total = q.total
      /\ r.ok = v /\ r.total = q.total /\ r.error = q.error /\ r \in ParserState
  <2> HIDE DEF q, v
  <2> QED BY <1>3, <1>4 DEF Refuses, ParserState
<1>6. Done(p) = IF p.hanging THEN Refuses(q, "point")
                ELSE IF BadGroup(p) THEN Refuses(q, "comma") ELSE r
  <2>1. q = [p EXCEPT !.total = IF LastSum(p)[1] THEN WholeSum(p)[2] ELSE @]
    BY DEF DoneTotal
  <2> HIDE DEF q
  <2>2. p.hanging = q.hanging /\ BadGroup(p) = BadGroup(q)
    BY <2>1 DEF BadGroup, ParserState
  <2> QED BY <2>1, <2>2 DEF Done, BadGroup, LastSum, WholeSum
<1>7. Refuses(q, "point") \in ParserState /\ Refuses(q, "comma") \in ParserState
  <2> HIDE DEF q
  <2> QED BY <1>4, RefusesType
<1>8. p.hanging \in BOOLEAN /\ BadGroup(p) \in BOOLEAN
  BY ParserFields DEF BadGroup
<1> HIDE DEF q, r
<1>9. CASE p.hanging
  BY <1>4, <1>5, <1>6, <1>7, <1>9
<1>10. CASE ~ p.hanging /\ BadGroup(p)
  BY <1>4, <1>5, <1>6, <1>7, <1>10
<1>11. CASE ~ p.hanging /\ ~ BadGroup(p)
  BY <1>4, <1>5, <1>6, <1>11
<1> QED BY <1>8, <1>9, <1>10, <1>11

(* Where nothing is summed yet, no sum fails.                              *)
LEMMA NothingFails ==
  ASSUME NEW p \in ParserState, p.subtotal = NoNumber, p.total = NoNumber
  PROVE  LastSum(p)[1] /\ WholeSum(p)[1]
<1>1. IsZero(NoNumber)
  BY DEF IsZero, NoNumber
<1> QED BY <1>1 DEF LastSum, WholeSum, Plus

(* Two numbers that differ at most by a point behind the last digit.       *)
AddsPoint(x, y) ==
  /\ y.scale = 0 /\ ~(y.point >= 0)
  /\ x = [y EXCEPT !.point = Len(y.significand)]
Alike(x, y) == x = y \/ AddsPoint(x, y)

(* A point behind the last digit is taken away with the scale.             *)
LEMMA PointGoes ==
  ASSUME NEW x \in Number, NEW y \in Number, AddsPoint(x, y)
  PROVE  LET n == NormalizeScale(x)
         IN /\ n.significand = y.significand /\ n.scale = 0 /\ n.point = -1
            /\ NormalizeScale(y) = y /\ x.significand = y.significand /\ x.scale = 0
            /\ x.point = Len(x.significand)
<1> DEFINE p == Len(y.significand)
           b == [x EXCEPT !.scale = 0, !.point = -1]
<1>1. p \in Nat /\ y.point \in Int
  BY NumberFields
<1>2. x = [y EXCEPT !.point = p]
  BY DEF AddsPoint
<1>3. x.significand = y.significand /\ x.scale = y.scale /\ x.point = p
  <2> HIDE DEF p
  <2> QED BY <1>1, <1>2 DEF Number
<1>4. y.scale = 0 /\ y.point < 0
  BY <1>1 DEF AddsPoint
<1>5. NormalizeScale(y) = y
  BY <1>4 DEF NormalizeScale
<1>6. NormalizeScale(x) = b
  <2>1. Len(x.significand) - x.point = 0 /\ x.scale - (Len(x.significand) - x.point) = 0
    BY <1>1, <1>3, <1>4
  <2>2. ~(x.point < 0) /\ ~(0 > x.scale)
    BY <1>1, <1>3, <1>4
  <2>3. NormalizeScale(x) =
          IF x.point < 0 THEN x
          ELSE IF Len(x.significand) - x.point > x.scale
          THEN [x EXCEPT !.point = x.point + x.scale, !.scale = 0]
          ELSE [x EXCEPT !.scale = x.scale - (Len(x.significand) - x.point), !.point = -1]
    BY DEF NormalizeScale
  <2> QED BY <2>1, <2>2, <2>3
<1>7. b.significand = x.significand /\ b.scale = 0 /\ b.point = -1
  BY DEF Number
<1> QED BY <1>3, <1>4, <1>5, <1>6, <1>7

(* Such numbers are added alike.                                           *)
LEMMA PlusAlike ==
  ASSUME NEW s \in Number, NEW x \in Number, NEW y \in Number, Alike(x, y)
  PROVE  Plus(s, x)[1] = Plus(s, y)[1] /\ Alike(Plus(s, x)[2], Plus(s, y)[2])
<1>1. CASE x = y
  BY <1>1 DEF Alike
<1>2. CASE AddsPoint(x, y)
  <2> DEFINE m == NormalizeScale(s)
             n == NormalizeScale(x)
             f == FillZero(m, m.scale - IntLength(n))
             g == FillZero(m, m.scale - IntLength(y))
             sx == [f EXCEPT !.point = IF n.point >= 0 THEN Len(f.significand) + n.point ELSE @,
                             !.significand = @ \o n.significand, !.scale = n.scale]
             sy == [g EXCEPT !.point = IF y.point >= 0 THEN Len(g.significand) + y.point ELSE @,
                             !.significand = @ \o y.significand, !.scale = y.scale]
             ay == [y EXCEPT !.allZero = s.allZero]
             ax == [x EXCEPT !.allZero = s.allZero]
  <2>1. /\ n.significand = y.significand /\ n.scale = 0 /\ n.point = -1 /\ y.scale = 0
        /\ NormalizeScale(y) = y /\ x.significand = y.significand /\ ~(y.point >= 0)
    BY <1>2, PointGoes DEF AddsPoint
  <2>2. IsZero(x) <=> IsZero(y)
    BY <2>1 DEF IsZero
  <2>3. /\ Plus(s, x) = IF IsZero(x) THEN <<TRUE, s>>
                        ELSE IF IsZero(s) THEN <<TRUE, ax>>
                        ELSE IF ~ HasRoom(m, n) THEN <<FALSE, m>> ELSE <<TRUE, sx>>
        /\ Plus(s, y) = IF IsZero(y) THEN <<TRUE, s>>
                        ELSE IF IsZero(s) THEN <<TRUE, ay>>
                        ELSE IF ~ HasRoom(m, y) THEN <<FALSE, m>> ELSE <<TRUE, sy>>
    BY <2>1 DEF Plus
  <2>4. IntLength(n) = IntLength(y)
    <3> HIDE DEF n
    <3> QED BY <2>1 DEF IntLength
  <2>5. HasRoom(m, n) <=> HasRoom(m, y)
    <3> HIDE DEF n, m
    <3> QED BY <2>4 DEF HasRoom
  <2>6. sx = sy
    <3>1. f = g
      BY <2>4
    <3>2. ~(n.point >= 0)
      BY <2>1
    <3> HIDE DEF n, f, g
    <3>3. /\ sx = [f EXCEPT !.significand = @ \o n.significand, !.scale = n.scale, !.point = @]
          /\ sy = [g EXCEPT !.significand = @ \o y.significand, !.scale = y.scale, !.point = @]
      BY <2>1, <3>2
    <3> QED BY <2>1, <3>1, <3>3
  <2>7. AddsPoint(ax, ay)
    <3> DEFINE p == Len(y.significand)
               z == s.allZero
    <3>1. x = [y EXCEPT !.point = p] /\ p \in Int /\ z \in BOOLEAN
      BY <1>2, NumberFields DEF AddsPoint
    <3>2. ay.scale = y.scale /\ ay.point = y.point /\ ay.significand = y.significand
      BY DEF Number
    <3>3. [[y EXCEPT !.point = p] EXCEPT !.allZero = z] = [[y EXCEPT !.allZero = z] EXCEPT !.point = p]
      <4> HIDE DEF p, z
      <4> QED BY <3>1 DEF Number
    <3> QED BY <1>2, <3>1, <3>2, <3>3 DEF AddsPoint
  <2> HIDE DEF sx, sy, m, n, f, g, ax, ay
  <2> QED BY <2>2, <2>3, <2>5, <2>6, <2>7 DEF Alike
<1> QED BY <1>1, <1>2 DEF Alike

(* Parsers whose last digits are alike tell of the same sums.              *)
LEMMA SumsAlike ==
  ASSUME NEW p \in ParserState, NEW q \in ParserState,
         p.total = q.total, p.subtotal = q.subtotal, Alike(p.tmp, q.tmp)
  PROVE  Alike(DoneTotal(p), DoneTotal(q))
<1>1. LastSum(p)[1] = LastSum(q)[1] /\ Alike(LastSum(p)[2], LastSum(q)[2])
  BY ParserFields, PlusAlike DEF LastSum
<1>2. LastSum(p)[2] \in Number /\ LastSum(q)[2] \in Number
  BY ParserFields, PlusType DEF LastSum
<1>3. Alike(WholeSum(p)[2], WholeSum(q)[2])
  BY <1>1, <1>2, ParserFields, PlusAlike DEF WholeSum
<1> QED BY <1>1, <1>3 DEF DoneTotal, Alike

-----------------------------------------------------------------------------
(***************************************************************************)
(* The normalized form.                                                    *)
(***************************************************************************)
LEMMA TrimDecimalsType ==
  ASSUME NEW digits \in Seq(Int)
  PROVE  TrimDecimals(digits) \in Seq(Int)
<1> DEFINE N == Len(digits)
           Zeros(n) == \A j \in n + 1 .. N : digits[j] = 0
           T == {n \in 0 .. N : Zeros(n)}
           Kept(n) == /\ \A j \in n + 1 .. Len(digits) : digits[j] = 0
                      /\ n = 0 \/ digits[n] # 0
           kept == CHOOSE n \in 0 .. Len(digits) : Kept(n)
<1>1. N \in Nat
  BY LenProperties
<1>2. N \in T /\ T \subseteq Nat
  BY <1>1
<1>3. PICK n \in T : \A m \in T : n <= m
  <2> HIDE DEF T
  <2> QED BY <1>2, LeastNatural
<1>4. n \in 0 .. N /\ Zeros(n)
  BY <1>3
<1>5. n = 0 \/ digits[n] # 0
  <2>1. ASSUME n # 0, digits[n] = 0 PROVE FALSE
    <3>1. n - 1 \in 0 .. N
      BY <1>1, <1>4, <2>1
    <3>2. Zeros(n - 1)
      <4>1. ASSUME NEW j \in (n - 1) + 1 .. N PROVE digits[j] = 0
        <5>1. j = n \/ j \in n + 1 .. N
          BY <1>1, <1>4
        <5> QED BY <1>4, <2>1, <5>1
      <4> QED BY <4>1
    <3>3. n - 1 \in T
      BY <3>1, <3>2
    <3>4. n <= n - 1
      <4> HIDE DEF T
      <4> QED BY <1>3, <3>3
    <3> QED BY <1>1, <1>4, <3>4
  <2> QED BY <2>1
<1>6. Kept(n)
  BY <1>4, <1>5
<1>7. kept \in 0 .. N
  <2>1. \E m \in 0 .. Len(digits) : Kept(m)
    BY <1>4, <1>6
  <2> HIDE DEF Kept
  <2> QED BY <2>1
<1>8. TrimDecimals(digits) = IF kept > 0 /\ digits[kept] = Point THEN SubSeq(digits, 1, kept - 1)
                             ELSE SubSeq(digits, 1, kept)
  BY DEF TrimDecimals
<1> HIDE DEF kept
<1>9. ASSUME NEW m \in 0 .. N PROVE SubSeq(digits, 1, m) \in Seq(Int)
  <2>1. m \in Int /\ \A j \in 1 .. m : digits[j] \in Int
    BY <1>1, ElementOfSeq
  <2> QED BY <2>1, SubSeqProperties
<1>10. CASE kept > 0
  <2>1. kept - 1 \in 0 .. N
    BY <1>1, <1>7, <1>10
  <2> QED BY <1>7, <1>8, <1>9, <2>1
<1>11. CASE ~(kept > 0)
  BY <1>7, <1>8, <1>9, <1>11
<1> QED BY <1>10, <1>11

(* The point of a number with a scale taken off lies within its digits.    *)
LEMMA NormalizeScalePoint ==
  ASSUME NEW x \in Number
  PROVE  LET s == NormalizeScale(x)
         IN s.point >= 0 => s.point <= Len(s.significand)
<1> DEFINE decimals == Len(x.significand) - x.point
           p == x.point + x.scale
           c == x.scale - decimals
           a == [x EXCEPT !.point = p, !.scale = 0]
           b == [x EXCEPT !.scale = c, !.point = -1]
<1>1. NormalizeScale(x) =
        IF x.point < 0 THEN x
        ELSE IF decimals > x.scale THEN [x EXCEPT !.point = x.point + x.scale, !.scale = 0]
        ELSE [x EXCEPT !.scale = x.scale - decimals, !.point = -1]
  BY DEF NormalizeScale
<1>2. NormalizeScale(x) = IF x.point < 0 THEN x ELSE IF decimals > x.scale THEN a ELSE b
  BY <1>1
<1>3. /\ x.point \in Int /\ x.scale \in Int /\ Len(x.significand) \in Nat /\ decimals \in Int
      /\ p \in Int
  BY NumberFields
<1>4. /\ a.significand = x.significand /\ a.point = p /\ b.point = -1
  <2> HIDE DEF p, c
  <2> QED BY DEF Number
<1>5. decimals > x.scale => p <= Len(x.significand)
  BY <1>3
<1> HIDE DEF a, b, p, decimals
<1>6. CASE x.point < 0
  BY <1>2, <1>3, <1>6
<1>7. CASE ~(x.point < 0) /\ decimals > x.scale
  BY <1>2, <1>4, <1>5, <1>7
<1>8. CASE ~(x.point < 0) /\ ~(decimals > x.scale)
  BY <1>2, <1>4, <1>8
<1> QED BY <1>6, <1>7, <1>8

(* The normalized form is a text.                                          *)
LEMMA NormalizedType ==
  ASSUME NEW x \in Number
  PROVE  Normalized(x) \in Seq(Int)
<1> DEFINE s == NormalizeScale(x)
           d == s.significand
           lead == IF s.point = 0 THEN <<0>> ELSE << >>
           front == SubSeq(d, 1, s.point)
           back == SubSeq(d, s.point + 1, Len(d))
           all == lead \o front \o <<Point>> \o back
<1>1. s \in Number /\ (s.point >= 0 => s.point <= Len(s.significand))
  BY NormalizeScaleType, NormalizeScalePoint
<1>2. d \in Seq(Int) /\ s.point \in Int /\ s.scale \in Int /\ Len(d) \in Nat
  <2> HIDE DEF s
  <2> QED BY <1>1, NumberFields
<1>3. FillZero(s, s.scale).significand \in Seq(Int)
  <2> HIDE DEF s
  <2> QED BY <1>1, <1>2, FillZeroType, NumberFields
<1>4. <<0>> \in Seq(Int) /\ << >> \in Seq(Int) /\ <<Point>> \in Seq(Int)
  BY DEF Point
<1>5. ASSUME ~(s.point < 0) PROVE TrimDecimals(all) \in Seq(Int)
  <2> HIDE DEF s
  <2>1. \A j \in 1 .. Len(d) : d[j] \in Int
    BY <1>2, ElementOfSeq
  <2> HIDE DEF d
  <2>2. \A j \in 1 .. s.point : d[j] \in Int
    BY <1>1, <1>2, <1>5, <2>1 DEF d
  <2>3. \A j \in s.point + 1 .. Len(d) : d[j] \in Int
    BY <1>2, <1>5, <2>1
  <2>4. front \in Seq(Int) /\ back \in Seq(Int)
    BY <1>2, <2>2, <2>3, SubSeqProperties
  <2>5. lead \in Seq(Int)
    BY <1>4
  <2> HIDE DEF lead, front, back
  <2>6. lead \o front \in Seq(Int)
    BY <2>4, <2>5, ConcatProperties
  <2>7. lead \o front \o <<Point>> \in Seq(Int)
    BY <1>4, <2>6, ConcatProperties
  <2>8. all \in Seq(Int)
    BY <2>4, <2>7, ConcatProperties
  <2> HIDE DEF all
  <2> QED BY <2>8, TrimDecimalsType
<1>6. Normalized(x) = IF IsZero(x) THEN <<0>>
                      ELSE IF s.scale > 0 THEN FillZero(s, s.scale).significand
                      ELSE IF s.point < 0 THEN d ELSE TrimDecimals(all)
  BY DEF Normalized
<1> HIDE DEF all, d, s
<1> QED BY <1>2, <1>3, <1>4, <1>5, <1>6

(* A number without a scale and with no digits behind a point.             *)
LEMMA NormalizedWhole ==
  ASSUME NEW x \in Number, x.scale = 0, ~(x.point >= 0) \/ x.point = Len(x.significand)
  PROVE  Normalized(x) = IF IsZero(x) THEN <<0>> ELSE x.significand
<1> DEFINE s == NormalizeScale(x)
           b == [x EXCEPT !.scale = 0, !.point = -1]
<1>1. x.point \in Int /\ Len(x.significand) \in Nat
  BY NumberFields
<1>2. b.scale = 0 /\ b.point = -1 /\ b.significand = x.significand
  BY DEF Number
<1>3. ASSUME x.point = Len(x.significand) PROVE s = b
  <2>1. Len(x.significand) - x.point = 0 /\ x.scale - (Len(x.significand) - x.point) = 0
    BY <1>1, <1>3
  <2>2. ~(x.point < 0) /\ ~(0 > x.scale)
    BY <1>1, <1>3
  <2>3. s = IF x.point < 0 THEN x
            ELSE IF Len(x.significand) - x.point > x.scale THEN [x EXCEPT !.point = x.point + x.scale, !.scale = 0]
            ELSE [x EXCEPT !.scale = x.scale - (Len(x.significand) - x.point), !.point = -1]
    BY DEF NormalizeScale
  <2> QED BY <2>1, <2>2, <2>3
<1>4. ASSUME x.point # Len(x.significand) PROVE s = x
  BY <1>1, <1>4 DEF NormalizeScale
<1>5. s.scale = 0 /\ s.point < 0 /\ s.significand = x.significand
  <2> HIDE DEF s, b
  <2>1. CASE x.point = Len(x.significand)
    BY <1>2, <1>3, <2>1
  <2>2. CASE x.point # Len(x.significand)
    BY <1>1, <1>4, <2>2
  <2> QED BY <2>1, <2>2
<1> QED BY <1>5 DEF Normalized

Units == SmallUnits \cup LargeUnits

(* Numbers that are alike have one normalized form.                        *)
LEMMA NormalizedAlike ==
  ASSUME NEW x \in Number, NEW y \in Number, Alike(x, y)
  PROVE  Normalized(x) = Normalized(y)
<1>1. CASE AddsPoint(x, y)
  <2>1. /\ x.significand = y.significand /\ x.scale = 0 /\ x.point = Len(x.significand)
        /\ y.scale = 0 /\ ~(y.point >= 0)
    BY <1>1, PointGoes DEF AddsPoint
  <2>2. Normalized(x) = IF IsZero(x) THEN <<0>> ELSE x.significand
    BY <2>1, NormalizedWhole
  <2>3. Normalized(y) = IF IsZero(y) THEN <<0>> ELSE y.significand
    BY <2>1, NormalizedWhole
  <2> QED BY <2>1, <2>2, <2>3 DEF IsZero
<1> QED BY <1>1 DEF Alike

(* A text before a separator that ends the run: what done left in the      *)
(* parser is, normalized, what it leaves there of the text alone, and all  *)
(* that can be wrong with the text is the sum of its units.                *)
LEMMA HangingReads ==
  ASSUME NEW t \in Seq(Int), NEW c \in Int, AppendAll(NewParser, Append(t, c)).ok,
         LET p == Done(AppendAll(NewParser, Append(t, c)))
         IN ~ p.ok /\ <<c, p.error>> \in {<<Comma, "comma">>, <<Point, "point">>}
  PROVE  /\ Normalized(Parsed(t).total) = Normalized(Done(AppendAll(NewParser, Append(t, c))).total)
         /\ Parsed(t).ok \/ (Range(t) \cap Units # {} /\ Parsed(t).error = "none")
<1> DEFINE q == AppendAll(NewParser, t)
           p == AppendAll(NewParser, Append(t, c))
           Goal == /\ Normalized(Parsed(t).total) = Normalized(Done(p).total)
                   /\ Parsed(t).ok \/ (Range(t) \cap Units # {} /\ Parsed(t).error = "none")
<1>1. /\ p = ReadChar(q, c) /\ q \in ParserState /\ p \in ParserState
      /\ Unhindered(q) /\ (Range(t) \cap Units = {} => UnitFree(q))
  <2>1. q \in ParserState /\ p = ReadChar(q, c) /\ Unhindered(q)
    BY NewParserType, AppendAllType, AppendAllLast, UnhinderedText
  <2>2. Append(t, c) \in Seq(Int)
    BY AppendProperties
  <2>3. p \in ParserState
    BY <2>2, NewParserType, AppendAllType
  <2>4. ASSUME Range(t) \cap Units = {} PROVE UnitFree(q)
    <3>1. DOMAIN t = 1 .. Len(t)
      BY LenProperties
    <3>2. \A k \in 1 .. Len(t) : t[k] \notin SmallUnits \cup LargeUnits
      BY <2>4, <3>1 DEF Range, Units
    <3> QED BY <3>2, UnitFreeText
  <2> QED BY <2>1, <2>3, <2>4
<1>2. p.ok /\ <<c, Done(p).error>> \in {<<Comma, "comma">>, <<Point, "point">>}
  OBVIOUS
<1>3. Parsed(t) = IF q.ok THEN Done(q) ELSE q
  BY DEF Parsed
<1>4. SUFFICES Goal
  OBVIOUS
<1> HIDE DEF p, q
<1>5. q.ok /\ p = AppendChar(q, c)
  BY <1>1, <1>2 DEF ReadChar
<1>6. Comma \in Int /\ Point \in Int /\ Comma # Point
  BY DEF Comma, Point
<1>7. q.error = "none" /\ (q.hanging /\ ~ q.firstDigit => q.tmp.point >= 0)
  BY <1>1, <1>5 DEF Unhindered
<1>8. ASSUME ~ q.hanging, q.comma => q.digitLength = 3,
             p.subtotal = q.subtotal, p.total = q.total, Alike(p.tmp, q.tmp)
      PROVE  Goal
  <2>1. ~ BadGroup(q)
    BY <1>8 DEF BadGroup
  <2>2. Done(p).total = DoneTotal(p) /\ Done(q).total = DoneTotal(q)
    BY <1>1, DoneFields
  <2>3. Done(p) \in ParserState /\ Done(q) \in ParserState
    BY <1>1, DoneFields
  <2>4. DoneTotal(p) \in Number /\ DoneTotal(q) \in Number
    BY <2>2, <2>3, ParserFields
  <2>5. Normalized(DoneTotal(p)) = Normalized(DoneTotal(q))
    BY <1>1, <1>8, <2>4, SumsAlike, NormalizedAlike
  <2>6. Done(q).error = "none"
    BY <1>1, <1>7, <1>8, <2>1, DoneFields
  <2>7. ASSUME Range(t) \cap Units = {} PROVE Done(q).ok
    <3>1. q.subtotal = NoNumber /\ q.total = NoNumber
      BY <1>1, <1>5, <2>7 DEF UnitFree
    <3>2. LastSum(q)[1] /\ WholeSum(q)[1]
      BY <1>1, <3>1, NothingFails
    <3> QED BY <1>1, <1>8, <2>1, <3>2, DoneFields
  <2> QED BY <1>3, <1>5, <2>2, <2>5, <2>6, <2>7
<1>9. CASE c = Point
  <2>1. p = AppendPoint(q)
    BY <1>5, <1>6, <1>9, AppendCharCases
  <2>2. /\ p.total = q.total /\ p.subtotal = q.subtotal /\ ~ q.firstDigit
        /\ p.tmp = [q.tmp EXCEPT !.point = Len(q.tmp.significand)]
        /\ q.tmp.scale = 0 /\ ~(q.tmp.point >= 0)
        /\ q.comma => q.digitLength = 3
    <3>1. AppendPoint(q).ok
      BY <1>2, <2>1
    <3> QED BY <1>1, <1>5, <2>1, <3>1, PointAccepted
  <2>3. Alike(p.tmp, q.tmp)
    BY <2>2 DEF Alike, AddsPoint
  <2>4. ~ q.hanging
    BY <1>7, <2>2
  <2> QED BY <1>8, <2>2, <2>3, <2>4
<1>10. CASE c = Comma
  <2>1. p = AppendComma(q)
    BY <1>5, <1>6, <1>10, AppendCharCases
  <2>2. /\ p.total = q.total /\ p.subtotal = q.subtotal /\ p.tmp = q.tmp /\ p.hanging = q.hanging
        /\ q.comma => q.digitLength = 3
    <3>1. AppendComma(q).ok
      BY <1>2, <2>1
    <3> QED BY <1>1, <1>5, <2>1, <3>1, CommaAccepted
  <2>3. ~ q.hanging
    <3>1. Done(p).error = "comma"
      BY <1>2, <1>6, <1>10
    <3> QED BY <1>1, <2>2, <3>1, DoneFields
  <2>4. Alike(p.tmp, q.tmp)
    BY <2>2 DEF Alike
  <2> QED BY <1>8, <2>2, <2>3, <2>4
<1> QED BY <1>2, <1>9, <1>10

-----------------------------------------------------------------------------
(***************************************************************************)
(* Nodes: their normalized forms, and one in the place of some.            *)
(***************************************************************************)
(* One element in the place of those from b to e.                          *)
Replaced(p, b, e, v) == SubSeq(p, 1, b - 1) \o <<v>> \o SubSeq(p, e + 1, Len(p))

(* The elements before it stay where they are, those behind it move up.    *)
LEMMA ReplacedFacts ==
  ASSUME NEW V, NEW p \in Seq(V), NEW b \in 1 .. Len(p), NEW e \in b .. Len(p), NEW v \in V
  PROVE  /\ Replaced(p, b, e, v) \in Seq(V)
         /\ Len(Replaced(p, b, e, v)) = Len(p) - (e - b)
         /\ \A k \in 1 .. b - 1 : Replaced(p, b, e, v)[k] = p[k]
         /\ Replaced(p, b, e, v)[b] = v
         /\ \A k \in b + 1 .. Len(Replaced(p, b, e, v)) : Replaced(p, b, e, v)[k] = p[k + (e - b)]
<1> DEFINE front == SubSeq(p, 1, b - 1)
           back == SubSeq(p, e + 1, Len(p))
           one == <<v>>
           w == front \o one \o back
<1>1. Len(p) \in Nat /\ b \in Nat /\ e \in Nat /\ 1 <= b /\ b <= e /\ e <= Len(p)
  BY LenProperties
<1>2. \A k \in 1 .. Len(p) : p[k] \in V
  BY ElementOfSeq
<1>3. /\ front \in Seq(V) /\ Len(front) = b - 1 /\ \A k \in 1 .. b - 1 : front[k] = p[k]
  <2>1. b - 1 \in Int /\ 1 \in Int /\ \A k \in 1 .. b - 1 : p[k] \in V
    BY <1>1, <1>2
  <2>2. /\ front \in Seq(V) /\ Len(front) = IF 1 <= b - 1 THEN (b - 1) - 1 + 1 ELSE 0
        /\ \A k \in 1 .. (b - 1) - 1 + 1 : front[k] = p[1 + k - 1]
    BY <2>1, SubSeqProperties
  <2> HIDE DEF front
  <2>3. Len(front) = b - 1
    BY <1>1, <2>2
  <2>4. ASSUME NEW k \in 1 .. b - 1 PROVE front[k] = p[k]
    <3>1. k \in 1 .. (b - 1) - 1 + 1 /\ 1 + k - 1 = k
      BY <1>1
    <3> QED BY <2>2, <3>1
  <2> QED BY <2>2, <2>3, <2>4
<1>4. /\ back \in Seq(V) /\ Len(back) = Len(p) - e
      /\ \A k \in 1 .. Len(p) - e : back[k] = p[e + k]
  <2> DEFINE m == e + 1
             n == Len(p)
  <2>1. m \in Int /\ n \in Int /\ \A k \in m .. n : p[k] \in V
    BY <1>1, <1>2
  <2>2. /\ back \in Seq(V) /\ Len(back) = IF m <= n THEN n - m + 1 ELSE 0
        /\ \A k \in 1 .. n - m + 1 : back[k] = p[m + k - 1]
    BY <2>1, SubSeqProperties
  <2> HIDE DEF back
  <2>3. Len(back) = Len(p) - e
    BY <1>1, <2>2
  <2>4. ASSUME NEW k \in 1 .. Len(p) - e PROVE back[k] = p[e + k]
    <3>1. k \in 1 .. n - m + 1 /\ m + k - 1 = e + k
      BY <1>1
    <3> QED BY <2>2, <3>1
  <2> QED BY <2>2, <2>3, <2>4
<1>5. one \in Seq(V) /\ Len(one) = 1 /\ one[1] = v
  OBVIOUS
<1> HIDE DEF front, back, one
<1>6. /\ front \o one \in Seq(V) /\ Len(front \o one) = b
      /\ \A k \in 1 .. b : (front \o one)[k] = IF k <= b - 1 THEN p[k] ELSE v
  <2>1. /\ front \o one \in Seq(V) /\ Len(front \o one) = Len(front) + Len(one)
        /\ \A k \in 1 .. Len(front) + Len(one) :
             (front \o one)[k] = IF k <= Len(front) THEN front[k] ELSE one[k - Len(front)]
    BY <1>3, <1>5, ConcatProperties
  <2>2. Len(front) + Len(one) = b
    BY <1>1, <1>3, <1>5
  <2>3. ASSUME NEW k \in 1 .. b PROVE (front \o one)[k] = IF k <= b - 1 THEN p[k] ELSE v
    <3>1. CASE k <= b - 1
      <4>1. k \in 1 .. b - 1
        BY <3>1
      <4> QED BY <1>3, <2>1, <2>2, <3>1, <4>1
    <3>2. CASE ~(k <= b - 1)
      <4>1. k - (b - 1) = 1
        BY <1>1, <3>2
      <4> QED BY <1>3, <1>5, <2>1, <2>2, <3>2, <4>1
    <3> QED BY <3>1, <3>2
  <2> QED BY <2>1, <2>2, <2>3
<1> DEFINE head == front \o one
<1>7. w = head \o back
  OBVIOUS
<1>8. head \in Seq(V) /\ Len(head) = b /\ \A k \in 1 .. b : head[k] = IF k <= b - 1 THEN p[k] ELSE v
  BY <1>6
<1> HIDE DEF head, w
<1>9. /\ w \in Seq(V) /\ Len(w) = Len(head) + Len(back)
      /\ \A k \in 1 .. Len(head) + Len(back) : w[k] = IF k <= Len(head) THEN head[k] ELSE back[k - Len(head)]
  BY <1>4, <1>7, <1>8, ConcatProperties
<1>10. Len(w) = Len(p) - (e - b) /\ Len(head) + Len(back) = Len(w)
  BY <1>1, <1>4, <1>8, <1>9
<1>11. ASSUME NEW k \in 1 .. b - 1 PROVE w[k] = p[k]
  <2>1. k \in 1 .. Len(w) /\ k \in 1 .. b /\ k <= b - 1
    BY <1>1, <1>10
  <2> QED BY <1>8, <1>9, <1>10, <2>1
<1>12. w[b] = v
  <2>1. b \in 1 .. Len(w) /\ b \in 1 .. b /\ ~(b <= b - 1)
    BY <1>1, <1>10
  <2> QED BY <1>8, <1>9, <1>10, <2>1
<1>13. ASSUME NEW k \in b + 1 .. Len(w) PROVE w[k] = p[k + (e - b)]
  <2>1. k \in 1 .. Len(w) /\ ~(k <= b) /\ k - b \in 1 .. Len(p) - e /\ e + (k - b) = k + (e - b)
    BY <1>1, <1>10
  <2> QED BY <1>4, <1>8, <1>9, <1>10, <2>1
<1>14. /\ w \in Seq(V) /\ Len(w) = Len(p) - (e - b)
       /\ \A k \in 1 .. b - 1 : w[k] = p[k]
       /\ w[b] = v
       /\ \A k \in b + 1 .. Len(w) : w[k] = p[k + (e - b)]
  BY <1>9, <1>10, <1>11, <1>12, <1>13
<1> QED BY <1>14 DEF w, front, one, back, Replaced

(* The new element itself.                                                 *)
LEMMA ReplacedAt ==
  ASSUME NEW V, NEW p \in Seq(V), NEW b \in 1 .. Len(p), NEW e \in b .. Len(p), NEW v \in V
  PROVE  Replaced(p, b, e, v)[b] = v
BY ReplacedFacts


(* The normalized forms of nodes, one behind the other, are a text.        *)
LEMMA NormsAreTexts ==
  ASSUME NEW V, NEW ns \in Seq(V), \A k \in 1 .. Len(ns) : ns[k].norm \in Seq(Int)
  PROVE  /\ [k \in DOMAIN ns |-> ns[k].norm] \in Seq(Seq(Int))
         /\ Len([k \in DOMAIN ns |-> ns[k].norm]) = Len(ns)
         /\ Norms(ns) \in Seq(Int)
<1> DEFINE n == Len(ns)
           g == [k \in 1 .. n |-> ns[k].norm]
<1>1. n \in Nat /\ DOMAIN ns = 1 .. n
  BY LenProperties
<1>2. [k \in DOMAIN ns |-> ns[k].norm] = g
  BY <1>1
<1>3. g \in Seq(Seq(Int))
  <2>1. \A k \in 1 .. n : ns[k].norm \in Seq(Int)
    OBVIOUS
  <2> HIDE DEF n
  <2> QED BY <1>1, <2>1, IsASeq
<1>4. Len(g) = n
  <2>1. DOMAIN g = 1 .. n /\ Len(g) \in Nat /\ DOMAIN g = 1 .. Len(g)
    <3>1. DOMAIN g = 1 .. n
      OBVIOUS
    <3> HIDE DEF g
    <3> QED BY <1>3, <3>1, LenProperties
  <2> HIDE DEF g, n
  <2> QED BY <1>1, <2>1
<1>5. Norms(ns) = FlattenSeq(g)
  BY <1>2 DEF Norms
<1>6. Norms(ns) \in Seq(Int)
  <2> HIDE DEF g
  <2> QED BY <1>3, <1>5, FlattenType
<1> QED BY <1>2, <1>3, <1>4, <1>6

(* The text of nodes depends on their normalized forms only.               *)
LEMMA NormsSame ==
  ASSUME NEW V, NEW ns \in Seq(V), NEW W, NEW ms \in Seq(W), Len(ns) = Len(ms),
         \A k \in 1 .. Len(ns) : ns[k].norm = ms[k].norm
  PROVE  Norms(ns) = Norms(ms)
<1>1. DOMAIN ns = 1 .. Len(ns) /\ DOMAIN ms = 1 .. Len(ms)
  BY LenProperties
<1>2. [k \in DOMAIN ns |-> ns[k].norm] = [k \in DOMAIN ms |-> ms[k].norm]
  BY <1>1
<1> QED BY <1>2 DEF Norms

(* The text of nodes and one more.                                         *)
LEMMA NormsLast ==
  ASSUME NEW V, NEW ns \in Seq(V), \A k \in 1 .. Len(ns) : ns[k].norm \in Seq(Int),
         NEW n \in V, n.norm \in Seq(Int)
  PROVE  Norms(Append(ns, n)) = Norms(ns) \o n.norm
<1> DEFINE g == [k \in DOMAIN ns |-> ns[k].norm]
           long == Append(ns, n)
           h == [k \in DOMAIN long |-> long[k].norm]
           t == n.norm
<1>1. g \in Seq(Seq(Int)) /\ Len(g) = Len(ns) /\ Len(ns) \in Nat /\ DOMAIN ns = 1 .. Len(ns)
  BY NormsAreTexts, LenProperties
<1>2. /\ long \in Seq(V) /\ Len(long) = Len(ns) + 1 /\ long[Len(ns) + 1] = n
      /\ \A k \in 1 .. Len(ns) : long[k] = ns[k]
  BY AppendProperties
<1>3. \A k \in 1 .. Len(ns) : g[k] = ns[k].norm
  BY <1>1
<1> HIDE DEF g, long
<1>4. \A k \in 1 .. Len(long) : long[k].norm \in Seq(Int)
  <2> SUFFICES ASSUME NEW k \in 1 .. Len(long) PROVE long[k].norm \in Seq(Int)
    OBVIOUS
  <2>1. k \in 1 .. Len(ns) \/ k = Len(ns) + 1
    BY <1>1, <1>2
  <2> QED BY <1>2, <2>1
<1>5. h \in Seq(Seq(Int)) /\ Len(h) = Len(long) /\ DOMAIN long = 1 .. Len(long)
  BY <1>2, <1>4, NormsAreTexts, LenProperties
<1>6. \A k \in 1 .. Len(long) : h[k] = long[k].norm
  BY <1>5
<1> HIDE DEF h
<1>7. /\ Append(g, t) \in Seq(Seq(Int)) /\ Len(Append(g, t)) = Len(ns) + 1
      /\ \A k \in 1 .. Len(ns) : Append(g, t)[k] = g[k]
      /\ Append(g, t)[Len(ns) + 1] = t
  BY <1>1, AppendProperties
<1>8. h = Append(g, t)
  <2>1. \A k \in 1 .. Len(h) : h[k] = Append(g, t)[k]
    <3> SUFFICES ASSUME NEW k \in 1 .. Len(h) PROVE h[k] = Append(g, t)[k]
      OBVIOUS
    <3>1. k \in 1 .. Len(ns) \/ k = Len(ns) + 1
      BY <1>1, <1>2, <1>5
    <3>2. k \in 1 .. Len(long)
      BY <1>5
    <3> QED BY <1>2, <1>3, <1>6, <1>7, <3>1, <3>2
  <2>2. Len(h) = Len(Append(g, t))
    BY <1>2, <1>5, <1>7
  <2> HIDE DEF t
  <2> QED BY <1>5, <1>7, <2>1, <2>2, SeqEqual
<1>9. FlattenSeq(Append(g, t)) = FlattenSeq(g) \o t
  <2> HIDE DEF t
  <2>1. t \in Seq(Int)
    BY DEF t
  <2> QED BY <1>1, <2>1, FlattenAppend
<1> QED BY <1>8, <1>9 DEF Norms, g, h, long

(* No nodes have no text.                                                  *)
LEMMA NormsNone == Norms(<< >>) = << >>
<1> DEFINE g == [k \in DOMAIN << >> |-> << >>[k].norm]
<1>1. << >> \in Seq(Int) /\ Len(<< >>) = 0 /\ DOMAIN << >> = 1 .. 0
  BY EmptySeq, LenProperties
<1>2. g \in Seq(Seq(Int)) /\ Len(g) = 0
  BY <1>1, NormsAreTexts
<1>3. g = << >>
  <2> HIDE DEF g
  <2> QED BY <1>2, EmptySeq
<1>4. Norms(<< >>) = FlattenSeq(g)
  BY DEF Norms
<1> HIDE DEF g
<1> QED BY <1>2, <1>3, <1>4, FlattenEmpty

(* The text of one more node.                                              *)
LEMMA NormsNext ==
  ASSUME NEW V, NEW p \in Seq(V), \A k \in 1 .. Len(p) : p[k].norm \in Seq(Int),
         NEW b \in 1 .. Len(p), NEW e \in b .. Len(p)
  PROVE  /\ Norms(SubSeq(p, b, e)) = Norms(SubSeq(p, b, e - 1)) \o p[e].norm
         /\ Norms(SubSeq(p, b, e - 1)) \in Seq(Int) /\ Norms(SubSeq(p, b, e)) \in Seq(Int)
         /\ b = e => Norms(SubSeq(p, b, e)) = p[e].norm
<1> DEFINE ns == SubSeq(p, b, e - 1)
           d == e - 1
<1>1. Len(p) \in Nat /\ b \in Int /\ e \in Int /\ d \in Int /\ 1 <= b /\ e <= Len(p) /\ b <= e
  BY LenProperties
<1>2. p[e] \in V /\ p[e].norm \in Seq(Int) /\ \A k \in b .. d : p[k] \in V
  <2>1. e \in 1 .. Len(p) /\ \A k \in b .. d : k \in 1 .. Len(p)
    BY <1>1
  <2> QED BY <2>1, ElementOfSeq
<1>3. /\ ns \in Seq(V) /\ Len(ns) = IF b <= d THEN d - b + 1 ELSE 0
      /\ \A k \in 1 .. d - b + 1 : ns[k] = p[b + k - 1]
  <2> HIDE DEF d
  <2>1. /\ SubSeq(p, b, d) \in Seq(V) /\ Len(SubSeq(p, b, d)) = IF b <= d THEN d - b + 1 ELSE 0
        /\ \A k \in 1 .. d - b + 1 : SubSeq(p, b, d)[k] = p[b + k - 1]
    BY <1>1, <1>2, SubSeqProperties
  <2> QED BY <2>1 DEF d
<1>4. SubSeq(p, b, e) = Append(ns, p[e])
  <2>1. SubSeq(p, b, e) = ns \o <<p[e]>>
    BY SubSeqRecursiveSecond
  <2> HIDE DEF ns
  <2> QED BY <1>2, <1>3, <2>1, AppendIsConcat
<1>5. \A k \in 1 .. Len(ns) : ns[k].norm \in Seq(Int)
  <2> HIDE DEF ns
  <2> SUFFICES ASSUME NEW k \in 1 .. Len(ns) PROVE ns[k].norm \in Seq(Int)
    OBVIOUS
  <2>1. k \in 1 .. d - b + 1 /\ b + k - 1 \in 1 .. Len(p)
    BY <1>1, <1>3
  <2> QED BY <1>3, <2>1
<1>6. b = e => ns = << >>
  <2>1. b = e => d < b
    BY <1>1
  <2> QED BY <1>1, <2>1, SubSeqEmpty
<1> HIDE DEF ns
<1>7. Norms(Append(ns, p[e])) = Norms(ns) \o p[e].norm /\ Norms(ns) \in Seq(Int)
  BY <1>2, <1>3, <1>5, NormsLast, NormsAreTexts
<1>8. Norms(ns) \o p[e].norm \in Seq(Int)
  BY <1>2, <1>7, ConcatProperties
<1>9. b = e => Norms(ns) \o p[e].norm = p[e].norm
  BY <1>2, <1>6, NormsNone, ConcatEmptySeq
<1> QED BY <1>4, <1>7, <1>8, <1>9 DEF ns

-----------------------------------------------------------------------------
(***************************************************************************)
(* The path while numbers are joined.                                      *)
(***************************************************************************)
PathNode == [first : Int, last : Int, norm : Seq(Int), num : BOOLEAN]
Separators == {<<Comma>>, <<Point>>}

Within(n) == 1 <= n.first /\ n.first <= n.last /\ n.last <= Len(original)

(* A node of the original path.                                            *)
Untouched(n) ==
  /\ n.first = n.last /\ n.norm = original[n.first].norm /\ n.num = original[n.first].num

(* The nodes of p cover the original path.                                 *)
TiledBy(p) ==
  /\ p \in Seq(PathNode) /\ p # << >>
  /\ p[1].first = 1 /\ p[Len(p)].last = Len(original)
  /\ \A k \in 1 .. Len(p) : Within(p[k])
  /\ \A k \in 1 .. Len(p) - 1 : p[k + 1].first = p[k].last + 1

(* Those of them that are rewritten are read from their own text.          *)
CutOff(p, k) == k < Len(p) /\ p[k + 1].norm \in Separators
JoinedIn(p) ==
  \A k \in 1 .. Len(p) : IsRewritten(p[k]) =>
    ReadsOwnText(p[k]) /\ (IsNumber(p[k]) \/ (OnlySumFails(p[k]) /\ CutOff(p, k)))

(* The path that is rewritten has nodes with texts.                        *)
LEMMA OriginalFacts ==
  ASSUME original \in Paths
  PROVE  /\ original \in Seq(Range(original)) /\ Len(original) \in Nat /\ 1 <= Len(original)
         /\ DOMAIN original = 1 .. Len(original)
         /\ \A k \in 1 .. Len(original) : original[k].norm \in Seq(Int) /\ original[k].num \in BOOLEAN
<1>1. original \in Seq(Range(original)) /\ original # << >>
  BY PathsAssumption
<1>2. DOMAIN original = 1 .. Len(original) /\ Len(original) \in Nat /\ Len(original) # 0
  BY <1>1, LenProperties, EmptySeq
<1>3. \A k \in DOMAIN original : original[k].norm \in Seq(Int) /\ original[k].num \in BOOLEAN
  BY PathsAssumption
<1> QED BY <1>1, <1>2, <1>3

(* So has a path that covers it.                                           *)
LEMMA TiledFacts ==
  ASSUME NEW p, TiledBy(p)
  PROVE  /\ Len(p) \in Nat /\ 1 <= Len(p) /\ DOMAIN p = 1 .. Len(p)
         /\ \A k \in 1 .. Len(p) :
              /\ p[k] \in PathNode /\ p[k].first \in Int /\ p[k].last \in Int
              /\ p[k].norm \in Seq(Int) /\ p[k].num \in BOOLEAN
<1>1. p \in Seq(PathNode) /\ p # << >>
  BY DEF TiledBy
<1>2. Len(p) \in Nat /\ Len(p) # 0 /\ DOMAIN p = 1 .. Len(p)
  BY <1>1, LenProperties, EmptySeq
<1>3. \A k \in 1 .. Len(p) : p[k] \in PathNode
  BY <1>1, ElementOfSeq
<1> QED BY <1>2, <1>3 DEF PathNode

(* Nodes of the original path stand in it as they stand in p.              *)
LEMMA UntouchedRun ==
  ASSUME original \in Paths, NEW p, TiledBy(p), NEW b \in 1 .. Len(p), NEW e \in b .. Len(p),
         \A k \in b .. Len(p) : Untouched(p[k])
  PROVE  /\ Norms(SubSeq(original, p[b].first, p[e].last)) = Norms(SubSeq(p, b, e))
         /\ p[b].first <= p[e].last /\ (b < e => p[b].first < p[e].last)
         /\ b = e => p[b].first = p[e].last
<1> DEFINE n == Len(p)
           f == p[b].first
           l == p[e].last
           S == {k \in b .. n : p[k].first = f + (k - b)}
<1>1. /\ n \in Nat /\ b \in Nat /\ e \in Nat /\ 1 <= b /\ b <= e /\ e <= n
      /\ \A k \in 1 .. n : p[k] \in PathNode /\ p[k].first \in Int /\ p[k].last \in Int
  BY TiledFacts
<1>2. f \in Int /\ b \in S
  BY <1>1
<1>3. \A k \in b + 1 .. n : k - 1 \in S => k \in S
  <2> SUFFICES ASSUME NEW k \in b + 1 .. n, k - 1 \in S PROVE k \in S
    OBVIOUS
  <2>1. k - 1 \in 1 .. Len(p) - 1 /\ k - 1 \in b .. n /\ k \in b .. n /\ (k - 1) + 1 = k
    BY <1>1
  <2>2. p[k].first = p[k - 1].last + 1
    BY <2>1 DEF TiledBy
  <2>3. p[k - 1].last = p[k - 1].first /\ p[k - 1].first = f + ((k - 1) - b)
    BY <2>1 DEF Untouched
  <2>4. p[k].first = f + (k - b)
    <3> DEFINE x == p[k].first
               y == p[k - 1].last
    <3>1. x = y + 1 /\ y = f + ((k - 1) - b)
      BY <2>2, <2>3
    <3>2. k \in Int /\ b \in Int /\ f \in Int
      BY <1>1, <1>2
    <3> HIDE DEF x, y, f
    <3>3. x = f + (k - b)
      BY <3>1, <3>2
    <3> QED BY <3>3 DEF x
  <2> QED BY <2>1, <2>4
<1>4. \A k \in b .. n : p[k].first = f + (k - b)
  <2>1. \A k \in b .. n : k \in S
    <3> HIDE DEF S, n
    <3> QED BY <1>1, <1>2, <1>3, ByStep
  <2> QED BY <2>1
<1>5. l = f + (e - b)
  <2>1. e \in b .. n
    BY <1>1
  <2> QED BY <1>4, <2>1 DEF Untouched
<1>6. 1 <= f /\ l <= Len(original)
  <2>1. b \in 1 .. Len(p) /\ e \in 1 .. Len(p)
    BY <1>1
  <2> QED BY <2>1 DEF TiledBy, Within
<1>7. Len(original) \in Nat /\ original \in Seq(Range(original))
  BY OriginalFacts
<1> DEFINE ns == SubSeq(original, f, l)
           ms == SubSeq(p, b, e)
           V == Range(original)
<1> HIDE DEF f, l, V
<1>8. /\ ns \in Seq(V) /\ Len(ns) = e - b + 1
      /\ \A k \in 1 .. e - b + 1 : ns[k] = original[f + k - 1]
  <2>1. l \in Int /\ \A k \in f .. l : original[k] \in V
    <3>1. l \in Int /\ \A k \in f .. l : k \in 1 .. Len(original)
      BY <1>1, <1>2, <1>5, <1>6, <1>7
    <3> QED BY <1>7, <3>1, ElementOfSeq DEF V
  <2>2. /\ ns \in Seq(V) /\ Len(ns) = IF f <= l THEN l - f + 1 ELSE 0
        /\ \A k \in 1 .. l - f + 1 : ns[k] = original[f + k - 1]
    BY <1>2, <2>1, SubSeqProperties
  <2>3. f <= l /\ l - f + 1 = e - b + 1
    BY <1>1, <1>2, <1>5
  <2> HIDE DEF ns
  <2> QED BY <2>2, <2>3
<1>9. /\ ms \in Seq(PathNode) /\ Len(ms) = e - b + 1
      /\ \A k \in 1 .. e - b + 1 : ms[k] = p[b + k - 1]
  <2>1. \A k \in b .. e : p[k] \in PathNode
    BY <1>1
  <2>2. /\ ms \in Seq(PathNode) /\ Len(ms) = IF b <= e THEN e - b + 1 ELSE 0
        /\ \A k \in 1 .. e - b + 1 : ms[k] = p[b + k - 1]
    BY <1>1, <2>1, SubSeqProperties
  <2> HIDE DEF ms
  <2> QED BY <1>1, <2>2
<1>10. \A k \in 1 .. Len(ns) : ns[k].norm = ms[k].norm
  <2> SUFFICES ASSUME NEW k \in 1 .. e - b + 1 PROVE ns[k].norm = ms[k].norm
    BY <1>8
  <2>1. b + k - 1 \in b .. n /\ (b + k - 1) - b = k - 1
    BY <1>1
  <2>2. p[b + k - 1].first = f + k - 1
    BY <1>2, <1>4, <2>1
  <2>3. p[b + k - 1].norm = original[p[b + k - 1].first].norm
    BY <2>1 DEF Untouched
  <2> QED BY <1>8, <1>9, <2>2, <2>3
<1>11. Norms(ns) = Norms(ms)
  <2> HIDE DEF ns, ms
  <2> QED BY <1>8, <1>9, <1>10, NormsSame
<1>12. f <= l /\ (b < e => f < l) /\ (b = e => f = l)
  BY <1>1, <1>2, <1>5
<1> QED BY <1>11, <1>12 DEF f, l
-----------------------------------------------------------------------------
(* One node in the place of b..e, where nothing was rewritten from b on.   *)
LEMMA JoinNodes ==
  ASSUME original \in Paths, NEW p, TiledBy(p), JoinedIn(p),
         NEW b \in 1 .. Len(p), NEW e \in b .. Len(p),
         \A k \in b .. Len(p) : Untouched(p[k]),
         p[b].norm \notin Separators, NEW norm \in Seq(Int),
         LET t == Norms(SubSeq(p, b, e))
         IN /\ norm = IF normalize THEN Normalized(Parsed(t).total) ELSE t
            /\ \/ Parsed(t).ok
               \/ /\ Range(t) \cap Units # {} /\ Parsed(t).error = "none"
                  /\ CutOff(p, e)
  PROVE  LET w == ConcatNodes(p, b, e, norm)
         IN /\ TiledBy(w) /\ JoinedIn(w) /\ Len(w) = Len(p) - (e - b)
            /\ \A k \in b + 1 .. Len(w) : Untouched(w[k])
<1> DEFINE n == Len(p)
           d == e - b
           t == Norms(SubSeq(p, b, e))
           v == [first |-> p[b].first, last |-> p[e].last, norm |-> norm, num |-> p[b].num]
           w == Replaced(p, b, e, v)
<1>1. /\ n \in Nat /\ b \in Nat /\ e \in Nat /\ 1 <= b /\ b <= e /\ e <= n
      /\ \A k \in 1 .. n : /\ p[k] \in PathNode /\ p[k].first \in Int /\ p[k].last \in Int
                           /\ p[k].num \in BOOLEAN
  <2>1. n \in Nat /\ \A k \in 1 .. n : /\ p[k] \in PathNode /\ p[k].first \in Int
                                      /\ p[k].last \in Int /\ p[k].num \in BOOLEAN
    BY TiledFacts
  <2>2. b \in 1 .. n /\ e \in b .. n
    OBVIOUS
  <2> HIDE DEF n
  <2>3. b \in Nat /\ e \in Nat /\ 1 <= b /\ b <= e /\ e <= n
    BY <2>1, <2>2
  <2> QED BY <2>1, <2>3
<1>2. b \in 1 .. n /\ e \in 1 .. n /\ b \in b .. n
  BY <1>1
<1>3. /\ v \in PathNode /\ v.first = p[b].first /\ v.last = p[e].last /\ v.norm = norm
  <2>1. p[b].first \in Int /\ p[e].last \in Int /\ p[b].num \in BOOLEAN
    BY <1>1, <1>2
  <2> QED BY <2>1 DEF PathNode
<1>4. /\ Norms(SubSeq(original, p[b].first, p[e].last)) = t
      /\ p[b].first <= p[e].last
  BY UntouchedRun
<1>5. ConcatNodes(p, b, e, norm) = w
  BY DEF ConcatNodes, Replaced
<1> HIDE DEF v, t
<1>6. /\ w \in Seq(PathNode) /\ Len(w) = n - d
      /\ \A k \in 1 .. b - 1 : w[k] = p[k]
      /\ w[b] = v
      /\ \A k \in b + 1 .. Len(w) : w[k] = p[k + d]
  <2>1. p \in Seq(PathNode)
    BY DEF TiledBy
  <2>2. v \in PathNode /\ b \in 1 .. Len(p) /\ e \in b .. Len(p)
    BY <1>3
  <2>3. Replaced(p, b, e, v) \in Seq(PathNode)
    BY <2>1, <2>2, ReplacedFacts
  <2>4. Len(Replaced(p, b, e, v)) = Len(p) - (e - b)
    BY <2>1, <2>2, ReplacedFacts
  <2>5. \A k \in 1 .. b - 1 : Replaced(p, b, e, v)[k] = p[k]
    BY <2>1, <2>2, ReplacedFacts
  <2>6. Replaced(p, b, e, v)[b] = v
    BY <2>1, <2>2, ReplacedAt
  <2>7. \A k \in b + 1 .. Len(Replaced(p, b, e, v)) : Replaced(p, b, e, v)[k] = p[k + (e - b)]
    BY <2>1, <2>2, ReplacedFacts
  <2> QED BY <2>3, <2>4, <2>5, <2>6, <2>7
<1> HIDE DEF w, n, d
<1>7. /\ Len(w) \in Nat /\ b <= Len(w) /\ d \in Nat /\ d = e - b
      /\ \A k \in b + 1 .. Len(w) : k + d \in e + 1 .. n
      /\ b = Len(w) <=> e = n
  <2>1. Len(w) = n - d /\ d = e - b
    BY <1>6 DEF d
  <2>2. n \in Nat /\ b \in Nat /\ e \in Nat /\ 1 <= b /\ b <= e /\ e <= n
    BY <1>1
  <2> HIDE DEF d
  <2>3. d \in Nat /\ Len(w) \in Nat /\ b <= Len(w) /\ (b = Len(w) <=> e = n)
    BY <2>1, <2>2
  <2>4. \A k \in b + 1 .. Len(w) : k + d \in e + 1 .. n
    BY <2>1, <2>2, <2>3
  <2> QED BY <2>1, <2>3, <2>4
<1>8. \A k \in b + 1 .. Len(w) : Untouched(w[k])
  <2> SUFFICES ASSUME NEW k \in b + 1 .. Len(w) PROVE Untouched(w[k])
    OBVIOUS
  <2>1. k + d \in b .. Len(p)
    BY <1>1, <1>7 DEF n
  <2> QED BY <1>6, <2>1
<1>9. TiledBy(w)
  <2>1. w # << >>
    <3>1. Len(w) # 0
      BY <1>1, <1>7
    <3>2. Len(<< >>) = 0
      BY EmptySeq
    <3> QED BY <3>1, <3>2
  <2>2. w[1].first = 1
    <3>1. p[1].first = 1
      BY DEF TiledBy
    <3>2. CASE b = 1
      BY <1>3, <1>6, <3>1, <3>2
    <3>3. CASE b # 1
      <4>1. 1 \in 1 .. b - 1
        BY <1>1, <3>3
      <4> QED BY <1>6, <3>1, <4>1
    <3> QED BY <3>2, <3>3
  <2>3. w[Len(w)].last = Len(original)
    <3>1. p[n].last = Len(original)
      BY DEF TiledBy, n
    <3>2. CASE b = Len(w)
      BY <1>3, <1>6, <1>7, <3>1, <3>2
    <3>3. CASE b # Len(w)
      <4>1. Len(w) \in b + 1 .. Len(w) /\ Len(w) + d = n
        BY <1>1, <1>6, <1>7, <3>3
      <4> QED BY <1>6, <3>1, <4>1
    <3> QED BY <3>2, <3>3
  <2>4. ASSUME NEW k \in 1 .. Len(w) PROVE Within(w[k])
    <3>1. \A m \in 1 .. n : Within(p[m])
      BY DEF TiledBy, n
    <3>2. CASE k \in 1 .. b - 1
      <4>1. k \in 1 .. n
        BY <1>1, <3>2
      <4> QED BY <1>6, <3>1, <3>2, <4>1
    <3>3. CASE k = b
      BY <1>2, <1>3, <1>4, <1>6, <3>1, <3>3 DEF Within
    <3>4. CASE k \in b + 1 .. Len(w)
      <4>1. k + d \in 1 .. n
        BY <1>1, <1>7, <3>4
      <4> QED BY <1>6, <3>1, <3>4, <4>1
    <3> QED BY <1>1, <1>7, <3>2, <3>3, <3>4
  <2>5. ASSUME NEW k \in 1 .. Len(w) - 1 PROVE w[k + 1].first = w[k].last + 1
    <3>1. \A m \in 1 .. n - 1 : p[m + 1].first = p[m].last + 1
      BY DEF TiledBy, n
    <3>2. CASE k + 1 \in 1 .. b - 1
      <4>1. k \in 1 .. n - 1 /\ k \in 1 .. b - 1
        BY <1>1, <1>7, <3>2
      <4> QED BY <1>6, <3>1, <3>2, <4>1
    <3>3. CASE k + 1 = b
      <4>1. k \in 1 .. n - 1 /\ k \in 1 .. b - 1
        BY <1>1, <1>7, <3>3
      <4> QED BY <1>3, <1>6, <3>1, <3>3, <4>1
    <3>4. CASE k = b
      <4>1. k + 1 \in b + 1 .. Len(w) /\ (k + 1) + d = e + 1 /\ e \in 1 .. n - 1
        BY <1>1, <1>6, <1>7, <3>4
      <4>2. w[k + 1] = p[e + 1] /\ p[e + 1].first = p[e].last + 1
        BY <1>6, <3>1, <4>1
      <4> QED BY <1>3, <1>6, <3>4, <4>2
    <3>5. CASE k \in b + 1 .. Len(w)
      <4>1. k + 1 \in b + 1 .. Len(w) /\ (k + 1) + d = (k + d) + 1 /\ k + d \in 1 .. n - 1
        BY <1>1, <1>6, <1>7, <3>5
      <4>2. w[k + 1] = p[(k + d) + 1] /\ w[k] = p[k + d]
        BY <1>6, <3>5, <4>1
      <4> QED BY <3>1, <4>1, <4>2
    <3> QED BY <1>1, <1>7, <3>2, <3>3, <3>4, <3>5
  <2> QED BY <1>6, <2>1, <2>2, <2>3, <2>4, <2>5 DEF TiledBy
<1>10. JoinedIn(w)
  <2> SUFFICES ASSUME NEW k \in 1 .. Len(w), IsRewritten(w[k])
               PROVE  /\ ReadsOwnText(w[k])
                      /\ IsNumber(w[k]) \/ (OnlySumFails(w[k]) /\ CutOff(w, k))
    BY DEF JoinedIn
  <2>1. \A m \in 1 .. n : IsRewritten(p[m]) =>
          ReadsOwnText(p[m]) /\ (IsNumber(p[m]) \/ (OnlySumFails(p[m]) /\ CutOff(p, m)))
    BY DEF JoinedIn, n
  <2>2. CASE k + 1 \in 1 .. b - 1
    <3>1. k \in 1 .. n /\ k \in 1 .. b - 1 /\ k < Len(w)
      BY <1>1, <1>7, <2>2
    <3>2. w[k] = p[k] /\ w[k + 1] = p[k + 1]
      BY <1>6, <2>2, <3>1
    <3>3. CutOff(p, k) => CutOff(w, k)
      BY <3>1, <3>2 DEF CutOff
    <3> QED BY <2>1, <3>1, <3>2, <3>3
  <2>3. CASE k + 1 = b
    <3>1. k \in 1 .. n /\ k \in 1 .. b - 1
      BY <1>1, <1>7, <2>3
    <3>2. ~ CutOff(p, k)
      BY <2>3 DEF CutOff
    <3>3. w[k] = p[k]
      BY <1>6, <3>1
    <3> QED BY <2>1, <3>1, <3>2, <3>3
  <2>4. CASE k = b
    <3>1. w[k] = v
      BY <1>6, <2>4
    <3>2. TextOf(w[k]) = t
      BY <1>3, <1>4, <3>1 DEF TextOf
    <3>3. ASSUME CutOff(p, e) PROVE CutOff(w, k)
      <4>1. k < Len(w) /\ k + 1 \in b + 1 .. Len(w) /\ (k + 1) + d = e + 1
        BY <1>1, <1>6, <1>7, <2>4, <3>3 DEF n, CutOff
      <4>2. w[k + 1] = p[e + 1]
        <5>1. w[k + 1] = p[(k + 1) + d]
          BY <1>6, <4>1
        <5> QED BY <4>1, <5>1
      <4> QED BY <3>3, <4>1, <4>2 DEF CutOff
    <3>4. /\ norm = IF normalize THEN Normalized(Parsed(t).total) ELSE t
          /\ \/ Parsed(t).ok
             \/ /\ Range(t) \cap Units # {} /\ Parsed(t).error = "none"
                /\ CutOff(p, e)
      BY DEF t
    <3>5. w[k].norm = norm
      BY <1>3, <3>1
    <3>6. ReadsOwnText(w[k])
      BY <3>2, <3>4, <3>5 DEF ReadsOwnText
    <3>7. IsNumber(w[k]) \/ (OnlySumFails(w[k]) /\ CutOff(w, k))
      BY <3>2, <3>3, <3>4 DEF IsNumber, OnlySumFails, Units
    <3> QED BY <3>6, <3>7
  <2>5. CASE k \in b + 1 .. Len(w)
    BY <1>8, <2>5 DEF IsRewritten, Untouched
  <2> QED BY <1>1, <1>7, <2>2, <2>3, <2>4, <2>5
<1>11. Len(w) = Len(p) - (e - b)
  BY <1>6 DEF n, d
<1> QED BY <1>5, <1>8, <1>9, <1>10, <1>11

-----------------------------------------------------------------------------
(***************************************************************************)
(* The scan.  The nodes it has not handled, the run that is open included, *)
(* are those of the original path; the parser has read the run, which does *)
(* not begin with a separator; and concat_nodes is never given no nodes.   *)
(***************************************************************************)
Fresh == IF begin = NoRun THEN i + 1 ELSE begin

Scanning ==
  /\ i \in 0 .. Len(path) /\ begin \in 0 .. i
  /\ \A k \in Fresh .. Len(path) : Untouched(path[k])
  /\ begin # NoRun => /\ parser = AppendAll(NewParser, Norms(SubSeq(path, begin, i)))
                      /\ parser.ok /\ path[begin].norm \notin Separators

NumeralInv ==
  /\ original \in Paths /\ normalize \in BOOLEAN
  /\ pc \in {"scan", "done", "katakana", "rewritten"}
  /\ TiledBy(path) /\ JoinedIn(path)
  /\ pc = "scan" => Scanning

(* A separator alone is refused.                                           *)
LEMMA SeparatorAlone ==
  ASSUME NEW norm \in Separators
  PROVE  ~ AppendAll(NewParser, norm).ok
<1> PICK c \in {Comma, Point} : norm = <<c>>
  BY DEF Separators
<1>1. c \in Int /\ << >> \in Seq(Int) /\ norm = Append(<< >>, c)
  BY DEF Comma, Point
<1>2. AppendAll(NewParser, << >>) = NewParser /\ NewParser.ok
  BY AppendAllEmpty, NewParserType, StartedFacts
<1>3. AppendAll(NewParser, norm) = AppendChar(NewParser, c)
  <2>1. AppendAll(NewParser, Append(<< >>, c)) = ReadChar(AppendAll(NewParser, << >>), c)
    BY <1>1, NewParserType, AppendAllLast
  <2> QED BY <1>1, <1>2, <2>1 DEF ReadChar
<1>4. NewParser.firstDigit /\ NewParser \in ParserState
  BY NewParserType DEF NewParser
<1>5. CASE c = Comma
  <2>1. AppendChar(NewParser, c) = AppendComma(NewParser)
    BY <1>1, <1>5, AppendCharCases
  <2>2. AppendComma(NewParser) = Refuses(NewParser, "comma")
    BY <1>4 DEF AppendComma, CheckComma
  <2>3. ~ Refuses(NewParser, "comma").ok
    BY <1>4 DEF Refuses, ParserState
  <2> QED BY <1>3, <2>1, <2>2, <2>3
<1>6. CASE c = Point
  <2> DEFINE h == [NewParser EXCEPT !.hanging = TRUE]
  <2>1. AppendChar(NewParser, c) = AppendPoint(NewParser)
    BY <1>1, <1>6, AppendCharCases
  <2>2. h.firstDigit /\ h \in ParserState
    BY <1>4 DEF ParserState
  <2>3. AppendPoint(NewParser) = Refuses(h, "point")
    BY <2>2 DEF AppendPoint
  <2>4. ~ Refuses(h, "point").ok
    <3> HIDE DEF h
    <3> QED BY <2>2 DEF Refuses, ParserState
  <2> QED BY <1>3, <2>1, <2>3, <2>4
<1> QED BY <1>5, <1>6

(* What the run is read to, when done was called at its end.               *)
LEMMA RunIsRead ==
  ASSUME NEW t \in Seq(Int), AppendAll(NewParser, t).ok
  PROVE  /\ Parsed(t) = Done(AppendAll(NewParser, t))
         /\ Done(AppendAll(NewParser, t)) \in ParserState
         /\ Done(AppendAll(NewParser, t)).total \in Number
<1>1. AppendAll(NewParser, t) \in ParserState
  BY NewParserType, AppendAllType
<1>2. Done(AppendAll(NewParser, t)) \in ParserState
  BY <1>1, DoneFields
<1> QED BY <1>2, ParserFields DEF Parsed

(* Concat joins, or leaves the path as it is.                              *)
LEMMA ConcatCases ==
  ASSUME NEW p, NEW b, NEW e, NEW number
  PROVE  \/ Concat(p, b, e, number) = p
         \/ Concat(p, b, e, number) =
              ConcatNodes(p, b, e, IF normalize THEN Normalized(number) ELSE Norms(SubSeq(p, b, e)))
BY DEF Concat

(* The end of a run, at the last node of it: the path stays what it is to  *)
(* be, and the scan goes on behind what it joined.                         *)
LEMMA EndRunFacts ==
  ASSUME NumeralInv, pc = "scan", begin # NoRun
  PROVE  LET p == Done(parser)
             w == EndRun(p, i)[1]
             j == EndRun(p, i)[2]
         IN /\ ~ Fails(p, i)
            /\ TiledBy(w) /\ JoinedIn(w)
            /\ i < Len(path) => /\ j \in 0 .. Len(w)
                                /\ \A k \in j + 1 .. Len(w) : Untouched(w[k])
<1> DEFINE p == Done(parser)
           text(e) == Norms(SubSeq(path, begin, e))
           form(e) == IF normalize THEN Normalized(p.total) ELSE text(e)
           t == text(i)
<1>1. /\ original \in Paths /\ normalize \in BOOLEAN /\ TiledBy(path) /\ JoinedIn(path)
      /\ i \in 0 .. Len(path) /\ begin \in 0 .. i /\ path[begin].norm \notin Separators
      /\ parser = AppendAll(NewParser, t) /\ parser.ok
      /\ \A k \in begin .. Len(path) : Untouched(path[k])
  BY DEF NumeralInv, Scanning, Fresh
<1>2. /\ Len(path) \in Nat /\ path \in Seq(PathNode)
      /\ \A k \in 1 .. Len(path) : path[k].norm \in Seq(Int)
  BY <1>1, TiledFacts DEF TiledBy
<1>3. /\ begin \in 1 .. Len(path) /\ i \in begin .. Len(path) /\ i \in 1 .. Len(path)
      /\ i \in Nat /\ begin \in Nat /\ 1 <= begin /\ begin <= i /\ i <= Len(path)
  BY <1>1, <1>2 DEF NoRun
<1>4. /\ t \in Seq(Int) /\ t = Norms(SubSeq(path, begin, i - 1)) \o path[i].norm
      /\ Norms(SubSeq(path, begin, i - 1)) \in Seq(Int)
  BY <1>2, <1>3, NormsNext
<1> HIDE DEF t
<1>5. Parsed(t) = p /\ p \in ParserState /\ p.total \in Number
  BY <1>1, <1>4, RunIsRead
<1>6. Normalized(p.total) \in Seq(Int)
  <2> HIDE DEF p
  <2> QED BY <1>5, NormalizedType
<1> HIDE DEF p
<1>7. ASSUME NEW e \in begin .. i,
             form(e) = IF normalize THEN Normalized(Parsed(text(e)).total) ELSE text(e),
             \/ Parsed(text(e)).ok
             \/ /\ Range(text(e)) \cap Units # {} /\ Parsed(text(e)).error = "none"
                /\ CutOff(path, e)
      PROVE  LET w == Concat(path, begin, e, p.total)
             IN /\ TiledBy(w) /\ JoinedIn(w) /\ Len(w) \in Nat /\ Len(w) >= Len(path) - (e - begin)
                /\ \A k \in begin + 1 .. Len(w) : Untouched(w[k])
  <2>1. e \in begin .. Len(path) /\ e \in Int
    BY <1>3
  <2>2. text(e) \in Seq(Int)
    BY <1>2, <1>3, <2>1, NormsNext
  <2>3. form(e) \in Seq(Int)
    BY <1>6, <2>2
  <2> DEFINE w == ConcatNodes(path, begin, e, form(e))
  <2>4. /\ TiledBy(w) /\ JoinedIn(w) /\ Len(w) = Len(path) - (e - begin)
        /\ \A k \in begin + 1 .. Len(w) : Untouched(w[k])
    BY <1>1, <1>3, <1>7, <2>1, <2>3, JoinNodes
  <2>5. Concat(path, begin, e, p.total) \in {path, w}
    BY ConcatCases
  <2> HIDE DEF w
  <2>6. CASE Concat(path, begin, e, p.total) = path
    <3>1. \A k \in begin + 1 .. Len(path) : k \in begin .. Len(path)
      BY <1>3
    <3>2. Len(path) >= Len(path) - (e - begin)
      BY <1>2, <1>3, <2>1
    <3> QED BY <1>1, <1>2, <2>6, <3>1, <3>2
  <2>7. CASE Concat(path, begin, e, p.total) = w
    <3>1. Len(w) \in Nat /\ Len(w) >= Len(path) - (e - begin)
      BY <1>2, <1>3, <2>1, <2>4
    <3> QED BY <2>4, <2>7, <3>1
  <2> QED BY <2>5, <2>6, <2>7
<1>8. ASSUME ~ p.ok, Hanging(p, path[i])
      PROVE  /\ i > begin
             /\ form(i - 1) = IF normalize THEN Normalized(Parsed(text(i - 1)).total) ELSE text(i - 1)
             /\ \/ Parsed(text(i - 1)).ok
                \/ /\ Range(text(i - 1)) \cap Units # {} /\ Parsed(text(i - 1)).error = "none"
                   /\ CutOff(path, i - 1)
  <2> DEFINE u == text(i - 1)
  <2>1. PICK c \in {Comma, Point} :
          path[i].norm = <<c>> /\ <<c, p.error>> \in {<<Comma, "comma">>, <<Point, "point">>}
    <3>1. CASE p.error = "comma" /\ path[i].norm = <<Comma>>
      <4> WITNESS Comma \in {Comma, Point}
      <4> QED BY <3>1
    <3>2. CASE p.error = "point" /\ path[i].norm = <<Point>>
      <4> WITNESS Point \in {Comma, Point}
      <4> QED BY <3>2
    <3> QED BY <1>8, <3>1, <3>2 DEF Hanging
  <2>2. path[i].norm \in Separators
    BY <2>1 DEF Separators
  <2>3. i > begin
    BY <1>1, <1>3, <2>2
  <2>4. c \in Int
    BY DEF Comma, Point
  <2>5. t = Append(u, c) /\ u \in Seq(Int)
    BY <1>4, <2>1, <2>4, AppendIsConcat
  <2>6. CutOff(path, i - 1)
    <3>1. (i - 1) + 1 = i /\ i - 1 < Len(path)
      BY <1>3
    <3> QED BY <2>2, <3>1 DEF CutOff
  <2>7. /\ Normalized(Parsed(u).total) = Normalized(p.total)
        /\ Parsed(u).ok \/ (Range(u) \cap Units # {} /\ Parsed(u).error = "none")
    <3> HIDE DEF u
    <3>1. AppendAll(NewParser, Append(u, c)) = parser /\ parser.ok
      BY <1>1, <2>5
    <3>2. Done(AppendAll(NewParser, Append(u, c))) = p
      BY <3>1 DEF p
    <3> QED BY <1>8, <2>1, <2>4, <2>5, <3>1, <3>2, HangingReads
  <2> QED BY <2>3, <2>6, <2>7
<1> DEFINE w == EndRun(p, i)[1]
           j == EndRun(p, i)[2]
<1>9. ASSUME TiledBy(w), JoinedIn(w), ~ Fails(p, i),
             i < Len(path) => j \in 0 .. Len(w) /\ \A k \in j + 1 .. Len(w) : Untouched(w[k])
      PROVE  LET p_ == Done(parser)
                 w_ == EndRun(p_, i)[1]
                 j_ == EndRun(p_, i)[2]
             IN /\ ~ Fails(p_, i)
                /\ TiledBy(w_) /\ JoinedIn(w_)
                /\ i < Len(path) => /\ j_ \in 0 .. Len(w_)
                                    /\ \A k \in j_ + 1 .. Len(w_) : Untouched(w_[k])
  BY <1>9 DEF p
<1>10. ~ Fails(p, i)
  BY <1>3, <1>8 DEF Fails
<1>11. CASE p.ok
  <2> DEFINE c == Concat(path, begin, i, p.total)
  <2>1. EndRun(p, i) = <<c, begin + 1>>
    BY <1>11 DEF EndRun
  <2>2. /\ TiledBy(c) /\ JoinedIn(c) /\ Len(c) \in Nat /\ Len(c) >= Len(path) - (i - begin)
        /\ \A k \in begin + 1 .. Len(c) : Untouched(c[k])
    <3>1. Parsed(text(i)).ok /\ form(i) = IF normalize THEN Normalized(Parsed(text(i)).total) ELSE text(i)
      BY <1>5, <1>11 DEF t
    <3>2. i \in begin .. i
      BY <1>3
    <3> QED BY <1>7, <3>1, <3>2
  <2> HIDE DEF c
  <2>3. w = c /\ j = begin + 1
    BY <2>1
  <2> HIDE DEF w, j
  <2>4. ASSUME i < Len(path) PROVE j \in 0 .. Len(w) /\ \A k \in j + 1 .. Len(w) : Untouched(w[k])
    <3>1. j \in 0 .. Len(c) /\ \A k \in j + 1 .. Len(c) : k \in begin + 1 .. Len(c)
      BY <1>2, <1>3, <2>2, <2>3, <2>4
    <3> QED BY <2>2, <2>3, <3>1
  <2> QED BY <1>9, <1>10, <2>2, <2>3, <2>4 DEF w, j
<1>12. CASE ~ p.ok /\ Hanging(p, path[i])
  <2> DEFINE c == Concat(path, begin, i - 1, p.total)
  <2>1. i > begin
    BY <1>8, <1>12
  <2>2. EndRun(p, i) = <<c, begin + 2>>
    BY <1>12, <2>1 DEF EndRun
  <2>3. /\ TiledBy(c) /\ JoinedIn(c) /\ Len(c) \in Nat /\ Len(c) >= Len(path) - ((i - 1) - begin)
        /\ \A k \in begin + 1 .. Len(c) : Untouched(c[k])
    <3>1. i - 1 \in begin .. i /\ i - 1 < Len(path)
      BY <1>3, <2>1
    <3> QED BY <1>7, <1>8, <1>12, <3>1
  <2> HIDE DEF c
  <2>4. w = c /\ j = begin + 2
    BY <2>2
  <2> HIDE DEF w, j
  <2>5. ASSUME i < Len(path) PROVE j \in 0 .. Len(w) /\ \A k \in j + 1 .. Len(w) : Untouched(w[k])
    <3>1. j \in 0 .. Len(c) /\ \A k \in j + 1 .. Len(c) : k \in begin + 1 .. Len(c)
      BY <1>2, <1>3, <2>1, <2>3, <2>4, <2>5
    <3> QED BY <2>3, <2>4, <3>1
  <2> QED BY <1>9, <1>10, <2>3, <2>4, <2>5 DEF w, j
<1>13. CASE ~ p.ok /\ ~ Hanging(p, path[i])
  <2>1. EndRun(p, i) = <<path, i + 1>>
    BY <1>13 DEF EndRun
  <2>2. w = path /\ j = i + 1
    BY <2>1
  <2> HIDE DEF w, j
  <2>3. ASSUME i < Len(path) PROVE j \in 0 .. Len(w) /\ \A k \in j + 1 .. Len(w) : Untouched(w[k])
    <3>1. j \in 0 .. Len(path) /\ \A k \in j + 1 .. Len(path) : k \in begin .. Len(path)
      BY <1>2, <1>3, <2>2, <2>3
    <3> QED BY <1>1, <2>2, <3>1
  <2> QED BY <1>1, <1>9, <1>10, <2>2, <2>3 DEF w, j
<1>14. p.ok \in BOOLEAN
  BY <1>5, ParserFields
<1> QED BY <1>11, <1>12, <1>13, <1>14

(* Before the scan nothing is rewritten.                                   *)
LEMMA NumeralInit == KatakanaInit => NumeralInv
<1> SUFFICES ASSUME KatakanaInit PROVE NumeralInv
  OBVIOUS
<1>1. /\ original \in Paths /\ normalize \in BOOLEAN /\ i = 0 /\ begin = NoRun /\ pc = "scan"
      /\ path = [k \in DOMAIN original |->
                   [first |-> k, last |-> k, norm |-> original[k].norm, num |-> original[k].num]]
  BY DEF KatakanaInit, Init
<1> DEFINE n == Len(original)
           node(k) == [first |-> k, last |-> k, norm |-> original[k].norm, num |-> original[k].num]
<1>2. n \in Nat /\ 1 <= n /\ DOMAIN original = 1 .. n
  BY <1>1, OriginalFacts
<1>3. path = [k \in 1 .. n |-> node(k)]
  BY <1>1, <1>2
<1>4. \A k \in 1 .. n : node(k) \in PathNode
  BY <1>1, OriginalFacts DEF PathNode
<1>5. path \in Seq(PathNode) /\ Len(path) = n
  <2>1. path \in Seq(PathNode)
    <3> HIDE DEF n, node
    <3>1. [k \in 1 .. n |-> node(k)] \in Seq(PathNode)
      BY <1>2, <1>4, IsASeq
    <3> QED BY <1>3, <3>1
  <2>2. DOMAIN path = 1 .. n /\ DOMAIN path = 1 .. Len(path) /\ Len(path) \in Nat
    BY <1>3, <2>1, LenProperties
  <2> HIDE DEF n
  <2> QED BY <1>2, <2>1, <2>2
<1>6. \A k \in 1 .. n : /\ path[k].first = k /\ path[k].last = k
                        /\ path[k].norm = original[k].norm /\ path[k].num = original[k].num
  BY <1>3
<1>7. \A k \in 1 .. n : Within(path[k]) /\ Untouched(path[k])
  BY <1>2, <1>6 DEF Within, Untouched
<1> HIDE DEF n
<1>8. TiledBy(path)
  <2>1. path # << >>
    <3>1. Len(<< >>) = 0
      BY EmptySeq
    <3> QED BY <1>2, <1>5, <3>1
  <2>2. path[1].first = 1 /\ path[Len(path)].last = Len(original)
    BY <1>2, <1>5, <1>6 DEF n
  <2>3. \A k \in 1 .. Len(path) - 1 : path[k + 1].first = path[k].last + 1
    <3> SUFFICES ASSUME NEW k \in 1 .. Len(path) - 1 PROVE path[k + 1].first = path[k].last + 1
      OBVIOUS
    <3>1. k \in 1 .. n /\ k + 1 \in 1 .. n
      BY <1>2, <1>5
    <3> QED BY <1>6, <3>1
  <2> QED BY <1>5, <1>7, <2>1, <2>2, <2>3 DEF TiledBy
<1>9. JoinedIn(path)
  BY <1>5, <1>7 DEF JoinedIn, IsRewritten, Untouched
<1>10. Scanning
  <2>1. \A k \in Fresh .. Len(path) : Untouched(path[k])
    <3>1. Fresh = 1
      BY <1>1 DEF Fresh
    <3> QED BY <1>5, <1>7, <3>1
  <2>2. i \in 0 .. Len(path) /\ begin \in 0 .. i
    BY <1>1, <1>2, <1>5 DEF NoRun
  <2> QED BY <1>1, <2>1, <2>2 DEF Scanning
<1> QED BY <1>1, <1>8, <1>9, <1>10 DEF NumeralInv

(* Which steps a run and the path are read in.                             *)
LEMMA NumericNodeStep ==
  ASSUME NumeralInv, NumericNode
  PROVE  Scanning'
<1> DEFINE t == Current.norm
           p == AppendAll(RunParser, t)
<1>1. /\ pc = "scan" /\ i < Len(path) /\ parser' = p /\ path' = path /\ original' = original
      /\ IF p.ok THEN begin' = (IF begin = NoRun THEN i + 1 ELSE begin) /\ i' = i + 1
         ELSE begin' = NoRun /\ i' = IF p.error = "none" THEN i + 1
                                     ELSE IF begin = NoRun THEN i ELSE begin - 1
  BY DEF NumericNode, ReadAgain, input
<1>2. /\ TiledBy(path) /\ i \in 0 .. Len(path) /\ begin \in 0 .. i
      /\ \A k \in Fresh .. Len(path) : Untouched(path[k])
      /\ begin # NoRun => /\ parser = AppendAll(NewParser, Norms(SubSeq(path, begin, i)))
                          /\ parser.ok /\ path[begin].norm \notin Separators
  BY <1>1 DEF NumeralInv, Scanning
<1>3. /\ Len(path) \in Nat /\ path \in Seq(PathNode)
      /\ \A k \in 1 .. Len(path) : path[k].norm \in Seq(Int)
  BY <1>2, TiledFacts DEF TiledBy
<1>4. i \in Nat /\ begin \in Nat /\ i + 1 \in 1 .. Len(path) /\ t = path[i + 1].norm /\ t \in Seq(Int)
  BY <1>1, <1>2, <1>3 DEF Current
<1>5. \A k \in Fresh' .. Len(path) : k \in Fresh .. Len(path)
  BY <1>1, <1>2, <1>3, <1>4 DEF Fresh, NoRun
<1>6. \A k \in Fresh' .. Len(path') : Untouched(path[k])'
  <2> SUFFICES ASSUME NEW k \in Fresh' .. Len(path') PROVE Untouched(path[k])'
    OBVIOUS
  <2>1. Untouched(path[k])
    BY <1>1, <1>2, <1>5
  <2> QED BY <1>1, <2>1 DEF Untouched
<1>7. i' \in 0 .. Len(path) /\ begin' \in 0 .. i'
  BY <1>1, <1>2, <1>3, <1>4 DEF NoRun
<1>8. ASSUME p.ok
      PROVE  /\ p = AppendAll(NewParser, Norms(SubSeq(path, begin', i')))
             /\ path[begin'].norm \notin Separators
  <2>1. i' = i + 1 /\ begin' = IF begin = NoRun THEN i + 1 ELSE begin
    BY <1>1, <1>8
  <2>2. CASE begin = NoRun
    <3>1. p = AppendAll(NewParser, t)
      BY <2>2 DEF RunParser
    <3>2. Norms(SubSeq(path, i + 1, i + 1)) = t
      <4>1. i + 1 \in i + 1 .. Len(path)
        BY <1>3, <1>4
      <4> QED BY <1>3, <1>4, <4>1, NormsNext
    <3>3. t \notin Separators
      BY <1>8, <3>1, SeparatorAlone
    <3> QED BY <1>4, <2>1, <2>2, <3>1, <3>2, <3>3
  <2>3. CASE begin # NoRun
    <3> DEFINE a == Norms(SubSeq(path, begin, i))
    <3>1. parser = AppendAll(NewParser, a) /\ parser.ok /\ p = AppendAll(parser, t)
      BY <1>2, <2>3 DEF RunParser
    <3>2. begin \in 1 .. Len(path) /\ i + 1 \in begin .. Len(path) /\ (i + 1) - 1 = i
      BY <1>1, <1>2, <1>3, <1>4, <2>3 DEF NoRun
    <3>3. Norms(SubSeq(path, begin, i + 1)) = a \o t /\ a \in Seq(Int)
      <4>1. /\ Norms(SubSeq(path, begin, i + 1)) = Norms(SubSeq(path, begin, (i + 1) - 1)) \o path[i + 1].norm
            /\ Norms(SubSeq(path, begin, (i + 1) - 1)) \in Seq(Int)
        BY <1>3, <3>2, NormsNext
      <4> QED BY <1>4, <3>2, <4>1
    <3> HIDE DEF a
    <3>4. AppendAll(NewParser, a \o t) = AppendAll(AppendAll(NewParser, a), t)
      BY <1>4, <3>1, <3>3, NewParserType, AppendAllConcat
    <3> QED BY <1>2, <2>1, <2>3, <3>1, <3>3, <3>4
  <2> QED BY <2>2, <2>3
<1>9. begin' # NoRun => p.ok
  BY <1>1
<1> HIDE DEF p
<1> QED BY <1>1, <1>6, <1>7, <1>8, <1>9 DEF Scanning

(* The path covers the same nodes in the next state.                       *)
LEMMA TiledStays ==
  ASSUME UNCHANGED <<original, normalize>>, TiledBy(path')
  PROVE  TiledBy(path)'
BY DEF TiledBy, Within

(* A node of the original path is one in the next state.                   *)
LEMMA UntouchedStays ==
  ASSUME UNCHANGED <<original, normalize>>, NEW k, Untouched(path'[k])
  PROVE  Untouched(path[k])'
BY DEF Untouched

(* What joined nodes are read from is the same in the next state.          *)
LEMMA JoinedStays ==
  ASSUME UNCHANGED <<original, normalize>>, JoinedIn(path')
  PROVE  JoinedIn(path)'
BY DEF JoinedIn, CutOff, IsRewritten, IsNumber, ReadsOwnText, OnlySumFails, TextOf

(* Every step of both rewriters keeps the invariant.                       *)
LEMMA NumeralStep == NumeralInv /\ [KatakanaNext]_katakanaVars => NumeralInv'
<1> SUFFICES ASSUME NumeralInv, [KatakanaNext]_katakanaVars PROVE NumeralInv'
  OBVIOUS
<1>1. /\ original \in Paths /\ normalize \in BOOLEAN
      /\ pc \in {"scan", "done", "katakana", "rewritten"}
      /\ TiledBy(path) /\ JoinedIn(path) /\ (pc = "scan" => Scanning)
  BY DEF NumeralInv
<1>2. original' = original /\ normalize' = normalize
  BY DEF KatakanaNext, katakanaVars, vars, input, scan, Next, NumericNode, OtherNode, LastPart,
         NextRewriter, PassNode, JoinRun, Rewritten
<1>3. ASSUME path' = path, pc' \in {"scan", "done", "katakana", "rewritten"}, pc' = "scan" => Scanning'
      PROVE  NumeralInv'
  <2>1. TiledBy(path') /\ JoinedIn(path')
    BY <1>1, <1>3
  <2>2. TiledBy(path)' /\ JoinedIn(path)'
    BY <1>2, <2>1, TiledStays, JoinedStays
  <2> QED BY <1>1, <1>2, <1>3, <2>2 DEF NumeralInv
<1>4. CASE UNCHANGED katakanaVars
  <2>1. path' = path /\ pc' = pc /\ i' = i /\ begin' = begin /\ parser' = parser
    BY <1>4 DEF katakanaVars, vars, scan
  <2>2. Scanning => Scanning'
    BY <1>2, <2>1 DEF Scanning, Fresh, Untouched
  <2> QED BY <1>1, <1>3, <2>1, <2>2
<1>5. CASE NumericNode
  <2>1. path' = path /\ pc' = "scan"
    BY <1>5 DEF NumericNode
  <2>2. Scanning'
    BY <1>5, NumericNodeStep
  <2> QED BY <1>3, <2>1, <2>2
<1>6. CASE OtherNode
  <2>1. pc = "scan" /\ i < Len(path) /\ Scanning /\ begin' = NoRun
    BY <1>1, <1>6 DEF OtherNode
  <2>2. Len(path) \in Nat /\ i \in 0 .. Len(path)
    BY <1>1, <2>1, TiledFacts DEF Scanning
  <2>3. CASE begin = NoRun
    <3>1. path' = path /\ pc' = "scan" /\ i' = i + 1
      BY <1>6, <2>1, <2>3 DEF OtherNode
    <3>2. \A k \in Fresh' .. Len(path') : Untouched(path[k])'
      <4> SUFFICES ASSUME NEW k \in Fresh' .. Len(path') PROVE Untouched(path[k])'
        OBVIOUS
      <4>1. k \in Fresh .. Len(path)
        BY <2>1, <2>2, <2>3, <3>1 DEF Fresh
      <4>2. Untouched(path'[k])
        BY <2>1, <3>1, <4>1 DEF Scanning
      <4> QED BY <1>2, <4>2, UntouchedStays
    <3>3. i' \in 0 .. Len(path') /\ begin' \in 0 .. i'
      BY <2>1, <2>2, <3>1 DEF NoRun
    <3> QED BY <1>3, <2>1, <3>1, <3>2, <3>3 DEF Scanning
  <2>4. CASE begin # NoRun
    <3> DEFINE p == Done(parser)
               w == EndRun(p, i)[1]
               j == EndRun(p, i)[2]
    <3>1. /\ ~ Fails(p, i) /\ TiledBy(w) /\ JoinedIn(w)
          /\ j \in 0 .. Len(w) /\ \A k \in j + 1 .. Len(w) : Untouched(w[k])
      BY <2>1, <2>4, EndRunFacts
    <3>2. path' = w /\ i' = j /\ pc' = "scan"
      BY <1>6, <2>4, <3>1 DEF OtherNode
    <3> HIDE DEF w, j
    <3>3. TiledBy(path)' /\ JoinedIn(path)'
      BY <1>2, <3>1, <3>2, TiledStays, JoinedStays
    <3>4. \A k \in Fresh' .. Len(path') : Untouched(path[k])'
      <4> SUFFICES ASSUME NEW k \in Fresh' .. Len(path') PROVE Untouched(path[k])'
        OBVIOUS
      <4>1. k \in j + 1 .. Len(w)
        BY <2>1, <3>2 DEF Fresh
      <4>2. Untouched(path'[k])
        BY <3>1, <3>2, <4>1
      <4> QED BY <1>2, <4>2, UntouchedStays
    <3>5. i' \in 0 .. Len(path') /\ begin' \in 0 .. i'
      BY <2>1, <3>1, <3>2 DEF NoRun
    <3>6. Scanning'
      BY <2>1, <3>4, <3>5 DEF Scanning
    <3> QED BY <1>1, <1>2, <3>2, <3>3, <3>6 DEF NumeralInv
  <2> QED BY <2>3, <2>4
<1>7. CASE LastPart
  <2>1. pc = "scan" /\ Scanning
    BY <1>1, <1>7 DEF LastPart
  <2>2. CASE begin = NoRun
    <3>1. path' = path /\ pc' = "done"
      BY <1>7, <2>2 DEF LastPart
    <3> QED BY <1>3, <3>1
  <2>3. CASE begin # NoRun
    <3> DEFINE p == Done(parser)
               w == EndRun(p, i)[1]
    <3>1. ~ Fails(p, i) /\ TiledBy(w) /\ JoinedIn(w)
      BY <2>1, <2>3, EndRunFacts
    <3>2. path' = w /\ pc' = "done"
      BY <1>7, <2>3, <3>1 DEF LastPart
    <3> HIDE DEF w
    <3>3. TiledBy(path)' /\ JoinedIn(path)'
      BY <1>2, <3>1, <3>2, TiledStays, JoinedStays
    <3> QED BY <1>1, <1>2, <3>2, <3>3 DEF NumeralInv
  <2> QED BY <2>2, <2>3
<1>8. CASE NextRewriter
  <2>1. path' = path /\ pc' = "katakana"
    BY <1>8 DEF NextRewriter
  <2> QED BY <1>3, <2>1
<1>9. CASE PassNode \/ JoinRun
  <2>1. path' = path /\ pc' = "katakana"
    BY <1>9 DEF PassNode, JoinRun, vars
  <2> QED BY <1>3, <2>1
<1>10. CASE Rewritten
  <2>1. path' = path /\ pc' = "rewritten"
    BY <1>10 DEF Rewritten
  <2> QED BY <1>3, <2>1
<1> QED BY <1>4, <1>5, <1>6, <1>7, <1>8, <1>9, <1>10 DEF KatakanaNext, Next

(* At every moment the path covers the original one, what was joined was   *)
(* read from its own text, and the parser has read the run that is open    *)
(* and nothing else.                                                       *)
THEOREM NumeralInvHolds == RewriteSpec => []NumeralInv
BY NumeralInit, NumeralStep, PTL DEF RewriteSpec

(* JoinedReadsItsText holds of all paths: the form of a joined node is what*)
(* its own text, parsed alone, is read to, and nothing else; and the text  *)
(* is a number, or units before a separator whose sum fails                *)
(* (JoinNumericPlugin::rewrite_gen with its one parser, concat,            *)
(* concat_nodes).                                                          *)
THEOREM JoinedNumbersReadTheirText == RewriteSpec => []JoinedReadsItsText
<1>1. NumeralInv => JoinedReadsItsText
  <2> SUFFICES ASSUME NumeralInv PROVE JoinedReadsItsText
    OBVIOUS
  <2>1. TiledBy(path) /\ JoinedIn(path) /\ (pc = "scan" => Scanning)
    BY DEF NumeralInv
  <2>2. DOMAIN path = 1 .. Len(path)
    BY <2>1, TiledFacts
  <2>3. PathKeepsNodes
    BY <2>1, <2>2 DEF PathKeepsNodes, TiledBy, Within, Scanning
  <2>4. ASSUME NEW k \in DOMAIN path, IsRewritten(path[k])
        PROVE  /\ ReadsOwnText(path[k])
               /\ IsNumber(path[k]) \/ (OnlySumFails(path[k]) /\ BeforeSeparator(k))
    <3>1. CutOff(path, k) => BeforeSeparator(k)
      BY DEF CutOff, BeforeSeparator, Separators
    <3> QED BY <2>1, <2>2, <2>4, <3>1 DEF JoinedIn
  <2> QED BY <2>3, <2>4 DEF JoinedReadsItsText
<1> QED BY <1>1, NumeralInvHolds, PTL

(* concat_nodes is never called for an empty range: a run does not begin   *)
(* with the separator it is cut before, so the rewriting does not fail.    *)
THEOREM SomethingIsJoined == RewriteSpec => [](pc # "error")
<1>1. NumeralInv => pc # "error"
  BY DEF NumeralInv
<1> QED BY <1>1, NumeralInvHolds, PTL
-----------------------------------------------------------------------------
(***************************************************************************)
(* The joining of katakana.  Where a run of them lies is a matter of the   *)
(* characters, whatever nodes they are in.                                 *)
(***************************************************************************)
WordNode == [first : Int, last : Int]

(* The nodes of p cover the original path, whatever else they hold.        *)
Covering(V, p) ==
  /\ p \in Seq(V) /\ p # << >>
  /\ p[1].first = 1 /\ p[Len(p)].last = Len(original)
  /\ \A k \in 1 .. Len(p) : p[k].first \in Int /\ p[k].last \in Int /\ Within(p[k])
  /\ \A k \in 1 .. Len(p) - 1 : p[k + 1].first = p[k].last + 1

(* Katakana from f to l; two nodes with nothing but katakana between them. *)
KatakanaFrom(f, l) == \A c \in f .. l : "KATAKANA" \in original[c].cats
OneRun(n, m) == KatakanaFrom(n.first, m.last) /\ KatakanaFrom(m.first, n.last)

(* Whether a node asks depends on the original path only.                  *)
LEMMA AsksStays ==
  ASSUME UNCHANGED original, NEW CONSTANT n
  PROVE  Asks(n)' <=> Asks(n)
<1>1. IsOov(n)' <=> IsOov(n)
  BY DEF IsOov
<1>2. IsKatakana(n)' <=> IsKatakana(n)
  BY DEF IsKatakana, SharedCats
<1>3. IsShort(n)' <=> IsShort(n)
  <2>1. Lengths(n)' = Lengths(n)
    BY DEF Lengths
  <2> QED BY <2>1, Zenon DEF IsShort
<1> QED BY <1>1, <1>2, <1>3 DEF Asks

(* The path that numbers are joined in covers the original one.            *)
LEMMA IsPathCovering ==
  ASSUME NEW p, TiledBy(p)
  PROVE  Covering(PathNode, p)
BY TiledFacts DEF TiledBy, Covering

(* What covers it is a sequence of nodes within it.                        *)
LEMMA CoveringFacts ==
  ASSUME NEW V, NEW p, Covering(V, p)
  PROVE  /\ Len(p) \in Nat /\ 1 <= Len(p) /\ DOMAIN p = 1 .. Len(p)
         /\ \A k \in 1 .. Len(p) :
              /\ p[k] \in V /\ p[k].first \in Int /\ p[k].last \in Int
              /\ 1 <= p[k].first /\ p[k].first <= p[k].last /\ p[k].last <= Len(original)
<1>1. p \in Seq(V) /\ p # << >>
  BY DEF Covering
<1>2. Len(p) \in Nat /\ Len(p) # 0 /\ DOMAIN p = 1 .. Len(p)
  BY <1>1, LenProperties, EmptySeq
<1>3. \A k \in 1 .. Len(p) : p[k] \in V
  BY <1>1, ElementOfSeq
<1> QED BY <1>2, <1>3 DEF Covering, Within

(* Nodes come in their order.                                              *)
LEMMA CoveringOrder ==
  ASSUME NEW V, NEW p, Covering(V, p), original \in Paths,
         NEW a \in 1 .. Len(p), NEW b \in 1 .. Len(p), a < b
  PROVE  p[a].last < p[b].first
<1> DEFINE n == Len(p)
           S == {k \in a + 1 .. n : p[a].last < p[k].first}
<1>1. /\ n \in Nat /\ a \in Nat /\ b \in a + 1 .. n /\ a + 1 \in Nat
      /\ \A k \in 1 .. n : p[k].first \in Int /\ p[k].last \in Int /\ p[k].first <= p[k].last
  BY CoveringFacts
<1>2. \A k \in 1 .. n - 1 : p[k + 1].first = p[k].last + 1
  BY DEF Covering
<1> HIDE DEF n
<1>3. a + 1 <= n => a + 1 \in S
  <2> SUFFICES ASSUME a + 1 <= n PROVE a + 1 \in S
    OBVIOUS
  <2>1. a \in 1 .. n - 1 /\ a \in 1 .. n /\ a + 1 \in 1 .. n /\ a + 1 \in a + 1 .. n
    BY <1>1
  <2>2. p[a].last < p[a + 1].first
    BY <1>1, <1>2, <2>1
  <2> QED BY <2>1, <2>2
<1>4. \A k \in (a + 1) + 1 .. n : k - 1 \in S => k \in S
  <2> SUFFICES ASSUME NEW k \in (a + 1) + 1 .. n, k - 1 \in S PROVE k \in S
    OBVIOUS
  <2>1. k - 1 \in 1 .. n - 1 /\ k - 1 \in 1 .. n /\ k \in 1 .. n /\ a \in 1 .. n
        /\ k \in a + 1 .. n /\ (k - 1) + 1 = k
    BY <1>1
  <2>2. p[k].first = p[k - 1].last + 1
    BY <1>2, <2>1
  <2>3. p[a].last < p[k].first
    BY <1>1, <2>1, <2>2
  <2> QED BY <2>1, <2>3
<1>5. \A k \in a + 1 .. n : k \in S
  <2> HIDE DEF S
  <2> QED BY <1>1, <1>3, <1>4, ByStep
<1> QED BY <1>1, <1>5

(* Where the characters of a node are katakana, so is the node.            *)
LEMMA KatakanaNode ==
  ASSUME NEW n, n.first \in Int, n.last \in Int, n.first <= n.last
  PROVE  IsKatakana(n) <=> KatakanaFrom(n.first, n.last)
BY DEF IsKatakana, SharedCats, KatakanaFrom

(* Nodes between katakana are katakana.                                    *)
LEMMA KatakanaParts ==
  ASSUME original \in Paths, NEW V, NEW p, Covering(V, p),
         NEW b \in 1 .. Len(p), NEW e \in 1 .. Len(p), NEW k \in b .. e,
         KatakanaFrom(p[b].first, p[e].last)
  PROVE  IsKatakana(p[k])
<1>1. /\ Len(p) \in Nat /\ b \in Nat /\ e \in Nat /\ k \in 1 .. Len(p) /\ b <= k /\ k <= e
      /\ \A m \in 1 .. Len(p) : p[m].first \in Int /\ p[m].last \in Int /\ p[m].first <= p[m].last
  BY CoveringFacts
<1>2. p[b].first <= p[k].first
  <2>1. CASE b = k
    BY <1>1, <2>1
  <2>2. CASE b < k
    <3>1. p[b].last < p[k].first
      BY <1>1, <2>2, CoveringOrder
    <3> QED BY <1>1, <3>1
  <2> QED BY <1>1, <2>1, <2>2
<1>3. p[k].last <= p[e].last
  <2>1. CASE k = e
    BY <1>1, <2>1
  <2>2. CASE k < e
    <3>1. p[k].last < p[e].first
      BY <1>1, <2>2, CoveringOrder
    <3> QED BY <1>1, <3>1
  <2> QED BY <1>1, <2>1, <2>2
<1>4. KatakanaFrom(p[k].first, p[k].last)
  BY <1>1, <1>2, <1>3 DEF KatakanaFrom
<1> QED BY <1>1, <1>4, KatakanaNode

(* Nodes of katakana are katakana from the first to the last.              *)
LEMMA KatakanaWhole ==
  ASSUME original \in Paths, NEW V, NEW p, Covering(V, p),
         NEW b \in 1 .. Len(p), NEW e \in b .. Len(p), AllKatakana(p, b, e)
  PROVE  KatakanaFrom(p[b].first, p[e].last)
<1> DEFINE S == {k \in b .. e : KatakanaFrom(p[b].first, p[k].last)}
<1>1. /\ Len(p) \in Nat /\ b \in Nat /\ e \in Nat /\ b <= e /\ e <= Len(p) /\ 1 <= b
      /\ \A m \in 1 .. Len(p) : p[m].first \in Int /\ p[m].last \in Int /\ p[m].first <= p[m].last
  BY CoveringFacts
<1>2. \A k \in b .. e : KatakanaFrom(p[k].first, p[k].last)
  <2> SUFFICES ASSUME NEW k \in b .. e PROVE KatakanaFrom(p[k].first, p[k].last)
    OBVIOUS
  <2>1. k \in 1 .. Len(p) /\ IsKatakana(p[k])
    BY <1>1 DEF AllKatakana
  <2> QED BY <1>1, <2>1, KatakanaNode
<1>3. b \in S
  BY <1>1, <1>2
<1>4. \A k \in b + 1 .. e : k - 1 \in S => k \in S
  <2> SUFFICES ASSUME NEW k \in b + 1 .. e, k - 1 \in S PROVE k \in S
    OBVIOUS
  <2>1. k - 1 \in 1 .. Len(p) - 1 /\ k \in 1 .. Len(p) /\ (k - 1) + 1 = k /\ k \in b .. e
    BY <1>1
  <2>2. p[k].first = p[k - 1].last + 1
    BY <2>1 DEF Covering
  <2>3. KatakanaFrom(p[b].first, p[k - 1].last) /\ KatakanaFrom(p[k].first, p[k].last)
    BY <1>2, <2>1
  <2>4. p[b].first \in Int /\ p[k - 1].last \in Int /\ p[k].first \in Int /\ p[k].last \in Int
    BY <1>1, <2>1
  <2>5. KatakanaFrom(p[b].first, p[k].last)
    BY <2>2, <2>3, <2>4 DEF KatakanaFrom
  <2> QED BY <2>1, <2>5
<1>5. \A k \in b .. e : k \in S
  <2> HIDE DEF S
  <2> QED BY <1>1, <1>3, <1>4, ByStep
<1> QED BY <1>1, <1>5

(* The first and the last of some nodes of katakana are in one run.        *)
LEMMA OneRunWhole ==
  ASSUME original \in Paths, NEW V, NEW p, Covering(V, p),
         NEW b \in 1 .. Len(p), NEW e \in b .. Len(p), AllKatakana(p, b, e)
  PROVE  OneRun(p[b], p[e]) /\ OneRun(p[e], p[b])
<1>1. KatakanaFrom(p[b].first, p[e].last)
  BY KatakanaWhole
<1>2. /\ b \in Nat /\ e \in Nat /\ b <= e /\ e \in 1 .. Len(p)
      /\ \A m \in 1 .. Len(p) : p[m].first \in Int /\ p[m].last \in Int
  BY CoveringFacts
<1>3. KatakanaFrom(p[e].first, p[b].last)
  <2>1. CASE b = e
    BY <1>1, <2>1
  <2>2. CASE b < e
    <3>1. p[b].last < p[e].first
      BY <1>2, <2>2, CoveringOrder
    <3> QED BY <1>2, <3>1 DEF KatakanaFrom
  <2> QED BY <1>2, <2>1, <2>2
<1> QED BY <1>1, <1>3 DEF OneRun

(* The run around a node of katakana, to the front and to the end.         *)
LEMMA RunBeginFacts ==
  ASSUME NEW p, Len(p) \in Nat, NEW m \in 1 .. Len(p), IsKatakana(p[m])
  PROVE  /\ RunBegin(p, m) \in 1 .. m /\ AllKatakana(p, RunBegin(p, m), m)
         /\ RunBegin(p, m) > 1 => ~ IsKatakana(p[RunBegin(p, m) - 1])
<1> DEFINE T == {b \in 1 .. m : AllKatakana(p, b, m)}
<1>1. m \in T
  BY DEF AllKatakana
<1>2. PICK b \in T : \A c \in T : b <= c
  <2>1. T \subseteq Nat /\ T # {}
    BY <1>1
  <2> HIDE DEF T
  <2> QED BY <2>1, LeastNatural
<1>3. b > 1 => ~ IsKatakana(p[b - 1])
  <2> SUFFICES ASSUME b > 1, IsKatakana(p[b - 1]) PROVE FALSE
    OBVIOUS
  <2>1. b - 1 \in 1 .. m /\ \A k \in b - 1 .. m : k = b - 1 \/ k \in b .. m
    BY <1>2
  <2>2. AllKatakana(p, b - 1, m)
    BY <1>2, <2>1 DEF AllKatakana
  <2>3. b <= b - 1
    BY <1>2, <2>1, <2>2
  <2> QED BY <1>2, <2>3
<1> DEFINE P(x) == AllKatakana(p, x, m) /\ (x > 1 => ~ IsKatakana(p[x - 1]))
<1>4. b \in 1 .. m /\ P(b)
  BY <1>2, <1>3
<1>5. RunBegin(p, m) = CHOOSE x \in 1 .. m : P(x)
  BY DEF RunBegin
<1> HIDE DEF P
<1>6. RunBegin(p, m) \in 1 .. m /\ P(RunBegin(p, m))
  BY <1>4, <1>5, Zenon
<1> QED BY <1>6 DEF P

(* The same to the end.                                                    *)
LEMMA RunEndFacts ==
  ASSUME NEW p, Len(p) \in Nat, NEW m \in 1 .. Len(p), IsKatakana(p[m])
  PROVE  /\ RunEnd(p, m) \in m .. Len(p) /\ AllKatakana(p, m, RunEnd(p, m))
         /\ RunEnd(p, m) < Len(p) => ~ IsKatakana(p[RunEnd(p, m) + 1])
<1> DEFINE T == {e \in m .. Len(p) : e < Len(p) => ~ IsKatakana(p[e + 1])}
<1>1. Len(p) \in T
  OBVIOUS
<1>2. PICK e \in T : \A c \in T : e <= c
  <2>1. T \subseteq Nat /\ T # {}
    BY <1>1
  <2> HIDE DEF T
  <2> QED BY <2>1, LeastNatural
<1>3. ASSUME NEW k \in m .. e PROVE IsKatakana(p[k])
  <2>1. CASE k = m
    BY <2>1
  <2>2. CASE k # m
    <3>1. k - 1 \in m .. Len(p) /\ k - 1 < e /\ (k - 1) + 1 = k
      BY <1>2, <2>2
    <3>2. ASSUME ~ IsKatakana(p[k]) PROVE FALSE
      <4>1. ~ IsKatakana(p[(k - 1) + 1])
        BY <3>1, <3>2, Zenon
      <4>2. k - 1 \in T
        BY <3>1, <4>1, Zenon
      <4>3. e <= k - 1
        BY <1>2, <4>2
      <4> QED BY <1>2, <3>1, <4>3
    <3> QED BY <3>2
  <2> QED BY <2>1, <2>2
<1> DEFINE P(x) == AllKatakana(p, m, x) /\ (x < Len(p) => ~ IsKatakana(p[x + 1]))
<1>4. e \in m .. Len(p) /\ P(e)
  BY <1>2, <1>3 DEF AllKatakana
<1>5. RunEnd(p, m) = CHOOSE x \in m .. Len(p) : P(x)
  BY DEF RunEnd
<1> HIDE DEF P
<1>6. RunEnd(p, m) \in m .. Len(p) /\ P(RunEnd(p, m))
  BY <1>4, <1>5, Zenon
<1> QED BY <1>6 DEF P

(* The first node of the run that may begin an unknown word.               *)
LEMMA WordBeginFacts ==
  ASSUME NEW p, Len(p) \in Nat, NEW m \in 1 .. Len(p), IsKatakana(p[m])
  PROVE  /\ WordBegin(p, m) \in RunBegin(p, m) .. RunEnd(p, m) + 1
         /\ \A n \in RunBegin(p, m) .. WordBegin(p, m) - 1 : ~ CanBeginUnknown(p[n])
         /\ WordBegin(p, m) <= RunEnd(p, m) => CanBeginUnknown(p[WordBegin(p, m)])
<1> DEFINE B == RunBegin(p, m)
           E == RunEnd(p, m)
           T == {b \in B .. E + 1 : b = E + 1 \/ CanBeginUnknown(p[b])}
<1>1. B \in Nat /\ E \in Nat /\ B <= m /\ m <= E /\ E <= Len(p) /\ 1 <= B
  BY RunBeginFacts, RunEndFacts
<1> HIDE DEF B, E
<1>2. E + 1 \in T
  <2>1. E + 1 \in B .. E + 1 /\ ~(E + 1 <= E)
    BY <1>1
  <2> QED BY <2>1, Zenon
<1>3. PICK b \in T : \A c \in T : b <= c
  <2>1. T \subseteq Nat /\ T # {}
    BY <1>1, <1>2
  <2> HIDE DEF T
  <2> QED BY <2>1, LeastNatural
<1>4. ASSUME NEW n \in B .. b - 1 PROVE ~ CanBeginUnknown(p[n])
  <2>1. n \in B .. E + 1 /\ n <= E /\ ~(b <= n)
    BY <1>1, <1>3
  <2>2. ~(n \in T)
    BY <1>3, <2>1
  <2> QED BY <2>1, <2>2
<1> DEFINE P(x) == /\ \A n \in B .. x - 1 : ~ CanBeginUnknown(p[n])
                   /\ x <= E => CanBeginUnknown(p[x])
<1>5. b \in B .. E + 1 /\ P(b)
  <2>1. b \in B .. E + 1 /\ (b = E + 1 \/ CanBeginUnknown(p[b]))
    BY <1>3, Zenon
  <2>2. b <= E => b # E + 1
    BY <1>1
  <2> QED BY <1>4, <2>1, <2>2, Zenon
<1>6. WordBegin(p, m) = CHOOSE x \in B .. E + 1 : P(x)
  BY DEF WordBegin, B, E
<1> HIDE DEF P
<1>7. WordBegin(p, m) \in B .. E + 1 /\ P(WordBegin(p, m))
  BY <1>5, <1>6, Zenon
<1> QED BY <1>7 DEF P, B, E
-----------------------------------------------------------------------------
(* A node of the path the scan of katakana began with.                     *)
IsPart(n) == \E a \in 1 .. Len(path) : path[a].first = n.first /\ path[a].last = n.last

(* The run of the path that node n begins in has one that asks for it.     *)
Asked(n) ==
  \E a \in 1 .. Len(path) : path[a].first = n.first /\
    \E c \in 1 .. Len(path) : OneRun(path[a], path[c]) /\ Asks(path[c])

(* Node m of p was joined, and the run ends with it.                       *)
IsWord(p, m) ==
  /\ p[m].first # p[m].last /\ IsKatakana(p[m]) /\ CanBeginUnknown(p[m]) /\ Asked(p[m])
  /\ m < Len(p) => ~ IsKatakana(p[m + 1])

(* What the scan has done when r nodes of p are passed: a node in a run of *)
(* katakana that might begin a word and does not end the run has no node   *)
(* in its run that asked.                                                  *)
WordsFrom(p, r) == \A m \in 1 .. Len(p) : IsPart(p[m]) \/ (m <= r /\ IsWord(p, m))
NothingAsked(p, r) ==
  \A m, k \in 1 .. Len(p) :
    m < Len(p) /\ IsKatakana(p[m + 1]) /\ CanBeginUnknown(p[m]) /\ k <= r /\ OneRun(p[m], p[k])
      => ~ Asks(p[k])

KatakanaInv ==
  /\ pc \in {"scan", "done"} => read = 0
  /\ pc \in {"katakana", "rewritten"} =>
       Covering(WordNode, words) /\ WordsFrom(words, read) /\ NothingAsked(words, read)
  /\ pc = "rewritten" => read >= Len(words)
  /\ read \in Nat

(* The parts of the invariant in the next state.                           *)
LEMMA CoveringStays ==
  ASSUME UNCHANGED original, Covering(WordNode, words') PROVE Covering(WordNode, words)'
BY DEF Covering, Within

(* Neither do katakana and their runs change.                              *)
LEMMA NodeStays ==
  ASSUME UNCHANGED original, NEW CONSTANT n, NEW CONSTANT m
  PROVE  /\ IsKatakana(n)' <=> IsKatakana(n)
         /\ CanBeginUnknown(n)' <=> CanBeginUnknown(n)
         /\ OneRun(n, m)' <=> OneRun(n, m)
BY DEF IsKatakana, SharedCats, CanBeginUnknown, OneRun, KatakanaFrom

(* What was joined stays joined in the next state.                         *)
LEMMA WordsStay ==
  ASSUME UNCHANGED <<original, path>>, WordsFrom(words', read') PROVE WordsFrom(words, read)'
<1>1. ASSUME NEW CONSTANT n PROVE /\ IsPart(n) => IsPart(n)'
                                  /\ Asked(n) => Asked(n)'
  <2>1. IsPart(n) => IsPart(n)'
    BY DEF IsPart
  <2>2. ASSUME Asked(n) PROVE Asked(n)'
    <3>1. PICK a \in 1 .. Len(path) : path[a].first = n.first /\
            \E c \in 1 .. Len(path) : OneRun(path[a], path[c]) /\ Asks(path[c])
      BY <2>2 DEF Asked
    <3>2. PICK c \in 1 .. Len(path) : OneRun(path[a], path[c]) /\ Asks(path[c])
      BY <3>1
    <3>3. PICK x, y : x = path[a] /\ y = path[c]
      OBVIOUS
    <3>4. OneRun(x, y)' /\ Asks(y)'
      BY <3>2, <3>3, NodeStays, AsksStays
    <3>5. x = path'[a] /\ y = path'[c] /\ path' = path
      BY <3>3
    <3> QED BY <3>1, <3>4, <3>5 DEF Asked
  <2> QED BY <2>1, <2>2
<1>2. ASSUME NEW m \in 1 .. Len(words'), IsWord(words', m) PROVE IsWord(words, m)'
  <2>1. PICK x, y : x = words'[m] /\ y = words'[m + 1]
    OBVIOUS
  <2>2. /\ x.first # x.last /\ IsKatakana(x) /\ CanBeginUnknown(x) /\ Asked(x)
        /\ m < Len(words') => ~ IsKatakana(y)
    BY <1>2, <2>1 DEF IsWord
  <2>3. IsKatakana(x)' /\ CanBeginUnknown(x)' /\ Asked(x)' /\ (m < Len(words') => ~ IsKatakana(y)')
    BY <1>1, <2>2, NodeStays
  <2> QED BY <2>1, <2>2, <2>3 DEF IsWord
<1>3. ASSUME NEW m \in 1 .. Len(words'), IsPart(words'[m]) PROVE IsPart(words[m])'
  BY <1>3 DEF IsPart
<1>4. \A m \in 1 .. Len(words') : IsPart(words'[m]) \/ (m <= read' /\ IsWord(words', m))
  BY DEF WordsFrom
<1>5. \A m \in 1 .. Len(words') : IsPart(words[m])' \/ (m <= read' /\ IsWord(words, m)')
  BY <1>2, <1>3, <1>4
<1> QED BY <1>5 DEF WordsFrom

(* Where no node asked before, none does in the next state.                *)
LEMMA NothingStays ==
  ASSUME UNCHANGED original, NothingAsked(words', read') PROVE NothingAsked(words, read)'
<1>1. ASSUME NEW m \in 1 .. Len(words'), NEW k \in 1 .. Len(words'), m < Len(words'), k <= read',
             IsKatakana(words[m + 1])', CanBeginUnknown(words[m])', OneRun(words[m], words[k])'
      PROVE  ~ Asks(words[k])'
  <2>1. PICK x, y, z : x = words'[m] /\ y = words'[m + 1] /\ z = words'[k]
    OBVIOUS
  <2>2. IsKatakana(y)' /\ CanBeginUnknown(x)' /\ OneRun(x, z)'
    BY <1>1, <2>1
  <2>3. IsKatakana(y) /\ CanBeginUnknown(x) /\ OneRun(x, z)
    BY <2>2, NodeStays
  <2>4. ~ Asks(z)
    BY <1>1, <2>1, <2>3 DEF NothingAsked
  <2>5. ~ Asks(z)'
    BY <2>4, AsksStays
  <2> QED BY <2>1, <2>5
<1> QED BY <1>1 DEF NothingAsked
-----------------------------------------------------------------------------
(* The scan begins with the nodes of the path.                             *)
LEMMA WordsAtStart ==
  ASSUME TiledBy(path), NEW p,
         p = [m \in DOMAIN path |-> [first |-> path[m].first, last |-> path[m].last]]
  PROVE  Covering(WordNode, p) /\ WordsFrom(p, 0) /\ NothingAsked(p, 0)
<1> DEFINE n == Len(path)
           node(m) == [first |-> path[m].first, last |-> path[m].last]
<1>1. /\ n \in Nat /\ 1 <= n /\ DOMAIN path = 1 .. n
      /\ \A m \in 1 .. n : path[m].first \in Int /\ path[m].last \in Int
  BY TiledFacts
<1>2. p = [m \in 1 .. n |-> node(m)]
  BY <1>1
<1>3. \A m \in 1 .. n : node(m) \in WordNode
  BY <1>1 DEF WordNode
<1>4. p \in Seq(WordNode) /\ Len(p) = n
  <2>1. p \in Seq(WordNode)
    <3> HIDE DEF n, node
    <3>1. [m \in 1 .. n |-> node(m)] \in Seq(WordNode)
      BY <1>1, <1>3, IsASeq
    <3> QED BY <1>2, <3>1
  <2>2. DOMAIN p = 1 .. n /\ DOMAIN p = 1 .. Len(p) /\ Len(p) \in Nat
    BY <1>2, <2>1, LenProperties
  <2> HIDE DEF n
  <2> QED BY <1>1, <2>1, <2>2
<1>5. \A m \in 1 .. n : p[m].first = path[m].first /\ p[m].last = path[m].last
  BY <1>2
<1>6. Covering(WordNode, p)
  <2>1. p # << >>
    <3>1. Len(<< >>) = 0
      BY EmptySeq
    <3> QED BY <1>1, <1>4, <3>1
  <2>2. 1 \in 1 .. n /\ n \in 1 .. n /\ \A k \in 1 .. n - 1 : k \in 1 .. n /\ k + 1 \in 1 .. n
    BY <1>1
  <2>3. path[1].first = 1 /\ path[n].last = Len(original)
        /\ (\A k \in 1 .. n : Within(path[k]))
        /\ \A k \in 1 .. n - 1 : path[k + 1].first = path[k].last + 1
    BY DEF TiledBy
  <2> HIDE DEF n
  <2>4. \A k \in 1 .. n : Within(p[k])
    BY <1>5, <2>3 DEF Within
  <2>5. p[1].first = 1 /\ p[n].last = Len(original)
    BY <1>5, <2>2, <2>3
  <2>6. \A k \in 1 .. n - 1 : p[k + 1].first = p[k].last + 1
    BY <1>5, <2>2, <2>3
  <2> QED BY <1>1, <1>4, <1>5, <2>1, <2>4, <2>5, <2>6 DEF Covering
<1>7. WordsFrom(p, 0)
  BY <1>4, <1>5 DEF WordsFrom, IsPart
<1>8. NothingAsked(p, 0)
  <2>1. \A k \in 1 .. Len(p) : ~(k <= 0)
    BY <1>1, <1>4
  <2> QED BY <2>1, Zenon DEF NothingAsked
<1> QED BY <1>6, <1>7, <1>8

(* The run around node k of katakana has the nodes that are in one with it.*)
LEMMA RunOfNode ==
  ASSUME original \in Paths, NEW V, NEW p, Covering(V, p),
         NEW k \in 1 .. Len(p), IsKatakana(p[k]),
         NEW m \in 1 .. Len(p), OneRun(p[m], p[k])
  PROVE  m \in RunBegin(p, k) .. RunEnd(p, k)
<1> DEFINE B == RunBegin(p, k)
           E == RunEnd(p, k)
<1>1. Len(p) \in Nat /\ k \in Nat /\ m \in Nat
  BY CoveringFacts
<1>2. /\ B \in 1 .. k /\ (B > 1 => ~ IsKatakana(p[B - 1]))
      /\ E \in k .. Len(p) /\ (E < Len(p) => ~ IsKatakana(p[E + 1]))
  BY <1>1, RunBeginFacts, RunEndFacts
<1> HIDE DEF B, E
<1>3. ASSUME m < B PROVE FALSE
  <2>1. B - 1 \in m .. k /\ B > 1
    BY <1>1, <1>2, <1>3
  <2>2. IsKatakana(p[B - 1])
    BY <2>1, KatakanaParts DEF OneRun
  <2> QED BY <1>2, <2>1, <2>2
<1>4. ASSUME E < m PROVE FALSE
  <2>1. E + 1 \in k .. m /\ E < Len(p)
    BY <1>1, <1>2, <1>4
  <2>2. IsKatakana(p[E + 1])
    BY <2>1, KatakanaParts DEF OneRun
  <2> QED BY <1>2, <2>1, <2>2
<1> QED BY <1>1, <1>2, <1>3, <1>4 DEF B, E

(* A node that is passed does not ask, or the nodes in its run that do not *)
(* end it may not begin a word.                                            *)
LEMMA NodePassed ==
  ASSUME original \in Paths, NEW p, Covering(WordNode, p), NEW r \in Nat, r < Len(p),
         WordsFrom(p, r), NothingAsked(p, r),
         Asks(p[r + 1]) => WordBegin(p, r + 1) >= RunEnd(p, r + 1)
  PROVE  WordsFrom(p, r + 1) /\ NothingAsked(p, r + 1)
<1>1. Len(p) \in Nat
  BY CoveringFacts
<1>2. WordsFrom(p, r + 1)
  <2>1. \A m \in 1 .. Len(p) : m <= r => m <= r + 1
    BY <1>1
  <2> QED BY <2>1, Zenon DEF WordsFrom
<1>3. ASSUME NEW m \in 1 .. Len(p), NEW k \in 1 .. Len(p),
             m < Len(p), IsKatakana(p[m + 1]), CanBeginUnknown(p[m]), k <= r + 1,
             OneRun(p[m], p[k]), Asks(p[k])
      PROVE  FALSE
  <2>1. CASE k <= r
    BY <1>3, <2>1 DEF NothingAsked
  <2>2. CASE k = r + 1
    <3> DEFINE B == RunBegin(p, k)
               E == RunEnd(p, k)
               b == WordBegin(p, k)
    <3>1. IsKatakana(p[k])
      BY <1>3 DEF Asks
    <3>2. /\ B \in 1 .. k /\ E \in k .. Len(p) /\ (E < Len(p) => ~ IsKatakana(p[E + 1]))
          /\ b \in B .. E + 1 /\ \A n \in B .. b - 1 : ~ CanBeginUnknown(p[n])
      BY <1>1, <3>1, RunBeginFacts, RunEndFacts, WordBeginFacts
    <3>3. b >= E
      BY <1>3, <2>2
    <3>4. m \in B .. E
      BY <1>3, <3>1, RunOfNode
    <3> HIDE DEF b, B, E
    <3>5. m # E
      BY <1>3, <3>2
    <3>6. m \in B .. b - 1
      BY <1>1, <3>2, <3>3, <3>4, <3>5
    <3> QED BY <1>3, <3>2, <3>6
  <2> QED BY <1>1, <1>3, <2>1, <2>2
<1> QED BY <1>2, <1>3 DEF NothingAsked

(* One node from the first of some to the last of them covers the same.    *)
LEMMA CoveringReplaced ==
  ASSUME original \in Paths, NEW V, NEW p, Covering(V, p),
         NEW b \in 1 .. Len(p), NEW e \in b .. Len(p),
         NEW v \in V, v.first = p[b].first, v.last = p[e].last
  PROVE  Covering(V, Replaced(p, b, e, v))
<1> DEFINE n == Len(p)
           d == e - b
           w == Replaced(p, b, e, v)
<1>1. /\ n \in Nat /\ b \in Nat /\ e \in Nat /\ 1 <= b /\ b <= e /\ e <= n /\ p \in Seq(V)
      /\ \A k \in 1 .. n : /\ p[k].first \in Int /\ p[k].last \in Int
                           /\ 1 <= p[k].first /\ p[k].first <= p[k].last /\ p[k].last <= Len(original)
  <2>1. n \in Nat /\ p \in Seq(V)
    BY CoveringFacts DEF Covering
  <2>2. \A k \in 1 .. n : /\ p[k].first \in Int /\ p[k].last \in Int
                          /\ 1 <= p[k].first /\ p[k].first <= p[k].last /\ p[k].last <= Len(original)
    BY CoveringFacts
  <2>3. b \in 1 .. n /\ e \in b .. n
    OBVIOUS
  <2> HIDE DEF n
  <2> QED BY <2>1, <2>2, <2>3
<1>2. p[1].first = 1 /\ p[n].last = Len(original) /\ \A k \in 1 .. n - 1 : p[k + 1].first = p[k].last + 1
  BY DEF Covering
<1>3. /\ w \in Seq(V) /\ Len(w) = n - d
      /\ \A k \in 1 .. b - 1 : w[k] = p[k]
      /\ \A k \in b + 1 .. Len(w) : w[k] = p[k + d]
  <2>1. w \in Seq(V)
    BY <1>1, ReplacedFacts
  <2>2. Len(w) = n - d
    BY <1>1, ReplacedFacts
  <2>3. \A k \in 1 .. b - 1 : w[k] = p[k]
    BY <1>1, ReplacedFacts
  <2>4. \A k \in b + 1 .. Len(w) : w[k] = p[k + d]
    BY <1>1, ReplacedFacts
  <2> QED BY <2>1, <2>2, <2>3, <2>4
<1>4. w[b] = v
  BY <1>1, ReplacedAt
<1>5. p[b].first <= p[e].last
  <2>1. CASE b = e
    BY <1>1, <2>1
  <2>2. CASE b < e
    <3>1. p[b].last < p[e].first
      BY <1>1, <2>2, CoveringOrder
    <3> QED BY <1>1, <3>1
  <2> QED BY <1>1, <2>1, <2>2
<1>6. Len(original) \in Nat
  BY OriginalFacts
<1> HIDE DEF n, w
<1>7. \A k \in 1 .. Len(w) : k \in 1 .. b - 1 \/ k = b \/ (k \in b + 1 .. Len(w) /\ k + d \in 1 .. n)
  BY <1>1, <1>3
<1>8. ASSUME NEW k \in 1 .. Len(w)
      PROVE  /\ w[k].first \in Int /\ w[k].last \in Int
             /\ 1 <= w[k].first /\ w[k].first <= w[k].last /\ w[k].last <= Len(original)
  <2>1. CASE k \in 1 .. b - 1
    <3>1. w[k] = p[k] /\ k \in 1 .. n
      BY <1>1, <1>3, <2>1
    <3> QED BY <1>1, <3>1
  <2>2. CASE k = b
    <3>1. b \in 1 .. n /\ e \in 1 .. n
      BY <1>1
    <3> QED BY <1>1, <1>4, <1>5, <2>2, <3>1
  <2>3. CASE k \in b + 1 .. Len(w) /\ k + d \in 1 .. n
    <3>1. w[k] = p[k + d]
      BY <1>3, <2>3
    <3> QED BY <1>1, <2>3, <3>1
  <2> QED BY <1>7, <2>1, <2>2, <2>3
<1>9. w[1].first = 1
  <2>1. CASE b = 1
    BY <1>2, <1>4, <2>1
  <2>2. CASE b # 1
    <3>1. 1 \in 1 .. b - 1
      BY <1>1, <2>2
    <3> QED BY <1>2, <1>3, <3>1
  <2> QED BY <2>1, <2>2
<1>10. Len(w) \in Nat /\ 1 <= Len(w)
  BY <1>1, <1>3
<1>11. w[Len(w)].last = Len(original)
  <2>1. CASE e = n
    <3>1. Len(w) = b
      BY <1>1, <1>3, <2>1
    <3> QED BY <1>2, <1>4, <2>1, <3>1
  <2>2. CASE e # n
    <3>1. Len(w) \in b + 1 .. Len(w) /\ Len(w) + d = n
      BY <1>1, <1>3, <2>2
    <3> QED BY <1>2, <1>3, <3>1
  <2> QED BY <2>1, <2>2
<1>12. ASSUME NEW k \in 1 .. Len(w) - 1 PROVE w[k + 1].first = w[k].last + 1
  <2>1. CASE k \in 1 .. b - 2
    <3>1. k \in 1 .. b - 1 /\ k + 1 \in 1 .. b - 1 /\ k \in 1 .. n - 1
      BY <1>1, <2>1
    <3> QED BY <1>2, <1>3, <3>1
  <2>2. CASE k = b - 1
    <3>1. k \in 1 .. b - 1 /\ k \in 1 .. n - 1 /\ k + 1 = b
      BY <1>1, <2>2
    <3>2. w[k] = p[k] /\ w[k + 1] = v /\ v.first = p[k + 1].first
      BY <1>3, <1>4, <3>1
    <3> QED BY <1>2, <3>1, <3>2
  <2>3. CASE k = b
    <3>1. k + 1 \in b + 1 .. Len(w) /\ (k + 1) + d = e + 1 /\ e \in 1 .. n - 1
      BY <1>1, <1>3, <1>10, <2>3
    <3>2. w[k + 1] = p[e + 1] /\ w[k] = v
      BY <1>3, <1>4, <2>3, <3>1
    <3> QED BY <1>2, <3>1, <3>2
  <2>4. CASE k \in b + 1 .. Len(w) - 1
    <3>1. k \in b + 1 .. Len(w) /\ k + 1 \in b + 1 .. Len(w) /\ k + d \in 1 .. n - 1
          /\ (k + 1) + d = (k + d) + 1
      BY <1>1, <1>3, <1>10, <2>4
    <3>2. w[k] = p[k + d] /\ w[k + 1] = p[(k + d) + 1]
      <4>1. w[k] = p[k + d]
        BY <1>3, <3>1
      <4>2. w[k + 1] = p[(k + 1) + d]
        BY <1>3, <3>1, Zenon
      <4> QED BY <3>1, <4>1, <4>2, Zenon
    <3>3. p[(k + d) + 1].first = p[k + d].last + 1
      BY <1>2, <3>1
    <3> QED BY <3>2, <3>3
  <2>5. k \in 1 .. b - 2 \/ k = b - 1 \/ k = b \/ k \in b + 1 .. Len(w) - 1
    BY <1>1, <1>10
  <2> QED BY <2>1, <2>2, <2>3, <2>4, <2>5
<1>13. w # << >>
  <2>1. Len(<< >>) = 0
    BY EmptySeq
  <2> QED BY <1>10, <2>1
<1>14. Covering(V, w)
  BY <1>3, <1>8, <1>9, <1>11, <1>12, <1>13 DEF Covering, Within
<1> QED BY <1>14 DEF w

(* A node that asks, in one run with node n that a part of the path is.    *)
LEMMA RunAsks ==
  ASSUME original \in Paths, TiledBy(path), NEW p, Covering(WordNode, p),
         NEW m \in 1 .. Len(p), NEW k \in 1 .. Len(p), OneRun(p[m], p[k]), Asks(p[k]),
         IsPart(p[m]), IsPart(p[k])
  PROVE  Asked(p[m])
<1>1. PICK a \in 1 .. Len(path) : path[a].first = p[m].first /\ path[a].last = p[m].last
  BY DEF IsPart
<1>2. PICK c \in 1 .. Len(path) : path[c].first = p[k].first /\ path[c].last = p[k].last
  BY DEF IsPart
<1>3. OneRun(path[a], path[c])
  BY <1>1, <1>2 DEF OneRun
<1>4. Asks(path[c])
  BY <1>2 DEF Asks, IsOov, IsShort, Lengths, IsKatakana, SharedCats
<1> QED BY <1>1, <1>3, <1>4 DEF Asked

(* A run that is joined ends with a word, and no node in front of it in    *)
(* its run may begin one.                                                  *)
LEMMA RunJoined ==
  ASSUME original \in Paths, TiledBy(path), NEW p, Covering(WordNode, p), NEW r \in Nat, r < Len(p),
         WordsFrom(p, r), NothingAsked(p, r),
         Asks(p[r + 1]), WordBegin(p, r + 1) < RunEnd(p, r + 1)
  PROVE  LET b == WordBegin(p, r + 1)
             w == Concatenated(p, b, RunEnd(p, r + 1))
         IN Covering(WordNode, w) /\ WordsFrom(w, b + 1) /\ NothingAsked(w, b + 1) /\ b \in Nat
<1> DEFINE n == Len(p)
           q == r + 1
           B == RunBegin(p, q)
           E == RunEnd(p, q)
           b == WordBegin(p, q)
           d == E - b
           v == [first |-> p[b].first, last |-> p[E].last]
           w == Replaced(p, b, E, v)
<1>1. /\ n \in Nat /\ r \in Nat /\ q \in 1 .. n
      /\ \A k \in 1 .. n : /\ p[k] \in WordNode /\ p[k].first \in Int /\ p[k].last \in Int
                           /\ 1 <= p[k].first /\ p[k].first <= p[k].last
  <2>1. n \in Nat
    BY CoveringFacts
  <2>2. \A k \in 1 .. n : /\ p[k] \in WordNode /\ p[k].first \in Int /\ p[k].last \in Int
                          /\ 1 <= p[k].first /\ p[k].first <= p[k].last
    BY CoveringFacts
  <2>3. r < n
    OBVIOUS
  <2> HIDE DEF n
  <2> QED BY <2>1, <2>2, <2>3
<1>2. IsKatakana(p[q]) /\ Asks(p[q])
  BY DEF Asks
<1>3. /\ B \in 1 .. q /\ AllKatakana(p, B, q) /\ (B > 1 => ~ IsKatakana(p[B - 1]))
      /\ E \in q .. n /\ AllKatakana(p, q, E) /\ (E < n => ~ IsKatakana(p[E + 1]))
  BY <1>1, <1>2, RunBeginFacts, RunEndFacts
<1>4. /\ b \in B .. E + 1 /\ \A k \in B .. b - 1 : ~ CanBeginUnknown(p[k])
      /\ b <= E => CanBeginUnknown(p[b])
  BY <1>1, <1>2, WordBeginFacts
<1>5. b < E
  OBVIOUS
<1> HIDE DEF B, E, b
<1>6. /\ B \in Nat /\ b \in Nat /\ E \in Nat /\ 1 <= B /\ B <= b /\ B <= q /\ q <= E /\ E <= n
      /\ b \in 1 .. n /\ E \in b .. n /\ E \in 1 .. n /\ B \in 1 .. n
  BY <1>1, <1>3, <1>4, <1>5
<1>7. \A k \in B .. E : IsKatakana(p[k])
  <2> SUFFICES ASSUME NEW k \in B .. E PROVE IsKatakana(p[k])
    OBVIOUS
  <2>1. k \in B .. q \/ k \in q .. E
    BY <1>1, <1>6
  <2> QED BY <1>3, <2>1 DEF AllKatakana
<1>8. \A k \in B .. E : IsPart(p[k])
  <2> SUFFICES ASSUME NEW k \in B .. E, ~ IsPart(p[k]) PROVE FALSE
    OBVIOUS
  <2>1. k \in 1 .. n /\ k <= r /\ IsWord(p, k)
    BY <1>6 DEF WordsFrom
  <2>2. k < n /\ k + 1 \in B .. E
    BY <1>1, <1>6, <2>1
  <2> QED BY <1>7, <2>1, <2>2 DEF IsWord
<1>9. v \in WordNode /\ v.first = p[b].first /\ v.last = p[E].last
  BY <1>1, <1>6 DEF WordNode
<1> HIDE DEF v
<1>10. Concatenated(p, b, E) = w
  BY DEF Concatenated, Replaced, v
<1>11. /\ Len(w) = n - d
       /\ \A k \in 1 .. b - 1 : w[k] = p[k]
       /\ \A k \in b + 1 .. Len(w) : w[k] = p[k + d]
       /\ w[b] = v
  <2>1. p \in Seq(WordNode) /\ v \in WordNode /\ b \in 1 .. Len(p) /\ E \in b .. Len(p)
    BY <1>6, <1>9 DEF Covering
  <2>2. Len(w) = n - d
    <3>1. Len(Replaced(p, b, E, v)) = Len(p) - (E - b)
      <4> HIDE DEF n, d, w, q
      <4> QED BY ONLY <2>1, ReplacedFacts
    <3> QED BY <3>1
  <2>3. \A k \in 1 .. b - 1 : w[k] = p[k]
    BY <2>1, ReplacedFacts
  <2>4. \A k \in b + 1 .. Len(w) : w[k] = p[k + d]
    BY <2>1, ReplacedFacts
  <2>5. w[b] = v
    BY <2>1, ReplacedAt
  <2> QED BY <2>2, <2>3, <2>4, <2>5
<1>12. Covering(WordNode, w)
  BY <1>6, <1>9, CoveringReplaced
<1>13. IsKatakana(v)
  <2>1. AllKatakana(p, b, E)
    BY <1>6, <1>7 DEF AllKatakana
  <2>2. KatakanaFrom(p[b].first, p[E].last)
    BY <1>6, <2>1, KatakanaWhole
  <2>3. p[b].last < p[E].first
    BY <1>5, <1>6, CoveringOrder
  <2>4. v.first \in Int /\ v.last \in Int /\ v.first < v.last
    BY <1>1, <1>6, <1>9, <2>3
  <2> QED BY <1>9, <2>2, <2>4, KatakanaNode
<1>14. v.first # v.last
  <2>1. p[b].last < p[E].first
    BY <1>5, <1>6, CoveringOrder
  <2> QED BY <1>1, <1>6, <1>9, <2>1
<1>15. CanBeginUnknown(v)
  <2>1. CanBeginUnknown(p[b])
    BY <1>4, <1>5, <1>6
  <2> QED BY <1>9, <2>1 DEF CanBeginUnknown
<1>16. Asked(v)
  <2>1. OneRun(p[b], p[q])
    <3>1. CASE b <= q
      <4>1. AllKatakana(p, b, q) /\ q \in b .. n
        BY <1>1, <1>6, <1>7, <3>1 DEF AllKatakana
      <4> QED BY <1>6, <4>1, OneRunWhole
    <3>2. CASE q < b
      <4>1. AllKatakana(p, q, b) /\ b \in q .. n
        BY <1>1, <1>5, <1>6, <1>7, <3>2 DEF AllKatakana
      <4> QED BY <1>1, <4>1, OneRunWhole
    <3> QED BY <1>1, <1>6, <3>1, <3>2
  <2>2. IsPart(p[b]) /\ IsPart(p[q])
    BY <1>1, <1>5, <1>6, <1>8
  <2>3. Asked(p[b])
    BY <1>1, <1>2, <1>6, <2>1, <2>2, RunAsks
  <2> QED BY <1>9, <2>3 DEF Asked
<1>17. b < Len(w) => ~ IsKatakana(w[b + 1])
  <2> SUFFICES ASSUME b < Len(w) PROVE ~ IsKatakana(w[b + 1])
    OBVIOUS
  <2>1. b + 1 \in b + 1 .. Len(w) /\ (b + 1) + d = E + 1 /\ E < n
    <3>1. Len(w) = n - d /\ d = E - b
      BY <1>11
    <3> HIDE DEF d, w
    <3>2. Len(w) \in Int
      BY <1>1, <1>6, <3>1
    <3> QED BY <1>1, <1>6, <3>1, <3>2
  <2>2. w[b + 1] = p[(b + 1) + d]
    BY <1>11, <2>1, Zenon
  <2>3. w[b + 1] = p[E + 1]
    BY <2>1, <2>2, Zenon
  <2> QED BY <1>3, <2>1, <2>3
<1>18. Len(w) \in Nat /\ b <= Len(w) /\ d \in Nat /\ Len(w) < n
  <2>1. Len(w) = n - d /\ d = E - b
    BY <1>11
  <2> HIDE DEF d, w
  <2> QED BY <1>1, <1>5, <1>6, <2>1
<1> HIDE DEF w
(* What is in front of the new node ends its run where it did.             *)
<1>19. ASSUME NEW m \in 1 .. b - 1
       PROVE  m \in 1 .. n /\ w[m] = p[m] /\ (IsKatakana(w[m + 1]) => IsKatakana(p[m + 1]))
  <2>1. m \in 1 .. n /\ w[m] = p[m]
    BY <1>1, <1>6, <1>11
  <2>2. CASE m + 1 = b
    <3>1. IsKatakana(p[b])
      BY <1>5, <1>6, <1>7
    <3> QED BY <2>1, <2>2, <3>1
  <2>3. CASE m + 1 \in 1 .. b - 1
    <3>1. w[m + 1] = p[m + 1]
      BY <1>11, <2>3
    <3> QED BY <2>1, <3>1
  <2>4. m + 1 = b \/ m + 1 \in 1 .. b - 1
    BY <1>6
  <2> QED BY <2>2, <2>3, <2>4
<1>20. WordsFrom(w, b + 1)
  <2> SUFFICES ASSUME NEW m \in 1 .. Len(w) PROVE IsPart(w[m]) \/ (m <= b + 1 /\ IsWord(w, m))
    BY DEF WordsFrom
  <2>1. CASE m \in 1 .. b - 1
    <3>1. IsPart(p[m]) \/ IsWord(p, m)
      BY <1>19, <2>1 DEF WordsFrom
    <3>2. CASE IsPart(p[m])
      BY <1>19, <2>1, <3>2
    <3>3. CASE IsWord(p, m)
      <4>1. m < Len(w) /\ m < n /\ m <= b + 1
        BY <1>1, <1>6, <1>18, <2>1
      <4>2. ~ IsKatakana(w[m + 1])
        BY <1>19, <2>1, <3>3, <4>1 DEF IsWord
      <4>3. IsWord(w, m)
        BY <1>19, <2>1, <3>3, <4>2 DEF IsWord
      <4> QED BY <4>1, <4>3
    <3> QED BY <3>1, <3>2, <3>3
  <2>2. CASE m = b
    <3>1. IsWord(w, b)
      BY <1>11, <1>13, <1>14, <1>15, <1>16, <1>17 DEF IsWord
    <3>2. b <= b + 1
      BY <1>6
    <3> QED BY <2>2, <3>1, <3>2
  <2>3. CASE m \in b + 1 .. Len(w)
    <3>1. m + d \in 1 .. n /\ ~(m + d <= r)
      <4>1. Len(w) = n - d /\ d = E - b
        BY <1>11
      <4> HIDE DEF d
      <4>2. m \in Int /\ b + 1 <= m /\ m <= Len(w) /\ Len(w) \in Int /\ d \in Int
        BY <1>6, <1>18, <2>3
      <4>3. n \in Int /\ r \in Int /\ r + 1 <= E /\ b \in Int /\ E \in Int /\ 1 <= b
        BY <1>1, <1>6
      <4> HIDE DEF n
      <4>4. m + d <= n /\ E + 1 <= m + d /\ m + d \in Int
        BY <4>1, <4>2, <4>3
      <4> QED BY <4>3, <4>4
    <3>2. w[m] = p[m + d]
      BY <1>11, <2>3
    <3>3. IsPart(p[m + d])
      BY <3>1 DEF WordsFrom
    <3> QED BY <3>2, <3>3
  <2>4. m \in 1 .. b - 1 \/ m = b \/ m \in b + 1 .. Len(w)
    BY <1>6, <1>18
  <2> QED BY <2>1, <2>2, <2>3, <2>4
<1>21. NothingAsked(w, b + 1)
  <2> SUFFICES ASSUME NEW m \in 1 .. Len(w), NEW k \in 1 .. Len(w), m < Len(w), IsKatakana(w[m + 1]),
                      CanBeginUnknown(w[m]), k <= b + 1, OneRun(w[m], w[k]), Asks(w[k])
               PROVE  FALSE
    BY DEF NothingAsked
  <2>1. b < Len(w) => ~ IsKatakana(w[b + 1])
    BY <1>17
  <2>2. IsKatakana(w[k])
    BY DEF Asks
  <2>3. k <= b
    <3>1. k = b + 1 => FALSE
      <4>1. k = b + 1 => b < Len(w)
        BY <1>6, <1>18
      <4> QED BY <2>1, <2>2, <4>1
    <3> QED BY <1>6, <3>1
  <2>4. m < b
    <3>1. m = b => FALSE
      BY <2>1
    <3>2. ASSUME m > b PROVE FALSE
      <4>1. b + 1 \in k .. m /\ b < Len(w)
        BY <1>6, <1>18, <2>3, <3>2
      <4>2. IsKatakana(w[b + 1])
        BY <1>12, <4>1, KatakanaParts DEF OneRun
      <4> QED BY <2>1, <4>1, <4>2
    <3> QED BY <1>6, <3>1, <3>2
  <2>5. m \in 1 .. b - 1
    BY <1>6, <2>4
  <2>6. m < B
    <3> SUFFICES ASSUME ~(m < B) PROVE FALSE
      OBVIOUS
    <3>1. m \in B .. b - 1
      BY <1>6, <2>5
    <3>2. ~ CanBeginUnknown(p[m])
      BY <1>4, <3>1
    <3> QED BY <1>19, <2>5, <3>2
  <2>7. k < B
    <3> SUFFICES ASSUME ~(k < B) PROVE FALSE
      OBVIOUS
    <3>1. B - 1 \in m .. k /\ B - 1 \in 1 .. b - 1 /\ B > 1
      BY <1>6, <2>5, <2>6
    <3>2. IsKatakana(w[B - 1])
      BY <1>12, <3>1, KatakanaParts DEF OneRun
    <3>3. w[B - 1] = p[B - 1]
      BY <1>11, <3>1
    <3> QED BY <1>3, <3>1, <3>2, <3>3
  <2>8. k \in 1 .. b - 1 /\ k <= r /\ m < n
    BY <1>1, <1>6, <2>5, <2>7
  <2>9. w[k] = p[k] /\ k \in 1 .. n
    BY <1>19, <2>8
  <2>10. w[m] = p[m] /\ m \in 1 .. n /\ IsKatakana(p[m + 1])
    BY <1>19, <2>5
  <2> QED BY <2>8, <2>9, <2>10 DEF NothingAsked
<1>22. Covering(WordNode, w) /\ WordsFrom(w, b + 1) /\ NothingAsked(w, b + 1) /\ b \in Nat
  BY <1>6, <1>12, <1>20, <1>21
<1>23. w = Concatenated(p, b, E)
  BY <1>10 DEF w
<1> QED BY <1>22, <1>23 DEF b, E
-----------------------------------------------------------------------------
(* While numbers are joined the scan of katakana has passed nothing.       *)
LEMMA KatakanaBegins == KatakanaInit => KatakanaInv
BY DEF KatakanaInit, Init, KatakanaInv

(* Every step of both rewriters keeps this invariant too.                  *)
LEMMA KatakanaStep == NumeralInv /\ KatakanaInv /\ [KatakanaNext]_katakanaVars => KatakanaInv'
<1> SUFFICES ASSUME NumeralInv, KatakanaInv, [KatakanaNext]_katakanaVars PROVE KatakanaInv'
  OBVIOUS
<1>1. original \in Paths /\ TiledBy(path) /\ read \in Nat
  BY DEF NumeralInv, KatakanaInv
<1>2. original' = original
  BY DEF KatakanaNext, katakanaVars, vars, input, scan, Next, NumericNode, OtherNode, LastPart,
         NextRewriter, PassNode, JoinRun, Rewritten
<1>3. ASSUME path' = path, pc' \in {"katakana", "rewritten"}, pc' = "rewritten" => read' >= Len(words'),
             read' \in Nat, Covering(WordNode, words'), WordsFrom(words', read'), NothingAsked(words', read')
      PROVE  KatakanaInv'
  <2>1. Covering(WordNode, words)' /\ WordsFrom(words, read)' /\ NothingAsked(words, read)'
    BY <1>2, <1>3, CoveringStays, WordsStay, NothingStays
  <2> QED BY <1>3, <2>1 DEF KatakanaInv
<1>4. CASE UNCHANGED katakanaVars
  <2>1. path' = path /\ pc' = pc /\ words' = words /\ read' = read
    BY <1>4 DEF katakanaVars, vars
  <2>2. CASE pc \in {"katakana", "rewritten"}
    BY <1>1, <1>3, <2>1, <2>2 DEF KatakanaInv
  <2>3. CASE ~(pc \in {"katakana", "rewritten"})
    BY <1>1, <2>1, <2>3 DEF KatakanaInv
  <2> QED BY <2>2, <2>3
<1>5. CASE Next /\ UNCHANGED <<words, read>>
  <2>1. pc = "scan" /\ ~(pc' \in {"katakana", "rewritten"})
    BY <1>5 DEF Next, NumericNode, OtherNode, LastPart
  <2> QED BY <1>1, <1>5, <2>1 DEF KatakanaInv
<1>6. CASE NextRewriter
  <2>1. /\ path' = path /\ pc' = "katakana" /\ read' = 0
        /\ words' = [m \in DOMAIN path |-> [first |-> path[m].first, last |-> path[m].last]]
    BY <1>6 DEF NextRewriter, KatakanaInv
  <2>2. Covering(WordNode, words') /\ WordsFrom(words', 0) /\ NothingAsked(words', 0)
    <3>1. PICK p : p = [m \in DOMAIN path |-> [first |-> path[m].first, last |-> path[m].last]]
      OBVIOUS
    <3>2. Covering(WordNode, p) /\ WordsFrom(p, 0) /\ NothingAsked(p, 0)
      BY <1>1, <3>1, WordsAtStart
    <3> QED BY <2>1, <3>1, <3>2
  <2> QED BY <1>3, <2>1, <2>2
<1>7. CASE PassNode
  <2>1. /\ pc = "katakana" /\ read < Len(words) /\ path' = path /\ pc' = pc
        /\ words' = words /\ read' = read + 1
        /\ Asks(words[read + 1]) => WordBegin(words, read + 1) >= RunEnd(words, read + 1)
    BY <1>7 DEF PassNode, vars, Passed
  <2>2. Covering(WordNode, words) /\ WordsFrom(words, read) /\ NothingAsked(words, read)
    BY <2>1 DEF KatakanaInv
  <2>3. WordsFrom(words, read + 1) /\ NothingAsked(words, read + 1)
    BY <1>1, <2>1, <2>2, NodePassed
  <2> QED BY <1>1, <1>3, <2>1, <2>2, <2>3
<1>8. CASE JoinRun
  <2> DEFINE b == WordBegin(words, read + 1)
             w == Concatenated(words, b, RunEnd(words, read + 1))
  <2>1. /\ pc = "katakana" /\ read < Len(words) /\ path' = path /\ pc' = pc
        /\ words' = w /\ read' = b + 1
        /\ Asks(words[read + 1]) /\ b < RunEnd(words, read + 1)
    BY <1>8 DEF JoinRun, vars, Passed
  <2>2. Covering(WordNode, words) /\ WordsFrom(words, read) /\ NothingAsked(words, read)
    BY <2>1 DEF KatakanaInv
  <2>3. Covering(WordNode, w) /\ WordsFrom(w, b + 1) /\ NothingAsked(w, b + 1) /\ b \in Nat
    BY <1>1, <2>1, <2>2, RunJoined
  <2> HIDE DEF b, w
  <2> QED BY <1>3, <2>1, <2>3
<1>9. CASE Rewritten
  <2>1. /\ pc = "katakana" /\ read >= Len(words) /\ path' = path /\ pc' = "rewritten"
        /\ words' = words /\ read' = read
    BY <1>9 DEF Rewritten
  <2>2. Covering(WordNode, words) /\ WordsFrom(words, read) /\ NothingAsked(words, read)
    BY <2>1 DEF KatakanaInv
  <2> QED BY <1>1, <1>3, <2>1, <2>2
<1> QED BY <1>4, <1>5, <1>6, <1>7, <1>8, <1>9 DEF KatakanaNext

(* At every moment of the second scan the words cover the original path,   *)
(* those behind the node it has come to are nodes of the path, and what it *)
(* has joined ends a run of katakana that had a node that asked.           *)
THEOREM KatakanaInvHolds == RewriteSpec => []KatakanaInv
BY KatakanaBegins, KatakanaStep, NumeralInvHolds, PTL DEF RewriteSpec
-----------------------------------------------------------------------------
(* Some node of those that cover the path has its nth one.                 *)
LEMMA NodeOfCharacter ==
  ASSUME NEW V, NEW p, Covering(V, p), NEW c \in Int, 1 <= c, c <= Len(original)
  PROVE  \E k \in 1 .. Len(p) : p[k].first <= c /\ c <= p[k].last
<1> DEFINE T == {k \in 1 .. Len(p) : c <= p[k].last}
<1>1. /\ Len(p) \in Nat /\ 1 <= Len(p)
      /\ \A k \in 1 .. Len(p) : p[k].first \in Int /\ p[k].last \in Int
  BY CoveringFacts
<1>2. p[1].first = 1 /\ p[Len(p)].last = Len(original)
      /\ \A k \in 1 .. Len(p) - 1 : p[k + 1].first = p[k].last + 1
  BY DEF Covering
<1>3. Len(p) \in T
  BY <1>1, <1>2
<1>4. PICK k \in T : \A m \in T : k <= m
  <2>1. T \subseteq Nat /\ T # {}
    BY <1>3
  <2> HIDE DEF T
  <2> QED BY <2>1, LeastNatural
<1>5. p[k].first <= c
  <2>1. CASE k = 1
    BY <1>2, <2>1
  <2>2. CASE k # 1
    <3>1. k - 1 \in 1 .. Len(p) - 1 /\ k - 1 \in 1 .. Len(p) /\ k - 1 < k /\ (k - 1) + 1 = k
      BY <1>1, <1>4, <2>2
    <3>2. ~(c <= p[k - 1].last)
      BY <1>4, <3>1
    <3>3. p[(k - 1) + 1].first = p[k - 1].last + 1
      BY <1>2, <3>1
    <3>4. p[k].first = p[k - 1].last + 1
      BY <3>1, <3>3, Zenon
    <3> QED BY <1>1, <3>1, <3>2, <3>4
  <2> QED BY <2>1, <2>2
<1> QED BY <1>4, <1>5

(* Wanted, by the characters.                                              *)
LEMMA WantedIsAsked ==
  ASSUME original \in Paths, TiledBy(path), NEW n, NEW a \in 1 .. Len(path),
         path[a].first = n.first, IsKatakana(path[a])
  PROVE  Wanted(n) <=> \E c \in 1 .. Len(path) : OneRun(path[a], path[c]) /\ Asks(path[c])
<1> DEFINE B == RunBegin(path, a)
           E == RunEnd(path, a)
<1>1. /\ Covering(PathNode, path) /\ Len(path) \in Nat /\ DOMAIN path = 1 .. Len(path) /\ a \in Nat
      /\ \A k \in 1 .. Len(path) : /\ path[k].first \in Int /\ path[k].last \in Int
                                   /\ path[k].first <= path[k].last
  BY IsPathCovering, CoveringFacts
<1>2. \A m \in 1 .. Len(path) : path[m].first = n.first => m = a
  <2> SUFFICES ASSUME NEW m \in 1 .. Len(path), path[m].first = n.first, m # a PROVE FALSE
    OBVIOUS
  <2>1. CASE m < a
    <3>1. path[m].last < path[a].first
      BY <1>1, <2>1, CoveringOrder
    <3> QED BY <1>1, <3>1
  <2>2. CASE a < m
    <3>1. path[a].last < path[m].first
      BY <1>1, <2>2, CoveringOrder
    <3> QED BY <1>1, <3>1
  <2> QED BY <1>1, <2>1, <2>2
<1>3. (CHOOSE m \in DOMAIN path : path[m].first = n.first) = a
  BY <1>1, <1>2
<1>4. RunOf(n) = {path[j] : j \in B .. E}
  BY <1>3 DEF RunOf
<1>5. /\ B \in 1 .. a /\ AllKatakana(path, B, a)
      /\ E \in a .. Len(path) /\ AllKatakana(path, a, E)
  BY <1>1, RunBeginFacts, RunEndFacts
<1>6. Wanted(n) <=> \E j \in B .. E : Asks(path[j])
  BY <1>4 DEF Wanted
<1>7. ASSUME NEW j \in B .. E PROVE j \in 1 .. Len(path) /\ OneRun(path[a], path[j])
  <2> HIDE DEF B, E
  <2>1. CASE j <= a
    <3>1. j \in 1 .. Len(path) /\ a \in j .. Len(path) /\ AllKatakana(path, j, a)
      BY <1>1, <1>5, <2>1 DEF AllKatakana
    <3> QED BY <1>1, <3>1, OneRunWhole
  <2>2. CASE a < j
    <3>1. j \in a .. Len(path) /\ j \in 1 .. Len(path) /\ AllKatakana(path, a, j)
      BY <1>1, <1>5, <2>2 DEF AllKatakana
    <3> QED BY <1>1, <3>1, OneRunWhole
  <2> QED BY <1>1, <1>5, <2>1, <2>2
<1>8. ASSUME NEW c \in 1 .. Len(path), OneRun(path[a], path[c]) PROVE c \in B .. E
  <2>1. OneRun(path[c], path[a])
    BY <1>8 DEF OneRun
  <2> QED BY <1>1, <2>1, RunOfNode
<1> HIDE DEF B, E
<1> QED BY <1>6, <1>7, <1>8

(* What stands together as words and was asked for does not begin one.     *)
LEMMA NothingLeft ==
  ASSUME original \in Paths, TiledBy(path), Covering(WordNode, words),
         NEW r \in Nat, r >= Len(words), WordsFrom(words, r), NothingAsked(words, r),
         NEW m \in 1 .. Len(words), m < Len(words), IsPart(words[m]),
         IsKatakana(words[m]), IsKatakana(words[m + 1]), Wanted(words[m])
  PROVE  ~ CanBeginUnknown(words[m])
<1> SUFFICES ASSUME CanBeginUnknown(words[m]) PROVE FALSE
  OBVIOUS
<1>1. /\ Covering(PathNode, path) /\ Len(path) \in Nat
      /\ \A k \in 1 .. Len(path) : /\ path[k].first \in Int /\ path[k].last \in Int
                                   /\ 1 <= path[k].first /\ path[k].first <= path[k].last
                                   /\ path[k].last <= Len(original)
  BY IsPathCovering, CoveringFacts
<1>2. /\ Len(words) \in Nat
      /\ \A k \in 1 .. Len(words) : /\ words[k].first \in Int /\ words[k].last \in Int
                                    /\ words[k].first <= words[k].last
  BY CoveringFacts
<1>3. PICK a \in 1 .. Len(path) : path[a].first = words[m].first /\ path[a].last = words[m].last
  BY DEF IsPart
<1>4. IsKatakana(path[a])
  BY <1>3 DEF IsKatakana, SharedCats
<1>5. PICK c \in 1 .. Len(path) : OneRun(path[a], path[c]) /\ Asks(path[c])
  BY <1>3, <1>4, WantedIsAsked
<1>6. PICK k \in 1 .. Len(words) : words[k].first <= path[c].first /\ path[c].first <= words[k].last
  <2> DEFINE x == path[c].first
  <2>1. x \in Int /\ 1 <= x /\ x <= Len(original)
    <3>1. Len(original) \in Nat
      BY OriginalFacts
    <3>2. /\ path[c].first \in Int /\ path[c].last \in Int /\ 1 <= path[c].first
          /\ path[c].first <= path[c].last /\ path[c].last <= Len(original)
      BY <1>1
    <3> QED BY <3>1, <3>2
  <2> HIDE DEF x
  <2>2. \E k \in 1 .. Len(words) : words[k].first <= x /\ x <= words[k].last
    BY <2>1, NodeOfCharacter
  <2> QED BY <2>2 DEF x
<1>7. k <= r
  BY <1>2
<1>8. CASE IsPart(words[k])
  <2>1. PICK e \in 1 .. Len(path) : path[e].first = words[k].first /\ path[e].last = words[k].last
    BY <1>8 DEF IsPart
  <2>2. e = c
    <3>1. CASE e < c
      <4>1. path[e].last < path[c].first
        BY <1>1, <3>1, CoveringOrder
      <4> QED BY <1>1, <1>6, <2>1, <4>1
    <3>2. CASE c < e
      <4>1. path[c].last < path[e].first
        BY <1>1, <3>2, CoveringOrder
      <4> QED BY <1>1, <1>6, <2>1, <4>1
    <3> QED BY <1>1, <3>1, <3>2
  <2>3. OneRun(words[m], words[k])
    BY <1>3, <1>5, <2>1, <2>2 DEF OneRun
  <2>4. Asks(words[k])
    BY <1>5, <2>1, <2>2 DEF Asks, IsOov, IsShort, Lengths, IsKatakana, SharedCats
  <2> QED BY <1>7, <2>3, <2>4 DEF NothingAsked
<1>9. CASE IsWord(words, k)
  <2>1. Asks(words[k]) /\ IsKatakana(words[k])
    BY <1>9 DEF IsWord, Asks, IsOov
  <2>2. KatakanaFrom(words[k].first, words[k].last)
    BY <1>2, <2>1, KatakanaNode
  <2>3. KatakanaFrom(path[a].first, path[c].last) /\ KatakanaFrom(path[c].first, path[a].last)
    BY <1>5 DEF OneRun
  <2>4. /\ words[m].first \in Int /\ words[m].last \in Int /\ words[k].first \in Int /\ words[k].last \in Int
        /\ path[c].first \in Int /\ path[c].last \in Int /\ path[c].first <= path[c].last
    BY <1>1, <1>2
  <2>5. ASSUME NEW x \in words[m].first .. words[k].last PROVE "KATAKANA" \in original[x].cats
    <3>1. x \in words[k].first .. words[k].last \/ x \in path[a].first .. path[c].last
      BY <1>3, <1>6, <2>4
    <3> QED BY <2>2, <2>3, <3>1 DEF KatakanaFrom
  <2>6. ASSUME NEW x \in words[k].first .. words[m].last PROVE "KATAKANA" \in original[x].cats
    <3>1. x \in words[k].first .. words[k].last \/ x \in path[c].first .. path[a].last
      BY <1>3, <1>6, <2>4
    <3> QED BY <2>2, <2>3, <3>1 DEF KatakanaFrom
  <2>7. OneRun(words[m], words[k])
    BY <2>5, <2>6 DEF OneRun, KatakanaFrom
  <2> QED BY <1>7, <2>1, <2>7 DEF NothingAsked
<1> QED BY <1>8, <1>9 DEF WordsFrom

(* The numbers from 1 to h.                                                *)
UpTo(h) == [j \in 1 .. h |-> j]

(* They are put together from those up to l and those behind it.           *)
LEMMA UpToNext ==
  ASSUME NEW l \in Nat, NEW h \in Nat, l <= h, NEW f, f = l + 1
  PROVE  /\ UpTo(h) \in Seq(Int) /\ [j \in 1 .. h - f + 1 |-> f + j - 1] \in Seq(Int)
         /\ UpTo(l) \o [j \in 1 .. h - f + 1 |-> f + j - 1] = UpTo(h)
<1> DEFINE d == h - l
           g == [j \in 1 .. d |-> l + j]
           u == UpTo(l) \o g
<1>1. d \in Nat /\ h - f + 1 = d /\ \A j \in 1 .. d : f + j - 1 = l + j
  OBVIOUS
<1>2. [j \in 1 .. h - f + 1 |-> f + j - 1] = g
  BY <1>1
<1>3. \A k \in Nat : UpTo(k) \in Seq(Int) /\ Len(UpTo(k)) = k /\ \A j \in 1 .. k : UpTo(k)[j] = j
  <2> SUFFICES ASSUME NEW k \in Nat
               PROVE UpTo(k) \in Seq(Int) /\ Len(UpTo(k)) = k /\ \A j \in 1 .. k : UpTo(k)[j] = j
    OBVIOUS
  <2>1. \A j \in 1 .. k : j \in Int
    OBVIOUS
  <2>2. UpTo(k) \in Seq(Int)
    BY <2>1, IsASeq DEF UpTo
  <2>3. DOMAIN UpTo(k) = 1 .. k /\ \A j \in 1 .. k : UpTo(k)[j] = j
    BY DEF UpTo
  <2>4. DOMAIN UpTo(k) = 1 .. Len(UpTo(k)) /\ Len(UpTo(k)) \in Nat
    BY <2>2, LenProperties
  <2>5. Len(UpTo(k)) = k
    BY <2>3, <2>4
  <2> QED BY <2>2, <2>3, <2>5
<1>4. g \in Seq(Int) /\ Len(g) = d /\ \A j \in 1 .. d : g[j] = l + j
  <2> HIDE DEF d
  <2>1. \A j \in 1 .. d : l + j \in Int
    OBVIOUS
  <2>2. g \in Seq(Int)
    BY <1>1, <2>1, IsASeq
  <2>3. DOMAIN g = 1 .. d /\ \A j \in 1 .. d : g[j] = l + j
    OBVIOUS
  <2> HIDE DEF g
  <2>4. DOMAIN g = 1 .. Len(g) /\ Len(g) \in Nat
    BY <2>2, LenProperties
  <2>5. Len(g) = d
    BY <1>1, <2>3, <2>4
  <2> QED BY <2>2, <2>3, <2>5
<1> HIDE DEF g
<1>5. /\ u \in Seq(Int) /\ Len(u) = l + d
      /\ \A j \in 1 .. l + d : u[j] = IF j <= l THEN UpTo(l)[j] ELSE g[j - l]
  <2> DEFINE s == UpTo(l)
  <2>1. s \in Seq(Int) /\ Len(s) = l
    BY <1>3
  <2> HIDE DEF s, d
  <2>2. /\ s \o g \in Seq(Int) /\ Len(s \o g) = Len(s) + Len(g)
        /\ \A j \in 1 .. Len(s) + Len(g) : (s \o g)[j] = IF j <= Len(s) THEN s[j] ELSE g[j - Len(s)]
    BY <1>4, <2>1, ConcatProperties
  <2>3. Len(s) + Len(g) = l + d
    BY <1>4, <2>1
  <2>4. u = s \o g
    BY DEF s
  <2> HIDE DEF u
  <2> QED BY <2>1, <2>2, <2>3, <2>4 DEF s
<1> HIDE DEF u, d
<1>6. l + d = h
  BY DEF d
<1>7. \A j \in 1 .. Len(u) : u[j] = UpTo(h)[j]
  <2> SUFFICES ASSUME NEW j \in 1 .. h PROVE u[j] = j
    BY <1>3, <1>5, <1>6
  <2>1. CASE j <= l
    <3>1. j \in 1 .. l
      BY <2>1
    <3> QED BY <1>3, <1>5, <1>6, <2>1, <3>1
  <2>2. CASE ~(j <= l)
    <3>1. j - l \in 1 .. d /\ l + (j - l) = j
      BY <1>1, <1>6, <2>2
    <3> QED BY <1>4, <1>5, <1>6, <2>2, <3>1
  <2> QED BY <2>1, <2>2
<1>8. u = UpTo(h)
  BY <1>3, <1>5, <1>6, <1>7, SeqEqual
<1> QED BY <1>2, <1>3, <1>4, <1>8 DEF u

(* Nodes that cover the path have each of its nodes once, in order.        *)
LEMMA CoveringFlat ==
  ASSUME original \in Paths, NEW V, NEW p, Covering(V, p)
  PROVE  FlattenSeq([m \in DOMAIN p |-> [j \in 1 .. p[m].last - p[m].first + 1 |-> p[m].first + j - 1]])
           = [j \in DOMAIN original |-> j]
<1> DEFINE n == Len(p)
           part(m) == [j \in 1 .. p[m].last - p[m].first + 1 |-> p[m].first + j - 1]
           ss == [m \in 1 .. n |-> part(m)]
<1>1. /\ n \in Nat /\ 1 <= n /\ DOMAIN p = 1 .. n
      /\ \A m \in 1 .. n : /\ p[m].first \in Int /\ p[m].last \in Int
                           /\ 1 <= p[m].first /\ p[m].first <= p[m].last
  BY CoveringFacts
<1>2. p[1].first = 1 /\ p[n].last = Len(original) /\ \A m \in 1 .. n - 1 : p[m + 1].first = p[m].last + 1
  BY DEF Covering
<1> HIDE DEF n
<1>3. ASSUME NEW m \in 1 .. n, NEW l \in Nat, p[m].first = l + 1
      PROVE  part(m) \in Seq(Int) /\ UpTo(l) \o part(m) = UpTo(p[m].last)
  <2> DEFINE f == p[m].first
             h == p[m].last
  <2>1. h \in Nat /\ l <= h /\ f = l + 1
    BY <1>1, <1>3
  <2> HIDE DEF f, h
  <2>2. [j \in 1 .. h - f + 1 |-> f + j - 1] \in Seq(Int)
        /\ UpTo(l) \o [j \in 1 .. h - f + 1 |-> f + j - 1] = UpTo(h)
    BY <2>1, UpToNext
  <2> QED BY <2>2 DEF f, h
<1>4. \A m \in 1 .. n : part(m) \in Seq(Int)
  <2> SUFFICES ASSUME NEW m \in 1 .. n PROVE part(m) \in Seq(Int)
    OBVIOUS
  <2>1. p[m].first - 1 \in Nat /\ p[m].first = (p[m].first - 1) + 1
    BY <1>1
  <2> HIDE DEF part
  <2> QED BY <1>3, <2>1
<1>5. ss \in Seq(Seq(Int)) /\ Len(ss) = n
  <2>1. ss \in Seq(Seq(Int))
    <3> HIDE DEF part
    <3> QED BY <1>1, <1>4, IsASeq
  <2>2. DOMAIN ss = 1 .. n
    OBVIOUS
  <2> HIDE DEF ss
  <2>3. DOMAIN ss = 1 .. Len(ss) /\ Len(ss) \in Nat
    BY <2>1, LenProperties
  <2> QED BY <1>1, <2>1, <2>2, <2>3
<1>6. \A m \in 1 .. n : ss[m] = part(m)
  OBVIOUS
<1>7. [m \in DOMAIN p |-> part(m)] = ss
  BY <1>1
<1> HIDE DEF ss, part
<1>8. PICK g : IsFlattening(g, ss) /\ FlattenSeq(ss) = g[n]
  <2>1. Len(ss) # 0
    BY <1>1, <1>5
  <2>2. PICK g : IsFlattening(g, ss) /\ FlattenSeq(ss) = g[Len(ss)]
    BY <1>5, <2>1, FlattenSteps
  <2> QED BY <1>5, <2>2
<1> DEFINE S == {m \in 1 .. n : g[m] = UpTo(p[m].last)}
<1>9. 1 \in S
  <2>1. g[1] = part(1)
    <3>1. 1 \in 1 .. n
      BY <1>1
    <3> QED BY <1>5, <1>6, <1>8, <3>1 DEF IsFlattening
  <2>2. part(1) \in Seq(Int) /\ UpTo(0) \o part(1) = UpTo(p[1].last)
    <3>1. 1 \in 1 .. n /\ 0 \in Nat /\ p[1].first = 0 + 1
      BY <1>1, <1>2
    <3> QED BY <1>3, <3>1
  <2>3. UpTo(0) = << >>
    <3>1. UpTo(0) \in Seq(Int) /\ DOMAIN UpTo(0) = 1 .. 0
      <4>1. 0 \in Nat /\ \A j \in 1 .. 0 : j \in Int
        OBVIOUS
      <4> QED BY <4>1, IsASeq DEF UpTo
    <3>2. Len(UpTo(0)) = 0
      <4>1. DOMAIN UpTo(0) = 1 .. Len(UpTo(0)) /\ Len(UpTo(0)) \in Nat
        BY <3>1, LenProperties
      <4>2. 1 .. Len(UpTo(0)) = {}
        BY <3>1, <4>1
      <4> HIDE DEF S
      <4>3. ASSUME Len(UpTo(0)) >= 1 PROVE FALSE
        <5>1. 1 \in 1 .. Len(UpTo(0))
          BY <4>1, <4>3
        <5> QED BY <4>2, <5>1
      <4> QED BY <4>1, <4>3
    <3> QED BY <3>1, <3>2, EmptySeq
  <2>4. << >> \o part(1) = part(1)
    BY <2>2, ConcatEmptySeq
  <2>5. g[1] = UpTo(p[1].last)
    BY <2>1, <2>2, <2>3, <2>4
  <2> QED BY <1>1, <2>5
<1>10. \A m \in 1 + 1 .. n : m - 1 \in S => m \in S
  <2> SUFFICES ASSUME NEW m \in 1 + 1 .. n, m - 1 \in S PROVE m \in S
    OBVIOUS
  <2>1. m \in 1 .. n /\ m - 1 \in 1 .. n /\ m - 1 \in 1 .. n - 1 /\ m # 1 /\ (m - 1) + 1 = m
    BY <1>1
  <2>2. p[m].first = p[m - 1].last + 1
    <3>1. p[(m - 1) + 1].first = p[m - 1].last + 1
      BY <1>2, <2>1
    <3> QED BY <2>1, <3>1, Zenon
  <2>3. p[m - 1].last \in Nat
    BY <1>1, <2>1
  <2>4. UpTo(p[m - 1].last) \o part(m) = UpTo(p[m].last)
    BY <1>3, <2>1, <2>2, <2>3
  <2>5. g[m] = g[m - 1] \o part(m)
    BY <1>5, <1>6, <1>8, <2>1 DEF IsFlattening
  <2>6. g[m - 1] = UpTo(p[m - 1].last)
    OBVIOUS
  <2> QED BY <2>1, <2>4, <2>5, <2>6
<1>11. g[n] = UpTo(p[n].last)
  <2>1. \A m \in 1 .. n : m \in S
    <3>1. 1 <= n => 1 \in S
      BY <1>9
    <3> HIDE DEF S
    <3> QED BY <1>1, <3>1, <1>10, ByStep
  <2>2. n \in 1 .. n
    BY <1>1
  <2> QED BY <2>1, <2>2
<1>12. DOMAIN original = 1 .. Len(original)
  BY OriginalFacts
<1>13. UpTo(p[n].last) = [j \in DOMAIN original |-> j]
  BY <1>2, <1>12 DEF UpTo
<1> QED BY <1>7, <1>8, <1>11, <1>13 DEF part

(* KatakanaAreJoined holds of all paths: katakana that stand together and  *)
(* have an unknown or short node among them end as one word, from the      *)
(* first node on that may begin one; no other nodes are joined, and none   *)
(* is lost (JoinKatakanaOovPlugin::rewrite_gen, concat_oov_nodes).         *)
THEOREM KatakanaEndAsWords == RewriteSpec => []KatakanaAreJoined
<1>1. NumeralInv /\ KatakanaInv => KatakanaAreJoined
  <2> SUFFICES ASSUME NumeralInv, KatakanaInv, pc = "rewritten" PROVE KatakanaAreJoined
    BY DEF KatakanaAreJoined
  <2>1. /\ original \in Paths /\ TiledBy(path) /\ read \in Nat /\ read >= Len(words)
        /\ Covering(WordNode, words) /\ WordsFrom(words, read) /\ NothingAsked(words, read)
    BY DEF NumeralInv, KatakanaInv
  <2>2. DOMAIN words = 1 .. Len(words) /\ DOMAIN path = 1 .. Len(path) /\ Len(words) \in Nat
    BY <2>1, CoveringFacts, TiledFacts
  <2>3. FlattenSeq([m \in DOMAIN words |-> [j \in 1 .. words[m].last - words[m].first + 1 |->
                                              words[m].first + j - 1]])
          = [j \in DOMAIN original |-> j]
    BY <2>1, CoveringFlat
  <2>4. ASSUME NEW m \in DOMAIN words, IsPart(words[m]),
               m < Len(words), IsKatakana(words[m]), IsKatakana(words[m + 1]), Wanted(words[m])
        PROVE  ~ CanBeginUnknown(words[m])
    BY <2>1, <2>2, <2>4, NothingLeft
  <2>5. ASSUME NEW m \in DOMAIN words, ~ IsPart(words[m])
        PROVE  /\ AllKatakana(words, m, m) /\ Wanted(words[m]) /\ CanBeginUnknown(words[m])
               /\ m < Len(words) => ~ IsKatakana(words[m + 1])
    <3>1. IsWord(words, m)
      BY <2>1, <2>2, <2>5 DEF WordsFrom
    <3>2. AllKatakana(words, m, m)
      <4>1. \A k \in m .. m : k = m
        BY <2>2
      <4> QED BY <3>1, <4>1 DEF AllKatakana, IsWord
    <3>3. Wanted(words[m])
      <4>1. PICK a \in 1 .. Len(path) : path[a].first = words[m].first /\
              \E c \in 1 .. Len(path) : OneRun(path[a], path[c]) /\ Asks(path[c])
        BY <3>1 DEF IsWord, Asked
      <4>2. PICK c \in 1 .. Len(path) : OneRun(path[a], path[c]) /\ Asks(path[c])
        BY <4>1
      <4>3. Covering(PathNode, path) /\ Len(path) \in Nat
        BY <2>1, IsPathCovering, TiledFacts
      <4>4. a \in a .. c \/ a \in c .. a
        BY <4>3
      <4>5. IsKatakana(path[a])
        BY <2>1, <4>2, <4>3, <4>4, KatakanaParts DEF OneRun
      <4> QED BY <2>1, <4>1, <4>2, <4>5, WantedIsAsked
    <3> QED BY <3>1, <3>2, <3>3 DEF IsWord
  <2>6. \A m \in DOMAIN words :
          IsPart(words[m]) <=>
            \E j \in DOMAIN path : path[j].first = words[m].first /\ path[j].last = words[m].last
    BY <2>2 DEF IsPart
  <2> QED BY <2>3, <2>4, <2>5, <2>6 DEF KatakanaAreJoined
<1> QED BY <1>1, NumeralInvHolds, KatakanaInvHolds, PTL
=============================================================================

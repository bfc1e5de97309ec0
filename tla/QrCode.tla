------------------------------- MODULE QrCode -------------------------------
(***************************************************************************)
(* The QR encoder behind share links (client/js/qr.js), as operators.      *)
(*                                                                         *)
(* A number that the code handles bit by bit - a codeword, a format or     *)
(* version word - is the set of its bit positions, so that exclusive or is *)
(* the symmetric difference.  A symbol is the set of its dark modules.     *)
(***************************************************************************)
EXTENDS Integers, SequencesExt

Abs(n) == IF n < 0 THEN -n ELSE n

Levels == {"LOW", "MEDIUM", "QUARTILE", "HIGH"}
Versions == 1..40

EccCodewordsPerBlock == [
    LOW      |-> <<7,10,15,20,26,18,20,24,30,18,20,24,26,30,22,24,28,30,28,28,28,28,30,30,26,28,30,30,30,30,30,30,30,30,30,30,30,30,30,30>>,
    MEDIUM   |-> <<10,16,26,18,24,16,18,22,22,26,30,22,22,24,24,28,28,26,26,26,26,28,28,28,28,28,28,28,28,28,28,28,28,28,28,28,28,28,28,28>>,
    QUARTILE |-> <<13,22,18,26,18,24,18,22,20,24,28,26,24,20,30,24,28,28,26,30,28,30,30,30,30,28,30,30,30,30,30,30,30,30,30,30,30,30,30,30>>,
    HIGH     |-> <<17,28,22,16,22,28,26,26,24,28,24,28,22,24,24,30,28,28,26,28,30,24,30,30,30,30,30,30,30,30,30,30,30,30,30,30,30,30,30,30>>]

NumErrorCorrectionBlocks == [
    LOW      |-> <<1,1,1,1,1,2,2,2,2,4,4,4,4,4,6,6,6,6,7,8,8,9,9,10,12,12,12,13,14,15,16,17,18,19,19,20,21,22,24,25>>,
    MEDIUM   |-> <<1,1,1,2,2,4,4,4,5,5,5,8,9,9,10,10,11,13,14,16,17,17,18,20,21,23,25,26,28,29,31,33,35,37,38,40,43,45,47,49>>,
    QUARTILE |-> <<1,1,2,2,4,4,6,6,8,8,8,10,12,16,12,17,16,18,21,20,23,23,25,27,29,34,34,35,38,40,43,45,48,51,53,56,59,62,65,68>>,
    HIGH     |-> <<1,1,2,4,4,4,5,6,8,8,11,11,16,16,18,16,19,21,25,25,25,34,30,32,35,37,40,42,45,48,51,54,57,60,63,66,70,74,77,81>>]

-----------------------------------------------------------------------------
(* Capacity.                                                               *)

\* Mutant of NumRawDataModules: version information is forgotten.
MutantRawWithoutVersion(ver) ==
    (16 * ver + 128) * ver + 64
        - (IF ver >= 2 THEN LET numAlign == ver \div 7 + 2
                            IN  (25 * numAlign - 10) * numAlign - 55
           ELSE 0)

\* Modules that hold codewords
NumRawDataModules(ver) ==
    (16 * ver + 128) * ver + 64
        - (IF ver >= 2 THEN LET numAlign == ver \div 7 + 2
                            IN  (25 * numAlign - 10) * numAlign - 55
           ELSE 0)
        - (IF ver >= 7 THEN 36 ELSE 0)

RawCodewords(ver) == NumRawDataModules(ver) \div 8
NumDataCodewords(ver, ecl) ==
    RawCodewords(ver) - EccCodewordsPerBlock[ecl][ver] * NumErrorCorrectionBlocks[ecl][ver]

-----------------------------------------------------------------------------
(* Arithmetic on bit sets.                                                 *)

\* The sequence f; TLC then computes its elements once.
Listed(f) == f \o <<>>

BitsOf(n) == {i \in 0..17 : (n \div 2^i) % 2 = 1}
Shift(z, n) == {i + n : i \in z}

\* z times x, modulo a polynomial of degree n
Doubled(z, n, poly) == LET s == Shift(z, 1) IN IF n \in s THEN SymDiff(s, poly) ELSE s

\* 0x11d
FieldPoly == {8, 4, 3, 2, 0}

\* reedSolomonMultiply
Multiply(x, y) ==
    FoldLeft(LAMBDA z, i : SymDiff(Doubled(z, 8, FieldPoly), IF i \in y THEN x ELSE {}),
             {}, <<7, 6, 5, 4, 3, 2, 1, 0>>)

\* reedSolomonComputeDivisor: the product of x - 2^i, highest term left out
Divisor(degree) ==
    LET one == [j \in 1..degree |-> IF j = degree THEN {0} ELSE {}]
        Times(d, i) ==
            [coeff |-> Listed([j \in DOMAIN d.coeff |->
                          SymDiff(Multiply(d.coeff[j], d.root),
                                  IF j < degree THEN d.coeff[j + 1] ELSE {})]),
             root |-> Multiply(d.root, {1})]
    IN  FoldLeft(Times, [coeff |-> one, root |-> {0}], [i \in 1..degree |-> i]).coeff

\* Mutant of Remainder: the window is not moved on.
MutantRemainderStays(data, divisor) ==
    FoldLeft(LAMBDA r, b : LET factor == SymDiff(b, r[1])
                           IN  Listed([j \in DOMAIN r |-> SymDiff(r[j], Multiply(divisor[j], factor))]),
             [j \in DOMAIN divisor |-> {}], data)

\* reedSolomonComputeRemainder
Remainder(data, divisor) ==
    FoldLeft(LAMBDA r, b :
                LET factor == SymDiff(b, r[1])
                IN  Listed([j \in DOMAIN r |-> SymDiff(IF j < Len(r) THEN r[j + 1] ELSE {},
                                                       Multiply(divisor[j], factor))]),
             [j \in DOMAIN divisor |-> {}], data)

-----------------------------------------------------------------------------
(* Function patterns: what is drawn, layer over layer, before the data.    *)

Size(ver) == ver * 4 + 17
Modules(ver) == (0..Size(ver) - 1) \X (0..Size(ver) - 1)

\* The modules within a distance of a centre, dark at some distances
Rings(centre, radius, lightAt, ver) ==
    LET Dist(m) == Max({Abs(m[1] - centre[1]), Abs(m[2] - centre[2])})
        cells   == {m \in ((centre[1] - radius)..(centre[1] + radius))
                          \X ((centre[2] - radius)..(centre[2] + radius)) : m \in Modules(ver)}
    IN  [cells |-> cells, dark |-> {m \in cells : Dist(m) \notin lightAt}]

Timing(ver) ==
    LET cells == {<<6, i>> : i \in 0..Size(ver) - 1} \cup {<<i, 6>> : i \in 0..Size(ver) - 1}
    IN  [cells |-> cells, dark |-> {m \in cells : (IF m[1] = 6 THEN m[2] ELSE m[1]) % 2 = 0}]

Finders(ver) == [c \in 1..3 |-> Rings(<<<<3, 3>>, <<Size(ver) - 4, 3>>, <<3, Size(ver) - 4>>>>[c], 4, {2, 4}, ver)]

\* getAlignmentPatternPositions
AlignmentPositions(ver) ==
    IF ver = 1 THEN {}
    ELSE LET numAlign == ver \div 7 + 2
             step == ((ver * 8 + numAlign * 3 + 5) \div (numAlign * 4 - 4)) * 2
         IN  {6} \cup {Size(ver) - 7 - k * step : k \in 0..numAlign - 2}

Alignments(ver) ==
    LET p == AlignmentPositions(ver)
        centres == {c \in p \X p : c \notin {<<Min(p), Min(p)>>, <<Min(p), Max(p)>>,
                                              <<Max(p), Min(p)>>}}
        all == {Rings(c, 2, {1}, ver) : c \in centres}
    IN  [cells |-> UNION {r.cells : r \in all}, dark |-> UNION {r.dark : r \in all}]

\* A word and what its code makes of it: n check bits by a generator
WithCheckBits(word, n, generator) ==
    Shift(word, n) \cup FoldLeft(LAMBDA rem, i : Doubled(rem, n, generator), word, [i \in 1..n |-> i])

FormatOf == [LOW |-> 1, MEDIUM |-> 0, QUARTILE |-> 3, HIGH |-> 2]

\* 0x537 and 0x5412
FormatWord(ecl, msk) ==
    SymDiff(WithCheckBits(BitsOf(FormatOf[ecl] * 8 + msk), 10, {10, 8, 5, 4, 2, 1, 0}),
            {14, 12, 10, 4, 1})

\* Where bit i of the format goes, twice
FormatAt(i) == IF i <= 5 THEN <<8, i>> ELSE IF i = 6 THEN <<8, 7>> ELSE IF i = 7 THEN <<8, 8>>
               ELSE IF i = 8 THEN <<7, 8>> ELSE <<14 - i, 8>>
FormatAgainAt(i, ver) ==
    IF i < 8 THEN <<Size(ver) - 1 - i, 8>> ELSE <<8, Size(ver) - 15 + i>>

\* drawFormatBits
Format(ver, ecl, msk) ==
    LET word == FormatWord(ecl, msk)
        Marks(bits) == {FormatAt(i) : i \in bits} \cup {FormatAgainAt(i, ver) : i \in bits}
                       \cup {<<8, Size(ver) - 8>>}
    IN  [cells |-> Marks(0..14), dark |-> Marks(word)]

\* 0x1f25
VersionWord(ver) == WithCheckBits(BitsOf(ver), 12, {12, 11, 10, 9, 8, 5, 2, 0})

\* drawVersion
VersionInfo(ver) ==
    LET Marks(bits) == UNION {LET a == Size(ver) - 11 + (i % 3)
                                  b == i \div 3
                              IN  {<<a, b>>, <<b, a>>} : i \in bits}
    IN  IF ver < 7 THEN [cells |-> {}, dark |-> {}]
        ELSE [cells |-> Marks(0..17), dark |-> Marks(VersionWord(ver))]

Draw(m, p) == [dark |-> (m.dark \ p.cells) \cup p.dark, function |-> m.function \cup p.cells]

\* drawFunctionPatterns
FunctionPatterns(ver, ecl) ==
    FoldLeft(Draw, [dark |-> {}, function |-> {}],
             <<Timing(ver)>> \o Finders(ver)
             \o <<Alignments(ver), Format(ver, ecl, 0), VersionInfo(ver)>>)

-----------------------------------------------------------------------------
(* Codewords: their blocks and their places.                               *)

\* Blocks of data: the later ones may be one codeword longer.
NumShortBlocks(ver, ecl) ==
    LET n == NumErrorCorrectionBlocks[ecl][ver] IN n - (RawCodewords(ver) % n)
ShortDataLen(ver, ecl) ==
    RawCodewords(ver) \div NumErrorCorrectionBlocks[ecl][ver] - EccCodewordsPerBlock[ecl][ver]

DataBlocks(data, ver, ecl) ==
    LET short == ShortDataLen(ver, ecl)
        From(b) == (b - 1) * short + Max({0, b - 1 - NumShortBlocks(ver, ecl)})
    IN  Listed([b \in 1..NumErrorCorrectionBlocks[ecl][ver] |->
            SubSeq(data, From(b) + 1,
                   From(b) + short + (IF b <= NumShortBlocks(ver, ecl) THEN 0 ELSE 1))])

\* Column by column; the code pads the short blocks and leaves the padding out.
Columns(blocks, width) ==
    LET OneOf(b, i) == IF i <= Len(blocks[b]) THEN <<blocks[b][i]>> ELSE <<>>
    IN  FlattenSeq([i \in 1..width |-> FlattenSeq([b \in DOMAIN blocks |-> OneOf(b, i)])])

Interleaved(blocks, eccs) ==
    Columns(blocks, Len(Last(blocks))) \o Columns(eccs, Len(eccs[1]))

\* addEccAndInterleave
AllCodewords(data, ver, ecl) ==
    LET blocks  == DataBlocks(data, ver, ecl)
        divisor == Divisor(EccCodewordsPerBlock[ecl][ver])
    IN  Interleaved(blocks, Listed([b \in DOMAIN blocks |-> Remainder(blocks[b], divisor)]))

\* The order in which drawCodewords visits the modules: pairs of columns from
\* the right, up and down in turn, and never the column at 6
Zigzag(ver) ==
    LET n == Size(ver)
        Place(k) == LET pair  == n - 1 - 2 * (k \div (2 * n))
                        right == IF pair <= 6 THEN pair - 1 ELSE pair
                        vert  == (k % (2 * n)) \div 2
                        upward == ((right + 1) \div 2) % 2 = 0
                    IN  <<right - (k % 2), IF upward THEN n - 1 - vert ELSE vert>>
    IN  [k \in 1..n * (n - 1) |-> Place(k - 1)]

DataModules(ver, function) == SelectSeq(Zigzag(ver), LAMBDA m : m \notin function)

\* drawCodewords: the bits of the codewords, the highest first
DarkData(codewords, ver, function) ==
    LET places == DataModules(ver, function)
    IN  {places[k] : k \in {i \in 1..Min({8 * Len(codewords), Len(places)}) :
                               7 - ((i - 1) % 8) \in codewords[(i - 1) \div 8 + 1]}}

-----------------------------------------------------------------------------
(* Masks.                                                                  *)

Inverts(msk, x, y) ==
    CASE msk = 0 -> (x + y) % 2 = 0
      [] msk = 1 -> y % 2 = 0
      [] msk = 2 -> x % 3 = 0
      [] msk = 3 -> (x + y) % 3 = 0
      [] msk = 4 -> ((x \div 3) + (y \div 2)) % 2 = 0
      [] msk = 5 -> ((x * y) % 2) + ((x * y) % 3) = 0
      [] msk = 6 -> (((x * y) % 2) + ((x * y) % 3)) % 2 = 0
      [] msk = 7 -> (((x + y) % 2) + ((x * y) % 3)) % 2 = 0

\* applyMask
Masked(dark, msk, ver, function) ==
    SymDiff(dark, {m \in Modules(ver) \ function : Inverts(msk, m[1], m[2])})

\* The lengths of the last seven runs of a line, the newest first; the first of
\* a line counts the light border.
AddHistory(run, rh, size) ==
    <<IF rh[1] = 0 THEN run + size ELSE run>> \o SubSeq(rh, 1, 6)

\* finderPenaltyCountPatterns
CountPatterns(rh) ==
    LET n == rh[2]
        core == n > 0 /\ rh[3] = n /\ rh[4] = 3 * n /\ rh[5] = n /\ rh[6] = n
    IN  (IF core /\ rh[1] >= 4 * n /\ rh[7] >= n THEN 1 ELSE 0)
        + (IF core /\ rh[7] >= 4 * n /\ rh[1] >= n THEN 1 ELSE 0)

\* One module of a line, in getPenaltyScore
LineStep(s, colour, size) ==
    IF colour = s.colour
    THEN [s EXCEPT !.run = @ + 1,
                   !.score = @ + (IF s.run + 1 = 5 THEN 3 ELSE IF s.run + 1 > 5 THEN 1 ELSE 0)]
    ELSE LET rh == AddHistory(s.run, s.history, size)
         IN  [colour |-> colour, run |-> 1, history |-> rh,
              score |-> s.score + (IF s.colour THEN 0 ELSE 40 * CountPatterns(rh))]

LineEnd(line) ==
    FoldLeft(LAMBDA s, c : LineStep(s, c, Len(line)),
             [colour |-> FALSE, run |-> 0, history |-> <<0, 0, 0, 0, 0, 0, 0>>, score |-> 0],
             line)

\* Mutant of LinePenalty: the light border at the end of the line is left out.
MutantLinePenaltyNoBorder(line) ==
    LET end == LineEnd(line)
    IN  end.score + 40 * CountPatterns(AddHistory(end.run, end.history, Len(line)))

\* Both of the line's ends touch the light border.
\* finderPenaltyTerminateAndCount
LinePenalty(line) ==
    LET size == Len(line)
        end  == LineEnd(line)
        last == IF end.colour
                THEN AddHistory(size, AddHistory(end.run, end.history, size), size)
                ELSE AddHistory(end.run + size, end.history, size)
    IN  end.score + 40 * CountPatterns(last)

RowOf(dark, y, size) == Listed([x \in 1..size |-> <<x - 1, y>> \in dark])
ColumnOf(dark, x, size) == Listed([y \in 1..size |-> <<x, y - 1>> \in dark])

\* Blocks of two by two modules of one colour
Blocks(dark, ver) ==
    {m \in Modules(ver) : /\ <<m[1] + 1, m[2] + 1>> \in Modules(ver)
                          /\ Cardinality({m, <<m[1] + 1, m[2]>>, <<m[1], m[2] + 1>>,
                                          <<m[1] + 1, m[2] + 1>>} \cap dark) \in {0, 4}}

\* How far from half of the modules are dark, in steps of a twentieth
Imbalance(dark, ver) ==
    LET total == Size(ver) * Size(ver)
    IN  (Abs(20 * Cardinality(dark) - 10 * total) + total - 1) \div total - 1

\* getPenaltyScore
PenaltyScore(dark, ver) ==
    LET size == Size(ver)
        Total(f) == FoldFunction(+, 0, f)
    IN  Total([y \in 1..size |-> LinePenalty(RowOf(dark, y - 1, size))])
        + Total([x \in 1..size |-> LinePenalty(ColumnOf(dark, x - 1, size))])
        + 3 * Cardinality(Blocks(dark, ver))
        + 10 * Imbalance(dark, ver)

\* The first mask of the smallest penalty; scores is indexed by mask
BestMask(scores) ==
    Min({k \in 0..7 : \A j \in 0..7 : scores[k] <= scores[j]})

\* The constructor: every mask is tried.
Drawn(data, ver, ecl) ==
    LET patterns == FunctionPatterns(ver, ecl)
        filled   == patterns.dark \cup DarkData(AllCodewords(data, ver, ecl), ver, patterns.function)
        tried    == [k \in 0..7 |-> Draw([dark |-> Masked(filled, k, ver, patterns.function),
                                          function |-> {}], Format(ver, ecl, k)).dark]
        msk      == BestMask([k \in 0..7 |-> PenaltyScore(tried[k], ver)])
    IN  [version |-> ver, level |-> ecl, mask |-> msk, dark |-> tried[msk]]

-----------------------------------------------------------------------------
(* encodeText: the bytes of a text, each a set of bits.                    *)

CountBits(ver) == IF ver < 10 THEN 8 ELSE 16
Fits(n, ver, ecl) == 4 + CountBits(ver) + 8 * n <= 8 * NumDataCodewords(ver, ecl)

TooLong(n, ecl) == \A v \in Versions : ~Fits(n, v, ecl)
VersionFor(n, ecl) == Min({v \in Versions : Fits(n, v, ecl)})

\* append: the bits of val, the highest first
Bits(val, len) == [i \in 1..len |-> len - i \in val]

\* A terminator, zeros to the next codeword, then 0xec and 0x11 in turn
Padded(bits, capacity) ==
    LET ended == bits \o Bits({}, Min({4, capacity - Len(bits)}))
        whole == ended \o Bits({}, (8 - (Len(ended) % 8)) % 8)
    IN  whole \o FlattenSeq([k \in 1..(capacity - Len(whole)) \div 8 |->
                               Bits(BitsOf(IF k % 2 = 1 THEN 236 ELSE 17), 8)])

DataCodewords(bytes, ver, ecl) ==
    LET header == Bits({2}, 4) \o Bits(BitsOf(Len(bytes)), CountBits(ver))
        text   == [i \in 1..8 * Len(bytes) |-> 7 - ((i - 1) % 8) \in bytes[(i - 1) \div 8 + 1]]
        bits   == Padded(header \o text,
                         8 * NumDataCodewords(ver, ecl))
    IN  Listed([k \in 1..Len(bits) \div 8 |-> {i \in 0..7 : bits[8 * k - i]}])

EncodeText(bytes, ecl) ==
    LET ver == VersionFor(Len(bytes), ecl)
    IN  Drawn(DataCodewords(bytes, ver, ecl), ver, ecl)
=============================================================================

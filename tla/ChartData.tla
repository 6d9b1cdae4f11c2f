----------------------------- MODULE ChartData -----------------------------
(***************************************************************************)
(* What a chart of the graph page does with its data: the CSV text of the  *)
(* web process becomes rows (parseCSV_), a row's cells become series       *)
(* (extractSeries of the data handlers), a series is averaged over the     *)
(* roll period that the text box of the chart sets (rollingAverage), the   *)
(* series are cut to the date window, stacked, measured (gatherDatasets_)  *)
(* and the range of the y-axis follows (computeYAxisRanges_).              *)
(* src/server/static/dygraph.js, which templates/graph.html runs.          *)
(*                                                                         *)
(* A value is an integer number of Units, or Null, or NaN; a Unit divides  *)
(* by every number of rows a mean is taken over.  Rows and columns are     *)
(* counted from one.  A cell is a tuple as the handler of the mode wants   *)
(* it: <<y>>, <<y, error>>, <<low, mid, high>> or <<num, den>>.  Roots are *)
(* taken to a twelfth of a Unit.                                           *)
(***************************************************************************)
EXTENDS Integers, FiniteSets, TLC, Sequences, SequencesExt, FiniteSetsExt

CONSTANTS
    Null,        \* the null of JavaScript
    NaN,         \* its not-a-number
    Fraction,    \* a roll period of two and a half, typed into the text box
    Unit,        \* one unit of the data
    Sigma,       \* the option sigma
    Columns      \* the series of the chart, 1..n

-----------------------------------------------------------------------------
(* Numbers of JavaScript. *)
Num(v) == IF v = Null THEN 0 ELSE v
Plus(a, b) == IF NaN \in {a, b} THEN NaN ELSE Num(a) + Num(b)
Minus(a, b) == IF NaN \in {a, b} THEN NaN ELSE Num(a) - Num(b)
NotPositive(v) == v # NaN /\ Num(v) <= 0
Missing(y) == y \in {Null, NaN}

\* A cell's text as a number: blank and unreadable text (the None of a missing reading) is null.
ParseFloat(text) == CASE text.kind = "number" -> text.n
                      [] text.kind = "nan"    -> NaN
                      [] OTHER                -> Null

\* The members of a set of numbers, the smallest first.
InOrder(S) == [p \in 1..Cardinality(S) |-> CHOOSE i \in S : Cardinality({j \in S : j <= i}) = p]

-----------------------------------------------------------------------------
(* The CSV text. *)

\* Blank lines, comments and lines of one field are no rows; nor is a first line
\* in which nothing is a number, which repeats the labels.
ParsedRow(l) == [x |-> l.x, cells |-> [c \in Columns |-> [k \in DOMAIN l.cells[c] |-> ParseFloat(l.cells[c][k])]]]
AllFalsy(row) == row.x \in {NaN, 0} /\ \A c \in Columns : row.cells[c] \in {<<Null>>, <<NaN>>, <<0>>}
ParsedRows(lines) ==
    LET isRow(i) == /\ lines[i].kind = "row"
                    /\ ~ (i = 1 /\ AllFalsy(ParsedRow(lines[i])))
        kept == InOrder({i \in DOMAIN lines : isRow(i)})
    IN  [i \in DOMAIN kept |-> ParsedRow(lines[kept[i]])]

OutOfOrder(rows) == \E i \in DOMAIN rows \ {1} : rows[i].x < rows[i - 1].x

\* Array.sort by x, which keeps the order of rows of one x.
SortByX(rows) ==
    LET place(i) == Cardinality({j \in DOMAIN rows : \/ rows[j].x < rows[i].x
                                                     \/ rows[j].x = rows[i].x /\ j <= i})
    IN  [p \in DOMAIN rows |-> rows[CHOOSE i \in DOMAIN rows : place(i) = p]]

parseCSV(lines) ==
    LET rows == ParsedRows(lines) IN IF OutOfOrder(rows) THEN SortByX(rows) ELSE rows

(* Mutant: the first hit of the halving is taken, be it the first row of its x or not. *)
Bug_getRowForX(rows, xVal) ==
    LET find[r \in (1..Len(rows) + 1) \X (0..Len(rows))] ==
            LET low == r[1]  high == r[2]  idx == (low - 1 + high - 1) \div 2 + 1 IN
            IF low > high THEN Null
            ELSE IF rows[idx].x < xVal THEN find[<<idx + 1, high>>]
            ELSE IF rows[idx].x > xVal THEN find[<<low, idx - 1>>]
            ELSE idx
    IN  find[<<1, Len(rows)>>]

\* The first row of an x, found by halving; Null when there is none.
getRowForX(rows, xVal) ==
    LET find[r \in (1..Len(rows) + 1) \X (0..Len(rows))] ==
            LET low == r[1]  high == r[2]  idx == (low - 1 + high - 1) \div 2 + 1 IN
            IF low > high THEN Null
            ELSE IF rows[idx].x < xVal THEN find[<<idx + 1, high>>]
            ELSE IF rows[idx].x > xVal THEN find[<<low, idx - 1>>]
            ELSE IF low # idx THEN find[<<low, idx>>]
            ELSE idx
    IN  find[<<1, Len(rows)>>]

-----------------------------------------------------------------------------
(* extractSeries: a series is a sequence of [x, y, ext].                   *)

Point(x, y, ext) == [x |-> x, y |-> y, ext |-> ext]

\* On a logarithmic scale a cell that reaches zero leaves a gap.
DefaultPoint(x, cell, log) ==
    Point(x, IF log /\ NotPositive(cell[1]) THEN Null ELSE cell[1], <<>>)

ErrorPoint(x, cell, log) ==
    LET y == cell[1]  err == cell[2] IN
    IF log /\ (NotPositive(y) \/ NotPositive(Minus(y, Sigma * Num(err)))) THEN Point(x, Null, <<Null, Null, Null>>)
    ELSE IF Missing(y) THEN Point(x, y, <<y, y, y>>)
    ELSE Point(x, y, <<y - Sigma * Num(err), y + Sigma * Num(err), err>>)

CustomPoint(x, cell, log) ==
    IF log /\ \E k \in 1..3 : NotPositive(cell[k]) THEN Point(x, Null, <<Null, Null>>)
    ELSE IF Missing(cell[2]) THEN Point(x, cell[2], <<cell[2], cell[2]>>)
    ELSE Point(x, cell[2], <<cell[1], cell[3]>>)

\* A ratio in Units; without a denominator it is zero.
Ratio(num, den) == IF den \in {NaN, Null, 0} THEN 0
                   ELSE IF num = NaN THEN NaN
                   ELSE (Unit * Num(num)) \div den

FractionPoint(x, cell, log) ==
    LET num == cell[1]  den == cell[2] IN
    IF log /\ (NotPositive(num) \/ NotPositive(den)) THEN Point(x, Null, <<Null, Null>>)
    ELSE IF Missing(num) THEN Point(x, num, <<num, den>>)
    ELSE Point(x, Ratio(num, den), <<num, den>>)

\* With error bars a ratio has a binomial bar around it (all of the chart without a denominator).
Root(v) == LET grid == Unit \div 12 IN Max({w \in {k * grid : k \in 0..24} : w * w <= v})
BinomialBar(num, den) == IF den \in {NaN, Null, 0} THEN Unit
                         ELSE Sigma * Root((Unit * Unit * Num(num) * (den - Num(num))) \div (den * den * den))

FractionBarsPoint(x, cell, log) ==
    LET num == cell[1]  den == cell[2]  y == Ratio(num, den)  bar == BinomialBar(num, den) IN
    IF log /\ (NotPositive(num) \/ NotPositive(den)) THEN Point(x, Null, <<Null, Null, Null, Null>>)
    ELSE IF Missing(num) THEN Point(x, num, <<num, num, num, den>>)
    ELSE Point(x, y, <<y - bar, y + bar, num, den>>)

\* getHandlerClass_: fractions before custom bars before error bars.
extractSeries(mode, rows, c) ==
    [i \in DOMAIN rows |->
        LET x == rows[i].x  cell == rows[i].cells[c] IN
        CASE mode.kind = "fractionBars" -> FractionBarsPoint(x, cell, mode.log)
          [] mode.kind = "fractions"  -> FractionPoint(x, cell, mode.log)
          [] mode.kind = "customBars" -> CustomPoint(x, cell, mode.log)
          [] mode.kind = "errorBars"  -> ErrorPoint(x, cell, mode.log)
          [] OTHER                    -> DefaultPoint(x, cell, mode.log)]

-----------------------------------------------------------------------------
(* rollingAverage. *)

Square(v) == Num(v) * Num(v)
(* Mutant: one row too many. *)
Bug_WindowOf(i, r) == (IF i - r > 1 THEN i - r ELSE 1)..i
WindowOf(i, r) == (IF i - r + 1 > 1 THEN i - r + 1 ELSE 1)..i
Known(s, w) == {j \in w : ~ Missing(s[j].y)}
Mean(total, n) == total \div n
Total(s, ok) == SumFunction([j \in ok |-> s[j].y])
SquaredErrors(s, ok) == SumFunction([j \in ok |-> Square(s[j].ext[3])])

\* The window is added up anew for every row.
DefaultRolling(s, r) ==
    IF r = 1 THEN s ELSE
    [i \in DOMAIN s |->
        LET ok == Known(s, WindowOf(i, r)) IN
        Point(s[i].x, IF ok = {} THEN Null ELSE Mean(Total(s, ok), Cardinality(ok)), <<>>)]

ErrorRolling(s, r) ==
    [i \in DOMAIN s |->
        LET ok == Known(s, WindowOf(i, r))
            v  == IF r = 1 THEN s[i].y ELSE Null
            m  == Mean(Total(s, ok), Cardinality(ok))
            d  == Sigma * Root(SquaredErrors(s, ok) \div Square(Cardinality(ok)))
        IN  IF ok = {} THEN Point(s[i].x, v, <<v, v>>) ELSE Point(s[i].x, m, <<m - d, m + d>>)]

\* A running sum: the row that enters is added, the row that leaves is taken off.
CustomSums(s, r) ==
    LET add(a, p) == IF Missing(p.y) THEN a
                     ELSE [low |-> Plus(a.low, p.ext[1]), mid |-> a.mid + p.y, high |-> Plus(a.high, p.ext[2]), n |-> a.n + 1]
        sub(a, p) == IF Missing(p.y) THEN a
                     ELSE [low |-> Minus(a.low, p.ext[1]), mid |-> a.mid - p.y, high |-> Minus(a.high, p.ext[2]), n |-> a.n - 1]
        sum[i \in 0..Len(s)] ==
            IF i = 0 THEN [low |-> 0, mid |-> 0, high |-> 0, n |-> 0]
            ELSE LET a == add(sum[i - 1], s[i]) IN IF i - r >= 1 THEN sub(a, s[i - r]) ELSE a
    IN  sum

CustomRolling(s, r) ==
    LET sum == CustomSums(s, r) IN
    [i \in DOMAIN s |->
        LET a == sum[i] IN
        IF a.n = 0 THEN Point(s[i].x, Null, <<Null, Null>>)
        ELSE Point(s[i].x, Mean(a.mid, a.n), <<Mean(a.low, a.n), Mean(a.high, a.n)>>)]

\* A running sum of numerators and denominators, missing rows counting as nothing;
\* they are kept in the last two places of ext.
FractionSums(s, r) ==
    LET of(p) == <<p.ext[Len(p.ext) - 1], p.ext[Len(p.ext)]>>
        sum[i \in 0..Len(s)] ==
            IF i = 0 THEN <<0, 0>>
            ELSE LET a == [k \in 1..2 |-> Plus(sum[i - 1][k], of(s[i])[k])] IN
                 IF i - r >= 1 THEN [k \in 1..2 |-> Minus(a[k], of(s[i - r])[k])] ELSE a
    IN  sum

FractionRolling(s, r) ==
    LET sum == FractionSums(s, r) IN [i \in DOMAIN s |-> Point(s[i].x, Ratio(sum[i][1], sum[i][2]), <<>>)]

\* The Wilson interval of the sums, the default, or the binomial bar.
WilsonBar(num, den) ==
    LET s2  == Sigma * Sigma
        mid == Ratio(num, den) + (s2 * Unit) \div (2 * den)
        pm  == Sigma * Root((Unit * Unit * (4 * num * (den - num) + s2 * den)) \div (4 * den * den * den))
    IN  << ((mid - pm) * den) \div (den + s2), ((mid + pm) * den) \div (den + s2) >>

FractionBarsRolling(s, r, wilson) ==
    LET sum == FractionSums(s, r) IN
    [i \in DOMAIN s |->
        LET num == sum[i][1]  den == sum[i][2]  y == Ratio(num, den)  bar == BinomialBar(num, den) IN
        IF wilson /\ den = 0 THEN Point(s[i].x, 0, <<0, 0>>)
        ELSE Point(s[i].x, y, IF wilson THEN WilsonBar(num, den) ELSE <<y - bar, y + bar>>)]

rollingAverage(mode, s, period) ==
    LET r == IF period < Len(s) THEN period ELSE Len(s) IN
    CASE mode.kind = "fractionBars" -> FractionBarsRolling(s, r, mode.wilson)
      [] mode.kind = "fractions"  -> FractionRolling(s, r)
      [] mode.kind = "customBars" -> CustomRolling(s, r)
      [] mode.kind = "errorBars"  -> ErrorRolling(s, r)
      [] OTHER                    -> DefaultRolling(s, r)

\* A period of two and a half makes the loop read between two rows, which throws,
\* once the series is long enough; until then it works like the next whole number.
Throws(mode, rows, period) ==
    period = Fraction /\ Len(rows) >= (IF mode.kind \in {"default", "errorBars"} THEN 3 ELSE 4)
WholePeriod(period) == IF period = Fraction THEN 3 ELSE period

\* The part of predraw_ that fills rolledSeries_.
rolled(mode, rows, period) ==
    IF Throws(mode, rows, period) THEN <<>>
    ELSE [c \in Columns |->
            LET s == extractSeries(mode, rows, c) IN
            IF WholePeriod(period) > 1 THEN rollingAverage(mode, s, WholePeriod(period)) ELSE s]

-----------------------------------------------------------------------------
(* gatherDatasets_. *)

(* Mutant: the neighbours of the window, whether they have a value or not. *)
Bug_boundaryIds(s, w) ==
    IF w = <<>> THEN <<1, Len(s)>> ELSE
    LET right == {i \in DOMAIN s : s[i].x >= w[1]}
        left  == {i \in DOMAIN s : s[i].x <= w[2]}
        first == IF right = {} THEN 1 ELSE Min(right)
        last  == IF left = {} THEN Len(s) ELSE Max(left)
    IN  << IF first > 1 THEN first - 1 ELSE 1, IF last < Len(s) THEN last + 1 ELSE Len(s) >>

\* The rows of the window and the nearest rows outside that are not null, because
\* lines reach out to them.  All rows, when none lies right (or left) of an edge.
boundaryIds(s, w) ==
    IF w = <<>> THEN <<1, Len(s)>> ELSE
    LET right == {i \in DOMAIN s : s[i].x >= w[1]}
        left  == {i \in DOMAIN s : s[i].x <= w[2]}
        first == IF right = {} THEN 1 ELSE Min(right)
        last  == IF left = {} THEN Len(s) ELSE Max(left)
        before == {i \in 1..first - 1 : s[i].y # Null}
        after  == {i \in last + 1..Len(s) : s[i].y # Null}
    IN  << IF before # {} THEN Max(before) ELSE 1, IF after # {} THEN Min(after) ELSE Len(s) >>

BarKinds == {"customBars", "errorBars", "fractionBars"}

\* getExtremeYValues of the handlers: <<Null, Null>> when there is nothing to measure.
getExtremeYValues(mode, s) ==
    LET ok   == {i \in DOMAIN s : ~ Missing(s[i].y)}
        bars == mode.kind \in BarKinds
        low(i)  == IF bars /\ Num(s[i].ext[1]) < s[i].y THEN Num(s[i].ext[1]) ELSE s[i].y
        high(i) == IF bars /\ Num(s[i].ext[2]) > s[i].y THEN Num(s[i].ext[2]) ELSE s[i].y
    IN  IF ok = {} THEN <<Null, Null>> ELSE << Min({low(i) : i \in ok}), Max({high(i) : i \in ok}) >>

\* seriesToPoints: idx is the row of the data the point came from.
seriesToPoints(s, boundaryIdStart) ==
    [i \in DOMAIN s |-> [xval |-> s[i].x, yval |-> s[i].y, ext |-> s[i].ext, idx |-> i + boundaryIdStart - 1]]

\* The height a point has in its series' layer of a stacked chart.
StackHeight(p, i, fill) ==
    LET prev == {j \in 1..i - 1 : ~ Missing(p[j].yval)}
        next == {j \in i + 1..Len(p) : ~ Missing(p[j].yval)}
        a == p[Max(prev)]
        b == p[Min(next)]
    IN  IF ~ Missing(p[i].yval) THEN p[i].yval
        ELSE CASE fill # "none" /\ prev # {} /\ next # {} ->
                      a.yval + ((b.yval - a.yval) * (p[i].xval - a.xval)) \div (b.xval - a.xval)
               [] fill = "all" /\ prev # {} /\ next = {}   -> a.yval
               [] fill = "all" /\ prev = {} /\ next # {}   -> b.yval
               [] OTHER                                   -> 0

Heightened(p, height) == [xval |-> p.xval, yval |-> p.yval, ext |-> p.ext, idx |-> p.idx, stacked |-> height]

\* A table with the entries of another behind its own.
Over(f, g) == [x \in DOMAIN f \cup DOMAIN g |-> IF x \in DOMAIN f THEN f[x] ELSE g[x]]

(* Mutant: every point of an x is put on the stack, not only the first. *)
Bug_stackPoints(p, below, fill) ==
    LET at(x) == IF x \in DOMAIN below THEN below[x] ELSE 0
        all(x) == {i \in DOMAIN p : p[i].xval = x}
        sum(x) == at(x) + MapThenSumSet(LAMBDA i : StackHeight(p, i, fill), all(x))
        xs == {p[i].xval : i \in DOMAIN p}
    IN  [points |-> [i \in DOMAIN p |-> Heightened(p[i], sum(p[i].xval))],
         below  |-> Over([x \in xs |-> sum(x)], below)]

\* stackPoints_: a point is put on what the series below have at its x; of the
\* points of one x the first counts.
stackPoints(p, below, fill) ==
    LET at(x) == IF x \in DOMAIN below THEN below[x] ELSE 0
        firstOf(x) == Min({i \in DOMAIN p : p[i].xval = x})
        sum(x) == at(x) + StackHeight(p, firstOf(x), fill)
        xs == {p[i].xval : i \in DOMAIN p}
    IN  [points |-> [i \in DOMAIN p |-> Heightened(p[i], sum(p[i].xval))],
         below  |-> Over([x \in xs |-> sum(x)], below)]

(* Mutant: the extremes of the values serve for the stacked chart too. *)
Bug_Raised(extreme, ys) == extreme

\* A comparison with null sees a zero.
Raised(extreme, ys) == LET seen == {Num(extreme)} \cup ys IN
                       IF Max(seen) = Num(extreme) THEN extreme ELSE Max(seen)
Lowered(extreme, ys) == LET seen == {Num(extreme)} \cup ys IN
                        IF Min(seen) = Num(extreme) THEN extreme ELSE Min(seen)

\* What the series of a stacked chart are put on: each on those after it, from the last to the first.
LayersBelow(pts, fill) ==
    LET last == Max(DOMAIN pts \cup {0})
        below[c \in 0..last] ==
            IF c = last THEN <<>>
            ELSE IF c + 1 \in DOMAIN pts THEN stackPoints(pts[c + 1], below[c + 1], fill).below
            ELSE below[c + 1]
    IN  below

\* The series that are shown, cut to the window, and stacked.
gatherDatasets(mode, series, w, shown, fill) ==
    LET cols == shown \cap DOMAIN series
        ids  == [c \in cols |-> boundaryIds(series[c], w)]
        cut  == [c \in cols |-> SubSeq(series[c], ids[c][1], ids[c][2])]
        pts  == [c \in cols |-> seriesToPoints(cut[c], ids[c][1])]
        ext  == [c \in cols |-> getExtremeYValues(mode, cut[c])]
        stack == [c \in cols |-> stackPoints(pts[c], LayersBelow(pts, fill)[c], fill).points]
        ys    == [c \in cols |-> {stack[c][i].stacked : i \in DOMAIN stack[c]}]
    IN  IF fill = "off"
        THEN [points |-> pts, extremes |-> ext, boundaryIds |-> ids]
        ELSE [points      |-> stack,
              extremes    |-> [c \in cols |-> <<Lowered(ext[c][1], ys[c]), Raised(ext[c][2], ys[c])>>],
              boundaryIds |-> ids]

-----------------------------------------------------------------------------
(* computeYAxisRanges_, for the one axis of the chart. *)
Abs(v) == IF v < 0 THEN -v ELSE v

\* The pad above and below is a tenth of the span: the range is counted in tenths.  A range
\* that comes from zero begins there; a logarithmic scale has no zero and is padded at the top.
computeYAxisRange(extremes, zero, log) ==
    LET toZero == zero /\ ~ log
        lows  == {extremes[c][1] : c \in DOMAIN extremes} \ {Null}
        highs == {extremes[c][2] : c \in DOMAIN extremes} \ {Null}
        minY0 == IF toZero /\ lows # {} /\ Min(lows) > 0 THEN 0 ELSE IF lows = {} THEN 0 ELSE Min(lows)
        maxY0 == IF toZero /\ (highs = {} \/ Max(highs) < 0) THEN 0 ELSE IF highs = {} THEN Unit ELSE Max(highs)
        flat  == maxY0 = minY0
        maxY  == IF flat /\ maxY0 = 0 THEN Unit ELSE maxY0
        span  == CASE ~ flat               -> maxY0 - minY0
                   [] flat /\ maxY0 # 0    -> Abs(maxY0)
                   [] OTHER                -> Unit
        low   == 10 * minY0 - span
        high  == 10 * maxY + span
    IN  IF log THEN <<10 * minY0, high>>
        ELSE << IF low < 0 /\ minY0 >= 0 THEN 0 ELSE low, IF high > 0 /\ maxY <= 0 THEN 0 ELSE high >>
=============================================================================

----------------------------- MODULE ChartPaint -----------------------------
(***************************************************************************)
(* How a chart is put on the canvas: the layout gives every point its      *)
(* place (_evaluateLineCharts, _updatePoints), and three plotters write    *)
(* paths: lines (_drawSeries), bars of error (_errorPlotter) and filled    *)
(* areas (_fillPlotter), which for dense data pass through a proxy that    *)
(* drops most of them (_fastCanvasProxy).  src/server/static/dygraph.js.   *)
(*                                                                         *)
(* The chart is as in ChartData; its rows come one after another.  A path  *)
(* is a sequence of <<op, x, y>>, op "M" for moveTo and "L" for lineTo.    *)
(* Two units of x are one pixel; one unit of a value is one pixel high.    *)
(* The canvas closes every part of a path it fills, so closePath is left   *)
(* out, and it ignores a call with a NaN, as HTML wants it.                *)
(***************************************************************************)
EXTENDS ChartData

CONSTANTS
    Charts,     \* the charts of the page
    Height      \* of the plot area, in pixels

\* Values are numbers, null or NaN, and the rows come in the order of their x.  A stacked
\* chart is drawn in steps or in lines, not in both, when lines are drawn through gaps: the
\* baseline of a step is a pair, that of a line is not.
ASSUME ChartsAssumption ==
    /\ Null # NaN /\ {Null, NaN} \cap Int = {} /\ Height \in Int
    /\ \A c \in Charts :
          /\ IsFiniteSet(c.series) /\ c.series \subseteq Nat \ {0}
          /\ c.values \subseteq Int \cup {Null, NaN} /\ c.steps \subseteq Nat /\ c.low \in Int
          /\ c.fill # "off" /\ c.connect => c.step \in {{}, c.series}

VARIABLES
    chart,      \* its options and what may be in its data
    rows,       \* the rows so far: [x, ys], a value for every series
    layout,     \* layout_.points: a place for every value
    painted     \* the paths on the canvas, and the mini plot
paintVars == <<chart, rows, layout, painted>>

-----------------------------------------------------------------------------
(* The layout. *)

\* The place of a value; the lower end of the axis is at the bottom.
CanvasY(c, v) == IF v = NaN THEN NaN ELSE Height - (Num(v) - c.low)

\* A filled area ends at zero, or at the edge of the plot nearest to it.
AxisY(c) == LET zero == Height + c.low IN
            CASE zero < 0      -> 0
              [] zero > Height -> Height
              [] OTHER         -> zero

\* _evaluateLineCharts: a missing value has no place; only a line that is drawn
\* through tells null from NaN.
Placed(c, p) ==
    [x       |-> p.xval,
     yval    |-> IF p.yval = Null /\ ~ c.connect THEN NaN ELSE p.yval,
     y       |-> IF Missing(p.yval) THEN NaN ELSE CanvasY(c, IF c.fill = "off" THEN p.yval ELSE p.stacked),
     stacked |-> IF c.fill = "off" THEN NaN ELSE CanvasY(c, p.stacked),
     edges   |-> IF c.bar = Null \/ Missing(p.yval) THEN <<CanvasY(c, p.yval), CanvasY(c, p.yval)>>
                 ELSE << CanvasY(c, Plus(p.yval, c.bar)), CanvasY(c, Minus(p.yval, c.bar)) >>]

\* The points of the series, as gatherDatasets_ and the layout leave them.
LaidOut(c, data) ==
    LET series(s) == [i \in DOMAIN data |-> Point(data[i].x, data[i].ys[s], <<>>)]
        mode == [kind |-> "default", log |-> FALSE, wilson |-> FALSE]
        gathered == gatherDatasets(mode, [s \in c.series |-> series(s)], <<>>, c.series, c.fill)
    IN  [s \in c.series |-> [i \in DOMAIN data |-> Placed(c, gathered.points[s][i])]]

\* createIterator with _getIteratorPredicate: a line that is drawn through skips nulls.
createIterator(c, points) ==
    IF c.connect THEN SelectSeq(points, LAMBDA p : p.yval # Null) ELSE points

\* The members of a sequence that have one of some places in it, in order.
picked(p, places) ==
    LET upTo[i \in 0..Len(p)] == IF i = 0 THEN <<>>
                                 ELSE IF i \in places THEN Append(upTo[i - 1], p[i]) ELSE upTo[i - 1]
    IN  upTo[Len(p)]

Seen(path) == picked(path, {i \in DOMAIN path : NaN \notin {path[i][2], path[i][3]}})

-----------------------------------------------------------------------------
(* The line of a series. *)

\* _predicateThatSkipsEmptyPoints, where lines are drawn through gaps.
accepted(c, p) == c.connect => p.yval # Null

(* Mutant: a gap does not lift the pen. *)
Bug_strokeTo(c, s, points, i, pen) ==
    LET p == points[i] IN
    IF ~ accepted(c, p) \/ p.y = NaN THEN pen
    ELSE [prev |-> <<p.x, p.y>>, dots |-> IF pen.prev = <<>> THEN pen.dots \cup {<<p.x, p.y>>} ELSE pen.dots,
          path |-> pen.path \o << <<IF pen.prev = <<>> THEN "M" ELSE "L", p.x, p.y>> >>]

\* One turn of the loop of _drawSeries: the pen goes on to point i, unless the iterator skips it.
\* A point without a line on either side is isolated and gets a dot (_drawPointsOnLine); so
\* do, on demand, all points or those at a gap.
strokeTo(c, s, points, i, pen) ==
    LET p        == points[i]
        here     == <<p.x, p.y>>
        up       == pen.prev = <<>>
        first    == \A k \in 1..i - 1 : ~ accepted(c, points[k])
        next     == {k \in i + 1..Len(points) : accepted(c, points[k])}
        nextGone == next = {} \/ points[Min(next)].y = NaN
        isolated == \/ up /\ nextGone
                    \/ c.gapPoints /\ ((~ first /\ up) \/ (next # {} /\ nextGone))
        back     == <<"M", pen.prev[1], pen.prev[2]>>
        across   == <<"L", p.x, pen.prev[2]>>
    IN  IF ~ accepted(c, p) THEN pen
        ELSE IF p.y = NaN
        THEN [path |-> IF s \in c.step /\ ~ up THEN pen.path \o <<back, across>> ELSE pen.path,
              dots |-> pen.dots,
              prev |-> <<>>]
        ELSE [path |-> pen.path \o (IF up THEN << <<"M", p.x, p.y>> >>
                                    ELSE IF s \in c.step THEN << back, across, <<"L", p.x, p.y>> >>
                                    ELSE << <<"L", p.x, p.y>> >>),
              dots |-> IF c.drawPoints \/ isolated THEN pen.dots \cup {here} ELSE pen.dots,
              prev |-> here]

\* _drawSeries: the pen after every point.
drawSeries(c, s, points) ==
    LET pen[i \in 0..Len(points)] ==
            IF i = 0 THEN [prev |-> <<>>, path |-> <<>>, dots |-> {}]
            ELSE strokeTo(c, s, points, i, pen[i - 1])
    IN  [path |-> pen[Len(points)].path, dots |-> pen[Len(points)].dots]

-----------------------------------------------------------------------------
(* The band of the error bars. *)

\* One four-cornered piece from a point to the next; a step keeps the height of the former.
errorPlotter(c, s, points) ==
    LET step == s \in c.step
        visit(acc, p) ==
            LET newYs == [k \in 1..2 |-> IF p.edges[k] = NaN THEN p.y ELSE p.edges[k]]
                to    == IF step THEN acc.prevYs ELSE newYs
                piece == << <<"M", acc.prevX, acc.prevYs[1]>>, <<"L", p.x, to[1]>>,
                            <<"L", p.x, to[2]>>, <<"L", acc.prevX, acc.prevYs[2]>> >>
            IN  IF \/ ~ step /\ p.y = NaN
                   \/ step /\ acc.prevY = Null
                THEN [acc EXCEPT !.prevX = NaN]
                ELSE [prevX |-> p.x, prevYs |-> newYs, prevY |-> IF step THEN p.y ELSE acc.prevY,
                      path |-> IF acc.prevX = NaN THEN acc.path ELSE acc.path \o piece]
    IN  FoldLeft(visit, [prevX |-> NaN, prevYs |-> <<-1, -1>>, prevY |-> NaN, path |-> <<>>],
                 createIterator(c, points)).path

-----------------------------------------------------------------------------
(* The filled areas. *)

\* From the end of a run of points down to the baseline and, on a stacked chart, back along it.
traceBackPath(c, x, y, pathBack) ==
    << <<"L", x, y>> >> \o
    IF c.fill = "off" THEN <<>> ELSE Reverse([i \in DOMAIN pathBack |-> <<"L", pathBack[i][1], pathBack[i][2]>>])

(* Mutant: the baseline of a value that is missing is not kept. *)
Bug_baselineOfMissing(baseline, p) == baseline

\* A missing value of a stacked chart may still be a place to stand on.
baselineOfMissing(baseline, p) ==
    IF p.stacked = NaN THEN baseline ELSE (p.x :> <<p.stacked, p.stacked>>) @@ baseline

\* One turn of the loop over a series.  low.at is the top of the series below by x, which
\* for a step is <<right of x, left of x>>; low.step tells whether it was drawn in steps.
fillTo(c, s, points, i, acc, low) ==
    LET p       == points[i]
        step    == s \in c.step
        stacked == c.fill # "off"
        curr    == IF p.x \in DOMAIN acc.at THEN acc.at[p.x] ELSE <<>>
        bottom  == IF ~ stacked \/ curr = <<>> THEN AxisY(c) ELSE curr[1]
        newYs   == <<IF ~ stacked /\ p.y = NaN THEN Height ELSE p.y, bottom>>
        top     == <<p.y, IF ~ step THEN p.y ELSE IF acc.prevYs[1] = -1 THEN AxisY(c) ELSE acc.prevYs[1]>>
        corner  == IF low.step /\ curr # <<>> THEN curr[2] ELSE bottom
    IN  IF ~ accepted(c, p) THEN acc
        ELSE IF p.y = NaN /\ ~ step
        THEN [path  |-> acc.path \o traceBackPath(c, acc.prevX, acc.prevYs[2], acc.back),
              back  |-> <<>>, prevX |-> NaN, at |-> baselineOfMissing(acc.at, p), prevYs |-> acc.prevYs,
              lastX |-> acc.lastX, lastPoint |-> p.x, bottom |-> acc.bottom]
        ELSE IF stacked /\ acc.lastX = p.x THEN [acc EXCEPT !.lastPoint = p.x]
        ELSE [path  |-> acc.path \o (IF acc.prevX = NaN THEN << <<"M", p.x, bottom>>, <<"L", p.x, newYs[1]>> >>
                                     ELSE IF step THEN << <<"L", p.x, acc.prevYs[1]>>, <<"L", p.x, newYs[1]>> >>
                                     ELSE << <<"L", p.x, newYs[1]>> >>),
              back  |-> IF stacked /\ acc.prevX # NaN
                        THEN acc.back \o << <<acc.prevX, acc.prevYs[2]>>, <<p.x, corner>> >> ELSE acc.back,
              at    |-> IF stacked THEN (p.x :> top) @@ acc.at ELSE acc.at,
              prevX |-> p.x, prevYs |-> newYs, lastX |-> p.x, lastPoint |-> p.x, bottom |-> bottom]

\* One series of _fillPlotter.  The last point and the bottom of the last one that was filled
\* (newYs[1]) may be those of an earlier series.
fillSeries(c, s, points, low) ==
    LET acc[i \in 0..Len(points)] ==
            IF i = 0 THEN [path |-> <<>>, back |-> <<>>, at |-> low.at, prevX |-> NaN, prevYs |-> <<-1, -1>>,
                           lastX |-> NaN, lastPoint |-> low.lastPoint, bottom |-> low.bottom]
            ELSE fillTo(c, s, points, i, acc[i - 1], low)
        out == acc[Len(points)]
    IN  [path |-> IF out.bottom = NaN THEN out.path
                  ELSE out.path \o traceBackPath(c, out.lastPoint, out.bottom, out.back),
         low  |-> [at |-> out.at, step |-> s \in c.step, lastPoint |-> out.lastPoint, bottom |-> out.bottom]]

\* _fillPlotter: from the last series to the first.
fillPlotter(c, laidOut) ==
    LET last == Max(c.series \cup {0})
        low[s \in 0..last] ==
            IF s = last THEN [at |-> <<>>, step |-> FALSE, lastPoint |-> NaN, bottom |-> NaN]
            ELSE IF s + 1 \in c.series THEN fillSeries(c, s + 1, laidOut[s + 1], low[s + 1]).low
            ELSE low[s + 1]
    IN  [s \in c.series |-> fillSeries(c, s, laidOut[s], low[s]).path]

-----------------------------------------------------------------------------
(* The proxy of dense charts. *)
Round(x) == IF x = NaN THEN NaN ELSE (x + 1) \div 2      \* to whole pixels
Wider(a, b) == NaN \notin {a, b} /\ a - b > 2            \* by more than a pixel
Pixel(rx) == IF rx = NaN THEN NaN ELSE 2 * rx

\* A moveTo to where the pen is, or before another moveTo, is dropped; ...
withoutIdle(p) ==
    picked(p, {i \in DOMAIN p : ~ /\ p[i][1] = "M" /\ i > 1 /\ Tail(p[i]) = Tail(p[i - 1])
                                  /\ NaN \notin {p[i][2], p[i][3]}})
withoutDoubled(p) == picked(p, {i \in DOMAIN p : ~ (p[i][1] = "M" /\ i < Len(p) /\ p[i + 1][1] = "M")})

\* ... so is, where the picture may suffer, all but the first moveTo and the lowest and highest lineTo.
lossy(p) ==
    LET lines == {i \in DOMAIN p : p[i][1] = "L"}
        first == Min(lines)
        ys    == {p[i][3] : i \in lines} \ {NaN}
        at(y) == IF p[first][3] = NaN THEN first ELSE Min({i \in lines : p[i][3] = y})
    IN  picked(p, {i \in {1} : p[i][1] = "M"} \cup {at(Min(ys)), at(Max(ys))})

compressed(p, losslessOnly) == IF losslessOnly \/ Len(p) <= 2 THEN p ELSE lossy(p)
compressActions(pending, losslessOnly) ==
    IF Len(pending) <= 1 THEN pending ELSE compressed(withoutDoubled(withoutIdle(pending)), losslessOnly)

flushActions(p, losslessOnly) ==
    LET sent == compressActions(p.pending, losslessOnly)
    IN  [pending |-> <<>>, out |-> p.out \o sent,
         lastFlushedX |-> IF sent = <<>> THEN p.lastFlushedX ELSE Last(sent)[2]]

(* Mutant: only a gap on the left keeps the points of a column. *)
Bug_addAction(p, a) ==
    LET rx == Round(a[2])
        new == p.lastRoundedX = Null \/ rx = NaN \/ rx # p.lastRoundedX
        gap == p.pending # <<>> /\ p.lastFlushedX # Null /\ Wider(Pixel(p.lastRoundedX), p.lastFlushedX)
        q == IF new THEN flushActions(p, gap) ELSE p
    IN  [pending |-> Append(q.pending, a), lastRoundedX |-> rx, lastFlushedX |-> q.lastFlushedX, out |-> q.out]

\* A column of pixels is flushed when the next one begins, whole when there is a gap
\* on either side of it: its first and last point are the ends of long lines.
addAction(p, a) ==
    LET rx == Round(a[2])
        new == p.lastRoundedX = Null \/ rx = NaN \/ rx # p.lastRoundedX
        gap == /\ p.pending # <<>>
               /\ \/ Wider(Pixel(p.lastRoundedX), IF p.lastFlushedX = Null THEN 0 ELSE p.lastFlushedX)
                  \/ Wider(Pixel(rx), Pixel(p.lastRoundedX))
        q == IF new THEN flushActions(p, gap) ELSE p
    IN  [pending |-> Append(q.pending, a), lastRoundedX |-> rx, lastFlushedX |-> q.lastFlushedX, out |-> q.out]

\* _fastCanvasProxy around the calls of one fill; fill() flushes what is left.
fastCanvas(path) ==
    LET proxy[i \in 0..Len(path)] ==
            IF i = 0 THEN [pending |-> <<>>, lastRoundedX |-> Null, lastFlushedX |-> Null, out |-> <<>>]
            ELSE addAction(proxy[i - 1], path[i])
    IN  flushActions(proxy[Len(path)], TRUE).out

-----------------------------------------------------------------------------
(* The mini plot of the range selector, as wide as the chart.  Values are counted in  *)
(* eighths, so that the mean of two and a quarter of their range are whole numbers.   *)

\* computeCombinedSeriesAndLimits_: the mean of the shown series in every row (0 / 0 when none
\* has a value), and a range that leaves room; that of a negative constant is upside down.
computeCombinedSeriesAndLimits(c, data) ==
    LET mean(ys) == LET known == {s \in c.series : ~ Missing(ys[s])} IN
                    IF known = {} THEN NaN
                    ELSE (8 * MapThenSumSet(LAMBDA s : ys[s], known)) \div Cardinality(known)
        combined == [i \in DOMAIN data |-> mean(data[i].ys)]
        ys       == Range(combined) \ {NaN}
        extra    == (IF Cardinality(ys) = 1 THEN Max(ys) ELSE Max(ys) - Min(ys)) \div 4
    IN  IF ys = {} THEN [data |-> combined, yMin |-> 0, yMax |-> 0]
        ELSE [data |-> combined, yMin |-> Min(ys) - extra, yMax |-> Max(ys) + extra]

\* drawMiniPlot_: one area over the bottom; a point in the column of pixels of the one before
\* is skipped, and where the range is empty nothing has a place.
drawMiniPlot(c, data, combined) ==
    LET step     == c.step = c.series
        yRange   == combined.yMax - combined.yMin
        place(v) == IF v = NaN \/ yRange = 0 THEN NaN
                    ELSE IF yRange > 0 THEN combined.yMin - v ELSE v - combined.yMin
        visit(acc, i) ==
            LET x == data[i].x - data[1].x
                y == place(combined.data[i])
                prev == acc.prev
            IN  IF ~ step /\ prev # <<>> /\ Round(x) = Round(prev[1]) THEN acc
                ELSE IF y # NaN
                THEN [prev |-> <<x, y>>,
                      path |-> acc.path \o (IF prev = <<>> THEN << <<"L", x, 0>> >>
                                            ELSE IF step THEN << <<"L", x, prev[2]>> >>
                                            ELSE <<>>) \o << <<"L", x, y>> >>]
                ELSE [prev |-> <<>>,
                      path |-> acc.path \o (IF prev = <<>> THEN <<>>
                                            ELSE IF step THEN << <<"L", x, prev[2]>>, <<"L", x, 0>> >>
                                            ELSE << <<"L", prev[1], 0>> >>)]
        out == FoldLeft(visit, [prev |-> <<>>, path |-> << <<"M", 1, 0>> >>], [i \in DOMAIN data |-> i])
    IN  IF data = <<>> THEN <<>>
        ELSE Append(out.path, <<"L", Last(data).x - data[1].x, 0>>)

-----------------------------------------------------------------------------
\* _renderLineChart with the standard plotters: what is painted for every series, and what
\* the proxy leaves of its area.
renderLineChart(c, laid) ==
    [fills |-> IF c.filled THEN fillPlotter(c, laid) ELSE [s \in c.series |-> <<>>],
     bands |-> [s \in c.series |-> IF c.bar = Null THEN <<>> ELSE errorPlotter(c, s, laid[s])],
     lines |-> [s \in c.series |-> drawSeries(c, s, laid[s])]]

dense(fills) == [s \in DOMAIN fills |-> fastCanvas(fills[s])]
miniPlot(c, data, combined) == [data |-> combined.data, path |-> drawMiniPlot(c, data, combined)]

\* A draw of the chart lays its data out and paints them.
drawGraph(c, data, paths) ==
    [paths |-> paths, fast |-> dense(paths.fills),
     mini |-> miniPlot(c, data, computeCombinedSeriesAndLimits(c, data))]

Init == /\ chart \in Charts
        /\ rows = <<>>
        /\ layout = LaidOut(chart, <<>>)
        /\ painted = drawGraph(chart, <<>>, renderLineChart(chart, layout))

\* The data of the chart has another row.
NextRow == /\ Len(rows) < chart.rows
           /\ \E dx \in chart.steps, ys \in [chart.series -> chart.values] :
                rows' = Append(rows, [x |-> IF rows = <<>> THEN 1 ELSE Last(rows).x + dx, ys |-> ys])
           /\ layout' = LaidOut(chart, rows')
           /\ painted' = drawGraph(chart, rows', renderLineChart(chart, layout'))
           /\ UNCHANGED chart

Next == NextRow
Spec == Init /\ [][Next]_paintVars

-----------------------------------------------------------------------------
\* The row the line goes on to: nulls of a line that is drawn through are no rows.
Onward(s, i) == {k \in i + 1..Len(rows) : /\ ~ (chart.connect /\ rows[k].ys[s] = Null)
                                          /\ \A m \in i + 1..k - 1 : chart.connect /\ rows[m].ys[s] = Null}
Given(s) == {i \in DOMAIN rows : ~ Missing(rows[i].ys[s])}
Neighbours(s) == {e \in Given(s) \X Given(s) : e[2] \in Onward(s, e[1])}
\* Rows between which something is drawn: a step goes on to where the data is missing.
Spans(s) == IF s \in chart.step THEN {e \in Given(s) \X DOMAIN rows : e[2] \in Onward(s, e[1])} ELSE Neighbours(s)

\* The lines of a path, from where the pen is.
Lines(path) == {<< Tail(path[i - 1]), Tail(path[i]) >> : i \in {k \in 2..Len(path) : path[k][1] = "L"}}

\* Every two neighbours of a series are joined (by a step over the earlier one's
\* height, where steps are drawn, which reaches to a gap), no line crosses a gap in the
\* data, and a value that no line touches is drawn as a dot: no reading is invisible
\* (_drawSeries, with the look-ahead of the iterator).
StrokesJoinNeighbours ==
    \A s \in chart.series :
        LET laid     == layout[s]
            at(i)    == <<laid[i].x, laid[i].y>>
            level(i, k) == <<laid[k].x, laid[i].y>>
            drawn    == painted.paths.lines[s]
            touched  == UNION {{e[1], e[2]} : e \in Spans(s)}
        IN  /\ Lines(drawn.path) =
                  IF s \in chart.step
                  THEN {<<at(e[1]), level(e[1], e[2])>> : e \in Spans(s)}
                               \cup {<<level(e[1], e[2]), at(e[2])>> : e \in Neighbours(s)}
                  ELSE {<<at(e[1]), at(e[2])>> : e \in Neighbours(s)}
            /\ \A i \in Given(s) \ touched : at(i) \in drawn.dots

\* Twice the area that a path encloses: its parts are closed by the canvas.
TwiceArea(path) ==
    LET start(i) == Max({j \in 1..i : j = 1 \/ path[j][1] = "M"})
        to(i)    == IF i < Len(path) /\ path[i + 1][1] = "L" THEN path[i + 1] ELSE path[start(i)]
    IN  - MapThenSumSet(LAMBDA i : (to(i)[2] - path[i][2]) * (path[i][3] + to(i)[3]), DOMAIN path)

\* Twice the area between the values of two rows and the axis.
TwiceUnder(step, rise(_), e) ==
    (rows[e[2]].x - rows[e[1]].x) * IF step THEN 2 * rise(e[1]) ELSE rise(e[1]) + rise(e[2])

\* The mini plot of data no two rows of which share a column of pixels: its area is the one
\* under the mean of the shown series, over rows that have one and a quarter of the range of the
\* means above the lowest (of its amount, for a constant), with nothing in a gap.
MiniPlotFits ==
    LET means == painted.mini.data
        known == {i \in DOMAIN rows : means[i] # NaN}
        low   == Min({means[i] : i \in known})
        span  == Max({means[i] : i \in known}) - low
        rise(i) == means[i] - low + (IF span = 0 THEN Abs(low) ELSE span) \div 4
        step  == chart.step = chart.series
        over  == {<<i, i + 1>> : i \in {k \in known \ {Len(rows)} : step \/ k + 1 \in known}}
    IN  (\A i, j \in DOMAIN rows : i # j => Round(rows[i].x - rows[1].x) # Round(rows[j].x - rows[1].x)) =>
            TwiceArea(painted.mini.path) = MapThenSumSet(LAMBDA e : TwiceUnder(step, rise, e), over)

\* The area that is filled for a series lies between its line and the line of the series
\* it is stacked on (or the axis), over the neighbours it joins and nowhere else, so that
\* stacked areas neither overlap nor leave a hole (_fillPlotter with stackPoints_); the
\* band of the errors is as high everywhere as the values' errors say (_errorPlotter); and
\* the mini plot's lies under the mean of the series (drawMiniPlot_).
AreasFit ==
    /\ MiniPlotFits
    /\ \A s \in chart.series :
           LET below == {r \in chart.series : r > s}
               stacked == chart.fill # "off" /\ below # {}
               top(i)  == AxisY(chart) - layout[s][i].y
               base(i) == IF stacked THEN AxisY(chart) - layout[Min(below)][i].stacked ELSE 0
               area(e) == TwiceUnder(s \in chart.step, top, e) - TwiceUnder(stacked /\ Min(below) \in chart.step, base, e)
               band(e) == 4 * chart.bar * (rows[e[2]].x - rows[e[1]].x)
           IN  /\ chart.filled     => TwiceArea(Seen(painted.paths.fills[s])) = MapThenSumSet(area, Spans(s))
               /\ chart.bar # Null => TwiceArea(Seen(painted.paths.bands[s])) = MapThenSumSet(band, Spans(s))

\* The columns of pixels that a path visits, and how high it goes in them.
Column(path, rx) == {path[i][3] : i \in {k \in DOMAIN path : Round(path[k][2]) = rx}}
PixelColumns(path) == {Round(path[i][2]) : i \in DOMAIN path}

\* Dropping calls does not change what can be seen of a filled area that is not stacked:
\* in every column of pixels it is as high and as low, and a line over more than a
\* column has the ends it had ("it's essential to keep the first and last point").  Of
\* a series with two values missing in a row this is not so: the second one ends the
\* area at NaN, which flushes the last column without its end, and a wedge is filled.
FastPathLooksTheSame ==
    chart.filled /\ chart.fill = "off" => \A s \in chart.series :
        LET full == Seen(painted.paths.fills[s])
            fast == Seen(painted.fast[s])
        IN  (\A i \in 2..Len(rows) : {i - 1, i} \cap Given(s) # {}) =>
            /\ PixelColumns(fast) = PixelColumns(full)
            /\ \A rx \in PixelColumns(full) : /\ Min(Column(fast, rx)) = Min(Column(full, rx))
                                              /\ Max(Column(fast, rx)) = Max(Column(full, rx))
            /\ {l \in Lines(fast) : Abs(Round(l[1][1]) - Round(l[2][1])) > 1} \subseteq Lines(full)
=============================================================================

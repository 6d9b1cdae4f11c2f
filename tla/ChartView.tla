----------------------------- MODULE ChartView -----------------------------
(***************************************************************************)
(* One chart of the graph page from the moment its data are there: the     *)
(* user types a roll period, zooms along the x-axis, moves the mouse over  *)
(* the chart, and the page shows and hides series.  Each handler runs to   *)
(* its end; what can go wrong is that one of the derived structures        *)
(* (rolledSeries_, boundaryIds_, the layout's points, the selection) is    *)
(* left behind by a handler that changed what it was derived from.         *)
(***************************************************************************)
EXTENDS ChartData

CONSTANTS
    Files,       \* the CSV files with the options of their chart, as [mode, fill, zero, connect, lines]:
                 \* the data handler, stackedGraphNaNFill ("off": not stacked), includeZero,
                 \* connectSeparatedPoints
    Rolls,       \* what is typed into the text box
    Windows,     \* the date windows the user zooms to
    Mice         \* where the mouse may be, in half units of x

Numeric(text) == text.kind = "number"
ReadableText(text) == Numeric(text) => text.n \in Int

\* A cell as its handler wants it.  Values may be missing or unreadable; but where there is a
\* value the ends of its bar are numbers, an error is no not-a-number, a denominator is not
\* negative, and what gets a binomial bar is a part of its denominator.
IsCell(mode, cell) ==
    /\ \A k \in DOMAIN cell : ReadableText(cell[k])
    /\ CASE mode.kind \in {"fractions", "fractionBars"} ->
               /\ DOMAIN cell = 1..2
               /\ cell[2].kind # "nan" /\ (Numeric(cell[2]) => cell[2].n >= 0)
               /\ mode.kind = "fractionBars" =>
                     /\ cell[1].kind # "nan"
                     /\ Numeric(cell[1]) => Numeric(cell[2]) /\ cell[1].n \in 0..cell[2].n
         [] mode.kind = "customBars" ->
               DOMAIN cell = 1..3 /\ (Numeric(cell[2]) => Numeric(cell[1]) /\ Numeric(cell[3]))
         [] mode.kind = "errorBars" -> DOMAIN cell = 1..2 /\ cell[2].kind # "nan"
         [] OTHER -> DOMAIN cell = 1..1

\* A file has a number of lines; but for the labels, which may come first, what begins a
\* row is a time.  The edges of a window are in their order (doZoomX_).
ASSUME ChartAssumption ==
    /\ Null # NaN /\ {Null, NaN, Fraction} \cap Int = {}
    /\ Unit \in Nat \ {0} /\ Sigma \in Nat
    /\ IsFiniteSet(Columns) /\ Columns \subseteq Nat \ {0}
    /\ \A f \in Files :
          /\ Len(f.lines) \in Nat /\ DOMAIN f.lines = 1..Len(f.lines)
          /\ \A i \in DOMAIN f.lines :
                \/ f.lines[i].kind = "row" =>
                      f.lines[i].x \in Int /\ \A c \in Columns : IsCell(f.mode, f.lines[i].cells[c])
                \/ i = 1 /\ AllFalsy(ParsedRow(f.lines[i]))
    /\ Rolls \subseteq Int \cup {Fraction}
    /\ \A w \in Windows : w[1] \in Int /\ w[2] \in Int /\ w[1] <= w[2]
    /\ Mice \subseteq Int

VARIABLES
    file,          \* file_, and the options of the chart
    loaded,        \* data have been drawn: not is_initial_draw_
    rawData,       \* rawData_: the rows
    rollPeriod,    \* rollPeriod_
    rolledSeries,  \* rolledSeries_: column -> series; <<>> after an exception
    dateWindow,    \* dateWindow_, <<>> for null
    visibility,    \* the visible columns
    packed,        \* what gatherDatasets_ returned for the picture, boundaryIds_ and layout_.points among it
    valueRange,    \* computedValueRange of the axis, in tenths
    lastRow        \* lastRow_, zero when nothing is selected; it tells what selPoints_ are

vars == <<file, loaded, rawData, rollPeriod, rolledSeries, dateWindow, visibility,
          packed, valueRange, lastRow>>

Nothing == [points |-> <<>>, extremes |-> <<>>, boundaryIds |-> <<>>]

Init ==
    /\ file \in Files
    /\ loaded = FALSE
    /\ rawData = <<>>
    /\ rollPeriod \in Rolls \ {Fraction}
    /\ rolledSeries = <<>>
    /\ dateWindow = <<>>
    /\ visibility = Columns
    /\ packed = Nothing
    /\ valueRange = <<>>
    /\ lastRow = 0

-----------------------------------------------------------------------------
(* Drawing.  The picture is made again from rolledSeries_; the selection's *)
(* circles and the legend are wiped, and lastRow_ says so.                 *)

\* The layout makes a missing value a point of its own, without a height, unless the
\* chart draws its lines through to the next value.
Evaluated(y, connect) == IF y = Null /\ ~ connect THEN NaN ELSE y
evaluate(g, connect) ==
    [points      |-> [c \in DOMAIN g.points |-> [i \in DOMAIN g.points[c] |-> [g.points[c][i] EXCEPT !.yval = Evaluated(@, connect)]]],
     extremes    |-> g.extremes,
     boundaryIds |-> g.boundaryIds]

drawGraph(series, w, shown) ==
    /\ packed' = evaluate(gatherDatasets(file.mode, series, w, shown, file.fill), file.connect)
    /\ valueRange' = computeYAxisRange(packed'.extremes, file.zero, file.mode.log)
    /\ lastRow' = 0

\* predraw_ first rolls the data again; when that throws, the old picture stays.
predraw(rows, period, shown) ==
    /\ rolledSeries' = rolled(file.mode, rows, period)
    /\ IF Throws(file.mode, rows, period)
       THEN UNCHANGED <<packed, valueRange, lastRow>>
       ELSE drawGraph(rolledSeries', dateWindow, shown)

loadedEvent ==
    /\ ~ loaded
    /\ loaded' = TRUE
    /\ rawData' = parseCSV(file.lines)
    /\ predraw(rawData', rollPeriod, visibility)
    /\ UNCHANGED <<file, rollPeriod, dateWindow, visibility>>

\* The text box of the chart.
adjustRoll(length) ==
    /\ loaded
    /\ rollPeriod' = length
    /\ predraw(rawData, length, visibility)
    /\ UNCHANGED <<file, loaded, rawData, dateWindow, visibility>>

setVisibility(c) ==
    /\ loaded
    /\ visibility' = IF c \in visibility THEN visibility \ {c} ELSE visibility \cup {c}
    /\ predraw(rawData, rollPeriod, visibility')
    /\ UNCHANGED <<file, loaded, rawData, rollPeriod, dateWindow>>

\* A drag over the chart, and the double click that undoes it; the latter clears the selection.
doZoomXDates(w) ==
    /\ loaded
    /\ dateWindow' = w
    /\ drawGraph(rolledSeries, w, visibility)
    /\ UNCHANGED <<file, loaded, rawData, rollPeriod, rolledSeries, visibility>>

resetZoom ==
    /\ loaded
    /\ lastRow' = 0
    /\ dateWindow' = <<>>
    /\ IF dateWindow = <<>> THEN UNCHANGED <<packed, valueRange>>
       ELSE /\ packed' = evaluate(gatherDatasets(file.mode, rolledSeries, <<>>, visibility, file.fill), file.connect)
            /\ valueRange' = computeYAxisRange(packed'.extremes, file.zero, file.mode.log)
    /\ UNCHANGED <<file, loaded, rawData, rollPeriod, rolledSeries, visibility>>

-----------------------------------------------------------------------------
(* The selection. *)

\* The sets of the layout are the visible columns one after the other, while
\* boundaryIds_ has a place for every column: the place of a set may hold the
\* boundaries of another column, or be empty; then the first one that is filled counts.
SetColumns == InOrder(DOMAIN packed.points)
LeftBoundary(set) ==
    IF set \in DOMAIN packed.boundaryIds THEN packed.boundaryIds[set][1]
    ELSE packed.boundaryIds[Min(DOMAIN packed.boundaryIds)][1]

(* Mutant: the place the boundary tells is trusted. *)
Bug_PointOfRow(set, row) ==
    LET p  == packed.points[SetColumns[set]]
        at == row - LeftBoundary(set) + 1
    IN  IF at \in DOMAIN p THEN {p[at]} ELSE {p[i] : i \in {j \in DOMAIN p : p[j].idx = row}}

\* The point of a row in a set: where the boundary says, or searched for.
PointOfRow(set, row) ==
    LET p   == packed.points[SetColumns[set]]
        at  == row - LeftBoundary(set) + 1
        all == {i \in DOMAIN p : p[i].idx = row}
    IN  IF at \in DOMAIN p /\ p[at].idx = row THEN {p[at]} ELSE {p[i] : i \in all}

\* selPoints_, column -> point, is a function of the picture as long as lastRow_ is set.
SelectedPoints(row) ==
    LET found == {set \in DOMAIN SetColumns : \E p \in PointOfRow(set, row) : p.yval # Null}
    IN  [c \in {SetColumns[set] : set \in found} |->
            CHOOSE p \in PointOfRow(CHOOSE set \in found : SetColumns[set] = c, row) : TRUE]

\* The row of the nearest point that is not null; of equals, the first that is met.
Distance(p, m) == Abs(2 * p.xval - m)
Places == {k \in (DOMAIN SetColumns) \X (1..Len(rawData)) : k[2] \in DOMAIN packed.points[SetColumns[k[1]]]}
PointAt(k) == packed.points[SetColumns[k[1]]][k[2]]
Before(k, l) == k[1] < l[1] \/ (k[1] = l[1] /\ k[2] <= l[2])
findClosestRow(m) ==
    LET valid == {k \in Places : PointAt(k).yval # Null}
        best  == {k \in valid : \A l \in valid : Distance(PointAt(k), m) <= Distance(PointAt(l), m)}
    IN  IF valid = {} THEN 0 ELSE PointAt(CHOOSE k \in best : \A l \in best : Before(k, l)).idx

mouseMove(m) ==
    /\ loaded
    /\ lastRow' = findClosestRow(m)
    /\ UNCHANGED <<file, loaded, rawData, rollPeriod, rolledSeries, dateWindow, visibility, packed, valueRange>>

clearSelection ==
    /\ loaded
    /\ lastRow' = 0
    /\ UNCHANGED <<file, loaded, rawData, rollPeriod, rolledSeries, dateWindow, visibility, packed, valueRange>>

Next ==
    \/ loadedEvent
    \/ \E n \in Rolls : adjustRoll(n)
    \/ \E c \in Columns : setVisibility(c)
    \/ \E w \in Windows : doZoomXDates(w)
    \/ resetZoom
    \/ \E m \in Mice : mouseMove(m)
    \/ clearSelection

Spec == Init /\ [][Next]_vars

-----------------------------------------------------------------------------
(* Properties. *)

\* parseCSV_ and getRowForX: the rows are in the order of their x whatever the
\* order of the file (the web process sends local times, which run backwards
\* once a year), and halving finds the first row of every x, of duplicates too.
RowsAreFound ==
    /\ \A i \in DOMAIN rawData \ {1} : rawData[i - 1].x <= rawData[i].x
    /\ \A x \in {rawData[i].x : i \in DOMAIN rawData} \cup {0} :
          LET those == {i \in DOMAIN rawData : rawData[i].x = x} IN
          getRowForX(rawData, x) = IF those = {} THEN Null ELSE Min(those)

\* rollingAverage, adjustRoll, predraw_: what is drawn of a row is the mean of the
\* known values among the last rollPeriod rows of the data now loaded, however
\* often the period was changed; a row has no value when none of them is known.
\* The two running sums and the two fresh sums of the handlers agree on that.  A
\* ratio is that of the sums of the rows, a row without a numerator adding to the
\* denominators alone; a numerator that is no number spoils the running sum for
\* good.  Means are rounded down to Units.
LastRows(i, n) == {j \in 1..i : i - j < n}
IsMean(y, sum, n) == y * n <= sum /\ sum < (y + 1) * n
RolledIsTheMean ==
    rolledSeries # <<>> /\ rollPeriod # Fraction /\ rollPeriod > 1 =>
    \A c \in Columns : \A i \in DOMAIN rawData :
        LET s   == extractSeries(file.mode, rawData, c)
            in  == LastRows(i, rollPeriod)
            ok  == {j \in in : ~ Missing(s[j].y)}
            p   == rolledSeries[c][i]
            k   == Len(s[i].ext)
            num == SumFunction([j \in in |-> Num(s[j].ext[k - 1])])
            den == SumFunction([j \in in |-> Num(s[j].ext[k])])
        IN  IF file.mode.kind \in {"fractions", "fractionBars"}
            THEN (\A j \in 1..i : s[j].ext[k - 1] # NaN) =>
                    IF den = 0 THEN p.y = 0 ELSE IsMean(p.y, Unit * num, den)
            ELSE IF ok = {} THEN Missing(p.y)
            ELSE /\ IsMean(p.y, SumFunction([j \in ok |-> s[j].y]), Cardinality(ok))
                 /\ file.mode.kind = "customBars" =>
                       \A e \in 1..2 : IsMean(p.ext[e], SumFunction([j \in ok |-> s[j].ext[e]]), Cardinality(ok))

\* gatherDatasets_: the picture is cut to the date window, but whatever two known
\* points the line between which crosses the window are both kept, so no line is
\* lost at an edge of a zoomed chart.
Crosses(s, i, j) ==
    /\ i < j
    /\ s[i].y # Null /\ s[j].y # Null
    /\ \A k \in i + 1..j - 1 : s[k].y = Null
    /\ dateWindow # <<>> => s[j].x >= dateWindow[1] /\ s[i].x <= dateWindow[2]
LinesReachTheEdge ==
    rolledSeries # <<>> =>
    \A c \in DOMAIN packed.points : \A i, j \in DOMAIN rolledSeries[c] :
        Crosses(rolledSeries[c], i, j) => i >= packed.boundaryIds[c][1] /\ j <= packed.boundaryIds[c][2]

\* computeYAxisRanges_: every known value that is drawn, with its bars and at its
\* height in a stacked chart, lies in the range of the y-axis, and the range is
\* never empty, not even for one value, for none, or for zeros.
InRange(v) == valueRange[1] <= 10 * v /\ 10 * v <= valueRange[2]
RangeHoldsThePicture ==
    valueRange # <<>> =>
    /\ valueRange[1] < valueRange[2]
    /\ \A c \in DOMAIN packed.points : \A i \in DOMAIN packed.points[c] :
          LET p == packed.points[c][i] IN
          ~ Missing(p.yval) =>
             /\ InRange(p.yval)
             /\ file.fill # "off" => InRange(p.stacked)
             /\ file.mode.kind \in BarKinds => valueRange[1] <= 10 * p.ext[1] /\ 10 * p.ext[2] <= valueRange[2]

\* stackPoints_: at an x where all the shown series are known, the height of the
\* first is the sum of all, duplicate rows of an x counted once.
StackIsTheSum ==
    file.fill # "off" =>
    \A c \in DOMAIN packed.points : \A i \in DOMAIN packed.points[c] :
        LET p == packed.points[c][i]
            others == {d \in DOMAIN packed.points : d > c}
            firsts(d) == {q \in {packed.points[d][k] : k \in DOMAIN packed.points[d]} : q.xval = p.xval}
            first(d) == CHOOSE q \in firsts(d) : \A r \in firsts(d) : q.idx <= r.idx
        IN  (\A d \in others \cup {c} : firsts(d) # {} /\ ~ Missing(first(d).yval)) =>
               p.stacked = SumFunction([d \in others \cup {c} |-> first(d).yval])

\* setSelection, getLeftBoundary_: what is highlighted for a row are the values of
\* exactly that row, of every shown series that has one, though the boundary of a
\* set may be looked up under the number of another series.
SelectionIsTheRow ==
    lastRow # 0 /\ rolledSeries # <<>> =>
    LET sel == SelectedPoints(lastRow) IN
    /\ \A c \in DOMAIN sel : sel[c].idx = lastRow /\ sel[c].yval = Evaluated(rolledSeries[c][lastRow].y, file.connect)
    /\ DOMAIN sel = {c \in DOMAIN packed.points : /\ \E i \in DOMAIN packed.points[c] : packed.points[c][i].idx = lastRow
                                                 /\ Evaluated(rolledSeries[c][lastRow].y, file.connect) # Null}
    /\ sel # <<>>
=============================================================================

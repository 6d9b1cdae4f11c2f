----------------------------- MODULE ChartFrame -----------------------------
(***************************************************************************)
(* The frame of a chart: plugins take space at the edges of the page       *)
(* (computePlotArea), the rest is the plot area; marks are placed for the  *)
(* window of time and the range of values shown, and labels and grid lines *)
(* are drawn at them.  A change of options or of the size makes all of     *)
(* this anew (predraw_), a zoom only the marks (drawGraph_), and an option *)
(* that moves no pixel only the drawing (renderGraph_).                    *)
(* src/server/static/dygraph.js.                                           *)
(*                                                                         *)
(* Pixels are whole, rounded down.                                         *)
(***************************************************************************)
EXTENDS ChartTicks

CONSTANTS
    Sizes,      \* of the page: [w, h]
    Options,    \* [title, xlabel, drawX, drawY, second, selector, kmg2, atZero], each a Boolean
    Windows,    \* of time: <<from, to>>
    Ranges,     \* of the values: <<low, high>>
    MaxTimers   \* range selectors taken away within a millisecond

ASSUME FrameAssumption ==
    /\ Sizes \subseteq [w : Nat, h : Nat]
    /\ Options \subseteq [title : BOOLEAN, xlabel : BOOLEAN, drawX : BOOLEAN, drawY : BOOLEAN, second : BOOLEAN,
                          selector : BOOLEAN, kmg2 : BOOLEAN, atZero : BOOLEAN]
    /\ Windows \subseteq Int \X Int
    /\ \A w \in Windows : w[1] < w[2] /\ (\E s \in Shifts : s.at <= w[1]) /\ MonthStart[0] <= Local(w[1])
                          /\ Local(w[2]) + 60 <= MonthStart[12]
    /\ Ranges \subseteq Int \X Int /\ \A r \in Ranges : r[1] < r[2] /\ r[2] - r[1] <= MaxSpan
    /\ MaxTimers \in Nat

VARIABLES
    size, opts, window,     \* what is to be shown
    frame,      \* computePlotArea: [area, boxes]
    canvas,     \* of the range selector: its box, none as yet
    marks,      \* [range, xticks, yticks] of the axes
    drawn,      \* [xlabels, ylabels, lines, axes]
    there,      \* the range selector is on the page
    pending,    \* an option that moves pixels was set without a redraw
    timers      \* resizes under way, for range selectors taken away
frameVars == <<size, opts, window, frame, canvas, marks, drawn, there, pending, timers>>

-----------------------------------------------------------------------------
(* The plot area.  A plugin takes its space from what is left to it. *)
RightGap  == 5
XAxis     == 14 + 2 * 3     \* axisLabelFontSize + 2 * axisTickSize
YAxis     == 50 + 2 * 3     \* axisLabelWidth + 2 * axisTickSize
TitleH    == 28
XLabelH   == 18
SelectorH == 40

Box(name, x, y, w, h) == [name |-> name, x |-> x, y |-> y, w |-> w, h |-> h]

\* The plugins that may ask for space, in the order they are asked in.
Plugin(on, side, px, name) == [on |-> on, side |-> side, px |-> px, name |-> name]
layout(o) == << Plugin(o.title, "top", TitleH, "title"), Plugin(o.xlabel, "bottom", XLabelH, "xlabel"),
                Plugin(o.selector, "bottom", SelectorH + 4, "selector"), Plugin(o.drawY, "left", YAxis, "y"),
                Plugin(o.drawX, "bottom", XAxis, "x"), Plugin(o.second, "right", YAxis, "y2") >>

reserveSpace(a, r) ==
    CASE r.side = "left"   -> << Box("area", a.x + r.px, a.y, a.w - r.px, a.h), Box(r.name, a.x, a.y, r.px, a.h) >>
      [] r.side = "right"  -> << Box("area", a.x, a.y, a.w - r.px, a.h), Box(r.name, a.x + a.w - r.px, a.y, r.px, a.h) >>
      [] r.side = "top"    -> << Box("area", a.x, a.y + r.px, a.w, a.h - r.px), Box(r.name, a.x, a.y, a.w, r.px) >>
      [] r.side = "bottom" -> << Box("area", a.x, a.y, a.w, a.h - r.px), Box(r.name, a.x, a.y + a.h - r.px, a.w, r.px) >>

ask(f, r) == IF r.on THEN [area  |-> reserveSpace(f.area, r)[1], boxes |-> f.boxes \cup {reserveSpace(f.area, r)[2]}]
             ELSE f

computePlotArea(s, o) ==
    LET l == layout(o)
        f == [area |-> Box("area", 0, 0, s.w - RightGap, s.h), boxes |-> {}]
    IN  ask(ask(ask(ask(ask(ask(f, l[1]), l[2]), l[3]), l[4]), l[5]), l[6])

\* resize_ of the range selector places its canvas by the plot area, not by its own box.
selectorCanvas(a, o) == Box("canvas", a.x, a.y + a.h + (IF o.drawX THEN XAxis ELSE 0) + 4, a.w, SelectorH)

-----------------------------------------------------------------------------
(* The marks, and what is drawn at them. *)
PerXLabel == 70
PerYLabel == 30

\* _evaluateLineTicks: the marks in the window, and where they are in the plot area.
XPixels(a, w, ts) == {a.x + ((t - w[1]) * a.w) \div (w[2] - w[1]) : t \in {u \in Range(ts) : w[1] <= u /\ u < w[2]}}
YPixels(a, r, vs) == {a.y + ((r[2] - v) * a.h) \div (r[2] - r[1]) : v \in {u \in Range(vs) : r[1] <= u /\ u < r[2]}}

LabelW == [x |-> 60, y |-> 50]
Font   == 14
AtLeast(n, least) == IF n < least THEN least ELSE n

\* willDrawChart of the axes: labels are kept on the page, and the lowest one of the
\* values is lifted off the first one of the times.
XLabels(a, s, xs) ==
    {LET left == IF x - LabelW.x \div 2 + LabelW.x > s.w THEN s.w - LabelW.x ELSE x - LabelW.x \div 2
     IN  Box("x", AtLeast(left, 0), a.y + a.h + 3, LabelW.x, Font) : x \in xs}
YLabels(a, s, left, ys, lift) ==
    {LET top == AtLeast(y - Font \div 2, 0)
     IN  Box("y", left, IF top + Font + 3 > s.h THEN s.h - Font
                        ELSE IF lift /\ y = Max(ys) /\ top + Font > s.h - Font THEN top - Font \div 2
                        ELSE top, LabelW.y, Font) : y \in ys}

\* The line of the times lies at the bottom of the plot or, on demand, at zero when that is
\* shown; those of the values at its sides, for charts of times after 1970.
toPercentYCoord(r) == [num |-> r[2], den |-> r[2] - r[1]]
AxisLineY(o, a, r) ==
    LET p == toPercentYCoord(r) IN
    IF o.atZero /\ 0 <= p.num /\ p.num <= p.den THEN a.y + (p.num * a.h) \div p.den ELSE a.y + a.h
AxisLines(o, a, r) ==
    (IF ~ o.drawX THEN {} ELSE {[axis |-> "x", from |-> <<a.x, AxisLineY(o, a, r)>>, to |-> <<a.x + a.w, AxisLineY(o, a, r)>>]})
    \cup {[axis |-> "y", from |-> <<x, a.y>>, to |-> <<x, a.y + a.h>>] :
             x \in IF ~ o.drawY THEN {} ELSE {a.x} \cup IF o.second THEN {a.x + a.w} ELSE {}}

willDrawChart(s, o, a, w, m) ==
    LET xp == XPixels(a, w, m.xticks)
        yp == YPixels(a, m.range, m.yticks)
    IN  [xlabels |-> IF o.drawX THEN XLabels(a, s, xp) ELSE {},
         ylabels |-> IF ~ o.drawY THEN {}
                     ELSE YLabels(a, s, a.x - LabelW.y - 3, yp, TRUE)
                          \cup IF o.second THEN YLabels(a, s, a.x + a.w + 3, yp, FALSE) ELSE {},
         lines   |-> {<<"x", x>> : x \in xp} \cup {<<"y", y>> : y \in yp},
         axes    |-> AxisLines(o, a, m.range)]

\* The marks of a plot area: addXTicks_, and the ticks of computeYAxisRanges_.
Marks(a, o, w) ==
    UNION {{[range |-> r, xticks |-> dateTicker(w[1], w[2], a.w, PerXLabel),
             yticks |-> numericTicks(r[1], r[2], a.h, PerYLabel, o.kmg2, base)]
            : base \in BaseScales(r[1], r[2], a.h, PerYLabel, IF o.kmg2 THEN 16 ELSE 10)} : r \in Ranges}

-----------------------------------------------------------------------------
(* Drawing: each of these does what the one before it does, and then some. *)

\* The plot area is that of the last predraw_, whatever the options are by now.  The range
\* selector sees that it was switched off (updateVisibility_), is taken from the page, and
\* has the chart find its size anew a millisecond later.
renderGraph(s, o, f, w, m) ==
    /\ drawn' = willDrawChart(s, o, f.area, w, m)
    /\ there' = o.selector

drawGraph(s, o, f, w) ==
    \E m \in Marks(f.area, o, w) : marks' = m /\ renderGraph(s, o, f, w, m)

predraw(s, o, w) ==
    /\ frame' = computePlotArea(s, o)
    /\ canvas' = IF o.selector THEN {selectorCanvas(frame'.area, o)} ELSE canvas
    /\ pending' = FALSE
    /\ drawGraph(s, o, frame', w)

\* Timers that were set, on top of those that are left.
updateVisibility(left) ==
    /\ timers' = left + IF there /\ ~ there' THEN 1 ELSE 0
    /\ timers' <= MaxTimers

-----------------------------------------------------------------------------
(* The operations. *)
Init ==
    /\ size \in Sizes /\ opts \in Options /\ window \in Windows
    /\ frame = computePlotArea(size, opts)
    /\ canvas = IF opts.selector THEN {selectorCanvas(frame.area, opts)} ELSE {}
    /\ marks \in Marks(frame.area, opts, window)
    /\ drawn = willDrawChart(size, opts, frame.area, window, marks)
    /\ there = opts.selector /\ pending = FALSE /\ timers = 0

\* pixelSafeOptions: labelsKMG2 is on the list of those that move no pixel.
isPixelChangingOptionList(o) == [o EXCEPT !.kmg2 = opts.kmg2] # opts

\* updateOptions of what the frame is made of, with and without block_redraw.
updateOptions(o, block) ==
    /\ opts' = o
    /\ UNCHANGED <<size, window>>
    /\ IF block
       THEN /\ pending' = (pending \/ isPixelChangingOptionList(o))
            /\ UNCHANGED <<frame, canvas, marks, drawn, there, timers>>
       ELSE /\ IF isPixelChangingOptionList(o) THEN predraw(size, o, window)
               ELSE /\ renderGraph(size, o, frame, window, marks)
                    /\ UNCHANGED <<frame, canvas, marks, pending>>
            /\ updateVisibility(timers)

\* updateOptions of the window, which moves pixels.
updateWindow(w) == /\ window' = w
                   /\ UNCHANGED <<size, opts>>
                   /\ predraw(size, opts, w)
                   /\ updateVisibility(timers)

\* A zoom or a pan with the mouse.
zoom(w) == /\ window' = w
           /\ UNCHANGED <<size, opts, frame, canvas, pending>>
           /\ drawGraph(size, opts, frame, w)
           /\ updateVisibility(timers)

(* Mutant: a page that only gets higher is taken for the old one. *)
Bug_resize(s) == /\ size' = s
                 /\ UNCHANGED <<opts, window>>
                 /\ IF s.w # size.w THEN predraw(s, opts, window) /\ updateVisibility(timers)
                    ELSE UNCHANGED <<frame, canvas, marks, drawn, there, pending, timers>>

resize(s) == /\ size' = s
             /\ UNCHANGED <<opts, window>>
             /\ IF s # size THEN predraw(s, opts, window) /\ updateVisibility(timers)
                ELSE UNCHANGED <<frame, canvas, marks, drawn, there, pending, timers>>

\* The timer of updateVisibility_: dygraph.width_ = 0, and resize() finds the old size.
resizeLater == /\ timers > 0
               /\ UNCHANGED <<size, opts, window>>
               /\ predraw(size, opts, window)
               /\ updateVisibility(timers - 1)

Next ==
    \/ \E o \in Options, block \in BOOLEAN : updateOptions(o, block)
    \/ \E w \in Windows : updateWindow(w) \/ zoom(w)
    \/ \E s \in Sizes : resize(s)
    \/ resizeLater
Spec == Init /\ [][Next]_frameVars

-----------------------------------------------------------------------------
(* Properties. *)
Within(b, c) == /\ b.x >= c.x /\ b.x + b.w <= c.x + c.w
                /\ b.y >= c.y /\ b.y + b.h <= c.y + c.h
Apart(b, c) == \/ b.x + b.w <= c.x \/ c.x + c.w <= b.x
               \/ b.y + b.h <= c.y \/ c.y + c.h <= b.y
Covers(b, x, y) == b.x <= x /\ x < b.x + b.w /\ b.y <= y /\ y < b.y + b.h
Roomy(a) == a.w > 0 /\ a.h > 0
Boxes(name) == {b \in frame.boxes : b.name = name}

\* Unless an option was set without a redraw: the plot area and the plugins' boxes cover
\* the page of its present size, up to the right gap, and nothing twice (it is enough to
\* look at the corners, between which nothing changes), with a box for just the plugins
\* that are switched on; the labels of the axes lie in the boxes of the axes, and no
\* further than the page's edge if the page has room for one (for two and a half of the
\* values, whose lowest is lifted); the grid lies in the plot area, and so do the lines of the axes,
\* that of the times where the labels begin or on the grid's zero, which at the top of the
\* plot has no line of the grid; and the range selector's canvas, which is placed by the
\* plot area and the options of the axis (8842-8855), lies in the selector's own box.
FrameFits ==
    ~ pending /\ Roomy(frame.area) =>
        LET page  == Box("page", 0, 0, size.w - RightGap, size.h)
            parts == frame.boxes \cup {frame.area}
        IN  /\ \A b \in parts : Within(b, page) /\ \A c \in parts : b = c \/ Apart(b, c)
            /\ \A x \in UNION {{b.x, b.x + b.w} : b \in parts}, y \in UNION {{b.y, b.y + b.h} : b \in parts} :
                  Covers(page, x, y) => \E b \in parts : Covers(b, x, y)
            /\ {b.name : b \in frame.boxes} = {r.name : r \in {q \in Range(layout(opts)) : q.on}}
            /\ \A l \in drawn.xlabels : \E b \in Boxes("x") :
                  /\ l.y >= b.y /\ l.y + l.h <= b.y + b.h
                  /\ l.x >= 0 /\ l.x + l.w <= AtLeast(size.w, LabelW.x)
            /\ \A l \in drawn.ylabels : \E b \in Boxes("y") \cup Boxes("y2") :
                  /\ l.x >= b.x /\ l.x + l.w <= b.x + b.w
                  /\ 2 * size.h >= 5 * Font => l.y >= 0 /\ l.y + l.h <= size.h
            /\ \A l \in drawn.lines :
                  IF l[1] = "x" THEN frame.area.x <= l[2] /\ l[2] <= frame.area.x + frame.area.w
                  ELSE frame.area.y <= l[2] /\ l[2] <= frame.area.y + frame.area.h
            /\ \A l \in drawn.axes :
                  /\ Within(Box("axis", l.from[1], l.from[2], l.to[1] - l.from[1], l.to[2] - l.from[2]), frame.area)
                  /\ l.axis = "x" => IF ~ opts.atZero \/ ~ 0 \in marks.range[1] + 1 .. marks.range[2]
                                     THEN \A b \in Boxes("x") : l.from[2] = b.y
                                     ELSE IF marks.range[2] = 0 THEN l.from[2] = frame.area.y
                                     ELSE 0 \in Range(marks.yticks) => <<"y", l.from[2]>> \in drawn.lines
            /\ opts.selector => \A c \in canvas, b \in Boxes("selector") : Within(c, b)

\* The marks of a granularity on the local clock, as its reader would count them: times
\* at which the clock shows a multiple of the step, both of a repeated one up to the hour
\* and the earlier one above.
Nice(l, g) == LET p == TICK_PLACEMENT[g] IN
              CASE p.field = "MM" -> (l % 60) % p.step = 0
                [] p.field = "HH" -> l % 60 = 0 /\ Hour(l) % p.step = 0
                [] p.field = "D"  -> l % Day = 0 /\ (g = WEEKLY => Weekday(l) = 0)
                [] p.field = "M"  -> l \in Range(MonthStart) /\ Month(l) % p.step = 0
NiceTimes(a, b, g) ==
    LET unit   == CASE TICK_PLACEMENT[g].field = "MM" -> 1 [] TICK_PLACEMENT[g].field = "HH" -> 60 [] OTHER -> Day
        clock  == {l \in {unit * k : k \in ((Local(a) - 60) \div unit)..((Local(b) + 60) \div unit)} : Nice(l, g)}
        times(l) == {t \in {l - s.offset : s \in Shifts} : Local(t) = l}
    IN  {t \in UNION {IF g <= HOURLY \/ times(l) = {} THEN times(l) ELSE {Min(times(l))} : l \in clock} : a <= t /\ t < b}

Increasing(ts) == \A i, j \in DOMAIN ts : i < j => ts[i] < ts[j]

\* The times marked in the window are just the nice ones of its granularity, across the
\* hour that the clock skips and the one that it repeats (every other day, which the code
\* counts from the window's first month on, two days apart at midnights).
TimesAreNice ==
    LET g == pickDateTickGranularity(window[1], window[2], frame.area.w, PerXLabel)
        xs == marks.xticks
        shown == {k \in DOMAIN xs : window[1] <= xs[k] /\ xs[k] < window[2]}
    IN  /\ Increasing(xs)
        /\ g >= 0 => IF g = 21
                      THEN /\ \A k \in shown : Local(xs[k]) % Day = 0
                           /\ \A k \in shown : k = Max(shown) \/ Local(xs[k + 1]) - Local(xs[k]) = 2 * Day
                           /\ shown # {} => Local(xs[Min(shown)]) - Local(window[1]) <= 2 * Day
                      ELSE {xs[k] : k \in shown} = NiceTimes(window[1], window[2], g)

\* The marks of values reach over both ends of the range and, where two distances fit, are
\* pixelsPerLabel apart, and they are the same however a logarithm was rounded.
ValuesAreApart ==
    LET h == frame.area.h
        ys == marks.yticks
        low == marks.range[1]
        high == marks.range[2]
    IN  /\ h > 0 => ys[1] <= low /\ high <= ys[Len(ys)]
        /\ h > 2 * PerYLabel =>
              /\ \A i \in 1..Len(ys) - 1 : (ys[i + 1] - ys[i]) * h > PerYLabel * (high - low)
              /\ \A kmg2 \in BOOLEAN :
                    Cardinality({numericTicks(low, high, h, PerYLabel, kmg2, base)
                                 : base \in BaseScales(low, high, h, PerYLabel, IF kmg2 THEN 16 ELSE 10)}) = 1

\* Marks, labelled (dateTicker, numericTicks), belong to the window, the range and the plot
\* area there are, also when an option was set without a redraw.
TicksAreRight == TimesAreNice /\ ValuesAreApart
=============================================================================

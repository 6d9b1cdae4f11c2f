---------------------------- MODULE ChartGesture ----------------------------
(***************************************************************************)
(* A mouse or fingers over a chart, with the interaction model every chart *)
(* of the graph page has (defaultModel of dygraph.js): a drag zooms, a     *)
(* drag with the shift key pans, a double click undoes, one finger swipes, *)
(* two fingers pinch, two taps undo.                                       *)
(*                                                                         *)
(* All gestures share one object, context_ of createDragInterface_, which  *)
(* nobody clears between them, and a press of the mouse adds its own pair  *)
(* of listeners to the document.  A button may be let go of where the page *)
(* does not hear of it (over a menu of the browser, say).                  *)
(***************************************************************************)
EXTENDS ChartScale

CONSTANTS
    Values,          \* the ranges of the y-axis that fit a part of the data, for one roll period or another
    Fits(_, _),      \* which of them fit a window: one at least, whatever it shows
    Points,          \* where the pointer and the fingers may be: <<x, y>> from the corner of the canvas
    Canvas,          \* its size, [w, h]: the plot, its axes and the margins
    Buttons,         \* the buttons of the mouse, "right" among them or not
    None,            \* no point
    DRAG_EDGE_MARGIN,
    Gestures         \* bound: presses, touches and changes of the roll period in a behaviour

ASSUME GestureAssumption ==
    /\ Values \subseteq {r \in Int \X Int : r[1] < r[2]}
    /\ Points \subseteq Int \X Int /\ None \notin Points
    /\ Canvas \in [w : Nat, h : Nat] /\ Area.x + Area.w <= Canvas.w /\ Area.y + Area.h <= Canvas.h
    /\ DRAG_EDGE_MARGIN \in Nat \ {0}
    /\ Gestures \in Nat

VARIABLES
    dateWindow,      \* dateWindow_, <<>> for null
    valueRange,      \* axes_[0].valueRange, <<>> when there is none
    extremeRange,    \* axes_[0].extremeRange: what the last redraw found to fit the data of the window
    context,         \* the drag context
    listeners,       \* pairs of mousemove and mouseup listeners on the document
    tarps,           \* covers over the page's frames
    zoomRect,        \* the grey rectangle is on the canvas
    mouse,           \* where the pointer is
    pressed,         \* the buttons that are down
    fingers,         \* where the fingers are
    touch,           \* the part of the context that the touch handlers use
    dblclick,        \* the last event was a mouseup, so that a dblclick may follow
    gestures         \* presses, touches and changes of the roll period still to come

chart == <<dateWindow, valueRange, extremeRange>>
drag == <<context, listeners, tarps, zoomRect>>
vars == <<chart, drag, mouse, pressed, fingers, touch, dblclick, gestures>>

\* computedValueRange: the range the user has zoomed to, or the one that fits.
yAxisRange(v) == IF v = <<>> THEN extremeRange ELSE v

toDataYCoord(y, v) == yAxisRange(v)[1] + ((Area.y + Area.h - y) * Size(yAxisRange(v))) \div Area.h

\* drawGraph_ fits the y-axis to what the window shows now (computeYAxisRanges_).
drawGraph == extremeRange' \in {r \in Values : Fits(r, xAxisRange(dateWindow'))}

\* A cover for the frames of the page, on top of those that are there; all of them away.
cover   == tarps' = tarps + 1
uncover == tarps' = 0

distanceFromInterval(x, lo, hi) == IF x < lo THEN lo - x ELSE IF x > hi THEN x - hi ELSE 0

distanceFromChart(p) == Greater(distanceFromInterval(p[1], 0, Canvas.w), distanceFromInterval(p[2], 0, Canvas.h))
OnCanvas(p) == distanceFromChart(p) = 0

\* What is remembered when a pan starts; the y-axis follows only when it has been zoomed.
startPan(w, v) ==
    [initialLeftmostDate |-> startPanDates(w).initialLeftmostDate, dateRange |-> startPanDates(w).dateRange,
     is2DPan |-> v # <<>>, initialTopValue |-> yAxisRange(v)[2], dragValueRange |-> Size(yAxisRange(v))]

panValues(p, pixels) ==
    LET max == p.initialTopValue + (pixels * p.dragValueRange) \div (Area.h - 1) IN <<max - p.dragValueRange, max>>

NoPan == [initialLeftmostDate |-> 0, dateRange |-> 0, is2DPan |-> FALSE, initialTopValue |-> 0, dragValueRange |-> 0]
Init ==
    /\ dateWindow = <<>> /\ valueRange = <<>> /\ extremeRange \in {r \in Values : Fits(r, Extent)}
    /\ context = [isZooming |-> FALSE, isPanning |-> FALSE, pan |-> NoPan, dragStart |-> None, dragEnd |-> None,
                  dragDirection |-> "none", cancelNextDblclick |-> FALSE]
    /\ listeners = 0 /\ tarps = 0 /\ zoomRect = FALSE
    /\ mouse \in Points /\ pressed = {} /\ fingers = <<>>
    /\ touch = [initialTouches |-> <<>>, center |-> <<0, 0>>, data |-> <<0, 0>>, x |-> FALSE, y |-> FALSE,
                rangeX |-> <<0, 0>>, rangeY |-> <<0, 0>>, tap |-> "none", tapAt |-> None]
    /\ dblclick = FALSE
    /\ gestures = Gestures

-----------------------------------------------------------------------------
(* The mouse. *)

\* initializeMouseDown resets the start of the drag, not its end or its direction.
mousedown(b, shift) ==
    /\ gestures > 0 /\ fingers = <<>>
    /\ b \notin pressed /\ OnCanvas(mouse)
    /\ gestures' = gestures - 1
    /\ pressed' = pressed \cup {b}
    /\ dblclick' = FALSE
    /\ IF b = "right" THEN UNCHANGED <<context, listeners, tarps>>
       ELSE /\ context' = [context EXCEPT !.dragStart = mouse, !.cancelNextDblclick = FALSE,
                              !.isPanning = @ \/ shift, !.isZooming = @ \/ ~ shift,
                              !.pan = IF shift THEN startPan(dateWindow, valueRange) ELSE @]
            /\ listeners' = listeners + 1
            /\ cover
    /\ UNCHANGED <<chart, zoomRect, mouse, fingers, touch>>

\* Across the chart when the drag is less than half as wide as it is high.
Direction(from, to) == IF 2 * Away(from[1], to[1]) < Away(from[2], to[2]) THEN "vertical" ELSE "horizontal"

moveZoom(p) ==
    /\ context' = [context EXCEPT !.dragEnd = p, !.dragDirection = Direction(context.dragStart, p)]
    /\ zoomRect' = TRUE
    /\ UNCHANGED chart

(* Mutant: the rectangle goes, but the end of the drag is still known. *)
Bug_leaveZoom == zoomRect' = FALSE /\ UNCHANGED <<context, chart>>

\* Too far from the chart: the zoom is cancelled, until the pointer comes back.
leaveZoom ==
    /\ context' = [context EXCEPT !.dragEnd = None]
    /\ zoomRect' = (zoomRect /\ context.dragEnd = None)
    /\ UNCHANGED chart

movePan(p) ==
    /\ context' = [context EXCEPT !.dragEnd = p]
    /\ dateWindow' = panDates(context.pan, p[1] - context.dragStart[1], FALSE)
    /\ valueRange' = IF context.pan.is2DPan THEN panValues(context.pan, p[2] - context.dragStart[2]) ELSE valueRange
    /\ drawGraph
    /\ zoomRect' = FALSE

\* A pair of listeners does what the others have done already, so one of them counts.
mousemove(p) ==
    /\ p # mouse /\ fingers = <<>>
    /\ mouse' = p
    /\ dblclick' = FALSE
    /\ CASE listeners = 0 \/ ~ (context.isZooming \/ context.isPanning) -> UNCHANGED <<context, zoomRect, chart>>
         [] OTHER -> \/ context.isZooming /\ distanceFromChart(p) < DRAG_EDGE_MARGIN /\ moveZoom(p)
                     \/ context.isZooming /\ distanceFromChart(p) >= DRAG_EDGE_MARGIN /\ leaveZoom
                     \/ ~ context.isZooming /\ movePan(p)
    /\ UNCHANGED <<listeners, tarps, pressed, fingers, touch, gestures>>

(* Mutant: the drag is not clipped. *)
Bug_Clipped(a, b, from, size) == <<Lesser(a, b), Greater(a, b)>>

\* The part of the drag that lies over the plot.
Clipped(a, b, from, size) == <<Greater(Lesser(a, b), from), Lesser(Greater(a, b), from + size)>>

\* endZoom; a drag of ten pixels counts.  The dragDirection is that of the last move, of this drag or of an earlier one.
endZoom ==
    LET s  == context.dragStart
        xs == Clipped(s[1], mouse[1], Area.x, Area.w)
        ys == Clipped(s[2], mouse[2], Area.y, Area.h)
        across == context.dragDirection = "horizontal" /\ Away(s[1], mouse[1]) >= 10
        up     == context.dragDirection = "vertical" /\ Away(s[2], mouse[2]) >= 10
    IN  /\ zoomRect' = FALSE
        /\ dateWindow' = IF across /\ xs[1] < xs[2]
                         THEN <<toDataXCoord(xs[1], dateWindow), toDataXCoord(xs[2], dateWindow)>> ELSE dateWindow
        /\ valueRange' = IF up /\ ys[1] < ys[2]
                         THEN <<toDataYCoord(ys[2], valueRange), toDataYCoord(ys[1], valueRange)>> ELSE valueRange
        /\ IF (across /\ xs[1] < xs[2]) \/ (up /\ ys[1] < ys[2]) THEN drawGraph ELSE UNCHANGED extremeRange
        /\ context' = [context EXCEPT !.isZooming = FALSE, !.isPanning = FALSE, !.dragStart = None, !.dragEnd = mouse,
                                      !.cancelNextDblclick = @ \/ across \/ up]

(* Mutant: only a pan is taken back. *)
Bug_endOther ==
    /\ context' = [context EXCEPT !.isPanning = FALSE, !.dragEnd = mouse]
    /\ UNCHANGED <<chart, zoomRect>>

\* A pan has been drawn all along, and a zoom that was cancelled is none.
endOther ==
    /\ context' = [context EXCEPT !.isZooming = FALSE, !.isPanning = FALSE,
                       !.dragStart = IF context.isZooming \/ context.isPanning THEN None ELSE @,
                       !.dragEnd = IF context.isZooming \/ context.isPanning THEN mouse ELSE @]
    /\ UNCHANGED <<chart, zoomRect>>

\* Every pair of listeners hears it; the first one ends the gesture, all remove themselves and the covers.
mouseup(b) ==
    /\ b \in pressed
    /\ pressed' = pressed \ {b}
    /\ dblclick' = OnCanvas(mouse)
    /\ IF listeners = 0 THEN UNCHANGED <<chart, drag>>
       ELSE /\ IF context.isZooming /\ context.dragEnd # None THEN endZoom ELSE endOther
            /\ listeners' = 0
            /\ uncover
    /\ UNCHANGED <<mouse, fingers, touch, gestures>>

\* A button goes up where the page does not hear of it.
mouseupUnheard(b) ==
    /\ b \in pressed
    /\ pressed' = pressed \ {b}
    /\ UNCHANGED <<chart, context, listeners, tarps, zoomRect, mouse, fingers, touch, dblclick, gestures>>

\* resetZoom draws only what has been zoomed.
resetZoom ==
    /\ dateWindow' = <<>> /\ valueRange' = <<>>
    /\ IF dateWindow = <<>> /\ valueRange = <<>> THEN UNCHANGED extremeRange ELSE drawGraph

doubleClick(shift) ==
    /\ dblclick
    /\ dblclick' = FALSE
    /\ context' = [context EXCEPT !.cancelNextDblclick = FALSE]
    /\ IF context.cancelNextDblclick \/ shift THEN UNCHANGED chart ELSE resetZoom
    /\ UNCHANGED <<listeners, tarps, zoomRect, mouse, pressed, fingers, touch, gestures>>

\* Another roll period: predraw_ makes the axes anew, so the zoom of the y-axis is lost, that of the x-axis is not.
adjustRoll ==
    /\ gestures > 0
    /\ gestures' = gestures - 1
    /\ valueRange' = <<>>
    /\ zoomRect' = FALSE
    /\ UNCHANGED dateWindow
    /\ drawGraph
    /\ UNCHANGED <<context, listeners, tarps, mouse, pressed, fingers, touch, dblclick>>

-----------------------------------------------------------------------------
(* Fingers. *)

\* Twice the middle of the first two fingers, or of one.
Middle(fs, k) == IF Len(fs) = 1 THEN 2 * fs[1][k] ELSE fs[1][k] + fs[2][k]

\* Whether the line between two fingers has a part along x, and along y, for a pinch:
\* what lies within 22.5 degrees of an axis has only the one.
TowardsX(dx, dy) == dx < 0 \/ 1000 * Away(dy, 0) < 2414 * dx
TowardsY(dx, dy) == dx >= 0 /\ 1000 * Away(dy, 0) > 414 * dx

startTouch(fs) ==
    LET dx == 2 * fs[1][1] - Middle(fs, 1)
        dy == Middle(fs, 2) - 2 * fs[1][2]
        dataX == toDataXCoord(fs[1][1], dateWindow)
        dataY == toDataYCoord(fs[1][2], valueRange)
    IN  touch' = [touch EXCEPT
            !.initialTouches = fs,
            !.center = <<Middle(fs, 1), Middle(fs, 2)>>,
            !.data = IF Len(fs) = 1 THEN <<dataX, dataY>>
                     ELSE << (dataX + toDataXCoord(fs[2][1], dateWindow)) \div 2,
                             (dataY + toDataYCoord(fs[2][2], valueRange)) \div 2 >>,
            !.x = Len(fs) = 1 \/ TowardsX(dx, dy),
            !.y = Len(fs) = 1 \/ TowardsY(dx, dy),
            !.rangeX = xAxisRange(dateWindow),
            !.rangeY = yAxisRange(valueRange),
            !.tap = IF Len(fs) > 1 THEN "none" ELSE @]

touchstart(p) ==
    /\ gestures > 0 /\ pressed = {} /\ Len(fingers) < 2
    /\ OnCanvas(p) /\ \A i \in DOMAIN fingers : fingers[i] # p
    /\ gestures' = gestures - 1
    /\ fingers' = Append(fingers, p)
    /\ startTouch(fingers')
    /\ dblclick' = FALSE
    /\ UNCHANGED <<chart, drag, mouse, pressed>>

(* Mutant: fingers that pass each other are not held at the least scale. *)
Bug_Scale(fs, k) ==
    LET now == 2 * fs[2][k] - Middle(fs, k)
        was == 2 * touch.initialTouches[2][k] - touch.center[k]
    IN  IF Len(fs) = 1 \/ was = 0 \/ now = 0 THEN <<1, 1>>
        ELSE <<IF was < 0 THEN -now ELSE now, Away(was, 0)>>

\* How much further apart the fingers are than at the start, as a fraction between 1/8 and 8.
\* A start without a distance along the axis has no such scale, but then it does not zoom along it.
Scale(fs, k) ==
    LET now == 2 * fs[2][k] - Middle(fs, k)
        was == 2 * touch.initialTouches[2][k] - touch.center[k]
        num == IF was < 0 THEN -now ELSE now
        den == Away(was, 0)
    IN  IF Len(fs) = 1 \/ den = 0 THEN <<1, 1>>
        ELSE CASE num * 8 < den -> <<1, 8>>
               [] num > 8 * den -> <<8, 1>>
               [] OTHER         -> <<num, den>>

\* A range, moved with the fingers and stretched around the point they were on.
Stretched(r, fixed, moved, scale) ==
    [i \in 1..2 |-> fixed - moved + ((r[i] - fixed) * scale[2]) \div scale[1]]

moveTouch(fs) ==
    LET dx == ((Middle(fs, 1) - touch.center[1]) * Size(touch.rangeX)) \div (2 * Area.w)
        dy == - (((Middle(fs, 2) - touch.center[2]) * Size(touch.rangeY)) \div (2 * Area.h))
    IN  /\ dateWindow' = IF touch.x THEN Stretched(touch.rangeX, touch.data[1], dx, Scale(fs, 1)) ELSE dateWindow
        /\ valueRange' = IF touch.y THEN Stretched(touch.rangeY, touch.data[2], dy, Scale(fs, 2)) ELSE valueRange
        /\ drawGraph
        /\ touch' = [touch EXCEPT !.tap = "none"]

touchmove(i, p) ==
    /\ i \in DOMAIN fingers /\ \A j \in DOMAIN fingers : fingers[j] # p
    /\ fingers' = [fingers EXCEPT ![i] = p]
    /\ moveTouch(fingers')
    /\ UNCHANGED <<drag, mouse, pressed, dblclick, gestures>>

Without(fs, i) == IF i = 1 THEN Tail(fs) ELSE SubSeq(fs, 1, i - 1)
Near(p, q) == p # None /\ Away(p[1], q[1]) < 50 /\ Away(p[2], q[2]) < 50

(* Mutant: what the first two fingers began goes on with the one that is left. *)
Bug_touchend(i) ==
    /\ i \in DOMAIN fingers
    /\ fingers' = Without(fingers, i)
    /\ UNCHANGED <<chart, touch, drag, mouse, pressed, dblclick, gestures>>

\* A finger less: the rest start again.  The last finger may end a double tap.
touchend(i) ==
    /\ i \in DOMAIN fingers
    /\ fingers' = Without(fingers, i)
    /\ \/ /\ fingers' # <<>>
          /\ startTouch(fingers')
          /\ UNCHANGED chart
       \/ /\ fingers' = <<>>
          /\ IF touch.tap = "recent" /\ Near(touch.tapAt, fingers[i])
             THEN resetZoom /\ UNCHANGED touch
             ELSE touch' = [touch EXCEPT !.tap = "recent", !.tapAt = fingers[i]] /\ UNCHANGED chart
    /\ UNCHANGED <<drag, mouse, pressed, dblclick, gestures>>

\* Half a second goes by after a tap.
Wait ==
    /\ touch.tap = "recent"
    /\ touch' = [touch EXCEPT !.tap = "old"]
    /\ UNCHANGED <<chart, drag, mouse, pressed, fingers, dblclick, gestures>>

-----------------------------------------------------------------------------
Next ==
    \/ \E b \in Buttons, shift \in BOOLEAN : mousedown(b, shift)
    \/ \E p \in Points : mousemove(p)
    \/ \E b \in Buttons : mouseup(b)
    \/ \E b \in Buttons : mouseupUnheard(b)
    \/ \E shift \in BOOLEAN : doubleClick(shift)
    \/ adjustRoll
    \/ \E p \in Points : touchstart(p)
    \/ \E i \in 1..2, p \in Points : touchmove(i, p)
    \/ \E i \in 1..2 : touchend(i)
    \/ Wait

Spec == Init /\ [][Next]_vars

-----------------------------------------------------------------------------
(* Properties. *)

\* mousedown, mouseup, destroy: a gesture is under way exactly as long as somebody
\* listens for its end, whatever buttons went down and up meanwhile, unheard ones
\* among them; without one nothing covers the page's frames, no rectangle is left
\* on the chart and the start of a drag is forgotten.
GestureOwned ==
    /\ listeners > 0 <=> context.isZooming \/ context.isPanning
    /\ listeners > 0 <=> context.dragStart # None
    /\ listeners = 0 => tarps = 0 /\ ~ zoomRect

\* endZoom, movePan, moveTouch: zooms, pans and pinches, in any order, never turn the
\* chart around, on neither axis; not when fingers pass each other, whose scale is held
\* at an eighth, nor when a drag goes back over where it began.
WindowNotTurned == Size(xAxisRange(dateWindow)) >= 0 /\ Size(yAxisRange(valueRange)) >= 0

\* endZoom: what a drag zooms to lies inside what was shown when the button went up,
\* for a drag that began or ended beside the plot too ("The zoom rectangle is
\* visibly clipped to the plot area, so its behavior should be as well"), and it is
\* one axis that is zoomed.  (After a zoom along the dates an axis of values that has
\* not been zoomed is fitted anew, and may show more than before.)
ZoomInside ==
    [][listeners > 0 /\ listeners' = 0 =>
          /\ Within(xAxisRange(dateWindow'), xAxisRange(dateWindow))
          /\ valueRange' # valueRange => dateWindow' = dateWindow /\ Within(valueRange', yAxisRange(valueRange))]_vars

\* mousemove, mouseup: a drag let go of beyond the margin around the chart zooms
\* nothing, wherever it has been and whatever the drags before it left in the context.
FarAwayIsNoZoom ==
    [][listeners > 0 /\ listeners' = 0 /\ distanceFromChart(mouse) >= DRAG_EDGE_MARGIN => UNCHANGED chart]_vars

\* startTouch, moveTouch, endTouch: one finger stays on the data it was put on, the
\* one that is left of a pinch too (to a few units of rounding).
FingerHoldsTheData ==
    Len(fingers) = 1 => Away(toDataXCoord(fingers[1][1], dateWindow), touch.data[1]) <= 4
=============================================================================

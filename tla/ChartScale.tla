----------------------------- MODULE ChartScale -----------------------------
(***************************************************************************)
(* Pixels and dates of a chart: the conversion of dygraph.js, and what a   *)
(* drag with the shift key makes of the date window (startPan, movePan).   *)
(* Data are integers, fine enough that rounding stays below a pixel.       *)
(***************************************************************************)
EXTENDS Integers, FiniteSets, Sequences

CONSTANTS
    Area,        \* plotter_.area: [x, y, w, h] in pixels
    Extent       \* xAxisExtremes of the data

ASSUME ScaleAssumption ==
    /\ Area \in [x : Nat, y : Nat, w : Nat \ {0, 1}, h : Nat \ {0, 1}]
    /\ Extent \in Int \X Int /\ Extent[1] < Extent[2]

Lesser(a, b) == IF a < b THEN a ELSE b
Greater(a, b) == IF a > b THEN a ELSE b
Size(r) == r[2] - r[1]
Within(r, s) == s[1] <= r[1] /\ r[2] <= s[2]
Away(a, b) == Greater(a, b) - Lesser(a, b)

\* A window is <<>> when the chart shows everything.
xAxisRange(w) == IF w = <<>> THEN Extent ELSE w

toDataXCoord(x, w) == xAxisRange(w)[1] + ((x - Area.x) * Size(xAxisRange(w))) \div Area.w

-----------------------------------------------------------------------------
(* Panning along the dates. *)

\* What startPan remembers of the window.
startPanDates(w) == [initialLeftmostDate |-> xAxisRange(w)[1], dateRange |-> Size(xAxisRange(w))]

(* Mutant: each end of the window is held inside the data for itself. *)
Bug_panDates(p, pixels, bounded) ==
    LET free == p.initialLeftmostDate - (pixels * p.dateRange) \div (Area.w - 1)
    IN  IF bounded THEN <<Greater(free, Extent[1]), Lesser(free + p.dateRange, Extent[2])>>
        ELSE <<free, free + p.dateRange>>

\* The new date window, held inside the data when the pan is bounded (panEdgeFraction).
panDates(p, pixels, bounded) ==
    LET free == p.initialLeftmostDate - (pixels * p.dateRange) \div (Area.w - 1)
        min  == IF bounded THEN Greater(free, Extent[1]) ELSE free
    IN  IF bounded /\ min + p.dateRange > Extent[2] THEN <<Extent[2] - p.dateRange, Extent[2]>>
        ELSE <<min, min + p.dateRange>>
=============================================================================

------------------------- MODULE ChartGestureProofs -------------------------
(***************************************************************************)
(* The drag of a chart is owned, and is cancelled far away; a zoom stays   *)
(* inside what was shown, no gesture turns the chart around, and a finger  *)
(* stays on its data: for every plot, every set of places and buttons, and *)
(* however many gestures.                                                  *)
(***************************************************************************)
EXTENDS ChartGesture, SequenceTheorems, TLAPS

USE DEF chart, drag

DragFields == {"isZooming", "isPanning", "pan", "dragStart", "dragEnd", "dragDirection", "cancelNextDblclick"}

DragType ==
    /\ DragFields \subseteq DOMAIN context
    /\ context.isZooming \in BOOLEAN /\ context.isPanning \in BOOLEAN
    /\ listeners \in Nat /\ tarps \in Nat /\ zoomRect \in BOOLEAN
    /\ mouse \in Points

(* The rectangle is on the canvas only in a zoom that has an end to draw it to ... *)
RectHasEnd == zoomRect => context.isZooming /\ context.dragEnd # None

(* ... and a zoom has an end only while the pointer is near the chart. *)
EndIsNear == context.isZooming /\ context.dragEnd # None => distanceFromChart(mouse) < DRAG_EDGE_MARGIN

DragInv == DragType /\ GestureOwned /\ RectHasEnd /\ EndIsNear

DragVars == <<context, listeners, tarps, zoomRect, mouse>>

(* A pointer over the chart has no distance from it. *)
LEMMA OnCanvasIsNear == \A p \in Points : OnCanvas(p) => distanceFromChart(p) < DRAG_EDGE_MARGIN
  BY GestureAssumption DEF OnCanvas

LEMMA DistanceIsInt == \A p \in Points : distanceFromChart(p) \in Int
  BY GestureAssumption DEF distanceFromChart, distanceFromInterval, Greater

LEMMA DragInvInit == Init => DragInv
<1> SUFFICES ASSUME Init PROVE DragInv
  OBVIOUS
<1>1. /\ DragFields \subseteq DOMAIN context
      /\ context.isZooming = FALSE /\ context.isPanning = FALSE
      /\ context.dragStart = None /\ context.dragEnd = None
  BY DEF Init, DragFields
<1>2. listeners = 0 /\ tarps = 0 /\ zoomRect = FALSE /\ mouse \in Points
  BY DEF Init
<1>3. DragType
  BY <1>1, <1>2 DEF DragType
<1>4. GestureOwned
  BY <1>1, <1>2 DEF GestureOwned
<1> QED
  BY <1>1, <1>2, <1>3, <1>4 DEF DragInv, RectHasEnd, EndIsNear

LEMMA PressKeeps == ASSUME DragInv, NEW b \in Buttons, NEW shift \in BOOLEAN, mousedown(b, shift) PROVE DragInv'
<1> USE DEF DragInv, DragType, DragFields, GestureOwned, RectHasEnd, EndIsNear
<1>1. CASE b = "right"
  BY <1>1 DEF mousedown, distanceFromChart
<1>2. CASE b # "right"
  <2>1. /\ DragFields \subseteq DOMAIN context'
        /\ context'.dragStart = mouse /\ context'.dragEnd = context.dragEnd
        /\ context'.isZooming = (context.isZooming \/ ~ shift)
        /\ context'.isPanning = (context.isPanning \/ shift)
    BY <1>2 DEF mousedown
  <2>2. listeners' = listeners + 1 /\ tarps' = tarps + 1 /\ UNCHANGED <<zoomRect, mouse>>
    BY <1>2 DEF mousedown, cover
  <2>3. distanceFromChart(mouse)' < DRAG_EDGE_MARGIN
    BY <2>2, OnCanvasIsNear DEF mousedown, distanceFromChart
  <2>4. listeners' > 0 /\ mouse # None /\ (context'.isZooming \/ context'.isPanning)
    <3>1. context'.isZooming \/ context'.isPanning
      BY <2>1, Zenon
    <3>2. listeners' > 0
      BY <2>2
    <3>3. mouse # None
      BY GestureAssumption
    <3> QED
      BY <3>1, <3>2, <3>3
  <2>5. DragType'
    BY <2>1, <2>2
  <2>6. GestureOwned'
    BY <2>1, <2>4, <2>5
  <2>7. RectHasEnd'
    BY <2>1, <2>2
  <2> QED
    BY <2>3, <2>5, <2>6, <2>7
<1> QED
  BY <1>1, <1>2

LEMMA MoveKeeps == ASSUME DragInv, NEW p \in Points, mousemove(p) PROVE DragInv'
<1> USE DEF DragInv, DragType, DragFields, GestureOwned, RectHasEnd, EndIsNear
<1>m. mouse' = p /\ UNCHANGED <<listeners, tarps>>
  BY DEF mousemove
<1>d. distanceFromChart(mouse)' = distanceFromChart(p) /\ distanceFromChart(p) \in Int
  BY <1>m, DistanceIsInt DEF distanceFromChart
<1>1. CASE listeners = 0 \/ ~ (context.isZooming \/ context.isPanning)
  BY <1>1, <1>m DEF mousemove
<1>2. CASE ~ (listeners = 0 \/ ~ (context.isZooming \/ context.isPanning))
  <2>1. CASE context.isZooming /\ distanceFromChart(p) < DRAG_EDGE_MARGIN /\ moveZoom(p)
    <3>1. /\ DragFields \subseteq DOMAIN context'
          /\ context'.dragStart = context.dragStart /\ context'.dragEnd = p
          /\ context'.isZooming = context.isZooming /\ context'.isPanning = context.isPanning
          /\ zoomRect' = TRUE
      BY <2>1 DEF moveZoom
    <3> QED
      BY <1>m, <1>d, <1>2, <2>1, <3>1, GestureAssumption
  <2>2. CASE context.isZooming /\ distanceFromChart(p) >= DRAG_EDGE_MARGIN /\ leaveZoom
    <3>1. /\ DragFields \subseteq DOMAIN context'
          /\ context'.dragStart = context.dragStart /\ context'.dragEnd = None
          /\ context'.isZooming = context.isZooming /\ context'.isPanning = context.isPanning
          /\ zoomRect' = FALSE
      BY <2>2 DEF leaveZoom
    <3> QED
      BY <1>m, <1>2, <2>2, <3>1
  <2>3. CASE ~ context.isZooming /\ movePan(p)
    <3>1. /\ DragFields \subseteq DOMAIN context'
          /\ context'.dragStart = context.dragStart
          /\ context'.isZooming = context.isZooming /\ context'.isPanning = context.isPanning
          /\ zoomRect' = FALSE
      BY <2>3 DEF movePan
    <3> QED
      BY <1>m, <1>2, <2>3, <3>1
  <2> QED
    BY <1>2, <2>1, <2>2, <2>3 DEF mousemove
<1> QED
  BY <1>1, <1>2

LEMMA ReleaseKeeps == ASSUME DragInv, NEW b \in Buttons, mouseup(b) PROVE DragInv'
<1> USE DEF DragInv, DragType, DragFields, GestureOwned, RectHasEnd, EndIsNear
<1>1. CASE listeners = 0
  BY <1>1 DEF mouseup, distanceFromChart
<1>2. CASE listeners # 0
  <2>1. listeners' = 0 /\ tarps' = 0 /\ UNCHANGED mouse
    BY <1>2 DEF mouseup, uncover
  <2>2. context.isZooming \/ context.isPanning
    BY <1>2
  <2>3. /\ DragFields \subseteq DOMAIN context'
        /\ context'.isZooming = FALSE /\ context'.isPanning = FALSE
        /\ context'.dragStart = None
        /\ zoomRect' = FALSE
    <3>1. CASE context.isZooming /\ context.dragEnd # None /\ endZoom
      BY <3>1 DEF endZoom
    <3>2. CASE ~ (context.isZooming /\ context.dragEnd # None) /\ endOther
      BY <3>2, <2>2 DEF endOther
    <3> QED
      BY <1>2, <3>1, <3>2 DEF mouseup
  <2>4. DragType'
    BY <2>1, <2>3
  <2>5. GestureOwned'
    BY <2>1, <2>3
  <2> QED
    BY <2>3, <2>4, <2>5
<1> QED
  BY <1>1, <1>2

(* A double click only forgets that one was to be left out. *)
LEMMA DoubleClickKeeps == ASSUME DragInv, NEW shift \in BOOLEAN, doubleClick(shift) PROVE DragInv'
<1>1. /\ DragFields \subseteq DOMAIN context'
      /\ context'.dragStart = context.dragStart /\ context'.dragEnd = context.dragEnd
      /\ context'.isZooming = context.isZooming /\ context'.isPanning = context.isPanning
      /\ UNCHANGED <<listeners, tarps, zoomRect, mouse>>
  BY DEF doubleClick, DragInv, DragType, DragFields
<1> QED
  BY <1>1 DEF DragInv, DragType, GestureOwned, RectHasEnd, EndIsNear, distanceFromChart

LEMMA RollKeeps == DragInv /\ adjustRoll => DragInv'
  BY DEF adjustRoll, DragInv, DragType, GestureOwned, RectHasEnd, EndIsNear, distanceFromChart

(* Fingers have a context of their own. *)
LEMMA OthersKeep == DragInv /\ UNCHANGED DragVars => DragInv'
  BY DEF DragVars, DragInv, DragType, GestureOwned, RectHasEnd, EndIsNear, distanceFromChart

LEMMA DragInvStep == DragInv /\ [Next]_vars => DragInv'
<1> SUFFICES ASSUME DragInv, [Next]_vars PROVE DragInv'
  OBVIOUS
<1>1. CASE \E b \in Buttons, shift \in BOOLEAN : mousedown(b, shift)
  BY <1>1, PressKeeps
<1>2. CASE \E p \in Points : mousemove(p)
  BY <1>2, MoveKeeps
<1>3. CASE \E b \in Buttons : mouseup(b)
  BY <1>3, ReleaseKeeps
<1>4. CASE \E shift \in BOOLEAN : doubleClick(shift)
  BY <1>4, DoubleClickKeeps
<1>5. CASE adjustRoll
  BY <1>5, RollKeeps
<1>6. CASE UNCHANGED DragVars
  BY <1>6, OthersKeep
<1>7. (\E b \in Buttons : mouseupUnheard(b)) => UNCHANGED DragVars
  BY DEF mouseupUnheard, DragVars
<1>8. (\E p \in Points : touchstart(p)) => UNCHANGED DragVars
  BY DEF touchstart, DragVars
<1>9. (\E i \in 1..2, p \in Points : touchmove(i, p)) => UNCHANGED DragVars
  BY DEF touchmove, DragVars
<1>10. (\E i \in 1..2 : touchend(i)) => UNCHANGED DragVars
  BY DEF touchend, DragVars
<1>11. Wait \/ UNCHANGED vars => UNCHANGED DragVars
  BY DEF Wait, vars, DragVars
<1> QED
  BY <1>1, <1>2, <1>3, <1>4, <1>5, <1>6, <1>7, <1>8, <1>9, <1>10, <1>11 DEF Next

LEMMA DragInvariant == Spec => []DragInv
  BY DragInvInit, DragInvStep, PTL DEF Spec

(* A drag is under way exactly as long as a listener waits for its end, whatever buttons went  *)
(* down and up meanwhile (mousedown and mouseup of createDragInterface_).                       *)
THEOREM DragIsOwned == Spec => []GestureOwned
<1>1. DragInv => GestureOwned
  BY DEF DragInv
<1> QED
  BY <1>1, DragInvariant, PTL

(* A drag let go of far from the chart zooms nothing (endZoom asks for an end, and a move      *)
(* beyond the margin takes it away).                                                            *)
THEOREM FarDragIsDropped == Spec => FarAwayIsNoZoom
<1> DEFINE Far == /\ listeners > 0 /\ listeners' = 0
                  /\ distanceFromChart(mouse) >= DRAG_EDGE_MARGIN
<1>1. ASSUME DragInv, [Next]_vars, Far PROVE UNCHANGED chart
  <2>1. PICK b \in Buttons : mouseup(b)
    <3>1. listeners' # listeners
      BY <1>1 DEF DragInv, DragType
    <3>2. \A b \in Buttons, shift \in BOOLEAN : ~ mousedown(b, shift)
      BY <1>1 DEF mousedown, DragInv, DragType
    <3> QED
      BY <1>1, <3>1, <3>2
         DEF Next, vars, mousemove, mouseupUnheard, doubleClick, adjustRoll, touchstart, touchmove, touchend, Wait
  <2>2. ~ (context.isZooming /\ context.dragEnd # None)
    <3>1. distanceFromChart(mouse) \in Int
      BY <1>1, DistanceIsInt DEF DragInv, DragType
    <3> QED
      BY <1>1, <3>1, GestureAssumption DEF DragInv, EndIsNear
  <2>3. endOther
    BY <1>1, <2>1, <2>2 DEF mouseup, DragInv, DragType
  <2> QED
    BY <2>3 DEF endOther, chart
<1>2. DragInv /\ [Next]_vars => [Far => UNCHANGED chart]_vars
  BY <1>1
<1> QED
  BY <1>2, DragInvariant, PTL DEF Spec, FarAwayIsNoZoom

-----------------------------------------------------------------------------
(* Whole quotients: what toDataXCoord and its like are made of.             *)
LEMMA DivBounds ==
    ASSUME NEW a \in Int, NEW w \in Nat, w > 0
    PROVE  a \div w \in Int /\ w * (a \div w) <= a /\ a < w * (a \div w) + w
  OBVIOUS

LEMMA TimesMono ==
    ASSUME NEW a \in Int, NEW b \in Int, NEW w \in Nat, a <= b
    PROVE  w * a <= w * b /\ a * w <= b * w /\ a * w \in Int /\ b * w \in Int
  OBVIOUS

LEMMA DivUnique ==
    ASSUME NEW a \in Int, NEW w \in Nat, w > 0, NEW q \in Int, w * q <= a, a < w * q + w
    PROVE  a \div w = q
  OBVIOUS

LEMMA DivMono ==
    ASSUME NEW a \in Int, NEW b \in Int, NEW w \in Nat, w > 0, a <= b
    PROVE  a \div w <= b \div w
<1>1. ASSUME b \div w < a \div w PROVE FALSE
  <2>1. (b \div w) + 1 <= a \div w /\ a \div w \in Int /\ b \div w \in Int
    BY <1>1, DivBounds
  <2>2. w * ((b \div w) + 1) <= w * (a \div w)
    BY <2>1, TimesMono
  <2>3. w * ((b \div w) + 1) = w * (b \div w) + w
    BY <2>1
  <2> QED
    BY <2>1, <2>2, <2>3, DivBounds
<1> QED
  BY <1>1, DivBounds

(* Rounding down twice loses less than rounding down once and one more. *)
LEMMA DivSum ==
    ASSUME NEW a \in Int, NEW b \in Int, NEW w \in Nat, w > 0
    PROVE  a \div w - (a - b) \div w - b \div w \in {0, 1}
<1> DEFINE p == a \div w
           q == (a - b) \div w
           r == b \div w
<1>1. /\ p \in Int /\ w * p <= a /\ a < w * p + w
      /\ q \in Int /\ w * q <= a - b /\ a - b < w * q + w
      /\ r \in Int /\ w * r <= b /\ b < w * r + w
  BY DivBounds
<1> HIDE DEF p, q, r
<1>2. w * (p - q - r) = w * p - w * q - w * r
  BY <1>1
<1>3. w * p \in Int /\ w * q \in Int /\ w * r \in Int /\ p - q - r \in Int
  BY <1>1
<1>4. ASSUME p - q - r <= -1 PROVE FALSE
  <2>1. w * (p - q - r) <= w * (-1)
    BY <1>1, <1>3, <1>4, TimesMono
  <2>2. w * (-1) = -w
    OBVIOUS
  <2> QED
    BY <1>1, <1>2, <1>3, <2>1, <2>2
<1>5. ASSUME p - q - r >= 2 PROVE FALSE
  <2>1. w * 2 <= w * (p - q - r)
    BY <1>1, <1>3, <1>5, TimesMono
  <2> QED
    BY <1>1, <1>2, <1>3, <2>1
<1>6. p - q - r = 0 \/ p - q - r = 1
  BY <1>3, <1>4, <1>5
<1> QED
  BY <1>6 DEF p, q, r

-----------------------------------------------------------------------------
(* What is shown, and what the gestures remember of it.                     *)
Ranges == {r \in Int \X Int : r[1] <= r[2]}

ViewOK ==
    /\ dateWindow \in {<<>>} \cup Ranges /\ valueRange \in {<<>>} \cup Ranges
    /\ extremeRange \in Ranges

PanOK ==
    /\ context.pan \in [initialLeftmostDate : Int, dateRange : Nat, is2DPan : BOOLEAN,
                        initialTopValue : Int, dragValueRange : Nat]
    /\ context.dragStart \in Points \cup {None}

TouchOK ==
    touch \in [initialTouches : Seq(Points), center : Int \X Int, data : Int \X Int, x : BOOLEAN, y : BOOLEAN,
               rangeX : Ranges, rangeY : Ranges, tap : {"none", "recent", "old"}, tapAt : Points \cup {None}]

(* While fingers are on the chart the mouse is not, and the touch is about as many. *)
FingersOK ==
    /\ fingers \in Seq(Points) /\ Len(fingers) <= 2
    /\ fingers # <<>> => pressed = {} /\ ~ dblclick /\ Len(touch.initialTouches) = Len(fingers)

(* What is shown when one finger is at p: the range of its start, moved. *)
OneFingerX(p) ==
    LET s == touch.initialTouches[1][1]
        moved == ((2 * p - touch.center[1]) * Size(touch.rangeX)) \div (2 * Area.w)
    IN  /\ touch.x /\ touch.center[1] = 2 * s
        /\ touch.data[1] = touch.rangeX[1] + ((s - Area.x) * Size(touch.rangeX)) \div Area.w
        /\ xAxisRange(dateWindow)[1] = touch.rangeX[1] - moved
        /\ xAxisRange(dateWindow)[2] = touch.rangeX[2] - moved

OneFinger == Len(fingers) = 1 => OneFingerX(fingers[1][1])

ViewInv == DragInv /\ ViewOK /\ PanOK /\ TouchOK /\ FingersOK /\ OneFinger

LEMMA Plot ==
    /\ Area.x \in Int /\ Area.y \in Int
    /\ Area.w \in Nat /\ Area.w > 1 /\ Area.h \in Nat /\ Area.h > 1
    /\ Extent \in Ranges /\ Values \subseteq Ranges
    /\ \A p \in Points : p[1] \in Int /\ p[2] \in Int
  BY ScaleAssumption, GestureAssumption DEF Ranges

LEMMA RangeParts == \A r \in Ranges : Size(r) \in Nat /\ r[1] \in Int /\ r[2] \in Int /\ r[2] = r[1] + Size(r)
  BY DEF Ranges, Size

LEMMA Shown ==
    ASSUME NEW w \in {<<>>} \cup Ranges
    PROVE  /\ xAxisRange(w) \in Ranges /\ Size(xAxisRange(w)) \in Nat
           /\ xAxisRange(w)[1] \in Int /\ xAxisRange(w)[2] = xAxisRange(w)[1] + Size(xAxisRange(w))
<1>1. xAxisRange(w) \in Ranges
  BY Plot DEF xAxisRange
<1> QED
  BY <1>1, RangeParts

LEMMA ShownValues ==
    ASSUME extremeRange \in Ranges, NEW w \in {<<>>} \cup Ranges
    PROVE  /\ yAxisRange(w) \in Ranges /\ Size(yAxisRange(w)) \in Nat /\ yAxisRange(w)[2] \in Int
           /\ yAxisRange(w)[1] \in Int /\ yAxisRange(w)[2] = yAxisRange(w)[1] + Size(yAxisRange(w))
<1>1. yAxisRange(w) \in Ranges
  BY DEF yAxisRange
<1> QED
  BY <1>1, RangeParts

(* What a redraw fits is a range. *)
LEMMA Drawn == drawGraph \/ (UNCHANGED extremeRange /\ extremeRange \in Ranges) => extremeRange' \in Ranges
  BY Plot DEF drawGraph

(* A part of a distance, as a part of a range. *)
LEMMA Share ==
    ASSUME NEW lo \in Int, NEW size \in Nat, NEW w \in Nat, w > 0, NEW a \in Int, NEW b \in Int, a <= b
    PROVE  /\ lo + (a * size) \div w \in Int /\ lo + (b * size) \div w \in Int
           /\ lo + (a * size) \div w <= lo + (b * size) \div w
           /\ 0 <= a => lo <= lo + (a * size) \div w
           /\ b <= w => lo + (b * size) \div w <= lo + size
<1>1. a * size \in Int /\ b * size \in Int /\ a * size <= b * size
  BY TimesMono
<1>2. (a * size) \div w \in Int /\ (b * size) \div w \in Int /\ (a * size) \div w <= (b * size) \div w
  BY <1>1, DivBounds, DivMono
<1>3. ASSUME 0 <= a PROVE 0 <= (a * size) \div w
  <2>1. 0 * size <= a * size /\ 0 * size = 0
    BY <1>3, TimesMono
  <2>2. 0 \div w = 0
    BY DivUnique
  <2> QED
    BY <1>1, <2>1, <2>2, DivMono
<1>4. ASSUME b <= w PROVE (b * size) \div w <= size
  <2>1. b * size <= w * size /\ w * size \in Int
    BY <1>4, TimesMono
  <2>2. (w * size) \div w = size
    BY <2>1, DivUnique
  <2> QED
    BY <1>1, <2>1, <2>2, DivMono
<1> QED
  BY <1>2, <1>3, <1>4

(* toDataXCoord and toDataYCoord: in order, and inside what is shown for a place on the plot. *)
LEMMA DataX ==
    ASSUME NEW w \in {<<>>} \cup Ranges, NEW a \in Int, NEW b \in Int, a <= b
    PROVE  /\ toDataXCoord(a, w) \in Int /\ toDataXCoord(b, w) \in Int
           /\ toDataXCoord(a, w) <= toDataXCoord(b, w)
           /\ Area.x <= a => xAxisRange(w)[1] <= toDataXCoord(a, w)
           /\ b <= Area.x + Area.w => toDataXCoord(b, w) <= xAxisRange(w)[2]
<1> DEFINE lo == xAxisRange(w)[1]
           hi == xAxisRange(w)[2]
           size == Size(xAxisRange(w))
           in(x) == x - Area.x
           at(x) == lo + (in(x) * size) \div Area.w
<1>1. lo \in Int /\ size \in Nat /\ hi = lo + size /\ Area.w \in Nat /\ Area.w > 0
  BY Shown, Plot
<1>2. /\ in(a) \in Int /\ in(b) \in Int /\ in(a) <= in(b)
      /\ Area.x <= a => 0 <= in(a)
      /\ b <= Area.x + Area.w => in(b) <= Area.w
  BY Plot
<1>3. toDataXCoord(a, w) = at(a) /\ toDataXCoord(b, w) = at(b)
  BY DEF toDataXCoord
<1>4. /\ at(a) \in Int /\ at(b) \in Int /\ at(a) <= at(b)
      /\ 0 <= in(a) => lo <= at(a)
      /\ in(b) <= Area.w => at(b) <= lo + size
  <2> HIDE DEF lo, size, in
  <2> QED
    BY <1>1, <1>2, Share
<1> HIDE DEF lo, hi, size, in, at
<1> QED
  BY <1>1, <1>2, <1>3, <1>4 DEF lo, hi

LEMMA DataY ==
    ASSUME extremeRange \in Ranges, NEW w \in {<<>>} \cup Ranges, NEW a \in Int, NEW b \in Int, a <= b
    PROVE  /\ toDataYCoord(a, w) \in Int /\ toDataYCoord(b, w) \in Int
           /\ toDataYCoord(b, w) <= toDataYCoord(a, w)
           /\ Area.y <= a => toDataYCoord(a, w) <= yAxisRange(w)[2]
           /\ b <= Area.y + Area.h => yAxisRange(w)[1] <= toDataYCoord(b, w)
<1> DEFINE lo == yAxisRange(w)[1]
           hi == yAxisRange(w)[2]
           size == Size(yAxisRange(w))
           up(y) == Area.y + Area.h - y
           at(y) == lo + (up(y) * size) \div Area.h
<1>1. lo \in Int /\ size \in Nat /\ hi = lo + size /\ Area.h \in Nat /\ Area.h > 0
  BY ShownValues, Plot
<1>2. /\ up(a) \in Int /\ up(b) \in Int /\ up(b) <= up(a)
      /\ Area.y <= a => up(a) <= Area.h
      /\ b <= Area.y + Area.h => 0 <= up(b)
  BY Plot
<1>3. toDataYCoord(a, w) = at(a) /\ toDataYCoord(b, w) = at(b)
  BY DEF toDataYCoord
<1>4. /\ at(a) \in Int /\ at(b) \in Int /\ at(b) <= at(a)
      /\ 0 <= up(b) => lo <= at(b)
      /\ up(a) <= Area.h => at(a) <= lo + size
  <2> HIDE DEF lo, size, up
  <2> QED
    BY <1>1, <1>2, Share
<1> HIDE DEF lo, hi, size, up, at
<1> QED
  BY <1>1, <1>2, <1>3, <1>4 DEF lo, hi

LEMMA DataIsInt ==
    ASSUME extremeRange \in Ranges, NEW w \in {<<>>} \cup Ranges, NEW x \in Int
    PROVE  toDataXCoord(x, w) \in Int /\ toDataYCoord(x, w) \in Int
<1>1. x <= x
  OBVIOUS
<1> QED
  BY <1>1, DataX, DataY

(* A window is not taken for none. *)
LEMMA RangeIsWindow == \A r \in Ranges : r # <<>> /\ xAxisRange(r) = r
<1>1. \A a, b \in Int : <<a, b>> # <<>>
  OBVIOUS
<1>2. \A r \in Ranges : \E a, b \in Int : r = <<a, b>>
  BY DEF Ranges
<1>3. \A r \in Ranges : r # <<>>
  BY <1>1, <1>2
<1> QED
  BY <1>3 DEF xAxisRange

(* A pan moves a range as it is. *)
LEMMA PanMoves ==
    ASSUME PanOK, NEW px \in Int
    PROVE  panDates(context.pan, px, FALSE) \in Ranges /\ panValues(context.pan, px) \in Ranges
<1> DEFINE d == (px * context.pan.dateRange) \div (Area.w - 1)
           e == (px * context.pan.dragValueRange) \div (Area.h - 1)
           min == context.pan.initialLeftmostDate - d
           max == context.pan.initialTopValue + e
<1>1. /\ context.pan.dateRange \in Nat /\ context.pan.dragValueRange \in Nat
      /\ context.pan.initialLeftmostDate \in Int /\ context.pan.initialTopValue \in Int
  BY DEF PanOK
<1>2. px * context.pan.dateRange \in Int /\ px * context.pan.dragValueRange \in Int
  BY <1>1
<1>3. Area.w - 1 \in Nat /\ Area.w - 1 > 0 /\ Area.h - 1 \in Nat /\ Area.h - 1 > 0
  BY Plot
<1>4. d \in Int /\ e \in Int
  BY <1>2, <1>3, DivBounds
<1>5. /\ panDates(context.pan, px, FALSE) = <<min, min + context.pan.dateRange>>
      /\ panValues(context.pan, px) = <<max - context.pan.dragValueRange, max>>
  BY DEF panDates, panValues
<1> HIDE DEF d, e
<1>6. min \in Int /\ max \in Int
  BY <1>1, <1>4
<1> HIDE DEF min, max
<1>7. \A lo \in Int, size \in Nat : <<lo, lo + size>> \in Ranges /\ <<lo - size, lo>> \in Ranges
  BY DEF Ranges
<1> QED
  BY <1>1, <1>5, <1>6, <1>7

(* A pinch stretches a range by a positive scale, and so does not turn it around. *)
LEMMA StretchedRange ==
    ASSUME NEW r \in Ranges, NEW fixed \in Int, NEW moved \in Int, NEW num \in Nat, num > 0, NEW den \in Nat
    PROVE  Stretched(r, fixed, moved, <<num, den>>) \in Ranges
<1> DEFINE at(k) == fixed - moved + ((r[k] - fixed) * den) \div num
<1>1. r[1] \in Int /\ r[2] \in Int /\ r[1] - fixed \in Int /\ r[2] - fixed \in Int /\ r[1] - fixed <= r[2] - fixed
  BY DEF Ranges
<1>2. fixed - moved \in Int
  OBVIOUS
<1>3. at(1) \in Int /\ at(2) \in Int /\ at(1) <= at(2)
  BY <1>1, <1>2, Share
<1>4. Stretched(r, fixed, moved, <<num, den>>) = [i \in 1..2 |-> at(i)]
  BY DEF Stretched
<1> HIDE DEF at
<1>5. [i \in 1..2 |-> at(i)] = <<at(1), at(2)>>
  OBVIOUS
<1> QED
  BY <1>3, <1>4, <1>5 DEF Ranges

LEMMA MiddleIsInt ==
    ASSUME NEW fs \in Seq(Points), Len(fs) \in {1, 2}, NEW k \in {1, 2}
    PROVE  Middle(fs, k) \in Int /\ fs[1] \in Points /\ fs[1][k] \in Int /\ (Len(fs) = 2 => fs[2][k] \in Int)
<1>1. fs[1] \in Points /\ (Len(fs) = 2 => fs[2] \in Points)
  OBVIOUS
<1> QED
  BY <1>1, Plot DEF Middle

(* The scale of a pinch is between 1/8 and 8, fingers that have passed each other held at the least. *)
LEMMA ScaleIsPositive ==
    ASSUME TouchOK, NEW fs \in Seq(Points), Len(fs) \in {1, 2}, Len(touch.initialTouches) = Len(fs), NEW k \in {1, 2}
    PROVE  \E num, den \in Nat : num > 0 /\ Scale(fs, k) = <<num, den>>
<1>1. CASE Len(fs) = 1
  BY <1>1 DEF Scale
<1>2. CASE Len(fs) = 2
  <2> DEFINE now == 2 * fs[2][k] - Middle(fs, k)
             was == 2 * touch.initialTouches[2][k] - touch.center[k]
             num == IF was < 0 THEN -now ELSE now
             den == Away(was, 0)
  <2>1. now \in Int
    BY <1>2, MiddleIsInt
  <2>2. touch.initialTouches[2][k] \in Int /\ touch.center[k] \in Int
    <3>1. touch.initialTouches \in Seq(Points) /\ touch.center \in Int \X Int
      BY DEF TouchOK
    <3> QED
      BY <1>2, <3>1, MiddleIsInt
  <2>3. was \in Int
    BY <2>2
  <2>4. Scale(fs, k) = IF Len(fs) = 1 \/ den = 0 THEN <<1, 1>>
                       ELSE CASE num * 8 < den -> <<1, 8>>
                              [] num > 8 * den -> <<8, 1>>
                              [] OTHER         -> <<num, den>>
    BY DEF Scale
  <2> HIDE DEF now, was
  <2>5. num \in Int /\ den \in Nat
    BY <2>1, <2>3 DEF Away, Greater, Lesser
  <2> HIDE DEF num, den
  <2>6. CASE den = 0
    BY <2>4, <2>6
  <2>7. CASE den # 0 /\ num * 8 < den
    BY <1>2, <2>4, <2>7
  <2>8. CASE den # 0 /\ ~ (num * 8 < den) /\ num > 8 * den
    BY <1>2, <2>4, <2>8
  <2>9. CASE den # 0 /\ ~ (num * 8 < den) /\ ~ (num > 8 * den)
    <3>1. Scale(fs, k) = <<num, den>>
      BY <1>2, <2>4, <2>9
    <3>2. num > 0 /\ num \in Nat
      BY <2>5, <2>9
    <3> QED
      BY <2>5, <3>1, <3>2
  <2> QED
    BY <2>6, <2>7, <2>8, <2>9
<1> QED
  BY <1>1, <1>2

(* The start of a touch remembers what is shown, and the data under it. *)
LEMMA TouchStarts ==
    ASSUME ViewOK, TouchOK, NEW fs \in Seq(Points), Len(fs) \in {1, 2}, startTouch(fs)
    PROVE  /\ TouchOK' /\ touch'.initialTouches = fs /\ touch'.rangeX = xAxisRange(dateWindow)
           /\ Len(fs) = 1 => /\ touch'.x /\ touch'.center[1] = 2 * fs[1][1]
                             /\ touch'.data[1] = toDataXCoord(fs[1][1], dateWindow)
<1> DEFINE dx == 2 * fs[1][1] - Middle(fs, 1)
           dy == Middle(fs, 2) - 2 * fs[1][2]
           dataX == toDataXCoord(fs[1][1], dateWindow)
           dataY == toDataYCoord(fs[1][2], valueRange)
           data == IF Len(fs) = 1 THEN <<dataX, dataY>>
                   ELSE << (dataX + toDataXCoord(fs[2][1], dateWindow)) \div 2,
                           (dataY + toDataYCoord(fs[2][2], valueRange)) \div 2 >>
           center == <<Middle(fs, 1), Middle(fs, 2)>>
           x == Len(fs) = 1 \/ TowardsX(dx, dy)
           y == Len(fs) = 1 \/ TowardsY(dx, dy)
           tap == IF Len(fs) > 1 THEN "none" ELSE touch.tap
<1>1. /\ Middle(fs, 1) \in Int /\ Middle(fs, 2) \in Int /\ fs[1][1] \in Int /\ fs[1][2] \in Int
      /\ Len(fs) = 2 => fs[2][1] \in Int /\ fs[2][2] \in Int
  BY MiddleIsInt
<1>2. /\ dataX \in Int /\ dataY \in Int
      /\ Len(fs) = 2 => toDataXCoord(fs[2][1], dateWindow) \in Int /\ toDataYCoord(fs[2][2], valueRange) \in Int
  BY <1>1, DataIsInt DEF ViewOK
<1>3. data \in Int \X Int /\ (Len(fs) = 1 => data[1] = dataX)
  <2> HIDE DEF dataX, dataY
  <2>1. CASE Len(fs) = 1
    BY <1>2, <2>1
  <2>2. CASE Len(fs) = 2
    <3>1. \A k \in Int : k \div 2 \in Int
      BY DivBounds
    <3> QED
      BY <1>2, <2>2, <3>1
  <2> QED
    BY <2>1, <2>2
<1>4. xAxisRange(dateWindow) \in Ranges /\ yAxisRange(valueRange) \in Ranges
  BY Shown, ShownValues DEF ViewOK
<1>5. touch' = [touch EXCEPT !.initialTouches = fs, !.center = center, !.data = data, !.x = x, !.y = y,
                    !.rangeX = xAxisRange(dateWindow), !.rangeY = yAxisRange(valueRange), !.tap = tap]
  BY DEF startTouch
<1>6. center \in Int \X Int /\ (Len(fs) = 1 => center[1] = 2 * fs[1][1])
  BY <1>1 DEF Middle
<1>7. x \in BOOLEAN /\ y \in BOOLEAN /\ (Len(fs) = 1 => x)
  <2>1. x = TRUE \/ x = FALSE
    BY DEF TowardsX
  <2>2. y = TRUE \/ y = FALSE
    BY DEF TowardsY
  <2>3. Len(fs) = 1 => x
    OBVIOUS
  <2> QED
    BY <2>1, <2>2, <2>3
<1>8. tap \in {"none", "recent", "old"}
  BY DEF TouchOK
<1> HIDE DEF data, x, y, tap, center
<1>9. TouchOK'
  BY <1>3, <1>4, <1>5, <1>6, <1>7, <1>8 DEF TouchOK
<1> QED
  BY <1>3, <1>5, <1>6, <1>7, <1>9 DEF TouchOK

(* Moved or pinched, what is shown stays a range; one finger moves it by what it has moved. *)
LEMMA TouchMoves ==
    ASSUME ViewOK, TouchOK, NEW fs \in Seq(Points), Len(fs) \in {1, 2}, Len(touch.initialTouches) = Len(fs),
           moveTouch(fs), NEW moved, moved = ((Middle(fs, 1) - touch.center[1]) * Size(touch.rangeX)) \div (2 * Area.w)
    PROVE  /\ ViewOK' /\ TouchOK' /\ touch' = [touch EXCEPT !.tap = "none"]
           /\ Len(fs) = 1 /\ touch.x => /\ xAxisRange(dateWindow')[1] = touch.rangeX[1] - moved
                                        /\ xAxisRange(dateWindow')[2] = touch.rangeX[2] - moved
<1> DEFINE dy == - (((Middle(fs, 2) - touch.center[2]) * Size(touch.rangeY)) \div (2 * Area.h))
<1>1. touch' = [touch EXCEPT !.tap = "none"] /\ TouchOK'
  BY DEF moveTouch, TouchOK
<1>2. /\ touch.rangeX \in Ranges /\ touch.rangeY \in Ranges /\ touch.center[1] \in Int /\ touch.center[2] \in Int
      /\ touch.data[1] \in Int /\ touch.data[2] \in Int
  BY DEF TouchOK
<1>3. moved \in Int /\ dy \in Int
  <2>1. Size(touch.rangeX) \in Int /\ Size(touch.rangeY) \in Int
    BY <1>2 DEF Ranges, Size
  <2>2. Middle(fs, 1) - touch.center[1] \in Int /\ Middle(fs, 2) - touch.center[2] \in Int
    BY <1>2, MiddleIsInt
  <2>3. /\ (Middle(fs, 1) - touch.center[1]) * Size(touch.rangeX) \in Int
        /\ (Middle(fs, 2) - touch.center[2]) * Size(touch.rangeY) \in Int
    BY <2>1, <2>2
  <2>4. 2 * Area.w \in Nat /\ 2 * Area.w > 0 /\ 2 * Area.h \in Nat /\ 2 * Area.h > 0
    BY Plot
  <2>5. ((Middle(fs, 2) - touch.center[2]) * Size(touch.rangeY)) \div (2 * Area.h) \in Int
    BY <2>3, <2>4, DivBounds
  <2>6. moved \in Int
    BY <2>3, <2>4, DivBounds
  <2> QED
    BY <2>5, <2>6
<1>4. /\ dateWindow' = IF touch.x THEN Stretched(touch.rangeX, touch.data[1], moved, Scale(fs, 1)) ELSE dateWindow
      /\ valueRange' = IF touch.y THEN Stretched(touch.rangeY, touch.data[2], dy, Scale(fs, 2)) ELSE valueRange
  BY DEF moveTouch
<1> HIDE DEF dy
<1>5. Stretched(touch.rangeX, touch.data[1], moved, Scale(fs, 1)) \in Ranges
  <2>1. PICK num, den \in Nat : num > 0 /\ Scale(fs, 1) = <<num, den>>
    BY ScaleIsPositive
  <2> QED
    BY <1>2, <1>3, <2>1, StretchedRange
<1>6. Stretched(touch.rangeY, touch.data[2], dy, Scale(fs, 2)) \in Ranges
  <2>1. PICK num, den \in Nat : num > 0 /\ Scale(fs, 2) = <<num, den>>
    BY ScaleIsPositive
  <2> QED
    BY <1>2, <1>3, <2>1, StretchedRange
<1>7. ViewOK'
  <2>1. extremeRange' \in Ranges
    BY Drawn DEF moveTouch
  <2> QED
    BY <1>4, <1>5, <1>6, <2>1 DEF ViewOK
<1>8. ASSUME Len(fs) = 1, touch.x
      PROVE  /\ xAxisRange(dateWindow')[1] = touch.rangeX[1] - moved
             /\ xAxisRange(dateWindow')[2] = touch.rangeX[2] - moved
  <2>1. dateWindow' = Stretched(touch.rangeX, touch.data[1], moved, <<1, 1>>)
    <3>1. Scale(fs, 1) = <<1, 1>>
      BY <1>8 DEF Scale
    <3> QED
      BY <1>4, <1>8, <3>1
  <2>2. dateWindow' \in Ranges
    BY <1>4, <1>5, <1>8
  <2>3. xAxisRange(dateWindow') = dateWindow'
    BY <2>2, RangeIsWindow
  <2>4. \A k \in 1 .. 2 : dateWindow'[k] = touch.data[1] - moved + ((touch.rangeX[k] - touch.data[1]) * 1) \div 1
    <3>1. \A k \in 1 .. 2 : Stretched(touch.rangeX, touch.data[1], moved, <<1, 1>>)[k] =
                               touch.data[1] - moved + ((touch.rangeX[k] - touch.data[1]) * 1) \div 1
      BY DEF Stretched
    <3> QED
      BY <2>1, <3>1
  <2>5. ASSUME NEW k \in Int PROVE k * 1 = k /\ k \div 1 = k
    <3>1. 1 * k <= k /\ k < 1 * k + 1 /\ k * 1 = k
      OBVIOUS
    <3> QED
      BY <3>1, DivUnique
  <2>6. touch.rangeX[1] \in Int /\ touch.rangeX[2] \in Int
    BY <1>2 DEF Ranges
  <2>7. \A k \in 1 .. 2 : ((touch.rangeX[k] - touch.data[1]) * 1) \div 1 = touch.rangeX[k] - touch.data[1]
    BY <1>2, <2>5, <2>6
  <2> QED
    BY <1>2, <1>3, <2>3, <2>4, <2>6, <2>7
<1> QED
  BY <1>1, <1>7, <1>8

LEMMA OneStarts ==
    ASSUME ViewOK, TouchOK, NEW fs \in Seq(Points), Len(fs) = 1, startTouch(fs), dateWindow' = dateWindow
    PROVE  OneFingerX(fs[1][1])'
<1> DEFINE s == fs[1][1]
           size == Size(xAxisRange(dateWindow))
<1>1. /\ TouchOK' /\ touch'.initialTouches = fs /\ touch'.rangeX = xAxisRange(dateWindow)
      /\ touch'.x /\ touch'.center[1] = 2 * s /\ touch'.data[1] = toDataXCoord(s, dateWindow)
  BY TouchStarts
<1>2. s \in Int /\ xAxisRange(dateWindow) \in Ranges /\ xAxisRange(dateWindow)[1] \in Int
      /\ xAxisRange(dateWindow)[2] \in Int /\ size \in Nat
  BY MiddleIsInt, Shown, RangeParts DEF ViewOK
<1>3. ((2 * s - 2 * s) * size) \div (2 * Area.w) = 0
  <2>1. 2 * Area.w \in Nat /\ 2 * Area.w > 0
    BY Plot
  <2>2. 2 * s - 2 * s = 0
    BY <1>2
  <2>3. 0 * size = 0
    BY <1>2
  <2>4. 0 \div (2 * Area.w) = 0
    BY <2>1, DivUnique
  <2> QED
    BY <2>2, <2>3, <2>4
<1>4. toDataXCoord(s, dateWindow) = xAxisRange(dateWindow)[1] + ((s - Area.x) * size) \div Area.w
  BY DEF toDataXCoord
<1>5. touch'.initialTouches[1][1] = s /\ Size(touch'.rangeX) = size
  BY <1>1
<1>6. ((2 * s - touch'.center[1]) * Size(touch'.rangeX)) \div (2 * Area.w) = 0
  BY <1>1, <1>3, <1>5
<1>7. /\ xAxisRange(dateWindow')[1] = touch'.rangeX[1] - 0
      /\ xAxisRange(dateWindow')[2] = touch'.rangeX[2] - 0
  BY <1>1, <1>2
<1> HIDE DEF size
<1> QED
  BY <1>1, <1>4, <1>5, <1>6, <1>7 DEF OneFingerX

LEMMA OneMoves ==
    ASSUME ViewOK, TouchOK, NEW fs \in Seq(Points), Len(fs) = 1, Len(touch.initialTouches) = 1, moveTouch(fs),
           NEW p, OneFingerX(p)
    PROVE  OneFingerX(fs[1][1])'
<1>1. PICK moved : moved = ((Middle(fs, 1) - touch.center[1]) * Size(touch.rangeX)) \div (2 * Area.w)
  OBVIOUS
<1>2. touch.x
  BY DEF OneFingerX
<1>3. /\ touch' = [touch EXCEPT !.tap = "none"]
      /\ xAxisRange(dateWindow')[1] = touch.rangeX[1] - moved
      /\ xAxisRange(dateWindow')[2] = touch.rangeX[2] - moved
  BY <1>1, <1>2, TouchMoves
<1>4. /\ touch'.initialTouches = touch.initialTouches /\ touch'.center = touch.center /\ touch'.data = touch.data
      /\ touch'.x = touch.x /\ touch'.rangeX = touch.rangeX
  BY <1>3 DEF TouchOK
<1>5. Middle(fs, 1) = 2 * fs[1][1]
  BY DEF Middle
<1> QED
  BY <1>1, <1>3, <1>4, <1>5 DEF OneFingerX

-----------------------------------------------------------------------------
(* The end of a zoom leaves a part of what was shown, along one axis. *)
ZoomedInside ==
    /\ Within(xAxisRange(dateWindow'), xAxisRange(dateWindow))
    /\ valueRange' # valueRange => dateWindow' = dateWindow /\ Within(valueRange', yAxisRange(valueRange))

LEMMA ZoomsInside ==
    ASSUME ViewOK, endZoom, context.dragStart \in Points, mouse \in Points
    PROVE  ViewOK' /\ ZoomedInside
<1> DEFINE s == context.dragStart
           xs == Clipped(s[1], mouse[1], Area.x, Area.w)
           ys == Clipped(s[2], mouse[2], Area.y, Area.h)
           across == context.dragDirection = "horizontal" /\ Away(s[1], mouse[1]) >= 10
           up == context.dragDirection = "vertical" /\ Away(s[2], mouse[2]) >= 10
           zoomX == <<toDataXCoord(xs[1], dateWindow), toDataXCoord(xs[2], dateWindow)>>
           zoomY == <<toDataYCoord(ys[2], valueRange), toDataYCoord(ys[1], valueRange)>>
<1>1. /\ dateWindow' = IF across /\ xs[1] < xs[2] THEN zoomX ELSE dateWindow
      /\ valueRange' = IF up /\ ys[1] < ys[2] THEN zoomY ELSE valueRange
  BY DEF endZoom
<1>2. /\ xs[1] \in Int /\ xs[2] \in Int /\ Area.x <= xs[1] /\ xs[2] <= Area.x + Area.w
      /\ ys[1] \in Int /\ ys[2] \in Int /\ Area.y <= ys[1] /\ ys[2] <= Area.y + Area.h
  BY Plot DEF Clipped, Greater, Lesser
<1>e. extremeRange' \in Ranges
  <2>1. drawGraph \/ UNCHANGED extremeRange
    BY DEF endZoom
  <2> QED
    BY <2>1, Drawn DEF ViewOK
<1>u. ~ (across /\ up)
  OBVIOUS
<1> HIDE DEF xs, ys, across, up
<1>3. /\ dateWindow \in {<<>>} \cup Ranges /\ valueRange \in {<<>>} \cup Ranges /\ extremeRange \in Ranges
      /\ xAxisRange(dateWindow) \in Ranges /\ yAxisRange(valueRange) \in Ranges
  BY Shown, ShownValues DEF ViewOK
<1>4. ASSUME xs[1] < xs[2] PROVE zoomX \in Ranges /\ Within(zoomX, xAxisRange(dateWindow))
  BY <1>2, <1>3, <1>4, DataX DEF Ranges, Within
<1>5. ASSUME ys[1] < ys[2] PROVE zoomY \in Ranges /\ Within(zoomY, yAxisRange(valueRange))
  BY <1>2, <1>3, <1>5, DataY DEF Ranges, Within
<1>6. \A r \in Ranges : Within(r, r)
  BY DEF Ranges, Within
<1> HIDE DEF zoomX, zoomY
<1>7. dateWindow' \in {<<>>} \cup Ranges /\ Within(xAxisRange(dateWindow'), xAxisRange(dateWindow))
  BY <1>1, <1>3, <1>4, <1>6, RangeIsWindow
<1>8. /\ valueRange' \in {<<>>} \cup Ranges
      /\ valueRange' # valueRange => dateWindow' = dateWindow /\ Within(valueRange', yAxisRange(valueRange))
  BY <1>1, <1>3, <1>5, <1>u
<1> QED
  BY <1>e, <1>7, <1>8 DEF ViewOK, ZoomedInside

(* What a press, a move and the end of a drag keep. *)
LEMMA DragStartKnown ==
    ASSUME DragInv, PanOK, listeners # 0
    PROVE  context.dragStart \in Points /\ (context.isZooming \/ context.isPanning)
  BY DEF DragInv, DragType, GestureOwned, PanOK

LEMMA PressKeepsView ==
    ASSUME ViewInv, NEW b \in Buttons, NEW shift \in BOOLEAN, mousedown(b, shift)
    PROVE  ViewOK' /\ PanOK' /\ TouchOK' /\ FingersOK' /\ OneFinger'
<1> USE DEF ViewInv
<1>1. fingers = <<>> /\ UNCHANGED <<chart, fingers, touch>>
  BY DEF mousedown
<1>2. ViewOK' /\ TouchOK'
  BY <1>1 DEF ViewOK, TouchOK
<1>3. FingersOK' /\ OneFinger'
  BY <1>1 DEF FingersOK, OneFinger
<1>4. CASE b = "right"
  BY <1>2, <1>3, <1>4 DEF mousedown, PanOK
<1>5. CASE b # "right"
  <2>1. startPan(dateWindow, valueRange) \in
            [initialLeftmostDate : Int, dateRange : Nat, is2DPan : BOOLEAN, initialTopValue : Int, dragValueRange : Nat]
    <3>1. /\ xAxisRange(dateWindow)[1] \in Int /\ Size(xAxisRange(dateWindow)) \in Nat
          /\ yAxisRange(valueRange)[2] \in Int /\ Size(yAxisRange(valueRange)) \in Nat
      BY Shown, ShownValues DEF ViewOK
    <3> QED
      BY <3>1 DEF startPan, startPanDates
  <2>2. /\ context'.dragStart = mouse
        /\ context'.pan = IF shift THEN startPan(dateWindow, valueRange) ELSE context.pan
    BY <1>5 DEF mousedown, DragInv, DragType, DragFields
  <2>3. PanOK'
    BY <2>1, <2>2 DEF PanOK, DragInv, DragType
  <2> QED
    BY <1>2, <1>3, <2>3
<1> QED
  BY <1>4, <1>5

LEMMA MoveKeepsView ==
    ASSUME ViewInv, NEW p \in Points, mousemove(p)
    PROVE  ViewOK' /\ PanOK' /\ TouchOK' /\ FingersOK' /\ OneFinger'
<1> USE DEF ViewInv
<1>1. fingers = <<>> /\ UNCHANGED <<fingers, touch>>
  BY DEF mousemove
<1>2. TouchOK' /\ FingersOK' /\ OneFinger'
  BY <1>1 DEF TouchOK, FingersOK, OneFinger
<1>3. CASE listeners = 0 \/ ~ (context.isZooming \/ context.isPanning)
  BY <1>2, <1>3 DEF mousemove, ViewOK, PanOK
<1>4. CASE ~ (listeners = 0 \/ ~ (context.isZooming \/ context.isPanning))
  <2>1. moveZoom(p) \/ leaveZoom \/ movePan(p)
    BY <1>4 DEF mousemove
  <2>2. CASE moveZoom(p) \/ leaveZoom
    <3>1. UNCHANGED chart /\ context'.dragStart = context.dragStart /\ context'.pan = context.pan
      BY <2>2 DEF moveZoom, leaveZoom, DragInv, DragType, DragFields
    <3> QED
      BY <1>2, <3>1 DEF chart, ViewOK, PanOK
  <2>3. CASE movePan(p)
    <3>1. context'.dragStart = context.dragStart /\ context'.pan = context.pan
      BY <2>3 DEF movePan, DragInv, DragType, DragFields
    <3>2. context.dragStart \in Points
      BY <1>4, DragStartKnown
    <3>3. p[1] - context.dragStart[1] \in Int /\ p[2] - context.dragStart[2] \in Int
      BY <3>2, Plot
    <3>4. /\ dateWindow' \in Ranges /\ extremeRange' \in Ranges
          /\ valueRange' \in Ranges \/ valueRange' = valueRange
      BY <2>3, <3>3, PanMoves, Drawn DEF movePan
    <3> QED
      BY <1>2, <3>1, <3>4 DEF ViewOK, PanOK
  <2> QED
    BY <2>1, <2>2, <2>3
<1> QED
  BY <1>3, <1>4

(* Whatever the end of a drag does, what it leaves lies inside what was shown. *)
LEMMA ReleaseKeepsView ==
    ASSUME ViewInv, NEW b \in Buttons, mouseup(b)
    PROVE  ViewOK' /\ PanOK' /\ TouchOK' /\ FingersOK' /\ OneFinger' /\ ZoomedInside
<1> USE DEF ViewInv
<1>1. fingers = <<>> /\ UNCHANGED <<fingers, touch>>
  BY DEF mouseup, FingersOK
<1>2. TouchOK' /\ FingersOK' /\ OneFinger'
  BY <1>1 DEF TouchOK, FingersOK, OneFinger
<1>3. ASSUME UNCHANGED chart
      PROVE  ViewOK' /\ ZoomedInside
  <2>1. dateWindow' = dateWindow /\ valueRange' = valueRange /\ extremeRange' = extremeRange
    BY <1>3
  <2>2. xAxisRange(dateWindow) \in Ranges
    BY Shown DEF ViewOK
  <2>3. \A r \in Ranges : Within(r, r)
    BY DEF Ranges, Within
  <2> QED
    BY <2>1, <2>2, <2>3 DEF ViewOK, ZoomedInside
<1>4. CASE listeners = 0
  BY <1>2, <1>3, <1>4 DEF mouseup, chart, PanOK
<1>5. CASE listeners # 0
  <2>1. context.dragStart \in Points /\ mouse \in Points
    BY <1>5, DragStartKnown DEF DragInv, DragType
  <2>2. CASE endZoom
    <3>1. context'.dragStart = None /\ context'.pan = context.pan
      BY <2>2 DEF endZoom, DragInv, DragType, DragFields
    <3> QED
      BY <1>2, <2>1, <2>2, <3>1, ZoomsInside DEF PanOK
  <2>3. CASE endOther
    <3>1. context'.dragStart \in {None, context.dragStart} /\ context'.pan = context.pan
      BY <2>3 DEF endOther, DragInv, DragType, DragFields
    <3>2. UNCHANGED chart
      BY <2>3 DEF endOther, chart
    <3> QED
      BY <1>2, <1>3, <3>1, <3>2 DEF PanOK
  <2> QED
    BY <1>5, <2>2, <2>3 DEF mouseup
<1> QED
  BY <1>4, <1>5

(* The fingers on the chart ... *)
LEMMA FingersThere ==
    ASSUME NEW fs \in Seq(Points), Len(fs) <= 2
    PROVE  /\ Len(fs) \in {0, 1, 2} /\ DOMAIN fs = 1 .. Len(fs)
           /\ fs = <<>> <=> Len(fs) = 0
           /\ \A i \in 1 .. Len(fs) : fs[i] \in Points
<1>1. Len(fs) \in Nat /\ DOMAIN fs = 1 .. Len(fs) /\ fs \in [1 .. Len(fs) -> Points]
  BY LenProperties
<1>2. fs = <<>> <=> Len(fs) = 0
  BY EmptySeq
<1> QED
  BY <1>1, <1>2

(* ... when one comes, ... *)
LEMMA FingerComes ==
    ASSUME NEW fs \in Seq(Points), Len(fs) < 2, NEW p \in Points
    PROVE  \E gs \in Seq(Points) : gs = Append(fs, p) /\ Len(gs) \in {1, 2}
<1>1. Append(fs, p) \in Seq(Points) /\ Len(Append(fs, p)) = Len(fs) + 1
  BY AppendProperties
<1>2. Len(fs) = 0 \/ Len(fs) = 1
  BY FingersThere
<1>3. Len(Append(fs, p)) = 1 \/ Len(Append(fs, p)) = 2
  BY <1>1, <1>2
<1> QED
  BY <1>1, <1>3

(* ... when one moves, ... *)
LEMMA FingerMoves ==
    ASSUME NEW fs \in Seq(Points), Len(fs) <= 2, NEW p \in Points, NEW i \in 1 .. Len(fs)
    PROVE  \E gs \in Seq(Points) : gs = [fs EXCEPT ![i] = p] /\ Len(gs) = Len(fs) /\ Len(gs) \in {1, 2}
<1>1. [fs EXCEPT ![i] = p] \in Seq(Points) /\ Len([fs EXCEPT ![i] = p]) = Len(fs)
  BY ExceptSeq
<1>2. Len(fs) \in {1, 2}
  BY FingersThere
<1> QED
  BY <1>1, <1>2

(* ... and when one goes. *)
LEMMA FingerGoes ==
    ASSUME NEW fs \in Seq(Points), Len(fs) <= 2, NEW i \in 1 .. Len(fs)
    PROVE  \E gs \in Seq(Points) : gs = Without(fs, i) /\ Len(gs) \in {0, 1}
<1>1. Len(fs) \in {1, 2} /\ fs # <<>> /\ \A j \in 1 .. Len(fs) : fs[j] \in Points
  BY FingersThere
<1>2. CASE i = 1
  <2>1. Tail(fs) \in Seq(Points) /\ Len(Tail(fs)) = Len(fs) - 1
    BY <1>1, HeadTailProperties
  <2>2. Len(fs) = 1 \/ Len(fs) = 2
    BY <1>1
  <2>3. Len(Tail(fs)) = 0 \/ Len(Tail(fs)) = 1
    BY <2>1, <2>2
  <2> QED
    BY <1>2, <2>1, <2>3 DEF Without
<1>3. CASE i # 1
  <2>1. i = 2 /\ Len(fs) = 2 /\ i - 1 = 1
    BY <1>1, <1>3
  <2>2. \A j \in 1 .. 1 : fs[j] \in Points
    BY <1>1
  <2>3. SubSeq(fs, 1, 1) \in Seq(Points) /\ Len(SubSeq(fs, 1, 1)) = 1
    BY <2>2, SubSeqProperties
  <2> QED
    BY <1>3, <2>1, <2>3 DEF Without
<1> QED
  BY <1>2, <1>3

(* One or two fingers are at most two. *)
LEMMA AtMostTwo ==
    ASSUME NEW fs \in Seq(Points), Len(fs) \in {1, 2} PROVE Len(fs) <= 2
<1>1. PICK n \in {1, 2} : n = Len(fs)
  OBVIOUS
<1>2. n <= 2
  BY <1>1
<1> QED
  BY <1>1, <1>2

(* A touch of the chart keeps the view in order: no window or range is turned around. *)
LEMMA TouchKeepsView ==
    ASSUME ViewInv, \/ \E p \in Points : touchstart(p)
                    \/ \E i \in 1..2, p \in Points : touchmove(i, p)
                    \/ \E i \in 1..2 : touchend(i)
    PROVE  ViewOK' /\ PanOK' /\ TouchOK' /\ FingersOK' /\ OneFinger'
<1> USE DEF ViewInv
<1>p. PanOK'
  BY DEF touchstart, touchmove, touchend, PanOK
<1>1. ASSUME NEW fs \in Seq(Points), Len(fs) \in {1, 2}, fingers' = fs, startTouch(fs),
             UNCHANGED chart, pressed' = {}, ~ dblclick'
      PROVE  ViewOK' /\ TouchOK' /\ FingersOK' /\ OneFinger'
  <2>1. ViewOK' /\ dateWindow' = dateWindow
    BY <1>1 DEF chart, ViewOK
  <2>2. TouchOK' /\ touch'.initialTouches = fs
    BY <1>1, TouchStarts
  <2>3. FingersOK'
    <3>1. fingers' \in Seq(Points) /\ Len(fingers') <= 2
      <4>1. Len(fs) <= 2
        BY <1>1, AtMostTwo
      <4> QED
        BY <1>1, <4>1
    <3>2. Len(touch'.initialTouches) = Len(fingers')
      BY <1>1, <2>2
    <3> QED
      BY <1>1, <3>1, <3>2 DEF FingersOK
  <2>4. Len(fs) = 1 => OneFingerX(fs[1][1])'
    BY <1>1, <2>1, OneStarts
  <2>5. OneFinger'
    BY <1>1, <2>4 DEF OneFinger, OneFingerX
  <2> QED
    BY <2>1, <2>2, <2>3, <2>5
<1>2. ASSUME NEW p \in Points, touchstart(p) PROVE ViewOK' /\ TouchOK' /\ FingersOK' /\ OneFinger'
  <2>1. PICK fs \in Seq(Points) : fs = Append(fingers, p) /\ Len(fs) \in {1, 2}
    <3>1. fingers \in Seq(Points) /\ Len(fingers) < 2
      BY <1>2 DEF touchstart, FingersOK
    <3> QED
      BY <3>1, FingerComes
  <2>2. fingers' = fs /\ startTouch(fs) /\ UNCHANGED chart /\ pressed' = {} /\ ~ dblclick'
    BY <1>2, <2>1 DEF touchstart, chart
  <2> QED
    BY <1>1, <2>1, <2>2
<1>3. ASSUME NEW i \in 1..2, NEW p \in Points, touchmove(i, p) PROVE ViewOK' /\ TouchOK' /\ FingersOK' /\ OneFinger'
  <2>0. fingers \in Seq(Points) /\ Len(fingers) <= 2
    BY DEF FingersOK
  <2>1. i \in 1 .. Len(fingers) /\ fingers # <<>>
    <3>1. i \in DOMAIN fingers
      BY <1>3 DEF touchmove
    <3> QED
      BY <2>0, <3>1, FingersThere
  <2>3. PICK fs \in Seq(Points) : fs = [fingers EXCEPT ![i] = p] /\ Len(fs) = Len(fingers) /\ Len(fs) \in {1, 2}
    BY <2>0, <2>1, FingerMoves
  <2>4. fingers' = fs /\ moveTouch(fs) /\ UNCHANGED <<pressed, dblclick>>
    BY <1>3, <2>3 DEF touchmove
  <2>5. Len(touch.initialTouches) = Len(fs)
    BY <2>1, <2>3 DEF FingersOK
  <2>6. PICK moved : moved = ((Middle(fs, 1) - touch.center[1]) * Size(touch.rangeX)) \div (2 * Area.w)
    OBVIOUS
  <2>7. ViewOK' /\ TouchOK' /\ touch' = [touch EXCEPT !.tap = "none"]
    BY <2>3, <2>4, <2>5, <2>6, TouchMoves
  <2>8. FingersOK'
    <3>1. touch'.initialTouches = touch.initialTouches
      BY <2>7 DEF TouchOK
    <3> QED
      BY <2>0, <2>1, <2>3, <2>4, <2>5, <3>1 DEF FingersOK
  <2>9. Len(fs) = 1 => OneFingerX(fs[1][1])'
    <3> SUFFICES ASSUME Len(fs) = 1 PROVE OneFingerX(fs[1][1])'
      OBVIOUS
    <3>1. PICK q : q = fingers[1][1]
      OBVIOUS
    <3>2. OneFingerX(q)
      BY <2>3, <3>1 DEF OneFinger
    <3>3. Len(touch.initialTouches) = 1
      BY <2>5
    <3> QED
      BY <2>4, <3>2, <3>3, OneMoves
  <2>10. OneFinger'
    BY <2>4, <2>9 DEF OneFinger, OneFingerX
  <2> QED
    BY <2>7, <2>8, <2>10
<1>4. ASSUME NEW i \in 1..2, touchend(i) PROVE ViewOK' /\ TouchOK' /\ FingersOK' /\ OneFinger'
  <2>0. fingers \in Seq(Points) /\ Len(fingers) <= 2
    BY DEF FingersOK
  <2>1. i \in 1 .. Len(fingers) /\ fingers # <<>> /\ Len(fingers) \in {1, 2}
    <3>1. i \in DOMAIN fingers
      BY <1>4 DEF touchend
    <3> QED
      BY <2>0, <3>1, FingersThere
  <2>2. pressed' = {} /\ ~ dblclick'
    BY <1>4, <2>1 DEF touchend, FingersOK
  <2>3. CASE fingers' # <<>> /\ startTouch(fingers') /\ UNCHANGED chart
    <3>1. PICK fs \in Seq(Points) : fs = Without(fingers, i) /\ Len(fs) \in {0, 1}
      BY <2>0, <2>1, FingerGoes
    <3>2. fingers' = fs
      BY <1>4, <3>1 DEF touchend
    <3>3. Len(fs) \in {1, 2}
      <4>0. Len(fs) = 0 \/ Len(fs) = 1
        BY <3>1
      <4>1. fs # <<>>
        BY <2>3, <3>2
      <4>2. Len(fs) <= 2
        BY <4>0
      <4> QED
        BY <3>1, <4>1, <4>2, FingersThere
    <3> QED
      BY <1>1, <2>2, <2>3, <3>2, <3>3
  <2>4. CASE fingers' = <<>>
    <3>1. dateWindow' \in {<<>>, dateWindow} /\ valueRange' \in {<<>>, valueRange} /\ extremeRange' \in Ranges
      BY <1>4, <2>4, Drawn DEF touchend, resetZoom, ViewOK
    <3>2. touch' = touch \/ touch' = [touch EXCEPT !.tap = "recent", !.tapAt = fingers[i]]
      BY <1>4, <2>4 DEF touchend
    <3>3. fingers[i] \in Points
      BY <2>0, <2>1, FingersThere
    <3>4. TouchOK'
      BY <3>2, <3>3 DEF TouchOK
    <3>5. ViewOK'
      BY <3>1 DEF ViewOK
    <3>6. FingersOK' /\ OneFinger'
      BY <2>4 DEF FingersOK, OneFinger
    <3> QED
      BY <3>4, <3>5, <3>6
  <2> QED
    BY <1>4, <2>3, <2>4 DEF touchend
<1> QED
  BY <1>p, <1>2, <1>3, <1>4

LEMMA OthersKeepView ==
    ASSUME ViewInv, \/ \E b \in Buttons : mouseupUnheard(b)
                    \/ \E shift \in BOOLEAN : doubleClick(shift)
                    \/ adjustRoll \/ Wait \/ UNCHANGED vars
    PROVE  ViewOK' /\ PanOK' /\ TouchOK' /\ FingersOK' /\ OneFinger'
<1> USE DEF ViewInv
<1>1. ASSUME NEW b \in Buttons, mouseupUnheard(b) PROVE ViewOK' /\ PanOK' /\ TouchOK' /\ FingersOK' /\ OneFinger'
  BY <1>1 DEF mouseupUnheard, ViewOK, PanOK, TouchOK, FingersOK, OneFinger, OneFingerX
<1>2. ASSUME NEW shift \in BOOLEAN, doubleClick(shift)
      PROVE  ViewOK' /\ PanOK' /\ TouchOK' /\ FingersOK' /\ OneFinger'
  <2>1. fingers = <<>> /\ UNCHANGED <<fingers, touch>>
    BY <1>2 DEF doubleClick, FingersOK
  <2>2. context'.dragStart = context.dragStart /\ context'.pan = context.pan
    BY <1>2 DEF doubleClick, DragInv, DragType, DragFields
  <2>3. dateWindow' \in {<<>>, dateWindow} /\ valueRange' \in {<<>>, valueRange} /\ extremeRange' \in Ranges
    BY <1>2, Drawn DEF doubleClick, resetZoom, ViewOK
  <2> QED
    BY <2>1, <2>2, <2>3 DEF ViewOK, PanOK, TouchOK, FingersOK, OneFinger
<1>3. CASE adjustRoll
  BY <1>3, Drawn DEF adjustRoll, ViewOK, PanOK, TouchOK, FingersOK, OneFinger, OneFingerX
<1>4. CASE Wait
  <2>1. TouchOK' /\ touch'.initialTouches = touch.initialTouches /\ touch'.center = touch.center
        /\ touch'.data = touch.data /\ touch'.x = touch.x /\ touch'.rangeX = touch.rangeX
    BY <1>4 DEF Wait, TouchOK
  <2> QED
    BY <1>4, <2>1 DEF Wait, ViewOK, PanOK, FingersOK, OneFinger, OneFingerX
<1>5. CASE UNCHANGED vars
  BY <1>5 DEF vars, ViewOK, PanOK, TouchOK, FingersOK, OneFinger, OneFingerX
<1> QED
  BY <1>1, <1>2, <1>3, <1>4, <1>5

LEMMA ViewInit == Init => ViewInv
<1> SUFFICES ASSUME Init PROVE ViewInv
  OBVIOUS
<1>1. extremeRange \in Ranges /\ <<0, 0>> \in Ranges
  BY Plot DEF Init, Ranges
<1>3. PanOK
  BY DEF Init, PanOK, NoPan
<1>4. TouchOK
  <2>1. <<0, 0>> \in Int \X Int /\ <<>> \in Seq(Points)
    OBVIOUS
  <2> QED
    BY <1>1, <2>1 DEF Init, TouchOK
<1>5. ViewOK /\ FingersOK /\ OneFinger
  BY <1>1 DEF Init, ViewOK, FingersOK, OneFinger
<1> QED
  BY <1>3, <1>4, <1>5, DragInvInit DEF ViewInv

LEMMA ViewStep == ViewInv /\ [Next]_vars => ViewInv'
<1> SUFFICES ASSUME ViewInv, [Next]_vars PROVE ViewInv'
  OBVIOUS
<1>1. DragInv'
  BY DragInvStep DEF ViewInv
<1>2. ViewOK' /\ PanOK' /\ TouchOK' /\ FingersOK' /\ OneFinger'
  BY PressKeepsView, MoveKeepsView, ReleaseKeepsView, TouchKeepsView, OthersKeepView DEF Next
<1> QED
  BY <1>1, <1>2 DEF ViewInv

(* What is shown is a range of integers that is never turned around, whatever mouse and       *)
(* fingers do (endZoom, movePan, moveTouch, whose scale is at least 1/8), and a touch is always *)
(* about the fingers that are on the chart (touchStartHandler of the default model).           *)
THEOREM ViewInvariant == Spec => []ViewInv
  BY ViewInit, ViewStep, PTL DEF Spec

(* No zoom, pan or pinch turns the chart around, on neither axis (endZoom, movePan, moveTouch).  *)
THEOREM NeverTurned == Spec => []WindowNotTurned
<1>1. ViewInv => WindowNotTurned
  <2> SUFFICES ASSUME ViewInv PROVE WindowNotTurned
    OBVIOUS
  <2>1. Size(xAxisRange(dateWindow)) \in Nat /\ Size(yAxisRange(valueRange)) \in Nat
    BY Shown, ShownValues DEF ViewInv, ViewOK
  <2> QED
    BY <2>1 DEF WindowNotTurned
<1> QED
  BY <1>1, ViewInvariant, PTL

(* What a drag zooms to lies inside what was shown, along the one axis it zooms, for a drag     *)
(* that began or ended beside the plot, and for the direction of an earlier drag (endZoom).     *)
THEOREM ZoomsStayInside == Spec => ZoomInside
<1> DEFINE Inside == listeners > 0 /\ listeners' = 0 => ZoomedInside
<1>1. ASSUME ViewInv, [Next]_vars, listeners > 0, listeners' = 0 PROVE ZoomedInside
  <2>1. PICK b \in Buttons : mouseup(b)
    <3>1. listeners' # listeners /\ listeners \in Nat
      BY <1>1 DEF ViewInv, DragInv, DragType
    <3>2. \A b \in Buttons, shift \in BOOLEAN : ~ mousedown(b, shift)
      BY <1>1, <3>1 DEF mousedown
    <3> QED
      BY <1>1, <3>1, <3>2
         DEF Next, vars, mousemove, mouseupUnheard, doubleClick, adjustRoll, touchstart, touchmove, touchend, Wait
  <2> QED
    BY <1>1, <2>1, ReleaseKeepsView
<1>2. ViewInv /\ [Next]_vars => [Inside]_vars
  BY <1>1
<1> QED
  BY <1>2, ViewInvariant, PTL DEF Spec, ZoomInside, ZoomedInside

(* Twice as much of twice as much is as much. *)
LEMMA DivDouble ==
    ASSUME NEW a \in Int, NEW w \in Nat, w > 0
    PROVE  (2 * a) \div (2 * w) = a \div w
<1>1. a \div w \in Int /\ w * (a \div w) <= a /\ a < w * (a \div w) + w
  BY DivBounds
<1>2. PICK q \in Int : q = a \div w
  BY <1>1
<1>3. w * q \in Int /\ (2 * w) * q = 2 * (w * q)
  OBVIOUS
<1>4. (2 * w) * q <= 2 * a /\ 2 * a < (2 * w) * q + 2 * w
  BY <1>1, <1>2, <1>3
<1>5. 2 * a \in Int /\ 2 * w \in Nat /\ 2 * w > 0
  OBVIOUS
<1> QED
  BY <1>2, <1>4, <1>5, DivUnique

(* One finger stays on the data it was put on, the one that is left of a pinch too: the three  *)
(* roundings between them lose one unit at most (startTouch, moveTouch).                        *)
THEOREM FingerStays == Spec => []FingerHoldsTheData
<1>1. ASSUME ViewInv, Len(fingers) = 1
      PROVE  Away(toDataXCoord(fingers[1][1], dateWindow), touch.data[1]) <= 4
  <2> DEFINE f == fingers[1][1]
             s == touch.initialTouches[1][1]
             lo == touch.rangeX[1]
             size == Size(touch.rangeX)
             moved == ((2 * f - touch.center[1]) * size) \div (2 * Area.w)
             a == (f - Area.x) * size
             b == (s - Area.x) * size
  <2>1. OneFingerX(f)
    BY <1>1 DEF ViewInv, OneFinger
  <2>2. f \in Int /\ s \in Int /\ lo \in Int /\ touch.rangeX[2] \in Int /\ size = touch.rangeX[2] - lo /\ size \in Nat
    <3>0. fingers \in Seq(Points) /\ touch.initialTouches \in Seq(Points)
      BY <1>1 DEF ViewInv, FingersOK, TouchOK
    <3>1. Len(touch.initialTouches) = 1
      <4>1. fingers # <<>>
        BY <1>1
      <4> QED
        BY <1>1, <4>1 DEF ViewInv, FingersOK
    <3>2. touch.rangeX \in Ranges
      BY <1>1 DEF ViewInv, TouchOK
    <3>3. f \in Int /\ s \in Int
      BY <1>1, <3>0, <3>1, MiddleIsInt
    <3> QED
      BY <3>2, <3>3 DEF Ranges, Size
  <2>3. Area.w \in Nat /\ Area.w > 0 /\ Area.x \in Int
    BY Plot
  <2>4. /\ touch.center[1] = 2 * s
        /\ touch.data[1] = lo + b \div Area.w
        /\ xAxisRange(dateWindow)[1] = lo - moved /\ xAxisRange(dateWindow)[2] = touch.rangeX[2] - moved
    BY <2>1 DEF OneFingerX
  <2>5. a \in Int /\ b \in Int /\ (2 * f - 2 * s) * size = 2 * (a - b)
    <3>1. \A m, n, x, z \in Int : /\ (m - x) * z \in Int /\ (n - x) * z \in Int
                                  /\ (2 * m - 2 * n) * z = 2 * ((m - x) * z - (n - x) * z)
      OBVIOUS
    <3> QED
      BY <2>2, <2>3, <3>1
  <2>6. moved = (a - b) \div Area.w
    <3>1. moved = (2 * (a - b)) \div (2 * Area.w)
      BY <2>4, <2>5
    <3>2. a - b \in Int
      BY <2>5
    <3> HIDE DEF a, b, moved
    <3> QED
      BY <2>3, <3>1, <3>2, DivDouble
  <2>7. /\ a \div Area.w \in Int /\ (a - b) \div Area.w \in Int /\ b \div Area.w \in Int
        /\ a \div Area.w - (a - b) \div Area.w - b \div Area.w \in {0, 1}
    <3>1. a - b \in Int
      BY <2>5
    <3> HIDE DEF a, b
    <3> QED
      BY <2>3, <2>5, <3>1, DivBounds, DivSum
  <2>8. toDataXCoord(f, dateWindow) = lo - moved + a \div Area.w
    <3>1. Size(xAxisRange(dateWindow)) = size
      <4> HIDE DEF moved
      <4>1. moved \in Int
        BY <2>6, <2>7
      <4> QED
        BY <2>2, <2>4, <4>1 DEF Size
    <3> QED
      BY <2>4, <3>1 DEF toDataXCoord
  <2>9. touch.data[1] = lo + b \div Area.w
    BY <2>4
  <2> HIDE DEF a, b, moved, lo, f
  <2> QED
    BY <2>2, <2>6, <2>7, <2>8, <2>9 DEF Away, Greater, Lesser, f
<1> QED
  BY <1>1, ViewInvariant, PTL DEF FingerHoldsTheData
=============================================================================

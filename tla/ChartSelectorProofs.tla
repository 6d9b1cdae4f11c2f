------------------------ MODULE ChartSelectorProofs ------------------------
(***************************************************************************)
(* The handles of the range selector keep their order and their distance   *)
(* and stand where the window of the chart ends, and a pan keeps the size  *)
(* of the window, for every strip, every width of a handle and every       *)
(* sequence of drags, redraws and lost events.                             *)
(***************************************************************************)
EXTENDS ChartSelector, TLAPS

Window == {<<>>} \cup (Int \X Int)
IsView(v) == v \in [window : Window, left : Int, right : Int]

Whole == Extent[2] - Extent[1]

(* Where the handles stand when the page's windows have left them room n: they overlap the       *)
(* strip, and go beyond it by less than they keep apart.                                         *)
GoodRange(a, b, n) ==
    /\ n > 0 => /\ a < b /\ a < Extent[2] /\ Extent[1] < b
                /\ Extent[1] - Apart < a /\ b < Extent[2] + Apart /\ b - a < Whole + Apart
    /\ n >= Apart => Extent[1] <= a /\ b <= Extent[2] /\ b - a >= Apart

(* A window shows some of the data, and enough to put the handles apart, but may show more. *)
GoodWindow(a, b, n) ==
    /\ n > 0 => a < b /\ a < Extent[2] /\ Extent[1] < b
    /\ n >= Apart => Lesser(Extent[2], b) - Greater(Extent[1], a) >= Apart

GoodView(v, n) ==
    /\ GoodRange(v.left, v.right, n)
    /\ v.window # <<>> => GoodWindow(v.window[1], v.window[2], n)

(* A pan of the chart goes on with as much. *)
GoodPan(p, n) ==
    /\ p.initialLeftmostDate \in Int /\ p.dateRange \in Int
    /\ n > 0 => 0 < p.dateRange
    /\ n >= Apart => Apart <= p.dateRange

ContextOK ==
    context \in [isPanning : BOOLEAN, dragStartX : Int,
                 pan : [initialLeftmostDate : Int, dateRange : Int]]

SelectorInv ==
    /\ IsView(View) /\ room \in Int /\ clientXLast \in Int /\ ContextOK
    /\ GoodView(View, room) /\ GoodPan(context.pan, room)

-----------------------------------------------------------------------------
(* The handles fit the strip. *)
LEMMA Quotient == \A s, w \in Nat : w > 0 /\ w < s => s \div w \in Nat /\ s \div w >= 1 /\ w * (s \div w) <= s
  OBVIOUS

LEMMA Strip ==
    /\ Extent[1] \in Int /\ Extent[2] \in Int /\ Extent[1] < Extent[2]
    /\ Pixel \in Int /\ Pixel >= 1
    /\ Whole \in Int /\ Whole = Extent[2] - Extent[1]
    /\ Apart \in Int /\ Apart >= 1 /\ Apart <= Whole
<1>1. Extent[1] \in Int /\ Extent[2] \in Int /\ Extent[1] < Extent[2] /\ Area.w \in Nat /\ Area.w > 0
  BY ScaleAssumption
<1>2. /\ Size(Extent) \in Nat /\ Size(Extent) = Extent[2] - Extent[1] /\ Area.w < Size(Extent)
  BY <1>1, SelectorAssumption DEF Size
<1>3. Pixel \in Nat /\ Pixel >= 1 /\ Area.w * Pixel <= Size(Extent)
  BY <1>1, <1>2, Quotient DEF Pixel
<1>4. HandleWidth + 3 \in Nat /\ HandleWidth + 3 >= 1 /\ HandleWidth + 3 <= Area.w
  BY SelectorAssumption
<1>5. \A h, w, p \in Nat : h >= 1 /\ h <= w /\ p >= 1 => h * p >= 1 /\ h * p <= w * p /\ h * p \in Nat
  OBVIOUS
<1>6. Apart \in Nat /\ Apart >= 1 /\ Apart <= Area.w * Pixel
  BY <1>1, <1>3, <1>4, <1>5 DEF Apart
<1> QED
  BY <1>1, <1>2, <1>3, <1>6 DEF Whole

LEMMA RangeOfWindow ==
    ASSUME NEW w \in Window, NEW n \in Int, w # <<>> => GoodWindow(w[1], w[2], n)
    PROVE  /\ xAxisRange(w)[1] \in Int /\ xAxisRange(w)[2] \in Int
           /\ GoodWindow(xAxisRange(w)[1], xAxisRange(w)[2], n)
<1>1. CASE w = <<>>
  BY <1>1, Strip DEF xAxisRange, GoodWindow, Greater, Lesser
<1>2. CASE w # <<>>
  BY <1>2 DEF xAxisRange, Window
<1> QED
  BY <1>1, <1>2

LEMMA Placed ==
    ASSUME NEW w \in Window, NEW n \in Int, w # <<>> => GoodWindow(w[1], w[2], n)
    PROVE  IsView(placeZoomHandles(w)) /\ GoodView(placeZoomHandles(w), n)
<1> DEFINE a == xAxisRange(w)[1]
           b == xAxisRange(w)[2]
           v == placeZoomHandles(w)
<1>1. a \in Int /\ b \in Int /\ GoodWindow(a, b, n)
  BY RangeOfWindow
<1>2. v.window = w /\ v.left = Greater(Extent[1], a) /\ v.right = Lesser(Extent[2], b)
  BY DEF placeZoomHandles
<1>3. v.left \in Int /\ v.right \in Int /\ GoodRange(v.left, v.right, n)
  <2> HIDE DEF a, b, v
  <2> QED
    BY <1>1, <1>2, Strip DEF GoodWindow, GoodRange, Greater, Lesser
<1>4. IsView(v)
  BY <1>1, Strip DEF placeZoomHandles, IsView, Greater, Lesser
<1> QED
  BY <1>2, <1>3, <1>4 DEF GoodView

(* What a drag makes of the two ends. *)
LEMMA Ends ==
    ASSUME NEW a \in Int, NEW b \in Int, NEW d \in Int, NEW n \in Int, GoodRange(a, b, n)
    PROVE  /\ GoodRange(Greater(Lesser(a + d, b - Apart), Extent[1]), b, n)
           /\ GoodRange(a, Greater(Lesser(b + d, Extent[2]), a + Apart), n)
           /\ a + d <= Extent[1] => GoodRange(Extent[1], Extent[1] + (b - a), n)
           /\ b + d >= Extent[2] => GoodRange(Extent[2] - (b - a), Extent[2], n)
           /\ a + d > Extent[1] /\ b + d < Extent[2] => GoodRange(a + d, a + d + (b - a), n)
  BY Strip DEF GoodRange, Greater, Lesser

LEMMA HandleMoved ==
    ASSUME NEW v, IsView(v), NEW n \in Int, GoodView(v, n), NEW d \in Int
    PROVE  IsView(MovedHandle(v, d)) /\ GoodView(MovedHandle(v, d), n)
<1> DEFINE l == Greater(Lesser(v.left + d, v.right - Apart), Extent[1])
           r == Greater(Lesser(v.right + d, Extent[2]), v.left + Apart)
<1>1. v.left \in Int /\ v.right \in Int /\ l \in Int /\ r \in Int
  BY Strip DEF IsView, Greater, Lesser
<1>2. GoodRange(l, v.right, n) /\ GoodRange(v.left, r, n)
  BY <1>1, Ends DEF GoodView
<1>3. MovedHandle(v, d) = IF handle = "left" THEN [v EXCEPT !.left = l] ELSE [v EXCEPT !.right = r]
  BY DEF MovedHandle
<1> HIDE DEF l, r
<1>4. IsView([v EXCEPT !.left = l]) /\ GoodView([v EXCEPT !.left = l], n)
  BY <1>1, <1>2 DEF IsView, GoodView
<1>5. IsView([v EXCEPT !.right = r]) /\ GoodView([v EXCEPT !.right = r], n)
  BY <1>1, <1>2 DEF IsView, GoodView
<1> QED
  BY <1>1, <1>3, <1>4, <1>5

LEMMA BothMoved ==
    ASSUME NEW v, IsView(v), NEW n \in Int, GoodView(v, n), NEW d \in Int
    PROVE  IsView(MovedBoth(v, d)) /\ GoodView(MovedBoth(v, d), n)
<1> DEFINE size == v.right - v.left
           l == IF v.left + d <= Extent[1] THEN Extent[1]
                ELSE IF v.right + d >= Extent[2] THEN Extent[2] - size ELSE v.left + d
<1>1. v.left \in Int /\ v.right \in Int /\ size \in Int /\ l \in Int /\ l + size \in Int
  BY Strip DEF IsView
<1>2. GoodRange(l, l + size, n)
  <2>1. GoodRange(v.left, v.right, n)
    BY DEF GoodView
  <2>2. CASE v.left + d <= Extent[1]
    BY <1>1, <2>1, <2>2, Ends
  <2>3. CASE ~ (v.left + d <= Extent[1]) /\ v.right + d >= Extent[2]
    <3>1. l = Extent[2] - size /\ l + size = Extent[2]
      BY <1>1, <2>3, Strip
    <3> QED
      BY <1>1, <2>1, <2>3, <3>1, Ends
  <2>4. CASE v.left + d > Extent[1] /\ v.right + d < Extent[2]
    <3>1. l = v.left + d
      BY <1>1, <2>4, Strip
    <3> QED
      BY <1>1, <2>1, <2>4, <3>1, Ends
  <2> QED
    BY <1>1, <2>2, <2>3, <2>4, Strip
<1>3. MovedBoth(v, d) = [v EXCEPT !.left = l, !.right = l + size]
  BY DEF MovedBoth
<1> HIDE DEF l, size
<1>4. IsView([v EXCEPT !.left = l, !.right = l + size]) /\ GoodView([v EXCEPT !.left = l, !.right = l + size], n)
  BY <1>1, <1>2 DEF IsView, GoodView
<1> QED
  BY <1>3, <1>4

(* The chart takes over where the handles stand, or everything when they are at the ends. *)
LEMMA Taken ==
    ASSUME NEW v, IsView(v), NEW n \in Int, GoodView(v, n)
    PROVE  /\ IsView(doZoom(v)) /\ GoodView(doZoom(v), n)
           /\ IsView(doPan(v)) /\ GoodView(doPan(v), n)
<1>1. <<v.left, v.right>> \in Window /\ <<>> \in Window
  BY DEF IsView, Window
<1>2. \A w \in {<<>>, <<v.left, v.right>>} :
         IsView([v EXCEPT !.window = w]) /\ GoodView([v EXCEPT !.window = w], n)
  <2> SUFFICES ASSUME NEW w \in {<<>>, <<v.left, v.right>>}
               PROVE  IsView([v EXCEPT !.window = w]) /\ GoodView([v EXCEPT !.window = w], n)
    OBVIOUS
  <2> DEFINE m == [v EXCEPT !.window = w]
  <2>1. m.window = w /\ m.left = v.left /\ m.right = v.right /\ IsView(m)
    BY <1>1 DEF IsView
  <2> HIDE DEF m
  <2>2. GoodWindow(v.left, v.right, n) /\ GoodRange(v.left, v.right, n)
    <3>1. v.left \in Int /\ v.right \in Int /\ GoodRange(v.left, v.right, n)
      BY DEF IsView, GoodView
    <3> QED
      BY <3>1, Strip DEF GoodRange, GoodWindow, Greater, Lesser
  <2>3. w = <<>> \/ (w[1] = v.left /\ w[2] = v.right)
    OBVIOUS
  <2>4. GoodView(m, n)
    BY <2>1, <2>2, <2>3 DEF GoodView
  <2> QED
    BY <2>1, <2>4 DEF m
<1> QED
  BY <1>2 DEF doZoom, doPan

(* A bounded pan of the chart leaves its window in the strip. *)
LEMMA Panned ==
    ASSUME SelectorInv, NEW x \in Int
    PROVE  IsView(movePan(x)) /\ GoodView(movePan(x), room)
<1> DEFINE p == context.pan
           free == p.initialLeftmostDate - ((x - context.dragStartX) * p.dateRange) \div (Area.w - 1)
           min == Greater(free, Extent[1])
           w == panDates(p, x - context.dragStartX, TRUE)
<1>1. p.initialLeftmostDate \in Int /\ p.dateRange \in Int /\ context.dragStartX \in Int
  BY DEF SelectorInv, ContextOK
<1>2. Area.w - 1 \in Nat /\ Area.w - 1 > 0
  BY ScaleAssumption
<1>3. (x - context.dragStartX) * p.dateRange \in Int
  BY <1>1
<1>4. ((x - context.dragStartX) * p.dateRange) \div (Area.w - 1) \in Int
  BY <1>2, <1>3
<1>5. free \in Int
  BY <1>1, <1>4
<1>6. min \in Int /\ min >= Extent[1]
  <2> HIDE DEF free
  <2> QED
    BY <1>5, Strip DEF Greater
<1>7. w = IF min + p.dateRange > Extent[2] THEN <<Extent[2] - p.dateRange, Extent[2]>>
          ELSE <<min, min + p.dateRange>>
  BY DEF panDates
<1>8. GoodPan(p, room)
  BY DEF SelectorInv
<1> HIDE DEF w, min, p, free
<1>9. PICK a \in Int, b \in Int : w = <<a, b>> /\ GoodWindow(a, b, room)
  <2>1. CASE min + p.dateRange > Extent[2]
    BY <1>1, <1>6, <1>7, <1>8, <2>1, Strip DEF GoodPan, GoodWindow, Greater, Lesser
  <2>2. CASE ~ (min + p.dateRange > Extent[2])
    BY <1>1, <1>6, <1>7, <1>8, <2>2, Strip DEF GoodPan, GoodWindow, Greater, Lesser
  <2> QED
    BY <2>1, <2>2
<1>10. w \in Window /\ GoodWindow(w[1], w[2], room)
  BY <1>9 DEF Window
<1> QED
  BY <1>10, Placed DEF SelectorInv, movePan, w, p

-----------------------------------------------------------------------------
LEMMA Shown ==
    ASSUME NEW v, IsView(v), NEW n \in Int, GoodView(v, n), Shows(v)
    PROVE  IsView(View)' /\ GoodView(View', n)
<1>1. View' = [window |-> v.window, left |-> v.left, right |-> v.right]
  BY DEF View, Shows
<1>2. IsView(View)'
  BY <1>1 DEF IsView
<1>3. View'.window = v.window /\ View'.left = v.left /\ View'.right = v.right
  BY <1>1
<1> QED
  BY <1>2, <1>3 DEF GoodView

(* A window of the page leaves the room that the handles are put to. *)
LEMMA PageWindow ==
    ASSUME NEW w \in Windows, NEW n \in Int, n <= placeZoomHandles(w).right - placeZoomHandles(w).left
    PROVE  w \in Window /\ (w # <<>> => GoodWindow(w[1], w[2], n))
<1>1. w \in Int \X Int
  BY SelectorAssumption
<1>2. PICK a \in Int, b \in Int : w = <<a, b>>
  BY <1>1
<1>3. w[1] = a /\ w[2] = b /\ w # <<>>
  BY <1>2
<1>4. n <= Lesser(Extent[2], b) - Greater(Extent[1], a)
  BY <1>3 DEF placeZoomHandles, xAxisRange
<1>5. GoodWindow(a, b, n)
  BY <1>4, Strip DEF GoodWindow, Greater, Lesser
<1> QED
  BY <1>1, <1>3, <1>5 DEF Window

LEMMA SelectorStep == SelectorInv /\ [Next]_vars => SelectorInv'
<1> SUFFICES ASSUME SelectorInv, [Next]_vars PROVE SelectorInv'
  OBVIOUS
<1>i. /\ IsView(View) /\ GoodView(View, room) /\ room \in Int /\ clientXLast \in Int
      /\ ContextOK /\ GoodPan(context.pan, room)
  BY DEF SelectorInv, ContextOK
<1>x. \A x \in Xs : x \in Int
  BY SelectorAssumption
<1>1. ASSUME NEW x \in Xs, (\E h \in {"left", "right"} : onZoomStart(h, x)) \/ onPanStart(x) PROVE SelectorInv'
  <2>1. View' = View /\ room' = room /\ context' = context /\ clientXLast' = x
    BY <1>1 DEF onZoomStart, onPanStart, press, View
  <2> QED
    BY <1>i, <1>x, <2>1 DEF SelectorInv, ContextOK
<1>2. ASSUME NEW x \in Xs, mousedown(x) PROVE SelectorInv'
  <2> DEFINE p == startPanDates(dateWindow)
             a == xAxisRange(dateWindow)[1]
             b == xAxisRange(dateWindow)[2]
  <2>1. a \in Int /\ b \in Int /\ GoodWindow(a, b, room)
    BY <1>i, RangeOfWindow DEF IsView, GoodView, View
  <2>2. p.initialLeftmostDate = a /\ p.dateRange = b - a
    BY DEF startPanDates, Size
  <2>3. GoodPan(p, room)
    <3> HIDE DEF p, a, b
    <3> QED
      BY <1>i, <2>1, <2>2, Strip DEF GoodPan, GoodWindow, Greater, Lesser
  <2>4. p \in [initialLeftmostDate : Int, dateRange : Int]
    <3>1. a \in Int /\ Size(xAxisRange(dateWindow)) \in Int
      BY <2>1 DEF Size
    <3> QED
      BY <3>1 DEF startPanDates
  <2>5. View' = View /\ room' = room /\ clientXLast' = clientXLast
    BY <1>2 DEF mousedown, press, View
  <2>6. context' = [isPanning |-> TRUE, dragStartX |-> x, pan |-> p]
    BY <1>2 DEF mousedown
  <2> HIDE DEF p
  <2>7. ContextOK' /\ context'.pan = p
    BY <1>x, <2>4, <2>6 DEF ContextOK
  <2> QED
    BY <1>i, <2>3, <2>5, <2>7 DEF SelectorInv, ContextOK
<1>3. ASSUME NEW x \in Xs, NEW overChart \in BOOLEAN, mousemove(x, overChart) PROVE SelectorInv'
  <2> DEFINE v == IF overChart /\ context.isPanning THEN movePan(x) ELSE View
             d == (x - clientXLast) * Pixel
  <2>1. IsView(v) /\ GoodView(v, room)
    BY <1>i, <1>x, Panned
  <2>2. d \in Int
    <3>1. x - clientXLast \in Int /\ Pixel \in Int
      BY <1>i, <1>x, Strip
    <3> QED
      BY <3>1
  <2>3. Shows(onZoom(v, d)) \/ Shows(onPan(v, d)) \/ Shows(v)
    BY <1>3 DEF mousemove
  <2>4. room' = room /\ context' = context /\ clientXLast' \in {x, clientXLast}
    BY <1>3 DEF mousemove
  <2> HIDE DEF v, d
  <2>5. IsView(onZoom(v, d)) /\ GoodView(onZoom(v, d), room)
    BY <1>i, <2>1, <2>2, HandleMoved, Taken DEF onZoom
  <2>6. IsView(onPan(v, d)) /\ GoodView(onPan(v, d), room)
    BY <1>i, <2>1, <2>2, BothMoved, Taken DEF onPan
  <2>7. IsView(View)' /\ GoodView(View', room)
    BY <1>i, <2>1, <2>3, <2>5, <2>6, Shown
  <2> QED
    BY <1>i, <1>x, <2>4, <2>7 DEF SelectorInv, ContextOK
<1>4. CASE mouseup
  <2>1. PICK v \in Ended(View) : Shows(v)
    BY <1>4 DEF mouseup
  <2>2. v \in {View, doZoom(View), doPan(View)}
    BY <2>1 DEF Ended
  <2>3. IsView(v) /\ GoodView(v, room)
    BY <1>i, <2>2, Taken
  <2>4. IsView(View)' /\ GoodView(View', room)
    BY <1>i, <2>1, <2>3, Shown
  <2>5. /\ room' = room /\ clientXLast' = clientXLast
        /\ context' = [context EXCEPT !.isPanning = FALSE]
    BY <1>4 DEF mouseup
  <2>6. ContextOK' /\ context'.pan = context.pan
    BY <1>i, <2>5 DEF ContextOK
  <2> QED
    BY <1>i, <2>4, <2>5, <2>6 DEF SelectorInv, ContextOK
<1>5. CASE mouseupUnheard \/ UNCHANGED vars
  <2>1. View' = View /\ room' = room /\ context' = context /\ clientXLast' = clientXLast
    BY <1>5 DEF mouseupUnheard, vars, drag, View
  <2> QED
    BY <1>i, <2>1 DEF SelectorInv, ContextOK
<1>6. ASSUME NEW w \in Windows, updateOptions(w) PROVE SelectorInv'
  <2> DEFINE v == placeZoomHandles(w)
  <2>1. /\ Shows(v) /\ room' = Lesser(room, v.right - v.left)
        /\ context' = context /\ clientXLast' = clientXLast
    BY <1>6 DEF updateOptions, drag, Shows
  <2>2. v.left \in Int /\ v.right \in Int
    BY Strip, SelectorAssumption DEF placeZoomHandles, xAxisRange, Greater, Lesser
  <2> HIDE DEF v
  <2>3. room' \in Int /\ room' <= room /\ room' <= v.right - v.left
    BY <1>i, <2>1, <2>2 DEF Lesser
  <2>4. w \in Window /\ (w # <<>> => GoodWindow(w[1], w[2], room'))
    BY <2>3, PageWindow DEF v
  <2>5. IsView(v) /\ GoodView(v, room')
    BY <2>3, <2>4, Placed DEF v
  <2>6. IsView(View)' /\ GoodView(View', room')
    BY <2>1, <2>3, <2>5, Shown
  <2>7. GoodPan(context.pan, room')
    BY <1>i, <2>3, Strip DEF GoodPan
  <2> QED
    BY <1>i, <2>1, <2>3, <2>6, <2>7 DEF SelectorInv, ContextOK
<1>7. CASE drawGraph
  <2>1. /\ Shows(placeZoomHandles(dateWindow)) /\ room' = room
        /\ context' = context /\ clientXLast' = clientXLast
    BY <1>7 DEF drawGraph, drag
  <2>2. dateWindow \in Window /\ (dateWindow # <<>> => GoodWindow(dateWindow[1], dateWindow[2], room))
    BY <1>i DEF IsView, GoodView, View
  <2>3. IsView(placeZoomHandles(dateWindow)) /\ GoodView(placeZoomHandles(dateWindow), room)
    BY <1>i, <2>2, Placed
  <2>4. IsView(View)' /\ GoodView(View', room)
    BY <1>i, <2>1, <2>3, Shown
  <2> QED
    BY <1>i, <2>1, <2>4 DEF SelectorInv, ContextOK
<1> QED
  BY <1>1, <1>2, <1>3, <1>4, <1>5, <1>6, <1>7 DEF Next

LEMMA SelectorInit == Init => SelectorInv
<1> SUFFICES ASSUME Init PROVE SelectorInv
  OBVIOUS
<1>1. IsView(View) /\ View.left = Extent[1] /\ View.right = Extent[2] /\ View.window = <<>>
  BY Strip DEF Init, View, IsView, Window
<1>2. GoodView(View, room)
  BY <1>1, Strip DEF GoodView, GoodRange, Init
<1>3. startPanDates(<<>>) = [initialLeftmostDate |-> Extent[1], dateRange |-> Whole]
  BY DEF startPanDates, xAxisRange, Size, Whole
<1>4. context = [isPanning |-> FALSE, dragStartX |-> 0, pan |-> startPanDates(<<>>)]
  BY DEF Init
<1>5. ContextOK /\ GoodPan(context.pan, room)
  BY <1>3, <1>4, Strip DEF ContextOK, GoodPan
<1>6. room \in Int
  BY Strip DEF Init, Size
<1> QED
  BY <1>1, <1>2, <1>5, <1>6 DEF Init, SelectorInv, ContextOK

(* Dragged, panned, redrawn or left behind by a lost mouseup, the left handle stays to the     *)
(* left of the right one, unless the page sets a window beside the data, and both stay in the   *)
(* strip and apart, unless it sets one that leaves less (onZoom, onPan, movePan,                 *)
(* placeZoomHandles_).                                                                           *)
THEOREM HandlesOrdered == Spec => []HandlesInOrder
<1>1. SelectorInv => HandlesInOrder
  BY DEF SelectorInv, GoodView, GoodRange, View, HandlesInOrder
<1> QED
  BY <1>1, SelectorInit, SelectorStep, PTL DEF Spec

-----------------------------------------------------------------------------
(* The handles of a view stand where its window ends. *)
Matches(v) ==
    IF v.window = <<>> THEN v.left - Pixel <= Extent[1] /\ v.right + Pixel >= Extent[2]
    ELSE /\ Greater(v.window[1], Extent[1]) = Greater(v.left, Extent[1])
         /\ Lesser(v.window[2], Extent[2]) = Lesser(v.right, Extent[2])

(* A redraw puts the handles there, and the end of a drag the window. *)
LEMMA RedrawMatches == ASSUME NEW w \in Window PROVE Matches(placeZoomHandles(w))
<1> DEFINE a == xAxisRange(w)[1]
           b == xAxisRange(w)[2]
           v == placeZoomHandles(w)
<1>1. v.window = w /\ v.left = Greater(Extent[1], a) /\ v.right = Lesser(Extent[2], b)
  BY DEF placeZoomHandles
<1>2. CASE w = <<>>
  <2>1. a = Extent[1] /\ b = Extent[2]
    BY <1>2 DEF xAxisRange
  <2> HIDE DEF a, b, v
  <2>2. Matches(v)
    BY <1>1, <1>2, <2>1, Strip DEF Matches, Greater, Lesser
  <2> QED
    BY <2>2 DEF v
<1>3. CASE w # <<>>
  <2>1. a = w[1] /\ b = w[2] /\ a \in Int /\ b \in Int
    BY <1>3 DEF xAxisRange, Window
  <2> HIDE DEF a, b, v
  <2>2. Matches(v)
    BY <1>1, <1>3, <2>1, Strip DEF Matches, Greater, Lesser
  <2> QED
    BY <2>2 DEF v
<1> QED
  BY <1>2, <1>3

LEMMA TakenMatches ==
    ASSUME NEW v, IsView(v) PROVE Matches(doZoom(v)) /\ Matches(doPan(v))
<1> DEFINE pan == doPan(v)
           zoom == doZoom(v)
<1>1. v.left \in Int /\ v.right \in Int
  BY DEF IsView
<1>2. /\ pan.window = <<v.left, v.right>> /\ pan.left = v.left /\ pan.right = v.right
      /\ pan.window # <<>> /\ pan.window[1] = v.left /\ pan.window[2] = v.right
  BY DEF doPan, IsView
<1>3. Matches(pan)
  <2> HIDE DEF pan
  <2> QED
    BY <1>2 DEF Matches
<1>4. CASE isZoomed(v)
  BY <1>3, <1>4 DEF doZoom, doPan
<1>5. CASE ~ isZoomed(v)
  <2>1. zoom.window = <<>> /\ zoom.left = v.left /\ zoom.right = v.right
    BY <1>5 DEF doZoom, IsView
  <2>2. v.left - Pixel <= Extent[1] /\ v.right + Pixel >= Extent[2]
    BY <1>1, <1>5, Strip DEF isZoomed
  <2> HIDE DEF zoom
  <2> QED
    BY <1>3, <2>1, <2>2 DEF Matches, zoom
<1> QED
  BY <1>1, <1>3, <1>4, <1>5

LEMMA ShownMatches == ASSUME NEW v, Shows(v), Matches(v) PROVE Matches(View')
<1>1. View'.window = v.window /\ View'.left = v.left /\ View'.right = v.right
  BY DEF View, Shows
<1> QED
  BY <1>1 DEF Matches

(* A mobile device whose drag goes on owes the match to its end. *)
Waiting == ~ dynamic /\ (handle # "none" \/ isPanning)

LEMMA MatchStep == SelectorInv /\ (Waiting \/ Matches(View)) /\ [Next]_vars => Waiting' \/ Matches(View')
<1> SUFFICES ASSUME SelectorInv, Waiting \/ Matches(View), [Next]_vars, ~ Waiting'
             PROVE  Matches(View')
  OBVIOUS
<1> USE DEF Waiting
<1>i. IsView(View) /\ View.window = dateWindow /\ dateWindow \in Window
  BY DEF SelectorInv, IsView, View
<1>x. \A x \in Xs : x \in Int
  BY SelectorAssumption
<1>1. ASSUME NEW x \in Xs, NEW h \in {"left", "right"}, onZoomStart(h, x) PROVE Matches(View')
  BY <1>1 DEF onZoomStart, View
<1>2. ASSUME NEW x \in Xs, onPanStart(x) \/ mousedown(x) PROVE Matches(View')
  BY <1>2 DEF onPanStart, mousedown, View
<1>3. ASSUME NEW x \in Xs, NEW overChart \in BOOLEAN, mousemove(x, overChart) PROVE Matches(View')
  <2> DEFINE v == IF overChart /\ context.isPanning THEN movePan(x) ELSE View
             d == (x - clientXLast) * Pixel
             w == panDates(context.pan, x - context.dragStartX, TRUE)
  <2>1. dynamic' = dynamic /\ handle' = handle /\ isPanning' = isPanning
    BY <1>3 DEF mousemove
  <2>2. IsView(v) /\ GoodView(v, room)
    BY <1>x, Panned DEF SelectorInv
  <2>3. d \in Int
    <3>1. x - clientXLast \in Int /\ Pixel \in Int
      BY <1>x, Strip DEF SelectorInv
    <3> QED
      BY <3>1
  <2>4. \/ (handle # "none" /\ Shows(onZoom(v, d)))
        \/ (isPanning /\ Shows(onPan(v, d)))
        \/ Shows(v)
    BY <1>3 DEF mousemove
  <2>5. Matches(View) /\ (dynamic \/ (handle = "none" /\ ~ isPanning))
    BY <2>1
  <2>6. Matches(v)
    <3>1. movePan(x) = placeZoomHandles(w) /\ movePan(x).window = w
      BY DEF movePan, placeZoomHandles
    <3>2. w \in Window \/ ~ (overChart /\ context.isPanning)
      BY <2>2, <3>1 DEF IsView
    <3> QED
      BY <2>5, <3>1, <3>2, RedrawMatches
  <2> HIDE DEF v, d, w
  <2>7. ASSUME dynamic PROVE Matches(onZoom(v, d)) /\ Matches(onPan(v, d))
    <3>1. IsView(MovedHandle(v, d)) /\ IsView(MovedBoth(v, d))
      BY <2>2, <2>3, HandleMoved, BothMoved DEF SelectorInv
    <3> QED
      BY <2>7, <3>1, TakenMatches DEF onZoom, onPan
  <2> QED
    BY <2>4, <2>5, <2>6, <2>7, ShownMatches
<1>4. CASE mouseup
  <2>1. PICK v \in Ended(View) : Shows(v)
    BY <1>4 DEF mouseup
  <2>2. Matches(v)
    <3>1. CASE Waiting
      BY <1>i, <2>1, <3>1, TakenMatches DEF Ended
    <3>2. CASE ~ Waiting
      BY <2>1, <3>2 DEF Ended
    <3> QED
      BY <3>1, <3>2
  <2> QED
    BY <2>1, <2>2, ShownMatches
<1>5. CASE mouseupUnheard \/ UNCHANGED vars
  BY <1>5 DEF mouseupUnheard, vars, drag, View
<1>6. ASSUME NEW w \in Windows, updateOptions(w) PROVE Matches(View')
  <2>1. w \in Window
    BY SelectorAssumption DEF Window
  <2> QED
    BY <1>6, <2>1, RedrawMatches, ShownMatches DEF updateOptions
<1>7. CASE drawGraph
  BY <1>i, <1>7, RedrawMatches, ShownMatches DEF drawGraph
<1> QED
  BY <1>1, <1>2, <1>3, <1>4, <1>5, <1>6, <1>7 DEF Next

(* The handles stand where the window of the chart ends, to the pixel that makes no zoom, and   *)
(* on a device that waits for the end of a drag when none is under way (doZoom, doPan,           *)
(* placeZoomHandles_, onZoomEnd, onPanEnd).                                                      *)
THEOREM HandlesMatch == Spec => []HandlesMatchWindow
<1>1. Init => Matches(View)
  <2> SUFFICES ASSUME Init PROVE Matches(View)
    OBVIOUS
  <2>1. View.window = <<>> /\ View.left = Extent[1] /\ View.right = Extent[2]
    BY DEF Init, View
  <2> QED
    BY <2>1, Strip DEF Matches
<1>2. Waiting \/ Matches(View) => HandlesMatchWindow
  BY DEF Waiting, Matches, View, HandlesMatchWindow
<1>3. SelectorInv /\ (Waiting \/ Matches(View)) /\ [Next]_vars => (Waiting \/ Matches(View))'
  BY MatchStep
<1> QED
  BY <1>1, <1>2, <1>3, SelectorInit, SelectorStep, PTL DEF Spec

-----------------------------------------------------------------------------
(* A pan of the chart shows as much as it showed when it began, inside the data. *)
LEMMA PannedSize ==
    ASSUME SelectorInv, NEW x \in Int
    PROVE  /\ Size(movePan(x).window) = context.pan.dateRange
           /\ context.pan.dateRange <= Whole => Within(movePan(x).window, Extent)
           /\ movePan(x).right - movePan(x).left = Lesser(context.pan.dateRange, Whole)
<1> DEFINE p == context.pan
           free == p.initialLeftmostDate - ((x - context.dragStartX) * p.dateRange) \div (Area.w - 1)
           min == Greater(free, Extent[1])
           w == panDates(p, x - context.dragStartX, TRUE)
<1>1. p.dateRange \in Int
  BY DEF SelectorInv, ContextOK, GoodPan
<1>2. free \in Int
  <2>1. Area.w - 1 \in Nat /\ Area.w - 1 > 0
    BY ScaleAssumption
  <2>2. p.initialLeftmostDate \in Int /\ (x - context.dragStartX) * p.dateRange \in Int
    BY DEF SelectorInv, ContextOK
  <2>3. ((x - context.dragStartX) * p.dateRange) \div (Area.w - 1) \in Int
    BY <2>1, <2>2
  <2> QED
    BY <2>2, <2>3
<1>3. min \in Int /\ min >= Extent[1]
  <2> HIDE DEF free
  <2> QED
    BY <1>2, Strip DEF Greater
<1>4. w = IF min + p.dateRange > Extent[2] THEN <<Extent[2] - p.dateRange, Extent[2]>>
          ELSE <<min, min + p.dateRange>>
  BY DEF panDates
<1> HIDE DEF p, free, min
<1>9. w # <<>>
  <2> HIDE DEF w
  <2>1. \A a, b : <<a, b>> # <<>>
    OBVIOUS
  <2> QED
    BY <1>4, <2>1
<1>5. movePan(x).left = Greater(Extent[1], w[1]) /\ movePan(x).right = Lesser(Extent[2], w[2]) /\ movePan(x).window = w
  <2>1. movePan(x) = placeZoomHandles(w)
    BY DEF movePan, p
  <2> HIDE DEF w
  <2> QED
    BY <1>9, <2>1 DEF placeZoomHandles, xAxisRange
<1> HIDE DEF w
<1>7. CASE min + p.dateRange > Extent[2]
  <2>1. w[1] = Extent[2] - p.dateRange /\ w[2] = Extent[2]
    BY <1>4, <1>7
  <2>2. movePan(x).right = Extent[2] /\ movePan(x).left = Greater(Extent[1], Extent[2] - p.dateRange)
    BY <1>5, <2>1, Strip DEF Lesser
  <2>3. Extent[2] - Greater(Extent[1], Extent[2] - p.dateRange) = Lesser(p.dateRange, Whole)
    BY <1>1, Strip DEF Greater, Lesser
  <2>4. Size(w) = p.dateRange /\ (p.dateRange <= Whole => Within(w, Extent))
    BY <1>1, <2>1, Strip DEF Size, Within
  <2> QED
    BY <1>5, <2>2, <2>3, <2>4 DEF p
<1>8. CASE ~ (min + p.dateRange > Extent[2])
  <2>1. w[1] = min /\ w[2] = min + p.dateRange
    BY <1>4, <1>8
  <2>2. movePan(x).left = min /\ movePan(x).right = min + p.dateRange
    BY <1>1, <1>3, <1>5, <1>8, <2>1, Strip DEF Greater, Lesser
  <2>3. p.dateRange = Lesser(p.dateRange, Whole)
    BY <1>1, <1>3, <1>8, Strip DEF Lesser
  <2>4. Size(w) = p.dateRange /\ Within(w, Extent)
    BY <1>1, <1>3, <1>8, <2>1, Strip DEF Size, Within
  <2> QED
    BY <1>1, <1>3, <1>5, <2>2, <2>3, <2>4 DEF p
<1> QED
  BY <1>7, <1>8

(* Nor does a pan of the selector show more or less. *)
LEMMA BothKeepTheSize ==
    ASSUME NEW v, IsView(v), NEW d \in Int
    PROVE  \/ onPan(v, d).window = v.window
           \/ /\ Size(onPan(v, d).window) = v.right - v.left
              /\ v.right - v.left <= Whole => Within(onPan(v, d).window, Extent)
<1> DEFINE size == v.right - v.left
           l == IF v.left + d <= Extent[1] THEN Extent[1]
                ELSE IF v.right + d >= Extent[2] THEN Extent[2] - size ELSE v.left + d
           m == MovedBoth(v, d)
<1>1. size \in Int /\ l \in Int
  BY Strip DEF IsView
<1>2. size <= Whole => Extent[1] <= l /\ l + size <= Extent[2]
  <2>1. v.left \in Int /\ v.right \in Int
    BY DEF IsView
  <2> QED
    BY <2>1, Strip
<1>3. m = [v EXCEPT !.left = l, !.right = l + size]
  BY DEF MovedBoth
<1>4. m.window = v.window /\ m.left = l /\ m.right = l + size /\ m = [window |-> v.window, left |-> l, right |-> l + size]
  <2> HIDE DEF l, size, m
  <2>1. v = [window |-> v.window, left |-> v.left, right |-> v.right]
    BY DEF IsView
  <2> QED
    BY <1>3, <2>1
<1>5. size = v.right - v.left
  OBVIOUS
<1> HIDE DEF l, size, m
<1>6. CASE ~ dynamic
  BY <1>4, <1>6 DEF onPan, m
<1>7. CASE dynamic
  <2>1. onPan(v, d) = [m EXCEPT !.window = <<l, l + size>>]
    BY <1>4, <1>7 DEF onPan, doPan, m
  <2>2. onPan(v, d).window = <<l, l + size>>
    BY <1>4, <2>1
  <2> QED
    BY <1>1, <1>2, <1>5, <2>2 DEF Size, Within
<1> QED
  BY <1>6, <1>7

(* A pan never changes how much is shown and never leaves the data, over the chart, where it    *)
(* goes on with as much as it began with, or between the handles (onPan, movePan).              *)
THEOREM PansKeepTheSize == Spec => PanKeepsTheSize
<1> DEFINE Sizes == (IF context.isPanning THEN {context.pan.dateRange, Lesser(context.pan.dateRange, Size(Extent))} ELSE {})
                    \cup (IF isPanning THEN {right - left} ELSE {})
           Moves == handle = "none" /\ dateWindow' # dateWindow /\ (\E x \in Xs, overChart \in BOOLEAN : mousemove(x, overChart))
           Keeps == Moves => /\ Size(dateWindow') \in Sizes
                             /\ Size(dateWindow') \in 0 .. Size(Extent) => Within(dateWindow', Extent)
<1>1. SelectorInv /\ [Next]_vars => [Keeps]_vars
  <2> SUFFICES ASSUME SelectorInv, Moves
               PROVE  /\ Size(dateWindow') \in Sizes
                      /\ Size(dateWindow') \in 0 .. Size(Extent) => Within(dateWindow', Extent)
    OBVIOUS
  <2>1. PICK x \in Xs, overChart \in BOOLEAN : mousemove(x, overChart)
    OBVIOUS
  <2> DEFINE c == overChart /\ context.isPanning
             v == IF c THEN movePan(x) ELSE View
             d == (x - clientXLast) * Pixel
  <2>2. (isPanning /\ Shows(onPan(v, d))) \/ Shows(v)
    BY <2>1 DEF mousemove
  <2>3. IsView(v) /\ d \in Int /\ x \in Int
    <3>1. x \in Int /\ x - clientXLast \in Int /\ Pixel \in Int
      BY Strip, SelectorAssumption DEF SelectorInv
    <3>2. d \in Int
      BY <3>1
    <3> QED
      BY <3>1, <3>2, Panned DEF SelectorInv
  <2>4. Size(Extent) = Whole /\ Whole \in Int /\ context.pan.dateRange \in Int
    BY Strip DEF Size, Whole, SelectorInv, GoodPan
  <2>5. c \/ (v.window = dateWindow /\ v.right - v.left = right - left)
    BY DEF View
  <2>6. c => /\ Size(v.window) = context.pan.dateRange
             /\ context.pan.dateRange <= Whole => Within(v.window, Extent)
             /\ v.right - v.left = Lesser(context.pan.dateRange, Whole)
    BY <2>3, PannedSize
  <2>7. c => context.isPanning
    OBVIOUS
  <2> HIDE DEF v, d, c
  <2>8. dateWindow' = v.window \/ (isPanning /\ dateWindow' = onPan(v, d).window)
    BY <2>2 DEF Shows
  <2>9. CASE dateWindow' = v.window
    <3>1. c
      BY <2>5, <2>9
    <3> QED
      BY <2>4, <2>6, <2>7, <2>9, <3>1
  <2>10. CASE isPanning /\ dateWindow' = onPan(v, d).window /\ dateWindow' # v.window
    <3>1. /\ Size(dateWindow') = v.right - v.left
          /\ v.right - v.left <= Whole => Within(dateWindow', Extent)
      BY <2>3, <2>10, BothKeepTheSize
    <3>2. v.right - v.left \in Sizes
      BY <2>4, <2>5, <2>6, <2>7, <2>10
    <3>3. v.right - v.left \in Int
      BY <2>3 DEF IsView
    <3> HIDE DEF Sizes
    <3>4. Size(dateWindow') \in 0 .. Size(Extent) => v.right - v.left <= Whole
      BY <2>4, <3>1, <3>3
    <3> QED
      BY <3>1, <3>2, <3>4
  <2> QED
    BY <2>8, <2>9, <2>10
<1> QED
  BY <1>1, SelectorInit, SelectorStep, PTL DEF Spec, PanKeepsTheSize
=============================================================================

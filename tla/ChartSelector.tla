--------------------------- MODULE ChartSelector ---------------------------
(***************************************************************************)
(* The range selector of a chart (RangeSelector of dygraph.js): a strip    *)
(* under the chart with two handles that show, and change, the part of the *)
(* data the chart shows.  The handles can be dragged, the part between     *)
(* them can be panned, and a drag over the chart pans too                  *)
(* (dragIsPanInteractionModel).  The chart redraws by itself as well, for  *)
(* a new option, and then puts the handles where its window is.            *)
(*                                                                         *)
(* The strip shows all the data, so the place of a handle is kept as the   *)
(* data under its middle.                                                  *)
(***************************************************************************)
EXTENDS ChartScale

CONSTANTS
    Xs,            \* places of the pointer along the x-axis, in pixels
    HandleWidth,   \* of a handle, in pixels
    Windows,       \* what a page sets dateWindow to: some of the data, or none
    Presses        \* bound: how often the button goes down

\* The strip has room for two handles, and more than a unit of the data in every pixel.
ASSUME SelectorAssumption ==
    /\ Xs \subseteq Nat /\ HandleWidth \in Nat /\ Presses \in Nat
    /\ HandleWidth + 3 <= Area.w
    /\ Area.w < Extent[2] - Extent[1]
    /\ Windows \subseteq {w \in Int \X Int : w[1] < w[2]}

VARIABLES
    dynamic,       \* not a mobile device: the chart follows a drag at once
    dateWindow,    \* dateWindow_, <<>> for null
    left,          \* data under the left handle
    right,         \* data under the right handle
    handle,        \* "left" or "right" while isZooming, "none" else
    isPanning,     \* of the selector
    clientXLast,   \* where the last move that counted ended
    context,       \* the drag context of the chart: [isPanning, dragStartX, pan]
    tarps,         \* covers over the page's frames
    pressed,       \* the button is down
    presses,       \* presses to come
    room           \* history: the least that a window of the page has left between the handles

drag == <<handle, isPanning, context, tarps>>
vars == <<dynamic, dateWindow, left, right, handle, isPanning, clientXLast, context, tarps, pressed, presses, room>>

\* A cover for the frames of the page, on top of those that are there; all of them away.
cover   == tarps' = tarps + 1
uncover == tarps' = 0

Pixel == Size(Extent) \div Area.w
Apart == (HandleWidth + 3) * Pixel

Init ==
    /\ dynamic \in BOOLEAN
    /\ dateWindow = <<>> /\ left = Extent[1] /\ right = Extent[2]
    /\ handle = "none" /\ isPanning = FALSE /\ clientXLast = 0
    /\ context = [isPanning |-> FALSE, dragStartX |-> 0, pan |-> startPanDates(<<>>)]
    /\ tarps = 0 /\ pressed = FALSE /\ presses = Presses /\ room = Size(Extent)

-----------------------------------------------------------------------------
(* What the handlers make of the window and of the handles, together called *)
(* a view.                                                                  *)

View == [window |-> dateWindow, left |-> left, right |-> right]

\* A redraw puts the handles over the window, each of them held at its own end of the strip.
placeZoomHandles(w) ==
    [window |-> w, left |-> Greater(Extent[1], xAxisRange(w)[1]), right |-> Lesser(Extent[2], xAxisRange(w)[2])]

\* One pixel does not make a zoom.
isZoomed(v) == v.left - Pixel > Extent[1] \/ v.right + Pixel < Extent[2]

\* The redraws of doZoom and doPan leave the handles (isChangingRange_).
doZoom(v) == [v EXCEPT !.window = IF isZoomed(v) THEN <<v.left, v.right>> ELSE <<>>]
doPan(v) == [v EXCEPT !.window = <<v.left, v.right>>]

(* Mutant: nothing keeps the handles apart. *)
Bug_MovedHandle(v, d) ==
    IF handle = "left" THEN [v EXCEPT !.left = Greater(@ + d, Extent[1])]
    ELSE [v EXCEPT !.right = Lesser(@ + d, Extent[2])]

\* A handle stays its width away from the other one, and then in the strip; a right
\* handle rather keeps its distance.
MovedHandle(v, d) ==
    IF handle = "left" THEN [v EXCEPT !.left = Greater(Lesser(@ + d, v.right - Apart), Extent[1])]
    ELSE [v EXCEPT !.right = Greater(Lesser(@ + d, Extent[2]), v.left + Apart)]

(* Mutant: each handle is held in the strip for itself. *)
Bug_MovedBoth(v, d) == [v EXCEPT !.left = Greater(Extent[1], @ + d), !.right = Lesser(Extent[2], @ + d)]

\* Both handles move, as far as the strip goes.
MovedBoth(v, d) ==
    LET size == v.right - v.left
        l == IF v.left + d <= Extent[1] THEN Extent[1]
             ELSE IF v.right + d >= Extent[2] THEN Extent[2] - size
             ELSE v.left + d
    IN  [v EXCEPT !.left = l, !.right = l + size]

onZoom(v, d) == LET m == MovedHandle(v, d) IN IF dynamic THEN doZoom(m) ELSE m
onPan(v, d) == LET m == MovedBoth(v, d) IN IF dynamic THEN doPan(m) ELSE m

movePan(x) == placeZoomHandles(panDates(context.pan, x - context.dragStartX, TRUE))

Shows(v) == dateWindow' = v.window /\ left' = v.left /\ right' = v.right

-----------------------------------------------------------------------------
(* The pointer, a mouse or one finger. *)

press == ~ pressed /\ presses > 0 /\ pressed' = TRUE /\ presses' = presses - 1 /\ UNCHANGED room

onZoomStart(h, x) ==
    /\ press
    /\ handle' = h
    /\ clientXLast' = x
    /\ cover
    /\ UNCHANGED <<dynamic, dateWindow, left, right, isPanning, context>>

\* The part between the handles, when it is less than all.
isMouseInPanZone(x) ==
    LET at == Extent[1] + (x - Area.x) * Pixel IN left < at /\ at < right

onPanStart(x) ==
    /\ press
    /\ ~ isPanning /\ isMouseInPanZone(x) /\ isZoomed(View)
    /\ isPanning' = TRUE
    /\ clientXLast' = x
    /\ UNCHANGED <<dynamic, dateWindow, left, right, handle, context, tarps>>

\* Over the chart: initializeMouseDown and startPan.
mousedown(x) ==
    /\ press
    /\ context' = [isPanning |-> TRUE, dragStartX |-> x, pan |-> startPanDates(dateWindow)]
    /\ cover
    /\ UNCHANGED <<dynamic, dateWindow, left, right, handle, isPanning, clientXLast>>

\* The chart hears of a move over itself, the handlers of the selector of every one;
\* less than four pixels do not count for them.  clientXLast belongs to both of them, so
\* when a drag of each is under way only the first to hear of a move sees it.
mousemove(x, overChart) ==
    LET v == IF overChart /\ context.isPanning THEN movePan(x) ELSE View
        d == (x - clientXLast) * Pixel
        counts == Away(x, clientXLast) >= 4
    IN  /\ context.isPanning \/ isPanning \/ handle # "none"
        /\ clientXLast' = IF counts /\ (isPanning \/ handle # "none") THEN x ELSE clientXLast
        /\ \/ counts /\ handle # "none" /\ Shows(onZoom(v, d))
           \/ counts /\ isPanning /\ Shows(onPan(v, d))
           \/ (~ counts \/ (handle = "none" /\ ~ isPanning)) /\ Shows(v)
        /\ UNCHANGED <<dynamic, handle, isPanning, context, tarps, pressed, presses, room>>

(* Mutant: a mobile device that has moved the handles does not zoom at the end. *)
Bug_Ended(v) == {v}

\* What the chart may show after onZoomEnd and onPanEnd; of two drags the one that began later tells.
Ended(v) ==
    IF dynamic \/ (handle = "none" /\ ~ isPanning) THEN {v}
    ELSE {w \in {doZoom(v), doPan(v)} : (handle # "none" /\ w = doZoom(v)) \/ (isPanning /\ w = doPan(v))}

\* mouseup on the document: onZoomEnd, onPanEnd, and destroy of the context; a cancelled touch does the same.
mouseup ==
    /\ pressed
    /\ pressed' = FALSE
    /\ \E v \in Ended(View) : Shows(v)
    /\ handle' = "none"
    /\ isPanning' = FALSE
    /\ context' = [context EXCEPT !.isPanning = FALSE]
    /\ uncover
    /\ UNCHANGED <<dynamic, clientXLast, presses, room>>

mouseupUnheard ==
    /\ pressed
    /\ pressed' = FALSE
    /\ UNCHANGED <<dynamic, dateWindow, left, right, drag, clientXLast, presses, room>>

\* The page sets another window ...
updateOptions(w) ==
    /\ Shows(placeZoomHandles(w))
    /\ room' = Lesser(room, right' - left')
    /\ UNCHANGED <<dynamic, drag, clientXLast, pressed, presses>>

\* ... or something else that draws the chart again.
drawGraph ==
    /\ Shows(placeZoomHandles(dateWindow))
    /\ UNCHANGED <<dynamic, drag, clientXLast, pressed, presses, room>>

Next ==
    \/ \E h \in {"left", "right"}, x \in Xs : onZoomStart(h, x)
    \/ \E x \in Xs : onPanStart(x)
    \/ \E x \in Xs : mousedown(x)
    \/ \E x \in Xs, overChart \in BOOLEAN : mousemove(x, overChart)
    \/ mouseup
    \/ mouseupUnheard
    \/ \E w \in Windows : updateOptions(w)
    \/ drawGraph

Spec == Init /\ [][Next]_vars

-----------------------------------------------------------------------------
(* Properties. *)

\* onZoom, onPan, movePan: however the handles and the chart are dragged, together or
\* after one another, with lost events or redraws between, the left handle stays to the
\* left of the right one, as long as the page sets no window beside the data; and both
\* stay in the strip and their distance apart, as long as it sets none that leaves less.
\* (Of a window beside the data each handle is put at its own end of it, past the other.)
HandlesInOrder ==
    /\ room > 0 => left < right
    /\ room >= Apart => Extent[1] <= left /\ right <= Extent[2] /\ right - left >= Apart

\* doZoom, doPan, placeZoomHandles_: the handles stand where the window of the chart
\* ends, to the pixel that makes no zoom; on a mobile device, whose chart waits for the
\* end of a drag, when no drag is under way.
HandlesMatchWindow ==
    dynamic \/ (handle = "none" /\ ~ isPanning) =>
        IF dateWindow = <<>> THEN left - Pixel <= Extent[1] /\ right + Pixel >= Extent[2]
        ELSE Greater(dateWindow[1], Extent[1]) = Greater(left, Extent[1])
             /\ Lesser(dateWindow[2], Extent[2]) = Lesser(right, Extent[2])

\* onPan, movePan: a pan never changes how much is shown, nor leaves the data, unless
\* more than the data was shown: a pan over the chart shows as much as was shown when it
\* began, whatever handles, redraws and the page have done since; one of the selector as
\* much as lies between the handles.  (While both are under way, the chart is panned first.)
PanKeepsTheSize ==
    [][handle = "none" /\ dateWindow' # dateWindow /\ (\E x \in Xs, overChart \in BOOLEAN : mousemove(x, overChart)) =>
          /\ Size(dateWindow') \in
                (IF context.isPanning THEN {context.pan.dateRange, Lesser(context.pan.dateRange, Size(Extent))} ELSE {})
                \cup (IF isPanning THEN {right - left} ELSE {})
          /\ Size(dateWindow') \in 0 .. Size(Extent) => Within(dateWindow', Extent)]_vars
=============================================================================

--------------------------- MODULE MCChartGesture ---------------------------
(* A plot with margins; places over it, beside it, near the chart and far away. *)
EXTENDS ChartGesture

MCArea == [x |-> 10, y |-> 0, w |-> 60, h |-> 60]
MCCanvas == [w |-> 75, h |-> 80]
MCExtent == <<0, 12000>>
\* The late data lie close together: a zoom to them shows values above those of the whole.
MCValues == {<<200, 9800>>, <<8100, 9900>>}
MCFits(r, w) == IF w[1] > 6000 THEN r = <<8100, 9900>> ELSE r = <<200, 9800>>
MCPoints == {<<2, 30>>, <<40, 30>>, <<44, 5>>, <<-150, 20>>}
MCButtons == {"left", "right"}
=============================================================================

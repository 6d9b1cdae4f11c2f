-------------------------- MODULE MCChartSelector --------------------------
(* A strip of thirty pixels, handles of five; windows inside the data, wide and narrow,    *)
(* partly beside them, and beside them.                                                    *)
EXTENDS ChartSelector

MCArea == [x |-> 10, y |-> 0, w |-> 30, h |-> 20]
MCExtent == <<0, 900>>
MCXs == {6, 12, 20, 22, 31, 44}
MCWindows == {<<300, 600>>, <<840, 900>>, <<600, 1200>>, <<-300, -30>>}
=============================================================================

---------------------------- MODULE MCChartPaint ----------------------------
(* Single lines with every kind of gap, two stacked series, a dense one, bars. *)
EXTENDS ChartPaint

Chart == [series |-> {1}, step |-> {}, connect |-> FALSE, gapPoints |-> FALSE, drawPoints |-> FALSE, fill |-> "off",
          filled |-> FALSE, bar |-> Null, low |-> 0, values |-> {Null, NaN, 1, 3}, rows |-> 4,
          steps |-> {1, 4}]

Lone == {[Chart EXCEPT !.step = s, !.connect = c, !.gapPoints = g] : s \in {{}, {1}}, c \in BOOLEAN, g \in BOOLEAN}
Bars == {[Chart EXCEPT !.step = s, !.connect = c, !.bar = 1] : s \in {{}, {1}}, c \in BOOLEAN}
Areas == {[Chart EXCEPT !.step = s, !.connect = c, !.filled = TRUE] : s \in {{}, {1}}, c \in BOOLEAN}
         \cup {[Chart EXCEPT !.filled = TRUE, !.low = l] : l \in {-1, 2}}
Stacked == [Chart EXCEPT !.series = {1, 2}, !.filled = TRUE, !.rows = 3]
Stacks == {[Stacked EXCEPT !.fill = f] : f \in {"none", "inside", "all"}}
          \cup {[Stacked EXCEPT !.step = s, !.fill = "all", !.values = {0, 1, 3}] : s \in {{1}, {2}, {1, 2}}}
Minis == {[Chart EXCEPT !.step = s, !.values = {Null, -3, -2, 2}, !.low = -3] : s \in {{}, {1}}}
Dense == {[Chart EXCEPT !.filled = TRUE, !.values = {NaN, 0, 2, 4}, !.rows = 5, !.steps = {0, 1, 4}]}

MCCharts == Lone \cup Bars \cup Areas \cup Stacks \cup Minis \cup Dense
MCColumns == 1..2
=============================================================================

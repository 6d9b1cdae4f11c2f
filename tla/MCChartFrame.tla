---------------------------- MODULE MCChartFrame ----------------------------
(* A year of Central Europe, whose clock is put forward on the last Sunday of March and *)
(* back on the last one of October, with windows around the two and from hours to years *)
(* wide; pages from too small to wide.                                                  *)
EXTENDS ChartFrame

MCMonthStart == [m \in 0..12 |-> Day * <<0, 31, 59, 90, 120, 151, 181, 212, 243, 273, 304, 334, 365>>[m + 1]]
MCFirstWeekday == 4     \* 2026
Spring == 87 * Day + 60
Autumn == 297 * Day + 60
MCShifts == {[at |-> -10 * Day, offset |-> 60], [at |-> Spring, offset |-> 120], [at |-> Autumn, offset |-> 60]}

Around(t, before, after) == <<t - before, t + after>>
MCWindows ==
    {Around(Autumn, 85, 400), Around(Autumn, -30, 80), Around(Spring, 700, 800),
     Around(Spring, 5 * Day, 5 * Day + 77), Around(Spring, 40 * Day, 120 * Day)}

MCRanges == {<<-7, 93>>, <<-1000, 0>>}
MCSizes == {[w |-> 480, h |-> 320], [w |-> 480, h |-> 130], [w |-> 170, h |-> 320]}

Plain == [title |-> FALSE, xlabel |-> FALSE, drawX |-> TRUE, drawY |-> TRUE, second |-> FALSE, selector |-> FALSE,
          kmg2 |-> FALSE, atZero |-> FALSE]
MCOptions == {[Plain EXCEPT !.title = TRUE, !.xlabel = TRUE, !.second = TRUE],
              [Plain EXCEPT !.title = TRUE, !.xlabel = TRUE, !.second = TRUE, !.kmg2 = TRUE, !.atZero = TRUE],
              [Plain EXCEPT !.selector = TRUE, !.drawX = FALSE, !.xlabel = TRUE],
              [Plain EXCEPT !.drawY = FALSE, !.selector = TRUE]}
=============================================================================

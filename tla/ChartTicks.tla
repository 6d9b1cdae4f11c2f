----------------------------- MODULE ChartTicks -----------------------------
(***************************************************************************)
(* Where the marks of the axes go: numericTicks for values, dateTicker for *)
(* times on the local clock, which skips an hour in spring and repeats one *)
(* in autumn.  src/server/static/dygraph.js.                               *)
(*                                                                         *)
(* A time is a number of minutes of UTC from a first of January on; the    *)
(* granularities below a minute, which have the form of those in minutes,  *)
(* and those above half a year are left out.  A value is a whole number,   *)
(* so small that the marks come to lie on whole numbers.                   *)
(***************************************************************************)
EXTENDS Integers, FiniteSets, TLC, Sequences, SequencesExt, FiniteSetsExt

CONSTANTS
    MonthStart,     \* local times at which the months of the year begin, and the next year
    FirstWeekday,   \* the day of the week of its first day, 0 for Sunday
    Shifts          \* the local clock: [at, offset], one of them from before the year on

ASSUME TicksAssumption ==
    /\ MonthStart \in [0..12 -> Int] /\ \A m, n \in 0..12 : m < n => MonthStart[m] < MonthStart[n]
    /\ FirstWeekday \in Int
    /\ Shifts \subseteq [at : Int, offset : Int] /\ IsFiniteSet(Shifts) /\ Shifts # {}

-----------------------------------------------------------------------------
(* The local clock, and Date of JavaScript. *)
Offset(t) == (CHOOSE s \in Shifts : s.at <= t /\ \A r \in Shifts : r.at <= t => r.at <= s.at).offset
Local(t)  == t + Offset(t)

\* new Date(y, m, ...): the earlier of two times, and for a skipped one the clock is not yet put forward.
makeDate(l) == LET times == {l - s.offset : s \in Shifts}
                   real  == {t \in times : Local(t) = l}
               IN  IF real # {} THEN Min(real) ELSE Max(times)

Day == 1440

\* A clock as most are: changes are at different times, at the full hour and by an hour,
\* and leave no midnight out; months begin at midnight and have four weeks; and the first
\* entry of Shifts is a week before the year, whatever the clock shows.
ASSUME ClockAssumption ==
    /\ \A r, s \in Shifts :
          /\ r.at = s.at => r = s
          /\ s.offset - r.offset \in {-60, 0, 60}
          /\ (s.at + s.offset) % 60 = 0
          /\ r.offset < s.offset => (s.at + s.offset) % Day # 60
    /\ \E s \in Shifts : \A r \in Shifts : s.at + r.offset <= MonthStart[0] - 7 * Day
    /\ \A m, n \in 0..12 : /\ MonthStart[m] % Day = 0
                           /\ m < n => MonthStart[n] - MonthStart[m] >= 28 * Day * (n - m)

Month(l) == Max({m \in DOMAIN MonthStart : MonthStart[m] <= l})
DayOfMonth(l) == (l - MonthStart[Month(l)]) \div Day + 1
Weekday(l) == (l \div Day + FirstWeekday) % 7
Hour(l)    == (l % Day) \div 60

-----------------------------------------------------------------------------
(* Times. *)

\* TICK_PLACEMENT, from MINUTELY (12) to BIANNUAL (25).
Placement(field, step, spacing) == [field |-> field, step |-> step, spacing |-> spacing]
TICK_PLACEMENT == [g \in 12..25 |->
    << Placement("MM", 1, 1),   Placement("MM", 2, 2),    Placement("MM", 5, 5),
       Placement("MM", 10, 10), Placement("MM", 30, 30),  Placement("HH", 1, 60),
       Placement("HH", 2, 120), Placement("HH", 6, 360),  Placement("D", 1, Day),
       Placement("D", 2, 2 * Day), Placement("D", 7, 7 * Day),
       Placement("M", 1, 43830), Placement("M", 3, 131490), Placement("M", 6, 262980) >>[g - 11]]
HOURLY == 17
DAILY  == 20
WEEKLY == 22

numDateTicks(a, b, g) == LET s == TICK_PLACEMENT[g].spacing IN (2 * (b - a) + s) \div (2 * s)

\* The finest granularity whose marks are far enough apart; none on a chart without width.
pickDateTickGranularity(a, b, pixels, perLabel) ==
    LET fits == {g \in DOMAIN TICK_PLACEMENT : pixels > 0 /\ pixels >= perLabel * numDateTicks(a, b, g)}
    IN  IF fits = {} THEN -1 ELSE Min(fits)

\* The nice local time at or before l: a multiple of the step, counted in its field.
NiceBefore(l, g) ==
    LET p == TICK_PLACEMENT[g]
        midnight == l - (l % Day)
    IN  CASE p.field = "MM" -> l - ((l % 60) % p.step)
          [] p.field = "HH" -> midnight + 60 * (Hour(l) - (Hour(l) % p.step))
          [] p.field = "D"  -> midnight - Day * (IF g = WEEKLY THEN Weekday(l) ELSE DayOfMonth(l) % p.step)
          [] p.field = "M"  -> MonthStart[Month(l) - (Month(l) % p.step)]

\* date_array[datefield] += step, k times.
Onwards(l, g, k) == LET p == TICK_PLACEMENT[g] IN
                    CASE p.field = "HH" -> l + 60 * p.step * k
                      [] p.field = "D"  -> l + Day * p.step * k
                      [] p.field = "M"  -> LET m == Month(l) + p.step * k IN
                                           IF m \in DOMAIN MonthStart THEN MonthStart[m] ELSE Max(Range(MonthStart)) + k

(* Mutant: hours are counted in minutes, as they were before clocks were put forward. *)
Bug_getDateAxis(a, b, g) ==
    LET p  == TICK_PLACEMENT[g]
        t0 == makeDate(NiceBefore(Local(a), g))
        ks == IF t0 < a THEN 1 ELSE 0
    IN  [i \in 1..(b - t0) \div p.spacing + 1 - ks |-> t0 + (i - 1 + ks) * p.spacing]

\* Up to the hour, marks are a fixed time apart; above, a field of the local date is
\* counted on, and an hour that is not one of the step's (it was skipped) gets no mark.
\* A mark is kept under its number of steps.
getDateAxis(a, b, g) ==
    LET p     == TICK_PLACEMENT[g]
        nice  == NiceBefore(Local(a), g)
        fixed == g <= HOURLY
        at(k) == IF fixed THEN makeDate(nice) + k * p.spacing ELSE makeDate(Onwards(nice, g, k))
        from  == IF at(0) < a THEN 1 ELSE 0
        most  == (b - at(0)) \div (IF p.field = "M" THEN 28 * Day ELSE IF p.field = "D" THEN 23 * 60 ELSE p.spacing \div 2 + 1) + 1
        shown(k) == /\ at(k) <= b
                    /\ fixed \/ g >= DAILY \/ Hour(Local(at(k))) % p.step = 0
    IN  [k \in {n \in from..most : shown(n)} |-> at(k)]

dateTicker(a, b, pixels, perLabel) ==
    LET g == pickDateTickGranularity(a, b, pixels, perLabel) IN IF g >= 0 THEN getDateAxis(a, b, g) ELSE <<>>

-----------------------------------------------------------------------------
(* Values. *)
CeilDiv(n, d) == - ((- n) \div d)

\* Ranges are no longer than the powers below reach.
MaxSpan == 1000000

\* The largest power of the base that gives no more marks than there is room for; where
\* it is just reached, the quotient of the logarithms may fall short of the exponent.
BaseScales(a, b, pixels, perLabel, base) ==
    LET room   == CeilDiv(pixels, perLabel)
        square == base * base
        powers == {1, base, square, square * base, square * square, square * square * base}
        top    == Max({p \in powers : p = 1 \/ p * room <= b - a})
    IN  {top} \cup IF top * room = b - a /\ top > 1 THEN {top \div base} ELSE {}

Mults(kmg2) == IF kmg2 THEN <<1, 2, 4, 8, 16, 32, 64, 128, 256>> ELSE <<1, 2, 5, 10, 20, 50, 100>>

\* The first nice distance that leaves the marks far enough apart, and the marks from
\* the last one below the axis' range to the first one above.
numericTicks(a, b, pixels, perLabel, kmg2, baseScale) ==
    LET low(s)  == a \div s
        high(s) == CeilDiv(b, s)
        far     == {j \in DOMAIN Mults(kmg2) :
                        LET s == baseScale * Mults(kmg2)[j] IN pixels > perLabel * (high(s) - low(s))}
        scale   == baseScale * Mults(kmg2)[IF far = {} THEN Len(Mults(kmg2)) ELSE Min(far)]
    IN  IF pixels <= 0 THEN <<>>
        ELSE [i \in 1..high(scale) - low(scale) + 1 |-> scale * (low(scale) + i - 1)]
=============================================================================

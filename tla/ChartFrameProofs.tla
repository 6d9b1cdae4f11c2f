---------------------------- MODULE ChartFrameProofs ----------------------------
(* Theorems about ChartFrame: what is on the page is always the drawing of the size, the options, the window and   *)
(* the marks of now; of every such drawing the boxes of the plugins and the plot area tile the page, and labels,   *)
(* grid, axes and the range selector's canvas lie where they belong; and the marks are the right ones: the times   *)
(* marked are just the nice times of their granularity in the window, though the clock skips an hour or repeats    *)
(* one, and the values marked reach over the range, far enough apart for their labels.  They hold for all sizes,   *)
(* options, windows, ranges of values, clocks and calendars that the three assumptions allow (TicksAssumption and  *)
(* ClockAssumption in ChartTicks, FrameAssumption in ChartFrame).                                                  *)
EXTENDS ChartFrame, FiniteSetTheorems, WellFoundedInduction, TLAPS

---------------------------------------------------------------------------------
(* Finite sets of numbers have extremes. *)

(* Of a finite set of things one has the least measure: the set of those that measure no more is the  *)
(* smallest.                                                                                          *)
LEMMA LeastAt ==
    ASSUME NEW S, IsFiniteSet(S), S # {}, NEW f \in [S -> Int]
    PROVE  \E m \in S : \A k \in S : f[m] <= f[k]
<1> DEFINE upTo(s) == {k \in S : f[k] <= f[s]}
           Ups == {upTo(s) : s \in S}
           R == StrictSubsetOrdering(S)
<1>1. \A s \in S : upTo(s) \in SUBSET S /\ IsFiniteSet(upTo(s))
  BY FS_Subset
<1>2. Ups \subseteq FiniteSubsetsOf(S) /\ Ups # {}
  <2>1. \A s \in S : upTo(s) \in FiniteSubsetsOf(S)
    <3> HIDE DEF upTo
    <3> QED
      BY <1>1 DEF FiniteSubsetsOf
  <2> HIDE DEF upTo
  <2> QED
    BY <2>1
<1>3. IsWellFoundedOn(R, FiniteSubsetsOf(S))
  BY FS_StrictSubsetOrderingWellFounded
<1>4. PICK u \in Ups : \A v \in Ups : ~ (<<v, u>> \in R)
  <2> HIDE DEF Ups, R
  <2> QED
    BY <1>2, <1>3, WFMin
<1>5. PICK m \in S : u = upTo(m)
  OBVIOUS
<1>6. ASSUME NEW k \in S, f[k] < f[m] PROVE FALSE
  <2>1. upTo(k) \subseteq upTo(m) /\ m \in upTo(m) /\ ~ m \in upTo(k)
    BY <1>6
  <2>2. <<upTo(k), upTo(m)>> \in R
    BY <1>1, <2>1 DEF StrictSubsetOrdering
  <2>3. upTo(k) \in Ups
    OBVIOUS
  <2> QED
    BY <1>4, <1>5, <2>2, <2>3
<1> QED
  BY <1>6

(* Likewise the greatest. *)
LEMMA GreatestAt ==
    ASSUME NEW S, IsFiniteSet(S), S # {}, NEW f \in [S -> Int]
    PROVE  \E m \in S : \A k \in S : f[k] <= f[m]
<1> DEFINE g == [s \in S |-> - f[s]]
<1>1. g \in [S -> Int]
  OBVIOUS
<1>2. PICK m \in S : \A k \in S : g[m] <= g[k]
  <2> HIDE DEF g
  <2> QED
    BY <1>1, LeastAt
<1>3. \A k \in S : f[k] <= f[m]
  <2> SUFFICES ASSUME NEW k \in S PROVE f[k] <= f[m]
    OBVIOUS
  <2>1. - f[m] <= - f[k] /\ f[m] \in Int /\ f[k] \in Int
    BY <1>2
  <2> QED
    BY <2>1
<1> QED
  BY <1>3

(* The least and the greatest of the measures of finitely many things. *)
LEMMA MinMeasure ==
    ASSUME NEW S, IsFiniteSet(S), S # {}, NEW f \in [S -> Int], NEW T, T = {f[s] : s \in S}
    PROVE  Min(T) \in T /\ Max(T) \in T
<1>1. PICK m \in S : \A k \in S : f[m] <= f[k]
  BY LeastAt
<1>2. PICK n \in S : \A k \in S : f[k] <= f[n]
  BY GreatestAt
<1>3. f[m] \in T /\ \A t \in T : f[m] <= t
  BY <1>1
<1>4. f[n] \in T /\ \A t \in T : f[n] >= t
  <2> SUFFICES ASSUME NEW k \in S PROVE f[n] >= f[k]
    OBVIOUS
  <2> QED
    BY <1>2
<1> QED
  BY <1>3, <1>4 DEF Min, Max

(* The least member of a finite set of numbers is a number of it. *)
LEMMA MinOf ==
    ASSUME NEW T \in SUBSET Int, IsFiniteSet(T), T # {}
    PROVE  Min(T) \in T /\ Max(T) \in T
<1> DEFINE f == [t \in T |-> t]
<1>1. f \in [T -> Int] /\ T = {f[s] : s \in T}
  OBVIOUS
<1> HIDE DEF f
<1> QED
  BY <1>1, MinMeasure
---------------------------------------------------------------------------------
(* Times: local clocks, dates and months. *)

(* The clock on the wall shows a time, after the first of the shifts. *)
LEMMA ClockIsRight ==
    ASSUME NEW t \in Int, NEW r \in Shifts, r.at <= t
    PROVE  Local(t) \in Int
<1> DEFINE S == {s \in Shifts : s.at <= t}
           f == [s \in S |-> s.at]
<1>1. IsFiniteSet(S) /\ S # {} /\ f \in [S -> Int]
  BY TicksAssumption, FS_Subset
<1>2. PICK m \in S : \A k \in S : f[k] <= f[m]
  <2> HIDE DEF f, S
  <2> QED
    BY <1>1, GreatestAt
<1>3. m \in Shifts /\ m.at <= t /\ \A s \in Shifts : s.at <= t => s.at <= m.at
  BY <1>2
<1>4. PICK c : c = (CHOOSE s \in Shifts : s.at <= t /\ \A q \in Shifts : q.at <= t => q.at <= s.at)
  OBVIOUS
<1>5. c \in Shifts
  BY <1>3, <1>4
<1>6. c.offset \in Int
  BY <1>5, TicksAssumption
<1> QED
  BY <1>4, <1>6 DEF Local, Offset

(* A date of the local calendar is a time, whether a shift repeats it or leaves it out. *)
LEMMA DatesAreTimes ==
    ASSUME NEW l \in Int
    PROVE  makeDate(l) \in Int
<1> DEFINE f == [s \in Shifts |-> l - s.offset]
           times == {l - s.offset : s \in Shifts}
           real == {t \in times : Local(t) = l}
           S == {s \in Shifts : Local(l - s.offset) = l}
           h == [s \in S |-> l - s.offset]
<1>1. \A s \in Shifts : s.offset \in Int
  BY TicksAssumption
<1>2. f \in [Shifts -> Int] /\ times = {f[s] : s \in Shifts} /\ IsFiniteSet(Shifts) /\ Shifts # {}
  BY <1>1, TicksAssumption
<1>3. Max(times) \in times
  <2> HIDE DEF f, times
  <2> QED
    BY <1>2, MinMeasure
<1>4. times \subseteq Int
  BY <1>1
<1>5. ASSUME real # {} PROVE Min(real) \in real
  <2>1. h \in [S -> Int] /\ real = {h[s] : s \in S}
    BY <1>1
  <2>2. S # {}
    BY <1>5
  <2>3. IsFiniteSet(S)
    BY <1>2, FS_Subset
  <2> HIDE DEF h, S, real
  <2> QED
    BY <2>1, <2>2, <2>3, MinMeasure
<1>6. makeDate(l) = IF real # {} THEN Min(real) ELSE Max(times)
  BY Zenon DEF makeDate
<1>7. real \subseteq Int
  BY <1>4
<1> HIDE DEF real, times
<1> QED
  BY <1>3, <1>4, <1>5, <1>6, <1>7

(* There are finitely many starts of months. *)
LEMMA MonthsAreFinite == IsFiniteSet(0..12)
<1>1. PICK a \in Int, b \in Int : a = 0 /\ b = 12
  OBVIOUS
<1>2. IsFiniteSet(a..b)
  BY FS_Interval
<1> QED
  BY <1>1, <1>2

(* The starts of months are numbers, four weeks apart and at midnight. *)
LEMMA StartsOfMonths ==
    ASSUME NEW m \in 0..12
    PROVE  /\ MonthStart[m] \in Int /\ MonthStart[m] % Day = 0
           /\ \A n \in 0..12 : m < n => MonthStart[n] - MonthStart[m] >= 40320 * (n - m)
<1>1. MonthStart[m] \in Int /\ MonthStart[m] % Day = 0
  BY TicksAssumption, ClockAssumption
<1>2. ASSUME NEW n \in 0..12, m < n PROVE MonthStart[n] - MonthStart[m] >= 40320 * (n - m)
  <2>1. MonthStart[n] - MonthStart[m] >= 28 * Day * (n - m)
    BY <1>2, ClockAssumption
  <2>2. 28 * Day = 40320
    BY DEF Day
  <2> QED
    BY <2>1, <2>2
<1> QED
  BY <1>1, <1>2

(* A local time after the first start of a month lies in the last of those that have begun. *)
LEMMA MonthIs ==
    ASSUME NEW l \in Int, MonthStart[0] <= l
    PROVE  /\ Month(l) \in 0..12 /\ MonthStart[Month(l)] <= l
           /\ \A m \in 0..12 : MonthStart[m] <= l => m <= Month(l)
<1> DEFINE T == {m \in 0..12 : MonthStart[m] <= l}
           f == [m \in T |-> m]
<1>1. DOMAIN MonthStart = 0..12
  BY TicksAssumption
<1>2. IsFiniteSet(T) /\ T # {} /\ f \in [T -> Int]
  <2>1. IsFiniteSet(0..12)
    BY MonthsAreFinite
  <2> QED
    BY <2>1, FS_Subset
<1>3. PICK x \in T : \A m \in T : f[m] <= f[x]
  <2> HIDE DEF T, f
  <2> QED
    BY <1>2, GreatestAt
<1>4. \A m \in T : m <= x
  BY <1>3
<1>5. Month(l) = Max(T)
  BY <1>1 DEF Month
<1>6. Max(T) = x
  <2>1. x \in T /\ \A m \in T : m \in Int /\ m <= x
    BY <1>4
  <2> HIDE DEF T, f
  <2> QED
    BY <2>1 DEF Max
<1> QED
  BY <1>4, <1>5, <1>6

(* The last of the starts of months is that of the next year. *)
LEMMA LastStart == Max(Range(MonthStart)) = MonthStart[12]
<1>1. PICK z \in 0..12 : z = 12
  OBVIOUS
<1>2. PICK T : T = Range(MonthStart)
  OBVIOUS
<1>3. T = {MonthStart[m] : m \in 0..12}
  BY <1>2, TicksAssumption DEF Range
<1>4. MonthStart[z] \in T
  BY <1>3
<1>5. ASSUME NEW t \in T PROVE t \in Int /\ MonthStart[z] \in Int /\ t <= MonthStart[z]
  <2>1. PICK m \in 0..12 : t = MonthStart[m]
    BY <1>3
  <2>2. m = z \/ m < z
    BY <1>1
  <2> QED
    BY <2>1, <2>2, StartsOfMonths
<1>6. Max(T) = MonthStart[z]
  BY <1>4, <1>5 DEF Max
<1> QED
  BY <1>1, <1>2, <1>6

(* Each granularity has a step and a spacing. *)
LEMMA Placements ==
    ASSUME NEW g \in 12..25
    PROVE  /\ TICK_PLACEMENT[g].step \in Nat \ {0} /\ TICK_PLACEMENT[g].spacing \in Nat \ {0}
           /\ TICK_PLACEMENT[g].field \in {"MM", "HH", "D", "M"}
<1>1. \/ g = 12 \/ g = 13 \/ g = 14 \/ g = 15 \/ g = 16 \/ g = 17 \/ g = 18
      \/ g = 19 \/ g = 20 \/ g = 21 \/ g = 22 \/ g = 23 \/ g = 24 \/ g = 25
  OBVIOUS
<1> QED
  BY <1>1 DEF TICK_PLACEMENT, Placement, Day
---------------------------------------------------------------------------------
(* The marks of a date axis are times. *)

(* The nice date getDateAxis starts from is a local time, and no earlier than the first month. *)
LEMMA NiceIsTime ==
    ASSUME NEW l \in Int, MonthStart[0] <= l, NEW g \in 12..25
    PROVE  /\ NiceBefore(l, g) \in Int
           /\ TICK_PLACEMENT[g].field = "M" => MonthStart[0] <= NiceBefore(l, g)
<1> DEFINE p == TICK_PLACEMENT[g]
           midnight == l - (l % Day)
<1>1. p.step \in Nat \ {0} /\ p.field \in {"MM", "HH", "D", "M"}
  BY Placements
<1>2. midnight \in Int /\ l % 60 \in Int /\ Hour(l) \in Int
  BY DEF Day, Hour
<1>3. Weekday(l) \in Int
  BY TicksAssumption DEF Weekday, Day
<1>4. Month(l) \in 0..12
  BY MonthIs
<1>5. \A m \in 0..12 : MonthStart[m] \in Int /\ MonthStart[0] <= MonthStart[m]
  <2> SUFFICES ASSUME NEW m \in 0..12 PROVE MonthStart[m] \in Int /\ MonthStart[0] <= MonthStart[m]
    OBVIOUS
  <2>1. MonthStart[m] \in Int /\ MonthStart[0] \in Int
    BY TicksAssumption
  <2>2. m = 0 \/ MonthStart[0] < MonthStart[m]
    BY TicksAssumption
  <2> QED
    BY <2>1, <2>2
<1>6. DayOfMonth(l) \in Int
  BY <1>4, <1>5 DEF DayOfMonth, Day
<1>7. CASE p.field = "MM"
  <2>1. NiceBefore(l, g) = l - ((l % 60) % p.step)
    BY <1>7 DEF NiceBefore
  <2> HIDE DEF p
  <2>2. (l % 60) % p.step \in Int
    BY <1>1, <1>2
  <2>3. p.field # "M"
    BY <1>7
  <2> QED
    BY <2>1, <2>2, <2>3 DEF p
<1>8. CASE p.field = "HH"
  <2>1. NiceBefore(l, g) = midnight + 60 * (Hour(l) - (Hour(l) % p.step))
    BY <1>8 DEF NiceBefore
  <2> HIDE DEF p, midnight
  <2>2. Hour(l) % p.step \in Int
    BY <1>1, <1>2
  <2>3. p.field # "M"
    BY <1>8
  <2> QED
    BY <1>2, <2>1, <2>2, <2>3 DEF p
<1>9. CASE p.field = "D"
  <2> DEFINE n == IF g = WEEKLY THEN Weekday(l) ELSE DayOfMonth(l) % p.step
  <2>1. NiceBefore(l, g) = midnight - Day * n
    BY <1>9 DEF NiceBefore
  <2>2. n \in Int
    <3> HIDE DEF p
    <3> QED
      BY <1>1, <1>3, <1>6
  <2> HIDE DEF p, midnight, n
  <2>3. p.field # "M"
    BY <1>9
  <2> QED
    BY <1>2, <2>1, <2>2, <2>3 DEF p, Day
<1>10. CASE p.field = "M"
  <2>1. NiceBefore(l, g) = MonthStart[Month(l) - (Month(l) % p.step)]
    BY <1>10 DEF NiceBefore
  <2>2. Month(l) - (Month(l) % p.step) \in 0..12
    <3> HIDE DEF p
    <3>1. Month(l) \in Nat /\ p.step \in Nat /\ p.step > 0
      BY <1>1, <1>4
    <3>2. Month(l) % p.step \in 0..Month(l)
      <4>1. PICK m \in Nat, s \in Nat : m = Month(l) /\ s = p.step
        BY <3>1
      <4>2. m % s \in 0..s - 1 /\ (m < s => m % s = m)
        BY <3>1, <4>1
      <4> QED
        BY <3>1, <4>1, <4>2
    <3> QED
      BY <1>4, <3>2
  <2> QED
    BY <1>5, <2>1, <2>2
<1> QED
  BY <1>1, <1>7, <1>8, <1>9, <1>10

(* A number of steps onwards from a local time is a local time. *)
LEMMA OnwardsIsTime ==
    ASSUME NEW l \in Int, NEW g \in 12..25, NEW k \in Int, TICK_PLACEMENT[g].field \in {"HH", "D", "M"},
           TICK_PLACEMENT[g].field = "M" => MonthStart[0] <= l
    PROVE  Onwards(l, g, k) \in Int
<1> DEFINE p == TICK_PLACEMENT[g]
<1>1. p.step \in Int
  BY Placements
<1>2. CASE p.field = "HH"
  <2>1. Onwards(l, g, k) = l + 60 * p.step * k
    BY <1>2 DEF Onwards
  <2> HIDE DEF p
  <2> QED
    BY <1>1, <2>1
<1>3. CASE p.field = "D"
  <2>1. Onwards(l, g, k) = l + Day * p.step * k
    BY <1>3 DEF Onwards
  <2> HIDE DEF p
  <2> QED
    BY <1>1, <2>1 DEF Day
<1>4. CASE p.field = "M"
  <2> DEFINE m == Month(l) + p.step * k
  <2>1. Onwards(l, g, k) = IF m \in DOMAIN MonthStart THEN MonthStart[m] ELSE Max(Range(MonthStart)) + k
    BY <1>4 DEF Onwards
  <2> HIDE DEF m
  <2> QED
    BY <2>1, LastStart, TicksAssumption
<1> QED
  BY <1>2, <1>3, <1>4

(* Every mark of a date axis is a time. *)
LEMMA DateMarks ==
    ASSUME NEW a \in Int, NEW b \in Int, NEW g \in 12..25, NEW s \in Shifts, s.at <= a, MonthStart[0] <= Local(a)
    PROVE  \A t \in Range(getDateAxis(a, b, g)) : t \in Int
<1> DEFINE p     == TICK_PLACEMENT[g]
           nice  == NiceBefore(Local(a), g)
           fixed == g <= HOURLY
           at(k) == IF fixed THEN makeDate(nice) + k * p.spacing ELSE makeDate(Onwards(nice, g, k))
           from  == IF at(0) < a THEN 1 ELSE 0
           most  == (b - at(0)) \div (IF p.field = "M" THEN 28 * Day ELSE IF p.field = "D" THEN 23 * 60
                                      ELSE p.spacing \div 2 + 1) + 1
           shown(k) == /\ at(k) <= b
                       /\ fixed \/ g >= DAILY \/ Hour(Local(at(k))) % p.step = 0
<1>1. getDateAxis(a, b, g) = [k \in {n \in from..most : shown(n)} |-> at(k)]
  BY Zenon DEF getDateAxis
<1>2. nice \in Int /\ (p.field = "M" => MonthStart[0] <= nice)
  BY ClockIsRight, NiceIsTime
<1>3. p.spacing \in Int
  BY Placements
<1>4. fixed \/ p.field \in {"HH", "D", "M"}
  <2>1. g \in 12..17 \/ g = 18 \/ g = 19 \/ g = 20 \/ g = 21 \/ g = 22 \/ g = 23 \/ g = 24 \/ g = 25
    OBVIOUS
  <2> QED
    BY <2>1 DEF TICK_PLACEMENT, Placement, HOURLY
<1>5. ASSUME NEW k \in Int PROVE at(k) \in Int
  <2>1. CASE fixed
    <3>1. makeDate(nice) \in Int
      BY <1>2, DatesAreTimes
    <3> HIDE DEF nice, p
    <3> QED
      BY <1>3, <2>1, <3>1
  <2>2. CASE ~ fixed
    <3>1. Onwards(nice, g, k) \in Int
      BY <1>2, <1>4, <2>2, OnwardsIsTime
    <3>2. makeDate(Onwards(nice, g, k)) \in Int
      BY <3>1, DatesAreTimes
    <3> QED
      BY <2>2, <3>2
  <2> QED
    BY <2>1, <2>2
<1>6. \A k \in DOMAIN getDateAxis(a, b, g) : k \in from..most /\ getDateAxis(a, b, g)[k] = at(k)
  <2> HIDE DEF from, most, shown, at
  <2> QED
    BY <1>1
<1>7. \A k \in from..most : k \in Int
  <2> HIDE DEF from, most
  <2> QED
    OBVIOUS
<1> HIDE DEF from, most, shown, at
<1> QED
  BY <1>5, <1>6, <1>7 DEF Range

(* The finest granularity that fits is one of the placements, or there is none. *)
LEMMA GranularityIs ==
    ASSUME NEW a, NEW b, NEW pixels, NEW perLabel, NEW g, g = pickDateTickGranularity(a, b, pixels, perLabel)
    PROVE  g = -1 \/ g \in 12..25
<1> DEFINE fits == {i \in DOMAIN TICK_PLACEMENT : pixels > 0 /\ pixels >= perLabel * numDateTicks(a, b, i)}
<1>1. DOMAIN TICK_PLACEMENT = 12..25
  BY DEF TICK_PLACEMENT
<1>2. fits \in SUBSET Int /\ IsFiniteSet(fits)
  <2>1. PICK x \in Int, y \in Int : x = 12 /\ y = 25
    OBVIOUS
  <2>2. IsFiniteSet(x..y)
    BY FS_Interval
  <2>3. fits \in SUBSET (x..y)
    BY <1>1, <2>1
  <2> HIDE DEF fits
  <2>4. IsFiniteSet(fits)
    BY <2>2, <2>3, FS_Subset
  <2>5. fits \in SUBSET Int
    BY <2>3
  <2> QED
    BY <2>4, <2>5
<1>3. g = IF fits = {} THEN -1 ELSE Min(fits)
  BY Zenon DEF pickDateTickGranularity
<1>4. fits # {} => Min(fits) \in 12..25
  <2>1. fits \subseteq 12..25
    BY <1>1
  <2> HIDE DEF fits
  <2> QED
    BY <1>2, <2>1, MinOf
<1> HIDE DEF fits
<1> QED
  BY <1>3, <1>4

(* What dateTicker marks are times, however many pixels there are. *)
LEMMA TimesAreMarked ==
    ASSUME NEW a \in Int, NEW b \in Int, NEW s \in Shifts, s.at <= a, MonthStart[0] <= Local(a),
           NEW pixels, NEW perLabel
    PROVE  \A t \in Range(dateTicker(a, b, pixels, perLabel)) : t \in Int
<1> DEFINE g == pickDateTickGranularity(a, b, pixels, perLabel)
<1>1. g = -1 \/ g \in 12..25
  BY GranularityIs
<1>5. CASE g >= 0
  <2>1. g \in 12..25
    BY <1>1, <1>5
  <2>2. dateTicker(a, b, pixels, perLabel) = getDateAxis(a, b, g)
    BY <1>5 DEF dateTicker
  <2> HIDE DEF g
  <2> QED
    BY <2>1, <2>2, DateMarks
<1>6. CASE ~ g >= 0
  <2>1. dateTicker(a, b, pixels, perLabel) = << >>
    BY <1>6 DEF dateTicker
  <2> QED
    BY <2>1 DEF Range
<1> QED
  BY <1>5, <1>6
---------------------------------------------------------------------------------
(* The marks of an axis of values are numbers. *)

(* Six things are finitely many: the powers of the base of a scale are. *)
LEMMA SixAreFinite ==
    ASSUME NEW a, NEW b, NEW c, NEW d, NEW e, NEW f
    PROVE  IsFiniteSet({a, b, c, d, e, f})
<1>1. IsFiniteSet({a})
  BY FS_Singleton
<1>2. IsFiniteSet({a} \cup {b})
  BY <1>1, FS_AddElement
<1>3. IsFiniteSet({a} \cup {b} \cup {c})
  BY <1>2, FS_AddElement
<1>4. IsFiniteSet({a} \cup {b} \cup {c} \cup {d})
  BY <1>3, FS_AddElement
<1>5. IsFiniteSet({a} \cup {b} \cup {c} \cup {d} \cup {e})
  BY <1>4, FS_AddElement
<1>6. IsFiniteSet({a} \cup {b} \cup {c} \cup {d} \cup {e} \cup {f})
  BY <1>5, FS_AddElement
<1>7. {a, b, c, d, e, f} = {a} \cup {b} \cup {c} \cup {d} \cup {e} \cup {f}
  OBVIOUS
<1> QED
  BY <1>6, <1>7

(* The scale of the marks of values is a positive number. *)
LEMMA BasesArePositive ==
    ASSUME NEW a \in Int, NEW b \in Int, NEW pixels, NEW perLabel, NEW base \in {10, 16},
           NEW s \in BaseScales(a, b, pixels, perLabel, base)
    PROVE  s \in Nat \ {0}
<1> DEFINE room   == CeilDiv(pixels, perLabel)
           square == base * base
           powers == {1, base, square, square * base, square * square, square * square * base}
           those == {p \in powers : p = 1 \/ p * room <= b - a}
           top == Max(those)
<1>1. powers = {1, 10, 100, 1000, 10000, 100000} \/ powers = {1, 16, 256, 4096, 65536, 1048576}
  BY SMT
<1>2. s \in {top} \cup IF top * room = b - a /\ top > 1 THEN {top \div base} ELSE {}
  BY Zenon DEF BaseScales
<1>3. top \in those
  <2>1. IsFiniteSet(powers)
    BY SixAreFinite
  <2>2. those \in SUBSET powers /\ 1 \in those
    BY <1>1
  <2>3. powers \subseteq Int
    BY <1>1
  <2> HIDE DEF powers, those
  <2>4. IsFiniteSet(those)
    BY <2>1, <2>2, FS_Subset
  <2>5. those \in SUBSET Int /\ those # {}
    BY <2>2, <2>3
  <2> QED
    BY <2>4, <2>5, MinOf
<1>4. top \in powers
  <2> HIDE DEF powers, top
  <2> QED
    BY <1>3
<1>5. top \in Nat \ {0} /\ (top > 1 => top \div base \in Nat \ {0})
  <2>1. CASE base = 10
    <3>1. \/ top = 1 \/ top = 10 \/ top = 100 \/ top = 1000 \/ top = 10000 \/ top = 100000
      <4> HIDE DEF top
      <4> QED
        BY <1>1, <1>4, <2>1, SMT
    <3> HIDE DEF top
    <3> QED
      BY <2>1, <3>1, SMT
  <2>2. CASE base = 16
    <3>1. \/ top = 1 \/ top = 16 \/ top = 256 \/ top = 4096 \/ top = 65536 \/ top = 1048576
      <4> HIDE DEF top
      <4> QED
        BY <1>4, <2>2, SMT
    <3> HIDE DEF top
    <3> QED
      BY <2>2, <3>1, SMT
  <2> QED
    BY <2>1, <2>2
<1> HIDE DEF top
<1> QED
  BY <1>2, <1>5

(* The multiples of the scale are positive. *)
LEMMA MultsArePositive ==
    ASSUME NEW kmg2
    PROVE  /\ DOMAIN Mults(kmg2) = 1..Len(Mults(kmg2)) /\ Len(Mults(kmg2)) \in {7, 9}
           /\ \A j \in DOMAIN Mults(kmg2) : Mults(kmg2)[j] \in Nat \ {0}
<1>1. CASE kmg2
  <2>1. Mults(kmg2) = <<1, 2, 4, 8, 16, 32, 64, 128, 256>>
    BY <1>1 DEF Mults
  <2> QED
    BY <2>1
<1>2. CASE ~ kmg2
  <2>1. Mults(kmg2) = <<1, 2, 5, 10, 20, 50, 100>>
    BY <1>2 DEF Mults
  <2> QED
    BY <2>1
<1> QED
  BY <1>1, <1>2

(* What numericTicks marks are numbers: the scale is the first of the multiples that leaves room, or the *)
(* last.                                                                                                 *)
LEMMA ValuesAreMarked ==
    ASSUME NEW a \in Int, NEW b \in Int, NEW pixels, NEW perLabel, NEW kmg2, NEW base \in Nat \ {0}
    PROVE  \A v \in Range(numericTicks(a, b, pixels, perLabel, kmg2, base)) : v \in Int
<1> DEFINE low(s)  == a \div s
           high(s) == CeilDiv(b, s)
           far     == {j \in DOMAIN Mults(kmg2) :
                          LET s == base * Mults(kmg2)[j] IN pixels > perLabel * (high(s) - low(s))}
           j0 == IF far = {} THEN Len(Mults(kmg2)) ELSE Min(far)
           scale   == base * Mults(kmg2)[j0]
           first == low(scale)
           count == high(scale) - low(scale) + 1
<1>1. numericTicks(a, b, pixels, perLabel, kmg2, base)
        = IF pixels <= 0 THEN <<>> ELSE [i \in 1..high(scale) - low(scale) + 1 |-> scale * (low(scale) + i - 1)]
  BY Zenon DEF numericTicks
<1>2. j0 \in DOMAIN Mults(kmg2)
  <2>1. Len(Mults(kmg2)) \in {7, 9} /\ DOMAIN Mults(kmg2) = 1..Len(Mults(kmg2))
    <3> HIDE DEF far
    <3> QED
      BY MultsArePositive
  <2> DEFINE n == Len(Mults(kmg2))
  <2>2. n \in Nat /\ n >= 1 /\ DOMAIN Mults(kmg2) = 1..n
    <3> HIDE DEF far
    <3> QED
      BY <2>1
  <2> HIDE DEF n
  <2>3. PICK m \in Nat : m = 1
    OBVIOUS
  <2>4. IsFiniteSet(m..n)
    BY <2>2, FS_Interval
  <2>5. far \in SUBSET (m..n)
    BY <2>2, <2>3
  <2> HIDE DEF far
  <2>6. IsFiniteSet(far)
    BY <2>4, <2>5, FS_Subset
  <2>7. far # {} => Min(far) \in far
    BY <2>5, <2>6, MinOf
  <2>8. CASE far = {}
    <3>1. j0 = n /\ n \in 1..n
      BY <2>2, <2>8 DEF n
    <3> HIDE DEF j0
    <3> QED
      BY <2>2, <3>1
  <2>9. CASE far # {}
    <3>1. j0 = Min(far)
      BY <2>9
    <3> HIDE DEF j0
    <3> QED
      BY <2>2, <2>3, <2>5, <2>7, <2>9, <3>1
  <2> QED
    BY <2>8, <2>9
<1>3. Mults(kmg2)[j0] \in Nat \ {0}
  <2> HIDE DEF j0
  <2> QED
    BY <1>2, MultsArePositive
<1>4. scale \in Nat \ {0}
  <2>1. PICK m \in Nat : m = Mults(kmg2)[j0] /\ m # 0
    <3> HIDE DEF j0
    <3> QED
      BY <1>3
  <2>2. scale = base * m
    BY <2>1
  <2> HIDE DEF scale, j0, far
  <2>3. base >= 1 /\ m >= 1
    BY <2>1
  <2>4. base * m \in Nat /\ base * m # 0
    BY <2>3
  <2> QED
    BY <2>2, <2>4
<1> HIDE DEF scale
<1>5. first \in Int /\ count \in Int
  BY <1>4 DEF CeilDiv
<1>6. \A i \in DOMAIN numericTicks(a, b, pixels, perLabel, kmg2, base) :
        i \in 1..count /\ numericTicks(a, b, pixels, perLabel, kmg2, base)[i] = scale * (first + i - 1)
  <2> HIDE DEF low, high
  <2> QED
    BY <1>1
<1>7. \A i \in 1..count : scale * (first + i - 1) \in Int
  <2> HIDE DEF first, count
  <2> QED
    BY <1>4, <1>5
<1> HIDE DEF first, count
<1> QED
  BY <1>6, <1>7 DEF Range

-----------------------------------------------------------------------------
(* Pixels. *)

(* A part of a width is no wider. *)
LEMMA PartFits ==
    ASSUME NEW k \in Int, NEW n \in Nat, NEW d \in Nat, d > 0, 0 <= k, k <= d
    PROVE  (k * n) \div d \in 0..n
<1> DEFINE q == (k * n) \div d
<1>1. k * n \in Int /\ 0 <= k * n /\ k * n <= d * n
  OBVIOUS
<1>2. q \in Int /\ d * q <= k * n /\ k * n < d * q + d
  BY <1>1
<1> HIDE DEF q
<1>3. ASSUME q < 0 PROVE FALSE
  <2>1. q + 1 <= 0 /\ q + 1 \in Int
    BY <1>2, <1>3
  <2>2. d * (q + 1) <= 0
    BY <2>1
  <2>3. d * (q + 1) = d * q + d
    BY <1>2
  <2> QED
    BY <1>1, <1>2, <2>2, <2>3
<1>4. ASSUME q > n PROVE FALSE
  <2>1. n + 1 <= q
    BY <1>2, <1>4
  <2>2. d * (n + 1) <= d * q
    BY <1>2, <2>1
  <2>3. d * (n + 1) = d * n + d
    OBVIOUS
  <2> QED
    BY <1>1, <1>2, <2>2, <2>3
<1> QED
  BY <1>2, <1>3, <1>4 DEF q

(* The whole and nothing of a width are exact. *)
LEMMA WholeFits ==
    ASSUME NEW n \in Nat, NEW d \in Nat, d > 0
    PROVE  (d * n) \div d = n /\ (0 * n) \div d = 0
<1> DEFINE q == (d * n) \div d
<1>2. q \in Int /\ d * q <= d * n /\ d * n < d * q + d
  OBVIOUS
<1> HIDE DEF q
<1>3. d * (n - q) = d * n - d * q
  BY <1>2
<1>4. n - q < 1
  BY <1>2, <1>3
<1>5. n - q > -1
  BY <1>2, <1>3
<1>6. 0 * n = 0 /\ 0 \div d = 0
  OBVIOUS
<1> QED
  BY <1>2, <1>4, <1>5, <1>6 DEF q
---------------------------------------------------------------------------------
(* The page as a tiling: each plugin that is asked cuts its box off the plot area. *)

(* A box has its place and its measures in whole pixels. *)
IsBox(b) == b.x \in Int /\ b.y \in Int /\ b.w \in Int /\ b.h \in Int

(* f tiles the page, as far as computePlotArea has got. *)
InPage(f, page) ==
    /\ IsBox(page) /\ IsBox(f.area) /\ \A b \in f.boxes : IsBox(b)
    /\ Within(f.area, page) /\ \A b \in f.boxes : Within(b, page)
(* No two of its parts overlap. *)
Disjoint(f) ==
    \A b \in f.boxes : Apart(b, f.area) /\ Apart(f.area, b) /\ \A c \in f.boxes : b = c \/ Apart(b, c)
(* Every pixel of the page belongs to one of them. *)
Covered(f, page) ==
    \A x, y \in Int : Covers(page, x, y) => Covers(f.area, x, y) \/ \E b \in f.boxes : Covers(b, x, y)
(* All three at once. *)
Tiling(f, page) == InPage(f, page) /\ Disjoint(f) /\ Covered(f, page)

(* The two parts of a. *)
Halves(a, p, q) ==
    /\ IsBox(p) /\ IsBox(q)
    /\ Within(p, a) /\ Within(q, a) /\ Apart(p, q) /\ Apart(q, p)
    /\ \A x, y \in Int : Covers(a, x, y) => Covers(p, x, y) \/ Covers(q, x, y)

(* What lies within a box lies wherever the box does, and apart from what the box is apart from. *)
LEMMA WithinIsInner ==
    ASSUME NEW a, NEW b, NEW c, IsBox(a), IsBox(b), IsBox(c), Within(a, b)
    PROVE  /\ Within(b, c) => Within(a, c)
           /\ Apart(b, c) => Apart(a, c)
           /\ Apart(c, b) => Apart(c, a)
  BY DEF IsBox, Within, Apart

(* A tiling stays one when the area that is left is cut in two. *)
LEMMA HalvesTile ==
    ASSUME NEW f, NEW page, NEW p, NEW q, Tiling(f, page), Halves(f.area, p, q)
    PROVE  Tiling([area |-> p, boxes |-> f.boxes \cup {q}], page)
<1> DEFINE g == [area |-> p, boxes |-> f.boxes \cup {q}]
<1>1. g.area = p /\ g.boxes = f.boxes \cup {q}
  OBVIOUS
<1> HIDE DEF g
<1>2. IsBox(page) /\ IsBox(f.area) /\ IsBox(p) /\ IsBox(q) /\ \A b \in f.boxes : IsBox(b)
  BY DEF Tiling, InPage, Halves
<1>3. InPage(g, page)
  <2>1. Within(p, page) /\ Within(q, page)
    BY <1>2, WithinIsInner DEF Tiling, InPage, Halves
  <2> QED
    BY <1>1, <1>2, <2>1 DEF Tiling, InPage
<1>4. \A b \in f.boxes : Apart(b, p) /\ Apart(p, b) /\ Apart(b, q) /\ Apart(q, b)
  <2> SUFFICES ASSUME NEW b \in f.boxes PROVE Apart(b, p) /\ Apart(p, b) /\ Apart(b, q) /\ Apart(q, b)
    OBVIOUS
  <2>1. IsBox(b) /\ Apart(b, f.area) /\ Apart(f.area, b)
    BY <1>2 DEF Tiling, Disjoint
  <2>2. Within(p, f.area) /\ Within(q, f.area)
    BY DEF Halves
  <2> QED
    BY <1>2, <2>1, <2>2, WithinIsInner
<1>5. Disjoint(g)
  <2>1. \A b, c \in f.boxes : b = c \/ Apart(b, c)
    BY DEF Tiling, Disjoint
  <2>2. Apart(p, q) /\ Apart(q, p)
    BY DEF Halves
  <2> QED
    BY <1>1, <1>4, <2>1, <2>2 DEF Disjoint
<1>6. Covered(g, page)
  <2> SUFFICES ASSUME NEW x \in Int, NEW y \in Int, Covers(page, x, y)
               PROVE  Covers(p, x, y) \/ \E b \in f.boxes \cup {q} : Covers(b, x, y)
    BY <1>1 DEF Covered
  <2>1. Covers(f.area, x, y) \/ \E b \in f.boxes : Covers(b, x, y)
    BY DEF Tiling, Covered
  <2>2. Covers(f.area, x, y) => Covers(p, x, y) \/ Covers(q, x, y)
    BY DEF Halves
  <2> QED
    BY <2>1, <2>2
<1> QED
  BY <1>3, <1>5, <1>6 DEF Tiling, g

(* A plugin that asks for space on some side, of a frame that is roomy when it is served. *)
LEMMA AskTiles ==
    ASSUME NEW f, NEW page, NEW on, NEW side \in {"left", "right", "top", "bottom"}, NEW px \in Nat, NEW name,
           Tiling(f, page), Roomy(ask(f, Plugin(on, side, px, name)).area)
    PROVE  Tiling(ask(f, Plugin(on, side, px, name)), page)
<1> DEFINE r == Plugin(on, side, px, name)
           p == reserveSpace(f.area, r)[1]
           q == reserveSpace(f.area, r)[2]
           a == f.area
<1>1. r.on = on /\ r.side = side /\ r.px = px /\ r.name = name
  BY DEF Plugin
<1>2. ask(f, r) = IF on THEN [area |-> p, boxes |-> f.boxes \cup {q}] ELSE f
  BY <1>1, Zenon DEF ask
<1>3. IsBox(a)
  BY DEF Tiling, InPage
<1>4. ASSUME on PROVE Halves(a, p, q)
  <2>1. Roomy(p)
    <3> HIDE DEF p, q
    <3>1. ask(f, r) = [area |-> p, boxes |-> f.boxes \cup {q}]
      BY <1>2, <1>4, Zenon
    <3>2. ask(f, r).area = p
      BY <3>1
    <3> QED
      BY <3>2
  <2> HIDE DEF r
  <2>2. CASE side = "left"
    <3>1. p = Box("area", a.x + px, a.y, a.w - px, a.h) /\ q = Box(name, a.x, a.y, px, a.h)
      BY <1>1, <2>2 DEF reserveSpace
    <3> HIDE DEF p, q, a
    <3> QED
      BY <1>3, <2>1, <3>1 DEF Halves, IsBox, Within, Apart, Covers, Box, Roomy
  <2>3. CASE side = "right"
    <3>1. p = Box("area", a.x, a.y, a.w - px, a.h) /\ q = Box(name, a.x + a.w - px, a.y, px, a.h)
      BY <1>1, <2>3 DEF reserveSpace
    <3> HIDE DEF p, q, a
    <3> QED
      BY <1>3, <2>1, <3>1 DEF Halves, IsBox, Within, Apart, Covers, Box, Roomy
  <2>4. CASE side = "top"
    <3>1. p = Box("area", a.x, a.y + px, a.w, a.h - px) /\ q = Box(name, a.x, a.y, a.w, px)
      BY <1>1, <2>4 DEF reserveSpace
    <3> HIDE DEF p, q, a
    <3> QED
      BY <1>3, <2>1, <3>1 DEF Halves, IsBox, Within, Apart, Covers, Box, Roomy
  <2>5. CASE side = "bottom"
    <3>1. p = Box("area", a.x, a.y, a.w, a.h - px) /\ q = Box(name, a.x, a.y + a.h - px, a.w, px)
      BY <1>1, <2>5 DEF reserveSpace
    <3> HIDE DEF p, q, a
    <3> QED
      BY <1>3, <2>1, <3>1 DEF Halves, IsBox, Within, Apart, Covers, Box, Roomy
  <2> QED
    BY <2>2, <2>3, <2>4, <2>5
<1> HIDE DEF p, q, r
<1>5. CASE on
  BY <1>2, <1>4, <1>5, HalvesTile DEF r
<1>6. CASE ~ on
  BY <1>2, <1>6 DEF r
<1> QED
  BY <1>5, <1>6
---------------------------------------------------------------------------------
(* computePlotArea in numbers. *)

(* The types of sizes and options, and the page a size and the gap at its right leave. *)
SizeType == [w : Nat, h : Nat]
OptionType == [title : BOOLEAN, xlabel : BOOLEAN, drawX : BOOLEAN, drawY : BOOLEAN, second : BOOLEAN,
               selector : BOOLEAN, kmg2 : BOOLEAN, atZero : BOOLEAN]
Page(s) == Box("page", 0, 0, s.w - RightGap, s.h)

(* What is taken by a plugin that may be off. *)
Px(on, px) == IF on THEN px ELSE 0
One(on, b) == IF on THEN {b} ELSE {}
FrameOf(x, y, w, h, bs) == [area |-> Box("area", x, y, w, h), boxes |-> bs]

(* What each of the four sides leaves of a plot area, and the box it takes. *)
AskedIs(x, y, w, h, bs, on, px, name) ==
    /\ ask(FrameOf(x, y, w, h, bs), Plugin(on, "left", px, name))
         = FrameOf(x + Px(on, px), y, w - Px(on, px), h, bs \cup One(on, Box(name, x, y, px, h)))
    /\ ask(FrameOf(x, y, w, h, bs), Plugin(on, "right", px, name))
         = FrameOf(x, y, w - Px(on, px), h, bs \cup One(on, Box(name, x + w - px, y, px, h)))
    /\ ask(FrameOf(x, y, w, h, bs), Plugin(on, "top", px, name))
         = FrameOf(x, y + Px(on, px), w, h - Px(on, px), bs \cup One(on, Box(name, x, y, w, px)))
    /\ ask(FrameOf(x, y, w, h, bs), Plugin(on, "bottom", px, name))
         = FrameOf(x, y, w, h - Px(on, px), bs \cup One(on, Box(name, x, y + h - px, w, px)))

(* Asking a plugin for its reserve does that. *)
LEMMA Asked ==
    ASSUME NEW x \in Int, NEW y \in Int, NEW w \in Int, NEW h \in Int, NEW bs,
           NEW on \in BOOLEAN, NEW px \in Nat, NEW name
    PROVE  AskedIs(x, y, w, h, bs, on, px, name)
<1> DEFINE f == FrameOf(x, y, w, h, bs)
           p(side) == Plugin(on, side, px, name)
<1>1. f.area = Box("area", x, y, w, h) /\ f.boxes = bs
  BY DEF FrameOf
<1>2. f.area.x = x /\ f.area.y = y /\ f.area.w = w /\ f.area.h = h
  BY <1>1 DEF Box
<1>3. CASE on
  <2>1. \A side \in {"left", "right", "top", "bottom"} :
           ask(f, p(side)) = [area  |-> reserveSpace(f.area, p(side))[1],
                              boxes |-> bs \cup {reserveSpace(f.area, p(side))[2]}]
    BY <1>1, <1>3 DEF ask, Plugin
  <2>2. Px(on, px) = px /\ \A b : One(on, b) = {b}
    BY <1>3 DEF Px, One
  <2>3. reserveSpace(f.area, p("left")) = <<Box("area", x + px, y, w - px, h), Box(name, x, y, px, h)>>
    BY <1>2 DEF reserveSpace, Plugin
  <2>4. reserveSpace(f.area, p("right")) = <<Box("area", x, y, w - px, h), Box(name, x + w - px, y, px, h)>>
    BY <1>2 DEF reserveSpace, Plugin
  <2>5. reserveSpace(f.area, p("top")) = <<Box("area", x, y + px, w, h - px), Box(name, x, y, w, px)>>
    BY <1>2 DEF reserveSpace, Plugin
  <2>6. reserveSpace(f.area, p("bottom")) = <<Box("area", x, y, w, h - px), Box(name, x, y + h - px, w, px)>>
    BY <1>2 DEF reserveSpace, Plugin
  <2> HIDE DEF f, p
  <2>7. /\ ask(f, p("left")) = FrameOf(x + px, y, w - px, h, bs \cup {Box(name, x, y, px, h)})
        /\ ask(f, p("right")) = FrameOf(x, y, w - px, h, bs \cup {Box(name, x + w - px, y, px, h)})
        /\ ask(f, p("top")) = FrameOf(x, y + px, w, h - px, bs \cup {Box(name, x, y, w, px)})
        /\ ask(f, p("bottom")) = FrameOf(x, y, w, h - px, bs \cup {Box(name, x, y + h - px, w, px)})
    BY <2>1, <2>3, <2>4, <2>5, <2>6 DEF FrameOf
  <2> QED
    BY <2>2, <2>7 DEF f, p, AskedIs
<1>4. CASE ~ on
  <2>1. \A side : ask(f, p(side)) = f
    BY <1>4 DEF ask, Plugin
  <2>2. Px(on, px) = 0 /\ \A b : One(on, b) = {}
    BY <1>4 DEF Px, One
  <2>3. x + 0 = x /\ y + 0 = y /\ w - 0 = w /\ h - 0 = h /\ bs \cup {} = bs
    OBVIOUS
  <2> HIDE DEF f, p
  <2>4. f = FrameOf(x, y, w, h, bs)
    BY DEF f
  <2> QED
    BY <2>1, <2>2, <2>3, <2>4 DEF f, p, AskedIs
<1> QED
  BY <1>3, <1>4

(* The frame in numbers. *)
TitlePx(o)    == Px(o.title, TitleH)
XLabelPx(o)   == Px(o.xlabel, XLabelH)
SelectorPx(o) == Px(o.selector, SelectorH + 4)
LeftPx(o)     == Px(o.drawY, YAxis)
XPx(o)        == Px(o.drawX, XAxis)
RightPx(o)    == Px(o.second, YAxis)
PlotArea(s, o) == Box("area", LeftPx(o), TitlePx(o), s.w - RightGap - LeftPx(o) - RightPx(o),
                      s.h - TitlePx(o) - XLabelPx(o) - SelectorPx(o) - XPx(o))
PlotBoxes(s, o) ==
    {} \cup One(o.title, Box("title", 0, 0, s.w - RightGap, TitleH))
       \cup One(o.xlabel, Box("xlabel", 0, s.h - XLabelH, s.w - RightGap, XLabelH))
       \cup One(o.selector, Box("selector", 0, s.h - XLabelPx(o) - (SelectorH + 4), s.w - RightGap, SelectorH + 4))
       \cup One(o.drawY, Box("y", 0, TitlePx(o), YAxis, s.h - TitlePx(o) - XLabelPx(o) - SelectorPx(o)))
       \cup One(o.drawX, Box("x", LeftPx(o), s.h - XLabelPx(o) - SelectorPx(o) - XAxis,
                                  s.w - RightGap - LeftPx(o), XAxis))
       \cup One(o.second, Box("y2", s.w - RightGap - YAxis, TitlePx(o), YAxis,
                              s.h - TitlePx(o) - XLabelPx(o) - SelectorPx(o) - XPx(o)))

(* computePlotArea: the numbers, and that the boxes tile the page if there is any room at all. *)
LEMMA PlotAreaIs ==
    ASSUME NEW s \in SizeType, NEW o \in OptionType
    PROVE  /\ computePlotArea(s, o).area = PlotArea(s, o)
           /\ computePlotArea(s, o).boxes = PlotBoxes(s, o)
           /\ Roomy(PlotArea(s, o)) => Tiling(computePlotArea(s, o), Page(s))
<1> DEFINE W == s.w - RightGap
           l == layout(o)
           t == TitlePx(o)
           xl == XLabelPx(o)
           se == SelectorPx(o)
           le == LeftPx(o)
           xx == XPx(o)
           ri == RightPx(o)
           b1 == {} \cup One(o.title, Box("title", 0, 0, W, TitleH))
           b2 == b1 \cup One(o.xlabel, Box("xlabel", 0, t + (s.h - t) - XLabelH, W, XLabelH))
           b3 == b2 \cup One(o.selector, Box("selector", 0, t + (s.h - t - xl) - (SelectorH + 4), W, SelectorH + 4))
           b4 == b3 \cup One(o.drawY, Box("y", 0, t, YAxis, s.h - t - xl - se))
           b5 == b4 \cup One(o.drawX, Box("x", 0 + le, t + (s.h - t - xl - se) - XAxis, W - le, XAxis))
           b6 == b5 \cup One(o.second, Box("y2", 0 + le + (W - le) - YAxis, t, YAxis, s.h - t - xl - se - xx))
           f0 == FrameOf(0, 0, W, s.h, {})
           f1 == FrameOf(0, t, W, s.h - t, b1)
           f2 == FrameOf(0, t, W, s.h - t - xl, b2)
           f3 == FrameOf(0, t, W, s.h - t - xl - se, b3)
           f4 == FrameOf(0 + le, t, W - le, s.h - t - xl - se, b4)
           f5 == FrameOf(0 + le, t, W - le, s.h - t - xl - se - xx, b5)
           f6 == FrameOf(0 + le, t, W - le - ri, s.h - t - xl - se - xx, b6)
<1>1. /\ o.title \in BOOLEAN /\ o.xlabel \in BOOLEAN /\ o.drawX \in BOOLEAN /\ o.drawY \in BOOLEAN
      /\ o.second \in BOOLEAN /\ o.selector \in BOOLEAN /\ s.w \in Nat /\ s.h \in Nat
  BY DEF OptionType, SizeType
<1>2. W \in Int /\ t \in Nat /\ xl \in Nat /\ se \in Nat /\ le \in Nat /\ xx \in Nat /\ ri \in Nat
  BY <1>1
  DEF TitlePx, XLabelPx, SelectorPx, LeftPx, XPx, RightPx, Px, RightGap, TitleH, XLabelH, SelectorH, YAxis, XAxis
<1>3. /\ l[1] = Plugin(o.title, "top", TitleH, "title") /\ l[2] = Plugin(o.xlabel, "bottom", XLabelH, "xlabel")
      /\ l[3] = Plugin(o.selector, "bottom", SelectorH + 4, "selector") /\ l[4] = Plugin(o.drawY, "left", YAxis, "y")
      /\ l[5] = Plugin(o.drawX, "bottom", XAxis, "x") /\ l[6] = Plugin(o.second, "right", YAxis, "y2")
  BY DEF layout
<1>4. TitleH \in Nat /\ XLabelH \in Nat /\ SelectorH + 4 \in Nat /\ YAxis \in Nat /\ XAxis \in Nat
  BY DEF TitleH, XLabelH, SelectorH, YAxis, XAxis
<1>5. computePlotArea(s, o) = ask(ask(ask(ask(ask(ask(f0, l[1]), l[2]), l[3]), l[4]), l[5]), l[6])
  BY Zenon DEF computePlotArea, FrameOf
<1>6. PICK zero \in Int : zero = 0
  OBVIOUS
<1>7. t = Px(o.title, TitleH) /\ xl = Px(o.xlabel, XLabelH) /\ se = Px(o.selector, SelectorH + 4)
      /\ le = Px(o.drawY, YAxis) /\ xx = Px(o.drawX, XAxis) /\ ri = Px(o.second, YAxis)
  BY DEF TitlePx, XLabelPx, SelectorPx, LeftPx, XPx, RightPx
<1> HIDE DEF W, l, t, xl, se, le, xx, ri
<1>11. ask(f0, l[1]) = f1
  <2>1. zero \in Int /\ W \in Int /\ s.h \in Int
    BY <1>1, <1>2, <1>6
  <2>2. AskedIs(zero, zero, W, s.h, {}, o.title, TitleH, "title")
    BY <1>1, <1>4, <2>1, Asked
  <2>3. ask(FrameOf(zero, zero, W, s.h, {}), Plugin(o.title, "top", TitleH, "title"))
          = FrameOf(zero, zero + t, W, s.h - t, {} \cup One(o.title, Box("title", zero, zero, W, TitleH)))
    BY <2>2, <1>7 DEF AskedIs
  <2>4. zero + t = t
    BY <1>2, <1>6
  <2> QED
    BY <1>3, <1>6, <2>3, <2>4
<1>12. ask(f1, l[2]) = f2
  <2> HIDE DEF b1
  <2>1. zero \in Int /\ t \in Int /\ W \in Int /\ s.h - t \in Int
    BY <1>1, <1>2, <1>6
  <2>2. AskedIs(zero, t, W, s.h - t, b1, o.xlabel, XLabelH, "xlabel")
    BY <1>1, <1>4, <2>1, Asked
  <2>3. ask(FrameOf(zero, t, W, s.h - t, b1), Plugin(o.xlabel, "bottom", XLabelH, "xlabel"))
          = FrameOf(zero, t, W, s.h - t - xl,
                    b1 \cup One(o.xlabel, Box("xlabel", zero, t + (s.h - t) - XLabelH, W, XLabelH)))
    BY <2>2, <1>7 DEF AskedIs
  <2> QED
    BY <1>3, <1>6, <2>3
<1>13. ask(f2, l[3]) = f3
  <2> HIDE DEF b2
  <2>1. zero \in Int /\ t \in Int /\ W \in Int /\ s.h - t - xl \in Int
    BY <1>1, <1>2, <1>6
  <2>2. AskedIs(zero, t, W, s.h - t - xl, b2, o.selector, SelectorH + 4, "selector")
    BY <1>1, <1>4, <2>1, Asked
  <2>3. ask(FrameOf(zero, t, W, s.h - t - xl, b2), Plugin(o.selector, "bottom", SelectorH + 4, "selector"))
          = FrameOf(zero, t, W, s.h - t - xl - se,
                    b2 \cup One(o.selector,
                           Box("selector", zero, t + (s.h - t - xl) - (SelectorH + 4), W, SelectorH + 4)))
    BY <2>2, <1>7 DEF AskedIs
  <2> QED
    BY <1>3, <1>6, <2>3
<1>14. ask(f3, l[4]) = f4
  <2> HIDE DEF b3
  <2>1. zero \in Int /\ t \in Int /\ W \in Int /\ s.h - t - xl - se \in Int
    BY <1>1, <1>2, <1>6
  <2>2. AskedIs(zero, t, W, s.h - t - xl - se, b3, o.drawY, YAxis, "y")
    BY <1>1, <1>4, <2>1, Asked
  <2>3. ask(FrameOf(zero, t, W, s.h - t - xl - se, b3), Plugin(o.drawY, "left", YAxis, "y"))
          = FrameOf(zero + le, t, W - le, s.h - t - xl - se,
                    b3 \cup One(o.drawY, Box("y", zero, t, YAxis, s.h - t - xl - se)))
    BY <2>2, <1>7 DEF AskedIs
  <2> QED
    BY <1>3, <1>6, <2>3
<1>15. ask(f4, l[5]) = f5
  <2> HIDE DEF b4
  <2>1. zero + le \in Int /\ t \in Int /\ W - le \in Int /\ s.h - t - xl - se \in Int
    BY <1>1, <1>2, <1>6
  <2>2. AskedIs(zero + le, t, W - le, s.h - t - xl - se, b4, o.drawX, XAxis, "x")
    BY <1>1, <1>4, <2>1, Asked
  <2>3. ask(FrameOf(zero + le, t, W - le, s.h - t - xl - se, b4), Plugin(o.drawX, "bottom", XAxis, "x"))
          = FrameOf(zero + le, t, W - le, s.h - t - xl - se - xx,
                    b4 \cup One(o.drawX, Box("x", zero + le, t + (s.h - t - xl - se) - XAxis, W - le, XAxis)))
    BY <2>2, <1>7 DEF AskedIs
  <2> QED
    BY <1>3, <1>6, <2>3
<1>16. ask(f5, l[6]) = f6
  <2> HIDE DEF b5
  <2>1. zero + le \in Int /\ t \in Int /\ W - le \in Int /\ s.h - t - xl - se - xx \in Int
    BY <1>1, <1>2, <1>6
  <2>2. AskedIs(zero + le, t, W - le, s.h - t - xl - se - xx, b5, o.second, YAxis, "y2")
    BY <1>1, <1>4, <2>1, Asked
  <2>3. ask(FrameOf(zero + le, t, W - le, s.h - t - xl - se - xx, b5), Plugin(o.second, "right", YAxis, "y2"))
          = FrameOf(zero + le, t, W - le - ri, s.h - t - xl - se - xx,
                    b5 \cup One(o.second, Box("y2", zero + le + (W - le) - YAxis, t, YAxis, s.h - t - xl - se - xx)))
    BY <2>2, <1>7 DEF AskedIs
  <2> QED
    BY <1>3, <1>6, <2>3
<1>17. computePlotArea(s, o) = f6
  <2> HIDE DEF f0, f1, f2, f3, f4, f5, f6
  <2> QED
    BY <1>5, <1>11, <1>12, <1>13, <1>14, <1>15, <1>16
<1>18. /\ t + (s.h - t) - XLabelH = s.h - XLabelH
       /\ t + (s.h - t - xl) - (SelectorH + 4) = s.h - xl - (SelectorH + 4)
       /\ t + (s.h - t - xl - se) - XAxis = s.h - xl - se - XAxis
       /\ 0 + le = le /\ 0 + le + (W - le) - YAxis = W - YAxis
  BY <1>1, <1>2, <1>4
<1>19. computePlotArea(s, o).area = PlotArea(s, o)
  <2>1. f6.area = Box("area", 0 + le, t, W - le - ri, s.h - t - xl - se - xx)
    BY DEF FrameOf
  <2> QED
    BY <1>17, <1>18, <2>1, Zenon DEF PlotArea, W, l, t, xl, se, le, xx, ri
<1>20. computePlotArea(s, o).boxes = PlotBoxes(s, o)
  <2>1. f6.boxes = b6
    <3> HIDE DEF b6
    <3> QED
      BY DEF FrameOf
  <2>2. b6 = PlotBoxes(s, o)
    BY <1>18, Zenon DEF PlotBoxes, W, t, xl, se, le, xx, ri
  <2> QED
    BY <1>17, <2>1, <2>2, Zenon
<1> HIDE DEF b1, b2, b3, b4, b5, b6
<1>21. ASSUME Roomy(PlotArea(s, o)) PROVE Tiling(f6, Page(s))
  <2>1. W - le - ri > 0 /\ s.h - t - xl - se - xx > 0
    BY <1>21 DEF Roomy, PlotArea, Box, W, t, xl, se, le, xx, ri
  <2>2. Roomy(f1.area) /\ Roomy(f2.area) /\ Roomy(f3.area) /\ Roomy(f4.area) /\ Roomy(f5.area) /\ Roomy(f6.area)
    BY <1>1, <1>2, <2>1 DEF Roomy, FrameOf, Box
  <2>3. Tiling(f0, Page(s))
    <3>1. f0.boxes = {} /\ f0.area.x = 0 /\ f0.area.y = 0 /\ f0.area.w = W /\ f0.area.h = s.h
      BY DEF FrameOf, Box
    <3>2. Page(s).x = 0 /\ Page(s).y = 0 /\ Page(s).w = W /\ Page(s).h = s.h
      BY DEF Page, Box, W
    <3> HIDE DEF f0
    <3>3. InPage(f0, Page(s))
      BY <1>1, <1>2, <3>1, <3>2 DEF InPage, IsBox, Within
    <3>4. Disjoint(f0)
      BY <3>1 DEF Disjoint
    <3>5. Covered(f0, Page(s))
      BY <3>1, <3>2 DEF Covered, Covers
    <3> QED
      BY <3>3, <3>4, <3>5 DEF Tiling
  <2> HIDE DEF f0, f1, f2, f3, f4, f5, f6
  <2>4. Tiling(f1, Page(s))
    BY <1>3, <1>4, <1>11, <2>2, <2>3, AskTiles
  <2>5. Tiling(f2, Page(s))
    BY <1>3, <1>4, <1>12, <2>2, <2>4, AskTiles
  <2>6. Tiling(f3, Page(s))
    BY <1>3, <1>4, <1>13, <2>2, <2>5, AskTiles
  <2>7. Tiling(f4, Page(s))
    BY <1>3, <1>4, <1>14, <2>2, <2>6, AskTiles
  <2>8. Tiling(f5, Page(s))
    BY <1>3, <1>4, <1>15, <2>2, <2>7, AskTiles
  <2> QED
    BY <1>3, <1>4, <1>16, <2>2, <2>8, AskTiles
<1> HIDE DEF f6
<1> QED
  BY <1>17, <1>19, <1>20, <1>21
---------------------------------------------------------------------------------
(* Boxes by their names; labels, pixels and lines in a box. *)

(* Each plugin that is on has one box, which is known by its name. *)
LEMMA NamedBoxes ==
    ASSUME NEW s \in SizeType, NEW o \in OptionType
    PROVE  /\ {b \in PlotBoxes(s, o) : b.name = "selector"}
                = One(o.selector,
                      Box("selector", 0, s.h - XLabelPx(o) - (SelectorH + 4), s.w - RightGap, SelectorH + 4))
           /\ {b \in PlotBoxes(s, o) : b.name = "x"}
                = One(o.drawX, Box("x", LeftPx(o), s.h - XLabelPx(o) - SelectorPx(o) - XAxis,
                                        s.w - RightGap - LeftPx(o), XAxis))
           /\ {b \in PlotBoxes(s, o) : b.name = "y"}
                = One(o.drawY, Box("y", 0, TitlePx(o), YAxis, s.h - TitlePx(o) - XLabelPx(o) - SelectorPx(o)))
           /\ {b \in PlotBoxes(s, o) : b.name = "y2"}
                = One(o.second, Box("y2", s.w - RightGap - YAxis, TitlePx(o), YAxis,
                                    s.h - TitlePx(o) - XLabelPx(o) - SelectorPx(o) - XPx(o)))
           /\ {b.name : b \in PlotBoxes(s, o)} = {r.name : r \in {q \in Range(layout(o)) : q.on}}
<1> DEFINE t == Box("title", 0, 0, s.w - RightGap, TitleH)
           l == Box("xlabel", 0, s.h - XLabelH, s.w - RightGap, XLabelH)
           e == Box("selector", 0, s.h - XLabelPx(o) - (SelectorH + 4), s.w - RightGap, SelectorH + 4)
           y == Box("y", 0, TitlePx(o), YAxis, s.h - TitlePx(o) - XLabelPx(o) - SelectorPx(o))
           x == Box("x", LeftPx(o), s.h - XLabelPx(o) - SelectorPx(o) - XAxis, s.w - RightGap - LeftPx(o), XAxis)
           z == Box("y2", s.w - RightGap - YAxis, TitlePx(o), YAxis,
                    s.h - TitlePx(o) - XLabelPx(o) - SelectorPx(o) - XPx(o))
           bs == PlotBoxes(s, o)
<1>1. /\ o.title \in BOOLEAN /\ o.xlabel \in BOOLEAN /\ o.drawX \in BOOLEAN /\ o.drawY \in BOOLEAN
      /\ o.second \in BOOLEAN /\ o.selector \in BOOLEAN
  BY DEF OptionType
<1>2. bs = {} \cup One(o.title, t) \cup One(o.xlabel, l) \cup One(o.selector, e) \cup One(o.drawY, y)
              \cup One(o.drawX, x) \cup One(o.second, z)
  BY Zenon DEF PlotBoxes
<1>3. t.name = "title" /\ l.name = "xlabel" /\ e.name = "selector" /\ y.name = "y" /\ x.name = "x" /\ z.name = "y2"
  BY DEF Box
<1> HIDE DEF t, l, e, y, x, z, bs
<1>4. \A b : b \in bs <=> \/ (o.title /\ b = t) \/ (o.xlabel /\ b = l) \/ (o.selector /\ b = e)
                          \/ (o.drawY /\ b = y) \/ (o.drawX /\ b = x) \/ (o.second /\ b = z)
  <2>1. /\ \A b : b \in One(o.title, t) <=> o.title /\ b = t
        /\ \A b : b \in One(o.xlabel, l) <=> o.xlabel /\ b = l
        /\ \A b : b \in One(o.selector, e) <=> o.selector /\ b = e
        /\ \A b : b \in One(o.drawY, y) <=> o.drawY /\ b = y
        /\ \A b : b \in One(o.drawX, x) <=> o.drawX /\ b = x
        /\ \A b : b \in One(o.second, z) <=> o.second /\ b = z
    BY <1>1 DEF One
  <2> QED
    BY <1>2, <2>1
<1>5. {b \in bs : b.name = "selector"} = One(o.selector, e)
  <2>1. \A b : b \in bs /\ b.name = "selector" <=> o.selector /\ b = e
    BY <1>3, <1>4
  <2> QED
    BY <1>1, <2>1 DEF One
<1>6. {b \in bs : b.name = "x"} = One(o.drawX, x)
  <2>1. \A b : b \in bs /\ b.name = "x" <=> o.drawX /\ b = x
    BY <1>3, <1>4
  <2> QED
    BY <1>1, <2>1 DEF One
<1>7. {b \in bs : b.name = "y"} = One(o.drawY, y)
  <2>1. \A b : b \in bs /\ b.name = "y" <=> o.drawY /\ b = y
    BY <1>3, <1>4
  <2> QED
    BY <1>1, <2>1 DEF One
<1>8. {b \in bs : b.name = "y2"} = One(o.second, z)
  <2>1. \A b : b \in bs /\ b.name = "y2" <=> o.second /\ b = z
    BY <1>3, <1>4
  <2> QED
    BY <1>1, <2>1 DEF One
<1>9. {b.name : b \in bs} = {r.name : r \in {q \in Range(layout(o)) : q.on}}
  <2> DEFINE Named(n) == \/ (o.title /\ n = "title") \/ (o.xlabel /\ n = "xlabel") \/ (o.selector /\ n = "selector")
                         \/ (o.drawY /\ n = "y") \/ (o.drawX /\ n = "x") \/ (o.second /\ n = "y2")
  <2>1. \A n : n \in {b.name : b \in bs} <=> Named(n)
    BY <1>3, <1>4
  <2>2. \A q : q \in Range(layout(o)) <=> \E i \in 1..6 : q = layout(o)[i]
    BY DEF layout, Range
  <2>3. /\ layout(o)[1].on = o.title /\ layout(o)[1].name = "title"
        /\ layout(o)[2].on = o.xlabel /\ layout(o)[2].name = "xlabel"
        /\ layout(o)[3].on = o.selector /\ layout(o)[3].name = "selector"
        /\ layout(o)[4].on = o.drawY /\ layout(o)[4].name = "y"
        /\ layout(o)[5].on = o.drawX /\ layout(o)[5].name = "x"
        /\ layout(o)[6].on = o.second /\ layout(o)[6].name = "y2"
    BY DEF layout, Plugin
  <2>4. \A i \in 1..6 : i = 1 \/ i = 2 \/ i = 3 \/ i = 4 \/ i = 5 \/ i = 6
    OBVIOUS
  <2>5. \A n : n \in {r.name : r \in {q \in Range(layout(o)) : q.on}} <=> Named(n)
    <3> SUFFICES ASSUME NEW n PROVE (\E i \in 1..6 : layout(o)[i].on /\ n = layout(o)[i].name) <=> Named(n)
      BY <2>2
    <3>1. ASSUME NEW i \in 1..6, layout(o)[i].on, n = layout(o)[i].name PROVE Named(n)
      <4>1. i = 1 \/ i = 2 \/ i = 3 \/ i = 4 \/ i = 5 \/ i = 6
        BY <2>4
      <4>2. CASE i = 1
        BY <2>3, <3>1, <4>2
      <4>3. CASE i = 2
        BY <2>3, <3>1, <4>3
      <4>4. CASE i = 3
        BY <2>3, <3>1, <4>4
      <4>5. CASE i = 4
        BY <2>3, <3>1, <4>5
      <4>6. CASE i = 5
        BY <2>3, <3>1, <4>6
      <4>7. CASE i = 6
        BY <2>3, <3>1, <4>7
      <4> QED
        BY <4>1, <4>2, <4>3, <4>4, <4>5, <4>6, <4>7
    <3>2. ASSUME Named(n) PROVE \E i \in 1..6 : layout(o)[i].on /\ n = layout(o)[i].name
      <4>1. 1 \in 1..6 /\ 2 \in 1..6 /\ 3 \in 1..6 /\ 4 \in 1..6 /\ 5 \in 1..6 /\ 6 \in 1..6
        OBVIOUS
      <4> QED
        BY <2>3, <3>2, <4>1
    <3> QED
      BY <3>1, <3>2
  <2> HIDE DEF Named
  <2> QED
    BY <2>1, <2>5
<1> QED
  BY <1>5, <1>6, <1>7, <1>8, <1>9 DEF t, l, e, y, x, z, bs

(* The labels of the times are on the page, if it has room for one, and below the plot. *)
LEMMA XLabelsFit ==
    ASSUME NEW a, NEW s \in SizeType, NEW xs \in SUBSET Int, NEW l \in XLabels(a, s, xs)
    PROVE  /\ l.y = a.y + a.h + 3 /\ l.h = Font
           /\ l.x >= 0 /\ l.x + l.w <= AtLeast(s.w, LabelW.x)
<1>1. PICK x \in xs : l =
                        LET left == IF x - LabelW.x \div 2 + LabelW.x > s.w THEN s.w - LabelW.x ELSE x - LabelW.x \div 2
                        IN  Box("x", AtLeast(left, 0), a.y + a.h + 3, LabelW.x, Font)
  BY DEF XLabels
<1> DEFINE left == IF x - LabelW.x \div 2 + LabelW.x > s.w THEN s.w - LabelW.x ELSE x - LabelW.x \div 2
<1>2. l = Box("x", AtLeast(left, 0), a.y + a.h + 3, LabelW.x, Font)
  BY <1>1
<1>3. l.x = AtLeast(left, 0) /\ l.y = a.y + a.h + 3 /\ l.w = LabelW.x /\ l.h = Font
  BY <1>2 DEF Box
<1>4. s.w \in Nat /\ x \in Int
  BY DEF SizeType
<1>5. LabelW.x = 60 /\ 60 \div 2 = 30
  BY DEF LabelW
<1>6. AtLeast(left, 0) >= 0 /\ AtLeast(left, 0) + 60 <= AtLeast(s.w, 60)
  BY <1>4, <1>5 DEF AtLeast
<1> QED
  BY <1>3, <1>5, <1>6

(* Those of the values are beside the plot and on the page, if it has room for the lifted one. *)
LEMMA YLabelsFit ==
    ASSUME NEW a, NEW s \in SizeType, NEW left, NEW ys \in SUBSET Int, NEW lift \in BOOLEAN,
           NEW l \in YLabels(a, s, left, ys, lift)
    PROVE  /\ l.x = left /\ l.w = LabelW.y
           /\ 2 * s.h >= 5 * Font => l.y >= 0 /\ l.y + l.h <= s.h
<1>1. PICK y \in ys : l = LET top == AtLeast(y - Font \div 2, 0)
                          IN  Box("y", left, IF top + Font + 3 > s.h THEN s.h - Font
                                  ELSE IF lift /\ y = Max(ys) /\ top + Font > s.h - Font THEN top - Font \div 2
                                  ELSE top, LabelW.y, Font)
  BY DEF YLabels
<1> DEFINE top == AtLeast(y - Font \div 2, 0)
           lifted == lift /\ y = Max(ys) /\ top + Font > s.h - Font
           place == IF top + Font + 3 > s.h THEN s.h - Font ELSE IF lifted THEN top - Font \div 2 ELSE top
<1>2. l = Box("y", left, place, LabelW.y, Font)
  BY <1>1
<1>3. l.x = left /\ l.y = place /\ l.w = LabelW.y /\ l.h = Font
  <2> HIDE DEF place
  <2> QED
    BY <1>2 DEF Box
<1>4. s.h \in Nat /\ y \in Int
  BY DEF SizeType
<1>5. top \in Int /\ top >= 0
  BY <1>4 DEF Font, AtLeast
<1>6. lifted => top + Font > s.h - Font
  OBVIOUS
<1> HIDE DEF top, lifted
<1>7. 2 * s.h >= 5 * Font => place >= 0 /\ place + Font <= s.h
  BY <1>4, <1>5, <1>6 DEF Font
<1> QED
  BY <1>3, <1>7

(* The marks that are in the window lie in the plot area. *)
LEMMA PixelsFit ==
    ASSUME NEW a, IsBox(a), Roomy(a), NEW w \in Int \X Int, w[1] < w[2], NEW ts, \A t \in Range(ts) : t \in Int
    PROVE  /\ \A x \in XPixels(a, w, ts) : x \in Int /\ a.x <= x /\ x <= a.x + a.w
           /\ \A y \in YPixels(a, w, ts) : y \in Int /\ a.y <= y /\ y <= a.y + a.h
<1>1. w[1] \in Int /\ w[2] \in Int /\ w[2] - w[1] \in Nat /\ w[2] - w[1] > 0
  OBVIOUS
<1>2. a.w \in Nat /\ a.h \in Nat /\ a.x \in Int /\ a.y \in Int
  BY DEF IsBox, Roomy
<1>3. ASSUME NEW x \in XPixels(a, w, ts) PROVE x \in Int /\ a.x <= x /\ x <= a.x + a.w
  <2>1. PICK t \in Int : x = a.x + ((t - w[1]) * a.w) \div (w[2] - w[1]) /\ w[1] <= t /\ t < w[2]
    BY <1>3 DEF XPixels
  <2>2. t - w[1] \in Int /\ 0 <= t - w[1] /\ t - w[1] <= w[2] - w[1]
    BY <1>1, <2>1
  <2>3. ((t - w[1]) * a.w) \div (w[2] - w[1]) \in 0..a.w
    BY <1>1, <1>2, <2>2, PartFits
  <2> QED
    BY <1>2, <2>1, <2>3
<1>4. ASSUME NEW y \in YPixels(a, w, ts) PROVE y \in Int /\ a.y <= y /\ y <= a.y + a.h
  <2>1. PICK t \in Int : y = a.y + ((w[2] - t) * a.h) \div (w[2] - w[1]) /\ w[1] <= t /\ t < w[2]
    BY <1>4 DEF YPixels
  <2>2. w[2] - t \in Int /\ 0 <= w[2] - t /\ w[2] - t <= w[2] - w[1]
    BY <1>1, <2>1
  <2>3. ((w[2] - t) * a.h) \div (w[2] - w[1]) \in 0..a.h
    BY <1>1, <1>2, <2>2, PartFits
  <2> QED
    BY <1>2, <2>1, <2>3
<1> QED
  BY <1>3, <1>4

(* The line of the times lies in the plot area; below, unless it is to lie at zero; and there otherwise. *)
LEMMA AxisLineFits ==
    ASSUME NEW o \in OptionType, NEW a, IsBox(a), Roomy(a), NEW r \in Int \X Int, r[1] < r[2]
    PROVE  /\ AxisLineY(o, a, r) \in Int /\ a.y <= AxisLineY(o, a, r) /\ AxisLineY(o, a, r) <= a.y + a.h
           /\ ~ o.atZero \/ ~ 0 \in r[1] + 1 .. r[2] => AxisLineY(o, a, r) = a.y + a.h
           /\ o.atZero /\ r[2] = 0 => AxisLineY(o, a, r) = a.y
           /\ o.atZero /\ 0 \in r[1] + 1 .. r[2] => AxisLineY(o, a, r) = a.y + (r[2] * a.h) \div (r[2] - r[1])
<1> DEFINE num == r[2]
           den == r[2] - r[1]
           at == (num * a.h) \div den
           line == AxisLineY(o, a, r)
<1>1. r[1] \in Int /\ num \in Int /\ den \in Nat /\ den > 0
  OBVIOUS
<1>2. a.h \in Nat /\ a.y \in Int
  BY DEF IsBox, Roomy
<1>3. o.atZero \in BOOLEAN
  BY DEF OptionType
<1>4. line = IF o.atZero /\ 0 <= num /\ num <= den THEN a.y + at ELSE a.y + a.h
  BY DEF AxisLineY, toPercentYCoord
<1>5. 0 <= num /\ num <= den => at \in 0..a.h
  <2> HIDE DEF num, den
  <2> QED
    BY <1>1, <1>2, PartFits
<1>6. num = den => at = a.h
  <2>1. (den * a.h) \div den = a.h
    <3> HIDE DEF den
    <3> QED
      BY <1>1, <1>2, WholeFits
  <2> QED
    BY <2>1
<1>7. num = 0 => at = 0
  <2>1. (0 * a.h) \div den = 0
    <3> HIDE DEF den
    <3> QED
      BY <1>1, <1>2, WholeFits
  <2> QED
    BY <2>1
<1>8. 0 \in r[1] + 1 .. r[2] <=> 0 <= num /\ num < den
  BY <1>1
<1> HIDE DEF at, line
<1>9. num < den \/ num = den \/ num > den
  BY <1>1
<1>10. line \in Int /\ a.y <= line /\ line <= a.y + a.h
  BY <1>2, <1>4, <1>5
<1>11. ~ o.atZero \/ ~ 0 \in r[1] + 1 .. r[2] => line = a.y + a.h
  <2> HIDE DEF num, den
  <2> QED
    BY <1>1, <1>2, <1>3, <1>4, <1>6, <1>8
<1>12. o.atZero /\ num = 0 => line = a.y
  BY <1>1, <1>2, <1>4, <1>7
<1>13. o.atZero /\ 0 \in r[1] + 1 .. r[2] => line = a.y + at
  <2> HIDE DEF num, den
  <2> QED
    BY <1>1, <1>4, <1>8
<1> QED
  BY <1>10, <1>11, <1>12, <1>13 DEF line, at
---------------------------------------------------------------------------------
(* The invariant, and a page it describes. *)

(* The marks are numbers, for one of the ranges of values. *)
MarksOK(m) ==
    /\ m.range \in Ranges
    /\ \A t \in Range(m.xticks) : t \in Int
    /\ \A v \in Range(m.yticks) : v \in Int

(* As long as no option that moves pixels waits for a redraw, the frame, the canvas and the drawing are those of *)
(* the size, the options, the window and the marks of now.                                                       *)
Redrawn ==
    /\ frame = computePlotArea(size, opts)
    /\ opts.selector => canvas = {selectorCanvas(frame.area, opts)}
    /\ drawn = willDrawChart(size, opts, frame.area, window, marks)
(* The inductive invariant: the marks are numbers, and what is on the page is of now. *)
FrameInv ==
    /\ size \in Sizes /\ opts \in Options /\ window \in Windows
    /\ MarksOK(marks)
    /\ ~ pending => Redrawn

(* What FrameAssumption says of the constants, by types. *)
LEMMA ConstantTypes ==
    /\ \A s \in Sizes : s \in SizeType
    /\ \A o \in Options : o \in OptionType
    /\ \A w \in Windows : w \in Int \X Int /\ w[1] < w[2]
    /\ \A r \in Ranges : r \in Int \X Int /\ r[1] < r[2]
  BY FrameAssumption DEF SizeType, OptionType

(* The plot area, and where its edges are. *)
LEMMA PlotAreaEdges ==
    ASSUME NEW s \in SizeType, NEW o \in OptionType
    PROVE  /\ IsBox(PlotArea(s, o))
           /\ PlotArea(s, o).x = LeftPx(o) /\ PlotArea(s, o).y = TitlePx(o)
           /\ PlotArea(s, o).y + PlotArea(s, o).h = s.h - XLabelPx(o) - SelectorPx(o) - XPx(o)
           /\ PlotArea(s, o).x + PlotArea(s, o).w = s.w - RightGap - RightPx(o)
<1> DEFINE a == PlotArea(s, o)
<1>1. /\ o.title \in BOOLEAN /\ o.xlabel \in BOOLEAN /\ o.drawX \in BOOLEAN /\ o.drawY \in BOOLEAN
      /\ o.second \in BOOLEAN /\ o.selector \in BOOLEAN /\ s.w \in Nat /\ s.h \in Nat
  BY DEF OptionType, SizeType
<1>2. TitlePx(o) \in Nat /\ XLabelPx(o) \in Nat /\ SelectorPx(o) \in Nat /\ LeftPx(o) \in Nat
      /\ XPx(o) \in Nat /\ RightPx(o) \in Nat /\ s.w - RightGap \in Int
  BY <1>1
  DEF TitlePx, XLabelPx, SelectorPx, LeftPx, XPx, RightPx, Px, RightGap, TitleH, XLabelH, SelectorH, YAxis, XAxis
<1>3. /\ a.x = LeftPx(o) /\ a.y = TitlePx(o) /\ a.w = s.w - RightGap - LeftPx(o) - RightPx(o)
      /\ a.h = s.h - TitlePx(o) - XLabelPx(o) - SelectorPx(o) - XPx(o)
  BY DEF PlotArea, Box
<1> QED
  BY <1>1, <1>2, <1>3 DEF IsBox

(* A picture that was redrawn and has a plot area with any room. *)
Picture == FrameInv /\ ~ pending /\ Roomy(frame.area)

(* All that is known of such a page. *)
LEMMA PictureIs ==
    ASSUME Picture
    PROVE  /\ size \in SizeType /\ opts \in OptionType /\ window \in Int \X Int /\ window[1] < window[2]
           /\ frame = computePlotArea(size, opts) /\ frame.area = PlotArea(size, opts)
           /\ frame.boxes = PlotBoxes(size, opts)
           /\ Tiling(frame, Page(size)) /\ IsBox(frame.area) /\ Roomy(frame.area)
           /\ marks.range \in Int \X Int /\ marks.range[1] < marks.range[2] /\ MarksOK(marks)
           /\ opts.selector => canvas = {selectorCanvas(frame.area, opts)}
           /\ drawn = willDrawChart(size, opts, frame.area, window, marks)
<1>1. size \in SizeType /\ opts \in OptionType /\ window \in Int \X Int /\ window[1] < window[2]
      /\ marks.range \in Int \X Int /\ marks.range[1] < marks.range[2] /\ MarksOK(marks)
  BY ConstantTypes DEF Picture, FrameInv, MarksOK
<1>2. Redrawn /\ Roomy(frame.area)
  BY DEF Picture, FrameInv
<1>3. frame.area = PlotArea(size, opts) /\ frame.boxes = PlotBoxes(size, opts)
  BY <1>1, <1>2, PlotAreaIs DEF Redrawn
<1>4. Tiling(frame, Page(size))
  BY <1>1, <1>2, <1>3, PlotAreaIs DEF Redrawn
<1>5. IsBox(frame.area)
  BY <1>1, <1>3, PlotAreaEdges
<1> QED
  BY <1>1, <1>2, <1>3, <1>4, <1>5 DEF Redrawn

(* The pixels of the marks. *)
LEMMA MarksInPlot ==
    ASSUME Picture
    PROVE  /\ \A x \in XPixels(frame.area, window, marks.xticks) :
                 x \in Int /\ frame.area.x <= x /\ x <= frame.area.x + frame.area.w
           /\ \A y \in YPixels(frame.area, marks.range, marks.yticks) :
                 y \in Int /\ frame.area.y <= y /\ y <= frame.area.y + frame.area.h
<1>1. IsBox(frame.area) /\ Roomy(frame.area)
  BY PictureIs
<1>2. window \in Int \X Int /\ window[1] < window[2] /\ marks.range \in Int \X Int /\ marks.range[1] < marks.range[2]
  BY PictureIs
<1>3. (\A t \in Range(marks.xticks) : t \in Int) /\ (\A v \in Range(marks.yticks) : v \in Int)
  BY PictureIs DEF MarksOK
<1> QED
  BY <1>1, <1>2, <1>3, PixelsFit

(* The parts of the page lie in it, apart, leave nothing out, and are those of the plugins that are on. *)
LEMMA BoxesFit ==
    ASSUME Picture, NEW parts, parts = frame.boxes \cup {frame.area}
    PROVE  /\ \A b \in parts : Within(b, Page(size)) /\ \A c \in parts : b = c \/ Apart(b, c)
           /\ \A x \in UNION {{b.x, b.x + b.w} : b \in parts}, y \in UNION {{b.y, b.y + b.h} : b \in parts} :
                 Covers(Page(size), x, y) => \E b \in parts : Covers(b, x, y)
           /\ {b.name : b \in frame.boxes} = {r.name : r \in {q \in Range(layout(opts)) : q.on}}
<1>1. InPage(frame, Page(size)) /\ Disjoint(frame) /\ Covered(frame, Page(size))
  BY PictureIs DEF Tiling
<1>2. \A b \in parts : Within(b, Page(size)) /\ \A c \in parts : b = c \/ Apart(b, c)
  BY <1>1 DEF InPage, Disjoint
<1>3. \A b \in parts : b.x \in Int /\ b.x + b.w \in Int /\ b.y \in Int /\ b.y + b.h \in Int
  BY <1>1 DEF InPage, IsBox
<1>4. /\ \A x \in UNION {{b.x, b.x + b.w} : b \in parts} : x \in Int
      /\ \A y \in UNION {{b.y, b.y + b.h} : b \in parts} : y \in Int
  BY <1>3
<1>5. \A x \in Int, y \in Int : Covers(Page(size), x, y) => \E b \in parts : Covers(b, x, y)
  BY <1>1 DEF Covered
<1>6. {b.name : b \in frame.boxes} = {r.name : r \in {q \in Range(layout(opts)) : q.on}}
  BY PictureIs, NamedBoxes
<1> QED
  BY <1>2, <1>4, <1>5, <1>6

(* The labels of the times lie in the box of their axis, and on the page if that is wide enough for one. *)
LEMMA LabelsOfTimesFit ==
    ASSUME Picture, NEW l \in drawn.xlabels
    PROVE  \E b \in Boxes("x") :
              /\ l.y >= b.y /\ l.y + l.h <= b.y + b.h
              /\ l.x >= 0 /\ l.x + l.w <= AtLeast(size.w, LabelW.x)
<1> DEFINE a == frame.area
           b == Box("x", LeftPx(opts), size.h - XLabelPx(opts) - SelectorPx(opts) - XAxis,
                    size.w - RightGap - LeftPx(opts), XAxis)
<1>1. size \in SizeType /\ opts \in OptionType /\ a = PlotArea(size, opts) /\ frame.boxes = PlotBoxes(size, opts)
  BY PictureIs
<1>2. drawn.xlabels = IF opts.drawX THEN XLabels(a, size, XPixels(a, window, marks.xticks)) ELSE {}
  BY PictureIs DEF willDrawChart
<1>3. opts.drawX /\ l \in XLabels(a, size, XPixels(a, window, marks.xticks))
  BY <1>2
<1>4. XPixels(a, window, marks.xticks) \in SUBSET Int
  BY MarksInPlot
<1>5. /\ l.y = a.y + a.h + 3 /\ l.h = Font
      /\ l.x >= 0 /\ l.x + l.w <= AtLeast(size.w, LabelW.x)
  BY <1>1, <1>3, <1>4, XLabelsFit
<1>6. Boxes("x") = One(opts.drawX, b)
  BY <1>1, NamedBoxes DEF Boxes
<1>7. b \in Boxes("x")
  <2> HIDE DEF b
  <2> QED
    BY <1>3, <1>6 DEF One
<1>8. b.y = size.h - XLabelPx(opts) - SelectorPx(opts) - XAxis /\ b.h = XAxis
  BY DEF Box
<1>9. a.y + a.h = size.h - XLabelPx(opts) - SelectorPx(opts) - XAxis
  BY <1>1, <1>3, PlotAreaEdges DEF XPx, Px
<1>10. a.y + a.h \in Int
  BY <1>1, PlotAreaEdges DEF IsBox
<1> HIDE DEF a, b
<1>11. l.y >= b.y /\ l.y + l.h <= b.y + b.h
  <2>1. PICK n \in Int : n = a.y + a.h
    BY <1>10
  <2>2. l.y = n + 3 /\ b.y = n
    BY <1>5, <1>8, <1>9, <2>1
  <2> QED
    BY <1>5, <1>8, <2>1, <2>2 DEF Font, XAxis
<1> QED
  BY <1>5, <1>7, <1>11
---------------------------------------------------------------------------------
(* What is drawn lies where it belongs. *)

(* The labels of the values lie beside the plot, and on the page if that is high enough. *)
LEMMA LabelsOfValuesFit ==
    ASSUME Picture, NEW l \in drawn.ylabels
    PROVE  \E b \in Boxes("y") \cup Boxes("y2") :
              /\ l.x >= b.x /\ l.x + l.w <= b.x + b.w
              /\ 2 * size.h >= 5 * Font => l.y >= 0 /\ l.y + l.h <= size.h
<1> DEFINE a == frame.area
           yp == YPixels(a, marks.range, marks.yticks)
           b == Box("y", 0, TitlePx(opts), YAxis, size.h - TitlePx(opts) - XLabelPx(opts) - SelectorPx(opts))
           c == Box("y2", size.w - RightGap - YAxis, TitlePx(opts), YAxis,
                    size.h - TitlePx(opts) - XLabelPx(opts) - SelectorPx(opts) - XPx(opts))
<1>1. size \in SizeType /\ opts \in OptionType /\ a = PlotArea(size, opts) /\ frame.boxes = PlotBoxes(size, opts)
  BY PictureIs
<1>2. drawn.ylabels = IF ~ opts.drawY THEN {}
                      ELSE YLabels(a, size, a.x - LabelW.y - 3, yp, TRUE)
                           \cup IF opts.second THEN YLabels(a, size, a.x + a.w + 3, yp, FALSE) ELSE {}
  <2> DEFINE ls == IF ~ opts.drawY THEN {}
                   ELSE YLabels(a, size, a.x - LabelW.y - 3, yp, TRUE)
                        \cup IF opts.second THEN YLabels(a, size, a.x + a.w + 3, yp, FALSE) ELSE {}
  <2>1. PICK xls, lines, axes : drawn = [xlabels |-> xls, ylabels |-> ls, lines |-> lines, axes |-> axes]
    <3>1. drawn = willDrawChart(size, opts, a, window, marks)
      BY PictureIs
    <3> QED
      BY <3>1, Zenon DEF willDrawChart
  <2> HIDE DEF ls
  <2>2. drawn.ylabels = ls
    BY <2>1
  <2> QED
    BY <2>2 DEF ls
<1>3. yp \in SUBSET Int
  BY MarksInPlot
<1>4. Boxes("y") = One(opts.drawY, b) /\ Boxes("y2") = One(opts.second, c)
  BY <1>1, NamedBoxes DEF Boxes
<1>5. b.x = 0 /\ b.w = YAxis /\ c.x = size.w - RightGap - YAxis /\ c.w = YAxis
  BY DEF Box
<1>6. size.w \in Nat /\ LabelW.y = 50
  BY <1>1 DEF SizeType, LabelW
<1> HIDE DEF b, c
<1>7. CASE opts.drawY /\ l \in YLabels(a, size, a.x - LabelW.y - 3, yp, TRUE)
  <2>1. /\ l.x = a.x - LabelW.y - 3 /\ l.w = LabelW.y
        /\ 2 * size.h >= 5 * Font => l.y >= 0 /\ l.y + l.h <= size.h
    BY <1>1, <1>3, <1>7, YLabelsFit
  <2>2. b \in Boxes("y")
    BY <1>4, <1>7 DEF One
  <2>3. a.x = YAxis
    BY <1>1, <1>7, PlotAreaEdges DEF LeftPx, Px
  <2>4. l.x >= b.x /\ l.x + l.w <= b.x + b.w
    BY <1>5, <1>6, <2>1, <2>3 DEF YAxis
  <2> QED
    BY <2>1, <2>2, <2>4
<1>8. CASE opts.second /\ l \in YLabels(a, size, a.x + a.w + 3, yp, FALSE)
  <2>1. /\ l.x = a.x + a.w + 3 /\ l.w = LabelW.y
        /\ 2 * size.h >= 5 * Font => l.y >= 0 /\ l.y + l.h <= size.h
    BY <1>1, <1>3, <1>8, YLabelsFit
  <2>2. c \in Boxes("y2")
    BY <1>4, <1>8 DEF One
  <2>3. a.x + a.w = size.w - RightGap - YAxis
    BY <1>1, <1>8, PlotAreaEdges DEF RightPx, Px
  <2>4. l.x = size.w - RightGap - YAxis + 3
    BY <2>1, <2>3
  <2>5. l.x >= c.x /\ l.x + l.w <= c.x + c.w
    BY <1>5, <1>6, <2>1, <2>4 DEF YAxis, RightGap
  <2> QED
    BY <2>1, <2>2, <2>5
<1> QED
  BY <1>2, <1>7, <1>8

(* The grid lies in the plot. *)
LEMMA GridFits ==
    ASSUME Picture, NEW l \in drawn.lines
    PROVE  IF l[1] = "x" THEN frame.area.x <= l[2] /\ l[2] <= frame.area.x + frame.area.w
           ELSE frame.area.y <= l[2] /\ l[2] <= frame.area.y + frame.area.h
<1> DEFINE xp == XPixels(frame.area, window, marks.xticks)
           yp == YPixels(frame.area, marks.range, marks.yticks)
<1>1. drawn.lines = {<<"x", x>> : x \in xp} \cup {<<"y", y>> : y \in yp}
  BY PictureIs DEF willDrawChart
<1>2. /\ \A x \in xp : frame.area.x <= x /\ x <= frame.area.x + frame.area.w
      /\ \A y \in yp : frame.area.y <= y /\ y <= frame.area.y + frame.area.h
  BY MarksInPlot
<1> HIDE DEF xp, yp
<1>3. CASE l \in {<<"x", x>> : x \in xp}
  BY <1>2, <1>3
<1>4. CASE l \in {<<"y", y>> : y \in yp}
  BY <1>2, <1>4
<1> QED
  BY <1>1, <1>3, <1>4

(* The line of the times meets the line of the grid for zero, if there is one. *)
LEMMA ZeroLineIsDrawn ==
    ASSUME Picture, 0 \in marks.range[1] + 1 .. marks.range[2], marks.range[2] # 0, 0 \in Range(marks.yticks)
    PROVE  <<"y", frame.area.y + (marks.range[2] * frame.area.h) \div (marks.range[2] - marks.range[1])>>
              \in drawn.lines
<1> DEFINE a == frame.area
           r == marks.range
           yp == YPixels(a, r, marks.yticks)
<1>1. drawn.lines = {<<"x", x>> : x \in XPixels(a, window, marks.xticks)} \cup {<<"y", y>> : y \in yp}
  BY PictureIs DEF willDrawChart
<1>2. r[1] \in Int /\ r[2] \in Int /\ r[1] < r[2]
  BY PictureIs
<1>3. r[1] <= 0 /\ 0 < r[2] /\ r[2] - 0 = r[2]
  BY <1>2
<1>4. a.y + ((r[2] - 0) * a.h) \div (r[2] - r[1]) \in yp
  <2> HIDE DEF a, r
  <2> QED
    BY <1>3 DEF YPixels
<1> HIDE DEF yp, a, r
<1>5. a.y + (r[2] * a.h) \div (r[2] - r[1]) \in yp
  BY <1>3, <1>4
<1> QED
  BY <1>1, <1>5 DEF a, r

(* The lines of the axes lie in the plot; that of the times at its bottom or at zero. *)
LEMMA AxesFit ==
    ASSUME Picture, NEW l \in drawn.axes
    PROVE  /\ Within(Box("axis", l.from[1], l.from[2], l.to[1] - l.from[1], l.to[2] - l.from[2]), frame.area)
           /\ l.axis = "x" => IF ~ opts.atZero \/ ~ 0 \in marks.range[1] + 1 .. marks.range[2]
                              THEN \A b \in Boxes("x") : l.from[2] = b.y
                              ELSE IF marks.range[2] = 0 THEN l.from[2] = frame.area.y
                              ELSE 0 \in Range(marks.yticks) => <<"y", l.from[2]>> \in drawn.lines
<1> DEFINE a == frame.area
           r == marks.range
           at == AxisLineY(opts, a, r)
           xline == [axis |-> "x", from |-> <<a.x, at>>, to |-> <<a.x + a.w, at>>]
           yline(x) == [axis |-> "y", from |-> <<x, a.y>>, to |-> <<x, a.y + a.h>>]
           b == Box("x", LeftPx(opts), size.h - XLabelPx(opts) - SelectorPx(opts) - XAxis,
                    size.w - RightGap - LeftPx(opts), XAxis)
<1>1. size \in SizeType /\ opts \in OptionType /\ a = PlotArea(size, opts) /\ frame.boxes = PlotBoxes(size, opts)
  BY PictureIs
<1>2. drawn.axes = AxisLines(opts, a, r)
  BY PictureIs DEF willDrawChart
<1>3. IsBox(a) /\ Roomy(a) /\ r \in Int \X Int /\ r[1] < r[2]
  BY PictureIs
<1>4. /\ at \in Int /\ a.y <= at /\ at <= a.y + a.h
      /\ ~ opts.atZero \/ ~ 0 \in r[1] + 1 .. r[2] => at = a.y + a.h
      /\ opts.atZero /\ r[2] = 0 => at = a.y
      /\ opts.atZero /\ 0 \in r[1] + 1 .. r[2] => at = a.y + (r[2] * a.h) \div (r[2] - r[1])
  <2> HIDE DEF a, r
  <2> QED
    BY <1>1, <1>3, AxisLineFits DEF at
<1>5. a.x \in Int /\ a.y \in Int /\ a.w \in Nat /\ a.h \in Nat
  BY <1>3 DEF IsBox, Roomy
<1>6. (opts.drawX /\ l = xline) \/ (l.axis = "y" /\ \E x \in {a.x, a.x + a.w} : l = yline(x))
  <2>1. AxisLines(opts, a, r) \subseteq (IF opts.drawX THEN {xline} ELSE {}) \cup {yline(x) : x \in {a.x, a.x + a.w}}
    BY DEF AxisLines
  <2>2. \A x : yline(x).axis = "y"
    OBVIOUS
  <2> HIDE DEF xline, yline
  <2> QED
    BY <1>2, <2>1, <2>2
<1>7. CASE opts.drawX /\ l = xline
  <2>1. l.axis = "x" /\ l.from[1] = a.x /\ l.from[2] = at /\ l.to[1] = a.x + a.w /\ l.to[2] = at
    BY <1>7
  <2>2. Within(Box("axis", l.from[1], l.from[2], l.to[1] - l.from[1], l.to[2] - l.from[2]), a)
    <3> HIDE DEF at, a
    <3> QED
      BY <1>4, <1>5, <2>1 DEF Within, Box
  <2>3. ASSUME ~ opts.atZero \/ ~ 0 \in r[1] + 1 .. r[2], NEW c \in Boxes("x") PROVE l.from[2] = c.y
    <3>1. Boxes("x") = One(opts.drawX, b)
      BY <1>1, NamedBoxes DEF Boxes
    <3>2. c = b
      <4> HIDE DEF b
      <4> QED
        BY <1>7, <2>3, <3>1 DEF One
    <3>3. b.y = size.h - XLabelPx(opts) - SelectorPx(opts) - XAxis
      BY DEF Box
    <3>4. a.y + a.h = size.h - XLabelPx(opts) - SelectorPx(opts) - XAxis
      BY <1>1, <1>7, PlotAreaEdges DEF XPx, Px
    <3>5. at = a.y + a.h
      <4> HIDE DEF at, a, r
      <4> QED
        BY <1>4, <2>3
    <3> HIDE DEF at, a, b
    <3> QED
      BY <2>1, <3>2, <3>3, <3>4, <3>5
  <2>4. ASSUME opts.atZero, 0 \in r[1] + 1 .. r[2], r[2] = 0 PROVE l.from[2] = a.y
    <3> HIDE DEF at, a, r
    <3> QED
      BY <1>4, <2>1, <2>4
  <2>5. ASSUME opts.atZero, 0 \in r[1] + 1 .. r[2], r[2] # 0, 0 \in Range(marks.yticks)
        PROVE  <<"y", l.from[2]>> \in drawn.lines
    <3>1. <<"y", a.y + (r[2] * a.h) \div (r[2] - r[1])>> \in drawn.lines
      BY <2>5, ZeroLineIsDrawn
    <3> HIDE DEF at, a, r
    <3> QED
      BY <1>4, <2>1, <2>5, <3>1
  <2>6. opts.atZero \in BOOLEAN
    BY <1>1 DEF OptionType
  <2> HIDE DEF at, xline, b
  <2> QED
    BY <2>2, <2>3, <2>4, <2>5, <2>6
<1>8. CASE l.axis = "y" /\ \E x \in {a.x, a.x + a.w} : l = yline(x)
  <2>1. PICK x \in {a.x, a.x + a.w} : l = yline(x)
    BY <1>8
  <2>2. l.axis = "y" /\ l.from[1] = x /\ l.from[2] = a.y /\ l.to[1] = x /\ l.to[2] = a.y + a.h
    BY <2>1
  <2>3. Within(Box("axis", l.from[1], l.from[2], l.to[1] - l.from[1], l.to[2] - l.from[2]), a)
    <3> HIDE DEF a
    <3> QED
      BY <1>5, <2>2 DEF Within, Box
  <2> QED
    BY <2>2, <2>3
<1> QED
  BY <1>6, <1>7, <1>8

(* The range selector's canvas lies in its box. *)
LEMMA CanvasFits ==
    ASSUME Picture, opts.selector, NEW c \in canvas, NEW b \in Boxes("selector")
    PROVE  Within(c, b)
<1> DEFINE a == frame.area
           e == Box("selector", 0, size.h - XLabelPx(opts) - (SelectorH + 4), size.w - RightGap, SelectorH + 4)
<1>1. size \in SizeType /\ opts \in OptionType /\ a = PlotArea(size, opts) /\ frame.boxes = PlotBoxes(size, opts)
  BY PictureIs
<1>2. c = selectorCanvas(a, opts)
  BY PictureIs
<1>3. Boxes("selector") = One(opts.selector, e)
  BY <1>1, NamedBoxes DEF Boxes
<1>4. b = e
  <2> HIDE DEF e
  <2> QED
    BY <1>3 DEF One
<1>5. e.x = 0 /\ e.y = size.h - XLabelPx(opts) - (SelectorH + 4) /\ e.w = size.w - RightGap /\ e.h = SelectorH + 4
  BY DEF Box
<1>6. c.x = a.x /\ c.y = a.y + a.h + XPx(opts) + 4 /\ c.w = a.w /\ c.h = SelectorH
  BY <1>2 DEF selectorCanvas, Box, XPx, Px
<1>7. /\ IsBox(a) /\ a.x = LeftPx(opts) /\ a.y + a.h = size.h - XLabelPx(opts) - SelectorPx(opts) - XPx(opts)
      /\ a.x + a.w = size.w - RightGap - RightPx(opts)
  BY <1>1, PlotAreaEdges
<1>8. /\ SelectorPx(opts) = SelectorH + 4 /\ XPx(opts) \in Nat /\ LeftPx(opts) \in Nat /\ RightPx(opts) \in Nat
      /\ XLabelPx(opts) \in Nat /\ size.h \in Nat /\ size.w \in Nat
  BY <1>1 DEF SelectorPx, XPx, LeftPx, RightPx, XLabelPx, Px, XAxis, YAxis, XLabelH, OptionType, SizeType
<1> HIDE DEF a, e
<1>9. c.y = size.h - XLabelPx(opts) - SelectorH
  BY <1>6, <1>7, <1>8 DEF SelectorH
<1>10. c.x >= 0 /\ c.x + c.w <= size.w - RightGap
  BY <1>6, <1>7, <1>8 DEF RightGap
<1> QED
  BY <1>4, <1>5, <1>6, <1>8, <1>9, <1>10 DEF Within, SelectorH, RightGap

(* FrameFits follows from the inductive invariant. *)
LEMMA FrameInvFits == FrameInv => FrameFits
<1> SUFFICES ASSUME Picture PROVE FrameFits
  BY DEF Picture, FrameFits
<1> DEFINE parts == frame.boxes \cup {frame.area}
<1>1. Page(size) = Box("page", 0, 0, size.w - RightGap, size.h)
  BY DEF Page
<1>2. /\ \A b \in parts : Within(b, Page(size)) /\ \A c \in parts : b = c \/ Apart(b, c)
      /\ \A x \in UNION {{b.x, b.x + b.w} : b \in parts}, y \in UNION {{b.y, b.y + b.h} : b \in parts} :
            Covers(Page(size), x, y) => \E b \in parts : Covers(b, x, y)
      /\ {b.name : b \in frame.boxes} = {r.name : r \in {q \in Range(layout(opts)) : q.on}}
  BY BoxesFit
<1> QED
  BY <1>1, <1>2, LabelsOfTimesFit, LabelsOfValuesFit, GridFits, AxesFit, CanvasFits, Zenon DEF FrameFits
---------------------------------------------------------------------------------
(* The operations. *)

(* Marks: whatever base a rounded logarithm leads to, the marks are numbers. *)
LEMMA MarksAreNumbers ==
    ASSUME NEW a, NEW o \in OptionType, NEW w \in Windows, NEW m \in Marks(a, o, w)
    PROVE  MarksOK(m)
<1>1. PICK r \in Ranges : \E base \in BaseScales(r[1], r[2], a.h, PerYLabel, IF o.kmg2 THEN 16 ELSE 10) :
         m = [range |-> r, xticks |-> dateTicker(w[1], w[2], a.w, PerXLabel),
              yticks |-> numericTicks(r[1], r[2], a.h, PerYLabel, o.kmg2, base)]
  BY DEF Marks
<1> DEFINE k == IF o.kmg2 THEN 16 ELSE 10
<1>2. PICK base \in BaseScales(r[1], r[2], a.h, PerYLabel, k) :
         m = [range |-> r, xticks |-> dateTicker(w[1], w[2], a.w, PerXLabel),
              yticks |-> numericTicks(r[1], r[2], a.h, PerYLabel, o.kmg2, base)]
  BY <1>1
<1>3. m.range = r /\ m.xticks = dateTicker(w[1], w[2], a.w, PerXLabel)
      /\ m.yticks = numericTicks(r[1], r[2], a.h, PerYLabel, o.kmg2, base)
  BY <1>2
<1>4. r[1] \in Int /\ r[2] \in Int /\ w[1] \in Int /\ w[2] \in Int
  BY FrameAssumption
<1>5. k \in {10, 16}
  OBVIOUS
<1>6. base \in Nat \ {0}
  <2> HIDE DEF k
  <2> QED
    BY <1>4, <1>5, BasesArePositive
<1>7. \A v \in Range(m.yticks) : v \in Int
  BY <1>3, <1>4, <1>6, ValuesAreMarked
<1>8. PICK s \in Shifts : s.at <= w[1] /\ MonthStart[0] <= Local(w[1])
  BY FrameAssumption
<1>9. \A t \in Range(m.xticks) : t \in Int
  BY <1>3, <1>4, <1>8, TimesAreMarked
<1> QED
  BY <1>3, <1>7, <1>9 DEF MarksOK

(* An option that is on the list of those that move no pixel does not. *)
LEMMA NoPixelMoves ==
    ASSUME NEW o \in OptionType, NEW p \in OptionType, [o EXCEPT !.kmg2 = p.kmg2] = p
    PROVE  /\ \A s : computePlotArea(s, o) = computePlotArea(s, p)
           /\ \A a : selectorCanvas(a, o) = selectorCanvas(a, p)
           /\ \A s, a, w, m : willDrawChart(s, o, a, w, m) = willDrawChart(s, p, a, w, m)
           /\ o.selector = p.selector
<1> DEFINE q == [o EXCEPT !.kmg2 = p.kmg2]
<1>1. q.title = o.title /\ q.xlabel = o.xlabel /\ q.drawX = o.drawX /\ q.drawY = o.drawY /\ q.second = o.second
      /\ q.selector = o.selector /\ q.atZero = o.atZero
  BY DEF OptionType
<1>2. o.title = p.title /\ o.xlabel = p.xlabel /\ o.drawX = p.drawX /\ o.drawY = p.drawY /\ o.second = p.second
      /\ o.selector = p.selector /\ o.atZero = p.atZero
  BY <1>1
<1>3. layout(o) = layout(p)
  BY <1>2 DEF layout
<1>4. \A s : computePlotArea(s, o) = computePlotArea(s, p)
  BY <1>3, Zenon DEF computePlotArea
<1>5. \A a : selectorCanvas(a, o) = selectorCanvas(a, p)
  BY <1>2, Zenon DEF selectorCanvas
<1>6. \A a, r : AxisLineY(o, a, r) = AxisLineY(p, a, r)
  BY <1>2, Zenon DEF AxisLineY
<1>7. \A a, r : AxisLines(o, a, r) = AxisLines(p, a, r)
  BY <1>2, <1>6, Zenon DEF AxisLines
<1>8. \A s, a, w, m : willDrawChart(s, o, a, w, m) = willDrawChart(s, p, a, w, m)
  <2> SUFFICES ASSUME NEW s, NEW a, NEW w, NEW m
               PROVE  willDrawChart(s, o, a, w, m) = willDrawChart(s, p, a, w, m)
    OBVIOUS
  <2> DEFINE xp == XPixels(a, w, m.xticks)
             yp == YPixels(a, m.range, m.yticks)
             xl(q2) == IF q2 THEN XLabels(a, s, xp) ELSE {}
             yl(q2, q3) == IF ~ q2 THEN {}
                           ELSE YLabels(a, s, a.x - LabelW.y - 3, yp, TRUE)
                                \cup IF q3 THEN YLabels(a, s, a.x + a.w + 3, yp, FALSE) ELSE {}
             ln == {<<"x", x>> : x \in xp} \cup {<<"y", y>> : y \in yp}
  <2>1. willDrawChart(s, o, a, w, m) = [xlabels |-> xl(o.drawX), ylabels |-> yl(o.drawY, o.second),
                                        lines |-> ln, axes |-> AxisLines(o, a, m.range)]
    BY Zenon DEF willDrawChart
  <2>2. willDrawChart(s, p, a, w, m) = [xlabels |-> xl(p.drawX), ylabels |-> yl(p.drawY, p.second),
                                        lines |-> ln, axes |-> AxisLines(p, a, m.range)]
    BY Zenon DEF willDrawChart
  <2>3. xl(o.drawX) = xl(p.drawX) /\ yl(o.drawY, o.second) = yl(p.drawY, p.second)
        /\ AxisLines(o, a, m.range) = AxisLines(p, a, m.range)
    BY <1>2, <1>7, Zenon
  <2> HIDE DEF xl, yl, ln
  <2> QED
    BY <2>1, <2>2, <2>3, Zenon
<1> QED
  BY <1>2, <1>4, <1>5, <1>8

(* A redraw of the marks, in whatever frame there is. *)
LEMMA GraphIsDrawn ==
    ASSUME NEW s, NEW o \in Options, NEW f, NEW w \in Windows, drawGraph(s, o, f, w)
    PROVE  MarksOK(marks') /\ drawn' = willDrawChart(s, o, f.area, w, marks')
<1>1. PICK m \in Marks(f.area, o, w) : marks' = m /\ renderGraph(s, o, f, w, m)
  BY DEF drawGraph
<1>2. MarksOK(m)
  BY ConstantTypes, MarksAreNumbers
<1> QED
  BY <1>1, <1>2 DEF renderGraph

(* predraw_ makes everything anew. *)
LEMMA PredrawRedraws ==
    ASSUME size' \in Sizes, opts' \in Options, window' \in Windows, predraw(size', opts', window')
    PROVE  FrameInv'
<1>1. /\ frame' = computePlotArea(size', opts')
      /\ canvas' = IF opts'.selector THEN {selectorCanvas(frame'.area, opts')} ELSE canvas
      /\ drawGraph(size', opts', frame', window')
  BY DEF predraw
<1>2. MarksOK(marks') /\ drawn' = willDrawChart(size', opts', frame'.area, window', marks')
  BY <1>1, GraphIsDrawn
<1>3. opts'.selector => canvas' = {selectorCanvas(frame'.area, opts')}
  BY <1>1
<1> QED
  BY <1>1, <1>2, <1>3 DEF FrameInv, Redrawn, MarksOK

(* The first drawing is of now. *)
LEMMA FrameInit == Init => FrameInv
<1> SUFFICES ASSUME Init PROVE FrameInv
  OBVIOUS
<1>1. size \in Sizes /\ opts \in Options /\ window \in Windows
  BY DEF Init
<1>2. MarksOK(marks)
  BY <1>1, ConstantTypes, MarksAreNumbers DEF Init
<1>3. Redrawn
  BY DEF Init, Redrawn
<1> QED
  BY <1>1, <1>2, <1>3 DEF FrameInv

(* Options that are set, with and without a redraw. *)
LEMMA OptionsKeepTheFrame ==
    ASSUME FrameInv, NEW o \in Options, NEW block \in BOOLEAN, updateOptions(o, block)
    PROVE  FrameInv'
<1>1. opts' = o /\ size' = size /\ window' = window
  BY DEF updateOptions
<1>2. size \in Sizes /\ opts \in Options /\ window \in Windows /\ MarksOK(marks) /\ (~ pending => Redrawn)
  BY DEF FrameInv
<1>3. ASSUME ~ isPixelChangingOptionList(o), Redrawn
      PROVE  /\ frame = computePlotArea(size, o)
             /\ o.selector => canvas = {selectorCanvas(frame.area, o)}
             /\ drawn = willDrawChart(size, o, frame.area, window, marks)
  <2>1. [o EXCEPT !.kmg2 = opts.kmg2] = opts
    BY <1>3 DEF isPixelChangingOptionList
  <2>2. o \in OptionType /\ opts \in OptionType
    BY <1>2, ConstantTypes
  <2>3. /\ computePlotArea(size, o) = computePlotArea(size, opts)
        /\ selectorCanvas(frame.area, o) = selectorCanvas(frame.area, opts)
        /\ willDrawChart(size, o, frame.area, window, marks) = willDrawChart(size, opts, frame.area, window, marks)
        /\ o.selector = opts.selector
    BY <2>1, <2>2, NoPixelMoves
  <2> QED
    BY <1>3, <2>3 DEF Redrawn
<1>4. CASE block
  <2>1. /\ pending' = (pending \/ isPixelChangingOptionList(o))
        /\ UNCHANGED <<frame, canvas, marks, drawn>>
    BY <1>4 DEF updateOptions
  <2>2. ASSUME ~ pending' PROVE Redrawn'
    <3>1. ~ pending /\ ~ isPixelChangingOptionList(o)
      BY <2>1, <2>2
    <3> QED
      BY <1>1, <1>2, <1>3, <2>1, <3>1 DEF Redrawn
  <2> QED
    BY <1>1, <1>2, <2>1, <2>2 DEF FrameInv, MarksOK
<1>5. CASE ~ block /\ isPixelChangingOptionList(o)
  <2>1. predraw(size, o, window)
    BY <1>5 DEF updateOptions
  <2> QED
    BY <1>1, <1>2, <2>1, PredrawRedraws
<1>6. CASE ~ block /\ ~ isPixelChangingOptionList(o)
  <2>1. /\ renderGraph(size, o, frame, window, marks)
        /\ UNCHANGED <<frame, canvas, marks, pending>>
    BY <1>6 DEF updateOptions
  <2>2. drawn' = willDrawChart(size, o, frame.area, window, marks)
    BY <2>1 DEF renderGraph
  <2>3. ASSUME ~ pending' PROVE Redrawn'
    BY <1>1, <1>2, <1>3, <1>6, <2>1, <2>2, <2>3 DEF Redrawn
  <2> QED
    BY <1>1, <1>2, <2>1, <2>3 DEF FrameInv, MarksOK
<1> QED
  BY <1>4, <1>5, <1>6

(* Every operation keeps the invariant. *)
LEMMA FrameStep == FrameInv /\ [Next]_frameVars => FrameInv'
<1> SUFFICES ASSUME FrameInv, [Next]_frameVars PROVE FrameInv'
  OBVIOUS
<1>1. size \in Sizes /\ opts \in Options /\ window \in Windows /\ MarksOK(marks) /\ (~ pending => Redrawn)
  BY DEF FrameInv
<1>2. ASSUME NEW o \in Options, NEW block \in BOOLEAN, updateOptions(o, block) PROVE FrameInv'
  BY <1>2, OptionsKeepTheFrame
<1>3. ASSUME NEW w \in Windows, updateWindow(w) PROVE FrameInv'
  <2>1. window' = w /\ size' = size /\ opts' = opts /\ predraw(size, opts, w)
    BY <1>3 DEF updateWindow
  <2> QED
    BY <1>1, <2>1, PredrawRedraws
<1>4. ASSUME NEW w \in Windows, zoom(w) PROVE FrameInv'
  <2>1. /\ window' = w /\ UNCHANGED <<size, opts, frame, canvas, pending>>
        /\ drawGraph(size, opts, frame, w)
    BY <1>4 DEF zoom
  <2>2. MarksOK(marks') /\ drawn' = willDrawChart(size, opts, frame.area, w, marks')
    BY <1>1, <2>1, GraphIsDrawn
  <2>3. ASSUME ~ pending' PROVE Redrawn'
    BY <1>1, <2>1, <2>2, <2>3 DEF Redrawn
  <2> QED
    BY <1>1, <2>1, <2>2, <2>3 DEF FrameInv, MarksOK
<1>5. ASSUME NEW s \in Sizes, resize(s) PROVE FrameInv'
  <2>1. size' = s /\ opts' = opts /\ window' = window
    BY <1>5 DEF resize
  <2>2. CASE s # size
    <3>1. predraw(s, opts, window)
      BY <1>5, <2>2 DEF resize
    <3> QED
      BY <1>1, <2>1, <3>1, PredrawRedraws
  <2>3. CASE s = size
    <3>1. UNCHANGED <<frame, canvas, marks, drawn, pending>>
      BY <1>5, <2>3 DEF resize
    <3> QED
      BY <1>1, <2>1, <2>3, <3>1 DEF FrameInv, Redrawn, MarksOK
  <2> QED
    BY <2>2, <2>3
<1>6. ASSUME resizeLater PROVE FrameInv'
  <2>1. size' = size /\ opts' = opts /\ window' = window /\ predraw(size, opts, window)
    BY <1>6 DEF resizeLater
  <2> QED
    BY <1>1, <2>1, PredrawRedraws
<1>7. CASE UNCHANGED frameVars
  BY <1>1, <1>7 DEF FrameInv, Redrawn, MarksOK, frameVars
<1> QED
  BY <1>2, <1>3, <1>4, <1>5, <1>6, <1>7 DEF Next

(* What is on the page was made of the size, the options, the window and the marks of now, however often the page was *)
(* resized, options set and times zoomed, unless an option that moves pixels was set without a redraw.               *)
THEOREM FrameIsRedrawn == Spec => []FrameInv
  BY FrameInit, FrameStep, PTL DEF Spec

(* computePlotArea, willDrawChart, resize_: the boxes of the plugins and the plot area tile the page, and labels,  *)
(* grid, axes and the range selector's canvas lie where they belong, for every page, all options, windows, ranges. *)
THEOREM FrameAlwaysFits == Spec => []FrameFits
  BY FrameIsRedrawn, FrameInvFits, PTL
---------------------------------------------------------------------------------
(* The marks of values: how far apart they are. *)

(* A common positive factor may be left out of a comparison. *)
LEMMA FactorOut ==
    ASSUME NEW s \in Nat \ {0}, NEW p \in Int, NEW q \in Int, s * p < s * q
    PROVE  p < q
<1>1. ASSUME q <= p PROVE FALSE
  <2>1. p - q \in Nat /\ s * (p - q) >= 0
    BY <1>1
  <2>2. s * (p - q) = s * p - s * q
    OBVIOUS
  <2> QED
    BY <2>1, <2>2
<1> QED
  BY <1>1

(* The number of distances between the marks. *)
Steps(a, b, s) == CeilDiv(b, s) - (a \div s)

(* The outer marks reach over the range, by less than a distance. *)
LEMMA StepsReach ==
    ASSUME NEW a \in Int, NEW b \in Int, NEW s \in Nat \ {0}
    PROVE  /\ Steps(a, b, s) \in Int /\ a \div s \in Int /\ CeilDiv(b, s) \in Int
           /\ s * (a \div s) <= a /\ b <= s * CeilDiv(b, s)
           /\ b - a <= s * Steps(a, b, s) /\ s * Steps(a, b, s) < b - a + 2 * s
<1> DEFINE l == a \div s
           m == (- b) \div s
<1>1. l \in Int /\ m \in Int /\ s * l <= a /\ a < s * l + s /\ s * m <= - b /\ - b < s * m + s
  OBVIOUS
<1>2. CeilDiv(b, s) = - m /\ Steps(a, b, s) = - m - l
  BY DEF CeilDiv, Steps
<1> HIDE DEF l, m
<1>3. s * (- m) = - (s * m) /\ s * (- m - l) = - (s * m) - s * l
  BY <1>1
<1> QED
  BY <1>1, <1>2, <1>3 DEF l

(* Marks are far enough apart when their distances are fewer than the labels there is room for. *)
LEMMA RoomForLabels ==
    ASSUME NEW h \in Int, NEW n \in Int
    PROVE  /\ CeilDiv(h, PerYLabel) \in Int
           /\ h > PerYLabel * n <=> n < CeilDiv(h, PerYLabel)
           /\ h > 2 * PerYLabel => 3 <= CeilDiv(h, PerYLabel)
  BY DEF CeilDiv, PerYLabel

(* A scale that is a tenth of the room wide leaves enough of it. *)
LEMMA CoarseFits ==
    ASSUME NEW a \in Int, NEW b \in Int, NEW s \in Nat \ {0}, NEW room \in Int, 3 <= room, 10 * (b - a) <= s * room
    PROVE  Steps(a, b, s) < room
<1> DEFINE n == Steps(a, b, s)
<1>1. n \in Int /\ s * n < b - a + 2 * s
  BY StepsReach
<1> HIDE DEF n
<1>2. s * (10 * n) = 10 * (s * n) /\ s * (room + 20) = s * room + 20 * s
  BY <1>1
<1>3. 10 * n < room + 20
  <2>1. s * (10 * n) < s * (room + 20)
    BY <1>1, <1>2
  <2>2. 10 * n \in Int /\ room + 20 \in Int
    BY <1>1
  <2> QED
    BY <2>1, <2>2, FactorOut
<1> QED
  BY <1>1, <1>3 DEF n

(* One of which the range is as many as there is room for leaves too little. *)
LEMMA FineIsTooFine ==
    ASSUME NEW a \in Int, NEW b \in Int, NEW s \in Nat \ {0}, NEW room \in Int, s * room <= b - a
    PROVE  ~ Steps(a, b, s) < room
<1> DEFINE n == Steps(a, b, s)
<1>1. n \in Int /\ b - a <= s * n
  BY StepsReach
<1> HIDE DEF n
<1>2. ASSUME n < room PROVE FALSE
  <2>1. n + 1 <= room /\ room - n - 1 \in Nat
    BY <1>1, <1>2
  <2>2. s * (room - n - 1) >= 0 /\ s * (room - n - 1) = s * room - s * n - s
    BY <1>1, <2>1
  <2> QED
    BY <1>1, <2>2
<1> QED
  BY <1>2 DEF n

(* The multiples of a scale: a base further on they are as many times as large. *)
Late(kmg2)   == IF kmg2 THEN 4 ELSE 3
Tenfold(kmg2) == IF kmg2 THEN 16 ELSE 10
Grown(M, n, d, k) ==
    /\ n \in Nat /\ d \in Nat /\ n = 2 * d + 1
    /\ DOMAIN M = 1..n /\ \A j \in 1..n : M[j] \in Nat \ {0}
    /\ \A j \in 1..d + 1 : M[j] <= k /\ M[j + d] = k * M[j]
    /\ M[d + 1] = k /\ M[n] = k * k

(* The multiples grow tenfold, or sixteenfold, in their first half and again in the second. *)
LEMMA MultsGrow ==
    ASSUME NEW kmg2 \in BOOLEAN
    PROVE  Grown(Mults(kmg2), Len(Mults(kmg2)), Late(kmg2), Tenfold(kmg2))
<1>1. PICK M, n, d, k : M = Mults(kmg2) /\ n = Len(M) /\ d = Late(kmg2) /\ k = Tenfold(kmg2)
  OBVIOUS
<1>2. CASE kmg2
  <2>1. M = <<1, 2, 4, 8, 16, 32, 64, 128, 256>> /\ d = 4 /\ k = 16
    BY <1>1, <1>2 DEF Mults, Late, Tenfold
  <2>2. n = 9
    BY <1>1, <2>1
  <2>3. Grown(M, n, d, k)
    BY <2>1, <2>2 DEF Grown
  <2> QED
    BY <1>1, <2>3
<1>3. CASE ~ kmg2
  <2>1. M = <<1, 2, 5, 10, 20, 50, 100>> /\ d = 3 /\ k = 10
    BY <1>1, <1>3 DEF Mults, Late, Tenfold
  <2>2. n = 7
    BY <1>1, <2>1
  <2>3. Grown(M, n, d, k)
    BY <2>1, <2>2 DEF Grown
  <2> QED
    BY <1>1, <2>3
<1> QED
  BY <1>2, <1>3

(* What BaseScales leads to: the largest power that fits, or, where it is just reached, the one below. *)
ScalesFrom(a, b, h, base, room, top) ==
    /\ b - a <= base * top * room
    /\ \/ BaseScales(a, b, h, PerYLabel, base) = {top}
       \/ \E v \in Nat \ {0} : /\ top = base * v /\ top * room = b - a
                               /\ BaseScales(a, b, h, PerYLabel, base) = {top, v}

(* The scales numericTicks may start from: the largest power of the base that fits, or one below it. *)
LEMMA ScalesAre ==
    ASSUME NEW a \in Int, NEW b \in Int, a < b, b - a <= MaxSpan, NEW room \in Int, 3 <= room, NEW base \in {10, 16},
           NEW h, room = CeilDiv(h, PerYLabel)
    PROVE  \E top \in Nat \ {0} : ScalesFrom(a, b, h, base, room, top)
<1> DEFINE square == base * base
           powers == {1, base, square, square * base, square * square, square * square * base}
           those == {p \in powers : p = 1 \/ p * room <= b - a}
           top == Max(those)
<1>1. powers = {1, 10, 100, 1000, 10000, 100000} \/ powers = {1, 16, 256, 4096, 65536, 1048576}
  BY SMT
<1>2. BaseScales(a, b, h, PerYLabel, base)
        = {top} \cup IF top * room = b - a /\ top > 1 THEN {top \div base} ELSE {}
  BY Zenon DEF BaseScales
<1>3. top \in those /\ \A p \in those : p <= top
  <2>1. IsFiniteSet(powers)
    BY SixAreFinite
  <2>2. those \in SUBSET powers /\ 1 \in those
    BY <1>1
  <2>3. powers \subseteq Int
    BY <1>1
  <2> HIDE DEF powers, those
  <2>4. IsFiniteSet(those) /\ those \in SUBSET Int /\ those # {}
    BY <2>1, <2>2, <2>3, FS_Subset
  <2>5. PICK m \in those : \A p \in those : p <= m
    <3> DEFINE f == [t \in those |-> t]
    <3>1. f \in [those -> Int]
      BY <2>4
    <3> HIDE DEF f
    <3>2. PICK m \in those : \A p \in those : f[p] <= f[m]
      BY <2>4, <3>1, GreatestAt
    <3> QED
      BY <3>2 DEF f
  <2> QED
    BY <2>4, <2>5 DEF Max
<1> HIDE DEF top
<1>4. top \in powers /\ (top = 1 \/ top * room <= b - a)
  BY <1>3
<1>5. \A p \in powers : p * room <= b - a => p <= top
  BY <1>3
<1>6. b - a <= base * top * room /\ top \in Nat \ {0}
      /\ (top > 1 => top \div base \in Nat \ {0} /\ top = base * (top \div base))
  <2>1. CASE base = 10
    <3>1. \/ top = 1 \/ top = 10 \/ top = 100 \/ top = 1000 \/ top = 10000 \/ top = 100000
      BY <1>4, <2>1, SMT
    <3>2. /\ 10 * room <= b - a => 10 <= top
          /\ 100 * room <= b - a => 100 <= top
          /\ 1000 * room <= b - a => 1000 <= top
          /\ 10000 * room <= b - a => 10000 <= top
          /\ 100000 * room <= b - a => 100000 <= top
      BY <1>5, <2>1, SMT
    <3> HIDE DEF powers, square
    <3> QED
      BY <2>1, <3>1, <3>2, SMT DEF MaxSpan
  <2>2. CASE base = 16
    <3>1. \/ top = 1 \/ top = 16 \/ top = 256 \/ top = 4096 \/ top = 65536 \/ top = 1048576
      BY <1>4, <2>2, SMT
    <3>2. /\ 16 * room <= b - a => 16 <= top
          /\ 256 * room <= b - a => 256 <= top
          /\ 4096 * room <= b - a => 4096 <= top
          /\ 65536 * room <= b - a => 65536 <= top
          /\ 1048576 * room <= b - a => 1048576 <= top
      BY <1>5, <2>2, SMT
    <3> HIDE DEF powers, square
    <3> QED
      BY <2>2, <3>1, <3>2, SMT DEF MaxSpan
  <2> QED
    BY <2>1, <2>2
<1>7. CASE top * room = b - a /\ top > 1
  <2>1. PICK v \in Nat \ {0} : v = top \div base
    BY <1>6, <1>7
  <2>2. BaseScales(a, b, h, PerYLabel, base) = {top, v}
    BY <1>2, <1>7, <2>1
  <2>3. top = base * v
    BY <1>6, <1>7, <2>1
  <2> QED
    BY <1>6, <1>7, <2>2, <2>3 DEF ScalesFrom
<1>8. CASE ~ (top * room = b - a /\ top > 1)
  <2>1. BaseScales(a, b, h, PerYLabel, base) = {top}
    BY <1>2, <1>8
  <2> QED
    BY <1>6, <2>1 DEF ScalesFrom
<1> QED
  BY <1>7, <1>8
---------------------------------------------------------------------------------
(* Which marks a scale gives. *)

(* The least member of a finite set of numbers is no more than any of them. *)
LEMMA LeastOf ==
    ASSUME NEW T \in SUBSET Int, IsFiniteSet(T), T # {}
    PROVE  Min(T) \in T /\ \A t \in T : Min(T) <= t
<1> DEFINE f == [t \in T |-> t]
<1>1. f \in [T -> Int]
  OBVIOUS
<1>2. PICK m \in T : \A t \in T : f[m] <= f[t]
  <2> HIDE DEF f
  <2> QED
    BY <1>1, LeastAt
<1>3. \A t \in T : m <= t
  BY <1>2
<1> QED
  BY <1>3 DEF Min

(* The marks a scale gives, and the multiples of a base that leave room for labels. *)
MarksOf(a, b, s) == [i \in 1..Steps(a, b, s) + 1 |-> s * ((a \div s) + i - 1)]

(* The multiples of a base that leave room for the labels. *)
Far(a, b, h, kmg2, base) ==
    {j \in DOMAIN Mults(kmg2) : Steps(a, b, base * Mults(kmg2)[j]) < CeilDiv(h, PerYLabel)}

(* The multiples are positive, and so are the scales. *)
LEMMA ScalesArePositive ==
    ASSUME NEW kmg2 \in BOOLEAN, NEW base \in Nat \ {0}, NEW j \in DOMAIN Mults(kmg2)
    PROVE  base * Mults(kmg2)[j] \in Nat \ {0}
<1>1. PICK m \in Nat : m = Mults(kmg2)[j] /\ m # 0
  BY MultsArePositive
<1>2. base * m \in Nat /\ base * m # 0
  <2>1. base >= 1 /\ m >= 1
    BY <1>1
  <2>2. base * m >= 1
    BY <2>1
  <2> QED
    BY <1>1, <2>2
<1> QED
  BY <1>1, <1>2

(* The multiples that leave room are finitely many. *)
LEMMA FarIsFinite ==
    ASSUME NEW a, NEW b, NEW h, NEW kmg2 \in BOOLEAN, NEW base
    PROVE  IsFiniteSet(Far(a, b, h, kmg2, base)) /\ Far(a, b, h, kmg2, base) \in SUBSET Int
<1>1. PICK one \in Int, n \in Int : one = 1 /\ n = Len(Mults(kmg2))
  BY MultsArePositive
<1>2. DOMAIN Mults(kmg2) = one..n
  BY <1>1, MultsArePositive
<1>3. IsFiniteSet(one..n)
  BY FS_Interval
<1>4. Far(a, b, h, kmg2, base) \in SUBSET (one..n)
  BY <1>2 DEF Far
<1> QED
  BY <1>3, <1>4, FS_Subset

(* numericTicks marks with the first multiple that leaves room, or the last. *)
LEMMA TicksAreMarks ==
    ASSUME NEW a \in Int, NEW b \in Int, NEW h \in Int, h > 0, NEW kmg2 \in BOOLEAN, NEW base \in Nat \ {0},
           NEW F, F = Far(a, b, h, kmg2, base)
    PROVE  \E j \in DOMAIN Mults(kmg2) :
              /\ numericTicks(a, b, h, PerYLabel, kmg2, base) = MarksOf(a, b, base * Mults(kmg2)[j])
              /\ F # {} => j = Min(F) /\ j \in F /\ \A q \in F : j <= q
<1> DEFINE low(s)  == a \div s
           high(s) == CeilDiv(b, s)
           far     == {j \in DOMAIN Mults(kmg2) :
                          LET s == base * Mults(kmg2)[j] IN h > PerYLabel * (high(s) - low(s))}
           j0 == IF far = {} THEN Len(Mults(kmg2)) ELSE Min(far)
           scale   == base * Mults(kmg2)[j0]
<1>1. numericTicks(a, b, h, PerYLabel, kmg2, base)
        = IF h <= 0 THEN <<>> ELSE [i \in 1..high(scale) - low(scale) + 1 |-> scale * (low(scale) + i - 1)]
  BY Zenon DEF numericTicks
<1>2. far = F
  <2>1. \A j \in DOMAIN Mults(kmg2) : h > PerYLabel * (high(base * Mults(kmg2)[j]) - low(base * Mults(kmg2)[j]))
                                         <=> Steps(a, b, base * Mults(kmg2)[j]) < CeilDiv(h, PerYLabel)
    <3> SUFFICES ASSUME NEW j \in DOMAIN Mults(kmg2)
                 PROVE  h > PerYLabel * (high(base * Mults(kmg2)[j]) - low(base * Mults(kmg2)[j]))
                          <=> Steps(a, b, base * Mults(kmg2)[j]) < CeilDiv(h, PerYLabel)
      OBVIOUS
    <3>1. PICK s \in Nat \ {0} : s = base * Mults(kmg2)[j]
      BY ScalesArePositive
    <3>2. Steps(a, b, s) = high(s) - low(s) /\ Steps(a, b, s) \in Int
      BY StepsReach DEF Steps
    <3> HIDE DEF high, low
    <3>3. h > PerYLabel * Steps(a, b, s) <=> Steps(a, b, s) < CeilDiv(h, PerYLabel)
      BY <3>2, RoomForLabels
    <3> QED
      BY <3>1, <3>2, <3>3
  <2>2. far = {j \in DOMAIN Mults(kmg2) : h > PerYLabel * (high(base * Mults(kmg2)[j]) - low(base * Mults(kmg2)[j]))}
    BY Zenon
  <2> HIDE DEF far, high, low
  <2> QED
    BY <2>1, <2>2 DEF Far
<1>3. j0 \in DOMAIN Mults(kmg2) /\ (F # {} => j0 = Min(F) /\ j0 \in F /\ \A q \in F : j0 <= q)
  <2> HIDE DEF far
  <2>1. CASE F = {}
    BY <1>2, <2>1, MultsArePositive
  <2>2. CASE F # {}
    <3>1. Min(F) \in F /\ \A q \in F : Min(F) <= q
      BY <2>2, FarIsFinite, LeastOf
    <3>2. j0 = Min(F)
      BY <1>2, <2>2
    <3>3. F \subseteq DOMAIN Mults(kmg2)
      BY DEF Far
    <3> HIDE DEF j0
    <3> QED
      BY <3>1, <3>2, <3>3
  <2> QED
    BY <2>1, <2>2
<1>4. numericTicks(a, b, h, PerYLabel, kmg2, base) = MarksOf(a, b, base * Mults(kmg2)[j0])
  <2>1. Steps(a, b, scale) = high(scale) - low(scale)
    BY Zenon DEF Steps
  <2> HIDE DEF j0, far
  <2>2. MarksOf(a, b, scale) = [i \in 1..high(scale) - low(scale) + 1 |-> scale * (low(scale) + i - 1)]
    BY <2>1, Zenon DEF MarksOf
  <2> HIDE DEF scale, high, low
  <2>3. ~ h <= 0
    OBVIOUS
  <2>4. numericTicks(a, b, h, PerYLabel, kmg2, base) = MarksOf(a, b, scale)
    BY <1>1, <2>2, <2>3, Zenon
  <2> QED
    BY <2>4 DEF scale
<1> HIDE DEF j0
<1> QED
  BY <1>3, <1>4

(* Marks that are a distance apart. *)
Spaced(ys, s) == \A i \in 1..Len(ys) - 1 : ys[i + 1] - ys[i] = s

(* The marks of a scale: they reach over the range, and are a scale apart. *)
LEMMA MarksReach ==
    ASSUME NEW a \in Int, NEW b \in Int, a < b, NEW s \in Nat \ {0}, NEW ys, ys = MarksOf(a, b, s)
    PROVE  /\ ys[1] <= a /\ b <= ys[Len(ys)] /\ Len(ys) = Steps(a, b, s) + 1
           /\ Spaced(ys, s)
<1> DEFINE n == Steps(a, b, s)
           l == a \div s
<1>1. n \in Int /\ l \in Int /\ s * l <= a /\ b <= s * CeilDiv(b, s) /\ b - a <= s * n /\ n = CeilDiv(b, s) - l
      /\ CeilDiv(b, s) \in Int
  BY StepsReach DEF Steps
<1>2. ys = [i \in 1..n + 1 |-> s * (l + i - 1)]
  BY DEF MarksOf
<1> HIDE DEF n, l
<1>3. n >= 1
  <2>1. s * 0 < s * n
    BY <1>1
  <2> QED
    BY <1>1, <2>1, FactorOut
<1>4. Len(ys) = n + 1
  BY <1>1, <1>2, <1>3
<1>5. ys[1] = s * l /\ ys[n + 1] = s * CeilDiv(b, s)
  <2>1. 1 \in 1..n + 1 /\ n + 1 \in 1..n + 1
    BY <1>1, <1>3
  <2>2. l + 1 - 1 = l /\ l + (n + 1) - 1 = CeilDiv(b, s)
    BY <1>1
  <2> QED
    BY <1>2, <2>1, <2>2
<1>6. ASSUME NEW i \in 1..n PROVE ys[i + 1] - ys[i] = s
  <2>1. i \in 1..n + 1 /\ i + 1 \in 1..n + 1 /\ i \in Int
    BY <1>1, <1>3
  <2>2. ys[i] = s * (l + i - 1) /\ ys[i + 1] = s * (l + (i + 1) - 1)
    BY <1>2, <2>1
  <2>3. PICK m \in Int : m = l + i - 1
    BY <1>1, <2>1
  <2>4. l + (i + 1) - 1 = m + 1
    BY <1>1, <2>1, <2>3
  <2>5. s * (m + 1) = s * m + s /\ s * m \in Int
    OBVIOUS
  <2> QED
    BY <2>2, <2>3, <2>4, <2>5
<1>7. n = Steps(a, b, s)
  BY DEF n
<1> QED
  BY <1>1, <1>4, <1>5, <1>6, <1>7 DEF Spaced
---------------------------------------------------------------------------------
(* One distance, however a logarithm was rounded. *)

(* Products with the base of a scale. *)
LEMMA Scaled ==
    ASSUME NEW k \in {10, 16}, NEW x \in Int, NEW y \in Int
    PROVE  /\ k * x * y = k * (x * y) /\ (x * k) * y = k * (x * y) /\ (x * (k * k)) * y = (k * k) * (x * y)
           /\ x * k = k * x /\ x * (k * y) = (k * x) * y
<1>1. CASE k = 10
  <2>1. 10 * x * y = 10 * (x * y) /\ (x * 10) * y = 10 * (x * y) /\ (x * 100) * y = 100 * (x * y)
        /\ x * (10 * y) = 10 * (x * y) /\ (10 * x) * y = 10 * (x * y) /\ 10 * 10 = 100 /\ x * 10 = 10 * x
    OBVIOUS
  <2> QED
    BY <1>1, <2>1
<1>2. CASE k = 16
  <2>1. 16 * x * y = 16 * (x * y) /\ (x * 16) * y = 16 * (x * y) /\ (x * 256) * y = 256 * (x * y)
        /\ x * (16 * y) = 16 * (x * y) /\ (16 * x) * y = 16 * (x * y) /\ 16 * 16 = 256 /\ x * 16 = 16 * x
    OBVIOUS
  <2> QED
    BY <1>2, <2>1
<1> QED
  BY <1>1, <1>2

(* A tenth of what the base of a scale makes of it. *)
LEMMA Enlarged ==
    ASSUME NEW k \in {10, 16}, NEW x \in Int, 0 <= x
    PROVE  10 * x <= k * x /\ 10 * (k * x) <= (k * k) * x
<1>1. CASE k = 10
  BY <1>1
<1>2. CASE k = 16
  BY <1>2
<1> QED
  BY <1>1, <1>2

(* The last of the multiples leaves room. *)
LEMMA FarIsFound ==
    ASSUME NEW a \in Int, NEW b \in Int, a < b, NEW h \in Int, NEW kmg2 \in BOOLEAN, NEW k, k = Tenfold(kmg2),
           NEW room \in Int, room = CeilDiv(h, PerYLabel), 3 <= room,
           NEW top \in Nat \ {0}, b - a <= k * top * room
    PROVE  Far(a, b, h, kmg2, top) # {}
<1>1. PICK M, n, d : M = Mults(kmg2) /\ n = Len(M) /\ d = Late(kmg2)
  OBVIOUS
<1>2. Grown(M, n, d, k) /\ k \in {10, 16}
  BY <1>1, MultsGrow DEF Tenfold
<1>3. n \in DOMAIN M /\ M[n] = k * k
  BY <1>2 DEF Grown
<1>4. PICK t \in Int : t = top * room
  OBVIOUS
<1>5. PICK s \in Nat \ {0} : s = top * M[n]
  BY <1>1, <1>3, ScalesArePositive
<1>6. s * room = (k * k) * t /\ k * top * room = k * t
  BY <1>2, <1>3, <1>4, <1>5, Scaled
<1>7. 10 * (b - a) <= s * room
  <2>1. 0 <= t
    BY <1>4
  <2>2. 10 * (k * t) <= (k * k) * t
    BY <1>2, <2>1, Enlarged
  <2>3. PICK x \in Int, y \in Int : x = k * t /\ y = (k * k) * t
    BY <1>2
  <2> QED
    BY <1>6, <2>2, <2>3
<1>8. Steps(a, b, s) < room
  BY <1>7, CoarseFits
<1> QED
  BY <1>1, <1>3, <1>5, <1>8 DEF Far

(* The first multiple that leaves room, and two scales for which it comes to the same. *)
FirstFar(a, b, h, kmg2, base, j) ==
    j \in Far(a, b, h, kmg2, base) /\ \A q \in Far(a, b, h, kmg2, base) : j <= q
SameScale(a, b, h, kmg2, top, v) ==
    \E j \in DOMAIN Mults(kmg2), i \in DOMAIN Mults(kmg2) :
       /\ FirstFar(a, b, h, kmg2, top, j) /\ FirstFar(a, b, h, kmg2, v, i)
       /\ top * Mults(kmg2)[j] = v * Mults(kmg2)[i]

(* When the largest power of the base is just reached, it is of no matter whether the logarithm says so. *)
LEMMA OneScale ==
    ASSUME NEW a \in Int, NEW b \in Int, a < b, NEW h \in Int, NEW kmg2 \in BOOLEAN, NEW k, k = Tenfold(kmg2),
           NEW room \in Int, room = CeilDiv(h, PerYLabel), 3 <= room,
           NEW top \in Nat \ {0}, NEW v \in Nat \ {0}, top = k * v, top * room = b - a
    PROVE  SameScale(a, b, h, kmg2, top, v)
<1>1. PICK M, n, d : M = Mults(kmg2) /\ n = Len(M) /\ d = Late(kmg2)
  OBVIOUS
<1>2. Grown(M, n, d, k) /\ k \in {10, 16}
  BY <1>1, MultsGrow DEF Tenfold
<1>3. /\ n \in Nat /\ d \in Nat /\ n = 2 * d + 1
      /\ DOMAIN M = 1..n /\ \A j \in 1..n : M[j] \in Nat \ {0}
      /\ \A j \in 1..d + 1 : M[j] <= k /\ M[j + d] = k * M[j]
      /\ M[d + 1] = k
  BY <1>2 DEF Grown
<1> DEFINE F(base) == Far(a, b, h, kmg2, base)
<1>4. ASSUME NEW base, NEW j \in 1..n PROVE j \in F(base) <=> Steps(a, b, base * M[j]) < room
  BY <1>1, <1>3 DEF Far
<1>5. \A base : F(base) \subseteq 1..n
  BY <1>1, <1>3 DEF Far
<1> HIDE DEF F
<1>6. d + 1 \in F(top)
  <2>1. d + 1 \in 1..n
    BY <1>3
  <2>2. PICK s \in Nat \ {0} : s = top * M[d + 1]
    BY <1>1, <1>3, <2>1, ScalesArePositive
  <2>3. s * room = k * (b - a)
    BY <1>2, <1>3, <2>2, Scaled
  <2>4. 10 * (b - a) <= s * room
    <3>1. PICK x \in Int : x = b - a /\ 0 <= x
      OBVIOUS
    <3> QED
      BY <1>2, <2>3, <3>1, Enlarged
  <2>5. Steps(a, b, s) < room
    BY <2>4, CoarseFits
  <2> QED
    BY <1>4, <2>1, <2>2, <2>5
<1>7. PICK j \in F(top) : \A q \in F(top) : j <= q
  BY <1>6, FarIsFinite, LeastOf DEF F
<1>8. j \in 1..n /\ j <= d + 1
  BY <1>5, <1>6, <1>7
<1>9. ASSUME NEW q \in 1..d + 1 PROVE ~ q \in F(v)
  <2>1. q \in 1..n
    BY <1>3
  <2>2. PICK m \in Nat : m = M[q] /\ m <= k
    BY <1>3, <2>1
  <2>3. PICK s \in Nat \ {0} : s = v * m
    BY <1>1, <1>3, <2>1, <2>2, ScalesArePositive
  <2>4. s <= top
    <3>1. v * k = k * v
      BY <1>2, Scaled
    <3>2. k - m \in Nat /\ k \in Int
      BY <1>2, <2>2
    <3>3. v * (k - m) >= 0 /\ v * (k - m) = v * k - v * m
      BY <2>2, <3>2
    <3> QED
      BY <2>3, <3>1, <3>3
  <2>5. s * room <= b - a
    <3>1. top - s \in Nat
      BY <2>4
    <3>2. (top - s) * room >= 0 /\ (top - s) * room = top * room - s * room
      BY <3>1
    <3> QED
      BY <3>2
  <2>6. ~ Steps(a, b, s) < room
    BY <2>5, FineIsTooFine
  <2> QED
    BY <1>4, <2>1, <2>2, <2>3, <2>6
<1>10. ASSUME NEW q \in 1..d + 1
       PROVE  v * M[q + d] = top * M[q] /\ (q + d \in F(v) <=> q \in F(top))
  <2>1. q \in 1..n /\ q + d \in 1..n
    BY <1>3
  <2>2. PICK m \in Nat : m = M[q]
    BY <1>3, <2>1
  <2>3. v * (k * m) = (k * v) * m
    BY <1>2, <2>2, Scaled
  <2>4. v * M[q + d] = top * M[q]
    BY <1>3, <2>2, <2>3
  <2> QED
    BY <1>4, <2>1, <2>4
<1>11. j \in 1..d + 1
  BY <1>3, <1>8
<1>12. j + d \in F(v) /\ top * M[j] = v * M[j + d]
  BY <1>7, <1>10, <1>11
<1>13. ASSUME NEW q \in F(v) PROVE j + d <= q
  <2>1. q \in 1..n
    BY <1>5
  <2>2. q > d + 1
    BY <1>3, <1>9, <2>1
  <2>3. q - d \in 1..d + 1 /\ q = (q - d) + d
    BY <1>3, <2>1, <2>2
  <2>4. PICK p \in 1..d + 1 : q = p + d
    BY <2>3
  <2>5. p \in F(top)
    BY <1>10, <2>4
  <2> QED
    BY <1>3, <1>7, <1>8, <2>4, <2>5
<1>14. j \in DOMAIN M /\ j + d \in DOMAIN M
  BY <1>3, <1>8, <1>11
<1>15. FirstFar(a, b, h, kmg2, top, j) /\ FirstFar(a, b, h, kmg2, v, j + d)
  BY <1>7, <1>12, <1>13 DEF FirstFar, F
<1> QED
  BY <1>1, <1>12, <1>14, <1>15 DEF SameScale

(* numericTicks: marks that are far enough apart, and the same ones whatever the logarithm was rounded to. *)
LEMMA TicksApart ==
    ASSUME NEW a \in Int, NEW b \in Int, a < b, b - a <= MaxSpan, NEW h \in Int, h > 2 * PerYLabel,
           NEW kmg2 \in BOOLEAN, NEW k, k = (IF kmg2 THEN 16 ELSE 10)
    PROVE  \E s \in Nat \ {0} :
              /\ s * h > PerYLabel * (b - a)
              /\ BaseScales(a, b, h, PerYLabel, k) # {}
              /\ \A base \in BaseScales(a, b, h, PerYLabel, k) :
                    numericTicks(a, b, h, PerYLabel, kmg2, base) = MarksOf(a, b, s)
<1>1. PICK room \in Int : room = CeilDiv(h, PerYLabel) /\ 3 <= room
  BY RoomForLabels
<1>2. k \in {10, 16} /\ k = Tenfold(kmg2) /\ h > 0
  BY DEF Tenfold, PerYLabel
<1>3. PICK top \in Nat \ {0} : ScalesFrom(a, b, h, k, room, top)
  BY <1>1, <1>2, ScalesAre
<1>4. Far(a, b, h, kmg2, top) # {}
  BY <1>1, <1>2, <1>3, FarIsFound DEF ScalesFrom
<1>5. PICK j \in DOMAIN Mults(kmg2) :
        /\ numericTicks(a, b, h, PerYLabel, kmg2, top) = MarksOf(a, b, top * Mults(kmg2)[j])
        /\ j \in Far(a, b, h, kmg2, top) /\ \A q \in Far(a, b, h, kmg2, top) : j <= q
  BY <1>2, <1>4, TicksAreMarks
<1>6. PICK s \in Nat \ {0} : s = top * Mults(kmg2)[j]
  BY ScalesArePositive
<1>7. s * h > PerYLabel * (b - a)
  <2>1. PICK n \in Int : n = Steps(a, b, s) /\ n < room /\ b - a <= s * n
    <3>1. Steps(a, b, top * Mults(kmg2)[j]) < CeilDiv(h, PerYLabel)
      BY <1>5 DEF Far
    <3>2. Steps(a, b, s) \in Int /\ b - a <= s * Steps(a, b, s)
      BY StepsReach
    <3> QED
      BY <1>1, <1>6, <3>1, <3>2
  <2>2. h > PerYLabel * n
    BY <1>1, <2>1, RoomForLabels
  <2>3. s * h > s * (PerYLabel * n)
    <3>1. PICK p \in Int : p = PerYLabel * n
      BY DEF PerYLabel
    <3>2. h - p >= 1 /\ s >= 1
      BY <2>2, <3>1
    <3>3. s * (h - p) >= 1 /\ s * (h - p) = s * h - s * p
      BY <3>2
    <3> QED
      BY <3>1, <3>3
  <2>4. s * (PerYLabel * n) = PerYLabel * (s * n)
    BY DEF PerYLabel
  <2>5. PerYLabel * (s * n) >= PerYLabel * (b - a)
    BY <2>1 DEF PerYLabel
  <2>6. s * h \in Int /\ PerYLabel * (s * n) \in Int /\ PerYLabel * (b - a) \in Int
    BY <2>1 DEF PerYLabel
  <2> QED
    BY <2>3, <2>4, <2>5, <2>6
<1>8. CASE BaseScales(a, b, h, PerYLabel, k) = {top}
  BY <1>5, <1>6, <1>7, <1>8
<1>9. ASSUME NEW v \in Nat \ {0}, top = k * v, top * room = b - a, BaseScales(a, b, h, PerYLabel, k) = {top, v}
      PROVE  \A base \in BaseScales(a, b, h, PerYLabel, k) :
                numericTicks(a, b, h, PerYLabel, kmg2, base) = MarksOf(a, b, s)
  <2>1. SameScale(a, b, h, kmg2, top, v)
    BY <1>1, <1>2, <1>9, OneScale
  <2>2. PICK p \in DOMAIN Mults(kmg2), i \in DOMAIN Mults(kmg2) :
          /\ FirstFar(a, b, h, kmg2, top, p) /\ FirstFar(a, b, h, kmg2, v, i)
          /\ top * Mults(kmg2)[p] = v * Mults(kmg2)[i]
    BY <2>1 DEF SameScale
  <2>3. Far(a, b, h, kmg2, v) # {}
    BY <2>2 DEF FirstFar
  <2>4. PICK r \in DOMAIN Mults(kmg2) :
          /\ numericTicks(a, b, h, PerYLabel, kmg2, v) = MarksOf(a, b, v * Mults(kmg2)[r])
          /\ r \in Far(a, b, h, kmg2, v) /\ \A q \in Far(a, b, h, kmg2, v) : r <= q
    BY <1>2, <2>3, TicksAreMarks
  <2>5. p = j /\ r = i
    <3>1. p \in Int /\ j \in Int /\ r \in Int /\ i \in Int
      BY MultsArePositive
    <3>2. p <= j /\ j <= p /\ r <= i /\ i <= r
      BY <1>5, <2>2, <2>4 DEF FirstFar
    <3> QED
      BY <3>1, <3>2
  <2> QED
    BY <1>5, <1>6, <1>9, <2>2, <2>4, <2>5
<1> QED
  BY <1>3, <1>5, <1>6, <1>7, <1>8, <1>9 DEF ScalesFrom
---------------------------------------------------------------------------------
(* The local clock: which shift rules it, and what a date is. *)

(* The shift that rules the clock at a time. *)
Current(t, s) == s \in Shifts /\ s.at <= t /\ \A q \in Shifts : q.at <= t => q.at <= s.at

(* A time at which there is a clock. *)
Ruled(t) == \E r \in Shifts : r.at <= t

(* What TicksAssumption says of the shifts, by types. *)
LEMMA ShiftTypes == \A s \in Shifts : s.at \in Int /\ s.offset \in Int
  BY TicksAssumption

(* Local: the shift that rules a time is the one its offset is taken from. *)
LEMMA CurrentRules ==
    ASSUME NEW t \in Int, NEW s, Current(t, s)
    PROVE  Local(t) = t + s.offset
<1>1. PICK c : c = (CHOOSE x \in Shifts : x.at <= t /\ \A q \in Shifts : q.at <= t => q.at <= x.at)
  OBVIOUS
<1>2. c \in Shifts /\ c.at <= t /\ \A q \in Shifts : q.at <= t => q.at <= c.at
  BY <1>1 DEF Current
<1>3. c.at = s.at
  BY <1>2, ShiftTypes DEF Current
<1>4. c = s
  BY <1>2, <1>3, ClockAssumption DEF Current
<1> QED
  BY <1>1, <1>4 DEF Local, Offset

(* There is such a shift. *)
LEMMA CurrentExists ==
    ASSUME NEW t \in Int, Ruled(t)
    PROVE  \E s : Current(t, s)
<1> DEFINE S == {s \in Shifts : s.at <= t}
           f == [s \in S |-> s.at]
<1>1. IsFiniteSet(S) /\ S # {} /\ f \in [S -> Int]
  BY TicksAssumption, FS_Subset DEF Ruled
<1>2. PICK m \in S : \A k \in S : f[k] <= f[m]
  <2> HIDE DEF f, S
  <2> QED
    BY <1>1, GreatestAt
<1>3. Current(t, m)
  BY <1>2 DEF Current
<1> QED
  BY <1>3

(* Clocks at two times differ as the times do, or by an hour more or less. *)
LEMMA ClockSteps ==
    ASSUME NEW t \in Int, Ruled(t), NEW u \in Int, Ruled(u)
    PROVE  Local(t) \in Int /\ Local(u) \in Int /\ (Local(u) - u) - (Local(t) - t) \in {-60, 0, 60}
<1>1. PICK s : Current(t, s)
  BY CurrentExists
<1>2. PICK r : Current(u, r)
  BY CurrentExists
<1>3. s \in Shifts /\ r \in Shifts /\ Local(t) = t + s.offset /\ Local(u) = u + r.offset
  BY <1>1, <1>2, CurrentRules DEF Current
<1>4. r.offset - s.offset \in {-60, 0, 60} /\ r.offset \in Int /\ s.offset \in Int
  BY <1>3, ShiftTypes, ClockAssumption
<1> QED
  BY <1>3, <1>4

(* A local time whatever offset of which is ruled, as those of the year and of the week before are. *)
Dated(l) == \A s \in Shifts : Ruled(l - s.offset)

(* Dates from a week before the year on are times with a clock. *)
LEMMA DatedYear ==
    ASSUME NEW l \in Int, MonthStart[0] - 7 * Day <= l
    PROVE  Dated(l)
<1>1. PICK s \in Shifts : \A r \in Shifts : s.at + r.offset <= MonthStart[0] - 7 * Day
  BY ClockAssumption
<1>2. MonthStart[0] \in Int /\ Day \in Int
  BY TicksAssumption DEF Day
<1>3. ASSUME NEW r \in Shifts PROVE s.at <= l - r.offset
  BY <1>1, <1>2, ShiftTypes
<1> QED
  BY <1>3 DEF Dated, Ruled

(* makeDate gives a time of a date, the first there is, or an hour later on the clock if it leaves the date out. *)
LEMMA DatesAre ==
    ASSUME NEW l \in Int, Dated(l), NEW t, t = makeDate(l)
    PROVE  /\ t \in Int /\ Ruled(t) /\ (\E s \in Shifts : t = l - s.offset)
           /\ Local(t) \in {l, l + 60}
           /\ \A u \in Int : Ruled(u) /\ Local(u) = l => Local(t) = l /\ t <= u
<1> DEFINE f == [s \in Shifts |-> l - s.offset]
           times == {l - s.offset : s \in Shifts}
           real == {x \in times : Local(x) = l}
<1>1. f \in [Shifts -> Int] /\ times = {f[s] : s \in Shifts} /\ IsFiniteSet(Shifts) /\ Shifts # {}
  BY TicksAssumption
<1>2. makeDate(l) = IF real # {} THEN Min(real) ELSE Max(times)
  BY DEF makeDate
<1>3. ASSUME NEW u \in Int, Ruled(u), Local(u) = l PROVE u \in real
  <2>1. PICK s : Current(u, s)
    BY <1>3, CurrentExists
  <2>2. s \in Shifts /\ l = u + s.offset
    BY <1>3, <2>1, CurrentRules DEF Current
  <2>3. u = l - s.offset
    BY <2>2, ShiftTypes
  <2> QED
    BY <1>3, <2>2, <2>3
<1>4. CASE real # {}
  <2>1. IsFiniteSet(times)
    <3>1. f \in Surjection(Shifts, times)
      BY <1>1 DEF Surjection
    <3> QED
      BY <1>1, <3>1, FS_Surjection
  <2>2. real \in SUBSET times /\ times \subseteq Int
    BY ShiftTypes
  <2>3. IsFiniteSet(real) /\ real \in SUBSET Int
    BY <2>1, <2>2, FS_Subset
  <2> HIDE DEF real, times, f
  <2>4. Min(real) \in real /\ \A x \in real : Min(real) <= x
    BY <1>4, <2>3, LeastOf
  <2>5. t \in real /\ \A x \in real : t <= x
    BY <1>2, <1>4, <2>4
  <2>6. t \in times /\ Local(t) = l /\ t \in Int
    BY <2>2, <2>5 DEF real
  <2>7. PICK s \in Shifts : t = l - s.offset
    BY <2>6 DEF times
  <2>8. Ruled(t)
    BY <2>7 DEF Dated
  <2> QED
    BY <1>3, <2>5, <2>6, <2>7, <2>8
<1>5. CASE real = {}
  <2>1. PICK m \in Shifts : \A k \in Shifts : f[k] <= f[m]
    <3> HIDE DEF f
    <3> QED
      BY <1>1, GreatestAt
  <2>2. f[m] = l - m.offset /\ f[m] \in times /\ \A x \in times : f[m] >= x
    BY <1>1, <2>1
  <2>3. Max(times) \in times /\ \A x \in times : Max(times) >= x
    <3> HIDE DEF f, times
    <3> QED
      BY <2>2 DEF Max
  <2>4. t \in times /\ \A x \in times : t >= x
    BY <1>2, <1>5, <2>3
  <2>5. PICK s \in Shifts : t = l - s.offset
    BY <2>4
  <2>6. t \in Int /\ Ruled(t)
    BY <2>5, ShiftTypes DEF Dated
  <2>7. PICK c : Current(t, c)
    BY <2>6, CurrentExists
  <2>8. c \in Shifts /\ Local(t) = t + c.offset
    BY <2>6, <2>7, CurrentRules DEF Current
  <2>9. l - c.offset <= t
    BY <2>4, <2>6, <2>8
  <2>10. Local(t) # l
    BY <1>5, <2>4
  <2>11. c.offset - s.offset \in {-60, 0, 60} /\ c.offset \in Int /\ s.offset \in Int
    BY <2>5, <2>8, ShiftTypes, ClockAssumption
  <2>12. Local(t) = l + 60
    BY <2>5, <2>8, <2>9, <2>10, <2>11
  <2>13. \A u \in Int : Ruled(u) /\ Local(u) = l => FALSE
    BY <1>3, <1>5
  <2> QED
    BY <2>5, <2>6, <2>12, <2>13
<1> QED
  BY <1>4, <1>5

(* Dates that are an hour or more apart are as far apart in time, but for an hour. *)
LEMMA DatesApart ==
    ASSUME NEW l \in Int, Dated(l), NEW k \in Int, Dated(k)
    PROVE  makeDate(k) - makeDate(l) >= k - l - 60
<1>1. PICK s \in Shifts : makeDate(l) = l - s.offset
  BY DatesAre
<1>2. PICK r \in Shifts : makeDate(k) = k - r.offset
  BY DatesAre
<1>3. r.offset - s.offset \in {-60, 0, 60} /\ r.offset \in Int /\ s.offset \in Int
  BY ShiftTypes, ClockAssumption
<1> QED
  BY <1>1, <1>2, <1>3

(* No midnight is left out. *)
LEMMA Midnights ==
    ASSUME NEW l \in Int, Dated(l), l % Day = 0
    PROVE  Local(makeDate(l)) = l
<1> DEFINE t == makeDate(l)
<1>1. t \in Int /\ Ruled(t) /\ Local(t) \in {l, l + 60}
      /\ \A u \in Int : Ruled(u) /\ Local(u) = l => Local(t) = l
  BY DatesAre
<1>2. PICK s \in Shifts : t = l - s.offset
  BY DatesAre
<1> HIDE DEF t
<1>3. ASSUME Local(t) = l + 60 PROVE FALSE
  <2>1. PICK c : Current(t, c)
    BY <1>1, CurrentExists
  <2>2. c \in Shifts /\ Local(t) = t + c.offset /\ c.at <= t
    BY <1>1, <2>1, CurrentRules DEF Current
  <2>3. c.offset \in Int /\ s.offset \in Int /\ c.at \in Int
    BY <2>2, ShiftTypes
  <2>4. c.offset = s.offset + 60
    BY <1>2, <1>3, <2>2, <2>3
  <2>5. l - c.offset = t - 60 /\ Ruled(t - 60) /\ t - 60 \in Int
    BY <1>1, <1>2, <2>2, <2>3, <2>4 DEF Dated
  <2>6. CASE c.at <= t - 60
    <3>1. Current(t - 60, c)
      BY <1>1, <2>1, <2>3, <2>6, ShiftTypes DEF Current
    <3>2. Local(t - 60) = l
      BY <2>3, <2>5, <3>1, CurrentRules
    <3> QED
      BY <1>1, <1>3, <2>5, <3>2
  <2>7. CASE c.at > t - 60
    <3>1. (c.at + c.offset) % 60 = 0 /\ (c.at + c.offset) % 1440 # 60
      BY <2>2, <2>3, <2>4, ClockAssumption DEF Day
    <3>2. PICK x \in Int : x = c.at + c.offset
      BY <2>3
    <3>3. l < x /\ x <= l + 60
      BY <1>1, <1>2, <2>2, <2>3, <2>4, <2>7, <3>2
    <3>4. l % 1440 = 0
      BY DEF Day
    <3>5. x = l + 60
      BY <3>1, <3>2, <3>3, <3>4
    <3> QED
      BY <3>1, <3>2, <3>4, <3>5
  <2> QED
    BY <1>1, <2>3, <2>6, <2>7
<1> QED
  BY <1>1, <1>3 DEF t
---------------------------------------------------------------------------------
(* A date axis as a function of the number of steps. *)

(* How many times a number goes into another. *)
LEMMA FitsOften ==
    ASSUME NEW d \in Nat \ {0}, NEW q \in Int, NEW n \in Int, d * q <= n
    PROVE  q <= n \div d
<1>1. n \div d \in Int /\ n < d * (n \div d) + d
  OBVIOUS
<1>2. d * (n \div d) + d = d * (n \div d + 1)
  BY <1>1
<1>3. d * q \in Int /\ d * (n \div d + 1) \in Int /\ d * q < d * (n \div d + 1)
  BY <1>1, <1>2
<1>4. q < n \div d + 1
  BY <1>1, <1>3, FactorOut
<1> QED
  BY <1>1, <1>4

(* An axis: the times of the marks, those of them that are kept, and the distance by which their number is bounded. *)
AxisFrom(a, at) == IF at[0] < a THEN 1 ELSE 0
AxisMost(b, at, d) == (b - at[0]) \div d + 1
AxisOf(a, b, at, kept, d) == [k \in {n \in AxisFrom(a, at)..AxisMost(b, at, d) : at[n] <= b /\ kept[n]} |-> at[k]]

(* Marks that get later, and not too slowly, up to a time. *)
Onward(b, at, d) ==
    /\ \A j, k \in Nat : j < k /\ at[k] <= b => at[j] < at[k]
    /\ \A k \in Nat : k > 0 /\ at[k] <= b => at[k] - at[0] >= d * (k - 1)

(* The marks from a time on and before another. *)
InWindow(a, b, xs) == {k \in DOMAIN xs : a <= xs[k] /\ xs[k] < b}
KeptIn(a, b, at, kept) == {k \in Nat : kept[k] /\ a <= at[k] /\ at[k] < b}

(* Such marks are in order, and none that is kept is missed. *)
LEMMA AxisMarks ==
    ASSUME NEW a \in Int, NEW b \in Int, a < b, NEW at \in [Nat -> Int], NEW kept,
           NEW d \in Nat \ {0}, Onward(b, at, d),
           NEW xs, xs = AxisOf(a, b, at, kept, d)
    PROVE  /\ Increasing(xs)
           /\ DOMAIN xs \subseteq Nat /\ \A k \in DOMAIN xs : xs[k] = at[k]
           /\ InWindow(a, b, xs) = KeptIn(a, b, at, kept)
<1>1. PICK from \in {0, 1} : from = AxisFrom(a, at)
  BY DEF AxisFrom
<1>2. PICK most : most = AxisMost(b, at, d)
  OBVIOUS
<1>3. xs = [k \in {n \in from..most : at[n] <= b /\ kept[n]} |-> at[k]]
  BY <1>1, <1>2 DEF AxisOf
<1>4. at[0] \in Int /\ most \in Int
  BY <1>2 DEF AxisMost
<1>5. DOMAIN xs = {n \in from..most : at[n] <= b /\ kept[n]} /\ DOMAIN xs \subseteq Nat
  BY <1>3, <1>4
<1>6. \A k \in DOMAIN xs : xs[k] = at[k] /\ at[k] <= b
  BY <1>3, <1>5
<1>7. Increasing(xs)
  BY <1>5, <1>6 DEF Increasing, Onward
<1>8. ASSUME NEW k \in KeptIn(a, b, at, kept) PROVE k \in InWindow(a, b, xs)
  <2>1. k \in Nat /\ kept[k] /\ a <= at[k] /\ at[k] < b /\ at[k] \in Int
    BY <1>8 DEF KeptIn
  <2>2. from <= k
    <3>1. CASE k = 0
      BY <1>1, <1>4, <2>1, <3>1 DEF AxisFrom
    <3>2. CASE k > 0
      BY <2>1, <3>2
    <3> QED
      BY <2>1, <3>1, <3>2
  <2>3. k - 1 <= (b - at[0]) \div d
    <3>1. d * (k - 1) <= b - at[0]
      <4>1. CASE k = 0
        <5>1. d * (k - 1) = - d
          BY <2>1, <4>1
        <5> QED
          BY <1>4, <2>1, <4>1, <5>1
      <4>2. CASE k > 0
        <5>1. d * (k - 1) \in Int /\ at[k] - at[0] >= d * (k - 1)
          BY <2>1, <4>2 DEF Onward
        <5> QED
          BY <1>4, <2>1, <5>1
      <4> QED
        BY <2>1, <4>1, <4>2
    <3> QED
      BY <1>4, <2>1, <3>1, FitsOften
  <2>4. k <= most
    BY <1>4, <1>2, <2>1, <2>3 DEF AxisMost
  <2>5. k \in DOMAIN xs
    BY <1>4, <1>5, <2>1, <2>2, <2>4
  <2> QED
    BY <1>6, <2>1, <2>5 DEF InWindow
<1>9. ASSUME NEW k \in InWindow(a, b, xs) PROVE k \in KeptIn(a, b, at, kept)
  BY <1>5, <1>6, <1>9 DEF InWindow, KeptIn
<1> QED
  BY <1>5, <1>6, <1>7, <1>8, <1>9

(* The marks of getDateAxis as such an axis. *)
AxisAt(a, g) ==
    [k \in Nat |-> IF g <= HOURLY THEN makeDate(NiceBefore(Local(a), g)) + k * TICK_PLACEMENT[g].spacing
                   ELSE makeDate(Onwards(NiceBefore(Local(a), g), g, k))]

(* Which of them are kept: above the hour and below the day, those on an hour of the step. *)
AxisKept(a, g) ==
    [k \in Nat |-> g <= HOURLY \/ g >= DAILY \/ Hour(Local(AxisAt(a, g)[k])) % TICK_PLACEMENT[g].step = 0]

(* The divisor by which getDateAxis bounds their number. *)
AxisStep(g) == IF TICK_PLACEMENT[g].field = "M" THEN 28 * Day ELSE IF TICK_PLACEMENT[g].field = "D" THEN 23 * 60
               ELSE TICK_PLACEMENT[g].spacing \div 2 + 1

(* getDateAxis is such an axis. *)
LEMMA AxisIs ==
    ASSUME NEW a \in Int, NEW b \in Int, NEW g \in 12..25, AxisAt(a, g) \in [Nat -> Int]
    PROVE  getDateAxis(a, b, g) = AxisOf(a, b, AxisAt(a, g), AxisKept(a, g), AxisStep(g))
<1> DEFINE p     == TICK_PLACEMENT[g]
           nice  == NiceBefore(Local(a), g)
           fixed == g <= HOURLY
           at(k) == IF fixed THEN makeDate(nice) + k * p.spacing ELSE makeDate(Onwards(nice, g, k))
           from  == IF at(0) < a THEN 1 ELSE 0
           most  == (b - at(0)) \div (IF p.field = "M" THEN 28 * Day ELSE IF p.field = "D" THEN 23 * 60
                                      ELSE p.spacing \div 2 + 1) + 1
           shown(k) == /\ at(k) <= b
                       /\ fixed \/ g >= DAILY \/ Hour(Local(at(k))) % p.step = 0
<1>1. getDateAxis(a, b, g) = [k \in {n \in from..most : shown(n)} |-> at(k)]
  BY Zenon DEF getDateAxis
<1>2. \A k \in Nat : at(k) = AxisAt(a, g)[k]
  BY DEF AxisAt
<1>3. \A k \in Nat : shown(k) <=> AxisAt(a, g)[k] <= b /\ AxisKept(a, g)[k]
  <2> HIDE DEF at
  <2> QED
    BY <1>2 DEF AxisKept
<1>4. from = AxisFrom(a, AxisAt(a, g)) /\ most = AxisMost(b, AxisAt(a, g), AxisStep(g)) /\ from \in {0, 1}
  <2>1. at(0) = AxisAt(a, g)[0]
    BY <1>2
  <2> HIDE DEF at, p
  <2> QED
    BY <2>1 DEF AxisFrom, AxisMost, AxisStep, p
<1> HIDE DEF at, from, most, shown
<1>5. from..most \subseteq Nat
  BY <1>4
<1> QED
  BY <1>1, <1>2, <1>3, <1>4, <1>5 DEF AxisOf
---------------------------------------------------------------------------------
(* The nice times of a reader of the clock. *)

(* The unit in which nice times are counted. *)
Unit(g) == CASE TICK_PLACEMENT[g].field = "MM" -> 1 [] TICK_PLACEMENT[g].field = "HH" -> 60 [] OTHER -> Day

(* The units are the minute, the hour and the day. *)
LEMMA UnitIs ==
    ASSUME NEW g \in 12..25
    PROVE  Unit(g) \in {1, 60, 1440}
  BY DEF Unit, Day

(* A nice time is a whole number of them. *)
LEMMA NiceIsWhole ==
    ASSUME NEW l \in Int, NEW g \in 12..25, Nice(l, g)
    PROVE  l % Unit(g) = 0
<1> DEFINE p == TICK_PLACEMENT[g]
<1>1. p.field \in {"MM", "HH", "D", "M"}
  BY Placements
<1>2. CASE p.field = "MM"
  BY <1>2 DEF Unit
<1>3. CASE p.field = "HH"
  <2>1. l % 60 = 0
    BY <1>3, Zenon DEF Nice
  <2>2. Unit(g) = 60
    BY <1>3 DEF Unit
  <2> QED
    BY <2>1, <2>2
<1>4. CASE p.field = "D"
  <2>1. l % Day = 0
    BY <1>4, Zenon DEF Nice
  <2>2. Unit(g) = Day
    BY <1>4 DEF Unit
  <2> QED
    BY <2>1, <2>2
<1>5. CASE p.field = "M"
  <2>1. l \in Range(MonthStart)
    BY <1>5, Zenon DEF Nice
  <2>2. PICK m \in 0..12 : l = MonthStart[m]
    BY <2>1, TicksAssumption DEF Range
  <2>3. l % Day = 0
    BY <2>2, ClockAssumption
  <2>4. Unit(g) = Day
    BY <1>5 DEF Unit
  <2> QED
    BY <2>3, <2>4
<1> QED
  BY <1>1, <1>2, <1>3, <1>4, <1>5

(* A whole number of units, between two times of the clock. *)
WholeIn(l, u, lo, hi) == \E k \in (lo \div u)..(hi \div u) : l = u * k

(* What a reader of the clock calls a nice time. *)
Marked(t, g) == Nice(Local(t), g) /\ (g <= HOURLY \/ t = makeDate(Local(t)))

(* NiceTimes, which looks for them on the clock, finds just the times whose local time is nice. *)
LEMMA NiceTimesAre ==
    ASSUME NEW a \in Int, NEW b \in Int, a < b, Ruled(a), NEW g \in 12..25
    PROVE  NiceTimes(a, b, g) = {t \in Int : a <= t /\ t < b /\ Marked(t, g)}
<1> DEFINE unit == Unit(g)
           clock == {l \in {unit * k : k \in ((Local(a) - 60) \div unit)..((Local(b) + 60) \div unit)} : Nice(l, g)}
           times(l) == {t \in {l - s.offset : s \in Shifts} : Local(t) = l}
           chosen(l) == IF g <= HOURLY \/ times(l) = {} THEN times(l) ELSE {Min(times(l))}
<1>1. NiceTimes(a, b, g) = {t \in UNION {chosen(l) : l \in clock} : a <= t /\ t < b}
  BY Zenon DEF NiceTimes, Unit
<1>2. \A t \in Int : a <= t => Ruled(t)
  BY ShiftTypes DEF Ruled
<1>3. \A t \in Int : a <= t => Local(t) \in Int
  BY <1>2, ClockSteps
<1>4. unit \in {1, 60, 1440}
  BY UnitIs
<1>5. ASSUME NEW l, times(l) # {} PROVE makeDate(l) = Min(times(l))
  BY <1>5, Zenon DEF makeDate
<1>6. ASSUME NEW t \in NiceTimes(a, b, g) PROVE t \in Int /\ a <= t /\ t < b /\ Marked(t, g)
  <2>1. PICK l \in clock : t \in chosen(l) /\ a <= t /\ t < b
    BY <1>1
  <2>2. Nice(l, g) /\ l \in Int
    <3>1. PICK k \in Int : l = unit * k
      BY <1>2, <1>3, <1>4
    <3> QED
      BY <1>4, <3>1
  <2>3. t \in times(l) /\ (g <= HOURLY \/ t = makeDate(l))
    <3>1. CASE g <= HOURLY
      BY <2>1, <3>1
    <3>2. CASE ~ g <= HOURLY
      <4>1. times(l) # {} /\ t = Min(times(l))
        BY <2>1, <3>2
      <4>2. times(l) \in SUBSET Int /\ IsFiniteSet(times(l))
        <5>1. PICK f : f = [s \in Shifts |-> l - s.offset]
          OBVIOUS
        <5>2. f \in Surjection(Shifts, {l - s.offset : s \in Shifts})
          BY <5>1 DEF Surjection
        <5>3. IsFiniteSet({l - s.offset : s \in Shifts})
          BY <5>2, FS_Surjection, TicksAssumption
        <5>4. times(l) \in SUBSET {l - s.offset : s \in Shifts}
          OBVIOUS
        <5>5. IsFiniteSet(times(l))
          BY <5>3, <5>4, FS_Subset
        <5> QED
          BY <2>2, <5>5, ShiftTypes
      <4>3. t \in times(l)
        <5> HIDE DEF times
        <5> QED
          BY <4>1, <4>2, LeastOf
      <4>4. t = makeDate(l)
        BY <1>5, <4>1
      <4> QED
        BY <4>3, <4>4
    <3> QED
      BY <3>1, <3>2
  <2>4. t \in Int /\ Local(t) = l
    BY <2>2, <2>3, ShiftTypes
  <2> QED
    BY <2>1, <2>2, <2>3, <2>4 DEF Marked
<1>7. ASSUME NEW t \in Int, a <= t, t < b, Marked(t, g) PROVE t \in NiceTimes(a, b, g)
  <2>1. PICK l \in Int : l = Local(t)
    BY <1>3, <1>7
  <2>2. Nice(l, g) /\ (g <= HOURLY \/ t = makeDate(l))
    BY <1>7, <2>1 DEF Marked
  <2>3. l % unit = 0
    BY <2>1, <2>2, NiceIsWhole
  <2>4. Local(a) \in Int /\ Local(b) \in Int /\ Local(a) - 60 <= l /\ l <= Local(b) + 60
    <3>1. Ruled(t) /\ Ruled(b)
      BY <1>2, <1>7
    <3>2. (Local(t) - t) - (Local(a) - a) \in {-60, 0, 60} /\ Local(a) \in Int
      BY <3>1, ClockSteps
    <3>3. (Local(b) - b) - (Local(t) - t) \in {-60, 0, 60} /\ Local(b) \in Int
      BY <3>1, ClockSteps
    <3> QED
      BY <1>7, <2>1, <3>2, <3>3
  <2>5. PICK lo \in Int, hi \in Int : lo = Local(a) - 60 /\ hi = Local(b) + 60
    BY <2>4
  <2>6. \E k \in (lo \div unit)..(hi \div unit) : l = unit * k
    <3>1. PICK u \in {1, 60, 1440} : u = unit
      BY <1>4
    <3> HIDE DEF unit
    <3>2. l % u = 0 /\ lo <= l /\ l <= hi
      BY <2>3, <2>4, <2>5, <3>1
    <3>3. ASSUME u = 1 PROVE WholeIn(l, u, lo, hi)
      BY <3>2, <3>3 DEF WholeIn
    <3>4. ASSUME u = 60 PROVE WholeIn(l, u, lo, hi)
      BY <3>2, <3>4 DEF WholeIn
    <3>5. ASSUME u = 1440 PROVE WholeIn(l, u, lo, hi)
      BY <3>2, <3>5 DEF WholeIn
    <3> QED
      BY <3>1, <3>3, <3>4, <3>5 DEF WholeIn
  <2>7. l \in clock
    <3> DEFINE K == ((Local(a) - 60) \div unit)..((Local(b) + 60) \div unit)
    <3>1. \E k \in K : l = unit * k
      BY <2>5, <2>6
    <3> HIDE DEF unit, K
    <3>2. l \in {unit * k : k \in K}
      BY <3>1
    <3>3. l \in {q \in {unit * k : k \in K} : Nice(q, g)}
      BY <2>2, <3>2
    <3> QED
      BY <3>3 DEF K
  <2>8. t \in times(l)
    <3>1. PICK s : Current(t, s)
      BY <1>2, <1>7, CurrentExists
    <3>2. s \in Shifts /\ Local(t) = t + s.offset
      BY <3>1, CurrentRules DEF Current
    <3>3. t = l - s.offset
      BY <2>1, <3>2, ShiftTypes
    <3> QED
      BY <2>1, <3>2, <3>3
  <2>9. t \in chosen(l)
    <3>1. makeDate(l) = Min(times(l))
      BY <1>5, <2>8
    <3> HIDE DEF times
    <3> QED
      BY <2>2, <2>8, <3>1
  <2> HIDE DEF clock, chosen
  <2> QED
    BY <1>1, <1>7, <2>7, <2>9
<1> HIDE DEF clock, times, chosen, unit
<1> QED
  BY <1>6, <1>7

(* A full hour that the clock has shown is not in its future: it is put back at full hours and by an hour. *)
LEMMA HoursStay ==
    ASSUME NEW t \in Int, Ruled(t), NEW u \in Int, t <= u, Local(t) % 60 = 0
    PROVE  Local(t) <= Local(u)
<1>1. Ruled(u)
  BY ShiftTypes DEF Ruled
<1>2. PICK c : Current(t, c)
  BY CurrentExists
<1>3. PICK s : Current(u, s)
  BY <1>1, CurrentExists
<1>4. c \in Shifts /\ s \in Shifts /\ Local(t) = t + c.offset /\ Local(u) = u + s.offset
  BY <1>2, <1>3, CurrentRules DEF Current
<1>5. c.offset \in Int /\ s.offset \in Int /\ c.at \in Int /\ s.at \in Int
  BY <1>4, ShiftTypes
<1>6. CASE s.at <= t
  <2>1. c.at <= u
    BY <1>2, <1>5 DEF Current
  <2>2. s.at <= c.at /\ c.at <= s.at
    BY <1>2, <1>3, <1>4, <1>6, <2>1 DEF Current
  <2>3. s = c
    BY <1>4, <1>5, <2>2, ClockAssumption
  <2> QED
    BY <1>4, <1>5, <2>3
<1>7. CASE t < s.at
  <2>1. PICK x \in Int : x = s.at + s.offset
    BY <1>5
  <2>2. x % 60 = 0 /\ s.offset - c.offset \in {-60, 0, 60}
    BY <1>4, <2>1, ClockAssumption
  <2>3. x <= Local(u)
    BY <1>3, <1>4, <1>5, <2>1 DEF Current
  <2>4. Local(t) < x + 60
    BY <1>4, <1>5, <1>7, <2>1, <2>2
  <2>5. PICK y \in Int : y = Local(t)
    BY <1>4, <1>5
  <2>6. y % 60 = 0 /\ y < x + 60
    BY <2>4, <2>5
  <2>7. y <= x
    BY <2>2, <2>6
  <2> QED
    BY <1>4, <1>5, <2>3, <2>5, <2>7
<1> QED
  BY <1>5, <1>6, <1>7
---------------------------------------------------------------------------------
(* Up to the hour: parts of it. *)

(* What an axis has to be: of times that get later, and of all the nice ones from a time on. *)
AxisRight(a, b, g) ==
    /\ AxisAt(a, g) \in [Nat -> Int] /\ AxisStep(g) \in Nat \ {0}
    /\ Onward(b, AxisAt(a, g), AxisStep(g))
NoneMissed(a, b, g) ==
    \A t \in Int : a <= t /\ t < b =>
       (Marked(t, g) <=> \E k \in Nat : AxisKept(a, g)[k] /\ AxisAt(a, g)[k] = t)

(* A time from which there is a clock and a calendar. *)
Start(a) == a \in Int /\ Ruled(a) /\ MonthStart[0] <= Local(a)

(* What such a time says of later ones. *)
LEMMA Started ==
    ASSUME NEW a, Start(a)
    PROVE  /\ Local(a) \in Int /\ MonthStart[0] \in Int
           /\ \A t \in Int : a <= t => Ruled(t) /\ Local(t) \in Int /\ Local(a) - 60 <= Local(t)
<1>1. Local(a) \in Int /\ MonthStart[0] \in Int
  BY ClockSteps, TicksAssumption DEF Start
<1>2. ASSUME NEW t \in Int, a <= t PROVE Ruled(t) /\ Local(t) \in Int /\ Local(a) - 60 <= Local(t)
  <2>1. Ruled(t)
    BY <1>2, ShiftTypes DEF Ruled, Start
  <2>2. (Local(t) - t) - (Local(a) - a) \in {-60, 0, 60} /\ Local(t) \in Int
    BY <2>1, ClockSteps DEF Start
  <2> QED
    BY <1>1, <1>2, <2>1, <2>2 DEF Start
<1> QED
  BY <1>1, <1>2

(* Parts of the hour. *)
Sixtieths == {1, 2, 5, 10, 30, 60}

(* What is left of a number by them. *)
LEMMA WholeParts ==
    ASSUME NEW p \in Sixtieths, NEW x \in Int
    PROVE  /\ x - (x % p) \in Int /\ (x - (x % p)) % p = 0 /\ x - (x % p) <= x /\ x < x - (x % p) + p
           /\ (x + 60) % p = x % p /\ (x - 60) % p = x % p /\ (x % 60 = 0 => x % p = 0)
           /\ (x % 60) % p = x % p
<1>1. CASE p = 1 BY <1>1
<1>2. CASE p = 2 BY <1>2
<1>3. CASE p = 5 BY <1>3
<1>4. CASE p = 10 BY <1>4
<1>5. CASE p = 30 BY <1>5
<1>6. CASE p = 60 BY <1>6
<1> QED
  BY <1>1, <1>2, <1>3, <1>4, <1>5, <1>6 DEF Sixtieths

(* How many of them one number is from another. *)
LEMMA PartsAway ==
    ASSUME NEW p \in Sixtieths, NEW x \in Int, NEW y \in Int, y % p = 0
    PROVE  /\ x % p = 0 => x = y + ((x - y) \div p) * p /\ (x - y) \div p \in Int
           /\ x % p = 0 /\ y <= x => (x - y) \div p >= 0
           /\ x % p = 0 /\ x < y + p => x <= y
<1>1. CASE p = 1 BY <1>1
<1>2. CASE p = 2 BY <1>2
<1>3. CASE p = 5 BY <1>3
<1>4. CASE p = 10 BY <1>4
<1>5. CASE p = 30 BY <1>5
<1>6. CASE p = 60 BY <1>6
<1> QED
  BY <1>1, <1>2, <1>3, <1>4, <1>5, <1>6 DEF Sixtieths

(* Further on by a number of them. *)
LEMMA PartsMore ==
    ASSUME NEW p \in Sixtieths, NEW y \in Int, y % p = 0, NEW k \in Int
    PROVE  (y + k * p) % p = 0
<1>1. CASE p = 1 BY <1>1
<1>2. CASE p = 2 BY <1>2
<1>3. CASE p = 5 BY <1>3
<1>4. CASE p = 10 BY <1>4
<1>5. CASE p = 30 BY <1>5
<1>6. CASE p = 60 BY <1>6
<1> QED
  BY <1>1, <1>2, <1>3, <1>4, <1>5, <1>6 DEF Sixtieths

(* The numbers they divide, from one of these on. *)
LEMMA PartsApart ==
    ASSUME NEW p \in Sixtieths, NEW x \in Int, NEW y \in Int, y % p = 0
    PROVE  /\ \A k \in Int : x = y + k * p => x % p = 0
           /\ x % p = 0 /\ y <= x => \E k \in Nat : x = y + k * p
           /\ x % p = 0 /\ x < y + p => x <= y
<1>1. ASSUME NEW k \in Int, x = y + k * p PROVE x % p = 0
  BY <1>1, PartsMore
<1>2. ASSUME x % p = 0, y <= x PROVE \E k \in Nat : x = y + k * p
  <2>1. PICK k : k = (x - y) \div p
    OBVIOUS
  <2>2. x = y + k * p /\ k \in Int /\ k >= 0
    BY <1>2, <2>1, PartsAway
  <2> QED
    BY <2>2
<1> QED
  BY <1>1, <1>2, PartsAway

(* Up to the hour, the granularities are parts of it. *)
PartOfHour(g, p) ==
    /\ TICK_PLACEMENT[g].spacing = p
    /\ AxisStep(g) = p \div 2 + 1
    /\ \A l \in Int : NiceBefore(l, g) = l - (l % p) /\ (Nice(l, g) <=> l % p = 0)

(* MINUTELY to HOURLY: NiceBefore and Nice are about such a part. *)
LEMMA PartsOfHours ==
    ASSUME NEW g \in 12..17
    PROVE  \E p \in Sixtieths : PartOfHour(g, p)
<1>1. CASE g \in 12..16
  <2>1. PICK p \in Sixtieths : /\ TICK_PLACEMENT[g].spacing = p /\ TICK_PLACEMENT[g].step = p
                               /\ TICK_PLACEMENT[g].field = "MM"
    <3>1. g = 12 \/ g = 13 \/ g = 14 \/ g = 15 \/ g = 16
      BY <1>1
    <3> QED
      BY <3>1 DEF TICK_PLACEMENT, Placement, Sixtieths
  <2>2. AxisStep(g) = p \div 2 + 1
    BY <2>1 DEF AxisStep
  <2>3. ASSUME NEW l \in Int PROVE NiceBefore(l, g) = l - (l % p) /\ (Nice(l, g) <=> l % p = 0)
    <3>1. NiceBefore(l, g) = l - ((l % 60) % p) /\ (Nice(l, g) <=> (l % 60) % p = 0)
      BY <2>1 DEF NiceBefore, Nice
    <3> QED
      BY <3>1, WholeParts
  <2> QED
    BY <2>1, <2>2, <2>3 DEF PartOfHour
<1>2. CASE g = 17
  <2>1. TICK_PLACEMENT[17].spacing = 60 /\ TICK_PLACEMENT[17].step = 1 /\ TICK_PLACEMENT[17].field = "HH"
    BY DEF TICK_PLACEMENT, Placement
  <2>2. AxisStep(17) = 60 \div 2 + 1
    BY <2>1 DEF AxisStep
  <2>3. ASSUME NEW l \in Int PROVE NiceBefore(l, 17) = l - (l % 60) /\ (Nice(l, 17) <=> l % 60 = 0)
    <3>1. NiceBefore(l, 17) = (l - (l % Day)) + 60 * (Hour(l) - (Hour(l) % 1))
      BY <2>1 DEF NiceBefore
    <3>2. Nice(l, 17) <=> l % 60 = 0 /\ Hour(l) % 1 = 0
      BY <2>1 DEF Nice
    <3>3. Hour(l) = (l % 1440) \div 60 /\ Hour(l) \in Int
      BY DEF Hour, Day
    <3>4. Hour(l) % 1 = 0 /\ (l - (l % 1440)) + 60 * ((l % 1440) \div 60) = l - (l % 60)
      BY <3>3
    <3> QED
      BY <3>1, <3>2, <3>3, <3>4 DEF Day
  <2> QED
    BY <1>2, <2>1, <2>2, <2>3 DEF PartOfHour, Sixtieths
<1> QED
  BY <1>1, <1>2

(* A date that is not after a time, on its hour or later: its makeDate is not after the time, either. *)
LEMMA PartsStart ==
    ASSUME NEW a, Start(a), NEW p \in Sixtieths, NEW n, n = Local(a) - (Local(a) % p)
    PROVE  n \in Int /\ n % p = 0 /\ Dated(n) /\ makeDate(n) <= a
<1>1. Local(a) \in Int /\ MonthStart[0] \in Int /\ MonthStart[0] <= Local(a) /\ a \in Int
  BY Started DEF Start
<1>2. n \in Int /\ n % p = 0 /\ n <= Local(a) /\ Local(a) < n + p
  BY <1>1, WholeParts
<1>3. MonthStart[0] <= n
  <2>1. PICK x \in Int : x = MonthStart[0]
    BY <1>1
  <2>2. x % 1440 = 0
    BY <2>1, ClockAssumption DEF Day
  <2>3. x % 60 = 0
    BY <2>2
  <2>4. x % p = 0
    BY <2>3, WholeParts
  <2>5. x < n + p
    BY <1>1, <1>2, <2>1, WholeParts DEF Sixtieths
  <2> QED
    BY <1>2, <2>1, <2>4, <2>5, PartsApart
<1>4. Dated(n)
  BY <1>1, <1>2, <1>3, DatedYear DEF Day
<1>5. PICK s : Current(a, s)
  BY CurrentExists DEF Start
<1>6. s \in Shifts /\ s.at <= a /\ Local(a) = a + s.offset /\ s.at \in Int /\ s.offset \in Int
  BY <1>1, <1>5, CurrentRules, ShiftTypes DEF Current
<1>7. PICK u \in Int : u = n - s.offset
  BY <1>2, <1>6
<1>8. u <= a /\ Ruled(u)
  BY <1>1, <1>2, <1>4, <1>6, <1>7 DEF Dated
<1>9. s.at <= u
  <2>1. PICK x \in Int : x = s.at + s.offset
    BY <1>6
  <2>2. x % 60 = 0 /\ x <= Local(a)
    BY <1>1, <1>6, <2>1, ClockAssumption
  <2>3. x % p = 0 /\ x < n + p
    BY <1>1, <1>2, <2>2, WholeParts DEF Sixtieths
  <2>4. x <= n
    BY <1>2, <2>3, PartsApart
  <2> QED
    BY <1>6, <1>7, <2>1, <2>4
<1>10. Current(u, s)
  BY <1>1, <1>5, <1>8, <1>9, ShiftTypes DEF Current
<1>11. Local(u) = n
  BY <1>2, <1>6, <1>7, <1>10, CurrentRules
<1>12. makeDate(n) <= u /\ makeDate(n) \in Int
  BY <1>2, <1>4, <1>8, <1>11, DatesAre
<1> QED
  BY <1>1, <1>2, <1>4, <1>8, <1>12

(* Marks a fixed time apart get later. *)
LEMMA FixedOnward ==
    ASSUME NEW p \in Sixtieths, NEW t0 \in Int, NEW at, at = [k \in Nat |-> t0 + k * p], NEW b \in Int,
           NEW d, d = p \div 2 + 1
    PROVE  at \in [Nat -> Int] /\ d \in Nat \ {0} /\ Onward(b, at, d)
<1>1. CASE p = 1 BY <1>1 DEF Onward
<1>2. CASE p = 2 BY <1>2 DEF Onward
<1>3. CASE p = 5 BY <1>3 DEF Onward
<1>4. CASE p = 10 BY <1>4 DEF Onward
<1>5. CASE p = 30 BY <1>5 DEF Onward
<1>6. CASE p = 60 BY <1>6 DEF Onward
<1> QED
  BY <1>1, <1>2, <1>3, <1>4, <1>5, <1>6 DEF Sixtieths

(* Up to the hour, marks are at all times at which the clock shows a part of it. *)
LEMMA FixedAxis ==
    ASSUME NEW a, NEW b \in Int, Start(a), NEW g \in 12..17
    PROVE  AxisRight(a, b, g) /\ NoneMissed(a, b, g)
<1>1. PICK p \in Sixtieths : PartOfHour(g, p)
  BY PartsOfHours
<1>2. Local(a) \in Int /\ a \in Int
  BY Started DEF Start
<1>3. PICK n : n = NiceBefore(Local(a), g) /\ n = Local(a) - (Local(a) % p)
  BY <1>1, <1>2 DEF PartOfHour
<1>4. n \in Int /\ n % p = 0 /\ Dated(n) /\ makeDate(n) <= a
  BY <1>3, PartsStart
<1>5. PICK r \in Shifts : makeDate(n) = n - r.offset
  BY <1>4, DatesAre
<1>6. PICK t0 \in Int : t0 = makeDate(n) /\ t0 + r.offset = n /\ t0 <= a /\ r.offset \in Int
  BY <1>4, <1>5, ShiftTypes
<1>7. AxisAt(a, g) = [k \in Nat |-> t0 + k * p]
  BY <1>1, <1>3, <1>6 DEF AxisAt, HOURLY, PartOfHour
<1>8. AxisStep(g) = p \div 2 + 1
  BY <1>1 DEF PartOfHour
<1>9. AxisRight(a, b, g)
  BY <1>7, <1>8, FixedOnward DEF AxisRight
<1>10. ASSUME NEW t \in Int, a <= t PROVE Marked(t, g) <=> \E k \in Nat : AxisKept(a, g)[k] /\ AxisAt(a, g)[k] = t
  <2>1. Ruled(t) /\ Local(t) \in Int
    BY <1>10, Started
  <2>2. PICK s : Current(t, s)
    BY <2>1, CurrentExists
  <2>3. s \in Shifts /\ Local(t) = t + s.offset /\ s.offset \in Int /\ r.offset - s.offset \in {-60, 0, 60}
    BY <2>2, CurrentRules, ShiftTypes, ClockAssumption DEF Current
  <2>4. Marked(t, g) <=> (t + s.offset) % p = 0
    BY <1>1, <2>1, <2>3 DEF Marked, HOURLY, PartOfHour
  <2>5. PICK x \in Int, y \in Int : x = t + s.offset /\ y = t0 + s.offset
    BY <2>3
  <2>6. y % p = 0
    <3>1. y = n \/ y = n - 60 \/ y = n + 60
      BY <1>4, <1>6, <2>3, <2>5
    <3> QED
      BY <1>4, <3>1, WholeParts
  <2>7. y <= x
    BY <1>2, <1>6, <1>10, <2>3, <2>5
  <2>8. \A k \in Nat : AxisKept(a, g)[k] /\ (AxisAt(a, g)[k] = t <=> x = y + k * p)
    <3> SUFFICES ASSUME NEW k \in Nat PROVE AxisKept(a, g)[k] /\ (AxisAt(a, g)[k] = t <=> x = y + k * p)
      OBVIOUS
    <3>1. AxisKept(a, g)[k]
      <4>1. g <= HOURLY
        BY DEF HOURLY
      <4> QED
        BY <4>1, Zenon DEF AxisKept
    <3>2. PICK z \in Int : z = k * p
      BY DEF Sixtieths
    <3>3. AxisAt(a, g)[k] = t0 + z
      BY <1>7, <3>2
    <3> QED
      BY <1>6, <2>3, <2>5, <3>1, <3>2, <3>3
  <2>9. x % p = 0 <=> \E k \in Nat : x = y + k * p
    <3>1. x % p = 0 => \E k \in Nat : x = y + k * p
      BY <2>6, <2>7, PartsApart
    <3>2. ASSUME NEW k \in Nat, x = y + k * p PROVE x % p = 0
      BY <2>6, <3>2, PartsMore
    <3> QED
      BY <3>1, <3>2
  <2> QED
    BY <2>4, <2>5, <2>8, <2>9
<1>11. NoneMissed(a, b, g)
  BY <1>10 DEF NoneMissed
<1> QED
  BY <1>9, <1>11
---------------------------------------------------------------------------------
(* Above the hour: dates a number of minutes of the local clock apart. *)

(* Above the hour, and up to weeks, marks are at dates a number of minutes of the local clock apart. *)
Lengths == {120, 360, 1440, 2880, 10080}
Bounded(c, d) == \/ c = 120 /\ d = 61
                 \/ c = 360 /\ d = 181
                 \/ c \in {1440, 2880, 10080} /\ d = 1380
DatesFrom(n, c) == [k \in Nat |-> makeDate(n + c * k)]
InCalendar(n) == n \in Int /\ MonthStart[0] - 7 * Day <= n

(* These dates are times. *)
LEMMA LatticeTimes ==
    ASSUME NEW n, InCalendar(n), NEW c \in Lengths, NEW k \in Nat, NEW l, l = n + c * k
    PROVE  l \in Int /\ Dated(l) /\ makeDate(l) \in Int
<1>1. PICK z \in Nat : z = c * k
  BY DEF Lengths
<1>2. l \in Int /\ n <= l
  BY <1>1 DEF InCalendar
<1>3. MonthStart[0] \in Int /\ Day \in Int
  BY TicksAssumption DEF Day
<1>4. MonthStart[0] - 7 * Day <= l
  BY <1>2, <1>3 DEF InCalendar
<1> QED
  BY <1>2, <1>4, DatedYear, DatesAreTimes

(* They are far enough apart, an hour of a shift taken off. *)
LEMMA LatticeApart ==
    ASSUME NEW c \in Lengths, NEW d, Bounded(c, d), NEW n \in Int, NEW j \in Nat, NEW k \in Nat
    PROVE  /\ j < k => (n + c * k) - (n + c * j) - 60 > 0
           /\ j < k /\ j = 0 => (n + c * k) - (n + c * j) - 60 >= d * (k - 1)
           /\ d \in Nat \ {0}
<1>1. CASE c = 120
  BY <1>1 DEF Bounded
<1>2. CASE c = 360
  BY <1>2 DEF Bounded
<1>3. CASE c = 1440
  BY <1>3 DEF Bounded
<1>4. CASE c = 2880
  BY <1>4 DEF Bounded
<1>5. CASE c = 10080
  BY <1>5 DEF Bounded
<1> QED
  BY <1>1, <1>2, <1>3, <1>4, <1>5 DEF Lengths

(* So they get later, a shift or not. *)
LEMMA LatticeOnward ==
    ASSUME NEW n, InCalendar(n), NEW c \in Lengths, NEW d, Bounded(c, d), NEW b \in Int, NEW at, at = DatesFrom(n, c)
    PROVE  at \in [Nat -> Int] /\ d \in Nat \ {0} /\ Onward(b, at, d)
<1>1. n \in Int
  BY DEF InCalendar
<1>2. at \in [Nat -> Int]
  BY LatticeTimes DEF DatesFrom
<1>3. ASSUME NEW j \in Nat, NEW k \in Nat
      PROVE  /\ at[j] \in Int /\ at[k] \in Int
             /\ at[k] - at[j] >= (n + c * k) - (n + c * j) - 60
  <2>1. PICK l, m : l = n + c * j /\ m = n + c * k
    OBVIOUS
  <2>2. l \in Int /\ m \in Int /\ Dated(l) /\ Dated(m)
    BY <2>1, LatticeTimes
  <2>3. makeDate(m) - makeDate(l) >= m - l - 60
    BY <2>2, DatesApart
  <2>4. at[j] = makeDate(l) /\ at[k] = makeDate(m)
    BY <2>1 DEF DatesFrom
  <2> QED
    BY <1>2, <2>1, <2>3, <2>4
<1>4. ASSUME NEW j \in Nat, NEW k \in Nat, j < k PROVE at[j] < at[k]
  <2>1. PICK z : z = (n + c * k) - (n + c * j) - 60
    OBVIOUS
  <2>2. z \in Int /\ z > 0
    <3>1. c * k \in Int /\ c * j \in Int
      BY DEF Lengths
    <3> QED
      BY <1>1, <1>4, <2>1, <3>1, LatticeApart
  <2>3. at[k] - at[j] >= z
    BY <1>3, <2>1
  <2> QED
    BY <1>3, <2>2, <2>3
<1>5. ASSUME NEW k \in Nat, k > 0 PROVE at[k] - at[0] >= d * (k - 1)
  <2>1. PICK j \in Nat : j = 0
    OBVIOUS
  <2>2. PICK z : z = (n + c * k) - (n + c * j) - 60
    OBVIOUS
  <2>3. z \in Int
    <3>1. c * k \in Int /\ c * j \in Int
      BY DEF Lengths
    <3> QED
      BY <1>1, <2>2, <3>1
  <2>4. z >= d * (k - 1)
    BY <1>1, <1>5, <2>1, <2>2, LatticeApart
  <2>5. at[k] - at[0] >= z
    BY <1>3, <2>1, <2>2
  <2>6. PICK y \in Int : y = d * (k - 1)
    <3>1. d \in Nat \ {0}
      BY <1>1, LatticeApart
    <3> QED
      BY <3>1
  <2> QED
    BY <1>3, <2>3, <2>4, <2>5, <2>6
<1>6. d \in Nat \ {0}
  BY <1>1, LatticeApart
<1> QED
  BY <1>2, <1>4, <1>5, <1>6 DEF Onward

(* A date on the lattice, and its place there. *)
LEMMA LatticePlace ==
    ASSUME NEW c \in Lengths, NEW n \in Int, NEW l \in Int
    PROVE  /\ (l - n) % c = 0 => l = n + c * ((l - n) \div c) /\ (l - n) \div c \in Int
           /\ (l - n) % c = 0 /\ n - 60 <= l => (l - n) \div c >= 0
<1>1. CASE c = 120
  BY <1>1
<1>2. CASE c = 360
  BY <1>2
<1>3. CASE c = 1440
  BY <1>3
<1>4. CASE c = 2880
  BY <1>4
<1>5. CASE c = 10080
  BY <1>5
<1> QED
  BY <1>1, <1>2, <1>3, <1>4, <1>5 DEF Lengths

(* The dates counted lie on the lattice. *)
LEMMA OnLattice ==
    ASSUME NEW c \in Lengths, NEW n \in Int, NEW k \in Int
    PROVE  ((n + c * k) - n) % c = 0
<1>1. CASE c = 120
  BY <1>1
<1>2. CASE c = 360
  BY <1>2
<1>3. CASE c = 1440
  BY <1>3
<1>4. CASE c = 2880
  BY <1>4
<1>5. CASE c = 10080
  BY <1>5
<1> QED
  BY <1>1, <1>2, <1>3, <1>4, <1>5 DEF Lengths

(* A granularity above the hour whose marks lie on a lattice. *)
OnDates(a, g, n, c) ==
    /\ InCalendar(n) /\ n <= Local(a) /\ Local(a) < n + c
    /\ AxisAt(a, g) = DatesFrom(n, c)
    /\ Bounded(c, AxisStep(g))
KeptOnDates(a, g, n, c) == \A k \in Nat : AxisKept(a, g)[k] <=> Local(AxisAt(a, g)[k]) = n + c * k
NiceOnDates(g, n, c) == \A l \in Int : Nice(l, g) <=> (l - n) % c = 0

(* Then no nice time is missed: it is the first with its local time, and so its makeDate. *)
LEMMA LatticeAxis ==
    ASSUME NEW a, NEW b \in Int, Start(a), NEW g \in 18..25, NEW c \in Lengths, NEW n,
           OnDates(a, g, n, c), KeptOnDates(a, g, n, c), NiceOnDates(g, n, c)
    PROVE  NoneMissed(a, b, g)
<1>1. n \in Int /\ Local(a) \in Int /\ n <= Local(a)
  BY Started DEF OnDates, InCalendar
<1>2. ~ g <= HOURLY
  BY DEF HOURLY
<1>3. ASSUME NEW t \in Int, a <= t, Marked(t, g) PROVE \E k \in Nat : AxisKept(a, g)[k] /\ AxisAt(a, g)[k] = t
  <2>1. PICK l \in Int : l = Local(t) /\ Local(a) - 60 <= l
    BY <1>3, Started
  <2>2. (l - n) % c = 0 /\ t = makeDate(l)
    BY <1>2, <1>3, <2>1 DEF Marked, NiceOnDates
  <2>3. n - 60 <= l
    BY <1>1, <2>1
  <2>4. PICK k : k = (l - n) \div c
    OBVIOUS
  <2>5. k \in Nat /\ l = n + c * k
    BY <1>1, <2>2, <2>3, <2>4, LatticePlace
  <2>6. AxisAt(a, g)[k] = makeDate(n + c * k)
    BY <2>5 DEF OnDates, DatesFrom
  <2>7. AxisAt(a, g)[k] = t
    BY <2>2, <2>5, <2>6
  <2> QED
    BY <2>1, <2>5, <2>7 DEF KeptOnDates
<1>4. ASSUME NEW t \in Int, a <= t, NEW k \in Nat, AxisKept(a, g)[k], AxisAt(a, g)[k] = t PROVE Marked(t, g)
  <2>1. PICK l : l = n + c * k
    OBVIOUS
  <2>2. AxisAt(a, g)[k] = makeDate(n + c * k)
    BY DEF OnDates, DatesFrom
  <2>3. Local(t) = l /\ t = makeDate(l)
    BY <1>4, <2>1, <2>2 DEF KeptOnDates
  <2>4. l \in Int
    BY <1>4, <2>3, Started
  <2>5. (l - n) % c = 0
    BY <1>1, <2>1, OnLattice
  <2> QED
    BY <2>3, <2>4, <2>5 DEF Marked, NiceOnDates
<1> QED
  BY <1>3, <1>4 DEF NoneMissed

(* Hours counted by a number of them. *)
HourSteps(g, s, c) == (g = 18 /\ s = 2 /\ c = 120) \/ (g = 19 /\ s = 6 /\ c = 360)

(* Two and six hours, as TICK_PLACEMENT has them. *)
LEMMA HoursPlaced ==
    ASSUME NEW g, NEW s, NEW c, HourSteps(g, s, c)
    PROVE  /\ TICK_PLACEMENT[g].field = "HH" /\ TICK_PLACEMENT[g].step = s /\ TICK_PLACEMENT[g].spacing = c
           /\ AxisStep(g) = c \div 2 + 1 /\ Bounded(c, AxisStep(g))
           /\ c \in Lengths /\ s \in {2, 6} /\ c = 60 * s
<1>1. CASE g = 18 /\ s = 2 /\ c = 120
  BY <1>1 DEF TICK_PLACEMENT, Placement, AxisStep, Bounded, Lengths
<1>2. CASE g = 19 /\ s = 6 /\ c = 360
  BY <1>2 DEF TICK_PLACEMENT, Placement, AxisStep, Bounded, Lengths
<1> QED
  BY <1>1, <1>2 DEF HourSteps

(* Hours of the day that are multiples of a step, and the last of them. *)
HourBefore(l, s) == (l - (l % 1440)) + 60 * (((l % 1440) \div 60) - (((l % 1440) \div 60) % s))
HourFits(l, s)   == ((l % 1440) \div 60) % s = 0

(* They are parts of the day; an hour on from a multiple of theirs, as makeDate gives for one skipped, is none. *)
LEMMA HoursCounted ==
    ASSUME NEW g, NEW s, NEW c, HourSteps(g, s, c), NEW l \in Int
    PROVE  /\ HourBefore(l, s) = l - (l % c)
           /\ (l % 60 = 0 /\ HourFits(l, s)) <=> l % c = 0
           /\ l - (l % c) \in Int /\ (l - (l % c)) % c = 0 /\ l - (l % c) <= l /\ l < (l - (l % c)) + c
           /\ l % c = 0 => ~ HourFits(l + 60, s)
<1>1. CASE s = 2 /\ c = 120
  BY <1>1 DEF HourBefore, HourFits
<1>2. CASE s = 6 /\ c = 360
  BY <1>2 DEF HourBefore, HourFits
<1> QED
  BY <1>1, <1>2 DEF HourSteps

(* Further on by a number of them. *)
LEMMA HoursMore ==
    ASSUME NEW g, NEW s, NEW c, HourSteps(g, s, c), NEW n \in Int, n % c = 0
    PROVE  /\ \A k \in Int : n + c * k \in Int /\ (n + c * k) % c = 0
           /\ \A l \in Int : l % c = 0 <=> (l - n) % c = 0
<1>1. CASE s = 2 /\ c = 120
  BY <1>1
<1>2. CASE s = 6 /\ c = 360
  BY <1>2
<1> QED
  BY <1>1, <1>2 DEF HourSteps

(* A midnight is not within one of them. *)
LEMMA MidnightsBefore ==
    ASSUME NEW g, NEW s, NEW c, HourSteps(g, s, c), NEW n \in Int, n % c = 0, NEW m \in Int, m % 1440 = 0, m < n + c
    PROVE  m <= n
<1>1. CASE s = 2 /\ c = 120
  BY <1>1
<1>2. CASE s = 6 /\ c = 360
  BY <1>2
<1> QED
  BY <1>1, <1>2 DEF HourSteps

(* The first of the months begins at midnight, a week after the calendar. *)
LEMMA FirstMonth == MonthStart[0] \in Int /\ MonthStart[0] % 1440 = 0
<1>1. PICK m \in 0..12 : m = 0
  OBVIOUS
<1>2. MonthStart[m] \in Int /\ MonthStart[m] % Day = 0
  BY TicksAssumption, ClockAssumption
<1> QED
  BY <1>1, <1>2 DEF Day

(* TWO_HOURLY and SIX_HOURLY count such dates, and keep those that the clock shows. *)
LEMMA HourAxis ==
    ASSUME NEW a, Start(a), NEW g \in 18..19
    PROVE  \E c, n : c \in Lengths /\ OnDates(a, g, n, c) /\ KeptOnDates(a, g, n, c) /\ NiceOnDates(g, n, c)
<1>1. PICK s, c : HourSteps(g, s, c)
  <2>1. g = 18 \/ g = 19
    OBVIOUS
  <2> QED
    BY <2>1 DEF HourSteps
<1>2. PICK p : p = TICK_PLACEMENT[g]
  OBVIOUS
<1>3. p.field = "HH" /\ p.step = s /\ p.spacing = c
  BY <1>1, <1>2, HoursPlaced
<1>4. c \in Lengths /\ s \in {2, 6} /\ c = 60 * s /\ Bounded(c, AxisStep(g))
  BY <1>1, HoursPlaced
<1>5. Local(a) \in Int /\ MonthStart[0] <= Local(a)
  BY Started DEF Start
<1>6. PICK l \in Int : l = Local(a)
  BY <1>5
<1>7. PICK n : n = l - (l % c)
  OBVIOUS
<1>8. n \in Int /\ n % c = 0 /\ n <= l /\ l < n + c
  BY <1>1, <1>7, HoursCounted
<1>9. NiceBefore(l, g) = n
  <2>1. NiceBefore(l, g) = (l - (l % Day)) + 60 * (Hour(l) - (Hour(l) % s))
    BY <1>2, <1>3 DEF NiceBefore
  <2>2. NiceBefore(l, g) = HourBefore(l, s)
    BY <2>1 DEF Hour, Day, HourBefore
  <2> QED
    BY <1>1, <1>7, <2>2, HoursCounted
<1>10. \A k \in Nat : Onwards(n, g, k) = n + c * k
  <2> SUFFICES ASSUME NEW k \in Nat PROVE Onwards(n, g, k) = n + c * k
    OBVIOUS
  <2>1. Onwards(n, g, k) = n + 60 * s * k
    BY <1>2, <1>3 DEF Onwards
  <2> QED
    BY <1>4, <2>1
<1>11. AxisAt(a, g) = DatesFrom(n, c)
  <2>1. ~ g <= HOURLY
    BY DEF HOURLY
  <2> QED
    BY <1>6, <1>9, <1>10, <2>1 DEF AxisAt, DatesFrom
<1>12. InCalendar(n)
  <2>1. PICK m \in Int : m = MonthStart[0] /\ m % 1440 = 0
    BY FirstMonth
  <2>2. m < n + c
    BY <1>4, <1>5, <1>6, <1>8, <2>1
  <2>3. m <= n
    BY <1>1, <1>8, <2>1, <2>2, MidnightsBefore
  <2> QED
    BY <1>8, <2>1, <2>3 DEF InCalendar, Day
<1>13. OnDates(a, g, n, c)
  BY <1>4, <1>6, <1>8, <1>11, <1>12 DEF OnDates
<1>14. NiceOnDates(g, n, c)
  <2> SUFFICES ASSUME NEW q \in Int PROVE Nice(q, g) <=> (q - n) % c = 0
    BY Zenon DEF NiceOnDates
  <2>1. Nice(q, g) <=> q % 60 = 0 /\ HourFits(q, s)
    BY <1>2, <1>3 DEF Nice, Hour, Day, HourFits
  <2>2. Nice(q, g) <=> q % c = 0
    BY <1>1, <2>1, HoursCounted
  <2>3. \A r \in Int : r % c = 0 <=> (r - n) % c = 0
    BY <1>1, <1>8, HoursMore
  <2> QED
    BY <2>2, <2>3
<1>15. KeptOnDates(a, g, n, c)
  <2> SUFFICES ASSUME NEW k \in Nat PROVE AxisKept(a, g)[k] <=> Local(AxisAt(a, g)[k]) = n + c * k
    BY DEF KeptOnDates
  <2>1. PICK q : q = n + c * k
    OBVIOUS
  <2>2. q \in Int /\ q % c = 0
    BY <1>1, <1>8, <2>1, HoursMore
  <2>3. Dated(q)
    BY <1>4, <1>12, <2>1, LatticeTimes
  <2>4. PICK x \in Int : x = Local(makeDate(q)) /\ x \in {q, q + 60}
    BY <2>2, <2>3, DatesAre
  <2>5. AxisAt(a, g)[k] = makeDate(q)
    BY <1>11, <2>1 DEF DatesFrom
  <2>6. AxisKept(a, g)[k] <=> HourFits(x, s)
    <3>1. ~ g <= HOURLY /\ ~ g >= DAILY
      BY DEF HOURLY, DAILY
    <3>2. AxisKept(a, g)[k] <=> Hour(Local(AxisAt(a, g)[k])) % TICK_PLACEMENT[g].step = 0
      BY <3>1, Zenon DEF AxisKept
    <3> QED
      BY <1>2, <1>3, <2>4, <2>5, <3>2 DEF Hour, Day, HourFits
  <2>7. x = q => HourFits(x, s)
    BY <1>1, <2>2, HoursCounted
  <2>8. x = q + 60 => ~ HourFits(x, s)
    BY <1>1, <2>2, HoursCounted
  <2> QED
    BY <2>1, <2>2, <2>4, <2>5, <2>6, <2>7, <2>8
<1> QED
  BY <1>4, <1>13, <1>14, <1>15

(* Days counted by one, two and seven. *)
DaySteps(g, s, c) == (g = 20 /\ s = 1 /\ c = 1440) \/ (g = 21 /\ s = 2 /\ c = 2880) \/ (g = 22 /\ s = 7 /\ c = 10080)

(* A day, two and seven, as TICK_PLACEMENT has them. *)
LEMMA DaysPlaced ==
    ASSUME NEW g, NEW s, NEW c, DaySteps(g, s, c)
    PROVE  /\ TICK_PLACEMENT[g].field = "D" /\ TICK_PLACEMENT[g].step = s
           /\ Bounded(c, AxisStep(g)) /\ c \in Lengths /\ s \in {1, 2, 7} /\ c = 1440 * s
<1>1. CASE g = 20 /\ s = 1 /\ c = 1440
  BY <1>1 DEF TICK_PLACEMENT, Placement, AxisStep, Bounded, Lengths
<1>2. CASE g = 21 /\ s = 2 /\ c = 2880
  BY <1>2 DEF TICK_PLACEMENT, Placement, AxisStep, Bounded, Lengths
<1>3. CASE g = 22 /\ s = 7 /\ c = 10080
  BY <1>3 DEF TICK_PLACEMENT, Placement, AxisStep, Bounded, Lengths
<1> QED
  BY <1>1, <1>2, <1>3 DEF DaySteps

(* How many days before the midnight of a local time counting begins. *)
Early(l, g) == IF g = WEEKLY THEN Weekday(l) ELSE DayOfMonth(l) % TICK_PLACEMENT[g].step

(* It is fewer than the step. *)
LEMMA EarlyBy ==
    ASSUME NEW l \in Int, MonthStart[0] <= l, NEW g, NEW s, NEW c, DaySteps(g, s, c)
    PROVE  Early(l, g) \in 0..s - 1
<1>1. Month(l) \in 0..12
  BY MonthIs
<1>2. MonthStart[Month(l)] \in Int
  BY <1>1, TicksAssumption
<1>3. PICK d \in Int : d = DayOfMonth(l)
  BY <1>2 DEF DayOfMonth, Day
<1>4. PICK w \in Int : w = l \div Day + FirstWeekday /\ Weekday(l) = w % 7
  BY TicksAssumption DEF Weekday, Day
<1>5. CASE g = 20 /\ s = 1
  <2>1. Early(l, g) = d % 1
    BY <1>3, <1>5, DaysPlaced DEF Early, WEEKLY
  <2> QED
    BY <1>5, <2>1
<1>6. CASE g = 21 /\ s = 2
  <2>1. Early(l, g) = d % 2
    BY <1>3, <1>6, DaysPlaced DEF Early, WEEKLY
  <2> QED
    BY <1>6, <2>1
<1>7. CASE g = 22 /\ s = 7
  <2>1. Early(l, g) = w % 7
    BY <1>4, <1>7 DEF Early, WEEKLY
  <2> QED
    BY <1>7, <2>1
<1> QED
  BY <1>5, <1>6, <1>7 DEF DaySteps

(* Where counting begins: at a midnight, within a step of the local time, and no earlier than a week before it. *)
LEMMA DaysCounted ==
    ASSUME NEW g, NEW s, NEW c, DaySteps(g, s, c), NEW l \in Int, NEW e \in 0..s - 1,
           NEW n, n = (l - (l % 1440)) - 1440 * e,
           NEW m \in Int, m % 1440 = 0, m <= l
    PROVE  n \in Int /\ n % 1440 = 0 /\ n <= l /\ l < n + c /\ m - 7 * 1440 <= n
<1>1. CASE s = 1 /\ c = 1440
  BY <1>1
<1>2. CASE s = 2 /\ c = 2880
  BY <1>2
<1>3. CASE s = 7 /\ c = 10080
  BY <1>3
<1> QED
  BY <1>1, <1>2, <1>3 DEF DaySteps

(* Further on by a number of them it is midnight, too. *)
LEMMA DaysMore ==
    ASSUME NEW c \in {1440, 2880, 10080}, NEW n \in Int, n % 1440 = 0, NEW k \in Int
    PROVE  n + c * k \in Int /\ (n + c * k) % 1440 = 0
<1>1. CASE c = 1440
  BY <1>1
<1>2. CASE c = 2880
  BY <1>2
<1>3. CASE c = 10080
  BY <1>3
<1> QED
  BY <1>1, <1>2, <1>3

(* Weeks count from a first day of the week. *)
LEMMA WeeksApart ==
    ASSUME NEW f \in Int, NEW m \in Int, (m + f) % 7 = 0, NEW l \in Int
    PROVE  (l - 1440 * m) % 10080 = 0 <=> l % 1440 = 0 /\ (l \div 1440 + f) % 7 = 0
<1>1. PICK j \in Int, r \in 0..1439 : l = 1440 * j + r /\ j = l \div 1440 /\ r = l % 1440
  OBVIOUS
<1>2. PICK x \in Int : x = j - m
  OBVIOUS
<1>3. l - 1440 * m = 1440 * x + r
  <2>1. l = 1440 * j + r
    BY <1>1
  <2>2. 1440 * x = 1440 * j - 1440 * m
    BY <1>2
  <2> QED
    BY <2>1, <2>2
<1>4. (1440 * x + r) % 10080 = 0 <=> r = 0 /\ x % 7 = 0
  <2>1. PICK y \in Int, z \in 0..6 : x = 7 * y + z /\ z = x % 7
    BY <1>2
  <2>2. 1440 * x + r = 10080 * y + (1440 * z + r) /\ 1440 * z + r \in 0..10079
    BY <1>1, <2>1
  <2>3. (1440 * x + r) % 10080 = 1440 * z + r
    <3>1. PICK q \in 0..10079 : q = 1440 * z + r
      BY <2>2
    <3>2. (10080 * y + q) % 10080 = q
      BY <2>1, <3>1
    <3> QED
      BY <2>2, <3>1, <3>2
  <2> QED
    BY <1>1, <2>1, <2>3
<1>5. x % 7 = 0 <=> (j + f) % 7 = 0
  <2>1. j + f = x + (m + f)
    BY <1>2
  <2>2. PICK w \in Int : w = m + f /\ w % 7 = 0
    OBVIOUS
  <2>3. x % 7 = 0 <=> (x + w) % 7 = 0
    <3>1. PICK v \in Int : w = 7 * v
      BY <2>2
    <3>2. (x + 7 * v) % 7 = x % 7
      BY <1>2, <3>1
    <3> QED
      BY <3>1, <3>2
  <2> QED
    BY <2>1, <2>2, <2>3
<1> QED
  BY <1>1, <1>3, <1>4, <1>5

(* DAILY, TWO_DAILY and WEEKLY count such dates, at midnights, which no shift leaves out. *)
LEMMA DayAxis ==
    ASSUME NEW a, Start(a), NEW g \in 20..22
    PROVE  \E c, n : /\ c \in Lengths /\ OnDates(a, g, n, c) /\ KeptOnDates(a, g, n, c) /\ n % 1440 = 0
                     /\ IF g = 21 THEN c = 2880 ELSE NiceOnDates(g, n, c)
<1>1. PICK s, c : DaySteps(g, s, c)
  <2>1. g = 20 \/ g = 21 \/ g = 22
    OBVIOUS
  <2> QED
    BY <2>1 DEF DaySteps
<1>2. PICK p : p = TICK_PLACEMENT[g]
  OBVIOUS
<1>3. p.field = "D" /\ p.step = s
  BY <1>1, <1>2, DaysPlaced
<1>4. c \in Lengths /\ s \in {1, 2, 7} /\ c = 1440 * s /\ Bounded(c, AxisStep(g)) /\ c \in {1440, 2880, 10080}
  BY <1>1, DaysPlaced
<1>5. Local(a) \in Int /\ MonthStart[0] <= Local(a)
  BY Started DEF Start
<1>6. PICK l \in Int : l = Local(a)
  BY <1>5
<1>7. PICK e \in 0..s - 1 : e = Early(l, g)
  BY <1>1, <1>5, <1>6, EarlyBy
<1>8. PICK n : n = (l - (l % 1440)) - 1440 * e
  OBVIOUS
<1>9. PICK m \in Int : m = MonthStart[0] /\ m % 1440 = 0 /\ m <= l
  BY <1>5, <1>6, FirstMonth
<1>10. n \in Int /\ n % 1440 = 0 /\ n <= l /\ l < n + c /\ m - 7 * 1440 <= n
  BY <1>1, <1>8, <1>9, DaysCounted
<1>11. NiceBefore(l, g) = n
  <2>1. NiceBefore(l, g) = (l - (l % Day)) - Day * Early(l, g)
    BY <1>2, <1>3 DEF NiceBefore, Early
  <2> QED
    BY <1>7, <1>8, <2>1 DEF Day
<1>12. \A k \in Nat : Onwards(n, g, k) = n + c * k
  <2> SUFFICES ASSUME NEW k \in Nat PROVE Onwards(n, g, k) = n + c * k
    OBVIOUS
  <2>1. Onwards(n, g, k) = n + Day * s * k
    BY <1>2, <1>3 DEF Onwards
  <2> QED
    BY <1>4, <2>1 DEF Day
<1>13. AxisAt(a, g) = DatesFrom(n, c)
  <2>1. ~ g <= HOURLY
    BY DEF HOURLY
  <2> QED
    BY <1>6, <1>11, <1>12, <2>1 DEF AxisAt, DatesFrom
<1>14. InCalendar(n)
  BY <1>9, <1>10 DEF InCalendar, Day
<1>15. OnDates(a, g, n, c)
  BY <1>4, <1>6, <1>10, <1>13, <1>14 DEF OnDates
<1>16. KeptOnDates(a, g, n, c)
  <2> SUFFICES ASSUME NEW k \in Nat PROVE AxisKept(a, g)[k] <=> Local(AxisAt(a, g)[k]) = n + c * k
    BY DEF KeptOnDates
  <2>1. PICK q : q = n + c * k
    OBVIOUS
  <2>2. q \in Int /\ q % 1440 = 0
    BY <1>4, <1>10, <2>1, DaysMore
  <2>3. Dated(q)
    <3>1. c \in Lengths
      BY <1>4
    <3> QED
      BY <1>14, <2>1, <3>1, LatticeTimes
  <2>4. Local(makeDate(q)) = q
    BY <2>2, <2>3, Midnights DEF Day
  <2>5. AxisAt(a, g)[k] = makeDate(q)
    BY <1>13, <2>1 DEF DatesFrom
  <2>6. AxisKept(a, g)[k]
    <3>1. g >= DAILY
      BY DEF DAILY
    <3> QED
      BY <3>1, Zenon DEF AxisKept
  <2> QED
    BY <2>1, <2>4, <2>5, <2>6
<1>17. ASSUME g # 21 PROVE NiceOnDates(g, n, c)
  <2> SUFFICES ASSUME NEW q \in Int PROVE Nice(q, g) <=> (q - n) % c = 0
    BY Zenon DEF NiceOnDates
  <2>1. Nice(q, g) <=> q % Day = 0 /\ (g = WEEKLY => Weekday(q) = 0)
    BY <1>2, <1>3, Zenon DEF Nice
  <2>2. CASE g = 20
    <3>1. c = 1440
      BY <1>1, <2>2 DEF DaySteps
    <3>2. Nice(q, g) <=> q % 1440 = 0
      BY <2>1, <2>2 DEF WEEKLY, Day
    <3>3. q % 1440 = 0 <=> (q - n) % 1440 = 0
      BY <1>10
    <3> QED
      BY <3>1, <3>2, <3>3
  <2>3. CASE g = 22
    <3>1. c = 10080
      BY <1>1, <2>3 DEF DaySteps
    <3>2. Nice(q, g) <=> q % 1440 = 0 /\ (q \div 1440 + FirstWeekday) % 7 = 0
      BY <2>1, <2>3 DEF WEEKLY, Day, Weekday
    <3>3. e = (l \div 1440 + FirstWeekday) % 7
      BY <1>7, <2>3 DEF Early, WEEKLY, Weekday, Day
    <3>4. PICK f \in Int, j \in Int, i \in Int : f = FirstWeekday /\ i = l \div 1440 /\ j = i - e
      BY TicksAssumption, <1>7, <1>4
    <3>5. n = 1440 * j
      BY <1>4, <1>7, <1>8, <3>4
    <3>6. (j + f) % 7 = 0
      <4>1. PICK x \in Int : x = i + f
        BY <3>4
      <4>2. e = x % 7 /\ j + f = x - e
        BY <3>3, <3>4, <4>1
      <4>3. (x - (x % 7)) % 7 = 0
        BY <4>1
      <4> QED
        BY <4>2, <4>3
    <3>7. (q - 1440 * j) % 10080 = 0 <=> q % 1440 = 0 /\ (q \div 1440 + f) % 7 = 0
      BY <3>6, WeeksApart
    <3> QED
      BY <3>1, <3>2, <3>4, <3>5, <3>7
  <2> QED
    BY <1>17, <2>2, <2>3
<1>18. IF g = 21 THEN c = 2880 ELSE NiceOnDates(g, n, c)
  BY <1>1, <1>17 DEF DaySteps
<1> QED
  BY <1>4, <1>10, <1>15, <1>16, <1>18
---------------------------------------------------------------------------------
(* Months. *)

(* The start of a month lies in it. *)
LEMMA MonthOfStart ==
    ASSUME NEW n \in 0..12
    PROVE  Month(MonthStart[n]) = n
<1>1. PICK l \in Int : l = MonthStart[n]
  BY StartsOfMonths
<1>2. PICK z \in 0..12 : z = 0
  OBVIOUS
<1>3. z = n \/ z < n
  BY <1>2
<1>4. MonthStart[0] <= l
  BY <1>1, <1>2, <1>3, StartsOfMonths
<1>5. PICK m \in 0..12 : m = Month(l) /\ MonthStart[m] <= l /\ n <= m
  BY <1>1, <1>4, MonthIs
<1>6. ~ n < m
  BY <1>1, <1>5, StartsOfMonths
<1> QED
  BY <1>1, <1>5, <1>6

(* Months counted by one, three and six. *)
MonthSteps == {1, 3, 6}

(* MONTHLY, QUARTERLY and BIANNUAL, as TICK_PLACEMENT has them. *)
LEMMA MonthsPlaced ==
    ASSUME NEW g \in 23..25
    PROVE  \E s \in MonthSteps : TICK_PLACEMENT[g].field = "M" /\ TICK_PLACEMENT[g].step = s /\ AxisStep(g) = 40320
<1>1. g = 23 \/ g = 24 \/ g = 25
  OBVIOUS
<1> QED
  BY <1>1 DEF TICK_PLACEMENT, Placement, AxisStep, MonthSteps, Day

(* The last month of a step, at or before a month. *)
LEMMA MonthsCounted ==
    ASSUME NEW s \in MonthSteps, NEW m \in 0..12
    PROVE  /\ m - (m % s) \in 0..12 /\ m - (m % s) <= m /\ (m - (m % s)) % s = 0
<1>1. CASE s = 1
  BY <1>1
<1>2. CASE s = 3
  BY <1>2
<1>3. CASE s = 6
  BY <1>3
<1> QED
  BY <1>1, <1>2, <1>3 DEF MonthSteps

(* Months counted on. *)
LEMMA MonthsOn ==
    ASSUME NEW s \in MonthSteps, NEW k \in Nat
    PROVE  s * k \in Nat /\ k <= s * k /\ (k = 0 => s * k = 0)
<1>1. CASE s = 1
  BY <1>1
<1>2. CASE s = 3
  BY <1>2
<1>3. CASE s = 6
  BY <1>3
<1> QED
  BY <1>1, <1>2, <1>3 DEF MonthSteps

(* They are months of the step again, later ones for more steps. *)
LEMMA MonthsMore ==
    ASSUME NEW s \in MonthSteps, NEW m \in 0..12, m % s = 0, NEW k \in Nat
    PROVE  (m + s * k) % s = 0 /\ \A j \in Nat : j < k => s * j < s * k
<1>1. CASE s = 1
  BY <1>1
<1>2. CASE s = 3
  BY <1>2
<1>3. CASE s = 6
  BY <1>3
<1> QED
  BY <1>1, <1>2, <1>3 DEF MonthSteps

(* Every later month of the step is reached. *)
LEMMA MonthsReached ==
    ASSUME NEW s \in MonthSteps, NEW m \in 0..12, m % s = 0, NEW n \in 0..12, n % s = 0, m <= n
    PROVE  (n - m) \div s \in Nat /\ n = m + s * ((n - m) \div s)
<1>1. CASE s = 1
  BY <1>1
<1>2. CASE s = 3
  BY <1>2
<1>3. CASE s = 6
  BY <1>3
<1> QED
  BY <1>1, <1>2, <1>3 DEF MonthSteps

(* The year ends after a time. *)
InYear(b) == b \in Int /\ Local(b) + 60 <= MonthStart[12]

(* The dates getDateAxis counts in months, which run on a minute apart when the year is over. *)
MonthAt(m, s, k) == IF m + s * k \in 0..12 THEN MonthStart[m + s * k] ELSE MonthStart[12] + k

(* The marks are the starts of months, until they are beyond the window. *)
LEMMA MonthMark ==
    ASSUME NEW a, Start(a), NEW b, InYear(b), a <= b, NEW s \in MonthSteps, NEW m \in 0..12, NEW k \in Nat,
           NEW t, t = makeDate(MonthAt(m, s, k))
    PROVE  /\ t \in Int
           /\ m + s * k \in 0..12 => /\ Local(t) = MonthStart[m + s * k] /\ t = makeDate(MonthStart[m + s * k])
                                     /\ Dated(MonthStart[m + s * k])
           /\ t <= b => m + s * k \in 0..12
<1>1. PICK i \in Int : i = m + s * k /\ m <= i /\ (k = 0 => i = m)
  <2>1. PICK x \in Nat : x = s * k /\ (k = 0 => x = 0)
    BY MonthsOn
  <2> QED
    BY <2>1
<1>2. PICK z \in 0..12, y \in 0..12 : z = 0 /\ y = 12
  OBVIOUS
<1>3. PICK first \in Int, last \in Int : first = MonthStart[z] /\ last = MonthStart[y] /\ first < last
  BY <1>2, StartsOfMonths
<1>4. PICK q : q = MonthAt(m, s, k)
  OBVIOUS
<1>5. /\ q \in Int /\ first <= q /\ (i \in 0..12 => q = MonthStart[i] /\ q % Day = 0)
      /\ (~ i \in 0..12 => q = last + k /\ k > 0)
  <2>1. CASE i \in 0..12
    <3>1. q = MonthStart[i]
      BY <1>1, <1>4, <2>1 DEF MonthAt
    <3>2. z = i \/ z < i
      BY <1>2, <2>1
    <3>3. q \in Int /\ q % Day = 0
      BY <2>1, <3>1, StartsOfMonths
    <3>4. first <= q
      <4>1. CASE z = i
        BY <1>3, <3>1, <4>1
      <4>2. CASE z < i
        <5>1. MonthStart[i] - MonthStart[z] >= 40320 * (i - z)
          BY <2>1, <4>2, StartsOfMonths
        <5> QED
          BY <1>3, <2>1, <3>1, <3>3, <4>2, <5>1
      <4> QED
        BY <3>2, <4>1, <4>2
    <3> QED
      BY <2>1, <3>1, <3>3, <3>4
  <2>2. CASE ~ i \in 0..12
    <3>1. q = last + k
      BY <1>1, <1>2, <1>3, <1>4, <2>2 DEF MonthAt
    <3>2. k > 0
      BY <1>1, <2>2
    <3> QED
      BY <1>3, <2>2, <3>1, <3>2
  <2> QED
    BY <2>1, <2>2
<1>6. Dated(q)
  <2>1. MonthStart[0] - 7 * Day <= q
    BY <1>2, <1>3, <1>5 DEF Day
  <2> QED
    BY <1>5, <2>1, DatedYear
<1>7. t \in Int /\ Ruled(t) /\ Local(t) \in {q, q + 60}
  BY <1>4, <1>5, <1>6, DatesAre
<1>8. ASSUME i \in 0..12
      PROVE  Local(t) = MonthStart[i] /\ t = makeDate(MonthStart[i]) /\ Dated(MonthStart[i])
  <2>1. q = MonthStart[i] /\ q % Day = 0
    BY <1>5, <1>8
  <2>2. Local(makeDate(q)) = q
    BY <1>5, <1>6, <2>1, Midnights
  <2> QED
    BY <1>4, <1>6, <2>1, <2>2
<1>9. ASSUME t <= b, ~ i \in 0..12 PROVE FALSE
  <2>1. q = last + k /\ k > 0
    BY <1>5, <1>9
  <2>2. b \in Int /\ Ruled(b)
    BY Started DEF InYear, Start
  <2>3. (Local(b) - b) - (Local(t) - t) \in {-60, 0, 60} /\ Local(b) \in Int
    BY <1>7, <2>2, ClockSteps
  <2>4. Local(b) + 60 <= last
    BY <1>2, <1>3 DEF InYear
  <2> QED
    BY <1>5, <1>7, <1>9, <2>1, <2>2, <2>3, <2>4
<1> QED
  BY <1>1, <1>7, <1>8, <1>9

(* So they get later, and no start of a month of the step is missed. *)
LEMMA MonthAxis ==
    ASSUME NEW a, Start(a), NEW b, InYear(b), a <= b, NEW g \in 23..25
    PROVE  AxisRight(a, b, g) /\ NoneMissed(a, b, g)
<1>1. PICK s \in MonthSteps : TICK_PLACEMENT[g].field = "M" /\ TICK_PLACEMENT[g].step = s /\ AxisStep(g) = 40320
  BY MonthsPlaced
<1>2. a \in Int /\ b \in Int /\ Local(a) \in Int /\ MonthStart[0] <= Local(a)
  BY Started DEF Start, InYear
<1>3. PICK l \in Int : l = Local(a)
  BY <1>2
<1>4. PICK now \in 0..12 : now = Month(l) /\ MonthStart[now] <= l
  BY <1>2, <1>3, MonthIs
<1>5. PICK m \in 0..12 : m = now - (now % s) /\ m <= now /\ m % s = 0
  BY <1>4, MonthsCounted
<1>6. NiceBefore(l, g) = MonthStart[m]
  <2>1. PICK p : p = TICK_PLACEMENT[g]
    OBVIOUS
  <2> QED
    BY <1>1, <1>4, <1>5, <2>1 DEF NiceBefore
<1>7. \A k \in Nat : Onwards(MonthStart[m], g, k) = MonthAt(m, s, k)
  <2> SUFFICES ASSUME NEW k \in Nat PROVE Onwards(MonthStart[m], g, k) = MonthAt(m, s, k)
    OBVIOUS
  <2>1. Onwards(MonthStart[m], g, k) = IF Month(MonthStart[m]) + s * k \in DOMAIN MonthStart
                                       THEN MonthStart[Month(MonthStart[m]) + s * k] ELSE Max(Range(MonthStart)) + k
    BY <1>1 DEF Onwards
  <2>2. DOMAIN MonthStart = 0..12
    BY TicksAssumption
  <2> QED
    BY <2>1, <2>2, MonthOfStart, LastStart DEF MonthAt
<1>8. PICK at : at = AxisAt(a, g)
  OBVIOUS
<1>9. at = [k \in Nat |-> makeDate(MonthAt(m, s, k))]
  <2>1. ~ g <= HOURLY
    BY DEF HOURLY
  <2> QED
    BY <1>3, <1>6, <1>7, <1>8, <2>1 DEF AxisAt
<1>10. ASSUME NEW k \in Nat
       PROVE  /\ at[k] \in Int /\ m + s * k \in Int
              /\ m + s * k \in 0..12 => /\ Local(at[k]) = MonthStart[m + s * k]
                                        /\ at[k] = makeDate(MonthStart[m + s * k])
                                        /\ Dated(MonthStart[m + s * k])
              /\ at[k] <= b => m + s * k \in 0..12
  <2>1. at[k] = makeDate(MonthAt(m, s, k))
    BY <1>9
  <2>2. s * k \in Nat
    BY MonthsOn
  <2> QED
    BY <1>2, <2>1, <2>2, MonthMark
<1>11. at \in [Nat -> Int]
  BY <1>9, <1>10
<1>12. ASSUME NEW j \in Nat, NEW k \in Nat, j < k, at[k] <= b PROVE at[k] - at[j] >= 40320 * (s * k - s * j) - 60
  <2>1. PICK x \in Int, y \in Int : x = m + s * j /\ y = m + s * k /\ y \in 0..12
    BY <1>10, <1>12
  <2>2. x < y /\ m <= x
    <3>1. s * j < s * k /\ s * j \in Nat /\ s * k \in Nat
      BY <1>5, <1>12, MonthsMore, MonthsOn
    <3> QED
      BY <2>1, <3>1
  <2>3. x \in 0..12
    BY <1>5, <2>1, <2>2
  <2>4. /\ at[k] = makeDate(MonthStart[y]) /\ at[j] = makeDate(MonthStart[x])
        /\ Dated(MonthStart[y]) /\ Dated(MonthStart[x])
    BY <1>10, <2>1, <2>3
  <2>5. MonthStart[x] \in Int /\ MonthStart[y] \in Int /\ MonthStart[y] - MonthStart[x] >= 40320 * (y - x)
    BY <2>1, <2>2, <2>3, StartsOfMonths
  <2>6. at[k] - at[j] >= MonthStart[y] - MonthStart[x] - 60
    BY <2>4, <2>5, DatesApart
  <2>7. y - x = s * k - s * j
    <3>1. s * k \in Nat /\ s * j \in Nat
      BY MonthsOn
    <3> QED
      BY <2>1, <3>1
  <2> QED
    BY <1>10, <2>5, <2>6, <2>7
<1>13. Onward(b, at, 40320)
  <2>1. ASSUME NEW j \in Nat, NEW k \in Nat, j < k, at[k] <= b PROVE at[j] < at[k]
    <3>1. PICK x \in Int : x = s * k - s * j /\ x > 0
      <4>1. s * k \in Nat /\ s * j \in Nat /\ s * j < s * k
        BY <1>5, <2>1, MonthsMore, MonthsOn
      <4> QED
        BY <4>1
    <3>2. at[k] - at[j] >= 40320 * x - 60
      BY <1>12, <2>1, <3>1
    <3> QED
      BY <1>11, <3>1, <3>2
  <2>2. ASSUME NEW k \in Nat, k > 0, at[k] <= b PROVE at[k] - at[0] >= 40320 * (k - 1)
    <3>1. PICK j \in Nat : j = 0
      OBVIOUS
    <3>2. PICK x \in Int : x = s * k - s * j /\ x >= k
      <4>1. s * k \in Nat /\ s * k >= k
        BY MonthsOn
      <4>2. s * j = 0
        BY <3>1, MonthsOn
      <4> QED
        BY <4>1, <4>2
    <3>3. at[k] - at[j] >= 40320 * x - 60
      BY <1>12, <2>2, <3>1, <3>2
    <3> QED
      BY <1>11, <2>2, <3>1, <3>2, <3>3
  <2> QED
    BY <2>1, <2>2 DEF Onward
<1>14. AxisRight(a, b, g)
  BY <1>1, <1>8, <1>11, <1>13 DEF AxisRight
<1>15. ~ g <= HOURLY /\ g >= DAILY
  BY DEF HOURLY, DAILY
<1>16. \A k \in Nat : AxisKept(a, g)[k]
  BY <1>15, Zenon DEF AxisKept
<1>17. ASSUME NEW q PROVE Nice(q, g) <=> \E n \in 0..12 : q = MonthStart[n] /\ n % s = 0
  <2>1. Nice(q, g) <=> q \in Range(MonthStart) /\ Month(q) % s = 0
    BY <1>1 DEF Nice
  <2>2. q \in Range(MonthStart) <=> \E n \in 0..12 : q = MonthStart[n]
    BY TicksAssumption DEF Range
  <2> QED
    BY <2>1, <2>2, MonthOfStart
<1>18. ASSUME NEW t \in Int, a <= t, Marked(t, g) PROVE \E k \in Nat : at[k] = t
  <2>1. PICK n \in 0..12 : Local(t) = MonthStart[n] /\ n % s = 0
    BY <1>17, <1>18 DEF Marked
  <2>2. t = makeDate(MonthStart[n])
    BY <1>15, <1>18, <2>1 DEF Marked
  <2>3. l - 60 <= MonthStart[n]
    BY <1>3, <1>18, <2>1, Started
  <2>4. m <= n
    <3>1. ASSUME n < m PROVE FALSE
      <4>1. MonthStart[m] - MonthStart[n] >= 40320 * (m - n) /\ MonthStart[m] \in Int /\ MonthStart[n] \in Int
        BY <3>1, StartsOfMonths
      <4>2. MonthStart[m] <= MonthStart[now] /\ MonthStart[now] \in Int
        <5>1. m = now \/ m < now
          BY <1>5
        <5>2. MonthStart[now] \in Int
          BY StartsOfMonths
        <5>3. ASSUME m < now PROVE MonthStart[m] <= MonthStart[now]
          <6>1. MonthStart[now] - MonthStart[m] >= 40320 * (now - m)
            BY <5>3, StartsOfMonths
          <6> QED
            BY <4>1, <5>2, <5>3, <6>1
        <5> QED
          BY <4>1, <5>1, <5>2, <5>3
      <4> QED
        BY <1>4, <2>3, <3>1, <4>1, <4>2
    <3> QED
      BY <3>1
  <2>5. PICK k : k = (n - m) \div s
    OBVIOUS
  <2>6. k \in Nat /\ n = m + s * k
    BY <1>5, <2>1, <2>4, <2>5, MonthsReached
  <2>7. at[k] = makeDate(MonthStart[n])
    BY <1>10, <2>6
  <2> QED
    BY <2>2, <2>6, <2>7
<1>19. ASSUME NEW t \in Int, t < b, NEW k \in Nat, at[k] = t PROVE Marked(t, g)
  <2>1. PICK n \in 0..12 : n = m + s * k
    BY <1>2, <1>10, <1>19
  <2>2. Local(t) = MonthStart[n] /\ t = makeDate(MonthStart[n])
    BY <1>10, <1>19, <2>1
  <2>3. n % s = 0
    BY <1>5, <2>1, MonthsMore
  <2> QED
    BY <1>17, <2>2, <2>3 DEF Marked
<1>20. NoneMissed(a, b, g)
  BY <1>8, <1>16, <1>18, <1>19 DEF NoneMissed
<1> QED
  BY <1>14, <1>20
---------------------------------------------------------------------------------
(* Every granularity. *)

(* Every granularity: marks in order, and, but for every other day, all nice ones. *)
LEMMA AxesAreRight ==
    ASSUME NEW a, Start(a), NEW b, InYear(b), a < b, NEW g \in 12..25
    PROVE  AxisRight(a, b, g) /\ (g # 21 => NoneMissed(a, b, g))
<1>1. a \in Int /\ b \in Int /\ a <= b
  BY DEF Start, InYear
<1>2. CASE g \in 12..17
  BY <1>1, <1>2, FixedAxis
<1>3. ASSUME NEW c \in Lengths, NEW n, OnDates(a, g, n, c) PROVE AxisRight(a, b, g)
  <2>1. InCalendar(n) /\ Bounded(c, AxisStep(g)) /\ AxisAt(a, g) = DatesFrom(n, c)
    BY <1>3 DEF OnDates
  <2> QED
    BY <1>1, <2>1, LatticeOnward DEF AxisRight
<1>4. CASE g \in 18..19
  <2>1. PICK c, n : c \in Lengths /\ OnDates(a, g, n, c) /\ KeptOnDates(a, g, n, c) /\ NiceOnDates(g, n, c)
    BY <1>4, HourAxis
  <2>2. g \in 18..25
    BY <1>4
  <2> QED
    BY <1>1, <1>3, <2>1, <2>2, LatticeAxis
<1>5. CASE g \in 20..22
  <2>1. PICK c, n : /\ c \in Lengths /\ OnDates(a, g, n, c) /\ KeptOnDates(a, g, n, c)
                    /\ IF g = 21 THEN c = 2880 ELSE NiceOnDates(g, n, c)
    BY <1>5, DayAxis
  <2>2. g \in 18..25
    BY <1>5
  <2>3. g # 21 => NiceOnDates(g, n, c)
    BY <2>1
  <2> QED
    BY <1>1, <1>3, <2>1, <2>2, <2>3, LatticeAxis
<1>6. CASE g \in 23..25
  BY <1>1, <1>6, MonthAxis
<1> QED
  BY <1>2, <1>4, <1>5, <1>6

(* getDateAxis: the marks, and those of them in the window. *)
LEMMA AxisIsRight ==
    ASSUME NEW a, Start(a), NEW b, InYear(b), a < b, NEW g \in 12..25, NEW xs, xs = getDateAxis(a, b, g)
    PROVE  /\ Increasing(xs)
           /\ DOMAIN xs \subseteq Nat /\ \A k \in DOMAIN xs : xs[k] = AxisAt(a, g)[k]
           /\ InWindow(a, b, xs) = KeptIn(a, b, AxisAt(a, g), AxisKept(a, g))
<1>1. a \in Int /\ b \in Int
  BY DEF Start, InYear
<1>2. PICK at, kept, d : at = AxisAt(a, g) /\ kept = AxisKept(a, g) /\ d = AxisStep(g)
  OBVIOUS
<1>3. at \in [Nat -> Int] /\ d \in Nat \ {0} /\ Onward(b, at, d)
  BY <1>2, AxesAreRight DEF AxisRight
<1>4. xs = AxisOf(a, b, at, kept, d)
  BY <1>1, <1>2, <1>3, AxisIs
<1>5. /\ Increasing(xs)
      /\ DOMAIN xs \subseteq Nat /\ \A k \in DOMAIN xs : xs[k] = at[k]
      /\ InWindow(a, b, xs) = KeptIn(a, b, at, kept)
  BY <1>1, <1>3, <1>4, AxisMarks
<1> QED
  BY <1>2, <1>5

(* The marks in the window are just the nice times. *)
LEMMA NiceOnesAreMarked ==
    ASSUME NEW a, Start(a), NEW b, InYear(b), a < b, NEW g \in 12..25, g # 21, NEW xs, xs = getDateAxis(a, b, g)
    PROVE  {xs[k] : k \in InWindow(a, b, xs)} = NiceTimes(a, b, g)
<1>1. a \in Int /\ b \in Int /\ Ruled(a)
  BY DEF Start, InYear
<1>2. PICK at, kept : at = AxisAt(a, g) /\ kept = AxisKept(a, g)
  OBVIOUS
<1>3. /\ DOMAIN xs \subseteq Nat /\ \A k \in DOMAIN xs : xs[k] = at[k]
      /\ InWindow(a, b, xs) = KeptIn(a, b, at, kept)
  BY <1>2, AxisIsRight
<1>4. at \in [Nat -> Int]
  BY <1>2, AxesAreRight DEF AxisRight
<1>5. \A t \in Int : a <= t /\ t < b => (Marked(t, g) <=> \E k \in Nat : kept[k] /\ at[k] = t)
  BY <1>2, AxesAreRight DEF NoneMissed
<1>6. NiceTimes(a, b, g) = {t \in Int : a <= t /\ t < b /\ Marked(t, g)}
  BY <1>1, NiceTimesAre
<1>7. ASSUME NEW k \in InWindow(a, b, xs) PROVE xs[k] \in NiceTimes(a, b, g)
  <2>1. k \in Nat /\ kept[k] /\ a <= at[k] /\ at[k] < b /\ xs[k] = at[k] /\ at[k] \in Int
    BY <1>3, <1>4, <1>7 DEF KeptIn, InWindow
  <2> QED
    BY <1>5, <1>6, <2>1
<1>8. ASSUME NEW t \in NiceTimes(a, b, g) PROVE \E k \in InWindow(a, b, xs) : xs[k] = t
  <2>1. t \in Int /\ a <= t /\ t < b /\ Marked(t, g)
    BY <1>6, <1>8
  <2>2. PICK k \in Nat : kept[k] /\ at[k] = t
    BY <1>5, <2>1
  <2>3. k \in InWindow(a, b, xs)
    BY <1>3, <2>1, <2>2 DEF KeptIn
  <2> QED
    BY <1>3, <2>2, <2>3 DEF InWindow
<1> QED
  BY <1>7, <1>8

(* Every other day: at midnights, two days apart, from no more than two days after the beginning on. *)
EveryOtherDay(a, b, xs) ==
    LET shown == InWindow(a, b, xs) IN
    /\ \A k \in shown : Local(xs[k]) % Day = 0
    /\ \A k \in shown : k = Max(shown) \/ Local(xs[k + 1]) - Local(xs[k]) = 2 * Day
    /\ shown # {} => Local(xs[Min(shown)]) - Local(a) <= 2 * Day

(* TWO_DAILY: counted from the days of a month, the marks are at every other midnight. *)
LEMMA DaysAreMarked ==
    ASSUME NEW a, Start(a), NEW b, InYear(b), a < b, NEW g, g = 21, NEW xs, xs = getDateAxis(a, b, g)
    PROVE  EveryOtherDay(a, b, xs)
<1>1. a \in Int /\ b \in Int /\ Ruled(a) /\ g \in 12..25 /\ g \in 20..22
  BY DEF Start, InYear
<1>2. PICK at, kept : at = AxisAt(a, g) /\ kept = AxisKept(a, g)
  OBVIOUS
<1>3. PICK c, n : c \in Lengths /\ OnDates(a, g, n, c) /\ n % 1440 = 0 /\ c = 2880
  BY <1>1, DayAxis
<1>4. InCalendar(n) /\ at = DatesFrom(n, c) /\ n \in Int /\ n <= Local(a) /\ Local(a) < n + 2880 /\ Local(a) \in Int
  BY <1>2, <1>3, Started DEF OnDates, InCalendar
<1>5. /\ DOMAIN xs \subseteq Nat /\ \A k \in DOMAIN xs : xs[k] = at[k]
      /\ InWindow(a, b, xs) = KeptIn(a, b, at, kept)
  BY <1>1, <1>2, AxisIsRight
<1>6. at \in [Nat -> Int] /\ \A j, k \in Nat : j < k /\ at[k] <= b => at[j] < at[k]
  BY <1>1, <1>2, AxesAreRight DEF AxisRight, Onward
<1>7. \A k \in Nat : kept[k]
  <2>1. g >= DAILY
    BY DEF DAILY
  <2> QED
    BY <1>2, <2>1, Zenon DEF AxisKept
<1>8. PICK shown : shown = InWindow(a, b, xs)
  OBVIOUS
<1>9. \A k : k \in shown <=> k \in Nat /\ a <= at[k] /\ at[k] < b
  BY <1>5, <1>7, <1>8 DEF KeptIn
<1>10. \A k \in shown : xs[k] = at[k]
  BY <1>5, <1>8 DEF InWindow
<1>11. ASSUME NEW k \in Nat PROVE Local(at[k]) = n + 2880 * k /\ (n + 2880 * k) % 1440 = 0
  <2>1. PICK q : q = n + c * k
    OBVIOUS
  <2>2. q \in Int /\ Dated(q)
    BY <1>3, <1>4, <2>1, LatticeTimes
  <2>3. q % 1440 = 0
    BY <1>3, <1>4, <2>1, DaysMore
  <2>4. Local(makeDate(q)) = q
    BY <2>2, <2>3, Midnights DEF Day
  <2>5. at[k] = makeDate(q)
    BY <1>4, <2>1 DEF DatesFrom
  <2> QED
    BY <1>3, <2>1, <2>3, <2>4, <2>5
<1>12. ASSUME NEW k \in shown PROVE Local(xs[k]) % Day = 0
  BY <1>9, <1>10, <1>11 DEF Day
<1>13. ASSUME NEW k \in shown, k # Max(shown) PROVE Local(xs[k + 1]) - Local(xs[k]) = 2 * Day
  <2>1. \E j \in shown : k < j
    <3>1. ASSUME \A j \in shown : j \in Int /\ k \in Int /\ j <= k PROVE k = Max(shown)
      BY <3>1 DEF Max
    <3>2. \A j \in shown : j \in Int
      BY <1>9
    <3> QED
      BY <1>13, <3>1, <3>2
  <2>2. PICK j \in shown : k < j
    BY <2>1
  <2>3. k \in Nat /\ j \in Nat /\ k + 1 \in Nat /\ at[j] < b /\ a <= at[k] /\ at[j] \in Int /\ at[k] \in Int
        /\ at[k + 1] \in Int /\ at[k] < b
    BY <1>6, <1>9, <2>2
  <2>4. at[k + 1] <= at[j]
    <3>1. CASE k + 1 = j
      BY <2>3, <3>1
    <3>2. CASE k + 1 < j
      BY <1>1, <1>6, <2>3, <3>2
    <3> QED
      BY <2>2, <2>3, <3>1, <3>2
  <2>5. at[k] < at[k + 1]
    BY <1>1, <1>6, <2>3, <2>4
  <2>6. k + 1 \in shown
    BY <1>1, <1>9, <2>3, <2>4, <2>5
  <2>7. Local(xs[k]) = n + 2880 * k /\ Local(xs[k + 1]) = n + 2880 * (k + 1)
    BY <1>10, <1>11, <2>3, <2>6
  <2>8. PICK x \in Int, y \in Int : x = n + 2880 * k /\ y = n + 2880 * (k + 1) /\ y - x = 2880
    BY <1>4, <2>3
  <2>9. Local(xs[k]) = x /\ Local(xs[k + 1]) = y
    BY <2>7, <2>8
  <2> QED
    BY <2>8, <2>9 DEF Day
<1>14. ASSUME shown # {} PROVE Local(xs[Min(shown)]) - Local(a) <= 2 * Day
  <2>1. PICK x \in shown : TRUE
    BY <1>14
  <2>2. PICK T : T = {k \in 0..x : k \in shown}
    OBVIOUS
  <2>3. IsFiniteSet(T) /\ T \in SUBSET Int /\ x \in T
    <3>1. PICK o \in Int, p \in Int : o = 0 /\ p = x /\ 0 <= p
      BY <1>9
    <3>2. IsFiniteSet(o..p)
      BY FS_Interval
    <3>3. T \in SUBSET (o..p) /\ x \in T
      BY <2>2, <3>1
    <3>4. IsFiniteSet(T)
      BY <3>2, <3>3, FS_Subset
    <3>5. T \in SUBSET Int
      BY <2>2
    <3> QED
      BY <3>3, <3>4, <3>5
  <2>4. PICK m \in T : \A k \in T : m <= k
    BY <2>3, LeastOf
  <2>5. m \in shown /\ \A k \in shown : m \in Int /\ k \in Int /\ m <= k
    <3>1. m \in shown /\ m \in 0..x /\ x \in Nat
      BY <1>9, <2>2, <2>4
    <3>2. ASSUME NEW k \in shown PROVE m <= k
      <4>1. k \in Nat
        BY <1>9
      <4>2. CASE k <= x
        BY <2>2, <2>4, <3>1, <4>1, <4>2
      <4>3. CASE x < k
        BY <3>1, <4>1, <4>3
      <4> QED
        BY <3>1, <4>1, <4>2, <4>3
    <3> QED
      BY <1>9, <3>1, <3>2
  <2>6. Min(shown) = m
    BY <2>5 DEF Min
  <2>7. m \in Nat /\ at[m] < b /\ Local(xs[m]) = n + 2880 * m
    BY <1>9, <1>10, <1>11, <2>5
  <2>8. m <= 1
    <3>1. ASSUME m > 1 PROVE FALSE
      <4>1. PICK k \in Nat : k = m - 1 /\ k >= 1
        BY <2>7, <3>1
      <4>2. at[k] \in Int /\ at[m] \in Int /\ at[k] < at[m]
        BY <1>1, <1>6, <2>7, <4>1
      <4>3. at[k] < a
        BY <1>1, <1>9, <2>5, <2>7, <4>1, <4>2
      <4>4. Local(at[k]) = n + 2880 * k /\ (n + 2880 * k) % 60 = 0
        <5>1. Local(at[k]) = n + 2880 * k /\ (n + 2880 * k) % 1440 = 0
          BY <1>11
        <5>2. PICK q \in Int : q = n + 2880 * k
          BY <1>4
        <5> QED
          BY <5>1, <5>2
      <4>5. Ruled(at[k])
        <5>1. PICK q : q = n + c * k
          OBVIOUS
        <5>2. q \in Int /\ Dated(q)
          BY <1>3, <1>4, <5>1, LatticeTimes
        <5> QED
          BY <1>4, <5>1, <5>2, DatesAre DEF DatesFrom
      <4>6. Local(at[k]) <= Local(a)
        BY <1>1, <4>2, <4>3, <4>4, <4>5, HoursStay
      <4> QED
        BY <1>4, <4>1, <4>4, <4>6
    <3> QED
      BY <2>7, <3>1
  <2> QED
    BY <1>4, <2>6, <2>7, <2>8 DEF Day
<1> QED
  BY <1>8, <1>12, <1>13, <1>14, Zenon DEF EveryOtherDay
---------------------------------------------------------------------------------
(* The marks of now. *)

(* Marks were made for some range of values and a base of its scale. *)
LEMMA MarksAreMade ==
    ASSUME NEW a, NEW o \in Options, NEW w, NEW m \in Marks(a, o, w)
    PROVE  /\ m.range \in Ranges
           /\ m.xticks = dateTicker(w[1], w[2], a.w, PerXLabel)
           /\ \E kmg2 \in BOOLEAN :
                 \E base \in BaseScales(m.range[1], m.range[2], a.h, PerYLabel, IF kmg2 THEN 16 ELSE 10) :
                    m.yticks = numericTicks(m.range[1], m.range[2], a.h, PerYLabel, kmg2, base)
<1>1. PICK r \in Ranges : \E base \in BaseScales(r[1], r[2], a.h, PerYLabel, IF o.kmg2 THEN 16 ELSE 10) :
         m = [range |-> r, xticks |-> dateTicker(w[1], w[2], a.w, PerXLabel),
              yticks |-> numericTicks(r[1], r[2], a.h, PerYLabel, o.kmg2, base)]
  BY DEF Marks
<1>2. PICK base \in BaseScales(r[1], r[2], a.h, PerYLabel, IF o.kmg2 THEN 16 ELSE 10) :
         m = [range |-> r, xticks |-> dateTicker(w[1], w[2], a.w, PerXLabel),
              yticks |-> numericTicks(r[1], r[2], a.h, PerYLabel, o.kmg2, base)]
  BY <1>1
<1>3. m.range = r /\ m.xticks = dateTicker(w[1], w[2], a.w, PerXLabel)
      /\ m.yticks = numericTicks(r[1], r[2], a.h, PerYLabel, o.kmg2, base)
  BY <1>2
<1>4. o.kmg2 \in BOOLEAN
  BY ConstantTypes DEF OptionType
<1> QED
  BY <1>3, <1>4

(* The marks are those of the plot area and the window there are, for some range and the way values were *)
(* labelled when they were made: a zoom makes marks anew in the old frame, and what makes the frame anew *)
(* makes the marks, too.                                                                                 *)
MarksInv ==
    /\ size \in Sizes /\ opts \in Options /\ window \in Windows
    /\ IsBox(frame.area)
    /\ \E o \in Options : marks \in Marks(frame.area, o, window)

(* The plot area that predraw_ finds is a box. *)
LEMMA FramesAreBoxes ==
    ASSUME NEW s \in Sizes, NEW o \in Options
    PROVE  IsBox(computePlotArea(s, o).area)
  BY ConstantTypes, PlotAreaIs, PlotAreaEdges

(* The first marks are of now. *)
LEMMA MarksInit == Init => MarksInv
  BY FramesAreBoxes DEF Init, MarksInv

(* predraw_ makes the frame and the marks anew. *)
LEMMA PredrawMarks ==
    ASSUME size' \in Sizes, opts' \in Options, window' \in Windows, predraw(size', opts', window')
    PROVE  MarksInv'
<1>1. frame' = computePlotArea(size', opts') /\ drawGraph(size', opts', frame', window')
  BY DEF predraw
<1>2. marks' \in Marks(frame'.area, opts', window')
  BY <1>1 DEF drawGraph
<1>3. IsBox(frame'.area)
  BY <1>1, FramesAreBoxes
<1> QED
  BY <1>2, <1>3 DEF MarksInv, IsBox

(* Every operation keeps this. *)
LEMMA MarksStep == MarksInv /\ [Next]_frameVars => MarksInv'
<1> SUFFICES ASSUME MarksInv, [Next]_frameVars PROVE MarksInv'
  OBVIOUS
<1>1. /\ size \in Sizes /\ opts \in Options /\ window \in Windows
      /\ IsBox(frame.area)
  BY DEF MarksInv
<1>2. PICK p \in Options : marks \in Marks(frame.area, p, window)
  BY DEF MarksInv
<1>3. ASSUME NEW o \in Options, NEW block \in BOOLEAN, updateOptions(o, block) PROVE MarksInv'
  <2>1. opts' = o /\ size' = size /\ window' = window
    BY <1>3 DEF updateOptions
  <2>2. predraw(size, o, window) \/ UNCHANGED <<frame, marks>>
    BY <1>3 DEF updateOptions
  <2>3. CASE predraw(size, o, window)
    BY <1>1, <2>1, <2>3, PredrawMarks
  <2>4. CASE UNCHANGED <<frame, marks>>
    BY <1>1, <1>2, <2>1, <2>4 DEF MarksInv, IsBox
  <2> QED
    BY <2>2, <2>3, <2>4
<1>4. ASSUME NEW w \in Windows, updateWindow(w) PROVE MarksInv'
  <2>1. window' = w /\ size' = size /\ opts' = opts /\ predraw(size, opts, w)
    BY <1>4 DEF updateWindow
  <2> QED
    BY <1>1, <2>1, PredrawMarks
<1>5. ASSUME NEW w \in Windows, zoom(w) PROVE MarksInv'
  <2>1. /\ window' = w /\ UNCHANGED <<size, opts, frame>>
        /\ drawGraph(size, opts, frame, w)
    BY <1>5 DEF zoom
  <2>2. marks' \in Marks(frame.area, opts, w)
    BY <2>1 DEF drawGraph
  <2> QED
    BY <1>1, <2>1, <2>2 DEF MarksInv, IsBox
<1>6. ASSUME NEW s \in Sizes, resize(s) PROVE MarksInv'
  <2>1. size' = s /\ opts' = opts /\ window' = window
    BY <1>6 DEF resize
  <2>2. predraw(s, opts, window) \/ UNCHANGED <<frame, marks>>
    BY <1>6 DEF resize
  <2>3. CASE predraw(s, opts, window)
    BY <1>1, <2>1, <2>3, PredrawMarks
  <2>4. CASE UNCHANGED <<frame, marks>>
    BY <1>1, <1>2, <2>1, <2>4 DEF MarksInv, IsBox
  <2> QED
    BY <2>2, <2>3, <2>4
<1>7. ASSUME resizeLater PROVE MarksInv'
  <2>1. size' = size /\ opts' = opts /\ window' = window /\ predraw(size, opts, window)
    BY <1>7 DEF resizeLater
  <2> QED
    BY <1>1, <2>1, PredrawMarks
<1>8. CASE UNCHANGED frameVars
  BY <1>1, <1>2, <1>8 DEF MarksInv, IsBox, frameVars
<1> QED
  BY <1>3, <1>4, <1>5, <1>6, <1>7, <1>8 DEF Next

(* numericTicks: the marks there are reach over the range, far enough apart, and no rounded logarithm makes others. *)
LEMMA MarksAreApart == MarksInv => ValuesAreApart
<1> SUFFICES ASSUME MarksInv PROVE ValuesAreApart
  OBVIOUS
<1>1. PICK o \in Options : marks \in Marks(frame.area, o, window)
  BY DEF MarksInv
<1>2. PICK h, ys, low, high : h = frame.area.h /\ ys = marks.yticks /\ low = marks.range[1] /\ high = marks.range[2]
  OBVIOUS
<1>3. marks.range \in Ranges
  BY <1>1, MarksAreMade
<1>4. low \in Int /\ high \in Int /\ low < high /\ high - low <= MaxSpan /\ h \in Int
  BY <1>2, <1>3, FrameAssumption DEF MarksInv, IsBox
<1>5. PICK kmg2 \in BOOLEAN : \E base \in BaseScales(low, high, h, PerYLabel, IF kmg2 THEN 16 ELSE 10) :
         ys = numericTicks(low, high, h, PerYLabel, kmg2, base)
  BY <1>1, <1>2, MarksAreMade
<1>6. PICK k : k = (IF kmg2 THEN 16 ELSE 10)
  OBVIOUS
<1>7. PICK base \in BaseScales(low, high, h, PerYLabel, k) : ys = numericTicks(low, high, h, PerYLabel, kmg2, base)
  BY <1>5, <1>6
<1>8. base \in Nat \ {0}
  BY <1>4, <1>6, <1>7, BasesArePositive
<1>9. ASSUME h > 0 PROVE ys[1] <= low /\ high <= ys[Len(ys)]
  <2>1. PICK j \in DOMAIN Mults(kmg2) :
           numericTicks(low, high, h, PerYLabel, kmg2, base) = MarksOf(low, high, base * Mults(kmg2)[j])
    BY <1>4, <1>8, <1>9, TicksAreMarks
  <2>2. PICK s \in Nat \ {0} : s = base * Mults(kmg2)[j]
    BY <1>8, ScalesArePositive
  <2>3. ys = MarksOf(low, high, s)
    BY <1>7, <2>1, <2>2
  <2> QED
    BY <1>4, <2>3, MarksReach
<1>10. ASSUME h > 2 * PerYLabel
       PROVE  \A i \in 1..Len(ys) - 1 : (ys[i + 1] - ys[i]) * h > PerYLabel * (high - low)
  <2>1. PICK s \in Nat \ {0} : /\ s * h > PerYLabel * (high - low)
                               /\ numericTicks(low, high, h, PerYLabel, kmg2, base) = MarksOf(low, high, s)
    BY <1>4, <1>6, <1>7, <1>10, TicksApart
  <2>2. ys = MarksOf(low, high, s)
    BY <1>7, <2>1
  <2>3. Spaced(ys, s)
    BY <1>4, <2>2, MarksReach
  <2> QED
    BY <2>1, <2>3 DEF Spaced
<1>11. ASSUME h > 2 * PerYLabel, NEW kind \in BOOLEAN
       PROVE  Cardinality({numericTicks(low, high, h, PerYLabel, kind, b)
                           : b \in BaseScales(low, high, h, PerYLabel, IF kind THEN 16 ELSE 10)}) = 1
  <2>1. PICK k2 : k2 = (IF kind THEN 16 ELSE 10)
    OBVIOUS
  <2>2. PICK s \in Nat \ {0} :
           /\ BaseScales(low, high, h, PerYLabel, k2) # {}
           /\ \A b \in BaseScales(low, high, h, PerYLabel, k2) :
                 numericTicks(low, high, h, PerYLabel, kind, b) = MarksOf(low, high, s)
    BY <1>4, <1>11, <2>1, TicksApart
  <2>3. {numericTicks(low, high, h, PerYLabel, kind, b) : b \in BaseScales(low, high, h, PerYLabel, k2)}
          = {MarksOf(low, high, s)}
    BY <2>2
  <2> QED
    BY <2>1, <2>3, FS_Singleton
<1> DEFINE P(q, zs, lo, hi) ==
       /\ q > 0 => zs[1] <= lo /\ hi <= zs[Len(zs)]
       /\ q > 2 * PerYLabel =>
             /\ \A i \in 1..Len(zs) - 1 : (zs[i + 1] - zs[i]) * q > PerYLabel * (hi - lo)
             /\ \A kind \in BOOLEAN :
                   Cardinality({numericTicks(lo, hi, q, PerYLabel, kind, b)
                                : b \in BaseScales(lo, hi, q, PerYLabel, IF kind THEN 16 ELSE 10)}) = 1
<1>12. P(h, ys, low, high)
  BY <1>9, <1>10, <1>11
<1>13. ValuesAreApart = P(frame.area.h, marks.yticks, marks.range[1], marks.range[2])
  BY Zenon DEF ValuesAreApart
<1> HIDE DEF P
<1> QED
  BY <1>2, <1>12, <1>13

(* The times marked there are those of the window there is. *)
LEMMA MarksAreNice == MarksInv => TimesAreNice
<1> SUFFICES ASSUME MarksInv PROVE TimesAreNice
  OBVIOUS
<1>1. PICK a, b, g, xs : /\ a = window[1] /\ b = window[2] /\ xs = marks.xticks
                         /\ g = pickDateTickGranularity(window[1], window[2], frame.area.w, PerXLabel)
  OBVIOUS
<1>2. xs = dateTicker(window[1], window[2], frame.area.w, PerXLabel)
  BY <1>1, MarksAreMade DEF MarksInv
<1>3. a \in Int /\ b \in Int /\ a < b /\ Start(a) /\ InYear(b)
  BY <1>1, FrameAssumption DEF MarksInv, Start, InYear, Ruled
<1>4. g = -1 \/ g \in 12..25
  BY <1>1, GranularityIs
<1> DEFINE P(q, r, h, zs) ==
       LET shown == {k \in DOMAIN zs : q <= zs[k] /\ zs[k] < r}
       IN  /\ Increasing(zs)
           /\ h >= 0 => IF h = 21
                        THEN /\ \A k \in shown : Local(zs[k]) % Day = 0
                             /\ \A k \in shown : k = Max(shown) \/ Local(zs[k + 1]) - Local(zs[k]) = 2 * Day
                             /\ shown # {} => Local(zs[Min(shown)]) - Local(q) <= 2 * Day
                        ELSE {zs[k] : k \in shown} = NiceTimes(q, r, h)
<1>5. TimesAreNice = P(window[1], window[2],
                       pickDateTickGranularity(window[1], window[2], frame.area.w, PerXLabel), marks.xticks)
  BY Zenon DEF TimesAreNice
<1>6. P(a, b, g, xs) <=> /\ Increasing(xs)
                         /\ g >= 0 => IF g = 21 THEN EveryOtherDay(a, b, xs)
                                      ELSE {xs[k] : k \in InWindow(a, b, xs)} = NiceTimes(a, b, g)
  BY Zenon DEF EveryOtherDay, InWindow
<1> HIDE DEF P
<1>7. CASE g \in 12..25
  <2>1. xs = getDateAxis(a, b, g)
    BY <1>1, <1>2, <1>7 DEF dateTicker
  <2>2. Increasing(xs)
    BY <1>3, <1>7, <2>1, AxisIsRight
  <2>3. g = 21 => EveryOtherDay(a, b, xs)
    BY <1>3, <2>1, DaysAreMarked
  <2>4. g # 21 => {xs[k] : k \in InWindow(a, b, xs)} = NiceTimes(a, b, g)
    BY <1>3, <1>7, <2>1, NiceOnesAreMarked
  <2> QED
    BY <1>1, <1>5, <1>6, <2>2, <2>3, <2>4
<1>8. CASE g = -1
  <2>1. ~ g >= 0
    BY <1>8
  <2>2. xs = << >>
    BY <1>1, <1>2, <2>1 DEF dateTicker
  <2>3. Increasing(xs)
    BY <2>2 DEF Increasing
  <2> QED
    BY <1>1, <1>5, <1>6, <2>1, <2>3
<1> QED
  BY <1>4, <1>7, <1>8

(* The marks there are were made for the plot area and the window there are, whatever was held back since. *)
THEOREM MarksAreOfNow == Spec => []MarksInv
  BY MarksInit, MarksStep, PTL DEF Spec

(* dateTicker, numericTicks: the times marked are just the nice ones of their granularity, also where the clock skips *)
(* or repeats an hour, and the values marked reach over the range and are far enough apart, for every clock, window,  *)
(* range and page.                                                                                                    *)
THEOREM TicksAreAlwaysRight == Spec => []TicksAreRight
<1>1. MarksInv => TicksAreRight
  BY MarksAreNice, MarksAreApart DEF TicksAreRight
<1> QED
  BY <1>1, MarksAreOfNow, PTL
=================================================================================

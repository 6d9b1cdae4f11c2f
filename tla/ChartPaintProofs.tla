-------------------------- MODULE ChartPaintProofs --------------------------
(***************************************************************************)
(* For every chart and all its data, the lines that are drawn of a series  *)
(* are the lines between its neighbours, a value without one is a dot, and *)
(* a filled area looks the same when most of its calls are dropped.        *)
(***************************************************************************)
EXTENDS ChartPaint, FiniteSetTheorems, SequenceTheorems, WellFoundedInduction, TLAPS

-----------------------------------------------------------------------------
(* Numbers. *)

(* Every set of numbers has a least one: it is the one whose interval from *)
(* zero is the smallest, and the finite sets are well ordered.             *)
LEMMA LeastNumber ==
    ASSUME NEW T \in SUBSET Nat, T # {}
    PROVE  \E m \in T : \A k \in T : m <= k
<1> DEFINE Up == {0 .. t : t \in T}
           R == StrictSubsetOrdering(Nat)
<1>1. Up \subseteq FiniteSubsetsOf(Nat) /\ Up # {}
  <2>1. \A t \in T : (0 .. t) \in SUBSET Nat /\ IsFiniteSet(0 .. t)
    BY FS_Interval
  <2> QED
    BY <2>1 DEF FiniteSubsetsOf
<1>2. IsWellFoundedOn(R, FiniteSubsetsOf(Nat))
  BY FS_StrictSubsetOrderingWellFounded
<1>3. PICK u \in Up : \A v \in Up : ~ (<<v, u>> \in R)
  <2> HIDE DEF Up, R
  <2> QED
    BY <1>1, <1>2, WFMin
<1>4. PICK m \in T : u = 0 .. m
  OBVIOUS
<1>5. ASSUME NEW k \in T, k < m PROVE FALSE
  <2>1. (0 .. k) \in SUBSET Nat /\ (0 .. m) \in SUBSET Nat /\ (0 .. k) \subseteq (0 .. m) /\ (0 .. k) # (0 .. m)
    BY <1>5
  <2>2. <<0 .. k, 0 .. m>> \in R
    BY <2>1 DEF StrictSubsetOrdering
  <2> QED
    BY <1>3, <1>4, <2>2
<1> QED
  BY <1>5

(* The least member of a set of numbers that has one. *)
LEMMA MinIs ==
    ASSUME NEW T \in SUBSET Nat, T # {}
    PROVE  Min(T) \in T /\ \A k \in T : Min(T) <= k
BY LeastNumber DEF Min

(* The largest number of a bounded set is the one that is closest to the bound. *)
LEMMA MaxIs ==
    ASSUME NEW n \in Nat, NEW T \in SUBSET (0 .. n), T # {}
    PROVE  Max(T) \in T /\ \A k \in T : k <= Max(T)
<1> DEFINE Below == {n - k : k \in T}
<1>1. Below \in SUBSET Nat /\ Below # {}
  <2>1. \A k \in T : k \in 0 .. n
    OBVIOUS
  <2>2. \A k \in T : n - k \in Nat
    BY <2>1
  <2> QED
    BY <2>2
<1>2. PICK b \in Below : \A k \in Below : b <= k
  <2> HIDE DEF Below
  <2> QED
    BY <1>1, LeastNumber
<1>3. PICK m \in T : b = n - m
  OBVIOUS
<1>4. \A k \in T : n - m <= n - k
  BY <1>2, <1>3
<1>5. \A k \in T : k <= m
  <2> SUFFICES ASSUME NEW k \in T PROVE k <= m
    OBVIOUS
  <2>1. k \in 0 .. n /\ m \in 0 .. n /\ n - m <= n - k
    BY <1>4
  <2> QED
    BY <2>1
<1> QED
  BY <1>5 DEF Max

(* A finite set of numbers has a bound. *)
LEMMA Bounded ==
    ASSUME NEW S, S \subseteq Nat, IsFiniteSet(S)
    PROVE  \E n \in Nat : S \subseteq 0 .. n
<1> DEFINE Bad == {T \in SUBSET S : ~ \E n \in Nat : T \subseteq 0 .. n}
           R == StrictSubsetOrdering(S)
<1>1. SUFFICES ASSUME Bad # {} PROVE FALSE
  <2>1. S \notin Bad => \E n \in Nat : S \subseteq 0 .. n
    OBVIOUS
  <2> QED
    BY <2>1
<1>2. Bad \subseteq FiniteSubsetsOf(S)
  <2>1. \A T \in SUBSET S : IsFiniteSet(T)
    BY FS_Subset
  <2> QED
    BY <2>1 DEF FiniteSubsetsOf
<1>3. PICK T \in Bad : \A U \in Bad : ~ (<<U, T>> \in R)
  <2>1. IsWellFoundedOn(R, FiniteSubsetsOf(S))
    BY FS_StrictSubsetOrderingWellFounded
  <2> HIDE DEF Bad, R
  <2> QED
    BY <1>1, <1>2, <2>1, WFMin
<1>4. T \in SUBSET S /\ ~ \E n \in Nat : T \subseteq 0 .. n
  OBVIOUS
<1>5. PICK x \in T : x \in Nat
  <2>1. {} \subseteq 0 .. 0 /\ 0 \in Nat
    OBVIOUS
  <2> QED
    BY <1>4, <2>1
<1>6. PICK U : U = T \ {x}
  OBVIOUS
<1>7. U \in SUBSET S /\ <<U, T>> \in R
  BY <1>4, <1>5, <1>6 DEF StrictSubsetOrdering
<1>8. PICK n \in Nat : U \subseteq 0 .. n
  BY <1>3, <1>7
<1>9. PICK m \in Nat : n <= m /\ x <= m
  <2>1. CASE n <= x
    BY <1>5, <2>1
  <2>2. CASE x <= n
    BY <1>5, <2>2
  <2> QED
    BY <1>5, <2>1, <2>2
<1>10. T \subseteq 0 .. m
  <2>1. \A t \in T : t = x \/ t \in 0 .. n
    BY <1>6, <1>8
  <2> QED
    BY <1>5, <1>9, <2>1
<1> QED
  BY <1>4, <1>10

(* A quotient is rounded down. *)
LEMMA Quotient ==
    ASSUME NEW a \in Int, NEW b \in Nat \ {0}
    PROVE  /\ a \div b \in Int
           /\ (a \div b) * b <= a /\ a < (a \div b + 1) * b
           /\ a \in Nat => a \div b \in Nat
OBVIOUS

(* A function over 1 .. n has n entries. *)
LEMMA Counted ==
    ASSUME NEW n \in Nat, NEW f, f = [i \in 1 .. n |-> f[i]]
    PROVE  Len(f) = n /\ DOMAIN f = 1 .. n
<1> DEFINE S == {f[i] : i \in 1 .. n}
<1>1. f \in [1 .. n -> S] /\ DOMAIN f = 1 .. n
  OBVIOUS
<1>2. f \in Seq(S)
  <2> HIDE DEF S
  <2> QED
    BY <1>1, SeqDef
<1>3. Len(f) \in Nat /\ DOMAIN f = 1 .. Len(f)
  <2> HIDE DEF S
  <2> QED
    BY <1>2, LenProperties
<1>4. 1 .. n = 1 .. Len(f)
  BY <1>1, <1>3
<1> QED
  BY <1>1, <1>3, <1>4

(* What is computed from one number to the next is there for all of them. *)
IsRun(h, n, F, a) == h[0] = a /\ \A i \in 1 .. n : h[i] = F[<<i, h[i - 1]>>]

LEMMA RunsExist ==
    ASSUME NEW n \in Nat, NEW S, NEW F \in [(1 .. n) \X S -> S], NEW a \in S
    PROVE  \E h \in [0 .. n -> S] : IsRun(h, n, F, a)
<1> DEFINE Short == {m \in Nat : m <= n /\ ~ \E g \in [0 .. m -> S] : IsRun(g, m, F, a)}
<1>1. SUFFICES ASSUME Short # {} PROVE FALSE
  <2>1. n \notin Short => \E g \in [0 .. n -> S] : IsRun(g, n, F, a)
    OBVIOUS
  <2> QED
    BY <2>1
<1>2. PICK m \in Short : \A k \in Short : m <= k
  <2>1. Short \in SUBSET Nat
    OBVIOUS
  <2> HIDE DEF Short
  <2> QED
    BY <1>1, <2>1, LeastNumber
<1>3. m \in Nat /\ m <= n /\ ~ \E g \in [0 .. m -> S] : IsRun(g, m, F, a)
  OBVIOUS
<1>4. m # 0
  <2> SUFFICES ASSUME m = 0 PROVE FALSE
    OBVIOUS
  <2>1. PICK g \in [0 .. 0 -> S] : g = [i \in 0 .. 0 |-> a]
    OBVIOUS
  <2>2. IsRun(g, 0, F, a)
    BY <2>1 DEF IsRun
  <2> QED
    BY <1>3, <2>2
<1>5. PICK l \in Nat : m = l + 1
  <2>1. m - 1 \in Nat /\ m = (m - 1) + 1
    BY <1>3, <1>4
  <2> QED
    BY <2>1
<1>6. l \notin Short
  <2>1. ~ (m <= l)
    BY <1>5
  <2> HIDE DEF Short
  <2> QED
    BY <1>2, <2>1
<1>7. PICK g \in [0 .. l -> S] : IsRun(g, l, F, a)
  <2>1. l <= n
    BY <1>3, <1>5
  <2> QED
    BY <1>6, <2>1
<1> HIDE DEF Short
<1>8. PICK z \in S : z = F[<<m, g[l]>>]
  <2>1. m \in 1 .. n /\ g[l] \in S
    BY <1>3, <1>5
  <2>2. <<m, g[l]>> \in (1 .. n) \X S
    BY <2>1
  <2> QED
    BY <2>2
<1>9. PICK h \in [0 .. m -> S] : h = [i \in 0 .. m |-> IF i = m THEN z ELSE g[i]]
  <2>1. \A i \in 0 .. m : i # m => i \in 0 .. l
    BY <1>5
  <2>2. \A i \in 0 .. m : (IF i = m THEN z ELSE g[i]) \in S
    BY <2>1
  <2> QED
    BY <2>2
<1>10. h[m] = z /\ \A i \in 0 .. l : h[i] = g[i]
  BY <1>5, <1>9
<1>11. IsRun(h, m, F, a)
  <2>1. h[0] = a
    BY <1>7, <1>10 DEF IsRun
  <2>2. ASSUME NEW i \in 1 .. m PROVE h[i] = F[<<i, h[i - 1]>>]
    <3>1. CASE i = m
      <4>1. i - 1 = l /\ l \in 0 .. l
        BY <1>5, <3>1
      <4> QED
        BY <1>8, <1>10, <3>1, <4>1
    <3>2. CASE i # m
      <4>1. i \in 1 .. l /\ i \in 0 .. l /\ i - 1 \in 0 .. l
        BY <1>5, <3>2
      <4> QED
        BY <1>7, <1>10, <4>1 DEF IsRun
    <3> QED
      BY <3>1, <3>2
  <2> QED
    BY <2>1, <2>2 DEF IsRun
<1> QED
  BY <1>3, <1>11

(* A table is the part of it from its first row to its last. *)
LEMMA Whole ==
    ASSUME NEW n \in Nat, NEW f, f = [i \in 1 .. n |-> f[i]]
    PROVE  SubSeq(f, 1, n) = f
<1> DEFINE S == {f[i] : i \in 1 .. n}
<1>1. f \in [1 .. n -> S] /\ DOMAIN f = 1 .. n
  OBVIOUS
<1>2. \A i \in 1 .. n : f[i] \in S
  OBVIOUS
<1> HIDE DEF S
<1>3. f \in Seq(S)
  BY <1>1, SeqDef
<1>4. /\ SubSeq(f, 1, n) \in Seq(S) /\ Len(SubSeq(f, 1, n)) = IF 1 <= n THEN n - 1 + 1 ELSE 0
      /\ \A i \in 1 .. n - 1 + 1 : SubSeq(f, 1, n)[i] = f[1 + i - 1]
  BY <1>2, SubSeqProperties
<1>5. Len(SubSeq(f, 1, n)) = n /\ \A i \in 1 .. n : SubSeq(f, 1, n)[i] = f[i]
  BY <1>4
<1>6. Len(f) = n
  BY Counted
<1> QED
  BY <1>3, <1>4, <1>5, <1>6, SeqEqual

-----------------------------------------------------------------------------
(* stackPoints_: a known value of a stacked chart has a height.            *)

(* The points of a series: their times in order, numbers where there is a value. *)
IsLayer(p) ==
    /\ Len(p) \in Nat /\ DOMAIN p = 1 .. Len(p)
    /\ \A i \in 1 .. Len(p) : p[i].xval \in Int /\ (Missing(p[i].yval) \/ p[i].yval \in Int)
    /\ \A i, j \in 1 .. Len(p) : i <= j => p[i].xval <= p[j].xval

Xs(p) == {p[i].xval : i \in DOMAIN p}
FirstOf(p, x) == Min({i \in DOMAIN p : p[i].xval = x})
HeightAt(p, x, fill) == StackHeight(p, FirstOf(p, x), fill)

(* The first point of an x. *)
LEMMA FirstIs ==
    ASSUME NEW p, IsLayer(p), NEW x \in Xs(p)
    PROVE  /\ FirstOf(p, x) \in 1 .. Len(p) /\ p[FirstOf(p, x)].xval = x
           /\ \A j \in 1 .. Len(p) : j < FirstOf(p, x) => p[j].xval < x
<1> DEFINE S == {i \in DOMAIN p : p[i].xval = x}
<1>1. PICK n \in Nat : n = Len(p) /\ DOMAIN p = 1 .. n
  BY DEF IsLayer
<1>2. S \in SUBSET Nat /\ S # {}
  BY <1>1 DEF Xs
<1>3. Min(S) \in S /\ \A k \in S : Min(S) <= k
  <2> HIDE DEF S
  <2> QED
    BY <1>2, MinIs
<1>4. PICK f \in 1 .. n : f = FirstOf(p, x) /\ p[f].xval = x /\ \A j \in 1 .. n : p[j].xval = x => f <= j
  BY <1>1, <1>3 DEF FirstOf
<1>5. ASSUME NEW j \in 1 .. n, j < f PROVE p[j].xval < x
  <2>1. p[j].xval <= p[f].xval
    BY <1>1, <1>5 DEF IsLayer
  <2>2. p[j].xval # x
    BY <1>1, <1>4, <1>5
  <2>3. p[j].xval \in Int /\ x \in Int
    BY <1>1, <1>4 DEF IsLayer
  <2> QED
    BY <1>4, <2>1, <2>2, <2>3
<1> QED
  BY <1>1, <1>4, <1>5

(* The height of a layer is a number; the one that is put in for a missing value, too, for the known value before it *)
(* lies at an earlier x.                                                                                             *)
LEMMA HeightIs ==
    ASSUME NEW p, IsLayer(p), NEW x \in Xs(p), NEW fill
    PROVE  HeightAt(p, x, fill) \in Int
<1> DEFINE i == FirstOf(p, x)
           prev == {j \in 1..i - 1 : ~ Missing(p[j].yval)}
           next == {j \in i + 1..Len(p) : ~ Missing(p[j].yval)}
           a == p[Max(prev)]
           b == p[Min(next)]
           q == ((b.yval - a.yval) * (p[i].xval - a.xval)) \div (b.xval - a.xval)
           h == StackHeight(p, i, fill)
<1>0. h = IF ~ Missing(p[i].yval) THEN p[i].yval
          ELSE CASE fill # "none" /\ prev # {} /\ next # {} -> a.yval + q
                 [] fill = "all" /\ prev # {} /\ next = {}   -> a.yval
                 [] fill = "all" /\ prev = {} /\ next # {}   -> b.yval
                 [] OTHER                                   -> 0
  BY DEF StackHeight
<1> HIDE DEF i, h
<1>1. PICK n \in Nat : n = Len(p) /\ DOMAIN p = 1 .. n
  BY DEF IsLayer
<1>2. i \in 1 .. n /\ p[i].xval = x /\ \A j \in 1 .. n : j < i => p[j].xval < x
  BY <1>1, FirstIs DEF i
<1>3. \A j \in 1 .. n : /\ p[j].xval \in Int /\ (Missing(p[j].yval) \/ p[j].yval \in Int)
                        /\ \A k \in 1 .. n : j <= k => p[j].xval <= p[k].xval
  BY <1>1 DEF IsLayer
<1>4. /\ \A j \in prev : j \in 1 .. n /\ j < i /\ ~ Missing(p[j].yval)
      /\ \A j \in next : j \in 1 .. n /\ i < j /\ ~ Missing(p[j].yval)
  BY <1>1, <1>2
<1>5. prev # {} => a.yval \in Int /\ a.xval \in Int /\ a.xval < x
  <2> SUFFICES ASSUME prev # {} PROVE a.yval \in Int /\ a.xval \in Int /\ a.xval < x
    OBVIOUS
  <2> HIDE DEF prev, next
  <2>1. prev \in SUBSET (0 .. n)
    BY <1>4
  <2>2. Max(prev) \in prev
    BY <2>1, MaxIs
  <2> QED
    BY <1>2, <1>3, <1>4, <2>2
<1>6. next # {} => b.yval \in Int /\ b.xval \in Int /\ x <= b.xval
  <2> SUFFICES ASSUME next # {} PROVE b.yval \in Int /\ b.xval \in Int /\ x <= b.xval
    OBVIOUS
  <2> HIDE DEF prev, next
  <2>1. next \in SUBSET Nat
    BY <1>4
  <2>2. Min(next) \in next
    BY <2>1, MinIs
  <2>3. Min(next) \in 1 .. n /\ i < Min(next) /\ ~ Missing(b.yval)
    BY <1>4, <2>2
  <2>4. p[i].xval <= b.xval
    BY <1>2, <1>3, <2>3
  <2> QED
    BY <1>2, <1>3, <2>3, <2>4
<1>7. prev # {} /\ next # {} => q \in Int
  <2> SUFFICES ASSUME prev # {}, next # {} PROVE q \in Int
    OBVIOUS
  <2> HIDE DEF prev, next, a, b
  <2>1. PICK d \in Nat \ {0} : d = b.xval - a.xval
    BY <1>2, <1>3, <1>5, <1>6
  <2>2. PICK u \in Int : u = (b.yval - a.yval) * (p[i].xval - a.xval)
    BY <1>2, <1>3, <1>5, <1>6
  <2>3. u \div d \in Int
    BY Quotient
  <2> QED
    BY <2>1, <2>2, <2>3
<1>8. h \in Int
  <2> HIDE DEF prev, next, a, b, q
  <2> QED
    BY <1>0, <1>2, <1>3, <1>5, <1>6, <1>7
<1> QED
  BY <1>8 DEF h, i, HeightAt

(* What a series is put on: a number at some of the x. *)
Tables == UNION {[D -> Int] : D \in SUBSET Int}

(* A series that is put on a table leaves one for the next, *)
LEMMA StackIsTable ==
    ASSUME NEW p, IsLayer(p), NEW b \in Tables, NEW fill
    PROVE  /\ stackPoints(p, b, fill).below \in Tables
           /\ \A i \in DOMAIN p : \E v \in Int : stackPoints(p, b, fill).points[i] = Heightened(p[i], v)
<1> DEFINE at(x) == IF x \in DOMAIN b THEN b[x] ELSE 0
           sum(x) == at(x) + HeightAt(p, x, fill)
           f == [x \in Xs(p) |-> sum(x)]
           st == stackPoints(p, b, fill)
<1>1. /\ st.points = [i \in DOMAIN p |-> Heightened(p[i], sum(p[i].xval))]
      /\ st.below = Over(f, b)
  BY DEF stackPoints, HeightAt, FirstOf, Xs
<1>2. PICK D \in SUBSET Int : b \in [D -> Int]
  BY DEF Tables
<1>3. \A x \in Xs(p) : sum(x) \in Int /\ x \in Int
  <2>1. ASSUME NEW x \in Xs(p) PROVE sum(x) \in Int /\ x \in Int
    <3>1. HeightAt(p, x, fill) \in Int
      BY HeightIs
    <3>2. at(x) \in Int
      <4>1. x \in DOMAIN b => b[x] \in Int
        BY <1>2
      <4>2. 0 \in Int
        OBVIOUS
      <4> QED
        BY <4>1, <4>2, Zenon
    <3>3. x \in Int
      <4>1. PICK i \in DOMAIN p : x = p[i].xval
        BY DEF Xs
      <4> QED
        BY <4>1 DEF IsLayer
    <3> QED
      BY <3>1, <3>2, <3>3
  <2> QED
    BY <2>1
<1>4. st.below \in Tables
  <2>1. f \in [Xs(p) -> Int] /\ Xs(p) \in SUBSET Int
    BY <1>3
  <2> HIDE DEF f
  <2>2. Over(f, b) \in [Xs(p) \cup D -> Int]
    BY <1>2, <2>1 DEF Over
  <2>3. Xs(p) \cup D \in SUBSET Int
    BY <2>1
  <2> QED
    BY <1>1, <2>2, <2>3 DEF Tables
<1>5. ASSUME NEW i \in DOMAIN p PROVE \E v \in Int : st.points[i] = Heightened(p[i], v)
  <2>1. p[i].xval \in Xs(p)
    BY DEF Xs
  <2>2. PICK v \in Int : v = sum(p[i].xval)
    BY <1>3, <2>1
  <2> HIDE DEF sum, st
  <2>3. st.points[i] = Heightened(p[i], v)
    BY <1>1, <2>2
  <2> QED
    BY <2>3
<1> QED
  BY <1>4, <1>5

(* and so there is one below every series. *)
LayerStep(h, pts, fill, last, c) ==
    IF c = last THEN <<>>
    ELSE IF c + 1 \in DOMAIN pts THEN stackPoints(pts[c + 1], h[c + 1], fill).below
    ELSE h[c + 1]
IsLayers(h, pts, fill, last) == h = [c \in 0 .. last |-> LayerStep(h, pts, fill, last, c)]
AreLayers(pts) == /\ IsFiniteSet(DOMAIN pts) /\ DOMAIN pts \subseteq Nat \ {0}
                  /\ \A c \in DOMAIN pts : IsLayer(pts[c])

LEMMA EmptyTable == <<>> \in Tables
<1>1. <<>> \in [{} -> Int] /\ {} \in SUBSET Int
  OBVIOUS
<1> QED
  BY <1>1 DEF Tables

LEMMA LargestIs ==
    ASSUME NEW T, IsFiniteSet(T), T \subseteq Nat \ {0}, NEW last, last = Max(T \cup {0})
    PROVE  last \in Nat /\ \A c \in T : c \in 1 .. last
<1> DEFINE S == T \cup {0}
<1>1. IsFiniteSet(S) /\ S \subseteq Nat /\ S # {}
  BY FS_AddElement
<1>2. PICK n \in Nat : S \subseteq 0 .. n
  <2> HIDE DEF S
  <2> QED
    BY <1>1, Bounded
<1>3. Max(S) \in S /\ \A k \in S : k <= Max(S)
  <2>1. S \in SUBSET (0 .. n)
    BY <1>2
  <2> HIDE DEF S
  <2> QED
    BY <1>1, <2>1, MaxIs
<1>4. PICK m \in Nat : m = Max(S) /\ m = last
  BY <1>1, <1>3
<1>5. ASSUME NEW c \in T PROVE c \in 1 .. last
  <2>1. c \in Nat /\ c # 0 /\ c \in S
    OBVIOUS
  <2>2. c <= m
    <3> HIDE DEF S
    <3> QED
      BY <1>3, <1>4, <2>1
  <2> QED
    BY <1>4, <2>1, <2>2
<1> QED
  BY <1>4, <1>5

LEMMA LastIs ==
    ASSUME NEW pts, AreLayers(pts), NEW last, last = Max(DOMAIN pts \cup {0})
    PROVE  last \in Nat /\ \A c \in DOMAIN pts : c \in 1 .. last
BY LargestIs DEF AreLayers

LEMMA LayersExist ==
    ASSUME NEW pts, AreLayers(pts), NEW last \in Nat, NEW fill
    PROVE  \E h : IsLayers(h, pts, fill, last)
<1> DEFINE next(c, b) == IF c + 1 \in DOMAIN pts THEN stackPoints(pts[c + 1], b, fill).below ELSE b
           F == [r \in (1 .. last) \X Tables |-> next(last - r[1], r[2])]
<1>1. F \in [(1 .. last) \X Tables -> Tables]
  <2>1. ASSUME NEW r \in (1 .. last) \X Tables PROVE next(last - r[1], r[2]) \in Tables
    <3>1. PICK b \in Tables, c \in Nat : b = r[2] /\ c = last - r[1]
      OBVIOUS
    <3>2. CASE c + 1 \in DOMAIN pts
      <4>1. PICK p : p = pts[c + 1]
        OBVIOUS
      <4>2. IsLayer(p)
        BY <3>2, <4>1 DEF AreLayers
      <4>3. stackPoints(p, b, fill).below \in Tables
        BY <4>2, StackIsTable
      <4> QED
        BY <3>1, <3>2, <4>1, <4>3
    <3>3. CASE c + 1 \notin DOMAIN pts
      BY <3>1, <3>3
    <3> QED
      BY <3>2, <3>3
  <2> HIDE DEF next
  <2> QED
    BY <2>1
<1>2. PICK g \in [0 .. last -> Tables] : IsRun(g, last, F, <<>>)
  <2> HIDE DEF F
  <2> QED
    BY <1>1, EmptyTable, RunsExist
<1>3. PICK h : h = [c \in 0 .. last |-> g[last - c]]
  OBVIOUS
<1>4. ASSUME NEW c \in 0 .. last PROVE h[c] = LayerStep(h, pts, fill, last, c)
  <2>1. CASE c = last
    <3>1. last - c = 0 /\ h[c] = g[0]
      BY <1>3, <2>1
    <3> QED
      BY <1>2, <2>1, <3>1 DEF IsRun, LayerStep
  <2>2. CASE c # last
    <3>1. PICK i \in 1 .. last : i = last - c /\ i - 1 = last - (c + 1) /\ c = last - i /\ c + 1 \in 0 .. last
      <4>1. last - c \in 1 .. last /\ last - c - 1 = last - (c + 1) /\ c = last - (last - c) /\ c + 1 \in 0 .. last
        BY <2>2
      <4> QED
        BY <4>1
    <3>2. h[c] = g[i] /\ h[c + 1] = g[i - 1] /\ i - 1 \in 0 .. last
      BY <1>3, <3>1
    <3>3. g[i] = F[<<i, g[i - 1]>>] /\ g[i - 1] \in Tables
      BY <1>2, <3>2 DEF IsRun
    <3>4. F[<<i, g[i - 1]>>] = next(last - i, g[i - 1])
      <4> HIDE DEF next
      <4> QED
        BY <3>3
    <3>5. h[c] = next(c, h[c + 1])
      <4> HIDE DEF next, F
      <4> QED
        BY <3>1, <3>2, <3>3, <3>4
    <3> QED
      BY <2>2, <3>5 DEF LayerStep
  <2> QED
    BY <2>1, <2>2
<1>5. h = [c \in 0 .. last |-> h[c]]
  BY <1>3
<1>6. h = [c \in 0 .. last |-> LayerStep(h, pts, fill, last, c)]
  BY <1>4, <1>5
<1> QED
  BY <1>6 DEF IsLayers

LEMMA LayersAreTables ==
    ASSUME NEW pts, AreLayers(pts), NEW fill, NEW c \in DOMAIN pts
    PROVE  LayersBelow(pts, fill)[c] \in Tables
<1>1. PICK last : last = Max(DOMAIN pts \cup {0})
  OBVIOUS
<1>2. last \in Nat /\ \A d \in DOMAIN pts : d \in 1 .. last
  BY <1>1, LastIs
<1>3. LayersBelow(pts, fill) = CHOOSE h : IsLayers(h, pts, fill, last)
  BY <1>1 DEF LayersBelow, IsLayers, LayerStep
<1>4. PICK h : h = LayersBelow(pts, fill)
  OBVIOUS
<1>5. IsLayers(h, pts, fill, last)
  BY <1>2, <1>3, <1>4, LayersExist
<1> DEFINE Wrong == {m \in Nat : m <= last /\ h[last - m] \notin Tables}
<1>6. SUFFICES ASSUME Wrong # {} PROVE FALSE
  <2>1. last - c \in Nat /\ last - c <= last /\ last - (last - c) = c
    BY <1>2
  <2>2. last - c \notin Wrong => h[c] \in Tables
    BY <2>1
  <2> QED
    BY <1>4, <2>2
<1>7. PICK m \in Wrong : \A k \in Wrong : m <= k
  <2>1. Wrong \in SUBSET Nat
    OBVIOUS
  <2> HIDE DEF Wrong
  <2> QED
    BY <1>6, <2>1, LeastNumber
<1>8. PICK d \in 0 .. last : m \in Nat /\ m <= last /\ d = last - m /\ h[d] \notin Tables
  <2>1. last - m \in 0 .. last
    BY <1>2
  <2> QED
    BY <2>1
<1>9. h[d] = LayerStep(h, pts, fill, last, d)
  BY <1>5 DEF IsLayers
<1>10. d # last
  BY <1>8, <1>9, EmptyTable DEF LayerStep
<1>11. m # 0 /\ m - 1 \in Nat /\ m - 1 <= last /\ last - (m - 1) = d + 1 /\ ~ (m <= m - 1)
  BY <1>2, <1>8, <1>10
<1>12. h[d + 1] \in Tables
  <2>1. m - 1 \notin Wrong
    <3> HIDE DEF Wrong
    <3> QED
      BY <1>7, <1>11
  <2> QED
    BY <1>11, <2>1
<1>13. CASE d + 1 \in DOMAIN pts
  <2>1. PICK p, b : p = pts[d + 1] /\ b = h[d + 1]
    OBVIOUS
  <2>2. IsLayer(p) /\ b \in Tables
    BY <1>12, <1>13, <2>1 DEF AreLayers
  <2>3. stackPoints(p, b, fill).below \in Tables
    BY <2>2, StackIsTable
  <2> QED
    BY <1>8, <1>9, <1>10, <1>13, <2>1, <2>3 DEF LayerStep
<1>14. CASE d + 1 \notin DOMAIN pts
  BY <1>8, <1>9, <1>10, <1>12, <1>14 DEF LayerStep
<1> QED
  BY <1>13, <1>14

-----------------------------------------------------------------------------
(* _evaluateLineCharts: every value has its place.                         *)

Value == Int \cup {Null, NaN}
IsData(c, data) ==
    /\ Len(data) \in Nat /\ DOMAIN data = 1 .. Len(data)
    /\ \A i \in 1 .. Len(data) : data[i].x \in Int /\ \A s \in c.series : data[i].ys[s] \in Value
    /\ \A i, j \in 1 .. Len(data) : i <= j => data[i].x <= data[j].x

(* A place is at its x, and nowhere when there is no value; a line that is drawn through skips nulls. *)
IsPlace(c, x, v, q) ==
    /\ q.x = x /\ (q.y = NaN <=> Missing(v)) /\ (~ Missing(v) => q.y \in Int)
    /\ accepted(c, q) <=> ~ (c.connect /\ v = Null)

LEMMA ValueIs == \A v \in Value : Missing(v) \/ (v \in Int /\ v # Null /\ v # NaN /\ Num(v) = v)
BY ChartsAssumption DEF Value, Missing, Num

LEMMA PlacedIs ==
    ASSUME NEW c \in Charts, NEW p, p.yval \in Value, c.fill # "off" => p.stacked \in Int
    PROVE  IsPlace(c, p.xval, p.yval, Placed(c, p))
<1>1. PICK q : q = Placed(c, p)
  OBVIOUS
<1>2. PICK v : v = IF c.fill = "off" THEN p.yval ELSE p.stacked
  OBVIOUS
<1>3. /\ q.x = p.xval /\ q.yval = IF p.yval = Null /\ ~ c.connect THEN NaN ELSE p.yval
      /\ q.y = IF Missing(p.yval) THEN NaN ELSE CanvasY(c, v)
  BY <1>1, <1>2 DEF Placed
<1>4. Missing(NaN) /\ Missing(Null) /\ Null # NaN
  BY ChartsAssumption DEF Missing
<1>5. ~ Missing(p.yval) => CanvasY(c, v) \in Int
  <2> SUFFICES ASSUME ~ Missing(p.yval) PROVE CanvasY(c, v) \in Int
    OBVIOUS
  <2>1. v \in Int
    BY <1>2, ValueIs
  <2>2. v # NaN /\ Num(v) = v
    BY <2>1, ChartsAssumption DEF Num
  <2>3. Height \in Int /\ c.low \in Int
    BY ChartsAssumption
  <2> QED
    BY <2>1, <2>2, <2>3 DEF CanvasY
<1>6. \A y \in Int : y # NaN
  BY ChartsAssumption
<1>7. (q.y = NaN <=> Missing(p.yval)) /\ (~ Missing(p.yval) => q.y \in Int)
  BY <1>3, <1>5, <1>6
<1>8. accepted(c, q) <=> ~ (c.connect /\ p.yval = Null)
  BY <1>3, <1>4 DEF accepted
<1> QED
  BY <1>1, <1>3, <1>7, <1>8 DEF IsPlace

SeriesOf(data, s) == [i \in DOMAIN data |-> Point(data[i].x, data[i].ys[s], <<>>)]
PointsOf(data, s) == [i \in DOMAIN data |-> [xval |-> data[i].x, yval |-> data[i].ys[s], ext |-> <<>>, idx |-> i]]

(* All of a series is gathered. *)
LEMMA AllPoints ==
    ASSUME NEW c, NEW data, IsData(c, data), NEW s \in c.series, NEW f, f = SeriesOf(data, s)
    PROVE  /\ seriesToPoints(SubSeq(f, boundaryIds(f, <<>>)[1], boundaryIds(f, <<>>)[2]), boundaryIds(f, <<>>)[1])
                = PointsOf(data, s)
           /\ IsLayer(PointsOf(data, s))
<1>1. PICK n \in Nat : n = Len(data) /\ DOMAIN data = 1 .. n
  BY DEF IsData
<1>2. f = [i \in 1 .. n |-> f[i]] /\ DOMAIN f = 1 .. n
  BY <1>1 DEF SeriesOf
<1>3. Len(f) = n
  BY <1>2, Counted
<1>4. boundaryIds(f, <<>>)[1] = 1 /\ boundaryIds(f, <<>>)[2] = n
  BY <1>3 DEF boundaryIds
<1>5. SubSeq(f, 1, n) = f
  BY <1>2, Whole
<1>6. \A i \in 1 .. n : f[i].x = data[i].x /\ f[i].y = data[i].ys[s] /\ f[i].ext = <<>> /\ i + 1 - 1 = i
  BY <1>1 DEF SeriesOf, Point
<1>7. seriesToPoints(f, 1) = PointsOf(data, s)
  BY <1>1, <1>2, <1>6 DEF seriesToPoints, PointsOf
<1>8. PICK p : p = PointsOf(data, s)
  OBVIOUS
<1>9. /\ p = [i \in 1 .. n |-> p[i]] /\ DOMAIN p = 1 .. n
      /\ \A i \in 1 .. n : p[i].xval = data[i].x /\ p[i].yval = data[i].ys[s]
  BY <1>1, <1>8 DEF PointsOf
<1>10. Len(p) = n
  BY <1>9, Counted
<1>11. \A i \in 1 .. n : p[i].xval \in Int /\ (Missing(p[i].yval) \/ p[i].yval \in Int)
  BY <1>1, <1>9, ValueIs DEF IsData
<1>12. \A i, j \in 1 .. n : i <= j => p[i].xval <= p[j].xval
  BY <1>1, <1>9 DEF IsData
<1>13. IsLayer(p)
  BY <1>9, <1>10, <1>11, <1>12 DEF IsLayer
<1> QED
  BY <1>4, <1>5, <1>7, <1>8, <1>13

LEMMA LaidOutIs ==
    ASSUME NEW c \in Charts, NEW data, IsData(c, data), NEW s \in c.series
    PROVE  /\ Len(LaidOut(c, data)[s]) = Len(data)
           /\ \A i \in 1 .. Len(data) : IsPlace(c, data[i].x, data[i].ys[s], LaidOut(c, data)[s][i])
<1> DEFINE mode == [kind |-> "default", log |-> FALSE, wilson |-> FALSE]
           series == [t \in c.series |-> SeriesOf(data, t)]
           all == gatherDatasets(mode, series, <<>>, c.series, c.fill).points
           pts == [t \in c.series |-> PointsOf(data, t)]
           stack == [t \in c.series |-> stackPoints(pts[t], LayersBelow(pts, c.fill)[t], c.fill).points]
<1>1. PICK n \in Nat : n = Len(data) /\ DOMAIN data = 1 .. n
  BY DEF IsData
<1>2. LaidOut(c, data) = [t \in c.series |-> [i \in DOMAIN data |-> Placed(c, all[t][i])]]
  BY DEF LaidOut, SeriesOf
<1>3. all = IF c.fill = "off" THEN pts ELSE stack
  <2>1. c.series \cap DOMAIN series = c.series
    OBVIOUS
  <2>2. \A t \in c.series : series[t] = SeriesOf(data, t)
    OBVIOUS
  <2> HIDE DEF series
  <2> DEFINE ids == [t \in c.series |-> boundaryIds(series[t], <<>>)]
             cut == [t \in c.series |-> SubSeq(series[t], ids[t][1], ids[t][2])]
             old == [t \in c.series |-> seriesToPoints(cut[t], ids[t][1])]
  <2>3. old = pts
    <3>1. ASSUME NEW t \in c.series PROVE seriesToPoints(cut[t], ids[t][1]) = PointsOf(data, t)
      <4>1. PICK f : f = series[t]
        OBVIOUS
      <4>2. ids[t] = boundaryIds(f, <<>>) /\ cut[t] = SubSeq(f, boundaryIds(f, <<>>)[1], boundaryIds(f, <<>>)[2])
        BY <4>1
      <4> HIDE DEF ids, cut
      <4>3. f = SeriesOf(data, t)
        BY <2>2, <4>1
      <4> QED
        BY <4>2, <4>3, AllPoints
    <3> HIDE DEF cut, ids
    <3> QED
      BY <3>1
  <2>4. all = IF c.fill = "off" THEN old
              ELSE [t \in c.series |-> stackPoints(old[t], LayersBelow(old, c.fill)[t], c.fill).points]
    BY <2>1 DEF gatherDatasets
  <2> HIDE DEF all, old, pts
  <2> QED
    BY <2>3, <2>4
<1> HIDE DEF all, series, mode
<1>4. \A t \in c.series : pts[t] = PointsOf(data, t) /\ IsLayer(pts[t])
  BY AllPoints
<1>5. \A i \in 1 .. n : PointsOf(data, s)[i].xval = data[i].x /\ PointsOf(data, s)[i].yval = data[i].ys[s]
  BY <1>1 DEF PointsOf
<1>6. ASSUME NEW i \in 1 .. n
      PROVE  /\ all[s][i].xval = data[i].x /\ all[s][i].yval = data[i].ys[s]
             /\ c.fill # "off" => all[s][i].stacked \in Int
  <2>1. CASE c.fill = "off"
    BY <1>3, <1>5, <2>1
  <2>2. CASE c.fill # "off"
    <3>1. PICK p, b : p = pts[s] /\ b = LayersBelow(pts, c.fill)[s]
      OBVIOUS
    <3>2. IsLayer(p) /\ p = PointsOf(data, s)
      BY <1>4, <3>1
    <3>3. b \in Tables
      <4>1. IsFiniteSet(c.series) /\ c.series \subseteq Nat \ {0} /\ DOMAIN pts = c.series
        BY ChartsAssumption
      <4>2. AreLayers(pts)
        BY <1>4, <4>1 DEF AreLayers
      <4> HIDE DEF pts
      <4> QED
        BY <3>1, <4>1, <4>2, LayersAreTables
    <3>4. i \in DOMAIN p
      BY <1>1, <3>2 DEF PointsOf
    <3>5. PICK v \in Int : stackPoints(p, b, c.fill).points[i] = Heightened(p[i], v)
      BY <3>2, <3>3, <3>4, StackIsTable
    <3>6. all[s] = stackPoints(p, b, c.fill).points
      BY <1>3, <2>2, <3>1
    <3> QED
      BY <1>5, <3>2, <3>5, <3>6 DEF Heightened
  <2> QED
    BY <2>1, <2>2
<1>7. PICK l : l = LaidOut(c, data)[s]
  OBVIOUS
<1>8. l = [i \in 1 .. n |-> l[i]] /\ \A i \in 1 .. n : l[i] = Placed(c, all[s][i])
  BY <1>1, <1>2, <1>7
<1>9. Len(l) = n
  BY <1>8, Counted
<1>10. ASSUME NEW i \in 1 .. n PROVE IsPlace(c, data[i].x, data[i].ys[s], l[i])
  <2>1. PICK p : p = all[s][i]
    OBVIOUS
  <2>2. p.xval = data[i].x /\ p.yval = data[i].ys[s] /\ p.yval \in Value /\ (c.fill # "off" => p.stacked \in Int)
    BY <1>1, <1>6, <2>1 DEF IsData
  <2>3. IsPlace(c, p.xval, p.yval, Placed(c, p))
    BY <2>2, PlacedIs
  <2> QED
    BY <1>8, <2>1, <2>2, <2>3
<1> QED
  BY <1>1, <1>7, <1>9, <1>10

(* Without a stack there is no height of one. *)
LEMMA LaidOutIsFlat ==
    ASSUME NEW c, NEW data, NEW s \in c.series, NEW i \in DOMAIN data, c.fill = "off"
    PROVE  LaidOut(c, data)[s][i].stacked = NaN
<1>1. PICK f : LaidOut(c, data) = [t \in c.series |-> [j \in DOMAIN data |-> Placed(c, f[t][j])]]
  BY DEF LaidOut
<1>2. LaidOut(c, data)[s][i] = Placed(c, f[s][i])
  BY <1>1
<1>3. PICK p : p = f[s][i]
  OBVIOUS
<1>4. Placed(c, p).stacked = NaN
  BY DEF Placed
<1> QED
  BY <1>2, <1>3, <1>4

-----------------------------------------------------------------------------
(* Paths. *)

Spot == Int \X Int
Calls == {<<op, x, y>> : op \in {"M", "L"}, x \in Int, y \in Int}

LEMMA TailOf == ASSUME NEW op, NEW x, NEW y PROVE Tail(<<op, x, y>>) = <<x, y>>
OBVIOUS

(* A call that is added to a path, *)
LEMMA AppendIs ==
    ASSUME NEW S, NEW p \in Seq(S), NEW a \in S
    PROVE  /\ Append(p, a) \in Seq(S) /\ Len(Append(p, a)) = Len(p) + 1 /\ Append(p, a)[Len(p) + 1] = a
           /\ \A i \in 1 .. Len(p) : Append(p, a)[i] = p[i]
           /\ p \o <<a>> = Append(p, a)
OBVIOUS

IsAdded(v, p, a) == /\ v = Append(p, a) /\ Len(v) = Len(p) + 1 /\ v[Len(p) + 1] = a
                    /\ \A i \in 1 .. Len(p) : v[i] = p[i]

LEMMA AddOne == ASSUME NEW S, NEW p \in Seq(S), NEW a \in S PROVE \E v \in Seq(S) : IsAdded(v, p, a)
<1>1. PICK v : v = Append(p, a)
  OBVIOUS
<1>2. v \in Seq(S)
  BY <1>1, AppendIs
<1>3. IsAdded(v, p, a)
  BY <1>1, AppendIs DEF IsAdded
<1> QED
  BY <1>2, <1>3

(* two of them, *)
LEMMA JoinTwo ==
    ASSUME NEW S, NEW p \in Seq(S), NEW a \in S, NEW b \in S
    PROVE  p \o <<a, b>> = Append(Append(p, a), b)
<1>1. PICK t \in Seq(S) : t = <<a, b>> /\ Len(t) = 2 /\ t[1] = a /\ t[2] = b
  <2>1. <<a, b>> \in Seq(S) /\ Len(<<a, b>>) = 2 /\ <<a, b>>[1] = a /\ <<a, b>>[2] = b
    OBVIOUS
  <2> QED
    BY <2>1, Zenon
<1>2. PICK n \in Nat : n = Len(p)
  OBVIOUS
<1>3. PICK u \in Seq(S) : u = p \o t
  BY ConcatProperties
<1>4. Len(u) = n + 2 /\ \A i \in 1 .. n + 2 : u[i] = IF i <= n THEN p[i] ELSE t[i - n]
  BY <1>1, <1>2, <1>3, ConcatProperties
<1>5. PICK v \in Seq(S) : v = Append(p, a) /\ Len(v) = n + 1 /\ v[n + 1] = a /\ \A i \in 1 .. n : v[i] = p[i]
  <2>1. PICK v \in Seq(S) : IsAdded(v, p, a)
    BY AddOne
  <2> QED
    BY <1>2, <2>1 DEF IsAdded
<1>6. PICK w \in Seq(S) : w = Append(v, b) /\ Len(w) = n + 2 /\ w[n + 2] = b /\ \A i \in 1 .. n + 1 : w[i] = v[i]
  <2>1. PICK w \in Seq(S) : IsAdded(w, v, b)
    BY AddOne
  <2>2. n + 1 + 1 = n + 2
    OBVIOUS
  <2> QED
    BY <1>5, <2>1, <2>2 DEF IsAdded
<1>7. ASSUME NEW i \in 1 .. n + 2 PROVE u[i] = w[i]
  <2>1. CASE i \in 1 .. n
    BY <1>4, <1>5, <1>6, <2>1
  <2>2. CASE i = n + 1
    <3>1. u[i] = t[1] /\ i \in 1 .. n + 1
      BY <1>4, <2>2
    <3> QED
      BY <1>1, <1>5, <1>6, <2>2, <3>1
  <2>3. CASE i = n + 2
    <3>1. u[i] = t[2]
      BY <1>4, <2>3
    <3> QED
      BY <1>1, <1>6, <2>3, <3>1
  <2>4. i \in 1 .. n \/ i = n + 1 \/ i = n + 2
    OBVIOUS
  <2> QED
    BY <2>1, <2>2, <2>3, <2>4, Zenon
<1>8. u = w
  BY <1>4, <1>6, <1>7, SeqEqual
<1> QED
  BY <1>1, <1>3, <1>5, <1>6, <1>8

(* and three. *)
LEMMA JoinThree ==
    ASSUME NEW S, NEW p \in Seq(S), NEW a \in S, NEW b \in S, NEW d \in S
    PROVE  p \o <<a, b, d>> = Append(Append(Append(p, a), b), d)
<1>1. PICK t \in Seq(S) : t = <<a, b, d>> /\ Len(t) = 3 /\ t[1] = a /\ t[2] = b /\ t[3] = d
  <2>1. <<a, b, d>> \in Seq(S) /\ Len(<<a, b, d>>) = 3 /\ <<a, b, d>>[1] = a /\ <<a, b, d>>[2] = b /\ <<a, b, d>>[3] = d
    OBVIOUS
  <2> QED
    BY <2>1, Zenon
<1>2. PICK n \in Nat : n = Len(p)
  OBVIOUS
<1>3. PICK u \in Seq(S) : u = p \o t
  BY ConcatProperties
<1>4. Len(u) = n + 3 /\ \A i \in 1 .. n + 3 : u[i] = IF i <= n THEN p[i] ELSE t[i - n]
  BY <1>1, <1>2, <1>3, ConcatProperties
<1>5. PICK v \in Seq(S) : v = Append(p, a) /\ Len(v) = n + 1 /\ v[n + 1] = a /\ \A i \in 1 .. n : v[i] = p[i]
  <2>1. PICK v \in Seq(S) : IsAdded(v, p, a)
    BY AddOne
  <2> QED
    BY <1>2, <2>1 DEF IsAdded
<1>6. PICK w \in Seq(S) : w = Append(v, b) /\ Len(w) = n + 2 /\ w[n + 2] = b /\ \A i \in 1 .. n + 1 : w[i] = v[i]
  <2>1. PICK w \in Seq(S) : IsAdded(w, v, b)
    BY AddOne
  <2>2. n + 1 + 1 = n + 2
    OBVIOUS
  <2> QED
    BY <1>5, <2>1, <2>2 DEF IsAdded
<1>7. PICK z \in Seq(S) : z = Append(w, d) /\ Len(z) = n + 3 /\ z[n + 3] = d /\ \A i \in 1 .. n + 2 : z[i] = w[i]
  <2>1. PICK z \in Seq(S) : IsAdded(z, w, d)
    BY AddOne
  <2>2. n + 2 + 1 = n + 3
    OBVIOUS
  <2> QED
    BY <1>6, <2>1, <2>2 DEF IsAdded
<1>8. ASSUME NEW i \in 1 .. n + 3 PROVE u[i] = z[i]
  <2>1. CASE i \in 1 .. n
    BY <1>4, <1>5, <1>6, <1>7, <2>1
  <2>2. CASE i = n + 1
    <3>1. u[i] = t[1] /\ i \in 1 .. n + 1 /\ i \in 1 .. n + 2
      BY <1>4, <2>2
    <3> QED
      BY <1>1, <1>5, <1>6, <1>7, <2>2, <3>1
  <2>3. CASE i = n + 2
    <3>1. u[i] = t[2] /\ i \in 1 .. n + 2
      BY <1>4, <2>3
    <3> QED
      BY <1>1, <1>6, <1>7, <2>3, <3>1
  <2>4. CASE i = n + 3
    <3>1. u[i] = t[3]
      BY <1>4, <2>4
    <3> QED
      BY <1>1, <1>7, <2>4, <3>1
  <2> QED
    BY <2>1, <2>2, <2>3, <2>4
<1>9. u = z
  BY <1>4, <1>7, <1>8, SeqEqual
<1> QED
  BY <1>1, <1>3, <1>5, <1>6, <1>7, <1>9

LEMMA AddThree ==
    ASSUME NEW p, p \in Seq(Calls), NEW a, a \in Calls, NEW b, b \in Calls, NEW d, d \in Calls,
           NEW q, IsAdded(q, p, a), NEW r, IsAdded(r, q, b), NEW t, IsAdded(t, r, d)
    PROVE  p \o <<a, b, d>> = t
<1>1. p \o <<a, b, d>> = Append(Append(Append(p, a), b), d)
  BY JoinThree
<1> QED
  BY <1>1 DEF IsAdded

(* A moveTo adds no line to a path; a lineTo adds one, from where the pen is. *)
EndsAt(p, at) == Len(p) # 0 /\ Tail(p[Len(p)]) = at
LineTo(p, i) == <<Tail(p[i - 1]), Tail(p[i])>>
IsCall(a, op, to) == a \in Calls /\ a[1] = op /\ Tail(a) = to

LEMMA LinesMove ==
    ASSUME NEW p \in Seq(Calls), NEW a, NEW to, IsCall(a, "M", to), NEW q, IsAdded(q, p, a)
    PROVE  EndsAt(q, to) /\ Lines(q) = Lines(p)
<1> DEFINE ks(r) == {k \in 2..Len(r) : r[k][1] = "L"}
<1>1. a[1] = "M"
  BY DEF IsCall
<1>2. Tail(a) = to
  BY DEF IsCall
<1>3. Len(q) = Len(p) + 1 /\ q[Len(p) + 1] = a /\ \A i \in 1 .. Len(p) : q[i] = p[i]
  BY DEF IsAdded
<1>4. Len(p) \in Nat
  OBVIOUS
<1>5. ks(q) = ks(p)
  <2>1. \A k \in 2 .. Len(p) + 1 : k = Len(p) + 1 \/ k \in 2 .. Len(p)
    BY <1>4
  <2>2. \A k \in 2 .. Len(p) : k \in 2 .. Len(p) + 1 /\ k \in 1 .. Len(p)
    BY <1>4
  <2>3. \A k \in 2 .. Len(p) : q[k][1] = p[k][1]
    BY <1>3, <2>2
  <2>4. q[Len(p) + 1][1] # "L"
    BY <1>1, <1>3
  <2> QED
    BY <1>3, <2>1, <2>2, <2>3, <2>4
<1>6. \A i \in ks(p) : q[i] = p[i] /\ q[i - 1] = p[i - 1]
  <2>1. \A i \in ks(p) : i \in 1 .. Len(p) /\ i - 1 \in 1 .. Len(p)
    BY <1>4
  <2> QED
    BY <1>3, <2>1
<1>7. Lines(q) = {LineTo(q, i) : i \in ks(q)} /\ Lines(p) = {LineTo(p, i) : i \in ks(p)}
  BY Zenon DEF Lines, LineTo
<1> HIDE DEF ks
<1>8. Lines(q) = Lines(p)
  <2>1. \A i \in ks(p) : LineTo(q, i) = LineTo(p, i)
    BY <1>6 DEF LineTo
  <2> QED
    BY <1>5, <1>7, <2>1
<1>9. EndsAt(q, to)
  BY <1>2, <1>3, <1>4 DEF EndsAt
<1> QED
  BY <1>8, <1>9

LEMMA LinesOn ==
    ASSUME NEW p \in Seq(Calls), NEW at, EndsAt(p, at), NEW a, NEW to, IsCall(a, "L", to), NEW q, IsAdded(q, p, a)
    PROVE  EndsAt(q, to) /\ Lines(q) = Lines(p) \cup {<<at, to>>}
<1> DEFINE ks(r) == {k \in 2..Len(r) : r[k][1] = "L"}
<1>1. a[1] = "L"
  BY DEF IsCall
<1>2. Tail(a) = to
  BY DEF IsCall
<1>3. Len(q) = Len(p) + 1 /\ q[Len(p) + 1] = a /\ \A i \in 1 .. Len(p) : q[i] = p[i]
  BY DEF IsAdded
<1>4. Len(p) \in Nat /\ Len(p) # 0 /\ Tail(p[Len(p)]) = at
  BY DEF EndsAt
<1>5. PICK l \in Nat \ {0} : l = Len(p)
  BY <1>4
<1>6. ks(q) = ks(p) \cup {l + 1}
  <2>1. \A k \in 2 .. l + 1 : k = l + 1 \/ k \in 2 .. l
    BY <1>5
  <2>2. l + 1 \in 2 .. l + 1 /\ \A k \in 2 .. l : k \in 2 .. l + 1 /\ k \in 1 .. l
    BY <1>5
  <2>3. \A k \in 2 .. l : q[k][1] = p[k][1]
    BY <1>3, <1>5, <2>2
  <2>4. q[l + 1][1] = "L" /\ Len(q) = l + 1
    BY <1>1, <1>3, <1>5
  <2> QED
    BY <1>5, <2>1, <2>2, <2>3, <2>4
<1>7. \A i \in ks(p) : q[i] = p[i] /\ q[i - 1] = p[i - 1]
  <2>1. \A i \in ks(p) : i \in 1 .. Len(p) /\ i - 1 \in 1 .. Len(p)
    BY <1>4
  <2> QED
    BY <1>3, <2>1
<1>8. Lines(q) = {LineTo(q, i) : i \in ks(q)} /\ Lines(p) = {LineTo(p, i) : i \in ks(p)}
  BY Zenon DEF Lines, LineTo
<1>9. Tail(q[l + 1]) = to /\ Tail(q[l + 1 - 1]) = at
  <2>1. l + 1 - 1 = l /\ l \in 1 .. Len(p)
    BY <1>5
  <2> QED
    BY <1>2, <1>3, <1>4, <1>5, <2>1
<1> HIDE DEF ks
<1>10. Lines(q) = Lines(p) \cup {<<at, to>>}
  <2>1. \A i \in ks(p) : LineTo(q, i) = LineTo(p, i)
    BY <1>7 DEF LineTo
  <2>2. LineTo(q, l + 1) = <<at, to>>
    BY <1>9 DEF LineTo
  <2> QED
    BY <1>6, <1>8, <2>1, <2>2
<1>11. EndsAt(q, to)
  BY <1>2, <1>3, <1>4 DEF EndsAt
<1> QED
  BY <1>10, <1>11

-----------------------------------------------------------------------------
(* The rows between which something is drawn.                              *)

At(points, i) == <<points[i].x, points[i].y>>
Level(points, i, k) == <<points[k].x, points[i].y>>

(* The points are the places of the rows. *)
Fits(s, points) ==
    /\ chart \in Charts /\ s \in chart.series /\ IsData(chart, rows) /\ Len(points) = Len(rows)
    /\ \A i \in 1 .. Len(rows) : IsPlace(chart, rows[i].x, rows[i].ys[s], points[i])

(* Rows that a line is drawn through, the row from which the pen goes on after row i, *)
(* and what there is to draw up to there.                                             *)
Skip(s, m) == chart.connect /\ rows[m].ys[s] = Null
Current(s, i) == {j \in Given(s) : j <= i /\ \A m \in j + 1 .. i : Skip(s, m)}
SpansTo(s, i) == {e \in Spans(s) : e[2] <= i}
Reached(s, i) == {j \in Current(s, i - 1) : ~ Skip(s, i) /\ (s \in chart.step \/ i \in Given(s))}

LEMMA GivenIs ==
    ASSUME NEW s, NEW points, Fits(s, points), NEW i \in 1 .. Len(rows)
    PROVE  /\ accepted(chart, points[i]) <=> ~ Skip(s, i)
           /\ points[i].y = NaN <=> i \notin Given(s)
           /\ i \in Given(s) => points[i].y \in Int /\ ~ Skip(s, i)
           /\ points[i].x \in Int
<1>1. IsPlace(chart, rows[i].x, rows[i].ys[s], points[i]) /\ rows[i].x \in Int /\ i \in DOMAIN rows
  BY DEF Fits, IsData
<1> QED
  BY <1>1 DEF IsPlace, Given, Skip, Missing

LEMMA SpanIs ==
    ASSUME NEW s, NEW points, Fits(s, points), NEW j \in Given(s), NEW i \in 1 .. Len(rows)
    PROVE  /\ i \in Onward(s, j) <=> ~ Skip(s, i) /\ j \in Current(s, i - 1)
           /\ <<j, i>> \in Spans(s) <=> j \in Reached(s, i)
<1>1. PICK n \in Nat : n = Len(rows) /\ DOMAIN rows = 1 .. n
  BY DEF Fits, IsData
<1>2. j \in 1 .. n /\ i \in 1 .. n
  BY <1>1 DEF Given
<1>3. Onward(s, j) = {k \in j + 1 .. n : ~ Skip(s, k) /\ \A m \in j + 1 .. k - 1 : Skip(s, m)}
  BY <1>1 DEF Onward, Skip
<1>4. i \in Onward(s, j) <=> ~ Skip(s, i) /\ j \in Current(s, i - 1)
  <2>1. i \in j + 1 .. n <=> j <= i - 1
    BY <1>2
  <2> QED
    BY <1>3, <2>1 DEF Current
<1>5. <<j, i>> \in Spans(s) <=> i \in Onward(s, j) /\ (s \in chart.step \/ i \in Given(s))
  <2>1. <<j, i>> \in Neighbours(s) <=> i \in Onward(s, j) /\ i \in Given(s)
    BY DEF Neighbours
  <2>2. CASE s \in chart.step
    <3>1. Spans(s) = {e \in Given(s) \X DOMAIN rows : e[2] \in Onward(s, e[1])}
      BY <2>2 DEF Spans
    <3> QED
      BY <1>1, <2>2, <3>1
  <2>3. CASE s \notin chart.step
    <3>1. Spans(s) = Neighbours(s)
      BY <2>3 DEF Spans
    <3> QED
      BY <2>1, <2>3, <3>1
  <2> QED
    BY <2>2, <2>3
<1> QED
  BY <1>4, <1>5 DEF Reached

LEMMA SpansAre ==
    ASSUME NEW s, NEW points, Fits(s, points), NEW e \in Spans(s)
    PROVE  /\ e = <<e[1], e[2]>> /\ e[1] \in Given(s) /\ e[2] \in 1 .. Len(rows) /\ e[1] \in Reached(s, e[2])
           /\ Neighbours(s) = {d \in Spans(s) : d[2] \in Given(s)}
<1>1. PICK n \in Nat : n = Len(rows) /\ DOMAIN rows = 1 .. n
  BY DEF Fits, IsData
<1>2. Given(s) \subseteq 1 .. n
  BY <1>1 DEF Given
<1>3. e = <<e[1], e[2]>> /\ e[1] \in Given(s) /\ e[2] \in 1 .. n
  <2>1. CASE s \in chart.step
    <3>1. Spans(s) = {d \in Given(s) \X DOMAIN rows : d[2] \in Onward(s, d[1])}
      BY <2>1 DEF Spans
    <3> QED
      BY <1>1, <3>1
  <2>2. CASE s \notin chart.step
    <3>1. Spans(s) = {d \in Given(s) \X Given(s) : d[2] \in Onward(s, d[1])}
      BY <2>2 DEF Spans, Neighbours
    <3> QED
      BY <1>2, <3>1
  <2> QED
    BY <2>1, <2>2
<1>4. e[1] \in Reached(s, e[2])
  <2>1. PICK j \in Given(s), i \in 1 .. n : j = e[1] /\ i = e[2] /\ e = <<j, i>>
    BY <1>3
  <2> QED
    BY <1>1, <2>1, SpanIs
<1>5. Neighbours(s) = {d \in Spans(s) : d[2] \in Given(s)}
  <2>1. CASE s \in chart.step
    BY <1>1, <1>2, <2>1 DEF Spans, Neighbours
  <2>2. CASE s \notin chart.step
    BY <2>2 DEF Spans, Neighbours
  <2> QED
    BY <2>1, <2>2
<1> QED
  BY <1>1, <1>3, <1>4, <1>5

(* The pen goes on from one row at most: the rows after it are skipped. *)
LEMMA OneCurrent ==
    ASSUME NEW s, NEW points, Fits(s, points), NEW i \in 0 .. Len(rows),
           NEW j \in Current(s, i), NEW k \in Current(s, i)
    PROVE  j = k
<1>1. PICK n \in Nat : n = Len(rows) /\ DOMAIN rows = 1 .. n
  BY DEF Fits, IsData
<1>2. j \in 1 .. n /\ k \in 1 .. n /\ j \in Given(s) /\ k \in Given(s) /\ j <= i /\ k <= i
  BY <1>1 DEF Current, Given
<1>3. ~ Skip(s, j) /\ ~ Skip(s, k)
  BY <1>1, <1>2, GivenIs
<1>4. ~ (j < k)
  <2> SUFFICES ASSUME j < k PROVE FALSE
    OBVIOUS
  <2>1. k \in j + 1 .. i
    BY <1>2
  <2> QED
    BY <1>3, <2>1 DEF Current
<1>5. ~ (k < j)
  <2> SUFFICES ASSUME k < j PROVE FALSE
    OBVIOUS
  <2>1. j \in k + 1 .. i
    BY <1>2
  <2> QED
    BY <1>3, <2>1 DEF Current
<1> QED
  BY <1>2, <1>4, <1>5

LEMMA CurrentGrows ==
    ASSUME NEW s, NEW points, Fits(s, points), NEW i \in 1 .. Len(rows)
    PROVE  Current(s, i) = IF i \in Given(s) THEN {i} ELSE IF Skip(s, i) THEN Current(s, i - 1) ELSE {}
<1>1. PICK n \in Nat : n = Len(rows) /\ DOMAIN rows = 1 .. n
  BY DEF Fits, IsData
<1>2. i \in 1 .. n /\ \A j \in Given(s) : j \in 1 .. n
  BY <1>1 DEF Given
<1>3. \A j \in Given(s) : j <= i /\ j # i => i \in j + 1 .. i
  BY <1>2
<1>4. CASE i \in Given(s)
  <2>1. ~ Skip(s, i)
    BY <1>4, GivenIs
  <2>2. i \in Current(s, i)
    <3>1. \A m \in i + 1 .. i : FALSE
      BY <1>2
    <3>2. i <= i
      BY <1>2
    <3> QED
      BY <1>4, <3>1, <3>2 DEF Current
  <2>3. \A j \in Current(s, i) : j = i
    BY <1>3, <2>1 DEF Current
  <2> QED
    BY <1>4, <2>2, <2>3
<1>5. CASE i \notin Given(s) /\ Skip(s, i)
  <2>1. \A j \in Given(s) : j <= i <=> j <= i - 1
    BY <1>2, <1>5
  <2>2. \A j \in Given(s) : j <= i => \A m \in j + 1 .. i : m = i \/ m \in j + 1 .. i - 1
    BY <1>2
  <2>3. \A j \in Given(s) : j <= i => \A m \in j + 1 .. i - 1 : m \in j + 1 .. i
    BY <1>2
  <2> QED
    BY <1>5, <2>1, <2>2, <2>3 DEF Current
<1>6. CASE i \notin Given(s) /\ ~ Skip(s, i)
  <2>1. \A j \in Current(s, i) : FALSE
    BY <1>3, <1>6 DEF Current
  <2> QED
    BY <1>6, <2>1
<1> QED
  BY <1>4, <1>5, <1>6

LEMMA SpansGrow ==
    ASSUME NEW s, NEW points, Fits(s, points), NEW i \in 1 .. Len(rows)
    PROVE  SpansTo(s, i) = SpansTo(s, i - 1) \cup {<<j, i>> : j \in Reached(s, i)}
<1>1. PICK n \in Nat : n = Len(rows) /\ DOMAIN rows = 1 .. n
  BY DEF Fits, IsData
<1>2. \A e \in Spans(s) : e[2] \in 1 .. n /\ e = <<e[1], e[2]>> /\ e[1] \in Reached(s, e[2])
  BY <1>1, SpansAre
<1>3. \A e \in Spans(s) : e[2] <= i <=> e[2] <= i - 1 \/ e[2] = i
  BY <1>1, <1>2
<1>4. \A j \in Reached(s, i) : <<j, i>> \in Spans(s) /\ <<j, i>>[2] = i
  BY SpanIs DEF Reached, Current
<1>5. i <= i
  BY <1>1
<1>6. ASSUME NEW e \in SpansTo(s, i) PROVE e \in SpansTo(s, i - 1) \cup {<<j, i>> : j \in Reached(s, i)}
  BY <1>2, <1>3 DEF SpansTo
<1>7. ASSUME NEW e \in SpansTo(s, i - 1) PROVE e \in SpansTo(s, i)
  BY <1>3 DEF SpansTo
<1>8. ASSUME NEW j \in Reached(s, i) PROVE <<j, i>> \in SpansTo(s, i)
  <2>1. PICK e : e = <<j, i>>
    OBVIOUS
  <2>2. e \in Spans(s) /\ e[2] = i
    BY <1>4, <2>1
  <2> QED
    BY <1>3, <2>1, <2>2 DEF SpansTo
<1> QED
  BY <1>6, <1>7, <1>8

-----------------------------------------------------------------------------
(* _drawSeries: the pen.                                                   *)

Pens == [prev : {<<>>} \cup Spot, path : Seq(Calls), dots : SUBSET Spot]
NoPen == [prev |-> <<>>, path |-> <<>>, dots |-> {}]

(* What there is to draw for a set of spans, *)
ToGap(points, E) == {<<At(points, e[1]), Level(points, e[1], e[2])>> : e \in E}
ToNext(points, E) == {<<Level(points, e[1], e[2]), At(points, e[2])>> : e \in E}
Straight(points, E) == {<<At(points, e[1]), At(points, e[2])>> : e \in E}
Drawn(s, points, E) ==
    IF s \in chart.step THEN ToGap(points, E) \cup ToNext(points, {e \in E : e[2] \in Given(s)})
    ELSE Straight(points, E)
Touched(s) == UNION {{e[1], e[2]} : e \in Spans(s)}

(* and what the pen has drawn of it when it is at row i. *)
PenIs(s, points, i, p) ==
    /\ p \in Pens
    /\ p.prev = <<>> => Current(s, i) = {}
    /\ p.prev # <<>> => EndsAt(p.path, p.prev) /\ \E j \in Current(s, i) : p.prev = At(points, j)
    /\ Lines(p.path) = Drawn(s, points, SpansTo(s, i))
    /\ \A j \in Given(s) : j <= i => At(points, j) \in p.dots \/ j \in Touched(s)

More(s, points, j, i) ==
    IF s \in chart.step
    THEN {<<At(points, j), Level(points, j, i)>>}
         \cup (IF i \in Given(s) THEN {<<Level(points, j, i), At(points, i)>>} ELSE {})
    ELSE {<<At(points, j), At(points, i)>>}

Longer(D, E, j, i) == D = E \cup {<<j, i>>}

LEMMA DrawnGrows ==
    ASSUME NEW s, NEW points, NEW E, NEW j, NEW i, NEW D, Longer(D, E, j, i)
    PROVE  Drawn(s, points, D) = Drawn(s, points, E) \cup More(s, points, j, i)
<1> DEFINE G(F) == {e \in F : e[2] \in Given(s)}
<1>1. /\ <<j, i>>[1] = j /\ <<j, i>>[2] = i
  OBVIOUS
<1>2. PICK d : d = <<j, i>>
  OBVIOUS
<1>3. d[1] = j /\ d[2] = i /\ D = E \cup {d}
  BY <1>1, <1>2 DEF Longer
<1>4. G(D) = G(E) \cup (IF i \in Given(s) THEN {d} ELSE {})
  BY <1>3
<1> HIDE DEF G
<1>5. ToGap(points, D) = ToGap(points, E) \cup {<<At(points, j), Level(points, j, i)>>}
  BY <1>3 DEF ToGap
<1>6. ToNext(points, G(D)) = ToNext(points, G(E)) \cup
          (IF i \in Given(s) THEN {<<Level(points, j, i), At(points, i)>>} ELSE {})
  <2>1. CASE i \in Given(s)
    <3>1. G(D) = G(E) \cup {d}
      BY <1>4, <2>1
    <3>2. ToNext(points, G(D)) = ToNext(points, G(E)) \cup {<<Level(points, j, i), At(points, i)>>}
      BY <1>3, <3>1 DEF ToNext
    <3> QED
      BY <2>1, <3>2
  <2>2. CASE i \notin Given(s)
    <3>1. G(D) = G(E)
      BY <1>4, <2>2
    <3> QED
      BY <2>2, <3>1
  <2> QED
    BY <2>1, <2>2
<1>7. Straight(points, D) = Straight(points, E) \cup {<<At(points, j), At(points, i)>>}
  BY <1>3 DEF Straight
<1>8. CASE s \in chart.step
  <2>1. /\ Drawn(s, points, D) = ToGap(points, D) \cup ToNext(points, G(D))
        /\ Drawn(s, points, E) = ToGap(points, E) \cup ToNext(points, G(E))
    BY <1>8 DEF Drawn, G
  <2> QED
    BY <1>5, <1>6, <1>8, <2>1 DEF More
<1>9. CASE s \notin chart.step
  <2>1. Drawn(s, points, D) = Straight(points, D) /\ Drawn(s, points, E) = Straight(points, E)
    BY <1>9 DEF Drawn
  <2> QED
    BY <1>7, <1>9, <2>1 DEF More
<1> QED
  BY <1>8, <1>9

(* Nothing is drawn of no spans. *)
LEMMA DrawnNone == ASSUME NEW s, NEW points PROVE Drawn(s, points, {}) = {}
BY DEF Drawn, ToGap, ToNext, Straight

(* What is drawn up to row i. *)
LEMMA DrawnTo ==
    ASSUME NEW s, NEW points, Fits(s, points), NEW i \in 1 .. Len(rows)
    PROVE  /\ Reached(s, i) = {} => SpansTo(s, i) = SpansTo(s, i - 1)
           /\ \A j \in Reached(s, i) : SpansTo(s, i) = SpansTo(s, i - 1) \cup {<<j, i>>}
<1>1. SpansTo(s, i) = SpansTo(s, i - 1) \cup {<<j, i>> : j \in Reached(s, i)}
  BY SpansGrow
<1>2. i - 1 \in 0 .. Len(rows)
  BY DEF Fits, IsData
<1>3. \A j \in Reached(s, i), k \in Reached(s, i) : j = k
  BY <1>2, OneCurrent DEF Reached
<1>4. ASSUME NEW j \in Reached(s, i) PROVE {<<k, i>> : k \in Reached(s, i)} = {<<j, i>>}
  BY <1>3
<1> QED
  BY <1>1, <1>4

(* The look-ahead of the iterator: a row that is not drawn to nor from is a dot. *)
NextOf(points, i) == {k \in i + 1..Len(points) : accepted(chart, points[k])}
NextGone(points, i) == NextOf(points, i) = {} \/ points[Min(NextOf(points, i))].y = NaN

LEMMA NextIsTouched ==
    ASSUME NEW s, NEW points, Fits(s, points), NEW i \in Given(s), ~ NextGone(points, i)
    PROVE  i \in Touched(s)
<1> DEFINE N == NextOf(points, i)
<1>1. PICK n \in Nat : n = Len(rows) /\ n = Len(points) /\ DOMAIN rows = 1 .. n
  BY DEF Fits, IsData
<1>2. i \in 1 .. n
  BY <1>1 DEF Given
<1>3. \A k \in i + 1 .. n : k \in 1 .. n /\ k \in Nat
  BY <1>2
<1>4. N = {k \in i + 1 .. n : ~ Skip(s, k)}
  BY <1>1, <1>3, GivenIs DEF NextOf
<1>5. N \in SUBSET Nat /\ N # {}
  <2>1. N # {}
    BY DEF NextGone
  <2> QED
    BY <1>3, <1>4, <2>1
<1>6. PICK k \in N : k = Min(N) /\ \A m \in N : k <= m
  <2> HIDE DEF N
  <2> QED
    BY <1>5, MinIs
<1>7. k \in i + 1 .. n /\ k \in 1 .. n /\ ~ Skip(s, k)
  BY <1>3, <1>4
<1>8. k \in Given(s)
  <2>1. points[k].y # NaN
    BY <1>6 DEF NextGone
  <2> QED
    BY <1>1, <1>7, <2>1, GivenIs
<1>9. \A m \in i + 1 .. k - 1 : Skip(s, m)
  <2> SUFFICES ASSUME NEW m \in i + 1 .. k - 1 PROVE Skip(s, m)
    OBVIOUS
  <2>1. m \in i + 1 .. n /\ ~ (k <= m)
    BY <1>2, <1>7
  <2>2. m \notin N
    BY <1>6, <2>1
  <2> QED
    BY <1>4, <2>1, <2>2
<1>10. i \in Current(s, k - 1)
  <2>1. i <= k - 1
    BY <1>2, <1>7
  <2> QED
    BY <1>9, <2>1 DEF Current
<1>11. <<i, k>> \in Spans(s)
  <2>1. i \in Reached(s, k)
    BY <1>7, <1>8, <1>10 DEF Reached
  <2> QED
    BY <1>1, <1>7, <2>1, SpanIs
<1>12. PICK e \in Spans(s) : e[1] = i
  BY <1>11
<1> QED
  BY <1>12 DEF Touched

(* One turn of the loop. *)
Back(pen) == <<"M", pen.prev[1], pen.prev[2]>>
Across(points, i, pen) == <<"L", points[i].x, pen.prev[2]>>
Moved(points, i) == <<"M", points[i].x, points[i].y>>
Lined(points, i) == <<"L", points[i].x, points[i].y>>

IsStroke(s, points, i, pen, p) ==
    /\ ~ accepted(chart, points[i]) => p = pen
    /\ accepted(chart, points[i]) /\ points[i].y = NaN =>
          p = [prev |-> <<>>, dots |-> pen.dots,
               path |-> IF s \in chart.step /\ pen.prev # <<>> THEN pen.path \o <<Back(pen), Across(points, i, pen)>>
                        ELSE pen.path]
    /\ accepted(chart, points[i]) /\ points[i].y # NaN =>
          \E D \in {pen.dots, pen.dots \cup {At(points, i)}} :
             /\ pen.prev = <<>> /\ NextGone(points, i) => D = pen.dots \cup {At(points, i)}
             /\ p = [prev |-> At(points, i), dots |-> D,
                     path |-> pen.path \o (IF pen.prev = <<>> THEN <<Moved(points, i)>>
                                           ELSE IF s \in chart.step
                                           THEN <<Back(pen), Across(points, i, pen), Lined(points, i)>>
                                           ELSE <<Lined(points, i)>>)]

LEMMA StrokeIs ==
    ASSUME NEW s, NEW points, NEW i, NEW pen
    PROVE  IsStroke(s, points, i, pen, strokeTo(chart, s, points, i, pen))
<1>1. PICK p : p = strokeTo(chart, s, points, i, pen)
  OBVIOUS
<1>2. ~ accepted(chart, points[i]) => p = pen
  BY <1>1 DEF strokeTo
<1>3. accepted(chart, points[i]) /\ points[i].y = NaN =>
          p = [prev |-> <<>>, dots |-> pen.dots,
               path |-> IF s \in chart.step /\ pen.prev # <<>> THEN pen.path \o <<Back(pen), Across(points, i, pen)>>
                        ELSE pen.path]
  BY <1>1 DEF strokeTo, Back, Across
<1>4. accepted(chart, points[i]) /\ points[i].y # NaN =>
          \E D \in {pen.dots, pen.dots \cup {At(points, i)}} :
             /\ pen.prev = <<>> /\ NextGone(points, i) => D = pen.dots \cup {At(points, i)}
             /\ p = [prev |-> At(points, i), dots |-> D,
                     path |-> pen.path \o (IF pen.prev = <<>> THEN <<Moved(points, i)>>
                                           ELSE IF s \in chart.step
                                           THEN <<Back(pen), Across(points, i, pen), Lined(points, i)>>
                                           ELSE <<Lined(points, i)>>)]
  BY <1>1 DEF strokeTo, Back, Across, Moved, Lined, At, NextOf, NextGone
<1> QED
  BY <1>1, <1>2, <1>3, <1>4 DEF IsStroke

(* Where the pen is drawn on from. *)
LEMMA PenIsSomewhere ==
    ASSUME NEW pen \in Pens, pen.prev # <<>>
    PROVE  pen.prev \in Spot /\ pen.prev[1] \in Int /\ pen.prev[2] \in Int /\ pen.prev = <<pen.prev[1], pen.prev[2]>>
BY DEF Pens, Spot

LEMMA AreCalls ==
    ASSUME NEW x \in Int, NEW y \in Int
    PROVE  /\ <<"M", x, y>> \in Calls /\ <<"L", x, y>> \in Calls
           /\ IsCall(<<"M", x, y>>, "M", <<x, y>>) /\ IsCall(<<"L", x, y>>, "L", <<x, y>>)
<1>1. <<"M", x, y>> \in Calls /\ <<"L", x, y>> \in Calls
  BY DEF Calls
<1>2. Tail(<<"M", x, y>>) = <<x, y>> /\ Tail(<<"L", x, y>>) = <<x, y>>
  BY TailOf
<1>3. <<"M", x, y>>[1] = "M" /\ <<"L", x, y>>[1] = "L"
  OBVIOUS
<1> QED
  BY <1>1, <1>2, <1>3 DEF IsCall

LEMMA StrokeIsTyped ==
    ASSUME NEW s, NEW points, Fits(s, points), NEW i \in 1 .. Len(rows), NEW pen \in Pens
    PROVE  strokeTo(chart, s, points, i, pen) \in Pens
<1>1. PICK p : p = strokeTo(chart, s, points, i, pen)
  OBVIOUS
<1>0. IsStroke(s, points, i, pen, p)
  BY <1>1, StrokeIs
<1>2. pen.path \in Seq(Calls) /\ pen.dots \in SUBSET Spot /\ pen.prev \in {<<>>} \cup Spot
  BY DEF Pens
<1>3. CASE ~ accepted(chart, points[i])
  BY <1>0, <1>1, <1>3 DEF IsStroke
<1>4. CASE accepted(chart, points[i]) /\ points[i].y = NaN
  <2>1. PICK path : path = IF s \in chart.step /\ pen.prev # <<>>
                           THEN pen.path \o <<Back(pen), Across(points, i, pen)>> ELSE pen.path
    OBVIOUS
  <2>2. p = [prev |-> <<>>, dots |-> pen.dots, path |-> path]
    BY <1>0, <1>4, <2>1 DEF IsStroke
  <2>3. path \in Seq(Calls)
    <3>1. CASE s \in chart.step /\ pen.prev # <<>>
      <4>1. Back(pen) \in Calls /\ Across(points, i, pen) \in Calls
        BY <3>1, PenIsSomewhere, GivenIs, AreCalls DEF Back, Across
      <4>2. pen.path \o <<Back(pen), Across(points, i, pen)>>
              = Append(Append(pen.path, Back(pen)), Across(points, i, pen))
        BY <1>2, <4>1, JoinTwo
      <4>3. Append(pen.path, Back(pen)) \in Seq(Calls)
        BY <1>2, <4>1, AppendIs
      <4> QED
        BY <2>1, <3>1, <4>1, <4>2, <4>3, AppendIs
    <3>2. CASE ~ (s \in chart.step /\ pen.prev # <<>>)
      BY <1>2, <2>1, <3>2
    <3> QED
      BY <3>1, <3>2
  <2> QED
    BY <1>1, <1>2, <2>2, <2>3 DEF Pens
<1>5. CASE accepted(chart, points[i]) /\ points[i].y # NaN
  <2>1. PICK at \in Spot : at = At(points, i)
    <3>1. points[i].x \in Int /\ points[i].y \in Int
      BY <1>5, GivenIs
    <3> QED
      BY <3>1 DEF At, Spot
  <2>2. PICK add : add = IF pen.prev = <<>> THEN <<Moved(points, i)>>
                         ELSE IF s \in chart.step THEN <<Back(pen), Across(points, i, pen), Lined(points, i)>>
                         ELSE <<Lined(points, i)>>
    OBVIOUS
  <2>3. PICK D \in {pen.dots, pen.dots \cup {at}} : p = [prev |-> at, dots |-> D, path |-> pen.path \o add]
    BY <1>0, <1>5, <2>1, <2>2 DEF IsStroke
  <2>4. add \in Seq(Calls)
    <3>1. Moved(points, i) \in Calls /\ Lined(points, i) \in Calls
      BY <1>5, GivenIs, AreCalls DEF Moved, Lined
    <3>2. pen.prev # <<>> => Back(pen) \in Calls /\ Across(points, i, pen) \in Calls
      BY PenIsSomewhere, GivenIs, AreCalls DEF Back, Across
    <3>3. CASE pen.prev = <<>>
      <4>1. add = <<Moved(points, i)>>
        BY <2>2, <3>3
      <4> QED
        BY <3>1, <4>1
    <3>4. CASE pen.prev # <<>> /\ s \in chart.step
      <4>1. add = <<Back(pen), Across(points, i, pen), Lined(points, i)>>
        BY <2>2, <3>4
      <4> QED
        BY <3>1, <3>2, <3>4, <4>1
    <3>5. CASE pen.prev # <<>> /\ s \notin chart.step
      <4>1. add = <<Lined(points, i)>>
        BY <2>2, <3>5
      <4> QED
        BY <3>1, <4>1
    <3> QED
      BY <3>3, <3>4, <3>5
  <2>5. pen.path \o add \in Seq(Calls)
    BY <1>2, <2>4, ConcatProperties
  <2>6. D \in SUBSET Spot
    BY <1>2
  <2> QED
    BY <1>1, <2>3, <2>5, <2>6 DEF Pens
<1> QED
  BY <1>3, <1>4, <1>5

(* A turn of the loop takes the pen on by a row: one that is drawn through changes nothing, *)
LEMMA PenSkips ==
    ASSUME NEW s, NEW points, Fits(s, points), NEW i \in 1 .. Len(rows), NEW pen,
           PenIs(s, points, i - 1, pen), Skip(s, i)
    PROVE  PenIs(s, points, i, strokeTo(chart, s, points, i, pen))
<1>1. strokeTo(chart, s, points, i, pen) = pen
  <2>1. PICK p : p = strokeTo(chart, s, points, i, pen)
    OBVIOUS
  <2>2. IsStroke(s, points, i, pen, p) /\ ~ accepted(chart, points[i])
    BY <2>1, GivenIs, StrokeIs
  <2> QED
    BY <2>1, <2>2 DEF IsStroke
<1>2. i \notin Given(s)
  BY GivenIs
<1>3. Current(s, i) = Current(s, i - 1)
  BY <1>2, CurrentGrows
<1>4. SpansTo(s, i) = SpansTo(s, i - 1)
  <2>1. Reached(s, i) = {}
    BY DEF Reached
  <2> QED
    BY <2>1, DrawnTo
<1>5. \A j \in Given(s) : j <= i => j <= i - 1
  BY <1>2 DEF Given, Fits, IsData
<1> QED
  BY <1>1, <1>3, <1>4, <1>5 DEF PenIs

(* one without a value lifts the pen, after a step to it, *)
LEMMA PenLifts ==
    ASSUME NEW s, NEW points, Fits(s, points), NEW i \in 1 .. Len(rows), NEW pen, PenIs(s, points, i - 1, pen),
           ~ Skip(s, i), i \notin Given(s)
    PROVE  PenIs(s, points, i, strokeTo(chart, s, points, i, pen))
<1>1. PICK p \in Pens : p = strokeTo(chart, s, points, i, pen)
  BY StrokeIsTyped DEF PenIs
<1>2. p = [prev |-> <<>>, dots |-> pen.dots,
           path |-> IF s \in chart.step /\ pen.prev # <<>> THEN pen.path \o <<Back(pen), Across(points, i, pen)>>
                    ELSE pen.path]
  <2>1. IsStroke(s, points, i, pen, p) /\ accepted(chart, points[i]) /\ points[i].y = NaN
    BY <1>1, GivenIs, StrokeIs
  <2> QED
    BY <2>1 DEF IsStroke
<1>3. Current(s, i) = {}
  BY CurrentGrows
<1>4. \A j \in Given(s) : j <= i => j <= i - 1
  BY DEF Given, Fits, IsData
<1>5. Lines(p.path) = Drawn(s, points, SpansTo(s, i))
  <2>1. CASE pen.prev = <<>>
    <3>1. Reached(s, i) = {}
      BY <2>1 DEF PenIs, Reached
    <3>2. SpansTo(s, i) = SpansTo(s, i - 1)
      BY <3>1, DrawnTo
    <3> QED
      BY <1>2, <2>1, <3>2 DEF PenIs
  <2>2. CASE pen.prev # <<>> /\ s \notin chart.step
    <3>1. Reached(s, i) = {}
      BY <2>2 DEF Reached
    <3>2. SpansTo(s, i) = SpansTo(s, i - 1)
      BY <3>1, DrawnTo
    <3> QED
      BY <1>2, <2>2, <3>2 DEF PenIs
  <2>3. CASE pen.prev # <<>> /\ s \in chart.step
    <3>1. PICK j \in Current(s, i - 1) : pen.prev = At(points, j)
      BY <2>3 DEF PenIs
    <3>2. SpansTo(s, i) = SpansTo(s, i - 1) \cup {<<j, i>>}
      <4>1. j \in Reached(s, i)
        BY <2>3, <3>1 DEF Reached
      <4> QED
        BY <4>1, DrawnTo
    <3>3. Drawn(s, points, SpansTo(s, i)) = Drawn(s, points, SpansTo(s, i - 1)) \cup
              {<<At(points, j), Level(points, j, i)>>}
      <4>1. PICK E, D : E = SpansTo(s, i - 1) /\ D = SpansTo(s, i)
        OBVIOUS
      <4>2. Drawn(s, points, D) = Drawn(s, points, E) \cup More(s, points, j, i)
        <5>1. Longer(D, E, j, i)
          BY <3>2, <4>1 DEF Longer
        <5> QED
          BY <5>1, DrawnGrows
      <4>3. More(s, points, j, i) = {<<At(points, j), Level(points, j, i)>>}
        BY <2>3 DEF More
      <4> QED
        BY <4>1, <4>2, <4>3
    <3>4. pen \in Pens /\ pen.path \in Seq(Calls)
      BY DEF PenIs, Pens
    <3>5. PICK x \in Int, y \in Int, z \in Int : pen.prev = <<x, y>> /\ points[i].x = z
      BY <2>3, <3>4, PenIsSomewhere, GivenIs
    <3>6. PICK at, level : at = <<x, y>> /\ level = <<z, y>>
      OBVIOUS
    <3>7. at = At(points, j) /\ level = Level(points, j, i)
      BY <3>1, <3>5, <3>6 DEF At, Level
    <3>8. PICK back, across : back = <<"M", x, y>> /\ across = <<"L", z, y>>
      OBVIOUS
    <3>9. Back(pen) = back /\ Across(points, i, pen) = across
      BY <3>5, <3>8 DEF Back, Across
    <3>10. IsCall(back, "M", at) /\ IsCall(across, "L", level) /\ back \in Calls /\ across \in Calls
      BY <3>6, <3>8, AreCalls
    <3>11. PICK q \in Seq(Calls) : IsAdded(q, pen.path, back)
      BY <3>4, <3>10, AddOne
    <3>12. PICK r \in Seq(Calls) : IsAdded(r, q, across)
      BY <3>10, AddOne
    <3>13. EndsAt(q, at) /\ Lines(q) = Lines(pen.path)
      BY <3>4, <3>10, <3>11, LinesMove
    <3>14. Lines(r) = Lines(q) \cup {<<at, level>>}
      BY <3>10, <3>12, <3>13, LinesOn
    <3>15. p.path = r
      <4>1. p.path = pen.path \o <<back, across>>
        BY <1>2, <2>3, <3>9
      <4>2. pen.path \o <<back, across>> = Append(Append(pen.path, back), across)
        BY <3>4, <3>10, JoinTwo
      <4> QED
        BY <3>11, <3>12, <4>1, <4>2 DEF IsAdded
    <3> QED
      BY <3>3, <3>7, <3>13, <3>14, <3>15 DEF PenIs
  <2> QED
    BY <2>1, <2>2, <2>3
<1>6. p.prev = <<>> /\ p.dots = pen.dots
  BY <1>2
<1> QED
  BY <1>1, <1>3, <1>4, <1>5, <1>6 DEF PenIs

(* and one with a value is drawn to, or is a dot if nothing is drawn to it nor from it. *)
LEMMA PenGoesOn ==
    ASSUME NEW s, NEW points, Fits(s, points), NEW i \in 1 .. Len(rows), NEW pen, PenIs(s, points, i - 1, pen),
           i \in Given(s)
    PROVE  PenIs(s, points, i, strokeTo(chart, s, points, i, pen))
<1>1. PICK p \in Pens : p = strokeTo(chart, s, points, i, pen)
  BY StrokeIsTyped DEF PenIs
<1>2. PICK add : add = IF pen.prev = <<>> THEN <<Moved(points, i)>>
                       ELSE IF s \in chart.step THEN <<Back(pen), Across(points, i, pen), Lined(points, i)>>
                       ELSE <<Lined(points, i)>>
  OBVIOUS
<1>3. PICK x \in Int, y \in Int : points[i].x = x /\ points[i].y = y
  BY GivenIs
<1>4. PICK here : here = <<x, y>> /\ here = At(points, i)
  BY <1>3 DEF At
<1>5. PICK D \in {pen.dots, pen.dots \cup {here}} :
         /\ pen.prev = <<>> /\ NextGone(points, i) => D = pen.dots \cup {here}
         /\ p = [prev |-> here, dots |-> D, path |-> pen.path \o add]
  <2>1. IsStroke(s, points, i, pen, p) /\ accepted(chart, points[i]) /\ points[i].y # NaN
    BY <1>1, GivenIs, StrokeIs
  <2> QED
    BY <1>2, <1>4, <2>1 DEF IsStroke
<1>6. p.prev = here /\ p.dots = D /\ p.path = pen.path \o add /\ p.prev # <<>>
  <2>1. <<x, y>> # <<>>
    OBVIOUS
  <2> QED
    BY <1>4, <1>5, <2>1
<1>7. pen \in Pens /\ pen.path \in Seq(Calls)
  BY DEF PenIs, Pens
<1>8. PICK moved, lined : moved = <<"M", x, y>> /\ lined = <<"L", x, y>>
  OBVIOUS
<1>9. Moved(points, i) = moved /\ Lined(points, i) = lined
  BY <1>3, <1>8 DEF Moved, Lined
<1>10. IsCall(moved, "M", here) /\ IsCall(lined, "L", here) /\ moved \in Calls /\ lined \in Calls
  BY <1>4, <1>8, AreCalls
<1>11. Current(s, i) = {i}
  BY CurrentGrows
<1>12. ~ Skip(s, i)
  BY GivenIs
<1>13. \A j \in Given(s) : j <= i => j = i \/ j <= i - 1
  BY DEF Given, Fits, IsData
<1>14. PICK E, to : E = SpansTo(s, i - 1) /\ to = SpansTo(s, i)
  OBVIOUS
<1>15. Lines(pen.path) = Drawn(s, points, E)
  BY <1>14 DEF PenIs
<1>16. pen.dots \subseteq D
  OBVIOUS
<1>17. CASE pen.prev = <<>>
  <2>1. Reached(s, i) = {}
    BY <1>17 DEF PenIs, Reached
  <2>2. SpansTo(s, i) = E
    BY <1>14, <2>1, DrawnTo
  <2>3. PICK q \in Seq(Calls) : IsAdded(q, pen.path, moved)
    BY <1>7, <1>10, AddOne
  <2>4. EndsAt(q, here) /\ Lines(q) = Lines(pen.path)
    BY <1>7, <1>10, <2>3, LinesMove
  <2>5. p.path = q
    <3>1. p.path = pen.path \o <<moved>>
      BY <1>2, <1>6, <1>9, <1>17
    <3>2. pen.path \o <<moved>> = Append(pen.path, moved)
      BY <1>7, <1>10, AppendIs
    <3> QED
      BY <2>3, <3>1, <3>2 DEF IsAdded
  <2>6. here \in D \/ i \in Touched(s)
    <3>1. CASE NextGone(points, i)
      BY <1>5, <1>17, <3>1
    <3>2. CASE ~ NextGone(points, i)
      BY <3>2, NextIsTouched
    <3> QED
      BY <3>1, <3>2
  <2>7. \A j \in Given(s) : j <= i => At(points, j) \in D \/ j \in Touched(s)
    BY <1>4, <1>13, <1>16, <2>6 DEF PenIs
  <2> QED
    BY <1>1, <1>4, <1>6, <1>11, <1>15, <2>2, <2>4, <2>5, <2>7 DEF PenIs
<1>18. CASE pen.prev # <<>>
  <2>1. PICK j \in Current(s, i - 1) : pen.prev = At(points, j)
    BY <1>18 DEF PenIs
  <2>2. j \in Reached(s, i) /\ j \in Given(s)
    BY <1>12, <2>1 DEF Reached, Current
  <2>3. SpansTo(s, i) = E \cup {<<j, i>>}
    BY <1>14, <2>2, DrawnTo
  <2>4. i \in Touched(s)
    <3>1. <<j, i>> \in Spans(s)
      BY <2>2, SpanIs
    <3>2. PICK e \in Spans(s) : e[2] = i
      BY <3>1
    <3> QED
      BY <3>2 DEF Touched
  <2>5. \A k \in Given(s) : k <= i => At(points, k) \in D \/ k \in Touched(s)
    BY <1>13, <1>16, <2>4 DEF PenIs
  <2>6. PICK u \in Int, v \in Int : pen.prev = <<u, v>>
    BY <1>7, <1>18, PenIsSomewhere
  <2>7. PICK at, level : at = <<u, v>> /\ level = <<x, v>>
    OBVIOUS
  <2>8. at = At(points, j) /\ level = Level(points, j, i)
    BY <1>3, <2>1, <2>6, <2>7 DEF At, Level
  <2>9. EndsAt(pen.path, at)
    BY <1>18, <2>6, <2>7 DEF PenIs
  <2>10. EndsAt(p.path, here) /\ Lines(p.path) = Drawn(s, points, SpansTo(s, i))
    <3>1. CASE s \in chart.step
      <4>1. PICK back, across : back = <<"M", u, v>> /\ across = <<"L", x, v>>
        OBVIOUS
      <4>2. Back(pen) = back /\ Across(points, i, pen) = across
        BY <1>3, <2>6, <4>1 DEF Back, Across
      <4>3. IsCall(back, "M", at) /\ IsCall(across, "L", level) /\ back \in Calls /\ across \in Calls
        BY <2>7, <4>1, AreCalls
      <4>4. PICK q \in Seq(Calls) : IsAdded(q, pen.path, back)
        BY <1>7, <4>3, AddOne
      <4>5. PICK r \in Seq(Calls) : IsAdded(r, q, across)
        BY <4>3, AddOne
      <4>6. PICK t \in Seq(Calls) : IsAdded(t, r, lined)
        BY <1>10, AddOne
      <4>7. EndsAt(q, at) /\ Lines(q) = Lines(pen.path)
        BY <1>7, <4>3, <4>4, LinesMove
      <4>8. EndsAt(r, level) /\ Lines(r) = Lines(q) \cup {<<at, level>>}
        BY <4>3, <4>5, <4>7, LinesOn
      <4>9. EndsAt(t, here) /\ Lines(t) = Lines(r) \cup {<<level, here>>}
        BY <1>10, <4>6, <4>8, LinesOn
      <4>10. p.path = t
        <5>1. p.path = pen.path \o <<back, across, lined>>
          BY <1>2, <1>6, <1>9, <1>18, <3>1, <4>2
        <5>2. back \in Calls /\ across \in Calls /\ lined \in Calls
          BY <1>10, <4>3
        <5>3. pen.path \o <<back, across, lined>> = t
          BY <1>7, <4>4, <4>5, <4>6, <5>2, AddThree, Zenon
        <5> QED
          BY <5>1, <5>3
      <4>11. Drawn(s, points, to) = Drawn(s, points, E) \cup ({<<at, level>>} \cup {<<level, here>>})
        <5>1. Drawn(s, points, to) = Drawn(s, points, E) \cup More(s, points, j, i)
          <6>1. Longer(to, E, j, i)
            BY <1>14, <2>3 DEF Longer
          <6> QED
            BY <6>1, DrawnGrows
        <5>2. More(s, points, j, i) = {<<at, level>>} \cup {<<level, here>>}
          BY <1>4, <2>8, <3>1 DEF More
        <5> QED
          BY <5>1, <5>2
      <4> QED
        BY <1>14, <1>15, <4>7, <4>8, <4>9, <4>10, <4>11
    <3>2. CASE s \notin chart.step
      <4>1. PICK q \in Seq(Calls) : IsAdded(q, pen.path, lined)
        BY <1>7, <1>10, AddOne
      <4>2. EndsAt(q, here) /\ Lines(q) = Lines(pen.path) \cup {<<at, here>>}
        BY <1>7, <1>10, <2>9, <4>1, LinesOn
      <4>3. p.path = q
        <5>1. p.path = pen.path \o <<lined>>
          BY <1>2, <1>6, <1>9, <1>18, <3>2
        <5>2. pen.path \o <<lined>> = Append(pen.path, lined)
          BY <1>7, <1>10, AppendIs
        <5> QED
          BY <4>1, <5>1, <5>2 DEF IsAdded
      <4>4. Drawn(s, points, to) = Drawn(s, points, E) \cup {<<at, here>>}
        <5>1. Drawn(s, points, to) = Drawn(s, points, E) \cup More(s, points, j, i)
          <6>1. Longer(to, E, j, i)
            BY <1>14, <2>3 DEF Longer
          <6> QED
            BY <6>1, DrawnGrows
        <5>2. More(s, points, j, i) = {<<at, here>>}
          BY <1>4, <2>8, <3>2 DEF More
        <5> QED
          BY <5>1, <5>2
      <4> QED
        BY <1>14, <1>15, <4>2, <4>3, <4>4
    <3> QED
      BY <3>1, <3>2
  <2> QED
    BY <1>1, <1>4, <1>6, <1>11, <2>5, <2>10 DEF PenIs
<1> QED
  BY <1>17, <1>18

LEMMA PenStarts == ASSUME NEW s, NEW points, Fits(s, points) PROVE PenIs(s, points, 0, NoPen) /\ NoPen \in Pens
<1>1. PICK n \in Nat : n = Len(rows) /\ DOMAIN rows = 1 .. n
  BY DEF Fits, IsData
<1>2. NoPen \in Pens /\ NoPen.prev = <<>> /\ NoPen.path = <<>> /\ NoPen.path \in Seq(Calls)
  BY DEF NoPen, Pens
<1>3. \A j \in Given(s) : ~ (j <= 0)
  BY <1>1 DEF Given
<1>4. Current(s, 0) = {}
  BY <1>3 DEF Current
<1>5. SpansTo(s, 0) = {}
  <2>1. \A e \in Spans(s) : e[2] \in 1 .. n
    BY <1>1, SpansAre
  <2> QED
    BY <2>1 DEF SpansTo
<1>6. Lines(NoPen.path) = {}
  <2>1. \A k \in 2 .. 0 : FALSE
    OBVIOUS
  <2>2. Len(<<>>) = 0
    OBVIOUS
  <2> QED
    BY <1>2, <2>1, <2>2 DEF Lines
<1>7. Lines(NoPen.path) = Drawn(s, points, SpansTo(s, 0))
  BY <1>5, <1>6, DrawnNone
<1> QED
  BY <1>2, <1>3, <1>4, <1>7 DEF PenIs

(* What the pen is after every row, *)
PenStep(h, s, points, i) == IF i = 0 THEN NoPen ELSE strokeTo(chart, s, points, i, h[i - 1])
IsPen(h, s, points) == h = [i \in 0 .. Len(points) |-> PenStep(h, s, points, i)]

LEMMA PensExist == ASSUME NEW s, NEW points, Fits(s, points) PROVE \E h : IsPen(h, s, points)
<1> DEFINE stroke(i, pen) == strokeTo(chart, s, points, i, pen)
           F == [r \in (1 .. Len(rows)) \X Pens |-> stroke(r[1], r[2])]
<1>1. PICK n \in Nat : n = Len(rows) /\ n = Len(points)
  BY DEF Fits, IsData
<1>2. F \in [(1 .. n) \X Pens -> Pens]
  <2>1. \A i \in 1 .. n, pen \in Pens : stroke(i, pen) \in Pens
    BY <1>1, StrokeIsTyped
  <2> HIDE DEF stroke
  <2> QED
    BY <1>1, <2>1
<1>3. PICK h \in [0 .. n -> Pens] : IsRun(h, n, F, NoPen)
  <2> HIDE DEF F
  <2> QED
    BY <1>2, PenStarts, RunsExist
<1>4. ASSUME NEW i \in 0 .. n PROVE h[i] = PenStep(h, s, points, i)
  <2>1. CASE i = 0
    BY <1>3, <2>1 DEF IsRun, PenStep
  <2>2. CASE i # 0
    <3>1. i \in 1 .. n /\ i - 1 \in 0 .. n
      BY <2>2
    <3>2. PICK pen \in Pens : pen = h[i - 1]
      BY <3>1
    <3>3. h[i] = F[<<i, pen>>]
      <4> HIDE DEF F
      <4> QED
        BY <1>3, <3>1, <3>2 DEF IsRun
    <3>4. F[<<i, pen>>] = stroke(i, pen)
      <4> HIDE DEF stroke
      <4> QED
        BY <1>1, <3>1
    <3> QED
      BY <2>2, <3>2, <3>3, <3>4 DEF PenStep
  <2> QED
    BY <2>1, <2>2
<1>5. h = [i \in 0 .. n |-> h[i]]
  OBVIOUS
<1>6. h = [i \in 0 .. n |-> PenStep(h, s, points, i)]
  BY <1>4, <1>5
<1> QED
  BY <1>1, <1>6 DEF IsPen

(* and that it has drawn what there was to draw: there is no first row of which it has not. *)
LEMMA PenDraws ==
    ASSUME NEW s, NEW points, Fits(s, points), NEW h, IsPen(h, s, points)
    PROVE  PenIs(s, points, Len(rows), h[Len(rows)])
<1>1. PICK n \in Nat : n = Len(rows) /\ n = Len(points) /\ DOMAIN rows = 1 .. n
  BY DEF Fits, IsData
<1> DEFINE Wrong == {m \in Nat : m <= n /\ ~ PenIs(s, points, m, h[m])}
<1>2. SUFFICES ASSUME Wrong # {} PROVE FALSE
  <2>1. n \notin Wrong => PenIs(s, points, n, h[n])
    OBVIOUS
  <2> QED
    BY <1>1, <2>1
<1>3. PICK m \in Wrong : \A k \in Wrong : m <= k
  <2>1. Wrong \in SUBSET Nat
    OBVIOUS
  <2> HIDE DEF Wrong
  <2> QED
    BY <1>2, <2>1, LeastNumber
<1>4. m \in 0 .. n /\ ~ PenIs(s, points, m, h[m])
  OBVIOUS
<1>5. h[m] = PenStep(h, s, points, m)
  BY <1>1, <1>4 DEF IsPen
<1>6. m # 0
  <2> SUFFICES ASSUME m = 0 PROVE FALSE
    OBVIOUS
  <2>1. h[0] = NoPen
    BY <1>5 DEF PenStep
  <2> QED
    BY <1>4, <2>1, PenStarts
<1>7. m \in 1 .. n /\ m - 1 \in Nat /\ m - 1 <= n /\ ~ (m <= m - 1)
  BY <1>4, <1>6
<1>8. PICK pen : pen = h[m - 1]
  OBVIOUS
<1>9. PenIs(s, points, m - 1, pen)
  <2>1. m - 1 \notin Wrong
    <3> HIDE DEF Wrong
    <3> QED
      BY <1>3, <1>7
  <2> QED
    BY <1>7, <1>8, <2>1
<1>10. h[m] = strokeTo(chart, s, points, m, pen)
  BY <1>5, <1>6, <1>8 DEF PenStep
<1> HIDE DEF Wrong
<1>11. PICK p : p = strokeTo(chart, s, points, m, pen)
  OBVIOUS
<1>12. PenIs(s, points, m, p)
  <2>1. CASE Skip(s, m)
    BY <1>1, <1>7, <1>9, <1>11, <2>1, PenSkips
  <2>2. CASE ~ Skip(s, m) /\ m \notin Given(s)
    BY <1>1, <1>7, <1>9, <1>11, <2>2, PenLifts
  <2>3. CASE m \in Given(s)
    BY <1>1, <1>7, <1>9, <1>11, <2>3, PenGoesOn
  <2> QED
    BY <2>1, <2>2, <2>3
<1> QED
  BY <1>4, <1>10, <1>11, <1>12

(* So of every series all is drawn, and nothing else. *)
Joins(s, points, drawn) ==
    /\ Lines(drawn.path) = IF s \in chart.step THEN ToGap(points, Spans(s)) \cup ToNext(points, Neighbours(s))
                           ELSE Straight(points, Neighbours(s))
    /\ \A i \in Given(s) \ Touched(s) : At(points, i) \in drawn.dots

LEMMA SeriesIsDrawn ==
    ASSUME NEW s, NEW points, Fits(s, points)
    PROVE  Joins(s, points, drawSeries(chart, s, points))
<1>1. PICK n \in Nat : n = Len(rows) /\ n = Len(points) /\ DOMAIN rows = 1 .. n
  BY DEF Fits, IsData
<1>2. PICK h : h = CHOOSE g : IsPen(g, s, points)
  OBVIOUS
<1>3. PICK drawn : drawn = drawSeries(chart, s, points)
  OBVIOUS
<1>4. drawn.path = h[n].path /\ drawn.dots = h[n].dots
  BY <1>1, <1>2, <1>3 DEF drawSeries, IsPen, PenStep, NoPen
<1>5. IsPen(h, s, points)
  BY <1>2, PensExist
<1>6. PenIs(s, points, n, h[n])
  BY <1>1, <1>5, PenDraws
<1>7. SpansTo(s, n) = Spans(s)
  <2>1. \A e \in Spans(s) : e[2] \in 1 .. n
    BY <1>1, SpansAre
  <2> QED
    BY <2>1 DEF SpansTo
<1>8. Neighbours(s) = {e \in Spans(s) : e[2] \in Given(s)}
  <2>1. CASE Spans(s) = {}
    <3>1. Neighbours(s) \subseteq Spans(s)
      BY <1>1 DEF Spans, Neighbours, Given
    <3> QED
      BY <2>1, <3>1
  <2>2. CASE Spans(s) # {}
    BY <2>2, SpansAre
  <2> QED
    BY <2>1, <2>2
<1>9. Lines(drawn.path) = Drawn(s, points, Spans(s))
  BY <1>4, <1>6, <1>7 DEF PenIs
<1>10. Lines(drawn.path) = IF s \in chart.step THEN ToGap(points, Spans(s)) \cup ToNext(points, Neighbours(s))
                          ELSE Straight(points, Neighbours(s))
  <2>1. CASE s \in chart.step
    BY <1>8, <1>9, <2>1 DEF Drawn
  <2>2. CASE s \notin chart.step
    <3>1. Spans(s) = Neighbours(s)
      BY <2>2 DEF Spans
    <3> QED
      BY <1>9, <2>2, <3>1 DEF Drawn
  <2> QED
    BY <2>1, <2>2
<1>11. ASSUME NEW i \in Given(s) \ Touched(s) PROVE At(points, i) \in drawn.dots
  <2>1. i <= n
    BY <1>1 DEF Given
  <2> QED
    BY <1>4, <1>6, <2>1 DEF PenIs
<1> QED
  BY <1>3, <1>10, <1>11 DEF Joins

-----------------------------------------------------------------------------
(* Picking from a sequence.                                                *)

(* What is so at first, and after every step that it was so before, is so. *)
LEMMA Upward ==
    ASSUME NEW n \in Nat, NEW W \in SUBSET (0 .. n), 0 \in W, \A i \in 1 .. n : i - 1 \in W => i \in W
    PROVE  n \in W
<1> DEFINE Wrong == (0 .. n) \ W
<1>1. SUFFICES ASSUME n \notin W PROVE FALSE
  OBVIOUS
<1>2. Wrong \in SUBSET Nat /\ Wrong # {}
  BY <1>1
<1>3. PICK m \in Wrong : \A k \in Wrong : m <= k
  <2> HIDE DEF Wrong
  <2> QED
    BY <1>2, LeastNumber
<1>4. m \in 0 .. n /\ m \notin W /\ m # 0
  OBVIOUS
<1>5. m \in 1 .. n /\ m - 1 \in 0 .. n /\ ~ (m <= m - 1)
  BY <1>4
<1>6. m - 1 \in W
  BY <1>3, <1>5
<1> QED
  BY <1>4, <1>5, <1>6

(* The members that were picked up to one of the places: they and no others, in their order, *)
(* so that two neighbours have none between them, and all of the neighbours stay so.          *)
PickStep(h, p, places, i) == IF i = 0 THEN <<>> ELSE IF i \in places THEN Append(h[i - 1], p[i]) ELSE h[i - 1]
IsPick(h, p, places) == h = [i \in 0 .. Len(p) |-> PickStep(h, p, places, i)]

Clear(places, j, k) == \A m \in j + 1 .. k - 1 : m \notin places
FromPlaces(u, p, places, i) == \A k \in 1 .. Len(u) : \E j \in 1 .. i : j \in places /\ u[k] = p[j]
AllPicked(u, p, places, i) == \A j \in 1 .. i : j \in places => \E k \in 1 .. Len(u) : u[k] = p[j]
FirstPicked(u, p, places, i) == i >= 1 /\ 1 \in places => Len(u) >= 1 /\ u[1] = p[1]
LastPicked(u, p, places, i) ==
    Len(u) >= 1 => \E j \in 1 .. i : j \in places /\ u[Len(u)] = p[j] /\ Clear(places, j, i + 1)
KeepOrder(u, p, places, i) ==
    \A k \in 1 .. Len(u) - 1 : \E j, l \in 1 .. i : /\ j \in places /\ l \in places /\ j < l /\ Clear(places, j, l)
                                                  /\ u[k] = p[j] /\ u[k + 1] = p[l]
StillNext(u, p, places, i) ==
    \A j \in 1 .. i - 1 : j \in places /\ j + 1 \in places =>
        \E k \in 1 .. Len(u) - 1 : u[k] = p[j] /\ u[k + 1] = p[j + 1]
PickedTo(u, p, places, i) ==
    /\ FromPlaces(u, p, places, i) /\ AllPicked(u, p, places, i) /\ FirstPicked(u, p, places, i)
    /\ LastPicked(u, p, places, i) /\ KeepOrder(u, p, places, i) /\ StillNext(u, p, places, i)

LEMMA NothingPicked == ASSUME NEW p, NEW places PROVE PickedTo(<<>>, p, places, 0)
<1>1. Len(<<>>) = 0
  OBVIOUS
<1> QED
  BY <1>1 DEF PickedTo, FromPlaces, AllPicked, FirstPicked, LastPicked, KeepOrder, StillNext

(* A place that is passed over, *)
LEMMA PassedOver ==
    ASSUME NEW S, NEW p, NEW places, NEW i \in Nat \ {0}, i \notin places, NEW u \in Seq(S),
           PickedTo(u, p, places, i - 1)
    PROVE  PickedTo(u, p, places, i)
<1>1. \A j \in 1 .. i : j \in places => j \in 1 .. i - 1
  OBVIOUS
<1>2. \A j \in 1 .. i - 1 : j \in 1 .. i
  OBVIOUS
<1>3. FromPlaces(u, p, places, i)
  BY <1>2 DEF PickedTo, FromPlaces
<1>4. AllPicked(u, p, places, i)
  BY <1>1 DEF PickedTo, AllPicked
<1>5. FirstPicked(u, p, places, i)
  <2>1. i >= 1 /\ 1 \in places => i - 1 >= 1
    OBVIOUS
  <2> QED
    BY <2>1 DEF PickedTo, FirstPicked
<1>6. LastPicked(u, p, places, i)
  <2> SUFFICES ASSUME Len(u) >= 1
               PROVE  \E j \in 1 .. i : j \in places /\ u[Len(u)] = p[j] /\ Clear(places, j, i + 1)
    BY DEF LastPicked
  <2>1. PICK j \in 1 .. i - 1 : j \in places /\ u[Len(u)] = p[j] /\ Clear(places, j, (i - 1) + 1)
    BY DEF PickedTo, LastPicked
  <2>2. Clear(places, j, i + 1)
    <3>1. \A m \in j + 1 .. i + 1 - 1 : m \in j + 1 .. (i - 1) + 1 - 1 \/ m = i
      OBVIOUS
    <3> QED
      BY <2>1, <3>1 DEF Clear
  <2> QED
    BY <1>2, <2>1, <2>2
<1>7. KeepOrder(u, p, places, i)
  BY <1>2 DEF PickedTo, KeepOrder
<1>8. StillNext(u, p, places, i)
  <2> SUFFICES ASSUME NEW j \in 1 .. i - 1, j \in places, j + 1 \in places
               PROVE  \E k \in 1 .. Len(u) - 1 : u[k] = p[j] /\ u[k + 1] = p[j + 1]
    BY DEF StillNext
  <2>1. j \in 1 .. (i - 1) - 1
    OBVIOUS
  <2> QED
    BY <2>1 DEF PickedTo, StillNext
<1> QED
  BY <1>3, <1>4, <1>5, <1>6, <1>7, <1>8 DEF PickedTo

(* and one that is picked. *)
LEMMA PickedOne ==
    ASSUME NEW S, NEW p, NEW places, NEW i \in Nat \ {0}, i \in places, NEW u \in Seq(S), NEW v \in Seq(S),
           IsAdded(v, u, p[i]), PickedTo(u, p, places, i - 1)
    PROVE  PickedTo(v, p, places, i)
<1>1. PICK n \in Nat : n = Len(u) /\ Len(v) = n + 1 /\ v[n + 1] = p[i] /\ \A k \in 1 .. n : v[k] = u[k]
  BY DEF IsAdded
<1>2. (\A k \in 1 .. n + 1 : k \in 1 .. n \/ k = n + 1) /\ \A k \in 1 .. n : k \in 1 .. n + 1
  OBVIOUS
<1>3. (\A j \in 1 .. i : j \in 1 .. i - 1 \/ j = i) /\ i \in 1 .. i /\ \A j \in 1 .. i - 1 : j \in 1 .. i
  OBVIOUS
<1>4. FromPlaces(v, p, places, i)
  BY <1>1, <1>2, <1>3 DEF PickedTo, FromPlaces
<1>5. AllPicked(v, p, places, i)
  <2> SUFFICES ASSUME NEW j \in 1 .. i, j \in places PROVE \E k \in 1 .. Len(v) : v[k] = p[j]
    BY DEF AllPicked
  <2>1. CASE j = i
    <3>1. n + 1 \in 1 .. Len(v)
      BY <1>1
    <3> QED
      BY <1>1, <2>1, <3>1
  <2>2. CASE j \in 1 .. i - 1
    <3>1. PICK k \in 1 .. n : u[k] = p[j]
      BY <1>1, <2>2 DEF PickedTo, AllPicked
    <3> QED
      BY <1>1, <1>2, <3>1
  <2> QED
    BY <1>3, <2>1, <2>2
<1>6. FirstPicked(v, p, places, i)
  <2> SUFFICES ASSUME 1 \in places PROVE Len(v) >= 1 /\ v[1] = p[1]
    BY DEF FirstPicked
  <2>1. CASE i = 1
    <3>1. n = 0
      <4>1. ~ \E j \in 1 .. i - 1 : TRUE
        BY <2>1
      <4>2. \A k \in 1 .. n : FALSE
        BY <1>1, <4>1 DEF PickedTo, FromPlaces
      <4> QED
        BY <4>2
    <3> QED
      BY <1>1, <2>1, <3>1
  <2>2. CASE i # 1
    <3>1. i - 1 >= 1
      BY <2>2
    <3>2. n >= 1 /\ u[1] = p[1]
      BY <1>1, <3>1 DEF PickedTo, FirstPicked
    <3> QED
      BY <1>1, <3>2
  <2> QED
    BY <2>1, <2>2
<1>7. LastPicked(v, p, places, i)
  <2>1. Clear(places, i, i + 1)
    BY DEF Clear
  <2> QED
    BY <1>1, <1>3, <2>1 DEF LastPicked
<1>8. KeepOrder(v, p, places, i)
  <2> SUFFICES ASSUME NEW k \in 1 .. Len(v) - 1
               PROVE  \E j, l \in 1 .. i : /\ j \in places /\ l \in places /\ j < l /\ Clear(places, j, l)
                                           /\ v[k] = p[j] /\ v[k + 1] = p[l]
    BY DEF KeepOrder
  <2>1. CASE k = n
    <3>1. n >= 1
      BY <2>1
    <3>2. PICK j \in 1 .. i - 1 : j \in places /\ u[n] = p[j] /\ Clear(places, j, (i - 1) + 1)
      BY <1>1, <3>1 DEF PickedTo, LastPicked
    <3>3. j < i /\ (i - 1) + 1 = i /\ v[k] = u[n]
      BY <1>1, <2>1, <3>1
    <3> QED
      BY <1>1, <1>3, <2>1, <3>2, <3>3
  <2>2. CASE k # n
    <3>1. k \in 1 .. n - 1 /\ k \in 1 .. n /\ k + 1 \in 1 .. n
      BY <1>1, <2>2
    <3>2. PICK j, l \in 1 .. i - 1 : /\ j \in places /\ l \in places /\ j < l /\ Clear(places, j, l)
                                     /\ u[k] = p[j] /\ u[k + 1] = p[l]
      BY <1>1, <3>1 DEF PickedTo, KeepOrder
    <3> QED
      BY <1>1, <1>3, <3>1, <3>2
  <2> QED
    BY <2>1, <2>2
<1>9. StillNext(v, p, places, i)
  <2> SUFFICES ASSUME NEW j \in 1 .. i - 1, j \in places, j + 1 \in places
               PROVE  \E k \in 1 .. Len(v) - 1 : v[k] = p[j] /\ v[k + 1] = p[j + 1]
    BY DEF StillNext
  <2>1. CASE j = i - 1
    <3>1. PICK m \in 1 .. n : u[m] = p[j]
      BY <1>1, <2>1 DEF PickedTo, AllPicked
    <3>2. PICK l \in 1 .. i - 1 : l \in places /\ u[n] = p[l] /\ Clear(places, l, (i - 1) + 1)
      BY <1>1, <3>1 DEF PickedTo, LastPicked
    <3>3. l = j
      <4>1. l # j => j \in l + 1 .. (i - 1) + 1 - 1
        BY <2>1
      <4> QED
        BY <3>2, <4>1 DEF Clear
    <3>4. n \in 1 .. Len(v) - 1 /\ n \in 1 .. n /\ j + 1 = i
      BY <1>1, <2>1, <3>1
    <3> QED
      BY <1>1, <3>2, <3>3, <3>4
  <2>2. CASE j # i - 1
    <3>1. j \in 1 .. (i - 1) - 1
      BY <2>2
    <3>2. PICK k \in 1 .. n - 1 : u[k] = p[j] /\ u[k + 1] = p[j + 1]
      BY <1>1, <3>1 DEF PickedTo, StillNext
    <3>3. k \in 1 .. n /\ k + 1 \in 1 .. n /\ k \in 1 .. Len(v) - 1
      BY <1>1, <3>2
    <3> QED
      BY <1>1, <3>2, <3>3
  <2> QED
    BY <2>1, <2>2
<1> QED
  BY <1>4, <1>5, <1>6, <1>7, <1>8, <1>9 DEF PickedTo

LEMMA PicksExist == ASSUME NEW S, NEW p \in Seq(S), NEW places PROVE \E h : IsPick(h, p, places)
<1> DEFINE next(i, u) == IF i \in places THEN Append(u, p[i]) ELSE u
           F == [r \in (1 .. Len(p)) \X Seq(S) |-> next(r[1], r[2])]
<1>1. PICK n \in Nat : n = Len(p)
  OBVIOUS
<1>2. F \in [(1 .. n) \X Seq(S) -> Seq(S)]
  <2>1. ASSUME NEW i \in 1 .. n, NEW u \in Seq(S) PROVE next(i, u) \in Seq(S)
    <3>1. p[i] \in S
      BY <1>1
    <3> QED
      BY <3>1, AppendIs
  <2> HIDE DEF next
  <2> QED
    BY <1>1, <2>1
<1>3. PICK h \in [0 .. n -> Seq(S)] : IsRun(h, n, F, <<>>)
  <2>1. <<>> \in Seq(S)
    OBVIOUS
  <2> HIDE DEF F
  <2> QED
    BY <1>2, <2>1, RunsExist
<1>4. ASSUME NEW i \in 0 .. n PROVE h[i] = PickStep(h, p, places, i)
  <2>1. CASE i = 0
    BY <1>3, <2>1 DEF IsRun, PickStep
  <2>2. CASE i # 0
    <3>1. i \in 1 .. n /\ i - 1 \in 0 .. n
      BY <2>2
    <3>2. PICK u \in Seq(S) : u = h[i - 1]
      BY <3>1
    <3>3. h[i] = F[<<i, u>>]
      <4> HIDE DEF F
      <4> QED
        BY <1>3, <3>1, <3>2 DEF IsRun
    <3>4. F[<<i, u>>] = next(i, u)
      <4> HIDE DEF next
      <4> QED
        BY <1>1, <3>1
    <3> QED
      BY <2>2, <3>2, <3>3, <3>4 DEF PickStep
  <2> QED
    BY <2>1, <2>2
<1>5. h = [i \in 0 .. n |-> h[i]]
  OBVIOUS
<1>6. h = [i \in 0 .. n |-> PickStep(h, p, places, i)]
  BY <1>4, <1>5
<1> QED
  BY <1>1, <1>6 DEF IsPick

LEMMA PickedIs ==
    ASSUME NEW S, NEW p \in Seq(S), NEW places
    PROVE  picked(p, places) \in Seq(S) /\ PickedTo(picked(p, places), p, places, Len(p))
<1>1. PICK h : h = CHOOSE g : IsPick(g, p, places)
  OBVIOUS
<1>2. IsPick(h, p, places)
  BY <1>1, PicksExist
<1>3. picked(p, places) = h[Len(p)]
  BY <1>1 DEF picked, IsPick, PickStep
<1>4. PICK n \in Nat : n = Len(p)
  OBVIOUS
<1> DEFINE W == {i \in 0 .. n : h[i] \in Seq(S) /\ PickedTo(h[i], p, places, i)}
<1>5. \A i \in 0 .. n : h[i] = PickStep(h, p, places, i)
  BY <1>2, <1>4 DEF IsPick
<1>6. 0 \in W
  <2>1. h[0] = <<>>
    BY <1>5 DEF PickStep
  <2>2. <<>> \in Seq(S)
    OBVIOUS
  <2>3. PickedTo(h[0], p, places, 0)
    BY <2>1, NothingPicked
  <2>4. h[0] \in Seq(S) /\ 0 \in 0 .. n
    BY <2>1, <2>2
  <2> QED
    BY <2>3, <2>4, Zenon
<1>7. ASSUME NEW i \in 1 .. n, i - 1 \in W PROVE i \in W
  <2>1. PICK u \in Seq(S) : u = h[i - 1] /\ PickedTo(u, p, places, i - 1)
    BY <1>7
  <2>2. h[i] = IF i \in places THEN Append(u, p[i]) ELSE u
    BY <1>5, <2>1 DEF PickStep
  <2>3. i \in Nat \ {0} /\ i \in 0 .. n
    OBVIOUS
  <2>4. CASE i \in places
    <3>1. p[i] \in S
      BY <1>4
    <3>2. PICK v \in Seq(S) : IsAdded(v, u, p[i])
      BY <3>1, AddOne
    <3>3. h[i] = v
      BY <2>2, <2>4, <3>2 DEF IsAdded
    <3>4. PickedTo(v, p, places, i)
      BY <2>1, <2>3, <2>4, <3>2, PickedOne
    <3> QED
      BY <2>3, <3>3, <3>4
  <2>5. CASE i \notin places
    <3>1. PickedTo(u, p, places, i)
      BY <2>1, <2>3, <2>5, PassedOver
    <3> QED
      BY <2>1, <2>2, <2>3, <2>5, <3>1
  <2> QED
    BY <2>4, <2>5
<1>8. n \in W
  <2>1. W \in SUBSET (0 .. n)
    OBVIOUS
  <2> HIDE DEF W
  <2> QED
    BY <1>6, <1>7, <2>1, Upward
<1> QED
  BY <1>3, <1>4, <1>8

(* All that are picked are the whole. *)
Copied(u, p, S, i) == u \in Seq(S) /\ Len(u) = i /\ \A k \in 1 .. i : u[k] = p[k]

LEMMA PickedAll ==
    ASSUME NEW S, NEW p \in Seq(S)
    PROVE  picked(p, DOMAIN p) = p
<1>0. PICK D : D = DOMAIN p
  OBVIOUS
<1>1. PICK h : h = CHOOSE g : IsPick(g, p, D)
  OBVIOUS
<1>2. IsPick(h, p, D)
  BY <1>1, PicksExist
<1>3. picked(p, D) = h[Len(p)]
  BY <1>1 DEF picked, IsPick, PickStep
<1>4. PICK n \in Nat : n = Len(p) /\ D = 1 .. n
  BY <1>0
<1> DEFINE W == {i \in 0 .. n : Copied(h[i], p, S, i)}
<1>5. \A i \in 0 .. n : h[i] = PickStep(h, p, D, i)
  BY <1>2, <1>4 DEF IsPick
<1>6. 0 \in W
  <2>1. h[0] = <<>>
    BY <1>5 DEF PickStep
  <2>2. <<>> \in Seq(S) /\ Len(<<>>) = 0
    OBVIOUS
  <2>3. Copied(h[0], p, S, 0) /\ 0 \in 0 .. n
    BY <2>1, <2>2 DEF Copied
  <2> QED
    BY <2>3, Zenon
<1>7. ASSUME NEW i \in 1 .. n, i - 1 \in W PROVE i \in W
  <2>1. PICK u : u = h[i - 1] /\ Copied(u, p, S, i - 1)
    BY <1>7, Zenon
  <2>2. h[i] = Append(u, p[i]) /\ p[i] \in S
    <3>1. i \in D /\ i \in 0 .. n /\ i # 0 /\ i \in 1 .. Len(p)
      BY <1>4
    <3>2. h[i] = PickStep(h, p, D, i)
      BY <1>5, <3>1
    <3>3. h[i] = Append(u, p[i])
      BY <2>1, <3>1, <3>2 DEF PickStep
    <3> QED
      BY <3>1, <3>3
  <2>3. PICK v \in Seq(S) : IsAdded(v, u, p[i])
    BY <2>1, <2>2, AddOne DEF Copied
  <2>4. h[i] = v /\ Len(v) = i /\ v[i] = p[i] /\ \A k \in 1 .. i - 1 : v[k] = p[k]
    BY <2>1, <2>2, <2>3 DEF IsAdded, Copied
  <2>5. \A k \in 1 .. i : k \in 1 .. i - 1 \/ k = i
    OBVIOUS
  <2>6. Copied(h[i], p, S, i) /\ i \in 0 .. n
    BY <2>4, <2>5 DEF Copied
  <2> QED
    BY <2>6, Zenon
<1>8. n \in W
  <2>1. W \in SUBSET (0 .. n)
    OBVIOUS
  <2> HIDE DEF W
  <2> QED
    BY <1>6, <1>7, <2>1, Upward
<1>9. h[n] \in Seq(S) /\ Len(h[n]) = Len(p) /\ \A k \in 1 .. Len(p) : h[n][k] = p[k]
  <2>1. Copied(h[n], p, S, n)
    BY <1>8, Zenon
  <2> QED
    BY <1>4, <2>1 DEF Copied
<1> QED
  BY <1>0, <1>3, <1>4, <1>9, SeqEqual

-----------------------------------------------------------------------------
(* What is kept of a column of pixels (compressActions).                   *)

Motions == {<<op, x, y>> : op \in {"M", "L"}, x \in Int \cup {NaN}, y \in Int}

LEMMA MotionIs ==
    ASSUME NEW a \in Motions
    PROVE  /\ a[1] \in {"M", "L"} /\ a[2] \in Int \cup {NaN} /\ a[3] \in Int /\ Tail(a) = <<a[2], a[3]>>
           /\ a = <<a[1], a[2], a[3]>>
<1>1. PICK op \in {"M", "L"}, x \in Int \cup {NaN}, y \in Int : a = <<op, x, y>>
  BY DEF Motions
<1> QED
  BY <1>1, TailOf

(* The pen moves to where it draws on, and never twice in a row; where it moves later on *)
(* a line has been.                                                                      *)
Penned(p) ==
    /\ Len(p) >= 1 /\ p[Len(p)][1] = "L"
    /\ \A j \in 1 .. Len(p) - 1 : p[j][1] = "M" => p[j + 1][1] = "L"
    /\ \A j \in 2 .. Len(p) : p[j][1] = "M" => \E k \in 1 .. Len(p) : p[k][1] = "L" /\ p[k][3] = p[j][3]

FromAmong(q, p) == Len(q) >= 1 /\ \A k \in 1 .. Len(q) : \E j \in 1 .. Len(p) : q[k] = p[j]
AllHeights(q, p) == \A j \in 1 .. Len(p) : \E k \in 1 .. Len(q) : q[k][3] = p[j][3]
AsHigh(q, p) == \A j \in 1 .. Len(p) : \E k, l \in 1 .. Len(q) : q[k][3] <= p[j][3] /\ p[j][3] <= q[l][3]
SameEnds(q, p) == q[1] = p[1] /\ q[Len(q)] = p[Len(p)]

LEMMA IdleDropped ==
    ASSUME NEW p \in Seq(Motions), Penned(p), NEW u, u = withoutIdle(p)
    PROVE  /\ u \in Seq(Motions) /\ Penned(u)
           /\ FromAmong(u, p) /\ AllHeights(u, p) /\ SameEnds(u, p)
<1> DEFINE idle(i) == /\ p[i][1] = "M" /\ i > 1 /\ Tail(p[i]) = Tail(p[i - 1])
                      /\ NaN \notin {p[i][2], p[i][3]}
           K == {i \in DOMAIN p : ~ idle(i)}
<1>1. PICK n \in Nat : n = Len(p) /\ DOMAIN p = 1 .. n /\ n >= 1
  BY DEF Penned
<1>2. u \in Seq(Motions) /\ PickedTo(u, p, K, n)
  <2>1. u = picked(p, K)
    BY DEF withoutIdle
  <2> HIDE DEF K
  <2> QED
    BY <1>1, <2>1, PickedIs
<1>3. ASSUME NEW i \in 1 .. n, i \notin K
      PROVE  p[i][1] = "M" /\ i > 1 /\ i - 1 \in 1 .. n /\ i - 1 \in K /\ p[i - 1][1] = "L" /\ p[i - 1][3] = p[i][3]
  <2>1. p[i][1] = "M" /\ i > 1 /\ Tail(p[i]) = Tail(p[i - 1])
    BY <1>1, <1>3
  <2>2. i - 1 \in 1 .. n /\ i - 1 \in 1 .. n - 1 /\ (i - 1) + 1 = i
    BY <2>1
  <2>3. p[i] \in Motions /\ p[i - 1] \in Motions
    BY <1>1, <2>2
  <2>4. p[i - 1][3] = p[i][3]
    <3>1. <<p[i][2], p[i][3]>> = <<p[i - 1][2], p[i - 1][3]>>
      BY <2>1, <2>3, MotionIs
    <3> QED
      BY <3>1
  <2>5. p[i - 1][1] = "L"
    <3>1. p[i - 1][1] = "M" => p[i][1] = "L"
      BY <1>1, <2>2 DEF Penned
    <3>2. p[i - 1][1] \in {"M", "L"} /\ "M" # "L"
      BY <2>3, MotionIs
    <3> QED
      BY <2>1, <3>1, <3>2
  <2>6. i - 1 \in K
    BY <1>1, <2>2, <2>5
  <2> QED
    BY <2>1, <2>2, <2>4, <2>5, <2>6
<1>4. \A i \in 1 .. n : p[i][1] = "L" => i \in K
  BY <1>1
<1>5. 1 \in K /\ n \in K /\ p[n][1] = "L"
  BY <1>1, <1>3, <1>4 DEF Penned
<1>6. K \in SUBSET (1 .. n)
  BY <1>1
<1> HIDE DEF K
<1>7. Len(u) \in Nat /\ Len(u) >= 1 /\ u[1] = p[1]
  BY <1>1, <1>2, <1>5 DEF PickedTo, FirstPicked
<1>8. u[Len(u)] = p[n]
  <2>1. PICK j \in 1 .. n : j \in K /\ u[Len(u)] = p[j] /\ Clear(K, j, n + 1)
    BY <1>2, <1>7 DEF PickedTo, LastPicked
  <2>2. j # n => n \in j + 1 .. n + 1 - 1
    OBVIOUS
  <2>3. j = n
    BY <1>5, <2>1, <2>2 DEF Clear
  <2> QED
    BY <2>1, <2>3
<1>9. FromAmong(u, p)
  BY <1>1, <1>2, <1>7 DEF FromAmong, PickedTo, FromPlaces
<1>10. ASSUME NEW j \in 1 .. n, p[j][1] = "L" PROVE \E k \in 1 .. Len(u) : u[k] = p[j]
  BY <1>2, <1>4, <1>10 DEF PickedTo, AllPicked
<1>11. AllHeights(u, p)
  <2> SUFFICES ASSUME NEW j \in 1 .. n PROVE \E k \in 1 .. Len(u) : u[k][3] = p[j][3]
    BY <1>1 DEF AllHeights
  <2>1. CASE j \in K
    BY <1>2, <2>1 DEF PickedTo, AllPicked
  <2>2. CASE j \notin K
    <3>1. j - 1 \in 1 .. n /\ p[j - 1][1] = "L" /\ p[j - 1][3] = p[j][3]
      BY <1>3, <2>2
    <3>2. PICK i \in 1 .. n : i = j - 1
      BY <3>1
    <3> QED
      BY <1>10, <3>1, <3>2
  <2> QED
    BY <2>1, <2>2
<1>12. ASSUME NEW k \in 1 .. Len(u) - 1, u[k][1] = "M" PROVE u[k + 1][1] = "L"
  <2>1. PICK j, l \in 1 .. n : /\ j \in K /\ l \in K /\ j < l /\ Clear(K, j, l)
                               /\ u[k] = p[j] /\ u[k + 1] = p[l]
    BY <1>2 DEF PickedTo, KeepOrder
  <2>2. j \in 1 .. n - 1 /\ j + 1 \in 1 .. n
    BY <2>1
  <2>3. p[j + 1][1] = "L" /\ j + 1 \in K
    BY <1>1, <1>4, <1>12, <2>1, <2>2 DEF Penned
  <2>4. l # j + 1 => j + 1 \in j + 1 .. l - 1
    BY <2>1
  <2>5. l = j + 1
    BY <2>1, <2>3, <2>4 DEF Clear
  <2> QED
    BY <2>1, <2>3, <2>5
<1>13. ASSUME NEW k \in 2 .. Len(u), u[k][1] = "M" PROVE \E l \in 1 .. Len(u) : u[l][1] = "L" /\ u[l][3] = u[k][3]
  <2>1. PICK i \in 1 .. Len(u) - 1 : i + 1 = k
    <3>1. k - 1 \in 1 .. Len(u) - 1 /\ (k - 1) + 1 = k
      BY <1>7
    <3> QED
      BY <3>1
  <2>2. PICK j, l \in 1 .. n : j < l /\ u[k] = p[l]
    BY <1>2, <2>1 DEF PickedTo, KeepOrder
  <2>3. l \in 2 .. n
    BY <2>2
  <2>4. PICK m \in 1 .. n : p[m][1] = "L" /\ p[m][3] = p[l][3]
    BY <1>1, <1>13, <2>2, <2>3 DEF Penned
  <2>5. PICK o \in 1 .. Len(u) : u[o] = p[m]
    BY <1>10, <2>4
  <2> QED
    BY <2>2, <2>4, <2>5
<1>14. Penned(u)
  BY <1>5, <1>7, <1>8, <1>12, <1>13 DEF Penned
<1>15. SameEnds(u, p)
  BY <1>1, <1>7, <1>8 DEF SameEnds
<1> QED
  BY <1>2, <1>9, <1>11, <1>14, <1>15

LEMMA DoubledStay ==
    ASSUME NEW p \in Seq(Motions), Penned(p)
    PROVE  withoutDoubled(p) = p
<1>1. PICK n \in Nat : n = Len(p) /\ DOMAIN p = 1 .. n
  OBVIOUS
<1>2. ASSUME NEW i \in 1 .. n, p[i][1] = "M", i < n, p[i + 1][1] = "M" PROVE FALSE
  <2>1. i \in 1 .. n - 1
    BY <1>2
  <2>2. p[i + 1][1] = "L" /\ "L" # "M"
    BY <1>1, <1>2, <2>1 DEF Penned
  <2> QED
    BY <1>2, <2>2
<1>3. {i \in DOMAIN p : ~ (p[i][1] = "M" /\ i < Len(p) /\ p[i + 1][1] = "M")} = DOMAIN p
  BY <1>1, <1>2
<1> QED
  BY <1>3, PickedAll DEF withoutDoubled

(* The ends of a column are heights in it. *)
LEMMA Bounds ==
    ASSUME NEW n \in Nat, NEW f, \A k \in 1 .. n : f[k] \in Int
    PROVE  \E b \in Nat : \A k \in 1 .. n : -b <= f[k] /\ f[k] <= b
<1> DEFINE W == {i \in 0 .. n : \E b \in Nat : \A k \in 1 .. i : -b <= f[k] /\ f[k] <= b}
<1>1. 0 \in W
  <2>1. \A k \in 1 .. 0 : -0 <= f[k] /\ f[k] <= 0
    OBVIOUS
  <2>2. \E b \in Nat : \A k \in 1 .. 0 : -b <= f[k] /\ f[k] <= b
    BY <2>1
  <2>3. 0 \in 0 .. n
    OBVIOUS
  <2> QED
    BY <2>2, <2>3
<1>2. ASSUME NEW i \in 1 .. n, i - 1 \in W PROVE i \in W
  <2>1. PICK b \in Nat : \A k \in 1 .. i - 1 : -b <= f[k] /\ f[k] <= b
    BY <1>2
  <2>2. f[i] \in Int
    OBVIOUS
  <2>3. PICK a \in Nat : -a <= f[i] /\ f[i] <= a /\ b <= a
    <3>1. PICK y \in Int : y = f[i]
      BY <2>2
    <3>2. PICK d \in Nat : -d <= y /\ y <= d
      <4>1. CASE y \in Nat
        <5>1. -y <= y /\ y <= y
          BY <4>1
        <5> QED
          BY <4>1, <5>1
      <4>2. CASE y \notin Nat
        <5>1. -y \in Nat /\ -(-y) <= y /\ y <= -y
          BY <4>2
        <5> QED
          BY <5>1
      <4> QED
        BY <4>1, <4>2
    <3>3. b + d \in Nat /\ -(b + d) <= y /\ y <= b + d /\ b <= b + d
      BY <3>2
    <3> QED
      BY <3>1, <3>3
  <2>4. \A k \in 1 .. i : -a <= f[k] /\ f[k] <= a
    <3> SUFFICES ASSUME NEW k \in 1 .. i PROVE -a <= f[k] /\ f[k] <= a
      OBVIOUS
    <3>1. CASE k = i
      BY <2>3, <3>1
    <3>2. CASE k # i
      <4>1. k \in 1 .. i - 1 /\ k \in 1 .. n
        BY <3>2
      <4>2. f[k] \in Int /\ -b <= f[k] /\ f[k] <= b
        BY <2>1, <4>1
      <4> QED
        BY <2>3, <4>2
    <3> QED
      BY <3>1, <3>2
  <2>5. i \in 0 .. n
    OBVIOUS
  <2> QED
    BY <2>4, <2>5
<1>3. n \in W
  <2>1. W \in SUBSET (0 .. n)
    OBVIOUS
  <2> HIDE DEF W
  <2> QED
    BY <1>1, <1>2, <2>1, Upward
<1> QED
  BY <1>3

Within(T, b) == \A t \in T : -b <= t /\ t <= b

LEMMA Extremes ==
    ASSUME NEW b \in Nat, NEW T \in SUBSET Int, T # {}, Within(T, b)
    PROVE  /\ Min(T) \in T /\ \A t \in T : Min(T) <= t
           /\ Max(T) \in T /\ \A t \in T : t <= Max(T)
<1> DEFINE Up == {t + b : t \in T}
           Down == {b - t : t \in T}
<1>1. PICK m \in T : \A t \in T : m <= t
  <2>1. Up \in SUBSET Nat /\ Up # {}
    <3>1. \A t \in T : t + b \in Nat
      BY DEF Within
    <3> QED
      BY <3>1
  <2>2. PICK u \in Up : \A v \in Up : u <= v
    <3> HIDE DEF Up
    <3> QED
      BY <2>1, LeastNumber
  <2>3. PICK m \in T : u = m + b
    OBVIOUS
  <2>4. ASSUME NEW t \in T PROVE m <= t
    <3>1. t + b \in Up
      OBVIOUS
    <3>2. m + b <= t + b
      BY <2>2, <2>3, <3>1
    <3> QED
      BY <3>2
  <2> QED
    BY <2>4
<1>2. PICK l \in T : \A t \in T : t <= l
  <2>1. Down \in SUBSET Nat /\ Down # {}
    <3>1. \A t \in T : b - t \in Nat
      BY DEF Within
    <3> QED
      BY <3>1
  <2>2. PICK u \in Down : \A v \in Down : u <= v
    <3> HIDE DEF Down
    <3> QED
      BY <2>1, LeastNumber
  <2>3. PICK k \in T : u = b - k
    OBVIOUS
  <2>4. ASSUME NEW t \in T PROVE t <= k
    <3>1. b - t \in Down
      OBVIOUS
    <3>2. b - k <= b - t
      BY <2>2, <2>3, <3>1
    <3>3. k \in Int /\ t \in Int
      OBVIOUS
    <3> HIDE DEF Down
    <3> QED
      BY <3>2, <3>3
  <2> QED
    BY <2>4
<1>3. Min(T) \in T /\ \A t \in T : Min(T) <= t
  BY <1>1 DEF Min
<1>4. Max(T) \in T /\ \A t \in T : t <= Max(T)
  BY <1>2 DEF Max
<1> QED
  BY <1>3, <1>4

LEMMA LossyKeeps ==
    ASSUME NEW p \in Seq(Motions), Penned(p), NEW q, q = lossy(p)
    PROVE  q \in Seq(Motions) /\ FromAmong(q, p) /\ AsHigh(q, p)
<1>1. PICK n \in Nat : n = Len(p) /\ DOMAIN p = 1 .. n /\ n >= 1
  BY DEF Penned
<1>2. PICK lines : lines = {i \in DOMAIN p : p[i][1] = "L"}
  OBVIOUS
<1>3. lines \in SUBSET (1 .. n) /\ n \in lines
  BY <1>1, <1>2 DEF Penned
<1>4. \A i \in 1 .. n : p[i] \in Motions /\ p[i][3] \in Int /\ p[i][3] # NaN
  BY <1>1, MotionIs, ChartsAssumption
<1>5. PICK first : first = Min(lines)
  OBVIOUS
<1>6. first \in lines
  <2>1. lines \in SUBSET Nat /\ lines # {}
    BY <1>3
  <2> QED
    BY <1>5, <2>1, MinIs
<1>7. PICK ys : ys = {p[i][3] : i \in lines} \ {NaN}
  OBVIOUS
<1>8. ys \in SUBSET Int /\ (\A i \in lines : p[i][3] \in ys) /\ \A y \in ys : \E i \in lines : p[i][3] = y
  BY <1>3, <1>4, <1>7
<1>9. PICK low, high : low = Min(ys) /\ high = Max(ys)
  OBVIOUS
<1>10. low \in ys /\ high \in ys /\ \A y \in ys : low <= y /\ y <= high
  <2>1. PICK f : f = [i \in 1 .. n |-> p[i][3]]
    OBVIOUS
  <2>2. \A i \in 1 .. n : f[i] = p[i][3] /\ f[i] \in Int
    BY <1>4, <2>1
  <2>3. PICK b \in Nat : \A k \in 1 .. n : -b <= f[k] /\ f[k] <= b
    BY <2>2, Bounds
  <2>4. Within(ys, b)
    BY <1>3, <1>8, <2>2, <2>3 DEF Within
  <2>5. ys # {}
    BY <1>3, <1>8
  <2>6. ys \in SUBSET Int
    BY <1>8
  <2>7. Min(ys) \in ys /\ (\A t \in ys : Min(ys) <= t) /\ Max(ys) \in ys /\ \A t \in ys : t <= Max(ys)
    BY <2>4, <2>5, <2>6, Extremes
  <2> QED
    BY <1>9, <2>7
<1>11. ASSUME NEW y \in ys, NEW T, T = {i \in lines : p[i][3] = y}
       PROVE  Min(T) \in lines /\ p[Min(T)][3] = y
  <2>1. T \subseteq lines /\ lines \subseteq Nat
    BY <1>3, <1>11
  <2>2. T # {}
    BY <1>8, <1>11
  <2>3. Min(T) \in T
    BY <2>1, <2>2, MinIs
  <2> QED
    BY <1>11, <2>3
<1>12. PICK a, z \in lines : /\ a = Min({i \in lines : p[i][3] = low}) /\ p[a][3] = low
                             /\ z = Min({i \in lines : p[i][3] = high}) /\ p[z][3] = high
  <2>1. PICK A, Z : A = {i \in lines : p[i][3] = low} /\ Z = {i \in lines : p[i][3] = high}
    OBVIOUS
  <2>2. Min(A) \in lines /\ p[Min(A)][3] = low /\ Min(Z) \in lines /\ p[Min(Z)][3] = high
    BY <1>10, <1>11, <2>1
  <2> QED
    BY <2>1, <2>2
<1>13. PICK W : W = {i \in {1} : p[i][1] = "M"} \cup {a, z}
  OBVIOUS
<1>14. q = picked(p, W)
  <2>1. p[first][3] # NaN
    BY <1>3, <1>4, <1>6
  <2> QED
    BY <1>2, <1>5, <1>7, <1>9, <1>12, <1>13, <2>1 DEF lossy
<1>15. q \in Seq(Motions) /\ PickedTo(q, p, W, n)
  BY <1>1, <1>14, PickedIs
<1>16. ASSUME NEW j \in 1 .. n, j \in W PROVE \E k \in 1 .. Len(q) : q[k] = p[j]
  BY <1>15, <1>16 DEF PickedTo, AllPicked
<1>17. PICK k \in 1 .. Len(q) : q[k][3] = low
  <2>1. a \in W /\ a \in 1 .. n
    BY <1>3, <1>13
  <2>2. PICK k \in 1 .. Len(q) : q[k] = p[a]
    BY <1>16, <2>1
  <2> QED
    BY <1>12, <2>2
<1>18. PICK l \in 1 .. Len(q) : q[l][3] = high
  <2>1. z \in W /\ z \in 1 .. n
    BY <1>3, <1>13
  <2>2. PICK l \in 1 .. Len(q) : q[l] = p[z]
    BY <1>16, <2>1
  <2> QED
    BY <1>12, <2>2
<1>19. FromAmong(q, p)
  <2>1. Len(q) >= 1
    BY <1>15, <1>17
  <2> QED
    BY <1>1, <1>15, <2>1 DEF FromAmong, PickedTo, FromPlaces
<1>20. ASSUME NEW j \in lines
       PROVE  \E r, m \in 1 .. Len(q) : q[r][3] <= p[j][3] /\ p[j][3] <= q[m][3]
  <2>1. low <= p[j][3] /\ p[j][3] <= high
    BY <1>8, <1>10
  <2> QED
    BY <1>17, <1>18, <2>1
<1>21. ASSUME NEW j \in 1 .. n
       PROVE  \E r, m \in 1 .. Len(q) : q[r][3] <= p[j][3] /\ p[j][3] <= q[m][3]
  <2>1. CASE p[j][1] = "L"
    <3>1. j \in lines
      BY <1>1, <1>2, <2>1
    <3> QED
      BY <1>20, <3>1
  <2>2. CASE p[j][1] = "M" /\ j = 1
    <3>1. PICK r \in 1 .. Len(q) : q[r] = p[j]
      BY <1>13, <1>16, <2>2
    <3>2. q[r][3] <= p[j][3] /\ p[j][3] <= q[r][3]
      BY <1>4, <3>1
    <3> QED
      BY <3>2
  <2>3. CASE p[j][1] = "M" /\ j # 1
    <3>1. PICK m \in 1 .. n : p[m][1] = "L" /\ p[m][3] = p[j][3]
      <4>1. j \in 2 .. n
        BY <2>3
      <4> QED
        BY <1>1, <2>3, <4>1 DEF Penned
    <3>2. m \in lines
      BY <1>1, <1>2, <3>1
    <3> QED
      BY <1>20, <3>1, <3>2
  <2>4. p[j][1] \in {"M", "L"}
    BY <1>4, MotionIs
  <2> QED
    BY <2>1, <2>2, <2>3, <2>4
<1>22. AsHigh(q, p)
  BY <1>1, <1>21 DEF AsHigh
<1> QED
  BY <1>15, <1>19, <1>22

(* What is sent of a column is of it, as high and as low; where nothing may be lost its first *)
(* and its last call stay what they are.                                                      *)
Sent(q, p, whole) ==
    q \in Seq(Motions) /\ FromAmong(q, p) /\ AsHigh(q, p) /\ (whole => SameEnds(q, p))

LEMMA AllIsSent ==
    ASSUME NEW p \in Seq(Motions), Len(p) >= 1, NEW whole
    PROVE  Sent(p, p, whole)
<1>1. \A j \in 1 .. Len(p) : p[j][3] \in Int
  BY MotionIs
<1>2. \A j \in 1 .. Len(p) : p[j][3] <= p[j][3]
  BY <1>1
<1> QED
  BY <1>2 DEF Sent, FromAmong, AsHigh, SameEnds

LEMMA CompressedIs ==
    ASSUME NEW p \in Seq(Motions), Len(p) = 1 \/ Penned(p), NEW whole,
           NEW q, q = compressActions(p, whole)
    PROVE  Sent(q, p, whole)
<1>1. CASE Len(p) = 1
  <2>1. q = p
    BY <1>1 DEF compressActions
  <2>2. Sent(p, p, whole)
    BY <1>1, AllIsSent
  <2> QED
    BY <2>1, <2>2
<1>2. CASE Len(p) # 1
  <2>1. Penned(p) /\ ~ (Len(p) <= 1)
    <3>1. Penned(p)
      BY <1>2
    <3>2. Len(p) \in Nat /\ Len(p) >= 1
      BY <3>1 DEF Penned
    <3>3. PICK n : n = Len(p)
      OBVIOUS
    <3>4. ~ (n <= 1)
      BY <1>2, <3>2, <3>3
    <3> QED
      BY <3>1, <3>3, <3>4, Zenon
  <2>2. PICK u : u = withoutIdle(p)
    OBVIOUS
  <2>3. u \in Seq(Motions) /\ Penned(u) /\ FromAmong(u, p) /\ AllHeights(u, p) /\ SameEnds(u, p)
    BY <2>1, <2>2, IdleDropped
  <2>4. q = compressed(u, whole)
    BY <2>1, <2>2, <2>3, DoubledStay DEF compressActions
  <2>5. Len(u) >= 1
    BY <2>3 DEF Penned
  <2>6. Sent(q, u, whole)
    <3>1. CASE whole \/ Len(u) <= 2
      <4>1. q = u
        BY <2>4, <3>1 DEF compressed
      <4> QED
        BY <2>3, <2>5, <4>1, AllIsSent
    <3>2. CASE ~ (whole \/ Len(u) <= 2)
      <4>1. q = lossy(u)
        BY <2>4, <3>2 DEF compressed
      <4> QED
        BY <2>3, <3>2, <4>1, LossyKeeps DEF Sent
    <3> QED
      BY <3>1, <3>2
  <2>7. FromAmong(q, p)
    BY <2>3, <2>6 DEF Sent, FromAmong
  <2>8. AsHigh(q, p)
    <3> SUFFICES ASSUME NEW j \in 1 .. Len(p)
                 PROVE  \E k, l \in 1 .. Len(q) : q[k][3] <= p[j][3] /\ p[j][3] <= q[l][3]
      BY DEF AsHigh
    <3>1. PICK i \in 1 .. Len(u) : u[i][3] = p[j][3]
      BY <2>3 DEF AllHeights
    <3> QED
      BY <2>6, <3>1 DEF Sent, AsHigh
  <2>9. whole => SameEnds(q, p)
    BY <2>3, <2>6 DEF Sent, SameEnds
  <2> QED
    BY <2>6, <2>7, <2>8, <2>9 DEF Sent
<1> QED
  BY <1>1, <1>2

-----------------------------------------------------------------------------
(* What the proxy lets through (addAction, flushActions).                  *)

LEMMA RoundIs ==
    ASSUME NEW x \in Int \cup {NaN}
    PROVE  /\ Round(x) \in Int <=> x \in Int
           /\ x \in Int => x <= 2 * Round(x)
           /\ x = NaN => Round(x) = NaN
<1>1. NaN \notin Int
  BY ChartsAssumption
<1>2. ASSUME x \in Int PROVE Round(x) \in Int /\ x <= 2 * Round(x)
  <2>1. PICK h : h = (x + 1) \div 2
    OBVIOUS
  <2>2. h \in Int /\ h * 2 <= x + 1 /\ x + 1 < (h + 1) * 2
    BY <1>2, <2>1, Quotient
  <2>3. Round(x) = h
    BY <1>1, <1>2, <2>1 DEF Round
  <2> QED
    BY <1>2, <2>2, <2>3
<1>3. x = NaN => Round(x) = NaN
  BY DEF Round
<1> QED
  BY <1>1, <1>2, <1>3

LEMMA RoundGrows ==
    ASSUME NEW x \in Int, NEW y \in Int, x <= y
    PROVE  Round(x) <= Round(y)
<1>1. x # NaN /\ y # NaN
  BY ChartsAssumption
<1>2. PICK g, h : g = (x + 1) \div 2 /\ h = (y + 1) \div 2
  OBVIOUS
<1>3. g \in Int /\ g * 2 <= x + 1 /\ h \in Int /\ y + 1 < (h + 1) * 2
  BY <1>2, Quotient
<1>4. g <= h
  BY <1>3
<1> QED
  BY <1>1, <1>2, <1>4 DEF Round

(* The column of pixels of a call. *)
Col(p, j) == Round(p[j][2])
Long(p, j, q, k) == Col(q, k) - Col(p, j) > 1 \/ Col(p, j) - Col(q, k) > 1
HasX(p, j) == p[j][2] \in Int

(* The calls of a fill come in the order of their x, of which only the first may have none; *)
(* the pen moves to where it draws a line in the same place, from the end of a line as high. *)
Moves(P, k) ==
    /\ k < Len(P) /\ P[k + 1][1] = "L" /\ HasX(P, k) /\ P[k + 1][2] = P[k][2]
    /\ k > 1 /\ HasX(P, k - 1) => P[k - 1][1] = "L" /\ P[k - 1][3] = P[k][3]
Shaped(P) ==
    /\ P \in Seq(Motions)
    /\ \A k \in 2 .. Len(P) : HasX(P, k)
    /\ \A j, k \in 1 .. Len(P) : j <= k /\ HasX(P, j) => P[j][2] <= P[k][2]
    /\ \A k \in 1 .. Len(P) : P[k][1] = "M" => Moves(P, k)

LEMMA ColIs ==
    ASSUME NEW p \in Seq(Motions), NEW j \in 1 .. Len(p)
    PROVE  /\ p[j] \in Motions /\ p[j][1] \in {"M", "L"} /\ p[j][2] \in Int \cup {NaN} /\ p[j][3] \in Int
           /\ Col(p, j) \in Int <=> HasX(p, j)
           /\ HasX(p, j) => p[j][2] <= 2 * Col(p, j)
           /\ ~ HasX(p, j) => Col(p, j) = NaN
<1>1. p[j] \in Motions
  OBVIOUS
<1>2. PICK x : x = p[j][2]
  OBVIOUS
<1>3. x \in Int \cup {NaN} /\ p[j][1] \in {"M", "L"} /\ p[j][3] \in Int
  BY <1>1, <1>2, MotionIs
<1>4. (Round(x) \in Int <=> x \in Int) /\ (x \in Int => x <= 2 * Round(x)) /\ (x = NaN => Round(x) = NaN)
  BY <1>3, RoundIs
<1> QED
  BY <1>1, <1>2, <1>3, <1>4 DEF Col, HasX

(* The calls from one to another that are in one column. *)
Segment(s, P, a, i, r) ==
    /\ s \in Seq(Motions) /\ Len(s) = i - a
    /\ \A j \in 1 .. i - a : s[j] = P[a + j] /\ Col(P, a + j) = r
Ends(P, i) == i < Len(P) => Col(P, i + 1) # Col(P, i)

LEMMA SegmentIsPenned ==
    ASSUME NEW P, Shaped(P), NEW a \in Nat, NEW i \in Nat, a < i, i <= Len(P), Ends(P, i),
           NEW r, NEW s, Segment(s, P, a, i, r), Len(s) # 1
    PROVE  Penned(s)
<1>1. PICK n \in Nat : n = i - a /\ n = Len(s) /\ n >= 2 /\ a + n = i
  <2>1. i - a \in Nat /\ i - a >= 1 /\ a + (i - a) = i /\ Len(s) = i - a
    BY DEF Segment
  <2> QED
    BY <2>1
<1>2. \A j \in 1 .. n : s[j] = P[a + j] /\ Col(P, a + j) = r /\ a + j \in 1 .. Len(P)
  BY <1>1 DEF Segment, Shaped
<1>3. P \in Seq(Motions) /\ \A k \in 1 .. Len(P) : P[k][1] = "M" => Moves(P, k)
  BY DEF Shaped
<1>4. s[n][1] = "L"
  <2>1. s[n] = P[i] /\ i \in 1 .. Len(P)
    BY <1>1, <1>2
  <2>2. P[i][1] = "M" => FALSE
    <3>1. P[i][1] = "M" => i < Len(P) /\ P[i + 1][2] = P[i][2]
      BY <1>3, <2>1 DEF Moves
    <3> QED
      BY <3>1 DEF Ends, Col
  <2>3. P[i][1] \in {"M", "L"}
    BY <1>3, <2>1, ColIs
  <2> QED
    BY <2>1, <2>2, <2>3
<1>5. ASSUME NEW j \in 1 .. n - 1, s[j][1] = "M" PROVE s[j + 1][1] = "L"
  <2>1. j \in 1 .. n /\ j + 1 \in 1 .. n /\ a + (j + 1) = (a + j) + 1
    BY <1>1
  <2>2. P[(a + j) + 1][1] = "L"
    BY <1>2, <1>3, <1>5, <2>1 DEF Moves
  <2> QED
    BY <1>2, <2>1, <2>2
<1>6. ASSUME NEW j \in 2 .. n, s[j][1] = "M" PROVE \E k \in 1 .. n : s[k][1] = "L" /\ s[k][3] = s[j][3]
  <2>1. PICK k \in 1 .. n : k = j - 1 /\ a + k = (a + j) - 1 /\ a + j > 1 /\ j \in 1 .. n
    <3>1. j - 1 \in 1 .. n /\ a + (j - 1) = (a + j) - 1 /\ a + j > 1 /\ j \in 1 .. n
      BY <1>1
    <3> QED
      BY <3>1
  <2>2. s[j] = P[a + j] /\ s[k] = P[a + k] /\ Col(P, a + k) = Col(P, a + j)
    BY <1>2, <2>1
  <2>3. Moves(P, a + j)
    BY <1>2, <1>3, <1>6, <2>1, <2>2
  <2>4. HasX(P, a + k)
    <3>1. HasX(P, a + j) /\ a + j \in 1 .. Len(P) /\ a + k \in 1 .. Len(P)
      BY <1>2, <2>1, <2>3 DEF Moves
    <3>2. (Col(P, a + j) \in Int <=> HasX(P, a + j)) /\ (Col(P, a + k) \in Int <=> HasX(P, a + k))
      BY <1>3, <3>1, ColIs
    <3> QED
      BY <2>2, <3>1, <3>2
  <2>5. P[a + k][1] = "L" /\ P[a + k][3] = P[a + j][3]
    BY <2>1, <2>3, <2>4 DEF Moves
  <2> QED
    BY <2>2, <2>5
<1> QED
  BY <1>1, <1>4, <1>5, <1>6 DEF Penned

(* What was let through of the first calls: only calls of theirs, as high and as low in every    *)
(* column, and no line over more than a column that is not a line of theirs.                     *)
Members(o, P, a) == \A k \in 1 .. Len(o) : \E j \in 1 .. a : o[k] = P[j]
Heights(o, P, a) ==
    \A j \in 1 .. a : \E k, l \in 1 .. Len(o) : /\ Col(o, k) = Col(P, j) /\ Col(o, l) = Col(P, j)
                                              /\ o[k][3] <= P[j][3] /\ P[j][3] <= o[l][3]
LongLine(o, k) == o[k + 1][1] = "L" /\ HasX(o, k) /\ HasX(o, k + 1) /\ Long(o, k, o, k + 1)
LongLines(o, P, a) ==
    \A k \in 1 .. Len(o) - 1 : LongLine(o, k) => \E j \in 1 .. a - 1 : o[k] = P[j] /\ o[k + 1] = P[j + 1]
HasXOn(o) == \A k \in 1 .. Len(o) - 1 : HasX(o, k) => HasX(o, k + 1)
LastColumn(o, P, a) == a >= 1 => Len(o) >= 1 /\ Col(o, Len(o)) = Col(P, a)
GapAfter(P, a) == a >= 1 /\ a < Len(P) /\ HasX(P, a) /\ Col(P, a + 1) - Col(P, a) > 1
LastCall(o, P, a) == GapAfter(P, a) => o[Len(o)] = P[a]
Out(o, P, a) ==
    /\ o \in Seq(Motions) /\ Members(o, P, a) /\ Heights(o, P, a) /\ LongLines(o, P, a)
    /\ HasXOn(o) /\ LastColumn(o, P, a) /\ LastCall(o, P, a)

LEMMA NothingOut == ASSUME NEW P PROVE Out(<<>>, P, 0)
<1>1. <<>> \in Seq(Motions) /\ Len(<<>>) = 0
  OBVIOUS
<1> QED
  BY <1>1 DEF Out, Members, Heights, LongLines, HasXOn, LastColumn, LastCall, GapAfter

(* A column that is flushed is let through, too. *)
LEMMA Flushed ==
    ASSUME NEW P, Shaped(P), NEW a \in Nat, NEW i \in Nat, a < i, i <= Len(P),
           NEW r, NEW s, Segment(s, P, a, i, r), NEW o, Out(o, P, a),
           NEW whole, GapAfter(P, a) => whole, GapAfter(P, i) => whole,
           NEW t, Sent(t, s, whole), NEW v, v = o \o t
    PROVE  Out(v, P, i)
<1>1. PICK n, l, m \in Nat : n = i - a /\ n >= 1 /\ n = Len(s) /\ l = Len(o) /\ m = Len(t) /\ m >= 1
  <2>1. i - a \in Nat /\ i - a >= 1 /\ Len(s) = i - a
    BY DEF Segment
  <2>2. Len(o) \in Nat /\ Len(t) \in Nat /\ Len(t) >= 1
    BY DEF Out, Sent, FromAmong
  <2> QED
    BY <2>1, <2>2
<1>2. P \in Seq(Motions) /\ o \in Seq(Motions) /\ t \in Seq(Motions) /\ s \in Seq(Motions)
  BY DEF Shaped, Out, Sent, Segment
<1>3. v \in Seq(Motions) /\ Len(v) = l + m /\ \A k \in 1 .. l + m : v[k] = IF k <= l THEN o[k] ELSE t[k - l]
  BY <1>1, <1>2, ConcatProperties
<1>4. \A k \in 1 .. l : k \in 1 .. l + m /\ v[k] = o[k]
  <2> SUFFICES ASSUME NEW k \in 1 .. l PROVE k \in 1 .. l + m /\ v[k] = o[k]
    OBVIOUS
  <2>1. k \in 1 .. l + m /\ k <= l
    OBVIOUS
  <2> QED
    BY <1>3, <2>1
<1>5. \A k \in 1 .. m : l + k \in 1 .. l + m /\ v[l + k] = t[k]
  <2> SUFFICES ASSUME NEW k \in 1 .. m PROVE l + k \in 1 .. l + m /\ v[l + k] = t[k]
    OBVIOUS
  <2>1. l + k \in 1 .. l + m /\ ~ (l + k <= l) /\ (l + k) - l = k
    OBVIOUS
  <2> QED
    BY <1>3, <2>1
<1>6. \A k \in 1 .. l + m : k \in 1 .. l \/ \E h \in 1 .. m : k = l + h
  <2> SUFFICES ASSUME NEW k \in 1 .. l + m, k \notin 1 .. l PROVE \E h \in 1 .. m : k = l + h
    OBVIOUS
  <2>1. k - l \in 1 .. m /\ k = l + (k - l)
    OBVIOUS
  <2> QED
    BY <2>1
<1>7. ASSUME NEW k \in 1 .. m
      PROVE  /\ \E j \in 1 .. n : t[k] = P[a + j] /\ a + j \in 1 .. i
             /\ Col(t, k) = r /\ Col(v, l + k) = r
  <2>1. PICK j \in 1 .. n : t[k] = s[j]
    BY <1>1 DEF Sent, FromAmong
  <2>2. s[j] = P[a + j] /\ Col(P, a + j) = r
    BY <1>1 DEF Segment
  <2>3. a + j \in 1 .. i
    BY <1>1
  <2> QED
    BY <1>5, <2>1, <2>2, <2>3 DEF Col
<1>8. Members(v, P, i)
  <2> SUFFICES ASSUME NEW k \in 1 .. l + m PROVE \E j \in 1 .. i : v[k] = P[j]
    BY <1>3 DEF Members
  <2>1. CASE k \in 1 .. l
    <3>1. PICK j \in 1 .. a : o[k] = P[j]
      BY <1>1, <2>1 DEF Out, Members
    <3>2. j \in 1 .. i
      OBVIOUS
    <3> QED
      BY <1>4, <2>1, <3>1, <3>2
  <2>2. CASE k \notin 1 .. l
    <3>1. PICK h \in 1 .. m : k = l + h
      BY <1>6, <2>2
    <3>2. PICK j \in 1 .. n : t[h] = P[a + j] /\ a + j \in 1 .. i
      BY <1>7
    <3> QED
      BY <1>5, <3>1, <3>2
  <2> QED
    BY <2>1, <2>2
<1>9. Heights(v, P, i)
  <2> SUFFICES ASSUME NEW j \in 1 .. i
               PROVE  \E k, h \in 1 .. Len(v) : /\ Col(v, k) = Col(P, j) /\ Col(v, h) = Col(P, j)
                                                 /\ v[k][3] <= P[j][3] /\ P[j][3] <= v[h][3]
    BY DEF Heights
  <2>1. CASE j \in 1 .. a
    <3>1. PICK k, h \in 1 .. l : /\ Col(o, k) = Col(P, j) /\ Col(o, h) = Col(P, j)
                                 /\ o[k][3] <= P[j][3] /\ P[j][3] <= o[h][3]
      BY <1>1, <2>1 DEF Out, Heights
    <3>2. k \in 1 .. Len(v) /\ h \in 1 .. Len(v) /\ v[k] = o[k] /\ v[h] = o[h]
      BY <1>3, <1>4
    <3> QED
      BY <3>1, <3>2 DEF Col
  <2>2. CASE j \notin 1 .. a
    <3>1. PICK d \in 1 .. n : d = j - a /\ a + d = j
      <4>1. j - a \in 1 .. n /\ a + (j - a) = j
        BY <1>1, <2>2
      <4> QED
        BY <4>1
    <3>2. s[d] = P[j] /\ Col(P, j) = r
      BY <1>1, <3>1 DEF Segment
    <3>3. PICK k, h \in 1 .. m : t[k][3] <= s[d][3] /\ s[d][3] <= t[h][3]
      BY <1>1, <3>1 DEF Sent, AsHigh
    <3>4. Col(v, l + k) = r /\ Col(v, l + h) = r
      BY <1>7
    <3>5. l + k \in 1 .. Len(v) /\ l + h \in 1 .. Len(v) /\ v[l + k] = t[k] /\ v[l + h] = t[h]
      BY <1>3, <1>5
    <3> QED
      BY <3>2, <3>3, <3>4, <3>5
  <2> QED
    BY <2>1, <2>2
<1>10. ASSUME l >= 1
       PROVE  /\ a >= 1 /\ a \in 1 .. Len(P) /\ a + 1 \in 1 .. Len(P) /\ a + 1 \in 2 .. Len(P)
              /\ Col(v, l) = Col(P, a) /\ v[l] = o[l] /\ l \in 1 .. l
              /\ HasX(P, a + 1) /\ Col(P, a + 1) = r /\ Col(v, l + 1) = r /\ v[l + 1] = t[1] /\ 1 \in 1 .. m
              /\ r \in Int
  <2>1. l \in 1 .. l /\ 1 \in 1 .. m
    BY <1>1, <1>10
  <2>2. \E j \in 1 .. a : o[l] = P[j]
    BY <1>1, <2>1 DEF Out, Members
  <2>3. a >= 1 /\ a \in 1 .. Len(P) /\ a + 1 \in 2 .. Len(P) /\ a + 1 \in 1 .. Len(P)
    BY <2>2
  <2>4. Col(o, l) = Col(P, a)
    BY <1>1, <2>3 DEF Out, LastColumn
  <2>5. v[l] = o[l] /\ Col(v, l) = Col(o, l)
    BY <1>4, <2>1 DEF Col
  <2>6. HasX(P, a + 1)
    BY <2>3 DEF Shaped
  <2>7. Col(P, a + 1) = r
    <3>1. 1 \in 1 .. n
      BY <1>1
    <3> QED
      BY <1>1, <3>1 DEF Segment
  <2>8. r \in Int
    BY <1>2, <2>3, <2>6, <2>7, ColIs
  <2> QED
    BY <1>5, <1>7, <2>1, <2>3, <2>4, <2>5, <2>6, <2>7, <2>8
<1>11. LongLines(v, P, i)
  <2> SUFFICES ASSUME NEW k \in 1 .. Len(v) - 1, LongLine(v, k)
               PROVE  \E j \in 1 .. i - 1 : v[k] = P[j] /\ v[k + 1] = P[j + 1]
    BY DEF LongLines
  <2>1. CASE k < l
    <3>1. k \in 1 .. l - 1 /\ k \in 1 .. l /\ k + 1 \in 1 .. l
      BY <2>1
    <3>2. v[k] = o[k] /\ v[k + 1] = o[k + 1]
      BY <1>4, <3>1
    <3>3. LongLine(o, k)
      BY <3>2 DEF LongLine, HasX, Long, Col
    <3>4. PICK j \in 1 .. a - 1 : o[k] = P[j] /\ o[k + 1] = P[j + 1]
      BY <1>1, <3>1, <3>3 DEF Out, LongLines
    <3>5. j \in 1 .. i - 1
      OBVIOUS
    <3> QED
      BY <3>2, <3>4, <3>5
  <2>2. CASE k = l
    <3>1. l >= 1
      BY <2>2
    <3>2. HasX(v, l) /\ Long(v, l, v, l + 1)
      BY <2>2 DEF LongLine
    <3>3. HasX(P, a)
      <4>1. Col(v, l) \in Int <=> HasX(v, l)
        <5>1. l \in 1 .. Len(v)
          BY <1>3, <3>1
        <5> QED
          BY <1>3, <5>1, ColIs
      <4>2. Col(P, a) \in Int <=> HasX(P, a)
        BY <1>2, <1>10, <3>1, ColIs
      <4> QED
        BY <1>10, <3>1, <3>2, <4>1, <4>2
    <3>4. Col(P, a) \in Int /\ Col(P, a) <= r
      <4>1. P[a][2] <= P[a + 1][2]
        <5>1. a <= a + 1
          OBVIOUS
        <5> QED
          BY <1>10, <3>1, <3>3, <5>1 DEF Shaped
      <4>2. P[a][2] \in Int /\ P[a + 1][2] \in Int
        BY <1>10, <3>1, <3>3 DEF HasX
      <4>3. Round(P[a][2]) <= Round(P[a + 1][2])
        BY <4>1, <4>2, RoundGrows
      <4>4. Col(P, a) \in Int
        BY <1>2, <1>10, <3>1, <3>3, ColIs
      <4> QED
        BY <1>10, <3>1, <4>3, <4>4 DEF Col
    <3>5. r - Col(P, a) > 1
      <4>1. Col(v, l + 1) - Col(v, l) > 1 \/ Col(v, l) - Col(v, l + 1) > 1
        BY <3>2 DEF Long
      <4>2. r - Col(P, a) > 1 \/ Col(P, a) - r > 1
        BY <1>10, <3>1, <4>1
      <4> QED
        BY <1>10, <3>1, <3>4, <4>2
    <3>6. GapAfter(P, a)
      BY <1>10, <3>1, <3>3, <3>5 DEF GapAfter
    <3>7. o[l] = P[a]
      BY <1>1, <3>6 DEF Out, LastCall
    <3>8. t[1] = P[a + 1]
      <4>1. t[1] = s[1]
        BY <3>6 DEF Sent, SameEnds
      <4>2. 1 \in 1 .. n
        BY <1>1
      <4> QED
        BY <1>1, <4>1, <4>2 DEF Segment
    <3>9. a \in 1 .. i - 1
      BY <1>10, <3>1
    <3> QED
      BY <1>10, <2>2, <3>1, <3>7, <3>8, <3>9
  <2>3. CASE k > l
    <3>1. k - l \in 1 .. m /\ k + 1 - l \in 1 .. m /\ l + (k - l) = k /\ l + (k + 1 - l) = k + 1
      BY <1>3, <2>3
    <3>2. Col(v, k) = r /\ Col(v, k + 1) = r
      <4>1. Col(v, l + (k - l)) = r /\ Col(v, l + (k + 1 - l)) = r
        BY <1>7, <3>1
      <4> QED
        BY <3>1, <4>1
    <3>3. r \in Int
      <4>1. k \in 1 .. Len(v) /\ HasX(v, k)
        BY <1>3 DEF LongLine
      <4> QED
        BY <1>3, <3>2, <4>1, ColIs
    <3>4. FALSE
      BY <3>2, <3>3 DEF LongLine, Long
    <3> QED
      BY <3>4
  <2>4. k < l \/ k = l \/ k > l
    BY <1>3
  <2> QED
    BY <2>1, <2>2, <2>3, <2>4, Zenon
<1>12. HasXOn(v)
  <2> SUFFICES ASSUME NEW k \in 1 .. Len(v) - 1, HasX(v, k) PROVE HasX(v, k + 1)
    BY DEF HasXOn
  <2>1. k \in 1 .. Len(v) /\ k + 1 \in 1 .. Len(v)
    BY <1>3
  <2>2. (Col(v, k) \in Int <=> HasX(v, k)) /\ (Col(v, k + 1) \in Int <=> HasX(v, k + 1))
    BY <1>3, <2>1, ColIs
  <2>3. CASE k < l
    <3>1. k \in 1 .. l - 1 /\ k \in 1 .. l /\ k + 1 \in 1 .. l
      BY <2>3
    <3>2. v[k] = o[k] /\ v[k + 1] = o[k + 1]
      BY <1>4, <3>1
    <3> QED
      BY <1>1, <3>1, <3>2 DEF Out, HasXOn, HasX
  <2>4. CASE k = l
    BY <1>10, <2>2, <2>4
  <2>5. CASE k > l
    <3>1. k - l \in 1 .. m /\ k + 1 - l \in 1 .. m /\ l + (k - l) = k /\ l + (k + 1 - l) = k + 1
      BY <1>3, <2>5
    <3>2. Col(v, l + (k - l)) = r /\ Col(v, l + (k + 1 - l)) = r
      BY <1>7, <3>1
    <3> QED
      BY <2>2, <3>1, <3>2
  <2>6. k < l \/ k = l \/ k > l
    BY <1>3
  <2> QED
    BY <2>3, <2>4, <2>5, <2>6, Zenon
<1>13. m \in 1 .. m /\ v[Len(v)] = t[m] /\ Col(v, Len(v)) = r /\ Len(v) >= 1
  <2>1. m \in 1 .. m
    BY <1>1
  <2> QED
    BY <1>1, <1>3, <1>5, <1>7, <2>1
<1>14. s[n] = P[i] /\ Col(P, i) = r
  <2>1. n \in 1 .. n /\ a + n = i
    BY <1>1
  <2> QED
    BY <1>1, <2>1 DEF Segment
<1>15. LastColumn(v, P, i)
  BY <1>13, <1>14 DEF LastColumn
<1>16. LastCall(v, P, i)
  <2> SUFFICES ASSUME GapAfter(P, i) PROVE v[Len(v)] = P[i]
    BY DEF LastCall
  <2>1. t[m] = s[n]
    BY <1>1 DEF Sent, SameEnds
  <2> QED
    BY <1>13, <1>14, <2>1
<1> QED
  BY <1>3, <1>8, <1>9, <1>11, <1>12, <1>15, <1>16 DEF Out

(* The proxy holds back the calls of the column it is in. *)
ProxyAt(q, P, i, a) ==
    /\ Segment(q.pending, P, a, i, q.lastRoundedX)
    /\ i = 0 => a = 0 /\ q.lastRoundedX = Null
    /\ i >= 1 => a < i
    /\ Out(q.out, P, a)
    /\ a >= 1 => q.lastFlushedX = q.out[Len(q.out)][2]

IsFlushed(f, q, t) ==
    /\ f.pending = <<>> /\ f.out = q.out \o t
    /\ f.lastFlushedX = IF t = <<>> THEN q.lastFlushedX ELSE t[Len(t)][2]
LEMMA FlushIs ==
    ASSUME NEW q, NEW whole
    PROVE  IsFlushed(flushActions(q, whole), q, compressActions(q.pending, whole))
BY DEF flushActions, Last, IsFlushed

IsNew(q, a) == q.lastRoundedX = Null \/ Round(a[2]) = NaN \/ Round(a[2]) # q.lastRoundedX
IsGap(q, a) ==
    /\ q.pending # <<>>
    /\ \/ Wider(Pixel(q.lastRoundedX), IF q.lastFlushedX = Null THEN 0 ELSE q.lastFlushedX)
       \/ Wider(Pixel(Round(a[2])), Pixel(q.lastRoundedX))
LEMMA AddIs ==
    ASSUME NEW q, NEW a, NEW v, v = addAction(q, a), NEW f, f = IF IsNew(q, a) THEN flushActions(q, IsGap(q, a)) ELSE q
    PROVE  /\ v.pending = Append(f.pending, a) /\ v.lastRoundedX = Round(a[2])
           /\ v.lastFlushedX = f.lastFlushedX /\ v.out = f.out
BY Zenon DEF addAction, IsNew, IsGap

(* A gap between two columns is seen from either side. *)
LEMMA GapsSeen ==
    ASSUME NEW g \in Int, NEW r \in Int, r - g > 1
    PROVE  /\ Wider(Pixel(r), Pixel(g))
           /\ \A x \in Int : x <= 2 * g => Wider(Pixel(r), x)
<1>1. \A y \in Int : y # NaN
  BY ChartsAssumption
<1>2. Pixel(r) = 2 * r /\ Pixel(g) = 2 * g
  BY <1>1 DEF Pixel
<1>3. \A x \in Int : x <= 2 * g => 2 * r - x > 2
  OBVIOUS
<1>4. 2 * r \in Int /\ 2 * g \in Int /\ 2 * g <= 2 * g
  OBVIOUS
<1> QED
  BY <1>1, <1>2, <1>3, <1>4 DEF Wider

LEMMA OneCall ==
    ASSUME NEW P \in Seq(Motions), NEW i \in Nat, i + 1 \in 1 .. Len(P), NEW r, r = Col(P, i + 1)
    PROVE  Segment(Append(<<>>, P[i + 1]), P, i, i + 1, r)
<1>1. PICK c \in Motions : c = P[i + 1]
  OBVIOUS
<1>2. PICK s \in Seq(Motions) : s = Append(<<>>, c) /\ Len(s) = 1 /\ s[1] = c
  <2>1. PICK e \in Seq(Motions) : e = <<>> /\ Len(e) = 0
    <3>1. <<>> \in Seq(Motions) /\ Len(<<>>) = 0
      OBVIOUS
    <3> QED
      BY <3>1
  <2>2. PICK s \in Seq(Motions) : IsAdded(s, e, c)
    BY AddOne
  <2>3. s = Append(e, c) /\ Len(s) = 1 /\ s[1] = c
    BY <2>1, <2>2 DEF IsAdded
  <2> QED
    BY <2>1, <2>3
<1>3. (i + 1) - i = 1 /\ \A j \in 1 .. 1 : j = 1
  OBVIOUS
<1> QED
  BY <1>1, <1>2, <1>3 DEF Segment

LEMMA OneMore ==
    ASSUME NEW P \in Seq(Motions), NEW i \in Nat, NEW a \in Nat, a <= i, i + 1 \in 1 .. Len(P),
           NEW r, r = Col(P, i + 1), NEW s, Segment(s, P, a, i, r)
    PROVE  Segment(Append(s, P[i + 1]), P, a, i + 1, r)
<1>1. PICK c \in Motions : c = P[i + 1]
  OBVIOUS
<1>2. PICK n \in Nat : n = i - a /\ (i + 1) - a = n + 1 /\ a + (n + 1) = i + 1
  <2>1. i - a \in Nat /\ (i + 1) - a = (i - a) + 1 /\ a + ((i - a) + 1) = i + 1
    OBVIOUS
  <2> QED
    BY <2>1
<1>3. s \in Seq(Motions) /\ Len(s) = n /\ \A j \in 1 .. n : s[j] = P[a + j] /\ Col(P, a + j) = r
  BY <1>2 DEF Segment
<1>4. PICK v \in Seq(Motions) : IsAdded(v, s, c)
  BY <1>3, AddOne
<1>5. v = Append(s, P[i + 1]) /\ Len(v) = n + 1 /\ v[n + 1] = c /\ \A j \in 1 .. n : v[j] = s[j]
  BY <1>1, <1>3, <1>4 DEF IsAdded
<1>6. \A j \in 1 .. n + 1 : j \in 1 .. n \/ j = n + 1
  OBVIOUS
<1>7. \A j \in 1 .. n + 1 : v[j] = P[a + j] /\ Col(P, a + j) = r
  BY <1>1, <1>2, <1>3, <1>5, <1>6
<1> QED
  BY <1>2, <1>4, <1>5, <1>7 DEF Segment

LEMMA ProxyStarts ==
    ASSUME NEW P, Shaped(P), 1 <= Len(P), NEW q, ProxyAt(q, P, 0, 0), NEW v, v = addAction(q, P[1])
    PROVE  ProxyAt(v, P, 1, 0)
<1>1. P \in Seq(Motions) /\ q.lastRoundedX = Null /\ q.pending \in Seq(Motions) /\ Len(q.pending) = 0
  BY DEF Shaped, ProxyAt, Segment
<1>2. q.pending = <<>>
  BY <1>1, EmptySeq
<1>3. PICK gap : gap = IsGap(q, P[1])
  OBVIOUS
<1>4. PICK f : f = flushActions(q, gap)
  OBVIOUS
<1>5. IsNew(q, P[1])
  BY <1>1 DEF IsNew
<1>6. compressActions(q.pending, gap) = <<>>
  <2>1. Len(q.pending) <= 1
    BY <1>1
  <2> QED
    BY <1>2, <2>1 DEF compressActions
<1>7. f.pending = <<>> /\ f.out = q.out \o <<>>
  <2>1. PICK t : t = compressActions(q.pending, gap)
    OBVIOUS
  <2>2. f.pending = <<>> /\ f.out = q.out \o t
    BY <1>4, <2>1, FlushIs DEF IsFlushed
  <2> QED
    BY <1>6, <2>1, <2>2
<1>8. q.out = <<>> /\ f.out = <<>>
  <2>1. q.out \in Seq(Motions) /\ \A k \in 1 .. Len(q.out) : \E j \in 1 .. 0 : TRUE
    BY DEF ProxyAt, Out, Members
  <2>2. Len(q.out) = 0
    <3>1. Len(q.out) \in Nat /\ \A k \in 1 .. Len(q.out) : FALSE
      BY <2>1
    <3>2. Len(q.out) # 0 => 1 \in 1 .. Len(q.out)
      BY <3>1
    <3> QED
      BY <3>1, <3>2
  <2>3. q.out = <<>>
    BY <2>1, <2>2, EmptySeq
  <2>4. <<>> \o <<>> = <<>>
    OBVIOUS
  <2> QED
    BY <1>7, <2>3, <2>4
<1>9. /\ v.pending = Append(<<>>, P[1]) /\ v.lastRoundedX = Round(P[1][2]) /\ v.out = <<>>
  BY <1>3, <1>4, <1>5, <1>7, <1>8, AddIs
<1>10. Segment(v.pending, P, 0, 1, v.lastRoundedX)
  <2>1. 0 + 1 \in 1 .. Len(P) /\ 0 + 1 = 1
    BY <1>1
  <2>2. v.lastRoundedX = Col(P, 0 + 1)
    BY <1>9, <2>1 DEF Col
  <2>3. Segment(Append(<<>>, P[0 + 1]), P, 0, 0 + 1, v.lastRoundedX)
    BY <1>1, <2>1, <2>2, OneCall
  <2> QED
    BY <1>9, <2>1, <2>3
<1> QED
  BY <1>9, <1>10, NothingOut DEF ProxyAt

LEMMA ProxyStays ==
    ASSUME NEW P, Shaped(P), NEW i \in Nat \ {0}, i + 1 <= Len(P), NEW a \in Nat, NEW q, ProxyAt(q, P, i, a),
           ~ IsNew(q, P[i + 1]), NEW v, v = addAction(q, P[i + 1])
    PROVE  ProxyAt(v, P, i + 1, a)
<1>1. P \in Seq(Motions) /\ i + 1 \in 1 .. Len(P) /\ a < i
  BY DEF Shaped, ProxyAt
<1>2. /\ v.pending = Append(q.pending, P[i + 1]) /\ v.lastRoundedX = Round(P[i + 1][2])
      /\ v.lastFlushedX = q.lastFlushedX /\ v.out = q.out
  BY AddIs
<1>3. v.lastRoundedX = q.lastRoundedX /\ v.lastRoundedX = Col(P, i + 1)
  BY <1>2 DEF IsNew, Col
<1>4. Segment(v.pending, P, a, i + 1, v.lastRoundedX)
  BY <1>1, <1>2, <1>3, OneMore DEF ProxyAt
<1> QED
  BY <1>1, <1>2, <1>4 DEF ProxyAt

(* The column is flushed when the next one begins, whole if there is a gap beside it. *)
LEMMA ColumnFlushed ==
    ASSUME NEW P, Shaped(P), NEW i \in Nat \ {0}, i <= Len(P), NEW a \in Nat, NEW q, ProxyAt(q, P, i, a), Ends(P, i),
           NEW whole, GapAfter(P, a) => whole, GapAfter(P, i) => whole, NEW f, f = flushActions(q, whole)
    PROVE  f.pending = <<>> /\ Out(f.out, P, i) /\ f.lastFlushedX = f.out[Len(f.out)][2]
<1>1. a < i /\ i \in Nat
  BY DEF ProxyAt
<1>2. PICK s, r, o : s = q.pending /\ r = q.lastRoundedX /\ o = q.out
  OBVIOUS
<1>3. Segment(s, P, a, i, r) /\ Out(o, P, a)
  BY <1>2 DEF ProxyAt
<1>4. PICK t : t = compressActions(s, whole)
  OBVIOUS
<1>5. f.pending = <<>> /\ f.out = o \o t /\ f.lastFlushedX = IF t = <<>> THEN q.lastFlushedX ELSE t[Len(t)][2]
  <2>1. IsFlushed(f, q, t)
    BY <1>2, <1>4, FlushIs
  <2> QED
    BY <1>2, <2>1 DEF IsFlushed
<1>6. Sent(t, s, whole)
  <2>1. s \in Seq(Motions)
    BY <1>3 DEF Segment
  <2>2. Len(s) # 1 => Penned(s)
    BY <1>1, <1>3, SegmentIsPenned
  <2> QED
    BY <1>4, <2>1, <2>2, CompressedIs
<1>7. PICK v : v = o \o t
  OBVIOUS
<1>8. Out(v, P, i)
  BY <1>1, <1>3, <1>6, <1>7, Flushed
<1>9. v[Len(v)] = t[Len(t)] /\ t # <<>>
  <2>1. o \in Seq(Motions) /\ t \in Seq(Motions) /\ Len(t) >= 1
    BY <1>3, <1>6 DEF Out, Sent, FromAmong
  <2>2. PICK l, m \in Nat : l = Len(o) /\ m = Len(t) /\ m >= 1
    BY <2>1
  <2>3. Len(v) = l + m /\ \A k \in 1 .. l + m : v[k] = IF k <= l THEN o[k] ELSE t[k - l]
    BY <1>7, <2>1, <2>2, ConcatProperties
  <2>4. l + m \in 1 .. l + m /\ ~ (l + m <= l) /\ (l + m) - l = m
    BY <2>2
  <2>5. v[l + m] = t[m]
    BY <2>3, <2>4
  <2> QED
    BY <2>1, <2>2, <2>3, <2>5
<1> QED
  BY <1>5, <1>7, <1>8, <1>9

LEMMA ProxyMoves ==
    ASSUME NEW P, Shaped(P), NEW i \in Nat \ {0}, i + 1 <= Len(P), NEW a \in Nat, NEW q, ProxyAt(q, P, i, a),
           IsNew(q, P[i + 1]), NEW v, v = addAction(q, P[i + 1])
    PROVE  ProxyAt(v, P, i + 1, i)
<1>1. PICK n, r : n = i - a /\ r = q.lastRoundedX
  OBVIOUS
<1>2. /\ P \in Seq(Motions) /\ i + 1 \in 1 .. Len(P) /\ i \in 1 .. Len(P) /\ a < i /\ n \in Nat /\ n >= 1
      /\ a + 1 \in 1 .. Len(P) /\ i + 1 \in 2 .. Len(P)
  BY <1>1 DEF Shaped, ProxyAt
<1>3. Col(P, i) = r /\ Col(P, a + 1) = r
  <2>1. n \in 1 .. i - a /\ a + n = i /\ 1 \in 1 .. i - a
    BY <1>1, <1>2
  <2> QED
    BY <1>1, <2>1 DEF ProxyAt, Segment
<1>4. Col(P, i + 1) \in Int
  <2>1. HasX(P, i + 1)
    BY <1>2 DEF Shaped
  <2> QED
    BY <1>2, <2>1, ColIs
<1>5. r \in Int \cup {NaN}
  BY <1>2, <1>3, ColIs
<1>6. Col(P, i + 1) # r
  BY <1>1, <1>4, <1>5, ChartsAssumption DEF IsNew, Col
<1>7. PICK gap : gap = IsGap(q, P[i + 1])
  OBVIOUS
<1>8. q.pending # <<>>
  <2>1. Len(q.pending) = n
    BY <1>1 DEF ProxyAt, Segment
  <2> QED
    BY <1>2, <2>1
<1>9. ASSUME GapAfter(P, a) PROVE gap
  <2>1. a >= 1 /\ a \in 1 .. Len(P) /\ HasX(P, a) /\ r - Col(P, a) > 1
    BY <1>3, <1>9 DEF GapAfter
  <2>2. Col(P, a) \in Int
    BY <1>2, <2>1, ColIs
  <2>3. r \in Int
    <3>1. HasX(P, a + 1)
      <4>1. a + 1 \in 2 .. Len(P)
        BY <1>2, <2>1
      <4> QED
        BY <4>1 DEF Shaped
    <3> QED
      BY <1>2, <1>3, <3>1, ColIs
  <2>4. PICK o, m : o = q.out /\ m = Len(o)
    OBVIOUS
  <2>5. o \in Seq(Motions) /\ m \in 1 .. Len(o) /\ Col(o, m) = Col(P, a) /\ q.lastFlushedX = o[m][2]
    BY <2>1, <2>4 DEF ProxyAt, Out, LastColumn
  <2>6. HasX(o, m) /\ o[m][2] <= 2 * Col(o, m)
    BY <2>2, <2>5, ColIs
  <2>7. PICK x \in Int : x = q.lastFlushedX /\ x <= 2 * Col(P, a)
    BY <2>5, <2>6 DEF HasX
  <2>8. Wider(Pixel(r), x)
    BY <2>1, <2>2, <2>3, <2>7, GapsSeen
  <2>9. q.lastFlushedX # Null
    BY <2>7, ChartsAssumption
  <2> QED
    BY <1>1, <1>7, <1>8, <2>7, <2>8, <2>9 DEF IsGap
<1>10. ASSUME GapAfter(P, i) PROVE gap
  <2>1. HasX(P, i) /\ Col(P, i + 1) - r > 1
    BY <1>3, <1>10 DEF GapAfter
  <2>2. r \in Int
    BY <1>2, <1>3, <2>1, ColIs
  <2>3. Wider(Pixel(Col(P, i + 1)), Pixel(r))
    BY <1>4, <2>1, <2>2, GapsSeen
  <2> QED
    BY <1>1, <1>7, <1>8, <2>3 DEF IsGap, Col
<1>11. PICK f : f = flushActions(q, gap)
  OBVIOUS
<1>12. f.pending = <<>> /\ Out(f.out, P, i) /\ f.lastFlushedX = f.out[Len(f.out)][2]
  <2>1. Ends(P, i)
    BY <1>3, <1>6 DEF Ends
  <2>2. i <= Len(P)
    BY <1>2
  <2> QED
    BY <1>9, <1>10, <1>11, <2>1, <2>2, ColumnFlushed
<1>13. /\ v.pending = Append(<<>>, P[i + 1]) /\ v.lastRoundedX = Col(P, i + 1)
       /\ v.lastFlushedX = f.lastFlushedX /\ v.out = f.out
  BY <1>7, <1>11, <1>12, AddIs DEF Col
<1>14. Segment(v.pending, P, i, i + 1, v.lastRoundedX)
  <2>1. i \in Nat
    OBVIOUS
  <2> QED
    BY <1>2, <1>13, <2>1, OneCall
<1> QED
  BY <1>12, <1>13, <1>14 DEF ProxyAt

LEMMA CompressedIsTyped ==
    ASSUME NEW p \in Seq(Motions), NEW whole
    PROVE  compressActions(p, whole) \in Seq(Motions)
<1>1. PICK u : u = withoutDoubled(withoutIdle(p))
  OBVIOUS
<1>2. u \in Seq(Motions)
  <2>1. withoutIdle(p) \in Seq(Motions)
    BY PickedIs DEF withoutIdle
  <2> QED
    BY <1>1, <2>1, PickedIs DEF withoutDoubled
<1>3. lossy(u) \in Seq(Motions)
  BY <1>2, PickedIs DEF lossy
<1>4. compressed(u, whole) \in Seq(Motions)
  BY <1>2, <1>3 DEF compressed
<1> QED
  BY <1>1, <1>4 DEF compressActions

Proxies == [pending : Seq(Motions), lastRoundedX : Int \cup {NaN, Null}, lastFlushedX : Int \cup {NaN, Null},
            out : Seq(Motions)]
Idle == [pending |-> <<>>, lastRoundedX |-> Null, lastFlushedX |-> Null, out |-> <<>>]

LEMMA AddIsTyped ==
    ASSUME NEW q \in Proxies, NEW a \in Motions
    PROVE  addAction(q, a) \in Proxies
<1>1. PICK f : f = IF IsNew(q, a) THEN flushActions(q, IsGap(q, a)) ELSE q
  OBVIOUS
<1>2. addAction(q, a) = [pending |-> Append(f.pending, a), lastRoundedX |-> Round(a[2]),
                         lastFlushedX |-> f.lastFlushedX, out |-> f.out]
  BY <1>1, Zenon DEF addAction, IsNew, IsGap
<1>3. Round(a[2]) \in Int \cup {NaN}
  <2>1. PICK x \in Int \cup {NaN} : x = a[2]
    BY MotionIs
  <2> QED
    BY <2>1, RoundIs
<1>4. q.pending \in Seq(Motions) /\ q.out \in Seq(Motions) /\ q.lastFlushedX \in Int \cup {NaN, Null}
  BY DEF Proxies
<1>5. f.pending \in Seq(Motions) /\ f.out \in Seq(Motions) /\ f.lastFlushedX \in Int \cup {NaN, Null}
  <2>1. CASE ~ IsNew(q, a)
    BY <1>1, <1>4, <2>1
  <2>2. CASE IsNew(q, a)
    <3>1. PICK t : t = compressActions(q.pending, IsGap(q, a))
      OBVIOUS
    <3>2. t \in Seq(Motions)
      BY <1>4, <3>1, CompressedIsTyped
    <3>3. IsFlushed(f, q, t)
      BY <1>1, <2>2, <3>1, FlushIs
    <3>4. f.pending \in Seq(Motions)
      <4>1. <<>> \in Seq(Motions)
        OBVIOUS
      <4> QED
        BY <3>3, <4>1 DEF IsFlushed
    <3>5. f.out \in Seq(Motions)
      BY <1>4, <3>2, <3>3, ConcatProperties DEF IsFlushed
    <3>6. t # <<>> => t[Len(t)][2] \in Int \cup {NaN}
      <4> SUFFICES ASSUME t # <<>> PROVE t[Len(t)][2] \in Int \cup {NaN}
        OBVIOUS
      <4>1. Len(t) \in 1 .. Len(t)
        <5>1. Len(t) \in Nat /\ Len(t) # 0
          BY <3>2, EmptySeq
        <5> QED
          BY <5>1
      <4> QED
        BY <3>2, <4>1, ColIs
    <3> QED
      BY <1>4, <3>3, <3>4, <3>5, <3>6 DEF IsFlushed
  <2> QED
    BY <2>1, <2>2
<1>6. Append(f.pending, a) \in Seq(Motions)
  BY <1>5, AppendIs
<1> QED
  BY <1>2, <1>3, <1>5, <1>6 DEF Proxies

ProxyStep(h, P, i) == IF i = 0 THEN Idle ELSE addAction(h[i - 1], P[i])
IsProxy(h, P) == h = [i \in 0 .. Len(P) |-> ProxyStep(h, P, i)]

LEMMA ProxiesExist == ASSUME NEW P \in Seq(Motions) PROVE \E h : IsProxy(h, P)
<1> DEFINE next(i, q) == addAction(q, P[i])
           F == [r \in (1 .. Len(P)) \X Proxies |-> next(r[1], r[2])]
<1>1. PICK n \in Nat : n = Len(P)
  OBVIOUS
<1>2. F \in [(1 .. n) \X Proxies -> Proxies]
  <2>1. ASSUME NEW i \in 1 .. n, NEW q \in Proxies PROVE next(i, q) \in Proxies
    <3>1. P[i] \in Motions
      BY <1>1
    <3> QED
      BY <3>1, AddIsTyped
  <2> HIDE DEF next
  <2> QED
    BY <1>1, <2>1
<1>3. PICK h \in [0 .. n -> Proxies] : IsRun(h, n, F, Idle)
  <2>1. Idle \in Proxies
    <3>1. <<>> \in Seq(Motions)
      OBVIOUS
    <3> QED
      BY <3>1 DEF Idle, Proxies
  <2> HIDE DEF F
  <2> QED
    BY <1>2, <2>1, RunsExist
<1>4. ASSUME NEW i \in 0 .. n PROVE h[i] = ProxyStep(h, P, i)
  <2>1. CASE i = 0
    BY <1>3, <2>1 DEF IsRun, ProxyStep
  <2>2. CASE i # 0
    <3>1. i \in 1 .. n /\ i - 1 \in 0 .. n
      BY <2>2
    <3>2. PICK q \in Proxies : q = h[i - 1]
      BY <3>1
    <3>3. h[i] = F[<<i, q>>]
      <4> HIDE DEF F
      <4> QED
        BY <1>3, <3>1, <3>2 DEF IsRun
    <3>4. F[<<i, q>>] = next(i, q)
      <4> HIDE DEF next
      <4> QED
        BY <1>1, <3>1
    <3> QED
      BY <2>2, <3>2, <3>3, <3>4 DEF ProxyStep
  <2> QED
    BY <2>1, <2>2
<1>5. h = [i \in 0 .. n |-> h[i]]
  OBVIOUS
<1>6. h = [i \in 0 .. n |-> ProxyStep(h, P, i)]
  BY <1>4, <1>5
<1> QED
  BY <1>1, <1>6 DEF IsProxy

ProxyIs(q, P, i) == \E a \in 0 .. i : ProxyAt(q, P, i, a)

LEMMA ProxyIsIdle == ASSUME NEW P PROVE ProxyIs(Idle, P, 0)
<1>1. /\ Idle.pending = <<>> /\ Idle.lastRoundedX = Null /\ Idle.out = <<>>
  BY DEF Idle
<1>2. Segment(<<>>, P, 0, 0, Null)
  <2>1. <<>> \in Seq(Motions) /\ Len(<<>>) = 0 /\ 0 - 0 = 0
    OBVIOUS
  <2>2. \A j \in 1 .. 0 : FALSE
    OBVIOUS
  <2> QED
    BY <2>1, <2>2 DEF Segment
<1>3. ProxyAt(Idle, P, 0, 0)
  BY <1>1, <1>2, NothingOut DEF ProxyAt
<1>4. 0 \in 0 .. 0
  OBVIOUS
<1> QED
  BY <1>3, <1>4 DEF ProxyIs

LEMMA ProxyGoesOn ==
    ASSUME NEW P, Shaped(P), NEW i \in Nat \ {0}, i <= Len(P), NEW q, ProxyIs(q, P, i - 1), NEW v, v = addAction(q, P[i])
    PROVE  ProxyIs(v, P, i)
<1>1. PICK a \in 0 .. i - 1 : ProxyAt(q, P, i - 1, a)
  BY DEF ProxyIs
<1>2. PICK k \in Nat : k = i - 1 /\ k + 1 = i
  <2>1. i - 1 \in Nat /\ (i - 1) + 1 = i
    OBVIOUS
  <2> QED
    BY <2>1
<1>3. a \in Nat /\ a \in 0 .. i /\ k \in 0 .. i /\ 0 \in 0 .. i
  BY <1>2
<1>4. CASE k = 0
  <2>1. a = 0 /\ i = 1
    BY <1>2, <1>4
  <2>2. ProxyAt(v, P, 1, 0)
    BY <1>1, <1>2, <1>4, <2>1, ProxyStarts
  <2> QED
    BY <1>3, <2>1, <2>2 DEF ProxyIs
<1>5. CASE k # 0 /\ ~ IsNew(q, P[k + 1])
  <2>1. k \in Nat \ {0} /\ ProxyAt(q, P, k, a) /\ v = addAction(q, P[k + 1]) /\ k + 1 <= Len(P)
    BY <1>1, <1>2, <1>5
  <2>2. ProxyAt(v, P, k + 1, a)
    BY <1>3, <1>5, <2>1, ProxyStays
  <2> QED
    BY <1>2, <1>3, <2>2 DEF ProxyIs
<1>6. CASE k # 0 /\ IsNew(q, P[k + 1])
  <2>1. k \in Nat \ {0} /\ ProxyAt(q, P, k, a) /\ v = addAction(q, P[k + 1]) /\ k + 1 <= Len(P)
    BY <1>1, <1>2, <1>6
  <2>2. ProxyAt(v, P, k + 1, k)
    BY <1>3, <1>6, <2>1, ProxyMoves
  <2> QED
    BY <1>2, <1>3, <2>2 DEF ProxyIs
<1> QED
  BY <1>4, <1>5, <1>6

LEMMA FastIs ==
    ASSUME NEW P, Shaped(P)
    PROVE  Out(fastCanvas(P), P, Len(P))
<1>0. P \in Seq(Motions)
  BY DEF Shaped
<1>1. PICK h : h = CHOOSE g : IsProxy(g, P)
  OBVIOUS
<1>2. IsProxy(h, P)
  BY <1>0, <1>1, ProxiesExist
<1>3. PICK f : f = flushActions(h[Len(P)], TRUE)
  OBVIOUS
<1>4. fastCanvas(P) = f.out
  BY <1>1, <1>3 DEF fastCanvas, IsProxy, ProxyStep, Idle
<1>5. PICK n \in Nat : n = Len(P)
  BY <1>0
<1> DEFINE W == {i \in 0 .. n : ProxyIs(h[i], P, i)}
<1>6. \A i \in 0 .. n : h[i] = ProxyStep(h, P, i)
  BY <1>2, <1>5 DEF IsProxy
<1>7. 0 \in W
  <2>1. h[0] = Idle /\ 0 \in 0 .. n
    BY <1>6 DEF ProxyStep
  <2>2. ProxyIs(h[0], P, 0)
    BY <2>1, ProxyIsIdle
  <2> QED
    BY <2>1, <2>2, Zenon
<1>8. ASSUME NEW i \in 1 .. n, i - 1 \in W PROVE i \in W
  <2>1. ProxyIs(h[i - 1], P, i - 1)
    BY <1>8, Zenon
  <2>2. i \in 0 .. n /\ i # 0 /\ i \in Nat \ {0} /\ i <= Len(P)
    BY <1>5
  <2>3. h[i] = addAction(h[i - 1], P[i])
    BY <1>6, <2>2 DEF ProxyStep
  <2>4. ProxyIs(h[i], P, i)
    BY <2>1, <2>2, <2>3, ProxyGoesOn
  <2> QED
    BY <2>2, <2>4, Zenon
<1>9. ProxyIs(h[n], P, n)
  <2>1. W \in SUBSET (0 .. n)
    OBVIOUS
  <2>2. n \in W
    <3> HIDE DEF W
    <3> QED
      BY <1>7, <1>8, <2>1, Upward
  <2> QED
    BY <2>2, Zenon
<1>10. PICK a \in 0 .. n : ProxyAt(h[n], P, n, a)
  BY <1>9 DEF ProxyIs
<1>11. CASE n = 0
  <2>1. PICK q : q = h[n]
    OBVIOUS
  <2>2. q = Idle
    BY <1>6, <1>11, <2>1 DEF ProxyStep
  <2>3. IsFlushed(f, q, compressActions(<<>>, TRUE))
    <3>1. q.pending = <<>>
      BY <2>2 DEF Idle
    <3> QED
      BY <1>3, <1>5, <2>1, <3>1, FlushIs
  <2>4. compressActions(<<>>, TRUE) = <<>>
    <3>1. Len(<<>>) <= 1
      OBVIOUS
    <3> QED
      BY <3>1 DEF compressActions
  <2>5. f.out = <<>>
    <3>1. q.out = <<>>
      BY <2>2 DEF Idle
    <3>2. <<>> \o <<>> = <<>>
      OBVIOUS
    <3> QED
      BY <2>3, <2>4, <3>1, <3>2 DEF IsFlushed
  <2> QED
    BY <1>4, <1>5, <1>11, <2>5, NothingOut
<1>12. CASE n # 0
  <2>1. n \in Nat \ {0} /\ n <= Len(P) /\ Ends(P, n) /\ a \in Nat
    BY <1>5, <1>12 DEF Ends
  <2>2. PICK whole : whole = TRUE
    OBVIOUS
  <2>3. (GapAfter(P, a) => whole) /\ (GapAfter(P, n) => whole)
    BY <2>2
  <2>4. f = flushActions(h[n], whole)
    BY <1>3, <1>5, <2>2
  <2>5. Out(f.out, P, n)
    BY <1>10, <2>1, <2>3, <2>4, ColumnFlushed
  <2> QED
    BY <1>4, <1>5, <2>5
<1> QED
  BY <1>11, <1>12

-----------------------------------------------------------------------------
(* What is to be seen of it.                                               *)

SeenFrom(u, p) ==
    /\ u \in Seq(Motions)
    /\ \A k \in 1 .. Len(u) : \E j \in 1 .. Len(p) : HasX(p, j) /\ u[k] = p[j]
    /\ \A j \in 1 .. Len(p) : HasX(p, j) => \E k \in 1 .. Len(u) : u[k] = p[j]
    /\ \A k \in 1 .. Len(u) - 1 : \E j \in 1 .. Len(p) - 1 : u[k] = p[j] /\ u[k + 1] = p[j + 1]
    /\ \A j \in 1 .. Len(p) - 1 : HasX(p, j) => \E k \in 1 .. Len(u) - 1 : u[k] = p[j] /\ u[k + 1] = p[j + 1]

LEMMA SeenIs ==
    ASSUME NEW p \in Seq(Motions), HasXOn(p)
    PROVE  SeenFrom(Seen(p), p)
<1>1. PICK n \in Nat : n = Len(p) /\ DOMAIN p = 1 .. n
  OBVIOUS
<1>2. PICK K : K = {i \in DOMAIN p : NaN \notin {p[i][2], p[i][3]}}
  OBVIOUS
<1>3. PICK u : u = Seen(p)
  OBVIOUS
<1>4. u \in Seq(Motions) /\ PickedTo(u, p, K, n)
  BY <1>1, <1>2, <1>3, PickedIs DEF Seen
<1>5. \A j \in 1 .. n : j \in K <=> HasX(p, j)
  <2> SUFFICES ASSUME NEW j \in 1 .. n PROVE j \in K <=> HasX(p, j)
    OBVIOUS
  <2>1. p[j][2] \in Int \cup {NaN} /\ p[j][3] \in Int
    BY <1>1, ColIs
  <2>2. NaN \notin Int
    BY ChartsAssumption
  <2> QED
    BY <1>1, <1>2, <2>1, <2>2 DEF HasX
<1>6. \A j \in 1 .. n - 1 : HasX(p, j) => HasX(p, j + 1)
  BY <1>1 DEF HasXOn
<1>7. \A k \in 1 .. Len(u) : \E j \in 1 .. n : HasX(p, j) /\ u[k] = p[j]
  BY <1>4, <1>5 DEF PickedTo, FromPlaces
<1>8. \A j \in 1 .. n : HasX(p, j) => \E k \in 1 .. Len(u) : u[k] = p[j]
  BY <1>4, <1>5 DEF PickedTo, AllPicked
<1>9. ASSUME NEW k \in 1 .. Len(u) - 1
      PROVE  \E j \in 1 .. n - 1 : u[k] = p[j] /\ u[k + 1] = p[j + 1]
  <2>1. PICK j, l \in 1 .. n : /\ j \in K /\ l \in K /\ j < l /\ Clear(K, j, l)
                               /\ u[k] = p[j] /\ u[k + 1] = p[l]
    BY <1>4 DEF PickedTo, KeepOrder
  <2>2. j \in 1 .. n - 1 /\ j + 1 \in 1 .. n
    BY <2>1
  <2>3. j + 1 \in K
    BY <1>5, <1>6, <2>1, <2>2
  <2>4. l # j + 1 => j + 1 \in j + 1 .. l - 1
    BY <2>1
  <2>5. l = j + 1
    BY <2>3, <2>4, <2>1 DEF Clear
  <2> QED
    BY <2>1, <2>2, <2>5
<1>10. ASSUME NEW j \in 1 .. n - 1, HasX(p, j)
       PROVE  \E k \in 1 .. Len(u) - 1 : u[k] = p[j] /\ u[k + 1] = p[j + 1]
  <2>1. j \in 1 .. n /\ j + 1 \in 1 .. n
    OBVIOUS
  <2>2. j \in K /\ j + 1 \in K
    BY <1>5, <1>6, <1>10, <2>1
  <2> QED
    BY <1>4, <2>2 DEF PickedTo, StillNext
<1> QED
  BY <1>1, <1>3, <1>4, <1>7, <1>8, <1>9, <1>10 DEF SeenFrom

Between(A, B) == \A y \in B : \E l, h \in A : l <= y /\ y <= h

LEMMA SameExtremes ==
    ASSUME NEW b \in Nat, NEW B \in SUBSET Int, B # {}, Within(B, b), NEW A \in SUBSET B, Between(A, B)
    PROVE  Min(A) = Min(B) /\ Max(A) = Max(B)
<1>1. A \in SUBSET Int /\ Within(A, b) /\ A # {}
  BY DEF Within, Between
<1>2. PICK l, h : l = Min(A) /\ h = Max(A)
  OBVIOUS
<1>3. PICK m, g : m = Min(B) /\ g = Max(B)
  OBVIOUS
<1>4. l \in A /\ h \in A /\ \A t \in A : l <= t /\ t <= h
  BY <1>1, <1>2, Extremes
<1>5. m \in B /\ g \in B /\ \A t \in B : m <= t /\ t <= g
  BY <1>3, Extremes
<1>6. l = m
  <2>1. PICK y \in A : y <= m
    BY <1>5 DEF Between
  <2>2. l <= y /\ m <= l /\ l \in Int /\ m \in Int /\ y \in Int
    BY <1>1, <1>4, <1>5
  <2> QED
    BY <2>1, <2>2
<1>7. h = g
  <2>1. PICK y \in A : g <= y
    BY <1>5 DEF Between
  <2>2. y <= h /\ h <= g /\ h \in Int /\ g \in Int /\ y \in Int
    BY <1>1, <1>4, <1>5
  <2> QED
    BY <2>1, <2>2
<1> QED
  BY <1>2, <1>3, <1>6, <1>7

LEMMA SeenColumns ==
    ASSUME NEW u \in Seq(Motions), NEW p, SeenFrom(u, p)
    PROVE  /\ PixelColumns(u) = {Col(p, j) : j \in {k \in 1 .. Len(p) : HasX(p, k)}}
           /\ \A rx : Column(u, rx) = {p[j][3] : j \in {k \in 1 .. Len(p) : HasX(p, k) /\ Col(p, k) = rx}}
<1>1. DOMAIN u = 1 .. Len(u)
  OBVIOUS
<1>2. \A k \in 1 .. Len(u) : \E j \in 1 .. Len(p) : HasX(p, j) /\ Round(u[k][2]) = Col(p, j) /\ u[k][3] = p[j][3]
  BY DEF SeenFrom, Col
<1>3. \A j \in 1 .. Len(p) : HasX(p, j) => \E k \in 1 .. Len(u) : Round(u[k][2]) = Col(p, j) /\ u[k][3] = p[j][3]
  BY DEF SeenFrom, Col
<1>4. PixelColumns(u) = {Col(p, j) : j \in {k \in 1 .. Len(p) : HasX(p, k)}}
  <2>1. PICK R : R = PixelColumns(u)
    OBVIOUS
  <2>2. R = {Round(u[i][2]) : i \in 1 .. Len(u)}
    BY <1>1, <2>1 DEF PixelColumns
  <2>3. \A c \in R : \E j \in 1 .. Len(p) : HasX(p, j) /\ c = Col(p, j)
    BY <1>2, <2>2
  <2>4. \A j \in 1 .. Len(p) : HasX(p, j) => Col(p, j) \in R
    BY <1>3, <2>2
  <2>5. \A c \in {Col(p, j) : j \in {k \in 1 .. Len(p) : HasX(p, k)}} : c \in R
    BY <2>4
  <2>6. \A c \in R : c \in {Col(p, j) : j \in {k \in 1 .. Len(p) : HasX(p, k)}}
    BY <2>3
  <2> QED
    BY <2>1, <2>5, <2>6
<1>5. ASSUME NEW rx
      PROVE  Column(u, rx) = {p[j][3] : j \in {k \in 1 .. Len(p) : HasX(p, k) /\ Col(p, k) = rx}}
  <2>1. Column(u, rx) = {u[i][3] : i \in {k \in 1 .. Len(u) : Round(u[k][2]) = rx}}
    BY <1>1 DEF Column
  <2>2. ASSUME NEW y \in Column(u, rx)
        PROVE  y \in {p[j][3] : j \in {k \in 1 .. Len(p) : HasX(p, k) /\ Col(p, k) = rx}}
    <3>1. PICK k \in 1 .. Len(u) : Round(u[k][2]) = rx /\ y = u[k][3]
      BY <2>1
    <3>2. PICK j \in 1 .. Len(p) : HasX(p, j) /\ Round(u[k][2]) = Col(p, j) /\ u[k][3] = p[j][3]
      BY <1>2
    <3> QED
      BY <3>1, <3>2
  <2>3. ASSUME NEW y \in {p[j][3] : j \in {k \in 1 .. Len(p) : HasX(p, k) /\ Col(p, k) = rx}}
        PROVE  y \in Column(u, rx)
    <3>1. PICK j \in 1 .. Len(p) : HasX(p, j) /\ Col(p, j) = rx /\ y = p[j][3]
      OBVIOUS
    <3>2. PICK k \in 1 .. Len(u) : Round(u[k][2]) = Col(p, j) /\ u[k][3] = p[j][3]
      BY <1>3, <3>1
    <3> QED
      BY <2>1, <3>1, <3>2
  <2> QED
    BY <2>2, <2>3
<1> QED
  BY <1>4, <1>5

Looks(fast, full) ==
    /\ PixelColumns(fast) = PixelColumns(full)
    /\ \A rx \in PixelColumns(full) : /\ Min(Column(fast, rx)) = Min(Column(full, rx))
                                      /\ Max(Column(fast, rx)) = Max(Column(full, rx))
    /\ {l \in Lines(fast) : Abs(Round(l[1][1]) - Round(l[2][1])) > 1} \subseteq Lines(full)

LEMMA LooksTheSame ==
    ASSUME NEW P, Shaped(P)
    PROVE  Looks(Seen(fastCanvas(P)), Seen(P))
<1>1. PICK n \in Nat : n = Len(P) /\ P \in Seq(Motions)
  BY DEF Shaped
<1>2. PICK o : o = fastCanvas(P) /\ Out(o, P, n)
  BY <1>1, FastIs
<1>3. PICK m \in Nat : m = Len(o) /\ o \in Seq(Motions) /\ HasXOn(o)
  BY <1>2 DEF Out
<1>4. PICK full, fast : full = Seen(P) /\ fast = Seen(o)
  OBVIOUS
<1>5. SeenFrom(full, P) /\ full \in Seq(Motions)
  <2>1. HasXOn(P)
    <3>1. \A k \in 1 .. Len(P) - 1 : k + 1 \in 2 .. Len(P)
      BY <1>1
    <3> QED
      BY <3>1 DEF Shaped, HasXOn
  <2> QED
    BY <1>1, <1>4, <2>1, SeenIs DEF SeenFrom
<1>6. SeenFrom(fast, o) /\ fast \in Seq(Motions)
  BY <1>3, <1>4, SeenIs DEF SeenFrom
<1>7. /\ \A j \in 1 .. n : P[j][3] \in Int /\ (Col(P, j) \in Int <=> HasX(P, j))
      /\ \A k \in 1 .. m : o[k][3] \in Int /\ (Col(o, k) \in Int <=> HasX(o, k))
  BY <1>1, <1>3, ColIs
<1>8. \A k \in 1 .. m : \E j \in 1 .. n : o[k] = P[j] /\ Col(o, k) = Col(P, j) /\ (HasX(o, k) => HasX(P, j))
  <2> SUFFICES ASSUME NEW k \in 1 .. m
               PROVE  \E j \in 1 .. n : o[k] = P[j] /\ Col(o, k) = Col(P, j) /\ (HasX(o, k) => HasX(P, j))
    OBVIOUS
  <2>1. PICK j \in 1 .. n : o[k] = P[j]
    BY <1>2, <1>3 DEF Out, Members
  <2> QED
    BY <2>1 DEF Col, HasX
<1>9. ASSUME NEW j \in 1 .. n, HasX(P, j)
      PROVE  \E k, l \in 1 .. m : /\ HasX(o, k) /\ Col(o, k) = Col(P, j) /\ HasX(o, l) /\ Col(o, l) = Col(P, j)
                                  /\ o[k][3] <= P[j][3] /\ P[j][3] <= o[l][3]
  <2>1. PICK k, l \in 1 .. m : /\ Col(o, k) = Col(P, j) /\ Col(o, l) = Col(P, j)
                               /\ o[k][3] <= P[j][3] /\ P[j][3] <= o[l][3]
    BY <1>2, <1>3 DEF Out, Heights
  <2>2. HasX(o, k) /\ HasX(o, l)
    BY <1>7, <1>9, <2>1
  <2> QED
    BY <2>1, <2>2
<1>10. PICK AC, BC : /\ AC = {Col(o, j) : j \in {k \in 1 .. m : HasX(o, k)}}
                     /\ BC = {Col(P, j) : j \in {k \in 1 .. n : HasX(P, k)}}
  OBVIOUS
<1>11. PixelColumns(fast) = AC /\ PixelColumns(full) = BC
  BY <1>1, <1>3, <1>5, <1>6, <1>10, SeenColumns
<1>12. AC = BC
  <2>1. ASSUME NEW c \in AC PROVE c \in BC
    <3>1. PICK k \in 1 .. m : HasX(o, k) /\ c = Col(o, k)
      BY <1>10
    <3> QED
      BY <1>8, <1>10, <3>1
  <2>2. ASSUME NEW c \in BC PROVE c \in AC
    <3>1. PICK k \in 1 .. n : HasX(P, k) /\ c = Col(P, k)
      BY <1>10
    <3>2. PICK l \in 1 .. m : HasX(o, l) /\ Col(o, l) = Col(P, k)
      BY <1>9, <3>1
    <3> QED
      BY <1>10, <3>1, <3>2
  <2> QED
    BY <2>1, <2>2
<1>13. ASSUME NEW rx \in BC
       PROVE  /\ Min(Column(fast, rx)) = Min(Column(full, rx)) /\ Max(Column(fast, rx)) = Max(Column(full, rx))
  <2>1. PICK A, B : A = Column(fast, rx) /\ B = Column(full, rx)
    OBVIOUS
  <2>2. A = {o[j][3] : j \in {k \in 1 .. m : HasX(o, k) /\ Col(o, k) = rx}}
    BY <1>3, <1>6, <2>1, SeenColumns
  <2>3. B = {P[j][3] : j \in {k \in 1 .. n : HasX(P, k) /\ Col(P, k) = rx}}
    BY <1>1, <1>5, <2>1, SeenColumns
  <2>4. B \in SUBSET Int /\ B # {}
    BY <1>7, <1>10, <2>3
  <2>5. PICK b \in Nat : \A k \in 1 .. n : -b <= P[k][3] /\ P[k][3] <= b
    <3>1. PICK f : f = [k \in 1 .. n |-> P[k][3]]
      OBVIOUS
    <3>2. \A k \in 1 .. n : f[k] \in Int /\ f[k] = P[k][3]
      BY <1>7, <3>1
    <3>3. PICK b \in Nat : \A k \in 1 .. n : -b <= f[k] /\ f[k] <= b
      BY <3>2, Bounds
    <3> QED
      BY <3>2, <3>3
  <2>6. Within(B, b)
    BY <2>3, <2>5 DEF Within
  <2>7. A \in SUBSET B
    <3> SUFFICES ASSUME NEW y \in A PROVE y \in B
      OBVIOUS
    <3>1. PICK k \in 1 .. m : HasX(o, k) /\ Col(o, k) = rx /\ y = o[k][3]
      BY <2>2
    <3>2. PICK j \in 1 .. n : o[k] = P[j] /\ Col(o, k) = Col(P, j) /\ HasX(P, j)
      BY <1>8, <3>1
    <3> QED
      BY <2>3, <3>1, <3>2
  <2>8. Between(A, B)
    <3> SUFFICES ASSUME NEW y \in B PROVE \E l, h \in A : l <= y /\ y <= h
      BY DEF Between
    <3>1. PICK j \in 1 .. n : HasX(P, j) /\ Col(P, j) = rx /\ y = P[j][3]
      BY <2>3
    <3>2. PICK k, l \in 1 .. m : /\ HasX(o, k) /\ Col(o, k) = rx /\ HasX(o, l) /\ Col(o, l) = rx
                                 /\ o[k][3] <= y /\ y <= o[l][3]
      BY <1>9, <3>1
    <3>3. o[k][3] \in A /\ o[l][3] \in A
      BY <2>2, <3>2
    <3> QED
      BY <3>2, <3>3
  <2> QED
    BY <2>1, <2>4, <2>6, <2>7, <2>8, SameExtremes
<1>14. ASSUME NEW l \in Lines(fast), Abs(Round(l[1][1]) - Round(l[2][1])) > 1 PROVE l \in Lines(full)
  <2>1. PICK i \in 2 .. Len(fast) : fast[i][1] = "L" /\ l = <<Tail(fast[i - 1]), Tail(fast[i])>>
    BY DEF Lines
  <2>2. PICK k \in 1 .. Len(fast) - 1 : k + 1 = i /\ k = i - 1 /\ k \in 1 .. Len(fast) /\ k + 1 \in 1 .. Len(fast)
    <3>1. Len(fast) \in Nat
      BY <1>6
    <3>2. i - 1 \in 1 .. Len(fast) - 1 /\ (i - 1) + 1 = i /\ i - 1 \in 1 .. Len(fast) /\ i \in 1 .. Len(fast)
      BY <3>1
    <3> QED
      BY <3>2
  <2>3. PICK j \in 1 .. m - 1 : fast[k] = o[j] /\ fast[k + 1] = o[j + 1]
    BY <1>3, <1>6 DEF SeenFrom
  <2>4. j \in 1 .. m /\ j + 1 \in 1 .. m /\ o[j] \in Motions /\ o[j + 1] \in Motions
    BY <1>3
  <2>5. l = <<Tail(o[j]), Tail(o[j + 1])>> /\ o[j + 1][1] = "L"
    BY <2>1, <2>2, <2>3
  <2>6. HasX(o, j) /\ HasX(o, j + 1)
    <3>1. \E a \in 1 .. m : HasX(o, a) /\ fast[k] = o[a]
      BY <1>3, <1>6, <2>2 DEF SeenFrom
    <3>2. \E a \in 1 .. m : HasX(o, a) /\ fast[k + 1] = o[a]
      BY <1>3, <1>6, <2>2 DEF SeenFrom
    <3> QED
      BY <2>3, <3>1, <3>2 DEF HasX
  <2>7. LongLine(o, j)
    <3>1. Tail(o[j]) = <<o[j][2], o[j][3]>> /\ Tail(o[j + 1]) = <<o[j + 1][2], o[j + 1][3]>>
      BY <2>4, MotionIs
    <3>2. l[1][1] = o[j][2] /\ l[2][1] = o[j + 1][2]
      <4>0. PICK x, y, e, f : x = o[j][2] /\ y = o[j][3] /\ e = o[j + 1][2] /\ f = o[j + 1][3]
        OBVIOUS
      <4>1. PICK v, w : v = Tail(o[j]) /\ w = Tail(o[j + 1]) /\ v[1] = o[j][2] /\ w[1] = o[j + 1][2]
        <5>1. <<x, y>>[1] = x /\ <<e, f>>[1] = e
          OBVIOUS
        <5>2. Tail(o[j]) = <<x, y>> /\ Tail(o[j + 1]) = <<e, f>>
          BY <3>1, <4>0
        <5>3. Tail(o[j])[1] = o[j][2] /\ Tail(o[j + 1])[1] = o[j + 1][2]
          BY <4>0, <5>1, <5>2
        <5> QED
          BY <5>3
      <4>2. l = <<v, w>>
        BY <2>5, <4>1
      <4>3. l[1] = v /\ l[2] = w
        BY <4>2
      <4> QED
        BY <4>1, <4>3
    <3>3. PICK c, d \in Int : c = Col(o, j) /\ d = Col(o, j + 1)
      BY <1>7, <2>4, <2>6
    <3>4. Abs(c - d) > 1
      BY <1>14, <3>2, <3>3 DEF Col
    <3>5. d - c > 1 \/ c - d > 1
      BY <3>4 DEF Abs
    <3> QED
      BY <2>5, <2>6, <3>3, <3>5 DEF LongLine, Long
  <2>8. PICK a \in 1 .. n - 1 : o[j] = P[a] /\ o[j + 1] = P[a + 1]
    BY <1>2, <1>3, <2>7 DEF Out, LongLines
  <2>9. HasX(P, a)
    BY <2>6, <2>8 DEF HasX
  <2>10. PICK b \in 1 .. Len(full) - 1 : full[b] = P[a] /\ full[b + 1] = P[a + 1]
    BY <1>1, <1>5, <2>9 DEF SeenFrom
  <2>11. b + 1 \in 2 .. Len(full) /\ (b + 1) - 1 = b /\ full[b + 1][1] = "L"
    <3>1. Len(full) \in Nat
      BY <1>5
    <3> QED
      BY <2>5, <2>8, <2>10, <3>1
  <2>12. l = <<Tail(full[(b + 1) - 1]), Tail(full[b + 1])>>
    BY <2>5, <2>8, <2>10, <2>11
  <2> QED
    BY <2>11, <2>12 DEF Lines
<1> QED
  BY <1>2, <1>4, <1>11, <1>12, <1>13, <1>14 DEF Looks

-----------------------------------------------------------------------------
(* The area under a series that is not stacked (_fillPlotter).             *)

Axis == AxisY(chart)

LEMMA AxisIs == chart \in Charts => Axis \in Int
<1> SUFFICES ASSUME chart \in Charts PROVE Axis \in Int
  OBVIOUS
<1>1. PICK zero \in Int : zero = Height + chart.low
  BY ChartsAssumption
<1>2. Height \in Int /\ 0 \in Int
  BY ChartsAssumption
<1>3. Axis = CASE zero < 0 -> 0 [] zero > Height -> Height [] OTHER -> zero
  BY <1>1, Zenon DEF Axis, AxisY
<1>4. Axis \in {0, Height, zero}
  BY <1>3
<1> QED
  BY <1>1, <1>2, <1>4

Call(op, x, y) == <<op, x, y>>
LEMMA CallIs ==
    ASSUME NEW op \in {"M", "L"}, NEW x \in Int \cup {NaN}, NEW y \in Int
    PROVE  Call(op, x, y) \in Motions /\ Call(op, x, y)[1] = op /\ Call(op, x, y)[2] = x /\ Call(op, x, y)[3] = y
BY DEF Call, Motions

LEMMA TraceIs ==
    ASSUME chart.fill = "off", NEW x, NEW y, NEW back
    PROVE  traceBackPath(chart, x, y, back) = <<Call("L", x, y)>>
<1>1. << <<"L", x, y>> >> \o <<>> = << <<"L", x, y>> >>
  OBVIOUS
<1> QED
  BY <1>1 DEF traceBackPath, Call

(* One turn of the loop, *)
NewY(p) == IF p.y = NaN THEN Height ELSE p.y
Added(s, p, a) ==
    IF a.prevX = NaN THEN <<Call("M", p.x, Axis), Call("L", p.x, NewY(p))>>
    ELSE IF s \in chart.step THEN <<Call("L", p.x, a.prevYs[1]), Call("L", p.x, NewY(p))>>
    ELSE <<Call("L", p.x, NewY(p))>>
Ended(p, a) == [path |-> a.path \o <<Call("L", a.prevX, a.prevYs[2])>>, back |-> <<>>, prevX |-> NaN, at |-> a.at,
                prevYs |-> a.prevYs, lastX |-> a.lastX, lastPoint |-> p.x, bottom |-> a.bottom]
Reaching(s, p, a) == [path |-> a.path \o Added(s, p, a), back |-> a.back, at |-> a.at, prevX |-> p.x,
                      prevYs |-> <<NewY(p), Axis>>, lastX |-> p.x, lastPoint |-> p.x, bottom |-> Axis]

LEMMA TurnIs ==
    ASSUME chart.fill = "off", NEW s, NEW points, NEW i, NEW a, NEW low, NEW p, p = points[i], p.stacked = NaN,
           NEW v, v = fillTo(chart, s, points, i, a, low)
    PROVE  /\ ~ accepted(chart, p) => v = a
           /\ accepted(chart, p) /\ p.y = NaN /\ s \notin chart.step => v = Ended(p, a)
           /\ accepted(chart, p) /\ ~ (p.y = NaN /\ s \notin chart.step) => v = Reaching(s, p, a)
<1>1. ASSUME ~ accepted(chart, p) PROVE v = a
  BY <1>1, Zenon DEF fillTo
<1>2. ASSUME accepted(chart, p), p.y = NaN, s \notin chart.step PROVE v = Ended(p, a)
  <2>1. v = [path  |-> a.path \o traceBackPath(chart, a.prevX, a.prevYs[2], a.back),
             back  |-> <<>>, prevX |-> NaN, at |-> baselineOfMissing(a.at, p), prevYs |-> a.prevYs,
             lastX |-> a.lastX, lastPoint |-> p.x, bottom |-> a.bottom]
    BY <1>2, Zenon DEF fillTo
  <2>2. traceBackPath(chart, a.prevX, a.prevYs[2], a.back) = <<Call("L", a.prevX, a.prevYs[2])>>
    BY TraceIs
  <2>3. baselineOfMissing(a.at, p) = a.at
    BY Zenon DEF baselineOfMissing
  <2> QED
    BY <2>1, <2>2, <2>3 DEF Ended
<1>3. ASSUME accepted(chart, p), ~ (p.y = NaN /\ s \notin chart.step) PROVE v = Reaching(s, p, a)
  <2>1. PICK newYs : newYs = <<NewY(p), Axis>> /\ newYs[1] = NewY(p)
    <3>1. PICK h, b : h = NewY(p) /\ b = Axis
      OBVIOUS
    <3>2. <<h, b>>[1] = h
      OBVIOUS
    <3> QED
      BY <3>1, <3>2
  <2>2. v = [path  |-> a.path \o (IF a.prevX = NaN THEN << <<"M", p.x, Axis>>, <<"L", p.x, newYs[1]>> >>
                                  ELSE IF s \in chart.step THEN << <<"L", p.x, a.prevYs[1]>>, <<"L", p.x, newYs[1]>> >>
                                  ELSE << <<"L", p.x, newYs[1]>> >>),
             back  |-> a.back, at |-> a.at, prevX |-> p.x, prevYs |-> newYs, lastX |-> p.x, lastPoint |-> p.x,
             bottom |-> Axis]
    BY <1>3, <2>1, Zenon DEF fillTo, NewY, Axis
  <2>3. v = [path  |-> a.path \o Added(s, p, a),
             back  |-> a.back, at |-> a.at, prevX |-> p.x, prevYs |-> newYs, lastX |-> p.x, lastPoint |-> p.x,
             bottom |-> Axis]
    BY <2>1, <2>2, Zenon DEF Added, Call
  <2> QED
    BY <2>1, <2>3 DEF Reaching
<1> QED
  BY <1>1, <1>2, <1>3

(* No call of the path is right of x. *)
UpTo(P, x) == \A k \in 1 .. Len(P) : HasX(P, k) => P[k][2] <= x

LEMMA UpToOn ==
    ASSUME NEW P \in Seq(Motions), NEW x \in Int, NEW y \in Int, x <= y, UpTo(P, x)
    PROVE  UpTo(P, y)
<1> SUFFICES ASSUME NEW k \in 1 .. Len(P), HasX(P, k) PROVE P[k][2] <= y
  BY DEF UpTo
<1>1. PICK w \in Int : w = P[k][2] /\ w <= x
  BY DEF UpTo, HasX
<1> QED
  BY <1>1

EndsWith(P, a) == P[Len(P)] = a

(* A path stays in shape with a line to the right, *)
LEMMA LineGrows ==
    ASSUME NEW P, Shaped(P), NEW x \in Int, NEW y \in Int, UpTo(P, x), NEW v, v = P \o <<Call("L", x, y)>>
    PROVE  /\ Shaped(v) /\ UpTo(v, x) /\ EndsWith(v, Call("L", x, y))
<1>1. PICK n \in Nat : n = Len(P) /\ P \in Seq(Motions)
  BY DEF Shaped
<1>2. PICK a \in Motions : a = Call("L", x, y) /\ a[1] = "L" /\ a[2] = x /\ a[3] = y
  BY CallIs
<1>3. PICK w \in Seq(Motions) : IsAdded(w, P, a)
  BY <1>1, <1>2, AddOne
<1>4. v = w
  BY <1>1, <1>2, <1>3, AppendIs DEF IsAdded
<1>5. v \in Seq(Motions) /\ Len(v) = n + 1 /\ v[n + 1] = a /\ \A k \in 1 .. n : v[k] = P[k]
  BY <1>1, <1>3, <1>4 DEF IsAdded
<1>6. HasX(v, n + 1) /\ \A k \in 1 .. n : HasX(v, k) <=> HasX(P, k)
  BY <1>2, <1>5 DEF HasX
<1>7. UpTo(v, x)
  <2> SUFFICES ASSUME NEW k \in 1 .. n + 1, HasX(v, k) PROVE v[k][2] <= x
    BY <1>5 DEF UpTo
  <2>1. CASE k \in 1 .. n
    BY <1>1, <1>5, <1>6, <2>1 DEF UpTo
  <2>2. CASE k = n + 1
    BY <1>2, <1>5, <2>2
  <2>3. k \in 1 .. n \/ k = n + 1
    OBVIOUS
  <2> QED
    BY <2>1, <2>2, <2>3
<1>8. \A k \in 2 .. n + 1 : HasX(v, k)
  <2> SUFFICES ASSUME NEW k \in 2 .. n + 1 PROVE HasX(v, k)
    OBVIOUS
  <2>1. k = n + 1 \/ (k \in 1 .. n /\ k \in 2 .. n)
    OBVIOUS
  <2> QED
    BY <1>1, <1>6, <2>1 DEF Shaped
<1>9. ASSUME NEW j \in 1 .. n + 1, NEW k \in 1 .. n + 1, j <= k, HasX(v, j) PROVE v[j][2] <= v[k][2]
  <2>1. CASE k \in 1 .. n
    <3>1. j \in 1 .. n
      BY <1>9, <2>1
    <3> QED
      BY <1>1, <1>5, <1>6, <1>9, <2>1, <3>1 DEF Shaped
  <2>2. CASE k = n + 1
    BY <1>2, <1>5, <1>7, <1>9, <2>2 DEF UpTo
  <2>3. k \in 1 .. n \/ k = n + 1
    OBVIOUS
  <2> QED
    BY <2>1, <2>2, <2>3
<1>10. ASSUME NEW k \in 1 .. n + 1, v[k][1] = "M" PROVE Moves(v, k)
  <2>1. k \in 1 .. n
    <3>1. k # n + 1
      BY <1>2, <1>5, <1>10
    <3> QED
      BY <3>1
  <2>2. Moves(P, k)
    BY <1>1, <1>5, <1>10, <2>1 DEF Shaped
  <2>3. k < n /\ k + 1 \in 1 .. n /\ k < n + 1 /\ P[k + 1][1] = "L" /\ HasX(P, k) /\ P[k + 1][2] = P[k][2]
    BY <1>1, <2>1, <2>2 DEF Moves
  <2>4. v[k + 1][1] = "L" /\ HasX(v, k) /\ v[k + 1][2] = v[k][2]
    BY <1>5, <1>6, <2>1, <2>3
  <2>5. k > 1 /\ HasX(v, k - 1) => v[k - 1][1] = "L" /\ v[k - 1][3] = v[k][3]
    <3> SUFFICES ASSUME k > 1, HasX(v, k - 1) PROVE v[k - 1][1] = "L" /\ v[k - 1][3] = v[k][3]
      OBVIOUS
    <3>1. PICK l \in 1 .. n : l = k - 1
      BY <2>1
    <3>2. P[l][1] = "L" /\ P[l][3] = P[k][3]
      BY <1>6, <2>2, <3>1 DEF Moves
    <3> QED
      BY <1>5, <2>1, <3>1, <3>2
  <2> QED
    BY <1>5, <2>3, <2>4, <2>5 DEF Moves
<1>11. Shaped(v)
  BY <1>5, <1>8, <1>9, <1>10 DEF Shaped
<1> QED
  BY <1>2, <1>5, <1>7, <1>11 DEF EndsWith

(* with a move there and a line up from it, after a line to the same height, *)
Grounded(P) == Len(P) # 0 /\ HasX(P, Len(P)) => P[Len(P)][1] = "L" /\ P[Len(P)][3] = Axis

LEMMA MoveGrows ==
    ASSUME NEW P, Shaped(P), chart \in Charts, NEW x \in Int, NEW y \in Int, UpTo(P, x), Grounded(P),
           NEW v, v = P \o <<Call("M", x, Axis), Call("L", x, y)>>
    PROVE  Shaped(v) /\ UpTo(v, x) /\ Len(v) = Len(P) + 2
<1>1. PICK n \in Nat : n = Len(P) /\ P \in Seq(Motions)
  BY DEF Shaped
<1>2. PICK a \in Motions : a = Call("M", x, Axis) /\ a[1] = "M" /\ a[2] = x /\ a[3] = Axis
  BY AxisIs, CallIs
<1>3. PICK b \in Motions : b = Call("L", x, y) /\ b[1] = "L" /\ b[2] = x /\ b[3] = y
  BY CallIs
<1>4. PICK u \in Seq(Motions) : IsAdded(u, P, a)
  BY <1>1, AddOne
<1>5. PICK w \in Seq(Motions) : IsAdded(w, u, b)
  BY AddOne
<1>6. v = w
  BY <1>1, <1>2, <1>3, <1>4, <1>5, JoinTwo DEF IsAdded
<1>7. n + 1 + 1 = n + 2
  OBVIOUS
<1>8. /\ v \in Seq(Motions) /\ Len(v) = n + 2 /\ v[n + 1] = a /\ v[n + 2] = b /\ \A k \in 1 .. n : v[k] = P[k]
  BY <1>1, <1>4, <1>5, <1>6, <1>7 DEF IsAdded
<1>9. HasX(v, n + 1) /\ HasX(v, n + 2) /\ \A k \in 1 .. n : HasX(v, k) <=> HasX(P, k)
  BY <1>2, <1>3, <1>8 DEF HasX
<1>10. UpTo(v, x)
  <2> SUFFICES ASSUME NEW k \in 1 .. n + 2, HasX(v, k) PROVE v[k][2] <= x
    BY <1>8 DEF UpTo
  <2>1. CASE k \in 1 .. n
    BY <1>1, <1>8, <1>9, <2>1 DEF UpTo
  <2>2. CASE k = n + 1 \/ k = n + 2
    BY <1>2, <1>3, <1>8, <2>2
  <2>3. k \in 1 .. n \/ k = n + 1 \/ k = n + 2
    OBVIOUS
  <2> QED
    BY <2>1, <2>2, <2>3
<1>11. \A k \in 2 .. n + 2 : HasX(v, k)
  <2> SUFFICES ASSUME NEW k \in 2 .. n + 2 PROVE HasX(v, k)
    OBVIOUS
  <2>1. k = n + 1 \/ k = n + 2 \/ (k \in 1 .. n /\ k \in 2 .. n)
    OBVIOUS
  <2> QED
    BY <1>1, <1>9, <2>1 DEF Shaped
<1>12. ASSUME NEW j \in 1 .. n + 2, NEW k \in 1 .. n + 2, j <= k, HasX(v, j) PROVE v[j][2] <= v[k][2]
  <2>1. CASE k \in 1 .. n
    <3>1. j \in 1 .. n
      BY <1>12, <2>1
    <3> QED
      BY <1>1, <1>8, <1>9, <1>12, <2>1, <3>1 DEF Shaped
  <2>2. CASE k = n + 1 \/ k = n + 2
    <3>1. v[k][2] = x
      BY <1>2, <1>3, <1>8, <2>2
    <3> QED
      BY <1>8, <1>10, <1>12, <3>1 DEF UpTo
  <2>3. k \in 1 .. n \/ k = n + 1 \/ k = n + 2
    OBVIOUS
  <2> QED
    BY <2>1, <2>2, <2>3
<1>13. ASSUME NEW k \in 1 .. n + 2, v[k][1] = "M" PROVE Moves(v, k)
  <2>1. CASE k \in 1 .. n
    <3>2. Moves(P, k)
      BY <1>1, <1>8, <1>13, <2>1 DEF Shaped
    <3>3. k < n /\ k + 1 \in 1 .. n /\ k < n + 2 /\ P[k + 1][1] = "L" /\ HasX(P, k) /\ P[k + 1][2] = P[k][2]
      BY <1>1, <2>1, <3>2 DEF Moves
    <3>4. v[k + 1][1] = "L" /\ HasX(v, k) /\ v[k + 1][2] = v[k][2]
      BY <1>8, <1>9, <2>1, <3>3
    <3>5. k > 1 /\ HasX(v, k - 1) => v[k - 1][1] = "L" /\ v[k - 1][3] = v[k][3]
      <4> SUFFICES ASSUME k > 1, HasX(v, k - 1) PROVE v[k - 1][1] = "L" /\ v[k - 1][3] = v[k][3]
        OBVIOUS
      <4>1. PICK l \in 1 .. n : l = k - 1
        BY <2>1
      <4>2. P[l][1] = "L" /\ P[l][3] = P[k][3]
        BY <1>9, <3>2, <4>1 DEF Moves
      <4> QED
        BY <1>8, <2>1, <4>1, <4>2
    <3> QED
      BY <1>8, <3>3, <3>4, <3>5 DEF Moves
  <2>2. CASE k = n + 1
    <3>1. k < n + 2 /\ k + 1 = n + 2 /\ k - 1 = n
      BY <2>2
    <3>2. v[k + 1][1] = "L" /\ HasX(v, k) /\ v[k + 1][2] = v[k][2]
      BY <1>2, <1>3, <1>8, <1>9, <2>2, <3>1
    <3>3. k > 1 /\ HasX(v, k - 1) => v[k - 1][1] = "L" /\ v[k - 1][3] = v[k][3]
      <4> SUFFICES ASSUME k > 1, HasX(v, n) PROVE v[n][1] = "L" /\ v[n][3] = v[k][3]
        BY <3>1
      <4>1. n \in 1 .. n /\ n # 0
        BY <2>2
      <4>2. HasX(P, n)
        BY <1>9, <4>1
      <4>3. P[n][1] = "L" /\ P[n][3] = Axis
        BY <1>1, <4>1, <4>2 DEF Grounded
      <4> QED
        BY <1>2, <1>8, <2>2, <4>1, <4>3
    <3> QED
      BY <1>8, <3>1, <3>2, <3>3 DEF Moves
  <2>3. k # n + 2
    BY <1>3, <1>8, <1>13
  <2> QED
    BY <2>1, <2>2, <2>3
<1>14. Shaped(v)
  BY <1>8, <1>11, <1>12, <1>13 DEF Shaped
<1> QED
  BY <1>1, <1>8, <1>10, <1>14

(* and when it begins with a line to nowhere. *)
LEMMA NowhereFirst ==
    ASSUME NEW y \in Int, NEW v, v = <<>> \o <<Call("L", NaN, y)>>
    PROVE  Shaped(v) /\ Grounded(v) /\ \A x : UpTo(v, x)
<1>1. PICK a \in Motions : a = Call("L", NaN, y) /\ a[1] = "L" /\ a[2] = NaN
  <2>1. PICK op \in {"M", "L"}, z \in Int \cup {NaN} : op = "L" /\ z = NaN
    OBVIOUS
  <2>2. Call(op, z, y) \in Motions
    BY CallIs
  <2>3. Call(op, z, y)[1] = op /\ Call(op, z, y)[2] = z
    BY DEF Call
  <2> QED
    BY <2>1, <2>2, <2>3
<1>2. v \in Seq(Motions) /\ Len(v) = 1 /\ v[1] = a
  BY <1>1
<1>3. \A k \in 1 .. 1 : ~ HasX(v, k) /\ v[k][1] # "M"
  BY <1>1, <1>2, ChartsAssumption DEF HasX
<1>4. \A k \in 2 .. 1 : FALSE
  OBVIOUS
<1>5. Shaped(v)
  BY <1>2, <1>3, <1>4 DEF Shaped
<1>6. Grounded(v)
  BY <1>2, <1>3 DEF Grounded
<1> QED
  BY <1>2, <1>3, <1>5, <1>6 DEF UpTo

-----------------------------------------------------------------------------
(* What the loop keeps, *)
FillRecords == [path : Seq(Motions), back : {<<>>}, at : {<<>>}, prevX : Int \cup {NaN}, prevYs : Int \X Int,
                lastX : Int \cup {NaN}, lastPoint : Int \cup {NaN}, bottom : {NaN, Axis}]
Fills == {a \in FillRecords : a.bottom # NaN => a.lastPoint \in Int}
Flat(points) == \A i \in 1 .. Len(points) : points[i].stacked = NaN

LEMMA EndedIsTyped ==
    ASSUME NEW a \in Fills, NEW p, p.x \in Int
    PROVE  Ended(p, a) \in Fills
<1>1. /\ a.path \in Seq(Motions) /\ a.prevX \in Int \cup {NaN} /\ a.prevYs \in Int \X Int /\ a.lastX \in Int \cup {NaN}
      /\ a.at = <<>> /\ a.bottom \in {NaN, Axis}
  BY DEF Fills, FillRecords
<1>2. PICK y \in Int : y = a.prevYs[2]
  BY <1>1
<1>3. PICK op \in {"M", "L"} : op = "L"
  OBVIOUS
<1>4. Call(op, a.prevX, y) \in Motions
  BY <1>1, CallIs
<1>5. PICK w : w = a.path \o <<Call("L", a.prevX, a.prevYs[2])>>
  OBVIOUS
<1>6. w \in Seq(Motions)
  BY <1>1, <1>2, <1>3, <1>4, <1>5, AppendIs
<1>7. PICK v : v = Ended(p, a)
  OBVIOUS
<1>8. v = [path |-> w, back |-> <<>>, prevX |-> NaN, at |-> a.at, prevYs |-> a.prevYs, lastX |-> a.lastX,
           lastPoint |-> p.x, bottom |-> a.bottom]
  BY <1>5, <1>7 DEF Ended
<1>9. v \in FillRecords
  BY <1>1, <1>6, <1>8 DEF FillRecords
<1> QED
  BY <1>7, <1>8, <1>9 DEF Fills

LEMMA AddedIs ==
    ASSUME chart \in Charts, NEW s, NEW a \in Fills, NEW p, p.x \in Int, p.y \in Int \cup {NaN}
    PROVE  NewY(p) \in Int /\ Axis \in Int /\ a.path \o Added(s, p, a) \in Seq(Motions)
<1>1. a.path \in Seq(Motions) /\ a.prevYs \in Int \X Int
  BY DEF Fills, FillRecords
<1>2. PICK y \in Int : y = NewY(p)
  BY ChartsAssumption DEF NewY
<1>3. PICK z \in Int : z = a.prevYs[1]
  BY <1>1
<1>4. PICK b \in Int : b = Axis
  BY AxisIs
<1>5. PICK m \in Motions : m = Call("M", p.x, b)
  <2>1. PICK op \in {"M", "L"} : op = "M"
    OBVIOUS
  <2>2. Call(op, p.x, b) \in Motions
    BY CallIs
  <2> QED
    BY <2>1, <2>2
<1>6. PICK l \in Motions, k \in Motions : l = Call("L", p.x, y) /\ k = Call("L", p.x, z)
  <2>1. PICK op \in {"M", "L"} : op = "L"
    OBVIOUS
  <2>2. Call(op, p.x, y) \in Motions /\ Call(op, p.x, z) \in Motions
    BY CallIs
  <2> QED
    BY <2>1, <2>2
<1>7. PICK t : t = Added(s, p, a)
  OBVIOUS
<1>8. t = <<m, l>> \/ t = <<k, l>> \/ t = <<l>>
  BY <1>2, <1>3, <1>4, <1>5, <1>6, <1>7 DEF Added
<1>9. t \in Seq(Motions)
  <2>1. <<m, l>> \in Seq(Motions) /\ <<k, l>> \in Seq(Motions) /\ <<l>> \in Seq(Motions)
    OBVIOUS
  <2> QED
    BY <1>8, <2>1
<1>10. a.path \o t \in Seq(Motions)
  BY <1>1, <1>9, ConcatProperties
<1> QED
  BY <1>2, <1>4, <1>7, <1>10

LEMMA ReachingIsTyped ==
    ASSUME chart \in Charts, NEW s, NEW a \in Fills, NEW p, p.x \in Int, p.y \in Int \cup {NaN}
    PROVE  Reaching(s, p, a) \in Fills
<1>1. a.back = <<>> /\ a.at = <<>>
  BY DEF Fills, FillRecords
<1>2. PICK w \in Seq(Motions), y \in Int, b \in Int : w = a.path \o Added(s, p, a) /\ y = NewY(p) /\ b = Axis
  BY AddedIs
<1>3. PICK v : v = Reaching(s, p, a)
  OBVIOUS
<1>4. v = [path |-> w, back |-> a.back, at |-> a.at, prevX |-> p.x, prevYs |-> <<y, b>>, lastX |-> p.x,
           lastPoint |-> p.x, bottom |-> b]
  BY <1>2, <1>3 DEF Reaching
<1>5. <<y, b>> \in Int \X Int /\ b \in {NaN, Axis}
  BY <1>2
<1>6. v \in FillRecords
  BY <1>1, <1>2, <1>4, <1>5 DEF FillRecords
<1> QED
  BY <1>3, <1>4, <1>6 DEF Fills

LEMMA TurnIsTyped ==
    ASSUME chart.fill = "off", NEW s, NEW points, Fits(s, points), Flat(points), NEW i \in 1 .. Len(points),
           NEW a \in Fills, NEW low
    PROVE  fillTo(chart, s, points, i, a, low) \in Fills
<1>1. PICK p : p = points[i]
  OBVIOUS
<1>2. p.stacked = NaN /\ p.x \in Int /\ p.y \in Int \cup {NaN} /\ chart \in Charts
  <2>1. i \in 1 .. Len(rows)
    BY DEF Fits
  <2>2. p.y = NaN \/ p.y \in Int
    BY <1>1, <2>1, GivenIs
  <2> QED
    BY <1>1, <2>1, <2>2, GivenIs DEF Flat, Fits
<1>3. PICK v : v = fillTo(chart, s, points, i, a, low)
  OBVIOUS
<1>4. v = a \/ v = Ended(p, a) \/ v = Reaching(s, p, a)
  BY <1>1, <1>2, <1>3, TurnIs
<1>5. Ended(p, a) \in Fills
  BY <1>2, EndedIsTyped
<1>6. Reaching(s, p, a) \in Fills
  BY <1>2, ReachingIsTyped
<1> QED
  BY <1>3, <1>4, <1>5, <1>6

(* Of a series of which no two rows without a value come together: a path in shape, none of it *)
(* right of what is to come, and after a value the next line goes on from it.                  *)
Sparse(s) == \A i \in 2 .. Len(rows) : {i - 1, i} \cap Given(s) # {}
FillIs(s, points, i, a) ==
    /\ a \in Fills /\ Shaped(a.path)
    /\ \A m \in i + 1 .. Len(points) : UpTo(a.path, points[m].x)
    /\ a.lastPoint \in Int => UpTo(a.path, a.lastPoint)
    /\ a.prevX # NaN => /\ UpTo(a.path, a.prevX) /\ a.prevYs[2] = Axis
                        /\ \A m \in i + 1 .. Len(points) : a.prevX <= points[m].x
    /\ a.prevX = NaN => Grounded(a.path)
    /\ i \in Given(s) => a.prevX # NaN
    /\ i = 0 => a.path = <<>>

LEMMA FillPasses ==
    ASSUME NEW s, NEW points, Fits(s, points), NEW i \in 1 .. Len(points), NEW a, FillIs(s, points, i - 1, a),
           ~ accepted(chart, points[i])
    PROVE  FillIs(s, points, i, a)
<1>1. PICK n \in Nat : n = Len(rows) /\ n = Len(points)
  BY DEF Fits, IsData
<1>2. i \notin Given(s)
  BY <1>1, GivenIs
<1>3. \A m \in i + 1 .. n : m \in (i - 1) + 1 .. n
  BY <1>1
<1>4. i # 0
  BY <1>1
<1> QED
  BY <1>1, <1>2, <1>3, <1>4 DEF FillIs

LEMMA FillEnds ==
    ASSUME NEW s, NEW points, Fits(s, points), Sparse(s), NEW i \in 1 .. Len(points),
           NEW a, FillIs(s, points, i - 1, a), points[i].y = NaN, NEW v, v = Ended(points[i], a), v \in Fills
    PROVE  FillIs(s, points, i, v)
<1>1. PICK n \in Nat : n = Len(rows) /\ n = Len(points) /\ i \in 1 .. n
  BY DEF Fits, IsData
<1>2. i \notin Given(s)
  BY <1>1, GivenIs
<1>3. PICK y \in Int : y = a.prevYs[2]
  <2>1. a.prevYs \in Int \X Int
    BY DEF FillIs, Fills, FillRecords
  <2> QED
    BY <2>1
<1>4. PICK w : w = a.path \o <<Call("L", a.prevX, y)>>
  OBVIOUS
<1>5. v.path = w /\ v.prevX = NaN /\ v.lastPoint = points[i].x
  BY <1>3, <1>4 DEF Ended
<1>6. i \in (i - 1) + 1 .. n /\ \A m \in i + 1 .. n : m \in 1 .. n /\ i <= m
  BY <1>1
<1>7. points[i].x \in Int /\ \A m \in i + 1 .. n : points[m].x \in Int /\ points[i].x <= points[m].x
  <2>1. \A m \in 1 .. n : points[m].x = rows[m].x /\ points[m].x \in Int
    BY <1>1, GivenIs DEF Fits, IsPlace
  <2>2. \A m \in i + 1 .. n : rows[i].x <= rows[m].x
    BY <1>1, <1>6 DEF Fits, IsData
  <2> QED
    BY <1>1, <1>6, <2>1, <2>2
<1>8. Shaped(w) /\ Grounded(w) /\ UpTo(w, points[i].x)
  <2>1. CASE a.prevX = NaN
    <3>1. i = 1
      <4> SUFFICES ASSUME i # 1 PROVE FALSE
        OBVIOUS
      <4>1. i \in 2 .. n
        BY <1>1
      <4>2. i - 1 \in Given(s)
        BY <1>1, <1>2, <4>1 DEF Sparse
      <4> QED
        BY <2>1, <4>2 DEF FillIs
    <3>2. a.path = <<>>
      BY <3>1 DEF FillIs
    <3>3. w = <<>> \o <<Call("L", NaN, y)>>
      BY <1>4, <2>1, <3>2
    <3> QED
      BY <3>3, NowhereFirst
  <2>2. CASE a.prevX # NaN
    <3>1. PICK x \in Int : x = a.prevX
      BY <2>2 DEF FillIs, Fills, FillRecords
    <3>2. Shaped(a.path) /\ UpTo(a.path, x) /\ y = Axis
      BY <1>3, <2>2, <3>1 DEF FillIs
    <3>3. /\ Shaped(w) /\ UpTo(w, x) /\ w[Len(w)] = Call("L", x, y)
      <4>1. PICK P : P = a.path
        OBVIOUS
      <4>2. w = P \o <<Call("L", x, y)>> /\ Shaped(P) /\ UpTo(P, x)
        BY <1>4, <3>1, <3>2, <4>1
      <4>3. /\ Shaped(w) /\ UpTo(w, x) /\ w[Len(w)] = Call("L", x, y)
        <5>1. Shaped(w) /\ UpTo(w, x) /\ EndsWith(w, Call("L", x, y))
          BY <4>2, LineGrows
        <5> QED
          BY <5>1 DEF EndsWith
      <4> QED
        BY <4>3
    <3>4. w[Len(w)][1] = "L" /\ w[Len(w)][3] = Axis
      <4>1. PICK op \in {"M", "L"}, z \in Int \cup {NaN} : op = "L" /\ z = x
        OBVIOUS
      <4>2. Call(op, z, y)[1] = op /\ Call(op, z, y)[3] = y
        BY CallIs
      <4> QED
        BY <3>2, <3>3, <4>1, <4>2
    <3>5. UpTo(w, points[i].x)
      <4>1. x <= points[i].x
        BY <1>1, <1>6, <2>2, <3>1 DEF FillIs
      <4>2. w \in Seq(Motions)
        BY <3>3 DEF Shaped
      <4> QED
        BY <1>7, <3>3, <4>1, <4>2, UpToOn
    <3> QED
      BY <3>3, <3>4, <3>5 DEF Grounded
  <2> QED
    BY <2>1, <2>2
<1>9. \A m \in i + 1 .. n : UpTo(w, points[m].x)
  BY <1>7, <1>8, UpToOn DEF Shaped
<1> QED
  BY <1>1, <1>2, <1>5, <1>8, <1>9 DEF FillIs

LEMMA FillReaches ==
    ASSUME NEW s, NEW points, Fits(s, points), NEW i \in 1 .. Len(points),
           NEW a, FillIs(s, points, i - 1, a), NEW v, v = Reaching(s, points[i], a), v \in Fills
    PROVE  FillIs(s, points, i, v)
<1>1. PICK n \in Nat : n = Len(rows) /\ n = Len(points) /\ i \in 1 .. n
  BY DEF Fits, IsData
<1>2. i \in (i - 1) + 1 .. n /\ \A m \in i + 1 .. n : m \in 1 .. n /\ i <= m
  BY <1>1
<1>3. \A m \in 1 .. n : points[m].x = rows[m].x /\ points[m].x \in Int
  BY <1>1, GivenIs DEF Fits, IsPlace
<1>4. PICK x \in Int : x = points[i].x /\ \A m \in i + 1 .. n : points[m].x \in Int /\ x <= points[m].x
  <2>1. \A m \in i + 1 .. n : rows[i].x <= rows[m].x
    BY <1>1, <1>2 DEF Fits, IsData
  <2> QED
    BY <1>1, <1>2, <1>3, <2>1
<1>5. PICK p : p = points[i] /\ p.x = x
  BY <1>4
<1>6. chart \in Charts /\ p.y \in Int \cup {NaN}
  <2>1. p.y = NaN \/ p.y \in Int
    BY <1>1, <1>5, GivenIs
  <2> QED
    BY <2>1 DEF Fits
<1>7. PICK y \in Int, z \in Int, b \in Int : y = NewY(p) /\ z = a.prevYs[1] /\ b = Axis
  <2>1. a \in Fills /\ a.prevYs \in Int \X Int
    BY DEF FillIs, Fills, FillRecords
  <2>2. NewY(p) \in Int /\ Axis \in Int
    BY <1>5, <1>6, <2>1, AddedIs
  <2> QED
    BY <2>1, <2>2
<1>8. PICK P : P = a.path /\ Shaped(P) /\ UpTo(P, x)
  BY <1>1, <1>2, <1>4 DEF FillIs
<1>9. PICK w : w = P \o Added(s, p, a)
  OBVIOUS
<1>10. v.path = w /\ v.prevX = x /\ v.lastPoint = x /\ v.prevYs = <<y, b>>
  BY <1>5, <1>7, <1>8, <1>9 DEF Reaching
<1>11. Shaped(w) /\ UpTo(w, x)
  <2>1. CASE a.prevX = NaN
    <3>1. w = P \o <<Call("M", x, Axis), Call("L", x, y)>>
      BY <1>5, <1>7, <1>9, <2>1 DEF Added
    <3>2. Grounded(P)
      BY <1>8, <2>1 DEF FillIs
    <3> QED
      BY <1>6, <1>8, <3>1, <3>2, MoveGrows
  <2>2. CASE a.prevX # NaN /\ s \in chart.step
    <3>1. PICK u : u = P \o <<Call("L", x, z)>>
      OBVIOUS
    <3>2. Shaped(u) /\ UpTo(u, x)
      BY <1>8, <3>1, LineGrows
    <3>3. PICK t : t = u \o <<Call("L", x, y)>>
      OBVIOUS
    <3>4. Shaped(t) /\ UpTo(t, x)
      BY <3>2, <3>3, LineGrows
    <3>5. w = P \o <<Call("L", x, z), Call("L", x, y)>>
      BY <1>5, <1>7, <1>9, <2>2 DEF Added
    <3>6. PICK l \in Motions, k \in Motions : l = Call("L", x, z) /\ k = Call("L", x, y)
      <4>1. PICK op \in {"M", "L"} : op = "L"
        OBVIOUS
      <4>2. Call(op, x, z) \in Motions /\ Call(op, x, y) \in Motions
        BY CallIs
      <4> QED
        BY <4>1, <4>2
    <3>7. P \in Seq(Motions) /\ u \in Seq(Motions)
      BY <1>8, <3>2 DEF Shaped
    <3>8. P \o <<l, k>> = Append(Append(P, l), k) /\ u = Append(P, l) /\ t = Append(u, k)
      BY <3>1, <3>3, <3>6, <3>7, AppendIs, JoinTwo
    <3> QED
      BY <3>4, <3>5, <3>6, <3>8
  <2>3. CASE a.prevX # NaN /\ s \notin chart.step
    <3>1. w = P \o <<Call("L", x, y)>>
      BY <1>5, <1>7, <1>9, <2>3 DEF Added
    <3> QED
      BY <1>8, <3>1, LineGrows
  <2> QED
    BY <2>1, <2>2, <2>3
<1>12. \A m \in i + 1 .. n : UpTo(w, points[m].x)
  BY <1>4, <1>11, UpToOn DEF Shaped
<1>13. x # NaN
  BY ChartsAssumption
<1>14. v.prevYs[2] = Axis
  <2>1. <<y, b>>[2] = b
    OBVIOUS
  <2> QED
    BY <1>7, <1>10, <2>1
<1> QED
  BY <1>1, <1>4, <1>10, <1>11, <1>12, <1>13, <1>14 DEF FillIs

Lows == {l \in [at : {<<>>}, step : BOOLEAN, lastPoint : Int \cup {NaN}, bottom : {NaN, Axis}] :
            l.bottom # NaN => l.lastPoint \in Int}
Unfilled(low) == [path |-> <<>>, back |-> <<>>, at |-> low.at, prevX |-> NaN, prevYs |-> <<-1, -1>>,
                  lastX |-> NaN, lastPoint |-> low.lastPoint, bottom |-> low.bottom]

LEMMA FillStarts ==
    ASSUME NEW s, NEW points, Fits(s, points), NEW low \in Lows
    PROVE  Unfilled(low) \in Fills /\ FillIs(s, points, 0, Unfilled(low))
<1>1. PICK a : a = Unfilled(low)
  OBVIOUS
<1>2. <<>> \in Seq(Motions) /\ <<-1, -1>> \in Int \X Int /\ Len(<<>>) = 0
  OBVIOUS
<1>3. low.at = <<>> /\ low.lastPoint \in Int \cup {NaN} /\ low.bottom \in {NaN, Axis}
      /\ (low.bottom # NaN => low.lastPoint \in Int)
  BY DEF Lows
<1>4. a.path = <<>> /\ a.prevX = NaN /\ a.lastPoint = low.lastPoint /\ a.bottom = low.bottom
  BY <1>1 DEF Unfilled
<1>5. a \in FillRecords
  BY <1>1, <1>2, <1>3 DEF Unfilled, FillRecords
<1>6. a \in Fills
  BY <1>3, <1>4, <1>5 DEF Fills
<1>7. Shaped(<<>>) /\ Grounded(<<>>) /\ \A x : UpTo(<<>>, x)
  <2>1. PICK e : e = <<>> /\ e \in Seq(Motions) /\ Len(e) = 0
    BY <1>2
  <2>2. (\A k \in 2 .. 0 : FALSE) /\ (\A k \in 1 .. 0 : FALSE)
    OBVIOUS
  <2>3. Shaped(e) /\ Grounded(e) /\ \A x : UpTo(e, x)
    BY <2>1, <2>2 DEF Shaped, Grounded, UpTo
  <2> QED
    BY <2>1, <2>3
<1>8. 0 \notin Given(s)
  BY DEF Given, Fits, IsData
<1> QED
  BY <1>1, <1>4, <1>6, <1>7, <1>8 DEF FillIs

(* from the first row to the last one. *)
FillStep(h, s, points, low, i) == IF i = 0 THEN Unfilled(low) ELSE fillTo(chart, s, points, i, h[i - 1], low)
IsFill(h, s, points, low) == h = [i \in 0 .. Len(points) |-> FillStep(h, s, points, low, i)]

LEMMA FillsExist ==
    ASSUME chart.fill = "off", NEW s, NEW points, Fits(s, points), Flat(points), NEW low \in Lows
    PROVE  \E h : IsFill(h, s, points, low)
<1> DEFINE next(i, a) == fillTo(chart, s, points, i, a, low)
           F == [r \in (1 .. Len(points)) \X Fills |-> next(r[1], r[2])]
<1>1. PICK n \in Nat : n = Len(points)
  BY DEF Fits, IsData
<1>2. F \in [(1 .. n) \X Fills -> Fills]
  <2>1. \A i \in 1 .. n, a \in Fills : next(i, a) \in Fills
    BY <1>1, TurnIsTyped
  <2> HIDE DEF next
  <2> QED
    BY <1>1, <2>1
<1>3. PICK h \in [0 .. n -> Fills] : IsRun(h, n, F, Unfilled(low))
  <2> HIDE DEF F
  <2> QED
    BY <1>2, FillStarts, RunsExist
<1>4. ASSUME NEW i \in 0 .. n PROVE h[i] = FillStep(h, s, points, low, i)
  <2>1. CASE i = 0
    BY <1>3, <2>1 DEF IsRun, FillStep
  <2>2. CASE i # 0
    <3>1. i \in 1 .. n /\ i - 1 \in 0 .. n
      BY <2>2
    <3>2. PICK a \in Fills : a = h[i - 1]
      BY <3>1
    <3>3. h[i] = F[<<i, a>>]
      <4> HIDE DEF F
      <4> QED
        BY <1>3, <3>1, <3>2 DEF IsRun
    <3>4. F[<<i, a>>] = next(i, a)
      <4> HIDE DEF next
      <4> QED
        BY <1>1, <3>1
    <3> QED
      BY <2>2, <3>2, <3>3, <3>4 DEF FillStep
  <2> QED
    BY <2>1, <2>2
<1>5. h = [i \in 0 .. n |-> h[i]]
  OBVIOUS
<1>6. h = [i \in 0 .. n |-> FillStep(h, s, points, low, i)]
  BY <1>4, <1>5
<1> QED
  BY <1>1, <1>6 DEF IsFill

(* Whatever is filled is typed, and of such a series it is as above. *)
FillKept(s, points, i, a) == a \in Fills /\ (Sparse(s) => FillIs(s, points, i, a))

LEMMA FillGoesOn ==
    ASSUME chart.fill = "off", NEW s, NEW points, Fits(s, points), Flat(points), NEW low, NEW i \in 1 .. Len(points),
           NEW a, FillKept(s, points, i - 1, a)
    PROVE  FillKept(s, points, i, fillTo(chart, s, points, i, a, low))
<1>1. PICK p, v : p = points[i] /\ v = fillTo(chart, s, points, i, a, low)
  OBVIOUS
<1>2. a \in Fills
  BY DEF FillKept
<1>3. v \in Fills
  BY <1>1, <1>2, TurnIsTyped
<1>4. p.stacked = NaN
  BY <1>1 DEF Flat
<1>5. ASSUME Sparse(s) PROVE FillIs(s, points, i, v)
  <2>1. FillIs(s, points, i - 1, a)
    BY <1>5 DEF FillKept
  <2>2. CASE ~ accepted(chart, p)
    <3>1. v = a
      BY <1>1, <1>4, <2>2, TurnIs
    <3> QED
      BY <1>1, <2>1, <2>2, <3>1, FillPasses
  <2>3. CASE accepted(chart, p) /\ p.y = NaN /\ s \notin chart.step
    <3>1. v = Ended(p, a)
      BY <1>1, <1>4, <2>3, TurnIs
    <3> QED
      BY <1>1, <1>3, <1>5, <2>1, <2>3, <3>1, FillEnds
  <2>4. CASE accepted(chart, p) /\ ~ (p.y = NaN /\ s \notin chart.step)
    <3>1. v = Reaching(s, p, a)
      BY <1>1, <1>4, <2>4, TurnIs
    <3> QED
      BY <1>1, <1>3, <2>1, <3>1, FillReaches
  <2> QED
    BY <2>2, <2>3, <2>4
<1> QED
  BY <1>1, <1>3, <1>5 DEF FillKept

LEMMA FillIsKept ==
    ASSUME chart.fill = "off", NEW s, NEW points, Fits(s, points), Flat(points), NEW low \in Lows,
           NEW h, IsFill(h, s, points, low)
    PROVE  FillKept(s, points, Len(points), h[Len(points)])
<1>1. PICK n \in Nat : n = Len(points)
  BY DEF Fits, IsData
<1>2. PICK W : W = {i \in 0 .. n : FillKept(s, points, i, h[i])}
  OBVIOUS
<1>3. W \in SUBSET (0 .. n)
  BY <1>2
<1>4. 0 \in W
  <2>1. 0 \in 0 .. n
    OBVIOUS
  <2>2. h[0] = Unfilled(low)
    BY <1>1, <2>1 DEF IsFill, FillStep
  <2>3. FillKept(s, points, 0, h[0])
    BY <2>2, FillStarts DEF FillKept
  <2> QED
    BY <1>2, <2>1, <2>3, Zenon
<1>5. ASSUME NEW i \in 1 .. n, i - 1 \in W PROVE i \in W
  <2>1. i \in 0 .. n /\ i # 0
    OBVIOUS
  <2>2. PICK a : a = h[i - 1]
    OBVIOUS
  <2>3. FillKept(s, points, i - 1, a)
    BY <1>2, <1>5, <2>2, Zenon
  <2>4. h[i] = fillTo(chart, s, points, i, a, low)
    BY <1>1, <2>1, <2>2 DEF IsFill, FillStep
  <2>5. FillKept(s, points, i, h[i])
    BY <1>1, <2>3, <2>4, FillGoesOn
  <2> QED
    BY <1>2, <2>1, <2>5, Zenon
<1>6. n \in W
  BY <1>3, <1>4, <1>5, Upward
<1> QED
  BY <1>1, <1>2, <1>6, Zenon

(* So is the series, with the line to the bottom that comes last. *)
LEMMA SeriesIsFilled ==
    ASSUME chart.fill = "off", NEW s, NEW points, Fits(s, points), Flat(points), NEW low \in Lows
    PROVE  /\ fillSeries(chart, s, points, low).low \in Lows
           /\ Sparse(s) => Shaped(fillSeries(chart, s, points, low).path)
<1>1. PICK n \in Nat : n = Len(points)
  BY DEF Fits, IsData
<1>2. PICK h : h = CHOOSE g : IsFill(g, s, points, low)
  OBVIOUS
<1>3. IsFill(h, s, points, low)
  BY <1>2, FillsExist
<1>4. PICK out : out = h[n]
  OBVIOUS
<1>5. FillKept(s, points, n, out)
  BY <1>1, <1>3, <1>4, FillIsKept
<1>6. PICK v : v = fillSeries(chart, s, points, low)
  OBVIOUS
<1>7. v = [path |-> IF out.bottom = NaN THEN out.path
                    ELSE out.path \o traceBackPath(chart, out.lastPoint, out.bottom, out.back),
           low  |-> [at |-> out.at, step |-> s \in chart.step, lastPoint |-> out.lastPoint, bottom |-> out.bottom]]
  <2>1. PICK g : g = h[Len(points)]
    OBVIOUS
  <2>2. v = [path |-> IF g.bottom = NaN THEN g.path
                      ELSE g.path \o traceBackPath(chart, g.lastPoint, g.bottom, g.back),
             low  |-> [at |-> g.at, step |-> s \in chart.step, lastPoint |-> g.lastPoint, bottom |-> g.bottom]]
    <3>1. v.path = IF g.bottom = NaN THEN g.path
                   ELSE g.path \o traceBackPath(chart, g.lastPoint, g.bottom, g.back)
      <4>1. CASE g.bottom = NaN
        <5>1. v.path = g.path
          BY <1>2, <1>6, <2>1, <4>1 DEF fillSeries, IsFill, FillStep, Unfilled
        <5> QED
          BY <4>1, <5>1
      <4>2. CASE g.bottom # NaN
        <5>1. v.path = g.path \o traceBackPath(chart, g.lastPoint, g.bottom, g.back)
          BY <1>2, <1>6, <2>1, <4>2 DEF fillSeries, IsFill, FillStep, Unfilled
        <5> QED
          BY <4>2, <5>1
      <4> QED
        BY <4>1, <4>2
    <3>2. v.low = [at |-> g.at, step |-> s \in chart.step, lastPoint |-> g.lastPoint, bottom |-> g.bottom]
      BY <1>2, <1>6, <2>1 DEF fillSeries, IsFill, FillStep, Unfilled
    <3>3. v = [path |-> v.path, low |-> v.low]
      BY <1>6, Zenon DEF fillSeries
    <3> QED
      BY <3>1, <3>2, <3>3
  <2>3. g = out
    BY <1>1, <1>4, <2>1
  <2> QED
    BY <2>2, <2>3
<1>8. out.at = <<>> /\ out.lastPoint \in Int \cup {NaN} /\ out.bottom \in {NaN, Axis} /\ out.path \in Seq(Motions)
      /\ (out.bottom # NaN => out.lastPoint \in Int)
  BY <1>5 DEF FillKept, Fills, FillRecords
<1>9. v.low \in Lows
  <2>1. PICK b \in BOOLEAN : b <=> s \in chart.step
    OBVIOUS
  <2>2. v.low = [at |-> out.at, step |-> b, lastPoint |-> out.lastPoint, bottom |-> out.bottom]
    BY <1>7, <2>1
  <2> QED
    BY <1>8, <2>2 DEF Lows
<1>10. ASSUME Sparse(s) PROVE Shaped(v.path)
  <2>1. FillIs(s, points, n, out)
    BY <1>5, <1>10 DEF FillKept
  <2>2. CASE out.bottom = NaN
    BY <1>7, <2>1, <2>2 DEF FillIs
  <2>3. CASE out.bottom # NaN
    <3>1. PICK x \in Int, y \in Int : x = out.lastPoint /\ y = out.bottom
      <4>1. Axis \in Int
        BY AxisIs DEF Fits
      <4> QED
        BY <1>8, <2>3, <4>1
    <3>2. traceBackPath(chart, out.lastPoint, out.bottom, out.back) = <<Call("L", out.lastPoint, out.bottom)>>
      BY TraceIs
    <3>3. PICK P : P = out.path
      OBVIOUS
    <3>4. v.path = P \o <<Call("L", x, y)>>
      BY <1>7, <2>3, <3>1, <3>2, <3>3
    <3>5. Shaped(P) /\ UpTo(P, x)
      BY <2>1, <3>1, <3>3 DEF FillIs
    <3> QED
      BY <3>4, <3>5, LineGrows
  <2> QED
    BY <2>2, <2>3
<1> QED
  BY <1>6, <1>9, <1>10

-----------------------------------------------------------------------------
(* All the series, from the last to the first (_fillPlotter).              *)
AreFlat(laid) == \A s \in chart.series : Fits(s, laid[s]) /\ Flat(laid[s])
NoneBelow == [at |-> <<>>, step |-> FALSE, lastPoint |-> NaN, bottom |-> NaN]
LowStep(h, laid, last, c) ==
    IF c = last THEN NoneBelow
    ELSE IF c + 1 \in chart.series THEN fillSeries(chart, c + 1, laid[c + 1], h[c + 1]).low
    ELSE h[c + 1]
AreLow(h, laid, last) == h = [c \in 0 .. last |-> LowStep(h, laid, last, c)]

LEMMA NoneIsLow == NoneBelow \in Lows
BY DEF NoneBelow, Lows

LEMMA LowIsTyped ==
    ASSUME chart.fill = "off", NEW laid, AreFlat(laid), NEW c \in Nat, NEW l \in Lows, c + 1 \in chart.series
    PROVE  fillSeries(chart, c + 1, laid[c + 1], l).low \in Lows
<1>1. PICK s, points : s = c + 1 /\ points = laid[s]
  OBVIOUS
<1>2. Fits(s, points) /\ Flat(points)
  BY <1>1 DEF AreFlat
<1>3. fillSeries(chart, s, points, l).low \in Lows
  BY <1>2, SeriesIsFilled
<1> QED
  BY <1>1, <1>3

LEMMA LowsExist ==
    ASSUME chart.fill = "off", NEW laid, AreFlat(laid), NEW last \in Nat
    PROVE  \E h : AreLow(h, laid, last)
<1> DEFINE next(c, l) == IF c + 1 \in chart.series THEN fillSeries(chart, c + 1, laid[c + 1], l).low ELSE l
           F == [r \in (1 .. last) \X Lows |-> next(last - r[1], r[2])]
<1>1. F \in [(1 .. last) \X Lows -> Lows]
  <2>1. ASSUME NEW r \in (1 .. last) \X Lows PROVE next(last - r[1], r[2]) \in Lows
    <3>1. PICK l \in Lows, c \in Nat : l = r[2] /\ c = last - r[1]
      OBVIOUS
    <3>2. CASE c + 1 \in chart.series
      <4>1. fillSeries(chart, c + 1, laid[c + 1], l).low \in Lows
        BY <3>2, LowIsTyped
      <4> QED
        BY <3>1, <3>2, <4>1
    <3>3. CASE c + 1 \notin chart.series
      BY <3>1, <3>3
    <3> QED
      BY <3>2, <3>3
  <2> HIDE DEF next
  <2> QED
    BY <2>1
<1>2. PICK g \in [0 .. last -> Lows] : IsRun(g, last, F, NoneBelow)
  <2> HIDE DEF F
  <2> QED
    BY <1>1, NoneIsLow, RunsExist
<1>3. PICK h : h = [c \in 0 .. last |-> g[last - c]]
  OBVIOUS
<1>4. ASSUME NEW c \in 0 .. last PROVE h[c] = LowStep(h, laid, last, c)
  <2>1. CASE c = last
    <3>1. last - c = 0 /\ h[c] = g[0]
      BY <1>3, <2>1
    <3> QED
      BY <1>2, <2>1, <3>1 DEF IsRun, LowStep
  <2>2. CASE c # last
    <3>1. PICK i \in 1 .. last : i = last - c /\ i - 1 = last - (c + 1) /\ c = last - i /\ c + 1 \in 0 .. last
      <4>1. last - c \in 1 .. last /\ last - c - 1 = last - (c + 1) /\ c = last - (last - c) /\ c + 1 \in 0 .. last
        BY <2>2
      <4> QED
        BY <4>1
    <3>2. h[c] = g[i] /\ h[c + 1] = g[i - 1] /\ i - 1 \in 0 .. last
      BY <1>3, <3>1
    <3>3. g[i] = F[<<i, g[i - 1]>>] /\ g[i - 1] \in Lows
      BY <1>2, <3>2 DEF IsRun
    <3>4. F[<<i, g[i - 1]>>] = next(last - i, g[i - 1])
      <4> HIDE DEF next
      <4> QED
        BY <3>3
    <3>5. h[c] = next(c, h[c + 1])
      <4> HIDE DEF next, F
      <4> QED
        BY <3>1, <3>2, <3>3, <3>4
    <3> QED
      BY <2>2, <3>5 DEF LowStep
  <2> QED
    BY <2>1, <2>2
<1>5. h = [c \in 0 .. last |-> h[c]]
  BY <1>3
<1>6. h = [c \in 0 .. last |-> LowStep(h, laid, last, c)]
  BY <1>4, <1>5
<1> QED
  BY <1>6 DEF AreLow

LEMMA LowsAreTyped ==
    ASSUME chart.fill = "off", NEW laid, AreFlat(laid), NEW last \in Nat, NEW h, AreLow(h, laid, last),
           NEW s \in 0 .. last
    PROVE  h[s] \in Lows
<1>0. PICK n \in Nat : n = last - s /\ last - n = s /\ n <= last
  <2>1. last - s \in Nat /\ last - (last - s) = s /\ last - s <= last
    OBVIOUS
  <2> QED
    BY <2>1
<1>1. PICK W : W = {m \in 0 .. n : h[last - m] \in Lows}
  OBVIOUS
<1>2. W \in SUBSET (0 .. n)
  BY <1>1
<1>3. 0 \in W
  <2>1. 0 \in 0 .. n /\ last - 0 = last /\ last \in 0 .. last
    OBVIOUS
  <2>2. h[last] = NoneBelow
    BY <2>1 DEF AreLow, LowStep
  <2> QED
    BY <1>1, <2>1, <2>2, NoneIsLow
<1>4. ASSUME NEW m \in 1 .. n, m - 1 \in W PROVE m \in W
  <2>1. PICK c \in 0 .. last : c = last - m /\ c + 1 = last - (m - 1) /\ c # last
    <3>1. last - m \in 0 .. last /\ last - m + 1 = last - (m - 1) /\ last - m # last
      BY <1>0
    <3> QED
      BY <3>1
  <2>2. PICK l \in Lows : l = h[c + 1]
    BY <1>1, <1>4, <2>1
  <2>3. h[c] = LowStep(h, laid, last, c)
    BY DEF AreLow
  <2>4. h[c] \in Lows
    <3>1. CASE c + 1 \in chart.series
      <4>1. fillSeries(chart, c + 1, laid[c + 1], l).low \in Lows
        BY <3>1, LowIsTyped
      <4> QED
        BY <2>1, <2>2, <2>3, <3>1, <4>1 DEF LowStep
    <3>2. CASE c + 1 \notin chart.series
      BY <2>1, <2>2, <2>3, <3>2 DEF LowStep
    <3> QED
      BY <3>1, <3>2
  <2>5. m \in 0 .. n
    OBVIOUS
  <2> QED
    BY <1>1, <2>1, <2>4, <2>5
<1>5. n \in W
  BY <1>2, <1>3, <1>4, Upward
<1> QED
  BY <1>0, <1>1, <1>5

LEMMA FillsAreShaped ==
    ASSUME chart \in Charts, chart.fill = "off", NEW laid, AreFlat(laid), NEW s \in chart.series, Sparse(s)
    PROVE  Shaped(fillPlotter(chart, laid)[s])
<1>1. PICK last : last = Max(chart.series \cup {0})
  OBVIOUS
<1>2. last \in Nat /\ s \in 0 .. last
  <2>1. IsFiniteSet(chart.series) /\ chart.series \subseteq Nat \ {0}
    BY ChartsAssumption
  <2>2. last \in Nat /\ s \in 1 .. last
    BY <1>1, <2>1, LargestIs
  <2> QED
    BY <2>2
<1>3. PICK h : h = CHOOSE g : AreLow(g, laid, last)
  OBVIOUS
<1>4. AreLow(h, laid, last)
  BY <1>2, <1>3, LowsExist
<1>5. h[s] \in Lows
  BY <1>2, <1>4, LowsAreTyped
<1>6. fillPlotter(chart, laid)[s] = fillSeries(chart, s, laid[s], h[s]).path
  BY <1>1, <1>3 DEF fillPlotter, AreLow, LowStep, NoneBelow
<1>7. PICK points, l : points = laid[s] /\ l = h[s]
  OBVIOUS
<1>8. Fits(s, points) /\ Flat(points)
  BY <1>7 DEF AreFlat
<1>9. Shaped(fillSeries(chart, s, points, l).path)
  BY <1>5, <1>7, <1>8, SeriesIsFilled
<1> QED
  BY <1>6, <1>7, <1>9

-----------------------------------------------------------------------------
(* The draws. *)

(* What is on the canvas is always the drawing of the data of now, whose rows are in order. *)
Row == [x : Int, ys : [chart.series -> chart.values]]
PaintInv ==
    /\ chart \in Charts
    /\ rows \in Seq(Row) /\ \A i, j \in DOMAIN rows : i <= j => rows[i].x <= rows[j].x
    /\ layout = LaidOut(chart, rows)
    /\ painted = drawGraph(chart, rows, renderLineChart(chart, layout))

LEMMA DataIs == PaintInv => IsData(chart, rows)
<1> SUFFICES ASSUME PaintInv PROVE IsData(chart, rows)
  OBVIOUS
<1>1. Len(rows) \in Nat /\ DOMAIN rows = 1 .. Len(rows)
  BY DEF PaintInv
<1>2. ASSUME NEW i \in 1 .. Len(rows) PROVE rows[i].x \in Int /\ \A s \in chart.series : rows[i].ys[s] \in Value
  <2>1. rows[i] \in Row
    BY <1>2 DEF PaintInv
  <2>2. chart.values \subseteq Value
    BY ChartsAssumption DEF PaintInv, Value
  <2> QED
    BY <2>1, <2>2 DEF Row
<1>3. \A i, j \in 1 .. Len(rows) : i <= j => rows[i].x <= rows[j].x
  BY <1>1 DEF PaintInv
<1> QED
  BY <1>1, <1>2, <1>3 DEF IsData

LEMMA InitPaint == Init => PaintInv
<1> SUFFICES ASSUME Init PROVE PaintInv
  OBVIOUS
<1>1. rows = <<>> /\ chart \in Charts
  BY DEF Init
<1>2. rows \in Seq(Row) /\ DOMAIN rows = {}
  BY <1>1
<1>3. layout = LaidOut(chart, rows) /\ painted = drawGraph(chart, rows, renderLineChart(chart, layout))
  BY <1>1 DEF Init
<1> QED
  BY <1>1, <1>2, <1>3 DEF PaintInv

(* The row that comes is not before the last one. *)
LEMMA NextPaint == PaintInv /\ NextRow => PaintInv'
<1> SUFFICES ASSUME PaintInv, NextRow PROVE PaintInv'
  OBVIOUS
<1>1. PICK dx \in chart.steps, ys \in [chart.series -> chart.values] :
          rows' = Append(rows, [x |-> IF rows = <<>> THEN 1 ELSE Last(rows).x + dx, ys |-> ys])
  BY DEF NextRow
<1>2. PICK x : x = IF rows = <<>> THEN 1 ELSE Last(rows).x + dx
  OBVIOUS
<1>3. PICK row : row = [x |-> x, ys |-> ys]
  OBVIOUS
<1>4. chart' = chart /\ Row' = Row /\ chart' \in Charts
  BY DEF NextRow, PaintInv, Row
<1>5. PICK n \in Nat : n = Len(rows) /\ DOMAIN rows = 1 .. n
  BY DEF PaintInv
<1>6. \A i \in 1 .. n : rows[i] \in Row /\ rows[i].x \in Int
  <2> SUFFICES ASSUME NEW i \in 1 .. n PROVE rows[i] \in Row /\ rows[i].x \in Int
    OBVIOUS
  <2>1. rows[i] \in Row
    BY <1>5 DEF PaintInv
  <2> QED
    BY <2>1 DEF Row
<1>7. x \in Int /\ \A i \in 1 .. n : rows[i].x <= x
  <2>1. CASE rows = <<>>
    <3>1. n = 0
      BY <1>5, <2>1
    <3> QED
      BY <1>2, <2>1, <3>1
  <2>2. CASE rows # <<>>
    <3>1. n \in 1 .. n
      <4>1. n # 0
        BY <1>5, <2>2, EmptySeq DEF PaintInv
      <4> QED
        BY <4>1
    <3>2. dx \in Nat
      BY ChartsAssumption DEF PaintInv
    <3>3. x = rows[n].x + dx
      BY <1>2, <1>5, <2>2 DEF Last
    <3>4. \A i \in 1 .. n : rows[i].x <= rows[n].x
      BY <1>5, <3>1 DEF PaintInv
    <3> QED
      BY <1>6, <3>1, <3>2, <3>3, <3>4
  <2> QED
    BY <2>1, <2>2
<1>8. row \in Row
  BY <1>3, <1>7 DEF Row
<1>9. PICK v \in Seq(Row) : IsAdded(v, rows, row)
  BY <1>8, AddOne DEF PaintInv
<1>10. rows' = v
  BY <1>1, <1>2, <1>3, <1>9 DEF IsAdded
<1>11. Len(v) = n + 1 /\ v[n + 1] = row /\ (\A i \in 1 .. n : v[i] = rows[i]) /\ DOMAIN v = 1 .. n + 1
  BY <1>5, <1>9 DEF IsAdded
<1>12. ASSUME NEW i \in 1 .. n + 1, NEW j \in 1 .. n + 1, i <= j PROVE v[i].x <= v[j].x
  <2>1. row.x = x
    BY <1>3
  <2>2. CASE j \in 1 .. n
    <3>1. i \in 1 .. n
      BY <1>12, <2>2
    <3>2. rows[i].x <= rows[j].x
      BY <1>5, <1>12, <2>2, <3>1 DEF PaintInv
    <3> QED
      BY <1>11, <2>2, <3>1, <3>2
  <2>3. CASE j = n + 1 /\ i \in 1 .. n
    BY <1>7, <1>11, <2>1, <2>3
  <2>4. CASE j = n + 1 /\ i = n + 1
    BY <1>7, <1>11, <2>1, <2>4
  <2>5. j \in 1 .. n \/ (j = n + 1 /\ (i \in 1 .. n \/ i = n + 1))
    BY <1>12
  <2> QED
    BY <2>2, <2>3, <2>4, <2>5
<1>13. rows' \in Seq(Row') /\ \A i, j \in DOMAIN rows' : i <= j => rows'[i].x <= rows'[j].x
  BY <1>4, <1>10, <1>11, <1>12
<1>14. layout' = LaidOut(chart', rows') /\ painted' = drawGraph(chart', rows', renderLineChart(chart', layout'))
  BY <1>4 DEF NextRow
<1> QED
  BY <1>4, <1>13, <1>14 DEF PaintInv

(* Every draw lays out all the data that has come, whose rows are in the order of their x, *)
(* and paints that layout, of every chart of the page (drawGraph_ and renderGraph_ after a  *)
(* row is added: nothing of an earlier draw is left).                                       *)
THEOREM PaintedIsOfNow == Spec => []PaintInv
<1>1. PaintInv /\ [Next]_paintVars => PaintInv'
  <2> SUFFICES ASSUME PaintInv, [Next]_paintVars PROVE PaintInv'
    OBVIOUS
  <2>1. CASE NextRow
    BY <2>1, NextPaint
  <2>2. CASE UNCHANGED paintVars
    BY <2>2 DEF PaintInv, paintVars, Row
  <2> QED
    BY <2>1, <2>2 DEF Next
<1> QED
  BY <1>1, InitPaint, PTL DEF Spec

(* Whatever the data, its gaps and the options: the lines on the canvas are just those    *)
(* between neighbours (over steps, to the edge of a gap, where steps are drawn), and a     *)
(* value that no line touches is a dot (the pen of _drawSeries, with the look-ahead of     *)
(* the iterator): no reading is invisible and no gap is drawn over.                        *)
THEOREM LinesJoinNeighbours == Spec => []StrokesJoinNeighbours
<1>1. PaintInv => StrokesJoinNeighbours
  <2> SUFFICES ASSUME PaintInv, NEW s \in chart.series
               PROVE  Joins(s, layout[s], painted.paths.lines[s])
    BY Zenon DEF StrokesJoinNeighbours, Joins, ToGap, ToNext, Straight, At, Level, Touched
  <2>1. IsData(chart, rows) /\ chart \in Charts
    BY DataIs DEF PaintInv
  <2>2. PICK points : points = layout[s]
    OBVIOUS
  <2>3. points = LaidOut(chart, rows)[s]
    BY <2>2 DEF PaintInv
  <2>4. Fits(s, points)
    BY <2>1, <2>3, LaidOutIs DEF Fits
  <2>5. painted.paths.lines[s] = drawSeries(chart, s, points)
    BY <2>2 DEF PaintInv, drawGraph, renderLineChart
  <2>6. Joins(s, points, drawSeries(chart, s, points))
    BY <2>4, SeriesIsDrawn
  <2> QED
    BY <2>2, <2>5, <2>6
<1> QED
  BY <1>1, PaintedIsOfNow, PTL

(* Filling a dense chart through a proxy that drops most of its calls (_fastCanvasProxy: of a    *)
(* column of pixels the first call and the lowest and highest line, and all of it next to a gap) *)
(* does not change what can be seen of an area that is not stacked, whatever the data, the        *)
(* options and the width: every column is as high and as low, and a line over more than a column  *)
(* has the ends it had.  It is of series of which no two values in a row are missing: of others   *)
(* the last column is flushed without its end.                                                    *)
THEOREM DroppedCallsAreNotMissed == Spec => []FastPathLooksTheSame
<1>1. PaintInv => FastPathLooksTheSame
  <2> SUFFICES ASSUME PaintInv, chart.filled, chart.fill = "off", NEW s \in chart.series, Sparse(s)
               PROVE  Looks(Seen(painted.fast[s]), Seen(painted.paths.fills[s]))
    BY Zenon DEF FastPathLooksTheSame, Looks, Sparse
  <2>1. IsData(chart, rows) /\ chart \in Charts /\ layout = LaidOut(chart, rows)
    BY DataIs DEF PaintInv
  <2>2. ASSUME NEW r \in chart.series PROVE Fits(r, layout[r]) /\ Flat(layout[r])
    <3>1. PICK points : points = layout[r]
      OBVIOUS
    <3>2. points = LaidOut(chart, rows)[r]
      BY <2>1, <3>1
    <3>3. Fits(r, points)
      BY <2>1, <3>2, LaidOutIs DEF Fits
    <3>4. \A i \in 1 .. Len(points) : i \in DOMAIN rows
      BY <3>3 DEF Fits, IsData
    <3>5. Flat(points)
      BY <3>2, <3>4, LaidOutIsFlat DEF Flat
    <3> QED
      BY <3>1, <3>3, <3>5
  <2>3. AreFlat(layout)
    BY <2>2 DEF AreFlat
  <2>4. PICK P : P = fillPlotter(chart, layout)[s]
    OBVIOUS
  <2>5. Shaped(P)
    BY <2>1, <2>3, <2>4, FillsAreShaped
  <2>6. painted.paths.fills = fillPlotter(chart, layout) /\ DOMAIN painted.paths.fills = chart.series
    <3>1. painted.paths.fills = fillPlotter(chart, layout)
      BY DEF PaintInv, drawGraph, renderLineChart
    <3>2. DOMAIN fillPlotter(chart, layout) = chart.series
      BY DEF fillPlotter
    <3> QED
      BY <3>1, <3>2
  <2>7. painted.fast[s] = fastCanvas(P)
    <3>1. painted.fast = dense(painted.paths.fills)
      BY DEF PaintInv, drawGraph
    <3> QED
      BY <2>4, <2>6, <3>1 DEF dense
  <2>8. Looks(Seen(fastCanvas(P)), Seen(P))
    BY <2>5, LooksTheSame
  <2> QED
    BY <2>4, <2>6, <2>7, <2>8
<1> QED
  BY <1>1, PaintedIsOfNow, PTL
=============================================================================

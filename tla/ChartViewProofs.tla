-------------------------- MODULE ChartViewProofs --------------------------
(***************************************************************************)
(* What a chart shows belongs to its data, for every file, however the     *)
(* user rolls, zooms, hides and points: the rows are in order and halving  *)
(* finds them, no line is lost at an edge of the picture, and what is      *)
(* highlighted for a row are the values of that row; averages are means,   *)
(* heights of stacks are sums, and the axis holds all that is drawn.       *)
(***************************************************************************)
EXTENDS ChartView, FiniteSetTheorems, SequenceTheorems, WellFoundedInduction, TLAPS

-----------------------------------------------------------------------------
(* Numbers. *)

(* Every set of numbers has a least one: it is the one whose interval from *)
(* zero is the smallest, and the finite sets are well ordered.             *)
LEMMA LeastNumber ==
    ASSUME NEW T \in SUBSET Nat, T # {}
    PROVE  \E m \in T : \A k \in T : m <= k
<1> DEFINE Up == {0 .. t : t \in T}
           R == StrictSubsetOrdering(Nat)
<1>1. Up \subseteq FiniteSubsetsOf(Nat) /\ Up # {}
  <2>1. \A t \in T : (0 .. t) \in SUBSET Nat /\ IsFiniteSet(0 .. t)
    BY FS_Interval
  <2> QED
    BY <2>1 DEF FiniteSubsetsOf
<1>2. IsWellFoundedOn(R, FiniteSubsetsOf(Nat))
  BY FS_StrictSubsetOrderingWellFounded
<1>3. PICK u \in Up : \A v \in Up : ~ (<<v, u>> \in R)
  <2> HIDE DEF Up, R
  <2> QED
    BY <1>1, <1>2, WFMin
<1>4. PICK m \in T : u = 0 .. m
  OBVIOUS
<1>5. ASSUME NEW k \in T, k < m PROVE FALSE
  <2>1. (0 .. k) \in SUBSET Nat /\ (0 .. m) \in SUBSET Nat /\ (0 .. k) \subseteq (0 .. m) /\ (0 .. k) # (0 .. m)
    BY <1>5
  <2>2. <<0 .. k, 0 .. m>> \in R
    BY <2>1 DEF StrictSubsetOrdering
  <2> QED
    BY <1>3, <1>4, <2>2
<1> QED
  BY <1>5

(* The least member of a set of numbers that has one. *)
LEMMA MinIs ==
    ASSUME NEW T \in SUBSET Nat, T # {}
    PROVE  Min(T) \in T /\ \A k \in T : Min(T) <= k
BY LeastNumber DEF Min

(* The largest number of a bounded set is the one that is closest to the bound. *)
LEMMA MaxIs ==
    ASSUME NEW n \in Nat, NEW T \in SUBSET (0 .. n), T # {}
    PROVE  Max(T) \in T /\ \A k \in T : k <= Max(T)
<1> DEFINE Below == {n - k : k \in T}
<1>1. Below \in SUBSET Nat /\ Below # {}
  <2>1. \A k \in T : k \in 0 .. n
    OBVIOUS
  <2>2. \A k \in T : n - k \in Nat
    BY <2>1
  <2> QED
    BY <2>2
<1>2. PICK b \in Below : \A k \in Below : b <= k
  <2> HIDE DEF Below
  <2> QED
    BY <1>1, LeastNumber
<1>3. PICK m \in T : b = n - m
  OBVIOUS
<1>4. \A k \in T : n - m <= n - k
  BY <1>2, <1>3
<1>5. \A k \in T : k <= m
  <2> SUFFICES ASSUME NEW k \in T PROVE k <= m
    OBVIOUS
  <2>1. k \in 0 .. n /\ m \in 0 .. n /\ n - m <= n - k
    BY <1>4
  <2> QED
    BY <2>1
<1> QED
  BY <1>5 DEF Max

-----------------------------------------------------------------------------
(* Ranks: when each thing is given the set of those up to it, and of two   *)
(* of these sets one is smaller than the other, then there is exactly one  *)
(* of every size.                                                          *)

Upto(S, upto) ==
    /\ upto \in [S -> SUBSET S]
    /\ \A i \in S : i \in upto[i]
    /\ \A i, j \in S : i # j => \/ upto[i] \subseteq upto[j] /\ j \notin upto[i]
                                \/ upto[j] \subseteq upto[i] /\ i \notin upto[j]

(* Of two members the larger one has more below it. *)
LEMMA SmallerRank ==
    ASSUME NEW S, IsFiniteSet(S), NEW upto, Upto(S, upto),
           NEW i \in S, NEW j \in S, upto[i] \subseteq upto[j], j \notin upto[i]
    PROVE  Cardinality(upto[i]) < Cardinality(upto[j])
<1>1. upto[i] \in SUBSET S /\ upto[j] \in SUBSET S /\ j \in upto[j]
  BY DEF Upto
<1>2. IsFiniteSet(upto[j])
  BY <1>1, FS_Subset
<1>3. IsFiniteSet(upto[i]) /\ Cardinality(upto[i]) <= Cardinality(upto[j]) /\ Cardinality(upto[j]) # Cardinality(upto[i])
  <2>1. upto[j] # upto[i]
    BY <1>1
  <2> QED
    BY <1>2, <2>1, FS_Subset
<1>4. Cardinality(upto[i]) \in Nat /\ Cardinality(upto[j]) \in Nat
  BY <1>2, <1>3, FS_CardinalityType
<1> QED
  BY <1>3, <1>4

(* The members of a set of n numbers have the ranks 1 to n. *)
LEMMA Ranks ==
    ASSUME NEW S, IsFiniteSet(S), NEW upto, Upto(S, upto)
    PROVE  /\ Cardinality(S) \in Nat
           /\ \A i \in S : Cardinality(upto[i]) \in 1 .. Cardinality(S)
           /\ \A i, j \in S : Cardinality(upto[i]) = Cardinality(upto[j]) => i = j
           /\ \A p \in 1 .. Cardinality(S) : \E i \in S : Cardinality(upto[i]) = p
<1> DEFINE rank == [i \in S |-> Cardinality(upto[i])]
           T == 1 .. Cardinality(S)
<1>1. Cardinality(S) \in Nat
  BY FS_CardinalityType
<1>2. \A i \in S : Cardinality(upto[i]) \in T
  <2> SUFFICES ASSUME NEW i \in S PROVE Cardinality(upto[i]) \in T
    OBVIOUS
  <2>1. upto[i] \in SUBSET S /\ upto[i] # {}
    BY DEF Upto
  <2>2. IsFiniteSet(upto[i]) /\ Cardinality(upto[i]) <= Cardinality(S)
    BY <2>1, FS_Subset
  <2>3. Cardinality(upto[i]) \in Nat /\ Cardinality(upto[i]) # 0
    BY <2>1, <2>2, FS_CardinalityType, FS_EmptySet
  <2> QED
    BY <1>1, <2>2, <2>3
<1>3. \A i, j \in S : Cardinality(upto[i]) = Cardinality(upto[j]) => i = j
  <2> SUFFICES ASSUME NEW i \in S, NEW j \in S, i # j, Cardinality(upto[i]) = Cardinality(upto[j]) PROVE FALSE
    OBVIOUS
  <2>1. Cardinality(upto[i]) < Cardinality(upto[j]) \/ Cardinality(upto[j]) < Cardinality(upto[i])
    BY SmallerRank DEF Upto
  <2>2. Cardinality(upto[i]) \in Int /\ Cardinality(upto[j]) \in Int
    BY <1>1, <1>2
  <2> QED
    BY <2>1, <2>2
<1>4. rank \in Injection(S, T)
  BY <1>2, <1>3 DEF Injection, IsInjective
<1>5. IsFiniteSet(T) /\ Cardinality(T) = Cardinality(S)
  BY <1>1, FS_Interval
<1>6. rank \in Surjection(S, T)
  <2> HIDE DEF rank, T
  <2> QED
    BY <1>4, <1>5, FS_Injection
<1>7. \A p \in T : \E i \in S : rank[i] = p
  BY <1>6 DEF Surjection
<1> QED
  BY <1>1, <1>2, <1>3, <1>7

(* InOrder: the members of a finite set of numbers, each once, the smaller before the larger. *)
LEMMA InOrderIs ==
    ASSUME NEW S \in SUBSET Int, IsFiniteSet(S)
    PROVE  /\ Cardinality(S) \in Nat
           /\ InOrder(S) \in [1 .. Cardinality(S) -> S]
           /\ \A i \in S : \E p \in 1 .. Cardinality(S) : InOrder(S)[p] = i
           /\ \A p, q \in 1 .. Cardinality(S) : p < q => InOrder(S)[p] < InOrder(S)[q]
<1> DEFINE upto == [i \in S |-> {j \in S : j <= i}]
           n == Cardinality(S)
<1>0. \A i \in S : i \in Int
  OBVIOUS
<1>a. \A i, j \in S : i < j => upto[i] \subseteq upto[j] /\ j \notin upto[i]
  <2> SUFFICES ASSUME NEW i \in S, NEW j \in S, i < j PROVE upto[i] \subseteq upto[j] /\ j \notin upto[i]
    OBVIOUS
  <2>1. upto[i] = {k \in S : k <= i} /\ upto[j] = {k \in S : k <= j}
    OBVIOUS
  <2>2. \A k \in S : k <= i => k <= j
    BY <1>0
  <2>3. ~ (j <= i)
    BY <1>0
  <2> HIDE DEF upto
  <2> QED
    BY <2>1, <2>2, <2>3
<1>1. Upto(S, upto)
  <2>1. upto \in [S -> SUBSET S]
    OBVIOUS
  <2>2. \A i \in S : i \in upto[i]
    BY <1>0
  <2>4. \A i, j \in S : i = j \/ i < j \/ j < i
    BY <1>0
  <2> QED
    BY <2>1, <2>2, <1>a, <2>4 DEF Upto
<1>2. /\ n \in Nat
      /\ \A i \in S : Cardinality(upto[i]) \in 1 .. n
      /\ \A i, j \in S : Cardinality(upto[i]) = Cardinality(upto[j]) => i = j
      /\ \A p \in 1 .. n : \E i \in S : Cardinality(upto[i]) = p
  <2> HIDE DEF upto
  <2> QED
    BY <1>1, Ranks
<1>3. \A p \in 1 .. n : InOrder(S)[p] = CHOOSE i \in S : Cardinality({j \in S : j <= i}) = p
  BY DEF InOrder
<1>4. \A p \in 1 .. n : InOrder(S)[p] \in S /\ Cardinality(upto[InOrder(S)[p]]) = p
  <2> SUFFICES ASSUME NEW p \in 1 .. n PROVE InOrder(S)[p] \in S /\ Cardinality(upto[InOrder(S)[p]]) = p
    OBVIOUS
  <2>1. \A i \in S : upto[i] = {j \in S : j <= i}
    OBVIOUS
  <2>2. PICK i \in S : Cardinality({j \in S : j <= i}) = p
    <3> HIDE DEF upto
    <3> QED
      BY <1>2, <2>1
  <2>3. InOrder(S)[p] \in S /\ Cardinality({j \in S : j <= InOrder(S)[p]}) = p
    BY <1>3, <2>2
  <2> HIDE DEF upto
  <2> QED
    BY <2>1, <2>3
<1>5. InOrder(S) \in [1 .. n -> S]
  <2> HIDE DEF upto
  <2>1. InOrder(S) = [p \in 1 .. n |-> InOrder(S)[p]]
    BY DEF InOrder
  <2> QED
    BY <1>4, <2>1
<1>6. ASSUME NEW i \in S PROVE \E p \in 1 .. n : InOrder(S)[p] = i
  <2> HIDE DEF upto, n
  <2> QED
    BY <1>2, <1>4
<1>7. ASSUME NEW p \in 1 .. n, NEW q \in 1 .. n, p < q PROVE InOrder(S)[p] < InOrder(S)[q]
  <2>1. PICK a \in S : a = InOrder(S)[p] /\ Cardinality(upto[a]) = p
    BY <1>4
  <2>2. PICK b \in S : b = InOrder(S)[q] /\ Cardinality(upto[b]) = q
    BY <1>4
  <2>3. ~ (Cardinality(upto[b]) < Cardinality(upto[a])) /\ a # b
    <3> HIDE DEF upto
    <3> QED
      BY <2>1, <2>2, <1>7, <1>2
  <2>4. ~ (b < a)
    <3> SUFFICES ASSUME b < a PROVE FALSE
      OBVIOUS
    <3>1. upto[b] \subseteq upto[a] /\ a \notin upto[b]
      BY <1>a
    <3> HIDE DEF upto
    <3> QED
      BY <3>1, <2>3, <1>1, SmallerRank
  <2> QED
    BY <2>1, <2>2, <2>3, <2>4
<1> QED
  BY <1>2, <1>5, <1>6, <1>7

-----------------------------------------------------------------------------
(* parseCSV_: the rows. *)

(* A function over 1 .. n has n entries. *)
LEMMA Counted ==
    ASSUME NEW n \in Nat, NEW f, f = [i \in 1 .. n |-> f[i]]
    PROVE  Len(f) = n /\ DOMAIN f = 1 .. n
<1> DEFINE S == {f[i] : i \in 1 .. n}
<1>1. f \in [1 .. n -> S] /\ DOMAIN f = 1 .. n
  OBVIOUS
<1>2. f \in Seq(S)
  <2> HIDE DEF S
  <2> QED
    BY <1>1, SeqDef
<1>3. Len(f) \in Nat /\ DOMAIN f = 1 .. Len(f)
  <2> HIDE DEF S
  <2> QED
    BY <1>2, LenProperties
<1>4. 1 .. n = 1 .. Len(f)
  BY <1>1, <1>3
<1> QED
  BY <1>1, <1>3, <1>4

IsTable(rows) ==
    /\ Len(rows) \in Nat
    /\ DOMAIN rows = 1 .. Len(rows)
    /\ \A i \in 1 .. Len(rows) : rows[i].x \in Int

InTime(rows) == \A i, j \in 1 .. Len(rows) : i <= j => rows[i].x <= rows[j].x

(* A row that was read from a line, whose cells are as the handler wants them. *)
IsReadLine(mode, row, l) == row = ParsedRow(l) /\ \A c \in Columns : IsCell(mode, l.cells[c])

(* The rows that are read have a time each. *)
LEMMA RowsAreRead ==
    ASSUME NEW f \in Files
    PROVE  /\ IsTable(ParsedRows(f.lines))
           /\ \A p \in 1 .. Len(ParsedRows(f.lines)) : \E l : IsReadLine(f.mode, ParsedRows(f.lines)[p], l)
<1> DEFINE lines == f.lines
           isRow(i) == lines[i].kind = "row" /\ ~ (i = 1 /\ AllFalsy(ParsedRow(lines[i])))
           S == {i \in DOMAIN lines : isRow(i)}
           m == Cardinality(S)
           kept == InOrder(S)
           rows == ParsedRows(lines)
<1>1. Len(lines) \in Nat /\ DOMAIN lines = 1 .. Len(lines)
  BY ChartAssumption
<1>2. S \in SUBSET Int /\ IsFiniteSet(S)
  <2>1. IsFiniteSet(1 .. Len(lines))
    BY <1>1, FS_Interval
  <2>2. S \in SUBSET (1 .. Len(lines))
    BY <1>1
  <2>3. IsFiniteSet(S)
    <3> HIDE DEF S, lines
    <3> QED
      BY <2>1, <2>2, FS_Subset
  <2> QED
    BY <1>1, <2>2, <2>3
<1>3. \A i \in S : lines[i].x \in Int /\ \A c \in Columns : IsCell(f.mode, lines[i].cells[c])
  <2> SUFFICES ASSUME NEW i \in S PROVE lines[i].x \in Int /\ \A c \in Columns : IsCell(f.mode, lines[i].cells[c])
    OBVIOUS
  <2>1. lines[i].kind = "row" /\ ~ (i = 1 /\ AllFalsy(ParsedRow(lines[i]))) /\ i \in DOMAIN lines
    OBVIOUS
  <2>2. \/ lines[i].kind = "row" => lines[i].x \in Int /\ \A c \in Columns : IsCell(f.mode, lines[i].cells[c])
        \/ i = 1 /\ AllFalsy(ParsedRow(lines[i]))
    BY <2>1, ChartAssumption
  <2> QED
    BY <2>1, <2>2
<1>4. m \in Nat /\ kept \in [1 .. m -> S]
  <2> HIDE DEF S
  <2> QED
    BY <1>2, InOrderIs
<1>5. rows = [p \in DOMAIN kept |-> ParsedRow(lines[kept[p]])]
  BY DEF ParsedRows
<1>6. rows = [p \in 1 .. m |-> rows[p]] /\ \A p \in 1 .. m : rows[p] = ParsedRow(lines[kept[p]]) /\ rows[p].x = lines[kept[p]].x
  <2> HIDE DEF S, kept, m, rows, lines
  <2> QED
    BY <1>4, <1>5 DEF ParsedRow
<1>7. Len(rows) = m /\ DOMAIN rows = 1 .. m
  <2> HIDE DEF m, rows
  <2> QED
    BY <1>4, <1>6, Counted
<1>8. \A p \in 1 .. m : rows[p].x \in Int
  <2> HIDE DEF S, kept, m, rows, lines
  <2> QED
    BY <1>3, <1>4, <1>6
<1>9. \A p \in 1 .. m : IsReadLine(f.mode, rows[p], lines[kept[p]])
  <2> HIDE DEF S, kept, m, rows, lines
  <2> QED
    BY <1>3, <1>4, <1>6 DEF IsReadLine
<1> QED
  <2>1. IsTable(rows)
    <3> HIDE DEF m
    <3> QED
      BY <1>4, <1>7, <1>8 DEF IsTable
  <2>2. \A p \in 1 .. Len(rows) : \E l : IsReadLine(f.mode, rows[p], l)
    <3> HIDE DEF m, rows, lines, kept
    <3> QED
      BY <1>7, <1>9
  <2> QED
    BY <2>1, <2>2

(* Sorting keeps the rows, each in one place, the earlier times first. *)
LEMMA SortedRows ==
    ASSUME NEW rows, IsTable(rows)
    PROVE  /\ IsTable(SortByX(rows)) /\ Len(SortByX(rows)) = Len(rows) /\ ~ OutOfOrder(SortByX(rows))
           /\ \A p \in 1 .. Len(rows) : \E i \in 1 .. Len(rows) : SortByX(rows)[p] = rows[i]
<1> DEFINE n == Len(rows)
           D == 1 .. n
           x(i) == rows[i].x
           earlier(j, i) == x(j) < x(i) \/ (x(j) = x(i) /\ j <= i)
           upto == [i \in D |-> {j \in D : earlier(j, i)}]
           sorted == SortByX(rows)
<1>1. n \in Nat /\ DOMAIN rows = D /\ \A i \in D : x(i) \in Int /\ i \in Int
  BY DEF IsTable
<1>2. \A i \in D : upto[i] = {j \in D : earlier(j, i)}
  OBVIOUS
<1>3. ASSUME NEW i \in D, NEW j \in D, i # j
      PROVE  (upto[i] \subseteq upto[j] /\ j \notin upto[i]) <=> earlier(i, j)
  <2> HIDE DEF n
  <2>1. x(i) \in Int /\ x(j) \in Int /\ i \in Int /\ j \in Int
    BY <1>1
  <2>2. ASSUME earlier(i, j) PROVE upto[i] \subseteq upto[j] /\ j \notin upto[i]
    <3>1. \A k \in D : earlier(k, i) => earlier(k, j)
      BY <1>1, <2>1, <2>2
    <3>2. ~ earlier(j, i)
      BY <2>1, <2>2, <1>3
    <3> HIDE DEF upto, earlier
    <3> QED
      BY <1>2, <3>1, <3>2
  <2>3. ASSUME upto[i] \subseteq upto[j] PROVE earlier(i, j)
    <3>1. earlier(i, i)
      BY <2>1
    <3> HIDE DEF upto, earlier
    <3> QED
      BY <1>2, <2>3, <3>1
  <2> QED
    BY <2>2, <2>3
<1>4. Upto(D, upto)
  <2> HIDE DEF n
  <2>1. upto \in [D -> SUBSET D]
    BY <1>2
  <2>2. \A i \in D : i \in upto[i]
    BY <1>1, <1>2
  <2>3. \A i, j \in D : i # j => earlier(i, j) \/ earlier(j, i)
    BY <1>1
  <2> HIDE DEF upto, earlier
  <2> QED
    BY <2>1, <2>2, <2>3, <1>3 DEF Upto
<1>5. IsFiniteSet(D) /\ Cardinality(D) = n
  BY <1>1, FS_Interval
<1>6. /\ \A i, j \in D : Cardinality(upto[i]) = Cardinality(upto[j]) => i = j
      /\ \A p \in D : \E i \in D : Cardinality(upto[i]) = p
  <2>1. 1 .. Cardinality(D) = D
    BY <1>5
  <2>2. /\ \A i, j \in D : Cardinality(upto[i]) = Cardinality(upto[j]) => i = j
        /\ \A p \in 1 .. Cardinality(D) : \E i \in D : Cardinality(upto[i]) = p
    <3> HIDE DEF upto, D
    <3> QED
      BY <1>4, <1>5, Ranks
  <2> HIDE DEF upto, D
  <2> QED
    BY <2>1, <2>2
<1>7. \A p \in D : \E i \in D : sorted[p] = rows[i] /\ Cardinality(upto[i]) = p
  <2> SUFFICES ASSUME NEW p \in D PROVE \E i \in D : sorted[p] = rows[i] /\ Cardinality(upto[i]) = p
    OBVIOUS
  <2>1. PICK i \in D : Cardinality({j \in D : earlier(j, i)}) = p
    <3> HIDE DEF upto, earlier, D
    <3> QED
      BY <1>6, <1>2
  <2>2. sorted[p] = rows[CHOOSE k \in D : Cardinality({j \in D : earlier(j, k)}) = p]
    <3> HIDE DEF D, n
    <3> QED
      BY <1>1 DEF SortByX
  <2>3. \E k \in D : sorted[p] = rows[k] /\ Cardinality({j \in D : earlier(j, k)}) = p
    <3> HIDE DEF D, n, sorted, earlier
    <3> QED
      BY <2>1, <2>2
  <2> HIDE DEF upto, earlier, D, sorted
  <2> QED
    BY <2>3, <1>2
<1>8. sorted = [p \in 1 .. n |-> sorted[p]] /\ Len(sorted) = n /\ DOMAIN sorted = D
  <2>1. sorted = [p \in 1 .. n |-> sorted[p]]
    <3> HIDE DEF n
    <3> QED
      BY <1>1 DEF SortByX
  <2> HIDE DEF sorted, n
  <2> QED
    BY <2>1, <1>1, Counted
<1>9. \A p \in D : sorted[p].x \in Int
  <2> HIDE DEF sorted, D, upto
  <2> QED
    BY <1>1, <1>7
<1>10. ASSUME NEW q \in D \ {1} PROVE ~ (sorted[q].x < sorted[q - 1].x)
  <2>1. q - 1 \in D /\ q \in Int /\ q \in D
    BY <1>1
  <2>2. PICK a \in D : sorted[q - 1] = rows[a] /\ Cardinality(upto[a]) = q - 1
    <3>1. PICK p : p = q - 1
      OBVIOUS
    <3> HIDE DEF sorted, D, upto
    <3> QED
      BY <2>1, <3>1, <1>7
  <2>3. PICK b \in D : sorted[q] = rows[b] /\ Cardinality(upto[b]) = q
    <3> HIDE DEF sorted, D, upto
    <3> QED
      BY <2>1, <1>7
  <2>4. SUFFICES ASSUME x(b) < x(a) PROVE FALSE
    BY <2>2, <2>3
  <2>5. a # b /\ ~ (Cardinality(upto[b]) < Cardinality(upto[a]))
    <3> HIDE DEF upto, D
    <3> QED
      BY <2>1, <2>2, <2>3
  <2>6. earlier(b, a)
    BY <2>4
  <2>7. upto[b] \subseteq upto[a] /\ a \notin upto[b]
    <3> HIDE DEF upto, D, earlier
    <3> QED
      BY <2>5, <2>6, <1>3
  <2> HIDE DEF upto, D
  <2> QED
    BY <2>5, <2>7, <1>4, <1>5, SmallerRank
<1>11. IsTable(sorted)
  <2> HIDE DEF sorted
  <2> QED
    BY <1>1, <1>8, <1>9 DEF IsTable
<1>12. ~ OutOfOrder(sorted)
  <2> HIDE DEF sorted, D
  <2> QED
    BY <1>8, <1>10 DEF OutOfOrder
<1>13. \A p \in D : \E i \in D : sorted[p] = rows[i]
  <2> HIDE DEF sorted, D, upto
  <2> QED
    BY <1>7
<1> QED
  BY <1>8, <1>11, <1>12, <1>13

(* Each row not before the one ahead of it: none is before any row ahead of it.  The first *)
(* that were would have a row ahead of it that is not before that one either.              *)
LEMMA NeighboursSuffice ==
    ASSUME NEW rows, IsTable(rows), ~ OutOfOrder(rows)
    PROVE  InTime(rows)
<1> DEFINE D == 1 .. Len(rows)
           T == {j \in D : \E i \in D : i <= j /\ rows[j].x < rows[i].x}
<1>1. Len(rows) \in Nat /\ DOMAIN rows = D /\ \A i \in D : rows[i].x \in Int
  BY DEF IsTable
<1>2. SUFFICES ASSUME T # {} PROVE FALSE
  BY <1>1 DEF InTime
<1>3. PICK j \in T : \A k \in T : j <= k
  <2>1. T \in SUBSET Nat
    BY <1>1
  <2> HIDE DEF T
  <2> QED
    BY <1>2, <2>1, LeastNumber
<1>4. PICK i \in D : i <= j /\ rows[j].x < rows[i].x
  OBVIOUS
<1>5. j \in D /\ j \in Int /\ i \in Int /\ i # j /\ j # 1
  BY <1>1, <1>4
<1>6. PICK k \in D : k = j - 1 /\ i <= k
  BY <1>1, <1>4, <1>5
<1>7. rows[k].x <= rows[j].x
  <2>1. j \in DOMAIN rows \ {1}
    BY <1>1, <1>5
  <2>2. ~ (rows[j].x < rows[j - 1].x)
    <3> HIDE DEF T, D
    <3> QED
      BY <2>1 DEF OutOfOrder
  <2> QED
    BY <1>1, <1>5, <1>6, <2>2
<1>8. k \in T
  BY <1>1, <1>4, <1>5, <1>6, <1>7
<1> QED
  BY <1>3, <1>5, <1>6, <1>8

(* parseCSV_: whatever the file, its rows are read from its lines and in the order of their x. *)
LEMMA DataAreInTime ==
    ASSUME NEW f \in Files
    PROVE  /\ IsTable(parseCSV(f.lines)) /\ InTime(parseCSV(f.lines)) /\ ~ OutOfOrder(parseCSV(f.lines))
           /\ \A p \in 1 .. Len(parseCSV(f.lines)) : \E l : IsReadLine(f.mode, parseCSV(f.lines)[p], l)
<1>1. PICK rows : rows = ParsedRows(f.lines)
  OBVIOUS
<1>2. IsTable(rows) /\ \A p \in 1 .. Len(rows) : \E l : IsReadLine(f.mode, rows[p], l)
  BY <1>1, RowsAreRead
<1>3. parseCSV(f.lines) = IF OutOfOrder(rows) THEN SortByX(rows) ELSE rows
  BY <1>1 DEF parseCSV
<1>4. IsTable(parseCSV(f.lines)) /\ ~ OutOfOrder(parseCSV(f.lines))
  BY <1>2, <1>3, SortedRows
<1>5. \A p \in 1 .. Len(parseCSV(f.lines)) : \E l : IsReadLine(f.mode, parseCSV(f.lines)[p], l)
  <2>1. CASE OutOfOrder(rows)
    <3>1. parseCSV(f.lines) = SortByX(rows)
      BY <1>3, <2>1
    <3>2. Len(SortByX(rows)) = Len(rows) /\ \A p \in 1 .. Len(rows) : \E i \in 1 .. Len(rows) : SortByX(rows)[p] = rows[i]
      BY <1>2, SortedRows
    <3> QED
      BY <1>2, <3>1, <3>2
  <2>2. CASE ~ OutOfOrder(rows)
    BY <1>2, <1>3, <2>2
  <2> QED
    BY <2>1, <2>2
<1> QED
  BY <1>4, <1>5, NeighboursSuffice

-----------------------------------------------------------------------------
(* getRowForX: what the halving finds. *)

(* One halving of the range r of rows, f telling what is found in smaller ranges. *)
Halve(f, rows, xVal, r) ==
    LET low == r[1]  high == r[2]  idx == (low - 1 + high - 1) \div 2 + 1 IN
    IF low > high THEN Null
    ELSE IF rows[idx].x < xVal THEN f[<<idx + 1, high>>]
    ELSE IF rows[idx].x > xVal THEN f[<<low, idx - 1>>]
    ELSE IF low # idx THEN f[<<low, idx>>]
    ELSE idx

Ranges(n) == (1 .. n + 1) \X (0 .. n)
Finds(f, rows, xVal) == f = [r \in Ranges(Len(rows)) |-> Halve(f, rows, xVal, r)]

(* The rows of an x in a range, and the first of them. *)
RowsAt(rows, xVal, low, high) == {i \in low .. high : rows[i].x = xVal}
FirstAt(rows, xVal, low, high) ==
    LET those == RowsAt(rows, xVal, low, high) IN IF those = {} THEN Null ELSE Min(those)

(* What is in a set and below all of it is its minimum. *)
LEMMA MinIsThe ==
    ASSUME NEW T \in SUBSET Nat, NEW m \in T, \A k \in T : m <= k
    PROVE  Min(T) = m
<1>1. Min(T) \in T /\ Min(T) <= m
  BY MinIs
<1>2. PICK k \in T : k = Min(T)
  BY <1>1
<1>3. k \in Nat /\ m \in Nat /\ m <= k
  OBVIOUS
<1> QED
  BY <1>1, <1>2, <1>3

(* Halving stays between the ends. *)
LEMMA Middle ==
    ASSUME NEW low \in Nat, NEW high \in Nat, 1 <= low, low <= high
    PROVE  \E idx \in low .. high : idx = (low - 1 + high - 1) \div 2 + 1 /\ (idx = high => idx = low)
<1>1. PICK s \in Nat : s = low - 1 + high - 1
  OBVIOUS
<1>2. PICK h \in Nat : h = s \div 2 /\ (s = 2 * h \/ s = 2 * h + 1)
  OBVIOUS
<1>3. h + 1 \in low .. high /\ (h + 1 = high => h + 1 = low)
  BY <1>1, <1>2
<1> QED
  BY <1>1, <1>2, <1>3

(* A halving loses no row of the x that comes first. *)
LEMMA HalvingKeepsTheFirst ==
    ASSUME NEW rows, IsTable(rows), InTime(rows), NEW xVal \in Int,
           NEW low \in 1 .. Len(rows) + 1, NEW high \in 0 .. Len(rows), low <= high,
           NEW idx \in low .. high
    PROVE  /\ rows[idx].x \in Int
           /\ rows[idx].x < xVal => FirstAt(rows, xVal, idx + 1, high) = FirstAt(rows, xVal, low, high)
           /\ rows[idx].x > xVal => FirstAt(rows, xVal, low, idx - 1) = FirstAt(rows, xVal, low, high)
           /\ rows[idx].x = xVal => /\ FirstAt(rows, xVal, low, idx) = FirstAt(rows, xVal, low, high)
                                    /\ low = idx => FirstAt(rows, xVal, low, high) = idx
<1>0. /\ Len(rows) \in Nat /\ low \in Int /\ high \in Int /\ idx \in 1 .. Len(rows) /\ idx \in Int
      /\ \A k \in low .. high : k \in 1 .. Len(rows)
      /\ \A k \in 1 .. Len(rows) : rows[k].x \in Int
  BY DEF IsTable
<1>1. ASSUME rows[idx].x < xVal PROVE RowsAt(rows, xVal, idx + 1, high) = RowsAt(rows, xVal, low, high)
  <2>1. \A k \in low .. high : rows[k].x = xVal => k \in idx + 1 .. high
    BY <1>0, <1>1 DEF InTime
  <2>2. \A k \in idx + 1 .. high : k \in low .. high
    BY <1>0
  <2> QED
    BY <2>1, <2>2 DEF RowsAt
<1>2. ASSUME rows[idx].x > xVal PROVE RowsAt(rows, xVal, low, idx - 1) = RowsAt(rows, xVal, low, high)
  <2>1. \A k \in low .. high : rows[k].x = xVal => k \in low .. idx - 1
    BY <1>0, <1>2 DEF InTime
  <2>2. \A k \in low .. idx - 1 : k \in low .. high
    BY <1>0
  <2> QED
    BY <2>1, <2>2 DEF RowsAt
<1>3. ASSUME rows[idx].x = xVal
      PROVE  /\ FirstAt(rows, xVal, low, idx) = FirstAt(rows, xVal, low, high)
             /\ low = idx => FirstAt(rows, xVal, low, high) = idx
  <2>1. PICK A : A = RowsAt(rows, xVal, low, idx)
    OBVIOUS
  <2>2. PICK B : B = RowsAt(rows, xVal, low, high)
    OBVIOUS
  <2>3. /\ A \in SUBSET Nat /\ B \in SUBSET Nat /\ idx \in A /\ A \subseteq B
        /\ \A k \in A : low <= k
        /\ \A k \in B : k \in A \/ idx < k
    BY <1>0, <1>3, <2>1, <2>2 DEF RowsAt
  <2>4. Min(A) \in A /\ \A k \in A : Min(A) <= k
    BY <2>3, MinIs
  <2>5. PICK m \in A : m = Min(A)
    BY <2>4
  <2>6. \A k \in B : m <= k
    <3> SUFFICES ASSUME NEW k \in B PROVE m <= k
      OBVIOUS
    <3>1. m \in Int /\ idx \in Int /\ k \in Int /\ m <= idx
      BY <2>3, <2>4, <2>5
    <3> QED
      BY <2>3, <2>4, <2>5, <3>1
  <2>7. Min(B) = m
    BY <2>3, <2>6, MinIsThe
  <2>8. low = idx => m = idx
    BY <1>0, <2>3, <2>4, <2>5
  <2> QED
    BY <2>1, <2>2, <2>3, <2>5, <2>7, <2>8 DEF FirstAt
<1> QED
  BY <1>0, <1>1, <1>2, <1>3 DEF FirstAt

(* So the function that gives the first row of the x in every range satisfies the recursion. *)
LEMMA FirstIsFound ==
    ASSUME NEW rows, IsTable(rows), InTime(rows), NEW xVal \in Int
    PROVE  Finds([r \in Ranges(Len(rows)) |-> FirstAt(rows, xVal, r[1], r[2])], rows, xVal)
<1> DEFINE g == [r \in Ranges(Len(rows)) |-> FirstAt(rows, xVal, r[1], r[2])]
<1>1. Len(rows) \in Nat
  BY DEF IsTable
<1>2. ASSUME NEW low \in 1 .. Len(rows) + 1, NEW high \in 0 .. Len(rows)
      PROVE  g[<<low, high>>] = FirstAt(rows, xVal, low, high)
  BY DEF Ranges
<1>3. ASSUME NEW r \in Ranges(Len(rows)) PROVE Halve(g, rows, xVal, r) = FirstAt(rows, xVal, r[1], r[2])
  <2>1. PICK low \in 1 .. Len(rows) + 1 : low = r[1]
    BY DEF Ranges
  <2>2. PICK high \in 0 .. Len(rows) : high = r[2]
    BY DEF Ranges
  <2> HIDE DEF g
  <2>3. CASE low > high
    <3>1. RowsAt(rows, xVal, low, high) = {}
      BY <1>1, <2>3 DEF RowsAt
    <3> QED
      BY <2>1, <2>2, <2>3, <3>1 DEF Halve, FirstAt
  <2>4. CASE low <= high
    <3>1. PICK idx \in low .. high : idx = (low - 1 + high - 1) \div 2 + 1
      BY <1>1, <2>4, Middle
    <3>2. idx \in 1 .. Len(rows) + 1 /\ idx + 1 \in 1 .. Len(rows) + 1 /\ idx - 1 \in 0 .. Len(rows) /\ idx \in 0 .. Len(rows)
      BY <1>1
    <3>3. /\ g[<<idx + 1, high>>] = FirstAt(rows, xVal, idx + 1, high)
          /\ g[<<low, idx - 1>>] = FirstAt(rows, xVal, low, idx - 1)
          /\ g[<<low, idx>>] = FirstAt(rows, xVal, low, idx)
      BY <1>2, <3>2
    <3>4. /\ rows[idx].x \in Int
          /\ rows[idx].x < xVal => FirstAt(rows, xVal, idx + 1, high) = FirstAt(rows, xVal, low, high)
          /\ rows[idx].x > xVal => FirstAt(rows, xVal, low, idx - 1) = FirstAt(rows, xVal, low, high)
          /\ rows[idx].x = xVal => /\ FirstAt(rows, xVal, low, idx) = FirstAt(rows, xVal, low, high)
                                   /\ low = idx => FirstAt(rows, xVal, low, high) = idx
      BY <2>4, HalvingKeepsTheFirst
    <3>5. ~ (low > high)
      BY <1>1, <2>4
    <3>6. Halve(g, rows, xVal, r) = IF rows[idx].x < xVal THEN g[<<idx + 1, high>>]
                                    ELSE IF rows[idx].x > xVal THEN g[<<low, idx - 1>>]
                                    ELSE IF low # idx THEN g[<<low, idx>>]
                                    ELSE idx
      BY <2>1, <2>2, <3>1, <3>5 DEF Halve
    <3> QED
      BY <2>1, <2>2, <3>3, <3>4, <3>6
  <2> QED
    BY <1>1, <2>3, <2>4
<1>4. g = [r \in Ranges(Len(rows)) |-> Halve(g, rows, xVal, r)]
  <2> DEFINE h == [r \in Ranges(Len(rows)) |-> Halve(g, rows, xVal, r)]
  <2>1. \A r \in Ranges(Len(rows)) : h[r] = FirstAt(rows, xVal, r[1], r[2])
    <3> HIDE DEF g
    <3> QED
      BY <1>3
  <2>2. DOMAIN h = Ranges(Len(rows)) /\ h = [r \in Ranges(Len(rows)) |-> h[r]]
    <3> HIDE DEF g
    <3> QED
      OBVIOUS
  <2>3. g = h
    <3> HIDE DEF h
    <3> QED
      BY <2>1, <2>2
  <2> QED
    BY <2>3
<1> QED
  BY <1>4 DEF Finds

(* And no other function does: two would differ on a range that has no smaller one where they do. *)
LEMMA OneFinds ==
    ASSUME NEW rows, IsTable(rows), NEW xVal, NEW f, Finds(f, rows, xVal), NEW g, Finds(g, rows, xVal)
    PROVE  f = g
<1> DEFINE n == Len(rows)
           T == {d \in Nat : \E r \in Ranges(n) : d = r[2] - r[1] /\ f[r] # g[r]}
<1>1. n \in Nat
  BY DEF IsTable
<1>2. \A r \in Ranges(n) : f[r] = Halve(f, rows, xVal, r) /\ g[r] = Halve(g, rows, xVal, r)
  <2> SUFFICES ASSUME NEW r \in Ranges(n) PROVE f[r] = Halve(f, rows, xVal, r) /\ g[r] = Halve(g, rows, xVal, r)
    OBVIOUS
  <2>1. f[r] = Halve(f, rows, xVal, r)
    BY DEF Finds
  <2>2. g[r] = Halve(g, rows, xVal, r)
    BY DEF Finds
  <2> QED
    BY <2>1, <2>2
<1>3. \A r \in Ranges(n) : r[1] > r[2] => f[r] = g[r]
  BY <1>2 DEF Halve
<1>4. T = {}
  <2> SUFFICES ASSUME T # {} PROVE FALSE
    OBVIOUS
  <2>1. PICK d \in T : \A e \in T : d <= e
    <3>1. T \in SUBSET Nat
      OBVIOUS
    <3> HIDE DEF T
    <3> QED
      BY <3>1, LeastNumber
  <2>2. PICK r \in Ranges(n) : d = r[2] - r[1] /\ f[r] # g[r]
    OBVIOUS
  <2>3. PICK low \in 1 .. n + 1 : low = r[1]
    BY DEF Ranges
  <2>4. PICK high \in 0 .. n : high = r[2] /\ low <= high /\ d = high - low
    BY <1>1, <2>2, <2>3 DEF Ranges
  <2>5. PICK idx \in low .. high : idx = (low - 1 + high - 1) \div 2 + 1 /\ (idx = high => idx = low)
    <3>1. low \in Nat /\ high \in Nat /\ 1 <= low /\ low <= high
      BY <1>1, <2>4
    <3> HIDE DEF T, n
    <3> QED
      BY <3>1, Middle
  <2>6. ASSUME NEW a \in 1 .. n + 1, NEW b \in 0 .. n, b - a < d PROVE f[<<a, b>>] = g[<<a, b>>]
    <3>1. <<a, b>> \in Ranges(n) /\ <<a, b>>[1] = a /\ <<a, b>>[2] = b
      BY DEF Ranges
    <3>2. CASE a > b
      BY <1>3, <3>1, <3>2
    <3>3. CASE a <= b
      <4>1. b - a \in Nat /\ b - a \notin T
        BY <1>1, <2>1, <2>6, <3>3
      <4> QED
        BY <3>1, <4>1
    <3> QED
      BY <1>1, <3>2, <3>3
  <2>7. f[<<idx + 1, high>>] = g[<<idx + 1, high>>]
    <3>1. idx + 1 \in 1 .. n + 1 /\ high - (idx + 1) < d
      BY <1>1, <2>4
    <3> HIDE DEF T
    <3> QED
      BY <2>6, <3>1
  <2>8. f[<<low, idx - 1>>] = g[<<low, idx - 1>>]
    <3>1. idx - 1 \in 0 .. n /\ idx - 1 - low < d
      BY <1>1, <2>4
    <3> HIDE DEF T
    <3> QED
      BY <2>6, <3>1
  <2>9. low # idx => f[<<low, idx>>] = g[<<low, idx>>]
    <3>1. low # idx => idx \in 0 .. n /\ idx - low < d
      BY <1>1, <2>4, <2>5
    <3> HIDE DEF T
    <3> QED
      BY <2>6, <3>1
  <2>10. Halve(f, rows, xVal, r) = Halve(g, rows, xVal, r)
    <3> HIDE DEF T, n
    <3> QED
      BY <2>3, <2>4, <2>5, <2>7, <2>8, <2>9 DEF Halve
  <2> QED
    BY <1>2, <2>2, <2>10
<1>5. \A r \in Ranges(n) : f[r] = g[r]
  <2> SUFFICES ASSUME NEW r \in Ranges(n), r[1] <= r[2] PROVE f[r] = g[r]
    BY <1>1, <1>3 DEF Ranges
  <2>1. r[2] - r[1] \in Nat /\ r[2] - r[1] \notin T
    BY <1>1, <1>4 DEF Ranges
  <2> QED
    BY <2>1
<1>6. f = [r \in Ranges(n) |-> f[r]] /\ g = [r \in Ranges(n) |-> g[r]]
  BY DEF Finds
<1> QED
  <2> HIDE DEF n, T
  <2> QED
    BY <1>5, <1>6

(* Halving finds the first row of an x. *)
LEMMA RowForX ==
    ASSUME NEW rows, IsTable(rows), InTime(rows), NEW xVal \in Int
    PROVE  getRowForX(rows, xVal) = LET those == {i \in DOMAIN rows : rows[i].x = xVal} IN
                                    IF those = {} THEN Null ELSE Min(those)
<1>1. PICK f : f = [r \in Ranges(Len(rows)) |-> FirstAt(rows, xVal, r[1], r[2])]
  OBVIOUS
<1>2. Finds(f, rows, xVal) /\ \A g : Finds(g, rows, xVal) => g = f
  BY <1>1, FirstIsFound, OneFinds
<1>3. getRowForX(rows, xVal) = (CHOOSE g : Finds(g, rows, xVal))[<<1, Len(rows)>>]
  BY DEF getRowForX, Finds, Halve, Ranges
<1>4. getRowForX(rows, xVal) = f[<<1, Len(rows)>>]
  BY <1>2, <1>3
<1>5. f[<<1, Len(rows)>>] = FirstAt(rows, xVal, 1, Len(rows))
  <2>1. <<1, Len(rows)>> \in Ranges(Len(rows))
    BY DEF Ranges, IsTable
  <2> QED
    BY <1>1, <2>1
<1>6. RowsAt(rows, xVal, 1, Len(rows)) = {i \in DOMAIN rows : rows[i].x = xVal}
  BY DEF RowsAt, IsTable
<1> QED
  BY <1>4, <1>5, <1>6 DEF FirstAt

-----------------------------------------------------------------------------
(* predraw_: a rolled series has a point for every row, at the time of the row. *)

SameTimes(r, s) ==
    /\ DOMAIN r = DOMAIN s /\ r = [i \in DOMAIN s |-> r[i]]
    /\ \A i \in DOMAIN s : r[i].x = s[i].x

LEMMA PointKeepsItsTime == ASSUME NEW x, NEW y, NEW ext PROVE Point(x, y, ext).x = x
BY DEF Point

(* extractSeries keeps the x of every row. *)
LEMMA SeriesKeepTheTimes ==
    ASSUME NEW mode, NEW rows, NEW c
    PROVE  SameTimes(extractSeries(mode, rows, c), rows)
BY PointKeepsItsTime
   DEF SameTimes, extractSeries, FractionBarsPoint, FractionPoint, CustomPoint, ErrorPoint, DefaultPoint

(* rollingAverage keeps it, too, in every handler. *)
LEMMA RollingKeepsTheTimes ==
    ASSUME NEW mode, NEW s, s = [i \in DOMAIN s |-> s[i]], NEW period
    PROVE  SameTimes(rollingAverage(mode, s, period), s)
<1>1. \A r : SameTimes(DefaultRolling(s, r), s)
  BY PointKeepsItsTime DEF DefaultRolling, SameTimes
<1>2. \A r : SameTimes(ErrorRolling(s, r), s)
  BY PointKeepsItsTime DEF ErrorRolling, SameTimes
<1>3. \A r : SameTimes(CustomRolling(s, r), s)
  BY PointKeepsItsTime DEF CustomRolling, SameTimes
<1>4. \A r : SameTimes(FractionRolling(s, r), s)
  BY PointKeepsItsTime DEF FractionRolling, SameTimes
<1>5. \A r, wilson : SameTimes(FractionBarsRolling(s, r, wilson), s)
  BY PointKeepsItsTime DEF FractionBarsRolling, SameTimes
<1> QED
  BY <1>1, <1>2, <1>3, <1>4, <1>5 DEF rollingAverage

(* What keeps the times of a table is a table. *)
LEMMA SameTable ==
    ASSUME NEW rows, IsTable(rows), NEW s, SameTimes(s, rows)
    PROVE  IsTable(s) /\ Len(s) = Len(rows)
<1>1. Len(rows) \in Nat /\ DOMAIN rows = 1 .. Len(rows) /\ s = [i \in 1 .. Len(rows) |-> s[i]]
  BY DEF IsTable, SameTimes
<1>2. Len(s) = Len(rows) /\ DOMAIN s = 1 .. Len(rows)
  BY <1>1, Counted
<1>3. \A i \in 1 .. Len(rows) : s[i].x \in Int
  BY <1>1 DEF IsTable, SameTimes
<1> QED
  BY <1>1, <1>2, <1>3 DEF IsTable

(* Every rolled series is a table. *)
LEMMA RolledTables ==
    ASSUME NEW mode, NEW rows, IsTable(rows), NEW period, rolled(mode, rows, period) # <<>>
    PROVE  /\ DOMAIN rolled(mode, rows, period) = Columns
           /\ \A c \in Columns : IsTable(rolled(mode, rows, period)[c])
<1> DEFINE s(c) == extractSeries(mode, rows, c)
           r(c) == rollingAverage(mode, s(c), WholePeriod(period))
<1>1. rolled(mode, rows, period) = [c \in Columns |-> IF WholePeriod(period) > 1 THEN r(c) ELSE s(c)]
  BY DEF rolled
<1>2. ASSUME NEW c \in Columns PROVE IsTable(s(c)) /\ IsTable(r(c))
  <2>1. PICK t : t = s(c)
    OBVIOUS
  <2>2. SameTimes(t, rows) /\ IsTable(t)
    BY <2>1, SeriesKeepTheTimes, SameTable
  <2>3. t = [i \in DOMAIN t |-> t[i]]
    BY <2>2 DEF SameTimes
  <2>4. IsTable(rollingAverage(mode, t, WholePeriod(period)))
    BY <2>2, <2>3, RollingKeepsTheTimes, SameTable
  <2> QED
    BY <2>1, <2>2, <2>4
<1> HIDE DEF s, r
<1> QED
  BY <1>1, <1>2

-----------------------------------------------------------------------------
(* gatherDatasets_: the part of a series that is drawn. *)

IsWindow(w) == w = <<>> \/ (w[1] \in Int /\ w[2] \in Int /\ w[1] <= w[2])

(* Two known points, none known between them, the line between which crosses the window. *)
LineCrosses(s, w, i, j) ==
    /\ i < j
    /\ s[i].y # Null /\ s[j].y # Null
    /\ \A k \in i + 1..j - 1 : s[k].y = Null
    /\ w # <<>> => s[j].x >= w[1] /\ s[i].x <= w[2]

(* boundaryIds_: the boundaries lie in the series and no line that crosses the window is cut. *)
LEMMA Boundaries ==
    ASSUME NEW s, IsTable(s), NEW w
    PROVE  /\ boundaryIds(s, w)[1] \in Nat \ {0} /\ boundaryIds(s, w)[2] \in 0 .. Len(s)
           /\ \A i, j \in DOMAIN s :
                 LineCrosses(s, w, i, j) => i >= boundaryIds(s, w)[1] /\ j <= boundaryIds(s, w)[2]
<1> DEFINE n == Len(s)
           right == {i \in DOMAIN s : s[i].x >= w[1]}
           left  == {i \in DOMAIN s : s[i].x <= w[2]}
           first == IF right = {} THEN 1 ELSE Min(right)
           last  == IF left = {} THEN n ELSE Max(left)
           before == {i \in 1..first - 1 : s[i].y # Null}
           after  == {i \in last + 1..n : s[i].y # Null}
           b1 == IF before # {} THEN Max(before) ELSE 1
           b2 == IF after # {} THEN Min(after) ELSE n
<1>1. n \in Nat /\ DOMAIN s = 1 .. n
  BY DEF IsTable
<1>2. CASE w = <<>>
  <2>1. boundaryIds(s, w) = <<1, n>>
    BY <1>2 DEF boundaryIds
  <2> QED
    BY <1>1, <2>1
<1>3. CASE w # <<>>
  <2>1. boundaryIds(s, w) = <<b1, b2>>
    BY <1>3 DEF boundaryIds
  <2>2. first \in Nat /\ first >= 1 /\ first <= n + 1 /\ \A i \in right : first <= i
    <3>1. right \in SUBSET Nat /\ right \subseteq 1 .. n
      BY <1>1
    <3>2. right # {} => Min(right) \in right /\ \A i \in right : Min(right) <= i
      <4> HIDE DEF right
      <4> QED
        BY <3>1, MinIs
    <3>3. CASE right = {}
      BY <1>1, <3>3
    <3>4. CASE right # {}
      <4>1. PICK m \in right : m = Min(right)
        BY <3>2, <3>4
      <4>2. first = m /\ m \in 1 .. n /\ \A i \in right : m <= i
        BY <3>1, <3>2, <3>4, <4>1
      <4> HIDE DEF right, first, n
      <4> QED
        BY <1>1, <4>2
    <3> QED
      BY <3>3, <3>4
  <2>3. last \in 0 .. n /\ \A i \in left : i <= last
    <3>1. left \in SUBSET (0 .. n)
      BY <1>1
    <3>2. left # {} => Max(left) \in left /\ \A i \in left : i <= Max(left)
      <4> HIDE DEF left
      <4> QED
        BY <1>1, <3>1, MaxIs
    <3>3. CASE left = {}
      BY <1>1, <3>3
    <3>4. CASE left # {}
      <4>1. PICK m \in left : m = Max(left)
        BY <3>2, <3>4
      <4>2. last = m /\ m \in 0 .. n /\ \A i \in left : i <= m
        BY <3>1, <3>2, <3>4, <4>1
      <4> HIDE DEF left, last, n
      <4> QED
        BY <1>1, <4>2
    <3> QED
      BY <3>3, <3>4
  <2>4. b1 \in Nat /\ b1 >= 1 /\ (b1 = 1 \/ b1 \in before)
    <3>1. before \in SUBSET (0 .. n)
      <4> HIDE DEF first
      <4> QED
        BY <1>1, <2>2
    <3>2. \A i \in before : i \in Nat /\ i >= 1
      <4> HIDE DEF first
      <4> QED
        BY <2>2
    <3>3. before # {} => Max(before) \in before
      <4> HIDE DEF before
      <4> QED
        BY <1>1, <3>1, MaxIs
    <3> HIDE DEF before
    <3> QED
      BY <3>2, <3>3
  <2>5. b2 \in 0 .. n /\ (b2 = n \/ b2 \in after)
    <3>1. after \in SUBSET Nat /\ after \subseteq 0 .. n
      <4> HIDE DEF last
      <4> QED
        BY <1>1, <2>3
    <3>2. after # {} => Min(after) \in after
      <4> HIDE DEF after
      <4> QED
        BY <3>1, MinIs
    <3>3. CASE after = {}
      <4>1. b2 = n
        <5> HIDE DEF after
        <5> QED
          BY <3>3
      <4> HIDE DEF after, b2, n
      <4> QED
        BY <1>1, <4>1
    <3>4. CASE after # {}
      <4>1. b2 \in after
        BY <3>2, <3>4
      <4>2. PICK m \in after : m = b2
        BY <4>1
      <4>3. m \in 0 .. n
        BY <3>1
      <4> HIDE DEF after, b2, n
      <4> QED
        BY <4>1, <4>2, <4>3
    <3> QED
      BY <3>3, <3>4
  <2>6. ASSUME NEW i \in 1 .. n, NEW j \in 1 .. n, LineCrosses(s, w, i, j) PROVE i >= b1 /\ j <= b2
    <3>1. /\ i \in Int /\ j \in Int /\ i < j
          /\ \A k \in i + 1 .. j - 1 : s[k].y = Null
          /\ j \in right /\ i \in left /\ s[i].y # Null /\ s[j].y # Null
      BY <1>1, <1>3, <2>6 DEF LineCrosses
    <3>2. i >= b1
      <4>1. first <= j
        <5> HIDE DEF first, right
        <5> QED
          BY <2>2, <3>1
      <4>2. b1 \in before => b1 < first /\ s[b1].y # Null
        <5> HIDE DEF b1, first
        <5> QED
          BY <2>2
      <4>3. b1 \in i + 1 .. j - 1 => b1 = 1
        <5> HIDE DEF b1, first, before
        <5> QED
          BY <2>4, <3>1, <4>2
      <4> HIDE DEF b1, first, before
      <4> QED
        BY <1>1, <2>2, <2>4, <3>1, <4>1, <4>2, <4>3
    <3>3. j <= b2
      <4>1. i <= last
        <5> HIDE DEF last, left
        <5> QED
          BY <2>3, <3>1
      <4>2. b2 \in after => last < b2 /\ s[b2].y # Null
        <5> HIDE DEF b2, last
        <5> QED
          BY <2>3
      <4>3. b2 \in i + 1 .. j - 1 => b2 = n
        <5> HIDE DEF b2, last, after
        <5> QED
          BY <2>5, <3>1, <4>2
      <4>4. b2 \in Int /\ last \in Int /\ n \in Int /\ j <= n
        <5> HIDE DEF b2, last, after, n
        <5> QED
          BY <1>1, <2>3, <2>5
      <4> HIDE DEF b2, last, after, n
      <4> QED
        BY <2>5, <3>1, <4>1, <4>2, <4>3, <4>4
    <3> QED
      BY <3>2, <3>3
  <2> HIDE DEF b1, b2, n
  <2> QED
    BY <1>1, <2>1, <2>4, <2>5, <2>6
<1> QED
  BY <1>2, <1>3

-----------------------------------------------------------------------------
(* gatherDatasets_, stackPoints_, _evaluateLineCharts: the points of the picture. *)

(* seriesToPoints keeps the value and the row of what is drawn. *)
LEMMA PointsOfASeries ==
    ASSUME NEW s, NEW b
    PROVE  /\ DOMAIN seriesToPoints(s, b) = DOMAIN s
           /\ \A i \in DOMAIN s :
                 seriesToPoints(s, b)[i] = [xval |-> s[i].x, yval |-> s[i].y, ext |-> s[i].ext, idx |-> i + b - 1]
BY DEF seriesToPoints

(* stackPoints_ adds the height and changes nothing else. *)
LEMMA StackingKeepsThePoints ==
    ASSUME NEW p, NEW below, NEW fill
    PROVE  LET q == stackPoints(p, below, fill).points IN
           /\ DOMAIN q = DOMAIN p
           /\ \A i \in DOMAIN p : \E height : q[i] = Heightened(p[i], height)
BY DEF stackPoints

(* The parts of what is gathered of the series that are shown. *)
Bounds(series, w, shown) == [c \in shown |-> boundaryIds(series[c], w)]
CutPoints(series, w, shown) ==
    LET ids == Bounds(series, w, shown) IN
    [c \in shown |-> seriesToPoints(SubSeq(series[c], ids[c][1], ids[c][2]), ids[c][1])]
StackedOnes(pts, shown, fill) == [c \in shown |-> stackPoints(pts[c], LayersBelow(pts, fill)[c], fill).points]

(* What gatherDatasets_ returns, part by part. *)
LEMMA Gathered ==
    ASSUME NEW mode, NEW series, NEW w, NEW shown, shown \subseteq DOMAIN series, NEW fill
    PROVE  LET pts == CutPoints(series, w, shown) IN
           \E extremes :
              gatherDatasets(mode, series, w, shown, fill) =
              [points      |-> IF fill = "off" THEN pts ELSE StackedOnes(pts, shown, fill),
               extremes    |-> extremes,
               boundaryIds |-> Bounds(series, w, shown)]
<1>1. shown \cap DOMAIN series = shown
  OBVIOUS
<1>2. CASE fill = "off"
  BY <1>1, <1>2 DEF gatherDatasets, CutPoints, Bounds
<1>3. CASE fill # "off"
  <2>1. \E extremes : gatherDatasets(mode, series, w, shown, fill) =
           [points      |-> StackedOnes(CutPoints(series, w, shown), shown, fill),
            extremes    |-> extremes,
            boundaryIds |-> Bounds(series, w, shown)]
    BY <1>1, <1>3 DEF gatherDatasets, CutPoints, Bounds, StackedOnes
  <2> QED
    BY <2>1, <1>3
<1> QED
  BY <1>2, <1>3

(* The layout changes a value and nothing else. *)
LEMMA EvaluatedPoint ==
    ASSUME NEW x, NEW y, NEW e, NEW row, NEW connect, NEW p,
           \/ p = [xval |-> x, yval |-> y, ext |-> e, idx |-> row]
           \/ \E height : p = [xval |-> x, yval |-> y, ext |-> e, idx |-> row, stacked |-> height]
    PROVE  LET q == [p EXCEPT !.yval = Evaluated(@, connect)] IN
           q.xval = x /\ q.yval = Evaluated(y, connect) /\ q.idx = row
<1>1. p.xval = x /\ p.yval = y /\ p.idx = row /\ {"xval", "yval", "idx"} \subseteq DOMAIN p
  OBVIOUS
<1>2. PICK v : v = Evaluated(p.yval, connect)
  OBVIOUS
<1>3. LET q == [p EXCEPT !.yval = v] IN q.xval = p.xval /\ q.yval = v /\ q.idx = p.idx
  BY <1>1
<1> QED
  BY <1>1, <1>2, <1>3

(* A picture g of a series: every point tells the row it is of, with the row's time and value. *)
DrawnOf(g, series, w, shown, connect) ==
    /\ DOMAIN g.points = shown
    /\ g.boundaryIds = [c \in shown |-> boundaryIds(series[c], w)]
    /\ \A c \in shown : \A i \in DOMAIN g.points[c] :
          LET row == i + boundaryIds(series[c], w)[1] - 1
              p   == g.points[c][i]
          IN  /\ i \in Nat /\ row \in DOMAIN series[c]
              /\ p.idx = row /\ p.xval = series[c][row].x /\ p.yval = Evaluated(series[c][row].y, connect)

(* The rows of a series that was cut. *)
LEMMA CutOf ==
    ASSUME NEW s, IsTable(s), NEW w
    PROVE  LET b == boundaryIds(s, w)
               cut == SubSeq(s, b[1], b[2])
           IN  \A i \in DOMAIN cut : i \in Nat /\ i + b[1] - 1 \in DOMAIN s /\ cut[i] = s[i + b[1] - 1]
<1>1. PICK a \in Nat \ {0} : a = boundaryIds(s, w)[1]
  BY Boundaries
<1>2. PICK e \in 0 .. Len(s) : e = boundaryIds(s, w)[2]
  BY Boundaries
<1>3. Len(s) \in Nat /\ DOMAIN s = 1 .. Len(s)
  BY DEF IsTable
<1>4. PICK cut : cut = SubSeq(s, a, e)
  OBVIOUS
<1>5. PICK S : S = {s[i] : i \in a .. e}
  OBVIOUS
<1>6. /\ cut \in Seq(S) /\ Len(cut) = IF a <= e THEN e - a + 1 ELSE 0
      /\ \A i \in 1 .. e - a + 1 : cut[i] = s[a + i - 1]
  <2>1. a \in Int /\ e \in Int /\ \A i \in a .. e : s[i] \in S
    BY <1>3, <1>5
  <2> QED
    BY <2>1, <1>4, SubSeqProperties
<1>7. DOMAIN cut = 1 .. Len(cut)
  BY <1>6, LenProperties
<1>8. \A i \in DOMAIN cut : i \in Nat /\ i + a - 1 \in DOMAIN s /\ cut[i] = s[i + a - 1]
  <2> SUFFICES ASSUME NEW i \in DOMAIN cut PROVE i \in Nat /\ i + a - 1 \in DOMAIN s /\ cut[i] = s[i + a - 1]
    OBVIOUS
  <2>1. i \in 1 .. e - a + 1 /\ i \in Nat
    BY <1>3, <1>6, <1>7
  <2>2. cut[i] = s[a + i - 1] /\ a + i - 1 = i + a - 1 /\ i + a - 1 \in 1 .. Len(s)
    BY <1>3, <1>6, <2>1
  <2> QED
    BY <1>3, <2>1, <2>2
<1> QED
  BY <1>1, <1>2, <1>4, <1>8

(* Every picture is drawn of the series it was made from. *)
LEMMA PictureIsDrawnOf ==
    ASSUME NEW mode, NEW series, NEW w, NEW shown, shown \subseteq DOMAIN series, NEW fill, NEW connect,
           \A c \in shown : IsTable(series[c])
    PROVE  DrawnOf(evaluate(gatherDatasets(mode, series, w, shown, fill), connect), series, w, shown, connect)
<1> DEFINE b(c) == boundaryIds(series[c], w)
           cut(c) == SubSeq(series[c], b(c)[1], b(c)[2])
           ids == Bounds(series, w, shown)
           pts == CutPoints(series, w, shown)
           stack == StackedOnes(pts, shown, fill)
<1>1. PICK points : points = IF fill = "off" THEN pts ELSE stack
  OBVIOUS
<1>2. PICK g : g = gatherDatasets(mode, series, w, shown, fill)
  OBVIOUS
<1>3. g.points = points /\ g.boundaryIds = ids
  <2>1. \E extremes : g = [points |-> points, extremes |-> extremes, boundaryIds |-> ids]
    BY <1>1, <1>2, Gathered
  <2> QED
    BY <2>1
<1>4. ASSUME NEW c \in shown
      PROVE  /\ DOMAIN pts[c] = DOMAIN cut(c)
             /\ \A i \in DOMAIN cut(c) : pts[c][i] = [xval |-> cut(c)[i].x, yval |-> cut(c)[i].y,
                                                      ext |-> cut(c)[i].ext, idx |-> i + b(c)[1] - 1]
  <2>1. pts[c] = seriesToPoints(cut(c), b(c)[1])
    BY DEF CutPoints, Bounds
  <2> HIDE DEF pts, cut, b
  <2> QED
    BY <2>1, PointsOfASeries
<1>5. ASSUME NEW c \in shown, NEW i \in DOMAIN cut(c)
      PROVE  \/ points[c][i] = [xval |-> cut(c)[i].x, yval |-> cut(c)[i].y, ext |-> cut(c)[i].ext, idx |-> i + b(c)[1] - 1]
             \/ \E height : points[c][i] = [xval |-> cut(c)[i].x, yval |-> cut(c)[i].y, ext |-> cut(c)[i].ext,
                                            idx |-> i + b(c)[1] - 1, stacked |-> height]
  <2>1. CASE fill = "off"
    <3> HIDE DEF pts, stack, cut, b
    <3> QED
      BY <1>1, <1>4, <2>1
  <2>2. CASE fill # "off"
    <3>1. points[c] = stackPoints(pts[c], LayersBelow(pts, fill)[c], fill).points
      <4> HIDE DEF pts
      <4> QED
        BY <1>1, <2>2 DEF StackedOnes
    <3>2. PICK height : points[c][i] = Heightened(pts[c][i], height)
      <4> HIDE DEF pts, stack, cut, b
      <4> QED
        BY <1>4, <3>1, StackingKeepsThePoints
    <3>3. PICK p : p = pts[c][i]
      OBVIOUS
    <3>4. p = [xval |-> cut(c)[i].x, yval |-> cut(c)[i].y, ext |-> cut(c)[i].ext, idx |-> i + b(c)[1] - 1]
      <4> HIDE DEF pts, stack, cut, b
      <4> QED
        BY <1>4, <3>3
    <3>5. Heightened(p, height) = [xval |-> cut(c)[i].x, yval |-> cut(c)[i].y, ext |-> cut(c)[i].ext,
                                   idx |-> i + b(c)[1] - 1, stacked |-> height]
      <4> HIDE DEF cut, b
      <4> QED
        BY <3>4 DEF Heightened
    <3> HIDE DEF pts, stack, cut, b
    <3> QED
      BY <3>2, <3>3, <3>5
  <2> QED
    BY <2>1, <2>2
<1>6. ASSUME NEW c \in shown PROVE DOMAIN points[c] = DOMAIN cut(c)
  <2>1. CASE fill = "off"
    <3> HIDE DEF pts, stack, cut
    <3> QED
      BY <1>1, <1>4, <2>1
  <2>2. CASE fill # "off"
    <3>1. points[c] = stackPoints(pts[c], LayersBelow(pts, fill)[c], fill).points
      <4> HIDE DEF pts
      <4> QED
        BY <1>1, <2>2 DEF StackedOnes
    <3> HIDE DEF pts, stack, cut
    <3> QED
      BY <1>4, <3>1, StackingKeepsThePoints
  <2> QED
    BY <2>1, <2>2
<1>7. DOMAIN points = shown
  <2>1. DOMAIN pts = shown /\ DOMAIN stack = shown
    BY DEF CutPoints, StackedOnes
  <2> HIDE DEF pts, stack
  <2> QED
    BY <1>1, <2>1
<1>8. PICK e : e = evaluate(g, connect)
  OBVIOUS
<1>9. /\ e.boundaryIds = ids
      /\ e.points = [c \in DOMAIN points |-> [i \in DOMAIN points[c] |-> [points[c][i] EXCEPT !.yval = Evaluated(@, connect)]]]
  <2> HIDE DEF ids
  <2> QED
    BY <1>3, <1>8 DEF evaluate
<1>10. DOMAIN e.points = shown /\ \A c \in shown : DOMAIN e.points[c] = DOMAIN cut(c)
  <2> HIDE DEF cut
  <2> QED
    BY <1>6, <1>7, <1>9
<1>11. ASSUME NEW c \in shown, NEW i \in DOMAIN cut(c)
       PROVE  LET row == i + b(c)[1] - 1
                  p   == e.points[c][i]
              IN  /\ i \in Nat /\ row \in DOMAIN series[c]
                  /\ p.idx = row /\ p.xval = series[c][row].x /\ p.yval = Evaluated(series[c][row].y, connect)
  <2>1. PICK p : p = points[c][i]
    OBVIOUS
  <2>2. PICK row : row = i + b(c)[1] - 1
    OBVIOUS
  <2>3. PICK q : q = cut(c)[i]
    OBVIOUS
  <2>4. e.points[c][i] = [p EXCEPT !.yval = Evaluated(@, connect)]
    <3> HIDE DEF cut
    <3> QED
      BY <1>6, <1>7, <1>9, <2>1
  <2>5. \/ p = [xval |-> q.x, yval |-> q.y, ext |-> q.ext, idx |-> row]
        \/ \E height : p = [xval |-> q.x, yval |-> q.y, ext |-> q.ext, idx |-> row, stacked |-> height]
    <3> HIDE DEF cut, b
    <3> QED
      BY <1>5, <2>1, <2>2, <2>3
  <2>6. LET r == [p EXCEPT !.yval = Evaluated(@, connect)] IN
        r.xval = q.x /\ r.yval = Evaluated(q.y, connect) /\ r.idx = row
    BY <2>5, EvaluatedPoint
  <2>7. i \in Nat /\ row \in DOMAIN series[c] /\ q = series[c][row]
    BY <2>2, <2>3, CutOf
  <2> HIDE DEF cut, b
  <2> QED
    BY <2>2, <2>4, <2>6, <2>7
<1> QED
  <2>1. evaluate(gatherDatasets(mode, series, w, shown, fill), connect) = e
    BY <1>2, <1>8
  <2>2. e.boundaryIds = [c \in shown |-> boundaryIds(series[c], w)]
    BY <1>9 DEF Bounds
  <2> HIDE DEF cut
  <2> QED
    BY <2>1, <2>2, <1>10, <1>11 DEF DrawnOf

-----------------------------------------------------------------------------
(* The inductive invariant.  The rows are those of the file; unless the    *)
(* last rolling threw, the rolled series are those of the rows and the     *)
(* roll period of now, the picture is that of these series, the window and *)
(* the visible columns of now, and the row that is selected has a point in *)
(* this picture.                                                           *)

DataInv ==
    /\ file \in Files
    /\ rawData \in {<<>>, parseCSV(file.lines)}
PictureInv ==
    /\ visibility \subseteq Columns
    /\ dateWindow \in Windows \cup {<<>>}
    /\ rolledSeries \in {<<>>, rolled(file.mode, rawData, rollPeriod)}
    /\ rolledSeries # <<>> =>
          packed = evaluate(gatherDatasets(file.mode, rolledSeries, dateWindow, visibility, file.fill), file.connect)
SelectionInv ==
    lastRow # 0 /\ rolledSeries # <<>> =>
    \E c \in DOMAIN packed.points : \E i \in DOMAIN packed.points[c] :
       packed.points[c][i].idx = lastRow /\ packed.points[c][i].yval # Null
ChartInv == DataInv /\ PictureInv /\ SelectionInv

(* No rows are rows in order. *)
LEMMA EmptyTable == IsTable(<<>>) /\ InTime(<<>>) /\ ~ OutOfOrder(<<>>)
<1>1. Len(<<>>) = 0 /\ DOMAIN <<>> = 1 .. 0
  BY EmptySeq
<1> QED
  BY <1>1 DEF IsTable, InTime, OutOfOrder

(* The rows of every state are in order. *)
LEMMA RowsInTime ==
    ASSUME DataInv
    PROVE  IsTable(rawData) /\ InTime(rawData) /\ ~ OutOfOrder(rawData)
<1>1. CASE rawData = <<>>
  BY <1>1, EmptyTable
<1>2. CASE rawData = parseCSV(file.lines)
  <2>1. PICK f \in Files : f = file
    BY DEF DataInv
  <2>2. PICK rows : rows = rawData
    OBVIOUS
  <2>3. IsTable(rows) /\ InTime(rows) /\ ~ OutOfOrder(rows)
    BY <1>2, <2>1, <2>2, DataAreInTime
  <2> QED
    BY <2>2, <2>3
<1> QED
  BY <1>1, <1>2 DEF DataInv

(* The picture of the state is one of its series, which are tables. *)
LEMMA PictureOfTheData ==
    ASSUME ChartInv, rolledSeries # <<>>
    PROVE  /\ visibility \subseteq Columns /\ DOMAIN rolledSeries = Columns
           /\ \A c \in Columns : IsTable(rolledSeries[c])
           /\ DrawnOf(packed, rolledSeries, dateWindow, visibility, file.connect)
<1>1. PICK rows, period, mode : rows = rawData /\ period = rollPeriod /\ mode = file.mode
  OBVIOUS
<1>2. IsTable(rows)
  BY <1>1, RowsInTime DEF ChartInv
<1>3. PICK series : series = rolledSeries
  OBVIOUS
<1>4. series = rolled(mode, rows, period) /\ series # <<>>
  BY <1>1, <1>3 DEF ChartInv, PictureInv
<1>5. DOMAIN series = Columns /\ \A c \in Columns : IsTable(series[c])
  BY <1>2, <1>4, RolledTables
<1>6. PICK w, shown, fill, connect : w = dateWindow /\ shown = visibility /\ fill = file.fill /\ connect = file.connect
  OBVIOUS
<1>7. shown \subseteq Columns /\ packed = evaluate(gatherDatasets(mode, series, w, shown, fill), connect)
  BY <1>1, <1>3, <1>4, <1>6 DEF ChartInv, PictureInv
<1>8. DrawnOf(evaluate(gatherDatasets(mode, series, w, shown, fill), connect), series, w, shown, connect)
  <2>1. shown \subseteq DOMAIN series /\ \A c \in shown : IsTable(series[c])
    BY <1>5, <1>7
  <2> QED
    BY <2>1, PictureIsDrawnOf
<1> QED
  BY <1>3, <1>5, <1>6, <1>7, <1>8

(* The columns of the sets of the layout. *)
LEMMA SetColumnsAre ==
    ASSUME ChartInv, rolledSeries # <<>>
    PROVE  \E n \in Nat : /\ SetColumns \in [1 .. n -> visibility]
                          /\ \A c \in visibility : \E set \in 1 .. n : SetColumns[set] = c
                          /\ \A set, other \in 1 .. n : SetColumns[set] = SetColumns[other] => set = other
<1>1. DOMAIN packed.points = visibility /\ visibility \subseteq Columns
  BY PictureOfTheData DEF DrawnOf
<1>2. PICK S : S = visibility
  OBVIOUS
<1>3. S \in SUBSET Int /\ IsFiniteSet(S)
  <2>1. S \in SUBSET Columns /\ IsFiniteSet(Columns) /\ Columns \subseteq Nat
    BY <1>1, <1>2, ChartAssumption
  <2>2. IsFiniteSet(S)
    BY <2>1, FS_Subset
  <2> QED
    BY <2>1, <2>2
<1>4. PICK n \in Nat : n = Cardinality(S)
  BY <1>3, InOrderIs
<1>5. /\ InOrder(S) \in [1 .. n -> S]
      /\ \A i \in S : \E p \in 1 .. n : InOrder(S)[p] = i
      /\ \A p, q \in 1 .. n : p < q => InOrder(S)[p] < InOrder(S)[q]
  BY <1>3, <1>4, InOrderIs
<1>6. \A p, q \in 1 .. n : InOrder(S)[p] = InOrder(S)[q] => p = q
  <2> SUFFICES ASSUME NEW p \in 1 .. n, NEW q \in 1 .. n, p < q PROVE InOrder(S)[p] # InOrder(S)[q]
    OBVIOUS
  <2>1. InOrder(S)[p] < InOrder(S)[q] /\ InOrder(S)[p] \in Int /\ InOrder(S)[q] \in Int
    BY <1>3, <1>5
  <2> QED
    BY <2>1
<1>7. SetColumns = InOrder(S)
  BY <1>1, <1>2 DEF SetColumns
<1> QED
  BY <1>2, <1>5, <1>6, <1>7

(* findClosestRow: the row that is found has a point in the picture. *)
LEMMA ClosestIsShown ==
    ASSUME ChartInv, rolledSeries # <<>>, NEW m \in Mice, findClosestRow(m) # 0
    PROVE  \E c \in DOMAIN packed.points : \E i \in DOMAIN packed.points[c] :
              packed.points[c][i].idx = findClosestRow(m) /\ packed.points[c][i].yval # Null
<1> DEFINE valid == {k \in Places : PointAt(k).yval # Null}
           best  == {k \in valid : \A l \in valid : Distance(PointAt(k), m) <= Distance(PointAt(l), m)}
           D == {Distance(PointAt(k), m) : k \in valid}
<1>1. PICK n \in Nat : SetColumns \in [1 .. n -> visibility]
  BY SetColumnsAre
<1>2. \A k \in Places : /\ k[1] \in 1 .. n /\ k[2] \in 1 .. Len(rawData)
                        /\ SetColumns[k[1]] \in visibility /\ k[2] \in DOMAIN packed.points[SetColumns[k[1]]]
  BY <1>1 DEF Places
<1>3. valid # {} /\ findClosestRow(m) = PointAt(CHOOSE k \in best : \A l \in best : Before(k, l)).idx
  BY DEF findClosestRow
<1>4. m \in Int
  BY ChartAssumption
<1>5. \A k \in Places : Distance(PointAt(k), m) \in Nat
  <2> SUFFICES ASSUME NEW k \in Places PROVE Distance(PointAt(k), m) \in Nat
    OBVIOUS
  <2>1. PICK c \in visibility : c = SetColumns[k[1]]
    BY <1>2
  <2>2. PICK i \in DOMAIN packed.points[c] : i = k[2]
    BY <1>2, <2>1
  <2>3. PICK row \in DOMAIN rolledSeries[c] : packed.points[c][i].xval = rolledSeries[c][row].x
    BY PictureOfTheData DEF DrawnOf
  <2>4. rolledSeries[c][row].x \in Int
    BY <2>3, PictureOfTheData DEF IsTable
  <2>5. PICK x \in Int : PointAt(k).xval = x
    BY <2>1, <2>2, <2>3, <2>4 DEF PointAt
  <2> QED
    BY <1>4, <2>5 DEF Distance, Abs
<1>6. best # {}
  <2>1. D \in SUBSET Nat /\ D # {}
    BY <1>3, <1>5
  <2>2. PICK d \in D : \A e \in D : d <= e
    <3> HIDE DEF D
    <3> QED
      BY <2>1, LeastNumber
  <2>3. PICK k \in valid : d = Distance(PointAt(k), m)
    OBVIOUS
  <2>4. k \in best
    BY <2>2, <2>3
  <2> QED
    BY <2>4
<1>7. \A k \in best : k[1] \in Nat /\ k[2] \in Nat
  BY <1>1, <1>2
<1>8. PICK k \in best : \A l \in best : Before(k, l)
  <2> DEFINE A == {l[1] : l \in best}
  <2>1. A \in SUBSET Nat /\ A # {}
    <3> HIDE DEF best
    <3> QED
      BY <1>6, <1>7
  <2>2. PICK a \in A : \A b \in A : a <= b
    <3> HIDE DEF A
    <3> QED
      BY <2>1, LeastNumber
  <2> DEFINE B == {l[2] : l \in {j \in best : j[1] = a}}
  <2>3. B \in SUBSET Nat /\ B # {}
    <3> HIDE DEF best
    <3> QED
      BY <1>7, <2>2
  <2>4. PICK b \in B : \A e \in B : b <= e
    <3> HIDE DEF B
    <3> QED
      BY <2>3, LeastNumber
  <2> HIDE DEF best
  <2>5. PICK k \in best : k[1] = a /\ k[2] = b
    OBVIOUS
  <2>6. ASSUME NEW l \in best PROVE Before(k, l)
    <3>1. a <= l[1] /\ a \in Nat /\ l[1] \in Nat
      BY <1>7, <2>2, <2>1
    <3>2. l[1] = a => b <= l[2]
      BY <2>4
    <3> QED
      BY <2>5, <3>1, <3>2 DEF Before
  <2> QED
    BY <2>6
<1>9. PICK j \in best : findClosestRow(m) = PointAt(j).idx
  <2> HIDE DEF best
  <2> QED
    BY <1>3, <1>8
<1>10. j \in Places /\ PointAt(j).yval # Null
  OBVIOUS
<1>11. PICK c \in visibility : c = SetColumns[j[1]]
  BY <1>2, <1>10
<1>12. PICK i \in DOMAIN packed.points[c] : i = j[2]
  BY <1>2, <1>10, <1>11
<1>13. packed.points[c][i].idx = findClosestRow(m) /\ packed.points[c][i].yval # Null /\ c \in DOMAIN packed.points
  <2>1. DOMAIN packed.points = visibility
    BY PictureOfTheData DEF DrawnOf
  <2> HIDE DEF best, valid
  <2> QED
    BY <1>9, <1>10, <1>11, <1>12, <2>1 DEF PointAt
<1> QED
  BY <1>13

-----------------------------------------------------------------------------
(* The invariant is kept by every handler. *)

(* The picture on the page is that of the present rows, roll period, window and columns, and the *)
(* row that is highlighted is in it, after every sequence of loads, rolls, zooms, hidings and    *)
(* moves of the mouse (predraw_, drawGraph_, gatherDatasets_, setSelection); a roll period that   *)
(* makes predraw_ throw leaves no series at all.                                                 *)
THEOREM ViewsAgree == Spec => []ChartInv
<1>1. Init => ChartInv
  BY DEF Init, ChartInv, DataInv, PictureInv, SelectionInv
<1>2. ChartInv /\ [Next]_vars => ChartInv'
  <2> SUFFICES ASSUME ChartInv, [Next]_vars PROVE ChartInv'
    OBVIOUS
  <2> USE DEF ChartInv
  <2>1. CASE loadedEvent
    <3>1. DataInv'
      BY <2>1 DEF loadedEvent, DataInv
    <3>2. PictureInv'
      BY <2>1 DEF loadedEvent, PictureInv, predraw, drawGraph, rolled
    <3>3. SelectionInv'
      BY <2>1 DEF loadedEvent, SelectionInv, predraw, drawGraph, rolled
    <3> QED
      BY <3>1, <3>2, <3>3
  <2>2. ASSUME NEW n \in Rolls, adjustRoll(n) PROVE ChartInv'
    <3>1. DataInv'
      BY <2>2 DEF adjustRoll, DataInv
    <3>2. PictureInv'
      BY <2>2 DEF adjustRoll, PictureInv, predraw, drawGraph, rolled
    <3>3. SelectionInv'
      BY <2>2 DEF adjustRoll, SelectionInv, predraw, drawGraph, rolled
    <3> QED
      BY <3>1, <3>2, <3>3
  <2>3. ASSUME NEW c \in Columns, setVisibility(c) PROVE ChartInv'
    <3>1. DataInv'
      BY <2>3 DEF setVisibility, DataInv
    <3>2. PictureInv'
      BY <2>3 DEF setVisibility, PictureInv, predraw, drawGraph, rolled
    <3>3. SelectionInv'
      BY <2>3 DEF setVisibility, SelectionInv, predraw, drawGraph, rolled
    <3> QED
      BY <3>1, <3>2, <3>3
  <2>4. ASSUME NEW w \in Windows, doZoomXDates(w) PROVE ChartInv'
    <3>1. DataInv'
      BY <2>4 DEF doZoomXDates, DataInv
    <3>2. PictureInv'
      BY <2>4 DEF doZoomXDates, PictureInv, drawGraph
    <3>3. SelectionInv'
      BY <2>4 DEF doZoomXDates, SelectionInv, drawGraph
    <3> QED
      BY <3>1, <3>2, <3>3
  <2>5. CASE resetZoom
    <3>1. DataInv'
      BY <2>5 DEF resetZoom, DataInv
    <3>2. PictureInv'
      BY <2>5 DEF resetZoom, PictureInv
    <3>3. SelectionInv'
      BY <2>5 DEF resetZoom, SelectionInv
    <3> QED
      BY <3>1, <3>2, <3>3
  <2>6. ASSUME NEW m \in Mice, mouseMove(m) PROVE ChartInv'
    <3>1. DataInv'
      BY <2>6 DEF mouseMove, DataInv
    <3>2. PictureInv'
      BY <2>6 DEF mouseMove, PictureInv
    <3>3. SelectionInv'
      <4>1. rolledSeries # <<>> /\ findClosestRow(m) # 0 =>
               \E c \in DOMAIN packed.points : \E i \in DOMAIN packed.points[c] :
                  packed.points[c][i].idx = findClosestRow(m) /\ packed.points[c][i].yval # Null
        BY ClosestIsShown
      <4> QED
        BY <2>6, <4>1 DEF mouseMove, SelectionInv
    <3> QED
      BY <3>1, <3>2, <3>3
  <2>7. CASE clearSelection
    BY <2>7 DEF clearSelection, DataInv, PictureInv, SelectionInv
  <2>8. CASE UNCHANGED vars
    BY <2>8 DEF vars, DataInv, PictureInv, SelectionInv
  <2> QED
    BY <2>1, <2>2, <2>3, <2>4, <2>5, <2>6, <2>7, <2>8 DEF Next
<1> QED
  BY <1>1, <1>2, PTL DEF Spec

(* parseCSV_, getRowForX: whatever the order of the lines of a file, the rows of a chart are in *)
(* the order of their times, and halving finds the first row of every time, or tells that there *)
(* is none, for files of any length.                                                            *)
THEOREM RowsAreAlwaysFound == Spec => []RowsAreFound
<1>1. ChartInv => RowsAreFound
  <2> SUFFICES ASSUME ChartInv PROVE RowsAreFound
    OBVIOUS
  <2>1. PICK rows : rows = rawData
    OBVIOUS
  <2>2. IsTable(rows) /\ InTime(rows)
    BY <2>1, RowsInTime DEF ChartInv
  <2>3. \A i \in DOMAIN rows \ {1} : rows[i - 1].x <= rows[i].x
    <3> SUFFICES ASSUME NEW i \in DOMAIN rows \ {1} PROVE rows[i - 1].x <= rows[i].x
      OBVIOUS
    <3>1. i \in 1 .. Len(rows) /\ i - 1 \in 1 .. Len(rows) /\ i - 1 <= i
      BY <2>2 DEF IsTable
    <3>2. PICK j \in 1 .. Len(rows) : j = i - 1
      BY <3>1
    <3> QED
      BY <2>2, <3>1, <3>2 DEF InTime
  <2>4. ASSUME NEW x \in {rows[i].x : i \in DOMAIN rows} \cup {0}
        PROVE  getRowForX(rows, x) = LET those == {i \in DOMAIN rows : rows[i].x = x} IN
                                     IF those = {} THEN Null ELSE Min(those)
    <3>1. x \in Int
      BY <2>2 DEF IsTable
    <3> QED
      BY <2>2, <3>1, RowForX
  <2> QED
    BY <2>1, <2>3, <2>4 DEF RowsAreFound
<1> QED
  BY <1>1, ViewsAgree, PTL

(* gatherDatasets_: no zoom loses a line: of two known points that are joined by a line through *)
(* the window both are kept, whatever the series, the roll period and the window.               *)
THEOREM LinesAlwaysReachTheEdge == Spec => []LinesReachTheEdge
<1>1. ChartInv => LinesReachTheEdge
  <2> SUFFICES ASSUME ChartInv, rolledSeries # <<>>,
                      NEW c \in DOMAIN packed.points, NEW i \in DOMAIN rolledSeries[c], NEW j \in DOMAIN rolledSeries[c],
                      Crosses(rolledSeries[c], i, j)
               PROVE  i >= packed.boundaryIds[c][1] /\ j <= packed.boundaryIds[c][2]
    BY DEF LinesReachTheEdge
  <2>1. c \in Columns /\ IsTable(rolledSeries[c]) /\ packed.boundaryIds[c] = boundaryIds(rolledSeries[c], dateWindow)
    BY PictureOfTheData DEF DrawnOf
  <2>2. PICK s, w : s = rolledSeries[c] /\ w = dateWindow
    OBVIOUS
  <2>3. LineCrosses(s, w, i, j)
    BY <2>2 DEF Crosses, LineCrosses
  <2>4. i >= boundaryIds(s, w)[1] /\ j <= boundaryIds(s, w)[2]
    BY <2>1, <2>2, <2>3, Boundaries
  <2> QED
    BY <2>1, <2>2, <2>4
<1> QED
  BY <1>1, ViewsAgree, PTL

-----------------------------------------------------------------------------
(* What is selected. *)

(* Wherever the boundary of a set is looked up, what is found is the point of the row. *)
LEMMA PointOfRowIs ==
    ASSUME ChartInv, rolledSeries # <<>>, NEW set, NEW row, SetColumns[set] \in visibility
    PROVE  LET c == SetColumns[set] IN
           /\ \A p \in PointOfRow(set, row) :
                 /\ \E i \in DOMAIN packed.points[c] : p = packed.points[c][i]
                 /\ p.idx = row /\ p.yval = Evaluated(rolledSeries[c][row].y, file.connect)
           /\ \A i \in DOMAIN packed.points[c] : packed.points[c][i].idx = row => packed.points[c][i] \in PointOfRow(set, row)
<1>1. PICK c \in visibility : c = SetColumns[set]
  OBVIOUS
<1>2. PICK q : q = packed.points[c]
  OBVIOUS
<1>3. c \in Columns /\ IsTable(rolledSeries[c])
  BY PictureOfTheData
<1>4. PICK b \in Nat : b = boundaryIds(rolledSeries[c], dateWindow)[1]
  <2>1. PICK s, w : s = rolledSeries[c] /\ w = dateWindow
    OBVIOUS
  <2>2. boundaryIds(s, w)[1] \in Nat
    BY <1>3, <2>1, Boundaries
  <2> QED
    BY <2>1, <2>2
<1>5. \A i \in DOMAIN q : /\ i \in Nat
                          /\ q[i].idx = i + b - 1
                          /\ q[i].yval = Evaluated(rolledSeries[c][q[i].idx].y, file.connect)
  <2>1. DrawnOf(packed, rolledSeries, dateWindow, visibility, file.connect)
    BY PictureOfTheData
  <2> QED
    BY <1>2, <1>4, <2>1 DEF DrawnOf
<1>6. \A i, j \in DOMAIN q : q[i].idx = row /\ q[j].idx = row => i = j
  <2> SUFFICES ASSUME NEW i \in DOMAIN q, NEW j \in DOMAIN q, q[i].idx = row, q[j].idx = row PROVE i = j
    OBVIOUS
  <2>1. i \in Nat /\ j \in Nat /\ i + b - 1 = j + b - 1
    BY <1>5
  <2> QED
    BY <2>1
<1>7. PICK at : at = row - LeftBoundary(set) + 1
  OBVIOUS
<1>8. PointOfRow(set, row) = IF at \in DOMAIN q /\ q[at].idx = row THEN {q[at]}
                             ELSE {q[i] : i \in {j \in DOMAIN q : q[j].idx = row}}
  BY <1>1, <1>2, <1>7 DEF PointOfRow
<1>9. \A p \in PointOfRow(set, row) : \E i \in DOMAIN q : p = q[i] /\ q[i].idx = row
  BY <1>8
<1>10. \A i \in DOMAIN q : q[i].idx = row => q[i] \in PointOfRow(set, row)
  BY <1>6, <1>8
<1>11. \A p \in PointOfRow(set, row) : p.idx = row /\ p.yval = Evaluated(rolledSeries[c][row].y, file.connect)
  BY <1>5, <1>9
<1> QED
  BY <1>1, <1>2, <1>9, <1>10, <1>11

(* setSelection, getLeftBoundary_: whatever columns are shown and wherever the boundary of a    *)
(* set is looked up, what is highlighted are the values of the row that is selected, of exactly *)
(* the shown series that have one, and there is at least one.                                   *)
THEOREM SelectionIsAlwaysTheRow == Spec => []SelectionIsTheRow
<1>1. ChartInv => SelectionIsTheRow
  <2> SUFFICES ASSUME ChartInv, lastRow # 0, rolledSeries # <<>> PROVE SelectionIsTheRow
    BY DEF SelectionIsTheRow
  <2> DEFINE sel == SelectedPoints(lastRow)
             found == {set \in DOMAIN SetColumns : \E p \in PointOfRow(set, lastRow) : p.yval # Null}
             value(c) == Evaluated(rolledSeries[c][lastRow].y, file.connect)
             shown(c) == \E i \in DOMAIN packed.points[c] : packed.points[c][i].idx = lastRow
  <2>1. DOMAIN packed.points = visibility
    BY PictureOfTheData DEF DrawnOf
  <2>2. PICK n \in Nat : /\ SetColumns \in [1 .. n -> visibility]
                         /\ \A c \in visibility : \E set \in 1 .. n : SetColumns[set] = c
    BY SetColumnsAre
  <2>3. DOMAIN SetColumns = 1 .. n /\ \A set \in 1 .. n : SetColumns[set] \in visibility
    BY <2>2
  <2>4. \A set \in 1 .. n :
           LET c == SetColumns[set] IN
           /\ \A p \in PointOfRow(set, lastRow) :
                 /\ \E i \in DOMAIN packed.points[c] : p = packed.points[c][i]
                 /\ p.idx = lastRow /\ p.yval = value(c)
           /\ \A i \in DOMAIN packed.points[c] :
                 packed.points[c][i].idx = lastRow => packed.points[c][i] \in PointOfRow(set, lastRow)
    <3> SUFFICES ASSUME NEW set \in 1 .. n
                 PROVE  LET c == SetColumns[set] IN
                        /\ \A p \in PointOfRow(set, lastRow) :
                              /\ \E i \in DOMAIN packed.points[c] : p = packed.points[c][i]
                              /\ p.idx = lastRow /\ p.yval = value(c)
                        /\ \A i \in DOMAIN packed.points[c] :
                              packed.points[c][i].idx = lastRow => packed.points[c][i] \in PointOfRow(set, lastRow)
      OBVIOUS
    <3>1. PICK row : row = lastRow
      OBVIOUS
    <3>2. SetColumns[set] \in visibility
      BY <2>3
    <3> QED
      BY <3>1, <3>2, PointOfRowIs
  <2>5. sel = [c \in {SetColumns[set] : set \in found} |->
                 CHOOSE p \in PointOfRow(CHOOSE set \in found : SetColumns[set] = c, lastRow) : TRUE]
    BY DEF SelectedPoints
  <2> HIDE DEF sel
  <2>6. \A set \in 1 .. n : set \in found <=> shown(SetColumns[set]) /\ value(SetColumns[set]) # Null
    <3> SUFFICES ASSUME NEW set \in 1 .. n
                 PROVE  set \in found <=> shown(SetColumns[set]) /\ value(SetColumns[set]) # Null
      OBVIOUS
    <3>1. set \in found <=> \E p \in PointOfRow(set, lastRow) : p.yval # Null
      BY <2>3
    <3> HIDE DEF found, value
    <3> QED
      BY <2>4, <3>1
  <2>7. DOMAIN sel = {c \in DOMAIN packed.points : shown(c) /\ value(c) # Null}
    <3>1. DOMAIN sel = {SetColumns[set] : set \in found}
      BY <2>5
    <3>2. found \subseteq 1 .. n
      BY <2>3
    <3> HIDE DEF found, shown, value
    <3> QED
      BY <2>1, <2>2, <2>6, <3>1, <3>2
  <2>8. ASSUME NEW c \in DOMAIN sel PROVE sel[c].idx = lastRow /\ sel[c].yval = value(c)
    <3>1. c \in {SetColumns[set] : set \in found}
      BY <2>5
    <3>2. PICK set \in found : set = CHOOSE e \in found : SetColumns[e] = c
      BY <3>1
    <3>3. SetColumns[set] = c /\ set \in 1 .. n
      BY <2>3, <3>1, <3>2
    <3>4. sel[c] = CHOOSE p \in PointOfRow(set, lastRow) : TRUE
      <4> HIDE DEF found
      <4> QED
        BY <2>5, <3>1, <3>2
    <3>5. PointOfRow(set, lastRow) # {}
      BY <3>2
    <3>6. sel[c] \in PointOfRow(set, lastRow)
      BY <3>4, <3>5
    <3> HIDE DEF found, value
    <3> QED
      BY <2>4, <3>3, <3>6
  <2>9. sel # <<>>
    <3>1. PICK c \in DOMAIN packed.points : \E i \in DOMAIN packed.points[c] :
                packed.points[c][i].idx = lastRow /\ packed.points[c][i].yval # Null
      BY DEF ChartInv, SelectionInv
    <3>2. PICK set \in 1 .. n : SetColumns[set] = c
      BY <2>1, <2>2, <3>1
    <3>3. shown(c) /\ value(c) # Null
      BY <2>4, <3>1, <3>2
    <3>4. DOMAIN sel # {}
      BY <2>7, <3>3
    <3> QED
      BY <3>4
  <2> QED
    BY <2>7, <2>8, <2>9 DEF SelectionIsTheRow, sel
<1> QED
  BY <1>1, ViewsAgree, PTL

-----------------------------------------------------------------------------
(* Sums over finite sets.                                                  *)

(* A sum over a finite set takes one element after the other out of the set: h tells the sums *)
(* over all its subsets.                                                                      *)
Partial(h, g, s) == IF s = {} THEN 0 ELSE LET x == CHOOSE x \in s : TRUE IN g[x] + h[s \ {x}]
Sums(h, g, S) == h = [s \in SUBSET S |-> Partial(h, g, s)]
SumOf(g, S) == (CHOOSE h : Sums(h, g, S))[S]

(* Of the sets of a non-empty collection of finite sets, one has no other of them as a part. *)
LEMMA SmallestSet ==
    ASSUME NEW S, IsFiniteSet(S), NEW C, C \subseteq SUBSET S, C # {}
    PROVE  \E T \in C : \A U \in SUBSET T : U # T => U \notin C
<1> DEFINE R == StrictSubsetOrdering(S)
<1>1. C \subseteq FiniteSubsetsOf(S)
  BY FS_Subset DEF FiniteSubsetsOf
<1>2. IsWellFoundedOn(R, FiniteSubsetsOf(S))
  BY FS_StrictSubsetOrderingWellFounded
<1>3. PICK T \in C : \A v \in C : ~ (<<v, T>> \in R)
  <2> HIDE DEF R
  <2> QED
    BY <1>1, <1>2, WFMin
<1>4. ASSUME NEW U \in SUBSET T, U # T, U \in C PROVE FALSE
  <2>1. <<U, T>> \in R
    BY <1>4 DEF StrictSubsetOrdering
  <2> QED
    BY <1>3, <1>4, <2>1
<1> QED
  BY <1>4

(* Two such tables agree where both have an entry, *)
LEMMA SumsAgree ==
    ASSUME NEW S, IsFiniteSet(S), NEW T, IsFiniteSet(T), NEW g, NEW h, NEW k, Sums(h, g, S), Sums(k, g, T)
    PROVE  \A s \in (SUBSET S) \cap (SUBSET T) : h[s] = k[s]
<1> DEFINE Bad == {s \in (SUBSET S) \cap (SUBSET T) : h[s] # k[s]}
<1> SUFFICES ASSUME Bad # {} PROVE FALSE
  OBVIOUS
<1>1. PICK s \in Bad : \A u \in SUBSET s : u # s => u \notin Bad
  <2>1. Bad \subseteq SUBSET S
    OBVIOUS
  <2> HIDE DEF Bad
  <2> QED
    BY <2>1, SmallestSet
<1>2. h[s] = Partial(h, g, s) /\ k[s] = Partial(k, g, s)
  BY DEF Sums
<1>3. CASE s = {}
  BY <1>2, <1>3 DEF Partial
<1>4. CASE s # {}
  <2>1. PICK x : x = CHOOSE y \in s : TRUE
    OBVIOUS
  <2>2. x \in s
    BY <1>4, <2>1
  <2>3. s \ {x} \in SUBSET s /\ s \ {x} # s /\ s \ {x} \in (SUBSET S) \cap (SUBSET T)
    BY <2>2
  <2>4. h[s \ {x}] = k[s \ {x}]
    BY <1>1, <2>3
  <2> QED
    BY <1>2, <1>4, <2>1, <2>4 DEF Partial
<1> QED
  BY <1>3, <1>4

(* and every finite set has one; *)
LEMMA SumsExist ==
    ASSUME NEW S, IsFiniteSet(S), NEW g
    PROVE  \E h : Sums(h, g, S)
<1> DEFINE Bad == {s \in SUBSET S : ~ \E h : Sums(h, g, s)}
<1> SUFFICES ASSUME Bad # {} PROVE FALSE
  OBVIOUS
<1>1. PICK T \in Bad : \A u \in SUBSET T : u # T => u \notin Bad
  <2>1. Bad \subseteq SUBSET S
    OBVIOUS
  <2> HIDE DEF Bad
  <2> QED
    BY <2>1, SmallestSet
<1>2. T \in SUBSET S /\ ~ \E h : Sums(h, g, T)
  OBVIOUS
<1>3. \A u \in SUBSET T : u # T => \E h : Sums(h, g, u)
  BY <1>1, <1>2
<1> HIDE DEF Bad
<1> DEFINE Of(u) == CHOOSE h : Sums(h, g, u)
<1>4. ASSUME NEW u \in SUBSET T, u # T PROVE Sums(Of(u), g, u)
  BY <1>3, <1>4
<1> DEFINE x(s) == CHOOSE y \in s : TRUE
           low == [s \in (SUBSET T) \ {T} |-> Of(s)[s]]
           h == [s \in SUBSET T |-> Partial(low, g, s)]
<1>5. ASSUME NEW s \in SUBSET T, s # T PROVE h[s] = low[s]
  <2>1. low[s] = Partial(Of(s), g, s)
    <3>1. Of(s) = [t \in SUBSET s |-> Partial(Of(s), g, t)]
      BY <1>4, <1>5 DEF Sums
    <3>2. s \in SUBSET s
      OBVIOUS
    <3> HIDE DEF Of
    <3>3. Of(s)[s] = Partial(Of(s), g, s)
      BY <3>1, <3>2
    <3> QED
      BY <3>3, <1>5
  <2>2. CASE s = {}
    BY <2>1, <2>2 DEF Partial
  <2>3. CASE s # {}
    <3>1. x(s) \in s
      BY <2>3
    <3> DEFINE u == s \ {x(s)}
    <3>2. u \in SUBSET s /\ u # s /\ u \in SUBSET T /\ u # T
      BY <3>1, <1>5
    <3>3. Sums(Of(s), g, s) /\ Sums(Of(u), g, u) /\ IsFiniteSet(s) /\ IsFiniteSet(u)
      BY <1>4, <1>5, <3>2, <1>2, FS_Subset
    <3>4. Of(s)[u] = Of(u)[u]
      <4>1. u \in (SUBSET s) \cap (SUBSET u)
        BY <3>2
      <4> HIDE DEF Of, u
      <4> QED
        BY <3>3, <4>1, SumsAgree
    <3>5. Partial(low, g, s) = g[x(s)] + low[u] /\ Partial(Of(s), g, s) = g[x(s)] + Of(s)[u]
      BY <2>3 DEF Partial
    <3>6. low[u] = Of(u)[u]
      BY <3>2
    <3> HIDE DEF Of, u, low, x
    <3> QED
      BY <2>1, <3>4, <3>5, <3>6, <1>5
  <2> QED
    BY <2>2, <2>3
<1>6. \A s \in SUBSET T : Partial(low, g, s) = Partial(h, g, s)
  <2> SUFFICES ASSUME NEW s \in SUBSET T PROVE Partial(low, g, s) = Partial(h, g, s)
    OBVIOUS
  <2>1. CASE s = {}
    BY <2>1 DEF Partial
  <2>2. CASE s # {}
    <3>1. x(s) \in s
      BY <2>2
    <3>2. s \ {x(s)} \in SUBSET T /\ s \ {x(s)} # T
      BY <3>1
    <3>3. h[s \ {x(s)}] = low[s \ {x(s)}]
      BY <1>5, <3>2
    <3> HIDE DEF h, low
    <3> QED
      BY <3>3, <2>2 DEF Partial
  <2> QED
    BY <2>1, <2>2
<1>7. Sums(h, g, T)
  BY <1>6 DEF Sums
<1> HIDE DEF h
<1> QED
  BY <1>2, <1>7

(* it is what the fold of the library takes, *)
LEMMA SumIsOf == ASSUME NEW g, NEW S PROVE SumFunctionOnSet(g, S) = SumOf(g, S)
BY DEF SumFunctionOnSet, FoldFunctionOnSet, MapThenFoldSet, SumOf, Sums, Partial

(* so that a sum is one of its terms and the sum of the others. *)
LEMMA SumTakes ==
    ASSUME NEW g, NEW S, IsFiniteSet(S)
    PROVE  /\ S = {} => SumFunctionOnSet(g, S) = 0
           /\ S # {} => \E x \in S : SumFunctionOnSet(g, S) = g[x] + SumFunctionOnSet(g, S \ {x})
<1> DEFINE H(T) == CHOOSE h : Sums(h, g, T)
<1>1. \A T \in SUBSET S : Sums(H(T), g, T) /\ IsFiniteSet(T)
  BY SumsExist, FS_Subset
<1>2. \A T \in SUBSET S : SumFunctionOnSet(g, T) = H(T)[T]
  BY SumIsOf DEF SumOf
<1>3. H(S)[S] = Partial(H(S), g, S)
  <2>1. PICK h : h = H(S)
    OBVIOUS
  <2>2. h = [s \in SUBSET S |-> Partial(h, g, s)]
    BY <1>1, <2>1 DEF Sums
  <2>3. h[S] = Partial(h, g, S)
    <3>1. S \in SUBSET S
      OBVIOUS
    <3> QED
      BY <2>2, <3>1
  <2> QED
    BY <2>1, <2>3
<1>4. ASSUME S # {} PROVE \E x \in S : H(S)[S] = g[x] + H(S \ {x})[S \ {x}]
  <2>1. PICK x \in S : x = CHOOSE y \in S : TRUE
    BY <1>4
  <2>2. PICK T : T = S \ {x}
    OBVIOUS
  <2>3. T \in SUBSET S /\ T \in (SUBSET S) \cap (SUBSET T)
    BY <2>2
  <2>4. Sums(H(S), g, S) /\ Sums(H(T), g, T) /\ IsFiniteSet(T)
    BY <1>1, <2>3
  <2>5. H(S)[T] = H(T)[T]
    <3> HIDE DEF H
    <3> QED
      BY <2>3, <2>4, SumsAgree
  <2>6. H(S)[S] = g[x] + H(S)[S \ {x}]
    <3> HIDE DEF H
    <3> QED
      BY <1>3, <1>4, <2>1 DEF Partial
  <2> HIDE DEF H
  <2> QED
    BY <2>2, <2>5, <2>6
<1> HIDE DEF H
<1>5. S = {} => H(S)[S] = 0
  BY <1>3 DEF Partial
<1> QED
  BY <1>2, <1>4, <1>5

(* The sum of whole numbers is a whole number. *)
LEMMA SumIsInt ==
    ASSUME NEW g, NEW S, IsFiniteSet(S), \A x \in S : g[x] \in Int
    PROVE  SumFunctionOnSet(g, S) \in Int
<1> DEFINE Bad == {T \in SUBSET S : SumFunctionOnSet(g, T) \notin Int}
<1> SUFFICES ASSUME Bad # {} PROVE FALSE
  OBVIOUS
<1>1. PICK T \in Bad : \A u \in SUBSET T : u # T => u \notin Bad
  <2>1. Bad \subseteq SUBSET S
    OBVIOUS
  <2> HIDE DEF Bad
  <2> QED
    BY <2>1, SmallestSet
<1>2. IsFiniteSet(T) /\ T # {} /\ SumFunctionOnSet(g, T) \notin Int
  BY SumTakes, FS_Subset
<1>3. PICK x \in T : SumFunctionOnSet(g, T) = g[x] + SumFunctionOnSet(g, T \ {x})
  BY <1>2, SumTakes
<1>4. SumFunctionOnSet(g, T \ {x}) \in Int
  BY <1>1
<1> QED
  BY <1>2, <1>3, <1>4

(* Any element may be taken out first. *)
LEMMA SumWithout ==
    ASSUME NEW g, NEW S, IsFiniteSet(S), \A x \in S : g[x] \in Int, NEW x \in S
    PROVE  SumFunctionOnSet(g, S) = g[x] + SumFunctionOnSet(g, S \ {x})
<1> DEFINE Sm(T) == SumFunctionOnSet(g, T)
           Bad == {T \in SUBSET S : \E y \in T : Sm(T) # g[y] + Sm(T \ {y})}
<1> SUFFICES ASSUME Bad # {} PROVE FALSE
  OBVIOUS
<1>1. PICK T \in Bad : \A u \in SUBSET T : u # T => u \notin Bad
  <2>1. Bad \subseteq SUBSET S
    OBVIOUS
  <2> HIDE DEF Bad
  <2> QED
    BY <2>1, SmallestSet
<1>2. PICK y \in T : Sm(T) # g[y] + Sm(T \ {y})
  OBVIOUS
<1>3. \A u \in SUBSET T : IsFiniteSet(u) /\ (\A z \in u : g[z] \in Int) /\ Sm(u) \in Int
  <2> SUFFICES ASSUME NEW u \in SUBSET T PROVE IsFiniteSet(u) /\ (\A z \in u : g[z] \in Int) /\ Sm(u) \in Int
    OBVIOUS
  <2>1. u \in SUBSET S
    OBVIOUS
  <2>2. IsFiniteSet(u) /\ \A z \in u : g[z] \in Int
    BY <2>1, FS_Subset
  <2> QED
    BY <2>2, SumIsInt
<1>4. PICK c \in T : Sm(T) = g[c] + Sm(T \ {c})
  <2>1. IsFiniteSet(T) /\ T # {}
    BY <1>3
  <2> QED
    BY <2>1, SumTakes
<1>5. \A u \in SUBSET T : u # T => \A z \in u : Sm(u) = g[z] + Sm(u \ {z})
  <2> HIDE DEF Sm
  <2> QED
    BY <1>1
<1> HIDE DEF Sm, Bad
<1>6. c # y
  BY <1>2, <1>4
<1>7. Sm(T \ {c}) = g[y] + Sm((T \ {c}) \ {y})
  BY <1>5, <1>6
<1>8. Sm(T \ {y}) = g[c] + Sm((T \ {y}) \ {c})
  BY <1>5, <1>6
<1>9. (T \ {c}) \ {y} = (T \ {y}) \ {c}
  OBVIOUS
<1>10. Sm((T \ {c}) \ {y}) \in Int /\ g[c] \in Int /\ g[y] \in Int
  BY <1>3
<1>11. PICK rest \in Int : rest = Sm((T \ {c}) \ {y}) /\ rest = Sm((T \ {y}) \ {c})
  BY <1>9, <1>10
<1>12. PICK a \in Int, b \in Int : a = g[c] /\ b = g[y]
  BY <1>10
<1>13. Sm(T) = a + (b + rest) /\ Sm(T \ {y}) = a + rest
  BY <1>4, <1>7, <1>8, <1>11, <1>12
<1>14. a + (b + rest) = b + (a + rest)
  OBVIOUS
<1> QED
  BY <1>2, <1>12, <1>13, <1>14

(* Only what is summed counts. *)
LEMMA SumOfTheSame ==
    ASSUME NEW g, NEW h, NEW S, IsFiniteSet(S), \A x \in S : g[x] \in Int /\ g[x] = h[x]
    PROVE  SumFunctionOnSet(g, S) = SumFunctionOnSet(h, S)
<1> DEFINE Sg(T) == SumFunctionOnSet(g, T)
           Sh(T) == SumFunctionOnSet(h, T)
           Bad == {T \in SUBSET S : Sg(T) # Sh(T)}
<1> SUFFICES ASSUME Bad # {} PROVE FALSE
  OBVIOUS
<1>1. PICK T \in Bad : \A u \in SUBSET T : u # T => u \notin Bad
  <2>1. Bad \subseteq SUBSET S
    OBVIOUS
  <2> HIDE DEF Bad
  <2> QED
    BY <2>1, SmallestSet
<1>2. T \in SUBSET S /\ Sg(T) # Sh(T)
  OBVIOUS
<1>3. IsFiniteSet(T) /\ (\A x \in T : g[x] \in Int /\ h[x] \in Int)
  BY <1>2, FS_Subset
<1>4. T # {}
  <2>1. Sg({}) = 0 /\ Sh({}) = 0
    BY SumTakes, FS_EmptySet
  <2> QED
    BY <1>2, <2>1
<1>5. PICK x : x \in T
  BY <1>4
<1>6. Sg(T) = g[x] + Sg(T \ {x}) /\ Sh(T) = h[x] + Sh(T \ {x})
  BY <1>3, <1>5, SumWithout
<1>7. Sg(T \ {x}) = Sh(T \ {x})
  BY <1>1, <1>2, <1>5
<1> HIDE DEF Sg, Sh, Bad
<1> QED
  BY <1>2, <1>5, <1>6, <1>7

(* An element more, or none. *)
LEMMA SumWith ==
    ASSUME NEW g, NEW S, IsFiniteSet(S), NEW x, x \notin S, \A y \in S \cup {x} : g[y] \in Int
    PROVE  SumFunctionOnSet(g, S \cup {x}) = g[x] + SumFunctionOnSet(g, S)
<1>1. IsFiniteSet(S \cup {x}) /\ (S \cup {x}) \ {x} = S
  BY FS_AddElement
<1> QED
  BY <1>1, SumWithout

(* The sum of nothing is zero. *)
LEMMA SumOfNone == ASSUME NEW g PROVE SumFunctionOnSet(g, {}) = 0
BY SumTakes, FS_EmptySet

(* The sum of natural numbers is one. *)
LEMMA SumIsNat ==
    ASSUME NEW g, NEW S, IsFiniteSet(S), \A x \in S : g[x] \in Nat
    PROVE  SumFunctionOnSet(g, S) \in Nat
<1> DEFINE Bad == {T \in SUBSET S : SumFunctionOnSet(g, T) \notin Nat}
<1> SUFFICES ASSUME Bad # {} PROVE FALSE
  OBVIOUS
<1>1. PICK T \in Bad : \A u \in SUBSET T : u # T => u \notin Bad
  <2>1. Bad \subseteq SUBSET S
    OBVIOUS
  <2> HIDE DEF Bad
  <2> QED
    BY <2>1, SmallestSet
<1>2. IsFiniteSet(T) /\ T # {} /\ SumFunctionOnSet(g, T) \notin Nat
  BY SumTakes, FS_Subset
<1>3. PICK x \in T : SumFunctionOnSet(g, T) = g[x] + SumFunctionOnSet(g, T \ {x})
  BY <1>2, SumTakes
<1>4. SumFunctionOnSet(g, T \ {x}) \in Nat
  BY <1>1
<1> QED
  BY <1>2, <1>3, <1>4

(* A sum of smaller terms is smaller. *)
LEMMA SumIsLess ==
    ASSUME NEW g, NEW h, NEW S, IsFiniteSet(S), \A x \in S : g[x] \in Int /\ h[x] \in Int /\ g[x] <= h[x]
    PROVE  SumFunctionOnSet(g, S) <= SumFunctionOnSet(h, S)
<1> DEFINE Sg(T) == SumFunctionOnSet(g, T)
           Sh(T) == SumFunctionOnSet(h, T)
           Bad == {T \in SUBSET S : ~ (Sg(T) <= Sh(T))}
<1> SUFFICES ASSUME Bad # {} PROVE FALSE
  OBVIOUS
<1>1. PICK T \in Bad : \A u \in SUBSET T : u # T => u \notin Bad
  <2>1. Bad \subseteq SUBSET S
    OBVIOUS
  <2> HIDE DEF Bad
  <2> QED
    BY <2>1, SmallestSet
<1>2. T \in SUBSET S /\ ~ (Sg(T) <= Sh(T))
  OBVIOUS
<1>3. \A U \in SUBSET T : IsFiniteSet(U) /\ Sg(U) \in Int /\ Sh(U) \in Int
  <2> SUFFICES ASSUME NEW U \in SUBSET T PROVE IsFiniteSet(U) /\ Sg(U) \in Int /\ Sh(U) \in Int
    OBVIOUS
  <2>1. IsFiniteSet(U) /\ \A x \in U : g[x] \in Int /\ h[x] \in Int
    BY <1>2, FS_Subset
  <2> QED
    BY <2>1, SumIsInt
<1>4. T # {}
  <2>1. Sg({}) = 0 /\ Sh({}) = 0
    BY SumOfNone
  <2> QED
    BY <1>2, <2>1
<1>5. PICK x : x \in T /\ g[x] \in Int /\ h[x] \in Int /\ g[x] <= h[x]
  BY <1>2, <1>4
<1>6. Sg(T) = g[x] + Sg(T \ {x}) /\ Sh(T) = h[x] + Sh(T \ {x})
  <2>1. IsFiniteSet(T) /\ \A y \in T : g[y] \in Int /\ h[y] \in Int
    BY <1>2, <1>3
  <2> QED
    BY <2>1, <1>5, SumWithout
<1>7. Sg(T \ {x}) <= Sh(T \ {x}) /\ Sg(T \ {x}) \in Int /\ Sh(T \ {x}) \in Int
  BY <1>1, <1>2, <1>3, <1>5
<1> HIDE DEF Sg, Sh, Bad
<1> QED
  BY <1>2, <1>5, <1>6, <1>7

(* What adds nothing may be left out. *)
LEMMA SumSkips ==
    ASSUME NEW g, NEW S, IsFiniteSet(S), \A x \in S : g[x] \in Int, NEW T \in SUBSET S, \A x \in S \ T : g[x] = 0
    PROVE  SumFunctionOnSet(g, S) = SumFunctionOnSet(g, T)
<1> DEFINE Sm(U) == SumFunctionOnSet(g, U)
           Bad == {U \in SUBSET S : T \subseteq U /\ Sm(U) # Sm(T)}
<1> SUFFICES ASSUME Bad # {} PROVE FALSE
  OBVIOUS
<1>1. PICK U \in Bad : \A u \in SUBSET U : u # U => u \notin Bad
  <2>1. Bad \subseteq SUBSET S
    OBVIOUS
  <2> HIDE DEF Bad
  <2> QED
    BY <2>1, SmallestSet
<1>2. U \in SUBSET S /\ T \subseteq U /\ Sm(U) # Sm(T) /\ U # T
  OBVIOUS
<1>3. PICK x : x \in U \ T
  BY <1>2
<1>4. IsFiniteSet(U) /\ IsFiniteSet(U \ {x}) /\ (\A y \in U : g[y] \in Int) /\ g[x] = 0
  BY <1>2, <1>3, FS_Subset
<1>5. Sm(U) = g[x] + Sm(U \ {x}) /\ Sm(U \ {x}) \in Int
  <2>1. Sm(U) = g[x] + Sm(U \ {x})
    BY <1>3, <1>4, SumWithout
  <2>2. \A y \in U \ {x} : g[y] \in Int
    BY <1>4
  <2> QED
    BY <2>1, <2>2, <1>4, SumIsInt
<1>6. Sm(U \ {x}) = Sm(T)
  BY <1>1, <1>2, <1>3
<1> HIDE DEF Sm, Bad
<1> QED
  BY <1>2, <1>4, <1>5, <1>6

(* A sum of ones counts them. *)
LEMMA SumOfOnes ==
    ASSUME NEW g, NEW S, IsFiniteSet(S), \A x \in S : g[x] = 1
    PROVE  SumFunctionOnSet(g, S) = Cardinality(S)
<1> DEFINE Sm(U) == SumFunctionOnSet(g, U)
           Bad == {U \in SUBSET S : Sm(U) # Cardinality(U)}
<1> SUFFICES ASSUME Bad # {} PROVE FALSE
  OBVIOUS
<1>1. PICK U \in Bad : \A u \in SUBSET U : u # U => u \notin Bad
  <2>1. Bad \subseteq SUBSET S
    OBVIOUS
  <2> HIDE DEF Bad
  <2> QED
    BY <2>1, SmallestSet
<1>2. U \in SUBSET S /\ Sm(U) # Cardinality(U)
  OBVIOUS
<1>3. U # {}
  <2>1. Sm({}) = 0 /\ Cardinality({}) = 0
    BY SumOfNone, FS_EmptySet
  <2> QED
    BY <1>2, <2>1
<1>4. PICK x : x \in U
  BY <1>3
<1>5. IsFiniteSet(U) /\ IsFiniteSet(U \ {x}) /\ (\A y \in U : g[y] \in Int) /\ g[x] = 1
  BY <1>2, <1>4, FS_Subset
<1>6. Sm(U) = g[x] + Sm(U \ {x})
  BY <1>4, <1>5, SumWithout
<1>7. Sm(U \ {x}) = Cardinality(U \ {x}) /\ Cardinality(U \ {x}) \in Nat
  BY <1>1, <1>2, <1>4, <1>5, FS_CardinalityType
<1>8. Cardinality(U) = Cardinality(U \ {x}) + 1
  BY <1>4, <1>5, <1>7, FS_RemoveElement, FS_CardinalityType
<1> HIDE DEF Sm, Bad
<1> QED
  BY <1>2, <1>5, <1>6, <1>7, <1>8

-----------------------------------------------------------------------------
(* Windows. *)

(* The last rows of a row are an interval. *)
LEMMA WindowIs ==
    ASSUME NEW i \in Nat, NEW r \in Nat \ {0}
    PROVE  /\ WindowOf(i, r) = LastRows(i, r)
           /\ WindowOf(i, r) \in SUBSET (1 .. i)
           /\ IsFiniteSet(WindowOf(i, r))
<1>1. WindowOf(i, r) = LastRows(i, r) /\ WindowOf(i, r) \in SUBSET (1 .. i)
  BY DEF WindowOf, LastRows
<1>2. IsFiniteSet(1 .. i)
  BY FS_Interval
<1> QED
  BY <1>1, <1>2, FS_Subset

(* The window of the next row takes that row in, and the row that is a period older out. *)
LEMMA WindowMoves ==
    ASSUME NEW i \in Nat \ {0}, NEW r \in Nat \ {0}, NEW g, \A j \in 1 .. i : g[j] \in Int
    PROVE  LET before == SumFunctionOnSet(g, WindowOf(i - 1, r)) IN
           /\ before \in Int
           /\ SumFunctionOnSet(g, WindowOf(i, r)) = (before + g[i]) - (IF i - r >= 1 THEN g[i - r] ELSE 0)
<1> DEFINE old == WindowOf(i - 1, r)
           new == WindowOf(i, r)
<1>1. /\ old = LastRows(i - 1, r) /\ old \in SUBSET (1 .. i - 1) /\ IsFiniteSet(old)
      /\ new = LastRows(i, r) /\ new \in SUBSET (1 .. i) /\ IsFiniteSet(new)
  BY WindowIs
<1> HIDE DEF old, new
<1>2. i \notin old /\ \A j \in old \cup {i} : g[j] \in Int
  BY <1>1
<1>3. SumFunctionOnSet(g, old) \in Int /\ SumFunctionOnSet(g, old \cup {i}) = g[i] + SumFunctionOnSet(g, old)
  BY <1>1, <1>2, SumIsInt, SumWith
<1>4. CASE i - r >= 1
  <2>1. i - r \in old \cup {i} /\ new = (old \cup {i}) \ {i - r}
    BY <1>1, <1>4 DEF LastRows
  <2>2. IsFiniteSet(old \cup {i})
    BY <1>1, FS_AddElement
  <2>3. SumFunctionOnSet(g, old \cup {i}) = g[i - r] + SumFunctionOnSet(g, new)
    BY <1>2, <2>1, <2>2, SumWithout
  <2>4. SumFunctionOnSet(g, new) \in Int
    <3>1. \A j \in new : g[j] \in Int
      BY <1>1
    <3> QED
      BY <3>1, <1>1, SumIsInt
  <2>5. g[i - r] \in Int /\ g[i] \in Int
    BY <1>2, <2>1
  <2> QED
    BY <1>3, <1>4, <2>3, <2>4, <2>5 DEF old, new
<1>5. CASE ~ (i - r >= 1)
  <2>1. new = old \cup {i}
    BY <1>1, <1>5 DEF LastRows
  <2>2. g[i] \in Int
    BY <1>2
  <2> QED
    BY <1>3, <1>5, <2>1, <2>2 DEF old, new
<1> QED
  BY <1>4, <1>5

-----------------------------------------------------------------------------
(* rollingAverage of the custom bars: its running sums are the sums of the *)
(* window.                                                                 *)

(* Numbers that are there add up as numbers. *)
LEMMA Adding ==
    ASSUME NEW a \in Int, NEW b \in Int
    PROVE  Plus(a, b) = a + b /\ Minus(a, b) = a - b /\ Num(a) = a /\ ~ Missing(a)
BY ChartAssumption DEF Plus, Minus, Num, Missing

(* The bars of a series: where there is a value, there are numbers. *)
HasBars(s) == \A j \in 1 .. Len(s) : Missing(s[j].y) \/ (s[j].y \in Int /\ s[j].ext[1] \in Int /\ s[j].ext[2] \in Int)

Of(s, v) == [j \in 1 .. Len(s) |-> IF Missing(s[j].y) THEN 0 ELSE v[j]]
Ys(s) == Of(s, [j \in 1 .. Len(s) |-> s[j].y])
Exts(s, e) == Of(s, [j \in 1 .. Len(s) |-> s[j].ext[e]])
Ones(s) == Of(s, [j \in 1 .. Len(s) |-> 1])

(* What the running sums are in row i: sums over the window of that row. *)
InWindow(s, r, i) ==
    [low  |-> SumFunctionOnSet(Exts(s, 1), WindowOf(i, r)),
     mid  |-> SumFunctionOnSet(Ys(s), WindowOf(i, r)),
     high |-> SumFunctionOnSet(Exts(s, 2), WindowOf(i, r)),
     n    |-> SumFunctionOnSet(Ones(s), WindowOf(i, r))]

CustomAdd(a, p) == IF Missing(p.y) THEN a
                   ELSE [low |-> Plus(a.low, p.ext[1]), mid |-> a.mid + p.y, high |-> Plus(a.high, p.ext[2]), n |-> a.n + 1]
CustomSub(a, p) == IF Missing(p.y) THEN a
                   ELSE [low |-> Minus(a.low, p.ext[1]), mid |-> a.mid - p.y, high |-> Minus(a.high, p.ext[2]), n |-> a.n - 1]
CustomStep(before, s, r, i) ==
    LET a == CustomAdd(before, s[i]) IN IF i - r >= 1 THEN CustomSub(a, s[i - r]) ELSE a
IsCustomSum(h, s, r) ==
    h = [i \in 0 .. Len(s) |-> IF i = 0 THEN [low |-> 0, mid |-> 0, high |-> 0, n |-> 0]
                               ELSE CustomStep(h[i - 1], s, r, i)]

(* One row on, the sums of the custom bars are those of the window one row on. *)
LEMMA CustomStepMoves ==
    ASSUME NEW s, Len(s) \in Nat, HasBars(s), NEW r \in Nat \ {0}, NEW i \in 1 .. Len(s)
    PROVE  InWindow(s, r, i) = CustomStep(InWindow(s, r, i - 1), s, r, i)
<1> DEFINE gl == Exts(s, 1)
           gm == Ys(s)
           gh == Exts(s, 2)
           gn == Ones(s)
           D == 1 .. Len(s)
           Sm(g, k) == SumFunctionOnSet(g, WindowOf(k, r))
           back(g) == IF i - r >= 1 THEN g[i - r] ELSE 0
<1>1. \A j \in D : /\ Missing(s[j].y) => gl[j] = 0 /\ gm[j] = 0 /\ gh[j] = 0 /\ gn[j] = 0
                   /\ ~ Missing(s[j].y) => /\ gl[j] = s[j].ext[1] /\ gm[j] = s[j].y /\ gh[j] = s[j].ext[2] /\ gn[j] = 1
                                           /\ gl[j] \in Int /\ gm[j] \in Int /\ gh[j] \in Int
  BY DEF HasBars, Exts, Ys, Ones, Of
<1> HIDE DEF gl, gm, gh, gn
<1>2. \A j \in D : gl[j] \in Int /\ gm[j] \in Int /\ gh[j] \in Int /\ gn[j] \in Int
  BY <1>1
<1>3. i \in Nat \ {0} /\ i \in D /\ \A j \in 1 .. i : j \in D
  OBVIOUS
<1>4. ASSUME NEW g, \A j \in D : g[j] \in Int
      PROVE  Sm(g, i - 1) \in Int /\ Sm(g, i) = (Sm(g, i - 1) + g[i]) - back(g)
  <2>1. \A j \in 1 .. i : g[j] \in Int
    BY <1>3, <1>4
  <2> QED
    BY <2>1, <1>3, WindowMoves
<1>5. PICK a \in Int, b \in Int, c \in Int, d \in Int :
         a = Sm(gl, i - 1) /\ b = Sm(gm, i - 1) /\ c = Sm(gh, i - 1) /\ d = Sm(gn, i - 1)
  BY <1>2, <1>4
<1>6. InWindow(s, r, i - 1) = [low |-> a, mid |-> b, high |-> c, n |-> d]
  BY <1>5 DEF InWindow, gl, gm, gh, gn
<1>7. InWindow(s, r, i) = [low  |-> (a + gl[i]) - back(gl), mid |-> (b + gm[i]) - back(gm),
                           high |-> (c + gh[i]) - back(gh), n   |-> (d + gn[i]) - back(gn)]
  <2>1. /\ Sm(gl, i) = (a + gl[i]) - back(gl) /\ Sm(gm, i) = (b + gm[i]) - back(gm)
        /\ Sm(gh, i) = (c + gh[i]) - back(gh) /\ Sm(gn, i) = (d + gn[i]) - back(gn)
    BY <1>2, <1>4, <1>5
  <2>2. InWindow(s, r, i) = [low |-> Sm(gl, i), mid |-> Sm(gm, i), high |-> Sm(gh, i), n |-> Sm(gn, i)]
    BY DEF InWindow, gl, gm, gh, gn
  <2> HIDE DEF Sm, back
  <2> QED
    BY <2>1, <2>2
<1>8. CustomAdd([low |-> a, mid |-> b, high |-> c, n |-> d], s[i]) =
      [low |-> a + gl[i], mid |-> b + gm[i], high |-> c + gh[i], n |-> d + gn[i]]
  <2>1. CASE Missing(s[i].y)
    <3>1. gl[i] = 0 /\ gm[i] = 0 /\ gh[i] = 0 /\ gn[i] = 0
      BY <2>1, <1>1, <1>3
    <3>2. a + gl[i] = a /\ b + gm[i] = b /\ c + gh[i] = c /\ d + gn[i] = d
      BY <3>1
    <3>3. CustomAdd([low |-> a, mid |-> b, high |-> c, n |-> d], s[i]) = [low |-> a, mid |-> b, high |-> c, n |-> d]
      BY <2>1 DEF CustomAdd
    <3> QED
      BY <3>2, <3>3
  <2>2. CASE ~ Missing(s[i].y)
    <3>1. gl[i] \in Int /\ gl[i] = s[i].ext[1] /\ gh[i] \in Int /\ gh[i] = s[i].ext[2] /\ gm[i] = s[i].y /\ gn[i] = 1
      BY <2>2, <1>1, <1>3
    <3>2. Plus(a, gl[i]) = a + gl[i] /\ Plus(c, gh[i]) = c + gh[i]
      BY <3>1, Adding
    <3> QED
      BY <2>2, <3>1, <3>2 DEF CustomAdd
  <2> QED
    BY <2>1, <2>2
<1>9. PICK a1 \in Int, b1 \in Int, c1 \in Int, d1 \in Int :
         a1 = a + gl[i] /\ b1 = b + gm[i] /\ c1 = c + gh[i] /\ d1 = d + gn[i]
  <2>1. gl[i] \in Int /\ gm[i] \in Int /\ gh[i] \in Int /\ gn[i] \in Int
    BY <1>2, <1>3
  <2>2. a + gl[i] \in Int /\ b + gm[i] \in Int /\ c + gh[i] \in Int /\ d + gn[i] \in Int
    BY <2>1
  <2> QED
    BY <2>2
<1>10. CASE i - r >= 1
  <2>1. i - r \in D
    BY <1>10
  <2>2. CustomSub([low |-> a1, mid |-> b1, high |-> c1, n |-> d1], s[i - r]) =
        [low |-> a1 - gl[i - r], mid |-> b1 - gm[i - r], high |-> c1 - gh[i - r], n |-> d1 - gn[i - r]]
    <3>1. CASE Missing(s[i - r].y)
      BY <3>1, <2>1, <1>1 DEF CustomSub
    <3>2. CASE ~ Missing(s[i - r].y)
      <4>1. /\ gl[i - r] \in Int /\ gl[i - r] = s[i - r].ext[1] /\ gh[i - r] \in Int /\ gh[i - r] = s[i - r].ext[2]
            /\ gm[i - r] = s[i - r].y /\ gn[i - r] = 1
        BY <3>2, <2>1, <1>1
      <4>2. Minus(a1, gl[i - r]) = a1 - gl[i - r] /\ Minus(c1, gh[i - r]) = c1 - gh[i - r]
        BY <4>1, Adding
      <4> QED
        BY <3>2, <4>1, <4>2 DEF CustomSub
    <3> QED
      BY <3>1, <3>2
  <2> QED
    BY <1>6, <1>7, <1>8, <1>9, <1>10, <2>2 DEF CustomStep
<1>11. CASE ~ (i - r >= 1)
  BY <1>6, <1>7, <1>8, <1>9, <1>11 DEF CustomStep
<1> QED
  BY <1>10, <1>11

(* Before the first row there is no row in the window. *)
LEMMA NoneInWindow ==
    ASSUME NEW s, NEW r \in Nat \ {0}
    PROVE  InWindow(s, r, 0) = [low |-> 0, mid |-> 0, high |-> 0, n |-> 0] /\ WindowOf(0, r) = {}
<1>1. WindowOf(0, r) = {}
  BY DEF WindowOf
<1> QED
  BY <1>1, SumOfNone DEF InWindow

(* The running sums of the custom bars are the sums over the windows. *)
LEMMA CustomSumsAre ==
    ASSUME NEW s, Len(s) \in Nat, HasBars(s), NEW r \in Nat \ {0}
    PROVE  \A i \in 0 .. Len(s) : CustomSums(s, r)[i] = InWindow(s, r, i)
<1> DEFINE W == [i \in 0 .. Len(s) |-> InWindow(s, r, i)]
           Z == [low |-> 0, mid |-> 0, high |-> 0, n |-> 0]
           h == CustomSums(s, r)
<1>1. IsCustomSum(W, s, r)
  <2>1. \A i \in 0 .. Len(s) : W[i] = IF i = 0 THEN Z ELSE CustomStep(W[i - 1], s, r, i)
    <3> SUFFICES ASSUME NEW i \in 0 .. Len(s) PROVE W[i] = IF i = 0 THEN Z ELSE CustomStep(W[i - 1], s, r, i)
      OBVIOUS
    <3>1. CASE i = 0
      BY <3>1, NoneInWindow
    <3>2. CASE i # 0
      <4>1. i \in 1 .. Len(s) /\ i - 1 \in 0 .. Len(s)
        BY <3>2
      <4>2. W[i] = InWindow(s, r, i) /\ W[i - 1] = InWindow(s, r, i - 1)
        BY <4>1
      <4> HIDE DEF W
      <4> QED
        BY <3>2, <4>1, <4>2, CustomStepMoves
    <3> QED
      BY <3>1, <3>2
  <2> QED
    BY <2>1 DEF IsCustomSum
<1>2. h = CHOOSE k : IsCustomSum(k, s, r)
  BY DEF CustomSums, IsCustomSum, CustomStep, CustomAdd, CustomSub
<1>3. IsCustomSum(h, s, r)
  <2> HIDE DEF h, W
  <2> QED
    BY <1>1, <1>2
<1> DEFINE Bad == {i \in 0 .. Len(s) : h[i] # InWindow(s, r, i)}
<1> SUFFICES ASSUME Bad # {} PROVE FALSE
  OBVIOUS
<1>4. PICK i \in Bad : \A k \in Bad : i <= k
  <2>1. Bad \in SUBSET Nat
    OBVIOUS
  <2> HIDE DEF Bad
  <2> QED
    BY <2>1, LeastNumber
<1>5. i \in 0 .. Len(s) /\ h[i] # InWindow(s, r, i)
  OBVIOUS
<1>6. h[i] = IF i = 0 THEN Z ELSE CustomStep(h[i - 1], s, r, i)
  <2> HIDE DEF h
  <2> QED
    BY <1>3, <1>5 DEF IsCustomSum
<1>7. i # 0
  BY <1>5, <1>6, NoneInWindow
<1>8. i \in 1 .. Len(s) /\ i - 1 \in 0 .. Len(s) /\ i - 1 \notin Bad
  BY <1>4, <1>5, <1>7
<1>9. h[i - 1] = InWindow(s, r, i - 1)
  BY <1>8
<1> HIDE DEF h, Bad, Z
<1> QED
  BY <1>5, <1>6, <1>7, <1>8, <1>9, CustomStepMoves

-----------------------------------------------------------------------------
(* rollingAverage of the fractions: its running sums, which a numerator that *)
(* is no number spoils.                                                    *)

Numerator(p) == p.ext[Len(p.ext) - 1]
Denominator(p) == p.ext[Len(p.ext)]
HasFractions(s) ==
    \A j \in 1 .. Len(s) : Numerator(s[j]) \in Int \cup {Null, NaN} /\ Denominator(s[j]) \in Nat \cup {Null}

Spoilt(s, i) == \E j \in 1 .. i : Numerator(s[j]) = NaN
Nums(s) == [j \in 1 .. Len(s) |-> IF Numerator(s[j]) = NaN THEN 0 ELSE Num(Numerator(s[j]))]
Dens(s) == [j \in 1 .. Len(s) |-> Num(Denominator(s[j]))]

(* The running sums in row i: over the window of that row, but a numerator that is no number stays. *)
Fractions(s, r, i) ==
    << IF Spoilt(s, i) THEN NaN ELSE SumFunctionOnSet(Nums(s), WindowOf(i, r)),
       SumFunctionOnSet(Dens(s), WindowOf(i, r)) >>

FractionStep(before, s, r, i) ==
    LET of(p) == <<p.ext[Len(p.ext) - 1], p.ext[Len(p.ext)]>>
        a == [k \in 1 .. 2 |-> Plus(before[k], of(s[i])[k])]
    IN  IF i - r >= 1 THEN [k \in 1 .. 2 |-> Minus(a[k], of(s[i - r])[k])] ELSE a
IsFractionSum(h, s, r) ==
    h = [i \in 0 .. Len(s) |-> IF i = 0 THEN <<0, 0>> ELSE FractionStep(h[i - 1], s, r, i)]

(* What is no number spoils a sum. *)
LEMMA AddingNaN ==
    ASSUME NEW v
    PROVE  Plus(NaN, v) = NaN /\ Plus(v, NaN) = NaN /\ Minus(NaN, v) = NaN /\ Minus(v, NaN) = NaN
BY DEF Plus, Minus

(* A missing numerator or denominator adds nothing. *)
LEMMA AddingFractions ==
    ASSUME NEW a \in Int, NEW b \in Int \cup {Null}
    PROVE  /\ Num(b) \in Int /\ b # NaN
           /\ Plus(a, b) = a + Num(b) /\ Minus(a, b) = a - Num(b)
<1>1. a # NaN /\ b # NaN /\ a # Null
  BY ChartAssumption
<1>2. Num(a) = a /\ Num(b) \in Int
  BY <1>1 DEF Num
<1> QED
  BY <1>1, <1>2 DEF Plus, Minus

(* One row on, the sums of the fractions are those of the window one row on, unless a numerator spoilt them. *)
LEMMA FractionStepMoves ==
    ASSUME NEW s, Len(s) \in Nat, HasFractions(s), NEW r \in Nat \ {0}, NEW i \in 1 .. Len(s)
    PROVE  Fractions(s, r, i) = FractionStep(Fractions(s, r, i - 1), s, r, i)
<1> DEFINE gn == Nums(s)
           gd == Dens(s)
           D == 1 .. Len(s)
           num(j) == Numerator(s[j])
           den(j) == Denominator(s[j])
           Sm(g, k) == SumFunctionOnSet(g, WindowOf(k, r))
           back(g) == IF i - r >= 1 THEN g[i - r] ELSE 0
<1>1. \A j \in D : /\ num(j) \in Int \cup {Null, NaN} /\ den(j) \in Nat \cup {Null}
                   /\ gn[j] = (IF num(j) = NaN THEN 0 ELSE Num(num(j))) /\ gd[j] = Num(den(j))
  BY DEF HasFractions, Nums, Dens
<1>2. \A j \in D : gn[j] \in Int /\ gd[j] \in Int
  BY <1>1, ChartAssumption DEF Num
<1> HIDE DEF gn, gd, num, den
<1>3. i \in Nat \ {0} /\ i \in D /\ \A j \in 1 .. i : j \in D
  OBVIOUS
<1>4. ASSUME NEW g, \A j \in D : g[j] \in Int
      PROVE  Sm(g, i - 1) \in Int /\ Sm(g, i) = (Sm(g, i - 1) + g[i]) - back(g)
  <2>1. \A j \in 1 .. i : g[j] \in Int
    BY <1>3, <1>4
  <2> QED
    BY <2>1, <1>3, WindowMoves
<1>5. PICK a \in Int \cup {NaN}, b \in Int : a = (IF Spoilt(s, i - 1) THEN NaN ELSE Sm(gn, i - 1)) /\ b = Sm(gd, i - 1)
  BY <1>2, <1>4
<1>6. Fractions(s, r, i - 1) = <<a, b>>
  BY <1>5 DEF Fractions, gn, gd
<1>7. PICK p, q : p = num(i) /\ q = den(i)
  OBVIOUS
<1>8. PICK p0, q0 : p0 = num(i - r) /\ q0 = den(i - r)
  OBVIOUS
<1>9. FractionStep(<<a, b>>, s, r, i) =
         IF i - r >= 1 THEN <<Minus(Plus(a, p), p0), Minus(Plus(b, q), q0)>> ELSE <<Plus(a, p), Plus(b, q)>>
  <2>1. \A u, v, x, y : [k \in 1 .. 2 |-> Plus(<<u, v>>[k], <<x, y>>[k])] = <<Plus(u, x), Plus(v, y)>>
    OBVIOUS
  <2>2. \A u, v, x, y : [k \in 1 .. 2 |-> Minus(<<u, v>>[k], <<x, y>>[k])] = <<Minus(u, x), Minus(v, y)>>
    OBVIOUS
  <2>3. FractionStep(<<a, b>>, s, r, i) =
           LET of(z) == <<z.ext[Len(z.ext) - 1], z.ext[Len(z.ext)]>>
               t == [k \in 1 .. 2 |-> Plus(<<a, b>>[k], of(s[i])[k])]
           IN  IF i - r >= 1 THEN [k \in 1 .. 2 |-> Minus(t[k], of(s[i - r])[k])] ELSE t
    BY DEF FractionStep
  <2>4. <<s[i].ext[Len(s[i].ext) - 1], s[i].ext[Len(s[i].ext)]>> = <<p, q>>
    BY <1>7 DEF num, den, Numerator, Denominator
  <2>5. <<s[i - r].ext[Len(s[i - r].ext) - 1], s[i - r].ext[Len(s[i - r].ext)]>> = <<p0, q0>>
    BY <1>8 DEF num, den, Numerator, Denominator
  <2>6. FractionStep(<<a, b>>, s, r, i) =
           LET t == [k \in 1 .. 2 |-> Plus(<<a, b>>[k], <<p, q>>[k])]
           IN  IF i - r >= 1 THEN [k \in 1 .. 2 |-> Minus(t[k], <<p0, q0>>[k])] ELSE t
    BY <2>3, <2>4, <2>5
  <2> QED
    BY <2>1, <2>2, <2>6
<1>10. Spoilt(s, i) <=> Spoilt(s, i - 1) \/ p = NaN
  BY <1>3, <1>7 DEF Spoilt, num
<1>11. i - r >= 1 /\ p0 = NaN => Spoilt(s, i - 1)
  <2>1. i - r >= 1 => i - r \in 1 .. i - 1
    OBVIOUS
  <2> QED
    BY <2>1, <1>8 DEF Spoilt, num
<1>12. p \in Int \cup {Null, NaN} /\ q \in Nat \cup {Null} /\ gd[i] = Num(q) /\ (p # NaN => gn[i] = Num(p))
  BY <1>1, <1>3, <1>7
<1>13. i - r >= 1 => p0 \in Int \cup {Null, NaN} /\ q0 \in Nat \cup {Null} /\ gd[i - r] = Num(q0) /\ (p0 # NaN => gn[i - r] = Num(p0))
  BY <1>1, <1>8
<1>14. q # NaN /\ Plus(b, q) = b + Num(q) /\ Num(q) \in Int /\ b + Num(q) \in Int
  <2>1. q \in Int \cup {Null}
    BY <1>12
  <2>2. q # NaN /\ Plus(b, q) = b + Num(q) /\ Num(q) \in Int
    BY <2>1, AddingFractions
  <2> QED
    BY <2>2
<1>15. PICK b1 \in Int : b1 = b + Num(q) /\ b1 = Plus(b, q) /\ b1 = b + gd[i]
  BY <1>12, <1>14
<1>16. i - r >= 1 => Minus(b1, q0) = b1 - gd[i - r]
  <2>1. i - r >= 1 => q0 \in Int \cup {Null}
    BY <1>13
  <2>2. q0 \in Int \cup {Null} => Minus(b1, q0) = b1 - Num(q0)
    BY AddingFractions
  <2> QED
    BY <2>1, <2>2, <1>13
<1>17. Fractions(s, r, i)[2] = (b + gd[i]) - back(gd)
  <2>1. Fractions(s, r, i)[2] = Sm(gd, i)
    BY DEF Fractions, gd
  <2> QED
    BY <1>2, <1>4, <1>5, <2>1
<1>18. Fractions(s, r, i) = << IF Spoilt(s, i) THEN NaN ELSE Sm(gn, i), Fractions(s, r, i)[2] >>
  BY DEF Fractions, gn
<1>19. CASE Spoilt(s, i)
  <2>1. Plus(a, p) = NaN
    <3>1. a = NaN \/ p = NaN
      BY <1>5, <1>10, <1>19
    <3> QED
      BY <3>1, AddingNaN
  <2>2. i - r >= 1 => Minus(NaN, p0) = NaN
    BY AddingNaN
  <2>3. CASE i - r >= 1
    <3>1. Fractions(s, r, i)[2] = b1 - gd[i - r]
      BY <1>15, <1>17, <2>3
    <3> HIDE DEF Sm
    <3> QED
      BY <1>6, <1>9, <1>15, <1>16, <3>1, <1>18, <1>19, <2>1, <2>2, <2>3
  <2>4. CASE ~ (i - r >= 1)
    <3>1. Fractions(s, r, i)[2] = b1
      BY <1>15, <1>17, <2>4
    <3> HIDE DEF Sm
    <3> QED
      BY <1>6, <1>9, <1>15, <3>1, <1>18, <1>19, <2>1, <2>4
  <2> QED
    BY <2>3, <2>4
<1>20. CASE ~ Spoilt(s, i)
  <2>1. a = Sm(gn, i - 1) /\ a \in Int /\ p # NaN /\ (i - r >= 1 => p0 # NaN)
    BY <1>2, <1>4, <1>5, <1>10, <1>11, <1>20
  <2>2. Plus(a, p) = a + gn[i] /\ gn[i] \in Int
    <3>1. p \in Int \cup {Null}
      BY <2>1, <1>12
    <3>2. Plus(a, p) = a + Num(p) /\ Num(p) \in Int
      BY <2>1, <3>1, AddingFractions
    <3> QED
      BY <2>1, <3>2, <1>12
  <2>3. PICK a1 \in Int : a1 = Plus(a, p) /\ a1 = a + gn[i]
    BY <2>1, <2>2
  <2>4. i - r >= 1 => Minus(a1, p0) = a1 - gn[i - r]
    <3>1. i - r >= 1 => p0 \in Int \cup {Null}
      BY <2>1, <1>13
    <3>2. p0 \in Int \cup {Null} => Minus(a1, p0) = a1 - Num(p0)
      BY AddingFractions
    <3> QED
      BY <2>1, <3>1, <3>2, <1>13
  <2>5. Sm(gn, i) = a1 - back(gn)
    BY <1>2, <1>4, <2>1, <2>3
  <2>6. CASE i - r >= 1
    <3>1. Fractions(s, r, i)[2] = b1 - gd[i - r] /\ Sm(gn, i) = a1 - gn[i - r]
      BY <1>15, <1>17, <2>5, <2>6
    <3> HIDE DEF Sm
    <3> QED
      BY <1>6, <1>9, <1>15, <1>16, <3>1, <1>18, <1>20, <2>3, <2>4, <2>6
  <2>7. CASE ~ (i - r >= 1)
    <3>1. Fractions(s, r, i)[2] = b1 /\ Sm(gn, i) = a1
      BY <1>15, <1>17, <2>5, <2>7
    <3> HIDE DEF Sm
    <3> QED
      BY <1>6, <1>9, <1>15, <3>1, <1>18, <1>20, <2>3, <2>7
  <2> QED
    BY <2>6, <2>7
<1> QED
  BY <1>19, <1>20

(* So are they at every row. *)
LEMMA FractionSumsAre ==
    ASSUME NEW s, Len(s) \in Nat, HasFractions(s), NEW r \in Nat \ {0}
    PROVE  \A i \in 0 .. Len(s) : FractionSums(s, r)[i] = Fractions(s, r, i)
<1> DEFINE W == [i \in 0 .. Len(s) |-> Fractions(s, r, i)]
           h == FractionSums(s, r)
<1>0. Fractions(s, r, 0) = <<0, 0>>
  <2>1. WindowOf(0, r) = {} /\ ~ Spoilt(s, 0)
    BY DEF WindowOf, Spoilt
  <2> QED
    BY <2>1, SumOfNone DEF Fractions
<1>1. IsFractionSum(W, s, r)
  <2>1. \A i \in 0 .. Len(s) : W[i] = IF i = 0 THEN <<0, 0>> ELSE FractionStep(W[i - 1], s, r, i)
    <3> SUFFICES ASSUME NEW i \in 0 .. Len(s) PROVE W[i] = IF i = 0 THEN <<0, 0>> ELSE FractionStep(W[i - 1], s, r, i)
      OBVIOUS
    <3>1. CASE i = 0
      BY <3>1, <1>0
    <3>2. CASE i # 0
      <4>1. i \in 1 .. Len(s) /\ i - 1 \in 0 .. Len(s)
        BY <3>2
      <4>2. W[i] = Fractions(s, r, i) /\ W[i - 1] = Fractions(s, r, i - 1)
        BY <4>1
      <4> HIDE DEF W
      <4> QED
        BY <3>2, <4>1, <4>2, FractionStepMoves
    <3> QED
      BY <3>1, <3>2
  <2> QED
    BY <2>1 DEF IsFractionSum
<1>2. h = CHOOSE k : IsFractionSum(k, s, r)
  BY DEF FractionSums, IsFractionSum, FractionStep
<1>3. IsFractionSum(h, s, r)
  <2> HIDE DEF h, W
  <2> QED
    BY <1>1, <1>2
<1> DEFINE Bad == {i \in 0 .. Len(s) : h[i] # Fractions(s, r, i)}
<1> SUFFICES ASSUME Bad # {} PROVE FALSE
  OBVIOUS
<1>4. PICK i \in Bad : \A k \in Bad : i <= k
  <2>1. Bad \in SUBSET Nat
    OBVIOUS
  <2> HIDE DEF Bad
  <2> QED
    BY <2>1, LeastNumber
<1>5. i \in 0 .. Len(s) /\ h[i] # Fractions(s, r, i)
  OBVIOUS
<1>6. h[i] = IF i = 0 THEN <<0, 0>> ELSE FractionStep(h[i - 1], s, r, i)
  <2> HIDE DEF h
  <2> QED
    BY <1>3, <1>5 DEF IsFractionSum
<1>7. i # 0
  BY <1>5, <1>6, <1>0
<1>8. i \in 1 .. Len(s) /\ i - 1 \in 0 .. Len(s) /\ i - 1 \notin Bad
  BY <1>4, <1>5, <1>7
<1>9. h[i - 1] = Fractions(s, r, i - 1)
  BY <1>8
<1> HIDE DEF h, Bad
<1> QED
  BY <1>5, <1>6, <1>7, <1>8, <1>9, FractionStepMoves

-----------------------------------------------------------------------------
(* Whole numbers: quotients, extremes, roots.                              *)

LEMMA Times == ASSUME NEW a \in Nat, NEW b \in Nat PROVE a * b \in Nat
OBVIOUS

LEMMA TimesPositive == ASSUME NEW a \in Nat \ {0}, NEW b \in Nat \ {0} PROVE a * b \in Nat \ {0}
OBVIOUS

(* A quotient is rounded down. *)
LEMMA Quotient ==
    ASSUME NEW a \in Int, NEW b \in Nat \ {0}
    PROVE  /\ a \div b \in Int
           /\ (a \div b) * b <= a /\ a < (a \div b + 1) * b
           /\ a \in Nat => a \div b \in Nat
OBVIOUS

LEMMA SquareIsNat == ASSUME NEW v \in Int \cup {Null} PROVE Square(v) \in Nat
<1>1. PICK n \in Int : n = Num(v)
  BY DEF Num
<1>2. n * n \in Nat
  OBVIOUS
<1> QED
  BY <1>1, <1>2 DEF Square

(* A finite set of numbers has a least and a largest one. *)
LEMMA Extremes ==
    ASSUME NEW S, S \subseteq Int, IsFiniteSet(S), S # {}
    PROVE  /\ Min(S) \in S /\ \A k \in S : Min(S) <= k
           /\ Max(S) \in S /\ \A k \in S : k <= Max(S)
<1> DEFINE Bad == {T \in SUBSET S : T # {} /\ ~ ((\E a \in T : \A k \in T : a <= k) /\ (\E b \in T : \A k \in T : k <= b))}
<1>1. Bad = {}
  <2> SUFFICES ASSUME Bad # {} PROVE FALSE
    OBVIOUS
  <2>1. PICK T \in Bad : \A u \in SUBSET T : u # T => u \notin Bad
    <3>1. Bad \subseteq SUBSET S
      OBVIOUS
    <3> HIDE DEF Bad
    <3> QED
      BY <3>1, SmallestSet
  <2>2. T \in SUBSET S /\ T # {} /\ ~ ((\E a \in T : \A k \in T : a <= k) /\ (\E b \in T : \A k \in T : k <= b))
    OBVIOUS
  <2>3. PICK x \in T : x \in Int
    BY <2>2
  <2>4. PICK U \in SUBSET T : U = T \ {x}
    OBVIOUS
  <2>5. U # {}
    <3> SUFFICES ASSUME U = {} PROVE FALSE
      OBVIOUS
    <3>1. T = {x}
      BY <2>4
    <3> QED
      BY <2>2, <2>3, <3>1
  <2>6. U \notin Bad /\ U \in SUBSET S
    BY <2>1, <2>2, <2>4
  <2>7. (\E a \in U : \A k \in U : a <= k) /\ (\E b \in U : \A k \in U : k <= b)
    BY <2>5, <2>6
  <2>8. PICK a \in U, b \in U : \A k \in U : a <= k /\ k <= b
    BY <2>7
  <2>9. a \in Int /\ b \in Int /\ a \in T /\ b \in T /\ \A k \in T : k = x \/ k \in U
    BY <2>2, <2>4
  <2>10. \E l \in T : \A k \in T : l <= k
    <3>1. CASE a <= x
      BY <2>8, <2>9, <3>1
    <3>2. CASE x < a
      <4>1. \A k \in U : k \in Int
        BY <2>2
      <4>2. \A k \in T : x <= k
        BY <2>3, <2>8, <2>9, <3>2, <4>1
      <4> QED
        BY <4>2
    <3> QED
      BY <2>3, <2>9, <3>1, <3>2
  <2>11. \E l \in T : \A k \in T : k <= l
    <3>1. CASE x <= b
      BY <2>8, <2>9, <3>1
    <3>2. CASE b < x
      <4>1. \A k \in U : k \in Int
        BY <2>2
      <4>2. \A k \in T : k <= x
        BY <2>3, <2>8, <2>9, <3>2, <4>1
      <4> QED
        BY <4>2
    <3> QED
      BY <2>3, <2>9, <3>1, <3>2
  <2> QED
    BY <2>2, <2>10, <2>11
<1>2. (\E a \in S : \A k \in S : a <= k) /\ (\E b \in S : \A k \in S : k <= b)
  BY <1>1
<1>3. \A k \in S : k \in Int
  OBVIOUS
<1>4. Min(S) \in S /\ \A k \in S : Min(S) <= k
  BY <1>2, <1>3 DEF Min
<1>5. Max(S) \in S /\ \A k \in S : Max(S) >= k
  BY <1>2, <1>3 DEF Max
<1> QED
  BY <1>3, <1>4, <1>5

(* What a function is on a finite set is a finite set. *)
LEMMA FiniteRange ==
    ASSUME NEW S, IsFiniteSet(S), NEW f
    PROVE  IsFiniteSet({f[x] : x \in S})
<1> DEFINE T == {f[x] : x \in S}
           g == [x \in S |-> f[x]]
<1>1. g \in Surjection(S, T)
  BY DEF Surjection
<1> HIDE DEF g, T
<1>2. IsFiniteSet(T)
  BY <1>1, FS_Surjection
<1> QED
  BY <1>2 DEF T

(* Roots are natural numbers. *)
LEMMA RootIsInt == ASSUME NEW v \in Nat PROVE Root(v) \in Nat
<1> DEFINE grid == Unit \div 12
           steps == [k \in 0 .. 24 |-> k * grid]
           S == {w \in {k * grid : k \in 0 .. 24} : w * w <= v}
<1>1. grid \in Nat
  BY ChartAssumption, Quotient
<1> HIDE DEF grid
<1>2. \A k \in 0 .. 24 : k * grid \in Nat
  BY <1>1, Times
<1>3. S \subseteq Nat
  BY <1>2
<1>4. 0 \in S
  <2>1. 0 * grid = 0 /\ 0 * 0 <= v /\ 0 \in 0 .. 24
    BY <1>1
  <2> QED
    BY <2>1
<1>5. IsFiniteSet(S)
  <2>1. IsFiniteSet(0 .. 24)
    <3>1. PICK a \in Int, b \in Int : a = 0 /\ b = 24
      OBVIOUS
    <3>2. IsFiniteSet(a .. b)
      BY FS_Interval
    <3> QED
      BY <3>1, <3>2
  <2>2. IsFiniteSet({steps[k] : k \in 0 .. 24})
    <3> HIDE DEF steps
    <3> QED
      BY <2>1, FiniteRange
  <2>3. S \subseteq {steps[k] : k \in 0 .. 24}
    OBVIOUS
  <2> QED
    BY <2>2, <2>3, FS_Subset
<1>6. Max(S) \in S
  <2>1. S \subseteq Int /\ S # {}
    BY <1>3, <1>4
  <2> HIDE DEF S
  <2> QED
    BY <2>1, <1>5, Extremes
<1> QED
  BY <1>3, <1>6 DEF Root, grid

-----------------------------------------------------------------------------
(* What the data handlers make of a cell that was read.                    *)

Value == Int \cup {Null, NaN}
Ratios == {"fractions", "fractionBars"}
ReadCell(mode, cell) == \E texts : IsCell(mode, texts) /\ cell = [k \in DOMAIN texts |-> ParseFloat(texts[k])]

(* What a cell is once it is read. *)
CellFacts(mode, cell) ==
    /\ mode.kind \in Ratios =>
          /\ cell[1] \in Value /\ cell[2] \in Nat \cup {Null}
          /\ mode.kind = "fractionBars" => cell[1] = Null \/ (cell[1] \in Int /\ cell[2] \in Nat /\ cell[1] \in 0 .. cell[2])
    /\ mode.kind = "customBars" =>
          cell[2] \in {Null, NaN} \/ (cell[1] \in Int /\ cell[2] \in Int /\ cell[3] \in Int)
    /\ mode.kind = "errorBars" => cell[1] \in Value /\ cell[2] \in Int \cup {Null}
    /\ mode.kind \notin Ratios \cup {"customBars", "errorBars"} => cell[1] \in Value

(* A cell that was read is what its handler wants. *)
LEMMA CellIsRead ==
    ASSUME NEW mode, NEW cell, ReadCell(mode, cell)
    PROVE  CellFacts(mode, cell)
<1>1. PICK texts : IsCell(mode, texts) /\ cell = [k \in DOMAIN texts |-> ParseFloat(texts[k])]
  BY DEF ReadCell
<1>2. ASSUME NEW k \in DOMAIN texts
      PROVE  /\ cell[k] = ParseFloat(texts[k])
             /\ Numeric(texts[k]) => cell[k] = texts[k].n /\ cell[k] \in Int
             /\ ~ Numeric(texts[k]) => cell[k] \in {Null, NaN}
             /\ ~ Numeric(texts[k]) /\ texts[k].kind # "nan" => cell[k] = Null
  <2>1. ReadableText(texts[k])
    BY <1>1, <1>2 DEF IsCell
  <2>2. cell[k] = ParseFloat(texts[k])
    BY <1>1, <1>2
  <2> QED
    BY <2>1, <2>2 DEF ReadableText, Numeric, ParseFloat
<1>3. ASSUME mode.kind \in Ratios
      PROVE  /\ cell[1] \in Value /\ cell[2] \in Nat \cup {Null}
             /\ mode.kind = "fractionBars" => cell[1] = Null \/ (cell[1] \in Int /\ cell[2] \in Nat /\ cell[1] \in 0 .. cell[2])
  <2>1. /\ 1 \in DOMAIN texts /\ 2 \in DOMAIN texts
        /\ texts[2].kind # "nan" /\ (Numeric(texts[2]) => texts[2].n >= 0)
        /\ mode.kind = "fractionBars" =>
              /\ texts[1].kind # "nan"
              /\ Numeric(texts[1]) => Numeric(texts[2]) /\ texts[1].n \in 0..texts[2].n
    <3>1. DOMAIN texts = 1 .. 2
      BY <1>1, <1>3 DEF IsCell, Ratios
    <3> QED
      BY <1>1, <1>3, <3>1 DEF IsCell, Ratios
  <2>2. cell[1] \in Value /\ cell[2] \in Nat \cup {Null}
    BY <2>1, <1>2 DEF Value
  <2>3. mode.kind = "fractionBars" => cell[1] = Null \/ (cell[1] \in Int /\ cell[2] \in Nat /\ cell[1] \in 0 .. cell[2])
    BY <2>1, <1>2
  <2> QED
    BY <2>2, <2>3
<1>4. ASSUME mode.kind = "customBars"
      PROVE  cell[2] \in {Null, NaN} \/ (cell[1] \in Int /\ cell[2] \in Int /\ cell[3] \in Int)
  <2>1. DOMAIN texts = 1 .. 3 /\ (Numeric(texts[2]) => Numeric(texts[1]) /\ Numeric(texts[3]))
    BY <1>1, <1>4 DEF IsCell
  <2>2. 1 \in DOMAIN texts /\ 2 \in DOMAIN texts /\ 3 \in DOMAIN texts
    BY <2>1
  <2> QED
    BY <2>1, <2>2, <1>2
<1>5. ASSUME mode.kind = "errorBars"
      PROVE  cell[1] \in Value /\ cell[2] \in Int \cup {Null}
  <2>1. DOMAIN texts = 1 .. 2 /\ texts[2].kind # "nan"
    BY <1>1, <1>5 DEF IsCell
  <2>2. 1 \in DOMAIN texts /\ 2 \in DOMAIN texts
    BY <2>1
  <2> QED
    BY <2>1, <2>2, <1>2 DEF Value
<1>6. ASSUME mode.kind \notin Ratios \cup {"customBars", "errorBars"}
      PROVE  cell[1] \in Value
  <2>1. DOMAIN texts = 1 .. 1
    BY <1>1, <1>6 DEF IsCell, Ratios
  <2>2. 1 \in DOMAIN texts
    BY <2>1
  <2> QED
    BY <2>1, <2>2, <1>2 DEF Value
<1> QED
  BY <1>3, <1>4, <1>5, <1>6 DEF CellFacts

(* What a point of a series is. *)
PointFacts(mode, p) ==
    /\ p.y \in Value
    /\ mode.kind = "errorBars" => Missing(p.y) \/ (p.ext[1] \in Int /\ p.ext[2] \in Int /\ p.ext[3] \in Int \cup {Null})
    /\ mode.kind = "customBars" => Missing(p.y) \/ (p.ext[1] \in Int /\ p.ext[2] \in Int)
    /\ mode.kind = "fractions" => Len(p.ext) = 2 /\ p.ext[1] \in Value /\ p.ext[2] \in Nat \cup {Null}
    /\ mode.kind = "fractionBars" =>
          /\ Len(p.ext) = 4 /\ p.ext[3] \in Int \cup {Null} /\ p.ext[4] \in Nat \cup {Null}
          /\ Num(p.ext[3]) \in 0 .. Num(p.ext[4])
          /\ Missing(p.y) \/ (p.ext[1] \in Int /\ p.ext[2] \in Int)

(* A value is missing or a number. *)
LEMMA ValueIs == /\ \A v \in Value : Missing(v) \/ (v \in Int /\ v # Null /\ v # NaN /\ ~ Missing(v) /\ Num(v) = v)
                 /\ Missing(Null) /\ Missing(NaN) /\ Null \in Value /\ NaN \in Value /\ Int \subseteq Value
                 /\ Num(Null) = 0 /\ \A v \in Int : ~ Missing(v) /\ Num(v) = v
BY ChartAssumption DEF Value, Missing, Num

(* A ratio is a number unless its numerator is none. *)
LEMMA RatioIs ==
    ASSUME NEW num \in Value, NEW den \in Nat \cup {Null}
    PROVE  /\ Ratio(num, den) \in Int \cup {NaN}
           /\ num # NaN => Ratio(num, den) \in Int
<1>1. CASE den \in {NaN, Null, 0}
  BY <1>1 DEF Ratio
<1>2. CASE den \notin {NaN, Null, 0} /\ num = NaN
  BY <1>2 DEF Ratio
<1>3. CASE den \notin {NaN, Null, 0} /\ num # NaN
  <2>1. den \in Nat \ {0} /\ Num(num) \in Int /\ Unit \in Int
    BY <1>3, ChartAssumption DEF Value, Num
  <2>2. PICK a \in Int : a = Unit * Num(num)
    BY <2>1
  <2>3. a \div den \in Int
    BY <2>1, <2>2, Quotient
  <2> QED
    BY <1>3, <2>2, <2>3 DEF Ratio
<1> QED
  BY <1>1, <1>2, <1>3

(* A binomial bar is a number. *)
LEMMA BarIs ==
    ASSUME NEW num \in Int \cup {Null}, NEW den \in Nat \cup {Null}, Num(num) \in 0 .. Num(den)
    PROVE  BinomialBar(num, den) \in Nat
<1>1. CASE den \in {NaN, Null, 0}
  BY <1>1, ChartAssumption DEF BinomialBar
<1>2. CASE den \notin {NaN, Null, 0}
  <2>1. den \in Nat \ {0} /\ Num(den) = den
    BY <1>2 DEF Num
  <2>2. PICK n \in Nat : n = Num(num)
    BY <2>1
  <2>3. PICK m \in Nat : m = den - Num(num)
    BY <2>1, <2>2
  <2>4. (Unit * Unit * n) * m \in Nat
    BY ChartAssumption, Times
  <2>5. den * den * den \in Nat \ {0}
    BY <2>1, TimesPositive
  <2>6. PICK v \in Nat : v = (Unit * Unit * Num(num) * (den - Num(num))) \div (den * den * den)
    BY <2>2, <2>3, <2>4, <2>5, Quotient
  <2>7. BinomialBar(num, den) = Sigma * Root(v)
    BY <1>2, <2>6 DEF BinomialBar
  <2> QED
    BY <2>7, RootIsInt, Times, ChartAssumption
<1> QED
  BY <1>1, <1>2

IsData(mode, rows) == \A i \in 1 .. Len(rows) : \A c \in Columns : ReadCell(mode, rows[i].cells[c])
IsSeries(mode, s) == IsTable(s) /\ \A i \in 1 .. Len(s) : PointFacts(mode, s[i])

(* extractSeries: what the handlers make of a cell. *)
LEMMA PointIs ==
    ASSUME NEW x, NEW y, NEW ext
    PROVE  Point(x, y, ext).y = y /\ Point(x, y, ext).ext = ext
BY DEF Point

(* So is every point of a series. *)
LEMMA SeriesAreTyped ==
    ASSUME NEW mode, NEW rows, IsTable(rows), IsData(mode, rows), NEW c \in Columns
    PROVE  IsSeries(mode, extractSeries(mode, rows, c))
<1> DEFINE s == extractSeries(mode, rows, c)
<1>1. IsTable(s) /\ Len(s) = Len(rows) /\ DOMAIN rows = 1 .. Len(rows)
  BY SeriesKeepTheTimes, SameTable DEF IsTable
<1>2. ASSUME NEW i \in 1 .. Len(rows) PROVE PointFacts(mode, s[i])
  <2>1. PICK x, cell, log : x = rows[i].x /\ cell = rows[i].cells[c] /\ log = mode.log
    OBVIOUS
  <2>2. CellFacts(mode, cell)
    BY <2>1, <1>2, CellIsRead DEF IsData
  <2>3. s[i] = CASE mode.kind = "fractionBars" -> FractionBarsPoint(x, cell, log)
                 [] mode.kind = "fractions"  -> FractionPoint(x, cell, log)
                 [] mode.kind = "customBars" -> CustomPoint(x, cell, log)
                 [] mode.kind = "errorBars"  -> ErrorPoint(x, cell, log)
                 [] OTHER                    -> DefaultPoint(x, cell, log)
    BY <2>1, <1>1, <1>2 DEF extractSeries
  <2> HIDE DEF s
  <2>4. CASE mode.kind = "fractionBars"
    <3>1. s[i] = FractionBarsPoint(x, cell, log)
      BY <2>3, <2>4
    <3>2. PICK num, den : num = cell[1] /\ den = cell[2]
      OBVIOUS
    <3>3. num \in Int \cup {Null} /\ den \in Nat \cup {Null} /\ Num(num) \in 0 .. Num(den) /\ num # NaN
      <4>1. den \in Nat \cup {Null} /\ (num = Null \/ (num \in Int /\ den \in Nat /\ num \in 0 .. den))
        BY <2>2, <2>4, <3>2 DEF CellFacts, Ratios
      <4>2. Num(Null) = 0 /\ Null # NaN /\ \A v \in Int : Num(v) = v
        BY ValueIs, ChartAssumption
      <4>3. CASE num = Null
        BY <4>1, <4>2, <4>3
      <4>4. CASE num \in Int /\ den \in Nat /\ num \in 0 .. den
        BY <4>1, <4>2, <4>4, ChartAssumption
      <4> QED
        BY <4>1, <4>3, <4>4
    <3>4. PICK y \in Int : y = Ratio(num, den)
      BY <3>3, RatioIs DEF Value
    <3>5. PICK bar \in Nat : bar = BinomialBar(num, den)
      BY <3>3, BarIs
    <3>6. \/ s[i] = Point(x, Null, <<Null, Null, Null, Null>>)
          \/ num = Null /\ s[i] = Point(x, num, <<num, num, num, den>>)
          \/ s[i] = Point(x, y, <<y - bar, y + bar, num, den>>)
      <4>1. Missing(num) <=> num = Null
        BY <3>3, ValueIs DEF Missing
      <4> QED
        BY <3>1, <3>2, <3>4, <3>5, <4>1 DEF FractionBarsPoint
    <3>7. CASE s[i] = Point(x, Null, <<Null, Null, Null, Null>>)
      BY <2>4, <3>7, PointIs, ValueIs DEF PointFacts
    <3>8. CASE num = Null /\ s[i] = Point(x, num, <<num, num, num, den>>)
      BY <2>4, <3>3, <3>8, PointIs, ValueIs DEF PointFacts
    <3>9. CASE s[i] = Point(x, y, <<y - bar, y + bar, num, den>>)
      BY <2>4, <3>3, <3>9, PointIs, ValueIs DEF PointFacts
    <3> QED
      BY <3>6, <3>7, <3>8, <3>9
  <2>5. CASE mode.kind = "fractions"
    <3>1. s[i] = FractionPoint(x, cell, log)
      BY <2>3, <2>5
    <3>2. PICK num, den : num = cell[1] /\ den = cell[2]
      OBVIOUS
    <3>3. num \in Value /\ den \in Nat \cup {Null}
      BY <2>2, <2>5, <3>2 DEF CellFacts, Ratios
    <3>4. PICK y : y = Ratio(num, den) /\ y \in Int \cup {NaN}
      BY <3>3, RatioIs
    <3>5. \/ s[i] = Point(x, Null, <<Null, Null>>)
          \/ s[i] = Point(x, num, <<num, den>>)
          \/ s[i] = Point(x, y, <<num, den>>)
      BY <3>1, <3>2, <3>4 DEF FractionPoint
    <3> QED
      BY <2>5, <3>3, <3>4, <3>5, PointIs DEF PointFacts, Value
  <2>6. CASE mode.kind = "customBars"
    <3>1. s[i] = CustomPoint(x, cell, log)
      BY <2>3, <2>6
    <3>2. \/ s[i] = Point(x, Null, <<Null, Null>>)
          \/ Missing(cell[2]) /\ s[i] = Point(x, cell[2], <<cell[2], cell[2]>>)
          \/ ~ Missing(cell[2]) /\ s[i] = Point(x, cell[2], <<cell[1], cell[3]>>)
      BY <3>1 DEF CustomPoint
    <3>3. cell[2] \in {Null, NaN} \/ (cell[1] \in Int /\ cell[2] \in Int /\ cell[3] \in Int)
      BY <2>2, <2>6 DEF CellFacts
    <3> QED
      BY <2>6, <3>2, <3>3, PointIs, ValueIs DEF PointFacts, Missing, Value
  <2>7. CASE mode.kind = "errorBars"
    <3>1. s[i] = ErrorPoint(x, cell, log)
      BY <2>3, <2>7
    <3>2. PICK y, err : y = cell[1] /\ err = cell[2]
      OBVIOUS
    <3>3. y \in Value /\ err \in Int \cup {Null}
      BY <2>2, <2>7, <3>2 DEF CellFacts
    <3>4. PICK e \in Int : e = Sigma * Num(err)
      <4>1. Num(err) \in Int /\ Sigma \in Int
        BY <3>3, ChartAssumption DEF Num
      <4> QED
        BY <4>1
    <3>5. \/ s[i] = Point(x, Null, <<Null, Null, Null>>)
          \/ Missing(y) /\ s[i] = Point(x, y, <<y, y, y>>)
          \/ ~ Missing(y) /\ s[i] = Point(x, y, <<y - e, y + e, err>>)
      BY <3>1, <3>2, <3>4 DEF ErrorPoint
    <3>6. CASE ~ Missing(y) /\ s[i] = Point(x, y, <<y - e, y + e, err>>)
      <4>1. y \in Int
        BY <3>3, <3>6, ValueIs
      <4> QED
        BY <2>7, <3>3, <3>6, <4>1, PointIs DEF PointFacts
    <3>7. CASE ~ (~ Missing(y) /\ s[i] = Point(x, y, <<y - e, y + e, err>>))
      BY <2>7, <3>3, <3>5, <3>7, PointIs, ValueIs DEF PointFacts
    <3> QED
      BY <3>6, <3>7
  <2>8. CASE mode.kind \notin Ratios \cup {"customBars", "errorBars"}
    <3>1. s[i] = DefaultPoint(x, cell, log)
      BY <2>3, <2>8 DEF Ratios
    <3>2. \/ s[i] = Point(x, Null, <<>>)
          \/ s[i] = Point(x, cell[1], <<>>)
      BY <3>1 DEF DefaultPoint
    <3>3. cell[1] \in Value
      BY <2>2, <2>8 DEF CellFacts
    <3> QED
      BY <2>8, <3>2, <3>3, PointIs, ValueIs DEF PointFacts, Ratios
  <2> QED
    BY <2>4, <2>5, <2>6, <2>7, <2>8 DEF Ratios
<1> QED
  BY <1>1, <1>2 DEF IsSeries

-----------------------------------------------------------------------------
(* The means of rollingAverage.                                            *)

LEMMA SumFunctionIs == ASSUME NEW S, NEW g, DOMAIN g = S PROVE SumFunction(g) = SumFunctionOnSet(g, S)
BY DEF SumFunction

(* A sum with zeros for what is missing is the sum of what is known. *)
LEMMA SumOfKnown ==
    ASSUME NEW s, Len(s) \in Nat, NEW W \in SUBSET (1 .. Len(s)), IsFiniteSet(W),
           NEW v, \A j \in W : Missing(s[j].y) \/ v[j] \in Int
    PROVE  /\ SumFunctionOnSet(Of(s, v), W) = SumFunction([j \in Known(s, W) |-> v[j]])
           /\ SumFunction([j \in Known(s, W) |-> v[j]]) \in Int
           /\ IsFiniteSet(Known(s, W)) /\ Cardinality(Known(s, W)) \in Nat
           /\ Cardinality(Known(s, W)) = 0 <=> Known(s, W) = {}
<1> DEFINE ok == Known(s, W)
           g == Of(s, v)
           h == [j \in ok |-> v[j]]
<1>1. ok \in SUBSET W /\ \A j \in W : j \in ok <=> ~ Missing(s[j].y)
  BY DEF Known
<1>2. \A j \in W : g[j] = IF Missing(s[j].y) THEN 0 ELSE v[j]
  BY DEF Of
<1> HIDE DEF ok, g
<1>3. /\ \A j \in W : g[j] \in Int
      /\ \A j \in W \ ok : g[j] = 0
      /\ \A j \in ok : g[j] = h[j] /\ h[j] \in Int
  BY <1>1, <1>2
<1>4. IsFiniteSet(ok)
  BY <1>1, FS_Subset
<1>5. SumFunctionOnSet(g, W) = SumFunctionOnSet(g, ok)
  BY <1>1, <1>3, SumSkips
<1>6. SumFunctionOnSet(g, ok) = SumFunctionOnSet(h, ok) /\ SumFunctionOnSet(h, ok) \in Int
  <2>1. \A j \in ok : g[j] \in Int /\ g[j] = h[j] /\ h[j] \in Int
    BY <1>3
  <2> HIDE DEF h
  <2> QED
    BY <1>4, <2>1, SumOfTheSame, SumIsInt
<1>7. SumFunction(h) = SumFunctionOnSet(h, ok)
  BY SumFunctionIs
<1>8. Cardinality(ok) \in Nat /\ (Cardinality(ok) = 0 <=> ok = {})
  BY <1>4, FS_CardinalityType, FS_EmptySet
<1> HIDE DEF h
<1> QED
  BY <1>4, <1>5, <1>6, <1>7, <1>8 DEF ok, g, h

(* A quotient is the mean of the property. *)
LEMMA MeanIsMean ==
    ASSUME NEW sum \in Int, NEW n \in Nat \ {0}
    PROVE  Mean(sum, n) \in Int /\ IsMean(Mean(sum, n), sum, n)
BY Quotient DEF Mean, IsMean

(* The window of a row when the period is cut to the length of the series. *)
LEMMA CutPeriod ==
    ASSUME NEW s, Len(s) \in Nat, NEW i \in 1 .. Len(s), NEW period \in Int, period > 1,
           NEW r, r = IF period < Len(s) THEN period ELSE Len(s)
    PROVE  /\ r \in Nat \ {0}
           /\ WindowOf(i, r) = LastRows(i, period)
           /\ WindowOf(i, r) \in SUBSET (1 .. Len(s)) /\ IsFiniteSet(WindowOf(i, r))
           /\ r = 1 => Len(s) = 1 /\ i = 1
<1>0. PICK n \in Nat : n = Len(s)
  OBVIOUS
<1>1. r \in Nat \ {0} /\ i \in Nat
  BY <1>0
<1>2. WindowOf(i, r) = LastRows(i, r) /\ WindowOf(i, r) \in SUBSET (1 .. i) /\ IsFiniteSet(WindowOf(i, r))
  BY <1>1, WindowIs
<1>3. LastRows(i, r) = LastRows(i, period)
  BY DEF LastRows
<1>4. r = 1 => n = 1 /\ i = 1
  BY <1>0
<1>5. \A j \in 1 .. i : j \in 1 .. n
  BY <1>0
<1> QED
  BY <1>0, <1>1, <1>2, <1>3, <1>4, <1>5

(* A window that is longer than the series holds the same rows. *)
LEMMA CutSeries ==
    ASSUME NEW mode, NEW s, NEW period
    PROVE  \E r : /\ r = (IF period < Len(s) THEN period ELSE Len(s))
                  /\ rollingAverage(mode, s, period) =
                        CASE mode.kind = "fractionBars" -> FractionBarsRolling(s, r, mode.wilson)
                          [] mode.kind = "fractions"  -> FractionRolling(s, r)
                          [] mode.kind = "customBars" -> CustomRolling(s, r)
                          [] mode.kind = "errorBars"  -> ErrorRolling(s, r)
                          [] OTHER                    -> DefaultRolling(s, r)
BY DEF rollingAverage

(* What a mean over the known rows of a window is. *)
MeanOf(p, s, ok) ==
    IF ok = {} THEN Missing(p.y)
    ELSE p.y \in Int /\ IsMean(p.y, SumFunction([j \in ok |-> s[j].y]), Cardinality(ok))

(* The plain handler takes the mean of the known values. *)
LEMMA DefaultMean ==
    ASSUME NEW mode, NEW s, IsSeries(mode, s), NEW i \in 1 .. Len(s), NEW period \in Int, period > 1,
           NEW r, r = IF period < Len(s) THEN period ELSE Len(s)
    PROVE  MeanOf(DefaultRolling(s, r)[i], s, Known(s, LastRows(i, period)))
<1> DEFINE W == WindowOf(i, r)
           ok == Known(s, W)
           v == [j \in 1 .. Len(s) |-> s[j].y]
<1>1. Len(s) \in Nat /\ DOMAIN s = 1 .. Len(s) /\ \A j \in 1 .. Len(s) : s[j].y \in Value
  BY DEF IsSeries, IsTable, PointFacts
<1>2. r \in Nat \ {0} /\ W = LastRows(i, period) /\ W \in SUBSET (1 .. Len(s)) /\ IsFiniteSet(W) /\ (r = 1 => Len(s) = 1 /\ i = 1)
  BY <1>1, CutPeriod
<1> HIDE DEF W
<1>3. \A j \in W : Missing(s[j].y) \/ v[j] \in Int
  BY <1>1, <1>2, ValueIs
<1>4. [j \in ok |-> v[j]] = [j \in ok |-> s[j].y]
  BY <1>2 DEF Known
<1>5. SumFunction([j \in ok |-> s[j].y]) \in Int /\ Cardinality(ok) \in Nat /\ (Cardinality(ok) = 0 <=> ok = {})
  <2>1. SumFunction([j \in Known(s, W) |-> v[j]]) \in Int /\ Cardinality(ok) \in Nat /\ (Cardinality(ok) = 0 <=> ok = {})
    <3> HIDE DEF v
    <3> QED
      BY <1>1, <1>2, <1>3, SumOfKnown
  <2> QED
    BY <2>1, <1>4
<1>6. CASE r = 1
  <2>1. DefaultRolling(s, r)[i] = s[i] /\ i = 1 /\ W = {1} /\ 1 \in 1 .. Len(s)
    <3>1. i = 1 /\ Len(s) = 1 /\ 1 \in 1 .. 1
      BY <1>2, <1>6
    <3>2. W = {1}
      BY <1>6, <3>1 DEF W, WindowOf
    <3> QED
      BY <1>6, <3>1, <3>2 DEF DefaultRolling
  <2>2. CASE Missing(s[1].y)
    <3>1. ok = {}
      BY <2>1, <2>2 DEF Known
    <3> QED
      BY <2>1, <2>2, <3>1, <1>2 DEF MeanOf
  <2>3. CASE ~ Missing(s[1].y)
    <3>1. ok = {1}
      BY <2>1, <2>3 DEF Known
    <3>2. s[1].y \in Int
      BY <1>1, <2>1, <2>3, ValueIs
    <3>3. Cardinality(ok) = 1
      BY <3>1, FS_Singleton
    <3>4. SumFunction([j \in ok |-> s[j].y]) = s[1].y
      <4> DEFINE h == [j \in ok |-> s[j].y]
      <4>1. h[1] = s[1].y /\ \A y \in {} \cup {1} : h[y] \in Int
        BY <3>1, <3>2
      <4>2. SumFunction(h) = SumFunctionOnSet(h, {} \cup {1})
        <5>1. {} \cup {1} = ok
          BY <3>1
        <5> QED
          BY <5>1, SumFunctionIs
      <4> HIDE DEF h
      <4>3. SumFunctionOnSet(h, {} \cup {1}) = h[1] + SumFunctionOnSet(h, {}) /\ SumFunctionOnSet(h, {}) = 0
        BY <4>1, SumWith, SumOfNone, FS_EmptySet
      <4> QED
        BY <4>1, <4>2, <4>3, <3>2 DEF h
    <3>5. IsMean(s[1].y, s[1].y, 1)
      BY <3>2 DEF IsMean
    <3> QED
      BY <2>1, <3>1, <3>2, <3>3, <3>4, <3>5, <1>2 DEF MeanOf
  <2> QED
    BY <2>2, <2>3
<1>7. CASE r # 1
  <2>1. DefaultRolling(s, r)[i] = Point(s[i].x, IF ok = {} THEN Null ELSE Mean(Total(s, ok), Cardinality(ok)), <<>>)
    BY <1>1, <1>7 DEF DefaultRolling, W
  <2>2. DefaultRolling(s, r)[i].y = IF ok = {} THEN Null ELSE Mean(Total(s, ok), Cardinality(ok))
    BY <2>1, PointIs
  <2>3. Total(s, ok) = SumFunction([j \in ok |-> s[j].y])
    BY DEF Total
  <2> HIDE DEF ok
  <2>4. CASE ok = {}
    BY <1>2, <2>2, <2>4, ValueIs DEF MeanOf, ok
  <2>5. CASE ok # {}
    BY <1>2, <1>5, <2>2, <2>3, <2>5, MeanIsMean DEF MeanOf, ok
  <2> QED
    BY <2>4, <2>5
<1> QED
  BY <1>6, <1>7

(* So does the handler of the error bars. *)
LEMMA ErrorMean ==
    ASSUME NEW mode, NEW s, IsSeries(mode, s), NEW i \in 1 .. Len(s), NEW period \in Int, period > 1,
           NEW r, r = IF period < Len(s) THEN period ELSE Len(s)
    PROVE  MeanOf(ErrorRolling(s, r)[i], s, Known(s, LastRows(i, period)))
<1> DEFINE W == WindowOf(i, r)
           ok == Known(s, W)
           v == [j \in 1 .. Len(s) |-> s[j].y]
           p == ErrorRolling(s, r)[i]
<1>1. Len(s) \in Nat /\ DOMAIN s = 1 .. Len(s) /\ \A j \in 1 .. Len(s) : s[j].y \in Value
  BY DEF IsSeries, IsTable, PointFacts
<1>2. r \in Nat \ {0} /\ W = LastRows(i, period) /\ W \in SUBSET (1 .. Len(s)) /\ IsFiniteSet(W) /\ (r = 1 => Len(s) = 1 /\ i = 1)
  BY <1>1, CutPeriod
<1>0. p = LET u == IF r = 1 THEN s[i].y ELSE Null
              m == Mean(Total(s, ok), Cardinality(ok))
              d == Sigma * Root(SquaredErrors(s, ok) \div Square(Cardinality(ok)))
          IN  IF ok = {} THEN Point(s[i].x, u, <<u, u>>) ELSE Point(s[i].x, m, <<m - d, m + d>>)
  BY <1>1 DEF ErrorRolling
<1> HIDE DEF W, p
<1>3. \A j \in W : Missing(s[j].y) \/ v[j] \in Int
  BY <1>1, <1>2, ValueIs
<1>4. [j \in ok |-> v[j]] = [j \in ok |-> s[j].y]
  BY <1>2 DEF Known
<1>5. SumFunction([j \in ok |-> s[j].y]) \in Int /\ Cardinality(ok) \in Nat /\ (Cardinality(ok) = 0 <=> ok = {})
  <2>1. SumFunction([j \in Known(s, W) |-> v[j]]) \in Int /\ Cardinality(ok) \in Nat /\ (Cardinality(ok) = 0 <=> ok = {})
    <3> HIDE DEF v
    <3> QED
      BY <1>1, <1>2, <1>3, SumOfKnown
  <2> QED
    BY <2>1, <1>4
<1>6. CASE ok = {}
  <2>1. p.y = IF r = 1 THEN s[i].y ELSE Null
    BY <1>0, <1>6, PointIs
  <2>2. r = 1 => Missing(s[i].y)
    <3> SUFFICES ASSUME r = 1 PROVE Missing(s[i].y)
      OBVIOUS
    <3>1. i \in LastRows(i, period)
      BY <1>1 DEF LastRows
    <3> QED
      BY <1>2, <1>6, <3>1 DEF Known
  <2> HIDE DEF ok
  <2> QED
    BY <1>2, <1>6, <2>1, <2>2, ValueIs DEF MeanOf, ok, p
<1>7. CASE ok # {}
  <2>1. p.y = Mean(Total(s, ok), Cardinality(ok))
    <3> HIDE DEF ok
    <3> QED
      BY <1>0, <1>7, PointIs
  <2>2. Total(s, ok) = SumFunction([j \in ok |-> s[j].y])
    BY DEF Total
  <2> HIDE DEF ok
  <2> QED
    BY <1>2, <1>5, <1>7, <2>1, <2>2, MeanIsMean DEF MeanOf, ok, p
<1> QED
  BY <1>6, <1>7

LEMMA Between ==
    ASSUME NEW n \in Nat, NEW i \in 1 .. n
    PROVE  i \in 0 .. n /\ i \in Nat \ {0} /\ i <= n /\ \A j \in 1 .. i : j \in 1 .. n
OBVIOUS

BarsOf(p, s, ok) ==
    ok # {} => \A e \in 1 .. 2 : p.ext[e] \in Int /\ IsMean(p.ext[e], SumFunction([j \in ok |-> s[j].ext[e]]), Cardinality(ok))

(* The custom bars: the running sums give the means of the values and of both ends. *)
LEMMA CustomMean ==
    ASSUME NEW mode, mode.kind = "customBars", NEW s, IsSeries(mode, s), NEW i \in 1 .. Len(s), NEW period \in Int, period > 1,
           NEW r, r = IF period < Len(s) THEN period ELSE Len(s)
    PROVE  LET ok == Known(s, LastRows(i, period)) IN
           MeanOf(CustomRolling(s, r)[i], s, ok) /\ BarsOf(CustomRolling(s, r)[i], s, ok)
<1> DEFINE W == WindowOf(i, r)
           ok == Known(s, W)
           D == 1 .. Len(s)
           y == [j \in D |-> s[j].y]
           ext(e) == [j \in D |-> s[j].ext[e]]
           one == [j \in D |-> 1]
           p == CustomRolling(s, r)[i]
           a == CustomSums(s, r)[i]
           n == Cardinality(ok)
<1> HIDE DEF W, ok, D, y, ext, one, p, a, n
<1>0. Len(s) \in Nat /\ DOMAIN s = 1 .. Len(s)
  BY DEF IsSeries, IsTable
<1>1. /\ DOMAIN s = D /\ i \in D
      /\ \A j \in D : Missing(s[j].y) \/ (s[j].y \in Int /\ s[j].ext[1] \in Int /\ s[j].ext[2] \in Int)
  BY <1>0, ValueIs DEF IsSeries, PointFacts, D
<1>2. HasBars(s)
  BY <1>1 DEF HasBars, D
<1>3. r \in Nat \ {0} /\ W = LastRows(i, period) /\ W \in SUBSET D /\ W \in SUBSET (1 .. Len(s)) /\ IsFiniteSet(W)
  BY <1>0, CutPeriod DEF W, D
<1>4. a = InWindow(s, r, i)
  <2>1. i \in 0 .. Len(s)
    BY <1>0, Between
  <2> QED
    BY <1>0, <1>2, <1>3, <2>1, CustomSumsAre DEF a
<1>5. a = [low |-> SumFunctionOnSet(Of(s, ext(1)), W), mid |-> SumFunctionOnSet(Of(s, y), W),
           high |-> SumFunctionOnSet(Of(s, ext(2)), W), n |-> SumFunctionOnSet(Of(s, one), W)]
  BY <1>4 DEF InWindow, Exts, Ys, Ones, W, D, y, ext, one
<1>6. ASSUME NEW v, \A j \in W : Missing(s[j].y) \/ v[j] \in Int
      PROVE  /\ SumFunctionOnSet(Of(s, v), W) = SumFunction([j \in ok |-> v[j]])
             /\ SumFunction([j \in ok |-> v[j]]) \in Int
             /\ IsFiniteSet(ok) /\ n \in Nat /\ (n = 0 <=> ok = {})
  BY <1>0, <1>3, <1>6, SumOfKnown DEF ok, n
<1>7. \A j \in ok : j \in D
  BY <1>3 DEF Known, ok
<1>8. /\ a.mid = SumFunction([j \in ok |-> s[j].y]) /\ a.mid \in Int
      /\ IsFiniteSet(ok) /\ n \in Nat /\ (n = 0 <=> ok = {})
  <2>1. \A j \in W : Missing(s[j].y) \/ y[j] \in Int
    BY <1>1, <1>3 DEF y
  <2>2. [j \in ok |-> y[j]] = [j \in ok |-> s[j].y]
    BY <1>7 DEF y
  <2>3. /\ SumFunctionOnSet(Of(s, y), W) = SumFunction([j \in ok |-> y[j]])
        /\ SumFunction([j \in ok |-> y[j]]) \in Int
        /\ IsFiniteSet(ok) /\ n \in Nat /\ (n = 0 <=> ok = {})
    BY <1>6, <2>1
  <2>4. a.mid = SumFunctionOnSet(Of(s, y), W)
    BY <1>5
  <2> QED
    BY <2>4, <2>2, <2>3
<1>9. ASSUME NEW e \in 1 .. 2
      PROVE  SumFunctionOnSet(Of(s, ext(e)), W) = SumFunction([j \in ok |-> s[j].ext[e]])
             /\ SumFunction([j \in ok |-> s[j].ext[e]]) \in Int
  <2>0. e = 1 \/ e = 2
    OBVIOUS
  <2>1. \A j \in W : Missing(s[j].y) \/ ext(e)[j] \in Int
    BY <1>1, <1>3, <2>0 DEF ext
  <2>2. [j \in ok |-> ext(e)[j]] = [j \in ok |-> s[j].ext[e]]
    BY <1>7 DEF ext
  <2>3. /\ SumFunctionOnSet(Of(s, ext(e)), W) = SumFunction([j \in ok |-> ext(e)[j]])
        /\ SumFunction([j \in ok |-> ext(e)[j]]) \in Int
    BY <1>6, <2>1
  <2> QED
    BY <2>2, <2>3
<1>10. a.n = n
  <2>1. \A j \in W : Missing(s[j].y) \/ one[j] \in Int
    BY <1>3 DEF one
  <2>2. \A j \in ok : one[j] = 1
    BY <1>7 DEF one
  <2> DEFINE h == [j \in ok |-> one[j]]
  <2>3. SumFunctionOnSet(Of(s, one), W) = SumFunction(h)
    BY <1>6, <2>1
  <2>4. \A j \in ok : h[j] = 1
    BY <2>2
  <2>5. SumFunction(h) = SumFunctionOnSet(h, ok)
    BY SumFunctionIs
  <2>6. SumFunctionOnSet(h, ok) = Cardinality(ok)
    <3> HIDE DEF h
    <3> QED
      BY <1>8, <2>4, SumOfOnes
  <2>7. a.n = SumFunctionOnSet(Of(s, one), W)
    BY <1>5
  <2> HIDE DEF h
  <2> QED
    BY <2>7, <2>3, <2>5, <2>6 DEF n
<1>11. /\ a.low = SumFunction([j \in ok |-> s[j].ext[1]]) /\ a.high = SumFunction([j \in ok |-> s[j].ext[2]])
       /\ a.low \in Int /\ a.high \in Int
  <2>1. a.low = SumFunctionOnSet(Of(s, ext(1)), W) /\ a.high = SumFunctionOnSet(Of(s, ext(2)), W)
    BY <1>5
  <2>2. 1 \in 1 .. 2 /\ 2 \in 1 .. 2
    OBVIOUS
  <2> QED
    BY <1>9, <2>1, <2>2
<1>12. p = IF a.n = 0 THEN Point(s[i].x, Null, <<Null, Null>>)
           ELSE Point(s[i].x, Mean(a.mid, a.n), <<Mean(a.low, a.n), Mean(a.high, a.n)>>)
  BY <1>1 DEF CustomRolling, p, a
<1>13. CASE ok = {}
  <2>1. p.y = Null
    BY <1>8, <1>10, <1>12, <1>13, PointIs
  <2>2. MeanOf(p, s, ok) /\ BarsOf(p, s, ok)
    BY <1>13, <2>1, ValueIs DEF MeanOf, BarsOf
  <2> QED
    BY <1>3, <2>2 DEF p, ok
<1>14. CASE ok # {}
  <2>1. p.y = Mean(a.mid, n) /\ p.ext = <<Mean(a.low, n), Mean(a.high, n)>> /\ n \in Nat \ {0}
    BY <1>8, <1>10, <1>12, <1>14, PointIs
  <2>2. p.y \in Int /\ IsMean(p.y, SumFunction([j \in ok |-> s[j].y]), n)
    <3>1. PICK m \in Int : m = a.mid
      BY <1>8
    <3>2. p.y \in Int /\ IsMean(p.y, m, n)
      BY <2>1, <3>1, MeanIsMean
    <3> QED
      BY <1>8, <3>1, <3>2
  <2>3. PICK lo \in Int, hi \in Int : lo = a.low /\ hi = a.high
    BY <1>11
  <2>4. Mean(lo, n) \in Int /\ IsMean(Mean(lo, n), lo, n) /\ Mean(hi, n) \in Int /\ IsMean(Mean(hi, n), hi, n)
    BY <2>1, MeanIsMean
  <2>5. p.ext[1] = Mean(lo, n) /\ p.ext[2] = Mean(hi, n)
    BY <2>1, <2>3
  <2>6. \A e \in 1 .. 2 : p.ext[e] \in Int /\ IsMean(p.ext[e], SumFunction([j \in ok |-> s[j].ext[e]]), n)
    <3> SUFFICES ASSUME NEW e \in 1 .. 2
                 PROVE  p.ext[e] \in Int /\ IsMean(p.ext[e], SumFunction([j \in ok |-> s[j].ext[e]]), n)
      OBVIOUS
    <3>1. CASE e = 1
      BY <1>11, <2>3, <2>4, <2>5, <3>1
    <3>2. CASE e = 2
      BY <1>11, <2>3, <2>4, <2>5, <3>2
    <3> QED
      BY <3>1, <3>2
  <2>7. MeanOf(p, s, ok) /\ BarsOf(p, s, ok)
    BY <1>14, <2>2, <2>6 DEF MeanOf, BarsOf, n
  <2> QED
    BY <1>3, <2>7 DEF p, ok
<1> QED
  BY <1>13, <1>14

(* What a ratio over the rows of a window is. *)
RatioOf(p, s, i, in) ==
    LET k   == Len(s[i].ext)
        num == SumFunction([j \in in |-> Num(s[j].ext[k - 1])])
        den == SumFunction([j \in in |-> Num(s[j].ext[k])])
    IN  (\A j \in 1 .. i : s[j].ext[k - 1] # NaN) =>
           IF den = 0 THEN p.y = 0 ELSE IsMean(p.y, Unit * num, den)

IsFraction(mode, p, k) ==
    /\ Numerator(p) \in Value /\ Denominator(p) \in Nat \cup {Null}
    /\ Numerator(p) = p.ext[k - 1] /\ Denominator(p) = p.ext[k] /\ Len(p.ext) = k
    /\ mode.kind = "fractionBars" => Numerator(p) # NaN /\ Num(Numerator(p)) \in 0 .. Num(Denominator(p))

(* The last two places of a point of a ratio. *)
LEMMA FractionsOf ==
    ASSUME NEW mode, mode.kind \in Ratios, NEW s, IsSeries(mode, s), NEW k, k = IF mode.kind = "fractions" THEN 2 ELSE 4
    PROVE  HasFractions(s) /\ \A i \in 1 .. Len(s) : IsFraction(mode, s[i], k)
<1>1. ASSUME NEW i \in 1 .. Len(s)
      PROVE  IsFraction(mode, s[i], k)
  <2> DEFINE q == s[i]
  <2>0. PointFacts(mode, q)
    BY DEF IsSeries
  <2> HIDE DEF q
  <2>1. CASE mode.kind = "fractions"
    <3>1. Len(q.ext) = 2 /\ k = 2 /\ k - 1 = 1 /\ q.ext[1] \in Value /\ q.ext[2] \in Nat \cup {Null}
      BY <2>0, <2>1 DEF PointFacts
    <3>2. Numerator(q) = q.ext[1] /\ Denominator(q) = q.ext[2]
      BY <3>1 DEF Numerator, Denominator
    <3> QED
      BY <2>1, <3>1, <3>2 DEF q, IsFraction
  <2>2. CASE mode.kind = "fractionBars"
    <3>1. Len(q.ext) = 4 /\ k = 4 /\ k - 1 = 3
          /\ q.ext[3] \in Int \cup {Null} /\ q.ext[4] \in Nat \cup {Null} /\ Num(q.ext[3]) \in 0 .. Num(q.ext[4])
      BY <2>0, <2>2 DEF PointFacts
    <3>2. Numerator(q) = q.ext[3] /\ Denominator(q) = q.ext[4]
      BY <3>1 DEF Numerator, Denominator
    <3>3. q.ext[3] # NaN /\ q.ext[3] \in Value
      BY <3>1, ChartAssumption DEF Value
    <3> QED
      BY <3>1, <3>2, <3>3 DEF q, IsFraction
  <2> QED
    BY <2>1, <2>2 DEF Ratios
<1> QED
  BY <1>1 DEF HasFractions, IsFraction, Value

(* The sums that are divided. *)
IsWindowRatio(a, mode, s, i, in) ==
    LET k == Len(s[i].ext) IN
    /\ a[1] \in Value /\ a[2] \in Nat
    /\ mode.kind = "fractionBars" => a[1] \in 0 .. a[2]
    /\ (\A j \in 1 .. i : s[j].ext[k - 1] # NaN)
           => a[1] = SumFunction([j \in in |-> Num(s[j].ext[k - 1])]) /\ a[1] \in Int
    /\ a[2] = SumFunction([j \in in |-> Num(s[j].ext[k])])

(* The running sums of the ratios are the sums of the window. *)
LEMMA WindowRatio ==
    ASSUME NEW mode, mode.kind \in Ratios, NEW s, IsSeries(mode, s), NEW i \in 1 .. Len(s), NEW period \in Int, period > 1,
           NEW r, r = IF period < Len(s) THEN period ELSE Len(s)
    PROVE  IsWindowRatio(FractionSums(s, r)[i], mode, s, i, LastRows(i, period))
<1> DEFINE W == WindowOf(i, r)
           D == 1 .. Len(s)
           a == FractionSums(s, r)[i]
           k == IF mode.kind = "fractions" THEN 2 ELSE 4
           gn == Nums(s)
           gd == Dens(s)
           hn == [j \in W |-> Num(s[j].ext[k - 1])]
           hd == [j \in W |-> Num(s[j].ext[k])]
<1> HIDE DEF W, D, a, gn, gd, hn, hd
<1>0. Len(s) \in Nat
  BY DEF IsSeries, IsTable
<1>1. /\ i \in D /\ HasFractions(s) /\ Len(s[i].ext) = k
      /\ \A j \in D : IsFraction(mode, s[j], k)
  <2> HIDE DEF k
  <2>1. k = IF mode.kind = "fractions" THEN 2 ELSE 4
    BY DEF k
  <2>2. HasFractions(s) /\ \A j \in D : IsFraction(mode, s[j], k)
    BY <2>1, FractionsOf DEF D
  <2> QED
    BY <2>2 DEF D, IsFraction
<1> HIDE DEF k
<1>2. r \in Nat \ {0} /\ W = LastRows(i, period) /\ W \in SUBSET D /\ IsFiniteSet(W)
      /\ \A j \in 1 .. i : j \in D
  BY <1>0, CutPeriod, Between DEF W, D
<1>21. i \in Int
  BY <1>0, Between
<1>22. \A j \in W : j \in 1 .. i
  BY <1>2 DEF LastRows
<1>3. a = Fractions(s, r, i)
  <2>1. i \in 0 .. Len(s)
    BY <1>0, Between
  <2> QED
    BY <1>0, <1>1, <1>2, <2>1, FractionSumsAre DEF a
<1>4. \A j \in D : gn[j] = (IF Numerator(s[j]) = NaN THEN 0 ELSE Num(Numerator(s[j]))) /\ gd[j] = Num(Denominator(s[j]))
  BY DEF Nums, Dens, gn, gd, D
<1>5. ASSUME NEW j \in D
      PROVE  /\ gn[j] \in Int /\ gd[j] \in Nat /\ gd[j] = Num(s[j].ext[k])
             /\ s[j].ext[k - 1] # NaN => gn[j] = Num(s[j].ext[k - 1])
             /\ mode.kind = "fractionBars" => gn[j] \in Nat /\ gn[j] <= gd[j]
  <2> DEFINE u == Numerator(s[j])
             v == Denominator(s[j])
  <2>1. /\ u \in Value /\ v \in Nat \cup {Null} /\ u = s[j].ext[k - 1] /\ v = s[j].ext[k]
        /\ mode.kind = "fractionBars" => u # NaN /\ Num(u) \in 0 .. Num(v)
    BY <1>1 DEF IsFraction
  <2>2. gn[j] = (IF u = NaN THEN 0 ELSE Num(u)) /\ gd[j] = Num(v)
    BY <1>4
  <2> HIDE DEF u, v
  <2>3. Num(v) \in Nat /\ (u # NaN => Num(u) \in Int)
    BY <2>1 DEF Value, Num
  <2>4. gd[j] \in Nat /\ gd[j] = Num(s[j].ext[k])
    BY <2>1, <2>2, <2>3
  <2>5. gn[j] \in Int /\ (s[j].ext[k - 1] # NaN => gn[j] = Num(s[j].ext[k - 1]))
    BY <2>1, <2>2, <2>3
  <2>6. mode.kind = "fractionBars" => gn[j] \in Nat /\ gn[j] <= gd[j]
    BY <2>1, <2>2, <2>3
  <2> QED
    BY <2>4, <2>5, <2>6
<1>6. SumFunctionOnSet(gn, W) \in Int /\ SumFunctionOnSet(gd, W) \in Nat
  BY <1>2, <1>5, SumIsInt, SumIsNat
<1>7. a = << IF Spoilt(s, i) THEN NaN ELSE SumFunctionOnSet(gn, W), SumFunctionOnSet(gd, W) >>
  BY <1>3 DEF Fractions, gn, gd, W
<1>8. a[1] \in Value /\ a[2] \in Nat
  BY <1>6, <1>7, ValueIs
<1>9. mode.kind = "fractionBars" => a[1] \in 0 .. a[2]
  <2> SUFFICES ASSUME mode.kind = "fractionBars" PROVE a[1] \in 0 .. a[2]
    OBVIOUS
  <2>1. ~ Spoilt(s, i)
    <3> SUFFICES ASSUME NEW j \in 1 .. i, Numerator(s[j]) = NaN PROVE FALSE
      BY DEF Spoilt
    <3>1. j \in D
      BY <1>2
    <3>2. Numerator(s[j]) # NaN
      BY <1>1, <3>1 DEF IsFraction
    <3> QED
      BY <3>2
  <2>2. \A j \in W : gn[j] \in Nat /\ gd[j] \in Int /\ gn[j] \in Int /\ gn[j] <= gd[j]
    BY <1>2, <1>5
  <2>3. SumFunctionOnSet(gn, W) \in Nat
    BY <2>2, <1>2, SumIsNat
  <2>4. SumFunctionOnSet(gn, W) <= SumFunctionOnSet(gd, W)
    BY <2>2, <1>2, SumIsLess
  <2>5. a[1] = SumFunctionOnSet(gn, W) /\ a[2] = SumFunctionOnSet(gd, W)
    BY <1>7, <2>1
  <2> QED
    BY <1>6, <2>3, <2>4, <2>5
<1>10. SumFunction(hd) = SumFunctionOnSet(gd, W)
  <2>1. \A j \in W : gd[j] \in Int /\ gd[j] = hd[j]
    BY <1>2, <1>5 DEF hd
  <2>2. SumFunction(hd) = SumFunctionOnSet(hd, W)
    BY SumFunctionIs DEF hd
  <2> QED
    BY <1>2, <2>1, <2>2, SumOfTheSame
<1>11. ASSUME \A j \in 1 .. i : s[j].ext[k - 1] # NaN
       PROVE  a[1] = SumFunction(hn) /\ a[1] \in Int
  <2>1. ~ Spoilt(s, i)
    <3> SUFFICES ASSUME NEW j \in 1 .. i, Numerator(s[j]) = NaN PROVE FALSE
      BY DEF Spoilt
    <3>1. j \in D
      BY <1>2
    <3>2. Numerator(s[j]) = s[j].ext[k - 1]
      BY <1>1, <3>1 DEF IsFraction
    <3> QED
      BY <1>11, <3>2
  <2>2. \A j \in W : gn[j] \in Int /\ gn[j] = hn[j]
    <3> SUFFICES ASSUME NEW j \in W PROVE gn[j] \in Int /\ gn[j] = hn[j]
      OBVIOUS
    <3>1. j \in D /\ j \in 1 .. i
      BY <1>2, <1>22
    <3>2. hn[j] = Num(s[j].ext[k - 1])
      BY DEF hn
    <3> QED
      BY <1>5, <1>11, <3>1, <3>2
  <2>3. SumFunction(hn) = SumFunctionOnSet(hn, W)
    BY SumFunctionIs DEF hn
  <2>4. SumFunctionOnSet(gn, W) = SumFunctionOnSet(hn, W)
    BY <1>2, <2>2, SumOfTheSame
  <2> QED
    BY <1>6, <1>7, <2>1, <2>3, <2>4
<1>12. /\ a[1] \in Value /\ a[2] \in Nat
       /\ mode.kind = "fractionBars" => a[1] \in 0 .. a[2]
       /\ (\A j \in 1 .. i : s[j].ext[k - 1] # NaN) => a[1] = SumFunction(hn) /\ a[1] \in Int
       /\ a[2] = SumFunction(hd)
  <2>1. a[2] = SumFunction(hd)
    BY <1>7, <1>10
  <2> QED
    BY <1>8, <1>9, <2>1, <1>11
<1>13. k = Len(s[i].ext) /\ W = LastRows(i, period)
  BY <1>1, <1>2
<1> QED
  BY <1>12, <1>13 DEF a, hn, hd, IsWindowRatio

LEMMA NumberIs == \A v \in Int : v # NaN /\ v # Null /\ Num(v) = v
BY ChartAssumption DEF Num

(* A ratio is the mean of the property. *)
LEMMA RatioMean ==
    ASSUME NEW num \in Int, NEW den \in Nat
    PROVE  Ratio(num, den) \in Int /\ IF den = 0 THEN Ratio(num, den) = 0 ELSE IsMean(Ratio(num, den), Unit * num, den)
<1>1. num # NaN /\ Num(num) = num /\ den # NaN /\ den # Null
  BY NumberIs
<1>2. CASE den = 0
  BY <1>2 DEF Ratio
<1>3. CASE den # 0
  <2>1. PICK v \in Int : v = Unit * num
    BY ChartAssumption
  <2>2. Ratio(num, den) = v \div den
    BY <1>1, <1>3, <2>1 DEF Ratio
  <2>3. v \div den \in Int /\ (v \div den) * den <= v /\ v < (v \div den + 1) * den
    BY <1>3, <2>1, Quotient
  <2> QED
    BY <1>3, <2>1, <2>2, <2>3 DEF IsMean
<1> QED
  BY <1>2, <1>3

(* What a rolled point is. *)
RolledFacts(mode, q) ==
    /\ q.y \in Value
    /\ mode.kind \in BarKinds => Missing(q.y) \/ (q.ext[1] \in Int /\ q.ext[2] \in Int)

(* The handler of the fractions draws the ratio of the sums. *)
LEMMA FractionMean ==
    ASSUME NEW mode, mode.kind = "fractions", NEW s, IsSeries(mode, s), NEW i \in 1 .. Len(s), NEW period \in Int, period > 1,
           NEW r, r = IF period < Len(s) THEN period ELSE Len(s)
    PROVE  LET q == FractionRolling(s, r)[i] IN
           RatioOf(q, s, i, LastRows(i, period)) /\ RolledFacts(mode, q)
<1> DEFINE a == FractionSums(s, r)[i]
           in == LastRows(i, period)
           k  == Len(s[i].ext)
           num == SumFunction([j \in in |-> Num(s[j].ext[k - 1])])
           den == SumFunction([j \in in |-> Num(s[j].ext[k])])
           q == FractionRolling(s, r)[i]
<1> HIDE DEF a, in, k, num, den, q
<1>1. /\ a[1] \in Value /\ a[2] \in Nat
      /\ (\A j \in 1 .. i : s[j].ext[k - 1] # NaN) => a[1] = num /\ a[1] \in Int
      /\ a[2] = den
  <2>1. mode.kind \in Ratios
    BY DEF Ratios
  <2> QED
    <3>1. IsWindowRatio(FractionSums(s, r)[i], mode, s, i, LastRows(i, period))
      BY <2>1, WindowRatio
    <3> QED
      BY <2>1, <3>1 DEF a, in, k, num, den, IsWindowRatio
<1>2. q = Point(s[i].x, Ratio(a[1], a[2]), <<>>)
  <2>1. i \in DOMAIN s
    BY DEF IsSeries, IsTable
  <2> QED
    BY <2>1 DEF FractionRolling, q, a
<1>3. q.y = Ratio(a[1], a[2])
  BY <1>2, PointIs
<1>4. q.y \in Value
  BY <1>1, <1>3, RatioIs DEF Value
<1>5. RolledFacts(mode, q)
  BY <1>4 DEF RolledFacts, BarKinds
<1>6. ASSUME \A j \in 1 .. i : s[j].ext[k - 1] # NaN
      PROVE  IF den = 0 THEN q.y = 0 ELSE IsMean(q.y, Unit * num, den)
  <2>1. num \in Int /\ den \in Nat /\ q.y = Ratio(num, den)
    BY <1>1, <1>3, <1>6
  <2> QED
    BY <2>1, RatioMean
<1>7. RatioOf(q, s, i, in)
  BY <1>6 DEF RatioOf, num, den, k
<1> QED
  BY <1>5, <1>7 DEF q, in

(* The Wilson interval is one of numbers. *)
LEMMA WilsonIs ==
    ASSUME NEW den \in Nat \ {0}, NEW num \in 0 .. den
    PROVE  WilsonBar(num, den)[1] \in Int /\ WilsonBar(num, den)[2] \in Int
<1>1. PICK s2 \in Nat : s2 = Sigma * Sigma
  BY ChartAssumption, Times
<1>2. num \in Nat /\ num \in Int
  OBVIOUS
<1>3. PICK ratio \in Int : ratio = Ratio(num, den)
  BY <1>2, RatioMean
<1>4. PICK part \in Int : part = (s2 * Unit) \div (2 * den)
  <2>1. s2 * Unit \in Int /\ 2 * den \in Nat \ {0}
    BY ChartAssumption
  <2> QED
    BY <2>1, Quotient
<1>5. PICK v \in Nat : v = (Unit * Unit * (4 * num * (den - num) + s2 * den)) \div (4 * den * den * den)
  <2>1. PICK m \in Nat : m = den - num
    OBVIOUS
  <2>2. PICK l \in Nat : l = 4 * num * m
    BY <1>2, <2>1, Times
  <2>3. PICK e \in Nat : e = s2 * den
    BY Times
  <2>4. PICK u \in Nat : u = Unit * Unit
    BY ChartAssumption, Times
  <2>5. PICK t \in Nat : t = u * (l + e)
    <3>1. l + e \in Nat
      BY <2>2, <2>3
    <3> QED
      BY <2>4, <3>1, Times
  <2>6. PICK d \in Nat \ {0} : d = 4 * den * den * den
    <3>1. 4 * den \in Nat \ {0}
      OBVIOUS
    <3>2. 4 * den * den \in Nat \ {0}
      BY <3>1, TimesPositive
    <3> QED
      BY <3>2, TimesPositive
  <2>7. t \div d \in Nat
    BY <2>5, <2>6, Quotient
  <2> QED
    BY <2>1, <2>2, <2>3, <2>4, <2>5, <2>6, <2>7
<1>6. PICK root \in Nat : root = Root(v)
  BY <1>5, RootIsInt
<1>7. PICK pm \in Nat : pm = Sigma * root
  BY <1>6, ChartAssumption, Times
<1>8. WilsonBar(num, den) = << ((ratio + part - pm) * den) \div (den + s2), ((ratio + part + pm) * den) \div (den + s2) >>
  BY <1>1, <1>3, <1>4, <1>5, <1>6, <1>7 DEF WilsonBar
<1>9. PICK lo \in Int, hi \in Int : lo = (ratio + part - pm) * den /\ hi = (ratio + part + pm) * den
  BY <1>3, <1>4, <1>7
<1>10. den + s2 \in Nat \ {0}
  BY <1>1
<1>11. lo \div (den + s2) \in Int /\ hi \div (den + s2) \in Int
  BY <1>9, <1>10, Quotient
<1> QED
  BY <1>8, <1>9, <1>11

(* So does the handler of the fractions with bars. *)
LEMMA FractionBarsMean ==
    ASSUME NEW mode, mode.kind = "fractionBars", NEW s, IsSeries(mode, s), NEW i \in 1 .. Len(s), NEW period \in Int, period > 1,
           NEW r, r = IF period < Len(s) THEN period ELSE Len(s), NEW wilson
    PROVE  LET q == FractionBarsRolling(s, r, wilson)[i] IN
           RatioOf(q, s, i, LastRows(i, period)) /\ RolledFacts(mode, q)
<1> DEFINE a == FractionSums(s, r)[i]
           in == LastRows(i, period)
           k  == Len(s[i].ext)
           num == SumFunction([j \in in |-> Num(s[j].ext[k - 1])])
           den == SumFunction([j \in in |-> Num(s[j].ext[k])])
           q == FractionBarsRolling(s, r, wilson)[i]
           y == Ratio(a[1], a[2])
           bar == BinomialBar(a[1], a[2])
<1> HIDE DEF a, in, k, num, den, q, y, bar
<1>1. /\ a[1] \in 0 .. a[2] /\ a[2] \in Nat
      /\ (\A j \in 1 .. i : s[j].ext[k - 1] # NaN) => a[1] = num
      /\ a[2] = den
  <2>1. mode.kind \in Ratios
    BY DEF Ratios
  <2> QED
    <3>1. IsWindowRatio(FractionSums(s, r)[i], mode, s, i, LastRows(i, period))
      BY <2>1, WindowRatio
    <3> QED
      BY <2>1, <3>1 DEF a, in, k, num, den, IsWindowRatio
<1>2. q = IF wilson /\ a[2] = 0 THEN Point(s[i].x, 0, <<0, 0>>)
          ELSE Point(s[i].x, y, IF wilson THEN WilsonBar(a[1], a[2]) ELSE <<y - bar, y + bar>>)
  <2>1. i \in DOMAIN s
    BY DEF IsSeries, IsTable
  <2> QED
    BY <2>1 DEF FractionBarsRolling, q, a, y, bar
<1>3. a[1] \in Int /\ y \in Int /\ IF a[2] = 0 THEN y = 0 ELSE IsMean(y, Unit * a[1], a[2])
  <2>1. PICK n \in Int, d \in Nat : n = a[1] /\ d = a[2]
    BY <1>1
  <2>2. Ratio(n, d) \in Int /\ IF d = 0 THEN Ratio(n, d) = 0 ELSE IsMean(Ratio(n, d), Unit * n, d)
    BY RatioMean
  <2> QED
    BY <2>1, <2>2 DEF y
<1>4. q.y = y
  BY <1>2, <1>3, PointIs
<1>5. bar \in Nat
  <2>1. Num(a[1]) = a[1] /\ Num(a[2]) = a[2]
    BY <1>1, <1>3, NumberIs
  <2> QED
    BY <1>1, <1>3, <2>1, BarIs DEF bar
<1>6. q.ext[1] \in Int /\ q.ext[2] \in Int
  <2>1. CASE wilson /\ a[2] = 0
    <3>1. q.ext = <<0, 0>>
      BY <1>2, <2>1, PointIs
    <3> QED
      BY <3>1
  <2>2. CASE wilson /\ a[2] # 0
    <3>1. q.ext = WilsonBar(a[1], a[2])
      BY <1>2, <2>2, PointIs
    <3> QED
      BY <1>1, <2>2, <3>1, WilsonIs
  <2>3. CASE ~ wilson
    <3>1. q.ext = <<y - bar, y + bar>>
      BY <1>2, <2>3, PointIs
    <3> QED
      BY <1>3, <1>5, <3>1
  <2> QED
    BY <2>1, <2>2, <2>3
<1>7. RolledFacts(mode, q)
  BY <1>3, <1>4, <1>6, ValueIs DEF RolledFacts
<1>8. ASSUME \A j \in 1 .. i : s[j].ext[k - 1] # NaN
      PROVE  IF den = 0 THEN q.y = 0 ELSE IsMean(q.y, Unit * num, den)
  BY <1>1, <1>3, <1>4, <1>8
<1>9. RatioOf(q, s, i, in)
  BY <1>8 DEF RatioOf, num, den, k
<1> QED
  BY <1>7, <1>9 DEF q, in

LEMMA MeanIsTyped ==
    ASSUME NEW p, NEW s, NEW ok, MeanOf(p, s, ok)
    PROVE  p.y \in Value
BY ValueIs DEF MeanOf, Missing, Value

(* Without rolling the ends of the custom bars are numbers, too. *)
LEMMA CustomTyped ==
    ASSUME NEW mode, mode.kind = "customBars", NEW p, NEW s, NEW ok, MeanOf(p, s, ok), BarsOf(p, s, ok)
    PROVE  RolledFacts(mode, p)
<1>1. Missing(p.y) \/ (p.ext[1] \in Int /\ p.ext[2] \in Int)
  <2>1. CASE ok = {}
    BY <2>1 DEF MeanOf
  <2>2. CASE ok # {}
    <3>1. 1 \in 1 .. 2 /\ 2 \in 1 .. 2
      OBVIOUS
    <3> QED
      BY <2>2, <3>1 DEF BarsOf
  <2> QED
    BY <2>1, <2>2
<1> QED
  BY <1>1, MeanIsTyped DEF RolledFacts

(* An error of a mean: the root of the sum of the squares. *)
LEMMA ErrorTyped ==
    ASSUME NEW mode, mode.kind = "errorBars", NEW s, IsSeries(mode, s), NEW i \in 1 .. Len(s), NEW period \in Int, period > 1,
           NEW r, r = IF period < Len(s) THEN period ELSE Len(s)
    PROVE  RolledFacts(mode, ErrorRolling(s, r)[i])
<1> DEFINE W == WindowOf(i, r)
           ok == Known(s, W)
           n == Cardinality(ok)
           v == [j \in 1 .. Len(s) |-> s[j].y]
           e == [j \in ok |-> Square(s[j].ext[3])]
           m == Mean(Total(s, ok), n)
           d == Sigma * Root(SquaredErrors(s, ok) \div Square(n))
           u == IF r = 1 THEN s[i].y ELSE Null
           p == ErrorRolling(s, r)[i]
<1> HIDE DEF W, ok, n, v, e, m, d, u, p
<1>0. Len(s) \in Nat /\ i \in DOMAIN s
  BY DEF IsSeries, IsTable
<1>1. /\ W \in SUBSET (1 .. Len(s)) /\ IsFiniteSet(W) /\ W = LastRows(i, period)
      /\ \A j \in W : PointFacts(mode, s[j])
  <2>1. W \in SUBSET (1 .. Len(s)) /\ IsFiniteSet(W) /\ W = LastRows(i, period)
    BY <1>0, CutPeriod DEF W
  <2> QED
    BY <2>1 DEF IsSeries
<1>2. p = IF ok = {} THEN Point(s[i].x, u, <<u, u>>) ELSE Point(s[i].x, m, <<m - d, m + d>>)
  BY <1>0 DEF ErrorRolling, p, ok, m, d, u, W, n
<1>3. MeanOf(p, s, ok)
  BY <1>1, ErrorMean DEF p, ok
<1>4. p.y \in Value
  BY <1>3, MeanIsTyped
<1>5. CASE ok = {}
  <2>1. Missing(p.y)
    BY <1>3, <1>5 DEF MeanOf
  <2> QED
    BY <1>4, <2>1 DEF RolledFacts, p
<1>6. CASE ok # {}
  <2>1. IsFiniteSet(ok) /\ ok \in SUBSET W
    <3>1. ok \in SUBSET W
      BY DEF ok, Known
    <3> QED
      BY <1>1, <3>1, FS_Subset
  <2>2. n \in Nat \ {0}
    BY <1>6, <2>1, FS_CardinalityType, FS_EmptySet DEF n
  <2>3. m \in Int
    <3>1. p.y = m
      BY <1>2, <1>6, PointIs
    <3> QED
      BY <1>3, <1>6, <3>1 DEF MeanOf
  <2>4. PICK q \in Nat : q = SquaredErrors(s, ok)
    <3>1. ASSUME NEW j \in ok PROVE e[j] \in Nat
      <4>1. s[j].ext[3] \in Int \cup {Null}
        BY <1>1, <2>1 DEF ok, Known, PointFacts
      <4> QED
        BY <4>1, SquareIsNat DEF e
    <3>2. SumFunctionOnSet(e, ok) \in Nat
      BY <2>1, <3>1, SumIsNat
    <3>3. SumFunction(e) = SumFunctionOnSet(e, ok)
      BY SumFunctionIs DEF e
    <3> QED
      BY <3>2, <3>3 DEF SquaredErrors, e
  <2>5. PICK t \in Nat \ {0} : t = Square(n)
    <3>1. Num(n) = n
      BY <2>2, NumberIs
    <3> QED
      BY <2>2, <3>1, TimesPositive DEF Square
  <2>6. PICK h \in Nat : h = Root(q \div t)
    <3>1. q \div t \in Nat
      BY <2>4, <2>5, Quotient
    <3> QED
      BY <3>1, RootIsInt
  <2>7. d \in Nat
    BY <2>4, <2>5, <2>6, ChartAssumption, Times DEF d
  <2>8. p.ext = <<m - d, m + d>>
    BY <1>2, <1>6, PointIs
  <2>9. p.ext[1] \in Int /\ p.ext[2] \in Int
    BY <2>3, <2>7, <2>8
  <2> QED
    BY <1>4, <2>9 DEF RolledFacts, p
<1> QED
  BY <1>5, <1>6

(* The points of the plain handler have no bars. *)
LEMMA PlainTyped ==
    ASSUME NEW mode, mode.kind \notin BarKinds, NEW p, p.y \in Value
    PROVE  RolledFacts(mode, p)
BY DEF RolledFacts

(* What is extracted is typed. *)
LEMMA PointsAreTyped ==
    ASSUME NEW mode, NEW p, PointFacts(mode, p)
    PROVE  RolledFacts(mode, p)
BY DEF RolledFacts, PointFacts, BarKinds

(* What the property says of a row. *)
IsAverage(mode, q, s, i, period) ==
    LET in == LastRows(i, period) IN
    IF mode.kind \in Ratios THEN RatioOf(q, s, i, in)
    ELSE MeanOf(q, s, Known(s, in)) /\ (mode.kind = "customBars" => BarsOf(q, s, Known(s, in)))

(* Every row that is rolled is the average of its window. *)
LEMMA RolledRow ==
    ASSUME NEW mode, NEW s, IsSeries(mode, s), NEW i \in 1 .. Len(s), NEW period \in Int, period > 1
    PROVE  /\ IsAverage(mode, rollingAverage(mode, s, period)[i], s, i, period)
           /\ RolledFacts(mode, rollingAverage(mode, s, period)[i])
<1>1. PICK r : /\ r = (IF period < Len(s) THEN period ELSE Len(s))
               /\ rollingAverage(mode, s, period) =
                        CASE mode.kind = "fractionBars" -> FractionBarsRolling(s, r, mode.wilson)
                          [] mode.kind = "fractions"  -> FractionRolling(s, r)
                          [] mode.kind = "customBars" -> CustomRolling(s, r)
                          [] mode.kind = "errorBars"  -> ErrorRolling(s, r)
                          [] OTHER                    -> DefaultRolling(s, r)
  BY CutSeries
<1> DEFINE q == rollingAverage(mode, s, period)[i]
           in == LastRows(i, period)
<1> HIDE DEF q, in
<1>2. CASE mode.kind = "fractionBars"
  <2>1. q = FractionBarsRolling(s, r, mode.wilson)[i]
    BY <1>1, <1>2 DEF q
  <2>2. RatioOf(q, s, i, in) /\ RolledFacts(mode, q)
    <3>1. PICK wilson : wilson = mode.wilson
      OBVIOUS
    <3>2. RatioOf(FractionBarsRolling(s, r, wilson)[i], s, i, in) /\ RolledFacts(mode, FractionBarsRolling(s, r, wilson)[i])
      BY <1>1, <1>2, FractionBarsMean DEF in
    <3> QED
      BY <2>1, <3>1, <3>2
  <2> QED
    BY <1>2, <2>2 DEF IsAverage, Ratios, q, in
<1>3. CASE mode.kind = "fractions"
  <2>1. q = FractionRolling(s, r)[i]
    BY <1>1, <1>3 DEF q
  <2>2. RatioOf(q, s, i, in) /\ RolledFacts(mode, q)
    BY <1>1, <1>3, <2>1, FractionMean DEF in
  <2> QED
    BY <1>3, <2>2 DEF IsAverage, Ratios, q, in
<1>4. CASE mode.kind = "customBars"
  <2>1. q = CustomRolling(s, r)[i]
    BY <1>1, <1>4 DEF q
  <2>2. MeanOf(q, s, Known(s, in)) /\ BarsOf(q, s, Known(s, in))
    BY <1>1, <1>4, <2>1, CustomMean DEF in
  <2>3. RolledFacts(mode, q)
    BY <1>4, <2>2, CustomTyped
  <2> QED
    BY <1>4, <2>2, <2>3 DEF IsAverage, Ratios, q, in
<1>5. CASE mode.kind = "errorBars"
  <2>1. q = ErrorRolling(s, r)[i]
    BY <1>1, <1>5 DEF q
  <2>2. MeanOf(q, s, Known(s, in))
    BY <1>1, <2>1, ErrorMean DEF in
  <2>3. RolledFacts(mode, q)
    BY <1>1, <1>5, <2>1, ErrorTyped
  <2> QED
    BY <1>5, <2>2, <2>3 DEF IsAverage, Ratios, q, in
<1>6. CASE mode.kind \notin {"fractionBars", "fractions", "customBars", "errorBars"}
  <2>1. q = DefaultRolling(s, r)[i]
    BY <1>1, <1>6 DEF q
  <2>2. MeanOf(q, s, Known(s, in))
    BY <1>1, <2>1, DefaultMean DEF in
  <2>3. RolledFacts(mode, q)
    BY <1>6, <2>2, MeanIsTyped, PlainTyped DEF BarKinds
  <2> QED
    BY <1>6, <2>2, <2>3 DEF IsAverage, Ratios, q, in
<1> QED
  BY <1>2, <1>3, <1>4, <1>5, <1>6

(* The series that are drawn. *)
LEMMA RolledIs ==
    ASSUME NEW mode, NEW rows, IsTable(rows), IsData(mode, rows), NEW period \in Int \cup {Fraction},
           rolled(mode, rows, period) # <<>>, NEW c \in Columns, NEW i \in 1 .. Len(rows)
    PROVE  LET q == rolled(mode, rows, period)[c][i]
               s == extractSeries(mode, rows, c)
           IN  /\ RolledFacts(mode, q)
               /\ period # Fraction /\ period > 1 => IsAverage(mode, q, s, i, period)
<1>1. PICK s : s = extractSeries(mode, rows, c)
  OBVIOUS
<1>2. IsSeries(mode, s) /\ Len(s) = Len(rows)
  <2>1. IsSeries(mode, s)
    BY <1>1, SeriesAreTyped
  <2>2. SameTimes(s, rows)
    BY <1>1, SeriesKeepTheTimes
  <2> QED
    BY <2>1, <2>2, SameTable
<1>3. PICK w \in Int : w = WholePeriod(period) /\ (period # Fraction => w = period)
  BY DEF WholePeriod
<1>4. PICK q : q = rolled(mode, rows, period)[c][i]
  OBVIOUS
<1>5. rolled(mode, rows, period)[c] = IF w > 1 THEN rollingAverage(mode, s, w) ELSE s
  BY <1>1, <1>3 DEF rolled
<1>6. CASE w > 1
  <2>1. q = rollingAverage(mode, s, w)[i]
    BY <1>4, <1>5, <1>6
  <2>2. IsAverage(mode, q, s, i, w) /\ RolledFacts(mode, q)
    BY <1>2, <1>6, <2>1, RolledRow
  <2> QED
    BY <1>1, <1>3, <1>4, <2>2
<1>7. CASE ~ (w > 1)
  <2>1. q = s[i]
    BY <1>4, <1>5, <1>7
  <2>2. RolledFacts(mode, q)
    BY <1>2, <2>1, PointsAreTyped DEF IsSeries
  <2> QED
    BY <1>1, <1>3, <1>4, <1>7, <2>2
<1> QED
  BY <1>6, <1>7

-----------------------------------------------------------------------------
(* Every picture was made from the data of the chart.                      *)

(* Every cell of a chart's data was read from a cell of the file. *)
LEMMA DataAreRead ==
    ASSUME NEW f \in Files
    PROVE  IsData(f.mode, parseCSV(f.lines))
<1>1. ASSUME NEW i \in 1 .. Len(parseCSV(f.lines)), NEW c \in Columns
      PROVE  ReadCell(f.mode, parseCSV(f.lines)[i].cells[c])
  <2>1. PICK row : row = parseCSV(f.lines)[i]
    OBVIOUS
  <2>2. PICK l : IsReadLine(f.mode, row, l)
    BY <2>1, DataAreInTime
  <2>3. PICK texts : texts = l.cells[c]
    OBVIOUS
  <2>4. IsCell(f.mode, texts)
    BY <2>2, <2>3 DEF IsReadLine
  <2>5. row.cells[c] = [k \in DOMAIN texts |-> ParseFloat(texts[k])]
    BY <2>2, <2>3 DEF IsReadLine, ParsedRow
  <2> QED
    BY <2>1, <2>4, <2>5 DEF ReadCell
<1> QED
  BY <1>1 DEF IsData

(* What was drawn last: a picture of the data in some roll period, window and columns, with the range of *)
(* this picture.                                                                                          *)
IsMade(g, range, f, series, w, shown) ==
    /\ g = evaluate(gatherDatasets(f.mode, series, w, shown, f.fill), f.connect)
    /\ range = computeYAxisRange(g.extremes, f.zero, f.mode.log)
MadeInv ==
    /\ rollPeriod \in Rolls
    /\ loaded => rawData = parseCSV(file.lines)
    /\ \/ packed = Nothing /\ valueRange = <<>>
       \/ \E period \in Rolls, w \in Windows \cup {<<>>}, shown \in SUBSET Columns :
          \E series \in {<<>>, rolled(file.mode, parseCSV(file.lines), period)} :
             IsMade(packed, valueRange, file, series, w, shown)

(* Whatever is drawn of the data of now was made from them. *)
LEMMA DrawingMakes ==
    ASSUME NEW period \in Rolls, NEW w \in Windows \cup {<<>>}, NEW shown \in SUBSET Columns,
           NEW series \in {<<>>, rolled(file.mode, parseCSV(file.lines), period)},
           packed' = evaluate(gatherDatasets(file.mode, series, w, shown, file.fill), file.connect),
           valueRange' = computeYAxisRange(packed'.extremes, file.zero, file.mode.log),
           file' = file, rollPeriod' \in Rolls, loaded' => rawData' = parseCSV(file.lines)
    PROVE  MadeInv'
<1>1. IsMade(packed', valueRange', file', series, w, shown)
  BY DEF IsMade
<1>2. series \in {<<>>, rolled(file'.mode, parseCSV(file'.lines), period)}
  OBVIOUS
<1> QED
  BY <1>1, <1>2 DEF MadeInv

(* predraw_, drawGraph, resetZoom: the picture and the range on the page were made together, from the data of the *)
(* chart, whatever was rolled, hidden or zoomed since, and though a roll period throws.                           *)
THEOREM PictureWasMade == Spec => []MadeInv
<1>1. Init => MadeInv
  BY DEF Init, MadeInv
<1>2. ChartInv /\ MadeInv /\ [Next]_vars => MadeInv'
  <2> SUFFICES ASSUME ChartInv, MadeInv, [Next]_vars PROVE MadeInv'
    OBVIOUS
  <2>0. /\ rollPeriod \in Rolls /\ visibility \in SUBSET Columns /\ dateWindow \in Windows \cup {<<>>}
        /\ rolledSeries \in {<<>>, rolled(file.mode, rawData, rollPeriod)}
        /\ loaded => rawData = parseCSV(file.lines)
    BY DEF ChartInv, PictureInv, MadeInv
  <2>1. CASE loadedEvent
    <3>1. /\ file' = file /\ rollPeriod' = rollPeriod /\ rawData' = parseCSV(file.lines)
          /\ rolledSeries' = rolled(file.mode, parseCSV(file.lines), rollPeriod)
          /\ \/ UNCHANGED <<packed, valueRange>>
             \/ /\ packed' = evaluate(gatherDatasets(file.mode, rolledSeries', dateWindow, visibility, file.fill), file.connect)
                /\ valueRange' = computeYAxisRange(packed'.extremes, file.zero, file.mode.log)
      BY <2>1 DEF loadedEvent, predraw, drawGraph
    <3>2. CASE UNCHANGED <<packed, valueRange>>
      BY <2>0, <3>1, <3>2 DEF MadeInv
    <3>3. CASE /\ packed' = evaluate(gatherDatasets(file.mode, rolledSeries', dateWindow, visibility, file.fill), file.connect)
               /\ valueRange' = computeYAxisRange(packed'.extremes, file.zero, file.mode.log)
      BY <2>0, <3>1, <3>3, DrawingMakes
    <3> QED
      BY <3>1, <3>2, <3>3
  <2>2. ASSUME NEW n \in Rolls, adjustRoll(n) PROVE MadeInv'
    <3>1. /\ file' = file /\ rollPeriod' = n /\ rawData' = rawData /\ loaded' = loaded /\ rawData = parseCSV(file.lines)
          /\ rolledSeries' = rolled(file.mode, parseCSV(file.lines), n)
          /\ \/ UNCHANGED <<packed, valueRange>>
             \/ /\ packed' = evaluate(gatherDatasets(file.mode, rolledSeries', dateWindow, visibility, file.fill), file.connect)
                /\ valueRange' = computeYAxisRange(packed'.extremes, file.zero, file.mode.log)
      BY <2>0, <2>2 DEF adjustRoll, predraw, drawGraph
    <3>2. CASE UNCHANGED <<packed, valueRange>>
      BY <2>0, <3>1, <3>2 DEF MadeInv
    <3>3. CASE /\ packed' = evaluate(gatherDatasets(file.mode, rolledSeries', dateWindow, visibility, file.fill), file.connect)
               /\ valueRange' = computeYAxisRange(packed'.extremes, file.zero, file.mode.log)
      BY <2>0, <3>1, <3>3, DrawingMakes
    <3> QED
      BY <3>1, <3>2, <3>3
  <2>3. ASSUME NEW c \in Columns, setVisibility(c) PROVE MadeInv'
    <3>1. /\ file' = file /\ rollPeriod' = rollPeriod /\ rawData' = rawData /\ loaded' = loaded /\ rawData = parseCSV(file.lines)
          /\ rolledSeries' = rolled(file.mode, parseCSV(file.lines), rollPeriod)
          /\ visibility' \in SUBSET Columns
          /\ \/ UNCHANGED <<packed, valueRange>>
             \/ /\ packed' = evaluate(gatherDatasets(file.mode, rolledSeries', dateWindow, visibility', file.fill), file.connect)
                /\ valueRange' = computeYAxisRange(packed'.extremes, file.zero, file.mode.log)
      BY <2>0, <2>3 DEF setVisibility, predraw, drawGraph
    <3>2. CASE UNCHANGED <<packed, valueRange>>
      BY <2>0, <3>1, <3>2 DEF MadeInv
    <3>3. CASE /\ packed' = evaluate(gatherDatasets(file.mode, rolledSeries', dateWindow, visibility', file.fill), file.connect)
               /\ valueRange' = computeYAxisRange(packed'.extremes, file.zero, file.mode.log)
      BY <2>0, <3>1, <3>3, DrawingMakes
    <3> QED
      BY <3>1, <3>2, <3>3
  <2>4. ASSUME NEW w \in Windows, doZoomXDates(w) PROVE MadeInv'
    <3>1. /\ file' = file /\ rollPeriod' = rollPeriod /\ rawData' = rawData /\ loaded' = loaded /\ rawData = parseCSV(file.lines)
          /\ packed' = evaluate(gatherDatasets(file.mode, rolledSeries, w, visibility, file.fill), file.connect)
          /\ valueRange' = computeYAxisRange(packed'.extremes, file.zero, file.mode.log)
      BY <2>0, <2>4 DEF doZoomXDates, drawGraph
    <3>2. rolledSeries \in {<<>>, rolled(file.mode, parseCSV(file.lines), rollPeriod)}
      BY <2>0, <3>1
    <3> QED
      BY <2>0, <3>1, <3>2, DrawingMakes
  <2>5. CASE resetZoom
    <3>1. /\ file' = file /\ rollPeriod' = rollPeriod /\ rawData' = rawData /\ loaded' = loaded /\ rawData = parseCSV(file.lines)
          /\ \/ UNCHANGED <<packed, valueRange>>
             \/ /\ packed' = evaluate(gatherDatasets(file.mode, rolledSeries, <<>>, visibility, file.fill), file.connect)
                /\ valueRange' = computeYAxisRange(packed'.extremes, file.zero, file.mode.log)
      BY <2>0, <2>5 DEF resetZoom
    <3>2. CASE UNCHANGED <<packed, valueRange>>
      BY <2>0, <3>1, <3>2 DEF MadeInv
    <3>3. CASE /\ packed' = evaluate(gatherDatasets(file.mode, rolledSeries, <<>>, visibility, file.fill), file.connect)
               /\ valueRange' = computeYAxisRange(packed'.extremes, file.zero, file.mode.log)
      <4>1. rolledSeries \in {<<>>, rolled(file.mode, parseCSV(file.lines), rollPeriod)} /\ <<>> \in Windows \cup {<<>>}
        BY <2>0, <3>1
      <4> QED
        BY <2>0, <3>1, <3>3, <4>1, DrawingMakes
    <3> QED
      BY <3>1, <3>2, <3>3
  <2>6. ASSUME NEW m \in Mice, mouseMove(m) PROVE MadeInv'
    BY <2>6 DEF mouseMove, MadeInv
  <2>7. CASE clearSelection
    BY <2>7 DEF clearSelection, MadeInv
  <2>8. CASE UNCHANGED vars
    BY <2>8 DEF vars, MadeInv
  <2> QED
    BY <2>1, <2>2, <2>3, <2>4, <2>5, <2>6, <2>7, <2>8 DEF Next
<1> QED
  BY <1>1, <1>2, ViewsAgree, PTL DEF Spec

(* rollingAverage, adjustRoll, predraw_: whatever the file, its handler and the roll periods that were typed, a *)
(* drawn value is the mean of the known values of the last rows, and a ratio that of the sums of the rows: the  *)
(* running sums of two of the handlers never drift from the sums that the others take anew.                     *)
THEOREM RolledIsAlwaysTheMean == Spec => []RolledIsTheMean
<1>1. ChartInv /\ MadeInv => RolledIsTheMean
  <2> DEFINE s(c) == extractSeries(file.mode, rawData, c)
             in(i) == LastRows(i, rollPeriod)
             ok(c, i) == {j \in in(i) : ~ Missing(s(c)[j].y)}
             p(c, i) == rolledSeries[c][i]
             k(c, i) == Len(s(c)[i].ext)
             num(c, i) == SumFunction([j \in in(i) |-> Num(s(c)[j].ext[k(c, i) - 1])])
             den(c, i) == SumFunction([j \in in(i) |-> Num(s(c)[j].ext[k(c, i)])])
  <2> SUFFICES ASSUME ChartInv, MadeInv, rolledSeries # <<>>, rollPeriod # Fraction, rollPeriod > 1,
                      NEW c \in Columns, NEW i \in DOMAIN rawData
               PROVE  IF file.mode.kind \in {"fractions", "fractionBars"}
                      THEN (\A j \in 1..i : s(c)[j].ext[k(c, i) - 1] # NaN) =>
                              IF den(c, i) = 0 THEN p(c, i).y = 0 ELSE IsMean(p(c, i).y, Unit * num(c, i), den(c, i))
                      ELSE IF ok(c, i) = {} THEN Missing(p(c, i).y)
                      ELSE /\ IsMean(p(c, i).y, SumFunction([j \in ok(c, i) |-> s(c)[j].y]), Cardinality(ok(c, i)))
                           /\ file.mode.kind = "customBars" =>
                                 \A e \in 1..2 : IsMean(p(c, i).ext[e], SumFunction([j \in ok(c, i) |-> s(c)[j].ext[e]]), Cardinality(ok(c, i)))
    BY DEF RolledIsTheMean
  <2> HIDE DEF s, in, ok, p, k, num, den
  <2>1. PICK rows, mode, period : rows = rawData /\ mode = file.mode /\ period = rollPeriod
    OBVIOUS
  <2>2. IsTable(rows) /\ IsData(mode, rows)
    <3>1. IsTable(rows)
      BY <2>1, RowsInTime DEF ChartInv
    <3>2. CASE rows = <<>>
      <4>1. Len(rows) = 0
        BY <3>2, EmptySeq
      <4> QED
        BY <3>1, <4>1 DEF IsData
    <3>3. CASE rows = parseCSV(file.lines)
      <4>1. PICK f \in Files : f = file
        BY DEF ChartInv, DataInv
      <4> QED
        BY <2>1, <3>1, <3>3, <4>1, DataAreRead
    <3> QED
      BY <2>1, <3>2, <3>3 DEF ChartInv, DataInv
  <2>3. /\ period \in Int \cup {Fraction} /\ period # Fraction /\ period > 1
        /\ rolledSeries = rolled(mode, rows, period) /\ rolled(mode, rows, period) # <<>>
    BY <2>1, ChartAssumption DEF ChartInv, PictureInv, MadeInv
  <2>4. i \in 1 .. Len(rows)
    BY <2>1, <2>2 DEF IsTable
  <2>5. PICK t : t = extractSeries(mode, rows, c)
    OBVIOUS
  <2>6. PICK q : q = rolled(mode, rows, period)[c][i]
    OBVIOUS
  <2>7. IsAverage(mode, q, t, i, period)
    BY <2>2, <2>3, <2>4, <2>5, <2>6, RolledIs
  <2>8. s(c) = t /\ p(c, i) = q /\ in(i) = LastRows(i, period)
    BY <2>1, <2>3, <2>5, <2>6 DEF s, p, in
  <2>9. CASE mode.kind \in {"fractions", "fractionBars"}
    <3>1. RatioOf(q, t, i, in(i))
      BY <2>7, <2>8, <2>9 DEF IsAverage, Ratios
    <3> QED
      BY <2>1, <2>8, <2>9, <3>1 DEF RatioOf, k, num, den
  <2>10. CASE mode.kind \notin {"fractions", "fractionBars"}
    <3>1. ok(c, i) = Known(t, in(i))
      BY <2>8 DEF ok, Known
    <3>2. MeanOf(q, t, ok(c, i)) /\ (mode.kind = "customBars" => BarsOf(q, t, ok(c, i)))
      BY <2>7, <2>8, <2>10, <3>1 DEF IsAverage, Ratios
    <3> QED
      BY <2>1, <2>8, <2>10, <3>2 DEF MeanOf, BarsOf
  <2> QED
    BY <2>1, <2>9, <2>10
<1> QED
  BY <1>1, ViewsAgree, PictureWasMade, PTL

-----------------------------------------------------------------------------
(* What a series that can be drawn is, cut and stacked.                    *)

(* A part of an interval is a finite set of numbers. *)
LEMMA PartOfInterval ==
    ASSUME NEW n \in Nat, NEW T, T \subseteq 1 .. n
    PROVE  IsFiniteSet(T) /\ T \subseteq Int
<1>1. IsFiniteSet(1 .. n)
  BY FS_Interval
<1>2. T \in SUBSET (1 .. n)
  OBVIOUS
<1>3. IsFiniteSet(T)
  BY <1>1, <1>2, FS_Subset
<1> QED
  BY <1>3

(* A series that can be drawn: in the order of its times, numbers where there is a value. *)
IsRolled(mode, s) == IsTable(s) /\ InTime(s) /\ \A i \in 1 .. Len(s) : RolledFacts(mode, s[i])

(* The part of it that is drawn is one, too. *)
CutAt(s, w) == SubSeq(s, boundaryIds(s, w)[1], boundaryIds(s, w)[2])

(* So that what is cut out can be drawn, too. *)
LEMMA CutIsRolled ==
    ASSUME NEW mode, NEW s, IsRolled(mode, s), NEW w
    PROVE  IsRolled(mode, CutAt(s, w)) /\ boundaryIds(s, w)[1] \in Int
<1>1. PICK b \in Nat \ {0} : b = boundaryIds(s, w)[1]
  BY Boundaries DEF IsRolled
<1>2. PICK cut : cut = CutAt(s, w)
  OBVIOUS
<1>3. \A i \in DOMAIN cut : i \in Nat /\ i + b - 1 \in DOMAIN s /\ cut[i] = s[i + b - 1]
  BY <1>1, <1>2, CutOf DEF CutAt, IsRolled
<1>4. Len(cut) \in Nat /\ DOMAIN cut = 1 .. Len(cut)
  <2>1. PICK e \in 0 .. Len(s) : e = boundaryIds(s, w)[2]
    BY Boundaries DEF IsRolled
  <2>2. PICK S : S = {s[i] : i \in b .. e}
    OBVIOUS
  <2>3. b \in Int /\ e \in Int /\ \A i \in b .. e : s[i] \in S
    BY <2>2 DEF IsRolled, IsTable
  <2>4. cut \in Seq(S)
    BY <1>1, <1>2, <2>1, <2>3, SubSeqProperties DEF CutAt
  <2> QED
    BY <2>4, LenProperties
<1>5. DOMAIN s = 1 .. Len(s) /\ Len(s) \in Nat
  BY DEF IsRolled, IsTable
<1>6. \A i \in 1 .. Len(cut) : cut[i].x \in Int /\ RolledFacts(mode, cut[i])
  BY <1>3, <1>4, <1>5 DEF IsRolled, IsTable
<1>7. ASSUME NEW i \in 1 .. Len(cut), NEW j \in 1 .. Len(cut), i <= j PROVE cut[i].x <= cut[j].x
  <2>1. PICK k \in 1 .. Len(s), l \in 1 .. Len(s) : cut[i] = s[k] /\ cut[j] = s[l] /\ k = i + b - 1 /\ l = j + b - 1
    BY <1>3, <1>4, <1>5
  <2>2. i \in Nat /\ j \in Nat
    BY <1>3, <1>4
  <2>3. k <= l
    BY <2>1, <2>2, <1>7
  <2> QED
    BY <2>1, <2>3 DEF IsRolled, InTime
<1> QED
  BY <1>1, <1>2, <1>4, <1>6, <1>7 DEF IsRolled, IsTable, InTime

(* The points of one series in a picture. *)
PointOf(mode, q) ==
    /\ q.xval \in Int /\ q.yval \in Value
    /\ mode.kind \in BarKinds => Missing(q.yval) \/ (q.ext[1] \in Int /\ q.ext[2] \in Int)
IsLayer(mode, p) ==
    /\ Len(p) \in Nat /\ DOMAIN p = 1 .. Len(p)
    /\ \A i \in 1 .. Len(p) : PointOf(mode, p[i])
    /\ \A i, j \in 1 .. Len(p) : i <= j => p[i].xval <= p[j].xval

(* seriesToPoints makes a layer of a series. *)
LEMMA LayerOf ==
    ASSUME NEW mode, NEW s, IsRolled(mode, s), NEW b
    PROVE  /\ IsLayer(mode, seriesToPoints(s, b)) /\ Len(seriesToPoints(s, b)) = Len(s)
           /\ \A i \in 1 .. Len(s) : /\ seriesToPoints(s, b)[i].yval = s[i].y /\ seriesToPoints(s, b)[i].ext = s[i].ext
                                     /\ seriesToPoints(s, b)[i].idx = i + b - 1
<1>1. PICK p : p = seriesToPoints(s, b)
  OBVIOUS
<1>2. PICK n \in Nat : n = Len(s) /\ DOMAIN s = 1 .. n
  BY DEF IsRolled, IsTable
<1>3. p = [i \in 1 .. n |-> p[i]] /\ DOMAIN p = 1 .. n
  BY <1>1, <1>2 DEF seriesToPoints
<1>4. Len(p) = n
  BY <1>3, Counted
<1>5. \A i \in 1 .. n : p[i].xval = s[i].x /\ p[i].yval = s[i].y /\ p[i].ext = s[i].ext /\ p[i].idx = i + b - 1
  BY <1>1, <1>2 DEF seriesToPoints
<1>6. \A i \in 1 .. n : PointOf(mode, p[i])
  BY <1>2, <1>5 DEF PointOf, IsRolled, IsTable, RolledFacts
<1>7. \A i, j \in 1 .. n : i <= j => p[i].xval <= p[j].xval
  BY <1>2, <1>5 DEF IsRolled, InTime
<1> QED
  BY <1>1, <1>2, <1>3, <1>4, <1>5, <1>6, <1>7 DEF IsLayer

-----------------------------------------------------------------------------
(* stackPoints_. *)

Xs(p) == {p[i].xval : i \in DOMAIN p}
FirstOf(p, x) == Min({i \in DOMAIN p : p[i].xval = x})
HeightAt(p, x, fill) == StackHeight(p, FirstOf(p, x), fill)

(* The first point of an x. *)
LEMMA FirstIs ==
    ASSUME NEW mode, NEW p, IsLayer(mode, p), NEW x \in Xs(p)
    PROVE  /\ FirstOf(p, x) \in 1 .. Len(p) /\ p[FirstOf(p, x)].xval = x
           /\ \A j \in 1 .. Len(p) : p[j].xval = x => FirstOf(p, x) <= j
           /\ \A j \in 1 .. Len(p) : j < FirstOf(p, x) => p[j].xval < x
<1> DEFINE S == {i \in DOMAIN p : p[i].xval = x}
<1>1. DOMAIN p = 1 .. Len(p) /\ Len(p) \in Nat
  BY DEF IsLayer
<1>2. S \subseteq Int /\ S # {} /\ IsFiniteSet(S)
  <2>2. S \subseteq 1 .. Len(p) /\ S # {}
    BY <1>1 DEF Xs
  <2> HIDE DEF S
  <2> QED
    BY <1>1, <2>2, PartOfInterval
<1>3. Min(S) \in S /\ \A k \in S : Min(S) <= k
  <2> HIDE DEF S
  <2> QED
    BY <1>2, Extremes
<1>4. PICK f \in 1 .. Len(p) : f = FirstOf(p, x) /\ p[f].xval = x /\ \A j \in 1 .. Len(p) : p[j].xval = x => f <= j
  BY <1>1, <1>3 DEF FirstOf
<1>5. ASSUME NEW j \in 1 .. Len(p), j < f PROVE p[j].xval < x
  <2>1. p[j].xval <= p[f].xval
    BY <1>1, <1>5 DEF IsLayer
  <2>2. p[j].xval # x
    BY <1>1, <1>4, <1>5
  <2>3. p[j].xval \in Int /\ x \in Int
    BY <1>4 DEF IsLayer, PointOf
  <2> QED
    BY <1>4, <2>1, <2>2, <2>3
<1> QED
  BY <1>4, <1>5

(* A known value is its own height; the height that is put in for a missing one is a number, for the known value *)
(* before it lies at an earlier x.                                                                               *)
LEMMA HeightIs ==
    ASSUME NEW mode, NEW p, IsLayer(mode, p), NEW x \in Xs(p), NEW fill
    PROVE  /\ HeightAt(p, x, fill) \in Int
           /\ ~ Missing(p[FirstOf(p, x)].yval) => HeightAt(p, x, fill) = p[FirstOf(p, x)].yval
<1> DEFINE i == FirstOf(p, x)
           prev == {j \in 1..i - 1 : ~ Missing(p[j].yval)}
           next == {j \in i + 1..Len(p) : ~ Missing(p[j].yval)}
           a == p[Max(prev)]
           b == p[Min(next)]
           q == ((b.yval - a.yval) * (p[i].xval - a.xval)) \div (b.xval - a.xval)
           h == StackHeight(p, i, fill)
<1>0. h = IF ~ Missing(p[i].yval) THEN p[i].yval
          ELSE CASE fill # "none" /\ prev # {} /\ next # {} -> a.yval + q
                 [] fill = "all" /\ prev # {} /\ next = {}   -> a.yval
                 [] fill = "all" /\ prev = {} /\ next # {}   -> b.yval
                 [] OTHER                                   -> 0
  BY DEF StackHeight
<1> HIDE DEF i, h
<1>1. PICK n \in Nat : n = Len(p) /\ DOMAIN p = 1 .. n
  BY DEF IsLayer
<1>2. i \in 1 .. n /\ p[i].xval = x /\ \A j \in 1 .. n : j < i => p[j].xval < x
  BY <1>1, FirstIs DEF i
<1>3. \A j \in 1 .. n : /\ p[j].xval \in Int /\ (Missing(p[j].yval) \/ p[j].yval \in Int)
                        /\ \A k \in 1 .. n : j <= k => p[j].xval <= p[k].xval
  BY <1>1, ValueIs DEF IsLayer, PointOf
<1>4. /\ prev \subseteq {j \in 1 .. n : j < i /\ ~ Missing(p[j].yval)}
      /\ next \subseteq {j \in 1 .. n : i < j /\ ~ Missing(p[j].yval)}
  BY <1>1, <1>2
<1>5. prev # {} => /\ Max(prev) \in 1 .. n /\ a.yval \in Int /\ a.xval \in Int /\ a.xval < x
  <2> SUFFICES ASSUME prev # {} PROVE Max(prev) \in 1 .. n /\ a.yval \in Int /\ a.xval \in Int /\ a.xval < x
    OBVIOUS
  <2> HIDE DEF prev, next
  <2>1. prev \subseteq 1 .. n /\ prev \subseteq Int
    BY <1>4
  <2>2. IsFiniteSet(prev)
    BY <2>1, PartOfInterval
  <2>3. Max(prev) \in prev
    BY <2>1, <2>2, Extremes
  <2> QED
    BY <1>2, <1>3, <1>4, <2>3
<1>6. next # {} => /\ Min(next) \in 1 .. n /\ b.yval \in Int /\ b.xval \in Int /\ x <= b.xval
  <2> SUFFICES ASSUME next # {} PROVE Min(next) \in 1 .. n /\ b.yval \in Int /\ b.xval \in Int /\ x <= b.xval
    OBVIOUS
  <2> HIDE DEF prev, next
  <2>1. next \subseteq 1 .. n /\ next \subseteq Int
    BY <1>4
  <2>2. IsFiniteSet(next)
    BY <2>1, PartOfInterval
  <2>3. Min(next) \in next
    BY <2>1, <2>2, Extremes
  <2>4. Min(next) \in 1 .. n /\ i < Min(next) /\ ~ Missing(b.yval)
    BY <1>4, <2>3
  <2>5. p[i].xval <= b.xval
    BY <1>2, <1>3, <2>4
  <2> QED
    BY <1>2, <1>3, <2>4, <2>5
<1>7. prev # {} /\ next # {} => q \in Int
  <2> SUFFICES ASSUME prev # {}, next # {} PROVE q \in Int
    OBVIOUS
  <2> HIDE DEF prev, next, a, b
  <2>1. PICK d \in Nat \ {0} : d = b.xval - a.xval
    BY <1>2, <1>3, <1>5, <1>6
  <2>2. PICK u \in Int : u = (b.yval - a.yval) * (p[i].xval - a.xval)
    BY <1>2, <1>3, <1>5, <1>6
  <2>3. u \div d \in Int
    BY Quotient
  <2> QED
    BY <2>1, <2>2, <2>3
<1>8. h \in Int
  <2> HIDE DEF prev, next, a, b, q
  <2> QED
    BY <1>0, <1>2, <1>3, <1>5, <1>6, <1>7
<1>9. ~ Missing(p[i].yval) => h = p[i].yval
  <2> HIDE DEF prev, next, a, b, q
  <2> QED
    BY <1>0
<1> QED
  BY <1>8, <1>9 DEF h, i, HeightAt

-----------------------------------------------------------------------------
(* What the series of a stacked chart are put on.                          *)

Above(pts, c, x) == {d \in DOMAIN pts : d > c /\ x \in Xs(pts[d])}
Heights(pts, x, fill) == [d \in DOMAIN pts |-> HeightAt(pts[d], x, fill)]
HeightAbove(pts, c, x, fill) == SumFunctionOnSet(Heights(pts, x, fill), Above(pts, c, x))
XsAbove(pts, c) == UNION {Xs(pts[d]) : d \in {e \in DOMAIN pts : e > c}}

AreLayers(mode, pts) == /\ IsFiniteSet(DOMAIN pts) /\ DOMAIN pts \subseteq Nat \ {0}
                        /\ \A c \in DOMAIN pts : IsLayer(mode, pts[c])
(* What the series after c are in the way of a stack: at every x of theirs, the sum of their heights. *)
IsBelow(b, pts, c, fill) ==
    DOMAIN b = XsAbove(pts, c) /\ \A x \in XsAbove(pts, c) : b[x] = HeightAbove(pts, c, x, fill)

(* The sum of the heights at an x is a number. *)
LEMMA AboveIs ==
    ASSUME NEW mode, NEW pts, AreLayers(mode, pts), NEW c, NEW x, NEW fill
    PROVE  /\ IsFiniteSet(Above(pts, c, x))
           /\ \A d \in Above(pts, c, x) : Heights(pts, x, fill)[d] \in Int
           /\ x \in XsAbove(pts, c) <=> Above(pts, c, x) # {}
           /\ HeightAbove(pts, c, x, fill) \in Int
           /\ x \notin XsAbove(pts, c) => HeightAbove(pts, c, x, fill) = 0
<1>1. IsFiniteSet(Above(pts, c, x))
  <2>1. Above(pts, c, x) \in SUBSET DOMAIN pts
    BY DEF Above
  <2> QED
    BY <2>1, FS_Subset DEF AreLayers
<1>2. ASSUME NEW d \in Above(pts, c, x) PROVE Heights(pts, x, fill)[d] \in Int
  <2>1. d \in DOMAIN pts /\ x \in Xs(pts[d])
    BY DEF Above
  <2>2. PICK p : p = pts[d]
    OBVIOUS
  <2>3. IsLayer(mode, p) /\ x \in Xs(p)
    BY <2>1, <2>2 DEF AreLayers
  <2>4. HeightAt(p, x, fill) \in Int
    BY <2>3, HeightIs
  <2> QED
    BY <2>1, <2>2, <2>4 DEF Heights
<1>3. x \in XsAbove(pts, c) <=> Above(pts, c, x) # {}
  BY DEF XsAbove, Above
<1>4. HeightAbove(pts, c, x, fill) \in Int
  BY <1>1, <1>2, SumIsInt DEF HeightAbove
<1>5. x \notin XsAbove(pts, c) => HeightAbove(pts, c, x, fill) = 0
  BY <1>3, SumOfNone DEF HeightAbove
<1> QED
  BY <1>1, <1>2, <1>3, <1>4, <1>5

(* One more series is put on the stack. *)
LEMMA HeightGrows ==
    ASSUME NEW mode, NEW pts, AreLayers(mode, pts), NEW c \in Nat, NEW x, NEW fill
    PROVE  /\ c + 1 \in DOMAIN pts /\ x \in Xs(pts[c + 1]) =>
                 HeightAbove(pts, c, x, fill) = HeightAbove(pts, c + 1, x, fill) + HeightAt(pts[c + 1], x, fill)
           /\ ~ (c + 1 \in DOMAIN pts /\ x \in Xs(pts[c + 1])) => HeightAbove(pts, c, x, fill) = HeightAbove(pts, c + 1, x, fill)
<1>1. \A d \in DOMAIN pts : d \in Nat
  BY DEF AreLayers
<1>2. CASE c + 1 \in DOMAIN pts /\ x \in Xs(pts[c + 1])
  <2> DEFINE S == Above(pts, c + 1, x)
             g == Heights(pts, x, fill)
  <2>1. Above(pts, c, x) = S \cup {c + 1} /\ c + 1 \notin S
    BY <1>1, <1>2 DEF Above
  <2>2. IsFiniteSet(S) /\ \A d \in S \cup {c + 1} : g[d] \in Int
    <3>1. \A d \in Above(pts, c, x) : g[d] \in Int
      BY AboveIs
    <3>2. IsFiniteSet(S)
      BY AboveIs
    <3> QED
      BY <2>1, <3>1, <3>2
  <2>3. SumFunctionOnSet(g, S \cup {c + 1}) = g[c + 1] + SumFunctionOnSet(g, S)
    <3> HIDE DEF g, S
    <3> QED
      BY <2>1, <2>2, SumWith
  <2>4. g[c + 1] = HeightAt(pts[c + 1], x, fill) /\ g[c + 1] \in Int
    BY <1>2, <2>2 DEF Heights
  <2>5. SumFunctionOnSet(g, S) \in Int
    BY AboveIs DEF HeightAbove
  <2> HIDE DEF g, S
  <2> QED
    BY <1>2, <2>1, <2>3, <2>4, <2>5 DEF HeightAbove, g, S
<1>3. CASE ~ (c + 1 \in DOMAIN pts /\ x \in Xs(pts[c + 1]))
  <2>1. Above(pts, c, x) = Above(pts, c + 1, x)
    BY <1>1, <1>3 DEF Above
  <2> QED
    BY <1>3, <2>1 DEF HeightAbove
<1> QED
  BY <1>2, <1>3

(* stackPoints_: the points are put on what is below, and what is below the next series is complete. *)
LEMMA StackedIs ==
    ASSUME NEW mode, NEW pts, AreLayers(mode, pts), NEW c \in Nat, c + 1 \in DOMAIN pts, NEW fill,
           NEW b, IsBelow(b, pts, c + 1, fill)
    PROVE  LET st == stackPoints(pts[c + 1], b, fill) IN
           /\ IsBelow(st.below, pts, c, fill)
           /\ st.points = [i \in DOMAIN pts[c + 1] |-> Heightened(pts[c + 1][i], HeightAbove(pts, c, pts[c + 1][i].xval, fill))]
<1> DEFINE p == pts[c + 1]
           at(x) == IF x \in DOMAIN b THEN b[x] ELSE 0
           sum(x) == at(x) + HeightAt(p, x, fill)
           st == stackPoints(p, b, fill)
<1>1. /\ st.points = [i \in DOMAIN p |-> Heightened(p[i], sum(p[i].xval))]
      /\ st.below = Over([x \in Xs(p) |-> sum(x)], b)
  BY DEF stackPoints, HeightAt, FirstOf, Xs
<1>2. ASSUME NEW x \in Xs(p) PROVE sum(x) = HeightAbove(pts, c, x, fill)
  <2>1. at(x) = HeightAbove(pts, c + 1, x, fill)
    BY AboveIs DEF IsBelow
  <2>2. HeightAbove(pts, c, x, fill) = HeightAbove(pts, c + 1, x, fill) + HeightAt(p, x, fill)
    BY HeightGrows
  <2> QED
    BY <2>1, <2>2
<1>3. \A i \in DOMAIN p : p[i].xval \in Xs(p)
  BY DEF Xs
<1> HIDE DEF p, sum, st
<1>4. st.points = [i \in DOMAIN p |-> Heightened(p[i], HeightAbove(pts, c, p[i].xval, fill))]
  BY <1>1, <1>2, <1>3
<1>5. DOMAIN st.below = Xs(p) \cup DOMAIN b
  BY <1>1 DEF Over
<1>6. XsAbove(pts, c) = Xs(p) \cup XsAbove(pts, c + 1)
  <2>1. \A d \in DOMAIN pts : d \in Nat
    BY DEF AreLayers
  <2>2. \A d \in DOMAIN pts : d > c <=> d = c + 1 \/ d > c + 1
    BY <2>1
  <2> QED
    BY <2>2 DEF XsAbove, p
<1>7. ASSUME NEW x \in XsAbove(pts, c) PROVE st.below[x] = HeightAbove(pts, c, x, fill)
  <2>1. CASE x \in Xs(p)
    <3>1. st.below[x] = sum(x)
      BY <1>1, <2>1 DEF Over
    <3> QED
      BY <1>2, <2>1, <3>1
  <2>2. CASE x \notin Xs(p)
    <3>1. x \in XsAbove(pts, c + 1)
      BY <1>6, <2>2
    <3>2. st.below[x] = b[x]
      BY <1>1, <2>2, <3>1 DEF Over, IsBelow
    <3>3. HeightAbove(pts, c, x, fill) = HeightAbove(pts, c + 1, x, fill)
      BY <2>2, HeightGrows DEF p
    <3> QED
      BY <3>1, <3>2, <3>3 DEF IsBelow
  <2> QED
    BY <2>1, <2>2
<1>8. IsBelow(st.below, pts, c, fill)
  BY <1>5, <1>6, <1>7 DEF IsBelow
<1> QED
  BY <1>4, <1>8 DEF st, p

(* A column that is not shown puts nothing on the stack. *)
LEMMA SkippedIs ==
    ASSUME NEW mode, NEW pts, AreLayers(mode, pts), NEW c \in Nat, c + 1 \notin DOMAIN pts, NEW fill
    PROVE  /\ XsAbove(pts, c) = XsAbove(pts, c + 1)
           /\ \A x : HeightAbove(pts, c, x, fill) = HeightAbove(pts, c + 1, x, fill)
<1>1. \A d \in DOMAIN pts : d \in Nat
  BY DEF AreLayers
<1>2. \A d \in DOMAIN pts : d > c <=> d > c + 1
  BY <1>1
<1>3. XsAbove(pts, c) = XsAbove(pts, c + 1)
  BY <1>2 DEF XsAbove
<1> QED
  BY <1>3, HeightGrows

LayerStep(h, pts, fill, last, c) ==
    IF c = last THEN <<>>
    ELSE IF c + 1 \in DOMAIN pts THEN stackPoints(pts[c + 1], h[c + 1], fill).below
    ELSE h[c + 1]
IsLayers(h, pts, fill, last) == h = [c \in 0 .. last |-> LayerStep(h, pts, fill, last, c)]

(* The last column of a picture. *)
LEMMA LastIs ==
    ASSUME NEW mode, NEW pts, AreLayers(mode, pts), NEW last, last = Max(DOMAIN pts \cup {0})
    PROVE  last \in Nat /\ (last # 0 => last \in DOMAIN pts) /\ \A d \in DOMAIN pts : d \in 1 .. last
<1> DEFINE S == DOMAIN pts \cup {0}
<1>1. S \subseteq Nat /\ S \subseteq Int /\ S # {} /\ IsFiniteSet(S)
  BY FS_AddElement DEF AreLayers
<1>2. Max(S) \in S /\ \A k \in S : k <= Max(S)
  <2> HIDE DEF S
  <2> QED
    BY <1>1, Extremes
<1>3. DOMAIN pts \subseteq Nat \ {0}
  BY DEF AreLayers
<1> QED
  BY <1>1, <1>2, <1>3

(* Below the last one there is nothing. *)
LEMMA NoneBelow ==
    ASSUME NEW mode, NEW pts, AreLayers(mode, pts), NEW last, last = Max(DOMAIN pts \cup {0}), NEW fill
    PROVE  IsBelow(<<>>, pts, last, fill)
<1>1. XsAbove(pts, last) = {}
  <2>1. last \in Nat /\ \A d \in DOMAIN pts : d \in 1 .. last
    BY LastIs
  <2>2. \A d \in DOMAIN pts : ~ (d > last)
    BY <2>1
  <2> QED
    BY <2>2 DEF XsAbove
<1>2. DOMAIN <<>> = {}
  OBVIOUS
<1> QED
  BY <1>1, <1>2 DEF IsBelow

(* The layers from the last to the first exist, *)
LEMMA LayersExist ==
    ASSUME NEW mode, NEW pts, AreLayers(mode, pts), NEW last, last = Max(DOMAIN pts \cup {0}), NEW fill
    PROVE  \E h : IsLayers(h, pts, fill, last)
<1> DEFINE layer(c) == [x \in XsAbove(pts, c) |-> HeightAbove(pts, c, x, fill)]
           h == [c \in 0 .. last |-> IF c = last THEN <<>> ELSE layer(c)]
<1>1. last \in Nat /\ (last # 0 => last \in DOMAIN pts) /\ \A d \in DOMAIN pts : d \in 1 .. last
  BY LastIs
<1>2. ASSUME NEW c \in 0 .. last PROVE IsBelow(h[c], pts, c, fill)
  <2>1. CASE c = last
    BY <2>1, NoneBelow
  <2>2. CASE c # last
    <3>1. h[c] = layer(c)
      BY <2>2
    <3> HIDE DEF h
    <3> QED
      BY <3>1 DEF IsBelow
  <2> QED
    BY <2>1, <2>2
<1>3. ASSUME NEW c \in 0 .. last PROVE h[c] = LayerStep(h, pts, fill, last, c)
  <2>1. CASE c = last
    BY <2>1 DEF LayerStep
  <2>2. CASE c # last
    <3>1. c \in Nat /\ c + 1 \in 0 .. last
      BY <1>1, <2>2
    <3>2. h[c] = layer(c)
      BY <2>2
    <3>3. CASE c + 1 \in DOMAIN pts
      <4>1. PICK b : b = h[c + 1]
        OBVIOUS
      <4>2. IsBelow(b, pts, c + 1, fill)
        BY <1>2, <3>1, <4>1
      <4>3. IsBelow(stackPoints(pts[c + 1], b, fill).below, pts, c, fill)
        BY <3>1, <3>3, <4>2, StackedIs
      <4>4. stackPoints(pts[c + 1], b, fill).below = [x \in DOMAIN stackPoints(pts[c + 1], b, fill).below |-> stackPoints(pts[c + 1], b, fill).below[x]]
        BY DEF stackPoints, Over
      <4>5. stackPoints(pts[c + 1], b, fill).below = layer(c)
        BY <4>3, <4>4 DEF IsBelow
      <4> HIDE DEF h
      <4> QED
        BY <2>2, <3>2, <3>3, <4>1, <4>5 DEF LayerStep
    <3>4. CASE c + 1 \notin DOMAIN pts
      <4>1. c + 1 # last
        BY <1>1, <3>1, <3>4
      <4>2. h[c + 1] = layer(c + 1)
        BY <3>1, <4>1
      <4>3. layer(c) = layer(c + 1)
        BY <3>1, <3>4, SkippedIs
      <4> HIDE DEF h, layer
      <4> QED
        BY <2>2, <3>2, <3>4, <4>2, <4>3 DEF LayerStep
    <3> QED
      BY <3>3, <3>4
  <2> QED
    BY <2>1, <2>2
<1>4. h = [c \in 0 .. last |-> h[c]]
  OBVIOUS
<1> HIDE DEF h
<1>5. h = [c \in 0 .. last |-> LayerStep(h, pts, fill, last, c)]
  BY <1>3, <1>4
<1> QED
  BY <1>5 DEF IsLayers

(* and each is the sums of those after it. *)
LEMMA LayersAreBelow ==
    ASSUME NEW mode, NEW pts, AreLayers(mode, pts), NEW fill, NEW c \in DOMAIN pts \cup {0}
    PROVE  IsBelow(LayersBelow(pts, fill)[c], pts, c, fill)
<1>1. PICK last : last = Max(DOMAIN pts \cup {0})
  OBVIOUS
<1>2. last \in Nat /\ (last # 0 => last \in DOMAIN pts) /\ \A d \in DOMAIN pts : d \in 1 .. last
  BY <1>1, LastIs
<1>3. LayersBelow(pts, fill) = CHOOSE h : IsLayers(h, pts, fill, last)
  BY <1>1 DEF LayersBelow, IsLayers, LayerStep
<1>4. PICK h : h = LayersBelow(pts, fill)
  OBVIOUS
<1>5. IsLayers(h, pts, fill, last)
  BY <1>1, <1>3, <1>4, LayersExist
<1> DEFINE Wrong == {m \in 0 .. last : ~ IsBelow(h[last - m], pts, last - m, fill)}
<1>6. SUFFICES ASSUME Wrong # {} PROVE FALSE
  <2>1. c \in 0 .. last
    BY <1>2
  <2>2. PICK m \in 0 .. last : c = last - m
    <3>1. last - c \in 0 .. last /\ c = last - (last - c)
      BY <1>2, <2>1
    <3> QED
      BY <3>1
  <2>3. m \notin Wrong => IsBelow(h[c], pts, c, fill)
    BY <2>2
  <2> QED
    BY <1>4, <2>3
<1>7. PICK m \in Wrong : \A k \in Wrong : m <= k
  <2>1. Wrong \in SUBSET Nat
    BY <1>2
  <2> HIDE DEF Wrong
  <2> QED
    BY <1>6, <2>1, LeastNumber
<1>8. m \in 0 .. last /\ ~ IsBelow(h[last - m], pts, last - m, fill)
  OBVIOUS
<1>9. \A d \in 0 .. last : h[d] = LayerStep(h, pts, fill, last, d)
  BY <1>5 DEF IsLayers
<1>10. m # 0
  <2> SUFFICES ASSUME m = 0 PROVE FALSE
    OBVIOUS
  <2>1. last - m = last /\ last \in 0 .. last
    BY <1>2
  <2>2. h[last] = <<>>
    BY <1>9, <2>1 DEF LayerStep
  <2> QED
    BY <1>1, <1>8, <2>1, <2>2, NoneBelow
<1>11. PICK d \in Nat : d = last - m
  BY <1>2, <1>8
<1>12. d \in 0 .. last /\ d # last /\ d + 1 = last - (m - 1) /\ m - 1 \in 0 .. last /\ ~ (m <= m - 1)
  BY <1>2, <1>8, <1>10, <1>11
<1>13. IsBelow(h[d + 1], pts, d + 1, fill)
  <2>1. m - 1 \notin Wrong
    <3> HIDE DEF Wrong
    <3> QED
      BY <1>7, <1>12
  <2> QED
    BY <1>12, <2>1
<1>14. h[d] = LayerStep(h, pts, fill, last, d)
  BY <1>9, <1>12
<1>15. IsBelow(h[d], pts, d, fill)
  <2>1. CASE d + 1 \in DOMAIN pts
    <3>1. h[d] = stackPoints(pts[d + 1], h[d + 1], fill).below
      BY <1>12, <1>14, <2>1 DEF LayerStep
    <3>2. PICK b : b = h[d + 1]
      OBVIOUS
    <3>3. IsBelow(stackPoints(pts[d + 1], b, fill).below, pts, d, fill)
      BY <1>13, <2>1, <3>2, StackedIs
    <3> QED
      BY <3>1, <3>2, <3>3
  <2>2. CASE d + 1 \notin DOMAIN pts
    <3>1. h[d] = h[d + 1]
      BY <1>12, <1>14, <2>2 DEF LayerStep
    <3>2. /\ XsAbove(pts, d) = XsAbove(pts, d + 1)
          /\ \A x : HeightAbove(pts, d, x, fill) = HeightAbove(pts, d + 1, x, fill)
      BY <2>2, SkippedIs
    <3> QED
      BY <1>13, <3>1, <3>2 DEF IsBelow
  <2> QED
    BY <2>1, <2>2
<1> QED
  BY <1>8, <1>11, <1>15

(* The height of a point of a stacked chart is the sum of the heights, at its x, of its series and of those after it. *)
LEMMA StackIs ==
    ASSUME NEW mode, NEW pts, AreLayers(mode, pts), NEW fill, NEW c \in DOMAIN pts
    PROVE  stackPoints(pts[c], LayersBelow(pts, fill)[c], fill).points
             = [i \in DOMAIN pts[c] |-> Heightened(pts[c][i], HeightAbove(pts, c - 1, pts[c][i].xval, fill))]
<1>1. PICK d \in Nat : d = c - 1 /\ c = d + 1
  BY DEF AreLayers
<1>2. PICK b : b = LayersBelow(pts, fill)[c]
  OBVIOUS
<1>3. IsBelow(b, pts, d + 1, fill)
  BY <1>1, <1>2, LayersAreBelow
<1>4. stackPoints(pts[d + 1], b, fill).points
        = [i \in DOMAIN pts[d + 1] |-> Heightened(pts[d + 1][i], HeightAbove(pts, d, pts[d + 1][i].xval, fill))]
  BY <1>1, <1>3, StackedIs
<1> QED
  BY <1>1, <1>2, <1>4

-----------------------------------------------------------------------------
(* What a picture is made of.                                              *)

(* What a picture is made of. *)
Drawable(mode, series, shown) ==
    /\ shown \subseteq DOMAIN series /\ shown \subseteq Nat \ {0} /\ IsFiniteSet(shown)
    /\ \A c \in shown : IsRolled(mode, series[c])
Measures(mode, series, w, shown) == [c \in shown |-> getExtremeYValues(mode, CutAt(series[c], w))]
Levels(stack, shown) == [c \in shown |-> {stack[c][i].stacked : i \in DOMAIN stack[c]}]

Extremes2(mode, series, w, shown, fill) ==
    LET ext == Measures(mode, series, w, shown)
        ys  == Levels(StackedOnes(CutPoints(series, w, shown), shown, fill), shown)
    IN  [c \in shown |-> <<Lowered(ext[c][1], ys[c]), Raised(ext[c][2], ys[c])>>]

GatheredOf(mode, series, w, shown, fill) ==
    [points      |-> IF fill = "off" THEN CutPoints(series, w, shown)
                     ELSE StackedOnes(CutPoints(series, w, shown), shown, fill),
     extremes    |-> IF fill = "off" THEN Measures(mode, series, w, shown)
                     ELSE Extremes2(mode, series, w, shown, fill),
     boundaryIds |-> Bounds(series, w, shown)]

(* What gatherDatasets_ returns, as a whole. *)
LEMMA GatheredIs ==
    ASSUME NEW mode, NEW series, NEW w, NEW all, NEW shown, shown = all \cap DOMAIN series, NEW fill
    PROVE  gatherDatasets(mode, series, w, all, fill) = GatheredOf(mode, series, w, shown, fill)
<1>2. CASE fill = "off"
  <2>1. gatherDatasets(mode, series, w, all, fill) =
           [points |-> CutPoints(series, w, shown), extremes |-> Measures(mode, series, w, shown), boundaryIds |-> Bounds(series, w, shown)]
    BY <1>2 DEF gatherDatasets, CutPoints, Bounds, Measures, CutAt
  <2> QED
    BY <1>2, <2>1 DEF GatheredOf
<1>3. CASE fill # "off"
  <2> DEFINE cols == all \cap DOMAIN series
             ids  == [c \in cols |-> boundaryIds(series[c], w)]
             cut  == [c \in cols |-> SubSeq(series[c], ids[c][1], ids[c][2])]
             pts  == [c \in cols |-> seriesToPoints(cut[c], ids[c][1])]
             ext  == [c \in cols |-> getExtremeYValues(mode, cut[c])]
             stack == [c \in cols |-> stackPoints(pts[c], LayersBelow(pts, fill)[c], fill).points]
             ys    == [c \in cols |-> {stack[c][i].stacked : i \in DOMAIN stack[c]}]
             extremes == [c \in cols |-> <<Lowered(ext[c][1], ys[c]), Raised(ext[c][2], ys[c])>>]
  <2>1. gatherDatasets(mode, series, w, all, fill) = [points |-> stack, extremes |-> extremes, boundaryIds |-> ids]
    BY <1>3, Zenon DEF gatherDatasets
  <2>2. cols = shown
    OBVIOUS
  <2>3. ids = Bounds(series, w, shown)
    BY <2>2 DEF Bounds
  <2>4. pts = CutPoints(series, w, shown)
    BY <2>2 DEF CutPoints, Bounds
  <2>5. ext = Measures(mode, series, w, shown)
    BY <2>2 DEF Measures, CutAt
  <2> HIDE DEF cols, ids, pts, ext
  <2>6. stack = StackedOnes(CutPoints(series, w, shown), shown, fill)
    BY <2>2, <2>4 DEF StackedOnes
  <2> HIDE DEF stack
  <2>7. ys = Levels(stack, shown)
    BY <2>2 DEF Levels
  <2> HIDE DEF ys
  <2>8. extremes = Extremes2(mode, series, w, shown, fill)
    BY <2>2, <2>5, <2>6, <2>7 DEF Extremes2
  <2> HIDE DEF extremes
  <2> QED
    BY <1>3, <2>1, <2>3, <2>6, <2>8 DEF GatheredOf
<1> QED
  BY <1>2, <1>3

(* A layer of a picture before it is stacked. *)
IsCutLayer(mode, s, w, p) ==
    /\ p = seriesToPoints(CutAt(s, w), boundaryIds(s, w)[1])
    /\ IsRolled(mode, CutAt(s, w)) /\ boundaryIds(s, w)[1] \in Int

(* Every column of a picture is a layer. *)
LEMMA CutLayers ==
    ASSUME NEW mode, NEW series, NEW w, NEW shown, Drawable(mode, series, shown)
    PROVE  /\ DOMAIN CutPoints(series, w, shown) = shown /\ AreLayers(mode, CutPoints(series, w, shown))
           /\ \A c \in shown : IsCutLayer(mode, series[c], w, CutPoints(series, w, shown)[c])
<1>1. DOMAIN CutPoints(series, w, shown) = shown
  BY DEF CutPoints
<1>2. ASSUME NEW c \in shown
      PROVE  /\ IsCutLayer(mode, series[c], w, CutPoints(series, w, shown)[c])
             /\ IsLayer(mode, CutPoints(series, w, shown)[c])
  <2>1. PICK s : s = series[c]
    OBVIOUS
  <2>2. IsRolled(mode, s)
    BY <2>1 DEF Drawable
  <2>3. CutPoints(series, w, shown)[c] = seriesToPoints(CutAt(s, w), boundaryIds(s, w)[1])
    BY <2>1 DEF CutPoints, Bounds, CutAt
  <2>4. PICK cut, b : cut = CutAt(s, w) /\ b = boundaryIds(s, w)[1]
    OBVIOUS
  <2>5. IsRolled(mode, cut) /\ b \in Int
    BY <2>2, <2>4, CutIsRolled
  <2>6. IsLayer(mode, seriesToPoints(cut, b))
    BY <2>5, LayerOf
  <2> QED
    BY <2>1, <2>3, <2>4, <2>5, <2>6 DEF IsCutLayer
<1> QED
  BY <1>1, <1>2 DEF AreLayers, Drawable

(* The points that are drawn, next to those that were cut. *)
IsDrawn(q, p, height, fill, connect) ==
    /\ q.xval = p.xval /\ q.yval = Evaluated(p.yval, connect) /\ q.ext = p.ext /\ q.idx = p.idx
    /\ fill # "off" => q.stacked = height

(* The layout and the stack keep the rest of a point. *)
LEMMA DrawnPoint ==
    ASSUME NEW x, NEW y, NEW e, NEW n, NEW height, NEW fill, NEW connect, NEW q,
           q = IF fill = "off" THEN [xval |-> x, yval |-> y, ext |-> e, idx |-> n]
               ELSE [xval |-> x, yval |-> y, ext |-> e, idx |-> n, stacked |-> height]
    PROVE  IsDrawn([q EXCEPT !.yval = Evaluated(@, connect)], [xval |-> x, yval |-> y, ext |-> e, idx |-> n], height, fill, connect)
<1>1. PICK v : v = Evaluated(q.yval, connect)
  OBVIOUS
<1>2. q.yval = y
  OBVIOUS
<1>3. CASE fill = "off"
  <2>1. [q EXCEPT !.yval = v] = [xval |-> x, yval |-> v, ext |-> e, idx |-> n]
    BY <1>3
  <2> QED
    BY <1>1, <1>2, <1>3, <2>1 DEF IsDrawn
<1>4. CASE fill # "off"
  <2>1. [q EXCEPT !.yval = v] = [xval |-> x, yval |-> v, ext |-> e, idx |-> n, stacked |-> height]
    BY <1>4
  <2> QED
    BY <1>1, <1>2, <1>4, <2>1 DEF IsDrawn
<1> QED
  BY <1>3, <1>4

(* Every point of a picture, next to the one that was cut. *)
LEMMA DrawnPoints ==
    ASSUME NEW mode, NEW series, NEW w, NEW shown, Drawable(mode, series, shown), NEW fill, NEW connect, NEW g,
           g = evaluate(gatherDatasets(mode, series, w, shown, fill), connect), NEW pts, pts = CutPoints(series, w, shown)
    PROVE  /\ DOMAIN g.points = shown
           /\ \A c \in shown :
                 /\ DOMAIN g.points[c] = DOMAIN pts[c]
                 /\ \A i \in DOMAIN pts[c] :
                       IsDrawn(g.points[c][i], pts[c][i], HeightAbove(pts, c - 1, pts[c][i].xval, fill), fill, connect)
<1>1. PICK points : points = IF fill = "off" THEN pts ELSE StackedOnes(pts, shown, fill)
  OBVIOUS
<1>2. PICK h : h = gatherDatasets(mode, series, w, shown, fill)
  OBVIOUS
<1>3. h.points = points
  <2>1. \E extremes : h = [points |-> points, extremes |-> extremes, boundaryIds |-> Bounds(series, w, shown)]
    BY <1>1, <1>2, Gathered DEF Drawable
  <2> QED
    BY <2>1
<1>4. DOMAIN pts = shown /\ AreLayers(mode, pts)
  BY CutLayers
<1>5. DOMAIN points = shown
  BY <1>1, <1>4 DEF StackedOnes
<1>6. g.points = [c \in DOMAIN points |-> [i \in DOMAIN points[c] |-> [points[c][i] EXCEPT !.yval = Evaluated(@, connect)]]]
  BY <1>2, <1>3 DEF evaluate
<1>7. ASSUME NEW c \in shown
      PROVE  /\ DOMAIN g.points[c] = DOMAIN pts[c]
             /\ \A i \in DOMAIN pts[c] :
                   IsDrawn(g.points[c][i], pts[c][i], HeightAbove(pts, c - 1, pts[c][i].xval, fill), fill, connect)
  <2>1. points[c] = IF fill = "off" THEN pts[c]
                    ELSE [i \in DOMAIN pts[c] |-> Heightened(pts[c][i], HeightAbove(pts, c - 1, pts[c][i].xval, fill))]
    <3>1. CASE fill = "off"
      BY <1>1, <3>1
    <3>2. CASE fill # "off"
      <4>1. points[c] = stackPoints(pts[c], LayersBelow(pts, fill)[c], fill).points
        BY <1>1, <3>2 DEF StackedOnes
      <4>2. stackPoints(pts[c], LayersBelow(pts, fill)[c], fill).points
              = [i \in DOMAIN pts[c] |-> Heightened(pts[c][i], HeightAbove(pts, c - 1, pts[c][i].xval, fill))]
        BY <1>4, StackIs
      <4> QED
        BY <3>2, <4>1, <4>2
    <3> QED
      BY <3>1, <3>2
  <2>2. DOMAIN points[c] = DOMAIN pts[c]
    BY <2>1
  <2>3. g.points[c] = [i \in DOMAIN pts[c] |-> [points[c][i] EXCEPT !.yval = Evaluated(@, connect)]]
    BY <1>5, <1>6, <2>2
  <2>4. ASSUME NEW i \in DOMAIN pts[c]
        PROVE  IsDrawn(g.points[c][i], pts[c][i], HeightAbove(pts, c - 1, pts[c][i].xval, fill), fill, connect)
    <3>1. PICK x, y, e, n : pts[c][i] = [xval |-> x, yval |-> y, ext |-> e, idx |-> n]
      <4>1. IsCutLayer(mode, series[c], w, pts[c])
        BY CutLayers
      <4>2. PICK cut, b : pts[c] = seriesToPoints(cut, b)
        BY <4>1 DEF IsCutLayer
      <4>3. pts[c] = [k \in DOMAIN cut |-> [xval |-> cut[k].x, yval |-> cut[k].y, ext |-> cut[k].ext, idx |-> k + b - 1]]
        BY <4>2 DEF seriesToPoints
      <4>4. i \in DOMAIN cut
        BY <4>3
      <4>5. pts[c][i] = [xval |-> cut[i].x, yval |-> cut[i].y, ext |-> cut[i].ext, idx |-> i + b - 1]
        BY <4>3, <4>4
      <4> QED
        BY <4>5
    <3>2. PICK height : height = HeightAbove(pts, c - 1, pts[c][i].xval, fill)
      OBVIOUS
    <3>3. PICK q : q = points[c][i]
      OBVIOUS
    <3>4. q = IF fill = "off" THEN [xval |-> x, yval |-> y, ext |-> e, idx |-> n]
              ELSE [xval |-> x, yval |-> y, ext |-> e, idx |-> n, stacked |-> height]
      BY <2>1, <3>1, <3>2, <3>3 DEF Heightened
    <3>5. IsDrawn([q EXCEPT !.yval = Evaluated(@, connect)], [xval |-> x, yval |-> y, ext |-> e, idx |-> n], height, fill, connect)
      BY <3>4, DrawnPoint
    <3>6. g.points[c][i] = [q EXCEPT !.yval = Evaluated(@, connect)]
      BY <2>3, <3>3
    <3> QED
      BY <3>1, <3>2, <3>5, <3>6
  <2> QED
    BY <2>3, <2>4
<1>8. DOMAIN g.points = shown
  BY <1>5, <1>6
<1> QED
  BY <1>7, <1>8

(* The picture of a state, made of series that can be drawn. *)
IsPicture(series, w, shown) ==
    /\ Drawable(file.mode, series, shown)
    /\ packed = evaluate(gatherDatasets(file.mode, series, w, shown, file.fill), file.connect)
    /\ valueRange = computeYAxisRange(packed.extremes, file.zero, file.mode.log)

(* A series that was rolled can be drawn. *)
LEMMA RolledSeriesAreDrawable ==
    ASSUME NEW mode, NEW rows, IsTable(rows), InTime(rows), IsData(mode, rows), NEW period \in Int \cup {Fraction},
           rolled(mode, rows, period) # <<>>, NEW c \in Columns
    PROVE  IsRolled(mode, rolled(mode, rows, period)[c])
<1>1. PICK s, q : s = extractSeries(mode, rows, c) /\ q = rolled(mode, rows, period)[c]
  OBVIOUS
<1>2. SameTimes(s, rows) /\ IsTable(s) /\ Len(s) = Len(rows)
  <2>1. SameTimes(s, rows)
    BY <1>1, SeriesKeepTheTimes
  <2> QED
    BY <2>1, SameTable
<1>3. PICK period2 : period2 = WholePeriod(period)
  OBVIOUS
<1>4. q = IF period2 > 1 THEN rollingAverage(mode, s, period2) ELSE s
  BY <1>1, <1>3 DEF rolled
<1>5. SameTimes(q, s) /\ IsTable(q) /\ Len(q) = Len(s)
  <2>1. s = [i \in DOMAIN s |-> s[i]]
    BY <1>2 DEF SameTimes
  <2>2. SameTimes(rollingAverage(mode, s, period2), s)
    BY <2>1, RollingKeepsTheTimes
  <2>3. SameTimes(s, s)
    BY <2>1 DEF SameTimes
  <2>4. SameTimes(q, s)
    BY <1>4, <2>2, <2>3
  <2> QED
    BY <1>2, <2>4, SameTable
<1>6. \A i \in 1 .. Len(q) : RolledFacts(mode, q[i])
  BY <1>1, <1>2, <1>5, RolledIs
<1>7. InTime(q)
  <2>1. DOMAIN s = 1 .. Len(s) /\ DOMAIN rows = 1 .. Len(rows)
    BY <1>2 DEF IsTable
  <2>2. \A i \in 1 .. Len(q) : q[i].x = rows[i].x
    BY <1>2, <1>5, <2>1 DEF SameTimes
  <2> QED
    BY <1>2, <1>5, <2>2 DEF InTime
<1> QED
  BY <1>1, <1>5, <1>6, <1>7 DEF IsRolled

(* The picture of every state is empty or made of series that can be drawn. *)
LEMMA PictureIsMade ==
    ASSUME ChartInv, MadeInv
    PROVE  \/ packed = Nothing /\ valueRange = <<>>
           \/ \E series, w, shown : IsPicture(series, w, shown)
<1>1. SUFFICES ASSUME ~ (packed = Nothing /\ valueRange = <<>>)
               PROVE  \E series, w, shown : IsPicture(series, w, shown)
  OBVIOUS
<1>2. PICK f \in Files : f = file
  BY DEF ChartInv, DataInv
<1>3. PICK rows : rows = parseCSV(f.lines)
  OBVIOUS
<1>4. IsTable(rows) /\ InTime(rows) /\ IsData(f.mode, rows)
  BY <1>3, DataAreInTime, DataAreRead
<1>5. PICK period \in Rolls, w \in Windows \cup {<<>>}, shown \in SUBSET Columns :
         \E series \in {<<>>, rolled(f.mode, rows, period)} : IsMade(packed, valueRange, f, series, w, shown)
  BY <1>1, <1>2, <1>3 DEF MadeInv
<1>6. PICK series \in {<<>>, rolled(f.mode, rows, period)} : IsMade(packed, valueRange, f, series, w, shown)
  BY <1>5
<1>7. PICK cols : cols = shown \cap DOMAIN series
  OBVIOUS
<1>8. gatherDatasets(f.mode, series, w, shown, f.fill) = gatherDatasets(f.mode, series, w, cols, f.fill)
  <2>1. cols = cols \cap DOMAIN series
    BY <1>7
  <2>2. PICK mode, fill : mode = f.mode /\ fill = f.fill
    OBVIOUS
  <2>3. gatherDatasets(mode, series, w, shown, fill) = GatheredOf(mode, series, w, cols, fill)
    BY <1>7, GatheredIs
  <2>4. gatherDatasets(mode, series, w, cols, fill) = GatheredOf(mode, series, w, cols, fill)
    BY <2>1, GatheredIs
  <2> QED
    BY <2>2, <2>3, <2>4
<1>9. Drawable(f.mode, series, cols)
  <2>1. cols \subseteq DOMAIN series /\ cols \in SUBSET Columns
    BY <1>7
  <2>2. IsFiniteSet(cols) /\ cols \subseteq Nat \ {0}
    BY <2>1, FS_Subset, ChartAssumption
  <2>3. ASSUME NEW c \in cols PROVE IsRolled(f.mode, series[c])
    <3>1. series # <<>>
      <4>1. DOMAIN <<>> = {}
        OBVIOUS
      <4> QED
        BY <2>1, <4>1
    <3>2. series = rolled(f.mode, rows, period) /\ rolled(f.mode, rows, period) # <<>>
      BY <3>1
    <3>3. period \in Int \cup {Fraction} /\ c \in Columns
      BY <2>1, ChartAssumption
    <3> QED
      BY <1>4, <3>2, <3>3, RolledSeriesAreDrawable
  <2> QED
    BY <2>1, <2>2, <2>3 DEF Drawable
<1>10. IsPicture(series, w, cols)
  BY <1>2, <1>6, <1>8, <1>9 DEF IsMade, IsPicture
<1> QED
  BY <1>10

-----------------------------------------------------------------------------
(* The heights of a stacked chart.                                         *)

(* The drawn points of an x, and the first of them. *)
DrawnAt(points, x) == {q \in {points[k] : k \in DOMAIN points} : q.xval = x}
FirstDrawn(points, x) == CHOOSE q \in DrawnAt(points, x) : \A r \in DrawnAt(points, x) : q.idx <= r.idx

FirstValues(points, T, x) == [d \in T |-> FirstDrawn(points[d], x).yval]

AreDrawn(points, p, h, fill, connect) ==
    DOMAIN points = DOMAIN p /\ \A i \in DOMAIN p : IsDrawn(points[i], p[i], h[p[i].xval], fill, connect)
FromOn(points, c) == {d \in DOMAIN points : d > c} \cup {c}
KnownAt(points, T, x) == \A d \in T : DrawnAt(points[d], x) # {} /\ ~ Missing(FirstDrawn(points[d], x).yval)

(* Of a cut series, the first drawn point of an x is the first point of that x. *)
LEMMA FirstIsDrawn ==
    ASSUME NEW mode, NEW s, NEW w, NEW p, IsCutLayer(mode, s, w, p), NEW fill, NEW connect,
           NEW points, NEW h, AreDrawn(points, p, h, fill, connect), NEW x
    PROVE  /\ IsLayer(mode, p)
           /\ x \in Xs(p) <=> DrawnAt(points, x) # {}
           /\ x \in Xs(p) => /\ FirstDrawn(points, x) = points[FirstOf(p, x)] /\ FirstOf(p, x) \in DOMAIN p
                             /\ FirstDrawn(points, x).yval = Evaluated(p[FirstOf(p, x)].yval, connect)
<1>1. PICK cut, b : b \in Int /\ p = seriesToPoints(cut, b) /\ IsRolled(mode, cut)
  BY DEF IsCutLayer
<1>2. PICK n \in Nat : n = Len(p) /\ DOMAIN p = 1 .. n /\ IsLayer(mode, p) /\ \A i \in 1 .. n : p[i].idx = i + b - 1
  <2>1. IsLayer(mode, p) /\ Len(p) = Len(cut)
    BY <1>1, LayerOf
  <2>2. \A i \in 1 .. Len(cut) : p[i].idx = i + b - 1
    BY <1>1, LayerOf
  <2> QED
    BY <2>1, <2>2 DEF IsLayer
<1>3. ASSUME NEW i \in 1 .. n
      PROVE  points[i].xval = p[i].xval /\ points[i].idx = i + b - 1 /\ points[i].yval = Evaluated(p[i].yval, connect)
  <2>1. IsDrawn(points[i], p[i], h[p[i].xval], fill, connect)
    BY <1>2 DEF AreDrawn
  <2> QED
    BY <1>2, <2>1 DEF IsDrawn
<1>4. x \in Xs(p) <=> DrawnAt(points, x) # {}
  BY <1>2, <1>3 DEF Xs, DrawnAt, AreDrawn
<1>5. ASSUME x \in Xs(p)
      PROVE  /\ FirstDrawn(points, x) = points[FirstOf(p, x)] /\ FirstOf(p, x) \in DOMAIN p
             /\ FirstDrawn(points, x).yval = Evaluated(p[FirstOf(p, x)].yval, connect)
  <2>1. PICK f \in 1 .. n : f = FirstOf(p, x) /\ p[f].xval = x /\ \A j \in 1 .. n : p[j].xval = x => f <= j
    BY <1>2, <1>5, FirstIs
  <2> DEFINE Q == DrawnAt(points, x)
  <2>2. points[f] \in Q
    BY <1>2, <1>3, <2>1 DEF DrawnAt, AreDrawn
  <2>3. \A r \in Q : \E k \in 1 .. n : r = points[k] /\ p[k].xval = x /\ r.idx = k + b - 1 /\ f <= k
    BY <1>2, <1>3, <2>1 DEF DrawnAt, AreDrawn
  <2>4. points[f].idx = f + b - 1
    BY <1>3
  <2>5. \A r \in Q : points[f].idx <= r.idx
    BY <1>1, <2>3, <2>4
  <2> HIDE DEF Q
  <2>6. ASSUME NEW q \in Q, \A r \in Q : q.idx <= r.idx PROVE q = points[f]
    <3>1. PICK k \in 1 .. n : q = points[k] /\ q.idx = k + b - 1 /\ f <= k
      BY <2>3
    <3>2. q.idx <= f + b - 1
      BY <2>2, <2>4, <2>6
    <3> QED
      BY <1>1, <3>1, <3>2
  <2>7. (CHOOSE q \in Q : \A r \in Q : q.idx <= r.idx) = points[f]
    BY <2>2, <2>5, <2>6
  <2>8. FirstDrawn(points, x) = points[f]
    BY <2>7 DEF FirstDrawn, Q
  <2> QED
    BY <1>2, <1>3, <2>1, <2>8
<1> QED
  BY <1>2, <1>4, <1>5

(* Where a value was drawn for a missing one, it is still missing. *)
LEMMA EvaluatedIs ==
    ASSUME NEW y \in Value, NEW connect
    PROVE  ~ Missing(Evaluated(y, connect)) => ~ Missing(y) /\ Evaluated(y, connect) = y /\ y \in Int
BY ValueIs DEF Evaluated, Missing

(* The height of a drawn point: the sum of the first values at its x, where all are known. *)
LEMMA HeightOfThePicture ==
    ASSUME NEW mode, NEW series, NEW w, NEW shown, Drawable(mode, series, shown), NEW fill, NEW connect, fill # "off",
           NEW g, g = evaluate(gatherDatasets(mode, series, w, shown, fill), connect),
           NEW c \in DOMAIN g.points, NEW i \in DOMAIN g.points[c], NEW x, x = g.points[c][i].xval,
           NEW T, T = FromOn(g.points, c), KnownAt(g.points, T, x)
    PROVE  g.points[c][i].stacked = SumFunction(FirstValues(g.points, T, x))
<1>1. PICK pts : pts = CutPoints(series, w, shown)
  OBVIOUS
<1>2. /\ DOMAIN pts = shown /\ AreLayers(mode, pts)
      /\ \A d \in shown : IsCutLayer(mode, series[d], w, pts[d])
  BY <1>1, CutLayers
<1>3. /\ DOMAIN g.points = shown
      /\ \A d \in shown :
            /\ DOMAIN g.points[d] = DOMAIN pts[d]
            /\ \A k \in DOMAIN pts[d] :
                  IsDrawn(g.points[d][k], pts[d][k], HeightAbove(pts, d - 1, pts[d][k].xval, fill), fill, connect)
  BY <1>1, DrawnPoints
<1>4. shown \subseteq Nat \ {0} /\ IsFiniteSet(shown)
  BY DEF Drawable
<1>5. g.points[c][i].stacked = HeightAbove(pts, c - 1, x, fill)
  <2>1. c \in shown /\ i \in DOMAIN pts[c]
    BY <1>3
  <2>2. IsDrawn(g.points[c][i], pts[c][i], HeightAbove(pts, c - 1, pts[c][i].xval, fill), fill, connect)
    BY <1>3, <2>1
  <2>3. PICK q, z : q = g.points[c][i] /\ z = pts[c][i].xval
    OBVIOUS
  <2>4. q.stacked = HeightAbove(pts, c - 1, z, fill) /\ q.xval = z
    BY <2>2, <2>3 DEF IsDrawn
  <2> QED
    BY <2>3, <2>4
<1>6. ASSUME NEW d \in T
      PROVE  /\ d \in shown /\ x \in Xs(pts[d])
             /\ HeightAt(pts[d], x, fill) = FirstDrawn(g.points[d], x).yval /\ HeightAt(pts[d], x, fill) \in Int
  <2>1. d \in shown
    BY <1>3 DEF FromOn
  <2>2. PICK p, points, s : p = pts[d] /\ points = g.points[d] /\ s = series[d]
    OBVIOUS
  <2>3. IsCutLayer(mode, s, w, p) /\ DOMAIN points = DOMAIN p /\ DrawnAt(points, x) # {} /\ ~ Missing(FirstDrawn(points, x).yval)
    BY <1>2, <1>3, <2>1, <2>2 DEF KnownAt
  <2>4. PICK h : h = [z \in Xs(p) |-> HeightAbove(pts, d - 1, z, fill)]
    OBVIOUS
  <2>5. ASSUME NEW k \in DOMAIN p PROVE IsDrawn(points[k], p[k], h[p[k].xval], fill, connect)
    <3>1. p[k].xval \in Xs(p)
      BY DEF Xs
    <3>2. h[p[k].xval] = HeightAbove(pts, d - 1, p[k].xval, fill)
      BY <2>4, <3>1
    <3> QED
      BY <1>3, <2>1, <2>2, <3>2
  <2>6. /\ IsLayer(mode, p) /\ x \in Xs(p)
        /\ FirstOf(p, x) \in DOMAIN p /\ FirstDrawn(points, x).yval = Evaluated(p[FirstOf(p, x)].yval, connect)
    <3>1. AreDrawn(points, p, h, fill, connect)
      BY <2>3, <2>5 DEF AreDrawn
    <3> QED
      BY <2>3, <3>1, FirstIsDrawn
  <2>7. PICK y : y = p[FirstOf(p, x)].yval
    OBVIOUS
  <2>8. y \in Value
    BY <2>6, <2>7 DEF IsLayer, PointOf
  <2>9. ~ Missing(y) /\ FirstDrawn(points, x).yval = y /\ y \in Int
    BY <2>3, <2>6, <2>7, <2>8, EvaluatedIs
  <2>10. HeightAt(p, x, fill) = y
    BY <2>6, <2>7, <2>9, HeightIs
  <2> QED
    BY <2>1, <2>2, <2>6, <2>9, <2>10
<1>7. Above(pts, c - 1, x) = T
  <2>1. \A d \in shown : d > c - 1 <=> d > c \/ d = c
    BY <1>3, <1>4
  <2> QED
    BY <1>2, <1>3, <1>6, <2>1 DEF Above, FromOn
<1>8. IsFiniteSet(T)
  <2>1. T \in SUBSET shown
    BY <1>6
  <2> QED
    BY <1>4, <2>1, FS_Subset
<1> DEFINE u == Heights(pts, x, fill)
           v == FirstValues(g.points, T, x)
<1>9. \A d \in T : u[d] \in Int /\ u[d] = v[d]
  BY <1>2, <1>6 DEF Heights, FirstValues
<1>10. DOMAIN v = T
  BY DEF FirstValues
<1> HIDE DEF u, v
<1>11. SumFunctionOnSet(u, T) = SumFunctionOnSet(v, T)
  BY <1>8, <1>9, SumOfTheSame
<1>12. SumFunction(v) = SumFunctionOnSet(v, T)
  BY <1>10, SumFunctionIs
<1> QED
  BY <1>5, <1>7, <1>11, <1>12 DEF HeightAbove, u, v

(* stackPoints_, gatherDatasets_: whatever series are stacked, and however a missing value of another x is filled *)
(* in, the height of a point is the sum of the values of its x from its series on, where they are all known: what  *)
(* is kept of the series below is complete, and of the rows of one x only the first is counted.                    *)
THEOREM StackIsAlwaysTheSum == Spec => []StackIsTheSum
<1>1. ChartInv /\ MadeInv => StackIsTheSum
  <2> DEFINE p(c, i) == packed.points[c][i]
             others(c) == {d \in DOMAIN packed.points : d > c}
             firsts(c, i, d) == {q \in {packed.points[d][k] : k \in DOMAIN packed.points[d]} : q.xval = p(c, i).xval}
             first(c, i, d) == CHOOSE q \in firsts(c, i, d) : \A r \in firsts(c, i, d) : q.idx <= r.idx
  <2> SUFFICES ASSUME ChartInv, MadeInv, file.fill # "off",
                      NEW c \in DOMAIN packed.points, NEW i \in DOMAIN packed.points[c],
                      \A d \in others(c) \cup {c} : firsts(c, i, d) # {} /\ ~ Missing(first(c, i, d).yval)
               PROVE  p(c, i).stacked = SumFunction([d \in others(c) \cup {c} |-> first(c, i, d).yval])
    BY Zenon DEF StackIsTheSum
  <2>1. PICK x, T : x = p(c, i).xval /\ T = others(c) \cup {c}
    OBVIOUS
  <2>2. \A d : firsts(c, i, d) = DrawnAt(packed.points[d], x)
    BY <2>1 DEF DrawnAt
  <2> HIDE DEF firsts
  <2>3. \A d : first(c, i, d) = FirstDrawn(packed.points[d], x)
    BY <2>2 DEF FirstDrawn
  <2> HIDE DEF first
  <2>4. PICK series, w, shown : IsPicture(series, w, shown)
    <3>1. packed # Nothing
      <4>1. ASSUME packed = Nothing PROVE FALSE
        <5>1. DOMAIN packed.points = {}
          BY <4>1 DEF Nothing
        <5> QED
          BY <5>1
      <4> QED
        BY <4>1
    <3> QED
      BY <3>1, PictureIsMade
  <2>5. PICK g, mode, fill, connect : g = packed /\ mode = file.mode /\ fill = file.fill /\ connect = file.connect
    OBVIOUS
  <2>6. Drawable(mode, series, shown) /\ g = evaluate(gatherDatasets(mode, series, w, shown, fill), connect)
    BY <2>4, <2>5 DEF IsPicture
  <2>7. /\ T = FromOn(g.points, c) /\ x = g.points[c][i].xval /\ fill # "off"
       /\ c \in DOMAIN g.points /\ i \in DOMAIN g.points[c]
    BY <2>1, <2>5 DEF FromOn
  <2>8. KnownAt(g.points, T, x)
    BY <2>1, <2>2, <2>3, <2>5 DEF KnownAt
  <2>9. g.points[c][i].stacked = SumFunction(FirstValues(g.points, T, x))
    BY <2>5, <2>6, <2>7, <2>8, HeightOfThePicture
  <2>10. FirstValues(g.points, T, x) = [d \in others(c) \cup {c} |-> first(c, i, d).yval]
    BY <2>1, <2>3, <2>5 DEF FirstValues
  <2> QED
    BY <2>5, <2>9, <2>10
<1> QED
  BY <1>1, ViewsAgree, PictureWasMade, PTL

-----------------------------------------------------------------------------
(* The extremes of a picture and the range of its axis.                    *)

(* The extremes of a column: numbers or null, in their order; null stands for zero, and the other one then lies *)
(* on its side of it.                                                                                           *)
IsExtreme(e) ==
    /\ e[1] \in Int \cup {Null} /\ e[2] \in Int \cup {Null}
    /\ e[1] \in Int /\ e[2] \in Int => e[1] <= e[2]
    /\ e[1] \in Int /\ e[2] = Null => e[1] < 0
    /\ e[1] = Null /\ e[2] \in Int => e[2] > 0
HoldsValue(e, v) == e[1] \in Int /\ e[2] \in Int /\ e[1] <= v /\ v <= e[2]
HoldsPoint(e, mode, y, ext) ==
    HoldsValue(e, y) /\ (mode.kind \in BarKinds => e[1] <= ext[1] /\ ext[2] <= e[2])

(* getExtremeYValues: every known value, and what its bar reaches, is held. *)
LEMMA MeasuredIs ==
    ASSUME NEW mode, NEW s, IsRolled(mode, s), NEW e, e = getExtremeYValues(mode, s)
    PROVE  /\ IsExtreme(e) /\ (e = <<Null, Null>> \/ (e[1] \in Int /\ e[2] \in Int))
           /\ \A i \in 1 .. Len(s) : ~ Missing(s[i].y) => HoldsPoint(e, mode, s[i].y, s[i].ext)
<1> DEFINE ok   == {i \in DOMAIN s : ~ Missing(s[i].y)}
           bars == mode.kind \in BarKinds
           low(i)  == IF bars /\ Num(s[i].ext[1]) < s[i].y THEN Num(s[i].ext[1]) ELSE s[i].y
           high(i) == IF bars /\ Num(s[i].ext[2]) > s[i].y THEN Num(s[i].ext[2]) ELSE s[i].y
           l == [i \in ok |-> low(i)]
           h == [i \in ok |-> high(i)]
           lows == {l[i] : i \in ok}
           highs == {h[i] : i \in ok}
<1>1. e = IF ok = {} THEN <<Null, Null>> ELSE << Min({low(i) : i \in ok}), Max({high(i) : i \in ok}) >>
  BY DEF getExtremeYValues
<1>2. DOMAIN s = 1 .. Len(s) /\ Len(s) \in Nat /\ \A i \in 1 .. Len(s) : RolledFacts(mode, s[i])
  BY DEF IsRolled, IsTable
<1>3. ok \subseteq 1 .. Len(s) /\ IsFiniteSet(ok)
  <2>1. ok \subseteq 1 .. Len(s)
    BY <1>2
  <2> HIDE DEF ok
  <2> QED
    BY <1>2, <2>1, PartOfInterval
<1>4. ASSUME NEW i \in ok
      PROVE  /\ s[i].y \in Int /\ low(i) \in Int /\ high(i) \in Int /\ low(i) <= s[i].y /\ s[i].y <= high(i)
             /\ bars => low(i) <= s[i].ext[1] /\ s[i].ext[2] <= high(i)
  <2>1. PICK y, a, b : y = s[i].y /\ a = s[i].ext[1] /\ b = s[i].ext[2]
    OBVIOUS
  <2>2. y \in Int
    BY <1>2, <2>1, ValueIs DEF RolledFacts
  <2>3. bars => a \in Int /\ b \in Int /\ Num(a) = a /\ Num(b) = b
    BY <1>2, <2>1, ValueIs DEF RolledFacts
  <2>4. /\ low(i) = IF bars /\ Num(a) < y THEN Num(a) ELSE y
        /\ high(i) = IF bars /\ Num(b) > y THEN Num(b) ELSE y
    BY <2>1
  <2> HIDE DEF bars, low, high
  <2> QED
    BY <2>1, <2>2, <2>3, <2>4
<1>5. e = IF ok = {} THEN <<Null, Null>> ELSE <<Min(lows), Max(highs)>>
  <2>1. {low(i) : i \in ok} = lows /\ {high(i) : i \in ok} = highs
    OBVIOUS
  <2> QED
    BY <1>1, <2>1, Zenon
<1>6. \A i \in ok : l[i] = low(i) /\ h[i] = high(i)
  OBVIOUS
<1>7. IsFiniteSet(lows) /\ IsFiniteSet(highs)
  <2> HIDE DEF ok, l, h
  <2> QED
    BY <1>3, FiniteRange
<1> HIDE DEF ok, bars, low, high, l, h
<1>8. CASE ok = {}
  <2>1. e = <<Null, Null>>
    BY <1>5, <1>8
  <2>2. IsExtreme(e)
    BY <2>1, ChartAssumption DEF IsExtreme
  <2>3. \A i \in 1 .. Len(s) : Missing(s[i].y)
    BY <1>2, <1>8 DEF ok
  <2> QED
    BY <2>1, <2>2, <2>3
<1>9. CASE ok # {}
  <2>1. lows \subseteq Int /\ highs \subseteq Int /\ lows # {} /\ highs # {}
    BY <1>4, <1>6, <1>9
  <2>2. e[1] = Min(lows) /\ e[2] = Max(highs)
    BY <1>5, <1>9
  <2> HIDE DEF lows, highs
  <2>3. e[1] \in lows /\ (\A k \in lows : e[1] <= k) /\ e[2] \in highs /\ (\A k \in highs : k <= e[2])
    <3>1. Min(lows) \in lows /\ \A k \in lows : Min(lows) <= k
      BY <1>7, <2>1, Extremes
    <3>2. Max(highs) \in highs /\ \A k \in highs : k <= Max(highs)
      BY <1>7, <2>1, Extremes
    <3> QED
      BY <2>2, <3>1, <3>2
  <2>4. e[1] \in Int /\ e[2] \in Int
    BY <2>1, <2>3
  <2>5. ASSUME NEW i \in ok PROVE e[1] <= low(i) /\ high(i) <= e[2]
    BY <1>6, <2>3 DEF lows, highs
  <2>6. ASSUME NEW i \in ok PROVE HoldsPoint(e, mode, s[i].y, s[i].ext) /\ e[1] <= e[2]
    <3>1. PICK y, ext, lo, hi : y = s[i].y /\ ext = s[i].ext /\ lo = low(i) /\ hi = high(i)
      OBVIOUS
    <3>2. /\ y \in Int /\ lo \in Int /\ hi \in Int /\ e[1] <= lo /\ hi <= e[2] /\ lo <= y /\ y <= hi
          /\ bars => lo <= ext[1] /\ ext[2] <= hi
      BY <1>4, <2>5, <3>1
    <3>3. bars => ext[1] \in Int /\ ext[2] \in Int
      <4>1. i \in 1 .. Len(s) /\ ~ Missing(y)
        BY <1>3, <3>1, <3>2, ValueIs
      <4> QED
        BY <1>2, <3>1, <4>1 DEF RolledFacts, bars
    <3>4. HoldsValue(e, y) /\ e[1] <= e[2]
      BY <2>4, <3>2 DEF HoldsValue
    <3>5. bars => e[1] <= ext[1] /\ ext[2] <= e[2]
      BY <2>4, <3>2, <3>3
    <3> QED
      BY <3>1, <3>4, <3>5 DEF HoldsPoint, bars
  <2>7. IsExtreme(e)
    <3>1. e[1] # Null /\ e[2] # Null
      BY <2>4, ChartAssumption
    <3> QED
      BY <1>9, <2>4, <2>6, <3>1 DEF IsExtreme
  <2>8. \A i \in 1 .. Len(s) : ~ Missing(s[i].y) => i \in ok
    BY <1>2 DEF ok
  <2> QED
    BY <2>4, <2>6, <2>7, <2>8
<1> QED
  BY <1>8, <1>9

IsMeasure(e) == IsExtreme(e) /\ (e = <<Null, Null>> \/ (e[1] \in Int /\ e[2] \in Int))
IsLevelled(f, e, ys) ==
    /\ IsExtreme(f)
    /\ e[1] \in Int => /\ f[1] \in Int /\ f[2] \in Int /\ f[1] <= e[1] /\ e[2] <= f[2]
                       /\ \A y \in ys : HoldsValue(f, y)
WithLevels(e, ys) == <<Lowered(e[1], ys), Raised(e[2], ys)>>

(* Where a chart is stacked the heights are held, too. *)
LEMMA LevelledIs ==
    ASSUME NEW e, IsMeasure(e), NEW ys, IsFiniteSet(ys), ys \subseteq Int, NEW f, f = WithLevels(e, ys)
    PROVE  IsLevelled(f, e, ys)
<1>0. IsExtreme(e) /\ (e = <<Null, Null>> \/ (e[1] \in Int /\ e[2] \in Int)) /\ f = <<Lowered(e[1], ys), Raised(e[2], ys)>>
  BY DEF IsMeasure, WithLevels
<1>1. Null \notin Int
  BY ChartAssumption
<1>2. ASSUME NEW v \in Int
      PROVE  /\ Min({v} \cup ys) \in {v} \cup ys /\ \A k \in {v} \cup ys : Min({v} \cup ys) <= k
             /\ Max({v} \cup ys) \in {v} \cup ys /\ \A k \in {v} \cup ys : k <= Max({v} \cup ys)
  <2> DEFINE S == {v} \cup ys
  <2>1. {v} \cup ys = ys \cup {v}
    OBVIOUS
  <2>2. S \subseteq Int /\ S # {} /\ IsFiniteSet(S)
    BY <2>1, FS_AddElement
  <2>3. Min(S) \in S /\ (\A k \in S : Min(S) <= k) /\ Max(S) \in S /\ (\A k \in S : k <= Max(S))
    <3> HIDE DEF S
    <3> QED
      BY <2>2, Extremes
  <2> QED
    BY <2>3
<1>3. CASE e = <<Null, Null>>
  <2>1. PICK a \in Int, b \in Int : a = Min({0} \cup ys) /\ b = Max({0} \cup ys) /\ a <= 0 /\ 0 <= b
    <3>1. PICK z \in Int : z = 0
      OBVIOUS
    <3>2. /\ Min({z} \cup ys) \in {z} \cup ys /\ Min({z} \cup ys) <= z
          /\ Max({z} \cup ys) \in {z} \cup ys /\ z <= Max({z} \cup ys)
      BY <1>2
    <3> QED
      BY <3>1, <3>2
  <2>2. f[1] = IF a = 0 THEN Null ELSE a
    BY <1>0, <1>3, <2>1, ValueIs DEF Lowered
  <2>3. f[2] = IF b = 0 THEN Null ELSE b
    BY <1>0, <1>3, <2>1, ValueIs DEF Raised
  <2> QED
    BY <1>1, <1>3, <2>1, <2>2, <2>3 DEF IsExtreme, IsLevelled
<1>4. CASE e[1] \in Int /\ e[2] \in Int
  <2>1. PICK a \in Int : /\ a = Min({e[1]} \cup ys) /\ a <= e[1] /\ \A y \in ys : a <= y
    BY <1>2, <1>4
  <2>2. PICK b \in Int : /\ b = Max({e[2]} \cup ys) /\ e[2] <= b /\ \A y \in ys : y <= b
    BY <1>2, <1>4
  <2>3. f[1] = a
    <3>1. PICK u \in Int : u = e[1] /\ Num(u) = u
      BY <1>4, ValueIs
    <3>2. Lowered(u, ys) = IF a = u THEN u ELSE a
      BY <2>1, <3>1 DEF Lowered
    <3> QED
      BY <1>0, <3>1, <3>2
  <2>4. f[2] = b
    <3>1. PICK u \in Int : u = e[2] /\ Num(u) = u
      BY <1>4, ValueIs
    <3>2. Raised(u, ys) = IF b = u THEN u ELSE b
      BY <2>2, <3>1 DEF Raised
    <3> QED
      BY <1>0, <3>1, <3>2
  <2>5. e[1] <= e[2]
    BY <1>0, <1>4 DEF IsExtreme
  <2>6. a <= b
    BY <1>4, <2>1, <2>2, <2>5
  <2> QED
    BY <1>1, <1>4, <2>1, <2>2, <2>3, <2>4, <2>6 DEF IsExtreme, HoldsValue, IsLevelled
<1> QED
  BY <1>0, <1>3, <1>4

Lows(extremes) == {extremes[c][1] : c \in DOMAIN extremes} \ {Null}
Highs(extremes) == {extremes[c][2] : c \in DOMAIN extremes} \ {Null}

(* The members of the range before the pad: the least and the largest of the extremes, or what stands for them. *)
LEMMA ExtremesAre ==
    ASSUME NEW extremes, IsFiniteSet(DOMAIN extremes), \A c \in DOMAIN extremes : IsExtreme(extremes[c])
    PROVE  /\ Lows(extremes) \subseteq Int /\ IsFiniteSet(Lows(extremes))
           /\ Highs(extremes) \subseteq Int /\ IsFiniteSet(Highs(extremes))
<1> DEFINE C == DOMAIN extremes
           l == [c \in C |-> extremes[c][1]]
           h == [c \in C |-> extremes[c][2]]
           ls == {l[c] : c \in C}
           hs == {h[c] : c \in C}
<1>1. Lows(extremes) = ls \ {Null} /\ Highs(extremes) = hs \ {Null}
  BY DEF Lows, Highs
<1>2. \A c \in C : l[c] \in Int \cup {Null} /\ h[c] \in Int \cup {Null}
  BY DEF IsExtreme
<1>3. ls \ {Null} \subseteq Int /\ hs \ {Null} \subseteq Int
  BY <1>2
<1>4. IsFiniteSet(ls) /\ IsFiniteSet(hs)
  <2> HIDE DEF l, h, C
  <2> QED
    BY FiniteRange DEF C
<1>5. ls \ {Null} \in SUBSET ls /\ hs \ {Null} \in SUBSET hs
  OBVIOUS
<1> HIDE DEF ls, hs
<1>6. IsFiniteSet(ls \ {Null}) /\ IsFiniteSet(hs \ {Null})
  BY <1>4, <1>5, FS_Subset
<1> QED
  BY <1>1, <1>3, <1>6

(* They are in their order, too. *)
LEMMA ExtremesInOrder ==
    ASSUME NEW extremes, IsFiniteSet(DOMAIN extremes), \A c \in DOMAIN extremes : IsExtreme(extremes[c])
    PROVE  /\ Lows(extremes) = {} /\ Highs(extremes) # {} => Max(Highs(extremes)) > 0
           /\ Lows(extremes) # {} /\ Highs(extremes) = {} => Min(Lows(extremes)) < 0
           /\ Lows(extremes) # {} /\ Highs(extremes) # {} => Min(Lows(extremes)) <= Max(Highs(extremes))
<1> DEFINE ls == Lows(extremes)
           hs == Highs(extremes)
<1>1. ls \subseteq Int /\ IsFiniteSet(ls) /\ hs \subseteq Int /\ IsFiniteSet(hs)
  BY ExtremesAre
<1>2. /\ \A v \in ls : \E c \in DOMAIN extremes : v = extremes[c][1]
      /\ \A v \in hs : \E c \in DOMAIN extremes : v = extremes[c][2]
  BY DEF Lows, Highs
<1>3. \A c \in DOMAIN extremes : /\ extremes[c][1] \in Int => extremes[c][1] \in ls
                                 /\ extremes[c][2] \in Int => extremes[c][2] \in hs
  BY ChartAssumption DEF Lows, Highs
<1> HIDE DEF ls, hs
<1>4. ls # {} => Min(ls) \in ls /\ Min(ls) \in Int /\ \A k \in ls : Min(ls) <= k
  BY <1>1, Extremes
<1>5. hs # {} => Max(hs) \in hs /\ Max(hs) \in Int /\ \A k \in hs : k <= Max(hs)
  BY <1>1, Extremes
<1>6. ASSUME ls # {}
      PROVE  hs = {} => Min(ls) < 0
  <2>1. PICK c \in DOMAIN extremes : Min(ls) = extremes[c][1]
    BY <1>2, <1>4, <1>6
  <2> QED
    BY <1>3, <1>4, <1>6, <2>1 DEF IsExtreme
<1>7. ASSUME hs # {}
      PROVE  ls = {} => Max(hs) > 0
  <2>1. PICK c \in DOMAIN extremes : Max(hs) = extremes[c][2]
    BY <1>2, <1>5, <1>7
  <2> QED
    BY <1>3, <1>5, <1>7, <2>1 DEF IsExtreme
<1>8. ASSUME ls # {}, hs # {}
      PROVE  Min(ls) <= Max(hs)
  <2>1. PICK c \in DOMAIN extremes : Min(ls) = extremes[c][1]
    BY <1>2, <1>4, <1>8
  <2>2. PICK d \in DOMAIN extremes : Max(hs) = extremes[d][2]
    BY <1>2, <1>5, <1>8
  <2>3. PICK a \in Int, b \in Int : a = Min(ls) /\ b = Max(hs)
    BY <1>4, <1>5, <1>8
  <2>4. CASE extremes[c][2] \in Int
    <3>1. PICK u \in Int : u = extremes[c][2]
      BY <2>4
    <3>2. a <= u
      BY <2>1, <2>3, <3>1 DEF IsExtreme
    <3>3. u <= b
      BY <1>3, <1>5, <1>8, <2>3, <3>1
    <3> QED
      BY <2>3, <3>2, <3>3
  <2>5. CASE extremes[d][1] \in Int
    <3>1. PICK u \in Int : u = extremes[d][1]
      BY <2>5
    <3>2. u <= b
      BY <2>2, <2>3, <3>1 DEF IsExtreme
    <3>3. a <= u
      BY <1>3, <1>4, <1>8, <2>3, <3>1
    <3> QED
      BY <2>3, <3>2, <3>3
  <2>6. CASE extremes[c][2] = Null /\ extremes[d][1] = Null
    <3>1. a < 0 /\ b > 0
      BY <2>1, <2>2, <2>3, <2>6 DEF IsExtreme
    <3> QED
      BY <2>3, <3>1
  <2> QED
    BY <2>4, <2>5, <2>6 DEF IsExtreme
<1> QED
  BY <1>6, <1>7, <1>8 DEF ls, hs

(* The pad of a range. *)
Padded(r, minY0, maxY0, log) ==
    LET flat  == maxY0 = minY0
        maxY  == IF flat /\ maxY0 = 0 THEN Unit ELSE maxY0
        span  == CASE ~ flat               -> maxY0 - minY0
                   [] flat /\ maxY0 # 0    -> Abs(maxY0)
                   [] OTHER                -> Unit
        low   == 10 * minY0 - span
        high  == 10 * maxY + span
    IN  r = IF log THEN <<10 * minY0, high>>
            ELSE << IF low < 0 /\ minY0 >= 0 THEN 0 ELSE low, IF high > 0 /\ maxY <= 0 THEN 0 ELSE high >>

(* A padded range is not empty and holds what it pads. *)
LEMMA PadIs ==
    ASSUME NEW a \in Int, NEW b \in Int, a <= b, NEW log, NEW r, Padded(r, a, b, log)
    PROVE  r[1] \in Int /\ r[2] \in Int /\ r[1] < r[2] /\ r[1] <= 10 * a /\ 10 * b <= r[2]
<1>1. Unit \in Int /\ Unit > 0
  BY ChartAssumption
<1>2. PICK maxY \in Int, span \in Int :
         /\ span > 0 /\ maxY >= b
         /\ maxY # b => b = 0 /\ a = 0 /\ maxY = Unit /\ span = Unit
         /\ maxY = b => (IF b = a THEN span = (IF b < 0 THEN -b ELSE b) ELSE span = b - a)
         /\ r = IF log THEN <<10 * a, 10 * maxY + span>>
                ELSE << IF 10 * a - span < 0 /\ a >= 0 THEN 0 ELSE 10 * a - span,
                        IF 10 * maxY + span > 0 /\ maxY <= 0 THEN 0 ELSE 10 * maxY + span >>
  <2> DEFINE flat  == b = a
             maxY  == IF flat /\ b = 0 THEN Unit ELSE b
             span  == CASE ~ flat           -> b - a
                        [] flat /\ b # 0    -> Abs(b)
                        [] OTHER            -> Unit
  <2>1. r = IF log THEN <<10 * a, 10 * maxY + span>>
            ELSE << IF 10 * a - span < 0 /\ a >= 0 THEN 0 ELSE 10 * a - span,
                    IF 10 * maxY + span > 0 /\ maxY <= 0 THEN 0 ELSE 10 * maxY + span >>
    BY DEF Padded
  <2>2. /\ maxY \in Int /\ span \in Int /\ span > 0 /\ maxY >= b
        /\ maxY # b => b = 0 /\ a = 0 /\ maxY = Unit /\ span = Unit
        /\ maxY = b => (IF b = a THEN span = (IF b < 0 THEN -b ELSE b) ELSE span = b - a)
    BY <1>1 DEF Abs
  <2> HIDE DEF maxY, span
  <2> QED
    BY <2>1, <2>2
<1>3. CASE log
  BY <1>1, <1>2, <1>3
<1>4. CASE ~ log
  <2>1. PICK low \in Int, high \in Int : low = 10 * a - span /\ high = 10 * maxY + span
    BY <1>2
  <2>2. r[1] = (IF low < 0 /\ a >= 0 THEN 0 ELSE low) /\ r[2] = (IF high > 0 /\ maxY <= 0 THEN 0 ELSE high)
    BY <1>2, <1>4, <2>1
  <2>3. r[1] \in Int /\ r[1] <= 10 * a
    BY <1>2, <2>1, <2>2
  <2>4. r[2] \in Int /\ 10 * maxY <= r[2]
    BY <1>2, <2>1, <2>2
  <2>5. CASE a < b
    BY <1>2, <2>3, <2>4, <2>5
  <2>6. CASE a = b /\ maxY # b
    BY <1>1, <1>2, <2>3, <2>4, <2>6
  <2>7. CASE a = b /\ maxY = b
    BY <1>2, <2>1, <2>2, <2>7
  <2> QED
    BY <1>2, <2>3, <2>4, <2>5, <2>6, <2>7
<1> QED
  BY <1>3, <1>4

(* computeYAxisRanges_: the range is not empty, and no extreme lies outside of it. *)
HoldsExtreme(r, e) == (e[1] \in Int => r[1] <= 10 * e[1]) /\ (e[2] \in Int => 10 * e[2] <= r[2])
(* So does the range of an axis. *)
LEMMA RangeIs ==
    ASSUME NEW extremes, IsFiniteSet(DOMAIN extremes), \A c \in DOMAIN extremes : IsExtreme(extremes[c]),
           NEW zero, NEW log, NEW r, r = computeYAxisRange(extremes, zero, log)
    PROVE  /\ r[1] \in Int /\ r[2] \in Int /\ r[1] < r[2]
           /\ \A c \in DOMAIN extremes : HoldsExtreme(r, extremes[c])
<1> DEFINE ls == Lows(extremes)
           hs == Highs(extremes)
           toZero == zero /\ ~ log
           minY0 == IF toZero /\ ls # {} /\ Min(ls) > 0 THEN 0 ELSE IF ls = {} THEN 0 ELSE Min(ls)
           maxY0 == IF toZero /\ (hs = {} \/ Max(hs) < 0) THEN 0 ELSE IF hs = {} THEN Unit ELSE Max(hs)
<1>1. Padded(r, minY0, maxY0, log)
  BY Zenon DEF computeYAxisRange, Padded, Lows, Highs
<1>2. ls \subseteq Int /\ IsFiniteSet(ls) /\ hs \subseteq Int /\ IsFiniteSet(hs)
  BY ExtremesAre
<1>3. /\ ls = {} /\ hs # {} => Max(hs) > 0
      /\ ls # {} /\ hs = {} => Min(ls) < 0
      /\ ls # {} /\ hs # {} => Min(ls) <= Max(hs)
  BY ExtremesInOrder
<1>4. \A c \in DOMAIN extremes : /\ extremes[c][1] \in Int => extremes[c][1] \in ls
                                 /\ extremes[c][2] \in Int => extremes[c][2] \in hs
  BY ChartAssumption DEF Lows, Highs
<1> HIDE DEF ls, hs
<1>5. ls # {} => Min(ls) \in Int /\ \A k \in ls : Min(ls) <= k
  BY <1>2, Extremes
<1>6. hs # {} => Max(hs) \in Int /\ \A k \in hs : k <= Max(hs)
  BY <1>2, Extremes
<1>7. Unit \in Int /\ Unit > 0
  BY ChartAssumption
<1>8. minY0 \in Int /\ \A k \in ls : minY0 <= k
  BY <1>2, <1>5
<1>9. maxY0 \in Int /\ \A k \in hs : k <= maxY0
  BY <1>2, <1>6, <1>7
<1>10. minY0 <= maxY0
  <2>1. CASE ls = {} /\ hs = {}
    BY <1>7, <2>1
  <2>2. CASE ls = {} /\ hs # {}
    BY <1>3, <1>6, <2>2
  <2>3. CASE ls # {} /\ hs = {}
    BY <1>3, <1>5, <1>7, <2>3
  <2>4. CASE ls # {} /\ hs # {}
    BY <1>3, <1>5, <1>6, <2>4
  <2> QED
    BY <2>1, <2>2, <2>3, <2>4
<1> HIDE DEF minY0, maxY0
<1>11. PICK a \in Int, b \in Int : a = minY0 /\ b = maxY0
  BY <1>8, <1>9
<1>12. r[1] \in Int /\ r[2] \in Int /\ r[1] < r[2] /\ r[1] <= 10 * a /\ 10 * b <= r[2]
  BY <1>1, <1>10, <1>11, PadIs
<1>13. ASSUME NEW c \in DOMAIN extremes PROVE HoldsExtreme(r, extremes[c])
  <2>1. PICK e : e = extremes[c]
    OBVIOUS
  <2>2. ASSUME e[1] \in Int PROVE r[1] <= 10 * e[1]
    <3>1. a <= e[1]
      BY <1>4, <1>8, <1>11, <2>1, <2>2
    <3> QED
      BY <1>12, <2>2, <3>1
  <2>3. ASSUME e[2] \in Int PROVE 10 * e[2] <= r[2]
    <3>1. e[2] <= b
      BY <1>4, <1>9, <1>11, <2>1, <2>3
    <3> QED
      BY <1>12, <2>3, <3>1
  <2> QED
    BY <2>1, <2>2, <2>3 DEF HoldsExtreme
<1> QED
  BY <1>12, <1>13

(* What a picture is drawn in: the extremes of its columns hold all its known points. *)
HoldsDrawn(e, mode, q, fill) ==
    ~ Missing(q.yval) =>
       /\ HoldsPoint(e, mode, q.yval, q.ext)
       /\ fill # "off" => HoldsValue(e, q.stacked)
PointIsNumbers(mode, q, fill) ==
    ~ Missing(q.yval) =>
       /\ q.yval \in Int
       /\ fill # "off" => q.stacked \in Int
       /\ mode.kind \in BarKinds => q.ext[1] \in Int /\ q.ext[2] \in Int
ColumnIsHeld(e, mode, points, fill) ==
    IsExtreme(e) /\ \A i \in DOMAIN points : HoldsDrawn(e, mode, points[i], fill) /\ PointIsNumbers(mode, points[i], fill)

(* The extremes of every column hold its points, its bars and its heights. *)
LEMMA ColumnsAreHeld ==
    ASSUME NEW mode, NEW series, NEW w, NEW shown, Drawable(mode, series, shown), NEW fill, NEW connect,
           NEW g, g = evaluate(gatherDatasets(mode, series, w, shown, fill), connect)
    PROVE  /\ DOMAIN g.extremes = shown /\ DOMAIN g.points = shown
           /\ \A c \in shown : ColumnIsHeld(g.extremes[c], mode, g.points[c], fill)
<1>1. PICK pts : pts = CutPoints(series, w, shown)
  OBVIOUS
<1>2. /\ DOMAIN pts = shown /\ AreLayers(mode, pts)
      /\ \A c \in shown : IsCutLayer(mode, series[c], w, pts[c])
  BY <1>1, CutLayers
<1>3. /\ DOMAIN g.points = shown
      /\ \A c \in shown :
            /\ DOMAIN g.points[c] = DOMAIN pts[c]
            /\ \A k \in DOMAIN pts[c] :
                  IsDrawn(g.points[c][k], pts[c][k], HeightAbove(pts, c - 1, pts[c][k].xval, fill), fill, connect)
  BY <1>1, DrawnPoints
<1>4. PICK extremes : extremes = IF fill = "off" THEN Measures(mode, series, w, shown) ELSE Extremes2(mode, series, w, shown, fill)
  OBVIOUS
<1>5. g.extremes = extremes
  <2>1. shown = shown \cap DOMAIN series
    BY DEF Drawable
  <2>2. PICK h : h = gatherDatasets(mode, series, w, shown, fill)
    OBVIOUS
  <2>3. h = GatheredOf(mode, series, w, shown, fill)
    BY <2>1, <2>2, GatheredIs
  <2>4. h.extremes = extremes
    BY <1>4, <2>3 DEF GatheredOf
  <2>5. g = evaluate(h, connect)
    BY <2>2
  <2> QED
    BY <2>4, <2>5 DEF evaluate
<1>6. DOMAIN extremes = shown
  BY <1>4 DEF Measures, Extremes2
<1>7. ASSUME NEW c \in shown PROVE ColumnIsHeld(extremes[c], mode, g.points[c], fill)
  <2>1. PICK p, s, cut : p = pts[c] /\ s = series[c] /\ cut = CutAt(s, w)
    OBVIOUS
  <2>2. PICK b : p = seriesToPoints(cut, b) /\ IsRolled(mode, cut)
    <3>1. IsCutLayer(mode, s, w, p)
      BY <1>2, <2>1
    <3> QED
      BY <2>1, <3>1 DEF IsCutLayer
  <2>3. PICK n \in Nat : n = Len(cut) /\ DOMAIN p = 1 .. n /\ IsLayer(mode, p)
    <3>1. IsLayer(mode, p) /\ Len(p) = Len(cut)
      BY <2>2, LayerOf
    <3> QED
      BY <3>1 DEF IsLayer
  <2>4. \A i \in 1 .. n : p[i].yval = cut[i].y /\ p[i].ext = cut[i].ext
    BY <2>2, <2>3, LayerOf
  <2>5. PICK e : e = getExtremeYValues(mode, cut)
    OBVIOUS
  <2>6. /\ IsExtreme(e) /\ (e = <<Null, Null>> \/ (e[1] \in Int /\ e[2] \in Int))
        /\ \A i \in 1 .. n : ~ Missing(cut[i].y) => HoldsPoint(e, mode, cut[i].y, cut[i].ext)
    BY <2>2, <2>3, <2>5, MeasuredIs
  <2>7. Measures(mode, series, w, shown)[c] = e
    BY <2>1, <2>5 DEF Measures
  <2>8. PICK points : points = g.points[c]
    OBVIOUS
  <2>9. PICK h : h = [z \in Xs(p) |-> HeightAbove(pts, c - 1, z, fill)]
    OBVIOUS
  <2>10. \A i \in 1 .. n : p[i].xval \in Xs(p) /\ h[p[i].xval] \in Int
    <3> SUFFICES ASSUME NEW i \in 1 .. n PROVE p[i].xval \in Xs(p) /\ h[p[i].xval] \in Int
      OBVIOUS
    <3>1. PICK z : z = p[i].xval /\ z \in Xs(p)
      BY <2>3 DEF Xs
    <3>2. HeightAbove(pts, c - 1, z, fill) \in Int
      BY <1>2, AboveIs
    <3> QED
      BY <2>9, <3>1, <3>2
  <2>11. DOMAIN points = 1 .. n /\ \A i \in 1 .. n : IsDrawn(points[i], p[i], h[p[i].xval], fill, connect)
    <3>1. \A i \in 1 .. n : h[p[i].xval] = HeightAbove(pts, c - 1, p[i].xval, fill)
      BY <2>9, <2>10
    <3> QED
      BY <1>3, <2>1, <2>3, <2>8, <3>1
  <2>12. ASSUME NEW i \in 1 .. n, ~ Missing(points[i].yval)
         PROVE  /\ HoldsPoint(e, mode, points[i].yval, points[i].ext) /\ points[i].yval \in Int
                /\ mode.kind \in BarKinds => points[i].ext[1] \in Int /\ points[i].ext[2] \in Int
    <3>1. PICK q, y : q = points[i] /\ y = p[i].yval
      OBVIOUS
    <3>2. q.yval = Evaluated(y, connect) /\ q.ext = p[i].ext
      BY <2>11, <3>1 DEF IsDrawn
    <3>3. PointOf(mode, p[i]) /\ y \in Value
      BY <2>3, <3>1 DEF IsLayer, PointOf
    <3>4. ~ Missing(y) /\ q.yval = y /\ y \in Int
      BY <2>12, <3>1, <3>2, <3>3, EvaluatedIs
    <3>5. HoldsPoint(e, mode, y, p[i].ext)
      BY <2>4, <2>6, <3>1, <3>4
    <3> QED
      BY <3>1, <3>2, <3>3, <3>4, <3>5 DEF PointOf
  <2>13. CASE fill = "off"
    <3>1. extremes[c] = e
      BY <1>4, <2>7, <2>13
    <3> QED
      BY <2>6, <2>8, <2>11, <2>12, <2>13, <3>1 DEF ColumnIsHeld, HoldsDrawn, PointIsNumbers
  <2>14. CASE fill # "off"
    <3>1. PICK ys : ys = {h[p[i].xval] : i \in 1 .. n}
      OBVIOUS
    <3>2. IsFiniteSet(ys) /\ ys \subseteq Int
      <4> DEFINE k == [i \in 1 .. n |-> h[p[i].xval]]
      <4>1. ys = {k[i] : i \in 1 .. n}
        BY <3>1
      <4>2. IsFiniteSet(1 .. n)
        BY FS_Interval
      <4>3. IsFiniteSet({k[i] : i \in 1 .. n})
        <5> HIDE DEF k
        <5> QED
          BY <4>2, FiniteRange
      <4> QED
        BY <2>10, <3>1, <4>1, <4>3
    <3>3. Levels(StackedOnes(pts, shown, fill), shown)[c] = ys
      <4>1. StackedOnes(pts, shown, fill)[c]
              = [i \in DOMAIN p |-> Heightened(p[i], HeightAbove(pts, c - 1, p[i].xval, fill))]
        BY <1>2, <2>1, StackIs DEF StackedOnes
      <4>2. PICK st : st = StackedOnes(pts, shown, fill)[c]
        OBVIOUS
      <4>3. DOMAIN st = 1 .. n /\ \A i \in 1 .. n : st[i].stacked = h[p[i].xval]
        BY <2>3, <2>9, <2>10, <4>1, <4>2 DEF Heightened
      <4>4. Levels(StackedOnes(pts, shown, fill), shown)[c] = {st[i].stacked : i \in DOMAIN st}
        BY <4>2 DEF Levels
      <4>5. {st[i].stacked : i \in DOMAIN st} = ys
        BY <3>1, <4>3
      <4> QED
        BY <4>4, <4>5
    <3>4. PICK f : f = WithLevels(e, ys)
      OBVIOUS
    <3>5. extremes[c] = f
      <4>1. extremes = Extremes2(mode, series, w, shown, fill)
        BY <1>4, <2>14
      <4>2. extremes[c] = <<Lowered(Measures(mode, series, w, shown)[c][1], Levels(StackedOnes(pts, shown, fill), shown)[c]),
                            Raised(Measures(mode, series, w, shown)[c][2], Levels(StackedOnes(pts, shown, fill), shown)[c])>>
        BY <1>1, <4>1 DEF Extremes2
      <4> QED
        BY <2>7, <3>3, <3>4, <4>2 DEF WithLevels
    <3>6. /\ IsExtreme(f)
          /\ e[1] \in Int => /\ f[1] \in Int /\ f[2] \in Int /\ f[1] <= e[1] /\ e[2] <= f[2]
                             /\ \A y \in ys : HoldsValue(f, y)
      <4>1. IsMeasure(e)
        BY <2>6 DEF IsMeasure
      <4>2. IsLevelled(f, e, ys)
        BY <3>2, <3>4, <4>1, LevelledIs
      <4> QED
        BY <4>2 DEF IsLevelled
    <3>7. ASSUME NEW i \in 1 .. n, ~ Missing(points[i].yval)
          PROVE  HoldsDrawn(f, mode, points[i], fill) /\ PointIsNumbers(mode, points[i], fill)
      <4>1. PICK q, v, a, z : q = points[i] /\ v = q.yval /\ a = q.ext /\ z = h[p[i].xval]
        OBVIOUS
      <4>2. /\ HoldsPoint(e, mode, v, a) /\ v \in Int
            /\ mode.kind \in BarKinds => a[1] \in Int /\ a[2] \in Int
        BY <2>12, <3>7, <4>1
      <4>3. e[1] \in Int /\ e[2] \in Int /\ e[1] <= v /\ v <= e[2]
        BY <4>2 DEF HoldsPoint, HoldsValue
      <4>4. f[1] \in Int /\ f[2] \in Int /\ f[1] <= e[1] /\ e[2] <= f[2] /\ HoldsValue(f, z)
        BY <3>1, <3>6, <4>1, <4>3
      <4>5. HoldsValue(f, v)
        BY <4>2, <4>3, <4>4 DEF HoldsValue
      <4>6. mode.kind \in BarKinds => f[1] <= a[1] /\ a[2] <= f[2]
        <5>1. mode.kind \in BarKinds => e[1] <= a[1] /\ a[2] <= e[2]
          BY <4>2 DEF HoldsPoint
        <5> QED
          BY <4>2, <4>3, <4>4, <5>1
      <4>7. q.stacked = z /\ z \in Int
        BY <2>10, <2>11, <2>14, <4>1 DEF IsDrawn
      <4> QED
        BY <4>1, <4>2, <4>4, <4>5, <4>6, <4>7 DEF HoldsDrawn, PointIsNumbers, HoldsPoint
    <3>8. \A i \in 1 .. n : HoldsDrawn(f, mode, points[i], fill) /\ PointIsNumbers(mode, points[i], fill)
      BY <3>7 DEF HoldsDrawn, PointIsNumbers
    <3> QED
      <4>1. ColumnIsHeld(f, mode, points, fill)
        BY <2>11, <3>6, <3>8 DEF ColumnIsHeld
      <4> QED
        BY <2>8, <3>5, <4>1
  <2> QED
    BY <2>13, <2>14
<1> QED
  BY <1>3, <1>5, <1>6, <1>7

(* computeYAxisRanges_, getExtremeYValues, gatherDatasets_: whatever the file, the roll period, the window and the *)
(* series shown, no known value, no end of a bar and no height of a stack is drawn outside of the y-axis, and the  *)
(* axis has a length: for one value, for none, for zeros and on a logarithmic scale, too.                          *)
THEOREM RangeAlwaysHoldsThePicture == Spec => []RangeHoldsThePicture
<1>1. ChartInv /\ MadeInv => RangeHoldsThePicture
  <2> SUFFICES ASSUME ChartInv, MadeInv, valueRange # <<>> PROVE RangeHoldsThePicture
    BY DEF RangeHoldsThePicture
  <2>1. PICK series, w, shown : IsPicture(series, w, shown)
    BY PictureIsMade
  <2>2. PICK g, mode, fill, connect, zero, r :
           g = packed /\ mode = file.mode /\ fill = file.fill /\ connect = file.connect /\ zero = file.zero /\ r = valueRange
    OBVIOUS
  <2>3. /\ Drawable(mode, series, shown) /\ g = evaluate(gatherDatasets(mode, series, w, shown, fill), connect)
        /\ r = computeYAxisRange(g.extremes, zero, mode.log)
    BY <2>1, <2>2 DEF IsPicture
  <2>4. PICK extremes, log : extremes = g.extremes /\ log = mode.log
    OBVIOUS
  <2>5. /\ DOMAIN extremes = shown /\ DOMAIN g.points = shown
        /\ \A c \in shown : ColumnIsHeld(extremes[c], mode, g.points[c], fill)
    BY <2>3, <2>4, ColumnsAreHeld
  <2>6. /\ r[1] \in Int /\ r[2] \in Int /\ r[1] < r[2]
        /\ \A c \in DOMAIN extremes : HoldsExtreme(r, extremes[c])
    <3>1. IsFiniteSet(DOMAIN extremes) /\ \A c \in DOMAIN extremes : IsExtreme(extremes[c])
      BY <2>3, <2>5 DEF Drawable, ColumnIsHeld
    <3>2. r = computeYAxisRange(extremes, zero, log)
      BY <2>3, <2>4
    <3> QED
      BY <3>1, <3>2, RangeIs
  <2>7. ASSUME NEW c \in DOMAIN g.points, NEW i \in DOMAIN g.points[c], ~ Missing(g.points[c][i].yval)
        PROVE  /\ InRange(g.points[c][i].yval)
               /\ fill # "off" => InRange(g.points[c][i].stacked)
               /\ mode.kind \in BarKinds => /\ valueRange[1] <= 10 * g.points[c][i].ext[1]
                                            /\ 10 * g.points[c][i].ext[2] <= valueRange[2]
    <3>1. PICK q, e : q = g.points[c][i] /\ e = extremes[c]
      OBVIOUS
    <3>2. HoldsDrawn(e, mode, q, fill) /\ PointIsNumbers(mode, q, fill) /\ HoldsExtreme(r, e)
      BY <2>5, <2>6, <3>1 DEF ColumnIsHeld
    <3>3. /\ HoldsValue(e, q.yval) /\ (fill # "off" => HoldsValue(e, q.stacked))
          /\ mode.kind \in BarKinds => e[1] <= q.ext[1] /\ q.ext[2] <= e[2]
          /\ q.yval \in Int /\ (fill # "off" => q.stacked \in Int)
          /\ mode.kind \in BarKinds => q.ext[1] \in Int /\ q.ext[2] \in Int
      BY <2>7, <3>1, <3>2 DEF HoldsDrawn, HoldsPoint, PointIsNumbers
    <3>4. PICK lo \in Int, hi \in Int : lo = e[1] /\ hi = e[2] /\ r[1] <= 10 * lo /\ 10 * hi <= r[2]
      BY <3>2, <3>3 DEF HoldsValue, HoldsExtreme
    <3>5. ASSUME NEW v \in Int, lo <= v PROVE r[1] <= 10 * v
      BY <2>6, <3>4, <3>5
    <3>6. ASSUME NEW v \in Int, v <= hi PROVE 10 * v <= r[2]
      BY <2>6, <3>4, <3>6
    <3>7. InRange(q.yval)
      BY <2>2, <3>3, <3>4, <3>5, <3>6 DEF InRange, HoldsValue
    <3>8. fill # "off" => InRange(q.stacked)
      BY <2>2, <3>3, <3>4, <3>5, <3>6 DEF InRange, HoldsValue
    <3>9. mode.kind \in BarKinds => valueRange[1] <= 10 * q.ext[1] /\ 10 * q.ext[2] <= valueRange[2]
      BY <2>2, <3>3, <3>4, <3>5, <3>6
    <3> QED
      BY <3>1, <3>7, <3>8, <3>9
  <2> QED
    BY <2>2, <2>6, <2>7 DEF RangeHoldsThePicture
<1> QED
  BY <1>1, ViewsAgree, PictureWasMade, PTL
=============================================================================

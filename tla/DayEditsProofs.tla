---------------------------- MODULE DayEditsProofs ----------------------------
(***************************************************************************)
(* What edits do to a day.  First, what dragging a block promises for      *)
(* every day, window, grid, pointer and order of other writers.  Then the  *)
(* store, for every set of clients, dates and categories and every bound:  *)
(* the eight writers of a client differ only in the day they leave behind, *)
(* so WritesAreEdits reduces each of them to one shape, Edit, and the      *)
(* invariants are proved over that shape and the few other actions.        *)
(***************************************************************************)
EXTENDS ScheduleStore, DragReorder, DayRulesProofs, SequenceTheorems

-----------------------------------------------------------------------------
(* The constants *)

Blocks == [start : Nat, end : Nat, order : Int]

TypedDays == UNION {[S -> Blocks] : S \in SUBSET Int}

Spans == [start : Nat, end : Nat]

IsDay(day) ==
    /\ day \in TypedDays /\ IsFiniteSet(DOMAIN day)
    /\ \A id \in DOMAIN day : day[id].start < day[id].end
    /\ Disjoint(day)

IsWindow(window) ==
    /\ window \in Spans /\ window.start < window.end
    /\ OnGrid(window.start) /\ OnGrid(window.end)

Gestures ==
    [id : Int, snapshot : TypedDays, since : Nat, length : Nat, window : Spans, origin : Int,
     drop : Int \union {None}, valid : BOOLEAN, preview : TypedDays]

\* Days and windows are what the database's constraints let be, and None is no gesture.
Ordinary ==
    /\ Grid \in Nat \ {0} /\ Stub \in Nat /\ MaxScans \in Nat /\ MaxWrites \in Nat
    /\ \A day \in Days : IsDay(day)
    /\ \A window \in Windows : IsWindow(window)
    /\ Pointers \subseteq Int
    /\ \A place \in Places : place \in Spans /\ place.start < place.end
    /\ None \notin Gestures

-----------------------------------------------------------------------------
(* Numbers *)

LEMMA GridItself ==
    ASSUME Grid \in Nat \ {0}
    PROVE  OnGrid(Grid) /\ OnGrid(0)
<1>1. Grid = 1 * Grid /\ 0 = 0 * Grid
  OBVIOUS
<1>2. Grid % Grid = 0 /\ 0 % Grid = 0
  BY <1>1, Multiples
<1> QED
  BY <1>2 DEF OnGrid

\* A rounded length is on the grid, not empty and not shorter.
LEMMA RoundUpIs ==
    ASSUME Grid \in Nat \ {0}, NEW x \in Int
    PROVE  /\ RoundUp(x) \in Nat /\ RoundUp(x) > 0
           /\ OnGrid(RoundUp(x)) /\ RoundUp(x) >= x
<1>1. GridUp(x) \in Int /\ OnGrid(GridUp(x)) /\ x <= GridUp(x)
  BY GridUpIs
<1> QED
  BY <1>1, GridItself DEF RoundUp, Later

LEMMA SnappedIs ==
    ASSUME Grid \in Nat \ {0}, NEW x \in Int
    PROVE  Snapped(x) \in Int /\ OnGrid(Snapped(x))
<1>1. PICK n \in Nat \ {0}, y \in Int : n = 2 * Grid /\ y = 2 * x + Grid
  OBVIOUS
<1>2. PICK q \in Int : q = y \div n
  BY Division
<1>3. Snapped(x) = q * Grid
  BY <1>1, <1>2 DEF Snapped
<1>4. PICK z \in Int : z = q * Grid
  OBVIOUS
<1>5. z % Grid = 0
  BY <1>4, Multiples
<1> QED
  BY <1>3, <1>4, <1>5 DEF OnGrid

-----------------------------------------------------------------------------
(* The cascade, about a line of blocks L, the day it came from and a gesture g *)

Rows == [id : Int, start : Nat, end : Nat, order : Int]

Held(g, row) == row.id = g.id /\ row.start = g.drop /\ Length(row) = g.length

Stays(g, from, row) ==
    row.id # g.id /\ row.start = from[row.id].start /\ row.end = from[row.id].end

Pushed(g, from, row) ==
    /\ row.id # g.id /\ row.start > from[row.id].start /\ row.start > g.drop
    /\ Length(row) >= Length(from[row.id]) /\ row.end <= g.window.end

\* The rows are the blocks of the day, one each, in the order of the list.
Listed(from, L) ==
    /\ L \in Seq(Rows) /\ Len(L) = Cardinality(DOMAIN from)
    /\ \A i \in 1..Len(L) : /\ L[i].id \in DOMAIN from /\ L[i].start < L[i].end
                            /\ L[i].order = from[L[i].id].order
    /\ \A i, j \in 1..Len(L) : L[i].id = L[j].id => i = j
    /\ \A id \in DOMAIN from : \E i \in 1..Len(L) : L[i].id = id

InOrder(L) == \A i, j \in 1..Len(L) : i < j => ~Sooner(L[j], L[i])

Placed(g, from, L) ==
    \A i \in 1..Len(L) : Held(g, L[i]) \/ Stays(g, from, L[i]) \/ Pushed(g, from, L[i])

\* A pushed row stands behind its pusher, which is not before the held one and will not move.
Backed(g, from, L) ==
    \A i \in 1..Len(L) : Pushed(g, from, L[i]) =>
        \E h, j \in 1..Len(L) :
            /\ L[h].id = g.id /\ h <= j /\ j < i
            /\ L[j].end = L[i].start
            /\ \A c \in Clashes(L) : j <= c

Aligned(g, from, L) ==
    \A i \in 1..Len(L) : Pushed(g, from, L[i]) => OnGrid(L[i].start) /\ OnGrid(L[i].end)

\* A row that stays in front of a pushed one ends before it begins, or is itself run into.
Blocked(g, from, L) ==
    \A p, q \in 1..Len(L) :
        p < q /\ Stays(g, from, L[p]) /\ Pushed(g, from, L[q]) =>
            \/ L[p].end <= L[q].start
            \/ \E r \in 1..(p - 1) : L[r].end > L[p].start

\* No clash before the place f, and at most n more rows that the one at f will push.
Frontier(g, from, L, scans, f, n) ==
    /\ \A c \in Clashes(L) : f <= c
    /\ \A j \in (f + 1)..Len(L) : L[j].start < L[f].end => j <= f + n
    /\ 2 * (scans + n) + (Len(L) - 1 - f) * (Len(L) - f) <= Len(L) * (Len(L) - 1)

Counted(g, from, L, scans) ==
    \/ scans = 0
    \/ /\ \E i \in 1..Len(L) : Pushed(g, from, L[i])
       /\ \E f \in 1..Len(L) : \E n \in 0..Len(L) : Frontier(g, from, L, scans, f, n)

LineOK(g, from, L, scans) ==
    /\ Listed(from, L) /\ InOrder(L) /\ Placed(g, from, L) /\ Backed(g, from, L)
    /\ Ordered(from) => Aligned(g, from, L) /\ Blocked(g, from, L)
    /\ Counted(g, from, L, scans)

-----------------------------------------------------------------------------
(* Sorting again: Resorted *)

\* The order of the list is one of pairs of numbers.
LEMMA SoonerOrders ==
    ASSUME NEW a \in Rows, NEW b \in Rows, NEW c \in Rows
    PROVE  /\ ~Sooner(a, a) /\ (Sooner(a, b) => ~Sooner(b, a))
           /\ ~Sooner(b, a) /\ ~Sooner(c, b) => ~Sooner(c, a)
           /\ Sooner(b, c) /\ ~Sooner(b, a) => Sooner(a, c)
           /\ ~Sooner(b, a) => a.start <= b.start
<1>1. /\ a.start \in Int /\ b.start \in Int /\ c.start \in Int
      /\ a.order \in Int /\ b.order \in Int /\ c.order \in Int
  BY DEF Rows
<1> QED
  BY <1>1 DEF Sooner

\* The list without the row at a place.
LEMMA RestIs ==
    ASSUME NEW L \in Seq(Rows), NEW place \in 1..Len(L)
    PROVE  /\ RemoveAt(L, place) \in Seq(Rows) /\ Len(RemoveAt(L, place)) = Len(L) - 1
           /\ \A j \in 1..(Len(L) - 1) :
                 RemoveAt(L, place)[j] = IF j < place THEN L[j] ELSE L[j + 1]
<1>1. Len(L) \in Nat /\ \A i \in 1..Len(L) : L[i] \in Rows
  BY LenProperties, ElementOfSeq
<1> DEFINE before == SubSeq(L, 1, place - 1)
           after == SubSeq(L, place + 1, Len(L))
<1>2. /\ before \in Seq(Rows) /\ Len(before) = place - 1
      /\ \A i \in 1..(place - 1) : before[i] = L[i]
  <2>1. \A i \in 1..(place - 1) : L[i] \in Rows
    BY <1>1
  <2>2. /\ before \in Seq(Rows)
        /\ Len(before) = IF 1 <= place - 1 THEN place - 1 - 1 + 1 ELSE 0
        /\ \A i \in 1..(place - 1 - 1 + 1) : before[i] = L[1 + i - 1]
    BY <2>1, SubSeqProperties
  <2> QED
    BY <1>1, <2>2
<1>3. /\ after \in Seq(Rows) /\ Len(after) = Len(L) - place
      /\ \A i \in 1..(Len(L) - place) : after[i] = L[place + i]
  <2>1. \A i \in (place + 1)..Len(L) : L[i] \in Rows
    BY <1>1
  <2>2. /\ after \in Seq(Rows)
        /\ Len(after) = IF place + 1 <= Len(L) THEN Len(L) - (place + 1) + 1 ELSE 0
        /\ \A i \in 1..(Len(L) - (place + 1) + 1) : after[i] = L[place + 1 + i - 1]
    BY <1>1, <2>1, SubSeqProperties
  <2> QED
    BY <1>1, <2>2
<1>4. RemoveAt(L, place) = before \o after
  BY DEF RemoveAt
<1> HIDE DEF before, after
<1>5. /\ before \o after \in Seq(Rows) /\ Len(before \o after) = Len(before) + Len(after)
      /\ \A i \in 1..(Len(before) + Len(after)) :
             (before \o after)[i] = IF i <= Len(before) THEN before[i] ELSE after[i - Len(before)]
  BY <1>2, <1>3, ConcatProperties
<1>6. RemoveAt(L, place) \in Seq(Rows) /\ Len(RemoveAt(L, place)) = Len(L) - 1
  BY <1>1, <1>2, <1>3, <1>4, <1>5
<1>7. ASSUME NEW j \in 1..(Len(L) - 1)
      PROVE  RemoveAt(L, place)[j] = IF j < place THEN L[j] ELSE L[j + 1]
  <2>1. RemoveAt(L, place)[j] = IF j <= place - 1 THEN before[j] ELSE after[j - (place - 1)]
    BY <1>1, <1>2, <1>3, <1>4, <1>5
  <2>2. CASE j < place
    BY <1>1, <1>2, <2>1, <2>2
  <2>3. CASE ~(j < place)
    <3>1. j - (place - 1) \in 1..(Len(L) - place)
      BY <1>1, <2>3
    <3>2. after[j - (place - 1)] = L[place + (j - (place - 1))] /\ place + (j - (place - 1)) = j + 1
      BY <1>1, <1>3, <3>1
    <3> QED
      BY <1>1, <2>1, <2>3, <3>2
  <2> QED
    BY <2>2, <2>3
<1> QED
  BY <1>6, <1>7

PutIn(M, R, place, row) ==
    \A j \in 1..(Len(R) + 1) :
        M[j] = IF j < place THEN R[j] ELSE IF j = place THEN row ELSE R[j - 1]

\* The list with a row put in at a place.
LEMMA InsertedIs ==
    ASSUME NEW R \in Seq(Rows), NEW place \in 1..(Len(R) + 1), NEW row \in Rows
    PROVE  /\ InsertAt(R, place, row) \in Seq(Rows) /\ Len(InsertAt(R, place, row)) = Len(R) + 1
           /\ PutIn(InsertAt(R, place, row), R, place, row)
<1>1. Len(R) \in Nat /\ \A i \in 1..Len(R) : R[i] \in Rows
  BY LenProperties, ElementOfSeq
<1> DEFINE before == SubSeq(R, 1, place - 1)
           after == SubSeq(R, place, Len(R))
<1>2. /\ before \in Seq(Rows) /\ Len(before) = place - 1
      /\ \A i \in 1..(place - 1) : before[i] = R[i]
  <2>1. \A i \in 1..(place - 1) : R[i] \in Rows
    BY <1>1
  <2>2. /\ before \in Seq(Rows)
        /\ Len(before) = IF 1 <= place - 1 THEN place - 1 - 1 + 1 ELSE 0
        /\ \A i \in 1..(place - 1 - 1 + 1) : before[i] = R[1 + i - 1]
    BY <2>1, SubSeqProperties
  <2> QED
    BY <1>1, <2>2
<1>3. /\ after \in Seq(Rows) /\ Len(after) = Len(R) + 1 - place
      /\ \A i \in 1..(Len(R) + 1 - place) : after[i] = R[place + i - 1]
  <2>1. \A i \in place..Len(R) : R[i] \in Rows
    BY <1>1
  <2>2. /\ after \in Seq(Rows)
        /\ Len(after) = IF place <= Len(R) THEN Len(R) - place + 1 ELSE 0
        /\ \A i \in 1..(Len(R) - place + 1) : after[i] = R[place + i - 1]
    BY <1>1, <2>1, SubSeqProperties
  <2> QED
    BY <1>1, <2>2
<1>4. InsertAt(R, place, row) = (before \o <<row>>) \o after
  BY DEF InsertAt
<1>5. <<row>> \in Seq(Rows) /\ Len(<<row>>) = 1 /\ <<row>>[1] = row
  OBVIOUS
<1> HIDE DEF before, after
<1>6. PICK one : one = <<row>>
  OBVIOUS
<1>7. PICK front : front = before \o one
  OBVIOUS
<1>8. /\ front \in Seq(Rows) /\ Len(front) = place
      /\ \A i \in 1..place : front[i] = IF i < place THEN R[i] ELSE row
  <2>1. /\ front \in Seq(Rows) /\ Len(front) = Len(before) + Len(one)
        /\ \A i \in 1..(Len(before) + Len(one)) :
              front[i] = IF i <= Len(before) THEN before[i] ELSE one[i - Len(before)]
    BY <1>2, <1>5, <1>6, <1>7, ConcatProperties
  <2> QED
    BY <1>2, <1>5, <1>6, <2>1
<1>9. PICK all : all = front \o after
  OBVIOUS
<1>10. /\ all \in Seq(Rows) /\ Len(all) = Len(front) + Len(after)
       /\ \A i \in 1..(Len(front) + Len(after)) :
              all[i] = IF i <= Len(front) THEN front[i] ELSE after[i - Len(front)]
  BY <1>3, <1>8, <1>9, ConcatProperties
<1>11. InsertAt(R, place, row) = all
  BY <1>4, <1>6, <1>7, <1>9
<1>12. \A j \in 1..(Len(R) + 1) :
           all[j] = IF j < place THEN R[j] ELSE IF j = place THEN row ELSE R[j - 1]
  <2> SUFFICES ASSUME NEW j \in 1..(Len(R) + 1)
               PROVE  all[j] = IF j < place THEN R[j] ELSE IF j = place THEN row ELSE R[j - 1]
    OBVIOUS
  <2>1. CASE j <= place
    BY <1>1, <1>3, <1>8, <1>10, <2>1
  <2>2. CASE j > place
    <3>1. j - place \in 1..(Len(R) + 1 - place) /\ place + (j - place) - 1 = j - 1
      BY <1>1, <2>2
    <3> QED
      BY <1>1, <1>3, <1>8, <1>10, <2>2, <3>1
  <2> QED
    BY <2>1, <2>2
<1> QED
  BY <1>1, <1>3, <1>8, <1>10, <1>11, <1>12 DEF PutIn

\* A set of places that goes up from one without gaps.
LEMMA PrefixIs ==
    ASSUME NEW a \in Nat, NEW b \in Nat, a <= b + 1, NEW S \in SUBSET (a..b),
           \A i \in S : \A j \in a..b : j < i => j \in S
    PROVE  \E m \in a..(b + 1) : S = a..(m - 1) /\ Cardinality(S) = m - a
<1> DEFINE T == {j \in a..(b + 1) : j \notin S}
<1>1. T \in SUBSET (a..(b + 1)) /\ b + 1 \in T
  OBVIOUS
<1>2. PICK m : m = Min(T)
  OBVIOUS
<1>3. m \in T /\ \A j \in T : m <= j
  <2> HIDE DEF T
  <2>1. b + 1 \in Int /\ a \in Int /\ T # {}
    BY <1>1
  <2> QED
    BY <1>1, <1>2, <2>1, MinIs
<1>4. S = a..(m - 1)
  <2>1. \A j \in a..(m - 1) : j \in S
    BY <1>3
  <2>2. \A j \in S : j < m
    <3> SUFFICES ASSUME NEW j \in S, j >= m PROVE FALSE
      BY <1>3
    <3>1. m \in a..b /\ m # j
      BY <1>3
    <3> QED
      BY <1>3, <3>1
  <2>3. m \in Int
    BY <1>3
  <2>4. S \subseteq a..(m - 1)
    BY <2>2, <2>3
  <2> QED
    BY <2>1, <2>4
<1>5. m \in a..(b + 1)
  BY <1>3
<1>6. Cardinality(a..(m - 1)) = m - a
  <2>1. m - 1 \in Int /\ a \in Int
    BY <1>5
  <2>2. Cardinality(a..(m - 1)) = IF a > m - 1 THEN 0 ELSE (m - 1) - a + 1
    BY <2>1, FS_Interval
  <2> QED
    BY <1>5, <2>2
<1> QED
  BY <1>4, <1>5, <1>6

\* The moved row is passed by the rows that are sooner; the others keep their order.
LEMMA ResortedIs ==
    ASSUME NEW L \in Seq(Rows), InOrder(L), NEW place \in 1..Len(L), NEW moved \in Rows,
           ~Sooner(moved, L[place])
    PROVE  \E k \in place..Len(L) :
              /\ Resorted(L, place, moved) \in Seq(Rows)
              /\ Len(Resorted(L, place, moved)) = Len(L)
              /\ \A j \in 1..Len(L) :
                    Resorted(L, place, moved)[j] = IF j < place \/ j > k THEN L[j]
                                                   ELSE IF j = k THEN moved ELSE L[j + 1]
              /\ InOrder(Resorted(L, place, moved))
              /\ \A j \in place..(k - 1) : Sooner(L[j + 1], moved)
<1>1. Len(L) \in Nat /\ \A i \in 1..Len(L) : L[i] \in Rows
  BY LenProperties, ElementOfSeq
<1>2. PICK R \in Seq(Rows) : R = RemoveAt(L, place)
  BY RestIs
<1>3. /\ Len(R) = Len(L) - 1
      /\ \A j \in 1..(Len(L) - 1) : R[j] = IF j < place THEN L[j] ELSE L[j + 1]
  BY <1>2, RestIs
<1>4. \A i, j \in 1..Len(R) : i < j => ~Sooner(R[j], R[i])
  BY SMTT(30), <1>1, <1>3 DEF InOrder
<1>5. \A i \in 1..Len(R) : R[i] \in Rows
  BY ElementOfSeq
<1> DEFINE passed == {j \in place..Len(R) : Sooner(R[j], moved)}
<1>6. PICK m \in place..(Len(R) + 1) :
          passed = place..(m - 1) /\ Cardinality(passed) = m - place
  <2>1. \A i \in passed : \A j \in place..Len(R) : j < i => j \in passed
    <3> SUFFICES ASSUME NEW i \in passed, NEW j \in place..Len(R), j < i PROVE Sooner(R[j], moved)
      OBVIOUS
    <3>1. i \in 1..Len(R) /\ j \in 1..Len(R) /\ Sooner(R[i], moved)
      BY <1>1, <1>3
    <3>2. R[i] \in Rows /\ R[j] \in Rows /\ ~Sooner(R[i], R[j])
      BY <1>4, <1>5, <3>1
    <3> QED
      BY <3>1, <3>2, SoonerOrders
  <2>2. place \in Nat /\ Len(R) \in Nat /\ place <= Len(R) + 1 /\ passed \in SUBSET (place..Len(R))
    BY <1>1, <1>3
  <2> HIDE DEF passed
  <2> QED
    BY <2>1, <2>2, PrefixIs
<1>7. PICK M : M = InsertAt(R, m, moved)
  OBVIOUS
<1>8. Resorted(L, place, moved) = M
  <2>1. place + Cardinality(passed) = m
    BY <1>1, <1>3, <1>6
  <2> QED
    BY <1>2, <1>7, <2>1 DEF Resorted
<1>9. m \in 1..(Len(R) + 1) /\ m \in place..Len(L)
  BY <1>1, <1>3
<1>10. /\ M \in Seq(Rows) /\ Len(M) = Len(R) + 1
       /\ \A j \in 1..(Len(R) + 1) :
             M[j] = IF j < m THEN R[j] ELSE IF j = m THEN moved ELSE R[j - 1]
  <2> HIDE DEF passed
  <2>1. m \in 1..(Len(R) + 1)
    BY <1>9
  <2>2. /\ InsertAt(R, m, moved) \in Seq(Rows) /\ Len(InsertAt(R, m, moved)) = Len(R) + 1
        /\ PutIn(InsertAt(R, m, moved), R, m, moved)
    <3>1. R \in Seq(Rows) /\ moved \in Rows /\ m \in 1..(Len(R) + 1)
      BY <1>2, <2>1
    <3> QED
      BY ONLY <3>1, InsertedIs
  <2> QED
    BY <1>7, <2>2 DEF PutIn
<1>11. \A j \in 1..Len(L) : M[j] = IF j < place \/ j > m THEN L[j]
                                   ELSE IF j = m THEN moved ELSE L[j + 1]
  <2> SUFFICES ASSUME NEW j \in 1..Len(L)
               PROVE  M[j] = IF j < place \/ j > m THEN L[j]
                             ELSE IF j = m THEN moved ELSE L[j + 1]
    OBVIOUS
  <2>1. CASE j < m
    BY <1>1, <1>3, <1>9, <1>10, <2>1
  <2>2. CASE j = m
    BY <1>1, <1>3, <1>9, <1>10, <2>2
  <2>3. CASE j > m
    <3>1. j - 1 \in 1..(Len(L) - 1) /\ ~(j - 1 < place)
      BY <1>1, <1>9, <2>3
    <3>2. M[j] = R[j - 1]
      BY <1>1, <1>3, <1>9, <1>10, <2>3
    <3> QED
      BY <1>3, <2>3, <3>1, <3>2
  <2> QED
    BY <1>1, <1>9, <2>1, <2>2, <2>3
<1>12. \A j \in place..(m - 1) : Sooner(L[j + 1], moved)
  <2> SUFFICES ASSUME NEW j \in place..(m - 1) PROVE Sooner(L[j + 1], moved)
    OBVIOUS
  <2>1. Sooner(R[j], moved)
    BY <1>6
  <2>2. j \in 1..(Len(L) - 1) /\ ~(j < place)
    BY <1>1, <1>9
  <2> QED
    BY <1>3, <2>1, <2>2
<1>13. \A j \in m..Len(R) : ~Sooner(R[j], moved)
  BY <1>1, <1>6, <1>9
<1>14. InOrder(M)
  <2> SUFFICES ASSUME NEW i \in 1..Len(M), NEW j \in 1..Len(M), i < j
               PROVE  ~Sooner(M[j], M[i])
    BY DEF InOrder
  <2>1. i \in 1..(Len(R) + 1) /\ j \in 1..(Len(R) + 1)
    BY <1>10
  <2>2. CASE j < m
    BY <1>1, <1>3, <1>4, <1>9, <1>10, <2>1, <2>2
  <2>3. CASE i > m
    <3>1. M[i] = R[i - 1] /\ M[j] = R[j - 1]
      BY <1>1, <1>3, <1>9, <1>10, <2>1, <2>3
    <3> QED
      BY <1>1, <1>3, <1>4, <1>9, <2>1, <2>3, <3>1
  <2>4. CASE i < m /\ j > m
    <3>1. M[i] = R[i] /\ M[j] = R[j - 1]
      BY <1>1, <1>3, <1>9, <1>10, <2>1, <2>4
    <3> QED
      BY SMTT(30), <1>1, <1>3, <1>4, <1>9, <2>1, <2>4, <3>1
  <2>5. CASE j = m
    <3>1. M[i] = R[i] /\ M[j] = moved /\ i \in 1..Len(R)
      BY <1>1, <1>3, <1>9, <1>10, <2>1, <2>5
    <3>2. CASE i < place
      <4>1. M[i] = L[i] /\ L[i] \in Rows /\ L[place] \in Rows /\ ~Sooner(L[place], L[i])
        BY SMTT(30), <1>1, <1>3, <3>1, <3>2 DEF InOrder
      <4> QED
        BY <3>1, <4>1, SoonerOrders
    <3>3. CASE i >= place
      <4>1. i \in passed
        BY <1>6, <2>5, <3>3
      <4>2. Sooner(R[i], moved) /\ R[i] \in Rows
        BY <1>5, <3>1, <4>1
      <4> QED
        BY <3>1, <4>2, SoonerOrders
    <3> QED
      BY <3>2, <3>3
  <2>6. CASE i = m
    <3>1. M[i] = moved /\ M[j] = R[j - 1] /\ j - 1 \in m..Len(R)
      BY <1>1, <1>3, <1>9, <1>10, <2>1, <2>6
    <3> QED
      BY <1>13, <3>1
  <2> QED
    BY <1>9, <2>1, <2>2, <2>3, <2>4, <2>5, <2>6
<1> QED
  BY <1>3, <1>8, <1>9, <1>10, <1>11, <1>12, <1>14

-----------------------------------------------------------------------------
(* One displacement *)

\* What a gesture has while its cascade runs.
Holding(g) ==
    /\ g.id \in Int /\ g.drop \in Nat /\ OnGrid(g.drop)
    /\ g.length \in Nat /\ g.length > 0 /\ OnGrid(g.length)
    /\ g.window.end \in Int

Line(g, from, L) ==
    /\ Listed(from, L) /\ InOrder(L) /\ Placed(g, from, L) /\ Backed(g, from, L)

\* The row at p is moved behind the other one of the first clash.
Push(g, from, L, i, p, moved) ==
    /\ i \in 1..(Len(L) - 1) /\ i \in Clashes(L) /\ \A c \in Clashes(L) : i <= c
    /\ L[p].id # g.id
    /\ moved \in Rows /\ moved.id = L[p].id /\ moved.order = L[p].order
    /\ moved.start < moved.end /\ Length(moved) >= Length(L[p])
    /\ moved.end = moved.start + RoundUp(Length(L[p]))
    /\ moved.start > L[p].start /\ moved.start > g.drop
    /\ \/ /\ p = i /\ L[i + 1].id = g.id /\ moved.start = L[i + 1].end
          /\ \A x \in 1..Len(L) : ~Pushed(g, from, L[x])
       \/ /\ p = i + 1 /\ moved.start = L[i].end
          /\ \E h \in 1..i : L[h].id = g.id

LEMMA RowsAre ==
    ASSUME NEW from, IsDay(from), NEW L, Listed(from, L)
    PROVE  /\ Len(L) \in Nat
           /\ \A i \in 1..Len(L) :
                 /\ L[i] \in Rows /\ L[i].id \in Int /\ L[i].start \in Nat /\ L[i].end \in Nat
                 /\ L[i].order \in Int /\ L[i].start < L[i].end
                 /\ L[i].id \in DOMAIN from
           /\ \A id \in DOMAIN from :
                 /\ from[id].start \in Nat /\ from[id].end \in Nat /\ from[id].order \in Int
                 /\ from[id].start < from[id].end
<1>1. Len(L) \in Nat /\ \A i \in 1..Len(L) : L[i] \in Rows
  BY LenProperties, ElementOfSeq DEF Listed
<1>2. \A id \in DOMAIN from : from[id] \in Blocks
  BY DEF IsDay, TypedDays
<1> QED
  BY <1>1, <1>2 DEF Listed, Rows, Blocks, IsDay

LEMMA StartsRise ==
    ASSUME NEW from, IsDay(from), NEW L, Listed(from, L), InOrder(L),
           NEW i \in 1..Len(L), NEW j \in 1..Len(L), i <= j
    PROVE  L[i].start <= L[j].start
<1>1. CASE i = j
  BY <1>1, RowsAre
<1>2. CASE i < j
  BY <1>2, RowsAre, SoonerOrders DEF InOrder
<1> QED
  BY SMTT(30), <1>1, <1>2, RowsAre

LEMMA FirstClashIs ==
    ASSUME NEW L, Len(L) \in Nat, Clashes(L) # {}
    PROVE  /\ FirstClash(L) \in 1..(Len(L) - 1) /\ FirstClash(L) \in Clashes(L)
           /\ \A c \in Clashes(L) : FirstClash(L) <= c
<1>1. PICK b \in Int : b = Len(L) - 1
  OBVIOUS
<1>2. Clashes(L) \in SUBSET (1..b)
  BY <1>1 DEF Clashes
<1>3. \E i \in Clashes(L) : \A j \in Clashes(L) : i <= j
  <2>1. PICK S : S = Clashes(L)
    OBVIOUS
  <2>2. 1 \in Int /\ S \in SUBSET (1..b) /\ S # {}
    BY <1>2, <2>1
  <2>3. Min(S) \in S /\ \A x \in S : Min(S) <= x
    BY <1>1, <2>2, MinIs
  <2> QED
    BY <2>1, <2>3
<1>4. FirstClash(L) \in Clashes(L) /\ \A c \in Clashes(L) : FirstClash(L) <= c
  BY <1>3 DEF FirstClash
<1> QED
  BY <1>1, <1>2, <1>4

\* Up to the first clash each row ends before the next one begins.
LEMMA ChainIs ==
    ASSUME NEW from, IsDay(from), NEW L, Listed(from, L), InOrder(L), NEW i \in 1..Len(L),
           \A c \in Clashes(L) : i <= c,
           NEW a \in 1..Len(L), NEW b \in 1..Len(L), a < b, a < i
    PROVE  L[a].end <= L[b].start
<1>1. a \in 1..(Len(L) - 1) /\ a + 1 \in 1..Len(L)
  BY RowsAre
<1>2. a \notin Clashes(L)
  BY <1>1
<1>3. L[a].end <= L[a + 1].start
  BY <1>1, <1>2, RowsAre DEF Clashes
<1>4. L[a + 1].start <= L[b].start
  BY <1>1, StartsRise
<1> QED
  BY <1>1, <1>3, <1>4, RowsAre


\* A row is held, or stays, or was pushed, and only the held one has the gesture's block.
LEMMA HeldIs ==
    ASSUME NEW g, NEW from, NEW L, Placed(g, from, L), NEW i \in 1..Len(L), L[i].id = g.id
    PROVE  Held(g, L[i])
BY DEF Placed, Stays, Pushed

\* Two rows that stay never clash.
LEMMA StaysApart ==
    ASSUME NEW g, NEW from, IsDay(from), NEW L, Listed(from, L), InOrder(L),
           NEW i \in Clashes(L), Stays(g, from, L[i]), Stays(g, from, L[i + 1])
    PROVE  FALSE
<1>1. i \in 1..Len(L) /\ i + 1 \in 1..Len(L) /\ L[i].end > L[i + 1].start
  BY RowsAre DEF Clashes
<1>2. L[i].start <= L[i + 1].start
  BY <1>1, StartsRise
<1>3. L[i].id # L[i + 1].id
  BY <1>1, RowsAre DEF Listed
<1>4. TimesOverlap(from[L[i].id], from[L[i + 1].id])
  BY SMTT(30), <1>1, <1>2, RowsAre DEF TimesOverlap, Stays
<1> QED
  BY <1>1, <1>3, <1>4, RowsAre DEF IsDay, Disjoint

\* What the first clash moves, where to and by whom.
LEMMA PushIs ==
    ASSUME Grid \in Nat \ {0}, NEW from, IsDay(from), NEW g, Holding(g),
           NEW L, Line(g, from, L), Clashes(L) # {}
    PROVE  Push(g, from, L, FirstClash(L), Displaced(L, FirstClash(L), g.id),
                Behind(L, FirstClash(L), g.id))
<1>1. PICK i : i = FirstClash(L)
  OBVIOUS
<1>2. Listed(from, L) /\ InOrder(L) /\ Placed(g, from, L) /\ Backed(g, from, L)
  BY DEF Line
<1>3. /\ Len(L) \in Nat /\ i \in 1..(Len(L) - 1) /\ i \in Clashes(L)
      /\ \A c \in Clashes(L) : i <= c
  BY <1>1, <1>2, RowsAre, FirstClashIs
<1>4. i \in 1..Len(L) /\ i + 1 \in 1..Len(L) /\ i # i + 1
  BY <1>3
<1>5. L[i].end > L[i + 1].start /\ L[i].start <= L[i + 1].start
  BY <1>2, <1>3, <1>4, StartsRise DEF Clashes
<1>6. PICK p : p = Displaced(L, i, g.id)
  OBVIOUS
<1>7. /\ p \in 1..Len(L)
      /\ \/ p = i /\ L[i + 1].id = g.id
         \/ p = i + 1 /\ L[i + 1].id # g.id
  BY <1>4, <1>6 DEF Displaced
<1>8. L[p].id # g.id
  BY <1>2, <1>4, <1>7 DEF Listed
<1>9. PICK s : s = L[IF p = i THEN i + 1 ELSE i].end
  OBVIOUS
<1>10. s \in Nat
  BY <1>2, <1>4, <1>9, RowsAre
<1>11. PICK d : d = RoundUp(Length(L[p]))
  OBVIOUS
<1>12. /\ L[p] \in Rows /\ L[p].start \in Nat /\ L[p].end \in Nat
       /\ Length(L[p]) = L[p].end - L[p].start /\ Length(L[p]) \in Int
  BY <1>2, <1>7, RowsAre DEF Length
<1>13. d \in Nat /\ d > 0 /\ d >= Length(L[p])
  BY <1>11, <1>12, RoundUpIs
<1>14. PICK moved : moved = [L[p] EXCEPT !.start = s, !.end = s + d]
  OBVIOUS
<1>15. /\ moved \in Rows /\ moved.id = L[p].id /\ moved.order = L[p].order
       /\ moved.start = s /\ moved.end = s + d
  <2>1. PICK e \in Nat : e = s + d
    BY <1>10, <1>13
  <2>2. PICK row \in Rows : row = L[p]
    BY <1>12
  <2>3. /\ [row EXCEPT !.start = s, !.end = e] \in Rows
        /\ [row EXCEPT !.start = s, !.end = e].id = row.id
        /\ [row EXCEPT !.start = s, !.end = e].order = row.order
        /\ [row EXCEPT !.start = s, !.end = e].start = s
        /\ [row EXCEPT !.start = s, !.end = e].end = e
    BY <1>10, <2>1, <2>2 DEF Rows
  <2> QED
    BY <1>14, <2>1, <2>2, <2>3
<1>16. Behind(L, i, g.id) = moved
  BY <1>6, <1>9, <1>11, <1>14 DEF Behind
<1>17. moved.start < moved.end /\ Length(moved) >= Length(L[p])
  BY <1>10, <1>12, <1>13, <1>15 DEF Length
<1>18. moved.start > L[p].start
  BY <1>2, <1>4, <1>5, <1>7, <1>9, <1>15, RowsAre
<1>19. CASE p = i /\ L[i + 1].id = g.id
  <2>1. moved.start = L[i + 1].end
    BY <1>9, <1>15, <1>19
  <2>2. Held(g, L[i + 1])
    BY <1>2, <1>4, <1>19, HeldIs
  <2>3. moved.start > g.drop
    BY <1>2, <1>4, <2>1, <2>2, RowsAre DEF Held
  <2>4. ASSUME NEW x \in 1..Len(L), Pushed(g, from, L[x]) PROVE FALSE
    <3>1. PICK h \in 1..Len(L), j \in 1..Len(L) :
              L[h].id = g.id /\ h <= j /\ \A c \in Clashes(L) : j <= c
      BY <1>2, <2>4 DEF Backed
    <3>2. h = i + 1
      BY <1>2, <1>4, <1>19, <3>1 DEF Listed
    <3> QED
      BY <1>3, <3>1, <3>2
  <2> QED
    BY <1>1, <1>3, <1>6, <1>8, <1>11, <1>15, <1>16, <1>17, <1>18, <1>19, <2>1, <2>3, <2>4
    DEF Push
<1>20. CASE p = i + 1 /\ L[i + 1].id # g.id
  <2>1. moved.start = L[i].end
    BY <1>3, <1>9, <1>15, <1>20
  <2>2. PICK h \in 1..i : L[h].id = g.id
    <3>1. CASE Pushed(g, from, L[i])
      <4>1. PICK h \in 1..Len(L), j \in 1..Len(L) : L[h].id = g.id /\ h <= j /\ j < i
        BY <1>2, <1>4, <3>1 DEF Backed
      <4> QED
        BY <1>4, <4>1
    <3>2. CASE Pushed(g, from, L[i + 1])
      <4>1. PICK h \in 1..Len(L), j \in 1..Len(L) : L[h].id = g.id /\ h <= j /\ j < i + 1
        BY <1>2, <1>4, <3>2 DEF Backed
      <4> QED
        BY <1>4, <4>1
    <3>3. CASE Held(g, L[i])
      BY <1>4, <3>3 DEF Held
    <3>4. CASE Stays(g, from, L[i]) /\ Stays(g, from, L[i + 1])
      BY <1>2, <1>3, <3>4, StaysApart
    <3>5. ~Held(g, L[i + 1])
      BY <1>20 DEF Held
    <3> QED
      BY <1>2, <1>4, <3>1, <3>2, <3>3, <3>4, <3>5 DEF Placed
  <2>3. h \in 1..Len(L) /\ L[h].start = g.drop
    BY <1>2, <1>3, <2>2, HeldIs DEF Held
  <2>4. L[h].start <= L[i].start
    BY <1>2, <1>4, <2>2, <2>3, StartsRise
  <2>5. moved.start > g.drop
    BY <1>2, <1>4, <2>1, <2>3, <2>4, RowsAre
  <2> QED
    BY <1>1, <1>3, <1>6, <1>8, <1>11, <1>15, <1>16, <1>17, <1>18, <1>20, <2>1, <2>2, <2>5
    DEF Push
<1> QED
  BY <1>7, <1>19, <1>20

\* When sort_order agrees with the times, what is pushed goes to the grid.
LEMMA PushAligned ==
    ASSUME Grid \in Nat \ {0}, NEW from, IsDay(from), NEW g, Holding(g),
           NEW L, Line(g, from, L), Aligned(g, from, L), Blocked(g, from, L),
           NEW i, NEW p, NEW moved, Push(g, from, L, i, p, moved)
    PROVE  OnGrid(moved.start) /\ OnGrid(moved.end)
<1>1. Listed(from, L) /\ InOrder(L) /\ Placed(g, from, L)
  BY DEF Line
<1>2. /\ Len(L) \in Nat /\ i \in 1..(Len(L) - 1) /\ i \in Clashes(L)
      /\ \A c \in Clashes(L) : i <= c
      /\ i \in 1..Len(L) /\ i + 1 \in 1..Len(L) /\ p \in 1..Len(L)
  BY <1>1, RowsAre DEF Push
<1>3. ASSUME NEW x \in 1..Len(L), Held(g, L[x]) PROVE OnGrid(L[x].end)
  <2>1. L[x].end = g.drop + g.length /\ g.drop \in Int /\ g.length \in Int
    BY <1>1, <1>3, RowsAre DEF Held, Length, Holding
  <2> QED
    BY <2>1, GridSum DEF Holding
<1>4. OnGrid(moved.start)
  <2>1. CASE p = i /\ L[i + 1].id = g.id /\ moved.start = L[i + 1].end
    BY <1>1, <1>2, <1>3, <2>1, HeldIs
  <2>2. CASE p = i + 1 /\ moved.start = L[i].end
    <3>1. CASE Held(g, L[i])
      BY <1>2, <1>3, <2>2, <3>1
    <3>2. CASE Pushed(g, from, L[i])
      BY <1>2, <2>2, <3>2 DEF Aligned
    <3>3. CASE Stays(g, from, L[i])
      <4>1. ~Held(g, L[i + 1])
        BY <2>2 DEF Push, Held
      <4>2. Pushed(g, from, L[i + 1])
        BY <1>1, <1>2, <3>3, <4>1, StaysApart DEF Placed
      <4>3. i < i + 1
        BY <1>2
      <4>4. \/ L[i].end <= L[i + 1].start
            \/ \E r \in 1..(i - 1) : L[r].end > L[i].start
        BY <1>2, <3>3, <4>2, <4>3 DEF Blocked
      <4>5. L[i].end > L[i + 1].start
        BY <1>2 DEF Clashes
      <4>6. ASSUME NEW r \in 1..(i - 1), L[r].end > L[i].start PROVE FALSE
        <5>1. r \in 1..Len(L) /\ r < i
          BY <1>2
        <5>2. L[r].end <= L[i].start
          BY <1>1, <1>2, <5>1, ChainIs
        <5> QED
          BY SMTT(30), <1>1, <1>2, <4>6, <5>1, <5>2, RowsAre
      <4> QED
        BY <1>1, <1>2, <4>4, <4>5, <4>6, RowsAre
    <3> QED
      BY <1>1, <1>2, <3>1, <3>2, <3>3 DEF Placed
  <2> QED
    BY <2>1, <2>2 DEF Push
<1>5. moved.start \in Int /\ Length(L[p]) \in Int
  BY <1>1, <1>2, RowsAre DEF Push, Rows, Length
<1>6. PICK d : d = RoundUp(Length(L[p]))
  OBVIOUS
<1>7. d \in Int /\ OnGrid(d) /\ moved.end = moved.start + d
  BY <1>5, <1>6, RoundUpIs DEF Push
<1> QED
  BY <1>4, <1>5, <1>7, GridSum

\* The list after the row at p became the moved one, at its new place k.
Moved(L, M, p, k, moved) ==
    /\ p \in 1..Len(L) /\ k \in p..Len(L)
    /\ M \in Seq(Rows) /\ Len(M) = Len(L) /\ InOrder(M)
    /\ \A j \in 1..Len(L) : M[j] = IF j < p \/ j > k THEN L[j]
                                   ELSE IF j = k THEN moved ELSE L[j + 1]
    /\ \A j \in p..(k - 1) : Sooner(L[j + 1], moved)

\* The new place of the row at x.
NewPlace(x, p, k) == IF x = p THEN k ELSE IF x < p \/ x > k THEN x ELSE x - 1

LEMMA NewPlaceIs ==
    ASSUME NEW L, Len(L) \in Nat, NEW M, NEW p, NEW k, NEW moved, Moved(L, M, p, k, moved),
           NEW x \in 1..Len(L)
    PROVE  /\ NewPlace(x, p, k) \in 1..Len(L) /\ NewPlace(x, p, k) \in 1..Len(M)
           /\ M[NewPlace(x, p, k)] = IF x = p THEN moved ELSE L[x]
           /\ \A y \in 1..Len(L) : x < y /\ x # p /\ y # p =>
                 NewPlace(x, p, k) < NewPlace(y, p, k)
           /\ \A y \in 1..Len(L) : NewPlace(x, p, k) = NewPlace(y, p, k) => x = y
<1>1. p \in 1..Len(L) /\ k \in 1..Len(L) /\ p <= k /\ Len(M) = Len(L)
  BY DEF Moved
<1>2. PICK z : z = NewPlace(x, p, k)
  OBVIOUS
<1>3. z \in 1..Len(L)
  BY <1>1, <1>2 DEF NewPlace
<1>4. M[z] = IF z < p \/ z > k THEN L[z] ELSE IF z = k THEN moved ELSE L[z + 1]
  BY <1>3 DEF Moved
<1>5. M[z] = IF x = p THEN moved ELSE L[x]
  <2>1. CASE x = p
    BY <1>1, <1>2, <1>4, <2>1 DEF NewPlace
  <2>2. CASE x # p /\ (x < p \/ x > k)
    BY <1>1, <1>2, <1>4, <2>2 DEF NewPlace
  <2>3. CASE x # p /\ ~(x < p \/ x > k)
    <3>1. z = x - 1 /\ z + 1 = x /\ ~(z < p \/ z > k) /\ z # k
      BY <1>1, <1>2, <2>3 DEF NewPlace
    <3> QED
      BY <1>4, <2>3, <3>1
  <2> QED
    BY <2>1, <2>2, <2>3
<1>6. \A y \in 1..Len(L) : x < y /\ x # p /\ y # p => NewPlace(x, p, k) < NewPlace(y, p, k)
  BY <1>1 DEF NewPlace
<1>7. \A y \in 1..Len(L) : NewPlace(x, p, k) = NewPlace(y, p, k) => x = y
  BY <1>1 DEF NewPlace
<1> QED
  BY <1>1, <1>2, <1>3, <1>5, <1>6, <1>7

LEMMA OldPlaceIs ==
    ASSUME NEW L, Len(L) \in Nat, NEW M, NEW p, NEW k, NEW moved, Moved(L, M, p, k, moved),
           NEW y \in 1..Len(M)
    PROVE  \E x \in 1..Len(L) : NewPlace(x, p, k) = y /\ M[y] = IF x = p THEN moved ELSE L[x]
<1>1. p \in 1..Len(L) /\ k \in 1..Len(L) /\ p <= k /\ y \in 1..Len(L)
  BY DEF Moved
<1>2. PICK x \in 1..Len(L) : x = IF y < p \/ y > k THEN y ELSE IF y = k THEN p ELSE y + 1
  BY <1>1
<1>3. NewPlace(x, p, k) = y
  BY <1>1, <1>2 DEF NewPlace
<1> QED
  BY <1>3, NewPlaceIs

Step(g, from, L, i, p, moved, M, k) ==
    /\ Push(g, from, L, i, p, moved) /\ Moved(L, M, p, k, moved) /\ i < k

LEMMA Resorts ==
    ASSUME NEW from, IsDay(from), NEW g, NEW L, Line(g, from, L),
           NEW i, NEW p, NEW moved, Push(g, from, L, i, p, moved)
    PROVE  \E k \in p..Len(L) : Step(g, from, L, i, p, moved, Resorted(L, p, moved), k)
<1>1. Listed(from, L) /\ InOrder(L)
  BY DEF Line
<1>2. /\ Len(L) \in Nat /\ i \in 1..(Len(L) - 1) /\ i \in 1..Len(L) /\ i + 1 \in 1..Len(L)
      /\ p \in 1..Len(L) /\ p \in {i, i + 1} /\ L \in Seq(Rows) /\ moved \in Rows
  BY SMTT(30), <1>1, RowsAre DEF Push, Listed
<1>3. ~Sooner(moved, L[p])
  <2>1. moved.start > L[p].start
    BY DEF Push
  <2>2. moved.start \in Nat /\ L[p].start \in Nat
    BY <1>1, <1>2, RowsAre DEF Rows
  <2> QED
    BY <2>1, <2>2 DEF Sooner
<1>4. PICK M : M = Resorted(L, p, moved)
  OBVIOUS
<1>5. PICK k \in p..Len(L) :
          /\ M \in Seq(Rows) /\ Len(M) = Len(L)
          /\ \A j \in 1..Len(L) : M[j] = IF j < p \/ j > k THEN L[j]
                                         ELSE IF j = k THEN moved ELSE L[j + 1]
          /\ InOrder(M)
          /\ \A j \in p..(k - 1) : Sooner(L[j + 1], moved)
  BY SMTT(30), <1>1, <1>2, <1>3, <1>4, ResortedIs
<1>6. Moved(L, M, p, k, moved)
  BY <1>2, <1>5 DEF Moved
<1>7. i < k
  <2> SUFFICES ASSUME k <= i PROVE FALSE
    BY <1>2, <1>5
  <2>1. p = i /\ k = i /\ moved.start = L[i + 1].end
    BY <1>2, <1>5 DEF Push
  <2>2. M[i] = moved /\ M[i + 1] = L[i + 1] /\ i + 1 \in 1..Len(M) /\ i \in 1..Len(M)
    BY <1>2, <1>5, <2>1
  <2>3. Sooner(L[i + 1], moved)
    BY <1>1, <1>2, <2>1, RowsAre DEF Sooner
  <2> QED
    BY <1>2, <1>5, <2>2, <2>3 DEF InOrder
<1> QED
  BY <1>4, <1>5, <1>6, <1>7 DEF Step

\* The pusher is at the place of the clash, with the dragged block at it or before it.
LEMMA PusherIs ==
    ASSUME NEW from, IsDay(from), NEW g, NEW L, Line(g, from, L),
           NEW i, NEW p, NEW moved, NEW M, NEW k, Step(g, from, L, i, p, moved, M, k)
    PROVE  /\ Len(L) \in Nat /\ Len(M) = Len(L)
           /\ i \in 1..(Len(L) - 1) /\ i \in 1..Len(L) /\ i + 1 \in 1..Len(L)
           /\ p \in 1..Len(L) /\ p \in {i, i + 1} /\ k \in (i + 1)..Len(L) /\ p <= k
           /\ M[i].end = moved.start /\ M[k] = moved
           /\ M[i] = L[IF p = i THEN i + 1 ELSE i]
           /\ \A j \in 1..(i - 1) : M[j] = L[j]
           /\ \E h \in 1..i : M[h].id = g.id
           /\ \A c \in Clashes(M) : i <= c
<1>1. Listed(from, L) /\ InOrder(L)
  BY DEF Line
<1>2. /\ Len(L) \in Nat /\ i \in 1..(Len(L) - 1) /\ i \in 1..Len(L) /\ i + 1 \in 1..Len(L)
      /\ p \in 1..Len(L) /\ p \in {i, i + 1} /\ k \in (i + 1)..Len(L) /\ p <= k
      /\ Len(M) = Len(L)
  BY <1>1, RowsAre DEF Step, Push, Moved
<1>3. \A j \in 1..Len(L) : M[j] = IF j < p \/ j > k THEN L[j]
                                  ELSE IF j = k THEN moved ELSE L[j + 1]
  BY DEF Step, Moved
<1>4. M[i] = L[IF p = i THEN i + 1 ELSE i] /\ M[k] = moved
  BY <1>2, <1>3
<1>5. \A j \in 1..(i - 1) : M[j] = L[j]
  BY <1>2, <1>3
<1>6. M[i].end = moved.start
  BY <1>2, <1>4 DEF Step, Push
<1>7. \E h \in 1..i : M[h].id = g.id
  <2>1. CASE p = i /\ L[i + 1].id = g.id
    BY <1>2, <1>4, <2>1
  <2>2. CASE p = i + 1 /\ \E h \in 1..i : L[h].id = g.id
    <3>1. PICK h \in 1..i : L[h].id = g.id
      BY <2>2
    <3>2. h < p /\ h \in 1..Len(L)
      BY <1>2, <2>2
    <3> QED
      BY <1>3, <3>1, <3>2
  <2> QED
    BY <2>1, <2>2 DEF Step, Push
<1>8. ASSUME NEW c \in Clashes(M) PROVE i <= c
  <2>1. c \in 1..(Len(L) - 1) /\ M[c].end > M[c + 1].start
    BY <1>2 DEF Clashes
  <2> SUFFICES ASSUME c < i PROVE FALSE
    BY <1>2, <2>1
  <2>2. M[c] = L[c] /\ c \in 1..Len(L) /\ c + 1 \in 1..Len(L)
    BY <1>2, <1>5, <2>1
  <2>3. L[c].end <= L[c + 1].start
    <3>1. \A d \in Clashes(L) : i <= d
      BY DEF Step, Push
    <3> QED
      BY <1>1, <1>2, <2>1, <2>2, <3>1, ChainIs
  <2>4. CASE c + 1 < i
    BY <1>1, <1>2, <1>5, <2>1, <2>2, <2>3, <2>4, RowsAre
  <2>5. CASE c + 1 = i /\ p = i
    <3>1. L[i].start <= L[i + 1].start
      BY <1>1, <1>2, StartsRise
    <3>2. M[c + 1] = L[i + 1] /\ L[c + 1] = L[i]
      BY <1>4, <2>5
    <3>3. /\ L[c].end \in Nat /\ L[i].start \in Nat /\ L[i + 1].start \in Nat
      BY <1>1, <1>2, <2>2, RowsAre
    <3>4. L[c].end > L[i + 1].start /\ L[c].end <= L[i].start
      BY <2>1, <2>2, <2>3, <3>2
    <3> QED
      BY <3>1, <3>3, <3>4
  <2>6. CASE c + 1 = i /\ p = i + 1
    BY SMTT(30), <1>1, <1>2, <1>4, <2>1, <2>2, <2>3, <2>6, RowsAre
  <2> QED
    BY <1>2, <2>1, <2>4, <2>5, <2>6
<1> QED
  BY <1>2, <1>4, <1>5, <1>6, <1>7, <1>8

LEMMA ListedStays ==
    ASSUME NEW from, IsDay(from), NEW g, NEW L, Line(g, from, L),
           NEW i, NEW p, NEW moved, NEW M, NEW k, Step(g, from, L, i, p, moved, M, k)
    PROVE  Listed(from, M)
<1>1. Listed(from, L) /\ Moved(L, M, p, k, moved) /\ Push(g, from, L, i, p, moved)
  BY DEF Line, Step
<1>2. Len(L) \in Nat /\ Len(M) = Len(L) /\ p \in 1..Len(L)
  BY PusherIs
<1>3. ASSUME NEW x \in 1..Len(L)
      PROVE  /\ NewPlace(x, p, k) \in 1..Len(M)
             /\ M[NewPlace(x, p, k)].id = L[x].id /\ M[NewPlace(x, p, k)].order = L[x].order
             /\ M[NewPlace(x, p, k)].start < M[NewPlace(x, p, k)].end
  <2>1. /\ NewPlace(x, p, k) \in 1..Len(M)
        /\ M[NewPlace(x, p, k)] = IF x = p THEN moved ELSE L[x]
    BY <1>1, <1>2, NewPlaceIs
  <2>2. moved.id = L[p].id /\ moved.order = L[p].order /\ moved.start < moved.end
    BY <1>1 DEF Push
  <2>3. L[x].start < L[x].end
    BY <1>1 DEF Listed
  <2> QED
    BY <2>1, <2>2, <2>3
<1>4. ASSUME NEW y \in 1..Len(M) PROVE \E x \in 1..Len(L) : NewPlace(x, p, k) = y
  BY <1>1, <1>2, OldPlaceIs
<1>5. ASSUME NEW y \in 1..Len(M)
      PROVE  /\ M[y].id \in DOMAIN from /\ M[y].start < M[y].end
             /\ M[y].order = from[M[y].id].order
  <2>1. PICK x \in 1..Len(L) : NewPlace(x, p, k) = y
    BY <1>4
  <2>2. L[x].id \in DOMAIN from /\ L[x].order = from[L[x].id].order
    BY <1>1 DEF Listed
  <2> QED
    BY <1>3, <2>1, <2>2
<1>6. ASSUME NEW y \in 1..Len(M), NEW z \in 1..Len(M), M[y].id = M[z].id PROVE y = z
  <2>1. PICK x \in 1..Len(L), w \in 1..Len(L) : NewPlace(x, p, k) = y /\ NewPlace(w, p, k) = z
    BY <1>4
  <2>2. L[x].id = L[w].id
    BY <1>3, <1>6, <2>1
  <2> QED
    BY <1>1, <2>1, <2>2 DEF Listed
<1>7. ASSUME NEW id \in DOMAIN from PROVE \E y \in 1..Len(M) : M[y].id = id
  <2>1. PICK x \in 1..Len(L) : L[x].id = id
    BY <1>1 DEF Listed
  <2> QED
    BY <1>3, <2>1
<1>8. M \in Seq(Rows) /\ Len(M) = Cardinality(DOMAIN from)
  BY <1>1 DEF Moved, Listed
<1> QED
  BY <1>5, <1>6, <1>7, <1>8 DEF Listed

LEMMA PlacedStays ==
    ASSUME NEW from, IsDay(from), NEW g, NEW L, Line(g, from, L),
           NEW i, NEW p, NEW moved, NEW M, NEW k, Step(g, from, L, i, p, moved, M, k),
           moved.end <= g.window.end
    PROVE  Placed(g, from, M) /\ Pushed(g, from, moved)
<1>1. /\ Listed(from, L) /\ Moved(L, M, p, k, moved) /\ Push(g, from, L, i, p, moved)
      /\ Placed(g, from, L)
  BY DEF Line, Step
<1>2. Len(L) \in Nat /\ Len(M) = Len(L) /\ p \in 1..Len(L)
  BY PusherIs
<1>3. Pushed(g, from, moved)
  <2>1. /\ L[p].id # g.id /\ moved.id = L[p].id
        /\ moved.start > L[p].start /\ moved.start > g.drop /\ Length(moved) >= Length(L[p])
    BY <1>1 DEF Push
  <2>2. Stays(g, from, L[p]) \/ Pushed(g, from, L[p])
    BY <1>1, <1>2, <2>1 DEF Placed, Held
  <2>3. PICK old : old = from[L[p].id]
    OBVIOUS
  <2>4. /\ moved.start \in Nat /\ moved.end \in Nat
        /\ L[p].start \in Nat /\ L[p].end \in Nat /\ old.start \in Nat /\ old.end \in Nat
    BY <1>1, <1>2, <2>3, RowsAre DEF Push, Rows
  <2>5. L[p].start >= old.start /\ Length(L[p]) >= Length(old)
    BY <2>2, <2>3, <2>4 DEF Stays, Pushed, Length
  <2>6. moved.start > old.start
    BY <2>1, <2>4, <2>5
  <2>7. Length(moved) >= Length(old)
    BY <2>1, <2>4, <2>5 DEF Length
  <2> QED
    BY <2>1, <2>3, <2>6, <2>7 DEF Pushed
<1>4. ASSUME NEW y \in 1..Len(M)
      PROVE  Held(g, M[y]) \/ Stays(g, from, M[y]) \/ Pushed(g, from, M[y])
  <2>1. PICK x \in 1..Len(L) : M[y] = IF x = p THEN moved ELSE L[x]
    BY SMTT(30), <1>1, <1>2, OldPlaceIs
  <2> QED
    BY <1>1, <1>3, <2>1 DEF Placed
<1> QED
  BY <1>3, <1>4 DEF Placed

LEMMA BackedStays ==
    ASSUME NEW from, IsDay(from), NEW g, NEW L, Line(g, from, L),
           NEW i, NEW p, NEW moved, NEW M, NEW k, Step(g, from, L, i, p, moved, M, k)
    PROVE  Backed(g, from, M)
<1>1. /\ Listed(from, L) /\ Moved(L, M, p, k, moved) /\ Push(g, from, L, i, p, moved)
      /\ Backed(g, from, L)
  BY DEF Line, Step
<1>2. /\ Len(L) \in Nat /\ Len(M) = Len(L)
      /\ i \in 1..(Len(L) - 1) /\ i \in 1..Len(L) /\ i + 1 \in 1..Len(L)
      /\ p \in 1..Len(L) /\ p \in {i, i + 1} /\ k \in (i + 1)..Len(L)
      /\ M[i].end = moved.start /\ M[k] = moved
  BY PusherIs
<1>3. /\ \E h \in 1..i : M[h].id = g.id
      /\ \A c \in Clashes(M) : i <= c
  BY PusherIs
<1> SUFFICES ASSUME NEW y \in 1..Len(M), Pushed(g, from, M[y])
             PROVE  \E h, j \in 1..Len(M) :
                       /\ M[h].id = g.id /\ h <= j /\ j < y
                       /\ M[j].end = M[y].start
                       /\ \A c \in Clashes(M) : j <= c
  BY DEF Backed
<1>8. Len(L) \in Nat /\ Moved(L, M, p, k, moved)
  BY <1>1, <1>2
<1>4. PICK x \in 1..Len(L) : NewPlace(x, p, k) = y /\ M[y] = IF x = p THEN moved ELSE L[x]
  BY <1>8, OldPlaceIs
<1>5. CASE x = p
  <2>1. y = k /\ M[y] = moved
    BY <1>4, <1>5 DEF NewPlace
  <2>2. PICK h \in 1..i : M[h].id = g.id
    BY <1>3
  <2>3. h \in 1..Len(M) /\ i \in 1..Len(M) /\ h <= i /\ i < y
    BY <1>2, <2>1
  <2> QED
    BY <1>2, <1>3, <2>1, <2>2, <2>3
<1>6. CASE x # p
  <2>1. Pushed(g, from, L[x])
    BY <1>4, <1>6
  <2>2. p = i + 1
    BY <1>1, <2>1 DEF Push
  <2>3. PICK h \in 1..Len(L), j \in 1..Len(L) :
            /\ L[h].id = g.id /\ h <= j /\ j < x /\ L[j].end = L[x].start
            /\ \A c \in Clashes(L) : j <= c
    BY <1>1, <2>1 DEF Backed
  <2>4. j <= i /\ i < p
    BY <1>1, <1>2, <2>2, <2>3 DEF Push
  <2>5. M[h] = L[h] /\ M[j] = L[j]
    <3>1. \A q \in 1..Len(L) : q < p => M[q] = L[q]
      BY <1>1 DEF Moved
    <3> QED
      BY <1>2, <2>3, <2>4, <3>1
  <2>6. j < y
    BY <1>2, <1>4, <1>6, <2>3, <2>4 DEF NewPlace
  <2>7. \A c \in Clashes(M) : j <= c
    <3>1. \A c \in Clashes(M) : c \in Int /\ i <= c
      BY <1>3 DEF Clashes
    <3> QED
      BY <1>2, <2>3, <2>4, <3>1
  <2> QED
    BY <1>2, <1>4, <1>6, <2>3, <2>5, <2>6, <2>7
<1> QED
  BY <1>5, <1>6

LEMMA BlockedStays ==
    ASSUME Grid \in Nat \ {0}, NEW from, IsDay(from), NEW g, Holding(g), NEW L, Line(g, from, L),
           NEW i, NEW p, NEW moved, NEW M, NEW k, Step(g, from, L, i, p, moved, M, k),
           moved.end <= g.window.end,
           Ordered(from), Aligned(g, from, L), Blocked(g, from, L)
    PROVE  Aligned(g, from, M) /\ Blocked(g, from, M)
<1>1. /\ Listed(from, L) /\ Moved(L, M, p, k, moved) /\ Push(g, from, L, i, p, moved)
      /\ Placed(g, from, L) /\ InOrder(L)
  BY DEF Line, Step
<1>2. /\ Len(L) \in Nat /\ Len(M) = Len(L)
      /\ i \in 1..(Len(L) - 1) /\ i \in 1..Len(L) /\ i + 1 \in 1..Len(L)
      /\ p \in 1..Len(L) /\ p \in {i, i + 1} /\ k \in (i + 1)..Len(L)
      /\ M[i].end = moved.start /\ M[k] = moved
  BY PusherIs
<1>8. Len(L) \in Nat /\ Moved(L, M, p, k, moved)
  BY <1>1, <1>2
<1>3. Aligned(g, from, M)
  <2>1. OnGrid(moved.start) /\ OnGrid(moved.end)
    BY <1>1, PushAligned
  <2> SUFFICES ASSUME NEW y \in 1..Len(M), Pushed(g, from, M[y])
               PROVE  OnGrid(M[y].start) /\ OnGrid(M[y].end)
    BY DEF Aligned
  <2>2. PICK x \in 1..Len(L) : M[y] = IF x = p THEN moved ELSE L[x]
    BY <1>8, OldPlaceIs
  <2> QED
    BY <2>1, <2>2 DEF Aligned
<1>4. /\ moved.start \in Nat /\ moved.end \in Nat
      /\ \A x \in 1..Len(L) : L[x].start \in Nat /\ L[x].end \in Nat /\ L[x].order \in Int
  BY <1>1, RowsAre DEF Push, Rows
<1>5. moved.start > L[p].start /\ moved.end > L[p].end
  <2>1. moved.start > L[p].start /\ Length(moved) >= Length(L[p])
    BY <1>1 DEF Push
  <2> QED
    BY SMTT(30), <1>2, <1>4, <2>1 DEF Length
\* A row that stays and is passed by the moved one began strictly before it.
<1>6. ASSUME NEW y \in p..(k - 1), Stays(g, from, L[y + 1]) PROVE L[y + 1].start < moved.start
  <2>1. y + 1 \in 1..Len(L) /\ Sooner(L[y + 1], moved)
    BY <1>1, <1>2 DEF Moved
  <2>2. Stays(g, from, L[p]) \/ Pushed(g, from, L[p])
    BY <1>1, <1>2 DEF Placed, Held, Push
  <2>3. PICK a, b : a = L[p].id /\ b = L[y + 1].id
    OBVIOUS
  <2>4. /\ a \in DOMAIN from /\ b \in DOMAIN from
        /\ from[a].start \in Nat /\ from[b].start \in Nat
        /\ from[a].order \in Int /\ from[b].order \in Int
        /\ moved.order = from[a].order /\ L[y + 1].order = from[b].order
    <3>1. \A x \in 1..Len(L) : L[x].id \in DOMAIN from /\ L[x].order = from[L[x].id].order
      BY <1>1 DEF Listed
    <3>2. moved.order = L[p].order
      BY <1>1 DEF Push
    <3>3. a \in DOMAIN from /\ b \in DOMAIN from
      BY <1>2, <2>1, <2>3, <3>1
    <3>4. moved.order = from[a].order /\ L[y + 1].order = from[b].order
      BY <1>2, <2>1, <2>3, <3>1, <3>2
    <3> QED
      BY <1>1, <3>3, <3>4, RowsAre
  <2>5. from[a].start <= L[p].start /\ L[y + 1].start = from[b].start
    BY SMTT(30), <1>2, <1>4, <1>6, <2>2, <2>3, <2>4 DEF Stays, Pushed
  <2>6. ASSUME L[y + 1].start = moved.start PROVE FALSE
    <3>1. from[a].start < from[b].start
      BY SMTT(30), <1>2, <1>4, <1>5, <2>4, <2>5, <2>6
    <3>2. from[a].order <= from[b].order
      BY <2>4, <3>1 DEF Ordered
    <3>3. L[y + 1].order < moved.order
      BY <1>4, <2>1, <2>6 DEF Sooner
    <3> QED
      BY <2>4, <3>2, <3>3
  <2>7. L[y + 1].start <= moved.start
    BY <1>4, <2>1 DEF Sooner
  <2> QED
    BY <1>4, <2>1, <2>6, <2>7
<1>7. ASSUME NEW P \in 1..Len(M), NEW Q \in 1..Len(M), P < Q,
             Stays(g, from, M[P]), Pushed(g, from, M[Q])
      PROVE  M[P].end <= M[Q].start \/ \E r \in 1..(P - 1) : M[r].end > M[P].start
  <2>1. PICK x \in 1..Len(L) : NewPlace(x, p, k) = P /\ M[P] = IF x = p THEN moved ELSE L[x]
    BY <1>8, OldPlaceIs
  <2>2. PICK z \in 1..Len(L) : NewPlace(z, p, k) = Q /\ M[Q] = IF z = p THEN moved ELSE L[z]
    BY <1>8, OldPlaceIs
  <2>3. x # p /\ M[P] = L[x] /\ Stays(g, from, L[x])
    <3>1. Pushed(g, from, moved)
      BY PlacedStays
    <3>2. from[moved.id].start \in Nat
      BY <1>1, <1>2, RowsAre DEF Push
    <3>3. ~Stays(g, from, moved)
      BY <1>4, <3>1, <3>2 DEF Stays, Pushed
    <3> QED
      BY <1>7, <2>1, <3>3
  <2>4. CASE P > i /\ P < k
    <3>1. P \in p..(k - 1) /\ x = P + 1
      BY <1>2, <2>1, <2>3, <2>4 DEF NewPlace
    <3>2. M[P].start < moved.start
      BY <1>6, <2>3, <3>1
    <3>3. i \in 1..(P - 1) /\ M[i].end > M[P].start
      BY <1>2, <1>4, <2>3, <2>4, <3>2
    <3> QED
      BY <3>3
  <2>5. CASE z = p /\ ~(P > i /\ P < k)
    <3>1. Q = k /\ M[Q] = moved /\ P <= i
      BY <1>2, <1>7, <2>2, <2>5 DEF NewPlace
    <3>2. CASE P = i
      BY <1>2, <1>4, <3>1, <3>2
    <3>3. CASE P < i
      <4>1. x = P /\ M[P] = L[P] /\ P < p /\ P \in 1..Len(L)
        BY <1>2, <2>1, <2>3, <3>3 DEF NewPlace
      <4>2. \A c \in Clashes(L) : i <= c
        BY <1>1 DEF Push
      <4>3. L[P].end <= L[p].start
        BY <1>1, <1>2, <3>3, <4>1, <4>2, ChainIs
      <4> QED
        BY SMTT(30), <1>2, <1>4, <1>5, <3>1, <4>1, <4>3
    <3> QED
      BY <1>2, <3>1, <3>2, <3>3
  <2>6. CASE z # p /\ ~(P > i /\ P < k)
    <3>1. M[Q] = L[z] /\ Pushed(g, from, L[z]) /\ p = i + 1
      BY <1>1, <1>7, <2>2, <2>6 DEF Push
    <3>2. x < z
      BY <1>1, <1>2, <1>7, <2>1, <2>2, <2>3, <2>6 DEF NewPlace
    <3>3. L[x].end <= L[z].start \/ \E r \in 1..(x - 1) : L[r].end > L[x].start
      BY <2>3, <3>1, <3>2 DEF Blocked
    <3>4. ASSUME NEW r \in 1..(x - 1), L[r].end > L[x].start
          PROVE  \E s \in 1..(P - 1) : M[s].end > M[P].start
      <4>1. r \in 1..Len(L) /\ r < x
        BY <1>2
      <4>2. CASE r # p
        <5>1. /\ NewPlace(r, p, k) < P /\ NewPlace(r, p, k) \in 1..Len(L)
              /\ M[NewPlace(r, p, k)] = L[r]
          <6>1. /\ NewPlace(r, p, k) \in 1..Len(L)
                /\ M[NewPlace(r, p, k)] = IF r = p THEN moved ELSE L[r]
            BY <1>8, <4>1, NewPlaceIs
          <6>2. NewPlace(r, p, k) < NewPlace(x, p, k)
            BY <1>2, <2>3, <4>1, <4>2 DEF NewPlace
          <6> QED
            BY <2>1, <4>2, <6>1, <6>2
        <5>2. NewPlace(r, p, k) \in 1..(P - 1)
          BY <1>2, <5>1
        <5> QED
          BY <2>3, <3>4, <5>1, <5>2
      <4>3. CASE r = p
        <5>1. P > k
          BY <1>2, <2>1, <2>6, <3>1, <4>1, <4>3 DEF NewPlace
        <5>2. k \in 1..(P - 1) /\ M[k].end > L[x].start
          BY SMTT(30), <1>2, <1>4, <1>5, <3>4, <4>3, <5>1
        <5> QED
          BY <2>3, <5>2
      <4> QED
        BY <4>2, <4>3
    <3> QED
      BY <2>3, <3>1, <3>3, <3>4
  <2> QED
    BY <2>4, <2>5, <2>6
<1> QED
  BY <1>3, <1>7 DEF Blocked

\* Going on at a later place costs no more than the places passed over were worth.
LEMMA Refocus ==
    ASSUME NEW N \in Nat, NEW f \in 1..N, NEW i \in 1..(N - 1), f < i, NEW n \in Nat,
           NEW scans \in Nat, 2 * (scans + n) + (N - 1 - f) * (N - f) <= N * (N - 1)
    PROVE  2 * (scans + (N - i)) + (N - 1 - i) * (N - i) <= N * (N - 1)
<1>1. PICK a \in Nat, b \in Nat : a = N - i /\ b = N - 1 - f /\ a <= b
  BY f \in Int, i \in Int
<1>2. PICK t \in Int : t = N * (N - 1)
  OBVIOUS
<1>3. a * a <= b * b
  <2>1. PICK d \in Nat : b = a + d
    <3>1. b - a \in Nat /\ b = a + (b - a)
      BY <1>1
    <3> QED
      BY <3>1
  <2>2. b * b = a * a + 2 * (a * d) + d * d
    BY <2>1
  <2>3. a * d >= 0 /\ d * d >= 0
    BY <1>1, <2>1
  <2>4. a * a \in Int /\ a * d \in Int /\ d * d \in Int
    BY <1>1, <2>1
  <2> QED
    BY <2>2, <2>3, <2>4
<1>4. 2 * (scans + n) + b * (b + 1) <= t
  <2>1. N - f = b + 1 /\ N - 1 - f = b
    BY <1>1
  <2> QED
    BY <1>2, <2>1
<1>5. b * (b + 1) = b * b + b /\ (a - 1) * a = a * a - a /\ a * a \in Int /\ b * b \in Int
  BY <1>1
<1>6. 2 * (scans + a) + (a - 1) * a <= t
  BY <1>1, <1>2, <1>3, <1>4, <1>5
<1>7. N - 1 - i = a - 1 /\ N - i = a
  BY <1>1
<1> QED
  BY <1>2, <1>6, <1>7

\* Each move takes one from the moves that are left.
LEMMA CountedStays ==
    ASSUME NEW from, IsDay(from), NEW g, NEW L, Line(g, from, L),
           NEW i, NEW p, NEW moved, NEW M, NEW k, Step(g, from, L, i, p, moved, M, k),
           Pushed(g, from, moved), NEW scans \in Nat, Counted(g, from, L, scans)
    PROVE  Counted(g, from, M, scans + 1)
<1>1. Listed(from, L) /\ InOrder(L) /\ Listed(from, M) /\ InOrder(M)
  BY ListedStays DEF Line, Step, Moved
<1>2. /\ Len(L) \in Nat /\ Len(M) = Len(L)
      /\ i \in 1..(Len(L) - 1) /\ i \in 1..Len(L) /\ i + 1 \in 1..Len(L)
      /\ p \in 1..Len(L) /\ p \in {i, i + 1} /\ k \in (i + 1)..Len(L) /\ p <= k
      /\ M[i].end = moved.start /\ M[k] = moved
      /\ \A c \in Clashes(M) : i <= c
  BY PusherIs
<1>3. PICK N \in Nat : N = Len(L)
  BY <1>2
<1>4. \A c \in Clashes(L) : c \in Int /\ i <= c
  BY <1>2 DEF Step, Push, Clashes
<1>5. PICK n \in 0..N :
          Frontier(g, from, L, scans, i, n) /\ (p = i => n = N - i)
  <2>1. N - i \in 0..N /\ \A j \in (i + 1)..N : j <= i + (N - i)
    BY <1>2, <1>3
  <2>2. CASE scans = 0
    <3>1. CASE i = 1
      <4>1. 2 * (0 + (N - 1)) + (N - 1 - 1) * (N - 1) <= N * (N - 1)
        BY <1>3
      <4>2. Frontier(g, from, L, scans, i, N - i)
        BY <1>3, <1>4, <2>1, <2>2, <3>1, <4>1 DEF Frontier
      <4> QED
        BY <2>1, <4>2
    <3>2. CASE i # 1
      <4>1. 2 * (0 + (N - 1)) + (N - 1 - 1) * (N - 1) <= N * (N - 1)
        BY <1>3
      <4>2. 1 \in 1..N /\ 1 < i /\ N - 1 \in Nat /\ i \in 1..(N - 1)
        BY <1>2, <1>3, <3>2
      <4>3. 2 * (0 + (N - i)) + (N - 1 - i) * (N - i) <= N * (N - 1)
        BY <4>1, <4>2, Refocus
      <4>4. Frontier(g, from, L, scans, i, N - i)
        BY <1>3, <1>4, <2>1, <2>2, <4>3 DEF Frontier
      <4> QED
        BY <2>1, <4>4
    <3> QED
      BY <3>1, <3>2
  <2>3. CASE scans # 0
    <3>1. /\ \E x \in 1..Len(L) : Pushed(g, from, L[x])
          /\ \E f \in 1..Len(L) : \E m \in 0..Len(L) : Frontier(g, from, L, scans, f, m)
      BY <2>3 DEF Counted
    <3>2. p # i
      BY <1>2, <3>1 DEF Step, Push
    <3>3. PICK f \in 1..N, m \in 0..N : Frontier(g, from, L, scans, f, m)
      BY <1>3, <3>1
    <3>4. f <= i
      BY <3>3 DEF Step, Push, Frontier
    <3>5. CASE f = i
      BY <3>2, <3>3, <3>5
    <3>6. CASE f < i
      <4>1. m \in Nat /\ i \in 1..(N - 1)
        BY <1>2, <1>3
      <4>2. 2 * (scans + m) + (N - 1 - f) * (N - f) <= N * (N - 1)
        BY <1>3, <3>3 DEF Frontier
      <4>3. 2 * (scans + (N - i)) + (N - 1 - i) * (N - i) <= N * (N - 1)
        BY <3>6, <4>1, <4>2, Refocus
      <4>4. Frontier(g, from, L, scans, i, N - i)
        BY <1>3, <1>4, <2>1, <4>3 DEF Frontier
      <4> QED
        BY <2>1, <3>2, <4>4
    <3> QED
      BY <1>2, <3>4, <3>5, <3>6
  <2> QED
    BY <2>2, <2>3
<1>6. \A j \in (i + 1)..N : L[j].start < L[i].end => j <= i + n
  BY <1>3, <1>5 DEF Frontier
<1>7. n >= 1
  <2>1. CASE p = i
    BY <1>2, <1>3, <1>5, <2>1
  <2>2. CASE p = i + 1
    <3>1. L[i + 1].start < L[i].end
      <4>1. i \in Clashes(L)
        BY DEF Step, Push
      <4> QED
        BY <1>1, <1>2, <4>1, RowsAre DEF Clashes
    <3>2. i + 1 <= i + n
      BY <1>2, <1>3, <1>6, <3>1
    <3> QED
      BY <1>2, <3>2
  <2> QED
    BY <1>2, <2>1, <2>2
<1>8. ASSUME NEW j \in (i + 1)..N, M[j].start < M[i].end PROVE j <= i + (n - 1)
  <2>1. j < k
    <3> SUFFICES ASSUME k <= j PROVE FALSE
      BY <1>2
    <3>1. j \in 1..Len(M) /\ k \in 1..Len(M)
      BY <1>2, <1>3
    <3>2. M[k].start <= M[j].start
      BY <1>1, <3>1, StartsRise
    <3>3. M[k].start \in Nat /\ M[j].start \in Nat /\ M[i].end = M[k].start
      BY <1>1, <1>2, <3>1, RowsAre
    <3> QED
      BY <1>8, <3>2, <3>3
  <2>2. CASE p = i
    BY <1>2, <1>3, <1>5, <2>1, <2>2
  <2>3. CASE p = i + 1
    <3>1. M[j] = L[j + 1] /\ j + 1 \in (i + 1)..N /\ M[i] = L[i]
      <4>1. \A x \in 1..Len(L) : M[x] = IF x < p \/ x > k THEN L[x]
                                        ELSE IF x = k THEN moved ELSE L[x + 1]
        BY DEF Step, Moved
      <4>2. j \in 1..Len(L) /\ ~(j < p \/ j > k) /\ j # k /\ j + 1 \in (i + 1)..N /\ i < p
        BY <1>2, <1>3, <2>1, <2>3
      <4> QED
        BY <1>2, <4>1, <4>2
    <3>2. j + 1 <= i + n
      BY <1>6, <1>8, <3>1
    <3> QED
      BY <1>2, <1>5, <3>2
  <2> QED
    BY <1>2, <2>2, <2>3
<1>9. 2 * ((scans + 1) + (n - 1)) + (N - 1 - i) * (N - i) <= N * (N - 1)
  <2>1. 2 * (scans + n) + (N - 1 - i) * (N - i) <= N * (N - 1)
    BY <1>3, <1>5 DEF Frontier
  <2>2. (scans + 1) + (n - 1) = scans + n
    BY <1>5
  <2> QED
    BY <2>1, <2>2
<1>10. Frontier(g, from, M, scans + 1, i, n - 1)
  BY <1>2, <1>3, <1>8, <1>9 DEF Frontier
<1>11. i \in 1..Len(M) /\ n - 1 \in 0..Len(M) /\ k \in 1..Len(M)
  BY <1>2, <1>3, <1>7
<1> QED
  BY <1>2, <1>10, <1>11 DEF Counted

\* The cascade keeps its line as it should be.
LEMMA ShiftsWell ==
    ASSUME Grid \in Nat \ {0}, NEW from, IsDay(from), NEW g, Holding(g),
           NEW L, NEW scans \in Nat, LineOK(g, from, L, scans), Clashes(L) # {},
           Behind(L, FirstClash(L), g.id).end <= g.window.end
    PROVE  LineOK(g, from, Resorted(L, Displaced(L, FirstClash(L), g.id),
                                    Behind(L, FirstClash(L), g.id)), scans + 1)
<1>1. PICK i, p, moved : /\ i = FirstClash(L) /\ p = Displaced(L, FirstClash(L), g.id)
                         /\ moved = Behind(L, FirstClash(L), g.id)
  OBVIOUS
<1>2. Line(g, from, L)
  BY DEF LineOK, Line
<1>3. Push(g, from, L, i, p, moved)
  BY <1>1, <1>2, PushIs
<1>4. PICK M : M = Resorted(L, p, moved)
  OBVIOUS
<1>5. PICK k : Step(g, from, L, i, p, moved, M, k)
  BY <1>2, <1>3, <1>4, Resorts
<1>6. moved.end <= g.window.end
  BY <1>1
<1>7. Listed(from, M) /\ InOrder(M) /\ Backed(g, from, M)
  BY <1>2, <1>5, ListedStays, BackedStays DEF Step, Moved
<1>8. Placed(g, from, M) /\ Pushed(g, from, moved)
  BY <1>2, <1>5, <1>6, PlacedStays
<1>9. Ordered(from) => Aligned(g, from, M) /\ Blocked(g, from, M)
  BY <1>2, <1>5, <1>6, BlockedStays DEF LineOK
<1>10. Counted(g, from, M, scans + 1)
  BY <1>2, <1>5, <1>8, CountedStays DEF LineOK
<1> QED
  BY <1>1, <1>4, <1>7, <1>8, <1>9, <1>10 DEF LineOK

\* As many moves as the comment's bound: n others, n(n+1)/2 moves.
LEMMA CountIs ==
    ASSUME NEW g, NEW from, IsDay(from), NEW L, NEW scans \in Nat, LineOK(g, from, L, scans)
    PROVE  LET others == Cardinality(DOMAIN from) - 1
           IN  scans <= (others * (others + 1)) \div 2
<1>1. Listed(from, L) /\ Counted(g, from, L, scans)
  BY DEF LineOK
<1>2. PICK N \in Nat : N = Len(L) /\ N = Cardinality(DOMAIN from)
  BY <1>1, RowsAre DEF Listed
<1> SUFFICES scans <= ((N - 1) * ((N - 1) + 1)) \div 2
  BY <1>2
<1>3. PICK x \in Int : x = (N - 1) * ((N - 1) + 1)
  OBVIOUS
<1>4. 2 * scans <= x
  <2>1. CASE scans = 0
    <3>1. x >= 0
      BY <1>3
    <3> QED
      BY <2>1, <3>1
  <2>2. CASE scans # 0
    <3>1. PICK f \in 1..N, n \in 0..N : Frontier(g, from, L, scans, f, n)
      BY <1>1, <1>2, <2>2 DEF Counted
    <3>2. 2 * (scans + n) + (N - 1 - f) * (N - f) <= N * (N - 1)
      BY <1>2, <3>1 DEF Frontier
    <3>3. (N - 1 - f) * (N - f) >= 0 /\ (N - 1 - f) * (N - f) \in Int
      <4>1. PICK a \in Nat : a = N - f
        BY <3>1
      <4>2. (a - 1) * a >= 0
        BY <4>1
      <4> QED
        BY <3>1, <4>1, <4>2
    <3>4. N * (N - 1) = x
      BY <1>3
    <3>5. PICK y \in Int : y = (N - 1 - f) * (N - f) /\ y >= 0
      BY <3>3
    <3> QED
      BY <3>1, <3>2, <3>4, <3>5
  <2> QED
    BY <2>1, <2>2
<1>5. scans <= x \div 2
  BY <1>4
<1> QED
  BY <1>3, <1>5

-----------------------------------------------------------------------------
(* The list the cascade begins with: Lined *)

\* An order of the elements of a set, as a set of pairs.
OrderOf(D, F) ==
    /\ \A a \in D : <<a, a>> \notin F
    /\ \A a, b, c \in D : <<a, b>> \in F /\ <<b, c>> \in F => <<a, c>> \in F
    /\ \A a, b \in D : a # b => <<a, b>> \in F \/ <<b, a>> \in F

PlacesOf(D, F) == [id \in D |-> Cardinality({other \in D : <<other, id>> \in F})]

Numbered(D, F, C) ==
    /\ Cardinality(D) \in Nat
    /\ \A id \in D : C[id] \in 0..(Cardinality(D) - 1)
    /\ \A a, b \in D : <<a, b>> \in F => C[a] < C[b]
    /\ \A a, b \in D : C[a] = C[b] => a = b
    /\ \A n \in 0..(Cardinality(D) - 1) : \E id \in D : C[id] = n

\* Counting what comes before gives each element of an ordered finite set its place.
LEMMA RanksAre ==
    ASSUME NEW D, IsFiniteSet(D), NEW F, OrderOf(D, F)
    PROVE  Numbered(D, F, PlacesOf(D, F))
<1>0. PICK C : C = PlacesOf(D, F)
  OBVIOUS
<1> USE DEF OrderOf
<1> DEFINE Under(id) == {other \in D : <<other, id>> \in F}
<1>1. Cardinality(D) \in Nat
  BY FS_CardinalityType
<1>2. ASSUME NEW id \in D
      PROVE  /\ IsFiniteSet(Under(id)) /\ Cardinality(Under(id)) \in Nat
             /\ Cardinality(Under(id)) <= Cardinality(D) - 1
  <2>1. Under(id) \subseteq D \ {id}
    OBVIOUS
  <2>2. IsFiniteSet(D \ {id}) /\ Cardinality(D \ {id}) = Cardinality(D) - 1
    BY FS_RemoveElement
  <2>3. PICK U : U = Under(id)
    OBVIOUS
  <2>4. IsFiniteSet(U) /\ Cardinality(U) <= Cardinality(D \ {id})
    BY <2>1, <2>2, <2>3, FS_Subset
  <2>5. Cardinality(U) \in Nat
    BY <2>4, FS_CardinalityType
  <2> QED
    BY <2>2, <2>3, <2>4, <2>5
<1>3. ASSUME NEW a \in D, NEW b \in D, <<a, b>> \in F
      PROVE  Cardinality(Under(a)) < Cardinality(Under(b))
  <2>1. Under(a) \subseteq Under(b) \ {a} /\ a \in Under(b)
    BY <1>3
  <2> HIDE DEF Under
  <2>2. /\ IsFiniteSet(Under(b) \ {a})
        /\ Cardinality(Under(b) \ {a}) = Cardinality(Under(b)) - 1
    BY <1>2, <2>1, FS_RemoveElement
  <2>3. Cardinality(Under(a)) <= Cardinality(Under(b) \ {a})
    BY <2>1, <2>2, FS_Subset
  <2> QED
    BY <1>2, <2>2, <2>3
<1>4. \A id \in D : C[id] = Cardinality(Under(id)) /\ C[id] \in 0..(Cardinality(D) - 1)
  <2>1. \A id \in D : C[id] = Cardinality(Under(id))
    BY <1>0 DEF PlacesOf
  <2> HIDE DEF Under
  <2> QED
    BY <1>1, <1>2, <2>1
<1> HIDE DEF Under
<1>5. \A a, b \in D : <<a, b>> \in F => C[a] < C[b]
  BY <1>3, <1>4
<1>6. \A a, b \in D : C[a] = C[b] => a = b
  <2> SUFFICES ASSUME NEW a \in D, NEW b \in D, a # b PROVE C[a] # C[b]
    OBVIOUS
  <2>1. C[a] < C[b] \/ C[b] < C[a]
    BY <1>5
  <2> QED
    BY <1>4, <2>1
<1>7. PICK T : T = 0..(Cardinality(D) - 1)
  OBVIOUS
<1>8. C \in Injection(D, T)
  <2>1. C \in [D -> T]
    BY <1>0, <1>4, <1>7 DEF PlacesOf
  <2> QED
    BY <1>6, <2>1 DEF Injection, IsInjective
<1>9. IsFiniteSet(T) /\ Cardinality(T) = Cardinality(D)
  BY <1>1, <1>7, FS_Interval
<1>10. C \in Surjection(D, T)
  BY <1>8, <1>9, FS_Injection
<1>11. \A n \in 0..(Cardinality(D) - 1) : \E id \in D : C[id] = n
  BY <1>7, <1>10 DEF Surjection
<1> QED
  BY <1>0, <1>1, <1>4, <1>5, <1>6, <1>11 DEF Numbered

\* Who is listed first: by start, by sort_order, and by where it was listed before.
First(day, old, a, b) ==
    \/ Sooner(day[a], day[b])
    \/ ~Sooner(day[b], day[a]) /\ old[a].start < old[b].start

\* The times of a day with one block held somewhere.
Redrawn(day, old) ==
    /\ day \in TypedDays /\ DOMAIN day = DOMAIN old
    /\ \A id \in DOMAIN day : day[id].start < day[id].end /\ day[id].order = old[id].order

LEMMA FirstOrders ==
    ASSUME NEW old, IsDay(old), NEW day, Redrawn(day, old),
           NEW a \in DOMAIN old, NEW b \in DOMAIN old, NEW c \in DOMAIN old
    PROVE  /\ ~First(day, old, a, a)
           /\ First(day, old, a, b) /\ First(day, old, b, c) => First(day, old, a, c)
           /\ a # b => First(day, old, a, b) \/ First(day, old, b, a)
           /\ First(day, old, a, b) => ~Sooner(day[b], day[a])
<1>1. \A id \in DOMAIN old : day[id].start \in Int /\ day[id].order \in Int
  <2>1. \A id \in DOMAIN old : day[id] \in Blocks
    BY DEF Redrawn, TypedDays
  <2> QED
    BY <2>1 DEF Blocks
<1>2. \A id \in DOMAIN old : /\ old[id].start \in Int /\ old[id].end \in Int
                             /\ old[id].start < old[id].end
  <2>1. \A id \in DOMAIN old : old[id] \in Blocks
    BY DEF IsDay, TypedDays
  <2> QED
    BY <2>1 DEF IsDay, Blocks
<1>3. a # b => old[a].start # old[b].start
  <2> SUFFICES ASSUME a # b, old[a].start = old[b].start PROVE FALSE
    OBVIOUS
  <2>1. TimesOverlap(old[a], old[b])
    BY <1>2 DEF TimesOverlap
  <2> QED
    BY <2>1 DEF IsDay, Disjoint
<1> QED
  BY <1>1, <1>2, <1>3 DEF First, Sooner

LEMMA LinedIs ==
    ASSUME NEW old, IsDay(old), NEW day, Redrawn(day, old)
    PROVE  /\ Listed(old, Lined(day, old)) /\ InOrder(Lined(day, old))
           /\ \A i \in 1..Len(Lined(day, old)) :
                 /\ Lined(day, old)[i].start = day[Lined(day, old)[i].id].start
                 /\ Lined(day, old)[i].end = day[Lined(day, old)[i].id].end
<1>1. PICK D \in SUBSET Int : D = DOMAIN day /\ D = DOMAIN old /\ IsFiniteSet(D)
  BY DEF IsDay, Redrawn, TypedDays
<1>2. PICK F \in SUBSET (D \X D) : \A a, b \in D : <<a, b>> \in F <=> First(day, old, a, b)
  <2> DEFINE G == {w \in D \X D : First(day, old, w[1], w[2])}
  <2>1. G \in SUBSET (D \X D) /\ \A a, b \in D : <<a, b>> \in G <=> First(day, old, a, b)
    OBVIOUS
  <2> HIDE DEF G
  <2> QED
    BY <2>1
<1>3. /\ \A a \in D : <<a, a>> \notin F
      /\ \A a, b, c \in D : <<a, b>> \in F /\ <<b, c>> \in F => <<a, c>> \in F
      /\ \A a, b \in D : a # b => <<a, b>> \in F \/ <<b, a>> \in F
      /\ \A a, b \in D : <<a, b>> \in F => ~Sooner(day[b], day[a])
  <2>1. \A a, b, c \in D :
           /\ ~First(day, old, a, a)
           /\ First(day, old, a, b) /\ First(day, old, b, c) => First(day, old, a, c)
           /\ a # b => First(day, old, a, b) \/ First(day, old, b, a)
           /\ First(day, old, a, b) => ~Sooner(day[b], day[a])
    BY <1>1, FirstOrders
  <2> QED
    BY <1>2, <2>1
<1>4. PICK C : C = [id \in D |-> Cardinality({other \in D : <<other, id>> \in F})]
  OBVIOUS
<1>5. PICK N \in Nat : N = Cardinality(D)
  BY <1>1, FS_CardinalityType
<1>6. /\ \A id \in D : C[id] \in 0..(N - 1)
      /\ \A a, b \in D : <<a, b>> \in F => C[a] < C[b]
      /\ \A a, b \in D : C[a] = C[b] => a = b
      /\ \A n \in 0..(N - 1) : \E id \in D : C[id] = n
  <2>1. IsFiniteSet(D) /\ F \in SUBSET (D \X D)
    BY <1>1
  <2>2. /\ \A id \in D : C[id] \in 0..(Cardinality(D) - 1)
        /\ \A a, b \in D : <<a, b>> \in F => C[a] < C[b]
        /\ \A a, b \in D : C[a] = C[b] => a = b
        /\ \A n \in 0..(Cardinality(D) - 1) : \E id \in D : C[id] = n
    <3>1. OrderOf(D, F)
      BY <1>3 DEF OrderOf
    <3>2. Numbered(D, F, PlacesOf(D, F))
      BY <1>1, <3>1, RanksAre
    <3> QED
      BY <1>4, <3>2 DEF Numbered, PlacesOf
  <2> QED
    BY <1>5, <2>2
<1>7. \A id \in D : Cardinality({other \in DOMAIN day : First(day, old, other, id)}) = C[id]
  <2> SUFFICES ASSUME NEW id \in D
               PROVE  Cardinality({other \in DOMAIN day : First(day, old, other, id)}) = C[id]
    OBVIOUS
  <2>1. {other \in DOMAIN day : First(day, old, other, id)} = {other \in D : <<other, id>> \in F}
    BY <1>1, <1>2
  <2> QED
    BY <1>4, <2>1
<1> DEFINE at(rank) == CHOOSE id \in DOMAIN day :
                Cardinality({other \in DOMAIN day : First(day, old, other, id)}) = rank - 1
           L == [rank \in 1..Cardinality(DOMAIN day) |->
                    [id |-> at(rank), start |-> day[at(rank)].start, end |-> day[at(rank)].end,
                     order |-> day[at(rank)].order]]
<1>8. Lined(day, old) = L
  BY DEF Lined, First
<1>9. \A n \in 1..N : at(n) \in D /\ C[at(n)] = n - 1
  <2> SUFFICES ASSUME NEW n \in 1..N PROVE at(n) \in D /\ C[at(n)] = n - 1
    OBVIOUS
  <2>1. \E id \in D : C[id] = n - 1
    BY <1>6
  <2>2. \E id \in DOMAIN day :
           Cardinality({other \in DOMAIN day : First(day, old, other, id)}) = n - 1
    BY <1>1, <1>7, <2>1
  <2>3. /\ at(n) \in DOMAIN day
        /\ Cardinality({other \in DOMAIN day : First(day, old, other, at(n))}) = n - 1
    BY <2>2
  <2> QED
    BY <1>1, <1>7, <2>3
<1> HIDE DEF at
<1>10. \A id \in D : day[id].start \in Nat /\ day[id].end \in Nat /\ day[id].order \in Int
  BY <1>1 DEF Redrawn, TypedDays, Blocks
<1>11. L \in Seq(Rows) /\ Len(L) = N
  <2>1. \A n \in 1..N : [id |-> at(n), start |-> day[at(n)].start, end |-> day[at(n)].end,
                         order |-> day[at(n)].order] \in Rows
    BY <1>1, <1>9, <1>10 DEF Rows
  <2>2. L \in [1..N -> Rows]
    BY <1>1, <1>5, <2>1
  <2> HIDE DEF L
  <2> QED
    BY <1>5, <2>2
<1>12. \A n \in 1..N : /\ L[n].id = at(n) /\ L[n].start = day[at(n)].start
                       /\ L[n].end = day[at(n)].end /\ L[n].order = day[at(n)].order
                       /\ L[n] = [id |-> at(n), start |-> day[at(n)].start,
                                  end |-> day[at(n)].end, order |-> day[at(n)].order]
  BY <1>1, <1>5
<1> HIDE DEF L
<1>13. Listed(old, L)
  <2>1. \A i \in 1..N : /\ L[i].id \in D /\ L[i].start < L[i].end
                        /\ L[i].order = old[L[i].id].order
    <3> SUFFICES ASSUME NEW i \in 1..N
                 PROVE  /\ L[i].id \in D /\ L[i].start < L[i].end
                        /\ L[i].order = old[L[i].id].order
      OBVIOUS
    <3>1. at(i) \in D
      BY <1>9
    <3>2. L[i].id = at(i) /\ L[i].start = day[at(i)].start
          /\ L[i].end = day[at(i)].end /\ L[i].order = day[at(i)].order
      BY <1>12
    <3>3. day[at(i)].start < day[at(i)].end /\ day[at(i)].order = old[at(i)].order
      BY <1>1, <3>1 DEF Redrawn
    <3> QED
      BY <3>1, <3>2, <3>3
  <2>2. \A i, j \in 1..N : L[i].id = L[j].id => i = j
    <3> SUFFICES ASSUME NEW i \in 1..N, NEW j \in 1..N, L[i].id = L[j].id PROVE i = j
      OBVIOUS
    <3>1. C[at(i)] = i - 1 /\ C[at(j)] = j - 1 /\ at(i) = at(j)
      BY <1>9, <1>12
    <3> QED
      BY <3>1
  <2>3. \A id \in D : \E i \in 1..N : L[i].id = id
    <3> SUFFICES ASSUME NEW id \in D PROVE \E i \in 1..N : L[i].id = id
      OBVIOUS
    <3>1. C[id] \in 0..(N - 1)
      BY <1>6
    <3>2. C[id] + 1 \in 1..N /\ (C[id] + 1) - 1 = C[id]
      BY <3>1
    <3>3. at(C[id] + 1) \in D /\ C[at(C[id] + 1)] = C[id]
      BY <1>9, <3>2
    <3>4. at(C[id] + 1) = id
      BY <1>6, <3>3
    <3> QED
      BY <1>12, <3>2, <3>4
  <2> QED
    BY <1>1, <1>5, <1>11, <2>1, <2>2, <2>3 DEF Listed
<1>14. InOrder(L)
  <2> SUFFICES ASSUME NEW i \in 1..N, NEW j \in 1..N, i < j PROVE ~Sooner(L[j], L[i])
    BY <1>11 DEF InOrder
  <2>1. at(i) \in D /\ at(j) \in D /\ C[at(i)] = i - 1 /\ C[at(j)] = j - 1
    BY <1>9
  <2>2. at(i) # at(j) /\ ~(C[at(j)] < C[at(i)])
    BY <2>1
  <2>3. <<at(i), at(j)>> \in F
    BY <1>3, <1>6, <2>1, <2>2
  <2>4. ~Sooner(day[at(j)], day[at(i)])
    BY <1>3, <2>1, <2>3
  <2> QED
    BY <1>12, <2>4 DEF Sooner
<1>15. \A i \in 1..Len(L) : L[i].start = day[L[i].id].start /\ L[i].end = day[L[i].id].end
  BY <1>11, <1>12
<1> QED
  BY <1>8, <1>13, <1>14, <1>15

\* A preview of a day that nobody changed since: the other blocks are where they were, or
\* behind one another after the dragged one.
Shown(preview, base, id, window) ==
    /\ DOMAIN preview = DOMAIN base /\ id \in DOMAIN base
    /\ preview[id].start >= window.start
    /\ OnGrid(preview[id].start) /\ OnGrid(preview[id].end)
    /\ \A other \in (DOMAIN base) \ {id} :
          \/ /\ preview[other].start = base[other].start
             /\ preview[other].end = base[other].end
          \/ /\ preview[other].start > preview[id].start /\ preview[other].end <= window.end
             /\ \E pusher \in DOMAIN base : preview[pusher].end = preview[other].start
             /\ Ordered(base) => OnGrid(preview[other].start) /\ OnGrid(preview[other].end)

LEMMA NoDayIs == IsDay(NoDay)
<1>1. DOMAIN NoDay = {}
  BY DEF NoDay
<1>2. NoDay \in [{} -> Blocks]
  BY DEF NoDay
<1>3. {} \in SUBSET Int
  OBVIOUS
<1>4. NoDay \in TypedDays
  BY <1>2, <1>3 DEF TypedDays
<1> QED
  BY <1>1, <1>4, FS_EmptySet DEF IsDay, Disjoint

\* The live day with the block where it is held.
HeldDay(g, from) ==
    [id \in DOMAIN from |->
        IF id = g.id THEN [from[id] EXCEPT !.start = g.drop, !.end = g.drop + g.length]
        ELSE from[id]]

\* The list the cascade begins with is as it should be.
LEMMA LineBegins ==
    ASSUME NEW from, IsDay(from), NEW g, Holding(g)
    PROVE  LineOK(g, from, Lined(HeldDay(g, from), from), 0)
<1>1. PICK held : held = HeldDay(g, from)
  OBVIOUS
<1>2. PICK D \in SUBSET Int : D = DOMAIN from /\ \A id \in D : from[id] \in Blocks
  BY DEF IsDay, TypedDays
<1>3. PICK e \in Nat : e = g.drop + g.length /\ e > g.drop
  BY DEF Holding
<1>4. \A id \in D : held[id] = IF id = g.id THEN [from[id] EXCEPT !.start = g.drop, !.end = e]
                               ELSE from[id]
  BY <1>1, <1>2, <1>3 DEF HeldDay
<1>5. ASSUME NEW id \in D
      PROVE  /\ held[id] \in Blocks /\ held[id].order = from[id].order
             /\ id = g.id => held[id].start = g.drop /\ held[id].end = e
             /\ id # g.id => held[id].start = from[id].start /\ held[id].end = from[id].end
  <2>1. CASE id = g.id
    <3>1. PICK b \in Blocks : b = from[id]
      BY <1>2
    <3>2. held[id] = [b EXCEPT !.start = g.drop, !.end = e]
      BY <1>4, <2>1, <3>1
    <3>3. g.drop \in Nat
      BY DEF Holding
    <3>4. /\ [b EXCEPT !.start = g.drop, !.end = e] \in Blocks
          /\ [b EXCEPT !.start = g.drop, !.end = e].order = b.order
          /\ [b EXCEPT !.start = g.drop, !.end = e].start = g.drop
          /\ [b EXCEPT !.start = g.drop, !.end = e].end = e
      BY <1>3, <3>3 DEF Blocks
    <3> QED
      BY <2>1, <3>1, <3>2, <3>4
  <2>2. CASE id # g.id
    BY <1>2, <1>4, <2>2
  <2> QED
    BY <2>1, <2>2
<1>6. Redrawn(held, from)
  <2>1. DOMAIN held = D /\ held = [id \in D |-> held[id]]
    BY <1>1, <1>2 DEF HeldDay
  <2>2. held \in [D -> Blocks]
    BY <1>5, <2>1
  <2>3. \A id \in D : held[id].start < held[id].end
    BY <1>2, <1>3, <1>5 DEF IsDay
  <2> QED
    BY <1>2, <1>5, <2>1, <2>2, <2>3 DEF Redrawn, TypedDays
<1>7. PICK L : L = Lined(held, from)
  OBVIOUS
<1>8. /\ Listed(from, L) /\ InOrder(L)
      /\ \A i \in 1..Len(L) : L[i].start = held[L[i].id].start /\ L[i].end = held[L[i].id].end
  BY <1>6, <1>7, LinedIs
<1>9. ASSUME NEW i \in 1..Len(L)
      PROVE  (Held(g, L[i]) \/ Stays(g, from, L[i])) /\ ~Pushed(g, from, L[i])
  <2>1. L[i].id \in D
    BY <1>2, <1>8 DEF Listed
  <2>2. CASE L[i].id = g.id
    <3>1. L[i].start = g.drop /\ L[i].end = g.drop + g.length
      BY <1>3, <1>5, <1>8, <2>1, <2>2
    <3>2. g.drop \in Nat /\ g.length \in Nat
      BY DEF Holding
    <3> QED
      BY <2>2, <3>1, <3>2 DEF Held, Length, Pushed
  <2>3. CASE L[i].id # g.id
    <3>1. L[i].start = from[L[i].id].start /\ L[i].end = from[L[i].id].end
      BY <1>5, <1>8, <2>1, <2>3
    <3>2. L[i].start \in Nat
      BY <1>8, RowsAre
    <3> QED
      BY <2>3, <3>1, <3>2 DEF Stays, Pushed
  <2> QED
    BY <2>2, <2>3
<1> QED
  BY <1>1, <1>7, <1>8, <1>9 DEF LineOK, Placed, Backed, Aligned, Blocked, Counted

\* What the user is shown when nothing is left to move.
LEMMA RankedIs ==
    ASSUME Grid \in Nat \ {0}, NEW from, IsDay(from), NEW g, Holding(g),
           NEW L, NEW scans, LineOK(g, from, L, scans), Clashes(L) = {},
           g.drop >= g.window.start
    PROVE  /\ IsDay(Ranked(L)) /\ DOMAIN Ranked(L) = DOMAIN from
           /\ g.id \in DOMAIN from => Shown(Ranked(L), from, g.id, g.window)
<1>1. /\ Listed(from, L) /\ InOrder(L) /\ Placed(g, from, L) /\ Backed(g, from, L)
      /\ (Ordered(from) => Aligned(g, from, L))
  BY DEF LineOK
<1>2. PICK N \in Nat : N = Len(L) /\ DOMAIN L = 1..N
  BY <1>1, RowsAre DEF Listed
<1>3. PICK D \in SUBSET Int : D = DOMAIN from /\ IsFiniteSet(D)
  BY DEF IsDay, TypedDays
<1>4. PICK R : R = Ranked(L)
  OBVIOUS
<1> DEFINE rank(id) == CHOOSE i \in DOMAIN L : L[i].id = id
<1>5. {L[i].id : i \in DOMAIN L} = D
  <2>1. \A i \in 1..N : L[i].id \in D
    BY <1>1, <1>2, <1>3 DEF Listed
  <2>2. \A id \in D : \E i \in 1..N : L[i].id = id
    BY <1>1, <1>2, <1>3 DEF Listed
  <2> QED
    BY <1>2, <2>1, <2>2
<1>6. ASSUME NEW id \in D PROVE rank(id) \in 1..N /\ L[rank(id)].id = id
  <2>1. \E i \in 1..N : L[i].id = id
    BY <1>1, <1>2, <1>3 DEF Listed
  <2> QED
    BY <1>2, <2>1
<1>7. R = [id \in D |-> [start |-> L[rank(id)].start, end |-> L[rank(id)].end,
                         order |-> rank(id) - 1]]
  BY <1>4, <1>5 DEF Ranked
<1> HIDE DEF rank
<1>8. ASSUME NEW id \in D
      PROVE  /\ R[id] \in Blocks /\ R[id].start = L[rank(id)].start
             /\ R[id].end = L[rank(id)].end /\ R[id].start < R[id].end
  <2>1. L[rank(id)].start \in Nat /\ L[rank(id)].end \in Nat /\ L[rank(id)].start < L[rank(id)].end
    BY <1>1, <1>2, <1>6, RowsAre
  <2>2. rank(id) - 1 \in Int
    <3>1. PICK i \in 1..N : i = rank(id)
      BY <1>6
    <3>2. i - 1 \in Int
      OBVIOUS
    <3> QED
      BY <3>1, <3>2
  <2> QED
    BY <1>7, <2>1, <2>2 DEF Blocks
<1>9. DOMAIN R = D /\ R \in TypedDays
  BY <1>7, <1>8 DEF TypedDays
<1>10. Disjoint(R)
  <2> SUFFICES ASSUME NEW a \in D, NEW b \in D, a # b, TimesOverlap(R[a], R[b]) PROVE FALSE
    BY <1>9 DEF Disjoint
  <2>1. rank(a) # rank(b) /\ rank(a) \in 1..Len(L) /\ rank(b) \in 1..Len(L)
    BY <1>2, <1>6
  <2>2. CASE rank(a) < rank(b)
    <3>1. L[rank(a)].end <= L[rank(b)].start
      BY <1>1, <2>1, <2>2, ChainIs
    <3> QED
      BY <1>1, <1>8, <2>1, <3>1, RowsAre DEF TimesOverlap
  <2>3. CASE rank(b) < rank(a)
    <3>1. L[rank(b)].end <= L[rank(a)].start
      BY <1>1, <2>1, <2>3, ChainIs
    <3> QED
      BY <1>1, <1>8, <2>1, <3>1, RowsAre DEF TimesOverlap
  <2> QED
    BY <2>1, <2>2, <2>3
<1>11. IsDay(R)
  BY <1>3, <1>8, <1>9, <1>10 DEF IsDay
<1>12. ASSUME g.id \in D PROVE Shown(R, from, g.id, g.window)
  <2>1. Held(g, L[rank(g.id)])
    BY <1>1, <1>2, <1>6, <1>12, HeldIs
  <2>2. R[g.id].start = g.drop /\ R[g.id].end = g.drop + g.length
    <3>1. R[g.id].start \in Nat /\ R[g.id].end \in Nat /\ g.length \in Nat /\ g.drop \in Nat
      BY <1>8, <1>12 DEF Blocks, Holding
    <3>2. R[g.id].start = g.drop /\ R[g.id].end - R[g.id].start = g.length
      BY <1>8, <1>12, <2>1 DEF Held, Length
    <3> QED
      BY <3>1, <3>2
  <2>3. OnGrid(R[g.id].start) /\ OnGrid(R[g.id].end) /\ R[g.id].start >= g.window.start
    <3>1. g.drop \in Int /\ g.length \in Int
      BY DEF Holding
    <3> QED
      BY <2>2, <3>1, GridSum DEF Holding
  <2>4. ASSUME NEW other \in D \ {g.id}
        PROVE  \/ R[other].start = from[other].start /\ R[other].end = from[other].end
               \/ /\ R[other].start > R[g.id].start /\ R[other].end <= g.window.end
                  /\ \E pusher \in D : R[pusher].end = R[other].start
                  /\ Ordered(from) => OnGrid(R[other].start) /\ OnGrid(R[other].end)
    <3>1. PICK i \in 1..Len(L) : i = rank(other) /\ L[i].id = other
      BY <1>2, <1>6
    <3>2. R[other].start = L[i].start /\ R[other].end = L[i].end
      BY <1>8, <3>1
    <3>3. Stays(g, from, L[i]) \/ Pushed(g, from, L[i])
      BY <1>1, <3>1 DEF Placed, Held
    <3>4. CASE Stays(g, from, L[i])
      BY <3>1, <3>2, <3>4 DEF Stays
    <3>5. CASE Pushed(g, from, L[i])
      <4>1. PICK j \in 1..Len(L) : L[j].end = L[i].start
        BY <1>1, <3>5 DEF Backed
      <4>2. L[j].id \in D /\ rank(L[j].id) = j
        <5>1. L[j].id \in D
          BY <1>1, <1>3 DEF Listed
        <5> QED
          BY <1>1, <1>2, <1>6, <5>1 DEF Listed
      <4>3. R[L[j].id].end = R[other].start
        BY <1>8, <3>2, <4>1, <4>2
      <4>4. Ordered(from) => OnGrid(R[other].start) /\ OnGrid(R[other].end)
        BY <1>1, <3>2, <3>5 DEF Aligned
      <4>5. R[other].start > R[g.id].start /\ R[other].end <= g.window.end
        BY <2>2, <3>2, <3>5 DEF Pushed
      <4> QED
        BY <4>2, <4>3, <4>4, <4>5
    <3> QED
      BY <3>3, <3>4, <3>5
  <2> QED
    BY <1>3, <1>9, <1>12, <2>3, <2>4 DEF Shown
<1> QED
  BY <1>3, <1>4, <1>9, <1>11, <1>12

-----------------------------------------------------------------------------
(* Where a drop goes *)

LEMMA RenderStartIs ==
    ASSUME Stub \in Nat, NEW day, IsDay(day), NEW window, IsWindow(window)
    PROVE  RenderStart(day, window) \in Int
<1>1. \A id \in DOMAIN day : day[id].start \in Nat
  <2>1. \A id \in DOMAIN day : day[id] \in Blocks
    BY DEF IsDay, TypedDays
  <2> QED
    BY <2>1 DEF Blocks
<1>2. window.start \in Nat
  BY DEF IsWindow, Spans
<1>3. PICK V \in SUBSET Nat :
          V = {day[id].start : id \in {b \in DOMAIN day :
                  day[b].end > window.start /\ day[b].start < window.end}}
  BY <1>1
<1>4. PICK base \in Int : base = IF V # {} /\ Later(Min(V), window.start) - window.start > Stub
                                 THEN Later(Min(V), window.start) - Stub ELSE window.start
  <2>1. CASE V # {}
    <3>1. V \in SUBSET Int /\ 0 \in Int /\ \A x \in V : 0 <= x
      OBVIOUS
    <3>2. Min(V) \in V
      BY <2>1, <3>1, LeastIs
    <3>3. PICK m \in Nat : m = Min(V)
      BY <3>2
    <3>4. PICK first \in Nat : first = Later(m, window.start)
      BY <1>2 DEF Later
    <3>5. first - Stub \in Int /\ window.start \in Int
      BY <1>2, <3>4
    <3>6. first = Later(Min(V), window.start)
      BY <3>3, <3>4
    <3> QED
      BY <3>5, <3>6
  <2>2. CASE V = {}
    BY <1>2, <2>2
  <2> QED
    BY <2>1, <2>2
<1>10. PICK T \in SUBSET Nat : T = Starts(day)
  BY <1>1 DEF Starts
<1>5. PICK S \in SUBSET Int : S = {base} \union T
  <2>1. base \in Int /\ \A x \in T : x \in Int
    BY <1>4, <1>10
  <2>2. {base} \union T \in SUBSET Int
    BY <2>1
  <2> QED
    BY <2>2
<1>6. PICK a \in Int : a = Earlier(base, 0)
  BY DEF Earlier
<1>7. (\A x \in S : a <= x) /\ S # {}
  BY <1>4, <1>5, <1>6, <1>10 DEF Earlier
<1>8. Min(S) \in S
  BY <1>7, LeastIs
<1>9. RenderStart(day, window) = Min(S)
  BY <1>3, <1>4, <1>5, <1>10 DEF RenderStart
<1> QED
  BY <1>8, <1>9

LEMMA DropAtIs ==
    ASSUME Grid \in Nat \ {0}, NEW pointer \in Int, drag.origin \in Int, IsWindow(drag.window),
           drag.length \in Nat, OnGrid(drag.length)
    PROVE  /\ DropAt(pointer) \in Nat /\ OnGrid(DropAt(pointer))
           /\ DropAt(pointer) >= drag.window.start
<1>1. /\ drag.window.start \in Nat /\ drag.window.end \in Nat
      /\ OnGrid(drag.window.start) /\ OnGrid(drag.window.end)
  BY DEF IsWindow, Spans
<1>2. PICK below \in Int :
          /\ below = IF Snapped(pointer) < drag.origin THEN GridUp(drag.origin)
                     ELSE Snapped(pointer)
          /\ OnGrid(below)
  BY SnappedIs, GridUpIs
<1>3. PICK within \in Int :
          /\ within = IF below + drag.length > drag.window.end
                      THEN drag.window.end - drag.length ELSE below
          /\ OnGrid(within)
  <2>1. PICK e \in Int, l \in Int : e = drag.window.end /\ l = drag.length
    BY <1>1
  <2>2. e - l \in Int /\ OnGrid(e - l)
    <3>1. OnGrid(e) /\ OnGrid(l)
      BY <1>1, <2>1
    <3>2. OnGrid(e - l)
      BY <2>1, <3>1, GridSum
    <3> QED
      BY <2>1, <3>2
  <2> QED
    BY <1>2, <2>1, <2>2
<1>4. PICK edge \in Int : edge = GridUp(drag.window.start) /\ OnGrid(edge)
                          /\ edge >= drag.window.start
  BY <1>1, GridUpIs
<1>5. DropAt(pointer) = IF within < drag.window.start THEN edge ELSE within
  BY <1>2, <1>3, <1>4 DEF DropAt
<1> QED
  BY <1>1, <1>3, <1>4, <1>5

-----------------------------------------------------------------------------
(* The invariant *)

States == [day : TypedDays, revision : Nat, window : Windows]

Stores ==
    /\ stored \in States /\ seen \in States
    /\ IsDay(stored.day) /\ IsDay(seen.day)
    /\ stored.revision <= MaxWrites + 1 /\ seen.revision <= stored.revision
    /\ seen.revision = stored.revision => seen.day = stored.day
    /\ stored.revision > MaxWrites =>
          seen.revision = stored.revision /\ drag = None /\ posted = None
    /\ elsewhere \in BOOLEAN

Gesture ==
    /\ frame \in Pointers \union {None}
    /\ frame # None => drag # None
    /\ drag # None =>
          /\ drag \in Gestures /\ posted = None
          /\ IsDay(drag.snapshot) /\ drag.id \in DOMAIN drag.snapshot
          /\ drag.length > 0 /\ OnGrid(drag.length)
          /\ drag.window = seen.window
          /\ drag.since <= seen.revision
          /\ drag.since = seen.revision => drag.snapshot = seen.day
          /\ IsDay(drag.preview)
          /\ drag.preview # NoDay => drag.valid
          /\ drag.preview # NoDay /\ drag.since = seen.revision =>
                Shown(drag.preview, drag.snapshot, drag.id, drag.window)

Cascading ==
    cascade # None =>
        /\ drag # None /\ frame = None
        /\ drag.drop \in Nat /\ OnGrid(drag.drop) /\ drag.drop >= drag.window.start
        /\ cascade.from = seen.day /\ cascade.scans \in Nat
        /\ DOMAIN cascade = {"from", "line", "scans"}
        /\ LineOK(drag, cascade.from, cascade.line, cascade.scans)

Posting ==
    posted # None =>
        /\ IsDay(posted.shown) /\ posted.shown # NoDay
        /\ posted.base \in TypedDays /\ posted.window \in Windows
        /\ {posted.since, posted.revision} \subseteq Nat
        /\ posted.since <= posted.revision /\ posted.revision <= stored.revision
        /\ posted.updates =
              [id \in {b \in DOMAIN posted.shown :
                          b \in DOMAIN posted.base => posted.shown[b] # posted.base[b]} |->
                  posted.shown[id]]
        /\ Fresh =>
              /\ DOMAIN posted.base = DOMAIN stored.day
              /\ \A id \in (DOMAIN stored.day) \ {posted.dragged} :
                    stored.day[id] = posted.base[id]
        /\ posted.since = stored.revision =>
              /\ stored.day = posted.base
              /\ Shown(posted.shown, posted.base, posted.dragged, posted.window)

DragInv == Stores /\ Gesture /\ Cascading /\ Posting

-----------------------------------------------------------------------------
(* The cascade keeps the invariant *)

DragBefore == Ordinary /\ DragInv

LEMMA GestureIs ==
    ASSUME DragBefore, drag # None
    PROVE  /\ Grid \in Nat \ {0} /\ drag \in Gestures /\ posted = None
           /\ drag.id \in Int /\ drag.length \in Nat /\ drag.length > 0 /\ OnGrid(drag.length)
           /\ drag.origin \in Int /\ drag.window = seen.window /\ IsWindow(drag.window)
           /\ drag.window.start \in Nat /\ drag.window.end \in Nat
           /\ stored.revision <= MaxWrites /\ IsDay(seen.day)
           /\ seen.revision \in Nat /\ stored.revision \in Nat
<1>1. /\ drag \in Gestures /\ posted = None /\ drag.length > 0 /\ OnGrid(drag.length)
      /\ drag.window = seen.window
  BY DEF DragBefore, DragInv, Gesture
<1>2. drag.id \in Int /\ drag.length \in Nat /\ drag.origin \in Int
  BY <1>1 DEF Gestures
<1>3. /\ seen.window \in Windows /\ stored.revision \in Nat /\ seen.revision \in Nat
      /\ MaxWrites \in Nat /\ IsDay(seen.day) /\ ~(stored.revision > MaxWrites)
  BY DEF DragBefore, DragInv, Stores, States, Ordinary
<1>4. IsWindow(drag.window)
  BY <1>1, <1>3 DEF DragBefore, Ordinary
<1>5. drag.window.start \in Nat /\ drag.window.end \in Nat
  BY <1>4 DEF IsWindow, Spans
<1> QED
  BY <1>1, <1>2, <1>3, <1>4, <1>5 DEF DragBefore, Ordinary

LEMMA CascadeIs ==
    ASSUME DragBefore, cascade # None
    PROVE  /\ drag # None /\ Holding(drag) /\ IsDay(cascade.from) /\ cascade.from = seen.day
           /\ cascade.scans \in Nat /\ DOMAIN cascade = {"from", "line", "scans"}
           /\ LineOK(drag, cascade.from, cascade.line, cascade.scans)
           /\ frame = None /\ drag.drop \in Nat /\ OnGrid(drag.drop)
           /\ drag.drop >= drag.window.start
<1>1. Cascading
  BY DEF DragBefore, DragInv
<1> QED
  BY <1>1, GestureIs DEF Cascading, Holding

LEMMA ShiftKeeps ==
    ASSUME DragBefore, Shift
    PROVE  DragInv'
<1>1. cascade # None /\ Clashes(cascade.line) # {}
  BY DEF Shift
<1>2. PICK L, from, scans :
          /\ L = cascade.line /\ from = cascade.from /\ scans = cascade.scans
          /\ scans \in Nat
  BY <1>1, CascadeIs
<1>3. PICK i, p, moved : /\ i = FirstClash(L) /\ p = Displaced(L, i, drag.id)
                         /\ moved = Behind(L, i, drag.id)
  OBVIOUS
<1>4. PICK M : M = Resorted(L, p, moved)
  OBVIOUS
<1>5. moved.end <= drag.window.end
  BY <1>2, <1>3 DEF Shift
<1>6. PICK S : S = [cascade EXCEPT !.scans = scans + 1]
  OBVIOUS
<1>7. S = Scanned
  BY <1>2, <1>6 DEF Scanned
<1>8. /\ DOMAIN S = {"from", "line", "scans"} /\ S.line = L /\ S.from = from
      /\ S.scans = scans + 1
  BY <1>1, <1>2, <1>6, CascadeIs
<1>9. cascade' = [S EXCEPT !.line = M]
  BY <1>2, <1>3, <1>4, <1>7, <1>8 DEF Shift
<1>10. /\ DOMAIN cascade' = {"from", "line", "scans"} /\ cascade'.line = M
       /\ cascade'.from = from /\ cascade'.scans = scans + 1
  BY <1>8, <1>9
<1>11. LineOK(drag, from, M, scans + 1)
  <2>1. /\ Grid \in Nat \ {0} /\ IsDay(from) /\ Holding(drag) /\ LineOK(drag, from, L, scans)
        /\ Clashes(L) # {} /\ Behind(L, FirstClash(L), drag.id).end <= drag.window.end
    BY <1>1, <1>2, <1>3, <1>5, CascadeIs, GestureIs
  <2>2. LineOK(drag, from, Resorted(L, Displaced(L, FirstClash(L), drag.id),
                                    Behind(L, FirstClash(L), drag.id)), scans + 1)
    BY <1>2, <2>1, ShiftsWell
  <2> QED
    BY <1>3, <1>4, <2>2
<1>12. UNCHANGED <<stored, seen, elsewhere, drag, frame, posted>>
  BY DEF Shift
<1>13. Stores' /\ Gesture' /\ Posting'
  BY <1>12 DEF DragBefore, DragInv, Stores, Gesture, Posting, Fresh
<1>14. Cascading'
  BY <1>1, <1>2, <1>10, <1>11, <1>12, CascadeIs DEF Cascading
<1> QED
  BY <1>13, <1>14 DEF DragInv

LEMMA GiveUpKeeps ==
    ASSUME DragBefore, GiveUp
    PROVE  DragInv'
<1>1. /\ cascade # None /\ cascade' = None
      /\ drag' = [drag EXCEPT !.valid = FALSE, !.preview = NoDay]
      /\ UNCHANGED <<stored, seen, elsewhere, frame, posted>>
  BY DEF GiveUp
<1>2. drag # None /\ drag \in Gestures /\ NoDay \in TypedDays /\ IsDay(NoDay)
  BY <1>1, CascadeIs, GestureIs, NoDayIs DEF IsDay
<1>3. PICK d \in Gestures : d = drag /\ drag' = [d EXCEPT !.valid = FALSE, !.preview = NoDay]
  BY <1>1, <1>2
<1>4. /\ drag' \in Gestures /\ drag'.preview = NoDay
      /\ drag'.id = drag.id /\ drag'.snapshot = drag.snapshot /\ drag'.since = drag.since
      /\ drag'.length = drag.length /\ drag'.window = drag.window
  BY <1>2, <1>3 DEF Gestures
<1>5. drag' # None
  BY <1>4 DEF DragBefore, Ordinary
<1>6. Stores' /\ Posting'
  BY <1>1, <1>2, GestureIs DEF DragBefore, DragInv, Stores, States, Posting, Fresh
<1>7. Gesture'
  <2>1. Gesture
    BY DEF DragBefore, DragInv
  <2> QED
    BY <1>1, <1>2, <1>4, <1>5, <2>1 DEF Gesture
<1> QED
  BY <1>1, <1>6, <1>7 DEF DragInv, Cascading

LEMMA SettleKeeps ==
    ASSUME DragBefore, Settle
    PROVE  DragInv'
<1>1. PICK R : R = Ranked(cascade.line)
  OBVIOUS
<1>2. /\ cascade # None /\ cascade' = None /\ Clashes(cascade.line) = {}
      /\ drag' = [drag EXCEPT !.valid = TRUE, !.preview = R]
      /\ UNCHANGED <<stored, seen, elsewhere, frame, posted>>
  BY <1>1 DEF Settle
<1>3. drag # None /\ drag \in Gestures
  BY <1>2, CascadeIs, GestureIs
<1>4. /\ IsDay(R) /\ DOMAIN R = DOMAIN seen.day
      /\ drag.id \in DOMAIN seen.day => Shown(R, seen.day, drag.id, drag.window)
  <2>1. PICK L, from, scans : /\ L = cascade.line /\ from = cascade.from /\ scans = cascade.scans
                              /\ from = seen.day
    BY <1>2, CascadeIs
  <2>2. /\ Grid \in Nat \ {0} /\ IsDay(from) /\ Holding(drag) /\ LineOK(drag, from, L, scans)
        /\ Clashes(L) = {} /\ drag.drop >= drag.window.start
    BY <1>2, <2>1, CascadeIs, GestureIs
  <2>3. /\ IsDay(Ranked(L)) /\ DOMAIN Ranked(L) = DOMAIN from
        /\ drag.id \in DOMAIN from => Shown(Ranked(L), from, drag.id, drag.window)
    BY <2>2, RankedIs
  <2> QED
    BY <1>1, <2>1, <2>3
<1>5. PICK d \in Gestures : d = drag /\ drag' = [d EXCEPT !.valid = TRUE, !.preview = R]
  BY <1>2, <1>3
<1>6. /\ drag' \in Gestures /\ drag'.preview = R /\ drag'.valid
      /\ drag'.id = drag.id /\ drag'.snapshot = drag.snapshot /\ drag'.since = drag.since
      /\ drag'.length = drag.length /\ drag'.window = drag.window
  <2>1. R \in TypedDays
    BY <1>4 DEF IsDay
  <2> QED
    BY <1>5, <2>1 DEF Gestures
<1>7. Stores' /\ Posting'
  BY <1>2, <1>3, GestureIs DEF DragBefore, DragInv, Stores, States, Posting, Fresh
<1>8. Gesture'
  <2>1. Gesture
    BY DEF DragBefore, DragInv
  <2>2. drag.since = seen.revision => Shown(R, drag.snapshot, drag.id, drag.window)
    BY <1>3, <1>4, <2>1 DEF Gesture
  <2>3. drag' # None
    BY <1>6 DEF DragBefore, Ordinary
  <2> QED
    BY <1>2, <1>3, <1>4, <1>6, <2>1, <2>2, <2>3 DEF Gesture
<1> QED
  BY <1>2, <1>7, <1>8 DEF DragInv, Cascading

-----------------------------------------------------------------------------
(* The gesture keeps the invariant *)

LEMMA StartDragKeeps ==
    ASSUME DragBefore, NEW id \in DOMAIN seen.day, StartDrag(id)
    PROVE  DragInv'
<1>1. /\ cascade = None /\ drag = None /\ posted = None /\ seen.revision < MaxWrites
      /\ UNCHANGED <<stored, seen, elsewhere, frame, cascade, posted>>
  BY DEF StartDrag, Disabled
<1>2. /\ Grid \in Nat \ {0} /\ Stub \in Nat /\ MaxWrites \in Nat
      /\ seen.day \in TypedDays /\ IsDay(seen.day) /\ seen.revision \in Nat
      /\ stored.revision \in Nat
      /\ seen.window \in Windows /\ IsWindow(seen.window) /\ seen.window \in Spans
  BY DEF DragBefore, DragInv, Ordinary, Stores, States, IsWindow
<1>3. id \in Int /\ seen.day[id] \in Blocks
  BY <1>2 DEF TypedDays
<1>4. PICK length \in Nat : /\ length = RoundUp(Length(seen.day[id]))
                            /\ length > 0 /\ OnGrid(length)
  <2>1. Length(seen.day[id]) \in Int
    BY <1>3 DEF Length, Blocks
  <2> QED
    BY <1>2, <2>1, RoundUpIs
<1>5. PICK origin \in Int : origin = RenderStart(seen.day, seen.window)
  BY <1>2, RenderStartIs
<1>6. drag' = [id |-> id, snapshot |-> seen.day, since |-> seen.revision,
               length |-> length, window |-> seen.window, origin |-> origin,
               drop |-> None, valid |-> TRUE, preview |-> NoDay]
  BY <1>4, <1>5 DEF StartDrag
<1>7. NoDay \in TypedDays /\ IsDay(NoDay)
  BY NoDayIs DEF IsDay
<1>8. /\ drag' \in Gestures
      /\ drag'.id = id /\ drag'.snapshot = seen.day /\ drag'.since = seen.revision
      /\ drag'.length = length /\ drag'.window = seen.window /\ drag'.preview = NoDay
  BY <1>2, <1>3, <1>4, <1>5, <1>6, <1>7 DEF Gestures
<1>9. drag' # None
  BY <1>8 DEF DragBefore, Ordinary
<1>10. Stores'
  <2>1. ~(stored.revision > MaxWrites)
    <3>1. stored.revision > MaxWrites => seen.revision = stored.revision
      BY DEF DragBefore, DragInv, Stores
    <3> QED
      BY <1>1, <1>2, <3>1
  <2> QED
    BY <1>1, <2>1 DEF DragBefore, DragInv, Stores
<1>11. Gesture'
  BY <1>1, <1>2, <1>4, <1>7, <1>8, <1>9 DEF DragBefore, DragInv, Gesture
<1> QED
  BY <1>1, <1>10, <1>11 DEF DragInv, Cascading, Posting

LEMMA PointerMoveKeeps ==
    ASSUME DragBefore, PointerMove
    PROVE  DragInv'
<1>1. /\ cascade = None /\ drag # None /\ frame' \in Pointers
      /\ UNCHANGED <<stored, seen, elsewhere, drag, cascade, posted>>
  BY DEF PointerMove
<1>2. Stores' /\ Gesture' /\ Posting' /\ Cascading'
  BY <1>1 DEF DragBefore, DragInv, Stores, Gesture, Posting, Fresh, Cascading
<1> QED
  BY <1>2 DEF DragInv

LEMMA UpdatePreviewKeeps ==
    ASSUME DragBefore, UpdatePreview
    PROVE  DragInv'
<1>1. /\ cascade = None /\ frame # None /\ frame' = None
      /\ UNCHANGED <<stored, seen, elsewhere, posted>>
  BY DEF UpdatePreview
<1>2. drag # None /\ frame \in Int
  BY <1>1 DEF DragBefore, DragInv, Gesture, Ordinary
<1>3. PICK drop : /\ drop = DropAt(frame) /\ drop \in Nat /\ OnGrid(drop)
                  /\ drop >= drag.window.start
  BY <1>2, GestureIs, DropAtIs
<1>4. PICK from : from = seen.day /\ IsDay(from)
  BY <1>2, GestureIs
<1>5. PICK d \in Gestures : d = drag /\ drag' = [d EXCEPT !.drop = drop]
  BY <1>2, <1>3, GestureIs DEF UpdatePreview
<1>6. /\ drag' \in Gestures /\ drag'.drop = drop /\ drag'.preview = drag.preview
      /\ drag'.id = drag.id /\ drag'.snapshot = drag.snapshot /\ drag'.since = drag.since
      /\ drag'.length = drag.length /\ drag'.window = drag.window /\ drag'.valid = drag.valid
  BY <1>3, <1>5 DEF Gestures
<1>7. drag' # None
  BY <1>6 DEF DragBefore, Ordinary
<1>8. PICK g : g = drag'
  OBVIOUS
<1>9. Holding(g)
  BY <1>2, <1>3, <1>6, <1>8, GestureIs DEF Holding
<1>10. cascade' = [from |-> from, line |-> Lined(HeldDay(g, from), from), scans |-> 0]
  <2>1. HeldDay(g, from) = [id \in DOMAIN seen.day |->
                               IF id = drag.id
                               THEN [seen.day[id] EXCEPT !.start = drop,
                                                         !.end = drop + drag.length]
                               ELSE seen.day[id]]
    BY <1>4, <1>6, <1>8 DEF HeldDay
  <2> QED
    BY <1>3, <1>4, <2>1 DEF UpdatePreview
<1>11. LineOK(g, from, Lined(HeldDay(g, from), from), 0)
  <2>1. Grid \in Nat \ {0}
    BY <1>2, GestureIs
  <2> QED
    BY <1>4, <1>9, <2>1, LineBegins
<1>12. /\ cascade'.from = from /\ cascade'.scans = 0
       /\ cascade'.line = Lined(HeldDay(g, from), from)
       /\ DOMAIN cascade' = {"from", "line", "scans"}
  BY <1>10
<1>13. Cascading'
  BY <1>1, <1>3, <1>4, <1>6, <1>7, <1>8, <1>11, <1>12 DEF Cascading
<1>14. Stores' /\ Posting'
  BY <1>1, <1>2, GestureIs DEF DragBefore, DragInv, Stores, States, Posting, Fresh
<1>15. Gesture'
  <2>1. Gesture
    BY DEF DragBefore, DragInv
  <2> QED
    BY <1>1, <1>2, <1>6, <1>7, <2>1 DEF Gesture
<1> QED
  BY <1>13, <1>14, <1>15 DEF DragInv

LEMMA CancelDragKeeps ==
    ASSUME DragBefore, CancelDrag
    PROVE  DragInv'
<1>1. /\ cascade = None /\ drag' = None /\ frame' = None
      /\ UNCHANGED <<stored, seen, elsewhere, cascade, posted>>
  BY DEF CancelDrag, NoGesture
<1>2. Stores' /\ Gesture' /\ Posting' /\ Cascading'
  BY <1>1 DEF DragBefore, DragInv, Stores, Gesture, Posting, Fresh, Cascading
<1> QED
  BY <1>2 DEF DragInv

LEMMA EndDragKeeps ==
    ASSUME DragBefore, EndDrag
    PROVE  DragInv'
<1>1. /\ cascade = None /\ drag # None /\ drag' = None /\ frame' = None
      /\ UNCHANGED <<stored, seen, elsewhere, cascade>>
  BY DEF EndDrag, NoGesture
<1>2. posted = None /\ stored.revision <= MaxWrites /\ drag \in Gestures
  BY <1>1, GestureIs
<1>3. Stores'
  <2>1. Stores /\ stored.revision \in Nat /\ MaxWrites \in Nat
    BY DEF DragBefore, DragInv, Stores, States, Ordinary
  <2> QED
    BY <1>1, <1>2, <2>1 DEF Stores
<1>4. Gesture' /\ Cascading'
  BY <1>1 DEF DragBefore, DragInv, Gesture, Cascading
<1>5. CASE posted' = posted
  BY <1>2, <1>3, <1>4, <1>5 DEF DragInv, Posting
<1>6. CASE posted' # posted
  <2>1. /\ posted' = [updates |-> Updates, revision |-> seen.revision, dragged |-> drag.id,
                      base |-> drag.snapshot, since |-> drag.since,
                      shown |-> drag.preview, window |-> drag.window]
        /\ drag.preview # NoDay /\ ~ExternallyMutated
    BY <1>6 DEF EndDrag
  <2>2. /\ posted'.updates = Updates /\ posted'.revision = seen.revision
        /\ posted'.dragged = drag.id /\ posted'.base = drag.snapshot
        /\ posted'.since = drag.since /\ posted'.shown = drag.preview
        /\ posted'.window = drag.window
    BY <2>1
  <2>3. Gesture /\ Stores
    BY DEF DragBefore, DragInv
  <2>4. /\ IsDay(drag.preview) /\ drag.snapshot \in TypedDays /\ drag.window \in Windows
        /\ drag.since \in Nat /\ seen.revision \in Nat /\ stored.revision \in Nat
        /\ drag.since <= seen.revision /\ seen.revision <= stored.revision
    BY <1>1, <2>3 DEF Gesture, Gestures, Stores, States
  <2>5. Updates = [id \in {b \in DOMAIN drag.preview :
                              b \in DOMAIN drag.snapshot =>
                                  drag.preview[b] # drag.snapshot[b]} |-> drag.preview[id]]
    BY DEF Updates
  <2>6. ASSUME seen.revision = stored.revision
        PROVE  /\ DOMAIN drag.snapshot = DOMAIN stored.day
               /\ \A id \in (DOMAIN stored.day) \ {drag.id} : stored.day[id] = drag.snapshot[id]
    BY <2>1, <2>3, <2>6 DEF ExternallyMutated, Stores
  <2>7. ASSUME drag.since = stored.revision
        PROVE  /\ stored.day = drag.snapshot
               /\ Shown(drag.preview, drag.snapshot, drag.id, drag.window)
    <3>1. drag.since = seen.revision /\ seen.revision = stored.revision
      BY <2>4, <2>7
    <3> QED
      BY <1>1, <2>1, <2>3, <3>1 DEF Gesture, Stores
  <2>8. Posting'
    BY <1>1, <2>1, <2>2, <2>4, <2>5, <2>6, <2>7 DEF Posting, Fresh
  <2> QED
    BY <1>3, <1>4, <2>8 DEF DragInv
<1> QED
  BY <1>5, <1>6

-----------------------------------------------------------------------------
(* The server keeps the invariant *)

\* A block clamped to a window is a block.
LEMMA ClampedIsBlock ==
    ASSUME NEW block \in Blocks, NEW window, IsWindow(window), NEW clamp
    PROVE  Ranged(block) /\ Clamped(block, window, clamp) \in Blocks
<1>1. Ranged(block) /\ DOMAIN block = {"start", "end", "order"}
  BY DEF Blocks, Ranged
<1>2. PICK s, e : s = Clamped(block, window, clamp).start /\ e = Clamped(block, window, clamp).end
  OBVIOUS
<1>3. s \in Nat /\ e \in Nat
  <2>1. /\ block.start \in Nat /\ block.end \in Nat
        /\ window.start \in Nat /\ window.end \in Nat
    BY DEF Blocks, IsWindow, Spans
  <2>2. /\ s = IF clamp.start THEN Later(block.start, window.start) ELSE block.start
        /\ e = IF clamp.end THEN Earlier(block.end, window.end) ELSE block.end
    BY <1>1, <1>2, ClampedIs
  <2> QED
    BY <2>1, <2>2 DEF Later, Earlier
<1>4. Clamped(block, window, clamp)
        = [f \in DOMAIN block |-> IF f = "start" THEN s ELSE IF f = "end" THEN e ELSE block[f]]
  BY <1>1, <1>2, ClampedIs
<1>5. Clamped(block, window, clamp) = [start |-> s, end |-> e, order |-> block.order]
  BY <1>1, <1>4
<1> QED
  BY <1>1, <1>3, <1>5 DEF Blocks

LEMMA WindowsAre ==
    ASSUME NEW window, IsWindow(window)
    PROVE  WindowOf(window)
BY DEF IsWindow, Spans, WindowOf

\* The day a request asks for.
Asked == [id \in DOMAIN stored.day |->
             IF id \in DOMAIN posted.updates THEN posted.updates[id] ELSE stored.day[id]]

LEMMA AskedIs ==
    ASSUME DragBefore, posted # None
    PROVE  /\ stored.day \in TypedDays /\ DOMAIN stored.day \subseteq Int
           /\ DOMAIN Asked = DOMAIN stored.day
           /\ \A id \in DOMAIN Asked : Asked[id] \in Blocks
           /\ IsWindow(stored.window)
           /\ posted.shown \in TypedDays /\ DOMAIN posted.shown \subseteq Int
<1>1. /\ stored.day \in TypedDays /\ IsWindow(stored.window)
      /\ DOMAIN stored.day \subseteq Int /\ \A id \in DOMAIN stored.day : stored.day[id] \in Blocks
  <2>1. stored.day \in TypedDays /\ stored.window \in Windows
    BY DEF DragBefore, DragInv, Stores, States
  <2>2. IsWindow(stored.window)
    BY <2>1 DEF DragBefore, Ordinary
  <2> QED
    BY <2>1, <2>2 DEF TypedDays
<1>2. /\ posted.shown \in TypedDays /\ DOMAIN posted.shown \subseteq Int
      /\ \A id \in DOMAIN posted.shown : posted.shown[id] \in Blocks
  <2>1. posted.shown \in TypedDays
    BY DEF DragBefore, DragInv, Posting, IsDay
  <2> QED
    BY <2>1 DEF TypedDays
<1>3. \A id \in DOMAIN posted.updates : posted.updates[id] \in Blocks
  BY <1>2 DEF DragBefore, DragInv, Posting
<1>4. \A id \in DOMAIN stored.day : Asked[id] \in Blocks
  BY <1>1, <1>3 DEF Asked
<1> QED
  BY <1>1, <1>2, <1>4 DEF Asked

\* An accepted reordering is a day of the same blocks.
LEMMA AcceptedIsDay ==
    ASSUME DragBefore, posted # None, Accepted # NoDay
    PROVE  Fresh /\ IsDay(Accepted) /\ DOMAIN Accepted = DOMAIN stored.day
<1>1. PICK after, window : after = Asked /\ window = stored.window
  OBVIOUS
<1>2. PICK plan : plan = Commanded(stored.day, after, "manual", window)
  OBVIOUS
<1>3. Fresh /\ plan.accepted /\ Accepted = plan.day
  BY <1>1, <1>2 DEF Accepted, Asked
<1>4. /\ DOMAIN after = DOMAIN stored.day /\ DOMAIN after \subseteq Int
      /\ \A id \in DOMAIN after : after[id] \in Blocks
      /\ IsWindow(window)
  BY <1>1, AskedIs
<1>5. WindowOf(window) /\ \A id \in DOMAIN after : Ranged(after[id])
  BY <1>4, WindowsAre, ClampedIsBlock
<1>6. /\ plan.day = [id \in DOMAIN after |-> Clamped(after[id], window,
                                                   ChangedEnds(stored.day, after, id))]
      /\ DayOf(plan.day) /\ Disjoint(plan.day)
  BY <1>2, <1>3, <1>4, <1>5, AcceptedIs
<1>7. \A id \in DOMAIN after : plan.day[id] \in Blocks
  BY <1>4, <1>6, ClampedIsBlock
<1>8. DOMAIN plan.day = DOMAIN stored.day /\ plan.day \in TypedDays
  BY <1>4, <1>6, <1>7 DEF TypedDays
<1>9. IsFiniteSet(DOMAIN stored.day)
  BY DEF DragBefore, DragInv, Stores, IsDay
<1> QED
  BY <1>3, <1>6, <1>8, <1>9 DEF IsDay, DayOf

LEMMA StoredIs ==
    ASSUME DragBefore, NEW day \in TypedDays
    PROVE  /\ Stored(day) \in States /\ Stored(day).day = day
           /\ Stored(day).window = stored.window
           /\ Stored(day).revision = IF day = stored.day THEN stored.revision
                                     ELSE stored.revision + 1
<1>1. PICK s \in States : s = stored
  BY DEF DragBefore, DragInv, Stores
<1>2. PICK n \in Nat : n = IF day = s.day THEN s.revision ELSE s.revision + 1
  BY DEF States
<1>3. Stored(day) = [s EXCEPT !.day = day, !.revision = n]
  BY <1>1, <1>2 DEF Stored, States
<1> QED
  BY <1>1, <1>2, <1>3 DEF States

LEMMA ReorderKeeps ==
    ASSUME DragBefore, Reorder
    PROVE  DragInv'
<1>1. /\ cascade = None /\ posted # None /\ posted' = None
      /\ UNCHANGED <<elsewhere, drag, frame, cascade>>
      /\ stored' = IF Accepted = NoDay THEN stored ELSE Stored(Accepted)
      /\ seen' = IF Accepted = NoDay /\ Fresh THEN seen
                 ELSE [seen EXCEPT !.day = stored'.day, !.revision = stored'.revision]
  BY DEF Reorder
<1>2. Stores /\ Gesture /\ MaxWrites \in Nat
  BY DEF DragBefore, DragInv, Ordinary
<1>3. drag = None
  BY <1>1, <1>2 DEF Gesture
<1>4. stored.revision \in Nat /\ stored.revision <= MaxWrites
  BY <1>1, <1>2 DEF Stores, States
<1>5. /\ stored' \in States /\ IsDay(stored'.day) /\ stored'.revision <= MaxWrites + 1
      /\ stored'.revision \in Nat
  <2>1. CASE Accepted = NoDay
    BY <1>1, <1>2, <1>4, <2>1 DEF Stores, States
  <2>2. CASE Accepted # NoDay
    <3>1. IsDay(Accepted) /\ Accepted \in TypedDays
      BY <1>1, <2>2, AcceptedIsDay DEF IsDay
    <3>2. stored' = Stored(Accepted)
      BY <1>1, <2>2
    <3>3. /\ stored' \in States /\ stored'.day = Accepted
          /\ stored'.revision = IF Accepted = stored.day THEN stored.revision
                                ELSE stored.revision + 1
      BY <3>1, <3>2, StoredIs
    <3>4. stored'.revision \in Nat /\ stored'.revision <= MaxWrites + 1
      BY <1>2, <1>4, <3>3
    <3> QED
      BY <3>1, <3>3, <3>4
  <2> QED
    BY <2>1, <2>2
<1>6. /\ seen' \in States /\ IsDay(seen'.day) /\ seen'.revision <= stored'.revision
      /\ seen'.revision = stored'.revision => seen'.day = stored'.day
      /\ stored'.revision > MaxWrites => seen'.revision = stored'.revision
  <2>1. CASE Accepted = NoDay /\ Fresh
    <3>1. seen' = seen /\ stored' = stored
      BY <1>1, <2>1
    <3> QED
      BY <1>2, <3>1 DEF Stores
  <2>2. CASE ~(Accepted = NoDay /\ Fresh)
    <3>1. PICK d \in TypedDays, n \in Nat : d = stored'.day /\ n = stored'.revision
      BY <1>5 DEF States
    <3>2. PICK s \in States : s = seen /\ seen' = [s EXCEPT !.day = d, !.revision = n]
      BY <1>1, <1>2, <2>2, <3>1 DEF Stores
    <3>3. seen' \in States /\ seen'.day = d /\ seen'.revision = n
      BY <3>1, <3>2 DEF States
    <3> QED
      BY <1>5, <3>1, <3>3
  <2> QED
    BY <2>1, <2>2
<1>7. Stores'
  BY <1>1, <1>2, <1>3, <1>5, <1>6 DEF Stores
<1>8. Gesture' /\ Posting' /\ Cascading'
  BY <1>1, <1>2, <1>3 DEF Gesture, Posting, Cascading
<1> QED
  BY <1>7, <1>8 DEF DragInv

-----------------------------------------------------------------------------
(* Everybody else keeps the invariant *)

\* A new revision makes what the page has, and what it sent, an old one.
LEMMA NewerKeeps ==
    ASSUME DragBefore, cascade = None, stored.revision < MaxWrites,
           UNCHANGED <<seen, elsewhere, drag, frame, cascade, posted>>,
           NEW day, IsDay(day), day # stored.day, stored' = Stored(day)
    PROVE  DragInv'
<1>1. Stores /\ Gesture /\ Posting /\ MaxWrites \in Nat
  BY DEF DragBefore, DragInv, Ordinary
<1>2. /\ stored' \in States /\ stored'.day = day /\ stored'.revision = stored.revision + 1
      /\ stored.revision \in Nat /\ seen.revision \in Nat
  BY <1>1, StoredIs DEF IsDay, Stores, States
<1>3. Stores'
  BY <1>1, <1>2 DEF Stores
<1>4. Gesture' /\ Cascading'
  BY <1>1 DEF Gesture, Cascading
<1>5. Posting'
  <2> SUFFICES ASSUME posted # None PROVE Posting'
    BY DEF Posting
  <2>1. /\ posted.revision \in Nat /\ posted.since \in Nat
        /\ posted.since <= posted.revision /\ posted.revision <= stored.revision
    BY <1>1 DEF Posting
  <2>2. posted.revision # stored'.revision /\ posted.since # stored'.revision
    BY <1>2, <2>1
  <2>3. posted.revision <= stored'.revision
    BY <1>2, <2>1
  <2> QED
    BY <1>1, <2>1, <2>2, <2>3 DEF Posting, Fresh
<1> QED
  BY <1>3, <1>4, <1>5 DEF DragInv

LEMMA OtherWriterKeeps ==
    ASSUME DragBefore, OtherWriter
    PROVE  DragInv'
<1>1. /\ cascade = None /\ stored.revision < MaxWrites
      /\ UNCHANGED <<seen, elsewhere, drag, frame, cascade, posted>>
  BY DEF OtherWriter
<1>2. /\ IsDay(stored.day) /\ stored.day \in TypedDays
      /\ \A id \in DOMAIN stored.day : stored.day[id] \in Blocks
  BY DEF DragBefore, DragInv, Stores, IsDay, TypedDays
<1>3. PICK id \in DOMAIN stored.day :
         \/ \E place \in Places :
                LET day == [stored.day EXCEPT ![id].start = place.start, ![id].end = place.end]
                IN  day # stored.day /\ Disjoint(day) /\ stored' = Stored(day)
         \/ stored' = Stored(Restrict(stored.day, DOMAIN stored.day \ {id}))
  BY DEF OtherWriter
<1>4. ASSUME NEW place \in Places,
             LET day == [stored.day EXCEPT ![id].start = place.start, ![id].end = place.end]
             IN  day # stored.day /\ Disjoint(day) /\ stored' = Stored(day)
      PROVE  DragInv'
  <2>1. place.start \in Nat /\ place.end \in Nat /\ place.start < place.end
    BY DEF DragBefore, Ordinary, Spans
  <2>2. PICK old : old = stored.day
    OBVIOUS
  <2>3. PICK day : day = [old EXCEPT ![id].start = place.start, ![id].end = place.end]
    OBVIOUS
  <2>4. day # stored.day /\ Disjoint(day) /\ stored' = Stored(day)
    BY <1>4, <2>2, <2>3
  <2>5. PICK b \in Blocks : b = old[id]
    BY <1>2, <2>2
  <2>6. PICK c : c = [b EXCEPT !.start = place.start, !.end = place.end]
    OBVIOUS
  <2>7. c \in Blocks /\ c.start = place.start /\ c.end = place.end
    BY <2>1, <2>6 DEF Blocks
  <2>8. DOMAIN day = DOMAIN old /\ day = [other \in DOMAIN old |-> IF other = id THEN c
                                                                   ELSE old[other]]
    BY <1>2, <2>2, <2>3, <2>5, <2>6 DEF TypedDays
  <2>9. \A other \in DOMAIN day : day[other] \in Blocks /\ day[other].start < day[other].end
    BY <1>2, <2>1, <2>2, <2>7, <2>8 DEF IsDay
  <2>10. day \in TypedDays
    BY <1>2, <2>2, <2>8, <2>9 DEF TypedDays
  <2>11. IsDay(day)
    BY <1>2, <2>2, <2>4, <2>8, <2>9, <2>10 DEF IsDay
  <2> QED
    BY <1>1, <2>4, <2>11, NewerKeeps
<1>5. CASE stored' = Stored(Restrict(stored.day, DOMAIN stored.day \ {id}))
  <2>1. PICK old : old = stored.day
    OBVIOUS
  <2>2. PICK D : D = DOMAIN old \ {id}
    OBVIOUS
  <2>3. PICK day : day = Restrict(old, D)
    OBVIOUS
  <2>4. day = [other \in D |-> old[other]] /\ DOMAIN day = D
    BY <2>3 DEF Restrict
  <2>5. day # old
    BY <1>3, <2>1, <2>2, <2>4
  <2>6. D \in SUBSET Int /\ \A other \in D : other \in DOMAIN old /\ old[other] \in Blocks
    BY <1>2, <2>1, <2>2 DEF TypedDays
  <2>7. day \in TypedDays
    BY <2>4, <2>6 DEF TypedDays
  <2>8. IsFiniteSet(D)
    BY <1>2, <2>1, <2>2, FS_RemoveElement DEF IsDay
  <2>9. IsDay(day)
    BY <1>2, <2>1, <2>4, <2>6, <2>7, <2>8 DEF IsDay, Disjoint
  <2>10. stored' = Stored(day)
    BY <1>5, <2>1, <2>2, <2>3
  <2> QED
    BY <1>1, <2>1, <2>5, <2>9, <2>10, NewerKeeps
<1> QED
  BY <1>3, <1>4, <1>5

LEMMA ChangeWindowKeeps ==
    ASSUME DragBefore, ChangeWindow
    PROVE  DragInv'
<1>1. cascade = None /\ UNCHANGED <<seen, elsewhere, drag, frame, cascade, posted>>
  BY DEF ChangeWindow
<1>2. PICK window \in Windows : stored' = [stored EXCEPT !.window = window]
  BY DEF ChangeWindow
<1>3. PICK s \in States : s = stored
  BY DEF DragBefore, DragInv, Stores
<1>4. stored' \in States /\ stored'.day = stored.day /\ stored'.revision = stored.revision
  BY <1>2, <1>3 DEF States
<1>5. Stores' /\ Gesture' /\ Posting' /\ Cascading'
  BY <1>1, <1>4 DEF DragBefore, DragInv, Stores, Gesture, Posting, Fresh, Cascading
<1> QED
  BY <1>5 DEF DragInv

LEMMA AdoptDayKeeps ==
    ASSUME DragBefore, AdoptDay
    PROVE  DragInv'
<1>1. /\ cascade = None /\ seen' = stored
      /\ UNCHANGED <<stored, elsewhere, cascade, posted>>
      /\ \/ drag' = None /\ frame' = None
         \/ drag' = drag /\ frame' = frame /\ stored.window = seen.window
  BY DEF AdoptDay, NoGesture
<1>2. Stores /\ Gesture /\ Posting /\ Cascading
  BY DEF DragBefore, DragInv
<1>3. stored.revision \in Nat /\ seen.revision \in Nat /\ seen.revision <= stored.revision
  BY <1>2 DEF Stores, States
<1>4. Stores'
  BY <1>1, <1>2, <1>3 DEF Stores
<1>5. Posting' /\ Cascading'
  BY <1>1, <1>2 DEF Posting, Fresh, Cascading
<1>6. Gesture'
  <2>1. CASE drag' = None /\ frame' = None
    BY <2>1 DEF Gesture
  <2>2. CASE drag = None /\ drag' = drag /\ frame' = frame
    BY <1>2, <2>2 DEF Gesture
  <2>3. CASE drag # None /\ drag' = drag /\ frame' = frame /\ stored.window = seen.window
    <3>1. drag.since \in Nat /\ drag.since <= seen.revision
      BY <1>2, <2>3 DEF Gesture, Gestures
    <3>2. drag.since <= stored.revision
      BY <1>3, <3>1
    <3>3. drag.since = stored.revision => drag.since = seen.revision /\ seen.day = stored.day
      BY <1>2, <1>3, <3>1 DEF Stores
    <3> QED
      BY <1>1, <1>2, <2>3, <3>2, <3>3 DEF Gesture
  <2> QED
    BY <1>1, <2>1, <2>2, <2>3
<1> QED
  BY <1>4, <1>5, <1>6 DEF DragInv

LEMMA WriteElsewhereKeeps ==
    ASSUME DragBefore, WriteElsewhere
    PROVE  DragInv'
<1>1. /\ elsewhere' = ~elsewhere
      /\ UNCHANGED <<stored, seen, drag, frame, cascade, posted>>
  BY DEF WriteElsewhere
<1>2. Gesture' /\ Posting' /\ Cascading'
  BY <1>1 DEF DragBefore, DragInv, Gesture, Posting, Fresh, Cascading
<1>3. Stores'
  <2>1. elsewhere' \in BOOLEAN
    BY <1>1
  <2> QED
    BY <1>1, <2>1 DEF DragBefore, DragInv, Stores
<1> QED
  BY <1>2, <1>3 DEF DragInv

-----------------------------------------------------------------------------
(* The theorems *)

LEMMA DragBegins ==
    ASSUME Ordinary, DragInit
    PROVE  DragInv
<1>1. PICK day \in Days, window \in Windows :
          stored = [day |-> day, revision |-> 0, window |-> window]
  BY DEF DragInit
<1>2. IsDay(day) /\ day \in TypedDays
  BY DEF Ordinary, IsDay
<1>3. /\ stored \in States /\ stored.day = day /\ stored.revision = 0
  BY <1>1, <1>2 DEF States
<1>4. seen = stored /\ elsewhere = FALSE /\ drag = None /\ frame = None
      /\ cascade = None /\ posted = None
  BY DEF DragInit
<1>5. Stores
  <2>1. MaxWrites \in Nat
    BY DEF Ordinary
  <2>2. /\ stored.revision <= MaxWrites + 1 /\ ~(stored.revision > MaxWrites)
        /\ seen.revision <= stored.revision
    BY <1>3, <1>4, <2>1
  <2> QED
    BY <1>2, <1>3, <1>4, <2>2 DEF Stores
<1>6. Gesture /\ Posting /\ Cascading
  BY <1>4 DEF Gesture, Posting, Cascading
<1> QED
  BY <1>5, <1>6 DEF DragInv

LEMMA DragSteps ==
    ASSUME Ordinary, DragInv, [DragNext]_dragVars
    PROVE  DragInv'
<1> USE DEF DragBefore
<1>1. CASE Shift
  BY <1>1, ShiftKeeps
<1>2. CASE GiveUp
  BY <1>2, GiveUpKeeps
<1>3. CASE Settle
  BY <1>3, SettleKeeps
<1>4. ASSUME NEW id \in DOMAIN seen.day, StartDrag(id) PROVE DragInv'
  BY <1>4, StartDragKeeps
<1>5. CASE PointerMove
  BY <1>5, PointerMoveKeeps
<1>6. CASE UpdatePreview
  BY <1>6, UpdatePreviewKeeps
<1>7. CASE CancelDrag
  BY <1>7, CancelDragKeeps
<1>8. CASE EndDrag
  BY <1>8, EndDragKeeps
<1>9. CASE Reorder
  BY <1>9, ReorderKeeps
<1>10. CASE OtherWriter
  BY <1>10, OtherWriterKeeps
<1>11. CASE ChangeWindow
  BY <1>11, ChangeWindowKeeps
<1>12. CASE AdoptDay
  BY <1>12, AdoptDayKeeps
<1>13. CASE WriteElsewhere
  BY <1>13, WriteElsewhereKeeps
<1>14. CASE UNCHANGED dragVars
  BY <1>14 DEF dragVars, DragInv, Stores, Gesture, Posting, Fresh, Cascading
<1> QED
  BY <1>1, <1>2, <1>3, <1>4, <1>5, <1>6, <1>7, <1>8, <1>9, <1>10, <1>11, <1>12, <1>13, <1>14
  DEF DragNext

\* The invariant that carries both promises of a drag holds at every moment (useDrag).
THEOREM DragInvariance == Ordinary => (DragSpec => []DragInv)
<1> SUFFICES ASSUME Ordinary PROVE DragSpec => []DragInv
  OBVIOUS
<1>1. DragInit => DragInv
  BY DragBegins
<1>2. DragInv /\ [DragNext]_dragVars => DragInv'
  BY DragSteps
<1> QED
  BY <1>1, <1>2, PTL DEF DragSpec

LEMMA DragInvIsSound ==
    ASSUME Ordinary, DragInv
    PROVE  CascadeSound
<1> USE DEF DragBefore
<1>1. Stores /\ Gesture /\ Posting /\ Cascading
  BY DEF DragInv
<1>2. DragTypeOK
  <2>1. /\ stored.revision \in 0..(MaxWrites + 1) /\ seen.revision \in 0..stored.revision
        /\ stored.window \in Windows /\ seen.window \in Windows
        /\ Disjoint(stored.day) /\ Disjoint(seen.day) /\ elsewhere \in BOOLEAN
    BY <1>1 DEF Stores, States, IsDay, Ordinary
  <2>2. cascade # None => drag # None /\ drag.drop % Grid = 0
    BY <1>1 DEF Cascading, OnGrid
  <2> QED
    BY <1>1, <2>1, <2>2 DEF DragTypeOK, Gesture
<1>3. CascadeForward
  <2> SUFFICES ASSUME cascade # None, NEW i \in DOMAIN cascade.line
               PROVE  LET block == cascade.line[i]
                          old == cascade.from[block.id]
                      IN  IF block.id = drag.id
                          THEN block.start = drag.drop /\ Length(block) = drag.length
                          ELSE block.start >= old.start /\ Length(block) >= Length(old)
    BY DEF CascadeForward
  <2>1. PICK L, from : L = cascade.line /\ from = cascade.from
    OBVIOUS
  <2>2. IsDay(from) /\ Listed(from, L) /\ Placed(drag, from, L)
    BY <2>1, CascadeIs DEF LineOK
  <2>3. i \in 1..Len(L)
    BY <2>1, <2>2 DEF Listed
  <2>4. PICK row, old : row = L[i] /\ old = from[row.id]
    OBVIOUS
  <2>5. row.start \in Nat /\ row.end \in Nat /\ old.start \in Nat /\ old.end \in Nat
    BY <2>2, <2>3, <2>4, RowsAre
  <2>6. Held(drag, row) \/ Stays(drag, from, row) \/ Pushed(drag, from, row)
    BY <2>2, <2>3, <2>4 DEF Placed
  <2> QED
    BY <2>1, <2>4, <2>5, <2>6 DEF Held, Stays, Pushed, Length
<1>4. CascadeBounded
  <2> SUFFICES ASSUME cascade # None
               PROVE  LET others == Cardinality(DOMAIN cascade.from) - 1
                      IN  cascade.scans <= (others * (others + 1)) \div 2
    BY DEF CascadeBounded
  <2>1. PICK L, from, scans : /\ L = cascade.line /\ from = cascade.from
                              /\ scans = cascade.scans /\ scans \in Nat
    BY CascadeIs
  <2>2. IsDay(from) /\ LineOK(drag, from, L, scans)
    BY <2>1, CascadeIs
  <2> QED
    BY <2>1, <2>2, CountIs
<1>5. PreviewDisjoint
  <2> SUFFICES ASSUME drag # None, drag.preview # NoDay PROVE PreviewDisjoint
    BY DEF PreviewDisjoint
  <2>1. drag.valid /\ Disjoint(drag.preview)
    BY <1>1 DEF Gesture, IsDay
  <2>2. ASSUME drag.since = seen.revision,
               NEW id \in (DOMAIN drag.preview) \intersect (DOMAIN drag.snapshot), id # drag.id
        PROVE  \/ drag.preview[id].start = drag.snapshot[id].start
               \/ \E other \in DOMAIN drag.preview :
                      drag.preview[other].end = drag.preview[id].start
    <3>1. Shown(drag.preview, drag.snapshot, drag.id, drag.window)
      BY <1>1, <2>2 DEF Gesture
    <3> QED
      BY <2>2, <3>1 DEF Shown
  <2> QED
    BY <2>1, <2>2 DEF PreviewDisjoint
<1> QED
  BY <1>2, <1>3, <1>4, <1>5 DEF CascadeSound

\* Whatever the days, the grid and the pointer: while a block is dragged, the cascade moves
\* the others forward only, needs at most n(n+1)/2 moves, and what is shown at its end has
\* no overlap (resolveConflicts, useDrag.ts).
THEOREM CascadesSound == Ordinary => (DragSpec => []CascadeSound)
<1> SUFFICES ASSUME Ordinary PROVE DragSpec => []CascadeSound
  OBVIOUS
<1>1. DragSpec => []DragInv
  BY DragInvariance
<1>2. DragInv => CascadeSound
  BY DragInvIsSound
<1> QED
  BY <1>1, <1>2, PTL

\* A preview that the server judges against the day it was computed from is what it stores.
LEMMA DropsAsShown ==
    ASSUME DragBefore, Reorder, posted.since = stored.revision, stored.window = posted.window,
           posted.shown[posted.dragged].end <= posted.window.end, Ordered(posted.base)
    PROVE  stored'.day = posted.shown
<1>1. posted # None /\ Posting /\ stored.revision \in Nat
  BY DEF Reorder, DragBefore, DragInv, Stores, States
<1>2. PICK base, shown, id, window :
          /\ base = posted.base /\ shown = posted.shown /\ id = posted.dragged
          /\ window = posted.window
  OBVIOUS
<1>3. /\ IsDay(shown) /\ shown # NoDay /\ stored.day = base
      /\ Shown(shown, base, id, window) /\ IsWindow(window)
  BY <1>1, <1>2, AskedIs DEF Posting
<1>4. Fresh
  BY <1>1 DEF Posting, Fresh
<1>5. PICK D \in SUBSET Int : /\ D = DOMAIN shown /\ D = DOMAIN base
                              /\ shown = [b \in D |-> shown[b]]
                              /\ \A b \in D : shown[b] \in Blocks
  BY <1>3 DEF IsDay, TypedDays, Shown
<1>6. posted.updates = [b \in {c \in D : c \in D => shown[c] # base[c]} |-> shown[b]]
  BY <1>1, <1>2, <1>5 DEF Posting
<1>7. Asked = shown /\ DOMAIN posted.updates \subseteq DOMAIN stored.day
  <2>1. \A b \in D : b \in DOMAIN posted.updates <=> shown[b] # base[b]
    BY <1>6
  <2>2. \A b \in D : b \in DOMAIN posted.updates => posted.updates[b] = shown[b]
    BY <1>6
  <2>3. Asked = [b \in D |-> IF b \in DOMAIN posted.updates THEN posted.updates[b] ELSE base[b]]
    BY <1>3, <1>5 DEF Asked
  <2>4. Asked = [b \in D |-> shown[b]]
    BY <2>1, <2>2, <2>3
  <2> QED
    BY <1>3, <1>5, <1>6, <2>4
<1>8. ASSUME NEW b \in D PROVE Clean(shown[b], window, ChangedEnds(base, shown, b))
  <2>1. /\ shown[b].start \in Nat /\ shown[b].end \in Nat /\ shown[b].start < shown[b].end
        /\ window.start \in Nat /\ window.end \in Nat
        /\ shown[id].start \in Nat /\ shown[id].end \in Nat /\ shown[id].start < shown[id].end
        /\ id \in D
    BY <1>3, <1>5 DEF IsDay, Blocks, IsWindow, Spans, Shown
  <2>2. PICK ends : ends = ChangedEnds(base, shown, b)
    OBVIOUS
  <2>3. /\ ends.start = (shown[b].start # base[b].start)
        /\ ends.end = (shown[b].end # base[b].end)
    BY <1>5, <2>2 DEF ChangedEnds
  <2>4. shown[id].start >= window.start /\ shown[id].end <= window.end
    BY <1>2, <1>3 DEF Shown
  <2>5. CASE b = id
    <3>1. /\ OnGrid(shown[b].start) /\ OnGrid(shown[b].end)
          /\ InWindow(shown[b].start, window) /\ InWindow(shown[b].end, window)
      BY <1>3, <2>1, <2>4, <2>5 DEF Shown, InWindow
    <3> QED
      BY <2>1, <2>2, <3>1 DEF Clean
  <2>6. CASE b # id
    <3>1. \/ shown[b].start = base[b].start /\ shown[b].end = base[b].end
          \/ /\ shown[b].start > shown[id].start /\ shown[b].end <= window.end
             /\ OnGrid(shown[b].start) /\ OnGrid(shown[b].end)
      BY <1>2, <1>3, <1>5, <2>6 DEF Shown
    <3>2. CASE shown[b].start = base[b].start /\ shown[b].end = base[b].end
      BY <2>1, <2>2, <2>3, <3>2 DEF Clean
    <3>3. CASE /\ shown[b].start > shown[id].start /\ shown[b].end <= window.end
               /\ OnGrid(shown[b].start) /\ OnGrid(shown[b].end)
      <4>1. InWindow(shown[b].start, window) /\ InWindow(shown[b].end, window)
        BY <2>1, <2>4, <3>3 DEF InWindow
      <4> QED
        BY <2>1, <2>2, <3>3, <4>1 DEF Clean
    <3> QED
      BY SMTT(30), <3>1, <3>2, <3>3
  <2> QED
    BY <2>5, <2>6
<1>9. Commanded(base, shown, "manual", window) = [accepted |-> TRUE, day |-> shown]
  <2>1. /\ shown = [b \in DOMAIN shown |-> shown[b]] /\ DOMAIN shown \subseteq Int
        /\ \A b \in DOMAIN shown : Ranged(shown[b])
        /\ WindowOf(window) /\ Disjoint(shown)
        /\ \A b \in DOMAIN shown : Clean(shown[b], window, ChangedEnds(base, shown, b))
    BY <1>3, <1>5, <1>8, WindowsAre, ClampedIsBlock DEF IsDay
  <2> QED
    BY <2>1, CommandedIs
<1>10. Accepted = shown
  BY <1>2, <1>3, <1>4, <1>7, <1>9 DEF Accepted, Asked
<1>11. stored' = Stored(shown) /\ shown \in TypedDays
  BY <1>3, <1>10 DEF Reorder, IsDay
<1> QED
  BY <1>2, <1>11, StoredIs

LEMMA DropsSoundStep ==
    ASSUME Ordinary, DragInv, [DragNext]_dragVars
    PROVE  [DropStoredAsShown /\ DropLeavesOthers]_dragVars
<1> USE DEF DragBefore
<1>1. CASE Reorder
  <2>1. DropStoredAsShown
    BY <1>1, DropsAsShown DEF DropStoredAsShown
  <2>2. DropLeavesOthers
    <3> SUFFICES ASSUME posted # None, NEW id \in DOMAIN stored.day \ {posted.dragged},
                        stored'.day[id] # stored.day[id]
                 PROVE  stored.day[id] = posted.base[id]
      BY DEF DropLeavesOthers
    <3>1. Accepted # NoDay
      BY <1>1 DEF Reorder
    <3>2. Fresh
      BY <3>1, AcceptedIsDay
    <3> QED
      BY <3>2 DEF DragInv, Posting
  <2> QED
    BY <2>1, <2>2
<1>2. CASE EndDrag
  <2>1. posted = None
    BY <1>2, GestureIs DEF EndDrag
  <2> QED
    BY <2>1 DEF DropStoredAsShown, DropLeavesOthers
<1>3. CASE posted' = posted
  BY <1>3 DEF DropStoredAsShown, DropLeavesOthers
<1>4. CASE UNCHANGED dragVars
  BY <1>4
<1>5. Reorder \/ EndDrag \/ posted' = posted \/ UNCHANGED dragVars
  BY DEF DragNext, Shift, GiveUp, Settle, StartDrag, PointerMove, UpdatePreview, CancelDrag,
     OtherWriter, ChangeWindow, AdoptDay, WriteElsewhere
<1> QED
  BY <1>1, <1>2, <1>3, <1>4, <1>5

\* When nobody wrote since the drag began, the server stores the drop as it was shown, and a
\* drop never changes another block than the dragged one that somebody else had changed
\* (endDrag, useDrag.ts, and reorder_blocks, api.py).
THEOREM DropsSound == Ordinary => (DragSpec => DropSound)
<1> SUFFICES ASSUME Ordinary PROVE DragSpec => DropSound
  OBVIOUS
<1>1. DragSpec => []DragInv
  BY DragInvariance
<1>2. DragInv /\ [DragNext]_dragVars => [DropStoredAsShown /\ DropLeavesOthers]_dragVars
  BY DropsSoundStep
<1> QED
  BY <1>1, <1>2, PTL DEF DragSpec, DropSound

-----------------------------------------------------------------------------
(* The store *)

USE StoreAssumption

\* A day that validate_final_state and the category checks accept.
Plain(B) ==
    /\ B \in SUBSET Block
    /\ NonOverlapping(B)
    /\ \A b \in B : b.category \in catalog

\* What every accepted write of a client does.
Edit(c, d, st, B) ==
    /\ ByDate(c, d)
    /\ Accepts(c, d)
    /\ Commit(c, d, st, B)
    /\ UNCHANGED catalogVars
    /\ \/ UNCHANGED review
       \/ /\ status[d] = "active" /\ st = "reviewed" /\ B = blocks[d]
          /\ Freeze(d, revision[d] + 1)

Write(c, d) ==
    \/ CreateBlock(c, d) \/ PatchBlock(c, d) \/ DeleteBlock(c, d)
    \/ ReorderBlocks(c, d) \/ RestoreBlocks(c, d)
    \/ ApplyChat(c, d) \/ ApplyDraft(c, d) \/ MarkReviewed(c, d)

DaysInv == CatalogCovers /\ \A d \in Dates : NonOverlapping(blocks[d])

-----------------------------------------------------------------------------
(* Lemmas about the operators *)

LEMMA BlockFields ==
    ASSUME NEW b \in Block
    PROVE  /\ b.start \in Nat /\ b.end \in Nat /\ b.category \in Slugs /\ b.done \in BOOLEAN
           /\ b.start \in Minutes /\ b.end \in Minutes /\ b.start < b.end
           /\ b = [start |-> b.start, end |-> b.end, category |-> b.category, done |-> b.done]
  BY DEF Block, Minutes

\* Moving a block to another category keeps it a block.
LEMMA Recategorised ==
    ASSUME NEW b \in Block, NEW s \in Slugs
    PROVE  /\ [b EXCEPT !.category = s] \in Block
           /\ [b EXCEPT !.category = s].category = s
           /\ [b EXCEPT !.category = s].start = b.start
           /\ [b EXCEPT !.category = s].end = b.end
           /\ [b EXCEPT !.category = s].done = b.done
  BY DEF Block, Minutes

LEMMA MinutesOfType ==
    ASSUME NEW B \in SUBSET Block
    PROVE  MinutesOf(B) \in SUBSET Minutes /\ StartsOf(B) \in SUBSET Minutes
  <1>1. \A b \in B : b.start .. (b.end - 1) \subseteq Minutes
    BY DEF Block, Minutes
  <1>2. \A b \in B : b.start \in Minutes
    BY BlockFields
  <1>3. QED
    BY <1>1, <1>2 DEF MinutesOf, StartsOf

LEMMA StatsType ==
    ASSUME NEW B \in SUBSET Block, NEW known
    PROVE  Stats(B, known) \in Aggregates
  <1> DEFINE of(S, c) == {b \in S : Effective(b, known) = c}
             done == {b \in B : b.done}
  <1>1. done \in SUBSET Block /\ \A c \in Slugs : of(B, c) \in SUBSET Block /\ of(done, c) \in SUBSET Block
    OBVIOUS
  <1>2. \A c \in Slugs : /\ MinutesOf(of(B, c)) \in SUBSET Minutes
                         /\ MinutesOf(of(done, c)) \in SUBSET Minutes
    BY <1>1, MinutesOfType
  <1>3. StartsOf(B) \in SUBSET Minutes /\ StartsOf(done) \in SUBSET Minutes
    BY <1>1, MinutesOfType
  <1>4. [c \in Slugs |-> MinutesOf(of(B, c))] \in [Slugs -> SUBSET Minutes]
    BY <1>2
  <1>5. [c \in Slugs |-> MinutesOf(of(done, c))] \in [Slugs -> SUBSET Minutes]
    BY <1>2
  <1> HIDE DEF of, done
  <1>6. [planned |-> StartsOf(B), completed |-> StartsOf(done),
         plannedMinutes |-> [c \in Slugs |-> MinutesOf(of(B, c))],
         completedMinutes |-> [c \in Slugs |-> MinutesOf(of(done, c))]] \in Aggregates
    BY <1>3, <1>4, <1>5 DEF Aggregates
  <1>7. QED
    BY <1>6 DEF Stats, of, done

\* Fresh aggregates only use categories that exist.
LEMMA CatalogStats ==
    ASSUME CatalogCovers, NEW B, NEW slug \in Slugs \ catalog
    PROVE  /\ Stats(B, catalog).plannedMinutes[slug] = {}
           /\ Stats(B, catalog).completedMinutes[slug] = {}
  <1>1. \A b : Effective(b, catalog) # slug
    BY DEF Effective, CatalogCovers
  <1>2. \A S : {b \in S : Effective(b, catalog) = slug} = {}
    BY <1>1
  <1>3. MinutesOf({}) = {}
    BY DEF MinutesOf
  <1>4. QED
    BY <1>2, <1>3 DEF Stats

-----------------------------------------------------------------------------
(* Every write of a client is an Edit that leaves a plain day. *)

LEMMA RestoredDay ==
    ASSUME CatalogCovers, catalog \in SUBSET Slugs, NEW saved \in DayPlans
    PROVE  Plain(Adopt(saved))
  <1> DEFINE on(b) == [b EXCEPT !.category = Effective(b, catalog)]
  <1>1. \A b \in saved : Effective(b, catalog) \in catalog
    BY DEF Effective, CatalogCovers
  <1>2. saved \in SUBSET Block /\ NonOverlapping(saved)
    BY DEF DayPlans
  <1>3. \A b \in saved : /\ on(b) \in Block
                         /\ on(b).category \in catalog
                         /\ on(b).start = b.start
                         /\ on(b).end = b.end
    BY <1>1, <1>2, Recategorised
  <1> HIDE DEF on
  <1>4. NonOverlapping({on(b) : b \in saved})
    BY <1>2, <1>3 DEF NonOverlapping
  <1>5. Adopt(saved) = {on(b) : b \in saved}
    BY DEF Adopt, on
  <1>6. QED
    BY <1>3, <1>4, <1>5 DEF Plain

LEMMA PlainDay ==
    ASSUME TypeOK, DaysInv, NEW d \in Dates
    PROVE  Plain(blocks[d])
  BY DEF TypeOK, DaysInv, CatalogCovers, Plain

LEMMA WritesAreEdits ==
    ASSUME TypeOK, DaysInv, NEW c \in Clients, NEW d \in Dates, Write(c, d)
    PROVE  \E st \in Statuses, B \in SUBSET Block : Plain(B) /\ Edit(c, d, st, B)
  <1>0. /\ Plain(blocks[d])
        /\ Effectively(d) \in Statuses
        /\ status[d] # "absent" => status[d] \in Statuses
        /\ \A B : status[d] # "absent" => ActiveIfChanged(d, B) \in Statuses
        /\ {"active", "reviewed"} \subseteq Statuses
    BY PlainDay DEF TypeOK, Effectively, ActiveIfChanged, Statuses
  <1>1. CASE CreateBlock(c, d)
    <2>1. PICK b \in Block : /\ b.category \in catalog
                             /\ NonOverlapping(blocks[d] \union {b})
                             /\ Commit(c, d, "active", blocks[d] \union {b})
      BY <1>1 DEF CreateBlock
    <2>2. Plain(blocks[d] \union {b})
      BY <1>0, <2>1 DEF Plain
    <2>3. QED
      BY <1>0, <1>1, <2>1, <2>2 DEF CreateBlock, Edit, Plain
  <1>2. CASE PatchBlock(c, d)
    <2> DEFINE after(old, new) == (blocks[d] \ {old}) \union {new}
    <2>1. PICK old \in blocks[d], new \in Block :
             /\ new.category \in catalog \union {old.category}
             /\ NonOverlapping(after(old, new))
             /\ Commit(c, d, ActiveIfChanged(d, after(old, new)), after(old, new))
      BY <1>2 DEF PatchBlock
    <2>2. Plain(after(old, new))
      BY <1>0, <2>1 DEF Plain
    <2>3. QED
      BY <1>0, <1>2, <2>1, <2>2 DEF PatchBlock, ById, Edit, Plain
  <1>3. CASE DeleteBlock(c, d)
    <2>1. PICK b \in blocks[d] : Commit(c, d, "active", blocks[d] \ {b})
      BY <1>3 DEF DeleteBlock
    <2>2. Plain(blocks[d] \ {b})
      BY <1>0 DEF Plain, NonOverlapping
    <2>3. QED
      BY <1>0, <1>3, <2>1, <2>2 DEF DeleteBlock, ById, Edit, Plain
  <1>4. CASE ReorderBlocks(c, d)
    <2> DEFINE kept(moved) == {b \in Block : \E o \in moved : b.category = o.category /\ b.done = o.done}
               after(moved, to) == (blocks[d] \ moved) \union {to[b] : b \in moved}
    <2>1. PICK moved \in SUBSET blocks[d] : \E to \in [moved -> kept(moved)] :
             /\ \A b \in moved : to[b].category = b.category
             /\ NonOverlapping(after(moved, to))
             /\ Commit(c, d, ActiveIfChanged(d, after(moved, to)), after(moved, to))
      BY <1>4 DEF ReorderBlocks
    <2>2. PICK to \in [moved -> kept(moved)] :
             /\ \A b \in moved : to[b].category = b.category
             /\ NonOverlapping(after(moved, to))
             /\ Commit(c, d, ActiveIfChanged(d, after(moved, to)), after(moved, to))
      BY <2>1
    <2>3. \A b \in moved : to[b] \in Block /\ to[b].category \in catalog
      BY <1>0, <2>2 DEF Plain
    <2>4. Plain(after(moved, to))
      BY <1>0, <2>2, <2>3 DEF Plain
    <2> HIDE DEF after, kept
    <2>5. QED
      BY <1>0, <1>4, <2>2, <2>4 DEF ReorderBlocks, ById, Edit, Plain
  <1>5. CASE RestoreBlocks(c, d)
    <2>1. PICK saved \in DayPlans : Commit(c, d, Effectively(d), Adopt(saved))
      BY <1>5 DEF RestoreBlocks
    <2>2. Plain(Adopt(saved))
      BY RestoredDay DEF TypeOK, DaysInv
    <2>3. QED
      BY <1>0, <1>5, <2>1, <2>2 DEF RestoreBlocks, Edit, Plain
  <1>6. CASE ApplyChat(c, d)
    <2>1. PICK after \in DayPlans :
             /\ \A b \in after \ blocks[d] :
                   b.category \in catalog \union {o.category : o \in blocks[d]}
             /\ Commit(c, d, ActiveIfChanged(d, after), after)
      BY <1>6 DEF ApplyChat
    <2>2. Plain(after)
      BY <1>0, <2>1 DEF Plain, DayPlans
    <2>3. QED
      BY <1>0, <1>6, <2>1, <2>2 DEF ApplyChat, ById, Edit, Plain
  <1>7. CASE ApplyDraft(c, d)
    <2>1. PICK after \in DayPlans : /\ \A b \in after : b.category \in catalog
                                    /\ Commit(c, d, status[d], after)
      BY <1>7 DEF ApplyDraft
    <2>2. Plain(after)
      BY <2>1 DEF Plain, DayPlans
    <2>3. QED
      BY <1>0, <1>7, <2>1, <2>2 DEF ApplyDraft, ById, Edit, Plain
  <1>8. CASE MarkReviewed(c, d)
    BY <1>0, <1>8 DEF MarkReviewed, ById, Edit, Plain
  <1>9. QED
    BY <1>1, <1>2, <1>3, <1>4, <1>5, <1>6, <1>7, <1>8 DEF Write

-----------------------------------------------------------------------------
(* Deleting a category: days and aggregates move together. *)

LEMMA SinkedBlock ==
    ASSUME NEW slug \in Slugs, NEW b \in Block
    PROVE  LET moved == IF b.category = slug THEN [b EXCEPT !.category = Sink] ELSE b IN
           /\ moved \in Block
           /\ moved.start = b.start /\ moved.end = b.end /\ moved.done = b.done
           /\ moved.category = IF b.category = slug THEN Sink ELSE b.category
  BY Recategorised DEF StoreAssumption

LEMMA SinkedDay ==
    ASSUME TypeOK, DaysInv, NEW d \in Dates, NEW slug \in catalog \ {Sink}
    PROVE  /\ ToSink(blocks[d], slug) \in SUBSET Block
           /\ NonOverlapping(ToSink(blocks[d], slug))
           /\ \A b \in ToSink(blocks[d], slug) : b.category \in catalog \ {slug}
  <1> DEFINE on(b) == IF b.category = slug THEN [b EXCEPT !.category = Sink] ELSE b
  <1>1. blocks[d] \in SUBSET Block /\ slug \in Slugs /\ NonOverlapping(blocks[d])
    BY DEF TypeOK, DaysInv
  <1>2. \A b \in blocks[d] : /\ on(b) \in Block
                             /\ on(b).start = b.start /\ on(b).end = b.end
                             /\ on(b).category = IF b.category = slug THEN Sink ELSE b.category
    BY <1>1, SinkedBlock
  <1>3. \A b \in blocks[d] : on(b).category \in catalog \ {slug}
    BY <1>2 DEF DaysInv, CatalogCovers
  <1>4. ToSink(blocks[d], slug) = {on(b) : b \in blocks[d]}
    BY DEF ToSink
  <1> HIDE DEF on
  <1>5. NonOverlapping({on(b) : b \in blocks[d]})
    BY <1>1, <1>2 DEF NonOverlapping
  <1>6. QED
    BY <1>2, <1>3, <1>4, <1>5

LEMMA UntouchedDay ==
    ASSUME TypeOK, NEW d \in Dates, NEW slug \in Slugs, d \notin DaysUsing(slug)
    PROVE  ToSink(blocks[d], slug) = blocks[d]
  BY DEF ToSink, DaysUsing

\* Recomputing the aggregates of the rewritten day gives the folded aggregates.
LEMMA FoldedStats ==
    ASSUME NEW B \in SUBSET Block, NEW known \in SUBSET Slugs, Sink \in known,
           NEW slug \in known \ {Sink}, \A b \in B : b.category \in known
    PROVE  Stats(ToSink(B, slug), known \ {slug}) = FoldStats(Stats(B, known), slug)
  <1> DEFINE on(b) == IF b.category = slug THEN [b EXCEPT !.category = Sink] ELSE b
             A == ToSink(B, slug)
             of(S, k, c) == {b \in S : Effective(b, k) = c}
             done(S) == {b \in S : b.done}
             new == known \ {slug}
  <1>1. A = {on(b) : b \in B}
    BY DEF ToSink
  <1>2. \A b \in B : /\ on(b).start = b.start /\ on(b).end = b.end /\ on(b).done = b.done
                     /\ on(b).category = IF b.category = slug THEN Sink ELSE b.category
    BY SinkedBlock
  <1>3. \A b \in B : /\ Effective(b, known) = b.category
                     /\ Effective(on(b), new) = IF b.category = slug THEN Sink ELSE b.category
    BY <1>2 DEF Effective
  <1> HIDE DEF on, A
  <1>4. StartsOf(A) = StartsOf(B) /\ StartsOf(done(A)) = StartsOf(done(B))
    BY <1>1, <1>2 DEF StartsOf
  <1>5. ASSUME NEW S \in {B, done(B)}
        PROVE  LET T == {on(b) : b \in S} IN
               /\ MinutesOf(of(T, new, slug)) = {}
               /\ MinutesOf(of(T, new, Sink)) = MinutesOf(of(S, known, Sink)) \union MinutesOf(of(S, known, slug))
               /\ \A c \in Slugs \ {Sink, slug} : MinutesOf(of(T, new, c)) = MinutesOf(of(S, known, c))
    <2> DEFINE T == {on(b) : b \in S}
               m(b) == b.start .. (b.end - 1)
    <2>1. \A b \in S : m(on(b)) = m(b)
      BY <1>2
    <2>2. \A R : MinutesOf(R) = UNION {m(b) : b \in R}
      BY DEF MinutesOf
    <2> HIDE DEF m
    <2>3. of(T, new, slug) = {}
      BY <1>3
    <2>4. of(T, new, Sink) = {on(b) : b \in of(S, known, Sink) \union of(S, known, slug)}
      BY <1>3
    <2>5. \A c \in Slugs \ {Sink, slug} : of(T, new, c) = {on(b) : b \in of(S, known, c)}
      BY <1>3
    <2>6. \A R \in SUBSET S : MinutesOf({on(b) : b \in R}) = MinutesOf(R)
      <3> SUFFICES ASSUME NEW R \in SUBSET S
                   PROVE  MinutesOf({on(b) : b \in R}) = MinutesOf(R)
        OBVIOUS
      <3>1. {m(x) : x \in {on(b) : b \in R}} = {m(on(b)) : b \in R}
        OBVIOUS
      <3>2. {m(on(b)) : b \in R} = {m(b) : b \in R}
        BY <2>1
      <3>3. QED
        BY <2>2, <3>1, <3>2
    <2>7. \A R1, R2 : MinutesOf(R1 \union R2) = MinutesOf(R1) \union MinutesOf(R2)
      BY <2>2
    <2>8. MinutesOf({}) = {}
      BY <2>2
    <2>9. \A c : of(S, known, c) \in SUBSET S
      OBVIOUS
    <2> HIDE DEF of, T
    <2>10. MinutesOf(of(T, new, slug)) = {}
      BY <2>3, <2>8
    <2>11. MinutesOf(of(T, new, Sink)) = MinutesOf(of(S, known, Sink)) \union MinutesOf(of(S, known, slug))
      BY <2>4, <2>6, <2>7, <2>9
    <2>12. \A c \in Slugs \ {Sink, slug} : MinutesOf(of(T, new, c)) = MinutesOf(of(S, known, c))
      BY <2>5, <2>6, <2>9
    <2>13. QED
      BY <2>10, <2>11, <2>12 DEF T
  <1>6. done(A) = {on(b) : b \in done(B)}
    BY <1>1, <1>2
  <1>7. ASSUME NEW S \in {B, done(B)}, NEW T, T = {on(b) : b \in S}
        PROVE  [c \in Slugs |-> MinutesOf(of(T, new, c))]
                 = FoldMinutes([c \in Slugs |-> MinutesOf(of(S, known, c))], slug)
    <2> DEFINE f == [c \in Slugs |-> MinutesOf(of(S, known, c))]
               g == [c \in Slugs |-> MinutesOf(of(T, new, c))]
    <2>1. /\ MinutesOf(of(T, new, slug)) = {}
          /\ MinutesOf(of(T, new, Sink)) = MinutesOf(of(S, known, Sink)) \union MinutesOf(of(S, known, slug))
          /\ \A c \in Slugs \ {Sink, slug} : MinutesOf(of(T, new, c)) = MinutesOf(of(S, known, c))
      BY <1>5, <1>7
    <2> HIDE DEF of
    <2>2. \A c \in Slugs : g[c] = [f EXCEPT ![slug] = {}, ![Sink] = f[Sink] \union f[slug]][c]
      BY <2>1
    <2>3. QED
      BY <2>2 DEF FoldMinutes
  <1> DEFINE stats(S, k) == [planned |-> StartsOf(S), completed |-> StartsOf(done(S)),
                             plannedMinutes |-> [c \in Slugs |-> MinutesOf(of(S, k, c))],
                             completedMinutes |-> [c \in Slugs |-> MinutesOf(of(done(S), k, c))]]
  <1>8. Stats(A, new) = stats(A, new) /\ Stats(B, known) = stats(B, known)
    BY DEF Stats
  <1> HIDE DEF of, done
  <1>9. stats(A, new) = FoldStats(stats(B, known), slug)
    <2>1. /\ stats(A, new).plannedMinutes = FoldMinutes(stats(B, known).plannedMinutes, slug)
          /\ stats(A, new).completedMinutes = FoldMinutes(stats(B, known).completedMinutes, slug)
      BY <1>1, <1>6, <1>7
    <2>2. stats(A, new) =
            [planned |-> stats(A, new).planned, completed |-> stats(A, new).completed,
             plannedMinutes |-> stats(A, new).plannedMinutes,
             completedMinutes |-> stats(A, new).completedMinutes]
      OBVIOUS
    <2>3. /\ stats(A, new).planned = stats(B, known).planned
          /\ stats(A, new).completed = stats(B, known).completed
      BY <1>4
    <2> HIDE DEF stats
    <2>4. QED
      BY <2>1, <2>2, <2>3 DEF FoldStats
  <1>10. QED
    BY <1>8, <1>9 DEF A

-----------------------------------------------------------------------------
(* The inductive invariant *)

\* A tag never runs ahead of the day, and only an unchanged reviewed day can
\* carry the current one: what FrozenSnapshotFaithful needs to be inductive.
TagsFollowDays ==
    \A d \in Dates : HasReview(d) /\ review[d].tag # Untagged =>
        /\ review[d].tag <= revision[d]
        /\ review[d].tag = revision[d] =>
              status[d] = "reviewed" /\ review[d].stats = Stats(blocks[d], catalog)

\* A date without a row has the content of a new day.
AbsentDays ==
    \A d \in Dates : status[d] = "absent" => revision[d] = 0 /\ blocks[d] = {}

IInv ==
    /\ TypeOK
    /\ DaysInv
    /\ AbsentDays
    /\ RevisionIdentifiesState
    /\ TagsFollowDays
    /\ ReviewMapsInCatalog

LEMMA InitIInv == Init => IInv
  <1> SUFFICES ASSUME Init PROVE IInv
    OBVIOUS
  <1>1. TypeOK
    BY DEF Init, TypeOK, StoreAssumption
  <1>2. DaysInv
    BY DEF Init, DaysInv, CatalogCovers, NonOverlapping, StoreAssumption
  <1>3. RevisionIdentifiesState
    BY DEF Init, RevisionIdentifiesState, ByDate
  <1>4. TagsFollowDays /\ ReviewMapsInCatalog
    BY DEF Init, TagsFollowDays, ReviewMapsInCatalog, HasReview
  <1>5. AbsentDays
    BY DEF Init, AbsentDays
  <1>6. QED
    BY <1>1, <1>2, <1>3, <1>4, <1>5 DEF IInv

LEMMA RevisionBound ==
    ASSUME TypeOK, NEW d \in Dates, NEW st, NEW B
    PROVE  /\ revision[d] \in Nat
           /\ NextRevision(d, st, B) \in {revision[d], revision[d] + 1}
           /\ NextRevision(d, st, B) = revision[d] => st = Effectively(d) /\ B = blocks[d]
  BY DEF TypeOK, NextRevision

LEMMA FreezeType ==
    ASSUME TypeOK, NEW d \in Dates, NEW tag \in 0..MaxRevision, Freeze(d, tag)
    PROVE  review' \in [Dates -> Reviews \union {NoReview}]
  <1>1. Stats(blocks[d], catalog) \in Aggregates
    BY StatsType DEF TypeOK
  <1>2. [tag |-> tag, stats |-> Stats(blocks[d], catalog)] \in Reviews
    BY <1>1 DEF Reviews, Untagged
  <1>3. QED
    BY <1>2 DEF Freeze, TypeOK

LEMMA FoldType ==
    ASSUME NEW stats \in Aggregates, NEW slug \in Slugs
    PROVE  FoldStats(stats, slug) \in Aggregates
  <1>1. \A m \in [Slugs -> SUBSET Minutes] : FoldMinutes(m, slug) \in [Slugs -> SUBSET Minutes]
    BY DEF FoldMinutes, StoreAssumption
  <1>2. QED
    BY <1>1 DEF FoldStats, Aggregates

LEMMA EditTypes ==
    ASSUME IInv, NEW c \in Clients, NEW d \in Dates,
           NEW st \in Statuses, NEW B \in SUBSET Block, Edit(c, d, st, B)
    PROVE  TypeOK'
  <1> USE DEF IInv
  <1>1. NextRevision(d, st, B) \in 0..MaxRevision
    BY RevisionBound DEF Edit, Commit
  <1>2. /\ status' \in [Dates -> Statuses \union {"absent"}]
        /\ revision' \in [Dates -> 0..MaxRevision]
        /\ blocks' \in [Dates -> SUBSET Block]
    BY <1>1 DEF TypeOK, Edit, Commit
  <1>3. Snapshot(d, NextRevision(d, st, B), st, B) \in Views
    BY <1>1 DEF Snapshot, Views
  <1>4. view' \in [Clients -> Views \union {NoView}]
    BY <1>3 DEF TypeOK, Edit, Commit, Capture
  <1>5. review' \in [Dates -> Reviews \union {NoReview}]
    <2>1. CASE UNCHANGED review
      BY <2>1 DEF TypeOK
    <2>2. CASE status[d] = "active" /\ st = "reviewed" /\ Freeze(d, revision[d] + 1)
      <3>1. NextRevision(d, st, B) = revision[d] + 1
        BY <2>2 DEF NextRevision, Effectively
      <3>2. QED
        BY <1>1, <2>2, <3>1, FreezeType
    <2>3. QED
      BY <2>1, <2>2 DEF Edit
  <1>6. QED
    BY <1>2, <1>4, <1>5 DEF TypeOK, Edit, catalogVars

LEMMA CaptureTypes ==
    ASSUME IInv, NEW c \in Clients, NEW d \in Dates,
           OpenDay(c, d) \/ AssumeNewDay(c, d) \/ RetryReview(c, d)
    PROVE  TypeOK'
  <1> USE DEF IInv
  <1>1. CASE OpenDay(c, d)
    <2>1. Effectively(d) \in Statuses
      BY DEF TypeOK, Effectively, Statuses
    <2>2. Snapshot(d, revision[d], Effectively(d), blocks[d]) \in Views
      BY <2>1 DEF TypeOK, Snapshot, Views
    <2>3. QED
      BY <1>1, <2>1, <2>2 DEF OpenDay, TypeOK, Capture, catalogVars
  <1>2. CASE AssumeNewDay(c, d)
    <2>1. Snapshot(d, 0, "draft", {}) \in Views
      BY DEF Snapshot, Views, Statuses, StoreAssumption
    <2>2. QED
      BY <1>2, <2>1 DEF AssumeNewDay, TypeOK, Capture, catalogVars, dayVars
  <1>3. CASE RetryReview(c, d)
    <2>1. Snapshot(d, revision[d], status[d], blocks[d]) \in Views
      BY <1>3 DEF RetryReview, TypeOK, Snapshot, Views, Statuses
    <2>2. review' \in [Dates -> Reviews \union {NoReview}]
      BY <1>3, FreezeType DEF RetryReview, TypeOK
    <2>3. QED
      BY <1>3, <2>1, <2>2 DEF RetryReview, TypeOK, Capture, catalogVars, dayVars
  <1>4. QED
    BY <1>1, <1>2, <1>3

LEMMA CategoryTypes ==
    ASSUME IInv, NEW slug \in Slugs, CategoryStep(slug)
    PROVE  TypeOK'
  <1> USE DEF IInv
  <1>1. CASE CreateCategory(slug) \/ SetDefaultCategory(slug)
    BY <1>1 DEF CreateCategory, SetDefaultCategory, TypeOK, dayVars
  <1>2. CASE DeleteCategory(slug)
    <2>1. /\ slug \in catalog \ {Sink}
          /\ \A e \in DaysUsing(slug) : revision[e] < MaxRevision
      BY <1>2 DEF DeleteCategory
    <2>2. blocks' \in [Dates -> SUBSET Block]
      BY <1>2, <2>1, SinkedDay DEF DeleteCategory
    <2>3. revision' \in [Dates -> 0..MaxRevision]
      BY <1>2, <2>1 DEF DeleteCategory, TypeOK
    <2>4. \A e \in Dates : FoldReview(e, slug) \in Reviews \union {NoReview}
      <3> SUFFICES ASSUME NEW e \in Dates, HasReview(e)
                   PROVE  FoldReview(e, slug) \in Reviews
        BY DEF FoldReview
      <3>1. review[e] \in Reviews
        BY DEF TypeOK, HasReview
      <3>2. FollowedTag(e, slug) \in 0..Untagged
        BY <2>1, <3>1 DEF FollowedTag, Reviews, TypeOK, Untagged
      <3>3. FoldStats(review[e].stats, slug) \in Aggregates
        BY <3>1, FoldType DEF Reviews
      <3>4. QED
        BY <3>2, <3>3 DEF FoldReview, Reviews
    <2>5. QED
      BY <1>2, <2>2, <2>3, <2>4 DEF DeleteCategory, TypeOK, StoreAssumption
  <1>3. QED
    BY <1>1, <1>2 DEF CategoryStep

-----------------------------------------------------------------------------
(* Preservation, action by action *)

LEMMA EditPreserves ==
    ASSUME IInv, NEW c \in Clients, NEW d \in Dates,
           NEW st \in Statuses, NEW B \in SUBSET Block, Plain(B), Edit(c, d, st, B)
    PROVE  IInv'
  <1> DEFINE rev == NextRevision(d, st, B)
  <1> USE DEF IInv
  <1>0. /\ rev \in 0..MaxRevision
        /\ status' = [status EXCEPT ![d] = st]
        /\ blocks' = [blocks EXCEPT ![d] = B]
        /\ revision' = [revision EXCEPT ![d] = rev]
        /\ view' = [view EXCEPT ![c] = Snapshot(d, rev, st, B)]
        /\ catalog' = catalog /\ default' = default
    BY RevisionBound DEF Edit, Commit, Capture, catalogVars
  <1>1. TypeOK'
    BY EditTypes
  <1>2. DaysInv'
    BY <1>0 DEF DaysInv, CatalogCovers, Plain, TypeOK
  <1>3. rev \in {revision[d], revision[d] + 1} /\ (rev = revision[d] => st = Effectively(d) /\ B = blocks[d])
    BY RevisionBound
  <1>4. RevisionIdentifiesState'
    <2> SUFFICES ASSUME NEW k \in Clients, NEW e \in Dates, ByDate(k, e)'
                 PROVE  /\ view'[k].revision <= revision'[e]
                        /\ view'[k].revision = revision'[e] =>
                              /\ view'[k].status = Effectively(e)'
                              /\ view'[k].blocks = blocks'[e]
      BY DEF RevisionIdentifiesState
    <2>1. /\ st # "absent"
          /\ revision'[d] = rev /\ blocks'[d] = B /\ Effectively(d)' = st
      BY <1>0 DEF TypeOK, Effectively, Statuses
    <2>2. CASE k = c
      <3>1. view'[k] = Snapshot(d, rev, st, B)
        BY <1>0, <2>2 DEF TypeOK
      <3>2. /\ e = d
            /\ view'[k].revision = rev /\ view'[k].status = st /\ view'[k].blocks = B
        BY <3>1 DEF ByDate, Snapshot
      <3> HIDE DEF rev
      <3>3. QED
        BY <1>0, <2>1, <3>2
    <2>3. CASE k # c
      <3>1. view'[k] = view[k] /\ ByDate(k, e) /\ view[k] \in Views
        BY <1>0, <2>3 DEF TypeOK, ByDate
      <3>2. /\ view[k].revision \in Nat /\ revision[e] \in Nat
            /\ view[k].revision <= revision[e]
            /\ view[k].revision = revision[e] =>
                  view[k].status = Effectively(e) /\ view[k].blocks = blocks[e]
        BY <3>1 DEF RevisionIdentifiesState, TypeOK, Views
      <3>3. CASE e # d
        <4>1. revision'[e] = revision[e] /\ blocks'[e] = blocks[e] /\ Effectively(e)' = Effectively(e)
          BY <1>0, <3>3 DEF Effectively, TypeOK
        <4>2. QED
          BY <3>1, <3>2, <4>1
      <3>4. CASE e = d
        <4> HIDE DEF rev
        <4>1. QED
          BY <1>3, <2>1, <3>1, <3>2, <3>4
      <3>5. QED
        BY <3>3, <3>4
    <2>4. QED
      BY <2>2, <2>3
  <1>5. TagsFollowDays' /\ ReviewMapsInCatalog'
    <2>1. CASE UNCHANGED review
      <3>1. \A e \in Dates : HasReview(e)' <=> HasReview(e)
        BY <2>1 DEF HasReview
      <3>2. ReviewMapsInCatalog'
        BY <1>0, <2>1, <3>1 DEF ReviewMapsInCatalog
      <3>3. ASSUME NEW e \in Dates, HasReview(e), review[e].tag # Untagged
            PROVE  /\ review[e].tag <= revision'[e]
                   /\ review[e].tag = revision'[e] =>
                         status'[e] = "reviewed" /\ review[e].stats = Stats(blocks'[e], catalog)
        <4>1. review[e].tag \in Nat
          BY <3>3 DEF HasReview, TypeOK, Reviews, Untagged
        <4>2. CASE e # d
          BY <1>0, <3>3, <4>2 DEF TagsFollowDays, TypeOK
        <4>3. CASE e = d
          <5>1. revision'[d] = rev /\ blocks'[d] = B /\ status'[d] = st
            BY <1>0 DEF TypeOK
          <5>2. /\ revision[d] \in Nat
                /\ review[d].tag <= revision[d]
                /\ review[d].tag = revision[d] =>
                      status[d] = "reviewed" /\ review[d].stats = Stats(blocks[d], catalog)
            BY <3>3, <4>3 DEF TagsFollowDays, TypeOK
          <5>3. status[d] = "reviewed" => Effectively(d) = "reviewed"
            BY DEF Effectively
          <5> HIDE DEF rev
          <5>4. QED
            BY <1>3, <4>1, <4>3, <5>1, <5>2, <5>3
        <4>4. QED
          BY <4>2, <4>3
      <3>4. QED
        BY <1>0, <2>1, <3>1, <3>2, <3>3 DEF TagsFollowDays
    <2>2. CASE /\ status[d] = "active" /\ st = "reviewed" /\ B = blocks[d]
               /\ Freeze(d, revision[d] + 1)
      <3>1. rev = revision[d] + 1
        BY <2>2 DEF NextRevision, Effectively
      <3>2. review' = [review EXCEPT ![d] = [tag |-> rev, stats |-> Stats(B, catalog)]]
        BY <2>2, <3>1 DEF Freeze
      <3>3. review'[d] = [tag |-> rev, stats |-> Stats(B, catalog)]
        BY <3>2 DEF TypeOK
      <3>4. TagsFollowDays'
        BY <1>0, <3>2, <3>3, <2>2 DEF TagsFollowDays, HasReview, TypeOK
      <3>5. \A slug \in Slugs \ catalog : /\ Stats(B, catalog).plannedMinutes[slug] = {}
                                          /\ Stats(B, catalog).completedMinutes[slug] = {}
        BY CatalogStats DEF DaysInv, Plain
      <3>6. ReviewMapsInCatalog'
        BY <1>0, <3>2, <3>3, <3>5 DEF ReviewMapsInCatalog, HasReview, TypeOK
      <3>7. QED
        BY <3>4, <3>6
    <2>3. QED
      BY <2>1, <2>2 DEF Edit
  <1>6. AbsentDays'
    BY <1>0 DEF AbsentDays, TypeOK, Statuses
  <1>7. QED
    BY <1>1, <1>2, <1>4, <1>5, <1>6

\* A capture of the day as it stands keeps RevisionIdentifiesState.
LEMMA CaptureKeeps ==
    ASSUME IInv, NEW c \in Clients, NEW d \in Dates,
           view' = [view EXCEPT ![c] = Snapshot(d, revision[d], Effectively(d), blocks[d])],
           UNCHANGED <<revision, blocks>>,
           \A e \in Dates : Effectively(e)' = Effectively(e)
    PROVE  RevisionIdentifiesState'
  <1> USE DEF IInv
  <1> SUFFICES ASSUME NEW k \in Clients, NEW e \in Dates, ByDate(k, e)'
               PROVE  /\ view'[k].revision <= revision'[e]
                      /\ view'[k].revision = revision'[e] =>
                            /\ view'[k].status = Effectively(e)'
                            /\ view'[k].blocks = blocks'[e]
    BY DEF RevisionIdentifiesState
  <1>1. CASE k = c
    <2>1. view'[k] = Snapshot(d, revision[d], Effectively(d), blocks[d])
      BY <1>1 DEF TypeOK
    <2>2. /\ e = d
          /\ view'[k].revision = revision[d] /\ view'[k].status = Effectively(d)
          /\ view'[k].blocks = blocks[d]
      BY <2>1 DEF ByDate, Snapshot
    <2>3. QED
      BY <2>2 DEF TypeOK
  <1>2. CASE k # c
    <2>1. view'[k] = view[k] /\ ByDate(k, e)
      BY <1>2 DEF TypeOK, ByDate
    <2>2. QED
      BY <2>1 DEF RevisionIdentifiesState
  <1>3. QED
    BY <1>1, <1>2

LEMMA OpenDayPreserves ==
    ASSUME IInv, NEW c \in Clients, NEW d \in Dates, OpenDay(c, d)
    PROVE  IInv'
  <1> USE DEF IInv
  <1>1. TypeOK'
    BY CaptureTypes
  <1>2. DaysInv' /\ AbsentDays'
    BY DEF OpenDay, DaysInv, AbsentDays, CatalogCovers, catalogVars, TypeOK, Effectively
  <1>3. \A e \in Dates : Effectively(e)' = Effectively(e)
    BY DEF OpenDay, Effectively, TypeOK
  <1>4. RevisionIdentifiesState'
    BY <1>3, CaptureKeeps DEF OpenDay, Capture
  <1>5. \A e \in Dates : status[e] = "reviewed" => status'[e] = "reviewed"
    BY DEF OpenDay, Effectively, TypeOK
  <1>6. TagsFollowDays' /\ ReviewMapsInCatalog'
    BY <1>5 DEF OpenDay, TagsFollowDays, ReviewMapsInCatalog, HasReview, catalogVars
  <1>7. QED
    BY <1>1, <1>2, <1>4, <1>6

LEMMA AssumeNewDayPreserves ==
    ASSUME IInv, NEW c \in Clients, NEW d \in Dates, AssumeNewDay(c, d)
    PROVE  IInv'
  <1> USE DEF IInv
  <1>1. TypeOK'
    BY CaptureTypes
  <1>2. DaysInv' /\ AbsentDays' /\ TagsFollowDays' /\ ReviewMapsInCatalog'
    BY DEF AssumeNewDay, DaysInv, AbsentDays, CatalogCovers, TagsFollowDays, ReviewMapsInCatalog, HasReview,
           catalogVars, dayVars
  <1>3. RevisionIdentifiesState'
    <2> SUFFICES ASSUME NEW k \in Clients, NEW e \in Dates, ByDate(k, e)'
                 PROVE  /\ view'[k].revision <= revision[e]
                        /\ view'[k].revision = revision[e] =>
                              view'[k].status = Effectively(e) /\ view'[k].blocks = blocks[e]
      BY DEF RevisionIdentifiesState, AssumeNewDay, dayVars, Effectively
    <2>1. CASE k = c
      <3>1. view'[k] = Snapshot(d, 0, "draft", {})
        BY <2>1 DEF AssumeNewDay, Capture, TypeOK
      <3>2. e = d /\ view'[k].revision = 0 /\ view'[k].status = "draft" /\ view'[k].blocks = {}
        BY <3>1 DEF ByDate, Snapshot
      <3>3. status[d] = "absent" /\ revision[d] = 0 /\ blocks[d] = {}
        BY DEF AssumeNewDay, AbsentDays
      <3>4. QED
        BY <3>2, <3>3 DEF Effectively
    <2>2. CASE k # c
      <3>1. view'[k] = view[k] /\ ByDate(k, e)
        BY <2>2 DEF AssumeNewDay, Capture, TypeOK, ByDate
      <3>2. QED
        BY <3>1 DEF RevisionIdentifiesState
    <2>3. QED
      BY <2>1, <2>2
  <1>4. QED
    BY <1>1, <1>2, <1>3

LEMMA RetryReviewPreserves ==
    ASSUME IInv, NEW c \in Clients, NEW d \in Dates, RetryReview(c, d)
    PROVE  IInv'
  <1> USE DEF IInv
  <1>1. TypeOK'
    BY CaptureTypes
  <1>2. DaysInv' /\ AbsentDays'
    BY DEF RetryReview, DaysInv, AbsentDays, CatalogCovers, catalogVars, dayVars
  <1>3. status[d] = "reviewed" /\ Effectively(d) = status[d]
    BY DEF RetryReview, Effectively
  <1>4. RevisionIdentifiesState'
    BY <1>3, CaptureKeeps DEF RetryReview, Capture, dayVars, Effectively
  <1>5. CASE UNCHANGED review
    BY <1>1, <1>2, <1>4, <1>5
       DEF RetryReview, TagsFollowDays, ReviewMapsInCatalog, HasReview, catalogVars, dayVars
  <1>6. CASE Freeze(d, revision[d])
    <2> DEFINE new == [tag |-> revision[d], stats |-> Stats(blocks[d], catalog)]
    <2>1. review' = [review EXCEPT ![d] = new] /\ review'[d] = new
      BY <1>6 DEF Freeze, TypeOK
    <2>2. /\ new.tag = revision[d] /\ new.stats = Stats(blocks[d], catalog)
          /\ \A slug \in Slugs \ catalog : /\ new.stats.plannedMinutes[slug] = {}
                                           /\ new.stats.completedMinutes[slug] = {}
      BY CatalogStats DEF DaysInv
    <2> HIDE DEF new
    <2>3. TagsFollowDays'
      BY <1>3, <2>1, <2>2 DEF RetryReview, TagsFollowDays, HasReview, TypeOK, catalogVars, dayVars
    <2>4. ReviewMapsInCatalog'
      BY <2>1, <2>2 DEF RetryReview, ReviewMapsInCatalog, HasReview, TypeOK, catalogVars
    <2>5. QED
      BY <1>1, <1>2, <1>4, <2>3, <2>4
  <1>7. QED
    BY <1>5, <1>6 DEF RetryReview

LEMMA WriteNotesPreserves ==
    ASSUME IInv, NEW d \in Dates, WriteNotes(d)
    PROVE  IInv'
  <1> USE DEF IInv
  <1> DEFINE new == [tag |-> Untagged, stats |-> EmptyStats]
  <1>1. TypeOK'
    <2>1. new \in Reviews
      BY StatsType DEF EmptyStats, Reviews, Untagged, StoreAssumption
    <2>2. QED
      BY <2>1 DEF WriteNotes, TypeOK, catalogVars, dayVars
  <1>2. DaysInv' /\ AbsentDays' /\ RevisionIdentifiesState'
    BY DEF WriteNotes, DaysInv, AbsentDays, CatalogCovers, RevisionIdentifiesState, ByDate, Effectively,
           catalogVars, dayVars
  <1>3. review' = [review EXCEPT ![d] = new] /\ review'[d] = new
    BY DEF WriteNotes, TypeOK
  <1>4. /\ new.tag = Untagged
        /\ \A slug \in Slugs \ catalog : /\ new.stats.plannedMinutes[slug] = {}
                                         /\ new.stats.completedMinutes[slug] = {}
    <2>1. MinutesOf({}) = {}
      BY DEF MinutesOf
    <2>2. \A slug \in Slugs : /\ EmptyStats.plannedMinutes[slug] = MinutesOf({})
                              /\ EmptyStats.completedMinutes[slug] = MinutesOf({})
      BY DEF EmptyStats, Stats
    <2>3. QED
      BY <2>1, <2>2
  <1> HIDE DEF new
  <1>5. TagsFollowDays'
    BY <1>3, <1>4 DEF WriteNotes, TagsFollowDays, HasReview, TypeOK, catalogVars, dayVars
  <1>6. ReviewMapsInCatalog'
    BY <1>3, <1>4 DEF WriteNotes, ReviewMapsInCatalog, HasReview, TypeOK, catalogVars
  <1>7. QED
    BY <1>1, <1>2, <1>5, <1>6

\* Aggregates depend on the catalog only through the categories of the blocks.
LEMMA StatsOfKnown ==
    ASSUME NEW B, NEW known1, NEW known2, \A b \in B : b.category \in known1 /\ b.category \in known2
    PROVE  Stats(B, known1) = Stats(B, known2)
  <1>1. \A b \in B : Effective(b, known1) = Effective(b, known2)
    BY DEF Effective
  <1>2. \A c : /\ {b \in B : Effective(b, known1) = c} = {b \in B : Effective(b, known2) = c}
               /\ {b \in {x \in B : x.done} : Effective(b, known1) = c}
                    = {b \in {x \in B : x.done} : Effective(b, known2) = c}
    BY <1>1
  <1>3. QED
    BY <1>2 DEF Stats

LEMMA GrowCatalogPreserves ==
    ASSUME IInv, NEW slug \in Slugs, CreateCategory(slug) \/ SetDefaultCategory(slug)
    PROVE  IInv'
  <1> USE DEF IInv
  <1>1. /\ catalog \subseteq catalog' /\ catalog' \subseteq Slugs /\ default' \in catalog'
        /\ UNCHANGED <<dayVars, review, view>>
    BY DEF CreateCategory, SetDefaultCategory, TypeOK, DaysInv, CatalogCovers
  <1>2. TypeOK' /\ AbsentDays' /\ RevisionIdentifiesState'
    BY <1>1 DEF TypeOK, AbsentDays, RevisionIdentifiesState, ByDate, Effectively, dayVars
  <1>3. DaysInv'
    BY <1>1 DEF DaysInv, CatalogCovers, dayVars
  <1>4. \A d \in Dates : Stats(blocks[d], catalog') = Stats(blocks[d], catalog)
    BY <1>1, StatsOfKnown DEF DaysInv, CatalogCovers
  <1>5. TagsFollowDays'
    BY <1>1, <1>4 DEF TagsFollowDays, HasReview, dayVars
  <1>6. ReviewMapsInCatalog'
    BY <1>1 DEF ReviewMapsInCatalog, HasReview
  <1>7. QED
    BY <1>2, <1>3, <1>5, <1>6

LEMMA DeleteCategoryPreserves ==
    ASSUME IInv, NEW slug \in Slugs, DeleteCategory(slug)
    PROVE  IInv'
  <1> USE DEF IInv
  <1>1. /\ slug \in catalog \ {Sink}
        /\ catalog' = catalog \ {slug} /\ status' = status /\ view' = view
        /\ \A d \in Dates : /\ blocks'[d] = ToSink(blocks[d], slug)
                            /\ review'[d] = FoldReview(d, slug)
                            /\ d \in DaysUsing(slug) => revision'[d] = revision[d] + 1
                            /\ d \notin DaysUsing(slug) => revision'[d] = revision[d]
        /\ default' = IF default = slug THEN Sink ELSE default
    BY DEF DeleteCategory
  <1>2. TypeOK'
    BY CategoryTypes DEF CategoryStep
  <1>3. DaysInv'
    <2>1. \A d \in Dates : /\ NonOverlapping(blocks'[d])
                           /\ \A b \in blocks'[d] : b.category \in catalog'
      BY <1>1, SinkedDay
    <2>2. {Sink, default'} \subseteq catalog'
      BY <1>1 DEF DaysInv, CatalogCovers
    <2>3. QED
      BY <2>1, <2>2 DEF DaysInv, CatalogCovers
  <1>4. AbsentDays'
    BY <1>1 DEF AbsentDays, ToSink, DaysUsing
  <1>5. RevisionIdentifiesState'
    <2> SUFFICES ASSUME NEW c \in Clients, NEW d \in Dates, ByDate(c, d)
                 PROVE  /\ view[c].revision <= revision'[d]
                        /\ view[c].revision = revision'[d] =>
                              /\ view[c].status = Effectively(d)
                              /\ view[c].blocks = blocks'[d]
      BY <1>1 DEF RevisionIdentifiesState, ByDate, Effectively
    <2>1. /\ view[c].revision \in Nat /\ revision[d] \in Nat
          /\ view[c].revision <= revision[d]
          /\ view[c].revision = revision[d] =>
                view[c].status = Effectively(d) /\ view[c].blocks = blocks[d]
      BY DEF RevisionIdentifiesState, TypeOK, ByDate, Views
    <2>2. CASE d \in DaysUsing(slug)
      BY <1>1, <2>1, <2>2
    <2>3. CASE d \notin DaysUsing(slug)
      BY <1>1, <2>1, <2>3, UntouchedDay
    <2>4. QED
      BY <2>2, <2>3
  <1>6. \A d \in Dates : /\ HasReview(d)' <=> HasReview(d)
                         /\ HasReview(d) => /\ review'[d].tag = FollowedTag(d, slug)
                                            /\ review'[d].stats = FoldStats(review[d].stats, slug)
    <2>1. \A x, y : [tag |-> x, stats |-> y] # NoReview
      <3>1. \A x, y : "stats" \in DOMAIN [tag |-> x, stats |-> y]
        OBVIOUS
      <3>2. "stats" \notin DOMAIN NoReview
        BY DEF NoReview
      <3>3. QED
        BY <3>1, <3>2
    <2>2. \A d \in Dates : review'[d] = FoldReview(d, slug)
      BY <1>1
    <2>3. ASSUME NEW d \in Dates
          PROVE  /\ HasReview(d)' <=> HasReview(d)
                 /\ HasReview(d) => /\ review'[d].tag = FollowedTag(d, slug)
                                    /\ review'[d].stats = FoldStats(review[d].stats, slug)
      <3>1. CASE HasReview(d)
        <4>1. review'[d] = [tag |-> FollowedTag(d, slug), stats |-> FoldStats(review[d].stats, slug)]
          BY <2>2, <3>1 DEF FoldReview
        <4>2. review'[d] # NoReview
          BY <2>1, <4>1
        <4>3. QED
          BY <3>1, <4>1, <4>2 DEF HasReview, NoReview
      <3>2. CASE ~HasReview(d)
        BY <2>2, <3>2 DEF FoldReview, HasReview, NoReview
      <3>3. QED
        BY <3>1, <3>2
    <2>4. QED
      BY <2>3
  <1>7. TagsFollowDays'
    <2> SUFFICES ASSUME NEW d \in Dates, HasReview(d), FollowedTag(d, slug) # Untagged
                 PROVE  /\ FollowedTag(d, slug) <= revision'[d]
                        /\ FollowedTag(d, slug) = revision'[d] =>
                              /\ status[d] = "reviewed"
                              /\ FoldStats(review[d].stats, slug)
                                   = Stats(ToSink(blocks[d], slug), catalog \ {slug})
      BY <1>1, <1>6 DEF TagsFollowDays
    <2>1. revision[d] \in Nat /\ revision[d] <= MaxRevision /\ review[d].tag \in Nat
      BY DEF TypeOK, HasReview, Reviews, Untagged
    <2>2. FoldStats(Stats(blocks[d], catalog), slug) = Stats(ToSink(blocks[d], slug), catalog \ {slug})
      BY <1>1, FoldedStats DEF TypeOK, DaysInv, CatalogCovers
    <2>3. review[d].tag # Untagged =>
            /\ review[d].tag <= revision[d]
            /\ review[d].tag = revision[d] =>
                  status[d] = "reviewed" /\ review[d].stats = Stats(blocks[d], catalog)
      BY DEF TagsFollowDays
    <2>4. CASE d \in DaysUsing(slug) /\ SnapshotCurrent(d)
      <3>1. review[d].tag = revision[d] /\ review[d].tag # Untagged
        BY <2>1, <2>4 DEF SnapshotCurrent, Untagged
      <3>2. FollowedTag(d, slug) = revision[d] + 1
        BY <2>4 DEF FollowedTag
      <3>3. QED
        BY <1>1, <2>1, <2>2, <2>3, <2>4, <3>1, <3>2
    <2>5. CASE d \in DaysUsing(slug) /\ ~SnapshotCurrent(d)
      BY <1>1, <2>1, <2>3, <2>5 DEF FollowedTag
    <2>6. CASE d \notin DaysUsing(slug)
      BY <1>1, <2>1, <2>2, <2>3, <2>6 DEF FollowedTag
    <2>7. QED
      BY <2>4, <2>5, <2>6
  <1>8. ReviewMapsInCatalog'
    <2> SUFFICES ASSUME NEW d \in Dates, HasReview(d), NEW s \in Slugs \ (catalog \ {slug})
                 PROVE  /\ FoldStats(review[d].stats, slug).plannedMinutes[s] = {}
                        /\ FoldStats(review[d].stats, slug).completedMinutes[s] = {}
      BY <1>1, <1>6 DEF ReviewMapsInCatalog
    <2>1. /\ review[d].stats.plannedMinutes \in [Slugs -> SUBSET Minutes]
          /\ review[d].stats.completedMinutes \in [Slugs -> SUBSET Minutes]
      BY DEF TypeOK, HasReview, Reviews, Aggregates
    <2>2. s # Sink /\ Sink # slug
      BY <1>1 DEF DaysInv, CatalogCovers
    <2>3. s # slug => /\ review[d].stats.plannedMinutes[s] = {}
                      /\ review[d].stats.completedMinutes[s] = {}
      BY DEF ReviewMapsInCatalog
    <2>4. QED
      BY <2>1, <2>2, <2>3 DEF FoldStats, FoldMinutes, StoreAssumption
  <1>9. QED
    BY <1>2, <1>3, <1>4, <1>5, <1>7, <1>8

LEMMA NextIInv == IInv /\ [Next]_vars => IInv'
  <1> SUFFICES ASSUME IInv, [Next]_vars PROVE IInv'
    OBVIOUS
  <1>1. ASSUME NEW c \in Clients, NEW d \in Dates, Write(c, d) PROVE IInv'
    BY <1>1, WritesAreEdits, EditPreserves DEF IInv
  <1>2. ASSUME NEW c \in Clients, NEW d \in Dates, ClientStep(c, d) PROVE IInv'
    BY <1>1, <1>2, OpenDayPreserves, AssumeNewDayPreserves, RetryReviewPreserves DEF ClientStep, Write
  <1>3. ASSUME NEW d \in Dates, WriteNotes(d) PROVE IInv'
    BY <1>3, WriteNotesPreserves
  <1>4. ASSUME NEW slug \in Slugs, CategoryStep(slug) PROVE IInv'
    BY <1>4, GrowCatalogPreserves, DeleteCategoryPreserves DEF CategoryStep
  <1>5. CASE UNCHANGED vars
    BY <1>5 DEF vars, IInv, TypeOK, DaysInv, AbsentDays, CatalogCovers, RevisionIdentifiesState, ByDate,
                Effectively, TagsFollowDays, ReviewMapsInCatalog, HasReview
  <1>6. QED
    BY <1>2, <1>3, <1>4, <1>5 DEF Next

-----------------------------------------------------------------------------
(* The theorems *)

LEMMA Invariance == Spec => []IInv
  BY InitIInv, NextIInv, PTL DEF Spec

\* The rows and the captures always have their types.
THEOREM TypeCorrect == Spec => []TypeOK
  <1>1. IInv => TypeOK
    BY DEF IInv
  <1>2. QED
    BY <1>1, Invariance, PTL

\* No writer, in any interleaving with the others, leaves a minute planned twice.
THEOREM NoMinutePlannedTwice == Spec => []DisjointBlocks
  <1>1. IInv => DisjointBlocks
    <2> SUFFICES ASSUME IInv, NEW d \in Dates, NEW b1 \in blocks[d], NEW b2 \in blocks[d],
                        NEW m \in Minutes, b1.start <= m, m < b1.end, b2.start <= m, m < b2.end
                 PROVE  b1 = b2
      BY DEF DisjointBlocks
    <2>1. b1 \in Block /\ b2 \in Block /\ m \in Nat
      BY DEF IInv, TypeOK, Minutes
    <2>2. b1.start \in Nat /\ b1.end \in Nat /\ b2.start \in Nat /\ b2.end \in Nat
      BY <2>1, BlockFields
    <2>3. b1 = b2 \/ b1.end <= b2.start \/ b2.end <= b1.start
      BY DEF IInv, DaysInv, NonOverlapping
    <2>4. QED
      BY <2>1, <2>2, <2>3
  <1>2. QED
    BY <1>1, Invariance, PTL

\* No block is left without its category, whatever is deleted or restored.
THEOREM CategoriesExist == Spec => []CatalogCovers
  <1>1. IInv => CatalogCovers
    BY DEF IInv, DaysInv
  <1>2. QED
    BY <1>1, Invariance, PTL

\* A capture whose revision is current shows the current day: the compare-and-set
\* on the number protects the content.
THEOREM RevisionIsContent == Spec => []RevisionIdentifiesState
  <1>1. IInv => RevisionIdentifiesState
    BY DEF IInv
  <1>2. QED
    BY <1>1, Invariance, PTL

\* A review shown as frozen always equals the review of the present blocks.
THEOREM FrozenMeansTrue == Spec => []FrozenSnapshotFaithful
  <1>1. IInv => FrozenSnapshotFaithful
    <2> SUFFICES ASSUME IInv, NEW d \in Dates, SnapshotCurrent(d)
                 PROVE  review[d].stats = Stats(blocks[d], catalog)
      BY DEF FrozenSnapshotFaithful
    <2>1. HasReview(d) /\ review[d].tag = revision[d]
      BY DEF SnapshotCurrent
    <2>2. review[d].tag # Untagged
      BY <2>1 DEF IInv, TypeOK, Untagged
    <2>3. QED
      BY <2>1, <2>2 DEF IInv, TagsFollowDays
  <1>2. QED
    BY <1>1, Invariance, PTL

\* No stored review mentions a category that was deleted.
THEOREM ReviewsInCatalog == Spec => []ReviewMapsInCatalog
  <1>1. IInv => ReviewMapsInCatalog
    BY DEF IInv
  <1>2. QED
    BY <1>1, Invariance, PTL

\* Only a review makes a frozen review current; maintenance never revives one.
THEOREM OnlyReviewsFreeze == Spec => OnlyReviewMakesCurrent
  <1> DEFINE Frozen(d) == /\ blocks'[d] = blocks[d]
                          /\ \/ status[d] = "active" /\ revision'[d] = revision[d] + 1
                             \/ status[d] = "reviewed" /\ revision'[d] = revision[d]
             A == \A d \in Dates : ~SnapshotCurrent(d) /\ SnapshotCurrent(d)' => Frozen(d)
  <1>1. IInv /\ [Next]_vars => [A]_vars
    <2> SUFFICES ASSUME IInv, Next, NEW e \in Dates, ~SnapshotCurrent(e), SnapshotCurrent(e)'
                 PROVE  Frozen(e)
      OBVIOUS
    <2> USE DEF IInv
    <2>0. /\ TypeOK' /\ revision[e] \in Nat /\ revision'[e] \in Nat /\ revision'[e] <= MaxRevision
          /\ status'[e] = "reviewed" /\ HasReview(e)' /\ review'[e].tag = revision'[e]
      <3>1. TypeOK'
        BY NextIInv
      <3>2. revision[e] \in 0..MaxRevision /\ revision'[e] \in 0..MaxRevision
        BY <3>1 DEF TypeOK
      <3>3. QED
        BY <3>1, <3>2 DEF SnapshotCurrent
    <2>1. review'[e] = review[e] /\ HasReview(e) => review[e].tag # Untagged /\ review[e].tag <= revision[e]
      BY <2>0 DEF TagsFollowDays, Untagged
    <2>2. ASSUME NEW c \in Clients, NEW d \in Dates, Write(c, d) PROVE Frozen(e)
      <3>1. PICK st \in Statuses, B \in SUBSET Block : Edit(c, d, st, B)
        BY <2>2, WritesAreEdits
      <3>2. /\ status' = [status EXCEPT ![d] = st]
            /\ blocks' = [blocks EXCEPT ![d] = B]
            /\ revision' = [revision EXCEPT ![d] = NextRevision(d, st, B)]
        BY <3>1 DEF Edit, Commit
      <3>3. CASE e # d
        <4>1. review'[e] = review[e] /\ status'[e] = status[e] /\ revision'[e] = revision[e]
          BY <3>1, <3>2, <3>3 DEF Edit, Freeze, TypeOK
        <4>2. QED
          BY <2>0, <4>1 DEF SnapshotCurrent, HasReview
      <3>4. CASE e = d /\ UNCHANGED review
        <4>1. HasReview(d) /\ review[d].tag = revision'[d] /\ review[d].tag <= revision[d]
          BY <2>0, <2>1, <3>4 DEF HasReview
        <4>2. revision'[d] = NextRevision(d, st, B) /\ status'[d] = st
          BY <3>2 DEF TypeOK
        <4>3. revision'[d] = revision[d] /\ st = Effectively(d)
          BY <2>0, <3>4, <4>1, <4>2, RevisionBound
        <4>4. status[d] = "reviewed"
          BY <2>0, <3>4, <4>2, <4>3 DEF Effectively
        <4>5. QED
          BY <3>4, <4>1, <4>3, <4>4 DEF SnapshotCurrent
      <3>5. CASE e = d /\ status[d] = "active" /\ st = "reviewed" /\ B = blocks[d]
        BY <3>2, <3>5 DEF NextRevision, Effectively, TypeOK
      <3>6. QED
        BY <3>1, <3>3, <3>4, <3>5 DEF Edit
    <2>3. ASSUME NEW c \in Clients, NEW d \in Dates, OpenDay(c, d) \/ AssumeNewDay(c, d)
          PROVE  Frozen(e)
      <3>1. /\ review'[e] = review[e] /\ revision'[e] = revision[e]
            /\ status'[e] = "reviewed" => status[e] = "reviewed"
        BY <2>3 DEF OpenDay, AssumeNewDay, Effectively, TypeOK, dayVars
      <3>2. QED
        BY <2>0, <3>1 DEF SnapshotCurrent, HasReview
    <2>4. ASSUME NEW c \in Clients, NEW d \in Dates, RetryReview(c, d) PROVE Frozen(e)
      BY <2>0, <2>4 DEF RetryReview, dayVars
    <2>5. ASSUME NEW d \in Dates, WriteNotes(d) PROVE Frozen(e)
      <3>1. CASE e = d
        <4>1. review'[e].tag = Untagged
          BY <2>5, <3>1 DEF WriteNotes, TypeOK
        <4>2. QED
          BY <2>0, <4>1 DEF Untagged
      <3>2. CASE e # d
        <4>1. review'[e] = review[e] /\ status'[e] = status[e] /\ revision'[e] = revision[e]
          BY <2>5, <3>2 DEF WriteNotes, TypeOK, dayVars
        <4>2. QED
          BY <2>0, <4>1 DEF SnapshotCurrent, HasReview
      <3>3. QED
        BY <3>1, <3>2
    <2>6. ASSUME NEW slug \in Slugs, CreateCategory(slug) \/ SetDefaultCategory(slug) PROVE Frozen(e)
      BY <2>0, <2>6 DEF CreateCategory, SetDefaultCategory, dayVars, SnapshotCurrent, HasReview
    <2>7. ASSUME NEW slug \in Slugs, DeleteCategory(slug) PROVE Frozen(e)
      <3>1. /\ review'[e] = FoldReview(e, slug) /\ status'[e] = status[e]
            /\ e \in DaysUsing(slug) => revision'[e] = revision[e] + 1
            /\ e \notin DaysUsing(slug) => revision'[e] = revision[e]
        BY <2>7 DEF DeleteCategory
      <3>2. HasReview(e)
        BY <2>0, <3>1 DEF HasReview, FoldReview
      <3>3. review'[e].tag = review[e].tag
        BY <3>1, <3>2 DEF FoldReview, FollowedTag
      <3>4. review[e].tag # Untagged /\ review[e].tag <= revision[e]
        BY <2>0, <3>2, <3>3 DEF TagsFollowDays, Untagged
      <3>5. revision'[e] = revision[e]
        BY <2>0, <3>1, <3>3, <3>4
      <3>6. QED
        BY <2>0, <3>1, <3>2, <3>3, <3>5 DEF SnapshotCurrent
    <2>8. QED
      BY <2>2, <2>3, <2>4, <2>5, <2>6, <2>7 DEF Next, ClientStep, CategoryStep, Write
  <1>2. QED
    BY <1>1, Invariance, PTL DEF Spec, OnlyReviewMakesCurrent

\* What is folded into the sink is all that the category had.
LEMMA FoldedUnion ==
    ASSUME NEW slug \in Slugs \ {Sink}, NEW m, DOMAIN m = Slugs
    PROVE  UNION {FoldMinutes(m, slug)[s] : s \in Slugs} = UNION {m[s] : s \in Slugs}
  <1>1. Sink \in Slugs
    BY StoreAssumption
  <1>2. PICK f : f = FoldMinutes(m, slug)
    OBVIOUS
  <1>3. /\ f[slug] = {} /\ f[Sink] = m[Sink] \union m[slug]
        /\ \A s \in Slugs \ {slug, Sink} : f[s] = m[s]
    BY <1>1, <1>2 DEF FoldMinutes
  <1>4. \A x : (\E s \in Slugs : x \in f[s]) <=> (\E s \in Slugs : x \in m[s])
    BY <1>1, <1>3, Zenon
  <1>5. QED
    BY <1>2, <1>4

\* Deleting a category moves the minutes that stored reviews count under it to the sink
\* and loses none, whatever the reviews were frozen from (_fold_review_minutes).
THEOREM NoHistoryLost == Spec => HistoryConserved
  <1> DEFINE Of(r) == UNION {r.stats.plannedMinutes[slug] : slug \in Slugs}
             A == catalog' # catalog =>
                    \A d \in Dates : HasReview(d) =>
                        UNION {review'[d].stats.plannedMinutes[slug] : slug \in Slugs}
                          = UNION {review[d].stats.plannedMinutes[slug] : slug \in Slugs}
  <1>1. IInv /\ [Next]_vars => [A]_vars
    <2> SUFFICES ASSUME IInv, Next, catalog' # catalog, NEW e \in Dates, HasReview(e)
                 PROVE  Of(review'[e]) = Of(review[e])
      OBVIOUS
    <2>1. CASE \E slug \in Slugs : CreateCategory(slug)
      BY <2>1 DEF CreateCategory
    <2>2. CASE \E slug \in Slugs : DeleteCategory(slug)
      <3>1. PICK slug \in Slugs \ {Sink} : review' = [d \in Dates |-> FoldReview(d, slug)]
        BY <2>2 DEF DeleteCategory
      <3>2. review'[e].stats.plannedMinutes = FoldMinutes(review[e].stats.plannedMinutes, slug)
        BY <3>1 DEF FoldReview, FoldStats
      <3>3. DOMAIN review[e].stats.plannedMinutes = Slugs
        <4>1. review[e] \in Reviews
          BY DEF IInv, TypeOK, HasReview
        <4>2. QED
          BY <4>1 DEF Reviews, Aggregates
      <3>4. QED
        BY <3>2, <3>3, FoldedUnion
    <2>3. QED
      <3>1. ASSUME NEW c \in Clients, NEW d \in Dates, ClientStep(c, d) PROVE FALSE
        <4>1. CASE Write(c, d)
          BY <4>1, WritesAreEdits DEF IInv, Edit, Commit, catalogVars
        <4>2. QED
          BY <3>1, <4>1 DEF ClientStep, Write, OpenDay, AssumeNewDay, RetryReview, catalogVars
      <3>2. ASSUME NEW d \in Dates, WriteNotes(d) PROVE FALSE
        BY <3>2 DEF WriteNotes, catalogVars
      <3>3. ASSUME NEW slug \in Slugs, SetDefaultCategory(slug) PROVE FALSE
        BY <3>3 DEF SetDefaultCategory
      <3>4. QED
        BY <2>1, <2>2, <3>1, <3>2, <3>3 DEF Next, CategoryStep
  <1>2. QED
    BY <1>1, Invariance, PTL DEF Spec, HistoryConserved

-----------------------------------------------------------------------------
(* The store implements optimistic days. *)

LEMMA CaptureIsSeen ==
    ASSUME TypeOK, NEW c \in Clients, NEW d \in Dates, NEW rev, NEW st, NEW B,
           view' = [view EXCEPT ![c] = Snapshot(d, rev, st, B)]
    PROVE  [k \in Clients |-> Seen(k)'] =
              [[k \in Clients |-> Seen(k)] EXCEPT
                  ![c] = [date |-> d, content |-> [status |-> st, blocks |-> B]]]
  <1>1. view'[c] = Snapshot(d, rev, st, B) /\ \A k \in Clients \ {c} : view'[k] = view[k]
    BY DEF TypeOK
  <1>2. Snapshot(d, rev, st, B) # NoView
    <2>1. "blocks" \in DOMAIN Snapshot(d, rev, st, B) /\ "blocks" \notin DOMAIN NoView
      BY DEF Snapshot, NoView
    <2>2. QED
      BY <2>1
  <1>3. Seen(c)' = [date |-> d, content |-> [status |-> st, blocks |-> B]]
    BY <1>1, <1>2 DEF Seen, Snapshot
  <1>4. \A k \in Clients \ {c} : Seen(k)' = Seen(k)
    BY <1>1 DEF Seen
  <1>5. QED
    BY <1>3, <1>4

\* Comparing revision numbers is as good as comparing whole days: the executor
\* implements the store that accepts a write exactly when its client's capture
\* still is the content of the day.
THEOREM Implements == Spec => ImplementsOptimisticDays
  <1> DEFINE content == [d \in Dates |-> Content(d)]
             known == [c \in Clients |-> Seen(c)]
  <1>1. Init => Optimistic!Init
    BY DEF Init, Optimistic!Init, Optimistic!Nothing, Content, Seen, Effectively
  <1>2. IInv /\ [Next]_vars => [Optimistic!Next]_(Optimistic!vars)
    <2> SUFFICES ASSUME IInv, [Next]_vars PROVE [Optimistic!Next]_<<content, known>>
      BY DEF Optimistic!vars
    <2> USE DEF IInv
    <2>1. ASSUME NEW c \in Clients, NEW d \in Dates, Write(c, d) PROVE Optimistic!Write(c, d)
      <3>1. PICK st \in Statuses, B \in SUBSET Block : Edit(c, d, st, B)
        BY <2>1, WritesAreEdits
      <3> DEFINE new == [status |-> st, blocks |-> B]
      <3>2. new \in [status : Statuses, blocks : SUBSET Block]
        OBVIOUS
      <3>3. known[c] = Optimistic!Saw(d, content[d])
        <4>1. ByDate(c, d) /\ view[c].revision = revision[d]
          BY <3>1 DEF Edit, Accepts
        <4>2. /\ view[c] # NoView /\ view[c].date = d
              /\ view[c].status = Effectively(d) /\ view[c].blocks = blocks[d]
          BY <4>1 DEF ByDate, RevisionIdentifiesState
        <4>3. QED
          BY <4>2 DEF Seen, Content, Optimistic!Saw
      <3>4. content' = [content EXCEPT ![d] = new]
        <4>1. Effectively(d)' = st /\ blocks'[d] = B
          BY <3>1 DEF Edit, Commit, Effectively, TypeOK, Statuses
        <4>2. \A e \in Dates \ {d} : Content(e)' = Content(e)
          BY <3>1 DEF Edit, Commit, Content, Effectively, TypeOK
        <4>3. QED
          BY <4>1, <4>2 DEF Content
      <3>5. known' = [known EXCEPT ![c] = Optimistic!Saw(d, new)]
        <4>1. view' = [view EXCEPT ![c] = Snapshot(d, NextRevision(d, st, B), st, B)]
          BY <3>1 DEF Edit, Commit, Capture
        <4>2. QED
          BY <4>1, CaptureIsSeen DEF Optimistic!Saw
      <3> HIDE DEF new, content, known
      <3>6. QED
        BY <3>2, <3>3, <3>4, <3>5 DEF Optimistic!Write, content, known
    <2>2. ASSUME NEW c \in Clients, NEW d \in Dates,
                 OpenDay(c, d) \/ AssumeNewDay(c, d) \/ RetryReview(c, d)
          PROVE  Optimistic!Read(c, d)
      <3>1. UNCHANGED blocks /\ \A e \in Dates : Effectively(e)' = Effectively(e)
        BY <2>2 DEF OpenDay, AssumeNewDay, RetryReview, Effectively, TypeOK, dayVars
      <3>2. content' = content
        BY <3>1 DEF Content
      <3>3. \E rev : view' = [view EXCEPT ![c] = Snapshot(d, rev, Effectively(d), blocks[d])]
        BY <2>2 DEF OpenDay, AssumeNewDay, RetryReview, Capture, Effectively, AbsentDays
      <3>4. known' = [known EXCEPT ![c] = Optimistic!Saw(d, content[d])]
        <4>1. PICK rev : view' = [view EXCEPT ![c] = Snapshot(d, rev, Effectively(d), blocks[d])]
          BY <3>3
        <4>2. known' = [known EXCEPT ![c] = [date |-> d, content |-> [status |-> Effectively(d), blocks |-> blocks[d]]]]
          BY <4>1, CaptureIsSeen
        <4>3. content[d] = [status |-> Effectively(d), blocks |-> blocks[d]]
          BY DEF Content
        <4>4. QED
          BY <4>2, <4>3 DEF Optimistic!Saw
      <3>5. QED
        BY <3>2, <3>4 DEF Optimistic!Read
    <2>3. ASSUME NEW slug \in Slugs, DeleteCategory(slug) PROVE Optimistic!Maintain
      <3>1. TypeOK'
        BY <2>3, CategoryTypes DEF CategoryStep
      <3>2. \A d \in Dates : Content(d)' \in [status : Statuses, blocks : SUBSET Block]
        BY <3>1 DEF Content, Effectively, TypeOK, Statuses
      <3>3. known' = known
        BY <2>3 DEF DeleteCategory, Seen
      <3>4. QED
        BY <3>2, <3>3 DEF Optimistic!Maintain
    <2>4. ASSUME \/ \E d \in Dates : WriteNotes(d)
                 \/ \E slug \in Slugs : CreateCategory(slug) \/ SetDefaultCategory(slug)
                 \/ UNCHANGED vars
          PROVE  content' = content /\ known' = known
      BY <2>4 DEF WriteNotes, CreateCategory, SetDefaultCategory, vars, dayVars, Content, Effectively, Seen
    <2> HIDE DEF content, known
    <2>5. QED
      BY <2>1, <2>2, <2>3, <2>4 DEF Next, ClientStep, CategoryStep, Write, Optimistic!Next, content, known
  <1>3. QED
    BY <1>1, <1>2, Invariance, PTL DEF Spec, ImplementsOptimisticDays, Optimistic!Spec
=============================================================================

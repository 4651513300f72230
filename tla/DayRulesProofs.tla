---------------------------- MODULE DayRulesProofs ----------------------------
(***************************************************************************)
(* Lemmas about the rules of a day, for any grid: rounding to the grid,    *)
(* the sweep of validate_final_state, and what an accepted interval and an *)
(* accepted day are.                                                       *)
(***************************************************************************)
EXTENDS DayRules, FiniteSetsExt, FiniteSetTheorems, TLAPS

-----------------------------------------------------------------------------
(* Numbers *)

\* Division with a remainder, as the grid uses it.
LEMMA Division ==
    ASSUME NEW n \in Nat \ {0}, NEW x \in Int
    PROVE  /\ x \div n \in Int /\ x % n \in 0..(n - 1)
           /\ x = (x \div n) * n + (x % n)
BY SMT

\* A multiple of a number leaves no remainder.
LEMMA Multiples ==
    ASSUME NEW n \in Nat \ {0}, NEW q \in Int, NEW x \in Int, x = q * n
    PROVE  x % n = 0
<1>1. PICK p \in Int : p = x \div n
  BY Division
<1>2. PICK r \in 0..(n - 1) : r = x % n
  BY Division
<1>3. x = p * n + r
  BY <1>1, <1>2, Division
<1>4. (q - p) * n = r
  BY <1>3
<1>5. q - p = 0
  <2>1. CASE q - p >= 1
    BY <1>4, <2>1
  <2>2. CASE q - p <= -1
    BY <1>4, <2>2
  <2> QED
    BY <2>1, <2>2
<1> QED
  BY <1>2, <1>4, <1>5

\* A grid time is a number of grid steps.
LEMMA GridTimes ==
    ASSUME Grid \in Nat \ {0}, NEW x \in Int, OnGrid(x)
    PROVE  \E q \in Int : x = q * Grid
<1>1. x \div Grid \in Int /\ x = (x \div Grid) * Grid
  BY Division DEF OnGrid
<1> QED
  BY <1>1

\* Sums and differences of grid times are grid times; two of them are a step apart.
LEMMA GridSum ==
    ASSUME Grid \in Nat \ {0}, NEW x \in Int, NEW y \in Int, OnGrid(x), OnGrid(y)
    PROVE  OnGrid(x + y) /\ OnGrid(x - y) /\ OnGrid(0) /\ (x > y => x >= y + Grid)
<1>1. PICK p \in Int : x = p * Grid
  BY GridTimes
<1>2. PICK q \in Int : y = q * Grid
  BY GridTimes
<1>3. x + y = (p + q) * Grid /\ x - y = (p - q) * Grid /\ 0 = 0 * Grid
  BY <1>1, <1>2
<1>4. (x + y) % Grid = 0 /\ (x - y) % Grid = 0 /\ 0 % Grid = 0
  <2>1. PICK a \in Int, b \in Int, c \in Int, d \in Int :
            a = p + q /\ b = p - q /\ c = x + y /\ d = x - y
    OBVIOUS
  <2>2. c = a * Grid /\ d = b * Grid /\ 0 = 0 * Grid
    BY <1>3, <2>1
  <2>3. c % Grid = 0
    BY <2>2, Multiples
  <2>4. d % Grid = 0
    BY <2>2, Multiples
  <2>5. 0 % Grid = 0
    BY Multiples, 0 = 0 * Grid
  <2> QED
    BY <2>1, <2>3, <2>4, <2>5
<1>5. x > y => x >= y + Grid
  <2>1. ASSUME x > y PROVE p - q >= 1
    BY <1>1, <1>2, <2>1
  <2> QED
    BY <1>1, <1>2, <2>1
<1> QED
  BY <1>4, <1>5 DEF OnGrid

\* Rounding up gives the next grid time.
LEMMA GridUpIs ==
    ASSUME Grid \in Nat \ {0}, NEW x \in Int
    PROVE  /\ GridUp(x) \in Int /\ OnGrid(GridUp(x)) /\ x <= GridUp(x) /\ GridUp(x) < x + Grid
           /\ \A y \in Int : OnGrid(y) /\ x <= y => GridUp(x) <= y
<1>1. PICK z \in Int : z = x + Grid - 1
  OBVIOUS
<1>2. PICK q \in Int : q = z \div Grid /\ GridUp(x) = q * Grid
  BY <1>1, Division DEF GridUp
<1>3. PICK r \in 0..(Grid - 1) : r = z % Grid
  BY Division
<1>4. z = q * Grid + r
  BY <1>2, <1>3, Division
<1>5. PICK u \in Int : u = q * Grid
  OBVIOUS
<1>6. OnGrid(u)
  BY <1>5, Multiples DEF OnGrid
<1>7. u = GridUp(x) /\ x <= u /\ u < x + Grid
  BY <1>1, <1>2, <1>4, <1>5
<1>8. ASSUME NEW y \in Int, OnGrid(y), x <= y PROVE u <= y
  BY <1>6, <1>7, <1>8, GridSum
<1> QED
  BY <1>6, <1>7, <1>8

\* Rounding down gives the grid time before.
LEMMA GridDownIs ==
    ASSUME Grid \in Nat \ {0}, NEW x \in Int
    PROVE  /\ GridDown(x) \in Int /\ OnGrid(GridDown(x))
           /\ GridDown(x) <= x /\ x < GridDown(x) + Grid
           /\ \A y \in Int : OnGrid(y) /\ y <= x => y <= GridDown(x)
<1>1. PICK q \in Int : q = x \div Grid /\ GridDown(x) = q * Grid
  BY Division DEF GridDown
<1>2. PICK r \in 0..(Grid - 1) : r = x % Grid
  BY Division
<1>3. x = q * Grid + r
  BY <1>1, <1>2, Division
<1>4. PICK u \in Int : u = q * Grid
  OBVIOUS
<1>5. OnGrid(u)
  BY <1>4, Multiples DEF OnGrid
<1>6. u = GridDown(x) /\ u <= x /\ x < u + Grid
  BY <1>1, <1>3, <1>4
<1>7. ASSUME NEW y \in Int, OnGrid(y), y <= x PROVE y <= u
  BY <1>5, <1>6, <1>7, GridSum
<1> QED
  BY <1>5, <1>6, <1>7

\* Induction on numbers, for a set of them: counting downwards from one that is missing
\* would fit a set into itself with one element left out.
LEMMA Induction ==
    ASSUME NEW S \in SUBSET Nat, 0 \in S, \A n \in S : n + 1 \in S
    PROVE  Nat \subseteq S
<1> SUFFICES ASSUME NEW m \in Nat, m \notin S PROVE FALSE
  OBVIOUS
<1> DEFINE D == {k \in 0..m : k \notin S}
           f == [k \in D |-> k - 1]
<1>1. IsFiniteSet(D)
  <2>1. IsFiniteSet(0..m)
    BY FS_Interval
  <2>2. D \in SUBSET (0..m)
    OBVIOUS
  <2> HIDE DEF D
  <2> QED
    BY <2>1, <2>2, FS_Subset
<1>2. m \in D
  OBVIOUS
<1>3. IsFiniteSet(D \ {m}) /\ Cardinality(D \ {m}) = Cardinality(D) - 1 /\ Cardinality(D) \in Nat
  BY <1>1, <1>2, FS_RemoveElement, FS_CardinalityType
<1>4. \A k \in D : k - 1 \in D \ {m}
  <2> SUFFICES ASSUME NEW k \in D PROVE k - 1 \in D \ {m}
    OBVIOUS
  <2>1. k # 0 /\ k \in 1..m
    OBVIOUS
  <2>2. k - 1 \notin S
    <3>1. ASSUME k - 1 \in S PROVE FALSE
      <4>1. (k - 1) + 1 \in S
        BY <3>1
      <4> QED
        BY <2>1, <4>1
    <3> QED
      BY <3>1
  <2> QED
    BY <2>1, <2>2
<1>5. f \in Injection(D, D \ {m})
  BY <1>4 DEF Injection, IsInjective
<1> HIDE DEF f, D
<1>6. Cardinality(D) <= Cardinality(D \ {m})
  BY <1>3, <1>5, FS_Injection
<1> QED
  BY <1>3, <1>6

\* A set of numbers that does not go below some number has a least one.
LEMMA LeastIs ==
    ASSUME NEW a \in Int, NEW S \in SUBSET Int, \A x \in S : a <= x, S # {}
    PROVE  Min(S) \in S /\ \A x \in S : Min(S) <= x
<1> DEFINE P == {n \in Nat : \A T \in SUBSET Int :
                    (\A x \in T : a <= x) /\ (\E x \in T : x <= a + n)
                        => \E y \in T : \A x \in T : y <= x}
<1>1. 0 \in P
  <2> SUFFICES ASSUME NEW T \in SUBSET Int, \A x \in T : a <= x, NEW y \in T, y <= a + 0
               PROVE  \E z \in T : \A x \in T : z <= x
    OBVIOUS
  <2>1. y = a
    OBVIOUS
  <2> QED
    BY <2>1
<1>2. ASSUME NEW n \in P PROVE n + 1 \in P
  <2>1. n \in Nat /\ n + 1 \in Nat
    OBVIOUS
  <2> SUFFICES ASSUME NEW T \in SUBSET Int, \A x \in T : a <= x, NEW y \in T, y <= a + (n + 1)
               PROVE  \E z \in T : \A x \in T : z <= x
    BY <2>1
  <2>2. CASE \E x \in T : x <= a + n
    BY <2>2
  <2>3. CASE ~\E x \in T : x <= a + n
    <3>1. \A x \in T : y <= x
      BY <2>1, <2>3
    <3> QED
      BY <3>1
  <2> QED
    BY <2>2, <2>3
<1>3. Nat \subseteq P
  <2> HIDE DEF P
  <2>1. P \in SUBSET Nat
    BY DEF P
  <2> QED
    BY <1>1, <1>2, <2>1, Induction
<1>4. PICK s : s \in S
  OBVIOUS
<1>5. s \in Int /\ s - a \in Nat /\ s <= a + (s - a)
  BY <1>4
<1>6. PICK y \in S : \A x \in S : y <= x
  <2>1. s - a \in P
    BY <1>3, <1>5
  <2> QED
    BY <1>4, <1>5, <2>1
<1> QED
  BY <1>6 DEF Min

\* A set of numbers between two bounds has a least one.
LEMMA MinIs ==
    ASSUME NEW a \in Int, NEW b \in Int, NEW S \in SUBSET (a..b), S # {}
    PROVE  Min(S) \in S /\ \A x \in S : Min(S) <= x
<1>1. S \in SUBSET Int /\ \A x \in S : a <= x
  OBVIOUS
<1> QED
  BY <1>1, LeastIs

\* A set of numbers between two bounds has a greatest one.
LEMMA MaxIs ==
    ASSUME NEW a \in Int, NEW b \in Int, NEW S \in SUBSET (a..b), S # {}
    PROVE  Max(S) \in S /\ \A x \in S : x <= Max(S)
<1> DEFINE T == {-x : x \in S}
<1>1. T \in SUBSET ((-b)..(-a)) /\ T # {}
  <2>1. \A x \in S : -x \in (-b)..(-a)
    OBVIOUS
  <2> QED
    BY <2>1
<1>2. PICK m : m = Min(T)
  OBVIOUS
<1>3. m \in T /\ \A y \in T : m <= y
  <2> HIDE DEF T
  <2>1. -b \in Int /\ -a \in Int
    OBVIOUS
  <2> QED
    BY <1>1, <1>2, <2>1, MinIs
<1>4. m \in Int /\ -m \in S /\ \A x \in S : x <= -m
  <2>1. \A x \in S : x \in Int /\ -x \in T
    OBVIOUS
  <2> QED
    BY <1>3, <2>1
<1>5. \E y \in S : \A x \in S : y >= x
  BY <1>4
<1> QED
  BY <1>5 DEF Max

-----------------------------------------------------------------------------
(* Days: the sweep of validate_final_state and the verdict on one block *)

\* A day of blocks with a length.
DayOf(day) ==
    /\ DOMAIN day \subseteq Int
    /\ \A id \in DOMAIN day :
          day[id].start \in Int /\ day[id].end \in Int /\ day[id].start < day[id].end

\* The sweep finds every overlap, whatever lies between the two blocks.
LEMMA SweepFinds ==
    ASSUME NEW day, DayOf(day), NEW a \in DOMAIN day, NEW b \in DOMAIN day, a # b,
           TimesOverlap(day[a], day[b])
    PROVE  <<a, b>> \in Overlaps(day) \/ <<b, a>> \in Overlaps(day)
<1>1. TimesOverlap(day[b], day[a])
  BY DEF TimesOverlap
<1>2. ASSUME NEW x \in DOMAIN day, NEW y \in DOMAIN day, Before(day, x, y),
             TimesOverlap(day[x], day[y])
      PROVE  <<x, y>> \in Overlaps(day)
  <2>1. ASSUME NEW c \in DOMAIN day, Before(day, c, y) \/ c = y
        PROVE  day[c].start < day[x].end
    BY <1>2, <2>1 DEF DayOf, Before, TimesOverlap
  <2>2. Reached(day, x, y)
    BY <1>2, <2>1 DEF Reached
  <2> QED
    BY <1>2, <2>2 DEF Overlaps
<1>3. Before(day, a, b) \/ Before(day, b, a)
  BY DEF Before, DayOf
<1> QED
  BY <1>1, <1>2, <1>3

\* What the sweep reports overlaps, and nothing else does.
LEMMA SweepIsTrue ==
    ASSUME NEW day, DayOf(day)
    PROVE  /\ Overlaps(day) = {} <=> Disjoint(day)
           /\ \A p \in Overlaps(day) :
                 /\ p[1] \in DOMAIN day /\ p[2] \in DOMAIN day /\ p[1] # p[2]
                 /\ TimesOverlap(day[p[1]], day[p[2]]) /\ TimesOverlap(day[p[2]], day[p[1]])
<1>1. \A p \in Overlaps(day) :
          /\ p[1] \in DOMAIN day /\ p[2] \in DOMAIN day /\ p[1] # p[2]
          /\ TimesOverlap(day[p[1]], day[p[2]]) /\ TimesOverlap(day[p[2]], day[p[1]])
  <2> SUFFICES ASSUME NEW p \in Overlaps(day)
               PROVE  /\ p[1] \in DOMAIN day /\ p[2] \in DOMAIN day /\ p[1] # p[2]
                      /\ TimesOverlap(day[p[1]], day[p[2]])
                      /\ TimesOverlap(day[p[2]], day[p[1]])
    OBVIOUS
  <2>1. /\ p[1] \in DOMAIN day /\ p[2] \in DOMAIN day
        /\ Before(day, p[1], p[2]) /\ TimesOverlap(day[p[1]], day[p[2]])
    BY DEF Overlaps, Reached
  <2>2. p[1] # p[2]
    BY <2>1 DEF Before, DayOf
  <2> QED
    BY <2>1, <2>2 DEF TimesOverlap
<1>2. Overlaps(day) = {} => Disjoint(day)
  BY SweepFinds DEF Disjoint
<1>3. Disjoint(day) => Overlaps(day) = {}
  BY <1>1 DEF Disjoint
<1> QED
  BY <1>1, <1>2, <1>3

\* The window of a turn.
WindowOf(window) ==
    /\ window.start \in Int /\ window.end \in Int /\ window.start < window.end
    /\ OnGrid(window.start) /\ OnGrid(window.end)

FlagsOf(ends) == ends \in [start : BOOLEAN, end : BOOLEAN]

\* A block that is not empty, and whose ends in question are on the grid and in the window.
Clean(block, window, ends) ==
    /\ block.start < block.end
    /\ ends.start => OnGrid(block.start) /\ InWindow(block.start, window)
    /\ ends.end => OnGrid(block.end) /\ InWindow(block.end, window)

\* A record with a start and an end, whatever else it has.
Ranged(block) ==
    /\ block = [f \in DOMAIN block |-> block[f]]
    /\ {"start", "end"} \subseteq DOMAIN block
    /\ block.start \in Int /\ block.end \in Int

\* Clamping moves the named ends to the edges of the window and keeps all else.
LEMMA ClampedIs ==
    ASSUME NEW block, Ranged(block), NEW window, NEW clamp
    PROVE  /\ Clamped(block, window, clamp).start
                = IF clamp.start THEN Later(block.start, window.start) ELSE block.start
           /\ Clamped(block, window, clamp).end
                = IF clamp.end THEN Earlier(block.end, window.end) ELSE block.end
           /\ Clamped(block, window, clamp)
                = [f \in DOMAIN block |-> IF f = "start" THEN Clamped(block, window, clamp).start
                                          ELSE IF f = "end" THEN Clamped(block, window, clamp).end
                                          ELSE block[f]]
<1>1. PICK s, e : /\ s = IF clamp.start THEN Later(block.start, window.start) ELSE block.start
                  /\ e = IF clamp.end THEN Earlier(block.end, window.end) ELSE block.end
  OBVIOUS
<1>2. Clamped(block, window, clamp) = [block EXCEPT !.start = s, !.end = e]
  BY <1>1 DEF Clamped
<1>3. [block EXCEPT !.start = s, !.end = e]
          = [f \in DOMAIN block |-> IF f = "start" THEN s ELSE IF f = "end" THEN e ELSE block[f]]
  BY DEF Ranged
<1>4. PICK g : g = [f \in DOMAIN block |-> IF f = "start" THEN s ELSE IF f = "end" THEN e
                                           ELSE block[f]]
  OBVIOUS
<1>5. g.start = s /\ g.end = e
  BY <1>4 DEF Ranged
<1> QED
  BY <1>1, <1>2, <1>3, <1>4, <1>5

\* What a verdict of "ok" says of the interval that is kept.
LEMMA OkIsClean ==
    ASSUME NEW block, Ranged(block), NEW window, WindowOf(window),
           NEW changed, FlagsOf(changed), NEW clamp, FlagsOf(clamp),
           NEW writer \in {"manual", "ai"},
           Verdict(block, Policy(writer), window, changed, clamp) = "ok"
    PROVE  /\ Clean(Settled(block, Policy(writer), window, clamp), window, changed)
           /\ changed.end /\ ~clamp.end => block.end <= window.end
<1>1. Policy(writer) = [grid |-> TRUE, rule |-> "clamp"]
  BY DEF Policy
<1>2. PICK kept : kept = Clamped(block, window, clamp)
  OBVIOUS
<1>3. Settled(block, Policy(writer), window, clamp) = kept
  BY <1>1, <1>2 DEF Settled
<1>4. /\ kept.start = IF clamp.start THEN Later(block.start, window.start) ELSE block.start
      /\ kept.end = IF clamp.end THEN Earlier(block.end, window.end) ELSE block.end
      /\ kept.start \in Int /\ kept.end \in Int
  BY <1>2, ClampedIs DEF Ranged, WindowOf, Later, Earlier
<1>5. ~OffGrid(block, changed)
  BY <1>1 DEF Verdict
<1>6. /\ changed.start /\ ~clamp.start => InWindow(block.start, window)
      /\ changed.end /\ ~clamp.end => InWindow(block.end, window)
  <2> DEFINE fixed == [start |-> changed.start /\ ~clamp.start,
                       end |-> changed.end /\ ~clamp.end]
  <2>1. ~Outside(block, window, fixed)
    BY <1>1, <1>5 DEF Verdict
  <2>2. /\ fixed.start = (changed.start /\ ~clamp.start)
        /\ fixed.end = (changed.end /\ ~clamp.end)
    OBVIOUS
  <2> HIDE DEF fixed
  <2>3. fixed.start => InWindow(block.start, window)
    BY <2>1 DEF Outside
  <2>4. fixed.end => InWindow(block.end, window)
    BY <2>1 DEF Outside
  <2> QED
    BY <2>2, <2>3, <2>4
<1>7. \/ ~Outside(block, window, clamp) /\ block.start < block.end
      \/ ~Vanishes(block, window, clamp)
  BY <1>1, <1>5, <1>6 DEF Verdict, Ranged
<1>8. /\ clamp.start => block.start <= window.end
      /\ clamp.end => block.end >= window.start
      /\ kept.start < kept.end
  <2>1. CASE ~Outside(block, window, clamp) /\ block.start < block.end
    BY <1>4, <2>1 DEF Outside, InWindow, Later, Earlier, Ranged, WindowOf
  <2>2. CASE ~Vanishes(block, window, clamp)
    BY <1>2, <1>4, <2>2 DEF Vanishes, Ranged, WindowOf
  <2> QED
    BY <1>7, <2>1, <2>2
<1>9. /\ changed.start => OnGrid(kept.start) /\ InWindow(kept.start, window)
      /\ changed.end => OnGrid(kept.end) /\ InWindow(kept.end, window)
  <2>1. changed.start => OnGrid(block.start) /\ OnGrid(window.start)
    BY <1>5 DEF OffGrid, WindowOf
  <2>2. changed.end => OnGrid(block.end) /\ OnGrid(window.end)
    BY <1>5 DEF OffGrid, WindowOf
  <2>3. changed.start => OnGrid(kept.start) /\ InWindow(kept.start, window)
    BY <1>4, <1>6, <1>8, <2>1 DEF InWindow, Later, Ranged, WindowOf
  <2>4. changed.end => OnGrid(kept.end) /\ InWindow(kept.end, window)
    BY <1>4, <1>6, <1>8, <2>2 DEF InWindow, Earlier, Ranged, WindowOf
  <2> QED
    BY <2>3, <2>4
<1> QED
  BY <1>3, <1>6, <1>8, <1>9 DEF Clean, InWindow

\* A clean block is accepted as it is, by a person's edit and by the assistant.
LEMMA CleanIsOk ==
    ASSUME NEW block, Ranged(block), NEW window, WindowOf(window),
           NEW ends, FlagsOf(ends), Clean(block, window, ends),
           NEW writer \in {"manual", "ai"}
    PROVE  /\ Verdict(block, Policy(writer), window, ends, ends) = "ok"
           /\ Settled(block, Policy(writer), window, ends) = block
<1>1. Policy(writer) = [grid |-> TRUE, rule |-> "clamp"]
  BY DEF Policy
<1>2. ~OffGrid(block, ends) /\ ~Outside(block, window, ends)
  BY DEF OffGrid, Outside, Clean
<1>3. ~Outside(block, window, [start |-> ends.start /\ ~ends.start, end |-> ends.end /\ ~ends.end])
  BY DEF Outside
<1>4. Verdict(block, Policy(writer), window, ends, ends) = "ok"
  BY <1>1, <1>2, <1>3 DEF Verdict, Clean, Ranged
<1>5. Clamped(block, window, ends) = block
  <2>1. /\ Clamped(block, window, ends).start = block.start
        /\ Clamped(block, window, ends).end = block.end
    BY ClampedIs DEF Clean, InWindow, Later, Earlier, Ranged, WindowOf
  <2>2. block = [f \in DOMAIN block |-> IF f = "start" THEN block.start
                                        ELSE IF f = "end" THEN block.end ELSE block[f]]
    BY DEF Ranged
  <2> QED
    BY <2>1, <2>2, ClampedIs
<1> QED
  BY <1>1, <1>4, <1>5 DEF Settled

\* A day of clean blocks without an overlap is a day that a command may ask for.
LEMMA CommandedIs ==
    ASSUME NEW before, NEW after,
           after = [id \in DOMAIN after |-> after[id]], DOMAIN after \subseteq Int,
           \A id \in DOMAIN after : Ranged(after[id]), NEW window, WindowOf(window), Disjoint(after),
           \A id \in DOMAIN after : Clean(after[id], window, ChangedEnds(before, after, id)),
           NEW writer \in {"manual", "ai"}
    PROVE  Commanded(before, after, writer, window) = [accepted |-> TRUE, day |-> after]
<1> DEFINE ends(id) == ChangedEnds(before, after, id)
           settled == [id \in DOMAIN after |->
                          Settled(after[id], Policy(writer), window, ends(id))]
<1>1. ASSUME NEW id \in DOMAIN after
      PROVE  /\ Verdict(after[id], Policy(writer), window, ends(id), ends(id)) = "ok"
             /\ Settled(after[id], Policy(writer), window, ends(id)) = after[id]
  <2>1. PICK e : e = ends(id)
    OBVIOUS
  <2>2. FlagsOf(e) /\ Clean(after[id], window, e)
    BY <2>1 DEF ChangedEnds, FlagsOf
  <2>3. Ranged(after[id])
    OBVIOUS
  <2> QED
    BY <2>1, <2>2, <2>3, CleanIsOk
<1>2. settled = after
  BY <1>1
<1>3. Overlaps(after) = {}
  <2>1. DayOf(after)
    BY DEF DayOf, Clean, Ranged
  <2> QED
    BY <2>1, SweepIsTrue
<1> QED
  BY <1>1, <1>2, <1>3 DEF Commanded


\* A day that was accepted has no overlap and no empty block; ends were clamped at most.
LEMMA AcceptedIs ==
    ASSUME NEW before, NEW after, DOMAIN after \subseteq Int,
           \A id \in DOMAIN after : Ranged(after[id]), NEW window, WindowOf(window),
           NEW writer \in {"manual", "ai"},
           Commanded(before, after, writer, window).accepted
    PROVE  /\ Commanded(before, after, writer, window).day
                = [id \in DOMAIN after |-> Clamped(after[id], window,
                                                  ChangedEnds(before, after, id))]
           /\ DayOf(Commanded(before, after, writer, window).day)
           /\ Disjoint(Commanded(before, after, writer, window).day)
<1> DEFINE ends(id) == ChangedEnds(before, after, id)
           settled == [id \in DOMAIN after |->
                          Settled(after[id], Policy(writer), window, ends(id))]
           verdict(id) == Verdict(after[id], Policy(writer), window, ends(id), ends(id))
<1>1. /\ \A id \in DOMAIN after : verdict(id) = "ok"
      /\ Overlaps(settled) = {}
      /\ Commanded(before, after, writer, window).day = settled
  BY DEF Commanded
<1>2. ASSUME NEW id \in DOMAIN after
      PROVE  /\ Settled(after[id], Policy(writer), window, ends(id))
                    = Clamped(after[id], window, ends(id))
             /\ Clamped(after[id], window, ends(id)).start \in Int
             /\ Clamped(after[id], window, ends(id)).end \in Int
             /\ Clamped(after[id], window, ends(id)).start
                    < Clamped(after[id], window, ends(id)).end
  <2>1. Policy(writer) = [grid |-> TRUE, rule |-> "clamp"]
    BY DEF Policy
  <2>2. PICK e : e = ends(id)
    OBVIOUS
  <2>3. FlagsOf(e)
    BY <2>2 DEF ChangedEnds, FlagsOf
  <2>4. Verdict(after[id], Policy(writer), window, e, e) = "ok"
    BY <1>1, <2>2
  <2>5. PICK b : b = after[id]
    OBVIOUS
  <2>6. Ranged(b)
    BY <2>5
  <2>7. Clean(Settled(b, Policy(writer), window, e), window, e)
    BY <2>3, <2>4, <2>5, <2>6, OkIsClean
  <2>8. Settled(b, Policy(writer), window, e) = Clamped(b, window, e)
    BY <2>1 DEF Settled
  <2>9. Clamped(b, window, e).start \in Int /\ Clamped(b, window, e).end \in Int
    BY <2>6, ClampedIs DEF Ranged, WindowOf, Later, Earlier
  <2> QED
    BY <2>2, <2>5, <2>7, <2>8, <2>9 DEF Clean
<1>3. settled = [id \in DOMAIN after |-> Clamped(after[id], window, ends(id))]
  BY <1>2
<1>4. DayOf(settled)
  BY <1>2 DEF DayOf
<1>5. Disjoint(settled)
  <2> HIDE DEF settled
  <2> QED
    BY <1>1, <1>4, SweepIsTrue
<1> QED
  BY <1>1, <1>3, <1>4, <1>5
=============================================================================

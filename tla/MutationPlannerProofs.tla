------------------------- MODULE MutationPlannerProofs -------------------------
(***************************************************************************)
(* What plan_mutations promises for every day, window, clock, repertoire   *)
(* of the model, number of actions, grid and length of a day.              *)
(***************************************************************************)
EXTENDS MutationPlanner, DayRulesProofs

\* The grid divides time into steps, None is no number, and the turns are those of a
\* user's day and a schema-valid reply.
Ordinary ==
    /\ Grid \in Nat \ {0} /\ DayMinutes \in Nat \ {0}
    /\ DefaultDuration \in Nat \ {0} /\ OnGrid(DefaultDuration)
    /\ MaxActions \in Nat
    /\ None \notin Int
    /\ \A t \in Turns : Proper(t)

-----------------------------------------------------------------------------
(* Blocks *)

BlockOf(block) ==
    block \in [start : Int, end : Int, label : STRING]

LEMMA BlocksRanged ==
    ASSUME NEW block, BlockOf(block)
    PROVE  Ranged(block)
BY DEF BlockOf, Ranged

\* Clamping keeps the label.
LEMMA ClampedBlock ==
    ASSUME NEW block, BlockOf(block), NEW window, NEW clamp
    PROVE  /\ Clamped(block, window, clamp).label = block.label
           /\ Clamped(block, window, clamp)
                = [start |-> Clamped(block, window, clamp).start,
                   end |-> Clamped(block, window, clamp).end, label |-> block.label]
<1>1. PICK s, e : s = Clamped(block, window, clamp).start /\ e = Clamped(block, window, clamp).end
  OBVIOUS
<1>2. Clamped(block, window, clamp)
        = [f \in DOMAIN block |-> IF f = "start" THEN s ELSE IF f = "end" THEN e ELSE block[f]]
  BY <1>1, BlocksRanged, ClampedIs
<1>3. DOMAIN block = {"start", "end", "label"}
  BY DEF BlockOf
<1> QED
  BY <1>1, <1>2, <1>3

-----------------------------------------------------------------------------
(* Slots: find_slot and _find_auto_slot *)

FreeAt(c, length, occupied) ==
    \A o \in occupied : ~TimesOverlap([start |-> c, end |-> c + length], o)

\* What find_slot returns fits; when it returns nothing, nothing later fits.
LEMMA SlotIs ==
    ASSUME Ordinary, WindowOf(turn.window), NEW occupied, NEW start \in Int, NEW end \in Int,
           NEW direction, NEW slot, slot = Slot(occupied, start, end, direction)
    PROVE  /\ slot # None =>
                 /\ slot \in Int /\ OnGrid(slot) /\ end - start > 0 /\ OnGrid(end - start)
                 /\ turn.window.start <= slot /\ slot + (end - start) <= turn.window.end
                 /\ FreeAt(slot, end - start, occupied)
                 /\ direction = "later" => start <= slot
           /\ slot = None /\ direction = "later" /\ end - start > 0 /\ OnGrid(end - start) =>
                 \A c \in turn.window.start..(turn.window.end - (end - start)) :
                     OnGrid(c) /\ start <= c => ~FreeAt(c, end - start, occupied)
<1>1. Grid \in Nat \ {0} /\ None \notin Int
  BY DEF Ordinary
<1>0. PICK ws \in Int, we \in Int : ws = turn.window.start /\ we = turn.window.end
  BY DEF WindowOf
<1>2. PICK length \in Int, last \in Int :
          /\ ws = turn.window.start /\ we = turn.window.end
          /\ length = end - start /\ last = we - length
  <2>1. PICK length \in Int : length = end - start
    OBVIOUS
  <2>2. PICK last \in Int : last = we - length
    BY <1>0, <2>1
  <2> QED
    BY <1>0, <2>1, <2>2
<1>3. OnGrid(ws)
  BY <1>2 DEF WindowOf
<1>4. PICK first : first = IF direction = "later" THEN Later(GridUp(start), ws)
                           ELSE Earlier(GridDown(start), GridDown(last))
  OBVIOUS
<1>5. first \in Int /\ OnGrid(first) /\ (direction = "later" => start <= first)
  <2>1. /\ GridUp(start) \in Int /\ OnGrid(GridUp(start)) /\ start <= GridUp(start)
        /\ GridDown(start) \in Int /\ OnGrid(GridDown(start))
        /\ GridDown(last) \in Int /\ OnGrid(GridDown(last))
    BY <1>1, GridUpIs, GridDownIs
  <2> QED
    BY <1>3, <1>4, <2>1 DEF Later, Earlier
<1> DEFINE tried == {c \in ws..last :
                        /\ (c - first) % Grid = 0
                        /\ IF direction = "later" THEN c >= first ELSE c <= first}
           free == {c \in tried : \A o \in occupied :
                        ~TimesOverlap([start |-> c, end |-> c + length], o)}
<1>6. slot = IF length <= 0 \/ ~OnGrid(length) \/ free = {} THEN None
             ELSE IF direction = "later" THEN Min(free) ELSE Max(free)
  BY <1>2, <1>4 DEF Slot
<1>7. \A c \in Int : (c - first) % Grid = 0 <=> OnGrid(c)
  <2> SUFFICES ASSUME NEW c \in Int PROVE (c - first) % Grid = 0 <=> OnGrid(c)
    OBVIOUS
  <2>1. PICK d \in Int : d = c - first
    BY <1>5
  <2>2. OnGrid(d) => OnGrid(c)
    <3>1. c = d + first
      BY <1>5, <2>1
    <3> QED
      BY <1>1, <1>5, <2>1, <3>1, GridSum
  <2>3. OnGrid(c) => OnGrid(d)
    BY <1>1, <1>5, <2>1, GridSum
  <2> QED
    BY <2>1, <2>2, <2>3 DEF OnGrid
<1>8. \A c : c \in free <=> /\ c \in ws..last /\ OnGrid(c) /\ FreeAt(c, length, occupied)
                            /\ IF direction = "later" THEN c >= first ELSE c <= first
  BY <1>7 DEF FreeAt
<1>9. free \in SUBSET (ws..last)
  OBVIOUS
<1> HIDE DEF free, tried
<1>10. ASSUME slot # None
       PROVE  slot \in free /\ length > 0 /\ OnGrid(length)
  <2>1. length > 0 /\ OnGrid(length) /\ free # {}
    BY <1>6, <1>10
  <2>2. Min(free) \in free /\ Max(free) \in free
    BY <1>9, <2>1, MinIs, MaxIs
  <2> QED
    BY <1>6, <2>1, <2>2
<1>11. slot # None => /\ slot \in Int /\ OnGrid(slot) /\ length > 0 /\ OnGrid(length)
                      /\ ws <= slot /\ slot + length <= we /\ FreeAt(slot, length, occupied)
                      /\ (direction = "later" => start <= slot)
  BY <1>2, <1>5, <1>8, <1>10
<1>12. ASSUME slot = None, direction = "later", length > 0, OnGrid(length),
              NEW c \in ws..last, OnGrid(c), start <= c
       PROVE  ~FreeAt(c, length, occupied)
  <2>1. free = {}
    <3>1. ASSUME free # {} PROVE FALSE
      <4>1. Min(free) \in free
        BY <1>9, <3>1, MinIs
      <4>2. slot \in Int
        <5>1. Min(free) \in Int
          <6>1. PICK m : m = Min(free)
            OBVIOUS
          <6>2. m \in ws..last
            BY <1>9, <4>1, <6>1
          <6> QED
            BY <6>1, <6>2
        <5>2. slot = Min(free)
          BY <1>2, <1>6, <1>12, <3>1
        <5> QED
          BY <5>1, <5>2
      <4> QED
        BY <1>1, <1>12, <4>2
    <3> QED
      BY <3>1
  <2>2. GridUp(start) <= c
    BY <1>1, <1>12, GridUpIs
  <2>3. c >= first
    BY <1>4, <1>12, <2>2 DEF Later
  <2> QED
    BY <1>8, <1>12, <2>1, <2>3
<1> QED
  BY <1>2, <1>11, <1>12

\* A place of this length and a gap on both sides are clear of the blocks of the day.
Clear(day, c, length, gap) ==
    \A b \in DOMAIN day :
        ~TimesOverlap([start |-> c, end |-> c + length],
                      [start |-> day[b].start - gap, end |-> day[b].end + gap])

\* Clear, in numbers.
LEMMA ClearIs ==
    ASSUME NEW day, NEW c, NEW length, NEW gap
    PROVE  Clear(day, c, length, gap) <=>
               \A b \in DOMAIN day :
                   ~(c < day[b].end + gap /\ c + length > day[b].start - gap)
BY DEF Clear, TimesOverlap

\* Inside the window, cutting the padded blocks at its edges takes nothing away.
LEMMA PaddedIs ==
    ASSUME WindowOf(turn.window), NEW day, DayOf(day), NEW gap \in Nat, NEW c \in Int,
           NEW length \in Nat \ {0}, turn.window.start <= c, c + length <= turn.window.end
    PROVE  FreeAt(c, length, Padded(day, gap)) <=> Clear(day, c, length, gap)
<1>1. PICK ws \in Int, we \in Int : ws = turn.window.start /\ we = turn.window.end /\ ws < we
  BY DEF WindowOf
<1> DEFINE cut(b) == [start |-> Later(b.start - gap, ws), end |-> Earlier(b.end + gap, we)]
<1>2. Padded(day, gap) = {i \in {cut(b) : b \in Intervals(day)} : i.end > i.start}
  BY <1>1 DEF Padded
<1>3. ASSUME NEW id \in DOMAIN day
      PROVE  LET b == [start |-> day[id].start, end |-> day[id].end]
             IN  /\ b \in Intervals(day)
                 /\ c < day[id].end + gap /\ c + length > day[id].start - gap =>
                       /\ cut(b).end > cut(b).start
                       /\ TimesOverlap([start |-> c, end |-> c + length], cut(b))
                 /\ TimesOverlap([start |-> c, end |-> c + length], cut(b)) =>
                       c < day[id].end + gap /\ c + length > day[id].start - gap
  <2> DEFINE b == [start |-> day[id].start, end |-> day[id].end]
  <2>1. b \in Intervals(day)
    BY DEF Intervals
  <2>2. PICK s \in Int, e \in Int : s = day[id].start /\ e = day[id].end /\ s < e
    BY DEF DayOf
  <2>3. PICK k : k = cut(b)
    OBVIOUS
  <2>4. /\ k.start = IF s - gap < ws THEN ws ELSE s - gap
        /\ k.end = IF e + gap < we THEN e + gap ELSE we
    BY <2>2, <2>3 DEF Later, Earlier
  <2>5. c < e + gap /\ c + length > s - gap =>
            k.end > k.start /\ c < k.end /\ c + length > k.start
    BY <1>1, <2>2, <2>4
  <2>6. c < k.end /\ c + length > k.start => c < e + gap /\ c + length > s - gap
    BY <1>1, <2>2, <2>4
  <2> QED
    BY <2>1, <2>2, <2>3, <2>5, <2>6 DEF TimesOverlap
<1>4. ASSUME FreeAt(c, length, Padded(day, gap)), NEW id \in DOMAIN day,
             c < day[id].end + gap, c + length > day[id].start - gap
      PROVE  FALSE
  <2>1. PICK b : b = [start |-> day[id].start, end |-> day[id].end]
    OBVIOUS
  <2>2. /\ b \in Intervals(day) /\ cut(b).end > cut(b).start
        /\ TimesOverlap([start |-> c, end |-> c + length], cut(b))
    BY <1>3, <1>4, <2>1
  <2>3. cut(b) \in Padded(day, gap)
    BY <1>2, <2>2
  <2> HIDE DEF cut
  <2> QED
    BY <1>4, <2>2, <2>3 DEF FreeAt
<1>5. ASSUME Clear(day, c, length, gap), NEW o \in Padded(day, gap)
      PROVE  ~TimesOverlap([start |-> c, end |-> c + length], o)
  <2>1. PICK id \in DOMAIN day :
            o = cut([start |-> day[id].start, end |-> day[id].end])
    BY <1>2 DEF Intervals
  <2>2. ~(c < day[id].end + gap /\ c + length > day[id].start - gap)
    BY <1>5, ClearIs
  <2> QED
    BY <1>3, <2>1, <2>2
<1> QED
  BY <1>4, <1>5, ClearIs DEF FreeAt

\* The slot of an untimed addition fits and is free; when there is none, every place is
\* taken with the whole gap around it, and the earliest one with no gap at all.
LEMMA AutoSlotIs ==
    ASSUME Ordinary, WindowOf(turn.window), turn.window.end \in Times,
           NEW day, DayOf(day), \A id \in DOMAIN day : day[id].start \in Times,
           NEW base \in Int, turn.window.start <= base,
           NEW length \in Nat \ {0}, OnGrid(length), base + length <= turn.window.end,
           NEW gap \in Nat, NEW slot, slot = AutoSlot(day, base, length, gap)
    PROVE  /\ slot # None =>
                 /\ slot \in Int /\ OnGrid(slot) /\ base <= slot
                 /\ slot + length <= turn.window.end /\ Clear(day, slot, length, 0)
           /\ slot = None =>
                 \A c \in base..(turn.window.end - length) : OnGrid(c) =>
                     ~Clear(day, c, length, gap) /\ (c = base => ~Clear(day, c, length, 0))
<1>1. Grid \in Nat \ {0} /\ DayMinutes \in Nat \ {0} /\ None \notin Int
  BY DEF Ordinary
<1>2. PICK ws \in Int, we \in Int : ws = turn.window.start /\ we = turn.window.end /\ ws < we
  BY DEF WindowOf
<1> DEFINE ahead == {b.start : b \in {i \in Intervals(day) : i.end > base}}
           near == Min(ahead \union {we})
           limit == near
           whole == Slot(Padded(day, gap), base, base + length, "later")
           rightmost(g) ==
               GridDown(IF ahead = {} THEN we ELSE Earlier(we, Min(ahead) - g)) - length
           smaller == {g \in 0..(gap - 1) :
                          /\ OnGrid(g)
                          /\ rightmost(g) >= base
                          /\ \A o \in Padded(day, g) :
                                ~TimesOverlap([start |-> rightmost(g),
                                               end |-> rightmost(g) + length], o)}
<1>3. slot = IF limit <= base \/ (whole # None /\ whole + length <= limit) \/ smaller = {}
             THEN whole ELSE rightmost(Max(smaller))
  BY <1>2 DEF AutoSlot
<1>4. \A x : x \in ahead <=> \E id \in DOMAIN day : day[id].end > base /\ x = day[id].start
  <2>1. ASSUME NEW x, x \in ahead
        PROVE  \E id \in DOMAIN day : day[id].end > base /\ x = day[id].start
    BY <2>1 DEF Intervals
  <2>2. ASSUME NEW id \in DOMAIN day, day[id].end > base PROVE day[id].start \in ahead
    <3>1. PICK i : i = [start |-> day[id].start, end |-> day[id].end]
      OBVIOUS
    <3>2. i \in Intervals(day) /\ i.end > base /\ i.start = day[id].start
      BY <2>2, <3>1 DEF Intervals
    <3> QED
      BY <3>2
  <2> QED
    BY <2>1, <2>2
<1>5. ahead \in SUBSET (0..DayMinutes) /\ we \in 0..DayMinutes
  <2>1. we \in 0..DayMinutes
    BY <1>1, <1>2 DEF Times
  <2>2. ASSUME NEW x \in ahead PROVE x \in 0..DayMinutes
    BY <1>1, <1>4 DEF Times
  <2> QED
    BY <2>1, <2>2
<1> HIDE DEF ahead
<1>6. near \in ahead \union {we} /\ near \in Int /\ \A x \in ahead \union {we} : near <= x
  <2>1. ahead \union {we} \in SUBSET (0..DayMinutes)
    BY <1>5
  <2>2. PICK s : s = ahead \union {we} /\ s # {}
    OBVIOUS
  <2>3. Min(s) \in s /\ \A x \in s : Min(s) <= x
    <3>1. s \in SUBSET (0..DayMinutes) /\ s # {}
      BY <2>1, <2>2
    <3>2. 0 \in Int /\ DayMinutes \in Int
      BY <1>1
    <3> QED
      BY ONLY <3>1, <3>2, MinIs
  <2> QED
    BY <1>1, <2>1, <2>2, <2>3
<1>7. ahead # {} => Min(ahead) \in ahead /\ Min(ahead) \in Int /\ \A x \in ahead : Min(ahead) <= x
  <2> SUFFICES ASSUME ahead # {}
               PROVE  Min(ahead) \in ahead /\ Min(ahead) \in Int /\ \A x \in ahead : Min(ahead) <= x
    OBVIOUS
  <2>1. ahead \in SUBSET (0..DayMinutes) /\ 0 \in Int /\ DayMinutes \in Int
    BY <1>1, <1>5
  <2>2. Min(ahead) \in ahead /\ \A x \in ahead : Min(ahead) <= x
    BY ONLY <2>1, ahead # {}, MinIs
  <2>3. PICK m : m = Min(ahead)
    OBVIOUS
  <2>4. m \in 0..DayMinutes
    BY <2>1, <2>2, <2>3
  <2> QED
    BY <1>1, <2>2, <2>3, <2>4
<1> HIDE DEF near
<1>8. \A g \in Nat : /\ rightmost(g) \in Int /\ OnGrid(rightmost(g))
                     /\ rightmost(g) + length <= we
                     /\ \A id \in DOMAIN day :
                           day[id].end > base => rightmost(g) + length <= day[id].start - g
  <2> SUFFICES ASSUME NEW g \in Nat
               PROVE  /\ rightmost(g) \in Int /\ OnGrid(rightmost(g))
                      /\ rightmost(g) + length <= we
                      /\ \A id \in DOMAIN day :
                            day[id].end > base => rightmost(g) + length <= day[id].start - g
    OBVIOUS
  <2>1. PICK edge : edge = IF ahead = {} THEN we ELSE Earlier(we, Min(ahead) - g)
    OBVIOUS
  <2>2. edge \in Int /\ edge <= we
    BY <1>2, <1>7, <2>1 DEF Earlier
  <2>3. ahead # {} => edge <= Min(ahead) - g
    BY <1>2, <1>7, <2>1 DEF Earlier
  <2>4. PICK d \in Int : d = GridDown(edge) /\ OnGrid(d) /\ d <= edge
    BY <1>1, <2>2, GridDownIs
  <2>5. rightmost(g) = d - length
    BY <2>1, <2>4
  <2>6. OnGrid(d - length)
    BY <1>1, <2>4, GridSum
  <2>7. ASSUME NEW id \in DOMAIN day, day[id].end > base
        PROVE  d <= day[id].start - g
    <3>1. day[id].start \in ahead /\ day[id].start \in Int
      BY <1>4, <2>7 DEF DayOf
    <3>2. Min(ahead) <= day[id].start /\ Min(ahead) \in Int
      BY <1>7, <3>1
    <3> QED
      BY <2>2, <2>3, <2>4, <3>1, <3>2
  <2> HIDE DEF rightmost
  <2>8. rightmost(g) \in Int /\ OnGrid(rightmost(g)) /\ rightmost(g) + length = d
    BY <2>4, <2>5, <2>6
  <2> QED
    BY <2>2, <2>4, <2>7, <2>8
<1> HIDE DEF whole
<1>9. /\ whole # None =>
            /\ whole \in Int /\ OnGrid(whole) /\ base <= whole /\ whole + length <= we
            /\ Clear(day, whole, length, gap)
      /\ whole = None =>
            \A c \in base..(we - length) : OnGrid(c) => ~Clear(day, c, length, gap)
  <2>1. PICK e \in Int : e = base + length /\ e - base = length
    OBVIOUS
  <2>2. whole = Slot(Padded(day, gap), base, e, "later")
    BY <2>1 DEF whole
  <2>3. /\ whole # None =>
              /\ whole \in Int /\ OnGrid(whole) /\ ws <= whole /\ whole + length <= we
              /\ FreeAt(whole, length, Padded(day, gap)) /\ base <= whole
        /\ whole = None =>
              \A c \in ws..(we - length) :
                  OnGrid(c) /\ base <= c => ~FreeAt(c, length, Padded(day, gap))
    <3>1. length > 0
      OBVIOUS
    <3> HIDE DEF rightmost, smaller
    <3> QED
      BY <1>2, <2>1, <2>2, <3>1, SlotIs
  <2>4. whole # None => Clear(day, whole, length, gap)
    BY <1>2, <2>3, PaddedIs
  <2>5. ASSUME whole = None, NEW c \in base..(we - length), OnGrid(c)
        PROVE  ~Clear(day, c, length, gap)
    <3>1. c \in Int /\ ws <= c /\ base <= c /\ c + length <= we /\ c \in ws..(we - length)
      BY <1>2, <2>5
    <3>2. ~FreeAt(c, length, Padded(day, gap))
      BY <2>3, <2>5, <3>1
    <3> QED
      BY <1>2, <3>1, <3>2, PaddedIs
  <2> QED
    BY <2>3, <2>4, <2>5
<1>10. \A c \in Int : Clear(day, c, length, gap) => Clear(day, c, length, 0)
  <2> SUFFICES ASSUME NEW c \in Int, Clear(day, c, length, gap), NEW b \in DOMAIN day
               PROVE  ~(c < day[b].end + 0 /\ c + length > day[b].start - 0)
    BY ClearIs
  <2>1. ~(c < day[b].end + gap /\ c + length > day[b].start - gap)
    BY ClearIs
  <2>2. day[b].start \in Int /\ day[b].end \in Int
    BY DEF DayOf
  <2> QED
    BY <2>1, <2>2
<1>11. CASE slot = whole /\ slot # None
  BY <1>2, <1>9, <1>10, <1>11
<1>12. CASE slot # whole
  <2>1. smaller # {} /\ slot = rightmost(Max(smaller))
    BY <1>3, <1>12
  <2>2. PICK g \in smaller : g = Max(smaller)
    <3>1. smaller \in SUBSET (0..(gap - 1)) /\ 0 \in Int /\ gap - 1 \in Int
      OBVIOUS
    <3> HIDE DEF smaller
    <3>2. Max(smaller) \in smaller
      BY ONLY <2>1, <3>1, MaxIs
    <3> QED
      BY <3>2
  <2>3. /\ g \in Nat /\ rightmost(g) >= base
        /\ FreeAt(rightmost(g), length, Padded(day, g))
    BY DEF FreeAt
  <2>4. PICK r : r = rightmost(g)
    OBVIOUS
  <2> HIDE DEF smaller, rightmost
  <2>5. /\ r \in Int /\ OnGrid(r) /\ base <= r /\ ws <= r /\ r + length <= we /\ slot = r
    BY <1>2, <1>8, <2>1, <2>2, <2>3, <2>4
  <2>6. Clear(day, r, length, g)
    BY <1>2, <2>3, <2>4, <2>5, PaddedIs
  <2>7. Clear(day, r, length, 0)
    <3> SUFFICES ASSUME NEW b \in DOMAIN day
                 PROVE  ~(r < day[b].end + 0 /\ r + length > day[b].start - 0)
      BY ClearIs
    <3>1. ~(r < day[b].end + g /\ r + length > day[b].start - g)
      BY <2>6, ClearIs
    <3>2. day[b].start \in Int /\ day[b].end \in Int
      BY DEF DayOf
    <3> QED
      BY <2>3, <2>5, <3>1, <3>2
  <2> QED
    BY <1>1, <1>2, <2>5, <2>7
<1>13. CASE slot = whole /\ slot = None
  <2>1. whole = None
    BY <1>13
  <2>2. \A c \in base..(we - length) : OnGrid(c) => ~Clear(day, c, length, gap)
    BY <1>9, <2>1
  <2>3. ASSUME OnGrid(base), Clear(day, base, length, 0) PROVE FALSE
    <3>1. ~Clear(day, base, length, gap)
      <4>1. base \in base..(we - length)
        BY <1>2
      <4> QED
        BY <2>2, <2>3, <4>1
    <3>2. gap # 0 /\ 0 \in 0..(gap - 1)
      BY <2>3, <3>1
    <3>3. \A id \in DOMAIN day : day[id].end > base => day[id].start >= base + length
      <4> SUFFICES ASSUME NEW id \in DOMAIN day, day[id].end > base
                   PROVE  day[id].start >= base + length
        OBVIOUS
      <4>1. ~(base < day[id].end + 0 /\ base + length > day[id].start - 0)
        BY <2>3, ClearIs
      <4> QED
        BY <4>1 DEF DayOf
    <3>4. \A x \in ahead : x >= base + length
      BY <1>4, <3>3
    <3>5. limit > base
      <4>1. near = we \/ near \in ahead
        BY <1>6
      <4>2. we > base
        BY <1>2
      <4>3. near >= base + length \/ near = we
        BY <3>4, <4>1
      <4> QED
        BY <1>2, <1>6, <4>2, <4>3
    <3>6. PICK r : r = rightmost(0)
      OBVIOUS
    <3>7. r \in Int /\ r >= base
      <4>1. PICK edge : edge = IF ahead = {} THEN we ELSE Earlier(we, Min(ahead) - 0)
        OBVIOUS
      <4>2. edge \in Int /\ edge >= base + length
        BY <1>2, <1>7, <3>4, <4>1 DEF Earlier
      <4>3. r = GridDown(edge) - length
        BY <3>6, <4>1
      <4>4. OnGrid(base + length)
        BY <1>1, <2>3, GridSum
      <4>5. GridDown(edge) >= base + length /\ GridDown(edge) \in Int
        BY <1>1, <4>2, <4>4, GridDownIs
      <4> QED
        BY <4>3, <4>5
    <3>8. /\ r + length <= we
          /\ \A id \in DOMAIN day : day[id].end > base => r + length <= day[id].start
      <4> HIDE DEF rightmost
      <4>1. \A id \in DOMAIN day : day[id].start \in Int
        BY DEF DayOf
      <4>2. /\ r + length <= we
            /\ \A id \in DOMAIN day : day[id].end > base => r + length <= day[id].start - 0
        BY <1>8, <3>6
      <4> QED
        BY <4>1, <4>2
    <3>9. Clear(day, r, length, 0)
      <4> SUFFICES ASSUME NEW b \in DOMAIN day
                   PROVE  ~(r < day[b].end + 0 /\ r + length > day[b].start - 0)
        BY ClearIs
      <4>1. day[b].start \in Int /\ day[b].end \in Int
        BY DEF DayOf
      <4> QED
        BY <3>7, <3>8, <4>1
    <3>10. FreeAt(r, length, Padded(day, 0))
      <4>1. ws <= r
        BY <1>2, <3>7
      <4> QED
        BY <1>2, <3>7, <3>8, <3>9, <4>1, PaddedIs
    <3>11. 0 \in smaller
      <4>1. OnGrid(0)
        BY <1>1, GridSum
      <4> QED
        BY <3>2, <3>6, <3>7, <3>10, <4>1 DEF FreeAt
    <3> QED
      <4>1. smaller # {}
        BY <3>11
      <4>2. slot = rightmost(Max(smaller))
        BY <1>3, <1>6, <2>1, <3>5, <4>1
      <4>3. Max(smaller) \in Nat
        <5>1. smaller \in SUBSET (0..(gap - 1)) /\ 0 \in Int /\ gap - 1 \in Int
          OBVIOUS
        <5> HIDE DEF smaller
        <5>2. Max(smaller) \in smaller
          BY ONLY <4>1, <5>1, MaxIs
        <5>3. PICK m : m = Max(smaller)
          OBVIOUS
        <5>4. m \in 0..(gap - 1)
          BY <5>1, <5>2, <5>3
        <5> QED
          BY <5>3, <5>4
      <4> HIDE DEF smaller, rightmost
      <4>4. slot \in Int
        BY <1>8, <4>2, <4>3
      <4> QED
        BY <1>1, <1>13, <4>4
  <2> QED
    BY <1>2, <1>13, <2>2, <2>3
<1> QED
  BY <1>11, <1>12, <1>13

-----------------------------------------------------------------------------
(* The inductive invariant *)

Blocks == [start : Times, end : Times, label : STRING]

UpdateRecords ==
    [index : Nat \ {0}, start : Times, end : Times, startSupplied : BOOLEAN,
     endSupplied : BOOLEAN, bare : BOOLEAN, wrapped : BOOLEAN, derived : Int \union {None},
     direction : {"later", "earlier", "exact"}, label : STRING \union {None},
     poisoned : BOOLEAN]

\* The stored blocks that no action removes.
Stay == DOMAIN turn.day \ Removed

AutoIds == {TempId(i) : i \in Untimed}

\* A stored block at its old time, with the label it is given.
Row(id) ==
    [turn.day[id] EXCEPT
        !.label = IF id \in DOMAIN updates THEN Labelled(id, updates[id]) ELSE @]

Typed ==
    /\ turn \in Turns
    /\ phase \in {"read", "judge", "place", "done", "refused"}
    /\ actions \in Seq(turn.offers) /\ Len(actions) <= MaxActions
    /\ updates \in [DOMAIN updates -> UpdateRecords] /\ DOMAIN updates \subseteq Stay
    /\ chain \in [DOMAIN chain -> [start : Times, end : Times]]
    /\ DOMAIN chain \subseteq DOMAIN updates
    /\ poisoned \subseteq DOMAIN updates

(* What reading leaves in the update of a block: an end that no action     *)
(* named, moved or derived is the old end, and a start that none named is  *)
(* the old start, here and where the next action starts from; a duration   *)
(* that was asked for last is kept with the start it is counted from.      *)
Folded(id) ==
    LET u == updates[id]
        last == LastTimed(id)
    IN  /\ u.index \in DOMAIN actions /\ actions[u.index].task = id
        /\ u.derived # None =>
              /\ ~u.endSupplied /\ ~u.bare
              /\ u.end = Earlier(Later(u.derived, 0), DayMinutes - 1)
        /\ ~u.startSupplied =>
              u.start = turn.day[id].start /\ Effective(id).start = turn.day[id].start
        /\ ~u.endSupplied /\ ~u.bare /\ u.derived = None =>
              u.end = turn.day[id].end /\ Effective(id).end = turn.day[id].end
        /\ last # 0 /\ Sized(actions[last]) =>
              /\ u.derived # None /\ Effective(id).start = u.start
              /\ actions[last].duration # None =>
                    u.derived = u.start + actions[last].duration

Read ==
    /\ \A id \in DOMAIN updates : Folded(id)
    /\ \A id \in Stay \ DOMAIN updates : LastTimed(id) = 0

Unjudged ==
    phase \in {"read", "refused"} =>
        candidate = <<>> /\ accepted = {} /\ rejected = <<>> /\ rounds = 0

\* Every new interval is accepted or rejected, an untimed addition only once it is placed.
Sorted ==
    /\ accepted \intersect DOMAIN rejected = {}
    /\ accepted \union DOMAIN rejected
            \subseteq Retimed \union (IF phase = "judge" THEN {} ELSE AutoIds)
    /\ Retimed \subseteq accepted \union DOMAIN rejected

\* An addition that was given a place.
Placed(id) ==
    LET b == candidate[id]
        length == Length(Action(id))
    IN  /\ OnGrid(b.start) /\ OnGrid(b.end)
        /\ Base <= b.start /\ b.end = b.start + length /\ b.end <= turn.window.end

\* The day that is built: accepted intervals as they were judged, all else as it was.
Built ==
    /\ candidate \in [DOMAIN candidate -> Blocks]
    /\ DOMAIN candidate = Stay \union {id \in accepted : id < 0}
    /\ \A id \in accepted \intersect Retimed : candidate[id] = Wanted(id)
    /\ \A id \in Stay \ accepted : candidate[id] = Row(id)
    /\ \A id \in accepted \intersect AutoIds : Placed(id)

Vetted == \A id \in accepted \intersect Retimed : Intrinsic(id, Requested[id]) = "ok"

\* A block in the way is a stored one that stays where it was.
InTheWay(id, b) == b \in Stay /\ b \notin accepted /\ TimesOverlap(Row(b), Wanted(id))

SharesFate(id, r) ==
    /\ r # id /\ r \in DOMAIN rejected \intersect Retimed
    /\ rejected[r].reason = "unresolved_conflict"
    /\ TimesOverlap(Wanted(id), Wanted(r))

Explained ==
    /\ \A id \in DOMAIN rejected \intersect Retimed :
          /\ rejected[id].reason = "overlap" =>
                rejected[id].blocks # {} /\ \A b \in rejected[id].blocks : InTheWay(id, b)
          /\ rejected[id].reason = "unresolved_conflict" =>
                \E r \in DOMAIN rejected : SharesFate(id, r)
    /\ \A id \in DOMAIN rejected \intersect AutoIds : rejected[id].reason = "no_slot"
    /\ NoSlotIsTrue

Bounded ==
    /\ rounds \in 0..(MaxActions + 1)
    /\ phase = "judge" => IsFiniteSet(accepted) /\ Cardinality(accepted) < rounds
    /\ phase # "judge" => rounds > 0 /\ Disjoint(candidate)

Judged ==
    phase \in {"judge", "place", "done"} =>
        Sorted /\ Built /\ Vetted /\ Explained /\ Bounded

Inv == Typed /\ Read /\ Unjudged /\ Judged

-----------------------------------------------------------------------------
(* Reading *)

\* The locked day and policy of a turn.
LEMMA TurnIs ==
    ASSUME Ordinary, turn \in Turns
    PROVE  /\ Proper(turn) /\ WindowOf(turn.window) /\ DayOf(turn.day) /\ Disjoint(turn.day)
           /\ turn.window.start \in Times /\ turn.window.end \in Times
           /\ DOMAIN turn.day \subseteq Nat \ {0}
           /\ turn.day \in [DOMAIN turn.day -> Blocks]
           /\ turn.gap \in Nat
           /\ Times \subseteq Int
<1>1. Proper(turn)
  BY DEF Ordinary
<1>2. Times \subseteq Int
  BY DEF Times, Ordinary
<1>3. /\ WindowOf(turn.window)
      /\ turn.window.start \in Times /\ turn.window.end \in Times
  BY <1>1, <1>2 DEF Proper, WindowOf, Interval
<1>4. DOMAIN turn.day \subseteq Nat \ {0} /\ turn.day \in [DOMAIN turn.day -> Blocks]
  BY <1>1 DEF Proper, Blocks
<1>5. DayOf(turn.day)
  <2>1. DOMAIN turn.day \subseteq Int
    BY <1>4
  <2>2. ASSUME NEW id \in DOMAIN turn.day
        PROVE  turn.day[id].start \in Int /\ turn.day[id].end \in Int
               /\ turn.day[id].start < turn.day[id].end
    <3>1. turn.day[id] \in Blocks
      BY <1>4
    <3>2. turn.day[id].start < turn.day[id].end
      BY <1>1 DEF Proper
    <3> QED
      BY <1>2, <3>1, <3>2 DEF Blocks
  <2> QED
    BY <2>1, <2>2 DEF DayOf
<1> QED
  BY <1>1, <1>2, <1>3, <1>4, <1>5 DEF Proper

\* What an action that changes a block brings with it.
LEMMA ChangeIs ==
    ASSUME Ordinary, NEW a, WellFormed(a), a.type \in {"move", "resize", "update"}
    PROVE  /\ a.start # None => a.start \in Times
           /\ a.end # None => a.end \in Times
           /\ Sized(a) => a.start = None /\ a.end = None /\ ~BareMove(a)
           /\ a.duration # None => a.duration \in Nat \ {0}
           /\ a.duration = None /\ Sized(a) => a.delta \in Int
           /\ a.label \in STRING \union {None}
           /\ a.direction # None => a.direction \in {"later", "earlier", "exact"}
<1>1. Sized(a) => a.type = "resize" /\ ~Timed(a)
  BY DEF WellFormed, Sized, Timed
<1>2. Sized(a) => a.start = None /\ a.end = None /\ ~BareMove(a)
  BY <1>1 DEF Timed, BareMove
<1> QED
  BY <1>2 DEF WellFormed, Sized

\* What an update carries from the actions before.
Carried(prev) ==
    /\ prev.startSupplied \in BOOLEAN /\ prev.endSupplied \in BOOLEAN
    /\ prev.bare \in BOOLEAN /\ prev.wrapped \in BOOLEAN
    /\ prev.derived \in Int \union {None}
    /\ prev.derived # None => prev.end \in Times
    /\ prev.direction \in {"later", "earlier", "exact"}
    /\ prev.label \in STRING \union {None}

\* One action folded into the update of its block (_normalize_actions).
LEMMA MergedIs ==
    ASSUME Ordinary, NEW a, WellFormed(a), a.type \in {"move", "resize", "update"},
           NEW block, block.start \in Times, block.end \in Times,
           NEW prev, Carried(prev), NEW isPoisoned \in BOOLEAN,
           actions \in Seq(turn.offers),
           NEW u, u = Merged(a, block, prev, isPoisoned)
    PROVE  /\ u \in UpdateRecords
           /\ u.index = Len(actions) + 1
           /\ u.start = IF a.start # None THEN a.start ELSE block.start
           /\ u.startSupplied = (a.start # None \/ prev.startSupplied)
           /\ Sized(a) =>
                 /\ u.derived = DerivedEnd(a, block) /\ u.derived # None
                 /\ ~u.endSupplied /\ ~u.bare
                 /\ u.end = Earlier(Later(u.derived, 0), DayMinutes - 1)
           /\ ~Sized(a) /\ (a.end # None \/ BareMove(a)) =>
                 u.derived = None /\ (u.endSupplied \/ u.bare)
           /\ ~Sized(a) /\ a.end = None /\ ~BareMove(a) =>
                 /\ u.derived = prev.derived
                 /\ u.endSupplied = prev.endSupplied /\ u.bare = prev.bare
                 /\ u.end = IF prev.derived # None THEN prev.end ELSE block.end
<1>1. /\ a.start # None => a.start \in Times
      /\ a.end # None => a.end \in Times
      /\ Sized(a) => a.start = None /\ a.end = None /\ ~BareMove(a)
      /\ a.duration # None => a.duration \in Nat \ {0}
      /\ a.duration = None /\ Sized(a) => a.delta \in Int
      /\ a.label \in STRING \union {None}
      /\ a.direction # None => a.direction \in {"later", "earlier", "exact"}
  BY ChangeIs
<1>2. /\ Grid \in Nat \ {0} /\ DayMinutes \in Nat \ {0} /\ None \notin Int
      /\ Times = 0..(DayMinutes - 1)
  BY DEF Ordinary, Times
<1>3. BareMove(a) \in BOOLEAN /\ Sized(a) \in BOOLEAN
  BY DEF BareMove, Sized
<1> DEFINE own == a.end # None \/ BareMove(a) \/ Sized(a)
           times == IF Sized(a) THEN Resized(a, block) ELSE MoveResize(a, block)
           keptEnd == ~own /\ prev.derived # None
<1>4. u = [index |-> Len(actions) + 1,
           start |-> times.start,
           end |-> IF keptEnd THEN prev.end ELSE times.end,
           startSupplied |-> a.start # None \/ prev.startSupplied,
           endSupplied |-> IF own THEN a.end # None ELSE prev.endSupplied,
           bare |-> IF own THEN BareMove(a) ELSE prev.bare,
           wrapped |-> IF own THEN times.wrapped ELSE prev.wrapped,
           derived |-> IF Sized(a) THEN DerivedEnd(a, block)
                       ELSE IF own THEN None ELSE prev.derived,
           direction |-> IF a.direction # None THEN a.direction ELSE prev.direction,
           label |-> IF a.label # None THEN a.label ELSE prev.label,
           poisoned |-> isPoisoned]
  BY DEF Merged
<1>5. Sized(a) => DerivedEnd(a, block) \in Int
  BY <1>1, <1>2 DEF DerivedEnd
<1>6. Sized(a) =>
          /\ times.start = block.start /\ times.wrapped = FALSE
          /\ times.end = Earlier(Later(DerivedEnd(a, block), 0), DayMinutes - 1)
          /\ times.end \in Times
  BY <1>2, <1>5 DEF Resized, Earlier, Later
<1>7. ~Sized(a) =>
          /\ times.start = IF a.start # None THEN a.start ELSE block.start
          /\ times.wrapped \in BOOLEAN
          /\ times.end \in Times
          /\ a.end = None /\ ~BareMove(a) => times.end = block.end
  <2> SUFFICES ASSUME ~Sized(a)
               PROVE  /\ times.start = IF a.start # None THEN a.start ELSE block.start
                      /\ times.wrapped \in BOOLEAN
                      /\ times.end \in Times
                      /\ a.end = None /\ ~BareMove(a) => times.end = block.end
    OBVIOUS
  <2>1. PICK start, length :
            /\ start = IF a.start # None THEN a.start ELSE block.start
            /\ length = Later(Grid, GridUp(block.end - block.start))
    OBVIOUS
  <2>2. PICK end : end = IF BareMove(a) THEN (start + length) % DayMinutes
                         ELSE IF a.end # None THEN a.end ELSE block.end
    OBVIOUS
  <2>3. times = [start |-> start, end |-> end, wrapped |-> BareMove(a) /\ end <= start]
    BY <2>1, <2>2 DEF MoveResize
  <2>4. start \in Int
    BY <1>1, <1>2, <2>1
  <2>5. length \in Int
    <3>1. block.end - block.start \in Int
      BY <1>2
    <3>2. GridUp(block.end - block.start) \in Int
      BY <1>2, <3>1, GridUpIs
    <3> QED
      BY <1>2, <2>1, <3>2 DEF Later
  <2>6. (start + length) % DayMinutes \in Times
    <3>1. PICK t \in Int : t = start + length
      BY <2>4, <2>5
    <3> QED
      BY <1>2, <3>1, Division
  <2>7. end \in Times
    BY <1>1, <2>2, <2>6
  <2>8. PICK w \in BOOLEAN : times = [start |-> start, end |-> end, wrapped |-> w]
    BY <1>3, <2>3
  <2>9. times.start = start /\ times.end = end /\ times.wrapped \in BOOLEAN
    BY <2>8
  <2> HIDE DEF times
  <2> QED
    BY <2>1, <2>2, <2>7, <2>9
<1>8. PICK s, e, w : s = times.start /\ e = times.end /\ w = times.wrapped
  OBVIOUS
<1>9. s \in Times /\ e \in Times /\ w \in BOOLEAN
  BY <1>1, <1>3, <1>6, <1>7, <1>8
<1> HIDE DEF times
<1>10. /\ u.index = Len(actions) + 1
       /\ u.start = s
       /\ u.end = (IF keptEnd THEN prev.end ELSE e)
       /\ u.startSupplied = (a.start # None \/ prev.startSupplied)
       /\ u.endSupplied = (IF own THEN a.end # None ELSE prev.endSupplied)
       /\ u.bare = (IF own THEN BareMove(a) ELSE prev.bare)
       /\ u.wrapped = (IF own THEN w ELSE prev.wrapped)
       /\ u.derived = (IF Sized(a) THEN DerivedEnd(a, block)
                       ELSE IF own THEN None ELSE prev.derived)
       /\ u.direction = (IF a.direction # None THEN a.direction ELSE prev.direction)
       /\ u.label = (IF a.label # None THEN a.label ELSE prev.label)
       /\ u.poisoned = isPoisoned
  BY <1>4, <1>8
<1>11. /\ u.index \in Nat \ {0} /\ u.start \in Times /\ u.end \in Times
       /\ u.startSupplied \in BOOLEAN /\ u.endSupplied \in BOOLEAN /\ u.bare \in BOOLEAN
       /\ u.wrapped \in BOOLEAN /\ u.derived \in Int \union {None}
       /\ u.direction \in {"later", "earlier", "exact"} /\ u.label \in STRING \union {None}
       /\ u.poisoned \in BOOLEAN
  <2>1. u.index \in Nat \ {0}
    BY <1>10
  <2>2. u.start \in Times /\ u.end \in Times
    BY <1>9, <1>10 DEF Carried
  <2>3. /\ u.startSupplied \in BOOLEAN /\ u.endSupplied \in BOOLEAN /\ u.bare \in BOOLEAN
        /\ u.wrapped \in BOOLEAN /\ u.poisoned \in BOOLEAN
    BY <1>3, <1>9, <1>10 DEF Carried
  <2>4. u.derived \in Int \union {None}
    BY <1>5, <1>10 DEF Carried
  <2>5. u.direction \in {"later", "earlier", "exact"} /\ u.label \in STRING \union {None}
    BY <1>1, <1>10 DEF Carried
  <2> QED
    BY <2>1, <2>2, <2>3, <2>4, <2>5
<1>12. u \in UpdateRecords
  <2>1. u = [index |-> u.index, start |-> u.start, end |-> u.end,
             startSupplied |-> u.startSupplied, endSupplied |-> u.endSupplied,
             bare |-> u.bare, wrapped |-> u.wrapped, derived |-> u.derived,
             direction |-> u.direction, label |-> u.label, poisoned |-> u.poisoned]
    BY <1>4
  <2> QED
    BY <1>11, <2>1 DEF UpdateRecords
<1>13. u.start = IF a.start # None THEN a.start ELSE block.start
  BY <1>1, <1>6, <1>7, <1>8, <1>10
<1>14. Sized(a) =>
           /\ u.derived = DerivedEnd(a, block) /\ u.derived # None
           /\ ~u.endSupplied /\ ~u.bare
           /\ u.end = Earlier(Later(u.derived, 0), DayMinutes - 1)
  BY <1>1, <1>2, <1>5, <1>6, <1>8, <1>10
<1>15. ~Sized(a) /\ (a.end # None \/ BareMove(a)) =>
           u.derived = None /\ (u.endSupplied \/ u.bare)
  BY <1>10
<1>16. ~Sized(a) /\ a.end = None /\ ~BareMove(a) =>
           /\ u.derived = prev.derived
           /\ u.endSupplied = prev.endSupplied /\ u.bare = prev.bare
           /\ u.end = IF prev.derived # None THEN prev.end ELSE block.end
  BY <1>7, <1>8, <1>10
<1> QED
  BY <1>10, <1>12, <1>13, <1>14, <1>15, <1>16

\* The last action that asks for a time of a block.
LEMMA LastTimedIs ==
    ASSUME actions \in Seq(turn.offers), NEW id
    PROVE  /\ LastTimed(id) \in 0..Len(actions)
           /\ LastTimed(id) # 0 => /\ LastTimed(id) \in DOMAIN actions
                                   /\ actions[LastTimed(id)].task = id
           /\ \A i \in DOMAIN actions :
                 actions[i].task = id /\ (Timed(actions[i]) \/ Sized(actions[i])) =>
                     i <= LastTimed(id)
<1> DEFINE S == {0} \union {i \in DOMAIN actions :
                               actions[i].task = id /\ (Timed(actions[i]) \/ Sized(actions[i]))}
<1>1. DOMAIN actions = 1..Len(actions) /\ Len(actions) \in Nat
  OBVIOUS
<1>2. S \in SUBSET (0..Len(actions)) /\ S # {} /\ 0 \in Int /\ Len(actions) \in Int
  BY <1>1
<1>3. PICK m : m = Max(S)
  OBVIOUS
<1>4. m \in S /\ \A x \in S : x <= m
  <2> HIDE DEF S
  <2>1. Max(S) \in S /\ \A x \in S : x <= Max(S)
    BY ONLY <1>2, MaxIs
  <2> QED
    BY <1>3, <2>1
<1>5. LastTimed(id) = m
  BY <1>3 DEF LastTimed
<1> QED
  BY <1>1, <1>4, <1>5

\* One more action is read.
LEMMA AppendIs ==
    ASSUME Ordinary, actions \in Seq(turn.offers), NEW a \in turn.offers,
           actions' = Append(actions, a), turn' = turn
    PROVE  /\ actions' \in Seq(turn'.offers) /\ Len(actions') = Len(actions) + 1
           /\ \A i \in DOMAIN actions : i \in DOMAIN actions' /\ actions'[i] = actions[i]
           /\ DOMAIN actions' = DOMAIN actions \union {Len(actions) + 1}
           /\ actions'[Len(actions) + 1] = a
           /\ Removed' = IF a.type = "remove" THEN Removed \union {a.task} ELSE Removed
           /\ \A id : a.task # id \/ ~(Timed(a) \/ Sized(a)) => LastTimed(id)' = LastTimed(id)
           /\ \A id : a.task = id /\ (Timed(a) \/ Sized(a)) =>
                          LastTimed(id)' = Len(actions) + 1
<1>1. PICK n \in Nat : n = Len(actions) /\ DOMAIN actions = 1..n
  OBVIOUS
<1>2. /\ actions' \in Seq(turn'.offers) /\ Len(actions') = n + 1 /\ DOMAIN actions' = 1..(n + 1)
      /\ \A i \in 1..n : actions'[i] = actions[i]
      /\ actions'[n + 1] = a
  BY <1>1
<1>3. 1..(n + 1) = (1..n) \union {n + 1} /\ n + 1 \notin 1..n
  BY <1>1
<1>4. Removed' = IF a.type = "remove" THEN Removed \union {a.task} ELSE Removed
  <2>1. Removed = {actions[i].task : i \in {j \in 1..n : actions[j].type = "remove"}}
    BY <1>1 DEF Removed
  <2>2. Removed' = {actions'[i].task : i \in {j \in 1..(n + 1) : actions'[j].type = "remove"}}
    BY <1>2 DEF Removed
  <2>3. ASSUME NEW x \in Removed' PROVE x \in Removed \/ (a.type = "remove" /\ x = a.task)
    BY <1>2, <1>3, <2>1, <2>2
  <2>4. ASSUME NEW x \in Removed PROVE x \in Removed'
    BY <1>2, <1>3, <2>1, <2>2
  <2>5. a.type = "remove" => a.task \in Removed'
    BY <1>2, <1>3, <2>2
  <2> QED
    BY <2>3, <2>4, <2>5
<1> DEFINE S(id) == {i \in DOMAIN actions :
                        actions[i].task = id /\ (Timed(actions[i]) \/ Sized(actions[i]))}
           T(id) == {i \in DOMAIN actions' :
                        actions'[i].task = id /\ (Timed(actions'[i]) \/ Sized(actions'[i]))}
<1>5. ASSUME NEW id PROVE LastTimed(id) = Max({0} \union S(id))
  BY DEF LastTimed
<1>6. ASSUME NEW id PROVE LastTimed(id)' = Max({0} \union T(id))
  BY DEF LastTimed
<1>7. ASSUME NEW id, a.task # id \/ ~(Timed(a) \/ Sized(a)) PROVE T(id) = S(id)
  BY <1>1, <1>2, <1>3, <1>7
<1>8. ASSUME NEW id, a.task = id, Timed(a) \/ Sized(a)
      PROVE  Max({0} \union T(id)) = n + 1
  <2>1. n + 1 \in T(id)
    BY <1>2, <1>3, <1>8
  <2> DEFINE U == {0} \union T(id)
  <2>2. U \in SUBSET (0..(n + 1)) /\ U # {} /\ 0 \in Int /\ n + 1 \in Int /\ n + 1 \in U
    BY <1>2, <2>1
  <2> HIDE DEF U
  <2>3. Max(U) \in U /\ \A x \in U : x <= Max(U)
    BY ONLY <2>2, MaxIs
  <2>4. PICK m : m = Max(U)
    OBVIOUS
  <2>5. m \in 0..(n + 1) /\ n + 1 <= m
    BY <2>2, <2>3, <2>4
  <2>6. m = n + 1
    BY <2>5
  <2> QED
    BY <2>4, <2>6 DEF U
<1> HIDE DEF S, T
<1>9. \A id : a.task # id \/ ~(Timed(a) \/ Sized(a)) => LastTimed(id)' = LastTimed(id)
  BY <1>5, <1>6, <1>7
<1>10. \A id : a.task = id /\ (Timed(a) \/ Sized(a)) => LastTimed(id)' = Len(actions) + 1
  BY <1>1, <1>6, <1>8
<1> QED
  BY <1>1, <1>2, <1>3, <1>4, <1>9, <1>10

\* An action on another block leaves what was read of this one.
LEMMA FoldedKept ==
    ASSUME Ordinary, actions \in Seq(turn.offers), NEW a \in turn.offers,
           actions' = Append(actions, a), turn' = turn,
           NEW id, Folded(id), a.task # id,
           updates'[id] = updates[id], Effective(id)' = Effective(id)
    PROVE  Folded(id)'
<1>1. /\ LastTimed(id)' = LastTimed(id)
      /\ \A i \in DOMAIN actions : i \in DOMAIN actions' /\ actions'[i] = actions[i]
  BY AppendIs
<1>2. LastTimed(id) # 0 => LastTimed(id) \in DOMAIN actions
  BY LastTimedIs
<1>3. PICK last : last = LastTimed(id) /\ last = LastTimed(id)'
  BY <1>1
<1>4. last # 0 => actions'[last] = actions[last]
  BY <1>1, <1>2, <1>3
<1>5. PICK u : u = updates[id] /\ u = updates'[id]
  OBVIOUS
<1>6. u.index \in DOMAIN actions /\ actions[u.index].task = id
  BY <1>5 DEF Folded
<1>7. u.index \in DOMAIN actions' /\ actions'[u.index].task = id
  BY <1>1, <1>6
<1>8. /\ u.derived # None =>
            /\ ~u.endSupplied /\ ~u.bare
            /\ u.end = Earlier(Later(u.derived, 0), DayMinutes - 1)
      /\ ~u.startSupplied =>
            u.start = turn.day[id].start /\ Effective(id).start = turn.day[id].start
      /\ ~u.endSupplied /\ ~u.bare /\ u.derived = None =>
            u.end = turn.day[id].end /\ Effective(id).end = turn.day[id].end
  BY <1>5 DEF Folded
<1>9. last # 0 /\ Sized(actions[last]) =>
          /\ u.derived # None /\ Effective(id).start = u.start
          /\ actions[last].duration # None =>
                u.derived = u.start + actions[last].duration
  BY <1>3, <1>5 DEF Folded
<1>10. last # 0 /\ Sized(actions'[last]) =>
           /\ u.derived # None /\ Effective(id)'.start = u.start
           /\ actions'[last].duration # None =>
                 u.derived = u.start + actions'[last].duration
  BY <1>4, <1>9
<1> QED
  BY <1>3, <1>5, <1>7, <1>8, <1>10 DEF Folded

\* The interval that the next action starts from is one of the day.
LEMMA EffectiveIs ==
    ASSUME Ordinary, Typed, NEW id \in DOMAIN turn.day
    PROVE  Effective(id).start \in Times /\ Effective(id).end \in Times
<1>1. turn.day[id] \in Blocks
  BY TurnIs DEF Typed
<1>2. id \in DOMAIN chain => chain[id] \in [start : Times, end : Times]
  BY DEF Typed
<1> QED
  BY <1>1, <1>2 DEF Effective, Blocks

\* A function with one more or another value.
LEMMA PutIs ==
    ASSUME NEW f, NEW x, NEW v
    PROVE  /\ DOMAIN Put(f, x, v) = DOMAIN f \union {x} /\ Put(f, x, v)[x] = v
           /\ \A y \in DOMAIN f \ {x} : Put(f, x, v)[y] = f[y]
BY DEF Put

\* A function without one argument.
LEMMA DropIs ==
    ASSUME NEW f, NEW x
    PROVE  /\ DOMAIN Drop(f, x) = DOMAIN f \ {x}
           /\ \A y \in DOMAIN f \ {x} : Drop(f, x)[y] = f[y]
BY DEF Drop

\* The action folded into the update of its block.
LEMMA FoldedNow ==
    ASSUME Ordinary, Typed, Read, NEW a \in turn.offers, ReadChange(a)
    PROVE  Folded(a.task)'
<1>1. PICK id, block, prev : /\ id = a.task /\ block = Effective(id)
                             /\ prev = IF id \in DOMAIN updates THEN updates[id] ELSE NoUpdate
  OBVIOUS
<1>2. id \in DOMAIN turn.day /\ id \in Stay
  BY <1>1 DEF ReadChange, Known, Stay
<1>3. WellFormed(a) /\ actions \in Seq(turn.offers)
  BY TurnIs DEF Proper, Typed
<1>4. block.start \in Times /\ block.end \in Times
  BY <1>1, <1>2, EffectiveIs
<1>5. Carried(prev)
  <2>1. CASE id \in DOMAIN updates
    <3>1. prev \in UpdateRecords
      BY <1>1, <2>1 DEF Typed
    <3> QED
      BY <3>1 DEF Carried, UpdateRecords
  <2>2. CASE id \notin DOMAIN updates
    BY <1>1, <2>2 DEF Carried, NoUpdate
  <2> QED
    BY <2>1, <2>2
<1>6. PICK u : u = Merged(a, block, prev, id \in poisoned)
  OBVIOUS
<1>7. /\ updates' = Put(updates, id, u)
      /\ chain' = IF FeedsChain(id, u) THEN Put(chain, id, [start |-> u.start, end |-> u.end])
                  ELSE chain
      /\ actions' = Append(actions, a) /\ turn' = turn
  BY <1>1, <1>6 DEF ReadChange
<1>8. a.type \in {"move", "resize", "update"}
  BY DEF ReadChange
<1>9. /\ u \in UpdateRecords
      /\ u.index = Len(actions) + 1
      /\ u.start = IF a.start # None THEN a.start ELSE block.start
      /\ u.startSupplied = (a.start # None \/ prev.startSupplied)
      /\ Sized(a) =>
            /\ u.derived = DerivedEnd(a, block) /\ u.derived # None
            /\ ~u.endSupplied /\ ~u.bare
            /\ u.end = Earlier(Later(u.derived, 0), DayMinutes - 1)
      /\ ~Sized(a) /\ (a.end # None \/ BareMove(a)) =>
            u.derived = None /\ (u.endSupplied \/ u.bare)
      /\ ~Sized(a) /\ a.end = None /\ ~BareMove(a) =>
            /\ u.derived = prev.derived
            /\ u.endSupplied = prev.endSupplied /\ u.bare = prev.bare
            /\ u.end = IF prev.derived # None THEN prev.end ELSE block.end
  <2>1. (id \in poisoned) \in BOOLEAN
    OBVIOUS
  <2>2. PICK p \in BOOLEAN : u = Merged(a, block, prev, p)
    BY <1>6, <2>1
  <2> QED
    BY <1>3, <1>4, <1>5, <1>8, <2>2, MergedIs
<1>10. updates'[id] = u
  BY <1>7 DEF Put
<1>11. \/ Effective(id)' = block
       \/ Effective(id)' = [start |-> u.start, end |-> u.end]
  <2>1. CASE chain' = chain
    BY <1>1, <1>7, <2>1 DEF Effective
  <2>2. CASE chain' = Put(chain, id, [start |-> u.start, end |-> u.end])
    <3>1. id \in DOMAIN chain' /\ chain'[id] = [start |-> u.start, end |-> u.end]
      BY <2>2 DEF Put
    <3> QED
      BY <3>1 DEF Effective
  <2> QED
    BY <1>7, <2>1, <2>2
<1>12. PICK es, ee : es = Effective(id)'.start /\ ee = Effective(id)'.end
  OBVIOUS
<1>13. es \in {block.start, u.start} /\ ee \in {block.end, u.end}
  BY <1>11, <1>12
<1>14. PICK os, oe : os = turn.day[id].start /\ oe = turn.day[id].end
  OBVIOUS
\* What the block carries from before.
<1>15. /\ ~prev.startSupplied => block.start = os
       /\ ~prev.endSupplied /\ ~prev.bare /\ prev.derived = None => block.end = oe
       /\ prev.derived # None => /\ ~prev.endSupplied /\ ~prev.bare
                                 /\ prev.end = Earlier(Later(prev.derived, 0), DayMinutes - 1)
       /\ LastTimed(id) # 0 /\ Sized(actions[LastTimed(id)]) =>
             /\ prev.derived # None /\ block.start = prev.start
             /\ actions[LastTimed(id)].duration # None =>
                   prev.derived = prev.start + actions[LastTimed(id)].duration
  <2>1. CASE id \in DOMAIN updates
    <3>1. Folded(id)
      BY <2>1 DEF Read
    <3> QED
      BY <1>1, <1>14, <2>1, <3>1 DEF Folded
  <2>2. CASE id \notin DOMAIN updates
    <3>1. LastTimed(id) = 0
      BY <1>2, <2>2 DEF Read
    <3>2. block = turn.day[id]
      BY <1>1, <2>2 DEF Effective, Typed
    <3> QED
      BY <1>1, <1>14, <2>2, <3>1, <3>2 DEF NoUpdate
  <2> QED
    BY <2>1, <2>2
<1>16. /\ DOMAIN actions' = DOMAIN actions \union {Len(actions) + 1}
       /\ actions'[Len(actions) + 1] = a
       /\ \A i \in DOMAIN actions : actions'[i] = actions[i]
       /\ ~(Timed(a) \/ Sized(a)) => LastTimed(id)' = LastTimed(id)
       /\ Timed(a) \/ Sized(a) => LastTimed(id)' = Len(actions) + 1
  BY <1>1, <1>3, <1>7, AppendIs
<1>17. /\ a.start # None \/ a.end # None <=> Timed(a)
       /\ BareMove(a) => Timed(a)
       /\ Sized(a) => a.start = None /\ a.end = None /\ ~BareMove(a)
  BY <1>3, <1>8, ChangeIs DEF Timed, BareMove
<1>18. u.index \in DOMAIN actions' /\ actions'[u.index].task = id
  BY <1>1, <1>9, <1>16
<1>19. u.derived # None =>
           ~u.endSupplied /\ ~u.bare /\ u.end = Earlier(Later(u.derived, 0), DayMinutes - 1)
  BY <1>9, <1>15
<1>20. ~u.startSupplied => u.start = os /\ es = os
  BY <1>9, <1>13, <1>15
<1>21. ~u.endSupplied /\ ~u.bare /\ u.derived = None => u.end = oe /\ ee = oe
  BY <1>9, <1>13, <1>15
<1>22. PICK last : last = LastTimed(id)'
  OBVIOUS
<1>23. last # 0 /\ Sized(actions'[last]) =>
           /\ u.derived # None /\ es = u.start
           /\ actions'[last].duration # None =>
                 u.derived = u.start + actions'[last].duration
  <2>1. CASE Sized(a)
    <3>1. actions'[last] = a /\ u.start = block.start /\ es = u.start
      BY <1>9, <1>13, <1>16, <1>17, <1>22, <2>1
    <3>2. a.duration # None => u.derived = u.start + a.duration
      BY <1>9, <2>1, <3>1 DEF DerivedEnd
    <3> QED
      BY <1>9, <2>1, <3>1, <3>2
  <2>2. CASE ~Sized(a) /\ Timed(a)
    BY <1>16, <1>22, <2>2
  <2>3. CASE ~Sized(a) /\ ~Timed(a)
    <3>1. last = LastTimed(id)
      BY <1>16, <1>22, <2>3
    <3>2. last # 0 => actions'[last] = actions[last]
      BY <1>3, <1>16, <3>1, LastTimedIs
    <3>3. u.derived = prev.derived /\ u.start = block.start /\ es = block.start
      BY <1>9, <1>13, <1>17, <2>3
    <3> QED
      BY <1>15, <3>1, <3>2, <3>3
  <2> QED
    BY <2>1, <2>2, <2>3
<1>24. turn'.day[id].start = os /\ turn'.day[id].end = oe
  BY <1>7, <1>14
<1>25. Folded(id)'
  BY <1>10, <1>12, <1>18, <1>19, <1>20, <1>21, <1>22, <1>23, <1>24 DEF Folded
<1> QED
  BY <1>1, <1>25

\* What the four ways of reading an action have in common.
LEMMA ReadingIs ==
    ASSUME Ordinary, Typed, Read, NEW a \in turn.offers,
           actions' = Append(actions, a), turn' = turn, Len(actions) < MaxActions
    PROVE  /\ turn' \in Turns /\ actions' \in Seq(turn'.offers) /\ Len(actions') <= MaxActions
           /\ Stay' = IF a.type = "remove" THEN Stay \ {a.task} ELSE Stay
           /\ \A id : a.task # id => LastTimed(id)' = LastTimed(id)
           /\ actions \in Seq(turn.offers) /\ WellFormed(a)
<1>1. actions \in Seq(turn.offers) /\ WellFormed(a) /\ turn \in Turns
  BY TurnIs DEF Proper, Typed
<1>2. /\ actions' \in Seq(turn'.offers) /\ Len(actions') = Len(actions) + 1
      /\ Removed' = IF a.type = "remove" THEN Removed \union {a.task} ELSE Removed
      /\ \A id : a.task # id => LastTimed(id)' = LastTimed(id)
  BY <1>1, AppendIs
<1>3. Len(actions') <= MaxActions
  BY <1>1, <1>2 DEF Ordinary
<1>4. Stay' = IF a.type = "remove" THEN Stay \ {a.task} ELSE Stay
  BY <1>2 DEF Stay
<1> QED
  BY <1>1, <1>2, <1>3, <1>4

\* Reading: one lemma for each kind of action.
LEMMA ReadAddKeeps ==
    ASSUME Ordinary, Typed, Read, NEW a \in turn.offers, ReadAdd(a)
    PROVE  Typed' /\ Read'
<1>1. /\ actions' = Append(actions, a) /\ turn' = turn /\ Len(actions) < MaxActions
      /\ updates' = updates /\ chain' = chain /\ poisoned' = poisoned /\ phase' = phase
      /\ a.type = "add"
  BY DEF ReadAdd, CanRead, reading
<1>2. /\ turn' \in Turns /\ actions' \in Seq(turn'.offers) /\ Len(actions') <= MaxActions
      /\ Stay' = Stay
      /\ \A id : a.task # id => LastTimed(id)' = LastTimed(id)
      /\ actions \in Seq(turn.offers) /\ WellFormed(a)
  BY <1>1, ReadingIs
<1>3. a.task = None
  BY <1>1, <1>2 DEF WellFormed
<1>4. \A id \in Stay : a.task # id
  BY <1>3, TurnIs DEF Stay, Typed, Ordinary
<1>5. Typed'
  BY <1>1, <1>2 DEF Typed
<1>6. ASSUME NEW id \in DOMAIN updates PROVE Folded(id)'
  <2>1. Effective(id)' = Effective(id) /\ updates'[id] = updates[id]
    BY <1>1 DEF Effective
  <2>2. a.task # id /\ Folded(id)
    BY <1>4 DEF Typed, Read
  <2> QED
    BY <1>1, <1>2, <2>1, <2>2, FoldedKept
<1>7. ASSUME NEW id \in Stay' \ DOMAIN updates' PROVE LastTimed(id)' = 0
  BY <1>1, <1>2, <1>4 DEF Read
<1> QED
  BY <1>1, <1>5, <1>6, <1>7 DEF Read

\* A refused turn keeps nothing but the action.
LEMMA RefuseKeeps ==
    ASSUME Ordinary, Typed, Read, NEW a \in turn.offers, Refuse(a)
    PROVE  Typed' /\ Read'
<1>1. /\ actions' = Append(actions, a) /\ turn' = turn /\ Len(actions) < MaxActions
      /\ updates' = updates /\ chain' = chain /\ poisoned' = poisoned /\ phase' = "refused"
      /\ ~Known(a.task)
  BY DEF Refuse, CanRead, reading
<1>2. /\ turn' \in Turns /\ actions' \in Seq(turn'.offers) /\ Len(actions') <= MaxActions
      /\ Stay' = IF a.type = "remove" THEN Stay \ {a.task} ELSE Stay
      /\ \A id : a.task # id => LastTimed(id)' = LastTimed(id)
      /\ actions \in Seq(turn.offers) /\ WellFormed(a)
  BY <1>1, ReadingIs
<1>3. a.task \notin Stay
  BY <1>1 DEF Known, Stay
<1>4. Stay' = Stay
  BY <1>2, <1>3
<1>5. Typed'
  BY <1>1, <1>2, <1>4 DEF Typed
<1>6. ASSUME NEW id \in DOMAIN updates PROVE Folded(id)'
  <2>1. Effective(id)' = Effective(id) /\ updates'[id] = updates[id]
    BY <1>1 DEF Effective
  <2>2. a.task # id /\ Folded(id)
    BY <1>3 DEF Typed, Read
  <2> QED
    BY <1>1, <1>2, <2>1, <2>2, FoldedKept
<1>7. ASSUME NEW id \in Stay' \ DOMAIN updates' PROVE LastTimed(id)' = 0
  BY <1>1, <1>2, <1>3, <1>4 DEF Read
<1> QED
  BY <1>1, <1>5, <1>6, <1>7 DEF Read

\* A removal forgets what was asked of its block.
LEMMA ReadRemoveKeeps ==
    ASSUME Ordinary, Typed, Read, NEW a \in turn.offers, ReadRemove(a)
    PROVE  Typed' /\ Read'
<1>1. /\ actions' = Append(actions, a) /\ turn' = turn /\ Len(actions) < MaxActions
      /\ updates' = Drop(updates, a.task) /\ chain' = Drop(chain, a.task)
      /\ poisoned' = poisoned \ {a.task} /\ phase' = phase
      /\ a.type = "remove"
  BY DEF ReadRemove, CanRead
<1>2. /\ turn' \in Turns /\ actions' \in Seq(turn'.offers) /\ Len(actions') <= MaxActions
      /\ Stay' = Stay \ {a.task}
      /\ \A id : a.task # id => LastTimed(id)' = LastTimed(id)
      /\ actions \in Seq(turn.offers) /\ WellFormed(a)
  BY <1>1, ReadingIs
<1>3. /\ DOMAIN updates' = DOMAIN updates \ {a.task}
      /\ \A id \in DOMAIN updates' : updates'[id] = updates[id]
      /\ updates' = [id \in DOMAIN updates' |-> updates'[id]]
      /\ DOMAIN chain' = DOMAIN chain \ {a.task}
      /\ \A id \in DOMAIN chain' : chain'[id] = chain[id]
      /\ chain' = [id \in DOMAIN chain' |-> chain'[id]]
  BY <1>1 DEF Drop
<1>4. Typed'
  <2>1. /\ updates' \in [DOMAIN updates' -> UpdateRecords] /\ DOMAIN updates' \subseteq Stay'
    BY <1>2, <1>3 DEF Typed
  <2>2. /\ chain' \in [DOMAIN chain' -> [start : Times, end : Times]]
        /\ DOMAIN chain' \subseteq DOMAIN updates' /\ poisoned' \subseteq DOMAIN updates'
    BY <1>1, <1>3 DEF Typed
  <2> QED
    BY <1>1, <1>2, <2>1, <2>2 DEF Typed
<1>5. ASSUME NEW id \in DOMAIN updates' PROVE Folded(id)'
  <2>1. a.task # id /\ id \in DOMAIN updates /\ updates'[id] = updates[id]
    BY <1>3
  <2>2. Effective(id)' = Effective(id)
    BY <1>1, <1>3, <2>1 DEF Effective
  <2>3. Folded(id)
    BY <2>1 DEF Read
  <2> QED
    BY <1>1, <1>2, <2>1, <2>2, <2>3, FoldedKept
<1>6. ASSUME NEW id \in Stay' \ DOMAIN updates' PROVE LastTimed(id)' = 0
  BY <1>2, <1>3 DEF Read
<1> QED
  BY <1>4, <1>5, <1>6 DEF Read

\* A change is folded into the update of its block.
LEMMA ReadChangeKeeps ==
    ASSUME Ordinary, Typed, Read, NEW a \in turn.offers, ReadChange(a)
    PROVE  Typed' /\ Read'
<1>1. PICK id, prev : /\ id = a.task
                      /\ prev = IF id \in DOMAIN updates THEN updates[id] ELSE NoUpdate
  OBVIOUS
<1>2. PICK u : u = Merged(a, Effective(id), prev, id \in poisoned)
  OBVIOUS
<1>3. /\ actions' = Append(actions, a) /\ turn' = turn /\ Len(actions) < MaxActions
      /\ updates' = Put(updates, id, u)
      /\ poisoned' = IF Inexpressible(u) THEN poisoned \union {id} ELSE poisoned
      /\ chain' = IF FeedsChain(id, u) THEN Put(chain, id, [start |-> u.start, end |-> u.end])
                  ELSE chain
      /\ phase' = phase /\ a.type \in {"move", "resize", "update"} /\ Known(id)
  BY <1>1, <1>2 DEF ReadChange, CanRead
<1>4. /\ turn' \in Turns /\ actions' \in Seq(turn'.offers) /\ Len(actions') <= MaxActions
      /\ Stay' = Stay
      /\ \A x : id # x => LastTimed(x)' = LastTimed(x)
      /\ actions \in Seq(turn.offers) /\ WellFormed(a)
  BY <1>1, <1>3, ReadingIs
<1>5. id \in DOMAIN turn.day /\ id \in Stay
  BY <1>3 DEF Known, Stay
<1>6. Effective(id).start \in Times /\ Effective(id).end \in Times
  BY <1>5, EffectiveIs
<1>7. Carried(prev)
  <2>1. CASE id \in DOMAIN updates
    <3>1. prev \in UpdateRecords
      BY <1>1, <2>1 DEF Typed
    <3> QED
      BY <3>1 DEF Carried, UpdateRecords
  <2>2. CASE id \notin DOMAIN updates
    BY <1>1, <2>2 DEF Carried, NoUpdate
  <2> QED
    BY <2>1, <2>2
<1>8. u \in UpdateRecords
  <2>1. (id \in poisoned) \in BOOLEAN
    OBVIOUS
  <2>2. PICK p \in BOOLEAN : u = Merged(a, Effective(id), prev, p)
    BY <1>2, <2>1
  <2>3. PICK block : block = Effective(id)
    OBVIOUS
  <2> QED
    BY <1>3, <1>4, <1>6, <1>7, <2>2, <2>3, MergedIs
<1>9. /\ DOMAIN updates' = DOMAIN updates \union {id}
      /\ updates'[id] = u
      /\ \A x \in DOMAIN updates \ {id} : updates'[x] = updates[x]
      /\ updates' = [x \in DOMAIN updates' |-> updates'[x]]
  BY <1>3 DEF Put
<1>10. /\ DOMAIN chain' \subseteq DOMAIN chain \union {id}
       /\ \A x : x # id => /\ x \in DOMAIN chain' <=> x \in DOMAIN chain
                           /\ x \in DOMAIN chain => chain'[x] = chain[x]
       /\ chain' \in [DOMAIN chain' -> [start : Times, end : Times]]
  <2>1. CASE chain' = chain
    BY <2>1 DEF Typed
  <2>2. CASE chain' = Put(chain, id, [start |-> u.start, end |-> u.end])
    <3>1. /\ DOMAIN chain' = DOMAIN chain \union {id}
          /\ chain'[id] = [start |-> u.start, end |-> u.end]
          /\ \A x \in DOMAIN chain \ {id} : chain'[x] = chain[x]
          /\ chain' = [x \in DOMAIN chain' |-> chain'[x]]
      BY <2>2 DEF Put
    <3>2. [start |-> u.start, end |-> u.end] \in [start : Times, end : Times]
      BY <1>8 DEF UpdateRecords
    <3>3. \A x \in DOMAIN chain' : chain'[x] \in [start : Times, end : Times]
      BY <3>1, <3>2 DEF Typed
    <3> QED
      BY <3>1, <3>3
  <2> QED
    BY <1>3, <2>1, <2>2
<1>11. Typed'
  <2>1. updates' \in [DOMAIN updates' -> UpdateRecords]
    <3>1. \A x \in DOMAIN updates' : updates'[x] \in UpdateRecords
      BY <1>8, <1>9 DEF Typed
    <3> QED
      BY <1>9, <3>1
  <2>2. DOMAIN updates' \subseteq Stay' /\ DOMAIN chain' \subseteq DOMAIN updates'
    BY <1>4, <1>5, <1>9, <1>10 DEF Typed
  <2>3. poisoned' \subseteq DOMAIN updates'
    BY <1>3, <1>9 DEF Typed
  <2> QED
    BY <1>3, <1>4, <1>10, <2>1, <2>2, <2>3 DEF Typed
<1>12. ASSUME NEW x \in DOMAIN updates' PROVE Folded(x)'
  <2>1. CASE x = id
    BY <1>1, <2>1, FoldedNow
  <2>2. CASE x # id
    <3>1. x \in DOMAIN updates /\ updates'[x] = updates[x] /\ Folded(x) /\ a.task # x
      BY <1>1, <1>9, <2>2 DEF Read
    <3>2. Effective(x)' = Effective(x)
      BY <1>3, <1>10, <2>2 DEF Effective
    <3> QED
      BY <1>3, <1>4, <3>1, <3>2, FoldedKept
  <2> QED
    BY <2>1, <2>2
<1>13. ASSUME NEW x \in Stay' \ DOMAIN updates' PROVE LastTimed(x)' = 0
  BY <1>4, <1>9 DEF Read
<1> QED
  BY <1>11, <1>12, <1>13 DEF Read

-----------------------------------------------------------------------------
(* What is read does not change any more once it is judged *)

\* Judging and placing leave alone what was read.
LEMMA Same ==
    ASSUME turn' = turn, actions' = actions, updates' = updates
    PROVE  /\ Added' = Added /\ Removed' = Removed /\ Untimed' = Untimed /\ Explicit' = Explicit
           /\ Stay' = Stay /\ AutoIds' = AutoIds /\ Retimed' = Retimed
           /\ Requested' = Requested /\ Base' = Base
           /\ \A id : /\ Row(id)' = Row(id) /\ Wanted(id)' = Wanted(id)
                      /\ Action(id)' = Action(id)
                      /\ Intrinsic(id, Requested[id])' = Intrinsic(id, Requested[id])
<1>1. Added' = Added /\ Removed' = Removed
  BY DEF Added, Removed
<1>2. Untimed' = Untimed
  BY <1>1 DEF Untimed
<1>3. Explicit' = Explicit /\ AutoIds' = AutoIds /\ Stay' = Stay
  BY <1>1, <1>2 DEF Explicit, AutoIds, Stay
<1>4. Retimed' = Retimed
  BY <1>3 DEF Retimed
<1>5. \A id : Action(id)' = Action(id)
  BY DEF Action
<1>6. Requested' = Requested
  BY <1>1, <1>3, <1>5 DEF Requested, Labelled
<1>7. Base' = Base
  BY DEF Base, EarliestStart
<1>8. ASSUME NEW id PROVE Changed(id)' = Changed(id) /\ Clampable(id)' = Clampable(id)
  BY <1>3 DEF Changed, Clampable
<1>9. ASSUME NEW id PROVE Wanted(id)' = Wanted(id)
  BY <1>6, <1>8 DEF Wanted
<1>10. ASSUME NEW id PROVE Row(id)' = Row(id)
  BY DEF Row, Labelled
<1>11. ASSUME NEW id
       PROVE  Intrinsic(id, Requested[id])' = Intrinsic(id, Requested[id])
  BY <1>3, <1>6, <1>8 DEF Intrinsic, DurationVerdict
<1> QED
  BY <1>1, <1>2, <1>3, <1>4, <1>5, <1>6, <1>7, <1>9, <1>10, <1>11

\* Whose identities are whose: stored blocks are positive, additions negative.
LEMMA IdsAre ==
    ASSUME Ordinary, Typed
    PROVE  /\ DOMAIN updates \subseteq Stay /\ Stay \subseteq DOMAIN turn.day
           /\ \A id \in Stay : id \in Int /\ id > 0
           /\ Added \subseteq DOMAIN actions /\ DOMAIN actions = 1..Len(actions)
           /\ \A id \in Explicit : id \in Int /\ id < 0 /\ id \notin AutoIds
                                   /\ -id \in Added \ Untimed /\ Action(id) = actions[-id]
           /\ \A id \in AutoIds : id \in Int /\ id < 0 /\ -id \in Untimed /\ TempId(-id) = id
           /\ \A i \in Untimed : /\ i \in Added /\ TempId(i) \in AutoIds
                                 /\ Action(TempId(i)) = actions[i]
           /\ Retimed \subseteq DOMAIN updates \union Explicit
           /\ DOMAIN Requested = Stay \union Explicit
<1>1. DOMAIN actions = 1..Len(actions) /\ Len(actions) \in Nat
  BY DEF Typed
<1>2. Added \subseteq DOMAIN actions
  BY DEF Added
<1>3. \A i \in Added : i \in Int /\ i > 0 /\ -i \in Int /\ -i < 0 /\ -(-i) = i
  BY <1>1, <1>2
<1>4. \A id \in Explicit : \E i \in Added \ Untimed : id = -i
  BY DEF Explicit, TempId
<1>5. \A id \in AutoIds : \E i \in Untimed : id = -i
  BY DEF AutoIds, TempId
<1>6. Untimed \subseteq Added
  BY DEF Untimed
<1>7. \A id \in AutoIds : id \in Int /\ id < 0 /\ -id \in Untimed /\ TempId(-id) = id
  BY <1>3, <1>5, <1>6 DEF TempId
<1>8. \A id \in Explicit : /\ id \in Int /\ id < 0 /\ -id \in Added \ Untimed
                           /\ Action(id) = actions[-id]
  BY <1>3, <1>4 DEF Action
<1>9. \A id \in Explicit : id \notin AutoIds
  BY <1>7, <1>8
<1>10. \A i \in Untimed : TempId(i) \in AutoIds /\ Action(TempId(i)) = actions[i]
  BY <1>3, <1>6 DEF AutoIds, TempId, Action
<1>11. Stay \subseteq DOMAIN turn.day /\ \A id \in Stay : id \in Int /\ id > 0
  BY TurnIs DEF Stay, Typed
<1>12. Retimed \subseteq DOMAIN updates \union Explicit
  BY DEF Retimed
<1>13. DOMAIN Requested = Stay \union Explicit
  BY DEF Requested, Stay
<1> QED
  BY <1>1, <1>2, <1>6, <1>7, <1>8, <1>9, <1>10, <1>11, <1>12, <1>13 DEF Typed

\* A stored block at its old time.
LEMMA RowIs ==
    ASSUME Ordinary, Typed, NEW id \in Stay
    PROVE  /\ Row(id) \in Blocks
           /\ Row(id).start = turn.day[id].start /\ Row(id).end = turn.day[id].end
           /\ Row(id).label = IF id \in DOMAIN updates THEN Labelled(id, updates[id])
                              ELSE turn.day[id].label
           /\ Row(id).start < Row(id).end
           /\ id \notin DOMAIN updates => Row(id) = turn.day[id]
<1>1. turn.day[id] \in Blocks /\ turn.day[id].start < turn.day[id].end
  BY TurnIs DEF Proper, Typed, Stay
<1>2. PICK s \in Times, e \in Times, l \in STRING :
          turn.day[id] = [start |-> s, end |-> e, label |-> l]
  BY <1>1 DEF Blocks
<1>3. PICK m : m = IF id \in DOMAIN updates THEN Labelled(id, updates[id]) ELSE turn.day[id].label
  OBVIOUS
<1>4. m \in STRING
  <2>1. id \in DOMAIN updates => updates[id].label \in STRING \union {None}
    BY DEF Typed, UpdateRecords
  <2> QED
    BY <1>2, <1>3, <2>1 DEF Labelled
<1>5. Row(id) = [[start |-> s, end |-> e, label |-> l] EXCEPT !.label = m]
  BY <1>2, <1>3 DEF Row
<1>6. Row(id) = [start |-> s, end |-> e, label |-> m]
  BY <1>5
<1>7. Row(id) \in Blocks /\ Row(id).start = s /\ Row(id).end = e /\ Row(id).label = m
  BY <1>4, <1>6 DEF Blocks
<1> QED
  BY <1>1, <1>2, <1>3, <1>6, <1>7

\* What is asked for is a block of a day; a block without a new interval asks for its row.
LEMMA RequestedIs ==
    ASSUME Ordinary, Typed, Read, NEW id \in Stay \union Explicit
    PROVE  /\ Requested[id] \in Blocks
           /\ id \in DOMAIN updates =>
                 /\ Requested[id].start = updates[id].start
                 /\ Requested[id].end = updates[id].end
           /\ id \in Stay => Requested[id].label = Row(id).label
           /\ id \in Stay \ Retimed => Requested[id] = Row(id)
           /\ id \in Explicit => Requested[id].label = Action(id).label
<1>1. CASE id \in Explicit
  <2>1. PICK a : a = Action(id)
    OBVIOUS
  <2>2. a.type = "add" /\ Timed(a) /\ WellFormed(a)
    <3>1. -id \in Added \ Untimed /\ a = actions[-id] /\ Added \subseteq DOMAIN actions
      BY <1>1, <2>1, IdsAre
    <3>2. a \in turn.offers
      BY <3>1 DEF Typed
    <3> QED
      BY <3>1, <3>2, TurnIs DEF Added, Untimed, Proper, Typed
  <2>3. a.start \in Times /\ a.end \in Times /\ a.label \in STRING
    BY <2>2 DEF WellFormed, Timed
  <2>4. Requested[id] = [start |-> a.start, end |-> a.end, label |-> a.label]
    BY <1>1, <2>1 DEF Requested
  <2>5. id \notin Stay
    BY <1>1, IdsAre
  <2> QED
    BY <1>1, <2>1, <2>3, <2>4, <2>5, IdsAre DEF Blocks
<1>2. CASE id \in DOMAIN updates
  <2>1. id \in Stay /\ id \notin Explicit
    BY <1>2, IdsAre
  <2>2. PICK u \in UpdateRecords : u = updates[id]
    BY <1>2 DEF Typed
  <2>3. PICK m \in STRING : m = Labelled(id, u) /\ Row(id).label = m
    <3>1. Row(id).label = Labelled(id, u) /\ Row(id) \in Blocks
      BY <1>2, <2>1, <2>2, RowIs
    <3> QED
      BY <3>1 DEF Blocks
  <2>4. Requested[id] = [start |-> u.start, end |-> u.end, label |-> m]
    BY <1>2, <2>1, <2>2, <2>3 DEF Requested, Stay
  <2>5. u.start \in Times /\ u.end \in Times
    BY <2>2 DEF UpdateRecords
  <2>6. id \notin Retimed => u.start = turn.day[id].start /\ u.end = turn.day[id].end
    <3>1. Folded(id)
      BY <1>2 DEF Read
    <3>2. id \notin Retimed =>
              ~u.startSupplied /\ ~u.endSupplied /\ ~u.bare /\ u.derived = None
      BY <1>2, <2>2 DEF Retimed, TimeRequested
    <3> QED
      BY <2>2, <3>1, <3>2 DEF Folded
  <2>7. id \notin Retimed => Requested[id] = Row(id)
    <3>1. Row(id).start = turn.day[id].start /\ Row(id).end = turn.day[id].end /\ Row(id) \in Blocks
      BY <2>1, RowIs
    <3>2. Row(id) = [start |-> Row(id).start, end |-> Row(id).end, label |-> Row(id).label]
      BY <3>1 DEF Blocks
    <3> QED
      BY <2>3, <2>4, <2>6, <3>1, <3>2
  <2>8. Requested[id] \in Blocks /\ Requested[id].start = u.start /\ Requested[id].end = u.end
        /\ Requested[id].label = m
    BY <2>4, <2>5 DEF Blocks
  <2> QED
    BY <2>1, <2>2, <2>3, <2>7, <2>8
<1>3. CASE id \notin Explicit /\ id \notin DOMAIN updates
  <2>1. id \in Stay
    BY <1>3
  <2>2. Requested[id] = turn.day[id]
    BY <1>3, <2>1 DEF Requested, Stay
  <2>3. Row(id) = turn.day[id] /\ Row(id) \in Blocks
    BY <1>3, <2>1, RowIs
  <2> QED
    BY <1>3, <2>1, <2>2, <2>3
<1> QED
  BY <1>1, <1>2, <1>3

\* A block of the day has two times and a label.
LEMMA BlocksAre ==
    ASSUME Ordinary, NEW b \in Blocks
    PROVE  /\ BlockOf(b) /\ b.start \in Int /\ b.end \in Int
           /\ b.start \in Times /\ b.end \in Times /\ b.label \in STRING
           /\ b = [start |-> b.start, end |-> b.end, label |-> b.label]
<1>1. Times \subseteq Int
  BY DEF Ordinary, Times
<1>2. /\ b.start \in Times /\ b.end \in Times /\ b.label \in STRING
      /\ b = [start |-> b.start, end |-> b.end, label |-> b.label]
  BY DEF Blocks
<1> QED
  BY <1>1, <1>2 DEF BlockOf

\* Which ends of a new interval are new, and which may be moved.
LEMMA FlagsAre ==
    ASSUME Ordinary, Typed, NEW id \in Retimed
    PROVE  /\ FlagsOf(Changed(id)) /\ FlagsOf(Clampable(id))
           /\ id \in Explicit => Changed(id).start /\ Changed(id).end
           /\ id \in DOMAIN updates =>
                 /\ Changed(id).start = updates[id].startSupplied
                 /\ Changed(id).end =
                       (updates[id].endSupplied \/ updates[id].bare \/ updates[id].derived # None)
                 /\ Clampable(id).start = updates[id].startSupplied
                 /\ Clampable(id).end = updates[id].endSupplied
<1>1. CASE id \in Explicit
  <2>1. id \notin DOMAIN updates
    BY <1>1, IdsAre
  <2>2. Changed(id) = Both(TRUE) /\ Clampable(id) = Both(TRUE)
    BY <1>1 DEF Changed, Clampable
  <2>3. PICK c : c = Changed(id) /\ c = Clampable(id) /\ c = [start |-> TRUE, end |-> TRUE]
    BY <2>2 DEF Both
  <2>4. FlagsOf(c) /\ c.start /\ c.end
    BY <2>3 DEF FlagsOf
  <2> QED
    BY <2>1, <2>3, <2>4
<1>2. CASE id \notin Explicit
  <2>1. id \in DOMAIN updates
    BY <1>2, IdsAre
  <2>2. PICK u \in UpdateRecords : u = updates[id]
    BY <2>1 DEF Typed
  <2>3. /\ Changed(id) = [start |-> u.startSupplied,
                          end |-> u.endSupplied \/ u.bare \/ u.derived # None]
        /\ Clampable(id) = [start |-> u.startSupplied, end |-> u.endSupplied]
    BY <1>2, <2>2 DEF Changed, Clampable
  <2>4. u.startSupplied \in BOOLEAN /\ u.endSupplied \in BOOLEAN
        /\ (u.endSupplied \/ u.bare \/ u.derived # None) \in BOOLEAN
    BY <2>2 DEF UpdateRecords
  <2>5. FlagsOf(Changed(id)) /\ FlagsOf(Clampable(id))
    BY <2>3, <2>4 DEF FlagsOf
  <2> QED
    BY <1>2, <2>2, <2>3, <2>5
<1> QED
  BY <1>1, <1>2

\* The interval that is judged, with its named ends inside the window.
LEMMA WantedIs ==
    ASSUME Ordinary, Typed, Read, NEW id \in Retimed
    PROVE  /\ Requested[id] \in Blocks /\ Wanted(id) \in Blocks
           /\ Wanted(id).start = IF Clampable(id).start
                                 THEN Later(Requested[id].start, turn.window.start)
                                 ELSE Requested[id].start
           /\ Wanted(id).end = IF Clampable(id).end
                               THEN Earlier(Requested[id].end, turn.window.end)
                               ELSE Requested[id].end
           /\ Wanted(id).label = Requested[id].label
<1>1. id \in Stay \union Explicit
  BY IdsAre
<1>2. PICK b \in Blocks : b = Requested[id]
  BY <1>1, RequestedIs
<1>3. PICK clamp : clamp = Clampable(id) /\ FlagsOf(clamp)
  BY FlagsAre
<1>4. PICK w : w = Wanted(id) /\ w = Clamped(b, turn.window, clamp)
  BY <1>2, <1>3 DEF Wanted, Settled, Policy
<1>5. BlockOf(b) /\ b.start \in Times /\ b.end \in Times /\ b.label \in STRING
  BY BlocksAre
<1>6. /\ w.start = IF clamp.start THEN Later(b.start, turn.window.start) ELSE b.start
      /\ w.end = IF clamp.end THEN Earlier(b.end, turn.window.end) ELSE b.end
      /\ w.label = b.label
      /\ w = [start |-> w.start, end |-> w.end, label |-> b.label]
  BY <1>4, <1>5, BlocksRanged, ClampedIs, ClampedBlock
<1>7. w.start \in Times /\ w.end \in Times
  BY <1>5, <1>6, TurnIs DEF Later, Earlier, Typed
<1>8. w \in Blocks
  BY <1>5, <1>6, <1>7 DEF Blocks
<1> QED
  BY <1>2, <1>3, <1>4, <1>6, <1>8

\* What an accepted interval has passed.
LEMMA VettedIs ==
    ASSUME Ordinary, Typed, Read, NEW id \in Retimed, Intrinsic(id, Requested[id]) = "ok"
    PROVE  /\ Clean(Wanted(id), turn.window, Changed(id))
           /\ Changed(id).end /\ ~Clampable(id).end => Requested[id].end <= turn.window.end
           /\ id \in DOMAIN updates /\ updates[id].derived # None =>
                 DurationVerdict(updates[id]) = "ok"
<1>1. PICK b \in Blocks : b = Requested[id] /\ BlockOf(b)
  BY WantedIs, BlocksAre
<1>2. PICK clamp, changed : /\ clamp = Clampable(id) /\ FlagsOf(clamp)
                            /\ changed = Changed(id) /\ FlagsOf(changed)
  BY FlagsAre
<1>3. Intrinsic(id, b) = "ok"
  BY <1>1
<1>4. /\ Verdict(b, Policy("ai"), turn.window, changed, clamp) = "ok"
      /\ id \notin Explicit /\ updates[id].derived # None => DurationVerdict(updates[id]) = "ok"
  BY <1>2, <1>3 DEF Intrinsic
<1>5. WindowOf(turn.window)
  BY TurnIs DEF Typed
<1>6. /\ Clean(Settled(b, Policy("ai"), turn.window, clamp), turn.window, changed)
      /\ changed.end /\ ~clamp.end => b.end <= turn.window.end
  BY <1>1, <1>2, <1>4, <1>5, BlocksRanged, OkIsClean
<1>7. id \in DOMAIN updates => id \notin Explicit
  BY IdsAre
<1> QED
  BY <1>1, <1>2, <1>4, <1>6, <1>7 DEF Wanted

\* No interval is refused for a conflict before the rounds.
LEMMA IntrinsicIs ==
    ASSUME NEW id, NEW block
    PROVE  Intrinsic(id, block) \in {"ok", "granularity", "out_of_window", "interval"}
<1>1. Verdict(block, Policy("ai"), turn.window, Changed(id), Clampable(id))
          \in {"ok", "granularity", "out_of_window", "interval"}
  BY DEF Verdict
<1>2. DurationVerdict(updates[id]) \in {"ok", "granularity", "out_of_window", "interval"}
  BY DEF DurationVerdict
<1> QED
  BY <1>1, <1>2 DEF Intrinsic

\* Each new interval comes from an action of its own.
LEMMA RetimedCount ==
    ASSUME Ordinary, Typed, Read
    PROVE  /\ IsFiniteSet(Retimed) /\ Cardinality(Retimed) \in 0..Len(actions)
           /\ Len(actions) \in Nat /\ Len(actions) <= MaxActions
<1>1. PICK n \in Nat : n = Len(actions) /\ DOMAIN actions = 1..n
  BY DEF Typed
<1> DEFINE f == [id \in Retimed |-> IF id \in DOMAIN updates THEN updates[id].index ELSE -id]
<1>2. IsFiniteSet(1..n) /\ Cardinality(1..n) = n
  <2>1. 1 \in Int /\ n \in Int
    OBVIOUS
  <2>2. IsFiniteSet(1..n) /\ Cardinality(1..n) = IF 1 > n THEN 0 ELSE n - 1 + 1
    BY ONLY <2>1, FS_Interval
  <2> QED
    BY <1>1, <2>2
<1>3. ASSUME NEW id \in DOMAIN updates
      PROVE  /\ updates[id].index \in 1..n /\ actions[updates[id].index].task = id
             /\ updates[id].index \notin Added
  <2>1. Folded(id)
    BY <1>3 DEF Read
  <2>2. updates[id].index \in 1..n /\ actions[updates[id].index].task = id
    BY <1>1, <2>1 DEF Folded
  <2>3. id \in Int
    BY IdsAre
  <2>4. ASSUME updates[id].index \in Added PROVE FALSE
    <3>1. /\ actions[updates[id].index].type = "add"
          /\ actions[updates[id].index] \in turn.offers
      BY <1>1, <2>2, <2>4 DEF Added, Typed
    <3>2. actions[updates[id].index].task = None
      <4>1. PICK a : a = actions[updates[id].index]
        OBVIOUS
      <4>2. WellFormed(a) /\ a.type = "add"
        BY <3>1, <4>1, TurnIs DEF Proper, Typed
      <4>3. {a.task, a.delta, a.direction} = {None}
        BY <4>2 DEF WellFormed
      <4> QED
        BY <4>1, <4>3
    <3> QED
      BY <2>2, <2>3, <3>2 DEF Ordinary
  <2> QED
    BY <2>2, <2>4
<1>4. ASSUME NEW id \in Explicit PROVE id \in Int /\ -id \in 1..n /\ -id \in Added
                                      /\ id \notin DOMAIN updates
  BY <1>1, <1>4, IdsAre
<1>5. \A id \in Retimed : f[id] \in 1..n
  <2> SUFFICES ASSUME NEW id \in Retimed PROVE f[id] \in 1..n
    OBVIOUS
  <2>1. id \in DOMAIN updates \/ id \in Explicit
    BY IdsAre
  <2> QED
    BY <1>3, <1>4, <2>1
<1>6. ASSUME NEW x \in Retimed, NEW y \in Retimed, f[x] = f[y] PROVE x = y
  <2>1. /\ x \in DOMAIN updates \/ x \in Explicit
        /\ y \in DOMAIN updates \/ y \in Explicit
    BY IdsAre
  <2>2. CASE x \in DOMAIN updates /\ y \in DOMAIN updates
    BY <1>3, <1>6, <2>2
  <2>3. CASE x \in DOMAIN updates /\ y \in Explicit
    BY <1>3, <1>4, <1>6, <2>3
  <2>4. CASE x \in Explicit /\ y \in DOMAIN updates
    BY <1>3, <1>4, <1>6, <2>4
  <2>5. CASE x \in Explicit /\ y \in Explicit
    <3>1. f[x] = -x /\ f[y] = -y /\ x \in Int /\ y \in Int
      BY <1>4, <2>5
    <3> QED
      BY <1>6, <3>1
  <2> QED
    BY <2>1, <2>2, <2>3, <2>4, <2>5
<1>7. f \in Injection(Retimed, 1..n)
  BY <1>5, <1>6 DEF Injection, IsInjective
<1> HIDE DEF f
<1>8. IsFiniteSet(Retimed) /\ Cardinality(Retimed) <= n
  BY <1>2, <1>7, FS_Injection
<1> QED
  BY <1>1, <1>8, FS_CardinalityType DEF Typed

\* A refused interval of a stored block is its row again.
LEMMA RevertedIs ==
    ASSUME Ordinary, Typed, NEW day, NEW ids,
           \A id \in DOMAIN day \intersect Stay :
               day[id] \in Blocks /\ day[id].label = Row(id).label,
           \A id \in DOMAIN day : id > 0 => id \in Stay
    PROVE  /\ DOMAIN Reverted(day, ids) = {id \in DOMAIN day : id > 0 \/ id \notin ids}
           /\ \A id \in DOMAIN Reverted(day, ids) :
                 /\ id \in ids => id \in Stay /\ Reverted(day, ids)[id] = Row(id)
                 /\ id \notin ids => Reverted(day, ids)[id] = day[id]
<1>1. PICK r : r = Reverted(day, ids)
  OBVIOUS
<1>2. r = [id \in {i \in DOMAIN day : i > 0 \/ i \notin ids} |->
              IF id \in ids
              THEN [day[id] EXCEPT !.start = turn.day[id].start, !.end = turn.day[id].end]
              ELSE day[id]]
  BY <1>1 DEF Reverted
<1>3. DOMAIN r = {id \in DOMAIN day : id > 0 \/ id \notin ids}
  BY <1>2
<1>4. ASSUME NEW id \in DOMAIN r, id \in ids PROVE id \in Stay /\ r[id] = Row(id)
  <2>1. id \in Stay /\ id \in DOMAIN day
    BY <1>3, <1>4
  <2>2. PICK b : b = day[id] /\ b = [start |-> b.start, end |-> b.end, label |-> b.label]
                 /\ b.label = Row(id).label
    BY <2>1, BlocksAre
  <2>3. PICK row \in Blocks : /\ row = Row(id)
                              /\ row.start = turn.day[id].start /\ row.end = turn.day[id].end
                              /\ row = [start |-> row.start, end |-> row.end, label |-> row.label]
    BY <2>1, RowIs, BlocksAre
  <2>4. r[id] = [b EXCEPT !.start = row.start, !.end = row.end]
    BY <1>2, <1>4, <2>2, <2>3
  <2>5. PICK s, e, l : s = row.start /\ e = row.end /\ l = b.label
    OBVIOUS
  <2>6. PICK f : f = [b EXCEPT !.start = s, !.end = e]
    OBVIOUS
  <2>7. f \in [start : {s}, end : {e}, label : {l}]
    <3>1. PICK x, y : b = [start |-> x, end |-> y, label |-> l]
      BY <2>2, <2>5
    <3> QED
      BY <2>6, <3>1
  <2>8. f = [start |-> s, end |-> e, label |-> l]
    BY <2>7
  <2> QED
    BY <2>1, <2>2, <2>3, <2>4, <2>5, <2>6, <2>8
<1>5. ASSUME NEW id \in DOMAIN r, id \notin ids PROVE r[id] = day[id]
  BY <1>2, <1>5
<1> QED
  BY <1>1, <1>3, <1>4, <1>5

\* A new interval is that of a stored block or of a timed addition, never of an untimed one.
LEMMA RetimedApart ==
    ASSUME Ordinary, Typed
    PROVE  /\ Retimed \intersect AutoIds = {}
           /\ \A id \in Retimed : /\ id \in Int
                                  /\ id > 0 => id \in DOMAIN updates /\ id \in Stay
                                  /\ id <= 0 => id \in Explicit /\ id < 0
           /\ Retimed \subseteq DOMAIN Requested
<1>1. ASSUME NEW id \in Retimed
      PROVE  \/ id \in DOMAIN updates /\ id \in Stay /\ id \in Int /\ id > 0
             \/ id \in Explicit /\ id \in Int /\ id < 0 /\ id \notin AutoIds
  BY IdsAre
<1>2. \A id \in AutoIds : id \in Int /\ id < 0
  BY IdsAre
<1>3. DOMAIN Requested = Stay \union Explicit
  BY IdsAre
<1> QED
  BY <1>1, <1>2, <1>3

(* Judging starts from the day that is asked for, with what failed its     *)
(* intrinsic checks back at its old interval.                              *)
LEMMA JudgeKeeps ==
    ASSUME Ordinary, Typed, Read, Judge
    PROVE  Judged'
<1> DEFINE fine == {id \in Retimed : Intrinsic(id, Requested[id]) = "ok"}
           settled == [id \in DOMAIN Requested |->
                          IF id \in fine
                          THEN Settled(Requested[id], Policy("ai"), turn.window, Clampable(id))
                          ELSE Requested[id]]
<1>1. /\ phase' = "judge" /\ accepted' = fine
      /\ rejected' = [id \in Retimed \ fine |-> Refusal(Intrinsic(id, Requested[id]), {})]
      /\ candidate' = Reverted(settled, Retimed \ fine)
      /\ rounds' = RoundLimit(fine)
      /\ turn' = turn /\ actions' = actions /\ updates' = updates
  <2>1. \A id \in Retimed : Judgement[id] = Intrinsic(id, Requested[id])
    BY DEF Judgement
  <2>2. {id \in Retimed : Judgement[id] = "ok"} = fine
    BY <2>1
  <2>3. [id \in Retimed \ fine |-> Refusal(Judgement[id], {})]
            = [id \in Retimed \ fine |-> Refusal(Intrinsic(id, Requested[id]), {})]
    BY <2>1
  <2> QED
    BY <2>2, <2>3 DEF Judge, reading
<1>2. /\ Retimed' = Retimed /\ AutoIds' = AutoIds /\ Stay' = Stay /\ Untimed' = Untimed
      /\ \A id : /\ Row(id)' = Row(id) /\ Wanted(id)' = Wanted(id)
                 /\ Intrinsic(id, Requested[id])' = Intrinsic(id, Requested[id])
  BY <1>1, Same
<1>3. /\ Retimed \intersect AutoIds = {}
      /\ \A id \in Retimed : /\ id \in Int
                             /\ id > 0 => id \in DOMAIN updates /\ id \in Stay
                             /\ id <= 0 => id \in Explicit /\ id < 0
      /\ Retimed \subseteq DOMAIN Requested
  BY RetimedApart
<1>4. fine \subseteq Retimed
  OBVIOUS
<1>5. \A id \in fine : settled[id] = Wanted(id)
  BY <1>3, <1>4 DEF Wanted
<1>6. \A id \in DOMAIN Requested \ fine : settled[id] = Requested[id]
  OBVIOUS
<1>7. DOMAIN settled = DOMAIN Requested /\ DOMAIN Requested = Stay \union Explicit
  BY IdsAre
<1>8. \A id \in fine : Intrinsic(id, Requested[id]) = "ok"
  OBVIOUS
<1>9. \A id \in Retimed \ fine : Intrinsic(id, Requested[id]) # "ok"
  OBVIOUS
<1> HIDE DEF fine, settled
<1>10. \A id \in Stay : id \in Int /\ id > 0
  BY IdsAre
<1>11. \A id \in Explicit : id \in Int /\ id < 0 /\ id \in Retimed
  BY IdsAre DEF Retimed
<1>12. \A id \in DOMAIN settled : settled[id] \in Blocks
  <2> SUFFICES ASSUME NEW id \in DOMAIN settled PROVE settled[id] \in Blocks
    OBVIOUS
  <2>1. CASE id \in fine
    BY <1>4, <1>5, <2>1, WantedIs
  <2>2. CASE id \notin fine
    BY <1>6, <1>7, <2>2, RequestedIs
  <2> QED
    BY <2>1, <2>2
<1>13. \A id \in DOMAIN settled \intersect Stay : settled[id].label = Row(id).label
  <2> SUFFICES ASSUME NEW id \in Stay, id \in DOMAIN settled
               PROVE  settled[id].label = Row(id).label
    OBVIOUS
  <2>1. Requested[id].label = Row(id).label
    BY RequestedIs
  <2>2. CASE id \in fine
    BY <1>4, <1>5, <2>1, <2>2, WantedIs
  <2>3. CASE id \notin fine
    BY <1>6, <1>7, <2>1, <2>3
  <2> QED
    BY <2>2, <2>3
<1>14. /\ DOMAIN candidate' = {id \in DOMAIN settled : id > 0 \/ id \notin Retimed \ fine}
       /\ \A id \in DOMAIN candidate' :
             /\ id \in Retimed \ fine => id \in Stay /\ candidate'[id] = Row(id)
             /\ id \notin Retimed \ fine => candidate'[id] = settled[id]
  <2>1. /\ \A id \in DOMAIN settled \intersect Stay :
               settled[id] \in Blocks /\ settled[id].label = Row(id).label
        /\ \A id \in DOMAIN settled : id > 0 => id \in Stay
    BY <1>7, <1>11, <1>12, <1>13
  <2>2. PICK ids : ids = Retimed \ fine
    OBVIOUS
  <2>3. /\ DOMAIN Reverted(settled, ids) = {id \in DOMAIN settled : id > 0 \/ id \notin ids}
        /\ \A id \in DOMAIN Reverted(settled, ids) :
              /\ id \in ids => id \in Stay /\ Reverted(settled, ids)[id] = Row(id)
              /\ id \notin ids => Reverted(settled, ids)[id] = settled[id]
    BY <2>1, RevertedIs
  <2> QED
    BY <1>1, <2>2, <2>3
<1>15. DOMAIN candidate' = Stay \union {id \in fine : id < 0}
  <2>1. ASSUME NEW id \in DOMAIN candidate' PROVE id \in Stay \/ (id \in fine /\ id < 0)
    BY <1>7, <1>11, <1>14
  <2>2. ASSUME NEW id \in Stay PROVE id \in DOMAIN candidate'
    BY <1>7, <1>10, <1>14
  <2>3. ASSUME NEW id \in fine, id < 0 PROVE id \in DOMAIN candidate'
    BY <1>3, <1>4, <1>7, <1>14, <2>3
  <2> QED
    BY <2>1, <2>2, <2>3
<1>16. \A id \in fine : id \in DOMAIN candidate' /\ candidate'[id] = Wanted(id)
  BY <1>3, <1>4, <1>5, <1>14, <1>15
<1>17. \A id \in Stay \ fine : candidate'[id] = Row(id)
  <2> SUFFICES ASSUME NEW id \in Stay \ fine PROVE candidate'[id] = Row(id)
    OBVIOUS
  <2>1. id \in DOMAIN candidate'
    BY <1>15
  <2>2. CASE id \in Retimed
    BY <1>14, <2>1, <2>2
  <2>3. CASE id \notin Retimed
    <3>1. Requested[id] = Row(id)
      BY <2>3, RequestedIs
    <3> QED
      BY <1>6, <1>7, <1>14, <2>1, <2>3, <3>1
  <2> QED
    BY <2>2, <2>3
<1>18. \A id \in DOMAIN candidate' : candidate'[id] \in Blocks
  <2> SUFFICES ASSUME NEW id \in DOMAIN candidate' PROVE candidate'[id] \in Blocks
    OBVIOUS
  <2>1. CASE id \in fine
    BY <1>4, <1>16, <2>1, WantedIs
  <2>2. CASE id \notin fine
    BY SMTT(30), <1>15, <1>17, <2>2, RowIs
  <2> QED
    BY <2>1, <2>2
<1>19. candidate' = [id \in DOMAIN candidate' |-> candidate'[id]]
  BY <1>1 DEF Reverted
<1>20. DOMAIN rejected' = Retimed \ fine
  BY <1>1
<1>21. Sorted'
  BY <1>1, <1>2, <1>4, <1>20 DEF Sorted
<1>22. Built'
  <2>1. candidate' \in [DOMAIN candidate' -> Blocks]
    BY <1>18, <1>19
  <2>2. accepted' \intersect AutoIds' = {}
    BY <1>1, <1>2, <1>3, <1>4
  <2> QED
    BY <1>1, <1>2, <1>15, <1>16, <1>17, <2>1, <2>2 DEF Built
<1>23. Vetted'
  BY <1>1, <1>2, <1>8 DEF Vetted
<1>24. Explained'
  <2>1. \A id \in DOMAIN rejected' : /\ rejected'[id].reason # "overlap"
                                     /\ rejected'[id].reason # "unresolved_conflict"
    <3> SUFFICES ASSUME NEW id \in Retimed \ fine
                 PROVE  /\ rejected'[id].reason # "overlap"
                        /\ rejected'[id].reason # "unresolved_conflict"
      BY <1>20
    <3>1. rejected'[id].reason = Intrinsic(id, Requested[id])
      BY <1>1 DEF Refusal
    <3>2. Intrinsic(id, Requested[id]) \in {"ok", "granularity", "out_of_window", "interval"}
      BY IntrinsicIs
    <3> QED
      BY <3>1, <3>2
  <2>2. DOMAIN rejected' \intersect AutoIds' = {}
    BY <1>2, <1>3, <1>20
  <2>3. NoSlotIsTrue'
    <3>1. \A i \in Untimed : TempId(i) \in AutoIds
      BY IdsAre
    <3>2. \A i \in Untimed' : TempId(i) \notin DOMAIN rejected'
      BY <1>2, <2>2, <3>1
    <3> QED
      BY <3>2 DEF NoSlotIsTrue
  <2> QED
    BY <2>1, <2>2, <2>3 DEF Explained
<1>25. Bounded'
  <2>1. /\ IsFiniteSet(Retimed) /\ Cardinality(Retimed) \in 0..Len(actions)
        /\ Len(actions) \in Nat /\ Len(actions) <= MaxActions
    BY RetimedCount
  <2>2. IsFiniteSet(fine) /\ Cardinality(fine) <= Cardinality(Retimed)
        /\ Cardinality(fine) \in Nat
    BY <1>4, <2>1, FS_Subset, FS_CardinalityType
  <2>3. rounds' = Cardinality(fine) + 1
    BY <1>1 DEF RoundLimit
  <2>4. rounds' \in 0..(MaxActions + 1) /\ Cardinality(fine) < rounds'
    BY <2>1, <2>2, <2>3 DEF Ordinary
  <2> QED
    BY <1>1, <2>2, <2>4 DEF Bounded
<1> QED
  BY <1>21, <1>22, <1>23, <1>24, <1>25 DEF Judged

\* An untimed addition has a length on the grid.
LEMMA LengthIs ==
    ASSUME Ordinary, Typed, NEW i \in Untimed
    PROVE  /\ Length(actions[i]) \in Nat \ {0} /\ OnGrid(Length(actions[i]))
           /\ actions[i].label \in STRING
<1>1. PICK a : a = actions[i]
  OBVIOUS
<1>2. a.type = "add" /\ ~Timed(a) /\ WellFormed(a)
  <2>1. i \in DOMAIN actions /\ a.type = "add" /\ ~Timed(a)
    BY <1>1 DEF Untimed, Added
  <2>2. a \in turn.offers
    BY <1>1, <2>1 DEF Typed
  <2> QED
    BY <2>1, <2>2, TurnIs DEF Proper, Typed
<1>3. /\ a.duration # None => a.duration \in Nat \ {0} /\ OnGrid(a.duration)
      /\ a.label \in STRING
  BY <1>2 DEF WellFormed
<1> QED
  BY <1>1, <1>3 DEF Length, Ordinary

\* The day that is built is made of blocks with a length, each of its own kind.
LEMMA DayIs ==
    ASSUME Ordinary, Typed, Read, Sorted, Built, Vetted
    PROVE  /\ \A id \in DOMAIN candidate : candidate[id] \in Blocks
           /\ \A id \in DOMAIN candidate : id > 0 => id \in Stay
           /\ \A id \in Stay : id \in DOMAIN candidate /\ candidate[id].label = Row(id).label
           /\ \A id \in DOMAIN candidate :
                 \/ id \in Stay \ accepted /\ candidate[id] = Row(id)
                 \/ id \in accepted \intersect Retimed /\ candidate[id] = Wanted(id)
                 \/ id \in accepted \intersect AutoIds /\ Placed(id)
           /\ DayOf(candidate)
<1>1. \A id \in DOMAIN candidate : candidate[id] \in Blocks
  BY DEF Built
<1>2. \A id \in Stay : id \in Int /\ id > 0
  BY IdsAre
<1>3. ASSUME NEW id \in DOMAIN candidate PROVE id \in Stay \/ (id \in accepted /\ id < 0)
  BY DEF Built
<1>4. Stay \subseteq DOMAIN candidate
  BY DEF Built
<1>5. accepted \subseteq Retimed \union AutoIds
  BY DEF Sorted
<1>6. ASSUME NEW id \in DOMAIN candidate
      PROVE  \/ id \in Stay \ accepted /\ candidate[id] = Row(id)
             \/ id \in accepted \intersect Retimed /\ candidate[id] = Wanted(id)
             \/ id \in accepted \intersect AutoIds /\ Placed(id)
  BY <1>3, <1>5 DEF Built
<1>7. ASSUME NEW id \in Stay PROVE candidate[id].label = Row(id).label
  <2>1. CASE id \in accepted \intersect Retimed /\ candidate[id] = Wanted(id)
    <3>1. Wanted(id).label = Requested[id].label
      BY <2>1, WantedIs
    <3>2. Requested[id].label = Row(id).label
      BY RequestedIs
    <3> QED
      BY <2>1, <3>1, <3>2
  <2>2. id \notin AutoIds
    BY <1>2, IdsAre
  <2> QED
    BY <1>4, <1>6, <2>1, <2>2
<1>8. \A id \in DOMAIN candidate : id \in Int
  BY <1>2, <1>3, <1>5, IdsAre, RetimedApart
<1>9. ASSUME NEW id \in DOMAIN candidate PROVE candidate[id].start < candidate[id].end
  <2>1. CASE id \in Stay \ accepted /\ candidate[id] = Row(id)
    BY <2>1, RowIs
  <2>2. CASE id \in accepted \intersect Retimed /\ candidate[id] = Wanted(id)
    <3>1. Intrinsic(id, Requested[id]) = "ok"
      BY <2>2 DEF Vetted
    <3> QED
      BY <2>2, <3>1, VettedIs DEF Clean
  <2>3. CASE id \in accepted \intersect AutoIds /\ Placed(id)
    <3>1. -id \in Untimed /\ Action(id) = actions[-id]
      BY <2>3, IdsAre DEF Action
    <3>2. PICK n \in Nat \ {0} : n = Length(Action(id))
      BY <3>1, LengthIs
    <3>3. candidate[id].start \in Int
      BY <1>1, BlocksAre
    <3>4. candidate[id].end = candidate[id].start + n
      BY <2>3, <3>2 DEF Placed
    <3> QED
      BY <3>3, <3>4
  <2> QED
    BY <1>6, <2>1, <2>2, <2>3
<1>10. DayOf(candidate)
  <2>1. \A id \in DOMAIN candidate : candidate[id].start \in Int /\ candidate[id].end \in Int
    BY <1>1, BlocksAre
  <2> QED
    BY <1>8, <1>9, <2>1 DEF DayOf
<1>11. \A id \in DOMAIN candidate : id > 0 => id \in Stay
  BY <1>3, <1>8
<1> QED
  BY <1>1, <1>4, <1>6, <1>7, <1>10, <1>11

\* A round of the loop: what is refused goes back, for a reason that is true.
LEMMA RoundKeeps ==
    ASSUME Ordinary, Typed, Read, Judged, phase = "judge",
           NEW ids \in SUBSET accepted, ids # {}, NEW refusals, DOMAIN refusals = ids,
           Reject(ids, refusals),
           \A id \in ids :
               refusals[id].reason = "overlap" =>
                   refusals[id].blocks # {} /\ \A b \in refusals[id].blocks : InTheWay(id, b),
           \A id \in ids :
               refusals[id].reason = "unresolved_conflict" =>
                   \E r \in ids : /\ r # id /\ refusals[r].reason = "unresolved_conflict"
                                  /\ TimesOverlap(Wanted(id), Wanted(r))
    PROVE  Judged'
<1>1. Sorted /\ Built /\ Vetted /\ Explained /\ Bounded
  BY DEF Judged
<1>2. /\ rounds > 0 /\ rounds' = rounds - 1
      /\ rejected' = [id \in DOMAIN rejected \union DOMAIN refusals |->
                         IF id \in DOMAIN rejected THEN rejected[id] ELSE refusals[id]]
      /\ accepted' = accepted \ ids
      /\ candidate' = Reverted(candidate, ids)
      /\ turn' = turn /\ phase' = "judge" /\ actions' = actions /\ updates' = updates
  BY DEF Reject, reading
<1>3. /\ Retimed' = Retimed /\ AutoIds' = AutoIds /\ Stay' = Stay /\ Untimed' = Untimed
      /\ \A id : /\ Row(id)' = Row(id) /\ Wanted(id)' = Wanted(id)
                 /\ Intrinsic(id, Requested[id])' = Intrinsic(id, Requested[id])
  BY <1>2, Same
<1>4. /\ accepted \intersect DOMAIN rejected = {}
      /\ accepted \union DOMAIN rejected \subseteq Retimed
      /\ Retimed \subseteq accepted \union DOMAIN rejected
  BY <1>1 DEF Sorted
<1>5. /\ DOMAIN rejected' = DOMAIN rejected \union ids
      /\ \A id \in DOMAIN rejected : rejected'[id] = rejected[id]
      /\ \A id \in ids : rejected'[id] = refusals[id]
  <2>1. ids \intersect DOMAIN rejected = {}
    BY <1>4
  <2> QED
    BY <1>2, <2>1
<1>6. /\ \A id \in DOMAIN candidate : candidate[id] \in Blocks
      /\ \A id \in DOMAIN candidate : id > 0 => id \in Stay
      /\ \A id \in Stay : id \in DOMAIN candidate /\ candidate[id].label = Row(id).label
      /\ DOMAIN candidate = Stay \union {id \in accepted : id < 0}
      /\ \A id \in Stay : id \in Int /\ id > 0
  BY <1>1, DayIs, IdsAre DEF Built
<1>7. /\ DOMAIN candidate' = {id \in DOMAIN candidate : id > 0 \/ id \notin ids}
      /\ \A id \in DOMAIN candidate' :
            /\ id \in ids => id \in Stay /\ candidate'[id] = Row(id)
            /\ id \notin ids => candidate'[id] = candidate[id]
  <2>2. PICK day : day = candidate
    OBVIOUS
  <2>1. /\ \A id \in DOMAIN day \intersect Stay :
               day[id] \in Blocks /\ day[id].label = Row(id).label
        /\ \A id \in DOMAIN day : id > 0 => id \in Stay
    BY <1>6, <2>2
  <2>3. /\ DOMAIN Reverted(day, ids) = {id \in DOMAIN day : id > 0 \/ id \notin ids}
        /\ \A id \in DOMAIN Reverted(day, ids) :
              /\ id \in ids => id \in Stay /\ Reverted(day, ids)[id] = Row(id)
              /\ id \notin ids => Reverted(day, ids)[id] = day[id]
    BY ONLY Ordinary, Typed, <2>1, RevertedIs
  <2> QED
    BY <1>2, <2>2, <2>3
<1>8. DOMAIN candidate' = Stay \union {id \in accepted' : id < 0}
  <2>1. \A id \in accepted : id \in Int
    BY <1>4, RetimedApart
  <2>2. ASSUME NEW id \in DOMAIN candidate' PROVE id \in Stay \/ (id \in accepted' /\ id < 0)
    BY <1>2, <1>6, <1>7, <2>1
  <2>3. ASSUME NEW id \in Stay PROVE id \in DOMAIN candidate'
    BY <1>6, <1>7
  <2>4. ASSUME NEW id \in accepted', id < 0 PROVE id \in DOMAIN candidate'
    BY <1>2, <1>6, <1>7, <2>4
  <2> QED
    BY <2>2, <2>3, <2>4
<1>9. Sorted'
  BY <1>2, <1>3, <1>4, <1>5 DEF Sorted
<1>10. Built'
  <2>1. candidate' \in [DOMAIN candidate' -> Blocks]
    <3>1. candidate' = [id \in DOMAIN candidate' |-> candidate'[id]]
      BY <1>2 DEF Reverted
    <3>2. \A id \in DOMAIN candidate' : candidate'[id] \in Blocks
      BY <1>6, <1>7, RowIs
    <3> QED
      BY SMTT(30), <3>1, <3>2
  <2>2. ASSUME NEW id \in accepted' \intersect Retimed' PROVE candidate'[id] = Wanted(id)'
    <3>1. id \in accepted /\ id \notin ids /\ id \in Retimed
      BY <1>2, <1>3
    <3>2. id \in DOMAIN candidate'
      <4>1. id \in Int /\ (id > 0 => id \in Stay) /\ (id <= 0 => id < 0)
        BY <3>1, RetimedApart
      <4> QED
        BY <1>2, <1>8, <3>1, <4>1
    <3>3. candidate'[id] = Wanted(id)
      BY <1>1, <1>7, <3>1, <3>2 DEF Built
    <3> QED
      BY <1>3, <3>3
  <2>3. ASSUME NEW id \in Stay' \ accepted' PROVE candidate'[id] = Row(id)'
    <3>1. id \in Stay /\ id \in DOMAIN candidate'
      BY <1>3, <1>8
    <3>2. CASE id \in ids
      BY <1>3, <1>7, <3>1, <3>2
    <3>3. CASE id \notin ids
      <4>1. id \notin accepted
        BY <1>2, <3>3
      <4>2. candidate[id] = Row(id)
        BY <1>1, <3>1, <4>1 DEF Built
      <4> QED
        BY <1>3, <1>7, <3>1, <3>3, <4>2
    <3> QED
      BY <3>2, <3>3
  <2>4. accepted' \intersect AutoIds' = {}
    BY <1>2, <1>3, <1>4, RetimedApart
  <2> QED
    BY <1>3, <1>8, <2>1, <2>2, <2>3, <2>4 DEF Built
<1>11. Vetted'
  BY <1>1, <1>2, <1>3 DEF Vetted
<1>12. Explained'
  <2>1. ASSUME NEW id, NEW b, InTheWay(id, b) PROVE InTheWay(id, b)'
    BY <1>2, <1>3, <2>1 DEF InTheWay
  <2>2. ASSUME NEW id, NEW r, SharesFate(id, r) PROVE SharesFate(id, r)'
    BY <1>3, <1>5, <2>2 DEF SharesFate
  <2>3. ASSUME NEW id \in DOMAIN rejected' \intersect Retimed'
        PROVE  /\ rejected'[id].reason = "overlap" =>
                     /\ rejected'[id].blocks # {}
                     /\ \A b \in rejected'[id].blocks : InTheWay(id, b)'
               /\ rejected'[id].reason = "unresolved_conflict" =>
                     \E r \in DOMAIN rejected' : SharesFate(id, r)'
    <3>1. CASE id \in DOMAIN rejected
      <4>1. id \in Retimed /\ rejected'[id] = rejected[id]
        BY <1>3, <1>5, <3>1
      <4>2. /\ rejected[id].reason = "overlap" =>
                  rejected[id].blocks # {} /\ \A b \in rejected[id].blocks : InTheWay(id, b)
            /\ rejected[id].reason = "unresolved_conflict" =>
                  \E r \in DOMAIN rejected : SharesFate(id, r)
        BY <1>1, <3>1, <4>1 DEF Explained
      <4> QED
        BY <1>5, <2>1, <2>2, <4>1, <4>2
    <3>2. CASE id \in ids
      <4>1. rejected'[id] = refusals[id]
        BY <1>5, <3>2
      <4>2. rejected'[id].reason = "overlap" =>
                /\ rejected'[id].blocks # {}
                /\ \A b \in rejected'[id].blocks : InTheWay(id, b)'
        BY <2>1, <3>2, <4>1
      <4>3. ASSUME rejected'[id].reason = "unresolved_conflict"
            PROVE  \E r \in DOMAIN rejected' : SharesFate(id, r)'
        <5>1. PICK r \in ids : /\ r # id /\ refusals[r].reason = "unresolved_conflict"
                               /\ TimesOverlap(Wanted(id), Wanted(r))
          BY <3>2, <4>1, <4>3
        <5>2. r \in DOMAIN rejected' /\ r \in Retimed /\ rejected'[r].reason = "unresolved_conflict"
          BY <1>4, <1>5, <5>1
        <5>3. SharesFate(id, r)'
          BY <1>3, <5>1, <5>2 DEF SharesFate
        <5> QED
          BY <5>2, <5>3
      <4> QED
        BY <4>2, <4>3
    <3> QED
      BY <1>5, <3>1, <3>2
  <2>4. DOMAIN rejected' \intersect AutoIds' = {}
    BY <1>3, <1>4, <1>5, RetimedApart
  <2>5. NoSlotIsTrue'
    <3>1. \A i \in Untimed : TempId(i) \in AutoIds
      BY IdsAre
    <3>2. \A i \in Untimed' : TempId(i) \notin DOMAIN rejected'
      BY <1>3, <2>4, <3>1
    <3> QED
      BY <3>2 DEF NoSlotIsTrue
  <2> QED
    BY <2>3, <2>4, <2>5 DEF Explained
<1>13. Bounded'
  <2>1. rounds \in 0..(MaxActions + 1) /\ IsFiniteSet(accepted) /\ Cardinality(accepted) < rounds
    BY <1>1 DEF Bounded
  <2>2. PICK x : x \in ids /\ x \in accepted
    OBVIOUS
  <2>3. /\ IsFiniteSet(accepted \ {x}) /\ Cardinality(accepted \ {x}) = Cardinality(accepted) - 1
        /\ Cardinality(accepted) \in Nat
    BY <2>1, <2>2, FS_RemoveElement, FS_CardinalityType
  <2>4. accepted' \in SUBSET (accepted \ {x})
    BY <1>2, <2>2
  <2>5. IsFiniteSet(accepted') /\ Cardinality(accepted') <= Cardinality(accepted \ {x})
        /\ Cardinality(accepted') \in Nat
    BY <2>3, <2>4, FS_Subset, FS_CardinalityType
  <2>6. rounds' \in 0..(MaxActions + 1) /\ Cardinality(accepted') < rounds'
    BY <1>2, <2>1, <2>3, <2>5 DEF Ordinary
  <2> QED
    BY <1>2, <2>5, <2>6 DEF Bounded
<1> QED
  BY <1>9, <1>10, <1>11, <1>12, <1>13 DEF Judged

\* What a new interval conflicts with is another block that shares a minute with it.
LEMMA ConflictingIs ==
    ASSUME DayOf(candidate), NEW id, NEW other \in Conflicting(id)
    PROVE  /\ id \in DOMAIN candidate /\ other \in DOMAIN candidate /\ other # id
           /\ TimesOverlap(candidate[other], candidate[id])
           /\ TimesOverlap(candidate[id], candidate[other])
           /\ id \in Conflicting(other)
<1>1. <<id, other>> \in Overlaps(candidate) \/ <<other, id>> \in Overlaps(candidate)
  BY DEF Conflicting
<1>2. \A p \in Overlaps(candidate) :
          /\ p[1] \in DOMAIN candidate /\ p[2] \in DOMAIN candidate /\ p[1] # p[2]
          /\ TimesOverlap(candidate[p[1]], candidate[p[2]])
          /\ TimesOverlap(candidate[p[2]], candidate[p[1]])
  BY SweepIsTrue
<1>3. ASSUME NEW x, NEW y, <<x, y>> \in Overlaps(candidate)
      PROVE  /\ x \in DOMAIN candidate /\ y \in DOMAIN candidate /\ x # y
             /\ TimesOverlap(candidate[x], candidate[y])
             /\ TimesOverlap(candidate[y], candidate[x])
  <2>1. PICK p : p = <<x, y>>
    OBVIOUS
  <2>2. p \in Overlaps(candidate) /\ p[1] = x /\ p[2] = y
    BY <1>3, <2>1
  <2> QED
    BY <1>2, <2>2
<1>4. /\ id \in DOMAIN candidate /\ other \in DOMAIN candidate /\ other # id
      /\ TimesOverlap(candidate[other], candidate[id])
      /\ TimesOverlap(candidate[id], candidate[other])
  BY <1>1, <1>3
<1> QED
  BY <1>1, <1>4 DEF Conflicting

\* A round against unmoved blocks.
LEMMA RejectOverlapsKeeps ==
    ASSUME Ordinary, Typed, Read, Judged, RejectOverlaps
    PROVE  Judged'
<1>1. phase = "judge"
  BY DEF RejectOverlaps
<1>2. Sorted /\ Built /\ Vetted
  BY <1>1 DEF Judged
<1>3. DayOf(candidate) /\ \A id \in DOMAIN candidate : id > 0 => id \in Stay
  BY <1>2, DayIs
<1>4. PICK ids : ids = Losers
  OBVIOUS
<1>5. PICK refusals : refusals = [id \in ids |-> Refusal("overlap", Unmoved(id))]
  OBVIOUS
<1>6. Reject(ids, refusals) /\ ids # {} /\ ids \in SUBSET accepted /\ DOMAIN refusals = ids
  BY <1>4, <1>5 DEF RejectOverlaps, Losers
<1>7. ASSUME NEW id \in ids
      PROVE  /\ refusals[id].reason = "overlap" /\ refusals[id].blocks = Unmoved(id)
             /\ Unmoved(id) # {}
             /\ \A b \in Unmoved(id) : InTheWay(id, b)
  <2>1. refusals[id].reason = "overlap" /\ refusals[id].blocks = Unmoved(id)
    BY <1>5 DEF Refusal
  <2>2. id \in accepted /\ Unmoved(id) # {}
    BY <1>4 DEF Losers
  <2>3. ASSUME NEW b \in Unmoved(id) PROVE InTheWay(id, b)
    <3>1. b \in Conflicting(id) /\ b \notin accepted /\ b > 0
      BY DEF Unmoved
    <3>2. /\ id \in DOMAIN candidate /\ b \in DOMAIN candidate
          /\ TimesOverlap(candidate[b], candidate[id])
      BY <1>3, <3>1, ConflictingIs
    <3>3. b \in Stay /\ candidate[b] = Row(b)
      BY <1>2, <1>3, <3>1, <3>2 DEF Built
    <3>4. candidate[id] = Wanted(id)
      BY <1>1, <1>2, <2>2 DEF Built, Sorted
    <3> QED
      BY <3>1, <3>2, <3>3, <3>4 DEF InTheWay
  <2> QED
    BY <2>1, <2>2, <2>3
<1>8. \A id \in ids :
          refusals[id].reason = "overlap" =>
              refusals[id].blocks # {} /\ \A b \in refusals[id].blocks : InTheWay(id, b)
  BY <1>7
<1>9. \A id \in ids :
          refusals[id].reason = "unresolved_conflict" =>
              \E r \in ids : /\ r # id /\ refusals[r].reason = "unresolved_conflict"
                             /\ TimesOverlap(Wanted(id), Wanted(r))
  BY <1>7
<1> QED
  BY <1>1, <1>6, <1>8, <1>9, RoundKeeps

\* A round among new intervals.
LEMMA RejectRivalsKeeps ==
    ASSUME Ordinary, Typed, Read, Judged, RejectRivals
    PROVE  Judged'
<1>1. phase = "judge"
  BY DEF RejectRivals
<1>2. Sorted /\ Built /\ Vetted
  BY <1>1 DEF Judged
<1>3. DayOf(candidate)
  BY <1>2, DayIs
<1>4. PICK ids : ids = Entangled
  OBVIOUS
<1>5. PICK refusals :
          refusals = [id \in ids |->
                         Refusal("unresolved_conflict", {r \in Rivals(id) : r > 0})]
  OBVIOUS
<1>6. Reject(ids, refusals) /\ ids # {} /\ ids \in SUBSET accepted /\ DOMAIN refusals = ids
  BY <1>4, <1>5 DEF RejectRivals, Entangled
<1>7. \A id \in ids : refusals[id].reason = "unresolved_conflict"
  BY <1>5 DEF Refusal
<1>8. ASSUME NEW id \in ids
      PROVE  \E r \in ids : r # id /\ TimesOverlap(Wanted(id), Wanted(r))
  <2>1. PICK r : id \in accepted /\ r \in Conflicting(id) /\ r \in accepted
    BY <1>4 DEF Entangled, Rivals
  <2>2. r # id /\ TimesOverlap(candidate[id], candidate[r]) /\ id \in Conflicting(r)
    BY <1>3, <2>1, ConflictingIs
  <2>3. r \in ids
    BY <1>4, <2>1, <2>2 DEF Entangled, Rivals
  <2>4. candidate[id] = Wanted(id) /\ candidate[r] = Wanted(r)
    BY <1>1, <1>2, <2>1 DEF Built, Sorted
  <2> QED
    BY <2>2, <2>3, <2>4
<1>9. \A id \in ids :
          refusals[id].reason = "unresolved_conflict" =>
              \E r \in ids : /\ r # id /\ refusals[r].reason = "unresolved_conflict"
                             /\ TimesOverlap(Wanted(id), Wanted(r))
  BY <1>7, <1>8
<1>10. \A id \in ids : refusals[id].reason # "overlap"
  BY <1>7
<1> QED
  BY <1>1, <1>6, <1>9, <1>10, RoundKeeps

\* A step that leaves the day and the verdicts leaves what is known of them.
LEMMA JudgedStays ==
    ASSUME turn' = turn, actions' = actions, updates' = updates, judging' = judging,
           Built, Vetted, Explained
    PROVE  Built' /\ Vetted' /\ Explained'
<1>1. candidate' = candidate /\ accepted' = accepted /\ rejected' = rejected /\ rounds' = rounds
  BY DEF judging
<1>2. /\ Retimed' = Retimed /\ AutoIds' = AutoIds /\ Stay' = Stay /\ Untimed' = Untimed
      /\ Base' = Base
      /\ \A id : /\ Row(id)' = Row(id) /\ Wanted(id)' = Wanted(id) /\ Action(id)' = Action(id)
                 /\ Intrinsic(id, Requested[id])' = Intrinsic(id, Requested[id])
  BY Same
<1>3. ASSUME NEW id, Placed(id) PROVE Placed(id)'
  BY <1>1, <1>2, <1>3 DEF Placed
<1>4. Built'
  BY <1>1, <1>2, <1>3 DEF Built
<1>5. Vetted'
  BY <1>1, <1>2 DEF Vetted
<1>6. NoSlotIsTrue'
  BY <1>1, <1>2 DEF NoSlotIsTrue, Explained
<1>7. Explained'
  BY <1>1, <1>2, <1>6 DEF Explained, InTheWay, SharesFate
<1> QED
  BY <1>4, <1>5, <1>7

(* The loop ends by itself, before its rounds are used up: each of them    *)
(* refuses at least one interval.  Then no two blocks overlap.             *)
LEMMA EndRoundsKeeps ==
    ASSUME Ordinary, Typed, Read, Judged, EndRounds
    PROVE  Judged'
<1>1. /\ phase = "judge" /\ phase' = "place" /\ (rounds = 0 \/ (Losers = {} /\ Entangled = {}))
      /\ turn' = turn /\ actions' = actions /\ updates' = updates /\ judging' = judging
      /\ accepted' = accepted /\ rejected' = rejected /\ candidate' = candidate
      /\ rounds' = rounds
  BY DEF EndRounds, reading, judging
<1>2. Sorted /\ Built /\ Vetted /\ Explained /\ Bounded
  BY <1>1 DEF Judged
<1>3. Built' /\ Vetted' /\ Explained'
  BY <1>1, <1>2, JudgedStays
<1>4. Sorted'
  <2>1. Retimed' = Retimed /\ AutoIds' = AutoIds
    BY <1>1, Same
  <2> QED
    BY <1>1, <1>2, <2>1 DEF Sorted
<1>5. rounds > 0
  <2>1. IsFiniteSet(accepted) /\ Cardinality(accepted) < rounds /\ rounds \in 0..(MaxActions + 1)
    BY <1>1, <1>2 DEF Bounded
  <2>2. Cardinality(accepted) \in Nat
    BY <2>1, FS_CardinalityType
  <2> QED
    BY <2>1, <2>2 DEF Ordinary
<1>6. Losers = {} /\ Entangled = {}
  BY <1>1, <1>2, <1>5 DEF Bounded
<1>7. /\ DayOf(candidate)
      /\ \A id \in DOMAIN candidate : id \in accepted \/ (id \in Stay /\ candidate[id] = Row(id))
      /\ \A id \in Stay : id \in Int /\ id > 0
  BY <1>2, DayIs, IdsAre
<1>8. Overlaps(candidate) = {}
  <2> SUFFICES ASSUME NEW p \in Overlaps(candidate) PROVE FALSE
    OBVIOUS
  <2>1. PICK a, b : /\ a = p[1] /\ b = p[2] /\ <<a, b>> \in Overlaps(candidate)
                    /\ a \in DOMAIN candidate /\ b \in DOMAIN candidate
    BY DEF Overlaps
  <2>2. b \in Conflicting(a) /\ a \in Conflicting(b)
    BY <2>1 DEF Conflicting
  <2>3. CASE a \in accepted
    BY <1>6, <1>7, <2>1, <2>2, <2>3 DEF Losers, Entangled, Unmoved, Rivals
  <2>4. CASE b \in accepted
    BY <1>6, <1>7, <2>1, <2>2, <2>4 DEF Losers, Entangled, Unmoved, Rivals
  <2>5. CASE a \notin accepted /\ b \notin accepted
    <3>1. /\ a \in Stay /\ b \in Stay /\ candidate[a] = Row(a) /\ candidate[b] = Row(b)
      BY <1>7, <2>1, <2>5
    <3>2. b # a /\ TimesOverlap(candidate[a], candidate[b])
      BY <1>7, <2>2, ConflictingIs
    <3>3. /\ Row(a).start = turn.day[a].start /\ Row(a).end = turn.day[a].end
          /\ Row(b).start = turn.day[b].start /\ Row(b).end = turn.day[b].end
      BY <3>1, RowIs
    <3>4. TimesOverlap(turn.day[a], turn.day[b])
      BY <3>1, <3>2, <3>3 DEF TimesOverlap
    <3> QED
      BY <3>1, <3>2, <3>4, TurnIs, IdsAre DEF Disjoint, Typed
  <2> QED
    BY <2>3, <2>4, <2>5
<1>9. Disjoint(candidate)
  BY <1>7, <1>8, SweepIsTrue
<1>10. Bounded'
  BY <1>1, <1>2, <1>5, <1>9 DEF Bounded, Disjoint
<1> QED
  BY <1>3, <1>4, <1>10 DEF Judged

\* The earliest start is not before the window, nor, when anything fits after it, before now.
LEMMA BaseIs ==
    ASSUME Ordinary, Typed
    PROVE  /\ Base \in Int /\ turn.window.start <= Base
           /\ Base < turn.window.end /\ turn.now.today =>
                 /\ turn.now.minutes <= Base
                 /\ turn.now.leftover => turn.now.minutes < Base
<1>1. Proper(turn) /\ WindowOf(turn.window)
  BY TurnIs DEF Typed
<1>2. PICK ws \in Int, we \in Int : ws = turn.window.start /\ we = turn.window.end
  BY <1>1 DEF WindowOf
<1>3. PICK minutes \in Int : minutes = turn.now.minutes
  BY <1>1, TurnIs DEF Proper, Typed
<1>4. PICK up : up = IF OnGrid(minutes) /\ ~turn.now.leftover THEN minutes
                     ELSE GridDown(minutes) + Grid
  OBVIOUS
<1>5. /\ up \in Int /\ minutes <= up
      /\ turn.now.leftover => minutes < up
  <2>1. PICK g \in Int : g = GridDown(minutes) /\ g <= minutes /\ minutes < g + Grid
    BY GridDownIs DEF Ordinary
  <2> QED
    BY <1>4, <2>1 DEF Ordinary
<1>6. EarliestStart = IF ~turn.now.today THEN ws
                      ELSE IF up >= DayMinutes \/ minutes >= we THEN we
                      ELSE Later(up, ws)
  BY <1>2, <1>3, <1>4 DEF EarliestStart
<1>7. PICK e \in Int : e = EarliestStart
  BY <1>2, <1>5, <1>6 DEF Later
<1>8. Base = IF e < ws THEN ws ELSE e
  BY <1>2, <1>7 DEF Base, Later
<1>9. PICK b \in Int : b = Base /\ ws <= b
  BY <1>2, <1>7, <1>8
<1>10. b < we /\ turn.now.today => up <= b
  BY <1>2, <1>5, <1>6, <1>7, <1>8, <1>9 DEF Later
<1>11. b < we /\ turn.now.today =>
           minutes <= b /\ (turn.now.leftover => minutes < b)
  BY <1>5, <1>9, <1>10
<1> QED
  BY <1>2, <1>3, <1>9, <1>11

\* "no_slot" for one addition.
NoSlotFor(i) ==
    \A c \in Base..(turn.window.end - Length(actions[i])) : OnGrid(c) =>
        /\ ~Clear(candidate, c, Length(actions[i]), turn.gap)
        /\ c = Base => ~Clear(candidate, c, Length(actions[i]), 0)

\* NoSlotIsTrue, one addition at a time, in this state and in the next.
LEMMA NoSlotIs ==
    NoSlotIsTrue <=> \A i \in Untimed : TempId(i) \in DOMAIN rejected => NoSlotFor(i)
BY DEF NoSlotIsTrue, NoSlotFor, Clear

LEMMA NoSlotIsPrime ==
    NoSlotIsTrue' <=> \A i \in Untimed' : TempId(i) \in DOMAIN rejected' => NoSlotFor(i)'
BY DEF NoSlotIsTrue, NoSlotFor, Clear

\* An addition that is waiting either gets a place that every check accepts, or there is none.
LEMMA PlaceNextIs ==
    ASSUME Ordinary, Typed, Read, Judged, PlaceNext
    PROVE  \E i \in Waiting : LET id == TempId(i) IN
             \/ /\ \E block \in Blocks :
                      /\ candidate' = Put(candidate, id, block)
                      /\ OnGrid(block.start) /\ OnGrid(block.end) /\ Base <= block.start
                      /\ block.end = block.start + Length(actions[i])
                      /\ block.end <= turn.window.end
                      /\ Disjoint(Put(candidate, id, block))
                /\ accepted' = accepted \union {id} /\ rejected' = rejected
             \/ /\ rejected' = Put(rejected, id, Refusal("no_slot", {}))
                /\ NoSlotFor(i)
                /\ candidate' = candidate /\ accepted' = accepted
<1>1. phase = "place" /\ Waiting # {}
  BY DEF PlaceNext
<1>2. Sorted /\ Built /\ Vetted /\ Bounded /\ Disjoint(candidate)
  BY <1>1 DEF Judged, Bounded
<1>3. PICK i : i = Min(Waiting)
  OBVIOUS
<1>4. i \in Waiting /\ i \in Untimed
  <2>1. Waiting \in SUBSET (1..Len(actions)) /\ Len(actions) \in Nat
    BY IdsAre DEF Waiting, Untimed, Typed
  <2>2. 1 \in Int /\ Len(actions) \in Int
    BY <2>1
  <2>3. Min(Waiting) \in Waiting
    BY ONLY <1>1, <2>1, <2>2, MinIs
  <2> QED
    BY <1>3, <2>3 DEF Waiting
<1>5. PICK id : id = TempId(i)
  OBVIOUS
<1>6. id \in Int /\ id < 0 /\ id \notin accepted /\ id \notin DOMAIN candidate
  <2>1. id \in AutoIds /\ id \notin accepted
    BY <1>4, <1>5, IdsAre DEF Waiting
  <2>2. id \in Int /\ id < 0
    BY <2>1, IdsAre
  <2>3. id \notin Stay
    BY <2>2, IdsAre
  <2> QED
    BY <1>2, <2>1, <2>2, <2>3 DEF Built
<1>7. PICK length \in Nat \ {0} : length = Length(actions[i]) /\ OnGrid(length)
  BY <1>4, LengthIs
<1>8. PICK label \in STRING : label = actions[i].label
  BY <1>4, LengthIs
<1>9. PICK base \in Int : base = Base /\ turn.window.start <= base
  BY BaseIs
<1>10. /\ WindowOf(turn.window) /\ turn.window.start \in Times /\ turn.window.end \in Times
       /\ turn.gap \in Nat /\ Times \subseteq Int
  BY TurnIs DEF Typed
<1>11. /\ DayOf(candidate)
       /\ \A x \in DOMAIN candidate : candidate[x] \in Blocks /\ candidate[x].start \in Times
  BY <1>2, DayIs, BlocksAre
<1>12. PICK start : start = IF base + length <= turn.window.end
                            THEN AutoSlot(candidate, base, length, turn.gap) ELSE None
  OBVIOUS
<1>13. PICK block : block = [start |-> start, end |-> start + length, label |-> label]
  OBVIOUS
<1>14. PICK verdict : verdict = Verdict(block, Policy("ai"), turn.window, Both(TRUE), Both(TRUE))
  OBVIOUS
<1>15. PICK day : day = Put(candidate, id, Settled(block, Policy("ai"), turn.window, Both(TRUE)))
  OBVIOUS
<1>16. PICK clash \in BOOLEAN : clash = \E p \in Overlaps(day) : id \in {p[1], p[2]}
  OBVIOUS
<1>17. PICK refusal : refusal = IF start = None THEN "no_slot"
                                ELSE IF verdict # "ok" THEN verdict
                                ELSE IF clash THEN "overlap" ELSE "ok"
  OBVIOUS
<1>18. \/ /\ refusal = "ok" /\ candidate' = day
          /\ accepted' = accepted \union {id} /\ rejected' = rejected
       \/ /\ refusal # "ok" /\ rejected' = Put(rejected, id, Refusal(refusal, {}))
          /\ candidate' = candidate /\ accepted' = accepted
  BY <1>3, <1>5, <1>7, <1>8, <1>9, <1>12, <1>13, <1>14, <1>15, <1>16, <1>17
     DEF PlaceNext, HasRoom
<1>19. start # None =>
           /\ start \in Int /\ OnGrid(start) /\ base <= start
           /\ start + length <= turn.window.end /\ Clear(candidate, start, length, 0)
  BY <1>7, <1>9, <1>10, <1>11, <1>12, AutoSlotIs
<1>20. CASE start = None
  <2>1. rejected' = Put(rejected, id, Refusal("no_slot", {}))
        /\ candidate' = candidate /\ accepted' = accepted
    BY <1>17, <1>18, <1>20
  <2>2. NoSlotFor(i)
    <3>1. CASE base + length <= turn.window.end
      <4>1. AutoSlot(candidate, base, length, turn.gap) = None
        BY <1>12, <1>20, <3>1
      <4>2. \A c \in base..(turn.window.end - length) : OnGrid(c) =>
                /\ ~Clear(candidate, c, length, turn.gap)
                /\ c = base => ~Clear(candidate, c, length, 0)
        BY <1>7, <1>9, <1>10, <1>11, <3>1, <4>1, AutoSlotIs
      <4> QED
        BY <1>7, <1>9, <4>2 DEF NoSlotFor
    <3>2. CASE ~(base + length <= turn.window.end)
      <4>1. \A c \in base..(turn.window.end - length) : FALSE
        <5>1. PICK we \in Int : we = turn.window.end /\ ~(base + length <= we)
          BY <1>10, <3>2
        <5> QED
          BY <5>1
      <4> QED
        BY <1>7, <1>9, <4>1 DEF NoSlotFor
    <3> QED
      BY <3>1, <3>2
  <2> QED
    BY <1>4, <1>5, <2>1, <2>2
<1>21. CASE start # None
  <2>1. /\ start \in Int /\ OnGrid(start) /\ base <= start
        /\ start + length <= turn.window.end /\ Clear(candidate, start, length, 0)
    BY <1>19, <1>21
  <2>2. PICK end \in Int : end = start + length /\ start < end /\ OnGrid(end)
    BY <1>7, <2>1, GridSum DEF Ordinary
  <2>3. start \in Times /\ end \in Times
    BY <1>9, <1>10, <2>1, <2>2 DEF Times, Ordinary
  <2>4. block \in Blocks /\ block.start = start /\ block.end = end
    BY <1>13, <2>2, <2>3 DEF Blocks
  <2>5. Clean(block, turn.window, Both(TRUE))
    BY <1>9, <1>10, <2>1, <2>2, <2>4 DEF Clean, Both, InWindow, WindowOf
  <2>6. verdict = "ok" /\ Settled(block, Policy("ai"), turn.window, Both(TRUE)) = block
    <3>1. FlagsOf(Both(TRUE)) /\ BlockOf(block)
      BY <2>4, BlocksAre DEF FlagsOf, Both
    <3> QED
      BY <1>10, <1>14, <2>5, <3>1, BlocksRanged, CleanIsOk
  <2>7. day = Put(candidate, id, block)
    BY <1>15, <2>6
  <2>8. /\ DOMAIN day = DOMAIN candidate \union {id} /\ day[id] = block
        /\ \A x \in DOMAIN candidate : day[x] = candidate[x]
    BY <1>6, <2>7 DEF Put
  <2>9. ASSUME NEW x \in DOMAIN candidate
        PROVE  ~TimesOverlap(candidate[x], block) /\ ~TimesOverlap(block, candidate[x])
    <3>1. ~(start < candidate[x].end + 0 /\ start + length > candidate[x].start - 0)
      BY <2>1, ClearIs
    <3>2. candidate[x].start \in Int /\ candidate[x].end \in Int
      BY <1>11 DEF DayOf
    <3> QED
      BY <2>2, <2>4, <3>1, <3>2 DEF TimesOverlap
  <2>10. Disjoint(day)
    <3> SUFFICES ASSUME NEW x \in DOMAIN day, NEW y \in DOMAIN day, x # y
                 PROVE  ~TimesOverlap(day[x], day[y])
      BY DEF Disjoint
    <3>1. CASE x = id
      BY <2>8, <2>9, <3>1
    <3>2. CASE y = id
      BY <2>8, <2>9, <3>2
    <3>3. CASE x # id /\ y # id
      BY <1>2, <2>8, <3>3 DEF Disjoint
    <3> QED
      BY <3>1, <3>2, <3>3
  <2>11. ~clash
    <3>1. DayOf(day)
      BY <1>6, <1>11, <2>2, <2>4, <2>8, <2>1 DEF DayOf
    <3>2. Overlaps(day) = {}
      BY <2>10, <3>1, SweepIsTrue
    <3> QED
      BY <1>16, <3>2
  <2>12. refusal = "ok"
    BY <1>17, <1>21, <2>6, <2>11
  <2>13. /\ candidate' = Put(candidate, id, block)
         /\ accepted' = accepted \union {id} /\ rejected' = rejected
    BY <1>18, <2>7, <2>12
  <2>14. /\ OnGrid(block.start) /\ OnGrid(block.end) /\ Base <= block.start
         /\ block.end = block.start + Length(actions[i])
         /\ block.end <= turn.window.end
         /\ Disjoint(Put(candidate, id, block))
    BY <1>7, <1>9, <2>1, <2>2, <2>4, <2>7, <2>10
  <2> QED
    BY <1>4, <1>5, <2>4, <2>13, <2>14
<1> QED
  BY <1>20, <1>21

\* An addition is placed, or refused because there is no slot.
LEMMA PlaceNextKeeps ==
    ASSUME Ordinary, Typed, Read, Judged, PlaceNext
    PROVE  Judged'
<1>1. /\ phase = "place" /\ phase' = "place" /\ rounds' = rounds
      /\ turn' = turn /\ actions' = actions /\ updates' = updates
  BY DEF PlaceNext, reading
<1>2. Sorted /\ Built /\ Vetted /\ Explained /\ Bounded /\ rounds > 0
  BY <1>1 DEF Judged, Bounded
<1>3. /\ Retimed' = Retimed /\ AutoIds' = AutoIds /\ Stay' = Stay /\ Untimed' = Untimed
      /\ Base' = Base
      /\ \A x : /\ Row(x)' = Row(x) /\ Wanted(x)' = Wanted(x) /\ Action(x)' = Action(x)
                /\ Intrinsic(x, Requested[x])' = Intrinsic(x, Requested[x])
  BY <1>1, Same
<1>4. PICK i \in Waiting : LET id == TempId(i) IN
          \/ /\ \E block \in Blocks :
                   /\ candidate' = Put(candidate, id, block)
                   /\ OnGrid(block.start) /\ OnGrid(block.end) /\ Base <= block.start
                   /\ block.end = block.start + Length(actions[i])
                   /\ block.end <= turn.window.end
                   /\ Disjoint(Put(candidate, id, block))
             /\ accepted' = accepted \union {id} /\ rejected' = rejected
          \/ /\ rejected' = Put(rejected, id, Refusal("no_slot", {}))
             /\ NoSlotFor(i)
             /\ candidate' = candidate /\ accepted' = accepted
  BY PlaceNextIs
<1>5. PICK id : id = TempId(i)
  OBVIOUS
<1>6. /\ i \in Untimed /\ id \in AutoIds /\ id \notin accepted /\ id \notin DOMAIN rejected
      /\ id \in Int /\ id < 0 /\ id \notin Stay /\ id \notin Retimed
      /\ Action(id) = actions[i]
  <2>1. i \in Untimed /\ id \notin accepted /\ id \notin DOMAIN rejected
    BY <1>5 DEF Waiting
  <2>2. id \in AutoIds /\ Action(id) = actions[i]
    BY <1>5, <2>1, IdsAre
  <2>3. id \in Int /\ id < 0
    BY <2>2, IdsAre
  <2> QED
    BY <2>1, <2>2, <2>3, IdsAre, RetimedApart
<1>7. CASE /\ \E block \in Blocks :
                 /\ candidate' = Put(candidate, id, block)
                 /\ OnGrid(block.start) /\ OnGrid(block.end) /\ Base <= block.start
                 /\ block.end = block.start + Length(actions[i])
                 /\ block.end <= turn.window.end
                 /\ Disjoint(Put(candidate, id, block))
           /\ accepted' = accepted \union {id} /\ rejected' = rejected
  <2>1. PICK block \in Blocks :
            /\ candidate' = Put(candidate, id, block)
            /\ OnGrid(block.start) /\ OnGrid(block.end) /\ Base <= block.start
            /\ block.end = block.start + Length(actions[i])
            /\ block.end <= turn.window.end
            /\ Disjoint(Put(candidate, id, block))
    BY <1>7
  <2>2. id \notin DOMAIN candidate
    BY <1>2, <1>6 DEF Built
  <2>3. /\ DOMAIN candidate' = DOMAIN candidate \union {id} /\ candidate'[id] = block
        /\ \A x \in DOMAIN candidate : candidate'[x] = candidate[x]
        /\ candidate' = [x \in DOMAIN candidate' |-> candidate'[x]]
    BY <2>1, <2>2 DEF Put
  <2>4. Sorted'
    BY <1>1, <1>2, <1>3, <1>6, <1>7 DEF Sorted
  <2>5. Built'
    <3>1. candidate' \in [DOMAIN candidate' -> Blocks]
      <4>1. \A x \in DOMAIN candidate' : candidate'[x] \in Blocks
        BY <1>2, <2>3 DEF Built
      <4> QED
        BY <2>3, <4>1
    <3>2. DOMAIN candidate' = Stay' \union {x \in accepted' : x < 0}
      <4>1. {x \in accepted' : x < 0} = {x \in accepted : x < 0} \union {id}
        BY <1>6, <1>7
      <4> QED
        BY <1>2, <1>3, <2>3, <4>1 DEF Built
    <3>3. ASSUME NEW x \in accepted' \intersect Retimed' PROVE candidate'[x] = Wanted(x)'
      <4>1. x \in accepted \intersect Retimed
        BY <1>3, <1>6, <1>7
      <4>2. candidate[x] = Wanted(x) /\ x \in DOMAIN candidate
        BY <1>2, <4>1, RetimedApart DEF Built
      <4> QED
        BY <1>3, <2>3, <4>2
    <3>4. ASSUME NEW x \in Stay' \ accepted' PROVE candidate'[x] = Row(x)'
      <4>1. x \in Stay \ accepted
        BY <1>3, <1>7
      <4>2. candidate[x] = Row(x) /\ x \in DOMAIN candidate
        BY <1>2, <4>1 DEF Built
      <4> QED
        BY <1>3, <2>3, <4>2
    <3>5. ASSUME NEW x \in accepted' \intersect AutoIds' PROVE Placed(x)'
      <4>1. CASE x = id
        <5>1. candidate'[x] = block /\ Action(x)' = actions[i]
          BY <1>3, <1>6, <2>3, <4>1
        <5> QED
          BY <1>1, <1>3, <2>1, <5>1 DEF Placed
      <4>2. CASE x # id
        <5>1. x \in accepted \intersect AutoIds /\ Placed(x)
          BY <1>2, <1>3, <1>7, <4>2 DEF Built
        <5>2. x \in DOMAIN candidate
          BY <1>2, <5>1, IdsAre DEF Built
        <5>3. candidate'[x] = candidate[x]
          BY <2>3, <5>2
        <5> QED
          BY <1>1, <1>3, <5>1, <5>3 DEF Placed
      <4> QED
        BY <4>1, <4>2
    <3> QED
      BY <3>1, <3>2, <3>3, <3>4, <3>5 DEF Built
  <2>6. Vetted'
    BY <1>2, <1>3, <1>6, <1>7 DEF Vetted
  <2>7. Explained'
    <3>1. ASSUME NEW x, NEW b, InTheWay(x, b) PROVE InTheWay(x, b)'
      BY <1>3, <1>6, <1>7, <3>1 DEF InTheWay
    <3>2. ASSUME NEW x, NEW r, SharesFate(x, r) PROVE SharesFate(x, r)'
      BY <1>3, <1>7, <3>2 DEF SharesFate
    <3>3. NoSlotIsTrue'
      <4>1. ASSUME NEW j \in Untimed, NoSlotFor(j) PROVE NoSlotFor(j)'
        <5>1. ASSUME NEW c, NEW length, NEW gap, ~Clear(candidate, c, length, gap)
              PROVE  ~Clear(candidate', c, length, gap)
          BY <2>3, <5>1 DEF Clear
        <5> QED
          BY <1>1, <1>3, <4>1, <5>1 DEF NoSlotFor
      <4>2. \A j \in Untimed' : TempId(j) \in DOMAIN rejected' => NoSlotFor(j)'
        BY <1>2, <1>3, <1>7, <4>1, NoSlotIs DEF Explained
      <4> QED
        BY <4>2, NoSlotIsPrime
    <3> QED
      BY <1>2, <1>3, <1>7, <3>1, <3>2, <3>3 DEF Explained
  <2>8. Bounded'
    <3>1. Disjoint(candidate')
      BY <2>1
    <3> QED
      BY <1>1, <1>2, <3>1 DEF Bounded, Disjoint
  <2> QED
    BY <2>4, <2>5, <2>6, <2>7, <2>8 DEF Judged
<1>8. CASE /\ rejected' = Put(rejected, id, Refusal("no_slot", {}))
           /\ NoSlotFor(i)
           /\ candidate' = candidate /\ accepted' = accepted
  <2>1. /\ DOMAIN rejected' = DOMAIN rejected \union {id}
        /\ rejected'[id].reason = "no_slot"
        /\ \A x \in DOMAIN rejected : rejected'[x] = rejected[x]
    BY <1>6, <1>8 DEF Put, Refusal
  <2>2. Sorted'
    BY <1>1, <1>2, <1>3, <1>6, <1>8, <2>1 DEF Sorted
  <2>3. ASSUME NEW x, Placed(x) PROVE Placed(x)'
    BY <1>1, <1>3, <1>8, <2>3 DEF Placed
  <2>4. Built'
    BY <1>2, <1>3, <1>8, <2>3 DEF Built
  <2>5. Vetted'
    BY <1>2, <1>3, <1>8 DEF Vetted
  <2>6. Explained'
    <3>1. ASSUME NEW x, NEW b, InTheWay(x, b) PROVE InTheWay(x, b)'
      BY <1>3, <1>8, <3>1 DEF InTheWay
    <3>2. ASSUME NEW x, NEW r, SharesFate(x, r) PROVE SharesFate(x, r)'
      BY <1>3, <2>1, <3>2 DEF SharesFate
    <3>3. NoSlotIsTrue'
      <4>1. ASSUME NEW j \in Untimed, NoSlotFor(j) PROVE NoSlotFor(j)'
        BY <1>1, <1>3, <1>8, <4>1 DEF NoSlotFor
      <4>2. \A j \in Untimed : TempId(j) = id => j = i
        BY <1>5, <1>6, IdsAre DEF TempId
      <4>3. \A j \in Untimed' : TempId(j) \in DOMAIN rejected' => NoSlotFor(j)'
        BY <1>2, <1>3, <1>8, <2>1, <4>1, <4>2, NoSlotIs DEF Explained
      <4> QED
        BY <4>3, NoSlotIsPrime
    <3>4. ASSUME NEW x \in DOMAIN rejected' \intersect Retimed'
          PROVE  /\ x \in DOMAIN rejected \intersect Retimed /\ rejected'[x] = rejected[x]
      BY <1>3, <1>6, <2>1
    <3>5. ASSUME NEW x \in DOMAIN rejected' \intersect Retimed'
          PROVE  /\ rejected'[x].reason = "overlap" =>
                       /\ rejected'[x].blocks # {}
                       /\ \A b \in rejected'[x].blocks : InTheWay(x, b)'
                 /\ rejected'[x].reason = "unresolved_conflict" =>
                       \E r \in DOMAIN rejected' : SharesFate(x, r)'
      BY <1>2, <2>1, <3>1, <3>2, <3>4 DEF Explained
    <3>6. \A x \in DOMAIN rejected' \intersect AutoIds' : rejected'[x].reason = "no_slot"
      BY <1>2, <1>3, <2>1 DEF Explained
    <3> QED
      BY <3>3, <3>5, <3>6 DEF Explained
  <2>7. Bounded'
    BY <1>1, <1>2, <1>8 DEF Bounded, Disjoint
  <2> QED
    BY <2>2, <2>4, <2>5, <2>6, <2>7 DEF Judged
<1> QED
  BY <1>4, <1>5, <1>7, <1>8

\* Finishing changes the phase alone.
LEMMA FinishKeeps ==
    ASSUME Ordinary, Typed, Read, Judged, FinishPlan
    PROVE  Judged'
<1>1. /\ phase = "place" /\ phase' = "done"
      /\ turn' = turn /\ actions' = actions /\ updates' = updates /\ judging' = judging
      /\ accepted' = accepted /\ rejected' = rejected /\ candidate' = candidate
      /\ rounds' = rounds
  BY DEF FinishPlan, reading, judging
<1>2. Sorted /\ Built /\ Vetted /\ Explained /\ Bounded
  BY <1>1 DEF Judged
<1>3. Built' /\ Vetted' /\ Explained'
  BY <1>1, <1>2, JudgedStays
<1>4. Retimed' = Retimed /\ AutoIds' = AutoIds
  BY <1>1, Same
<1>5. Sorted'
  BY <1>1, <1>2, <1>4 DEF Sorted
<1>6. Bounded'
  BY <1>1, <1>2 DEF Bounded, Disjoint
<1> QED
  BY <1>3, <1>5, <1>6 DEF Judged

\* A step that changes nothing.
LEMMA StutterKeeps ==
    ASSUME Ordinary, Inv, UNCHANGED planVars
    PROVE  Inv'
<1>1. /\ turn' = turn /\ phase' = phase /\ actions' = actions /\ reading' = reading
      /\ judging' = judging
      /\ updates' = updates /\ chain' = chain /\ poisoned' = poisoned
      /\ accepted' = accepted /\ rejected' = rejected /\ candidate' = candidate
      /\ rounds' = rounds
  BY DEF planVars, reading, judging
<1>2. Retimed' = Retimed /\ AutoIds' = AutoIds /\ Stay' = Stay
  BY <1>1, Same
<1>3. Typed'
  BY <1>1, <1>2 DEF Inv, Typed
<1>4. \A id : LastTimed(id)' = LastTimed(id) /\ Effective(id)' = Effective(id)
  BY <1>1 DEF LastTimed, Effective
<1>5. Read'
  BY <1>1, <1>2, <1>4 DEF Inv, Read, Folded
<1>6. Unjudged'
  BY <1>1 DEF Inv, Unjudged
<1>7. ASSUME phase \in {"judge", "place", "done"}
      PROVE  Sorted' /\ Built' /\ Vetted' /\ Explained' /\ Bounded'
  <2>1. Sorted /\ Built /\ Vetted /\ Explained /\ Bounded
    BY <1>7 DEF Inv, Judged
  <2>2. Built' /\ Vetted' /\ Explained'
    BY <1>1, <2>1, JudgedStays
  <2>3. Sorted'
    BY <1>1, <1>2, <2>1 DEF Sorted
  <2>4. Bounded'
    BY <1>1, <2>1 DEF Bounded, Disjoint
  <2> QED
    BY <2>2, <2>3, <2>4
<1>8. Judged'
  BY <1>1, <1>7 DEF Judged
<1> QED
  BY <1>3, <1>5, <1>6, <1>8 DEF Inv

\* The invariant holds initially and is kept by every step.
LEMMA InvInit ==
    ASSUME Ordinary, PlanInit
    PROVE  Inv
<1>1. /\ turn \in Turns /\ phase = "read" /\ actions = <<>> /\ updates = <<>> /\ chain = <<>>
      /\ poisoned = {} /\ candidate = <<>> /\ accepted = {} /\ rejected = <<>> /\ rounds = 0
  BY DEF PlanInit
<1>2. DOMAIN updates = {} /\ DOMAIN chain = {} /\ DOMAIN actions = {} /\ Len(actions) = 0
  BY <1>1
<1>3. Typed
  <2>1. updates \in [DOMAIN updates -> UpdateRecords]
        /\ chain \in [DOMAIN chain -> [start : Times, end : Times]]
    BY <1>1, <1>2
  <2>2. actions \in Seq(turn.offers) /\ Len(actions) <= MaxActions
    BY <1>1 DEF Ordinary
  <2> QED
    BY <1>1, <1>2, <2>1, <2>2 DEF Typed
<1>4. Read
  <2>1. \A id : LastTimed(id) = 0
    BY <1>2, <1>3, LastTimedIs DEF Typed
  <2> QED
    BY <1>2, <2>1 DEF Read
<1>5. Unjudged /\ Judged
  BY <1>1 DEF Unjudged, Judged
<1> QED
  BY <1>3, <1>4, <1>5 DEF Inv

\* Every step of PlanNext.
LEMMA InvNext ==
    ASSUME Ordinary, Inv, PlanNext
    PROVE  Inv'
<1>1. Typed /\ Read /\ Unjudged /\ Judged
  BY DEF Inv
<1>2. ASSUME NEW a \in turn.offers, ReadAdd(a) \/ ReadRemove(a) \/ ReadChange(a) \/ Refuse(a)
      PROVE  Inv'
  <2>1. Typed' /\ Read'
    BY <1>1, <1>2, ReadAddKeeps, ReadRemoveKeeps, ReadChangeKeeps, RefuseKeeps
  <2>2. /\ phase = "read" /\ phase' \in {"read", "refused"} /\ judging' = judging
    BY <1>2 DEF ReadAdd, ReadRemove, ReadChange, Refuse, CanRead
  <2>3. Unjudged'
    BY <1>1, <2>2 DEF Unjudged, judging
  <2>4. Judged'
    BY <2>2 DEF Judged
  <2> QED
    BY <2>1, <2>3, <2>4 DEF Inv
<1>3. ASSUME Judge \/ RejectOverlaps \/ RejectRivals \/ EndRounds \/ PlaceNext \/ FinishPlan
      PROVE  Inv'
  <2>1. Judged'
    BY <1>1, <1>3, JudgeKeeps, RejectOverlapsKeeps, RejectRivalsKeeps, EndRoundsKeeps,
       PlaceNextKeeps, FinishKeeps
  <2>2. /\ turn' = turn /\ actions' = actions /\ reading' = reading
        /\ phase' \in {"judge", "place", "done"}
    BY <1>3 DEF Judge, RejectOverlaps, RejectRivals, Reject, EndRounds, PlaceNext, FinishPlan
  <2>3. updates' = updates /\ chain' = chain /\ poisoned' = poisoned
    BY <2>2 DEF reading
  <2>4. Stay' = Stay
    BY <2>2, <2>3, Same
  <2>5. Typed'
    BY <1>1, <2>2, <2>3, <2>4 DEF Typed
  <2>6. \A id : LastTimed(id)' = LastTimed(id) /\ Effective(id)' = Effective(id)
    BY <2>2, <2>3 DEF LastTimed, Effective
  <2>7. Read'
    BY <1>1, <2>2, <2>3, <2>4, <2>6 DEF Read, Folded
  <2>8. Unjudged'
    BY <2>2 DEF Unjudged
  <2> QED
    BY <2>1, <2>5, <2>7, <2>8 DEF Inv
<1> QED
  BY <1>2, <1>3 DEF PlanNext

-----------------------------------------------------------------------------
(* What follows from the invariant *)

\* The day of a turn that was not judged yet.
LEMMA EmptyDay == DOMAIN <<>> = {} /\ (<<>> = [x \in {} |-> 0])
OBVIOUS

\* What the invariant implies: first the types.
LEMMA TypeFollows ==
    ASSUME Ordinary, Inv
    PROVE  PlanTypeOK
<1>1. Typed /\ Read /\ Unjudged /\ Judged
  BY DEF Inv
<1>2. /\ Proper(turn) /\ DOMAIN updates \subseteq DOMAIN turn.day
      /\ \A id \in DOMAIN updates : Interval(updates[id])
      /\ DOMAIN chain \subseteq DOMAIN updates /\ \A id \in DOMAIN chain : Interval(chain[id])
      /\ poisoned \subseteq DOMAIN updates
  BY <1>1, TurnIs DEF Typed, Interval, UpdateRecords, Stay
<1>3. /\ DOMAIN candidate \subseteq DOMAIN turn.day \union {TempId(i) : i \in DOMAIN actions}
      /\ \A id \in DOMAIN candidate : Interval(candidate[id])
      /\ accepted \subseteq DOMAIN candidate
      /\ accepted \intersect DOMAIN rejected = {}
      /\ rounds \in 0..(MaxActions + 1)
  <2>1. CASE phase \in {"read", "refused"}
    <3>1. candidate = <<>> /\ accepted = {} /\ rejected = <<>> /\ rounds = 0
      BY <1>1, <2>1 DEF Unjudged
    <3> QED
      BY <3>1 DEF Ordinary
  <2>2. CASE phase \in {"judge", "place", "done"}
    <3>1. Sorted /\ Built /\ Vetted /\ Bounded
      BY <1>1, <2>2 DEF Judged
    <3>2. /\ \A id \in DOMAIN candidate : candidate[id] \in Blocks
          /\ DOMAIN candidate = Stay \union {id \in accepted : id < 0}
      BY <3>1 DEF Built
    <3>3. accepted \subseteq Retimed \union AutoIds
      BY <3>1 DEF Sorted
    <3>4. \A id \in Explicit \union AutoIds : \E i \in DOMAIN actions : id = TempId(i)
      BY <1>1, IdsAre DEF Explicit, AutoIds
    <3>5. \A id \in accepted : id \in Stay \/ (id \in Explicit \union AutoIds /\ id < 0)
      BY <1>1, <3>3, RetimedApart, IdsAre
    <3>6. DOMAIN candidate \subseteq DOMAIN turn.day \union {TempId(i) : i \in DOMAIN actions}
      <4> SUFFICES ASSUME NEW id \in DOMAIN candidate
                   PROVE  id \in DOMAIN turn.day \/ \E i \in DOMAIN actions : id = TempId(i)
        OBVIOUS
      <4> QED
        BY <1>1, <3>2, <3>4, <3>5, IdsAre
    <3>7. \A id \in DOMAIN candidate : Interval(candidate[id])
      BY <3>2 DEF Blocks, Interval
    <3> QED
      BY <3>1, <3>2, <3>5, <3>6, <3>7 DEF Sorted, Bounded
  <2> QED
    BY <1>1, <2>1, <2>2 DEF Typed
<1> QED
  BY <1>1, <1>2, <1>3 DEF PlanTypeOK, Typed

\* The day is free of overlaps and the loop had rounds left.
LEMMA DisjointFollows ==
    ASSUME Ordinary, Inv
    PROVE  PlanDisjoint /\ Converges
BY DEF Inv, Judged, Bounded, PlanDisjoint, Converges

\* Every interval that differs from the stored one is clean.
LEMMA CandidateIsClean ==
    ASSUME Ordinary, Typed, Read, Sorted, Built, Vetted, NEW id \in DOMAIN candidate
    PROVE  Clean(candidate[id], turn.window, ChangedEnds(turn.day, candidate, id))
<1>1. PICK ends : ends = ChangedEnds(turn.day, candidate, id)
  OBVIOUS
<1>2. /\ ends.start => (id \in DOMAIN turn.day => candidate[id].start # turn.day[id].start)
      /\ ends.end => (id \in DOMAIN turn.day => candidate[id].end # turn.day[id].end)
  BY <1>1 DEF ChangedEnds
<1>3. candidate[id].start < candidate[id].end
  BY DayIs DEF DayOf
<1>4. CASE id \in Stay \ accepted /\ candidate[id] = Row(id)
  <2>1. ~ends.start /\ ~ends.end
    BY <1>2, <1>4, RowIs, IdsAre
  <2> QED
    BY <1>1, <1>3, <2>1 DEF Clean
<1>5. CASE id \in accepted \intersect Retimed /\ candidate[id] = Wanted(id)
  <2>1. Clean(Wanted(id), turn.window, Changed(id))
    BY <1>5, VettedIs DEF Vetted
  <2>2. /\ ends.start => Changed(id).start
        /\ ends.end => Changed(id).end
    <3>1. CASE id \in Explicit
      BY <1>5, <3>1, FlagsAre
    <3>2. CASE id \in DOMAIN updates
      <4>1. PICK u : u = updates[id]
        OBVIOUS
      <4>2. /\ Changed(id).start = u.startSupplied
            /\ Changed(id).end = (u.endSupplied \/ u.bare \/ u.derived # None)
            /\ Clampable(id).start = u.startSupplied
            /\ Clampable(id).end = u.endSupplied
        BY <1>5, <3>2, <4>1, FlagsAre
      <4>3. Requested[id].start = u.start /\ Requested[id].end = u.end
        BY <3>2, <4>1, RequestedIs, IdsAre
      <4>4. /\ ~u.startSupplied => u.start = turn.day[id].start
            /\ ~u.endSupplied /\ ~u.bare /\ u.derived = None => u.end = turn.day[id].end
        BY <3>2, <4>1 DEF Read, Folded
      <4>5. /\ ~u.startSupplied => Wanted(id).start = u.start
            /\ ~u.endSupplied => Wanted(id).end = u.end
        BY <1>5, <4>2, <4>3, WantedIs
      <4>6. id \in DOMAIN turn.day
        BY <3>2, IdsAre
      <4> QED
        BY <1>2, <1>5, <4>2, <4>4, <4>5, <4>6
    <3> QED
      BY <1>5, <3>1, <3>2, IdsAre
  <2> QED
    BY <1>1, <1>5, <2>1, <2>2 DEF Clean
<1>6. CASE id \in accepted \intersect AutoIds /\ Placed(id)
  <2>1. /\ OnGrid(candidate[id].start) /\ OnGrid(candidate[id].end)
        /\ Base <= candidate[id].start /\ candidate[id].end <= turn.window.end
    BY <1>6 DEF Placed
  <2>2. InWindow(candidate[id].start, turn.window) /\ InWindow(candidate[id].end, turn.window)
    <3>1. PICK s \in Int, e \in Int : s = candidate[id].start /\ e = candidate[id].end /\ s < e
      BY <1>3, DayIs DEF DayOf
    <3>2. PICK ws \in Int, we \in Int, b \in Int :
              ws = turn.window.start /\ we = turn.window.end /\ b = Base /\ ws <= b
      BY BaseIs, TurnIs DEF WindowOf, Typed
    <3>3. ws <= s /\ s <= we /\ ws <= e /\ e <= we
      BY <2>1, <3>1, <3>2
    <3> QED
      BY <3>1, <3>2, <3>3 DEF InWindow
  <2> QED
    BY <1>1, <1>3, <2>1, <2>2 DEF Clean
<1> QED
  BY <1>4, <1>5, <1>6, DayIs

\* The day passes for one that a person asked for.
LEMMA ManualFollows ==
    ASSUME Ordinary, Inv
    PROVE  ManualAgrees
<1> SUFFICES ASSUME phase = "done"
             PROVE  Commanded(turn.day, candidate, "manual", turn.window)
                        = [accepted |-> TRUE, day |-> candidate]
  BY DEF ManualAgrees
<1>1. Typed /\ Read /\ Sorted /\ Built /\ Vetted /\ Disjoint(candidate)
  BY DEF Inv, Judged, Bounded
<1>2. candidate \in [DOMAIN candidate -> [start : Int, end : Int, label : STRING]]
  <2>1. \A id \in DOMAIN candidate : candidate[id] \in [start : Int, end : Int, label : STRING]
    BY <1>1, DayIs, BlocksAre DEF BlockOf
  <2>2. candidate = [id \in DOMAIN candidate |-> candidate[id]]
    BY <1>1 DEF Built
  <2> QED
    BY <2>1, <2>2
<1>3. DOMAIN candidate \subseteq Int /\ WindowOf(turn.window)
  BY <1>1, DayIs, TurnIs DEF DayOf, Typed
<1>4. \A id \in DOMAIN candidate :
          Clean(candidate[id], turn.window, ChangedEnds(turn.day, candidate, id))
  BY <1>1, CandidateIsClean
<1>5. "manual" \in {"manual", "ai"}
  OBVIOUS
<1>6. PICK before, after, window :
          before = turn.day /\ after = candidate /\ window = turn.window
  OBVIOUS
<1>7. /\ after \in [DOMAIN after -> [start : Int, end : Int, label : STRING]]
      /\ DOMAIN after \subseteq Int /\ WindowOf(window) /\ Disjoint(after)
      /\ \A id \in DOMAIN after : Clean(after[id], window, ChangedEnds(before, after, id))
  BY <1>1, <1>2, <1>3, <1>4, <1>6
<1>8. after = [id \in DOMAIN after |-> after[id]] /\ \A id \in DOMAIN after : Ranged(after[id])
  BY <1>7, BlocksRanged DEF BlockOf
<1>9. Commanded(before, after, "manual", window) = [accepted |-> TRUE, day |-> after]
  BY ONLY Ordinary, <1>5, <1>7, <1>8, CommandedIs
<1> QED
  BY <1>6, <1>9

\* A duration is kept to the minute.
LEMMA DurationFollows ==
    ASSUME Ordinary, Inv
    PROVE  DurationExact
<1> SUFFICES ASSUME phase = "done", NEW id \in DOMAIN updates \intersect accepted,
                    LastTimed(id) # 0, Sized(actions[LastTimed(id)]),
                    actions[LastTimed(id)].duration # None
             PROVE  candidate[id].end - candidate[id].start = actions[LastTimed(id)].duration
  BY DEF DurationExact
<1>1. Typed /\ Read /\ Sorted /\ Built /\ Vetted
  BY DEF Inv, Judged
<1>2. id \in Retimed
  <2>1. id \notin AutoIds
    BY <1>1, IdsAre
  <2> QED
    BY <1>1, <2>1 DEF Sorted
<1>3. candidate[id] = Wanted(id) /\ Intrinsic(id, Requested[id]) = "ok"
  BY <1>1, <1>2 DEF Built, Vetted
<1>4. PICK u \in UpdateRecords : u = updates[id]
  BY <1>1 DEF Typed
<1>5. PICK n : n = actions[LastTimed(id)].duration
  OBVIOUS
<1>6. n \in Nat \ {0}
  <2>1. PICK a : a = actions[LastTimed(id)]
    OBVIOUS
  <2>2. WellFormed(a)
    <3>1. LastTimed(id) \in DOMAIN actions
      BY <1>1, LastTimedIs DEF Typed
    <3>2. a \in turn.offers
      BY <1>1, <2>1, <3>1 DEF Typed
    <3> QED
      BY <1>1, <3>2, TurnIs DEF Typed, Proper
  <2>3. a.duration # None => a.duration \in Nat \ {0}
    BY <2>2 DEF WellFormed
  <2> QED
    BY <1>5, <2>1, <2>3
<1>7. /\ u.derived # None /\ u.derived = u.start + n
      /\ ~u.endSupplied /\ u.end = Earlier(Later(u.derived, 0), DayMinutes - 1)
  BY <1>1, <1>4, <1>5 DEF Read, Folded
<1>8. DurationVerdict(u) = "ok"
  BY <1>1, <1>2, <1>3, <1>4, <1>7, VettedIs
<1>9. PICK ws \in Int : ws = turn.window.start
  BY <1>1, TurnIs DEF WindowOf, Typed
<1>10. u.derived \in Int /\ u.start \in Times /\ u.start \in Int
  BY <1>4, <1>7 DEF UpdateRecords, Times, Ordinary
<1>11. /\ ~(u.startSupplied /\ u.start < ws)
       /\ u.derived < DayMinutes
  <2>1. ~(u.startSupplied /\ u.start < ws)
    BY <1>8, <1>9 DEF DurationVerdict
  <2>2. ~(u.derived >= DayMinutes)
    BY <1>8 DEF DurationVerdict
  <2> QED
    BY <1>10, <2>1, <2>2 DEF Ordinary
<1>12. u.end = u.derived
  <2>1. u.derived >= 0
    BY <1>6, <1>7, <1>10 DEF Times, Ordinary
  <2> QED
    BY <1>7, <1>10, <1>11, <2>1 DEF Earlier, Later, Ordinary
<1>13. Requested[id].start = u.start /\ Requested[id].end = u.end
  BY <1>1, <1>4, RequestedIs, IdsAre
<1>14. Clampable(id).start = u.startSupplied /\ Clampable(id).end = u.endSupplied
  BY <1>1, <1>2, <1>4, FlagsAre
<1>15. Wanted(id).start = u.start /\ Wanted(id).end = u.end
  BY <1>1, <1>2, <1>7, <1>9, <1>10, <1>11, <1>13, <1>14, WantedIs DEF Later
<1> QED
  BY <1>3, <1>5, <1>6, <1>7, <1>10, <1>12, <1>15

\* A placed addition lies in the window, ahead of the clock.
LEMMA PlacedFollows ==
    ASSUME Ordinary, Inv
    PROVE  PlacedAhead
<1> SUFFICES ASSUME NEW i \in Untimed, TempId(i) \in DOMAIN candidate,
                    NEW b, b = candidate[TempId(i)]
             PROVE  /\ InWindow(b.start, turn.window) /\ InWindow(b.end, turn.window)
                    /\ b.end - b.start = Length(actions[i])
                    /\ turn.now.today =>
                          /\ b.start >= turn.now.minutes
                          /\ turn.now.leftover => b.start > turn.now.minutes
  BY DEF PlacedAhead
<1>1. phase \in {"judge", "place", "done"}
  <2>1. DOMAIN candidate # {}
    OBVIOUS
  <2> QED
    BY <2>1, EmptyDay DEF Inv, Typed, Unjudged
<1>2. Typed /\ Read /\ Sorted /\ Built /\ Vetted
  BY <1>1 DEF Inv, Judged
<1>3. TempId(i) \in AutoIds /\ Action(TempId(i)) = actions[i]
  BY <1>2, IdsAre
<1>4. TempId(i) \in accepted
  BY <1>2, <1>3, IdsAre DEF Built
<1>5. PICK n \in Nat \ {0} : n = Length(actions[i])
  BY <1>2, LengthIs
<1>6. PICK s \in Int, e \in Int : s = b.start /\ e = b.end
  BY <1>2, DayIs DEF DayOf
<1>7. Base <= s /\ e = s + n /\ e <= turn.window.end
  BY <1>2, <1>3, <1>4, <1>5, <1>6 DEF Built, Placed
<1>8. PICK ws \in Int, we \in Int, base \in Int :
          ws = turn.window.start /\ we = turn.window.end /\ base = Base /\ ws <= base
  BY <1>2, BaseIs, TurnIs DEF WindowOf, Typed
<1>9. base <= s /\ base < we /\ ws <= s /\ s <= we /\ ws <= e /\ e <= we
  BY <1>5, <1>7, <1>8
<1>10. InWindow(b.start, turn.window) /\ InWindow(b.end, turn.window)
  BY <1>6, <1>8, <1>9 DEF InWindow
<1>11. turn.now.today => /\ s >= turn.now.minutes
                         /\ turn.now.leftover => s > turn.now.minutes
  <2>1. PICK minutes \in Int : minutes = turn.now.minutes
    BY <1>2, TurnIs DEF Proper, Typed
  <2>2. turn.now.today => minutes <= base /\ (turn.now.leftover => minutes < base)
    BY <1>2, <1>8, <1>9, <2>1, BaseIs
  <2> QED
    BY <1>9, <2>1, <2>2
<1> QED
  BY <1>5, <1>6, <1>7, <1>10, <1>11

\* No slot is refused that was there.
LEMMA NoSlotFollows ==
    ASSUME Ordinary, Inv
    PROVE  NoSlotIsTrue
<1>1. CASE phase \in {"read", "refused"}
  <2>1. DOMAIN rejected = {}
    BY <1>1, EmptyDay DEF Inv, Unjudged
  <2> QED
    BY <2>1 DEF NoSlotIsTrue
<1>2. CASE phase \in {"judge", "place", "done"}
  BY <1>2 DEF Inv, Judged, Explained
<1> QED
  BY <1>1, <1>2 DEF Inv, Typed
\* A block of the day with other ends.
LEMMA MovedIs ==
    ASSUME NEW block, BlockOf(block), NEW s \in Int, NEW e \in Int
    PROVE  [block EXCEPT !.start = s, !.end = e]
                = [start |-> s, end |-> e, label |-> block.label]
<1>1. PICK f : f = [block EXCEPT !.start = s, !.end = e]
  OBVIOUS
<1>2. f \in [start : {s}, end : {e}, label : {block.label}]
  BY <1>1 DEF BlockOf
<1>3. f = [start |-> f.start, end |-> f.end, label |-> f.label]
  BY <1>2
<1> QED
  BY <1>1, <1>2, <1>3

\* A clean place that is free of the other blocks may be taken by a block of the day.
LEMMA FreePlaceIs ==
    ASSUME Ordinary, WindowOf(turn.window), NEW day,
           day \in [DOMAIN day -> [start : Int, end : Int, label : STRING]], DayOf(day),
           Disjoint(day), NEW id \in DOMAIN day, NEW s \in Int, NEW e \in Int, s < e,
           OnGrid(s), OnGrid(e), turn.window.start <= s, e <= turn.window.end,
           \A o \in Intervals(Drop(day, id)) : ~TimesOverlap([start |-> s, end |-> e], o)
    PROVE  Commanded(day, Put(day, id, [day[id] EXCEPT !.start = s, !.end = e]),
                     "ai", turn.window).accepted
<1>1. PICK after : after = Put(day, id, [day[id] EXCEPT !.start = s, !.end = e])
  OBVIOUS
<1>2. PICK block : block = [start |-> s, end |-> e, label |-> day[id].label]
  OBVIOUS
<1>3. BlockOf(day[id])
  BY DEF BlockOf
<1>4. BlockOf(block) /\ block.start = s /\ block.end = e
  BY <1>2, <1>3 DEF BlockOf
<1>5. [day[id] EXCEPT !.start = s, !.end = e] = block
  BY <1>2, <1>3, MovedIs
<1>6. /\ after \in [DOMAIN after -> [start : Int, end : Int, label : STRING]]
      /\ DOMAIN after = DOMAIN day /\ after[id] = block
      /\ \A x \in DOMAIN day : x # id => after[x] = day[x]
  <2>1. after = [y \in DOMAIN day |-> IF y = id THEN block ELSE day[y]]
    BY <1>1, <1>5 DEF Put
  <2>2. block \in [start : Int, end : Int, label : STRING]
    BY <1>4 DEF BlockOf
  <2> QED
    BY <2>1, <2>2
<1>7. \A x \in DOMAIN day : x # id =>
          ~TimesOverlap(after[id], after[x]) /\ ~TimesOverlap(after[x], after[id])
  <2> SUFFICES ASSUME NEW x \in DOMAIN day, x # id
               PROVE  ~TimesOverlap(block, day[x]) /\ ~TimesOverlap(day[x], block)
    BY <1>6
  <2>1. [start |-> day[x].start, end |-> day[x].end] \in Intervals(Drop(day, id))
    <3>1. x \in DOMAIN Drop(day, id) /\ Drop(day, id)[x] = day[x]
      BY DEF Drop
    <3> QED
      BY <3>1 DEF Intervals
  <2>2. ~TimesOverlap([start |-> s, end |-> e], [start |-> day[x].start, end |-> day[x].end])
    BY <2>1
  <2> QED
    BY <1>4, <2>2 DEF TimesOverlap, DayOf
<1>8. Disjoint(after)
  <2>1. \A x, y \in DOMAIN day : x # id /\ y # id /\ x # y => ~TimesOverlap(after[x], after[y])
    BY <1>6 DEF Disjoint
  <2> QED
    BY <1>6, <1>7, <2>1 DEF Disjoint
<1>9. \A x \in DOMAIN after : Clean(after[x], turn.window, ChangedEnds(day, after, x))
  <2> SUFFICES ASSUME NEW x \in DOMAIN after, NEW ends, ends = ChangedEnds(day, after, x)
               PROVE  Clean(after[x], turn.window, ends)
    OBVIOUS
  <2>1. CASE x = id
    <3>1. PICK ws \in Int, we \in Int : ws = turn.window.start /\ we = turn.window.end
      BY DEF WindowOf
    <3>2. ws <= s /\ s <= we /\ ws <= e /\ e <= we
      BY <3>1
    <3> QED
      BY <1>4, <1>6, <2>1, <3>1, <3>2 DEF Clean, InWindow
  <2>2. CASE x # id
    <3>1. ~ends.start /\ ~ends.end
      BY <1>6, <2>2 DEF ChangedEnds
    <3> QED
      BY <1>6, <2>2, <3>1 DEF Clean, DayOf
  <2> QED
    BY <2>1, <2>2
<1>10. DOMAIN after \subseteq Int
  BY <1>6 DEF DayOf
<1>11. PICK window : window = turn.window
  OBVIOUS
<1>12. /\ WindowOf(window)
       /\ \A x \in DOMAIN after : Clean(after[x], window, ChangedEnds(day, after, x))
  BY <1>9, <1>11
<1>13. "ai" \in {"manual", "ai"}
  OBVIOUS
<1>14. after = [x \in DOMAIN after |-> after[x]] /\ \A x \in DOMAIN after : Ranged(after[x])
  BY <1>6, BlocksRanged DEF BlockOf
<1>15. Commanded(day, after, "ai", window) = [accepted |-> TRUE, day |-> after]
  BY ONLY Ordinary, <1>8, <1>10, <1>12, <1>13, <1>14, CommandedIs
<1> QED
  BY <1>1, <1>11, <1>15

\* A suggestion is such a place.
LEMMA SuggestionFollows ==
    ASSUME Ordinary, Inv
    PROVE  SuggestionAcceptable
<1> SUFFICES ASSUME phase = "done", NEW id \in DOMAIN updates, NEW slot, slot = Suggestion(id),
                    slot # None, NEW u, u = updates[id]
             PROVE  Commanded(candidate,
                        Put(candidate, id,
                            [candidate[id] EXCEPT !.start = slot,
                                                  !.end = slot + u.end - u.start]),
                        "ai", turn.window).accepted
  BY DEF SuggestionAcceptable
<1>1. Typed /\ Read /\ Sorted /\ Built /\ Vetted /\ Disjoint(candidate)
  BY DEF Inv, Judged, Bounded
<1>2. candidate \in [DOMAIN candidate -> [start : Int, end : Int, label : STRING]]
  <2>1. \A x \in DOMAIN candidate : candidate[x] \in [start : Int, end : Int, label : STRING]
    BY <1>1, DayIs, BlocksAre DEF BlockOf
  <2>2. candidate = [x \in DOMAIN candidate |-> candidate[x]]
    BY <1>1 DEF Built
  <2> QED
    BY <2>1, <2>2
<1>3. DayOf(candidate) /\ WindowOf(turn.window) /\ id \in DOMAIN candidate
  BY <1>1, DayIs, TurnIs, IdsAre DEF Typed
<1>4. PICK us \in Int, ue \in Int : us = u.start /\ ue = u.end
  BY <1>1 DEF Typed, UpdateRecords, Times, Ordinary
<1>5. slot = Slot(Occupied(id), us, ue, u.direction)
  BY <1>4 DEF Suggestion
<1>6. PICK length \in Int : length = ue - us
  OBVIOUS
<1>7. /\ slot \in Int /\ OnGrid(slot) /\ length > 0 /\ OnGrid(length)
      /\ turn.window.start <= slot /\ slot + length <= turn.window.end
      /\ FreeAt(slot, length, Occupied(id))
  BY <1>3, <1>5, <1>6, SlotIs
<1>8. PICK e \in Int : e = slot + length
  BY <1>7
<1>9. OnGrid(e) /\ slot < e
  BY <1>7, <1>8, GridSum DEF Ordinary
<1>10. \A o \in Intervals(Drop(candidate, id)) : ~TimesOverlap([start |-> slot, end |-> e], o)
  BY <1>7, <1>8 DEF FreeAt, Occupied
<1>11. slot + u.end - u.start = e
  BY <1>4, <1>6, <1>7, <1>8
<1> QED
  BY <1>1, <1>2, <1>3, <1>7, <1>8, <1>9, <1>10, <1>11, FreePlaceIs

\* The blocks that a refusal names are where they were.
LEMMA OverlapReasonsFollow ==
    ASSUME Ordinary, Inv
    PROVE  OverlapReasonsTrue
<1> SUFFICES ASSUME phase = "done", NEW id \in DOMAIN rejected, id \notin AutoIds,
                    rejected[id].reason = "overlap"
             PROVE  /\ rejected[id].blocks # {}
                    /\ \A b \in rejected[id].blocks :
                          /\ b \in DOMAIN candidate
                          /\ candidate[b].start = turn.day[b].start
                          /\ TimesOverlap(candidate[b], Wanted(id))
  BY DEF OverlapReasonsTrue, AutoIds
<1>1. Typed /\ Read /\ Sorted /\ Built /\ Vetted /\ Explained
  BY DEF Inv, Judged
<1>2. id \in DOMAIN rejected \intersect Retimed
  BY <1>1 DEF Sorted
<1>3. rejected[id].blocks # {} /\ \A b \in rejected[id].blocks : InTheWay(id, b)
  BY <1>1, <1>2 DEF Explained
<1>4. ASSUME NEW b \in rejected[id].blocks
      PROVE  /\ b \in DOMAIN candidate
             /\ candidate[b].start = turn.day[b].start
             /\ TimesOverlap(candidate[b], Wanted(id))
  <2>1. b \in Stay /\ b \notin accepted /\ TimesOverlap(Row(b), Wanted(id))
    BY <1>3, <1>4 DEF InTheWay
  <2>2. candidate[b] = Row(b) /\ b \in DOMAIN candidate
    BY <1>1, <2>1 DEF Built
  <2> QED
    BY <1>1, <2>1, <2>2, RowIs
<1> QED
  BY <1>3, <1>4

\* Rivals share their fate.
LEMMA RivalsFollow ==
    ASSUME Ordinary, Inv
    PROVE  RivalsShareFate
<1> SUFFICES ASSUME phase = "done", NEW id \in DOMAIN rejected,
                    rejected[id].reason = "unresolved_conflict"
             PROVE  \E r \in DOMAIN rejected \ {id} :
                        /\ rejected[r].reason = "unresolved_conflict"
                        /\ TimesOverlap(Wanted(id), Wanted(r))
  BY DEF RivalsShareFate
<1>1. Sorted /\ Explained
  BY DEF Inv, Judged
<1>2. id \notin AutoIds
  <2>1. "unresolved_conflict" # "no_slot"
    OBVIOUS
  <2> QED
    BY <1>1, <2>1 DEF Explained
<1>3. id \in DOMAIN rejected \intersect Retimed
  BY <1>1, <1>2 DEF Sorted
<1>4. PICK r \in DOMAIN rejected : SharesFate(id, r)
  BY <1>1, <1>3 DEF Explained
<1> QED
  BY <1>4 DEF SharesFate

\* The fields that an update asked for.
LEMMA AskedIs ==
    ASSUME Ordinary, Typed, NEW id \in DOMAIN updates
    PROVE  /\ id \in Retimed <=> TimeRequested(updates[id])
           /\ "start" \in AskedTimes(id) <=> id \in Retimed /\ Changed(id).start
           /\ "end" \in AskedTimes(id) <=> id \in Retimed /\ Changed(id).end
           /\ AskedTimes(id) # {} <=> id \in Retimed
           /\ "label" \notin AskedTimes(id)
<1>1. id \notin Explicit
  BY IdsAre
<1>2. id \in Retimed <=> TimeRequested(updates[id])
  BY <1>1 DEF Retimed
<1>3. PICK flags : flags = Changed(id)
  OBVIOUS
<1>4. CASE id \in Retimed
  <2>1. FlagsOf(flags)
    BY <1>3, <1>4, FlagsAre
  <2>2. AskedTimes(id) = {f \in DOMAIN flags : flags[f]}
    BY <1>2, <1>3, <1>4 DEF AskedTimes, Fields
  <2>3. DOMAIN flags = {"start", "end"}
    BY <2>1 DEF FlagsOf
  <2>4. flags.start \/ flags.end
    <3>1. /\ flags.start = updates[id].startSupplied
          /\ flags.end = (updates[id].endSupplied \/ updates[id].bare
                             \/ updates[id].derived # None)
      BY <1>3, <1>4, FlagsAre
    <3> QED
      BY <1>2, <1>4, <3>1 DEF TimeRequested
  <2>5. /\ "start" \in AskedTimes(id) <=> flags.start
        /\ "end" \in AskedTimes(id) <=> flags.end
        /\ "label" \notin AskedTimes(id)
    BY <2>2, <2>3
  <2> QED
    BY <1>2, <1>3, <1>4, <2>4, <2>5
<1>5. CASE id \notin Retimed
  <2>1. AskedTimes(id) = {}
    BY <1>2, <1>5 DEF AskedTimes
  <2> QED
    BY <1>2, <1>5, <2>1
<1> QED
  BY <1>4, <1>5

\* Where a block of the day ends up.
LEMMA OutcomeIs ==
    ASSUME Ordinary, Inv, phase = "done", NEW id \in DOMAIN updates
    PROVE  /\ SkippedFields(id) # {} =>
                 /\ candidate[id].start = turn.day[id].start
                 /\ candidate[id].end = turn.day[id].end
           /\ "start" \in AppliedFields(id) =>
                 candidate[id].start = Later(updates[id].start, turn.window.start)
           /\ "end" \in AppliedFields(id) =>
                 candidate[id].end = Earlier(updates[id].end, turn.window.end)
           /\ candidate[id].label = Labelled(id, updates[id])
<1>1. Typed /\ Read /\ Sorted /\ Built /\ Vetted
  BY DEF Inv, Judged
<1>2. id \in Stay
  BY <1>1, IdsAre
<1>3. candidate[id].label = Labelled(id, updates[id])
  BY <1>1, <1>2, DayIs, RowIs
<1>4. ASSUME SkippedFields(id) # {}
      PROVE  /\ candidate[id].start = turn.day[id].start
             /\ candidate[id].end = turn.day[id].end
  <2>1. id \in DOMAIN rejected
    BY <1>4 DEF SkippedFields
  <2>2. candidate[id] = Row(id)
    BY <1>1, <1>2, <2>1 DEF Sorted, Built
  <2> QED
    BY <1>1, <1>2, <2>2, RowIs
<1>5. ASSUME "start" \in AppliedFields(id) \/ "end" \in AppliedFields(id)
      PROVE  id \in accepted \intersect Retimed /\ candidate[id] = Wanted(id)
  <2>1. id \notin DOMAIN rejected /\ AskedTimes(id) # {}
    <3>1. "start" # "label" /\ "end" # "label"
      OBVIOUS
    <3> QED
      BY <1>5, <3>1 DEF AppliedFields
  <2>2. id \in Retimed
    BY <1>1, <2>1, AskedIs
  <2>3. id \in accepted
    BY <1>1, <2>1, <2>2 DEF Sorted
  <2> QED
    BY <1>1, <2>2, <2>3 DEF Built
<1>6. PICK u : u = updates[id]
  OBVIOUS
<1>7. Requested[id].start = u.start /\ Requested[id].end = u.end
  BY <1>1, <1>2, <1>6, RequestedIs
<1>8. ASSUME "start" \in AppliedFields(id)
      PROVE  candidate[id].start = Later(u.start, turn.window.start)
  <2>1. "start" \in AskedTimes(id)
    <3>1. "start" # "label"
      OBVIOUS
    <3> QED
      BY <1>8, <3>1 DEF AppliedFields
  <2>2. Clampable(id).start
    BY <1>1, <1>5, <1>8, <2>1, AskedIs, FlagsAre
  <2> QED
    BY <1>1, <1>5, <1>7, <1>8, <2>2, WantedIs
<1>9. ASSUME "end" \in AppliedFields(id)
      PROVE  candidate[id].end = Earlier(u.end, turn.window.end)
  <2>1. "end" \in AskedTimes(id)
    <3>1. "end" # "label"
      OBVIOUS
    <3> QED
      BY <1>9, <3>1 DEF AppliedFields
  <2>2. Changed(id).end /\ Intrinsic(id, Requested[id]) = "ok"
    BY <1>1, <1>5, <1>9, <2>1, AskedIs DEF Vetted
  <2>3. CASE Clampable(id).end
    BY <1>1, <1>5, <1>7, <1>9, <2>3, WantedIs
  <2>4. CASE ~Clampable(id).end
    <3>1. Requested[id].end <= turn.window.end
      BY <1>1, <1>5, <1>9, <2>2, <2>4, VettedIs
    <3>2. PICK e \in Int, we \in Int : e = u.end /\ we = turn.window.end
      BY <1>1, <1>6, TurnIs DEF Typed, UpdateRecords, Times, Ordinary, WindowOf
    <3>3. Earlier(e, we) = e
      BY <1>7, <3>1, <3>2 DEF Earlier
    <3> QED
      BY <1>1, <1>5, <1>7, <1>9, <2>4, <3>2, <3>3, WantedIs
  <2> QED
    BY <2>3, <2>4
<1> QED
  BY <1>3, <1>4, <1>6, <1>8, <1>9

\* A turn whose every outcome is "skipped" leaves the day as it was.
LEMMA SkippedIs ==
    ASSUME Ordinary, Inv, phase = "done", Overall = "skipped"
    PROVE  candidate = turn.day
<1>1. Typed /\ Read /\ Sorted /\ Built /\ Vetted
  BY DEF Inv, Judged
<1>2. /\ Statuses \intersect {"applied", "partial"} = {}
  <2>1. "applied" # "skipped" /\ "partial" # "skipped"
    OBVIOUS
  <2> QED
    BY <2>1 DEF Overall
<1>3. Removed = {}
  <2>1. ASSUME NEW b \in Removed PROVE FALSE
    <3>1. "applied" \in Statuses
      BY <2>1 DEF Statuses
    <3> QED
      BY <1>2, <3>1
  <2> QED
    BY <2>1
<1>4. Stay = DOMAIN turn.day
  BY <1>3 DEF Stay
<1>5. ASSUME NEW id \in DOMAIN updates
      PROVE  id \in DOMAIN rejected /\ updates[id].label = None
  <2>1. UpdateStatus(id) \notin {"applied", "partial"}
    <3>1. UpdateStatus(id) \in Statuses
      BY DEF Statuses
    <3> QED
      BY <1>2, <3>1
  <2>2. SkippedFields(id) # {} /\ AppliedFields(id) = {}
    BY <2>1 DEF UpdateStatus
  <2> QED
    BY <2>2 DEF SkippedFields, AppliedFields
<1>6. ASSUME NEW i \in Added
      PROVE  TempId(i) \in DOMAIN rejected
  <2>1. CreateStatus(i) \in Statuses
    BY DEF Statuses
  <2>2. CreateStatus(i) # "applied"
    BY <1>2, <2>1
  <2> QED
    BY <2>2 DEF CreateStatus
<1>7. \A id \in accepted : FALSE
  <2> SUFFICES ASSUME NEW id \in accepted PROVE FALSE
    OBVIOUS
  <2>1. id \in Retimed \union AutoIds /\ id \notin DOMAIN rejected
    BY <1>1 DEF Sorted
  <2>2. id \in DOMAIN updates \/ \E i \in Added : id = TempId(i)
    BY <1>1, <2>1, IdsAre DEF Explicit, AutoIds
  <2> QED
    BY <1>5, <1>6, <2>1, <2>2
<1>8. DOMAIN candidate = DOMAIN turn.day
  BY <1>1, <1>4, <1>7 DEF Built
<1>9. ASSUME NEW id \in DOMAIN turn.day
      PROVE  candidate[id] = turn.day[id]
  <2>1. id \in Stay \ accepted
    BY <1>4, <1>7
  <2>2. candidate[id] = Row(id)
    BY <1>1, <2>1 DEF Built
  <2>3. Row(id).label = turn.day[id].label
    BY <1>1, <1>5, <2>1, RowIs DEF Labelled
  <2>4. Row(id).start = turn.day[id].start /\ Row(id).end = turn.day[id].end /\ Row(id) \in Blocks
    BY <1>1, <2>1, RowIs
  <2>5. turn.day[id] \in Blocks
    BY <1>1, TurnIs DEF Typed, Blocks, Proper, Ordinary
  <2> QED
    BY <2>2, <2>3, <2>4, <2>5, BlocksAre
<1>10. turn.day = [id \in DOMAIN turn.day |-> turn.day[id]]
  BY <1>1 DEF Typed, Proper, Ordinary
<1>11. candidate = [id \in DOMAIN candidate |-> candidate[id]]
  BY <1>1 DEF Built
<1> QED
  BY <1>8, <1>9, <1>10, <1>11

\* The outcomes tell what is stored.
LEMMA OutcomesFollow ==
    ASSUME Ordinary, Inv
    PROVE  OutcomesTrue
<1> SUFFICES ASSUME phase = "done"
             PROVE  /\ Overall = "skipped" =>
                          Plan = [deletes |-> {}, updates |-> {}, creates |-> {}]
                    /\ \A id \in DOMAIN updates :
                          /\ SkippedFields(id) # {} =>
                                /\ candidate[id].start = turn.day[id].start
                                /\ candidate[id].end = turn.day[id].end
                          /\ "start" \in AppliedFields(id) =>
                                candidate[id].start
                                    = Later(updates[id].start, turn.window.start)
                          /\ "end" \in AppliedFields(id) =>
                                candidate[id].end = Earlier(updates[id].end, turn.window.end)
                          /\ candidate[id].label = Labelled(id, updates[id])
  BY DEF OutcomesTrue
<1>1. ASSUME Overall = "skipped"
      PROVE  Plan = [deletes |-> {}, updates |-> {}, creates |-> {}]
  <2>1. candidate = turn.day
    BY <1>1, SkippedIs
  <2> QED
    BY <2>1 DEF Plan, Diff
<1> QED
  BY <1>1, OutcomeIs

-----------------------------------------------------------------------------
(* Theorems *)

\* The invariant that carries the others holds in every turn (plan_mutations).
THEOREM Invariance == Ordinary => (PlanSpec => []Inv)
<1> SUFFICES ASSUME Ordinary
             PROVE  PlanSpec => []Inv
  OBVIOUS
<1>1. PlanInit => Inv
  BY InvInit
<1>2. Inv /\ [PlanNext]_planVars => Inv'
  BY InvNext, StutterKeeps
<1> QED
  BY <1>1, <1>2, PTL DEF PlanSpec

(* Whatever the model asks for, in however many actions: the overlap loop  *)
(* ends within its rounds, the day that is stored has no two blocks in one *)
(* minute and would be accepted as a person's edit, a duration is kept to  *)
(* the minute, an untimed addition lies ahead of the clock, "no slot" is   *)
(* said only when there is none, and a suggested time can be had           *)
(* (plan_mutations, find_slot, _find_auto_slot).                           *)
THEOREM PlansSound == Ordinary => (PlanSpec => []PlanSound)
<1> SUFFICES ASSUME Ordinary
             PROVE  PlanSpec => []PlanSound
  OBVIOUS
<1>1. PlanSpec => []Inv
  BY Invariance
<1>2. Inv => PlanSound
  BY TypeFollows, DisjointFollows, ManualFollows, DurationFollows, PlacedFollows,
     NoSlotFollows, SuggestionFollows
     DEF PlanSound
<1> QED
  BY <1>1, <1>2, PTL

(* What the reply says is what happened: the blocks that a refusal names   *)
(* are in the way of the request, who lost to a rival has a rival that was *)
(* refused too, an applied time is the requested one, a skipped one the    *)
(* old one, and a turn that skipped everything stores nothing (the         *)
(* outcomes of plan_mutations).                                            *)
THEOREM VerdictsAlwaysTrue == Ordinary => (PlanSpec => []VerdictsTrue)
<1> SUFFICES ASSUME Ordinary
             PROVE  PlanSpec => []VerdictsTrue
  OBVIOUS
<1>1. PlanSpec => []Inv
  BY Invariance
<1>2. Inv => VerdictsTrue
  BY OverlapReasonsFollow, RivalsFollow, OutcomesFollow DEF VerdictsTrue
<1> QED
  BY <1>1, <1>2, PTL


=============================================================================

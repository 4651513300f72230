----------------------------- MODULE DragReorder -----------------------------
(***************************************************************************)
(* A block dragged over the day (frontend/src/composables/useDrag.ts) and  *)
(* the reordering it asks for (reorder_blocks, backend/schedules/api.py).  *)
(* While the pointer moves, the other blocks are pushed forward out of the *)
(* way, and the drop writes what was last shown.  Meanwhile other writers  *)
(* change the day and the page adopts what they did.                       *)
(*                                                                         *)
(* The cascade runs between two events of the browser: nothing else        *)
(* happens while it is under way.  A block has a start, an end and an      *)
(* order (sort_order, counted in steps of one instead of ten); the pointer *)
(* is where it puts the top of the block, in minutes.                      *)
(***************************************************************************)
EXTENDS DayRules, SequencesExt

CONSTANTS
    Days,          \* days to start from: functions from identities to blocks
    Windows,       \* day windows, of which a user has one at a time
    Pointers,      \* where the pointer may be
    Places,        \* intervals another writer may give a block
    Stub,          \* STUB_MINUTES, the longest empty stretch drawn in full
    MaxScans,      \* MAX_ITERATIONS of the cascade, 1000 in the code
    MaxWrites,     \* bound on the revision
    None

VARIABLES
    stored,        \* the day, its revision and the user's window on the server
    seen,          \* the same, as the page last adopted them
    elsewhere,     \* another write of this page is in flight
    drag,          \* the gesture under way, or None
    frame,         \* the pointer position the next animation frame shows, or None
    cascade,       \* the displacement being computed, or None
    posted         \* the reordering in flight, or None

dragVars == <<stored, seen, elsewhere, drag, frame, cascade, posted>>

NoDay == <<>>

DragInit ==
    /\ \E day \in Days, window \in Windows :
           stored = [day |-> day, revision |-> 0, window |-> window]
    /\ seen = stored /\ elsewhere = FALSE
    /\ drag = None /\ frame = None /\ cascade = None /\ posted = None

Length(block) == block.end - block.start

\* roundUpDuration
RoundUp(minutes) == Later(Grid, GridUp(minutes))

-----------------------------------------------------------------------------
(* The cascade: resolveConflicts *)

\* The order of the list a block is in: by start, then by sort_order.
Sooner(a, b) == a.start < b.start \/ (a.start = b.start /\ a.order < b.order)

\* The day in that order; blocks that tie stay as they were listed, by their old start.
Lined(day, old) ==
    LET first(a, b) ==
            \/ Sooner(day[a], day[b])
            \/ ~Sooner(day[b], day[a]) /\ old[a].start < old[b].start
        at(rank) == CHOOSE id \in DOMAIN day :
                        Cardinality({other \in DOMAIN day : first(other, id)}) = rank - 1
    IN  [rank \in 1..Cardinality(DOMAIN day) |->
            [id |-> at(rank), start |-> day[at(rank)].start, end |-> day[at(rank)].end,
             order |-> day[at(rank)].order]]

\* Neighbours of which the first runs into the second.
Clashes(line) == {i \in 1..(Len(line) - 1) : line[i].end > line[i + 1].start}

FirstClash(line) == CHOOSE i \in Clashes(line) : \A j \in Clashes(line) : i <= j

\* The later block moves, unless it is the dragged one.
Displaced(line, i, dragged) == IF line[i + 1].id = dragged THEN i ELSE i + 1

\* It moves behind the other one, and takes a whole number of grid steps.
Behind(line, i, dragged) ==
    LET moving == Displaced(line, i, dragged)
        start == line[IF moving = i THEN i + 1 ELSE i].end
    IN  [line[moving] EXCEPT !.start = start, !.end = start + RoundUp(Length(line[moving]))]

LeftInPlace(line, place, moved) == [line EXCEPT ![place] = moved]

\* The list with the block at a place replaced by the moved one, and sorted again.
Resorted(line, place, moved) ==
    LET rest == RemoveAt(line, place)
        passed == {j \in place..Len(rest) : Sooner(rest[j], moved)}
    IN  InsertAt(rest, place + Cardinality(passed), moved)

\* sort_order is given out anew.
Ranked(line) ==
    [id \in {line[i].id : i \in DOMAIN line} |->
        LET rank == CHOOSE i \in DOMAIN line : line[i].id = id
        IN  [start |-> line[rank].start, end |-> line[rank].end, order |-> rank - 1]]

Exhausted == cascade.scans >= MaxScans

Scanned == [cascade EXCEPT !.scans = @ + 1]

Shift ==
    /\ cascade # None /\ ~Exhausted /\ Clashes(cascade.line) # {}
    /\ LET clash == FirstClash(cascade.line)
           moved == Behind(cascade.line, clash, drag.id)
       IN  /\ moved.end <= drag.window.end
           /\ cascade' = [Scanned EXCEPT !.line =
                             Resorted(@, Displaced(@, clash, drag.id), moved)]
    /\ UNCHANGED <<stored, seen, elsewhere, drag, frame, posted>>

GiveUp ==
    /\ cascade # None
    /\ \/ Exhausted
       \/ /\ Clashes(cascade.line) # {}
          /\ Behind(cascade.line, FirstClash(cascade.line), drag.id).end > drag.window.end
    /\ drag' = [drag EXCEPT !.valid = FALSE, !.preview = NoDay]
    /\ cascade' = None
    /\ UNCHANGED <<stored, seen, elsewhere, frame, posted>>

Settle ==
    /\ cascade # None /\ ~Exhausted /\ Clashes(cascade.line) = {}
    /\ drag' = [drag EXCEPT !.valid = TRUE, !.preview = Ranked(cascade.line)]
    /\ cascade' = None
    /\ UNCHANGED <<stored, seen, elsewhere, frame, posted>>

-----------------------------------------------------------------------------
(* The gesture: useDrag *)

\* The page takes no new gesture or drop while a write of its own is in flight.
Disabled == elsewhere \/ posted # None

Starts(day) == {day[id].start : id \in DOMAIN day}

\* computeRenderBounds: the minute the top of the canvas stands for.
RenderStart(day, window) ==
    LET visible == {day[id].start : id \in {b \in DOMAIN day :
                        day[b].end > window.start /\ day[b].start < window.end}}
        first == Later(Min(visible), window.start)
        base == IF visible # {} /\ first - window.start > Stub
                THEN first - Stub ELSE window.start
    IN  Min({base} \union Starts(day))

StartDrag(id) ==
    /\ cascade = None /\ drag = None /\ ~Disabled /\ seen.revision < MaxWrites
    /\ id \in DOMAIN seen.day
    /\ drag' = [id |-> id, snapshot |-> seen.day, since |-> seen.revision,
                length |-> RoundUp(Length(seen.day[id])), window |-> seen.window,
                origin |-> RenderStart(seen.day, seen.window),
                drop |-> None, valid |-> TRUE, preview |-> NoDay]
    /\ UNCHANGED <<stored, seen, elsewhere, frame, cascade, posted>>

\* The next animation frame shows the last position only.
PointerMove ==
    /\ cascade = None /\ drag # None
    /\ \E pointer \in Pointers : frame' = pointer
    /\ UNCHANGED <<stored, seen, elsewhere, drag, cascade, posted>>

Snapped(minute) == ((2 * minute + Grid) \div (2 * Grid)) * Grid

\* On the grid, below the top of the canvas, and inside the window, the start above all.
DropAt(pointer) ==
    LET below == IF Snapped(pointer) < drag.origin THEN GridUp(drag.origin) ELSE Snapped(pointer)
        within == IF below + drag.length > drag.window.end
                  THEN drag.window.end - drag.length ELSE below
    IN  IF within < drag.window.start THEN GridUp(drag.window.start) ELSE within

\* The live day with the block where the pointer is; the cascade follows.
UpdatePreview ==
    /\ cascade = None /\ frame # None
    /\ LET drop == DropAt(frame)
           held == [id \in DOMAIN seen.day |->
                       IF id = drag.id
                       THEN [seen.day[id] EXCEPT !.start = drop, !.end = drop + drag.length]
                       ELSE seen.day[id]]
       IN  /\ drag' = [drag EXCEPT !.drop = drop]
           /\ cascade' = [from |-> seen.day, line |-> Lined(held, seen.day), scans |-> 0]
    /\ frame' = None
    /\ UNCHANGED <<stored, seen, elsewhere, posted>>

NoGesture == drag' = None /\ frame' = None

CancelDrag ==
    /\ cascade = None /\ drag # None /\ NoGesture
    /\ UNCHANGED <<stored, seen, elsewhere, cascade, posted>>

OnlyRemoved == DOMAIN drag.snapshot # DOMAIN seen.day

\* blocksExternallyMutated: whatever happened to the dragged block itself is ignored.
ExternallyMutated ==
    \/ DOMAIN drag.snapshot # DOMAIN seen.day
    \/ \E id \in (DOMAIN drag.snapshot) \ {drag.id} : seen.day[id] # drag.snapshot[id]

\* Every block of the preview that is not where it was when the drag began.
Updates ==
    LET moved == {id \in DOMAIN drag.preview :
                     id \in DOMAIN drag.snapshot => drag.preview[id] # drag.snapshot[id]}
    IN  [id \in moved |-> drag.preview[id]]

\* The pointer is released; a frame that was still to come is dropped.
EndDrag ==
    /\ cascade = None /\ drag # None
    /\ posted' = IF \/ ~drag.valid \/ drag.preview = NoDay
                    \/ Disabled \/ ExternallyMutated \/ Updates = NoDay
                 THEN posted
                 ELSE [updates |-> Updates, revision |-> seen.revision, dragged |-> drag.id,
                       base |-> drag.snapshot, since |-> drag.since,
                       shown |-> drag.preview, window |-> drag.window]
    /\ NoGesture
    /\ UNCHANGED <<stored, seen, elsewhere, cascade>>

-----------------------------------------------------------------------------
(* The server *)

\* The executor: a change of the day is a new revision.
Stored(day) ==
    [stored EXCEPT !.day = day, !.revision = IF day = stored.day THEN @ ELSE @ + 1]

Fresh == posted.revision = stored.revision

\* All blocks of the request exist, and the final day passes the rules for a person.
Accepted ==
    IF ~Fresh \/ ~(DOMAIN posted.updates \subseteq DOMAIN stored.day) THEN NoDay
    ELSE LET asked == [id \in DOMAIN stored.day |-> IF id \in DOMAIN posted.updates
                                                    THEN posted.updates[id] ELSE stored.day[id]]
             plan == Commanded(stored.day, asked, "manual", stored.window)
         IN  IF plan.accepted THEN plan.day ELSE NoDay

\* The page shows the answer: its reordering, or the day it did not know of; a refusal
\* for another reason brings no day.
Reorder ==
    /\ cascade = None /\ posted # None
    /\ stored' = IF Accepted = NoDay THEN stored ELSE Stored(Accepted)
    /\ seen' = IF Accepted = NoDay /\ Fresh THEN seen
               ELSE [seen EXCEPT !.day = stored'.day, !.revision = stored'.revision]
    /\ posted' = None
    /\ UNCHANGED <<elsewhere, drag, frame, cascade>>

-----------------------------------------------------------------------------
(* Everybody else *)

\* Another tab, the assistant or undo moves a block, or removes it.
OtherWriter ==
    /\ cascade = None /\ stored.revision < MaxWrites
    /\ \E id \in DOMAIN stored.day :
           \/ \E place \in Places :
                  LET day == [stored.day EXCEPT ![id].start = place.start, ![id].end = place.end]
                  IN  day # stored.day /\ Disjoint(day) /\ stored' = Stored(day)
           \/ stored' = Stored(Restrict(stored.day, DOMAIN stored.day \ {id}))
    /\ UNCHANGED <<seen, elsewhere, drag, frame, cascade, posted>>

\* The user sets another day window in the settings.
ChangeWindow ==
    /\ cascade = None
    /\ \E window \in Windows \ {stored.window} : stored' = [stored EXCEPT !.window = window]
    /\ UNCHANGED <<seen, elsewhere, drag, frame, cascade, posted>>

\* A read or an answer brings the page up to date; another window ends the gesture.
AdoptDay ==
    /\ cascade = None /\ seen # stored
    /\ seen' = stored
    /\ IF stored.window # seen.window THEN NoGesture ELSE UNCHANGED <<drag, frame>>
    /\ UNCHANGED <<stored, elsewhere, cascade, posted>>

\* The page sends a write of another kind, which may change the day, and gets the answer.
WriteElsewhere ==
    /\ cascade = None /\ posted = None
    /\ elsewhere' = ~elsewhere
    /\ UNCHANGED <<stored, seen, drag, frame, cascade, posted>>

DragNext ==
    \/ Shift \/ GiveUp \/ Settle
    \/ \E id \in DOMAIN seen.day : StartDrag(id)
    \/ PointerMove \/ UpdatePreview \/ CancelDrag \/ EndDrag
    \/ Reorder
    \/ OtherWriter \/ ChangeWindow \/ AdoptDay \/ WriteElsewhere

DragSpec == DragInit /\ [][DragNext]_dragVars

-----------------------------------------------------------------------------
(* Properties *)

DragTypeOK ==
    /\ stored.revision \in 0..(MaxWrites + 1) /\ seen.revision \in 0..stored.revision
    /\ stored.window \in Windows /\ seen.window \in Windows
    /\ Disjoint(stored.day) /\ Disjoint(seen.day)
    /\ elsewhere \in BOOLEAN
    /\ frame \in Pointers \union {None}
    /\ frame # None => drag # None
    /\ cascade # None => drag # None /\ drag.drop % Grid = 0

\* While the cascade runs the dragged block stays where it is held, and no other block
\* ever moves to an earlier time or gets shorter (useDrag.ts:122-129).
CascadeForward ==
    cascade # None =>
        \A i \in DOMAIN cascade.line :
            LET block == cascade.line[i]
                old == cascade.from[block.id]
            IN  IF block.id = drag.id
                THEN block.start = drag.drop /\ Length(block) = drag.length
                ELSE block.start >= old.start /\ Length(block) >= Length(old)

\* The cascade ends, however the blocks lie: n other blocks need at most n(n+1)/2 moves.
\* It is quadratic, not the O(n) of the comment at useDrag.ts:143.
CascadeBounded ==
    cascade # None =>
        LET others == Cardinality(DOMAIN cascade.from) - 1
        IN  cascade.scans <= (others * (others + 1)) \div 2

\* What the user is shown as a valid drop has no overlap anywhere, and, unless the page took
\* over another writer's day since, a block that was pushed away stands directly behind
\* another one: nothing moves farther than it must.
PreviewDisjoint ==
    drag # None /\ drag.preview # NoDay =>
        /\ drag.valid /\ Disjoint(drag.preview)
        /\ \A id \in (DOMAIN drag.preview) \intersect (DOMAIN drag.snapshot) :
               \/ id = drag.id \/ drag.since # seen.revision
               \/ drag.preview[id].start = drag.snapshot[id].start
               \/ \E other \in DOMAIN drag.preview :
                      drag.preview[other].end = drag.preview[id].start

Ordered(day) == \A a, b \in DOMAIN day : day[a].start < day[b].start => day[a].order <= day[b].order

\* A drop is stored exactly as it was shown: when nobody wrote since the drag began, the
\* dragged block fits the window and sort_order agrees with the times, the server
\* accepts every block the cascade moved and clamps none.
DropStoredAsShown ==
    (/\ posted # None /\ posted' = None
     /\ posted.since = stored.revision /\ stored.window = posted.window
     /\ posted.shown[posted.dragged].end <= posted.window.end
     /\ Ordered(posted.base))
    => stored'.day = posted.shown

\* A drop never overwrites what another writer did to a block other than the dragged
\* one while the pointer was down (useDrag.ts:553-560).
DropLeavesOthers ==
    (posted # None /\ posted' = None) =>
        \A id \in DOMAIN stored.day \ {posted.dragged} :
            stored'.day[id] # stored.day[id] => stored.day[id] = posted.base[id]

\* The cascade of a drag moves blocks forward only, ends within its bound, and leaves a
\* preview without overlaps (resolveConflicts).
CascadeSound == DragTypeOK /\ CascadeForward /\ CascadeBounded /\ PreviewDisjoint

\* An accepted drop stores what was shown, and touches no block another writer changed (endDrag).
DropSound == [][DropStoredAsShown /\ DropLeavesOthers]_dragVars

\* Comment at useDrag.ts:164-168: every displaced block lands on the grid.
ShiftsOnGrid ==
    drag # None /\ drag.preview # NoDay =>
        \A id \in (DOMAIN drag.preview) \intersect (DOMAIN drag.snapshot) :
            drag.preview[id].start # drag.snapshot[id].start => OnGrid(drag.preview[id].start)
=============================================================================

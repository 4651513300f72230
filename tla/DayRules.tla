------------------------------- MODULE DayRules -------------------------------
(***************************************************************************)
(* The interval rules of a day (backend/schedules/planning.py,             *)
(* time_validation.py and window.py), which every writer shares: a person, *)
(* an import, the assistant, a generated draft and undo.                   *)
(*                                                                         *)
(* A time is a number of minutes after midnight.  A day of blocks is a     *)
(* function from block identities to records with a start, an end and a    *)
(* label, which stands for title and category; a negative identity is a    *)
(* block that is not stored yet.                                           *)
(***************************************************************************)
EXTENDS Integers

CONSTANTS
    Grid,          \* GRID_MINUTES, 5 in the code
    DayMinutes     \* minutes from midnight to midnight, 1440 in the code

Later(a, b) == IF a < b THEN b ELSE a

Earlier(a, b) == IF a < b THEN a ELSE b

Times == 0..(DayMinutes - 1)

OnGrid(time) == time % Grid = 0

GridUp(time) == ((time + Grid - 1) \div Grid) * Grid

GridDown(time) == (time \div Grid) * Grid

\* Half-open intervals share a minute.
TimesOverlap(a, b) == a.start < b.end /\ a.end > b.start

InWindow(time, window) == window.start <= time /\ time <= window.end

-----------------------------------------------------------------------------
(* One block *)

\* What each writer is held to: the grid, and the day window.
Policy(writer) ==
    CASE writer = "manual" -> [grid |-> TRUE, rule |-> "clamp"]
      [] writer = "import" -> [grid |-> FALSE, rule |-> "clamp"]
      [] writer = "ai"     -> [grid |-> TRUE, rule |-> "clamp"]
      [] writer = "draft"  -> [grid |-> TRUE, rule |-> "reject"]
      [] writer = "undo"   -> [grid |-> FALSE, rule |-> "ignore"]

\* The interval with the requested ends moved into the window.
Clamped(block, window, clamp) ==
    [block EXCEPT
        !.start = IF clamp.start THEN Later(block.start, window.start) ELSE block.start,
        !.end = IF clamp.end THEN Earlier(block.end, window.end) ELSE block.end]

\* clamp_boundary: nothing of the interval is inside.
Vanishes(block, window, clamp) ==
    \/ clamp.start /\ block.start > window.end
    \/ clamp.end /\ block.end < window.start
    \/ LET kept == Clamped(block, window, clamp) IN kept.start >= kept.end

OffGrid(block, changed) ==
    \/ changed.start /\ ~OnGrid(block.start)
    \/ changed.end /\ ~OnGrid(block.end)

Outside(block, window, ends) ==
    \/ ends.start /\ ~InWindow(block.start, window)
    \/ ends.end /\ ~InWindow(block.end, window)

(* Why an interval is refused, or "ok".  changed and clamp say of each end *)
(* whether it is new and whether it may be moved to the window's edge.     *)
Verdict(block, policy, window, changed, clamp) ==
    LET empty == block.start >= block.end
        fixed == [start |-> changed.start /\ ~clamp.start, end |-> changed.end /\ ~clamp.end]
    IN  IF policy.grid /\ OffGrid(block, changed) THEN "granularity"
        ELSE IF \/ policy.rule = "reject" /\ Outside(block, window, changed)
                \/ policy.rule = "clamp" /\ Outside(block, window, fixed) THEN "out_of_window"
        ELSE IF policy.rule # "clamp" \/ ~Outside(block, window, clamp)
             THEN IF empty THEN "interval" ELSE "ok"
        ELSE IF Vanishes(block, window, clamp) THEN "out_of_window" ELSE "ok"

\* The accepted interval: only the clamping policies move an end.
Settled(block, policy, window, clamp) ==
    IF policy.rule = "clamp" THEN Clamped(block, window, clamp) ELSE block

Both(flag) == [start |-> flag, end |-> flag]

-----------------------------------------------------------------------------
(* The whole day *)

\* The order in which validate_final_state sweeps over the blocks.
Before(day, a, b) ==
    \/ day[a].start < day[b].start
    \/ day[a].start = day[b].start /\ day[a].end < day[b].end
    \/ day[a].start = day[b].start /\ day[a].end = day[b].end /\ a < b

\* The sweep looks at the followers of a block up to one that starts after its end.
Reached(day, a, b) ==
    /\ Before(day, a, b)
    /\ \A c \in DOMAIN day :
           Before(day, a, c) /\ (Before(day, c, b) \/ c = b) => day[c].start < day[a].end

Overlaps(day) ==
    {p \in (DOMAIN day) \X (DOMAIN day) :
        Reached(day, p[1], p[2]) /\ TimesOverlap(day[p[1]], day[p[2]])}

Disjoint(day) ==
    \A a, b \in DOMAIN day : a # b => ~TimesOverlap(day[a], day[b])

ChangedEnds(before, after, id) ==
    [start |-> id \in DOMAIN before => after[id].start # before[id].start,
     end |-> id \in DOMAIN before => after[id].end # before[id].end]

\* plan_commands, once the commands are applied: every interval, then the day.
Commanded(before, after, writer, window) ==
    LET verdict(id) == LET ends == ChangedEnds(before, after, id)
                       IN  Verdict(after[id], Policy(writer), window, ends, ends)
        settled == [id \in DOMAIN after |->
                       Settled(after[id], Policy(writer), window,
                               ChangedEnds(before, after, id))]
    IN  IF \E id \in DOMAIN after : verdict(id) # "ok"
        THEN [accepted |-> FALSE, day |-> before]
        ELSE IF Overlaps(settled) # {} THEN [accepted |-> FALSE, day |-> before]
        ELSE [accepted |-> TRUE, day |-> settled]

\* diff_candidates: rows that did not change are left out.
Diff(before, after) ==
    [deletes |-> (DOMAIN before) \ (DOMAIN after),
     updates |-> {id \in (DOMAIN before) \intersect (DOMAIN after) : before[id] # after[id]},
     creates |-> (DOMAIN after) \ (DOMAIN before)]
=============================================================================

--------------------------- MODULE MutationPlanner ---------------------------
(***************************************************************************)
(* plan_mutations (backend/ai/mutation_planner.py): the actions of one     *)
(* reply of the language model are read in order and folded into one       *)
(* update for each block, the requested intervals are judged, rounds of    *)
(* rejection remove what overlaps, and untimed additions are placed into   *)
(* the rest of the day.  What is rejected leaves the block where it was,   *)
(* with its new title and category.                                        *)
(***************************************************************************)
EXTENDS DayRules, Sequences, FiniteSets, FiniteSetsExt

CONSTANTS
    None,              \* an operand that an action leaves out
    DefaultDuration,   \* DEFAULT_AUTO_DURATION_MINUTES, 25 in the code
    Turns,             \* the days, windows, clocks and actions that are tried
    MaxActions         \* actions of one reply

VARIABLES
    turn,        \* the locked day and policy, the clock, and the model's repertoire
    phase,       \* "read", "judge", "place", "done", or "refused" with an error
    actions,     \* parsed_actions as far as they are read
    updates,     \* merged_updates: one update for each block that is changed
    chain,       \* chain_effective: the interval the next action starts from
    poisoned,    \* chain_poisoned: blocks with a duration no time can express
    candidate,   \* the day being built
    accepted,    \* accepted_changed: new intervals that still stand
    rejected,    \* why the other new intervals were refused, and by which blocks
    rounds       \* rounds the overlap loop has left

reading == <<updates, chain, poisoned>>

judging == <<candidate, accepted, rejected, rounds>>

planVars == <<turn, phase, actions, reading, judging>>

-----------------------------------------------------------------------------
(* Actions of the model *)

Timed(a) == a.start # None \/ a.end # None

Sized(a) == a.duration # None \/ a.delta # None

\* What validate_action lets through, with the key "changes" taken apart.
WellFormed(a) ==
    /\ {a.start, a.end} \subseteq Times \union {None}
    /\ a.duration # None => a.duration \in Nat \ {0} /\ OnGrid(a.duration)
    /\ a.delta # None => a.delta \in Int \ {0} /\ OnGrid(a.delta)
    /\ a.label \in STRING \union {None}
    /\ a.direction # None => a.direction \in {"later", "earlier", "exact"}
    /\ \/ /\ a.type = "add"
          /\ a.label # None /\ {a.task, a.delta, a.direction} = {None}
          /\ a.start = None <=> a.end = None
          /\ Timed(a) => a.duration = None
       \/ /\ a.type = "move"
          /\ a.task # None /\ {a.label, a.duration, a.delta, a.direction} = {None}
          /\ Timed(a)
       \/ /\ a.type = "resize"
          /\ a.task # None /\ {a.label, a.direction} = {None}
          /\ \/ Timed(a) /\ ~Sized(a)
             \/ ~Timed(a) /\ (a.duration = None <=> a.delta # None)
       \/ /\ a.type = "update"
          /\ a.task # None /\ ~Sized(a)
          /\ Timed(a) \/ a.label # None
          /\ a.direction # None => Timed(a)
       \/ /\ a.type = "remove"
          /\ a.task # None /\ {a.label, a.direction} = {None}
          /\ ~Timed(a) /\ ~Sized(a)

Added == {i \in DOMAIN actions : actions[i].type = "add"}

Removed ==
    {actions[i].task : i \in {j \in DOMAIN actions : actions[j].type = "remove"}}

\* An addition without times is placed by the planner.
Untimed == {i \in Added : ~Timed(actions[i])}

TempId(i) == -i

-----------------------------------------------------------------------------
(* Reading: _normalize_actions *)

PlanInit ==
    /\ turn \in Turns
    /\ phase = "read"
    /\ actions = <<>>
    /\ updates = <<>>
    /\ chain = <<>>
    /\ poisoned = {}
    /\ candidate = <<>>
    /\ accepted = {}
    /\ rejected = <<>>
    /\ rounds = 0

Put(f, x, v) == [y \in DOMAIN f \union {x} |-> IF y = x THEN v ELSE f[y]]

Drop(f, x) == [y \in DOMAIN f \ {x} |-> f[y]]

Known(task) == task \in DOMAIN turn.day /\ task \notin Removed

Effective(task) == IF task \in DOMAIN chain THEN chain[task] ELSE turn.day[task]

\* A start without an end: the block keeps its length, rounded up to the grid.
BareMove(a) == a.type \in {"move", "update"} /\ a.start # None /\ a.end = None

\* compute_move_resize_times: a bare move may run past midnight.
MoveResize(a, block) ==
    LET start == IF a.start # None THEN a.start ELSE block.start
        length == Later(Grid, GridUp(block.end - block.start))
        end == IF BareMove(a) THEN (start + length) % DayMinutes
               ELSE IF a.end # None THEN a.end ELSE block.end
    IN  [start |-> start, end |-> end, wrapped |-> BareMove(a) /\ end <= start]

\* The end a duration or a longer/shorter asks for, in whole minutes.
DerivedEnd(a, block) ==
    IF a.duration # None THEN block.start + a.duration ELSE block.end + a.delta

Resized(a, block) ==
    [start |-> block.start,
     end |-> Earlier(Later(DerivedEnd(a, block), 0), DayMinutes - 1),
     wrapped |-> FALSE]

NoUpdate ==
    [end |-> None, startSupplied |-> FALSE, endSupplied |-> FALSE, bare |-> FALSE,
     wrapped |-> FALSE, derived |-> None, direction |-> "exact", label |-> None]

\* The action folded into what the earlier actions asked of its block.
Merged(a, block, prev, isPoisoned) ==
    LET own == a.end # None \/ BareMove(a) \/ Sized(a)
        times == IF Sized(a) THEN Resized(a, block) ELSE MoveResize(a, block)
        keptEnd == ~own /\ prev.derived # None
    IN  [index |-> Len(actions) + 1,
         start |-> times.start,
         end |-> IF keptEnd THEN prev.end ELSE times.end,
         startSupplied |-> a.start # None \/ prev.startSupplied,
         endSupplied |-> IF own THEN a.end # None ELSE prev.endSupplied,
         bare |-> IF own THEN BareMove(a) ELSE prev.bare,
         wrapped |-> IF own THEN times.wrapped ELSE prev.wrapped,
         derived |-> IF Sized(a) THEN DerivedEnd(a, block)
                     ELSE IF own THEN None ELSE prev.derived,
         direction |-> IF a.direction # None THEN a.direction ELSE prev.direction,
         label |-> IF a.label # None THEN a.label ELSE prev.label,
         poisoned |-> isPoisoned]

Inexpressible(u) == u.derived # None /\ u.derived \notin Times

\* The ladder of checks on an end derived from a duration.
DurationVerdict(u) ==
    IF u.startSupplied /\ u.start < turn.window.start THEN "out_of_window"
    ELSE IF u.derived - u.start < Grid THEN "interval"
    ELSE IF ~InWindow(u.derived, turn.window) \/ u.derived >= DayMinutes THEN "out_of_window"
    ELSE IF ~OnGrid(u.derived) THEN "granularity" ELSE "ok"

\* _duration_would_overlap: another block, where the actions so far have put it.
WouldOverlap(task, u) ==
    \E other \in DOMAIN turn.day \ (Removed \union {task}) :
        TimesOverlap([start |-> u.start, end |-> u.derived], Effective(other))

\* A duration that will be refused is not what the next action starts from.
FeedsChain(task, u) ==
    u.derived # None =>
        ~Inexpressible(u) /\ DurationVerdict(u) = "ok" /\ ~WouldOverlap(task, u)

CanRead(a) == phase = "read" /\ Len(actions) < MaxActions /\ a \in turn.offers

ReadAdd(a) ==
    /\ CanRead(a)
    /\ a.type = "add"
    /\ actions' = Append(actions, a)
    /\ UNCHANGED <<turn, phase, reading, judging>>

ReadRemove(a) ==
    /\ CanRead(a)
    /\ a.type = "remove" /\ Known(a.task)
    /\ actions' = Append(actions, a)
    /\ updates' = Drop(updates, a.task)
    /\ chain' = Drop(chain, a.task)
    /\ poisoned' = poisoned \ {a.task}
    /\ UNCHANGED <<turn, phase, judging>>

ReadChange(a) ==
    /\ CanRead(a)
    /\ a.type \in {"move", "resize", "update"} /\ Known(a.task)
    /\ LET prev == IF a.task \in DOMAIN updates THEN updates[a.task] ELSE NoUpdate
           u == Merged(a, Effective(a.task), prev, a.task \in poisoned)
       IN  /\ updates' = Put(updates, a.task, u)
           /\ poisoned' = IF Inexpressible(u) THEN poisoned \union {a.task} ELSE poisoned
           /\ chain' = IF FeedsChain(a.task, u)
                       THEN Put(chain, a.task, [start |-> u.start, end |-> u.end])
                       ELSE chain
    /\ actions' = Append(actions, a)
    /\ UNCHANGED <<turn, phase, judging>>

\* A block that is gone, or removed by this reply, ends the turn with an error.
Refuse(a) ==
    /\ CanRead(a)
    /\ a.type # "add" /\ ~Known(a.task)
    /\ phase' = "refused"
    /\ actions' = Append(actions, a)
    /\ UNCHANGED <<turn, reading, judging>>

-----------------------------------------------------------------------------
(* Judging: _build_candidate, the intrinsic checks and the overlap rounds *)

TimeRequested(u) ==
    u.startSupplied \/ u.endSupplied \/ u.bare \/ u.derived # None

Labelled(id, u) == IF u.label # None THEN u.label ELSE turn.day[id].label

Explicit == {TempId(i) : i \in Added \ Untimed}

Action(id) == actions[-id]

\* The day as it is asked for.
Requested ==
    [id \in (DOMAIN turn.day \ Removed) \union Explicit |->
        IF id \in Explicit
        THEN [start |-> Action(id).start, end |-> Action(id).end, label |-> Action(id).label]
        ELSE IF id \in DOMAIN updates
        THEN [start |-> updates[id].start, end |-> updates[id].end,
              label |-> Labelled(id, updates[id])]
        ELSE turn.day[id]]

\* New intervals; a change of title or category alone is never refused.
Retimed == {id \in DOMAIN updates : TimeRequested(updates[id])} \union Explicit

Changed(id) ==
    IF id \in Explicit THEN Both(TRUE)
    ELSE LET u == updates[id]
         IN  [start |-> u.startSupplied,
              end |-> u.endSupplied \/ u.bare \/ u.derived # None]

\* Only an end that was named is moved to the window's edge, never a derived one.
Clampable(id) ==
    IF id \in Explicit THEN Both(TRUE)
    ELSE [start |-> updates[id].startSupplied, end |-> updates[id].endSupplied]

Intrinsic(id, block) ==
    LET verdict == Verdict(block, Policy("ai"), turn.window, Changed(id), Clampable(id))
        u == updates[id]
    IN  IF id \in Explicit THEN verdict
        ELSE IF u.poisoned \/ (u.wrapped /\ u.bare) THEN "out_of_window"
        ELSE IF u.derived # None /\ DurationVerdict(u) # "ok" THEN DurationVerdict(u)
        ELSE IF \/ u.startSupplied /\ u.start > turn.window.end
                \/ u.endSupplied /\ u.end < turn.window.start THEN "out_of_window"
        ELSE verdict

Judgement == [id \in Retimed |-> Intrinsic(id, Requested[id])]

\* reject: a new block disappears, an old one goes back, with its new label.
Reverted(day, ids) ==
    [id \in {i \in DOMAIN day : i > 0 \/ i \notin ids} |->
        IF id \in ids
        THEN [day[id] EXCEPT !.start = turn.day[id].start, !.end = turn.day[id].end]
        ELSE day[id]]

Refusal(reason, blocks) == [reason |-> reason, blocks |-> blocks]

RoundLimit(ids) == Cardinality(ids) + 1

Judge ==
    LET verdict == Judgement
        fine == {id \in Retimed : verdict[id] = "ok"}
        day == Requested
        settled == [id \in DOMAIN day |->
                       IF id \in fine
                       THEN Settled(day[id], Policy("ai"), turn.window, Clampable(id))
                       ELSE day[id]]
    IN  /\ phase = "read" /\ actions # <<>>
        /\ phase' = "judge"
        /\ accepted' = fine
        /\ rejected' = [id \in Retimed \ fine |-> Refusal(verdict[id], {})]
        /\ candidate' = Reverted(settled, Retimed \ fine)
        /\ rounds' = RoundLimit(fine)
        /\ UNCHANGED <<turn, actions, reading>>

ConflictingAfter(id) ==
    {other \in DOMAIN candidate : <<id, other>> \in Overlaps(candidate)}

Conflicting(id) ==
    {other \in DOMAIN candidate :
        <<id, other>> \in Overlaps(candidate) \/ <<other, id>> \in Overlaps(candidate)}

\* Stored blocks with an old interval that a new one runs into.
Unmoved(id) == {other \in Conflicting(id) : other \notin accepted /\ other > 0}

Rivals(id) == Conflicting(id) \intersect accepted

Losers == {id \in accepted : Unmoved(id) # {}}

EntangledLater == {id \in accepted : \E r \in Rivals(id) : r < id}

Entangled == {id \in accepted : Rivals(id) # {}}

\* refusals: why each of ids goes; a reason that was given stays.
Reject(ids, refusals) ==
    /\ rounds > 0
    /\ rounds' = rounds - 1
    /\ rejected' = [id \in DOMAIN rejected \union DOMAIN refusals |->
                       IF id \in DOMAIN rejected THEN rejected[id] ELSE refusals[id]]
    /\ accepted' = accepted \ ids
    /\ candidate' = Reverted(candidate, ids)
    /\ UNCHANGED <<turn, phase, actions, reading>>

\* Every new interval that runs into an unmoved block goes, all in one round.
RejectOverlaps ==
    /\ phase = "judge"
    /\ Losers # {}
    /\ Reject(Losers, [id \in Losers |-> Refusal("overlap", Unmoved(id))])

\* Only then the new intervals that run into each other, none of them the winner.
RejectRivals ==
    /\ phase = "judge"
    /\ Losers = {} /\ Entangled # {}
    /\ Reject(Entangled,
              [id \in Entangled |->
                  Refusal("unresolved_conflict", {r \in Rivals(id) : r > 0})])

\* The loop ends without a conflict, or its rounds are used up, which is logged.
EndRounds ==
    /\ phase = "judge"
    /\ rounds = 0 \/ (Losers = {} /\ Entangled = {})
    /\ phase' = "place"
    /\ UNCHANGED <<turn, actions, reading, judging>>

-----------------------------------------------------------------------------
(* Placing: untimed additions, in the order they were asked for *)

\* _earliest_start: the clock rounded up, or an end that fits nothing any more.
EarliestStart ==
    LET now == turn.now
        up == IF OnGrid(now.minutes) /\ ~now.leftover THEN now.minutes
              ELSE GridDown(now.minutes) + Grid
    IN  IF ~now.today THEN turn.window.start
        ELSE IF up >= DayMinutes \/ now.minutes >= turn.window.end THEN turn.window.end
        ELSE Later(up, turn.window.start)

(* find_slot: the first free start in a direction, on the grid, or None.   *)
Slot(occupied, start, end, direction) ==
    LET length == end - start
        last == turn.window.end - length
        first == IF direction = "later" THEN Later(GridUp(start), turn.window.start)
                 ELSE Earlier(GridDown(start), GridDown(last))
        tried == {c \in turn.window.start .. last :
                     /\ (c - first) % Grid = 0
                     /\ IF direction = "later" THEN c >= first ELSE c <= first}
        free == {c \in tried : \A o \in occupied :
                     ~TimesOverlap([start |-> c, end |-> c + length], o)}
    IN  IF length <= 0 \/ ~OnGrid(length) \/ free = {} THEN None
        ELSE IF direction = "later" THEN Min(free) ELSE Max(free)

Intervals(day) == {[start |-> day[id].start, end |-> day[id].end] : id \in DOMAIN day}

\* Blocks with a gap on both sides, inside the window.
Padded(day, gap) ==
    {i \in {[start |-> Later(b.start - gap, turn.window.start),
             end |-> Earlier(b.end + gap, turn.window.end)] : b \in Intervals(day)} :
        i.end > i.start}

(* _find_auto_slot: the first slot with the whole gap, unless it lies      *)
(* behind the next block and a smaller gap lets the addition in before it. *)
AutoSlot(day, base, length, gap) ==
    LET ahead == {b.start : b \in {i \in Intervals(day) : i.end > base}}
        limit == Min(ahead \union {turn.window.end})
        whole == Slot(Padded(day, gap), base, base + length, "later")
        rightmost(g) ==
            GridDown(IF ahead = {} THEN turn.window.end
                     ELSE Earlier(turn.window.end, Min(ahead) - g)) - length
        smaller == {g \in 0..(gap - 1) :
                       /\ OnGrid(g)
                       /\ rightmost(g) >= base
                       /\ \A o \in Padded(day, g) :
                             ~TimesOverlap([start |-> rightmost(g),
                                            end |-> rightmost(g) + length], o)}
    IN  IF limit <= base \/ (whole # None /\ whole + length <= limit) \/ smaller = {}
        THEN whole
        ELSE rightmost(Max(smaller))

Waiting == {i \in Untimed : TempId(i) \notin accepted \union DOMAIN rejected}

Length(a) == IF a.duration # None THEN a.duration ELSE DefaultDuration

Base == Later(EarliestStart, turn.window.start)

\* An exact fit at the end of the window has room.
HasRoom(length) == Base + length <= turn.window.end

PlaceNext ==
    LET i == Min(Waiting)
        id == TempId(i)
        length == Length(actions[i])
        start == IF HasRoom(length) THEN AutoSlot(candidate, Base, length, turn.gap) ELSE None
        block == [start |-> start, end |-> start + length, label |-> actions[i].label]
        verdict == Verdict(block, Policy("ai"), turn.window, Both(TRUE), Both(TRUE))
        day == Put(candidate, id, Settled(block, Policy("ai"), turn.window, Both(TRUE)))
        clash == \E p \in Overlaps(day) : id \in {p[1], p[2]}
        refusal == IF start = None THEN "no_slot"
                   ELSE IF verdict # "ok" THEN verdict
                   ELSE IF clash THEN "overlap" ELSE "ok"
    IN  /\ phase = "place" /\ Waiting # {}
        /\ \/ /\ refusal = "ok"
              /\ candidate' = day
              /\ accepted' = accepted \union {id}
              /\ UNCHANGED rejected
           \/ /\ refusal # "ok"
              /\ rejected' = Put(rejected, id, Refusal(refusal, {}))
              /\ UNCHANGED <<candidate, accepted>>
        /\ UNCHANGED <<turn, phase, actions, reading, rounds>>

FinishPlan ==
    /\ phase = "place" /\ Waiting = {}
    /\ phase' = "done"
    /\ UNCHANGED <<turn, actions, reading, judging>>

-----------------------------------------------------------------------------
(* The answer: outcomes, suggestions and the diff that is stored *)

Fields(flags) == {f \in DOMAIN flags : flags[f]}

\* What an update asked for, in the fields it is reported under.
AskedTimes(id) == IF TimeRequested(updates[id]) THEN Fields(Changed(id)) ELSE {}

AppliedFields(id) ==
    (IF updates[id].label # None THEN {"label"} ELSE {})
    \union (IF id \in DOMAIN rejected THEN {} ELSE AskedTimes(id))

SkippedFields(id) == IF id \in DOMAIN rejected THEN AskedTimes(id) ELSE {}

UpdateStatus(id) ==
    IF SkippedFields(id) = {} THEN "applied"
    ELSE IF AppliedFields(id) # {} THEN "partial" ELSE "skipped"

CreateStatus(i) == IF TempId(i) \in DOMAIN rejected THEN "skipped" ELSE "applied"

Statuses ==
    {UpdateStatus(id) : id \in DOMAIN updates}
    \union {CreateStatus(i) : i \in Added}
    \union {"applied" : b \in Removed}

Overall ==
    IF Statuses \subseteq {"applied"} THEN "applied"
    ELSE IF Statuses \intersect {"applied", "partial"} = {} THEN "skipped" ELSE "partial"

\* What a suggestion must keep clear of: the day as this reply leaves it.
Occupied(id) == Intervals(Drop(candidate, id))

\* A slot in the asked direction for an interval that overlapped, and only for it.
Suggestion(id) ==
    LET u == updates[id]
    IN  IF id \in DOMAIN rejected /\ rejected[id].reason = "overlap"
           /\ u.direction # "exact"
        THEN Slot(Occupied(id), u.start, u.end, u.direction)
        ELSE None

Plan == Diff(turn.day, candidate)

PlanNext ==
    \/ \E a \in turn.offers :
          ReadAdd(a) \/ ReadRemove(a) \/ ReadChange(a) \/ Refuse(a)
    \/ Judge
    \/ RejectOverlaps
    \/ RejectRivals
    \/ EndRounds
    \/ PlaceNext
    \/ FinishPlan

PlanSpec == PlanInit /\ [][PlanNext]_planVars

-----------------------------------------------------------------------------
(* Properties *)

Interval(x) == x.start \in Times /\ x.end \in Times

\* The day that the other writers leave, a window of the settings, a schema-valid reply.
\* Keys are positive; blocks and windows are not empty (timeblock_start_lt_end,
\* schedule_window_start_lt_end).
Proper(t) ==
    /\ DOMAIN t.day \subseteq Nat \ {0}
    /\ t.day \in [DOMAIN t.day -> [start : Times, end : Times, label : STRING]]
    /\ \A b \in DOMAIN t.day : t.day[b].start < t.day[b].end
    /\ Disjoint(t.day)
    /\ Interval(t.window) /\ t.window.start < t.window.end
    /\ OnGrid(t.window.start) /\ OnGrid(t.window.end)
    /\ t.now \in [today : BOOLEAN, minutes : Times, leftover : BOOLEAN]
    /\ t.gap \in Nat
    /\ \A a \in t.offers : WellFormed(a)

\* Every interval that is kept is made of times of the day, whatever was asked.
PlanTypeOK ==
    /\ Proper(turn)
    /\ phase \in {"read", "judge", "place", "done", "refused"}
    /\ actions \in Seq(turn.offers) /\ Len(actions) <= MaxActions
    /\ DOMAIN updates \subseteq DOMAIN turn.day
    /\ \A id \in DOMAIN updates : Interval(updates[id])
    /\ DOMAIN chain \subseteq DOMAIN updates
    /\ \A id \in DOMAIN chain : Interval(chain[id])
    /\ poisoned \subseteq DOMAIN updates
    /\ DOMAIN candidate \subseteq DOMAIN turn.day \union {TempId(i) : i \in DOMAIN actions}
    /\ \A id \in DOMAIN candidate : Interval(candidate[id])
    /\ accepted \subseteq DOMAIN candidate
    /\ accepted \intersect DOMAIN rejected = {}
    /\ rounds \in 0..(MaxActions + 1)

\* A finished turn leaves no two blocks in one minute, whatever the model asked for.
PlanDisjoint == phase \in {"place", "done"} => Disjoint(candidate)

\* The overlap loop always finds its end within its rounds; it logs a bug otherwise.
Converges == phase \in {"place", "done"} => rounds > 0

\* The interval that was judged, with its named ends inside the window.
Wanted(id) == Settled(Requested[id], Policy("ai"), turn.window, Clampable(id))

(* The reason of a refusal is true of the day that is stored: every block  *)
(* it names is still there, at its old time, in the way of the request.    *)
OverlapReasonsTrue ==
    phase = "done" =>
        \A id \in (DOMAIN rejected) \ {TempId(i) : i \in Untimed} :
            rejected[id].reason = "overlap" =>
            /\ rejected[id].blocks # {}
            /\ \A b \in rejected[id].blocks :
                  /\ b \in DOMAIN candidate
                  /\ candidate[b].start = turn.day[b].start
                  /\ TimesOverlap(candidate[b], Wanted(id))

(* No action wins by its place in the reply: who is refused for a rival    *)
(* has a rival that is refused for the same reason, and loses to no one    *)
(* whose request stands.                                                   *)
RivalsShareFate ==
    phase = "done" =>
        \A id \in DOMAIN rejected : rejected[id].reason = "unresolved_conflict" =>
            \E r \in DOMAIN rejected \ {id} :
                /\ rejected[r].reason = "unresolved_conflict"
                /\ TimesOverlap(Wanted(id), Wanted(r))

(* What the outcomes tell is what the diff stores: a skipped time is the   *)
(* old time, an applied one the requested, and a turn that skipped         *)
(* everything stores nothing.                                              *)
OutcomesTrue ==
    phase = "done" =>
        /\ Overall = "skipped" => Plan = [deletes |-> {}, updates |-> {}, creates |-> {}]
        /\ \A id \in DOMAIN updates :
              LET u == updates[id]
                  old == turn.day[id]
                  new == candidate[id]
              IN  /\ SkippedFields(id) # {} => new.start = old.start /\ new.end = old.end
                  /\ "start" \in AppliedFields(id) =>
                        new.start = Later(u.start, turn.window.start)
                  /\ "end" \in AppliedFields(id) =>
                        new.end = Earlier(u.end, turn.window.end)
                  /\ new.label = Labelled(id, u)

\* A person may write the same day by hand: the writers share their rules.
ManualAgrees ==
    phase = "done" =>
        Commanded(turn.day, candidate, "manual", turn.window)
            = [accepted |-> TRUE, day |-> candidate]

LastTimed(id) ==
    Max({0} \union {i \in DOMAIN actions :
                       actions[i].task = id /\ (Timed(actions[i]) \/ Sized(actions[i]))})

(* A duration that is applied is exactly the duration that was asked for,  *)
(* never what the edge of the window or an earlier action left of it.      *)
DurationExact ==
    phase = "done" =>
        \A id \in DOMAIN updates \intersect accepted :
            LastTimed(id) # 0 /\ Sized(actions[LastTimed(id)]) =>
                LET a == actions[LastTimed(id)]
                IN  a.duration # None => candidate[id].end - candidate[id].start = a.duration

(* An addition that the planner placed does not start before now, and      *)
(* lies inside the window.                                                 *)
PlacedAhead ==
    \A i \in Untimed : TempId(i) \in DOMAIN candidate =>
        LET b == candidate[TempId(i)]
        IN  /\ InWindow(b.start, turn.window) /\ InWindow(b.end, turn.window)
            /\ b.end - b.start = Length(actions[i])
            /\ turn.now.today =>
                  /\ b.start >= turn.now.minutes
                  /\ turn.now.leftover => b.start > turn.now.minutes

(* When the user is told that no free slot fits, none does: not with the   *)
(* whole gap anywhere, nor without any gap at the earliest start.          *)
NoSlotIsTrue ==
    \A i \in Untimed : TempId(i) \in DOMAIN rejected =>
        LET length == Length(actions[i])
            taken(c, gap) ==
                \E b \in DOMAIN candidate :
                    TimesOverlap([start |-> c, end |-> c + length],
                                 [start |-> candidate[b].start - gap,
                                  end |-> candidate[b].end + gap])
        IN  \A c \in Base..(turn.window.end - length) : OnGrid(c) =>
                taken(c, turn.gap) /\ (c = Base => taken(c, 0))

\* A suggested slot is one that the next turn would accept, as it is.
SuggestionAcceptable ==
    phase = "done" =>
        \A id \in DOMAIN updates :
            LET slot == Suggestion(id)
                u == updates[id]
            IN  slot # None =>
                  Commanded(candidate,
                      Put(candidate, id,
                          [candidate[id] EXCEPT !.start = slot,
                                                !.end = slot + u.end - u.start]),
                      "ai", turn.window).accepted

\* A plan is found within the bound of rounds, leaves no overlap, keeps requested durations,
\* and the planner of manual edits agrees with it; blocks without a time are placed ahead of
\* the clock, "no slot" means that there is none, and a suggested time can be had
\* (plan_mutations, _find_auto_slot).
PlanSound ==
    /\ PlanTypeOK
    /\ PlanDisjoint
    /\ Converges
    /\ ManualAgrees
    /\ DurationExact
    /\ PlacedAhead
    /\ NoSlotIsTrue
    /\ SuggestionAcceptable

\* What is said of an action is what happened to its block: reasons, rivals that share
\* their fate, and outcomes (the outcomes of plan_mutations).
VerdictsTrue == OverlapReasonsTrue /\ RivalsShareFate /\ OutcomesTrue

(* A move without a new end keeps the length of its block.                 *)
MovesKeepLength ==
    phase = "done" =>
        \A id \in DOMAIN updates \intersect accepted :
            (\A i \in DOMAIN actions : actions[i].task = id => BareMove(actions[i])) =>
                candidate[id].end - updates[id].start
                    = GridUp(turn.day[id].end - turn.day[id].start)
=============================================================================

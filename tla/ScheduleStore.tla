---------------------------- MODULE ScheduleStore ----------------------------
(***************************************************************************)
(* The server side of one user's schedule data: the days (Schedule and     *)
(* TimeBlock rows), the category catalog and the frozen daily reviews,     *)
(* with every writer that goes through the shared mutation executor of     *)
(* backend/schedules/mutations.py.                                         *)
(*                                                                         *)
(* Every write runs in one transaction that first reserves the User row    *)
(* (user_write_lock), so a write is one atomic step; what interleaves is   *)
(* the moment a client captures a day and the moment its write, based on   *)
(* that capture, arrives.  A rejected write (409, 400, 404, busy database) *)
(* rolls back whole and is a stuttering step.                              *)
(*                                                                         *)
(* Data: a block is its half-open interval, category and completion flag;  *)
(* title, sort order and origin are further payload of the same kind.  The *)
(* intervals of a day are disjoint, so an interval identifies a block      *)
(* within one revision.  An aggregate of a review is kept as the set that  *)
(* the code counts: a count is a set of block starts, a number of minutes  *)
(* is a set of minutes of the day.                                         *)
(***************************************************************************)
EXTENDS Naturals, FiniteSets

CONSTANTS
    Clients,        \* browser tabs, API clients and AI requests of the user
    Dates,          \* calendar days
    Slugs,          \* category slugs that can ever exist
    Sink,           \* the undeletable category that receives orphans
    Seeds,          \* categories created on first use
    SeedDefault,    \* the seeded default for new blocks
    MaxCategories,  \* MAX_CATEGORIES
    Horizon,        \* minutes of a day
    MaxRevision     \* bound on Schedule.revision (2^63 - 1 in the code)

ASSUME StoreAssumption ==
    /\ Sink \in Seeds
    /\ SeedDefault \in Seeds
    /\ Seeds \subseteq Slugs
    /\ MaxCategories \in Nat
    /\ Horizon \in Nat
    /\ MaxRevision \in Nat

VARIABLES
    catalog,        \* slugs of the Category rows
    default,        \* the slug whose row has is_new_block_default
    status,         \* Schedule.status per date, "absent" without a row
    revision,       \* Schedule.revision per date
    blocks,         \* the TimeBlock rows per date
    review,         \* the DailyReview row per date
    view            \* what each client last captured of one day

catalogVars == <<catalog, default>>
dayVars == <<status, revision, blocks>>
vars == <<catalog, default, status, revision, blocks, review, view>>

-----------------------------------------------------------------------------
(* Types *)

Minutes == 0..Horizon

Block == {b \in [start : Minutes, end : Minutes, category : Slugs, done : BOOLEAN] :
            b.start < b.end}

\* Variant: two blocks clash only when they start together.
DistinctStarts(B) == \A b1, b2 \in B : b1 = b2 \/ b1.start # b2.start

\* validate_final_state accepts exactly the sets without an overlapping pair.
NonOverlapping(B) ==
    \A b1, b2 \in B : b1 = b2 \/ b1.end <= b2.start \/ b2.end <= b1.start

DayPlans == {B \in SUBSET Block : NonOverlapping(B)}

Statuses == {"draft", "active", "reviewed"}

Untagged == MaxRevision + 1     \* reviewed_revision is NULL

Aggregates == [planned : SUBSET Minutes, completed : SUBSET Minutes,
               plannedMinutes : [Slugs -> SUBSET Minutes],
               completedMinutes : [Slugs -> SUBSET Minutes]]

NoReview == [tag |-> "none"]

Reviews == [tag : 0..Untagged, stats : Aggregates]

NoView == [date |-> "none"]

Views == [date : Dates, revision : 0..MaxRevision, status : Statuses, blocks : SUBSET Block]

-----------------------------------------------------------------------------
(* Review aggregates *)

HasReview(d) == review[d] # NoReview

StartsOf(B) == {b.start : b \in B}

MinutesOf(B) == UNION {b.start .. (b.end - 1) : b \in B}

Effective(b, known) == IF b.category \in known THEN b.category ELSE Sink

\* compute_review_stats; the time-dependent skipped_count is left out.
Stats(B, known) ==
    LET of(S, c) == {b \in S : Effective(b, known) = c}
        done == {b \in B : b.done}
    IN  [planned |-> StartsOf(B),
         completed |-> StartsOf(done),
         plannedMinutes |-> [c \in Slugs |-> MinutesOf(of(B, c))],
         completedMinutes |-> [c \in Slugs |-> MinutesOf(of(done, c))]]

\* The row that get_or_create inserts when only notes are saved.
EmptyStats == Stats({}, {Sink})

\* is_review_snapshot_current
SnapshotCurrent(d) ==
    /\ status[d] = "reviewed"
    /\ HasReview(d)
    /\ review[d].tag = revision[d]

\* freeze_review_snapshot: update_or_create with the tag of an accepted revision.
Freeze(d, tag) ==
    review' = [review EXCEPT ![d] = [tag |-> tag, stats |-> Stats(blocks[d], catalog)]]

-----------------------------------------------------------------------------
(* The mutation executor *)

\* A missing row is created as an empty draft at revision 0 by the same write.
Effectively(d) == IF status[d] = "absent" THEN "draft" ELSE status[d]

\* Variant: the write reserves the row without comparing the revision.
AcceptsStale(c, d) == view[c].revision <= revision[d]

\* The compare-and-set on the revision the client captured.
Accepts(c, d) == view[c].revision = revision[d]

\* Writes addressed by date may create the day, writes by id may not.
ByDate(c, d) == view[c] # NoView /\ view[c].date = d

ById(c, d) == ByDate(c, d) /\ status[d] # "absent"

Capture(c, d, snapshot) == view' = [view EXCEPT ![c] = snapshot]

Snapshot(d, rev, st, B) == [date |-> d, revision |-> rev, status |-> st, blocks |-> B]

\* Variant: only block rows are compared, not the status.
NextRevisionOfBlocks(d, st, B) ==
    IF B # blocks[d] THEN revision[d] + 1 ELSE revision[d]

\* The revision is advanced once, and only when the day differs after the write.
NextRevision(d, st, B) ==
    IF st # Effectively(d) \/ B # blocks[d] THEN revision[d] + 1 ELSE revision[d]

\* The accepted tail of _execute: the callback left the day at (st, B), the
\* response carries the snapshot captured in the transaction.
Commit(c, d, st, B) ==
    LET rev == NextRevision(d, st, B) IN
    /\ rev <= MaxRevision
    /\ status' = [status EXCEPT ![d] = st]
    /\ blocks' = [blocks EXCEPT ![d] = B]
    /\ revision' = [revision EXCEPT ![d] = rev]
    /\ Capture(c, d, Snapshot(d, rev, st, B))

\* mark_active_on_edit, for the handlers that call it only after a real diff.
ActiveIfChanged(d, B) == IF B # blocks[d] THEN "active" ELSE status[d]

-----------------------------------------------------------------------------
(* Initial state: a user whose catalog is seeded and who opened no day. *)

Init ==
    /\ catalog = Seeds
    /\ default = SeedDefault
    /\ status = [d \in Dates |-> "absent"]
    /\ revision = [d \in Dates |-> 0]
    /\ blocks = [d \in Dates |-> {}]
    /\ review = [d \in Dates |-> NoReview]
    /\ view = [c \in Clients |-> NoView]

-----------------------------------------------------------------------------
(* Reads *)

\* The schedule page: the row is created on the first visit, then captured.
OpenDay(c, d) ==
    /\ status' = [status EXCEPT ![d] = Effectively(d)]
    /\ Capture(c, d, Snapshot(d, revision[d], Effectively(d), blocks[d]))
    /\ UNCHANGED <<catalogVars, revision, blocks, review>>

\* A client that saw no row for the day writes with expected_revision 0.
AssumeNewDay(c, d) ==
    /\ status[d] = "absent"
    /\ Capture(c, d, Snapshot(d, 0, "draft", {}))
    /\ UNCHANGED <<catalogVars, dayVars, review>>

-----------------------------------------------------------------------------
(* Block writes *)

\* _create_block, MANUAL or IMPORT: the category is validated under the lock.
CreateBlock(c, d) ==
    /\ ByDate(c, d)
    /\ Accepts(c, d)
    /\ \E b \in Block :
        /\ b \notin blocks[d]
        /\ b.category \in catalog
        /\ NonOverlapping(blocks[d] \union {b})
        /\ Commit(c, d, "active", blocks[d] \union {b})
    /\ UNCHANGED <<catalogVars, review>>

\* block_detail PATCH: any fields of one block; an equal value is a no-op.
PatchBlock(c, d) ==
    /\ ById(c, d)
    /\ Accepts(c, d)
    /\ \E old \in blocks[d], new \in Block :
        LET after == (blocks[d] \ {old}) \union {new} IN
        /\ new.category \in catalog \union {old.category}
        /\ new \notin blocks[d] \ {old}
        /\ NonOverlapping(after)
        /\ Commit(c, d, ActiveIfChanged(d, after), after)
    /\ UNCHANGED <<catalogVars, review>>

\* block_detail DELETE
DeleteBlock(c, d) ==
    /\ ById(c, d)
    /\ Accepts(c, d)
    /\ \E b \in blocks[d] : Commit(c, d, "active", blocks[d] \ {b})
    /\ UNCHANGED <<catalogVars, review>>

\* reorder_blocks: a batch of new intervals, judged on the final state only.
ReorderBlocks(c, d) ==
    /\ ById(c, d)
    /\ Accepts(c, d)
    /\ \E moved \in (SUBSET blocks[d]) \ {{}} :
       \E to \in [moved -> {b \in Block : \E o \in moved :
                                b.category = o.category /\ b.done = o.done}] :
        LET after == (blocks[d] \ moved) \union {to[b] : b \in moved} IN
        /\ \A b \in moved : to[b].category = b.category /\ to[b].done = b.done
        /\ Cardinality(after) = Cardinality(blocks[d])
        /\ NonOverlapping(after)
        /\ Commit(c, d, ActiveIfChanged(d, after), after)
    /\ UNCHANGED <<catalogVars, review>>

\* Variant: saved blocks keep the category they were saved with.
AdoptAsSaved(saved) == saved

\* A category deleted since the snapshot was taken folds into the sink.
Adopt(saved) ==
    {[b EXCEPT !.category = Effective(b, catalog)] : b \in saved}

\* restore_blocks, the target of Undo: it replaces the day and keeps its status.
RestoreBlocks(c, d) ==
    /\ ByDate(c, d)
    /\ Accepts(c, d)
    /\ \E saved \in DayPlans : Commit(c, d, Effectively(d), Adopt(saved))
    /\ UNCHANGED <<catalogVars, review>>

\* _apply_actions_sync: any plan of the AI over the day it was shown.
ApplyChat(c, d) ==
    /\ ById(c, d)
    /\ Accepts(c, d)
    /\ \E after \in DayPlans :
        /\ \A b \in after \ blocks[d] :
              b.category \in catalog \union {o.category : o \in blocks[d]}
        /\ Commit(c, d, ActiveIfChanged(d, after), after)
    /\ UNCHANGED <<catalogVars, review>>

\* _apply_draft_sync: only onto an empty day, whose status stays as it is.
ApplyDraft(c, d) ==
    /\ ById(c, d)
    /\ Accepts(c, d)
    /\ blocks[d] = {}
    /\ \E after \in DayPlans :
        /\ \A b \in after : b.category \in catalog
        /\ Commit(c, d, status[d], after)
    /\ UNCHANGED <<catalogVars, review>>

-----------------------------------------------------------------------------
(* Reviews *)

\* mark_reviewed on an active day: freeze at the revision the write will have.
MarkReviewed(c, d) ==
    /\ ById(c, d)
    /\ status[d] = "active"
    /\ Accepts(c, d)
    /\ Freeze(d, revision[d] + 1)
    /\ Commit(c, d, "reviewed", blocks[d])
    /\ UNCHANGED catalogVars

\* mark_reviewed again: resolved before any revision check, it repairs a
\* missing or stale snapshot at the current revision and edits nothing.
RetryReview(c, d) ==
    /\ ById(c, d)
    /\ status[d] = "reviewed"
    /\ IF SnapshotCurrent(d) THEN UNCHANGED review ELSE Freeze(d, revision[d])
    /\ Capture(c, d, Snapshot(d, revision[d], status[d], blocks[d]))
    /\ UNCHANGED <<catalogVars, dayVars>>

\* _write_notes: notes need a row, and a row made for notes freezes nothing.
WriteNotes(d) ==
    /\ status[d] # "absent"
    /\ ~HasReview(d)
    /\ review' = [review EXCEPT ![d] = [tag |-> Untagged, stats |-> EmptyStats]]
    /\ UNCHANGED <<catalogVars, dayVars, view>>

-----------------------------------------------------------------------------
(* The category catalog *)

CreateCategory(slug) ==
    /\ slug \notin catalog
    /\ Cardinality(catalog) < MaxCategories
    /\ catalog' = catalog \union {slug}
    /\ UNCHANGED <<default, dayVars, review, view>>

\* update_category with is_new_block_default
SetDefaultCategory(slug) ==
    /\ slug \in catalog \ {default}
    /\ default' = slug
    /\ UNCHANGED <<catalog, dayVars, review, view>>

ToSink(B, slug) ==
    {IF b.category = slug THEN [b EXCEPT !.category = Sink] ELSE b : b \in B}

\* Variant: the minutes of the category disappear with its key.
DropMinutes(minutes, slug) == [minutes EXCEPT ![slug] = {}]

\* Variant: the sink's own minutes are replaced.
OverwriteMinutes(minutes, slug) ==
    [minutes EXCEPT ![slug] = {}, ![Sink] = minutes[slug]]

FoldMinutes(minutes, slug) ==
    [minutes EXCEPT ![slug] = {}, ![Sink] = minutes[Sink] \union minutes[slug]]

FoldStats(stats, slug) ==
    [planned |-> stats.planned,
     completed |-> stats.completed,
     plannedMinutes |-> FoldMinutes(stats.plannedMinutes, slug),
     completedMinutes |-> FoldMinutes(stats.completedMinutes, slug)]

\* The days whose blocks mention the category: each is remapped by a nested
\* maintenance write, which checks no revision and advances it by one.
DaysUsing(slug) == {d \in Dates : \E b \in blocks[d] : b.category = slug}

\* Variant: the tag of every reviewed day follows.
FollowedTagAlways(d, slug) ==
    IF d \in DaysUsing(slug) /\ status[d] = "reviewed" THEN revision[d] + 1
    ELSE review[d].tag

\* The tag follows the bump only if the snapshot was current before it.
FollowedTag(d, slug) ==
    IF d \in DaysUsing(slug) /\ SnapshotCurrent(d) THEN revision[d] + 1 ELSE review[d].tag

\* Variant: only reviews of days that still use the category are rewritten.
FoldReviewOfUsers(d, slug) ==
    IF HasReview(d) /\ d \in DaysUsing(slug)
    THEN [tag |-> FollowedTag(d, slug), stats |-> FoldStats(review[d].stats, slug)]
    ELSE review[d]

FoldReview(d, slug) ==
    IF HasReview(d)
    THEN [tag |-> FollowedTag(d, slug), stats |-> FoldStats(review[d].stats, slug)]
    ELSE NoReview

DeleteCategory(slug) ==
    /\ slug \in catalog \ {Sink}
    /\ \A d \in DaysUsing(slug) : revision[d] < MaxRevision
    /\ blocks' = [d \in Dates |-> ToSink(blocks[d], slug)]
    /\ revision' = [d \in Dates |-> IF d \in DaysUsing(slug) THEN revision[d] + 1
                                                             ELSE revision[d]]
    /\ review' = [d \in Dates |-> FoldReview(d, slug)]
    /\ catalog' = catalog \ {slug}
    /\ default' = IF default = slug THEN Sink ELSE default
    /\ UNCHANGED <<status, view>>

-----------------------------------------------------------------------------

ClientStep(c, d) ==
    \/ OpenDay(c, d) \/ AssumeNewDay(c, d)
    \/ CreateBlock(c, d) \/ PatchBlock(c, d) \/ DeleteBlock(c, d)
    \/ ReorderBlocks(c, d) \/ RestoreBlocks(c, d)
    \/ ApplyChat(c, d) \/ ApplyDraft(c, d)
    \/ MarkReviewed(c, d) \/ RetryReview(c, d)

CategoryStep(slug) ==
    CreateCategory(slug) \/ SetDefaultCategory(slug) \/ DeleteCategory(slug)

Next ==
    \/ \E c \in Clients, d \in Dates : ClientStep(c, d)
    \/ \E d \in Dates : WriteNotes(d)
    \/ \E slug \in Slugs : CategoryStep(slug)

Spec == Init /\ [][Next]_vars

-----------------------------------------------------------------------------
(* Properties *)

\* The rows and the captures have the types the models declare.
TypeOK ==
    /\ catalog \in SUBSET Slugs
    /\ default \in Slugs
    /\ status \in [Dates -> Statuses \union {"absent"}]
    /\ revision \in [Dates -> 0..MaxRevision]
    /\ blocks \in [Dates -> SUBSET Block]
    /\ review \in [Dates -> Reviews \union {NoReview}]
    /\ view \in [Clients -> Views \union {NoView}]

\* No minute of a day is planned twice, whichever writer (create, patch, batch
\* reorder, undo, chat, draft, category deletion) touched the day last: what
\* validate_final_state is for (planning.py:230-240).
DisjointBlocks ==
    \A d \in Dates : \A b1, b2 \in blocks[d] :
        (\E m \in Minutes : /\ b1.start <= m /\ m < b1.end
                            /\ b2.start <= m /\ m < b2.end) => b1 = b2

\* Every block names a category that exists, also after its category was
\* deleted while an undo snapshot or an AI answer still mentioned it, and the
\* catalog always has its sink and its default (categories.py:75-86 raise else).
CatalogCovers ==
    /\ {Sink, default} \subseteq catalog
    /\ \A d \in Dates : \A b \in blocks[d] : b.category \in catalog

\* The number alone identifies the day: a capture whose revision is still the
\* current one shows the current status and blocks.  This is what makes the
\* compare-and-set of _execute (mutations.py:139-146) protect content, across
\* maintenance writes, no-op writes and review repairs.
RevisionIdentifiesState ==
    \A c \in Clients, d \in Dates : ByDate(c, d) =>
        /\ view[c].revision <= revision[d]
        /\ view[c].revision = revision[d] =>
              /\ view[c].status = Effectively(d)
              /\ view[c].blocks = blocks[d]

\* A review shown as frozen (services.py:116-123) equals what would be computed
\* from the day's present blocks: edits unfreeze it, undo makes it stale, and a
\* category deletion rewrites blocks and aggregates alike.
FrozenSnapshotFaithful ==
    \A d \in Dates :
        SnapshotCurrent(d) => review[d].stats = Stats(blocks[d], catalog)

\* No stored aggregate mentions a deleted category, also in reviews that are
\* stale or whose day no longer uses it (categories.py:222-255).
ReviewMapsInCatalog ==
    \A d \in Dates : HasReview(d) =>
        \A slug \in Slugs \ catalog :
            /\ review[d].stats.plannedMinutes[slug] = {}
            /\ review[d].stats.completedMinutes[slug] = {}

\* Only reviewing makes a snapshot current: a first review of an active day, or
\* a repair that leaves the day alone.  Maintenance never revives a stale one
\* (categories.py:202-208).
OnlyReviewMakesCurrent ==
    [][\A d \in Dates : ~SnapshotCurrent(d) /\ SnapshotCurrent(d)' =>
            /\ blocks'[d] = blocks[d]
            /\ \/ status[d] = "active" /\ revision'[d] = revision[d] + 1
               \/ status[d] = "reviewed" /\ revision'[d] = revision[d]]_vars

\* Deleting a category moves minutes of stored reviews, and never loses any.
HistoryConserved ==
    [][catalog' # catalog =>
        \A d \in Dates : HasReview(d) =>
            UNION {review'[d].stats.plannedMinutes[slug] : slug \in Slugs}
              = UNION {review[d].stats.plannedMinutes[slug] : slug \in Slugs}]_vars

-----------------------------------------------------------------------------
(* The abstract store: no revisions, a write is accepted exactly when the    *)
(* content its client captured is still the content of the day.              *)

Content(d) == [status |-> Effectively(d), blocks |-> blocks[d]]

Seen(c) ==
    IF view[c] = NoView THEN [date |-> "none"]
    ELSE [date |-> view[c].date,
          content |-> [status |-> view[c].status, blocks |-> view[c].blocks]]

Optimistic == INSTANCE OptimisticDays WITH
    Contents <- [status : Statuses, blocks : SUBSET Block],
    NewDay <- [status |-> "draft", blocks |-> {}],
    content <- [d \in Dates |-> Content(d)],
    seen <- [c \in Clients |-> Seen(c)]

\* The executor implements the abstract store: comparing revision numbers is as
\* good as comparing whole days, so no accepted write overwrites what its
\* client did not see (mutations.py:127-199).
ImplementsOptimisticDays == Optimistic!Spec
=============================================================================

---------------------------- MODULE SchedulePage ----------------------------
(***************************************************************************)
(* One browser tab over the days of one user: the page that owns a day     *)
(* (useScheduleRevision.ts), the record of writes that outlives the page   *)
(* (scheduleWriteCoordinator.ts), its undo history (useUndo.ts) and the    *)
(* queue of check marks (useBlockCompletion.ts).                           *)
(*                                                                         *)
(* A step is one event of the browser: a click, a response, a navigation;  *)
(* the promises an event settles run before the next one.  A response of   *)
(* the server is read at some moment between its request and its arrival.  *)
(* A day is the sequence of its contents, so that revision r shows         *)
(* day[d][r + 1]; a content is named by the revision that made it.         *)
(***************************************************************************)
EXTENDS Integers, Sequences, FiniteSets, SequencesExt

CONSTANTS
    Dates,
    Slots,            \* requests in flight, old owners' ones included
    MaxRevision,      \* bound on the writes of a day
    MaxGeneration,    \* bound on page visits and resets
    MaxUndo,          \* MAX_UNDO_STACK
    MaxChecks,        \* check marks that may wait
    None

VARIABLES
    day,      \* the server: the contents of every day
    tab,      \* the memory of the tab
    write,    \* the writes of the tab that are not settled
    visit     \* the navigation in flight

vars == <<day, tab, write, visit>>

Revision(d) == Len(day[d]) - 1

Snapshots(d, from) == {[date |-> d, rev |-> r, blocks |-> day[d][r + 1]] : r \in from .. Revision(d)}

\* A write: the capture of begin, what it asks for, and how far it got.
Idle == [stage |-> "idle"]

Phases == {"idle", "saving", "synchronizing", "conflict"}

-----------------------------------------------------------------------------
(* The memory of the tab.  floor, dirty and pending are the coordinator's  *)
(* records and survive every page; handoff and gate are the two tasks that *)
(* wait for writes and then read the day.                                  *)

NewOwner(app, generation, props) ==
    [app EXCEPT !.props = props, !.date = props.date, !.gen = generation, !.born = generation,
                !.scope = generation, !.live = TRUE, !.rev = None, !.blocks = None, !.highest = -1,
                !.phase = "idle", !.active = None, !.handoff = None, !.gate = None, !.seen = FALSE,
                !.barrier = FALSE, !.undo = <<>>, !.own = {}, !.waiting = 0, !.failed = FALSE]

EmptyTab(props) ==
    [floor |-> [d \in Dates |-> -1], dirty |-> [d \in Dates |-> FALSE],
     pending |-> [d \in Dates |-> {}], reads |-> {}, props |-> props, date |-> props.date, gen |-> 0,
     born |-> 0, scope |-> 0, live |-> FALSE, rev |-> None, blocks |-> None, highest |-> -1,
     phase |-> "idle", active |-> None, handoff |-> None, gate |-> None, seen |-> FALSE,
     barrier |-> FALSE, undo |-> <<>>, own |-> {}, waiting |-> 0, chain |-> None, failed |-> FALSE]

\* What capture demands of a page before it lends its day to a writer.
Editable(t) == t.live /\ t.phase = "idle" /\ t.handoff = None /\ t.rev # None

IsCurrent(t, w) == t.live /\ w.gen = t.gen /\ w.date = t.date

\* The elements of a sequence at the places of K, in their order.
Nth(K, n) == CHOOSE i \in K : Cardinality({j \in K : j < i}) = n - 1

At(s, K) == [n \in 1 .. Cardinality(K) |-> s[Nth(K, n)]]

InvalidateHistory(t, d) ==
    [t EXCEPT !.undo = At(t.undo, {i \in DOMAIN t.undo : t.undo[i].date # d})]

Acknowledge(t, d, rev, authoritative) ==
    IF t.pending[d] = {} /\ rev >= t.floor[d] /\ (authoritative \/ ~t.dirty[d])
    THEN [t EXCEPT !.dirty[d] = FALSE] ELSE t

\* Variant: the props of any visit replace the snapshot.
AnyProps(t) == TRUE

\* No step back in the revisions the page has shown.
Fresh(t) == t.props.rev >= t.highest

\* The early returns of ingestProps.
CanIngest(t, authoritative) ==
    /\ t.live
    /\ authoritative \/ (t.handoff = None /\ t.gate = None)
    /\ ~t.barrier
    /\ Fresh(t)
    /\ ~(t.props.rev = t.highest /\ t.phase = "idle" /\ t.props.blocks # t.blocks)

Shown(t) ==
    [t EXCEPT !.rev = t.props.rev, !.blocks = t.props.blocks, !.highest = t.props.rev,
              !.seen = TRUE, !.phase = IF t.active = None THEN "idle" ELSE @]

Ingest(t, authoritative) ==
    IF ~CanIngest(t, authoritative) THEN t
    ELSE Acknowledge(Shown(IF t.rev # None /\ t.props.rev > t.highest
                           THEN InvalidateHistory(t, t.date) ELSE t),
                     t.date, t.props.rev, authoritative)

Settled(t) == t.pending[t.date] = {} /\ ~t.dirty[t.date]

UpToDate(t) == t.props.rev >= t.floor[t.date]

\* Variant: a new owner takes what its visit read, whatever is in flight.
NoHandoff(t) == t

StartHandoff(t) ==
    InvalidateHistory([t EXCEPT !.handoff = "waiting", !.rev = None, !.blocks = None,
                                !.phase = "synchronizing", !.waiting = 0], t.date)

CheckHandoff(t) ==
    CASE ~t.live \/ t.active # None -> t
      [] t.live /\ t.active = None /\ t.handoff # None ->
            IF t.handoff # "reading" /\ Settled(t) /\ UpToDate(t)
            THEN Ingest([t EXCEPT !.handoff = None], FALSE) ELSE t
      [] OTHER ->
            IF Settled(t) /\ (UpToDate(t) \/ (t.rev # None /\ t.rev >= t.floor[t.date]))
            THEN t ELSE StartHandoff(t)

\* The watcher of the props.
Watch(t) == Ingest(CheckHandoff(t), FALSE)

Asking(t, by) == [t EXCEPT !.reads = @ \union
                    {[by |-> by, gen |-> t.gen, date |-> t.date, from |-> Revision(t.date)]}]

\* Variant: the day is read while a write of the page before is in flight.
EagerHandoff(t) ==
    IF t.handoff # "waiting" THEN t ELSE Asking([t EXCEPT !.handoff = "reading"], "handoff")

\* Variant: a handoff ends with props that are new enough, or not at all.
PropsOnlyHandoff(t) ==
    IF t.handoff = "waiting" /\ Settled(t) /\ UpToDate(t)
    THEN Ingest([t EXCEPT !.handoff = None], FALSE) ELSE t

\* A handoff whose writes have settled: the props may do, or the day is read.
ResumeHandoff(t) ==
    IF ~(t.handoff = "waiting" /\ t.pending[t.date] = {}) THEN t
    ELSE IF Settled(t) /\ UpToDate(t) THEN Ingest([t EXCEPT !.handoff = None], FALSE)
    ELSE Asking([t EXCEPT !.handoff = "reading"], "handoff")

\* reconcileContext, once no write of the old context is left.
ResumeGate(t) ==
    IF t.gate = "waiting" /\ \A s \in t.own : write'[s].date # t.date
    THEN Asking([t EXCEPT !.gate = "reading"], "context") ELSE t

Resume(t) == ResumeGate(ResumeHandoff(t))

Reset(t, reason) ==
    [t EXCEPT !.gen = @ + 1, !.scope = IF reason = "date" THEN @ ELSE t.gen + 1,
              !.handoff = None, !.gate = IF reason = "context" THEN "waiting" ELSE None,
              !.active = None, !.rev = None, !.blocks = None, !.highest = -1,
              !.phase = "synchronizing", !.undo = IF reason = "date" THEN @ ELSE <<>>,
              !.live = @ /\ reason # "session", !.waiting = 0, !.failed = FALSE]

\* coordinator.clear
Forget(t) ==
    [t EXCEPT !.floor = [d \in Dates |-> -1], !.dirty = [d \in Dates |-> FALSE],
              !.pending = [d \in Dates |-> {}]]

-----------------------------------------------------------------------------
(* The end of a write, as settle's finally sees it. *)

Settlement(reply) ==
    CASE reply.kind \in {"accepted", "bare"} -> "accepted"
      [] reply.kind \in {"conflict", "unknown"} -> "uncertain"
      [] OTHER -> "rejected"

Dirties(reply) == Settlement(reply) = "uncertain" \/ reply.kind = "bare"

\* The ticket of the coordinator; a ticket of an earlier session does nothing.
Release(t, s, w) ==
    LET settled == [t EXCEPT !.own = @ \ {s}] IN
    IF s \notin t.pending[w.date] THEN settled
    ELSE [settled EXCEPT
            !.pending[w.date] = @ \ {s},
            !.dirty[w.date] = @ \/ Dirties(w.reply),
            !.floor[w.date] = IF w.reply.kind = "accepted" /\ w.reply.rev > @ THEN w.reply.rev ELSE @]

\* finally: the ticket, then what the page shows is acknowledged.
Finally(t, s, w, reread) ==
    LET released == Release(t, s, w) IN
    IF IsCurrent(t, w) /\ t.rev # None /\ (Settlement(w.reply) = "accepted" \/ reread)
    THEN Acknowledge(released, w.date, t.rev, reread) ELSE released

EntriesOf(t, d) == {i \in DOMAIN t.undo : t.undo[i].date = d}

LastEntry(t, d) == CHOOSE i \in EntriesOf(t, d) : \A j \in EntriesOf(t, d) : j <= i

\* The revision of the last entry continues the history of the day.
Continues(t, d, previous) == EntriesOf(t, d) # {} => t.undo[LastEntry(t, d)].expected = previous

\* pushUndo; made names the action for good, expected moves with its restores.
PushUndo(t, w) ==
    LET kept == IF Continues(t, w.date, w.rev) THEN t ELSE InvalidateHistory(t, w.date)
        entry == [date |-> w.date, before |-> w.blocks, previous |-> w.rev,
                  expected |-> t.rev, made |-> t.rev]
        pushed == Append(kept.undo, entry) IN
    [kept EXCEPT !.undo = IF Len(pushed) > MaxUndo THEN Tail(pushed) ELSE pushed]

Same(e, made, d) == e.made = made /\ e.date = d

Spent(t, w) ==
    [t EXCEPT !.undo = At(t.undo, {i \in DOMAIN t.undo : ~Same(t.undo[i], w.entry.made, w.date)})]

\* The entry below the spent one follows the restored revision, if they join.
Rebound(t, w) ==
    IF EntriesOf(t, w.date) = {} THEN t
    ELSE IF t.undo[LastEntry(t, w.date)].expected = w.entry.previous
    THEN [t EXCEPT !.undo[LastEntry(t, w.date)].expected = t.rev]
    ELSE InvalidateHistory(t, w.date)

\* performUndo after the restore, with or without a confirmed snapshot.
UndoDone(t, w, confirmed) ==
    IF ~IsCurrent(t, w) THEN Spent(t, w)
    ELSE IF confirmed THEN Rebound(Spent(t, w), w)
    ELSE InvalidateHistory(Spent(t, w), w.date)

\* registerMutationUndo for an edit, the rest of performUndo for a restore.
History(t, w, confirmed) ==
    IF w.kind = "undo" THEN UndoDone(t, w, confirmed)
    ELSE IF confirmed /\ t.blocks # w.blocks THEN PushUndo(t, w) ELSE t

-----------------------------------------------------------------------------
(* Writers *)

\* begin: one writer leases the page.
Capture(t, kind) ==
    [stage |-> "sent", kind |-> kind, date |-> t.date, gen |-> t.gen, scope |-> t.scope,
     rev |-> t.rev, blocks |-> t.blocks, entry |-> None, reply |-> None]

Leased(t, s) ==
    [t EXCEPT !.active = s, !.phase = "saving", !.own = @ \union {s},
              !.pending[t.date] = @ \union {s}]

Begin(s, w) ==
    /\ write[s] = Idle
    /\ Editable(tab)
    /\ write' = [write EXCEPT ![s] = w]
    /\ tab' = Leased([tab EXCEPT !.chain = IF w.kind = "check" THEN tab.rev ELSE @], s)
    /\ UNCHANGED <<day, visit>>

\* Any edit of the day, or its review.
Edit(s) == \E kind \in {"edit", "review"} : Begin(s, Capture(tab, kind))

Checking == \E s \in tab.own : write[s].kind = "check" /\ write[s].gen = tab.gen

\* setCompleted: the first mark is sent, further marks wait for it.
Check(s) == Begin(s, Capture(tab, "check"))

QueueCheck ==
    /\ Checking
    /\ tab.waiting < MaxChecks
    /\ tab' = [tab EXCEPT !.waiting = @ + 1]
    /\ UNCHANGED <<day, write, visit>>

Undoing == \E s \in tab.own : write[s].kind = "undo"

TopEntry == tab.undo[LastEntry(tab, tab.date)]

\* Variant: the entry is restored at whatever revision the page shows.
UndoAnyRevision(s) ==
    /\ ~Undoing
    /\ EntriesOf(tab, tab.date) # {}
    /\ Begin(s, [Capture(tab, "undo") EXCEPT !.entry = TopEntry])

\* performUndo with the entry of the visible revision.
Undo(s) ==
    /\ ~Undoing
    /\ EntriesOf(tab, tab.date) # {}
    /\ TopEntry.expected = tab.rev
    /\ Begin(s, [Capture(tab, "undo") EXCEPT !.entry = TopEntry])

\* The entry belongs to another revision: a conflict that needs no request.
UndoMismatch(s) ==
    /\ ~Undoing /\ write[s] = Idle /\ Editable(tab)
    /\ EntriesOf(tab, tab.date) # {}
    /\ TopEntry.expected # tab.rev
    /\ write' = [write EXCEPT ![s] = [Capture(tab, "undo") EXCEPT
                    !.entry = TopEntry, !.stage = "answered",
                    !.reply = [kind |-> "conflict", rev |-> None, blocks |-> None]]]
    /\ tab' = InvalidateHistory(Leased(tab, s), tab.date)
    /\ UNCHANGED <<day, visit>>

\* A write on a page that is neither busy nor writable reloads the day instead.
CaptureFailure ==
    /\ tab.live /\ tab.phase = "idle" /\ ~Editable(tab)
    /\ ~\E r \in tab.reads : r.by = "capture" /\ r.gen = tab.gen
    /\ tab' = Asking(tab, "capture")
    /\ UNCHANGED <<day, write, visit>>

-----------------------------------------------------------------------------
(* The server *)

Reply(kind, rev, blocks) == [kind |-> kind, rev |-> rev, blocks |-> blocks]

Answer(s, reply) == write' = [write EXCEPT ![s].stage = "answered", ![s].reply = reply]

\* What a served write makes of the day: a restore brings back its blocks, a
\* review is a revision of the same blocks, an edit may also change nothing.
Outcomes(w, history) ==
    CASE w.kind = "undo" /\ w.entry.before # Last(history) -> {Append(history, w.entry.before)}
      [] w.kind = "undo" /\ w.entry.before = Last(history) -> {history}
      [] w.kind = "review" -> {history, Append(history, Last(history))}
      [] OTHER -> {history, Append(history, Len(history))}

Serve(s) ==
    /\ write[s].stage = "sent"
    /\ write[s].rev = Revision(write[s].date)
    /\ \E after \in Outcomes(write[s], day[write[s].date]), kind \in {"accepted", "bare", "unknown"} :
        /\ Len(after) - 1 <= MaxRevision
        /\ day' = [day EXCEPT ![write[s].date] = after]
        /\ Answer(s, Reply(kind, IF kind = "accepted" THEN Len(after) - 1 ELSE None,
                            IF kind = "accepted" THEN Last(after) ELSE None))
    /\ UNCHANGED <<tab, visit>>

\* No effect: a stale revision, an invalid edit, a lost request, no session.
Decline(s) ==
    /\ write[s].stage = "sent"
    /\ \/ /\ write[s].rev # Revision(write[s].date)
          /\ Answer(s, Reply("conflict", None, None))
       \/ \E kind \in {"rejected", "unknown", "signed_out"} : Answer(s, Reply(kind, None, None))
    /\ UNCHANGED <<day, tab, visit>>

\* Another tab or device, or a lost request that is executed late.
OtherWrite(d) ==
    /\ Revision(d) < MaxRevision
    /\ day' = [day EXCEPT ![d] = Append(@, Len(@))]
    /\ UNCHANGED <<tab, write, visit>>

-----------------------------------------------------------------------------
(* settle *)

Replied(s, kinds) == write[s].stage = "answered" /\ write[s].reply.kind \in kinds

End(s, t) ==
    /\ write' = [write EXCEPT ![s] = Idle]
    /\ tab' = Resume(t)

\* Check marks that wait are dropped when the one before is not confirmed.
ChainBroken(confirmed) == ~confirmed

\* The next mark starts in the turn of events that ended the one before.
NextCheck(s, t, confirmed) ==
    /\ write' = [write EXCEPT ![s] = Capture(t, "check")]
    /\ tab' = Leased([t EXCEPT !.waiting = @ - 1, !.chain = IF confirmed THEN t.rev ELSE @], s)

\* The caller's part after settle: history, then the queue of check marks.
Finish(s, t, w, confirmed) ==
    IF w.kind = "check" /\ t.waiting > 0 /\ ~ChainBroken(confirmed) /\ Editable(t)
    THEN NextCheck(s, History(t, w, confirmed), confirmed)
    ELSE End(s, History([t EXCEPT !.waiting = IF w.kind = "check" THEN 0 ELSE @], w, confirmed))

\* 401: the session is over for this page, and its records with it.
SettleSignedOut(s) ==
    /\ Replied(s, {"signed_out"})
    /\ End(s, Release(IF IsCurrent(tab, write[s]) THEN Forget(Reset(tab, "session")) ELSE tab,
                      s, write[s]))
    /\ UNCHANGED <<day, visit>>

\* The rest of performUndo for a write its page has left.
Departed(t, w) ==
    IF w.kind = "undo" /\ Settlement(w.reply) = "accepted" THEN Spent(t, w) ELSE t

\* The page has moved on: the history of the day is invalid for its user.
SettleDeparted(s) ==
    /\ Replied(s, {"accepted", "bare", "conflict", "rejected", "unknown"})
    /\ ~IsCurrent(tab, write[s])
    /\ End(s, IF write[s].reply.kind # "rejected" /\ write[s].scope = tab.scope
              THEN InvalidateHistory(Release(tab, s, write[s]), write[s].date)
              ELSE Departed(Release(tab, s, write[s]), write[s]))
    /\ UNCHANGED <<day, visit>>

Unleased(t, phase) == [t EXCEPT !.active = None, !.phase = phase]

SettleRejected(s) ==
    /\ Replied(s, {"rejected"})
    /\ IsCurrent(tab, write[s])
    /\ \E t \in {Release(Unleased(tab, "idle"), s, write[s])} :
        IF write[s].kind = "undo" THEN End(s, t) ELSE Finish(s, t, write[s], FALSE)
    /\ UNCHANGED <<day, visit>>

Accepts(t, w) == w.reply.kind = "accepted" /\ Fresh([t EXCEPT !.props = w.reply])

\* Variant: the new revision is adopted, its blocks are not.
AcceptedRevision(t, w) == [t EXCEPT !.rev = w.reply.rev, !.highest = w.reply.rev]

\* accept
Accepted(t, w) ==
    [t EXCEPT !.rev = w.reply.rev, !.blocks = w.reply.blocks, !.highest = w.reply.rev]

SettleAccepted(s) ==
    /\ Replied(s, {"accepted"})
    /\ IsCurrent(tab, write[s])
    /\ Accepts(tab, write[s])
    /\ write[s].kind # "review"
    /\ Finish(s, Finally(Unleased(Accepted(tab, write[s]), "idle"), s, write[s], FALSE), write[s], TRUE)
    /\ UNCHANGED <<day, visit>>

\* The day is reloaded while the lease is kept.
Reload(t, s, stage) ==
    /\ write' = [write EXCEPT ![s].stage = stage]
    /\ tab' = Asking(t, s)
    /\ UNCHANGED <<day, visit>>

SettleReview(s) ==
    /\ Replied(s, {"accepted"})
    /\ IsCurrent(tab, write[s])
    /\ Accepts(tab, write[s])
    /\ write[s].kind = "review"
    /\ Reload([Accepted(tab, write[s]) EXCEPT !.phase = "synchronizing"], s, "reviewing")

\* A conflict, an unknown outcome or a reply without a usable snapshot.
SettleUncertain(s) ==
    /\ Replied(s, {"accepted", "bare", "conflict", "unknown"})
    /\ IsCurrent(tab, write[s])
    /\ ~Accepts(tab, write[s])
    /\ Reload(InvalidateHistory([tab EXCEPT !.rev = None,
                !.phase = IF write[s].reply.kind = "conflict" THEN "conflict" ELSE "synchronizing"],
                write[s].date), s, "reading")

\* reconcile after its reload; ok says whether the reload brought the day.
Reconciled(t, ok) == IF ok THEN Ingest(t, FALSE) ELSE t

\* The history was invalidated before the reload, so none is written.
AfterReload(s, t, w, ok) ==
    IF w.stage = "reviewing"
    THEN Finish(s, Finally(Unleased(t, "idle"), s, w, ok /\ t.rev # None), w,
                t.rev = w.reply.rev /\ t.blocks = w.reply.blocks)
    ELSE Finish(s, Finally(Unleased(t, IF ok /\ t.rev # None THEN "idle"
                                       ELSE IF w.reply.kind = "conflict" THEN "conflict"
                                       ELSE "synchronizing"), s, w, ok /\ t.rev # None),
                [w EXCEPT !.kind = IF @ = "check" THEN @ ELSE "edit"], FALSE)

-----------------------------------------------------------------------------
(* Reads *)

\* Inertia drops the answer of a reload that was asked for another address.
Delivered(t, r, snapshot) ==
    IF r.date # t.props.date \/ ~t.live THEN t
    ELSE Watch([t EXCEPT !.props = snapshot, !.seen = FALSE, !.barrier = FALSE])

ReadCurrent(t, r) == t.live /\ r.gen = t.gen

AfterHandoffRead(t, ok) ==
    LET shown == IF ok /\ UpToDate(t) THEN Ingest(t, TRUE) ELSE t IN
    IF ok /\ UpToDate(t) /\ CanIngest(t, TRUE) /\ shown.rev >= t.floor[t.date]
    THEN [Acknowledge(shown, t.date, shown.rev, TRUE) EXCEPT !.handoff = None, !.phase = "idle"]
    ELSE [shown EXCEPT !.handoff = "closed", !.failed = TRUE]

AfterContextRead(t, ok) ==
    IF ok /\ CanIngest(t, TRUE) THEN [Ingest(t, TRUE) EXCEPT !.gate = None]
    ELSE [t EXCEPT !.gate = "closed", !.failed = TRUE]

\* What the reader of a reload does when it ends.
ReadEnds(t, r, ok) ==
    IF r.by \in Slots
    THEN IF ReadCurrent(t, r) THEN AfterReload(r.by, Reconciled(t, ok), write[r.by], ok)
         ELSE End(r.by, Departed(Release(t, r.by, write[r.by]), write[r.by]))
    ELSE /\ UNCHANGED write
         /\ tab' = Resume(CASE ~ReadCurrent(t, r) -> t
                            [] ReadCurrent(t, r) /\ r.by = "handoff" /\ t.handoff = "reading" ->
                                    AfterHandoffRead(t, ok)
                            [] ReadCurrent(t, r) /\ r.by = "context" /\ t.gate = "reading" ->
                                    AfterContextRead(t, ok)
                            [] OTHER -> t)

ReadArrives(r) ==
    /\ \E snapshot \in Snapshots(r.date, r.from) :
        ReadEnds(Delivered([tab EXCEPT !.reads = @ \ {r}], r, snapshot), r, TRUE)
    /\ UNCHANGED <<day, visit>>

ReadFails(r) ==
    /\ ReadEnds([tab EXCEPT !.reads = @ \ {r}, !.failed = @ \/ ReadCurrent(tab, r)], r, FALSE)
    /\ UNCHANGED <<day, visit>>

-----------------------------------------------------------------------------
(* Navigation *)

Visit(d) ==
    /\ tab.gen < MaxGeneration
    /\ visit = None
    /\ visit' = [date |-> d, from |-> Revision(d)]
    /\ UNCHANGED <<day, tab, write>>

\* The page that arrives is a new owner, or the old one with other props.
VisitArrives(remount) ==
    /\ visit # None
    /\ ~tab.live => remount
    /\ UNCHANGED <<day, write>>
    /\ \E snapshot \in Snapshots(visit.date, visit.from) :
        tab' = Resume(Watch(
            IF remount THEN NewOwner(tab, tab.gen + 1, snapshot)
            ELSE LET t == [tab EXCEPT !.props = snapshot, !.seen = FALSE, !.barrier = FALSE] IN
                 IF snapshot.date = tab.date THEN t
                 ELSE [Reset(t, "date") EXCEPT !.date = snapshot.date]))
    /\ visit' = None

\* Another window or time zone: the snapshot is void until a reload.
ChangeContext ==
    /\ tab.live
    /\ tab.gen < MaxGeneration
    /\ UNCHANGED <<day, write, visit>>
    /\ tab' = Resume(Watch([Reset(tab, "context") EXCEPT !.barrier = tab.seen]))

\* Logging out, here or by another page of the tab.
EndSession ==
    /\ tab.live
    /\ tab.gen < MaxGeneration
    /\ tab' = Forget(Reset(tab, "session"))
    /\ UNCHANGED <<day, write, visit>>

-----------------------------------------------------------------------------

Init ==
    /\ day = [d \in Dates |-> <<0>>]
    /\ write = [s \in Slots |-> Idle]
    /\ visit = None
    /\ \E d \in Dates :
        \E props \in {[date |-> d, rev |-> 0, blocks |-> 0]} :
            tab = Watch(NewOwner(EmptyTab(props), 0, props))

WriteStep(s) ==
    \/ Edit(s) \/ Check(s) \/ Undo(s) \/ UndoMismatch(s)
    \/ Serve(s) \/ Decline(s)
    \/ SettleSignedOut(s) \/ SettleDeparted(s) \/ SettleRejected(s)
    \/ SettleAccepted(s) \/ SettleReview(s) \/ SettleUncertain(s)

Read == \E r \in tab.reads : ReadArrives(r) \/ ReadFails(r)

Next ==
    \/ \E s \in Slots : WriteStep(s)
    \/ QueueCheck
    \/ CaptureFailure
    \/ \E d \in Dates : OtherWrite(d) \/ Visit(d)
    \/ Read
    \/ \E remount \in BOOLEAN : VisitArrives(remount)
    \/ ChangeContext
    \/ EndSession

Spec == Init /\ [][Next]_vars

-----------------------------------------------------------------------------
(* Properties *)

TypeOK ==
    /\ \A d \in Dates : Len(day[d]) \in 1 .. MaxRevision + 1
    /\ tab.date \in Dates /\ tab.phase \in Phases
    /\ tab.gen \in Nat /\ tab.waiting \in 0 .. MaxChecks
    /\ tab.rev \in Nat \union {None} /\ tab.highest \in Nat \union {-1}
    /\ Len(tab.undo) <= MaxUndo
    /\ tab.active \in Slots \union {None}
    /\ \A d \in Dates : tab.pending[d] \subseteq Slots /\ tab.floor[d] \in Nat \union {-1}
    /\ \A s \in Slots : write[s] # Idle =>
            write[s].stage \in {"sent", "answered", "reading", "reviewing"}

\* What the page shows is what the day held at the revision it would send,
\* whichever mix of responses, reloads and visits brought the two.
VisibleIsReal ==
    tab.rev # None => /\ tab.rev <= Revision(tab.date)
                      /\ tab.blocks = day[tab.date][tab.rev + 1]

\* A page that lets its user write shows every write of the tab that was
\* confirmed, and no write of the tab is undecided: not one in flight, not one
\* with an unknown outcome, by this page or one before it.
WritersSeeOwnWrites ==
    Editable(tab) =>
        /\ tab.rev >= tab.floor[tab.date]
        /\ ~tab.dirty[tab.date]
        /\ tab.pending[tab.date] = {}

\* Of all pages that showed a day in this tab, one at a time writes to it.
OneWriter == \A d \in Dates : Cardinality(tab.pending[d]) <= 1

\* Late props and late responses never take the visible day back.
NotBack == tab'.gen = tab.gen /\ tab'.rev # None => tab'.rev >= tab.highest

NotTakenBack == [][NotBack]_vars

\* An undo that the server would accept takes back its action and nothing
\* else: the day is still as the action left it, and goes back to the content
\* from which the action started.
UndoRestoresBefore ==
    \A s \in Slots :
        write[s].stage = "sent" /\ write[s].kind = "undo" =>
            LET history == day[write[s].date]
                entry == write[s].entry IN
            /\ entry.before = history[entry.made]
            /\ write[s].rev = Len(history) - 1 => Last(history) = history[entry.made + 1]

\* A check mark that waited is sent only for the day its click saw, moved on by
\* nothing but the marks before it.
ChecksOnSeenDay ==
    \A s \in Slots :
        write[s].stage = "sent" /\ write[s].kind = "check" /\ write[s].gen = tab.gen
            => write[s].rev = tab.chain

\* The undo history keeps to its bound, an undo brings back the day before its edit, and a
\* check mark reaches the day on which it was made (useUndo, useBlockCompletion).
IntentOnSeenDay == TypeOK /\ UndoRestoresBefore /\ ChecksOnSeenDay

\* A page is never left waiting for nothing: once its writes have settled and
\* its reloads have ended its user can write, or the attempt reloads the day;
\* unless a reload failed or brought less than the page had shown (the page says
\* so and stays read-only).
NeverStuck ==
    (/\ tab.live /\ ~tab.failed
     /\ tab.reads = {}
     /\ \A s \in Slots : write[s] = Idle) => tab.phase = "idle"
=============================================================================

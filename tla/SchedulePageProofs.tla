------------------------- MODULE SchedulePageProofs -------------------------
(***************************************************************************)
(* What the page of one tab promises, for every number of days, requests   *)
(* in flight, revisions, visits and check marks.                           *)
(*                                                                         *)
(* The page changes through helpers that are applied to one another        *)
(* (Resume(Watch(...)), Finally(Unleased(...))), so that the proof is      *)
(* about helpers first: a lemma per helper says what it leaves alone       *)
(* (Unmoved, Kept, Alike, Onward, Moved) and that it keeps a page in order *)
(* (PageOK) and linked to the writes and reads in flight (Linked).  A      *)
(* lemma per action then chains the lemmas of its helpers (Good).          *)
(*                                                                         *)
(* VisibleIsReal is ShownReal, and follows from nothing but itself and     *)
(* PropsReal.  That a writer sees its own writes does not: a page may be   *)
(* written to only after the records of the coordinator were looked at,    *)
(* and LeaseOwned and Covered say when they were, Waiting and Exclusive    *)
(* that no task lets the user in past them.                                *)
(*                                                                         *)
(* That nobody is left waiting is Attended: whatever keeps a page          *)
(* read-only has something under way that ends it.  It is part of Sound    *)
(* and goes through every lemma beside the rest (Awake, OwnOpen).          *)
(*                                                                         *)
(* What the undo stack says of past days is a second invariant, which      *)
(* rests on the first: Recalls says that the entries are true of their     *)
(* days, Faithful that a write in flight was made of what its day held     *)
(* and that an accepted reply is the next revision after that.             *)
(***************************************************************************)
EXTENDS SchedulePage, FiniteSetTheorems, SequenceTheorems, TLAPS

\* None is no number and no slot, and no reader is called like a slot.
Distinct ==
    /\ None \notin Nat /\ None \notin Slots /\ None \notin {"waiting", "reading", "closed"}
    /\ Slots \cap {"handoff", "context", "capture"} = {}

\* The limits of revisions, of the undo stack and of queued check marks are numbers.
Bounded == MaxRevision \in Nat /\ MaxUndo \in Nat /\ MaxChecks \in Nat

\* What is read of a day is what it held at that revision.
Real(s) ==
    /\ s.date \in Dates
    /\ s.rev \in 0 .. Revision(s.date)
    /\ s.blocks = day[s.date][s.rev + 1]

Waits == {None, "waiting", "reading", "closed"}

Fields ==
    {"floor", "dirty", "pending", "reads", "props", "date", "gen", "born", "scope", "live", "rev",
     "blocks", "highest", "phase", "active", "handoff", "gate", "seen", "barrier", "undo", "own",
     "waiting", "chain", "failed"}

IsTab(t) ==
    /\ DOMAIN t = Fields
    /\ t.floor \in [Dates -> Nat \union {-1}]
    /\ t.dirty \in [Dates -> BOOLEAN]
    /\ t.pending \in [Dates -> SUBSET Slots]
    /\ t.date \in Dates /\ t.gen \in Nat /\ t.live \in BOOLEAN
    /\ t.rev \in Nat \union {None} /\ t.highest \in Nat \union {-1}
    /\ t.phase \in Phases /\ t.active \in Slots \union {None}
    /\ t.handoff \in Waits /\ t.gate \in Waits

PropsReal(t) == Real(t.props) /\ t.props.date = t.date

ShownReal(t) ==
    t.rev # None => /\ t.rev = t.highest
                    /\ t.rev <= Revision(t.date)
                    /\ t.blocks = day[t.date][t.rev + 1]

LeaseOwned(t) ==
    t.active # None =>
        /\ t.live /\ t.handoff = None /\ t.phase # "idle"
        /\ t.pending[t.date] = {t.active}
        /\ ~t.dirty[t.date] /\ t.floor[t.date] <= t.highest

OwnWritesShown(t) ==
    Editable(t) => t.pending[t.date] = {} /\ ~t.dirty[t.date] /\ t.floor[t.date] <= t.rev

Waiting(t) ==
    /\ t.handoff = "reading" => t.pending[t.date] = {}
    /\ t.barrier => t.rev = None /\ t.active = None
    /\ t.handoff # None => t.live

PageShape(t) == IsTab(t) /\ PropsReal(t) /\ ShownReal(t) /\ LeaseOwned(t) /\ Waiting(t)

PageOK(t) == PageShape(t) /\ OwnWritesShown(t)

Covered(t) ==
    t.live /\ t.active = None /\ t.handoff = None =>
        Settled(t) /\ (UpToDate(t) \/ (t.rev # None /\ t.rev >= t.floor[t.date]))

\* What the operators below leave alone.
Unmoved(t, u) ==
    /\ u.floor = t.floor /\ u.pending = t.pending /\ u.props = t.props
    /\ u.date = t.date /\ u.gen = t.gen /\ u.live = t.live /\ u.active = t.active
    /\ u.barrier = t.barrier /\ u.own = t.own /\ u.chain = t.chain
    /\ u.failed = t.failed

LEMMA InvalidateTab ==
    ASSUME NEW t, IsTab(t), NEW d, NEW u, u = InvalidateHistory(t, d)
    PROVE  /\ IsTab(u) /\ Unmoved(t, u)
           /\ u.dirty = t.dirty /\ u.handoff = t.handoff /\ u.gate = t.gate /\ u.reads = t.reads
           /\ u.rev = t.rev /\ u.blocks = t.blocks /\ u.highest = t.highest /\ u.phase = t.phase
BY DEF IsTab, Fields, InvalidateHistory, Unmoved

LEMMA ShownTab ==
    ASSUME NEW t, IsTab(t), PropsReal(t), NEW u, u = Shown(t)
    PROVE  /\ IsTab(u) /\ Unmoved(t, u)
           /\ u.dirty = t.dirty /\ u.handoff = t.handoff /\ u.gate = t.gate /\ u.reads = t.reads
           /\ u.rev = t.props.rev /\ u.highest = t.props.rev /\ u.blocks = t.props.blocks
           /\ u.phase = IF t.active = None THEN "idle" ELSE t.phase
<1>1. t.props.rev \in Nat
  BY DEF PropsReal, Real
<1> QED
  BY <1>1 DEF IsTab, Fields, Shown, Unmoved, Phases

LEMMA AcknowledgeTab ==
    ASSUME NEW t, IsTab(t), NEW d \in Dates, NEW rev, NEW auth \in BOOLEAN, NEW u, u = Acknowledge(t, d, rev, auth)
    PROVE  /\ IsTab(u) /\ Unmoved(t, u)
           /\ u.handoff = t.handoff /\ u.gate = t.gate /\ u.reads = t.reads
           /\ u.rev = t.rev /\ u.highest = t.highest /\ u.blocks = t.blocks /\ u.phase = t.phase
           /\ \A e \in Dates : u.dirty[e] => t.dirty[e]
           /\ auth /\ t.pending[d] = {} /\ rev >= t.floor[d] => ~u.dirty[d]
BY DEF IsTab, Fields, Acknowledge, Unmoved

\* What is left alone by taking the props.
Kept(t, u) == Unmoved(t, u) /\ u.handoff = t.handoff /\ u.gate = t.gate /\ u.reads = t.reads

LEMMA IngestTab ==
    ASSUME NEW t, IsTab(t), PropsReal(t), NEW auth \in BOOLEAN, NEW u, u = Ingest(t, auth)
    PROVE  /\ IsTab(u) /\ Kept(t, u)
           /\ ~CanIngest(t, auth) => u = t
           /\ CanIngest(t, auth) =>
                /\ u.rev = t.props.rev /\ u.highest = t.props.rev /\ u.blocks = t.props.blocks
                /\ u.phase = IF t.active = None THEN "idle" ELSE t.phase
                /\ auth /\ t.pending[t.date] = {} /\ t.props.rev >= t.floor[t.date] => ~u.dirty[t.date]
           /\ \A e \in Dates : u.dirty[e] => t.dirty[e]
<1>1. CASE ~CanIngest(t, auth)
  BY <1>1 DEF Ingest, Kept, Unmoved
<1>2. CASE CanIngest(t, auth)
  <2> DEFINE h == IF t.rev # None /\ t.props.rev > t.highest THEN InvalidateHistory(t, t.date) ELSE t
             v == Shown(h)
  <2>1. IsTab(h) /\ Kept(t, h) /\ h.dirty = t.dirty /\ h.phase = t.phase
    BY InvalidateTab DEF Kept, Unmoved
  <2>2. /\ IsTab(v) /\ Kept(t, v) /\ v.dirty = t.dirty
        /\ v.rev = t.props.rev /\ v.highest = t.props.rev /\ v.blocks = t.props.blocks
        /\ v.phase = IF t.active = None THEN "idle" ELSE t.phase
    BY <2>1, ShownTab DEF Kept, Unmoved, PropsReal
  <2>3. u = Acknowledge(v, t.date, t.props.rev, auth) /\ t.date \in Dates
    BY <1>2 DEF Ingest, IsTab
  <2> HIDE DEF v, h
  <2>4. IsTab(u) /\ Kept(t, u) /\ \A e \in Dates : u.dirty[e] => t.dirty[e]
    BY <2>2, <2>3, AcknowledgeTab DEF Kept, Unmoved
  <2>5. u.rev = v.rev /\ u.highest = v.highest /\ u.blocks = v.blocks /\ u.phase = v.phase
    BY <2>2, <2>3, AcknowledgeTab
  <2>6. ASSUME auth, v.pending[t.date] = {}, t.props.rev >= v.floor[t.date]
        PROVE  ~u.dirty[t.date]
    <3>1. u = [v EXCEPT !.dirty[t.date] = FALSE]
      BY <2>3, <2>6 DEF Acknowledge
    <3> QED
      BY <2>2, <2>3, <3>1 DEF IsTab, Fields
  <2> QED
    BY <1>2, <2>2, <2>4, <2>5, <2>6 DEF Kept, Unmoved
<1> QED
  BY <1>1, <1>2

\* Taking the props keeps the page in order, unless it is let into a day whose writes are open.
LEMMA IngestOK ==
    ASSUME Distinct, NEW t, PageShape(t), NEW auth \in BOOLEAN, NEW u, u = Ingest(t, auth),
           Covered(t), OwnWritesShown(t) \/ CanIngest(t, auth)
    PROVE  PageOK(u) /\ Covered(u)
<1>1. CASE ~CanIngest(t, auth)
  BY <1>1, IngestTab DEF PageShape, PageOK
<1>2. CASE CanIngest(t, auth)
  <2>1. IsTab(u) /\ Kept(t, u) /\ \A e \in Dates : u.dirty[e] => t.dirty[e]
    BY IngestTab DEF PageShape
  <2>2. /\ u.rev = t.props.rev /\ u.highest = t.props.rev /\ u.blocks = t.props.blocks
        /\ u.phase = IF t.active = None THEN "idle" ELSE t.phase
    BY <1>2, IngestTab DEF PageShape
  <2>3. /\ t.live /\ ~t.barrier /\ t.props.rev >= t.highest /\ t.props.rev \in Nat
        /\ t.date \in Dates
    BY <1>2 DEF CanIngest, Fresh, PageShape, PropsReal, Real, IsTab
  <2>4. PropsReal(u) /\ ShownReal(u)
    BY <2>1, <2>2 DEF PageShape, PropsReal, Real, Kept, Unmoved, ShownReal
  <2>5. LeaseOwned(u)
    BY <2>1, <2>2, <2>3 DEF PageShape, LeaseOwned, Kept, Unmoved, IsTab
  <2>6. OwnWritesShown(u)
    BY <2>1, <2>2, <2>3 DEF PageShape, OwnWritesShown, Editable, LeaseOwned, ShownReal, Covered,
                            Settled, UpToDate, Kept, Unmoved, IsTab, Distinct
  <2>7. Waiting(u)
    BY <2>1, <2>2, <2>3 DEF PageShape, Waiting, Kept, Unmoved
  <2>8. Covered(u)
    BY <2>1, <2>2, <2>3 DEF Covered, Settled, UpToDate, PageShape, ShownReal, IsTab, Kept, Unmoved
  <2> QED
    BY <2>1, <2>4, <2>5, <2>6, <2>7, <2>8 DEF PageOK, PageShape
<1> QED
  BY <1>1, <1>2

-----------------------------------------------------------------------------
(* The watcher *)

\* A page that waits for a handoff and shows a day was let into it by a new context.
Exclusive(t) == t.handoff # None /\ t.rev # None => t.gate = None

\* Nothing goes back.
Later(t, u) ==
    /\ u.highest >= t.highest
    /\ t.active # None /\ t.rev # None => u.rev # None
    /\ u.rev # None => u.rev >= t.highest

LEMMA IngestLater ==
    ASSUME Distinct, NEW t, IsTab(t), PropsReal(t), ShownReal(t), NEW auth \in BOOLEAN, NEW u, u = Ingest(t, auth)
    PROVE  Later(t, u)
<1>1. CASE ~CanIngest(t, auth)
  <2>1. u = t
    BY <1>1, IngestTab
  <2>2. t.highest \in Int /\ t.highest >= t.highest
    BY DEF IsTab
  <2> QED
    BY <2>1, <2>2 DEF Later, ShownReal
<1>2. CASE CanIngest(t, auth)
  <2>1. t.props.rev \in Nat /\ t.props.rev >= t.highest
    BY <1>2 DEF CanIngest, Fresh, PropsReal, Real
  <2>2. u.rev = t.props.rev /\ u.highest = t.props.rev
    BY <1>2, IngestTab
  <2> QED
    BY <2>1, <2>2 DEF Later, Distinct
<1> QED
  BY <1>1, <1>2

LEMMA StartOK ==
    ASSUME Distinct, NEW t, PageOK(t), t.live, t.active = None, NEW u, u = StartHandoff(t)
    PROVE  /\ PageOK(u) /\ Unmoved(t, u) /\ u.gate = t.gate /\ u.reads = t.reads
           /\ u.handoff = "waiting" /\ u.rev = None /\ u.highest = t.highest
           /\ u.phase = "synchronizing" /\ u.dirty = t.dirty
<1> DEFINE v == [t EXCEPT !.handoff = "waiting", !.rev = None, !.blocks = None,
                          !.phase = "synchronizing", !.waiting = 0]
<1>1. /\ IsTab(v) /\ Unmoved(t, v) /\ v.gate = t.gate /\ v.reads = t.reads /\ v.dirty = t.dirty
      /\ v.handoff = "waiting" /\ v.rev = None /\ v.highest = t.highest /\ v.phase = "synchronizing"
  BY DEF PageOK, PageShape, IsTab, Fields, Unmoved, Phases, Waits
<1>2. u = InvalidateHistory(v, t.date)
  BY DEF StartHandoff
<1> HIDE DEF v
<1>3. /\ IsTab(u) /\ Unmoved(v, u) /\ u.gate = v.gate /\ u.reads = v.reads /\ u.dirty = v.dirty
      /\ u.handoff = v.handoff /\ u.rev = v.rev /\ u.highest = v.highest /\ u.phase = v.phase
  BY <1>1, <1>2, InvalidateTab
<1>4. Unmoved(t, u)
  BY <1>1, <1>3 DEF Unmoved
<1> QED
  BY <1>1, <1>3, <1>4 DEF PageOK, PageShape, PropsReal, ShownReal, LeaseOwned, OwnWritesShown, Editable,
                          Waiting, Unmoved, Distinct

\* A handoff that ends with props which are new enough.
LEMMA ArriveOK ==
    ASSUME Distinct, NEW t, PageOK(t), Exclusive(t), t.live, t.active = None, t.handoff # None,
           Settled(t), UpToDate(t), NEW u, u = Ingest([t EXCEPT !.handoff = None], FALSE)
    PROVE  /\ PageOK(u) /\ Unmoved(t, u) /\ u.gate = t.gate /\ u.reads = t.reads
           /\ u.handoff = None /\ Covered(u) /\ Later(t, u)
<1> DEFINE v == [t EXCEPT !.handoff = None]
<1>1. /\ IsTab(v) /\ Unmoved(t, v) /\ v.gate = t.gate /\ v.reads = t.reads /\ v.dirty = t.dirty
      /\ v.handoff = None /\ v.rev = t.rev /\ v.highest = t.highest /\ v.phase = t.phase
      /\ v.blocks = t.blocks
  BY DEF PageOK, PageShape, IsTab, Fields, Unmoved, Waits
<1>2. PropsReal(v) /\ ShownReal(v) /\ LeaseOwned(v) /\ Waiting(v)
  BY <1>1 DEF PageOK, PageShape, PropsReal, ShownReal, LeaseOwned, Waiting, Unmoved, Distinct
<1> HIDE DEF v
<1>3. u = Ingest(v, FALSE)
  BY DEF v
<1>4. Kept(v, u) /\ IsTab(u) /\ Later(v, u)
  BY <1>1, <1>2, <1>3, IngestTab, IngestLater
<1>5. Later(t, u)
  BY <1>4, <1>1 DEF Later, Unmoved
<1>6. Settled(v) /\ UpToDate(v)
  BY <1>1 DEF Settled, UpToDate, Unmoved
<1>7. OwnWritesShown(v) \/ CanIngest(v, FALSE)
  <2>1. SUFFICES ASSUME ~CanIngest(v, FALSE), v.rev # None PROVE v.floor[v.date] <= v.rev
    BY <1>6 DEF OwnWritesShown, Editable, Settled
  <2>2. t.gate = None /\ ~t.barrier /\ v.live /\ v.gate = None /\ ~v.barrier /\ v.handoff = None
    BY <2>1, <1>1 DEF Exclusive, Unmoved, PageOK, PageShape, Waiting
  <2> QED
    BY <2>1, <2>2, <1>1, <1>2, <1>6 DEF CanIngest, Fresh, ShownReal, UpToDate, PropsReal, Real, IsTab
<1>8. PageOK(u) /\ Covered(u)
  BY <1>1, <1>2, <1>3, <1>6, <1>7, IngestOK DEF PageShape, Covered
<1>9. Unmoved(t, u) /\ u.gate = t.gate /\ u.reads = t.reads /\ u.handoff = None
  BY <1>1, <1>4 DEF Kept, Unmoved
<1> QED
  BY <1>5, <1>8, <1>9

LEMMA CheckOK ==
    ASSUME Distinct, NEW t, PageOK(t), Exclusive(t), NEW u, u = CheckHandoff(t)
    PROVE  /\ PageOK(u) /\ Exclusive(u) /\ Covered(u)
           /\ Unmoved(t, u) /\ u.gate = t.gate /\ u.reads = t.reads /\ Later(t, u)
           /\ t.handoff = "reading" => u = t
<1>0. t.highest \in Int /\ t.highest >= t.highest /\ (t.rev # None => t.rev = t.highest)
  BY DEF PageOK, PageShape, IsTab, ShownReal
<1>1. ASSUME u = t PROVE Unmoved(t, u) /\ u.gate = t.gate /\ u.reads = t.reads /\ Later(t, u)
  BY <1>0, <1>1 DEF Unmoved, Later
<1>2. CASE ~t.live \/ t.active # None
  BY <1>1, <1>2 DEF CheckHandoff, Covered
<1>3. CASE t.live /\ t.active = None /\ t.handoff # None
  <2>1. CASE t.handoff # "reading" /\ Settled(t) /\ UpToDate(t)
    BY <1>3, <2>1, ArriveOK DEF CheckHandoff, Exclusive
  <2>2. CASE ~(t.handoff # "reading" /\ Settled(t) /\ UpToDate(t))
    BY <1>1, <1>3, <2>2 DEF CheckHandoff, Covered
  <2> QED
    BY <2>1, <2>2
<1>4. CASE t.live /\ t.active = None /\ t.handoff = None
  <2>1. CASE Settled(t) /\ (UpToDate(t) \/ (t.rev # None /\ t.rev >= t.floor[t.date]))
    BY <1>1, <1>4, <2>1 DEF CheckHandoff, Covered
  <2>2. CASE ~(Settled(t) /\ (UpToDate(t) \/ (t.rev # None /\ t.rev >= t.floor[t.date])))
    <3>1. u = StartHandoff(t)
      BY <1>4, <2>2 DEF CheckHandoff
    <3> QED
      BY <1>0, <1>4, <3>1, StartOK DEF Exclusive, Covered, Later, Distinct
  <2> QED
    BY <2>1, <2>2
<1> QED
  BY <1>2, <1>3, <1>4

LEMMA WatchOK ==
    ASSUME Distinct, NEW t, PageOK(t), Exclusive(t), NEW u, u = Watch(t)
    PROVE  /\ PageOK(u) /\ Exclusive(u) /\ Covered(u)
           /\ Unmoved(t, u) /\ u.gate = t.gate /\ u.reads = t.reads /\ Later(t, u)
           /\ t.handoff = "reading" => u.handoff = "reading"
<1> DEFINE v == CheckHandoff(t)
<1>1. /\ PageOK(v) /\ Exclusive(v) /\ Covered(v)
      /\ Unmoved(t, v) /\ v.gate = t.gate /\ v.reads = t.reads /\ Later(t, v)
      /\ t.handoff = "reading" => v = t
  BY CheckOK
<1>2. u = Ingest(v, FALSE)
  BY DEF Watch
<1> HIDE DEF v
<1>3. PageShape(v) /\ IsTab(v) /\ PropsReal(v) /\ ShownReal(v) /\ OwnWritesShown(v)
  BY <1>1 DEF PageOK, PageShape
<1>4. PageOK(u) /\ Covered(u)
  BY <1>1, <1>2, <1>3, IngestOK
<1>5. Kept(v, u) /\ Later(v, u) /\ IsTab(u) /\ \A e \in Dates : u.dirty[e] => v.dirty[e]
  BY <1>2, <1>3, IngestTab, IngestLater
<1>6. Unmoved(t, u) /\ u.gate = t.gate /\ u.reads = t.reads /\ (t.handoff = "reading" => u.handoff = "reading")
  BY <1>1, <1>5 DEF Kept, Unmoved
<1>7. Later(t, u)
  <2>1. t.highest \in Int /\ v.highest \in Int /\ u.highest \in Int /\ v.active = t.active
    BY <1>1, <1>3, <1>5 DEF IsTab, PageOK, PageShape, Unmoved
  <2>2. u.rev # None => u.rev = u.highest
    BY <1>4 DEF PageOK, PageShape, ShownReal
  <2> QED
    BY <1>1, <1>5, <2>1, <2>2 DEF Later
<1>8. Exclusive(u)
  <2>1. CanIngest(v, FALSE) => v.handoff = None
    BY DEF CanIngest
  <2> QED
    BY <1>1, <1>2, <1>3, <1>5, <2>1, IngestTab DEF Exclusive, Kept
<1> QED
  BY <1>4, <1>6, <1>7, <1>8

-----------------------------------------------------------------------------
(* The tasks that wait for writes *)

LEMMA AskingTab ==
    ASSUME NEW t, IsTab(t), NEW by, NEW u, u = Asking(t, by)
    PROVE  /\ IsTab(u) /\ Unmoved(t, u)
           /\ u.dirty = t.dirty /\ u.handoff = t.handoff /\ u.gate = t.gate
           /\ u.rev = t.rev /\ u.blocks = t.blocks /\ u.highest = t.highest /\ u.phase = t.phase
           /\ u.reads = t.reads \union {[by |-> by, gen |-> t.gen, date |-> t.date, from |-> Revision(t.date)]}
BY DEF IsTab, Fields, Asking, Unmoved

LEMMA AskingOK ==
    ASSUME NEW t, PageOK(t), NEW by, NEW u, u = Asking(t, by)
    PROVE  PageOK(u) /\ (Covered(t) => Covered(u)) /\ (Exclusive(t) => Exclusive(u))
<1>1. /\ IsTab(u) /\ Unmoved(t, u)
      /\ u.dirty = t.dirty /\ u.handoff = t.handoff /\ u.gate = t.gate
      /\ u.rev = t.rev /\ u.blocks = t.blocks /\ u.highest = t.highest /\ u.phase = t.phase
  BY AskingTab DEF PageOK, PageShape
<1> QED
  BY <1>1 DEF PageOK, PageShape, PropsReal, ShownReal, LeaseOwned, OwnWritesShown, Editable, Waiting, Unmoved,
              Covered, Settled, UpToDate, Exclusive

\* What a task adds to the reads: one of its own, of the present page.
Asks(t, u, by) ==
    /\ t.reads \subseteq u.reads
    /\ \A r \in u.reads : r \notin t.reads =>
          /\ r.by = by /\ r.gen = t.gen /\ r.date = t.date /\ r.from = Revision(t.date)

LEMMA ResumeHandoffOK ==
    ASSUME Distinct, NEW t, PageOK(t), Exclusive(t), NEW u, u = ResumeHandoff(t)
    PROVE  /\ PageOK(u) /\ Exclusive(u) /\ (Covered(t) => Covered(u))
           /\ Unmoved(t, u) /\ u.gate = t.gate /\ Later(t, u) /\ Asks(t, u, "handoff")
<1>0. t.highest \in Int /\ t.highest >= t.highest /\ (t.rev # None => t.rev = t.highest)
  BY DEF PageOK, PageShape, IsTab, ShownReal
<1>1. CASE ~(t.handoff = "waiting" /\ t.pending[t.date] = {})
  BY <1>0, <1>1 DEF ResumeHandoff, Unmoved, Later, Asks
<1>2. CASE t.handoff = "waiting" /\ t.pending[t.date] = {} /\ Settled(t) /\ UpToDate(t)
  <2>1. u = Ingest([t EXCEPT !.handoff = None], FALSE) /\ t.handoff # None
    BY <1>2 DEF ResumeHandoff, Distinct
  <2>2. /\ PageOK(u) /\ Unmoved(t, u) /\ u.gate = t.gate /\ u.reads = t.reads
        /\ u.handoff = None /\ Covered(u) /\ Later(t, u)
    BY <1>2, <2>1, ArriveOK DEF PageOK, PageShape, LeaseOwned, Waiting
  <2> QED
    BY <2>2 DEF Exclusive, Asks
<1>3. CASE t.handoff = "waiting" /\ t.pending[t.date] = {} /\ ~(Settled(t) /\ UpToDate(t))
  <2> DEFINE v == [t EXCEPT !.handoff = "reading"]
  <2>1. u = Asking(v, "handoff") /\ t.handoff # None
    BY <1>3 DEF ResumeHandoff, Distinct
  <2>2. /\ IsTab(v) /\ Unmoved(t, v) /\ v.gate = t.gate /\ v.reads = t.reads /\ v.dirty = t.dirty
        /\ v.handoff = "reading" /\ v.rev = t.rev /\ v.highest = t.highest /\ v.phase = t.phase
        /\ v.blocks = t.blocks
    BY DEF PageOK, PageShape, IsTab, Fields, Unmoved, Waits
  <2> HIDE DEF v
  <2>3. PageOK(v) /\ Exclusive(v) /\ Covered(v)
    BY <1>3, <2>1, <2>2 DEF PageOK, PageShape, PropsReal, ShownReal, LeaseOwned, OwnWritesShown, Editable,
                     Waiting, Unmoved, Exclusive, Covered, Distinct
  <2>4. PageOK(u) /\ Exclusive(u) /\ Covered(u)
    BY <2>1, <2>3, AskingOK
  <2>5. /\ Unmoved(v, u) /\ u.gate = v.gate /\ u.rev = v.rev /\ u.highest = v.highest
        /\ u.reads = v.reads \union {[by |-> "handoff", gen |-> v.gen, date |-> v.date, from |-> Revision(v.date)]}
    BY <2>1, <2>2, AskingTab
  <2>6. Unmoved(t, u) /\ u.gate = t.gate /\ Asks(t, u, "handoff")
    BY <2>2, <2>5 DEF Unmoved, Asks
  <2>7. Later(t, u)
    BY <1>0, <2>2, <2>5 DEF Later
  <2> QED
    BY <2>4, <2>6, <2>7
<1> QED
  BY <1>1, <1>2, <1>3

LEMMA ResumeGateOK ==
    ASSUME Distinct, NEW t, PageOK(t), Exclusive(t), NEW u, u = ResumeGate(t)
    PROVE  /\ PageOK(u) /\ Exclusive(u) /\ (Covered(t) => Covered(u))
           /\ Unmoved(t, u) /\ u.handoff = t.handoff /\ Later(t, u) /\ Asks(t, u, "context")
           /\ u.rev = t.rev /\ u.highest = t.highest
<1>0. t.highest \in Int /\ t.highest >= t.highest /\ (t.rev # None => t.rev = t.highest)
  BY DEF PageOK, PageShape, IsTab, ShownReal
<1> DEFINE v == [t EXCEPT !.gate = "reading"]
<1>1. CASE u = t
  BY <1>0, <1>1 DEF Unmoved, Later, Asks
<1>2. CASE t.gate = "waiting" /\ u = Asking(v, "context")
  <2>2. /\ IsTab(v) /\ Unmoved(t, v) /\ v.gate = "reading" /\ v.reads = t.reads /\ v.dirty = t.dirty
        /\ v.handoff = t.handoff /\ v.rev = t.rev /\ v.highest = t.highest /\ v.phase = t.phase
        /\ v.blocks = t.blocks
    BY DEF PageOK, PageShape, IsTab, Fields, Unmoved, Waits
  <2> HIDE DEF v
  <2>3. PageOK(v) /\ Exclusive(v) /\ (Covered(t) => Covered(v))
    BY <1>2, <2>2 DEF PageOK, PageShape, PropsReal, ShownReal, LeaseOwned, OwnWritesShown, Editable,
                     Waiting, Unmoved, Exclusive, Covered, Settled, UpToDate, Distinct
  <2>4. PageOK(u) /\ Exclusive(u) /\ (Covered(t) => Covered(u))
    BY <1>2, <2>3, AskingOK
  <2>5. /\ Unmoved(v, u) /\ u.handoff = v.handoff /\ u.rev = v.rev /\ u.highest = v.highest
        /\ u.reads = v.reads \union {[by |-> "context", gen |-> v.gen, date |-> v.date, from |-> Revision(v.date)]}
    BY <1>2, <2>2, AskingTab
  <2>6. Unmoved(t, u) /\ Asks(t, u, "context")
    BY <2>2, <2>5 DEF Unmoved, Asks
  <2>7. Later(t, u)
    BY <1>0, <2>2, <2>5 DEF Later
  <2> QED
    BY <2>2, <2>4, <2>5, <2>6, <2>7
<1> QED
  BY <1>1, <1>2 DEF ResumeGate

\* What Watch and Resume leave alone, and what they may add to the reads.
Moved(t, u) ==
    /\ Unmoved(t, u) /\ Later(t, u) /\ t.reads \subseteq u.reads
    /\ \A r \in u.reads : r \notin t.reads =>
          /\ r.by \in {"handoff", "context"}
          /\ r.gen = t.gen /\ r.date = t.date /\ r.from = Revision(t.date)

LEMMA ResumeOK ==
    ASSUME Distinct, NEW t, PageOK(t), Exclusive(t), NEW u, u = Resume(t)
    PROVE  PageOK(u) /\ Exclusive(u) /\ (Covered(t) => Covered(u)) /\ Moved(t, u)
<1> DEFINE v == ResumeHandoff(t)
<1>1. /\ PageOK(v) /\ Exclusive(v) /\ (Covered(t) => Covered(v))
      /\ Unmoved(t, v) /\ Later(t, v) /\ Asks(t, v, "handoff")
  BY ResumeHandoffOK
<1>2. u = ResumeGate(v)
  BY DEF Resume
<1> HIDE DEF v
<1>3. /\ PageOK(u) /\ Exclusive(u) /\ (Covered(v) => Covered(u))
      /\ Unmoved(v, u) /\ Asks(v, u, "context") /\ u.rev = v.rev /\ u.highest = v.highest
  BY <1>1, <1>2, ResumeGateOK
<1>4. Unmoved(t, u) /\ Later(t, u)
  BY <1>1, <1>3 DEF Unmoved, Later
<1>5. /\ t.reads \subseteq u.reads
      /\ \A r \in u.reads : r \notin t.reads =>
            /\ r.by \in {"handoff", "context"}
            /\ r.gen = t.gen /\ r.date = t.date /\ r.from = Revision(t.date)
  BY <1>1, <1>3 DEF Asks, Unmoved
<1> QED
  BY <1>1, <1>3, <1>4, <1>5 DEF Moved

-----------------------------------------------------------------------------
(* Writes *)

WriteFields == {"stage", "kind", "date", "gen", "scope", "rev", "blocks", "entry", "reply"}

Stages == {"sent", "answered", "reading", "reviewing"}

Open(w) == w.stage # "idle"

\* A reply that brings a day brings one that was.
ReplyReal(w) ==
    w.stage # "sent" /\ w.reply.kind = "accepted" =>
        /\ w.reply.rev \in 0 .. Revision(w.date)
        /\ w.reply.blocks = day[w.date][w.reply.rev + 1]

IsWrite(w) ==
    Open(w) => /\ DOMAIN w = WriteFields /\ w.stage \in Stages
               /\ w.date \in Dates /\ w.gen \in Nat
               /\ ReplyReal(w)

\* The page's lease is a write of this owner, and no other write is.
LeaseLinked(t, wr) ==
    t.active # None =>
        LET w == wr[t.active] IN
        /\ Open(w) /\ w.gen = t.gen /\ w.date = t.date
        /\ w.stage # "reading" => t.rev # None
        /\ w.stage = "reviewing" => w.reply.kind = "accepted"
        /\ w.stage \in {"reading", "reviewing"} /\ w.reply.kind = "accepted" => w.reply.rev <= t.highest

OneLease(t, wr) ==
    \A s \in Slots : Open(wr[s]) =>
        /\ wr[s].gen <= t.gen
        /\ wr[s].gen = t.gen /\ t.live => t.active = s

\* A pending ticket is that of a write to its day, the only one.
TicketsLinked(t, wr) ==
    \A d \in Dates : \A s \in t.pending[d] :
        /\ Open(wr[s]) /\ wr[s].date = d
        /\ t.pending[d] = {s}

\* Reloads: one of a write reads for the owner that leased it.
ReadsLinked(t, wr) ==
    \A r \in t.reads :
        /\ r.date \in Dates /\ r.from \in 0 .. Revision(r.date) /\ r.gen \in Nat
        /\ r.gen <= t.gen
        /\ r.gen = t.gen => r.date = t.date
        /\ r.by \in Slots =>
              /\ wr[r.by].stage \in {"reading", "reviewing"} /\ wr[r.by].gen = r.gen
              /\ \A q \in t.reads : q.by = r.by => q = r

\* A mark is sent for the revision the queue has come to.
ChainLinked(t, wr) ==
    \A s \in Slots :
        wr[s].stage = "sent" /\ wr[s].kind = "check" /\ wr[s].gen = t.gen => wr[s].rev = t.chain

Linked(t, wr) ==
    /\ LeaseLinked(t, wr) /\ OneLease(t, wr) /\ TicketsLinked(t, wr) /\ ReadsLinked(t, wr)
    /\ ChainLinked(t, wr)

DaysOK ==
    /\ DOMAIN day = Dates
    /\ \A d \in Dates : Len(day[d]) \in Nat \ {0} /\ \E S : day[d] \in Seq(S)

LEMMA MovedLinked ==
    ASSUME Distinct, DaysOK, NEW t, NEW wr, IsTab(t), Linked(t, wr), NEW u, IsTab(u), Moved(t, u),
           \A s \in Slots : IsWrite(wr[s])
    PROVE  Linked(u, wr)
<1>1. LeaseLinked(u, wr)
  <2>1. SUFFICES ASSUME u.active # None PROVE LeaseLinked(u, wr)
    BY DEF LeaseLinked
  <2> DEFINE w == wr[t.active]
  <2>2. /\ u.active = t.active /\ u.gen = t.gen /\ u.date = t.date /\ u.highest >= t.highest
        /\ t.highest \in Int /\ u.highest \in Int /\ t.active \in Slots
        /\ t.rev # None => u.rev # None
    BY <2>1 DEF Moved, Unmoved, Later, IsTab
  <2>3. w.stage \in {"reading", "reviewing"} /\ w.reply.kind = "accepted" =>
            w.reply.rev \in Int /\ w.reply.rev <= t.highest
    BY <2>1, <2>2 DEF Linked, LeaseLinked, IsWrite, Open, ReplyReal
  <2>4. w.reply.rev \in Int /\ w.reply.rev <= t.highest => w.reply.rev <= u.highest
    BY <2>2
  <2> QED
    BY <2>1, <2>2, <2>3, <2>4 DEF Linked, LeaseLinked
<1>2. OneLease(u, wr) /\ TicketsLinked(u, wr) /\ ChainLinked(u, wr)
  BY DEF Moved, Unmoved, Linked, OneLease, TicketsLinked, ChainLinked
<1>3. ReadsLinked(u, wr)
  <2>1. SUFFICES ASSUME NEW r \in u.reads
                 PROVE  /\ r.date \in Dates /\ r.from \in 0 .. Revision(r.date) /\ r.gen \in Nat
                        /\ r.gen <= t.gen
                        /\ r.gen = t.gen => r.date = t.date
                        /\ r.by \in Slots =>
                              /\ wr[r.by].stage \in {"reading", "reviewing"} /\ wr[r.by].gen = r.gen
                              /\ \A q \in u.reads : q.by = r.by => q = r
    BY DEF ReadsLinked, Moved, Unmoved
  <2>2. CASE r \in t.reads
    BY <2>2 DEF Linked, ReadsLinked, Moved, Distinct
  <2>3. CASE r \notin t.reads
    BY SMTT(30), <2>3 DEF Moved, Distinct, IsTab, DaysOK, Revision
  <2> QED
    BY <2>2, <2>3
<1> QED
  BY <1>1, <1>2, <1>3 DEF Linked

\* The histories of undo and check marks decide nothing about the lease.
Alike(t, u) ==
    /\ Kept(t, u) /\ u.dirty = t.dirty /\ u.rev = t.rev /\ u.blocks = t.blocks
    /\ u.highest = t.highest /\ u.phase = t.phase

LEMMA AlikeOK ==
    ASSUME NEW t, NEW u, IsTab(u), Alike(t, u)
    PROVE  /\ PageOK(t) => PageOK(u)
           /\ Exclusive(t) => Exclusive(u)
           /\ \A wr : Linked(t, wr) => Linked(u, wr)
           /\ Editable(u) <=> Editable(t)
<1>1. PageOK(t) => PageOK(u)
  BY DEF Alike, Kept, Unmoved, PageOK, PageShape, PropsReal, ShownReal, LeaseOwned, OwnWritesShown,
         Editable, Waiting
<1>2. Exclusive(t) => Exclusive(u)
  BY DEF Alike, Kept, Unmoved, Exclusive
<1>3. ASSUME NEW wr, Linked(t, wr) PROVE Linked(u, wr)
  BY <1>3 DEF Alike, Kept, Unmoved, Linked, LeaseLinked, OneLease, TicketsLinked, ReadsLinked,
              ChainLinked
<1>4. Editable(u) <=> Editable(t)
  BY DEF Alike, Kept, Unmoved, Editable
<1> QED
  BY <1>1, <1>2, <1>3, <1>4

LEMMA AlikeTrans ==
    ASSUME NEW t, NEW u, NEW v, Alike(t, u), Alike(u, v) PROVE Alike(t, v)
BY DEF Alike, Kept, Unmoved

LEMMA InvalidateAlike ==
    ASSUME NEW t, IsTab(t), NEW d, NEW u, u = InvalidateHistory(t, d)
    PROVE  IsTab(u) /\ Alike(t, u)
BY InvalidateTab DEF Alike, Kept

LEMMA UndoAlike ==
    ASSUME NEW t, IsTab(t), NEW undo, NEW u, u = [t EXCEPT !.undo = undo]
    PROVE  IsTab(u) /\ Alike(t, u)
BY DEF IsTab, Fields, Alike, Kept, Unmoved

LEMMA PushAlike ==
    ASSUME NEW t, IsTab(t), NEW w, NEW u, u = PushUndo(t, w)
    PROVE  IsTab(u) /\ Alike(t, u)
<1> DEFINE k == IF Continues(t, w.date, w.rev) THEN t ELSE InvalidateHistory(t, w.date)
<1>1. IsTab(k) /\ Alike(t, k)
  BY InvalidateAlike DEF Alike, Kept, Unmoved
<1>2. \E undo : u = [k EXCEPT !.undo = undo]
  BY DEF PushUndo
<1> HIDE DEF k
<1> QED
  BY <1>1, <1>2, UndoAlike, AlikeTrans

LEMMA SpentAlike ==
    ASSUME NEW t, IsTab(t), NEW w, NEW u, u = Spent(t, w)
    PROVE  IsTab(u) /\ Alike(t, u)
<1>1. \E undo : u = [t EXCEPT !.undo = undo]
  BY DEF Spent
<1> QED
  BY <1>1, UndoAlike

LEMMA ReboundAlike ==
    ASSUME NEW t, IsTab(t), NEW w, NEW u, u = Rebound(t, w)
    PROVE  IsTab(u) /\ Alike(t, u)
<1>1. CASE u = t
  BY <1>1 DEF Alike, Kept, Unmoved
<1>2. CASE u = InvalidateHistory(t, w.date)
  BY <1>2, InvalidateAlike
<1>3. CASE u = [t EXCEPT !.undo[LastEntry(t, w.date)].expected = t.rev]
  BY <1>3 DEF IsTab, Fields, Alike, Kept, Unmoved
<1> QED
  BY <1>1, <1>2, <1>3 DEF Rebound

LEMMA HistoryAlike ==
    ASSUME NEW t, IsTab(t), NEW w, NEW confirmed, NEW u, u = History(t, w, confirmed)
    PROVE  IsTab(u) /\ Alike(t, u)
<1> DEFINE v == Spent(t, w)
<1>1. IsTab(v) /\ Alike(t, v)
  BY SpentAlike
<1>2. \/ u = t \/ u = PushUndo(t, w) \/ u = v
      \/ u = Rebound(v, w) \/ u = InvalidateHistory(v, w.date)
  BY DEF History, UndoDone
<1> HIDE DEF v
<1>3. CASE u = t
  BY <1>3 DEF Alike, Kept, Unmoved
<1>4. CASE u = PushUndo(t, w)
  BY <1>4, PushAlike
<1>5. CASE u = v
  BY <1>1, <1>5
<1>6. CASE u = Rebound(v, w)
  BY <1>1, <1>6, ReboundAlike, AlikeTrans
<1>7. CASE u = InvalidateHistory(v, w.date)
  BY <1>1, <1>7, InvalidateAlike, AlikeTrans
<1> QED
  BY <1>2, <1>3, <1>4, <1>5, <1>6, <1>7

LEMMA WaitingAlike ==
    ASSUME NEW t, IsTab(t), NEW n, NEW u, u = [t EXCEPT !.waiting = n]
    PROVE  IsTab(u) /\ Alike(t, u)
BY DEF IsTab, Fields, Alike, Kept, Unmoved

-----------------------------------------------------------------------------
(* Leases *)

LEMMA LeasedTab ==
    ASSUME NEW t, IsTab(t), NEW s \in Slots, NEW u, u = Leased(t, s)
    PROVE  /\ IsTab(u) /\ u.active = s /\ u.phase = "saving"
           /\ u.pending = [t.pending EXCEPT ![t.date] = @ \union {s}]
           /\ u.floor = t.floor /\ u.dirty = t.dirty /\ u.props = t.props /\ u.date = t.date
           /\ u.gen = t.gen /\ u.live = t.live /\ u.barrier = t.barrier /\ u.handoff = t.handoff
           /\ u.gate = t.gate /\ u.reads = t.reads /\ u.rev = t.rev /\ u.blocks = t.blocks
           /\ u.highest = t.highest /\ u.chain = t.chain
           /\ u.own = t.own \union {s} /\ u.failed = t.failed
BY DEF IsTab, Fields, Leased, Phases

\* The lease goes to a page without open writes, so that it is the only one of its day.
LEMMA LeasedOK ==
    ASSUME Distinct, NEW t, PageOK(t), Exclusive(t), Editable(t),
           NEW wr, Linked(t, wr), NEW s \in Slots, ~Open(wr[s]), t.active = None,
           NEW wr2, \A q \in Slots : q # s => wr2[q] = wr[q],
           wr2[s].stage \in {"sent", "answered"}, wr2[s].gen = t.gen, wr2[s].date = t.date,
           wr2[s].stage = "sent" /\ wr2[s].kind = "check" => wr2[s].rev = t.chain,
           NEW u, u = Leased(t, s)
    PROVE  PageOK(u) /\ Exclusive(u) /\ Linked(u, wr2)
<1>1. /\ IsTab(u) /\ u.active = s /\ u.phase = "saving"
      /\ u.pending = [t.pending EXCEPT ![t.date] = @ \union {s}]
      /\ u.floor = t.floor /\ u.dirty = t.dirty /\ u.props = t.props /\ u.date = t.date
      /\ u.gen = t.gen /\ u.live = t.live /\ u.barrier = t.barrier /\ u.handoff = t.handoff
      /\ u.gate = t.gate /\ u.reads = t.reads /\ u.rev = t.rev /\ u.blocks = t.blocks
      /\ u.highest = t.highest /\ u.chain = t.chain
  BY LeasedTab DEF PageOK, PageShape
<1>2. /\ t.live /\ t.handoff = None /\ t.rev # None /\ t.rev = t.highest
      /\ t.pending[t.date] = {} /\ ~t.dirty[t.date] /\ t.floor[t.date] <= t.rev
      /\ t.date \in Dates /\ t.pending \in [Dates -> SUBSET Slots] /\ t.gen \in Nat /\ ~t.barrier
  BY DEF PageOK, PageShape, OwnWritesShown, Editable, ShownReal, IsTab, Waiting
<1>3. u.pending[t.date] = {s} /\ \A d \in Dates : d # t.date => u.pending[d] = t.pending[d]
  BY <1>1, <1>2
<1>4. PropsReal(u) /\ ShownReal(u)
  BY <1>1 DEF PageOK, PageShape, PropsReal, ShownReal
<1>5. LeaseOwned(u) /\ OwnWritesShown(u) /\ Waiting(u) /\ Exclusive(u)
  BY <1>1, <1>2, <1>3 DEF LeaseOwned, OwnWritesShown, Editable, Waiting, Exclusive, Distinct
<1>6. LeaseLinked(u, wr2)
  BY <1>1, <1>2 DEF LeaseLinked, Open
<1>7. OneLease(u, wr2)
  <2>1. ASSUME NEW q \in Slots, q # s, Open(wr2[q])
        PROVE  wr2[q].gen <= t.gen /\ ~(wr2[q].gen = t.gen)
    BY <1>2, <2>1 DEF Linked, OneLease, Open, Distinct
  <2> QED
    BY <1>1, <1>2, <2>1 DEF OneLease
<1>8. TicketsLinked(u, wr2)
  BY <1>1, <1>2, <1>3 DEF TicketsLinked, Linked, Open
<1>9. ReadsLinked(u, wr2)
  BY <1>1 DEF ReadsLinked, Linked, Open
<1>10. ChainLinked(u, wr2)
  BY <1>1 DEF ChainLinked, Linked
<1> QED
  BY <1>1, <1>4, <1>5, <1>6, <1>7, <1>8, <1>9, <1>10 DEF PageOK, PageShape, Linked

\* What a ticket may be given back with.
Proper(w) == w.date \in Dates /\ (w.reply.kind = "accepted" => w.reply.rev \in Nat)

LEMMA ReleaseTab ==
    ASSUME NEW t, IsTab(t), NEW w, Proper(w),
           NEW s, NEW u, u = Release(t, s, w)
    PROVE  /\ IsTab(u)
           /\ u.props = t.props /\ u.date = t.date /\ u.gen = t.gen /\ u.live = t.live
           /\ u.active = t.active /\ u.phase = t.phase
           /\ u.barrier = t.barrier /\ u.handoff = t.handoff /\ u.gate = t.gate /\ u.reads = t.reads
           /\ u.rev = t.rev /\ u.blocks = t.blocks /\ u.highest = t.highest
           /\ u.chain = t.chain /\ u.failed = t.failed /\ u.own = t.own \ {s}
<1>1. CASE s \notin t.pending[w.date]
  BY <1>1 DEF IsTab, Fields, Release, Proper
<1>2. CASE s \in t.pending[w.date]
  <2>1. Dirties(w.reply) \in BOOLEAN
    BY DEF Dirties
  <2> QED
    BY <1>2, <2>1 DEF IsTab, Fields, Release, Proper
<1> QED
  BY <1>1, <1>2

\* The ticket is given back, and tells what the day must show from now on.
Returned(t, u, s, w, d) ==
    /\ u.pending[d] = IF d = w.date THEN t.pending[d] \ {s} ELSE t.pending[d]
    /\ d # w.date \/ s \notin t.pending[d] => (u.dirty[d] <=> t.dirty[d]) /\ u.floor[d] = t.floor[d]
    /\ d = w.date /\ s \in t.pending[d] =>
          /\ u.dirty[d] <=> t.dirty[d] \/ Dirties(w.reply)
          /\ u.floor[d] = IF w.reply.kind = "accepted" /\ w.reply.rev > t.floor[d]
                          THEN w.reply.rev ELSE t.floor[d]

LEMMA ReleaseTicket ==
    ASSUME NEW t, IsTab(t), NEW w, Proper(w),
           NEW s, NEW u, u = Release(t, s, w), NEW d \in Dates
    PROVE  Returned(t, u, s, w, d)
<1>1. CASE s \notin t.pending[w.date]
  BY <1>1 DEF IsTab, Fields, Release, Proper, Returned
<1>2. CASE s \in t.pending[w.date]
  <2>1. Dirties(w.reply) \in BOOLEAN
    BY DEF Dirties
  <2> QED
    BY <1>2, <2>1 DEF IsTab, Fields, Release, Proper, Returned
<1> QED
  BY <1>1, <1>2

\* A write that is not the lease of the page leaves its day closed or alone.
LEMMA ReleaseOther ==
    ASSUME Distinct, NEW t, PageOK(t), Exclusive(t),
           NEW wr, Linked(t, wr), NEW s \in Slots, t.active # s, Open(wr[s]), IsWrite(wr[s]),
           wr[s].stage # "sent", \A r \in t.reads : r.by # s,
           NEW wr2, \A q \in Slots : q # s => wr2[q] = wr[q], wr2[s] = Idle,
           NEW u, u = Release(t, s, wr[s])
    PROVE  PageOK(u) /\ Exclusive(u) /\ Linked(u, wr2)
<1> DEFINE w == wr[s]
<1>0. Proper(w) /\ IsTab(t) /\ u = Release(t, s, w)
  BY DEF IsWrite, ReplyReal, PageOK, PageShape, Proper
<1> HIDE DEF w
<1>1. /\ IsTab(u)
      /\ u.props = t.props /\ u.date = t.date /\ u.gen = t.gen /\ u.live = t.live
      /\ u.active = t.active /\ u.phase = t.phase
      /\ u.barrier = t.barrier /\ u.handoff = t.handoff /\ u.gate = t.gate /\ u.reads = t.reads
      /\ u.rev = t.rev /\ u.blocks = t.blocks /\ u.highest = t.highest /\ u.chain = t.chain
  BY <1>0, ReleaseTab
<1>2. /\ \A d \in Dates : u.pending[d] = t.pending[d] \ {s}
      /\ \A d \in Dates : s \notin t.pending[d] => (u.dirty[d] <=> t.dirty[d]) /\ u.floor[d] = t.floor[d]
  <2>1. \A d \in Dates : s \in t.pending[d] => d = w.date
    BY DEF Linked, TicketsLinked, w
  <2>2. ASSUME NEW d \in Dates
        PROVE  Returned(t, u, s, w, d)
    BY <1>0, ReleaseTicket
  <2> QED
    BY <2>1, <2>2 DEF Returned
<1>3. t.date \in Dates /\ (t.active # None => t.pending[t.date] = {t.active})
  BY DEF PageOK, PageShape, IsTab, LeaseOwned
<1>4. PropsReal(u) /\ ShownReal(u) /\ Waiting(u) /\ Exclusive(u)
  BY <1>1, <1>2, <1>3 DEF PageOK, PageShape, PropsReal, ShownReal, Waiting, Exclusive
<1>5. LeaseOwned(u)
  BY <1>1, <1>2, <1>3 DEF PageOK, PageShape, LeaseOwned
<1>6. OwnWritesShown(u)
  BY <1>1, <1>2, <1>3 DEF PageOK, OwnWritesShown, Editable
<1>7. LeaseLinked(u, wr2)
  BY <1>1 DEF Linked, LeaseLinked, PageOK, PageShape, IsTab
<1>8. OneLease(u, wr2)
  BY <1>1 DEF Linked, OneLease, Open, Idle
<1>9. TicketsLinked(u, wr2)
  BY <1>2 DEF Linked, TicketsLinked, PageOK, PageShape, IsTab
<1>10. ReadsLinked(u, wr2)
  BY <1>1 DEF Linked, ReadsLinked
<1>11. ChainLinked(u, wr2)
  BY <1>1 DEF Linked, ChainLinked, Idle
<1> QED
  BY <1>1, <1>4, <1>5, <1>6, <1>7, <1>8, <1>9, <1>10, <1>11 DEF PageOK, PageShape, Linked

\* What the end of a lease leaves alone.
Freed(t, u, s, phase) ==
    /\ u.active = None /\ u.phase = phase /\ u.pending[t.date] = {} /\ u.own = t.own \ {s}
    /\ u.handoff = t.handoff /\ u.gate = t.gate /\ u.reads = t.reads /\ u.barrier = t.barrier
    /\ u.live = t.live /\ u.failed = t.failed /\ u.gen = t.gen /\ u.date = t.date

\* The lease is given back by the page that holds it.  It may be used again at once if
\* it shows what was written and no outcome is unknown.
LEMMA FinallyOK ==
    ASSUME Distinct, NEW t, PageOK(t), Exclusive(t),
           NEW wr, Linked(t, wr), NEW s \in Slots, t.active = s, IsWrite(wr[s]),
           wr[s].stage # "sent", \A r \in t.reads : r.by # s,
           NEW wr2, \A q \in Slots : q # s => wr2[q] = wr[q], wr2[s] = Idle,
           NEW phase \in Phases, NEW reread \in BOOLEAN,
           phase = "idle" =>
                /\ t.rev # None
                /\ wr[s].reply.kind = "accepted" => wr[s].reply.rev <= t.rev
                /\ Dirties(wr[s].reply) => reread,
           NEW u, u = Finally(Unleased(t, phase), s, wr[s], reread)
    PROVE  PageOK(u) /\ Exclusive(u) /\ Linked(u, wr2) /\ u.active = None /\ Freed(t, u, s, phase)
           /\ u.rev = t.rev /\ u.highest = t.highest /\ u.gen = t.gen /\ u.date = t.date /\ u.chain = t.chain
<1> DEFINE w == wr[s]
           v == Unleased(t, phase)
           x == Release(v, s, w)
<1>1. /\ t.live /\ t.handoff = None /\ t.pending[t.date] = {s} /\ ~t.dirty[t.date]
      /\ t.floor[t.date] <= t.highest /\ t.date \in Dates /\ s # None
      /\ t.gen \in Nat /\ t.rev \in Nat \union {None} /\ (t.rev # None => t.rev = t.highest)
      /\ t.floor[t.date] \in Int /\ t.highest \in Int
  BY DEF PageOK, PageShape, LeaseOwned, IsTab, Distinct, ShownReal
<1>2. Open(w) /\ w.gen = t.gen /\ w.date = t.date /\ Proper(w)
  BY <1>1 DEF Linked, LeaseLinked, IsWrite, ReplyReal, Proper
<1>3. /\ IsTab(v) /\ v.active = None /\ v.phase = phase
      /\ v.props = t.props /\ v.date = t.date /\ v.gen = t.gen /\ v.live = t.live
      /\ v.barrier = t.barrier /\ v.handoff = t.handoff /\ v.gate = t.gate /\ v.reads = t.reads
      /\ v.rev = t.rev /\ v.blocks = t.blocks /\ v.highest = t.highest /\ v.chain = t.chain
      /\ v.pending = t.pending /\ v.dirty = t.dirty /\ v.floor = t.floor
      /\ v.own = t.own /\ v.failed = t.failed
  BY DEF PageOK, PageShape, IsTab, Fields, Unleased
<1>4. u = IF IsCurrent(v, w) /\ v.rev # None /\ (Settlement(w.reply) = "accepted" \/ reread)
          THEN Acknowledge(x, w.date, v.rev, reread) ELSE x
  BY DEF Finally
<1>5. IsCurrent(v, w)
  BY <1>1, <1>2, <1>3 DEF IsCurrent
<1>6. x = Release(v, s, w)
  OBVIOUS
<1> HIDE DEF v, w, x
<1>7. /\ IsTab(x)
      /\ x.props = v.props /\ x.date = v.date /\ x.gen = v.gen /\ x.live = v.live
      /\ x.active = v.active /\ x.phase = v.phase
      /\ x.barrier = v.barrier /\ x.handoff = v.handoff /\ x.gate = v.gate /\ x.reads = v.reads
      /\ x.rev = v.rev /\ x.blocks = v.blocks /\ x.highest = v.highest /\ x.chain = v.chain
      /\ x.own = v.own \ {s} /\ x.failed = v.failed
  BY <1>2, <1>3, <1>6, ReleaseTab
<1>8. ASSUME NEW d \in Dates PROVE Returned(v, x, s, w, d)
  BY <1>2, <1>3, <1>6, ReleaseTicket
<1>9. /\ x.pending[t.date] = {}
      /\ x.dirty[t.date] <=> Dirties(w.reply)
      /\ x.floor[t.date] = IF w.reply.kind = "accepted" /\ w.reply.rev > t.floor[t.date]
                           THEN w.reply.rev ELSE t.floor[t.date]
      /\ \A d \in Dates : d # t.date => x.pending[d] = t.pending[d]
  <2>1. /\ t.date \in Dates /\ w.date = t.date /\ v.pending = t.pending /\ v.floor = t.floor
        /\ t.pending[t.date] = {s} /\ v.dirty = t.dirty /\ ~t.dirty[t.date]
    BY <1>1, <1>2, <1>3
  <2>2. x.pending[t.date] = {} /\ \A d \in Dates : d # t.date => x.pending[d] = t.pending[d]
    BY <2>1, <1>8 DEF Returned
  <2> QED
    BY <2>1, <2>2, <1>8 DEF Returned
<1>10. /\ IsTab(u) /\ Kept(x, u)
       /\ u.rev = x.rev /\ u.highest = x.highest /\ u.blocks = x.blocks /\ u.phase = x.phase
       /\ u.dirty[t.date] => x.dirty[t.date]
  BY <1>1, <1>2, <1>4, <1>7, AcknowledgeTab DEF Kept, Unmoved
<1>11. phase = "idle" => ~u.dirty[t.date] /\ u.floor[t.date] <= t.rev
  <2>1. SUFFICES ASSUME phase = "idle" PROVE ~u.dirty[t.date] /\ u.floor[t.date] <= t.rev
    OBVIOUS
  <2>2. u.floor[t.date] <= t.rev /\ u.floor = x.floor /\ t.rev >= x.floor[t.date] /\ t.rev # None
    BY <1>1, <1>2, <1>9, <1>10, <2>1 DEF Kept, Unmoved, w, Proper
  <2>3. CASE ~Dirties(w.reply)
    BY <1>9, <1>10, <2>2, <2>3
  <2>4. CASE Dirties(w.reply)
    <3>1. reread
      BY <2>1, <2>4 DEF w
    <3>2. u = Acknowledge(x, t.date, t.rev, reread)
      BY <1>2, <1>3, <1>4, <1>5, <2>2, <3>1
    <3>3. u = [x EXCEPT !.dirty[t.date] = FALSE]
      BY <1>9, <2>2, <3>1, <3>2 DEF Acknowledge
    <3> QED
      BY <1>1, <1>7, <2>2, <3>3 DEF IsTab, Fields
  <2> QED
    BY <2>3, <2>4
<1>12. PropsReal(u) /\ ShownReal(u) /\ LeaseOwned(u) /\ Waiting(u) /\ Exclusive(u)
  BY <1>1, <1>3, <1>7, <1>10 DEF PageOK, PageShape, PropsReal, ShownReal, LeaseOwned, Waiting, Exclusive,
                                 Kept, Unmoved, Distinct
<1>13. OwnWritesShown(u)
  BY <1>3, <1>7, <1>9, <1>10, <1>11 DEF OwnWritesShown, Editable, Kept, Unmoved
<1>14. LeaseLinked(u, wr2)
  BY <1>3, <1>7, <1>10 DEF LeaseLinked, Kept, Unmoved
<1>15. OneLease(u, wr2)
  BY <1>3, <1>7, <1>10 DEF OneLease, Linked, Open, Idle, Kept, Unmoved
<1>16. TicketsLinked(u, wr2)
  <2>1. ASSUME NEW d \in Dates, NEW q \in u.pending[d]
        PROVE  q \in t.pending[d] /\ u.pending[d] = t.pending[d] /\ q # s
    BY <1>2, <1>9, <1>10 DEF Linked, TicketsLinked, Kept, Unmoved, w
  <2> QED
    BY <2>1 DEF Linked, TicketsLinked, PageOK, PageShape, IsTab
<1>17. ReadsLinked(u, wr2)
  BY <1>3, <1>7, <1>10 DEF Linked, ReadsLinked, Kept, Unmoved
<1>18. ChainLinked(u, wr2)
  BY <1>3, <1>7, <1>10 DEF Linked, ChainLinked, Idle, Kept, Unmoved
<1>19. Freed(t, u, s, phase)
  BY <1>3, <1>7, <1>9, <1>10 DEF Freed, Kept, Unmoved
<1> QED
  BY <1>3, <1>7, <1>10, <1>12, <1>13, <1>14, <1>15, <1>16, <1>17, <1>18, <1>19
     DEF PageOK, PageShape, Linked, Kept, Unmoved

-----------------------------------------------------------------------------
(* The page takes a reply, a new context, another day *)

LEMMA AcceptedOK ==
    ASSUME Distinct, NEW t, PageOK(t), Exclusive(t),
           NEW wr, Linked(t, wr), NEW s \in Slots, t.active = s, IsWrite(wr[s]),
           wr[s].stage = "answered", wr[s].reply.kind = "accepted", Accepts(t, wr[s]),
           NEW u, u = Accepted(t, wr[s])
    PROVE  /\ PageOK(u) /\ Exclusive(u) /\ Linked(u, wr) /\ u.active = s
           /\ u.rev = wr[s].reply.rev /\ u.highest = wr[s].reply.rev /\ u.rev \in Nat
           /\ u.highest >= t.highest /\ Unmoved(t, u) /\ u.reads = t.reads
           /\ u.handoff = t.handoff /\ u.gate = t.gate
<1> DEFINE w == wr[s]
<1>1. Fresh([t EXCEPT !.props = w.reply]) /\ DOMAIN t = Fields /\ w.reply.kind = "accepted"
  BY DEF Accepts, PageOK, PageShape, IsTab
<1>2. w.reply.rev >= t.highest
  <2>1. [t EXCEPT !.props = w.reply].props = w.reply /\ [t EXCEPT !.props = w.reply].highest = t.highest
    BY <1>1 DEF Fields
  <2> QED
    BY <1>1, <2>1 DEF Fresh
<1>3. /\ w.reply.rev \in Nat /\ w.reply.rev <= Revision(w.date)
      /\ w.reply.blocks = day[w.date][w.reply.rev + 1]
      /\ w.date = t.date /\ w.gen = t.gen /\ s # None
  BY DEF IsWrite, ReplyReal, Open, Linked, LeaseLinked, Distinct
<1>4. u = [t EXCEPT !.rev = w.reply.rev, !.blocks = w.reply.blocks, !.highest = w.reply.rev]
  BY DEF Accepted
<1> HIDE DEF w
<1>5. /\ IsTab(u) /\ Unmoved(t, u) /\ u.handoff = t.handoff /\ u.gate = t.gate /\ u.reads = t.reads
      /\ u.dirty = t.dirty /\ u.phase = t.phase
      /\ u.rev = w.reply.rev /\ u.highest = w.reply.rev /\ u.blocks = w.reply.blocks
  BY <1>3, <1>4 DEF PageOK, PageShape, IsTab, Fields, Unmoved
<1>6. /\ t.live /\ t.handoff = None /\ t.phase # "idle" /\ t.floor[t.date] <= t.highest
      /\ t.floor[t.date] \in Int /\ t.highest \in Int
  BY <1>3 DEF PageOK, PageShape, LeaseOwned, IsTab
<1>7. PropsReal(u) /\ ShownReal(u) /\ Exclusive(u)
  BY <1>3, <1>5, <1>6 DEF PageOK, PageShape, PropsReal, ShownReal, Exclusive, Unmoved
<1>8. LeaseOwned(u) /\ OwnWritesShown(u)
  <2>1. t.floor[t.date] <= w.reply.rev
    <3>1. w.reply.rev \in Int /\ w.reply.rev >= t.highest
      BY <1>2, <1>3
    <3> QED
      BY <3>1, <1>6
  <2> QED
    BY <2>1, <1>5, <1>6 DEF PageOK, PageShape, LeaseOwned, OwnWritesShown, Editable, Unmoved
<1>9. Waiting(u)
  BY <1>3, <1>5, <1>6 DEF PageOK, PageShape, Waiting, Unmoved
<1>10. LeaseLinked(u, wr)
  BY <1>3, <1>5 DEF Linked, LeaseLinked, Unmoved, w, Distinct
<1>11. OneLease(u, wr) /\ TicketsLinked(u, wr) /\ ReadsLinked(u, wr) /\ ChainLinked(u, wr)
  BY <1>5 DEF Linked, OneLease, TicketsLinked, ReadsLinked, ChainLinked, Unmoved
<1> QED
  BY <1>2, <1>3, <1>5, <1>7, <1>8, <1>9, <1>10, <1>11 DEF PageOK, PageShape, Linked, Unmoved, w

\* A new generation of the page: what is in flight is not its own any more.
LEMMA ResetTab ==
    ASSUME NEW t, IsTab(t), NEW reason, NEW u, u = Reset(t, reason)
    PROVE  /\ IsTab(u)
           /\ u.floor = t.floor /\ u.dirty = t.dirty /\ u.pending = t.pending /\ u.props = t.props
           /\ u.date = t.date /\ u.gen = t.gen + 1 /\ u.barrier = t.barrier /\ u.chain = t.chain
           /\ u.reads = t.reads /\ u.handoff = None /\ u.active = None /\ u.rev = None
           /\ u.gate = (IF reason = "context" THEN "waiting" ELSE None)
           /\ u.highest = -1 /\ u.phase = "synchronizing"
           /\ u.live = (t.live /\ reason # "session")
           /\ u.seen = t.seen /\ u.own = t.own
<1>1. DOMAIN u = Fields
  BY DEF IsTab, Reset
<1>2. /\ u.floor = t.floor /\ u.dirty = t.dirty /\ u.pending = t.pending /\ u.props = t.props
      /\ u.date = t.date /\ u.barrier = t.barrier /\ u.chain = t.chain
      /\ u.reads = t.reads /\ u.seen = t.seen /\ u.own = t.own
  BY DEF IsTab, Fields, Reset
<1>3. /\ u.handoff = None /\ u.active = None /\ u.rev = None
      /\ u.highest = -1 /\ u.phase = "synchronizing"
  BY DEF IsTab, Fields, Reset
<1>4. u.gen = t.gen + 1 /\ u.live = (t.live /\ reason # "session")
  BY DEF IsTab, Fields, Reset
<1>5. u.gate = (IF reason = "context" THEN "waiting" ELSE None)
  BY DEF IsTab, Fields, Reset
<1> QED
  BY <1>1, <1>2, <1>3, <1>4, <1>5 DEF IsTab, Phases, Waits

\* An owner without a lease and a day holds nothing, and nothing in flight is its own.
LEMMA OwnerOK ==
    ASSUME Distinct, NEW t, IsTab(t), NEW wr, Linked(t, wr), \A s \in Slots : IsWrite(wr[s]),
           NEW u, IsTab(u), PropsReal(u), u.rev = None, u.active = None, u.handoff = None,
           u.gen = t.gen + 1, u.reads = t.reads,
           \A d \in Dates : u.pending[d] = t.pending[d] \/ u.pending[d] = {}
    PROVE  PageOK(u) /\ Exclusive(u) /\ Linked(u, wr)
<1>1. u.gen \in Nat /\ t.gen \in Nat /\ u.gen > t.gen
  BY DEF IsTab
<1>2. PageOK(u) /\ Exclusive(u)
  BY DEF PageOK, PageShape, ShownReal, LeaseOwned, OwnWritesShown, Editable, Waiting, Exclusive, Distinct
<1>3. LeaseLinked(u, wr)
  BY DEF LeaseLinked
<1>4. ASSUME NEW s \in Slots, Open(wr[s]) PROVE wr[s].gen \in Nat /\ wr[s].gen < u.gen
  <2>1. wr[s].gen \in Nat /\ wr[s].gen <= t.gen
    BY <1>4 DEF Linked, OneLease, IsWrite
  <2> QED
    BY <1>1, <2>1
<1>5. OneLease(u, wr)
  BY <1>1, <1>4 DEF OneLease
<1>6. TicketsLinked(u, wr)
  BY DEF Linked, TicketsLinked
<1>7. ReadsLinked(u, wr)
  BY <1>1 DEF Linked, ReadsLinked
<1>8. ChainLinked(u, wr)
  BY <1>1, <1>4 DEF ChainLinked, Open
<1> QED
  BY <1>2, <1>3, <1>5, <1>6, <1>7, <1>8 DEF Linked

WithProps(t, snapshot) == [t EXCEPT !.props = snapshot, !.seen = FALSE, !.barrier = FALSE]

\* What props leave alone by themselves.
Received(t, u) ==
    /\ u.floor = t.floor /\ u.pending = t.pending /\ u.date = t.date /\ u.gen = t.gen
    /\ u.live = t.live /\ u.active = t.active /\ u.chain = t.chain /\ u.failed = t.failed
    /\ u.handoff = t.handoff /\ u.gate = t.gate /\ u.reads = t.reads
    /\ u.rev = t.rev /\ u.highest = t.highest /\ ~u.barrier
    /\ u.own = t.own /\ u.phase = t.phase

LEMMA PropsOK ==
    ASSUME Distinct, NEW t, PageOK(t), Exclusive(t), NEW snapshot, Real(snapshot), snapshot.date = t.date,
           NEW u, u = WithProps(t, snapshot)
    PROVE  /\ PageOK(u) /\ Exclusive(u) /\ Received(t, u)
           /\ \A wr : Linked(t, wr) => Linked(u, wr)
<1>1. /\ IsTab(u)
      /\ u.floor = t.floor /\ u.pending = t.pending /\ u.dirty = t.dirty
      /\ u.date = t.date /\ u.gen = t.gen
      /\ u.live = t.live /\ u.active = t.active /\ u.chain = t.chain /\ u.failed = t.failed
      /\ u.handoff = t.handoff /\ u.gate = t.gate /\ u.reads = t.reads
      /\ u.rev = t.rev /\ u.highest = t.highest /\ u.blocks = t.blocks /\ u.phase = t.phase
      /\ ~u.barrier /\ u.props = snapshot /\ u.own = t.own
  BY DEF PageOK, PageShape, IsTab, Fields, WithProps
<1>2. PageOK(u)
  BY <1>1 DEF PageOK, PageShape, PropsReal, ShownReal, LeaseOwned, OwnWritesShown, Editable, Waiting
<1>3. Exclusive(u)
  BY <1>1 DEF Exclusive
<1>4. ASSUME NEW wr, Linked(t, wr) PROVE Linked(u, wr)
  BY <1>1, <1>4 DEF Linked, LeaseLinked, OneLease, TicketsLinked, ReadsLinked, ChainLinked
<1> QED
  BY <1>1, <1>2, <1>3, <1>4 DEF Received

\* What a delivery leaves alone.
Delivery(t, u) ==
    /\ u.floor = t.floor /\ u.pending = t.pending /\ u.date = t.date /\ u.gen = t.gen
    /\ u.live = t.live /\ u.active = t.active /\ u.chain = t.chain /\ u.failed = t.failed
    /\ u.gate = t.gate /\ u.reads = t.reads
    /\ t.handoff = "reading" => u.handoff = "reading"
    /\ Later(t, u)

LEMMA DeliveredOK ==
    ASSUME Distinct, DaysOK, NEW t, PageOK(t), Exclusive(t), NEW wr, Linked(t, wr),
           \A s \in Slots : IsWrite(wr[s]),
           NEW r, NEW snapshot, Real(snapshot), snapshot.date = r.date, NEW u, u = Delivered(t, r, snapshot)
    PROVE  /\ PageOK(u) /\ Exclusive(u) /\ Linked(u, wr) /\ Delivery(t, u)
           /\ r.date = t.date => Covered(u)
<1>0. t.highest \in Int /\ t.highest >= t.highest /\ (t.rev # None => t.rev = t.highest) /\ t.props.date = t.date
  BY DEF PageOK, PageShape, IsTab, ShownReal, PropsReal
<1>1. CASE r.date # t.props.date \/ ~t.live
  BY <1>0, <1>1 DEF Delivered, Delivery, Later, Covered
<1>2. CASE r.date = t.props.date /\ t.live
  <2> DEFINE v == WithProps(t, snapshot)
  <2>1. u = Watch(v)
    BY <1>2 DEF Delivered, WithProps
  <2>2. PageOK(v) /\ Exclusive(v) /\ Linked(v, wr) /\ Received(t, v)
    BY <1>0, <1>2, PropsOK
  <2> HIDE DEF v
  <2>3. /\ PageOK(u) /\ Exclusive(u) /\ Covered(u)
        /\ Unmoved(v, u) /\ u.gate = v.gate /\ u.reads = v.reads /\ Later(v, u)
        /\ v.handoff = "reading" => u.handoff = "reading"
    BY <2>1, <2>2, WatchOK
  <2>4. Linked(u, wr)
    BY <2>2, <2>3, MovedLinked DEF Moved, PageOK, PageShape
  <2>5. Delivery(t, u)
    BY <2>2, <2>3 DEF Delivery, Unmoved, Later, Received
  <2> QED
    BY <2>3, <2>4, <2>5
<1> QED
  BY <1>1, <1>2

-----------------------------------------------------------------------------
(* Reads *)

\* The same owner, not behind what it showed.
Onward(t, u) ==
    /\ u.gen = t.gen /\ u.date = t.date /\ u.live = t.live /\ u.active = t.active
    /\ u.pending = t.pending /\ u.reads = t.reads /\ u.chain = t.chain
    /\ Later(t, u)

LEMMA OnwardLinked ==
    ASSUME Distinct, NEW t, NEW wr, IsTab(t), Linked(t, wr), NEW u, IsTab(u), Onward(t, u),
           \A s \in Slots : IsWrite(wr[s])
    PROVE  Linked(u, wr)
<1>1. LeaseLinked(u, wr)
  <2>1. SUFFICES ASSUME u.active # None PROVE LeaseLinked(u, wr)
    BY DEF LeaseLinked
  <2> DEFINE w == wr[t.active]
  <2>2. /\ u.active = t.active /\ u.gen = t.gen /\ u.date = t.date /\ u.highest >= t.highest
        /\ t.highest \in Int /\ u.highest \in Int /\ t.active \in Slots
        /\ t.rev # None => u.rev # None
    BY <2>1 DEF Onward, Later, IsTab
  <2>3. w.stage \in {"reading", "reviewing"} /\ w.reply.kind = "accepted" =>
            w.reply.rev \in Int /\ w.reply.rev <= t.highest
    BY <2>1, <2>2 DEF Linked, LeaseLinked, IsWrite, Open, ReplyReal
  <2>4. w.reply.rev \in Int /\ w.reply.rev <= t.highest => w.reply.rev <= u.highest
    BY <2>2
  <2> QED
    BY <2>1, <2>2, <2>3, <2>4 DEF Linked, LeaseLinked
<1> QED
  BY <1>1 DEF Onward, Linked, OneLease, TicketsLinked, ReadsLinked, ChainLinked

\* A task that read the day has done, or its page says that it has not.
HandoffDone(t, u) ==
    /\ u.own = t.own
    /\ ~u.failed => /\ u.handoff = None /\ u.phase = "idle" /\ ~t.failed
                   /\ u.gate = t.gate /\ u.barrier = t.barrier

ContextDone(t, u) ==
    /\ u.own = t.own
    /\ ~u.failed => /\ u.gate = None /\ u.rev # None /\ ~u.barrier /\ ~t.failed
                   /\ u.handoff = t.handoff /\ (t.active = None => u.phase = "idle")

LEMMA HandoffReadOK ==
    ASSUME Distinct, NEW t, PageOK(t), Exclusive(t), t.handoff = "reading",
           NEW ok \in BOOLEAN, NEW u, u = AfterHandoffRead(t, ok)
    PROVE  PageOK(u) /\ Exclusive(u) /\ Onward(t, u) /\ HandoffDone(t, u)
<1> DEFINE shown == IF ok /\ UpToDate(t) THEN Ingest(t, TRUE) ELSE t
<1>1. /\ t.active = None /\ t.live /\ t.pending[t.date] = {} /\ IsTab(t) /\ PropsReal(t) /\ ShownReal(t)
      /\ t.date \in Dates /\ t.handoff # None /\ Covered(t)
  BY DEF PageOK, PageShape, LeaseOwned, Waiting, IsTab, Distinct, Covered
<1>2. t.highest \in Int /\ t.highest >= t.highest /\ (t.rev # None => t.rev = t.highest)
  BY <1>1 DEF IsTab, ShownReal
<1>3. CASE ok /\ UpToDate(t) /\ CanIngest(t, TRUE) /\ shown.rev >= t.floor[t.date]
  <2> DEFINE a == Acknowledge(shown, t.date, shown.rev, TRUE)
  <2>1. shown = Ingest(t, TRUE) /\ u = [a EXCEPT !.handoff = None, !.phase = "idle"]
    BY <1>3 DEF AfterHandoffRead
  <2>2. IsTab(shown) /\ Kept(t, shown) /\ shown.rev = t.props.rev /\ shown.rev >= t.floor[t.date]
    BY <1>1, <1>3, <2>1, IngestTab
  <2>3. PageOK(shown) /\ Later(t, shown)
    BY <1>1, <2>1, IngestOK, IngestLater DEF PageOK
  <2>4. a = [shown EXCEPT !.dirty[t.date] = FALSE]
    BY <1>1, <2>2 DEF Acknowledge, Kept, Unmoved
  <2> HIDE DEF shown, a
  <2>5. /\ IsTab(a) /\ Unmoved(shown, a) /\ a.gate = shown.gate /\ a.reads = shown.reads
        /\ a.rev = shown.rev /\ a.highest = shown.highest /\ a.blocks = shown.blocks
        /\ ~a.dirty[t.date]
    <3>1. DOMAIN a = Fields /\ Unmoved(shown, a) /\ a.gate = shown.gate /\ a.reads = shown.reads
      BY <2>2, <2>4 DEF IsTab, Fields, Unmoved
    <3>2. /\ a.rev = shown.rev /\ a.highest = shown.highest /\ a.blocks = shown.blocks
          /\ a.phase = shown.phase /\ a.handoff = shown.handoff
      BY <2>2, <2>4 DEF IsTab, Fields
    <3>3. a.dirty \in [Dates -> BOOLEAN] /\ ~a.dirty[t.date]
      BY <1>1, <2>2, <2>4 DEF IsTab, Fields
    <3> QED
      BY <2>2, <3>1, <3>2, <3>3 DEF IsTab, Unmoved
  <2>50. /\ IsTab(u) /\ Unmoved(shown, u) /\ u.gate = shown.gate /\ u.reads = shown.reads
        /\ u.rev = shown.rev /\ u.highest = shown.highest /\ u.blocks = shown.blocks
        /\ u.handoff = None /\ u.phase = "idle" /\ ~u.dirty[t.date]
    <3>1. DOMAIN u = Fields /\ Unmoved(a, u) /\ u.gate = a.gate /\ u.reads = a.reads
      BY <2>1, <2>5 DEF IsTab, Fields, Unmoved
    <3>2. /\ u.rev = a.rev /\ u.highest = a.highest /\ u.blocks = a.blocks
          /\ u.phase = "idle" /\ u.handoff = None /\ u.dirty = a.dirty
      BY <2>1, <2>5 DEF IsTab, Fields
    <3> QED
      BY <2>5, <3>1, <3>2 DEF IsTab, Unmoved, Phases, Waits
  <2>6. PropsReal(u) /\ ShownReal(u) /\ LeaseOwned(u) /\ Waiting(u) /\ Exclusive(u)
    BY <1>1, <2>2, <2>3, <2>50 DEF PageOK, PageShape, PropsReal, ShownReal, LeaseOwned, Waiting, Exclusive,
                                  Kept, Unmoved, Distinct
  <2>7. OwnWritesShown(u)
    BY <1>1, <2>2, <2>50 DEF OwnWritesShown, Kept, Unmoved, IsTab
  <2>8. Onward(t, u)
    BY <2>2, <2>3, <2>50 DEF Onward, Later, Kept, Unmoved
  <2>9. HandoffDone(t, u)
    BY <2>2, <2>50 DEF HandoffDone, Kept, Unmoved
  <2> QED
    BY <2>50, <2>6, <2>7, <2>8, <2>9 DEF PageOK, PageShape
<1>4. CASE ~(ok /\ UpToDate(t) /\ CanIngest(t, TRUE) /\ shown.rev >= t.floor[t.date])
  <2>1. u = [shown EXCEPT !.handoff = "closed", !.failed = TRUE]
    BY <1>4 DEF AfterHandoffRead
  <2>2. shown = t
    <3>1. CASE ok /\ UpToDate(t) /\ CanIngest(t, TRUE)
      <4>1. shown.rev = t.props.rev
        BY <1>1, <3>1, IngestTab
      <4> QED
        BY <1>1, <1>4, <3>1, <4>1 DEF UpToDate
    <3> QED
      BY <1>1, <3>1, IngestTab
  <2>3. /\ IsTab(u) /\ u.floor = t.floor /\ u.pending = t.pending /\ u.props = t.props /\ u.dirty = t.dirty
        /\ u.date = t.date /\ u.gen = t.gen /\ u.live = t.live /\ u.active = t.active
        /\ u.barrier = t.barrier /\ u.chain = t.chain /\ u.gate = t.gate /\ u.reads = t.reads
        /\ u.rev = t.rev /\ u.highest = t.highest /\ u.blocks = t.blocks /\ u.phase = t.phase
        /\ u.handoff = "closed" /\ u.failed /\ u.own = t.own
    <3> HIDE DEF shown
    <3>1. u = [t EXCEPT !.handoff = "closed", !.failed = TRUE]
      BY <2>1, <2>2
    <3>2. DOMAIN u = Fields /\ u.floor = t.floor /\ u.pending = t.pending /\ u.props = t.props
      BY <1>1, <3>1 DEF IsTab, Fields
    <3>3. /\ u.dirty = t.dirty /\ u.date = t.date /\ u.gen = t.gen /\ u.live = t.live /\ u.active = t.active
          /\ u.barrier = t.barrier /\ u.chain = t.chain /\ u.gate = t.gate /\ u.reads = t.reads
      BY <1>1, <3>1 DEF IsTab, Fields
    <3>4. /\ u.rev = t.rev /\ u.highest = t.highest /\ u.blocks = t.blocks /\ u.phase = t.phase
          /\ u.handoff = "closed" /\ u.failed /\ u.own = t.own
      BY <1>1, <3>1 DEF IsTab, Fields
    <3> QED
      BY <1>1, <3>2, <3>3, <3>4 DEF IsTab, Waits
  <2>4. PageOK(u) /\ Exclusive(u)
    BY <1>1, <2>3 DEF PageOK, PageShape, PropsReal, ShownReal, LeaseOwned, Waiting, OwnWritesShown, Editable,
                      Exclusive, Distinct
  <2> QED
    BY <1>2, <2>3, <2>4 DEF Onward, Later, HandoffDone
<1> QED
  BY <1>3, <1>4

LEMMA ContextReadOK ==
    ASSUME Distinct, NEW t, PageOK(t), Exclusive(t), t.gate = "reading",
           NEW ok \in BOOLEAN, ok => Covered(t), NEW u, u = AfterContextRead(t, ok)
    PROVE  PageOK(u) /\ Exclusive(u) /\ Onward(t, u) /\ ContextDone(t, u)
<1>1. IsTab(t) /\ PropsReal(t) /\ ShownReal(t)
  BY DEF PageOK, PageShape
<1>2. t.highest \in Int /\ t.highest >= t.highest /\ (t.rev # None => t.rev = t.highest)
  BY <1>1 DEF IsTab, ShownReal
<1>3. CASE ok /\ CanIngest(t, TRUE)
  <2> DEFINE v == Ingest(t, TRUE)
  <2>1. u = [v EXCEPT !.gate = None]
    BY <1>3 DEF AfterContextRead
  <2>2. PageOK(v) /\ Kept(t, v) /\ Later(t, v)
    BY <1>1, <1>3, IngestOK, IngestTab, IngestLater DEF PageOK
  <2>5. v.rev # None /\ ~t.barrier /\ (t.active = None => v.phase = "idle")
    <3>1. PICK auth \in BOOLEAN : auth = TRUE
      OBVIOUS
    <3>2. v = Ingest(t, auth) /\ CanIngest(t, auth)
      BY <1>3, <3>1
    <3> HIDE DEF v
    <3>3. v.rev = t.props.rev /\ (t.active = None => v.phase = "idle")
      BY <1>1, <3>2, IngestTab
    <3> QED
      BY <1>1, <1>3, <3>3 DEF CanIngest, PropsReal, Real, Distinct
  <2> HIDE DEF v
  <2>3. /\ IsTab(u) /\ Unmoved(v, u) /\ u.gate = None /\ u.reads = v.reads /\ u.dirty = v.dirty
        /\ u.rev = v.rev /\ u.highest = v.highest /\ u.blocks = v.blocks /\ u.phase = v.phase
        /\ u.handoff = v.handoff
    BY <2>1, <2>2 DEF PageOK, PageShape, IsTab, Fields, Waits, Unmoved
  <2>4. PageOK(u) /\ Exclusive(u)
    BY <2>2, <2>3 DEF PageOK, PageShape, PropsReal, ShownReal, LeaseOwned, Waiting, OwnWritesShown, Editable,
                      Exclusive, Unmoved
  <2> QED
    BY <2>2, <2>3, <2>4, <2>5 DEF Onward, Later, Kept, Unmoved, ContextDone
<1>4. CASE ~(ok /\ CanIngest(t, TRUE))
  <2>1. u = [t EXCEPT !.gate = "closed", !.failed = TRUE]
    BY <1>4 DEF AfterContextRead
  <2>2. /\ IsTab(u) /\ u.floor = t.floor /\ u.pending = t.pending /\ u.props = t.props /\ u.dirty = t.dirty
        /\ u.date = t.date /\ u.gen = t.gen /\ u.live = t.live /\ u.active = t.active
        /\ u.barrier = t.barrier /\ u.chain = t.chain /\ u.handoff = t.handoff /\ u.reads = t.reads
        /\ u.rev = t.rev /\ u.highest = t.highest /\ u.blocks = t.blocks /\ u.phase = t.phase
        /\ u.gate = "closed" /\ u.failed /\ u.own = t.own
    BY <1>1, <2>1 DEF IsTab, Fields, Waits
  <2>3. PageOK(u) /\ Exclusive(u)
    BY <2>2 DEF PageOK, PageShape, PropsReal, ShownReal, LeaseOwned, Waiting, OwnWritesShown, Editable,
                      Exclusive, Distinct
  <2> QED
    BY <1>2, <2>2, <2>3 DEF Onward, Later, ContextDone
<1> QED
  BY <1>3, <1>4

-----------------------------------------------------------------------------
(* Nobody is left waiting.  The page is read-only only while something     *)
(* will let the user in again: a lease, a task that waits for a write or   *)
(* reads the day, a reload.  Tended says so of a page, TasksHeard and      *)
(* LeaseHeard of the reads that its tasks await (Minded: of any set of     *)
(* reads, Awake: of its own), Rested of the writes, when no step is under  *)
(* way.  A page that is signed out or says that a reload failed (not Calm) *)
(* promises nothing.                                                       *)

Calm(t) == t.live /\ ~t.failed

\* A page that neither writes nor waits has no write of its day to wait for.
Cleared(t) == t.active = None /\ t.handoff = None => t.pending[t.date] = {}

\* A read-only page has a lease or a task.
Expected(t) == t.phase # "idle" => t.active # None \/ t.handoff # None \/ t.gate # None

\* A task that was closed is taken away at once, and a page behind a barrier has one.
Undisturbed(t) == t.handoff # "closed" /\ t.gate # "closed" /\ (t.barrier => t.gate # None)

\* A task that ends with the props at hand lets the user in, or it will have to read.
Outstanding(t) == t.pending[t.date] = {} /\ ~(Settled(t) /\ UpToDate(t))

Tended(t) ==
    /\ Undisturbed(t) /\ Expected(t) /\ Cleared(t)
    /\ t.handoff = "waiting" => t.highest = -1 \/ t.phase = "idle" \/ Outstanding(t)

\* The reads that the tasks of the page wait for are among these.
TasksHeard(t, reads) ==
    /\ t.handoff = "reading" => \E r \in reads : r.by = "handoff" /\ r.gen = t.gen
    /\ t.gate = "reading" => \E r \in reads : r.by = "context" /\ r.gen = t.gen

\* The reload of a lease brings nothing older than what was shown.
LeaseHeard(t) ==
    t.active # None /\ t.rev = None => \A r \in t.reads : r.by = t.active => t.highest <= r.from

\* Between two events, a task that waits has a write to wait for.
Rested(t, wr) ==
    /\ t.handoff = "waiting" => t.pending[t.date] # {}
    /\ t.gate = "waiting" => \E s \in t.own : wr[s].date = t.date

\* The writes that the page itself sent are under way.
OwnOpen(t, wr) == \A s \in t.own : s \in Slots /\ Open(wr[s])

Minded(t, reads) == Calm(t) => Tended(t) /\ TasksHeard(t, reads) /\ LeaseHeard(t)

Awake(t) == Minded(t, t.reads)

Attended(t, wr) == OwnOpen(t, wr) /\ Awake(t) /\ (Calm(t) => Rested(t, wr))

\* A page that its watcher did not look at yet.
Arrived(t) ==
    /\ Undisturbed(t)
    /\ t.highest = -1 \/ (Expected(t) /\ Cleared(t))
    /\ t.handoff = "waiting" => t.pending[t.date] # {} /\ (t.highest = -1 \/ t.phase = "idle")

\* What is alike but for the queue of marks.
Requeued(t, u) ==
    /\ u.floor = t.floor /\ u.pending = t.pending /\ u.props = t.props /\ u.dirty = t.dirty
    /\ u.date = t.date /\ u.gen = t.gen /\ u.live = t.live /\ u.active = t.active
    /\ u.barrier = t.barrier /\ u.handoff = t.handoff /\ u.gate = t.gate /\ u.reads = t.reads
    /\ u.rev = t.rev /\ u.blocks = t.blocks /\ u.highest = t.highest /\ u.phase = t.phase

LEMMA RequeuedAwake ==
    ASSUME NEW t, NEW u, Requeued(t, u), u.own = t.own, Calm(u) => Calm(t)
    PROVE  /\ Awake(t) => Awake(u)
           /\ \A wr : /\ OwnOpen(t, wr) => OwnOpen(u, wr)
                      /\ Attended(t, wr) => Attended(u, wr)
<1>1. Tended(t) => Tended(u)
  BY DEF Requeued, Tended, Undisturbed, Expected, Cleared, Outstanding, Settled, UpToDate
<1>2. Awake(t) => Awake(u)
  BY <1>1 DEF Requeued, Awake, Minded, TasksHeard, LeaseHeard
<1>3. ASSUME NEW wr PROVE (OwnOpen(t, wr) => OwnOpen(u, wr)) /\ (Rested(t, wr) => Rested(u, wr))
  BY DEF Requeued, OwnOpen, Rested
<1> QED
  BY <1>2, <1>3 DEF Attended

LEMMA AlikeAwake ==
    ASSUME NEW t, NEW u, Alike(t, u)
    PROVE  /\ Awake(t) => Awake(u)
           /\ \A wr : /\ OwnOpen(t, wr) => OwnOpen(u, wr)
                      /\ Attended(t, wr) => Attended(u, wr)
<1>1. Requeued(t, u) /\ u.own = t.own /\ (Calm(u) <=> Calm(t))
  BY DEF Alike, Kept, Unmoved, Requeued, Calm
<1> QED
  BY <1>1, RequeuedAwake

\* The watcher lets the user in, or starts what will.
LEMMA WatchTended ==
    ASSUME Distinct, NEW t, PageOK(t), Exclusive(t), t.live, Arrived(t), NEW u, u = Watch(t)
    PROVE  /\ Tended(u)
           /\ u.handoff = "reading" => t.handoff = "reading"
           /\ u.active # None /\ u.rev = None => u.highest = t.highest
           /\ u.active # None /\ u.gate = None /\ ~t.barrier /\ Fresh(t) => u.rev # None
<1> DEFINE v == CheckHandoff(t)
<1>0. /\ IsTab(t) /\ PropsReal(t) /\ ShownReal(t) /\ LeaseOwned(t) /\ t.highest \in Int
      /\ t.props.rev \in Nat /\ t.highest \in Nat \union {-1}
  BY DEF PageOK, PageShape, IsTab, PropsReal, Real
<1>1. u = Ingest(v, FALSE)
  BY DEF Watch
<1>2. PICK auth \in BOOLEAN : auth = FALSE
  OBVIOUS
<1>3. CASE t.active # None
  <2>1. v = t /\ t.handoff = None /\ t.phase # "idle"
    BY <1>0, <1>3 DEF CheckHandoff, LeaseOwned
  <2>2. u = Ingest(t, auth)
    BY <1>1, <1>2, <2>1
  <2> HIDE DEF v
  <2>3. Kept(t, u) /\ (~CanIngest(t, auth) => u = t)
        /\ (CanIngest(t, auth) => u.rev = t.props.rev /\ u.phase = t.phase)
    BY <1>0, <1>3, <2>2, IngestTab
  <2>4. t.gate = None /\ ~t.barrier /\ Fresh(t) => CanIngest(t, auth)
    BY <2>1 DEF CanIngest
  <2> QED
    BY <1>0, <1>3, <2>1, <2>3, <2>4 DEF Arrived, Tended, Undisturbed, Expected, Cleared, Kept, Unmoved, Distinct
<1>4. CASE t.active = None /\ t.handoff # None
  <2>1. ~(t.handoff # "reading" /\ Settled(t) /\ UpToDate(t))
    BY <1>0, <1>4 DEF Arrived, Undisturbed, IsTab, Waits, Settled
  <2>2. v = t
    BY <1>4, <2>1 DEF CheckHandoff
  <2>3. ~CanIngest(t, FALSE)
    BY <1>4 DEF CanIngest
  <2>4. u = t
    BY <1>1, <2>2, <2>3 DEF Ingest
  <2> QED
    BY <1>4, <2>4 DEF Arrived, Tended, Undisturbed, Expected, Cleared
<1>5. CASE t.active = None /\ t.handoff = None
  <2>1. CASE Settled(t) /\ (UpToDate(t) \/ (t.rev # None /\ t.rev >= t.floor[t.date]))
    <3>1. v = t
      BY <1>5, <2>1 DEF CheckHandoff
    <3>2. u = Ingest(t, auth)
      BY <1>1, <1>2, <3>1
    <3> HIDE DEF v
    <3>3. /\ Kept(t, u) /\ (~CanIngest(t, auth) => u = t)
          /\ CanIngest(t, auth) => u.rev = t.props.rev /\ u.phase = "idle"
      BY <1>0, <1>5, <3>2, IngestTab
    <3>4. ~CanIngest(t, auth) => t.gate # None \/ t.phase = "idle"
      <4>1. SUFFICES ASSUME ~CanIngest(t, auth), t.gate = None, t.phase # "idle" PROVE FALSE
        OBVIOUS
      <4>2. ~Fresh(t) /\ t.highest = -1
        BY <1>5, <4>1 DEF CanIngest, Arrived, Undisturbed, Expected
      <4> QED
        BY <1>0, <4>2 DEF Fresh
    <3> QED
      BY <1>5, <2>1, <3>3, <3>4 DEF Arrived, Tended, Undisturbed, Expected, Cleared, Settled, Kept, Unmoved,
                                    Distinct
  <2>2. CASE ~(Settled(t) /\ (UpToDate(t) \/ (t.rev # None /\ t.rev >= t.floor[t.date])))
    <3>1. v = StartHandoff(t)
      BY <1>5, <2>2 DEF CheckHandoff
    <3> HIDE DEF v
    <3>2. /\ Unmoved(t, v) /\ v.gate = t.gate /\ v.handoff = "waiting" /\ v.highest = t.highest
          /\ v.dirty = t.dirty
      BY <1>5, <3>1, StartOK
    <3>3. ~CanIngest(v, FALSE)
      BY <3>2 DEF CanIngest, Distinct
    <3>4. u = v
      BY <1>1, <3>3 DEF Ingest
    <3>5. u.highest = -1 \/ Outstanding(u)
      BY <1>5, <2>2, <3>2, <3>4 DEF Arrived, Cleared, Outstanding, Settled, UpToDate, Unmoved
    <3> QED
      BY <1>5, <3>2, <3>4, <3>5 DEF Arrived, Tended, Undisturbed, Expected, Cleared, Unmoved, Distinct
  <2> QED
    BY <2>1, <2>2
<1> QED
  BY <1>3, <1>4, <1>5

\* What the watcher leaves is minded, if it was but for new props.
LEMMA WatchAwake ==
    ASSUME Distinct, NEW t, PageOK(t), Exclusive(t), NEW reads,
           Calm(t) => Arrived(t) /\ TasksHeard(t, reads) /\ LeaseHeard(t), NEW u, u = Watch(t)
    PROVE  /\ Minded(u, reads)
           /\ Calm(u) /\ u.active # None /\ u.gate = None /\ ~t.barrier /\ Fresh(t) => u.rev # None
<1>1. Unmoved(t, u) /\ u.gate = t.gate /\ u.reads = t.reads /\ Later(t, u)
  BY WatchOK
<1>2. Calm(u) <=> Calm(t)
  BY <1>1 DEF Calm, Unmoved
<1>3. SUFFICES ASSUME Calm(t), t.live, Arrived(t), TasksHeard(t, reads), LeaseHeard(t)
              PROVE  /\ Tended(u) /\ TasksHeard(u, reads) /\ LeaseHeard(u)
                     /\ u.active # None /\ u.gate = None /\ ~t.barrier /\ Fresh(t) => u.rev # None
  BY <1>2 DEF Minded, Calm
<1>4. /\ Tended(u)
      /\ u.handoff = "reading" => t.handoff = "reading"
      /\ u.active # None /\ u.rev = None => u.highest = t.highest
      /\ u.active # None /\ u.gate = None /\ ~t.barrier /\ Fresh(t) => u.rev # None
  BY <1>3, WatchTended
<1>5. TasksHeard(u, reads)
  BY <1>1, <1>3, <1>4 DEF TasksHeard, Unmoved
<1>6. LeaseHeard(u)
  BY <1>1, <1>3, <1>4 DEF LeaseHeard, Unmoved, Later
<1> QED
  BY <1>4, <1>5, <1>6

-----------------------------------------------------------------------------

\* A read more, of a task or of a write that could not begin.
LEMMA AskingAwake ==
    ASSUME Distinct, NEW t, IsTab(t), NEW by \in {"handoff", "context", "capture"}, NEW u, u = Asking(t, by)
    PROVE  /\ Awake(t) => Awake(u)
           /\ \A wr : Attended(t, wr) => Attended(u, wr)
<1>1. /\ Unmoved(t, u)
      /\ u.dirty = t.dirty /\ u.handoff = t.handoff /\ u.gate = t.gate
      /\ u.rev = t.rev /\ u.highest = t.highest /\ u.phase = t.phase
      /\ u.reads = t.reads \union {[by |-> by, gen |-> t.gen, date |-> t.date, from |-> Revision(t.date)]}
  BY AskingTab
<1>2. Calm(u) <=> Calm(t)
  BY <1>1 DEF Calm, Unmoved
<1>3. Tended(t) => Tended(u)
  BY <1>1 DEF Unmoved, Tended, Undisturbed, Expected, Cleared, Outstanding, Settled, UpToDate
<1>4. LeaseHeard(t) => LeaseHeard(u)
  BY <1>1 DEF LeaseHeard, Unmoved, Distinct, IsTab
<1>5. TasksHeard(t, t.reads) => TasksHeard(u, u.reads)
  BY <1>1 DEF TasksHeard, Unmoved
<1>6. Awake(t) => Awake(u)
  BY <1>2, <1>3, <1>4, <1>5 DEF Awake, Minded
<1>7. ASSUME NEW wr PROVE (OwnOpen(t, wr) => OwnOpen(u, wr)) /\ (Rested(t, wr) => Rested(u, wr))
  BY <1>1 DEF OwnOpen, Rested, Unmoved
<1> QED
  BY <1>2, <1>6, <1>7 DEF Attended

LEMMA ResumeHandoffAwake ==
    ASSUME Distinct, NEW t, PageOK(t), Exclusive(t), Awake(t), NEW u, u = ResumeHandoff(t)
    PROVE  /\ Awake(u)
           /\ Calm(u) /\ u.handoff = "waiting" => u.pending[u.date] # {}
<1>1. CASE ~(t.handoff = "waiting" /\ t.pending[t.date] = {})
  BY <1>1 DEF ResumeHandoff
<1>2. CASE t.handoff = "waiting" /\ t.pending[t.date] = {} /\ Settled(t) /\ UpToDate(t)
  <2> DEFINE v == [t EXCEPT !.handoff = None]
  <2>0. t.active = None /\ t.highest \in Nat \union {-1} /\ PropsReal(t) /\ t.props.rev \in Nat
    BY <1>2 DEF PageOK, PageShape, LeaseOwned, IsTab, PropsReal, Real, Distinct
  <2>1. u = Ingest(v, FALSE)
    BY <1>2 DEF ResumeHandoff
  <2>2. /\ IsTab(v) /\ Unmoved(t, v) /\ v.gate = t.gate /\ v.reads = t.reads /\ v.handoff = None
        /\ v.rev = t.rev /\ v.highest = t.highest /\ v.phase = t.phase
    BY DEF PageOK, PageShape, IsTab, Fields, Unmoved, Waits
  <2>3. PropsReal(v)
    BY <2>0, <2>2 DEF PropsReal, Unmoved
  <2> HIDE DEF v
  <2>4. PICK auth \in BOOLEAN : auth = FALSE
    OBVIOUS
  <2>5. /\ Kept(v, u) /\ (~CanIngest(v, auth) => u = v)
        /\ CanIngest(v, auth) => u.phase = IF v.active = None THEN "idle" ELSE v.phase
    <3>1. u = Ingest(v, auth)
      BY <2>1, <2>4
    <3> QED
      BY <2>2, <2>3, <3>1, IngestTab
  <2>6. SUFFICES ASSUME Calm(t) PROVE Tended(u) /\ TasksHeard(u, u.reads) /\ LeaseHeard(u)
    BY <2>2, <2>5 DEF Awake, Minded, Kept, Unmoved, Calm, Distinct
  <2>7. Tended(t) /\ TasksHeard(t, t.reads) /\ (t.highest = -1 \/ t.phase = "idle")
    BY <1>2, <2>6 DEF Awake, Minded, Tended, Outstanding
  <2>8. u.phase # "idle" => u.gate # None
    <3>1. SUFFICES ASSUME t.gate = None, ~CanIngest(v, auth), t.phase # "idle" PROVE FALSE
      BY <2>0, <2>2, <2>5 DEF Kept, Unmoved
    <3>2. ~Fresh(v) /\ t.highest = -1
      BY <2>2, <2>4, <2>6, <2>7, <3>1 DEF CanIngest, Unmoved, Tended, Undisturbed, Calm
    <3> QED
      BY <2>0, <2>2, <3>2 DEF Fresh, Unmoved
  <2>9. Tended(u)
    BY <1>2, <2>0, <2>2, <2>5, <2>7, <2>8 DEF Tended, Undisturbed, Expected, Cleared, Kept, Unmoved, Distinct
  <2> QED
    BY <2>0, <2>2, <2>5, <2>7, <2>9 DEF TasksHeard, LeaseHeard, Kept, Unmoved, Distinct
<1>3. CASE t.handoff = "waiting" /\ t.pending[t.date] = {} /\ ~(Settled(t) /\ UpToDate(t))
  <2> DEFINE v == [t EXCEPT !.handoff = "reading"]
  <2>0. t.active = None
    BY <1>3 DEF PageOK, PageShape, LeaseOwned, Distinct
  <2>1. u = Asking(v, "handoff")
    BY <1>3 DEF ResumeHandoff
  <2>2. /\ IsTab(v) /\ Unmoved(t, v) /\ v.gate = t.gate /\ v.reads = t.reads /\ v.handoff = "reading"
        /\ v.rev = t.rev /\ v.highest = t.highest /\ v.phase = t.phase
    BY DEF PageOK, PageShape, IsTab, Fields, Unmoved, Waits
  <2> HIDE DEF v
  <2>3. /\ Unmoved(v, u) /\ u.gate = v.gate /\ u.handoff = v.handoff /\ u.phase = v.phase
        /\ u.reads = v.reads \union {[by |-> "handoff", gen |-> v.gen, date |-> v.date, from |-> Revision(v.date)]}
    BY <2>1, <2>2, AskingTab
  <2>4. SUFFICES ASSUME Calm(t) PROVE Tended(u) /\ TasksHeard(u, u.reads) /\ LeaseHeard(u)
    BY <2>2, <2>3 DEF Awake, Minded, Unmoved, Calm
  <2>5. Tended(t) /\ TasksHeard(t, t.reads)
    BY <2>4 DEF Awake, Minded
  <2>6. Tended(u)
    BY <1>3, <2>2, <2>3, <2>5 DEF Tended, Undisturbed, Expected, Cleared, Unmoved, Distinct
  <2>7. TasksHeard(u, u.reads)
    <3> DEFINE n == [by |-> "handoff", gen |-> v.gen, date |-> v.date, from |-> Revision(v.date)]
    <3>1. n \in u.reads /\ n.by = "handoff" /\ n.gen = v.gen
      BY <2>3
    <3> HIDE DEF n
    <3> QED
      BY <2>2, <2>3, <2>5, <3>1 DEF TasksHeard, Unmoved
  <2> QED
    BY <2>0, <2>2, <2>3, <2>6, <2>7 DEF LeaseHeard, Unmoved
<1> QED
  BY <1>1, <1>2, <1>3

LEMMA ResumeGateAwake ==
    ASSUME Distinct, NEW t, PageOK(t), Awake(t), NEW u, u = ResumeGate(t)
    PROVE  /\ Awake(u)
           /\ u.gate = "waiting" => \E s \in u.own : write'[s].date = u.date
<1>1. CASE ~(t.gate = "waiting" /\ \A s \in t.own : write'[s].date # t.date)
  BY <1>1 DEF ResumeGate
<1>2. CASE t.gate = "waiting" /\ \A s \in t.own : write'[s].date # t.date
  <2> DEFINE v == [t EXCEPT !.gate = "reading"]
  <2>1. u = Asking(v, "context")
    BY <1>2 DEF ResumeGate
  <2>2. /\ IsTab(v) /\ Unmoved(t, v) /\ v.gate = "reading" /\ v.reads = t.reads /\ v.dirty = t.dirty
        /\ v.handoff = t.handoff /\ v.rev = t.rev /\ v.highest = t.highest /\ v.phase = t.phase
    BY DEF PageOK, PageShape, IsTab, Fields, Unmoved, Waits
  <2> HIDE DEF v
  <2>3. /\ Unmoved(v, u) /\ u.gate = v.gate /\ u.handoff = v.handoff /\ u.phase = v.phase
        /\ u.dirty = v.dirty /\ u.rev = v.rev /\ u.highest = v.highest
        /\ u.reads = v.reads \union {[by |-> "context", gen |-> v.gen, date |-> v.date, from |-> Revision(v.date)]}
    BY <2>1, <2>2, AskingTab
  <2>4. SUFFICES ASSUME Calm(t) PROVE Tended(u) /\ TasksHeard(u, u.reads) /\ LeaseHeard(u)
    BY <2>2, <2>3 DEF Awake, Minded, Unmoved, Calm
  <2>5. Tended(t) /\ TasksHeard(t, t.reads) /\ LeaseHeard(t)
    BY <2>4 DEF Awake, Minded
  <2>6. Tended(u)
    BY <1>2, <2>2, <2>3, <2>5 DEF Tended, Undisturbed, Expected, Cleared, Outstanding, Settled, UpToDate,
                                  Unmoved, Distinct
  <2>7. TasksHeard(u, u.reads)
    <3> DEFINE n == [by |-> "context", gen |-> v.gen, date |-> v.date, from |-> Revision(v.date)]
    <3>1. n \in u.reads /\ n.by = "context" /\ n.gen = v.gen
      BY <2>3
    <3> HIDE DEF n
    <3> QED
      BY <2>2, <2>3, <2>5, <3>1 DEF TasksHeard, Unmoved
  <2>8. LeaseHeard(u)
    BY <2>2, <2>3, <2>5 DEF LeaseHeard, Unmoved, IsTab, Distinct
  <2> QED
    BY <2>6, <2>7, <2>8
<1> QED
  BY <1>1, <1>2

\* The tasks of a page that is minded wait for a write of the tab, or read.
LEMMA ResumeAwake ==
    ASSUME Distinct, NEW t, PageOK(t), Exclusive(t), Awake(t), OwnOpen(t, write'), NEW u, u = Resume(t)
    PROVE  Attended(u, write')
<1> DEFINE v == ResumeHandoff(t)
<1>1. u = ResumeGate(v)
  BY DEF Resume
<1>2. /\ PageOK(v) /\ Exclusive(v) /\ Unmoved(t, v) /\ Awake(v)
      /\ Calm(v) /\ v.handoff = "waiting" => v.pending[v.date] # {}
  BY ResumeHandoffOK, ResumeHandoffAwake
<1> HIDE DEF v
<1>3. /\ Unmoved(v, u) /\ u.handoff = v.handoff /\ Awake(u)
      /\ u.gate = "waiting" => \E s \in u.own : write'[s].date = u.date
  BY <1>1, <1>2, ResumeGateOK, ResumeGateAwake
<1>4. OwnOpen(u, write')
  BY <1>2, <1>3 DEF OwnOpen, Unmoved
<1>5. Calm(u) => Rested(u, write')
  BY <1>2, <1>3 DEF Rested, Calm, Unmoved
<1> QED
  BY <1>3, <1>4, <1>5 DEF Attended

-----------------------------------------------------------------------------

LEMMA ReleaseAwake ==
    ASSUME NEW t, IsTab(t), NEW wr, TicketsLinked(t, wr), NEW s \in Slots, t.active # s,
           Proper(wr[s]), Awake(t), OwnOpen(t, wr),
           NEW wr2, \A q \in Slots : q # s => wr2[q] = wr[q], NEW u, u = Release(t, s, wr[s])
    PROVE  Awake(u) /\ OwnOpen(u, wr2)
<1>1. /\ u.date = t.date /\ u.gen = t.gen /\ u.live = t.live /\ u.active = t.active
      /\ u.phase = t.phase /\ u.barrier = t.barrier /\ u.handoff = t.handoff /\ u.gate = t.gate
      /\ u.reads = t.reads /\ u.rev = t.rev /\ u.highest = t.highest /\ u.failed = t.failed
      /\ u.own = t.own \ {s} /\ u.props = t.props
  BY ReleaseTab
<1>2. /\ u.pending[t.date] = t.pending[t.date] \ {s}
      /\ s \notin t.pending[t.date] => /\ u.dirty[t.date] <=> t.dirty[t.date]
                                       /\ u.floor[t.date] = t.floor[t.date]
  <2>1. t.date \in Dates
    BY DEF IsTab
  <2>2. Returned(t, u, s, wr[s], t.date)
    BY <2>1, ReleaseTicket
  <2>3. s \in t.pending[t.date] => wr[s].date = t.date
    BY <2>1 DEF TicketsLinked
  <2> QED
    BY <2>2, <2>3 DEF Returned
<1>3. Tended(t) => Tended(u)
  BY <1>1, <1>2 DEF Tended, Undisturbed, Expected, Cleared, Outstanding, Settled, UpToDate
<1>4. Awake(u)
  BY <1>1, <1>3 DEF Awake, Minded, Calm, TasksHeard, LeaseHeard
<1> QED
  BY <1>1, <1>4 DEF OwnOpen

\* The page that gives its lease back is let in, or a task of it is under way.
LEMMA FreedAwake ==
    ASSUME Distinct, NEW t, PageOK(t), NEW s \in Slots, t.active = s, NEW wr, Awake(t), OwnOpen(t, wr),
           NEW wr2, \A q \in Slots : q # s => wr2[q] = wr[q],
           NEW phase, Calm(t) => phase = "idle" \/ t.gate # None, NEW u, Freed(t, u, s, phase)
    PROVE  Awake(u) /\ OwnOpen(u, wr2)
<1>1. t.handoff = None
  BY DEF PageOK, PageShape, LeaseOwned, Distinct
<1>2. Tended(t) /\ Calm(t) => Tended(u)
  BY <1>1 DEF Freed, Tended, Undisturbed, Expected, Cleared, Distinct
<1>3. Awake(u)
  BY <1>1, <1>2 DEF Freed, Awake, Minded, Calm, TasksHeard, LeaseHeard, Distinct
<1> QED
  BY <1>3 DEF OwnOpen, Freed

LEMMA LeasedAwake ==
    ASSUME Distinct, NEW t, IsTab(t), Editable(t), NEW s \in Slots, NEW wr, Awake(t), OwnOpen(t, wr),
           NEW wr2, \A q \in Slots : q # s => wr2[q] = wr[q], Open(wr2[s]), wr2[s].date = t.date,
           NEW u, u = Leased(t, s)
    PROVE  Attended(u, wr2)
<1>1. /\ u.active = s /\ u.date = t.date /\ u.gen = t.gen /\ u.live = t.live /\ u.barrier = t.barrier
      /\ u.handoff = t.handoff /\ u.gate = t.gate /\ u.reads = t.reads /\ u.rev = t.rev
      /\ u.own = t.own \union {s} /\ u.failed = t.failed
  BY DEF IsTab, Fields, Leased
<1>2. u.handoff = None /\ u.rev # None /\ s # None
  BY <1>1 DEF Editable, Distinct
<1>3. Tended(t) => Tended(u)
  BY <1>1, <1>2 DEF Tended, Undisturbed, Expected, Cleared, Distinct
<1>4. Awake(u)
  BY <1>1, <1>3, <1>2 DEF Awake, Minded, Calm, TasksHeard, LeaseHeard, Distinct
<1>5. Rested(u, wr2)
  BY <1>1, <1>2 DEF Rested, Distinct
<1>6. OwnOpen(u, wr2)
  BY <1>1 DEF OwnOpen
<1> QED
  BY <1>4, <1>5, <1>6 DEF Attended

\* The holder of a lease may show something else, or nothing while no reload of it is due.
LEMMA HolderAwake ==
    ASSUME Distinct, NEW t, PageOK(t), t.active # None, NEW wr, Attended(t, wr),
           NEW u, Unmoved(t, u), u.handoff = t.handoff, u.gate = t.gate, u.reads = t.reads,
           u.rev # None \/ \A r \in t.reads : r.by # t.active
    PROVE  Attended(u, wr)
<1>1. t.handoff = None
  BY DEF PageOK, PageShape, LeaseOwned
<1>2. Tended(t) => Tended(u)
  BY <1>1 DEF Unmoved, Tended, Undisturbed, Expected, Cleared, Distinct
<1>3. Awake(t) => Awake(u)
  BY <1>2 DEF Unmoved, Awake, Minded, Calm, TasksHeard, LeaseHeard
<1>4. /\ Rested(t, wr) => Rested(u, wr)
      /\ OwnOpen(t, wr) => OwnOpen(u, wr)
      /\ Calm(u) <=> Calm(t)
  BY <1>1 DEF Unmoved, Rested, OwnOpen, Calm, Distinct
<1> QED
  BY <1>3, <1>4 DEF Attended

\* The reload of a lease reads from what the page has shown.
LEMMA ReloadAwake ==
    ASSUME Distinct, NEW t, PageOK(t), NEW s \in Slots, t.active = s, NEW wr, Attended(t, wr),
           t.rev = None => t.highest <= Revision(t.date),
           NEW wr2, \A q \in Slots : q # s => wr2[q] = wr[q], Open(wr2[s]), wr2[s].date = wr[s].date,
           NEW u, u = Asking(t, s)
    PROVE  Attended(u, wr2)
<1>0. IsTab(t) /\ t.handoff = None
  BY DEF PageOK, PageShape, LeaseOwned, Distinct
<1>1. /\ Unmoved(t, u) /\ u.handoff = None /\ u.gate = t.gate /\ u.phase = t.phase
      /\ u.rev = t.rev /\ u.highest = t.highest
      /\ u.reads = t.reads \union {[by |-> s, gen |-> t.gen, date |-> t.date, from |-> Revision(t.date)]}
  BY <1>0, AskingTab
<1>2. Tended(t) => Tended(u)
  BY <1>0, <1>1 DEF Unmoved, Tended, Undisturbed, Expected, Cleared, Distinct
<1>3. TasksHeard(t, t.reads) => TasksHeard(u, u.reads)
  BY <1>0, <1>1 DEF Unmoved, TasksHeard
<1>4. LeaseHeard(t) => LeaseHeard(u)
  BY <1>1 DEF Unmoved, LeaseHeard
<1>5. Awake(t) => Awake(u)
  BY <1>1, <1>2, <1>3, <1>4 DEF Awake, Minded, Calm, Unmoved
<1>6. /\ Rested(t, wr) => Rested(u, wr2)
      /\ OwnOpen(t, wr) => OwnOpen(u, wr2)
      /\ Calm(u) <=> Calm(t)
  <2>1. OwnOpen(t, wr) => OwnOpen(u, wr2)
    BY <1>1 DEF Unmoved, OwnOpen
  <2>2. OwnOpen(t, wr) /\ Rested(t, wr) => Rested(u, wr2)
    BY <1>1 DEF Unmoved, OwnOpen, Rested, Distinct
  <2> QED
    BY <1>1, <2>1, <2>2 DEF Unmoved, Calm, Attended
<1> QED
  BY <1>5, <1>6 DEF Attended

-----------------------------------------------------------------------------

\* Props of the day that the page shows, for its watcher to look at.
LEMMA PropsAwake ==
    ASSUME Distinct, NEW t, PageOK(t), Exclusive(t), NEW snapshot, Real(snapshot), snapshot.date = t.date,
           NEW reads, Minded(t, reads), NEW wr, Calm(t) => Rested(t, wr),
           NEW u, u = WithProps(t, snapshot)
    PROVE  Calm(u) => Arrived(u) /\ TasksHeard(u, reads) /\ LeaseHeard(u)
<1>1. Received(t, u)
  BY PropsOK
<1>2. Calm(u) <=> Calm(t)
  BY <1>1 DEF Received, Calm
<1>3. SUFFICES ASSUME Calm(t), Tended(t), TasksHeard(t, reads), LeaseHeard(t), Rested(t, wr)
              PROVE  Arrived(u) /\ TasksHeard(u, reads) /\ LeaseHeard(u)
  BY <1>2 DEF Minded
<1>4. Arrived(u)
  BY <1>1, <1>3 DEF Received, Arrived, Tended, Undisturbed, Expected, Cleared, Outstanding, Rested
<1> QED
  BY <1>1, <1>3, <1>4 DEF Received, TasksHeard, LeaseHeard

\* A reload that arrives.  The one of a lease shows the day, unless a new context waits to.
LEMMA DeliveredAwake ==
    ASSUME Distinct, NEW t, PageOK(t), Exclusive(t),
           NEW r, NEW snapshot, Real(snapshot), snapshot.date = r.date,
           NEW reads, Minded(t, reads), NEW wr, Calm(t) => Rested(t, wr), OwnOpen(t, wr),
           NEW u, u = Delivered(t, r, snapshot)
    PROVE  /\ Minded(u, reads) /\ OwnOpen(u, wr)
           /\ /\ Calm(u) /\ u.active # None /\ r.date = t.date
              /\ t.rev = None => t.highest <= snapshot.rev
              => u.rev # None \/ u.gate # None
<1>0. /\ t.props.date = t.date /\ t.highest \in Int /\ snapshot.rev \in Int
      /\ t.rev # None => t.rev = t.highest
  BY DEF PageOK, PageShape, PropsReal, IsTab, ShownReal, Real
<1>1. CASE r.date # t.props.date \/ ~t.live
  BY <1>0, <1>1 DEF Delivered, Calm
<1>2. CASE r.date = t.props.date /\ t.live
  <2> DEFINE v == WithProps(t, snapshot)
  <2>1. u = Watch(v)
    BY <1>2 DEF Delivered, WithProps
  <2>2. PageOK(v) /\ Exclusive(v) /\ Received(t, v) /\ v.props = snapshot
    <3>1. v.props = snapshot
      BY DEF WithProps, PageOK, PageShape, IsTab, Fields
    <3> HIDE DEF v
    <3>2. v = WithProps(t, snapshot)
      BY DEF v
    <3> QED
      BY <1>0, <1>2, <3>1, <3>2, PropsOK
  <2>3. Calm(v) => Arrived(v) /\ TasksHeard(v, reads) /\ LeaseHeard(v)
    BY <1>0, <1>2, PropsAwake
  <2> HIDE DEF v
  <2>4. /\ Minded(u, reads)
        /\ Calm(u) /\ u.active # None /\ u.gate = None /\ ~v.barrier /\ Fresh(v) => u.rev # None
    BY <2>1, <2>2, <2>3, WatchAwake
  <2>5. Unmoved(v, u) /\ Later(v, u)
    BY <2>1, <2>2, WatchOK
  <2>6. OwnOpen(u, wr)
    BY <2>2, <2>5 DEF OwnOpen, Received, Unmoved
  <2>7. t.active # None /\ t.rev # None => u.rev # None
    BY <2>2, <2>5 DEF Received, Later
  <2>8. u.active = t.active /\ ~v.barrier /\ (t.highest <= snapshot.rev => Fresh(v))
    BY <1>0, <2>2, <2>5 DEF Received, Unmoved, Fresh
  <2> QED
    BY <2>4, <2>6, <2>7, <2>8
<1> QED
  BY <1>1, <1>2

LEMMA ReconciledAwake ==
    ASSUME Distinct, NEW t, PageOK(t), t.active # None, NEW reads, Minded(t, reads), NEW wr, OwnOpen(t, wr),
           NEW ok, NEW u, u = Reconciled(t, ok)
    PROVE  /\ Minded(u, reads) /\ OwnOpen(u, wr) /\ (Calm(u) => Calm(t))
           /\ t.rev # None \/ t.gate # None => u.rev # None \/ u.gate # None
<1>0. IsTab(t) /\ PropsReal(t) /\ ShownReal(t) /\ t.handoff = None
  BY DEF PageOK, PageShape, LeaseOwned
<1>1. CASE ~ok
  BY <1>1 DEF Reconciled
<1>2. CASE ok
  <2>1. PICK auth \in BOOLEAN : auth = FALSE /\ u = Ingest(t, auth)
    BY <1>2 DEF Reconciled
  <2>2. /\ Kept(t, u) /\ Later(t, u) /\ (~CanIngest(t, auth) => u = t)
        /\ CanIngest(t, auth) => u.rev = t.props.rev
    BY <1>0, <2>1, IngestTab, IngestLater
  <2>3. u.rev = None => u = t
    BY <1>0, <2>2 DEF PropsReal, Real, Distinct
  <2>4. Tended(t) => Tended(u)
    BY <1>0, <2>2 DEF Kept, Unmoved, Tended, Undisturbed, Expected, Cleared, Distinct
  <2>5. Minded(u, reads)
    BY <2>2, <2>3, <2>4 DEF Kept, Unmoved, Minded, Calm, TasksHeard, LeaseHeard
  <2> QED
    BY <2>2, <2>5 DEF Kept, Unmoved, OwnOpen, Later, Calm
<1> QED
  BY <1>1, <1>2

\* The read of a task that ends leaves the read of the other one.
LEMMA TaskAwake ==
    ASSUME Distinct, NEW t, PageOK(t), NEW reads, NEW r, t.reads = reads \ {r}, Minded(t, reads),
           NEW wr, OwnOpen(t, wr), NEW u, Onward(t, u),
           \/ u = t /\ (Calm(t) /\ r.gen = t.gen =>
                           /\ ~(r.by = "handoff" /\ t.handoff = "reading")
                           /\ ~(r.by = "context" /\ t.gate = "reading"))
           \/ r.by = "handoff" /\ t.handoff = "reading" /\ HandoffDone(t, u)
           \/ r.by = "context" /\ t.gate = "reading" /\ ContextDone(t, u)
    PROVE  Awake(u) /\ OwnOpen(u, wr)
<1>0. OwnOpen(u, wr)
  BY DEF OwnOpen, HandoffDone, ContextDone
<1>1. CASE u = t /\ (Calm(t) /\ r.gen = t.gen =>
                           /\ ~(r.by = "handoff" /\ t.handoff = "reading")
                           /\ ~(r.by = "context" /\ t.gate = "reading"))
  BY <1>0, <1>1 DEF Awake, Minded, TasksHeard
<1>2. CASE r.by = "handoff" /\ t.handoff = "reading" /\ HandoffDone(t, u)
  <2>1. t.active = None /\ t.pending[t.date] = {}
    BY <1>2 DEF PageOK, PageShape, LeaseOwned, Waiting, Distinct
  <2>2. SUFFICES ASSUME Calm(u) PROVE Tended(u) /\ TasksHeard(u, u.reads) /\ LeaseHeard(u)
    BY <1>0 DEF Awake, Minded
  <2>3. Tended(t) /\ TasksHeard(t, reads)
    BY <1>2, <2>2 DEF Calm, Minded, Onward, HandoffDone
  <2>4. Tended(u)
    BY <1>2, <2>1, <2>2, <2>3 DEF Calm, Onward, HandoffDone, Tended, Undisturbed, Expected, Cleared, Distinct
  <2>5. TasksHeard(u, u.reads)
    BY <1>2, <2>2, <2>3 DEF Calm, Onward, HandoffDone, TasksHeard, Distinct
  <2> QED
    BY <2>1, <2>4, <2>5 DEF LeaseHeard, Onward
<1>3. CASE r.by = "context" /\ t.gate = "reading" /\ ContextDone(t, u)
  <2>1. t.handoff # None => t.active = None
    BY DEF PageOK, PageShape, LeaseOwned
  <2>2. SUFFICES ASSUME Calm(u) PROVE Tended(u) /\ TasksHeard(u, u.reads) /\ LeaseHeard(u)
    BY <1>0 DEF Awake, Minded
  <2>3. Tended(t) /\ TasksHeard(t, reads)
    BY <1>3, <2>2 DEF Calm, Minded, Onward, ContextDone
  <2>4. Tended(u)
    BY <1>3, <2>1, <2>2, <2>3 DEF Calm, Onward, ContextDone, Tended, Undisturbed, Expected, Cleared, Distinct
  <2>5. TasksHeard(u, u.reads)
    BY <1>3, <2>2, <2>3 DEF Calm, Onward, ContextDone, TasksHeard, Distinct
  <2> QED
    BY <1>3, <2>2, <2>4, <2>5 DEF LeaseHeard, ContextDone, Calm
<1> QED
  BY <1>1, <1>2, <1>3

-----------------------------------------------------------------------------
(* The end of a write, and the next one of the queue *)

WritesOK(wr) == \A s \in Slots : IsWrite(wr[s])

Sound(t, wr) == PageOK(t) /\ Exclusive(t) /\ Linked(t, wr) /\ WritesOK(wr) /\ Attended(t, wr)

\* The same owner has seen at least as much.
Ahead(t, u) == u.gen = t.gen => u.highest >= t.highest

LEMMA AheadTrans ==
    ASSUME NEW t, NEW u, NEW v, IsTab(t), IsTab(u), IsTab(v), Ahead(t, u), Ahead(u, v), u.gen = t.gen
    PROVE  Ahead(t, v)
BY DEF Ahead, IsTab

LEMMA CaptureWrite ==
    ASSUME NEW t, IsTab(t), NEW kind, NEW w, w = Capture(t, kind)
    PROVE  /\ IsWrite(w) /\ Open(w) /\ w.stage = "sent" /\ w.kind = kind
           /\ w.gen = t.gen /\ w.date = t.date /\ w.rev = t.rev
BY DEF Capture, IsWrite, WriteFields, Stages, ReplyReal, Open, IsTab

\* A page that may be edited has no mark in flight, so that its queue may start anew.
LEMMA RequeuedOK ==
    ASSUME Distinct, NEW t, PageOK(t), Exclusive(t), Editable(t), NEW wr, Linked(t, wr),
           NEW u, IsTab(u), Requeued(t, u)
    PROVE  PageOK(u) /\ Exclusive(u) /\ Editable(u) /\ Linked(u, wr) /\ t.active = None
<1>1. PageOK(u) /\ Exclusive(u) /\ Editable(u)
  BY DEF Requeued, PageOK, PageShape, PropsReal, ShownReal, LeaseOwned, OwnWritesShown,
         Editable, Waiting, Exclusive
<1>2. t.active = None /\ t.live
  BY DEF PageOK, PageShape, LeaseOwned, Editable
<1>3. LeaseLinked(u, wr) /\ OneLease(u, wr) /\ TicketsLinked(u, wr) /\ ReadsLinked(u, wr)
  BY DEF Requeued, Linked, LeaseLinked, OneLease, TicketsLinked, ReadsLinked
<1>4. ChainLinked(u, wr)
  <2>1. ASSUME NEW s \in Slots, Open(wr[s]), wr[s].gen = t.gen PROVE FALSE
    BY <1>2, <2>1 DEF Linked, OneLease, Distinct
  <2> QED
    BY <2>1 DEF ChainLinked, Requeued, Open
<1> QED
  BY <1>1, <1>2, <1>3, <1>4 DEF Linked

LEMMA IdleWrite == ~Open(Idle) /\ IsWrite(Idle)
BY DEF Open, Idle, IsWrite

\* A slot that is given back, and the tasks that waited for it.
LEMMA EndOK ==
    ASSUME Distinct, DaysOK, WritesOK(write), NEW s \in Slots, NEW t,
           PageOK(t), Exclusive(t), Linked(t, [write EXCEPT ![s] = Idle]),
           Awake(t), OwnOpen(t, [write EXCEPT ![s] = Idle]),
           DOMAIN write = Slots, End(s, t)
    PROVE  Sound(tab', write') /\ DOMAIN write' = Slots /\ Ahead(t, tab') /\ tab'.gen = t.gen
<1>1. write' = [write EXCEPT ![s] = Idle] /\ tab' = Resume(t)
  BY DEF End
<1>2. WritesOK(write') /\ DOMAIN write' = Slots
  BY <1>1, IdleWrite DEF WritesOK
<1>3. PageOK(tab') /\ Exclusive(tab') /\ Moved(t, tab') /\ IsTab(t) /\ IsTab(tab')
  BY <1>1, ResumeOK DEF PageOK, PageShape
<1>4. Linked(t, write')
  BY <1>1
<1>5. Linked(tab', write')
  <2> HIDE DEF Linked, PageOK
  <2> QED
    BY <1>2, <1>3, <1>4, MovedLinked DEF WritesOK
<1>6. Attended(tab', write')
  <2>1. OwnOpen(t, write')
    BY <1>1
  <2> QED
    BY <1>1, <2>1, ResumeAwake
<1> QED
  BY <1>2, <1>3, <1>5, <1>6 DEF Sound, Ahead, Moved, Unmoved, Later

LEMMA FinishOK ==
    ASSUME Distinct, DaysOK, WritesOK(write), NEW s \in Slots, NEW t,
           PageOK(t), Exclusive(t), Linked(t, [write EXCEPT ![s] = Idle]),
           Awake(t), OwnOpen(t, [write EXCEPT ![s] = Idle]),
           DOMAIN write = Slots, NEW w, NEW confirmed \in BOOLEAN, Finish(s, t, w, confirmed)
    PROVE  Sound(tab', write') /\ DOMAIN write' = Slots /\ Ahead(t, tab') /\ tab'.gen = t.gen
<1> DEFINE wr == [write EXCEPT ![s] = Idle]
<1>0. IsTab(t) /\ t.highest \in Int
  BY DEF PageOK, PageShape, IsTab
<1>1. CASE w.kind = "check" /\ t.waiting > 0 /\ ~ChainBroken(confirmed) /\ Editable(t)
  <2> DEFINE h == History(t, w, confirmed)
             v == [h EXCEPT !.waiting = @ - 1, !.chain = IF confirmed THEN h.rev ELSE @]
             c == Capture(h, "check")
  <2>1. write' = [write EXCEPT ![s] = c] /\ tab' = Leased(v, s) /\ confirmed
    BY <1>1 DEF Finish, NextCheck, ChainBroken
  <2>2. IsTab(h) /\ Alike(t, h)
    BY <1>0, HistoryAlike
  <2> HIDE DEF h
  <2>3. PageOK(h) /\ Exclusive(h) /\ Linked(h, wr) /\ Editable(h)
    BY <1>1, <2>2, AlikeOK
  <2>12. Awake(h) /\ OwnOpen(h, wr)
    BY <2>2, AlikeAwake
  <2>4. IsTab(v) /\ Requeued(h, v) /\ v.chain = h.rev /\ v.own = h.own /\ v.failed = h.failed
    BY <2>1, <2>2 DEF IsTab, Fields, Requeued
  <2>5. IsWrite(c) /\ c.stage = "sent" /\ c.gen = h.gen /\ c.date = h.date /\ c.rev = h.rev
    BY <2>2, CaptureWrite
  <2> HIDE DEF c, v
  <2>6. PageOK(v) /\ Exclusive(v) /\ Editable(v) /\ Linked(v, wr) /\ v.active = None
    BY <2>3, <2>4, RequeuedOK DEF Requeued
  <2>7. ~Open(wr[s]) /\ write'[s] = c /\ \A q \in Slots : q # s => write'[q] = wr[q]
    BY <2>1, IdleWrite
  <2>8. v.gen = h.gen /\ v.date = h.date /\ v.highest = h.highest
    BY <2>4 DEF Requeued
  <2> HIDE DEF wr
  <2>9. PageOK(tab') /\ Exclusive(tab') /\ Linked(tab', write')
    <3>1. c.stage \in {"sent", "answered"} /\ c.gen = v.gen /\ c.date = v.date /\ c.rev = v.chain
      BY <2>4, <2>5, <2>8
    <3>2. tab' = Leased(v, s)
      BY <2>1
    <3> QED
      BY <2>6, <2>7, <3>1, <3>2, LeasedOK
  <2>10. tab'.gen = t.gen /\ tab'.highest = t.highest
    <3>1. tab' = Leased(v, s) /\ IsTab(v)
      BY <2>1, <2>4
    <3>2. tab'.gen = v.gen /\ tab'.highest = v.highest
      BY <3>1 DEF Leased, IsTab, Fields
    <3> QED
      BY <3>2, <2>2, <2>8 DEF Alike, Kept, Unmoved
  <2>11. WritesOK(write') /\ DOMAIN write' = Slots
    BY <2>1, <2>5 DEF WritesOK
  <2>13. Attended(tab', write')
    <3>1. Awake(v) /\ OwnOpen(v, wr) /\ IsTab(v)
      BY <2>4, <2>12, RequeuedAwake DEF Calm, Requeued
    <3>2. Open(write'[s]) /\ write'[s].date = v.date /\ tab' = Leased(v, s)
      BY <2>1, <2>5, <2>7, <2>8 DEF Open
    <3> QED
      BY <2>6, <2>7, <3>1, <3>2, LeasedAwake
  <2> QED
    BY <1>0, <2>9, <2>10, <2>11, <2>13 DEF Sound, Ahead
<1>2. CASE ~(w.kind = "check" /\ t.waiting > 0 /\ ~ChainBroken(confirmed) /\ Editable(t))
  <2> DEFINE n == IF w.kind = "check" THEN 0 ELSE t.waiting
             v == [t EXCEPT !.waiting = n]
             h == History(v, w, confirmed)
  <2>1. End(s, h)
    BY <1>2 DEF Finish
  <2>2. IsTab(v) /\ Alike(t, v)
    BY <1>0, WaitingAlike
  <2> HIDE DEF v
  <2>3. IsTab(h) /\ Alike(v, h)
    BY <2>2, HistoryAlike
  <2> HIDE DEF h
  <2>4. Alike(t, h)
    BY <2>2, <2>3, AlikeTrans
  <2>5. /\ PageOK(h) /\ Exclusive(h) /\ Linked(h, [write EXCEPT ![s] = Idle])
        /\ Awake(h) /\ OwnOpen(h, [write EXCEPT ![s] = Idle])
    BY <2>3, <2>4, AlikeOK, AlikeAwake
  <2>6. Sound(tab', write') /\ DOMAIN write' = Slots /\ Ahead(h, tab') /\ tab'.gen = h.gen
    BY <2>1, <2>5, EndOK
  <2> QED
    BY <2>4, <2>6 DEF Ahead, Alike, Kept, Unmoved
<1> QED
  BY <1>1, <1>2

-----------------------------------------------------------------------------
(* The inductive invariant *)

VisitOK == visit # None => visit.date \in Dates /\ visit.from \in 0 .. Revision(visit.date)

IInv == Sound(tab, write) /\ DaysOK /\ DOMAIN write = Slots /\ VisitOK

\* What a step of the page leads to, while the days stay as they are.
Good == Sound(tab', write') /\ DOMAIN write' = Slots /\ Ahead(tab, tab')

LEMMA IInvParts ==
    ASSUME IInv
    PROVE  /\ PageOK(tab) /\ Exclusive(tab) /\ Linked(tab, write) /\ WritesOK(write)
           /\ DaysOK /\ DOMAIN write = Slots /\ IsTab(tab) /\ tab.highest \in Int
           /\ \A s \in Slots : IsWrite(write[s])
           /\ Attended(tab, write) /\ Awake(tab) /\ OwnOpen(tab, write)
BY DEF IInv, Sound, PageOK, PageShape, IsTab, WritesOK, Attended

LEMMA BeginOK ==
    ASSUME Distinct, IInv, NEW s \in Slots, NEW w, IsWrite(w), w.stage = "sent", w.gen = tab.gen,
           w.date = tab.date, w.rev = tab.rev, Begin(s, w)
    PROVE  Good
<1> DEFINE v == [tab EXCEPT !.chain = IF w.kind = "check" THEN tab.rev ELSE @]
<1>1. write[s] = Idle /\ Editable(tab) /\ write' = [write EXCEPT ![s] = w] /\ tab' = Leased(v, s)
  BY DEF Begin
<1>2. /\ PageOK(tab) /\ Exclusive(tab) /\ Linked(tab, write) /\ WritesOK(write)
      /\ DOMAIN write = Slots /\ IsTab(tab) /\ tab.highest \in Int
  BY IInvParts
<1>3. /\ IsTab(v) /\ Requeued(tab, v) /\ (w.kind = "check" => v.chain = tab.rev)
      /\ v.own = tab.own /\ v.failed = tab.failed
  BY <1>2 DEF IsTab, Fields, Requeued
<1> HIDE DEF v
<1>4. PageOK(v) /\ Exclusive(v) /\ Editable(v) /\ Linked(v, write) /\ v.active = None
  BY <1>1, <1>2, <1>3, RequeuedOK DEF Requeued
<1>5. v.gen = tab.gen /\ v.date = tab.date /\ v.highest = tab.highest
  BY <1>3 DEF Requeued
<1>6. /\ write'[s] = w /\ (\A q \in Slots : q # s => write'[q] = write[q]) /\ ~Open(write[s])
      /\ DOMAIN write' = Slots /\ WritesOK(write')
  BY <1>1, <1>2, IdleWrite DEF WritesOK
<1>7. /\ w.stage \in {"sent", "answered"} /\ w.gen = v.gen /\ w.date = v.date
      /\ w.kind = "check" => w.rev = v.chain
  BY <1>3, <1>5
<1>8. PageOK(tab') /\ Exclusive(tab') /\ Linked(tab', write')
  <2>1. /\ write'[s].stage \in {"sent", "answered"} /\ write'[s].gen = v.gen /\ write'[s].date = v.date
        /\ write'[s].stage = "sent" /\ write'[s].kind = "check" => write'[s].rev = v.chain
    BY <1>6, <1>7
  <2>2. tab' = Leased(v, s)
    BY <1>1
  <2>3. ~Open(write[s]) /\ \A q \in Slots : q # s => write'[q] = write[q]
    BY <1>6
  <2> QED
    BY <1>4, <2>1, <2>2, <2>3, LeasedOK
<1>9. tab'.highest = v.highest
  BY <1>1, <1>3 DEF Leased, IsTab, Fields
<1>10. Attended(tab', write')
  <2>1. Awake(v) /\ OwnOpen(v, write)
    BY <1>3, IInvParts, RequeuedAwake DEF Calm, Requeued
  <2>2. Open(write'[s]) /\ write'[s].date = v.date /\ tab' = Leased(v, s)
    BY <1>1, <1>6, <1>7 DEF Open
  <2> QED
    BY <1>3, <1>4, <1>6, <2>1, <2>2, LeasedAwake
<1> QED
  BY <1>2, <1>5, <1>6, <1>8, <1>9, <1>10 DEF Good, Sound, Ahead

LEMMA EditGood ==
    ASSUME Distinct, IInv, NEW s \in Slots, Edit(s) PROVE Good
BY IInvParts, CaptureWrite, BeginOK DEF Edit

LEMMA CheckGood ==
    ASSUME Distinct, IInv, NEW s \in Slots, Check(s) PROVE Good
BY IInvParts, CaptureWrite, BeginOK DEF Check

LEMMA UndoGood ==
    ASSUME Distinct, IInv, NEW s \in Slots, Undo(s) PROVE Good
<1> DEFINE w == [Capture(tab, "undo") EXCEPT !.entry = TopEntry]
<1>1. Begin(s, w)
  BY DEF Undo
<1>2. /\ IsWrite(w) /\ w.stage = "sent" /\ w.gen = tab.gen /\ w.date = tab.date /\ w.rev = tab.rev
  BY IInvParts DEF Capture, IsWrite, WriteFields, Stages, ReplyReal, Open, IsTab
<1> HIDE DEF w
<1> QED
  BY <1>1, <1>2, BeginOK

LEMMA UndoMismatchGood ==
    ASSUME Distinct, IInv, NEW s \in Slots, UndoMismatch(s) PROVE Good
<1> DEFINE w == [Capture(tab, "undo") EXCEPT !.entry = TopEntry, !.stage = "answered",
                    !.reply = [kind |-> "conflict", rev |-> None, blocks |-> None]]
           v == Leased(tab, s)
<1>1. write[s] = Idle /\ Editable(tab) /\ write' = [write EXCEPT ![s] = w] /\ tab' = InvalidateHistory(v, tab.date)
  BY DEF UndoMismatch
<1>2. /\ PageOK(tab) /\ Exclusive(tab) /\ Linked(tab, write) /\ WritesOK(write)
      /\ DOMAIN write = Slots /\ IsTab(tab) /\ tab.highest \in Int
  BY IInvParts
<1>3. IsWrite(w) /\ w.stage = "answered" /\ w.gen = tab.gen /\ w.date = tab.date
  BY <1>2 DEF Capture, IsWrite, WriteFields, Stages, ReplyReal, Open, IsTab
<1> HIDE DEF w
<1>4. /\ write'[s] = w /\ (\A q \in Slots : q # s => write'[q] = write[q]) /\ ~Open(write[s])
      /\ DOMAIN write' = Slots /\ WritesOK(write')
  BY <1>1, <1>2, <1>3, IdleWrite DEF WritesOK
<1>5. tab.active = None
  BY <1>1, <1>2 DEF PageOK, PageShape, LeaseOwned, Editable
<1> HIDE DEF v
<1>7. v = Leased(tab, s)
  BY DEF v
<1>6. IsTab(v) /\ v.highest = tab.highest
  <2>1. v.highest = tab.highest
    BY <1>2, <1>7 DEF Leased, IsTab, Fields
  <2> QED
    BY <1>2, <1>7, <2>1, LeasedTab
<1>8. PageOK(v) /\ Exclusive(v) /\ Linked(v, write')
  BY <1>1, <1>2, <1>3, <1>4, <1>5, <1>7, LeasedOK
<1>9. IsTab(tab') /\ Alike(v, tab')
  BY <1>1, <1>6, InvalidateAlike
<1>10. PageOK(tab') /\ Exclusive(tab') /\ Linked(tab', write')
  BY <1>8, <1>9, AlikeOK
<1>11. tab'.highest = tab.highest
  BY <1>6, <1>9 DEF Alike
<1>12. Attended(tab', write')
  <2>1. Open(write'[s]) /\ write'[s].date = tab.date
    BY <1>3, <1>4 DEF Open
  <2>2. Attended(v, write')
    BY <1>1, <1>2, <1>4, <1>7, <2>1, IInvParts, LeasedAwake
  <2> QED
    BY <1>9, <2>2, AlikeAwake
<1> QED
  BY <1>2, <1>4, <1>10, <1>11, <1>12 DEF Good, Sound, Ahead

LEMMA QueueCheckGood ==
    ASSUME Distinct, IInv, QueueCheck PROVE Good
<1>1. /\ PageOK(tab) /\ Exclusive(tab) /\ Linked(tab, write) /\ WritesOK(write)
      /\ DOMAIN write = Slots /\ IsTab(tab) /\ tab.highest \in Int
  BY IInvParts
<1>2. \E n : tab' = [tab EXCEPT !.waiting = n]
  BY DEF QueueCheck
<1>3. IsTab(tab') /\ Alike(tab, tab') /\ write' = write
  BY <1>1, <1>2, WaitingAlike DEF QueueCheck
<1>4. PageOK(tab') /\ Exclusive(tab') /\ Linked(tab', write') /\ Attended(tab', write')
  BY <1>1, <1>3, IInvParts, AlikeOK, AlikeAwake
<1> QED
  BY <1>1, <1>3, <1>4 DEF Good, Sound, Ahead, Alike

LEMMA CaptureFailureGood ==
    ASSUME Distinct, IInv, CaptureFailure PROVE Good
<1>1. /\ PageOK(tab) /\ Exclusive(tab) /\ Linked(tab, write) /\ WritesOK(write)
      /\ DOMAIN write = Slots /\ IsTab(tab) /\ tab.highest \in Int /\ DaysOK
  BY IInvParts
<1>2. tab' = Asking(tab, "capture") /\ write' = write
  BY DEF CaptureFailure
<1>3. /\ IsTab(tab') /\ Unmoved(tab, tab') /\ tab'.rev = tab.rev /\ tab'.highest = tab.highest
      /\ tab'.reads = tab.reads \union {[by |-> "capture", gen |-> tab.gen, date |-> tab.date,
                                         from |-> Revision(tab.date)]}
  BY <1>1, <1>2, AskingTab
<1>4. PageOK(tab') /\ Exclusive(tab')
  BY <1>1, <1>2, AskingOK
<1>5. LeaseLinked(tab', write') /\ OneLease(tab', write') /\ TicketsLinked(tab', write') /\ ChainLinked(tab', write')
  BY <1>1, <1>2, <1>3 DEF Linked, LeaseLinked, OneLease, TicketsLinked, ChainLinked, Unmoved
<1>6. ReadsLinked(tab', write')
  BY <1>1, <1>2, <1>3 DEF Linked, ReadsLinked, Unmoved, IsTab, DaysOK, Revision, Distinct
<1>7. Attended(tab', write')
  <2>1. PICK by \in {"handoff", "context", "capture"} : by = "capture"
    OBVIOUS
  <2> QED
    BY <1>1, <1>2, <2>1, IInvParts, AskingAwake
<1> QED
  BY <1>1, <1>2, <1>3, <1>4, <1>5, <1>6, <1>7 DEF Good, Sound, Ahead, Linked

-----------------------------------------------------------------------------
(* The server *)

\* Days only grow: what a revision held stays what it held.
Grows ==
    /\ DOMAIN day' = Dates
    /\ \A d \in Dates :
        /\ Len(day'[d]) \in Nat \ {0} /\ \E S : day'[d] \in Seq(S)
        /\ Len(day[d]) <= Len(day'[d])
        /\ \A i \in 1 .. Len(day[d]) : day'[d][i] = day[d][i]

LEMMA GrowsReal ==
    ASSUME DaysOK, Grows, NEW d \in Dates
    PROVE  /\ Revision(d) \in Nat /\ Revision(d)' \in Nat /\ Revision(d) <= Revision(d)'
           /\ \A r \in 0 .. Revision(d) : r \in 0 .. Revision(d)' /\ day'[d][r + 1] = day[d][r + 1]
<1>1. Len(day[d]) \in Nat \ {0} /\ Len(day'[d]) \in Nat \ {0} /\ Len(day[d]) <= Len(day'[d])
  BY DEF DaysOK, Grows
<1>2. Revision(d) = Len(day[d]) - 1 /\ Revision(d)' = Len(day'[d]) - 1
  BY DEF Revision
<1>3. ASSUME NEW r \in 0 .. Revision(d)
      PROVE  r \in 0 .. Revision(d)' /\ day'[d][r + 1] = day[d][r + 1]
  <2>1. r + 1 \in 1 .. Len(day[d])
    BY <1>1, <1>2
  <2>2. day'[d][r + 1] = day[d][r + 1]
    BY <2>1 DEF Grows
  <2>3. r \in 0 .. Revision(d)'
    BY <1>1, <1>2
  <2> QED
    BY <2>2, <2>3
<1> QED
  BY <1>1, <1>2, <1>3

LEMMA GrowsPage ==
    ASSUME Distinct, DaysOK, Grows, tab' = tab, PageOK(tab), Exclusive(tab)
    PROVE  PageOK(tab)' /\ Exclusive(tab)'
<1>1. /\ tab.date \in Dates /\ tab.props.date = tab.date /\ tab.props.rev \in 0 .. Revision(tab.date)
      /\ tab.props.blocks = day[tab.date][tab.props.rev + 1]
      /\ tab.rev # None => /\ tab.rev \in 0 .. Revision(tab.date)
                           /\ tab.blocks = day[tab.date][tab.rev + 1]
  BY GrowsReal DEF PageOK, PageShape, IsTab, PropsReal, Real, ShownReal
<1>2. PropsReal(tab)' /\ ShownReal(tab)'
  <2> DEFINE d == tab.date
  <2>1. /\ Revision(d) \in Nat /\ Revision(d)' \in Nat /\ Revision(d) <= Revision(d)'
        /\ \A r \in 0 .. Revision(d) : r \in 0 .. Revision(d)' /\ day'[d][r + 1] = day[d][r + 1]
    <3>1. \A e \in Dates : /\ Revision(e) \in Nat /\ Revision(e)' \in Nat /\ Revision(e) <= Revision(e)'
           /\ \A r \in 0 .. Revision(e) : r \in 0 .. Revision(e)' /\ day'[e][r + 1] = day[e][r + 1]
      BY GrowsReal
    <3> QED
      BY <1>1, <3>1 DEF Revision
  <2>2. PropsReal(tab)'
    BY <1>1, <2>1 DEF PropsReal, Real, Revision
  <2>3. tab.rev # None => tab.rev = tab.highest
    BY DEF PageOK, PageShape, ShownReal
  <2>4. ShownReal(tab)'
    <3>1. SUFFICES ASSUME tab.rev # None
                   PROVE  /\ tab.rev = tab.highest /\ tab.rev <= Revision(d)'
                          /\ tab.blocks = day'[d][tab.rev + 1]
      BY DEF ShownReal, Revision
    <3>2. tab.rev \in 0 .. Revision(d)' /\ day'[d][tab.rev + 1] = day[d][tab.rev + 1]
      BY <1>1, <2>1, <3>1
    <3>3. tab.rev <= Revision(d)'
      BY <2>1, <3>2
    <3> QED
      BY <1>1, <2>3, <3>1, <3>2, <3>3
  <2> QED
    BY <2>2, <2>4
<1>3. /\ IsTab(tab)' /\ LeaseOwned(tab)' /\ Waiting(tab)' /\ OwnWritesShown(tab)' /\ Exclusive(tab)'
  BY DEF PageOK, PageShape, IsTab, LeaseOwned, Waiting, OwnWritesShown, Editable, Exclusive
<1> QED
  BY <1>2, <1>3 DEF PageOK, PageShape

LEMMA GrowsWrite ==
    ASSUME DaysOK, Grows, NEW s \in Slots, IsWrite(write[s]), write'[s] = write[s]
    PROVE  IsWrite(write[s])'
<1>1. SUFFICES ASSUME Open(write[s]), write[s].stage # "sent", write[s].reply.kind = "accepted"
               PROVE  /\ write[s].reply.rev \in 0 .. (Len(day'[write[s].date]) - 1)
                      /\ write[s].reply.blocks = day'[write[s].date][write[s].reply.rev + 1]
  BY DEF IsWrite, Open, ReplyReal, Revision
<1>2. /\ write[s].date \in Dates /\ write[s].reply.rev \in 0 .. Revision(write[s].date)
      /\ write[s].reply.blocks = day[write[s].date][write[s].reply.rev + 1]
  BY <1>1 DEF IsWrite, ReplyReal
<1>3. \A e \in Dates :
           \A r \in 0 .. Revision(e) : r \in 0 .. (Len(day'[e]) - 1) /\ day'[e][r + 1] = day[e][r + 1]
  BY GrowsReal DEF Revision
<1> QED
  BY <1>2, <1>3

LEMMA GrowsReads ==
    ASSUME DaysOK, Grows, tab' = tab, ReadsLinked(tab, write),
           \A q \in Slots : /\ write'[q].gen = write[q].gen
                            /\ write[q].stage \in {"reading", "reviewing"} => write'[q].stage = write[q].stage
    PROVE  ReadsLinked(tab, write)'
<1>1. ASSUME NEW r \in tab.reads
      PROVE  r.date \in Dates /\ r.from \in 0 .. (Len(day'[r.date]) - 1)
  BY <1>1, GrowsReal DEF ReadsLinked, Revision
<1> QED
  BY <1>1 DEF ReadsLinked, Revision

LEMMA OutcomeGrows ==
    ASSUME NEW h, Len(h) \in Nat \ {0}, \E S : h \in Seq(S), NEW w, NEW after \in Outcomes(w, h)
    PROVE  /\ Len(after) \in Nat \ {0} /\ \E S : after \in Seq(S)
           /\ Len(h) <= Len(after) /\ \A i \in 1 .. Len(h) : after[i] = h[i]
<1>1. after = h \/ \E x : after = Append(h, x)
  BY DEF Outcomes
<1>2. CASE after = h
  BY <1>2
<1>3. ASSUME NEW x, after = Append(h, x)
      PROVE  /\ Len(after) \in Nat \ {0} /\ \E S : after \in Seq(S)
             /\ Len(h) <= Len(after) /\ \A i \in 1 .. Len(h) : after[i] = h[i]
  <2>1. PICK S : h \in Seq(S)
    OBVIOUS
  <2>2. h \in Seq(S \union {x}) /\ x \in S \union {x}
    BY <2>1
  <2>3. after \in Seq(S \union {x}) /\ Len(after) = Len(h) + 1 /\ \A i \in 1 .. Len(h) : after[i] = h[i]
    BY <1>3, <2>2
  <2> QED
    BY <2>3
<1> QED
  BY <1>1, <1>2, <1>3

\* An answer leaves everything but its own stage and reply.
LEMMA AnswerLinked ==
    ASSUME Distinct, IInv, NEW s \in Slots, write[s].stage = "sent", NEW reply, Answer(s, reply), tab' = tab
    PROVE  /\ DOMAIN write' = Slots /\ \A q \in Slots : q # s => write'[q] = write[q]
           /\ write'[s].stage = "answered" /\ write'[s].reply = reply
           /\ write'[s].date = write[s].date /\ write'[s].gen = write[s].gen
           /\ DOMAIN write'[s] = WriteFields /\ write[s].date \in Dates /\ write[s].gen \in Nat
           /\ LeaseLinked(tab, write') /\ OneLease(tab, write') /\ TicketsLinked(tab, write')
           /\ ChainLinked(tab, write') /\ Attended(tab, write')
<1>1. /\ Linked(tab, write) /\ DOMAIN write = Slots /\ IsWrite(write[s]) /\ IsTab(tab)
      /\ Attended(tab, write)
  BY IInvParts
<1>2. DOMAIN write[s] = WriteFields /\ write[s].date \in Dates /\ write[s].gen \in Nat
  BY <1>1 DEF IsWrite, Open
<1>3. DOMAIN write' = Slots /\ \A q \in Slots : q # s => write'[q] = write[q]
  BY <1>1 DEF Answer
<1>4. /\ write'[s].stage = "answered" /\ write'[s].reply = reply
      /\ write'[s].date = write[s].date /\ write'[s].gen = write[s].gen
      /\ DOMAIN write'[s] = WriteFields
  BY <1>1, <1>2 DEF Answer, WriteFields
<1>5. LeaseLinked(tab, write')
  BY <1>1, <1>3, <1>4 DEF Linked, LeaseLinked, Open, IsTab
<1>6. OneLease(tab, write') /\ ChainLinked(tab, write')
  BY <1>1, <1>3, <1>4 DEF Linked, OneLease, ChainLinked, Open
<1>7. TicketsLinked(tab, write')
  BY <1>1, <1>3, <1>4 DEF Linked, TicketsLinked, Open, IsTab
<1>8. \A q \in Slots : (Open(write[q]) => Open(write'[q])) /\ write'[q].date = write[q].date
  BY <1>3, <1>4 DEF Open
<1>9. OwnOpen(tab, write') /\ (Rested(tab, write) => Rested(tab, write'))
  BY <1>1, <1>8 DEF Attended, OwnOpen, Rested
<1>10. Attended(tab, write')
  BY <1>1, <1>9 DEF Attended
<1> QED
  BY <1>2, <1>3, <1>4, <1>5, <1>6, <1>7, <1>10

LEMMA DeclineGood ==
    ASSUME Distinct, IInv, NEW s \in Slots, Decline(s) PROVE Good
<1>1. write[s].stage = "sent" /\ tab' = tab /\ \E reply : Answer(s, reply) /\ reply.kind # "accepted"
  BY DEF Decline, Reply
<1>2. PICK reply : Answer(s, reply) /\ reply.kind # "accepted"
  BY <1>1
<1>3. /\ DOMAIN write' = Slots /\ \A q \in Slots : q # s => write'[q] = write[q]
      /\ write'[s].stage = "answered" /\ write'[s].reply = reply
      /\ write'[s].date = write[s].date /\ write'[s].gen = write[s].gen
      /\ DOMAIN write'[s] = WriteFields /\ write[s].date \in Dates /\ write[s].gen \in Nat
      /\ LeaseLinked(tab, write') /\ OneLease(tab, write') /\ TicketsLinked(tab, write')
      /\ ChainLinked(tab, write') /\ Attended(tab, write')
  BY <1>1, <1>2, AnswerLinked
<1>4. /\ PageOK(tab) /\ Exclusive(tab) /\ Linked(tab, write) /\ WritesOK(write)
      /\ tab.highest \in Int
  BY IInvParts
<1>5. WritesOK(write')
  BY <1>2, <1>3, <1>4 DEF WritesOK, IsWrite, ReplyReal, Stages
<1>6. ReadsLinked(tab, write')
  BY <1>1, <1>3, <1>4 DEF Linked, ReadsLinked
<1> QED
  BY <1>1, <1>3, <1>4, <1>5, <1>6 DEF Good, Sound, Linked, Ahead

LEMMA VisitGrows ==
    ASSUME DaysOK, Grows, VisitOK, visit' = visit PROVE VisitOK'
BY GrowsReal DEF VisitOK, Revision

LEMMA ServeInv ==
    ASSUME Distinct, IInv, NEW s \in Slots, Serve(s) PROVE IInv'
<1> DEFINE d == write[s].date
<1>0. /\ PageOK(tab) /\ Exclusive(tab) /\ Linked(tab, write) /\ WritesOK(write)
      /\ DaysOK /\ DOMAIN write = Slots /\ IsWrite(write[s]) /\ write[s].stage = "sent"
      /\ tab' = tab /\ visit' = visit /\ DOMAIN day' = DOMAIN day
  BY IInvParts DEF Serve
<1>1. PICK after \in Outcomes(write[s], day[d]), kind \in {"accepted", "bare", "unknown"} :
        /\ day' = [day EXCEPT ![d] = after]
        /\ Answer(s, Reply(kind, IF kind = "accepted" THEN Len(after) - 1 ELSE None,
                            IF kind = "accepted" THEN Last(after) ELSE None))
  BY DEF Serve
<1> DEFINE reply == Reply(kind, IF kind = "accepted" THEN Len(after) - 1 ELSE None,
                            IF kind = "accepted" THEN Last(after) ELSE None)
<1>2. /\ DOMAIN write' = Slots /\ \A q \in Slots : q # s => write'[q] = write[q]
      /\ write'[s].stage = "answered" /\ write'[s].reply = reply
      /\ write'[s].date = write[s].date /\ write'[s].gen = write[s].gen
      /\ DOMAIN write'[s] = WriteFields /\ write[s].date \in Dates /\ write[s].gen \in Nat
      /\ LeaseLinked(tab, write') /\ OneLease(tab, write') /\ TicketsLinked(tab, write')
      /\ ChainLinked(tab, write') /\ Attended(tab, write')
  <2>1. Answer(s, reply)
    BY <1>1
  <2> HIDE DEF reply
  <2> QED
    BY <1>0, <2>1, AnswerLinked
<1>3. /\ Len(after) \in Nat \ {0} /\ (\E S : after \in Seq(S))
      /\ Len(day[d]) <= Len(after) /\ \A i \in 1 .. Len(day[d]) : after[i] = day[d][i]
  <2>1. Len(day[d]) \in Nat \ {0} /\ \E S : day[d] \in Seq(S)
    BY <1>0, <1>2 DEF DaysOK
  <2> HIDE DEF d, reply
  <2> QED
    BY <1>1, <2>1, OutcomeGrows
<1>4. DOMAIN day' = Dates /\ day'[d] = after /\ \A e \in Dates : e # d => day'[e] = day[e]
  BY <1>0, <1>1, <1>2 DEF DaysOK
<1> HIDE DEF d, reply
<1>5. Grows
  <2>1. ASSUME NEW e \in Dates, e # d
        PROVE  /\ Len(day'[e]) \in Nat \ {0} /\ \E S : day'[e] \in Seq(S)
               /\ Len(day[e]) <= Len(day'[e])
               /\ \A i \in 1 .. Len(day[e]) : day'[e][i] = day[e][i]
    BY <1>0, <1>4, <2>1 DEF DaysOK
  <2> QED
    BY <1>3, <1>4, <2>1 DEF Grows
<1>6. PageOK(tab)' /\ Exclusive(tab)' /\ DaysOK' /\ VisitOK'
  BY <1>0, <1>5, GrowsPage, VisitGrows DEF Grows, DaysOK, IInv
<1>7. ASSUME NEW q \in Slots PROVE IsWrite(write[q])'
  <2>1. CASE q # s
    BY <1>0, <1>2, <1>5, <2>1, GrowsWrite DEF WritesOK
  <2>2. CASE q = s
    <3>1. /\ write'[q].stage = "answered" /\ DOMAIN write'[q] = WriteFields
          /\ write'[q].date = d /\ d \in Dates /\ write'[q].gen \in Nat /\ write'[q].reply = reply
      BY <1>2, <2>2 DEF d
    <3>2. reply.kind = "accepted" => reply.rev = Len(after) - 1 /\ reply.blocks = after[Len(after)]
      BY DEF reply, Reply, Last
    <3>3. /\ Len(after) - 1 \in 0 .. (Len(day'[d]) - 1)
          /\ after[Len(after)] = day'[d][Len(after) - 1 + 1]
      BY <1>3, <1>4
    <3>4. ReplyReal(write[q])'
      BY <3>1, <3>2, <3>3 DEF ReplyReal, Revision
    <3> QED
      BY <3>1, <3>4 DEF IsWrite, Stages
  <2> QED
    BY <2>1, <2>2
<1>8. ReadsLinked(tab, write)'
  <2>1. ReadsLinked(tab, write)
    BY <1>0 DEF Linked
  <2>2. \A q \in Slots : /\ write'[q].gen = write[q].gen
                         /\ write[q].stage \in {"reading", "reviewing"} => write'[q].stage = write[q].stage
    BY <1>0, <1>2
  <2> QED
    BY <1>0, <1>5, <2>1, <2>2, GrowsReads
<1>9. /\ LeaseLinked(tab, write)' /\ OneLease(tab, write)' /\ TicketsLinked(tab, write)'
      /\ ChainLinked(tab, write)'
  BY <1>0, <1>2 DEF LeaseLinked, OneLease, TicketsLinked, ChainLinked
<1>10. Attended(tab, write)'
  BY <1>0, <1>2 DEF Attended, OwnOpen, Open, Awake, Minded, Calm, Tended, Undisturbed, Expected, Cleared,
                Outstanding, Settled, UpToDate, TasksHeard, LeaseHeard, Rested
<1> QED
  BY <1>2, <1>6, <1>7, <1>8, <1>9, <1>10 DEF IInv, Sound, Linked, WritesOK

LEMMA OtherWriteInv ==
    ASSUME Distinct, IInv, NEW d \in Dates, OtherWrite(d) PROVE IInv'
<1>0. /\ PageOK(tab) /\ Exclusive(tab) /\ Linked(tab, write) /\ WritesOK(write)
      /\ DaysOK /\ DOMAIN write = Slots
      /\ tab' = tab /\ visit' = visit /\ write' = write
  BY IInvParts DEF OtherWrite
<1>1. /\ day' = [day EXCEPT ![d] = Append(day[d], Len(day[d]))]
  BY DEF OtherWrite
<1>2. DOMAIN day' = Dates /\ day'[d] = Append(day[d], Len(day[d])) /\ \A e \in Dates : e # d => day'[e] = day[e]
  BY <1>0, <1>1 DEF DaysOK
<1>3. ASSUME NEW e \in Dates
      PROVE  /\ Len(day'[e]) \in Nat \ {0} /\ \E S : day'[e] \in Seq(S)
             /\ Len(day[e]) <= Len(day'[e])
             /\ \A i \in 1 .. Len(day[e]) : day'[e][i] = day[e][i]
  <2>1. CASE e # d
    BY <1>0, <1>2, <2>1 DEF DaysOK
  <2>2. CASE e = d
    <3>1. PICK S : day[d] \in Seq(S)
      BY <1>0 DEF DaysOK
    <3>2. day[d] \in Seq(S \union {Len(day[d])}) /\ Len(day[d]) \in S \union {Len(day[d])}
      BY <3>1
    <3> HIDE <3>1
    <3>3. /\ day'[d] \in Seq(S \union {Len(day[d])}) /\ Len(day'[d]) = Len(day[d]) + 1
          /\ \A i \in 1 .. Len(day[d]) : day'[d][i] = day[d][i]
      BY <1>2, <3>2
    <3> QED
      BY <1>0, <2>2, <3>3 DEF DaysOK
  <2> QED
    BY <2>1, <2>2
<1>4. Grows
  BY <1>2, <1>3 DEF Grows
<1>5. PageOK(tab)' /\ Exclusive(tab)' /\ DaysOK' /\ VisitOK'
  BY <1>0, <1>4, GrowsPage, VisitGrows DEF Grows, DaysOK, IInv
<1>6. WritesOK(write)'
  BY <1>0, <1>4, GrowsWrite DEF WritesOK
<1>7. ReadsLinked(tab, write)'
  BY <1>0, <1>4, GrowsReads DEF Linked
<1>8. /\ LeaseLinked(tab, write)' /\ OneLease(tab, write)' /\ TicketsLinked(tab, write)'
      /\ ChainLinked(tab, write)'
  BY <1>0 DEF Linked, LeaseLinked, OneLease, TicketsLinked, ChainLinked
<1>9. Attended(tab, write)'
  BY <1>0, IInvParts DEF Attended, OwnOpen, Open, Awake, Minded, Calm, Tended, Undisturbed, Expected, Cleared,
                Outstanding, Settled, UpToDate, TasksHeard, LeaseHeard, Rested
<1> QED
  BY <1>0, <1>5, <1>6, <1>7, <1>8, <1>9 DEF IInv, Sound, Linked

-----------------------------------------------------------------------------
(* settle *)

\* The page that leased a write is the one that shows its day now.
LEMMA CurrentLease ==
    ASSUME Distinct, IInv, NEW s \in Slots, Open(write[s])
    PROVE  /\ write[s].date \in Dates /\ write[s].gen \in Nat
           /\ Proper(write[s]) \/ write[s].stage = "sent"
           /\ IsCurrent(tab, write[s]) => tab.active = s
           /\ ~IsCurrent(tab, write[s]) => tab.active # s
           /\ write[s].stage \notin {"reading", "reviewing"} => \A r \in tab.reads : r.by # s
<1>1. PageOK(tab) /\ Linked(tab, write) /\ IsWrite(write[s]) /\ IsTab(tab)
  BY IInvParts
<1>2. write[s].date \in Dates /\ write[s].gen \in Nat /\ (Proper(write[s]) \/ write[s].stage = "sent")
  BY <1>1 DEF IsWrite, ReplyReal, Proper
<1>3. IsCurrent(tab, write[s]) => tab.active = s
  BY <1>1 DEF IsCurrent, Linked, OneLease
<1>4. ~IsCurrent(tab, write[s]) => tab.active # s
  BY <1>1 DEF IsCurrent, Linked, LeaseLinked, PageOK, PageShape, LeaseOwned, Distinct
<1>5. write[s].stage \notin {"reading", "reviewing"} => \A r \in tab.reads : r.by # s
  BY <1>1 DEF Linked, ReadsLinked
<1> QED
  BY <1>2, <1>3, <1>4, <1>5

\* A slot given back by anyone but the page that leased it.
LEMMA ReleasedOK ==
    ASSUME Distinct, DaysOK, WritesOK(write), DOMAIN write = Slots, NEW s \in Slots, NEW t,
           PageOK(t), Exclusive(t), Linked(t, write), t.active # s, Open(write[s]),
           write[s].stage # "sent", \A r \in t.reads : r.by # s, Awake(t), OwnOpen(t, write),
           NEW u, u = Release(t, s, write[s])
    PROVE  /\ PageOK(u) /\ Exclusive(u) /\ Linked(u, [write EXCEPT ![s] = Idle])
           /\ Awake(u) /\ OwnOpen(u, [write EXCEPT ![s] = Idle])
           /\ u.gen = t.gen /\ u.highest = t.highest /\ IsTab(u)
<1>1. IsWrite(write[s]) /\ IsTab(t)
  BY DEF WritesOK, PageOK, PageShape
<1>2. Proper(write[s])
  BY <1>1 DEF IsWrite, ReplyReal, Proper
<1>3. u.gen = t.gen /\ u.highest = t.highest /\ IsTab(u)
  BY <1>1, <1>2, ReleaseTab
<1> DEFINE wr == [write EXCEPT ![s] = Idle]
<1>4. wr[s] = Idle /\ \A q \in Slots : q # s => wr[q] = write[q]
  OBVIOUS
<1> HIDE DEF wr
<1>5. PageOK(u) /\ Exclusive(u) /\ Linked(u, wr)
  BY <1>1, <1>4, ReleaseOther
<1>6. Awake(u) /\ OwnOpen(u, wr)
  <2>1. TicketsLinked(t, write)
    BY DEF Linked
  <2> QED
    BY <1>1, <1>2, <1>4, <2>1, ReleaseAwake
<1> QED
  BY <1>3, <1>5, <1>6 DEF wr

LEMMA ForgetReset ==
    ASSUME Distinct, IInv, NEW u, u = Forget(Reset(tab, "session"))
    PROVE  /\ PageOK(u) /\ Exclusive(u) /\ Linked(u, write) /\ u.active = None
           /\ u.gen = tab.gen + 1 /\ u.reads = tab.reads
           /\ ~u.live /\ Awake(u) /\ OwnOpen(u, write)
<1> DEFINE v == Reset(tab, "session")
<1>1. /\ IsTab(tab) /\ PropsReal(tab) /\ Linked(tab, write) /\ \A s \in Slots : IsWrite(write[s])
      /\ OwnOpen(tab, write)
  BY IInvParts DEF PageOK, PageShape
<1>2. /\ IsTab(v) /\ v.props = tab.props /\ v.date = tab.date /\ v.gen = tab.gen + 1
      /\ ~v.live /\ v.own = tab.own /\ v.reads = tab.reads /\ v.handoff = None /\ v.active = None /\ v.rev = None
  <2>1. PICK reason : reason = "session" /\ v = Reset(tab, reason)
    OBVIOUS
  <2> HIDE DEF v
  <2>2. /\ IsTab(v) /\ v.props = tab.props /\ v.date = tab.date /\ v.gen = tab.gen + 1 /\ v.own = tab.own
        /\ v.reads = tab.reads /\ v.handoff = None /\ v.active = None /\ v.rev = None
        /\ v.live = (tab.live /\ reason # "session")
    BY <1>1, <2>1, ResetTab
  <2> QED
    BY <2>1, <2>2
<1>3. u = Forget(v)
  OBVIOUS
<1> HIDE DEF v
<1>4. /\ IsTab(u) /\ u.props = tab.props /\ u.date = tab.date /\ u.gen = tab.gen + 1
      /\ u.reads = tab.reads /\ u.handoff = None /\ u.active = None /\ u.rev = None
      /\ (\A d \in Dates : u.pending[d] = {}) /\ ~u.live /\ u.own = tab.own
  <2>1. DOMAIN u = Fields
    BY <1>2, <1>3 DEF Forget, IsTab
  <2>2. /\ u.props = v.props /\ u.date = v.date /\ u.gen = v.gen /\ u.reads = v.reads
        /\ u.handoff = v.handoff /\ u.active = v.active /\ u.rev = v.rev
    BY <1>2, <1>3 DEF Forget, IsTab, Fields
  <2>3. /\ u.live = v.live /\ u.own = v.own /\ u.highest = v.highest /\ u.phase = v.phase /\ u.gate = v.gate
    BY <1>2, <1>3 DEF Forget, IsTab, Fields
  <2>4. /\ u.floor = [d \in Dates |-> -1] /\ u.dirty = [d \in Dates |-> FALSE]
        /\ u.pending = [d \in Dates |-> {}]
    BY <1>2, <1>3 DEF Forget, IsTab, Fields
  <2> QED
    BY <1>2, <2>1, <2>2, <2>3, <2>4 DEF IsTab
<1>5. PropsReal(u)
  BY <1>1, <1>4 DEF PropsReal
<1>6. ~u.live /\ Awake(u) /\ OwnOpen(u, write)
  BY <1>1, <1>4 DEF Awake, Minded, Calm, OwnOpen
<1> QED
  BY <1>1, <1>4, <1>5, <1>6, OwnerOK

LEMMA SignedOutGood ==
    ASSUME Distinct, IInv, NEW s \in Slots, SettleSignedOut(s) PROVE Good
<1> DEFINE t == IF IsCurrent(tab, write[s]) THEN Forget(Reset(tab, "session")) ELSE tab
           u == Release(t, s, write[s])
<1>0. /\ PageOK(tab) /\ Exclusive(tab) /\ Linked(tab, write) /\ WritesOK(write)
      /\ DOMAIN write = Slots /\ DaysOK /\ IsTab(tab)
  BY IInvParts
<1>1. write[s].stage = "answered" /\ Open(write[s]) /\ End(s, u)
  BY DEF SettleSignedOut, Replied, Open
<1>2. /\ PageOK(t) /\ Exclusive(t) /\ Linked(t, write) /\ t.active # s /\ t.reads = tab.reads
      /\ t = tab \/ t.gen = tab.gen + 1
      /\ Awake(t) /\ OwnOpen(t, write)
  BY <1>0, <1>1, IInvParts, CurrentLease, ForgetReset DEF Distinct
<1>3. \A r \in t.reads : r.by # s
  BY <1>1, <1>2, CurrentLease
<1> HIDE DEF t
<1>4. /\ PageOK(u) /\ Exclusive(u) /\ Linked(u, [write EXCEPT ![s] = Idle])
      /\ Awake(u) /\ OwnOpen(u, [write EXCEPT ![s] = Idle])
      /\ u.gen = t.gen /\ u.highest = t.highest
  BY <1>0, <1>1, <1>2, <1>3, ReleasedOK
<1> HIDE DEF u
<1>5. Sound(tab', write') /\ DOMAIN write' = Slots /\ Ahead(u, tab') /\ tab'.gen = u.gen
  BY <1>0, <1>1, <1>4, EndOK
<1> QED
  BY <1>0, <1>2, <1>4, <1>5 DEF Good, Ahead, IsTab

LEMMA DepartedAlike ==
    ASSUME NEW t, IsTab(t), NEW w, NEW u, u = Departed(t, w)
    PROVE  IsTab(u) /\ Alike(t, u)
<1>1. u = t \/ u = Spent(t, w)
  BY DEF Departed
<1> QED
  BY <1>1, SpentAlike DEF Alike, Kept, Unmoved

LEMMA DepartedGood ==
    ASSUME Distinct, IInv, NEW s \in Slots, SettleDeparted(s) PROVE Good
<1> DEFINE u == Release(tab, s, write[s])
           v == IF write[s].reply.kind # "rejected" /\ write[s].scope = tab.scope
                THEN InvalidateHistory(u, write[s].date) ELSE Departed(u, write[s])
<1>0. /\ PageOK(tab) /\ Exclusive(tab) /\ Linked(tab, write) /\ WritesOK(write)
      /\ DOMAIN write = Slots /\ DaysOK /\ IsTab(tab)
  BY IInvParts
<1>1. write[s].stage = "answered" /\ Open(write[s]) /\ End(s, v) /\ ~IsCurrent(tab, write[s])
  BY DEF SettleDeparted, Replied, Open
<1>2. tab.active # s /\ \A r \in tab.reads : r.by # s
  BY <1>1, CurrentLease
<1>3. /\ PageOK(u) /\ Exclusive(u) /\ Linked(u, [write EXCEPT ![s] = Idle])
      /\ Awake(u) /\ OwnOpen(u, [write EXCEPT ![s] = Idle])
      /\ u.gen = tab.gen /\ u.highest = tab.highest /\ IsTab(u)
  BY <1>0, <1>1, <1>2, IInvParts, ReleasedOK
<1> HIDE DEF u
<1>4. IsTab(v) /\ Alike(u, v)
  BY <1>3, InvalidateAlike, DepartedAlike
<1> HIDE DEF v
<1>5. /\ PageOK(v) /\ Exclusive(v) /\ Linked(v, [write EXCEPT ![s] = Idle])
      /\ Awake(v) /\ OwnOpen(v, [write EXCEPT ![s] = Idle])
  BY <1>3, <1>4, AlikeOK, AlikeAwake
<1>6. Sound(tab', write') /\ DOMAIN write' = Slots /\ Ahead(v, tab') /\ tab'.gen = v.gen
  BY <1>0, <1>1, <1>5, EndOK
<1> QED
  BY <1>3, <1>4, <1>6 DEF Good, Ahead, Alike, Kept, Unmoved

\* When the page may be written again as soon as the lease ends.
Reusable(t, w, phase, reread) ==
    phase = "idle" =>
        /\ t.rev # None
        /\ w.reply.kind = "accepted" => w.reply.rev <= t.rev
        /\ Dirties(w.reply) => reread

\* The end of the lease, and what its caller does then.
LEMMA FinallyGood ==
    ASSUME Distinct, NEW s \in Slots, NEW t, IsWrite(write[s]),
           PageOK(t), Exclusive(t), Linked(t, write), t.active = s,
           write[s].stage # "sent", \A r \in t.reads : r.by # s,
           NEW phase \in Phases, NEW reread \in BOOLEAN, Reusable(t, write[s], phase, reread),
           Awake(t), OwnOpen(t, write), Calm(t) => phase = "idle" \/ t.gate # None,
           NEW wr, \A q \in Slots : q # s => wr[q] = write[q], wr[s] = Idle,
           NEW u, u = Finally(Unleased(t, phase), s, write[s], reread)
    PROVE  /\ PageOK(u) /\ Exclusive(u) /\ Linked(u, wr) /\ u.gen = t.gen /\ u.highest = t.highest
           /\ Awake(u) /\ OwnOpen(u, wr)
<1>1. /\ PageOK(u) /\ Exclusive(u) /\ Linked(u, wr) /\ u.gen = t.gen /\ u.highest = t.highest
      /\ Freed(t, u, s, phase)
  BY FinallyOK DEF Reusable
<1>2. Awake(u) /\ OwnOpen(u, wr)
  <2>1. PICK x : x = u
    OBVIOUS
  <2>2. Freed(t, x, s, phase)
    BY <1>1, <2>1
  <2>3. Awake(x) /\ OwnOpen(x, wr)
    BY ONLY Distinct, PageOK(t), s \in Slots, t.active = s, Awake(t), OwnOpen(t, write),
      \A q \in Slots : q # s => wr[q] = write[q], Calm(t) => phase = "idle" \/ t.gate # None,
      <2>2, FreedAwake
  <2> QED
    BY <2>1, <2>3
<1> QED
  BY <1>1, <1>2

LEMMA Given ==
    ASSUME DOMAIN write = Slots, NEW s \in Slots, NEW wr, wr = [write EXCEPT ![s] = Idle]
    PROVE  wr[s] = Idle /\ \A q \in Slots : q # s => wr[q] = write[q]
OBVIOUS

LEMMA RejectedGood ==
    ASSUME Distinct, IInv, NEW s \in Slots, SettleRejected(s) PROVE Good
<1> DEFINE w == write[s]
           u == Finally(Unleased(tab, "idle"), s, w, FALSE)
<1>0. /\ PageOK(tab) /\ Exclusive(tab) /\ Linked(tab, write) /\ WritesOK(write)
      /\ DOMAIN write = Slots /\ DaysOK /\ IsTab(tab)
  BY IInvParts
<1>1. w.stage = "answered" /\ Open(w) /\ w.reply.kind = "rejected" /\ IsCurrent(tab, w)
  BY DEF SettleRejected, Replied, Open
<1>2. tab.active = s /\ \A r \in tab.reads : r.by # s
  BY <1>1, CurrentLease
<1>3. u = Release(Unleased(tab, "idle"), s, w)
  BY <1>1 DEF Finally, Settlement
<1>4. Reusable(tab, w, "idle", FALSE) /\ "idle" \in Phases
  BY <1>0, <1>1, <1>2 DEF Linked, LeaseLinked, Dirties, Settlement, Phases, Distinct, Reusable
<1>5. End(s, u) \/ Finish(s, u, w, FALSE)
  BY <1>3 DEF SettleRejected
<1>6. /\ PageOK(u) /\ Exclusive(u) /\ Linked(u, [write EXCEPT ![s] = Idle])
      /\ Awake(u) /\ OwnOpen(u, [write EXCEPT ![s] = Idle])
      /\ u.gen = tab.gen /\ u.highest = tab.highest
  <2> DEFINE wr == [write EXCEPT ![s] = Idle]
  <2>0. PICK phase \in Phases, reread \in BOOLEAN : phase = "idle" /\ reread = FALSE
    BY <1>4
  <2>1. u = Finally(Unleased(tab, phase), s, write[s], reread) /\ Reusable(tab, write[s], phase, reread)
    BY <1>4, <2>0
  <2>2. IsWrite(write[s]) /\ write[s].stage # "sent"
    BY <1>0, <1>1 DEF WritesOK
  <2>3. wr[s] = Idle /\ \A q \in Slots : q # s => wr[q] = write[q]
    BY <1>0, Given
  <2> HIDE DEF u, w, wr
  <2>4. /\ PageOK(u) /\ Exclusive(u) /\ Linked(u, wr) /\ u.gen = tab.gen /\ u.highest = tab.highest
        /\ Awake(u) /\ OwnOpen(u, wr)
    BY <1>0, <1>2, <2>0, IInvParts, <2>1, <2>2, <2>3, FinallyGood
  <2> QED
    BY <2>4 DEF wr
<1> HIDE DEF u, w
<1>7. Sound(tab', write') /\ DOMAIN write' = Slots /\ Ahead(u, tab') /\ tab'.gen = u.gen
  BY <1>0, <1>5, <1>6, EndOK, FinishOK
<1> QED
  BY <1>6, <1>7 DEF Good, Ahead

LEMMA AcceptedGood ==
    ASSUME Distinct, IInv, NEW s \in Slots, SettleAccepted(s) PROVE Good
<1> DEFINE w == write[s]
           t == Accepted(tab, w)
           u == Finally(Unleased(t, "idle"), s, w, FALSE)
<1>0. /\ PageOK(tab) /\ Exclusive(tab) /\ Linked(tab, write) /\ WritesOK(write) /\ IsWrite(w)
      /\ DOMAIN write = Slots /\ DaysOK /\ IsTab(tab) /\ tab.highest \in Int
  BY IInvParts
<1>1. /\ w.stage = "answered" /\ Open(w) /\ w.reply.kind = "accepted" /\ IsCurrent(tab, w)
      /\ Accepts(tab, w) /\ Finish(s, u, w, TRUE)
  BY DEF SettleAccepted, Replied, Open
<1>2. tab.active = s /\ \A r \in tab.reads : r.by # s
  BY <1>1, CurrentLease
<1>3. /\ PageOK(t) /\ Exclusive(t) /\ Linked(t, write) /\ t.active = s
      /\ t.rev = w.reply.rev /\ t.rev \in Nat
      /\ t.highest >= tab.highest /\ t.gen = tab.gen /\ t.reads = tab.reads /\ t.highest \in Int
      /\ Attended(t, write) /\ Awake(t) /\ OwnOpen(t, write)
  <2> HIDE DEF t
  <2>1. t = Accepted(tab, write[s])
    BY DEF t
  <2>2. /\ PageOK(t) /\ Exclusive(t) /\ Linked(t, write) /\ t.active = s
        /\ t.rev = w.reply.rev /\ t.rev \in Nat /\ t.highest >= tab.highest
        /\ Unmoved(tab, t) /\ t.reads = tab.reads /\ t.handoff = tab.handoff /\ t.gate = tab.gate
    BY <1>0, <1>1, <1>2, <2>1, AcceptedOK
  <2>3. Attended(t, write)
    BY <1>0, <1>2, <2>2, IInvParts, HolderAwake DEF Distinct
  <2> QED
    BY <2>2, <2>3 DEF Unmoved, PageOK, PageShape, IsTab, Attended
<1>4. Reusable(t, w, "idle", FALSE) /\ "idle" \in Phases
  BY <1>1, <1>3 DEF Dirties, Settlement, Phases, Distinct, Reusable
<1> HIDE DEF t
<1>5. /\ PageOK(u) /\ Exclusive(u) /\ Linked(u, [write EXCEPT ![s] = Idle])
      /\ Awake(u) /\ OwnOpen(u, [write EXCEPT ![s] = Idle])
      /\ u.gen = t.gen /\ u.highest = t.highest
  <2> DEFINE wr == [write EXCEPT ![s] = Idle]
  <2>0. PICK phase \in Phases, reread \in BOOLEAN : phase = "idle" /\ reread = FALSE
    BY <1>4
  <2>1. u = Finally(Unleased(t, phase), s, write[s], reread) /\ Reusable(t, write[s], phase, reread)
    BY <1>4, <2>0
  <2>2. IsWrite(write[s]) /\ write[s].stage # "sent"
    BY <1>0, <1>1 DEF WritesOK
  <2>3. wr[s] = Idle /\ \A q \in Slots : q # s => wr[q] = write[q]
    BY <1>0, Given
  <2> HIDE DEF u, w, wr
  <2>4. /\ PageOK(u) /\ Exclusive(u) /\ Linked(u, wr) /\ u.gen = t.gen /\ u.highest = t.highest
        /\ Awake(u) /\ OwnOpen(u, wr)
    BY <1>0, <1>2, <1>3, <2>0, <2>1, <2>2, <2>3, FinallyGood
  <2> QED
    BY <2>4 DEF wr
<1> HIDE DEF u, w
<1>6. Sound(tab', write') /\ DOMAIN write' = Slots /\ Ahead(u, tab') /\ tab'.gen = u.gen
  BY <1>0, <1>1, <1>5, FinishOK
<1>7. tab'.highest \in Int
  BY <1>6 DEF Sound, PageOK, PageShape, IsTab
<1> QED
  BY <1>0, <1>3, <1>5, <1>6, <1>7 DEF Good, Ahead

-----------------------------------------------------------------------------
(* Reloads under a lease *)

\* What a page must be to reload its day while it keeps the lease.
Reloadable(t, w, stage) ==
    /\ w.stage = "answered" /\ w.gen = t.gen /\ w.date = t.date /\ stage \in {"reading", "reviewing"}
    /\ stage = "reviewing" => t.rev # None /\ w.reply.kind = "accepted"
    /\ w.reply.kind = "accepted" => w.reply.rev <= t.highest

LEMMA ReloadGood ==
    ASSUME Distinct, IInv, NEW s \in Slots, NEW t, NEW stage,
           PageOK(t), Exclusive(t), t.active = s, Reloadable(t, write[s], stage),
           t.gen = tab.gen, t.date = tab.date, t.live = tab.live, t.chain = tab.chain,
           t.pending = tab.pending, t.reads = tab.reads, t.highest >= tab.highest,
           Attended(t, write), t.highest <= Revision(t.date),
           write' = [write EXCEPT ![s].stage = stage], tab' = Asking(t, s)
    PROVE  Good
<1>0. /\ Linked(tab, write) /\ WritesOK(write) /\ DOMAIN write = Slots /\ DaysOK /\ IsTab(tab)
      /\ IsWrite(write[s]) /\ IsTab(t) /\ s # None
  BY IInvParts DEF PageOK, PageShape, Distinct
<1>1. /\ IsTab(tab') /\ Unmoved(t, tab') /\ tab'.rev = t.rev /\ tab'.highest = t.highest
      /\ tab'.reads = tab.reads \union {[by |-> s, gen |-> t.gen, date |-> t.date,
                                         from |-> Revision(t.date)]}
  BY <1>0, AskingTab
<1>2. PageOK(tab') /\ Exclusive(tab')
  BY AskingOK
<1>3. /\ DOMAIN write[s] = WriteFields /\ write[s].date \in Dates /\ write[s].gen \in Nat
      /\ ReplyReal(write[s]) /\ write[s].stage = "answered" /\ Open(write[s])
      /\ stage \in {"reading", "reviewing"}
  BY <1>0 DEF Reloadable, IsWrite, Open
<1>4. /\ DOMAIN write' = Slots /\ \A q \in Slots : q # s => write'[q] = write[q]
      /\ DOMAIN write'[s] = WriteFields /\ write'[s].stage = stage
      /\ write'[s].date = write[s].date /\ write'[s].gen = write[s].gen
      /\ write'[s].reply = write[s].reply
  BY <1>0, <1>3 DEF WriteFields
<1>5. WritesOK(write')
  <2>1. IsWrite(write'[s])
    BY <1>3, <1>4 DEF IsWrite, Open, Stages, ReplyReal
  <2> QED
    BY <1>0, <1>4, <2>1 DEF WritesOK
<1>6. LeaseLinked(tab', write')
  BY <1>1, <1>3, <1>4 DEF LeaseLinked, Reloadable, Open, Unmoved
<1>7. OneLease(tab', write')
  BY <1>0, <1>1, <1>3, <1>4 DEF OneLease, Linked, Open, Unmoved, Reloadable
<1>8. TicketsLinked(tab', write')
  BY <1>0, <1>1, <1>3, <1>4 DEF TicketsLinked, Linked, Open, Unmoved, IsTab
<1>9. ChainLinked(tab', write')
  BY <1>0, <1>1, <1>3, <1>4 DEF ChainLinked, Linked, Unmoved
<1>10. ReadsLinked(tab', write')
  <2>1. \A r \in tab.reads : r.by # s
    BY <1>0, <1>3 DEF Linked, ReadsLinked
  <2>2. ASSUME NEW r \in tab.reads
        PROVE  /\ r.date \in Dates /\ r.from \in 0 .. Revision(r.date) /\ r.gen \in Nat
               /\ r.gen <= tab.gen /\ (r.gen = tab.gen => r.date = tab.date)
               /\ r.by \in Slots =>
                     /\ write'[r.by].stage \in {"reading", "reviewing"} /\ write'[r.by].gen = r.gen
                     /\ \A q \in tab'.reads : q.by = r.by => q = r
    BY <1>0, <1>1, <1>4, <2>1 DEF Linked, ReadsLinked
  <2> DEFINE n == [by |-> s, gen |-> t.gen, date |-> t.date, from |-> Revision(t.date)]
  <2>3. /\ n.date \in Dates /\ n.from \in 0 .. Revision(n.date) /\ n.gen \in Nat
        /\ n.gen <= tab.gen /\ n.date = tab.date /\ n.by = s /\ n.gen = t.gen
    BY <1>0 DEF IsTab, DaysOK, Revision
  <2> HIDE DEF n
  <2>4. /\ write'[n.by].stage \in {"reading", "reviewing"} /\ write'[n.by].gen = n.gen
        /\ \A q \in tab'.reads : q.by = n.by => q = n
    BY <1>1, <1>3, <1>4, <2>1, <2>3 DEF n, Reloadable
  <2>5. \A r \in tab'.reads : r \in tab.reads \/ r = n
    BY <1>1 DEF n
  <2>6. tab'.gen = tab.gen /\ tab'.date = tab.date
    BY <1>1 DEF Unmoved
  <2> QED
    BY <2>2, <2>3, <2>4, <2>5, <2>6 DEF ReadsLinked
<1>11. Attended(tab', write')
  <2>1. Open(write'[s]) /\ write'[s].date = write[s].date
    BY <1>3, <1>4 DEF Open
  <2> QED
    BY <1>4, <2>1, ReloadAwake
<1> QED
  BY <1>1, <1>2, <1>4, <1>5, <1>6, <1>7, <1>8, <1>9, <1>10, <1>11 DEF Good, Sound, Linked, Ahead

LEMMA ReviewGood ==
    ASSUME Distinct, IInv, NEW s \in Slots, SettleReview(s) PROVE Good
<1> DEFINE w == write[s]
           a == Accepted(tab, w)
           t == [a EXCEPT !.phase = "synchronizing"]
<1>0. /\ PageOK(tab) /\ Exclusive(tab) /\ Linked(tab, write) /\ IsWrite(w) /\ IsTab(tab)
  BY IInvParts
<1>1. /\ w.stage = "answered" /\ Open(w) /\ w.reply.kind = "accepted" /\ IsCurrent(tab, w)
      /\ Accepts(tab, w)
      /\ write' = [write EXCEPT ![s].stage = "reviewing"] /\ tab' = Asking(t, s)
  BY DEF SettleReview, Replied, Open, Reload
<1>2. tab.active = s
  BY <1>1, CurrentLease
<1>3. a = Accepted(tab, write[s])
  OBVIOUS
<1> HIDE DEF a
<1>4. /\ PageOK(a) /\ Exclusive(a) /\ a.active = s
      /\ a.rev = w.reply.rev /\ a.highest = w.reply.rev /\ a.rev \in Nat
      /\ a.highest >= tab.highest /\ Unmoved(tab, a) /\ a.reads = tab.reads
      /\ a.handoff = tab.handoff /\ a.gate = tab.gate
  BY <1>0, <1>1, <1>2, <1>3, AcceptedOK
<1>5. /\ IsTab(t) /\ Unmoved(a, t) /\ t.phase = "synchronizing" /\ t.rev = a.rev /\ t.highest = a.highest
      /\ t.blocks = a.blocks /\ t.dirty = a.dirty /\ t.handoff = a.handoff /\ t.gate = a.gate
      /\ t.reads = a.reads
  BY <1>4 DEF PageOK, PageShape, IsTab, Fields, Unmoved, Phases
<1> HIDE DEF t
<1>6. PageOK(t) /\ Exclusive(t)
  BY <1>4, <1>5 DEF PageOK, PageShape, PropsReal, ShownReal, LeaseOwned, OwnWritesShown, Editable,
                    Waiting, Exclusive, Unmoved
<1>7. Reloadable(t, w, "reviewing")
  <2>1. t.rev # None /\ w.reply.rev <= t.highest
    <3>1. w.reply.rev \in Nat /\ t.highest = w.reply.rev /\ t.rev = w.reply.rev
      BY <1>4, <1>5
    <3> QED
      BY <3>1 DEF Distinct
  <2>2. w.gen = t.gen /\ w.date = t.date
    BY <1>1, <1>4, <1>5 DEF IsCurrent, Unmoved
  <2> QED
    BY <1>1, <2>1, <2>2 DEF Reloadable
<1>8. /\ t.gen = tab.gen /\ t.date = tab.date /\ t.live = tab.live /\ t.chain = tab.chain
      /\ t.pending = tab.pending /\ t.reads = tab.reads /\ t.highest >= tab.highest /\ t.active = s
  BY <1>4, <1>5 DEF Unmoved
<1>9. PICK stage : stage = "reviewing"
  OBVIOUS
<1>10. Attended(t, write) /\ t.highest <= Revision(t.date)
  <2>1. Unmoved(tab, t) /\ t.rev # None
    BY <1>4, <1>5 DEF Unmoved, Distinct
  <2>2. Attended(t, write)
    BY <1>0, <1>2, <1>4, <1>5, <2>1, IInvParts, HolderAwake DEF Distinct
  <2> QED
    BY <1>6, <2>1, <2>2 DEF PageOK, PageShape, ShownReal
<1> QED
  BY <1>1, <1>6, <1>7, <1>8, <1>9, <1>10, ReloadGood

LEMMA UncertainGood ==
    ASSUME Distinct, IInv, NEW s \in Slots, SettleUncertain(s) PROVE Good
<1> DEFINE w == write[s]
           phase == IF w.reply.kind = "conflict" THEN "conflict" ELSE "synchronizing"
           a == [tab EXCEPT !.rev = None, !.phase = phase]
           t == InvalidateHistory(a, w.date)
<1>0. /\ PageOK(tab) /\ Exclusive(tab) /\ Linked(tab, write) /\ IsWrite(w) /\ IsTab(tab)
      /\ tab.highest \in Int
  BY IInvParts
<1>1. /\ w.stage = "answered" /\ Open(w) /\ IsCurrent(tab, w) /\ ~Accepts(tab, w)
      /\ write' = [write EXCEPT ![s].stage = "reading"] /\ tab' = Asking(t, s)
  BY DEF SettleUncertain, Replied, Open, Reload
<1>2. tab.active = s
  BY <1>1, CurrentLease
<1>3. w.reply.kind = "accepted" => w.reply.rev <= tab.highest
  <2>1. SUFFICES ASSUME w.reply.kind = "accepted" PROVE w.reply.rev <= tab.highest
    OBVIOUS
  <2>2. w.reply.rev \in Int
    BY <1>0, <1>1, <2>1 DEF IsWrite, ReplyReal
  <2>3. ~Fresh([tab EXCEPT !.props = w.reply])
    BY <1>1, <2>1 DEF Accepts
  <2>4. [tab EXCEPT !.props = w.reply].props = w.reply /\ [tab EXCEPT !.props = w.reply].highest = tab.highest
    BY <1>0 DEF IsTab, Fields
  <2>5. ~(w.reply.rev >= tab.highest)
    BY <2>3, <2>4 DEF Fresh
  <2> QED
    BY <1>0, <2>2, <2>5
<1>4. /\ IsTab(a) /\ Unmoved(tab, a) /\ a.phase # "idle" /\ a.rev = None /\ a.highest = tab.highest
      /\ a.dirty = tab.dirty /\ a.handoff = tab.handoff /\ a.gate = tab.gate /\ a.reads = tab.reads
  BY <1>0 DEF IsTab, Fields, Unmoved, Phases
<1> HIDE DEF a
<1>5. IsTab(t) /\ Alike(a, t)
  BY <1>4, InvalidateAlike
<1> HIDE DEF t
<1>6. PageOK(a) /\ Exclusive(a)
  BY <1>0, <1>4 DEF PageOK, PageShape, PropsReal, ShownReal, LeaseOwned, OwnWritesShown, Editable,
                    Waiting, Exclusive, Unmoved
<1>7. PageOK(t) /\ Exclusive(t)
  BY <1>5, <1>6, AlikeOK
<1>8. /\ t.gen = tab.gen /\ t.date = tab.date /\ t.live = tab.live /\ t.chain = tab.chain
      /\ t.pending = tab.pending /\ t.reads = tab.reads /\ t.highest = tab.highest /\ t.active = s
  BY <1>2, <1>4, <1>5 DEF Unmoved, Alike, Kept
<1>9. PICK stage : stage = "reading"
  OBVIOUS
<1>10. Reloadable(t, w, stage) /\ t.highest >= tab.highest
  BY <1>0, <1>1, <1>3, <1>8, <1>9 DEF Reloadable, IsCurrent
<1>11. Attended(t, write) /\ t.highest <= Revision(t.date)
  <2>1. tab.rev # None /\ \A r \in tab.reads : r.by # s
    BY <1>0, <1>1, <1>2, CurrentLease DEF Linked, LeaseLinked, Distinct
  <2>2. Attended(a, write)
    BY <1>0, <1>2, <1>4, <2>1, IInvParts, HolderAwake DEF Distinct
  <2>3. Attended(t, write)
    BY <1>5, <2>2, AlikeAwake
  <2> QED
    BY <1>0, <1>8, <2>1, <2>3 DEF PageOK, PageShape, ShownReal
<1> QED
  BY <1>1, <1>7, <1>8, <1>9, <1>10, <1>11, ReloadGood

-----------------------------------------------------------------------------
(* Reads that end *)

LEMMA ReadAt ==
    ASSUME DaysOK, NEW d \in Dates, NEW from \in 0 .. Revision(d), NEW snapshot \in Snapshots(d, from)
    PROVE  Real(snapshot) /\ snapshot.date = d /\ from <= snapshot.rev
<1>1. PICK r \in from .. Revision(d) : snapshot = [date |-> d, rev |-> r, blocks |-> day[d][r + 1]]
  BY DEF Snapshots
<1>2. r \in 0 .. Revision(d)
  BY DEF DaysOK, Revision
<1> QED
  BY <1>1, <1>2 DEF Real

\* A tab without one of its reloads.
LEMMA WithoutRead ==
    ASSUME IInv, NEW r \in tab.reads, NEW t, IsTab(t),
           t.reads = tab.reads \ {r}, Requeued([tab EXCEPT !.reads = t.reads], t), t.chain = tab.chain,
           t.own = tab.own, Calm(t) => Calm(tab)
    PROVE  /\ PageOK(t) /\ Exclusive(t) /\ Linked(t, write) /\ t.gen = tab.gen /\ t.date = tab.date
           /\ t.live = tab.live /\ t.active = tab.active /\ t.highest = tab.highest
           /\ t.handoff = tab.handoff /\ t.gate = tab.gate /\ t.rev = tab.rev
           /\ Minded(t, tab.reads) /\ OwnOpen(t, write) /\ (Calm(t) => Rested(t, write))
<1>0. PageOK(tab) /\ Exclusive(tab) /\ Linked(tab, write) /\ IsTab(tab)
  BY IInvParts
<1> DEFINE v == [tab EXCEPT !.reads = t.reads]
<1>1. /\ v.floor = tab.floor /\ v.pending = tab.pending /\ v.props = tab.props /\ v.dirty = tab.dirty
      /\ v.date = tab.date /\ v.gen = tab.gen /\ v.live = tab.live /\ v.active = tab.active
      /\ v.barrier = tab.barrier /\ v.handoff = tab.handoff /\ v.gate = tab.gate
      /\ v.rev = tab.rev /\ v.blocks = tab.blocks /\ v.highest = tab.highest /\ v.phase = tab.phase
  BY <1>0 DEF IsTab, Fields
<1> HIDE DEF v
<1>2. /\ t.floor = tab.floor /\ t.pending = tab.pending /\ t.props = tab.props /\ t.dirty = tab.dirty
      /\ t.date = tab.date /\ t.gen = tab.gen /\ t.live = tab.live /\ t.active = tab.active
      /\ t.barrier = tab.barrier /\ t.handoff = tab.handoff /\ t.gate = tab.gate
      /\ t.rev = tab.rev /\ t.blocks = tab.blocks /\ t.highest = tab.highest /\ t.phase = tab.phase
  <2>1. Requeued(v, t)
    BY DEF v
  <2> QED
    BY <1>1, <2>1 DEF Requeued
<1>3. PageOK(t) /\ Exclusive(t)
  BY <1>0, <1>2 DEF PageOK, PageShape, PropsReal, ShownReal, LeaseOwned, OwnWritesShown, Editable,
                    Waiting, Exclusive
<1>4. Linked(t, write)
  BY <1>0, <1>2 DEF Linked, LeaseLinked, OneLease, TicketsLinked, ReadsLinked, ChainLinked
<1>5. Attended(tab, write)
  BY IInvParts
<1>6. Tended(tab) => Tended(t)
  BY <1>2 DEF Tended, Undisturbed, Expected, Cleared, Outstanding, Settled, UpToDate
<1>7. Minded(t, tab.reads) /\ OwnOpen(t, write) /\ (Calm(t) => Rested(t, write))
  BY <1>2, <1>5, <1>6 DEF Attended, Awake, Minded, TasksHeard, LeaseHeard, OwnOpen, Rested
<1> QED
  BY <1>2, <1>3, <1>4, <1>7

\* A reload of a write that ends, on the page that still holds the lease.
LEMMA AfterReloadOK ==
    ASSUME Distinct, IInv, NEW s \in Slots, NEW t, PageOK(t), Exclusive(t), Linked(t, write),
           t.active = s, write[s].stage \in {"reading", "reviewing"}, \A q \in t.reads : q.by # s,
           Awake(t), OwnOpen(t, write), NEW ok \in BOOLEAN,
           Calm(t) => (ok /\ t.rev # None) \/ t.gate # None, AfterReload(s, t, write[s], ok)
    PROVE  Sound(tab', write') /\ DOMAIN write' = Slots /\ Ahead(t, tab') /\ tab'.gen = t.gen
<1> DEFINE w == write[s]
           wr == [write EXCEPT ![s] = Idle]
<1>0. /\ WritesOK(write) /\ IsWrite(w) /\ DOMAIN write = Slots /\ DaysOK /\ IsTab(t) /\ Open(w)
      /\ w.stage # "sent" /\ s # None /\ (t.rev # None => t.rev = t.highest) /\ t.highest \in Int
  BY IInvParts DEF Open, PageOK, PageShape, Distinct, ShownReal, IsTab
<1>1. wr[s] = Idle /\ \A q \in Slots : q # s => wr[q] = write[q]
  BY <1>0, Given
<1>2. w.reply.kind = "accepted" => w.reply.rev <= t.highest
  BY <1>0 DEF Linked, LeaseLinked
<1>3. PICK reread \in BOOLEAN : reread = (ok /\ t.rev # None)
  OBVIOUS
<1>4. CASE w.stage = "reviewing"
  <2>1. PICK phase \in Phases : phase = "idle"
    BY DEF Phases
  <2> DEFINE u == Finally(Unleased(t, phase), s, write[s], reread)
  <2>2. t.rev # None /\ w.reply.kind = "accepted"
    BY <1>0, <1>4 DEF Linked, LeaseLinked
  <2>3. Reusable(t, write[s], phase, reread)
    BY <1>0, <1>2, <2>2 DEF Reusable, Dirties, Settlement
  <2>4. \E confirmed \in BOOLEAN : Finish(s, u, w, confirmed)
    <3>1. (t.rev = w.reply.rev /\ t.blocks = w.reply.blocks) \in BOOLEAN
      OBVIOUS
    <3> QED
      BY <1>3, <1>4, <2>1, <3>1 DEF AfterReload
  <2> HIDE DEF u, wr
  <2>5. u = Finally(Unleased(t, phase), s, write[s], reread)
    BY DEF u
  <2>6. /\ PageOK(u) /\ Exclusive(u) /\ Linked(u, wr) /\ u.gen = t.gen /\ u.highest = t.highest
        /\ Awake(u) /\ OwnOpen(u, wr)
    BY <1>0, <1>1, <2>1, <2>3, <2>5, FinallyGood
  <2>7. Sound(tab', write') /\ DOMAIN write' = Slots /\ Ahead(u, tab') /\ tab'.gen = u.gen
    BY <1>0, <2>4, <2>6, FinishOK DEF wr
  <2> QED
    BY <2>6, <2>7 DEF Ahead
<1>5. CASE w.stage = "reading"
  <2>1. PICK phase \in Phases : phase = IF ok /\ t.rev # None THEN "idle"
                                        ELSE IF w.reply.kind = "conflict" THEN "conflict"
                                        ELSE "synchronizing"
    BY DEF Phases
  <2> DEFINE u == Finally(Unleased(t, phase), s, write[s], reread)
  <2>3. Reusable(t, write[s], phase, reread)
    BY <1>0, <1>2, <1>3, <2>1 DEF Reusable
  <2>4. \E x : \E confirmed \in BOOLEAN : Finish(s, u, x, confirmed)
    BY <1>3, <1>5, <2>1 DEF AfterReload
  <2> HIDE DEF u, wr
  <2>5. u = Finally(Unleased(t, phase), s, write[s], reread)
    BY DEF u
  <2>6. /\ PageOK(u) /\ Exclusive(u) /\ Linked(u, wr) /\ u.gen = t.gen /\ u.highest = t.highest
        /\ Awake(u) /\ OwnOpen(u, wr)
    BY <1>0, <1>1, <2>1, <2>3, <2>5, FinallyGood
  <2>7. Sound(tab', write') /\ DOMAIN write' = Slots /\ Ahead(u, tab') /\ tab'.gen = u.gen
    BY <1>0, <2>4, <2>6, FinishOK DEF wr
  <2> QED
    BY <2>6, <2>7 DEF Ahead
<1> QED
  BY <1>4, <1>5

LEMMA ReconciledOK ==
    ASSUME Distinct, NEW t, PageOK(t), Exclusive(t), NEW wr, Linked(t, wr), WritesOK(wr),
           t.active # None, NEW ok, NEW u, u = Reconciled(t, ok)
    PROVE  /\ PageOK(u) /\ Exclusive(u) /\ Linked(u, wr)
           /\ u.gen = t.gen /\ u.active = t.active /\ u.reads = t.reads /\ u.highest >= t.highest
<1>0. IsTab(t) /\ PropsReal(t) /\ ShownReal(t) /\ OwnWritesShown(t) /\ PageShape(t) /\ t.highest \in Int
  BY DEF PageOK, PageShape, IsTab
<1>1. CASE ~ok
  BY <1>0, <1>1 DEF Reconciled
<1>2. CASE ok
  <2>1. PICK auth \in BOOLEAN : auth = FALSE /\ u = Ingest(t, auth)
    BY <1>2 DEF Reconciled
  <2>2. Covered(t)
    BY DEF Covered
  <2>3. PageOK(u)
    BY <1>0, <2>1, <2>2, IngestOK
  <2>4. IsTab(u) /\ Kept(t, u) /\ Later(t, u)
    BY <1>0, <2>1, IngestTab, IngestLater
  <2>5. Exclusive(u)
    <3>1. CASE CanIngest(t, auth)
      BY <2>1, <2>4, <3>1 DEF CanIngest, Exclusive, Kept
    <3>2. CASE ~CanIngest(t, auth)
      BY <2>1, <3>2 DEF Ingest
    <3> QED
      BY <3>1, <3>2
  <2>6. Linked(u, wr)
    BY <1>0, <2>4, OnwardLinked DEF Onward, Kept, Unmoved, WritesOK
  <2> QED
    BY <2>3, <2>4, <2>5, <2>6 DEF Kept, Unmoved, Later
<1> QED
  BY <1>1, <1>2

\* What a reload finds when it ends.
Found(r, t, ok) ==
    /\ PageOK(t) /\ Exclusive(t) /\ Linked(t, write)
    /\ t.reads = tab.reads \ {r} /\ t.gen = tab.gen /\ t.date = tab.date
    /\ t.highest >= tab.highest
    /\ ok /\ r.date = t.date => Covered(t)
    /\ Minded(t, tab.reads) /\ OwnOpen(t, write)
    /\ ReadCurrent(t, r) /\ Calm(t) =>
          ok /\ (r.by \in Slots /\ r.by = t.active => t.rev # None \/ t.gate # None)

LEMMA WriteReadGood ==
    ASSUME Distinct, IInv, NEW r \in tab.reads, r.by \in Slots, NEW ok \in BOOLEAN, NEW t, Found(r, t, ok),
           ReadEnds(t, r, ok)
    PROVE  Good
<1> DEFINE s == r.by
<1>0. /\ Linked(tab, write) /\ WritesOK(write) /\ DOMAIN write = Slots /\ DaysOK /\ IsTab(tab)
      /\ PageOK(t) /\ Exclusive(t) /\ Linked(t, write) /\ IsTab(t) /\ s \in Slots /\ s # None
      /\ t.gen = tab.gen /\ tab.highest \in Int /\ t.highest \in Int /\ t.highest >= tab.highest
  BY IInvParts DEF Found, PageOK, PageShape, IsTab, Distinct
<1>1. /\ write[s].stage \in {"reading", "reviewing"} /\ write[s].gen = r.gen
      /\ \A q \in t.reads : q.by # s
  BY <1>0 DEF Linked, ReadsLinked, Found
<1>2. Open(write[s]) /\ write[s].stage # "sent"
  BY <1>1 DEF Open
<1>3. /\ Minded(t, tab.reads) /\ OwnOpen(t, write) /\ t.reads = tab.reads \ {r}
      /\ \A u : Minded(u, tab.reads) /\ u.reads = t.reads => Awake(u)
  BY DEF Found, Awake, Minded, TasksHeard, Distinct
<1>4. CASE ReadCurrent(t, r)
  <2>1. t.active = s
    BY <1>0, <1>1, <1>2, <1>4 DEF ReadCurrent, Linked, OneLease
  <2> DEFINE u == Reconciled(t, ok)
  <2>2. AfterReload(s, u, write[s], ok)
    BY <1>4 DEF ReadEnds
  <2>3. /\ PageOK(u) /\ Exclusive(u) /\ Linked(u, write)
        /\ u.gen = t.gen /\ u.active = t.active /\ u.reads = t.reads /\ u.highest >= t.highest
    BY <1>0, <2>1, ReconciledOK
  <2>6. /\ Minded(u, tab.reads) /\ OwnOpen(u, write) /\ (Calm(u) => Calm(t))
        /\ t.rev # None \/ t.gate # None => u.rev # None \/ u.gate # None
    BY <1>0, <1>3, <2>1, ReconciledAwake
  <2>7. Calm(u) => (ok /\ u.rev # None) \/ u.gate # None
    <3>1. Calm(t) => ok /\ (t.rev # None \/ t.gate # None)
      BY <1>0, <1>4, <2>1 DEF Found
    <3> QED
      BY <2>6, <3>1
  <2>8. Awake(u)
    <3>1. PICK x : x = u
      OBVIOUS
    <3>2. Minded(x, tab.reads) /\ x.reads = t.reads
      BY <2>3, <2>6, <3>1
    <3> QED
      BY <1>3, <3>1, <3>2
  <2> HIDE DEF u, s
  <2>4. Sound(tab', write') /\ DOMAIN write' = Slots /\ Ahead(u, tab') /\ tab'.gen = u.gen
    <3>1. u.active = s /\ \A q \in u.reads : q.by # s
      BY <1>1, <2>1, <2>3
    <3>2. Sound(tab', write') /\ DOMAIN write' = Slots /\ Ahead(u, tab') /\ tab'.gen = u.gen
      BY ONLY Distinct, IInv, ok \in BOOLEAN, <1>0, <1>1, <2>2, <2>3, <2>6, <2>7, <2>8, <3>1, AfterReloadOK
    <3> QED
      BY <3>2
  <2>5. tab'.highest \in Int /\ u.highest \in Int
    BY <2>3, <2>4 DEF Sound, PageOK, PageShape, IsTab
  <2> QED
    BY <1>0, <2>3, <2>4, <2>5 DEF Good, Ahead
<1>5. CASE ~ReadCurrent(t, r)
  <2>1. t.active # s
    BY <1>0, <1>1, <1>5 DEF ReadCurrent, Linked, LeaseLinked, PageOK, PageShape, LeaseOwned
  <2> DEFINE u == Release(t, s, write[s])
             v == Departed(u, write[s])
  <2>2. End(s, v)
    BY <1>5 DEF ReadEnds
  <2>3. /\ PageOK(u) /\ Exclusive(u) /\ Linked(u, [write EXCEPT ![s] = Idle])
        /\ Awake(u) /\ OwnOpen(u, [write EXCEPT ![s] = Idle])
        /\ u.gen = t.gen /\ u.highest = t.highest /\ IsTab(u)
    BY <1>0, <1>1, <1>2, <1>3, <2>1, ReleasedOK
  <2> HIDE DEF u
  <2>4. IsTab(v) /\ Alike(u, v)
    BY <2>3, DepartedAlike
  <2> HIDE DEF v
  <2>5. /\ PageOK(v) /\ Exclusive(v) /\ Linked(v, [write EXCEPT ![s] = Idle])
        /\ Awake(v) /\ OwnOpen(v, [write EXCEPT ![s] = Idle])
    BY <2>3, <2>4, AlikeOK, AlikeAwake
  <2>6. Sound(tab', write') /\ DOMAIN write' = Slots /\ Ahead(v, tab') /\ tab'.gen = v.gen
    BY <1>0, <2>2, <2>5, EndOK
  <2>7. tab'.highest \in Int /\ v.highest = t.highest /\ v.gen = t.gen
    BY <2>3, <2>4, <2>6 DEF Sound, PageOK, PageShape, IsTab, Alike, Kept, Unmoved
  <2> QED
    BY <1>0, <2>6, <2>7 DEF Good, Ahead
<1> QED
  BY <1>4, <1>5

LEMMA TaskReadGood ==
    ASSUME Distinct, IInv, NEW r \in tab.reads, r.by \notin Slots, NEW ok \in BOOLEAN, NEW t, Found(r, t, ok),
           ReadEnds(t, r, ok)
    PROVE  Good
<1>0. /\ Linked(tab, write) /\ WritesOK(write) /\ DOMAIN write = Slots /\ DaysOK /\ IsTab(tab)
      /\ PageOK(t) /\ Exclusive(t) /\ Linked(t, write) /\ IsTab(t)
      /\ t.gen = tab.gen /\ t.date = tab.date
      /\ tab.highest \in Int /\ t.highest \in Int /\ t.highest >= tab.highest
  BY IInvParts DEF Found, PageOK, PageShape, IsTab
<1> DEFINE u == CASE ~ReadCurrent(t, r) -> t
                  [] ReadCurrent(t, r) /\ r.by = "handoff" /\ t.handoff = "reading" -> AfterHandoffRead(t, ok)
                  [] ReadCurrent(t, r) /\ r.by = "context" /\ t.gate = "reading" -> AfterContextRead(t, ok)
                  [] OTHER -> t
<1>1. write' = write /\ tab' = Resume(u)
  BY DEF ReadEnds
<1>2. Minded(t, tab.reads) /\ OwnOpen(t, write) /\ t.reads = tab.reads \ {r}
  BY DEF Found
<1>3. PageOK(u) /\ Exclusive(u) /\ Onward(t, u) /\ Awake(u) /\ OwnOpen(u, write)
  <2> DEFINE Missed == Calm(t) /\ r.gen = t.gen => /\ ~(r.by = "handoff" /\ t.handoff = "reading")
                                               /\ ~(r.by = "context" /\ t.gate = "reading")
  <2>1. CASE u = t /\ Missed
    <3>1. t.rev # None => t.rev = t.highest
      BY <1>0 DEF PageOK, PageShape, ShownReal
    <3> HIDE DEF u
    <3>2. Onward(t, u)
      BY <1>0, <2>1, <3>1 DEF Onward, Later
    <3> QED
      BY <1>0, <1>2, <2>1, <3>2, TaskAwake
  <2>2. CASE r.by = "handoff" /\ t.handoff = "reading" /\ u = AfterHandoffRead(t, ok)
    <3> HIDE DEF u
    <3>1. PageOK(u) /\ Exclusive(u) /\ Onward(t, u) /\ HandoffDone(t, u)
      BY <1>0, <2>2, HandoffReadOK
    <3> QED
      BY <1>0, <1>2, <2>2, <3>1, TaskAwake
  <2>3. CASE ReadCurrent(t, r) /\ r.by = "context" /\ t.gate = "reading" /\ u = AfterContextRead(t, ok)
    <3>1. ok => Covered(t)
      BY <1>0, <2>3 DEF Found, ReadCurrent, Linked, ReadsLinked
    <3> HIDE DEF u
    <3>2. PageOK(u) /\ Exclusive(u) /\ Onward(t, u) /\ ContextDone(t, u)
      BY <1>0, <2>3, <3>1, ContextReadOK
    <3> QED
      BY <1>0, <1>2, <2>3, <3>2, TaskAwake
  <2>4. \/ u = t /\ Missed
        \/ r.by = "handoff" /\ t.handoff = "reading" /\ u = AfterHandoffRead(t, ok)
        \/ ReadCurrent(t, r) /\ r.by = "context" /\ t.gate = "reading" /\ u = AfterContextRead(t, ok)
    BY DEF ReadCurrent, Calm
  <2> QED
    BY <2>1, <2>2, <2>3, <2>4
<1> HIDE DEF u
<1>4. IsTab(u) /\ Linked(u, write)
  BY <1>0, <1>3, OnwardLinked DEF PageOK, PageShape, WritesOK
<1>5. PageOK(tab') /\ Exclusive(tab') /\ Moved(u, tab')
  BY <1>1, <1>3, ResumeOK
<1>6. IsTab(tab') /\ tab'.highest \in Int /\ u.highest \in Int
  BY <1>4, <1>5 DEF PageOK, PageShape, IsTab
<1>7. Linked(tab', write')
  BY <1>0, <1>1, <1>4, <1>5, <1>6, MovedLinked DEF WritesOK
<1>8. Attended(tab', write')
  BY <1>1, <1>3, ResumeAwake
<1> QED
  BY <1>0, <1>1, <1>3, <1>5, <1>6, <1>7, <1>8 DEF Good, Sound, Ahead, Onward, Moved, Unmoved, Later

LEMMA ReadArrivesGood ==
    ASSUME Distinct, IInv, NEW r \in tab.reads, ReadArrives(r) PROVE Good
<1> DEFINE t == [tab EXCEPT !.reads = @ \ {r}]
<1>0. /\ Linked(tab, write) /\ WritesOK(write) /\ DaysOK /\ IsTab(tab) /\ tab.highest \in Int
  BY IInvParts
<1>1. PICK snapshot \in Snapshots(r.date, r.from) : ReadEnds(Delivered(t, r, snapshot), r, TRUE)
  BY DEF ReadArrives
<1>2. Real(snapshot) /\ snapshot.date = r.date /\ r.from <= snapshot.rev
  BY <1>0, <1>1, ReadAt DEF Linked, ReadsLinked
<1>3. /\ IsTab(t) /\ t.reads = tab.reads \ {r} /\ t.chain = tab.chain /\ t.own = tab.own
      /\ t.live = tab.live /\ t.failed = tab.failed
  BY <1>0 DEF IsTab, Fields
<1>4. Requeued([tab EXCEPT !.reads = t.reads], t)
  BY <1>0 DEF Requeued, IsTab, Fields
<1> HIDE DEF t
<1>5. /\ PageOK(t) /\ Exclusive(t) /\ Linked(t, write) /\ t.gen = tab.gen /\ t.date = tab.date
      /\ t.highest = tab.highest /\ t.active = tab.active /\ t.rev = tab.rev
      /\ Minded(t, tab.reads) /\ OwnOpen(t, write) /\ (Calm(t) => Rested(t, write))
  BY <1>3, <1>4, WithoutRead DEF Calm
<1> DEFINE u == Delivered(t, r, snapshot)
<1>6. PageOK(u) /\ Exclusive(u) /\ Linked(u, write) /\ Delivery(t, u) /\ (r.date = t.date => Covered(u))
  BY <1>0, <1>2, <1>5, DeliveredOK DEF WritesOK
<1>7. /\ Minded(u, tab.reads) /\ OwnOpen(u, write)
      /\ /\ Calm(u) /\ u.active # None /\ r.date = t.date
         /\ t.rev = None => t.highest <= snapshot.rev
         => u.rev # None \/ u.gate # None
  BY <1>2, <1>5, DeliveredAwake
<1>8. PICK ok \in BOOLEAN : ok = TRUE /\ ReadEnds(u, r, ok)
  BY <1>1
<1> HIDE DEF u
<1>9. ASSUME ReadCurrent(u, r), Calm(u), r.by \in Slots, r.by = u.active
       PROVE  u.rev # None \/ u.gate # None
  <2>1. Calm(tab) /\ u.active = tab.active /\ r.gen = tab.gen /\ u.active # None
    BY <1>3, <1>5, <1>6, <1>9 DEF Delivery, Calm, ReadCurrent, Distinct
  <2>2. r.date = t.date /\ r.from \in Int
    BY <1>0, <1>5, <2>1 DEF Linked, ReadsLinked, DaysOK, Revision
  <2>3. LeaseHeard(tab)
    BY <2>1, IInvParts DEF Awake, Minded
  <2>4. tab.rev = None => tab.highest <= r.from
    BY <1>9, <2>1, <2>3 DEF LeaseHeard
  <2>5. snapshot.rev \in Int
    BY <1>2 DEF Real
  <2> QED
    BY <1>0, <1>2, <1>5, <1>7, <1>9, <2>1, <2>2, <2>4, <2>5
<1>10. Found(r, u, ok)
  BY <1>3, <1>5, <1>6, <1>8, <1>7, <1>9 DEF Found, Delivery, Later
<1> QED
  BY <1>8, <1>10, WriteReadGood, TaskReadGood

LEMMA ReadFailsGood ==
    ASSUME Distinct, IInv, NEW r \in tab.reads, ReadFails(r) PROVE Good
<1> DEFINE t == [tab EXCEPT !.reads = @ \ {r}, !.failed = @ \/ ReadCurrent(tab, r)]
<1>0. /\ Linked(tab, write) /\ WritesOK(write) /\ DaysOK /\ IsTab(tab) /\ tab.highest \in Int
  BY IInvParts
<1>1. PICK ok \in BOOLEAN : ok = FALSE /\ ReadEnds(t, r, ok)
  BY DEF ReadFails
<1>2. /\ IsTab(t) /\ t.reads = tab.reads \ {r} /\ t.chain = tab.chain /\ t.own = tab.own
      /\ t.live = tab.live /\ t.gen = tab.gen /\ (~t.failed => ~tab.failed /\ ~ReadCurrent(tab, r))
  BY <1>0 DEF IsTab, Fields
<1>3. Requeued([tab EXCEPT !.reads = t.reads], t)
  BY <1>0 DEF Requeued, IsTab, Fields
<1> HIDE DEF t
<1>4. /\ PageOK(t) /\ Exclusive(t) /\ Linked(t, write) /\ t.gen = tab.gen /\ t.date = tab.date
      /\ t.highest = tab.highest /\ Minded(t, tab.reads) /\ OwnOpen(t, write)
  BY <1>2, <1>3, WithoutRead DEF Calm
<1>5. Found(r, t, ok)
  BY <1>0, <1>1, <1>2, <1>4 DEF Found, Calm, ReadCurrent
<1> QED
  BY <1>1, <1>5, WriteReadGood, TaskReadGood

-----------------------------------------------------------------------------
(* Navigation *)

\* Whoever arrives comes with its tasks, and with what they read.
Expectant(t, wr) ==
    /\ Calm(t) => Arrived(t) /\ TasksHeard(t, t.reads) /\ LeaseHeard(t)
    /\ OwnOpen(t, wr)

LEMMA ArrivalOK ==
    ASSUME Distinct, DaysOK, NEW t, PageOK(t), Exclusive(t), Linked(t, write), WritesOK(write),
           Expectant(t, write), write' = write, NEW u, u = Resume(Watch(t))
    PROVE  /\ PageOK(u) /\ Exclusive(u) /\ Linked(u, write) /\ u.gen = t.gen /\ u.highest >= t.highest
           /\ Attended(u, write')
<1> DEFINE v == Watch(t)
<1>1. IsTab(t)
  BY DEF PageOK, PageShape
<1>2. /\ PageOK(v) /\ Exclusive(v) /\ Unmoved(t, v) /\ v.reads = t.reads /\ Later(t, v)
  BY WatchOK
<1>3. u = Resume(v)
  OBVIOUS
<1> HIDE DEF v
<1>4. IsTab(v) /\ v.highest \in Int /\ t.highest \in Int
  BY <1>1, <1>2 DEF PageOK, PageShape, IsTab
<1>5. Moved(t, v)
  BY <1>2 DEF Moved
<1>6. Linked(v, write)
  BY <1>1, <1>4, <1>5, MovedLinked DEF WritesOK
<1>7. PageOK(u) /\ Exclusive(u) /\ Moved(v, u)
  BY <1>2, <1>3, ResumeOK
<1>8. IsTab(u) /\ u.highest \in Int
  BY <1>7 DEF PageOK, PageShape, IsTab
<1>9. Linked(u, write)
  BY <1>4, <1>6, <1>7, <1>8, MovedLinked DEF WritesOK
<1>10. Attended(u, write')
  <2>1. v = Watch(t)
    BY DEF v
  <2>2. Awake(v) /\ OwnOpen(v, write')
    BY <1>2, <2>1, WatchAwake DEF Expectant, Awake, OwnOpen, Unmoved
  <2> QED
    BY <1>2, <1>3, <2>2, ResumeAwake
<1> QED
  BY <1>2, <1>4, <1>7, <1>8, <1>9, <1>10 DEF Moved, Unmoved, Later

LEMMA NewOwnerOK ==
    ASSUME Distinct, IInv, NEW snapshot, Real(snapshot), NEW u, u = NewOwner(tab, tab.gen + 1, snapshot)
    PROVE  PageOK(u) /\ Exclusive(u) /\ Linked(u, write) /\ u.gen = tab.gen + 1 /\ Expectant(u, write)
<1>0. Linked(tab, write) /\ IsTab(tab) /\ \A s \in Slots : IsWrite(write[s])
  BY IInvParts
<1>1. DOMAIN u = Fields /\ u.floor = tab.floor /\ u.dirty = tab.dirty /\ u.pending = tab.pending
  BY <1>0 DEF NewOwner, IsTab, Fields
<1>2. /\ u.date = snapshot.date /\ u.props = snapshot /\ u.gen = tab.gen + 1 /\ u.live \in BOOLEAN
      /\ u.reads = tab.reads
  BY <1>0 DEF NewOwner, IsTab, Fields
<1>3. /\ u.rev = None /\ u.highest = -1 /\ u.phase = "idle" /\ u.active = None /\ u.handoff = None /\ u.gate = None
      /\ ~u.barrier /\ u.own = {}
  BY <1>0 DEF NewOwner, IsTab, Fields
<1>4. IsTab(u)
  <2>1. /\ u.floor \in [Dates -> Nat \union {-1}] /\ u.dirty \in [Dates -> BOOLEAN]
        /\ u.pending \in [Dates -> SUBSET Slots]
    BY <1>0, <1>1 DEF IsTab
  <2>2. u.date \in Dates /\ u.gen \in Nat /\ u.live \in BOOLEAN
    BY <1>0, <1>2 DEF IsTab, Real
  <2> QED
    BY <1>1, <1>3, <2>1, <2>2 DEF IsTab, Phases, Waits
<1>5. PropsReal(u)
  BY <1>2 DEF PropsReal
<1>6. Expectant(u, write)
  BY <1>3 DEF Expectant, Arrived, Undisturbed, TasksHeard, LeaseHeard, OwnOpen, Distinct
<1> QED
  BY <1>0, <1>1, <1>2, <1>3, <1>4, <1>5, <1>6, OwnerOK

LEMMA OtherDayOK ==
    ASSUME Distinct, IInv, NEW snapshot, Real(snapshot),
           NEW v, v = Reset(WithProps(tab, snapshot), "date"), NEW x, x = [v EXCEPT !.date = snapshot.date]
    PROVE  PageOK(x) /\ Exclusive(x) /\ Linked(x, write) /\ x.gen = tab.gen + 1 /\ Expectant(x, write)
<1>0. Linked(tab, write) /\ IsTab(tab) /\ OwnOpen(tab, write) /\ \A s \in Slots : IsWrite(write[s])
  BY IInvParts
<1> DEFINE t == WithProps(tab, snapshot)
<1>1. /\ IsTab(t) /\ t.props = snapshot /\ t.gen = tab.gen /\ t.pending = tab.pending /\ t.reads = tab.reads
      /\ t.own = tab.own /\ ~t.barrier
  BY <1>0 DEF WithProps, IsTab, Fields
<1>2. v = Reset(t, "date")
  OBVIOUS
<1> HIDE DEF t
<1>3. /\ IsTab(v) /\ v.pending = t.pending /\ v.props = t.props /\ v.gen = t.gen + 1
      /\ v.reads = t.reads /\ v.handoff = None /\ v.active = None /\ v.rev = None
      /\ v.own = t.own /\ v.barrier = t.barrier /\ v.gate = None /\ v.highest = -1
  BY <1>1, <1>2, ResetTab
<1>4. /\ IsTab(x) /\ x.date = snapshot.date /\ x.pending = v.pending /\ x.props = v.props /\ x.gen = v.gen
      /\ x.reads = v.reads /\ x.handoff = None /\ x.active = None /\ x.rev = None
      /\ x.own = v.own /\ x.barrier = v.barrier /\ x.gate = None /\ x.highest = -1
  BY <1>3 DEF IsTab, Fields, Real
<1>5. PropsReal(x)
  BY <1>1, <1>3, <1>4 DEF PropsReal
<1>6. /\ x.gen = tab.gen + 1 /\ x.reads = tab.reads /\ x.rev = None /\ x.active = None
      /\ x.handoff = None /\ \A d \in Dates : x.pending[d] = tab.pending[d]
  BY <1>1, <1>3, <1>4
<1>7. Expectant(x, write)
  BY <1>0, <1>1, <1>3, <1>4 DEF Expectant, Arrived, Undisturbed, TasksHeard, LeaseHeard, OwnOpen, Distinct
<1>8. PageOK(x) /\ Exclusive(x) /\ Linked(x, write)
  <2>1. PICK y : y = x
    OBVIOUS
  <2>2. /\ IsTab(y) /\ PropsReal(y) /\ y.rev = None /\ y.active = None /\ y.handoff = None
        /\ y.gen = tab.gen + 1 /\ y.reads = tab.reads
        /\ \A d \in Dates : y.pending[d] = tab.pending[d] \/ y.pending[d] = {}
    BY <1>4, <1>5, <1>6, <2>1
  <2>3. PageOK(y) /\ Exclusive(y) /\ Linked(y, write)
    BY ONLY Distinct, <1>0, <2>2, OwnerOK
  <2> QED
    BY <2>1, <2>3
<1> QED
  BY <1>6, <1>7, <1>8

LEMMA VisitArrivesGood ==
    ASSUME Distinct, IInv, NEW remount \in BOOLEAN, VisitArrives(remount) PROVE Good
<1>0. /\ PageOK(tab) /\ Exclusive(tab) /\ Linked(tab, write) /\ WritesOK(write) /\ DOMAIN write = Slots
      /\ DaysOK /\ IsTab(tab) /\ tab.highest \in Int /\ tab.gen \in Nat
  BY IInvParts DEF IsTab
<1> DEFINE Target(snapshot) ==
        IF remount THEN NewOwner(tab, tab.gen + 1, snapshot)
        ELSE IF snapshot.date = tab.date THEN WithProps(tab, snapshot)
        ELSE [Reset(WithProps(tab, snapshot), "date") EXCEPT !.date = snapshot.date]
<1>1. PICK snapshot \in Snapshots(visit.date, visit.from) : tab' = Resume(Watch(Target(snapshot)))
  BY DEF VisitArrives, WithProps
<1>2. Real(snapshot) /\ write' = write
  BY <1>0, ReadAt DEF VisitArrives, IInv, VisitOK
<1> DEFINE t == Target(snapshot)
<1>3. /\ PageOK(t) /\ Exclusive(t) /\ Linked(t, write) /\ Expectant(t, write)
      /\ t.gen = tab.gen + 1 \/ (t.gen = tab.gen /\ t.highest = tab.highest)
  <2>1. CASE remount
    <3>1. t = NewOwner(tab, tab.gen + 1, snapshot)
      BY <2>1
    <3> HIDE DEF t
    <3> QED
      BY <1>2, <3>1, NewOwnerOK
  <2>2. CASE ~remount /\ snapshot.date = tab.date
    <3>1. t = WithProps(tab, snapshot)
      BY <2>2
    <3> HIDE DEF t
    <3>2. /\ PageOK(t) /\ Exclusive(t) /\ Linked(t, write) /\ Received(tab, t)
          /\ t.gen = tab.gen /\ t.highest = tab.highest
      BY <1>0, <1>2, <2>2, <3>1, PropsOK DEF Received
    <3>3. Calm(t) => Arrived(t) /\ TasksHeard(t, tab.reads) /\ LeaseHeard(t)
      <4>1. Minded(tab, tab.reads) /\ (Calm(tab) => Rested(tab, write))
        BY IInvParts DEF Attended, Awake
      <4> QED
        BY <1>0, <1>2, <2>2, <3>1, <4>1, PropsAwake
    <3>4. Expectant(t, write)
      BY <3>2, <3>3, IInvParts DEF Expectant, Received, OwnOpen
    <3> QED
      BY <3>2, <3>4
  <2>3. CASE ~remount /\ snapshot.date # tab.date
    <3>1. t = [Reset(WithProps(tab, snapshot), "date") EXCEPT !.date = snapshot.date]
      BY <2>3
    <3> HIDE DEF t
    <3> QED
      BY <1>2, <3>1, OtherDayOK
  <2> QED
    BY <2>1, <2>2, <2>3
<1>4. tab' = Resume(Watch(t))
  BY <1>1
<1> HIDE DEF t
<1>5. /\ PageOK(tab') /\ Exclusive(tab') /\ Linked(tab', write) /\ tab'.gen = t.gen /\ tab'.highest >= t.highest
      /\ Attended(tab', write')
  BY <1>0, <1>2, <1>3, <1>4, ArrivalOK
<1> QED
  BY <1>0, <1>2, <1>3, <1>5 DEF Good, Sound, Ahead

LEMMA ChangeContextGood ==
    ASSUME Distinct, IInv, ChangeContext PROVE Good
<1>0. /\ PageOK(tab) /\ Linked(tab, write) /\ WritesOK(write) /\ DOMAIN write = Slots
      /\ DaysOK /\ IsTab(tab) /\ tab.gen \in Nat /\ PropsReal(tab)
  BY IInvParts DEF IsTab, PageOK, PageShape
<1> DEFINE v == Reset(tab, "context")
           t == [v EXCEPT !.barrier = tab.seen]
<1>1. write' = write /\ tab' = Resume(Watch(t))
  BY DEF ChangeContext
<1>2. v = Reset(tab, "context")
  OBVIOUS
<1> HIDE DEF v
<1>3. /\ IsTab(v) /\ v.pending = tab.pending /\ v.props = tab.props /\ v.gen = tab.gen + 1
      /\ v.date = tab.date /\ v.reads = tab.reads /\ v.handoff = None /\ v.active = None /\ v.rev = None
      /\ v.own = tab.own /\ v.gate = "waiting" /\ v.highest = -1
  BY <1>0, <1>2, ResetTab
<1>4. /\ IsTab(t) /\ t.date = v.date /\ t.pending = v.pending /\ t.props = v.props /\ t.gen = v.gen
      /\ t.reads = v.reads /\ t.handoff = None /\ t.active = None /\ t.rev = None
      /\ t.own = v.own /\ t.gate = "waiting" /\ t.highest = -1
  BY <1>3 DEF IsTab, Fields
<1> HIDE DEF t
<1>5. PropsReal(t)
  BY <1>0, <1>3, <1>4 DEF PropsReal
<1>6. PageOK(t) /\ Exclusive(t) /\ Linked(t, write)
  BY <1>0, <1>3, <1>4, <1>5, OwnerOK DEF WritesOK
<1>7. Expectant(t, write)
  BY <1>3, <1>4, IInvParts DEF Expectant, Arrived, Undisturbed, TasksHeard, LeaseHeard, OwnOpen, Distinct
<1>8. /\ PageOK(tab') /\ Exclusive(tab') /\ Linked(tab', write) /\ tab'.gen = t.gen
      /\ Attended(tab', write')
  BY <1>0, <1>1, <1>6, <1>7, ArrivalOK
<1> QED
  BY <1>0, <1>1, <1>3, <1>4, <1>8 DEF Good, Sound, Ahead

LEMMA EndSessionGood ==
    ASSUME Distinct, IInv, EndSession PROVE Good
<1>0. WritesOK(write) /\ DOMAIN write = Slots /\ IsTab(tab) /\ tab.gen \in Nat
  BY IInvParts DEF IsTab
<1>1. tab' = Forget(Reset(tab, "session")) /\ write' = write
  BY DEF EndSession
<1>2. /\ PageOK(tab') /\ Exclusive(tab') /\ Linked(tab', write) /\ tab'.gen = tab.gen + 1
      /\ Attended(tab', write')
  BY <1>1, ForgetReset DEF Attended, Calm
<1> QED
  BY <1>0, <1>1, <1>2 DEF Good, Sound, Ahead

-----------------------------------------------------------------------------
(* The invariant *)

\* The reads of a page do not depend on when they are looked at.
LEMMA GoodInv ==
    ASSUME Distinct, IInv, Good, day' = day, visit' = visit \/ visit' = None
    PROVE  IInv'
<1>1. DaysOK' /\ VisitOK'
  BY DEF IInv, DaysOK, VisitOK, Revision
<1>2. IsTab(tab)' /\ PropsReal(tab)' /\ ShownReal(tab)' /\ LeaseOwned(tab)' /\ Waiting(tab)'
  BY DEF Good, Sound, PageOK, PageShape, IsTab, PropsReal, Real, ShownReal, LeaseOwned, Waiting, Revision
<1>3. OwnWritesShown(tab)' /\ Exclusive(tab)'
  BY DEF Good, Sound, PageOK, OwnWritesShown, Editable, Exclusive
<1>4. /\ LeaseLinked(tab, write)' /\ OneLease(tab, write)' /\ TicketsLinked(tab, write)'
      /\ ReadsLinked(tab, write)' /\ ChainLinked(tab, write)'
  BY DEF Good, Sound, Linked, LeaseLinked, OneLease, TicketsLinked, ReadsLinked, ChainLinked, Open, Revision
<1>5. WritesOK(write)' /\ (DOMAIN write = Slots)'
  BY DEF Good, Sound, WritesOK, IsWrite, Open, ReplyReal, Revision
<1>6. Attended(tab, write)'
  BY DEF Good, Sound, Attended, OwnOpen, Open, Awake, Minded, Calm, Tended, Undisturbed, Expected, Cleared,
                Outstanding, Settled, UpToDate, TasksHeard, LeaseHeard, Rested
<1> QED
  BY <1>1, <1>2, <1>3, <1>4, <1>5, <1>6 DEF IInv, Sound, PageOK, PageShape, Linked

LEMMA InitInv ==
    ASSUME Distinct, Init PROVE IInv
<1>1. /\ \A d \in Dates : Len(day[d]) = 1 /\ day[d][1] = 0 /\ day[d] \in Seq({0})
      /\ DOMAIN day = Dates
  BY DEF Init
<1>2. DaysOK /\ VisitOK
  <2>1. ASSUME NEW d \in Dates PROVE Len(day[d]) \in Nat \ {0} /\ \E S : day[d] \in Seq(S)
    BY <1>1
  <2> QED
    BY <1>1, <2>1 DEF DaysOK, VisitOK, Init
<1>3. /\ DOMAIN write = Slots /\ \A s \in Slots : write[s] = Idle /\ ~Open(write[s])
  BY IdleWrite DEF Init
<1>4. WritesOK(write)
  BY <1>3, IdleWrite DEF WritesOK
<1>5. PICK d \in Dates : tab = Watch(NewOwner(EmptyTab([date |-> d, rev |-> 0, blocks |-> 0]), 0,
                                          [date |-> d, rev |-> 0, blocks |-> 0]))
  BY DEF Init
<1> DEFINE props == [date |-> d, rev |-> 0, blocks |-> 0]
           e == EmptyTab(props)
           t == NewOwner(e, 0, props)
<1>6. Real(props) /\ props.date = d
  BY <1>1 DEF Real, Revision
<1> HIDE DEF props
<1>7. /\ DOMAIN e = Fields /\ e.floor = [x \in Dates |-> -1] /\ e.dirty = [x \in Dates |-> FALSE]
      /\ e.pending = [x \in Dates |-> {}] /\ e.reads = {} /\ e.barrier = FALSE
  BY DEF EmptyTab, Fields
<1> HIDE DEF e
<1>8. /\ DOMAIN t = Fields /\ t.floor = [x \in Dates |-> -1] /\ t.dirty = [x \in Dates |-> FALSE]
      /\ t.pending = [x \in Dates |-> {}] /\ t.reads = {} /\ t.barrier = FALSE
      /\ t.props = props /\ t.date = d
  BY <1>6, <1>7 DEF NewOwner, Fields
<1>9. /\ t.gen = 0 /\ t.live \in BOOLEAN /\ t.rev = None /\ t.highest = -1 /\ t.phase = "idle"
      /\ t.active = None /\ t.handoff = None /\ t.gate = None /\ t.own = {}
  BY <1>7 DEF NewOwner, Fields
<1>10. tab = Watch(t)
  BY <1>5 DEF e, props
<1> HIDE DEF t
<1>11. IsTab(t)
  <2>1. /\ t.floor \in [Dates -> Nat \union {-1}] /\ t.dirty \in [Dates -> BOOLEAN]
        /\ t.pending \in [Dates -> SUBSET Slots]
    BY <1>8
  <2>2. t.date \in Dates /\ t.gen \in Nat /\ t.live \in BOOLEAN
    BY <1>8, <1>9
  <2> QED
    BY <1>8, <1>9, <2>1, <2>2 DEF IsTab, Phases, Waits
<1>12. PageOK(t) /\ Exclusive(t)
  BY <1>6, <1>8, <1>9, <1>11 DEF PageOK, PageShape, PropsReal, ShownReal, LeaseOwned, Waiting, OwnWritesShown,
                                Editable, Exclusive, Distinct
<1>13. Linked(t, write)
  BY <1>3, <1>8, <1>9 DEF Linked, LeaseLinked, OneLease, TicketsLinked, ReadsLinked, ChainLinked, Open
<1>14. PageOK(tab) /\ Exclusive(tab) /\ Unmoved(t, tab) /\ tab.reads = t.reads /\ Later(t, tab)
  BY <1>10, <1>12, WatchOK
<1>15. Linked(tab, write)
  BY <1>2, <1>4, <1>11, <1>13, <1>14, MovedLinked DEF Moved, WritesOK, PageOK, PageShape
<1>16. Attended(tab, write)
  <2>1. Expectant(t, write)
    BY <1>8, <1>9 DEF Expectant, Arrived, Undisturbed, TasksHeard, LeaseHeard, OwnOpen, Distinct
  <2>2. Awake(tab) /\ OwnOpen(tab, write)
    BY <1>10, <1>12, <1>14, <2>1, WatchAwake DEF Expectant, Awake, OwnOpen, Unmoved
  <2>3. Settled(t) /\ UpToDate(t)
    BY <1>6, <1>8 DEF Settled, UpToDate, Real
  <2>4. CheckHandoff(t) = t
    BY <1>9, <2>3 DEF CheckHandoff
  <2>5. PICK auth \in BOOLEAN : auth = FALSE
    OBVIOUS
  <2>6. tab = Ingest(t, auth)
    BY <1>10, <2>4, <2>5 DEF Watch
  <2>7. tab.handoff = None /\ tab.gate = None
    BY <1>9, <1>11, <1>12, <2>6, IngestTab DEF Kept, PageOK, PageShape
  <2> QED
    BY <2>2, <2>7 DEF Attended, Rested, Distinct
<1> QED
  BY <1>2, <1>3, <1>4, <1>14, <1>15, <1>16 DEF IInv, Sound

LEMMA NextInv ==
    ASSUME Distinct, IInv, [Next]_vars
    PROVE  IInv' /\ NotBack
<1>0. tab.highest \in Int /\ tab.gen \in Nat /\ (tab.rev # None => tab.rev = tab.highest)
  BY IInvParts DEF IsTab, PageOK, PageShape, ShownReal
<1>1. ASSUME Good, day' = day, visit' = visit \/ visit' = None PROVE IInv' /\ NotBack
  <2>1. IInv'
    BY <1>1, GoodInv
  <2>2. tab'.rev # None => tab'.rev = tab'.highest
    BY <1>1 DEF Good, Sound, PageOK, PageShape, ShownReal
  <2> QED
    BY <1>1, <2>1, <2>2 DEF Good, Ahead, NotBack
<1>2. ASSUME tab' = tab PROVE NotBack
  BY <1>0, <1>2 DEF NotBack
<1>3. CASE UNCHANGED vars
  <2>1. Good
    BY <1>0, <1>3 DEF Good, IInv, Ahead, vars
  <2> QED
    BY <1>1, <1>3, <2>1 DEF vars
<1>4. ASSUME NEW s \in Slots, WriteStep(s) PROVE IInv' /\ NotBack
  <2>1. CASE Edit(s)
    BY <1>1, <2>1, EditGood DEF Edit, Begin
  <2>2. CASE Check(s)
    BY <1>1, <2>2, CheckGood DEF Check, Begin
  <2>3. CASE Undo(s)
    BY <1>1, <2>3, UndoGood DEF Undo, Begin
  <2>4. CASE UndoMismatch(s)
    BY <1>1, <2>4, UndoMismatchGood DEF UndoMismatch
  <2>5. CASE Serve(s)
    BY <1>2, <2>5, ServeInv DEF Serve
  <2>6. CASE Decline(s)
    BY <1>1, <2>6, DeclineGood DEF Decline
  <2>7. CASE SettleSignedOut(s)
    BY <1>1, <2>7, SignedOutGood DEF SettleSignedOut
  <2>8. CASE SettleDeparted(s)
    BY <1>1, <2>8, DepartedGood DEF SettleDeparted
  <2>9. CASE SettleRejected(s)
    BY <1>1, <2>9, RejectedGood DEF SettleRejected
  <2>10. CASE SettleAccepted(s)
    BY <1>1, <2>10, AcceptedGood DEF SettleAccepted
  <2>11. CASE SettleReview(s)
    BY <1>1, <2>11, ReviewGood DEF SettleReview, Reload
  <2>12. CASE SettleUncertain(s)
    BY <1>1, <2>12, UncertainGood DEF SettleUncertain, Reload
  <2> QED
    BY <1>4, <2>1, <2>2, <2>3, <2>4, <2>5, <2>6, <2>7, <2>8, <2>9, <2>10, <2>11, <2>12 DEF WriteStep
<1>5. CASE QueueCheck
  BY <1>1, <1>5, QueueCheckGood DEF QueueCheck
<1>6. CASE CaptureFailure
  BY <1>1, <1>6, CaptureFailureGood DEF CaptureFailure
<1>7. ASSUME NEW d \in Dates, OtherWrite(d) PROVE IInv' /\ NotBack
  BY <1>2, <1>7, OtherWriteInv DEF OtherWrite
<1>8. ASSUME NEW d \in Dates, Visit(d) PROVE IInv' /\ NotBack
  <2>1. VisitOK'
    BY <1>8 DEF Visit, VisitOK, Revision, IInv, DaysOK
  <2>2. Attended(tab, write)'
    BY <1>8 DEF Visit, IInv, Sound, Attended, OwnOpen, Open, Awake, Minded, Calm, Tended, Undisturbed,
        Expected, Cleared, Outstanding, Settled, UpToDate, TasksHeard, LeaseHeard, Rested
  <2>3. DaysOK' /\ DOMAIN write' = Slots
    BY SMTT(30), <1>8 DEF Visit, IInv, DaysOK
  <2>4. (PageOK(tab) /\ Exclusive(tab) /\ Linked(tab, write) /\ WritesOK(write))'
    BY <1>8 DEF Visit, IInv, Sound, PageOK, PageShape, IsTab, PropsReal, Real, ShownReal,
        LeaseOwned, Waiting, OwnWritesShown, Editable, Exclusive, Linked, LeaseLinked, OneLease,
        TicketsLinked, ReadsLinked, ChainLinked, Open, Revision, WritesOK, IsWrite, ReplyReal
  <2>5. IInv'
    BY <2>1, <2>2, <2>3, <2>4 DEF IInv, Sound
  <2> QED
    BY <1>2, <1>8, <2>5 DEF Visit
<1>9. CASE Read
  <2>1. ASSUME NEW r \in tab.reads, ReadArrives(r) PROVE IInv' /\ NotBack
    BY <1>1, <2>1, ReadArrivesGood DEF ReadArrives
  <2>2. ASSUME NEW r \in tab.reads, ReadFails(r) PROVE IInv' /\ NotBack
    BY <1>1, <2>2, ReadFailsGood DEF ReadFails
  <2> QED
    BY <1>9, <2>1, <2>2 DEF Read
<1>10. ASSUME NEW remount \in BOOLEAN, VisitArrives(remount) PROVE IInv' /\ NotBack
  BY <1>1, <1>10, VisitArrivesGood DEF VisitArrives
<1>11. CASE ChangeContext
  BY <1>1, <1>11, ChangeContextGood DEF ChangeContext
<1>12. CASE EndSession
  BY <1>1, <1>12, EndSessionGood DEF EndSession
<1> QED
  BY <1>3, <1>4, <1>5, <1>6, <1>7, <1>8, <1>9, <1>10, <1>11, <1>12 DEF Next

\* Every reachable state of the tab is in order, and every step keeps what was seen.
THEOREM Inductive == Distinct => (Spec => [](IInv) /\ [][NotBack]_vars)
<1>1. SUFFICES ASSUME Distinct PROVE Spec => []IInv /\ [][NotBack]_vars
  OBVIOUS
<1>2. Init => IInv
  BY <1>1, InitInv
<1>3. IInv /\ [Next]_vars => IInv' /\ NotBack
  BY <1>1, NextInv
<1>4. QED
  BY <1>2, <1>3, PTL DEF Spec

-----------------------------------------------------------------------------
(* The theorems *)

\* Whatever mix of replies, reloads and visits brought it, the page shows a content that
\* its day had at the revision which the page would send (ingestProps, accept).
THEOREM ShownDayIsReal == Distinct => (Spec => []VisibleIsReal)
<1>1. SUFFICES ASSUME Distinct PROVE Spec => []VisibleIsReal
  OBVIOUS
<1>2. IInv => VisibleIsReal
  BY DEF IInv, Sound, PageOK, PageShape, ShownReal, VisibleIsReal
<1>3. QED
  BY <1>1, <1>2, Inductive, PTL

\* A page lends its day to a writer only when every write of the tab has an outcome, and the
\* confirmed ones are shown; pages that are gone count (capture, scheduleWriteCoordinator).
THEOREM OwnWritesFirst == Distinct => (Spec => []WritersSeeOwnWrites)
<1>1. SUFFICES ASSUME Distinct PROVE Spec => []WritersSeeOwnWrites
  OBVIOUS
<1>2. ASSUME IInv PROVE WritersSeeOwnWrites
  <2>1. tab.date \in Dates /\ tab.floor[tab.date] \in Int /\ (tab.rev # None => tab.rev \in Int)
    BY <1>2, IInvParts DEF IsTab
  <2> QED
    BY <1>2, <2>1 DEF IInv, Sound, PageOK, OwnWritesShown, WritersSeeOwnWrites, Editable
<1>3. QED
  BY <1>1, <1>2, Inductive, PTL

\* At any time at most one write of the tab to a day awaits its outcome, whichever pages
\* showed the day (begin, scheduleWriteCoordinator.track).
THEOREM OneWriterOfADay == Distinct => (Spec => []OneWriter)
<1>1. SUFFICES ASSUME Distinct PROVE Spec => []OneWriter
  OBVIOUS
<1>2. ASSUME IInv, NEW d \in Dates PROVE Cardinality(tab.pending[d]) <= 1
  <2>1. CASE tab.pending[d] = {}
    BY <2>1, FS_EmptySet
  <2>2. ASSUME NEW s \in tab.pending[d] PROVE Cardinality(tab.pending[d]) <= 1
    <3>1. tab.pending[d] = {s}
      BY <1>2 DEF IInv, Sound, Linked, TicketsLinked
    <3>2. Cardinality({s}) = 1
      BY FS_Singleton
    <3> QED
      BY <3>1, <3>2
  <2> QED
    BY <2>1, <2>2
<1>3. IInv => OneWriter
  BY <1>2 DEF OneWriter
<1>4. QED
  BY <1>1, <1>3, Inductive, PTL

\* A check mark that waited is sent for the day that its click saw, moved on by nothing but
\* the marks before it (setCompleted of useBlockCompletion.ts).
THEOREM ChecksOnTheDayClicked == Distinct => (Spec => []ChecksOnSeenDay)
<1>1. SUFFICES ASSUME Distinct PROVE Spec => []ChecksOnSeenDay
  OBVIOUS
<1>2. IInv => ChecksOnSeenDay
  BY DEF IInv, Sound, Linked, ChainLinked, ChecksOnSeenDay
<1>3. QED
  BY <1>1, <1>2, Inductive, PTL

\* No late reply, reload or visit takes the day of an owner back to a revision before one
\* it has shown (the check of ingestProps against the highest revision).
THEOREM NeverTakenBack == Distinct => (Spec => NotTakenBack)
<1>1. SUFFICES ASSUME Distinct PROVE Spec => NotTakenBack
  OBVIOUS
<1>2. QED
  BY <1>1, Inductive, PTL DEF NotTakenBack

\* A page whose writes have settled and whose reloads have ended lets its user write, or says
\* that a reload failed: no task of it waits for what has happened (checkHandoff, resumeHandoff
\* and reconcileContext of useScheduleRevision.ts, whenSettled of the coordinator).
THEOREM NobodyLeftWaiting == Distinct => (Spec => []NeverStuck)
<1>1. SUFFICES ASSUME Distinct PROVE Spec => []NeverStuck
  OBVIOUS
<1>2. ASSUME IInv, tab.live, ~tab.failed, tab.reads = {}, \A s \in Slots : write[s] = Idle
      PROVE  tab.phase = "idle"
  <2>1. /\ OwnOpen(tab, write) /\ Tended(tab) /\ TasksHeard(tab, tab.reads) /\ Rested(tab, write)
        /\ IsTab(tab) /\ Linked(tab, write)
    BY <1>2, IInvParts DEF Attended, Awake, Minded, Calm
  <2>2. \A s \in Slots : ~Open(write[s])
    BY <1>2, IdleWrite
  <2>3. tab.own = {}
    BY <2>1, <2>2 DEF OwnOpen
  <2>4. tab.active = None /\ tab.pending[tab.date] = {}
    BY <2>1, <2>2 DEF Linked, LeaseLinked, TicketsLinked, IsTab
  <2>5. tab.handoff = None
    BY <1>2, <2>1, <2>4 DEF TasksHeard, Rested, Tended, Undisturbed, IsTab, Waits
  <2>6. tab.gate = None
    BY <1>2, <2>1, <2>3 DEF TasksHeard, Rested, Tended, Undisturbed, IsTab, Waits
  <2> QED
    BY <2>1, <2>4, <2>5, <2>6 DEF Tended, Expected
<1>3. IInv => NeverStuck
  BY <1>2 DEF NeverStuck
<1>4. QED
  BY <1>1, <1>3, Inductive, PTL

-----------------------------------------------------------------------------
(* The undo history.  An entry of the stack is true of its day (EntryTrue) *)
(* for good, since days only grow; whatever the page does to the stack     *)
(* keeps it so and within its limit (Truthful, Recalls).                   *)

EntryFields == {"date", "before", "previous", "expected", "made"}

\* An edit made revision `made` of a day that held `before`; what an undo expects to find
\* is what that edit made, under the number it has now.
EntryTrue(e) ==
    /\ DOMAIN e = EntryFields
    /\ e.date \in Dates
    /\ e.made \in 1 .. Revision(e.date) /\ e.previous = e.made - 1
    /\ e.before = day[e.date][e.made]
    /\ e.expected \in 0 .. Revision(e.date)
    /\ day[e.date][e.expected + 1] = day[e.date][e.made + 1]

Truthful(u) ==
    /\ \E S : u \in Seq(S)
    /\ Len(u) <= MaxUndo
    /\ \A i \in 1 .. Len(u) : EntryTrue(u[i])

\* Every place of a finite set of numbers is the rank of one of them, so that Nth is defined.
LEMMA Ranks ==
    ASSUME NEW K \in SUBSET Int, IsFiniteSet(K)
    PROVE  \A n \in 1 .. Cardinality(K) : \E i \in K : Cardinality({j \in K : j < i}) = n - 1
<1> DEFINE Below(i) == {j \in K : j < i}
           rank == [i \in K |-> Cardinality(Below(i)) + 1]
           T == 1 .. Cardinality(K)
<1>1. \A i \in K : IsFiniteSet(Below(i)) /\ Cardinality(Below(i)) \in Nat
  <2> TAKE i \in K
  <2>1. Below(i) \in SUBSET K
    OBVIOUS
  <2> HIDE DEF Below
  <2> QED
    BY <2>1, FS_Subset, FS_CardinalityType
<1>2. Cardinality(K) \in Nat
  BY FS_CardinalityType
<1>3. \A i \in K : rank[i] \in T
  <2> TAKE i \in K
  <2>1. IsFiniteSet(K \ {i}) /\ Cardinality(K \ {i}) = Cardinality(K) - 1
    BY FS_RemoveElement
  <2>2. Below(i) \in SUBSET (K \ {i})
    OBVIOUS
  <2> HIDE DEF Below
  <2>3. Cardinality(Below(i)) <= Cardinality(K) - 1
    BY <2>1, <2>2, FS_Subset
  <2> QED
    BY <1>1, <1>2, <2>3
<1>4. \A i, j \in K : i < j => rank[i] # rank[j]
  <2> SUFFICES ASSUME NEW i \in K, NEW j \in K, i < j PROVE rank[i] # rank[j]
    OBVIOUS
  <2>0. i \in Int /\ j \in Int /\ \A k \in K : k \in Int
    OBVIOUS
  <2> HIDE DEF rank, T
  <2>1. Below(i) \in SUBSET Below(j) /\ i \in Below(j) /\ i \notin Below(i)
    <3>1. \A k \in K : k < i => k < j
      BY <2>0
    <3>2. ~(i < i)
      BY <2>0
    <3> QED
      BY <3>1, <3>2
  <2> USE DEF rank
  <2> HIDE DEF Below
  <2>2. Cardinality(Below(i)) # Cardinality(Below(j))
    BY <1>1, <2>1, FS_Subset
  <2> QED
    BY <1>1, <2>2
<1>5. rank \in Injection(K, T)
  <2>1. rank \in [K -> T]
    BY <1>3
  <2>2. \A i, j \in K : i # j => i < j \/ j < i
    OBVIOUS
  <2> HIDE DEF rank, T
  <2> QED
    BY <1>4, <2>1, <2>2 DEF Injection, IsInjective
<1>6. IsFiniteSet(T) /\ Cardinality(T) = Cardinality(K)
  BY <1>2, FS_Interval
<1>7. rank \in Surjection(K, T)
  BY <1>5, <1>6, FS_Injection
<1>8. \A n \in T : \E i \in K : rank[i] = n
  BY <1>7 DEF Surjection
<1> QED
  BY SMTT(30), <1>1, <1>8

\* A finite set of numbers has a last one.
LEMMA LastOne ==
    ASSUME NEW K \in SUBSET Int, IsFiniteSet(K), K # {}
    PROVE  \E i \in K : \A j \in K : j <= i
<1>1. Cardinality(K) \in Nat /\ Cardinality(K) # 0
  BY FS_CardinalityType, FS_EmptySet
<1>2. PICK i \in K : Cardinality({j \in K : j < i}) = Cardinality(K) - 1
  <2>1. \A n \in 1 .. Cardinality(K) : \E i \in K : Cardinality({j \in K : j < i}) = n - 1
    BY Ranks
  <2> QED
    BY <1>1, <2>1
<1> DEFINE Below == {j \in K : j < i}
<1>3. Below \in SUBSET (K \ {i})
  OBVIOUS
<1>4. IsFiniteSet(K \ {i}) /\ Cardinality(K \ {i}) = Cardinality(K) - 1
  BY FS_RemoveElement
<1>5. Below = K \ {i}
  <2> HIDE DEF Below
  <2>1. Cardinality(Below) = Cardinality(K) - 1
    BY <1>2 DEF Below
  <2> QED
    BY <1>3, <1>4, <2>1, FS_Subset
<1> QED
  BY <1>5

\* Entries taken from a history, in their order, are a history.
LEMMA AtKeeps ==
    ASSUME Bounded, NEW u, Truthful(u), NEW K \in SUBSET (DOMAIN u)
    PROVE  Truthful(At(u, K))
<1>1. PICK S : u \in Seq(S)
  BY DEF Truthful
<1>2. /\ DOMAIN u = 1 .. Len(u) /\ Len(u) \in Nat /\ Len(u) <= MaxUndo
      /\ \A i \in 1 .. Len(u) : EntryTrue(u[i]) /\ u[i] \in S
  BY <1>1 DEF Truthful
<1>3. /\ IsFiniteSet(K) /\ Cardinality(K) <= Len(u) /\ Cardinality(K) \in Nat
      /\ K \in SUBSET Int
  <2>1. IsFiniteSet(1 .. Len(u)) /\ Cardinality(1 .. Len(u)) = Len(u)
    <3>1. PICK n \in Nat : n = Len(u)
      BY <1>2
    <3>2. IsFiniteSet(1 .. n) /\ Cardinality(1 .. n) = n
      BY FS_Interval
    <3> QED
      BY SMTT(30), <3>1, <3>2
  <2> QED
    BY <1>2, <2>1, FS_Subset, FS_CardinalityType
<1>4. \A n \in 1 .. Cardinality(K) : Nth(K, n) \in K
  BY <1>3, Ranks DEF Nth
<1>5. \A n \in 1 .. Cardinality(K) : u[Nth(K, n)] \in S /\ EntryTrue(u[Nth(K, n)])
  BY <1>2, <1>4
<1>6. PICK a : a = At(u, K)
  OBVIOUS
<1>7. PICK c \in Nat : c = Cardinality(K)
  BY <1>3
<1>8. a = [n \in 1 .. c |-> u[Nth(K, n)]] /\ a \in [1 .. c -> S]
  BY <1>5, <1>6, <1>7 DEF At
<1>9. a \in Seq(S) /\ Len(a) = c
  BY <1>8, IsASeq, LenProperties
<1>10. c <= MaxUndo
  BY <1>2, <1>3, <1>7 DEF Bounded
<1>11. \A i \in 1 .. Len(a) : EntryTrue(a[i])
  BY <1>5, <1>7, <1>8, <1>9
<1> QED
  BY <1>6, <1>9, <1>10, <1>11 DEF Truthful

LEMMA NoHistory == ASSUME Bounded PROVE Truthful(<<>>)
BY DEF Bounded, Truthful

\* So is one with a true entry pushed, and the oldest dropped at the limit.
LEMMA PushKeeps ==
    ASSUME Bounded, NEW u, Truthful(u), NEW e, EntryTrue(e), NEW p, p = Append(u, e)
    PROVE  Truthful(IF Len(p) > MaxUndo THEN Tail(p) ELSE p)
<1>1. PICK S : u \in Seq(S)
  BY DEF Truthful
<1>2. PICK T : T = S \union {e}
  OBVIOUS
<1>3. u \in Seq(T) /\ e \in T /\ Len(u) \in Nat
  BY <1>1, <1>2
<1>4. /\ p \in Seq(T) /\ p # << >> /\ Len(p) = Len(u) + 1
      /\ \A i \in 1 .. Len(p) : EntryTrue(p[i])
  <2>1. /\ p \in Seq(T) /\ p # << >> /\ Len(p) = Len(u) + 1
        /\ \A i \in 1 .. Len(u) : p[i] = u[i]
        /\ p[Len(u) + 1] = e
    BY <1>3, AppendProperties
  <2> QED
    BY <1>3, <2>1 DEF Truthful
<1>5. CASE Len(p) > MaxUndo
  <2>1. PICK q : q = Tail(p)
    OBVIOUS
  <2>2. q \in Seq(T) /\ Len(q) = Len(p) - 1 /\ \A i \in 1 .. Len(q) : q[i] = p[i + 1]
    BY <1>4, <2>1, HeadTailProperties
  <2>3. \A i \in 1 .. Len(q) : EntryTrue(q[i])
    <3> TAKE i \in 1 .. Len(q)
    <3>1. i + 1 \in 1 .. Len(p)
      BY <1>3, <1>4, <2>2
    <3> QED
      BY <1>4, <2>2, <3>1
  <2>4. Len(q) <= MaxUndo
    BY <1>3, <1>4, <2>2 DEF Truthful, Bounded
  <2>5. Truthful(q)
    BY <2>2, <2>3, <2>4 DEF Truthful
  <2> QED
    BY <1>5, <2>1, <2>5
<1>6. CASE ~(Len(p) > MaxUndo)
  <2>1. Len(p) <= MaxUndo
    BY <1>3, <1>4, <1>6 DEF Bounded
  <2>2. Truthful(p)
    BY <1>4, <2>1 DEF Truthful
  <2> QED
    BY <1>6, <2>2
<1> QED
  BY <1>5, <1>6

\* The entry that an undo takes is one of its day.
LEMMA LastEntryIs ==
    ASSUME NEW t, Truthful(t.undo), NEW d, EntriesOf(t, d) # {}
    PROVE  /\ LastEntry(t, d) \in 1 .. Len(t.undo) /\ t.undo[LastEntry(t, d)].date = d
           /\ EntryTrue(t.undo[LastEntry(t, d)])
<1>1. PICK u : u = t.undo
  OBVIOUS
<1>2. Len(u) \in Nat /\ DOMAIN u = 1 .. Len(u)
  BY <1>1 DEF Truthful
<1>3. PICK K : K = EntriesOf(t, d)
  OBVIOUS
<1>4. K \in SUBSET (1 .. Len(u)) /\ K # {} /\ \A i \in K : u[i].date = d
  BY <1>1, <1>2, <1>3 DEF EntriesOf
<1>5. IsFiniteSet(K) /\ K \in SUBSET Int
  <2>1. PICK n \in Nat : n = Len(u)
    BY <1>2
  <2>2. IsFiniteSet(1 .. n) /\ K \in SUBSET (1 .. n)
    BY <1>4, <2>1, FS_Interval
  <2>3. IsFiniteSet(K)
    BY <2>2, FS_Subset
  <2>4. \A i \in 1 .. n : i \in Int
    BY <2>1
  <2> QED
    BY SMTT(30), <2>2, <2>3, <2>4
<1>6. \E i \in K : \A j \in K : j <= i
  BY <1>4, <1>5, LastOne
<1>7. LastEntry(t, d) \in K
  BY <1>3, <1>6 DEF LastEntry
<1> QED
  BY <1>1, <1>4, <1>7 DEF Truthful

-----------------------------------------------------------------------------
(* What the helpers keep of the history *)

ShownTrue(t) ==
    t.rev # None => t.rev \in 0 .. Revision(t.date) /\ t.blocks = day[t.date][t.rev + 1]

Recalls(t) ==
    /\ DOMAIN t = Fields /\ PropsReal(t) /\ ShownTrue(t)
    /\ Truthful(t.undo) /\ t.waiting \in 0 .. MaxChecks

\* The history is no part of what the page shows.
ShowsAlike(t, u) ==
    /\ u.date = t.date /\ u.rev = t.rev /\ u.blocks = t.blocks /\ u.waiting = t.waiting
    /\ u.gen = t.gen /\ u.live = t.live

LEMMA SameRecalls ==
    ASSUME NEW t, Recalls(t), NEW u, DOMAIN u = Fields, u.undo = t.undo, u.waiting = t.waiting,
           u.props = t.props, u.date = t.date, u.rev = None \/ (u.rev = t.rev /\ u.blocks = t.blocks)
    PROVE  Recalls(u)
BY DEF Recalls, PropsReal, ShownTrue

LEMMA UndoRecalls ==
    ASSUME NEW t, Recalls(t), NEW undo, Truthful(undo), NEW u, u = [t EXCEPT !.undo = undo]
    PROVE  Recalls(u) /\ ShowsAlike(t, u)
BY DEF Recalls, PropsReal, ShownTrue, Fields, ShowsAlike

LEMMA InvalidateRecalls ==
    ASSUME Bounded, NEW t, Recalls(t), NEW d, NEW u, u = InvalidateHistory(t, d)
    PROVE  Recalls(u) /\ ShowsAlike(t, u)
<1>1. Truthful(At(t.undo, {i \in DOMAIN t.undo : t.undo[i].date # d}))
  BY AtKeeps DEF Recalls
<1> QED
  BY <1>1, UndoRecalls DEF InvalidateHistory

LEMMA SpentRecalls ==
    ASSUME Bounded, NEW t, Recalls(t), NEW w, NEW u, u = Spent(t, w)
    PROVE  Recalls(u) /\ ShowsAlike(t, u)
<1>1. Truthful(At(t.undo, {i \in DOMAIN t.undo : ~Same(t.undo[i], w.entry.made, w.date)}))
  BY AtKeeps DEF Recalls
<1> QED
  BY <1>1, UndoRecalls DEF Spent

LEMMA IngestRecalls ==
    ASSUME Bounded, NEW t, Recalls(t), NEW auth, NEW u, u = Ingest(t, auth)
    PROVE  Recalls(u) /\ u.date = t.date
<1>1. CASE ~CanIngest(t, auth)
  BY <1>1 DEF Ingest
<1>2. CASE CanIngest(t, auth)
  <2> DEFINE h == IF t.rev # None /\ t.props.rev > t.highest THEN InvalidateHistory(t, t.date) ELSE t
  <2>1. Recalls(h)
    BY InvalidateRecalls
  <2>2. h.props = t.props /\ h.date = t.date
    BY DEF InvalidateHistory, Recalls, Fields
  <2>3. PICK v : v = Shown(h)
    OBVIOUS
  <2>4. u = Acknowledge(v, t.date, t.props.rev, auth)
    BY <1>2, <2>3 DEF Ingest
  <2> HIDE DEF h
  <2>5. Recalls(v) /\ v.date = t.date
    BY <2>1, <2>2, <2>3 DEF Shown, Recalls, Fields, PropsReal, ShownTrue, Real
  <2>6. u = v \/ u = [v EXCEPT !.dirty[t.date] = FALSE]
    BY <2>4 DEF Acknowledge
  <2> QED
    BY <1>2, <2>5, <2>6, SameRecalls DEF Recalls, Fields
<1> QED
  BY <1>1, <1>2

LEMMA WatchRecalls ==
    ASSUME Bounded, NEW t, Recalls(t), NEW u, u = Watch(t)
    PROVE  Recalls(u)
<1>1. PICK v : v = CheckHandoff(t)
  OBVIOUS
<1>2. \/ v = t \/ v = StartHandoff(t) \/ v = Ingest([t EXCEPT !.handoff = None], FALSE)
  BY <1>1 DEF CheckHandoff
<1>3. Recalls([t EXCEPT !.handoff = None])
  BY SameRecalls DEF Recalls, Fields
<1>4. Recalls([t EXCEPT !.handoff = "waiting", !.rev = None, !.blocks = None,
                        !.phase = "synchronizing", !.waiting = 0])
  BY DEF Recalls, Fields, PropsReal, ShownTrue, Bounded
<1>5. Recalls(v)
  <2>1. CASE v = StartHandoff(t)
    BY <1>4, <2>1, InvalidateRecalls DEF StartHandoff
  <2>2. CASE v = Ingest([t EXCEPT !.handoff = None], FALSE)
    BY <1>3, <2>2, IngestRecalls
  <2> QED
    BY <1>2, <2>1, <2>2
<1> QED
  BY <1>1, <1>5, IngestRecalls DEF Watch

LEMMA AskingRecalls ==
    ASSUME NEW t, Recalls(t), NEW by, NEW u, u = Asking(t, by)
    PROVE  Recalls(u)
BY SameRecalls DEF Asking, Recalls, Fields

LEMMA ResumeRecalls ==
    ASSUME Bounded, NEW t, Recalls(t), NEW u, u = Resume(t)
    PROVE  Recalls(u)
<1>1. PICK v : v = ResumeHandoff(t)
  OBVIOUS
<1>2. \/ v = t \/ v = Ingest([t EXCEPT !.handoff = None], FALSE)
      \/ v = Asking([t EXCEPT !.handoff = "reading"], "handoff")
  BY <1>1 DEF ResumeHandoff
<1>3. Recalls([t EXCEPT !.handoff = None]) /\ Recalls([t EXCEPT !.handoff = "reading"])
  BY SameRecalls DEF Recalls, Fields
<1>4. Recalls(v)
  BY <1>2, <1>3, IngestRecalls, AskingRecalls
<1>5. u = v \/ u = Asking([v EXCEPT !.gate = "reading"], "context")
  BY <1>1 DEF Resume, ResumeGate
<1>6. Recalls([v EXCEPT !.gate = "reading"])
  BY <1>4, SameRecalls DEF Recalls, Fields
<1> QED
  BY <1>4, <1>5, <1>6, AskingRecalls

LEMMA ReleaseRecalls ==
    ASSUME NEW t, Recalls(t), NEW s, NEW w, NEW u, u = Release(t, s, w)
    PROVE  Recalls(u) /\ ShowsAlike(t, u)
<1>1. PICK v : v = [t EXCEPT !.own = @ \ {s}]
  OBVIOUS
<1>2. Recalls(v) /\ ShowsAlike(t, v)
  BY <1>1, SameRecalls DEF Recalls, Fields, ShowsAlike
<1>3. /\ DOMAIN u = DOMAIN v /\ u.undo = v.undo /\ u.waiting = v.waiting /\ u.props = v.props
      /\ ShowsAlike(v, u)
  BY <1>1, <1>2 DEF Release, Recalls, Fields, ShowsAlike
<1> QED
  BY <1>2, <1>3, SameRecalls DEF Recalls, ShowsAlike

LEMMA FinallyRecalls ==
    ASSUME NEW t, Recalls(t), NEW s, NEW w, NEW reread, NEW u, u = Finally(t, s, w, reread)
    PROVE  Recalls(u) /\ ShowsAlike(t, u)
<1>1. PICK v : v = Release(t, s, w)
  OBVIOUS
<1>2. Recalls(v) /\ ShowsAlike(t, v)
  BY <1>1, ReleaseRecalls
<1>3. u = v \/ u = [v EXCEPT !.dirty[w.date] = FALSE]
  BY <1>1 DEF Finally, Acknowledge
<1> QED
  BY <1>2, <1>3, SameRecalls DEF Recalls, Fields, ShowsAlike

\* A write was made of what its day held, and an accepted one was the next after that.
Faithful(w) ==
    IF ~Open(w) THEN w = Idle
    ELSE /\ w.date \in Dates /\ w.rev \in 0 .. Revision(w.date)
         /\ w.blocks = day[w.date][w.rev + 1]
         /\ w.stage # "sent" /\ w.reply.kind = "accepted" => w.reply.rev \in {w.rev, w.rev + 1}
         /\ w.stage = "reviewing" => w.kind = "review" /\ w.reply.kind = "accepted"
         /\ w.kind = "undo" =>
               /\ EntryTrue(w.entry) /\ w.entry.date = w.date
               /\ w.stage = "sent" => w.entry.expected = w.rev
               /\ w.stage # "sent" /\ w.reply.kind = "accepted" => w.reply.blocks = w.entry.before

Recorded(t, wr) == Recalls(t) /\ \A s \in Slots : Faithful(wr[s])

Limited == \A d \in Dates : Len(day[d]) <= MaxRevision + 1

LEMMA LeasedRecalls ==
    ASSUME NEW t, Recalls(t), NEW s, NEW u, u = Leased(t, s)
    PROVE  Recalls(u)
<1>1. /\ DOMAIN u = DOMAIN t /\ u.undo = t.undo /\ u.waiting = t.waiting /\ u.props = t.props
      /\ u.date = t.date /\ u.rev = t.rev /\ u.blocks = t.blocks
  BY DEF Leased, Recalls, Fields
<1> QED
  BY <1>1, SameRecalls DEF Recalls

\* A write is made of what the page shows, which is what the day held.
LEMMA CaptureFaithful ==
    ASSUME Distinct, DaysOK, NEW t, t.date \in Dates, Recalls(t), t.rev # None, NEW kind,
           NEW w, w = Capture(t, kind)
    PROVE  /\ w.kind = kind /\ w.stage = "sent" /\ w.date = t.date /\ w.rev = t.rev /\ Open(w)
           /\ kind # "undo" => Faithful(w)
           /\ \A e : /\ EntryTrue(e) /\ e.date = t.date /\ e.expected = t.rev
                     => Faithful([w EXCEPT !.entry = e])
<1>1. /\ w.kind = kind /\ w.stage = "sent" /\ w.date = t.date /\ w.rev = t.rev /\ w.blocks = t.blocks
      /\ Open(w)
  BY DEF Capture, Open
<1>2. t.rev \in 0 .. Revision(t.date) /\ t.blocks = day[t.date][t.rev + 1]
  BY DEF Recalls, ShownTrue
<1>3. ASSUME NEW e, EntryTrue(e), e.date = t.date, e.expected = t.rev
      PROVE  Faithful([w EXCEPT !.entry = e])
  <2>1. PICK x : x = [w EXCEPT !.entry = e]
    OBVIOUS
  <2>2. /\ x.kind = kind /\ x.stage = "sent" /\ x.date = t.date /\ x.rev = t.rev /\ x.blocks = t.blocks
        /\ x.entry = e /\ Open(x)
    BY <2>1 DEF Capture, Open
  <2>3. Faithful(x)
    BY <1>2, <1>3, <2>2 DEF Faithful
  <2> QED
    BY <2>1, <2>3
<1> QED
  BY <1>1, <1>2, <1>3 DEF Faithful

\* An entry of a history may be exchanged for another true one.
LEMMA ReplaceKeeps ==
    ASSUME NEW u, Truthful(u), NEW i \in 1 .. Len(u), NEW x, EntryTrue([u[i] EXCEPT !.expected = x])
    PROVE  Truthful([u EXCEPT ![i].expected = x])
<1>1. PICK S : u \in Seq(S)
  BY DEF Truthful
<1>2. PICK e : e = [u[i] EXCEPT !.expected = x]
  OBVIOUS
<1>3. PICK T : T = S \union {e}
  OBVIOUS
<1>4. PICK v : v = [u EXCEPT ![i] = e]
  OBVIOUS
<1>5. u \in Seq(T) /\ e \in T
  BY <1>1, <1>3
<1>6. v \in Seq(T) /\ Len(v) = Len(u) /\ \A j \in 1 .. Len(u) : v[j] = IF j = i THEN e ELSE u[j]
  BY <1>4, <1>5
<1>7. Truthful(v)
  BY <1>2, <1>6 DEF Truthful
<1> QED
  BY <1>2, <1>4, <1>7

-----------------------------------------------------------------------------
(* What a settled write makes of the history *)

\* The page shows what a confirmed write made of the day.
Confirmed(t, w) ==
    /\ t.date = w.date /\ t.rev \in {w.rev, w.rev + 1}
    /\ w.kind = "undo" => t.blocks = w.entry.before

\* A confirmed write that changed the day is pushed as an entry true of it.
LEMMA PushRecalls ==
    ASSUME Distinct, Bounded, NEW t, Recalls(t), NEW w, Faithful(w), Open(w), Confirmed(t, w),
           t.blocks # w.blocks, NEW u, u = PushUndo(t, w)
    PROVE  Recalls(u) /\ ShowsAlike(t, u)
<1> DEFINE kept == IF Continues(t, w.date, w.rev) THEN t ELSE InvalidateHistory(t, w.date)
           entry == [date |-> w.date, before |-> w.blocks, previous |-> w.rev,
                     expected |-> t.rev, made |-> t.rev]
           pushed == Append(kept.undo, entry)
<1>1. Recalls(kept) /\ ShowsAlike(t, kept)
  BY InvalidateRecalls DEF ShowsAlike
<1>2. EntryTrue(entry)
  <2>1. /\ w.date \in Dates /\ w.rev \in 0 .. Revision(w.date) /\ w.blocks = day[w.date][w.rev + 1]
    BY DEF Faithful
  <2>2. t.rev # None /\ t.rev \in Nat
    BY <2>1 DEF Confirmed, Distinct
  <2>3. t.rev \in 0 .. Revision(w.date) /\ t.blocks = day[w.date][t.rev + 1]
    BY <2>2 DEF Recalls, ShownTrue, Confirmed
  <2>4. t.rev = w.rev + 1
    BY <2>1, <2>3 DEF Confirmed
  <2>5. t.rev \in 1 .. Revision(w.date) /\ w.rev = t.rev - 1
    BY <2>1, <2>3, <2>4
  <2> QED
    BY <2>1, <2>3, <2>4, <2>5 DEF EntryTrue, EntryFields
<1>3. Truthful(IF Len(pushed) > MaxUndo THEN Tail(pushed) ELSE pushed)
  <2> HIDE DEF entry, kept
  <2> QED
    BY <1>1, <1>2, PushKeeps DEF Recalls
<1>4. u = [kept EXCEPT !.undo = IF Len(pushed) > MaxUndo THEN Tail(pushed) ELSE pushed]
  BY DEF PushUndo
<1> HIDE DEF kept, pushed
<1>5. Recalls(u) /\ ShowsAlike(kept, u)
  BY <1>1, <1>3, <1>4, UndoRecalls
<1> QED
  BY <1>1, <1>5 DEF ShowsAlike

\* The entry below a spent one joins the restored content, which it had led to.
LEMMA ReboundRecalls ==
    ASSUME Distinct, Bounded, NEW t, Recalls(t), NEW w, Faithful(w), Open(w), Confirmed(t, w),
           w.kind = "undo", NEW u, u = Rebound(t, w)
    PROVE  Recalls(u) /\ ShowsAlike(t, u)
<1> DEFINE i == LastEntry(t, w.date)
<1>1. CASE EntriesOf(t, w.date) = {}
  BY <1>1 DEF Rebound, ShowsAlike
<1>2. CASE EntriesOf(t, w.date) # {} /\ t.undo[i].expected # w.entry.previous
  BY <1>2, InvalidateRecalls DEF Rebound
<1>3. CASE EntriesOf(t, w.date) # {} /\ t.undo[i].expected = w.entry.previous
  <2>1. u = [t EXCEPT !.undo[i].expected = t.rev]
    BY <1>3 DEF Rebound
  <2>2. i \in 1 .. Len(t.undo) /\ t.undo[i].date = w.date /\ EntryTrue(t.undo[i])
    BY <1>3, LastEntryIs DEF Recalls
  <2> HIDE DEF i
  <2>3. PICK e : e = t.undo[i]
    OBVIOUS
  <2>4. /\ w.date \in Dates /\ EntryTrue(w.entry) /\ w.entry.date = w.date /\ w.rev \in Nat
    BY DEF Faithful
  <2>5. t.rev # None /\ t.rev \in 0 .. Revision(w.date) /\ t.blocks = day[w.date][t.rev + 1]
    BY <2>4 DEF Confirmed, Distinct, Recalls, ShownTrue
  <2>6. w.entry.made \in Nat /\ w.entry.previous + 1 = w.entry.made
    BY <2>4 DEF EntryTrue
  <2>7. t.blocks = day[w.date][w.entry.made]
    BY <2>4 DEF EntryTrue, Confirmed
  <2>8. day[w.date][e.expected + 1] = day[w.date][e.made + 1]
    BY <2>2, <2>3 DEF EntryTrue
  <2>9. e.expected = w.entry.previous
    BY <1>3, <2>3
  <2>10. day[w.date][t.rev + 1] = day[w.date][e.made + 1]
    BY <2>5, <2>6, <2>7, <2>8, <2>9
  <2>11. EntryTrue([e EXCEPT !.expected = t.rev])
    <3>1. PICK x : x = [e EXCEPT !.expected = t.rev]
      OBVIOUS
    <3>2. /\ DOMAIN x = EntryFields /\ x.date = e.date /\ x.made = e.made /\ x.previous = e.previous
          /\ x.before = e.before /\ x.expected = t.rev
      BY <2>2, <2>3, <3>1 DEF EntryTrue, EntryFields
    <3> QED
      BY <2>2, <2>3, <2>5, <2>10, <3>1, <3>2 DEF EntryTrue
  <2>12. Truthful([t.undo EXCEPT ![i].expected = t.rev])
    BY <2>2, <2>3, <2>11, ReplaceKeeps DEF Recalls
  <2>13. u = [t EXCEPT !.undo = [t.undo EXCEPT ![i].expected = t.rev]]
    BY <2>1 DEF Recalls, Fields
  <2> QED
    BY <2>12, <2>13, UndoRecalls
<1> QED
  BY <1>1, <1>2, <1>3

LEMMA HistoryRecalls ==
    ASSUME Distinct, Bounded, NEW t, Recalls(t), NEW w, NEW confirmed,
           confirmed => Faithful(w) /\ Open(w) /\ Confirmed(t, w), NEW u, u = History(t, w, confirmed)
    PROVE  Recalls(u) /\ ShowsAlike(t, u)
<1>1. CASE w.kind = "undo"
  <2>1. PICK v : v = Spent(t, w)
    OBVIOUS
  <2>2. Recalls(v) /\ ShowsAlike(t, v)
    BY <2>1, SpentRecalls
  <2>3. CASE ~IsCurrent(t, w)
    BY <1>1, <2>1, <2>2, <2>3 DEF History, UndoDone
  <2>4. CASE IsCurrent(t, w) /\ confirmed
    <3>1. u = Rebound(v, w)
      BY <1>1, <2>1, <2>4 DEF History, UndoDone
    <3>2. Confirmed(v, w)
      BY <2>2, <2>4 DEF Confirmed, ShowsAlike
    <3>3. Recalls(u) /\ ShowsAlike(v, u)
      BY <1>1, <2>2, <2>4, <3>1, <3>2, ReboundRecalls
    <3> QED
      BY <2>2, <3>3 DEF ShowsAlike
  <2>5. CASE IsCurrent(t, w) /\ ~confirmed
    <3>1. u = InvalidateHistory(v, w.date)
      BY <1>1, <2>1, <2>5 DEF History, UndoDone
    <3>2. Recalls(u) /\ ShowsAlike(v, u)
      BY <2>2, <3>1, InvalidateRecalls
    <3> QED
      BY <2>2, <3>2 DEF ShowsAlike
  <2> QED
    BY <2>3, <2>4, <2>5
<1>2. CASE w.kind # "undo" /\ confirmed /\ t.blocks # w.blocks
  BY <1>2, PushRecalls DEF History
<1>3. CASE w.kind # "undo" /\ ~(confirmed /\ t.blocks # w.blocks)
  BY <1>3 DEF History, ShowsAlike
<1> QED
  BY <1>1, <1>2, <1>3

\* The end of a write leaves what is recorded, and so does the next check of the queue.
LEMMA EndRecorded ==
    ASSUME Distinct, Bounded, DOMAIN write = Slots, \A q \in Slots : Faithful(write[q]), NEW s \in Slots,
           NEW t, Recalls(t), End(s, t)
    PROVE  Recorded(tab', write')
<1>1. Recalls(tab')
  BY ResumeRecalls DEF End
<1>2. \A q \in Slots : Faithful(write'[q])
  BY IdleWrite DEF End, Faithful
<1> QED
  BY <1>1, <1>2 DEF Recorded

LEMMA FinishRecorded ==
    ASSUME Distinct, Bounded, DaysOK, DOMAIN write = Slots, \A q \in Slots : Faithful(write[q]),
           NEW s \in Slots, NEW t, t.date \in Dates, Recalls(t), NEW w, NEW confirmed,
           confirmed => Faithful(w) /\ Open(w) /\ Confirmed(t, w), Finish(s, t, w, confirmed)
    PROVE  Recorded(tab', write')
<1>1. CASE w.kind = "check" /\ t.waiting > 0 /\ ~ChainBroken(confirmed) /\ Editable(t)
  <2>1. PICK h : h = History(t, w, confirmed)
    OBVIOUS
  <2>2. Recalls(h) /\ ShowsAlike(t, h)
    BY <2>1, HistoryRecalls
  <2>3. PICK v : v = [h EXCEPT !.waiting = @ - 1, !.chain = IF confirmed THEN h.rev ELSE @]
    OBVIOUS
  <2>4. write' = [write EXCEPT ![s] = Capture(h, "check")] /\ tab' = Leased(v, s)
    BY <1>1, <2>1, <2>3 DEF Finish, NextCheck
  <2>5. h.rev # None /\ h.date \in Dates /\ h.waiting \in 0 .. MaxChecks /\ h.waiting > 0
    BY <1>1, <2>2 DEF ShowsAlike, Editable, Recalls
  <2>6. Recalls(v)
    <3>1. /\ DOMAIN v = Fields /\ v.undo = h.undo /\ v.waiting = h.waiting - 1 /\ v.props = h.props
          /\ v.date = h.date /\ v.rev = h.rev /\ v.blocks = h.blocks
      BY <2>2, <2>3 DEF Recalls, Fields
    <3>2. v.waiting \in 0 .. MaxChecks
      BY <2>5, <3>1 DEF Bounded
    <3> QED
      BY <2>2, <3>1, <3>2 DEF Recalls, PropsReal, ShownTrue
  <2>7. Faithful(Capture(h, "check"))
    BY <2>2, <2>5, CaptureFaithful
  <2> QED
    BY <2>4, <2>6, <2>7, LeasedRecalls DEF Recorded
<1>2. CASE ~(w.kind = "check" /\ t.waiting > 0 /\ ~ChainBroken(confirmed) /\ Editable(t))
  <2>1. PICK v : v = [t EXCEPT !.waiting = IF w.kind = "check" THEN 0 ELSE @]
    OBVIOUS
  <2>2. PICK h : h = History(v, w, confirmed)
    OBVIOUS
  <2>3. End(s, h)
    BY <1>2, <2>1, <2>2 DEF Finish
  <2>4. /\ DOMAIN v = Fields /\ v.undo = t.undo /\ v.waiting \in {0, t.waiting} /\ v.props = t.props
        /\ v.date = t.date /\ v.rev = t.rev /\ v.blocks = t.blocks
    BY <2>1 DEF Recalls, Fields
  <2>5. Recalls(v)
    BY <2>4 DEF Recalls, PropsReal, ShownTrue, Bounded
  <2>6. confirmed => Faithful(w) /\ Open(w) /\ Confirmed(v, w)
    BY <2>4 DEF Confirmed
  <2>7. Recalls(h)
    BY <2>2, <2>5, <2>6, HistoryRecalls
  <2> QED
    BY <2>3, <2>7, EndRecorded
<1> QED
  BY <1>1, <1>2

LEMMA ResetRecalls ==
    ASSUME Bounded, NEW t, Recalls(t), NEW reason, NEW u, u = Reset(t, reason)
    PROVE  Recalls(u)
<1>1. /\ DOMAIN u = Fields /\ u.undo \in {t.undo, <<>>} /\ u.waiting = 0 /\ u.props = t.props
      /\ u.date = t.date /\ u.rev = None
  BY DEF Reset, Recalls, Fields
<1>2. Truthful(u.undo)
  BY <1>1, NoHistory DEF Recalls
<1> QED
  BY <1>1, <1>2 DEF Recalls, PropsReal, ShownTrue, Bounded

LEMMA ForgetRecalls ==
    ASSUME NEW t, Recalls(t), NEW u, u = Forget(t)
    PROVE  Recalls(u)
BY SameRecalls DEF Forget, Recalls, Fields

LEMMA DepartedRecalls ==
    ASSUME Bounded, NEW t, Recalls(t), NEW w, NEW u, u = Departed(t, w)
    PROVE  Recalls(u)
BY SpentRecalls DEF Departed

LEMMA UnleasedRecalls ==
    ASSUME NEW t, Recalls(t), NEW phase, NEW u, u = Unleased(t, phase)
    PROVE  Recalls(u) /\ ShowsAlike(t, u)
BY SameRecalls DEF Unleased, Recalls, Fields, ShowsAlike

-----------------------------------------------------------------------------
(* The history through the actions of the page *)

LEMMA BeginRecorded ==
    ASSUME Distinct, Bounded, IInv, Recorded(tab, write), NEW s \in Slots, NEW w, Faithful(w), Begin(s, w)
    PROVE  Recorded(tab', write')
<1>1. PICK t : t = [tab EXCEPT !.chain = IF w.kind = "check" THEN tab.rev ELSE @]
  OBVIOUS
<1>2. write' = [write EXCEPT ![s] = w] /\ tab' = Leased(t, s)
  BY <1>1 DEF Begin
<1>3. Recalls(t)
  BY <1>1, SameRecalls DEF Recorded, Recalls, Fields
<1>4. \A q \in Slots : Faithful(write'[q])
  BY <1>2, IInvParts DEF Recorded
<1> QED
  BY <1>2, <1>3, <1>4, LeasedRecalls DEF Recorded

LEMMA WritersRecorded ==
    ASSUME Distinct, Bounded, IInv, Recorded(tab, write), NEW s \in Slots, Edit(s) \/ Check(s) \/ Undo(s)
    PROVE  Recorded(tab', write')
<1>1. tab.date \in Dates /\ DaysOK /\ Recalls(tab)
  BY IInvParts DEF Recorded, IsTab
<1>2. CASE Edit(s)
  <2>1. PICK kind \in {"edit", "review"} : Begin(s, Capture(tab, kind))
    BY <1>2 DEF Edit
  <2>2. Faithful(Capture(tab, kind))
    BY <1>1, <2>1, CaptureFaithful DEF Begin, Editable
  <2> QED
    BY <2>1, <2>2, BeginRecorded
<1>3. CASE Check(s)
  BY <1>1, <1>3, CaptureFaithful, BeginRecorded DEF Begin, Editable, Check
<1>4. CASE Undo(s)
  <2>1. PICK e : e = TopEntry
    OBVIOUS
  <2>2. /\ Begin(s, [Capture(tab, "undo") EXCEPT !.entry = e])
        /\ EntriesOf(tab, tab.date) # {} /\ e.expected = tab.rev /\ tab.rev # None
    BY <1>4, <2>1 DEF Undo, Begin, Editable
  <2>3. EntryTrue(e) /\ e.date = tab.date
    BY <1>1, <2>1, <2>2, LastEntryIs DEF TopEntry, Recalls
  <2>4. Faithful([Capture(tab, "undo") EXCEPT !.entry = e])
    BY <1>1, <2>2, <2>3, CaptureFaithful
  <2> QED
    BY <2>2, <2>4, BeginRecorded
<1> QED
  BY <1>2, <1>3, <1>4

LEMMA UndoMismatchRecorded ==
    ASSUME Distinct, Bounded, IInv, Recorded(tab, write), NEW s \in Slots, UndoMismatch(s)
    PROVE  Recorded(tab', write')
<1>1. tab.date \in Dates /\ DaysOK /\ Recalls(tab) /\ tab.rev # None
  BY IInvParts DEF Recorded, IsTab, UndoMismatch, Editable
<1>2. PICK e : e = TopEntry
  OBVIOUS
<1>3. PICK w : w = [Capture(tab, "undo") EXCEPT !.entry = e, !.stage = "answered",
                    !.reply = [kind |-> "conflict", rev |-> None, blocks |-> None]]
  OBVIOUS
<1>4. /\ write' = [write EXCEPT ![s] = w] /\ tab' = InvalidateHistory(Leased(tab, s), tab.date)
      /\ EntriesOf(tab, tab.date) # {}
  BY <1>2, <1>3 DEF UndoMismatch
<1>5. EntryTrue(e) /\ e.date = tab.date
  BY <1>1, <1>2, <1>4, LastEntryIs DEF TopEntry, Recalls
<1>6. Faithful(w)
  <2>1. /\ w.kind = "undo" /\ w.stage = "answered" /\ w.date = tab.date /\ w.rev = tab.rev
        /\ w.blocks = tab.blocks /\ w.entry = e /\ w.reply.kind = "conflict" /\ Open(w)
    BY <1>3 DEF Capture, Open
  <2> QED
    BY <1>1, <1>5, <2>1 DEF Faithful, Recalls, ShownTrue
<1>7. Recalls(tab')
  BY <1>1, <1>4, LeasedRecalls, InvalidateRecalls
<1>8. \A q \in Slots : Faithful(write'[q])
  BY <1>4, <1>6, IInvParts DEF Recorded
<1> QED
  BY <1>7, <1>8 DEF Recorded

LEMMA QueueRecorded ==
    ASSUME Distinct, Bounded, Recorded(tab, write), QueueCheck \/ CaptureFailure
    PROVE  Recorded(tab', write')
<1>1. CASE QueueCheck
  <2>1. /\ DOMAIN tab' = Fields /\ tab'.undo = tab.undo /\ tab'.waiting = tab.waiting + 1
        /\ tab'.props = tab.props /\ tab'.date = tab.date /\ tab'.rev = tab.rev
        /\ tab'.blocks = tab.blocks /\ write' = write /\ tab.waiting < MaxChecks
    BY <1>1 DEF QueueCheck, Recorded, Recalls, Fields
  <2>2. tab'.waiting \in 0 .. MaxChecks
    BY <2>1 DEF Recorded, Recalls, Bounded
  <2> QED
    BY <2>1, <2>2 DEF Recorded, Recalls, PropsReal, ShownTrue
<1>2. CASE CaptureFailure
  <2>1. write' = write /\ tab' = Asking(tab, "capture")
    BY <1>2 DEF CaptureFailure
  <2> QED
    BY <2>1, AskingRecalls DEF Recorded
<1> QED
  BY <1>1, <1>2

LEMMA DeclineRecorded ==
    ASSUME Distinct, IInv, Recorded(tab, write), NEW s \in Slots, Decline(s)
    PROVE  Recorded(tab', write')
<1>1. PICK reply : Answer(s, reply) /\ reply.kind # "accepted"
  BY DEF Decline, Reply
<1>2. tab' = tab /\ write[s].stage = "sent" /\ Faithful(write[s])
  BY DEF Decline, Recorded
<1>3. /\ \A q \in Slots : q # s => write'[q] = write[q]
      /\ write'[s].stage = "answered" /\ write'[s].reply = reply
      /\ write'[s].date = write[s].date /\ write'[s].kind = write[s].kind /\ write'[s].rev = write[s].rev
      /\ write'[s].blocks = write[s].blocks /\ write'[s].entry = write[s].entry
  BY <1>1, <1>2, IInvParts DEF Answer, IsWrite, WriteFields, Open
<1>4. Faithful(write'[s])
  BY <1>1, <1>2, <1>3 DEF Faithful, Open
<1> QED
  BY <1>2, <1>3, <1>4 DEF Recorded

LEMMA SignedOutRecorded ==
    ASSUME Distinct, Bounded, IInv, Recorded(tab, write), NEW s \in Slots, SettleSignedOut(s)
    PROVE  Recorded(tab', write')
<1>1. PICK t : t = IF IsCurrent(tab, write[s]) THEN Forget(Reset(tab, "session")) ELSE tab
  OBVIOUS
<1>2. End(s, Release(t, s, write[s]))
  BY <1>1 DEF SettleSignedOut
<1>3. Recalls(t)
  BY <1>1, ResetRecalls, ForgetRecalls DEF Recorded
<1> QED
  BY <1>2, <1>3, ReleaseRecalls, EndRecorded, IInvParts DEF Recorded

LEMMA SettleDepartedRecorded ==
    ASSUME Distinct, Bounded, IInv, Recorded(tab, write), NEW s \in Slots, SettleDeparted(s)
    PROVE  Recorded(tab', write')
<1>1. PICK t : t = Release(tab, s, write[s])
  OBVIOUS
<1>2. PICK u : /\ End(s, u)
               /\ u = InvalidateHistory(t, write[s].date) \/ u = Departed(t, write[s])
  BY <1>1 DEF SettleDeparted
<1>3. Recalls(t)
  BY <1>1, ReleaseRecalls DEF Recorded
<1>4. Recalls(u)
  BY <1>2, <1>3, InvalidateRecalls, DepartedRecalls
<1> QED
  BY <1>2, <1>4, EndRecorded, IInvParts DEF Recorded

LEMMA RejectedRecorded ==
    ASSUME Distinct, Bounded, IInv, Recorded(tab, write), NEW s \in Slots, SettleRejected(s)
    PROVE  Recorded(tab', write')
<1>0. /\ DOMAIN write = Slots /\ \A q \in Slots : Faithful(write[q])
      /\ DaysOK /\ tab.date \in Dates /\ Recalls(tab)
  BY IInvParts DEF Recorded, IsTab
<1>1. PICK v : v = Unleased(tab, "idle")
  OBVIOUS
<1>2. PICK t : t = Release(v, s, write[s])
  OBVIOUS
<1>3. Recalls(v) /\ ShowsAlike(tab, v)
  BY <1>0, <1>1, UnleasedRecalls
<1>4. Recalls(t) /\ ShowsAlike(v, t)
  BY <1>2, <1>3, ReleaseRecalls
<1>5. t.date \in Dates
  BY <1>0, <1>3, <1>4 DEF ShowsAlike
<1>6. CASE write[s].kind = "undo"
  <2>1. End(s, t)
    BY <1>1, <1>2, <1>6 DEF SettleRejected
  <2> QED
    BY <1>0, <1>4, <2>1, EndRecorded
<1>7. CASE write[s].kind # "undo"
  <2>1. PICK confirmed \in BOOLEAN : ~confirmed
    OBVIOUS
  <2>2. Finish(s, t, write[s], confirmed)
    BY <1>1, <1>2, <1>7, <2>1 DEF SettleRejected
  <2> QED
    BY <1>0, <1>4, <1>5, <2>1, <2>2, FinishRecorded
<1> QED
  BY <1>6, <1>7

LEMMA AcceptedRecalls ==
    ASSUME NEW t, Recalls(t), NEW w, IsWrite(w), w.stage = "answered", w.reply.kind = "accepted",
           w.date = t.date, NEW u, u = Accepted(t, w)
    PROVE  /\ Recalls(u) /\ u.date = t.date /\ u.rev = w.reply.rev /\ u.blocks = w.reply.blocks
           /\ u.waiting = t.waiting /\ u.gen = t.gen /\ u.live = t.live
<1>1. /\ DOMAIN u = Fields /\ u.undo = t.undo /\ u.waiting = t.waiting /\ u.props = t.props
      /\ u.date = t.date /\ u.rev = w.reply.rev /\ u.blocks = w.reply.blocks
      /\ u.gen = t.gen /\ u.live = t.live
  BY DEF Accepted, Recalls, Fields
<1>2. /\ w.reply.rev \in 0 .. Revision(w.date)
      /\ w.reply.blocks = day[w.date][w.reply.rev + 1]
  BY DEF IsWrite, Open, ReplyReal
<1> QED
  BY <1>1, <1>2 DEF Recalls, PropsReal, ShownTrue

LEMMA SettleAcceptedRecorded ==
    ASSUME Distinct, Bounded, IInv, Recorded(tab, write), NEW s \in Slots, SettleAccepted(s)
    PROVE  Recorded(tab', write')
<1>0. /\ DOMAIN write = Slots /\ \A q \in Slots : Faithful(write[q])
      /\ DaysOK /\ tab.date \in Dates /\ Recalls(tab) /\ IsWrite(write[s])
  BY IInvParts DEF Recorded, IsTab
<1>1. PICK w : w = write[s]
  OBVIOUS
<1>2. PICK t : t = Accepted(tab, w)
  OBVIOUS
<1>3. PICK v : v = Unleased(t, "idle")
  OBVIOUS
<1>4. PICK u : u = Finally(v, s, w, FALSE)
  OBVIOUS
<1>5. /\ w.stage = "answered" /\ w.reply.kind = "accepted" /\ w.date = tab.date
      /\ Finish(s, u, w, TRUE)
  BY <1>1, <1>2, <1>3, <1>4 DEF SettleAccepted, Replied, IsCurrent
<1>6. Recalls(t) /\ t.date = tab.date /\ t.rev = w.reply.rev /\ t.blocks = w.reply.blocks
  BY <1>0, <1>1, <1>2, <1>5, AcceptedRecalls
<1>7. Recalls(v) /\ ShowsAlike(t, v)
  BY <1>3, <1>6, UnleasedRecalls
<1>8. Recalls(u) /\ ShowsAlike(v, u)
  BY <1>4, <1>7, FinallyRecalls
<1>9. Faithful(w) /\ Open(w)
  BY <1>0, <1>1, <1>5 DEF Open
<1>10. /\ u.date = w.date /\ u.rev = w.reply.rev /\ u.blocks = w.reply.blocks /\ u.date \in Dates
  BY <1>0, <1>5, <1>6, <1>7, <1>8 DEF ShowsAlike
<1>11. Confirmed(u, w)
  BY <1>5, <1>9, <1>10 DEF Confirmed, Faithful
<1>12. PICK confirmed \in BOOLEAN : confirmed = TRUE /\ Finish(s, u, w, confirmed)
  BY <1>5
<1> QED
  BY <1>0, <1>8, <1>9, <1>10, <1>11, <1>12, FinishRecorded

\* A write whose page reloads is what it was.
LEMMA ReloadFaithful ==
    ASSUME DOMAIN write = Slots, \A q \in Slots : Faithful(write[q]), NEW s \in Slots, IsWrite(write[s]),
           write[s].stage = "answered", NEW stage \in {"reading", "reviewing"},
           stage = "reviewing" => write[s].kind = "review" /\ write[s].reply.kind = "accepted",
           write' = [write EXCEPT ![s].stage = stage]
    PROVE  \A q \in Slots : Faithful(write'[q])
<1>1. Faithful(write[s]) /\ Open(write[s])
  BY DEF Open
<1>2. /\ write'[s].stage = stage /\ write'[s].reply = write[s].reply /\ Open(write'[s])
      /\ write'[s].date = write[s].date /\ write'[s].kind = write[s].kind /\ write'[s].rev = write[s].rev
      /\ write'[s].blocks = write[s].blocks /\ write'[s].entry = write[s].entry
  BY <1>1 DEF IsWrite, WriteFields, Open
<1>3. Faithful(write'[s])
  BY <1>1, <1>2 DEF Faithful
<1> QED
  BY <1>3

LEMMA ReviewRecorded ==
    ASSUME Distinct, Bounded, IInv, Recorded(tab, write), NEW s \in Slots, SettleReview(s)
    PROVE  Recorded(tab', write')
<1>0. /\ DOMAIN write = Slots /\ \A q \in Slots : Faithful(write[q])
      /\ Recalls(tab) /\ IsWrite(write[s])
  BY IInvParts DEF Recorded
<1>1. PICK t : t = Accepted(tab, write[s])
  OBVIOUS
<1>2. PICK v : v = [t EXCEPT !.phase = "synchronizing"]
  OBVIOUS
<1>3. PICK stage \in {"reading", "reviewing"} : stage = "reviewing"
  OBVIOUS
<1>4. /\ write[s].stage = "answered" /\ write[s].reply.kind = "accepted" /\ write[s].date = tab.date
      /\ write[s].kind = "review" /\ write' = [write EXCEPT ![s].stage = stage] /\ tab' = Asking(v, s)
  BY <1>1, <1>2, <1>3 DEF SettleReview, Replied, IsCurrent, Reload
<1>5. Recalls(t)
  BY <1>0, <1>1, <1>4, AcceptedRecalls
<1>6. Recalls(v)
  BY <1>2, <1>5, SameRecalls DEF Recalls, Fields
<1>7. \A q \in Slots : Faithful(write'[q])
  BY <1>0, <1>4, ReloadFaithful
<1> QED
  BY <1>4, <1>6, <1>7, AskingRecalls DEF Recorded

LEMMA UncertainRecorded ==
    ASSUME Distinct, Bounded, IInv, Recorded(tab, write), NEW s \in Slots, SettleUncertain(s)
    PROVE  Recorded(tab', write')
<1>0. /\ DOMAIN write = Slots /\ \A q \in Slots : Faithful(write[q])
      /\ Recalls(tab) /\ IsWrite(write[s])
  BY IInvParts DEF Recorded
<1>1. PICK phase : phase = IF write[s].reply.kind = "conflict" THEN "conflict" ELSE "synchronizing"
  OBVIOUS
<1>2. PICK v : v = [tab EXCEPT !.rev = None, !.phase = phase]
  OBVIOUS
<1>3. PICK t : t = InvalidateHistory(v, write[s].date)
  OBVIOUS
<1>4. PICK stage \in {"reading", "reviewing"} : stage = "reading"
  OBVIOUS
<1>5. /\ write[s].stage = "answered" /\ write' = [write EXCEPT ![s].stage = stage] /\ tab' = Asking(t, s)
  BY <1>1, <1>2, <1>3, <1>4 DEF SettleUncertain, Replied, Reload
<1>6. Recalls(v)
  BY <1>0, <1>2, SameRecalls DEF Recalls, Fields
<1>7. Recalls(t)
  BY <1>3, <1>6, InvalidateRecalls
<1>8. \A q \in Slots : Faithful(write'[q])
  BY <1>0, <1>4, <1>5, ReloadFaithful
<1> QED
  BY <1>5, <1>7, <1>8, AskingRecalls DEF Recorded

LEMMA AcknowledgeRecalls ==
    ASSUME NEW t, Recalls(t), NEW d, NEW rev, NEW auth, NEW u, u = Acknowledge(t, d, rev, auth)
    PROVE  Recalls(u)
<1>1. u = t \/ u = [t EXCEPT !.dirty[d] = FALSE]
  BY DEF Acknowledge
<1> QED
  BY <1>1, SameRecalls DEF Recalls, Fields

LEMMA PropsRecalls ==
    ASSUME NEW t, Recalls(t), NEW snapshot, Real(snapshot), snapshot.date = t.date,
           NEW u, u = WithProps(t, snapshot)
    PROVE  Recalls(u)
BY DEF WithProps, Recalls, Fields, PropsReal, ShownTrue

LEMMA DeliveredRecalls ==
    ASSUME Bounded, NEW t, Recalls(t), NEW r, NEW snapshot, Real(snapshot), snapshot.date = r.date,
           NEW u, u = Delivered(t, r, snapshot)
    PROVE  Recalls(u)
<1>1. CASE r.date # t.props.date \/ ~t.live
  BY <1>1 DEF Delivered
<1>2. CASE r.date = t.props.date /\ t.live
  <2>1. u = Watch(WithProps(t, snapshot))
    BY <1>2 DEF Delivered, WithProps
  <2>2. snapshot.date = t.date
    BY <1>2 DEF Recalls, PropsReal
  <2> QED
    BY <2>1, <2>2, PropsRecalls, WatchRecalls
<1> QED
  BY <1>1, <1>2

LEMMA HandoffReadRecalls ==
    ASSUME Bounded, NEW t, Recalls(t), NEW ok, NEW u, u = AfterHandoffRead(t, ok)
    PROVE  Recalls(u)
<1>1. PICK shown : shown = IF ok /\ UpToDate(t) THEN Ingest(t, TRUE) ELSE t
  OBVIOUS
<1>2. PICK known : known = Acknowledge(shown, t.date, shown.rev, TRUE)
  OBVIOUS
<1>3. \/ u = [known EXCEPT !.handoff = None, !.phase = "idle"]
      \/ u = [shown EXCEPT !.handoff = "closed", !.failed = TRUE]
  BY <1>1, <1>2 DEF AfterHandoffRead
<1>4. Recalls(shown)
  BY <1>1, IngestRecalls
<1>5. Recalls(known)
  BY <1>2, <1>4, AcknowledgeRecalls
<1>6. CASE u = [known EXCEPT !.handoff = None, !.phase = "idle"]
  BY <1>5, <1>6, SameRecalls DEF Recalls, Fields
<1>7. CASE u = [shown EXCEPT !.handoff = "closed", !.failed = TRUE]
  BY <1>4, <1>7, SameRecalls DEF Recalls, Fields
<1> QED
  BY <1>3, <1>6, <1>7

LEMMA ContextReadRecalls ==
    ASSUME Bounded, NEW t, Recalls(t), NEW ok, NEW u, u = AfterContextRead(t, ok)
    PROVE  Recalls(u)
<1>1. PICK v : v = Ingest(t, TRUE)
  OBVIOUS
<1>2. u = [v EXCEPT !.gate = None] \/ u = [t EXCEPT !.gate = "closed", !.failed = TRUE]
  BY <1>1 DEF AfterContextRead
<1>3. Recalls(v)
  BY <1>1, IngestRecalls
<1>4. CASE u = [v EXCEPT !.gate = None]
  BY <1>3, <1>4, SameRecalls DEF Recalls, Fields
<1>5. CASE u = [t EXCEPT !.gate = "closed", !.failed = TRUE]
  BY <1>5, SameRecalls DEF Recalls, Fields
<1> QED
  BY <1>2, <1>4, <1>5

\* The caller of a write goes on after its reload, as Finish does.
LEMMA AfterReloadRecorded ==
    ASSUME Distinct, Bounded, DaysOK, DOMAIN write = Slots, \A q \in Slots : Faithful(write[q]),
           NEW s \in Slots, NEW t, t.date \in Dates, Recalls(t), Open(write[s]), write[s].date = t.date,
           write[s].stage \in {"reading", "reviewing"}, NEW ok \in BOOLEAN, AfterReload(s, t, write[s], ok)
    PROVE  Recorded(tab', write')
<1>1. PICK w : w = write[s]
  OBVIOUS
<1>2. CASE w.stage = "reviewing"
  <2>1. PICK v : v = Unleased(t, "idle")
    OBVIOUS
  <2>2. PICK reread : reread = (ok /\ t.rev # None)
    OBVIOUS
  <2>3. PICK u : u = Finally(v, s, w, reread)
    OBVIOUS
  <2>4. PICK confirmed : confirmed = (t.rev = w.reply.rev /\ t.blocks = w.reply.blocks)
    OBVIOUS
  <2>5. Finish(s, u, w, confirmed)
    BY <1>1, <1>2, <2>1, <2>2, <2>3, <2>4 DEF AfterReload
  <2>6. Recalls(v) /\ ShowsAlike(t, v)
    BY <2>1, UnleasedRecalls
  <2>7. Recalls(u) /\ ShowsAlike(v, u)
    BY <2>3, <2>6, FinallyRecalls
  <2>8. u.date = w.date /\ u.rev = t.rev /\ u.date \in Dates
    BY <1>1, <2>6, <2>7 DEF ShowsAlike
  <2>9. /\ w.reply.rev \in {w.rev, w.rev + 1} /\ w.kind # "undo" /\ Faithful(w) /\ Open(w)
    BY <1>1, <1>2 DEF Faithful
  <2>10. confirmed => Confirmed(u, w)
    BY <2>4, <2>8, <2>9 DEF Confirmed
  <2> QED
    BY <2>5, <2>7, <2>8, <2>9, <2>10, FinishRecorded
<1>3. CASE w.stage = "reading"
  <2>1. PICK phase : phase = IF ok /\ t.rev # None THEN "idle"
                             ELSE IF w.reply.kind = "conflict" THEN "conflict" ELSE "synchronizing"
    OBVIOUS
  <2>2. PICK v : v = Unleased(t, phase)
    OBVIOUS
  <2>3. PICK reread : reread = (ok /\ t.rev # None)
    OBVIOUS
  <2>4. PICK u : u = Finally(v, s, w, reread)
    OBVIOUS
  <2>5. PICK x : x = [w EXCEPT !.kind = IF @ = "check" THEN @ ELSE "edit"]
    OBVIOUS
  <2>6. PICK confirmed \in BOOLEAN : confirmed = FALSE
    OBVIOUS
  <2>7. Finish(s, u, x, confirmed)
    BY <1>1, <1>3, <2>1, <2>2, <2>3, <2>4, <2>5, <2>6 DEF AfterReload
  <2>8. Recalls(v) /\ ShowsAlike(t, v)
    BY <2>2, UnleasedRecalls
  <2>9. Recalls(u) /\ ShowsAlike(v, u)
    BY <2>4, <2>8, FinallyRecalls
  <2>10. u.date \in Dates
    BY <2>8, <2>9 DEF ShowsAlike
  <2> QED
    BY <2>6, <2>7, <2>9, <2>10, FinishRecorded
<1> QED
  BY <1>1, <1>2, <1>3

LEMMA ReadEndsRecorded ==
    ASSUME Distinct, Bounded, IInv, Recorded(tab, write), NEW r \in tab.reads, NEW ok \in BOOLEAN, NEW t,
           Recalls(t), t.date = tab.date, t.gen = tab.gen, t.live = tab.live, ReadEnds(t, r, ok)
    PROVE  Recorded(tab', write')
<1>0. /\ DOMAIN write = Slots /\ \A q \in Slots : Faithful(write[q])
      /\ DaysOK /\ tab.date \in Dates /\ Linked(tab, write) /\ Recalls(tab)
  BY IInvParts DEF Recorded, IsTab
<1>1. CASE r.by \in Slots
  <2>1. PICK s \in Slots : s = r.by
    BY <1>1
  <2>2. write[s].stage \in {"reading", "reviewing"} /\ write[s].gen = r.gen /\ Open(write[s])
    BY <1>0, <2>1 DEF Linked, ReadsLinked, Open
  <2>3. CASE ReadCurrent(t, r)
    <3>1. PICK u : u = Reconciled(t, ok)
      OBVIOUS
    <3>2. AfterReload(s, u, write[s], ok)
      BY <1>1, <2>1, <2>3, <3>1 DEF ReadEnds
    <3>3. Recalls(u) /\ u.date = t.date
      BY <3>1, IngestRecalls DEF Reconciled
    <3>4. tab.active = s
      BY <1>0, <2>2, <2>3 DEF ReadCurrent, Linked, OneLease
    <3>5. write[s].date = tab.date
      BY <1>0, <3>4, IInvParts DEF Linked, LeaseLinked, Distinct
    <3> QED
      BY <1>0, <2>2, <3>2, <3>3, <3>5, AfterReloadRecorded
  <2>4. CASE ~ReadCurrent(t, r)
    <3>1. End(s, Departed(Release(t, s, write[s]), write[s]))
      BY <1>1, <2>1, <2>4 DEF ReadEnds
    <3>2. Recalls(Release(t, s, write[s]))
      BY ReleaseRecalls
    <3>3. Recalls(Departed(Release(t, s, write[s]), write[s]))
      BY <3>2, DepartedRecalls
    <3> QED
      BY <1>0, <3>1, <3>3, EndRecorded
  <2> QED
    BY <2>3, <2>4
<1>2. CASE r.by \notin Slots
  <2>1. PICK u : u = CASE ~ReadCurrent(t, r) -> t
                       [] ReadCurrent(t, r) /\ r.by = "handoff" /\ t.handoff = "reading" ->
                                AfterHandoffRead(t, ok)
                       [] ReadCurrent(t, r) /\ r.by = "context" /\ t.gate = "reading" ->
                                AfterContextRead(t, ok)
                       [] OTHER -> t
    OBVIOUS
  <2>2. write' = write /\ tab' = Resume(u)
    BY <1>2, <2>1 DEF ReadEnds
  <2>3. u = t \/ u = AfterHandoffRead(t, ok) \/ u = AfterContextRead(t, ok)
    BY <2>1
  <2>4. Recalls(u)
    BY <2>3, HandoffReadRecalls, ContextReadRecalls
  <2> QED
    BY <1>0, <2>2, <2>4, ResumeRecalls DEF Recorded
<1> QED
  BY <1>1, <1>2

LEMMA ReadArrivesRecorded ==
    ASSUME Distinct, Bounded, IInv, Recorded(tab, write), NEW r \in tab.reads, ReadArrives(r)
    PROVE  Recorded(tab', write')
<1>0. /\ Linked(tab, write) /\ WritesOK(write) /\ DaysOK /\ IsTab(tab)
  BY IInvParts
<1>1. PICK t : t = [tab EXCEPT !.reads = @ \ {r}]
  OBVIOUS
<1>2. PICK snapshot \in Snapshots(r.date, r.from) : ReadEnds(Delivered(t, r, snapshot), r, TRUE)
  BY <1>1 DEF ReadArrives
<1>3. Real(snapshot) /\ snapshot.date = r.date
  BY <1>0, <1>2, ReadAt DEF Linked, ReadsLinked
<1>4. /\ IsTab(t) /\ t.reads = tab.reads \ {r} /\ t.chain = tab.chain /\ t.own = tab.own
      /\ t.live = tab.live /\ t.failed = tab.failed
  BY <1>0, <1>1 DEF IsTab, Fields
<1>5. Requeued([tab EXCEPT !.reads = t.reads], t)
  BY <1>0, <1>1 DEF Requeued, IsTab, Fields
<1>6. PageOK(t) /\ Exclusive(t) /\ Linked(t, write) /\ t.gen = tab.gen /\ t.date = tab.date
  BY <1>4, <1>5, WithoutRead DEF Calm
<1>7. PICK u : u = Delivered(t, r, snapshot)
  OBVIOUS
<1>8. Delivery(t, u)
  BY <1>0, <1>3, <1>6, <1>7, DeliveredOK DEF WritesOK
<1>9. Recalls(t)
  BY <1>1, SameRecalls DEF Recorded, Recalls, Fields
<1>10. Recalls(u)
  BY <1>3, <1>7, <1>9, DeliveredRecalls
<1>11. PICK ok \in BOOLEAN : ok = TRUE /\ ReadEnds(u, r, ok)
  BY <1>2, <1>7
<1> QED
  BY <1>4, <1>6, <1>8, <1>10, <1>11, ReadEndsRecorded DEF Delivery

LEMMA ReadFailsRecorded ==
    ASSUME Distinct, Bounded, IInv, Recorded(tab, write), NEW r \in tab.reads, ReadFails(r)
    PROVE  Recorded(tab', write')
<1>1. PICK failed : failed = (tab.failed \/ ReadCurrent(tab, r))
  OBVIOUS
<1>2. PICK t : t = [tab EXCEPT !.reads = @ \ {r}, !.failed = failed]
  OBVIOUS
<1>3. PICK ok \in BOOLEAN : ok = FALSE /\ ReadEnds(t, r, ok)
  BY <1>1, <1>2 DEF ReadFails
<1>4. Recalls(t) /\ t.date = tab.date /\ t.gen = tab.gen /\ t.live = tab.live
  BY <1>2, SameRecalls DEF Recorded, Recalls, Fields
<1> QED
  BY <1>3, <1>4, ReadEndsRecorded

LEMMA VisitArrivesRecorded ==
    ASSUME Distinct, Bounded, IInv, Recorded(tab, write), NEW remount \in BOOLEAN, VisitArrives(remount)
    PROVE  Recorded(tab', write')
<1>0. DaysOK /\ Recalls(tab)
  BY IInvParts DEF Recorded
<1> DEFINE Came(snapshot, t) ==
             /\ tab' = Resume(Watch(t))
             /\ \/ t = NewOwner(tab, tab.gen + 1, snapshot)
                \/ t = WithProps(tab, snapshot) /\ snapshot.date = tab.date
                \/ t = [Reset(WithProps(tab, snapshot), "date") EXCEPT !.date = snapshot.date]
<1>9. PICK snapshot \in Snapshots(visit.date, visit.from) : \E t : Came(snapshot, t)
  BY DEF VisitArrives, WithProps
<1>1. PICK t : Came(snapshot, t)
  BY <1>9
<1>2. Real(snapshot) /\ write' = write
  BY <1>0, ReadAt DEF VisitArrives, IInv, VisitOK
<1>3. ASSUME t = NewOwner(tab, tab.gen + 1, snapshot)
      PROVE  Recalls(t)
  <2>1. /\ DOMAIN t = Fields /\ t.undo = <<>> /\ t.waiting = 0 /\ t.props = snapshot
        /\ t.date = snapshot.date /\ t.rev = None
    BY <1>0, <1>3 DEF NewOwner, Recalls, Fields
  <2>2. Truthful(t.undo)
    BY <2>1, NoHistory
  <2> QED
    BY <1>2, <2>1, <2>2 DEF Recalls, PropsReal, ShownTrue, Bounded
<1>4. ASSUME t = WithProps(tab, snapshot) /\ snapshot.date = tab.date
      PROVE  Recalls(t)
  BY <1>0, <1>2, <1>4, PropsRecalls
<1>5. ASSUME t = [Reset(WithProps(tab, snapshot), "date") EXCEPT !.date = snapshot.date]
      PROVE  Recalls(t)
  <2>1. PICK v : v = Reset(WithProps(tab, snapshot), "date")
    OBVIOUS
  <2>2. /\ DOMAIN v = Fields /\ v.undo = tab.undo /\ v.waiting = 0 /\ v.props = snapshot /\ v.rev = None
    BY <1>0, <2>1 DEF Reset, WithProps, Recalls, Fields
  <2>3. /\ DOMAIN t = Fields /\ t.undo = tab.undo /\ t.waiting = 0 /\ t.props = snapshot
        /\ t.date = snapshot.date /\ t.rev = None
    BY <1>5, <2>1, <2>2 DEF Fields
  <2> QED
    BY <1>0, <1>2, <2>3 DEF Recalls, PropsReal, ShownTrue, Bounded
<1>6. Recalls(t)
  BY <1>1, <1>3, <1>4, <1>5
<1>7. Recalls(Watch(t))
  BY <1>6, WatchRecalls
<1>8. Recalls(tab')
  BY <1>1, <1>7, ResumeRecalls
<1> QED
  BY <1>2, <1>8 DEF Recorded

LEMMA ChangeContextRecorded ==
    ASSUME Distinct, Bounded, Recorded(tab, write), ChangeContext
    PROVE  Recorded(tab', write')
<1>1. PICK v : v = Reset(tab, "context")
  OBVIOUS
<1>2. PICK t : t = [v EXCEPT !.barrier = tab.seen]
  OBVIOUS
<1>3. write' = write /\ tab' = Resume(Watch(t))
  BY <1>1, <1>2 DEF ChangeContext
<1>4. Recalls(v)
  BY <1>1, ResetRecalls DEF Recorded
<1>5. Recalls(t)
  BY <1>2, <1>4, SameRecalls DEF Recalls, Fields
<1>6. Recalls(Watch(t))
  BY <1>5, WatchRecalls
<1>7. Recalls(tab')
  BY <1>3, <1>6, ResumeRecalls
<1> QED
  BY <1>3, <1>7 DEF Recorded

LEMMA EndSessionRecorded ==
    ASSUME Distinct, Bounded, Recorded(tab, write), EndSession
    PROVE  Recorded(tab', write')
<1>1. PICK v : v = Reset(tab, "session")
  OBVIOUS
<1>2. write' = write /\ tab' = Forget(v)
  BY <1>1 DEF EndSession
<1>3. Recalls(v)
  BY <1>1, ResetRecalls DEF Recorded
<1> QED
  BY <1>2, <1>3, ForgetRecalls DEF Recorded

-----------------------------------------------------------------------------
(* The days grow *)

\* What was true of a day stays true of it when it has a revision more.
LEMMA GrowsEntry ==
    ASSUME DaysOK, Grows, NEW e, EntryTrue(e)
    PROVE  EntryTrue(e)'
<1>1. PICK d \in Dates : d = e.date
  BY DEF EntryTrue
<1>2. /\ Revision(d) \in Nat /\ Revision(d)' \in Nat /\ Revision(d) <= Revision(d)'
      /\ \A r \in 0 .. Revision(d) : day'[d][r + 1] = day[d][r + 1]
  BY GrowsReal
<1>3. /\ DOMAIN e = EntryFields
      /\ e.made \in 1 .. Revision(d) /\ e.previous = e.made - 1
      /\ e.before = day[d][e.made]
      /\ e.expected \in 0 .. Revision(d)
      /\ day[d][e.expected + 1] = day[d][e.made + 1]
  BY <1>1 DEF EntryTrue
<1>4. /\ day'[d][e.expected + 1] = day[d][e.expected + 1]
      /\ day'[d][e.made + 1] = day[d][e.made + 1]
  BY <1>2, <1>3
<1>5. day'[d][e.made] = day[d][e.made]
  <2>0. e.made - 1 \in 0 .. Revision(d) /\ (e.made - 1) + 1 = e.made
    BY <1>2, <1>3
  <2>1. PICK r \in 0 .. Revision(d) : r + 1 = e.made
    BY <2>0
  <2> QED
    BY <1>2, <2>1
<1>6. e.made \in 1 .. Revision(d)' /\ e.expected \in 0 .. Revision(d)'
  BY <1>2, <1>3
<1> QED
  BY <1>1, <1>3, <1>4, <1>5, <1>6 DEF EntryTrue, EntryFields, Revision

LEMMA GrowsRecalls ==
    ASSUME Distinct, IInv, Grows, tab' = tab, Recalls(tab)
    PROVE  Recalls(tab)'
<1>1. DaysOK /\ PageOK(tab) /\ Exclusive(tab)
  BY IInvParts
<1>2. PropsReal(tab)' /\ ShownReal(tab)'
  BY <1>1, GrowsPage DEF PageOK, PageShape
<1>3. tab.rev # None => tab.rev \in Nat
  BY DEF Recalls, ShownTrue
<1>4. ShownTrue(tab)'
  <2>1. tab.date \in Dates
    BY IInvParts DEF IsTab
  <2>2. Revision(tab.date)' \in Nat
    BY <1>1, <2>1, GrowsReal DEF Revision
  <2> QED
    BY <1>2, <1>3, <2>2 DEF ShownReal, ShownTrue, Revision
<1>5. Truthful(tab.undo)'
  <2>1. \A i \in 1 .. Len(tab.undo) : EntryTrue(tab.undo[i])
    BY DEF Recalls, Truthful
  <2>2. ASSUME NEW i \in 1 .. Len(tab.undo) PROVE EntryTrue(tab.undo[i])'
    <3>1. PICK e : e = tab.undo[i]
      OBVIOUS
    <3>2. EntryTrue(e)'
      BY <1>1, <2>1, <3>1, GrowsEntry
    <3> QED
      BY <3>1, <3>2 DEF EntryTrue, Revision
  <2> QED
    BY <2>2 DEF Recalls, Truthful
<1> QED
  BY <1>2, <1>4, <1>5 DEF Recalls, Fields

LEMMA GrowsFaithful ==
    ASSUME DaysOK, Grows, NEW w, Faithful(w)
    PROVE  Faithful(w)'
<1>1. CASE ~Open(w)
  BY <1>1 DEF Faithful, Open, Idle
<1>2. CASE Open(w)
  <2>1. w.date \in Dates /\ w.rev \in 0 .. Revision(w.date) /\ w.blocks = day[w.date][w.rev + 1]
    BY <1>2 DEF Faithful
  <2>2. w.rev \in 0 .. Revision(w.date)' /\ day'[w.date][w.rev + 1] = day[w.date][w.rev + 1]
    BY <2>1, GrowsReal
  <2>3. w.kind = "undo" => EntryTrue(w.entry)'
    BY <1>2, GrowsEntry DEF Faithful
  <2> QED
    BY <1>2, <2>1, <2>2, <2>3 DEF Faithful, Open, Revision
<1> QED
  BY <1>1, <1>2

\* A served write makes one revision or none, and a restore ends with what its entry held.
LEMMA OutcomeIs ==
    ASSUME NEW h, Len(h) \in Nat \ {0}, \E S : h \in Seq(S), NEW w, NEW after \in Outcomes(w, h)
    PROVE  /\ Len(after) \in {Len(h), Len(h) + 1}
           /\ w.kind = "undo" => after[Len(after)] = w.entry.before
<1>1. \A x : Len(Append(h, x)) = Len(h) + 1 /\ Append(h, x)[Len(h) + 1] = x
  <2> TAKE x
  <2>1. PICK S : h \in Seq(S)
    OBVIOUS
  <2>2. h \in Seq(S \union {x}) /\ x \in S \union {x}
    BY <2>1
  <2> HIDE <2>1
  <2> QED
    BY <2>2, AppendProperties
<1>2. after = h \/ \E x : after = Append(h, x)
  BY DEF Outcomes
<1>3. Len(after) \in {Len(h), Len(h) + 1}
  BY <1>1, <1>2
<1>4. ASSUME w.kind = "undo" PROVE after[Len(after)] = w.entry.before
  <2>1. CASE w.entry.before # Last(h)
    <3>1. after = Append(h, w.entry.before)
      BY <1>4, <2>1 DEF Outcomes
    <3> QED
      BY <1>1, <3>1
  <2>2. CASE w.entry.before = Last(h)
    <3>1. after = h
      BY <1>4, <2>2 DEF Outcomes
    <3> QED
      BY <2>2, <3>1 DEF Last
  <2> QED
    BY <2>1, <2>2
<1> QED
  BY <1>3, <1>4

LEMMA ServeRecorded ==
    ASSUME Distinct, Bounded, IInv, Recorded(tab, write), Limited, NEW s \in Slots, Serve(s)
    PROVE  (Recorded(tab, write) /\ Limited)'
<1>0. /\ DaysOK /\ DOMAIN write = Slots /\ IsWrite(write[s]) /\ write[s].stage = "sent" /\ Open(write[s])
      /\ tab' = tab /\ DOMAIN day = Dates /\ Faithful(write[s]) /\ DOMAIN write[s] = WriteFields
  BY IInvParts DEF Serve, Open, DaysOK, Recorded, IsWrite
<1>1. PICK d \in Dates : d = write[s].date
  BY <1>0 DEF Faithful
<1>2. PICK after \in Outcomes(write[s], day[d]), kind \in {"accepted", "bare", "unknown"} :
        /\ Len(after) - 1 <= MaxRevision
        /\ day' = [day EXCEPT ![d] = after]
        /\ Answer(s, Reply(kind, IF kind = "accepted" THEN Len(after) - 1 ELSE None,
                            IF kind = "accepted" THEN Last(after) ELSE None))
  BY <1>1 DEF Serve
<1>3. write[s].rev = Len(day[d]) - 1
  BY <1>1 DEF Serve, Revision
<1>4. PICK reply : reply = Reply(kind, IF kind = "accepted" THEN Len(after) - 1 ELSE None,
                                IF kind = "accepted" THEN Last(after) ELSE None)
  OBVIOUS
<1>5. Len(day[d]) \in Nat \ {0} /\ \E S : day[d] \in Seq(S)
  BY <1>0 DEF DaysOK
<1>6. /\ Len(after) \in Nat \ {0} /\ (\E S : after \in Seq(S))
      /\ Len(day[d]) <= Len(after) /\ \A i \in 1 .. Len(day[d]) : after[i] = day[d][i]
      /\ Len(after) \in {Len(day[d]), Len(day[d]) + 1}
      /\ write[s].kind = "undo" => after[Len(after)] = write[s].entry.before
  BY <1>5, OutcomeGrows, OutcomeIs
<1>7. DOMAIN day' = Dates /\ day'[d] = after /\ \A e \in Dates : e # d => day'[e] = day[e]
  BY <1>0, <1>2
<1>8. Grows
  <2>1. ASSUME NEW e \in Dates, e # d
        PROVE  /\ Len(day'[e]) \in Nat \ {0} /\ \E S : day'[e] \in Seq(S)
               /\ Len(day[e]) <= Len(day'[e])
               /\ \A i \in 1 .. Len(day[e]) : day'[e][i] = day[e][i]
    BY <1>0, <1>7, <2>1 DEF DaysOK
  <2> QED
    BY <1>6, <1>7, <2>1 DEF Grows
<1>9. Limited'
  <2>1. Len(after) <= MaxRevision + 1
    BY <1>2, <1>6 DEF Bounded
  <2> QED
    BY <1>7, <2>1 DEF Limited
<1>10. Recalls(tab)'
  BY <1>0, <1>8, GrowsRecalls DEF Recorded
<1>11. /\ \A q \in Slots : q # s => write'[q] = write[q]
       /\ write'[s].stage = "answered" /\ write'[s].reply = reply
       /\ write'[s].date = d /\ write'[s].kind = write[s].kind /\ write'[s].rev = write[s].rev
       /\ write'[s].blocks = write[s].blocks /\ write'[s].entry = write[s].entry
  BY <1>0, <1>1, <1>2, <1>4 DEF Answer, WriteFields
<1>12. Faithful(write[s])'
  <2>1. PICK w : w = write[s]
    OBVIOUS
  <2>2. Faithful(w)'
    BY <1>0, <1>8, <2>1, GrowsFaithful
  <2>3. /\ w.date \in Dates /\ w.rev \in 0 .. Revision(w.date)' /\ w.blocks = day'[w.date][w.rev + 1]
        /\ w.kind = "undo" => EntryTrue(w.entry)' /\ w.entry.date = w.date
    BY <1>0, <2>1, <2>2 DEF Faithful, Open, Revision
  <2>4. reply.kind = "accepted" =>
          /\ reply.rev \in {w.rev, w.rev + 1}
          /\ w.kind = "undo" => reply.blocks = w.entry.before
    <3>1. reply.kind = "accepted" => reply.rev = Len(after) - 1 /\ reply.blocks = after[Len(after)]
      BY <1>4 DEF Reply, Last
    <3>2. w.rev = Len(day[d]) - 1
      BY <1>3, <2>1
    <3> QED
      BY <1>5, <1>6, <2>1, <3>1, <3>2
  <2>5. PICK v : v = write'[s]
    OBVIOUS
  <2>6. /\ v.stage = "answered" /\ v.reply = reply /\ v.date = w.date /\ v.kind = w.kind
        /\ v.rev = w.rev /\ v.blocks = w.blocks /\ v.entry = w.entry
    BY <1>1, <1>11, <2>1, <2>5
  <2>7. Faithful(v)'
    BY <2>3, <2>4, <2>6 DEF Faithful, Open, Revision, EntryTrue
  <2> QED
    BY <2>5, <2>7 DEF Faithful, Open, Revision, EntryTrue
<1>13. ASSUME NEW q \in Slots, q # s PROVE Faithful(write[q])'
  <2>1. PICK w : w = write[q] /\ w = write'[q]
    BY <1>11, <1>13
  <2>2. Faithful(w)'
    BY <1>0, <1>8, <2>1, GrowsFaithful DEF Recorded
  <2> QED
    BY <2>1, <2>2 DEF Faithful, Open, Revision, EntryTrue
<1> QED
  BY <1>9, <1>10, <1>12, <1>13 DEF Recorded

LEMMA OtherWriteRecorded ==
    ASSUME Distinct, Bounded, IInv, Recorded(tab, write), Limited, NEW d \in Dates, OtherWrite(d)
    PROVE  (Recorded(tab, write) /\ Limited)'
<1>0. DaysOK /\ tab' = tab /\ write' = write /\ DOMAIN day = Dates
  BY IInvParts DEF OtherWrite, DaysOK
<1>1. PICK after : after = Append(day[d], Len(day[d]))
  OBVIOUS
<1>2. DOMAIN day' = Dates /\ day'[d] = after /\ \A e \in Dates : e # d => day'[e] = day[e]
  BY <1>0, <1>1 DEF OtherWrite
<1>3. /\ Len(after) \in Nat \ {0} /\ (\E S : after \in Seq(S)) /\ Len(day[d]) \in Nat
      /\ Len(after) = Len(day[d]) + 1 /\ \A i \in 1 .. Len(day[d]) : after[i] = day[d][i]
  <2>1. PICK S : day[d] \in Seq(S)
    BY <1>0 DEF DaysOK
  <2>2. PICK T : T = S \union {Len(day[d])}
    OBVIOUS
  <2>3. day[d] \in Seq(T) /\ Len(day[d]) \in T /\ Len(day[d]) \in Nat
    BY <2>1, <2>2
  <2> HIDE <2>1
  <2>4. /\ after \in Seq(T) /\ Len(after) = Len(day[d]) + 1
        /\ \A i \in 1 .. Len(day[d]) : after[i] = day[d][i]
    BY <1>1, <2>3, AppendProperties
  <2> QED
    BY <2>3, <2>4
<1>4. Grows
  <2>1. ASSUME NEW e \in Dates, e # d
        PROVE  /\ Len(day'[e]) \in Nat \ {0} /\ \E S : day'[e] \in Seq(S)
               /\ Len(day[e]) <= Len(day'[e])
               /\ \A i \in 1 .. Len(day[e]) : day'[e][i] = day[e][i]
    BY <1>0, <1>2, <2>1 DEF DaysOK
  <2>2. Len(day[d]) <= Len(after)
    BY <1>3
  <2> QED
    BY <1>2, <1>3, <2>1, <2>2 DEF Grows
<1>5. Limited'
  <2>1. Len(after) <= MaxRevision + 1
    BY <1>3 DEF OtherWrite, Revision, Bounded
  <2> QED
    BY <1>2, <2>1 DEF Limited
<1>6. Recalls(tab)'
  BY <1>0, <1>4, GrowsRecalls DEF Recorded
<1>7. ASSUME NEW q \in Slots PROVE Faithful(write[q])'
  <2>1. PICK w : w = write[q] /\ w = write'[q]
    BY <1>0
  <2>2. Faithful(w)'
    BY <1>0, <1>4, <2>1, GrowsFaithful DEF Recorded
  <2> QED
    BY <2>1, <2>2 DEF Faithful, Open, Revision, EntryTrue
<1> QED
  BY <1>5, <1>6, <1>7 DEF Recorded

-----------------------------------------------------------------------------
(* The second invariant *)

LEMMA InitRecorded ==
    ASSUME Distinct, Bounded, Init PROVE Recorded(tab, write) /\ Limited
<1>1. \A d \in Dates : Len(day[d]) = 1 /\ day[d][1] = 0
  BY DEF Init
<1>2. Limited
  <2>1. MaxRevision \in Nat
    BY DEF Bounded
  <2>2. 1 <= MaxRevision + 1
    BY <2>1
  <2> QED
    BY <1>1, <2>2 DEF Limited
<1>3. \A s \in Slots : Faithful(write[s])
  BY IdleWrite DEF Init, Faithful
<1>0. PICK d \in Dates : \E props : /\ props = [date |-> d, rev |-> 0, blocks |-> 0]
                                    /\ tab = Watch(NewOwner(EmptyTab(props), 0, props))
  BY DEF Init
<1>4. PICK props : /\ props = [date |-> d, rev |-> 0, blocks |-> 0]
                   /\ tab = Watch(NewOwner(EmptyTab(props), 0, props))
  BY <1>0
<1>5. PICK t : t = NewOwner(EmptyTab(props), 0, props)
  OBVIOUS
<1>6. Real(props)
  BY <1>1, <1>4 DEF Real, Revision
<1>7. PICK e : e = EmptyTab(props)
  OBVIOUS
<1>8. DOMAIN e = Fields
  BY <1>7 DEF EmptyTab, Fields
<1>9. /\ DOMAIN t = Fields /\ t.undo = <<>> /\ t.waiting = 0 /\ t.props = props
      /\ t.date = props.date /\ t.rev = None
  BY <1>5, <1>7, <1>8 DEF NewOwner, Fields
<1>10. Truthful(t.undo)
  BY <1>9, NoHistory
<1>11. Recalls(t)
  BY <1>6, <1>9, <1>10 DEF Recalls, PropsReal, ShownTrue, Bounded
<1> QED
  BY <1>2, <1>3, <1>4, <1>5, <1>11, WatchRecalls DEF Recorded

\* What is recorded of the days stays recorded while they stay as they are.
LEMMA SameDays ==
    ASSUME Recorded(tab', write'), Limited, day' = day PROVE (Recorded(tab, write) /\ Limited)'
<1>1. Recalls(tab)'
  BY DEF Recorded, Recalls, PropsReal, Real, ShownTrue, Truthful, EntryTrue, EntryFields, Fields, Revision
<1>2. \A s \in Slots : Faithful(write[s])'
  BY DEF Recorded, Faithful, Open, Idle, EntryTrue, EntryFields, Revision
<1>3. Limited'
  BY DEF Limited
<1> QED
  BY <1>1, <1>2, <1>3 DEF Recorded

LEMMA WriteStepRecorded ==
    ASSUME Distinct, Bounded, IInv, Recorded(tab, write), Limited, NEW s \in Slots, WriteStep(s)
    PROVE  (Recorded(tab, write) /\ Limited)'
<1>1. CASE Edit(s) \/ Check(s) \/ Undo(s)
  <2>1. day' = day
    BY <1>1 DEF Edit, Check, Undo, Begin
  <2> QED
    BY <1>1, <2>1, WritersRecorded, SameDays
<1>2. CASE UndoMismatch(s)
  BY <1>2, UndoMismatchRecorded, SameDays DEF UndoMismatch
<1>3. CASE Serve(s)
  BY <1>3, ServeRecorded
<1>4. CASE Decline(s)
  BY <1>4, DeclineRecorded, SameDays DEF Decline
<1>5. CASE SettleSignedOut(s)
  BY <1>5, SignedOutRecorded, SameDays DEF SettleSignedOut
<1>6. CASE SettleDeparted(s)
  BY <1>6, SettleDepartedRecorded, SameDays DEF SettleDeparted
<1>7. CASE SettleRejected(s)
  BY <1>7, RejectedRecorded, SameDays DEF SettleRejected
<1>8. CASE SettleAccepted(s)
  BY <1>8, SettleAcceptedRecorded, SameDays DEF SettleAccepted
<1>9. CASE SettleReview(s)
  BY <1>9, ReviewRecorded, SameDays DEF SettleReview, Reload
<1>10. CASE SettleUncertain(s)
  BY <1>10, UncertainRecorded, SameDays DEF SettleUncertain, Reload
<1> QED
  BY <1>1, <1>2, <1>3, <1>4, <1>5, <1>6, <1>7, <1>8, <1>9, <1>10 DEF WriteStep

LEMMA NextRecorded ==
    ASSUME Distinct, Bounded, IInv, Recorded(tab, write), Limited, [Next]_vars
    PROVE  (Recorded(tab, write) /\ Limited)'
<1>1. CASE UNCHANGED vars
  BY <1>1, SameDays DEF vars
<1>2. ASSUME NEW s \in Slots, WriteStep(s) PROVE (Recorded(tab, write) /\ Limited)'
  BY <1>2, WriteStepRecorded
<1>3. CASE QueueCheck \/ CaptureFailure
  BY <1>3, QueueRecorded, SameDays DEF QueueCheck, CaptureFailure
<1>4. ASSUME NEW d \in Dates, OtherWrite(d) PROVE (Recorded(tab, write) /\ Limited)'
  BY <1>4, OtherWriteRecorded
<1>5. ASSUME NEW d \in Dates, Visit(d) PROVE (Recorded(tab, write) /\ Limited)'
  BY <1>5, SameDays DEF Visit
<1>6. CASE Read
  <2>1. PICK r \in tab.reads : ReadArrives(r) \/ ReadFails(r)
    BY <1>6 DEF Read
  <2>2. Recorded(tab', write')
    BY <2>1, ReadArrivesRecorded, ReadFailsRecorded
  <2> QED
    BY <2>1, <2>2, SameDays DEF ReadArrives, ReadFails
<1>7. ASSUME NEW remount \in BOOLEAN, VisitArrives(remount) PROVE (Recorded(tab, write) /\ Limited)'
  BY <1>7, VisitArrivesRecorded, SameDays DEF VisitArrives
<1>8. CASE ChangeContext
  BY <1>8, ChangeContextRecorded, SameDays DEF ChangeContext
<1>9. CASE EndSession
  BY <1>9, EndSessionRecorded, SameDays DEF EndSession
<1> QED
  BY <1>1, <1>2, <1>3, <1>4, <1>5, <1>6, <1>7, <1>8, <1>9 DEF Next

\* The undo history keeps to its bound and its entries say what their days held, so that an
\* undo which the server accepts takes back its action and nothing else; a check mark reaches
\* the day on which it was made (useUndo.ts, useBlockCompletion.ts).
THEOREM IntentReachesSeenDay == Distinct /\ Bounded => (Spec => []IntentOnSeenDay)
<1>1. SUFFICES ASSUME Distinct, Bounded PROVE Spec => []IntentOnSeenDay
  OBVIOUS
<1> DEFINE Recollection == Recorded(tab, write) /\ Limited
<1>2. Init => Recollection
  BY <1>1, InitRecorded
<1>3. IInv /\ Recollection /\ [Next]_vars => Recollection'
  BY <1>1, NextRecorded
<1>4. ASSUME IInv, Recollection PROVE TypeOK
  <2>1. DaysOK /\ IsTab(tab) /\ \A s \in Slots : IsWrite(write[s]) /\ Faithful(write[s])
    BY <1>4, IInvParts DEF Recorded
  <2>2. \A d \in Dates : Len(day[d]) \in 1 .. MaxRevision + 1
    BY <1>1, <1>4, <2>1 DEF DaysOK, Limited, Bounded
  <2>3. tab.waiting \in 0 .. MaxChecks /\ Len(tab.undo) <= MaxUndo
    BY <1>4 DEF Recorded, Recalls, Truthful
  <2>4. \A s \in Slots : write[s] # Idle => write[s].stage \in {"sent", "answered", "reading", "reviewing"}
    BY <2>1 DEF Faithful, IsWrite, Stages
  <2>5. \A d \in Dates : tab.pending[d] \subseteq Slots /\ tab.floor[d] \in Nat \union {-1}
    BY <2>1 DEF IsTab
  <2> QED
    BY <2>1, <2>2, <2>3, <2>4, <2>5 DEF TypeOK, IsTab
<1>5. ASSUME IInv, Recollection PROVE UndoRestoresBefore
  <2>1. SUFFICES ASSUME NEW s \in Slots, write[s].stage = "sent", write[s].kind = "undo"
                 PROVE  /\ write[s].entry.before = day[write[s].date][write[s].entry.made]
                        /\ write[s].rev = Len(day[write[s].date]) - 1 =>
                               Last(day[write[s].date]) = day[write[s].date][write[s].entry.made + 1]
    BY DEF UndoRestoresBefore
  <2>2. PICK w, e : w = write[s] /\ e = w.entry
    OBVIOUS
  <2>3. EntryTrue(e) /\ e.date = w.date /\ e.expected = w.rev /\ w.date \in Dates
    BY <1>5, <2>1, <2>2 DEF Recorded, Faithful, Open
  <2>4. e.before = day[w.date][e.made] /\ day[w.date][w.rev + 1] = day[w.date][e.made + 1]
    BY <2>3 DEF EntryTrue
  <2>5. ASSUME w.rev = Len(day[w.date]) - 1 PROVE Last(day[w.date]) = day[w.date][w.rev + 1]
    <3>1. Len(day[w.date]) \in Nat
      BY <1>5, <2>3, IInvParts DEF DaysOK
    <3>2. w.rev + 1 = Len(day[w.date])
      BY <2>5, <3>1
    <3> QED
      BY <3>2 DEF Last
  <2> QED
    BY <2>2, <2>4, <2>5
<1>6. IInv => ChecksOnSeenDay
  BY DEF IInv, Sound, Linked, ChainLinked, ChecksOnSeenDay
<1>7. IInv /\ Recollection => IntentOnSeenDay
  BY <1>4, <1>5, <1>6 DEF IntentOnSeenDay
<1> HIDE DEF Recollection
<1>8. QED
  BY <1>1, <1>2, <1>3, <1>7, Inductive, PTL DEF Spec
=============================================================================

------------------------------ MODULE ChatClient ------------------------------
(***************************************************************************)
(* The chat of one account in one browser tab (useChat.ts and              *)
(* chatRequestRecovery.ts) over the durable server of ExactlyOnce.         *)
(*                                                                         *)
(* A turn freezes its body and identity in sessionStorage before the first *)
(* POST.  Copies of it can be lost on the way in or out, so the server may *)
(* decide a request long after the page gave up on the reply.  The record  *)
(* stays until the outcome is known, the user discards it, or the session  *)
(* ends.  The tab survives reloads and changes of the day; the server is   *)
(* redeployed under it, and from then on refuses its writes unread         *)
(* (FrontendVersionMiddleware) until the page is reloaded.                 *)
(*                                                                         *)
(* A turn in flight is the promise of executeTurn.  It is live while it    *)
(* holds latestRequestId, and keeps the writer of its day busy either way. *)
(***************************************************************************)
EXTENDS Naturals

CONSTANTS
    Requests,       \* the identities the tab can draw (crypto.randomUUID)
    Dates,          \* the days it visits
    MaxReleases,    \* bound on deployments
    None            \* no request

ASSUME ClientAssumption == MaxReleases \in Nat /\ None \notin Requests /\ None \notin Dates

VARIABLES
    day,            \* the day each request was drawn for, None before
    active,         \* activeDate
    pending,        \* state.pendingRequest
    stored,         \* sessionStorage: at most one record per day
    run,            \* the turn in flight for each day
    thread,         \* assistant bubbles: results and errors
    dropped,        \* requests the user discarded or a session end cleared
    wire,           \* requests of which the server has a copy, or will
    outcome,        \* server: receipts
    effects,        \* server: changes of the day
    told,           \* receipts that reached the page
    page,           \* release of the running page
    release         \* release of the server

serverVars == <<outcome, effects>>
pageVars == <<day, active, pending, stored, run, thread, dropped>>
vars == <<day, active, pending, stored, run, thread, dropped, wire, outcome, effects, told,
          page, release>>

Outcomes == {"applied", "answered", "changed", "failed"}

Server == INSTANCE ExactlyOnce

-----------------------------------------------------------------------------

NoRun == [phase |-> "idle"]

\* taken: this copy passed the release gate and validation, or will.
Runs == [phase : {"posted"}, request : Requests, attempt : {0, 1}, live : BOOLEAN, taken : BOOLEAN]

Bubbles == [request : Requests, kind : {"result", "error"}]

Busy(d) == run[d] # NoRun

Told(r) == \E o \in Outcomes : <<r, o>> \in told

\* A POST of the current release may arrive; one of an older page cannot.
Post(r, taken) ==
    /\ taken => page = release
    /\ wire' = IF taken THEN wire \union {r} ELSE wire

\* restorePending: the record in memory, or else the one of this day in the tab.
Restored == IF pending # None THEN pending ELSE stored[active]

\* Variant: the record is only taken out of memory.
ForgetInMemory(r, d) ==
    /\ pending' = IF pending = r THEN None ELSE pending
    /\ UNCHANGED stored

\* removeChatRequest compares identities before it removes.
Forget(r, d) ==
    /\ stored' = IF stored[d] = r THEN [stored EXCEPT ![d] = None] ELSE stored
    /\ pending' = IF pending = r THEN None ELSE pending

\* Bubbles belong to the live turn only.
Show(d, kind) ==
    thread' = IF run[d].live
              THEN thread \union {[request |-> run[d].request, kind |-> kind]} ELSE thread

EndRun(d) == run' = [run EXCEPT ![d] = NoRun]

\* Variant: cancelling does not take latestRequestId away.
StillLive(runs) == runs

\* latestRequestId += 1 takes the live token from every turn in flight.
CancelLive(runs) ==
    [d \in Dates |-> IF runs[d] = NoRun THEN NoRun ELSE [runs[d] EXCEPT !.live = FALSE]]

Init ==
    /\ day = [r \in Requests |-> None]
    /\ active \in Dates
    /\ pending = None
    /\ stored = [d \in Dates |-> None]
    /\ run = [d \in Dates |-> NoRun]
    /\ thread = {}
    /\ dropped = {}
    /\ wire = {}
    /\ Server!Init
    /\ page = 0
    /\ release = 0

-----------------------------------------------------------------------------
(* The server *)

\* A copy that arrived is decided, now or after everyone stopped waiting.
ServerDecides(r) ==
    /\ r \in wire
    /\ told' = told
    /\ \E o \in Outcomes : Server!Decide(r, o)
    /\ UNCHANGED <<pageVars, wire, page, release>>

Deploy ==
    /\ release < MaxReleases
    /\ release' = release + 1
    /\ UNCHANGED <<pageVars, wire, serverVars, told, page>>

-----------------------------------------------------------------------------
(* Turns *)

Start(r) ==
    \E taken \in BOOLEAN :
        /\ run' = [run EXCEPT ![active] =
            [phase |-> "posted", request |-> r, attempt |-> 0, live |-> TRUE, taken |-> taken]]
        /\ Post(r, taken)

\* Variant: only the record in memory blocks a new turn.
MayStartForgetful == pending = None

MayStart == Restored = None

\* submitTurn of a new turn: freeze it, store it, post it.
Submit(r) ==
    /\ ~Busy(active)
    /\ MayStart
    /\ day[r] = None
    /\ day' = [day EXCEPT ![r] = active]
    /\ stored' = [stored EXCEPT ![active] = r]
    /\ pending' = r
    /\ Start(r)
    /\ UNCHANGED <<active, thread, dropped, serverVars, told, page, release>>

\* recoverPending: the frozen body again, under its old identity.
Recover ==
    /\ ~Busy(active)
    /\ Restored # None
    /\ pending' = Restored
    /\ Start(Restored)
    /\ UNCHANGED <<day, active, stored, thread, dropped, serverVars, told, page, release>>

\* Only request_completed with this identity is a result.
ResultOf(r) == outcome[r]

\* The receipt arrives, first hand or replayed.
ReceiveReceipt(d) ==
    /\ Busy(d)
    /\ run[d].taken
    /\ LET r == run[d].request
           o == ResultOf(r) IN
        /\ o # "unknown"
        /\ told' = told \union {<<r, o>>}
        /\ Forget(r, d)
        /\ Show(d, IF o \in {"applied", "answered"} THEN "result" ELSE "error")
    /\ EndRun(d)
    /\ UNCHANGED <<day, active, dropped, wire, serverVars, page, release>>

MayRetry(t) == t.attempt = 0 /\ t.live

\* The reply is lost, garbled, a 5xx or without a receipt: post once more ...
Retry(d) ==
    /\ Busy(d)
    /\ MayRetry(run[d])
    /\ \E taken \in BOOLEAN :
        /\ run' = [run EXCEPT ![d].attempt = @ + 1, ![d].taken = taken]
        /\ Post(run[d].request, taken)
    /\ UNCHANGED <<day, active, pending, stored, thread, dropped, serverVars, told, page, release>>

\* Variant: "still processing" is taken for a final answer.
UnconfirmedForgets(d) == Forget(run[d].request, d) /\ UNCHANGED thread

AfterUnconfirmed(d) == UNCHANGED <<stored, pending, thread>>

\* ... or give up and keep the record.  request_in_progress is never retried.
Unconfirmed(d) ==
    /\ Busy(d)
    /\ \/ ~MayRetry(run[d])
       \/ run[d].taken /\ outcome[run[d].request] = "unknown"
    /\ AfterUnconfirmed(d)
    /\ EndRun(d)
    /\ UNCHANGED <<day, active, dropped, wire, serverVars, told, page, release>>

\* A 4xx without a receipt ends the turn like a result: validation refuses the
\* body before any claim, the release gate refuses the page.
Refused(d) ==
    /\ Busy(d)
    /\ ~run[d].taken
    /\ run[d].request \in wire => page # release
    /\ Forget(run[d].request, d)
    /\ Show(d, "error")
    /\ EndRun(d)
    /\ UNCHANGED <<day, active, dropped, wire, serverVars, told, page, release>>

-----------------------------------------------------------------------------
(* The user and the page *)

\* setActiveDate; the record of the new day is read unless its writer is busy.
SetActiveDate(d) ==
    /\ d # active
    /\ active' = d
    /\ pending' \in IF Busy(d) THEN {None} ELSE {stored[d]}
    /\ run' = CancelLive(run)
    /\ thread' = {}
    /\ UNCHANGED <<day, stored, dropped, wire, serverVars, told, page, release>>

Processing == Busy(active) /\ run[active].live

\* clearThread, which is the cancel button while a turn is live.
ClearThread ==
    /\ Processing \/ pending = None
    /\ run' = CancelLive(run)
    /\ thread' = {}
    /\ UNCHANGED <<day, active, pending, stored, dropped, wire, serverVars, told, page, release>>

\* discardPending, offered while no turn is live.
Discard ==
    /\ pending # None
    /\ ~Processing
    /\ dropped' = dropped \union {pending}
    /\ Forget(pending, active)
    /\ run' = CancelLive(run)
    /\ UNCHANGED <<day, active, thread, wire, serverVars, told, page, release>>

\* A reload: promises and memory are gone, sessionStorage stays.
Reload ==
    /\ page' = release
    /\ run' = [d \in Dates |-> NoRun]
    /\ thread' = {}
    /\ pending' = stored[active]
    /\ UNCHANGED <<day, active, stored, dropped, wire, serverVars, told, release>>

\* A 401, a logout or another account: the records of the account are cleared
\* and late replies find nothing to update.
EndSession ==
    /\ dropped' = dropped \union {r \in Requests : \E d \in Dates : stored[d] = r}
    /\ stored' = [d \in Dates |-> None]
    /\ pending' = None
    /\ run' = [d \in Dates |-> NoRun]
    /\ thread' = {}
    /\ UNCHANGED <<day, active, wire, serverVars, told, page, release>>

-----------------------------------------------------------------------------

Reply(d) == ReceiveReceipt(d) \/ Retry(d) \/ Unconfirmed(d) \/ Refused(d)

Next ==
    \/ \E r \in Requests : ServerDecides(r) \/ Submit(r)
    \/ \E d \in Dates : Reply(d) \/ SetActiveDate(d)
    \/ Recover \/ ClearThread \/ Discard \/ Reload \/ EndSession
    \/ Deploy

Spec == Init /\ [][Next]_vars

\* The user returns to the day and recovers, and not every copy is lost.
RecoverReaches(d) == active = d /\ Recover /\ (page = release => run'[d].taken)

Outdated(d) == page # release /\ Refused(d)

\* Replies come or fail, arrived requests are decided, and a user who keeps
\* trying gets through some time, in both directions.
Fairness ==
    /\ \A r \in Requests : WF_vars(ServerDecides(r))
    /\ \A d \in Dates : WF_vars(Reply(d)) /\ WF_vars(SetActiveDate(d))
    /\ \A d \in Dates : SF_vars(ReceiveReceipt(d)) /\ SF_vars(Outdated(d)) /\ SF_vars(RecoverReaches(d))

FairSpec == Spec /\ Fairness

-----------------------------------------------------------------------------
(* Properties *)

\* Records, runs, bubbles and releases have their types: a turn is posted at most
\* twice, and the page is never newer than the server.
TypeOK ==
    /\ day \in [Requests -> Dates \union {None}]
    /\ active \in Dates
    /\ pending \in Requests \union {None}
    /\ stored \in [Dates -> Requests \union {None}]
    /\ run \in [Dates -> Runs \union {NoRun}]
    /\ thread \subseteq Bubbles
    /\ dropped \subseteq Requests
    /\ wire \subseteq Requests
    /\ told \subseteq Requests \X Outcomes
    /\ page \in 0..release
    /\ release \in 0..MaxReleases

\* "One frozen request per account/day in this tab, until its outcome is known":
\* a request the server has or will get stays recoverable until its receipt came,
\* the user discarded it or the session ended (chatRequestRecovery.ts:1).
RecordKeptUntilKnown ==
    \A r \in wire : stored[day[r]] = r \/ Told(r) \/ r \in dropped

\* The same while nothing is deployed: with deployments a refusal may come before
\* the outcome.
RecordKeptWithoutDeploy == release = 0 => RecordKeptUntilKnown

\* No turn of a day is sent while an earlier one of that day may still take
\* effect behind its back, as long as nothing is deployed (submitTurn).
NoTurnBehind ==
    \A r1, r2 \in Requests :
        (day[r1] = None /\ day'[r1] # None /\ day[r2] = day'[r1] /\ r2 \in wire)
            => Told(r2) \/ r2 \in dropped

OneOpenTurn == [][release = 0 => NoTurnBehind]_vars

\* The thread shows replies of its own day only, and none of a discarded turn.
ThreadIsOwn ==
    \A b \in thread : day[b.request] = active /\ b.request \notin dropped

\* A result bubble stands for a stored success of that request.
ResultsAreReceipts ==
    \A b \in thread : b.kind = "result" => outcome[b.request] \in {"applied", "answered"}

\* The synthetic error bubble is sent to the server as "never applied": the turn
\* it stands for has not changed the day and never will (useChat.ts:27-31).
ErrorsNeverApplied ==
    \A b \in thread : b.kind = "error" =>
        b.request \notin wire \/ outcome[b.request] \in {"changed", "failed"}

\* A thread shows its own turns only, results only with a receipt and, while
\* nothing is deployed, no error for a turn that took effect (executeTurn).
ThreadIsTrue ==
    /\ ThreadIsOwn
    /\ ResultsAreReceipts
    /\ release = 0 => ErrorsNeverApplied

\* A stored request does not block its day for ever: a user who keeps recovering
\* learns its outcome or gives it up.
PendingSettles ==
    \A d \in Dates, r \in Requests : stored[d] = r ~> stored[d] # r
=============================================================================

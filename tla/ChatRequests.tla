----------------------------- MODULE ChatRequests -----------------------------
(***************************************************************************)
(* The chat endpoint of one user and date: durable claims with leases      *)
(* (backend/ai/chat_requests.py) around the provider call made by ai_chat  *)
(* (backend/ai/views.py).                                                  *)
(*                                                                         *)
(* A handler runs three transactions under the User lock (claim, capture   *)
(* of the prompt context, finish) and, between them, the rate limiter and  *)
(* the provider without any lock.  Handlers run concurrently, also several *)
(* for one identity: a client resends, a proxy duplicates, a lease runs    *)
(* out while the provider is still thinking.  A handler may die anywhere.  *)
(*                                                                         *)
(* The body of a request is represented by the one field the server reads  *)
(* from it here, expected_revision; another body under the same identity   *)
(* is another revision.  The day is its revision, and the policies a       *)
(* prompt depends on (rules, window, categories) are a version number.     *)
(* The fresh lease token of a claim is represented by its handler: tokens  *)
(* are only compared with the row a running handler has claimed, and a     *)
(* handler holds one claim at a time.                                      *)
(***************************************************************************)
EXTENDS Naturals

CONSTANTS
    Requests,       \* request_id values
    Handlers,       \* concurrent executions of ai_chat
    MaxRevision,    \* bound on the revisions of the day
    MaxPolicy,      \* bound on policy changes
    MaxFaults       \* bound on crashes, busy databases and overlong runs

ASSUME ChatAssumption ==
    /\ MaxRevision \in Nat
    /\ MaxPolicy \in Nat
    /\ MaxFaults \in Nat

VARIABLES
    row,            \* the ChatRequest rows
    handler,        \* what each handler is doing
    revision,       \* Schedule.revision of the day
    policy,         \* version of rules, settings and categories
    effects,        \* how often the plan of a request changed the day
    answers,        \* the answers that reached a client
    faults          \* crashes, busy databases and overlong runs so far

vars == <<row, handler, revision, policy, effects, answers, faults>>

-----------------------------------------------------------------------------

Bodies == 0..MaxRevision

\* Terminal results: the plan was saved, nothing needed saving (ask, chit-chat,
\* cancel), the day or its policies had moved on, or the request failed.
Receipts == {"applied", "answered", "changed", "failed"}

\* Answers that store nothing and ask the client to come back or to give up.
Transient == {"in_progress", "unavailable", "conflict"}

NoRow == [receipt |-> "absent"]

Rows == [body : Bodies, token : Handlers, live : BOOLEAN, receipt : Receipts \union {"none"}]

Idle == [phase |-> "idle"]

\* Phases: claimed; context captured; a response or a plan is ready to finish.
Running == [phase : {"claimed", "captured", "ready"}, request : Requests, body : Bodies,
            policy : 0..MaxPolicy, plan : {"none", "edit", "quiet", "changed", "failed"}]

Completed(r) == row[r].receipt \in Receipts

\* lease_token of the row still is the handler's own.
Owns(h, r) == row[r].token = h

Answer(r, b, a) == answers' \in {answers, answers \union {[request |-> r, body |-> b, answer |-> a]}}

Rest(h) == handler' = [handler EXCEPT ![h] = Idle]

-----------------------------------------------------------------------------

Init ==
    /\ row = [r \in Requests |-> NoRow]
    /\ handler = [h \in Handlers |-> Idle]
    /\ revision = 0
    /\ policy = 0
    /\ effects = [r \in Requests |-> 0]
    /\ answers = {}
    /\ faults = 0

\* claim_request on a row that answers by itself.
Replay(h, r, b) ==
    /\ handler[h] = Idle
    /\ row[r] # NoRow
    /\ \/ row[r].body # b /\ Answer(r, b, "conflict")
       \/ row[r].body = b /\ Completed(r) /\ Answer(r, b, row[r].receipt)
       \/ row[r].body = b /\ ~Completed(r) /\ row[r].live /\ Answer(r, b, "in_progress")
    /\ UNCHANGED <<row, handler, revision, policy, effects, faults>>

\* Variant: a finished request can be claimed again once its lease is over.
MayClaimFinished(r, b) == row[r] # NoRow => row[r].body = b /\ ~row[r].live

\* Variant: only a new identity can be claimed.
MayClaimNew(r, b) == row[r] = NoRow

\* Variant: the body hash is not compared.
MayClaimAnyBody(r, b) == row[r] # NoRow => ~Completed(r) /\ ~row[r].live

MayClaim(r, b) == row[r] # NoRow => row[r].body = b /\ ~Completed(r) /\ ~row[r].live

\* claim_request on a new identity, or on one whose lease ran out.
Claim(h, r, b) ==
    /\ handler[h] = Idle
    /\ MayClaim(r, b)
    /\ row' = [row EXCEPT ![r] = [body |-> b, token |-> h, live |-> TRUE, receipt |-> "none"]]
    /\ handler' = [handler EXCEPT ![h] = [phase |-> "claimed", request |-> r, body |-> b,
                                          policy |-> 0, plan |-> "none"]]
    /\ UNCHANGED <<revision, policy, effects, answers, faults>>

\* _load_ai_context_sync: a day that moved on, or a pending intent that did,
\* ends the request before the call.
CaptureContext(h) ==
    /\ handler[h].phase = "claimed"
    /\ \/ /\ revision = handler[h].body
          /\ handler' = [handler EXCEPT ![h].phase = "captured", ![h].policy = policy]
       \/ handler' = [handler EXCEPT ![h].phase = "ready", ![h].plan = "changed"]
    /\ UNCHANGED <<row, revision, policy, effects, answers, faults>>

\* The rate limiter refuses, the provider fails, or it returns edits or a
\* reply without edits.
CallProvider(h) ==
    /\ handler[h].phase = "captured"
    /\ \E plan \in {"edit", "quiet", "failed"} :
        handler' = [handler EXCEPT ![h].phase = "ready", ![h].plan = plan]
    /\ UNCHANGED <<row, revision, policy, effects, answers, faults>>

\* The context fingerprint of the apply step equals the captured one.
Fresh(run) == revision = run.body /\ policy = run.policy

\* What build_response returns under the lock: edits can be refused by the
\* planner or change nothing, and a pending intent can be stale or exceeded.
PlanResults(plan) ==
    IF plan \in {"changed", "failed"} THEN {plan}
    ELSE IF plan = "edit" THEN Receipts ELSE Receipts \ {"applied"}

\* Variant: the plan is applied although the day moved on.
ResultsUnchecked(run) == PlanResults(run.plan)

Results(run) == IF Fresh(run) THEN PlanResults(run.plan) ELSE PlanResults(run.plan) \ {"applied", "answered"}

\* Variant: a second worker of the same request is not noticed.
FenceOpen(h, r) == TRUE

Fence(h, r) == ~Completed(r) /\ Owns(h, r)

\* finish_request of the owner: the effect on the day and the receipt are one
\* transaction.
Finish(h) ==
    /\ handler[h].phase = "ready"
    /\ LET r == handler[h].request IN
        /\ Fence(h, r)
        /\ \E result \in Results(handler[h]) :
            /\ result = "applied" => revision < MaxRevision
            /\ row' = [row EXCEPT ![r].receipt = result]
            /\ revision' = IF result = "applied" THEN revision + 1 ELSE revision
            /\ effects' = IF result = "applied" THEN [effects EXCEPT ![r] = @ + 1] ELSE effects
            /\ Answer(r, handler[h].body, result)
    /\ Rest(h)
    /\ UNCHANGED <<policy, faults>>

\* finish_request of a handler that was overtaken.
FinishFenced(h) ==
    /\ handler[h].phase = "ready"
    /\ LET r == handler[h].request IN
        /\ ~Fence(h, r)
        /\ Answer(r, handler[h].body, IF Completed(r) THEN row[r].receipt ELSE "in_progress")
    /\ Rest(h)
    /\ UNCHANGED <<row, revision, policy, effects, faults>>

\* A claim or finish that finds the database busy three times.
Busy(h, r, b) ==
    /\ faults < MaxFaults
    /\ faults' = faults + 1
    /\ \/ handler[h] = Idle
       \/ /\ handler[h].phase = "ready"
          /\ handler[h].request = r /\ handler[h].body = b
    /\ Answer(r, b, "unavailable")
    /\ Rest(h)
    /\ UNCHANGED <<row, revision, policy, effects>>

\* The process dies, or an exception leaves ai_chat outside its handlers.
Crash(h) ==
    /\ handler[h] # Idle
    /\ faults < MaxFaults
    /\ faults' = faults + 1
    /\ Rest(h)
    /\ UNCHANGED <<row, revision, policy, effects, answers>>

\* The handler that claimed the row still runs that claim.
OwnerRuns(r) == handler[row[r].token] # Idle /\ handler[row[r].token].request = r

\* lease_expires_at passes.  The lease is longer than the ordinary provider
\* timeouts and retries, so outliving it is a fault of the run.
LeaseExpires(r) ==
    /\ row[r] # NoRow
    /\ ~Completed(r)
    /\ row[r].live
    /\ IF OwnerRuns(r) THEN faults < MaxFaults /\ faults' = faults + 1 ELSE UNCHANGED faults
    /\ row' = [row EXCEPT ![r].live = FALSE]
    /\ UNCHANGED <<handler, revision, policy, effects, answers>>

\* Another writer of the day, or of the policies.
OtherWrite ==
    /\ \/ revision < MaxRevision /\ revision' = revision + 1 /\ UNCHANGED policy
       \/ policy < MaxPolicy /\ policy' = policy + 1 /\ UNCHANGED revision
    /\ UNCHANGED <<row, handler, effects, answers, faults>>

-----------------------------------------------------------------------------

HandlerStep(h) == CaptureContext(h) \/ CallProvider(h) \/ Finish(h) \/ FinishFenced(h)

Receive(h, r, b) == Replay(h, r, b) \/ Claim(h, r, b)

Next ==
    \/ \E h \in Handlers : HandlerStep(h) \/ Crash(h)
    \/ \E h \in Handlers, r \in Requests, b \in Bodies : Receive(h, r, b) \/ Busy(h, r, b)
    \/ \E r \in Requests : LeaseExpires(r)
    \/ OtherWrite

Spec == Init /\ [][Next]_vars

\* A running handler takes its next step, time passes, and a client that has no
\* result yet keeps sending its request with the body it was sent with.
Resend(r) == \E h \in Handlers : row[r] # NoRow /\ Claim(h, r, row[r].body)

Fairness ==
    /\ \A h \in Handlers : WF_vars(HandlerStep(h))
    /\ \A r \in Requests : WF_vars(LeaseExpires(r)) /\ WF_vars(Resend(r))

FairSpec == Spec /\ Fairness

-----------------------------------------------------------------------------
(* Properties *)

\* Rows, handlers and answers have the types the models declare.
TypeOK ==
    /\ row \in [Requests -> Rows \union {NoRow}]
    /\ handler \in [Handlers -> Running \union {Idle}]
    /\ revision \in 0..MaxRevision
    /\ policy \in 0..MaxPolicy
    /\ effects \in [Requests -> Nat]
    /\ answers \subseteq [request : Requests, body : Bodies, answer : Receipts \union Transient]
    /\ faults \in 0..MaxFaults

\* The plan of a request takes effect exactly when its receipt says "applied", and
\* then once: through resends, takeovers, crashes and lost replies there is no
\* second effect, no lost one and no false report (chat_requests.py:138-170).
ReceiptTellsEffect ==
    \A r \in Requests :
        effects[r] = IF Completed(r) /\ row[r].receipt = "applied" THEN 1 ELSE 0

\* Every terminal answer a client ever got for a request is its one receipt, and
\* it went to the body that made the request (chat_requests.py:99-113).
AnswersAgree ==
    \A a \in answers : a.answer \in Receipts =>
        Completed(a.request) /\ row[a.request].receipt = a.answer /\ row[a.request].body = a.body

\* A plan takes effect only on the revision its request was sent for, while the
\* policies its provider call was given are still in force (ai/views.py:516-535).
AppliedOnlyFresh ==
    [][\A r \in Requests : effects'[r] # effects[r] =>
          /\ row[r].body = revision
          /\ \E h \in Handlers : handler[h] # Idle /\ handler[h].request = r /\ handler[h].policy = policy]_vars

\* A claimed request is settled if its client keeps asking: no crash, busy
\* database or slow provider leaves an identity locked for ever.
EverySettles == \A r \in Requests : row[r] # NoRow ~> Completed(r)

\* The claims and receipts implement exactly-once requests.
Promise == INSTANCE ExactlyOnce WITH
    Outcomes <- Receipts,
    outcome <- [r \in Requests |-> IF Completed(r) THEN row[r].receipt ELSE "unknown"],
    told <- {<<a.request, a.answer>> : a \in {x \in answers : x.answer \in Receipts}}

ImplementsExactlyOnce == Promise!Spec
=============================================================================

---------------------------- MODULE DatedResource ----------------------------
(***************************************************************************)
(* One provider's list on the schedule page: useDatedResource.ts, the      *)
(* completion of its tasks (useTaskCompletion.ts) and the account state    *)
(* that decides whether it is read at all (useExternalSources.ts).         *)
(*                                                                         *)
(* Lists, account verdicts and completions are answered in any order, late *)
(* or never.  requestSeq, epoch, accountSeq and accountGeneration are only *)
(* compared with their present value, so each request keeps whether its    *)
(* number is still that one.  Aborting a request may come too late to keep *)
(* its response from being delivered.                                      *)
(*                                                                         *)
(* The server keeps the promise of IntegrationCache: a list asked for      *)
(* after a completion was acknowledged does not hold the task.             *)
(***************************************************************************)
EXTENDS Naturals

CONSTANTS
    Loads,          \* slots for list reads in flight
    Dates,          \* days of the page
    Contexts,       \* time zone and today of the page
    Tasks,          \* tasks of the provider
    MaxAccount,     \* bound on changes of the account at the server
    None            \* no key, no request

VARIABLES
    date, context,  \* what the page shows
    key,            \* activeKey, None before the first load
    verdict,        \* accountState, with the server's account it is about
    loading,        \* state.loading
    rows,           \* state.tasks, with the list they came from
    pending,        \* tasks whose completion is in flight
    completed,      \* tasks whose completion was acknowledged
    load,           \* list reads in flight
    check,          \* the account read in flight
    post,           \* completions in flight
    visit,          \* a page visit in flight: date and snapshot
    account,        \* server: odd while connected, counts the changes
    open,           \* server: open tasks
    told            \* tasks of which the page accepted the acknowledgement

pageVars == <<date, context, key, verdict, loading, rows, pending, completed>>
callVars == <<load, check, post, visit>>
serverVars == <<account, open, told>>
vars == <<pageVars, callVars, serverVars>>

-----------------------------------------------------------------------------

Idle == [phase |-> "idle"]

On(n) == n % 2 = 1

NoRows == [date |-> None, context |-> None, tasks |-> {}]

Connected(v) == v.state = "connected"

Verdict(n) == [state |-> IF On(n) THEN "connected" ELSE "disconnected", of |-> n]

\* The present verdict of nobody: the fallback before any answer.
Unproven == [state |-> "disconnected", of |-> 0]

Outdated(l) == IF l = Idle THEN Idle ELSE [l EXCEPT !.latest = FALSE]

AllOutdated == [l \in Loads |-> Outdated(load[l])]

Foreign(p) == IF p = Idle THEN Idle ELSE [p EXCEPT !.same = FALSE]

\* resetResource, apart from the reads: rows and completions go, and the
\* completions in flight belong to an earlier epoch.
Clear ==
    /\ rows' = NoRows /\ pending' = {} /\ completed' = {}
    /\ post' = [t \in Tasks |-> Foreign(post[t])]

StopSpinner == loading' = FALSE

KeepRows == UNCHANGED <<rows, pending, completed, post>>

Fresh(d, c) == [phase |-> "sent", latest |-> TRUE, date |-> d, context |-> c]

\* load: another date or context drops the rows; the newest read wins.
Send(d, c, refresh) ==
    /\ \E l \in Loads : load[l] = Idle /\ load' = [AllOutdated EXCEPT ![l] = Fresh(d, c)]
    /\ key' = <<d, c>>
    /\ loading' = (~refresh \/ (loading /\ key \in {None, <<d, c>>}))

Changes(d, c) == key # None /\ key # <<d, c>>

Load(refresh) ==
    /\ Connected(verdict)
    /\ Send(date, context, refresh)
    /\ IF Changes(date, context) THEN Clear ELSE KeepRows
    /\ UNCHANGED <<date, context, verdict, check, visit, serverVars>>

\* The watcher of one source: it reads its list when it is connected.
Watched(v, d, c) ==
    IF Connected(v) THEN Send(d, c, FALSE)
    ELSE load' = AllOutdated /\ StopSpinner /\ UNCHANGED key

\* A partial reload shows another day; the retained snapshot is of the old one.
GoTo(d) ==
    /\ d # date
    /\ date' = d
    /\ IF Connected(verdict)
       THEN Send(d, context, FALSE) /\ IF Changes(d, context) THEN Clear ELSE KeepRows
       ELSE UNCHANGED <<load, key, loading>> /\ KeepRows
    /\ UNCHANGED <<context, verdict, check, visit, serverVars>>

\* Midnight or another zone: the context watch also gives up account reads.
SwitchContext(c) ==
    /\ c # context
    /\ context' = c
    /\ Clear
    /\ IF Connected(verdict) THEN Send(date, c, FALSE)
       ELSE load' = AllOutdated /\ StopSpinner /\ key' = None
    /\ check' = Outdated(check)
    /\ UNCHANGED <<date, verdict, visit, serverVars>>

\* invalidateAccount with the verdict of the server's answer n.
Invalidate(n, d) ==
    /\ verdict' = Verdict(n)
    /\ Clear
    /\ check' = Outdated(check)
    /\ Watched(Verdict(n), d, context)

\* A full visit brings a snapshot of the accounts, taken when it was answered.
StartVisit(d) ==
    /\ visit = None
    /\ visit' = [date |-> d, of |-> account]
    /\ UNCHANGED <<pageVars, load, check, post, serverVars>>

ArriveVisit ==
    /\ visit # None
    /\ date' = visit.date
    /\ Invalidate(visit.of, visit.date)
    /\ visit' = None
    /\ UNCHANGED <<context, serverVars>>

-----------------------------------------------------------------------------
(* List reads *)

Closing == {t \in Tasks : post[t] # Idle /\ post[t].phase = "sent"}

\* The list as the server has it; a task being completed may be in it or not.
Answer(l) ==
    /\ load[l].phase = "sent"
    /\ \E some \in SUBSET (open \intersect Closing) :
        load' = [load EXCEPT ![l] = [phase |-> "answered", latest |-> @.latest, date |-> @.date,
                                     context |-> @.context, of |-> account,
                                     tasks |-> (open \ Closing) \union some]]
    /\ UNCHANGED <<pageVars, check, post, visit, serverVars>>

\* seq = requestSeq, which implies the epoch, the key and the context.
Current(l) == load[l].latest

Free(l) == load' = [load EXCEPT ![l] = Idle]

\* filterRows
FilterRows(tasks) == tasks \ (pending \union completed)

\* reconcileRows: a completed task is remembered until a list lacks it.
Reconcile(tasks) ==
    /\ completed' = completed \intersect tasks
    /\ rows' = [date |-> date, context |-> context, tasks |-> FilterRows(tasks)]

\* A list, or the verdict that there is no account.
Deliver(l) ==
    /\ load[l].phase = "answered"
    /\ IF ~Current(l) THEN Free(l) /\ UNCHANGED <<verdict, loading, rows, pending, completed, post, key>>
       ELSE /\ verdict' = Verdict(load[l].of)
            /\ IF On(load[l].of)
               THEN /\ Reconcile(load[l].tasks)
                    /\ Free(l) /\ loading' = FALSE
                    /\ UNCHANGED <<pending, post, key>>
               ELSE /\ Clear
                    /\ load' = [AllOutdated EXCEPT ![l] = Idle] /\ loading' = FALSE
                    /\ UNCHANGED key
    /\ check' = IF Current(l) /\ check # Idle THEN [check EXCEPT !.same = FALSE] ELSE check
    /\ UNCHANGED <<date, context, visit, serverVars>>

\* A failed read keeps the rows; it may say that the account is there.
DeliverFailure(l) ==
    /\ load[l] # Idle
    /\ Free(l)
    /\ loading' = IF Current(l) THEN FALSE ELSE loading
    /\ UNCHANGED <<date, context, key, verdict, rows, pending, completed, check, post, visit, serverVars>>

-----------------------------------------------------------------------------
(* Account reads *)

AnswerCheck ==
    /\ check.phase = "sent"
    /\ check' = [phase |-> "answered", latest |-> check.latest, same |-> check.same, of |-> account]
    /\ UNCHANGED <<pageVars, load, post, visit, serverVars>>

\* seq = accountSeq, and no list has brought an authoritative verdict since.
BelievedCheck == check.latest /\ check.same

DeliverCheck ==
    /\ check.phase = "answered"
    /\ check' = Idle
    /\ IF BelievedCheck
       THEN /\ verdict' = Verdict(check.of)
            /\ IF On(check.of) /\ ~Connected(verdict) THEN Send(date, context, FALSE)
               ELSE UNCHANGED <<load, key, loading>>
       ELSE UNCHANGED <<verdict, load, key, loading>>
    /\ KeepRows
    /\ UNCHANGED <<date, context, visit, serverVars>>

LoseCheck ==
    /\ check # Idle
    /\ check' = Idle
    /\ UNCHANGED <<pageVars, load, post, visit, serverVars>>

-----------------------------------------------------------------------------
(* Completions *)

Complete(t) ==
    /\ Connected(verdict)
    /\ t \in rows.tasks /\ t \notin pending \union completed
    /\ post[t] = Idle
    /\ pending' = pending \union {t}
    /\ rows' = [rows EXCEPT !.tasks = @ \ {t}]
    /\ post' = [post EXCEPT ![t] = [phase |-> "sent", same |-> TRUE]]
    /\ UNCHANGED <<date, context, key, verdict, loading, completed, load, check, visit, serverVars>>

\* The server closed the task and no cached list holds it any more.
Close(t) ==
    /\ post[t] # Idle /\ post[t].phase = "sent" /\ On(account)
    /\ open' = open \ {t}
    /\ post' = [post EXCEPT ![t] = [phase |-> "closed", same |-> @.same]]
    /\ UNCHANGED <<pageVars, load, check, visit, account, told>>

\* Variant: an acknowledged task is only no longer pending.
NotRemembered(t) == completed

Remembered(t) == completed \union {t}

EndPost(t) == post' = [post EXCEPT ![t] = Idle]

Acknowledge(t) ==
    /\ post[t] # Idle /\ post[t].phase = "closed"
    /\ EndPost(t)
    /\ IF post[t].same
       THEN pending' = pending \ {t} /\ completed' = Remembered(t) /\ told' = told \union {t}
       ELSE UNCHANGED <<pending, completed, told>>
    /\ UNCHANGED <<date, context, key, verdict, loading, rows, load, check, visit, account, open>>

\* A failure puts the row back; the provider may have closed the task anyhow.
Rollback(t) ==
    /\ post[t] # Idle
    /\ EndPost(t)
    /\ IF post[t].same
       THEN pending' = pending \ {t} /\ rows' = [rows EXCEPT !.tasks = @ \union {t}]
       ELSE UNCHANGED <<pending, rows>>
    /\ UNCHANGED <<date, context, key, verdict, loading, completed, load, check, visit, serverVars>>

\* A completion that finds no account: everything of it leaves the page.
NoAccount(t) ==
    /\ post[t] # Idle /\ post[t].phase = "sent" /\ ~On(account)
    /\ IF post[t].same
       THEN /\ verdict' = Verdict(account)
            /\ rows' = NoRows /\ pending' = {} /\ completed' = {}
            /\ post' = [[u \in Tasks |-> Foreign(post[u])] EXCEPT ![t] = Idle]
            /\ load' = AllOutdated /\ StopSpinner
            /\ check' = Outdated(check)
       ELSE EndPost(t) /\ UNCHANGED <<verdict, rows, pending, completed, load, loading, check>>
    /\ UNCHANGED <<date, context, key, visit, serverVars>>

\* Another tab or the settings page connects or disconnects the account.
ChangeAccount ==
    /\ account < MaxAccount
    /\ account' = account + 1
    /\ UNCHANGED <<pageVars, callVars, open, told>>

-----------------------------------------------------------------------------

\* The page opens with a snapshot of a connected account, or without one.
Init ==
    /\ date \in Dates /\ context \in Contexts
    /\ rows = NoRows /\ pending = {} /\ completed = {}
    /\ post = [t \in Tasks |-> Idle]
    /\ visit = None
    /\ account = 1 /\ open = Tasks /\ told = {}
    /\ \/ /\ verdict = Verdict(1) /\ check = Idle /\ loading = TRUE /\ key = <<date, context>>
          /\ \E l \in Loads : load = [[m \in Loads |-> Idle] EXCEPT ![l] = Fresh(date, context)]
       \/ /\ verdict = Unproven /\ check = [phase |-> "sent", latest |-> TRUE, same |-> TRUE]
          /\ loading = FALSE /\ key = None
          /\ load = [l \in Loads |-> Idle]

Next ==
    \/ \E refresh \in BOOLEAN : Load(refresh)
    \/ \E d \in Dates : GoTo(d) \/ StartVisit(d)
    \/ \E c \in Contexts : SwitchContext(c)
    \/ ArriveVisit
    \/ \E l \in Loads : Answer(l) \/ Deliver(l) \/ DeliverFailure(l)
    \/ AnswerCheck \/ DeliverCheck \/ LoseCheck
    \/ \E t \in Tasks : Complete(t) \/ Close(t) \/ Acknowledge(t) \/ Rollback(t) \/ NoAccount(t)
    \/ ChangeAccount

Spec == Init /\ [][Next]_vars

-----------------------------------------------------------------------------
(* Properties *)

\* Rows are of the day, the zone and the today the page shows, and of an
\* account: no late list of another day, and none after a disconnect.
RowsOfShownDay ==
    rows.tasks # {} => rows.date = date /\ rows.context = context /\ Connected(verdict)

\* A completion the page has seen acknowledged is never undone on the page by a
\* list that was asked for before it (useTaskCompletion.ts:12), whatever days
\* are visited in between.
StaysCompleted == rows.tasks \intersect told = {}

\* A spinner belongs to a read that is still to be delivered and will end it.
SpinnerOwned == loading => \E l \in Loads : load[l] # Idle /\ Current(l)

ListTrue == RowsOfShownDay /\ StaysCompleted /\ SpinnerOwned

\* What a list or an account read says of the account never replaces what was
\* learnt from a later answer; only a page visit may bring an older snapshot.
NotOlderVerdict == visit = None \/ visit' # None => verdict'.of >= verdict.of

=============================================================================

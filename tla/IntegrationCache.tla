--------------------------- MODULE IntegrationCache ---------------------------
(***************************************************************************)
(* One user's account at one external provider (todoist_sync,              *)
(* habitica_sync, calendar_sync) and the server cache of what the provider *)
(* answered.  The three apps share this protocol and no state, so a        *)
(* behaviour is about one of them.                                         *)
(*                                                                         *)
(* A cache entry is never deleted: its key holds the version of the        *)
(* account row (updated_at), and whoever changes the account or completes  *)
(* a task draws a new version.  Requests interleave at every call of the   *)
(* database, of the cache and of the provider.                             *)
(*                                                                         *)
(* An item is a task or an event, with its local day in each zone.  The    *)
(* two lists of a Habitica read are taken at once.                         *)
(***************************************************************************)
EXTENDS Naturals

CONSTANTS
    Kinds,          \* of "todoist", "habitica", "caldav"
    Requests,       \* requests in flight
    Secrets,        \* credentials the provider accepts
    Zones,          \* saved time zones
    Items,          \* what the provider may hold
    LastDay,        \* days are 0..LastDay
    MaxStamp,       \* bound on the versions drawn
    None            \* no account, no day

VARIABLES
    kind,           \* the provider
    account,        \* the row, or None
    connected,      \* the credentials of the last connect, None after a disconnect
    stamp,          \* versions and identities drawn so far
    zone,           \* UserScheduleSettings.time_zone
    today,          \* the local date in each zone
    open,           \* provider: items open for each credential
    cache,          \* what was last stored under each key
    request,        \* the requests
    acked           \* acknowledged completions: row identity, credentials and item

vars == <<kind, account, connected, stamp, zone, today, open, cache, request, acked>>

Days == 0..LastDay

-----------------------------------------------------------------------------
(* What the providers answer *)

\* _filter_query: the literal date, and on the user's today "| overdue".
TodoistTasks(i, z, d, t) ==
    ~i.daily /\ i.due[z] # None /\ (i.due[z] = d \/ (d = t /\ i.due[z] < d))

\* Dailies and undated to-dos only on the user's today.
HabiticaTasks(i, z, d, t) ==
    IF d = t THEN i.daily \/ i.due[z] = None \/ i.due[z] <= d
    ELSE ~i.daily /\ i.due[z] = d

\* The events inside the bounds of the user's local day.
CalDAVEvents(i, z, d, t) == i.due[z] = d

Answer(secret, z, d, t) ==
    {i \in open[secret] :
        CASE kind = "todoist" -> TodoistTasks(i, z, d, t)
          [] kind = "habitica" -> HabiticaTasks(i, z, d, t)
          [] kind = "caldav" -> CalDAVEvents(i, z, d, t)}

-----------------------------------------------------------------------------
(* Requests *)

Idle == [phase |-> "idle"]

\* tasks_filter_scope; the calendars ask every day alike.
Scope(d, t) == IF kind # "caldav" /\ d = t THEN "with_overdue" ELSE "exact"

\* versioned_key
Key(row, z, d, t) == <<row.version, z, d, Scope(d, t)>>

Query(row, z, d, t) == <<row.secret, z, d, Scope(d, t)>>

Free(r) == request[r].phase \in {"idle", "replied"}

InPhase(r, phase) == request[r].phase = phase

Become(r, state) == request' = [request EXCEPT ![r] = state]

Fail(r) ==
    /\ ~Free(r)
    /\ Become(r, Idle)
    /\ UNCHANGED <<kind, account, connected, stamp, zone, today, open, cache, acked>>

\* One saved zone and one clock snapshot control the query and the key.
StartRead(r, d) ==
    /\ Free(r) /\ account # None
    /\ Become(r, [phase |-> "loaded", row |-> account, zone |-> zone, date |-> d,
                  today |-> today[zone]])
    /\ UNCHANGED <<kind, account, connected, stamp, zone, today, open, cache, acked>>

KeyOf(q) == Key(q.row, q.zone, q.date, q.today)

QueryOf(q) == Query(q.row, q.zone, q.date, q.today)

Reply(r, entry) ==
    LET q == request[r] IN
    Become(r, [phase |-> "replied", asked |-> QueryOf(q), told |-> entry.query])

Hit(r) ==
    /\ InPhase(r, "loaded")
    /\ KeyOf(request[r]) \in DOMAIN cache
    /\ Reply(r, cache[KeyOf(request[r])])
    /\ UNCHANGED <<kind, account, connected, stamp, zone, today, open, cache, acked>>

\* A forced refresh, an expired entry and an absent one all ask the provider.
Fetch(r) ==
    /\ InPhase(r, "loaded")
    /\ LET q == request[r] IN
        Become(r, [phase |-> "fetched", row |-> q.row, zone |-> q.zone, date |-> q.date,
                   today |-> q.today,
                   entry |-> [query |-> QueryOf(q),
                              items |-> Answer(q.row.secret, q.zone, q.date, q.today)]])
    /\ UNCHANGED <<kind, account, connected, stamp, zone, today, open, cache, acked>>

\* Variant: the row is loaded again for the key.
KeyOfReloadedRow(r) == KeyOf([request[r] EXCEPT !.row = IF account = None THEN @ ELSE account])

\* The entry is stored under the version loaded before the provider was asked.
StoreKey(r) == KeyOf(request[r])

Store(r) ==
    /\ InPhase(r, "fetched")
    /\ LET key == StoreKey(r) IN
        cache' = [k \in DOMAIN cache \union {key} |->
                    IF k = key THEN request[r].entry ELSE cache[k]]
    /\ Reply(r, request[r].entry)
    /\ UNCHANGED <<kind, account, connected, stamp, zone, today, open, acked>>

StartComplete(r, i) ==
    /\ Free(r) /\ account # None /\ kind # "caldav"
    /\ Become(r, [phase |-> "closing", row |-> account, item |-> i])
    /\ UNCHANGED <<kind, account, connected, stamp, zone, today, open, cache, acked>>

\* The provider applies the completion; its answer may still be lost (Fail).
Close(r) ==
    /\ InPhase(r, "closing")
    /\ LET q == request[r] IN
        /\ q.item \in open[q.row.secret]
        /\ open' = [open EXCEPT ![q.row.secret] = @ \ {q.item}]
        /\ Become(r, [q EXCEPT !.phase = "closed"])
    /\ UNCHANGED <<kind, account, connected, stamp, zone, today, cache, acked>>

\* invalidate_account_version: an UPDATE of the version of this very row.
Bumped(row) ==
    IF account # None /\ account.id = row.id THEN [account EXCEPT !.version = stamp + 1]
    ELSE account

Invalidate(r) ==
    /\ InPhase(r, "closed")
    /\ stamp < MaxStamp
    /\ stamp' = stamp + 1
    /\ account' = Bumped(request[r].row)
    /\ acked' = acked \union {<<request[r].row.id, request[r].row.secret, request[r].item>>}
    /\ Become(r, Idle)
    /\ UNCHANGED <<kind, connected, zone, today, open, cache>>

-----------------------------------------------------------------------------
(* The account row *)

\* Verified credentials are saved under the row lock, in a new row if need be.
Connect(secret) ==
    /\ stamp < MaxStamp
    /\ stamp' = stamp + 1
    /\ account' = [id |-> IF account = None THEN stamp + 1 ELSE account.id,
                   version |-> stamp + 1, secret |-> secret]
    /\ connected' = secret
    /\ UNCHANGED <<kind, zone, today, open, cache, request, acked>>

Disconnect ==
    /\ account # None
    /\ account' = None
    /\ connected' = None
    /\ UNCHANGED <<kind, stamp, zone, today, open, cache, request, acked>>

\* The settings page saves another zone.
SetZone(z) ==
    /\ z # zone
    /\ zone' = z
    /\ UNCHANGED <<kind, account, connected, stamp, today, open, cache, request, acked>>

\* Midnight in one zone; no two zones are more than a day apart.
Midnight(z) ==
    /\ today[z] < LastDay
    /\ \A y \in Zones : today[z] <= today[y]
    /\ today' = [today EXCEPT ![z] = @ + 1]
    /\ UNCHANGED <<kind, account, connected, stamp, zone, open, cache, request, acked>>

-----------------------------------------------------------------------------
(* The views *)

TaskRead(r) == (\E d \in Days : StartRead(r, d)) \/ Hit(r) \/ Fetch(r) \/ Store(r) \/ Fail(r)

TaskComplete(r) ==
    \/ account # None /\ \E i \in open[account.secret] : StartComplete(r, i)
    \/ Close(r) \/ Invalidate(r)

AccountView == (\E s \in Secrets : Connect(s)) \/ Disconnect

Todoist(r) == kind = "todoist" /\ (TaskRead(r) \/ TaskComplete(r))

Habitica(r) == kind = "habitica" /\ (TaskRead(r) \/ TaskComplete(r))

CalDAV(r) == kind = "caldav" /\ TaskRead(r)

TodoistAccount == kind = "todoist" /\ AccountView

HabiticaAccount == kind = "habitica" /\ AccountView

CalDAVAccount == kind = "caldav" /\ AccountView

Init ==
    /\ kind \in Kinds
    /\ account = None /\ connected = None
    /\ stamp = 0
    /\ zone \in Zones
    /\ today = [z \in Zones |-> 0]
    /\ open = [s \in Secrets |-> {i \in Items : i.source = kind}]
    /\ cache = [k \in {} |-> None]
    /\ request = [r \in Requests |-> Idle]
    /\ acked = {}

Next ==
    \/ \E r \in Requests : Todoist(r) \/ Habitica(r) \/ CalDAV(r)
    \/ TodoistAccount \/ HabiticaAccount \/ CalDAVAccount
    \/ \E z \in Zones : SetZone(z) \/ Midnight(z)

Spec == Init /\ [][Next]_vars

-----------------------------------------------------------------------------
(* Properties *)

\* A read is answered with what this account said to this very question: the
\* same credentials, zone, date and treatment of overdue tasks, although the
\* account, the settings and the date change while it is in flight.
AnsweredAsAsked ==
    \A r \in Requests : InPhase(r, "replied") => request[r].told = request[r].asked

Reachable(k) == account # None /\ k[1] = account.version

\* What a later read may be served was said to the present credentials.
ServesPresentAccount ==
    \A k \in DOMAIN cache : Reachable(k) => cache[k].query[1] = account.secret

\* Once a completion is acknowledged, no list the cache can still serve holds
\* the task, although reads that began before it store their lists afterwards
\* (todoist_sync/views.py:278-282).  A row that was disconnected and connected
\* again meanwhile is another row, which that completion does not reach.
CompletedNotServed ==
    \A k \in DOMAIN cache : Reachable(k) =>
        \A i \in cache[k].items : <<account.id, account.secret, i>> \notin acked

\* The stored credentials are those the user connected last, and none after a
\* disconnect: a completion in flight neither puts back old credentials nor
\* revives the row (todoist_sync/cache.py:83-86).
CredentialsAsConnected ==
    connected = IF account = None THEN None ELSE account.secret

AccountsTrue ==
    /\ AnsweredAsAsked
    /\ ServesPresentAccount
    /\ CompletedNotServed
    /\ CredentialsAsConnected
=============================================================================

----------------------------- MODULE GoogleTokens -----------------------------
(***************************************************************************)
(* One Google account of a user (gcal_sync): its OAuth tokens, and the     *)
(* cache of its events, under concurrent reads of a day.                   *)
(*                                                                         *)
(* A read with a stale access token refreshes it over the network without  *)
(* a lock and then writes the row under one.  Google may answer a refresh  *)
(* with another refresh token, and may stop accepting the one it was given *)
(* (_refresh_sync).  Disconnecting, reconnecting and crashes of a read     *)
(* interleave at every call; revocation at Google is left out.             *)
(*                                                                         *)
(* All events of a row are those of one Google account, so an entry of the *)
(* cache is its key: the identity and the version of the row.              *)
(***************************************************************************)
EXTENDS Naturals

CONSTANTS
    Reads,          \* event reads in flight
    MaxToken,       \* bound on refresh tokens drawn
    MaxStamp,       \* bound on row identities and versions drawn
    None            \* no row, no token, no state

VARIABLES
    row,            \* the GoogleCalendarAccount row, or None
    session,        \* gcal_oauth_state of the session: a number, or None
    stamp,          \* identities, versions and states drawn
    token,          \* refresh tokens drawn by Google
    accepted,       \* refresh tokens Google accepts
    read,           \* the reads
    cache,          \* keys with a stored answer
    lost            \* a rotated token went with a crashed read or a deleted row

vars == <<row, session, stamp, token, accepted, read, cache, lost>>

-----------------------------------------------------------------------------

Idle == [phase |-> "idle"]

InPhase(r, phase) == read[r].phase = phase

Become(r, state) == read' = [read EXCEPT ![r] = state]

KeyOf(id, version) == <<id, version>>

Init ==
    /\ row = None /\ session = None
    /\ stamp = 0 /\ token = 0
    /\ accepted = {}
    /\ read = [r \in Reads |-> Idle]
    /\ cache = {}
    /\ lost = FALSE

\* connect: the state of an earlier click is forgotten.
Connect ==
    /\ stamp < MaxStamp
    /\ stamp' = stamp + 1
    /\ session' = stamp + 1
    /\ UNCHANGED <<row, token, accepted, read, cache, lost>>

\* callback: the state is used up; without an error the row of this Google
\* account is created or takes over the tokens of the new consent.
CallbackFails ==
    /\ session # None
    /\ session' = None
    /\ UNCHANGED <<row, stamp, token, accepted, read, cache, lost>>

Callback ==
    /\ session # None /\ stamp < MaxStamp /\ token < MaxToken
    /\ session' = None
    /\ stamp' = stamp + 1
    /\ token' = token + 1
    /\ accepted' = accepted \union {token + 1}
    /\ row' = [id |-> IF row = None THEN stamp + 1 ELSE row.id, version |-> stamp + 1,
               refresh |-> token + 1, fresh |-> TRUE]
    /\ UNCHANGED <<read, cache, lost>>

\* account_detail; Google keeps the grant.
Disconnect ==
    /\ row # None
    /\ row' = None
    /\ UNCHANGED <<session, stamp, token, accepted, read, cache, lost>>

\* The access token comes within the skew of its expiry.
Expire ==
    /\ row # None /\ row.fresh
    /\ row' = [row EXCEPT !.fresh = FALSE]
    /\ UNCHANGED <<session, stamp, token, accepted, read, cache, lost>>

-----------------------------------------------------------------------------
(* events *)

Free(r) == read[r].phase \in {"idle", "stored"}

\* events, for an account the cache answers or not (or must not, on refresh).
StartRead(r) ==
    /\ Free(r) /\ row # None
    /\ \/ KeyOf(row.id, row.version) \in cache /\ Become(r, Idle)
       \/ Become(r, [phase |-> "loaded", row |-> row])
    /\ UNCHANGED <<row, session, stamp, token, accepted, cache, lost>>

Ensured(id, version, since) == [phase |-> "ensured", id |-> id, version |-> version, since |-> since]

\* _ensure_access_token with a token that is fresh in the loaded row.
UseCached(r) ==
    /\ InPhase(r, "loaded") /\ read[r].row.fresh
    /\ Become(r, Ensured(read[r].row.id, read[r].row.version, read[r].row.version))
    /\ UNCHANGED <<row, session, stamp, token, accepted, cache, lost>>

Refreshed(q, rotated) == [phase |-> "refreshed", row |-> q.row, rotated |-> rotated]

\* _refresh_sync: the same refresh token stays good.
Refresh(r) ==
    /\ InPhase(r, "loaded") /\ ~read[r].row.fresh
    /\ read[r].row.refresh \in accepted
    /\ Become(r, Refreshed(read[r], None))
    /\ UNCHANGED <<row, session, stamp, token, accepted, cache, lost>>

\* _refresh_sync: Google rotates, and may stop accepting the old token.
Rotate(r) ==
    /\ InPhase(r, "loaded") /\ ~read[r].row.fresh
    /\ read[r].row.refresh \in accepted
    /\ token < MaxToken
    /\ token' = token + 1
    /\ \E gone \in SUBSET {read[r].row.refresh} :
          accepted' = (accepted \ gone) \union {token + 1}
    /\ Become(r, Refreshed(read[r], token + 1))
    /\ UNCHANGED <<row, session, stamp, cache, lost>>

\* RefreshError, a timeout, a provider error, or the worker dies.
GiveUp(r) ==
    /\ ~Free(r)
    /\ lost' = (lost \/ (InPhase(r, "refreshed") /\ read[r].rotated # None))
    /\ Become(r, Idle)
    /\ UNCHANGED <<row, session, stamp, token, accepted, cache>>

\* already_fresh, and nothing of this read would be thrown away.
AlreadyFresh(r) == row.fresh /\ read[r].rotated = None

\* account.updated_at = new_updated_at
ReadVersion(r, version) == version

Mine(r) == row # None /\ row.id = read[r].row.id

Reuse(r) ==
    /\ InPhase(r, "refreshed") /\ Mine(r) /\ AlreadyFresh(r)
    /\ Become(r, Ensured(row.id, ReadVersion(r, row.version), row.version))
    /\ UNCHANGED <<row, session, stamp, token, accepted, cache, lost>>

\* _persist_refreshed_tokens: the freshest row under its lock.
Persist(r) ==
    /\ InPhase(r, "refreshed") /\ Mine(r) /\ ~AlreadyFresh(r)
    /\ stamp < MaxStamp
    /\ stamp' = stamp + 1
    /\ row' = [row EXCEPT !.version = stamp + 1, !.fresh = TRUE,
                          !.refresh = IF read[r].rotated = None THEN @ ELSE read[r].rotated]
    /\ Become(r, Ensured(row.id, ReadVersion(r, stamp + 1), stamp + 1))
    /\ UNCHANGED <<session, token, accepted, cache, lost>>

\* The row was disconnected meanwhile; reconnecting made another one.
RowGone(r) ==
    /\ InPhase(r, "refreshed") /\ ~Mine(r)
    /\ Become(r, Idle)
    /\ UNCHANGED <<row, session, stamp, token, accepted, cache, lost>>

\* fetch_events_for_account, and the answer stored under the account in memory.
Store(r) ==
    /\ InPhase(r, "ensured")
    /\ cache' = cache \union {KeyOf(read[r].id, read[r].version)}
    /\ Become(r, [phase |-> "stored", id |-> read[r].id, since |-> read[r].since])
    /\ UNCHANGED <<row, session, stamp, token, accepted, lost>>

Next ==
    \/ Connect \/ Callback \/ CallbackFails \/ Disconnect \/ Expire
    \/ \E r \in Reads : StartRead(r) \/ UseCached(r) \/ Refresh(r) \/ Rotate(r) \/ GiveUp(r)
                         \/ Reuse(r) \/ Persist(r) \/ RowGone(r) \/ Store(r)

Spec == Init /\ [][Next]_vars

-----------------------------------------------------------------------------
(* Properties *)

Carries(r) == InPhase(r, "refreshed") /\ read[r].rotated \in accepted /\ Mine(r)

\* The stored refresh token is one Google accepts, however many reads refresh it
\* at once: when a rotation invalidated it, a read still carries its successor
\* to the row (service.py:343-354), unless that read died.
StoredTokenAccepted ==
    row # None /\ ~lost => row.refresh \in accepted \/ \E r \in Reads : Carries(r)

\* An answer is stored where the next read looks for it, unless the row was
\* written again since the access token was ensured (service.py:371-389).
AnswerReachable ==
    \A r \in Reads : InPhase(r, "stored") /\ row # None /\ row.id = read[r].id
                        /\ row.version = read[r].since
        => KeyOf(row.id, row.version) \in cache

AccountsTrue == StoredTokenAccepted /\ AnswerReachable
=============================================================================

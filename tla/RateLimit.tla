------------------------------- MODULE RateLimit -------------------------------
(***************************************************************************)
(* The fixed-window counter of one key (schedules/ratelimit.py) in a cache *)
(* that may drop the key between any two operations: it expires, or it is  *)
(* evicted.  Requests call consume_rate_limit concurrently; each operation *)
(* of the cache is atomic.                                                 *)
(***************************************************************************)
EXTENDS Naturals

CONSTANTS
    Calls,          \* slots for calls in progress
    Limit,          \* tokens of a window
    Attempts,       \* _MAX_RESEED_ATTEMPTS
    MaxWindows,     \* bound on windows opened
    MaxCount,       \* bound on the counter
    None            \* no counter

VARIABLES
    counter,        \* the cached count, or None
    call,           \* the calls
    windows,        \* windows opened so far
    admitted        \* calls admitted in the present window

vars == <<counter, call, windows, admitted>>

Idle == [phase |-> "idle", tries |-> 0]

Init ==
    /\ counter = None
    /\ call = [c \in Calls |-> Idle]
    /\ windows = 0
    /\ admitted = 0

Become(c, phase, tries) == call' = [call EXCEPT ![c] = [phase |-> phase, tries |-> tries]]

At(c, phase) == call[c].phase = phase

\* cache.add of a key that is absent opens a window with its first token.
Open ==
    /\ windows < MaxWindows
    /\ counter' = 1
    /\ windows' = windows + 1
    /\ admitted' = IF 1 <= Limit THEN 1 ELSE 0

\* The count a call got decides about it.
Counted(n) == admitted' = IF n <= Limit THEN admitted + 1 ELSE admitted

First(c) ==
    /\ At(c, "idle")
    /\ IF counter = None
       THEN Open /\ UNCHANGED call
       ELSE Become(c, "incr", 0) /\ UNCHANGED <<counter, windows, admitted>>

\* Variant: Django's inherited aincr reads and writes in two steps.
ReadThenWrite(c) ==
    \/ At(c, "incr") /\ counter # None /\ Become(c, "write", counter + 1)
          /\ UNCHANGED <<counter, windows, admitted>>
    \/ At(c, "write") /\ counter # None /\ counter' = call[c].tries /\ Counted(call[c].tries)
          /\ Become(c, "idle", 0) /\ UNCHANGED windows

\* cache.incr of the synchronous backend.
Increment(c) ==
    /\ At(c, "incr") /\ counter # None /\ counter < MaxCount
    /\ counter' = counter + 1
    /\ Counted(counter + 1)
    /\ Become(c, "idle", 0)
    /\ UNCHANGED windows

\* The key is gone: reseed, again and again up to Attempts times, then refuse.
Vanished(c) ==
    /\ At(c, "incr") /\ counter = None
    /\ IF call[c].tries < Attempts THEN Become(c, "reseed", call[c].tries + 1)
       ELSE Become(c, "idle", 0)
    /\ UNCHANGED <<counter, windows, admitted>>

\* One caller establishes the new window, the others join it.
Reseed(c) ==
    /\ At(c, "reseed")
    /\ IF counter = None
       THEN Open /\ Become(c, "idle", 0)
       ELSE Become(c, "incr", call[c].tries) /\ UNCHANGED <<counter, windows, admitted>>

\* The window ends, or the cache drops the key before.
Evict ==
    /\ counter # None
    /\ counter' = None
    /\ admitted' = 0
    /\ UNCHANGED <<call, windows>>

Next ==
    \/ \E c \in Calls : First(c) \/ Increment(c) \/ Vanished(c) \/ Reseed(c)
    \/ Evict

Spec == Init /\ [][Next]_vars

\* However callers race to count and to reseed, one window admits no more calls
\* than its limit (ratelimit.py:18-23).
WithinBudget == admitted <= Limit
=============================================================================

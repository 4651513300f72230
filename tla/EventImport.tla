------------------------------ MODULE EventImport ------------------------------
(***************************************************************************)
(* Importing an external event into the shown day (useEventImport.ts): the *)
(* travel rules come with a full page visit or from a request of their     *)
(* own, and a click on an event waits for them before its dialog opens.    *)
(*                                                                         *)
(* A visit's snapshot is only current on the day it was made for, so a     *)
(* partial reload of another day finds none.  At most one request of a     *)
(* generation is unsettled; an aborted one settles like a failed one, in   *)
(* any order with the others.                                              *)
(***************************************************************************)
EXTENDS Naturals

CONSTANTS
    Dates,          \* days of the page
    Clicks,         \* slots for clicks that wait for the rules
    MaxGeneration,  \* bound on generations
    None            \* no request, no click, no dialog

VARIABLES
    date,           \* the shown day
    signedIn,       \* a user is signed in
    ready,          \* travelRulesReady
    failed,         \* travelRulesError
    generation,     \* of the rules
    fetch,          \* fetchInFlight: the generation it was sent in, or None
    sent,           \* generations with an unsettled request
    click,          \* clicks that wait: day, generation, whether the wait is over
    dialog          \* the day of the event in the dialog, or None

vars == <<date, signedIn, ready, failed, generation, fetch, sent, click, dialog>>

Init ==
    /\ date \in Dates /\ signedIn = TRUE
    /\ failed = FALSE /\ dialog = None
    /\ generation = 1
    /\ click = [c \in Clicks |-> None]
    /\ \/ ready = TRUE /\ fetch = None /\ sent = {}
       \/ ready = FALSE /\ fetch = 1 /\ sent = {1}

\* abortRulesFetch
Advance == generation < MaxGeneration /\ generation' = generation + 1

AbortFetch == Advance /\ fetch' = None /\ UNCHANGED sent

Refetch == Advance /\ fetch' = generation + 1 /\ sent' = sent \union {generation + 1}

\* Variant: the request of the day that was left is given up, and no more.
DateWatchAborts == IF fetch # None THEN AbortFetch ELSE UNCHANGED <<generation, fetch, sent>>

\* A request in flight is of the previous day; the rules are still needed.
DateWatch ==
    IF fetch = None THEN UNCHANGED <<generation, fetch, sent>>
    ELSE IF ready THEN AbortFetch ELSE Refetch

\* A partial reload brings another day.
GoTo(d) ==
    /\ d # date /\ signedIn
    /\ date' = d
    /\ DateWatch
    /\ dialog' = None
    /\ UNCHANGED <<signedIn, ready, failed, click>>

\* A full visit brings a current snapshot with the rules.
Visit(d) ==
    /\ date' = d /\ signedIn' = TRUE
    /\ AbortFetch
    /\ ready' = TRUE /\ failed' = FALSE
    /\ dialog' = IF d = date /\ signedIn THEN dialog ELSE None
    /\ UNCHANGED click

SignOut ==
    /\ signedIn
    /\ signedIn' = FALSE
    /\ AbortFetch
    /\ ready' = FALSE /\ failed' = FALSE /\ dialog' = None
    /\ UNCHANGED <<date, click>>

\* The same user is back without a current snapshot.
SignIn ==
    /\ ~signedIn
    /\ signedIn' = TRUE
    /\ Refetch
    /\ ready' = FALSE /\ dialog' = None
    /\ UNCHANGED <<date, failed, click>>

\* A request settles; only one of this generation decides about the rules.
Settle(g, ok) ==
    /\ g \in sent
    /\ sent' = sent \ {g}
    /\ IF g = generation
       THEN ready' = (ready \/ ok) /\ failed' = ~ok
       ELSE UNCHANGED <<ready, failed>>
    /\ fetch' = IF fetch = g THEN None ELSE fetch
    /\ click' = [c \in Clicks |->
                    IF click[c] # None /\ click[c].of = g
                    THEN [click[c] EXCEPT !.over = TRUE] ELSE click[c]]
    /\ UNCHANGED <<date, signedIn, generation, dialog>>

\* handleAddToSchedule: with the rules at hand the dialog opens at once.
Add(c) ==
    /\ signedIn /\ click[c] = None
    /\ IF ready THEN dialog' = date /\ UNCHANGED <<fetch, sent, click>>
       ELSE /\ fetch' = generation /\ sent' = sent \union {generation}
            /\ click' = [click EXCEPT ![c] = [date |-> date, of |-> generation, over |-> FALSE]]
            /\ UNCHANGED dialog
    /\ UNCHANGED <<date, signedIn, ready, failed, generation>>

StillWanted(c) == click[c].of = generation /\ click[c].date = date /\ signedIn

Continue(c) ==
    /\ click[c] # None /\ click[c].over
    /\ dialog' = IF StillWanted(c) THEN click[c].date ELSE dialog
    /\ click' = [click EXCEPT ![c] = None]
    /\ UNCHANGED <<date, signedIn, ready, failed, generation, fetch, sent>>

CloseDialog ==
    /\ dialog # None
    /\ dialog' = None
    /\ UNCHANGED <<date, signedIn, ready, failed, generation, fetch, sent, click>>

Next ==
    \/ \E d \in Dates : GoTo(d) \/ Visit(d)
    \/ SignOut \/ SignIn \/ CloseDialog
    \/ \E g \in sent, ok \in BOOLEAN : Settle(g, ok)
    \/ \E c \in Clicks : Add(c) \/ Continue(c)

Spec == Init /\ [][Next]_vars

\* The dialog adds an event of the day that is shown: a click that waited for
\* the rules while the page went elsewhere is forgotten.
DialogOfShownDay == dialog # None => dialog = date /\ signedIn

\* The page never waits for rules nobody asks for: without rules and without an
\* error to show there is a request, although every change of day aborts one.
RulesAreComing == signedIn /\ ~ready /\ ~failed => fetch # None /\ fetch \in sent

ImportTrue == DialogOfShownDay /\ RulesAreComing
=============================================================================

------------------------------ MODULE FocusWindow ------------------------------
(***************************************************************************)
(* The focus window of the browser, a picture-in-picture document that     *)
(* shows the current block while the user is elsewhere                     *)
(* (useFocusIndicator.ts), and the copy of the day it shows                *)
(* (useFocusIndicatorController.ts).  Both outlive the schedule page and   *)
(* must not outlive the account.                                           *)
(*                                                                         *)
(* The browser opens the window some time after it was asked to, or        *)
(* refuses; in between the user may hide the indicator, log out, and ask   *)
(* again.  Several requests may then be on their way.                      *)
(***************************************************************************)
EXTENDS Naturals

CONSTANTS
    Users,      \* accounts of this browser
    Asks,       \* calls of open under way at a time
    MaxEpoch,   \* bound on cleanups
    None        \* no user, no window, no call

VARIABLES
    ask,          \* per call of open its epoch and its user, None: no such call
    epoch,        \* epoch
    pendingOpen,  \* pendingOpen
    pipWindow,    \* the window the page knows
    windows,      \* the windows that are open: the call and the user of each
    openError,    \* whether the recovery message is shown
    stored,       \* the restore intent of this device
    storedShouldBeOpen,   \* the page's copy of it
    user,         \* auth_user_id
    page,         \* the mounted schedule page: its user and the generation it began with
    generation,   \* publicationGeneration
    retained      \* whose blocks are retained

windowVars == <<ask, epoch, pendingOpen, pipWindow, windows, openError, stored, storedShouldBeOpen>>
copyVars == <<user, page, generation, retained>>
vars == <<windowVars, copyVars>>

isOpen == pipWindow # None

Init ==
    /\ ask = [c \in Asks |-> None] /\ epoch = 0
    /\ pendingOpen = FALSE /\ pipWindow = None /\ windows = {} /\ openError = FALSE
    /\ user \in Users \union {None}
    /\ stored \in (IF user = None THEN {FALSE} ELSE BOOLEAN) /\ storedShouldBeOpen = stored
    /\ page = None /\ generation = 0 /\ retained = None

-----------------------------------------------------------------------------
(* The window *)

\* open, up to the call of the browser.
Open(c) ==
    /\ user # None /\ page # None
    /\ ~isOpen /\ ~pendingOpen
    /\ ask[c] = None
    /\ ask' = [ask EXCEPT ![c] = [epoch |-> epoch, by |-> user]]
    /\ pendingOpen' = TRUE
    /\ openError' = FALSE
    /\ UNCHANGED <<epoch, pipWindow, windows, stored, storedShouldBeOpen, copyVars>>

Answered(c) == ask[c] # None /\ ask' = [ask EXCEPT ![c] = None]

\* Variant: the window is taken whoever asked for it.
CurrentAlways(c) == TRUE

Current(c) == ask[c].epoch = epoch

Adopt(c) ==
    /\ Answered(c) /\ Current(c)
    /\ pendingOpen' = FALSE
    /\ pipWindow' = [call |-> c, by |-> ask[c].by]
    /\ windows' = windows \union {pipWindow'}
    /\ stored' = TRUE /\ storedShouldBeOpen' = TRUE
    /\ UNCHANGED <<epoch, openError, copyVars>>

\* A window nobody waits for is closed at once.
CloseOrphan(c) ==
    /\ Answered(c) /\ ~Current(c)
    /\ UNCHANGED <<epoch, pendingOpen, pipWindow, windows, openError, stored, storedShouldBeOpen, copyVars>>

\* The browser refuses, or the set-up of the window fails.
Refused(c) ==
    /\ Answered(c)
    /\ IF Current(c)
       THEN /\ pendingOpen' = FALSE
            /\ pipWindow' = None /\ windows' = windows \ {pipWindow}
            /\ openError' = TRUE
       ELSE UNCHANGED <<pendingOpen, pipWindow, windows, openError>>
    /\ UNCHANGED <<epoch, stored, storedShouldBeOpen, copyVars>>

\* onPagehide: the window's own button; the intent stays.
CloseWindow ==
    /\ isOpen
    /\ windows' = windows \ {pipWindow}
    /\ pipWindow' = None
    /\ UNCHANGED <<ask, epoch, pendingOpen, openError, stored, storedShouldBeOpen, copyVars>>

ErrorExpires ==
    /\ openError
    /\ openError' = FALSE
    /\ UNCHANGED <<ask, epoch, pendingOpen, pipWindow, windows, stored, storedShouldBeOpen, copyVars>>

\* cleanup.
Forget ==
    /\ epoch < MaxEpoch
    /\ epoch' = epoch + 1
    /\ pendingOpen' = FALSE
    /\ openError' = FALSE
    /\ stored' = FALSE /\ storedShouldBeOpen' = FALSE
    /\ pipWindow' = None
    /\ windows' = windows \ {pipWindow}
    /\ UNCHANGED ask

Hide == page # None /\ Forget /\ UNCHANGED copyVars

\* dispose, and a page that starts afresh: the browser closes its windows.
Reload ==
    /\ epoch < MaxEpoch
    /\ ask' = [c \in Asks |-> None] /\ epoch' = epoch + 1
    /\ pendingOpen' = FALSE /\ pipWindow' = None /\ windows' = {} /\ openError' = FALSE
    /\ storedShouldBeOpen' = stored
    /\ page' = None /\ retained' = None
    /\ UNCHANGED <<stored, user, generation>>

-----------------------------------------------------------------------------
(* The copy of the day *)

Mount ==
    /\ user # None /\ page = None
    /\ page' = [user |-> user, generation |-> generation]
    /\ retained' = user
    /\ UNCHANGED <<windowVars, user, generation>>

\* publishIfGenerationMatches.
Published == IF page.generation = generation THEN page.user ELSE retained

\* The blocks of the page have changed.
Publish ==
    /\ page # None
    /\ retained' = Published
    /\ UNCHANGED <<windowVars, user, page, generation>>

\* The page is left for another one, and publishes its last blocks.
Unmount ==
    /\ page # None
    /\ retained' = Published
    /\ page' = None
    /\ UNCHANGED <<windowVars, user, generation>>

\* A visit brings the login page or another account; a page that is mounted still is.
ChangeUser(u) ==
    /\ u # user
    /\ Forget
    /\ user' = u
    /\ generation' = generation + 1
    /\ retained' = None
    /\ UNCHANGED page

Next ==
    \/ \E c \in Asks : Open(c) \/ Adopt(c) \/ CloseOrphan(c) \/ Refused(c)
    \/ CloseWindow \/ ErrorExpires \/ Hide \/ Reload
    \/ Mount \/ Publish \/ Unmount
    \/ \E u \in Users \union {None} : ChangeUser(u)

Spec == Init /\ [][Next]_vars

-----------------------------------------------------------------------------
(* Properties *)

\* Calls, windows and copies have their types; the window the page knows is open.
TypeOK ==
    /\ ask \in [Asks -> [epoch : 0..MaxEpoch, by : Users] \union {None}]
    /\ epoch \in 0..MaxEpoch /\ generation \in 0..MaxEpoch
    /\ pendingOpen \in BOOLEAN /\ openError \in BOOLEAN
    /\ stored \in BOOLEAN /\ storedShouldBeOpen \in BOOLEAN
    /\ windows \subseteq [call : Asks, by : Users] /\ pipWindow \in windows \union {None}
    /\ user \in Users \union {None} /\ retained \in Users \union {None}
    /\ page \in [user : Users, generation : 0..generation] \union {None}

\* Every open window is the one the page knows and can close: no request that was
\* given up leaves a second window behind (useFocusIndicator.ts:254-262, 283-293).
NoOrphan == windows = IF isOpen THEN {pipWindow} ELSE {}

\* The indicator never waits for a window that nobody was asked for, so open is not
\* shut for ever, and it waits for one call at a time.
WaitsForOne ==
    LET waiting == {c \in Asks : ask[c] # None /\ Current(c)} IN
        /\ pendingOpen <=> waiting # {}
        /\ \A c, d \in waiting : c = d
        /\ pendingOpen => ~isOpen /\ ~openError

\* No window opened for one account, and no block of its day, outlives the account on
\* the screen; on the login page there is also no intent to bring a window back.
NothingOfOthers ==
    /\ retained # None => retained = user
    /\ \A w \in windows : w.by = user
    /\ user = None => ~stored /\ ~storedShouldBeOpen

WindowSound == NoOrphan /\ WaitsForOne /\ NothingOfOthers
=============================================================================

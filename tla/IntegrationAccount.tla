-------------------------- MODULE IntegrationAccount --------------------------
(***************************************************************************)
(* One provider's account on the settings page (useIntegrationAccount.ts): *)
(* reads of its status against connecting and disconnecting it, while      *)
(* another tab does the same.  Aborting a request may come too late.       *)
(*                                                                         *)
(* readSeq is only compared with its present value, so a read keeps        *)
(* whether its number is still that one.                                   *)
(***************************************************************************)
EXTENDS Naturals

CONSTANTS
    Reads,          \* slots for status reads in flight
    MaxChanges,     \* bound on changes of the account at the server
    None            \* nothing shown, no write

VARIABLES
    account,        \* server: number of changes so far
    shown,          \* the account state accepted last, None before
    operation,      \* operationInFlight
    read,           \* status reads
    write           \* the write in flight, or one whose caller gave up

vars == <<account, shown, operation, read, write>>

Idle == [phase |-> "idle"]

Outdated == [r \in Reads |-> IF read[r] = Idle THEN Idle ELSE [read[r] EXCEPT !.latest = FALSE]]

Init ==
    /\ account = 0 /\ shown = None
    /\ operation = None
    /\ read = [r \in Reads |-> Idle]
    /\ write = Idle

\* read: refused while a write is in flight; the newest read counts.
Read(r) ==
    /\ operation = None /\ read[r] = Idle
    /\ read' = [Outdated EXCEPT ![r] = [phase |-> "sent", latest |-> TRUE]]
    /\ UNCHANGED <<account, shown, operation, write>>

AnswerRead(r) ==
    /\ read[r].phase = "sent"
    /\ read' = [read EXCEPT ![r] = [phase |-> "answered", latest |-> @.latest, of |-> account]]
    /\ UNCHANGED <<account, shown, operation, write>>

\* Variant: any status read that comes while no write is in flight is believed.
BelievedWhenIdle(r) == operation = None

\* seq = readSeq, which a write advances when it starts; so the comparisons of
\* writeCompletionTick and of operationInFlight add nothing.
Believed(r) == read[r].latest /\ operation = None

AcceptRead(r) ==
    /\ read[r].phase = "answered"
    /\ shown' = IF Believed(r) THEN read[r].of ELSE shown
    /\ read' = [read EXCEPT ![r] = Idle]
    /\ UNCHANGED <<account, operation, write>>

LoseRead(r) ==
    /\ read[r] # Idle
    /\ read' = [read EXCEPT ![r] = Idle]
    /\ UNCHANGED <<account, shown, operation, write>>

\* write: one at a time; reads from before cannot establish its result.
Write(op) ==
    /\ operation = None /\ write = Idle
    /\ operation' = op
    /\ read' = Outdated
    /\ write' = [phase |-> "sent", op |-> op]
    /\ UNCHANGED <<account, shown>>

Apply ==
    /\ write.phase = "sent" /\ account < MaxChanges
    /\ account' = account + 1
    /\ write' = [phase |-> "applied", op |-> write.op, of |-> account + 1]
    /\ UNCHANGED <<shown, operation, read>>

AcceptWrite ==
    /\ write.phase = "applied"
    /\ shown' = IF operation = write.op THEN write.of ELSE shown
    /\ operation' = None
    /\ write' = Idle
    /\ UNCHANGED <<account, read>>

\* Refused credentials, or an answer that never came.
FailWrite ==
    /\ operation # None
    /\ operation' = None
    /\ write' = Idle
    /\ UNCHANGED <<account, shown, read>>

\* dispose: the settings page is left; a new page starts without a state.
Dispose ==
    /\ shown' = None /\ operation' = None
    /\ read' = [r \in Reads |-> Idle]
    /\ write' = Idle
    /\ UNCHANGED account

OtherTab ==
    /\ account < MaxChanges
    /\ account' = account + 1
    /\ UNCHANGED <<shown, operation, read, write>>

Next ==
    \/ \E r \in Reads : Read(r) \/ AnswerRead(r) \/ AcceptRead(r) \/ LoseRead(r)
    \/ \E op \in {"connect", "disconnect"} : Write(op)
    \/ Apply \/ AcceptWrite \/ FailWrite \/ Dispose \/ OtherTab

Spec == Init /\ [][Next]_vars

\* On one page the shown account never falls back to an older state of the
\* server: not to a status read before a write, nor to one of two reads that
\* overtook the other (useIntegrationAccount.ts:77-79).
NotOlderAccount == shown # None /\ shown' # None => shown' >= shown

=============================================================================

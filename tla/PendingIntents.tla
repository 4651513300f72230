---------------------------- MODULE PendingIntents ----------------------------
(***************************************************************************)
(* The pending intents of one user and one day (pending_intents.py and its *)
(* use in ai_chat): questions whose answers may edit the day within the    *)
(* scope that was stored with the question.                                *)
(*                                                                         *)
(* A turn captures the open intent in one transaction, calls the model     *)
(* without any lock, and finishes in another one.  Turns of several tabs   *)
(* overlap, the day and its policies are written by others, and intents    *)
(* expire.  The day's revision and the policies a prompt depends on are    *)
(* one number, the context; every accepted write and every policy change   *)
(* advances it.  What the model replies is arbitrary within the types that *)
(* service.py enforces.                                                    *)
(***************************************************************************)
EXTENDS IntentScope

CONSTANTS
    Turns,          \* concurrent executions of ai_chat
    Ids,            \* identities of intents
    Proposals,      \* items a model may propose, a subset of Items
    Actions,        \* edits a model may reply with
    MaxActions,     \* bound on the edits of one reply
    MaxItems,       \* bound on the items of an intent
    MaxVersion,     \* bound on follow-up questions
    MaxContext      \* bound on writes of the day

ASSUME IntentAssumption ==
    /\ None \notin Ids \union Tasks
    /\ Proposals \subseteq Items
    /\ {MaxActions, MaxItems, MaxVersion, MaxContext} \subseteq Nat

VARIABLES
    intent,         \* the PendingIntent rows
    turn,           \* what each turn captured
    context,        \* revision of the day and version of its policies
    present,        \* blocks of the day among Tasks
    answered        \* how often each version of a question was answered

vars == <<intent, turn, context, present, answered>>

-----------------------------------------------------------------------------

NoIntent == [state |-> "absent"]

Rows == [state : {"open", "resolved", "cancelled", "stale"}, version : 1..MaxVersion,
         context : 0..MaxContext, expired : BOOLEAN, items : Seq(Items)]

Idle == [phase |-> "idle"]

NoReference == [id |-> None, version |-> 0, action |-> "new"]

References == [id : Ids, version : 1..MaxVersion, action : {"new", "continue", "cancel"}]
                \union {NoReference}

NoSlot == <<None, 0>>

Captures == [phase : {"captured"}, reference : References, context : 0..MaxContext,
             slot : (Ids \X (1..MaxVersion)) \union {NoSlot}, error : BOOLEAN, markStale : BOOLEAN]

IsOpen(i) == intent[i].state = "open"

OpenIds == {i \in Ids : IsOpen(i)}

Active == IF OpenIds = {} THEN None ELSE CHOOSE i \in OpenIds : TRUE

\* Variant: the version of the question is not compared.
SlotOfAnyVersion == <<Active, 0>>

Slot == IF Active = None THEN NoSlot ELSE <<Active, intent[Active].version>>

Carrying(decisions, actions, unresolved) ==
    [decision : decisions, ask : {FALSE}, pending : SeqOf(Proposals, 1), actions : actions,
     unresolved : unresolved]

\* Replies by the model: edits come without a question, a question comes with
\* proposals, and a read carries neither.
Replies ==
    Carrying({"none", "new", "continue"}, SeqOf(Actions, MaxActions), SeqOf(Tasks, 1))
      \union Carrying({"read"}, {<<>>}, {<<>>})
      \union {[r EXCEPT !.ask = TRUE] : r \in Carrying({"none", "new", "continue"}, {<<>>}, {<<>>})}

\* The fields of an edit the planner may refuse; a move or a resize also
\* stands for the end it implies.
Refusable(action) ==
    IF action.kind = "remove" THEN {{}}
    ELSE IF action.kind = "add" THEN {{}, {"title", "category"} \union Interval}
    ELSE {{}} \union
         {S \union E : S \in {DOMAIN action.fields \intersect Interval},
                       E \in IF DOMAIN action.fields \intersect TimeFields = {} THEN {}
                             ELSE SUBSET {"end_time"}}

Skips(actions) ==
    {s \in [DOMAIN actions -> SUBSET Fields] : \A n \in DOMAIN actions : s[n] \in Refusable(actions[n])}

NothingSkipped(actions) == [n \in DOMAIN actions |-> {}]

\* Something of the edit survives what the planner refused.
Survives(action, skipped) ==
    skipped = {} \/ (action.kind = "update" /\ DOMAIN action.fields \ TimeFields # {})

\* The successful responses of _finish_chat_sync: a question or small talk
\* writes nothing, a guard asks instead of writing, a plan writes in part.
Payloads(r) ==
    IF r.ask \/ r.actions = <<>>
    THEN {[ask |-> r.ask \/ r.unresolved # <<>>, applied |-> FALSE, planned |-> FALSE,
           skipped |-> NothingSkipped(r.actions)]}
    ELSE {[ask |-> TRUE, applied |-> FALSE, planned |-> FALSE, skipped |-> NothingSkipped(r.actions)]}
         \union UNION {{[ask |-> (\E n \in DOMAIN s : s[n] # {}) \/ r.unresolved # <<>>,
                         applied |-> changed, planned |-> TRUE, skipped |-> s] :
                            changed \in {FALSE, \E n \in DOMAIN s : Survives(r.actions[n], s[n])}} :
                       s \in Skips(r.actions)}

-----------------------------------------------------------------------------

Init ==
    /\ intent = [i \in Ids |-> NoIntent]
    /\ turn = [t \in Turns |-> Idle]
    /\ context = 0
    /\ present = Tasks
    /\ answered = [i \in Ids |-> [v \in 1..MaxVersion |-> 0]]

\* Variant: the question is not compared with the day it was asked about.
NeverMoved(i) == FALSE

Moved(i) == intent[i].context # context

\* capture: a closed intent or an old version is an error, an expired one or
\* one of another day also becomes stale.  A cancellation only minds expiry.
Capture(t, ref) ==
    /\ turn[t] = Idle
    /\ ref.id # None => intent[ref.id] # NoIntent
    /\ LET unusable == intent[ref.id].state # "open" \/ intent[ref.id].version # ref.version
           outdated == intent[ref.id].expired \/ (ref.action # "cancel" /\ Moved(ref.id)) IN
        turn' = [turn EXCEPT ![t] =
            [phase |-> "captured", reference |-> ref, context |-> context, slot |-> Slot,
             error |-> ref.id # None /\ (unusable \/ outdated),
             markStale |-> ref.id # None /\ ~unusable /\ outdated]]
    /\ UNCHANGED <<intent, context, present, answered>>

\* The intent of the reference ran out since the capture.
RanOut(c) ==
    /\ c.reference.id # None
    /\ c.reference.action # "new"
    /\ IsOpen(c.reference.id)
    /\ intent[c.reference.id].version = c.reference.version
    /\ intent[c.reference.id].expired

\* check, and the comparison of slots at the start of finish, which implies
\* that the captured row is still open at its version.
Fenced(c) == c.error \/ RanOut(c) \/ Slot # c.slot

SetState(i, state) ==
    IF i = None THEN UNCHANGED intent ELSE intent' = [intent EXCEPT ![i].state = state]

EndTurn(t) == turn' = [turn EXCEPT ![t] = Idle]

\* stale_response, at once after the capture or instead of finishing.
RejectStale(t) ==
    /\ turn[t] # Idle
    /\ LET c == turn[t] IN
        /\ Fenced(c)
        /\ IF /\ c.markStale \/ (~c.error /\ RanOut(c))
              /\ IsOpen(c.reference.id)
              /\ intent[c.reference.id].version = c.reference.version
           THEN SetState(c.reference.id, "stale")
           ELSE UNCHANGED intent
    /\ EndTurn(t)
    /\ UNCHANGED <<context, present, answered>>

\* The rate limiter, the provider, a refused edit or a reply out of scope ends
\* the turn with a stored error; what it had written is rolled back.
GiveUp(t) ==
    /\ turn[t] # Idle
    /\ EndTurn(t)
    /\ UNCHANGED <<intent, context, present, answered>>

Ready(t) == turn[t] # Idle /\ ~Fenced(turn[t])

\* The executor finds another revision or other policies than were captured.
RejectMoved(t) ==
    /\ Ready(t)
    /\ turn[t].context # context
    /\ SetState(Active, "stale")
    /\ EndTurn(t)
    /\ UNCHANGED <<context, present, answered>>

\* A continuation of the captured question; a model that reads it as a new
\* command is asked again without it.
Continues(c, asNew) == c.reference.action = "continue" /\ ~asNew

\* Accepting anything demands the captured context.
Accepts(t) == Ready(t) /\ turn[t].context = context

CountAnswer(ref) ==
    answered' = IF ref.id = None THEN answered ELSE [answered EXCEPT ![ref.id][ref.version] = @ + 1]

\* A cancellation, by button or in words: its edits are discarded.
Cancel(t) ==
    /\ Accepts(t)
    /\ SetState(Active, "cancelled")
    /\ CountAnswer(turn[t].reference)
    /\ EndTurn(t)
    /\ UNCHANGED <<context, present>>

Removed(actions) == {a.task : a \in {x \in ToSet(actions) : x.kind = "remove"}}

\* The effect of an accepted plan on the day.
Write(r, p) ==
    /\ \A n \in DOMAIN r.actions : r.actions[n].task \in present \union {None}
    /\ context' = IF p.applied THEN context + 1 ELSE context
    /\ present' = IF p.applied THEN present \ Removed(r.actions) ELSE present
    /\ context' <= MaxContext

\* A question in time: a follow-up keeps the expiry of the first question.
Ask(items, version) ==
    [state |-> "open", version |-> version, context |-> context', items |-> items,
     expired |-> FALSE]

Replace(rows, i) == IF i = None THEN rows ELSE [rows EXCEPT ![i].state = "cancelled"]

\* An answer that leaves something open asks under the next version, and keeps
\* the time that is left; a fresh command asks under a new identity.
AskAgain(continued, items) ==
    IF continued
    THEN /\ intent[Active].version < MaxVersion
         /\ intent' = [intent EXCEPT ![Active] = Ask(items, @.version + 1)]
    ELSE \E i \in Ids :
         /\ intent[i] = NoIntent
         /\ intent' = [Replace(intent, Active) EXCEPT ![i] = Ask(items, 1)]

\* The accepted part of finish for every other reply.
Finish(t) ==
    /\ Accepts(t)
    /\ turn[t].reference.action # "cancel"
    /\ \E r \in Replies, asNew \in BOOLEAN :
        LET continued == Continues(turn[t], asNew) IN
        /\ asNew => turn[t].reference.action = "continue"
        /\ continued => /\ r.decision \in {"continue", "read"}
                        /\ WithinScope(r.actions, intent[Active].items)
        /\ \E p \in Payloads(r) :
            \E left \in {IF continued THEN ContinuedItems(intent[Active].items, r, p)
                                     ELSE NewItems(r, p)} :
            /\ left.ok
            /\ Write(r, p)
            /\ IF p.ask \/ left.items # <<>>
               THEN /\ Len(left.items) <= MaxItems
                    /\ \A n \in DOMAIN left.items : ValidItem(left.items[n], present')
                    /\ AskAgain(continued, left.items)
               ELSE SetState(Active, IF continued THEN "resolved" ELSE "cancelled")
        /\ IF continued THEN CountAnswer(turn[t].reference) ELSE UNCHANGED answered
    /\ EndTurn(t)

\* Any other writer of the day or of the policies; blocks may disappear.
OtherWrite ==
    /\ context < MaxContext
    /\ context' = context + 1
    /\ present' \in SUBSET present
    /\ UNCHANGED <<intent, turn, answered>>

\* Fifteen minutes after the first question.
Expire(i) ==
    /\ IsOpen(i)
    /\ ~intent[i].expired
    /\ intent' = [intent EXCEPT ![i].expired = TRUE]
    /\ UNCHANGED <<turn, context, present, answered>>

-----------------------------------------------------------------------------

TurnStep(t) ==
    \/ \E ref \in References : Capture(t, ref)
    \/ RejectStale(t) \/ GiveUp(t) \/ RejectMoved(t) \/ Cancel(t) \/ Finish(t)

Next ==
    \/ \E t \in Turns : TurnStep(t)
    \/ \E i \in Ids : Expire(i)
    \/ OtherWrite

Spec == Init /\ [][Next]_vars

-----------------------------------------------------------------------------
(* Properties *)

\* The rows and captures have their types, and every stored item is one that
\* validate_items accepts for some blocks.
TypeOK ==
    /\ \A i \in Ids : intent[i] # NoIntent =>
          /\ intent[i] \in Rows
          /\ \A n \in DOMAIN intent[i].items : ValidItem(intent[i].items[n], Tasks)
    /\ turn \in [Turns -> Captures \union {Idle}]
    /\ context \in 0..MaxContext
    /\ present \subseteq Tasks
    /\ answered \in [Ids -> [1..MaxVersion -> Nat]]

\* At most one question of the day is open, so the unique constraint of the
\* table (one_open_intent_per_schedule) never fails a turn.
OneOpenIntent == Cardinality(OpenIds) <= 1

\* Of the turns that answer or cancel one version of a question, from any number
\* of tabs, one is accepted.
AnsweredOnce == \A i \in Ids, v \in 1..MaxVersion : answered[i][v] <= 1

\* Together: whatever tabs ask, answer, cancel and replace, there is one question at a
\* time, and each version of it gets one answer (finish).
QuestionSound == OneOpenIntent /\ AnsweredOnce

\* An answer is accepted only while its question is current: the day and the
\* policies are those it was asked about, and its time is not over.
AnsweredInTime ==
    [][\A i \in Ids : (IsOpen(i) /\ (intent'[i].version # intent[i].version
                                      \/ intent'[i].state = "resolved"))
          => intent[i].context = context /\ ~intent[i].expired]_vars

NeverExpands(item, original) ==
    /\ item.kind = original.kind
    /\ item.targets \subseteq original.targets
    /\ item.missing \subseteq original.missing
    /\ DOMAIN original.known \subseteq DOMAIN item.known
    /\ \A f \in DOMAIN original.known : item.known[f] = original.known[f]
    /\ DOMAIN item.known \subseteq Permitted(original) \union Interval \union {"duration_minutes"}

\* What a follow-up may be answered with was already permitted by the question
\* before: no new target, no new missing field, no change of a settled value
\* (docs/AI_PENDING_INTENT.md: the scope is never expanded).
Narrows ==
    \A i \in Ids : (IsOpen(i) /\ intent'[i].version # intent[i].version) =>
        \A n \in DOMAIN intent'[i].items : \E m \in DOMAIN intent[i].items :
           NeverExpands(intent'[i].items[n], intent[i].items[m])

\* A question that can still be continued is about blocks that exist.
TargetsExist ==
    \A i \in Ids : IsOpen(i) /\ ~Moved(i) =>
        \A n \in DOMAIN intent[i].items : intent[i].items[n].targets \subseteq present

Asking(items, task, field) ==
    Cardinality({n \in DOMAIN items : items[n].task = task /\ field \in items[n].missing})

\* "Neither can clone a permission" (pending_intents.py:492-493): a field that is
\* missing for a block is not missing in more items than before.
PermissionsNotCloned ==
    [][\A i \in Ids : (IsOpen(i) /\ intent'[i].version # intent[i].version) =>
          \A task \in Tasks, field \in Fields :
             (\A n \in DOMAIN intent[i].items : intent[i].items[n].task = task) =>
                Asking(intent'[i].items, task, field) <= Asking(intent[i].items, task, field)]_vars

\* An edit that keeps the settled values of an open item and answers its missing
\* fields is within the scope, whatever other items the question has.
EveryItemAnswerable ==
    \A i \in OpenIds, action \in Actions :
        (\E n \in DOMAIN intent[i].items : MatchingItem(action, <<intent[i].items[n]>>) # 0)
            => MatchingItem(action, intent[i].items) # 0
=============================================================================

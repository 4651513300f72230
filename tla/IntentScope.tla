----------------------------- MODULE IntentScope -----------------------------
(***************************************************************************)
(* The permissions inside a pending intent (pending_intents.py): what an   *)
(* unresolved action may still be answered with, and what is left of it    *)
(* after an answer that was incomplete or partly rejected by the planner.  *)
(*                                                                         *)
(* An item names a kind of edit, the block it is about or the blocks to    *)
(* choose from, the fields that are settled with their values, and what is *)
(* missing.  Times are numbers, so that the length of an interval can be   *)
(* computed as the code does; duration deltas and placement directions,    *)
(* two more optional fields without a rule of their own, are left out.     *)
(***************************************************************************)
EXTENDS Integers, SequencesExt

CONSTANTS
    Tasks,          \* primary keys of the blocks of the day
    Values,         \* values of the fields, a set of numbers
    None            \* no block

Interval == {"start_time", "end_time"}

TimeFields == Interval \union {"duration_minutes"}

Fields == TimeFields \union {"title", "category"}

Known == UNION {[D -> Values] : D \in SUBSET Fields}

Items == [kind : {"add", "update", "remove"}, task : Tasks \union {None}, targets : SUBSET Tasks,
          known : Known, missing : SUBSET (Fields \union {"task_id", "confirmation"})]

ItemShape(item) ==
    /\ item.missing # {}
    /\ DOMAIN item.known \intersect item.missing = {}
    /\ item.targets = {} <=> item.kind = "add"
    /\ item.task # None => item.task \in item.targets
    /\ item.kind = "add" => "title" \in DOMAIN item.known \union item.missing
    /\ "task_id" \in item.missing => item.kind # "add" /\ item.task = None

\* validate_items, for one item over the blocks that exist.
ValidItem(item, blocks) == ItemShape(item) /\ item.targets \subseteq blocks

OwnTarget(task) == IF task = None THEN {} ELSE {task}

-----------------------------------------------------------------------------
(* Matching an answer *)

HasInterval(fields) == Interval \subseteq DOMAIN fields

Length(fields) == fields["end_time"] - fields["start_time"]

Duration(n) == [f \in {"duration_minutes"} |-> n]

Permitted(item) == DOMAIN item.known \union item.missing

SameTarget(task, item) ==
    \/ task = item.task
    \/ "task_id" \in item.missing /\ task \in item.targets

\* answered_fields
Answered(action, item) ==
    DOMAIN action.fields \union {"confirmation"}
      \union (IF HasInterval(action.fields) THEN {"duration_minutes"} ELSE {})
      \union (IF action.task \in item.targets THEN {"task_id"} ELSE {})

\* An interval is judged by its length where the item speaks of a duration.
ByLength(fields, item) == "duration_minutes" \in Permitted(item) /\ HasInterval(fields)

Coherent(fields) ==
    /\ Length(fields) > 0
    /\ "duration_minutes" \in DOMAIN fields => fields["duration_minutes"] = Length(fields)

\* The length is written into the candidate, where the items tried next find it.
WithLength(fields, item) ==
    IF ByLength(fields, item) /\ Coherent(fields) THEN Duration(Length(fields)) @@ fields ELSE fields

\* An allowed endpoint and a duration determine the other endpoint.
Allowed(fields, item) ==
    IF ByLength(fields, item) /\ Interval \intersect Permitted(item) # {}
    THEN Permitted(item) \union Interval ELSE Permitted(item)

Keeps(known, fields) == \A f \in DOMAIN known \intersect DOMAIN fields : fields[f] = known[f]

\* The body of the loop of matching_item, for the candidate's present fields.
Fits(action, fields, item) ==
    /\ ByLength(fields, item) => Coherent(fields)
    /\ (/\ ~ByLength(fields, item)
        /\ "duration_minutes" \in DOMAIN item.known
        /\ "end_time" \in DOMAIN fields) => "duration_minutes" \in DOMAIN fields
    /\ DOMAIN fields \subseteq Allowed(fields, item)
    /\ Keeps(item.known, fields)
    /\ item.missing \intersect Answered(action, item) # {}
    /\ action.kind = "add" => /\ DOMAIN item.known \subseteq DOMAIN fields
                              /\ item.missing \subseteq Answered(action, item)

Candidates(action, item) == action.kind = item.kind /\ SameTarget(action.task, item)

\* matching_item: the first item that fits, or 0.
MatchingItem(action, items) ==
    LET try(tried, i) ==
            IF tried.found # 0 \/ ~Candidates(action, items[i]) THEN tried
            ELSE LET fields == WithLength(tried.fields, items[i]) IN
                 [found |-> IF Fits(action, fields, items[i]) THEN i ELSE 0, fields |-> fields]
    IN  FoldLeftDomain(try, [found |-> 0, fields |-> action.fields], items).found

\* constrain_actions: every action uses up an item of its own.
WithinScope(actions, items) ==
    LET use(left, action) ==
            LET i == IF left.ok THEN MatchingItem(action, left.items) ELSE 0 IN
            [ok |-> i # 0, items |-> IF i = 0 THEN left.items ELSE RemoveAt(left.items, i)]
    IN  FoldLeft(use, [ok |-> TRUE, items |-> items], actions).ok

-----------------------------------------------------------------------------
(* What is left of the items *)

Without(fields, dropped) == [f \in DOMAIN fields \ dropped |-> fields[f]]

\* An item whose question was answered only in part.
Leftover(original, action, skipped) ==
    LET unanswered == original.missing \ Answered(action, original) IN
    [original EXCEPT !.task = action.task,
                     !.targets = OwnTarget(action.task),
                     !.known = Without(action.fields, skipped \union unanswered) @@ original.known,
                     !.missing = unanswered]

\* The actions of an accepted answer use up their items, skipped[i] being the
\* fields of action i the planner rejected.
Resolve(items, actions, skipped) ==
    LET use(left, n) ==
            LET i == MatchingItem(actions[n], left.remaining)
                original == left.remaining[i]
                rest == Leftover(original, actions[n], skipped[n]) IN
            IF i = 0 THEN left
            ELSE [remaining |-> RemoveAt(left.remaining, i),
                  attempted |-> Append(left.attempted, original),
                  leftovers |-> IF rest.missing = {} THEN left.leftovers
                                ELSE Append(left.leftovers, rest)]
    IN  FoldLeftDomain(use, [remaining |-> items, attempted |-> <<>>, leftovers |-> <<>>], actions)

\* The conditions of refine_question; a rejected add may fix its duration.
Refines(item, original, derived) ==
    /\ item.kind = original.kind
    /\ SameTarget(item.task, original)
    /\ item.targets \subseteq original.targets
    /\ DOMAIN item.known \subseteq Permitted(original)
         \union (IF derived /\ item.kind = "add" THEN {"duration_minutes"} ELSE {})
    /\ Keeps(original.known, item.known)
    /\ derived \/ item.missing \subseteq original.missing

\* Variant: what is missing is taken from the new item alone.
RefinedAsAsked(item, original) == [item EXCEPT !.known = @ @@ original.known]

Refined(item, original) ==
    [item EXCEPT !.known = @ @@ original.known,
                 !.missing = item.missing \intersect original.missing]

\* refine_question for a list: every item uses up a permission of the pool.
RefineAll(items, pool, derived) ==
    LET refine(acc, item) ==
            LET fits(original) == Refines(item, original, derived)
                i == IF acc.ok THEN SelectInSeq(acc.pool, fits) ELSE 0 IN
            IF i = 0 THEN [acc EXCEPT !.ok = FALSE]
            ELSE [ok |-> TRUE, pool |-> RemoveAt(acc.pool, i),
                  items |-> Append(acc.items, Refined(item, acc.pool[i]))]
    IN  FoldLeft(refine, [ok |-> TRUE, pool |-> pool, items |-> <<>>], items)

\* What an action whose fields were rejected leaves open.
Rejected(action, skipped) ==
    LET fields == IF action.kind = "add" /\ HasInterval(action.fields)
                    THEN action.fields @@ Duration(Length(action.fields)) ELSE action.fields
        missing == IF action.kind = "add"
                   THEN Interval \union ({"duration_minutes"} \ DOMAIN fields)
                   ELSE IF skipped \intersect TimeFields # {} THEN skipped \union TimeFields
                        ELSE skipped IN
    [kind |-> action.kind, task |-> action.task, targets |-> OwnTarget(action.task),
     known |-> Without(fields, missing), missing |-> missing]

\* An update whose category the server could not resolve.
CategoryOpen(task) ==
    [kind |-> "update", task |-> task, targets |-> {task}, known |-> Without(<<>>, {}), missing |-> {"category"}]

\* unresolved_items
UnresolvedItems(result, payload) ==
    LET reject(items, n) ==
            IF payload.skipped[n] = {} THEN items
            ELSE Append(items, Rejected(result.actions[n], payload.skipped[n]))
        asked(items, task) ==
            IF \E i \in DOMAIN items : items[i].task = task /\ "category" \in items[i].missing
            THEN items ELSE Append(items, CategoryOpen(task))
    IN  IF result.ask THEN result.pending
        ELSE FoldLeft(asked, FoldLeftDomain(reject, <<>>, result.actions), result.unresolved)

\* The model's own remaining work, when it asks no question.
ModelItems(result) ==
    IF ~result.ask /\ result.decision \in {"new", "continue"} THEN result.pending ELSE <<>>

Open(result, payload) == IF payload.ask THEN UnresolvedItems(result, payload) ELSE <<>>

\* The items after a fresh command.
NewItems(result, payload) == [ok |-> TRUE, items |-> Open(result, payload) \o ModelItems(result)]

\* A question of a guard that wrote nothing uses up nothing.
GuardBlocked(payload) == payload.ask /\ ~payload.applied /\ ~payload.planned

Refining(done, result, payload) ==
    RefineAll(Open(result, payload), IF result.ask THEN done.remaining ELSE done.attempted, ~result.ask)

Remaining(done, asked, result) == IF result.ask THEN asked.pool ELSE done.remaining

AllOpen(done, asked, model) ==
    [ok |-> asked.ok /\ model.ok,
     items |-> asked.items \o model.items \o model.pool \o done.leftovers]

AfterRefining(done, asked, result) ==
    AllOpen(done, asked, RefineAll(ModelItems(result), Remaining(done, asked, result), FALSE))

AfterResolving(done, result, payload) ==
    AfterRefining(done, Refining(done, result, payload), result)

\* The items after an answer: the questions and rejections, refined; what the
\* model proposes and what is left of the old items; the leftovers.
ContinuedItems(items, result, payload) ==
    AfterResolving(Resolve(items, IF GuardBlocked(payload) THEN <<>> ELSE result.actions, payload.skipped),
                   result, payload)
=============================================================================

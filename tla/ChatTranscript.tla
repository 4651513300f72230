---------------------------- MODULE ChatTranscript ----------------------------
(***************************************************************************)
(* The thread of one day's chat (useChat.ts), the transcript it sends with *)
(* every turn, and the guard that keeps the language model from replaying  *)
(* a request of an earlier turn (replay_guard.py).                         *)
(*                                                                         *)
(* The transcript is all the server knows of the conversation.  The page   *)
(* marks its own turns: questions, failures, and the blocks a question's   *)
(* turn had added all the same.  From the marks the guard works out which  *)
(* requests are still open, and holds an add against the others.           *)
(*                                                                         *)
(* A text is the set of titles it mentions; a title is one significant     *)
(* word.  Any reply the model may give is a behaviour, so is a reply that  *)
(* is lost and recovered later.                                            *)
(***************************************************************************)
EXTENDS Naturals, Sequences, FiniteSets, Functions

CONSTANTS
    Titles,         \* what blocks can be called
    Words,          \* the titles a text can mention
    MaxBlocks,      \* bound on blocks ever created
    MaxMessages,    \* bound on the thread's length when a turn is sent
    MaxEdits,       \* bound on changes made outside the chat
    None            \* no title, no reply

VARIABLES
    thread,     \* messages
    body,       \* the frozen transcript of the pending request; empty: none
    sent,       \* its expected_revision
    phase,      \* the promise of executeTurn: idle, live, or quiet after a Clear
    captured,   \* previousBlocks of that promise
    reply,      \* the receipt of the pending request on the server, None before
    day,        \* the titles of the day's blocks on the server
    rev,        \* revision of the day
    shown,      \* blocks the page shows
    seen,       \* the revision of that snapshot
    created,    \* how many blocks were ever created
    edits       \* how often the day was changed outside the chat

chatVars == <<thread, body, sent, phase, captured, reply>>
dayVars == <<day, rev, created, edits>>
pageVars == <<shown, seen>>
vars == <<chatVars, dayVars, pageVars>>

Blocks == 1..MaxBlocks

Present(blocks) == {b \in Blocks : blocks[b] # None}

\* listed and known are applied_add_block_ids, and whether it was sent at all.
\* made: the blocks the turn really added, which no one records.
Messages ==
    [kind : {"user", "ask", "guard", "note", "error"}, says : SUBSET Titles,
     listed : SUBSET Blocks, known : BOOLEAN, made : SUBSET Blocks]

Turn(kind, says) ==
    [kind |-> kind, says |-> says, listed |-> {}, known |-> TRUE, made |-> {}]

Questions == {"ask", "guard"}

IsAsk(m) == m.kind \in Questions

-----------------------------------------------------------------------------
(* The replay guard *)

\* The first user turn of the unbroken chain of replies of these kinds before turn n.
ChainStart(messages, n, kinds) ==
    CHOOSE k \in 1..n :
        /\ k % 2 = n % 2
        /\ \A j \in k..n : j % 2 # n % 2 => messages[j].kind \in kinds
        /\ k > 2 => messages[k - 1].kind \notin kinds

\* The first of the failed turns the latest one may be retrying.
FailedFrom(messages) == ChainStart(messages, Len(messages), {"error"})

\* The first of the turns that still wait for an answer to a question.
OpenFrom(messages) == ChainStart(messages, FailedFrom(messages), Questions)

\* The questions of the open chain.
OpenAsks(messages) ==
    {messages[j] : j \in {i \in OpenFrom(messages)..FailedFrom(messages) - 1 : IsAsk(messages[i])}}

\* Variant: a question's turn has added nothing.
NothingApplied(messages) == {}

\* Titles the open chain has applied already; any block, when a mark is missing.
AlreadyApplied(messages) ==
    LET asks == OpenAsks(messages)
        ids == IF \A m \in asks : m.known THEN UNION {m.listed : m \in asks} ELSE Blocks
    IN  IF asks = {} THEN {} ELSE {day[b] : b \in ids} \ {None}

\* A failed answer may be retried with what its question named, unless the guard
\* itself asked, quoting a title it had refused.
AskText(messages) ==
    LET f == FailedFrom(messages) IN
        IF f < Len(messages) /\ OpenAsks(messages) # {}
           /\ \A m \in OpenAsks(messages) : m.kind # "guard"
        THEN messages[f - 1].says ELSE {}

\* Variant: failed turns count as handled.
PriorTextOfFailed(messages) == UNION {messages[i].says : i \in 1..Len(messages) - 1}

PriorText(messages) == UNION {messages[i].says : i \in 1..OpenFrom(messages) - 1}

Latest(messages) == messages[Len(messages)].says

\* The titles find_replayed_actions holds an add of against the model.
Replayed(messages) ==
    {t \in Titles \ Latest(messages) :
        \/ t \in AlreadyApplied(messages)
        \/ t \in PriorText(messages) \ AskText(messages)}

-----------------------------------------------------------------------------

Init ==
    /\ thread = <<>> /\ body = <<>> /\ sent = 0 /\ phase = "idle" /\ captured = {} /\ reply = None
    /\ day \in [Blocks -> {None}] /\ rev = 0 /\ created = 0 /\ edits = 0
    /\ shown = {} /\ seen = 0

(* The server *)

\* Roles alternate, beginning and ending with the user.
WellFormed(messages) ==
    \A i \in DOMAIN messages : messages[i].kind = "user" <=> i % 2 = 1

Receipt(kind, says, made) ==
    reply' = [kind |-> kind, says |-> says, made |-> made, rev |-> rev', after |-> Present(day')]

Waiting == body # <<>> /\ reply = None /\ WellFormed(body)

\* A conflict, or the provider failed.
Fail ==
    /\ Waiting
    /\ UNCHANGED dayVars
    /\ Receipt("error", {}, {})

Fresh == Waiting /\ rev = sent

\* A question or a remark, and no change.
Talk ==
    /\ Fresh
    /\ UNCHANGED dayVars
    /\ \E kind \in {"ask", "note"}, says \in SUBSET Words : Receipt(kind, says, {})

\* One replayed add spoils the turn; the guard asks instead.
Refuse(adds) ==
    /\ Fresh
    /\ UNCHANGED dayVars
    /\ \E t \in adds \intersect Replayed(body) : Receipt("guard", {t}, {})

\* The planner places some of the adds, and asks about one of the others.
Apply(adds) ==
    /\ Fresh
    /\ adds \intersect Replayed(body) = {}
    /\ \E placed \in SUBSET adds :
        LET ids == created + 1..created + Cardinality(placed)
            kind == IF placed = adds THEN "note" ELSE "ask"
        IN  /\ ids \subseteq Blocks
            /\ \E title \in Bijection(ids, placed) :
                day' = [b \in Blocks |-> IF b \in ids THEN title[b] ELSE day[b]]
            /\ created' = created + Cardinality(placed)
            /\ rev' = IF placed = {} THEN rev ELSE rev + 1
            /\ \E says \in IF kind = "note" THEN SUBSET (adds \intersect Words)
                              ELSE {{}} \union {{t} : t \in (adds \ placed) \intersect Words} :
                Receipt(kind, says, ids)
    /\ UNCHANGED edits

Decide ==
    /\ \/ Fail \/ Talk
       \/ \E adds \in SUBSET Titles \ {{}} : Refuse(adds) \/ Apply(adds)
    /\ UNCHANGED <<thread, body, sent, phase, captured, pageVars>>

\* Another page removes or renames a block.
Edit(b) ==
    /\ edits < MaxEdits
    /\ day[b] # None
    /\ \E t \in (Titles \union {None}) \ {day[b]} : day' = [day EXCEPT ![b] = t]
    /\ rev' = rev + 1
    /\ edits' = edits + 1
    /\ UNCHANGED <<chatVars, created, pageVars>>

-----------------------------------------------------------------------------
(* The page *)

Post == phase' = "live" /\ captured' = shown

ShowDay == shown' = Present(day) /\ seen' = rev

\* executeTurn of a new turn.
Submit(says) ==
    /\ phase = "idle"
    /\ body = <<>>
    /\ Len(thread) < MaxMessages
    /\ thread' = Append(thread, Turn("user", says))
    /\ body' = thread'
    /\ sent' = seen
    /\ Post
    /\ UNCHANGED <<reply, dayVars, pageVars>>

\* recoverPending: the frozen transcript again; an empty thread is filled from it.
Recover ==
    /\ phase = "idle"
    /\ body # <<>>
    /\ thread' = IF thread = <<>> THEN body ELSE thread
    /\ Post
    /\ UNCHANGED <<body, sent, reply, dayVars, pageVars>>

\* The diff of the captured snapshot and the answer's; there is none when the
\* page has seen a later revision.
Bubble ==
    LET asked == reply.kind \in {"ask", "guard"} IN
        [kind |-> reply.kind, says |-> reply.says, made |-> reply.made,
         known |-> asked /\ reply.made # {} => reply.rev >= seen,
         listed |-> IF asked /\ reply.made # {} /\ reply.rev >= seen
                    THEN reply.after \ captured ELSE {}]

Finish(bubble) ==
    /\ phase \in {"live", "quiet"}
    /\ thread' = IF phase = "live" THEN Append(thread, bubble) ELSE thread
    /\ phase' = "idle"
    /\ body' = <<>>
    /\ reply' = None
    /\ captured' = {}
    /\ sent' = 0
    /\ UNCHANGED dayVars

\* An answer is shown; a failure reloads the day, or leaves it.
Deliver ==
    /\ reply # None
    /\ Finish(Bubble)
    /\ IF reply.kind = "error" THEN ShowDay \/ UNCHANGED pageVars
       ELSE IF reply.rev >= seen THEN shown' = reply.after /\ seen' = reply.rev
       ELSE ShowDay

\* Validation refuses the transcript: no receipt, but a known outcome.
Invalid ==
    /\ body # <<>>
    /\ ~WellFormed(body)
    /\ Finish(Turn("error", {}))
    /\ UNCHANGED pageVars

\* Both copies of the request, or of the answer, are lost; the day is reloaded.
Lose ==
    /\ phase \in {"live", "quiet"}
    /\ phase' = "idle"
    /\ captured' = {}
    /\ ShowDay
    /\ UNCHANGED <<thread, body, sent, reply, dayVars>>

\* clearThread, while a turn is live or none is pending.
Clear ==
    /\ thread # <<>>
    /\ phase = "live" \/ body = <<>>
    /\ thread' = <<>>
    /\ phase' = IF phase = "live" THEN "quiet" ELSE phase
    /\ UNCHANGED <<body, sent, captured, reply, dayVars, pageVars>>

\* discardPending: a copy still under way is taken for lost.
Discard ==
    /\ phase = "idle"
    /\ body # <<>>
    /\ body' = <<>>
    /\ sent' = 0
    /\ reply' = None
    /\ UNCHANGED <<thread, phase, captured, dayVars, pageVars>>

\* The pending request is in sessionStorage, the thread is not.
Reload ==
    /\ thread # <<>>
    /\ thread' = <<>>
    /\ phase' = "idle"
    /\ captured' = {}
    /\ ShowDay
    /\ UNCHANGED <<body, sent, reply, dayVars>>

\* A visit of the page brings the day's present snapshot.
Visit ==
    /\ phase = "idle"
    /\ seen # rev
    /\ ShowDay
    /\ UNCHANGED <<chatVars, dayVars>>

Next ==
    \/ Decide
    \/ \E b \in Blocks : Edit(b)
    \/ \E says \in SUBSET Words : Submit(says)
    \/ Recover \/ Deliver \/ Invalid \/ Lose \/ Clear \/ Discard \/ Reload \/ Visit

Spec == Init /\ [][Next]_vars

-----------------------------------------------------------------------------
(* Properties *)

\* Messages, the frozen transcript and the receipt have their types, and the page
\* never shows a revision the server has not reached.
TypeOK ==
    /\ thread \in Seq(Messages) /\ body \in Seq(Messages)
    /\ phase \in {"idle", "live", "quiet"}
    /\ reply # None => reply.kind \in {"ask", "guard", "note", "error"} /\ reply.rev <= rev
    /\ day \in [Blocks -> Titles \union {None}]
    /\ captured \subseteq Blocks /\ shown \subseteq Blocks
    /\ sent <= rev /\ seen <= rev
    /\ Present(day) \subseteq 1..created

Adding(b) == day[b] = None /\ day'[b] # None /\ b > created

\* The request of reply i, or the reply, names the block it added.
Told(i, b) == day[b] \in body[i].says \union body[i - 1].says

\* What an earlier turn has added stays added once: the model cannot make a block
\* again that the transcript shows it made, unless the latest turn or the question
\* it retries an answer to names it.  A question's turn is shown by its marks
\* (replay_guard.py:1-36).
AddedOnce ==
    \A i \in DOMAIN body, old, new \in Blocks :
        Adding(new) /\ old \in body[i].made /\ day[old] = day'[new]
          => \/ day'[new] \in Latest(body)
             \/ i < OpenFrom(body) /\ ~(Told(i, old) /\ day'[new] \notin AskText(body))
             \/ i >= OpenFrom(body) /\ body[i].known /\ old \notin body[i].listed

NeverTwice == [][AddedOnce]_vars

Refusing == reply = None /\ reply' # None /\ reply'.kind = "guard"

\* "Try again": when nothing of the thread was ever handled, only failures after
\* open questions, no add is held against the user but a sibling already in the
\* day (replay_guard.py:19-30).
RetryHolds ==
    Refusing /\ OpenFrom(body) = 1 => reply'.says \subseteq {day[b] : b \in Blocks}

RetryPasses == [][RetryHolds]_vars

\* "Recover the previous AI request, or discard it, before sending another turn":
\* the turn sent then is one the server can read (useChat.ts:200).
TurnsReadable == body # <<>> => WellFormed(body)
=============================================================================

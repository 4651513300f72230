------------------------- MODULE PendingIntentsProofs -------------------------
(***************************************************************************)
(* What PendingIntents guarantees for every set of tabs, questions and     *)
(* items, and every number of follow-ups and writes.                       *)
(***************************************************************************)
EXTENDS PendingIntents, FiniteSetTheorems, TLAPS

Closed == {"resolved", "cancelled", "stale"}

\* The rows as far as the argument needs them: their items may be anything.
RowShape ==
    /\ intent = [i \in Ids |-> intent[i]]
    /\ \A i \in Ids : intent[i] # NoIntent =>
          intent[i] \in [state : Closed \union {"open"}, version : Nat, context : Nat,
                         expired : BOOLEAN, items : {intent[i].items}]

\* A turn that has begun.
Begun ==
    [phase : {"captured"}, reference : References, context : Nat,
     slot : (Ids \X Nat) \union {NoSlot}, error : BOOLEAN, markStale : BOOLEAN]

Shape ==
    /\ RowShape
    /\ turn \in [Turns -> Begun \union {Idle}]
    /\ context \in Nat
    /\ answered \in [Ids -> [1..MaxVersion -> Nat]]

OneOpen == \A i, j \in Ids : IsOpen(i) /\ IsOpen(j) => i = j

\* Nothing was counted for a version that is still to come or still open.
Unanswered ==
    \A i \in Ids, v \in 1..MaxVersion :
        intent[i] = NoIntent \/ (IsOpen(i) /\ intent[i].version <= v) => answered[i][v] = 0

\* A turn that was not refused at its capture saw the question it refers to, open and
\* in its version; while it is still that, it is of the day the turn saw.
CapturedOf(c, rows) ==
    ~c.error /\ c.reference.id # None =>
        /\ rows[c.reference.id] # NoIntent
        /\ c.slot = <<c.reference.id, c.reference.version>>
        /\ c.reference.version <= rows[c.reference.id].version
        /\ (/\ rows[c.reference.id].state = "open"
            /\ rows[c.reference.id].version = c.reference.version
            /\ c.reference.action # "cancel")
           => rows[c.reference.id].context = c.context

Captured == \A t \in Turns : turn[t] # Idle => CapturedOf(turn[t], intent)

IInv ==
    /\ Shape
    /\ OneOpen
    /\ Unanswered
    /\ AnsweredOnce
    /\ Captured

-----------------------------------------------------------------------------
(* What a step can do to the rows *)

Stays(i) == intent[i] = NoIntent /\ intent'[i] = NoIntent

Settles(i) ==
    /\ intent[i] # NoIntent /\ intent'[i] # NoIntent
    /\ intent'[i].version = intent[i].version
    /\ intent'[i].context = intent[i].context
    /\ intent'[i].state = "open" => IsOpen(i)

FollowsUp(i) ==
    /\ IsOpen(i)
    /\ intent'[i] # NoIntent
    /\ intent'[i].version = intent[i].version + 1

Begins(i) == intent[i] = NoIntent /\ intent'[i] # NoIntent

Moves == \A i \in Ids : Stays(i) \/ Settles(i) \/ FollowsUp(i) \/ Begins(i)

\* An open question keeps its version and is not resolved.
Undecided ==
    \A i \in Ids : IsOpen(i) => intent'[i].version = intent[i].version /\ intent'[i].state # "resolved"

-----------------------------------------------------------------------------
(* Facts about rows and references *)

LEMMA ReferenceType ==
    ASSUME NEW ref \in References
    PROVE  /\ ref.id \in Ids \union {None}
           /\ ref.version \in Nat
           /\ ref.id # None => ref.id \in Ids /\ ref.version \in 1..MaxVersion
           /\ ref.action \in {"new", "continue", "cancel"}
           /\ ref.action # "new" => ref.id # None
BY IntentAssumption DEF References, NoReference

LEMMA TurnType ==
    ASSUME Shape, NEW t \in Turns, turn[t] # Idle
    PROVE  /\ turn[t].reference \in References
           /\ turn[t].context \in Nat
           /\ turn[t].error \in BOOLEAN
BY DEF Shape, Begun

LEMMA RowType ==
    ASSUME RowShape, NEW i \in Ids, intent[i] # NoIntent
    PROVE  /\ intent[i].state \in Closed \union {"open"}
           /\ intent[i].version \in Nat
           /\ intent[i].context \in Nat
           /\ intent[i].expired \in BOOLEAN
BY DEF RowShape

LEMMA OpenIsRow ==
    ASSUME NEW i \in Ids, IsOpen(i)
    PROVE  intent[i] # NoIntent
BY DEF IsOpen, NoIntent

\* The active question is the open one.
LEMMA ActiveOpen ==
    ASSUME OneOpen
    PROVE  /\ Active # None => Active \in Ids /\ IsOpen(Active)
           /\ \A i \in Ids : IsOpen(i) => Active = i
<1>1. CASE OpenIds = {}
  BY <1>1 DEF Active, OpenIds
<1>2. CASE OpenIds # {}
  <2>1. Active \in OpenIds
    BY <1>2 DEF Active
  <2>2. QED
    BY <2>1 DEF OpenIds, OneOpen
<1>3. QED
  BY <1>1, <1>2

\* A row made by setting one field of a row.
LEMMA StateSet ==
    ASSUME RowShape, NEW i \in Ids, intent[i] # NoIntent, NEW s \in Closed
    PROVE  LET row == [intent[i] EXCEPT !.state = s] IN
           /\ row \in [state : Closed \union {"open"}, version : Nat, context : Nat,
                       expired : BOOLEAN, items : {row.items}]
           /\ row.state = s /\ row.version = intent[i].version /\ row.context = intent[i].context
           /\ row # NoIntent
<1>1. intent[i] \in [state : Closed \union {"open"}, version : Nat, context : Nat,
                     expired : BOOLEAN, items : {intent[i].items}]
  BY DEF RowShape
<1>2. "absent" \notin Closed
  BY DEF Closed
<1>3. QED
  BY <1>1, <1>2 DEF NoIntent

LEMMA ExpirySet ==
    ASSUME RowShape, NEW i \in Ids, intent[i] # NoIntent
    PROVE  LET row == [intent[i] EXCEPT !.expired = TRUE] IN
           /\ row \in [state : Closed \union {"open"}, version : Nat, context : Nat,
                       expired : BOOLEAN, items : {row.items}]
           /\ row.state = intent[i].state
           /\ row.version = intent[i].version /\ row.context = intent[i].context
           /\ row # NoIntent
<1>1. intent[i] \in [state : Closed \union {"open"}, version : Nat, context : Nat,
                     expired : BOOLEAN, items : {intent[i].items}]
  BY DEF RowShape
<1>2. "absent" \notin Closed \union {"open"}
  BY DEF Closed
<1>3. QED
  BY <1>1, <1>2 DEF NoIntent

LEMMA AskedRow ==
    ASSUME NEW items, NEW version \in Nat, context' \in Nat
    PROVE  /\ Ask(items, version) \in [state : Closed \union {"open"}, version : Nat, context : Nat,
                                       expired : BOOLEAN, items : {Ask(items, version).items}]
           /\ Ask(items, version).version = version
           /\ Ask(items, version).state = "open"
           /\ Ask(items, version) # NoIntent
BY DEF Ask, NoIntent

-----------------------------------------------------------------------------
(* Steps on the rows *)

LEMMA UnchangedMoves ==
    ASSUME Shape, OneOpen, UNCHANGED intent
    PROVE  RowShape' /\ OneOpen' /\ Moves /\ Undecided
<1>1. Undecided
  BY DEF Undecided, IsOpen
<1>2. QED
  BY <1>1 DEF Shape, RowShape, OneOpen, IsOpen, Moves, Stays, Settles

LEMMA SetStateMoves ==
    ASSUME Shape, OneOpen, NEW i \in Ids \union {None}, i # None => IsOpen(i),
           NEW s \in Closed, SetState(i, s)
    PROVE  /\ RowShape' /\ OneOpen' /\ Moves
           /\ s # "resolved" => Undecided
           /\ i # None => intent'[i].state = s
           /\ \A j \in Ids : j # i => intent'[j] = intent[j]
<1>1. CASE i = None
  BY <1>1, UnchangedMoves, IntentAssumption DEF SetState
<1>2. CASE i # None
  <2>1. i \in Ids /\ intent[i] # NoIntent /\ IsOpen(i)
    BY <1>2, OpenIsRow
  <2>2. /\ intent' = [intent EXCEPT ![i].state = s]
        /\ intent = [j \in Ids |-> intent[j]]
    BY <1>2 DEF SetState, Shape, RowShape
  <2>3. /\ intent'[i] = [intent[i] EXCEPT !.state = s]
        /\ \A j \in Ids : j # i => intent'[j] = intent[j]
        /\ intent' = [j \in Ids |-> intent'[j]]
    BY <2>1, <2>2
  <2>4. /\ intent'[i] \in [state : Closed \union {"open"}, version : Nat, context : Nat,
                           expired : BOOLEAN, items : {intent'[i].items}]
        /\ intent'[i].state = s /\ intent'[i].version = intent[i].version
        /\ intent'[i].context = intent[i].context
        /\ intent'[i] # NoIntent
    BY <2>1, <2>3, StateSet DEF Shape
  <2>5. RowShape'
    BY <2>1, <2>3, <2>4 DEF Shape, RowShape
  <2>6. s # "open"
    BY DEF Closed
  <2>7. OneOpen' /\ Moves
    BY <2>1, <2>3, <2>4, <2>6 DEF OneOpen, IsOpen, Moves, Stays, Settles
  <2>8. s # "resolved" => Undecided
    BY <2>1, <2>3, <2>4 DEF Undecided, IsOpen
  <2>9. QED
    BY <1>2, <2>3, <2>4, <2>5, <2>7, <2>8
<1>3. QED
  BY <1>1, <1>2

LEMMA ExpireMoves ==
    ASSUME Shape, OneOpen, NEW i \in Ids, Expire(i)
    PROVE  RowShape' /\ OneOpen' /\ Moves /\ Undecided
<1>1. intent[i] # NoIntent /\ IsOpen(i)
  BY OpenIsRow DEF Expire
<1>2. /\ intent' = [intent EXCEPT ![i].expired = TRUE]
      /\ intent = [j \in Ids |-> intent[j]]
  BY DEF Expire, Shape, RowShape
<1>3. /\ intent'[i] = [intent[i] EXCEPT !.expired = TRUE]
      /\ \A j \in Ids : j # i => intent'[j] = intent[j]
      /\ intent' = [j \in Ids |-> intent'[j]]
  BY <1>1, <1>2
<1>4. /\ intent'[i] \in [state : Closed \union {"open"}, version : Nat, context : Nat,
                         expired : BOOLEAN, items : {intent'[i].items}]
      /\ intent'[i].state = intent[i].state /\ intent'[i].version = intent[i].version
      /\ intent'[i].context = intent[i].context
      /\ intent'[i] # NoIntent
  BY <1>1, <1>3, ExpirySet DEF Shape
<1>5. RowShape'
  BY <1>1, <1>3, <1>4 DEF Shape, RowShape
<1>6. OneOpen' /\ Moves /\ Undecided
  BY <1>1, <1>3, <1>4 DEF OneOpen, IsOpen, Moves, Stays, Settles, Undecided
<1>7. QED
  BY <1>5, <1>6

\* A follow-up of the active question.
LEMMA FollowUpMoves ==
    ASSUME Shape, OneOpen, Active # None, NEW items, context' \in Nat, AskAgain(TRUE, items)
    PROVE  /\ RowShape' /\ OneOpen' /\ Moves
           /\ FollowsUp(Active)
           /\ \A j \in Ids : j # Active => intent'[j] = intent[j]
<1>1. Active \in Ids /\ IsOpen(Active) /\ intent[Active] # NoIntent
  BY ActiveOpen, OpenIsRow
<1>2. intent[Active].version + 1 \in Nat
  BY <1>1, RowType DEF Shape
<1>3. /\ intent'[Active] = Ask(items, intent[Active].version + 1)
      /\ \A j \in Ids : j # Active => intent'[j] = intent[j]
      /\ intent' = [j \in Ids |-> intent'[j]]
  <2>1. intent = [j \in Ids |-> intent[j]]
    BY DEF Shape, RowShape
  <2>2. intent' = [intent EXCEPT ![Active] = Ask(items, intent[Active].version + 1)]
    BY DEF AskAgain
  <2>3. QED
    BY <1>1, <2>1, <2>2
<1>4. /\ intent'[Active] \in [state : Closed \union {"open"}, version : Nat, context : Nat,
                              expired : BOOLEAN, items : {intent'[Active].items}]
      /\ intent'[Active].version = intent[Active].version + 1
      /\ intent'[Active] # NoIntent
  BY <1>2, <1>3, AskedRow
<1>5. RowShape'
  BY <1>1, <1>3, <1>4 DEF Shape, RowShape
<1>6. FollowsUp(Active)
  BY <1>1, <1>4 DEF FollowsUp
<1>7. OneOpen' /\ Moves
  BY <1>1, <1>3, <1>6 DEF OneOpen, IsOpen, Moves, Stays, Settles
<1>8. QED
  BY <1>3, <1>5, <1>6, <1>7

\* A question that replaces the active one.
LEMMA ReplaceMoves ==
    ASSUME Shape, OneOpen, NEW items, context' \in Nat, AskAgain(FALSE, items)
    PROVE  RowShape' /\ OneOpen' /\ Moves /\ Undecided
<1>1. PICK i \in Ids :
        /\ intent[i] = NoIntent
        /\ intent' = [Replace(intent, Active) EXCEPT ![i] = Ask(items, 1)]
  BY DEF AskAgain
<1>2. Active # None => /\ Active \in Ids /\ IsOpen(Active) /\ intent[Active] # NoIntent /\ Active # i
  BY <1>1, ActiveOpen, OpenIsRow
<1>3. intent = [j \in Ids |-> intent[j]]
  BY DEF Shape, RowShape
<1>4. /\ intent'[i] = Ask(items, 1)
      /\ \A j \in Ids : j # i /\ j # Active => intent'[j] = intent[j]
      /\ Active # None => intent'[Active] = [intent[Active] EXCEPT !.state = "cancelled"]
      /\ intent' = [j \in Ids |-> intent'[j]]
  <2>1. CASE Active = None
    BY <1>1, <1>3, <2>1 DEF Replace
  <2>2. CASE Active # None
    BY <1>1, <1>2, <1>3, <2>2 DEF Replace
  <2>3. QED
    BY <2>1, <2>2
<1>5. /\ intent'[i] \in [state : Closed \union {"open"}, version : Nat, context : Nat,
                         expired : BOOLEAN, items : {intent'[i].items}]
      /\ intent'[i] # NoIntent
  BY <1>4, AskedRow
<1>6. Active # None =>
        /\ intent'[Active] \in [state : Closed \union {"open"}, version : Nat, context : Nat,
                                expired : BOOLEAN, items : {intent'[Active].items}]
        /\ intent'[Active].state = "cancelled"
        /\ intent'[Active].version = intent[Active].version
        /\ intent'[Active].context = intent[Active].context
        /\ intent'[Active] # NoIntent
  BY <1>2, <1>4, StateSet DEF Shape, Closed
<1>7. None \notin Ids
  BY IntentAssumption
<1>8. RowShape'
  BY <1>3, <1>4, <1>5, <1>6, <1>7 DEF Shape, RowShape
<1>9. \A j \in Ids : IsOpen(j) => j = Active
  BY ActiveOpen
<1>10. OneOpen'
  BY <1>4, <1>6, <1>7, <1>9 DEF OneOpen, IsOpen
<1>11. Moves
  BY <1>1, <1>4, <1>5, <1>6, <1>7, <1>2 DEF Moves, Stays, Settles, Begins, IsOpen
<1>12. Undecided
  BY <1>2, <1>6, <1>7, <1>9 DEF Undecided
<1>13. QED
  BY <1>8, <1>10, <1>11, <1>12

-----------------------------------------------------------------------------
(* What the steps on the rows leave of the invariant *)

\* Turns that go on keep what they saw, as long as versions only grow.
LEMMA CapturedKept ==
    ASSUME IInv, Moves, RowShape', NEW t \in Turns, turn[t] # Idle
    PROVE  CapturedOf(turn[t], intent')
<1>1. DEFINE c == turn[t]
             i == c.reference.id
<1>2. SUFFICES ASSUME ~c.error, i # None
               PROVE  /\ intent'[i] # NoIntent
                      /\ c.slot = <<i, c.reference.version>>
                      /\ c.reference.version <= intent'[i].version
                      /\ (/\ intent'[i].state = "open"
                          /\ intent'[i].version = c.reference.version
                          /\ c.reference.action # "cancel")
                         => intent'[i].context = c.context
  BY DEF CapturedOf
<1>3. i \in Ids /\ c.reference.version \in Nat
  BY <1>2, TurnType, ReferenceType DEF IInv
<1>4. /\ intent[i] # NoIntent
      /\ c.slot = <<i, c.reference.version>>
      /\ c.reference.version <= intent[i].version
      /\ (IsOpen(i) /\ intent[i].version = c.reference.version /\ c.reference.action # "cancel")
         => intent[i].context = c.context
  BY <1>2 DEF IInv, Captured, CapturedOf, IsOpen
<1>5. intent[i].version \in Nat
  BY <1>3, <1>4, RowType DEF IInv, Shape
<1>6. Settles(i) \/ FollowsUp(i)
  BY <1>3, <1>4 DEF Moves, Stays, Begins
<1>7. CASE Settles(i)
  BY <1>4, <1>7 DEF Settles
<1>8. CASE FollowsUp(i)
  BY <1>3, <1>4, <1>5, <1>8 DEF FollowsUp
<1>9. QED
  BY <1>6, <1>7, <1>8

LEMMA UnansweredKept ==
    ASSUME IInv, Moves, UNCHANGED answered
    PROVE  Unanswered' /\ AnsweredOnce'
<1>1. AnsweredOnce'
  BY DEF IInv, AnsweredOnce
<1>2. ASSUME NEW i \in Ids, NEW v \in 1..MaxVersion,
             intent'[i] = NoIntent \/ (intent'[i].state = "open" /\ intent'[i].version <= v)
      PROVE  answered[i][v] = 0
  <2>1. CASE intent[i] = NoIntent
    BY <2>1 DEF IInv, Unanswered
  <2>2. CASE Settles(i)
    BY <1>2, <2>2 DEF IInv, Unanswered, Settles
  <2>3. CASE FollowsUp(i)
    <3>1. intent[i].version \in Nat /\ v \in Nat
      BY <2>3, OpenIsRow, RowType, IntentAssumption DEF IInv, Shape, FollowsUp
    <3>2. intent[i].version <= v
      BY <1>2, <2>3, <3>1 DEF FollowsUp
    <3>3. QED
      BY <2>3, <3>2 DEF IInv, Unanswered, FollowsUp
  <2>4. QED
    BY <2>1, <2>2, <2>3 DEF Moves, Stays, Begins
<1>3. QED
  BY <1>1, <1>2 DEF Unanswered, IsOpen

\* An accepted turn is about the question it refers to, which is still that of its capture.
LEMMA AcceptedTurn ==
    ASSUME IInv, NEW t \in Turns, Ready(t), turn[t].reference.id # None
    PROVE  /\ turn[t].reference.id \in Ids
           /\ turn[t].reference.version \in 1..MaxVersion
           /\ Active = turn[t].reference.id
           /\ IsOpen(Active)
           /\ intent[Active].version = turn[t].reference.version
           /\ turn[t].reference.action # "cancel" => intent[Active].context = turn[t].context
           /\ turn[t].reference.action # "new" => ~intent[Active].expired
<1>1. turn[t] # Idle /\ ~turn[t].error /\ ~RanOut(turn[t]) /\ Slot = turn[t].slot
  BY DEF Ready, Fenced
<1>2. turn[t].reference \in References
  BY <1>1, TurnType DEF IInv
<1>3. turn[t].reference.id \in Ids /\ turn[t].reference.version \in 1..MaxVersion
  BY <1>2, ReferenceType
<1>4. CapturedOf(turn[t], intent)
  BY <1>1 DEF IInv, Captured
<1>5. Slot = <<turn[t].reference.id, turn[t].reference.version>>
  BY <1>1, <1>4 DEF CapturedOf
<1>6. Active # None
  BY <1>3, <1>5, IntentAssumption DEF Slot, NoSlot
<1>7. Active = turn[t].reference.id /\ intent[Active].version = turn[t].reference.version
  BY <1>5, <1>6 DEF Slot
<1>8. IsOpen(Active)
  BY <1>6, ActiveOpen DEF IInv
<1>9. turn[t].reference.action # "cancel" => intent[Active].context = turn[t].context
  BY <1>1, <1>4, <1>7, <1>8 DEF CapturedOf, IsOpen
<1>10. turn[t].reference.action # "new" => ~intent[Active].expired
  BY <1>1, <1>7, <1>8 DEF RanOut
<1>11. QED
  BY <1>3, <1>7, <1>8, <1>9, <1>10

LEMMA CountUp ==
    ASSUME NEW S, NEW f \in [S -> Nat], NEW n \in S
    PROVE  LET g == [f EXCEPT ![n] = @ + 1] IN
           g \in [S -> Nat] /\ g[n] = f[n] + 1 /\ \A v \in S : v # n => g[v] = f[v]
OBVIOUS

\* The first answer to a version that is closed or followed up by it.
LEMMA AnswerCounted ==
    ASSUME IInv, NEW t \in Turns, Ready(t), CountAnswer(turn[t].reference), Moves,
           RowShape',
           Active # None => \/ FollowsUp(Active)
                            \/ intent'[Active] # NoIntent /\ intent'[Active].state # "open"
    PROVE  /\ answered' \in [Ids -> [1..MaxVersion -> Nat]]
           /\ Unanswered'
           /\ AnsweredOnce'
<1>1. CASE turn[t].reference.id = None
  BY <1>1, UnansweredKept DEF CountAnswer, IInv, Shape
<1>2. CASE turn[t].reference.id # None
  <2>1. DEFINE i == turn[t].reference.id
               n == turn[t].reference.version
  <2>2. /\ i \in Ids /\ n \in 1..MaxVersion /\ Active = i /\ IsOpen(i) /\ intent[i].version = n
        /\ answered' = [answered EXCEPT ![i][n] = @ + 1]
    BY <1>2, AcceptedTurn DEF CountAnswer
  <2>3. answered \in [Ids -> [1..MaxVersion -> Nat]]
    BY DEF IInv, Shape
  <2>4. n \in Nat /\ answered[i][n] = 0
    BY <2>2 DEF IInv, Unanswered
  <2>5. /\ answered' \in [Ids -> [1..MaxVersion -> Nat]]
        /\ answered'[i][n] = 1
        /\ \A j \in Ids, v \in 1..MaxVersion : j # i \/ v # n => answered'[j][v] = answered[j][v]
    <3>1. answered[i] \in [1..MaxVersion -> Nat]
      BY SMTT(30), <2>2, <2>3
    <3>2. PICK counts :
            /\ answered' = [answered EXCEPT ![i] = counts]
            /\ counts = [answered[i] EXCEPT ![n] = @ + 1]
      BY <2>2
    <3>3. /\ counts \in [1..MaxVersion -> Nat]
          /\ counts[n] = answered[i][n] + 1
          /\ \A v \in 1..MaxVersion : v # n => counts[v] = answered[i][v]
      <4> HIDE DEF i, n
      <4>1. n \in 1..MaxVersion
        BY <2>2
      <4>2. QED
        BY <3>1, <3>2, <4>1, CountUp
    <3>4. /\ answered' \in [Ids -> [1..MaxVersion -> Nat]]
          /\ answered'[i] = counts
          /\ \A j \in Ids : j # i => answered'[j] = answered[j]
      BY <2>2, <2>3, <3>2, <3>3
    <3>5. answered'[i][n] = 1
      BY <2>4, <3>3, <3>4
    <3>6. ASSUME NEW j \in Ids, NEW v \in 1..MaxVersion, j # i \/ v # n
          PROVE  answered'[j][v] = answered[j][v]
      <4>1. CASE j = i
        BY <3>3, <3>4, <3>6, <4>1
      <4>2. CASE j # i
        BY <3>4, <4>2
      <4>3. QED
        BY <4>1, <4>2
    <3>7. QED
      BY <3>4, <3>5, <3>6
  <2>6. AnsweredOnce'
    BY <2>5 DEF IInv, AnsweredOnce
  <2>7. ASSUME NEW j \in Ids, NEW v \in 1..MaxVersion,
               intent'[j] = NoIntent \/ (intent'[j].state = "open" /\ intent'[j].version <= v)
        PROVE  answered'[j][v] = 0
    <3>1. CASE j = i
      <4>1. FollowsUp(i)
        BY <2>2, <2>7, <3>1, IntentAssumption DEF FollowsUp, Moves
      <4>2. v > n
        BY <2>2, <2>4, <2>7, <3>1, <4>1 DEF FollowsUp
      <4>3. answered[i][v] = 0
        BY <2>2, <2>4, <4>2 DEF IInv, Unanswered
      <4>4. QED
        BY <2>4, <2>5, <3>1, <4>2, <4>3
    <3>2. CASE j # i
      <4>1. ~IsOpen(j)
        BY <2>2, <3>2 DEF IInv, OneOpen
      <4>2. intent[j] = NoIntent
        BY <2>7, <4>1 DEF Moves, Stays, Settles, FollowsUp, Begins
      <4>3. answered[j][v] = 0
        BY <4>2 DEF IInv, Unanswered
      <4>4. QED
        BY <2>5, <3>2, <4>3
    <3>3. QED
      BY <3>1, <3>2
  <2>8. QED
    BY <2>5, <2>6, <2>7 DEF Unanswered, IsOpen
<1>3. QED
  BY <1>1, <1>2

\* A turn that ends leaves the others as they are.
LEMMA TurnEnds ==
    ASSUME IInv, NEW t \in Turns, EndTurn(t), Moves, RowShape'
    PROVE  turn' \in [Turns -> Begun \union {Idle}] /\ Captured'
<1>1. turn \in [Turns -> Begun \union {Idle}]
  BY DEF IInv, Shape
<1>2. /\ turn' \in [Turns -> Begun \union {Idle}]
      /\ \A u \in Turns : turn'[u] = Idle \/ turn'[u] = turn[u]
  BY <1>1 DEF EndTurn
<1>3. ASSUME NEW u \in Turns, turn'[u] # Idle PROVE CapturedOf(turn'[u], intent')
  BY <1>2, <1>3, CapturedKept
<1>4. QED
  BY <1>2, <1>3 DEF Captured

-----------------------------------------------------------------------------
(* The invariant *)

LEMMA InitIInv == Init => IInv
<1>1. SUFFICES ASSUME Init PROVE IInv
  OBVIOUS
<1>2. RowShape
  BY <1>1 DEF Init, RowShape
<1>3. Shape
  BY <1>1, <1>2 DEF Init, Shape
<1>4. OneOpen
  BY <1>1, OpenIsRow DEF Init, OneOpen
<1>5. Unanswered /\ AnsweredOnce
  BY <1>1 DEF Init, Unanswered, AnsweredOnce
<1>6. Captured
  BY <1>1 DEF Init, Captured
<1>7. QED
  BY <1>3, <1>4, <1>5, <1>6 DEF IInv

\* A capture compares the row with its reference and with the day.
LEMMA CaptureSafe ==
    ASSUME IInv, NEW t \in Turns, NEW ref \in References, Capture(t, ref)
    PROVE  IInv'
<1>1. RowShape' /\ OneOpen' /\ Moves
  BY UnchangedMoves DEF IInv, Capture
<1>2. Unanswered' /\ AnsweredOnce'
  BY <1>1, UnansweredKept DEF Capture
<1>3. DEFINE unusable == intent[ref.id].state # "open" \/ intent[ref.id].version # ref.version
             outdated == intent[ref.id].expired \/ (ref.action # "cancel" /\ Moved(ref.id))
             c == [phase |-> "captured", reference |-> ref, context |-> context, slot |-> Slot,
                   error |-> ref.id # None /\ (unusable \/ outdated),
                   markStale |-> ref.id # None /\ ~unusable /\ outdated]
<1>4. /\ turn' = [turn EXCEPT ![t] = c]
      /\ turn \in [Turns -> Begun \union {Idle}]
      /\ ref.id # None => intent[ref.id] # NoIntent
  BY DEF Capture, IInv, Shape
<1>5. Slot \in (Ids \X Nat) \union {NoSlot}
  <2>1. CASE Active = None
    BY <2>1 DEF Slot
  <2>2. CASE Active # None
    <3>1. Active \in Ids /\ intent[Active].version \in Nat
      BY <2>2, ActiveOpen, OpenIsRow, RowType DEF IInv, Shape
    <3>2. QED
      BY <2>2, <3>1 DEF Slot
  <2>3. QED
    BY <2>1, <2>2
<1>6. c \in Begun
  BY <1>5 DEF IInv, Shape, Begun
<1>7. /\ turn' \in [Turns -> Begun \union {Idle}]
      /\ turn'[t] = c
      /\ \A u \in Turns : u # t => turn'[u] = turn[u]
  BY <1>4, <1>6
<1>8. CapturedOf(c, intent')
  <2>1. SUFFICES ASSUME ~c.error, ref.id # None
                 PROVE  /\ intent[ref.id] # NoIntent
                        /\ Slot = <<ref.id, ref.version>>
                        /\ ref.version <= intent[ref.id].version
                        /\ ref.action # "cancel" => intent[ref.id].context = context
    <3>1. c.error \in BOOLEAN /\ c.reference = ref /\ c.slot = Slot /\ c.context = context
      OBVIOUS
    <3>2. UNCHANGED intent
      BY DEF Capture
    <3>3. QED
      BY <3>1, <3>2 DEF CapturedOf
  <2>2. ~unusable /\ ~outdated
    BY <2>1
  <2>3. ref.id \in Ids /\ ref.version \in Nat
    BY <2>1, ReferenceType
  <2>4. Active = ref.id
    BY <2>2, <2>3, ActiveOpen DEF IInv, IsOpen
  <2>5. Slot = <<ref.id, ref.version>>
    BY <2>1, <2>2, <2>4 DEF Slot
  <2>6. ref.action # "cancel" => intent[ref.id].context = context
    BY <2>2 DEF Moved
  <2>7. intent[ref.id].version = ref.version
    BY <2>2
  <2>8. QED
    BY <1>4, <2>1, <2>3, <2>5, <2>6, <2>7
<1>9. Captured'
  <2>1. ASSUME NEW u \in Turns, turn'[u] # Idle PROVE CapturedOf(turn'[u], intent')
    <3> HIDE DEF c
    <3>1. CASE u = t
      BY <1>7, <1>8, <3>1
    <3>2. CASE u # t
      BY <1>1, <1>7, <2>1, <3>2, CapturedKept
    <3>3. QED
      BY <3>1, <3>2
  <2>2. QED
    BY <2>1 DEF Captured
<1>10. Shape'
  BY <1>1, <1>7 DEF IInv, Shape, Capture
<1>11. QED
  BY <1>1, <1>2, <1>9, <1>10 DEF IInv

LEMMA RejectStaleSafe ==
    ASSUME IInv, NEW t \in Turns, RejectStale(t)
    PROVE  IInv' /\ Undecided
<1>1. turn[t] # Idle /\ EndTurn(t)
  BY DEF RejectStale
<1>2. RowShape' /\ OneOpen' /\ Moves /\ Undecided
  <2>1. turn[t].reference.id \in Ids \union {None}
    BY <1>1, TurnType, ReferenceType DEF IInv
  <2>2. CASE UNCHANGED intent
    BY <2>2, UnchangedMoves DEF IInv
  <2>3. CASE IsOpen(turn[t].reference.id) /\ SetState(turn[t].reference.id, "stale")
    <3>1. "stale" \in Closed /\ "stale" # "resolved"
      BY DEF Closed
    <3>2. QED
      BY <2>1, <2>3, <3>1, SetStateMoves DEF IInv
  <2>4. QED
    BY <2>2, <2>3 DEF RejectStale
<1>3. Unanswered' /\ AnsweredOnce'
  BY <1>2, UnansweredKept DEF RejectStale
<1>4. turn' \in [Turns -> Begun \union {Idle}] /\ Captured'
  BY <1>1, <1>2, TurnEnds
<1>5. Shape'
  BY <1>2, <1>4 DEF IInv, Shape, RejectStale
<1>6. QED
  BY <1>2, <1>3, <1>4, <1>5 DEF IInv

LEMMA GiveUpSafe ==
    ASSUME IInv, NEW t \in Turns, GiveUp(t)
    PROVE  IInv' /\ Undecided
<1>1. RowShape' /\ OneOpen' /\ Moves /\ Undecided
  BY UnchangedMoves DEF IInv, GiveUp
<1>2. Unanswered' /\ AnsweredOnce'
  BY <1>1, UnansweredKept DEF GiveUp
<1>3. turn' \in [Turns -> Begun \union {Idle}] /\ Captured'
  BY <1>1, TurnEnds DEF GiveUp
<1>4. Shape'
  BY <1>1, <1>3 DEF IInv, Shape, GiveUp
<1>5. QED
  BY <1>1, <1>2, <1>3, <1>4 DEF IInv

LEMMA RejectMovedSafe ==
    ASSUME IInv, NEW t \in Turns, RejectMoved(t)
    PROVE  IInv' /\ Undecided
<1>1. RowShape' /\ OneOpen' /\ Moves /\ Undecided
  <2>1. Active \in Ids \union {None} /\ (Active # None => IsOpen(Active))
    BY ActiveOpen DEF IInv
  <2>2. "stale" \in Closed /\ "stale" # "resolved"
    BY DEF Closed
  <2>3. QED
    BY <2>1, <2>2, SetStateMoves DEF IInv, RejectMoved
<1>2. Unanswered' /\ AnsweredOnce'
  BY <1>1, UnansweredKept DEF RejectMoved
<1>3. turn' \in [Turns -> Begun \union {Idle}] /\ Captured'
  BY <1>1, TurnEnds DEF RejectMoved
<1>4. Shape'
  BY <1>1, <1>3 DEF IInv, Shape, RejectMoved
<1>5. QED
  BY <1>1, <1>2, <1>3, <1>4 DEF IInv

LEMMA CancelSafe ==
    ASSUME IInv, NEW t \in Turns, Cancel(t)
    PROVE  IInv' /\ Undecided
<1>1. /\ RowShape' /\ OneOpen' /\ Moves /\ Undecided
      /\ Active # None => intent'[Active].state = "cancelled" /\ intent'[Active] # NoIntent
  <2>1. Active \in Ids \union {None} /\ (Active # None => Active \in Ids /\ IsOpen(Active))
    BY ActiveOpen DEF IInv
  <2>2. "cancelled" \in Closed /\ "cancelled" # "resolved"
    BY DEF Closed
  <2>3. /\ RowShape' /\ OneOpen' /\ Moves /\ Undecided
        /\ Active # None => intent'[Active].state = "cancelled"
    BY <2>1, <2>2, SetStateMoves DEF IInv, Cancel
  <2>4. QED
    BY <2>1, <2>3 DEF NoIntent
<1>2. Ready(t) /\ CountAnswer(turn[t].reference) /\ EndTurn(t)
  BY DEF Cancel, Accepts
<1>3. answered' \in [Ids -> [1..MaxVersion -> Nat]] /\ Unanswered' /\ AnsweredOnce'
  BY <1>1, <1>2, AnswerCounted
<1>4. turn' \in [Turns -> Begun \union {Idle}] /\ Captured'
  BY <1>1, <1>2, TurnEnds
<1>5. Shape'
  BY <1>1, <1>3, <1>4 DEF IInv, Shape, Cancel
<1>6. QED
  BY <1>1, <1>3, <1>4, <1>5 DEF IInv

\* A reply settles the active question, follows it up, or asks another one; only a
\* continuation of the question captured decides it.
LEMMA FinishSafe ==
    ASSUME IInv, NEW t \in Turns, Finish(t)
    PROVE  /\ IInv'
           /\ \/ Undecided
              \/ /\ Accepts(t) /\ turn[t].reference.action = "continue"
                 /\ \A i \in Ids : IsOpen(i) => i = turn[t].reference.id
<1>1. Accepts(t) /\ Ready(t) /\ EndTurn(t)
  BY DEF Finish, Accepts
<1>2. turn[t].reference \in References
  BY <1>1, TurnType DEF IInv, Ready
<1>3. PICK asNew \in BOOLEAN, r \in Replies :
        LET continued == Continues(turn[t], asNew) IN
        /\ \E p \in Payloads(r) :
             \E left \in {IF continued THEN ContinuedItems(intent[Active].items, r, p)
                                      ELSE NewItems(r, p)} :
             /\ Write(r, p)
             /\ IF p.ask \/ left.items # <<>>
                THEN AskAgain(continued, left.items)
                ELSE SetState(Active, IF continued THEN "resolved" ELSE "cancelled")
        /\ IF continued THEN CountAnswer(turn[t].reference) ELSE UNCHANGED answered
  BY DEF Finish
<1> DEFINE continued == Continues(turn[t], asNew)
<1>4. context' \in Nat
  BY <1>3 DEF IInv, Shape, Write
<1>5. (\E items : AskAgain(continued, items))
      \/ SetState(Active, IF continued THEN "resolved" ELSE "cancelled")
  BY <1>3
<1>6. IF continued THEN CountAnswer(turn[t].reference) ELSE UNCHANGED answered
  BY <1>3
<1>7. Active \in Ids \union {None} /\ (Active # None => Active \in Ids /\ IsOpen(Active))
  BY ActiveOpen DEF IInv
<1>8. continued \in BOOLEAN
  BY DEF Continues
<1>9. CASE continued
  <2>1. turn[t].reference.action = "continue" /\ turn[t].reference.id # None
    BY <1>2, <1>9, ReferenceType DEF Continues
  <2>2. Active = turn[t].reference.id /\ Active # None
    BY <1>1, <2>1, AcceptedTurn
  <2>3. /\ RowShape' /\ OneOpen' /\ Moves
        /\ \/ FollowsUp(Active)
           \/ intent'[Active] # NoIntent /\ intent'[Active].state # "open"
    <3>1. ASSUME NEW items, AskAgain(TRUE, items)
          PROVE  RowShape' /\ OneOpen' /\ Moves /\ FollowsUp(Active)
      BY <1>4, <2>2, <3>1, FollowUpMoves DEF IInv
    <3>2. CASE SetState(Active, "resolved")
      <4>1. "resolved" \in Closed
        BY DEF Closed
      <4>2. RowShape' /\ OneOpen' /\ Moves /\ intent'[Active].state = "resolved"
        BY <1>7, <2>2, <3>2, <4>1, SetStateMoves DEF IInv
      <4>3. QED
        BY <4>2 DEF NoIntent
    <3>3. QED
      BY <1>9, <1>5, <1>8, <3>1, <3>2
  <2>4. answered' \in [Ids -> [1..MaxVersion -> Nat]] /\ Unanswered' /\ AnsweredOnce'
    BY <1>1, <1>9, <1>6, <2>3, AnswerCounted
  <2>5. turn' \in [Turns -> Begun \union {Idle}] /\ Captured'
    BY <1>1, <2>3, TurnEnds
  <2>6. Shape'
    BY <1>4, <2>3, <2>4, <2>5 DEF Shape
  <2>7. \A i \in Ids : IsOpen(i) => i = turn[t].reference.id
    BY <2>2, ActiveOpen DEF IInv
  <2>8. QED
    BY <1>1, <2>1, <2>3, <2>4, <2>5, <2>6, <2>7 DEF IInv
<1>10. CASE ~continued
  <2>1. RowShape' /\ OneOpen' /\ Moves /\ Undecided
    <3>1. ASSUME NEW items, AskAgain(FALSE, items)
          PROVE  RowShape' /\ OneOpen' /\ Moves /\ Undecided
      BY <1>4, <3>1, ReplaceMoves DEF IInv
    <3>2. CASE SetState(Active, "cancelled")
      <4>1. "cancelled" \in Closed /\ "cancelled" # "resolved"
        BY DEF Closed
      <4>2. QED
        BY <1>7, <3>2, <4>1, SetStateMoves DEF IInv
    <3>3. QED
      BY <1>10, <1>5, <1>8, <3>1, <3>2
  <2>2. UNCHANGED answered
    BY <1>10, <1>6
  <2>3. Unanswered' /\ AnsweredOnce'
    BY <2>1, <2>2, UnansweredKept
  <2>4. turn' \in [Turns -> Begun \union {Idle}] /\ Captured'
    BY <1>1, <2>1, TurnEnds
  <2>5. Shape'
    BY <1>4, <2>1, <2>2, <2>4 DEF IInv, Shape
  <2>6. QED
    BY <2>1, <2>3, <2>4, <2>5 DEF IInv
<1>11. QED
  BY <1>9, <1>10

LEMMA OtherWriteSafe ==
    ASSUME IInv, OtherWrite
    PROVE  IInv' /\ Undecided
<1>1. RowShape' /\ OneOpen' /\ Moves /\ Undecided
  BY UnchangedMoves DEF IInv, OtherWrite
<1>2. Unanswered' /\ AnsweredOnce'
  BY <1>1, UnansweredKept DEF OtherWrite
<1>3. Captured'
  BY <1>1, CapturedKept DEF Captured, OtherWrite
<1>4. Shape'
  BY <1>1 DEF IInv, Shape, OtherWrite
<1>5. QED
  BY <1>1, <1>2, <1>3, <1>4 DEF IInv

LEMMA ExpireSafe ==
    ASSUME IInv, NEW i \in Ids, Expire(i)
    PROVE  IInv' /\ Undecided
<1>1. RowShape' /\ OneOpen' /\ Moves /\ Undecided
  BY ExpireMoves DEF IInv
<1>2. Unanswered' /\ AnsweredOnce'
  BY <1>1, UnansweredKept DEF Expire
<1>3. Captured'
  BY <1>1, CapturedKept DEF Captured, Expire
<1>4. Shape'
  BY <1>1 DEF IInv, Shape, Expire
<1>5. QED
  BY <1>1, <1>2, <1>3, <1>4 DEF IInv

LEMMA StutterSafe ==
    ASSUME IInv, UNCHANGED vars
    PROVE  IInv' /\ Undecided
<1>1. RowShape' /\ OneOpen' /\ Moves /\ Undecided
  BY UnchangedMoves DEF IInv, vars
<1>2. Unanswered' /\ AnsweredOnce'
  BY <1>1, UnansweredKept DEF vars
<1>3. Captured'
  BY <1>1, CapturedKept DEF Captured, vars
<1>4. Shape'
  BY <1>1 DEF IInv, Shape, vars
<1>5. QED
  BY <1>1, <1>2, <1>3, <1>4 DEF IInv

\* Only an accepted continuation decides an open question.
LEMMA Step ==
    ASSUME IInv, [Next]_vars
    PROVE  /\ IInv'
           /\ \/ Undecided
              \/ \E t \in Turns :
                   /\ Accepts(t) /\ turn[t].reference.action = "continue"
                   /\ \A i \in Ids : IsOpen(i) => i = turn[t].reference.id
<1>1. ASSUME NEW t \in Turns, NEW ref \in References, Capture(t, ref)
      PROVE  IInv' /\ Undecided
  BY <1>1, CaptureSafe, UnchangedMoves DEF IInv, Capture
<1>2. ASSUME NEW t \in Turns, RejectStale(t) \/ GiveUp(t) \/ RejectMoved(t) \/ Cancel(t)
      PROVE  IInv' /\ Undecided
  BY <1>2, RejectStaleSafe, GiveUpSafe, RejectMovedSafe, CancelSafe
<1>3. QED
  BY <1>1, <1>2, FinishSafe, ExpireSafe, OtherWriteSafe, StutterSafe DEF Next, TurnStep

THEOREM Inductive == Spec => []IInv
<1>1. IInv /\ [Next]_vars => IInv'
  BY Step
<1>2. QED
  BY InitIInv, <1>1, PTL DEF Spec

-----------------------------------------------------------------------------
(* The theorems *)

\* At most one question of the day is open and no version of a question is answered
\* twice, whatever tabs do (the comparison of slots in finish).
THEOREM QuestionsSound == Spec => []QuestionSound
<1>1. ASSUME IInv PROVE OneOpenIntent
  <2>1. CASE OpenIds = {}
    BY <2>1, FS_EmptySet DEF OneOpenIntent
  <2>2. ASSUME NEW i \in OpenIds PROVE OneOpenIntent
    <3>1. OpenIds = {i}
      BY <1>1, <2>2 DEF IInv, OneOpen, OpenIds
    <3>2. Cardinality({i}) = 1
      BY FS_Singleton
    <3>3. QED
      BY <3>1, <3>2 DEF OneOpenIntent
  <2>3. QED
    BY <2>1, <2>2
<1>2. IInv => QuestionSound
  BY <1>1 DEF IInv, QuestionSound
<1>3. QED
  BY <1>2, Inductive, PTL

\* An answer is accepted only by the day and the policies its question was asked about,
\* and before it expires (capture, check and the executor's comparison).
THEOREM AnswersInTime == Spec => AnsweredInTime
<1>1. ASSUME IInv, [Next]_vars, NEW i \in Ids, IsOpen(i),
             intent'[i].version # intent[i].version \/ intent'[i].state = "resolved"
      PROVE  intent[i].context = context /\ ~intent[i].expired
  <2>1. PICK t \in Turns :
          /\ Accepts(t) /\ turn[t].reference.action = "continue" /\ turn[t].reference.id = i
    BY <1>1, Step DEF Undecided
  <2>2. Ready(t) /\ turn[t].context = context /\ turn[t].reference.id # None
    BY <2>1, IntentAssumption DEF Accepts
  <2>3. QED
    BY <1>1, <2>1, <2>2, AcceptedTurn
<1>2. IInv /\ [Next]_vars =>
        [\A i \in Ids : (IsOpen(i) /\ (intent'[i].version # intent[i].version
                                        \/ intent'[i].state = "resolved"))
            => intent[i].context = context /\ ~intent[i].expired]_vars
  BY <1>1
<1>3. QED
  BY <1>2, Inductive, PTL DEF Spec, AnsweredInTime
=============================================================================

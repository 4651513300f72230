-------------------------- MODULE ChatRequestsProofs --------------------------
(***************************************************************************)
(* What ChatRequests guarantees for every set of requests and handlers,    *)
(* every number of faults, and every interleaving.                         *)
(***************************************************************************)
EXTENDS ChatRequests, TLAPS

\* A running handler works on the row it claimed, with that row's body: a row is
\* never dropped and never claimed again with another body.
RunMatchesRow ==
    \A h \in Handlers : handler[h] # Idle =>
        /\ row[handler[h].request] # NoRow
        /\ row[handler[h].request].body = handler[h].body

IInv ==
    /\ TypeOK
    /\ RunMatchesRow
    /\ ReceiptTellsEffect
    /\ AnswersAgree

-----------------------------------------------------------------------------
(* Facts about handlers and rows *)

\* A handler outside "idle" is a run with all its fields.
LEMMA RunType ==
    ASSUME TypeOK, NEW h \in Handlers, handler[h] # Idle
    PROVE  /\ handler[h] \in Running
           /\ handler[h].request \in Requests
           /\ handler[h].body \in Bodies
           /\ handler[h].policy \in 0..MaxPolicy
           /\ handler[h].plan \in {"none", "edit", "quiet", "changed", "failed"}
<1>1. handler[h] \in Running
  BY DEF TypeOK
<1>2. QED
  BY <1>1 DEF Running

\* The phases that guard a step are those of a run.
LEMMA PhaseIsRun ==
    ASSUME NEW h \in Handlers, handler[h].phase \in {"claimed", "captured", "ready"}
    PROVE  handler[h] # Idle
BY DEF Idle

\* An existing row has all its fields.
LEMMA RowType ==
    ASSUME TypeOK, NEW r \in Requests, row[r] # NoRow
    PROVE  /\ row[r] \in Rows
           /\ row[r].body \in Bodies
           /\ row[r].token \in Handlers
           /\ row[r].live \in BOOLEAN
           /\ row[r].receipt \in Receipts \union {"none"}
<1>1. row[r] \in Rows
  BY DEF TypeOK
<1>2. QED
  BY <1>1 DEF Rows

\* A completed request has a row.
LEMMA CompletedRow ==
    ASSUME NEW r \in Requests, Completed(r)
    PROVE  row[r] # NoRow
BY DEF Completed, NoRow, Receipts

\* What a run can end with is a receipt.
LEMMA ResultsAreReceipts ==
    ASSUME NEW run
    PROVE  /\ Results(run) \subseteq Receipts
           /\ "applied" \in Results(run) => Fresh(run)
BY DEF Results, PlanResults, Receipts

-----------------------------------------------------------------------------
(* The invariant *)

LEMMA InitIInv == Init => IInv
<1>1. SUFFICES ASSUME Init PROVE IInv
  OBVIOUS
<1>2. TypeOK
  BY <1>1, ChatAssumption DEF Init, TypeOK
<1>3. RunMatchesRow /\ AnswersAgree
  BY <1>1 DEF Init, RunMatchesRow, AnswersAgree
<1>4. ReceiptTellsEffect
  BY <1>1 DEF Init, ReceiptTellsEffect, Completed, NoRow, Receipts
<1>5. QED
  BY <1>2, <1>3, <1>4 DEF IInv

\* Answers of a step: the old ones and possibly one more.
LEMMA AnswerTypes ==
    ASSUME TypeOK, NEW r \in Requests, NEW b \in Bodies,
           NEW a \in Receipts \union Transient, Answer(r, b, a)
    PROVE  answers' \subseteq [request : Requests, body : Bodies, answer : Receipts \union Transient]
BY DEF TypeOK, Answer

\* Answers stay in agreement when receipts and bodies of settled requests stay
\* and the new answer is transient or the receipt of its request.
LEMMA AnswersStayAgreed ==
    ASSUME TypeOK, AnswersAgree,
           NEW r \in Requests, NEW b \in Bodies, NEW a, Answer(r, b, a) \/ UNCHANGED answers,
           \A s \in Requests : Completed(s) =>
               row'[s].receipt = row[s].receipt /\ row'[s].body = row[s].body,
           Answer(r, b, a) /\ a \in Receipts => row'[r].receipt = a /\ row'[r].body = b
    PROVE  AnswersAgree'
<1>1. SUFFICES ASSUME NEW x \in answers', x.answer \in Receipts
               PROVE  Completed(x.request)' /\ row'[x.request].receipt = x.answer
                      /\ row'[x.request].body = x.body
  BY DEF AnswersAgree, Completed
<1>2. CASE x \in answers
  <2>1. x.request \in Requests
    BY <1>2 DEF TypeOK
  <2>2. Completed(x.request) /\ row[x.request].receipt = x.answer /\ row[x.request].body = x.body
    BY <1>1, <1>2 DEF AnswersAgree
  <2>3. QED
    BY <1>1, <2>1, <2>2 DEF Completed
<1>3. CASE x \notin answers
  <2>1. Answer(r, b, a) /\ x = [request |-> r, body |-> b, answer |-> a]
    BY <1>1, <1>3 DEF Answer
  <2>2. QED
    BY <1>1, <2>1 DEF Completed
<1>4. QED
  BY <1>2, <1>3

\* claim_request only reads, and answers with what the row says.
LEMMA ReplayIInv ==
    ASSUME IInv, NEW h \in Handlers, NEW r \in Requests, NEW b \in Bodies, Replay(h, r, b)
    PROVE  IInv'
<1>1. UNCHANGED <<row, handler, revision, policy, effects, faults>>
  BY DEF Replay
<1>2. PICK a \in Receipts \union Transient :
          /\ Answer(r, b, a)
          /\ a \in Receipts => row[r].receipt = a /\ row[r].body = b
  BY DEF Replay, Completed, Receipts, Transient
<1>3. TypeOK'
  BY <1>1, <1>2, AnswerTypes DEF IInv, TypeOK
<1>4. AnswersAgree'
  BY <1>1, <1>2, AnswersStayAgreed DEF IInv
<1>5. RunMatchesRow' /\ ReceiptTellsEffect'
  BY <1>1 DEF IInv, RunMatchesRow, ReceiptTellsEffect, Completed
<1>6. QED
  BY <1>3, <1>4, <1>5 DEF IInv

\* A claim replaces a row that has no receipt by one with the same body.
LEMMA ClaimIInv ==
    ASSUME IInv, NEW h \in Handlers, NEW r \in Requests, NEW b \in Bodies, Claim(h, r, b)
    PROVE  IInv'
<1> DEFINE newRow == [body |-> b, token |-> h, live |-> TRUE, receipt |-> "none"]
           run == [phase |-> "claimed", request |-> r, body |-> b, policy |-> 0, plan |-> "none"]
<1>1. /\ row' = [row EXCEPT ![r] = newRow]
      /\ handler' = [handler EXCEPT ![h] = run]
      /\ UNCHANGED <<revision, policy, effects, answers, faults>>
      /\ row[r] # NoRow => row[r].body = b /\ ~Completed(r)
  BY DEF Claim, MayClaim
<1>2. TypeOK
  BY DEF IInv
<1>3. newRow \in Rows /\ newRow # NoRow
  BY DEF Rows, NoRow
<1>4. run \in Running
  BY ChatAssumption DEF Running
<1>5. ~Completed(r)
  BY <1>1, CompletedRow
<1>6. /\ row' \in [Requests -> Rows \union {NoRow}]
      /\ row'[r] = newRow
      /\ \A s \in Requests : s # r => row'[s] = row[s]
  BY <1>1, <1>2, <1>3 DEF TypeOK
<1>7. TypeOK'
  BY <1>1, <1>2, <1>4, <1>6 DEF TypeOK
<1>8. RunMatchesRow'
  <2>1. SUFFICES ASSUME NEW k \in Handlers, handler'[k] # Idle
                 PROVE  row'[handler'[k].request] # NoRow
                        /\ row'[handler'[k].request].body = handler'[k].body
    BY DEF RunMatchesRow
  <2>2. CASE k = h
    <3>1. handler'[k] = run
      BY <1>1, <1>2, <2>2 DEF TypeOK
    <3>2. QED
      BY <3>1, <1>3, <1>6
  <2>3. CASE k # h
    <3>1. handler'[k] = handler[k]
      BY <1>1, <1>2, <2>3 DEF TypeOK
    <3>2. /\ handler[k].request \in Requests
          /\ row[handler[k].request] # NoRow
          /\ row[handler[k].request].body = handler[k].body
      BY <2>1, <3>1, <1>2, RunType DEF IInv, RunMatchesRow
    <3>3. CASE handler[k].request = r
      BY <3>1, <3>2, <3>3, <1>1, <1>3, <1>6
    <3>4. CASE handler[k].request # r
      BY <3>1, <3>2, <3>4, <1>6
    <3>5. QED
      BY <3>3, <3>4
  <2>4. QED
    BY <2>2, <2>3
<1>9. ReceiptTellsEffect'
  BY <1>1, <1>5, <1>6 DEF IInv, ReceiptTellsEffect, Completed, Receipts
<1>10. AnswersAgree'
  BY <1>1, <1>5, <1>6, <1>2, AnswersStayAgreed DEF IInv
<1>11. QED
  BY <1>7, <1>8, <1>9, <1>10 DEF IInv

\* Steps of a run before its end change nothing but the run.
LEMMA RunStepIInv ==
    ASSUME IInv, NEW h \in Handlers, CaptureContext(h) \/ CallProvider(h)
    PROVE  IInv'
<1>1. TypeOK
  BY DEF IInv
<1>2. handler[h] # Idle /\ UNCHANGED <<row, revision, policy, effects, answers, faults>>
  BY PhaseIsRun DEF CaptureContext, CallProvider
<1>3. handler[h] \in Running /\ policy \in 0..MaxPolicy
  BY <1>1, <1>2, RunType DEF TypeOK
<1>4. PICK run \in Running :
          /\ handler' = [handler EXCEPT ![h] = run]
          /\ run.request = handler[h].request
          /\ run.body = handler[h].body
  <2>1. CASE CaptureContext(h)
    BY <2>1, <1>3 DEF CaptureContext, Running
  <2>2. CASE CallProvider(h)
    <3>1. PICK plan \in {"edit", "quiet", "failed"} :
              handler' = [handler EXCEPT ![h].phase = "ready", ![h].plan = plan]
      BY <2>2 DEF CallProvider
    <3>2. [[handler[h] EXCEPT !.phase = "ready"] EXCEPT !.plan = plan] \in Running
      BY <1>3 DEF Running
    <3>3. handler' = [handler EXCEPT ![h] = [[handler[h] EXCEPT !.phase = "ready"] EXCEPT !.plan = plan]]
      BY <3>1
    <3>4. QED
      BY <1>3, <3>2, <3>3 DEF Running
  <2>3. QED
    BY <2>1, <2>2
<1>5. TypeOK' /\ RunMatchesRow'
  BY <1>1, <1>2, <1>4 DEF IInv, RunMatchesRow, TypeOK
<1>6. ReceiptTellsEffect' /\ AnswersAgree'
  BY <1>2 DEF IInv, ReceiptTellsEffect, AnswersAgree, Completed
<1>7. QED
  BY <1>5, <1>6 DEF IInv

\* A finish of the owner stores the one receipt together with its effect.
LEMMA FinishIInv ==
    ASSUME IInv, NEW h \in Handlers, Finish(h)
    PROVE  IInv'
<1> DEFINE r == handler[h].request
           b == handler[h].body
<1>1. TypeOK /\ handler[h] # Idle
  BY PhaseIsRun DEF IInv, Finish
<1>2. r \in Requests /\ b \in Bodies
  BY <1>1, RunType
<1>3. row[r] # NoRow /\ row[r].body = b
  BY <1>1 DEF IInv, RunMatchesRow
<1>4. row[r] \in Rows
  BY <1>1, <1>2, <1>3, RowType
<1>5. ~Completed(r)
  BY DEF Finish, Fence
<1>6. PICK result \in Receipts :
          /\ result = "applied" => revision < MaxRevision
          /\ row' = [row EXCEPT ![r].receipt = result]
          /\ revision' = IF result = "applied" THEN revision + 1 ELSE revision
          /\ effects' = IF result = "applied" THEN [effects EXCEPT ![r] = @ + 1] ELSE effects
          /\ Answer(r, b, result)
  BY ResultsAreReceipts DEF Finish
<1>7. handler' = [handler EXCEPT ![h] = Idle] /\ UNCHANGED <<policy, faults>>
  BY DEF Finish, Rest
<1>8. /\ row' \in [Requests -> Rows \union {NoRow}]
      /\ row'[r] = [row[r] EXCEPT !.receipt = result]
      /\ row'[r] \in Rows
      /\ row'[r].receipt = result /\ row'[r].body = b
      /\ \A s \in Requests : s # r => row'[s] = row[s]
  <2>1. [row[r] EXCEPT !.receipt = result] \in Rows
    BY <1>4 DEF Rows
  <2>2. [row[r] EXCEPT !.receipt = result].receipt = result
        /\ [row[r] EXCEPT !.receipt = result].body = row[r].body
    BY <1>4 DEF Rows
  <2>3. QED
    BY <2>1, <2>2, <1>1, <1>2, <1>3, <1>6 DEF TypeOK
<1>9. TypeOK'
  <2>1. revision' \in 0..MaxRevision
    BY <1>1, <1>6, ChatAssumption DEF TypeOK
  <2>2. effects' \in [Requests -> Nat]
    <3>1. effects \in [Requests -> Nat] /\ [effects EXCEPT ![r] = @ + 1] \in [Requests -> Nat]
      BY <1>1, <1>2 DEF TypeOK
    <3>2. QED
      BY <1>6, <3>1
  <2>3. handler' \in [Handlers -> Running \union {Idle}]
    BY <1>1, <1>7 DEF TypeOK
  <2>4. answers' \subseteq [request : Requests, body : Bodies, answer : Receipts \union Transient]
    BY <1>1, <1>2, <1>6, AnswerTypes
  <2>5. QED
    BY <1>1, <1>7, <1>8, <2>1, <2>2, <2>3, <2>4 DEF TypeOK
<1>10. RunMatchesRow'
  <2>1. SUFFICES ASSUME NEW k \in Handlers, handler'[k] # Idle
                 PROVE  row'[handler'[k].request] # NoRow
                        /\ row'[handler'[k].request].body = handler'[k].body
    BY DEF RunMatchesRow
  <2>2. handler'[k] = handler[k]
    BY <1>1, <1>7, <2>1 DEF TypeOK
  <2>3. /\ handler[k].request \in Requests
        /\ row[handler[k].request] # NoRow
        /\ row[handler[k].request].body = handler[k].body
    BY <1>1, <2>1, <2>2, RunType DEF IInv, RunMatchesRow
  <2>4. row'[r] # NoRow
    BY <1>8 DEF Rows, NoRow
  <2>5. CASE handler[k].request = r
    BY <2>2, <2>3, <2>4, <2>5, <1>3, <1>8
  <2>6. CASE handler[k].request # r
    BY <2>2, <2>3, <2>6, <1>8
  <2>7. QED
    BY <2>5, <2>6
<1>11. ReceiptTellsEffect'
  <2>1. effects[r] = 0
    BY <1>2, <1>5 DEF IInv, ReceiptTellsEffect
  <2>2. effects'[r] = IF result = "applied" THEN 1 ELSE 0
    BY <1>1, <1>2, <1>6, <2>1 DEF TypeOK
  <2>3. ASSUME NEW s \in Requests, s # r PROVE effects'[s] = effects[s] /\ row'[s] = row[s]
    BY <1>1, <1>6, <1>8, <2>3 DEF TypeOK
  <2>4. QED
    BY <1>2, <1>8, <2>2, <2>3 DEF IInv, ReceiptTellsEffect, Completed
<1>12. AnswersAgree'
  BY <1>1, <1>2, <1>5, <1>6, <1>8, AnswersStayAgreed DEF IInv
<1>13. QED
  BY <1>9, <1>10, <1>11, <1>12 DEF IInv

\* An overtaken run reports what the row says and leaves the row alone.
LEMMA FinishFencedIInv ==
    ASSUME IInv, NEW h \in Handlers, FinishFenced(h)
    PROVE  IInv'
<1> DEFINE r == handler[h].request
           b == handler[h].body
           a == IF Completed(r) THEN row[r].receipt ELSE "in_progress"
<1>1. TypeOK /\ handler[h] # Idle
  BY PhaseIsRun DEF IInv, FinishFenced
<1>2. r \in Requests /\ b \in Bodies
  BY <1>1, RunType
<1>3. row[r].body = b
  BY <1>1 DEF IInv, RunMatchesRow
<1>4. /\ Answer(r, b, a)
      /\ handler' = [handler EXCEPT ![h] = Idle]
      /\ UNCHANGED <<row, revision, policy, effects, faults>>
  BY DEF FinishFenced, Rest
<1>5. /\ a \in Receipts \union Transient
      /\ a \in Receipts => row[r].receipt = a /\ row[r].body = b
  BY <1>3 DEF Completed, Receipts, Transient
<1>6. TypeOK'
  <2>1. answers' \subseteq [request : Requests, body : Bodies, answer : Receipts \union Transient]
    BY <1>1, <1>2, <1>4, <1>5, AnswerTypes
  <2>2. QED
    BY <1>1, <1>4, <2>1 DEF TypeOK
<1>7. RunMatchesRow'
  BY <1>1, <1>4 DEF IInv, RunMatchesRow, TypeOK
<1>8. AnswersAgree'
  <2>1. \A s \in Requests : row'[s].receipt = row[s].receipt /\ row'[s].body = row[s].body
    BY <1>4
  <2>2. QED
    BY <1>1, <1>2, <1>4, <1>5, <2>1, AnswersStayAgreed DEF IInv
<1>9. ReceiptTellsEffect'
  BY <1>4 DEF IInv, ReceiptTellsEffect, Completed
<1>10. QED
  BY <1>6, <1>7, <1>8, <1>9 DEF IInv

\* A busy database and a crash end the run; nothing else is written.
LEMMA FaultIInv ==
    ASSUME IInv, NEW h \in Handlers,
           Crash(h) \/ \E r \in Requests, b \in Bodies : Busy(h, r, b)
    PROVE  IInv'
<1>1. TypeOK
  BY DEF IInv
<1>2. /\ faults < MaxFaults /\ faults' = faults + 1
      /\ handler' = [handler EXCEPT ![h] = Idle]
      /\ UNCHANGED <<row, revision, policy, effects>>
  BY DEF Crash, Busy, Rest
<1>3. PICK r \in Requests, b \in Bodies : Answer(r, b, "unavailable") \/ UNCHANGED answers
  <2>1. CASE Crash(h)
    <3>1. handler[h] # Idle
      BY <2>1 DEF Crash
    <3>2. handler[h].request \in Requests /\ handler[h].body \in Bodies
      BY <1>1, <3>1, RunType
    <3>3. QED
      BY <2>1, <3>2 DEF Crash
  <2>2. CASE \E r \in Requests, b \in Bodies : Busy(h, r, b)
    BY <2>2 DEF Busy
  <2>3. QED
    BY <2>1, <2>2
<1>4. TypeOK'
  <2>1. faults' \in 0..MaxFaults
    BY <1>1, <1>2, ChatAssumption DEF TypeOK
  <2>2. answers' \subseteq [request : Requests, body : Bodies, answer : Receipts \union Transient]
    BY <1>1, <1>3, AnswerTypes DEF Transient, TypeOK
  <2>3. QED
    BY <1>1, <1>2, <2>1, <2>2 DEF TypeOK
<1>5. RunMatchesRow'
  BY <1>1, <1>2 DEF IInv, RunMatchesRow, TypeOK
<1>6. AnswersAgree'
  <2>1. \A s \in Requests : row'[s].receipt = row[s].receipt /\ row'[s].body = row[s].body
    BY <1>2
  <2>2. "unavailable" \notin Receipts
    BY DEF Receipts
  <2>3. QED
    BY <1>1, <1>3, <2>1, <2>2, AnswersStayAgreed DEF IInv
<1>7. ReceiptTellsEffect'
  BY <1>2 DEF IInv, ReceiptTellsEffect, Completed
<1>8. QED
  BY <1>4, <1>5, <1>6, <1>7 DEF IInv

\* Only the lease flag of an unfinished row changes when its lease runs out.
LEMMA LeaseExpiresIInv ==
    ASSUME IInv, NEW r \in Requests, LeaseExpires(r)
    PROVE  IInv'
<1>1. TypeOK
  BY DEF IInv
<1>2. /\ row[r] # NoRow /\ ~Completed(r)
      /\ row' = [row EXCEPT ![r].live = FALSE]
      /\ UNCHANGED <<handler, revision, policy, effects, answers>>
  BY DEF LeaseExpires
<1>3. row[r] \in Rows
  BY <1>1, <1>2, RowType
<1>4. /\ row' \in [Requests -> Rows \union {NoRow}]
      /\ row'[r] \in Rows /\ row'[r].receipt = row[r].receipt /\ row'[r].body = row[r].body
      /\ \A s \in Requests : s # r => row'[s] = row[s]
  <2>1. [row[r] EXCEPT !.live = FALSE] \in Rows
    BY <1>3 DEF Rows
  <2>2. [row[r] EXCEPT !.live = FALSE].receipt = row[r].receipt
        /\ [row[r] EXCEPT !.live = FALSE].body = row[r].body
    BY <1>3 DEF Rows
  <2>3. QED
    BY <2>1, <2>2, <1>1, <1>2 DEF TypeOK
<1>5. TypeOK'
  <2>1. faults' \in 0..MaxFaults
    BY <1>1, ChatAssumption DEF TypeOK, LeaseExpires
  <2>2. QED
    BY <1>1, <1>2, <1>4, <2>1 DEF TypeOK
<1>6. RunMatchesRow'
  <2>1. SUFFICES ASSUME NEW k \in Handlers, handler[k] # Idle
                 PROVE  row'[handler[k].request] # NoRow
                        /\ row'[handler[k].request].body = handler[k].body
    BY <1>2 DEF RunMatchesRow
  <2>2. /\ handler[k].request \in Requests
        /\ row[handler[k].request] # NoRow
        /\ row[handler[k].request].body = handler[k].body
    BY <1>1, <2>1, RunType DEF IInv, RunMatchesRow
  <2>3. row'[r] # NoRow
    BY <1>4 DEF Rows, NoRow
  <2>4. QED
    BY <1>4, <2>2, <2>3
<1>7. \A s \in Requests : row'[s].receipt = row[s].receipt /\ row'[s].body = row[s].body
  BY <1>4
<1>8. AnswersAgree'
  <2>1. \A x \in answers : x.request \in Requests
    BY <1>1 DEF TypeOK
  <2>2. QED
    BY <1>2, <1>7, <2>1 DEF IInv, AnswersAgree, Completed
<1>9. ReceiptTellsEffect'
  BY <1>2, <1>7 DEF IInv, ReceiptTellsEffect, Completed
<1>10. QED
  BY <1>5, <1>6, <1>8, <1>9 DEF IInv

LEMMA OtherWriteIInv ==
    ASSUME IInv, OtherWrite
    PROVE  IInv'
<1>1. TypeOK /\ UNCHANGED <<row, handler, effects, answers, faults>>
  BY DEF IInv, OtherWrite
<1>2. TypeOK'
  BY <1>1, ChatAssumption DEF TypeOK, OtherWrite
<1>3. RunMatchesRow' /\ ReceiptTellsEffect' /\ AnswersAgree'
  BY <1>1 DEF IInv, RunMatchesRow, ReceiptTellsEffect, AnswersAgree, Completed
<1>4. QED
  BY <1>2, <1>3 DEF IInv

LEMMA NextIInv ==
    ASSUME IInv, [Next]_vars
    PROVE  IInv'
<1>1. ASSUME NEW h \in Handlers, HandlerStep(h) PROVE IInv'
  BY <1>1, RunStepIInv, FinishIInv, FinishFencedIInv DEF HandlerStep
<1>2. ASSUME NEW h \in Handlers, Crash(h) PROVE IInv'
  BY <1>2, FaultIInv
<1>3. ASSUME NEW h \in Handlers, NEW r \in Requests, NEW b \in Bodies, Receive(h, r, b)
      PROVE IInv'
  BY <1>3, ReplayIInv, ClaimIInv DEF Receive
<1>4. ASSUME NEW h \in Handlers, NEW r \in Requests, NEW b \in Bodies, Busy(h, r, b)
      PROVE IInv'
  BY <1>4, FaultIInv
<1>5. ASSUME NEW r \in Requests, LeaseExpires(r) PROVE IInv'
  BY <1>5, LeaseExpiresIInv
<1>6. CASE OtherWrite
  BY <1>6, OtherWriteIInv
<1>7. CASE UNCHANGED vars
  BY <1>7 DEF vars, IInv, TypeOK, RunMatchesRow, ReceiptTellsEffect, AnswersAgree, Completed
<1>8. QED
  BY <1>1, <1>2, <1>3, <1>4, <1>5, <1>6, <1>7 DEF Next

LEMMA Invariance == Spec => []IInv
<1>1. Init => IInv
  BY InitIInv
<1>2. IInv /\ [Next]_vars => IInv'
  BY NextIInv
<1>3. QED
  BY <1>1, <1>2, PTL DEF Spec

-----------------------------------------------------------------------------
(* The theorems *)

\* Rows, runs and answers have their types in every reachable state.
THEOREM TypeCorrect == Spec => []TypeOK
<1>1. IInv => TypeOK
  BY DEF IInv
<1>2. QED
  BY <1>1, Invariance, PTL

\* A plan takes effect exactly when, and as often as, its receipt says: the
\* transaction of finish_request is never run twice for one request.
THEOREM ReceiptsTellEffects == Spec => []ReceiptTellsEffect
<1>1. IInv => ReceiptTellsEffect
  BY DEF IInv
<1>2. QED
  BY <1>1, Invariance, PTL

\* All terminal answers to a request are its receipt, whoever delivers them.
THEOREM OneAnswer == Spec => []AnswersAgree
<1>1. IInv => AnswersAgree
  BY DEF IInv
<1>2. QED
  BY <1>1, Invariance, PTL

\* The one step that changes the day for a request is a finish with "applied".
LEMMA OnlyFinishApplies ==
    ASSUME IInv, [Next]_vars, NEW r \in Requests, effects'[r] # effects[r]
    PROVE  \E h \in Handlers :
               /\ Finish(h)
               /\ handler[h].request = r
               /\ "applied" \in Results(handler[h])
<1>1. effects' # effects
  OBVIOUS
<1>2. PICK h \in Handlers : Finish(h)
  BY <1>1 DEF Next, HandlerStep, CaptureContext, CallProvider, FinishFenced, Crash, Receive, Replay,
              Claim, Busy, LeaseExpires, OtherWrite, vars
<1>3. PICK result \in Results(handler[h]) :
          effects' = IF result = "applied"
                     THEN [effects EXCEPT ![handler[h].request] = @ + 1] ELSE effects
  BY <1>2 DEF Finish
<1>4. result = "applied" /\ handler[h].request = r
  BY <1>1, <1>3 DEF IInv, TypeOK
<1>5. QED
  BY <1>2, <1>3, <1>4

\* No stale plan is saved: the day is at the revision the request was sent for,
\* and its policies are those the provider call was given.
THEOREM NoStalePlan == Spec => AppliedOnlyFresh
<1>1. ASSUME IInv, [Next]_vars, NEW r \in Requests, effects'[r] # effects[r]
      PROVE  /\ row[r].body = revision
             /\ \E h \in Handlers : handler[h] # Idle /\ handler[h].request = r
                                     /\ handler[h].policy = policy
  <2>1. PICK h \in Handlers : Finish(h) /\ handler[h].request = r /\ "applied" \in Results(handler[h])
    BY <1>1, OnlyFinishApplies
  <2>2. handler[h] # Idle
    BY <2>1, PhaseIsRun DEF Finish
  <2>3. Fresh(handler[h])
    BY <2>1, ResultsAreReceipts
  <2>4. QED
    BY <1>1, <2>1, <2>2, <2>3 DEF IInv, RunMatchesRow, Fresh
<1>2. IInv /\ [Next]_vars =>
        [\A r \in Requests : effects'[r] # effects[r] =>
          /\ row[r].body = revision
          /\ \E h \in Handlers : handler[h] # Idle /\ handler[h].request = r
                                  /\ handler[h].policy = policy]_vars
  BY <1>1
<1>3. QED
  BY <1>2, Invariance, PTL DEF AppliedOnlyFresh, Spec

-----------------------------------------------------------------------------
(* Refinement of ExactlyOnce *)

\* The mapped variables: the decided outcomes and the terminal answers.
Outcome == [r \in Requests |-> IF Completed(r) THEN row[r].receipt ELSE "unknown"]

Told == {<<a.request, a.answer>> : a \in {x \in answers : x.answer \in Receipts}}

LEMMA ToldGrows ==
    ASSUME NEW r, NEW b, NEW a, Answer(r, b, a)
    PROVE  Told' \in {Told, Told \union (IF a \in Receipts THEN {<<r, a>>} ELSE {})}
<1> DEFINE x == [request |-> r, body |-> b, answer |-> a]
<1>1. x.request = r /\ x.answer = a
  OBVIOUS
<1>2. CASE answers' = answers
  BY <1>2 DEF Told
<1>3. CASE answers' = answers \union {x} /\ a \in Receipts
  BY <1>1, <1>3 DEF Told
<1>4. CASE answers' = answers \union {x} /\ a \notin Receipts
  BY <1>1, <1>4 DEF Told
<1>5. QED
  BY <1>2, <1>3, <1>4 DEF Answer

\* Steps that decide nothing: outcomes, effects and terminal answers stay, or
\* one request is told its outcome.
LEMMA TellOrStutter ==
    ASSUME UNCHANGED effects, Outcome' = Outcome,
           NEW r \in Requests, NEW b, NEW a, Answer(r, b, a),
           a \in Receipts => Completed(r) /\ row[r].receipt = a
    PROVE  [Promise!Next]_Promise!vars
<1>1. Told' = Told \/ (a \in Receipts /\ Told' = Told \union {<<r, a>>})
  BY ToldGrows
<1>2. CASE Told' = Told
  BY <1>2 DEF Promise!vars, Outcome, Told
<1>3. CASE a \in Receipts /\ Told' = Told \union {<<r, a>>}
  <2>1. Outcome[r] = a /\ Outcome[r] # "unknown"
    BY <1>3 DEF Outcome, Receipts
  <2>2. Promise!Tell(r)
    BY <1>3, <2>1 DEF Promise!Tell, Outcome, Told
  <2>3. QED
    BY <2>2 DEF Promise!Next
<1>4. QED
  BY <1>1, <1>2, <1>3

LEMMA RefinesInit == Init => Promise!Init
<1>1. SUFFICES ASSUME Init PROVE Promise!Init
  OBVIOUS
<1>2. \A r \in Requests : ~Completed(r)
  BY <1>1 DEF Init, Completed, NoRow, Receipts
<1>3. QED
  BY <1>1, <1>2 DEF Init, Promise!Init

\* The owner's finish is the one decision of its request.
LEMMA FinishDecides ==
    ASSUME IInv, NEW h \in Handlers, Finish(h)
    PROVE  Promise!Next
<1> DEFINE r == handler[h].request
           b == handler[h].body
<1>1. TypeOK /\ handler[h] # Idle
  BY PhaseIsRun DEF IInv, Finish
<1>2. r \in Requests
  BY <1>1, RunType
<1>3. row[r] # NoRow
  BY <1>1 DEF IInv, RunMatchesRow
<1>4. row[r] \in Rows
  BY <1>1, <1>2, <1>3, RowType
<1>5. ~Completed(r)
  BY DEF Finish, Fence
<1>6. PICK result \in Receipts :
          /\ row' = [row EXCEPT ![r].receipt = result]
          /\ effects' = IF result = "applied" THEN [effects EXCEPT ![r] = @ + 1] ELSE effects
          /\ Answer(r, b, result)
  BY ResultsAreReceipts DEF Finish
<1>7. /\ row'[r].receipt = result
      /\ \A s \in Requests : s # r => row'[s] = row[s]
  BY <1>1, <1>2, <1>4, <1>6 DEF TypeOK, Rows
<1>8. Outcome[r] = "unknown" /\ Outcome' = [Outcome EXCEPT ![r] = result]
  BY <1>2, <1>5, <1>6, <1>7 DEF Outcome, Completed
<1>9. Told' \in {Told, Told \union {<<r, result>>}}
  BY <1>6, ToldGrows
<1>10. Promise!Decide(r, result)
  BY <1>2, <1>6, <1>8, <1>9 DEF Promise!Decide, Outcome, Told
<1>11. QED
  BY <1>2, <1>10 DEF Promise!Next

LEMMA RefinesNext ==
    ASSUME IInv, [Next]_vars
    PROVE  [Promise!Next]_Promise!vars
<1>1. ASSUME UNCHANGED <<effects, answers>>, Outcome' = Outcome
      PROVE  [Promise!Next]_Promise!vars
  BY <1>1 DEF Promise!vars, Outcome
<1>2. ASSUME UNCHANGED row PROVE Outcome' = Outcome
  BY <1>2 DEF Outcome, Completed
<1>3. ASSUME NEW h \in Handlers, CaptureContext(h) \/ CallProvider(h) \/ Crash(h)
      PROVE  [Promise!Next]_Promise!vars
  BY <1>1, <1>2, <1>3 DEF CaptureContext, CallProvider, Crash
<1>4. ASSUME NEW h \in Handlers, Finish(h) PROVE [Promise!Next]_Promise!vars
  BY <1>4, FinishDecides
<1>5. ASSUME NEW h \in Handlers, FinishFenced(h) PROVE [Promise!Next]_Promise!vars
  <2>1. handler[h].request \in Requests
    BY <1>5, PhaseIsRun, RunType DEF IInv, FinishFenced
  <2>2. UNCHANGED <<row, effects>>
    BY <1>5 DEF FinishFenced
  <2>3. PICK a : /\ Answer(handler[h].request, handler[h].body, a)
                 /\ a \in Receipts => Completed(handler[h].request)
                                       /\ row[handler[h].request].receipt = a
    BY <1>5 DEF FinishFenced, Receipts
  <2>4. QED
    BY <2>1, <2>2, <2>3, <1>2, TellOrStutter
<1>6. ASSUME NEW h \in Handlers, NEW r \in Requests, NEW b \in Bodies, Replay(h, r, b)
      PROVE [Promise!Next]_Promise!vars
  <2>1. UNCHANGED <<row, effects>>
    BY <1>6 DEF Replay
  <2>2. PICK a : Answer(r, b, a) /\ (a \in Receipts => Completed(r) /\ row[r].receipt = a)
    BY <1>6 DEF Replay, Receipts
  <2>3. QED
    BY <2>1, <2>2, <1>2, TellOrStutter
<1>7. ASSUME NEW h \in Handlers, NEW r \in Requests, NEW b \in Bodies, Claim(h, r, b)
      PROVE [Promise!Next]_Promise!vars
  <2>1. ~Completed(r) /\ UNCHANGED <<effects, answers>>
    BY <1>7, CompletedRow DEF Claim, MayClaim
  <2>2. row'[r].receipt = "none" /\ \A s \in Requests : s # r => row'[s] = row[s]
    BY <1>7 DEF Claim, IInv, TypeOK
  <2>3. Outcome' = Outcome
    BY <2>1, <2>2 DEF Outcome, Completed, Receipts
  <2>4. QED
    BY <2>1, <2>3, <1>1
<1>8. ASSUME NEW h \in Handlers, NEW r \in Requests, NEW b \in Bodies, Busy(h, r, b)
      PROVE [Promise!Next]_Promise!vars
  <2>1. Answer(r, b, "unavailable") /\ UNCHANGED <<row, effects>>
    BY <1>8 DEF Busy
  <2>2. "unavailable" \notin Receipts
    BY DEF Receipts
  <2>3. QED
    BY <2>1, <2>2, <1>2, TellOrStutter
<1>9. ASSUME NEW r \in Requests, LeaseExpires(r) PROVE [Promise!Next]_Promise!vars
  <2>1. /\ row[r] \in Rows
        /\ row' = [row EXCEPT ![r].live = FALSE]
        /\ UNCHANGED <<effects, answers>>
    BY <1>9, RowType DEF IInv, LeaseExpires
  <2>2. row'[r].receipt = row[r].receipt /\ \A s \in Requests : s # r => row'[s] = row[s]
    BY <2>1 DEF IInv, TypeOK, Rows
  <2>3. Outcome' = Outcome
    BY <2>2 DEF Outcome, Completed
  <2>4. QED
    BY <2>1, <2>3, <1>1
<1>10. CASE OtherWrite \/ UNCHANGED vars
  BY <1>10, <1>1, <1>2 DEF OtherWrite, vars
<1>11. QED
  BY <1>3, <1>4, <1>5, <1>6, <1>7, <1>8, <1>9, <1>10 DEF Next, HandlerStep, Receive

\* Claims, leases and receipts implement the abstract promise: one outcome per
\* request, with its effect, and nothing else is ever told.
THEOREM Implements == Spec => ImplementsExactlyOnce
<1>1. Init => Promise!Init
  BY RefinesInit
<1>2. IInv /\ [Next]_vars => [Promise!Next]_Promise!vars
  BY RefinesNext
<1>3. QED
  BY <1>1, <1>2, Invariance, PTL DEF Spec, ImplementsExactlyOnce, Promise!Spec
=============================================================================

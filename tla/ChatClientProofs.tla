-------------------------- MODULE ChatClientProofs --------------------------
(***************************************************************************)
(* What ChatClient guarantees for every set of identities and days and     *)
(* every number of deployments, whatever is lost, repeated or late.        *)
(***************************************************************************)
EXTENDS ChatClient, TLAPS

Decided == outcome \in [Requests -> Outcomes \union {"unknown"}]

\* Records and turns are those of their day.
DaysMatch ==
    /\ \A d \in Dates : stored[d] # None => day[stored[d]] = d
    /\ \A d \in Dates : Busy(d) => day[run[d].request] = d

\* Only drawn identities were posted or given up.
DrawnOnly == \A r \in wire \union dropped : day[r] # None

\* The record in memory is the one of the active day in the tab.
PendingStored == pending # None => stored[active] = pending

\* The live turn is one of the active day, and its record is still there.
LiveStored == \A d \in Dates : Busy(d) /\ run[d].live => d = active /\ stored[d] = run[d].request

NotDropped == \A d \in Dates : stored[d] \notin dropped

\* A turn with a bubble has no record: nothing posts it again.
ShownForgotten ==
    /\ ThreadIsOwn
    /\ \A b \in thread : \A d \in Dates : stored[d] # b.request

ErrorsNeverAppliedWithoutDeploy == release = 0 => ErrorsNeverApplied

IInv ==
    /\ TypeOK
    /\ Decided
    /\ DaysMatch
    /\ DrawnOnly
    /\ PendingStored
    /\ LiveStored
    /\ NotDropped
    /\ ShownForgotten
    /\ ResultsAreReceipts
    /\ RecordKeptWithoutDeploy
    /\ ErrorsNeverAppliedWithoutDeploy

-----------------------------------------------------------------------------
(* Facts about turns, records and receipts *)

\* A busy writer has a turn with all its fields.
LEMMA RunType ==
    ASSUME TypeOK, NEW d \in Dates, Busy(d)
    PROVE  /\ run[d] \in Runs
           /\ run[d].request \in Requests
           /\ run[d].live \in BOOLEAN
           /\ run[d].attempt \in {0, 1}
           /\ run[d].taken \in BOOLEAN
<1>1. run[d] \in Runs
  BY DEF TypeOK, Busy
<1>2. QED
  BY <1>1 DEF Runs

\* The second post of a turn is a turn of the same request.
LEMMA RunFields ==
    ASSUME NEW t \in Runs, t.attempt = 0, NEW taken \in BOOLEAN
    PROVE  /\ [t EXCEPT !.attempt = @ + 1, !.taken = taken] \in Runs
           /\ [t EXCEPT !.attempt = @ + 1, !.taken = taken].request = t.request
<1>1. t.attempt + 1 = 1
  OBVIOUS
<1>2. [t EXCEPT !.attempt = @ + 1, !.taken = taken] = [t EXCEPT !.attempt = 1, !.taken = taken]
  BY <1>1
<1>3. [t EXCEPT !.attempt = 1, !.taken = taken] \in Runs
  BY DEF Runs
<1>4. [t EXCEPT !.attempt = 1, !.taken = taken].request = t.request
  BY DEF Runs
<1>5. QED
  BY <1>2, <1>3, <1>4

\* A turn, whatever its values, is not NoRun.
LEMMA RunIsBusy ==
    ASSUME NEW t \in Runs
    PROVE  t # NoRun
<1>1. PICK q \in Requests, a \in {0, 1}, l \in BOOLEAN, k \in BOOLEAN :
        t = [phase |-> "posted", request |-> q, attempt |-> a, live |-> l, taken |-> k]
  BY DEF Runs
<1>2. t.phase = "posted" /\ NoRun.phase = "idle"
  BY <1>1 DEF NoRun
<1>3. QED
  BY <1>2

\* Cancelling takes the live token and leaves the turns under way.
LEMMA Cancelled ==
    ASSUME TypeOK
    PROVE  /\ CancelLive(run) \in [Dates -> Runs \union {NoRun}]
           /\ \A d \in Dates :
                /\ CancelLive(run)[d] = NoRun <=> run[d] = NoRun
                /\ run[d] # NoRun => /\ CancelLive(run)[d].request = run[d].request
                                     /\ CancelLive(run)[d].live = FALSE
<1>1. ASSUME NEW d \in Dates, run[d] # NoRun
      PROVE  /\ CancelLive(run)[d] \in Runs
             /\ CancelLive(run)[d].request = run[d].request
             /\ CancelLive(run)[d].live = FALSE
  <2>1. run[d] \in Runs
    BY <1>1, RunType DEF Busy
  <2>2. [run[d] EXCEPT !.live = FALSE] \in Runs
    BY <2>1 DEF Runs
  <2>3. QED
    BY <1>1, <2>1, <2>2 DEF CancelLive, Runs
<1>2. ASSUME NEW d \in Dates, run[d] = NoRun
      PROVE  CancelLive(run)[d] = NoRun
  BY <1>2 DEF CancelLive
<1>3. QED
  BY <1>1, <1>2, RunIsBusy DEF CancelLive

\* A forgotten record is gone from its day, and no other record is.
LEMMA Forgotten ==
    ASSUME TypeOK, NEW r \in Requests, NEW d \in Dates, Forget(r, d)
    PROVE  /\ stored' \in [Dates -> Requests \union {None}]
           /\ pending' \in Requests \union {None}
           /\ stored'[d] # r
           /\ \A e \in Dates : stored'[e] # stored[e] => e = d /\ stored[e] = r /\ stored'[e] = None
           /\ pending' # pending => pending = r /\ pending' = None
           /\ pending' # r
BY ClientAssumption DEF TypeOK, Forget

\* The record a recovery finds is that of the active day.
LEMMA RestoredRecord ==
    ASSUME TypeOK, DaysMatch, PendingStored, Restored # None
    PROVE  Restored \in Requests /\ stored[active] = Restored /\ day[Restored] = active
BY DEF TypeOK, DaysMatch, PendingStored, Restored

\* A day without a record can have a new turn.
LEMMA NoRecord ==
    ASSUME TypeOK, PendingStored, Restored = None
    PROVE  stored[active] = None
BY DEF TypeOK, PendingStored, Restored

\* While nothing was deployed, the page is that of the server.
LEMMA SameRelease ==
    ASSUME TypeOK, release = 0
    PROVE  page = release
BY ClientAssumption DEF TypeOK

\* The new turn of Start.
LEMMA Started ==
    ASSUME TypeOK, NEW r \in Requests, Start(r)
    PROVE  /\ run' \in [Dates -> Runs \union {NoRun}]
           /\ run'[active] # NoRun /\ run'[active].request = r
           /\ \A d \in Dates : d # active => run'[d] = run[d]
           /\ wire' \subseteq wire \union {r}
           /\ wire \subseteq wire'
<1>1. PICK taken \in BOOLEAN :
        /\ run' = [run EXCEPT ![active] =
             [phase |-> "posted", request |-> r, attempt |-> 0, live |-> TRUE, taken |-> taken]]
        /\ Post(r, taken)
  BY DEF Start
<1>2. [phase |-> "posted", request |-> r, attempt |-> 0, live |-> TRUE, taken |-> taken] \in Runs
  BY DEF Runs
<1>3. run'[active] \in Runs /\ run'[active].request = r
  BY <1>1, <1>2 DEF TypeOK
<1>4. QED
  BY <1>1, <1>2, <1>3, RunIsBusy DEF TypeOK, Post

\* The bubble a turn may leave.
LEMMA Shown ==
    ASSUME TypeOK, NEW d \in Dates, Busy(d), NEW kind \in {"result", "error"}, Show(d, kind)
    PROVE  /\ thread' \subseteq Bubbles
           /\ \A b \in thread' :
                \/ b \in thread
                \/ run[d].live /\ b.request = run[d].request /\ b.kind = kind
<1>1. run[d].request \in Requests
  BY RunType
<1>2. [request |-> run[d].request, kind |-> kind] \in Bubbles
  BY <1>1 DEF Bubbles
<1>3. QED
  BY <1>2 DEF Show, TypeOK

LEMMA BubbleType ==
    ASSUME TypeOK, NEW b \in thread
    PROVE  b.request \in Requests /\ b.kind \in {"result", "error"}
BY DEF TypeOK, Bubbles

-----------------------------------------------------------------------------
(* The invariant *)

LEMMA InitIInv == Init => IInv
<1>1. SUFFICES ASSUME Init PROVE IInv
  OBVIOUS
<1>2. TypeOK
  BY <1>1, ClientAssumption DEF Init, TypeOK, Server!Init
<1>3. Decided
  BY <1>1 DEF Init, Decided, Server!Init
<1>4. DaysMatch /\ LiveStored
  BY <1>1 DEF Init, DaysMatch, LiveStored, Busy
<1>5. DrawnOnly /\ PendingStored /\ NotDropped
  BY <1>1 DEF Init, DrawnOnly, PendingStored, NotDropped
<1>6. ShownForgotten /\ ResultsAreReceipts
  BY <1>1 DEF Init, ShownForgotten, ThreadIsOwn, ResultsAreReceipts
<1>7. RecordKeptWithoutDeploy /\ ErrorsNeverAppliedWithoutDeploy
  BY <1>1 DEF Init, RecordKeptWithoutDeploy, RecordKeptUntilKnown,
       ErrorsNeverAppliedWithoutDeploy, ErrorsNeverApplied
<1>8. QED
  BY <1>2, <1>3, <1>4, <1>5, <1>6, <1>7 DEF IInv

\* A decision is final, and only a request on the wire gets one.
LEMMA ServerDecidesSafe == ASSUME IInv, NEW r \in Requests, ServerDecides(r) PROVE IInv'
<1>1. outcome[r] = "unknown" /\ (\E o \in Outcomes : outcome' = [outcome EXCEPT ![r] = o]) /\ r \in wire
  BY DEF ServerDecides, Server!Decide
<1>2. \A b \in thread : b.request \in Requests
  BY BubbleType DEF IInv
<1>3. Decided'
  BY <1>1, <1>2, ClientAssumption DEF IInv, Decided, ServerDecides, pageVars
<1>4. ResultsAreReceipts'
  BY <1>1, <1>2, ClientAssumption DEF IInv, ResultsAreReceipts, ServerDecides, pageVars
<1>5. ErrorsNeverAppliedWithoutDeploy'
  BY <1>1, <1>2, ClientAssumption DEF IInv, ErrorsNeverAppliedWithoutDeploy, ErrorsNeverApplied,
       ServerDecides, pageVars
<1>6. /\ TypeOK' /\ DaysMatch' /\ DrawnOnly' /\ PendingStored' /\ LiveStored'
      /\ NotDropped' /\ ShownForgotten' /\ RecordKeptWithoutDeploy'
  BY DEF IInv, TypeOK, DaysMatch, Busy, DrawnOnly, PendingStored, LiveStored, NotDropped,
       ShownForgotten, ThreadIsOwn, RecordKeptWithoutDeploy, RecordKeptUntilKnown, Told,
       ServerDecides, pageVars, serverVars
<1>7. QED
  BY <1>3, <1>4, <1>5, <1>6 DEF IInv

\* A deployment changes nothing on the page.
LEMMA DeploySafe == ASSUME IInv, Deploy PROVE IInv'
<1>1. release \in Nat /\ release' # 0
  BY ClientAssumption DEF IInv, TypeOK, Deploy
<1>2. TypeOK'
  BY <1>1, ClientAssumption DEF IInv, TypeOK, Deploy, pageVars, serverVars
<1>3. RecordKeptWithoutDeploy'
  BY <1>1, ClientAssumption DEF IInv, RecordKeptWithoutDeploy, RecordKeptUntilKnown, Told,
       Deploy, pageVars, serverVars
<1>4. ErrorsNeverAppliedWithoutDeploy'
  BY <1>1, ClientAssumption DEF IInv, ErrorsNeverAppliedWithoutDeploy, ErrorsNeverApplied,
       Deploy, pageVars, serverVars
<1>5. /\ Decided' /\ DaysMatch' /\ DrawnOnly' /\ PendingStored' /\ LiveStored'
      /\ NotDropped' /\ ShownForgotten' /\ ResultsAreReceipts'
  BY DEF IInv, Decided, DaysMatch, Busy, DrawnOnly, PendingStored, LiveStored, NotDropped,
       ShownForgotten, ThreadIsOwn, ResultsAreReceipts, Deploy, pageVars, serverVars
<1>6. QED
  BY <1>2, <1>3, <1>4, <1>5 DEF IInv

\* A new turn is the first of its day without a record.
LEMMA SubmitSafe == ASSUME IInv, NEW r \in Requests, Submit(r) PROVE IInv'
<1>1. TypeOK /\ DaysMatch /\ DrawnOnly /\ PendingStored /\ LiveStored
  BY DEF IInv
<1>2. /\ r \in Requests /\ ~Busy(active) /\ day[r] = None /\ active \in Dates
      /\ day' = [day EXCEPT ![r] = active] /\ stored' = [stored EXCEPT ![active] = r] /\ pending' = r
  BY <1>1 DEF Submit, TypeOK
<1>3. stored[active] = None
  BY <1>1, NoRecord DEF Submit, MayStart
<1>4. /\ run' \in [Dates -> Runs \union {NoRun}] /\ run'[active] # NoRun /\ run'[active].request = r
      /\ \A d \in Dates : d # active => run'[d] = run[d]
      /\ wire' \subseteq wire \union {r}
  BY <1>1, Started DEF Submit
<1>5. \A b \in thread : b.request \in Requests /\ b.request # r
  BY <1>1, <1>2, BubbleType, ClientAssumption DEF IInv, ShownForgotten, ThreadIsOwn, TypeOK
<1>6. TypeOK'
  <2>1. day' \in [Requests -> Dates \union {None}] /\ stored' \in [Dates -> Requests \union {None}]
    BY <1>1, <1>2 DEF TypeOK
  <2>2. QED
    BY <1>1, <1>2, <1>4, <2>1 DEF TypeOK, Submit
<1>7. DaysMatch'
  BY <1>1, <1>2, <1>3, <1>4, <1>5, ClientAssumption DEF IInv, DaysMatch, Busy, Submit, TypeOK
<1>8. DrawnOnly'
  BY <1>1, <1>2, <1>3, <1>4, <1>5, ClientAssumption DEF IInv, DrawnOnly, Submit, TypeOK
<1>9. PendingStored'
  BY <1>1, <1>2, <1>3, <1>4, <1>5, ClientAssumption DEF IInv, PendingStored, Submit, TypeOK
<1>10. LiveStored'
  BY <1>1, <1>2, <1>3, <1>4, <1>5, ClientAssumption DEF IInv, LiveStored, Busy, Submit, TypeOK
<1>11. NotDropped'
  <2>1. r \notin dropped
    BY <1>1, <1>2 DEF DrawnOnly
  <2>2. QED
    BY <1>2, <2>1 DEF IInv, NotDropped, TypeOK, Submit
<1>12. ShownForgotten'
  BY <1>1, <1>2, <1>3, <1>4, <1>5, ClientAssumption DEF IInv, ShownForgotten, ThreadIsOwn,
       Submit, TypeOK
<1>13. RecordKeptWithoutDeploy'
  <2>1. ASSUME release = 0, NEW q \in wire' PROVE stored'[day'[q]] = q \/ Told(q) \/ q \in dropped
    <3>1. CASE q = r
      BY <1>2, <3>1 DEF TypeOK, IInv
    <3>2. CASE q # r
      <4>1. q \in wire /\ q \in Requests /\ day[q] \in Dates /\ day'[q] = day[q]
        BY <1>1, <1>2, <1>4, <3>2 DEF TypeOK, DrawnOnly
      <4>2. stored[day[q]] = q \/ Told(q) \/ q \in dropped
        BY <2>1, <4>1 DEF IInv, RecordKeptWithoutDeploy, RecordKeptUntilKnown
      <4>3. stored[day[q]] = q => day[q] # active
        BY <1>3, <4>1, ClientAssumption
      <4>4. QED
        BY <1>1, <1>2, <4>1, <4>2, <4>3 DEF TypeOK
    <3>3. QED
      BY <3>1, <3>2
  <2>2. QED
    BY <2>1 DEF RecordKeptWithoutDeploy, RecordKeptUntilKnown, Told, Submit
<1>14. ErrorsNeverAppliedWithoutDeploy'
  <2>1. thread' = thread /\ outcome' = outcome /\ release' = release
    BY DEF Submit, serverVars
  <2>2. QED
    BY <1>4, <1>5, <2>1 DEF IInv, ErrorsNeverAppliedWithoutDeploy, ErrorsNeverApplied
<1>15. Decided' /\ ResultsAreReceipts'
  BY DEF IInv, Decided, ResultsAreReceipts, Submit, TypeOK, pageVars, serverVars
<1>16. QED
  BY <1>6, <1>7, <1>8, <1>9, <1>10, <1>11, <1>12, <1>13, <1>14, <1>15 DEF IInv

\* A recovery posts the record of its day again.
LEMMA RecoverSafe == ASSUME IInv, Recover PROVE IInv'
<1>1. TypeOK /\ DaysMatch /\ DrawnOnly /\ PendingStored /\ LiveStored
  BY DEF IInv
<1>2. /\ Restored \in Requests /\ stored[active] = Restored /\ day[Restored] = active /\ active \in Dates
      /\ pending' = Restored
  BY <1>1, RestoredRecord DEF Recover, TypeOK
<1>3. /\ run' \in [Dates -> Runs \union {NoRun}] /\ run'[active] # NoRun /\ run'[active].request = Restored
      /\ \A d \in Dates : d # active => run'[d] = run[d]
      /\ wire' \subseteq wire \union {Restored}
  BY <1>1, <1>2, Started DEF Recover
<1>4. \A b \in thread : b.request \in Requests /\ b.request # Restored
  BY <1>1, <1>2, BubbleType DEF IInv, ShownForgotten
<1>5. TypeOK'
  BY <1>1, <1>2, <1>3, <1>4, ClientAssumption DEF IInv, TypeOK, Recover
<1>6. DaysMatch'
  BY <1>1, <1>2, <1>3, <1>4, ClientAssumption DEF IInv, DaysMatch, Busy, Recover, TypeOK
<1>7. DrawnOnly'
  BY <1>1, <1>2, <1>3, <1>4, ClientAssumption DEF IInv, DrawnOnly, Recover, TypeOK
<1>8. PendingStored'
  BY <1>1, <1>2, <1>3, <1>4, ClientAssumption DEF IInv, PendingStored, Recover, TypeOK
<1>9. LiveStored'
  BY <1>1, <1>2, <1>3, <1>4, ClientAssumption DEF IInv, LiveStored, Busy, Recover, TypeOK
<1>10. RecordKeptWithoutDeploy'
  BY <1>1, <1>2, <1>3, <1>4, ClientAssumption DEF IInv, RecordKeptWithoutDeploy,
       RecordKeptUntilKnown, Told, Recover, TypeOK
<1>11. ErrorsNeverAppliedWithoutDeploy'
  <2>1. thread' = thread /\ outcome' = outcome /\ release' = release
    BY DEF Recover, serverVars
  <2>2. QED
    BY <1>3, <1>4, <2>1 DEF IInv, ErrorsNeverAppliedWithoutDeploy, ErrorsNeverApplied
<1>12. Decided' /\ NotDropped' /\ ShownForgotten' /\ ResultsAreReceipts'
  BY DEF IInv, Decided, NotDropped, ShownForgotten, ThreadIsOwn, ResultsAreReceipts, Recover,
       TypeOK, pageVars, serverVars
<1>13. QED
  BY <1>5, <1>6, <1>7, <1>8, <1>9, <1>10, <1>11, <1>12 DEF IInv

\* A receipt settles its own request, wherever the page is by then.
LEMMA ReceiveReceiptSafe == ASSUME IInv, NEW d \in Dates, ReceiveReceipt(d) PROVE IInv'
<1>1. TypeOK /\ DaysMatch /\ PendingStored /\ LiveStored /\ NotDropped /\ ShownForgotten
  BY DEF IInv
<1>2. /\ Busy(d) /\ run[d].request \in Requests /\ day[run[d].request] = d
      /\ run' = [run EXCEPT ![d] = NoRun]
  BY <1>1, RunType DEF ReceiveReceipt, DaysMatch, EndRun
<1>3. /\ stored' \in [Dates -> Requests \union {None}] /\ pending' \in Requests \union {None}
      /\ stored'[d] # run[d].request /\ pending' # run[d].request
      /\ \A e \in Dates : stored'[e] # stored[e] => e = d /\ stored[e] = run[d].request /\ stored'[e] = None
      /\ pending' # pending => pending = run[d].request /\ pending' = None
  BY <1>1, <1>2, Forgotten DEF ReceiveReceipt
<1>4. /\ thread' \subseteq Bubbles
      /\ \A b \in thread' :
           \/ b \in thread
           \/ /\ run[d].live /\ b.request = run[d].request
              /\ b.kind = IF outcome[run[d].request] \in {"applied", "answered"}
                          THEN "result" ELSE "error"
  BY <1>1, <1>2, Shown DEF ReceiveReceipt, ResultOf
<1>5. /\ outcome[run[d].request] \in Outcomes
      /\ told' = told \union {<<run[d].request, outcome[run[d].request]>>}
  BY <1>2 DEF IInv, Decided, ReceiveReceipt, ResultOf
<1>6. \A b \in thread : b.request \in Requests
  BY <1>1, BubbleType
<1>7. TypeOK'
  <2>1. run' \in [Dates -> Runs \union {NoRun}]
    BY <1>1, <1>2 DEF TypeOK
  <2>2. told' \subseteq Requests \X Outcomes
    BY <1>1, <1>2, <1>5 DEF TypeOK
  <2>3. QED
    BY <1>1, <1>3, <1>4, <2>1, <2>2 DEF TypeOK, ReceiveReceipt
<1>8. DaysMatch'
  BY <1>1, <1>2, <1>3, <1>4, <1>5, <1>6, ClientAssumption DEF IInv, DaysMatch, Busy,
       ReceiveReceipt, TypeOK, serverVars
<1>9. PendingStored'
  BY <1>1, <1>2, <1>3, <1>4, <1>5, <1>6, ClientAssumption DEF IInv, PendingStored,
       ReceiveReceipt, TypeOK, serverVars
<1>10. LiveStored'
  BY <1>1, <1>2, <1>3, <1>4, <1>5, <1>6, ClientAssumption DEF IInv, LiveStored, Busy,
       ReceiveReceipt, TypeOK, serverVars
<1>11. NotDropped'
  BY <1>1, <1>2, <1>3, <1>4, <1>5, <1>6, ClientAssumption DEF IInv, NotDropped, ReceiveReceipt,
       TypeOK, serverVars
<1>12. ShownForgotten'
  <2>1. ASSUME NEW b \in thread'
        PROVE  /\ b.request \in Requests /\ day[b.request] = active /\ b.request \notin dropped
               /\ \A e \in Dates : stored'[e] # b.request
    <3>1. CASE b \in thread
      BY <1>1, <1>3, <1>6, <3>1, ClientAssumption DEF ShownForgotten, ThreadIsOwn
    <3>2. CASE run[d].live /\ b.request = run[d].request
      <4>1. d = active /\ stored[d] = run[d].request
        BY <1>1, <1>2, <3>2 DEF LiveStored
      <4>2. run[d].request \notin dropped
        BY <1>1, <4>1 DEF NotDropped
      <4>3. ASSUME NEW e \in Dates PROVE stored'[e] # run[d].request
        BY <1>1, <1>2, <1>3, <4>3, ClientAssumption DEF DaysMatch
      <4>4. QED
        BY <1>2, <3>2, <4>1, <4>2, <4>3
    <3>3. QED
      BY <1>4, <3>1, <3>2
  <2>2. QED
    BY <2>1 DEF ShownForgotten, ThreadIsOwn, ReceiveReceipt
<1>13. ResultsAreReceipts'
  BY <1>1, <1>2, <1>3, <1>4, <1>5, <1>6, ClientAssumption DEF IInv, ResultsAreReceipts,
       ReceiveReceipt, TypeOK, serverVars
<1>14. RecordKeptWithoutDeploy'
  <2>1. ASSUME release = 0, NEW q \in wire PROVE stored'[day[q]] = q \/ Told(q)' \/ q \in dropped
    <3>1. q \in Requests /\ day[q] \in Dates
      BY <1>1, <2>1 DEF IInv, TypeOK, DrawnOnly
    <3>2. stored[day[q]] = q \/ Told(q) \/ q \in dropped
      BY <2>1 DEF IInv, RecordKeptWithoutDeploy, RecordKeptUntilKnown
    <3>3. Told(q) => Told(q)'
      BY <1>5 DEF Told
    <3>4. q = run[d].request => Told(q)'
      BY <1>5 DEF Told
    <3>5. QED
      BY <1>3, <3>1, <3>2, <3>3, <3>4
  <2>2. QED
    BY <2>1 DEF RecordKeptWithoutDeploy, RecordKeptUntilKnown, ReceiveReceipt
<1>15. ErrorsNeverAppliedWithoutDeploy'
  BY <1>1, <1>2, <1>3, <1>4, <1>5, <1>6, ClientAssumption DEF IInv,
       ErrorsNeverAppliedWithoutDeploy, ErrorsNeverApplied, ReceiveReceipt, TypeOK, serverVars,
       Outcomes
<1>16. Decided' /\ DrawnOnly'
  BY DEF IInv, Decided, DrawnOnly, ReceiveReceipt, TypeOK, serverVars, pageVars
<1>17. QED
  BY <1>7, <1>8, <1>9, <1>10, <1>11, <1>12, <1>13, <1>14, <1>15, <1>16 DEF IInv

\* A retry posts the live turn, which still has its record.
LEMMA RetrySafe == ASSUME IInv, NEW d \in Dates, Retry(d) PROVE IInv'
<1>1. TypeOK /\ DaysMatch /\ PendingStored /\ LiveStored /\ NotDropped /\ ShownForgotten
  BY DEF IInv
<1>2. /\ run[d].request \in Requests /\ day[run[d].request] = d
      /\ d = active /\ stored[d] = run[d].request
  BY <1>1, RunType DEF Retry, MayRetry, DaysMatch, LiveStored
<1>3. /\ run' \in [Dates -> Runs \union {NoRun}] /\ run'[d] # NoRun /\ run'[d].request = run[d].request
      /\ \A e \in Dates : e # d => run'[e] = run[e]
      /\ wire' \subseteq wire \union {run[d].request}
  <2>1. PICK taken \in BOOLEAN :
          /\ run' = [run EXCEPT ![d].attempt = @ + 1, ![d].taken = taken]
          /\ Post(run[d].request, taken)
    BY DEF Retry
  <2>2. run[d] \in Runs /\ run[d].attempt = 0
    BY <1>1, RunType DEF Retry, MayRetry
  <2>3. /\ [run[d] EXCEPT !.attempt = @ + 1, !.taken = taken] \in Runs
        /\ [run[d] EXCEPT !.attempt = @ + 1, !.taken = taken].request = run[d].request
    BY <2>2, RunFields
  <2>4. /\ run'[d] = [run[d] EXCEPT !.attempt = @ + 1, !.taken = taken]
        /\ run' \in [Dates -> Runs \union {NoRun}]
        /\ \A e \in Dates : e # d => run'[e] = run[e]
    BY <2>1, <2>3, <1>1 DEF TypeOK
  <2>5. QED
    BY <2>1, <2>3, <2>4, RunIsBusy DEF Post
<1>4. \A b \in thread : b.request \in Requests /\ b.request # run[d].request
  BY <1>1, <1>2, BubbleType DEF ShownForgotten
<1>5. TypeOK'
  BY <1>1, <1>2, <1>3, <1>4, ClientAssumption DEF IInv, TypeOK, Retry
<1>6. DaysMatch'
  BY <1>1, <1>2, <1>3, <1>4, ClientAssumption DEF IInv, DaysMatch, Busy, Retry, TypeOK
<1>7. DrawnOnly'
  BY <1>1, <1>2, <1>3, <1>4, ClientAssumption DEF IInv, DrawnOnly, Retry, TypeOK
<1>8. LiveStored'
  BY <1>1, <1>2, <1>3, <1>4, ClientAssumption DEF IInv, LiveStored, Busy, Retry, TypeOK
<1>9. RecordKeptWithoutDeploy'
  BY <1>1, <1>2, <1>3, <1>4, ClientAssumption DEF IInv, RecordKeptWithoutDeploy,
       RecordKeptUntilKnown, Told, Retry, TypeOK
<1>10. ErrorsNeverAppliedWithoutDeploy'
  <2>1. thread' = thread /\ outcome' = outcome /\ release' = release
    BY DEF Retry, serverVars
  <2>2. QED
    BY <1>3, <1>4, <2>1 DEF IInv, ErrorsNeverAppliedWithoutDeploy, ErrorsNeverApplied
<1>11. Decided' /\ PendingStored' /\ NotDropped' /\ ShownForgotten' /\ ResultsAreReceipts'
  BY DEF IInv, Decided, PendingStored, NotDropped, ShownForgotten, ThreadIsOwn,
       ResultsAreReceipts, Retry, TypeOK, pageVars, serverVars
<1>12. QED
  BY <1>5, <1>6, <1>7, <1>8, <1>9, <1>10, <1>11 DEF IInv

\* An unknown outcome leaves the record where it is.
LEMMA UnconfirmedSafe == ASSUME IInv, NEW d \in Dates, Unconfirmed(d) PROVE IInv'
<1>1. TypeOK /\ DaysMatch /\ PendingStored /\ LiveStored /\ NotDropped /\ ShownForgotten
  BY DEF IInv
<1>2. Busy(d) /\ run' = [run EXCEPT ![d] = NoRun]
  BY DEF Unconfirmed, EndRun
<1>3. TypeOK'
  BY <1>1, <1>2, ClientAssumption DEF IInv, TypeOK, Unconfirmed, AfterUnconfirmed
<1>4. DaysMatch'
  BY <1>1, <1>2, ClientAssumption DEF IInv, DaysMatch, Busy, Unconfirmed, AfterUnconfirmed,
       TypeOK
<1>5. LiveStored'
  BY <1>1, <1>2, ClientAssumption DEF IInv, LiveStored, Busy, Unconfirmed, AfterUnconfirmed,
       TypeOK
<1>6. /\ Decided' /\ DrawnOnly' /\ PendingStored' /\ NotDropped' /\ ShownForgotten'
      /\ ResultsAreReceipts' /\ RecordKeptWithoutDeploy'
      /\ ErrorsNeverAppliedWithoutDeploy'
  BY DEF IInv, Decided, DrawnOnly, PendingStored, NotDropped, ShownForgotten, ThreadIsOwn,
       ResultsAreReceipts, RecordKeptWithoutDeploy, RecordKeptUntilKnown, Told,
       ErrorsNeverAppliedWithoutDeploy, ErrorsNeverApplied, Unconfirmed, AfterUnconfirmed,
       TypeOK, pageVars, serverVars
<1>7. QED
  BY <1>3, <1>4, <1>5, <1>6 DEF IInv

\* A refusal is final only while the first copy cannot have passed.
LEMMA RefusedSafe == ASSUME IInv, NEW d \in Dates, Refused(d) PROVE IInv'
<1>1. TypeOK /\ DaysMatch /\ PendingStored /\ LiveStored /\ NotDropped /\ ShownForgotten
  BY DEF IInv
<1>2. /\ Busy(d) /\ run[d].request \in Requests /\ day[run[d].request] = d
      /\ run' = [run EXCEPT ![d] = NoRun]
  BY <1>1, RunType DEF Refused, DaysMatch, EndRun
<1>3. /\ stored' \in [Dates -> Requests \union {None}] /\ pending' \in Requests \union {None}
      /\ stored'[d] # run[d].request /\ pending' # run[d].request
      /\ \A e \in Dates : stored'[e] # stored[e] => e = d /\ stored[e] = run[d].request /\ stored'[e] = None
      /\ pending' # pending => pending = run[d].request /\ pending' = None
  BY <1>1, <1>2, Forgotten DEF Refused
<1>4. /\ thread' \subseteq Bubbles
      /\ \A b \in thread' :
           \/ b \in thread
           \/ run[d].live /\ b.request = run[d].request /\ b.kind = "error"
  BY <1>1, <1>2, Shown DEF Refused
<1>5. release = 0 => run[d].request \notin wire
  BY <1>1, SameRelease DEF Refused
<1>6. \A b \in thread : b.request \in Requests
  BY <1>1, BubbleType
<1>7. TypeOK'
  BY <1>1, <1>2, <1>3, <1>4, <1>5, <1>6, ClientAssumption DEF IInv, TypeOK, Refused, serverVars
<1>8. DaysMatch'
  BY <1>1, <1>2, <1>3, <1>4, <1>5, <1>6, ClientAssumption DEF IInv, DaysMatch, Busy, Refused,
       TypeOK, serverVars
<1>9. PendingStored'
  BY <1>1, <1>2, <1>3, <1>4, <1>5, <1>6, ClientAssumption DEF IInv, PendingStored, Refused,
       TypeOK, serverVars
<1>10. LiveStored'
  BY <1>1, <1>2, <1>3, <1>4, <1>5, <1>6, ClientAssumption DEF IInv, LiveStored, Busy, Refused,
       TypeOK, serverVars
<1>11. NotDropped'
  BY <1>1, <1>2, <1>3, <1>4, <1>5, <1>6, ClientAssumption DEF IInv, NotDropped, Refused, TypeOK,
       serverVars
<1>12. ShownForgotten'
  <2>1. ASSUME NEW b \in thread'
        PROVE  /\ b.request \in Requests /\ day[b.request] = active /\ b.request \notin dropped
               /\ \A e \in Dates : stored'[e] # b.request
    <3>1. CASE b \in thread
      BY <1>1, <1>3, <1>6, <3>1, ClientAssumption DEF ShownForgotten, ThreadIsOwn
    <3>2. CASE run[d].live /\ b.request = run[d].request
      <4>1. d = active /\ stored[d] = run[d].request
        BY <1>1, <1>2, <3>2 DEF LiveStored
      <4>2. run[d].request \notin dropped
        BY <1>1, <4>1 DEF NotDropped
      <4>3. ASSUME NEW e \in Dates PROVE stored'[e] # run[d].request
        BY <1>1, <1>2, <1>3, <4>3, ClientAssumption DEF DaysMatch
      <4>4. QED
        BY <1>2, <3>2, <4>1, <4>2, <4>3
    <3>3. QED
      BY <1>4, <3>1, <3>2
  <2>2. QED
    BY <2>1 DEF ShownForgotten, ThreadIsOwn, Refused
<1>13. ResultsAreReceipts'
  BY <1>1, <1>2, <1>3, <1>4, <1>5, <1>6, ClientAssumption DEF IInv, ResultsAreReceipts, Refused,
       TypeOK, serverVars
<1>14. RecordKeptWithoutDeploy'
  <2>1. ASSUME release = 0, NEW q \in wire PROVE stored'[day[q]] = q \/ Told(q)' \/ q \in dropped
    <3>1. q \in Requests /\ day[q] \in Dates
      BY <1>1, <2>1 DEF IInv, TypeOK, DrawnOnly
    <3>2. stored[day[q]] = q \/ Told(q) \/ q \in dropped
      BY <2>1 DEF IInv, RecordKeptWithoutDeploy, RecordKeptUntilKnown
    <3>3. q # run[d].request
      BY <1>5, <2>1
    <3>4. Told(q)' <=> Told(q)
      BY DEF Told, Refused
    <3>5. QED
      BY <1>3, <3>1, <3>2, <3>3, <3>4
  <2>2. QED
    BY <2>1 DEF RecordKeptWithoutDeploy, RecordKeptUntilKnown, Refused
<1>15. ErrorsNeverAppliedWithoutDeploy'
  BY <1>1, <1>2, <1>3, <1>4, <1>5, <1>6, ClientAssumption DEF IInv,
       ErrorsNeverAppliedWithoutDeploy, ErrorsNeverApplied, Refused, TypeOK, serverVars
<1>16. Decided' /\ DrawnOnly'
  BY DEF IInv, Decided, DrawnOnly, Refused, TypeOK, serverVars, pageVars
<1>17. QED
  BY <1>7, <1>8, <1>9, <1>10, <1>11, <1>12, <1>13, <1>14, <1>15, <1>16 DEF IInv

\* The new day has its own record, and no turn is live.
LEMMA SetActiveDateSafe == ASSUME IInv, NEW d \in Dates, SetActiveDate(d) PROVE IInv'
<1>1. TypeOK /\ DaysMatch /\ PendingStored /\ LiveStored /\ NotDropped /\ ShownForgotten
  BY DEF IInv
<1>2. /\ run' \in [Dates -> Runs \union {NoRun}]
      /\ \A e \in Dates :
           /\ run'[e] = NoRun <=> run[e] = NoRun
           /\ run[e] # NoRun => run'[e].request = run[e].request /\ run'[e].live = FALSE
  BY <1>1, Cancelled DEF SetActiveDate
<1>3. TypeOK'
  BY <1>1, <1>2, ClientAssumption DEF IInv, TypeOK, SetActiveDate
<1>4. DaysMatch'
  BY <1>1, <1>2, ClientAssumption DEF IInv, DaysMatch, Busy, SetActiveDate, TypeOK
<1>5. PendingStored'
  BY <1>1, <1>2, ClientAssumption DEF IInv, PendingStored, SetActiveDate, TypeOK
<1>6. LiveStored'
  BY <1>1, <1>2, ClientAssumption DEF IInv, LiveStored, Busy, SetActiveDate, TypeOK
<1>7. ShownForgotten'
  BY <1>1, <1>2, ClientAssumption DEF IInv, ShownForgotten, ThreadIsOwn, SetActiveDate, TypeOK
<1>8. ResultsAreReceipts'
  BY <1>1, <1>2, ClientAssumption DEF IInv, ResultsAreReceipts, SetActiveDate, TypeOK
<1>9. ErrorsNeverAppliedWithoutDeploy'
  BY <1>1, <1>2, ClientAssumption DEF IInv, ErrorsNeverAppliedWithoutDeploy, ErrorsNeverApplied,
       SetActiveDate, TypeOK
<1>10. Decided' /\ DrawnOnly' /\ NotDropped' /\ RecordKeptWithoutDeploy'
  BY DEF IInv, Decided, DrawnOnly, NotDropped, RecordKeptWithoutDeploy, RecordKeptUntilKnown,
       Told, SetActiveDate, TypeOK, pageVars, serverVars
<1>11. QED
  BY <1>3, <1>4, <1>5, <1>6, <1>7, <1>8, <1>9, <1>10 DEF IInv

\* Clearing keeps the records.
LEMMA ClearThreadSafe == ASSUME IInv, ClearThread PROVE IInv'
<1>1. TypeOK /\ DaysMatch /\ PendingStored /\ LiveStored /\ NotDropped /\ ShownForgotten
  BY DEF IInv
<1>2. /\ run' \in [Dates -> Runs \union {NoRun}]
      /\ \A e \in Dates :
           /\ run'[e] = NoRun <=> run[e] = NoRun
           /\ run[e] # NoRun => run'[e].request = run[e].request /\ run'[e].live = FALSE
  BY <1>1, Cancelled DEF ClearThread
<1>3. TypeOK'
  BY <1>1, <1>2, ClientAssumption DEF IInv, TypeOK, ClearThread
<1>4. DaysMatch'
  BY <1>1, <1>2, ClientAssumption DEF IInv, DaysMatch, Busy, ClearThread, TypeOK
<1>5. LiveStored'
  BY <1>1, <1>2, ClientAssumption DEF IInv, LiveStored, Busy, ClearThread, TypeOK
<1>6. ShownForgotten'
  BY <1>1, <1>2, ClientAssumption DEF IInv, ShownForgotten, ThreadIsOwn, ClearThread, TypeOK
<1>7. ResultsAreReceipts'
  BY <1>1, <1>2, ClientAssumption DEF IInv, ResultsAreReceipts, ClearThread, TypeOK
<1>8. ErrorsNeverAppliedWithoutDeploy'
  BY <1>1, <1>2, ClientAssumption DEF IInv, ErrorsNeverAppliedWithoutDeploy, ErrorsNeverApplied,
       ClearThread, TypeOK
<1>9. Decided' /\ DrawnOnly' /\ PendingStored' /\ NotDropped' /\ RecordKeptWithoutDeploy'
  BY DEF IInv, Decided, DrawnOnly, PendingStored, NotDropped, RecordKeptWithoutDeploy,
       RecordKeptUntilKnown, Told, ClearThread, TypeOK, pageVars, serverVars
<1>10. QED
  BY <1>3, <1>4, <1>5, <1>6, <1>7, <1>8, <1>9 DEF IInv

\* A discarded request is forgotten and known to be given up.
LEMMA DiscardSafe == ASSUME IInv, Discard PROVE IInv'
<1>1. TypeOK /\ DaysMatch /\ DrawnOnly /\ PendingStored /\ NotDropped /\ ShownForgotten
  BY DEF IInv
<1>2. /\ pending \in Requests /\ active \in Dates /\ stored[active] = pending /\ day[pending] = active
      /\ dropped' = dropped \union {pending}
  BY <1>1 DEF Discard, TypeOK, PendingStored, DaysMatch
<1>3. /\ stored' \in [Dates -> Requests \union {None}] /\ pending' = None
      /\ stored'[active] # pending
      /\ \A e \in Dates : stored'[e] # stored[e] => e = active /\ stored[e] = pending /\ stored'[e] = None
  BY <1>1, <1>2, Forgotten DEF Discard, Forget
<1>4. /\ run' \in [Dates -> Runs \union {NoRun}]
      /\ \A e \in Dates :
           /\ run'[e] = NoRun <=> run[e] = NoRun
           /\ run[e] # NoRun => run'[e].request = run[e].request /\ run'[e].live = FALSE
  BY <1>1, Cancelled DEF Discard
<1>5. \A b \in thread : b.request \in Requests
  BY <1>1, BubbleType
<1>6. TypeOK'
  BY <1>1, <1>2, <1>3, <1>4, <1>5, ClientAssumption DEF IInv, TypeOK, Discard
<1>7. DaysMatch'
  BY <1>1, <1>2, <1>3, <1>4, <1>5, ClientAssumption DEF IInv, DaysMatch, Busy, Discard, TypeOK
<1>8. DrawnOnly'
  BY <1>1, <1>2, <1>3, <1>4, <1>5, ClientAssumption DEF IInv, DrawnOnly, Discard, TypeOK
<1>9. PendingStored'
  BY <1>1, <1>2, <1>3, <1>4, <1>5, ClientAssumption DEF IInv, PendingStored, Discard, TypeOK
<1>10. LiveStored'
  BY <1>1, <1>2, <1>3, <1>4, <1>5, ClientAssumption DEF IInv, LiveStored, Busy, Discard, TypeOK
<1>11. NotDropped'
  <2>1. ASSUME NEW e \in Dates PROVE stored'[e] # pending
    BY <1>1, <1>2, <1>3, <2>1, ClientAssumption DEF DaysMatch
  <2>2. ASSUME NEW e \in Dates PROVE stored'[e] \notin dropped
    <3>1. CASE stored'[e] = stored[e]
      BY <1>1, <3>1 DEF NotDropped
    <3>2. CASE stored'[e] # stored[e]
      BY <1>1, <1>3, <3>2, ClientAssumption DEF TypeOK
    <3>3. QED
      BY <3>1, <3>2
  <2>3. QED
    BY <1>2, <2>1, <2>2 DEF NotDropped
<1>12. ShownForgotten'
  BY <1>1, <1>2, <1>3, <1>4, <1>5, ClientAssumption DEF IInv, ShownForgotten, ThreadIsOwn,
       Discard, TypeOK
<1>13. RecordKeptWithoutDeploy'
  <2>1. ASSUME release = 0, NEW q \in wire PROVE stored'[day[q]] = q \/ Told(q) \/ q \in dropped'
    <3>1. q \in Requests /\ day[q] \in Dates
      BY <1>1, <2>1 DEF TypeOK, DrawnOnly
    <3>2. stored[day[q]] = q \/ Told(q) \/ q \in dropped
      BY <2>1 DEF IInv, RecordKeptWithoutDeploy, RecordKeptUntilKnown
    <3>3. QED
      BY <1>2, <1>3, <3>1, <3>2
  <2>2. QED
    BY <2>1 DEF RecordKeptWithoutDeploy, RecordKeptUntilKnown, Told, Discard
<1>14. Decided' /\ ResultsAreReceipts' /\ ErrorsNeverAppliedWithoutDeploy'
  BY DEF IInv, Decided, ResultsAreReceipts, ErrorsNeverAppliedWithoutDeploy, ErrorsNeverApplied,
       Discard, TypeOK, pageVars, serverVars
<1>15. QED
  BY <1>6, <1>7, <1>8, <1>9, <1>10, <1>11, <1>12, <1>13, <1>14 DEF IInv

\* A reload reads the record back.
LEMMA ReloadSafe == ASSUME IInv, Reload PROVE IInv'
<1>1. TypeOK /\ DaysMatch /\ PendingStored /\ LiveStored /\ NotDropped /\ ShownForgotten
  BY DEF IInv
<1>2. TypeOK'
  BY <1>1, ClientAssumption DEF IInv, TypeOK, Reload, NoRun
<1>3. DaysMatch'
  BY <1>1, ClientAssumption DEF IInv, DaysMatch, Busy, Reload, TypeOK, NoRun
<1>4. PendingStored'
  BY <1>1, ClientAssumption DEF IInv, PendingStored, Reload, TypeOK, NoRun
<1>5. LiveStored'
  BY <1>1, ClientAssumption DEF IInv, LiveStored, Busy, Reload, TypeOK, NoRun
<1>6. ShownForgotten'
  BY <1>1, ClientAssumption DEF IInv, ShownForgotten, ThreadIsOwn, Reload, TypeOK, NoRun
<1>7. ResultsAreReceipts'
  BY <1>1, ClientAssumption DEF IInv, ResultsAreReceipts, Reload, TypeOK, NoRun
<1>8. ErrorsNeverAppliedWithoutDeploy'
  BY <1>1, ClientAssumption DEF IInv, ErrorsNeverAppliedWithoutDeploy, ErrorsNeverApplied,
       Reload, TypeOK, NoRun
<1>9. Decided' /\ DrawnOnly' /\ NotDropped' /\ RecordKeptWithoutDeploy'
  BY DEF IInv, Decided, DrawnOnly, NotDropped, RecordKeptWithoutDeploy, RecordKeptUntilKnown,
       Told, Reload, TypeOK, NoRun, pageVars, serverVars
<1>10. QED
  BY <1>2, <1>3, <1>4, <1>5, <1>6, <1>7, <1>8, <1>9 DEF IInv

\* The end of a session gives all records up.
LEMMA EndSessionSafe == ASSUME IInv, EndSession PROVE IInv'
<1>1. TypeOK /\ DaysMatch /\ DrawnOnly
  BY DEF IInv
<1>2. TypeOK'
  BY <1>1, ClientAssumption DEF IInv, TypeOK, EndSession
<1>3. DaysMatch'
  BY <1>1, ClientAssumption DEF IInv, DaysMatch, Busy, EndSession, TypeOK
<1>4. DrawnOnly'
  <2>1. ASSUME NEW r \in Requests, NEW d \in Dates, stored[d] = r PROVE day[r] # None
    BY <1>1, <2>1, ClientAssumption DEF DaysMatch
  <2>2. QED
    BY <1>1, <2>1 DEF DrawnOnly, EndSession
<1>5. PendingStored'
  BY <1>1, ClientAssumption DEF IInv, PendingStored, EndSession, TypeOK
<1>6. LiveStored'
  BY <1>1, ClientAssumption DEF IInv, LiveStored, Busy, EndSession, TypeOK
<1>7. NotDropped'
  BY <1>1, ClientAssumption DEF IInv, NotDropped, EndSession, TypeOK
<1>8. ShownForgotten'
  BY <1>1, ClientAssumption DEF IInv, ShownForgotten, ThreadIsOwn, EndSession, TypeOK
<1>9. ResultsAreReceipts'
  BY <1>1, ClientAssumption DEF IInv, ResultsAreReceipts, EndSession, TypeOK
<1>10. RecordKeptWithoutDeploy'
  <2>1. ASSUME release = 0, NEW q \in wire PROVE Told(q) \/ q \in dropped'
    <3>1. q \in Requests /\ day[q] \in Dates
      BY <1>1, <2>1 DEF TypeOK, DrawnOnly
    <3>2. stored[day[q]] = q \/ Told(q) \/ q \in dropped
      BY <2>1 DEF IInv, RecordKeptWithoutDeploy, RecordKeptUntilKnown
    <3>3. QED
      BY <3>1, <3>2 DEF EndSession
  <2>2. QED
    BY <2>1 DEF RecordKeptWithoutDeploy, RecordKeptUntilKnown, Told, EndSession
<1>11. ErrorsNeverAppliedWithoutDeploy'
  BY <1>1, ClientAssumption DEF IInv, ErrorsNeverAppliedWithoutDeploy, ErrorsNeverApplied,
       EndSession, TypeOK
<1>12. Decided'
  BY DEF IInv, Decided, EndSession, TypeOK, pageVars, serverVars
<1>13. QED
  BY <1>2, <1>3, <1>4, <1>5, <1>6, <1>7, <1>8, <1>9, <1>10, <1>11, <1>12 DEF IInv

LEMMA StepIInv == IInv /\ [Next]_vars => IInv'
<1>1. SUFFICES ASSUME IInv, [Next]_vars PROVE IInv'
  OBVIOUS
<1>2. ASSUME NEW r \in Requests, ServerDecides(r) \/ Submit(r) PROVE IInv'
  BY <1>1, <1>2, ServerDecidesSafe, SubmitSafe
<1>3. ASSUME NEW d \in Dates, Reply(d) \/ SetActiveDate(d) PROVE IInv'
  BY <1>1, <1>3, ReceiveReceiptSafe, RetrySafe, UnconfirmedSafe, RefusedSafe, SetActiveDateSafe
       DEF Reply
<1>4. CASE Recover \/ ClearThread \/ Discard \/ Reload \/ EndSession
  BY <1>1, <1>4, RecoverSafe, ClearThreadSafe, DiscardSafe, ReloadSafe, EndSessionSafe
<1>5. CASE Deploy
  BY <1>1, <1>5, DeploySafe
<1>6. CASE UNCHANGED vars
  BY <1>1, <1>6 DEF vars, IInv, TypeOK, Decided, DaysMatch, Busy, DrawnOnly, PendingStored,
       LiveStored, NotDropped, ShownForgotten, ThreadIsOwn, ResultsAreReceipts,
       RecordKeptWithoutDeploy, RecordKeptUntilKnown, Told, ErrorsNeverAppliedWithoutDeploy,
       ErrorsNeverApplied
<1>7. QED
  BY <1>1, <1>2, <1>3, <1>4, <1>5, <1>6 DEF Next

THEOREM Inductive == Spec => []IInv
BY InitIInv, StepIInv, PTL DEF Spec

-----------------------------------------------------------------------------
(* The theorems *)

\* Records, turns, bubbles and releases keep their types.
THEOREM TypeCorrect == Spec => []TypeOK
<1>1. IInv => TypeOK
  BY DEF IInv
<1>2. QED
  BY <1>1, Inductive, PTL

\* While nothing is deployed, the record of a request that may take effect stays until its
\* outcome is known or the user gives it up, through reloads, retries and changes of the day
\* (chatRequestRecovery.ts).
THEOREM RecordKept == Spec => []RecordKeptWithoutDeploy
<1>1. IInv => RecordKeptWithoutDeploy
  BY DEF IInv
<1>2. QED
  BY <1>1, Inductive, PTL

\* The thread shows replies of its own day, successes with receipts only and, while nothing
\* is deployed, errors only for what was never applied (executeTurn).
THEOREM ThreadCorrect == Spec => []ThreadIsTrue
<1>1. IInv => ThreadIsTrue
  BY DEF IInv, ShownForgotten, ErrorsNeverAppliedWithoutDeploy, ThreadIsTrue
<1>2. QED
  BY <1>1, Inductive, PTL

\* While nothing is deployed, no turn is sent behind an undecided one of its day (submitTurn).
THEOREM OneTurnAtATime == Spec => OneOpenTurn
<1>1. ASSUME IInv, [Next]_vars, release = 0, NEW r1 \in Requests, NEW r2 \in Requests,
             day[r1] = None, day'[r1] # None, day[r2] = day'[r1], r2 \in wire
      PROVE  Told(r2) \/ r2 \in dropped
  <2>1. Submit(r1)
    <3>1. ASSUME NEW r \in Requests, Submit(r) PROVE r = r1
      BY <1>1, <3>1 DEF Submit, IInv, TypeOK
    <3>2. PICK r \in Requests : Submit(r)
      BY <1>1 DEF Next, vars, ServerDecides, Deploy, Reply, ReceiveReceipt, Retry, Unconfirmed,
           Refused, SetActiveDate, Recover, ClearThread, Discard, Reload, EndSession, pageVars
    <3>3. QED
      BY <3>1, <3>2
  <2>2. stored[active] = None
    BY <1>1, <2>1, NoRecord DEF IInv, Submit, MayStart
  <2>3. day'[r1] = active
    BY <1>1, <2>1 DEF Submit, IInv, TypeOK
  <2>4. QED
    BY <1>1, <2>2, <2>3, ClientAssumption DEF IInv, RecordKeptWithoutDeploy,
         RecordKeptUntilKnown
<1>2. IInv /\ [Next]_vars => [release = 0 => NoTurnBehind]_vars
  BY <1>1 DEF NoTurnBehind
<1>3. QED
  BY <1>2, Inductive, PTL DEF Spec, OneOpenTurn
=============================================================================

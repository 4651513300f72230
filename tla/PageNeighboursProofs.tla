------------------------- MODULE PageNeighboursProofs -------------------------
(***************************************************************************)
(* What the neighbours of the page guarantee for every number of requests, *)
(* days, zones, tasks and accounts.  Two of them stand alone: what becomes *)
(* of the refresh token of a Google account, for every number of           *)
(* concurrent reads, of rotations, and of disconnects and consents between *)
(* them; and the focus window, for every number of accounts and of calls   *)
(* under way, and every interleaving of the browser's answers with hiding, *)
(* reloads, logins and logouts.  The rate limiter, the import dialog, the  *)
(* account on the settings page, the lists on the schedule page, the lists *)
(* the server caches and the lists a user keeps on the settings page have  *)
(* an invariant each; then what that says of all of them side by side.     *)
(***************************************************************************)
EXTENDS PageNeighbours, FiniteSetTheorems, TLAPS

-----------------------------------------------------------------------------
(* The refresh token *)

RowRecords == [id : Nat, version : Nat, refresh : Nat, fresh : BOOLEAN]

\* None is no number and no row.
Distinct == Nil \notin Nat /\ Nil \notin RowRecords

\* The read knows a row, or brings a token to it.
Holds(r) == Tokens!InPhase(r, "loaded") \/ Tokens!InPhase(r, "refreshed")

Brings(r) == Tokens!InPhase(r, "refreshed") /\ eventRead[r].rotated # Nil

\* Rows, reads and tokens as far as the argument needs them; what was not drawn yet is
\* nowhere.
Shape ==
    /\ eventRead = [r \in Reads |-> eventRead[r]]
    /\ drawn \in Nat /\ token \in Nat
    /\ accepted \subseteq 0..token
    /\ row # Nil => row \in RowRecords /\ row.refresh <= token
    /\ \A r \in Reads :
          /\ Holds(r) => eventRead[r].row \in RowRecords /\ eventRead[r].row.refresh <= token
          /\ Brings(r) => eventRead[r].rotated \in accepted

\* A token on its way to the row is nobody else's.
Apart ==
    \A r \in Reads : Brings(r) =>
        /\ row # Nil => row.refresh # eventRead[r].rotated
        /\ \A q \in Reads : Holds(q) => eventRead[q].row.refresh # eventRead[r].rotated
        /\ \A q \in Reads : Brings(q) /\ eventRead[q].rotated = eventRead[r].rotated => q = r

\* A refresh token belongs to one row: another consent comes with another token.
OneRow ==
    \A r \in Reads : Holds(r) /\ row # Nil /\ row.refresh = eventRead[r].row.refresh
        => row.id = eventRead[r].row.id

IInv == Shape /\ Apart /\ OneRow /\ Tokens!StoredTokenAccepted

-----------------------------------------------------------------------------
(* The invariant *)

LEMMA InitIInv == Distinct /\ Tokens!Init => IInv
<1>1. SUFFICES ASSUME Distinct, Tokens!Init PROVE IInv
  OBVIOUS
<1>2. \A r \in Reads : ~Holds(r) /\ ~Brings(r)
  BY <1>1 DEF Tokens!Init, Holds, Brings, Tokens!InPhase, Tokens!Idle
<1>3. Shape
  BY <1>1, <1>2 DEF Tokens!Init, Shape
<1>4. QED
  BY <1>1, <1>2, <1>3 DEF Tokens!Init, IInv, Apart, OneRow, Tokens!StoredTokenAccepted

LEMMA Becomes ==
    ASSUME Shape, NEW r \in Reads, NEW state, Tokens!Become(r, state)
    PROVE  /\ eventRead'[r] = state
           /\ \A q \in Reads : q # r => eventRead'[q] = eventRead[q]
           /\ eventRead' = [q \in Reads |-> eventRead'[q]]
BY DEF Shape, Tokens!Become

\* Nothing moves that a token could be lost by.
LEMMA SessionSafe ==
    ASSUME IInv, UNCHANGED <<row, token, accepted, eventRead, lost>>, drawn' \in Nat
    PROVE  IInv'
<1>1. \A r \in Reads : (Holds(r)' <=> Holds(r)) /\ (Brings(r)' <=> Brings(r))
                        /\ (Tokens!Carries(r)' <=> Tokens!Carries(r))
  BY DEF Holds, Brings, Tokens!Carries, Tokens!InPhase, Tokens!Mine
<1>2. Shape'
  BY <1>1 DEF IInv, Shape
<1>3. Apart' /\ OneRow'
  BY <1>1 DEF IInv, Apart, OneRow
<1>4. Tokens!StoredTokenAccepted'
  BY <1>1 DEF IInv, Tokens!StoredTokenAccepted
<1>5. QED
  BY <1>2, <1>3, <1>4 DEF IInv

LEMMA DisconnectSafe == ASSUME Distinct, IInv, Tokens!Disconnect PROVE IInv'
<1>1. \A r \in Reads : (Holds(r)' <=> Holds(r)) /\ (Brings(r)' <=> Brings(r))
  BY DEF Holds, Brings, Tokens!InPhase, Tokens!Disconnect
<1>2. Shape'
  BY <1>1 DEF IInv, Shape, Tokens!Disconnect
<1>3. Apart' /\ OneRow' /\ Tokens!StoredTokenAccepted'
  BY <1>1 DEF IInv, Apart, OneRow, Tokens!StoredTokenAccepted, Tokens!Disconnect
<1>4. QED
  BY <1>2, <1>3 DEF IInv

LEMMA ExpireSafe == ASSUME Distinct, IInv, Tokens!Expire PROVE IInv'
<1>1. /\ row # Nil /\ row' \in RowRecords
      /\ row'.refresh = row.refresh /\ row'.id = row.id
  BY DEF IInv, Shape, RowRecords, Tokens!Expire
<1>2. row' # Nil
  BY <1>1 DEF Distinct, RowRecords
<1>3. \A r \in Reads : (Holds(r)' <=> Holds(r)) /\ (Brings(r)' <=> Brings(r))
                        /\ (Tokens!Carries(r)' <=> Tokens!Carries(r))
  BY <1>1, <1>2 DEF Holds, Brings, Tokens!Carries, Tokens!InPhase, Tokens!Mine, Tokens!Expire
<1>4. Shape'
  BY <1>1, <1>3 DEF IInv, Shape, Tokens!Expire
<1>5. Apart' /\ OneRow'
  BY <1>1, <1>3 DEF IInv, Apart, OneRow, Tokens!Expire
<1>6. Tokens!StoredTokenAccepted'
  BY <1>1, <1>3 DEF IInv, Tokens!StoredTokenAccepted, Tokens!Expire
<1>7. QED
  BY <1>4, <1>5, <1>6 DEF IInv

\* A consent brings a token nobody has seen.
LEMMA CallbackSafe == ASSUME Distinct, IInv, Tokens!Callback PROVE IInv'
<1>1. /\ token' = token + 1 /\ token \in Nat
      /\ row' \in RowRecords /\ row'.refresh = token + 1
      /\ accepted' = accepted \union {token + 1}
  BY DEF IInv, Shape, RowRecords, Tokens!Callback
<1>2. \A r \in Reads : (Holds(r)' <=> Holds(r)) /\ (Brings(r)' <=> Brings(r)) /\ eventRead'[r] = eventRead[r]
  BY DEF Holds, Brings, Tokens!InPhase, Tokens!Callback
<1>3. \A r \in Reads : Holds(r) => eventRead[r].row.refresh <= token /\ eventRead[r].row.refresh \in Nat
  BY DEF IInv, Shape, RowRecords
<1>4. \A r \in Reads : Brings(r) => eventRead[r].rotated \in 0..token
  BY DEF IInv, Shape
<1>5. Shape'
  <2>1. accepted' \subseteq 0..token'
    BY <1>1 DEF IInv, Shape
  <2>2. drawn' \in Nat /\ eventRead' = [r \in Reads |-> eventRead'[r]]
    BY DEF IInv, Shape, Tokens!Callback
  <2>3. QED
    BY <1>1, <1>2, <1>3, <2>1, <2>2 DEF IInv, Shape
<1>6. Apart'
  BY <1>1, <1>2, <1>4 DEF IInv, Apart
<1>7. OneRow'
  BY <1>1, <1>2, <1>3 DEF OneRow
<1>8. Tokens!StoredTokenAccepted'
  BY <1>1 DEF Tokens!StoredTokenAccepted
<1>9. QED
  BY <1>5, <1>6, <1>7, <1>8 DEF IInv

-----------------------------------------------------------------------------
(* The steps of a read *)

\* A read that brings nothing goes on, with the row it knew, the present one, or none.
LEMMA QuietSafe ==
    ASSUME Distinct, IInv, NEW r \in Reads, ~Brings(r),
           UNCHANGED <<row, drawn, token, accepted, lost>>,
           NEW state, Tokens!Become(r, state), ~Brings(r)',
           Holds(r)' => state.row \in {row} \/ (Holds(r) /\ state.row = eventRead[r].row),
           Holds(r)' => state.row # Nil
    PROVE  IInv'
<1>1. /\ eventRead'[r] = state
      /\ \A q \in Reads : q # r => eventRead'[q] = eventRead[q]
      /\ eventRead' = [q \in Reads |-> eventRead'[q]]
  BY Becomes DEF IInv
<1>2. \A q \in Reads : q # r => (Holds(q)' <=> Holds(q)) /\ (Brings(q)' <=> Brings(q))
                                 /\ (Tokens!Carries(q)' <=> Tokens!Carries(q))
  BY <1>1 DEF Holds, Brings, Tokens!Carries, Tokens!InPhase, Tokens!Mine
<1>3. Holds(r)' => /\ state.row \in RowRecords /\ state.row.refresh <= token
                   /\ \A q \in Reads : Brings(q) => state.row.refresh # eventRead[q].rotated
                   /\ row # Nil /\ row.refresh = state.row.refresh => row.id = state.row.id
  BY DEF IInv, Shape, Apart, OneRow
<1>4. Shape'
  BY <1>1, <1>2, <1>3 DEF IInv, Shape
<1>5. Apart'
  BY <1>1, <1>2, <1>3 DEF IInv, Apart
<1>6. OneRow'
  BY <1>1, <1>2, <1>3 DEF IInv, OneRow
<1>7. ~Tokens!Carries(r)
  BY DEF Distinct, IInv, Shape, Tokens!Carries, Brings
<1>8. Tokens!StoredTokenAccepted'
  BY <1>2, <1>7 DEF IInv, Tokens!StoredTokenAccepted
<1>9. QED
  BY <1>4, <1>5, <1>6, <1>8 DEF IInv

LEMMA StartReadSafe == ASSUME Distinct, IInv, NEW r \in Reads, Tokens!StartRead(r) PROVE IInv'
<1>1. PICK state \in {Tokens!Idle, [phase |-> "loaded", row |-> row]} : Tokens!Become(r, state)
  BY DEF Tokens!StartRead
<1>2. eventRead'[r] = state /\ row # Nil
  BY <1>1, Becomes DEF IInv, Tokens!StartRead
<1>3. ~Brings(r) /\ ~Brings(r)' /\ (Holds(r)' => state.row = row)
  BY <1>2 DEF Tokens!StartRead, Tokens!Free, Brings, Holds, Tokens!InPhase, Tokens!Idle
<1>4. UNCHANGED <<row, drawn, token, accepted, lost>>
  BY DEF Tokens!StartRead
<1>5. QED
  BY <1>1, <1>2, <1>3, <1>4, QuietSafe

LEMMA UseCachedSafe == ASSUME Distinct, IInv, NEW r \in Reads, Tokens!UseCached(r) PROVE IInv'
<1>1. PICK state : Tokens!Become(r, state) /\ state.phase = "ensured"
  BY DEF Tokens!UseCached, Tokens!Ensured
<1>2. eventRead'[r] = state
  BY <1>1, Becomes DEF IInv
<1>3. ~Brings(r) /\ ~Brings(r)' /\ ~Holds(r)'
  BY <1>1, <1>2 DEF Tokens!UseCached, Brings, Holds, Tokens!InPhase
<1>4. UNCHANGED <<row, drawn, token, accepted, lost>>
  BY DEF Tokens!UseCached
<1>5. QED
  BY <1>1, <1>3, <1>4, QuietSafe

LEMMA RefreshSafe == ASSUME Distinct, IInv, NEW r \in Reads, Tokens!Refresh(r) PROVE IInv'
<1>1. PICK state : Tokens!Become(r, state) /\ state = Tokens!Refreshed(eventRead[r], Nil)
  BY DEF Tokens!Refresh
<1>2. eventRead'[r] = state /\ state.row = eventRead[r].row /\ state.rotated = Nil
  BY <1>1, Becomes DEF IInv, Tokens!Refreshed
<1>3. ~Brings(r) /\ ~Brings(r)' /\ Holds(r) /\ eventRead[r].row # Nil
  BY <1>2 DEF Tokens!Refresh, Brings, Holds, Tokens!InPhase, IInv, Shape, Distinct, RowRecords
<1>4. UNCHANGED <<row, drawn, token, accepted, lost>>
  BY DEF Tokens!Refresh
<1>5. QED
  BY <1>1, <1>2, <1>3, <1>4, QuietSafe

LEMMA StoreSafe == ASSUME Distinct, IInv, NEW r \in Reads, Tokens!Store(r) PROVE IInv'
<1>1. PICK state : Tokens!Become(r, state) /\ state.phase = "stored"
  BY DEF Tokens!Store
<1>2. eventRead'[r] = state
  BY <1>1, Becomes DEF IInv
<1>3. ~Brings(r) /\ ~Brings(r)' /\ ~Holds(r)'
  BY <1>1, <1>2 DEF Tokens!Store, Brings, Holds, Tokens!InPhase
<1>4. UNCHANGED <<row, drawn, token, accepted, lost>>
  BY DEF Tokens!Store
<1>5. QED
  BY <1>1, <1>3, <1>4, QuietSafe

LEMMA ReuseSafe == ASSUME Distinct, IInv, NEW r \in Reads, Tokens!Reuse(r) PROVE IInv'
<1>1. PICK state : Tokens!Become(r, state) /\ state.phase = "ensured"
  BY DEF Tokens!Reuse, Tokens!Ensured
<1>2. eventRead'[r] = state
  BY <1>1, Becomes DEF IInv
<1>3. ~Brings(r) /\ ~Brings(r)' /\ ~Holds(r)'
  BY <1>1, <1>2 DEF Tokens!Reuse, Tokens!AlreadyFresh, Brings, Holds, Tokens!InPhase
<1>4. UNCHANGED <<row, drawn, token, accepted, lost>>
  BY DEF Tokens!Reuse
<1>5. QED
  BY <1>1, <1>3, <1>4, QuietSafe

\* Google draws a token nobody has seen; the one it drops was of the reader's row, and
\* if that is still the stored one, the reader brings its successor.
LEMMA RotateSafe == ASSUME Distinct, IInv, NEW r \in Reads, Tokens!Rotate(r) PROVE IInv'
<1>1. PICK gone \in SUBSET {eventRead[r].row.refresh} : accepted' = (accepted \ gone) \union {token + 1}
  BY DEF Tokens!Rotate
<1>2. /\ token' = token + 1 /\ token \in Nat
      /\ Tokens!InPhase(r, "loaded") /\ Holds(r) /\ ~Brings(r)
      /\ UNCHANGED <<row, drawn, lost>>
  BY DEF Tokens!Rotate, IInv, Shape, Holds, Brings, Tokens!InPhase
<1>3. /\ eventRead'[r] = Tokens!Refreshed(eventRead[r], token + 1)
      /\ \A q \in Reads : q # r => eventRead'[q] = eventRead[q]
      /\ eventRead' = [q \in Reads |-> eventRead'[q]]
  BY Becomes DEF IInv, Tokens!Rotate
<1>4. /\ eventRead'[r].phase = "refreshed" /\ eventRead'[r].row = eventRead[r].row
      /\ eventRead'[r].rotated = token + 1
  BY <1>3 DEF Tokens!Refreshed
<1>5. Holds(r)' /\ Brings(r)'
  BY <1>2, <1>4 DEF Distinct, Holds, Brings, Tokens!InPhase
<1>6. \A q \in Reads : q # r => (Holds(q)' <=> Holds(q)) /\ (Brings(q)' <=> Brings(q))
  BY <1>3 DEF Holds, Brings, Tokens!InPhase
<1>7. \A q \in Reads : Holds(q) => /\ eventRead[q].row \in RowRecords
                                   /\ eventRead[q].row.refresh <= token /\ eventRead[q].row.refresh \in Nat
  BY DEF IInv, Shape, RowRecords
<1>8. \A q \in Reads : Brings(q) =>
          /\ eventRead[q].rotated \in 0..token
          /\ eventRead[q].rotated \in accepted
          /\ eventRead[q].rotated # eventRead[r].row.refresh
  BY <1>2 DEF IInv, Shape, Apart
<1>9. row # Nil => row \in RowRecords /\ row.refresh \in Nat /\ row.refresh <= token
  BY DEF IInv, Shape, RowRecords
<1>10. Shape'
  <2>1. accepted' \subseteq 0..token'
    BY <1>1, <1>2 DEF IInv, Shape
  <2>2. row' # Nil => row' \in RowRecords /\ row'.refresh <= token'
    BY <1>2, <1>9
  <2>3. ASSUME NEW q \in Reads
        PROVE  /\ Holds(q)' => eventRead'[q].row \in RowRecords /\ eventRead'[q].row.refresh <= token'
               /\ Brings(q)' => eventRead'[q].rotated \in accepted'
    BY <1>1, <1>2, <1>3, <1>4, <1>6, <1>7, <1>8
  <2>4. QED
    BY <1>2, <1>3, <2>1, <2>2, <2>3 DEF IInv, Shape
<1>11. Apart'
  <2>1. ASSUME NEW q \in Reads, Brings(q)'
        PROVE  /\ row' # Nil => row'.refresh # eventRead'[q].rotated
               /\ \A p \in Reads : Holds(p)' => eventRead'[p].row.refresh # eventRead'[q].rotated
               /\ \A p \in Reads : Brings(p)' /\ eventRead'[p].rotated = eventRead'[q].rotated => p = q
    <3>1. CASE q = r
      BY <1>2, <1>3, <1>4, <1>6, <1>7, <1>8, <1>9, <3>1
    <3>2. CASE q # r
      BY <1>2, <1>3, <1>4, <1>6, <1>8, <2>1, <3>2 DEF IInv, Apart
    <3>3. QED
      BY <3>1, <3>2
  <2>2. QED
    BY <2>1 DEF Apart
<1>12. OneRow'
  BY <1>2, <1>3, <1>4, <1>6 DEF IInv, OneRow
<1>13. Tokens!StoredTokenAccepted'
  <2>1. SUFFICES ASSUME row # Nil, ~lost
                 PROVE  row.refresh \in accepted' \/ \E q \in Reads : Tokens!Carries(q)'
    BY <1>2 DEF Tokens!StoredTokenAccepted
  <2>2. CASE row.refresh \in accepted /\ row.refresh # eventRead[r].row.refresh
    BY <1>1, <2>2
  <2>3. CASE row.refresh = eventRead[r].row.refresh
    <3>1. row.id = eventRead[r].row.id
      BY <1>2, <2>1, <2>3 DEF IInv, OneRow
    <3>2. Tokens!Carries(r)'
      BY <1>1, <1>2, <1>4, <2>1, <3>1 DEF Tokens!Carries, Tokens!InPhase, Tokens!Mine
    <3>3. QED
      BY <3>2
  <2>4. CASE row.refresh \notin accepted
    <3>1. PICK q \in Reads : Tokens!Carries(q)
      BY <2>1, <2>4 DEF IInv, Tokens!StoredTokenAccepted
    <3>2. q # r /\ Brings(q)
      BY <1>2, <3>1 DEF Tokens!Carries, Brings, Tokens!InPhase, Distinct, IInv, Shape
    <3>3. Tokens!Carries(q)'
      BY <1>1, <1>2, <1>3, <1>8, <3>1, <3>2 DEF Tokens!Carries, Tokens!InPhase, Tokens!Mine
    <3>4. QED
      BY <3>3
  <2>5. QED
    BY <2>2, <2>3, <2>4
<1>14. QED
  BY <1>10, <1>11, <1>12, <1>13 DEF IInv

\* A read that ends takes along what it brings; a row that was deleted needs it no more.
LEMMA EndSafe ==
    ASSUME Distinct, IInv, NEW r \in Reads, Tokens!GiveUp(r) \/ Tokens!RowGone(r)
    PROVE  IInv'
<1>1. /\ Tokens!Become(r, Tokens!Idle) /\ UNCHANGED <<row, drawn, token, accepted>>
      /\ lost \in BOOLEAN => lost' \in BOOLEAN
  BY DEF Tokens!GiveUp, Tokens!RowGone
<1>2. /\ eventRead'[r] = Tokens!Idle
      /\ \A q \in Reads : q # r => eventRead'[q] = eventRead[q]
      /\ eventRead' = [q \in Reads |-> eventRead'[q]]
  BY <1>1, Becomes DEF IInv
<1>3. ~Holds(r)' /\ ~Brings(r)'
  BY <1>2 DEF Holds, Brings, Tokens!InPhase, Tokens!Idle
<1>4. \A q \in Reads : q # r => (Holds(q)' <=> Holds(q)) /\ (Brings(q)' <=> Brings(q))
                                 /\ (Tokens!Carries(q)' <=> Tokens!Carries(q))
  BY <1>1, <1>2 DEF Holds, Brings, Tokens!Carries, Tokens!InPhase, Tokens!Mine
<1>5. Shape' /\ Apart' /\ OneRow'
  BY <1>1, <1>2, <1>3, <1>4 DEF IInv, Shape, Apart, OneRow
<1>6. Tokens!Carries(r) => Brings(r) /\ Tokens!Mine(r)
  BY DEF Tokens!Carries, Brings, Distinct, IInv, Shape
<1>7. ~lost' => ~lost /\ ~Tokens!Carries(r)
  BY <1>6 DEF Tokens!GiveUp, Tokens!RowGone, Brings
<1>8. Tokens!StoredTokenAccepted'
  BY <1>1, <1>4, <1>7 DEF IInv, Tokens!StoredTokenAccepted
<1>9. QED
  BY <1>5, <1>8 DEF IInv

\* The row takes the token that was brought, or keeps its own.
LEMMA PersistSafe == ASSUME Distinct, IInv, NEW r \in Reads, Tokens!Persist(r) PROVE IInv'
<1>1. /\ Tokens!InPhase(r, "refreshed") /\ Tokens!Mine(r) /\ row # Nil /\ Holds(r)
      /\ UNCHANGED <<token, accepted, lost>>
      /\ drawn' = drawn + 1
  BY DEF Tokens!Persist, Tokens!Mine, Holds
<1>2. /\ row' \in RowRecords /\ row'.id = row.id
      /\ row'.refresh = IF Brings(r) THEN eventRead[r].rotated ELSE row.refresh
      /\ row'.refresh <= token
  <2>1. /\ row \in RowRecords /\ row.refresh <= token /\ drawn + 1 \in Nat
        /\ Brings(r) => eventRead[r].rotated \in Nat /\ eventRead[r].rotated <= token
    BY <1>1 DEF IInv, Shape
  <2>2. Brings(r) <=> eventRead[r].rotated # Nil
    BY <1>1 DEF Brings
  <2>3. QED
    BY <2>1, <2>2 DEF Tokens!Persist, RowRecords
<1>3. row' # Nil
  BY <1>2 DEF Distinct, RowRecords
<1>4. PICK state : Tokens!Become(r, state) /\ state.phase = "ensured"
  BY DEF Tokens!Persist, Tokens!Ensured
<1>5. /\ eventRead'[r] = state
      /\ \A q \in Reads : q # r => eventRead'[q] = eventRead[q]
      /\ eventRead' = [q \in Reads |-> eventRead'[q]]
  BY <1>4, Becomes DEF IInv
<1>6. ~Holds(r)' /\ ~Brings(r)'
  BY <1>4, <1>5 DEF Holds, Brings, Tokens!InPhase
<1>7. \A q \in Reads : q # r => (Holds(q)' <=> Holds(q)) /\ (Brings(q)' <=> Brings(q))
                                 /\ (Tokens!Carries(q)' <=> Tokens!Carries(q))
  BY <1>1, <1>2, <1>3, <1>5 DEF Holds, Brings, Tokens!Carries, Tokens!InPhase, Tokens!Mine
<1>8. Shape'
  BY <1>1, <1>2, <1>5, <1>6, <1>7 DEF IInv, Shape
<1>9. Apart'
  BY <1>1, <1>2, <1>5, <1>6, <1>7 DEF IInv, Apart
<1>10. OneRow'
  BY <1>1, <1>2, <1>5, <1>6, <1>7 DEF IInv, OneRow, Apart
<1>11. Tokens!StoredTokenAccepted'
  <2>1. CASE Brings(r)
    BY <1>1, <1>2, <2>1 DEF IInv, Shape, Tokens!StoredTokenAccepted
  <2>2. CASE ~Brings(r)
    <3>1. ~Tokens!Carries(r)
      BY <2>2 DEF Tokens!Carries, Brings, Distinct, IInv, Shape
    <3>2. QED
      BY <1>1, <1>2, <1>7, <2>2, <3>1 DEF IInv, Tokens!StoredTokenAccepted
  <2>3. QED
    BY <2>1, <2>2
<1>12. QED
  BY <1>8, <1>9, <1>10, <1>11 DEF IInv

LEMMA Step == ASSUME Distinct, IInv, [Tokens!Next]_Tokens!vars PROVE IInv'
<1>1. CASE Tokens!Connect \/ Tokens!CallbackFails \/ UNCHANGED Tokens!vars
  BY <1>1, SessionSafe DEF Tokens!Connect, Tokens!CallbackFails, Tokens!vars, IInv, Shape
<1>2. QED
  BY <1>1, DisconnectSafe, ExpireSafe, CallbackSafe, StartReadSafe, UseCachedSafe, RefreshSafe,
     StoreSafe, ReuseSafe, RotateSafe, EndSafe, PersistSafe DEF Tokens!Next

-----------------------------------------------------------------------------
(* Where answers are stored *)

\* A read stores its answer under the version it ensured the token with.
Addressed ==
    /\ eventRead = [r \in Reads |-> eventRead[r]]
    /\ \A r \in Reads : Tokens!InPhase(r, "ensured") => eventRead[r].version = eventRead[r].since
    /\ \A r \in Reads : Tokens!InPhase(r, "stored") => Tokens!KeyOf(eventRead[r].id, eventRead[r].since) \in eventCache

LEMMA AddressedReachable == Addressed => Tokens!AnswerReachable
BY DEF Addressed, Tokens!AnswerReachable

\* One read goes on to another phase than "stored", and what is cached stays.
LEMMA ReadMovesAddressed ==
    ASSUME Addressed, NEW r \in Reads, NEW state, Tokens!Become(r, state), eventCache' = eventCache,
           state.phase = "ensured" => state.version = state.since, state.phase # "stored"
    PROVE  Addressed'
<1>1. /\ eventRead'[r] = state
      /\ \A q \in Reads : q # r => eventRead'[q] = eventRead[q]
      /\ eventRead' = [q \in Reads |-> eventRead'[q]]
  BY DEF Addressed, Tokens!Become
<1>2. QED
  BY <1>1 DEF Addressed, Tokens!InPhase

LEMMA EnsuredAddressed ==
    ASSUME NEW id, NEW version
    PROVE  /\ Tokens!Ensured(id, version, version).phase = "ensured"
           /\ Tokens!Ensured(id, version, version).version = Tokens!Ensured(id, version, version).since
BY DEF Tokens!Ensured

LEMMA StoreAddressed == ASSUME Addressed, NEW r \in Reads, Tokens!Store(r) PROVE Addressed'
<1>1. PICK state : state = [phase |-> "stored", id |-> eventRead[r].id, since |-> eventRead[r].since]
  OBVIOUS
<1>2. /\ Tokens!Become(r, state) /\ Tokens!InPhase(r, "ensured")
      /\ eventCache' = eventCache \union {Tokens!KeyOf(eventRead[r].id, eventRead[r].version)}
  BY <1>1 DEF Tokens!Store
<1>3. /\ eventRead'[r] = state
      /\ \A q \in Reads : q # r => eventRead'[q] = eventRead[q]
      /\ eventRead' = [q \in Reads |-> eventRead'[q]]
  BY <1>2 DEF Addressed, Tokens!Become
<1>4. Tokens!KeyOf(state.id, state.since) \in eventCache'
  BY <1>1, <1>2 DEF Addressed
<1>5. state.phase = "stored"
  BY <1>1
<1>6. QED
  BY <1>2, <1>3, <1>4, <1>5 DEF Addressed, Tokens!InPhase

LEMMA AddressedStep == ASSUME Addressed, [Tokens!Next]_Tokens!vars PROVE Addressed'
<1>1. CASE \/ Tokens!Connect \/ Tokens!Callback \/ Tokens!CallbackFails \/ Tokens!Disconnect \/ Tokens!Expire \/ UNCHANGED Tokens!vars
  BY <1>1 DEF Tokens!Connect, Tokens!Callback, Tokens!CallbackFails, Tokens!Disconnect, Tokens!Expire, Tokens!vars, Addressed, Tokens!InPhase
<1>2. ASSUME NEW r \in Reads, Tokens!StartRead(r) PROVE Addressed'
  <2>1. PICK state \in {Tokens!Idle, [phase |-> "loaded", row |-> row]} : Tokens!Become(r, state) /\ eventCache' = eventCache
    BY <1>2 DEF Tokens!StartRead
  <2>2. state.phase \in {"idle", "loaded"}
    BY DEF Tokens!Idle
  <2>3. QED
    BY <2>1, <2>2, ReadMovesAddressed
<1>3. ASSUME NEW r \in Reads, Tokens!UseCached(r) \/ Tokens!Reuse(r) \/ Tokens!Persist(r) PROVE Addressed'
  <2>1. PICK id, version : Tokens!Become(r, Tokens!Ensured(id, version, version)) /\ eventCache' = eventCache
    BY <1>3 DEF Tokens!UseCached, Tokens!Reuse, Tokens!Persist, Tokens!ReadVersion
  <2>2. PICK state : state = Tokens!Ensured(id, version, version)
    OBVIOUS
  <2>3. state.phase = "ensured" /\ state.version = state.since
    BY <2>2, EnsuredAddressed
  <2>4. QED
    BY <2>1, <2>2, <2>3, ReadMovesAddressed
<1>4. ASSUME NEW r \in Reads, Tokens!Refresh(r) \/ Tokens!Rotate(r) PROVE Addressed'
  <2>1. PICK state : Tokens!Become(r, state) /\ state.phase = "refreshed" /\ eventCache' = eventCache
    BY <1>4 DEF Tokens!Refresh, Tokens!Rotate, Tokens!Refreshed
  <2>2. QED
    BY <2>1, ReadMovesAddressed
<1>5. ASSUME NEW r \in Reads, Tokens!GiveUp(r) \/ Tokens!RowGone(r) PROVE Addressed'
  <2>1. Tokens!Become(r, Tokens!Idle) /\ eventCache' = eventCache /\ Tokens!Idle.phase = "idle"
    BY <1>5 DEF Tokens!GiveUp, Tokens!RowGone, Tokens!Idle
  <2>2. PICK state : state = Tokens!Idle
    OBVIOUS
  <2>3. QED
    BY <2>1, <2>2, ReadMovesAddressed
<1>6. QED
  BY <1>1, <1>2, <1>3, <1>4, <1>5, StoreAddressed DEF Tokens!Next

-----------------------------------------------------------------------------

LEMMA TokensInvariant == Distinct => (Tokens!Spec => [](IInv /\ Addressed))
<1>1. SUFFICES ASSUME Distinct PROVE Tokens!Spec => [](IInv /\ Addressed)
  OBVIOUS
<1>2. Tokens!Init => IInv /\ Addressed
  BY <1>1, InitIInv DEF Tokens!Init, Addressed, Tokens!InPhase, Tokens!Idle
<1>3. IInv /\ Addressed /\ [Tokens!Next]_Tokens!vars => IInv' /\ Addressed'
  BY <1>1, Step, AddressedStep
<1>4. QED
  BY <1>2, <1>3, PTL DEF Tokens!Spec

\* However many reads refresh the account at once and Google rotates its token, the row
\* keeps a token Google accepts, or a read is on its way to it with the successor, unless
\* a read died with it (_persist_refreshed_tokens).
THEOREM TokenKept == Distinct => (Tokens!Spec => []Tokens!StoredTokenAccepted)
<1>1. SUFFICES ASSUME Distinct PROVE Tokens!Spec => []Tokens!StoredTokenAccepted
  OBVIOUS
<1>2. IInv => Tokens!StoredTokenAccepted
  BY DEF IInv
<1>3. QED
  BY <1>1, <1>2, TokensInvariant, PTL

-----------------------------------------------------------------------------
(* The focus window *)

AskRecords == [epoch : 0..MaxEpoch, by : Users]
Windows == [call : Asks, by : Users]
Pages == [user : Users, generation : 0..MaxEpoch]

\* None is no user, no window, no call and no page.
FocusDistinct ==
    /\ MaxEpoch \in Nat
    /\ Nil \notin Users /\ Nil \notin AskRecords /\ Nil \notin Windows /\ Nil \notin Pages

\* A call waits with an epoch that has been; one that waits with the present epoch
\* was made for the present account, since every change of account ends the epoch.
AsksOfEpoch ==
    \A c \in Asks : ask[c] # Nil =>
        /\ ask[c].epoch <= epoch
        /\ ask[c].epoch = epoch => ask[c].by = user

\* A page that may still publish shows the present account, since every change of
\* account ends the generation; and it ends the epoch too.
PageOfGeneration ==
    /\ page # Nil /\ page.generation = generation => page.user = user
    /\ generation <= epoch

FocusInv ==
    /\ Focus!TypeOK
    /\ AsksOfEpoch
    /\ PageOfGeneration
    /\ Focus!NoOrphan
    /\ Focus!WaitsForOne
    /\ Focus!NothingOfOthers

-----------------------------------------------------------------------------
(* The invariant *)

LEMMA FocusInit == FocusDistinct /\ Focus!Init => FocusInv
<1>1. SUFFICES ASSUME FocusDistinct, Focus!Init PROVE FocusInv
  OBVIOUS
<1>2. Focus!TypeOK
  <2>1. intent \in BOOLEAN /\ storedShouldBeOpen \in BOOLEAN
    BY <1>1 DEF Focus!Init
  <2>2. epoch \in 0..MaxEpoch /\ generation \in 0..MaxEpoch
    BY <1>1 DEF FocusDistinct, Focus!Init
  <2>3. ask \in [Asks -> [epoch : 0..MaxEpoch, by : Users] \union {Nil}]
    BY <1>1 DEF Focus!Init
  <2>4. QED
    BY <1>1, <2>1, <2>2, <2>3 DEF Focus!Init, Focus!TypeOK
<1>3. AsksOfEpoch /\ PageOfGeneration
  BY <1>1 DEF Focus!Init, AsksOfEpoch, PageOfGeneration
<1>4. Focus!NoOrphan /\ Focus!NothingOfOthers
  BY <1>1 DEF Focus!Init, Focus!NoOrphan, Focus!NothingOfOthers, Focus!isOpen
<1>5. Focus!WaitsForOne
  BY <1>1 DEF Focus!Init, Focus!WaitsForOne
<1>6. QED
  BY <1>2, <1>3, <1>4, <1>5 DEF FocusInv

LEMMA FocusInvStep ==
    ASSUME FocusDistinct, FocusInv, [Focus!Next]_Focus!vars
    PROVE  FocusInv'
<1>1. ASSUME NEW c \in Asks, Focus!Open(c)
      PROVE  FocusInv'
  <2>1. Focus!TypeOK'
    BY <1>1 DEF FocusInv, Focus!Open, Focus!isOpen, Focus!copyVars, Focus!TypeOK, FocusDistinct,
                AskRecords, Windows, Pages,
                AsksOfEpoch, PageOfGeneration
  <2>2. AsksOfEpoch'
    BY <1>1 DEF FocusInv, Focus!Open, Focus!isOpen, Focus!copyVars, AsksOfEpoch, Focus!TypeOK,
                FocusDistinct, AskRecords
  <2>3. PageOfGeneration'
    BY <1>1 DEF FocusInv, Focus!Open, Focus!isOpen, Focus!copyVars, PageOfGeneration,
                Focus!TypeOK, FocusDistinct, Pages
  <2>4. Focus!NoOrphan'
    BY <1>1 DEF FocusInv, Focus!Open, Focus!isOpen, Focus!copyVars, Focus!NoOrphan,
                Focus!WaitsForOne, Focus!Current, Focus!TypeOK, FocusDistinct,
                Windows
  <2>5. Focus!WaitsForOne'
    BY <1>1 DEF FocusInv, Focus!Open, Focus!isOpen, Focus!copyVars, Focus!WaitsForOne,
                Focus!NoOrphan, Focus!Current, Focus!TypeOK,
                AsksOfEpoch, FocusDistinct, AskRecords, Windows
  <2>6. Focus!NothingOfOthers'
    BY <1>1 DEF FocusInv, Focus!Open, Focus!isOpen, Focus!copyVars, Focus!NothingOfOthers,
                Focus!NoOrphan, AsksOfEpoch,
                PageOfGeneration, Focus!TypeOK, FocusDistinct, Windows
  <2>7. QED
    BY <2>1, <2>2, <2>3, <2>4, <2>5, <2>6 DEF FocusInv
<1>2. ASSUME NEW c \in Asks, Focus!Adopt(c)
      PROVE  FocusInv'
  <2>1. Focus!TypeOK'
    <3>1. ask[c] \in AskRecords
      BY <1>2 DEF FocusInv, Focus!Adopt, Focus!Answered, Focus!TypeOK, AskRecords
    <3>2. pipWindow' \in Windows /\ openWindows' = openWindows \union {pipWindow'}
      BY <1>2, <3>1 DEF Focus!Adopt, AskRecords, Windows
    <3>3. ask' \in [Asks -> AskRecords \union {Nil}]
      BY <1>2 DEF FocusInv, Focus!Adopt, Focus!Answered, Focus!TypeOK, AskRecords
    <3>4. QED
      BY <1>2, <3>2, <3>3 DEF FocusInv, Focus!Adopt, Focus!TypeOK, AskRecords, Windows,
                              Focus!copyVars
  <2>2. AsksOfEpoch'
    BY <1>2 DEF FocusInv, Focus!Adopt, Focus!Answered, Focus!Current, Focus!copyVars, AsksOfEpoch,
                Focus!TypeOK, FocusDistinct,
                AskRecords
  <2>3. PageOfGeneration'
    BY <1>2 DEF FocusInv, Focus!Adopt, Focus!Answered, Focus!Current, Focus!copyVars,
                PageOfGeneration, Focus!TypeOK, FocusDistinct,
                Pages
  <2>4. Focus!NoOrphan'
    BY <1>2 DEF FocusInv, Focus!Adopt, Focus!Answered, Focus!Current, Focus!copyVars,
                Focus!NoOrphan, Focus!WaitsForOne, Focus!isOpen,
                Focus!TypeOK, FocusDistinct, Windows
  <2>5. Focus!WaitsForOne'
    BY <1>2 DEF FocusInv, Focus!Adopt, Focus!Answered, Focus!Current, Focus!copyVars,
                Focus!WaitsForOne, Focus!NoOrphan, Focus!isOpen,
                Focus!TypeOK, AsksOfEpoch, FocusDistinct, AskRecords, Windows
  <2>6. Focus!NothingOfOthers'
    BY <1>2 DEF FocusInv, Focus!Adopt, Focus!Answered, Focus!Current, Focus!copyVars,
                Focus!NothingOfOthers, Focus!NoOrphan,
                AsksOfEpoch, PageOfGeneration, Focus!TypeOK, Focus!isOpen, FocusDistinct, Windows
  <2>7. QED
    BY <2>1, <2>2, <2>3, <2>4, <2>5, <2>6 DEF FocusInv
<1>3. ASSUME NEW c \in Asks, Focus!CloseOrphan(c)
      PROVE  FocusInv'
  <2>1. Focus!TypeOK'
    BY <1>3 DEF FocusInv, Focus!CloseOrphan, Focus!Answered, Focus!Current, Focus!copyVars,
                Focus!TypeOK, FocusDistinct, AskRecords,
                Windows, Pages, AsksOfEpoch, PageOfGeneration
  <2>2. AsksOfEpoch'
    BY <1>3 DEF FocusInv, Focus!CloseOrphan, Focus!Answered, Focus!Current, Focus!copyVars,
                AsksOfEpoch, Focus!TypeOK, FocusDistinct,
                AskRecords
  <2>3. PageOfGeneration'
    BY <1>3 DEF FocusInv, Focus!CloseOrphan, Focus!Answered, Focus!Current, Focus!copyVars,
                PageOfGeneration, Focus!TypeOK,
                FocusDistinct, Pages
  <2>4. Focus!NoOrphan'
    BY <1>3 DEF FocusInv, Focus!CloseOrphan, Focus!Answered, Focus!Current, Focus!copyVars,
                Focus!NoOrphan, Focus!WaitsForOne, Focus!isOpen,
                Focus!TypeOK, FocusDistinct, Windows
  <2>5. Focus!WaitsForOne'
    BY <1>3 DEF FocusInv, Focus!CloseOrphan, Focus!Answered, Focus!Current, Focus!copyVars,
                Focus!WaitsForOne, Focus!NoOrphan, Focus!isOpen,
                Focus!TypeOK, AsksOfEpoch, FocusDistinct, AskRecords, Windows
  <2>6. Focus!NothingOfOthers'
    BY <1>3 DEF FocusInv, Focus!CloseOrphan, Focus!Answered, Focus!Current, Focus!copyVars,
                Focus!NothingOfOthers, Focus!NoOrphan,
                AsksOfEpoch, PageOfGeneration, Focus!TypeOK, Focus!isOpen, FocusDistinct, Windows
  <2>7. QED
    BY <2>1, <2>2, <2>3, <2>4, <2>5, <2>6 DEF FocusInv
<1>4. ASSUME NEW c \in Asks, Focus!Refused(c)
      PROVE  FocusInv'
  <2>1. Focus!TypeOK'
    BY <1>4 DEF FocusInv, Focus!Refused, Focus!Answered, Focus!Current, Focus!copyVars,
                Focus!TypeOK, FocusDistinct, AskRecords,
                Windows, Pages, AsksOfEpoch, PageOfGeneration
  <2>2. AsksOfEpoch'
    BY <1>4 DEF FocusInv, Focus!Refused, Focus!Answered, Focus!Current, Focus!copyVars,
                AsksOfEpoch, Focus!TypeOK, FocusDistinct,
                AskRecords
  <2>3. PageOfGeneration'
    BY <1>4 DEF FocusInv, Focus!Refused, Focus!Answered, Focus!Current, Focus!copyVars,
                PageOfGeneration, Focus!TypeOK, FocusDistinct,
                Pages
  <2>4. Focus!NoOrphan'
    BY <1>4 DEF FocusInv, Focus!Refused, Focus!Answered, Focus!Current, Focus!copyVars,
                Focus!NoOrphan, Focus!WaitsForOne, Focus!isOpen,
                Focus!TypeOK, FocusDistinct, Windows
  <2>5. Focus!WaitsForOne'
    BY <1>4 DEF FocusInv, Focus!Refused, Focus!Answered, Focus!Current, Focus!copyVars,
                Focus!WaitsForOne, Focus!NoOrphan, Focus!isOpen,
                Focus!TypeOK, AsksOfEpoch, FocusDistinct, AskRecords, Windows
  <2>6. Focus!NothingOfOthers'
    BY <1>4 DEF FocusInv, Focus!Refused, Focus!Answered, Focus!Current, Focus!copyVars,
                Focus!NothingOfOthers, Focus!NoOrphan,
                AsksOfEpoch, PageOfGeneration, Focus!TypeOK, Focus!isOpen, FocusDistinct, Windows
  <2>7. QED
    BY <2>1, <2>2, <2>3, <2>4, <2>5, <2>6 DEF FocusInv
<1>5. ASSUME Focus!CloseWindow
      PROVE  FocusInv'
  <2>1. Focus!TypeOK'
    BY <1>5 DEF FocusInv, Focus!CloseWindow, Focus!isOpen, Focus!copyVars, Focus!TypeOK,
                FocusDistinct, AskRecords, Windows,
                Pages, AsksOfEpoch, PageOfGeneration
  <2>2. AsksOfEpoch'
    BY <1>5 DEF FocusInv, Focus!CloseWindow, Focus!isOpen, Focus!copyVars, AsksOfEpoch,
                Focus!TypeOK, FocusDistinct, AskRecords
  <2>3. PageOfGeneration'
    BY <1>5 DEF FocusInv, Focus!CloseWindow, Focus!isOpen, Focus!copyVars, PageOfGeneration,
                Focus!TypeOK, FocusDistinct, Pages
  <2>4. Focus!NoOrphan'
    BY <1>5 DEF FocusInv, Focus!CloseWindow, Focus!isOpen, Focus!copyVars, Focus!NoOrphan,
                Focus!WaitsForOne, Focus!Current, Focus!TypeOK,
                FocusDistinct, Windows
  <2>5. Focus!WaitsForOne'
    BY <1>5 DEF FocusInv, Focus!CloseWindow, Focus!isOpen, Focus!copyVars, Focus!WaitsForOne,
                Focus!NoOrphan, Focus!Current, Focus!TypeOK,
                AsksOfEpoch, FocusDistinct, AskRecords, Windows
  <2>6. Focus!NothingOfOthers'
    BY <1>5 DEF FocusInv, Focus!CloseWindow, Focus!isOpen, Focus!copyVars, Focus!NothingOfOthers,
                Focus!NoOrphan, AsksOfEpoch,
                PageOfGeneration, Focus!TypeOK, FocusDistinct, Windows
  <2>7. QED
    BY <2>1, <2>2, <2>3, <2>4, <2>5, <2>6 DEF FocusInv
<1>6. ASSUME Focus!ErrorExpires
      PROVE  FocusInv'
  <2>1. Focus!TypeOK'
    BY <1>6 DEF FocusInv, Focus!ErrorExpires, Focus!copyVars, Focus!TypeOK, FocusDistinct,
                AskRecords, Windows, Pages,
                AsksOfEpoch, PageOfGeneration
  <2>2. AsksOfEpoch'
    BY <1>6 DEF FocusInv, Focus!ErrorExpires, Focus!copyVars, AsksOfEpoch, Focus!TypeOK,
                FocusDistinct, AskRecords
  <2>3. PageOfGeneration'
    BY <1>6 DEF FocusInv, Focus!ErrorExpires, Focus!copyVars, PageOfGeneration, Focus!TypeOK,
                FocusDistinct, Pages
  <2>4. Focus!NoOrphan'
    BY <1>6 DEF FocusInv, Focus!ErrorExpires, Focus!copyVars, Focus!NoOrphan, Focus!WaitsForOne,
                Focus!isOpen, Focus!Current, Focus!TypeOK,
                FocusDistinct, Windows
  <2>5. Focus!WaitsForOne'
    BY <1>6 DEF FocusInv, Focus!ErrorExpires, Focus!copyVars, Focus!WaitsForOne, Focus!NoOrphan,
                Focus!isOpen, Focus!Current, Focus!TypeOK,
                AsksOfEpoch, FocusDistinct, AskRecords, Windows
  <2>6. Focus!NothingOfOthers'
    BY <1>6 DEF FocusInv, Focus!ErrorExpires, Focus!copyVars, Focus!NothingOfOthers,
                Focus!NoOrphan, AsksOfEpoch,
                PageOfGeneration, Focus!TypeOK, Focus!isOpen, FocusDistinct, Windows
  <2>7. QED
    BY <2>1, <2>2, <2>3, <2>4, <2>5, <2>6 DEF FocusInv
<1>7. ASSUME Focus!Hide
      PROVE  FocusInv'
  <2>1. Focus!TypeOK'
    <3>1. epoch' \in 0..MaxEpoch /\ openWindows' \subseteq openWindows
      BY <1>7 DEF FocusInv, Focus!Hide, Focus!Forget, Focus!TypeOK, FocusDistinct
    <3>2. QED
      BY <1>7, <3>1 DEF FocusInv, Focus!Hide, Focus!Forget, Focus!TypeOK, Focus!copyVars
  <2>2. AsksOfEpoch'
    BY <1>7 DEF FocusInv, Focus!Hide, Focus!Forget, Focus!copyVars, AsksOfEpoch, Focus!TypeOK,
                FocusDistinct, AskRecords
  <2>3. PageOfGeneration'
    BY <1>7 DEF FocusInv, Focus!Hide, Focus!Forget, Focus!copyVars, PageOfGeneration,
                Focus!TypeOK, FocusDistinct, Pages
  <2>4. Focus!NoOrphan'
    BY <1>7 DEF FocusInv, Focus!Hide, Focus!Forget, Focus!copyVars, Focus!NoOrphan,
                Focus!WaitsForOne, Focus!isOpen, Focus!Current, Focus!TypeOK,
                FocusDistinct, Windows
  <2>5. Focus!WaitsForOne'
    BY <1>7 DEF FocusInv, Focus!Hide, Focus!Forget, Focus!copyVars, Focus!WaitsForOne,
                Focus!NoOrphan, Focus!isOpen, Focus!Current, Focus!TypeOK,
                AsksOfEpoch, FocusDistinct, AskRecords, Windows
  <2>6. Focus!NothingOfOthers'
    BY <1>7 DEF FocusInv, Focus!Hide, Focus!Forget, Focus!copyVars, Focus!NothingOfOthers,
                Focus!NoOrphan, AsksOfEpoch,
                PageOfGeneration, Focus!TypeOK, Focus!isOpen, FocusDistinct, Windows
  <2>7. QED
    BY <2>1, <2>2, <2>3, <2>4, <2>5, <2>6 DEF FocusInv
<1>8. ASSUME Focus!Reload
      PROVE  FocusInv'
  <2>1. Focus!TypeOK'
    <3>1. epoch' \in 0..MaxEpoch
      BY <1>8 DEF FocusInv, Focus!Reload, Focus!TypeOK, FocusDistinct
    <3>2. QED
      BY <1>8, <3>1 DEF FocusInv, Focus!Reload, Focus!TypeOK
  <2>2. AsksOfEpoch'
    BY <1>8 DEF FocusInv, Focus!Reload, AsksOfEpoch, Focus!TypeOK, FocusDistinct, AskRecords
  <2>3. PageOfGeneration'
    BY <1>8 DEF FocusInv, Focus!Reload, PageOfGeneration, Focus!TypeOK, FocusDistinct, Pages
  <2>4. Focus!NoOrphan'
    BY <1>8 DEF FocusInv, Focus!Reload, Focus!NoOrphan, Focus!WaitsForOne, Focus!isOpen,
                Focus!Current, Focus!TypeOK, FocusDistinct, Windows
  <2>5. Focus!WaitsForOne'
    BY <1>8 DEF FocusInv, Focus!Reload, Focus!WaitsForOne, Focus!NoOrphan, Focus!isOpen,
                Focus!Current, Focus!TypeOK, AsksOfEpoch,
                FocusDistinct, AskRecords, Windows
  <2>6. Focus!NothingOfOthers'
    BY <1>8 DEF FocusInv, Focus!Reload, Focus!NothingOfOthers, Focus!NoOrphan, AsksOfEpoch,
                PageOfGeneration, Focus!TypeOK,
                Focus!isOpen, FocusDistinct, Windows
  <2>7. QED
    BY <2>1, <2>2, <2>3, <2>4, <2>5, <2>6 DEF FocusInv
<1>9. ASSUME Focus!Mount
      PROVE  FocusInv'
  <2>1. Focus!TypeOK'
    BY <1>9 DEF FocusInv, Focus!Mount, Focus!windowVars, Focus!TypeOK, FocusDistinct, AskRecords,
                Windows, Pages,
                AsksOfEpoch, PageOfGeneration
  <2>2. AsksOfEpoch'
    BY <1>9 DEF FocusInv, Focus!Mount, Focus!windowVars, AsksOfEpoch, Focus!TypeOK, FocusDistinct,
                AskRecords
  <2>3. PageOfGeneration'
    BY <1>9 DEF FocusInv, Focus!Mount, Focus!windowVars, PageOfGeneration, Focus!TypeOK,
                FocusDistinct, Pages
  <2>4. Focus!NoOrphan'
    BY <1>9 DEF FocusInv, Focus!Mount, Focus!windowVars, Focus!NoOrphan, Focus!WaitsForOne,
                Focus!isOpen, Focus!Current, Focus!TypeOK,
                FocusDistinct, Windows
  <2>5. Focus!WaitsForOne'
    BY <1>9 DEF FocusInv, Focus!Mount, Focus!windowVars, Focus!WaitsForOne, Focus!NoOrphan,
                Focus!isOpen, Focus!Current, Focus!TypeOK,
                AsksOfEpoch, FocusDistinct, AskRecords, Windows
  <2>6. Focus!NothingOfOthers'
    BY <1>9 DEF FocusInv, Focus!Mount, Focus!windowVars, Focus!NothingOfOthers, Focus!NoOrphan,
                AsksOfEpoch,
                PageOfGeneration, Focus!TypeOK, Focus!isOpen, FocusDistinct, Windows
  <2>7. QED
    BY <2>1, <2>2, <2>3, <2>4, <2>5, <2>6 DEF FocusInv
<1>10. ASSUME Focus!Publish
      PROVE  FocusInv'
  <2>1. Focus!TypeOK'
    BY <1>10 DEF FocusInv, Focus!Publish, Focus!Published, Focus!windowVars, Focus!TypeOK,
                 FocusDistinct, AskRecords, Windows,
                 Pages, AsksOfEpoch, PageOfGeneration
  <2>2. AsksOfEpoch'
    BY <1>10 DEF FocusInv, Focus!Publish, Focus!Published, Focus!windowVars, AsksOfEpoch,
                 Focus!TypeOK, FocusDistinct,
                 AskRecords
  <2>3. PageOfGeneration'
    BY <1>10 DEF FocusInv, Focus!Publish, Focus!Published, Focus!windowVars, PageOfGeneration,
                 Focus!TypeOK, FocusDistinct,
                 Pages
  <2>4. Focus!NoOrphan'
    BY <1>10 DEF FocusInv, Focus!Publish, Focus!Published, Focus!windowVars, Focus!NoOrphan,
                 Focus!WaitsForOne, Focus!isOpen, Focus!Current,
                 Focus!TypeOK, FocusDistinct, Windows
  <2>5. Focus!WaitsForOne'
    BY <1>10 DEF FocusInv, Focus!Publish, Focus!Published, Focus!windowVars, Focus!WaitsForOne,
                 Focus!NoOrphan, Focus!isOpen, Focus!Current,
                 Focus!TypeOK, AsksOfEpoch, FocusDistinct, AskRecords, Windows
  <2>6. Focus!NothingOfOthers'
    BY <1>10 DEF FocusInv, Focus!Publish, Focus!Published, Focus!windowVars,
                 Focus!NothingOfOthers, Focus!NoOrphan, AsksOfEpoch,
                 PageOfGeneration, Focus!TypeOK, Focus!isOpen, FocusDistinct, Windows
  <2>7. QED
    BY <2>1, <2>2, <2>3, <2>4, <2>5, <2>6 DEF FocusInv
<1>11. ASSUME Focus!Unmount
      PROVE  FocusInv'
  <2>1. Focus!TypeOK'
    BY <1>11 DEF FocusInv, Focus!Unmount, Focus!Published, Focus!windowVars, Focus!TypeOK,
                 FocusDistinct, AskRecords, Windows,
                 Pages, AsksOfEpoch, PageOfGeneration
  <2>2. AsksOfEpoch'
    BY <1>11 DEF FocusInv, Focus!Unmount, Focus!Published, Focus!windowVars, AsksOfEpoch,
                 Focus!TypeOK, FocusDistinct,
                 AskRecords
  <2>3. PageOfGeneration'
    BY <1>11 DEF FocusInv, Focus!Unmount, Focus!Published, Focus!windowVars, PageOfGeneration,
                 Focus!TypeOK, FocusDistinct,
                 Pages
  <2>4. Focus!NoOrphan'
    BY <1>11 DEF FocusInv, Focus!Unmount, Focus!Published, Focus!windowVars, Focus!NoOrphan,
                 Focus!WaitsForOne, Focus!isOpen, Focus!Current,
                 Focus!TypeOK, FocusDistinct, Windows
  <2>5. Focus!WaitsForOne'
    BY <1>11 DEF FocusInv, Focus!Unmount, Focus!Published, Focus!windowVars, Focus!WaitsForOne,
                 Focus!NoOrphan, Focus!isOpen, Focus!Current,
                 Focus!TypeOK, AsksOfEpoch, FocusDistinct, AskRecords, Windows
  <2>6. Focus!NothingOfOthers'
    BY <1>11 DEF FocusInv, Focus!Unmount, Focus!Published, Focus!windowVars,
                 Focus!NothingOfOthers, Focus!NoOrphan, AsksOfEpoch,
                 PageOfGeneration, Focus!TypeOK, Focus!isOpen, FocusDistinct, Windows
  <2>7. QED
    BY <2>1, <2>2, <2>3, <2>4, <2>5, <2>6 DEF FocusInv
<1>12. ASSUME NEW u \in Users \union {Nil}, Focus!ChangeUser(u)
      PROVE  FocusInv'
  <2>1. Focus!TypeOK'
    <3>1. epoch' \in 0..MaxEpoch /\ generation' \in 0..MaxEpoch /\ openWindows' \subseteq openWindows
      BY <1>12 DEF FocusInv, Focus!ChangeUser, Focus!Forget, Focus!TypeOK, FocusDistinct,
                   PageOfGeneration
    <3>2. page' \in [user : Users, generation : 0..generation'] \union {Nil}
      BY <1>12 DEF FocusInv, Focus!ChangeUser, Focus!TypeOK, FocusDistinct
    <3>3. QED
      BY <1>12, <3>1, <3>2 DEF FocusInv, Focus!ChangeUser, Focus!Forget, Focus!TypeOK
  <2>2. AsksOfEpoch'
    BY <1>12 DEF FocusInv, Focus!ChangeUser, Focus!Forget, AsksOfEpoch, Focus!TypeOK,
                 FocusDistinct, AskRecords
  <2>3. PageOfGeneration'
    BY <1>12 DEF FocusInv, Focus!ChangeUser, Focus!Forget, PageOfGeneration, Focus!TypeOK,
                 FocusDistinct, Pages
  <2>4. Focus!NoOrphan'
    BY <1>12 DEF FocusInv, Focus!ChangeUser, Focus!Forget, Focus!NoOrphan, Focus!WaitsForOne,
                 Focus!isOpen, Focus!Current, Focus!TypeOK,
                 FocusDistinct, Windows
  <2>5. Focus!WaitsForOne'
    BY <1>12 DEF FocusInv, Focus!ChangeUser, Focus!Forget, Focus!WaitsForOne, Focus!NoOrphan,
                 Focus!isOpen, Focus!Current, Focus!TypeOK,
                 AsksOfEpoch, FocusDistinct, AskRecords, Windows
  <2>6. Focus!NothingOfOthers'
    BY <1>12 DEF FocusInv, Focus!ChangeUser, Focus!Forget, Focus!NothingOfOthers, Focus!NoOrphan,
                 AsksOfEpoch,
                 PageOfGeneration, Focus!TypeOK, Focus!isOpen, FocusDistinct, Windows
  <2>7. QED
    BY <2>1, <2>2, <2>3, <2>4, <2>5, <2>6 DEF FocusInv
<1>13. ASSUME UNCHANGED Focus!vars
      PROVE  FocusInv'
  <2>1. Focus!TypeOK'
    BY <1>13 DEF FocusInv, Focus!vars, Focus!windowVars, Focus!copyVars, Focus!TypeOK,
                 FocusDistinct, AskRecords, Windows,
                 Pages, AsksOfEpoch, PageOfGeneration
  <2>2. AsksOfEpoch'
    BY <1>13 DEF FocusInv, Focus!vars, Focus!windowVars, Focus!copyVars, AsksOfEpoch,
                 Focus!TypeOK, FocusDistinct, AskRecords
  <2>3. PageOfGeneration'
    BY <1>13 DEF FocusInv, Focus!vars, Focus!windowVars, Focus!copyVars, PageOfGeneration,
                 Focus!TypeOK, FocusDistinct, Pages
  <2>4. Focus!NoOrphan'
    BY <1>13 DEF FocusInv, Focus!vars, Focus!windowVars, Focus!copyVars, Focus!NoOrphan,
                 Focus!WaitsForOne, Focus!isOpen, Focus!Current,
                 Focus!TypeOK, FocusDistinct, Windows
  <2>5. Focus!WaitsForOne'
    BY <1>13 DEF FocusInv, Focus!vars, Focus!windowVars, Focus!copyVars, Focus!WaitsForOne,
                 Focus!NoOrphan, Focus!isOpen, Focus!Current,
                 Focus!TypeOK, AsksOfEpoch, FocusDistinct, AskRecords, Windows
  <2>6. Focus!NothingOfOthers'
    BY <1>13 DEF FocusInv, Focus!vars, Focus!windowVars, Focus!copyVars, Focus!NothingOfOthers,
                 Focus!NoOrphan, AsksOfEpoch,
                 PageOfGeneration, Focus!TypeOK, Focus!isOpen, FocusDistinct, Windows
  <2>7. QED
    BY <2>1, <2>2, <2>3, <2>4, <2>5, <2>6 DEF FocusInv
<1>14. QED
  BY <1>1, <1>2, <1>3, <1>4, <1>5, <1>6, <1>7, <1>8, <1>9, <1>10, <1>11, <1>12, <1>13 DEF Focus!Next

LEMMA FocusInvariant == FocusDistinct => (Focus!Spec => []FocusInv)
<1>1. SUFFICES ASSUME FocusDistinct PROVE Focus!Spec => []FocusInv
  OBVIOUS
<1>2. Focus!Init => FocusInv
  BY <1>1, FocusInit
<1>3. FocusInv /\ [Focus!Next]_Focus!vars => FocusInv'
  BY <1>1, FocusInvStep
<1>4. QED
  BY <1>2, <1>3, PTL DEF Focus!Spec

-----------------------------------------------------------------------------
(* The theorems *)

\* No request that was given up leaves a second window behind, however many are
\* under way (useFocusIndicator.ts, the epoch of open and cleanup).
THEOREM NoSecondWindow == FocusDistinct => (Focus!Spec => []Focus!NoOrphan)
<1>1. SUFFICES ASSUME FocusDistinct PROVE Focus!Spec => []Focus!NoOrphan
  OBVIOUS
<1>2. FocusInv => Focus!NoOrphan
  BY DEF FocusInv
<1>3. QED
  BY <1>1, <1>2, FocusInvariant, PTL

\* The indicator waits for one call at a time, and only while that call is under
\* way (useFocusIndicator.ts, pendingOpen).
THEOREM OneCallAwaited == FocusDistinct => (Focus!Spec => []Focus!WaitsForOne)
<1>1. SUFFICES ASSUME FocusDistinct PROVE Focus!Spec => []Focus!WaitsForOne
  OBVIOUS
<1>2. FocusInv => Focus!WaitsForOne
  BY DEF FocusInv
<1>3. QED
  BY <1>1, <1>2, FocusInvariant, PTL

\* Neither a window nor the retained blocks of an account outlive it
\* (useFocusIndicatorController.ts, the publication generation).
THEOREM NothingOutlivesTheAccount == FocusDistinct => (Focus!Spec => []Focus!NothingOfOthers)
<1>1. SUFFICES ASSUME FocusDistinct PROVE Focus!Spec => []Focus!NothingOfOthers
  OBVIOUS
<1>2. FocusInv => Focus!NothingOfOthers
  BY DEF FocusInv
<1>3. QED
  BY <1>1, <1>2, FocusInvariant, PTL

\* The three together: the window on the screen is the one in use, can always be
\* asked for again, and belongs to the account on the screen (useFocusIndicator.ts).
THEOREM WindowAlwaysSound == FocusDistinct => (NeighboursSpec => []WindowSound)
<1>1. SUFFICES ASSUME FocusDistinct PROVE NeighboursSpec => []WindowSound
  OBVIOUS
<1>2. [NeighboursNext]_neighbourVars => [Focus!Next]_Focus!vars
  <2>1. UNCHANGED focusVars => UNCHANGED Focus!vars
    BY DEF focusVars, Focus!vars, Focus!windowVars, Focus!copyVars
  <2>2. QED
    BY <2>1 DEF NeighboursNext, neighbourVars, clientVars, TokensStep, ServerStep, LimiterStep,
       KeptStep, ListsStep, SettingsStep, ImporterStep, FocusStep
<1>3. NeighboursSpec => Focus!Spec
  BY <1>2, PTL DEF NeighboursSpec, NeighboursInit, Focus!Spec
<1>4. FocusInv => WindowSound
  BY DEF FocusInv, Focus!WindowSound, WindowSound
<1>5. QED
  BY <1>1, <1>3, <1>4, FocusInvariant, PTL

-----------------------------------------------------------------------------
(* The rate limiter *)

\* A limit is a number, and None is not one.
LimitDistinct == Limit \in Nat /\ Nil \notin Nat

\* The counter is ahead of the calls it admitted; without one there are none.  So a
\* count within the limit says that fewer calls than that were admitted before.
CounterAhead ==
    /\ counter \in Nat \union {Nil}
    /\ admitted \in Nat
    /\ IF counter = Nil THEN admitted = 0 ELSE admitted <= counter

LimitInv == CounterAhead /\ Limiter!WithinBudget

LEMMA LimitInit == LimitDistinct /\ Limiter!Init => LimitInv
BY DEF LimitDistinct, Limiter!Init, LimitInv, CounterAhead, Limiter!WithinBudget

\* A window opens with one token, which is admitted unless the limit is zero.
LEMMA LimitOpenSafe == ASSUME LimitDistinct, LimitInv, Limiter!Open PROVE LimitInv'
BY DEF LimitDistinct, Limiter!Open, LimitInv, CounterAhead, Limiter!WithinBudget

LEMMA LimitIncrementSafe == ASSUME LimitDistinct, LimitInv, NEW c \in Calls, Limiter!Increment(c) PROVE LimitInv'
<1>1. counter \in Nat /\ counter' = counter + 1 /\ Limiter!Counted(counter + 1)
  BY DEF LimitDistinct, LimitInv, CounterAhead, Limiter!Increment
<1>2. CASE counter + 1 <= Limit
  BY <1>1, <1>2 DEF LimitDistinct, LimitInv, CounterAhead, Limiter!WithinBudget, Limiter!Counted
<1>3. CASE ~(counter + 1 <= Limit)
  BY <1>1, <1>3 DEF LimitDistinct, LimitInv, CounterAhead, Limiter!WithinBudget, Limiter!Counted
<1>4. QED
  BY <1>2, <1>3

LEMMA LimitUnmoved == ASSUME LimitInv, UNCHANGED <<counter, admitted>> PROVE LimitInv'
BY DEF LimitInv, CounterAhead, Limiter!WithinBudget

LEMMA LimitStep == ASSUME LimitDistinct, LimitInv, [Limiter!Next]_Limiter!vars PROVE LimitInv'
<1>1. ASSUME NEW c \in Calls, Limiter!First(c) PROVE LimitInv'
  BY <1>1, LimitOpenSafe, LimitUnmoved DEF Limiter!First
<1>2. ASSUME NEW c \in Calls, Limiter!Vanished(c) PROVE LimitInv'
  BY <1>2, LimitUnmoved DEF Limiter!Vanished
<1>3. ASSUME NEW c \in Calls, Limiter!Reseed(c) PROVE LimitInv'
  BY <1>3, LimitOpenSafe, LimitUnmoved DEF Limiter!Reseed
<1>4. CASE Limiter!Evict
  BY <1>4 DEF LimitDistinct, Limiter!Evict, LimitInv, CounterAhead, Limiter!WithinBudget
<1>5. CASE UNCHANGED Limiter!vars
  BY <1>5, LimitUnmoved DEF Limiter!vars
<1>6. QED
  BY <1>1, <1>2, <1>3, <1>4, <1>5, LimitIncrementSafe DEF Limiter!Next

LEMMA LimitInvariant == LimitDistinct => (Limiter!Spec => []LimitInv)
<1>1. SUFFICES ASSUME LimitDistinct PROVE Limiter!Spec => []LimitInv
  OBVIOUS
<1>2. Limiter!Init => LimitInv
  BY <1>1, LimitInit
<1>3. LimitInv /\ [Limiter!Next]_Limiter!vars => LimitInv'
  BY <1>1, LimitStep
<1>4. QED
  BY <1>2, <1>3, PTL DEF Limiter!Spec

-----------------------------------------------------------------------------
(* The import dialog *)

ImportDistinct == Nil \notin Nat /\ Nil \notin Calendar

\* Only a request of the present generation is in flight for the page, and it is under way;
\* without rules there is one, or an error that asks for a click.
ImportInv ==
    /\ importDay \in Calendar /\ rulesGeneration \in Nat
    /\ signedIn \in BOOLEAN /\ ready \in BOOLEAN /\ failed \in BOOLEAN
    /\ fetch # Nil => fetch = rulesGeneration /\ fetch \in sent
    /\ Importer!ImportTrue

\* The rules are asked for again, or no longer, and nothing else happens to them.
LEMMA ImportRefetched ==
    ASSUME ImportDistinct, ImportInv, Importer!Refetch
    PROVE  rulesGeneration' \in Nat /\ fetch' # Nil /\ fetch' = rulesGeneration' /\ fetch' \in sent'
BY DEF ImportDistinct, ImportInv, Importer!Refetch, Importer!Advance

LEMMA ImportGoToSafe ==
    ASSUME ImportDistinct, ImportInv, NEW d \in Calendar, Importer!GoTo(d) PROVE ImportInv'
<1>1. /\ importDay' = d /\ dialog' = Nil /\ signedIn' = signedIn /\ signedIn
      /\ ready' = ready /\ failed' = failed
  BY DEF Importer!GoTo
<1>2. /\ rulesGeneration' \in Nat
      /\ fetch' # Nil => fetch' = rulesGeneration' /\ fetch' \in sent'
      /\ signedIn /\ ~ready /\ ~failed => fetch' # Nil /\ fetch' \in sent'
  BY ImportRefetched DEF ImportInv, Importer!GoTo, Importer!DateWatch, Importer!AbortFetch,
     Importer!Advance, Importer!ImportTrue, Importer!RulesAreComing
<1>3. QED
  BY <1>1, <1>2 DEF ImportInv, Importer!ImportTrue, Importer!RulesAreComing, Importer!DialogOfShownDay

LEMMA ImportVisitSafe ==
    ASSUME ImportDistinct, ImportInv, NEW d \in Calendar, Importer!Visit(d) PROVE ImportInv'
<1>1. /\ importDay' = d /\ signedIn' = TRUE /\ rulesGeneration' = rulesGeneration + 1 /\ fetch' = Nil
      /\ ready' = TRUE /\ failed' = FALSE
      /\ dialog' = Nil \/ (dialog' = dialog /\ d = importDay)
  BY DEF Importer!Visit, Importer!AbortFetch, Importer!Advance
<1>2. Importer!DialogOfShownDay'
  BY <1>1 DEF ImportInv, Importer!ImportTrue, Importer!DialogOfShownDay
<1>3. Importer!RulesAreComing'
  BY <1>1 DEF Importer!RulesAreComing
<1>4. rulesGeneration' \in Nat
  BY <1>1 DEF ImportInv
<1>5. QED
  BY <1>1, <1>2, <1>3, <1>4 DEF ImportInv, Importer!ImportTrue

LEMMA ImportSignOutSafe == ASSUME ImportDistinct, ImportInv, Importer!SignOut PROVE ImportInv'
<1>1. /\ importDay' = importDay /\ signedIn' = FALSE /\ rulesGeneration' = rulesGeneration + 1 /\ fetch' = Nil
      /\ ready' = FALSE /\ failed' = FALSE /\ dialog' = Nil
  BY DEF Importer!SignOut, Importer!AbortFetch, Importer!Advance
<1>2. Importer!ImportTrue'
  BY <1>1 DEF Importer!ImportTrue, Importer!RulesAreComing, Importer!DialogOfShownDay
<1>3. rulesGeneration' \in Nat
  BY <1>1 DEF ImportInv
<1>4. QED
  BY <1>1, <1>2, <1>3 DEF ImportInv

LEMMA ImportSignInSafe == ASSUME ImportDistinct, ImportInv, Importer!SignIn PROVE ImportInv'
BY ImportRefetched DEF ImportInv, Importer!SignIn,
   Importer!ImportTrue, Importer!RulesAreComing, Importer!DialogOfShownDay

\* A request of an earlier generation is not the one in flight.
LEMMA ImportSettleSafe ==
    ASSUME ImportDistinct, ImportInv, NEW g \in sent, NEW ok \in BOOLEAN, Importer!Settle(g, ok)
    PROVE  ImportInv'
<1>1. /\ importDay' = importDay /\ signedIn' = signedIn /\ rulesGeneration' = rulesGeneration /\ dialog' = dialog
      /\ sent' = sent \ {g}
      /\ fetch' = IF fetch = g THEN Nil ELSE fetch
  BY DEF Importer!Settle
<1>2. fetch' # Nil => fetch' = rulesGeneration' /\ fetch' \in sent'
  BY <1>1 DEF ImportInv
<1>3. CASE g = rulesGeneration
  <2>1. ready' = (ready \/ ok) /\ failed' = ~ok
    BY <1>3 DEF Importer!Settle
  <2>2. ready' \in BOOLEAN /\ failed' \in BOOLEAN /\ (ready' \/ failed')
    BY <2>1 DEF ImportInv
  <2>3. QED
    BY <1>1, <1>2, <2>2 DEF ImportInv, Importer!ImportTrue, Importer!RulesAreComing,
       Importer!DialogOfShownDay
<1>4. CASE g # rulesGeneration
  <2>1. ready' = ready /\ failed' = failed /\ fetch' = fetch
    BY <1>1, <1>4 DEF ImportInv, Importer!Settle
  <2>2. QED
    BY <1>1, <1>2, <1>4, <2>1 DEF ImportInv, Importer!ImportTrue, Importer!RulesAreComing,
       Importer!DialogOfShownDay
<1>5. QED
  BY <1>3, <1>4

LEMMA ImportAddSafe ==
    ASSUME ImportDistinct, ImportInv, NEW c \in Clicks, Importer!Add(c) PROVE ImportInv'
<1>1. /\ importDay' = importDay /\ signedIn' = signedIn /\ signedIn /\ rulesGeneration' = rulesGeneration
      /\ ready' = ready /\ failed' = failed
  BY DEF Importer!Add
<1>2. CASE ready
  BY <1>1, <1>2 DEF ImportInv, Importer!Add, Importer!ImportTrue, Importer!RulesAreComing,
     Importer!DialogOfShownDay
<1>3. CASE ~ready
  BY <1>1, <1>3 DEF ImportDistinct, ImportInv, Importer!Add, Importer!ImportTrue,
     Importer!RulesAreComing, Importer!DialogOfShownDay
<1>4. QED
  BY <1>2, <1>3

LEMMA ImportContinueSafe ==
    ASSUME ImportDistinct, ImportInv, NEW c \in Clicks, Importer!Continue(c) PROVE ImportInv'
BY DEF ImportInv, Importer!Continue, Importer!StillWanted, Importer!ImportTrue,
   Importer!RulesAreComing, Importer!DialogOfShownDay

LEMMA ImportStep == ASSUME ImportDistinct, ImportInv, [Importer!Next]_Importer!vars PROVE ImportInv'
<1>1. CASE Importer!CloseDialog \/ UNCHANGED Importer!vars
  BY <1>1 DEF ImportInv, Importer!CloseDialog, Importer!vars, Importer!ImportTrue,
     Importer!RulesAreComing, Importer!DialogOfShownDay
<1>2. QED
  BY <1>1, ImportGoToSafe, ImportVisitSafe, ImportSignOutSafe, ImportSignInSafe, ImportSettleSafe, ImportAddSafe, ImportContinueSafe
     DEF Importer!Next

LEMMA ImportInvariant == ImportDistinct => (Importer!Spec => []ImportInv)
<1>1. SUFFICES ASSUME ImportDistinct PROVE Importer!Spec => []ImportInv
  OBVIOUS
<1>2. Importer!Init => ImportInv
  <2>1. SUFFICES ASSUME Importer!Init PROVE ImportInv
    OBVIOUS
  <2>2. Importer!ImportTrue
    BY <1>1, <2>1 DEF ImportDistinct, Importer!Init, Importer!ImportTrue,
       Importer!RulesAreComing, Importer!DialogOfShownDay
  <2>3. ready \in BOOLEAN /\ (fetch # Nil => fetch = rulesGeneration /\ fetch \in sent)
    BY <2>1 DEF Importer!Init
  <2>4. QED
    BY <2>1, <2>2, <2>3 DEF ImportInv, Importer!Init
<1>3. ImportInv /\ [Importer!Next]_Importer!vars => ImportInv'
  BY <1>1, ImportStep
<1>4. QED
  BY <1>2, <1>3, PTL DEF Importer!Spec

-----------------------------------------------------------------------------
(* The account on the settings page *)

Operations == {"connect", "disconnect"}

SettingsDistinct == Nil \notin Nat /\ Nil \notin Operations

StatusReads ==
    [phase : {"idle"}]
    \union [phase : {"sent"}, latest : BOOLEAN]
    \union [phase : {"answered"}, latest : BOOLEAN, of : Nat]

Writes ==
    [phase : {"idle"}]
    \union [phase : {"sent"}, op : Operations]
    \union [phase : {"applied"}, op : Operations, of : Nat]

\* A status read whose answer the page would still believe.
Latest(r) == statusRead[r].phase # "idle" /\ statusRead[r].latest

SettingsTypes ==
    /\ changes \in Nat /\ shown \in Nat \union {Nil}
    /\ operation \in Operations \union {Nil}
    /\ statusRead \in [Reads -> StatusReads] /\ accountWrite \in Writes

\* One read at most is believed, and none during a write; what it was answered, and what
\* the write made, is no older than what is shown.
SettingsOrder ==
    /\ shown # Nil => shown <= changes
    /\ \A r, s \in Reads : Latest(r) /\ Latest(s) => r = s
    /\ \A r \in Reads : Latest(r) => operation = Nil
    /\ \A r \in Reads : Latest(r) /\ statusRead[r].phase = "answered" =>
          statusRead[r].of <= changes /\ (shown # Nil => statusRead[r].of >= shown)
    /\ accountWrite.phase # "idle" => operation = accountWrite.op
    /\ accountWrite.phase = "applied" => accountWrite.of <= changes /\ (shown # Nil => accountWrite.of >= shown)

SettingsInv == SettingsTypes /\ SettingsOrder

Keeps == SettingsInv' /\ Settings!NotOlderAccount

\* Reads that are outdated stay what they are, and are believed no more.
LEMMA NoneLatest ==
    ASSUME SettingsTypes
    PROVE  /\ Settings!Outdated \in [Reads -> StatusReads]
           /\ \A r \in Reads : ~(Settings!Outdated[r].phase # "idle" /\ Settings!Outdated[r].latest)
<1>1. ASSUME NEW r \in Reads
      PROVE  /\ Settings!Outdated[r] \in StatusReads
             /\ ~(Settings!Outdated[r].phase # "idle" /\ Settings!Outdated[r].latest)
  <2>1. statusRead[r] \in StatusReads
    BY DEF SettingsTypes
  <2>2. CASE statusRead[r] = Settings!Idle
    BY <2>2 DEF Settings!Outdated, Settings!Idle, StatusReads
  <2>3. CASE statusRead[r] # Settings!Idle
    <3>1. Settings!Outdated[r] = [statusRead[r] EXCEPT !.latest = FALSE]
      BY <2>3 DEF Settings!Outdated
    <3>2. CASE statusRead[r] \in [phase : {"sent"}, latest : BOOLEAN]
      BY <3>1, <3>2 DEF StatusReads
    <3>3. CASE statusRead[r] \in [phase : {"answered"}, latest : BOOLEAN, of : Nat]
      BY <3>1, <3>3 DEF StatusReads
    <3>4. statusRead[r] \notin [phase : {"idle"}]
      BY <2>3 DEF Settings!Idle
    <3>5. QED
      BY <2>1, <3>2, <3>3, <3>4 DEF StatusReads
  <2>4. QED
    BY <2>2, <2>3
<1>2. DOMAIN Settings!Outdated = Reads /\ Settings!Outdated = [r \in Reads |-> Settings!Outdated[r]]
  BY DEF Settings!Outdated
<1>3. QED
  BY <1>1, <1>2

\* Reads only end: what is believed still is what it was.
LEMMA ReadEnds ==
    ASSUME SettingsInv, NEW r \in Reads, statusRead' = [statusRead EXCEPT ![r] = Settings!Idle],
           UNCHANGED <<changes, shown, operation, accountWrite>>
    PROVE  Keeps
<1>1. statusRead'[r].phase = "idle" /\ statusRead' \in [Reads -> StatusReads]
      /\ \A q \in Reads : q # r => statusRead'[q] = statusRead[q]
  BY DEF SettingsInv, SettingsTypes, Settings!Idle, StatusReads
<1>2. ~Latest(r)' /\ \A q \in Reads : q # r => (Latest(q)' <=> Latest(q))
  BY <1>1 DEF Latest
<1>3. SettingsTypes'
  BY <1>1 DEF SettingsInv, SettingsTypes
<1>4. SettingsOrder'
  BY <1>1, <1>2 DEF SettingsInv, SettingsOrder
<1>5. Settings!NotOlderAccount
  BY DEF SettingsInv, SettingsTypes, Settings!NotOlderAccount
<1>6. QED
  BY <1>3, <1>4, <1>5 DEF Keeps, SettingsInv

LEMMA SettingsReadSafe ==
    ASSUME SettingsDistinct, SettingsInv, NEW r \in Reads, Settings!Read(r) PROVE Keeps
<1> DEFINE new == [phase |-> "sent", latest |-> TRUE]
<1>1. /\ statusRead' = [Settings!Outdated EXCEPT ![r] = new]
      /\ operation = Nil /\ UNCHANGED <<changes, shown, operation, accountWrite>>
  BY DEF Settings!Read
<1>2. new \in StatusReads /\ new.phase = "sent" /\ new.latest
  BY DEF StatusReads
<1> HIDE DEF new
<1>3. /\ statusRead' \in [Reads -> StatusReads] /\ statusRead'[r] = new
      /\ \A q \in Reads : q # r => statusRead'[q] = Settings!Outdated[q]
  BY <1>1, <1>2, NoneLatest DEF SettingsInv
<1>4. \A q \in Reads : Latest(q)' => q = r
  BY <1>3, NoneLatest DEF Latest, SettingsInv
<1>5. SettingsTypes'
  BY <1>1, <1>3 DEF SettingsInv, SettingsTypes
<1>6. SettingsOrder'
  BY <1>1, <1>2, <1>3, <1>4 DEF SettingsInv, SettingsOrder
<1>7. Settings!NotOlderAccount
  BY <1>1 DEF SettingsInv, SettingsTypes, Settings!NotOlderAccount
<1>8. QED
  BY <1>5, <1>6, <1>7 DEF Keeps, SettingsInv

LEMMA SettingsAnswerReadSafe ==
    ASSUME SettingsDistinct, SettingsInv, NEW r \in Reads, Settings!AnswerRead(r) PROVE Keeps
<1> DEFINE new == [phase |-> "answered", latest |-> statusRead[r].latest, of |-> changes]
<1>1. /\ statusRead[r].phase = "sent" /\ statusRead' = [statusRead EXCEPT ![r] = new]
      /\ UNCHANGED <<changes, shown, operation, accountWrite>>
  BY DEF Settings!AnswerRead
<1>2. statusRead[r].latest \in BOOLEAN /\ changes \in Nat
  BY <1>1 DEF SettingsInv, SettingsTypes, StatusReads
<1>3. new \in StatusReads /\ new.phase = "answered" /\ new.latest = statusRead[r].latest /\ new.of = changes
  BY <1>2 DEF StatusReads
<1> HIDE DEF new
<1>4. /\ statusRead' \in [Reads -> StatusReads] /\ statusRead'[r] = new
      /\ \A q \in Reads : q # r => statusRead'[q] = statusRead[q]
  BY <1>1, <1>3 DEF SettingsInv, SettingsTypes
<1>5. \A q \in Reads : Latest(q)' <=> Latest(q)
  BY <1>1, <1>3, <1>4 DEF Latest
<1>6. SettingsTypes'
  BY <1>1, <1>4 DEF SettingsInv, SettingsTypes
<1>7. SettingsOrder'
  <2>1. ASSUME NEW q \in Reads, Latest(q)', statusRead'[q].phase = "answered"
        PROVE  statusRead'[q].of <= changes' /\ (shown' # Nil => statusRead'[q].of >= shown')
    <3>1. CASE q = r
      BY <1>1, <1>2, <1>3, <1>4, <3>1 DEF SettingsInv, SettingsOrder, SettingsTypes
    <3>2. CASE q # r
      BY <1>1, <1>4, <1>5, <2>1, <3>2 DEF SettingsInv, SettingsOrder
    <3>3. QED
      BY <3>1, <3>2
  <2>2. QED
    BY <1>1, <1>5, <2>1 DEF SettingsInv, SettingsOrder
<1>8. Settings!NotOlderAccount
  BY <1>1 DEF SettingsInv, SettingsTypes, Settings!NotOlderAccount
<1>9. QED
  BY <1>6, <1>7, <1>8 DEF Keeps, SettingsInv

\* What the believed read was answered is no older than what is shown; no other read is
\* believed after it.
LEMMA SettingsAcceptReadSafe ==
    ASSUME SettingsDistinct, SettingsInv, NEW r \in Reads, Settings!AcceptRead(r) PROVE Keeps
<1>1. /\ statusRead[r].phase = "answered" /\ statusRead' = [statusRead EXCEPT ![r] = Settings!Idle]
      /\ shown' = IF Settings!Believed(r) THEN statusRead[r].of ELSE shown
      /\ UNCHANGED <<changes, operation, accountWrite>>
  BY DEF Settings!AcceptRead
<1>2. CASE ~Settings!Believed(r)
  BY <1>1, <1>2, ReadEnds
<1>3. CASE Settings!Believed(r)
  <2>1. Latest(r) /\ operation = Nil /\ shown' = statusRead[r].of
    BY <1>1, <1>3 DEF Settings!Believed, Latest
  <2>2. /\ shown' \in Nat /\ shown' <= changes
        /\ shown # Nil => shown' >= shown
    BY <1>1, <2>1 DEF SettingsInv, SettingsOrder, SettingsTypes, StatusReads
  <2>3. /\ statusRead'[r].phase = "idle" /\ statusRead' \in [Reads -> StatusReads]
        /\ \A q \in Reads : q # r => statusRead'[q] = statusRead[q]
    BY <1>1 DEF SettingsInv, SettingsTypes, Settings!Idle, StatusReads
  <2>4. \A q \in Reads : ~Latest(q)'
    BY <2>1, <2>3 DEF SettingsInv, SettingsOrder, Latest
  <2>5. accountWrite.phase = "idle"
    BY <2>1 DEF SettingsDistinct, SettingsInv, SettingsTypes, SettingsOrder, Writes
  <2>6. SettingsTypes'
    BY <1>1, <2>2, <2>3 DEF SettingsInv, SettingsTypes
  <2>7. SettingsOrder'
    BY <1>1, <2>2, <2>4, <2>5 DEF SettingsOrder
  <2>8. QED
    BY <2>2, <2>6, <2>7 DEF Keeps, SettingsInv, Settings!NotOlderAccount
<1>4. QED
  BY <1>2, <1>3

\* From its start a write is the only source of the shown account.
LEMMA SettingsWriteSafe ==
    ASSUME SettingsDistinct, SettingsInv, NEW op \in Operations, Settings!Write(op) PROVE Keeps
<1>1. /\ operation' = op /\ statusRead' = Settings!Outdated
      /\ accountWrite' = [phase |-> "sent", op |-> op]
      /\ UNCHANGED <<changes, shown>>
  BY DEF Settings!Write
<1>2. accountWrite' \in Writes /\ accountWrite'.phase = "sent" /\ accountWrite'.op = op
  BY <1>1 DEF Writes
<1>3. \A q \in Reads : ~Latest(q)'
  BY <1>1, NoneLatest DEF Latest, SettingsInv
<1>4. SettingsTypes'
  BY <1>1, <1>2, NoneLatest DEF SettingsInv, SettingsTypes
<1>5. SettingsOrder'
  BY <1>1, <1>2, <1>3 DEF SettingsInv, SettingsOrder
<1>6. Settings!NotOlderAccount
  BY <1>1 DEF SettingsInv, SettingsTypes, Settings!NotOlderAccount
<1>7. QED
  BY <1>4, <1>5, <1>6 DEF Keeps, SettingsInv

LEMMA SettingsApplySafe == ASSUME SettingsDistinct, SettingsInv, Settings!Apply PROVE Keeps
<1>1. /\ accountWrite.phase = "sent" /\ changes' = changes + 1
      /\ accountWrite' = [phase |-> "applied", op |-> accountWrite.op, of |-> changes + 1]
      /\ UNCHANGED <<shown, operation, statusRead>>
  BY DEF Settings!Apply
<1>2. changes \in Nat /\ accountWrite.op \in Operations /\ operation = accountWrite.op
  BY <1>1 DEF SettingsInv, SettingsTypes, SettingsOrder, Writes
<1>3. accountWrite' \in Writes /\ accountWrite'.phase = "applied" /\ accountWrite'.op = accountWrite.op /\ accountWrite'.of = changes'
  BY <1>1, <1>2 DEF Writes
<1>4. \A q \in Reads : ~Latest(q)'
  BY <1>1, <1>2 DEF SettingsDistinct, SettingsInv, SettingsOrder, Latest
<1>5. SettingsTypes'
  BY <1>1, <1>2, <1>3 DEF SettingsInv, SettingsTypes
<1>6. shown' # Nil => shown' <= changes'
  BY <1>1, <1>2 DEF SettingsInv, SettingsOrder, SettingsTypes
<1>7. SettingsOrder'
  BY <1>1, <1>2, <1>3, <1>4, <1>6 DEF SettingsOrder
<1>8. Settings!NotOlderAccount
  BY <1>1 DEF SettingsInv, SettingsTypes, Settings!NotOlderAccount
<1>9. QED
  BY <1>5, <1>7, <1>8 DEF Keeps, SettingsInv

LEMMA SettingsAcceptWriteSafe == ASSUME SettingsDistinct, SettingsInv, Settings!AcceptWrite PROVE Keeps
<1>1. /\ accountWrite.phase = "applied" /\ operation = accountWrite.op /\ shown' = accountWrite.of
      /\ operation' = Nil /\ accountWrite' = Settings!Idle
      /\ UNCHANGED <<changes, statusRead>>
  BY DEF Settings!AcceptWrite, SettingsInv, SettingsOrder
<1>2. /\ shown' \in Nat /\ shown' <= changes /\ (shown # Nil => shown' >= shown)
      /\ accountWrite.op \in Operations
  BY <1>1 DEF SettingsInv, SettingsTypes, SettingsOrder, Writes
<1>3. \A q \in Reads : ~Latest(q)'
  BY <1>1, <1>2 DEF SettingsDistinct, SettingsInv, SettingsOrder, Latest
<1>4. accountWrite' \in Writes /\ accountWrite'.phase = "idle"
  BY <1>1 DEF Settings!Idle, Writes
<1>5. SettingsTypes'
  BY <1>1, <1>2, <1>4 DEF SettingsInv, SettingsTypes
<1>6. SettingsOrder'
  BY <1>1, <1>2, <1>3, <1>4 DEF SettingsOrder
<1>7. QED
  BY <1>2, <1>5, <1>6 DEF Keeps, SettingsInv, Settings!NotOlderAccount

LEMMA SettingsFailWriteSafe == ASSUME SettingsDistinct, SettingsInv, Settings!FailWrite PROVE Keeps
<1>1. /\ operation # Nil /\ operation' = Nil /\ accountWrite' = Settings!Idle
      /\ UNCHANGED <<changes, shown, statusRead>>
  BY DEF Settings!FailWrite
<1>2. accountWrite' \in Writes /\ accountWrite'.phase = "idle"
  BY <1>1 DEF Settings!Idle, Writes
<1>3. \A q \in Reads : ~Latest(q)'
  BY <1>1 DEF SettingsInv, SettingsOrder, Latest
<1>4. SettingsTypes'
  BY <1>1, <1>2 DEF SettingsInv, SettingsTypes
<1>5. SettingsOrder'
  BY <1>1, <1>2, <1>3 DEF SettingsInv, SettingsOrder
<1>6. Settings!NotOlderAccount
  BY <1>1 DEF SettingsInv, SettingsTypes, Settings!NotOlderAccount
<1>7. QED
  BY <1>4, <1>5, <1>6 DEF Keeps, SettingsInv

LEMMA SettingsDisposeSafe == ASSUME SettingsDistinct, SettingsInv, Settings!Dispose PROVE Keeps
<1>1. /\ shown' = Nil /\ operation' = Nil /\ accountWrite' = Settings!Idle
      /\ statusRead' = [r \in Reads |-> Settings!Idle] /\ changes' = changes
  BY DEF Settings!Dispose
<1>2. accountWrite' \in Writes /\ accountWrite'.phase = "idle" /\ statusRead' \in [Reads -> StatusReads]
  BY <1>1 DEF Settings!Idle, Writes, StatusReads
<1>3. \A q \in Reads : ~Latest(q)'
  BY <1>1 DEF Settings!Idle, Latest
<1>4. SettingsTypes'
  BY <1>1, <1>2 DEF SettingsInv, SettingsTypes
<1>5. SettingsOrder'
  BY <1>1, <1>2, <1>3 DEF SettingsOrder
<1>6. QED
  BY <1>1, <1>4, <1>5 DEF Keeps, SettingsInv, Settings!NotOlderAccount

LEMMA SettingsOtherTabSafe == ASSUME SettingsDistinct, SettingsInv, Settings!OtherTab PROVE Keeps
<1>1. changes' = changes + 1 /\ changes \in Nat /\ UNCHANGED <<shown, operation, statusRead, accountWrite>>
  BY DEF Settings!OtherTab, SettingsInv, SettingsTypes
<1>2. \A q \in Reads : Latest(q)' <=> Latest(q)
  BY <1>1 DEF Latest
<1>3. SettingsTypes'
  BY <1>1 DEF SettingsInv, SettingsTypes
<1>4. ASSUME NEW n \in Nat, n <= changes PROVE n <= changes'
  BY <1>1, <1>4
<1>5. \A r \in Reads : Latest(r) /\ statusRead[r].phase = "answered" => statusRead[r].of \in Nat
  BY DEF SettingsInv, SettingsTypes, StatusReads
<1>6. accountWrite.phase = "applied" => accountWrite.of \in Nat
  BY DEF SettingsInv, SettingsTypes, Writes
<1>7. SettingsOrder'
  BY <1>1, <1>2, <1>4, <1>5, <1>6 DEF SettingsInv, SettingsTypes, SettingsOrder
<1>8. Settings!NotOlderAccount
  BY <1>1 DEF SettingsInv, SettingsTypes, Settings!NotOlderAccount
<1>9. QED
  BY <1>3, <1>7, <1>8 DEF Keeps, SettingsInv

LEMMA SettingsInvStep == ASSUME SettingsDistinct, SettingsInv, Settings!Next PROVE Keeps
<1>1. ASSUME NEW r \in Reads, Settings!LoseRead(r) PROVE Keeps
  BY <1>1, ReadEnds DEF Settings!LoseRead
<1>2. QED
  BY <1>1, SettingsReadSafe, SettingsAnswerReadSafe, SettingsAcceptReadSafe, SettingsWriteSafe, SettingsApplySafe, SettingsAcceptWriteSafe,
     SettingsFailWriteSafe, SettingsDisposeSafe, SettingsOtherTabSafe DEF Settings!Next, Operations

LEMMA SettingsStutter ==
    ASSUME SettingsInv, UNCHANGED Settings!vars PROVE SettingsInv'
BY DEF SettingsInv, SettingsTypes, SettingsOrder, Latest, Settings!vars

LEMMA SettingsInvariant == SettingsDistinct => (Settings!Spec => []SettingsInv)
<1>1. SUFFICES ASSUME SettingsDistinct PROVE Settings!Spec => []SettingsInv
  OBVIOUS
<1>2. Settings!Init => SettingsInv
  <2>1. SUFFICES ASSUME Settings!Init PROVE SettingsInv
    OBVIOUS
  <2>2. SettingsTypes
    BY <2>1 DEF Settings!Init, Settings!Idle, SettingsTypes, StatusReads, Writes
  <2>3. \A r \in Reads : ~Latest(r)
    BY <2>1 DEF Settings!Init, Settings!Idle, Latest
  <2>4. SettingsOrder
    BY <2>1, <2>3 DEF Settings!Init, Settings!Idle, SettingsOrder
  <2>5. QED
    BY <2>2, <2>4 DEF SettingsInv
<1>3. SettingsInv /\ [Settings!Next]_Settings!vars => SettingsInv'
  BY <1>1, SettingsInvStep, SettingsStutter DEF Keeps
<1>4. QED
  BY <1>2, <1>3, PTL DEF Settings!Spec

-----------------------------------------------------------------------------
(* The lists on the schedule page *)

ListDistinct == Nil \notin Calendar \X Contexts

ListReads ==
    [phase : {"idle"}]
    \union [phase : {"sent"}, latest : BOOLEAN, date : Calendar, context : Contexts]
    \union [phase : {"answered"}, latest : BOOLEAN, date : Calendar, context : Contexts,
            of : Nat, tasks : SUBSET Tasks]

AccountReads ==
    [phase : {"idle"}]
    \union [phase : {"sent"}, latest : BOOLEAN, same : BOOLEAN]
    \union [phase : {"answered"}, latest : BOOLEAN, same : BOOLEAN, of : Nat]

Completions == [phase : {"idle"}] \union [phase : {"sent", "closed"}, same : BOOLEAN]

Rowsets == [date : Calendar \union {Nil}, context : Contexts \union {Nil}, tasks : SUBSET Tasks]

Verdicts == [state : {"connected", "disconnected"}, of : Nat]

\* A list read the page would still believe, and a completion it would.
LatestLoad(l) == load[l].phase # "idle" /\ load[l].latest

OwnPost(t) == post[t].phase # "idle" /\ post[t].same

\* The page and what it asks for: shown day, key, verdict and rows.
PageTypes ==
    /\ date \in Calendar /\ context \in Contexts
    /\ verdict \in Verdicts
    /\ rows \in Rowsets /\ open \subseteq Tasks
    /\ account \in Nat /\ verdict.of <= account
    /\ listVisit # Nil => listVisit.date \in Calendar /\ listVisit.of \in Nat /\ listVisit.of <= account

CallTypes ==
    /\ load \in [Loads -> ListReads]
    /\ check \in AccountReads
    /\ post \in [Tasks -> Completions]
    /\ \A l \in Loads : load[l].phase = "answered" => load[l].of <= account
    /\ check.phase = "answered" => check.of <= account

\* One list read at most is believed.  It is of the shown day and context, and of an account
\* the page takes for connected; what it was answered is no older than that verdict, and
\* what it still holds of the acknowledged tasks is remembered.
LoadsOwned ==
    /\ \A l \in Loads : LatestLoad(l) =>
          /\ load[l].date = date /\ load[l].context = context /\ key = <<date, context>>
          /\ Lists!Connected(verdict)
    /\ \A l, m \in Loads : LatestLoad(l) /\ LatestLoad(m) => l = m
    /\ \A l \in Loads : LatestLoad(l) /\ load[l].phase = "answered" =>
          load[l].of >= verdict.of /\ load[l].tasks \intersect told \subseteq completed

\* Rows on the screen, and rows a completion may put back, are of the shown day.
Holding == rows.tasks # {} \/ \E t \in Tasks : OwnPost(t)

RowsOwned ==
    Holding => /\ rows.date = date /\ rows.context = context /\ key = <<date, context>>
               /\ Lists!Connected(verdict)

\* A task being completed is neither on the screen nor acknowledged; a closed one is not open.
PostsOwned ==
    /\ \A t \in Tasks : OwnPost(t) => t \in pending /\ t \notin rows.tasks /\ t \notin told
    /\ \A t \in Tasks : post[t].phase = "closed" => t \notin open
    /\ told \intersect open = {}

\* The account is only read before anything else is known of it.
CheckFirst == check.phase # "idle" /\ check.latest /\ check.same => verdict = Lists!Unproven

SpinnerKept == loading => \E l \in Loads : LatestLoad(l)

ListInv ==
    /\ PageTypes /\ CallTypes
    /\ LoadsOwned /\ RowsOwned /\ PostsOwned /\ CheckFirst /\ SpinnerKept
    /\ Lists!StaysCompleted

KeepsLists == ListInv' /\ Lists!NotOlderVerdict

-----------------------------------------------------------------------------

LEMMA LatestMeans ==
    ASSUME CallTypes, NEW l \in Loads
    PROVE  /\ (load[l] # Lists!Idle) <=> load[l].phase # "idle"
           /\ (load[l] # Lists!Idle /\ Lists!Current(l)) <=> LatestLoad(l)
           /\ LatestLoad(l) \in BOOLEAN
<1>1. load[l] \in ListReads
  BY DEF CallTypes
<1>2. load[l] # Lists!Idle <=> load[l].phase # "idle"
  BY <1>1 DEF ListReads, Lists!Idle
<1>3. QED
  BY <1>2 DEF LatestLoad, Lists!Current

LEMMA InvImpliesTrue == ListInv => Lists!ListTrue
BY LatestMeans DEF ListInv, RowsOwned, Holding, SpinnerKept, Lists!ListTrue, Lists!RowsOfShownDay,
   Lists!SpinnerOwned

LEMMA VerdictOf ==
    ASSUME NEW n \in Nat
    PROVE  /\ Lists!Verdict(n) \in Verdicts /\ Lists!Verdict(n).of = n
           /\ Lists!Connected(Lists!Verdict(n)) <=> Lists!On(n)
BY DEF Lists!Verdict, Verdicts, Lists!Connected

\* Reads that are outdated stay what they are, and are believed no more.
LEMMA OutdatedLoads ==
    ASSUME CallTypes
    PROVE  /\ Lists!AllOutdated \in [Loads -> ListReads]
           /\ \A l \in Loads :
                 /\ ~(Lists!AllOutdated[l].phase # "idle" /\ Lists!AllOutdated[l].latest)
                 /\ Lists!AllOutdated[l].phase = "answered" => Lists!AllOutdated[l].of <= account
<1>1. ASSUME NEW l \in Loads
      PROVE  /\ Lists!AllOutdated[l] \in ListReads
             /\ ~(Lists!AllOutdated[l].phase # "idle" /\ Lists!AllOutdated[l].latest)
             /\ Lists!AllOutdated[l].phase = "answered" => Lists!AllOutdated[l].of <= account
  <2>1. load[l] \in ListReads /\ (load[l].phase = "answered" => load[l].of <= account)
    BY DEF CallTypes
  <2>2. Lists!AllOutdated[l] = IF load[l] = Lists!Idle THEN Lists!Idle ELSE [load[l] EXCEPT !.latest = FALSE]
    BY DEF Lists!AllOutdated, Lists!Outdated
  <2>3. CASE load[l] \in [phase : {"idle"}]
    BY <2>2, <2>3 DEF Lists!Idle, ListReads
  <2>4. CASE load[l] \in [phase : {"sent"}, latest : BOOLEAN, date : Calendar, context : Contexts]
    <3>1. load[l] # Lists!Idle
      BY <2>4 DEF Lists!Idle
    <3>2. Lists!AllOutdated[l] = [load[l] EXCEPT !.latest = FALSE]
      BY <2>2, <3>1
    <3>3. /\ [load[l] EXCEPT !.latest = FALSE]
                \in [phase : {"sent"}, latest : BOOLEAN, date : Calendar, context : Contexts]
          /\ [load[l] EXCEPT !.latest = FALSE].latest = FALSE
          /\ [load[l] EXCEPT !.latest = FALSE].phase = "sent"
      BY <2>4
    <3>4. QED
      BY <3>2, <3>3 DEF ListReads
  <2>5. CASE load[l] \in [phase : {"answered"}, latest : BOOLEAN, date : Calendar,
                          context : Contexts, of : Nat, tasks : SUBSET Tasks]
    <3>1. load[l] # Lists!Idle
      BY <2>5 DEF Lists!Idle
    <3>2. Lists!AllOutdated[l] = [load[l] EXCEPT !.latest = FALSE]
      BY <2>2, <3>1
    <3>3. /\ [load[l] EXCEPT !.latest = FALSE]
                \in [phase : {"answered"}, latest : BOOLEAN, date : Calendar, context : Contexts,
                     of : Nat, tasks : SUBSET Tasks]
          /\ [load[l] EXCEPT !.latest = FALSE].latest = FALSE
          /\ [load[l] EXCEPT !.latest = FALSE].of = load[l].of /\ load[l].phase = "answered"
      BY <2>5
    <3>4. QED
      BY <2>1, <3>2, <3>3 DEF ListReads
  <2>6. QED
    BY <2>1, <2>3, <2>4, <2>5 DEF ListReads
<1>2. Lists!AllOutdated = [l \in Loads |-> Lists!AllOutdated[l]]
  BY DEF Lists!AllOutdated
<1>3. QED
  BY <1>1, <1>2

LEMMA OutdatedCheck ==
    ASSUME CallTypes, check' = Lists!Outdated(check), account' = account
    PROVE  /\ check' \in AccountReads
           /\ ~(check'.phase # "idle" /\ check'.latest)
           /\ check'.phase = "answered" => check'.of <= account'
<1>1. check \in AccountReads /\ (check.phase = "answered" => check.of <= account)
  BY DEF CallTypes
<1>2. CASE check \in [phase : {"idle"}]
  BY <1>2 DEF Lists!Idle, Lists!Outdated, AccountReads
<1>3. CASE check \in [phase : {"sent"}, latest : BOOLEAN, same : BOOLEAN]
  BY <1>3 DEF Lists!Idle, Lists!Outdated, AccountReads
<1>4. CASE check \in [phase : {"answered"}, latest : BOOLEAN, same : BOOLEAN, of : Nat]
  BY <1>1, <1>4 DEF Lists!Idle, Lists!Outdated, AccountReads
<1>5. QED
  BY <1>1, <1>2, <1>3, <1>4 DEF AccountReads

\* A completion in flight that became foreign is what it was, of an earlier epoch.
LEMMA ForeignPost ==
    ASSUME CallTypes, NEW t \in Tasks
    PROVE  /\ Lists!Foreign(post[t]) \in Completions
           /\ ~(Lists!Foreign(post[t]).phase # "idle" /\ Lists!Foreign(post[t]).same)
           /\ Lists!Foreign(post[t]).phase = post[t].phase
<1>1. post[t] \in Completions
  BY DEF CallTypes
<1>2. CASE post[t] \in [phase : {"idle"}]
  BY <1>2 DEF Lists!Idle, Lists!Foreign, Completions
<1>3. CASE post[t] \in [phase : {"sent", "closed"}, same : BOOLEAN]
  BY <1>3 DEF Lists!Idle, Lists!Foreign, Completions
<1>4. QED
  BY <1>1, <1>2, <1>3 DEF Completions

LEMMA Cleared ==
    ASSUME CallTypes, Lists!Clear
    PROVE  /\ rows'.tasks = {} /\ rows' \in Rowsets /\ post' \in [Tasks -> Completions]
           /\ \A t \in Tasks : ~OwnPost(t)' /\ post'[t].phase = post[t].phase
BY ForeignPost DEF Lists!Clear, Lists!NoRows, OwnPost, Rowsets

\* One read is sent, and the only one that is believed.
Sent(d, c) ==
    \E l \in Loads :
        /\ load'[l].phase = "sent" /\ load'[l].latest /\ load'[l].date = d /\ load'[l].context = c
        /\ \A m \in Loads : m # l => ~LatestLoad(m)'

LEMMA Sends ==
    ASSUME CallTypes, account' = account, NEW d \in Calendar, NEW c \in Contexts, NEW refresh,
           Lists!Send(d, c, refresh)
    PROVE  /\ Sent(d, c) /\ key' = <<d, c>>
           /\ load' \in [Loads -> ListReads]
           /\ \A l \in Loads : load'[l].phase = "answered" => load'[l].of <= account'
<1>1. PICK l \in Loads : load' = [Lists!AllOutdated EXCEPT ![l] = Lists!Fresh(d, c)]
  BY DEF Lists!Send
<1> DEFINE new == Lists!Fresh(d, c)
<1>2. /\ new \in ListReads /\ new.phase = "sent" /\ new.latest /\ new.date = d /\ new.context = c
  BY DEF Lists!Fresh, ListReads
<1>3. load' = [Lists!AllOutdated EXCEPT ![l] = new]
  BY <1>1
<1> HIDE DEF new
<1>4. /\ load' \in [Loads -> ListReads] /\ load'[l] = new
      /\ \A m \in Loads : m # l => load'[m] = Lists!AllOutdated[m]
  BY <1>2, <1>3, OutdatedLoads
<1>5. \A m \in Loads : m # l => ~LatestLoad(m)'
  BY <1>4, OutdatedLoads DEF LatestLoad
<1>6. Sent(d, c)
  BY <1>2, <1>4, <1>5 DEF Sent
<1>7. \A m \in Loads : load'[m].phase = "answered" => load'[m].of <= account'
  BY <1>2, <1>4, OutdatedLoads
<1>8. QED
  BY <1>4, <1>6, <1>7 DEF Lists!Send

\* Whether reads are sent or given up, none that was answered before is believed.
Restart ==
    \/ Sent(date', context') /\ key' = <<date', context'>> /\ Lists!Connected(verdict)'
    \/ (\A l \in Loads : ~LatestLoad(l)') /\ loading' = FALSE

LEMMA RestartOwns ==
    ASSUME Restart PROVE LoadsOwned' /\ SpinnerKept'
<1>1. CASE (\A l \in Loads : ~LatestLoad(l)') /\ loading' = FALSE
  BY <1>1 DEF LoadsOwned, SpinnerKept
<1>2. CASE Sent(date', context') /\ key' = <<date', context'>> /\ Lists!Connected(verdict)'
  <2>1. PICK l \in Loads :
            /\ load'[l].phase = "sent" /\ load'[l].latest
            /\ load'[l].date = date' /\ load'[l].context = context'
            /\ \A m \in Loads : m # l => ~LatestLoad(m)'
    BY <1>2 DEF Sent
  <2>2. LatestLoad(l)'
    BY <2>1 DEF LatestLoad
  <2>3. SpinnerKept'
    BY <2>2 DEF SpinnerKept
  <2>4. \A m \in Loads : LatestLoad(m)' => m = l
    BY <2>1
  <2>5. LoadsOwned'
    BY <1>2, <2>1, <2>4 DEF LoadsOwned
  <2>6. QED
    BY <2>3, <2>5
<1>3. QED
  BY <1>1, <1>2 DEF Restart

\* Another day, context or account: the rows and the completions go, the reads start again.
LEMMA ClearedOwns ==
    ASSUME ListInv, Restart, UNCHANGED <<open, told>>,
           rows'.tasks = {}, \A t \in Tasks : ~OwnPost(t)',
           \A t \in Tasks : post'[t].phase = "closed" => post[t].phase = "closed"
    PROVE  LoadsOwned' /\ RowsOwned' /\ PostsOwned' /\ SpinnerKept' /\ Lists!StaysCompleted'
<1>1. RowsOwned'
  BY DEF RowsOwned, Holding
<1>2. PostsOwned'
  BY DEF ListInv, PostsOwned
<1>3. Lists!StaysCompleted'
  BY DEF Lists!StaysCompleted
<1>4. QED
  BY <1>1, <1>2, <1>3, RestartOwns

\* The same day: the rows stay, the reads start again.
LEMMA KeptOwns ==
    ASSUME ListInv, Restart, UNCHANGED <<date, context, open, told, rows, pending, post>>,
           Holding => key' = key /\ Lists!Connected(verdict)'
    PROVE  LoadsOwned' /\ RowsOwned' /\ PostsOwned' /\ SpinnerKept' /\ Lists!StaysCompleted'
<1>1. \A t \in Tasks : OwnPost(t)' <=> OwnPost(t)
  BY DEF OwnPost
<1>2. RowsOwned'
  BY <1>1 DEF ListInv, RowsOwned, Holding
<1>3. PostsOwned'
  BY <1>1 DEF ListInv, PostsOwned
<1>4. Lists!StaysCompleted'
  BY DEF ListInv, Lists!StaysCompleted
<1>5. QED
  BY <1>2, <1>3, <1>4, RestartOwns

-----------------------------------------------------------------------------
(* The steps *)

LEMMA ListLoadSafe ==
    ASSUME ListDistinct, ListInv, NEW refresh \in BOOLEAN, Lists!Load(refresh) PROVE KeepsLists
<1>1. /\ Lists!Connected(verdict) /\ Lists!Send(date, context, refresh)
      /\ IF Lists!Changes(date, context) THEN Lists!Clear ELSE Lists!KeepRows
      /\ UNCHANGED <<date, context, verdict, check, listVisit, account, open, told>>
  BY DEF Lists!Load, Lists!serverVars
<1>2. /\ date \in Calendar /\ context \in Contexts /\ CallTypes
  BY DEF ListInv, PageTypes
<1>3. /\ Sent(date, context) /\ key' = <<date, context>> /\ load' \in [Loads -> ListReads]
      /\ \A l \in Loads : load'[l].phase = "answered" => load'[l].of <= account'
  BY <1>1, <1>2, Sends
<1>4. Restart
  BY <1>1, <1>3 DEF Restart
<1>5. /\ LoadsOwned' /\ RowsOwned' /\ PostsOwned' /\ SpinnerKept' /\ Lists!StaysCompleted'
      /\ rows' \in Rowsets /\ post' \in [Tasks -> Completions]
  <2>1. CASE Lists!Changes(date, context)
    <3>1. /\ rows'.tasks = {} /\ rows' \in Rowsets /\ post' \in [Tasks -> Completions]
          /\ \A t \in Tasks : ~OwnPost(t)' /\ post'[t].phase = post[t].phase
      BY <1>1, <1>2, <2>1, Cleared
    <3>2. QED
      BY <1>1, <1>4, <3>1, ClearedOwns
  <2>2. CASE ~Lists!Changes(date, context)
    <3>1. UNCHANGED <<rows, pending, completed, post>>
      BY <1>1, <2>2 DEF Lists!KeepRows
    <3>2. Holding => key' = key
      BY <1>3 DEF ListInv, RowsOwned
    <3>3. QED
      BY <1>1, <1>4, <3>1, <3>2, KeptOwns DEF ListInv, PageTypes, CallTypes
  <2>3. QED
    BY <2>1, <2>2
<1>6. PageTypes' /\ CallTypes'
  BY <1>1, <1>3, <1>5 DEF ListInv, PageTypes, CallTypes
<1>7. CheckFirst'
  BY <1>1 DEF ListInv, CheckFirst, Lists!Unproven
<1>8. Lists!NotOlderVerdict
  BY <1>1 DEF ListInv, PageTypes, Verdicts, Lists!NotOlderVerdict
<1>9. QED
  BY <1>5, <1>6, <1>7, <1>8 DEF KeepsLists, ListInv

\* Rows of the day that is left go with it: they were asked for with its key.
LEMMA ListGoToSafe ==
    ASSUME ListDistinct, ListInv, NEW d \in Calendar, Lists!GoTo(d) PROVE KeepsLists
<1>1. /\ d # date /\ date' = d
      /\ UNCHANGED <<context, verdict, check, listVisit, account, open, told>>
  BY DEF Lists!GoTo, Lists!serverVars
<1>2. /\ date \in Calendar /\ context \in Contexts /\ CallTypes
  BY DEF ListInv, PageTypes
<1>3. /\ LoadsOwned' /\ RowsOwned' /\ PostsOwned' /\ SpinnerKept' /\ Lists!StaysCompleted'
      /\ rows' \in Rowsets /\ post' \in [Tasks -> Completions]
      /\ load' \in [Loads -> ListReads]
      /\ \A l \in Loads : load'[l].phase = "answered" => load'[l].of <= account'
  <2>1. CASE Lists!Connected(verdict)
    <3>1. /\ Lists!Send(d, context, FALSE)
          /\ IF Lists!Changes(d, context) THEN Lists!Clear ELSE Lists!KeepRows
      BY <2>1 DEF Lists!GoTo
    <3>2. /\ Sent(d, context) /\ key' = <<d, context>> /\ load' \in [Loads -> ListReads]
          /\ \A l \in Loads : load'[l].phase = "answered" => load'[l].of <= account'
      BY <1>1, <1>2, <3>1, Sends
    <3>3. Restart
      BY <1>1, <2>1, <3>2 DEF Restart
    <3>4. CASE Lists!Changes(d, context)
      <4>1. /\ rows'.tasks = {} /\ rows' \in Rowsets /\ post' \in [Tasks -> Completions]
            /\ \A t \in Tasks : ~OwnPost(t)' /\ post'[t].phase = post[t].phase
        BY <1>2, <3>1, <3>4, Cleared
      <4>2. QED
        BY <1>1, <3>2, <3>3, <4>1, ClearedOwns
    <3>5. CASE ~Lists!Changes(d, context)
      <4>1. UNCHANGED <<rows, pending, completed, post>>
        BY <3>1, <3>5 DEF Lists!KeepRows
      <4>2. ~Holding
        <5>1. <<date, context>> # Nil /\ <<date, context>> # <<d, context>>
          BY <1>1, <1>2 DEF ListDistinct
        <5>2. QED
          BY <3>5, <5>1 DEF ListInv, RowsOwned, Lists!Changes
      <4>3. rows'.tasks = {} /\ \A t \in Tasks : ~OwnPost(t)' /\ post'[t].phase = post[t].phase
        BY <4>1, <4>2 DEF Holding, OwnPost
      <4>4. rows' \in Rowsets /\ post' \in [Tasks -> Completions]
        BY <1>2, <4>1 DEF CallTypes, ListInv, PageTypes
      <4>5. QED
        BY <1>1, <3>2, <3>3, <4>3, <4>4, ClearedOwns
    <3>6. QED
      BY <3>4, <3>5
  <2>2. CASE ~Lists!Connected(verdict)
    <3>1. UNCHANGED <<load, key, loading, rows, pending, completed, post>>
      BY <2>2 DEF Lists!GoTo, Lists!KeepRows
    <3>2. ~Holding /\ \A l \in Loads : ~LatestLoad(l)
      BY <2>2 DEF ListInv, RowsOwned, LoadsOwned
    <3>3. \A l \in Loads : ~LatestLoad(l)'
      BY <3>1, <3>2 DEF LatestLoad
    <3>4. LoadsOwned'
      BY <3>3 DEF LoadsOwned
    <3>5. SpinnerKept'
      BY <3>1, <3>2, <3>3 DEF ListInv, SpinnerKept
    <3>6. rows'.tasks = {} /\ \A t \in Tasks : ~OwnPost(t)' /\ post'[t].phase = post[t].phase
      BY <3>1, <3>2 DEF Holding, OwnPost
    <3>7. RowsOwned' /\ Lists!StaysCompleted'
      BY <3>6 DEF RowsOwned, Holding, Lists!StaysCompleted
    <3>8. PostsOwned'
      BY <1>1, <3>6 DEF ListInv, PostsOwned
    <3>9. QED
      BY <1>1, <1>2, <3>1, <3>4, <3>5, <3>6, <3>7, <3>8 DEF CallTypes, ListInv, PageTypes
  <2>3. QED
    BY <2>1, <2>2
<1>4. PageTypes' /\ CallTypes'
  BY <1>1, <1>3 DEF ListInv, PageTypes, CallTypes
<1>5. CheckFirst'
  BY <1>1 DEF ListInv, CheckFirst, Lists!Unproven
<1>6. Lists!NotOlderVerdict
  BY <1>1 DEF ListInv, PageTypes, Verdicts, Lists!NotOlderVerdict
<1>7. QED
  BY <1>3, <1>4, <1>5, <1>6 DEF KeepsLists, ListInv

LEMMA ListSwitchContextSafe ==
    ASSUME ListDistinct, ListInv, NEW c \in Contexts, Lists!SwitchContext(c) PROVE KeepsLists
<1>1. /\ context' = c /\ Lists!Clear /\ check' = Lists!Outdated(check)
      /\ UNCHANGED <<date, verdict, listVisit, account, open, told>>
  BY DEF Lists!SwitchContext, Lists!serverVars
<1>2. /\ date \in Calendar /\ context \in Contexts /\ CallTypes
  BY DEF ListInv, PageTypes
<1>3. /\ rows'.tasks = {} /\ rows' \in Rowsets /\ post' \in [Tasks -> Completions]
      /\ \A t \in Tasks : ~OwnPost(t)' /\ post'[t].phase = post[t].phase
  BY <1>1, <1>2, Cleared
<1>4. /\ Restart /\ load' \in [Loads -> ListReads]
      /\ \A l \in Loads : load'[l].phase = "answered" => load'[l].of <= account'
  <2>1. CASE Lists!Connected(verdict)
    <3>1. Lists!Send(date, c, FALSE)
      BY <2>1 DEF Lists!SwitchContext
    <3>2. QED
      BY <1>1, <1>2, <2>1, <3>1, Sends DEF Restart
  <2>2. CASE ~Lists!Connected(verdict)
    <3>1. load' = Lists!AllOutdated /\ loading' = FALSE
      BY <2>2 DEF Lists!SwitchContext, Lists!StopSpinner
    <3>2. QED
      BY <1>1, <1>2, <3>1, OutdatedLoads DEF Restart, LatestLoad
  <2>3. QED
    BY <2>1, <2>2
<1>5. LoadsOwned' /\ RowsOwned' /\ PostsOwned' /\ SpinnerKept' /\ Lists!StaysCompleted'
  BY <1>1, <1>3, <1>4, ClearedOwns
<1>6. PageTypes' /\ CallTypes'
  BY <1>1, <1>2, <1>3, <1>4, OutdatedCheck DEF ListInv, PageTypes, CallTypes
<1>7. CheckFirst'
  BY <1>1, <1>2, OutdatedCheck DEF CheckFirst
<1>8. Lists!NotOlderVerdict
  BY <1>1 DEF ListInv, PageTypes, Verdicts, Lists!NotOlderVerdict
<1>9. QED
  BY <1>5, <1>6, <1>7, <1>8 DEF KeepsLists, ListInv

LEMMA ListStartVisitSafe ==
    ASSUME ListDistinct, ListInv, NEW d \in Calendar, Lists!StartVisit(d) PROVE KeepsLists
<1>1. /\ listVisit' = [date |-> d, of |-> account]
      /\ UNCHANGED <<date, context, key, verdict, loading, rows, pending, completed,
                     load, check, post, account, open, told>>
  BY DEF Lists!StartVisit, Lists!serverVars, Lists!pageVars
<1>2. PageTypes'
  BY <1>1 DEF ListInv, PageTypes
<1>3. CallTypes' /\ CheckFirst' /\ Lists!StaysCompleted'
  BY <1>1 DEF ListInv, CallTypes, CheckFirst, Lists!StaysCompleted
<1>4. LoadsOwned' /\ SpinnerKept'
  BY <1>1 DEF ListInv, LoadsOwned, SpinnerKept, LatestLoad
<1>5. RowsOwned' /\ PostsOwned'
  BY <1>1 DEF ListInv, RowsOwned, PostsOwned, Holding, OwnPost
<1>6. Lists!NotOlderVerdict
  BY <1>1 DEF ListInv, PageTypes, Verdicts, Lists!NotOlderVerdict
<1>7. QED
  BY <1>2, <1>3, <1>4, <1>5, <1>6 DEF KeepsLists, ListInv

LEMMA ListArriveVisitSafe == ASSUME ListDistinct, ListInv, Lists!ArriveVisit PROVE KeepsLists
<1>1. /\ listVisit # Nil /\ date' = listVisit.date /\ listVisit' = Nil
      /\ verdict' = Lists!Verdict(listVisit.of) /\ Lists!Clear /\ check' = Lists!Outdated(check)
      /\ Lists!Watched(Lists!Verdict(listVisit.of), listVisit.date, context)
      /\ UNCHANGED <<context, account, open, told>>
  BY DEF Lists!ArriveVisit, Lists!Invalidate, Lists!serverVars
<1>2. /\ listVisit.date \in Calendar /\ listVisit.of \in Nat /\ listVisit.of <= account
      /\ context \in Contexts /\ CallTypes
  BY <1>1 DEF ListInv, PageTypes
<1>3. /\ rows'.tasks = {} /\ rows' \in Rowsets /\ post' \in [Tasks -> Completions]
      /\ \A t \in Tasks : ~OwnPost(t)' /\ post'[t].phase = post[t].phase
  BY <1>1, <1>2, Cleared
<1>4. /\ Restart /\ load' \in [Loads -> ListReads]
      /\ \A l \in Loads : load'[l].phase = "answered" => load'[l].of <= account'
  <2>1. CASE Lists!Connected(Lists!Verdict(listVisit.of))
    <3>1. Lists!Send(listVisit.date, context, FALSE)
      BY <1>1, <2>1 DEF Lists!Watched
    <3>2. Lists!Connected(verdict)'
      BY <1>1, <2>1 DEF Lists!Connected
    <3>3. QED
      BY <1>1, <1>2, <3>1, <3>2, Sends DEF Restart
  <2>2. CASE ~Lists!Connected(Lists!Verdict(listVisit.of))
    <3>1. load' = Lists!AllOutdated /\ loading' = FALSE
      BY <1>1, <2>2 DEF Lists!Watched, Lists!StopSpinner
    <3>2. QED
      BY <1>1, <1>2, <3>1, OutdatedLoads DEF Restart, LatestLoad
  <2>3. QED
    BY <2>1, <2>2
<1>5. LoadsOwned' /\ RowsOwned' /\ PostsOwned' /\ SpinnerKept' /\ Lists!StaysCompleted'
  BY <1>1, <1>3, <1>4, ClearedOwns
<1>6. verdict' \in Verdicts /\ verdict'.of <= account'
  BY <1>1, <1>2, VerdictOf
<1>7. PageTypes' /\ CallTypes'
  BY <1>1, <1>2, <1>3, <1>4, <1>6, OutdatedCheck DEF ListInv, PageTypes, CallTypes
<1>8. CheckFirst'
  BY <1>1, <1>2, OutdatedCheck DEF CheckFirst
<1>9. Lists!NotOlderVerdict
  BY <1>1 DEF Lists!NotOlderVerdict
<1>10. QED
  BY <1>5, <1>7, <1>8, <1>9 DEF KeepsLists, ListInv
-----------------------------------------------------------------------------
(* Answers to list reads *)

\* One read changes; none of the others becomes believed.
LEMMA OneLoad ==
    ASSUME CallTypes, NEW l \in Loads, NEW new \in ListReads, load' = [load EXCEPT ![l] = new],
           account' = account, new.phase = "answered" => new.of <= account
    PROVE  /\ load'[l] = new /\ \A m \in Loads : m # l => load'[m] = load[m]
           /\ load' \in [Loads -> ListReads]
           /\ \A m \in Loads : load'[m].phase = "answered" => load'[m].of <= account'
           /\ \A m \in Loads : m # l => (LatestLoad(m)' <=> LatestLoad(m))
BY DEF CallTypes, LatestLoad

\* A list is what the server holds, and the acknowledged tasks are closed there.
LEMMA ListAnswerSafe ==
    ASSUME ListDistinct, ListInv, NEW l \in Loads, Lists!Answer(l) PROVE KeepsLists
<1>1. PICK some \in SUBSET (open \intersect Lists!Closing) :
          load' = [load EXCEPT ![l] = [phase |-> "answered", latest |-> @.latest, date |-> @.date,
                                       context |-> @.context, of |-> account,
                                       tasks |-> (open \ Lists!Closing) \union some]]
  BY DEF Lists!Answer
<1> DEFINE new == [phase |-> "answered", latest |-> load[l].latest, date |-> load[l].date,
                   context |-> load[l].context, of |-> account,
                   tasks |-> (open \ Lists!Closing) \union some]
<1>2. load[l].phase = "sent" /\ load[l] \in ListReads
      /\ UNCHANGED <<date, context, key, verdict, loading, rows, pending, completed,
                     check, post, listVisit, account, open, told>>
  BY DEF Lists!Answer, Lists!serverVars, Lists!pageVars, ListInv, CallTypes
<1>3. load[l] \in [phase : {"sent"}, latest : BOOLEAN, date : Calendar, context : Contexts]
  BY <1>2 DEF ListReads
<1>4. /\ account \in Nat /\ CallTypes
      /\ (open \ Lists!Closing) \union some \subseteq Tasks
      /\ ((open \ Lists!Closing) \union some) \intersect told = {}
  BY DEF ListInv, PageTypes, PostsOwned
<1>5. /\ new \in ListReads /\ new.phase = "answered" /\ new.latest = load[l].latest
      /\ new.date = load[l].date /\ new.context = load[l].context /\ new.of = account
      /\ new.tasks \intersect told = {}
  BY <1>3, <1>4 DEF ListReads
<1>6. load' = [load EXCEPT ![l] = new]
  BY <1>1
<1> HIDE DEF new
<1>7. account <= account
  BY <1>4
<1>8. /\ load'[l] = new /\ \A m \in Loads : m # l => load'[m] = load[m]
      /\ load' \in [Loads -> ListReads]
      /\ \A m \in Loads : load'[m].phase = "answered" => load'[m].of <= account'
      /\ \A m \in Loads : m # l => (LatestLoad(m)' <=> LatestLoad(m))
  BY <1>2, <1>4, <1>5, <1>6, <1>7, OneLoad
<1>9. LatestLoad(l)' <=> LatestLoad(l)
  BY <1>2, <1>5, <1>8 DEF LatestLoad
<1>10. PageTypes' /\ CallTypes'
  BY <1>2, <1>8 DEF ListInv, PageTypes, CallTypes
<1>11. LoadsOwned'
  <2>1. ASSUME NEW m \in Loads, LatestLoad(m)'
        PROVE  /\ load'[m].date = date' /\ load'[m].context = context'
               /\ key' = <<date', context'>> /\ Lists!Connected(verdict)'
    BY <1>2, <1>5, <1>8, <1>9, <2>1 DEF ListInv, LoadsOwned, Lists!Connected
  <2>2. ASSUME NEW m \in Loads, NEW n \in Loads, LatestLoad(m)', LatestLoad(n)' PROVE m = n
    BY <1>8, <1>9, <2>2 DEF ListInv, LoadsOwned
  <2>3. ASSUME NEW m \in Loads, LatestLoad(m)', load'[m].phase = "answered"
        PROVE  load'[m].of >= verdict'.of /\ load'[m].tasks \intersect told' \subseteq completed'
    <3>1. CASE m = l
      BY <1>2, <1>5, <1>8, <3>1 DEF ListInv, PageTypes, Verdicts
    <3>2. CASE m # l
      BY <1>2, <1>8, <2>3, <3>2 DEF ListInv, LoadsOwned
    <3>3. QED
      BY <3>1, <3>2
  <2>4. QED
    BY <2>1, <2>2, <2>3 DEF LoadsOwned
<1>12. SpinnerKept'
  BY <1>2, <1>8, <1>9 DEF ListInv, SpinnerKept
<1>13. RowsOwned' /\ PostsOwned' /\ CheckFirst' /\ Lists!StaysCompleted'
  BY <1>2 DEF ListInv, RowsOwned, Holding, PostsOwned, OwnPost, CheckFirst, Lists!StaysCompleted,
     Lists!Connected
<1>14. Lists!NotOlderVerdict
  BY <1>2 DEF ListInv, PageTypes, Verdicts, Lists!NotOlderVerdict
<1>15. QED
  BY <1>10, <1>11, <1>12, <1>13, <1>14 DEF KeepsLists, ListInv

\* A read ends, and with it the spinner if it was its own.
LEMMA LoadEnds ==
    ASSUME ListInv, NEW l \in Loads, Lists!Free(l), loading' => loading /\ ~LatestLoad(l),
           UNCHANGED <<date, context, key, verdict, rows, pending, completed, check, post, listVisit,
                       account, open, told>>
    PROVE  KeepsLists
<1>1. Lists!Idle \in ListReads /\ Lists!Idle.phase = "idle"
  BY DEF Lists!Idle, ListReads
<1>2. CallTypes /\ load' = [load EXCEPT ![l] = Lists!Idle]
  BY DEF ListInv, Lists!Free
<1>3. /\ load'[l] = Lists!Idle /\ \A m \in Loads : m # l => load'[m] = load[m]
      /\ load' \in [Loads -> ListReads]
      /\ \A m \in Loads : load'[m].phase = "answered" => load'[m].of <= account'
      /\ \A m \in Loads : m # l => (LatestLoad(m)' <=> LatestLoad(m))
  BY <1>1, <1>2, OneLoad
<1>4. ~LatestLoad(l)'
  BY <1>1, <1>3 DEF LatestLoad
<1>5. PageTypes' /\ CallTypes'
  BY <1>3 DEF ListInv, PageTypes, CallTypes
<1>6. LoadsOwned'
  BY <1>3, <1>4 DEF ListInv, LoadsOwned, Lists!Connected
<1>7. SpinnerKept'
  BY <1>3, <1>4 DEF ListInv, SpinnerKept
<1>8. RowsOwned' /\ PostsOwned' /\ CheckFirst' /\ Lists!StaysCompleted'
  BY DEF ListInv, RowsOwned, Holding, PostsOwned, OwnPost, CheckFirst, Lists!StaysCompleted,
     Lists!Connected
<1>9. Lists!NotOlderVerdict
  BY DEF ListInv, PageTypes, Verdicts, Lists!NotOlderVerdict
<1>10. QED
  BY <1>5, <1>6, <1>7, <1>8, <1>9 DEF KeepsLists, ListInv

LEMMA ListDeliverFailureSafe ==
    ASSUME ListDistinct, ListInv, NEW l \in Loads, Lists!DeliverFailure(l) PROVE KeepsLists
<1>1. /\ Lists!Free(l) /\ load[l] # Lists!Idle
      /\ loading' = IF Lists!Current(l) THEN FALSE ELSE loading
      /\ UNCHANGED <<date, context, key, verdict, rows, pending, completed, check, post, listVisit,
                      account, open, told>>
  BY DEF Lists!DeliverFailure, Lists!serverVars
<1>2. loading' => loading /\ ~LatestLoad(l)
  BY <1>1, LatestMeans DEF ListInv
<1>3. QED
  BY <1>1, <1>2, LoadEnds

\* An account read that a list has overtaken is not believed.
LEMMA OvertakenCheck ==
    ASSUME CallTypes, account' = account,
           check' = IF check # Lists!Idle THEN [check EXCEPT !.same = FALSE] ELSE check
    PROVE  /\ check' \in AccountReads
           /\ check'.phase = "answered" => check'.of <= account'
           /\ ~(check'.phase # "idle" /\ check'.latest /\ check'.same)
<1>1. check \in AccountReads /\ (check.phase = "answered" => check.of <= account)
  BY DEF CallTypes
<1>2. CASE check \in [phase : {"idle"}]
  BY <1>2 DEF Lists!Idle, AccountReads
<1>3. CASE check \in [phase : {"sent"}, latest : BOOLEAN, same : BOOLEAN]
  <2>1. check' = [check EXCEPT !.same = FALSE]
    BY <1>3 DEF Lists!Idle
  <2>2. check' \in [phase : {"sent"}, latest : BOOLEAN, same : BOOLEAN] /\ check'.same = FALSE
    BY <1>3, <2>1
  <2>3. QED
    BY <2>2 DEF AccountReads
<1>4. CASE check \in [phase : {"answered"}, latest : BOOLEAN, same : BOOLEAN, of : Nat]
  <2>1. check' = [check EXCEPT !.same = FALSE]
    BY <1>4 DEF Lists!Idle
  <2>2. /\ check' \in [phase : {"answered"}, latest : BOOLEAN, same : BOOLEAN, of : Nat]
        /\ check'.same = FALSE /\ check'.of = check.of /\ check.phase = "answered"
    BY <1>4, <2>1
  <2>3. QED
    BY <1>1, <2>2 DEF AccountReads
<1>5. QED
  BY <1>1, <1>2, <1>3, <1>4 DEF AccountReads

\* The believed list: what it holds and the page has seen acknowledged stays off the screen.
LEMMA ListDeliverListSafe ==
    ASSUME ListDistinct, ListInv, NEW l \in Loads, Lists!Deliver(l), LatestLoad(l),
           Lists!On(load[l].of)
    PROVE  KeepsLists
<1>1. /\ load[l].phase = "answered" /\ Lists!Current(l)
      /\ verdict' = Lists!Verdict(load[l].of)
      /\ Lists!Reconcile(load[l].tasks) /\ Lists!Free(l) /\ loading' = FALSE
      /\ check' = IF check # Lists!Idle THEN [check EXCEPT !.same = FALSE] ELSE check
      /\ UNCHANGED <<pending, post, key, date, context, listVisit, account, open, told>>
  BY LatestMeans DEF Lists!Deliver, Lists!serverVars, ListInv
<1>2. load[l] \in [phase : {"answered"}, latest : BOOLEAN, date : Calendar, context : Contexts,
                   of : Nat, tasks : SUBSET Tasks]
  BY <1>1 DEF ListInv, CallTypes, ListReads
<1>3. /\ verdict' \in Verdicts /\ verdict'.of = load[l].of /\ Lists!Connected(verdict)'
      /\ verdict'.of <= account' /\ verdict'.of >= verdict.of
  <2>1. /\ load[l].of \in Nat /\ load[l].of <= account /\ load[l].of >= verdict.of
    BY <1>1, <1>2 DEF ListInv, CallTypes, LoadsOwned
  <2>2. Lists!Connected(Lists!Verdict(load[l].of))
    BY <2>1, VerdictOf
  <2>3. QED
    BY <1>1, <2>1, <2>2, VerdictOf DEF Lists!Connected
<1>4. key = <<date, context>>
  BY DEF ListInv, LoadsOwned
<1>5. Lists!Idle \in ListReads /\ Lists!Idle.phase = "idle" /\ CallTypes
  BY DEF Lists!Idle, ListReads, ListInv
<1>6. /\ load'[l] = Lists!Idle /\ \A m \in Loads : m # l => load'[m] = load[m]
      /\ load' \in [Loads -> ListReads]
      /\ \A m \in Loads : load'[m].phase = "answered" => load'[m].of <= account'
      /\ \A m \in Loads : m # l => (LatestLoad(m)' <=> LatestLoad(m))
  BY <1>1, <1>5, OneLoad DEF Lists!Free
<1>7. \A m \in Loads : ~LatestLoad(m)'
  BY <1>5, <1>6 DEF ListInv, LoadsOwned, LatestLoad
<1>8. LoadsOwned' /\ SpinnerKept'
  BY <1>1, <1>7 DEF LoadsOwned, SpinnerKept
<1>9. /\ rows'.date = date /\ rows'.context = context
      /\ rows'.tasks = load[l].tasks \ (pending \union (completed \intersect load[l].tasks))
           \/ rows'.tasks = load[l].tasks \ (pending \union completed)
  BY <1>1 DEF Lists!Reconcile, Lists!FilterRows
<1>10. RowsOwned'
  BY <1>1, <1>3, <1>4, <1>9 DEF RowsOwned
<1>11. \A t \in Tasks : OwnPost(t)' <=> OwnPost(t)
  BY <1>1 DEF OwnPost
<1>12. PostsOwned'
  BY <1>1, <1>9, <1>11 DEF ListInv, PostsOwned
<1>13. load[l].tasks \intersect told \subseteq completed
  BY <1>1 DEF ListInv, LoadsOwned
<1>14. Lists!StaysCompleted'
  BY <1>1, <1>9, <1>13 DEF Lists!StaysCompleted
<1>15. CheckFirst' /\ check' \in AccountReads
       /\ (check'.phase = "answered" => check'.of <= account')
  BY <1>1, <1>5, OvertakenCheck DEF CheckFirst
<1>16. rows' \in Rowsets
  BY <1>1, <1>2 DEF Lists!Reconcile, Lists!FilterRows, Rowsets, ListInv, PageTypes
<1>17. PageTypes' /\ CallTypes'
  BY <1>1, <1>3, <1>6, <1>15, <1>16 DEF ListInv, PageTypes, CallTypes
<1>18. Lists!NotOlderVerdict
  BY <1>3 DEF Lists!NotOlderVerdict
<1>19. QED
  BY <1>8, <1>10, <1>12, <1>14, <1>15, <1>17, <1>18 DEF KeepsLists, ListInv

\* The believed list says that there is no account.
LEMMA ListDeliverNobodySafe ==
    ASSUME ListDistinct, ListInv, NEW l \in Loads, Lists!Deliver(l), LatestLoad(l),
           ~Lists!On(load[l].of)
    PROVE  KeepsLists
<1>1. /\ load[l].phase = "answered" /\ Lists!Current(l)
      /\ verdict' = Lists!Verdict(load[l].of)
      /\ Lists!Clear /\ loading' = FALSE
      /\ load' = [Lists!AllOutdated EXCEPT ![l] = Lists!Idle]
      /\ check' = IF check # Lists!Idle THEN [check EXCEPT !.same = FALSE] ELSE check
      /\ UNCHANGED <<key, date, context, listVisit, account, open, told>>
  BY LatestMeans DEF Lists!Deliver, Lists!serverVars, ListInv
<1>2. /\ CallTypes /\ Lists!Idle \in ListReads /\ Lists!Idle.phase = "idle"
  BY DEF ListInv, Lists!Idle, ListReads
<1>3. /\ load[l].of \in Nat /\ load[l].of <= account /\ load[l].of >= verdict.of
  BY <1>1 DEF ListInv, CallTypes, ListReads, LoadsOwned
<1>4. verdict' \in Verdicts /\ verdict'.of <= account' /\ verdict'.of >= verdict.of
  BY <1>1, <1>3, VerdictOf
<1>5. /\ load' \in [Loads -> ListReads]
      /\ \A m \in Loads : ~LatestLoad(m)'
      /\ \A m \in Loads : load'[m].phase = "answered" => load'[m].of <= account'
  <2>1. /\ load' \in [Loads -> ListReads] /\ load'[l] = Lists!Idle
        /\ \A m \in Loads : m # l => load'[m] = Lists!AllOutdated[m]
    BY <1>1, <1>2, OutdatedLoads
  <2>2. QED
    BY <1>1, <1>2, <2>1, OutdatedLoads DEF LatestLoad
<1>6. Restart
  BY <1>1, <1>5 DEF Restart
<1>7. /\ rows'.tasks = {} /\ rows' \in Rowsets /\ post' \in [Tasks -> Completions]
      /\ \A t \in Tasks : ~OwnPost(t)' /\ post'[t].phase = post[t].phase
  BY <1>1, <1>2, Cleared
<1>8. LoadsOwned' /\ RowsOwned' /\ PostsOwned' /\ SpinnerKept' /\ Lists!StaysCompleted'
  BY <1>1, <1>6, <1>7, ClearedOwns
<1>9. CheckFirst' /\ check' \in AccountReads
       /\ (check'.phase = "answered" => check'.of <= account')
  BY <1>1, <1>2, OvertakenCheck DEF CheckFirst
<1>10. PageTypes' /\ CallTypes'
  BY <1>1, <1>4, <1>5, <1>7, <1>9 DEF ListInv, PageTypes, CallTypes
<1>11. Lists!NotOlderVerdict
  BY <1>4 DEF Lists!NotOlderVerdict
<1>12. QED
  BY <1>8, <1>9, <1>10, <1>11 DEF KeepsLists, ListInv

LEMMA ListDeliverSafe ==
    ASSUME ListDistinct, ListInv, NEW l \in Loads, Lists!Deliver(l) PROVE KeepsLists
<1>1. CASE ~LatestLoad(l)
  <2>1. ~Lists!Current(l) /\ load[l].phase = "answered"
    BY <1>1, LatestMeans DEF Lists!Deliver, ListInv, LatestLoad, Lists!Current
  <2>2. /\ Lists!Free(l) /\ loading' = loading
        /\ UNCHANGED <<date, context, key, verdict, rows, pending, completed, check, post, listVisit,
                        account, open, told>>
    BY <2>1 DEF Lists!Deliver, Lists!serverVars
  <2>3. QED
    BY <1>1, <2>2, LoadEnds
<1>2. QED
  BY <1>1, ListDeliverListSafe, ListDeliverNobodySafe

-----------------------------------------------------------------------------
(* Account reads *)

\* The account read changes, and is believed only if it was.
LEMMA CheckMoves ==
    ASSUME ListDistinct, ListInv, check' \in AccountReads,
           check'.phase = "answered" => check'.of <= account,
           CheckFirst',
           UNCHANGED <<date, context, key, verdict, loading, rows, pending, completed, load, post,
                       listVisit, account, open, told>>
    PROVE  KeepsLists
<1>1. PageTypes' /\ CallTypes' /\ Lists!StaysCompleted'
  BY DEF ListInv, PageTypes, CallTypes, Lists!StaysCompleted
<1>2. LoadsOwned' /\ SpinnerKept'
  BY DEF ListInv, LoadsOwned, SpinnerKept, LatestLoad, Lists!Connected
<1>3. RowsOwned' /\ PostsOwned'
  BY DEF ListInv, RowsOwned, PostsOwned, Holding, OwnPost, Lists!Connected
<1>4. Lists!NotOlderVerdict
  BY DEF ListInv, PageTypes, Verdicts, Lists!NotOlderVerdict
<1>5. QED
  BY <1>1, <1>2, <1>3, <1>4 DEF KeepsLists, ListInv

LEMMA ListAnswerCheckSafe == ASSUME ListDistinct, ListInv, Lists!AnswerCheck PROVE KeepsLists
<1>1. /\ check.phase = "sent"
      /\ check' = [phase |-> "answered", latest |-> check.latest, same |-> check.same, of |-> account]
      /\ UNCHANGED <<date, context, key, verdict, loading, rows, pending, completed, load, post,
                      listVisit, account, open, told>>
  BY DEF Lists!AnswerCheck, Lists!pageVars, Lists!serverVars
<1>2. check \in [phase : {"sent"}, latest : BOOLEAN, same : BOOLEAN] /\ account \in Nat
  BY <1>1 DEF ListInv, CallTypes, AccountReads, PageTypes
<1>3. check' \in AccountReads /\ check'.of = account /\ account <= account
  BY <1>1, <1>2 DEF AccountReads
<1>4. CheckFirst'
  BY <1>1 DEF ListInv, CheckFirst, Lists!Unproven
<1>5. QED
  BY <1>1, <1>3, <1>4, CheckMoves

LEMMA ListLoseCheckSafe == ASSUME ListDistinct, ListInv, Lists!LoseCheck PROVE KeepsLists
<1>1. /\ check' = Lists!Idle
      /\ UNCHANGED <<date, context, key, verdict, loading, rows, pending, completed, load, post,
                      listVisit, account, open, told>>
  BY DEF Lists!LoseCheck, Lists!pageVars, Lists!serverVars
<1>2. check' \in AccountReads /\ check'.phase = "idle"
  BY <1>1 DEF AccountReads, Lists!Idle
<1>3. CheckFirst'
  BY <1>2 DEF CheckFirst
<1>4. QED
  BY <1>1, <1>2, <1>3, CheckMoves

\* The first verdict of the page: it had no rows and had asked for none.
LEMMA ListDeliverCheckSafe == ASSUME ListDistinct, ListInv, Lists!DeliverCheck PROVE KeepsLists
<1>1. /\ check.phase = "answered" /\ check' = Lists!Idle
      /\ UNCHANGED <<rows, pending, completed, post, date, context, listVisit, account, open, told>>
  BY DEF Lists!DeliverCheck, Lists!KeepRows, Lists!serverVars
<1>2. check' \in AccountReads /\ check'.phase = "idle" /\ CheckFirst'
  BY <1>1 DEF AccountReads, Lists!Idle, CheckFirst
<1>3. CASE ~Lists!BelievedCheck
  <2>1. UNCHANGED <<verdict, load, key, loading>>
    BY <1>3 DEF Lists!DeliverCheck
  <2>2. QED
    BY <1>1, <1>2, <2>1, CheckMoves
<1>4. CASE Lists!BelievedCheck
  <2>1. verdict = Lists!Unproven
    BY <1>1, <1>4 DEF ListInv, CheckFirst, Lists!BelievedCheck
  <2>2. ~Lists!Connected(verdict) /\ verdict.of = 0
    BY <2>1 DEF Lists!Unproven, Lists!Connected
  <2>3. ~Holding /\ \A l \in Loads : ~LatestLoad(l)
    BY <2>2 DEF ListInv, RowsOwned, LoadsOwned
  <2>4. check.of \in Nat /\ check.of <= account
    BY <1>1 DEF ListInv, CallTypes, AccountReads
  <2>5. /\ verdict' = Lists!Verdict(check.of)
        /\ IF Lists!On(check.of) THEN Lists!Send(date, context, FALSE)
           ELSE UNCHANGED <<load, key, loading>>
    BY <1>4, <2>2 DEF Lists!DeliverCheck
  <2>6. /\ verdict' \in Verdicts /\ verdict'.of <= account' /\ verdict'.of >= verdict.of
        /\ Lists!On(check.of) => Lists!Connected(verdict)'
    <3>1. Lists!On(check.of) => Lists!Connected(Lists!Verdict(check.of))
      BY <2>4, VerdictOf
    <3>2. QED
      BY <1>1, <2>2, <2>4, <2>5, <3>1, VerdictOf DEF Lists!Connected
  <2>7. date \in Calendar /\ context \in Contexts /\ CallTypes
    BY DEF ListInv, PageTypes
  <2>8. /\ Restart \/ ((\A l \in Loads : ~LatestLoad(l)') /\ loading' = loading)
        /\ load' \in [Loads -> ListReads]
        /\ \A l \in Loads : load'[l].phase = "answered" => load'[l].of <= account'
    <3>1. CASE Lists!On(check.of)
      BY <1>1, <2>5, <2>6, <2>7, <3>1, Sends DEF Restart
    <3>2. CASE ~Lists!On(check.of)
      <4>1. UNCHANGED <<load, key, loading>>
        BY <2>5, <3>2
      <4>2. QED
        BY <1>1, <2>3, <2>7, <4>1 DEF LatestLoad, CallTypes
    <3>3. QED
      BY <3>1, <3>2
  <2>9. ~loading
    BY <2>3 DEF ListInv, SpinnerKept
  <2>10. Restart \/ ((\A l \in Loads : ~LatestLoad(l)') /\ ~loading')
    BY <2>8, <2>9
  <2>11. LoadsOwned' /\ SpinnerKept'
    BY <2>10, RestartOwns DEF LoadsOwned, SpinnerKept
  <2>12. /\ rows'.tasks = {} /\ \A t \in Tasks : ~OwnPost(t)' /\ post'[t].phase = post[t].phase
    BY <1>1, <2>3 DEF Holding, OwnPost
  <2>13. RowsOwned' /\ Lists!StaysCompleted'
    BY <2>12 DEF RowsOwned, Holding, Lists!StaysCompleted
  <2>14. PostsOwned'
    BY <1>1, <2>12 DEF ListInv, PostsOwned
  <2>15. PageTypes' /\ CallTypes'
    BY <1>1, <1>2, <2>6, <2>8 DEF ListInv, PageTypes, CallTypes
  <2>16. Lists!NotOlderVerdict
    BY <2>6 DEF Lists!NotOlderVerdict
  <2>17. QED
    BY <1>2, <2>11, <2>13, <2>14, <2>15, <2>16 DEF KeepsLists, ListInv
<1>5. QED
  BY <1>3, <1>4

-----------------------------------------------------------------------------
(* Completions *)

\* One completion and the rows change; days, verdict and reads stay.
LEMMA PostMoves ==
    ASSUME ListDistinct, ListInv, NEW t \in Tasks, NEW new \in Completions,
           post' = [post EXCEPT ![t] = new],
           Lists!StaysCompleted', PostsOwned', Holding' => Holding,
           rows'.date = rows.date, rows'.context = rows.context, rows' \in Rowsets,
           open' \subseteq Tasks, completed \subseteq completed',
           \A u \in told' : u \notin told => u \in completed',
           UNCHANGED <<date, context, key, verdict, loading, load, check, listVisit, account>>
    PROVE  KeepsLists
<1>1. post' \in [Tasks -> Completions]
  BY DEF ListInv, CallTypes
<1>2. PageTypes' /\ CallTypes' /\ CheckFirst'
  BY <1>1 DEF ListInv, PageTypes, CallTypes, CheckFirst, Lists!Unproven
<1>3. \A l \in Loads : LatestLoad(l)' <=> LatestLoad(l)
  BY DEF LatestLoad
<1>4. SpinnerKept'
  BY <1>3 DEF ListInv, SpinnerKept
<1>5. LoadsOwned'
  <2>1. ASSUME NEW l \in Loads, LatestLoad(l), load[l].phase = "answered"
        PROVE  load[l].tasks \intersect told' \subseteq completed'
    BY <2>1 DEF ListInv, LoadsOwned
  <2>2. QED
    BY <1>3, <2>1 DEF ListInv, LoadsOwned, Lists!Connected
<1>6. RowsOwned'
  BY DEF ListInv, RowsOwned, Lists!Connected
<1>7. Lists!NotOlderVerdict
  BY DEF ListInv, PageTypes, Verdicts, Lists!NotOlderVerdict
<1>8. QED
  BY <1>2, <1>4, <1>5, <1>6, <1>7 DEF KeepsLists, ListInv

LEMMA PostTyped ==
    ASSUME ListInv, NEW t \in Tasks, post[t].phase # "idle"
    PROVE  post[t] \in [phase : {"sent", "closed"}, same : BOOLEAN]
BY DEF ListInv, CallTypes, Completions

\* One completion changes; those of the other tasks are what they were.
LEMMA OnePost ==
    ASSUME ListInv, NEW t \in Tasks, NEW new, post' = [post EXCEPT ![t] = new]
    PROVE  /\ post'[t] = new
           /\ \A u \in Tasks : u # t => post'[u] = post[u] /\ (OwnPost(u)' <=> OwnPost(u))
BY DEF ListInv, CallTypes, OwnPost

LEMMA PostIdle ==
    ASSUME ListInv, NEW t \in Tasks, post[t] # Lists!Idle
    PROVE  post[t].phase # "idle"
BY DEF ListInv, CallTypes, Completions, Lists!Idle

LEMMA ListCompleteSafe ==
    ASSUME ListDistinct, ListInv, NEW t \in Tasks, Lists!Complete(t) PROVE KeepsLists
<1> DEFINE new == [phase |-> "sent", same |-> TRUE]
<1>1. /\ t \in rows.tasks /\ post' = [post EXCEPT ![t] = new]
      /\ pending' = pending \union {t}
      /\ rows' = [rows EXCEPT !.tasks = @ \ {t}]
      /\ UNCHANGED <<date, context, key, verdict, loading, completed, load, check, listVisit,
                      account, open, told>>
  BY DEF Lists!Complete, Lists!serverVars
<1>2. new \in Completions /\ new.phase = "sent" /\ new.same
  BY DEF Completions
<1> HIDE DEF new
<1>3. /\ post'[t] = new
      /\ \A u \in Tasks : u # t => post'[u] = post[u] /\ (OwnPost(u)' <=> OwnPost(u))
  BY <1>1, OnePost
<1>4. /\ rows'.tasks = rows.tasks \ {t}
      /\ rows'.date = rows.date /\ rows'.context = rows.context
      /\ rows' \in Rowsets /\ open \subseteq Tasks
  BY <1>1 DEF ListInv, PageTypes, Rowsets
<1>5. Lists!StaysCompleted' /\ t \notin told
  BY <1>1, <1>4 DEF ListInv, Lists!StaysCompleted
<1>6. PostsOwned'
  BY <1>1, <1>2, <1>3, <1>4, <1>5 DEF ListInv, PostsOwned
<1>7. Holding
  BY <1>1 DEF Holding
<1>8. QED
  BY <1>1, <1>2, <1>4, <1>5, <1>6, <1>7, PostMoves

LEMMA ListCloseSafe ==
    ASSUME ListDistinct, ListInv, NEW t \in Tasks, Lists!Close(t) PROVE KeepsLists
<1> DEFINE new == [phase |-> "closed", same |-> post[t].same]
<1>1. /\ post[t].phase = "sent" /\ post' = [post EXCEPT ![t] = new]
      /\ open' = open \ {t}
      /\ UNCHANGED <<date, context, key, verdict, loading, rows, pending, completed, load, check,
                      listVisit, account, told>>
  BY DEF Lists!Close, Lists!pageVars
<1>2. post[t].same \in BOOLEAN
  BY <1>1, PostTyped
<1>3. new \in Completions /\ new.phase = "closed" /\ new.same = post[t].same
  BY <1>2 DEF Completions
<1> HIDE DEF new
<1>4. /\ post'[t] = new
      /\ \A u \in Tasks : u # t => post'[u] = post[u] /\ (OwnPost(u)' <=> OwnPost(u))
  BY <1>1, OnePost
<1>5. OwnPost(t)' <=> OwnPost(t)
  BY <1>1, <1>3, <1>4 DEF OwnPost
<1>6. PostsOwned'
  BY <1>1, <1>4, <1>5 DEF ListInv, PostsOwned
<1>7. Lists!StaysCompleted' /\ (Holding' => Holding)
  BY <1>1, <1>4, <1>5 DEF ListInv, Lists!StaysCompleted, Holding
<1>8. rows' \in Rowsets /\ open' \subseteq Tasks
  BY <1>1 DEF ListInv, PageTypes
<1>9. QED
  BY <1>1, <1>3, <1>6, <1>7, <1>8, PostMoves

\* A task that is closed is not in what the server holds; the page remembers it until a
\* list lacks it.
LEMMA ListAcknowledgeSafe ==
    ASSUME ListDistinct, ListInv, NEW t \in Tasks, Lists!Acknowledge(t) PROVE KeepsLists
<1>1. /\ post[t].phase = "closed" /\ post' = [post EXCEPT ![t] = Lists!Idle]
      /\ UNCHANGED <<date, context, key, verdict, loading, rows, load, check, listVisit, account, open>>
  BY DEF Lists!Acknowledge, Lists!EndPost
<1>2. Lists!Idle \in Completions /\ Lists!Idle.phase = "idle"
  BY DEF Completions, Lists!Idle
<1>3. /\ post'[t] = Lists!Idle
      /\ \A u \in Tasks : u # t => post'[u] = post[u] /\ (OwnPost(u)' <=> OwnPost(u))
  BY <1>1, OnePost
<1>4. ~OwnPost(t)'
  BY <1>2, <1>3 DEF OwnPost
<1>5. t \notin open /\ rows' \in Rowsets /\ open' \subseteq Tasks
  BY <1>1 DEF ListInv, PostsOwned, PageTypes
<1>6. Holding' => Holding
  BY <1>1, <1>3, <1>4 DEF Holding
<1>7. CASE post[t].same
  <2>1. pending' = pending \ {t} /\ completed' = completed \union {t} /\ told' = told \union {t}
    BY <1>7 DEF Lists!Acknowledge, Lists!Remembered
  <2>2. OwnPost(t)
    BY <1>1, <1>7 DEF OwnPost
  <2>3. Lists!StaysCompleted'
    BY <1>1, <2>1, <2>2 DEF ListInv, PostsOwned, Lists!StaysCompleted
  <2>4. PostsOwned'
    BY <1>1, <1>2, <1>3, <1>4, <1>5, <2>1 DEF ListInv, PostsOwned
  <2>5. QED
    BY <1>1, <1>2, <1>5, <1>6, <2>1, <2>3, <2>4, PostMoves
<1>8. CASE ~post[t].same
  <2>1. UNCHANGED <<pending, completed, told>>
    BY <1>8 DEF Lists!Acknowledge
  <2>2. Lists!StaysCompleted'
    BY <1>1, <2>1 DEF ListInv, Lists!StaysCompleted
  <2>3. PostsOwned'
    BY <1>1, <1>2, <1>3, <1>4, <2>1 DEF ListInv, PostsOwned
  <2>4. QED
    BY <1>1, <1>2, <1>5, <1>6, <2>1, <2>2, <2>3, PostMoves
<1>9. QED
  BY <1>7, <1>8

\* What is put back was asked for on the shown day, and was never acknowledged.
LEMMA ListRollbackSafe ==
    ASSUME ListDistinct, ListInv, NEW t \in Tasks, Lists!Rollback(t) PROVE KeepsLists
<1>1. /\ post[t].phase # "idle" /\ post' = [post EXCEPT ![t] = Lists!Idle]
      /\ UNCHANGED <<date, context, key, verdict, loading, completed, load, check, listVisit,
                      account, open, told>>
  BY PostIdle DEF Lists!Rollback, Lists!EndPost, Lists!serverVars
<1>2. Lists!Idle \in Completions /\ Lists!Idle.phase = "idle"
  BY DEF Completions, Lists!Idle
<1>3. /\ post'[t] = Lists!Idle
      /\ \A u \in Tasks : u # t => post'[u] = post[u] /\ (OwnPost(u)' <=> OwnPost(u))
  BY <1>1, OnePost
<1>4. ~OwnPost(t)'
  BY <1>2, <1>3 DEF OwnPost
<1>5. open' \subseteq Tasks /\ rows \in Rowsets
  BY <1>1 DEF ListInv, PageTypes
<1>6. CASE post[t].same
  <2>1. pending' = pending \ {t} /\ rows' = [rows EXCEPT !.tasks = @ \union {t}]
    BY <1>6 DEF Lists!Rollback
  <2>2. /\ rows'.tasks = rows.tasks \union {t}
        /\ rows'.date = rows.date /\ rows'.context = rows.context
    BY <1>5, <2>1 DEF Rowsets
  <2>3. OwnPost(t)
    BY <1>1, <1>6 DEF OwnPost
  <2>4. t \notin told /\ Holding
    BY <2>3 DEF ListInv, PostsOwned, Holding
  <2>5. Lists!StaysCompleted'
    BY <1>1, <2>2, <2>4 DEF ListInv, Lists!StaysCompleted
  <2>6. PostsOwned'
    BY <1>1, <1>2, <1>3, <1>4, <2>1, <2>2 DEF ListInv, PostsOwned
  <2>7. rows' \in Rowsets
    BY <1>5, <2>1 DEF Rowsets
  <2>8. QED
    BY <1>1, <1>2, <1>5, <2>2, <2>4, <2>5, <2>6, <2>7, PostMoves
<1>7. CASE ~post[t].same
  <2>1. UNCHANGED <<pending, rows>>
    BY <1>7 DEF Lists!Rollback
  <2>2. Lists!StaysCompleted' /\ (Holding' => Holding)
    BY <1>1, <1>3, <1>4, <2>1 DEF ListInv, Lists!StaysCompleted, Holding
  <2>3. PostsOwned'
    BY <1>1, <1>2, <1>3, <1>4, <2>1 DEF ListInv, PostsOwned
  <2>4. QED
    BY <1>1, <1>2, <1>5, <2>1, <2>2, <2>3, PostMoves
<1>8. QED
  BY <1>6, <1>7

LEMMA ListNoAccountSafe ==
    ASSUME ListDistinct, ListInv, NEW t \in Tasks, Lists!NoAccount(t) PROVE KeepsLists
<1>1. /\ post[t].phase = "sent"
      /\ UNCHANGED <<date, context, key, listVisit, account, open, told>>
  BY DEF Lists!NoAccount, Lists!serverVars
<1>2. /\ Lists!Idle \in Completions /\ Lists!Idle.phase = "idle" /\ CallTypes
  BY DEF Completions, Lists!Idle, ListInv
<1>3. CASE ~post[t].same
  <2>1. /\ post' = [post EXCEPT ![t] = Lists!Idle]
        /\ UNCHANGED <<verdict, rows, pending, completed, load, loading, check>>
    BY <1>3 DEF Lists!NoAccount, Lists!EndPost
  <2>2. /\ post'[t] = Lists!Idle
        /\ \A u \in Tasks : u # t => post'[u] = post[u] /\ (OwnPost(u)' <=> OwnPost(u))
    BY <2>1, OnePost
  <2>3. ~OwnPost(t)'
    BY <1>2, <2>2 DEF OwnPost
  <2>4. Lists!StaysCompleted' /\ (Holding' => Holding)
    BY <1>1, <2>1, <2>2, <2>3 DEF ListInv, Lists!StaysCompleted, Holding
  <2>5. PostsOwned'
    BY <1>1, <1>2, <2>1, <2>2, <2>3 DEF ListInv, PostsOwned
  <2>6. rows' \in Rowsets /\ open' \subseteq Tasks
    BY <1>1, <2>1 DEF ListInv, PageTypes
  <2>7. QED
    BY <1>1, <1>2, <2>1, <2>4, <2>5, <2>6, PostMoves
<1>4. CASE post[t].same
  <2>1. /\ verdict' = Lists!Verdict(account) /\ rows' = Lists!NoRows
        /\ post' = [[u \in Tasks |-> Lists!Foreign(post[u])] EXCEPT ![t] = Lists!Idle]
        /\ load' = Lists!AllOutdated /\ loading' = FALSE
        /\ check' = Lists!Outdated(check)
    BY <1>4 DEF Lists!NoAccount, Lists!StopSpinner
  <2>2. Restart /\ load' \in [Loads -> ListReads]
        /\ \A l \in Loads : load'[l].phase = "answered" => load'[l].of <= account'
    BY <1>1, <1>2, <2>1, OutdatedLoads DEF Restart, LatestLoad
  <2>3. /\ rows'.tasks = {} /\ rows' \in Rowsets /\ post' \in [Tasks -> Completions]
        /\ \A u \in Tasks : ~OwnPost(u)'
        /\ \A u \in Tasks : post'[u].phase = "closed" => post[u].phase = "closed"
    <3>1. /\ post'[t] = Lists!Idle
          /\ \A u \in Tasks : u # t => post'[u] = Lists!Foreign(post[u])
          /\ post' \in [Tasks -> Completions]
      BY <1>2, <2>1, ForeignPost
    <3>2. QED
      BY <1>2, <2>1, <3>1, ForeignPost DEF OwnPost, Lists!NoRows, Rowsets
  <2>4. LoadsOwned' /\ RowsOwned' /\ PostsOwned' /\ SpinnerKept' /\ Lists!StaysCompleted'
    BY <1>1, <2>2, <2>3, ClearedOwns
  <2>5. account \in Nat /\ verdict.of <= account /\ verdict.of \in Nat
    BY DEF ListInv, PageTypes, Verdicts
  <2>6. verdict' \in Verdicts /\ verdict'.of <= account' /\ verdict'.of >= verdict.of
    BY <1>1, <2>1, <2>5, VerdictOf
  <2>7. CheckFirst' /\ check' \in AccountReads
        /\ (check'.phase = "answered" => check'.of <= account')
    BY <1>1, <1>2, <2>1, OutdatedCheck DEF CheckFirst
  <2>8. PageTypes' /\ CallTypes'
    BY <1>1, <2>2, <2>3, <2>6, <2>7 DEF ListInv, PageTypes, CallTypes
  <2>9. Lists!NotOlderVerdict
    BY <2>6 DEF Lists!NotOlderVerdict
  <2>10. QED
    BY <2>4, <2>7, <2>8, <2>9 DEF KeepsLists, ListInv
<1>5. QED
  BY <1>3, <1>4

LEMMA ListChangeAccountSafe == ASSUME ListDistinct, ListInv, Lists!ChangeAccount PROVE KeepsLists
<1>1. /\ account' = account + 1 /\ account \in Nat
      /\ UNCHANGED <<date, context, key, verdict, loading, rows, pending, completed, load, check,
                      post, listVisit, open, told>>
  BY DEF Lists!ChangeAccount, Lists!pageVars, Lists!callVars, ListInv, PageTypes
<1>2. ASSUME NEW n \in Nat, n <= account PROVE n <= account'
  BY <1>1, <1>2
<1>3. PageTypes'
  BY <1>1, <1>2 DEF ListInv, PageTypes, Verdicts
<1>4. CallTypes'
  <2>1. \A l \in Loads : load[l].phase = "answered" => load[l].of \in Nat
    BY DEF ListInv, CallTypes, ListReads
  <2>2. check.phase = "answered" => check.of \in Nat
    BY DEF ListInv, CallTypes, AccountReads
  <2>3. QED
    BY <1>1, <1>2, <2>1, <2>2 DEF ListInv, CallTypes
<1>5. CheckFirst' /\ Lists!StaysCompleted'
  BY <1>1 DEF ListInv, CheckFirst, Lists!StaysCompleted
<1>6. LoadsOwned' /\ SpinnerKept'
  BY <1>1 DEF ListInv, LoadsOwned, SpinnerKept, LatestLoad, Lists!Connected
<1>7. RowsOwned' /\ PostsOwned'
  BY <1>1 DEF ListInv, RowsOwned, PostsOwned, Holding, OwnPost, Lists!Connected
<1>8. Lists!NotOlderVerdict
  BY <1>1 DEF ListInv, PageTypes, Verdicts, Lists!NotOlderVerdict
<1>9. QED
  BY <1>3, <1>4, <1>5, <1>6, <1>7, <1>8 DEF KeepsLists, ListInv

LEMMA ListStep == ASSUME ListDistinct, ListInv, Lists!Next PROVE KeepsLists
BY ListLoadSafe, ListGoToSafe, ListStartVisitSafe, ListSwitchContextSafe, ListArriveVisitSafe, ListAnswerSafe, ListDeliverSafe,
   ListDeliverFailureSafe, ListAnswerCheckSafe, ListDeliverCheckSafe, ListLoseCheckSafe, ListCompleteSafe, ListCloseSafe,
   ListAcknowledgeSafe, ListRollbackSafe, ListNoAccountSafe, ListChangeAccountSafe DEF Lists!Next

LEMMA ListStutter == ASSUME ListInv, UNCHANGED Lists!vars PROVE ListInv'
<1>1. UNCHANGED <<date, context, key, verdict, loading, rows, pending, completed, load, check,
                  post, listVisit, account, open, told>>
  BY DEF Lists!vars, Lists!pageVars, Lists!callVars, Lists!serverVars
<1>2. PageTypes' /\ CallTypes' /\ CheckFirst' /\ Lists!StaysCompleted'
  BY <1>1 DEF ListInv, PageTypes, CallTypes, CheckFirst, Lists!StaysCompleted
<1>3. LoadsOwned' /\ SpinnerKept'
  BY <1>1 DEF ListInv, LoadsOwned, SpinnerKept, LatestLoad, Lists!Connected
<1>4. RowsOwned' /\ PostsOwned'
  BY <1>1 DEF ListInv, RowsOwned, PostsOwned, Holding, OwnPost, Lists!Connected
<1>5. QED
  BY <1>2, <1>3, <1>4 DEF ListInv

\* The page opens with a read under way for a connected account, or asks for the account.
LEMMA ListInit == ASSUME Lists!Init PROVE ListInv
<1>1. /\ date \in Calendar /\ context \in Contexts /\ rows = Lists!NoRows
      /\ post = [t \in Tasks |-> Lists!Idle] /\ listVisit = Nil
      /\ account = 1 /\ open = Tasks /\ told = {}
  BY DEF Lists!Init
<1>2. rows.tasks = {} /\ rows \in Rowsets /\ \A t \in Tasks : ~OwnPost(t) /\ post[t].phase = "idle"
  BY <1>1 DEF Lists!NoRows, OwnPost, Lists!Idle, Rowsets
<1>3. post \in [Tasks -> Completions]
  BY <1>1 DEF Lists!Idle, Completions
<1>4. RowsOwned /\ PostsOwned /\ Lists!StaysCompleted
  BY <1>1, <1>2 DEF RowsOwned, Holding, PostsOwned, Lists!StaysCompleted
<1>5. CASE /\ verdict = Lists!Verdict(1) /\ check = Lists!Idle /\ loading = TRUE
           /\ key = <<date, context>>
           /\ \E l \in Loads : load = [[m \in Loads |-> Lists!Idle]
                                         EXCEPT ![l] = Lists!Fresh(date, context)]
  <2>1. PICK l \in Loads : load = [[m \in Loads |-> Lists!Idle]
                                         EXCEPT ![l] = Lists!Fresh(date, context)]
    BY <1>5
  <2>2. /\ Lists!Fresh(date, context) \in ListReads /\ Lists!Idle \in ListReads
        /\ Lists!Fresh(date, context).phase = "sent" /\ Lists!Idle.phase = "idle"
        /\ Lists!Fresh(date, context).latest
        /\ Lists!Fresh(date, context).date = date /\ Lists!Fresh(date, context).context = context
    BY <1>1 DEF Lists!Fresh, Lists!Idle, ListReads
  <2>3. /\ load[l] = Lists!Fresh(date, context) /\ load \in [Loads -> ListReads]
        /\ \A m \in Loads : m # l => load[m] = Lists!Idle
    BY <2>1, <2>2
  <2>4. /\ verdict \in Verdicts /\ verdict.of = 1 /\ Lists!Connected(verdict)
    BY <1>5, VerdictOf DEF Lists!On
  <2>5. /\ LatestLoad(l) /\ \A m \in Loads : m # l => ~LatestLoad(m)
        /\ \A m \in Loads : load[m].phase # "answered"
    BY <2>2, <2>3 DEF LatestLoad
  <2>6. check \in AccountReads /\ check.phase = "idle"
    BY <1>5 DEF AccountReads, Lists!Idle
  <2>7. PageTypes /\ CallTypes
    BY <1>1, <1>2, <1>3, <2>3, <2>4, <2>5, <2>6 DEF PageTypes, CallTypes
  <2>8. LoadsOwned /\ SpinnerKept /\ CheckFirst
    BY <1>5, <2>2, <2>3, <2>4, <2>5, <2>6 DEF LoadsOwned, SpinnerKept, CheckFirst
  <2>9. QED
    BY <1>4, <2>7, <2>8 DEF ListInv
<1>6. CASE /\ verdict = Lists!Unproven
           /\ check = [phase |-> "sent", latest |-> TRUE, same |-> TRUE]
           /\ loading = FALSE /\ load = [l \in Loads |-> Lists!Idle]
  <2>1. load \in [Loads -> ListReads] /\ \A l \in Loads : load[l].phase = "idle"
    BY <1>6 DEF Lists!Idle, ListReads
  <2>2. verdict \in Verdicts /\ verdict.of = 0
    BY <1>6 DEF Lists!Unproven, Verdicts
  <2>3. check \in AccountReads /\ check.phase = "sent"
    BY <1>6 DEF AccountReads
  <2>4. \A l \in Loads : ~LatestLoad(l)
    BY <2>1 DEF LatestLoad
  <2>5. PageTypes /\ CallTypes
    BY <1>1, <1>2, <1>3, <2>1, <2>2, <2>3 DEF PageTypes, CallTypes
  <2>6. LoadsOwned /\ SpinnerKept /\ CheckFirst
    BY <1>6, <2>1, <2>4 DEF LoadsOwned, SpinnerKept, CheckFirst
  <2>7. QED
    BY <1>4, <2>5, <2>6 DEF ListInv
<1>7. QED
  BY <1>5, <1>6 DEF Lists!Init

LEMMA ListsInvariant == ListDistinct => (Lists!Spec => []ListInv)
<1>1. SUFFICES ASSUME ListDistinct PROVE Lists!Spec => []ListInv
  OBVIOUS
<1>2. Lists!Init => ListInv
  BY ListInit
<1>3. ListInv /\ [Lists!Next]_Lists!vars => ListInv'
  BY <1>1, ListStep, ListStutter DEF KeepsLists
<1>4. QED
  BY <1>2, <1>3, PTL DEF Lists!Spec

-----------------------------------------------------------------------------
(* The lists the server caches *)

AccountRows == [id : Nat, version : Nat, secret : Secrets]

ServerDistinct == Nil \notin AccountRows

Scopes == {"with_overdue", "exact"}

Keys == Nat \X Zones \X Server!Days \X Scopes

Queries == Secrets \X Zones \X Server!Days \X Scopes

Rowed == {"loaded", "fetched", "closing", "closed"}

\* The version v was drawn for a row with the credentials s, and somebody remembers it.
Names(v, s) ==
    \/ accountRow # Nil /\ accountRow.version = v /\ accountRow.secret = s
    \/ \E r \in Requests : request[r].phase \in Rowed /\ request[r].row.version = v
                              /\ request[r].row.secret = s
    \/ \E k \in DOMAIN cache : k[1] = v /\ cache[k].query[1] = s

\* A version is of one row and its credentials, and was drawn.
VersionsNamed ==
    /\ \A v, s, t : Names(v, s) /\ Names(v, t) => s = t
    /\ \A v, s : Names(v, s) => v \in Nat /\ v <= stamp /\ s \in Secrets

Present(v) == accountRow # Nil /\ accountRow.version = v

\* None of these items was acknowledged to be complete for the present row.
Unacked(items) == \A i \in items : <<accountRow.id, accountRow.secret, i>> \notin acked

\* What a request knows: its row, what it was answered, and the item it closed.
RequestOK(q) ==
    /\ q.phase \in Rowed => q.row \in AccountRows
    /\ q.phase \in {"loaded", "fetched"} => q.zone \in Zones /\ q.date \in Server!Days
    /\ q.phase = "fetched" => q.entry.query = Server!QueryOf(q)
                              /\ (Present(q.row.version) => Unacked(q.entry.items))
    /\ q.phase \in {"closing", "closed"} =>
          q \in [phase : {"closing", "closed"}, row : AccountRows, item : Items]
    /\ q.phase = "closed" => q.item \notin openItems[q.row.secret]
    /\ q.phase = "replied" => q.told = q.asked

\* An entry answers the question of its key.
CacheOK ==
    \A k \in DOMAIN cache :
        /\ k \in Keys /\ cache[k].query \in Queries
        /\ cache[k].query[2] = k[2] /\ cache[k].query[3] = k[3] /\ cache[k].query[4] = k[4]
        /\ Present(k[1]) => Unacked(cache[k].items)

ServerTypes ==
    /\ stamp \in Nat /\ zone \in Zones
    /\ accountRow # Nil => accountRow \in AccountRows
    /\ openItems \in [Secrets -> SUBSET Items]
    /\ request = [r \in Requests |-> request[r]]

\* What was acknowledged is closed at the provider.
AckedClosed == \A a \in acked : a[2] \in Secrets /\ a[3] \notin openItems[a[2]]

ServerInv ==
    /\ ServerTypes /\ VersionsNamed /\ CacheOK /\ AckedClosed
    /\ \A r \in Requests : RequestOK(request[r])
    /\ Server!CredentialsAsConnected

-----------------------------------------------------------------------------

LEMMA ServerInvImpliesTrue == ServerInv => Server!AccountsTrue
<1>1. SUFFICES ASSUME ServerInv PROVE Server!AccountsTrue
  OBVIOUS
<1>2. Server!AnsweredAsAsked
  BY <1>1 DEF ServerInv, RequestOK, Server!AnsweredAsAsked, Server!InPhase
<1>3. Server!ServesPresentAccount
  <2>1. SUFFICES ASSUME NEW k \in DOMAIN cache, Server!Reachable(k)
                 PROVE  cache[k].query[1] = accountRow.secret
    BY DEF Server!ServesPresentAccount
  <2>2. Names(k[1], cache[k].query[1]) /\ Names(k[1], accountRow.secret)
    BY <2>1 DEF Server!Reachable, Names
  <2>3. QED
    BY <1>1, <2>2 DEF ServerInv, VersionsNamed
<1>4. Server!CompletedNotServed
  BY <1>1 DEF ServerInv, CacheOK, Server!CompletedNotServed, Server!Reachable, Present, Unacked
<1>5. QED
  BY <1>1, <1>2, <1>3, <1>4 DEF ServerInv, Server!AccountsTrue

\* Key and question of a read: they differ in the version and the credentials alone.
LEMMA KeyAndQuery ==
    ASSUME NEW q, q.row \in AccountRows, q.zone \in Zones, q.date \in Server!Days
    PROVE  /\ Server!KeyOf(q) \in Keys /\ Server!QueryOf(q) \in Queries
           /\ Server!KeyOf(q)[1] = q.row.version /\ Server!QueryOf(q)[1] = q.row.secret
           /\ Server!QueryOf(q)[2] = Server!KeyOf(q)[2]
           /\ Server!QueryOf(q)[3] = Server!KeyOf(q)[3]
           /\ Server!QueryOf(q)[4] = Server!KeyOf(q)[4]
<1>1. Server!Scope(q.date, q.today) \in Scopes
  BY DEF Server!Scope, Scopes
<1>2. QED
  BY <1>1 DEF Server!KeyOf, Server!QueryOf, Server!Key, Server!Query, Keys, Queries, AccountRows

LEMMA SameQuery ==
    ASSUME NEW p \in Queries, NEW q \in Queries,
           p[1] = q[1], p[2] = q[2], p[3] = q[3], p[4] = q[4]
    PROVE  p = q
BY DEF Queries

LEMMA Becoming ==
    ASSUME ServerTypes, NEW r \in Requests, NEW new, Server!Become(r, new)
    PROVE  /\ request'[r] = new
           /\ \A q \in Requests : q # r => request'[q] = request[q]
           /\ request' = [q \in Requests |-> request'[q]]
BY DEF ServerTypes, Server!Become

\* One request goes on, with a row somebody knows.
LEMMA RequestMoves ==
    ASSUME ServerInv, NEW r \in Requests, NEW new, Server!Become(r, new), RequestOK(new),
           new.phase \in Rowed => Names(new.row.version, new.row.secret),
           UNCHANGED <<kind, accountRow, connected, stamp, zone, openItems, cache, acked>>
    PROVE  ServerInv'
<1>1. /\ request'[r] = new
      /\ \A q \in Requests : q # r => request'[q] = request[q]
      /\ request' = [q \in Requests |-> request'[q]]
  BY Becoming DEF ServerInv
<1>2. ASSUME NEW v, NEW s, Names(v, s)' PROVE Names(v, s)
  <2>1. CASE accountRow' # Nil /\ accountRow'.version = v /\ accountRow'.secret = s
    BY <2>1 DEF Names
  <2>2. CASE \E q \in Requests : request'[q].phase \in Rowed /\ request'[q].row.version = v
                              /\ request'[q].row.secret = s
    BY <1>1, <2>2 DEF Names
  <2>3. CASE \E k \in DOMAIN cache' : k[1] = v /\ cache'[k].query[1] = s
    BY <2>3 DEF Names
  <2>4. QED
    BY <1>2, <2>1, <2>2, <2>3 DEF Names
<1>3. VersionsNamed'
  BY <1>2 DEF ServerInv, VersionsNamed
<1>4. ServerTypes' /\ AckedClosed' /\ CacheOK' /\ Server!CredentialsAsConnected'
  BY <1>1 DEF ServerInv, ServerTypes, AckedClosed, CacheOK, Present, Unacked,
     Server!CredentialsAsConnected
<1>5. ASSUME NEW q \in Requests PROVE RequestOK(request[q])'
  <2>1. RequestOK(request'[q])
    BY <1>1 DEF ServerInv
  <2>2. QED
    BY <2>1 DEF RequestOK, Present, Unacked, Server!QueryOf, Server!Query, Server!Scope
<1>6. QED
  BY <1>3, <1>4, <1>5 DEF ServerInv

LEMMA IdleOK == RequestOK(Server!Idle) /\ Server!Idle.phase = "idle"
BY DEF RequestOK, Server!Idle, Rowed

LEMMA ServerFailSafe == ASSUME ServerInv, NEW r \in Requests, Server!Fail(r) PROVE ServerInv'
<1>1. /\ Server!Become(r, Server!Idle)
      /\ UNCHANGED <<kind, accountRow, connected, stamp, zone, openItems, cache, acked>>
  BY DEF Server!Fail
<1>2. Server!Idle.phase \notin Rowed
  BY IdleOK DEF Rowed
<1>3. QED
  BY <1>1, <1>2, IdleOK, RequestMoves

LEMMA ServerStartReadSafe ==
    ASSUME ServerInv, NEW r \in Requests, NEW d \in Server!Days, Server!StartRead(r, d)
    PROVE  ServerInv'
<1>1. PICK new : new = [phase |-> "loaded", row |-> accountRow, zone |-> zone, date |-> d,
                        today |-> today[zone]]
  OBVIOUS
<1>2. /\ Server!Become(r, new) /\ accountRow # Nil
      /\ UNCHANGED <<kind, accountRow, connected, stamp, zone, openItems, cache, acked>>
  BY <1>1 DEF Server!StartRead
<1>3. RequestOK(new) /\ new.row = accountRow
  BY <1>1, <1>2 DEF RequestOK, ServerInv, ServerTypes
<1>4. Names(new.row.version, new.row.secret)
  BY <1>2, <1>3 DEF Names
<1>5. QED
  BY <1>2, <1>3, <1>4, RequestMoves

\* The entry under the key of a read answers that read: its version is of one account.
LEMMA ServerHitSafe == ASSUME ServerInv, NEW r \in Requests, Server!Hit(r) PROVE ServerInv'
<1>1. PICK place : place = Server!KeyOf(request[r])
  OBVIOUS
<1>2. PICK new : new = [phase |-> "replied", asked |-> Server!QueryOf(request[r]),
                        told |-> cache[place].query]
  OBVIOUS
<1>3. /\ request[r].phase = "loaded" /\ place \in DOMAIN cache
      /\ Server!Become(r, new)
      /\ UNCHANGED <<kind, accountRow, connected, stamp, zone, openItems, cache, acked>>
  BY <1>1, <1>2 DEF Server!Hit, Server!InPhase, Server!Reply
<1>4. /\ request[r].row \in AccountRows /\ request[r].zone \in Zones
      /\ request[r].date \in Server!Days
  BY <1>3 DEF ServerInv, RequestOK, Rowed
<1>5. /\ cache[place].query \in Queries
      /\ cache[place].query[2] = place[2] /\ cache[place].query[3] = place[3] /\ cache[place].query[4] = place[4]
  BY <1>3 DEF ServerInv, CacheOK
<1>6. cache[place].query[1] = request[r].row.secret
  <2>1. Names(request[r].row.version, request[r].row.secret)
    BY <1>3 DEF Names, Rowed
  <2>2. Names(request[r].row.version, cache[place].query[1])
    BY <1>1, <1>3, <1>4, KeyAndQuery DEF Names
  <2>3. QED
    BY <2>1, <2>2 DEF ServerInv, VersionsNamed
<1>7. cache[place].query = Server!QueryOf(request[r])
  BY <1>1, <1>4, <1>5, <1>6, KeyAndQuery, SameQuery
<1>8. RequestOK(new) /\ new.phase \notin Rowed
  BY <1>2, <1>7 DEF RequestOK, Rowed
<1>9. QED
  BY <1>3, <1>8, RequestMoves

\* What the provider answers is open there, and so was not acknowledged for the present row.
LEMMA AnswerUnacked ==
    ASSUME ServerInv, NEW known \in AccountRows, Names(known.version, known.secret), NEW items,
           items \subseteq openItems[known.secret], Present(known.version)
    PROVE  Unacked(items)
<1>1. accountRow.secret = known.secret
  <2>1. Names(known.version, accountRow.secret)
    BY DEF Present, Names
  <2>2. QED
    BY <2>1 DEF ServerInv, VersionsNamed
<1>2. ASSUME NEW i \in items PROVE <<accountRow.id, accountRow.secret, i>> \notin acked
  BY <1>1 DEF ServerInv, AckedClosed
<1>3. QED
  BY <1>2 DEF Unacked

LEMMA ServerFetchSafe == ASSUME ServerInv, NEW r \in Requests, Server!Fetch(r) PROVE ServerInv'
<1>1. PICK q : q = request[r]
  OBVIOUS
<1>2. PICK entry : entry = [query |-> Server!QueryOf(q),
                            items |-> Server!Answer(q.row.secret, q.zone, q.date, q.today)]
  OBVIOUS
<1>3. PICK new : new = [phase |-> "fetched", row |-> q.row, zone |-> q.zone, date |-> q.date,
                        today |-> q.today, entry |-> entry]
  OBVIOUS
<1>4. /\ q.phase = "loaded" /\ Server!Become(r, new)
      /\ UNCHANGED <<kind, accountRow, connected, stamp, zone, openItems, cache, acked>>
  BY <1>1, <1>2, <1>3 DEF Server!Fetch, Server!InPhase
<1>5. /\ q.row \in AccountRows /\ q.zone \in Zones /\ q.date \in Server!Days
  BY <1>1, <1>4 DEF ServerInv, RequestOK, Rowed
<1>6. Names(q.row.version, q.row.secret)
  BY <1>1, <1>4 DEF Names, Rowed
<1>7. Present(q.row.version) => Unacked(entry.items)
  <2>1. entry.items \subseteq openItems[q.row.secret]
    BY <1>2 DEF Server!Answer
  <2>2. QED
    BY <1>5, <1>6, <2>1, AnswerUnacked
<1>8. /\ new.phase = "fetched" /\ new.row = q.row /\ new.zone = q.zone /\ new.date = q.date
      /\ new.today = q.today /\ new.entry = entry
  BY <1>3
<1>9. entry.query = Server!QueryOf(new)
  BY <1>2, <1>8 DEF Server!QueryOf
<1>10. RequestOK(new)
  BY <1>5, <1>7, <1>8, <1>9 DEF RequestOK
<1>11. QED
  BY <1>4, <1>6, <1>8, <1>10, RequestMoves

\* An entry is stored under the version its read was loaded with.
LEMMA ServerStoreSafe == ASSUME ServerInv, NEW r \in Requests, Server!Store(r) PROVE ServerInv'
<1>1. PICK q : q = request[r]
  OBVIOUS
<1>2. PICK place : place = Server!KeyOf(q)
  OBVIOUS
<1>3. PICK new : new = [phase |-> "replied", asked |-> Server!QueryOf(q), told |-> q.entry.query]
  OBVIOUS
<1>4. /\ q.phase = "fetched" /\ Server!Become(r, new)
      /\ cache' = [k \in DOMAIN cache \union {place} |-> IF k = place THEN q.entry ELSE cache[k]]
      /\ UNCHANGED <<kind, accountRow, connected, stamp, zone, openItems, acked>>
  BY <1>1, <1>2, <1>3 DEF Server!Store, Server!StoreKey, Server!InPhase, Server!Reply
<1>5. /\ q.row \in AccountRows /\ q.zone \in Zones /\ q.date \in Server!Days
      /\ q.entry.query = Server!QueryOf(q)
      /\ Present(q.row.version) => Unacked(q.entry.items)
  BY <1>1, <1>4 DEF ServerInv, RequestOK, Rowed
<1>6. /\ place \in Keys /\ q.entry.query \in Queries
      /\ place[1] = q.row.version /\ q.entry.query[1] = q.row.secret
      /\ q.entry.query[2] = place[2] /\ q.entry.query[3] = place[3] /\ q.entry.query[4] = place[4]
  BY <1>2, <1>5, KeyAndQuery
<1>7. /\ DOMAIN cache' = DOMAIN cache \union {place} /\ cache'[place] = q.entry
      /\ \A k \in DOMAIN cache : k # place => cache'[k] = cache[k]
  BY <1>4
<1>8. /\ request'[r] = new
      /\ \A p \in Requests : p # r => request'[p] = request[p]
      /\ request' = [p \in Requests |-> request'[p]]
  BY <1>4, Becoming DEF ServerInv
<1>9. new.phase = "replied" /\ new.told = new.asked
  BY <1>3, <1>5
<1>10. ASSUME NEW v, NEW s, Names(v, s)' PROVE Names(v, s)
  <2>1. CASE accountRow' # Nil /\ accountRow'.version = v /\ accountRow'.secret = s
    BY <1>4, <2>1 DEF Names
  <2>2. CASE \E p \in Requests : request'[p].phase \in Rowed /\ request'[p].row.version = v
                              /\ request'[p].row.secret = s
    BY <1>8, <1>9, <2>2 DEF Names, Rowed
  <2>3. CASE \E k \in DOMAIN cache' : k[1] = v /\ cache'[k].query[1] = s
    <3>1. PICK k \in DOMAIN cache' : k[1] = v /\ cache'[k].query[1] = s
      BY <2>3
    <3>2. CASE k = place
      <4>1. q.row.version = v /\ q.row.secret = s
        BY <1>6, <1>7, <3>1, <3>2
      <4>2. QED
        BY <1>1, <1>4, <4>1 DEF Names, Rowed
    <3>3. CASE k # place
      BY <1>7, <3>1, <3>3 DEF Names
    <3>4. QED
      BY <3>2, <3>3
  <2>4. QED
    BY <1>10, <2>1, <2>2, <2>3 DEF Names
<1>11. VersionsNamed'
  BY <1>4, <1>10 DEF ServerInv, VersionsNamed
<1>12. ServerTypes' /\ AckedClosed' /\ Server!CredentialsAsConnected'
  BY <1>4, <1>8 DEF ServerInv, ServerTypes, AckedClosed, Server!CredentialsAsConnected
<1>13. CacheOK'
  <2>1. ASSUME NEW k \in DOMAIN cache', k = place
        PROVE  /\ k \in Keys /\ cache'[k].query \in Queries
               /\ cache'[k].query[2] = k[2] /\ cache'[k].query[3] = k[3] /\ cache'[k].query[4] = k[4]
               /\ Present(k[1]) => Unacked(cache'[k].items)
    BY <1>5, <1>6, <1>7, <2>1
  <2>2. ASSUME NEW k \in DOMAIN cache', k # place
        PROVE  /\ k \in Keys /\ cache'[k].query \in Queries
               /\ cache'[k].query[2] = k[2] /\ cache'[k].query[3] = k[3] /\ cache'[k].query[4] = k[4]
               /\ Present(k[1]) => Unacked(cache'[k].items)
    BY <1>7, <2>2 DEF ServerInv, CacheOK
  <2>3. QED
    BY <1>4, <2>1, <2>2 DEF CacheOK, Present, Unacked
<1>14. ASSUME NEW p \in Requests PROVE RequestOK(request[p])'
  <2>1. RequestOK(new)
    BY <1>9 DEF RequestOK, Rowed
  <2>2. RequestOK(request'[p])
    BY <1>8, <2>1 DEF ServerInv
  <2>3. QED
    BY <1>4, <2>2 DEF RequestOK, Present, Unacked, Server!QueryOf, Server!Query, Server!Scope
<1>15. QED
  BY <1>11, <1>12, <1>13, <1>14 DEF ServerInv

LEMMA ServerStartCompleteSafe ==
    ASSUME ServerInv, NEW r \in Requests, NEW i \in Items, Server!StartComplete(r, i)
    PROVE  ServerInv'
<1>1. PICK new : new = [phase |-> "closing", row |-> accountRow, item |-> i]
  OBVIOUS
<1>2. /\ Server!Become(r, new) /\ accountRow # Nil
      /\ UNCHANGED <<kind, accountRow, connected, stamp, zone, openItems, cache, acked>>
  BY <1>1 DEF Server!StartComplete
<1>3. RequestOK(new) /\ new.row = accountRow
  BY <1>1, <1>2 DEF RequestOK, ServerInv, ServerTypes
<1>4. Names(new.row.version, new.row.secret)
  BY <1>2, <1>3 DEF Names
<1>5. QED
  BY <1>2, <1>3, <1>4, RequestMoves

\* Closing at the provider: what is open only shrinks.
LEMMA ServerCloseSafe == ASSUME ServerInv, NEW r \in Requests, Server!Close(r) PROVE ServerInv'
<1>1. PICK q : q = request[r]
  OBVIOUS
<1>2. PICK new : new = [q EXCEPT !.phase = "closed"]
  OBVIOUS
<1>3. /\ q.phase = "closing" /\ Server!Become(r, new)
      /\ openItems' = [openItems EXCEPT ![q.row.secret] = @ \ {q.item}]
      /\ UNCHANGED <<kind, accountRow, connected, stamp, zone, cache, acked>>
  BY <1>1, <1>2 DEF Server!Close, Server!InPhase
<1>4. q \in [phase : {"closing", "closed"}, row : AccountRows, item : Items]
  BY <1>1, <1>3 DEF ServerInv, RequestOK
<1>5. /\ new \in [phase : {"closing", "closed"}, row : AccountRows, item : Items]
      /\ new.phase = "closed" /\ new.row = q.row /\ new.item = q.item
  BY <1>2, <1>4
<1>6. /\ openItems' \in [Secrets -> SUBSET Items]
      /\ \A s \in Secrets : openItems'[s] \subseteq openItems[s]
      /\ q.item \notin openItems'[q.row.secret]
  BY <1>3, <1>4 DEF ServerInv, ServerTypes, AccountRows
<1>7. /\ request'[r] = new
      /\ \A p \in Requests : p # r => request'[p] = request[p]
      /\ request' = [p \in Requests |-> request'[p]]
  BY <1>3, Becoming DEF ServerInv
<1>8. ASSUME NEW v, NEW s, Names(v, s)' PROVE Names(v, s)
  <2>1. CASE accountRow' # Nil /\ accountRow'.version = v /\ accountRow'.secret = s
    BY <1>3, <2>1 DEF Names
  <2>2. CASE \E p \in Requests : request'[p].phase \in Rowed /\ request'[p].row.version = v
                              /\ request'[p].row.secret = s
    BY <1>1, <1>3, <1>5, <1>7, <2>2 DEF Names, Rowed
  <2>3. CASE \E k \in DOMAIN cache' : k[1] = v /\ cache'[k].query[1] = s
    BY <1>3, <2>3 DEF Names
  <2>4. QED
    BY <1>8, <2>1, <2>2, <2>3 DEF Names
<1>9. VersionsNamed'
  BY <1>3, <1>8 DEF ServerInv, VersionsNamed
<1>10. ServerTypes' /\ CacheOK' /\ Server!CredentialsAsConnected'
  BY <1>3, <1>6, <1>7 DEF ServerInv, ServerTypes, CacheOK, Present, Unacked,
     Server!CredentialsAsConnected
<1>11. AckedClosed'
  BY <1>3, <1>6 DEF ServerInv, AckedClosed
<1>12. ASSUME NEW p \in Requests PROVE RequestOK(request[p])'
  <2>1. CASE p = r
    BY <1>5, <1>6, <1>7, <2>1 DEF RequestOK, Rowed
  <2>2. CASE p # r
    <3>1. RequestOK(request[p]) /\ request'[p] = request[p]
      BY <1>7, <2>2 DEF ServerInv
    <3>2. request[p].phase = "closed" => request[p].row.secret \in Secrets
      BY <3>1 DEF RequestOK, AccountRows, Rowed
    <3>3. QED
      BY <1>3, <1>6, <3>1, <3>2 DEF RequestOK, Present, Unacked, Server!QueryOf, Server!Query,
         Server!Scope
  <2>3. QED
    BY <2>1, <2>2
<1>13. QED
  BY <1>9, <1>10, <1>11, <1>12 DEF ServerInv

-----------------------------------------------------------------------------
(* The account row *)

\* Somebody changes the row under a new version, for which nothing is remembered yet.
LEMMA VersionDrawn ==
    ASSUME ServerDistinct, ServerInv, stamp' = stamp + 1,
           accountRow' # Nil => accountRow' \in AccountRows,
           accountRow' # Nil => accountRow'.version = stamp + 1 \/ accountRow' = accountRow,
           \A r \in Requests : request'[r] = request[r] \/ request'[r].phase \notin Rowed,
           cache' = cache
    PROVE  /\ VersionsNamed'
           /\ \A v, s : Names(v, s) => v # stamp + 1
<1>1. stamp \in Nat
  BY DEF ServerInv, ServerTypes
<1>2. \A v, s : Names(v, s) => v # stamp + 1
  BY <1>1 DEF ServerInv, VersionsNamed
<1>3. ASSUME NEW v, NEW s, Names(v, s)'
      PROVE  Names(v, s) \/ (v = stamp + 1 /\ accountRow' # Nil /\ s = accountRow'.secret)
  <2>1. CASE accountRow' # Nil /\ accountRow'.version = v /\ accountRow'.secret = s
    BY <2>1 DEF Names
  <2>2. CASE \E p \in Requests : request'[p].phase \in Rowed /\ request'[p].row.version = v
                              /\ request'[p].row.secret = s
    BY <2>2 DEF Names
  <2>3. CASE \E k \in DOMAIN cache' : k[1] = v /\ cache'[k].query[1] = s
    BY <2>3 DEF Names
  <2>4. QED
    BY <1>3, <2>1, <2>2, <2>3 DEF Names
<1>4. ASSUME NEW v, NEW s, NEW t, Names(v, s)', Names(v, t)' PROVE s = t
  BY <1>2, <1>3, <1>4 DEF ServerInv, VersionsNamed
<1>5. ASSUME NEW v, NEW s, Names(v, s)' PROVE v \in Nat /\ v <= stamp' /\ s \in Secrets
  <2>1. CASE Names(v, s)
    BY <1>1, <2>1 DEF ServerInv, VersionsNamed
  <2>2. CASE v = stamp + 1 /\ accountRow' # Nil /\ s = accountRow'.secret
    BY <1>1, <2>2 DEF AccountRows
  <2>3. QED
    BY <1>3, <1>5, <2>1, <2>2
<1>6. QED
  BY <1>2, <1>4, <1>5 DEF VersionsNamed

\* The acknowledgement reaches the row it was for, which gets a new version, or no row.
LEMMA ServerInvalidateSafe ==
    ASSUME ServerDistinct, ServerInv, NEW r \in Requests, Server!Invalidate(r) PROVE ServerInv'
<1>1. PICK q : q = request[r]
  OBVIOUS
<1>2. PICK ack : ack = <<q.row.id, q.row.secret, q.item>>
  OBVIOUS
<1>3. /\ q.phase = "closed" /\ Server!Become(r, Server!Idle)
      /\ stamp' = stamp + 1 /\ acked' = acked \union {ack}
      /\ accountRow' = Server!Bumped(q.row)
      /\ UNCHANGED <<kind, connected, zone, openItems, cache>>
  BY <1>1, <1>2 DEF Server!Invalidate, Server!InPhase
<1>4. /\ q.row \in AccountRows /\ q.item \notin openItems[q.row.secret] /\ stamp \in Nat
      /\ ack[1] = q.row.id /\ ack[2] = q.row.secret /\ ack[3] = q.item
  BY <1>1, <1>2, <1>3 DEF ServerInv, RequestOK, Rowed, ServerTypes
<1>5. /\ request'[r] = Server!Idle
      /\ \A p \in Requests : p # r => request'[p] = request[p]
      /\ request' = [p \in Requests |-> request'[p]]
  BY <1>3, Becoming DEF ServerInv
<1>6. /\ accountRow' # Nil => accountRow # Nil /\ accountRow' \in AccountRows
      /\ accountRow # Nil => accountRow' # Nil /\ accountRow'.id = accountRow.id
                           /\ accountRow'.secret = accountRow.secret
      /\ accountRow # Nil /\ accountRow.id = q.row.id => accountRow'.version = stamp + 1
      /\ accountRow # Nil /\ accountRow.id # q.row.id => accountRow' = accountRow
      /\ accountRow = Nil => accountRow' = Nil
  <2>1. CASE accountRow # Nil /\ accountRow.id = q.row.id
    <3>1. accountRow' = [accountRow EXCEPT !.version = stamp + 1] /\ accountRow \in AccountRows
      BY <1>3, <2>1 DEF Server!Bumped, ServerInv, ServerTypes
    <3>2. /\ accountRow' \in AccountRows /\ accountRow'.id = accountRow.id
          /\ accountRow'.secret = accountRow.secret /\ accountRow'.version = stamp + 1
      BY <1>4, <3>1 DEF AccountRows
    <3>3. accountRow' # Nil
      BY <3>2 DEF ServerDistinct
    <3>4. QED
      BY <2>1, <3>2, <3>3
  <2>2. CASE ~(accountRow # Nil /\ accountRow.id = q.row.id)
    BY <1>3, <2>2 DEF Server!Bumped, ServerInv, ServerTypes
  <2>3. QED
    BY <2>1, <2>2
<1>7. \A p \in Requests : request'[p] = request[p] \/ request'[p].phase \notin Rowed
  BY <1>5, IdleOK DEF Rowed
<1>8. VersionsNamed' /\ \A v, s : Names(v, s) => v # stamp + 1
  BY <1>3, <1>6, <1>7, VersionDrawn
<1>9. ServerTypes' /\ Server!CredentialsAsConnected'
  BY <1>3, <1>4, <1>5, <1>6 DEF ServerInv, ServerTypes, Server!CredentialsAsConnected
<1>10. AckedClosed'
  BY <1>3, <1>4 DEF ServerInv, AckedClosed, AccountRows
<1>11. ASSUME NEW v, NEW s, Names(v, s), Present(v)', NEW items, Present(v) => Unacked(items)
       PROVE  Unacked(items)'
  <2>1. v # stamp + 1 /\ accountRow' # Nil /\ accountRow'.version = v
    BY <1>8, <1>11 DEF Present
  <2>2. accountRow # Nil /\ accountRow.id # q.row.id /\ accountRow' = accountRow
    BY <1>6, <2>1
  <2>3. Unacked(items)
    BY <1>11, <2>1, <2>2 DEF Present
  <2>4. ASSUME NEW i \in items PROVE <<accountRow'.id, accountRow'.secret, i>> \notin acked'
    <3>1. <<accountRow.id, accountRow.secret, i>> \notin acked
      BY <2>3 DEF Unacked
    <3>2. <<accountRow.id, accountRow.secret, i>> # ack
      BY <1>2, <2>2
    <3>3. QED
      BY <1>3, <2>2, <3>1, <3>2
  <2>5. QED
    BY <2>4 DEF Unacked
<1>12. CacheOK'
  <2>1. ASSUME NEW k \in DOMAIN cache, Present(k[1])' PROVE Unacked(cache[k].items)'
    <3>1. Names(k[1], cache[k].query[1]) /\ (Present(k[1]) => Unacked(cache[k].items))
      BY DEF Names, ServerInv, CacheOK
    <3>2. PICK v, s, items : v = k[1] /\ s = cache[k].query[1] /\ items = cache[k].items
      OBVIOUS
    <3>3. Present(v)'
      BY <2>1, <3>2 DEF Present
    <3>4. Unacked(items)'
      BY <1>11, <3>1, <3>2, <3>3
    <3>5. QED
      BY <1>3, <3>2, <3>4 DEF Unacked
  <2>2. QED
    BY <1>3, <2>1 DEF ServerInv, CacheOK
<1>13. ASSUME NEW p \in Requests PROVE RequestOK(request[p])'
  <2>1. CASE p = r
    BY <1>5, <2>1, IdleOK DEF RequestOK, Rowed
  <2>2. CASE p # r
    <3>1. RequestOK(request[p]) /\ request'[p] = request[p]
      BY <1>5, <2>2 DEF ServerInv
    <3>2. ASSUME request[p].phase = "fetched", Present(request[p].row.version)'
          PROVE  Unacked(request[p].entry.items)'
      <4>1. Names(request[p].row.version, request[p].row.secret)
        BY <3>2 DEF Names, Rowed
      <4>2. Present(request[p].row.version) => Unacked(request[p].entry.items)
        BY <3>1, <3>2 DEF RequestOK
      <4>3. PICK v, s, items : v = request[p].row.version /\ s = request[p].row.secret
                                /\ items = request[p].entry.items
        OBVIOUS
      <4>4. Present(v)'
        BY <3>1, <3>2, <4>3 DEF Present
      <4>5. Unacked(items)'
        BY <1>11, <4>1, <4>2, <4>3, <4>4
      <4>6. QED
        BY <3>1, <4>3, <4>5 DEF Unacked
    <3>3. QED
      BY <1>3, <3>1, <3>2 DEF RequestOK, Server!QueryOf, Server!Query, Server!Scope
  <2>3. QED
    BY <2>1, <2>2
<1>14. QED
  BY <1>8, <1>9, <1>10, <1>12, <1>13 DEF ServerInv

\* Nothing changes but the row, which is new to everybody or gone.
LEMMA RowReplaced ==
    ASSUME ServerDistinct, ServerInv,
           accountRow' # Nil => accountRow' \in AccountRows /\ accountRow'.version = stamp + 1
                              /\ stamp' = stamp + 1,
           accountRow' = Nil => stamp' = stamp,
           Server!CredentialsAsConnected',
           UNCHANGED <<kind, zone, openItems, cache, request, acked>>
    PROVE  ServerInv'
<1>1. stamp \in Nat /\ \A v, s : Names(v, s) => v # stamp + 1
  BY DEF ServerInv, ServerTypes, VersionsNamed
<1>2. VersionsNamed'
  <2>1. CASE accountRow' # Nil
    BY <2>1, VersionDrawn
  <2>2. CASE accountRow' = Nil
    <3>1. ASSUME NEW v, NEW s, Names(v, s)' PROVE Names(v, s)
      <4>1. CASE \E p \in Requests : request'[p].phase \in Rowed /\ request'[p].row.version = v
                                  /\ request'[p].row.secret = s
        BY <4>1 DEF Names
      <4>2. CASE \E k \in DOMAIN cache' : k[1] = v /\ cache'[k].query[1] = s
        BY <4>2 DEF Names
      <4>3. QED
        BY <2>2, <3>1, <4>1, <4>2 DEF Names
    <3>2. QED
      BY <2>2, <3>1 DEF ServerInv, VersionsNamed
  <2>3. QED
    BY <2>1, <2>2
<1>3. \A v, s : Names(v, s) => ~Present(v)'
  BY <1>1 DEF Present
<1>4. ServerTypes' /\ AckedClosed'
  BY <1>1 DEF ServerInv, ServerTypes, AckedClosed
<1>5. CacheOK'
  <2>1. \A k \in DOMAIN cache : ~Present(k[1])'
    BY <1>3 DEF Names
  <2>2. QED
    BY <2>1 DEF ServerInv, CacheOK, Present
<1>6. ASSUME NEW p \in Requests PROVE RequestOK(request[p])'
  <2>1. RequestOK(request[p])
    BY DEF ServerInv
  <2>2. request[p].phase = "fetched" => ~Present(request[p].row.version)'
    BY <1>3 DEF Names, Rowed
  <2>3. QED
    BY <2>1, <2>2 DEF RequestOK, Present, Server!QueryOf, Server!Query, Server!Scope
<1>7. QED
  BY <1>2, <1>4, <1>5, <1>6 DEF ServerInv

LEMMA ServerConnectSafe ==
    ASSUME ServerDistinct, ServerInv, NEW secret \in Secrets, Server!Connect(secret)
    PROVE  ServerInv'
<1>1. PICK id : id = IF accountRow = Nil THEN stamp + 1 ELSE accountRow.id
  OBVIOUS
<1>2. /\ accountRow' = [id |-> id, version |-> stamp + 1, secret |-> secret]
      /\ stamp' = stamp + 1 /\ connected' = secret
      /\ UNCHANGED <<kind, zone, openItems, cache, request, acked>>
  BY <1>1 DEF Server!Connect
<1>3. stamp \in Nat /\ id \in Nat
  BY <1>1 DEF ServerInv, ServerTypes, AccountRows
<1>4. accountRow' \in AccountRows /\ accountRow'.version = stamp + 1 /\ accountRow'.secret = secret
  BY <1>2, <1>3 DEF AccountRows
<1>5. accountRow' # Nil
  BY <1>4 DEF ServerDistinct
<1>6. Server!CredentialsAsConnected'
  BY <1>2, <1>4, <1>5 DEF Server!CredentialsAsConnected
<1>7. QED
  BY <1>2, <1>4, <1>5, <1>6, RowReplaced

LEMMA ServerDisconnectSafe == ASSUME ServerDistinct, ServerInv, Server!Disconnect PROVE ServerInv'
<1>1. /\ accountRow' = Nil /\ connected' = Nil
      /\ UNCHANGED <<kind, stamp, zone, openItems, cache, request, acked>>
  BY DEF Server!Disconnect
<1>2. Server!CredentialsAsConnected'
  BY <1>1 DEF Server!CredentialsAsConnected
<1>3. QED
  BY <1>1, <1>2, RowReplaced

LEMMA ServerClockSafe ==
    ASSUME ServerInv, zone' \in Zones,
           UNCHANGED <<kind, accountRow, connected, stamp, openItems, cache, request, acked>>
    PROVE  ServerInv'
<1>1. ASSUME NEW v, NEW s PROVE Names(v, s)' <=> Names(v, s)
  BY DEF Names
<1>2. VersionsNamed'
  BY <1>1 DEF ServerInv, VersionsNamed
<1>3. ServerTypes' /\ AckedClosed' /\ CacheOK' /\ Server!CredentialsAsConnected'
  BY DEF ServerInv, ServerTypes, AckedClosed, CacheOK, Present, Unacked,
     Server!CredentialsAsConnected
<1>4. ASSUME NEW p \in Requests PROVE RequestOK(request[p])'
  BY DEF ServerInv, RequestOK, Present, Unacked, Server!QueryOf, Server!Query, Server!Scope
<1>5. QED
  BY <1>2, <1>3, <1>4 DEF ServerInv

LEMMA ServerTaskReadSafe ==
    ASSUME ServerInv, NEW r \in Requests, Server!TaskRead(r) PROVE ServerInv'
BY ServerStartReadSafe, ServerHitSafe, ServerFetchSafe, ServerStoreSafe, ServerFailSafe DEF Server!TaskRead

LEMMA ServerTaskCompleteSafe ==
    ASSUME ServerDistinct, ServerInv, NEW r \in Requests, Server!TaskComplete(r) PROVE ServerInv'
<1>1. CASE accountRow # Nil /\ \E i \in openItems[accountRow.secret] : Server!StartComplete(r, i)
  <2>1. openItems[accountRow.secret] \subseteq Items
    BY <1>1 DEF ServerInv, ServerTypes, AccountRows
  <2>2. QED
    BY <1>1, <2>1, ServerStartCompleteSafe
<1>2. QED
  BY <1>1, ServerCloseSafe, ServerInvalidateSafe DEF Server!TaskComplete

LEMMA ServerInvStep == ASSUME ServerDistinct, ServerInv, [Server!Next]_Server!vars PROVE ServerInv'
<1>1. CASE UNCHANGED Server!vars
  BY <1>1, ServerClockSafe DEF Server!vars, ServerInv, ServerTypes
<1>2. ASSUME NEW z \in Zones, Server!SetZone(z) \/ Server!Midnight(z) PROVE ServerInv'
  BY <1>2, ServerClockSafe DEF Server!SetZone, Server!Midnight, ServerInv, ServerTypes
<1>3. ASSUME Server!AccountView PROVE ServerInv'
  BY <1>3, ServerConnectSafe, ServerDisconnectSafe DEF Server!AccountView
<1>4. CASE Server!Next
  BY <1>2, <1>3, <1>4, ServerTaskReadSafe, ServerTaskCompleteSafe DEF Server!Next, Server!Todoist,
     Server!Habitica, Server!CalDAV, Server!TodoistAccount, Server!HabiticaAccount,
     Server!CalDAVAccount
<1>5. QED
  BY <1>1, <1>4

LEMMA ServerInit == ASSUME Server!Init PROVE ServerInv
<1>1. /\ accountRow = Nil /\ connected = Nil /\ stamp = 0 /\ zone \in Zones
      /\ openItems = [s \in Secrets |-> {i \in Items : i.source = kind}]
      /\ DOMAIN cache = {} /\ acked = {}
      /\ request = [r \in Requests |-> Server!Idle]
  BY DEF Server!Init
<1>2. \A r \in Requests : request[r] = Server!Idle
  BY <1>1
<1>3. \A v, s : ~Names(v, s)
  BY <1>1, <1>2, IdleOK DEF Names, Rowed
<1>4. ServerTypes /\ VersionsNamed /\ CacheOK /\ AckedClosed /\ Server!CredentialsAsConnected
  BY <1>1, <1>2, <1>3 DEF ServerTypes, VersionsNamed, CacheOK, AckedClosed,
     Server!CredentialsAsConnected
<1>5. QED
  BY <1>2, <1>4, IdleOK DEF ServerInv

LEMMA ServerInvariant == ServerDistinct => (Server!Spec => []ServerInv)
<1>1. SUFFICES ASSUME ServerDistinct PROVE Server!Spec => []ServerInv
  OBVIOUS
<1>2. Server!Init => ServerInv
  BY ServerInit
<1>3. ServerInv /\ [Server!Next]_Server!vars => ServerInv'
  BY <1>1, ServerInvStep
<1>4. QED
  BY <1>2, <1>3, PTL DEF Server!Spec

-----------------------------------------------------------------------------
(* The lists of the settings page *)

\* What the module counts is what the theorems about finite sets count.
LEMMA Counted ==
    /\ \A S : Kept!Cardinality(S) = Cardinality(S)
    /\ \A S : Kept!IsFiniteSet(S) <=> IsFiniteSet(S)
BY Zenon DEF Kept!Cardinality, Cardinality, Kept!IsFiniteSet, IsFiniteSet

\* No rank is free of rivals: of two rules one is above the other, and so on down.
LEMMA AboveOrders ==
    ASSUME NEW D \in SUBSET Int, NEW R \in [D -> Int], NEW a \in D, NEW b \in D
    PROVE  /\ ~(Kept!Above(R, a, b) /\ Kept!Above(R, b, a))
           /\ a # b => Kept!Above(R, a, b) \/ Kept!Above(R, b, a)
           /\ \A c \in D : Kept!Above(R, a, b) /\ Kept!Above(R, b, c) => Kept!Above(R, a, c)
<1>1. /\ R[a] \in Int /\ R[b] \in Int /\ \A c \in D : R[c] \in Int
      /\ a \in Int /\ b \in Int /\ \A c \in D : c \in Int
  OBVIOUS
<1>2. QED
  BY <1>1 DEF Kept!Above

Below(R, r) == {x \in DOMAIN R : Kept!Above(R, r, x)}

LEMMA BelowShrinks ==
    ASSUME NEW D \in SUBSET Int, IsFiniteSet(D), NEW R \in [D -> Int],
           NEW a \in D, NEW b \in D, Kept!Above(R, a, b)
    PROVE  /\ Cardinality(Below(R, a)) \in Nat /\ Cardinality(Below(R, b)) \in Nat
           /\ Cardinality(Below(R, b)) < Cardinality(Below(R, a))
<1>1. Below(R, b) \subseteq Below(R, a)
  BY AboveOrders DEF Below
<1>2. b \in Below(R, a) /\ b \notin Below(R, b)
  BY AboveOrders DEF Below
<1>3. IsFiniteSet(Below(R, a))
  BY FS_Subset DEF Below
<1>4. /\ IsFiniteSet(Below(R, b)) /\ Cardinality(Below(R, b)) <= Cardinality(Below(R, a))
      /\ Cardinality(Below(R, b)) # Cardinality(Below(R, a))
  BY <1>1, <1>2, <1>3, FS_Subset
<1>5. Cardinality(Below(R, a)) \in Nat /\ Cardinality(Below(R, b)) \in Nat
  BY <1>3, <1>4, FS_CardinalityType
<1>6. QED
  BY <1>4, <1>5

\* _compact_rule_priorities numbers the rules from 0 without gaps and keeps their order.
LEMMA CompactedRanks ==
    ASSUME NEW D \in SUBSET Int, IsFiniteSet(D), NEW R \in [D -> Int]
    PROVE  /\ DOMAIN Kept!Compacted(R) = D
           /\ Kept!Compacted(R) \in [D -> Int]
           /\ Kept!Orders(Kept!Compacted(R)) = 0 .. (Cardinality(D) - 1)
           /\ \A a, b \in D : Kept!Above(R, a, b) <=> Kept!Above(Kept!Compacted(R), a, b)
<1> DEFINE C == Kept!Compacted(R)
<1>1. DOMAIN C = D /\ C = [r \in D |-> C[r]] /\ \A r \in D : C[r] = Cardinality(Below(R, r))
  <2>1. DOMAIN R = D
    OBVIOUS
  <2>2. C = [r \in D |-> Cardinality(Below(R, r))]
    BY <2>1, Counted, Zenon DEF Kept!Compacted, Below
  <2>3. QED
    BY <2>2
<1>2. \A r \in D : C[r] \in 0 .. (Cardinality(D) - 1)
  <2>1. TAKE r \in D
  <2>2. Below(R, r) \subseteq D \ {r}
    BY AboveOrders DEF Below
  <2>3. IsFiniteSet(D \ {r}) /\ Cardinality(D \ {r}) = Cardinality(D) - 1
    BY FS_RemoveElement
  <2>4. /\ IsFiniteSet(Below(R, r)) /\ Cardinality(Below(R, r)) <= Cardinality(D \ {r})
    BY <2>2, <2>3, FS_Subset
  <2>5. Cardinality(Below(R, r)) \in Nat /\ Cardinality(D) \in Nat
    BY <2>4, FS_CardinalityType
  <2>6. QED
    BY <1>1, <2>3, <2>4, <2>5
<1>3. \A a, b \in D : Kept!Above(R, a, b) => C[b] < C[a]
  BY <1>1, BelowShrinks
<1>4. \A a, b \in D : a # b => C[a] # C[b]
  BY <1>2, <1>3, AboveOrders
<1>5. Cardinality(D) \in Nat
  BY FS_CardinalityType
<1>6. C \in Injection(D, 0 .. (Cardinality(D) - 1))
  BY <1>1, <1>2, <1>4 DEF Injection, IsInjective
<1>7. /\ IsFiniteSet(0 .. (Cardinality(D) - 1))
      /\ Cardinality(0 .. (Cardinality(D) - 1)) = Cardinality(D)
  BY SMTT(30), <1>5, FS_Interval
<1>8. C \in Surjection(D, 0 .. (Cardinality(D) - 1))
  BY <1>6, <1>7, FS_Injection
<1>9. Kept!Orders(C) = 0 .. (Cardinality(D) - 1)
  BY <1>1, <1>2, <1>8 DEF Surjection, Kept!Orders
<1>10. \A a, b \in D : Kept!Above(R, a, b) <=> Kept!Above(C, a, b)
  <2>1. TAKE a \in D, b \in D
  <2>2. C[a] \in Int /\ C[b] \in Int /\ a \in Int
    BY <1>2
  <2>3. CASE Kept!Above(R, a, b)
    BY <2>2, <2>3, <1>3 DEF Kept!Above
  <2>4. CASE a # b /\ Kept!Above(R, b, a)
    BY <2>2, <2>4, <1>3, AboveOrders DEF Kept!Above
  <2>5. CASE a = b
    BY <2>2, <2>5, AboveOrders DEF Kept!Above
  <2>6. QED
    BY <2>3, <2>4, <2>5, AboveOrders
<1>11. QED
  BY <1>1, <1>2, <1>9, <1>10, <1>5

\* What After returns is past every element.
LEMMA AfterAll ==
    ASSUME NEW S \in SUBSET Int, NEW n \in Kept!After(S)
    PROVE  n \in Int /\ \A k \in S : k < n
BY DEF Kept!After

KeptCatalog ==
    /\ Kept!Known \subseteq Slugs /\ IsFiniteSet(Kept!Known) /\ catalog \in [Kept!Known -> Int]
    /\ Sink \in Kept!Known
    /\ Kept!PlacesDistinct
    /\ Cardinality(Kept!Known) <= MaxCategories

KeptRows ==
    /\ dayWindow \in Spans
    /\ preferences \in Kept!PreferenceRows \union {Nil}

KeptTemplates ==
    /\ DOMAIN templates \subseteq Types
    /\ \A t \in DOMAIN templates : \A b \in templates[t] : Kept!BlockOK(b)
    /\ Kept!TemplatesNameCategories

KeptRules ==
    /\ lastId \in 0..MaxId
    /\ DOMAIN rules \subseteq 1..lastId /\ rules \in [DOMAIN rules -> Int]
    /\ Cardinality(DOMAIN rules) <= MaxRules

TravelTypes ==
    /\ DOMAIN travel \subseteq 1..lastId /\ travel \in [DOMAIN travel -> Kept!TravelRows]
    /\ raced \subseteq 1..lastId
    /\ DOMAIN editing = Edits /\ \A q \in Edits : Kept!RequestOK(editing[q])

\* A request under way passed the checks of its body, a patch together with the row it read.
Judged ==
    \A q \in Edits :
        /\ editing[q].kind = "create" => Kept!Matches(editing[q].rule)
        /\ editing[q].kind = "patch" =>
            Kept!Matches(Kept!Merged(editing[q].read, editing[q].change))

Room ==
    Cardinality(DOMAIN travel) + Cardinality(Kept!Admitted) < MaxTravel + Cardinality(Edits)

KeptTravel == TravelTypes /\ Judged /\ Kept!TravelSound /\ Kept!OrdersAccepted /\ Room

KeptInv == KeptCatalog /\ KeptRows /\ KeptTemplates /\ KeptRules /\ KeptTravel

LEMMA KeptInvImplies == KeptInv => Kept!ListsSound
BY Counted DEF KeptInv, KeptCatalog, KeptRows, KeptTemplates, KeptRules, KeptTravel, TravelTypes,
   Room, Kept!ListsSound, Kept!TypeOK, Kept!CapsHold

LEMMA KeptInit == ASSUME Kept!Sized, Kept!Init PROVE KeptInv
<1>1. IsFiniteSet({}) /\ Cardinality({}) = 0
  BY FS_EmptySet
<1>2. KeptCatalog
  <2>1. Kept!Known = Seeds /\ IsFiniteSet(Seeds) /\ Cardinality(Seeds) \in Nat
    BY Counted, FS_CardinalityType DEF Kept!Sized, Kept!Init, Kept!Known
  <2>2. QED
    BY <2>1, Counted DEF Kept!Sized, Kept!Init, KeptCatalog, Kept!PlacesDistinct
<1>3. KeptRows
  BY DEF Kept!Init, KeptRows
<1>4. DOMAIN Kept!Nothing = {}
  BY DEF Kept!Nothing
<1>5. KeptTemplates
  BY <1>4 DEF Kept!Init, KeptTemplates, Kept!TemplatesNameCategories
<1>6. KeptRules
  <2>1. Kept!Nothing \in [{} -> Int]
    BY DEF Kept!Nothing
  <2>2. QED
    BY <1>1, <1>4, <2>1 DEF Kept!Init, KeptRules, Kept!Sized
<1>7. TravelTypes
  <2>1. Kept!Nothing \in [{} -> Kept!TravelRows]
    BY DEF Kept!Nothing
  <2>2. QED
    BY <1>4, <2>1 DEF Kept!Init, TravelTypes, Kept!RequestOK
<1>8. \A q \in Edits : editing[q] = Kept!Idle
  BY DEF Kept!Init
<1>9. Judged /\ Kept!TravelSound /\ Kept!OrdersAccepted
  BY <1>4, <1>8 DEF Kept!Init, Judged, Kept!TravelSound, Kept!OrdersAccepted, Kept!Idle
<1>10. Room
  <2>1. Kept!Admitted = {}
    BY <1>8 DEF Kept!Admitted, Kept!Idle
  <2>2. Cardinality(Edits) \in Nat
    BY Counted, FS_CardinalityType DEF Kept!Sized
  <2>3. DOMAIN travel = {}
    BY <1>4 DEF Kept!Init
  <2>4. QED
    BY <1>1, <2>1, <2>2, <2>3 DEF Room, Kept!Sized
<1>11. QED
  BY <1>2, <1>3, <1>5, <1>6, <1>7, <1>9, <1>10 DEF KeptInv, KeptTravel

-----------------------------------------------------------------------------
(* Steps that leave a part alone *)

LEMMA TemplatesKept ==
    ASSUME KeptTemplates, UNCHANGED templates, Kept!Known \subseteq Kept!Known' PROVE KeptTemplates'
<1>1. /\ DOMAIN templates \subseteq Types
      /\ \A t \in DOMAIN templates : \A b \in templates[t] : Kept!BlockOK(b) /\ b.category \in Kept!Known
  BY DEF KeptTemplates, Kept!TemplatesNameCategories
<1>2. \A b : Kept!BlockOK(b) => Kept!BlockOK(b)'
  BY DEF Kept!BlockOK
<1>3. QED
  BY <1>1, <1>2 DEF KeptTemplates, Kept!TemplatesNameCategories

LEMMA CatalogKept == ASSUME KeptCatalog, UNCHANGED catalog PROVE KeptCatalog' /\ Kept!Known' = Kept!Known
BY DEF KeptCatalog, Kept!Known, Kept!PlacesDistinct

LEMMA RulesKept == ASSUME KeptRules, UNCHANGED <<rules, lastId>> PROVE KeptRules'
BY DEF KeptRules

LEMMA TravelKept ==
    ASSUME KeptTravel, UNCHANGED <<travel, editing, raced>>, Kept!Known \subseteq Kept!Known',
           KeptRules, lastId' \in Nat, lastId <= lastId'
    PROVE  KeptTravel'
<1>1. 1..lastId \subseteq 1..lastId'
  BY DEF KeptRules
<1>2. TravelTypes'
  BY <1>1 DEF KeptTravel, TravelTypes, Kept!RequestOK, Kept!InRange
<1>3. Judged' /\ Kept!OrdersAccepted' /\ Room'
  BY DEF KeptTravel, Judged, Kept!Matches, Kept!Merged, Kept!Said, Kept!OrdersAccepted, Room, Kept!Admitted
<1>4. Kept!TravelSound'
  BY DEF KeptTravel, Kept!TravelSound, Kept!Matches, Kept!CategoryKnown
<1>5. QED
  BY <1>2, <1>3, <1>4 DEF KeptTravel

LEMMA TravelRewritten ==
    ASSUME KeptTravel, KeptRules, UNCHANGED <<editing, raced, lastId>>,
           DOMAIN travel' = DOMAIN travel, travel' = [id \in DOMAIN travel |-> travel'[id]],
           ASSUME NEW id \in DOMAIN travel
           PROVE  /\ travel'[id] \in Kept!TravelRows /\ travel'[id].order <= MaxOrder
                  /\ Kept!Matches(travel[id]) => Kept!Matches(travel[id])'
                  /\ Kept!CategoryKnown(travel[id].category) => Kept!CategoryKnown(travel[id].category)'
    PROVE  KeptTravel'
<1>1. TravelTypes'
  BY DEF KeptTravel, TravelTypes, Kept!RequestOK, Kept!InRange
<1>2. Judged' /\ Room'
  BY DEF KeptTravel, Judged, Kept!Matches, Kept!Merged, Kept!Said, Room, Kept!Admitted
<1>3. Kept!OrdersAccepted' /\ Kept!TravelSound'
  BY DEF KeptTravel, Kept!OrdersAccepted, Kept!TravelSound
<1>4. QED
  BY <1>1, <1>2, <1>3 DEF KeptTravel

-----------------------------------------------------------------------------
(* Steps *)

\* Before a step with these constants the invariant holds.
KeptBefore == Kept!Sized /\ KeptInv

LEMMA KeptCreateCategorySafe ==
    ASSUME KeptBefore, NEW slug \in Slugs, Kept!CreateCategory(slug) PROVE KeptInv'
<1>1. KeptCatalog /\ Kept!Known = DOMAIN catalog
  BY DEF KeptBefore, KeptInv, Kept!Known
<1>2. PICK n \in Kept!After({catalog[s] : s \in Kept!Known}) : catalog' = Kept!Put(catalog, slug, n)
  BY DEF Kept!CreateCategory
<1>3. n \in Int /\ \A s \in Kept!Known : catalog[s] < n
  <2>1. {catalog[s] : s \in Kept!Known} \subseteq Int
    BY <1>1 DEF KeptCatalog
  <2>2. QED
    BY <2>1, AfterAll
<1>4. /\ Kept!Known' = Kept!Known \union {slug} /\ catalog'[slug] = n
      /\ \A s \in Kept!Known : catalog'[s] = catalog[s]
      /\ catalog' \in [Kept!Known' -> Int]
  BY <1>1, <1>2, <1>3 DEF Kept!Put, Kept!Known, KeptCatalog, Kept!CreateCategory
<1>5. IsFiniteSet(Kept!Known') /\ Cardinality(Kept!Known') <= MaxCategories
  <2>1. /\ IsFiniteSet(Kept!Known \union {slug})
        /\ Cardinality(Kept!Known \union {slug}) = Cardinality(Kept!Known) + 1
    BY <1>1, FS_AddElement DEF KeptCatalog, Kept!CreateCategory
  <2>2. Cardinality(Kept!Known) < MaxCategories /\ Cardinality(Kept!Known) \in Nat /\ MaxCategories \in Nat
    BY <1>1, Counted, FS_CardinalityType DEF KeptCatalog, Kept!CreateCategory, KeptBefore, Kept!Sized
  <2>3. QED
    BY <1>4, <2>1, <2>2
<1>6. Kept!PlacesDistinct'
  <2>1. \A s \in Kept!Known : catalog[s] \in Int
    BY <1>1 DEF KeptCatalog
  <2>2. QED
    BY <1>1, <1>3, <1>4, <2>1 DEF Kept!PlacesDistinct, KeptCatalog
<1>7. KeptCatalog'
  BY <1>1, <1>4, <1>5, <1>6 DEF KeptCatalog
<1>8. UNCHANGED <<dayWindow, preferences, templates, rules, travel, editing, raced, lastId>>
  BY DEF Kept!CreateCategory, Kept!travelVars
<1>9. KeptRows' /\ KeptTemplates' /\ KeptRules'
  BY <1>4, <1>8, TemplatesKept, RulesKept DEF KeptBefore, KeptInv, KeptRows
<1>10. KeptTravel'
  BY <1>4, <1>8, TravelKept DEF KeptBefore, KeptInv, KeptRules
<1>11. QED
  BY <1>7, <1>9, <1>10 DEF KeptInv

LEMMA KeptSwapCategoriesSafe ==
    ASSUME KeptBefore, NEW a \in Slugs, NEW b \in Slugs, Kept!SwapCategories(a, b) PROVE KeptInv'
<1>1. KeptCatalog /\ a \in Kept!Known /\ b \in Kept!Known /\ Kept!Known = DOMAIN catalog
  BY DEF KeptBefore, KeptInv, Kept!SwapCategories, Kept!TwoOf, Kept!Known
<1>2. /\ Kept!Known' = Kept!Known /\ catalog' \in [Kept!Known -> Int]
      /\ catalog'[a] = catalog[b] /\ catalog'[b] = catalog[a]
      /\ \A s \in Kept!Known \ {a, b} : catalog'[s] = catalog[s]
  BY <1>1 DEF Kept!SwapCategories, Kept!Exchanged, Kept!Known, KeptCatalog
<1>3. Kept!PlacesDistinct'
  BY <1>1, <1>2 DEF Kept!PlacesDistinct, KeptCatalog
<1>4. KeptCatalog'
  BY <1>1, <1>2, <1>3 DEF KeptCatalog
<1>5. UNCHANGED <<dayWindow, preferences, templates, rules, travel, editing, raced, lastId>>
  BY DEF Kept!SwapCategories, Kept!travelVars
<1>6. KeptRows' /\ KeptTemplates' /\ KeptRules'
  BY <1>2, <1>5, TemplatesKept, RulesKept DEF KeptBefore, KeptInv, KeptRows
<1>7. KeptTravel'
  BY <1>2, <1>5, TravelKept DEF KeptBefore, KeptInv, KeptRules
<1>8. QED
  BY <1>4, <1>6, <1>7 DEF KeptInv

\* What names the deleted category names the sink afterwards, and the sink stays.
LEMMA KeptDeleteCategorySafe ==
    ASSUME KeptBefore, NEW gone \in Slugs, Kept!DeleteCategory(gone) PROVE KeptInv'
<1>1. /\ KeptCatalog /\ KeptTemplates /\ KeptTravel /\ KeptRules
      /\ gone \in Kept!Known /\ gone # Sink /\ Kept!Known = DOMAIN catalog
  BY DEF KeptBefore, KeptInv, Kept!DeleteCategory, Kept!Known
<1>2. /\ Kept!Known' = Kept!Known \ {gone} /\ Sink \in Kept!Known'
      /\ \A s \in Kept!Known' : catalog'[s] = catalog[s]
      /\ catalog' \in [Kept!Known' -> Int]
  BY <1>1 DEF Kept!DeleteCategory, Kept!Without, Kept!Known, KeptCatalog
<1>3. KeptCatalog'
  <2>1. /\ IsFiniteSet(Kept!Known') /\ Cardinality(Kept!Known') <= Cardinality(Kept!Known)
        /\ Cardinality(Kept!Known') \in Nat /\ Cardinality(Kept!Known) \in Nat /\ MaxCategories \in Nat
    BY <1>1, <1>2, FS_Subset, FS_CardinalityType DEF KeptCatalog, KeptBefore, Kept!Sized
  <2>2. QED
    BY <1>1, <1>2, <2>1 DEF KeptCatalog, Kept!PlacesDistinct
<1>4. \A c \in Kept!Known : Kept!ToSink(c, gone) \in Kept!Known'
  BY <1>2 DEF Kept!ToSink
<1>5. KeptTemplates'
  <2>1. DOMAIN templates' = DOMAIN templates
    BY DEF Kept!DeleteCategory
  <2>2. ASSUME NEW t \in DOMAIN templates, NEW b \in templates'[t]
        PROVE  Kept!BlockOK(b) /\ b.category \in Kept!Known'
    <3>1. PICK c \in templates[t] : b = [c EXCEPT !.category = Kept!ToSink(c.category, gone)]
      BY <2>2 DEF Kept!DeleteCategory
    <3>2. Kept!BlockOK(c) /\ c.category \in Kept!Known
      BY <1>1 DEF KeptTemplates, Kept!TemplatesNameCategories
    <3>3. Kept!ToSink(c.category, gone) \in Kept!Known' /\ Kept!ToSink(c.category, gone) \in Slugs
      BY <1>3, <1>4, <3>2 DEF KeptCatalog
    <3>4. QED
      BY <3>1, <3>2, <3>3 DEF Kept!BlockOK
  <2>3. QED
    BY <1>1, <2>1, <2>2 DEF KeptTemplates, Kept!TemplatesNameCategories, Kept!BlockOK
<1>6. UNCHANGED <<dayWindow, preferences, rules, editing, raced, lastId>>
  BY DEF Kept!DeleteCategory
<1>7. KeptRows' /\ KeptRules'
  BY <1>6, RulesKept DEF KeptBefore, KeptInv, KeptRows
<1>8. DOMAIN travel' = DOMAIN travel /\ travel' = [id \in DOMAIN travel |-> travel'[id]]
  BY DEF Kept!DeleteCategory, Kept!TravelRemapped
<1>9. ASSUME NEW id \in DOMAIN travel
      PROVE  /\ travel'[id] \in Kept!TravelRows /\ travel'[id].order <= MaxOrder
             /\ Kept!Matches(travel[id]) => Kept!Matches(travel[id])'
             /\ Kept!CategoryKnown(travel[id].category) => Kept!CategoryKnown(travel[id].category)'
  <2>1. travel[id] \in Kept!TravelRows /\ travel[id].order <= MaxOrder
    BY <1>1, <1>9 DEF KeptTravel, TravelTypes, Kept!OrdersAccepted
  <2>2. travel'[id] = [travel[id] EXCEPT !.category = Kept!ToSink(travel[id].category, gone)]
    BY <1>9 DEF Kept!DeleteCategory, Kept!TravelRemapped
  <2>3. Kept!ToSink(travel[id].category, gone) \in Slugs \union {Nil}
    BY <2>1, <1>3, <1>2 DEF Kept!ToSink, Kept!TravelRows, KeptCatalog
  <2>4. /\ travel'[id] \in Kept!TravelRows /\ travel'[id].order = travel[id].order
        /\ travel'[id].keyword = travel[id].keyword /\ travel'[id].calendar = travel[id].calendar
        /\ travel'[id].category = Kept!ToSink(travel[id].category, gone)
    BY <2>1, <2>2, <2>3 DEF Kept!TravelRows
  <2>5. Kept!CategoryKnown(travel[id].category) => Kept!CategoryKnown(travel[id].category)'
    BY <1>4, <2>4 DEF Kept!CategoryKnown, Kept!ToSink, KeptBefore, Kept!Sized
  <2>6. QED
    BY <2>1, <2>4, <2>5 DEF Kept!Matches
<1>10. KeptTravel'
  BY <1>1, <1>6, <1>8, <1>9, TravelRewritten
<1>11. QED
  BY <1>3, <1>5, <1>7, <1>10 DEF KeptInv

\* The window of the day and the preferences are rows of their own.
LEMMA KeptRowsSafe ==
    ASSUME KeptBefore, KeptRows', UNCHANGED <<catalog, templates, rules, travel, editing, raced, lastId>>
    PROVE  KeptInv'
<1>1. KeptCatalog' /\ KeptTemplates' /\ KeptRules'
  BY CatalogKept, TemplatesKept, RulesKept DEF KeptBefore, KeptInv
<1>2. KeptTravel'
  BY CatalogKept, TravelKept DEF KeptBefore, KeptInv, KeptRules
<1>3. QED
  BY <1>1, <1>2 DEF KeptInv

LEMMA KeptSaveSettingsSafe ==
    ASSUME KeptBefore, NEW window \in Spans, Kept!SaveSettings(window) PROVE KeptInv'
BY KeptRowsSafe DEF Kept!SaveSettings, Kept!travelVars, KeptRows, KeptBefore, KeptInv

LEMMA KeptPreferencesSafe ==
    ASSUME KeptBefore, Kept!OpenPreferences \/ Kept!PatchPreferences PROVE KeptInv'
<1>1. Kept!Preferences \in Kept!PreferenceRows
  BY DEF Kept!Preferences, KeptBefore, Kept!Sized, KeptInv, KeptRows
<1>2. preferences' \in Kept!PreferenceRows
  BY <1>1 DEF Kept!OpenPreferences, Kept!PatchPreferences, Kept!PreferenceRows
<1>3. QED
  BY <1>2, KeptRowsSafe
     DEF Kept!OpenPreferences, Kept!PatchPreferences, Kept!travelVars, KeptRows, KeptBefore, KeptInv

LEMMA KeptTemplatesSafe ==
    ASSUME KeptBefore, KeptTemplates',
           UNCHANGED <<catalog, dayWindow, preferences, rules, travel, editing, raced, lastId>>
    PROVE  KeptInv'
<1>1. KeptCatalog' /\ KeptRows' /\ KeptRules'
  BY CatalogKept, RulesKept DEF KeptBefore, KeptInv, KeptRows
<1>2. KeptTravel'
  BY CatalogKept, TravelKept DEF KeptBefore, KeptInv, KeptRules
<1>3. QED
  BY <1>1, <1>2 DEF KeptInv

\* A body that passed the checks has blocks of the catalog only.
LEMMA BodyChecked ==
    ASSUME KeptBefore, NEW body \in Bodies, Kept!ValidBody(body), NEW b \in Kept!Normalized(body)
    PROVE  Kept!BlockOK(b) /\ b.category \in Kept!Known
<1>1. b.category \in Kept!Known /\ b.start < b.end
  BY DEF Kept!ValidBody
<1>2. PICK c \in body : b = [c EXCEPT !.category = IF c.category = Nil THEN Sink ELSE c.category]
  BY DEF Kept!Normalized
<1>3. c \in [start : Int, end : Int, category : Slugs \union {Nil}]
  BY DEF KeptBefore, Kept!Sized
<1>4. Kept!Known \subseteq Slugs
  BY DEF KeptBefore, KeptInv, KeptCatalog
<1>5. QED
  BY <1>1, <1>2, <1>3, <1>4 DEF Kept!BlockOK

LEMMA TemplatesWritten ==
    ASSUME KeptBefore, UNCHANGED catalog, DOMAIN templates' \subseteq Types,
           \A t \in DOMAIN templates' :
              \/ t \in DOMAIN templates /\ templates'[t] = templates[t]
              \/ \E body \in Bodies : Kept!ValidBody(body) /\ templates'[t] = Kept!Normalized(body)
    PROVE  KeptTemplates'
<1>1. ASSUME NEW t \in DOMAIN templates', NEW b \in templates'[t]
      PROVE  Kept!BlockOK(b) /\ b.category \in Kept!Known
  BY <1>1, BodyChecked DEF KeptBefore, KeptInv, KeptTemplates, Kept!TemplatesNameCategories
<1>2. Kept!Known' = Kept!Known
  BY DEF Kept!Known
<1>3. QED
  BY <1>1, <1>2 DEF KeptTemplates, Kept!TemplatesNameCategories, Kept!BlockOK

LEMMA KeptTemplateSafe ==
    ASSUME KeptBefore, NEW type \in Types, NEW body \in Bodies,
           \/ Kept!CreateTemplate(type, body)
           \/ \E from \in Types : Kept!UpdateTemplate(from, type, body)
    PROVE  KeptInv'
<1>1. DOMAIN templates \subseteq Types
  BY DEF KeptBefore, KeptInv, KeptTemplates
<1>2. CASE Kept!CreateTemplate(type, body)
  <2>1. KeptTemplates'
    BY <1>1, <1>2, TemplatesWritten DEF Kept!CreateTemplate, Kept!Put
  <2>2. QED
    BY <1>2, <2>1, KeptTemplatesSafe DEF Kept!CreateTemplate, Kept!travelVars
<1>3. ASSUME NEW from \in Types, Kept!UpdateTemplate(from, type, body) PROVE KeptInv'
  <2>1. KeptTemplates'
    BY <1>1, <1>3, TemplatesWritten DEF Kept!UpdateTemplate, Kept!Put, Kept!Without
  <2>2. QED
    BY <1>3, <2>1, KeptTemplatesSafe DEF Kept!UpdateTemplate, Kept!travelVars
<1>4. QED
  BY <1>2, <1>3

LEMMA KeptDeleteTemplateSafe ==
    ASSUME KeptBefore, NEW type \in Types, Kept!DeleteTemplate(type) PROVE KeptInv'
<1>1. DOMAIN templates \subseteq Types
  BY DEF KeptBefore, KeptInv, KeptTemplates
<1>2. KeptTemplates'
  BY <1>1, TemplatesWritten DEF Kept!DeleteTemplate, Kept!Without
<1>3. QED
  BY <1>2, KeptTemplatesSafe DEF Kept!DeleteTemplate, Kept!travelVars

\* The rules change, and with them at most the ids that were given away.
LEMMA KeptRulesSafe ==
    ASSUME KeptBefore, KeptRules', lastId <= lastId',
           UNCHANGED <<catalog, dayWindow, preferences, templates, travel, editing, raced>>
    PROVE  KeptInv'
<1>1. KeptCatalog' /\ KeptRows' /\ KeptTemplates'
  BY CatalogKept, TemplatesKept DEF KeptBefore, KeptInv, KeptRows
<1>2. KeptTravel'
  BY CatalogKept, TravelKept DEF KeptBefore, KeptInv, KeptRules
<1>3. QED
  BY <1>1, <1>2 DEF KeptInv

LEMMA RulesFinite ==
    ASSUME KeptBefore
    PROVE  /\ DOMAIN rules \subseteq 1..lastId /\ lastId \in Nat /\ rules \in [DOMAIN rules -> Int]
           /\ IsFiniteSet(DOMAIN rules) /\ Cardinality(DOMAIN rules) \in Nat
           /\ MaxRules \in Nat /\ MaxId \in Nat /\ Cardinality(DOMAIN rules) <= MaxRules
<1>1. /\ DOMAIN rules \subseteq 1..lastId /\ lastId \in Nat /\ rules \in [DOMAIN rules -> Int]
      /\ MaxRules \in Nat /\ MaxId \in Nat /\ Cardinality(DOMAIN rules) <= MaxRules
  BY DEF KeptBefore, KeptInv, KeptRules, Kept!Sized
<1>2. IsFiniteSet(DOMAIN rules)
  <2>1. 1 \in Int /\ lastId \in Int
    BY <1>1
  <2>2. IsFiniteSet(1..lastId)
    BY <2>1, FS_Interval
  <2>3. QED
    BY <1>1, <2>2, FS_Subset
<1>3. QED
  BY <1>1, <1>2, FS_CardinalityType

\* What a step says of the rules: the invariant and the order of those that stay.
RulesGo == KeptInv' /\ Kept!RulesKeepOrder

LEMMA KeptCreateRuleSafe ==
    ASSUME KeptBefore, NEW asked \in Priorities \union {Nil}, Kept!CreateRule(asked) PROVE RulesGo
<1> DEFINE D == DOMAIN rules \union {lastId + 1}
<1>1. /\ DOMAIN rules \subseteq 1..lastId /\ lastId \in Nat /\ rules \in [DOMAIN rules -> Int]
      /\ IsFiniteSet(DOMAIN rules) /\ Cardinality(DOMAIN rules) \in Nat
      /\ Cardinality(DOMAIN rules) < MaxRules /\ MaxRules \in Nat /\ MaxId \in Nat
      /\ lastId' = lastId + 1 /\ lastId < MaxId
  BY RulesFinite, Counted DEF Kept!CreateRule
<1>2. PICK p \in Int : rules' = Kept!Compacted(Kept!Put(rules, lastId', p))
  <2>1. {rules[r] : r \in DOMAIN rules} \subseteq Int
    BY <1>1
  <2>2. Priorities \subseteq Int
    BY DEF KeptBefore, Kept!Sized
  <2>3. CASE asked = Nil
    BY <2>1, <2>3, AfterAll DEF Kept!CreateRule
  <2>4. CASE asked # Nil
    BY <2>2, <2>4 DEF Kept!CreateRule
  <2>5. QED
    BY <2>3, <2>4
<1>3. PICK R : R = Kept!Put(rules, lastId', p)
  OBVIOUS
<1>4. R \in [D -> Int] /\ \A r \in DOMAIN rules : R[r] = rules[r]
  BY <1>1, <1>2, <1>3 DEF Kept!Put
<1>5. /\ D \in SUBSET Int /\ IsFiniteSet(D) /\ Cardinality(D) = Cardinality(DOMAIN rules) + 1
      /\ D \subseteq 1..lastId'
  BY <1>1, FS_AddElement
<1>6. /\ DOMAIN rules' = D /\ rules' \in [D -> Int]
      /\ Kept!Orders(rules') = 0 .. (Cardinality(D) - 1)
      /\ \A a, b \in D : Kept!Above(R, a, b) <=> Kept!Above(rules', a, b)
  <2>1. rules' = Kept!Compacted(R)
    BY <1>2, <1>3
  <2>2. QED
    BY <1>4, <1>5, <2>1, CompactedRanks
<1>7. KeptRules'
  BY <1>1, <1>5, <1>6 DEF KeptRules
<1>8. Kept!RulesKeepOrder
  <2>1. \A a, b \in DOMAIN rules : Kept!Above(rules, a, b) <=> Kept!Above(R, a, b)
    BY <1>4 DEF Kept!Above
  <2>2. QED
    BY <1>6, <2>1, Counted DEF Kept!RulesKeepOrder
<1>9. QED
  BY <1>1, <1>7, <1>8, KeptRulesSafe DEF RulesGo, Kept!CreateRule, Kept!travelVars

LEMMA KeptDeleteRuleSafe ==
    ASSUME KeptBefore, NEW gone \in DOMAIN rules, Kept!DeleteRule(gone) PROVE RulesGo
<1> DEFINE D == DOMAIN rules \ {gone}
<1>1. /\ DOMAIN rules \subseteq 1..lastId /\ lastId \in Nat /\ rules \in [DOMAIN rules -> Int]
      /\ IsFiniteSet(DOMAIN rules) /\ Cardinality(DOMAIN rules) \in Nat
      /\ Cardinality(DOMAIN rules) <= MaxRules /\ MaxRules \in Nat
      /\ lastId' = lastId
  BY RulesFinite DEF Kept!DeleteRule
<1>2. PICK R : R = Kept!Without(rules, gone)
  OBVIOUS
<1>3. R \in [D -> Int] /\ \A r \in D : R[r] = rules[r]
  BY <1>1, <1>2 DEF Kept!Without
<1>4. /\ D \in SUBSET Int /\ IsFiniteSet(D) /\ Cardinality(D) = Cardinality(DOMAIN rules) - 1
      /\ D \subseteq 1..lastId'
  BY <1>1, FS_RemoveElement
<1>5. /\ DOMAIN rules' = D /\ rules' \in [D -> Int]
      /\ Kept!Orders(rules') = 0 .. (Cardinality(D) - 1)
      /\ \A a, b \in D : Kept!Above(R, a, b) <=> Kept!Above(rules', a, b)
  <2>1. rules' = Kept!Compacted(R)
    BY <1>2 DEF Kept!DeleteRule
  <2>2. QED
    BY <1>3, <1>4, <2>1, CompactedRanks
<1>6. KeptRules'
  <2>1. lastId' \in 0..MaxId
    BY <1>1 DEF KeptBefore, KeptInv, KeptRules
  <2>2. QED
    BY <1>1, <1>4, <1>5, <2>1 DEF KeptRules
<1>7. Kept!RulesKeepOrder
  <2>1. \A a, b \in D : Kept!Above(rules, a, b) <=> Kept!Above(R, a, b)
    BY <1>3 DEF Kept!Above
  <2>2. QED
    BY <1>5, <2>1, Counted DEF Kept!RulesKeepOrder
<1>8. QED
  BY <1>1, <1>6, <1>7, KeptRulesSafe DEF RulesGo, Kept!DeleteRule, Kept!travelVars

LEMMA KeptMoveRuleSafe ==
    ASSUME KeptBefore,
           \/ \E r \in DOMAIN rules, p \in Priorities : Kept!PatchRule(r, p)
           \/ \E a, b \in DOMAIN rules : Kept!SwapRules(a, b)
    PROVE  RulesGo
<1>1. DOMAIN rules' = DOMAIN rules /\ rules' \in [DOMAIN rules -> Int]
  <2>1. rules \in [DOMAIN rules -> Int] /\ Priorities \subseteq Int
    BY RulesFinite DEF KeptBefore, Kept!Sized
  <2>2. QED
    BY <2>1 DEF Kept!PatchRule, Kept!SwapRules, Kept!Exchanged
<1>2. UNCHANGED <<catalog, dayWindow, preferences, templates, travel, editing, raced, lastId>>
  BY DEF Kept!PatchRule, Kept!SwapRules, Kept!travelVars
<1>3. KeptRules' /\ lastId <= lastId'
  BY <1>1, <1>2, RulesFinite DEF KeptRules, KeptBefore, KeptInv
<1>4. QED
  BY <1>1, <1>2, <1>3, KeptRulesSafe DEF RulesGo, Kept!RulesKeepOrder

-----------------------------------------------------------------------------
(* Travel rules *)

LEMMA TravelFinite ==
    ASSUME KeptBefore
    PROVE  /\ IsFiniteSet(DOMAIN travel) /\ Cardinality(DOMAIN travel) \in Nat
           /\ IsFiniteSet(Kept!Admitted) /\ Cardinality(Kept!Admitted) \in Nat
           /\ Cardinality(Kept!Admitted) <= Cardinality(Edits)
           /\ IsFiniteSet(Edits) /\ Cardinality(Edits) \in Nat
           /\ MaxTravel \in Nat /\ lastId \in Nat /\ DOMAIN travel \subseteq 1..lastId
<1>1. /\ DOMAIN travel \subseteq 1..lastId /\ lastId \in Nat /\ MaxTravel \in Nat /\ IsFiniteSet(Edits)
  BY Counted DEF KeptBefore, KeptInv, KeptRules, KeptTravel, TravelTypes, Kept!Sized
<1>2. IsFiniteSet(1..lastId)
  BY <1>1, FS_Interval
<1>3. Kept!Admitted \subseteq Edits
  BY DEF Kept!Admitted
<1>4. IsFiniteSet(DOMAIN travel)
  BY <1>1, <1>2, FS_Subset
<1>5. IsFiniteSet(Kept!Admitted) /\ Cardinality(Kept!Admitted) <= Cardinality(Edits)
  BY <1>1, <1>3, FS_Subset
<1>6. QED
  BY <1>1, <1>4, <1>5, FS_CardinalityType

\* Who leaves makes room.
LEMMA RoomKept ==
    ASSUME KeptBefore, DOMAIN travel' \subseteq DOMAIN travel, Kept!Admitted' \subseteq Kept!Admitted
    PROVE  Room'
<1>1. /\ Cardinality(DOMAIN travel') \in Nat /\ Cardinality(DOMAIN travel') <= Cardinality(DOMAIN travel)
  BY TravelFinite, FS_Subset, FS_CardinalityType
<1>2. /\ Cardinality(Kept!Admitted') \in Nat /\ Cardinality(Kept!Admitted') <= Cardinality(Kept!Admitted)
  BY TravelFinite, FS_Subset, FS_CardinalityType
<1>3. MaxTravel \in Nat /\ Cardinality(Edits) \in Nat /\ Cardinality(DOMAIN travel) \in Nat /\ Cardinality(Kept!Admitted) \in Nat
  BY TravelFinite
<1>4. Room
  BY DEF KeptBefore, KeptInv, KeptTravel
<1>5. QED
  BY <1>1, <1>2, <1>3, <1>4 DEF Room

\* Travel rules change, their requests, and at most the ids that were given away.
LEMMA KeptTravelSafe ==
    ASSUME KeptBefore, KeptTravel', UNCHANGED <<catalog, dayWindow, preferences, templates, rules>>,
           lastId' \in 0..MaxId, lastId <= lastId'
    PROVE  KeptInv' /\ Kept!RulesKeepOrder
<1>1. KeptCatalog' /\ KeptRows' /\ KeptTemplates'
  BY CatalogKept, TemplatesKept DEF KeptBefore, KeptInv, KeptRows
<1>2. KeptRules'
  <2>1. 1..lastId \subseteq 1..lastId'
    BY RulesFinite
  <2>2. QED
    BY <2>1 DEF KeptBefore, KeptInv, KeptRules
<1>3. QED
  BY <1>1, <1>2 DEF KeptInv, Kept!RulesKeepOrder

Passed(e) ==
    /\ Kept!RequestOK(e)
    /\ e.kind = "create" => Kept!Matches(e.rule)
    /\ e.kind = "patch" => Kept!Matches(Kept!Merged(e.read, e.change))

LEMMA RequestPassed == ASSUME KeptBefore, NEW q \in Edits PROVE Passed(editing[q])
BY DEF KeptBefore, KeptInv, KeptTravel, TravelTypes, Judged, Passed

\* Only q changes, to a request that passed the checks of its body.
LEMMA RequestsTyped ==
    ASSUME KeptBefore, NEW q \in Edits, NEW e, Passed(e), editing' = [editing EXCEPT ![q] = e]
    PROVE  DOMAIN editing' = Edits /\ (\A p \in Edits : Kept!RequestOK(editing[p])') /\ Judged'
<1>1. /\ DOMAIN editing' = Edits /\ editing'[q] = e
      /\ \A p \in Edits \ {q} : editing'[p] = editing[p]
  BY DEF KeptBefore, KeptInv, KeptTravel, TravelTypes
<1>2. QED
  BY <1>1 DEF KeptBefore, KeptInv, KeptTravel, TravelTypes, Judged, Passed, Kept!RequestOK, Kept!InRange,
     Kept!Matches, Kept!Merged, Kept!Said

\* A request moves on without writing.
LEMMA EditingMoves ==
    ASSUME KeptBefore, NEW q \in Edits, NEW e, Passed(e),
           e.kind = "create" /\ e.stage = "admitted" => q \in Kept!Admitted,
           editing' = [editing EXCEPT ![q] = e],
           UNCHANGED <<catalog, dayWindow, preferences, templates, rules, travel, raced, lastId>>
    PROVE  RulesGo
<1>1. /\ DOMAIN editing' = Edits /\ editing'[q] = e
      /\ \A p \in Edits \ {q} : editing'[p] = editing[p]
  BY DEF KeptBefore, KeptInv, KeptTravel, TravelTypes
<1>2. TravelTypes' /\ Judged'
  BY RequestsTyped DEF KeptBefore, KeptInv, KeptTravel, TravelTypes
<1>3. Kept!TravelSound' /\ Kept!OrdersAccepted'
  BY DEF KeptBefore, KeptInv, KeptTravel, Kept!TravelSound, Kept!OrdersAccepted, Kept!CategoryKnown,
     Kept!Known, Kept!Matches
<1>4. Kept!Admitted' \subseteq Kept!Admitted
  BY <1>1 DEF Kept!Admitted
<1>5. Room'
  BY <1>4, RoomKept
<1>6. lastId' \in 0..MaxId /\ lastId <= lastId'
  BY DEF KeptBefore, KeptInv, KeptRules
<1>7. QED
  BY <1>2, <1>3, <1>5, <1>6, KeptTravelSafe DEF KeptTravel, RulesGo

LEMMA IdlePassed == Passed(Kept!Idle) /\ Kept!Idle.kind = "idle"
BY DEF Passed, Kept!Idle, Kept!RequestOK

LEMMA KeptStartCreateSafe ==
    ASSUME KeptBefore, NEW q \in Edits, NEW rule \in Kept!NewRules, NEW asked \in Priorities \union {Nil},
           Kept!StartCreate(q, rule, asked)
    PROVE  RulesGo
<1>1. PICK e : e = [kind |-> "create", stage |-> "validated", rule |-> rule, order |-> asked]
  OBVIOUS
<1>2. Passed(e)
  BY <1>1 DEF Passed, Kept!RequestOK, Kept!CreateRequests, Kept!StartCreate, KeptBefore, Kept!Sized
<1>3. e.stage # "admitted"
  BY <1>1
<1>4. QED
  BY <1>1, <1>2, <1>3, EditingMoves DEF Kept!StartCreate, Kept!sharedVars

LEMMA KeptStartPatchSafe ==
    ASSUME KeptBefore, NEW q \in Edits, NEW id \in DOMAIN travel, NEW change \in Kept!Changes,
           Kept!StartPatch(q, id, change)
    PROVE  RulesGo
<1>1. PICK e : e = [kind |-> "patch", id |-> id, change |-> change, read |-> travel[id]]
  OBVIOUS
<1>2. travel[id] \in Kept!TravelRows /\ id \in Nat
  BY DEF KeptBefore, KeptInv, KeptTravel, TravelTypes, KeptRules
<1>3. Passed(e)
  BY <1>1, <1>2 DEF Passed, Kept!RequestOK, Kept!PatchRequests, Kept!StartPatch, Kept!Acceptable
<1>4. e.kind # "create"
  BY <1>1
<1>5. QED
  BY <1>1, <1>3, <1>4, EditingMoves DEF Kept!StartPatch, Kept!sharedVars

LEMMA KeptAbandonSafe == ASSUME KeptBefore, NEW q \in Edits, Kept!Abandon(q) PROVE RulesGo
BY IdlePassed, EditingMoves DEF Kept!Abandon, Kept!sharedVars

\* A request that creates a rule.
LEMMA CreateRequest ==
    ASSUME KeptBefore, NEW q \in Edits, editing[q].kind = "create"
    PROVE  editing[q] \in Kept!CreateRequests /\ Kept!InRange(editing[q].order, Nil)
           /\ Kept!Matches(editing[q].rule)
BY RequestPassed DEF Passed, Kept!RequestOK, Kept!Idle, Kept!PatchRequests

LEMMA KeptPlaceSafe == ASSUME KeptBefore, NEW q \in Edits, Kept!Place(q) PROVE RulesGo
<1>1. editing[q] \in Kept!CreateRequests /\ Kept!Matches(editing[q].rule) /\ q \in Kept!Admitted
  BY CreateRequest DEF Kept!Place, Kept!Admitted
<1>2. PICK n \in Kept!After({travel[id].order : id \in DOMAIN travel}) :
        editing' = [editing EXCEPT ![q].order = Kept!Clamped(n)]
  BY DEF Kept!Place
<1>3. n \in Int
  <2>1. {travel[id].order : id \in DOMAIN travel} \subseteq Int
    BY DEF KeptBefore, KeptInv, KeptTravel, TravelTypes, Kept!TravelRows
  <2>2. QED
    BY <2>1, AfterAll
<1>4. Kept!Clamped(n) \in Int /\ Kept!Clamped(n) <= MaxOrder
  BY <1>3 DEF Kept!Clamped, KeptBefore, Kept!Sized
<1>5. PICK e : e = [editing[q] EXCEPT !.order = Kept!Clamped(n)]
  OBVIOUS
<1>6. /\ e \in Kept!CreateRequests /\ e.order = Kept!Clamped(n) /\ e.rule = editing[q].rule
      /\ e.kind = "create"
  BY <1>1, <1>4, <1>5 DEF Kept!CreateRequests
<1>7. Passed(e)
  BY <1>1, <1>4, <1>6 DEF Passed, Kept!RequestOK, Kept!InRange
<1>8. editing' = [editing EXCEPT ![q] = e]
  BY <1>2, <1>5
<1>9. QED
  BY <1>1, <1>7, <1>8, EditingMoves DEF Kept!Place, Kept!sharedVars

\* The limit counts the requests that were admitted and did not write yet only once each.
LEMMA KeptAdmitSafe == ASSUME KeptBefore, NEW q \in Edits, Kept!Admit(q) PROVE RulesGo
<1>1. /\ editing[q] \in Kept!CreateRequests /\ Kept!InRange(editing[q].order, Nil)
      /\ Kept!Matches(editing[q].rule)
  BY CreateRequest DEF Kept!Admit
<1>2. CASE ~Kept!UnderCap
  BY <1>2, IdlePassed, EditingMoves DEF Kept!Admit, Kept!sharedVars
<1>3. CASE Kept!UnderCap
  <2>1. PICK e : e = [editing[q] EXCEPT !.stage = "admitted"]
    OBVIOUS
  <2>2. /\ e \in Kept!CreateRequests /\ e.order = editing[q].order /\ e.rule = editing[q].rule
        /\ e.kind = "create"
    BY <1>1, <2>1 DEF Kept!CreateRequests
  <2>3. Passed(e)
    BY <1>1, <2>2 DEF Passed, Kept!RequestOK
  <2>4. editing' = [editing EXCEPT ![q] = e]
    BY <1>3, <2>1 DEF Kept!Admit
  <2>5. UNCHANGED <<catalog, dayWindow, preferences, templates, rules, travel, raced, lastId>>
    BY DEF Kept!Admit, Kept!sharedVars
  <2>6. TravelTypes' /\ Judged'
    BY <2>3, <2>4, <2>5, RequestsTyped DEF KeptBefore, KeptInv, KeptTravel, TravelTypes
  <2>7. Kept!TravelSound' /\ Kept!OrdersAccepted'
    BY <2>5 DEF KeptBefore, KeptInv, KeptTravel, Kept!TravelSound, Kept!OrdersAccepted,
       Kept!CategoryKnown, Kept!Known, Kept!Matches
  <2>8. Room'
    <3>1. Kept!Admitted' \subseteq Edits
      BY DEF Kept!Admitted
    <3>2. Cardinality(Kept!Admitted') \in Nat /\ Cardinality(Kept!Admitted') <= Cardinality(Edits)
      BY <3>1, TravelFinite, FS_Subset, FS_CardinalityType
    <3>3. Cardinality(DOMAIN travel) < MaxTravel
      BY <1>3, Counted DEF Kept!UnderCap
    <3>4. QED
      BY <2>5, <3>2, <3>3, TravelFinite DEF Room
  <2>9. lastId' \in 0..MaxId /\ lastId <= lastId'
    BY <2>5 DEF KeptBefore, KeptInv, KeptRules
  <2>10. QED
    BY <2>5, <2>6, <2>7, <2>8, <2>9, KeptTravelSafe DEF KeptTravel, RulesGo
<1>4. QED
  BY <1>2, <1>3

\* The request that writes is one of the admitted no more.
LEMMA KeptInsertSafe == ASSUME KeptBefore, NEW q \in Edits, Kept!Insert(q) PROVE RulesGo
<1>1. /\ editing[q] \in Kept!CreateRequests /\ Kept!InRange(editing[q].order, Nil)
      /\ Kept!Matches(editing[q].rule) /\ q \in Kept!Admitted /\ editing[q].order # Nil
  BY CreateRequest DEF Kept!Insert, Kept!Admitted
<1>2. PICK r : r = Kept!Row(editing[q].rule, editing[q].order)
  OBVIOUS
<1>3. r \in Kept!TravelRows /\ r.order <= MaxOrder /\ Kept!Matches(r)
      /\ r.category = editing[q].rule.category
  BY <1>1, <1>2 DEF Kept!Row, Kept!TravelRows, Kept!CreateRequests, Kept!NewRules, Kept!InRange, Kept!Matches
<1>4. /\ lastId \in Nat /\ MaxId \in Nat /\ lastId < MaxId /\ lastId' = lastId + 1
      /\ DOMAIN travel \subseteq 1..lastId /\ raced \subseteq 1..lastId
      /\ travel \in [DOMAIN travel -> Kept!TravelRows]
      /\ travel' = Kept!Put(travel, lastId + 1, r)
      /\ editing' = [editing EXCEPT ![q] = Kept!Idle]
  BY <1>2 DEF Kept!Insert, KeptBefore, KeptInv, KeptRules, KeptTravel, TravelTypes, Kept!Sized
<1>5. /\ DOMAIN travel' = DOMAIN travel \union {lastId + 1} /\ travel'[lastId + 1] = r
      /\ lastId + 1 \notin DOMAIN travel
      /\ \A id \in DOMAIN travel : travel'[id] = travel[id]
      /\ travel' \in [DOMAIN travel' -> Kept!TravelRows]
  BY <1>3, <1>4 DEF Kept!Put
<1>6. UNCHANGED <<catalog, dayWindow, preferences, templates, rules>>
  BY DEF Kept!Insert, Kept!sharedVars
<1>7. raced \subseteq raced' /\ raced' \subseteq raced \union {lastId + 1}
      /\ (lastId + 1 \in raced' \/ Kept!CategoryKnown(r.category)')
  BY <1>3, <1>4, <1>6 DEF Kept!Insert, Kept!CategoryKnown, Kept!Known
<1>8. Kept!InRange(Nil, Nil) /\ Passed(Kept!Idle)
  BY IdlePassed DEF Kept!InRange
<1>9. TravelTypes' /\ Judged'
  <2>1. DOMAIN travel' \subseteq 1..lastId' /\ raced' \subseteq 1..lastId'
    BY <1>4, <1>5, <1>7
  <2>2. QED
    BY <1>4, <1>5, <1>8, <2>1, RequestsTyped DEF TravelTypes
<1>10. Kept!TravelSound'
  <2>1. ASSUME NEW id \in DOMAIN travel' \ raced'
        PROVE  Kept!Matches(travel[id])' /\ Kept!CategoryKnown(travel[id].category)'
    <3>1. CASE id = lastId + 1
      BY <1>3, <1>5, <1>7, <2>1, <3>1 DEF Kept!Matches
    <3>2. CASE id \in DOMAIN travel
      BY <1>5, <1>6, <1>7, <2>1, <3>2 DEF KeptBefore, KeptInv, KeptTravel, Kept!TravelSound,
         Kept!Matches, Kept!CategoryKnown, Kept!Known
    <3>3. QED
      BY <1>5, <2>1, <3>1, <3>2
  <2>2. QED
    BY <2>1 DEF Kept!TravelSound
<1>11. Kept!OrdersAccepted'
  BY <1>3, <1>5 DEF KeptBefore, KeptInv, KeptTravel, Kept!OrdersAccepted
<1>12. Room'
  <2>1. Kept!Admitted' = Kept!Admitted \ {q}
    BY <1>4 DEF KeptBefore, KeptInv, KeptTravel, TravelTypes, Kept!Admitted, Kept!Idle
  <2>2. Cardinality(Kept!Admitted') = Cardinality(Kept!Admitted) - 1
    BY <1>1, <2>1, TravelFinite, FS_RemoveElement
  <2>3. Cardinality(DOMAIN travel') = Cardinality(DOMAIN travel) + 1
    BY <1>5, TravelFinite, FS_AddElement
  <2>4. QED
    BY <2>2, <2>3, TravelFinite DEF KeptBefore, KeptInv, KeptTravel, Room
<1>13. lastId' \in 0..MaxId /\ lastId <= lastId'
  BY <1>4
<1>14. QED
  BY <1>6, <1>9, <1>10, <1>11, <1>12, <1>13, KeptTravelSafe DEF KeptTravel, RulesGo

\* A patch of a row that another writer has not touched leaves it as the patch was judged;
\* any other write of a patch is told by raced.
LEMMA KeptSavePatchSafe == ASSUME KeptBefore, NEW q \in Edits, Kept!SavePatch(q) PROVE RulesGo
<1>1. /\ editing[q] \in Kept!PatchRequests /\ Kept!InRange(editing[q].change.order, Unset)
      /\ Kept!Matches(Kept!Merged(editing[q].read, editing[q].change))
  BY RequestPassed DEF Passed, Kept!RequestOK, Kept!Idle, Kept!CreateRequests, Kept!SavePatch
<1>2. UNCHANGED <<catalog, dayWindow, preferences, templates, rules, lastId>>
      /\ editing' = [editing EXCEPT ![q] = Kept!Idle]
  BY DEF Kept!SavePatch, Kept!sharedVars
<1>3. CASE editing[q].id \notin DOMAIN travel
  BY <1>2, <1>3, IdlePassed, EditingMoves DEF Kept!SavePatch
<1>4. CASE editing[q].id \in DOMAIN travel
  <2>1. PICK id : id = editing[q].id
    OBVIOUS
  <2>2. PICK change : change = editing[q].change
    OBVIOUS
  <2>3. PICK r : r = Kept!Merged(travel[id], change)
    OBVIOUS
  <2>4. /\ id \in DOMAIN travel /\ change \in Kept!Changes /\ travel[id] \in Kept!TravelRows
        /\ DOMAIN travel \subseteq 1..lastId /\ raced \subseteq 1..lastId
        /\ travel \in [DOMAIN travel -> Kept!TravelRows] /\ travel[id].order <= MaxOrder
        /\ Kept!InRange(change.order, Unset)
    BY <1>1, <1>4, <2>1, <2>2 DEF KeptBefore, KeptInv, KeptTravel, TravelTypes, Kept!OrdersAccepted,
       Kept!PatchRequests
  <2>5. r \in Kept!TravelRows /\ r.order <= MaxOrder
    BY <2>3, <2>4 DEF Kept!Merged, Kept!Said, Kept!TravelRows, Kept!Changes, Kept!InRange,
       KeptBefore, Kept!Sized
  <2>6. /\ travel' = [travel EXCEPT ![id] = r]
        /\ raced' = IF Kept!Outdated(q) THEN raced \union {id} ELSE raced
    BY <1>4, <2>1, <2>2, <2>3 DEF Kept!SavePatch
  <2>7. /\ DOMAIN travel' = DOMAIN travel /\ travel'[id] = r
        /\ \A i \in DOMAIN travel \ {id} : travel'[i] = travel[i]
        /\ travel' \in [DOMAIN travel' -> Kept!TravelRows]
        /\ raced \subseteq raced' /\ raced' \subseteq raced \union {id}
    BY <2>4, <2>5, <2>6
  <2>8. TravelTypes' /\ Judged'
    <3>1. DOMAIN travel' \subseteq 1..lastId' /\ raced' \subseteq 1..lastId'
      BY <1>2, <2>4, <2>7
    <3>2. QED
      BY <1>2, <2>7, <3>1, IdlePassed, RequestsTyped DEF TravelTypes
  <2>9. ASSUME id \notin raced' PROVE Kept!Matches(r) /\ Kept!CategoryKnown(r.category)'
    <3>1. id \notin raced /\ travel[id] = editing[q].read /\ Kept!NamesKnown(change)
      BY <2>1, <2>2, <2>6, <2>7, <2>9 DEF Kept!Outdated
    <3>2. Kept!Matches(r)
      BY <1>1, <2>2, <2>3, <3>1
    <3>3. Kept!CategoryKnown(travel[id].category)
      BY <2>4, <3>1 DEF KeptBefore, KeptInv, KeptTravel, Kept!TravelSound
    <3>4. Kept!CategoryKnown(r.category)
      BY <2>3, <3>1, <3>3 DEF Kept!Merged, Kept!Said, Kept!NamesKnown
    <3>5. QED
      BY <1>2, <3>2, <3>4 DEF Kept!CategoryKnown, Kept!Known
  <2>10. Kept!TravelSound'
    <3>1. ASSUME NEW i \in DOMAIN travel' \ raced'
          PROVE  Kept!Matches(travel[i])' /\ Kept!CategoryKnown(travel[i].category)'
      <4>1. CASE i = id
        BY <2>7, <2>9, <3>1, <4>1 DEF Kept!Matches
      <4>2. CASE i # id
        BY <1>2, <2>7, <3>1, <4>2 DEF KeptBefore, KeptInv, KeptTravel, Kept!TravelSound,
           Kept!Matches, Kept!CategoryKnown, Kept!Known
      <4>3. QED
        BY <4>1, <4>2
    <3>2. QED
      BY <3>1 DEF Kept!TravelSound
  <2>11. Kept!OrdersAccepted'
    BY <2>5, <2>7 DEF KeptBefore, KeptInv, KeptTravel, Kept!OrdersAccepted
  <2>12. Room'
    <3>1. Kept!Admitted' \subseteq Kept!Admitted
      BY <1>2 DEF KeptBefore, KeptInv, KeptTravel, TravelTypes, Kept!Admitted, Kept!Idle
    <3>2. QED
      BY <2>7, <3>1, RoomKept
  <2>13. lastId' \in 0..MaxId /\ lastId <= lastId'
    BY <1>2 DEF KeptBefore, KeptInv, KeptRules
  <2>14. QED
    BY <1>2, <2>8, <2>10, <2>11, <2>12, <2>13, KeptTravelSafe DEF KeptTravel, RulesGo
<1>5. QED
  BY <1>3, <1>4

LEMMA KeptSwapTravelSafe ==
    ASSUME KeptBefore, NEW a \in DOMAIN travel, NEW b \in DOMAIN travel, Kept!SwapTravel(a, b)
    PROVE  RulesGo
<1>1. /\ travel \in [DOMAIN travel -> Kept!TravelRows]
      /\ \A id \in DOMAIN travel : travel[id].order <= MaxOrder
      /\ lastId \in 0..MaxId
  BY DEF KeptBefore, KeptInv, KeptTravel, TravelTypes, Kept!OrdersAccepted, KeptRules
<1>2. /\ UNCHANGED <<catalog, dayWindow, preferences, templates, rules, editing, raced, lastId>>
      /\ a # b
  BY DEF Kept!SwapTravel, Kept!sharedVars, Kept!TwoOf
<1>3. /\ DOMAIN travel' = DOMAIN travel /\ travel' = [id \in DOMAIN travel |-> travel'[id]]
      /\ travel'[a] = [travel[a] EXCEPT !.order = travel[b].order]
      /\ travel'[b] = [travel[b] EXCEPT !.order = travel[a].order]
      /\ \A id \in DOMAIN travel \ {a, b} : travel'[id] = travel[id]
  BY <1>1, <1>2 DEF Kept!SwapTravel
<1>4. ASSUME NEW id \in DOMAIN travel
      PROVE  /\ travel'[id] \in Kept!TravelRows /\ travel'[id].order <= MaxOrder
             /\ travel'[id].keyword = travel[id].keyword /\ travel'[id].calendar = travel[id].calendar
             /\ travel'[id].category = travel[id].category
  <2>1. travel[id] \in Kept!TravelRows /\ travel[a] \in Kept!TravelRows /\ travel[b] \in Kept!TravelRows
    BY <1>1
  <2>2. CASE id = a
    BY <1>1, <1>3, <2>1, <2>2 DEF Kept!TravelRows
  <2>3. CASE id = b
    BY <1>1, <1>3, <2>1, <2>3 DEF Kept!TravelRows
  <2>4. CASE id \notin {a, b}
    BY <1>1, <1>3, <2>1, <2>4
  <2>5. QED
    BY <2>2, <2>3, <2>4
<1>5. KeptTravel'
  <2>1. ASSUME NEW id \in DOMAIN travel
        PROVE  /\ Kept!Matches(travel[id]) => Kept!Matches(travel[id])'
               /\ Kept!CategoryKnown(travel[id].category) => Kept!CategoryKnown(travel[id].category)'
    BY <1>2, <1>4 DEF Kept!Matches, Kept!CategoryKnown, Kept!Known
  <2>2. QED
    BY <1>2, <1>3, <1>4, <2>1, TravelRewritten DEF KeptBefore, KeptInv
<1>6. lastId' \in 0..MaxId /\ lastId <= lastId'
  BY <1>1, <1>2
<1>7. QED
  BY <1>2, <1>5, <1>6, KeptTravelSafe DEF RulesGo

LEMMA KeptDeleteTravelSafe ==
    ASSUME KeptBefore, NEW id \in DOMAIN travel, Kept!DeleteTravel(id) PROVE RulesGo
<1>1. UNCHANGED <<catalog, dayWindow, preferences, templates, rules, editing, raced, lastId>>
  BY DEF Kept!DeleteTravel, Kept!sharedVars
<1>2. /\ DOMAIN travel' = DOMAIN travel \ {id}
      /\ \A i \in DOMAIN travel' : travel'[i] = travel[i]
      /\ travel' \in [DOMAIN travel' -> Kept!TravelRows]
  BY DEF Kept!DeleteTravel, Kept!Without, KeptBefore, KeptInv, KeptTravel, TravelTypes
<1>3. TravelTypes' /\ Judged'
  BY <1>1, <1>2 DEF KeptBefore, KeptInv, KeptTravel, TravelTypes, Judged, Kept!RequestOK, Kept!InRange,
     Kept!Matches, Kept!Merged, Kept!Said
<1>4. Kept!TravelSound' /\ Kept!OrdersAccepted'
  BY <1>1, <1>2 DEF KeptBefore, KeptInv, KeptTravel, Kept!TravelSound, Kept!OrdersAccepted,
     Kept!CategoryKnown, Kept!Known, Kept!Matches
<1>5. Room'
  <2>1. Kept!Admitted' \subseteq Kept!Admitted
    BY <1>1 DEF Kept!Admitted
  <2>2. QED
    BY <1>2, <2>1, RoomKept
<1>6. lastId' \in 0..MaxId /\ lastId <= lastId'
  BY <1>1 DEF KeptBefore, KeptInv, KeptRules
<1>7. QED
  BY <1>1, <1>3, <1>4, <1>5, <1>6, KeptTravelSafe DEF KeptTravel, RulesGo

LEMMA KeptTravelStepSafe == ASSUME KeptBefore, Kept!TravelStep PROVE RulesGo
<1>1. CASE \E q \in Edits : \E rule \in Kept!NewRules, asked \in Priorities \union {Nil} :
              Kept!StartCreate(q, rule, asked)
  BY <1>1, KeptStartCreateSafe
<1>2. CASE \E q \in Edits : \E id \in DOMAIN travel, change \in Kept!Changes :
              Kept!StartPatch(q, id, change)
  BY <1>2, KeptStartPatchSafe
<1>3. CASE \E q \in Edits : Kept!Admit(q) \/ Kept!Place(q) \/ Kept!Insert(q)
  BY <1>3, KeptAdmitSafe, KeptPlaceSafe, KeptInsertSafe
<1>4. CASE \E q \in Edits : Kept!SavePatch(q) \/ Kept!Abandon(q)
  BY <1>4, KeptSavePatchSafe, KeptAbandonSafe
<1>5. CASE \E a, b \in DOMAIN travel : Kept!SwapTravel(a, b)
  BY <1>5, KeptSwapTravelSafe
<1>6. CASE \E id \in DOMAIN travel : Kept!DeleteTravel(id)
  BY <1>6, KeptDeleteTravelSafe
<1>7. QED
  BY <1>1, <1>2, <1>3, <1>4, <1>5, <1>6 DEF Kept!TravelStep

LEMMA KeptStepSafe == ASSUME KeptBefore, Kept!Next PROVE RulesGo
<1>1. CASE Kept!CategoryStep
  <2>1. KeptInv'
    BY <1>1, KeptCreateCategorySafe, KeptDeleteCategorySafe, KeptSwapCategoriesSafe DEF Kept!CategoryStep
  <2>2. UNCHANGED rules
    BY <1>1 DEF Kept!CategoryStep, Kept!CreateCategory, Kept!DeleteCategory, Kept!SwapCategories
  <2>3. QED
    BY <2>1, <2>2 DEF RulesGo, Kept!RulesKeepOrder
<1>2. CASE Kept!RowStep
  <2>1. KeptInv'
    BY <1>2, KeptSaveSettingsSafe, KeptPreferencesSafe, KeptTemplateSafe, KeptDeleteTemplateSafe DEF Kept!RowStep
  <2>2. UNCHANGED rules
    BY <1>2 DEF Kept!RowStep, Kept!SaveSettings, Kept!OpenPreferences, Kept!PatchPreferences,
       Kept!CreateTemplate, Kept!UpdateTemplate, Kept!DeleteTemplate
  <2>3. QED
    BY <2>1, <2>2 DEF RulesGo, Kept!RulesKeepOrder
<1>3. CASE Kept!RuleStep
  BY <1>3, KeptCreateRuleSafe, KeptDeleteRuleSafe, KeptMoveRuleSafe DEF Kept!RuleStep
<1>4. CASE Kept!TravelStep
  BY <1>4, KeptTravelStepSafe
<1>5. QED
  BY <1>1, <1>2, <1>3, <1>4 DEF Kept!Next

LEMMA KeptStaysSafe == ASSUME KeptBefore, UNCHANGED Kept!vars PROVE RulesGo
<1>1. UNCHANGED <<catalog, dayWindow, preferences, templates, rules, travel, editing, raced, lastId>>
  BY DEF Kept!vars
<1>2. KeptTravel'
  BY <1>1, CatalogKept, TravelKept DEF KeptBefore, KeptInv, KeptRules
<1>3. lastId' \in 0..MaxId /\ lastId <= lastId'
  BY <1>1 DEF KeptBefore, KeptInv, KeptRules
<1>4. QED
  BY <1>1, <1>2, <1>3, KeptTravelSafe DEF RulesGo

LEMMA KeptMoves == ASSUME KeptBefore, [Kept!Next]_Kept!vars PROVE RulesGo
BY KeptStepSafe, KeptStaysSafe

\* The lists stay in order whatever requests run beside each other.
LEMMA KeptInvariant == ASSUME Kept!Sized PROVE Kept!Spec => []KeptInv
<1>1. Kept!Init => KeptInv
  BY KeptInit
<1>2. KeptInv /\ [Kept!Next]_Kept!vars => KeptInv'
  BY KeptMoves DEF KeptBefore, RulesGo
<1>3. QED
  BY <1>1, <1>2, PTL DEF Kept!Spec

-----------------------------------------------------------------------------
(* Side by side *)

\* A step of the neighbours is, for each of them, a step of its own or none.
LEMMA StepOfEach ==
    [NeighboursNext]_neighbourVars =>
        /\ [Tokens!Next]_Tokens!vars /\ [Server!Next]_Server!vars /\ [Limiter!Next]_Limiter!vars
        /\ [Lists!Next]_Lists!vars /\ [Settings!Next]_Settings!vars /\ [Importer!Next]_Importer!vars
        /\ [Kept!Next]_Kept!vars
<1>1. /\ UNCHANGED tokenVars => UNCHANGED Tokens!vars
      /\ UNCHANGED cacheVars => UNCHANGED Server!vars
      /\ UNCHANGED limiterVars => UNCHANGED Limiter!vars
      /\ UNCHANGED keptVars => UNCHANGED Kept!vars
  BY DEF tokenVars, Tokens!vars, cacheVars, Server!vars, limiterVars, Limiter!vars, keptVars, Kept!vars
<1>2. /\ UNCHANGED listVars => UNCHANGED Lists!vars
      /\ UNCHANGED settingsVars => UNCHANGED Settings!vars
      /\ UNCHANGED importVars => UNCHANGED Importer!vars
  BY DEF listVars, Lists!vars, Lists!pageVars, Lists!callVars, Lists!serverVars,
         settingsVars, Settings!vars, importVars, Importer!vars
<1>3. CASE UNCHANGED neighbourVars
  BY <1>1, <1>2, <1>3 DEF neighbourVars, clientVars, serverVars
<1>4. CASE TokensStep
  BY <1>1, <1>2, <1>4 DEF TokensStep, clientVars
<1>5. CASE ServerStep
  BY <1>1, <1>2, <1>5 DEF ServerStep, clientVars
<1>6. CASE LimiterStep
  BY <1>1, <1>2, <1>6 DEF LimiterStep, clientVars
<1>7. CASE ListsStep
  BY <1>1, <1>2, <1>7 DEF ListsStep, serverVars
<1>8. CASE SettingsStep
  BY <1>1, <1>2, <1>8 DEF SettingsStep, serverVars
<1>9. CASE ImporterStep
  BY <1>1, <1>2, <1>9 DEF ImporterStep, serverVars
<1>10. CASE FocusStep
  BY <1>1, <1>2, <1>10 DEF FocusStep, serverVars
<1>11. CASE KeptStep
  BY <1>1, <1>2, <1>11 DEF KeptStep, clientVars
<1>12. QED
  BY <1>3, <1>4, <1>5, <1>6, <1>7, <1>8, <1>9, <1>10, <1>11 DEF NeighboursNext

\* So a behaviour of the neighbours is a behaviour of each.
LEMMA BehaviourOfEach ==
    NeighboursSpec =>
        /\ Tokens!Spec /\ Server!Spec /\ Limiter!Spec
        /\ Lists!Spec /\ Settings!Spec /\ Importer!Spec /\ Kept!Spec
<1>1. NeighboursInit =>
        /\ Tokens!Init /\ Server!Init /\ Limiter!Init
        /\ Lists!Init /\ Settings!Init /\ Importer!Init /\ Kept!Init
  BY DEF NeighboursInit
<1>2. QED
  BY <1>1, StepOfEach, PTL DEF NeighboursSpec, Tokens!Spec, Server!Spec, Limiter!Spec, Lists!Spec,
     Settings!Spec, Importer!Spec, Kept!Spec

\* Stored credentials are accepted by the provider, and cached lists answer the present
\* account's query, for any number of reads, rotations, connects and zones
\* (get_valid_access_token, versioned_key).
THEOREM AccountsAlwaysTrue == Distinct /\ ServerDistinct => (NeighboursSpec => []AccountsTrue)
<1>1. SUFFICES ASSUME Distinct, ServerDistinct PROVE NeighboursSpec => []AccountsTrue
  OBVIOUS
<1>2. ServerInv /\ IInv /\ Addressed => AccountsTrue
  BY AddressedReachable, ServerInvImpliesTrue DEF IInv, Tokens!AccountsTrue, AccountsTrue
<1>3. QED
  BY <1>1, <1>2, BehaviourOfEach, TokensInvariant, ServerInvariant, PTL

\* The screen shows the lists of the shown day without completed tasks, and the spinner
\* turns for the newest read only (useDatedResource, useTaskCompletion).
THEOREM ListAlwaysTrue == ListDistinct => (NeighboursSpec => []ListTrue)
<1>1. SUFFICES ASSUME ListDistinct PROVE NeighboursSpec => []ListTrue
  OBVIOUS
<1>2. ListInv => ListTrue
  BY InvImpliesTrue DEF ListTrue
<1>3. QED
  BY <1>1, <1>2, BehaviourOfEach, ListsInvariant, PTL

\* No window admits more calls than its limit, for any limit, number of calls in progress
\* and of attempts to reseed (check_rate_limit).
THEOREM BudgetKept == LimitDistinct => (NeighboursSpec => []WithinBudget)
<1>1. SUFFICES ASSUME LimitDistinct PROVE NeighboursSpec => []WithinBudget
  OBVIOUS
<1>2. LimitInv => WithinBudget
  BY DEF LimitInv, WithinBudget
<1>3. QED
  BY <1>1, <1>2, BehaviourOfEach, LimitInvariant, PTL

\* The import dialog shows an event of the shown day, and whoever waits for travel rules
\* waits for a request under way (useEventImport).
THEOREM ImportAlwaysTrue == ImportDistinct => (NeighboursSpec => []ImportTrue)
<1>1. SUFFICES ASSUME ImportDistinct PROVE NeighboursSpec => []ImportTrue
  OBVIOUS
<1>2. ImportInv => ImportTrue
  BY DEF ImportInv, ImportTrue
<1>3. QED
  BY <1>1, <1>2, BehaviourOfEach, ImportInvariant, PTL

\* No answer that was overtaken changes what the pages say of an account
\* (believed checks of useDatedResource, readSeq of useIntegrationAccount).
THEOREM AccountsNeverOlder == ListDistinct /\ SettingsDistinct => (NeighboursSpec => NeverOlder)
<1>1. SUFFICES ASSUME ListDistinct, SettingsDistinct PROVE NeighboursSpec => NeverOlder
  OBVIOUS
<1>2. ListInv /\ [Lists!Next]_Lists!vars => Lists!NotOlderVerdict
  <2>1. ASSUME ListInv, UNCHANGED Lists!vars PROVE Lists!NotOlderVerdict
    <3>1. verdict' = verdict
      BY <2>1 DEF Lists!vars, Lists!pageVars
    <3>2. verdict.of \in Nat
      BY <2>1 DEF ListInv, PageTypes, Verdicts
    <3>3. verdict'.of >= verdict.of
      BY <3>1, <3>2
    <3>4. QED
      BY <3>3 DEF Lists!NotOlderVerdict
  <2>2. QED
    BY <1>1, <2>1, ListStep DEF KeepsLists
<1>3. SettingsInv /\ [Settings!Next]_Settings!vars => Settings!NotOlderAccount
  <2>1. ASSUME SettingsInv, UNCHANGED Settings!vars PROVE Settings!NotOlderAccount
    BY <2>1 DEF SettingsInv, SettingsTypes, Settings!NotOlderAccount, Settings!vars
  <2>2. QED
    BY <1>1, <2>1, SettingsInvStep DEF Keeps
<1>4. ListInv /\ SettingsInv /\ [NeighboursNext]_neighbourVars => [AccountNotOlder]_neighbourVars
  BY <1>2, <1>3, StepOfEach DEF AccountNotOlder
<1>5. (Lists!Spec => []ListInv) /\ (Settings!Spec => []SettingsInv)
  BY <1>1, ListsInvariant, SettingsInvariant
<1>6. QED
  BY <1>4, <1>5, BehaviourOfEach, PTL DEF NeighboursSpec, NeverOlder

\* Whatever requests run beside each other, places of categories stay distinct, templates name
\* categories of the catalog, so do travel rules that no other writer overtook, and no list
\* outgrows its limit by more than the requests counted together, for any limits, catalogs and
\* number of requests (delete_category, travel_rules_collection, create_rule).
THEOREM ListsAlwaysSound == Kept!Sized => (NeighboursSpec => []ListsSound)
<1>1. SUFFICES ASSUME Kept!Sized PROVE NeighboursSpec => []ListsSound
  OBVIOUS
<1>2. KeptInv => ListsSound
  BY KeptInvImplies DEF ListsSound
<1>3. QED
  BY <1>1, <1>2, BehaviourOfEach, KeptInvariant, PTL

\* Creating or deleting a planning rule numbers the rules from 0 without gaps and reorders
\* none of the others, for any number of rules and any priorities a client asked for
\* (_compact_rule_priorities).
THEOREM RulesAlwaysInOrder == Kept!Sized => (NeighboursSpec => RulesInOrder)
<1>1. SUFFICES ASSUME Kept!Sized PROVE NeighboursSpec => RulesInOrder
  OBVIOUS
<1>2. KeptInv /\ [Kept!Next]_Kept!vars => Kept!RulesKeepOrder
  BY <1>1, KeptMoves DEF KeptBefore, RulesGo
<1>3. KeptInv /\ [NeighboursNext]_neighbourVars => [Kept!RulesKeepOrder]_neighbourVars
  BY <1>2, StepOfEach
<1>4. Kept!Spec => []KeptInv
  BY <1>1, KeptInvariant
<1>5. QED
  BY <1>3, <1>4, BehaviourOfEach, PTL DEF NeighboursSpec, RulesInOrder
=============================================================================

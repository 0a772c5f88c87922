--------------------------- MODULE PairQueueProofs ---------------------------
(***************************************************************************)
(* Theorems about PairQueue, for every pair of sessions, every number of   *)
(* rows, controllers and faults.                                           *)
(***************************************************************************)
EXTENDS PairQueue, TLAPS

\* What Claim compares.
USE DEF StillAsSelected

\* The other session is a session: a pair has exactly two.
LEMMA PeerType == \A p \in Participant : Peer(p) \in Participant \ {p}
  BY PairAssumption DEF Peer

\* A page of unresolved receipts holds existing rows only.
LEMMA PagesAreRows ==
  ASSUME TypeOK, NEW n \in Nat
  PROVE  Page(Unresolved(n)) \subseteq 1..last
  BY DEF TypeOK, Page, Unresolved

\* The delivery record that Claim writes is about a row.
LEMMA RecordsAreRows ==
  ASSUME meta \subseteq Seqs, NEW s \in Seqs
  PROVE  DeliveryRecord(s) \subseteq Seqs
  BY DEF DeliveryRecord

\* The statuses, positions and results a step writes are those of TypeOK.
LEMMA Ranges ==
  /\ {"queued", "deferred", "blocked", "cancelled", "sending", "unknown", "input_observed"}
        \subseteq Statuses
  /\ PeerStatus \subseteq Statuses /\ Pending \subseteq Statuses
  /\ {"reconcile", "observe", "collect", "validate", "claim", "deliver", "finish",
      "down", "recover", "idle"} \subseteq Positions
  /\ \A s : \A o \in Outcomes(s) : [status |-> o.status, wire |-> o.wire] \in Results /\ o.handed \in Nat
  /\ NoResult \in Results
  /\ \A r \in Results : r.status \in Statuses /\ r.wire \in Turn \cup {"mailbox", None}
<1> USE DEF Statuses, Reported, Positions, TickSteps, Pending, Results
<1>1. \A s : \A o \in Outcomes(s) : [status |-> o.status, wire |-> o.wire] \in Results /\ o.handed \in Nat
  BY DEF Outcomes, CodexOutcomes, CallFailures, ClaudeOutcomes, Outcome
<1>2. NoResult \in Results
  BY DEF NoResult
<1>3. PeerStatus \subseteq Statuses
  BY PairAssumption
<1>4. QED
  BY <1>1, <1>2, <1>3

\* From its selection to the end of the tick, a controller holds a row.
Holding == {"validate", "claim", "deliver", "finish"}
HoldsRow == \A c \in Controller : pc[c] \in Holding => pick[c] # 0

\* Selection hands a row to the rest of the tick; nothing else enters it.
LEMMA HoldsRowStep == TypeOK /\ HoldsRow /\ [Next]_vars => HoldsRow'
<1> SUFFICES ASSUME TypeOK, HoldsRow, [Next]_vars PROVE HoldsRow'
  OBVIOUS
<1>1. pc \in [Controller -> Positions] /\ pick \in [Controller -> 0..MaxSeq]
  BY DEF TypeOK
<1> USE DEF HoldsRow, Holding, local
<1>2. ASSUME UNCHANGED <<pc, pick>> PROVE HoldsRow'
  BY <1>2
<1>3. ASSUME NEW c \in Controller, NEW q \in Positions \ Holding, UNCHANGED pick \/ pick' = [pick EXCEPT ![c] = 0],
             pc' = [pc EXCEPT ![c] = q]
      PROVE  HoldsRow'
  BY <1>1, <1>3
<1>4. ASSUME NEW c \in Controller, Select(c) PROVE HoldsRow'
  BY <1>1, <1>4 DEF Select
<1>5. ASSUME NEW c \in Controller, Validate(c) PROVE HoldsRow'
  BY <1>1, <1>5 DEF Validate
<1>6. ASSUME NEW c \in Controller, Claim(c) PROVE HoldsRow'
  BY <1>1, <1>6 DEF Claim
<1>7. ASSUME NEW c \in Controller, Deliver(c) PROVE HoldsRow'
  BY <1>1, <1>7 DEF Deliver
<1>8. ASSUME NEW p \in Participant, Send(p) PROVE HoldsRow'
  BY <1>2, <1>8 DEF Send
<1>9. ASSUME NEW c \in Controller, NEW p \in Claude, Collect(c, p) PROVE HoldsRow'
  BY <1>2, <1>9 DEF Collect
<1>10. ASSUME RetryCheck \/ RetryApply PROVE HoldsRow'
  BY <1>2, <1>10 DEF RetryCheck, RetryApply
<1>11. ASSUME NEW c \in Controller,
              \/ Notify(c) \/ Start(c) \/ Recover(c) \/ Disconnect(c) \/ Crash(c) \/ Abort(c)
              \/ TickBegin(c) \/ ReconcilePage(c) \/ Observe(c) \/ Finish(c)
       PROVE  HoldsRow'
  BY <1>1, <1>3, <1>11 DEF Notify, Start, Recover, Disconnect, Crash, Abort, TickBegin, ReconcilePage,
     Observe, Finish, Reset, Positions, TickSteps
<1>12. CASE UNCHANGED vars
  BY <1>2, <1>12 DEF vars
<1>13. QED
  BY <1>4, <1>5, <1>6, <1>7, <1>8, <1>9, <1>10, <1>11, <1>12 DEF Next, TickStep

\* Every step keeps every variable in its range.
LEMMA TypeStep == TypeOK /\ HoldsRow /\ [Next]_vars => TypeOK'
<1> SUFFICES ASSUME TypeOK, HoldsRow, [Next]_vars PROVE TypeOK'
  OBVIOUS
<1> USE PairAssumption, Ranges DEF TypeOK, Seqs, columns, local, control
<1>1. ASSUME NEW p \in Participant, Send(p) PROVE TypeOK'
  BY <1>1, PeerType DEF Send, Insert, Answerable, Reserved
<1>2. ASSUME NEW c \in Controller, Notify(c) PROVE TypeOK'
  <2>1. PICK p \in Participant :
          /\ last' = last + 2
          /\ sender'    = [sender    EXCEPT ![last + 1] = Switchboard, ![last + 2] = Switchboard]
          /\ recipient' = [recipient EXCEPT ![last + 1] = p, ![last + 2] = Peer(p)]
          /\ status'    = [status    EXCEPT ![last + 1] = "queued", ![last + 2] = "queued"]
    BY <1>2 DEF Notify
  <2>2. sender' \in [Seqs -> Participant \cup {Switchboard, None}]
    BY <2>1
  <2>3. recipient' \in [Seqs -> Participant \cup {None}]
    BY <2>1, PeerType
  <2>4. status' \in [Seqs -> Statuses]
    BY <2>1
  <2>5. pc' \in [Controller -> Positions]
    BY <1>2 DEF Notify
  <2>6. last' \in 0..MaxSeq
    BY <1>2, <2>1 DEF Notify
  <2>7. QED
    BY <1>2, <2>2, <2>3, <2>4, <2>5, <2>6 DEF Notify
<1>3. ASSUME NEW c \in Controller, Start(c) PROVE TypeOK'
  BY <1>3 DEF Start
<1>4. ASSUME NEW c \in Controller, Recover(c) PROVE TypeOK'
  BY <1>4 DEF Recover, Recovered
<1>5. ASSUME NEW c \in Controller, Disconnect(c) PROVE TypeOK'
  BY <1>5 DEF Disconnect, Cancelled
<1>6. ASSUME NEW c \in Controller, Crash(c) PROVE TypeOK'
  BY <1>6 DEF Crash, Reset
<1>7. ASSUME NEW c \in Controller, Abort(c) PROVE TypeOK'
  BY <1>7 DEF Abort, Reset
<1>8. ASSUME NEW c \in Controller, TickBegin(c) PROVE TypeOK'
  BY <1>8 DEF TickBegin
<1>9. ASSUME NEW c \in Controller, ReconcilePage(c) PROVE TypeOK'
  <2>1. PICK n \in 0..last :
          /\ cursor' = n
          /\ todo' = [todo EXCEPT ![c] = Page(Unresolved(cursor))]
          /\ \E q \in {"collect", "observe"} : pc' = [pc EXCEPT ![c] = q]
          /\ legs' = [legs EXCEPT ![c] = Claude]
    BY <1>9 DEF ReconcilePage
  <2>2. Page(Unresolved(cursor)) \subseteq Seqs
    <3>1. cursor \in Nat /\ 1..last \subseteq Seqs
      OBVIOUS
    <3>2. Page(Unresolved(cursor)) \subseteq 1..last
      BY <3>1, PagesAreRows, Zenon DEF TypeOK
    <3>3. QED
      BY <3>1, <3>2, Zenon
  <2>3. pc' \in [Controller -> Positions]
    BY <2>1
  <2>4. QED
    BY <1>9, <2>1, <2>2, <2>3, SMTT(30) DEF ReconcilePage
<1>10. ASSUME NEW c \in Controller, Observe(c) PROVE TypeOK'
  <2>1. status' \in [Seqs -> Statuses]
    BY <1>10 DEF Observe
  <2>2. todo' \in [Controller -> SUBSET Seqs]
    BY <1>10 DEF Observe
  <2>3. pc' \in [Controller -> Positions]
    BY <1>10 DEF Observe
  <2>4. QED
    BY <1>10, <2>1, <2>2, <2>3 DEF Observe
<1>11. ASSUME NEW c \in Controller, NEW p \in Claude, Collect(c, p) PROVE TypeOK'
  <2>a. PICK n \in last..(MaxSeq - Reserved) :
          \E new \in [Handed(p) -> PeerStatus \cup {"same"}], answers \in [(last + 1)..n -> {0} \cup Handed(p)] :
          /\ status' = [s \in Seqs |-> IF s \in (last + 1)..n THEN "queued"
                          ELSE IF s \in Handed(p) /\ new[s] # "same" THEN new[s] ELSE status[s]]
          /\ sender'    = [s \in Seqs |-> IF s \in (last + 1)..n THEN p ELSE sender[s]]
          /\ recipient' = [s \in Seqs |-> IF s \in (last + 1)..n THEN Peer(p) ELSE recipient[s]]
          /\ reply_to'  = [s \in Seqs |-> IF s \in (last + 1)..n THEN answers[s] ELSE reply_to[s]]
          /\ last' = n
    BY <1>11, ZenonT(60) DEF Collect
  <2>1. PICK new \in [Handed(p) -> PeerStatus \cup {"same"}], answers \in [(last + 1)..n -> {0} \cup Handed(p)] :
          /\ status' = [s \in Seqs |-> IF s \in (last + 1)..n THEN "queued"
                          ELSE IF s \in Handed(p) /\ new[s] # "same" THEN new[s] ELSE status[s]]
          /\ sender'    = [s \in Seqs |-> IF s \in (last + 1)..n THEN p ELSE sender[s]]
          /\ recipient' = [s \in Seqs |-> IF s \in (last + 1)..n THEN Peer(p) ELSE recipient[s]]
          /\ reply_to'  = [s \in Seqs |-> IF s \in (last + 1)..n THEN answers[s] ELSE reply_to[s]]
          /\ last' = n
    BY <2>a
  <2>2. status' \in [Seqs -> Statuses]
    BY <2>1
  <2>3. /\ sender' \in [Seqs -> Participant \cup {Switchboard, None}]
        /\ recipient' \in [Seqs -> Participant \cup {None}]
    BY <2>1, PeerType
  <2>4. reply_to' \in [Seqs -> 0..MaxSeq]
    <3>1. \A s \in (last + 1)..n : answers[s] \in 0..MaxSeq
      BY DEF Handed
    <3>2. QED
      BY <2>1, <3>1
  <2>5. last' \in 0..MaxSeq
    BY <2>1 DEF Reserved
  <2>6. legs' \in [Controller -> SUBSET Claude]
    BY <1>11 DEF Collect
  <2>7. QED
    BY <1>11, <2>2, <2>3, <2>4, <2>5, <2>6 DEF Collect
<1>12. ASSUME NEW c \in Controller, Select(c) PROVE TypeOK'
  <2>1. /\ pc' \in [Controller -> Positions]
        /\ pick' \in [Controller -> 0..MaxSeq] /\ seen' \in [Controller -> Pending \cup {"none"}]
    <3>1. CASE \A s \in 1..last : ~Eligible(s)
      BY <1>12, <3>1 DEF Select
    <3>2. CASE \E s \in 1..last : Eligible(s)
      <4>1. PICK s \in 1..last : /\ Eligible(s)
                               /\ pick' = [pick EXCEPT ![c] = s]
                               /\ seen' = [seen EXCEPT ![c] = status[s]]
                               /\ pc' = [pc EXCEPT ![c] = "validate"]
        BY <1>12, <3>2 DEF Select
      <4>2. status[s] \in Pending
        BY <4>1 DEF Eligible
      <4>3. QED
        BY <4>1, <4>2
    <3>3. QED
      BY <3>1, <3>2
  <2>2. QED
    BY <1>12, <2>1 DEF Select
<1>13. ASSUME NEW c \in Controller, Validate(c) PROVE TypeOK'
  <2>1. status' \in [Seqs -> Statuses]
    <3>1. status' = status \/ status' = [status EXCEPT ![pick[c]] = "blocked"]
      BY <1>13, Zenon DEF Validate
    <3>2. QED
      BY <3>1
  <2>2. /\ pc' \in [Controller -> Positions]
        /\ pick' \in [Controller -> 0..MaxSeq] /\ seen' \in [Controller -> Pending \cup {"none"}]
    <3>1. /\ pc' = [pc EXCEPT ![c] = "claim"] \/ pc' = [pc EXCEPT ![c] = "idle"]
          /\ pick' = pick \/ pick' = [pick EXCEPT ![c] = 0]
          /\ seen' = seen \/ seen' = [seen EXCEPT ![c] = "none"]
      BY <1>13 DEF Validate
    <3>2. pc' \in [Controller -> Positions]
      BY <3>1
    <3>3. pick' \in [Controller -> 0..MaxSeq]
      <4>1. CASE pick' = pick
        BY <4>1
      <4>2. CASE pick' = [pick EXCEPT ![c] = 0]
        BY <4>2
      <4>3. QED
        BY <3>1, <4>1, <4>2
    <3>4. seen' \in [Controller -> Pending \cup {"none"}]
      BY <3>1
    <3>5. QED
      BY <3>2, <3>3, <3>4
  <2>3. QED
    BY <1>13, <2>1, <2>2 DEF Validate
<1>14. ASSUME NEW c \in Controller, Claim(c) PROVE TypeOK'
  <2>1. status' \in [Seqs -> Statuses]
    <3>1. status' = status \/ status' = [status EXCEPT ![pick[c]] = "sending"]
      BY <1>14 DEF Claim
    <3>2. QED
      BY <3>1
  <2>2. /\ pc' \in [Controller -> Positions]
        /\ pick' \in [Controller -> 0..MaxSeq] /\ seen' \in [Controller -> Pending \cup {"none"}]
    <3>1. /\ pc' = [pc EXCEPT ![c] = "deliver"] \/ pc' = [pc EXCEPT ![c] = "idle"]
          /\ pick' = pick \/ pick' = [pick EXCEPT ![c] = 0]
          /\ seen' = [seen EXCEPT ![c] = "none"]
      BY <1>14 DEF Claim
    <3>2. pc' \in [Controller -> Positions]
      BY <3>1
    <3>3. pick' \in [Controller -> 0..MaxSeq]
      <4>1. CASE pick' = pick
        BY <4>1
      <4>2. CASE pick' = [pick EXCEPT ![c] = 0]
        BY <4>2
      <4>3. QED
        BY <3>1, <4>1, <4>2
    <3>4. QED
      BY <3>1, <3>2, <3>3
  <2>3. meta' \subseteq Seqs
    <3>1. pick[c] \in Seqs
      BY <1>14 DEF Claim, HoldsRow, Holding
    <3>2. meta' = meta \/ meta' = DeliveryRecord(pick[c])
      BY <1>14 DEF Claim
    <3>3. CASE meta' = meta
      BY <3>3
    <3>4. CASE meta' = DeliveryRecord(pick[c])
      BY <3>1, <3>4, RecordsAreRows
    <3>5. QED
      BY <3>2, <3>3, <3>4
  <2>4. QED
    BY <1>14, <2>1, <2>2, <2>3 DEF Claim
<1>15. ASSUME NEW c \in Controller, Deliver(c) PROVE TypeOK'
  <2>1. inputs' \in [Seqs -> Nat]
    <3>1. PICK o \in Outcomes(pick[c]) : inputs' = [inputs EXCEPT ![pick[c]] = @ + o.handed]
      BY <1>15 DEF Deliver
    <3>2. o.handed \in Nat
      BY Ranges
    <3>3. \A s \in Seqs : inputs[s] + o.handed \in Nat
      BY <3>2
    <3>4. QED
      BY <3>1, <3>3
  <2>2. result' \in [Controller -> Results \cup {NoResult}]
    BY <1>15 DEF Deliver
  <2>3. pc' \in [Controller -> Positions]
    BY <1>15 DEF Deliver
  <2>4. QED
    BY <1>15, <2>1, <2>2, <2>3 DEF Deliver
<1>16. ASSUME NEW c \in Controller, Finish(c) PROVE TypeOK'
  <2>1. result[c].status \in Statuses /\ result[c].wire \in Turn \cup {"mailbox", None}
    BY <1>16 DEF Finish, NoResult
  <2>2. status' \in [Seqs -> Statuses] /\ wire_id' \in [Seqs -> Turn \cup {"mailbox", None}]
    BY <1>16, <2>1 DEF Finish
  <2>3. pc' \in [Controller -> Positions]
    BY <1>16 DEF Finish, Reset
  <2>4. /\ pick' \in [Controller -> 0..MaxSeq] /\ seen' \in [Controller -> Pending \cup {"none"}]
        /\ todo' \in [Controller -> SUBSET Seqs] /\ legs' \in [Controller -> SUBSET Claude]
        /\ result' \in [Controller -> Results \cup {NoResult}]
    BY <1>16 DEF Finish, Reset
  <2>5. QED
    BY <1>16, <2>1, <2>2, <2>3, <2>4 DEF Finish
<1>17. ASSUME RetryCheck PROVE TypeOK'
  BY <1>17 DEF RetryCheck
<1>18. ASSUME RetryApply PROVE TypeOK'
  BY <1>18 DEF RetryApply, Requeued
<1>19. CASE UNCHANGED vars
  BY <1>19 DEF vars
<1>20. QED
  BY <1>1, <1>2, <1>3, <1>4, <1>5, <1>6, <1>7, <1>8, <1>9, <1>10, <1>11, <1>12, <1>13, <1>14,
     <1>15, <1>16, <1>17, <1>18, <1>19 DEF Next, TickStep

\* TypeOK holds of every behaviour, for any number of controllers, exclusive
\* or not.
THEOREM TypeCorrect == Spec => []TypeOK
<1>1. Init => TypeOK /\ HoldsRow
  BY PairAssumption, Ranges
     DEF Init, TypeOK, HoldsRow, Holding, Seqs, Positions, TickSteps, Statuses, NoResult
<1>2. TypeOK /\ HoldsRow /\ [Next]_vars => (TypeOK /\ HoldsRow)'
  BY TypeStep, HoldsRowStep
<1>3. QED
  BY <1>1, <1>2, PTL DEF Spec

-----------------------------------------------------------------------------
(* Delivery at most once, for controllers that serialise their ticks. *)

\* With serialised controllers no second one starts.
LEMMA OneControllerStep ==
  ASSUME Exclusive, OneController, [Next]_vars PROVE OneController'
<1> USE DEF OneController, control
<1>1. ASSUME UNCHANGED running PROVE OneController'
  BY <1>1
<1>2. ASSUME NEW c \in Controller, Start(c) PROVE OneController'
  BY <1>2, Zenon DEF Start
<1>3. ASSUME NEW c \in Controller, Crash(c) PROVE OneController'
  BY <1>3 DEF Crash
<1>4. ASSUME NEW c \in Controller,
             \/ Notify(c) \/ Recover(c) \/ Disconnect(c) \/ Abort(c) \/ TickStep(c)
      PROVE  OneController'
  BY <1>1, <1>4 DEF Notify, Recover, Disconnect, Abort, TickStep, TickBegin, ReconcilePage, Observe,
     Collect, Select, Validate, Claim, Deliver, Finish
<1>5. ASSUME (\E p \in Participant : Send(p)) \/ RetryCheck \/ RetryApply \/ UNCHANGED vars
      PROVE  OneController'
  BY <1>1, <1>5 DEF Send, RetryCheck, RetryApply, vars
<1>6. QED
  BY <1>2, <1>3, <1>4, <1>5 DEF Next

\* A controller is down exactly when it is not running.
LEMMA LiveHasPositionStep ==
  ASSUME TypeOK, LiveHasPosition, [Next]_vars PROVE LiveHasPosition'
<1>1. pc \in [Controller -> Positions]
  BY DEF TypeOK
<1> USE DEF LiveHasPosition, control
<1>2. ASSUME UNCHANGED <<running, pc>> PROVE LiveHasPosition'
  BY <1>2
<1>3. ASSUME NEW c \in Controller, NEW q, q # "down", c \in running,
             UNCHANGED running, pc' = [pc EXCEPT ![c] = q]
      PROVE  LiveHasPosition'
  BY <1>1, <1>3
<1>4. ASSUME NEW c \in Controller, Start(c) PROVE LiveHasPosition'
  BY <1>1, <1>4 DEF Start
<1>5. ASSUME NEW c \in Controller, Crash(c) PROVE LiveHasPosition'
  BY <1>1, <1>5 DEF Crash
<1>6. ASSUME NEW c \in Controller,
             Notify(c) \/ Recover(c) \/ Disconnect(c) \/ Abort(c) \/ TickBegin(c) \/ ReconcilePage(c)
      PROVE  LiveHasPosition'
  BY <1>3, <1>6 DEF Notify, Recover, Disconnect, Abort, TickBegin, ReconcilePage, TickSteps
<1>7. ASSUME NEW c \in Controller,
             Observe(c) \/ Select(c) \/ Validate(c) \/ Claim(c) \/ Deliver(c) \/ Finish(c)
      PROVE  LiveHasPosition'
  BY <1>1, <1>3, <1>7 DEF Observe, Select, Validate, Claim, Deliver, Finish
<1>8. ASSUME \/ \E c \in Controller : \E p \in Claude : Collect(c, p)
             \/ (\E p \in Participant : Send(p)) \/ RetryCheck \/ RetryApply \/ UNCHANGED vars
      PROVE  LiveHasPosition'
  BY <1>2, <1>8 DEF Collect, Send, RetryCheck, RetryApply, vars
<1>9. QED
  BY <1>4, <1>5, <1>6, <1>7, <1>8 DEF Next, TickStep

\* While a controller is at work every other one is down.
LEMMA Alone ==
  ASSUME OneController, LiveHasPosition, NEW c \in Controller, NEW d \in Controller,
         pc[c] # "down", pc[d] # "down"
  PROVE  c = d
  BY DEF OneController, LiveHasPosition

\* Rows are added at the end and never removed.
LEMMA RowsUpToLastStep ==
  ASSUME TypeOK, RowsUpToLast, WaitingIsUnsent, PickTracksRow, [Next]_vars
  PROVE  RowsUpToLast'
<1>1. last \in 0..MaxSeq /\ status \in [Seqs -> Statuses]
  BY DEF TypeOK
<1> USE PairAssumption DEF RowsUpToLast, columns, Seqs
<1>2. ASSUME UNCHANGED <<last, status>> PROVE RowsUpToLast'
  BY <1>2
<1>3. ASSUME UNCHANGED last, \A s \in Seqs : status[s] = "none" <=> status'[s] = "none"
      PROVE  RowsUpToLast'
  BY <1>3
<1>4. ASSUME NEW p \in Participant, Send(p) PROVE RowsUpToLast'
  <2>1. last' = last + 1 /\ status' = [status EXCEPT ![last + 1] = "queued"]
    BY <1>4 DEF Send, Insert
  <2>2. QED
    BY <1>1, <2>1
<1>5. ASSUME NEW c \in Controller, Notify(c) PROVE RowsUpToLast'
  <2>1. last' = last + 2 /\ status' = [status EXCEPT ![last + 1] = "queued", ![last + 2] = "queued"]
    BY <1>5 DEF Notify
  <2>2. QED
    BY <1>1, <2>1
<1>6. ASSUME NEW c \in Controller, Recover(c) PROVE RowsUpToLast'
  BY <1>3, <1>6 DEF Recover, Recovered
<1>7. ASSUME NEW c \in Controller, Disconnect(c) PROVE RowsUpToLast'
  BY <1>3, <1>7 DEF Disconnect, Cancelled
<1>8. ASSUME NEW c \in Controller, Observe(c) PROVE RowsUpToLast'
  <2>1. PICK found \in SUBSET {s \in Group(c) : inputs[s] > 0} :
          status' = [s \in Seqs |-> IF s \in found THEN "input_observed" ELSE status[s]]
    BY <1>8 DEF Observe, Scans
  <2>2. \A s \in Seqs : s \in found => status[s] # "none"
    BY DEF WaitingIsUnsent
  <2>3. QED
    BY <1>1, <1>3, <1>8, <2>1, <2>2 DEF Observe
<1>9. ASSUME NEW c \in Controller, NEW p \in Claude, Collect(c, p) PROVE RowsUpToLast'
  <2>1. PICK n \in last..(MaxSeq - Reserved) :
          \E new \in [Handed(p) -> PeerStatus \cup {"same"}] :
            /\ status' = [s \in Seqs |-> IF s \in (last + 1)..n THEN "queued"
                            ELSE IF s \in Handed(p) /\ new[s] # "same" THEN new[s] ELSE status[s]]
            /\ last' = n
    BY <1>9 DEF Collect
  <2>2. "none" \notin PeerStatus /\ Handed(p) \subseteq 1..last
    BY DEF Handed, Reported
  <2>3. MaxSeq - Reserved \in Nat /\ MaxSeq - Reserved <= MaxSeq
    BY DEF Reserved
  <2>4. PICK new \in [Handed(p) -> PeerStatus \cup {"same"}] :
          /\ status' = [s \in Seqs |-> IF s \in (last + 1)..n THEN "queued"
                          ELSE IF s \in Handed(p) /\ new[s] # "same" THEN new[s] ELSE status[s]]
          /\ last' = n
    BY <2>1
  <2>5. \A s \in Handed(p) : new[s] # "none"
    BY <2>2
  <2>6. \A s \in Seqs : status'[s] = "none" <=> status[s] = "none" /\ s \notin (last + 1)..n
    BY <1>1, <2>2, <2>4, <2>5
  <2>7. QED
    BY <1>1, <2>3, <2>4, <2>6
<1>10. ASSUME NEW c \in Controller, Validate(c) PROVE RowsUpToLast'
  BY <1>1, <1>2, <1>3, <1>10 DEF Validate, PickTracksRow, Pending
<1>11. ASSUME NEW c \in Controller, Claim(c) PROVE RowsUpToLast'
  BY <1>1, <1>2, <1>3, <1>11 DEF Claim, PickTracksRow, Pending
<1>12. ASSUME NEW c \in Controller, Finish(c) PROVE RowsUpToLast'
  BY <1>1, <1>2, <1>3, <1>12 DEF Finish, PickTracksRow
<1>13. ASSUME RetryApply PROVE RowsUpToLast'
  BY <1>3, <1>13 DEF RetryApply, Requeued
<1>14. ASSUME NEW c \in Controller,
              \/ Start(c) \/ Crash(c) \/ Abort(c) \/ TickBegin(c) \/ ReconcilePage(c) \/ Select(c) \/ Deliver(c)
       PROVE  RowsUpToLast'
  BY <1>2, <1>14 DEF Start, Crash, Abort, TickBegin, ReconcilePage, Select, Deliver
<1>15. ASSUME RetryCheck \/ UNCHANGED vars PROVE RowsUpToLast'
  BY <1>2, <1>15 DEF RetryCheck, vars
<1>16. QED
  BY <1>4, <1>5, <1>6, <1>7, <1>8, <1>9, <1>10, <1>11, <1>12, <1>13, <1>14, <1>15 DEF Next, TickStep

\* A row that may still be sent was never handed over, and no row was handed
\* over twice: only Deliver hands over, and only a row it claimed unsent.
LEMMA UnsentStep ==
  ASSUME TypeOK, OneController, LiveHasPosition, RowsUpToLast, WaitingIsUnsent, PickTracksRow, AtMostOnce,
         [Next]_vars
  PROVE  WaitingIsUnsent' /\ AtMostOnce'
<1>1. /\ last \in 0..MaxSeq /\ status \in [Seqs -> Statuses] /\ inputs \in [Seqs -> Nat]
      /\ pc \in [Controller -> Positions]
  BY DEF TypeOK
<1> USE DEF WaitingIsUnsent, AtMostOnce, Unsubmitted, columns, local
<1>2. ASSUME UNCHANGED inputs,
             \A s \in Seqs : status'[s] \in Unsubmitted \cup {"none"} => status[s] \in Unsubmitted \cup {"none"}
      PROVE  WaitingIsUnsent' /\ AtMostOnce'
  BY <1>2
<1>3. ASSUME NEW p \in Participant, Send(p) PROVE WaitingIsUnsent' /\ AtMostOnce'
  <2>1. last' = last + 1 /\ status' = [status EXCEPT ![last + 1] = "queued"] /\ UNCHANGED inputs
    BY <1>3 DEF Send, Insert
  <2>2. \A s \in Seqs : s = last + 1 => status[s] = "none"
    BY <1>1 DEF RowsUpToLast, Seqs
  <2>3. QED
    BY <1>1, <1>2, <2>1, <2>2
<1>4. ASSUME NEW c \in Controller, Notify(c) PROVE WaitingIsUnsent' /\ AtMostOnce'
  <2>1. /\ status' = [status EXCEPT ![last + 1] = "queued", ![last + 2] = "queued"]
        /\ UNCHANGED inputs
    BY <1>4 DEF Notify
  <2>2. \A s \in Seqs : s \in {last + 1, last + 2} => status[s] = "none"
    BY <1>1 DEF RowsUpToLast, Seqs
  <2>3. QED
    BY <1>1, <1>2, <2>1, <2>2
<1>5. ASSUME NEW c \in Controller, Recover(c) PROVE WaitingIsUnsent' /\ AtMostOnce'
  BY <1>2, <1>5 DEF Recover, Recovered
<1>6. ASSUME NEW c \in Controller, Disconnect(c) PROVE WaitingIsUnsent' /\ AtMostOnce'
  BY <1>2, <1>6 DEF Disconnect, Cancelled
<1>7. ASSUME NEW c \in Controller, Observe(c) PROVE WaitingIsUnsent' /\ AtMostOnce'
  BY <1>2, <1>7 DEF Observe
<1>8. ASSUME NEW c \in Controller, NEW p \in Claude, Collect(c, p) PROVE WaitingIsUnsent' /\ AtMostOnce'
  <2>1. PICK n \in last..(MaxSeq - Reserved) :
          \E new \in [Handed(p) -> PeerStatus \cup {"same"}] :
            status' = [s \in Seqs |-> IF s \in (last + 1)..n THEN "queued"
                         ELSE IF s \in Handed(p) /\ new[s] # "same" THEN new[s] ELSE status[s]]
    BY <1>8 DEF Collect
  <2>2. PICK new \in [Handed(p) -> PeerStatus \cup {"same"}] :
          status' = [s \in Seqs |-> IF s \in (last + 1)..n THEN "queued"
                       ELSE IF s \in Handed(p) /\ new[s] # "same" THEN new[s] ELSE status[s]]
    BY <2>1
  <2>3. \A s \in Handed(p) : new[s] # "same" => new[s] \notin Unsubmitted \cup {"none"}
    BY PairAssumption DEF Reported
  <2>4. \A s \in Seqs : s \in (last + 1)..n => status[s] = "none"
    BY <1>1 DEF RowsUpToLast, Seqs
  <2>5. UNCHANGED inputs
    BY <1>8 DEF Collect
  <2>6. QED
    BY <1>1, <1>2, <2>2, <2>3, <2>4, <2>5
<1>9. ASSUME NEW c \in Controller, Validate(c) PROVE WaitingIsUnsent' /\ AtMostOnce'
  BY <1>1, <1>2, <1>9 DEF Validate, PickTracksRow, Pending, Seqs
<1>10. ASSUME NEW c \in Controller, Claim(c) PROVE WaitingIsUnsent' /\ AtMostOnce'
  BY <1>1, <1>2, <1>10 DEF Claim
<1>11. ASSUME NEW c \in Controller, Deliver(c) PROVE WaitingIsUnsent' /\ AtMostOnce'
  <2>1. PICK o \in Outcomes(pick[c]) : inputs' = [inputs EXCEPT ![pick[c]] = @ + o.handed]
    BY <1>11 DEF Deliver
  <2>2. o.handed \in 0..1
    BY DEF Outcomes, CodexOutcomes, CallFailures, ClaudeOutcomes, Outcome
  <2>3. pick[c] \in Seqs /\ status[pick[c]] = "sending" /\ inputs[pick[c]] = 0
    BY <1>1, <1>11, PairAssumption DEF Deliver, PickTracksRow, Seqs
  <2>4. UNCHANGED status
    BY <1>11 DEF Deliver
  <2>5. QED
    BY <1>1, <2>1, <2>2, <2>3, <2>4
<1>12. ASSUME NEW c \in Controller, Finish(c) PROVE WaitingIsUnsent' /\ AtMostOnce'
  <2>1. status' = [status EXCEPT ![pick[c]] = result[c].status] /\ UNCHANGED inputs
    BY <1>12 DEF Finish, PickTracksRow
  <2>2. result[c].status \in Unsubmitted \cup {"none"} => inputs[pick[c]] = 0
    BY <1>12 DEF Finish, PickTracksRow
  <2>3. QED
    BY <1>1, <2>1, <2>2
<1>13. ASSUME RetryApply PROVE WaitingIsUnsent' /\ AtMostOnce'
  BY <1>2, <1>13 DEF RetryApply, Requeued
<1>14. ASSUME NEW c \in Controller,
              \/ Start(c) \/ Crash(c) \/ Abort(c) \/ TickBegin(c) \/ ReconcilePage(c) \/ Select(c)
       PROVE  WaitingIsUnsent' /\ AtMostOnce'
  BY <1>2, <1>14 DEF Start, Crash, Abort, TickBegin, ReconcilePage, Select
<1>15. ASSUME RetryCheck \/ UNCHANGED vars PROVE WaitingIsUnsent' /\ AtMostOnce'
  BY <1>2, <1>15 DEF RetryCheck, vars
<1>16. QED
  BY <1>3, <1>4, <1>5, <1>6, <1>7, <1>8, <1>9, <1>10, <1>11, <1>12, <1>13, <1>14, <1>15 DEF Next, TickStep

\* The row a tick holds keeps the status the tick expects of it: only the one
\* live controller can move it.
LEMMA PickTracksRowStep ==
  ASSUME TypeOK, OneController, LiveHasPosition, RowsUpToLast, WaitingIsUnsent, PickTracksRow, [Next]_vars
  PROVE  PickTracksRow'
<1>1. /\ last \in 0..MaxSeq /\ status \in [Seqs -> Statuses] /\ inputs \in [Seqs -> Nat]
      /\ pc \in [Controller -> Positions] /\ pick \in [Controller -> 0..MaxSeq]
      /\ seen \in [Controller -> Pending \cup {"none"}] /\ result \in [Controller -> Results \cup {NoResult}]
  BY DEF TypeOK
<1> USE DEF PickTracksRow, columns, local
\* A step that moves one controller to a place where no row is picked: the
\* others are down, so nobody holds a row.
<1>2. ASSUME NEW c \in Controller, pc[c] # "down", NEW q \in {"down", "idle", "collect", "observe", "reconcile"},
             pc' = [pc EXCEPT ![c] = q]
      PROVE  PickTracksRow'
  BY <1>1, <1>2, Alone
\* A step of nobody who holds a row, that leaves picked rows as they are.
<1>3. ASSUME UNCHANGED <<pc, pick, seen, result, inputs>>, last' \in Nat, last <= last',
             \A s \in 1..last : status[s] \in Pending \cup {"sending"} => status'[s] = status[s]
      PROVE  PickTracksRow'
  BY <1>1, <1>3 DEF Pending
<1>4. ASSUME NEW p \in Participant, Send(p) PROVE PickTracksRow'
  <2>1. last' = last + 1 /\ status' = [status EXCEPT ![last + 1] = "queued"]
    BY <1>4 DEF Send, Insert
  <2>2. \A s \in 1..last : status'[s] = status[s]
    BY <1>1, <2>1, PairAssumption DEF Seqs
  <2>3. QED
    BY <1>1, <1>3, <1>4, <2>1, <2>2 DEF Send
<1>5. ASSUME NEW c \in Controller,
             \/ Notify(c) \/ Recover(c) \/ Disconnect(c) \/ Crash(c) \/ Abort(c) \/ TickBegin(c)
             \/ ReconcilePage(c) \/ Observe(c) \/ Finish(c)
      PROVE  PickTracksRow'
  BY <1>1, <1>2, <1>5 DEF Notify, Recover, Disconnect, Crash, Abort, TickBegin, ReconcilePage, Observe, Finish,
     LiveHasPosition, TickSteps
<1>6. ASSUME NEW c \in Controller, Start(c) PROVE PickTracksRow'
  BY <1>1, <1>6 DEF Start
<1>7. ASSUME NEW c \in Controller, NEW p \in Claude, Collect(c, p) PROVE PickTracksRow'
  <2>1. \A d \in Controller : pc[d] \in {"collect", "down"} /\ pc'[d] = pc[d]
    BY <1>7, Alone DEF Collect
  <2>2. QED
    BY <2>1
<1>8. ASSUME NEW c \in Controller, Select(c) PROVE PickTracksRow'
  <2>1. CASE \A s \in 1..last : ~Eligible(s)
    BY <1>2, <1>8, <2>1 DEF Select
  <2>2. CASE \E s \in 1..last : Eligible(s)
    <3>1. PICK s \in 1..last : /\ status[s] \in Pending
                             /\ pick' = [pick EXCEPT ![c] = s]
                             /\ seen' = [seen EXCEPT ![c] = status[s]]
                             /\ pc' = [pc EXCEPT ![c] = "validate"]
      BY <1>8, <2>2 DEF Select, Eligible
    <3>2. \A d \in Controller \ {c} : pc'[d] = "down"
      BY <1>1, <1>8, <3>1, Alone DEF Select
    <3>3. UNCHANGED <<status, last>>
      BY <1>8 DEF Select
    <3>4. QED
      BY <1>1, <3>1, <3>2, <3>3
  <2>3. QED
    BY <2>1, <2>2
<1>9. ASSUME NEW c \in Controller, Validate(c) PROVE PickTracksRow'
  BY <1>1, <1>2, <1>9 DEF Validate
<1>10. ASSUME NEW c \in Controller, Claim(c) PROVE PickTracksRow'
  BY <1>1, <1>2, <1>10, SMTT(30), Alone, PairAssumption DEF Claim, WaitingIsUnsent, Unsubmitted, Pending, Seqs
<1>11. ASSUME NEW c \in Controller, Deliver(c) PROVE PickTracksRow'
  <2>1. PICK o \in Outcomes(pick[c]) : result' = [result EXCEPT ![c] = [status |-> o.status, wire |-> o.wire]]
                                      /\ inputs' = [inputs EXCEPT ![pick[c]] = @ + o.handed]
    BY <1>11 DEF Deliver
  <2>2. /\ o.status \in {"deferred", "blocked", "accepted_native", "unknown", "queued_peer"}
        /\ o.status \in {"deferred", "blocked"} => o.handed = 0
        /\ o.wire = "mailbox" => o.status = "queued_peer"
    BY PairAssumption DEF Outcomes, CodexOutcomes, CallFailures, ClaudeOutcomes, Outcome
  <2>3. \A d \in Controller \ {c} : pc'[d] = "down"
    BY <1>1, <1>11, Alone DEF Deliver
  <2>4. QED
    BY <1>1, <1>11, <2>1, <2>2, <2>3, PairAssumption DEF Deliver, Seqs
<1>12. ASSUME RetryCheck \/ RetryApply \/ UNCHANGED vars PROVE PickTracksRow'
  BY <1>1, <1>3, <1>12, PairAssumption DEF RetryCheck, RetryApply, Requeued, vars, Pending, Seqs
<1>13. QED
  BY <1>4, <1>5, <1>6, <1>7, <1>8, <1>9, <1>10, <1>11, <1>12 DEF Next, TickStep

\* A row with a mailbox id has left the queue for good.
LEMMA MailboxIsSettledStep ==
  ASSUME TypeOK, RowsUpToLast, MailboxIsSettled, PickTracksRow, [Next]_vars PROVE MailboxIsSettled'
<1>1. /\ last \in 0..MaxSeq /\ status \in [Seqs -> Statuses]
      /\ wire_id \in [Seqs -> Turn \cup {"mailbox", None}]
  BY DEF TypeOK
<1> USE DEF MailboxIsSettled, Unsubmitted, columns, local
<1>2. ASSUME UNCHANGED wire_id, \A s \in Seqs : status'[s] = status[s] \/ status[s] \in Unsubmitted \cup {"none", "sending"}
                                               \/ status'[s] \notin Unsubmitted \cup {"none", "sending"}
      PROVE  MailboxIsSettled'
  BY <1>2
<1>3. ASSUME NEW p \in Participant, Send(p) PROVE MailboxIsSettled'
  <2>1. status' = [status EXCEPT ![last + 1] = "queued"] /\ UNCHANGED wire_id
    BY <1>3 DEF Send, Insert
  <2>2. QED
    BY <1>1, <1>2, <2>1, PairAssumption DEF RowsUpToLast, Seqs
<1>4. ASSUME NEW c \in Controller, Notify(c) PROVE MailboxIsSettled'
  <2>1. status' = [status EXCEPT ![last + 1] = "queued", ![last + 2] = "queued"] /\ UNCHANGED wire_id
    BY <1>4 DEF Notify
  <2>2. QED
    BY <1>1, <1>2, <2>1, PairAssumption DEF RowsUpToLast, Seqs
<1>5. ASSUME NEW c \in Controller, Recover(c) \/ Disconnect(c) PROVE MailboxIsSettled'
  BY <1>2, <1>5 DEF Recover, Recovered, Disconnect, Cancelled
<1>6. ASSUME NEW c \in Controller, Observe(c) PROVE MailboxIsSettled'
  BY <1>2, <1>6 DEF Observe
<1>7. ASSUME NEW c \in Controller, NEW p \in Claude, Collect(c, p) PROVE MailboxIsSettled'
  <2>1. PICK n \in last..(MaxSeq - Reserved) :
          \E new \in [Handed(p) -> PeerStatus \cup {"same"}] :
            status' = [s \in Seqs |-> IF s \in (last + 1)..n THEN "queued"
                         ELSE IF s \in Handed(p) /\ new[s] # "same" THEN new[s] ELSE status[s]]
    BY <1>7 DEF Collect
  <2>2. PICK new \in [Handed(p) -> PeerStatus \cup {"same"}] :
          status' = [s \in Seqs |-> IF s \in (last + 1)..n THEN "queued"
                       ELSE IF s \in Handed(p) /\ new[s] # "same" THEN new[s] ELSE status[s]]
    BY <2>1
  <2>3. \A s \in Handed(p) : new[s] # "same" => new[s] \notin Unsubmitted \cup {"none", "sending"}
    BY PairAssumption DEF Reported
  <2>4. \A s \in Seqs : s \in (last + 1)..n => status[s] = "none"
    BY <1>1, PairAssumption DEF RowsUpToLast, Seqs
  <2>5. UNCHANGED wire_id
    BY <1>7 DEF Collect
  <2>6. QED
    BY <1>1, <1>2, <2>2, <2>3, <2>4, <2>5
<1>8. ASSUME NEW c \in Controller, Validate(c) \/ Claim(c) PROVE MailboxIsSettled'
  BY <1>1, <1>2, <1>8 DEF Validate, Claim, PickTracksRow, Pending
<1>9. ASSUME NEW c \in Controller, Finish(c) PROVE MailboxIsSettled'
  BY <1>1, <1>9 DEF Finish, PickTracksRow
<1>10. ASSUME RetryApply PROVE MailboxIsSettled'
  BY <1>2, <1>10 DEF RetryApply, Requeued
<1>11. ASSUME NEW c \in Controller,
              \/ Start(c) \/ Crash(c) \/ Abort(c) \/ TickBegin(c) \/ ReconcilePage(c) \/ Select(c) \/ Deliver(c)
       PROVE  MailboxIsSettled'
  BY <1>2, <1>11 DEF Start, Crash, Abort, TickBegin, ReconcilePage, Select, Deliver
<1>12. ASSUME RetryCheck \/ UNCHANGED vars PROVE MailboxIsSettled'
  BY <1>2, <1>12 DEF RetryCheck, vars
<1>13. QED
  BY <1>3, <1>4, <1>5, <1>6, <1>7, <1>8, <1>9, <1>10, <1>11, <1>12 DEF Next, TickStep

\* The inductive invariant.
IInv == TypeOK /\ HoldsRow /\ DeliveryInv /\ AtMostOnce

\* A new connection has one controller and no rows.
LEMMA IInvInit == Init => IInv
<1> SUFFICES ASSUME Init PROVE IInv
  OBVIOUS
<1>1. TypeOK /\ HoldsRow
  BY PairAssumption, Ranges
     DEF Init, TypeOK, HoldsRow, Holding, Seqs, Positions, TickSteps, Statuses, NoResult
<1>2. OneController /\ LiveHasPosition
  BY DEF Init, OneController, LiveHasPosition
<1>3. RowsUpToLast /\ WaitingIsUnsent /\ AtMostOnce
  BY DEF Init, RowsUpToLast, WaitingIsUnsent, AtMostOnce, Seqs
<1>4. PickTracksRow
  BY DEF Init, PickTracksRow
<1>5. MailboxIsSettled
  BY PairAssumption DEF Init, MailboxIsSettled
<1>6. QED
  BY <1>1, <1>2, <1>3, <1>4, <1>5 DEF IInv, DeliveryInv

\* The strengthening is inductive under serialised controllers.
LEMMA IInvStep == ASSUME Exclusive PROVE IInv /\ [Next]_vars => IInv'
  BY HoldsRowStep, TypeStep, OneControllerStep, LiveHasPositionStep, RowsUpToLastStep, UnsentStep,
     MailboxIsSettledStep, PickTracksRowStep DEF IInv, DeliveryInv

\* With serialised controllers no row is handed over twice, and one that is
\* queued, deferred, blocked or cancelled was not handed over at all, whatever
\* crashes, lost answers, escaped exceptions, retries and restarts occur.
THEOREM NoDoubleDelivery == ASSUME Exclusive PROVE Spec => [](RetrySafe /\ AtMostOnce)
<1>1. IInv => RetrySafe /\ AtMostOnce
  BY DEF IInv, DeliveryInv, WaitingIsUnsent, RetrySafe
<1>2. QED
  BY <1>1, IInvInit, IInvStep, PTL DEF Spec

\* What tick or retry_blocked may send, and what disconnect cancels, was not
\* handed over.
THEOREM RetriesAreSafe == ASSUME Exclusive PROVE Spec => []RetrySafe
<1>1. IInv => RetrySafe
  BY DEF IInv, DeliveryInv, WaitingIsUnsent, RetrySafe
<1>2. QED
  BY <1>1, IInvInit, IInvStep, PTL DEF Spec

-----------------------------------------------------------------------------
(* The queue implements DeliveryOnce. *)

\* The phase of a row, without its CASE.
LEMMA PhaseOf ==
  \A s \in Seqs : /\ Phase(s) = "absent"    <=> status[s] = "none"
                  /\ Phase(s) = "pending"   <=> status[s] \in {"queued", "deferred", "blocked"}
                  /\ Phase(s) = "inflight"  <=> status[s] = "sending"
                  /\ Phase(s) = "cancelled" <=> status[s] = "cancelled"
                  /\ Phase(s) = "settled"   <=>
                       status[s] \notin {"none", "queued", "deferred", "blocked", "sending", "cancelled"}
  BY DEF Phase

\* One row, seen through the refinement mapping, in terms of its columns.
LEMMA RowStep ==
  ASSUME NEW s \in Seqs, inputs[s] \in Nat,
         \/ status'[s] = status[s] /\ inputs'[s] = inputs[s]
         \/ /\ inputs'[s] = inputs[s]
            /\ \/ status[s] = "none" /\ status'[s] = "queued"
               \/ status[s] \in {"queued", "deferred", "blocked"} /\ inputs[s] = 0
                  /\ status'[s] \in {"queued", "deferred", "blocked", "sending", "cancelled"}
               \/ status[s] = "sending" /\ inputs[s] = 0 /\ status'[s] \in {"deferred", "blocked"}
               \/ status[s] \notin {"none", "queued", "deferred", "blocked", "cancelled"}
                  /\ status'[s] \notin {"none", "queued", "deferred", "blocked", "sending", "cancelled"}
         \/ status[s] = "sending" /\ status'[s] = "sending" /\ inputs[s] = 0 /\ inputs'[s] = 1
  PROVE  Once!MsgStep(s)
<1>1. /\ [x \in Seqs |-> Phase(x)][s] = Phase(s)
      /\ [x \in Seqs |-> Phase(x)]'[s] = Phase(s)'
  OBVIOUS
<1>2. QED
  BY <1>1, PhaseOf DEF Once!MsgStep, Once!Keep, Once!Queue, Once!Try, Once!Hand, Once!Defer, Once!Settle,
     Once!Cancel, Once!Move, Phase

\* What RowStep asks for, as one formula about row s.
Allowed(s) ==
  \/ status'[s] = status[s] /\ inputs'[s] = inputs[s]
  \/ /\ inputs'[s] = inputs[s]
     /\ \/ status[s] = "none" /\ status'[s] = "queued"
        \/ status[s] \in {"queued", "deferred", "blocked"} /\ inputs[s] = 0
           /\ status'[s] \in {"queued", "deferred", "blocked", "sending", "cancelled"}
        \/ status[s] = "sending" /\ inputs[s] = 0 /\ status'[s] \in {"deferred", "blocked"}
        \/ status[s] \notin {"none", "queued", "deferred", "blocked", "cancelled"}
           /\ status'[s] \notin {"none", "queued", "deferred", "blocked", "sending", "cancelled"}
  \/ status[s] = "sending" /\ status'[s] = "sending" /\ inputs[s] = 0 /\ inputs'[s] = 1

\* Every step moves every row in one of the allowed ways.
LEMMA RowsAllowed == ASSUME IInv, [Next]_vars, NEW s \in Seqs PROVE Allowed(s)
<1>1. /\ last \in 0..MaxSeq /\ status \in [Seqs -> Statuses] /\ inputs \in [Seqs -> Nat]
      /\ status[s] \in {"none", "queued", "deferred", "blocked", "cancelled"} => inputs[s] = 0
      /\ status[s] = "none" <=> s > last
  BY DEF IInv, TypeOK, DeliveryInv, WaitingIsUnsent, Unsubmitted, RowsUpToLast
<1>2. PickTracksRow
  BY DEF IInv, DeliveryInv
<1> USE DEF Allowed, columns, local
<1>3. ASSUME UNCHANGED <<status, inputs>> PROVE Allowed(s)
  BY <1>3
<1>4. ASSUME NEW p \in Participant, Send(p) PROVE Allowed(s)
  <2>1. status' = [status EXCEPT ![last + 1] = "queued"] /\ UNCHANGED inputs
    BY <1>4 DEF Send, Insert
  <2>2. QED
    BY <1>1, <2>1, PairAssumption DEF Seqs
<1>5. ASSUME NEW c \in Controller, Notify(c) PROVE Allowed(s)
  <2>1. status' = [status EXCEPT ![last + 1] = "queued", ![last + 2] = "queued"] /\ UNCHANGED inputs
    BY <1>5 DEF Notify
  <2>2. QED
    BY <1>1, <2>1, PairAssumption DEF Seqs
<1>6. ASSUME NEW c \in Controller, Recover(c) \/ Disconnect(c) PROVE Allowed(s)
  BY <1>1, <1>6 DEF Recover, Recovered, Disconnect, Cancelled
<1>7. ASSUME NEW c \in Controller, Observe(c) PROVE Allowed(s)
  <2>1. \/ status'[s] = status[s] 
        \/ status'[s] = "input_observed" /\ s \in todo[c] /\ inputs[s] > 0
    BY <1>7 DEF Observe, Scans, Group
  <2>2. UNCHANGED inputs
    BY <1>7 DEF Observe
  <2>3. QED
    BY <1>1, <2>1, <2>2
<1>8. ASSUME NEW c \in Controller, NEW p \in Claude, Collect(c, p) PROVE Allowed(s)
  <2>1. PICK n \in last..(MaxSeq - Reserved) :
          \E new \in [Handed(p) -> PeerStatus \cup {"same"}] :
            status' = [r \in Seqs |-> IF r \in (last + 1)..n THEN "queued"
                         ELSE IF r \in Handed(p) /\ new[r] # "same" THEN new[r] ELSE status[r]]
    BY <1>8 DEF Collect
  <2>2. PICK new \in [Handed(p) -> PeerStatus \cup {"same"}] :
          status' = [r \in Seqs |-> IF r \in (last + 1)..n THEN "queued"
                       ELSE IF r \in Handed(p) /\ new[r] # "same" THEN new[r] ELSE status[r]]
    BY <2>1
  <2>3. s \in Handed(p) => new[s] = "same" \/ new[s] \in Reported
    BY PairAssumption
  <2>4. UNCHANGED inputs
    BY <1>8 DEF Collect
  <2>5. s \in Handed(p) => s <= last /\ status[s] \notin {"none", "queued", "deferred", "blocked", "cancelled", "sending"}
    BY DEF Handed, IInv, DeliveryInv, MailboxIsSettled, Unsubmitted
  <2>6. QED
    BY <1>1, <2>2, <2>3, <2>4, <2>5 DEF Reported, Seqs
<1>9. ASSUME NEW c \in Controller, Validate(c) \/ Claim(c) \/ Finish(c) PROVE Allowed(s)
  BY <1>1, <1>2, <1>9 DEF Validate, Claim, Finish, PickTracksRow, Pending
<1>10. ASSUME NEW c \in Controller, Deliver(c) PROVE Allowed(s)
  BY <1>1, <1>2, <1>10 DEF Deliver, PickTracksRow, Outcomes, CodexOutcomes, CallFailures, ClaudeOutcomes, Outcome
<1>11. ASSUME NEW c \in Controller,
              \/ Start(c) \/ Crash(c) \/ Abort(c) \/ TickBegin(c) \/ ReconcilePage(c) \/ Select(c)
       PROVE  Allowed(s)
  BY <1>3, <1>11 DEF Start, Crash, Abort, TickBegin, ReconcilePage, Select
<1>12. ASSUME RetryCheck \/ RetryApply \/ UNCHANGED vars PROVE Allowed(s)
  BY <1>1, <1>12 DEF RetryCheck, RetryApply, Requeued, vars
<1>13. QED
  BY <1>4, <1>5, <1>6, <1>7, <1>8, <1>9, <1>10, <1>11, <1>12 DEF Next, TickStep

\* Under serialised controllers the queue implements at-most-once delivery with
\* final outcomes: no settled or cancelled message ever moves again.
THEOREM ImplementsDeliveryOnce == ASSUME Exclusive PROVE Spec => DeliversOnce
<1>1. Init => Once!Init
  BY PhaseOf DEF Init, Once!Init
<1>2. IInv /\ [Next]_vars => [Once!Next]_Once!vars
  <2> SUFFICES ASSUME IInv, [Next]_vars, NEW s \in Seqs PROVE Once!MsgStep(s)
    BY DEF Once!Next
  <2>1. inputs[s] \in Nat
    BY DEF IInv, TypeOK
  <2>2. QED
    BY <2>1, RowsAllowed, RowStep DEF Allowed
<1>3. QED
  BY <1>1, <1>2, IInvInit, IInvStep, PTL DEF Spec, DeliversOnce, Once!Spec
-----------------------------------------------------------------------------
(* Routing, receipts, disconnect and order. *)

\* Rows that exist keep their recipient.
RecipientKept == /\ last' \in 0..MaxSeq /\ last' >= last
                 /\ \A s \in 1..last : recipient'[s] = recipient[s]

\* No step of the queue changes to whom a row is addressed.
LEMMA RowsStay == ASSUME TypeOK, [Next]_vars PROVE RecipientKept
<1> USE PairAssumption DEF TypeOK, Seqs, columns, RecipientKept
<1>1. ASSUME NEW p \in Participant, Send(p) PROVE RecipientKept
  BY <1>1 DEF Send, Insert, Reserved
<1>2. ASSUME NEW c \in Controller, Notify(c) PROVE RecipientKept
  <2>1. PICK p \in Participant : /\ last' = last + 2
                                 /\ recipient' = [recipient EXCEPT ![last + 1] = p, ![last + 2] = Peer(p)]
    BY <1>2 DEF Notify
  <2>2. last' \in 0..MaxSeq /\ last' >= last
    BY <1>2, <2>1 DEF Notify
  <2>3. ASSUME NEW s \in 1..last PROVE recipient'[s] = recipient[s]
    <3>1. s # last + 1 /\ s # last + 2 /\ s \in Seqs
      OBVIOUS
    <3>2. QED
      BY <2>1, <3>1
  <2>4. QED
    BY <2>2, <2>3
<1>3. ASSUME NEW c \in Controller, NEW p \in Claude, Collect(c, p) PROVE RecipientKept
  <2>1. PICK n \in last..(MaxSeq - Reserved) :
          /\ recipient' = [s \in Seqs |-> IF s \in (last + 1)..n THEN Peer(p) ELSE recipient[s]]
          /\ last' = n
    BY <1>3 DEF Collect
  <2>2. MaxSeq - Reserved <= MaxSeq /\ MaxSeq - Reserved \in Nat
    BY DEF Reserved
  <2>3. QED
    BY <2>1, <2>2
<1>4. CASE UNCHANGED columns
  BY <1>4
<1>5. QED
  BY <1>1, <1>2, <1>3, <1>4 DEF Next, TickStep, Start, Recover, Disconnect, Crash, Abort, TickBegin, ReconcilePage,
     Observe, Select, Validate, Claim, Deliver, Finish, RetryCheck, RetryApply, vars

\* The row a controller holds exists.
Picked ==
  \A c \in Controller : pc[c] \in Holding => pick[c] \in 1..last

\* A controller holds a row that exists.
LEMMA PickedStep == ASSUME TypeOK, Picked, [Next]_vars PROVE Picked'
<1>1. /\ pc \in [Controller -> Positions] /\ pick \in [Controller -> 0..MaxSeq]
      /\ last \in Nat /\ last' \in Nat /\ last' >= last
  BY RowsStay, PairAssumption DEF TypeOK, RecipientKept
<1> USE DEF Picked, Holding, local
<1>2. ASSUME UNCHANGED <<pc, pick>> PROVE Picked'
  BY <1>1, <1>2
<1>3. ASSUME NEW c \in Controller, NEW q \in Positions \ Holding, UNCHANGED pick \/ pick' = [pick EXCEPT ![c] = 0],
             pc' = [pc EXCEPT ![c] = q]
      PROVE  Picked'
  BY <1>1, <1>3
<1>4. ASSUME NEW c \in Controller, Select(c) PROVE Picked'
  BY <1>1, <1>4 DEF Select
<1>5. ASSUME NEW c \in Controller, Validate(c) \/ Claim(c) \/ Deliver(c) PROVE Picked'
  BY <1>1, <1>5 DEF Validate, Claim, Deliver
<1>6. ASSUME NEW p \in Participant, Send(p) PROVE Picked'
  BY <1>2, <1>6 DEF Send
<1>7. ASSUME NEW c \in Controller, NEW p \in Claude, Collect(c, p) PROVE Picked'
  BY <1>2, <1>7 DEF Collect
<1>8. CASE RetryCheck \/ RetryApply \/ UNCHANGED vars
  BY <1>2, <1>8 DEF RetryCheck, RetryApply, vars
<1>9. ASSUME NEW c \in Controller,
             \/ Notify(c) \/ Start(c) \/ Recover(c) \/ Disconnect(c) \/ Crash(c) \/ Abort(c)
             \/ TickBegin(c) \/ ReconcilePage(c) \/ Observe(c) \/ Finish(c)
      PROVE  Picked'
  BY <1>1, <1>3, <1>9 DEF Notify, Start, Recover, Disconnect, Crash, Abort, TickBegin, ReconcilePage,
     Observe, Finish, Reset, Positions, TickSteps
<1>10. QED
  BY <1>4, <1>5, <1>6, <1>7, <1>8, <1>9 DEF Next, TickStep

\* What was put into a Codex thread, or is about to be, has a delivery record.
HasRecord ==
  /\ \A s \in Seqs : inputs[s] > 0 => s \in 1..last /\ (recipient[s] \in Claude \/ s \in meta)
  /\ \A c \in Controller : pc[c] = "deliver" => recipient[pick[c]] \in Claude \/ pick[c] \in meta

\* Only Claim writes a delivery record, and nothing removes one.
LEMMA RecordsStay == ASSUME TypeOK, [Next]_vars PROVE meta \subseteq meta'
<1>1. ASSUME NEW c \in Controller, Claim(c) PROVE meta \subseteq meta'
  BY <1>1 DEF Claim, DeliveryRecord
<1>2. QED
  BY <1>1 DEF Next, TickStep, Send, Notify, Start, Recover, Disconnect, Crash, Abort, TickBegin, ReconcilePage,
     Observe, Collect, Select, Validate, Deliver, Finish, RetryCheck, RetryApply, vars

\* Only Claim lets a controller deliver, and only such a controller hands over.
LEMMA HasRecordStep == ASSUME TypeOK, Picked, HasRecord, [Next]_vars PROVE HasRecord'
<1> USE PairAssumption DEF TypeOK, Seqs, local
<1>1. meta \subseteq meta' /\ RecipientKept
  BY RecordsStay, RowsStay
<1>2. \A c \in Controller : pc[c] = "deliver" => pick[c] \in 1..last
  BY DEF Picked, Holding
<1>3. ASSUME NEW s \in Seqs, inputs'[s] > 0 PROVE s \in 1..last' /\ (recipient'[s] \in Claude \/ s \in meta')
  <2>1. ASSUME NEW c \in Controller, Deliver(c) PROVE inputs[s] > 0 \/ (s = pick[c] /\ pc[c] = "deliver")
    <3>1. PICK n : inputs' = [inputs EXCEPT ![pick[c]] = @ + n]
      BY <2>1 DEF Deliver
    <3>2. QED
      BY <1>3, <2>1, <3>1 DEF Deliver
  <2>2. inputs[s] > 0 \/ \E c \in Controller : s = pick[c] /\ pc[c] = "deliver"
    BY <1>3, <2>1 DEF Next, TickStep, Send, Notify, Start, Recover, Disconnect, Crash, Abort, TickBegin,
       ReconcilePage, Observe, Collect, Select, Validate, Claim, Finish, RetryCheck, RetryApply, vars
  <2>3. s \in 1..last /\ (recipient[s] \in Claude \/ s \in meta)
    BY <1>2, <2>2 DEF HasRecord
  <2>4. QED
    BY <1>1, <2>3 DEF RecipientKept
<1>4. ASSUME NEW c \in Controller, pc'[c] = "deliver" PROVE recipient'[pick'[c]] \in Claude \/ pick'[c] \in meta'
  <2>1. CASE pc[c] = "deliver" /\ pick'[c] = pick[c]
    BY <1>1, <1>2, <2>1 DEF HasRecord, RecipientKept
  <2>2. CASE Claim(c)
    BY <1>4, <2>2 DEF Claim, DeliveryRecord, columns
  <2>3. (pc[c] = "deliver" /\ pick'[c] = pick[c]) \/ Claim(c)
    <3>1. ASSUME NEW d \in Controller,
                 \/ Notify(d) \/ Start(d) \/ Recover(d) \/ Disconnect(d) \/ Crash(d) \/ Abort(d)
                 \/ TickBegin(d) \/ ReconcilePage(d) \/ Observe(d) \/ Finish(d)
          PROVE  pc[c] = "deliver" /\ pick'[c] = pick[c]
      BY <1>4, <3>1 DEF Notify, Start, Recover, Disconnect, Crash, Abort, TickBegin, ReconcilePage, Observe,
         Finish, Reset
    <3>2. ASSUME NEW d \in Controller, Select(d) \/ Validate(d) \/ Deliver(d) \/ (Claim(d) /\ d # c)
          PROVE  pc[c] = "deliver" /\ pick'[c] = pick[c]
      BY <1>4, <3>2 DEF Select, Validate, Deliver, Claim
    <3>3. ASSUME \/ \E p \in Participant : Send(p)
                 \/ \E d \in Controller : \E p \in Claude : Collect(d, p)
                 \/ RetryCheck \/ RetryApply \/ UNCHANGED vars
          PROVE  pc[c] = "deliver" /\ pick'[c] = pick[c]
      BY <1>4, <3>3 DEF Send, Collect, RetryCheck, RetryApply, vars
    <3>4. QED
      BY <3>1, <3>2, <3>3 DEF Next, TickStep
  <2>4. QED
    BY <2>1, <2>2, <2>3
<1>5. QED
  BY <1>3, <1>4 DEF HasRecord

\* What Finish, Claim and the receipts may do to a row that exists, and that a
\* delivery record is never removed.
LEMMA ReceiptRowStep ==
  ASSUME TypeOK, HoldsRow, [Next]_vars, NEW s \in 1..last, recipient[s] \notin Claude,
         status'[s] \in {"sending", "accepted_native", "unknown"}
  PROVE  meta \subseteq meta' /\ (s \in meta' \/ status[s] \in {"sending", "accepted_native", "unknown"})
<1> USE DEF TypeOK, columns, local
<1>0. s \in Seqs
  BY PairAssumption DEF Seqs
<1>1. CASE UNCHANGED <<status, meta>>
  BY <1>1
<1>2. ASSUME NEW p \in Participant, Send(p) PROVE UNCHANGED meta /\ status'[s] = status[s]
  BY <1>0, <1>2 DEF Send, Insert
<1>3. ASSUME NEW c \in Controller, Notify(c) PROVE UNCHANGED meta /\ status'[s] = status[s]
  <2>1. status' = [status EXCEPT ![last + 1] = "queued", ![last + 2] = "queued"]
    BY <1>3 DEF Notify
  <2>2. QED
    BY <1>0, <1>3, <2>1 DEF Notify
<1>4. ASSUME NEW c \in Controller, Recover(c) \/ Disconnect(c)
      PROVE  UNCHANGED meta /\ status[s] \in {"sending", "accepted_native", "unknown"}
  BY <1>0, <1>4 DEF Recover, Recovered, Disconnect, Cancelled
<1>5. ASSUME NEW c \in Controller, Observe(c) PROVE UNCHANGED meta /\ status'[s] = status[s]
  BY <1>0, <1>5 DEF Observe
<1>6. ASSUME NEW c \in Controller, NEW p \in Claude, Collect(c, p) PROVE UNCHANGED meta /\ status'[s] = status[s]
  <2>1. s \notin Handed(p)
    BY DEF Handed
  <2>2. PICK n \in last..(MaxSeq - Reserved) :
          \E new \in [Handed(p) -> PeerStatus \cup {"same"}] :
            status' = [r \in Seqs |-> IF r \in (last + 1)..n THEN "queued"
                         ELSE IF r \in Handed(p) /\ new[r] # "same" THEN new[r] ELSE status[r]]
    BY <1>6 DEF Collect
  <2>3. status'[s] = status[s]
    BY <1>0, <2>1, <2>2
  <2>4. QED
    BY <1>6, <2>3 DEF Collect
<1>7. ASSUME NEW c \in Controller, Claim(c) PROVE meta \subseteq meta' /\ (s \in meta' \/ status'[s] = status[s])
  <2>1. CASE status' = [status EXCEPT ![pick[c]] = "sending"] /\ meta' = DeliveryRecord(pick[c])
    BY <1>0, <2>1 DEF DeliveryRecord
  <2>2. CASE UNCHANGED <<status, meta>>
    BY <2>2
  <2>3. QED
    BY <1>7, <2>1, <2>2 DEF Claim
<1>8. ASSUME NEW c \in Controller, Validate(c) PROVE UNCHANGED meta /\ status'[s] = status[s]
  BY <1>0, <1>8 DEF Validate
<1>9. ASSUME NEW c \in Controller, Finish(c)
      PROVE  UNCHANGED meta /\ (status'[s] = status[s] \/ status[s] = "sending")
  BY <1>0, <1>9 DEF Finish
<1>10. ASSUME RetryApply PROVE UNCHANGED meta /\ status'[s] = status[s]
  BY <1>0, <1>10 DEF RetryApply, Requeued
<1>11. ASSUME NEW c \in Controller,
              \/ Start(c) \/ Crash(c) \/ Abort(c) \/ TickBegin(c) \/ ReconcilePage(c) \/ Select(c) \/ Deliver(c)
       PROVE  UNCHANGED <<status, meta>>
  BY <1>11 DEF Start, Crash, Abort, TickBegin, ReconcilePage, Select, Deliver
<1>12. CASE RetryCheck \/ UNCHANGED vars
  BY <1>1, <1>12 DEF RetryCheck, vars
<1>13. QED
  BY <1>1, <1>2, <1>3, <1>4, <1>5, <1>6, <1>7, <1>8, <1>9, <1>10, <1>11, <1>12 DEF Next, TickStep

\* A row that enters the table is queued.
LEMMA NewRowsQueued ==
  ASSUME TypeOK, [Next]_vars, NEW s \in Seqs, s > last, s <= last'
  PROVE  status'[s] = "queued"
<1> USE PairAssumption DEF TypeOK, Seqs, columns
<1>1. ASSUME NEW p \in Participant, Send(p) PROVE status'[s] = "queued"
  BY <1>1 DEF Send, Insert
<1>2. ASSUME NEW c \in Controller, Notify(c) PROVE status'[s] = "queued"
  <2>1. last' = last + 2 /\ status' = [status EXCEPT ![last + 1] = "queued", ![last + 2] = "queued"]
    BY <1>2 DEF Notify
  <2>2. s = last + 1 \/ s = last + 2
    BY <2>1
  <2>3. QED
    BY <2>1, <2>2
<1>3. ASSUME NEW c \in Controller, NEW p \in Claude, Collect(c, p) PROVE status'[s] = "queued"
  <2>1. PICK n \in last..(MaxSeq - Reserved) :
          \E new \in [Handed(p) -> PeerStatus \cup {"same"}] :
            /\ status' = [r \in Seqs |-> IF r \in (last + 1)..n THEN "queued"
                            ELSE IF r \in Handed(p) /\ new[r] # "same" THEN new[r] ELSE status[r]]
            /\ last' = n
    BY <1>3, ZenonT(60) DEF Collect
  <2>2. s \in (last + 1)..n
    BY <2>1
  <2>3. QED
    BY <2>1, <2>2
<1>4. CASE UNCHANGED last
  BY <1>4
<1>5. QED
  BY <1>1, <1>2, <1>3, <1>4 DEF Next, TickStep, Start, Recover, Disconnect, Crash, Abort, TickBegin, ReconcilePage,
     Observe, Select, Validate, Claim, Deliver, Finish, RetryCheck, RetryApply, vars

\* Whatever was put into a Codex thread, and every Codex row in doubt, has its
\* delivery record, also when controllers overlap: the record commits with
\* 'sending', before the row is handed over, and stays.
THEOREM AttemptsReconcilable == Spec => []Reconcilable
<1> DEFINE R == TypeOK /\ HoldsRow /\ Picked /\ HasRecord /\ Reconcilable
<1>1. Init => R
  BY PairAssumption, Ranges
     DEF Init, TypeOK, HoldsRow, Holding, Picked, HasRecord, Reconcilable, Seqs, Positions, TickSteps, Statuses,
         NoResult
<1>2. R /\ [Next]_vars => Reconcilable'
  <2> SUFFICES ASSUME R, [Next]_vars, NEW s \in 1..last', recipient'[s] \notin Claude,
                      status'[s] \in {"sending", "accepted_native", "unknown"} \/ inputs'[s] > 0
               PROVE  s \in meta'
    BY DEF Reconcilable
  <2>1. s \in Seqs /\ last' \in 0..MaxSeq
    BY RowsStay, PairAssumption DEF RecipientKept, Seqs
  <2>2. CASE inputs'[s] > 0
    BY <2>1, <2>2, HasRecordStep DEF HasRecord
  <2>3. CASE status'[s] \in {"sending", "accepted_native", "unknown"}
    <3>1. s <= last
      BY <2>1, <2>3, NewRowsQueued DEF TypeOK, Seqs
    <3>2. s \in 1..last /\ recipient'[s] = recipient[s]
      BY <3>1, RowsStay DEF RecipientKept, TypeOK
    <3>3. QED
      BY <2>3, <3>2, ReceiptRowStep DEF Reconcilable
  <2>4. QED
    BY <2>2, <2>3
<1>3. R /\ [Next]_vars => R'
  BY <1>2, TypeStep, HoldsRowStep, PickedStep, HasRecordStep
<1>4. R => Reconcilable
  OBVIOUS
<1>5. QED
  BY <1>1, <1>3, <1>4, PTL DEF Spec

\* Rows beyond the last one answer nothing.
FreshRows == \A s \in Seqs : s > last => reply_to[s] = 0

\* A row that enters the table answers nothing or a row for its sender; the
\* others keep their sender and what they answer.
RoutedRow(s) ==
  \/ s <= last /\ reply_to'[s] = reply_to[s] /\ sender'[s] = sender[s]
  \/ s > last' /\ reply_to'[s] = reply_to[s]
  \/ s > last /\ s <= last' /\ reply_to'[s] = 0
  \/ s > last /\ s <= last' /\ reply_to'[s] \in 1..last /\ recipient[reply_to'[s]] = sender'[s]

\* Send and _collect choose what a new row answers among the rows for its sender.
LEMMA RoutedStep ==
  ASSUME TypeOK, FreshRows, [Next]_vars, NEW s \in Seqs PROVE RoutedRow(s)
<1> USE PairAssumption DEF TypeOK, Seqs, columns, RoutedRow
<1>1. ASSUME NEW p \in Participant, Send(p) PROVE RoutedRow(s)
  <2>1. PICK reply \in {0} \cup Answerable(p) : Insert(p, Peer(p), reply)
    BY <1>1 DEF Send
  <2>2. /\ last' = last + 1 /\ sender' = [sender EXCEPT ![last + 1] = p]
        /\ reply_to' = [reply_to EXCEPT ![last + 1] = reply]
    BY <2>1 DEF Insert
  <2>3. reply = 0 \/ (reply \in 1..last /\ recipient[reply] = p)
    BY DEF Answerable
  <2>4. CASE s = last + 1
    BY <2>2, <2>3, <2>4
  <2>5. CASE s # last + 1
    BY <2>2, <2>5
  <2>6. QED
    BY <2>4, <2>5
<1>2. ASSUME NEW c \in Controller, Notify(c) PROVE RoutedRow(s)
  <2>1. /\ last' = last + 2
        /\ sender' = [sender EXCEPT ![last + 1] = Switchboard, ![last + 2] = Switchboard]
        /\ UNCHANGED reply_to
    BY <1>2 DEF Notify
  <2>2. QED
    BY <2>1 DEF FreshRows
<1>3. ASSUME NEW c \in Controller, NEW p \in Claude, Collect(c, p) PROVE RoutedRow(s)
  <2>1. PICK n \in last..(MaxSeq - Reserved) :
          \E answers \in [(last + 1)..n -> {0} \cup Handed(p)] :
          /\ sender'    = [r \in Seqs |-> IF r \in (last + 1)..n THEN p ELSE sender[r]]
          /\ reply_to'  = [r \in Seqs |-> IF r \in (last + 1)..n THEN answers[r] ELSE reply_to[r]]
          /\ last' = n
    BY <1>3, ZenonT(60) DEF Collect
  <2>2. PICK answers \in [(last + 1)..n -> {0} \cup Handed(p)] :
          /\ sender'    = [r \in Seqs |-> IF r \in (last + 1)..n THEN p ELSE sender[r]]
          /\ reply_to'  = [r \in Seqs |-> IF r \in (last + 1)..n THEN answers[r] ELSE reply_to[r]]
          /\ last' = n
    BY <2>1
  <2>3. CASE s \in (last + 1)..n
    <3>1. answers[s] = 0 \/ (answers[s] \in 1..last /\ recipient[answers[s]] = p)
      BY <2>3 DEF Handed
    <3>2. QED
      BY <2>2, <2>3, <3>1
  <2>4. CASE s \notin (last + 1)..n
    BY <2>2, <2>4
  <2>5. QED
    BY <2>3, <2>4
<1>4. CASE UNCHANGED columns
  BY <1>4 DEF FreshRows
<1>5. QED
  BY <1>1, <1>2, <1>3, <1>4 DEF Next, TickStep, Start, Recover, Disconnect, Crash, Abort, TickBegin, ReconcilePage,
     Observe, Select, Validate, Claim, Deliver, Finish, RetryCheck, RetryApply, vars

\* A reply stays within the pair and names an older row for the session that
\* replies, also when controllers overlap.
THEOREM RepliesRouted == Spec => []ReplyRouting
<1> DEFINE R == TypeOK /\ HoldsRow /\ FreshRows /\ ReplyRouting
<1>1. Init => R
  BY PairAssumption, Ranges
     DEF Init, TypeOK, HoldsRow, Holding, Seqs, Positions, TickSteps, Statuses, NoResult, FreshRows, ReplyRouting
<1>2. ASSUME R, [Next]_vars PROVE FreshRows' /\ ReplyRouting'
  <2>1. last \in 0..MaxSeq /\ last' \in 0..MaxSeq /\ last' >= last /\ MaxSeq \in Nat
    BY <1>2, RowsStay, PairAssumption DEF RecipientKept, TypeOK
  <2>2. FreshRows'
    <3> SUFFICES ASSUME NEW s \in Seqs, s > last' PROVE reply_to'[s] = 0
      BY DEF FreshRows
    <3>1. s > last /\ reply_to[s] = 0
      BY <1>2, <2>1 DEF FreshRows, Seqs
    <3>2. QED
      BY <1>2, <2>1, <3>1, RoutedStep DEF RoutedRow, Seqs
  <2>3. ReplyRouting'
    <3> SUFFICES ASSUME NEW s \in 1..last', reply_to'[s] # 0
                 PROVE  reply_to'[s] < s /\ recipient'[reply_to'[s]] = sender'[s]
      BY DEF ReplyRouting
    <3>1. s \in Seqs /\ RoutedRow(s)
      BY <1>2, <2>1, RoutedStep DEF Seqs
    <3>2. /\ reply_to'[s] \in 1..last /\ reply_to'[s] < s /\ recipient[reply_to'[s]] = sender'[s]
      <4>1. CASE s <= last
        <5>1. reply_to'[s] = reply_to[s] /\ sender'[s] = sender[s] /\ s \in 1..last
          BY <2>1, <3>1, <4>1 DEF RoutedRow, Seqs
        <5>2. reply_to[s] < s /\ recipient[reply_to[s]] = sender[s]
          BY <1>2, <5>1 DEF ReplyRouting
        <5>3. reply_to[s] \in Nat
          BY <1>2, <3>1, <2>1 DEF TypeOK
        <5>4. QED
          BY <2>1, <5>1, <5>2, <5>3
      <4>2. CASE s > last
        BY <1>2, <2>1, <3>1, <4>2 DEF RoutedRow, Seqs
      <4>3. QED
        BY <2>1, <3>1, <4>1, <4>2 DEF Seqs
    <3>3. QED
      BY <1>2, <3>2, RowsStay DEF RecipientKept
  <2>4. QED
    BY <2>2, <2>3
<1>3. R /\ [Next]_vars => R'
  BY <1>2, TypeStep, HoldsRowStep
<1>4. QED
  BY <1>1, <1>3, PTL DEF Spec

\* Once the pair is disabled its one controller is outside a tick.
OutsideTick == ~enabled => \A c \in Controller : pc[c] \in {"down", "recover", "idle"}

\* No row waits, and no controller is in a tick that could make one wait again.
LEMMA QuietStep ==
  ASSUME IInv, OutsideTick, QuietAfterDisconnect, [Next]_vars
  PROVE  OutsideTick' /\ QuietAfterDisconnect'
<1>1. pc \in [Controller -> Positions] /\ status \in [Seqs -> Statuses] /\ OneController /\ LiveHasPosition
  BY DEF IInv, TypeOK, DeliveryInv
<1> DEFINE Goal == OutsideTick' /\ QuietAfterDisconnect'
<1> USE DEF OutsideTick, QuietAfterDisconnect, columns, local
<1>2. ASSUME UNCHANGED <<enabled, pc, status>> PROVE Goal
  BY <1>2
<1>3. ASSUME NEW c \in Controller, Disconnect(c) PROVE Goal
  <2>1. pc[c] # "down"
    BY <1>3 DEF Disconnect
  <2>2. \A d \in Controller \ {c} : pc[d] = "down"
    BY <1>1, <2>1, Alone
  <2>3. OutsideTick'
    BY <1>1, <1>3, <2>2 DEF Disconnect
  <2>4. QuietAfterDisconnect'
    BY <1>1, <1>3 DEF Disconnect, Cancelled
  <2>5. QED
    BY <2>3, <2>4
<1>4. ASSUME enabled, UNCHANGED enabled PROVE Goal
  BY <1>4
<1>5. ASSUME ~enabled, UNCHANGED enabled,
             NEW c \in Controller,
             \/ Notify(c) \/ Start(c) \/ Recover(c) \/ Crash(c) \/ Abort(c) \/ TickStep(c)
      PROVE  Goal
  <2>1. pc[c] \in {"down", "recover", "idle"} /\ \A s \in Seqs : status[s] \notin {"queued", "deferred", "blocked"}
    BY <1>5
  <2>2. Start(c) \/ Recover(c) \/ Crash(c)
    BY <1>5, <2>1 DEF Notify, Abort, TickSteps, TickStep, TickBegin, ReconcilePage, Observe, Collect, Select,
       Validate, Claim, Deliver, Finish
  <2>3. QED
    BY <1>1, <1>5, <2>1, <2>2 DEF Start, Recover, Recovered, Crash
<1>6. ASSUME ~enabled, RetryApply PROVE Goal
  BY <1>1, <1>6 DEF RetryApply, Requeued
<1>7. CASE UNCHANGED vars \/ RetryCheck
  BY <1>2, <1>7 DEF vars, RetryCheck
<1>8. ASSUME NEW p \in Participant, Send(p) PROVE Goal
  BY <1>4, <1>8 DEF Send
<1>9. ASSUME RetryApply PROVE UNCHANGED enabled
  BY <1>9 DEF RetryApply
<1>10. ASSUME NEW c \in Controller,
              \/ Notify(c) \/ Start(c) \/ Recover(c) \/ Crash(c) \/ Abort(c) \/ TickStep(c)
       PROVE  UNCHANGED enabled
  BY <1>10 DEF Notify, Start, Recover, Crash, Abort, TickStep, TickBegin, ReconcilePage, Observe, Collect, Select,
       Validate, Claim, Deliver, Finish
<1>11. enabled \in BOOLEAN
  BY DEF IInv, TypeOK
<1>12. QED
  BY <1>3, <1>4, <1>5, <1>6, <1>7, <1>8, <1>9, <1>10, <1>11 DEF Next

\* After disconnect no row waits, whatever retry_blocked read before it.
THEOREM DisconnectIsFinal == ASSUME Exclusive PROVE Spec => []QuietAfterDisconnect
<1>1. Init => OutsideTick /\ QuietAfterDisconnect
  BY DEF Init, OutsideTick, QuietAfterDisconnect
<1>2. IInv /\ OutsideTick /\ QuietAfterDisconnect /\ [Next]_vars => (IInv /\ OutsideTick /\ QuietAfterDisconnect)'
  BY IInvStep, QuietStep
<1>3. QED
  BY <1>1, <1>2, IInvInit, PTL DEF Spec

\* No deferred row is ahead of the one a tick has picked.
NoneAhead(c) == \A t \in 1..(pick[c] - 1) : recipient[t] = recipient[pick[c]] => status[t] # "deferred"
AheadClear == \A c \in Controller : pc[c] \in {"validate", "claim", "deliver"} => NoneAhead(c)

\* A row becomes deferred only at the end of a tick.
LEMMA DeferredBy ==
  ASSUME IInv, [Next]_vars, NEW t \in Seqs, status'[t] = "deferred", status[t] # "deferred"
  PROVE  \E c \in Controller : Finish(c)
<1> USE PairAssumption DEF columns, local
<1>1. /\ status \in [Seqs -> Statuses] /\ PickTracksRow /\ last \in 0..MaxSeq
  BY DEF IInv, TypeOK, DeliveryInv
<1>2. ASSUME NEW p \in Participant, Send(p) PROVE FALSE
  BY <1>1, <1>2 DEF Send, Insert
<1>3. ASSUME NEW c \in Controller, Notify(c) PROVE FALSE
  <2>1. status' = [status EXCEPT ![last + 1] = "queued", ![last + 2] = "queued"]
    BY <1>3 DEF Notify
  <2>2. QED
    BY <1>1, <2>1
<1>4. ASSUME NEW c \in Controller, Recover(c) \/ Disconnect(c) \/ Observe(c) PROVE FALSE
  BY <1>1, <1>4 DEF Recover, Recovered, Disconnect, Cancelled, Observe
<1>5. ASSUME NEW c \in Controller, NEW p \in Claude, Collect(c, p) PROVE FALSE
  <2>1. PICK n \in last..(MaxSeq - Reserved) :
          \E new \in [Handed(p) -> PeerStatus \cup {"same"}] :
            status' = [r \in Seqs |-> IF r \in (last + 1)..n THEN "queued"
                         ELSE IF r \in Handed(p) /\ new[r] # "same" THEN new[r] ELSE status[r]]
    BY <1>5 DEF Collect
  <2>2. PICK new \in [Handed(p) -> PeerStatus \cup {"same"}] :
          status' = [r \in Seqs |-> IF r \in (last + 1)..n THEN "queued"
                       ELSE IF r \in Handed(p) /\ new[r] # "same" THEN new[r] ELSE status[r]]
    BY <2>1
  <2>3. t \in Handed(p) => new[t] # "deferred"
    BY DEF Reported
  <2>4. QED
    BY <2>2, <2>3
<1>6. ASSUME NEW c \in Controller, Validate(c) \/ Claim(c) PROVE FALSE
  BY <1>1, <1>6 DEF Validate, Claim
<1>7. ASSUME RetryApply PROVE FALSE
  BY <1>1, <1>7 DEF RetryApply, Requeued
<1>8. ASSUME NEW c \in Controller,
              \/ Start(c) \/ Crash(c) \/ Abort(c) \/ TickBegin(c) \/ ReconcilePage(c) \/ Select(c) \/ Deliver(c)
       PROVE  FALSE
  BY <1>8 DEF Start, Crash, Abort, TickBegin, ReconcilePage, Select, Deliver
<1>9. CASE RetryCheck \/ UNCHANGED vars
  BY <1>9 DEF RetryCheck, vars
<1>10. QED
  BY <1>2, <1>3, <1>4, <1>5, <1>6, <1>7, <1>8, <1>9 DEF Next, TickStep

\* From its selection to its hand-over a row stays the first of its recipient.
LEMMA AheadStep == ASSUME Exclusive, IInv, AheadClear, [Next]_vars PROVE AheadClear'
<1> SUFFICES ASSUME NEW c \in Controller, pc'[c] \in {"validate", "claim", "deliver"} PROVE NoneAhead(c)'
  BY DEF AheadClear
<1>1. /\ TypeOK /\ HoldsRow /\ pc \in [Controller -> Positions] /\ pick \in [Controller -> 0..MaxSeq]
      /\ last \in 0..MaxSeq /\ MaxSeq \in Nat
  BY PairAssumption DEF IInv, TypeOK
<1>2. OneController /\ LiveHasPosition /\ PickTracksRow /\ IInv'
  BY IInvStep DEF IInv, DeliveryInv
<1>3. \/ \E d \in Controller : Select(d) /\ pc'[d] = "validate" /\ d = c
      \/ pc[c] \in {"validate", "claim", "deliver"} /\ pick'[c] = pick[c]
  <2>1. ASSUME NEW d \in Controller,
               \/ Notify(d) \/ Start(d) \/ Recover(d) \/ Disconnect(d) \/ Crash(d) \/ Abort(d)
               \/ TickBegin(d) \/ ReconcilePage(d) \/ Observe(d) \/ Finish(d)
        PROVE  pc[c] \in {"validate", "claim", "deliver"} /\ pick'[c] = pick[c]
    BY <1>1, <2>1 DEF Notify, Start, Recover, Disconnect, Crash, Abort, TickBegin, ReconcilePage, Observe, Finish,
       Reset, local
  <2>2. ASSUME NEW d \in Controller, Select(d)
        PROVE  (d = c /\ pc'[d] = "validate") \/ (pc[c] \in {"validate", "claim", "deliver"} /\ pick'[c] = pick[c])
    BY <1>1, <2>2 DEF Select
  <2>3. ASSUME NEW d \in Controller, Validate(d) \/ Claim(d) \/ Deliver(d)
        PROVE  pc[c] \in {"validate", "claim", "deliver"} /\ pick'[c] = pick[c]
    BY <1>1, <2>3 DEF Validate, Claim, Deliver
  <2>4. ASSUME \/ \E d \in Controller : \E p \in Claude : Collect(d, p)
               \/ (\E p \in Participant : Send(p)) \/ RetryCheck \/ RetryApply \/ UNCHANGED vars
        PROVE  UNCHANGED <<pc, pick>>
    BY <2>4 DEF Collect, Send, RetryCheck, RetryApply, vars, local
  <2>5. QED
    BY <2>1, <2>2, <2>3, <2>4 DEF Next, TickStep
<1>4. CASE Select(c) /\ pc'[c] = "validate"
  <2>1. PICK s \in 1..last : Eligible(s) /\ pick' = [pick EXCEPT ![c] = s]
    BY <1>1, <1>4 DEF Select
  <2>2. pick'[c] = s /\ UNCHANGED <<status, recipient>>
    BY <1>1, <1>4, <2>1 DEF Select, columns
  <2>3. QED
    BY <2>1, <2>2 DEF Eligible, Pending, NoneAhead
<1>5. CASE pc[c] \in {"validate", "claim", "deliver"} /\ pick'[c] = pick[c]
  <2>1. pick[c] \in 1..last /\ NoneAhead(c)
    BY <1>2, <1>5 DEF PickTracksRow, AheadClear
  <2>2. RecipientKept
    BY <1>1, RowsStay
  <2>3. ASSUME NEW t \in 1..(pick[c] - 1), recipient'[t] = recipient'[pick[c]], status'[t] = "deferred"
        PROVE  FALSE
    <3>1. t \in Seqs /\ t \in 1..last /\ recipient[t] = recipient[pick[c]]
      BY <1>1, <2>1, <2>2, <2>3 DEF Seqs, RecipientKept
    <3>2. status[t] # "deferred"
      BY <2>1, <3>1 DEF NoneAhead
    <3>3. PICK d \in Controller : Finish(d)
      BY <2>3, <3>1, <3>2, DeferredBy
    <3>4. d = c
      BY <1>2, <1>5, <3>3, Alone DEF Finish
    <3>5. QED
      BY <1>1, <1>5, <3>3, <3>4 DEF Finish
  <2>4. QED
    BY <1>5, <2>3 DEF NoneAhead
<1>6. QED
  BY <1>3, <1>4, <1>5

\* No row is handed over while an older one to its recipient is deferred.
THEOREM DeferredKeepsOrder == ASSUME Exclusive PROVE Spec => NoOvertake
<1>1. Init => AheadClear
  BY DEF Init, AheadClear
<1>2. IInv /\ AheadClear /\ [Next]_vars =>
        [\A s \in Seqs : inputs'[s] > inputs[s] =>
           \A t \in 1..(s - 1) : recipient[t] = recipient[s] => status[t] # "deferred"]_vars
  <2> SUFFICES ASSUME IInv, AheadClear, Next, NEW s \in Seqs, inputs'[s] > inputs[s],
                      NEW t \in 1..(s - 1), recipient[t] = recipient[s]
               PROVE  status[t] # "deferred"
    OBVIOUS
  <2>1. inputs[s] \in Nat /\ inputs \in [Seqs -> Nat]
    BY DEF IInv, TypeOK
  <2>2. inputs' # inputs
    BY <2>1
  <2>3. PICK c \in Controller : Deliver(c)
    BY <2>2 DEF Next, TickStep, Send, Notify, Start, Recover, Disconnect, Crash, Abort, TickBegin, ReconcilePage,
       Observe, Collect, Select, Validate, Claim, Finish, RetryCheck, RetryApply
  <2>4. pc[c] = "deliver" /\ pick[c] = s
    BY <2>1, <2>3 DEF Deliver
  <2>5. QED
    BY <2>4 DEF AheadClear, NoneAhead
<1>3. IInv /\ AheadClear /\ [Next]_vars => (IInv /\ AheadClear)'
  BY IInvStep, AheadStep
<1>4. QED
  BY <1>1, <1>2, <1>3, IInvInit, PTL DEF Spec, NoOvertake
=============================================================================

---------------------------- MODULE MailboxProofs ----------------------------
(***************************************************************************)
(* Theorems about Mailbox, for any number of messages, receipts, frames    *)
(* and exits of the daemon.                                                *)
(***************************************************************************)
EXTENDS Mailbox, TLAPS

Status == {"none", "queued", "sending", "sent", "unknown"} \cup Receipt

\* What WireAtMostOnce rests on: a message that waits was not received, the
\* loop sends a row that it marked before and that nobody received yet, and
\* receipts exist for received messages only.
IInv ==
  /\ queued \in 0..MaxOut
  /\ status \in [Out -> Status] /\ got \in [Out -> 0..1]
  /\ \A m \in Out : status[m] = "none" <=> m > queued
  /\ \A m \in Out : status[m] \in {"none", "queued"} => got[m] = 0
  /\ pc \in {"down", "settle", "idle", "sending", "record"}
  /\ pc \in {"sending", "record"} => row \in Out
  /\ pc = "sending" => status[row] = "sending" /\ got[row] = 0
  /\ pc = "record" => status[row] \notin {"none", "queued"} /\ outcome \in {"sent", "unknown"}
  /\ frames \subseteq Frame
  /\ \A f \in frames : f.type = "control" => got[f.of] = 1

\* The statuses a step writes, and the two kinds of frame.
LEMMA FrameTypes ==
  /\ \A f \in Frame : f.type = "control" => f.of \in Out /\ f.status \in Receipt
  /\ \A r \in Receipt : r \notin {"none", "queued", "sending"}
  BY MailboxAssumption DEF Frame

\* Initially no message exists.
LEMMA IInvInit == Init => IInv
  BY MailboxAssumption DEF Init, IInv, Out, Status

\* Every step keeps the strengthening.
LEMMA IInvStep == IInv /\ [Next]_vars => IInv'
<1> SUFFICES ASSUME IInv, [Next]_vars PROVE IInv'
  OBVIOUS
<1> USE MailboxAssumption DEF IInv, Out, Status, loop, peer
<1>1. CASE \E k \in Caller : CheckRunning(k) \/ GiveUp(k)
  BY <1>1 DEF CheckRunning, GiveUp
<1>2. CASE \E k \in Caller : QueueMessage(k)
  BY <1>2 DEF QueueMessage
<1>3. CASE Start \/ Exit
  BY <1>3 DEF Start, Exit
<1>4. CASE Settle
  BY <1>4 DEF Settle, Settled
<1>5. CASE Take
  BY <1>5 DEF Take, Oldest
<1>6. CASE SendWire
  BY <1>6, FrameTypes DEF SendWire
<1>7. CASE RecordOutcome
  BY <1>7 DEF RecordOutcome, StillSending
<1>8. CASE ReceiveFrame
  <2>1. PICK f \in frames : (ReceiveStatus(f) \/ ReceiveUser(f)) /\ frames' = frames \ {f}
    BY <1>8 DEF ReceiveFrame
  <2>2. UNCHANGED <<queued, admitted, pc, row, outcome, got>>
    BY <1>8 DEF ReceiveFrame
  <2>3. CASE ReceiveStatus(f)
    BY <2>1, <2>2, <2>3, FrameTypes DEF ReceiveStatus
  <2>4. CASE ReceiveUser(f)
    BY <2>1, <2>2, <2>4 DEF ReceiveUser
  <2>5. QED
    BY <2>1, <2>3, <2>4
<1>9. CASE PeerReports
  BY <1>9 DEF PeerReports, Frame
<1>10. CASE PeerWrites
  BY <1>10 DEF PeerWrites, Frame
<1>11. CASE Lose \/ UNCHANGED vars
  BY <1>11 DEF Lose, vars
<1>12. QED
  BY <1>1, <1>2, <1>3, <1>4, <1>5, <1>6, <1>7, <1>8, <1>9, <1>10, <1>11 DEF Next

\* No message goes over the wire twice, and one that waits has not gone: across
\* crashes of the daemon, receipts that overtake the outcome of the transport,
\* and rows queued after the daemon had gone.
THEOREM NeverSentTwice == Spec => []WireAtMostOnce
<1>1. IInv => WireAtMostOnce
  BY DEF IInv, WireAtMostOnce
<1>2. QED
  BY <1>1, IInvInit, IInvStep, PTL DEF Spec

\* Every variable keeps its range.
LEMMA TypeStep == IInv /\ TypeOK /\ [Next]_vars => TypeOK'
<1> SUFFICES ASSUME IInv, TypeOK, [Next]_vars PROVE TypeOK'
  OBVIOUS
<1> USE MailboxAssumption DEF TypeOK, loop, peer
<1>1. CASE \E k \in Caller : CheckRunning(k) \/ GiveUp(k)
  BY <1>1 DEF CheckRunning, GiveUp
<1>2. CASE \E k \in Caller : QueueMessage(k)
  BY <1>2 DEF QueueMessage, Out
<1>3. CASE Start \/ Exit
  BY <1>3 DEF Start, Exit
<1>4. CASE Settle
  BY <1>4 DEF Settle, Settled
<1>5. CASE Take
  BY <1>5 DEF Take, Oldest, Out
<1>6. CASE SendWire
  BY <1>6 DEF SendWire
<1>7. CASE RecordOutcome
  BY <1>7 DEF RecordOutcome, StillSending, IInv
<1>8. CASE ReceiveFrame
  <2>1. PICK f \in frames : (ReceiveStatus(f) \/ ReceiveUser(f)) /\ frames' = frames \ {f}
    BY <1>8 DEF ReceiveFrame
  <2>2. UNCHANGED <<queued, admitted, pc, row, outcome, exits, got, told, said>>
    BY <1>8 DEF ReceiveFrame
  <2>3. f \in Frame
    BY <2>1
  <2>4. CASE ReceiveStatus(f)
    <3>1. f.of \in Out /\ f.status \in Receipt
      BY <2>3, <2>4, FrameTypes DEF ReceiveStatus
    <3>2. [dir |-> "receipt", id |-> NoId, thread |-> Own, re |-> f.of, status |-> f.status] \in RowType
      BY <3>1 DEF RowType
    <3>3. log' \in Seq(RowType)
      BY <2>4, <3>2 DEF ReceiveStatus
    <3>4. /\ status' \in [Out -> {"none", "queued", "sending", "sent", "unknown"} \cup Receipt]
          /\ \A m \in Out : status'[m] = "none" <=> m > queued'
      BY <2>2, <2>4, <3>1, FrameTypes DEF ReceiveStatus
    <3>5. QED
      BY <2>1, <2>2, <3>3, <3>4
  <2>5. CASE ReceiveUser(f)
    <3>1. f.type = "user" => f.id \in InId /\ f.thread \in Thread /\ f.re \in Out \cup {0}
      BY <2>3 DEF Frame
    <3>2. [dir |-> "in", id |-> f.id, thread |-> f.thread, re |-> f.re, status |-> "received"] \in RowType
      BY <2>5, <3>1 DEF ReceiveUser, RowType
    <3>3. log' \in Seq(RowType)
      BY <2>5, <3>2 DEF ReceiveUser
    <3>4. QED
      BY <2>1, <2>2, <2>5, <3>3 DEF ReceiveUser
  <2>6. QED
    BY <2>1, <2>4, <2>5
<1>9. CASE PeerReports
  <2>1. PICK m \in 1..queued, s \in Receipt :
          /\ told' = [told EXCEPT ![m] = @ \cup {s}]
          /\ frames' = frames \cup {[type |-> "control", of |-> m, status |-> s]}
    BY <1>9 DEF PeerReports
  <2>2. m \in Out
    BY DEF Out
  <2>3. [type |-> "control", of |-> m, status |-> s] \in Frame
    BY <2>2 DEF Frame
  <2>4. told' \in [Out -> SUBSET Receipt] /\ frames' \subseteq Frame
    BY <2>1, <2>2, <2>3
  <2>5. UNCHANGED <<queued, status, log, admitted, loop, got, said>>
    BY <1>9 DEF PeerReports
  <2>6. QED
    BY <2>4, <2>5
<1>10. CASE PeerWrites
  <2>1. PICK id \in InId, t \in Thread, re \in {m \in Out : got[m] > 0} \cup {0} :
          frames' = frames \cup {[type |-> "user", id |-> id, thread |-> t, re |-> re]}
    BY <1>10 DEF PeerWrites
  <2>2. [type |-> "user", id |-> id, thread |-> t, re |-> re] \in Frame
    BY DEF Frame
  <2>3. QED
    BY <1>10, <2>1, <2>2 DEF PeerWrites
<1>11. CASE Lose \/ UNCHANGED vars
  BY <1>11 DEF Lose, vars
<1>12. QED
  BY <1>1, <1>2, <1>3, <1>4, <1>5, <1>6, <1>7, <1>8, <1>9, <1>10, <1>11 DEF Next

\* The mailbox starts empty.
LEMMA TypeInit == Init => TypeOK
  BY MailboxAssumption DEF Init, TypeOK, Out

\* Type correctness of the mailbox: its table, its log, its loop and the frames.
THEOREM TypeCorrect == Spec => []TypeOK
  BY TypeInit, TypeStep, IInvInit, IInvStep, PTL DEF Spec

\* A message with a receipt has a status that only another receipt changes.
ReceiptKnown == \A i \in 1..Len(log) : log[i].dir = "receipt" => status[log[i].re] \in Receipt

\* Receipts are final for everybody else: the loop writes over 'queued' and
\* 'sending' only, and a restart over 'sending' only.
LEMMA ReceiptStep ==
  ASSUME TypeOK, IInv, ReceiptKnown, ReceiptWins, [Next]_vars PROVE ReceiptKnown' /\ ReceiptWins'
<1> USE FrameTypes, MailboxAssumption
<1>0. /\ log \in Seq(RowType) /\ status \in [Out -> Status] /\ queued \in 0..MaxOut
      /\ \A m \in Out : status[m] = "none" <=> m > queued
      /\ \A i \in 1..Len(log) : log[i].dir = "receipt" => log[i].re \in Out
  BY DEF TypeOK, IInv, RowType
<1>1. CASE /\ UNCHANGED log
           /\ \A m \in Out : status[m] \in Receipt => status'[m] = status[m]
  BY <1>0, <1>1 DEF ReceiptKnown, ReceiptWins, ReceiptsOf
<1>2. CASE ReceiveFrame
  <2>1. PICK f \in frames : ReceiveStatus(f) \/ ReceiveUser(f)
    BY <1>2 DEF ReceiveFrame
  <2>2. CASE ReceiveStatus(f)
    <3>1. f.of \in Out /\ f.status \in Receipt
      BY <2>2, FrameTypes DEF ReceiveStatus, TypeOK
    <3>2. /\ Len(log') = Len(log) + 1
          /\ \A i \in 1..Len(log) : log'[i] = log[i]
          /\ log'[Len(log) + 1].dir = "receipt" /\ log'[Len(log) + 1].re = f.of
          /\ log'[Len(log) + 1].status = f.status
      BY <1>0, <2>2 DEF ReceiveStatus
    <3>3. status' = [status EXCEPT ![f.of] = f.status]
      BY <2>2 DEF ReceiveStatus
    <3>4. ReceiptKnown'
      BY <1>0, <3>1, <3>2, <3>3 DEF ReceiptKnown
    <3>5. ReceiptWins'
      <4> SUFFICES ASSUME NEW m \in Out, NEW i \in ReceiptsOf(m)', \A j \in ReceiptsOf(m)' : j <= i
                   PROVE  status'[m] = log'[i].status
        BY DEF ReceiptWins
      <4>1. CASE m = f.of
        <5>1. Len(log) + 1 \in ReceiptsOf(m)'
          BY <1>0, <3>2, <4>1 DEF ReceiptsOf
        <5>2. i = Len(log) + 1
          BY <1>0, <3>2, <5>1 DEF ReceiptsOf
        <5>3. QED
          BY <1>0, <3>1, <3>2, <3>3, <4>1, <5>2
      <4>2. CASE m # f.of
        <5>1. ReceiptsOf(m)' = ReceiptsOf(m) /\ log'[i] = log[i]
          BY <1>0, <3>2, <4>2 DEF ReceiptsOf
        <5>2. QED
          BY <1>0, <3>1, <3>3, <4>2, <5>1 DEF ReceiptWins
      <4>3. QED
        BY <4>1, <4>2
    <3>6. QED
      BY <3>4, <3>5
  <2>3. CASE ReceiveUser(f)
    <3>1. /\ Len(log') >= Len(log) /\ Len(log') \in Nat
          /\ \A i \in 1..Len(log) : log'[i] = log[i]
          /\ \A i \in 1..Len(log') : i > Len(log) => log'[i].dir = "in"
      BY <1>0, <2>3 DEF ReceiveUser
    <3>2. UNCHANGED status
      BY <2>3 DEF ReceiveUser
    <3>3. \A m \in Out : ReceiptsOf(m)' = ReceiptsOf(m)
      BY <1>0, <3>1 DEF ReceiptsOf
    <3>4. \A m \in Out : \A i \in ReceiptsOf(m) : log'[i] = log[i]
      BY <3>1 DEF ReceiptsOf
    <3>5. ReceiptWins'
      BY <3>2, <3>3, <3>4 DEF ReceiptWins
    <3>6. ReceiptKnown'
      BY <1>0, <3>1, <3>2 DEF ReceiptKnown
    <3>7. QED
      BY <3>5, <3>6
  <2>4. QED
    BY <2>1, <2>2, <2>3
<1>3. CASE \E k \in Caller : QueueMessage(k)
  <2>1. \A m \in Out : status[m] \in Receipt => status'[m] = status[m]
    BY <1>0, <1>3 DEF QueueMessage, Out
  <2>2. QED
    BY <1>1, <1>3, <2>1 DEF QueueMessage
<1>4. CASE Settle \/ Take \/ RecordOutcome
  <2>1. \A m \in Out : status[m] \in Receipt => status'[m] = status[m]
    BY <1>0, <1>4 DEF Settle, Settled, Take, Oldest, RecordOutcome, StillSending
  <2>2. QED
    BY <1>1, <1>4, <2>1 DEF Settle, Take, RecordOutcome
<1>5. CASE \/ \E k \in Caller : CheckRunning(k) \/ GiveUp(k)
           \/ Start \/ SendWire \/ Exit \/ PeerReports \/ PeerWrites \/ Lose \/ UNCHANGED vars
  BY <1>1, <1>5 DEF CheckRunning, GiveUp, Start, SendWire, Exit, PeerReports, PeerWrites, Lose, vars, loop, peer
<1>6. QED
  BY <1>2, <1>3, <1>4, <1>5 DEF Next

\* The last receipt decides the status of a message for ever, in whatever order
\* handler threads and send loop run.
THEOREM LastReceiptWins == Spec => []ReceiptWins
<1>1. Init => ReceiptKnown /\ ReceiptWins
  BY DEF Init, ReceiptKnown, ReceiptWins, ReceiptsOf
<1>2. QED
  BY <1>1, ReceiptStep, TypeInit, TypeStep, IInvInit, IInvStep, PTL DEF Spec

\* The row the loop is sending is the oldest one that waits.
Foremost == pc \in {"sending", "record"} => \A k \in 1..(row - 1) : status[k] # "queued"

\* Nothing is queued below a row that is already there.
LEMMA ForemostStep == ASSUME IInv, Foremost, [Next]_vars PROVE Foremost'
<1> USE MailboxAssumption, FrameTypes DEF IInv, Foremost, Out, Status, loop, peer
<1>1. CASE \E k \in Caller : QueueMessage(k)
  <2>1. /\ UNCHANGED <<pc, row>>
        /\ \A m \in Out : m <= queued => status'[m] = status[m]
    BY <1>1 DEF QueueMessage
  <2>2. pc \in {"sending", "record"} => row <= queued
    BY DEF IInv
  <2>3. QED
    BY <2>1, <2>2
<1>2. CASE Take
  BY <1>2 DEF Take, Oldest
<1>3. CASE ReceiveFrame
  <2>1. PICK f \in frames : ReceiveStatus(f) \/ ReceiveUser(f)
    BY <1>3 DEF ReceiveFrame
  <2>2. \A m \in Out : status'[m] = "queued" => status[m] = "queued"
    BY <2>1 DEF ReceiveStatus, ReceiveUser
  <2>3. QED
    BY <1>3, <2>2 DEF ReceiveFrame
<1>4. CASE Start \/ Settle \/ RecordOutcome \/ Exit
  BY <1>4 DEF Start, Settle, RecordOutcome, Exit
<1>5. CASE \/ \E k \in Caller : CheckRunning(k) \/ GiveUp(k)
           \/ SendWire \/ PeerReports \/ PeerWrites \/ Lose \/ UNCHANGED vars
  BY <1>5 DEF CheckRunning, GiveUp, SendWire, PeerReports, PeerWrites, Lose, vars
<1>6. QED
  BY <1>1, <1>2, <1>3, <1>4, <1>5 DEF Next

\* Messages go over the wire in the order in which they were queued.
THEOREM SentInOrder == Spec => QueueOrder
<1>1. Init => Foremost
  BY DEF Init, Foremost
<1>2. ASSUME IInv, Foremost, [Next]_vars,
             NEW m \in Out, got'[m] > got[m], NEW k \in 1..(m - 1)
      PROVE  status[k] # "queued"
  <2>1. UNCHANGED got => FALSE
    BY <1>2 DEF IInv
  <2>2. SendWire
    BY <1>2, <2>1 DEF Next, CheckRunning, GiveUp, QueueMessage, Start, Settle, Take, RecordOutcome, Exit,
       ReceiveFrame, PeerReports, PeerWrites, Lose, loop, peer, vars
  <2>3. m = row
    BY <1>2, <2>2 DEF SendWire, IInv
  <2>4. QED
    BY <1>2, <2>2, <2>3 DEF SendWire, Foremost
<1>3. IInv /\ Foremost /\ [Next]_vars
        => [\A m \in Out : got'[m] > got[m] => \A k \in 1..(m - 1) : status[k] # "queued"]_vars
  BY <1>2
<1>4. QED
  BY <1>1, <1>3, ForemostStep, IInvInit, IInvStep, PTL DEF Spec, QueueOrder
-----------------------------------------------------------------------------
(* The mailbox implements DeliveryOnce. *)

\* The phase of a message, without its CASE.
LEMMA PhaseOf ==
  \A m \in Out : /\ Phase(m) = "absent"   <=> status[m] = "none"
                 /\ Phase(m) = "pending"  <=> status[m] = "queued"
                 /\ Phase(m) = "inflight" <=> status[m] = "sending"
                 /\ Phase(m) = "settled"  <=> status[m] \notin {"none", "queued", "sending"}
  BY DEF Phase

\* How a step may move one message, in terms of its row.
Allowed(m) ==
  \/ got'[m] = got[m] /\ status'[m] = status[m]
  \/ /\ got'[m] = got[m]
     /\ \/ status[m] = "none" /\ status'[m] = "queued"
        \/ status[m] = "queued" /\ status'[m] = "sending" /\ got[m] = 0
        \/ status[m] \notin {"none", "queued"} /\ status'[m] \notin {"none", "queued", "sending"}
  \/ status[m] = "sending" /\ status'[m] = "sending" /\ got[m] = 0 /\ got'[m] = 1

\* Every step moves every message in one of these ways.
LEMMA MessagesAllowed == ASSUME IInv, [Next]_vars, NEW m \in Out PROVE Allowed(m)
<1> USE MailboxAssumption DEF IInv, Allowed, loop, peer
<1>1. CASE \E k \in Caller : QueueMessage(k)
  BY <1>1 DEF QueueMessage, Out
<1>2. CASE Settle
  BY <1>2 DEF Settle, Settled
<1>3. CASE Take
  BY <1>3 DEF Take, Oldest
<1>4. CASE SendWire
  BY <1>4 DEF SendWire
<1>5. CASE RecordOutcome
  BY <1>5 DEF RecordOutcome
<1>6. CASE ReceiveFrame
  <2>1. PICK f \in frames : ReceiveStatus(f) \/ ReceiveUser(f)
    BY <1>6 DEF ReceiveFrame
  <2>2. UNCHANGED got
    BY <1>6 DEF ReceiveFrame
  <2>3. CASE ReceiveStatus(f)
    BY <2>1, <2>2, <2>3, FrameTypes DEF ReceiveStatus
  <2>4. CASE ReceiveUser(f)
    BY <2>2, <2>4 DEF ReceiveUser
  <2>5. QED
    BY <2>1, <2>3, <2>4
<1>7. CASE \/ \E k \in Caller : CheckRunning(k) \/ GiveUp(k)
           \/ Start \/ Exit \/ PeerReports \/ PeerWrites \/ Lose \/ UNCHANGED vars
  BY <1>7 DEF CheckRunning, GiveUp, Start, Exit, PeerReports, PeerWrites, Lose, vars
<1>8. QED
  BY <1>1, <1>2, <1>3, <1>4, <1>5, <1>6, <1>7 DEF Next

\* One allowed move is a step of that message in DeliveryOnce.
LEMMA MessageStep == ASSUME NEW m \in Out, Allowed(m), got[m] \in Nat PROVE Once!MsgStep(m)
<1>1. /\ [k \in Out |-> Phase(k)][m] = Phase(m)
      /\ [k \in Out |-> Phase(k)]'[m] = Phase(m)'
  OBVIOUS
<1>2. QED
  BY <1>1, PhaseOf DEF Allowed, Once!MsgStep, Once!Keep, Once!Queue, Once!Try, Once!Hand, Once!Defer, Once!Settle,
     Once!Cancel, Once!Move, Phase

\* The mailbox hands every message over at most once and its outcome is final:
\* no restart and no receipt sends a settled message again.
THEOREM MailboxDeliversOnce == Spec => DeliversOnce
<1>1. Init => Once!Init
  BY PhaseOf DEF Init, Once!Init
<1>2. IInv /\ [Next]_vars => [Once!Next]_Once!vars
  <2> SUFFICES ASSUME IInv, [Next]_vars, NEW m \in Out PROVE Once!MsgStep(m)
    BY DEF Once!Next
  <2>1. got[m] \in Nat
    BY DEF IInv
  <2>2. QED
    BY <2>1, MessagesAllowed, MessageStep
<1>3. QED
  BY <1>1, <1>2, IInvInit, IInvStep, PTL DEF Spec, DeliversOnce, Once!Spec

-----------------------------------------------------------------------------
(* The log. *)

\* Rows are added at the end of the log, at most one by a step.
LEMMA LogGrows ==
  ASSUME TypeOK, [Next]_vars
  PROVE  /\ Len(log) \in Nat /\ Len(log') \in Nat /\ Len(log') >= Len(log)
         /\ \A i \in 1..Len(log) : log'[i] = log[i]
<1>1. log' = log \/ \E e : log' = Append(log, e)
  BY DEF Next, vars, loop, peer, CheckRunning, GiveUp, QueueMessage, Start, Settle, Take, SendWire, RecordOutcome,
     Exit, ReceiveFrame, ReceiveStatus, ReceiveUser, PeerReports, PeerWrites, Lose
<1>2. log \in Seq(RowType)
  BY DEF TypeOK
<1>3. QED
  BY <1>1, <1>2

\* Ids are unique in the log, and the peer refers only to what it was sent.
LogInv ==
  /\ \A i, j \in 1..Len(log) : log[i].id = log[j].id /\ log[i].id # NoId => i = j
  /\ \A i \in 1..Len(log) : log[i].re \in 0..queued
  /\ \A f \in frames : f.type = "user" => f.re \in 0..queued

\* INSERT OR IGNORE keeps ids unique.
LEMMA LogStep == ASSUME IInv, TypeOK, LogInv, [Next]_vars PROVE LogInv'
<1>0. /\ queued \in Nat /\ queued' \in Nat /\ queued' >= queued /\ log \in Seq(RowType)
  BY MailboxAssumption DEF TypeOK, Next, vars, loop, peer, CheckRunning, GiveUp, QueueMessage, Start, Settle, Take,
     SendWire, RecordOutcome, Exit, ReceiveFrame, PeerReports, PeerWrites, Lose
<1>1. ASSUME log' = log, \A f \in frames' : f.type = "user" => f.re \in 0..queued PROVE LogInv'
  BY <1>0, <1>1 DEF LogInv
<1>2. CASE ReceiveFrame
  <2>1. PICK f \in frames : (ReceiveStatus(f) \/ ReceiveUser(f)) /\ frames' = frames \ {f}
    BY <1>2 DEF ReceiveFrame
  <2>2. ASSUME NEW e, log' = Append(log, e), e.id = NoId \/ Unseen(e.id), e.re \in 0..queued
        PROVE  LogInv'
    <3>1. /\ Len(log) \in Nat /\ Len(log') = Len(log) + 1 /\ log'[Len(log) + 1] = e
          /\ \A i \in 1..Len(log) : log'[i] = log[i]
      BY <1>0, <2>2
    <3>2. ASSUME NEW i \in 1..Len(log'), NEW j \in 1..Len(log'), log'[i].id = log'[j].id, log'[i].id # NoId
          PROVE  i = j
      <4>1. CASE i \in 1..Len(log) /\ j \in 1..Len(log)
        BY <3>1, <3>2, <4>1 DEF LogInv
      <4>2. CASE i \in 1..Len(log) /\ j = Len(log) + 1
        BY <2>2, <3>1, <3>2, <4>2 DEF Unseen
      <4>3. CASE i = Len(log) + 1 /\ j \in 1..Len(log)
        BY <2>2, <3>1, <3>2, <4>3 DEF Unseen
      <4>4. QED
        BY <3>1, <4>1, <4>2, <4>3
    <3>3. ASSUME NEW i \in 1..Len(log') PROVE log'[i].re \in 0..queued'
      <4>1. i \in 1..Len(log) \/ i = Len(log) + 1
        BY <3>1
      <4>2. log'[i].re \in 0..queued
        BY <2>2, <3>1, <4>1 DEF LogInv
      <4>3. QED
        BY <1>0, <4>2
    <3>4. \A g \in frames' : g.type = "user" => g.re \in 0..queued'
      BY <1>0, <2>1 DEF LogInv
    <3>5. QED
      BY <3>2, <3>3, <3>4 DEF LogInv
  <2>3. CASE ReceiveStatus(f)
    <3>1. f.of \in Out /\ status[f.of] # "none"
      BY <2>1, <2>3, FrameTypes DEF ReceiveStatus, TypeOK
    <3>2. f.of \in 0..queued
      BY <1>0, <3>1, MailboxAssumption DEF IInv, Out
    <3>3. QED
      BY <2>2, <2>3, <3>2 DEF ReceiveStatus
  <2>4. CASE ReceiveUser(f) /\ Unseen(f.id)
    BY <2>1, <2>2, <2>4 DEF ReceiveUser, LogInv
  <2>5. CASE ReceiveUser(f) /\ ~Unseen(f.id)
    BY <1>1, <2>1, <2>5 DEF ReceiveUser, LogInv
  <2>6. QED
    BY <2>1, <2>3, <2>4, <2>5
<1>3. CASE PeerReports \/ Lose
  BY <1>1, <1>3 DEF PeerReports, Lose, LogInv
<1>4. CASE PeerWrites
  <2>1. PICK id \in InId, t \in Thread, re \in {m \in Out : got[m] > 0} \cup {0} :
          frames' = frames \cup {[type |-> "user", id |-> id, thread |-> t, re |-> re]}
    BY <1>4 DEF PeerWrites
  <2>2. re \in 0..queued
    BY <1>0, MailboxAssumption DEF IInv, Out
  <2>3. QED
    BY <1>1, <1>4, <2>1, <2>2 DEF PeerWrites, LogInv
<1>5. CASE ~ReceiveFrame /\ ~PeerReports /\ ~Lose /\ ~PeerWrites
  BY <1>1, <1>5 DEF LogInv, Next, vars, loop, peer, CheckRunning, GiveUp, QueueMessage, Start, Settle, Take, SendWire,
     RecordOutcome, Exit
<1>6. QED
  BY <1>2, <1>3, <1>4, <1>5

\* Only a receipt gives a message the status of a receipt.
HasReceipt == \A m \in Out : status[m] \in Receipt => ReceiptsOf(m) # {}

\* The loop and a restart write statuses of the transport.
LEMMA HasReceiptStep == ASSUME IInv, TypeOK, HasReceipt, [Next]_vars PROVE HasReceipt'
<1>0. /\ status \in [Out -> Status] /\ log \in Seq(RowType) /\ outcome \in {"none", "sent", "unknown"}
      /\ {"none", "queued", "sending", "sent", "unknown"} \cap Receipt = {}
  BY MailboxAssumption DEF IInv, TypeOK
<1>1. \A m \in Out : ReceiptsOf(m) # {} => ReceiptsOf(m)' # {}
  BY LogGrows DEF ReceiptsOf
<1>2. ASSUME \A m \in Out : status'[m] = status[m] \/ status'[m] \notin Receipt PROVE HasReceipt'
  BY <1>1, <1>2 DEF HasReceipt
<1>3. ASSUME NEW f \in frames, ReceiveStatus(f) PROVE HasReceipt'
  <2>1. f.of \in Out
    BY <1>3, FrameTypes DEF ReceiveStatus, TypeOK
  <2>2. ReceiptsOf(f.of)' # {}
    BY <1>0, <1>3 DEF ReceiveStatus, ReceiptsOf
  <2>3. status' = [status EXCEPT ![f.of] = f.status]
    BY <1>3 DEF ReceiveStatus
  <2>4. QED
    BY <1>0, <1>1, <2>1, <2>2, <2>3 DEF HasReceipt
<1>4. ASSUME NEW f \in frames, ReceiveUser(f) PROVE HasReceipt'
  BY <1>2, <1>4 DEF ReceiveUser
<1>5. CASE \E k \in Caller : QueueMessage(k)
  BY <1>0, <1>2, <1>5 DEF QueueMessage
<1>6. CASE Settle \/ Take
  BY <1>0, <1>2, <1>6 DEF Settle, Settled, Take
<1>7. CASE RecordOutcome
  BY <1>0, <1>2, <1>7 DEF RecordOutcome, StillSending
<1>8. CASE \/ \E k \in Caller : CheckRunning(k) \/ GiveUp(k)
           \/ Start \/ SendWire \/ Exit \/ PeerReports \/ PeerWrites \/ Lose \/ UNCHANGED vars
  BY <1>2, <1>8 DEF CheckRunning, GiveUp, Start, SendWire, Exit, PeerReports, PeerWrites, Lose, vars, loop, peer
<1>9. QED
  BY <1>3, <1>4, <1>5, <1>6, <1>7, <1>8 DEF Next, ReceiveFrame
=============================================================================

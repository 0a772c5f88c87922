------------------------------- MODULE Mailbox -------------------------------
(***************************************************************************)
(* The mailbox of one enrolled Claude session (relay.py): the table        *)
(* messages, the callers of queue_message, the daemon's send loop (serve)  *)
(* and its handler threads (receive_frame).  Every connection of the peer  *)
(* has a thread of its own, so its frames are handled in any order, also   *)
(* between the steps of the send loop.                                     *)
(***************************************************************************)
EXTENDS Naturals, Sequences

CONSTANTS
  Caller,     \* processes and threads that call queue_message
  Thread,     \* threads a frame of the peer can name, "no thread" among them
  Own,        \* the thread of the messages queued here
  MaxOut,     \* bound: messages that are queued
  Receipt,    \* statuses the peer reports
  InId,       \* message ids the peer chooses
  NoId,       \* as one of them: no msg_id, the relay draws a fresh one
  MaxIn,      \* bound: user frames the peer sends
  MaxExits    \* bound: crashes and stops of the daemon

ASSUME MailboxAssumption ==
  /\ MaxOut \in Nat /\ MaxIn \in Nat /\ MaxExits \in Nat
  /\ Receipt \subseteq {"held", "denied", "expired", "delivered", "dropped"}
  /\ Own \in Thread

Out   == 1..MaxOut
Frame == [type : {"control"}, of : Out, status : Receipt]
           \cup [type : {"user"}, id : InId, thread : Thread, re : Out \cup {0}]

VARIABLES
  queued,     \* number of out rows; they are numbered in the order of seq
  status,     \* their status column
  log,        \* the rows with direction 'receipt' and 'in', in the order of seq
  admitted,   \* callers of queue_message past their check of daemon_status
  pc,         \* send loop: "down", "settle", "idle", "sending" or "record"
  row,        \* the row the loop is sending
  outcome,    \* what send_wire came to
  exits,
  got,        \* peer: how often it received each message
  frames,     \* peer: frames on their way to a handler thread
  told, said  \* peer: receipts sent for each message, user frames sent

loop == <<pc, row, outcome, exits>>
peer == <<got, frames, told, said>>
vars == <<queued, status, log, admitted, loop, peer>>

Init ==
  /\ queued = 0 /\ status = [m \in Out |-> "none"] /\ log = <<>> /\ admitted = {}
  /\ pc = "down" /\ row = 0 /\ outcome = "none" /\ exits = 0
  /\ got = [m \in Out |-> 0] /\ frames = {} /\ told = [m \in Out |-> {}] /\ said = 0

(***************************************************************************)
(* queue_message: the check and the insert are two steps.                  *)
(***************************************************************************)

CheckRunning(k) ==
  /\ pc # "down" /\ k \notin admitted
  /\ admitted' = admitted \cup {k}
  /\ UNCHANGED <<queued, status, log, loop, peer>>

\* The message is refused, or the caller dies, after the check.
GiveUp(k) ==
  /\ k \in admitted
  /\ admitted' = admitted \ {k}
  /\ UNCHANGED <<queued, status, log, loop, peer>>

\* The daemon may be gone by now: the row then waits for the next one.
QueueMessage(k) ==
  /\ k \in admitted /\ queued < MaxOut
  /\ admitted' = admitted \ {k}
  /\ queued' = queued + 1
  /\ status' = [status EXCEPT ![queued + 1] = "queued"]
  /\ UNCHANGED <<log, loop, peer>>

(***************************************************************************)
(* The daemon.  daemon.lock admits one at a time.                          *)
(***************************************************************************)

\* The listener accepts frames before 'sending' rows are settled.
Start ==
  /\ pc = "down"
  /\ pc' = "settle"
  /\ UNCHANGED <<queued, status, log, admitted, row, outcome, exits, peer>>

SettleNothing  == status
SettleByResend == [m \in Out |-> IF status[m] = "sending" THEN "queued" ELSE status[m]]
Settled        == [m \in Out |-> IF status[m] = "sending" THEN "unknown" ELSE status[m]]

\* A crash during send is ambiguous: never send again.
Settle ==
  /\ pc = "settle"
  /\ status' = Settled
  /\ pc' = "idle"
  /\ UNCHANGED <<queued, log, admitted, row, outcome, exits, peer>>

AnyQueued(m) == status[m] = "queued"
Oldest(m)    == status[m] = "queued" /\ \A k \in 1..(m - 1) : status[k] # "queued"

\* Only the loop moves a row out of 'queued', so its SELECT and UPDATE are one step.
Take ==
  /\ pc = "idle"
  /\ \E m \in 1..queued :
       /\ Oldest(m)
       /\ status' = [status EXCEPT ![m] = "sending"]
       /\ row' = m
  /\ pc' = "sending"
  /\ UNCHANGED <<queued, log, admitted, outcome, exits, peer>>

\* send_wire: it raises before or after the frame went out, or sees the peer's
\* EOF.  The peer may answer before the outcome is recorded.
SendWire ==
  /\ pc = "sending"
  /\ \/ outcome' \in {"sent", "unknown"} /\ got' = [got EXCEPT ![row] = @ + 1]
     \/ outcome' = "unknown" /\ UNCHANGED got
  /\ pc' = "record"
  /\ UNCHANGED <<queued, status, log, admitted, row, exits, frames, told, said>>

RecordAlways(m)   == TRUE
StillSending(m)   == status[m] = "sending"

RecordOutcome ==
  /\ pc = "record"
  /\ status' = IF StillSending(row) THEN [status EXCEPT ![row] = outcome] ELSE status
  /\ pc' = "idle" /\ row' = 0 /\ outcome' = "none"
  /\ UNCHANGED <<queued, log, admitted, exits, peer>>

\* The process is killed anywhere, or told to stop between two messages.
Exit ==
  /\ pc # "down" /\ exits < MaxExits
  /\ pc' = "down" /\ row' = 0 /\ outcome' = "none" /\ exits' = exits + 1
  /\ UNCHANGED <<queued, status, log, admitted, peer>>

(***************************************************************************)
(* receive_frame: one transaction per frame.                               *)
(***************************************************************************)

\* A receipt for a message that this mailbox sent.
ReceiveStatus(f) ==
  /\ f.type = "control"
  /\ status[f.of] # "none"
  /\ status' = [status EXCEPT ![f.of] = f.status]
  /\ log' = Append(log, [dir |-> "receipt", id |-> NoId, thread |-> Own, re |-> f.of, status |-> f.status])

Unseen(id) == id = NoId \/ \A i \in 1..Len(log) : log[i].id # id

\* INSERT OR IGNORE: a message id that is already there is dropped.
ReceiveUser(f) ==
  /\ f.type = "user"
  /\ log' = IF Unseen(f.id) THEN Append(log, [dir |-> "in", id |-> f.id, thread |-> f.thread, re |-> f.re,
                              status |-> "received"])
            ELSE log
  /\ UNCHANGED status

ReceiveFrame ==
  /\ pc # "down"
  /\ \E f \in frames :
       /\ ReceiveStatus(f) \/ ReceiveUser(f)
       /\ frames' = frames \ {f}
  /\ UNCHANGED <<queued, admitted, loop, got, told, said>>

(***************************************************************************)
(* The peer, a Claude Code process.                                        *)
(***************************************************************************)

PeerReports ==
  \E m \in 1..queued, s \in Receipt :
    /\ got[m] > 0 /\ s \notin told[m]
    /\ told' = [told EXCEPT ![m] = @ \cup {s}]
    /\ frames' = frames \cup {[type |-> "control", of |-> m, status |-> s]}
    /\ UNCHANGED <<queued, status, log, admitted, loop, got, said>>

\* A new message, an answer, or one that is sent again with the same id.
PeerWrites ==
  /\ said < MaxIn
  /\ said' = said + 1
  /\ \E id \in InId, t \in Thread, re \in {m \in Out : got[m] > 0} \cup {0} :
       frames' = frames \cup {[type |-> "user", id |-> id, thread |-> t, re |-> re]}
  /\ UNCHANGED <<queued, status, log, admitted, loop, got, told>>

\* No listener, a timeout, a connection that dies: the frame is lost.
Lose ==
  /\ \E f \in frames : frames' = frames \ {f}
  /\ UNCHANGED <<queued, status, log, admitted, loop, got, told, said>>
-----------------------------------------------------------------------------
Next ==
  \/ \E k \in Caller : CheckRunning(k) \/ GiveUp(k) \/ QueueMessage(k)
  \/ Start \/ Settle \/ Take \/ SendWire \/ RecordOutcome \/ Exit
  \/ ReceiveFrame \/ PeerReports \/ PeerWrites \/ Lose

Spec == Init /\ [][Next]_vars

\* The loop runs on its own, and Connection.maintain restores a missing daemon.
Fairness ==
  WF_vars(Start) /\ WF_vars(Settle) /\ WF_vars(Take) /\ WF_vars(SendWire) /\ WF_vars(RecordOutcome)

FairSpec == Spec /\ Fairness
-----------------------------------------------------------------------------
Phase(m) == CASE status[m] = "none"    -> "absent"
              [] status[m] = "queued"  -> "pending"
              [] status[m] = "sending" -> "inflight"
              [] OTHER                 -> "settled"

Once == INSTANCE DeliveryOnce
          WITH Message <- Out, phase <- [m \in Out |-> Phase(m)], handed <- got

\* The mailbox, too, hands every message over at most once and settles it for
\* good: "it never retries automatically" (docs/protocol.md).
DeliversOnce == Once!Spec

RowType ==
  [dir : {"receipt"}, id : {NoId}, thread : {Own}, re : Out, status : Receipt]
    \cup [dir : {"in"}, id : InId, thread : Thread, re : Out \cup {0}, status : {"received"}]

\* Every variable keeps its range, and a row has a status exactly when it exists.
TypeOK ==
  /\ queued \in 0..MaxOut /\ admitted \subseteq Caller
  /\ status \in [Out -> {"none", "queued", "sending", "sent", "unknown"} \cup Receipt]
  /\ \A m \in Out : status[m] = "none" <=> m > queued
  /\ log \in Seq(RowType)
  /\ pc \in {"down", "settle", "idle", "sending", "record"}
  /\ row \in Out \cup {0} /\ outcome \in {"none", "sent", "unknown"} /\ exits \in Nat
  /\ got \in [Out -> Nat] /\ frames \subseteq Frame
  /\ told \in [Out -> SUBSET Receipt] /\ said \in Nat

\* A message that waits, or whose attempt has not reached the wire, was not
\* received, and none is received twice: "A crash during send is ambiguous:
\* never automatically send twice" (serve).
WireAtMostOnce ==
  \A m \in Out : got[m] <= 1 /\ (status[m] = "queued" \/ (pc = "sending" /\ row = m) => got[m] = 0)

ReceiptsOf(m) == {i \in 1..Len(log) : log[i].dir = "receipt" /\ log[i].re = m}

\* The last receipt decides: neither the outcome of the transport, which may be
\* recorded later, nor a restart overwrites it.
ReceiptWins ==
  \A m \in Out : \A i \in ReceiptsOf(m) :
    (\A j \in ReceiptsOf(m) : j <= i) => status[m] = log[i].status

\* Messages go over the wire in the order they were queued, also across
\* restarts and for a row queued after its daemon had gone.
QueueOrder ==
  [][\A m \in Out : got'[m] > got[m] => \A k \in 1..(m - 1) : status[k] # "queued"]_vars

\* Every queued message is attempted and gets an outcome, although the daemon
\* may die before, during and after the attempt.
OutcomeReached ==
  \A m \in Out : status[m] = "queued" ~> status[m] \notin {"queued", "sending"}
=============================================================================

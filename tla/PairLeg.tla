------------------------------- MODULE PairLeg -------------------------------
(***************************************************************************)
(* One Claude leg of a pair: the pair's queue (PairQueue) and the leg's    *)
(* mailbox (Mailbox) together.  They share no transaction.  tick puts a    *)
(* row into the mailbox with queue_message and records the wire id in a    *)
(* later step; _collect reads the mailbox's rows after a cursor in one     *)
(* step and applies them to the pair in another.  Everything that          *)
(* PairQueue leaves open about this leg is determined here.                *)
(***************************************************************************)
EXTENDS PairQueue, Sequences

CONSTANTS
  Leg,                            \* the Claude session of this leg
  Receipt, Thread, Own, InId, NoId, MaxOut, MaxIn, MaxExits,  \* of its mailbox
  Accepted,                       \* threads _collect forwards: Own, and "none" with MCP
  LegPage                         \* rows that read_messages returns at most (LIMIT 200)

ASSUME LegAssumption ==
  /\ Leg \in Claude
  /\ Receipt \subseteq {"held", "denied", "expired", "delivered", "dropped"}
  /\ MaxOut \in Nat /\ MaxIn \in Nat /\ MaxExits \in Nat
  /\ PeerStatus = {"sent", "unknown"} \cup Receipt
  /\ Accepted \subseteq Thread /\ Own \in Accepted
  /\ LegPage \in Nat \ {0}

VARIABLES
  queued, mstatus, log, admitted, mpc, mrow, outcome, exits, got, frames, told, said,  \* Mailbox
  copy,      \* the mailbox row a pair row was put into, 0 before that
  lcursor,   \* pair_meta 'cursor:<key>', as a position in the log
  reading,   \* <<>>, <<cursor>> or <<cursor, end of page>>, by controller
  origin     \* the log row an answer was made from (its uuid5), 0 for the others

box     == <<queued, mstatus, log, admitted, mpc, mrow, outcome, exits, got, frames, told, said>>
own     == <<copy, lcursor, reading, origin>>
legvars == <<vars, box, own>>

Box == INSTANCE Mailbox
         WITH Caller <- Controller, status <- mstatus, pc <- mpc, row <- mrow

LegInit ==
  /\ Init /\ Box!Init
  /\ copy = [s \in Seqs |-> 0] /\ origin = [s \in Seqs |-> 0]
  /\ lcursor = 0 /\ reading = [c \in Controller |-> <<>>]

(***************************************************************************)
(* tick hands a row over.                                                  *)
(***************************************************************************)

ToLeg(c) == pc[c] = "deliver" /\ recipient[pick[c]] = Leg

\* daemon_status, the first line of queue_message.
Admit(c) ==
  /\ ToLeg(c)
  /\ Box!CheckRunning(c)
  /\ UNCHANGED <<vars, own>>

Returned(c, st, wire) ==
  /\ result' = [result EXCEPT ![c] = [status |-> st, wire |-> wire]]
  /\ pc' = [pc EXCEPT ![c] = "finish"]
  /\ UNCHANGED <<enabled, columns, status, wire_id, meta, cursor, pick, seen, todo, legs, control>>

\* The row is in the mailbox; a commit that raises leaves the tick without its id.
HandOver(c) ==
  /\ ToLeg(c)
  /\ Box!QueueMessage(c)
  /\ copy' = [copy EXCEPT ![pick[c]] = queued + 1]
  /\ inputs' = [inputs EXCEPT ![pick[c]] = @ + 1]
  /\ Returned(c, "queued_peer", "mailbox") \/ Returned(c, "unknown", None)
  /\ UNCHANGED <<lcursor, reading, origin>>

\* A call of queue_message that ends without a row.
Withdraw(c) == IF c \in admitted THEN Box!GiveUp(c) ELSE UNCHANGED box

\* The daemon is down, or queue_message raises.
Refuse(c) ==
  /\ ToLeg(c)
  /\ Withdraw(c)
  /\ Returned(c, "unknown", None)
  /\ UNCHANGED <<inputs, own>>

(***************************************************************************)
(* _collect.                                                               *)
(***************************************************************************)

ReadCursor(c) ==
  /\ pc[c] = "collect" /\ Leg \in legs[c] /\ reading[c] = <<>>
  /\ reading' = [reading EXCEPT ![c] = <<lcursor>>]
  /\ UNCHANGED <<vars, box, copy, lcursor, origin>>

\* read_messages: rows of the table that are not in the log ('out') are skipped.
ReadPage(c) ==
  /\ Len(reading[c]) = 1
  /\ LET after == reading[c][1] IN
     \E n \in after..Len(log) :
       /\ n <= after + LegPage
       /\ n = Len(log) \/ n = after + LegPage
       /\ reading' = [reading EXCEPT ![c] = <<after, n>>]
  /\ UNCHANGED <<vars, box, copy, lcursor, origin>>

RowsRead(c) == (reading[c][1] + 1)..reading[c][2]

Copied(s, m)   == recipient[s] = Leg /\ copy[s] = m
\* "WHERE wire_id=? AND recipient=?"
HasWire(s, m)  == recipient[s] = Leg /\ wire_id[s] = "mailbox" /\ copy[s] = m

ReceiptsFor(c, s) == {i \in RowsRead(c) : log[i].dir = "receipt" /\ HasWire(s, log[i].re)}

Latest(rows)      == {i \in rows : \A j \in rows : j <= i}
\* The UPDATEs of the page in its order: the last one stays.
ByReceipt(c, s) ==
  IF Latest(ReceiptsFor(c, s)) = {} THEN status[s]
  ELSE log[CHOOSE i \in Latest(ReceiptsFor(c, s)) : TRUE].status

NotCarried(c, s) == ByReceipt(c, s)
CarryAnything(c, s) ==
  IF ByReceipt(c, s) = "queued_peer" THEN mstatus[copy[s]] ELSE ByReceipt(c, s)
\* A send that failed without a receipt shows in the mailbox only.
Carried(c, s) ==
  IF ByReceipt(c, s) = "queued_peer" /\ mstatus[copy[s]] \notin {"queued", "sending"}
  THEN mstatus[copy[s]] ELSE ByReceipt(c, s)

ForwardAgain(i) == TRUE
SameId(i, j) == i = j \/ (log[i].id = log[j].id /\ log[i].id # NoId)
\* INSERT OR IGNORE: the id of an answer is a function of the mailbox row's id.
NotForwarded(i) == \A s \in 1..last : origin[s] # 0 => ~SameId(i, origin[s])

Forwards(c) ==
  {i \in RowsRead(c) : /\ log[i].dir = "in" /\ log[i].thread \in Accepted
                       /\ (log[i].re = 0 \/ \E s \in 1..last : HasWire(s, log[i].re))
                       /\ NotForwarded(i)}

\* The rows of the page that become pair rows from..n, in the order of the mailbox.
InOrder(f, n, rows) ==
  /\ \A s, t \in (last + 1)..n : s < t => f[s] < f[t]
  /\ \A i \in rows : \E s \in (last + 1)..n : f[s] = i

AnswerTo(m) == IF m = 0 THEN 0 ELSE CHOOSE s \in 1..last : HasWire(s, m)

CursorToEnd(c) == Len(log)
CursorMoves(c) == IF RowsRead(c) = {} THEN lcursor ELSE reading[c][2]

\* One transaction of the pair: receipts, answers, the cursor, carried statuses.
Apply(c) ==
  /\ Len(reading[c]) = 2
  /\ \E n \in last..(MaxSeq - Reserved) : \E from \in [(last + 1)..n -> Forwards(c)] :
       /\ InOrder(from, n, Forwards(c))
       /\ status' = [s \in Seqs |-> IF s \in (last + 1)..n THEN "queued"
                                    ELSE IF s <= last /\ recipient[s] = Leg THEN Carried(c, s) ELSE status[s]]
       /\ sender'    = [s \in Seqs |-> IF s \in (last + 1)..n THEN Leg ELSE sender[s]]
       /\ recipient' = [s \in Seqs |-> IF s \in (last + 1)..n THEN Peer(Leg) ELSE recipient[s]]
       /\ reply_to'  = [s \in Seqs |-> IF s \in (last + 1)..n THEN AnswerTo(log[from[s]].re) ELSE reply_to[s]]
       /\ origin'    = [s \in Seqs |-> IF s \in (last + 1)..n THEN from[s] ELSE origin[s]]
       /\ last' = n
  /\ lcursor' = CursorMoves(c)
  /\ reading' = [reading EXCEPT ![c] = <<>>]
  /\ legs' = [legs EXCEPT ![c] = @ \ {Leg}]
  /\ UNCHANGED <<enabled, wire_id, meta, cursor, pc, pick, seen, todo, result, control, inputs, box, copy>>

(***************************************************************************)
(* Everything else.                                                        *)
(***************************************************************************)

\* A controller that dies, or a tick that ends early, forgets what it read.
Break(c) ==
  /\ Crash(c) \/ Abort(c)
  /\ Withdraw(c)
  /\ reading' = [reading EXCEPT ![c] = <<>>]
  /\ UNCHANGED <<copy, lcursor, origin>>

\* Bound: send leaves room for the answers that the peer may still write.
Room == last + Reserved + (MaxIn - Cardinality({s \in 1..last : origin[s] # 0})) < MaxSeq

\* The steps of PairQueue that do not touch the leg.
QueueStep ==
  /\ \/ Room /\ \E p \in Participant : Send(p)
     \/ \E c \in Controller :
          \/ Notify(c) \/ Start(c) \/ Recover(c) \/ Disconnect(c)
          \/ TickBegin(c) \/ ReconcilePage(c) \/ Observe(c)
          \/ Select(c) \/ Validate(c) \/ Claim(c) \/ Finish(c)
          \/ reading[c] = <<>> /\ \E p \in Claude \ {Leg} : Collect(c, p)
          \/ ~ToLeg(c) /\ Deliver(c)
     \/ RetryCheck \/ RetryApply
  /\ UNCHANGED <<box, own>>

\* The daemon and the peer of the leg.
BoxStep ==
  /\ \/ Box!Start \/ Box!Settle \/ Box!Take \/ Box!SendWire \/ Box!RecordOutcome \/ Box!Exit
     \/ Box!ReceiveFrame \/ Box!PeerReports \/ Box!PeerWrites \/ Box!Lose
  /\ UNCHANGED <<vars, own>>

LegStep(c) ==
  Admit(c) \/ HandOver(c) \/ Refuse(c) \/ ReadCursor(c) \/ ReadPage(c) \/ Apply(c)

LegNext == QueueStep \/ BoxStep \/ \E c \in Controller : LegStep(c) \/ Break(c)

LegSpec == LegInit /\ [][LegNext]_legvars

QueueTick(c) ==
  /\ \/ TickBegin(c) \/ ReconcilePage(c) \/ Observe(c) \/ Select(c) \/ Validate(c) \/ Claim(c) \/ Finish(c)
     \/ ~ToLeg(c) /\ Deliver(c)
  /\ UNCHANGED <<box, own>>

\* The host runs a controller and lets it tick in a loop; the controller starts
\* the leg's daemon while the pair is enabled, and the daemon's loop runs.
LegFairness ==
  /\ \A c \in Controller :
       /\ WF_legvars((Start(c) \/ Notify(c) \/ Recover(c)) /\ UNCHANGED <<box, own>>)
       /\ WF_legvars(QueueTick(c) \/ LegStep(c))
  /\ WF_legvars(enabled /\ Box!Start /\ UNCHANGED <<vars, own>>)
  /\ WF_legvars((Box!Settle \/ Box!Take \/ Box!SendWire \/ Box!RecordOutcome) /\ UNCHANGED <<vars, own>>)

LegFairSpec == LegSpec /\ LegFairness
-----------------------------------------------------------------------------
\* The pair's queue behaves as PairQueue describes it, whose Collect and Deliver
\* admit whatever this leg does.
ImplementsPairQueue == Spec

\* A pair row goes over the wire at most once, through two queues that each have
\* their own crashes and retries, and no two rows share a mailbox row.
EndToEndOnce ==
  \A s \in 1..last : copy[s] # 0 =>
    /\ got[copy[s]] <= 1
    /\ \A t \in 1..last : copy[t] = copy[s] => t = s
    /\ status[s] \notin Unsubmitted

Later(m) == {mstatus[m]} \cup {log[i].status : i \in {j \in (lcursor + 1)..Len(log) :
                                                        log[j].dir = "receipt" /\ log[j].re = m}}
Collected(m) == {i \in 1..lcursor : log[i].dir = "receipt" /\ log[i].re = m}

\* The pair never shows a status that the receipts it collected have replaced:
\* it shows the last one collected, or one that is newer.
StatusNotStale ==
  \A s \in 1..last : recipient[s] = Leg /\ wire_id[s] = "mailbox" =>
    \/ status[s] \in Later(copy[s])
    \/ /\ Collected(copy[s]) = {} /\ status[s] \in {"queued_peer", "sent", "unknown"}
    \/ \E i \in Latest(Collected(copy[s])) : status[s] = log[i].status

\* Every message of the peer becomes at most one row of the pair, in the order in
\* which the mailbox received them: the cursor is behind after a crash, but the id
\* "uuid5(key:row id)" is not.
AnswersOnce ==
  \A s, t \in 1..last : origin[s] # 0 /\ origin[t] # 0 /\ s < t => origin[s] < origin[t]

\* It answers a row whose wire id is not recorded: not yet, or never.
Orphan(i) == /\ i \in 1..Len(log) /\ log[i].re # 0
             /\ \E s \in 1..last : Copied(s, log[i].re) /\ wire_id[s] # "mailbox"

\* What the cursor has passed is in the pair, unless the row it answers lost its
\* wire id: an answer never overtakes the record of the message it answers.
NoAnswerLost ==
  \A i \in 1..lcursor :
    log[i].dir = "in" /\ log[i].thread \in Accepted =>
      (\E s \in 1..last : origin[s] = i) \/ Orphan(i)

\* A frame the peer sends again with its id makes no second row, also when ticks
\* overlap and the cursor runs back.
RepeatedOnce ==
  \A s, t \in 1..last : origin[s] # 0 /\ origin[t] # 0 /\ SameId(origin[s], origin[t]) => s = t

\* What routing_issues shows of this leg.
RoutingIssues == {i \in 1..Len(log) : log[i].dir = "in" /\ log[i].thread \notin Accepted}

\* "Surface received messages that cannot reach this immutable pair"
\* (routing_issues): what _collect has passed without forwarding it is shown.
UnforwardedSurfaces ==
  \A i \in 1..lcursor :
    log[i].dir = "in" /\ (\A s \in 1..last : origin[s] # i) => i \in RoutingIssues

Waiting(m) == \E s \in 1..last : copy[s] = m /\ status[s] = "queued_peer"

\* A row that went to the mailbox gets the outcome of its send, receipt or not:
\* "A mailbox send can fail without a receipt; carry that status too" (_collect).
OutcomeCarried == \A m \in 1..MaxOut : Waiting(m) ~> (~Waiting(m) \/ ~enabled)

\* The n-th message of the peer.
Nth(n) == {i \in 1..Len(log) : log[i].dir = "in" /\ Cardinality({j \in 1..i : log[j].dir = "in"}) = n}

\* Every message of the peer on this pair's thread is forwarded in the end, behind
\* whatever backlog and across restarts, unless it is an orphan.
AnswersArrive ==
  \A n \in 1..MaxIn :
    (\E i \in Nth(n) : log[i].thread \in Accepted)
      ~> ((\E i \in Nth(n) : Orphan(i) \/ \E s \in 1..last : origin[s] = i) \/ ~enabled)
=============================================================================

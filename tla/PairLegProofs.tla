---------------------------- MODULE PairLegProofs ----------------------------
(***************************************************************************)
(* The composition of a pair's queue and one leg's mailbox implements the  *)
(* queue that PairQueue describes, and keeps the invariants of its mailbox:*)
(* what PairQueueProofs and MailboxProofs prove holds of the two together, *)
(* and a message crosses both at most once.                                *)
(***************************************************************************)
EXTENDS PairLeg, PairQueueProofs, WellFoundedInduction

\* What Claim compares.
USE DEF StillAsSelected

MB == INSTANCE MailboxProofs
        WITH Caller <- Controller, status <- mstatus, pc <- mpc, row <- mrow

\* The leg's mailbox is within the assumptions of Mailbox.
LEMMA BoxAssumption == MB!MailboxAssumption
  BY LegAssumption DEF MB!MailboxAssumption
-----------------------------------------------------------------------------
(* The mailbox. *)

\* Every step of the leg is a step of its mailbox or leaves it alone.
LEMMA MailboxStep == [LegNext]_legvars => [Box!Next]_Box!vars
  BY DEF LegNext, legvars, box, Box!vars, Box!loop, Box!peer, QueueStep, BoxStep, LegStep, Break, Admit,
     HandOver, Refuse, ReadCursor, ReadPage, Apply, Withdraw, Box!Next

\* The lemmas of MailboxProofs, for this mailbox.
BoxInv == MB!IInv /\ MB!TypeOK

\* A step of Mailbox means the same in the proofs about it.
LEMMA SameNext == [Box!Next]_Box!vars => [MB!Next]_MB!vars
  BY DEF Box!Next, MB!Next, Box!vars, MB!vars, Box!CheckRunning, MB!CheckRunning, Box!GiveUp, MB!GiveUp,
     Box!QueueMessage, MB!QueueMessage, Box!Start, MB!Start, Box!Settle, MB!Settle, Box!Settled,
     MB!Settled, Box!Take, MB!Take, Box!Oldest, MB!Oldest, Box!SendWire, MB!SendWire, Box!RecordOutcome,
     MB!RecordOutcome, Box!StillSending, MB!StillSending, Box!Exit, MB!Exit, Box!ReceiveFrame,
     MB!ReceiveFrame, Box!ReceiveStatus, MB!ReceiveStatus, Box!ReceiveUser, MB!ReceiveUser, Box!Unseen,
     MB!Unseen, Box!PeerReports, MB!PeerReports, Box!PeerWrites, MB!PeerWrites, Box!Lose, MB!Lose,
     Box!loop, MB!loop, Box!peer, MB!peer, Box!Out, MB!Out

\* The mailbox starts within its invariant.
LEMMA BoxInvInit == LegInit => BoxInv
  BY MB!IInvInit, MB!TypeInit, BoxAssumption DEF LegInit, BoxInv, Box!Init, MB!Init, Box!Out, MB!Out

\* No step of the leg, the queue or the mailbox leaves it.
LEMMA BoxInvStep == BoxInv /\ [LegNext]_legvars => BoxInv'
  BY MailboxStep, SameNext, MB!IInvStep, MB!TypeStep, BoxAssumption DEF BoxInv
-----------------------------------------------------------------------------
(* The queue. *)

\* What lies between the pair's tables and the mailbox: a page is read in the
\* mailbox's log, and whoever counts a row as 'queued_peer' knows its mailbox row.
Ranges2 ==
  /\ copy \in [Seqs -> 0..MaxOut] /\ origin \in [Seqs -> Nat] /\ lcursor \in Nat
  /\ reading \in [Controller -> Seq(Nat)]
Reads ==
  \A c \in Controller :
    /\ reading[c] # <<>> => pc[c] = "collect" /\ Leg \in legs[c]
    /\ Len(reading[c]) = 2 => reading[c][2] <= Len(log)
Told ==
  \A c \in Controller :
    pc[c] = "finish" /\ result[c].status = "queued_peer" /\ recipient[pick[c]] = Leg =>
      result[c].wire = "mailbox" /\ copy[pick[c]] \in 1..queued
Known ==
  \A s \in 1..last :
    recipient[s] = Leg /\ status[s] = "queued_peer" => wire_id[s] = "mailbox" /\ copy[s] \in 1..queued

Beyond ==
  \A s \in Seqs : s > last => status[s] # "queued_peer"

LegInv == /\ BoxInv /\ TypeOK /\ HoldsRow /\ LiveHasPosition
          /\ Ranges2 /\ Reads /\ Told /\ Known /\ Picked /\ Beyond

\* The part of the mailbox's type that the queue relies on.
LEMMA BoxFacts ==
  ASSUME BoxInv
  PROVE  /\ queued \in 0..MaxOut /\ MaxOut \in Nat
         /\ \A m \in 1..queued : mstatus[m] \in {"queued", "sending"} \cup PeerStatus
         /\ Len(log) \in Nat
         /\ \A i \in 1..Len(log) : log[i].dir = "receipt" => log[i].status \in Receipt
  BY LegAssumption DEF BoxInv, MB!TypeOK, MB!RowType, MB!Out

\* What _collect writes for a row that is already there.
LEMMA CarriedStatus ==
  ASSUME LegInv, NEW c \in Controller, Len(reading[c]) = 2, NEW s \in 1..last, recipient[s] = Leg
  PROVE  Carried(c, s) = status[s] \/ (s \in Handed(Leg) /\ Carried(c, s) \in PeerStatus)
<1> USE LegAssumption
<1>1. \A i \in RowsRead(c) : log[i].dir = "receipt" => log[i].status \in Receipt
  BY BoxFacts DEF RowsRead, LegInv, Ranges2, Reads
<1>2. ByReceipt(c, s) = status[s] \/ (s \in Handed(Leg) /\ ByReceipt(c, s) \in Receipt)
  <2>1. CASE Latest(ReceiptsFor(c, s)) = {}
    BY <2>1 DEF ByReceipt
  <2>2. CASE Latest(ReceiptsFor(c, s)) # {}
    <3>1. PICK i \in Latest(ReceiptsFor(c, s)) : ByReceipt(c, s) = log[i].status
      BY <2>2 DEF ByReceipt
    <3>2. i \in RowsRead(c) /\ log[i].dir = "receipt" /\ HasWire(s, log[i].re)
      BY <3>1 DEF Latest, ReceiptsFor
    <3>3. QED
      BY <1>1, <3>1, <3>2 DEF HasWire, Handed
  <2>3. QED
    BY <2>1, <2>2
<1>3. CASE ByReceipt(c, s) = "queued_peer" /\ mstatus[copy[s]] \notin {"queued", "sending"}
  <2>1. status[s] = "queued_peer"
    BY <1>2, <1>3
  <2>2. wire_id[s] = "mailbox" /\ copy[s] \in 1..queued
    BY <2>1 DEF LegInv, Known
  <2>3. QED
    BY <1>3, <2>2, BoxFacts DEF Carried, Handed, LegInv
<1>4. QED
  BY <1>2, <1>3 DEF Carried

\* _collect is what PairQueue's Collect leaves open.
LEMMA ApplyIsCollect == ASSUME LegInv, NEW c \in Controller, Apply(c) PROVE Collect(c, Leg)
<1> USE LegAssumption
<1>0. last \in 0..MaxSeq /\ MaxSeq \in Nat /\ PeerStatus \subseteq Reported /\ "same" \notin Reported
  BY PairAssumption DEF LegInv, TypeOK, Reported
<1>1. pc[c] = "collect" /\ Leg \in legs[c] /\ Len(reading[c]) = 2
  BY DEF LegInv, Reads, Apply
<1>2. PICK n \in last..(MaxSeq - Reserved) : \E f \in [(last + 1)..n -> Forwards(c)] :
       /\ status' = [s \in Seqs |-> IF s \in (last + 1)..n THEN "queued"
                                    ELSE IF s <= last /\ recipient[s] = Leg THEN Carried(c, s) ELSE status[s]]
       /\ sender'    = [s \in Seqs |-> IF s \in (last + 1)..n THEN Leg ELSE sender[s]]
       /\ recipient' = [s \in Seqs |-> IF s \in (last + 1)..n THEN Peer(Leg) ELSE recipient[s]]
       /\ reply_to'  = [s \in Seqs |-> IF s \in (last + 1)..n THEN AnswerTo(log[f[s]].re) ELSE reply_to[s]]
       /\ last' = n
  BY DEF Apply
<1>3. PICK f \in [(last + 1)..n -> Forwards(c)] :
       /\ status' = [s \in Seqs |-> IF s \in (last + 1)..n THEN "queued"
                                    ELSE IF s <= last /\ recipient[s] = Leg THEN Carried(c, s) ELSE status[s]]
       /\ sender'    = [s \in Seqs |-> IF s \in (last + 1)..n THEN Leg ELSE sender[s]]
       /\ recipient' = [s \in Seqs |-> IF s \in (last + 1)..n THEN Peer(Leg) ELSE recipient[s]]
       /\ reply_to'  = [s \in Seqs |-> IF s \in (last + 1)..n THEN AnswerTo(log[f[s]].re) ELSE reply_to[s]]
       /\ last' = n
  BY <1>2
<1> DEFINE new == [s \in Handed(Leg) |-> IF Carried(c, s) = status[s] THEN "same" ELSE Carried(c, s)]
<1> DEFINE answers == [s \in (last + 1)..n |-> AnswerTo(log[f[s]].re)]
<1>4. Handed(Leg) \subseteq 1..last
  BY DEF Handed
<1>5. new \in [Handed(Leg) -> PeerStatus \cup {"same"}]
  BY <1>1, <1>4, CarriedStatus DEF Handed
<1>6. \A i \in Forwards(c) : AnswerTo(log[i].re) \in {0} \cup Handed(Leg)
  BY DEF Forwards, AnswerTo, HasWire, Handed
<1>7. answers \in [(last + 1)..n -> {0} \cup Handed(Leg)]
  BY <1>3, <1>6
<1>8. status' = [s \in Seqs |-> IF s \in (last + 1)..n THEN "queued"
                                ELSE IF s \in Handed(Leg) /\ new[s] # "same" THEN new[s] ELSE status[s]]
  <2> SUFFICES ASSUME NEW s \in Seqs, s \notin (last + 1)..n
               PROVE  (IF s <= last /\ recipient[s] = Leg THEN Carried(c, s) ELSE status[s])
                        = (IF s \in Handed(Leg) /\ new[s] # "same" THEN new[s] ELSE status[s])
    BY <1>3
  <2>1. CASE s \in 1..last /\ recipient[s] = Leg
    <3>1. Carried(c, s) = status[s] \/ (s \in Handed(Leg) /\ Carried(c, s) \in PeerStatus)
      BY <1>1, <2>1, CarriedStatus
    <3>2. CASE s \in Handed(Leg) /\ Carried(c, s) # status[s]
      <4>1. new[s] = Carried(c, s) /\ new[s] # "same"
        BY <1>0, <3>1, <3>2
      <4>2. QED
        BY <2>1, <3>2, <4>1
    <3>3. CASE Carried(c, s) = status[s]
      <4>1. s \in Handed(Leg) => new[s] = "same"
        BY <3>3
      <4>2. QED
        BY <2>1, <3>3, <4>1
    <3>4. QED
      BY <3>1, <3>2, <3>3
  <2>2. CASE ~(s \in 1..last /\ recipient[s] = Leg)
    <3>1. s \notin Handed(Leg)
      BY <2>2 DEF Handed
    <3>2. ~(s <= last /\ recipient[s] = Leg)
      BY <1>0, <2>2 DEF Seqs
    <3>3. QED
      BY <3>1, <3>2
  <2>3. QED
    BY <2>1, <2>2
<1>9. reply_to' = [s \in Seqs |-> IF s \in (last + 1)..n THEN answers[s] ELSE reply_to[s]]
  BY <1>3
<1>10. /\ legs' = [legs EXCEPT ![c] = @ \ {Leg}]
       /\ UNCHANGED <<enabled, wire_id, meta, cursor, pc, pick, seen, todo, result, control, inputs>>
  BY DEF Apply
<1> HIDE DEF new, answers
<1>11. \E st \in [Handed(Leg) -> PeerStatus \cup {"same"}] :
       \E k \in last..(MaxSeq - Reserved) : \E an \in [(last + 1)..k -> {0} \cup Handed(Leg)] :
         /\ status' = [s \in Seqs |-> IF s \in (last + 1)..k THEN "queued"
                                      ELSE IF s \in Handed(Leg) /\ st[s] # "same" THEN st[s] ELSE status[s]]
         /\ sender'    = [s \in Seqs |-> IF s \in (last + 1)..k THEN Leg ELSE sender[s]]
         /\ recipient' = [s \in Seqs |-> IF s \in (last + 1)..k THEN Peer(Leg) ELSE recipient[s]]
         /\ reply_to'  = [s \in Seqs |-> IF s \in (last + 1)..k THEN an[s] ELSE reply_to[s]]
         /\ last' = k
  <2> WITNESS new \in [Handed(Leg) -> PeerStatus \cup {"same"}]
  <2> WITNESS n \in last..(MaxSeq - Reserved)
  <2> WITNESS answers \in [(last + 1)..n -> {0} \cup Handed(Leg)]
  <2> QED
    BY <1>3, <1>8, <1>9
<1>12. QED
  BY <1>1, <1>10, <1>11 DEF Collect

\* queue_message is one of the outcomes PairQueue gives to a Claude row.
LEMMA HandOverIsDeliver ==
  ASSUME LegInv, NEW c \in Controller, HandOver(c) \/ Refuse(c) PROVE Deliver(c)
<1> USE LegAssumption
<1>1. pc[c] = "deliver" /\ recipient[pick[c]] = Leg /\ pick[c] \in Seqs /\ inputs \in [Seqs -> Nat]
  BY DEF HandOver, Refuse, ToLeg, LegInv, TypeOK, HoldsRow, Holding, Seqs
<1>2. Outcomes(pick[c]) = ClaudeOutcomes
  BY <1>1 DEF Outcomes
<1>3. CASE HandOver(c)
  <2>1. PICK o \in {Outcome("queued_peer", "mailbox", 1), Outcome("unknown", None, 1)} :
          Returned(c, o.status, o.wire)
    BY <1>3 DEF HandOver, Outcome
  <2>2. o \in ClaudeOutcomes /\ o.handed = 1
    BY <2>1 DEF ClaudeOutcomes, Outcome
  <2>3. QED
    BY <1>1, <1>2, <1>3, <2>1, <2>2 DEF HandOver, Returned, Deliver
<1>4. CASE Refuse(c)
  <2>1. Outcome("unknown", None, 0) \in ClaudeOutcomes
    BY DEF ClaudeOutcomes
  <2>2. inputs' = [inputs EXCEPT ![pick[c]] = @ + Outcome("unknown", None, 0).handed]
    BY <1>1, <1>4 DEF Refuse, Outcome
  <2>3. QED
    BY <1>1, <1>2, <1>4, <2>1, <2>2 DEF Refuse, Returned, Deliver, Outcome
<1>5. QED
  BY <1>3, <1>4

\* Every step of the composition is a step of the queue or leaves it alone.
LEMMA QueueRefined == LegInv /\ [LegNext]_legvars => [Next]_vars
<1> SUFFICES ASSUME LegInv, [LegNext]_legvars PROVE [Next]_vars
  OBVIOUS
<1>1. CASE QueueStep
  BY <1>1 DEF QueueStep, Next, TickStep
<1>2. CASE BoxStep \/ UNCHANGED legvars
  BY <1>2 DEF BoxStep, legvars
<1>3. ASSUME NEW c \in Controller, LegStep(c) PROVE [Next]_vars
  <2>1. CASE Apply(c)
    BY <2>1, ApplyIsCollect, LegAssumption DEF Next, TickStep
  <2>2. CASE HandOver(c) \/ Refuse(c)
    BY <2>2, HandOverIsDeliver DEF Next, TickStep
  <2>3. CASE Admit(c) \/ ReadCursor(c) \/ ReadPage(c)
    BY <2>3 DEF Admit, ReadCursor, ReadPage
  <2>4. QED
    BY <1>3, <2>1, <2>2, <2>3 DEF LegStep
<1>4. ASSUME NEW c \in Controller, Break(c) PROVE [Next]_vars
  BY <1>4 DEF Break, Next
<1>5. QED
  BY <1>1, <1>2, <1>3, <1>4 DEF LegNext
-----------------------------------------------------------------------------
(* The strengthening is kept. *)

\* The log and the mailbox only grow, and a known mailbox row stays known.
LEMMA BoxGrows ==
  ASSUME LegInv, [LegNext]_legvars
  PROVE  /\ queued' \in Nat /\ queued' >= queued
         /\ Len(log') \in Nat /\ Len(log') >= Len(log)
         /\ \A s \in Seqs : copy[s] \in 1..queued => copy'[s] \in 1..queued'
<1>1. log \in Seq(MB!RowType) /\ queued \in Nat /\ copy \in [Seqs -> 0..MaxOut]
  BY LegAssumption DEF LegInv, BoxInv, MB!TypeOK, Ranges2
<1>2. [Box!Next]_Box!vars
  BY MailboxStep
<1>3. queued' = queued \/ queued' = queued + 1
  BY <1>2 DEF Box!Next, Box!vars, Box!loop, Box!peer, Box!CheckRunning, Box!GiveUp, Box!QueueMessage, Box!Start,
     Box!Settle, Box!Take, Box!SendWire, Box!RecordOutcome, Box!Exit, Box!ReceiveFrame, Box!PeerReports,
     Box!PeerWrites, Box!Lose
<1>4. log' = log \/ \E e : log' = Append(log, e)
  <2>1. CASE Box!ReceiveFrame
    BY <2>1 DEF Box!ReceiveFrame, Box!ReceiveStatus, Box!ReceiveUser
  <2>2. CASE ~Box!ReceiveFrame
    BY <1>2, <2>2 DEF Box!Next, Box!vars, Box!loop, Box!peer, Box!CheckRunning, Box!GiveUp, Box!QueueMessage,
       Box!Start, Box!Settle, Box!Take, Box!SendWire, Box!RecordOutcome, Box!Exit, Box!PeerReports,
       Box!PeerWrites, Box!Lose
  <2>3. QED
    BY <2>1, <2>2
<1>5. copy' = copy \/ \E c \in Controller : queued' = queued + 1 /\ copy' = [copy EXCEPT ![pick[c]] = queued + 1]
  BY DEF LegNext, legvars, own, QueueStep, BoxStep, LegStep, Break, Admit, HandOver, Refuse, ReadCursor, ReadPage,
     Apply, Box!QueueMessage
<1>6. Len(log') \in Nat /\ Len(log') >= Len(log)
  BY <1>1, <1>4
<1>7. \A s \in Seqs : copy[s] \in 1..queued => copy'[s] \in 1..queued'
  BY <1>1, <1>3, <1>5
<1>8. QED
  BY <1>1, <1>3, <1>6, <1>7

\* Ranges of what the composition adds.
LEMMA Ranges2Step == ASSUME LegInv, [LegNext]_legvars PROVE Ranges2'
<1>1. /\ Ranges2 /\ MaxOut \in Nat /\ queued \in Nat /\ Len(log) \in Nat /\ MaxSeq \in Nat /\ last \in 0..MaxSeq
      /\ LegPage \in Nat
  BY BoxFacts, PairAssumption, LegAssumption DEF LegInv, TypeOK
<1>2. CASE UNCHANGED own
  BY <1>1, <1>2 DEF Ranges2, own
<1>3. ASSUME NEW c \in Controller, LegStep(c) PROVE Ranges2'
  <2>1. CASE HandOver(c)
    <3>1. queued < MaxOut /\ copy' = [copy EXCEPT ![pick[c]] = queued + 1]
      BY <2>1 DEF HandOver, Box!QueueMessage
    <3>2. copy \in [Seqs -> 0..MaxOut] /\ queued + 1 \in 0..MaxOut
      BY <1>1, <3>1 DEF Ranges2
    <3>3. copy' \in [Seqs -> 0..MaxOut]
      BY <3>1, <3>2
    <3>4. QED
      BY <1>1, <2>1, <3>3 DEF HandOver, Ranges2
  <2>2. CASE ReadCursor(c)
    BY <1>1, <2>2 DEF ReadCursor, Ranges2
  <2>3. CASE ReadPage(c)
    <3>0. reading[c] \in Seq(Nat) /\ Len(reading[c]) = 1
      BY <1>1, <2>3 DEF ReadPage, Ranges2
    <3>1. reading[c][1] \in Nat
      BY <3>0
    <3>2. PICK n \in reading[c][1]..Len(log) : reading' = [reading EXCEPT ![c] = <<reading[c][1], n>>]
      BY <2>3 DEF ReadPage
    <3>3. n \in Nat
      BY <1>1, <3>1, <3>2
    <3>4. <<reading[c][1], n>> \in Seq(Nat)
      BY <3>1, <3>3
    <3>5. reading' \in [Controller -> Seq(Nat)]
      BY <1>1, <3>2, <3>4 DEF Ranges2
    <3>6. QED
      BY <1>1, <2>3, <3>5 DEF ReadPage, Ranges2
  <2>4. CASE Apply(c)
    <3>0. reading[c] \in Seq(Nat) /\ Len(reading[c]) = 2
      BY <1>1, <2>4 DEF Apply, Ranges2
    <3>1. reading[c][1] \in Nat /\ reading[c][2] \in Nat
      BY <3>0
    <3>2. Forwards(c) \subseteq Nat
      BY <3>1 DEF Forwards, RowsRead
    <3>3. PICK n \in last..(MaxSeq - Reserved) : \E f \in [(last + 1)..n -> Forwards(c)] :
            origin' = [s \in Seqs |-> IF s \in (last + 1)..n THEN f[s] ELSE origin[s]]
      BY <2>4 DEF Apply
    <3>4. origin' \in [Seqs -> Nat]
      BY <1>1, <3>2, <3>3 DEF Ranges2
    <3>5. lcursor' \in Nat /\ UNCHANGED copy /\ reading' = [reading EXCEPT ![c] = <<>>]
      BY <1>1, <2>4, <3>1 DEF Apply, CursorMoves, Ranges2
    <3>6. QED
      BY <1>1, <3>4, <3>5 DEF Ranges2
  <2>5. CASE Admit(c) \/ Refuse(c)
    BY <1>2, <2>5 DEF Admit, Refuse
  <2>6. QED
    BY <1>3, <2>1, <2>2, <2>3, <2>4, <2>5 DEF LegStep
<1>4. ASSUME NEW c \in Controller, Break(c) PROVE Ranges2'
  BY <1>1, <1>4 DEF Break, Ranges2
<1>5. QED
  BY <1>2, <1>3, <1>4 DEF LegNext, QueueStep, BoxStep, legvars

\* A page is held by a controller that is still collecting this leg.
LEMMA ReadsStep == ASSUME LegInv, [LegNext]_legvars PROVE Reads'
<1>1. /\ reading \in [Controller -> Seq(Nat)] /\ pc \in [Controller -> Positions]
      /\ legs \in [Controller -> SUBSET Claude]
      /\ Len(log) \in Nat /\ Len(log') \in Nat /\ Len(log') >= Len(log)
  BY BoxFacts, BoxGrows DEF LegInv, Ranges2, TypeOK
<1>2. Reads
  BY DEF LegInv
<1>3. ASSUME UNCHANGED reading,
             \A c \in Controller : reading[c] # <<>> => pc'[c] = pc[c] /\ (Leg \in legs[c] => Leg \in legs'[c])
      PROVE  Reads'
  <2> SUFFICES ASSUME NEW c \in Controller
               PROVE  /\ reading[c] # <<>> => pc'[c] = "collect" /\ Leg \in legs'[c]
                      /\ Len(reading[c]) = 2 => reading[c][2] <= Len(log')
    BY <1>3 DEF Reads
  <2>1. reading[c] \in Seq(Nat)
    BY <1>1
  <2>2. QED
    BY <1>1, <1>2, <1>3, <2>1 DEF Reads
<1>4. ASSUME NEW c \in Controller,
             \A d \in Controller \ {c} : reading'[d] = reading[d] /\ pc'[d] = pc[d] /\ legs'[d] = legs[d],
             reading'[c] # <<>> => pc'[c] = "collect" /\ Leg \in legs'[c],
             Len(reading'[c]) = 2 => reading'[c][2] <= Len(log')
      PROVE  Reads'
  <2> SUFFICES ASSUME NEW d \in Controller
               PROVE  /\ reading'[d] # <<>> => pc'[d] = "collect" /\ Leg \in legs'[d]
                      /\ Len(reading'[d]) = 2 => reading'[d][2] <= Len(log')
    BY DEF Reads
  <2>1. CASE d = c
    BY <1>4, <2>1
  <2>2. CASE d # c
    <3>1. reading'[d] = reading[d] /\ reading[d] \in Seq(Nat)
      BY <1>1, <1>4, <2>2
    <3>2. QED
      BY <1>1, <1>2, <1>4, <2>2, <3>1 DEF Reads
  <2>3. QED
    BY <2>1, <2>2
<1>5. CASE QueueStep
  <2>1. UNCHANGED reading
    BY <1>5 DEF QueueStep, own
  <2>2. \A c \in Controller : pc[c] # "collect" => reading[c] = <<>>
    BY <1>2 DEF Reads
  <2>3. \A c \in Controller : reading[c] # <<>> => legs[c] # {}
    BY <1>2 DEF Reads
  <2> DEFINE Still(c) == reading[c] # <<>> => pc'[c] = pc[c] /\ (Leg \in legs[c] => Leg \in legs'[c])
  <2>4. \A c \in Controller : Still(c)
    <3>1. ASSUME UNCHANGED <<pc, legs>> PROVE \A d \in Controller : Still(d)
      BY <3>1
    <3>2. ASSUME NEW c \in Controller, reading[c] = <<>>,
                 \A d \in Controller \ {c} : pc'[d] = pc[d] /\ legs'[d] = legs[d]
          PROVE  \A d \in Controller : Still(d)
      BY <3>2
    <3>3. CASE (\E p \in Participant : Send(p)) \/ RetryCheck \/ RetryApply
      BY <3>1, <3>3 DEF Send, RetryCheck, RetryApply, local
    <3>4. ASSUME NEW c \in Controller,
                 \/ Notify(c) \/ Recover(c) \/ Disconnect(c) \/ TickBegin(c) \/ ReconcilePage(c) \/ Observe(c)
                 \/ Validate(c) \/ Claim(c) \/ Finish(c) \/ Deliver(c)
          PROVE  \A d \in Controller : Still(d)
      <4>1. pc[c] # "collect"
        BY <3>4 DEF Notify, Recover, Disconnect, TickBegin, ReconcilePage, Observe, Validate, Claim, Finish, Deliver
      <4>2. \A d \in Controller \ {c} : pc'[d] = pc[d] /\ legs'[d] = legs[d]
        BY <1>1, <3>4 DEF Notify, Recover, Disconnect, TickBegin, ReconcilePage, Observe, Validate, Claim, Finish,
           Deliver, Reset, local
      <4>3. QED
        BY <2>2, <3>2, <4>1, <4>2
    <3>5. ASSUME NEW c \in Controller, Start(c) PROVE \A d \in Controller : Still(d)
      <4>1. \A d \in Controller \ {c} : pc'[d] = pc[d] /\ legs'[d] = legs[d]
        BY <1>1, <3>5 DEF Start, local
      <4>3. pc[c] = "down"
        BY <3>5 DEF Start, LegInv, LiveHasPosition
      <4>4. QED
        BY <2>2, <3>2, <4>1, <4>3
    <3>6. ASSUME NEW c \in Controller, Select(c) PROVE \A d \in Controller : Still(d)
      <4>1. legs[c] = {} /\ \A d \in Controller \ {c} : pc'[d] = pc[d] /\ legs'[d] = legs[d]
        BY <1>1, <3>6 DEF Select
      <4>2. QED
        BY <2>3, <3>2, <4>1
    <3>7. ASSUME NEW c \in Controller, reading[c] = <<>>, NEW p \in Claude, Collect(c, p) PROVE \A d \in Controller : Still(d)
      <4>1. UNCHANGED pc /\ \A d \in Controller \ {c} : legs'[d] = legs[d]
        BY <1>1, <3>7 DEF Collect
      <4>2. QED
        BY <3>2, <3>7, <4>1
    <3>8. QED
      BY <1>5, <3>3, <3>4, <3>5, <3>6, <3>7 DEF QueueStep
  <2>5. QED
    BY <1>3, <2>1, <2>4
<1>6. CASE BoxStep \/ UNCHANGED legvars
  BY <1>3, <1>6 DEF BoxStep, legvars, vars, own, local
<1>7. ASSUME NEW c \in Controller, LegStep(c) PROVE Reads'
  <2>1. CASE Admit(c)
    BY <1>3, <2>1 DEF Admit, vars, own, local
  <2>2. CASE HandOver(c) \/ Refuse(c)
    <3>1. pc[c] = "deliver" /\ UNCHANGED <<reading, legs>> /\ \A d \in Controller \ {c} : pc'[d] = pc[d]
      BY <1>1, <2>2 DEF HandOver, Refuse, ToLeg, Returned, own
    <3>2. reading[c] = <<>>
      BY <1>2, <3>1 DEF Reads
    <3>3. QED
      BY <1>3, <3>1, <3>2
  <2>3. CASE ReadCursor(c)
    <3>1. /\ reading'[c] = <<lcursor>> /\ Len(reading'[c]) = 1
          /\ \A d \in Controller \ {c} : reading'[d] = reading[d]
      BY <1>1, <2>3 DEF ReadCursor
    <3>2. pc'[c] = "collect" /\ Leg \in legs'[c] /\ UNCHANGED <<pc, legs>>
      BY <2>3 DEF ReadCursor, vars, local
    <3>3. QED
      BY <1>4, <3>1, <3>2
  <2>4. CASE ReadPage(c)
    <3>0. reading[c] \in Seq(Nat) /\ Len(reading[c]) = 1
      BY <1>1, <2>4 DEF ReadPage
    <3>1. reading[c] # <<>>
      BY <3>0
    <3>6. pc[c] = "collect" /\ Leg \in legs[c]
      BY <1>2, <3>1 DEF Reads
    <3>2. PICK n \in reading[c][1]..Len(log) : reading' = [reading EXCEPT ![c] = <<reading[c][1], n>>]
      BY <2>4 DEF ReadPage
    <3>3. reading[c][1] \in Nat
      BY <3>0
    <3>4. n <= Len(log')
      BY <1>1, <3>2, <3>3
    <3>5. /\ reading'[c][2] = n
          /\ \A d \in Controller \ {c} : reading'[d] = reading[d]
      BY <1>1, <3>2
    <3>7. UNCHANGED <<pc, legs>>
      BY <2>4 DEF ReadPage, vars, local
    <3>8. QED
      BY <1>4, <3>4, <3>5, <3>6, <3>7
  <2>5. CASE Apply(c)
    <3>1. UNCHANGED pc /\ \A d \in Controller \ {c} : legs'[d] = legs[d]
      BY <1>1, <2>5 DEF Apply
    <3>2. /\ reading'[c] = <<>> /\ Len(reading'[c]) = 0
          /\ \A d \in Controller \ {c} : reading'[d] = reading[d]
      BY <1>1, <2>5 DEF Apply
    <3>3. QED
      BY <1>4, <3>1, <3>2
  <2>6. QED
    BY <1>7, <2>1, <2>2, <2>3, <2>4, <2>5 DEF LegStep
<1>8. ASSUME NEW c \in Controller, Break(c) PROVE Reads'
  <2>1. \A d \in Controller \ {c} : pc'[d] = pc[d] /\ legs'[d] = legs[d]
    BY <1>1, <1>8 DEF Break, Crash, Abort, Reset
  <2>2. /\ reading'[c] = <<>> /\ Len(reading'[c]) = 0
        /\ \A d \in Controller \ {c} : reading'[d] = reading[d]
    BY <1>1, <1>8 DEF Break
  <2>3. QED
    BY <1>4, <2>1, <2>2
<1>9. QED
  BY <1>5, <1>6, <1>7, <1>8 DEF LegNext

\* A row becomes 'queued_peer' only by Finish, and keeps its wire id until then.
FinishesAs(s) == \E c \in Controller : /\ pc[c] = "finish" /\ pick[c] = s /\ result[c].status = "queued_peer"
                                       /\ wire_id'[s] = result[c].wire
\* A row becomes 'queued_peer' at the end of a tick that put it into the mailbox.
LEMMA QueuedPeerBy ==
  ASSUME TypeOK, HoldsRow, [Next]_vars, NEW s \in Seqs, status'[s] = "queued_peer"
  PROVE  (status[s] = "queued_peer" /\ wire_id'[s] = wire_id[s]) \/ FinishesAs(s)
<1>0. status \in [Seqs -> Statuses] /\ wire_id \in [Seqs -> Turn \cup {"mailbox", None}]
  BY DEF TypeOK
<1> DEFINE Goal == (status[s] = "queued_peer" /\ wire_id'[s] = wire_id[s]) \/ FinishesAs(s)
<1>1. CASE UNCHANGED <<status, wire_id>>
  BY <1>1
<1>2. ASSUME NEW c \in Controller, Finish(c) PROVE Goal
  <2>1. pick[c] \in Seqs /\ pc[c] = "finish"
    BY <1>2 DEF Finish, TypeOK, HoldsRow, Holding, Seqs
  <2>2. QED
    BY <1>0, <1>2, <2>1 DEF Finish, FinishesAs
<1>3. ASSUME NEW c \in Controller, NEW p \in Claude, Collect(c, p) PROVE Goal
  <2>1. PICK n \in last..(MaxSeq - Reserved), new \in [Handed(p) -> PeerStatus \cup {"same"}] :
          status' = [k \in Seqs |-> IF k \in (last + 1)..n THEN "queued"
                                    ELSE IF k \in Handed(p) /\ new[k] # "same" THEN new[k] ELSE status[k]]
    BY <1>3 DEF Collect
  <2>2. "queued_peer" \notin PeerStatus
    BY PairAssumption DEF Reported
  <2>3. UNCHANGED wire_id
    BY <1>3 DEF Collect
  <2>4. QED
    BY <2>1, <2>2, <2>3
<1>4. ASSUME NEW p \in Participant, Send(p) PROVE Goal
  BY <1>0, <1>4 DEF Send, Insert
<1>5. ASSUME NEW c \in Controller, Notify(c) PROVE Goal
  <2>1. status' = [status EXCEPT ![last + 1] = "queued", ![last + 2] = "queued"] /\ UNCHANGED wire_id
    BY <1>5 DEF Notify
  <2>2. QED
    BY <1>0, <2>1
<1>6. ASSUME NEW c \in Controller, Recover(c) \/ Disconnect(c) \/ Observe(c) PROVE Goal
  BY <1>0, <1>6 DEF Recover, Recovered, Disconnect, Cancelled, Observe, Scans
<1>7. ASSUME NEW c \in Controller, Validate(c) \/ Claim(c) PROVE Goal
  BY <1>0, <1>1, <1>7 DEF Validate, Claim
<1>8. CASE RetryApply
  BY <1>0, <1>8 DEF RetryApply, Requeued
<1>9. QED
  BY <1>1, <1>2, <1>3, <1>4, <1>5, <1>6, <1>7, <1>8 DEF Next, TickStep, Start, Crash, Abort, TickBegin,
     ReconcilePage, Select, Deliver, RetryCheck, vars

\* A controller reaches the end of its tick through a delivery.
LEMMA FinishBy ==
  ASSUME TypeOK, [Next]_vars, NEW c \in Controller, pc'[c] = "finish"
  PROVE  (pc[c] = "finish" /\ result'[c] = result[c] /\ pick'[c] = pick[c]) \/ Deliver(c)
<1>0. /\ pc \in [Controller -> Positions] /\ result \in [Controller -> Results \cup {NoResult}]
      /\ pick \in [Controller -> 0..MaxSeq]
  BY DEF TypeOK
<1> DEFINE Goal == (pc[c] = "finish" /\ result'[c] = result[c] /\ pick'[c] = pick[c]) \/ Deliver(c)
<1>1. CASE UNCHANGED <<pc, result, pick>>
  BY <1>1
<1>2. ASSUME NEW d \in Controller,
             \A e \in Controller \ {d} : pc'[e] = pc[e] /\ result'[e] = result[e] /\ pick'[e] = pick[e],
             pc'[d] # "finish" \/ d # c
      PROVE  Goal
  BY <1>2
<1>3. ASSUME NEW d \in Controller, Deliver(d) PROVE Goal
  BY <1>0, <1>3 DEF Deliver
<1>4. ASSUME NEW d \in Controller,
             \/ Notify(d) \/ Start(d) \/ Recover(d) \/ Disconnect(d) \/ TickBegin(d) \/ ReconcilePage(d) \/ Observe(d)
             \/ Select(d) \/ Validate(d) \/ Claim(d)
      PROVE  Goal
  BY <1>0, <1>2, <1>4 DEF Notify, Start, Recover, Disconnect, TickBegin, ReconcilePage, Observe, Select, Validate,
     Claim, local
<1>5. ASSUME NEW d \in Controller, Crash(d) \/ Abort(d) \/ Finish(d) PROVE Goal
  BY <1>0, <1>2, <1>5 DEF Crash, Abort, Finish, Reset
<1>6. ASSUME NEW d \in Controller, NEW p \in Claude, Collect(d, p) PROVE Goal
  BY <1>1, <1>6 DEF Collect
<1>7. ASSUME NEW p \in Participant, Send(p) PROVE Goal
  BY <1>1, <1>7 DEF Send, local
<1>8. CASE RetryCheck \/ RetryApply \/ UNCHANGED vars
  BY <1>1, <1>8 DEF RetryCheck, RetryApply, vars, local
<1>9. QED
  BY <1>3, <1>4, <1>5, <1>6, <1>7, <1>8 DEF Next, TickStep

\* Only the leg's own steps hand a row of the leg over.
LEMMA LegDelivers ==
  ASSUME LegInv, [LegNext]_legvars, NEW c \in Controller, Deliver(c), recipient[pick[c]] = Leg
  PROVE  HandOver(c) \/ Refuse(c)
<1>0. pc \in [Controller -> Positions] /\ inputs \in [Seqs -> Nat]
  BY DEF LegInv, TypeOK
<1>1. pc[c] = "deliver" /\ pc'[c] = "finish"
  BY <1>0 DEF Deliver
<1>2. ToLeg(c)
  BY <1>1 DEF ToLeg
<1>3. CASE QueueStep
  <2>1. ASSUME NEW d \in Controller,
               \/ Notify(d) \/ Start(d) \/ Recover(d) \/ Disconnect(d) \/ TickBegin(d) \/ ReconcilePage(d)
               \/ Observe(d) \/ Select(d) \/ Validate(d) \/ Claim(d)
        PROVE  FALSE
    <3>1. pc'[d] # "finish" /\ \A e \in Controller \ {d} : pc'[e] = pc[e]
      BY <1>0, <1>1, <2>1 DEF Notify, Start, Recover, Disconnect, TickBegin, ReconcilePage, Observe, Select, Validate,
         Claim
    <3>2. QED
      BY <1>1, <3>1
  <2>2. ASSUME NEW d \in Controller, Finish(d) PROVE FALSE
    BY <1>0, <1>1, <2>2 DEF Finish
  <2>3. ASSUME NEW d \in Controller, ~ToLeg(d), Deliver(d) PROVE FALSE
    BY <1>0, <1>1, <1>2, <2>3 DEF Deliver
  <2>4. ASSUME NEW d \in Controller, NEW p \in Claude, Collect(d, p) PROVE FALSE
    BY <1>1, <2>4 DEF Collect
  <2>5. CASE (\E p \in Participant : Send(p)) \/ RetryCheck \/ RetryApply
    BY <1>1, <2>5 DEF Send, RetryCheck, RetryApply
  <2>6. QED
    BY <1>3, <2>1, <2>2, <2>3, <2>4, <2>5 DEF QueueStep
<1>4. CASE BoxStep \/ UNCHANGED legvars
  BY <1>1, <1>4 DEF BoxStep, legvars, vars
<1>5. ASSUME NEW d \in Controller, LegStep(d) PROVE HandOver(c) \/ Refuse(c)
  BY <1>0, <1>1, <1>5 DEF LegStep, Admit, ReadCursor, ReadPage, Apply, HandOver, Refuse, Returned, vars
<1>6. ASSUME NEW d \in Controller, Break(d) PROVE FALSE
  <2>1. pc'[d] # "finish" /\ \A e \in Controller \ {d} : pc'[e] = pc[e]
    BY <1>0, <1>6 DEF Break, Crash, Abort
  <2>2. QED
    BY <1>1, <2>1
<1>7. QED
  BY <1>3, <1>4, <1>5, <1>6 DEF LegNext

\* A controller at the end of its tick knows what the mailbox answered.
LEMMA ToldStep == ASSUME LegInv, [LegNext]_legvars PROVE Told'
<1> SUFFICES ASSUME NEW c \in Controller, pc'[c] = "finish", result'[c].status = "queued_peer",
                    recipient'[pick'[c]] = Leg
             PROVE  result'[c].wire = "mailbox" /\ copy'[pick'[c]] \in 1..queued'
  BY DEF Told
<1>1. TypeOK /\ HoldsRow /\ [Next]_vars /\ Told /\ Picked
  BY QueueRefined DEF LegInv
<1>2. \A s \in 1..last : recipient'[s] = recipient[s]
  BY <1>1, RowsStay DEF RecipientKept
<1>3. CASE pc[c] = "finish" /\ result'[c] = result[c] /\ pick'[c] = pick[c]
  <2>1. pick[c] \in 1..last
    BY <1>1, <1>3 DEF Picked, Holding
  <2>2. recipient[pick[c]] = Leg /\ pick[c] \in Seqs
    BY <1>1, <1>2, <1>3, <2>1, PairAssumption DEF Seqs, TypeOK
  <2>3. result[c].wire = "mailbox" /\ copy[pick[c]] \in 1..queued
    BY <1>1, <1>3, <2>2 DEF Told
  <2>4. QED
    BY <1>3, <2>2, <2>3, BoxGrows
<1>4. CASE Deliver(c)
  <2>1. pick[c] \in 1..last /\ pick'[c] = pick[c] /\ pick[c] \in Seqs
    BY <1>1, <1>4, PairAssumption DEF Deliver, Picked, Holding, Seqs, TypeOK
  <2>2. HandOver(c) \/ Refuse(c)
    BY <1>2, <1>4, <2>1, LegDelivers
  <2>3. result \in [Controller -> Results \cup {NoResult}]
    BY <1>1 DEF TypeOK
  <2>4. HandOver(c) /\ Returned(c, "queued_peer", "mailbox")
    BY <2>2, <2>3 DEF HandOver, Refuse, Returned
  <2>5. /\ result'[c].wire = "mailbox"
        /\ copy' = [copy EXCEPT ![pick[c]] = queued + 1] /\ queued' = queued + 1
    BY <2>3, <2>4 DEF HandOver, Returned, Box!QueueMessage
  <2>6. copy \in [Seqs -> 0..MaxOut] /\ queued \in Nat
    BY BoxFacts DEF LegInv, Ranges2
  <2>7. QED
    BY <2>1, <2>5, <2>6
<1>5. QED
  BY <1>1, <1>3, <1>4, FinishBy

\* The pair knows the mailbox row of every row it counts as 'queued_peer'.
LEMMA KnownStep == ASSUME LegInv, [LegNext]_legvars PROVE Known'
<1> SUFFICES ASSUME NEW s \in 1..last', recipient'[s] = Leg, status'[s] = "queued_peer"
             PROVE  wire_id'[s] = "mailbox" /\ copy'[s] \in 1..queued'
  BY DEF Known
<1>1. TypeOK /\ HoldsRow /\ [Next]_vars /\ Told /\ Picked /\ Known
  BY QueueRefined DEF LegInv
<1>2. /\ last' \in 0..MaxSeq /\ s \in Seqs
      /\ \A k \in 1..last : recipient'[k] = recipient[k]
  BY <1>1, RowsStay, PairAssumption DEF RecipientKept, Seqs
<1>3. CASE s \in 1..last /\ status[s] = "queued_peer" /\ wire_id'[s] = wire_id[s]
  BY <1>1, <1>2, <1>3, BoxGrows DEF Known
<1>4. CASE FinishesAs(s)
  <2>1. PICK c \in Controller : /\ pc[c] = "finish" /\ pick[c] = s /\ result[c].status = "queued_peer"
                                /\ wire_id'[s] = result[c].wire
    BY <1>4 DEF FinishesAs
  <2>2. s \in 1..last
    BY <1>1, <2>1 DEF Picked, Holding
  <2>3. QED
    BY <1>1, <1>2, <2>1, <2>2, BoxGrows DEF Told
<1>5. CASE s \notin 1..last
  <2>1. status[s] # "queued_peer"
    BY <1>1, <1>2, <1>5 DEF Beyond, LegInv, Seqs, TypeOK
  <2>2. QED
    BY <1>1, <1>2, <1>4, <2>1, QueuedPeerBy
<1>6. QED
  BY <1>1, <1>2, <1>3, <1>4, <1>5, QueuedPeerBy

\* Rows that do not exist have no status of a delivery.
LEMMA BeyondStep == ASSUME TypeOK, HoldsRow, Picked, Beyond, [Next]_vars PROVE Beyond'
<1> SUFFICES ASSUME NEW s \in Seqs, s > last', status'[s] = "queued_peer" PROVE FALSE
  BY DEF Beyond
<1>1. last \in Nat /\ last' \in Nat /\ last' >= last /\ s \in Nat
  BY RowsStay, PairAssumption DEF TypeOK, RecipientKept, Seqs
<1>2. status[s] # "queued_peer"
  BY <1>1 DEF Beyond
<1>3. ~FinishesAs(s)
  BY <1>1 DEF FinishesAs, Picked, Holding
<1>4. QED
  BY <1>2, <1>3, QueuedPeerBy

\* Nothing is known of a leg that has just been enrolled.
LEMMA LegInvInit == LegInit => LegInv
<1> SUFFICES ASSUME LegInit PROVE LegInv
  OBVIOUS
<1>1. IInv
  BY IInvInit DEF LegInit
<1>2. Ranges2
  BY LegAssumption DEF LegInit, Ranges2
<1>3. pc \in [Controller -> {"notify", "down"}] /\ last = 0 /\ status = [s \in Seqs |-> "none"]
  BY DEF LegInit, Init
<1>4. Reads
  <2>1. Len(<<>>) = 0
    OBVIOUS
  <2>2. QED
    BY <2>1 DEF LegInit, Reads
<1>5. Told /\ Known /\ Picked /\ Beyond
  BY <1>3 DEF Told, Known, Picked, Beyond, Holding
<1>6. QED
  BY <1>1, <1>2, <1>4, <1>5, BoxInvInit DEF LegInv, IInv, DeliveryInv

\* Every step of the composition keeps the strengthening.
LEMMA LegInvStep == LegInv /\ [LegNext]_legvars => LegInv'
<1> SUFFICES ASSUME LegInv, [LegNext]_legvars PROVE LegInv'
  OBVIOUS
<1>1. [Next]_vars /\ TypeOK /\ HoldsRow /\ LiveHasPosition /\ Picked /\ Beyond /\ BoxInv
  BY QueueRefined DEF LegInv
<1>2. TypeOK' /\ HoldsRow' /\ LiveHasPosition'
  BY <1>1, TypeStep, HoldsRowStep, LiveHasPositionStep
<1>3. Picked' /\ Beyond'
  BY <1>1, PickedStep, BeyondStep
<1>4. BoxInv' /\ Ranges2' /\ Reads' /\ Told' /\ Known'
  BY <1>1, BoxInvStep, Ranges2Step, ReadsStep, ToldStep, KnownStep
<1>5. QED
  BY <1>2, <1>3, <1>4 DEF LegInv

\* The queue behaves as PairQueue says, with this mailbox behind its leg: what
\* Collect and Deliver leave open there is all that the mailbox can do.
THEOREM QueueImplemented == LegSpec => ImplementsPairQueue
<1>1. LegInit => Init
  BY DEF LegInit
<1>2. QED
  BY <1>1, LegInvInit, LegInvStep, QueueRefined, PTL DEF LegSpec, ImplementsPairQueue, Spec
-----------------------------------------------------------------------------
(* At most once from send to the wire. *)

\* Every row has a mailbox row of its own, made when it was handed over.
Copies ==
  /\ \A s \in Seqs : copy[s] # 0 => copy[s] \in 1..queued /\ inputs[s] > 0
  /\ \A s, t \in Seqs : copy[s] # 0 /\ copy[s] = copy[t] => s = t

\* Inputs are counted up.
LEMMA InputsGrow ==
  ASSUME TypeOK, HoldsRow, [Next]_vars PROVE \A s \in Seqs : inputs'[s] >= inputs[s]
<1>0. inputs \in [Seqs -> Nat]
  BY DEF TypeOK
<1>1. CASE UNCHANGED inputs
  BY <1>0, <1>1
<1>2. ASSUME NEW c \in Controller, Deliver(c) PROVE \A s \in Seqs : inputs'[s] >= inputs[s]
  <2>1. PICK o \in Outcomes(pick[c]) : inputs' = [inputs EXCEPT ![pick[c]] = @ + o.handed]
    BY <1>2 DEF Deliver
  <2>2. o.handed \in 0..1
    BY <2>1 DEF Outcomes, ClaudeOutcomes, CodexOutcomes, CallFailures, Outcome
  <2>3. QED
    BY <1>0, <2>1, <2>2
<1>3. QED
  BY <1>1, <1>2 DEF Next, TickStep, Send, Notify, Start, Recover, Disconnect, Crash, Abort, TickBegin, ReconcilePage,
     Observe, Collect, Select, Validate, Claim, Finish, RetryCheck, RetryApply, vars

\* A row handed over gets a mailbox row that no other row has.
LEMMA CopiesStep == ASSUME LegInv, Copies, [LegNext]_legvars PROVE Copies'
<1>1. /\ copy \in [Seqs -> 0..MaxOut] /\ queued \in Nat /\ inputs \in [Seqs -> Nat]
      /\ \A s \in Seqs : inputs'[s] >= inputs[s]
  BY QueueRefined, InputsGrow, BoxFacts DEF LegInv, Ranges2, TypeOK
<1>2. inputs' \in [Seqs -> Nat]
  BY LegInvStep DEF LegInv, TypeOK
<1>3. CASE UNCHANGED copy
  BY <1>1, <1>2, <1>3, BoxGrows DEF Copies
<1>4. ASSUME NEW c \in Controller, HandOver(c) PROVE Copies'
  <2>1. /\ copy' = [copy EXCEPT ![pick[c]] = queued + 1] /\ queued' = queued + 1
        /\ inputs' = [inputs EXCEPT ![pick[c]] = @ + 1]
    BY <1>4 DEF HandOver, Box!QueueMessage
  <2>2. QED
    BY <1>1, <2>1 DEF Copies
<1>5. QED
  BY <1>3, <1>4 DEF LegNext, legvars, own, QueueStep, BoxStep, LegStep, Break, Admit, Refuse, ReadCursor, ReadPage,
     Apply

\* A message crosses both queues at most once, and one that may still be sent or
\* was cancelled has not crossed the first: whatever is lost, broken or restarted.
THEOREM OnceEndToEnd == ASSUME Exclusive PROVE LegSpec => []EndToEndOnce
<1>1. LegInv /\ IInv /\ Copies => EndToEndOnce
  <2> SUFFICES ASSUME LegInv, IInv, Copies, NEW s \in 1..last, copy[s] # 0
               PROVE  /\ got[copy[s]] <= 1
                      /\ \A t \in 1..last : copy[t] = copy[s] => t = s
                      /\ status[s] \notin Unsubmitted
    BY DEF EndToEndOnce
  <2>1. last \in 0..MaxSeq /\ MaxSeq \in Nat /\ s \in Seqs /\ 1..last \subseteq Seqs
    BY PairAssumption DEF IInv, TypeOK, Seqs
  <2>2. copy[s] \in 1..queued /\ inputs[s] > 0
    BY <2>1 DEF Copies
  <2>3. got \in [1..MaxOut -> 0..1] /\ copy[s] \in 1..MaxOut
    BY <2>2, BoxFacts DEF LegInv, BoxInv, MB!IInv, MB!Out
  <2>4. status[s] \notin Unsubmitted
    BY <2>1, <2>2 DEF IInv, DeliveryInv, WaitingIsUnsent
  <2>5. QED
    BY <2>1, <2>3, <2>4 DEF Copies
<1>2. LegInit => Copies /\ IInv
  BY IInvInit DEF LegInit, Copies
<1>3. LegInv /\ IInv /\ [LegNext]_legvars => IInv'
  BY QueueRefined, IInvStep
<1>4. QED
  BY <1>1, <1>2, <1>3, LegInvInit, LegInvStep, CopiesStep, PTL DEF LegSpec

-----------------------------------------------------------------------------
(* The answers of the peer. *)

\* The mailbox's log only grows, at its end.
LEMMA LogKept ==
  ASSUME LegInv, [LegNext]_legvars
  PROVE  /\ Len(log) \in Nat /\ Len(log') \in Nat /\ Len(log') >= Len(log)
         /\ \A i \in 1..Len(log) : log'[i] = log[i]
  BY MailboxStep, SameNext, MB!LogGrows, BoxAssumption DEF LegInv, BoxInv

\* Rows that stem from a row of the log stem from different ones.
Origins ==
  /\ MB!LogInv
  /\ \A s \in Seqs : origin[s] \in 0..Len(log) /\ (s > last => origin[s] = 0)
  /\ \A s, t \in Seqs : origin[s] # 0 /\ origin[s] = origin[t] => s = t

\* What _collect adds to the table: the messages of its page that are not there
\* yet, in their order.
LEMMA Forwarded ==
  ASSUME LegInv, NEW c \in Controller, Apply(c)
  PROVE  /\ last \in Nat /\ last' \in Nat /\ last' >= last /\ last' <= MaxSeq
         /\ \A s \in Seqs : s \notin (last + 1)..last' => origin'[s] = origin[s]
         /\ \A s \in (last + 1)..last' : s \in Seqs /\ origin'[s] \in Forwards(c)
         /\ \A s, t \in (last + 1)..last' : s < t => origin'[s] < origin'[t]
         /\ \A i \in Forwards(c) : \E s \in (last + 1)..last' : origin'[s] = i
<1>1. last \in 0..MaxSeq /\ MaxSeq \in Nat /\ Reserved \in Nat
  BY PairAssumption DEF LegInv, TypeOK, Reserved
<1>2. PICK n \in last..(MaxSeq - Reserved) : \E f \in [(last + 1)..n -> Forwards(c)] :
        /\ InOrder(f, n, Forwards(c))
        /\ origin' = [s \in Seqs |-> IF s \in (last + 1)..n THEN f[s] ELSE origin[s]]
        /\ last' = n
  BY DEF Apply
<1>3. PICK f \in [(last + 1)..n -> Forwards(c)] :
        /\ InOrder(f, n, Forwards(c))
        /\ origin' = [s \in Seqs |-> IF s \in (last + 1)..n THEN f[s] ELSE origin[s]]
        /\ last' = n
  BY <1>2
<1>4. /\ last' = n /\ n \in Nat /\ n >= last /\ n <= MaxSeq
      /\ \A s \in (last + 1)..n : s \in Seqs
  BY <1>1, <1>2, <1>3 DEF Seqs
<1>5. \A s \in (last + 1)..n : origin'[s] = f[s] /\ f[s] \in Forwards(c)
  BY <1>3, <1>4
<1>6. \A s \in Seqs : s \notin (last + 1)..n => origin'[s] = origin[s]
  BY <1>3
<1> HIDE DEF Reserved
<1>7. /\ \A s, t \in (last + 1)..n : s < t => origin'[s] < origin'[t]
      /\ \A i \in Forwards(c) : \E s \in (last + 1)..n : origin'[s] = i
  BY <1>3, <1>5 DEF InOrder
<1>8. QED
  BY <1>1, <1>4, <1>5, <1>6, <1>7

\* The rows of a page are in the log.
LEMMA PageInLog ==
  ASSUME LegInv, NEW c \in Controller, Len(reading[c]) = 2
  PROVE  /\ reading[c][1] \in Nat /\ reading[c][2] \in Nat
         /\ \A i \in RowsRead(c) : i \in Nat /\ i > reading[c][1] /\ i <= reading[c][2] /\ i \in 1..Len(log)
<1>1. reading[c] \in Seq(Nat) /\ reading[c][2] <= Len(log) /\ Len(log) \in Nat
  BY BoxFacts DEF LegInv, Ranges2, Reads
<1>2. reading[c][1] \in Nat /\ reading[c][2] \in Nat
  BY <1>1
<1>3. QED
  BY <1>1, <1>2 DEF RowsRead

\* Only _collect gives a row an origin.
LEMMA OriginBy ==
  ASSUME [LegNext]_legvars, ~\E c \in Controller : Apply(c) PROVE UNCHANGED origin
  BY DEF LegNext, legvars, own, QueueStep, BoxStep, LegStep, Break, Admit, HandOver, Refuse, ReadCursor, ReadPage

\* No message is forwarded twice: by INSERT OR IGNORE, whatever the cursor says.
LEMMA OriginsStep == ASSUME LegInv, Origins, [LegNext]_legvars PROVE Origins'
<1>1. /\ Len(log) \in Nat /\ Len(log') \in Nat /\ Len(log') >= Len(log)
      /\ last \in Nat /\ last' \in Nat /\ last' >= last
  BY LogKept, QueueRefined, RowsStay, PairAssumption DEF LegInv, TypeOK, RecipientKept
<1>2. MB!LogInv'
  BY MailboxStep, SameNext, MB!LogStep, BoxAssumption DEF LegInv, BoxInv, Origins
<1>3. CASE UNCHANGED origin
  BY <1>1, <1>2, <1>3 DEF Origins, Seqs
<1>4. ASSUME NEW c \in Controller, Apply(c) PROVE Origins'
  <2> DEFINE New == (last + 1)..last'
  <2>0. Len(reading[c]) = 2 /\ MaxSeq \in Nat
    BY <1>4, PairAssumption DEF Apply
  <2>1. /\ \A s \in Seqs : s \notin New => origin'[s] = origin[s]
        /\ \A s \in New : origin'[s] \in Forwards(c)
        /\ \A s, t \in New : s < t => origin'[s] < origin'[t]
    BY <1>4, Forwarded
  <2>2. \A i \in Forwards(c) : i \in 1..Len(log) /\ \A s \in 1..last : origin[s] # i
    <3> SUFFICES ASSUME NEW i \in Forwards(c) PROVE i \in 1..Len(log) /\ \A s \in 1..last : origin[s] # i
      OBVIOUS
    <3>1. i \in RowsRead(c) /\ NotForwarded(i)
      BY DEF Forwards
    <3>2. i \in 1..Len(log)
      BY <2>0, <3>1, PageInLog
    <3>3. QED
      BY <3>1, <3>2 DEF NotForwarded, SameId
  <2>3. \A s \in Seqs : origin'[s] \in 0..Len(log') /\ (s > last' => origin'[s] = 0)
    BY <1>1, <2>1, <2>2 DEF Origins, Seqs
  <2>4. ASSUME NEW s \in Seqs, NEW t \in Seqs, origin'[s] # 0, origin'[s] = origin'[t] PROVE s = t
    <3>1. ASSUME NEW k \in Seqs, NEW l \in Seqs, k \in New, l \notin New, origin'[k] = origin'[l] PROVE FALSE
      <4>1. origin'[l] = origin[l] /\ origin'[k] \in 1..Len(log) /\ \A r \in 1..last : origin[r] # origin'[k]
        BY <2>1, <2>2, <3>1
      <4>2. l > last /\ l \in Seqs
        BY <1>1, <3>1, <4>1 DEF Seqs
      <4>3. QED
        BY <3>1, <4>1, <4>2 DEF Origins
    <3>2. CASE s \in New /\ t \in New
      <4>1. origin'[s] \in Nat /\ s \in Nat /\ t \in Nat
        BY <2>1, <2>2, <3>2 DEF Seqs
      <4>2. ~(s < t) /\ ~(t < s)
        BY <2>1, <2>4, <3>2, <4>1
      <4>3. QED
        BY <4>1, <4>2
    <3>3. CASE s \notin New /\ t \notin New
      BY <2>1, <2>4, <3>3 DEF Origins
    <3>4. QED
      BY <2>4, <3>1, <3>2, <3>3
  <2>5. QED
    BY <1>2, <2>3, <2>4 DEF Origins
<1>5. QED
  BY <1>3, <1>4, OriginBy

\* A message the peer repeats, or one that a crash or an overlapping tick makes
\* _collect read again, becomes one row, however many controllers collect at once.
THEOREM RepeatsIgnored == LegSpec => []RepeatedOnce
<1>1. LegInit => Origins
  BY DEF LegInit, Box!Init, Origins, MB!LogInv
<1>2. Origins /\ LegInv => RepeatedOnce
  <2> SUFFICES ASSUME Origins, LegInv, NEW s \in 1..last, NEW t \in 1..last,
                      origin[s] # 0, origin[t] # 0, SameId(origin[s], origin[t])
               PROVE  s = t
    BY DEF RepeatedOnce
  <2>1. s \in Seqs /\ t \in Seqs
    BY PairAssumption DEF LegInv, TypeOK, Seqs
  <2>2. origin[s] \in 1..Len(log) /\ origin[t] \in 1..Len(log)
    BY <2>1, BoxFacts DEF Origins, LegInv
  <2>3. origin[s] = origin[t]
    BY <2>2 DEF Origins, SameId, MB!LogInv
  <2>4. QED
    BY <2>1, <2>3 DEF Origins
<1>3. QED
  BY <1>1, <1>2, LegInvInit, LegInvStep, OriginsStep, PTL DEF LegSpec

\* With one controller the cursor stays where the page that is held begins, and
\* all that was forwarded lies behind it.
Cursored ==
  /\ lcursor <= Len(log)
  /\ \A s \in Seqs : origin[s] <= lcursor
  /\ \A c \in Controller : /\ reading[c] # <<>> => reading[c][1] = lcursor
                           /\ Len(reading[c]) = 2 => lcursor <= reading[c][2]

\* The cursor moves to the end of the page, which is not behind it.
LEMMA CursorMove ==
  ASSUME LegInv, Cursored, NEW c \in Controller, Apply(c)
  PROVE  /\ lcursor' \in Nat /\ lcursor' = reading[c][2] /\ lcursor' >= lcursor /\ lcursor' <= Len(log)
         /\ RowsRead(c) = (lcursor + 1)..lcursor'
<1>1. Len(reading[c]) = 2 /\ reading[c] \in Seq(Nat) /\ lcursor \in Nat
  BY DEF Apply, LegInv, Ranges2
<1>2. /\ reading[c][1] \in Nat /\ reading[c][2] \in Nat /\ reading[c] # <<>>
      /\ reading[c][2] <= Len(log)
  BY <1>1, PageInLog DEF LegInv, Reads
<1>3. reading[c][1] = lcursor /\ lcursor <= reading[c][2]
  BY <1>1, <1>2 DEF Cursored
<1>4. lcursor' = reading[c][2]
  <2>1. lcursor' = CursorMoves(c)
    BY DEF Apply
  <2>2. CASE RowsRead(c) = {}
    BY <1>2, <1>3, <2>1, <2>2 DEF CursorMoves, RowsRead
  <2>3. QED
    BY <2>1, <2>2 DEF CursorMoves
<1>5. QED
  BY <1>1, <1>2, <1>3, <1>4 DEF RowsRead

\* A controller that holds nothing has read nothing.
LEMMA EmptyPage == Len(<<>>) = 0
  OBVIOUS

\* Whoever holds a page is the only controller at work.
LEMMA OnlyReader ==
  ASSUME LegInv, OneController, NEW c \in Controller, Len(reading[c]) = 2,
         NEW d \in Controller, d # c
  PROVE  reading[d] = <<>> /\ pc[d] = "down"
<1>1. reading[c] # <<>>
  BY EmptyPage
<1>2. pc[c] = "collect"
  BY <1>1 DEF LegInv, Reads
<1>3. pc[d] = "down"
  BY <1>2, Alone DEF LegInv
<1>4. QED
  BY <1>3 DEF LegInv, Reads

\* Only _collect moves the cursor, and only one controller collects.
LEMMA CursoredStep == ASSUME LegInv, IInv, Origins, Cursored, [LegNext]_legvars PROVE Cursored'
<1>1. /\ Len(log) \in Nat /\ Len(log') \in Nat /\ Len(log') >= Len(log) /\ lcursor \in Nat
      /\ origin \in [Seqs -> Nat] /\ reading \in [Controller -> Seq(Nat)] /\ OneController
  BY LogKept DEF LegInv, Ranges2, IInv, DeliveryInv
<1>2. ASSUME UNCHANGED <<origin, lcursor>>,
             \A d \in Controller : \/ reading'[d] \in {reading[d], <<>>, <<lcursor>>}
                                   \/ \E n \in Nat : n >= lcursor /\ reading'[d] = <<lcursor, n>>
      PROVE  Cursored'
  <2>1. ASSUME NEW d \in Controller
        PROVE  /\ reading'[d] # <<>> => reading'[d][1] = lcursor
               /\ Len(reading'[d]) = 2 => lcursor <= reading'[d][2]
    <3>1. CASE reading'[d] = reading[d]
      BY <1>1, <3>1 DEF Cursored
    <3>2. CASE reading'[d] \in {<<>>, <<lcursor>>}
      BY <1>1, <3>2
    <3>3. CASE \E n \in Nat : n >= lcursor /\ reading'[d] = <<lcursor, n>>
      BY <1>1, <3>3
    <3>4. QED
      BY <1>2, <3>1, <3>2, <3>3
  <2>2. QED
    BY <1>1, <1>2, <2>1 DEF Cursored
<1>3. CASE QueueStep \/ BoxStep \/ UNCHANGED legvars
  BY <1>2, <1>3 DEF QueueStep, BoxStep, legvars, own
<1>4. ASSUME NEW c \in Controller, LegStep(c), ~Apply(c) PROVE Cursored'
  <2>1. CASE Admit(c) \/ HandOver(c) \/ Refuse(c)
    BY <1>2, <2>1 DEF Admit, HandOver, Refuse, own
  <2>2. CASE ReadCursor(c)
    BY <1>1, <1>2, <2>2 DEF ReadCursor
  <2>3. CASE ReadPage(c)
    <3>0. Len(reading[c]) = 1
      BY <2>3 DEF ReadPage
    <3>1. reading[c] # <<>>
      BY <3>0, EmptyPage
    <3>2. reading[c][1] = lcursor
      BY <3>1 DEF Cursored
    <3>3. PICK n \in lcursor..Len(log) : reading' = [reading EXCEPT ![c] = <<lcursor, n>>]
      BY <2>3, <3>2 DEF ReadPage
    <3>4. QED
      BY <1>1, <1>2, <2>3, <3>3 DEF ReadPage
  <2>4. QED
    BY <1>4, <2>1, <2>2, <2>3 DEF LegStep
<1>5. ASSUME NEW c \in Controller, Apply(c) PROVE Cursored'
  <2>1. Len(reading[c]) = 2 /\ reading' = [reading EXCEPT ![c] = <<>>]
    BY <1>5 DEF Apply
  <2>2. \A d \in Controller : reading'[d] = <<>>
    BY <1>1, <2>1, OnlyReader
  <2>3. \A s \in Seqs : origin'[s] <= lcursor'
    <3> SUFFICES ASSUME NEW s \in Seqs PROVE origin'[s] <= lcursor'
      OBVIOUS
    <3>1. lcursor' \in Nat /\ lcursor' >= lcursor /\ RowsRead(c) = (lcursor + 1)..lcursor'
      BY <1>5, CursorMove
    <3>2. CASE origin'[s] = origin[s]
      BY <1>1, <3>1, <3>2 DEF Cursored
    <3>3. CASE origin'[s] \in Forwards(c)
      BY <1>1, <3>1, <3>3 DEF Forwards
    <3>4. QED
      BY <1>5, <3>2, <3>3, Forwarded
  <2>4. \A d \in Controller : ~(Len(reading'[d]) = 2)
    BY <2>2
  <2>5. lcursor' <= Len(log')
    BY <1>1, <1>5, CursorMove
  <2>6. QED
    BY <2>2, <2>3, <2>4, <2>5 DEF Cursored
<1>6. ASSUME NEW c \in Controller, Break(c) PROVE Cursored'
  BY <1>1, <1>2, <1>6 DEF Break
<1>7. QED
  BY <1>3, <1>4, <1>5, <1>6 DEF LegNext

\* New rows stem from messages behind the cursor.
LEMMA InOrderStep ==
  ASSUME LegInv, Origins, Cursored, AnswersOnce, [LegNext]_legvars PROVE AnswersOnce'
<1>1. /\ last \in 0..MaxSeq /\ MaxSeq \in Nat /\ origin \in [Seqs -> Nat] /\ lcursor \in Nat
      /\ last' \in Nat /\ last' >= last /\ last' <= MaxSeq
  BY QueueRefined, RowsStay, PairAssumption DEF LegInv, TypeOK, Ranges2, RecipientKept
<1> SUFFICES ASSUME NEW s \in 1..last', NEW t \in 1..last', origin'[s] # 0, origin'[t] # 0, s < t
             PROVE  origin'[s] < origin'[t]
  BY DEF AnswersOnce
<1>2. s \in Seqs /\ t \in Seqs
  BY <1>1 DEF Seqs
<1>3. CASE UNCHANGED origin
  <2>1. s \in 1..last /\ t \in 1..last
    BY <1>1, <1>2, <1>3 DEF Origins
  <2>2. QED
    BY <1>3, <2>1 DEF AnswersOnce
<1>4. ASSUME NEW c \in Controller, Apply(c) PROVE origin'[s] < origin'[t]
  <2>1. /\ \A k \in Seqs : k \notin (last + 1)..last' => origin'[k] = origin[k]
        /\ \A k \in (last + 1)..last' : origin'[k] \in Forwards(c)
        /\ \A k, l \in (last + 1)..last' : k < l => origin'[k] < origin'[l]
    BY <1>4, Forwarded
  <2>2. \A i \in Forwards(c) : i \in Nat /\ i > lcursor
    BY <1>1, <1>4, CursorMove DEF Forwards
  <2>3. CASE t \in 1..last
    <3>1. s \in 1..last /\ origin'[s] = origin[s] /\ origin'[t] = origin[t]
      BY <1>1, <1>2, <2>1, <2>3
    <3>2. QED
      BY <2>3, <3>1 DEF AnswersOnce
  <2>4. CASE s \in 1..last /\ t \in (last + 1)..last'
    <3>1. origin'[s] = origin[s] /\ origin[s] <= lcursor /\ origin[s] \in Nat
      BY <1>1, <1>2, <2>1, <2>4 DEF Cursored
    <3>2. QED
      BY <1>1, <2>1, <2>2, <2>4, <3>1
  <2>5. CASE s \in (last + 1)..last' /\ t \in (last + 1)..last'
    BY <2>1, <2>5
  <2>6. QED
    BY <1>1, <2>3, <2>4, <2>5
<1>5. QED
  BY <1>3, <1>4, OriginBy

\* Initially nothing was read or forwarded.
LEMMA LegNothing == LegInit => Origins /\ Cursored
<1> SUFFICES ASSUME LegInit PROVE Origins /\ Cursored
  OBVIOUS
<1>1. /\ origin = [s \in Seqs |-> 0] /\ lcursor = 0 /\ last = 0 /\ log = <<>>
      /\ \A c \in Controller : reading[c] = <<>>
  BY DEF LegInit, Init, Box!Init
<1>2. Cursored
  BY <1>1, EmptyPage DEF Cursored
<1>3. QED
  BY <1>1, <1>2 DEF LegInit, Box!Init, Origins, MB!LogInv

\* The messages of the peer enter the pair once and in their order, across crashes
\* of the controller between the page and its application.
THEOREM AnswersKeepOrder == ASSUME Exclusive PROVE LegSpec => []AnswersOnce
<1>1. LegInit => Origins /\ Cursored /\ AnswersOnce /\ IInv
  BY LegNothing, IInvInit DEF LegInit, Init, AnswersOnce
<1>2. LegInv /\ IInv /\ [LegNext]_legvars => IInv'
  BY QueueRefined, IInvStep
<1>3. QED
  BY <1>1, <1>2, LegInvInit, LegInvStep, OriginsStep, CursoredStep, InOrderStep, PTL DEF LegSpec

\* Every mailbox row is the copy of a pair row, and what the cursor has passed
\* is about no row whose wire id is about to be recorded.
Recorded ==
  /\ \A m \in 1..queued : \E s \in 1..last : Copied(s, m)
  /\ \A c \in Controller :
       pc[c] = "finish" /\ recipient[pick[c]] = Leg /\ result[c].wire = "mailbox" =>
         \A i \in 1..lcursor : log[i].re # copy[pick[c]]

\* A row that has a copy keeps it, since it is not handed over again.
LEMMA CopyKept ==
  ASSUME LegInv, IInv, Copies, [LegNext]_legvars, NEW s \in 1..last, copy[s] # 0
  PROVE  copy'[s] = copy[s] /\ recipient'[s] = recipient[s] /\ s \in 1..last' /\ s \in Seqs
<1>0. RecipientKept /\ last \in 0..MaxSeq /\ MaxSeq \in Nat /\ copy \in [Seqs -> 0..MaxOut]
  BY QueueRefined, RowsStay, PairAssumption DEF LegInv, TypeOK, Ranges2
<1>1. s \in Seqs /\ s \in 1..last' /\ recipient'[s] = recipient[s] /\ copy \in [Seqs -> 0..MaxOut]
  BY <1>0 DEF RecipientKept, Seqs
<1>2. ASSUME NEW c \in Controller, HandOver(c) PROVE copy'[s] = copy[s]
  <2>1. inputs[pick[c]] = 0 /\ copy' = [copy EXCEPT ![pick[c]] = queued + 1]
    BY <1>2 DEF HandOver, ToLeg, IInv, DeliveryInv, PickTracksRow
  <2>2. pick[c] # s
    BY <1>1, <2>1 DEF Copies
  <2>3. QED
    BY <1>1, <2>1, <2>2
<1>3. ASSUME UNCHANGED copy PROVE copy'[s] = copy[s]
  BY <1>3
<1>4. copy'[s] = copy[s]
  BY <1>2, <1>3 DEF LegNext, legvars, own, QueueStep, BoxStep, LegStep, Break, Admit, Refuse, ReadCursor, ReadPage,
     Apply
<1>5. QED
  BY <1>1, <1>4

\* A wire id is recorded at the end of the tick that got it.
LEMMA WireBy ==
  ASSUME TypeOK, HoldsRow, [Next]_vars, NEW s \in Seqs, wire_id[s] # "mailbox", wire_id'[s] = "mailbox"
  PROVE  \E c \in Controller : /\ pc[c] = "finish" /\ pick[c] = s /\ result[c].wire = "mailbox"
                              /\ status'[s] = result[c].status
<1>1. PICK c \in Controller : Finish(c)
  BY DEF Next, TickStep, Send, Notify, Start, Recover, Disconnect, Crash, Abort, TickBegin, ReconcilePage, Observe,
     Collect, Select, Validate, Claim, Deliver, RetryCheck, RetryApply, vars, columns
<1>2. pc[c] = "finish" /\ wire_id \in [Seqs -> Turn \cup {"mailbox", None}] /\ status \in [Seqs -> Statuses]
  BY <1>1 DEF Finish, TypeOK
<1>3. QED
  BY <1>1, <1>2 DEF Finish

\* A step other than _collect's leaves the cursor and what was forwarded alone.
LEMMA CursorBy ==
  ASSUME [LegNext]_legvars, ~\E c \in Controller : Apply(c) PROVE UNCHANGED <<lcursor, origin>>
  BY DEF LegNext, legvars, own, QueueStep, BoxStep, LegStep, Break, Admit, HandOver, Refuse, ReadCursor, ReadPage

\* Only a hand-over makes a mailbox row, and only for the row that is handed over.
LEMMA CopyBy ==
  ASSUME [LegNext]_legvars, ~\E c \in Controller : HandOver(c) PROVE UNCHANGED copy
  BY DEF LegNext, legvars, own, QueueStep, BoxStep, LegStep, Break, Admit, Refuse, ReadCursor, ReadPage, Apply

\* No step but a hand-over adds to the mailbox.
LEMMA QueuedBy ==
  ASSUME [LegNext]_legvars, ~\E c \in Controller : HandOver(c) PROVE UNCHANGED queued
  BY DEF LegNext, legvars, box, QueueStep, BoxStep, LegStep, Break, Admit, Refuse, ReadCursor, ReadPage, Apply,
     Withdraw, Box!CheckRunning, Box!GiveUp, Box!Start, Box!Settle, Box!Take, Box!SendWire, Box!RecordOutcome,
     Box!Exit, Box!ReceiveFrame, Box!PeerReports, Box!PeerWrites, Box!Lose

\* A row gets its mailbox row when it is handed over.
LEMMA RecordedStep ==
  ASSUME LegInv, IInv, Copies, Origins, Cursored, Recorded, [LegNext]_legvars PROVE Recorded'
<1>1. /\ queued \in Nat /\ Len(log) \in Nat /\ lcursor \in Nat /\ lcursor <= Len(log)
      /\ \A i \in 1..Len(log) : log'[i] = log[i]
      /\ TypeOK /\ [Next]_vars /\ OneController /\ LiveHasPosition /\ RecipientKept
  BY BoxFacts, LogKept, QueueRefined, RowsStay DEF LegInv, Ranges2, Cursored, IInv, DeliveryInv
<1>2. ASSUME NEW m \in 1..queued' PROVE \E s \in 1..last' : recipient'[s] = Leg /\ copy'[s] = m
  <2>1. CASE m \in 1..queued
    <3>1. PICK s \in 1..last : Copied(s, m)
      BY <2>1 DEF Recorded
    <3>2. copy[s] = m /\ m # 0 /\ recipient[s] = Leg
      BY <1>1, <2>1, <3>1 DEF Copied
    <3>3. QED
      BY <3>2, CopyKept
  <2>2. CASE m \notin 1..queued
    <3>1. queued' # queued
      BY <2>2
    <3>2. PICK c \in Controller : HandOver(c)
      BY <3>1, QueuedBy
    <3>3. /\ pick[c] \in 1..last /\ recipient[pick[c]] = Leg /\ queued' = queued + 1
          /\ copy' = [copy EXCEPT ![pick[c]] = queued + 1]
      BY <3>2 DEF HandOver, ToLeg, Box!QueueMessage, IInv, DeliveryInv, PickTracksRow
    <3>4. pick[c] \in Seqs /\ pick[c] \in 1..last' /\ recipient'[pick[c]] = Leg /\ copy \in [Seqs -> 0..MaxOut]
      BY <1>1, <3>3, PairAssumption DEF RecipientKept, LegInv, Ranges2, TypeOK, Seqs
    <3>5. m = queued + 1
      BY <1>1, <2>2, <3>3
    <3>6. QED
      BY <3>3, <3>4, <3>5
  <2>3. QED
    BY <2>1, <2>2
<1>3. ASSUME NEW c \in Controller, pc'[c] = "finish", recipient'[pick'[c]] = Leg, result'[c].wire = "mailbox",
             NEW i \in 1..lcursor'
      PROVE  log'[i].re # copy'[pick'[c]]
  <2>0. pc[c] # "down"
    BY <1>1, <1>3, FinishBy DEF Deliver
  <2>1. UNCHANGED <<lcursor, origin>>
    <3>1. ASSUME NEW d \in Controller, Apply(d) PROVE FALSE
      <4>1. Len(reading[d]) = 2 /\ UNCHANGED pc
        BY <3>1 DEF Apply
      <4>2. pc[d] = "collect"
        BY <4>1, EmptyPage DEF LegInv, Reads
      <4>3. c # d
        BY <1>3, <4>1, <4>2
      <4>4. QED
        BY <1>1, <2>0, <4>2, <4>3, Alone
    <3>2. QED
      BY <3>1, CursorBy
  <2>2. i \in 1..lcursor /\ i \in 1..Len(log) /\ log'[i] = log[i]
    BY <1>1, <2>1
  <2>3. CASE pc[c] = "finish" /\ result'[c] = result[c] /\ pick'[c] = pick[c]
    <3>1. pick[c] \in 1..last
      BY <2>3 DEF LegInv, Picked, Holding
    <3>2. recipient[pick[c]] = Leg
      BY <1>1, <1>3, <2>3, <3>1 DEF RecipientKept
    <3>3. log[i].re # copy[pick[c]]
      BY <1>3, <2>2, <2>3, <3>2 DEF Recorded
    <3>4. copy' = copy
      <4>1. ASSUME NEW d \in Controller, HandOver(d) PROVE FALSE
        <5>1. pc[d] = "deliver" /\ pc' = [pc EXCEPT ![d] = "finish"]
          BY <4>1 DEF HandOver, ToLeg, Returned
        <5>2. QED
          BY <1>1, <2>0, <2>3, <5>1, Alone
      <4>2. QED
        BY <4>1, CopyBy
    <3>5. QED
      BY <2>2, <2>3, <3>3, <3>4
  <2>4. CASE Deliver(c)
    <3>1. pick'[c] = pick[c] /\ pick[c] \in 1..last
      BY <2>4 DEF Deliver, LegInv, Picked, Holding
    <3>2. recipient[pick[c]] = Leg /\ pick[c] \in Seqs
      BY <1>1, <1>3, <3>1, PairAssumption DEF RecipientKept, TypeOK, Seqs
    <3>3. HandOver(c) \/ Refuse(c)
      BY <2>4, <3>2, LegDelivers
    <3>4. HandOver(c)
      <4>1. ASSUME Refuse(c) PROVE FALSE
        <5>1. result' = [result EXCEPT ![c] = [status |-> "unknown", wire |-> None]] /\ None # "mailbox"
          BY <4>1, PairAssumption DEF Refuse, Returned
        <5>2. QED
          BY <1>1, <1>3, <5>1 DEF TypeOK
      <4>2. QED
        BY <3>3, <4>1
    <3>5. copy' = [copy EXCEPT ![pick[c]] = queued + 1] /\ copy \in [Seqs -> 0..MaxOut]
      BY <3>4 DEF HandOver, LegInv, Ranges2
    <3>6. log[i].re \in 0..queued
      BY <1>3, <2>2 DEF Origins, MB!LogInv
    <3>7. QED
      BY <1>1, <2>2, <3>1, <3>2, <3>5, <3>6
  <2>5. QED
    BY <1>1, <1>3, <2>3, <2>4, FinishBy
<1>4. QED
  BY <1>2, <1>3 DEF Recorded, Copied

\* What the cursor passes is forwarded, was forwarded, or answers a row that lost
\* its wire id; and a wire id that is lost stays lost.
LEMMA NotLostStep ==
  ASSUME LegInv, IInv, Copies, Origins, Cursored, Recorded, NoAnswerLost, [LegNext]_legvars PROVE NoAnswerLost'
<1>0. last \in Nat /\ MaxSeq \in Nat /\ last <= MaxSeq
  BY PairAssumption DEF LegInv, TypeOK
<1>1. /\ queued \in Nat /\ Len(log) \in Nat /\ lcursor \in Nat /\ lcursor <= Len(log)
      /\ Len(log') \in Nat /\ Len(log') >= Len(log)
      /\ \A i \in 1..Len(log) : log'[i] = log[i]
      /\ TypeOK /\ HoldsRow /\ [Next]_vars /\ RecipientKept
  BY BoxFacts, LogKept, QueueRefined, RowsStay DEF LegInv, Ranges2, Cursored
<1> SUFFICES ASSUME NEW i \in 1..lcursor', log'[i].dir = "in", log'[i].thread \in Accepted
             PROVE  (\E s \in 1..last' : origin'[s] = i) \/ Orphan(i)'
  BY DEF NoAnswerLost
<1>2. ASSUME NEW s \in 1..last, origin[s] = i PROVE \E t \in 1..last' : origin'[t] = i
  <2>1. s \in Seqs /\ s \in 1..last' /\ s \notin (last + 1)..last'
    BY <1>0, <1>1 DEF RecipientKept, Seqs
  <2>2. origin'[s] = origin[s]
    BY <2>1, Forwarded, OriginBy
  <2>3. QED
    BY <1>2, <2>1, <2>2
<1>3. ASSUME i \in 1..Len(log), log[i].re # 0, NEW s \in 1..last, Copied(s, log[i].re), wire_id'[s] # "mailbox"
      PROVE  Orphan(i)'
  <2>1. copy'[s] = copy[s] /\ recipient'[s] = recipient[s] /\ s \in 1..last'
    BY <1>3, CopyKept DEF Copied
  <2>2. log'[i] = log[i] /\ i \in 1..Len(log')
    BY <1>1, <1>3
  <2>3. QED
    BY <1>3, <2>1, <2>2 DEF Orphan, Copied
<1>4. CASE i \in 1..lcursor
  <2>1. i \in 1..Len(log) /\ log'[i] = log[i]
    BY <1>1, <1>4
  <2>2. CASE Orphan(i)
    <3>1. PICK s \in 1..last : Copied(s, log[i].re) /\ wire_id[s] # "mailbox"
      BY <2>2 DEF Orphan
    <3>2. s \in Seqs
      BY <1>0 DEF Seqs
    <3>3. ASSUME wire_id'[s] = "mailbox" PROVE FALSE
      <4>1. PICK c \in Controller : pc[c] = "finish" /\ pick[c] = s /\ result[c].wire = "mailbox"
        BY <1>1, <3>1, <3>2, <3>3, WireBy
      <4>2. recipient[pick[c]] = Leg /\ log[i].re = copy[pick[c]] /\ log[i].dir = "in"
        BY <2>1, <3>1, <4>1 DEF Copied
      <4>3. QED
        BY <1>4, <4>1, <4>2 DEF Recorded
    <3>4. QED
      BY <1>3, <2>1, <2>2, <3>1, <3>3 DEF Orphan
  <2>3. QED
    BY <1>2, <1>4, <2>1, <2>2 DEF NoAnswerLost
<1>5. CASE i \notin 1..lcursor
  <2>1. PICK c \in Controller : Apply(c)
    BY <1>5, CursorBy
  <2>2. i \in RowsRead(c) /\ Len(reading[c]) = 2
    <3>1. lcursor' \in Nat /\ RowsRead(c) = (lcursor + 1)..lcursor'
      BY <2>1, CursorMove
    <3>2. Len(reading[c]) = 2
      BY <2>1 DEF Apply
    <3>3. QED
      BY <1>1, <1>5, <3>1, <3>2
  <2>3. i \in 1..Len(log) /\ log'[i] = log[i] /\ UNCHANGED wire_id
    BY <1>1, <2>1, <2>2, PageInLog DEF Apply
  <2>4. CASE i \in Forwards(c)
    BY <1>0, <2>1, <2>4, Forwarded
  <2>5. CASE ~NotForwarded(i)
    <3>1. PICK s \in 1..last : origin[s] # 0 /\ SameId(i, origin[s])
      BY <2>5 DEF NotForwarded
    <3>2. s \in Seqs
      BY <1>0 DEF Seqs
    <3>3. origin[s] \in 1..Len(log)
      BY <1>1, <3>1, <3>2 DEF Origins
    <3>4. origin[s] = i
      BY <2>3, <3>1, <3>3 DEF Origins, SameId, MB!LogInv
    <3>5. QED
      BY <1>2, <3>4
  <2>6. CASE log[i].re # 0 /\ ~\E s \in 1..last : HasWire(s, log[i].re)
    <3>1. log[i].re \in 1..queued
      BY <1>1, <2>3, <2>6 DEF Origins, MB!LogInv
    <3>2. PICK s \in 1..last : Copied(s, log[i].re)
      BY <3>1 DEF Recorded
    <3>3. wire_id[s] # "mailbox"
      BY <2>6, <3>2 DEF Copied, HasWire
    <3>4. QED
      BY <1>3, <2>3, <2>6, <3>2, <3>3
  <2>7. QED
    BY <2>2, <2>3, <2>4, <2>5, <2>6 DEF Forwards
<1>6. QED
  BY <1>4, <1>5

\* Whatever crashes, what the controller has passed in the mailbox is in the pair,
\* or answers a message whose hand-over was not recorded.
THEOREM AnswersKept == ASSUME Exclusive PROVE LegSpec => []NoAnswerLost
<1>1. LegInit => Origins /\ Cursored /\ Copies /\ Recorded /\ NoAnswerLost /\ IInv
  <2> SUFFICES ASSUME LegInit PROVE Origins /\ Cursored /\ Copies /\ Recorded /\ NoAnswerLost /\ IInv
    OBVIOUS
  <2>1. /\ copy = [s \in Seqs |-> 0] /\ lcursor = 0 /\ queued = 0 /\ pc \in [Controller -> {"notify", "down"}]
    BY DEF LegInit, Init, Box!Init
  <2>2. Origins /\ Cursored
    BY LegNothing
  <2>3. Copies /\ Recorded /\ NoAnswerLost
    BY <2>1 DEF Copies, Recorded, NoAnswerLost
  <2>4. QED
    BY <2>2, <2>3, IInvInit DEF LegInit
<1>2. LegInv /\ IInv /\ [LegNext]_legvars => IInv'
  BY QueueRefined, IInvStep
<1>3. QED
  BY <1>1, <1>2, LegInvInit, LegInvStep, OriginsStep, CursoredStep, CopiesStep, RecordedStep, NotLostStep, PTL
     DEF LegSpec

-----------------------------------------------------------------------------
(* The statuses that the pair shows. *)

\* Only Codex rows are asked about.
Asked == \A c \in Controller : \A s \in todo[c] : s \in 1..last /\ recipient[s] \notin Claude

\* A page of reconcile_codex holds Codex rows, and a row keeps its recipient.
LEMMA AskedStep == ASSUME TypeOK, Asked, [Next]_vars PROVE Asked'
<1>0. RecipientKept /\ todo \in [Controller -> SUBSET Seqs] /\ last \in Nat
  BY RowsStay, PairAssumption DEF TypeOK
<1>1. ASSUME \A d \in Controller : \A s \in todo'[d] : s \in todo[d] \/ (s \in 1..last /\ recipient[s] \notin Claude)
      PROVE  Asked'
  BY <1>0, <1>1 DEF Asked, RecipientKept
<1>2. ASSUME NEW c \in Controller, ReconcilePage(c) PROVE Asked'
  <2>1. todo' = [todo EXCEPT ![c] = Page(Unresolved(cursor))]
    BY <1>2 DEF ReconcilePage
  <2>2. \A s \in Page(Unresolved(cursor)) : s \in 1..last /\ recipient[s] \notin Claude
    BY <1>0 DEF Page, Unresolved, TypeOK
  <2>3. QED
    BY <1>0, <1>1, <2>1, <2>2
<1>3. ASSUME NEW c \in Controller, Observe(c) PROVE Asked'
  BY <1>0, <1>1, <1>3 DEF Observe
<1>4. ASSUME NEW c \in Controller, Crash(c) \/ Abort(c) \/ Finish(c) PROVE Asked'
  BY <1>0, <1>1, <1>4 DEF Crash, Abort, Finish, Reset
<1>5. CASE UNCHANGED todo
  BY <1>1, <1>5
<1>6. QED
  BY <1>2, <1>3, <1>4, <1>5 DEF Next, TickStep, Start, Recover, Disconnect, Notify, Send, TickBegin, Collect, Select,
     Validate, Claim, Deliver, RetryCheck, RetryApply, vars, local

\* Only _collect changes the status of a row that went to the mailbox.
LEMMA StatusBy ==
  ASSUME LegInv, IInv, Asked, [LegNext]_legvars, ~\E c \in Controller : Apply(c),
         NEW s \in 1..last, wire_id[s] = "mailbox", recipient[s] = Leg
  PROVE  status'[s] = status[s]
<1>0. /\ status \in [Seqs -> Statuses] /\ s \in Seqs /\ last \in 0..MaxSeq /\ MaxSeq \in Nat
      /\ status[s] \notin {"queued", "deferred", "blocked", "sending"} /\ recipient[s] \in Claude
      /\ PickTracksRow
  BY PairAssumption, LegAssumption DEF IInv, TypeOK, Seqs, DeliveryInv, MailboxIsSettled, Unsubmitted
<1>1. ASSUME UNCHANGED status PROVE status'[s] = status[s]
  BY <1>1
<1>2. CASE QueueStep
  <2>1. ASSUME NEW p \in Participant, Send(p) PROVE status'[s] = status[s]
    BY <1>0, <2>1 DEF Send, Insert
  <2>2. ASSUME NEW c \in Controller, Notify(c) PROVE status'[s] = status[s]
    <3>1. status' = [status EXCEPT ![last + 1] = "queued", ![last + 2] = "queued"]
      BY <2>2 DEF Notify
    <3>2. QED
      BY <1>0, <3>1
  <2>3. ASSUME NEW c \in Controller, Recover(c) \/ Disconnect(c) PROVE status'[s] = status[s]
    BY <1>0, <2>3 DEF Recover, Recovered, Disconnect, Cancelled
  <2>4. ASSUME NEW c \in Controller, Observe(c) PROVE status'[s] = status[s]
    <3>1. PICK found \in Scans(c) :
            status' = [k \in Seqs |-> IF k \in found THEN "input_observed" ELSE status[k]]
      BY <2>4 DEF Observe
    <3>2. s \notin found
      BY <1>0 DEF Scans, Group, Asked
    <3>3. QED
      BY <1>0, <3>1, <3>2
  <2>5. ASSUME NEW c \in Controller, Validate(c) \/ Claim(c) PROVE status'[s] = status[s]
    BY <1>0, <2>5 DEF Validate, Claim, PickTracksRow, Pending
  <2>6. ASSUME NEW c \in Controller, Finish(c) PROVE status'[s] = status[s]
    BY <1>0, <2>6 DEF Finish, PickTracksRow
  <2>7. ASSUME NEW c \in Controller, NEW p \in Claude \ {Leg}, Collect(c, p) PROVE status'[s] = status[s]
    <3>1. PICK n \in last..(MaxSeq - Reserved) :
            \E new \in [Handed(p) -> PeerStatus \cup {"same"}] :
              status' = [r \in Seqs |-> IF r \in (last + 1)..n THEN "queued"
                           ELSE IF r \in Handed(p) /\ new[r] # "same" THEN new[r] ELSE status[r]]
      BY <2>7 DEF Collect
    <3>2. s \notin Handed(p) /\ s \notin (last + 1)..n
      BY <1>0 DEF Handed
    <3>3. QED
      BY <1>0, <3>1, <3>2
  <2>8. ASSUME RetryCheck \/ RetryApply PROVE status'[s] = status[s]
    BY <1>0, <2>8 DEF RetryCheck, RetryApply, Requeued
  <2>9. ASSUME NEW c \in Controller, Start(c) \/ TickBegin(c) \/ ReconcilePage(c) \/ Select(c) \/ Deliver(c)
        PROVE  status'[s] = status[s]
    BY <1>1, <2>9 DEF Start, TickBegin, ReconcilePage, Select, Deliver
  <2>10. QED
    BY <1>2, <2>1, <2>2, <2>3, <2>4, <2>5, <2>6, <2>7, <2>8, <2>9 DEF QueueStep
<1>3. CASE BoxStep \/ UNCHANGED legvars
  BY <1>1, <1>3 DEF BoxStep, legvars, vars
<1>4. ASSUME NEW c \in Controller, LegStep(c) \/ Break(c) PROVE status'[s] = status[s]
  BY <1>1, <1>4 DEF LegStep, Break, Admit, HandOver, Refuse, Returned, ReadCursor, ReadPage, Crash, Abort, vars
<1>5. QED
  BY <1>2, <1>3, <1>4 DEF LegNext

Below == {p \in Nat \X Nat : p[1] < p[2]}

\* The order of the naturals, as a set of pairs.
LEMMA BelowWellFounded == IsWellFoundedOn(Below, Nat)
<1>1. OpToRel(<, Nat) = Below
  BY DEF OpToRel, Below
<1>2. QED
  BY <1>1, NatLessThanWellFounded

\* A set of rows of a log has a last one: what CHOOSE in ByReceipt relies on.
LEMMA HasLatest == ASSUME NEW n \in Nat, NEW rows \in SUBSET (1..n), rows # {} PROVE Latest(rows) # {}
<1> DEFINE T == {n - i : i \in rows}
<1>1. \A i \in rows : i \in 1..n /\ n - i \in Nat
  OBVIOUS
<1>2. T \subseteq Nat /\ T # {}
  <2>1. PICK i \in rows : TRUE
    OBVIOUS
  <2>2. n - i \in T
    OBVIOUS
  <2>3. QED
    BY <1>1, <2>2
<1>3. PICK x \in T : \A y \in T : ~(<<y, x>> \in Below)
  <2> HIDE DEF T
  <2> QED
    BY <1>2, BelowWellFounded, WFMin
<1>4. PICK i \in rows : x = n - i
  BY <1>3
<1>5. ASSUME NEW j \in rows PROVE j <= i
  <2>1. n - j \in T /\ n - j \in Nat /\ n - i \in Nat
    BY <1>1
  <2>2. ~(<<n - j, n - i>> \in Below)
    BY <1>3, <1>4, <2>1
  <2>3. ~(n - j < n - i)
    BY <2>1, <2>2 DEF Below
  <2>4. QED
    BY <1>1, <2>3
<1>6. QED
  BY <1>5 DEF Latest

\* What the mailbox knows of receipts.
Receipts == MB!ReceiptKnown /\ MB!ReceiptWins /\ MB!HasReceipt

\* It holds of the leg's mailbox.
LEMMA ReceiptsStep == ASSUME LegInv, Receipts, [LegNext]_legvars PROVE Receipts'
  BY MailboxStep, SameNext, MB!ReceiptStep, MB!HasReceiptStep, BoxAssumption DEF LegInv, BoxInv, Receipts

\* A row shows a receipt the cursor has not reached, or the last that it passed,
\* or the outcome of the transport if it passed none.
Shown(s) ==
  \/ \E i \in (lcursor + 1)..Len(log) : log[i].dir = "receipt" /\ log[i].re = copy[s] /\ status[s] = log[i].status
  \/ Collected(copy[s]) = {} /\ status[s] \in {"queued_peer", "sent", "unknown"}
  \/ \E i \in Latest(Collected(copy[s])) : status[s] = log[i].status
Current ==
  \A s \in 1..last : recipient[s] = Leg /\ wire_id[s] = "mailbox" => copy[s] \in 1..queued /\ Shown(s)

\* _collect shows the last receipt of its page, or what the mailbox shows.
LEMMA ApplyShows ==
  ASSUME LegInv, Cursored, Receipts, NEW c \in Controller, Apply(c),
         NEW s \in 1..last, s \in Seqs, recipient[s] = Leg, wire_id[s] = "mailbox", copy[s] \in 1..queued, Shown(s),
         status'[s] = Carried(c, s)
  PROVE  Shown(s)'
<1> DEFINE m == copy[s]
           R == ReceiptsFor(c, s)
<1>0. /\ Len(log) \in Nat /\ log' = log /\ copy' = copy /\ queued \in 0..MaxOut /\ MaxOut \in Nat
      /\ lcursor \in Nat /\ lcursor' \in Nat /\ lcursor' >= lcursor /\ lcursor' <= Len(log)
      /\ RowsRead(c) = (lcursor + 1)..lcursor'
  BY BoxFacts, CursorMove DEF Apply, box, LegInv, Ranges2
<1>1. R = {i \in (lcursor + 1)..lcursor' : log[i].dir = "receipt" /\ log[i].re = m}
  BY <1>0 DEF ReceiptsFor, HasWire
<1>2. Collected(m)' = Collected(m) \cup R
  BY <1>0, <1>1 DEF Collected
<1>3. "queued_peer" \notin Receipt
  BY LegAssumption
<1>4. CASE R # {}
  <2>1. R \in SUBSET (1..Len(log))
    BY <1>0, <1>1
  <2>2. Latest(R) # {}
    BY <1>0, <1>4, <2>1, HasLatest
  <2>3. PICK i \in Latest(R) : ByReceipt(c, s) = log[i].status
    BY <2>2 DEF ByReceipt
  <2>4. i \in R /\ \A j \in R : j <= i
    BY <2>3 DEF Latest
  <2>5. log[i].status \in Receipt
    BY <1>1, <2>1, <2>4, BoxFacts DEF LegInv
  <2>6. status'[s] = log'[i].status
    BY <1>0, <1>3, <2>3, <2>5 DEF Carried
  <2>7. \A j \in Collected(m) : j <= i
    BY <1>0, <1>1, <2>4 DEF Collected
  <2>8. i \in Latest(Collected(m)')
    BY <1>2, <2>4, <2>7 DEF Latest
  <2>9. Collected(copy[s])' = Collected(m)'
    BY <1>0 DEF Collected
  <2>10. i \in Latest(Collected(copy[s]))'
    BY <2>8, <2>9 DEF Latest
  <2>11. QED
    BY <2>6, <2>10 DEF Shown
<1>5. CASE R = {}
  <2>0. Collected(copy[s])' = Collected(m)
    BY <1>0, <1>2, <1>5 DEF Collected
  <2>1. ByReceipt(c, s) = status[s]
    BY <1>5 DEF ByReceipt, Latest
  <2>2. CASE status'[s] = status[s]
    <3>1. CASE \E i \in (lcursor + 1)..Len(log) :
                 log[i].dir = "receipt" /\ log[i].re = copy[s] /\ status[s] = log[i].status
      <4>1. PICK i \in (lcursor + 1)..Len(log) :
              log[i].dir = "receipt" /\ log[i].re = copy[s] /\ status[s] = log[i].status
        BY <3>1
      <4>2. i \in (lcursor' + 1)..Len(log)
        BY <1>0, <1>1, <1>5, <4>1
      <4>3. QED
        BY <1>0, <2>2, <4>1, <4>2 DEF Shown
    <3>2. CASE Collected(m) = {} /\ status[s] \in {"queued_peer", "sent", "unknown"}
      BY <2>0, <2>2, <3>2 DEF Shown
    <3>3. CASE \E i \in Latest(Collected(m)) : status[s] = log[i].status
      <4>1. PICK i \in Latest(Collected(m)) : status[s] = log[i].status
        BY <3>3
      <4>2. i \in Latest(Collected(copy[s]))' /\ status'[s] = log'[i].status
        BY <1>0, <2>0, <2>2, <4>1 DEF Latest
      <4>3. QED
        BY <4>2 DEF Shown
    <3>4. QED
      BY <3>1, <3>2, <3>3 DEF Shown
  <2>3. CASE status'[s] # status[s]
    <3>1. status'[s] = mstatus[m] /\ mstatus[m] \notin {"queued", "sending"}
      BY <2>1, <2>3 DEF Carried
    <3>2. m \in MB!Out /\ mstatus[m] \in {"sent", "unknown"} \cup Receipt
      BY <1>0, <3>1 DEF LegInv, BoxInv, MB!TypeOK, MB!Out
    <3>3. MB!ReceiptsOf(m) = {i \in 1..Len(log) : log[i].dir = "receipt" /\ log[i].re = m}
      BY DEF MB!ReceiptsOf
    <3>4. CASE MB!ReceiptsOf(m) = {}
      <4>1. mstatus[m] \in {"sent", "unknown"}
        BY <3>2, <3>4 DEF Receipts, MB!HasReceipt
      <4>2. Collected(copy[s])' = {}
        BY <1>0, <3>3, <3>4 DEF Collected
      <4>3. QED
        BY <3>1, <4>1, <4>2 DEF Shown
    <3>5. CASE MB!ReceiptsOf(m) # {}
      <4>1. Latest(MB!ReceiptsOf(m)) # {}
        BY <1>0, <3>3, <3>5, HasLatest
      <4>2. PICK i \in MB!ReceiptsOf(m) : \A j \in MB!ReceiptsOf(m) : j <= i
        BY <4>1 DEF Latest
      <4>3. mstatus[m] = log[i].status
        BY <3>2, <4>2 DEF Receipts, MB!ReceiptWins
      <4>4. CASE i > lcursor'
        <5>1. i \in (lcursor' + 1)..Len(log') /\ log'[i].dir = "receipt" /\ log'[i].re = copy'[s]
          BY <1>0, <3>3, <4>2, <4>4
        <5>2. QED
          BY <1>0, <3>1, <4>3, <5>1 DEF Shown
      <4>5. CASE i <= lcursor'
        <5>1. i \in Collected(copy[s])' /\ \A j \in Collected(copy[s])' : j \in MB!ReceiptsOf(m)
          BY <1>0, <3>3, <4>2, <4>5 DEF Collected
        <5>2. i \in Latest(Collected(copy[s]))'
          BY <4>2, <5>1 DEF Latest
        <5>3. QED
          BY <1>0, <3>1, <4>3, <5>2 DEF Shown
      <4>6. QED
        BY <1>0, <3>3, <4>2, <4>4, <4>5
    <3>6. QED
      BY <3>4, <3>5
  <2>4. QED
    BY <2>2, <2>3
<1>6. QED
  BY <1>4, <1>5

\* A row that already went to the mailbox, and a step that collects nothing.
LEMMA StillShown ==
  ASSUME LegInv, IInv, Copies, Cursored, Asked, Current, [LegNext]_legvars, ~\E c \in Controller : Apply(c),
         NEW s \in 1..last, wire_id[s] = "mailbox", recipient[s] = Leg
  PROVE  copy'[s] \in 1..queued' /\ Shown(s)'
<1>1. /\ queued \in Nat /\ Len(log) \in Nat /\ Len(log') \in Nat /\ Len(log') >= Len(log)
      /\ \A i \in 1..Len(log) : log'[i] = log[i]
      /\ queued' \in Nat /\ queued' >= queued /\ lcursor \in Nat /\ lcursor <= Len(log)
  BY BoxFacts, BoxGrows, LogKept DEF LegInv, Ranges2, Cursored
<1>2. copy[s] \in 1..queued /\ Shown(s)
  BY DEF Current
<1>3. copy'[s] = copy[s] /\ status'[s] = status[s] /\ lcursor' = lcursor
  BY <1>1, <1>2, CopyKept, StatusBy, CursorBy
<1>4. Collected(copy[s])' = Collected(copy[s])
  BY <1>1, <1>3 DEF Collected
<1>5. CASE \E i \in (lcursor + 1)..Len(log) :
             log[i].dir = "receipt" /\ log[i].re = copy[s] /\ status[s] = log[i].status
  <2>1. PICK i \in (lcursor + 1)..Len(log) :
          log[i].dir = "receipt" /\ log[i].re = copy[s] /\ status[s] = log[i].status
    BY <1>5
  <2>2. i \in (lcursor' + 1)..Len(log') /\ log'[i] = log[i]
    BY <1>1, <1>3, <2>1
  <2>3. QED
    BY <1>1, <1>2, <1>3, <2>1, <2>2 DEF Shown
<1>6. CASE Collected(copy[s]) = {} /\ status[s] \in {"queued_peer", "sent", "unknown"}
  BY <1>1, <1>2, <1>3, <1>4, <1>6 DEF Shown
<1>7. CASE \E i \in Latest(Collected(copy[s])) : status[s] = log[i].status
  <2>1. PICK i \in Latest(Collected(copy[s])) : status[s] = log[i].status
    BY <1>7
  <2>2. i \in Latest(Collected(copy[s]))' /\ log'[i] = log[i]
    BY <1>1, <1>4, <2>1 DEF Latest, Collected
  <2>3. QED
    BY <1>1, <1>2, <1>3, <2>1, <2>2 DEF Shown
<1>8. QED
  BY <1>2, <1>5, <1>6, <1>7 DEF Shown

\* A row that has its wire id recorded shows 'queued_peer', and no receipt for it
\* has been passed.
LEMMA FirstShown ==
  ASSUME LegInv, IInv, Copies, Cursored, Recorded, [LegNext]_legvars,
         NEW s \in Seqs, wire_id[s] # "mailbox", wire_id'[s] = "mailbox", recipient[s] = Leg
  PROVE  copy'[s] \in 1..queued' /\ Shown(s)'
<1>1. /\ queued \in Nat /\ Len(log) \in Nat
      /\ \A i \in 1..Len(log) : log'[i] = log[i]
      /\ queued' \in Nat /\ queued' >= queued /\ lcursor \in Nat /\ lcursor <= Len(log)
      /\ TypeOK /\ HoldsRow /\ [Next]_vars
  BY BoxFacts, BoxGrows, LogKept, QueueRefined DEF LegInv, Ranges2, Cursored
<1>2. PICK c \in Controller : /\ pc[c] = "finish" /\ pick[c] = s /\ result[c].wire = "mailbox"
                              /\ status'[s] = result[c].status
  BY <1>1, WireBy
<1>3. result[c].status = "queued_peer" /\ s \in 1..last
  BY <1>2 DEF IInv, DeliveryInv, PickTracksRow
<1>4. copy[s] \in 1..queued
  BY <1>2, <1>3 DEF LegInv, Told
<1>5. copy'[s] = copy[s]
  BY <1>1, <1>3, <1>4, CopyKept
<1>6. lcursor' = lcursor
  <2>1. ASSUME NEW d \in Controller, Apply(d) PROVE FALSE
    BY <2>1 DEF Apply
  <2>2. QED
    BY <2>1, CursorBy
<1>7. \A i \in 1..lcursor : log[i].re # copy[s]
  BY <1>2 DEF Recorded
<1>8. Collected(copy[s])' = {}
  BY <1>1, <1>5, <1>6, <1>7 DEF Collected
<1>9. QED
  BY <1>1, <1>2, <1>3, <1>4, <1>5, <1>8 DEF Shown

\* Every row shows what the receipts say, after every step.
LEMMA CurrentStep ==
  ASSUME LegInv, IInv, Copies, Cursored, Recorded, Asked, Receipts, Current, [LegNext]_legvars
  PROVE  Current'
<1>0. /\ last \in 0..MaxSeq /\ MaxSeq \in Nat /\ RecipientKept /\ Leg \in Claude
      /\ RowsUpToLast /\ MailboxIsSettled
  BY QueueRefined, RowsStay, PairAssumption, LegAssumption DEF LegInv, TypeOK, IInv, DeliveryInv
<1> SUFFICES ASSUME NEW s \in 1..last', recipient'[s] = Leg, wire_id'[s] = "mailbox"
             PROVE  copy'[s] \in 1..queued' /\ Shown(s)'
  BY DEF Current
<1>1. s \in Seqs
  BY <1>0 DEF RecipientKept, Seqs
<1>2. CASE wire_id[s] = "mailbox"
  <2>1. s \in 1..last
    BY <1>0, <1>1, <1>2 DEF RowsUpToLast, MailboxIsSettled, Seqs
  <2>2. recipient[s] = Leg
    BY <1>0, <2>1 DEF RecipientKept
  <2>3. ASSUME NEW c \in Controller, Apply(c) PROVE copy'[s] \in 1..queued' /\ Shown(s)'
    <3>1. copy[s] \in 1..queued /\ Shown(s)
      BY <1>2, <2>1, <2>2 DEF Current
    <3>2. status'[s] = Carried(c, s)
      <4>1. PICK n \in last..(MaxSeq - Reserved) :
              status' = [k \in Seqs |-> IF k \in (last + 1)..n THEN "queued"
                                        ELSE IF k <= last /\ recipient[k] = Leg THEN Carried(c, k) ELSE status[k]]
        BY <2>3 DEF Apply
      <4>2. QED
        BY <1>0, <1>1, <2>1, <2>2, <4>1
    <3>3. UNCHANGED <<copy, queued>>
      BY <2>3 DEF Apply, box
    <3>4. QED
      BY <1>1, <1>2, <2>1, <2>2, <2>3, <3>1, <3>2, <3>3, ApplyShows
  <2>4. QED
    BY <1>2, <2>1, <2>2, <2>3, StillShown
<1>3. CASE wire_id[s] # "mailbox"
  <2>1. PICK c \in Controller : pc[c] = "finish" /\ pick[c] = s
    BY <1>1, <1>3, QueueRefined, WireBy DEF LegInv
  <2>2. s \in 1..last
    BY <2>1 DEF LegInv, Picked, Holding
  <2>3. recipient[s] = Leg
    BY <1>0, <2>2 DEF RecipientKept
  <2>4. QED
    BY <1>1, <1>3, <2>3, FirstShown
<1>4. QED
  BY <1>2, <1>3

\* The pair never goes back to a status that a receipt it collected has replaced,
\* although receipts, the outcome of the send and the record of the hand-over come
\* from three processes: with one controller, whatever crashes.
THEOREM StatusIsCurrent == ASSUME Exclusive PROVE LegSpec => []StatusNotStale
<1>1. LegInit => /\ Origins /\ Cursored /\ Copies /\ Recorded /\ IInv
                 /\ Asked /\ Receipts /\ Current
  <2> SUFFICES ASSUME LegInit PROVE /\ Origins /\ Cursored /\ Copies /\ Recorded /\ IInv
                                    /\ Asked /\ Receipts /\ Current
    OBVIOUS
  <2>1. /\ copy = [s \in Seqs |-> 0] /\ lcursor = 0 /\ queued = 0 /\ pc \in [Controller -> {"notify", "down"}]
        /\ last = 0 /\ \A c \in Controller : todo[c] = {}
    BY DEF LegInit, Init, Box!Init
  <2>2. Receipts
    BY LegAssumption DEF LegInit, Box!Init, Receipts, MB!ReceiptKnown, MB!ReceiptWins, MB!ReceiptsOf, MB!HasReceipt,
       Box!Out, MB!Out
  <2>3. Copies /\ Recorded /\ Asked /\ Current
    BY <2>1 DEF Copies, Recorded, Asked, Current
  <2>4. QED
    BY <2>2, <2>3, LegNothing, IInvInit DEF LegInit
<1>2. LegInv /\ IInv /\ [LegNext]_legvars => IInv'
  BY QueueRefined, IInvStep
<1>3. LegInv /\ Asked /\ [LegNext]_legvars => Asked'
  BY QueueRefined, AskedStep DEF LegInv
<1>4. Current => StatusNotStale
  BY DEF Current, Shown, StatusNotStale, Later
<1>5. QED
  BY <1>1, <1>2, <1>3, <1>4, LegInvInit, LegInvStep, OriginsStep, CursoredStep, CopiesStep, RecordedStep,
     ReceiptsStep, CurrentStep, PTL DEF LegSpec
=============================================================================

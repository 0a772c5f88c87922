--------------------------- MODULE CodexClientProofs ---------------------------
(***************************************************************************)
(* Theorems about CodexClient, for any messages, turns, runtimes and       *)
(* attempts and any length of the history.                                 *)
(***************************************************************************)
EXTENDS CodexClient, FiniteSetTheorems, TLAPS

Retryable == {"queued", "deferred", "blocked"}
Item      == [msg : Message \cup {Nobody}, turn : Nat]

\* The ranges that the argument needs.
Typed ==
  /\ turn \in Nat /\ turns \in Nat
  /\ items \in Seq(Item)
  /\ outcome \in [Message -> Retryable \cup {"unknown", "accepted_native"}]
  /\ receipt \in [Message -> Nat]
  /\ answer \in [kind : {"none", "ok", "invalid", "internal"}, turn : Nat]
  /\ \A r \in sent : r.msg \in Message

\* Where the client is with a message, and that this message may be tried.
Trying ==
  /\ msg \in Message \cup {Nobody}
  /\ cpc \in {"read", "list", "submit", "answer"} => msg \in Message
  /\ cpc \in {"idle", "scan"} => msg = Nobody
  /\ msg \in Message => outcome[msg] \in Retryable
  /\ cpc # "answer" => answer = NoAnswer

Answering(m, kinds) == cpc = "answer" /\ msg = m /\ answer.kind \in kinds

\* A request still on its way is the only one of its message, which is unknown
\* or waits for its answer.
SentOpen ==
  /\ \A r \in sent : outcome[r.msg] = "unknown" \/ Answering(r.msg, {"none"})
  /\ \A r, q \in sent : r.msg = q.msg => r = q

\* A message in the history has a final outcome or waits for one.
ItemsFinal ==
  \A n \in 1..Len(items) : items[n].msg \in Message =>
    \/ outcome[items[n].msg] \in {"unknown", "accepted_native"}
    \/ Answering(items[n].msg, {"ok", "internal"})

InTurn(m, t) == \E n \in 1..Len(items) : items[n] = [msg |-> m, turn |-> t]

\* What the runtime answers, and what was recorded of an answer, is true.
Truthful ==
  /\ cpc = "answer" /\ answer.kind = "ok" => InTurn(msg, answer.turn)
  /\ \A m \in Message : outcome[m] = "accepted_native" => InTurn(m, receipt[m])

IInv == Typed /\ Trying /\ SentOpen /\ ItemsFinal /\ Truthful

\* Nothing has been sent.
LEMMA IInvInit == Init => IInv
  BY ClientAssumption DEF Init, IInv, Typed, Trying, SentOpen, ItemsFinal, Truthful, NoAnswer, Retryable

\* An input is appended to the history, in the turn that is in progress then.
LEMMA InputStep ==
  ASSUME Typed, NEW m \in Message \cup {Nobody}, Input(m)
  PROVE  /\ turn' \in Nat /\ turns' \in Nat /\ items' \in Seq(Item)
         /\ \A n \in 1..Len(items) : n \in 1..Len(items') /\ items'[n] = items[n]
         /\ \A n \in 1..Len(items') : n \notin 1..Len(items) => items'[n] = [msg |-> m, turn |-> turn']
         /\ \E n \in 1..Len(items') : items'[n] = [msg |-> m, turn |-> turn']
<1>1. turn' \in Nat /\ turns' \in Nat
  BY DEF Input, Typed
<1>2. [msg |-> m, turn |-> turn'] \in Item
  BY <1>1 DEF Item
<1>3. items' = Append(items, [msg |-> m, turn |-> turn']) /\ items \in Seq(Item)
  BY DEF Input, Typed
<1>4. items' \in Seq(Item) /\ Len(items) \in Nat /\ Len(items') = Len(items) + 1
  BY <1>2, <1>3
<1>5. \A n \in 1..Len(items) : n \in 1..Len(items') /\ items'[n] = items[n]
  BY <1>2, <1>3, <1>4
<1>6. items'[Len(items) + 1] = [msg |-> m, turn |-> turn']
  BY <1>2, <1>3, <1>4
<1>7. QED
  BY <1>1, <1>4, <1>5, <1>6

\* The session's own items are no messages.
LEMMA OwnItemStep == ASSUME IInv, OwnItem PROVE IInv'
<1>1. Typed /\ Input(Nobody) /\ Nobody \notin Message
  BY ClientAssumption DEF IInv, OwnItem
<1>2. UNCHANGED <<request, cpc, msg, delivery>>
  BY DEF OwnItem
<1>3. Typed' /\ Trying' /\ SentOpen'
  BY <1>1, <1>2, InputStep DEF IInv, Typed, Trying, SentOpen, Answering, request, delivery, NoAnswer
<1>4. ItemsFinal'
  <2>1. ASSUME NEW n \in 1..Len(items'), items'[n].msg \in Message
        PROVE  n \in 1..Len(items) /\ items'[n] = items[n]
    <3>1. n \notin 1..Len(items) => items'[n] = [msg |-> Nobody, turn |-> turn']
      BY <1>1, InputStep
    <3>2. n \in 1..Len(items)
      BY <1>1, <2>1, <3>1
    <3>3. QED
      BY <1>1, <3>2, InputStep
  <2>2. QED
    BY <1>2, <2>1 DEF IInv, ItemsFinal, Answering, request, delivery
<1>5. Truthful'
  BY <1>1, <1>2, InputStep DEF IInv, Truthful, InTurn, request, delivery
<1>6. QED
  BY <1>3, <1>4, <1>5 DEF IInv

\* Accepting the request of a message, while its client waits or after it left.
LEMMA AcceptStep == ASSUME IInv, NEW r \in sent, Accept(r) PROVE IInv'
<1>1. Typed /\ Input(r.msg) /\ r.msg \in Message /\ sent' = sent \ {r}
  BY DEF IInv, Typed, Accept
<1>2. UNCHANGED <<cpc, msg, outcome, receipt>>
  BY DEF Accept, delivery
<1>3. PICK kind \in {"ok", "internal"} :
        answer' = IF cpc = "answer" /\ msg = r.msg THEN [kind |-> kind, turn |-> turn'] ELSE answer
  BY DEF Accept, Answer
<1>4. Typed'
  BY <1>1, <1>2, <1>3, InputStep DEF Typed
<1>5. Trying'
  BY <1>2, <1>3 DEF IInv, Trying, NoAnswer
<1>6. SentOpen'
  BY <1>1, <1>2, <1>3 DEF IInv, SentOpen, Answering
<1>7. ItemsFinal'
  <2>1. ASSUME NEW n \in 1..Len(items'), items'[n].msg \in Message
        PROVE  \/ outcome'[items'[n].msg] \in {"unknown", "accepted_native"}
               \/ cpc' = "answer" /\ msg' = items'[n].msg /\ answer'.kind \in {"ok", "internal"}
    <3>1. CASE n \notin 1..Len(items)
      <4>1. items'[n] = [msg |-> r.msg, turn |-> turn']
        BY <1>1, <3>1, InputStep
      <4>2. items'[n].msg = r.msg
        BY <4>1
      <4>3. QED
        BY <1>2, <1>3, <4>2 DEF IInv, SentOpen, Answering
    <3>2. CASE n \in 1..Len(items)
      <4>1. items'[n] = items[n]
        BY <1>1, <3>2, InputStep
      <4>2. QED
        BY <1>2, <1>3, <2>1, <3>2, <4>1 DEF IInv, ItemsFinal, Answering
    <3>3. QED
      BY <3>1, <3>2
  <2>2. QED
    BY <2>1 DEF ItemsFinal, Answering
<1>8. Truthful'
  <2>1. ASSUME NEW m \in Message, outcome'[m] = "accepted_native"
        PROVE  \E n \in 1..Len(items') : items'[n] = [msg |-> m, turn |-> receipt'[m]]
    BY <1>1, <1>2, <2>1, InputStep DEF IInv, Truthful, InTurn
  <2>2. ASSUME cpc' = "answer", answer'.kind = "ok"
        PROVE  \E n \in 1..Len(items') : items'[n] = [msg |-> msg', turn |-> answer'.turn]
    <3>1. CASE msg = r.msg
      BY <1>1, <1>2, <1>3, <2>2, <3>1, InputStep
    <3>2. CASE msg # r.msg
      BY <1>1, <1>2, <1>3, <2>2, <3>2, InputStep DEF IInv, Truthful, InTurn
    <3>3. QED
      BY <3>1, <3>2
  <2>3. QED
    BY <2>1, <2>2 DEF Truthful, InTurn
<1>9. QED
  BY <1>4, <1>5, <1>6, <1>7, <1>8 DEF IInv

\* Refusing it: nothing of the message is left on its way.
LEMMA RefuseStep == ASSUME IInv, NEW r \in sent, Refuse(r) PROVE IInv'
<1>1. UNCHANGED <<thread, cpc, msg, delivery>> /\ sent' = sent \ {r}
  BY DEF Refuse
<1>2. PICK kind \in {"invalid", "internal"} :
        answer' = IF cpc = "answer" /\ msg = r.msg THEN [kind |-> kind, turn |-> 0] ELSE answer
  BY DEF Refuse, Answer
<1>3. cpc = "answer" /\ msg = r.msg => answer.kind = "none"
  BY DEF IInv, Typed, Trying, SentOpen, Answering, Retryable
<1>4. QED
  BY <1>1, <1>2, <1>3 DEF IInv, Typed, Trying, SentOpen, ItemsFinal, Truthful, Answering, InTurn, thread, delivery,
     NoAnswer, Retryable, Item

\* How an attempt may end: with what the runtime has of the message by then.
LEMMA EndStep ==
  ASSUME IInv, msg \in Message, NEW st \in Retryable \cup {"unknown", "accepted_native"}, NEW wire \in Nat,
         End(st, wire),
         st \in Retryable => cpc # "answer" \/ answer.kind = "invalid",
         st = "accepted_native" => cpc = "answer" /\ answer.kind = "ok" /\ wire = answer.turn
  PROVE  IInv'
<1>1. /\ cpc' = "idle" /\ msg' = Nobody /\ answer' = NoAnswer
      /\ outcome' = [outcome EXCEPT ![msg] = st] /\ receipt' = [receipt EXCEPT ![msg] = wire]
      /\ UNCHANGED <<turn, turns, items, sent>>
  BY DEF End, Quit, thread
<1>2. Typed' /\ Trying'
  BY <1>1, ClientAssumption DEF IInv, Typed, Trying, NoAnswer
<1>3. SentOpen'
  BY <1>1 DEF IInv, Typed, Trying, SentOpen, Answering, Retryable
<1>4. ItemsFinal'
  BY <1>1 DEF IInv, Typed, Trying, ItemsFinal, Answering, Retryable
<1>5. Truthful'
  BY <1>1 DEF IInv, Typed, Trying, Truthful, InTurn
<1>6. QED
  BY <1>2, <1>3, <1>4, <1>5 DEF IInv

\* The steps of deliver before its end.
LEMMA OnwardStep ==
  ASSUME IInv, msg' \in Message \cup {Nobody}, UNCHANGED <<items, answer, outcome, receipt, sent>>,
         turn' \in Nat, turns' \in Nat,
         (cpc # "answer" /\ cpc' # "answer") \/ UNCHANGED <<cpc, msg>>,
         cpc' \in {"read", "list", "submit", "answer"} => msg' \in Message,
         cpc' \in {"idle", "scan"} => msg' = Nobody,
         msg' \in Message => outcome[msg'] \in Retryable
  PROVE  IInv'
<1>1. Typed' /\ Trying'
  BY DEF IInv, Typed, Trying, NoAnswer
<1>2. SentOpen' /\ ItemsFinal' /\ Truthful'
  BY DEF IInv, SentOpen, ItemsFinal, Truthful, Answering, InTurn
<1>3. QED
  BY <1>1, <1>2 DEF IInv

\* The request is sent once in an attempt, and none is left of earlier ones.
LEMMA SubmitStep == ASSUME IInv, Submit PROVE IInv'
<1>1. /\ cpc = "submit" /\ cpc' = "answer" /\ msg \in Message /\ outcome[msg] \in Retryable /\ answer = NoAnswer
      /\ sent' = sent \cup {[msg |-> msg, peer |-> peer, expected |-> expected]}
      /\ UNCHANGED <<turn, turns, items, answer, msg, outcome, receipt>>
  BY DEF IInv, Trying, Submit, thread, delivery
<1>2. Typed' /\ Trying'
  BY <1>1 DEF IInv, Typed, Trying
<1>3. SentOpen'
  BY <1>1 DEF IInv, SentOpen, Answering, Retryable, NoAnswer
<1>4. ItemsFinal' /\ Truthful'
  BY <1>1 DEF IInv, Typed, ItemsFinal, Truthful, Answering, InTurn, NoAnswer
<1>5. QED
  BY <1>2, <1>3, <1>4 DEF IInv

\* The steps of the client keep the invariant.
LEMMA ClientStep == ASSUME IInv, Client PROVE IInv'
<1> USE DEF IInv, Typed, Trying
<1>1. ASSUME NEW m \in Message, Attempt(m) PROVE IInv'
  BY <1>1, OnwardStep DEF Attempt, Retryable, thread, request
<1>2. CASE Connect
  BY <1>2, OnwardStep DEF Connect, thread, request, delivery
<1>3. CASE Unavailable
  BY <1>3, EndStep DEF Unavailable, Retryable
<1>4. CASE ReadThread
  <2>1. CASE waiting
    BY <1>4, <2>1, EndStep DEF ReadThread, Retryable
  <2>2. CASE ~waiting
    BY <1>4, <2>2, OnwardStep DEF ReadThread, thread, request, delivery
  <2>3. QED
    BY <2>1, <2>2
<1>5. CASE ListTurns
  <2>1. CASE turn = 0
    BY <1>5, <2>1, EndStep DEF ListTurns, Retryable
  <2>2. CASE turn # 0
    BY <1>5, <2>2, OnwardStep DEF ListTurns, thread, request, delivery
  <2>3. QED
    BY <2>1, <2>2
<1>6. CASE Submit
  BY <1>6, SubmitStep
<1>7. CASE Answered
  <2>1. CASE answer.kind = "ok"
    <3>1. answer.turn \in Nat /\ cpc = "answer" /\ msg \in Message /\ End("accepted_native", answer.turn)
      BY <1>7, <2>1 DEF Answered, AnsweredTurn
    <3>2. QED
      BY <2>1, <3>1, EndStep DEF Retryable
  <2>2. CASE answer.kind # "ok"
    BY <1>7, <2>2, EndStep DEF Answered, Rejected, Retryable
  <2>3. QED
    BY <2>1, <2>2
<1>8. CASE Lost
  BY <1>8, EndStep DEF Lost, LostIsUnconfirmed, Retryable
<1>9. CASE Observe
  BY <1>9, OnwardStep DEF Observe, thread, request, delivery
<1>10. CASE ScanPage \/ ScanFails
  BY <1>10, OnwardStep DEF ScanPage, ScanFails, Quit, thread, request, delivery
<1>11. QED
  BY <1>1, <1>2, <1>3, <1>4, <1>5, <1>6, <1>7, <1>8, <1>9, <1>10 DEF Client

\* The invariant is inductive.
LEMMA IInvStep == IInv /\ [Next]_vars => IInv'
<1> SUFFICES ASSUME IInv, [Next]_vars PROVE IInv'
  OBVIOUS
<1>1. CASE RuntimeChange \/ Load \/ TurnChange
  BY <1>1, OnwardStep DEF RuntimeChange, Load, TurnChange, IInv, Typed, Trying, request, delivery
<1>2. CASE UNCHANGED vars
  BY <1>2, OnwardStep DEF vars, thread, request, delivery, IInv, Typed, Trying
<1>3. CASE OwnItem \/ \E r \in sent : Accept(r) \/ Refuse(r)
  BY <1>3, OwnItemStep, AcceptStep, RefuseStep
<1>4. CASE Client
  BY <1>4, ClientStep
<1>5. QED
  BY <1>1, <1>2, <1>3, <1>4 DEF Next, Thread

\* The inductive invariant holds in every behaviour.
LEMMA IInvAlways == Spec => []IInv
  BY IInvInit, IInvStep, PTL DEF Spec

\* However the thread, its runtimes and the client interleave, and however late a
\* request is handled, a message that the queue may send again was not submitted.
THEOREM NeverSubmittedTwice == Spec => []DefiniteNotSubmitted
<1>1. ASSUME IInv, NEW m \in Message, outcome[m] \in Retryable, msg # m PROVE ~Submitted(m)
  BY <1>1 DEF IInv, Typed, SentOpen, ItemsFinal, Answering, Submitted, Open, Retryable
<1>2. IInv => DefiniteNotSubmitted
  BY <1>1 DEF DefiniteNotSubmitted, Retryable
<1>3. QED
  BY <1>2, IInvAlways, PTL

\* The turn recorded for an accepted message is the turn its input is in.
THEOREM ReceiptsAreTrue == Spec => []ReceiptTrue
<1>1. IInv => DOMAIN items = 1..Len(items)
  BY DEF IInv, Typed
<1>2. IInv => ReceiptTrue
  BY <1>1 DEF IInv, Truthful, ReceiptTrue, InTurn
<1>3. QED
  BY <1>2, IInvAlways, PTL

(***************************************************************************)
(* The history of a scan, counted.                                         *)
(***************************************************************************)

\* The scan's part of a history is finite, and its items are ranked from 1.
LEMMA HistoryCounted ==
  ASSUME NEW S, items \in Seq(S)
  PROVE  /\ IsFiniteSet(History) /\ FirstPage \in Nat
         /\ \A n \in History : Rank(n) \in 1..FirstPage
<1>1. DOMAIN items = 1..Len(items) /\ Len(items) \in Nat
  OBVIOUS
<1>2. IsFiniteSet(1..Len(items))
  BY <1>1, FS_Interval
<1>3. History \in SUBSET (1..Len(items))
  BY <1>1 DEF History
<1>4. IsFiniteSet(History)
  BY <1>2, <1>3, FS_Subset
<1>5. FirstPage \in Nat
  BY <1>4, FS_CardinalityType DEF FirstPage
<1>6. ASSUME NEW n \in History PROVE Rank(n) \in 1..FirstPage
  <2> DEFINE T == {k \in History : k <= n}
  <2>1. T \in SUBSET History /\ T # {}
    BY <1>1, <1>3
  <2>2. IsFiniteSet(T) /\ Cardinality(T) <= Cardinality(History)
    BY <1>4, <2>1, FS_Subset
  <2>3. Cardinality(T) \in Nat /\ Cardinality(T) # 0
    BY <2>1, <2>2, FS_CardinalityType, FS_EmptySet
  <2>4. QED
    BY <1>5, <2>2, <2>3 DEF Rank, FirstPage
<1>7. QED
  BY <1>4, <1>5, <1>6

(***************************************************************************)
(* Ranges.                                                                 *)
(***************************************************************************)

Held == {items[n].msg : n \in DOMAIN items}

\* Beside the ranges: whoever has connected has a peer, a scan that goes on has
\* not looked at all its pages, and what it found is in the history.
Underway ==
  /\ cpc \in {"read", "list", "submit", "answer", "scan"} => peer # 0
  /\ cpc \in {"connect", "scan"} /\ msg = Nobody => pages < MaxPages
  /\ found \subseteq Held

RInv == TypeOK /\ Underway

\* The history only grows, and its new item is in the turn in progress.
LEMMA HistoryGrows ==
  ASSUME TypeOK, NEW m \in Message \cup {Nobody}, Input(m)
  PROVE  /\ turn' \in 0..turns' /\ turn' \in 1..MaxTurns /\ turns' \in 0..MaxTurns
         /\ items' \in Seq([msg : Message \cup {Nobody}, turn : 1..MaxTurns])
         /\ Len(items) \in Nat /\ Len(items') = Len(items) + 1 /\ Len(items') <= MaxItems
         /\ \A n \in 1..Len(items) : items'[n] = items[n]
         /\ items'[Len(items')] = [msg |-> m, turn |-> turn']
         /\ Held \subseteq Held'
<1>1. turn' \in 0..turns' /\ turns' \in 0..MaxTurns /\ turn' \in 1..MaxTurns
  BY ClientAssumption DEF Input, TypeOK
<1>2. [msg |-> m, turn |-> turn'] \in [msg : Message \cup {Nobody}, turn : 1..MaxTurns]
  BY <1>1
<1>3. /\ items' = Append(items, [msg |-> m, turn |-> turn'])
      /\ items \in Seq([msg : Message \cup {Nobody}, turn : 1..MaxTurns]) /\ Len(items) < MaxItems
  BY DEF Input, TypeOK
<1>4. /\ items' \in Seq([msg : Message \cup {Nobody}, turn : 1..MaxTurns])
      /\ Len(items) \in Nat /\ Len(items') = Len(items) + 1
      /\ \A n \in 1..Len(items) : items'[n] = items[n]
      /\ items'[Len(items')] = [msg |-> m, turn |-> turn']
  BY <1>2, <1>3
<1>5. Held \subseteq Held'
  <2>1. DOMAIN items = 1..Len(items) /\ DOMAIN items' = 1..Len(items')
    BY <1>3, <1>4
  <2>2. \A n \in DOMAIN items : n \in DOMAIN items' /\ items'[n] = items[n]
    BY <1>4, <2>1
  <2>3. QED
    BY <2>2 DEF Held
<1>6. Len(items') <= MaxItems
  BY <1>3, <1>4, ClientAssumption
<1>7. QED
  BY <1>1, <1>4, <1>5, <1>6

\* The thread's steps.
LEMMA ThreadRanges == ASSUME RInv, Thread PROVE RInv'
<1> USE DEF RInv, Underway, request, delivery, scan
<1>1. CASE RuntimeChange
  <2>1. runtime' \in 1..MaxRuntimes /\ up' \in BOOLEAN /\ loaded' \in BOOLEAN /\ turn' \in 0..turns' /\ waiting' \in BOOLEAN
    <3>1. turns \in Nat /\ turns' = turns /\ turn' = 0
      BY <1>1, ClientAssumption DEF RuntimeChange, TypeOK
    <3>2. turn' \in 0..turns'
      BY <3>1
    <3>3. runtime' \in {runtime, runtime + 1} /\ (runtime' = runtime \/ runtime < MaxRuntimes)
      BY <1>1 DEF RuntimeChange
    <3>4. runtime' \in 1..MaxRuntimes
      BY <3>3, ClientAssumption DEF TypeOK
    <3>5. up' \in BOOLEAN /\ loaded' \in BOOLEAN /\ waiting' \in BOOLEAN
      BY <1>1 DEF RuntimeChange
    <3>6. QED
      BY <3>2, <3>4, <3>5
  <2>2. QED
    BY <1>1, <2>1 DEF RuntimeChange, TypeOK, Held
<1>2. CASE Load
  BY <1>2 DEF Load, TypeOK, Held
<1>3. CASE TurnChange
  <2>1. turn' \in 0..turns' /\ waiting' \in BOOLEAN
    <3>1. turns \in Nat /\ turns' = turns /\ turn \in 0..turns /\ (turn' = 0 \/ turn' = turn)
      BY <1>3, ClientAssumption DEF TurnChange, TypeOK
    <3>2. waiting' \in BOOLEAN
      BY <1>3 DEF TurnChange, TypeOK
    <3>3. QED
      BY <3>1, <3>2
  <2>2. QED
    BY <1>3, <2>1 DEF TurnChange, TypeOK, Held
<1>4. CASE OwnItem
  <2>1. Input(Nobody) /\ UNCHANGED <<runtime, up, loaded, waiting, request, cpc, msg, peer, expected, delivery, scan>>
    BY <1>4 DEF OwnItem
  <2>2. /\ turn' \in 0..turns' /\ turns' \in 0..MaxTurns /\ Len(items') <= MaxItems
        /\ items' \in Seq([msg : Message \cup {Nobody}, turn : 1..MaxTurns]) /\ Held \subseteq Held'
    BY <2>1, HistoryGrows
  <2>3. observed' \subseteq {items'[n].msg : n \in DOMAIN items'} /\ Underway'
    BY <2>1, <2>2 DEF TypeOK, Held
  <2>4. TypeOK'
    BY <2>1, <2>2, <2>3 DEF TypeOK
  <2>5. QED
    BY <2>3, <2>4
<1>5. ASSUME NEW r \in sent, Accept(r) PROVE RInv'
  <2>1. r.msg \in Message \cup {Nobody} /\ Input(r.msg) /\ sent' \subseteq sent
        /\ UNCHANGED <<runtime, up, loaded, waiting, cpc, msg, peer, expected, delivery, scan>>
    BY <1>5 DEF Accept, TypeOK
  <2>2. turn' \in 0..turns' /\ turn' \in 0..MaxTurns /\ turns' \in 0..MaxTurns
    <3>1. turn' \in 0..turns' /\ turn' \in 1..MaxTurns /\ turns' \in 0..MaxTurns
      BY <2>1, HistoryGrows
    <3>2. QED
      BY <3>1
  <2>3. answer' \in [kind : {"none", "ok", "invalid", "internal"}, turn : 0..MaxTurns]
    BY <1>5, <2>2 DEF Accept, Answer, TypeOK
  <2>4. QED
    BY <2>1, <2>2, <2>3, HistoryGrows DEF TypeOK, Held
<1>6. ASSUME NEW r \in sent, Refuse(r) PROVE RInv'
  <2>1. answer' \in [kind : {"none", "ok", "invalid", "internal"}, turn : 0..MaxTurns]
    BY <1>6, ClientAssumption DEF Refuse, Answer, TypeOK
  <2>2. QED
    BY <1>6, <2>1 DEF Refuse, TypeOK, thread, Held
<1>7. QED
  BY <1>1, <1>2, <1>3, <1>4, <1>5, <1>6 DEF Thread

\* The end of a delivery.
LEMMA EndRanges ==
  ASSUME RInv, msg \in Message, NEW st \in {"queued", "deferred", "blocked", "unknown", "accepted_native"},
         NEW wire \in 0..MaxTurns, End(st, wire)
  PROVE  RInv'
<1>1. /\ outcome' \in [Message -> {"queued", "deferred", "blocked", "unknown", "accepted_native"}]
      /\ receipt' \in [Message -> 0..MaxTurns]
  BY DEF End, RInv, TypeOK
<1>2. NoAnswer \in [kind : {"none", "ok", "invalid", "internal"}, turn : 0..MaxTurns] /\ 0 \in 0..MaxRuntimes /\ 0 \in 0..MaxTurns
  BY ClientAssumption DEF NoAnswer
<1>3. QED
  BY <1>1, <1>2 DEF End, Quit, RInv, TypeOK, Underway, thread, scan, Held

\* A page holds what is in the history.
LEMMA PageHeld == ASSUME NEW a, NEW b PROVE Between(a, b) \subseteq Held
  BY DEF Between, History, Held

\* The steps of the client.
LEMMA ClientRanges == ASSUME IInv, RInv, Client PROVE RInv'
<1> USE DEF RInv, Underway
<1>0. /\ 0 \in 0..MaxTurns /\ 0 \in 0..MaxRuntimes /\ 0 \in 0..MaxPages /\ 0 < MaxPages /\ 0 \in Int
      /\ cpc \in {"read", "list", "submit", "answer"} => msg \in Message
  BY ClientAssumption DEF IInv, Trying
<1>1. ASSUME NEW m \in Message, Attempt(m) PROVE RInv'
  <2>1. attempts' \in 0..MaxAttempts /\ m # Nobody
    BY <1>1, ClientAssumption DEF Attempt, TypeOK
  <2>2. QED
    BY <1>1, <2>1 DEF Attempt, TypeOK, thread, request, scan, Held
<1>2. CASE Connect
  <2>1. peer' \in 1..MaxRuntimes /\ peer' \in 0..MaxRuntimes /\ peer' # 0
    BY <1>2, ClientAssumption DEF Connect, TypeOK
  <2>2. QED
    BY <1>2, <2>1 DEF Connect, TypeOK, thread, request, delivery, scan, Held
<1>3. CASE Unavailable
  BY <1>0, <1>3, EndRanges DEF Unavailable, TypeOK
<1>4. CASE ReadThread
  <2>1. CASE waiting
    BY <1>0, <1>4, <2>1, EndRanges DEF ReadThread
  <2>2. CASE ~waiting
    BY <1>4, <2>2 DEF ReadThread, TypeOK, thread, request, delivery, scan, Held
  <2>3. QED
    BY <2>1, <2>2
<1>5. CASE ListTurns
  <2>1. CASE turn = 0
    BY <1>0, <1>5, <2>1, EndRanges DEF ListTurns
  <2>2. CASE turn # 0
    <3>1. expected' \in 0..MaxTurns
      BY <1>5, <2>2, ClientAssumption DEF ListTurns, TypeOK
    <3>2. QED
      BY <1>5, <2>2, <3>1 DEF ListTurns, TypeOK, thread, request, delivery, scan, Held
  <2>3. QED
    BY <2>1, <2>2
<1>6. CASE Submit
  <2>1. [msg |-> msg, peer |-> peer, expected |-> expected] \in [msg : Message, peer : 1..MaxRuntimes, expected : 0..MaxTurns]
    BY <1>0, <1>6, ClientAssumption DEF Submit, TypeOK
  <2>2. QED
    BY <1>6, <2>1 DEF Submit, TypeOK, thread, delivery, scan, Held
<1>7. CASE Answered
  <2>1. msg \in Message /\ answer.turn \in 0..MaxTurns
    BY <1>0, <1>7 DEF Answered, TypeOK
  <2>2. QED
    BY <1>0, <1>7, <2>1, EndRanges DEF Answered, AnsweredTurn
<1>8. CASE Lost
  BY <1>0, <1>8, EndRanges DEF Lost, LostIsUnconfirmed
<1>9. CASE Observe
  <2>1. expected' \in 0..MaxTurns /\ asked' \subseteq Message
    BY <1>9 DEF Observe
  <2>2. QED
    BY <1>0, <1>9, <2>1 DEF Observe, TypeOK, thread, request, delivery, Held
<1>10. CASE ScanPage
  <2>1. pages' \in 0..MaxPages /\ pages' = pages + 1 /\ msg = Nobody
    BY <1>10, ClientAssumption DEF ScanPage, IInv, Trying, TypeOK
  <2>2. found' \subseteq asked /\ recent' \subseteq asked
    BY <1>10 DEF ScanPage, TypeOK
  <2>3. found' \subseteq Held
    BY <1>10, PageHeld DEF ScanPage
  <2>4. top' \in Int
    <3>1. FirstPage \in Nat
      BY HistoryCounted DEF TypeOK, FirstPage
    <3>2. QED
      BY <1>10, <3>1, ClientAssumption DEF ScanPage, NextPage, TypeOK
  <2>5. CASE LastPage
    <3>1. /\ cpc' = "idle" /\ msg' = Nobody /\ peer' = 0 /\ expected' = 0 /\ observed' = observed \cup found'
          /\ UNCHANGED <<thread, request, delivery, asked>>
      BY <1>10, <2>5 DEF ScanPage, Quit
    <3>2. observed' \subseteq {items'[n].msg : n \in DOMAIN items'} /\ Underway'
      BY <2>3, <3>1 DEF TypeOK, thread, Held
    <3>3. TypeOK'
      BY <1>0, <2>1, <2>2, <2>4, <3>1, <3>2 DEF TypeOK, thread, request, delivery
    <3>4. QED
      BY <3>2, <3>3
  <2>6. CASE ~LastPage
    <3>1. pages' < MaxPages
      BY <2>1, <2>6, ClientAssumption DEF LastPage
    <3>2. QED
      BY <1>0, <1>10, <2>1, <2>2, <2>3, <2>4, <2>6, <3>1 DEF ScanPage, TypeOK, thread, request, delivery, Held
  <2>7. QED
    BY <2>5, <2>6
<1>11. CASE ScanFails
  BY <1>0, <1>11 DEF ScanFails, Quit, TypeOK, thread, request, delivery, Held
<1>12. QED
  BY <1>1, <1>2, <1>3, <1>4, <1>5, <1>6, <1>7, <1>8, <1>9, <1>10, <1>11 DEF Client

\* Every variable keeps its range, and what was observed is in the history.
LEMMA RInvStep == ASSUME IInv, RInv, [Next]_vars PROVE RInv'
<1>1. CASE UNCHANGED vars
  BY <1>1 DEF vars, thread, request, delivery, scan, RInv, TypeOK, Underway, Held
<1>2. QED
  BY <1>1, ThreadRanges, ClientRanges DEF Next

\* Nothing has happened yet.
LEMMA RInvInit == Init => RInv
<1>1. 1 \in 1..MaxRuntimes /\ 0 \in 0..MaxRuntimes /\ 0 \in 0..MaxTurns /\ 0 \in 0..MaxAttempts /\ 0 \in 0..MaxPages /\ 0 <= MaxItems
  BY ClientAssumption
<1>2. Len(<<>>) = 0
  OBVIOUS
<1>3. ASSUME Init
      PROVE  /\ items \in Seq([msg : Message \cup {Nobody}, turn : 1..MaxTurns]) /\ Len(items) <= MaxItems
             /\ answer \in [kind : {"none", "ok", "invalid", "internal"}, turn : 0..MaxTurns]
             /\ turn \in 0..turns /\ turns \in 0..MaxTurns
  BY <1>1, <1>2, <1>3 DEF Init, NoAnswer
<1>4. ASSUME Init
      PROVE  /\ up \in BOOLEAN /\ loaded \in BOOLEAN /\ waiting \in BOOLEAN
             /\ outcome \in [Message -> {"queued", "deferred", "blocked", "unknown", "accepted_native"}]
             /\ receipt \in [Message -> 0..MaxTurns]
  BY <1>1, <1>4 DEF Init
<1>5. ASSUME Init PROVE Underway
  BY <1>5 DEF Init, Underway
<1>6. ASSUME Init
      PROVE  /\ runtime \in 1..MaxRuntimes /\ peer \in 0..MaxRuntimes /\ expected \in 0..MaxTurns
             /\ attempts \in 0..MaxAttempts /\ pages \in 0..MaxPages /\ top \in Int
  BY <1>1, <1>6 DEF Init
<1>7. QED
  BY <1>3, <1>4, <1>5, <1>6 DEF Init, RInv, TypeOK

\* Every variable of the thread, the client and its scan keeps its range, and
\* observed never reports a message that is not in the history.
THEOREM TypeCorrect == Spec => []TypeOK
<1>1. RInv => TypeOK
  BY DEF RInv
<1>2. QED
  BY <1>1, IInvInit, IInvStep, RInvInit, RInvStep, PTL DEF Spec

(***************************************************************************)
(* The scan of the last pages.                                             *)
(***************************************************************************)

\* What the pages that are left still show.
Ahead(m) == m \in Between(top - PageItems * (MaxPages - pages), top)

\* Whatever was on the last pages when the scan began was found or lies ahead.
Scanned ==
  /\ cpc = "scan" /\ pages # 0 => \A m \in recent : m \in found \/ Ahead(m)
  /\ cpc = "scan" /\ pages = 0 => recent = {}
  /\ cpc = "connect" /\ msg = Nobody => pages = 0 /\ recent = {}
  /\ cpc # "scan" => recent \subseteq observed

\* New items leave the ranks of the older ones alone.
LEMMA PagesStay ==
  ASSUME TypeOK, NEW m \in Message \cup {Nobody}, Input(m), expected' = expected, NEW a, NEW b
  PROVE  Between(a, b) \subseteq Between(a, b)'
<1>1. /\ Len(items) \in Nat /\ Len(items') = Len(items) + 1
      /\ \A n \in 1..Len(items) : items'[n] = items[n]
      /\ items' \in Seq([msg : Message \cup {Nobody}, turn : 1..MaxTurns])
      /\ items \in Seq([msg : Message \cup {Nobody}, turn : 1..MaxTurns])
  <2>1. /\ Len(items) \in Nat /\ Len(items') = Len(items) + 1
        /\ \A n \in 1..Len(items) : items'[n] = items[n]
        /\ items' \in Seq([msg : Message \cup {Nobody}, turn : 1..MaxTurns])
    BY HistoryGrows
  <2>2. QED
    BY <2>1 DEF TypeOK
<1>2. DOMAIN items = 1..Len(items) /\ DOMAIN items' = 1..Len(items')
  BY <1>1
<1>3. ASSUME NEW n \in History
      PROVE  n \in History' /\ items'[n] = items[n] /\ Rank(n)' = Rank(n)
  <2>1. n \in History' /\ items'[n] = items[n] /\ n \in 1..Len(items)
    BY <1>1, <1>2 DEF History
  <2>2. {k \in History' : k <= n} = {k \in History : k <= n}
    BY <1>1, <1>2, <2>1 DEF History
  <2>3. QED
    BY <2>1, <2>2 DEF Rank
<1>4. QED
  BY <1>3 DEF Between

\* A page and the pages before it.
LEMMA PageByPage ==
  ASSUME TypeOK, NEW a \in Int, NEW b \in Int, NEW c \in Int, NEW m \in Between(a, c)
  PROVE  m \in Between(b, c) \/ m \in Between(a, b)
<1>1. PICK n \in History : m = items[n].msg /\ a < Rank(n) /\ Rank(n) <= c
  BY DEF Between
<1>2. Rank(n) \in Int
  BY HistoryCounted DEF TypeOK
<1>3. CASE b < Rank(n)
  BY <1>1, <1>3 DEF Between
<1>4. CASE Rank(n) <= b
  BY <1>1, <1>4 DEF Between
<1>5. QED
  BY <1>2, <1>3, <1>4

\* There is nothing before the oldest item, or on no page.
LEMMA NothingBefore == ASSUME TypeOK, NEW a \in Int, NEW b \in Int, b <= 0 \/ a = b PROVE Between(a, b) = {}
<1>1. \A n \in History : Rank(n) \in Int /\ Rank(n) >= 1
  BY HistoryCounted DEF TypeOK
<1>2. QED
  BY <1>1 DEF Between

\* Where the pages end that are left after one more.
LEMMA OnePage ==
  ASSUME NEW t \in Int, NEW p \in Int
  PROVE  /\ t - PageItems * (MaxPages - p) = (t - PageItems) - PageItems * (MaxPages - (p + 1))
         /\ t - PageItems * (MaxPages - p) \in Int /\ t - PageItems \in Int
         /\ PageItems * (MaxPages - MaxPages) = 0
  BY ClientAssumption

\* One page of a scan.
LEMMA PageScanned == ASSUME RInv, Scanned, ScanPage, msg = Nobody PROVE Scanned'
<1>0. /\ TypeOK /\ pages \in Int /\ pages' = pages + 1 /\ PageItems \in Int /\ MaxPages \in Int /\ pages + 1 # 0
      /\ recent \subseteq asked /\ asked' = asked /\ UNCHANGED items /\ cpc = "scan"
  BY ClientAssumption DEF RInv, TypeOK, ScanPage, thread
<1>1. FirstPage \in Int /\ NextPage \in Int /\ top' = NextPage - PageItems /\ top' \in Int
  <2>1. FirstPage \in Int
    BY <1>0, HistoryCounted DEF TypeOK
  <2>2. QED
    BY <1>0, <2>1, ClientAssumption DEF ScanPage, NextPage, TypeOK
<1>2. recent' \subseteq asked /\ found' = found \cup (asked \cap Between(NextPage - PageItems, NextPage))
  BY <1>0 DEF ScanPage
<1>3. ASSUME NEW m \in recent'
      PROVE  m \in found \/ m \in Between(NextPage - PageItems * (MaxPages - pages), NextPage)
  <2>1. CASE pages = 0
    <3>1. m \in Between(FirstPage - PageItems * MaxPages, FirstPage) /\ NextPage = FirstPage
      BY <1>3, <2>1 DEF ScanPage, NextPage
    <3>2. MaxPages - 0 = MaxPages
      BY <1>0
    <3>3. QED
      BY <2>1, <3>1, <3>2
  <2>2. CASE pages # 0
    BY <1>0, <1>3, <2>2 DEF ScanPage, NextPage, Scanned, Ahead
  <2>3. QED
    BY <2>1, <2>2
<1>4. ASSUME NEW m \in recent'
      PROVE  m \in found' \/ m \in Between(top' - PageItems * (MaxPages - pages'), top')
  <2>1. CASE m \in found
    BY <1>2, <2>1
  <2>2. CASE m \in Between(NextPage - PageItems * (MaxPages - pages), NextPage)
    <3>1. m \in Between(top', NextPage) \/ m \in Between(NextPage - PageItems * (MaxPages - pages), top')
      BY <1>0, <1>1, <2>2, OnePage, PageByPage
    <3>2. NextPage - PageItems * (MaxPages - pages) = top' - PageItems * (MaxPages - pages')
      BY <1>0, <1>1, OnePage
    <3>3. QED
      BY <1>1, <1>2, <3>1, <3>2
  <2>3. QED
    BY <1>3, <2>1, <2>2
<1>5. CASE LastPage
  <2>1. found' = asked \/ Between(top' - PageItems * (MaxPages - pages'), top') = {}
    <3>1. CASE top' <= 0
      BY <1>0, <1>1, <3>1, OnePage, NothingBefore
    <3>2. CASE pages' = MaxPages
      <4>1. top' - PageItems * (MaxPages - pages') = top'
        BY <1>0, <1>1, <3>2
      <4>2. QED
        BY <1>0, <1>1, <4>1, NothingBefore
    <3>3. QED
      BY <1>5, <3>1, <3>2 DEF LastPage
  <2>2. recent' \subseteq found'
    BY <1>2, <1>4, <2>1
  <2>3. cpc' = "idle" /\ observed' = observed \cup found'
    BY <1>5 DEF ScanPage, Quit
  <2>4. QED
    BY <2>2, <2>3 DEF Scanned
<1>6. CASE ~LastPage
  <2>1. cpc' = "scan" /\ expected' = expected
    BY <1>0, <1>6 DEF ScanPage
  <2>2. \A a, b : Between(a, b)' = Between(a, b)
    BY <1>0, <2>1 DEF Between, History, Rank
  <2>3. \A m \in recent' : m \in found' \/ Ahead(m)'
    BY <1>4, <2>2 DEF Ahead
  <2>4. QED
    BY <1>0, <2>1, <2>3 DEF Scanned
<1>7. QED
  BY <1>5, <1>6

\* The scan goes on beside the steps of the thread.
LEMMA ScannedStep == ASSUME IInv, RInv, Scanned, [Next]_vars PROVE Scanned'
<1>1. ASSUME UNCHANGED <<cpc, msg, expected, scan>>, UNCHANGED items \/ \E m \in Message \cup {Nobody} : Input(m)
      PROVE  Scanned'
  <2>1. \A a, b : Between(a, b) \subseteq Between(a, b)'
    <3>1. CASE UNCHANGED items
      BY <1>1, <3>1 DEF Between, History, Rank
    <3>2. CASE \E m \in Message \cup {Nobody} : Input(m)
      BY <1>1, <3>2, PagesStay DEF RInv
    <3>3. QED
      BY <1>1, <3>1, <3>2
  <2>2. \A m : Ahead(m) => Ahead(m)'
    BY <1>1, <2>1 DEF Ahead, scan
  <2>3. QED
    BY <1>1, <2>2 DEF Scanned, scan
<1>2. CASE Thread
  <2>1. \A r \in sent : r.msg \in Message
    BY DEF IInv, Typed
  <2>2. UNCHANGED <<cpc, msg, expected, scan>> /\ (UNCHANGED items \/ \E m \in Message \cup {Nobody} : Input(m))
    BY <1>2, <2>1 DEF Thread, RuntimeChange, Load, OwnItem, TurnChange, Accept, Refuse, thread, delivery
  <2>3. QED
    BY <1>1, <2>2
<1>3. ASSUME cpc # "scan", cpc' # "scan", cpc' = "connect" => msg' # Nobody, UNCHANGED <<recent, observed>> PROVE Scanned'
  BY <1>3 DEF Scanned
<1>4. ASSUME NEW m \in Message, Attempt(m) PROVE Scanned'
  BY <1>3, <1>4, ClientAssumption DEF Attempt, scan
<1>5. CASE Connect
  BY <1>5 DEF Connect, Scanned, scan
<1>6. CASE Unavailable \/ ReadThread \/ ListTurns \/ Submit \/ Answered \/ Lost
  BY <1>3, <1>6 DEF Unavailable, ReadThread, ListTurns, Submit, Answered, Lost, End, Quit, scan
<1>7. CASE Observe
  BY <1>7 DEF Observe, Scanned
<1>8. CASE ScanPage
  <2>1. msg = Nobody
    BY <1>8 DEF IInv, Trying, ScanPage
  <2>2. QED
    BY <1>8, <2>1, PageScanned
<1>9. CASE ScanFails
  BY <1>9 DEF ScanFails, Quit, Scanned
<1>10. CASE UNCHANGED vars
  BY <1>1, <1>10 DEF vars, thread, scan
<1>11. QED
  BY <1>2, <1>4, <1>5, <1>6, <1>7, <1>8, <1>9, <1>10 DEF Next, Client

\* Although the history grows while observed turns its pages, and the connection
\* may end at each of them, a scan that ends has found what its pages held.
THEOREM RecentIsFound == Spec => []RecentFound
<1>1. Init => Scanned
  BY DEF Init, Scanned
<1>2. Scanned => RecentFound
  BY DEF Scanned, RecentFound
<1>3. QED
  BY <1>1, <1>2, IInvInit, IInvStep, RInvInit, RInvStep, ScannedStep, PTL DEF Spec

(***************************************************************************)
(* The client implements DeliveryOnce.                                     *)
(***************************************************************************)

On(m) == \E n \in 1..Len(items) : items[n].msg = m

\* A request that has not been handled left nothing in the history.
NotBoth == \A r \in sent : ~On(r.msg)

\* What a message has in the history is counted.
LEMMA CopiesCounted ==
  ASSUME NEW S, items \in Seq(S), NEW m
  PROVE  Copies(m) \in Nat /\ (Copies(m) = 0 <=> ~On(m))
<1> DEFINE T == {n \in DOMAIN items : items[n].msg = m}
<1>1. DOMAIN items = 1..Len(items) /\ Len(items) \in Nat
  OBVIOUS
<1>2. T \in SUBSET (1..Len(items))
  BY <1>1
<1>3. IsFiniteSet(T)
  <2>1. IsFiniteSet(1..Len(items))
    BY <1>1, FS_Interval
  <2>2. QED
    BY <1>2, <2>1, FS_Subset
<1>4. Cardinality(T) \in Nat /\ (Cardinality(T) = 0 <=> T = {})
  BY <1>3, FS_CardinalityType, FS_EmptySet
<1>5. QED
  BY <1>1, <1>4 DEF Copies, On

\* An input counts for its own message only.
LEMMA OneCopy ==
  ASSUME TypeOK, NEW x \in Message \cup {Nobody}, Input(x), NEW m
  PROVE  Copies(m)' = IF m = x THEN Copies(m) + 1 ELSE Copies(m)
<1> DEFINE S == {n \in DOMAIN items : items[n].msg = m}
           T == {n \in DOMAIN items' : items'[n].msg = m}
<1>1. /\ Len(items) \in Nat /\ Len(items') = Len(items) + 1
      /\ \A n \in 1..Len(items) : items'[n] = items[n]
      /\ items'[Len(items')] = [msg |-> x, turn |-> turn']
      /\ items' \in Seq([msg : Message \cup {Nobody}, turn : 1..MaxTurns])
  BY HistoryGrows
<1>2. items \in Seq([msg : Message \cup {Nobody}, turn : 1..MaxTurns])
  BY DEF TypeOK
<1>3. DOMAIN items = 1..Len(items) /\ DOMAIN items' = 1..Len(items')
  BY <1>1, <1>2
<1>4. T = IF m = x THEN S \cup {Len(items')} ELSE S
  BY <1>1, <1>3
<1>5. IsFiniteSet(S) /\ Len(items') \notin S
  <2>1. S \in SUBSET (1..Len(items)) /\ Len(items') \notin 1..Len(items)
    BY <1>1, <1>3
  <2>2. IsFiniteSet(1..Len(items))
    BY <1>1, FS_Interval
  <2>3. QED
    BY <2>1, <2>2, FS_Subset
<1>6. Cardinality(S \cup {Len(items')}) = Cardinality(S) + 1
  BY <1>5, FS_AddElement
<1>7. QED
  BY <1>4, <1>6 DEF Copies

\* Appending leaves what was in the history there.
LEMMA StaysOn ==
  ASSUME TypeOK, NEW x \in Message \cup {Nobody}, Input(x), NEW m
  PROVE  On(m)' <=> On(m) \/ m = x
<1>1. /\ Len(items) \in Nat /\ Len(items') = Len(items) + 1
      /\ \A n \in 1..Len(items) : items'[n] = items[n]
      /\ items'[Len(items')] = [msg |-> x, turn |-> turn']
  BY HistoryGrows
<1>2. items'[Len(items')].msg = x
  BY <1>1
<1>3. QED
  BY <1>1, <1>2 DEF On

\* Of one message, either the request is on its way or its input is in the history.
LEMMA NotBothStep == ASSUME IInv, RInv, NotBoth, [Next]_vars PROVE NotBoth'
<1>1. CASE OwnItem
  <2>1. Input(Nobody) /\ sent' = sent /\ \A r \in sent : r.msg # Nobody
    BY <1>1, ClientAssumption DEF OwnItem, request, IInv, Typed
  <2>2. QED
    BY <2>1, StaysOn DEF NotBoth, RInv
<1>2. ASSUME NEW r \in sent, Accept(r) PROVE NotBoth'
  <2>1. Input(r.msg) /\ r.msg \in Message /\ sent' = sent \ {r} /\ \A q \in sent' : q.msg # r.msg
    BY <1>2 DEF Accept, IInv, Typed, SentOpen
  <2>2. QED
    BY <2>1, StaysOn DEF NotBoth, RInv
<1>3. CASE Submit
  <2>1. /\ msg \in Message /\ outcome[msg] \in Retryable /\ cpc # "answer" /\ items' = items
        /\ sent' = sent \cup {[msg |-> msg, peer |-> peer, expected |-> expected]}
    BY <1>3 DEF Submit, thread, IInv, Trying
  <2>2. ~On(msg)
    BY <2>1 DEF IInv, ItemsFinal, Answering, On, Retryable
  <2>3. QED
    BY <2>1, <2>2 DEF NotBoth, On
<1>4. ASSUME sent' \subseteq sent, items' = items PROVE NotBoth'
  BY <1>4 DEF NotBoth, On
<1>5. CASE RuntimeChange \/ Load \/ TurnChange \/ UNCHANGED vars
  BY <1>4, <1>5 DEF RuntimeChange, Load, TurnChange, vars, thread, request
<1>6. ASSUME NEW r \in sent, Refuse(r) PROVE NotBoth'
  BY <1>4, <1>6 DEF Refuse, thread
<1>7. ASSUME Client, ~Submit PROVE NotBoth'
  BY <1>4, <1>7 DEF Client, Attempt, Connect, Unavailable, ReadThread, ListTurns, Answered, Lost, Observe, ScanPage,
     ScanFails, End, thread, request
<1>8. QED
  BY <1>1, <1>2, <1>3, <1>5, <1>6, <1>7 DEF Next, Thread

\* The phase of a message, without its CASE.
LEMMA PhaseOf ==
  ASSUME NEW m \in Message
  PROVE  /\ outcome[m] \in Retryable /\ msg # m => Phase(m) = "pending"
         /\ msg = m \/ Unsure(m) => Phase(m) = "inflight"
         /\ outcome[m] \notin Retryable /\ msg # m /\ ~Unsure(m) => Phase(m) = "settled"
<1>1. CASE outcome[m] \in Retryable /\ msg # m
  BY <1>1 DEF Phase, Retryable, Unsure
<1>2. CASE msg = m
  BY <1>2 DEF Phase
<1>3. CASE outcome[m] \notin Retryable /\ msg # m
  BY <1>3 DEF Phase, Retryable
<1>4. QED
  BY <1>1, <1>2, <1>3

\* How a step may move one message: Keep, Hand, Try, Defer or Settle.
Kept(m)  == Phase(m)' = Phase(m) /\ Copies(m)' = Copies(m)
Given(m) == Phase(m) = "inflight" /\ Phase(m)' = "inflight" /\ Copies(m) = 0 /\ Copies(m)' = 1
Moved(m) ==
  /\ Copies(m)' = Copies(m)
  /\ \/ Phase(m) = "pending"  /\ Phase(m)' = "inflight" /\ Copies(m) = 0
     \/ Phase(m) = "inflight" /\ Phase(m)' = "pending"  /\ Copies(m) = 0
     \/ Phase(m) = "inflight" /\ Phase(m)' = "settled"

LEMMA MessageStep == ASSUME NEW m \in Message, Kept(m) \/ Given(m) \/ Moved(m) PROVE Once!MsgStep(m)
<1>1. /\ [k \in Message |-> Phase(k)][m] = Phase(m) /\ [k \in Message |-> Phase(k)]'[m] = Phase(m)'
      /\ [k \in Message |-> Copies(k)][m] = Copies(m) /\ [k \in Message |-> Copies(k)]'[m] = Copies(m)'
  OBVIOUS
<1>2. QED
  BY <1>1 DEF Kept, Given, Moved, Once!MsgStep, Once!Keep, Once!Try, Once!Hand, Once!Defer, Once!Settle, Once!Move

\* A message that is tried again, or for the first time, left no copy.
LEMMA NoCopy ==
  ASSUME IInv, NEW m \in Message, outcome[m] \in Retryable, ~Answering(m, {"ok", "internal"})
  PROVE  Copies(m) = 0
<1>1. items \in Seq(Item) /\ ~On(m)
  BY DEF IInv, Typed, ItemsFinal, On, Answering, Retryable
<1>2. QED
  BY <1>1, CopiesCounted

\* A step that leaves the message alone.
LEMMA Steady ==
  ASSUME NEW m \in Message, outcome'[m] = outcome[m], msg' = m <=> msg = m, m \in observed' <=> m \in observed,
         Open(m)' <=> Open(m), Copies(m)' = Copies(m)
  PROVE  Kept(m)
  BY DEF Kept, Phase, Unsure

\* The runtime takes an input.
LEMMA AcceptMoves ==
  ASSUME IInv, RInv, NotBoth, NEW r \in sent, Accept(r), NEW m \in Message
  PROVE  Kept(m) \/ Given(m)
<1>1. Input(r.msg) /\ r.msg \in Message /\ sent' = sent \ {r} /\ UNCHANGED <<cpc, msg, outcome, observed>>
  BY DEF Accept, delivery, scan, IInv, Typed
<1>2. CASE m # r.msg
  <2>1. Copies(m)' = Copies(m) /\ (Open(m)' <=> Open(m))
    BY <1>1, <1>2, OneCopy DEF RInv, Open
  <2>2. QED
    BY <1>1, <2>1, Steady
<1>3. CASE m = r.msg
  <2>1. items \in Seq(Item) /\ ~On(m) /\ Copies(m) = 0
    BY <1>3, CopiesCounted DEF IInv, Typed, NotBoth
  <2>2. Copies(m)' = 1
    BY <1>1, <1>3, <2>1, OneCopy DEF RInv
  <2>3. m \notin observed
    <3>1. DOMAIN items = 1..Len(items)
      BY <2>1
    <3>2. QED
      BY <2>1, <3>1 DEF On, RInv, TypeOK
  <2>4. Open(m) /\ (outcome[m] = "unknown" \/ msg = m)
    BY <1>3 DEF Open, IInv, SentOpen, Answering
  <2>5. Phase(m) = "inflight"
    BY <2>3, <2>4, PhaseOf DEF Unsure
  <2>6. Phase(m)' = "inflight"
    <3>1. CASE msg = m
      BY <1>1, <3>1 DEF Phase
    <3>2. CASE msg # m
      <4>1. outcome'[m] = "unknown" /\ msg' # m /\ m \notin observed' /\ Copies(m)' > 0
        BY <1>1, <2>2, <2>3, <2>4, <3>2
      <4>2. QED
        BY <4>1 DEF Phase, Unsure
    <3>3. QED
      BY <3>1, <3>2
  <2>7. QED
    BY <2>1, <2>2, <2>5, <2>6 DEF Given
<1>4. QED
  BY <1>2, <1>3

\* It refuses one: nothing of the message is under way any more.
LEMMA RefuseMoves ==
  ASSUME IInv, RInv, NEW r \in sent, Refuse(r), NEW m \in Message
  PROVE  Kept(m) \/ Moved(m)
<1>1. items' = items /\ sent' = sent \ {r} /\ UNCHANGED <<msg, outcome, observed>>
  BY DEF Refuse, thread, delivery, scan
<1>2. Copies(m)' = Copies(m)
  BY <1>1 DEF Copies
<1>3. CASE m # r.msg
  BY <1>1, <1>2, <1>3, Steady DEF Open
<1>4. CASE m = r.msg
  <2>1. CASE msg = m
    BY <1>1, <1>2, <2>1 DEF Kept, Phase
  <2>2. CASE msg # m
    <3>1. outcome[m] = "unknown" /\ Open(m)
      BY <1>4, <2>2 DEF Open, IInv, SentOpen, Answering
    <3>2. CASE m \in observed \/ Copies(m) > 0
      BY <1>1, <1>2, <3>1, <3>2, <2>2 DEF Kept, Phase, Unsure
    <3>3. CASE m \notin observed /\ ~(Copies(m) > 0)
      <4>1. Phase(m) = "inflight"
        BY <3>1, <3>3, PhaseOf DEF Unsure
      <4>2. ~Open(m)'
        BY <1>1, <1>4 DEF Open, IInv, SentOpen
      <4>3. Phase(m)' = "settled"
        BY <1>1, <1>2, <2>2, <3>1, <3>3, <4>2 DEF Phase, Unsure
      <4>4. QED
        BY <1>2, <4>1, <4>3 DEF Moved
    <3>4. QED
      BY <3>2, <3>3
  <2>3. QED
    BY <2>1, <2>2
<1>5. QED
  BY <1>3, <1>4

\* A delivery ends, and may wait again only if nothing was submitted.
LEMMA EndMoves ==
  ASSUME IInv, RInv, msg \in Message, NEW st \in Retryable \cup {"unknown", "accepted_native"}, NEW wire, End(st, wire),
         st \in Retryable => cpc # "answer" \/ answer.kind = "invalid", NEW m \in Message
  PROVE  Kept(m) \/ Moved(m)
<1>1. /\ items' = items /\ sent' = sent /\ observed' = observed /\ msg' = Nobody
      /\ outcome' = [outcome EXCEPT ![msg] = st] /\ outcome \in [Message -> Retryable \cup {"unknown", "accepted_native"}]
  BY DEF End, Quit, thread, scan, IInv, Typed
<1>2. Copies(m)' = Copies(m) /\ (Open(m)' <=> Open(m)) /\ msg' # m
  BY <1>1, ClientAssumption DEF Copies, Open
<1>3. CASE m # msg
  BY <1>1, <1>2, <1>3, Steady
<1>4. CASE m = msg
  <2>1. outcome'[m] = st /\ Phase(m) = "inflight"
    BY <1>1, <1>4, PhaseOf
  <2>2. CASE st \in Retryable
    <3>1. Copies(m) = 0
      <4>1. ~Answering(m, {"ok", "internal"}) /\ outcome[m] \in Retryable
        BY <1>4, <2>2 DEF IInv, Trying, Answering
      <4>2. QED
        BY <4>1, NoCopy
    <3>2. Phase(m)' = "pending"
      BY <1>2, <2>1, <2>2 DEF Phase, Unsure, Retryable
    <3>3. QED
      BY <1>2, <2>1, <3>1, <3>2 DEF Moved
  <2>3. CASE st \notin Retryable
    <3>1. Phase(m)' = "inflight" \/ Phase(m)' = "settled"
      BY <1>2, <2>1, <2>3 DEF Phase, Retryable
    <3>2. QED
      BY <1>2, <2>1, <3>1 DEF Kept, Moved
  <2>4. QED
    BY <2>2, <2>3
<1>5. QED
  BY <1>3, <1>4

\* The steps of the client.
LEMMA ClientMoves == ASSUME IInv, RInv, Client, NEW m \in Message PROVE Kept(m) \/ Moved(m)
<1>0. m # Nobody /\ (msg = Nobody \/ msg \in Message)
  BY ClientAssumption DEF IInv, Trying
<1>1. ASSUME UNCHANGED <<items, sent, outcome, observed>>, msg' = m <=> msg = m PROVE Kept(m)
  BY <1>1, Steady DEF Copies, Open
<1>2. ASSUME NEW x \in Message, Attempt(x) PROVE Kept(m) \/ Moved(m)
  <2>1. /\ msg = Nobody /\ msg' = x /\ outcome[x] \in Retryable /\ cpc = "idle"
        /\ UNCHANGED <<items, sent, outcome, observed>>
    BY <1>2 DEF Attempt, Retryable, thread, request, scan, IInv, Trying
  <2>2. CASE m # x
    BY <1>0, <1>1, <2>1, <2>2
  <2>3. CASE m = x
    <3>1. Phase(m) = "pending"
      BY <1>0, <2>1, <2>3, PhaseOf
    <3>2. Phase(m)' = "inflight"
      BY <2>1, <2>3 DEF Phase
    <3>3. Copies(m)' = Copies(m)
      BY <2>1 DEF Copies
    <3>4. Copies(m) = 0
      <4>1. ~Answering(m, {"ok", "internal"})
        BY <2>1 DEF Answering
      <4>2. QED
        BY <2>1, <2>3, <4>1, NoCopy
    <3>5. QED
      BY <3>1, <3>2, <3>3, <3>4 DEF Moved
  <2>4. QED
    BY <2>2, <2>3
<1>3. ASSUME msg \in Message, NEW st \in Retryable \cup {"unknown", "accepted_native"}, NEW wire, End(st, wire),
             st \in Retryable => cpc # "answer" \/ answer.kind = "invalid"
      PROVE  Kept(m) \/ Moved(m)
  BY <1>3, EndMoves
<1>4. CASE Connect
  BY <1>1, <1>4 DEF Connect, thread, request, delivery, scan
<1>5. CASE Unavailable
  BY <1>0, <1>3, <1>5 DEF Unavailable, Retryable
<1>6. CASE ReadThread
  <2>1. msg \in Message
    BY <1>6 DEF ReadThread, IInv, Trying
  <2>2. CASE waiting
    BY <1>3, <1>6, <2>1, <2>2 DEF ReadThread, Retryable
  <2>3. CASE ~waiting
    BY <1>1, <1>6, <2>3 DEF ReadThread, thread, request, delivery, scan
  <2>4. QED
    BY <2>2, <2>3
<1>7. CASE ListTurns
  <2>1. msg \in Message
    BY <1>7 DEF ListTurns, IInv, Trying
  <2>2. CASE turn = 0
    BY <1>3, <1>7, <2>1, <2>2 DEF ListTurns, Retryable
  <2>3. CASE turn # 0
    BY <1>1, <1>7, <2>3 DEF ListTurns, thread, request, delivery, scan
  <2>4. QED
    BY <2>2, <2>3
<1>8. CASE Submit
  <2>1. /\ items' = items /\ sent' = sent \cup {[msg |-> msg, peer |-> peer, expected |-> expected]}
        /\ UNCHANGED <<msg, outcome, observed>>
    BY <1>8 DEF Submit, thread, delivery, scan
  <2>2. Copies(m)' = Copies(m)
    BY <2>1 DEF Copies
  <2>3. CASE msg = m
    BY <2>1, <2>2, <2>3 DEF Kept, Phase
  <2>4. CASE msg # m
    BY <2>1, <2>2, <2>4, Steady DEF Open
  <2>5. QED
    BY <2>3, <2>4
<1>9. CASE Answered
  <2>1. msg \in Message /\ cpc = "answer"
    BY <1>9 DEF Answered, IInv, Trying
  <2>2. CASE answer.kind = "ok"
    BY <1>3, <1>9, <2>1, <2>2 DEF Answered, Retryable
  <2>3. CASE answer.kind # "ok"
    BY <1>3, <1>9, <2>1, <2>3 DEF Answered, Rejected, Retryable
  <2>4. QED
    BY <2>2, <2>3
<1>10. CASE Lost
  <2>1. msg \in Message
    BY <1>10 DEF Lost, IInv, Trying
  <2>2. QED
    BY <1>3, <1>10, <2>1 DEF Lost, LostIsUnconfirmed, Retryable
<1>11. CASE Observe \/ ScanFails
  BY <1>0, <1>1, <1>11 DEF Observe, ScanFails, Quit, thread, request, delivery
<1>12. CASE ScanPage
  <2>1. /\ UNCHANGED <<items, sent, outcome>> /\ msg = Nobody /\ msg' = Nobody /\ observed \subseteq observed'
    BY <1>12 DEF ScanPage, Quit, thread, request, delivery, IInv, Trying
  <2>2. Copies(m)' = Copies(m) /\ (Open(m)' <=> Open(m))
    BY <2>1 DEF Copies, Open
  <2>3. CASE m \in observed' /\ m \notin observed
    <3>1. Phase(m)' = IF outcome[m] \in Retryable THEN "pending" ELSE "settled"
      BY <1>0, <2>1, <2>3 DEF Phase, Unsure, Retryable
    <3>2. Phase(m) = "pending" <=> outcome[m] \in Retryable
      BY <1>0, <2>1 DEF Phase, Unsure, Retryable
    <3>3. Phase(m) \in {"inflight", "settled", "pending"}
      BY DEF Phase
    <3>4. QED
      BY <2>2, <3>1, <3>2, <3>3 DEF Kept, Moved
  <2>4. CASE m \in observed' <=> m \in observed
    BY <2>1, <2>2, <2>4, Steady
  <2>5. QED
    BY <2>1, <2>3, <2>4
<1>13. QED
  BY <1>2, <1>4, <1>5, <1>6, <1>7, <1>8, <1>9, <1>10, <1>11, <1>12 DEF Client

\* The steps of the thread.
LEMMA ThreadMoves == ASSUME IInv, RInv, NotBoth, Thread, NEW m \in Message PROVE Kept(m) \/ Given(m) \/ Moved(m)
<1>1. CASE RuntimeChange \/ Load \/ TurnChange
  <2>1. UNCHANGED <<items, sent, outcome, observed, msg>>
    BY <1>1 DEF RuntimeChange, Load, TurnChange, request, delivery, scan
  <2>2. QED
    BY <2>1, Steady DEF Copies, Open
<1>2. CASE OwnItem
  <2>1. Input(Nobody) /\ m # Nobody /\ UNCHANGED <<sent, outcome, observed, msg>>
    BY <1>2, ClientAssumption DEF OwnItem, request, delivery, scan
  <2>2. Copies(m)' = Copies(m)
    BY <2>1, OneCopy DEF RInv
  <2>3. QED
    BY <2>1, <2>2, Steady DEF Open
<1>3. QED
  BY <1>1, <1>2, AcceptMoves, RefuseMoves DEF Thread

\* The client hands every message to the thread at most once: no lost answer, no
\* runtime that ends and no request handled late makes a second copy, and a
\* message waits again only when no copy is or can still get there.
THEOREM ClientDeliversOnce == Spec => DeliversOnce
<1>1. Init => Once!Init
  <2> SUFFICES ASSUME Init PROVE Once!Init
    OBVIOUS
  <2>1. ASSUME NEW m \in Message PROVE Phase(m) = "pending" /\ Copies(m) = 0
    <3>1. items \in Seq({}) /\ ~On(m)
      <4>1. Len(<<>>) = 0 /\ <<>> \in Seq({})
        OBVIOUS
      <4>2. QED
        BY <4>1 DEF Init, On
    <3>2. Copies(m) = 0
      BY <3>1, CopiesCounted
    <3>3. outcome[m] = "queued" /\ msg # m
      BY ClientAssumption DEF Init
    <3>4. QED
      BY <3>2, <3>3, PhaseOf DEF Retryable
  <2>2. QED
    BY <2>1 DEF Once!Init
<1>2. IInv /\ RInv /\ NotBoth /\ [Next]_vars => [Once!Next]_Once!vars
  <2> SUFFICES ASSUME IInv, RInv, NotBoth, [Next]_vars, NEW m \in Message PROVE Once!MsgStep(m)
    BY DEF Once!Next
  <2>1. Kept(m) \/ Given(m) \/ Moved(m)
    <3>1. CASE UNCHANGED vars
      BY <3>1, Steady DEF vars, thread, request, delivery, scan, Copies, Open
    <3>2. QED
      BY <3>1, ThreadMoves, ClientMoves DEF Next
  <2>2. QED
    BY <2>1, MessageStep
<1>3. Init => NotBoth
  BY DEF Init, NotBoth
<1>4. QED
  BY <1>1, <1>2, <1>3, IInvInit, IInvStep, RInvInit, RInvStep, NotBothStep, PTL DEF Spec, DeliversOnce, Once!Spec
=============================================================================

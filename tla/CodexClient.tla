------------------------------ MODULE CodexClient ------------------------------
(***************************************************************************)
(* The controller's connection to a Codex thread (codex.py): Client.deliver*)
(* hands a message to the thread's current turn or starts one, observed    *)
(* looks for messages in its history.  The thread moves on between any two *)
(* requests, and its runtime (module Launcher) may end and start again.    *)
(***************************************************************************)
EXTENDS Integers, Sequences, FiniteSets

CONSTANTS
  Message, Nobody,
  PageItems,     \* items of one page of history (100)
  MaxPages,      \* pages that observed looks at (10)
  MaxRuntimes, MaxTurns, MaxItems, MaxAttempts   \* bounds: runtimes in turn, turns, history, deliveries

ASSUME ClientAssumption ==
  /\ Nobody \notin Message
  /\ PageItems \in Nat \ {0} /\ MaxPages \in Nat \ {0}
  /\ MaxRuntimes \in Nat \ {0} /\ MaxTurns \in Nat /\ MaxItems \in Nat /\ MaxAttempts \in Nat

VARIABLES
  runtime, up,    \* runtimes so far that had the socket; the last one serves
  loaded,         \* it has the thread
  turn, turns,    \* its turn in progress, 0 when idle; turns so far
  waiting,        \* activeFlags: it waits for an approval or the user
  items,          \* its history, oldest first: [msg, turn], other items with Nobody
  sent,           \* turn/steer and turn/start requests it has not handled
  answer,         \* its answer to the request the client waits for
  cpc, msg, peer, expected,        \* the client; msg is Nobody for observed
  outcome, receipt, attempts,      \* status and wire_id of each message
  asked, top, pages, found, recent,   \* observed: what it looks for and how far it is
  observed

thread   == <<runtime, up, loaded, turn, turns, waiting, items>>
request  == <<sent, answer>>
delivery == <<outcome, receipt, attempts>>
scan     == <<asked, top, pages, found, recent, observed>>
vars     == <<thread, request, cpc, msg, peer, expected, delivery, scan>>

NoAnswer == [kind |-> "none", turn |-> 0]
Serves(k) == up /\ k = runtime
Loaded    == Serves(peer) /\ loaded

(***************************************************************************)
(* The thread.                                                             *)
(***************************************************************************)

\* The runtime ends, or a new one starts at the socket; its TUI resumes the thread.
RuntimeChange ==
  /\ \/ up /\ up' = FALSE /\ UNCHANGED runtime
     \/ ~up /\ runtime < MaxRuntimes /\ up' = TRUE /\ runtime' = runtime + 1
  /\ loaded' = FALSE /\ turn' = 0 /\ waiting' = FALSE
  /\ UNCHANGED <<turns, items, request, cpc, msg, peer, expected, delivery, scan>>

Load ==
  /\ up /\ ~loaded /\ loaded' = TRUE
  /\ UNCHANGED <<runtime, up, turn, turns, waiting, items, request, cpc, msg, peer, expected, delivery, scan>>

\* An input, of the user or the relay, goes to the turn in progress or starts one.
Input(m) ==
  /\ Len(items) < MaxItems
  /\ \/ turn # 0 /\ UNCHANGED <<turn, turns>>
     \/ turn = 0 /\ turns < MaxTurns /\ turn' = turns + 1 /\ turns' = turns + 1
  /\ items' = Append(items, [msg |-> m, turn |-> turn'])

\* Any item of the session itself: agent output, tool calls, the user's input.
OwnItem ==
  /\ loaded /\ Input(Nobody)
  /\ UNCHANGED <<runtime, up, loaded, waiting, request, cpc, msg, peer, expected, delivery, scan>>

TurnChange ==
  /\ turn # 0
  /\ \/ turn' = 0 /\ waiting' = FALSE
     \/ waiting' = ~waiting /\ UNCHANGED turn
  /\ UNCHANGED <<runtime, up, loaded, turns, items, request, cpc, msg, peer, expected, delivery, scan>>

Answer(r, a) ==
  answer' = IF cpc = "answer" /\ msg = r.msg THEN a ELSE answer

\* turn/steer is for the expected turn only; the client may be gone by now.
Accept(r) ==
  /\ r \in sent /\ Serves(r.peer) /\ loaded
  /\ r.expected \in {0, turn}
  /\ Input(r.msg)
  /\ sent' = sent \ {r}
  /\ \E kind \in {"ok", "internal"} : Answer(r, [kind |-> kind, turn |-> turn'])
  /\ UNCHANGED <<runtime, up, loaded, waiting, cpc, msg, peer, expected, delivery, scan>>

Refuse(r) ==
  /\ r \in sent /\ Serves(r.peer)
  /\ sent' = sent \ {r}
  /\ \E kind \in {"invalid", "internal"} : Answer(r, [kind |-> kind, turn |-> 0])
  /\ UNCHANGED <<thread, cpc, msg, peer, expected, delivery, scan>>

(***************************************************************************)
(* Client.deliver, one connection per attempt.                             *)
(***************************************************************************)

\* The queue tries again only what is known not to have been submitted.
Attempt(m) ==
  /\ cpc = "idle" /\ attempts < MaxAttempts
  /\ outcome[m] \in {"queued", "deferred", "blocked"}
  /\ attempts' = attempts + 1
  /\ cpc' = "connect" /\ msg' = m
  /\ UNCHANGED <<thread, request, peer, expected, outcome, receipt, scan>>

Connect ==
  /\ cpc = "connect" /\ up
  /\ peer' = runtime
  /\ cpc' = IF msg = Nobody THEN "scan" ELSE "read"
  /\ UNCHANGED <<thread, request, msg, expected, delivery, scan>>

Quit == cpc' = "idle" /\ msg' = Nobody /\ peer' = 0 /\ expected' = 0
End(st, wire) ==
  /\ Quit
  /\ outcome' = [outcome EXCEPT ![msg] = st] /\ receipt' = [receipt EXCEPT ![msg] = wire]
  /\ answer' = NoAnswer
  /\ UNCHANGED <<thread, sent, attempts, scan>>

\* No connection, no answer, an unusable one, or a thread that takes no input:
\* Unavailable, as long as nothing was submitted.
Unavailable == cpc \in {"connect", "read", "list"} /\ msg # Nobody /\ End("blocked", 0)

\* thread/read; a request of the thread for the user comes first (RetryLater).
ReadThread ==
  /\ cpc = "read" /\ Loaded
  /\ IF waiting THEN End("deferred", 0)
     ELSE /\ cpc' = IF turn = 0 THEN "submit" ELSE "list"
          /\ UNCHANGED <<thread, request, msg, peer, expected, delivery, scan>>

\* thread/turns/list: the turn that is in progress by now.
ListTurns ==
  /\ cpc = "list" /\ Loaded
  /\ IF turn = 0 THEN End("deferred", 0)
     ELSE /\ expected' = turn /\ cpc' = "submit"
          /\ UNCHANGED <<thread, request, msg, peer, delivery, scan>>

\* turn/steer with the expected turn, or turn/start.
Submit ==
  /\ cpc = "submit" /\ Serves(peer)
  /\ sent' = sent \cup {[msg |-> msg, peer |-> peer, expected |-> expected]}
  /\ cpc' = "answer"
  /\ UNCHANGED <<thread, answer, msg, peer, expected, delivery, scan>>

ExpectedTurn == expected
AnsweredTurn == answer.turn
AnyError     == answer.kind \in {"invalid", "internal"}
Rejected     == answer.kind = "invalid"

Answered ==
  /\ cpc = "answer" /\ answer # NoAnswer
  /\ IF answer.kind = "ok" THEN End("accepted_native", AnsweredTurn)
     ELSE End(IF Rejected THEN "blocked" ELSE "unknown", 0)

LostIsUnavailable == "blocked"
LostIsUnconfirmed == "unknown"

\* A timeout, a closed connection or an unusable answer once the input is out.
Lost == cpc \in {"submit", "answer"} /\ End(LostIsUnconfirmed, 0)

(***************************************************************************)
(* observed: pages of the history from its end, of one turn when known.    *)
(***************************************************************************)

\* Together: messages with the same turn id, or those without one.
Observe ==
  /\ cpc = "idle"
  /\ \E wire \in 0..MaxTurns :
       LET open == {m \in Message \ observed : outcome[m] \in {"accepted_native", "unknown"} /\ receipt[m] = wire} IN
       /\ open # {} /\ asked' = open
       /\ expected' = wire
  /\ cpc' = "connect" /\ top' = 0 /\ pages' = 0 /\ found' = {} /\ recent' = {}
  /\ UNCHANGED <<thread, request, msg, peer, delivery, observed>>

\* The items of the turn, all of them without one, ranked from the oldest.
History == {n \in DOMAIN items : expected \in {0, items[n].turn}}
Rank(n) == Cardinality({k \in History : k <= n})
Between(first, last) == {items[n].msg : n \in {k \in History : first < Rank(k) /\ Rank(k) <= last}}

FirstPage == Cardinality(History)
NextPage  == IF pages = 0 THEN FirstPage ELSE top

LastPage == top' <= 0 \/ pages' = MaxPages \/ found' = asked

\* thread/items/list: up to PageItems items older than the cursor.
ScanPage ==
  /\ cpc = "scan" /\ Serves(peer)
  /\ found' = found \cup (asked \cap Between(NextPage - PageItems, NextPage))
  /\ recent' = IF pages = 0 THEN asked \cap Between(FirstPage - PageItems * MaxPages, FirstPage) ELSE recent
  /\ top' = NextPage - PageItems /\ pages' = pages + 1
  /\ IF LastPage
     THEN Quit /\ observed' = observed \cup found'
     ELSE UNCHANGED <<cpc, msg, peer, expected, observed>>
  /\ UNCHANGED <<thread, request, delivery, asked>>

\* What it found is lost with the connection.
ScanFails ==
  /\ cpc \in {"connect", "scan"} /\ msg = Nobody
  /\ Quit /\ recent' = {}
  /\ UNCHANGED <<thread, request, delivery, asked, top, pages, found, observed>>
-----------------------------------------------------------------------------
Init ==
  /\ runtime = 1 /\ up = TRUE /\ loaded = FALSE /\ turn = 0 /\ turns = 0 /\ waiting = FALSE /\ items = <<>>
  /\ sent = {} /\ answer = NoAnswer
  /\ cpc = "idle" /\ msg = Nobody /\ peer = 0 /\ expected = 0
  /\ outcome = [m \in Message |-> "queued"] /\ receipt = [m \in Message |-> 0] /\ attempts = 0
  /\ asked = {} /\ top = 0 /\ pages = 0 /\ found = {} /\ recent = {} /\ observed = {}

Thread  == RuntimeChange \/ Load \/ OwnItem \/ TurnChange \/ \E r \in sent : Accept(r) \/ Refuse(r)
Client  == \/ \E m \in Message : Attempt(m)
           \/ Connect \/ Unavailable \/ ReadThread \/ ListTurns \/ Submit \/ Answered \/ Lost
           \/ Observe \/ ScanPage \/ ScanFails

Next == Thread \/ Client

Spec == Init /\ [][Next]_vars
-----------------------------------------------------------------------------
\* Every variable keeps its range; a message is observed only in the history.
TypeOK ==
  /\ runtime \in 1..MaxRuntimes /\ up \in BOOLEAN /\ loaded \in BOOLEAN
  /\ turn \in 0..turns /\ turns \in 0..MaxTurns /\ waiting \in BOOLEAN
  /\ items \in Seq([msg : Message \cup {Nobody}, turn : 1..MaxTurns]) /\ Len(items) <= MaxItems
  /\ sent \subseteq [msg : Message, peer : 1..MaxRuntimes, expected : 0..MaxTurns]
  /\ answer \in [kind : {"none", "ok", "invalid", "internal"}, turn : 0..MaxTurns]
  /\ cpc \in {"idle", "connect", "read", "list", "submit", "answer", "scan"}
  /\ msg \in Message \cup {Nobody} /\ peer \in 0..MaxRuntimes /\ expected \in 0..MaxTurns
  /\ outcome \in [Message -> {"queued", "deferred", "blocked", "unknown", "accepted_native"}]
  /\ receipt \in [Message -> 0..MaxTurns] /\ attempts \in 0..MaxAttempts
  /\ asked \subseteq Message /\ found \subseteq asked /\ recent \subseteq asked
  /\ pages \in 0..MaxPages /\ top \in Int
  /\ observed \subseteq {items[n].msg : n \in DOMAIN items}

Copies(m) == Cardinality({n \in DOMAIN items : items[n].msg = m})
Open(m)   == \E r \in sent : r.msg = m

\* A message of which something may still be on its way, or found.
Unsure(m) == outcome[m] = "unknown" /\ m \notin observed /\ (Open(m) \/ Copies(m) > 0)
Phase(m)  == CASE outcome[m] \in {"queued", "deferred", "blocked"} /\ msg # m -> "pending"
               [] msg = m \/ Unsure(m) -> "inflight"
               [] OTHER -> "settled"

Once == INSTANCE DeliveryOnce WITH phase <- [m \in Message |-> Phase(m)], handed <- [m \in Message |-> Copies(m)]

\* Behind the queue's own claim, the client implements at-most-once delivery to
\* the thread as well: "Ambiguous responses or crashes are reconciled without
\* resending" (docs/connections.md).
DeliversOnce == Once!Spec

Submitted(m) == Open(m) \/ \E n \in DOMAIN items : items[n].msg = m

\* "Ambiguous responses or crashes are reconciled without resending"
\* (docs/connections.md): a message that can be tried again is not in the
\* history and will not come into it by a request that is still on its way.
DefiniteNotSubmitted ==
  \A m \in Message : outcome[m] \in {"queued", "deferred", "blocked"} /\ msg # m => ~Submitted(m)

\* The turn recorded with an accepted message is the one its input is in, so
\* that observed, which looks at this turn only, can find it.
ReceiptTrue ==
  \A m \in Message : outcome[m] = "accepted_native" =>
    \E n \in DOMAIN items : items[n] = [msg |-> m, turn |-> receipt[m]]

\* observed finds what the last MaxPages pages held when it began, although the
\* history grows while it turns the pages.
RecentFound == cpc # "scan" => recent \subseteq observed
=============================================================================

------------------------------ MODULE PairQueue ------------------------------
(***************************************************************************)
(* The outgoing queue of one Connection (connections.py): the tables       *)
(* pair_messages and pair_meta, the agents that insert rows, and the       *)
(* controllers that call create, recover, tick, retry_blocked and          *)
(* disconnect.  A tick is split at every point where another process can   *)
(* run: each step is one database transaction or one external call.        *)
(*                                                                         *)
(* The Claude mailboxes behind a pair are seen through their interface     *)
(* only: Collect reports statuses and replies that PairQueue leaves open.  *)
(***************************************************************************)
EXTENDS Naturals, FiniteSets

CONSTANTS
  Participant,   \* the two sessions of the immutable pair
  Claude,        \* those whose provider is "claude"; the others are Codex
  Controller,    \* controller processes
  Exclusive,     \* TRUE: controllers serialise ticks, as docs/connections.md asks
  Turn,          \* turn ids a Codex runtime can return
  PeerStatus,    \* final statuses a Claude mailbox can report for a row
  PageSize,      \* rows examined by one reconciliation (LIMIT 100)
  MaxSeq,        \* bound: rows of pair_messages
  MaxFaults,     \* bound: crashes and escaped exceptions
  MaxRetries,    \* bound: calls of retry_blocked
  None

Switchboard == "switchboard"
Pending     == {"queued", "deferred"}
Reported    == {"sent", "unknown", "held", "denied", "expired", "delivered", "dropped"}

ASSUME PairAssumption ==
  /\ \E a, b \in Participant : a # b /\ Participant = {a, b}
  /\ Switchboard \notin Participant
  /\ Claude \subseteq Participant
  /\ PeerStatus \subseteq Reported
  /\ MaxSeq \in Nat /\ MaxSeq >= 2
  /\ PageSize \in Nat \ {0}
  /\ MaxFaults \in Nat /\ MaxRetries \in Nat
  /\ Exclusive \in BOOLEAN
  /\ "mailbox" \notin Turn /\ None \notin Turn \cup {"mailbox"}

VARIABLES
  enabled,       \* pair_meta 'enabled'
  last,          \* highest seq of pair_messages
  sender, recipient, reply_to, status, wire_id,  \* columns, by seq
  meta,          \* rows that have a 'delivery:<id>' entry in pair_meta
  cursor,        \* pair_meta 'receipt_cursor'
  running,       \* controllers that are alive
  pc,            \* where each controller stands
  pick,          \* the row a tick selected
  seen,          \* the status that row had in the selection transaction
  todo,          \* rows of the receipt page still to be asked about
  legs,          \* Claude legs still to be collected by this tick
  result,        \* what the delivery attempt returned
  retry,         \* retry_blocked: "idle", or "checked" once enabled() was true
  retries, faults,
  inputs         \* how often each row was handed to its recipient

columns == <<last, sender, recipient, reply_to>>
local   == <<pick, seen, todo, legs, result>>
control == <<running, retry, retries, faults>>
vars    == <<enabled, columns, status, wire_id, meta, cursor, pc, local, control, inputs>>

Seqs     == 1..MaxSeq
NoResult == [status |-> "none", wire |-> None]
Peer(p)  == CHOOSE q \in Participant : q # p

(***************************************************************************)
(* Inserting rows.                                                         *)
(***************************************************************************)

\* _insert: the new row gets the next seq and starts 'queued'.
Insert(from, to, reply) ==
  /\ last' = last + 1
  /\ sender'    = [sender    EXCEPT ![last + 1] = from]
  /\ recipient' = [recipient EXCEPT ![last + 1] = to]
  /\ reply_to'  = [reply_to  EXCEPT ![last + 1] = reply]
  /\ status'    = [status    EXCEPT ![last + 1] = "queued"]

Reserved == IF \E c \in Controller : pc[c] = "notify" THEN 2 ELSE 0

AnyReply(p)   == 1..last
Answerable(p) == {s \in 1..last : recipient[s] = p}

\* Connection.send, from the CLI or the MCP server: one IMMEDIATE transaction.
Send(p) ==
  /\ enabled
  /\ last + Reserved < MaxSeq
  /\ \E reply \in {0} \cup Answerable(p) : Insert(p, Peer(p), reply)
  /\ UNCHANGED <<enabled, wire_id, meta, cursor, pc, local, control, inputs>>

(***************************************************************************)
(* Controller life cycle: create, crash, restart with recover, disconnect. *)
(***************************************************************************)

\* The notices of create enter one transaction, in the order of participants.
Notify(c) ==
  /\ pc[c] = "notify" /\ last + 2 <= MaxSeq
  /\ \E p \in Participant :
       LET q == Peer(p) IN
       /\ last' = last + 2
       /\ sender'    = [sender    EXCEPT ![last + 1] = Switchboard, ![last + 2] = Switchboard]
       /\ recipient' = [recipient EXCEPT ![last + 1] = p, ![last + 2] = q]
       /\ status'    = [status    EXCEPT ![last + 1] = "queued", ![last + 2] = "queued"]
  /\ pc' = [pc EXCEPT ![c] = "idle"]
  /\ UNCHANGED <<enabled, reply_to, wire_id, meta, cursor, local, control, inputs>>

CancelOnlyQueued == [s \in Seqs |-> IF status[s] = "queued" THEN "cancelled" ELSE status[s]]
Cancelled ==
  [s \in Seqs |-> IF status[s] \in {"queued", "deferred", "blocked"} THEN "cancelled" ELSE status[s]]

\* disconnect, called by a controller between ticks or by a create that failed.
Disconnect(c) ==
  /\ pc[c] \in {"idle", "notify"}
  /\ enabled' = FALSE
  /\ status' = Cancelled
  /\ pc' = [pc EXCEPT ![c] = "idle"]
  /\ UNCHANGED <<columns, wire_id, meta, cursor, local, control, inputs>>

Reset(c) ==
  /\ pick'   = [pick   EXCEPT ![c] = 0]
  /\ seen'   = [seen   EXCEPT ![c] = "none"]
  /\ todo'   = [todo   EXCEPT ![c] = {}]
  /\ legs'   = [legs   EXCEPT ![c] = {}]
  /\ result' = [result EXCEPT ![c] = NoResult]

\* A controller takes over: alone, when controllers are exclusive.
Start(c) ==
  /\ c \notin running
  /\ Exclusive => running = {}
  /\ running' = running \cup {c}
  /\ pc' = [pc EXCEPT ![c] = "recover"]
  /\ UNCHANGED <<enabled, columns, status, wire_id, meta, cursor, local, retry, retries, faults, inputs>>

RecoverByRequeue(s) == IF status[s] = "sending" THEN "queued" ELSE status[s]
Recovered(s)        == IF status[s] = "sending" THEN "unknown" ELSE status[s]

Recover(c) ==
  /\ pc[c] = "recover"
  /\ status' = [s \in Seqs |-> Recovered(s)]
  /\ pc' = [pc EXCEPT ![c] = "idle"]
  /\ UNCHANGED <<enabled, columns, wire_id, meta, cursor, local, control, inputs>>

\* The process dies between any two steps.
Crash(c) ==
  /\ c \in running /\ faults < MaxFaults
  /\ running' = running \ {c}
  /\ faults' = faults + 1
  /\ pc' = [pc EXCEPT ![c] = "down"]
  /\ Reset(c)
  /\ UNCHANGED <<enabled, columns, status, wire_id, meta, cursor, retry, retries, inputs>>

TickSteps == {"reconcile", "observe", "collect", "validate", "claim", "deliver", "finish"}

\* An exception tick does not catch (a locked database, a broken WebSocket)
\* ends the tick where it stands; the controller lives on.
Abort(c) ==
  /\ pc[c] \in TickSteps /\ faults < MaxFaults
  /\ faults' = faults + 1
  /\ pc' = [pc EXCEPT ![c] = "idle"]
  /\ Reset(c)
  /\ UNCHANGED <<enabled, columns, status, wire_id, meta, cursor, running, retry, retries, inputs>>

(***************************************************************************)
(* tick, first half: receipts of Codex rows, then the Claude mailboxes.    *)
(***************************************************************************)

TickBegin(c) ==
  /\ pc[c] = "idle" /\ c \in running
  /\ enabled
  /\ pc' = [pc EXCEPT ![c] = "reconcile"]
  /\ UNCHANGED <<enabled, columns, status, wire_id, meta, cursor, local, control, inputs>>

\* Codex rows whose receipt is still open, after seq n: the query joins the
\* delivery record, so a row without one is never asked about.
Unresolved(n) ==
  {s \in (n + 1)..last : status[s] \in {"accepted_native", "unknown"} /\ recipient[s] \notin Claude
                         /\ s \in meta}

\* The PageSize smallest elements of rows.
Page(rows) == {s \in rows : Cardinality({t \in rows : t < s}) < PageSize}

CursorAlwaysReset(page, n) == n = 0
\* The last row of a full page; a page that is not full ends the cycle.
CursorAfter(page, n) ==
  IF Cardinality(page) = PageSize THEN n \in page /\ \A s \in page : s <= n ELSE n = 0

\* reconcile_codex reads one page and moves the cursor in the same transaction.
ReconcilePage(c) ==
  /\ pc[c] = "reconcile"
  /\ LET page == Page(Unresolved(cursor)) IN
     /\ \E n \in 0..last : CursorAfter(page, n) /\ cursor' = n
     /\ todo' = [todo EXCEPT ![c] = page]
     /\ pc' = [pc EXCEPT ![c] = IF page = {} THEN "collect" ELSE "observe"]
  /\ legs' = [legs EXCEPT ![c] = Claude]
  /\ UNCHANGED <<enabled, columns, status, wire_id, meta, pick, seen, result, control, inputs>>

\* The rows asked about together: same thread and turn as the oldest one.
Group(c) ==
  {s \in todo[c] : \E t \in todo[c] : /\ \A u \in todo[c] : t <= u
                                      /\ recipient[s] = recipient[t] /\ wire_id[s] = wire_id[t]}

\* Client.observed, a bounded scan of the history: it finds only inputs that are
\* there, and may miss any of them.
Scans(c) == SUBSET {s \in Group(c) : inputs[s] > 0}

\* A scan that fails leaves every status as it was.
Observe(c) ==
  /\ pc[c] = "observe"
  /\ \E found \in Scans(c) :
       status' = [s \in Seqs |-> IF s \in found THEN "input_observed" ELSE status[s]]
  /\ todo' = [todo EXCEPT ![c] = @ \ Group(c)]
  /\ pc' = [pc EXCEPT ![c] = IF todo'[c] = {} THEN "collect" ELSE @]
  /\ UNCHANGED <<enabled, columns, wire_id, meta, cursor, pick, seen, legs, result, control, inputs>>

Handed(p) == {s \in 1..last : recipient[s] = p /\ wire_id[s] = "mailbox"}

\* _collect of one Claude leg: receipts and replies in the order of its
\* mailbox, seen here as any statuses for handed rows and any new replies.
Collect(c, p) ==
  /\ pc[c] = "collect" /\ p \in legs[c]
  /\ \E new \in [Handed(p) -> PeerStatus \cup {"same"}] :
     \E n \in last..(MaxSeq - Reserved) : \E answers \in [(last + 1)..n -> {0} \cup Handed(p)] :
       /\ status' = [s \in Seqs |-> IF s \in (last + 1)..n THEN "queued"
                                    ELSE IF s \in Handed(p) /\ new[s] # "same" THEN new[s] ELSE status[s]]
       /\ sender'    = [s \in Seqs |-> IF s \in (last + 1)..n THEN p ELSE sender[s]]
       /\ recipient' = [s \in Seqs |-> IF s \in (last + 1)..n THEN Peer(p) ELSE recipient[s]]
       /\ reply_to'  = [s \in Seqs |-> IF s \in (last + 1)..n THEN answers[s] ELSE reply_to[s]]
       /\ last' = n
  /\ legs' = [legs EXCEPT ![c] = @ \ {p}]
  /\ UNCHANGED <<enabled, wire_id, meta, cursor, pc, pick, seen, todo, result, control, inputs>>

(***************************************************************************)
(* tick, second half: select one row, validate its recipient, claim it,    *)
(* hand it over, record the outcome.                                       *)
(***************************************************************************)

HeadAmongQueued(s) ==
  /\ status[s] \in Pending
  /\ \A t \in 1..(s - 1) : recipient[t] = recipient[s] => status[t] # "queued"
OnlyQueued(s) ==
  /\ status[s] = "queued"
  /\ \A t \in 1..(s - 1) : recipient[t] = recipient[s] => status[t] \notin Pending
\* The oldest pending row of its recipient.
Eligible(s) ==
  /\ status[s] \in Pending
  /\ \A t \in 1..(s - 1) : recipient[t] = recipient[s] => status[t] \notin Pending

\* ORDER BY (status = 'deferred'), seq
Before(s, t) == \/ status[s] = "queued" /\ status[t] = "deferred"
                \/ status[s] = status[t] /\ s <= t

Select(c) ==
  /\ pc[c] = "collect" /\ legs[c] = {}
  /\ \/ \E s \in 1..last :
          /\ Eligible(s) /\ \A t \in 1..last : Eligible(t) => Before(s, t)
          /\ pick' = [pick EXCEPT ![c] = s]
          /\ seen' = [seen EXCEPT ![c] = status[s]]
          /\ pc' = [pc EXCEPT ![c] = "validate"]
     \/ /\ \A s \in 1..last : ~Eligible(s)
        /\ pc' = [pc EXCEPT ![c] = "idle"]
        /\ UNCHANGED <<pick, seen>>
  /\ UNCHANGED <<enabled, columns, status, wire_id, meta, cursor, todo, legs, result, control, inputs>>

\* The host's callback, start_daemon and queue_binary.  When one fails the row
\* is 'blocked' whatever its status is by now.
Validate(c) ==
  /\ pc[c] = "validate"
  /\ \/ /\ pc' = [pc EXCEPT ![c] = "claim"]
        /\ UNCHANGED <<status, pick, seen>>
     \/ /\ status' = [status EXCEPT ![pick[c]] = "blocked"]
        /\ pc' = [pc EXCEPT ![c] = "idle"]
        /\ pick' = [pick EXCEPT ![c] = 0] /\ seen' = [seen EXCEPT ![c] = "none"]
  /\ UNCHANGED <<enabled, columns, wire_id, meta, cursor, todo, legs, result, control, inputs>>

NoRecord(s)       == meta
DeliveryRecord(s) == IF recipient[s] \in Claude THEN meta ELSE meta \cup {s}

SelectedOnce(c)    == TRUE
StillAsSelected(c) == status[pick[c]] = seen[c]

\* Compare-and-set to 'sending'; the delivery record commits with it.
Claim(c) ==
  /\ pc[c] = "claim"
  /\ \/ /\ StillAsSelected(c)
        /\ status' = [status EXCEPT ![pick[c]] = "sending"]
        /\ meta' = DeliveryRecord(pick[c])
        /\ pc' = [pc EXCEPT ![c] = "deliver"]
        /\ seen' = [seen EXCEPT ![c] = "none"]
        /\ UNCHANGED pick
     \/ /\ ~StillAsSelected(c)
        /\ pc' = [pc EXCEPT ![c] = "idle"]
        /\ pick' = [pick EXCEPT ![c] = 0] /\ seen' = [seen EXCEPT ![c] = "none"]
        /\ UNCHANGED <<status, meta>>
  /\ UNCHANGED <<enabled, columns, wire_id, cursor, todo, legs, result, control, inputs>>

Outcome(st, wire, n) == [status |-> st, wire |-> wire, handed |-> n]

\* Client.call of turn/steer or turn/start: the answer is lost or makes no sense
\* (Unconfirmed), or the runtime refuses the request (Rejected).
CallFailures == {Outcome("unknown", None, n) : n \in 0..1} \cup {Outcome("blocked", None, 0)}

\* What an attempt can return, and how often it handed the row over.
CodexOutcomes == {Outcome("accepted_native", t, 1) : t \in Turn} \cup CallFailures
                   \cup {Outcome("deferred", None, 0), Outcome("blocked", None, 0)}
ClaudeOutcomes == {Outcome("queued_peer", "mailbox", 1)}
                   \cup {Outcome("unknown", None, n) : n \in 0..1}
LostAnswerBlocks(s) == IF recipient[s] \in Claude THEN ClaudeOutcomes
                       ELSE CodexOutcomes \cup {Outcome("blocked", None, 1)}
Outcomes(s) == IF recipient[s] \in Claude THEN ClaudeOutcomes ELSE CodexOutcomes

\* queue_message into the Claude mailbox, or Client.deliver into the Codex turn.
Deliver(c) ==
  /\ pc[c] = "deliver"
  /\ \E o \in Outcomes(pick[c]) :
       /\ inputs' = [inputs EXCEPT ![pick[c]] = @ + o.handed]
       /\ result' = [result EXCEPT ![c] = [status |-> o.status, wire |-> o.wire]]
  /\ pc' = [pc EXCEPT ![c] = "finish"]
  /\ UNCHANGED <<enabled, columns, status, wire_id, meta, cursor, pick, seen, todo, legs, control>>

\* The outcome is recorded only while the row is still 'sending'.
Finish(c) ==
  /\ pc[c] = "finish"
  /\ IF status[pick[c]] = "sending"
     THEN /\ status'  = [status  EXCEPT ![pick[c]] = result[c].status]
          /\ wire_id' = [wire_id EXCEPT ![pick[c]] = result[c].wire]
     ELSE UNCHANGED <<status, wire_id>>
  /\ pc' = [pc EXCEPT ![c] = "idle"]
  /\ Reset(c)
  /\ UNCHANGED <<enabled, columns, meta, cursor, control, inputs>>

(***************************************************************************)
(* retry_blocked, from any thread: the check of enabled and the update are *)
(* two transactions.                                                       *)
(***************************************************************************)

RetryCheck ==
  /\ retry = "idle" /\ retries < MaxRetries
  /\ enabled
  /\ retry' = "checked" /\ retries' = retries + 1
  /\ UNCHANGED <<enabled, columns, status, wire_id, meta, cursor, pc, local, running, faults, inputs>>

RequeueUnknown == [s \in Seqs |-> IF status[s] \in {"blocked", "unknown"} THEN "queued" ELSE status[s]]
Requeued       == [s \in Seqs |-> IF status[s] = "blocked" THEN "queued" ELSE status[s]]

RetryApply ==
  /\ retry = "checked"
  /\ status' = Requeued
  /\ retry' = "idle"
  /\ UNCHANGED <<enabled, columns, wire_id, meta, cursor, pc, local, running, retries, faults, inputs>>
-----------------------------------------------------------------------------
\* connection.json has just been written: the connection exists, with no rows,
\* and its creator is about to queue the two notices.
Init ==
  /\ enabled = TRUE /\ last = 0
  /\ sender    = [s \in Seqs |-> None]
  /\ recipient = [s \in Seqs |-> None]
  /\ reply_to  = [s \in Seqs |-> 0]
  /\ status    = [s \in Seqs |-> "none"]
  /\ wire_id   = [s \in Seqs |-> None]
  /\ meta = {} /\ cursor = 0
  /\ \E c \in Controller : running = {c}
  /\ pc = [c \in Controller |-> IF c \in running THEN "notify" ELSE "down"]
  /\ pick   = [c \in Controller |-> 0]
  /\ seen   = [c \in Controller |-> "none"]
  /\ todo   = [c \in Controller |-> {}]
  /\ legs   = [c \in Controller |-> {}]
  /\ result = [c \in Controller |-> NoResult]
  /\ retry = "idle" /\ retries = 0 /\ faults = 0
  /\ inputs = [s \in Seqs |-> 0]

TickStep(c) ==
  \/ TickBegin(c) \/ ReconcilePage(c) \/ Observe(c) \/ \E p \in Claude : Collect(c, p)
  \/ Select(c) \/ Validate(c) \/ Claim(c) \/ Deliver(c) \/ Finish(c)

Next ==
  \/ \E p \in Participant : Send(p)
  \/ \E c \in Controller : \/ Notify(c) \/ Start(c) \/ Recover(c) \/ Disconnect(c)
                           \/ Crash(c) \/ Abort(c) \/ TickStep(c)
  \/ RetryCheck \/ RetryApply

Spec == Init /\ [][Next]_vars

\* A controller ticks in a loop and the host restarts it.  A Codex runtime
\* that defers a row accepts or refuses it in the end, and a receipt that is
\* asked for again and again is found in the end.
Fairness ==
  \A c \in Controller :
    /\ WF_vars(Start(c)) /\ WF_vars(Notify(c)) /\ WF_vars(Recover(c)) /\ WF_vars(TickStep(c))
    /\ \A s \in Seqs :
         /\ SF_vars(pick[c] = s /\ Deliver(c) /\ result'[c].status # "deferred")
         /\ SF_vars(Observe(c) /\ status[s] # "input_observed" /\ status'[s] = "input_observed")

FairSpec == Spec /\ Fairness
-----------------------------------------------------------------------------
(* What the pair promises of one message, whatever happens around it. *)
Phase(s) == CASE status[s] = "none"      -> "absent"
              [] status[s] \in {"queued", "deferred", "blocked"} -> "pending"
              [] status[s] = "sending"   -> "inflight"
              [] status[s] = "cancelled" -> "cancelled"
              [] OTHER                   -> "settled"

Once == INSTANCE DeliveryOnce
          WITH Message <- Seqs, phase <- [s \in Seqs |-> Phase(s)], handed <- inputs

\* The queue implements at-most-once delivery with a final outcome per message:
\* a settled or cancelled row is never queued again, and a row goes back to
\* waiting only when its attempt handed nothing over.
DeliversOnce == Once!Spec
-----------------------------------------------------------------------------
Statuses == Reported \cup {"none", "queued", "deferred", "blocked", "cancelled", "sending",
                           "queued_peer", "accepted_native", "input_observed"}
Positions == TickSteps \cup {"down", "recover", "notify", "idle"}
Results  == [status : Statuses, wire : Turn \cup {"mailbox", None}]

\* Every variable keeps its range: the columns, the controllers' positions and
\* what each remembers between two steps of a tick.
TypeOK ==
  /\ enabled \in BOOLEAN /\ last \in 0..MaxSeq
  /\ sender \in [Seqs -> Participant \cup {Switchboard, None}]
  /\ recipient \in [Seqs -> Participant \cup {None}]
  /\ reply_to \in [Seqs -> 0..MaxSeq]
  /\ status \in [Seqs -> Statuses]
  /\ wire_id \in [Seqs -> Turn \cup {"mailbox", None}]
  /\ meta \subseteq Seqs /\ cursor \in 0..MaxSeq
  /\ running \subseteq Controller
  /\ pc \in [Controller -> Positions]
  /\ pick \in [Controller -> 0..MaxSeq] /\ seen \in [Controller -> Pending \cup {"none"}]
  /\ todo \in [Controller -> SUBSET Seqs] /\ legs \in [Controller -> SUBSET Claude]
  /\ result \in [Controller -> Results \cup {NoResult}]
  /\ retry \in {"idle", "checked"} /\ retries \in Nat /\ faults \in Nat
  /\ inputs \in [Seqs -> Nat]

\* A row that tick or retry_blocked may send (or that disconnect reports as
\* never sent) was never handed to its recipient: "retry_blocked() explicitly
\* retries only messages known not to have been submitted" (docs/connections.md).
Unsubmitted == {"queued", "deferred", "blocked", "cancelled"}
RetrySafe == \A s \in Seqs : status[s] \in Unsubmitted => inputs[s] = 0

\* No row reaches its recipient twice, across crashes, lost answers, deferrals,
\* retries and recover: "Ambiguous responses or crashes are reconciled without
\* resending" (docs/connections.md).
AtMostOnce == \A s \in Seqs : inputs[s] <= 1

OneController   == \A c, d \in running : c = d
LiveHasPosition == \A c \in Controller : c \in running <=> pc[c] # "down"
RowsUpToLast    == \A s \in Seqs : status[s] = "none" <=> s > last
WaitingIsUnsent == \A s \in Seqs : status[s] \in Unsubmitted \cup {"none"} => inputs[s] = 0
MailboxIsSettled == \A s \in Seqs : wire_id[s] = "mailbox" => status[s] \notin Unsubmitted \cup {"none", "sending"}

\* What a controller's position says about the row it picked.
PickTracksRow ==
  \A c \in Controller :
    /\ pc[c] \in {"validate", "claim", "deliver", "finish"} => pick[c] \in 1..last
    /\ pc[c] \in {"validate", "claim"} => seen[c] \in Pending /\ status[pick[c]] = seen[c]
    /\ pc[c] \in {"deliver", "finish"} => status[pick[c]] = "sending"
    /\ pc[c] = "deliver" => inputs[pick[c]] = 0
    /\ pc[c] = "finish" =>
         /\ result[c].status \in {"deferred", "blocked", "accepted_native", "unknown", "queued_peer"}
         /\ result[c].status \in {"deferred", "blocked"} => inputs[pick[c]] = 0
         /\ result[c].wire = "mailbox" => result[c].status = "queued_peer"

\* The strengthening that makes RetrySafe and AtMostOnce inductive: the rows are
\* exactly those up to last, and there is one live controller, whose position
\* in the tick tells what the row it picked has been through.  Serialised
\* controllers are what docs/connections.md demands.
DeliveryInv ==
  /\ OneController /\ LiveHasPosition
  /\ RowsUpToLast /\ WaitingIsUnsent /\ MailboxIsSettled /\ PickTracksRow

\* While a message waits for its turn because the runtime deferred it, no later
\* message to the same recipient is handed over (the NOT EXISTS of tick's
\* selection), whatever was retried or collected since.
NoOvertake ==
  [][\A s \in Seqs : inputs'[s] > inputs[s] =>
       \A t \in 1..(s - 1) : recipient[t] = recipient[s] => status[t] # "deferred"]_vars

\* After disconnect nothing is left that a later tick or a concurrent
\* retry_blocked, which may have read enabled before, could still send.
QuietAfterDisconnect ==
  ~enabled => \A s \in Seqs : status[s] \notin {"queued", "deferred", "blocked"}

\* A reply names a row that was addressed to the session that replies: the check
\* of send, and _collect's lookup of wire_id within the leg.
ReplyRouting ==
  \A s \in 1..last : reply_to[s] # 0 => reply_to[s] < s /\ recipient[reply_to[s]] = sender[s]

\* Whatever was put into a Codex thread, and every Codex row whose outcome is in
\* doubt, has its delivery record in pair_meta, also when ticks overlap: an
\* attempt whose answer was lost in whatever way is one that reconcile_codex,
\* which joins that record, can still ask about.
Reconcilable ==
  \A s \in 1..last :
    recipient[s] \notin Claude /\ (status[s] \in {"sending", "accepted_native", "unknown"} \/ inputs[s] > 0)
      => s \in meta

\* No message stays queued or deferred for ever: each is attempted, blocked or
\* cancelled, although every tick sends at most one row and deferred rows yield.
NoRowStuck == \A s \in Seqs : status[s] \in Pending ~> status[s] \notin Pending

\* A Codex input that arrived is observed in the end, however many older rows
\* stay unresolved: "unresolved old receipts must not starve newer ones"
\* (reconcile_codex).
ReceiptsNotStarved ==
  \A s \in Seqs :
    (status[s] \in {"accepted_native", "unknown"} /\ recipient[s] \notin Claude /\ inputs[s] > 0)
      ~> (status[s] = "input_observed" \/ ~enabled)
=============================================================================

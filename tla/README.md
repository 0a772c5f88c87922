# Verification of the local relay

TLA+ models of `codex_claude_local_relay`, model-checked with TLC and proved
about with TLAPS. Source files named below without a directory are in
`src/src/codex_claude_local_relay/`.

## 1. The system

The relay carries messages between two coding-agent sessions on one machine. A
host application (the *controller*) owns a `Connection`: an immutable pair of
sessions, each Claude Code or Codex, with a durable queue. A Claude session is
reached through a *mailbox* with a detached daemon; a Codex thread through a
WebSocket of its runtime. Claude answers by writing to the mailbox's socket, and
either agent by the CLI or the MCP server, which insert into the queue of the pair.

| component | code | state | operations |
|---|---|---|---|
| pair connection controller | `connections.py` | SQLite `pair_messages`, `pair_meta` (enabled, receipt cursor, delivery records, leg cursors) | `create`, `send`, `tick` (`reconcile_codex`, `_collect`, select, claim, deliver, finish), `recover`, `retry_blocked`, `maintain`, `disconnect` |
| mailbox daemon | `relay.py` | SQLite `messages` | `queue_message`, `serve`'s loop, `receive_frame` |
| listener life cycle | `endpoints.py`, `relay.py` | `startup.lock`, `daemon.lock`, `reply.json`, `daemon.json`, the socket | `serve`, `start_daemon`, `stop_daemon`, `daemon_status`, `pin_address` |
| Codex client | `codex.py` | one connection | `deliver`, `observed`, `call` |
| MCP server | `mcp.py` | bound session, `mcp/<pid>.json` | `bind`, `register`, `complete_registration`, `unregister`, `bridge_status`, tools over the pair |
| runtime launcher | `runtime.py` | two child processes, the runtime's socket | start, watch, stop |
| enrolment, discovery, peer authentication | `relay.py` | `config.json`, `/proc`, keys | `enroll`, `sessions`, `send_wire`'s checks |
| command line, export, diagnostics | `relay.py`, `connections.py` | none | input and output |

How they meet: `tick` calls `start_daemon` and `queue_message` of the mailbox,
or `Client.deliver`; `_collect` reads the mailbox behind a cursor; `maintain`
calls `start_daemon`; `disconnect` calls `stop_daemon`; a controller asks
`bridge_status` before it relies on a session to answer; the client talks to the
runtime that a launcher keeps. Everything else is shared through SQLite
transactions and files, without one common lock.

What is hard, and what makes each part correct:

* **controller** — a tick is a chain of transactions and external calls. The
  process may die between any two, an exception may end the tick, agents insert
  rows and users retry meanwhile. Correct: no row is handed over twice; a row
  that may be sent again was never handed over; outcomes are final; order per
  recipient; replies are routed within the pair; nothing survives a disconnect;
  every attempt can be reconciled; no message and no receipt starves.
* **controller and mailbox** — two databases without a common transaction.
  Correct: a row crosses both at most once; a status never goes back; no answer
  is skipped or forwarded twice, also when ticks overlap or die.
* **mailbox** — one loop and many handler threads on the same rows, a peer that
  answers before the loop records that it sent. Correct: at most one send, the
  receipt wins over the transport, order, an outcome for every message.
* **listener** — files written in a certain order by processes that may die at
  each step, beside foreign programs that come between two system calls. Correct:
  one daemon; nobody removes what is another's; the mailbox becomes reachable again.
* **Codex client** — turns change between two requests, answers get lost,
  a request may be handled after the client gave up on it. Correct: a refusal is
  never taken for a lost answer, nor the reverse, so that a message gets to the
  thread at most once; a receipt names the right turn.
* **MCP server** — two threads write the bound session, an in-app resume changes
  it, controllers clean up registrations. Correct: a call acts as a session that
  was live during it; a running server stays registered, a dead one does not.
* **launcher** — signals at any point, children that end at any time. Correct: no
  child outlives it, it outlives no child, it cuts off nobody else's runtime.

`PROJECT.json` lists the single hazards at their lines, each with the properties
that would catch it or the reason why none does.

## 2. Modules

| module | models | lines of code |
|---|---|---|
| `DeliveryOnce` | the abstract promise to a message: handed over at most once, waits again only when nothing was handed over, final outcome; implemented by `PairQueue`, `Mailbox` and `CodexClient` | — |
| `PairQueue` | the queue of a pair and its controllers | `connections.py` 88–225, 284–369, 424–567; outcomes of `codex.py` 76–226 |
| `Mailbox` | one mailbox, its send loop, its handler threads, the Claude peer | `relay.py` 157–163, 216–366, 439–450 |
| `PairLeg` | `PairQueue` and `Mailbox` composed: `queue_message` inside a tick, `_collect` in detail | `connections.py` 182–189, 330–348, 424–478, 541–562; `relay.py` 166–173, 439–450 |
| `Listener` | the life cycle of one daemon, its callers, foreign programs | `endpoints.py` 36–131, `relay.py` 297–417 |
| `CodexClient` | one delivery or scan after the other over a changing thread | `codex.py` 33–226 |
| `McpBridge` | a Claude Code MCP server, its two threads, a controller's preflight | `mcp.py` 96–123, 157–324, 382–424, 518–535 |
| `Launcher` | `codex-relay-session` with its two programs | `runtime.py` 44–116 |
| `PairQueueProofs`, `MailboxProofs`, `PairLegProofs`, `ListenerProofs`, `CodexClientProofs`, `McpBridgeProofs`, `LauncherProofs` | theorems | — |
| `MCPairQueue`, `MCPairLeg` | constants and symmetry for TLC; the other modules are run as they are | — |

**PairQueue.** Rows are numbered by `seq`; each column the control depends on is
a function on `1..MaxSeq`. `body`, `kind`, `at`, `error` are left out. A tick is
`TickBegin` (enabled), `ReconcilePage` (one transaction: page and cursor),
`Observe` per group, `Collect` per Claude leg, `Select`, `Validate`, `Claim`,
`Deliver`, `Finish`. The process can die (`Crash`) or the tick be left by an
exception (`Abort`) between any two; `Start` and `Recover` follow a crash.
`RetryCheck` and `RetryApply` are the two transactions of `retry_blocked`.
`inputs[s]` is a history variable: how often the recipient was handed row `s`.
It is what the code cannot see: `Deliver` of an unconfirmed attempt may or may
not increment it. `Collect` stands for `_collect` seen from the queue: any
reported status for rows handed to the mailbox, any new replies; `PairLeg` shows
that the real one does no more. `wire_id` keeps that a row has one (`"mailbox"`),
or the turn it went to. The sizes of bodies and envelopes are left out, so no
message is refused for its size, and the hook `prepare` does nothing. That
`disconnect` stops two daemons, and that the first stop may raise, is left out
too: `Listener` models one daemon by itself.

**Mailbox.** Out rows are numbered in the order of `seq`; `log` holds the receipts
and answers. `receive_frame` is one transaction, so one action; it runs at any
time the daemon listens, also between two steps of the loop and, as in the code,
before `Settle`. `SELECT` and `UPDATE` of the loop (`Take`) are one action since
no other actor moves a row out of `queued`. `got` is a history variable of the
peer. `frames` is a set: frames are reordered freely, and may be lost or repeated
under their id. Frame contents, `unwrap`, `correlation` and the check of the
peer's process are left out.

**PairLeg.** The variables of both modules side by side, with `copy` (the mailbox
row a pair row was put into), `lcursor` (`cursor:<key>`, a position in the log),
`reading` (what a tick of each controller has read) and `origin` (the log row that
a pair row was made from, its uuid5). A hand-over is `Admit` (`daemon_status`),
then `HandOver` or `Refuse`, then `Finish` in another transaction. A collection is
`ReadCursor`, `ReadPage`, `Apply`: three transactions of two databases, with any
step of the other controller, of the daemon and of the peer in between. Whatever
touches the mailbox is an action of `Mailbox`, by construction. The queue's part is
defined on its own (`HandOver`, `Refuse`, `Apply`), and `ImplementsPairQueue`,
`Spec` of `PairQueue` over the same variables, says that it does what `Deliver` and
`Collect` admit.

**Listener.** A daemon's `pc` names the statement it is about to execute in
`serve`. Each system call on the socket's path is a step of its own: `prepare_socket`
looks (`Prepare`), compares with `reply.json` and connects (`Probe`), and
`remove_socket`, from there and at the end of `serve`, looks again (`Compare`) and
unlinks by name (`Unlink`); `record_socket` looks at what is there after the bind
(`RecordSocket`) and takes it for the daemon's own. `known` is what the daemon goes
by: `info` in `prepare_socket`, `owned_socket` from `record_socket` on. A cleaner or
another program may come between any two of these steps; `raced` is a history
variable that keeps the programs which bound while a daemon was between bind and
`record_socket`, or between comparison and unlink. `reply.json` is read in the
step that connects. A socket is named after the process that bound it: device and
inode are then never shared by two files. (Inode reuse after a file is deleted is
outside the model.) Process ids with their start time are slots that are reused only when
no file refers to them, which is what the start time achieves. A daemon of a
long-lived starter becomes a zombie when it dies. SIGTERM before the handlers are
installed kills. A caller's timeouts are steps that may happen at any time;
a child that needs five seconds to start is a fault. `pin_address` is two steps, its
look for `reply.json` (`Pin`) and its write (`Adopt`); a starter takes them under
`startup.lock`, `serve` under `daemon.lock`, so they can interleave. `Old` is a
daemon of an older version, which runs at first without `reply.json` and which a
starter adopts. The session is assumed alive and to stay in one directory, so the
checks of `pin_address` succeed and there is one address.

**CodexClient.** The thread is a turn in progress, a history of items and flags;
every request is a step against whatever it is by then. A mutation is sent
(`Submit`) and handled later by the same runtime (`Accept`, `Refuse`), also when
the client has given up (`Lost`). The app-server
answers `invalid` (the codes for which `call` raises `Rejected`) only when it did
not take the input: this is the meaning of those codes, and the model's main
assumption on the server. `outcome` holds the status that `tick` records, so
`Attempt` retries what the queue retries. `observed` reads pages from the end of
a history that grows: `History` are the positions of the items it is about, `Rank`
counts them from the oldest, a page is an interval of ranks, and new items leave
the ranks of the older ones alone, as a cursor into the thread does; `recent`
remembers what its pages held when it began. In `Once`, the refinement mapping to
`DeliveryOnce`, a message is handed over as often as the history holds it
(`Copies`). It is in flight while its attempt lasts, and after an attempt with an
unknown outcome for as long as it is not observed and something may still be on
its way, or found (`Unsure`); that is what a late `Accept` needs.
Frames of other ids, which `call` skips, are left out.

**McpBridge.** Claude Code's registry maps each app to its session; `Register` is
an in-app resume, a start or an end. A nested app (`Inside`) makes the nearest
ancestor with a row matter. `pc` and `tpc` are the main and the registration
thread, each read and write of `self.claude`, `self.registration` and the file a
step of its own. A pid can be used by several servers in turn (`life`). `during`
is a history variable: what the server could have resolved to since the call
began. A controller's `bridge_status` is `Ask`, which lists the directory once
(`Listing`), then `ReadFile`, `Probe`, `Unlink` per listed file, then `Judge`. A
server that registers after the listing is not part of that question. Only the provider `claude` is modelled: for Codex each call names
its thread, `bind` keeps nothing and the registration never changes. After an
unregister at exit, `Send` is the insertion modelled in `PairQueue`.

**Launcher.** One path of `--socket` for all launchers; with the default path,
a private directory each, launchers do not meet. `Signal` is the KeyboardInterrupt
that SIGTERM and SIGHUP raise, in the `try` or in the `finally`. `struck` and
`overlap` are history variables for the two exceptions below. SIGINT is ignored by
the launcher; a SIGKILL of it leaves everything and is not modelled.

## 3. What TLC checks

| run | question | result |
|---|---|---|
| `mixed` | Do the safety properties hold for a Claude–Codex pair under one controller that may crash or abort? | pass |
| `receipts` | Does every message and every receipt make progress? | pass |
| `mailbox` | At most one send, receipts, order, an outcome, across exits of the daemon? | pass |
| `leg` | Once across both queues, no stale status, no lost answer, everything arrives, and does the composition implement `PairQueue`? | pass |
| `overlap` | One row for each message of the peer, and each row sent at most once, although ticks overlap and frames repeat? | pass |
| `lost` | Is an answer that cannot be routed always surfaced? | violated |
| `listener` | One daemon, who may remove what, what makes a record of a socket untrue, and does the mailbox come back after any three faults? | pass |
| `unrecorded` | Also when a daemon dies between bind and `record_socket`? | violated |
| `zombie` | Also when its controller does not wait for a dead child? | violated |
| `codex` | Are a delivery's outcome and receipt right, is a message put in once, and does a scan find what its pages held? | pass |
| `bridge` | Do calls follow the session, are registrations and the preflight's answer right, and is no server passed over among several files? | pass |
| `launcher` | Does a launcher stop its children, and only its own runtime? | pass |

Properties, and what would break them:

* `RetrySafe`, `AtMostOnce` (PairQueue): rows that may be sent were not handed
  over; nothing is handed over twice. A lost answer taken for a refusal, a
  retry of `unknown` rows, or, when ticks overlap (`overlap`), a claim without
  comparison breaks them.
* `DeliversOnce` (PairQueue, Mailbox, CodexClient): refinement of `DeliveryOnce`,
  with the statuses mapped to phases. Requeueing in `recover` or in the daemon's
  start, or taking any error of the runtime for a refusal, breaks it.
* `QuietAfterDisconnect`, `ReplyRouting`, `Reconcilable`, `NoOvertake`: see the
  comments beside them. `Reconcilable` is about Codex rows: whatever was put into
  the thread or is in doubt has the record that `reconcile_codex` joins. `NoOvertake`
  is about deferred rows: a blocked row that is retried may follow later rows, by
  design.
* `NoRowStuck`, `ReceiptsNotStarved`: liveness of the queue, for finite traffic.
* `WireAtMostOnce`, `ReceiptWins`, `QueueOrder`, `OutcomeReached`: the mailbox.
* `EndToEndOnce`, `StatusNotStale`, `NoAnswerLost`, `OutcomeCarried`,
  `AnswersArrive`, `AnswersOnce`, `RepeatedOnce`: the pair over its mailbox. A
  cursor that jumps to the end of the log, or an answer forwarded under a fresh
  id, breaks them.
* `OneDaemon`, `ForeignKept`, `SuccessorSafe`, `RecordHolds`, `RestoredIfRecorded`:
  the listener. `ForeignKept` exempts a program in `raced` (section 4); a cleanup that
  does not compare breaks it.
  `RecordHolds` is the safety side of `RestoredIfRecorded`: it names the two steps
  after which `reply.json` may not describe the socket at the address. A record that
  is written only once breaks it.
* `DefiniteNotSubmitted`, `ReceiptTrue`, `RecentFound`: the client. A timeout
  classified as `Unavailable`, the expected turn recorded instead of the answered
  one, or pages counted from the front break them.
* `FollowsOnceQuiet`, `KeptWhileRunning`, `NoneOverlooked`, `LeftoverCleared`,
  `ReadyAsBound`: the MCP server. `NoneOverlooked` is what `ReadyAsBound` rests on,
  step by step. Resolving once, removing what cannot be read, a pid taken for a
  process, or a preflight that trusts the file break them.
* `ClosesUnlessStruck`, `StaysReachable`, `EndsWithTui`: the launcher.
* `TypeOK` is proved for each module and not checked by the runs.

Each property has a mutant in `PROJECT.json`: a plausible bug, defined in the
module beside the original, under which TLC finds the property violated.

**Bounds.** `MaxSeq = 3` admits the two notices and one message, or three messages
of one direction: enough for a head of line, a follower and a row that enters
between. One fault and one retry reach each single crash point with a recovery,
and a crash followed by a retry. `PageSize = 1` (100 in the code) makes every
receipt wait behind a page boundary. `receipts` has two rows and no Claude leg:
`Collect` may report anything for ever and would only add noise; `leg` has the
real one. The mailbox has two messages, two kinds of receipt and two exits: an
exit on either side of each step, and one during the recovery. `leg` has one
message each way, which makes receipts, outcome and answer race, over pages of one
row, so that the cursor moves within a backlog; its mailbox does not exit, which
`mailbox` covers. `overlap` has two controllers, two messages of the peer or one
repeated, which go on to the Codex session, and no retry. The listener has three
faults: the file of a daemon is cleared, a foreign program binds, and a further one hits the repair. It
begins with nothing running, or with a daemon of an older version (`Old = d1`).
The start command, whose calls are those of the controller, is left out; `Serve`
is the daemon started by hand, without `startup.lock`.
Four process slots suffice for every combination of names in files; with fewer TLC
reports a deadlock in `Spawn`. The client has two messages, three deliveries, two
turns and two runtimes, and four items over pages of one with a limit of two, so
that history outgrows the scan. The bridge has two servers in turn, under one
pid or two, so that the controller may be at the file of one that ended while the
other starts and writes its own; two sessions, an app in an app and one change of the
registry. Two servers that run at the same time share nothing but the directory and
are not in the run. Two launchers and two signals give one signal for the
`try` and one for the `finally`.
`CHECK_DEADLOCK FALSE` is stated where the system may stop: the mailbox and the
leg, where nothing is left to send; the client, when bounds are used up; the
launchers, when all are gone.

**Fairness.** A controller ticks in a loop and the host restarts it
(`docs/connections.md`), hence weak fairness of each of its steps. Strong fairness
is assumed of the environment twice: a Codex runtime that defers a row again and
again accepts or refuses it in the end ("Delivery will continue after that request
is resolved", `codex.py:162`), and a receipt that is asked for again and again is
found in the end. The second is not met by an input that is further back than the
ten pages `observed` reads; such a row stays open, by design. `NoRowStuck` is about
finite traffic: `tick` takes queued rows before deferred ones, so a steady stream of
messages to the other session would hold a deferred one back, which `MaxSeq` rules
out. The daemon's loop and `maintain` run for ever (weak fairness);
in `leg` the daemon is started while the pair is enabled, which is what `maintain`
and `start_daemon` in each tick do. That they do restore it is what `listener` checks
and what `unrecorded` and `zombie` refute in their cases: there `OutcomeReached` has
no daemon to rely on. Controllers ask `bridge_status` again and
again (weak fairness of `Ask` and of its steps). A launcher's main thread runs:
its waits are bounded by timeouts and end in a kill, so `Main` is weakly fair.
Crashes, timeouts, users, peers and the children of a launcher have none, and
faults are bounded. `Exclusive = TRUE` is the rule of `docs/connections.md` lines
6–7 that a controller serialises ticks and disconnect and calls `recover` once
after acquiring ownership.

## 4. Findings

Disagreements with the documentation that a run exhibits:

1. `unrecorded`: a daemon that dies between `relay.py:333` and `335` leaves a
   socket that no later daemon recognises; `docs/protocol.md` promises that missing
   listeners are restored. `RestoredIfRecorded` in `listener` shows that a dead socket
   which `reply.json` does not describe and a foreign one are the only obstacles within
   the bounds, if dead children are waited for. `RecordHolds` is proved: once the
   address is described, this window and item 7 are the only ways to such a socket.
2. `zombie`: `daemon_status` takes a zombie child of the controller for a running
   process, so `maintain` waits for it to stop and gives up, each time.
3. `lost`: a tick that ends, by a crash or an exception it does not catch, between
   `queue_message` and the record of the wire id leaves a row whose answers
   `_collect` drops; `routing_issues` does not show them, although it is said to
   surface what cannot reach the pair.
Behaviour that the properties exclude, because the code does not rule it out:

4. While the registration thread of an MCP server runs (at most 30 s after a start
   without a session), it may store a session it resolved before a resume over the
   one `bind` has just stored (`mcp.py:311`), and that call acts as the former
   session (`mcp.py:251` reads `self.claude` again). `FollowsOnceQuiet` is about
   calls that begin when the thread has ended.
5. `registrations` unlinks a path it read earlier. A server that was given the pid
   of a dead one and registers in between loses its file until the next change of
   its session. `KeptWhileRunning` is about the first server of a pid.
6. A signal between `Popen` and `children.append`, or a second one during the
   cleanup, leaves a process behind (`runtime.py:73–79`, `89–92`, `103–116`);
   `ClosesUnlessStruck` marks both. Two launchers that both find the socket
   path free may remove each other's socket; `StaysReachable` marks it `overlap`.
7. The first `pin_address` of a starter looks for `reply.json` (`endpoints.py:36`) and
   writes it later (line 71). A `serve` started by hand that pins, binds and records
   its socket in between loses the record; if that daemon is killed, its socket is
   refused as in finding 1. `Unrecorded`, which `RestoredIfRecorded` exempts, covers
   this socket too, and `RecordHolds` names this step as `PinsLate`.
8. A program that takes over the address between bind and `record_socket`
   (`relay.py:333`, `335`), after somebody cleared the file away, is recorded in
   `reply.json` as the daemon's own, and its socket is unlinked when the daemon stops
   (`endpoints.py:119`, `relay.py:365`), although `docs/protocol.md` promises that
   foreign files are left intact. The same can happen between a comparison and the
   unlink by name (`endpoints.py:128–129`, also at the end of `prepare_socket`).
   `ForeignKept` exempts the programs that bound in such a moment (`raced`).
9. Two ticks that overlap may send a row twice, in spite of the compare-and-set that
   is said to prevent it (`connections.py:521`): a tick whose validation fails writes
   `blocked` whatever the status is by then (515–518), and `retry_blocked` queues a
   row again that the other tick has sent. `AtMostOnce` is proved for `Exclusive`,
   which the documentation asks for; `overlap` shows that overlapping ticks alone,
   without a retry, a crash or an exception, do not break it.

## 5. What is proved

For every value of the constants (any number of rows, controllers, messages,
daemons, servers, launchers, faults), from the assumptions that the modules name
(`PairAssumption`, `MailboxAssumption`, `LegAssumption`, `ListenerAssumption`,
`ClientAssumption`, `BridgeAssumption`, `LauncherAssumption`):

| theorem | statement |
|---|---|
| `PairQueueProofs!TypeCorrect` | `TypeOK`, also for controllers that do not serialise |
| `PairQueueProofs!NoDoubleDelivery` | `RetrySafe` and `AtMostOnce`, if `Exclusive` |
| `PairQueueProofs!RetriesAreSafe` | `RetrySafe`, if `Exclusive` |
| `PairQueueProofs!AttemptsReconcilable` | `Reconcilable`, also for controllers that do not serialise |
| `PairQueueProofs!RepliesRouted` | `ReplyRouting`, also for overlapping ticks |
| `PairQueueProofs!DisconnectIsFinal` | `QuietAfterDisconnect`, if `Exclusive` |
| `PairQueueProofs!DeferredKeepsOrder` | `NoOvertake`, if `Exclusive` |
| `PairQueueProofs!ImplementsDeliveryOnce` | the refinement, if `Exclusive` |
| `MailboxProofs!TypeCorrect` | `TypeOK` |
| `MailboxProofs!NeverSentTwice` | `WireAtMostOnce` |
| `MailboxProofs!LastReceiptWins` | `ReceiptWins` |
| `MailboxProofs!SentInOrder` | `QueueOrder` |
| `MailboxProofs!MailboxDeliversOnce` | the refinement |
| `PairLegProofs!QueueImplemented` | `ImplementsPairQueue` |
| `PairLegProofs!OnceEndToEnd` | `EndToEndOnce`, if `Exclusive` |
| `PairLegProofs!RepeatsIgnored` | `RepeatedOnce`, also for overlapping ticks |
| `PairLegProofs!AnswersKeepOrder` | `AnswersOnce`, if `Exclusive` |
| `PairLegProofs!AnswersKept` | `NoAnswerLost`, if `Exclusive` |
| `PairLegProofs!StatusIsCurrent` | `StatusNotStale`, if `Exclusive` |
| `ListenerProofs!OneDaemonHolds` | `OneDaemon` |
| `ListenerProofs!SuccessorIsSafe` | `SuccessorSafe` |
| `ListenerProofs!ForeignLeftAlone` | `ForeignKept`, for any number of foreign programs |
| `ListenerProofs!RecordStaysTrue` | `RecordHolds` |
| `ListenerProofs!TypeCorrect` | `TypeOK`, with one starter past `startup.lock` |
| `CodexClientProofs!NeverSubmittedTwice` | `DefiniteNotSubmitted` |
| `CodexClientProofs!ReceiptsAreTrue` | `ReceiptTrue` |
| `CodexClientProofs!ClientDeliversOnce` | the refinement |
| `CodexClientProofs!RecentIsFound` | `RecentFound` |
| `CodexClientProofs!TypeCorrect` | `TypeOK` |
| `McpBridgeProofs!CallFollows` | `FollowsOnceQuiet` |
| `McpBridgeProofs!ServerStaysRegistered` | `KeptWhileRunning` |
| `McpBridgeProofs!NobodyOverlooked` | `NoneOverlooked` |
| `McpBridgeProofs!TypeCorrect` | `TypeOK` |
| `LauncherProofs!TypeCorrect` | `TypeOK` |
| `LauncherProofs!RuntimeCloses` | `ClosesUnlessStruck` |
| `LauncherProofs!RuntimeReachable` | `StaysReachable` |

*PairQueue.* `AtMostOnce` alone says nothing about a row that is about to be
handed over. The strengthening adds that waiting rows are unsent
(`WaitingIsUnsent`), and that the position of the one live controller tells what
the row it picked has been through (`PickTracksRow`): before `Deliver` it is
`sending` and unsent, before `Finish` a deferred or blocked result means unsent.
`RowsUpToLast` keeps new rows off rows in flight, and `MailboxIsSettled` keeps
`Collect` off rows that wait. `OneController` is where exclusiveness enters:
without it the position of another controller could be contradicted, which is
what item 9 describes. The refinement follows from one lemma about the moves a
row may make (`RowsAllowed`). `Reconcilable` and `ReplyRouting` need no
exclusiveness: whoever delivers a row has claimed it, the delivery record commits
with the claim, and nothing removes one (`HasRecord`); a row's recipient and the row
it answers are fixed when it is inserted (`RoutedRow`).

*Mailbox.* The loop sends only a row it marked before, and such a row was not
received; receipts exist only for received messages, so none can move a row
that waits. For the order, whatever was sent precedes whatever is queued.
`LogInv` and `HasReceipt` serve the composition: the log grows at its end only, its
ids are unique, and a message that shows a receipt has one in the log.

*PairLeg.* Each step of the composition is a step of `PairQueue` or leaves its
variables alone; the work is in `Apply`, whose statuses and answers must be ones
that `Collect` admits. The invariants of `Mailbox` carry over, as its variables
change by its own actions only. `OnceEndToEnd` then combines
the theorems of the two modules through the refinements: a row is handed over at
most once, so it has one mailbox row, which goes over the wire at most once.
`RepeatedOnce` rests on `Origins`: the log's ids are unique and `INSERT OR IGNORE`
admits each once. For the others, one controller keeps the cursor where the page it
holds begins (`Cursored`); what the cursor has passed answers no row whose wire id is
about to be recorded (`Recorded`); and a row shows a receipt the cursor has not
reached, or the last one it passed, or the outcome of the transport if there is none
(`Current`). That a last one exists (`HasLatest`) comes from the library's `WFMin`
on the naturals.

*Listener.* A live daemon past `flock` holds the lock, and `daemon.json` never
names a slot that went to a new process. Since the lock outlives the cleanup, no
other daemon is beyond `flock` while one serves. For `ForeignKept`: a foreign
socket that `reply.json` describes, or that a daemon goes by once it has compared,
came between two calls of a daemon on the path (`ForeignInv`). A program binds a new
file, which nobody knows yet; and only `record_socket`, which takes what it finds,
makes a daemon own a socket that it did not bind. For `RecordHolds`: only the holder
of `daemon.lock` binds and records, and there is no record before `reply.json`
(`AdoptInv`). So a daemon that writes the first one finds nothing of another to
overwrite, while a starter, which holds another lock, may.

*CodexClient.* A request that is on its way belongs to a message in `answer` or to
one that is `unknown`; an answer that is not `ok` and `invalid` came without an
input. Hence the only outcomes that permit a retry were reached without one. The
refinement adds that no message is both on its way and in the history (`NotBoth`),
and that an input adds one copy of its own message (`OneCopy`, with the library's
facts about cardinalities): then every `Accept` is the first. For `RecentFound`,
what the pages held when the scan began has been found or lies on the pages that are
left (`Scanned`, `Ahead`); appending leaves ranks as they are (`PagesStay`), and an
interval of ranks is a page and the rest (`PageByPage`).

*McpBridge.* For `CallFollows`: during a call that no thread disturbs, what the
server's ancestors serve is in `during`, and what the call holds was resolved
since it began. For `ServerStaysRegistered`: whoever wrote a file was started
(`Starts`), and a controller about to unlink a path has read a file of a server
that is gone (`UnlinkGone`) — which a running server of the same pid can only be
if it is a later one. `NobodyOverlooked` uses both: a server that serves has its
file when the directory is listed and when the controller comes to it, with the
start time that `Probe` looks for.

*Launcher.* Every process is in the list of children or was started at a position
where a signal strikes; whatever is in the list is dead past its wait.

Only model-checked: the liveness properties (`NoRowStuck`, `ReceiptsNotStarved`,
`OutcomeReached`, `OutcomeCarried`, `AnswersArrive`, `RestoredIfRecorded`,
`LeftoverCleared`, `ReadyAsBound`, `EndsWithTui`), since the prover does not treat
fairness and ENABLED. Every safety property of the passing runs is proved.

------------------------------- MODULE McpBridge -------------------------------
(***************************************************************************)
(* The MCP server that Claude Code starts for a session (mcp.py): which    *)
(* session it acts as, and the file that tells controllers it is there.    *)
(* Its main thread serves tool calls while a second thread completes the   *)
(* registration; the session may change under both by an in-app resume; a  *)
(* controller reads and cleans the registrations meanwhile.                *)
(***************************************************************************)
EXTENDS Naturals, FiniteSets

CONSTANTS
  App,             \* Claude Code processes
  Outer, Inside,   \* the apps of Inside were started by a tool of the app Outer
  Session, None,
  Pid,             \* process ids, and so file names, that servers get
  MaxMoves,        \* bound: changes of the registry, unreadable processes
  MaxServers,      \* bound: servers started, in turn under one pid or under several
  MaxRunning       \* bound: servers that run at the same time

ASSUME BridgeAssumption ==
  /\ Outer \in App /\ Inside \subseteq App \ {Outer}
  /\ None \notin Session \cup App \cup [start : Nat, session : Session \cup {None}]
  /\ MaxMoves \in Nat /\ MaxServers \in Nat /\ MaxRunning \in Nat

VARIABLES
  serving,       \* Claude's registry: the session of each app, None without a live row
  moves,
  life, parent,  \* servers started under a pid so far (proc_start), the app of the last one
  pc, row,       \* its main thread: position, what a call of it holds of self.claude
  tpc, trow,     \* its registration thread, "off" when there is none
  claude,        \* self.claude, the session only
  registered,    \* self.registration is not None
  file,          \* mcp/<pid>.json: None or [start, session]
  during,        \* what the server could resolve to since its call began
  quiet,         \* the registration thread had ended when it began
  kpc, kkey, kleft, kread, klive, ready   \* a controller's bridge_status

threads    == <<pc, row, tpc, trow>>
shared     == <<claude, registered, file>>
history    == <<during, quiet>>
controller == <<kpc, kkey, kleft, kread, klive, ready>>
vars == <<serving, moves, life, parent, threads, shared, history, controller>>

Running(p) == pc[p] # "none"
Spawned    == {s \in Pid \X (1..MaxServers) : s[2] <= life[s[1]]}
InCall     == {"bind", "store", "read", "write", "identity", "send"}
Serving    == InCall \cup {"ready"}

\* The nearest ancestor of an app's child that has a live registry row.
AncestorRow(reg, a) == IF reg[a] = None /\ a \in Inside THEN reg[Outer] ELSE reg[a]
claude_session(p) == AncestorRow(serving, parent[p])

Init ==
  /\ serving \in [App -> Session \cup {None}] /\ moves = 0
  /\ life = [p \in Pid |-> 0] /\ parent = [p \in Pid |-> None]
  /\ pc = [p \in Pid |-> "none"] /\ row = [p \in Pid |-> None]
  /\ tpc = [p \in Pid |-> "off"] /\ trow = [p \in Pid |-> None]
  /\ claude = [p \in Pid |-> None] /\ registered = [p \in Pid |-> FALSE]
  /\ file = [p \in Pid |-> None]
  /\ during = [p \in Pid |-> {}] /\ quiet = [p \in Pid |-> TRUE]
  /\ kpc = "answered" /\ kkey = None /\ kleft = {} /\ kread = None /\ klive = {} /\ ready = FALSE

\* Claude Code writes a row, changes its session (/resume) or removes it.
Register(a) ==
  /\ moves < MaxMoves /\ moves' = moves + 1
  /\ \E s \in Session \cup {None} : serving' = [serving EXCEPT ![a] = s]
  /\ during' = [p \in Pid |-> IF pc[p] \in InCall THEN during[p] \cup {AncestorRow(serving', parent[p])} ELSE during[p]]
  /\ UNCHANGED <<life, parent, threads, shared, quiet, controller>>

(***************************************************************************)
(* Main thread: start, tool calls, exit.                                   *)
(***************************************************************************)

Goto(p, pos) == pc' = [pc EXCEPT ![p] = pos]

\* What a call held is gone with it.
Over(p) == /\ row' = [row EXCEPT ![p] = None]
           /\ during' = [during EXCEPT ![p] = {}] /\ quiet' = [quiet EXCEPT ![p] = TRUE]

Spawn(p) ==
  /\ pc[p] = "none"
  /\ Cardinality(Spawned) < MaxServers /\ Cardinality({q \in Pid : Running(q)}) < MaxRunning
  /\ \E a \in App : parent' = [parent EXCEPT ![p] = a]
  /\ life' = [life EXCEPT ![p] = @ + 1]
  /\ Goto(p, "start")
  /\ UNCHANGED <<serving, moves, row, tpc, trow, shared, history, controller>>

\* register(wait=0) of a new server: one look at the registry, known or not.
Look(p) ==
  /\ pc[p] = "start"
  /\ claude' = [claude EXCEPT ![p] = claude_session(p)]
  /\ Goto(p, "first")
  /\ UNCHANGED <<serving, moves, life, parent, row, tpc, trow, registered, file, history, controller>>

Registration(p, s) == [start |-> life[p], session |-> s]

\* The file is written; without a session yet a thread waits for it.
FirstWrite(p) ==
  /\ pc[p] = "first"
  /\ file' = [file EXCEPT ![p] = Registration(p, claude[p])]
  /\ registered' = [registered EXCEPT ![p] = TRUE]
  /\ tpc' = [tpc EXCEPT ![p] = IF claude[p] = None THEN "loop" ELSE "off"]
  /\ Goto(p, "ready")
  /\ UNCHANGED <<serving, moves, life, parent, row, trow, claude, history, controller>>

\* tools/call
Call(p) ==
  /\ pc[p] = "ready"
  /\ Goto(p, "bind")
  /\ during' = [during EXCEPT ![p] = {claude_session(p)}]
  /\ quiet' = [quiet EXCEPT ![p] = tpc[p] = "off"]
  /\ UNCHANGED <<serving, moves, life, parent, row, tpc, trow, shared, controller>>

ResolveOnce(p) == IF claude[p] = None THEN claude_session(p) ELSE claude[p]
Resolve(p)     == claude_session(p)

Bind(p) ==
  /\ pc[p] = "bind" /\ Resolve(p) # None
  /\ row' = [row EXCEPT ![p] = Resolve(p)]
  /\ Goto(p, "store")
  /\ UNCHANGED <<serving, moves, life, parent, tpc, trow, shared, history, controller>>

Unbound(p) ==
  /\ pc[p] = "bind" /\ Resolve(p) = None
  /\ Goto(p, "ready") /\ Over(p)
  /\ UNCHANGED <<serving, moves, life, parent, tpc, trow, shared, controller>>

Store(p) ==
  /\ pc[p] = "store"
  /\ claude' = [claude EXCEPT ![p] = row[p]]
  /\ row' = [row EXCEPT ![p] = None]
  /\ Goto(p, IF claude[p] # row[p] /\ registered[p] THEN "read" ELSE "identity")
  /\ UNCHANGED <<serving, moves, life, parent, tpc, trow, registered, file, history, controller>>

\* register() again: it reads self.claude, then replaces the file.
Read(p) ==
  /\ pc[p] = "read"
  /\ row' = [row EXCEPT ![p] = claude[p]]
  /\ Goto(p, "write")
  /\ UNCHANGED <<serving, moves, life, parent, tpc, trow, shared, history, controller>>

Write(p) ==
  /\ pc[p] = "write"
  /\ file' = [file EXCEPT ![p] = Registration(p, row[p])]
  /\ registered' = [registered EXCEPT ![p] = TRUE]
  /\ row' = [row EXCEPT ![p] = None]
  /\ Goto(p, "identity")
  /\ UNCHANGED <<serving, moves, life, parent, tpc, trow, claude, history, controller>>

\* The file could not be replaced: the call fails, self.claude stays.
WriteFails(p) ==
  /\ pc[p] = "write"
  /\ Goto(p, "ready") /\ Over(p)
  /\ UNCHANGED <<serving, moves, life, parent, tpc, trow, shared, controller>>

\* bind returns what self.claude is by now.
Identity(p) ==
  /\ pc[p] = "identity"
  /\ row' = [row EXCEPT ![p] = claude[p]]
  /\ Goto(p, "send")
  /\ UNCHANGED <<serving, moves, life, parent, tpc, trow, shared, history, controller>>

\* select and Connection.send: a message is queued as this session, or refused.
Send(p) ==
  /\ pc[p] = "send"
  /\ Goto(p, "ready") /\ Over(p)
  /\ UNCHANGED <<serving, moves, life, parent, tpc, trow, shared, controller>>

\* SIGTERM or SIGHUP anywhere, or the end of stdin.
Exit(p) ==
  /\ pc[p] \in Serving
  /\ Goto(p, "unregister") /\ Over(p)
  /\ UNCHANGED <<serving, moves, life, parent, tpc, trow, shared, controller>>

AfterUnlink == [unregister |-> "forget", atexit |-> "forget again"]
\* unregister, in the finally of main and once more at exit.
Unregister(p) ==
  /\ pc[p] \in {"unregister", "atexit"}
  /\ IF registered[p]
     THEN file' = [file EXCEPT ![p] = None] /\ Goto(p, AfterUnlink[pc[p]])
     ELSE UNCHANGED file /\ Goto(p, IF pc[p] = "atexit" THEN "done" ELSE "atexit")
  /\ UNCHANGED <<serving, moves, life, parent, row, tpc, trow, claude, registered, history, controller>>

Forget(p) ==
  /\ pc[p] \in {"forget", "forget again"}
  /\ registered' = [registered EXCEPT ![p] = FALSE]
  /\ Goto(p, IF pc[p] = "forget" THEN "atexit" ELSE "done")
  /\ UNCHANGED <<serving, moves, life, parent, row, tpc, trow, claude, file, history, controller>>

ThreadEnds(p) == tpc' = [tpc EXCEPT ![p] = "off"] /\ trow' = [trow EXCEPT ![p] = None]

\* The process is gone, and its daemon thread with it; its file stays.
Gone(p) ==
  /\ Goto(p, "none") /\ Over(p) /\ ThreadEnds(p)
  /\ claude' = [claude EXCEPT ![p] = None] /\ registered' = [registered EXCEPT ![p] = FALSE]
  /\ parent' = [parent EXCEPT ![p] = None]
  /\ UNCHANGED <<serving, moves, life, file, controller>>

Done(p) == pc[p] = "done" /\ Gone(p)

\* A signal that is not handled, or not yet.
Kill(p) == pc[p] \notin {"none", "done"} /\ Gone(p)

(***************************************************************************)
(* complete_registration, the second thread.                               *)
(***************************************************************************)

\* The loop's condition; after its deadline the thread gives up.
TLoop(p) ==
  /\ tpc[p] = "loop"
  /\ \/ tpc' = [tpc EXCEPT ![p] = "off"]
     \/ /\ registered[p] /\ claude[p] = None
        /\ tpc' = [tpc EXCEPT ![p] = "resolve"]
  /\ UNCHANGED <<serving, moves, life, parent, pc, row, trow, shared, history, controller>>

TResolve(p) ==
  /\ tpc[p] = "resolve"
  /\ trow' = [trow EXCEPT ![p] = claude_session(p)]
  /\ tpc' = [tpc EXCEPT ![p] = IF claude_session(p) = None THEN "loop" ELSE "store"]
  /\ UNCHANGED <<serving, moves, life, parent, pc, row, shared, history, controller>>

\* self.claude = claude_session(...), whatever the main thread stored meanwhile.
TStore(p) ==
  /\ tpc[p] = "store"
  /\ claude' = [claude EXCEPT ![p] = trow[p]]
  /\ tpc' = [tpc EXCEPT ![p] = "check"] /\ trow' = [trow EXCEPT ![p] = None]
  /\ UNCHANGED <<serving, moves, life, parent, pc, row, registered, file, history, controller>>

TCheck(p) ==
  /\ tpc[p] = "check"
  /\ tpc' = [tpc EXCEPT ![p] = IF registered[p] THEN "read" ELSE "off"]
  /\ UNCHANGED <<serving, moves, life, parent, pc, row, trow, shared, history, controller>>

TRead(p) ==
  /\ tpc[p] = "read"
  /\ trow' = [trow EXCEPT ![p] = claude[p]]
  /\ tpc' = [tpc EXCEPT ![p] = "write"]
  /\ UNCHANGED <<serving, moves, life, parent, pc, row, shared, history, controller>>

TWrite(p) ==
  /\ tpc[p] = "write"
  /\ file' = [file EXCEPT ![p] = Registration(p, trow[p])]
  /\ tpc' = [tpc EXCEPT ![p] = "set"] /\ trow' = [trow EXCEPT ![p] = None]
  /\ UNCHANGED <<serving, moves, life, parent, pc, row, claude, registered, history, controller>>

TSet(p) ==
  /\ tpc[p] = "set"
  /\ registered' = [registered EXCEPT ![p] = TRUE]
  /\ tpc' = [tpc EXCEPT ![p] = "off"]
  /\ UNCHANGED <<serving, moves, life, parent, pc, row, trow, claude, file, history, controller>>

(***************************************************************************)
(* bridge_status, called by a controller: registrations lists the          *)
(* directory once, reads one file after the other and removes those whose  *)
(* process is gone; then the rows that are left are judged by the registry *)
(* of that moment.                                                         *)
(***************************************************************************)

server == <<serving, life, parent, threads, claude, registered, history>>

\* The names that glob finds; a file that comes later is not among them.
Listing == {p \in Pid : file[p] # None}

Ask ==
  /\ kpc = "answered"
  /\ \E s \in Session : kkey' = s
  /\ kleft' = Listing /\ klive' = {} /\ kread' = None /\ ready' = FALSE
  /\ kpc' = "next"
  /\ UNCHANGED <<server, moves, file>>

\* The files come in the order of their names, in any order here; one that has
\* gone since the listing is passed over.
ReadFile(p) ==
  /\ kpc = "next" /\ p \in kleft
  /\ kleft' = kleft \ {p}
  /\ IF file[p] = None THEN UNCHANGED <<kpc, kread>>
     ELSE kpc' = "probe" /\ kread' = [pid |-> p, start |-> file[p].start]
  /\ UNCHANGED <<server, moves, file, kkey, klive, ready>>

AnyAlive(k) == Running(k.pid) \/ life[k.pid] = k.start
Alive(k)    == Running(k.pid) /\ life[k.pid] = k.start

\* /proc/<pid>/stat, for the file that was read.
Probe ==
  /\ kpc = "probe"
  /\ klive' = IF Alive(kread) THEN klive \cup {kread.pid} ELSE klive
  /\ IF Alive(kread) THEN kpc' = "next" /\ kread' = None ELSE kpc' = "unlink" /\ UNCHANGED kread
  /\ UNCHANGED <<server, moves, file, kkey, kleft, ready>>

AsGone    == kpc' = "unlink" /\ UNCHANGED kread
AsUnknown == kpc' = "next" /\ kread' = None

\* Unreadable: neither live nor deletable.
Unreadable ==
  /\ kpc = "probe"
  /\ moves < MaxMoves /\ moves' = moves + 1
  /\ AsUnknown
  /\ UNCHANGED <<server, file, kkey, kleft, klive, ready>>

\* Removes what is at the path by now.
Unlink ==
  /\ kpc = "unlink"
  /\ file' = [file EXCEPT ![kread.pid] = None]
  /\ kpc' = "next" /\ kread' = None
  /\ UNCHANGED <<server, moves, kkey, kleft, klive, ready>>

JudgedByFile == \E p \in klive : file[p] # None /\ file[p].session = kkey
\* The session recorded in the file does not count, the current ancestors do.
Judged == \E p \in klive : Running(p) /\ claude_session(p) = kkey

Judge ==
  /\ kpc = "next" /\ kleft = {}
  /\ ready' = Judged
  /\ kpc' = "answered" /\ klive' = {}
  /\ UNCHANGED <<server, moves, file, kkey, kleft, kread>>
-----------------------------------------------------------------------------
Main(p)   == Look(p) \/ FirstWrite(p) \/ Bind(p) \/ Unbound(p) \/ WriteFails(p) \/ Store(p) \/ Read(p) \/ Write(p)
             \/ Identity(p) \/ Send(p)
Leave(p)  == Unregister(p) \/ Forget(p) \/ Done(p)
Thread(p) == TLoop(p) \/ TResolve(p) \/ TStore(p) \/ TCheck(p) \/ TRead(p) \/ TWrite(p) \/ TSet(p)
Check     == (\E p \in Pid : ReadFile(p)) \/ Probe \/ Unlink \/ Judge

Next ==
  \/ \E a \in App : Register(a)
  \/ \E p \in Pid : Spawn(p) \/ Main(p) \/ Call(p) \/ Exit(p) \/ Leave(p) \/ Kill(p) \/ Thread(p)
  \/ Ask \/ Unreadable \/ Check

Spec == Init /\ [][Next]_vars

\* A controller asks again and again, about whatever session.
FairSpec == Spec /\ WF_vars(Ask) /\ WF_vars(Check)
-----------------------------------------------------------------------------
Files == {None} \cup [start : Nat \ {0}, session : Session \cup {None}]

\* Every variable keeps its range, and a thread of a server runs only with it.
TypeOK ==
  /\ serving \in [App -> Session \cup {None}] /\ moves \in 0..MaxMoves
  /\ life \in [Pid -> Nat] /\ parent \in [Pid -> App \cup {None}]
  /\ pc \in [Pid -> Serving \cup {"none", "start", "first", "unregister", "forget", "atexit", "forget again", "done"}]
  /\ tpc \in [Pid -> {"off", "loop", "resolve", "store", "check", "read", "write", "set"}]
  /\ row \in [Pid -> Session \cup {None}]
  /\ trow \in [Pid -> Session \cup {None}] /\ claude \in [Pid -> Session \cup {None}]
  /\ registered \in [Pid -> BOOLEAN] /\ file \in [Pid -> Files]
  /\ during \in [Pid -> SUBSET (Session \cup {None})] /\ quiet \in [Pid -> BOOLEAN]
  /\ kpc \in {"next", "probe", "unlink", "answered"} /\ kkey \in Session \cup {None}
  /\ kleft \subseteq Pid /\ klive \subseteq Pid /\ ready \in BOOLEAN
  /\ kread = None \/ kread \in [pid : Pid, start : Nat \ {0}]
  /\ \A p \in Pid : tpc[p] # "off" => Running(p)

\* A message is queued as a session that the server's ancestors served at some
\* time of the call: "It is resolved on every call, so an in-app resume that
\* changes the session is followed" (docs/connections.md).  Not so while the
\* registration thread runs, which may store an older answer in between.
FollowsOnceQuiet ==
  \A p \in Pid : pc[p] = "send" /\ quiet[p] => row[p] \in during[p] \ {None}

\* "Only a file whose process is confirmed gone is removed" (registrations): a
\* running server stays registered, unless an earlier one had its pid.
KeptWhileRunning ==
  \A p \in Pid : pc[p] \in Serving /\ life[p] = 1 => file[p] # None /\ file[p].start = 1

\* What a server left behind, by a crash or by its thread writing the file after
\* unregister, does not stay.
LeftoverCleared == \A p \in Pid : (file[p] # None /\ ~Running(p)) ~> (file[p] = None \/ Running(p))

Serves(p)      == pc[p] \in Serving /\ life[p] = 1
Bindable(p, s) == Serves(p) /\ claude_session(p) = s

\* The servers that a question under way has not passed over.
Considered == kleft \cup klive \cup (IF kpc = "probe" THEN {kread.pid} ELSE {})
Listed     == kpc = "answered" /\ kpc' = "next"

\* "Controller preflight: can this exact session reply" (bridge_status) takes names,
\* files, processes and the registry one after the other while servers start, end
\* and write their files: every server that serves when the directory is listed is
\* in the listing, and is not passed over while it serves, unless its process is
\* unreadable; the answer is yes if one is left that is of the session.  A server
\* that registers after the listing waits for the next question.
NoneOverlooked ==
  [][\A p \in Pid : (Listed \/ p \in Considered) /\ Serves(p) /\ Serves(p)' =>
       \/ p \in Considered'
       \/ kpc = "probe" /\ moves' # moves
       \/ kpc' = "answered" /\ (claude_session(p) = kkey => ready')]_vars

\* "For Claude the answer is computed exactly as send will bind"
\* (docs/connections.md): as soon as a server could act as a session, and for as
\* long, controllers find that session ready, whatever the file recorded.
ReadyAsBound ==
  \A s \in Session :
    (<>[](\E p \in Pid : Bindable(p, s))) => <>[](kpc = "answered" /\ kkey = s => ready)
=============================================================================

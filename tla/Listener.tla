------------------------------ MODULE Listener ------------------------------
(***************************************************************************)
(* The life cycle of one mailbox daemon (endpoints.py; serve,              *)
(* daemon_status, start_daemon and stop_daemon in relay.py): the two lock  *)
(* files, reply.json, daemon.json and the socket at the pinned address,    *)
(* shared by daemons, by the callers that start or stop them, and by       *)
(* programs outside the relay that can reach the same directory.           *)
(*                                                                         *)
(* A socket file is named after the process that bound it, so a device and *)
(* inode are never those of another file.  Each system call on the path is *)
(* a step of its own: between two of them anybody may remove the file or   *)
(* bind another.  The Claude session stays alive, in one directory:        *)
(* pin_address never raises and finds one address.                         *)
(***************************************************************************)
EXTENDS Naturals

CONSTANTS
  Daemon,            \* processes that can run serve; a slot is reused once forgotten
  Old,               \* one of an older version that runs at first, or None
  Starter,           \* callers of start_daemon: Connection.maintain, the start command
  LongLived,         \* starters that live on after the call, as a controller does
  Stopper,           \* callers of stop_daemon: disconnect, the stop command
  Foreign,           \* programs that are not the relay
  CrashUnrecorded,   \* FALSE: no process dies between bind and record_socket
  Reaps,             \* TRUE: a long-lived starter reaps its dead children
  MaxFaults,         \* bound: crashes, stalls, timeouts, stops, foreign actions
  None

Caller == Starter \cup Stopper

ASSUME ListenerAssumption ==
  /\ Old \in Daemon \cup {None} /\ Foreign \cap Daemon = {} /\ None \notin Daemon \cup Caller \cup Foreign
  /\ Starter \cap Stopper = {} /\ LongLived \subseteq Starter
  /\ CrashUnrecorded \in BOOLEAN /\ Reaps \in BOOLEAN
  /\ MaxFaults \in Nat

VARIABLES
  startup,     \* holder of startup.lock
  lock,        \* holder of daemon.lock
  pinned,      \* reply.json exists
  recorded,    \* the socket that its device and inode describe
  metadata,    \* daemon.json: the daemon it names
  sock,        \* who bound the socket file at the address, None: no file
  foreignUp,   \* the foreign programs that are listening
  raced,       \* those that bound while a daemon was between two calls on the path
  pc,          \* where each daemon stands in serve
  known,       \* the socket a daemon goes by: info in prepare_socket, then owned_socket
  told,        \* daemons whose stop event is set
  stalled,     \* daemons whose listener thread has died
  at,          \* where each caller stands
  child,       \* the daemon a starter polls
  parent,      \* the long-lived starter that spawned a daemon
  faults

files   == <<pinned, recorded, metadata, sock>>
daemons == <<pc, known, told, stalled, parent>>
callers == <<startup, at, child>>
foreign == <<foreignUp, raced>>
vars    == <<lock, files, foreign, daemons, callers, faults>>

Starting == {"flock", "pin", "adopt", "prepare", "probe", "recheck", "unlink", "bind", "record", "publish", "arm"}
Stopping == {"remove", "drop", "forget", "exit"}
Alive(d) == pc[d] \in Starting \cup {"serve"} \cup Stopping

Accepting(p) == \/ p \in foreignUp
                \/ p \in Daemon \ stalled /\ pc[p] \in {"record", "publish", "arm", "serve"}

\* daemon_status: /proc still shows a dead child that nobody has waited for.
ProcessRunning == metadata # None /\ pc[metadata] # "dead"
Running        == ProcessRunning /\ sock = metadata /\ Accepting(metadata)

Fault == faults < MaxFaults /\ faults' = faults + 1

(***************************************************************************)
(* serve.                                                                  *)
(***************************************************************************)

Gone(d) == IF parent[d] = None THEN "dead" ELSE "zombie"

\* The process is gone: the kernel releases its lock, its files stay.
Dies(d) ==
  /\ pc' = [pc EXCEPT ![d] = Gone(d)]
  /\ lock' = IF lock = d THEN None ELSE lock
  /\ known' = [known EXCEPT ![d] = None]
  /\ told' = told \ {d} /\ stalled' = stalled \ {d}

Step(d, from, to) == pc[d] = from /\ pc' = [pc EXCEPT ![d] = to]

IgnoreLock(d) == TRUE
LockFree(d)   == lock = None

\* Non-blocking: a daemon that finds daemon.lock taken exits.
Flock(d) ==
  /\ \/ LockFree(d) /\ Step(d, "flock", "pin") /\ lock' = d /\ UNCHANGED <<known, told, stalled>>
     \/ ~LockFree(d) /\ pc[d] = "flock" /\ Dies(d)
  /\ UNCHANGED <<files, foreign, parent, callers, faults>>

\* pin_address writes a first reply.json.  A daemon that runs without one, of an
\* older version, is adopted: its socket is recorded as it stands.
Adopted == IF Running THEN sock ELSE None
WritePin == pinned' = TRUE /\ recorded' = Adopted

\* It looks for reply.json first and writes later, whatever is there by then.
Pin(d) ==
  /\ Step(d, "pin", IF pinned THEN "prepare" ELSE "adopt")
  /\ UNCHANGED <<lock, files, foreign, known, told, stalled, parent, callers, faults>>

Adopt(d) ==
  /\ Step(d, "adopt", "prepare")
  /\ WritePin
  /\ UNCHANGED <<lock, metadata, sock, foreign, known, told, stalled, parent, callers, faults>>

\* prepare_socket: the lstat.
Prepare(d) ==
  /\ \/ sock = None /\ Step(d, "prepare", "bind") /\ UNCHANGED known
     \/ sock # None /\ Step(d, "prepare", "probe") /\ known' = [known EXCEPT ![d] = sock]
  /\ UNCHANGED <<lock, files, foreign, told, stalled, parent, callers, faults>>

NothingReclaimable(d) == FALSE
Reclaimable(d) == known[d] = recorded /\ sock # None /\ ~Accepting(sock)

\* Only the recorded socket makes way, and only if a connection is refused by
\* what is at the path when it connects.
Probe(d) ==
  /\ \/ Reclaimable(d) /\ Step(d, "probe", "recheck") /\ UNCHANGED <<lock, known, told, stalled>>
     \/ ~Reclaimable(d) /\ pc[d] = "probe" /\ Dies(d)
  /\ UNCHANGED <<files, foreign, parent, callers, faults>>

AnySocket(d) == sock # None
OwnSocket(d) == sock = known[d] /\ sock # None

\* remove_socket, from prepare_socket and from the finally of serve: it looks once
\* more, then unlinks whatever is at the path.
Compare(d) ==
  /\ \/ OwnSocket(d)  /\ (Step(d, "recheck", "unlink") \/ Step(d, "remove", "drop"))
     \/ ~OwnSocket(d) /\ (Step(d, "recheck", "bind") \/ Step(d, "remove", "forget"))
  /\ UNCHANGED <<lock, files, foreign, known, told, stalled, parent, callers, faults>>

Unlink(d) ==
  /\ Step(d, "unlink", "bind") \/ Step(d, "drop", "forget")
  /\ sock' = None
  /\ UNCHANGED <<lock, pinned, recorded, metadata, foreign, known, told, stalled, parent, callers, faults>>

Bind(d) ==
  /\ \/ sock = None /\ Step(d, "bind", "record") /\ sock' = d /\ UNCHANGED <<lock, known, told, stalled>>
     \/ sock # None /\ pc[d] = "bind" /\ Dies(d) /\ UNCHANGED sock
  /\ UNCHANGED <<pinned, recorded, metadata, foreign, parent, callers, faults>>

FirstRecord(d) == IF recorded = None THEN sock ELSE recorded
NewRecord(d)   == sock

\* chmod and record_socket take whatever is at the path for the socket that was
\* bound, and raise if nothing is.
RecordSocket(d) ==
  /\ \/ /\ sock # None /\ Step(d, "record", "publish")
        /\ recorded' = NewRecord(d)
        /\ known' = [known EXCEPT ![d] = sock]
        /\ UNCHANGED <<lock, told, stalled>>
     \/ sock = None /\ pc[d] = "record" /\ Dies(d) /\ UNCHANGED recorded
  /\ UNCHANGED <<pinned, metadata, sock, foreign, parent, callers, faults>>

Publish(d) ==
  /\ Step(d, "publish", "arm")
  /\ metadata' = d
  /\ UNCHANGED <<lock, pinned, recorded, sock, foreign, known, told, stalled, parent, callers, faults>>

\* From here on SIGTERM sets the stop event instead of killing the process.
Arm(d) ==
  /\ Step(d, "arm", "serve")
  /\ UNCHANGED <<lock, files, foreign, known, told, stalled, parent, callers, faults>>

Close(d) ==
  /\ d \in told /\ Step(d, "serve", "remove")
  /\ UNCHANGED <<lock, files, foreign, known, told, stalled, parent, callers, faults>>

\* daemon.json goes first, whatever it says; the lock goes with the process.
Forget(d) ==
  /\ Step(d, "forget", "exit")
  /\ metadata' = None
  /\ UNCHANGED <<lock, pinned, recorded, sock, foreign, known, told, stalled, parent, callers, faults>>

Exit(d) ==
  /\ pc[d] = "exit" /\ Dies(d)
  /\ UNCHANGED <<files, foreign, parent, callers, faults>>

MayDie(d) == Alive(d) /\ (pc[d] = "record" => CrashUnrecorded)

Crash(d) ==
  /\ Fault /\ MayDie(d) /\ Dies(d)
  /\ UNCHANGED <<files, foreign, parent, callers>>

\* The accept thread dies: connections time out, the process lives on.
Stall(d) ==
  /\ Fault /\ pc[d] = "serve"
  /\ stalled' = stalled \cup {d}
  /\ UNCHANGED <<lock, files, foreign, pc, known, told, parent, callers>>

DaemonStep(d) ==
  \/ Flock(d) \/ Pin(d) \/ Adopt(d) \/ Prepare(d) \/ Probe(d) \/ Compare(d) \/ Unlink(d) \/ Bind(d)
  \/ RecordSocket(d) \/ Publish(d) \/ Arm(d) \/ Close(d) \/ Forget(d) \/ Exit(d)

(***************************************************************************)
(* start_daemon and stop_daemon.                                           *)
(***************************************************************************)

Forgotten(d) ==
  /\ pc[d] = "dead" /\ d \notin {metadata, recorded, sock}
  /\ \A e \in Daemon : known[e] # d
  /\ \A s \in Starter : child[s] # d

Goto(c, to) == at' = [at EXCEPT ![c] = to]

\* The call returns or raises.
Return(c) ==
  /\ Goto(c, "idle")
  /\ startup' = IF startup = c THEN None ELSE startup
  /\ child' = [child EXCEPT ![c] = None]

\* SIGTERM: a daemon that has armed its handler finishes its loop first.
Terminate(d) ==
  CASE pc[d] = "serve"     -> told' = told \cup {d} /\ UNCHANGED <<pc, lock, known, stalled>>
    [] pc[d] \in Starting  -> MayDie(d) /\ Dies(d)
    [] OTHER               -> UNCHANGED <<pc, lock, known, told, stalled>>

\* start_daemon serialises starts and repairs with startup.lock.
Acquire(s) ==
  /\ at[s] = "idle" /\ startup = None
  /\ startup' = s /\ Goto(s, "pin")
  /\ UNCHANGED <<lock, files, foreign, daemons, child, faults>>

\* The same pin_address, under startup.lock.
StarterPins(s) ==
  /\ \/ at[s] = "pin" /\ Goto(s, IF pinned THEN "inspect" ELSE "adopt") /\ UNCHANGED files
     \/ at[s] = "adopt" /\ Goto(s, "inspect") /\ WritePin /\ UNCHANGED <<metadata, sock>>
  /\ UNCHANGED <<lock, foreign, daemons, startup, child, faults>>

Inspect(s) ==
  /\ at[s] = "inspect"
  /\ \/ Running /\ Return(s)
     \/ ~Running /\ ProcessRunning  /\ Goto(s, "stop")  /\ UNCHANGED <<startup, child>>
     \/ ~Running /\ ~ProcessRunning /\ Goto(s, "spawn") /\ UNCHANGED <<startup, child>>
  /\ UNCHANGED <<lock, files, foreign, daemons, faults>>

\* The stop command holds no lock.
Stop(c) ==
  /\ Fault /\ at[c] = "idle" /\ c \in Stopper
  /\ Goto(c, "stop")
  /\ UNCHANGED <<lock, files, foreign, daemons, startup, child>>

Stopped(c) == IF c \in Starter THEN Goto(c, "spawn") /\ UNCHANGED <<startup, child>> ELSE Return(c)

\* stop_daemon reads daemon_status anew.
Signal(c) ==
  /\ at[c] = "stop"
  /\ \/ ~ProcessRunning /\ Stopped(c) /\ UNCHANGED <<pc, lock, known, told, stalled>>
     \/ ProcessRunning /\ Terminate(metadata) /\ Goto(c, "await") /\ UNCHANGED <<startup, child>>
  /\ UNCHANGED <<files, foreign, parent, faults>>

\* It waits ten seconds and raises: "no replacement was started".
Await(c) ==
  /\ at[c] = "await"
  /\ (~ProcessRunning /\ Stopped(c)) \/ (ProcessRunning /\ Return(c))
  /\ UNCHANGED <<lock, files, foreign, daemons, faults>>

\* Popen reaps the children that died before.
Spawn(s) ==
  /\ at[s] = "spawn"
  /\ \E d \in Daemon :
       /\ Forgotten(d)
       /\ pc' = [e \in Daemon |-> IF e = d THEN "flock"
                                  ELSE IF pc[e] = "zombie" /\ parent[e] = s THEN "dead" ELSE pc[e]]
       /\ parent' = [parent EXCEPT ![d] = IF s \in LongLived THEN s ELSE None]
       /\ child' = [child EXCEPT ![s] = d]
  /\ Goto(s, "poll")
  /\ UNCHANGED <<lock, files, foreign, known, told, stalled, startup, faults>>

Poll(s) ==
  /\ at[s] = "poll"
  /\ \/ Running /\ Return(s) /\ UNCHANGED pc
     \/ /\ ~Running /\ ~Alive(child[s])
        /\ Return(s) /\ pc' = [pc EXCEPT ![child[s]] = "dead"]
  /\ UNCHANGED <<lock, files, foreign, known, told, stalled, parent, faults>>

\* Five seconds have passed: the child is terminated wherever it stands.  A
\* child that needs as long to start counts as a fault.
PollTimeout(s) ==
  /\ at[s] = "poll" /\ ~Running /\ Alive(child[s])
  /\ IF pc[child[s]] \in Starting THEN Fault ELSE UNCHANGED faults
  /\ Terminate(child[s]) /\ Goto(s, "wait")
  /\ UNCHANGED <<files, foreign, parent, startup, child>>

\* child.wait gives up after ten seconds.
Wait(s) ==
  /\ at[s] = "wait" /\ Return(s)
  /\ pc' = [pc EXCEPT ![child[s]] = IF @ = "zombie" THEN "dead" ELSE @]
  /\ UNCHANGED <<lock, files, foreign, known, told, stalled, parent, faults>>

\* Another Popen of the same controller waits for its dead children.
Reap(s) ==
  /\ Reaps
  /\ \E d \in Daemon :
       /\ pc[d] = "zombie" /\ parent[d] = s
       /\ pc' = [pc EXCEPT ![d] = "dead"]
  /\ UNCHANGED <<lock, files, foreign, known, told, stalled, parent, callers, faults>>

\* The caller is killed; a controller is started again.  init adopts its children.
Abandon(c) ==
  /\ Fault /\ Return(c)
  /\ pc' = [d \in Daemon |-> IF pc[d] = "zombie" /\ parent[d] = c THEN "dead" ELSE pc[d]]
  /\ parent' = [d \in Daemon |-> IF parent[d] = c THEN None ELSE parent[d]]
  /\ UNCHANGED <<lock, files, foreign, known, told, stalled>>

StarterStep(s) ==
  Acquire(s) \/ StarterPins(s) \/ Inspect(s) \/ Signal(s) \/ Await(s) \/ Spawn(s) \/ Poll(s)
  \/ PollTimeout(s) \/ Wait(s)

(***************************************************************************)
(* Outside the relay: the serve command, and programs that use the address *)
(* or clear the directory.                                                 *)
(***************************************************************************)

Serve(d) ==
  /\ Fault /\ Forgotten(d)
  /\ pc' = [pc EXCEPT ![d] = "flock"] /\ parent' = [parent EXCEPT ![d] = None]
  /\ UNCHANGED <<lock, files, foreign, known, told, stalled, callers>>

\* A daemon has bound and not looked what it bound, or looked and not unlinked.
Between == \E d \in Daemon : pc[d] \in {"record", "unlink", "drop"}

\* A new file: none that a daemon or reply.json knows.
ForeignBind(f) ==
  /\ Fault /\ sock = None
  /\ f \notin foreignUp \cup {recorded} /\ \A d \in Daemon : known[d] # f
  /\ sock' = f /\ foreignUp' = foreignUp \cup {f}
  /\ raced' = IF Between THEN raced \cup {f} ELSE raced \ {f}
  /\ UNCHANGED <<lock, pinned, recorded, metadata, daemons, callers>>

ForeignExit(f) ==
  /\ Fault /\ f \in foreignUp
  /\ foreignUp' = foreignUp \ {f}
  /\ UNCHANGED <<lock, files, raced, daemons, callers>>

\* A cleaner removes the file at the address, at any time.
Clear ==
  /\ Fault /\ sock # None
  /\ sock' = None
  /\ UNCHANGED <<lock, pinned, recorded, metadata, foreign, daemons, callers>>
-----------------------------------------------------------------------------
\* The mailbox has been enrolled.  Nothing runs, or a daemon of an older version
\* that recorded no socket.
Init ==
  /\ startup = None /\ foreignUp = {} /\ raced = {} /\ told = {} /\ stalled = {}
  /\ pinned = FALSE /\ recorded = None
  /\ \E old \in {Old, None} :
       /\ lock = old /\ metadata = old /\ sock = old
       /\ pc = [d \in Daemon |-> IF d = old THEN "serve" ELSE "dead"]
       /\ known = [d \in Daemon |-> IF d = old THEN old ELSE None]
  /\ parent = [d \in Daemon |-> None]
  /\ at = [c \in Caller |-> "idle"] /\ child = [c \in Caller |-> None]
  /\ faults = 0

Next ==
  \/ \E d \in Daemon : DaemonStep(d) \/ Crash(d) \/ Stall(d) \/ Serve(d)
  \/ \E s \in Starter : StarterStep(s) \/ Reap(s)
  \/ \E c \in Stopper : Stop(c) \/ Signal(c) \/ Await(c)
  \/ \E c \in Caller : Abandon(c)
  \/ \E f \in Foreign : ForeignBind(f) \/ ForeignExit(f)
  \/ Clear

Spec == Init /\ [][Next]_vars

\* Processes run, and a controller calls maintain periodically.
Fairness ==
  /\ \A d \in Daemon : WF_vars(DaemonStep(d))
  /\ \A s \in Starter : WF_vars(StarterStep(s)) /\ WF_vars(Reap(s))

FairSpec == Spec /\ Fairness
-----------------------------------------------------------------------------
Positions == Starting \cup Stopping \cup {"serve", "dead", "zombie"}
Sockets   == Daemon \cup Foreign \cup {None}

\* Every variable keeps its range; a starter that is past the lock holds
\* startup.lock and one that polls has a child.
TypeOK ==
  /\ startup \in Starter \cup {None} /\ lock \in Daemon \cup {None}
  /\ pinned \in BOOLEAN /\ recorded \in Sockets /\ metadata \in Daemon \cup {None}
  /\ sock \in Sockets /\ foreignUp \subseteq Foreign /\ raced \subseteq Foreign
  /\ pc \in [Daemon -> Positions] /\ known \in [Daemon -> Sockets] /\ told \subseteq Daemon /\ stalled \subseteq Daemon
  /\ at \in [Caller -> {"idle", "pin", "adopt", "inspect", "stop", "await", "spawn", "poll", "wait"}]
  /\ child \in [Caller -> Daemon \cup {None}] /\ parent \in [Daemon -> LongLived \cup {None}]
  /\ faults \in Nat
  /\ \A s \in Starter : /\ at[s] # "idle" <=> startup = s
                        /\ at[s] \in {"poll", "wait"} <=> child[s] # None

\* "A daemon-level file lock prevents two senders from consuming one mailbox"
\* (docs/protocol.md): whoever is past the lock holds it, and a live daemon that
\* daemon.json names is that one, so status and stop never address another.
OneDaemon ==
  /\ \A d \in Daemon : Alive(d) /\ pc[d] # "flock" => lock = d
  /\ metadata # None /\ Alive(metadata) => lock = metadata

\* "foreign files, symlinks and active replacement listeners are left intact"
\* (docs/protocol.md): a daemon removes no socket that another program bound, dead
\* or alive, also when it took the address of a daemon whose file had been cleared
\* away, unless that program came between two calls of a daemon on the path.
ForeignKept == [][pc' # pc /\ sock \in Foreign \ raced => sock' = sock]_vars

\* The socket and the daemon.json of a daemon in service are never removed by
\* the cleanup or the start of another one (the finally of serve, prepare_socket).
SuccessorSafe ==
  [][\A d \in Daemon : (pc[d] = "serve" /\ pc'[d] = "serve" /\ pc' # pc) =>
       (sock = d => sock' = d) /\ (metadata = d => metadata' = d)]_vars

\* reply.json describes the socket of whichever daemon bound the address last, or
\* that daemon is about to record it.
Described == sock \in Foreign \cup {None, recorded} \/ pc[sock] = "record"

DiesUnrecorded == \E d \in Daemon : pc[d] = "record" /\ ~Alive(d)'
PinsLate       == \E s \in Starter : at[s] = "adopt" /\ at'[s] = "inspect"

\* "Dead sockets are reclaimed only when their recorded device/inode belongs to
\* this mailbox" (docs/protocol.md), so an undescribed one blocks the address.
\* Starts, stops, crashes and repairs keep the description true, but for a daemon
\* that dies before record_socket and a starter whose first pin_address comes late.
RecordHolds == [][Described => Described' \/ DiesUnrecorded \/ PinsLate]_vars

\* "It restores missing listeners" (docs/protocol.md): once faults cease the
\* mailbox is reachable for good, unless a foreign file holds its address.
Restored == <>[](Running \/ sock \in Foreign)

\* The socket of a dead daemon that reply.json does not describe: it died before
\* record_socket, ran unadopted, or a starter's first pin_address wrote over the record.
Unrecorded == sock \notin Foreign \cup {None, recorded} /\ ~Alive(sock)

\* The same, unless such a socket holds the address: whatever else crashed,
\* stalled, timed out, was stopped or was cleared away, maintain repairs.
RestoredIfRecorded == <>[](Running \/ sock \in Foreign \/ Unrecorded)
=============================================================================

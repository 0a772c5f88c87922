--------------------------- MODULE ListenerProofs ---------------------------
(***************************************************************************)
(* Theorems about Listener, for any number of daemons, callers and faults, *)
(* whether or not crashes leave unrecorded sockets and zombies behind.     *)
(***************************************************************************)
EXTENDS Listener, TLAPS

\* What OneDaemon rests on: the ranges of the files and positions, and that
\* daemon.json never names a process slot that has been given to a new daemon.
IInv ==
  /\ metadata \in Daemon \cup {None} /\ lock \in Daemon \cup {None}
  /\ pc \in [Daemon -> Positions] /\ parent \in [Daemon -> LongLived \cup {None}]
  /\ child \in [Caller -> Daemon \cup {None}]
  /\ \A c \in Caller : at[c] \in {"poll", "wait"} => child[c] # None
  /\ at \in [Caller -> {"idle", "pin", "adopt", "inspect", "stop", "await", "spawn", "poll", "wait"}]
  /\ OneDaemon
  /\ metadata # None /\ Alive(metadata) => pc[metadata] # "flock"

\* A process that has died is not alive, and it left a lock it held.
LEMMA DeadProcess ==
  ASSUME NEW d \in Daemon, pc \in [Daemon -> Positions], parent \in [Daemon -> LongLived \cup {None}],
         lock \in Daemon \cup {None}, Dies(d)
  PROVE  /\ pc' \in [Daemon -> Positions] /\ ~Alive(d)' /\ lock' # d
         /\ \A e \in Daemon \ {d} : pc'[e] = pc[e] /\ (lock = e => lock' = e)
         /\ lock' \in Daemon \cup {None}
  BY ListenerAssumption DEF Dies, Gone, Positions, Alive, Starting, Stopping

\* If positions and lock change as one process dies, the invariant survives.
LEMMA DeathStep ==
  ASSUME IInv, NEW d \in Daemon, Dies(d), UNCHANGED <<metadata, parent>>,
         at' \in [Caller -> {"idle", "pin", "adopt", "inspect", "stop", "await", "spawn", "poll", "wait"}],
         child' \in [Caller -> Daemon \cup {None}],
         \A c \in Caller : at'[c] \in {"poll", "wait"} => child'[c] # None
  PROVE  IInv'
<1>1. /\ pc' \in [Daemon -> Positions] /\ ~Alive(d)' /\ lock' # d
      /\ \A e \in Daemon \ {d} : pc'[e] = pc[e] /\ (lock = e => lock' = e)
      /\ lock' \in Daemon \cup {None}
  BY DeadProcess DEF IInv
<1>2. \A e \in Daemon : Alive(e)' => e # d /\ Alive(e) /\ pc'[e] = pc[e]
  BY <1>1 DEF Alive
<1>3. QED
  BY <1>1, <1>2, ListenerAssumption DEF IInv, OneDaemon

\* Initially no process runs but one of an older version, which daemon.json names.
LEMMA IInvInit == Init => IInv
  BY ListenerAssumption DEF Init, IInv, OneDaemon, Alive, Positions, Starting, Stopping

\* A daemon's own step: it holds the lock from flock to exit.
LEMMA DaemonKeepsIInv == ASSUME IInv, NEW d \in Daemon, DaemonStep(d) PROVE IInv'
<1> USE DEF files, daemons, callers
<1>1. CASE Dies(d) /\ UNCHANGED <<metadata, parent, at, child>>
  BY <1>1, DeathStep DEF IInv
<1>2. ASSUME NEW to \in Starting \cup Stopping \cup {"serve"}, pc' = [pc EXCEPT ![d] = to], to # "flock",
             lock' = d, pc[d] # "flock" => lock = d, pc[d] = "flock" => lock = None, Alive(d),
             metadata' \in {metadata, d, None}, UNCHANGED <<parent, at, child>>
      PROVE  IInv'
  <2>1. pc' \in [Daemon -> Positions]
    BY <1>2 DEF IInv, Positions
  <2>2. \A e \in Daemon \ {d} : pc'[e] = pc[e] /\ lock # e
    BY <1>2, ListenerAssumption DEF IInv
  <2>3. \A e \in Daemon : Alive(e)' /\ pc'[e] # "flock" => lock' = e
    BY <1>2, <2>2 DEF IInv, OneDaemon, Alive
  <2>4. metadata' # None /\ Alive(metadata)' => pc'[metadata'] # "flock"
    <3>1. CASE metadata' = d
      BY <1>2, <3>1 DEF IInv
    <3>2. CASE metadata' # None /\ metadata' # d
      BY <1>2, <2>2, <3>2 DEF IInv, Alive
    <3>3. QED
      BY <3>1, <3>2
  <2>5. QED
    BY <1>2, <2>1, <2>3, <2>4 DEF IInv, OneDaemon, Alive
<1>3. CASE Flock(d)
  BY <1>1, <1>2, <1>3 DEF Flock, Step, LockFree, Alive, Starting, IInv
<1>4. Alive(d) /\ pc[d] # "flock" => lock = d
  BY DEF IInv, OneDaemon
<1>5. CASE Prepare(d) \/ Probe(d)
  BY <1>1, <1>2, <1>4, <1>5 DEF Prepare, Probe, Step, Alive, Starting, IInv
<1>6. CASE Bind(d)
  BY <1>1, <1>2, <1>4, <1>6 DEF Bind, Step, Alive, Starting, IInv
<1>7. CASE RecordSocket(d) \/ Publish(d) \/ Arm(d)
  BY <1>1, <1>2, <1>4, <1>7 DEF RecordSocket, Publish, Arm, Step, Alive, Starting, IInv
<1>8. CASE Compare(d) \/ Unlink(d)
  BY <1>2, <1>4, <1>8 DEF Compare, Unlink, Step, Alive, Stopping, Starting, IInv
<1>9. CASE Close(d) \/ Forget(d)
  BY <1>2, <1>4, <1>9 DEF Close, Forget, Step, Alive, Stopping, Starting, IInv
<1>10. CASE Exit(d)
  BY <1>1, <1>10 DEF Exit
<1>11. CASE Pin(d) \/ Adopt(d)
  BY <1>2, <1>4, <1>11 DEF Pin, Adopt, Step, Alive, Starting, IInv
<1>12. QED
  BY <1>3, <1>5, <1>6, <1>7, <1>8, <1>10, <1>11, <1>9 DEF DaemonStep

\* Reaping a child and giving a forgotten slot to a new process change no lock.
LEMMA SlotStep ==
  ASSUME IInv, UNCHANGED <<lock, metadata>>,
         pc' \in [Daemon -> Positions],
         \A e \in Daemon : \/ pc'[e] = pc[e]
                           \/ pc'[e] \in {"dead", "zombie"}
                           \/ pc'[e] = "flock" /\ metadata # e,
         parent' \in [Daemon -> LongLived \cup {None}],
         child' \in [Caller -> Daemon \cup {None}],
         at' \in [Caller -> {"idle", "pin", "adopt", "inspect", "stop", "await", "spawn", "poll", "wait"}],
         \A c \in Caller : at'[c] \in {"poll", "wait"} => child'[c] # None
  PROVE  IInv'
  BY ListenerAssumption DEF IInv, OneDaemon, Alive, Starting, Stopping

\* A call that returns leaves a caller that polls nobody.
LEMMA ReturnTypes ==
  ASSUME IInv, NEW c \in Caller, Return(c)
  PROVE  /\ child' \in [Caller -> Daemon \cup {None}]
         /\ at' \in [Caller -> {"idle", "pin", "adopt", "inspect", "stop", "await", "spawn", "poll", "wait"}]
         /\ \A e \in Caller : at'[e] \in {"poll", "wait"} => child'[e] # None
  BY DEF IInv, Return, Goto

\* A caller that moves on without a new child.
LEMMA GotoTypes ==
  ASSUME IInv, NEW c \in Caller, UNCHANGED child,
         \/ Goto(c, "pin") \/ Goto(c, "adopt") \/ Goto(c, "inspect") \/ Goto(c, "stop") \/ Goto(c, "await") \/ Goto(c, "spawn")
         \/ Goto(c, "wait") /\ at[c] = "poll"
  PROVE  /\ child' \in [Caller -> Daemon \cup {None}]
         /\ at' \in [Caller -> {"idle", "pin", "adopt", "inspect", "stop", "await", "spawn", "poll", "wait"}]
         /\ \A e \in Caller : at'[e] \in {"poll", "wait"} => child'[e] # None
  BY DEF IInv, Goto

\* A step of a caller that touches no daemon.
LEMMA QuietStep ==
  ASSUME IInv, NEW c \in Caller, UNCHANGED <<lock, metadata, pc, parent>>,
         \/ Return(c)
         \/ /\ UNCHANGED child
            /\ \/ Goto(c, "pin") \/ Goto(c, "adopt") \/ Goto(c, "inspect") \/ Goto(c, "stop") \/ Goto(c, "await") \/ Goto(c, "spawn")
               \/ Goto(c, "wait") /\ at[c] = "poll"
  PROVE  IInv'
<1>1. /\ child' \in [Caller -> Daemon \cup {None}]
      /\ at' \in [Caller -> {"idle", "pin", "adopt", "inspect", "stop", "await", "spawn", "poll", "wait"}]
      /\ \A e \in Caller : at'[e] \in {"poll", "wait"} => child'[e] # None
  BY ReturnTypes, GotoTypes
<1>2. QED
  BY <1>1, SlotStep DEF IInv

\* SIGTERM leaves a daemon as it is, sets its event, or kills it.
LEMMA TerminateStep ==
  ASSUME IInv, NEW d \in Daemon, NEW c \in Caller, Terminate(d), UNCHANGED <<metadata, parent, child>>,
         Goto(c, "await") \/ (Goto(c, "wait") /\ at[c] = "poll")
  PROVE  IInv'
<1>1. /\ child' \in [Caller -> Daemon \cup {None}]
      /\ at' \in [Caller -> {"idle", "pin", "adopt", "inspect", "stop", "await", "spawn", "poll", "wait"}]
      /\ \A e \in Caller : at'[e] \in {"poll", "wait"} => child'[e] # None
  BY GotoTypes
<1>2. CASE Dies(d)
  BY <1>1, <1>2, DeathStep
<1>3. CASE UNCHANGED <<pc, lock>>
  BY <1>3, QuietStep
<1>4. QED
  BY <1>2, <1>3 DEF Terminate

\* start_daemon and stop_daemon keep the invariant.
LEMMA CallerKeepsIInv ==
  ASSUME IInv, NEW c \in Caller,
         \/ Stop(c) \/ Signal(c) \/ Await(c)
         \/ c \in Starter /\ (StarterStep(c) \/ Reap(c))
  PROVE  IInv'
<1> USE DEF files, daemons
<1>1. CASE Acquire(c) \/ StarterPins(c) \/ Inspect(c) \/ Stop(c) \/ Await(c)
  BY <1>1, QuietStep DEF Acquire, StarterPins, Inspect, Stop, Await, Stopped
<1>2. CASE Signal(c)
  <2>1. CASE ProcessRunning /\ Terminate(metadata) /\ Goto(c, "await") /\ UNCHANGED child
    <3>1. metadata \in Daemon
      BY <2>1 DEF ProcessRunning, IInv
    <3>2. UNCHANGED <<metadata, parent, child>>
      BY <1>2, <2>1 DEF Signal
    <3>3. QED
      BY <2>1, <3>1, <3>2, TerminateStep
  <2>2. CASE UNCHANGED <<pc, lock>> /\ Stopped(c)
    BY <1>2, <2>2, QuietStep DEF Signal, Stopped
  <2>3. QED
    BY <1>2, <2>1, <2>2 DEF Signal, ProcessRunning
<1>3. CASE c \in Starter /\ Spawn(c)
  <2>1. PICK d \in Daemon :
          /\ Forgotten(d)
          /\ pc' = [e \in Daemon |-> IF e = d THEN "flock"
                                     ELSE IF pc[e] = "zombie" /\ parent[e] = c THEN "dead" ELSE pc[e]]
          /\ parent' = [parent EXCEPT ![d] = IF c \in LongLived THEN c ELSE None]
          /\ child' = [child EXCEPT ![c] = d]
    BY <1>3 DEF Spawn
  <2>2. pc' \in [Daemon -> Positions] /\ parent' \in [Daemon -> LongLived \cup {None}]
    BY <2>1 DEF IInv, Positions, Starting
  <2>3. /\ child' \in [Caller -> Daemon \cup {None}]
        /\ at' \in [Caller -> {"idle", "pin", "adopt", "inspect", "stop", "await", "spawn", "poll", "wait"}]
        /\ \A e \in Caller : at'[e] \in {"poll", "wait"} => child'[e] # None
    BY <1>3, <2>1, ListenerAssumption DEF Spawn, Goto, IInv
  <2>4. UNCHANGED <<lock, metadata>> /\ metadata # d
    BY <1>3, <2>1 DEF Spawn, Forgotten
  <2>5. QED
    BY <2>1, <2>2, <2>3, <2>4, SlotStep
<1>4. CASE c \in Starter /\ (Poll(c) \/ Wait(c))
  <2>1. /\ child' \in [Caller -> Daemon \cup {None}]
        /\ at' \in [Caller -> {"idle", "pin", "adopt", "inspect", "stop", "await", "spawn", "poll", "wait"}]
        /\ \A e \in Caller : at'[e] \in {"poll", "wait"} => child'[e] # None
    BY <1>4, ReturnTypes DEF Poll, Wait
  <2>2. pc' \in [Daemon -> Positions]
        /\ \A e \in Daemon : pc'[e] = pc[e] \/ pc'[e] = "dead"
    BY <1>4 DEF Poll, Wait, IInv, Positions
  <2>3. QED
    BY <1>4, <2>1, <2>2, SlotStep DEF Poll, Wait, IInv
<1>5. CASE c \in Starter /\ PollTimeout(c)
  BY <1>5, TerminateStep DEF PollTimeout, IInv
<1>6. CASE c \in Starter /\ Reap(c)
  <2>1. pc' \in [Daemon -> Positions] /\ \A e \in Daemon : pc'[e] = pc[e] \/ pc'[e] = "dead"
    BY <1>6 DEF Reap, IInv, Positions
  <2>2. QED
    BY <1>6, <2>1, SlotStep DEF Reap, IInv, callers
<1>7. QED
  BY <1>1, <1>2, <1>3, <1>4, <1>5, <1>6 DEF StarterStep

\* Crashes, stalls, the serve command, callers that are killed, and programs
\* outside the relay keep the invariant.
LEMMA OutsideKeepsIInv ==
  ASSUME IInv,
         \/ \E d \in Daemon : Crash(d) \/ Stall(d) \/ Serve(d)
         \/ \E c \in Caller : Abandon(c)
         \/ \E f \in Foreign : ForeignBind(f) \/ ForeignExit(f)
         \/ Clear \/ UNCHANGED vars
  PROVE  IInv'
<1> USE DEF files, daemons, callers
<1>1. ASSUME NEW d \in Daemon, Crash(d) PROVE IInv'
  BY <1>1, DeathStep DEF Crash, IInv
<1>2. ASSUME NEW d \in Daemon, Serve(d) PROVE IInv'
  <2>1. pc' \in [Daemon -> Positions] /\ parent' \in [Daemon -> LongLived \cup {None}]
    BY <1>2 DEF Serve, IInv, Positions, Starting
  <2>2. \A e \in Daemon : pc'[e] = pc[e] \/ (pc'[e] = "flock" /\ metadata # e)
    BY <1>2 DEF Serve, Forgotten, IInv
  <2>3. QED
    BY <1>2, <2>1, <2>2, SlotStep DEF Serve, IInv
<1>3. ASSUME NEW c \in Caller, Abandon(c) PROVE IInv'
  <2>1. pc' \in [Daemon -> Positions] /\ parent' \in [Daemon -> LongLived \cup {None}]
        /\ \A e \in Daemon : pc'[e] = pc[e] \/ pc'[e] = "dead"
    BY <1>3 DEF Abandon, IInv, Positions
  <2>2. QED
    BY <1>3, <2>1, ReturnTypes, SlotStep DEF Abandon
<1>4. CASE UNCHANGED <<lock, metadata, pc, parent, at, child>>
  BY <1>4, SlotStep DEF IInv
<1>5. QED
  BY <1>1, <1>2, <1>3, <1>4 DEF Stall, ForeignBind, ForeignExit, Clear, vars

\* The strengthening is inductive.
LEMMA IInvStep == IInv /\ [Next]_vars => IInv'
  BY DaemonKeepsIInv, CallerKeepsIInv, OutsideKeepsIInv DEF Next, Caller

\* A daemon that is past daemon.lock holds it, and a live daemon named by
\* daemon.json is the holder: at most one process consumes a mailbox, and
\* status and stop address no other, however starts, stops, crashes, stalls
\* and foreign programs interleave.
THEOREM OneDaemonHolds == Spec => []OneDaemon
<1>1. IInv => OneDaemon
  BY DEF IInv
<1>2. QED
  BY <1>1, IInvInit, IInvStep, PTL DEF Spec

\* While a daemon serves, every other one that is alive waits for the lock.
LEMMA OthersWait ==
  ASSUME IInv, NEW d \in Daemon, NEW e \in Daemon, pc[d] = "serve", DaemonStep(e)
  PROVE  Flock(e) \/ (e = d /\ Close(e))
  BY ListenerAssumption DEF IInv, OneDaemon, Alive, Starting, Stopping, DaemonStep, Pin, Adopt, Prepare, Probe, Compare, Unlink,
     Bind, RecordSocket, Publish, Arm, Close, Forget, Exit, Step

\* The cleanup of one daemon, and the start of another, never take the socket
\* or the daemon.json of one in service: its lock outlives both.
THEOREM SuccessorIsSafe == Spec => SuccessorSafe
<1> DEFINE Kept(d) == (sock = d => sock' = d) /\ (metadata = d => metadata' = d)
<1>1. ASSUME IInv, Next, NEW d \in Daemon, pc[d] = "serve", pc'[d] = "serve", pc' # pc
      PROVE  Kept(d)
  <2> USE DEF files
  <2>1. ASSUME NEW e \in Daemon, DaemonStep(e) PROVE Kept(d)
    <3>1. CASE Flock(e)
      BY <3>1 DEF Flock
    <3>2. CASE e = d /\ Close(e)
      BY <3>2 DEF Close
    <3>3. QED
      BY <1>1, <2>1, <3>1, <3>2, OthersWait
  <2>2. ASSUME NEW e \in Daemon, Crash(e) \/ Stall(e) \/ Serve(e) PROVE Kept(d)
    BY <2>2 DEF Crash, Stall, Serve
  <2>3. ASSUME NEW c \in Caller, Stop(c) \/ Signal(c) \/ Await(c) \/ Abandon(c) PROVE Kept(d)
    BY <2>3 DEF Stop, Signal, Await, Abandon
  <2>4. ASSUME NEW s \in Starter, StarterStep(s) \/ Reap(s) PROVE Kept(d)
    BY <2>4 DEF StarterStep, Reap, Acquire, StarterPins, Inspect, Signal, Await, Spawn, Poll, PollTimeout, Wait
  <2>5. CASE (\E f \in Foreign : ForeignBind(f) \/ ForeignExit(f)) \/ Clear
    BY <1>1, <2>5 DEF ForeignBind, ForeignExit, Clear, daemons
  <2>6. QED
    BY <1>1, <2>1, <2>2, <2>3, <2>4, <2>5 DEF Next, Caller
<1>2. IInv /\ [Next]_vars => [\A d \in Daemon : (pc[d] = "serve" /\ pc'[d] = "serve" /\ pc' # pc) =>
         (sock = d => sock' = d) /\ (metadata = d => metadata' = d)]_vars
  BY <1>1
<1>3. QED
  BY <1>2, IInvInit, IInvStep, PTL DEF Spec, SuccessorSafe

(***************************************************************************)
(* Ranges.                                                                 *)
(***************************************************************************)

Ranges ==
  /\ pinned \in BOOLEAN /\ recorded \in Sockets /\ sock \in Sockets /\ known \in [Daemon -> Sockets]
  /\ foreignUp \subseteq Foreign /\ raced \subseteq Foreign
  /\ told \subseteq Daemon /\ stalled \subseteq Daemon /\ faults \in Nat

\* The starter that is past the lock holds startup.lock, and has a child if it polls.
Starters ==
  /\ startup \in Starter \cup {None}
  /\ \A s \in Starter : /\ at[s] # "idle" <=> startup = s
                        /\ at[s] \in {"poll", "wait"} <=> child[s] # None

\* What a signal does to the process that gets it.
LEMMA TerminateRanges ==
  ASSUME told \subseteq Daemon, stalled \subseteq Daemon, known \in [Daemon -> Sockets], NEW d \in Daemon, Terminate(d)
  PROVE  told' \subseteq Daemon /\ stalled' \subseteq Daemon /\ known' \in [Daemon -> Sockets]
<1>1. CASE pc[d] = "serve"
  <2>1. pc[d] \notin Starting
    BY <1>1 DEF Starting
  <2>2. QED
    BY <1>1, <2>1 DEF Terminate
<1>2. CASE pc[d] # "serve" /\ pc[d] \in Starting
  BY <1>2 DEF Terminate, Dies, Sockets
<1>3. CASE pc[d] # "serve" /\ pc[d] \notin Starting
  BY <1>3 DEF Terminate
<1>4. QED
  BY <1>1, <1>2, <1>3

\* Files, events and the count of faults.
LEMMA RangesStep == ASSUME IInv, Starters, Ranges, [Next]_vars PROVE Ranges'
<1> USE DEF Ranges, files, foreign, daemons, callers
<1>1. Fault => faults' \in Nat
  BY DEF Fault
<1>2. metadata \in Daemon \cup {None}
  BY DEF IInv
<1>3. ASSUME NEW d \in Daemon, DaemonStep(d) PROVE Ranges'
  <2>1. told' \subseteq Daemon /\ stalled' \subseteq Daemon /\ UNCHANGED <<foreignUp, raced, faults>>
    BY <1>3 DEF DaemonStep, Flock, Pin, Adopt, Prepare, Probe, Compare, Unlink, Bind, RecordSocket, Publish, Arm, Close,
               Forget, Exit, Dies
  <2>2. sock' \in {sock, d, None} /\ recorded' \in {recorded, sock, None} /\ pinned' \in {pinned, TRUE}
    BY <1>3 DEF DaemonStep, Flock, Pin, Adopt, Prepare, Probe, Compare, Unlink, Bind, RecordSocket, Publish, Arm, Close,
               Forget, Exit, WritePin, Adopted, NewRecord
  <2>3. known' \in {known, [known EXCEPT ![d] = None], [known EXCEPT ![d] = sock]}
    BY <1>3 DEF DaemonStep, Flock, Pin, Adopt, Prepare, Probe, Compare, Unlink, Bind, RecordSocket, Publish, Arm, Close,
               Forget, Exit, Dies
  <2>4. recorded' \in Sockets /\ sock' \in Sockets /\ known' \in [Daemon -> Sockets]
    BY <2>2, <2>3 DEF Sockets
  <2>5. QED
    BY <2>1, <2>2, <2>4
<1>4. ASSUME NEW d \in Daemon, Crash(d) \/ Stall(d) \/ Serve(d) PROVE Ranges'
  BY <1>1, <1>4 DEF Crash, Stall, Serve, Dies, Sockets
<1>5. ASSUME NEW c \in Caller, Signal(c) PROVE Ranges'
  <2>1. CASE ProcessRunning /\ Terminate(metadata)
    BY <1>2, <1>5, <2>1, TerminateRanges DEF Signal, ProcessRunning
  <2>2. CASE UNCHANGED <<known, told, stalled>>
    BY <1>5, <2>2 DEF Signal
  <2>3. QED
    BY <1>5, <2>1, <2>2 DEF Signal
<1>6. ASSUME NEW s \in Starter, PollTimeout(s) PROVE Ranges'
  <2>1. child[s] \in Daemon /\ Terminate(child[s])
    BY <1>6 DEF PollTimeout, IInv, Caller
  <2>2. faults' \in Nat
    BY <1>1, <1>6 DEF PollTimeout
  <2>3. QED
    BY <1>6, <2>1, <2>2, TerminateRanges DEF PollTimeout
<1>7. ASSUME NEW s \in Starter, StarterPins(s) PROVE Ranges'
  <2>1. recorded' \in {recorded, sock, None} /\ pinned' \in {pinned, TRUE}
        /\ UNCHANGED <<sock, foreign, known, told, stalled, faults>>
    BY <1>7 DEF StarterPins, WritePin, Adopted
  <2>2. QED
    BY <2>1 DEF Sockets
<1>8. ASSUME NEW c \in Caller, Acquire(c) \/ Inspect(c) \/ Stop(c) \/ Await(c) \/ Spawn(c) \/ Poll(c) \/ Wait(c)
                               \/ Reap(c) \/ Abandon(c)
      PROVE  Ranges'
  BY <1>1, <1>8 DEF Acquire, Inspect, Stop, Await, Spawn, Poll, Wait, Reap, Abandon
<1>9. CASE (\E f \in Foreign : ForeignBind(f) \/ ForeignExit(f)) \/ Clear
  BY <1>1, <1>9 DEF ForeignBind, ForeignExit, Clear, Sockets
<1>10. CASE UNCHANGED vars
  BY <1>10 DEF vars
<1>11. QED
  BY <1>3, <1>4, <1>5, <1>6, <1>7, <1>8, <1>9, <1>10 DEF Next, StarterStep, Caller

\* A caller that goes on while it holds what it holds.
LEMMA StartersGo ==
  ASSUME IInv, Starters, NEW c \in Caller, UNCHANGED <<startup, child>>,
         NEW to \in {"pin", "adopt", "inspect", "stop", "await", "spawn"}, Goto(c, to),
         c \in Starter => at[c] \notin {"idle", "poll", "wait"}
  PROVE  Starters'
  BY DEF IInv, Starters, Goto

\* A call that ends gives the lock back.
LEMMA StartersReturn ==
  ASSUME IInv, Starters, NEW c \in Caller, Return(c)
  PROVE  Starters'
  BY ListenerAssumption DEF IInv, Starters, Return, Goto, Caller

\* One starter at a time.
LEMMA StartersStep == ASSUME IInv, Starters, [Next]_vars PROVE Starters'
<1>1. CASE UNCHANGED callers
  BY <1>1 DEF callers, Starters
<1>2. ASSUME NEW c \in Caller, Stopped(c), c \in Starter => at[c] \in {"stop", "await"} PROVE Starters'
  BY <1>2, StartersGo, StartersReturn DEF Stopped
<1>3. ASSUME NEW s \in Starter, Acquire(s) PROVE Starters'
  BY <1>3, ListenerAssumption DEF IInv, Starters, Acquire, Goto, Caller
<1>4. ASSUME NEW s \in Starter, StarterPins(s) PROVE Starters'
  BY <1>4, StartersGo DEF StarterPins, Caller
<1>5. ASSUME NEW s \in Starter, Inspect(s) PROVE Starters'
  BY <1>5, StartersGo, StartersReturn DEF Inspect, Caller
<1>6. ASSUME NEW c \in Caller, Signal(c) \/ Await(c) PROVE Starters'
  BY <1>2, <1>6, StartersGo, StartersReturn DEF Signal, Await
<1>7. ASSUME NEW c \in Stopper, Stop(c) PROVE Starters'
  BY <1>7, StartersGo, ListenerAssumption DEF Stop, Caller
<1>8. ASSUME NEW s \in Starter, Spawn(s) PROVE Starters'
  <2>1. PICK d \in Daemon : child' = [child EXCEPT ![s] = d]
    BY <1>8 DEF Spawn
  <2>2. at' = [at EXCEPT ![s] = "poll"] /\ at[s] = "spawn" /\ startup' = startup
    BY <1>8 DEF Spawn, Goto
  <2>3. QED
    BY <2>1, <2>2, ListenerAssumption DEF IInv, Starters, Caller
<1>9. ASSUME NEW s \in Starter, PollTimeout(s) PROVE Starters'
  BY <1>9 DEF PollTimeout, Goto, IInv, Starters, Caller
<1>10. ASSUME NEW c \in Caller, Poll(c) \/ Wait(c) \/ Abandon(c) PROVE Starters'
  BY <1>10, StartersReturn DEF Poll, Wait, Abandon
<1>11. ASSUME NEW d \in Daemon, DaemonStep(d) \/ Crash(d) \/ Stall(d) \/ Serve(d) PROVE UNCHANGED callers
  BY <1>11 DEF DaemonStep, Flock, Pin, Adopt, Prepare, Probe, Compare, Unlink, Bind, RecordSocket, Publish, Arm, Close,
              Forget, Exit, Crash, Stall, Serve
<1>12. ASSUME \/ \E s \in Starter : Reap(s)
              \/ \E f \in Foreign : ForeignBind(f) \/ ForeignExit(f)
              \/ Clear \/ UNCHANGED vars
       PROVE  UNCHANGED callers
  BY <1>12 DEF Reap, ForeignBind, ForeignExit, Clear, vars
<1>13. QED
  BY <1>1, <1>3, <1>4, <1>5, <1>6, <1>7, <1>8, <1>9, <1>10, <1>11, <1>12 DEF Next, StarterStep, Caller

\* Nobody has called yet.
LEMMA RangesInit == Init => Ranges /\ Starters
<1>1. ASSUME Init PROVE Ranges
  <2>1. PICK old \in {Old, None} : sock = old /\ known = [d \in Daemon |-> IF d = old THEN old ELSE None]
    BY <1>1 DEF Init
  <2>2. sock \in Sockets /\ known \in [Daemon -> Sockets]
    BY <2>1, ListenerAssumption DEF Sockets
  <2>3. QED
    BY <1>1, <2>2 DEF Init, Ranges, Sockets
<1>2. ASSUME Init PROVE Starters
  <2>1. startup = None /\ at = [c \in Caller |-> "idle"] /\ child = [c \in Caller |-> None]
    BY <1>2 DEF Init
  <2>2. \A s \in Starter : s # None /\ at[s] = "idle" /\ child[s] = None
    BY <2>1, ListenerAssumption DEF Caller
  <2>3. QED
    BY <2>1, <2>2 DEF Starters
<1>3. QED
  BY <1>1, <1>2

\* Every variable keeps its range, and startup.lock lets one starter in at a time.
THEOREM TypeCorrect == Spec => []TypeOK
<1>1. IInv /\ Ranges /\ Starters => TypeOK
  BY DEF IInv, Ranges, Starters, TypeOK
<1>2. QED
  BY <1>1, RangesInit, IInvInit, IInvStep, RangesStep, StartersStep, PTL DEF Spec

(***************************************************************************)
(* Sockets of other programs.                                              *)
(***************************************************************************)

\* What ForeignKept rests on: a foreign socket that reply.json describes, or that a
\* daemon goes by once it has passed the comparison with reply.json, came between
\* two calls of a daemon; so did one that is there when a daemon is about to look
\* what it bound or to unlink.
ForeignInv ==
  /\ recorded \in Foreign => recorded \in raced
  /\ \A d \in Daemon : /\ known[d] \in Foreign /\ pc[d] # "probe" => known[d] \in raced
                       /\ pc[d] \in {"record", "unlink", "drop"} /\ sock \in Foreign => sock \in raced

\* A daemon that stays where it is, ends, or goes on by the socket it knew.
Lawful(d) ==
  \/ pc'[d] = pc[d] /\ known'[d] = known[d]
  \/ pc'[d] \notin {"record", "unlink", "drop"} /\ known'[d] = None
  \/ pc'[d] \notin {"record", "unlink", "drop"} /\ pc[d] # "probe" /\ known'[d] = known[d]

Kept == sock \in Foreign \ raced => sock' = sock

\* A step that binds nothing and writes no record.
LEMMA ForeignKeeps ==
  ASSUME ForeignInv, UNCHANGED <<recorded, raced>>, sock' \in {sock, None}, \A d \in Daemon : Lawful(d)
  PROVE  ForeignInv'
  BY ListenerAssumption DEF ForeignInv, Lawful

\* The positions and the socket of one process change.
LEMMA ForeignMove ==
  ASSUME IInv, ForeignInv, known \in [Daemon -> Sockets], NEW d \in Daemon, NEW from, NEW to,
         Step(d, from, to), UNCHANGED <<recorded, raced, known>>, sock' \in {sock, None},
         from # "probe", to \notin {"record", "unlink", "drop"}
  PROVE  ForeignInv'
<1>1. \A e \in Daemon : Lawful(e)
  BY DEF Lawful, Step, IInv
<1>2. QED
  BY <1>1, ForeignKeeps

\* One process dies.
LEMMA ForeignDeath ==
  ASSUME IInv, ForeignInv, known \in [Daemon -> Sockets], NEW d \in Daemon, Dies(d), UNCHANGED <<recorded, raced, sock>>
  PROVE  ForeignInv'
<1>1. \A e \in Daemon : Lawful(e)
  BY DEF Lawful, Dies, Gone, IInv
<1>2. QED
  BY <1>1, ForeignKeeps

\* A daemon's own step.
LEMMA DaemonKeepsForeign ==
  ASSUME IInv, ForeignInv, Ranges, NEW d \in Daemon, DaemonStep(d)
  PROVE  ForeignInv' /\ Kept
<1> USE ListenerAssumption DEF files, foreign
<1>1. pc \in [Daemon -> Positions] /\ known \in [Daemon -> Sockets] /\ metadata \in Daemon \cup {None}
  BY DEF IInv, Ranges
<1>2. CASE Flock(d) \/ Pin(d) \/ Publish(d) \/ Arm(d) \/ Close(d) \/ Forget(d) \/ Exit(d)
  BY <1>1, <1>2, ForeignMove, ForeignDeath DEF Flock, Pin, Publish, Arm, Close, Forget, Exit, Kept
<1>3. CASE Adopt(d)
  <2>1. recorded' \notin Foreign
    BY <1>1, <1>3 DEF Adopt, WritePin, Adopted, Running, ProcessRunning
  <2>2. \A e \in Daemon : Lawful(e)
    BY <1>1, <1>3 DEF Adopt, Step, Lawful
  <2>3. QED
    BY <1>3, <2>1, <2>2 DEF Adopt, ForeignInv, Lawful, Kept
<1>4. CASE Prepare(d)
  <2>1. CASE sock = None /\ Step(d, "prepare", "bind") /\ UNCHANGED known
    BY <1>1, <1>4, <2>1, ForeignMove DEF Prepare, Kept
  <2>2. CASE Step(d, "prepare", "probe") /\ known' = [known EXCEPT ![d] = sock]
    <3>1. pc'[d] = "probe" /\ \A e \in Daemon \ {d} : pc'[e] = pc[e] /\ known'[e] = known[e]
      BY <1>1, <2>2 DEF Step
    <3>2. QED
      BY <1>4, <3>1 DEF Prepare, ForeignInv, Kept
  <2>3. QED
    BY <1>4, <2>1, <2>2 DEF Prepare
<1>5. CASE Probe(d)
  <2>1. CASE known[d] = recorded /\ Step(d, "probe", "recheck") /\ UNCHANGED known
    <3>1. pc'[d] = "recheck" /\ \A e \in Daemon \ {d} : pc'[e] = pc[e]
      BY <1>1, <2>1 DEF Step
    <3>2. QED
      BY <1>5, <2>1, <3>1 DEF Probe, ForeignInv, Kept
  <2>2. QED
    BY <1>1, <1>5, <2>1, ForeignDeath DEF Probe, Reclaimable, Kept
<1>6. CASE Compare(d)
  <2>1. UNCHANGED <<recorded, raced, sock, known>> /\ pc[d] \in {"recheck", "remove"}
        /\ \A e \in Daemon \ {d} : pc'[e] = pc[e]
    BY <1>1, <1>6 DEF Compare, Step
  <2>2. pc'[d] \in {"unlink", "drop"} => sock = known[d]
    BY <1>1, <1>6 DEF Compare, Step, OwnSocket
  <2>3. pc'[d] \notin {"probe", "record"}
    BY <1>1, <1>6 DEF Compare, Step
  <2>4. QED
    BY <2>1, <2>2, <2>3 DEF ForeignInv, Kept
<1>7. CASE Unlink(d)
  <2>1. sock \in Foreign => sock \in raced
    BY <1>7 DEF Unlink, Step, ForeignInv
  <2>2. QED
    BY <1>1, <1>7, <2>1, ForeignMove DEF Unlink, Kept
<1>8. CASE Bind(d)
  <2>1. CASE Step(d, "bind", "record") /\ sock = None /\ sock' = d /\ UNCHANGED known
    <3>1. sock' \notin Foreign /\ pc[d] = "bind" /\ \A e \in Daemon : pc'[e] # "probe" => pc[e] # "probe"
      BY <1>1, <2>1 DEF Step
    <3>2. QED
      BY <1>8, <2>1, <3>1 DEF Bind, ForeignInv, Kept
  <2>2. QED
    BY <1>1, <1>8, <2>1, ForeignDeath DEF Bind, Kept
<1>9. CASE RecordSocket(d)
  <2>1. CASE Step(d, "record", "publish") /\ recorded' = sock /\ known' = [known EXCEPT ![d] = sock]
    <3>1. sock \in Foreign => sock \in raced
      BY <2>1 DEF ForeignInv, Step
    <3>2. /\ known'[d] = sock /\ pc'[d] = "publish"
          /\ \A e \in Daemon \ {d} : pc'[e] = pc[e] /\ known'[e] = known[e]
      BY <1>1, <2>1 DEF Step
    <3>3. QED
      BY <1>9, <2>1, <3>1, <3>2 DEF RecordSocket, ForeignInv, Kept
  <2>2. QED
    BY <1>1, <1>9, <2>1, ForeignDeath DEF RecordSocket, NewRecord, Kept
<1>10. QED
  BY <1>2, <1>3, <1>4, <1>5, <1>6, <1>7, <1>8, <1>9 DEF DaemonStep

\* A signal ends a process or leaves it where it is.
LEMMA TerminateForeign ==
  ASSUME IInv, ForeignInv, known \in [Daemon -> Sockets], NEW d \in Daemon, Terminate(d), UNCHANGED <<recorded, raced, sock>>
  PROVE  ForeignInv'
<1>1. CASE Dies(d)
  BY <1>1, ForeignDeath
<1>2. CASE UNCHANGED <<pc, known>>
  BY <1>2 DEF ForeignInv
<1>3. QED
  BY <1>1, <1>2 DEF Terminate

\* No call of start_daemon or stop_daemon touches a socket file.
LEMMA CallerKeepsForeign ==
  ASSUME IInv, ForeignInv, Ranges, NEW c \in Caller,
         \/ Stop(c) \/ Signal(c) \/ Await(c) \/ Abandon(c)
         \/ c \in Starter /\ (StarterStep(c) \/ Reap(c))
  PROVE  ForeignInv' /\ UNCHANGED sock
<1> USE ListenerAssumption DEF files, foreign, daemons
<1>1. /\ pc \in [Daemon -> Positions] /\ known \in [Daemon -> Sockets] /\ metadata \in Daemon \cup {None}
      /\ foreignUp \subseteq Foreign
      /\ child \in [Caller -> Daemon \cup {None}] /\ \A e \in Caller : at[e] \in {"poll", "wait"} => child[e] # None
  BY DEF IInv, Ranges
<1>2. CASE UNCHANGED <<recorded, raced, sock, pc, known>>
  BY <1>2 DEF ForeignInv
<1>3. CASE Stop(c) \/ Await(c) \/ Acquire(c) \/ Inspect(c)
  BY <1>2, <1>3 DEF Stop, Await, Acquire, Inspect
<1>4. CASE Signal(c)
  <2>1. UNCHANGED <<recorded, raced, sock>>
    BY <1>4 DEF Signal
  <2>2. CASE ProcessRunning /\ Terminate(metadata)
    BY <1>1, <2>1, <2>2, TerminateForeign DEF ProcessRunning
  <2>3. CASE UNCHANGED <<pc, known>>
    BY <1>2, <2>1, <2>3
  <2>4. QED
    BY <1>4, <2>1, <2>2, <2>3 DEF Signal
<1>5. CASE StarterPins(c)
  <2>1. UNCHANGED <<raced, sock, pc, known>> /\ recorded' \in {recorded, Adopted}
    BY <1>5 DEF StarterPins, WritePin
  <2>2. Adopted \notin Foreign
    BY <1>1 DEF Adopted, Running, ProcessRunning
  <2>3. QED
    BY <2>1, <2>2 DEF ForeignInv
<1>6. ASSUME UNCHANGED <<recorded, raced, sock, known>>,
             \A e \in Daemon : pc'[e] = pc[e] \/ (pc'[e] \in {"flock", "dead"} /\ ~Alive(e))
      PROVE  ForeignInv' /\ UNCHANGED sock
  <2>1. \A e \in Daemon : Lawful(e)
    BY <1>6 DEF Lawful, Alive, Starting
  <2>2. QED
    BY <1>6, <2>1, ForeignKeeps
<1>7. CASE c \in Starter /\ Spawn(c)
  <2>1. PICK d \in Daemon :
          /\ Forgotten(d)
          /\ pc' = [e \in Daemon |-> IF e = d THEN "flock"
                                     ELSE IF pc[e] = "zombie" /\ parent[e] = c THEN "dead" ELSE pc[e]]
    BY <1>7 DEF Spawn
  <2>2. \A e \in Daemon : pc'[e] = pc[e] \/ (pc'[e] \in {"flock", "dead"} /\ ~Alive(e))
    BY <2>1 DEF Forgotten, Alive, Starting, Stopping
  <2>3. QED
    BY <1>6, <1>7, <2>2 DEF Spawn
<1>8. CASE c \in Starter /\ (Poll(c) \/ Wait(c) \/ Reap(c))
  <2>1. \A e \in Daemon : pc'[e] = pc[e] \/ (pc'[e] \in {"flock", "dead"} /\ ~Alive(e))
    BY <1>1, <1>8 DEF Poll, Wait, Reap, Alive, Starting, Stopping
  <2>2. UNCHANGED <<recorded, raced, sock, known>>
    BY <1>8 DEF Poll, Wait, Reap
  <2>3. QED
    BY <1>6, <2>1, <2>2
<1>9. CASE c \in Starter /\ PollTimeout(c)
  <2>1. child[c] \in Daemon /\ Terminate(child[c]) /\ UNCHANGED <<recorded, raced, sock>>
    BY <1>1, <1>9 DEF PollTimeout, Caller
  <2>2. QED
    BY <1>1, <2>1, TerminateForeign
<1>10. CASE Abandon(c)
  <2>1. \A e \in Daemon : pc'[e] = pc[e] \/ (pc'[e] \in {"flock", "dead"} /\ ~Alive(e))
    BY <1>1, <1>10 DEF Abandon, Alive, Starting, Stopping
  <2>2. QED
    BY <1>6, <1>10, <2>1 DEF Abandon
<1>11. QED
  BY <1>3, <1>4, <1>5, <1>7, <1>8, <1>9, <1>10 DEF StarterStep

\* Crashes, stalls, the serve command and programs outside the relay, which start
\* and end no daemon.
LEMMA OutsideKeepsForeign ==
  ASSUME IInv, ForeignInv, Ranges,
         \/ \E d \in Daemon : Crash(d) \/ Stall(d) \/ Serve(d)
         \/ \E f \in Foreign : ForeignBind(f) \/ ForeignExit(f)
         \/ Clear \/ UNCHANGED vars
  PROVE  ForeignInv' /\ (pc' # pc => sock' = sock)
<1> USE ListenerAssumption DEF files, foreign, daemons
<1>1. pc \in [Daemon -> Positions] /\ known \in [Daemon -> Sockets] /\ raced \subseteq Foreign
  BY DEF IInv, Ranges
<1>2. ASSUME NEW d \in Daemon, Crash(d) PROVE ForeignInv' /\ UNCHANGED sock
  BY <1>1, <1>2, ForeignDeath DEF Crash
<1>3. ASSUME NEW d \in Daemon, Serve(d) PROVE ForeignInv' /\ UNCHANGED sock
  <2>1. \A e \in Daemon : Lawful(e)
    BY <1>1, <1>3 DEF Serve, Forgotten, Lawful
  <2>2. QED
    BY <1>3, <2>1, ForeignKeeps DEF Serve
<1>4. ASSUME NEW f \in Foreign, ForeignBind(f) PROVE ForeignInv' /\ pc' = pc
  <2>1. UNCHANGED <<pc, recorded, known>> /\ sock' = f /\ f # recorded /\ \A d \in Daemon : known[d] # f
    BY <1>4 DEF ForeignBind
  <2>2. CASE Between /\ raced' = raced \cup {f}
    BY <2>1, <2>2 DEF ForeignInv
  <2>3. CASE ~Between /\ raced' = raced \ {f}
    BY <2>1, <2>3 DEF ForeignInv, Between
  <2>4. QED
    BY <1>4, <2>1, <2>2, <2>3 DEF ForeignBind
<1>5. CASE UNCHANGED <<recorded, raced, pc, known>> /\ sock' \in {sock, None}
  BY <1>5 DEF ForeignInv
<1>6. QED
  BY <1>2, <1>3, <1>4, <1>5 DEF Stall, ForeignExit, Clear, vars

\* Nothing is recorded at first, and no foreign program is there.
LEMMA ForeignInit == Init => ForeignInv
<1>1. ASSUME Init PROVE ForeignInv
  <2>1. PICK old \in {Old, None} : sock = old /\ known = [d \in Daemon |-> IF d = old THEN old ELSE None]
    BY <1>1 DEF Init
  <2>2. sock \notin Foreign /\ recorded \notin Foreign /\ \A d \in Daemon : known[d] \notin Foreign
    BY <1>1, <2>1, ListenerAssumption DEF Init
  <2>3. QED
    BY <2>2 DEF ForeignInv
<1>2. QED
  BY <1>1

\* No daemon removes a socket that another program bound, unless that program
\* bound it while a daemon was between two of its calls on the path.
THEOREM ForeignLeftAlone == Spec => ForeignKept
<1> DEFINE F == IInv /\ Ranges /\ Starters /\ ForeignInv
<1>1. Init => F
  BY IInvInit, RangesInit, ForeignInit
<1>2. ASSUME F, [Next]_vars PROVE ForeignInv' /\ (pc' # pc => Kept)
  BY <1>2, DaemonKeepsForeign, CallerKeepsForeign, OutsideKeepsForeign DEF Next, Caller, Kept
<1>3. F /\ [Next]_vars => F'
  BY <1>2, IInvStep, RangesStep, StartersStep
<1>4. F /\ [Next]_vars => [pc' # pc /\ sock \in Foreign \ raced => sock' = sock]_vars
  BY <1>2 DEF Kept
<1>5. QED
  BY <1>1, <1>3, <1>4, PTL DEF Spec, ForeignKept

(***************************************************************************)
(* The record of the socket.                                               *)
(***************************************************************************)

\* A daemon that has reply.json and not yet its socket.
Claiming == {"prepare", "probe", "recheck", "unlink", "bind", "record"}

\* There is no record before reply.json, which every daemon has that goes on to
\* its socket, nor while the one that is about to write the first holds daemon.lock.
AdoptInv ==
  /\ ~pinned => recorded = None
  /\ \A d \in Daemon : /\ pc[d] = "adopt" => recorded = None
                       /\ pc[d] \in Claiming => pinned

Holds == AdoptInv' /\ (Described => Described' \/ DiesUnrecorded \/ PinsLate)

\* The holder of daemon.lock is the only one that is past flock.
LEMMA OneHolder ==
  ASSUME IInv, NEW d \in Daemon, NEW e \in Daemon, Alive(d), Alive(e), pc[d] # "flock", pc[e] # "flock"
  PROVE  d = e
  BY DEF IInv, OneDaemon

\* While a daemon holds the lock to write the first reply.json, none is running.
LEMMA NoneAccepts == ASSUME IInv, foreignUp \subseteq Foreign, NEW d \in Daemon, pc[d] = "adopt" PROVE ~Running
<1>1. ASSUME Running PROVE FALSE
  <2>1. metadata \in Daemon /\ pc[metadata] \in {"record", "publish", "arm", "serve"}
    BY <1>1, ListenerAssumption DEF Running, ProcessRunning, Accepting, IInv
  <2>2. metadata = d
    BY <2>1, OneHolder DEF Alive, Starting
  <2>3. QED
    BY <2>1, <2>2
<1>2. QED
  BY <1>1

\* What else a daemon does on its way, without binding or recording.
Onward(d) ==
  /\ pc'[d] = "adopt" => pc[d] = "adopt" \/ ~pinned
  /\ pc'[d] \in Claiming => pinned
  /\ pc[d] = "record" => pc'[d] = "record" \/ ~Alive(d)'

\* A step that writes no record and binds no socket.
LEMMA RecordKept ==
  ASSUME UNCHANGED <<pinned, recorded>>, sock' \in {sock, None} \cup Foreign, AdoptInv,
         sock \in Sockets,
         \A d \in Daemon : Onward(d)
  PROVE  Holds
  BY ListenerAssumption DEF Onward, Holds, AdoptInv, Described, DiesUnrecorded, Sockets, Claiming

\* One process dies.
LEMMA DeathHolds ==
  ASSUME IInv, AdoptInv, NEW d \in Daemon, Dies(d), UNCHANGED <<pinned, recorded>>, sock' \in {sock, None} \cup Foreign,
         sock \in Sockets
  PROVE  Holds
<1>1. ~Alive(d)' /\ \A e \in Daemon \ {d} : pc'[e] = pc[e]
  BY DeadProcess DEF IInv
<1>2. pc'[d] \notin {"adopt"} \cup Claiming
  BY <1>1 DEF Alive, Starting, Claiming
<1>3. \A e \in Daemon : Onward(e)
  BY <1>1, <1>2 DEF AdoptInv, Onward
<1>4. QED
  BY <1>3, RecordKept

\* A daemon moves on.
LEMMA MoveHolds ==
  ASSUME IInv, AdoptInv, NEW d \in Daemon, NEW from, NEW to, Step(d, from, to), UNCHANGED <<pinned, recorded>>,
         sock' \in {sock, None} \cup Foreign, sock \in Sockets,
         from # "record", to = "adopt" => ~pinned, to \in Claiming => pinned
  PROVE  Holds
<1>1. \A e \in Daemon : pc'[e] = pc[e] \/ (e = d /\ pc[d] = from /\ pc'[d] = to)
  BY DEF Step, IInv
<1>2. \A e \in Daemon : Onward(e)
  BY <1>1 DEF AdoptInv, Onward
<1>3. QED
  BY <1>2, RecordKept

\* A daemon's own step.
LEMMA DaemonHolds ==
  ASSUME IInv, AdoptInv, sock \in Sockets, foreignUp \subseteq Foreign, NEW d \in Daemon, DaemonStep(d)
  PROVE  Holds
<1> USE DEF files
<1>1. CASE Flock(d)
  BY <1>1, DeathHolds, MoveHolds DEF Flock, Claiming
<1>2. CASE Pin(d)
  BY <1>2, MoveHolds DEF Pin, Claiming, Step
<1>3. CASE Adopt(d)
  <2>1. pc[d] = "adopt" /\ pc' = [pc EXCEPT ![d] = "prepare"] /\ pinned' = TRUE /\ recorded' = Adopted /\ sock' = sock
    BY <1>3 DEF Adopt, Step, WritePin
  <2>2. Alive(d) /\ \A e \in Daemon : Alive(e) /\ pc[e] # "flock" => e = d
    BY <2>1, OneHolder DEF Alive, Starting
  <2>3. ~Running
    BY <2>1, NoneAccepts
  <2>4. recorded = None /\ recorded' = None
    BY <2>1, <2>3 DEF AdoptInv, Adopted
  <2>5. \A e \in Daemon : pc'[e] # "adopt" /\ (pc[e] = "record" => FALSE)
    <3>1. \A e \in Daemon \ {d} : pc'[e] = pc[e] /\ pc[e] \notin {"adopt", "record"}
      BY <2>1, <2>2 DEF IInv, Alive, Starting
    <3>2. pc'[d] = "prepare"
      BY <2>1 DEF IInv
    <3>3. QED
      BY <2>1, <3>1, <3>2
  <2>6. QED
    BY <2>1, <2>4, <2>5 DEF Holds, AdoptInv, Described
<1>4. CASE Prepare(d) \/ Probe(d) \/ Compare(d) \/ Unlink(d)
  <2>1. pc[d] \in Claiming => pinned
    BY DEF AdoptInv
  <2>2. CASE Prepare(d)
    BY <2>1, <2>2, MoveHolds DEF Prepare, Step, Claiming
  <2>3. CASE Probe(d)
    BY <2>1, <2>3, DeathHolds, MoveHolds DEF Probe, Step, Claiming
  <2>4. CASE Compare(d)
    BY <2>1, <2>4, MoveHolds DEF Compare, Step, Claiming
  <2>5. CASE Unlink(d)
    BY <2>1, <2>5, MoveHolds DEF Unlink, Step, Claiming
  <2>6. QED
    BY <1>4, <2>2, <2>3, <2>4, <2>5
<1>5. CASE Bind(d)
  <2>1. CASE Dies(d) /\ sock' = sock
    BY <1>5, <2>1, DeathHolds DEF Bind
  <2>2. CASE Step(d, "bind", "record") /\ sock' = d
    <3>1. UNCHANGED <<pinned, recorded>> /\ pc' = [pc EXCEPT ![d] = "record"]
      BY <1>5, <2>2 DEF Bind, Step
    <3>2. pc[d] = "bind" /\ pc'[d] = "record" /\ \A e \in Daemon : pc'[e] = pc[e] \/ e = d
      BY <2>2, <3>1 DEF IInv, Step
    <3>3. QED
      BY <2>2, <3>1, <3>2 DEF Holds, AdoptInv, Described, Claiming
  <2>3. QED
    BY <1>5, <2>1, <2>2 DEF Bind
<1>6. CASE RecordSocket(d)
  <2>1. CASE Step(d, "record", "publish") /\ recorded' = sock
    <3>1. pc[d] = "record" /\ pc' = [pc EXCEPT ![d] = "publish"] /\ sock' = sock /\ pinned' = pinned
      BY <1>6, <2>1 DEF RecordSocket, Step
    <3>2. \A e \in Daemon \ {d} : pc[e] # "adopt" /\ pc'[e] = pc[e]
      BY <3>1, OneHolder DEF Alive, Starting, IInv
    <3>3. pc'[d] = "publish" /\ pinned
      BY <3>1 DEF IInv, AdoptInv, Claiming
    <3>4. QED
      BY <2>1, <3>1, <3>2, <3>3 DEF Holds, AdoptInv, Described, Claiming
  <2>2. CASE Dies(d) /\ UNCHANGED recorded
    BY <1>6, <2>2, DeathHolds DEF RecordSocket
  <2>3. QED
    BY <1>6, <2>1, <2>2 DEF RecordSocket, NewRecord
<1>7. CASE Publish(d) \/ Arm(d) \/ Close(d) \/ Forget(d)
  BY <1>7, MoveHolds DEF Publish, Arm, Close, Forget, Claiming
<1>8. CASE Exit(d)
  BY <1>8, DeathHolds DEF Exit
<1>9. QED
  BY <1>1, <1>2, <1>3, <1>4, <1>5, <1>6, <1>7, <1>8 DEF DaemonStep

\* A process that is signalled dies or stays where it is.
LEMMA TerminateHolds ==
  ASSUME IInv, AdoptInv, NEW d \in Daemon, Terminate(d), UNCHANGED <<pinned, recorded, sock>>,
         sock \in Sockets
  PROVE  Holds
<1>1. CASE Dies(d)
  BY <1>1, DeathHolds
<1>2. CASE UNCHANGED pc
  <2>1. \A e \in Daemon : Onward(e)
    BY <1>2 DEF Onward, AdoptInv
  <2>2. QED
    BY <2>1, RecordKept
<1>3. QED
  BY <1>1, <1>2 DEF Terminate

\* The calls of start_daemon and stop_daemon.
LEMMA CallerHolds ==
  ASSUME IInv, AdoptInv, sock \in Sockets, foreignUp \subseteq Foreign, NEW c \in Caller,
         \/ Stop(c) \/ Signal(c) \/ Await(c) \/ Abandon(c)
         \/ c \in Starter /\ (StarterStep(c) \/ Reap(c))
  PROVE  Holds
<1> USE DEF files, daemons
<1>1. ASSUME UNCHANGED <<pinned, recorded, sock>>,
             \A e \in Daemon : pc'[e] = pc[e] \/ (pc'[e] \in {"flock", "dead"} /\ ~Alive(e))
      PROVE  Holds
  <2>1. \A e \in Daemon : Onward(e)
    BY <1>1 DEF Onward, AdoptInv, Alive, Starting, Claiming
  <2>2. QED
    BY <1>1, <2>1, RecordKept
<1>2. CASE Stop(c) \/ Await(c) \/ Acquire(c) \/ Inspect(c)
  BY <1>1, <1>2 DEF Stop, Await, Acquire, Inspect
<1>3. CASE Signal(c)
  <2>1. UNCHANGED <<pinned, recorded, sock>>
    BY <1>3 DEF Signal
  <2>2. CASE ProcessRunning /\ Terminate(metadata)
    <3>1. metadata \in Daemon
      BY <2>2 DEF ProcessRunning, IInv
    <3>2. QED
      BY <2>1, <2>2, <3>1, TerminateHolds
  <2>3. CASE UNCHANGED pc
    BY <1>1, <2>1, <2>3
  <2>4. QED
    BY <1>3, <2>2, <2>3 DEF Signal
<1>4. CASE c \in Starter /\ StarterPins(c)
  <2>1. CASE UNCHANGED files
    BY <1>1, <1>4, <2>1 DEF StarterPins
  <2>2. CASE at[c] = "adopt" /\ Goto(c, "inspect") /\ WritePin /\ UNCHANGED sock
    <3>1. PinsLate
      BY <1>4, <2>2 DEF PinsLate, Goto, IInv
    <3>2. pinned' /\ pc' = pc /\ \A d \in Daemon : pc[d] = "adopt" => recorded' = None
      BY <1>4, <2>2, NoneAccepts DEF StarterPins, WritePin, Adopted
    <3>3. QED
      BY <3>1, <3>2 DEF Holds, AdoptInv
  <2>3. QED
    BY <1>4, <2>1, <2>2 DEF StarterPins
<1>5. CASE c \in Starter /\ Spawn(c)
  <2>1. PICK d \in Daemon :
          /\ Forgotten(d)
          /\ pc' = [e \in Daemon |-> IF e = d THEN "flock"
                                     ELSE IF pc[e] = "zombie" /\ parent[e] = c THEN "dead" ELSE pc[e]]
    BY <1>5 DEF Spawn
  <2>2. \A e \in Daemon : pc'[e] = pc[e] \/ (pc'[e] \in {"flock", "dead"} /\ ~Alive(e))
    BY <2>1 DEF Forgotten, Alive, Starting, Stopping
  <2>3. QED
    BY <1>1, <1>5, <2>2 DEF Spawn
<1>6. CASE c \in Starter /\ (Poll(c) \/ Wait(c) \/ Reap(c))
  <2>1. \A e \in Daemon : pc'[e] = pc[e] \/ (pc'[e] \in {"flock", "dead"} /\ ~Alive(e))
    BY <1>6 DEF Poll, Wait, Reap, Alive, Starting, Stopping, IInv
  <2>2. UNCHANGED <<pinned, recorded, sock>>
    BY <1>6 DEF Poll, Wait, Reap
  <2>3. QED
    BY <1>1, <2>1, <2>2
<1>7. CASE c \in Starter /\ PollTimeout(c)
  <2>1. child[c] \in Daemon /\ Terminate(child[c])
    BY <1>7, ListenerAssumption DEF PollTimeout, IInv
  <2>2. QED
    BY <1>7, <2>1, TerminateHolds DEF PollTimeout
<1>8. CASE Abandon(c)
  <2>1. \A e \in Daemon : pc'[e] = pc[e] \/ (pc'[e] \in {"flock", "dead"} /\ ~Alive(e))
    BY <1>8 DEF Abandon, Alive, Starting, Stopping, IInv
  <2>2. QED
    BY <1>1, <1>8, <2>1 DEF Abandon
<1>9. QED
  BY <1>2, <1>3, <1>4, <1>5, <1>6, <1>7, <1>8 DEF StarterStep

\* Crashes, stalls, the serve command and programs outside the relay.
LEMMA OutsideHolds ==
  ASSUME IInv, AdoptInv, sock \in Sockets,
         \/ \E d \in Daemon : Crash(d) \/ Stall(d) \/ Serve(d)
         \/ \E f \in Foreign : ForeignBind(f) \/ ForeignExit(f)
         \/ Clear \/ UNCHANGED vars
  PROVE  Holds
<1> USE DEF files, daemons
<1>1. ASSUME NEW d \in Daemon, Crash(d) PROVE Holds
  BY <1>1, DeathHolds DEF Crash
<1>2. ASSUME NEW d \in Daemon, Serve(d) PROVE Holds
  <2>1. \A e \in Daemon : pc'[e] = pc[e] \/ (pc'[e] = "flock" /\ pc[e] = "dead")
    BY <1>2 DEF Serve, Forgotten, IInv
  <2>2. \A e \in Daemon : Onward(e)
    BY <2>1 DEF Onward, AdoptInv, Claiming
  <2>3. QED
    BY <1>2, <2>2, RecordKept DEF Serve
<1>3. ASSUME UNCHANGED <<pinned, recorded, pc>>, sock' \in {sock, None} \cup Foreign PROVE Holds
  <2>1. \A e \in Daemon : Onward(e)
    BY <1>3 DEF Onward, AdoptInv
  <2>2. QED
    BY <1>3, <2>1, RecordKept
<1>4. QED
  BY <1>1, <1>2, <1>3 DEF Stall, ForeignBind, ForeignExit, Clear, vars

\* The only ways to an undescribed socket: a daemon that dies before
\* record_socket, and a starter that comes late to its first pin_address.
THEOREM RecordStaysTrue == Spec => RecordHolds
<1> DEFINE F == IInv /\ AdoptInv /\ Ranges /\ Starters
<1>1. Init => F
  <2>1. Init => AdoptInv
    BY ListenerAssumption DEF Init, AdoptInv, Claiming
  <2>2. QED
    BY <2>1, IInvInit, RangesInit
<1>2. ASSUME F, [Next]_vars PROVE Holds
  <2>1. sock \in Sockets /\ foreignUp \subseteq Foreign
    BY <1>2 DEF Ranges
  <2>2. QED
    BY <1>2, <2>1, DaemonHolds, CallerHolds, OutsideHolds DEF Next, Caller
<1>3. F /\ [Next]_vars => F'
  BY <1>2, IInvStep, RangesStep, StartersStep DEF Holds
<1>4. F /\ [Next]_vars => [Described => Described' \/ DiesUnrecorded \/ PinsLate]_vars
  BY <1>2 DEF Holds
<1>5. QED
  BY <1>1, <1>3, <1>4, PTL DEF Spec, RecordHolds
=============================================================================

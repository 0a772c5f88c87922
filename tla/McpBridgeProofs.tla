---------------------------- MODULE McpBridgeProofs ----------------------------
(***************************************************************************)
(* Theorems about McpBridge, for any sessions, apps and servers, and any   *)
(* number of changes of the registry and of servers that reuse a pid.      *)
(***************************************************************************)
EXTENDS McpBridge, TLAPS

\* What the variables of the servers are functions of.
Servers ==
  /\ DOMAIN pc = Pid /\ DOMAIN row = Pid /\ DOMAIN tpc = Pid /\ DOMAIN claude = Pid
  /\ DOMAIN during = Pid /\ DOMAIN quiet = Pid /\ DOMAIN parent = Pid
  /\ DOMAIN file = Pid /\ life \in [Pid -> Nat]

(***************************************************************************)
(* A call follows the session.                                             *)
(***************************************************************************)

\* A call without the second thread beside it: what it resolved it keeps.
Followed(p) ==
  pc[p] \in InCall /\ quiet[p] =>
    /\ tpc[p] = "off"
    /\ claude_session(p) \in during[p]
    /\ pc[p] \in {"store", "send"} => row[p] \in during[p] \ {None}
    /\ pc[p] \in {"read", "write", "identity"} => claude[p] \in during[p] \ {None}

FInv == Servers /\ \A p \in Pid : Followed(p)

\* No server runs.
LEMMA FInvInit == Init => FInv
  BY BridgeAssumption DEF Init, FInv, Servers, Followed, InCall

\* A change of the registry enters what every call under way could resolve to.
LEMMA RegisterFollows == ASSUME FInv, NEW a \in App, Register(a) PROVE FInv'
<1>1. UNCHANGED <<life, parent, pc, row, tpc, claude, file, quiet>> /\ DOMAIN during' = Pid
  BY DEF Register, threads, shared
<1>2. ASSUME NEW p \in Pid, pc[p] \in InCall
      PROVE  claude_session(p)' \in during'[p] /\ during[p] \subseteq during'[p]
  BY <1>1, <1>2 DEF Register, claude_session, AncestorRow
<1>3. ASSUME NEW p \in Pid PROVE Followed(p)'
  BY <1>1, <1>2, <1>3 DEF FInv, Followed
<1>4. QED
  BY <1>1, <1>3 DEF FInv, Servers

\* Steps that leave the calls under way, their threads and the registry alone.
LEMMA OtherFollows ==
  ASSUME FInv, UNCHANGED <<serving, parent, pc, row, tpc, claude, during, quiet, life>>, DOMAIN file' = Pid
  PROVE  FInv'
  BY DEF FInv, Servers, Followed, claude_session

\* A server's step, seen from the other servers and from its own call: outside a
\* call, or on its way through one.
LEMMA OwnFollows ==
  ASSUME FInv, NEW p \in Pid, UNCHANGED serving, Servers',
         \A q \in Pid \ {p} : /\ parent'[q] = parent[q] /\ pc'[q] = pc[q] /\ row'[q] = row[q] /\ tpc'[q] = tpc[q]
                              /\ claude'[q] = claude[q] /\ during'[q] = during[q] /\ quiet'[q] = quiet[q],
         Followed(p)'
  PROVE  FInv'
<1>1. ASSUME NEW q \in Pid \ {p} PROVE Followed(q)'
  BY <1>1 DEF FInv, Followed, claude_session
<1>2. QED
  BY <1>1 DEF FInv

\* The main thread.
LEMMA MainFollows ==
  ASSUME FInv, NEW p \in Pid, Spawn(p) \/ Main(p) \/ Call(p) \/ Exit(p) \/ Leave(p) \/ Kill(p)
  PROVE  FInv'
<1> USE DEF FInv, Servers, Followed, Goto, Over, InCall, claude_session, threads, shared, history, controller
<1>1. CASE Spawn(p)
  BY <1>1, OwnFollows DEF Spawn
<1>2. CASE Look(p) \/ FirstWrite(p)
  BY <1>2, OwnFollows DEF Look, FirstWrite
<1>3. CASE Call(p)
  BY <1>3, OwnFollows DEF Call
<1>4. CASE Bind(p)
  BY <1>4, OwnFollows DEF Bind, Resolve
<1>5. CASE Unbound(p) \/ WriteFails(p) \/ Send(p) \/ Exit(p)
  BY <1>5, OwnFollows DEF Unbound, WriteFails, Send, Exit, Serving
<1>6. CASE Store(p)
  BY <1>6, OwnFollows DEF Store
<1>7. CASE Read(p) \/ Write(p)
  BY <1>7, OwnFollows DEF Read, Write
<1>8. CASE Identity(p)
  BY <1>8, OwnFollows DEF Identity
<1>9. CASE Unregister(p) \/ Forget(p)
  <2>1. pc'[p] \notin InCall
    <3>1. CASE Unregister(p)
      <4>1. AfterUnlink["unregister"] = "forget" /\ AfterUnlink["atexit"] = "forget again"
        BY DEF AfterUnlink
      <4>2. /\ pc[p] \in {"unregister", "atexit"}
            /\ pc' \in {[pc EXCEPT ![p] = to] : to \in {AfterUnlink[pc[p]], "done", "atexit"}}
        BY <3>1 DEF Unregister
      <4>3. QED
        BY <4>1, <4>2
    <3>2. CASE Forget(p)
      BY <3>2 DEF Forget
    <3>3. QED
      BY <1>9, <3>1, <3>2
  <2>2. QED
    BY <1>9, <2>1, OwnFollows DEF Unregister, Forget
<1>10. CASE Done(p) \/ Kill(p)
  BY <1>10, OwnFollows DEF Done, Kill, Gone, ThreadEnds
<1>11. QED
  BY <1>1, <1>2, <1>3, <1>4, <1>5, <1>6, <1>7, <1>8, <1>9, <1>10 DEF Main, Leave

\* The registration thread: while it runs, no call is quiet.
LEMMA ThreadFollows == ASSUME FInv, NEW p \in Pid, Thread(p) PROVE FInv'
<1>1. tpc[p] # "off" /\ UNCHANGED <<serving, life, parent, pc, row, history>> /\ Servers'
  <2>1. tpc[p] # "off" /\ UNCHANGED <<serving, life, parent, pc, row, history>>
    BY DEF Thread, TLoop, TResolve, TStore, TCheck, TRead, TWrite, TSet
  <2>2. DOMAIN tpc' = Pid /\ DOMAIN claude' = Pid /\ DOMAIN file' = Pid
    BY DEF Thread, TLoop, TResolve, TStore, TCheck, TRead, TWrite, TSet, FInv, Servers, shared
  <2>3. QED
    BY <2>1, <2>2 DEF FInv, Servers, history
<1>2. \A q \in Pid \ {p} : tpc'[q] = tpc[q] /\ claude'[q] = claude[q]
  BY DEF Thread, TLoop, TResolve, TStore, TCheck, TRead, TWrite, TSet, FInv, Servers, shared
<1>3. Followed(p)'
  BY <1>1 DEF FInv, Followed, history
<1>4. QED
  BY <1>1, <1>2, <1>3, OwnFollows DEF history

\* The invariant is inductive.
LEMMA FInvStep == FInv /\ [Next]_vars => FInv'
<1> SUFFICES ASSUME FInv, [Next]_vars PROVE FInv'
  OBVIOUS
<1>1. CASE UNCHANGED vars
  BY <1>1, OtherFollows DEF vars, threads, shared, history, FInv, Servers
<1>2. CASE Ask \/ Unreadable \/ Check
  BY <1>2, OtherFollows DEF Ask, Unreadable, Check, ReadFile, Probe, Unlink, Judge, server, threads, history, FInv,
     Servers
<1>3. CASE \E a \in App : Register(a)
  BY <1>3, RegisterFollows
<1>4. CASE \E p \in Pid : Spawn(p) \/ Main(p) \/ Call(p) \/ Exit(p) \/ Leave(p) \/ Kill(p)
  BY <1>4, MainFollows
<1>5. CASE \E p \in Pid : Thread(p)
  BY <1>5, ThreadFollows
<1>6. QED
  BY <1>1, <1>2, <1>3, <1>4, <1>5 DEF Next

\* FInv holds in every behaviour.
LEMMA FInvAlways == Spec => []FInv
  BY FInvInit, FInvStep, PTL DEF Spec

\* Whatever sessions the apps move to during a call, a message is queued as one
\* that the server's ancestors served in it, once the second thread is done.
THEOREM CallFollows == Spec => []FollowsOnceQuiet
<1>1. FInv => FollowsOnceQuiet
  BY DEF FInv, Followed, FollowsOnceQuiet, InCall
<1>2. QED
  BY <1>1, FInvAlways, PTL

(***************************************************************************)
(* A running server stays registered.                                      *)
(***************************************************************************)

Known == Session \cup {None}

\* What may be written to a file: only sessions that the registry gave.
Sessions ==
  /\ serving \in [App -> Known]
  /\ claude \in [Pid -> Known] /\ row \in [Pid -> Known] /\ trow \in [Pid -> Known]
  /\ \A p \in Pid : (Running(p) => parent[p] \in App) /\ (tpc[p] # "off" => Running(p))

\* The server that wrote a file, or whose file a controller has read, was started.
Started(start, p) == start \in Nat /\ 1 <= start /\ start <= life[p]
Starts ==
  /\ \A p \in Pid : Running(p) => 1 <= life[p]
  /\ \A p \in Pid : file[p] # None => Started(file[p].start, p)
  /\ kpc \in {"probe", "unlink"} => kread.pid \in Pid /\ Started(kread.start, kread.pid)

\* A file is about to be removed only when the server that wrote it is gone.
UnlinkGone == kpc = "unlink" => ~Alive(kread)

KInv == Servers /\ Sessions /\ Starts /\ UnlinkGone /\ KeptWhileRunning

\* No server runs and nothing is registered.
LEMMA KInvInit == Init => KInv
  BY BridgeAssumption DEF Init, KInv, Servers, Sessions, Known, Starts, UnlinkGone, KeptWhileRunning, Running, Serving,
     InCall

\* The registration that a running server writes.
LEMMA Registered ==
  ASSUME KInv, NEW p \in Pid, Running(p), NEW s \in Known
  PROVE  /\ Registration(p, s) # None /\ Registration(p, s).start = life[p] /\ life[p] \in Nat /\ 1 <= life[p]
<1>1. life[p] \in Nat /\ 1 <= life[p]
  BY DEF KInv, Servers, Starts
<1>2. Registration(p, s) \in [start : Nat, session : Known]
  BY <1>1 DEF Registration
<1>3. QED
  BY <1>1, <1>2, BridgeAssumption DEF Registration, Known

\* A server may be started, run, write its file while it runs, remove it when it
\* does not serve any more, and end.
LEMMA ServerKeeps ==
  ASSUME KInv, NEW p \in Pid, Servers', Sessions', UNCHANGED <<kpc, kread>>,
         \A q \in Pid \ {p} : pc'[q] = pc[q] /\ life'[q] = life[q] /\ file'[q] = file[q],
         \/ life'[p] = life[p] /\ (Running(p)' => Running(p))
         \/ life'[p] = life[p] + 1 /\ ~Running(p) /\ pc'[p] = "start" /\ file'[p] = file[p],
         \/ file'[p] = file[p] /\ (pc'[p] \in Serving => pc[p] \in Serving)
         \/ file'[p] = None /\ pc'[p] \notin Serving
         \/ Running(p) /\ life'[p] = life[p] /\ \E s \in Known : file'[p] = Registration(p, s)
  PROVE  KInv'
<1> USE DEF KInv, Running, Started
<1>1. life[p] \in Nat /\ life'[p] \in Nat
  BY DEF Servers
<1>2. \A s \in Known : Running(p) =>
        Registration(p, s) # None /\ Registration(p, s).start = life[p] /\ 1 <= life[p]
  BY Registered
<1>3. ASSUME NEW q \in Pid PROVE /\ Running(q)' => 1 <= life'[q]
                                 /\ file'[q] # None => Started(file[q].start, q)'
  <2>1. CASE q # p
    BY <1>3, <2>1 DEF Starts
  <2>2. CASE q = p
    BY <1>1, <1>2, <2>2 DEF Starts
  <2>3. QED
    BY <2>1, <2>2
<1>4. kpc \in {"probe", "unlink"} =>
        kread.pid \in Pid /\ kread.start \in Nat /\ 1 <= kread.start /\ kread.start <= life'[kread.pid]
  BY <1>1 DEF Starts, Servers
<1>5. UnlinkGone'
  BY <1>1, <1>4 DEF UnlinkGone, Alive, Starts, Servers
<1>6. ASSUME NEW q \in Pid, pc'[q] \in Serving, life'[q] = 1
      PROVE  file'[q] # None /\ file'[q].start = 1
  <2>1. CASE q # p
    BY <1>6, <2>1 DEF KeptWhileRunning
  <2>2. CASE q = p
    <3>1. "start" \notin Serving
      BY DEF Serving, InCall
    <3>2. QED
      BY <1>1, <1>2, <1>6, <2>2, <3>1 DEF KeptWhileRunning
  <2>3. QED
    BY <2>1, <2>2
<1>7. QED
  BY <1>3, <1>4, <1>5, <1>6 DEF Starts, KeptWhileRunning

\* Steps of no server: a change of the registry, a controller's answer.
LEMMA ElseKeeps ==
  ASSUME KInv, Servers', Sessions', UNCHANGED <<life, pc, file>>,
         kpc' \in {"probe", "unlink"} => kread'.pid \in Pid /\ Started(kread'.start, kread'.pid),
         kpc' = "unlink" => ~(Running(kread'.pid) /\ life[kread'.pid] = kread'.start)
  PROVE  KInv'
  BY DEF KInv, Starts, Started, UnlinkGone, Alive, KeptWhileRunning, Running

\* Resolving gives a session of the registry or none.
LEMMA SessionKnown == ASSUME KInv, NEW p \in Pid, Running(p) PROVE claude_session(p) \in Known
  BY BridgeAssumption DEF KInv, Sessions, claude_session, AncestorRow

\* A change of the registry moves no server and no file.
LEMMA RegisterKeeps == ASSUME KInv, NEW a \in App, Register(a) PROVE KInv'
<1>1. UNCHANGED <<life, pc, file, kpc, kread, parent, row, tpc, trow, claude, quiet>>
  BY DEF Register, threads, shared, controller
<1>2. DOMAIN during' = Pid /\ serving' \in [App -> Known]
  BY DEF Register, KInv, Sessions, Known
<1>3. Servers' /\ Sessions'
  BY <1>1, <1>2 DEF KInv, Servers, Sessions, Running
<1>4. QED
  BY <1>1, <1>3, ElseKeeps DEF KInv, Starts, UnlinkGone, Alive

\* The main thread.
LEMMA MainKeeps ==
  ASSUME KInv, NEW p \in Pid, Spawn(p) \/ Main(p) \/ Call(p) \/ Exit(p) \/ Leave(p) \/ Kill(p)
  PROVE  KInv'
<1> USE DEF Goto, Over, threads, shared, history, controller
<1>1. claude_session(p) \in Known \/ ~Running(p)
  BY SessionKnown
<1>2. None \in Known /\ claude[p] \in Known /\ row[p] \in Known
  BY DEF Known, KInv, Sessions
<1>3. CASE Spawn(p)
  <2>1. Servers' /\ Sessions'
    BY <1>3 DEF Spawn, KInv, Servers, Sessions, Running
  <2>2. /\ life'[p] = life[p] + 1 /\ ~Running(p) /\ pc'[p] = "start" /\ file' = file
        /\ \A q \in Pid \ {p} : pc'[q] = pc[q] /\ life'[q] = life[q]
    BY <1>3 DEF Spawn, KInv, Servers, Running
  <2>3. "start" \notin Serving
    BY DEF Serving, InCall
  <2>4. UNCHANGED <<kpc, kread>>
    BY <1>3 DEF Spawn
  <2>5. QED
    BY <2>1, <2>2, <2>3, <2>4, ServerKeeps
<1>4. CASE Look(p)
  <2>1. Servers' /\ Sessions'
    BY <1>1, <1>4 DEF Look, KInv, Servers, Sessions, Running
  <2>2. QED
    BY <1>4, <2>1, ServerKeeps DEF Look, KInv, Servers, Running, Serving, InCall
<1>5. CASE FirstWrite(p)
  <2>1. Servers' /\ Sessions'
    BY <1>5 DEF FirstWrite, KInv, Servers, Sessions, Running
  <2>2. QED
    BY <1>2, <1>5, <2>1, ServerKeeps DEF FirstWrite, KInv, Servers, Running
<1>6. CASE Call(p) \/ Unbound(p) \/ WriteFails(p) \/ Send(p) \/ Exit(p)
  <2>1. Servers' /\ Sessions'
    BY <1>2, <1>6 DEF Call, Unbound, WriteFails, Send, Exit, KInv, Servers, Sessions, Running, Serving, InCall
  <2>2. QED
    BY <1>6, <2>1, ServerKeeps DEF Call, Unbound, WriteFails, Send, Exit, KInv, Servers, Running, Serving, InCall
<1>7. CASE Bind(p) \/ Store(p) \/ Read(p) \/ Identity(p)
  <2>1. Servers' /\ Sessions'
    BY <1>1, <1>2, <1>7 DEF Bind, Store, Read, Identity, Resolve, KInv, Servers, Sessions, Running
  <2>2. QED
    BY <1>7, <2>1, ServerKeeps DEF Bind, Store, Read, Identity, KInv, Servers, Running, Serving, InCall
<1>8. CASE Write(p)
  <2>1. Servers' /\ Sessions'
    BY <1>2, <1>8 DEF Write, KInv, Servers, Sessions, Running
  <2>2. QED
    BY <1>2, <1>8, <2>1, ServerKeeps DEF Write, KInv, Servers, Running
<1>9. CASE Unregister(p)
  <2>1. AfterUnlink["unregister"] = "forget" /\ AfterUnlink["atexit"] = "forget again"
    BY DEF AfterUnlink
  <2>2. pc'[p] \in {"forget", "forget again", "done", "atexit"} /\ Running(p)
    BY <1>9, <2>1 DEF Unregister, KInv, Servers, Running
  <2>3. Servers' /\ Sessions'
    BY <1>9, <2>2 DEF Unregister, KInv, Servers, Sessions, Running
  <2>4. QED
    BY <1>9, <2>2, <2>3, ServerKeeps DEF Unregister, KInv, Servers, Serving, InCall
<1>10. CASE Forget(p)
  <2>1. Servers' /\ Sessions'
    BY <1>10 DEF Forget, KInv, Servers, Sessions, Running
  <2>2. QED
    BY <1>10, <2>1, ServerKeeps DEF Forget, KInv, Servers, Running, Serving, InCall
<1>11. CASE Done(p) \/ Kill(p)
  <2>1. Servers' /\ Sessions'
    BY <1>2, <1>11 DEF Done, Kill, Gone, ThreadEnds, KInv, Servers, Sessions, Running
  <2>2. QED
    BY <1>11, <2>1, ServerKeeps DEF Done, Kill, Gone, KInv, Servers, Running, Serving, InCall
<1>12. QED
  BY <1>3, <1>4, <1>5, <1>6, <1>7, <1>8, <1>9, <1>10, <1>11 DEF Main, Leave

\* The registration thread writes while its server runs.
LEMMA ThreadKeeps == ASSUME KInv, NEW p \in Pid, Thread(p) PROVE KInv'
<1>1. tpc[p] # "off" /\ UNCHANGED <<serving, life, parent, pc, row, history, controller>>
  BY DEF Thread, TLoop, TResolve, TStore, TCheck, TRead, TWrite, TSet
<1>2. Running(p) /\ claude_session(p) \in Known
  BY <1>1, SessionKnown DEF KInv, Sessions
<1>3. DOMAIN tpc' = Pid /\ (\A q \in Pid \ {p} : tpc'[q] = tpc[q])
  BY DEF Thread, TLoop, TResolve, TStore, TCheck, TRead, TWrite, TSet, KInv, Servers
<1>4. claude' \in [Pid -> Known] /\ trow' \in [Pid -> Known]
  BY <1>2 DEF Thread, TLoop, TResolve, TStore, TCheck, TRead, TWrite, TSet, KInv, Sessions, shared, Known
<1>5. file' = file \/ file' = [file EXCEPT ![p] = Registration(p, trow[p])]
  BY DEF Thread, TLoop, TResolve, TStore, TCheck, TRead, TWrite, TSet, shared
<1>6. Servers' /\ Sessions'
  BY <1>1, <1>2, <1>3, <1>4, <1>5 DEF KInv, Servers, Sessions, Running, history
<1>7. trow[p] \in Known /\ (\A q \in Pid \ {p} : file'[q] = file[q])
  <2>1. trow[p] \in Known
    BY DEF KInv, Sessions
  <2>2. \A q \in Pid \ {p} : file'[q] = file[q]
    BY <1>5 DEF KInv, Servers
  <2>3. QED
    BY <2>1, <2>2
<1>8. QED
  BY <1>1, <1>2, <1>5, <1>6, <1>7, ServerKeeps DEF KInv, Servers, Running, controller

\* A controller removes only what a server that is gone has written.
LEMMA CheckKeeps == ASSUME KInv, Ask \/ Unreadable \/ Check PROVE KInv'
<1>1. Servers' /\ Sessions'
  BY DEF Ask, Unreadable, Check, ReadFile, Probe, Unlink, Judge, server, threads, history, KInv, Servers, Sessions,
     Running
<1>2. UNCHANGED <<life, pc>>
  BY DEF Ask, Unreadable, Check, ReadFile, Probe, Unlink, Judge, server, threads
<1>3. CASE Ask \/ Judge
  BY <1>1, <1>2, <1>3, ElseKeeps DEF Ask, Judge
<1>4. CASE \E p \in Pid : ReadFile(p)
  BY <1>1, <1>2, <1>4, ElseKeeps DEF ReadFile, KInv, Starts, Started
<1>5. CASE Probe \/ Unreadable
  BY <1>1, <1>2, <1>5, ElseKeeps DEF Probe, Unreadable, AsUnknown, KInv, Starts, Alive
<1>6. CASE Unlink
  <2>1. /\ kread.pid \in Pid /\ Started(kread.start, kread.pid) /\ ~Alive(kread) /\ kpc' = "next"
        /\ file' = [file EXCEPT ![kread.pid] = None]
    BY <1>6 DEF Unlink, KInv, Starts, UnlinkGone
  <2>2. Starts'
    BY <1>2, <2>1 DEF KInv, Servers, Starts, Started, Running
  <2>3. ~(pc[kread.pid] \in Serving /\ life[kread.pid] = 1)
    BY <2>1 DEF Alive, Started, Running, Serving, InCall, KInv, Starts, Servers
  <2>4. KeptWhileRunning'
    BY <1>2, <2>1, <2>3 DEF KInv, Servers, KeptWhileRunning
  <2>5. QED
    BY <1>1, <2>1, <2>2, <2>4 DEF KInv, UnlinkGone
<1>7. QED
  BY <1>3, <1>4, <1>5, <1>6 DEF Check

\* The invariant is inductive.
LEMMA KInvStep == KInv /\ [Next]_vars => KInv'
<1> SUFFICES ASSUME KInv, [Next]_vars PROVE KInv'
  OBVIOUS
<1>1. CASE UNCHANGED vars
  BY <1>1 DEF vars, threads, shared, history, controller, KInv, Servers, Sessions, Starts, Started, UnlinkGone, Alive,
     KeptWhileRunning, Running
<1>2. CASE Next
  BY <1>2, RegisterKeeps, MainKeeps, ThreadKeeps, CheckKeeps DEF Next
<1>3. QED
  BY <1>1, <1>2

\* KInv holds in every behaviour.
LEMMA KInvAlways == Spec => []KInv
  BY KInvInit, KInvStep, PTL DEF Spec

\* Whatever controllers clean up meanwhile, and however often, the first server of
\* a pid keeps its registration for as long as it serves.
THEOREM ServerStaysRegistered == Spec => []KeptWhileRunning
<1>1. KInv => KeptWhileRunning
  BY DEF KInv
<1>2. QED
  BY <1>1, KInvAlways, PTL

(***************************************************************************)
(* Ranges.                                                                 *)
(***************************************************************************)

\* What an app's child resolves to is a session or nothing.
LEMMA Resolved ==
  ASSUME TypeOK, NEW p \in Pid, parent[p] # None PROVE claude_session(p) \in Session \cup {None}
  BY BridgeAssumption DEF TypeOK, claude_session, AncestorRow

\* One more of the outside's moves.
LEMMA OneMove == ASSUME moves \in 0..MaxMoves, moves < MaxMoves, moves' = moves + 1 PROVE moves' \in 0..MaxMoves
  BY BridgeAssumption

\* A server that runs has a parent and has been started; a controller that probes
\* a file has read it.
Linked ==
  /\ \A p \in Pid : Running(p) => parent[p] # None /\ life[p] # 0
  /\ kpc \in {"probe", "unlink"} => kread \in [pid : Pid, start : Nat \ {0}]

\* Nothing changes but the registry.
LEMMA RegisterTypes == ASSUME TypeOK, Linked, NEW a \in App, Register(a) PROVE TypeOK' /\ Linked'
<1>1. serving' \in [App -> Session \cup {None}] /\ moves' \in 0..MaxMoves
  <2>1. serving' \in [App -> Session \cup {None}]
    BY DEF Register, TypeOK
  <2>2. QED
    BY <2>1, OneMove DEF Register, TypeOK
<1>2. \A p \in Pid : pc[p] \in InCall => AncestorRow(serving', parent[p]) \in Session \cup {None}
  BY <1>1, BridgeAssumption DEF Linked, Running, InCall, AncestorRow, TypeOK
<1>3. during' \in [Pid -> SUBSET (Session \cup {None})]
  BY <1>2 DEF Register, TypeOK
<1>4. QED
  BY <1>1, <1>3 DEF Register, TypeOK, Linked, Running, threads, shared, controller

\* A call that ends holds nothing.
LEMMA OverTypes ==
  ASSUME TypeOK, NEW p \in Pid, Over(p)
  PROVE  /\ row' \in [Pid -> Session \cup {None}] /\ quiet' \in [Pid -> BOOLEAN]
         /\ during' \in [Pid -> SUBSET (Session \cup {None})]
  BY DEF Over, TypeOK

\* The main thread.
LEMMA MainTypes ==
  ASSUME TypeOK, Linked, NEW p \in Pid, Spawn(p) \/ Main(p) \/ Call(p) \/ Exit(p) \/ Leave(p) \/ Kill(p)
  PROVE  TypeOK' /\ Linked'
<1>0. Running(p) => claude_session(p) \in Session \cup {None} /\ life[p] \in Nat \ {0}
  <2>1. life[p] \in Nat /\ (Running(p) => parent[p] # None /\ life[p] # 0)
    BY BridgeAssumption DEF TypeOK, Linked
  <2>2. QED
    BY <2>1, Resolved
<1> USE DEF Linked, Running, Goto, threads, shared, history, controller
<1>1. CASE Spawn(p)
  <2>1. life[p] \in Nat /\ None \notin App
    BY <1>1, BridgeAssumption DEF Spawn, TypeOK
  <2>2. life[p] + 1 \in Nat /\ life[p] + 1 # 0
    BY <2>1
  <2>3. life' \in [Pid -> Nat] /\ life'[p] # 0 /\ \A q \in Pid \ {p} : life'[q] = life[q]
    BY <1>1, <2>2 DEF Spawn, TypeOK
  <2>4. /\ parent' \in [Pid -> App \cup {None}] /\ parent'[p] # None
        /\ \A q \in Pid \ {p} : parent'[q] = parent[q]
    <3>1. PICK a \in App : parent' = [parent EXCEPT ![p] = a]
      BY <1>1 DEF Spawn
    <3>2. parent \in [Pid -> App \cup {None}] /\ a # None
      BY <2>1 DEF TypeOK
    <3>3. QED
      BY <3>1, <3>2
  <2>5. QED
    BY <1>1, <2>3, <2>4 DEF Spawn, TypeOK
<1>2. CASE Look(p)
  BY <1>0, <1>2 DEF TypeOK, Look
<1>3. CASE FirstWrite(p)
  BY <1>0, <1>3 DEF TypeOK, FirstWrite, Registration, Files, Serving
<1>4. CASE Call(p)
  BY <1>0, <1>4 DEF TypeOK, Call, Serving, InCall
<1>5. CASE Bind(p)
  BY <1>0, <1>5 DEF TypeOK, Bind, Resolve, Serving, InCall
<1>6. CASE Unbound(p) \/ WriteFails(p) \/ Send(p) \/ Exit(p)
  <2>1. Over(p) /\ pc[p] # "none" /\ (Goto(p, "ready") \/ Goto(p, "unregister"))
        /\ UNCHANGED <<serving, moves, life, parent, tpc, trow, shared, controller>>
    BY <1>6 DEF Unbound, WriteFails, Send, Exit, Serving, InCall
  <2>2. pc' \in [Pid -> Serving \cup {"none", "start", "first", "unregister", "forget", "atexit", "forget again", "done"}]
        /\ pc'[p] # "none" /\ \A q \in Pid \ {p} : pc'[q] = pc[q]
    BY <2>1 DEF TypeOK, Serving
  <2>3. QED
    BY <2>1, <2>2, OverTypes DEF TypeOK
<1>7. CASE Store(p)
  BY <1>7 DEF TypeOK, Store, Serving, InCall
<1>8. CASE Read(p)
  BY <1>8 DEF TypeOK, Read, Serving, InCall
<1>9. CASE Identity(p)
  BY <1>9 DEF TypeOK, Identity, Serving, InCall
<1>10. CASE Write(p)
  BY <1>0, <1>10 DEF TypeOK, Write, Registration, Files, Serving, InCall
<1>11. CASE Unregister(p)
  <2>1. AfterUnlink["unregister"] = "forget" /\ AfterUnlink["atexit"] = "forget again"
    BY DEF AfterUnlink
  <2>2. \E to \in {"forget", "forget again", "done", "atexit"} : pc' = [pc EXCEPT ![p] = to]
    BY <1>11, <2>1 DEF Unregister
  <2>3. file' \in [Pid -> Files]
    BY <1>11 DEF Unregister, TypeOK, Files
  <2>4. pc[p] # "none" /\ UNCHANGED <<serving, moves, life, parent, row, tpc, trow, claude, registered, history, controller>>
    BY <1>11 DEF Unregister
  <2>5. pc' \in [Pid -> Serving \cup {"none", "start", "first", "unregister", "forget", "atexit", "forget again", "done"}]
        /\ pc'[p] # "none" /\ \A q \in Pid \ {p} : pc'[q] = pc[q]
    <3>1. PICK to \in {"forget", "forget again", "done", "atexit"} : pc' = [pc EXCEPT ![p] = to]
      BY <2>2
    <3>2. p \in DOMAIN pc /\ to # "none"
      BY DEF TypeOK
    <3>3. QED
      BY <3>1, <3>2 DEF TypeOK
  <2>6. QED
    BY <2>3, <2>4, <2>5 DEF TypeOK
<1>12. CASE Forget(p)
  BY <1>12 DEF TypeOK, Forget
<1>13. CASE Done(p) \/ Kill(p)
  <2>1. Gone(p) /\ Over(p)
    BY <1>13 DEF Done, Kill, Gone
  <2>2. QED
    BY <2>1, OverTypes DEF Gone, ThreadEnds, TypeOK
<1>14. QED
  BY <1>1, <1>2, <1>3, <1>4, <1>5, <1>6, <1>7, <1>8, <1>9, <1>10, <1>11, <1>12, <1>13 DEF Main, Leave

\* The registration thread.
LEMMA ThreadTypes == ASSUME TypeOK, Linked, NEW p \in Pid, Thread(p) PROVE TypeOK' /\ Linked'
<1>0. tpc[p] # "off" => claude_session(p) \in Session \cup {None} /\ life[p] \in Nat \ {0}
  <2>1. life[p] \in Nat /\ (tpc[p] # "off" => parent[p] # None /\ life[p] # 0)
    BY BridgeAssumption DEF TypeOK, Linked
  <2>2. QED
    BY <2>1, Resolved
<1> USE DEF TypeOK, Linked, Running, threads, shared, history, controller
<1>1. CASE TLoop(p)
  BY <1>1 DEF TLoop
<1>2. CASE TCheck(p)
  BY <1>2 DEF TCheck
<1>3. CASE TSet(p)
  BY <1>3 DEF TSet
<1>4. CASE TResolve(p)
  BY <1>0, <1>4 DEF TResolve
<1>5. CASE TStore(p) \/ TRead(p)
  BY <1>5 DEF TStore, TRead
<1>6. CASE TWrite(p)
  BY <1>0, <1>6 DEF TWrite, Registration, Files
<1>7. QED
  BY <1>1, <1>2, <1>3, <1>4, <1>5, <1>6 DEF Thread

\* A controller that looks for the servers of a session.
LEMMA CheckTypes == ASSUME TypeOK, Linked, Ask \/ Unreadable \/ Check PROVE TypeOK' /\ Linked'
<1> USE BridgeAssumption DEF TypeOK, Linked, Running, server, threads, history
<1>1. CASE Ask
  BY <1>1 DEF Ask, Listing
<1>2. ASSUME NEW p \in Pid, ReadFile(p) PROVE TypeOK' /\ Linked'
  <2>1. file[p] = None \/ file[p].start \in Nat \ {0}
    BY DEF Files
  <2>2. CASE file[p] = None
    BY <1>2, <2>2 DEF ReadFile
  <2>3. CASE file[p] # None
    <3>1. [pid |-> p, start |-> file[p].start] \in [pid : Pid, start : Nat \ {0}]
      BY <2>1, <2>3
    <3>2. kread' \in [pid : Pid, start : Nat \ {0}] /\ kpc' = "probe" /\ kleft' \subseteq Pid
      BY <1>2, <2>3, <3>1 DEF ReadFile
    <3>3. UNCHANGED <<server, moves, file, kkey, klive, ready>>
      BY <1>2 DEF ReadFile
    <3>4. QED
      BY <3>2, <3>3
  <2>4. QED
    BY <2>2, <2>3
<1>3. CASE Probe
  <2>1. kread.pid \in Pid
    BY <1>3 DEF Probe
  <2>2. QED
    BY <1>3, <2>1 DEF Probe
<1>4. CASE Unreadable
  <2>1. moves' \in 0..MaxMoves
    BY <1>4, OneMove DEF Unreadable
  <2>2. QED
    BY <1>4, <2>1 DEF Unreadable, AsUnknown
<1>5. CASE Unlink
  BY <1>5 DEF Unlink, Files
<1>6. CASE Judge
  BY <1>6 DEF Judge, Judged
<1>7. QED
  BY <1>1, <1>2, <1>3, <1>4, <1>5, <1>6 DEF Check

\* Every variable keeps its range, and a thread ends with its server.
THEOREM TypeCorrect == Spec => []TypeOK
<1>1. Init => TypeOK /\ Linked
  <2>1. 0 \in 0..MaxMoves /\ 0 \in Nat
    BY BridgeAssumption
  <2>2. ASSUME Init PROVE Linked
    BY <2>2 DEF Init, Linked, Running
  <2>3. ASSUME Init
        PROVE  /\ serving \in [App -> Session \cup {None}] /\ parent \in [Pid -> App \cup {None}]
               /\ row \in [Pid -> Session \cup {None}] /\ trow \in [Pid -> Session \cup {None}]
               /\ claude \in [Pid -> Session \cup {None}] /\ file \in [Pid -> Files]
               /\ during \in [Pid -> SUBSET (Session \cup {None})] /\ quiet \in [Pid -> BOOLEAN]
    BY <2>3 DEF Init, Files
  <2>4. ASSUME Init
        PROVE  /\ pc \in [Pid -> {"none"}] /\ tpc \in [Pid -> {"off"}] /\ life \in [Pid -> Nat]
               /\ moves \in 0..MaxMoves /\ registered \in [Pid -> BOOLEAN] /\ \A p \in Pid : tpc[p] = "off"
    BY <2>1, <2>4 DEF Init
  <2>5. ASSUME Init PROVE TypeOK
    BY <2>3, <2>4, <2>5 DEF Init, TypeOK
  <2>6. QED
    BY <2>2, <2>5
<1>2. TypeOK /\ Linked /\ [Next]_vars => TypeOK' /\ Linked'
  <2>1. CASE UNCHANGED vars
    BY <2>1 DEF vars, threads, shared, history, controller, TypeOK, Linked, Running
  <2>2. QED
    BY <2>1, RegisterTypes, MainTypes, ThreadTypes, CheckTypes DEF Next
<1>3. QED
  BY <1>1, <1>2, PTL DEF Spec

(***************************************************************************)
(* A question about a session.                                             *)
(***************************************************************************)

\* One step of a question, seen from one server that goes on serving.
Heeded(p) ==
  \/ p \in Considered'
  \/ kpc = "probe" /\ moves' # moves
  \/ kpc' = "answered" /\ (claude_session(p) = kkey => ready')

\* A server that serves is found by its file and its start time.
LEMMA CheckHeeds ==
  ASSUME KInv, TypeOK, Ask \/ Unreadable \/ Check, NEW p \in Pid, Listed \/ p \in Considered, Serves(p)
  PROVE  Heeded(p)
<1>1. Running(p) /\ life[p] = 1 /\ pc[p] \in Serving /\ file[p] # None
  BY DEF KInv, KeptWhileRunning, Serves, Serving, InCall, Running
<1>2. CASE Ask
  <2>1. p \in kleft'
    BY <1>1, <1>2 DEF Ask, Listing
  <2>2. QED
    BY <2>1 DEF Heeded, Considered
<1>3. ~Ask => ~Listed /\ p \in Considered
  <2>1. Unreadable \/ Check => ~Listed
    BY DEF Listed, Unreadable, Check, ReadFile, Probe, Unlink, Judge
  <2>2. QED
    BY <2>1
<1>4. ASSUME NEW q \in Pid, ReadFile(q) PROVE Heeded(p)
  <2>1. kpc = "next" /\ p \in kleft \cup klive /\ kleft' = kleft \ {q} /\ klive' = klive
    BY <1>4, <1>3 DEF ReadFile, Considered, Ask
  <2>2. CASE p = q
    <3>1. kpc' = "probe" /\ kread'.pid = p
      BY <1>1, <1>4, <2>2 DEF ReadFile
    <3>2. QED
      BY <3>1 DEF Heeded, Considered
  <2>3. CASE p # q
    BY <2>1, <2>3 DEF Heeded, Considered
  <2>4. QED
    BY <2>2, <2>3
<1>5. CASE Probe
  <2>1. CASE p = kread.pid
    <3>1. Alive(kread)
      BY <1>1, <1>5, <2>1 DEF Probe, Alive, KInv, Starts, Started
    <3>2. QED
      BY <1>5, <2>1, <3>1 DEF Probe, Heeded, Considered, Ask
  <2>2. CASE p # kread.pid
    BY <1>5, <1>3, <2>2 DEF Probe, Heeded, Considered, Ask
  <2>3. QED
    BY <2>1, <2>2
<1>6. CASE Unreadable
  <2>0. moves \in 0..MaxMoves
    BY DEF TypeOK
  <2>1. moves \in Nat
    BY <2>0, BridgeAssumption
  <2>2. QED
    BY <1>6, <2>1 DEF Unreadable, Heeded
<1>7. CASE Unlink
  BY <1>7, <1>3 DEF Unlink, Heeded, Considered, Ask
<1>8. CASE Judge
  <2>1. p \in klive /\ kpc' = "answered" /\ ready' = Judged
    BY <1>8, <1>3 DEF Judge, Considered, Ask
  <2>2. claude_session(p) = kkey => Judged
    BY <1>1, <2>1 DEF Judged
  <2>3. QED
    BY <2>1, <2>2 DEF Heeded
<1>9. QED
  BY <1>2, <1>4, <1>5, <1>6, <1>7, <1>8 DEF Check

\* Whatever starts, ends, registers and is cleaned up between its steps, a
\* controller's preflight lists every server that serves by then, passes over none
\* while it serves, and answers yes if one of them is of the session in the end.
THEOREM NobodyOverlooked == Spec => NoneOverlooked
<1>1. ASSUME KInv, TypeOK, [Next]_vars, NEW p \in Pid, Listed \/ p \in Considered, Serves(p)
      PROVE  Heeded(p)
  <2>1. CASE Ask \/ Unreadable \/ Check
    BY <1>1, <2>1, CheckHeeds
  <2>2. CASE UNCHANGED controller
    BY <1>1, <2>2 DEF controller, Heeded, Considered, Listed
  <2>3. ASSUME \/ \E a \in App : Register(a)
               \/ \E q \in Pid : Spawn(q) \/ Main(q) \/ Call(q) \/ Exit(q) \/ Leave(q) \/ Kill(q) \/ Thread(q)
               \/ UNCHANGED vars
        PROVE  UNCHANGED controller
    BY <2>3 DEF Register, Spawn, Main, Look, FirstWrite, Bind, Unbound, WriteFails, Store, Read, Write, Identity, Send,
       Call, Exit, Leave, Unregister, Forget, Done, Kill, Gone, Thread, TLoop, TResolve, TStore, TCheck, TRead, TWrite,
       TSet, vars
  <2>4. QED
    BY <1>1, <2>1, <2>2, <2>3 DEF Next
<1>2. KInv /\ TypeOK /\ [Next]_vars =>
        [\A p \in Pid : (Listed \/ p \in Considered) /\ Serves(p) /\ Serves(p)' =>
           \/ p \in Considered'
           \/ kpc = "probe" /\ moves' # moves
           \/ kpc' = "answered" /\ (claude_session(p) = kkey => ready')]_vars
  BY <1>1 DEF Heeded
<1>3. QED
  BY <1>2, KInvAlways, TypeCorrect, PTL DEF Spec, NoneOverlooked
=============================================================================

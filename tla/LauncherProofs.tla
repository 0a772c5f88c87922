----------------------------- MODULE LauncherProofs -----------------------------
(***************************************************************************)
(* Theorems about Launcher, for any number of launchers on one socket path *)
(* and any number of signals.                                              *)
(***************************************************************************)
EXTENDS Launcher, TLAPS

Up(l) == server[l] \in {"starting", "serving"}

\* What a launcher that no signal struck knows of its processes at each position:
\* before the list has them there are none, and what the cleanup has passed is dead.
Known(l) ==
  /\ lpc[l] \in {"off", "popen server"} => server[l] = "none"
  /\ lpc[l] \in {"off", "popen server", "append server", "await", "popen tui"} => tui[l] = "none"
  /\ lpc[l] \in {"await", "popen tui", "append tui", "watch"} => "server" \in children[l]
  /\ lpc[l] = "watch" => "tui" \in children[l]
  /\ lpc[l] \in {"append server", "await", "popen tui", "append tui", "watch"} => server[l] # "none"
  /\ lpc[l] = "wait tui" => tui[l] # "none"
  /\ lpc[l] = "wait server" => server[l] # "none"
  /\ ~struck[l] =>
       /\ lpc[l] \in {"stop tui", "wait tui"} =>
            (Up(l) => "server" \in children[l]) /\ (tui[l] = "running" => "tui" \in children[l])
       /\ lpc[l] \in {"stop server", "wait server"} =>
            (Up(l) => "server" \in children[l]) /\ tui[l] # "running"
       /\ lpc[l] \in {"unlink", "gone"} => Stopped(l)

\* Launchers that did not overlap: one of them is at work, and it has its socket.
Alone ==
  overlap \/
    /\ \A k, l \in Launcher : lpc[k] \notin {"off", "gone"} /\ lpc[l] \notin {"off", "gone"} => k = l
    /\ StaysReachable

IInv == TypeOK /\ (\A l \in Launcher : Known(l)) /\ Alone

\* No process has been started yet.
LEMMA IInvInit == Init => IInv
<1> SUFFICES ASSUME Init PROVE IInv
  OBVIOUS
<1>1. TypeOK
  <2>1. signals \in 0..MaxSignals
    BY LauncherAssumption, SMT DEF Init
  <2>2. children \in [Launcher -> SUBSET {"server", "tui"}]
    BY DEF Init
  <2>3. QED
    BY <2>1, <2>2 DEF Init, TypeOK
<1>2. (\A l \in Launcher : Known(l)) /\ Alone
  BY DEF Init, Known, Alone, StaysReachable, Stopped, Up
<1>3. QED
  BY <1>1, <1>2 DEF IInv

\* A step of one launcher touches only its own processes.
LEMMA LaunchStep == ASSUME IInv, NEW l \in Launcher, Launch(l) PROVE IInv'
<1> USE DEF Launch, Step
<1>1. TypeOK'
  BY DEF IInv, TypeOK, Watching, Cleanup
<1>2. ASSUME NEW k \in Launcher PROVE Known(k)'
  BY <1>2 DEF IInv, Known, Stopped, Up, TypeOK
<1>3. Alone'
  BY LauncherAssumption DEF IInv, Alone, StaysReachable, Known, TypeOK, PathFree
<1>4. QED
  BY <1>1, <1>2, <1>3 DEF IInv

\* The steps of main, of the cleanup included.
LEMMA MainStep == ASSUME IInv, NEW l \in Launcher, Main(l) PROVE IInv'
<1> USE DEF Step
<1>1. TypeOK'
  <2> USE DEF IInv, TypeOK, Known, Watching, Cleanup
  <2>1. CASE PopenServer(l)
    BY <2>1 DEF PopenServer
  <2>6. CASE AppendChild(l)
    <3>1. PICK c \in {"server", "tui"} : children' = [children EXCEPT ![l] = @ \cup {c}]
      BY <2>6 DEF AppendChild
    <3>3. children' \in [Launcher -> SUBSET {"server", "tui"}]
      BY <3>1
    <3>2. QED
      BY <2>6, <3>3 DEF AppendChild
  <2>2. CASE Await(l) \/ Watch(l) \/ StopTui(l) \/ StopServer(l) \/ Unlink(l)
    BY <2>2 DEF Await, Watch, StopTui, StopServer, Unlink
  <2>3. CASE PopenTui(l)
    BY <2>3 DEF PopenTui
  <2>4. CASE WaitTui(l) \/ WaitServer(l)
    BY <2>4 DEF WaitTui, WaitServer, KillChild
  <2>5. QED
    BY <2>1, <2>2, <2>3, <2>4, <2>6 DEF Main
<1>2. ASSUME NEW k \in Launcher PROVE Known(k)'
  <2> USE DEF IInv, TypeOK, Known, Stopped, Up
  <2>1. CASE k # l
    <3>1. lpc'[k] = lpc[k] /\ children'[k] = children[k] /\ UNCHANGED struck
      BY <1>2, <2>1 DEF Main, PopenServer, AppendChild, Await, PopenTui, Watch, StopTui, WaitTui, StopServer, WaitServer,
           Unlink
    <3>2. server'[k] = server[k] /\ tui'[k] = tui[k]
      BY <1>2, <2>1 DEF Main, PopenServer, AppendChild, Await, PopenTui, Watch, StopTui, WaitTui, StopServer, WaitServer,
           Unlink, KillChild
    <3>3. QED
      BY <1>2, <3>1, <3>2
  <2>2. CASE k = l /\ (PopenServer(l) \/ Await(l) \/ Watch(l))
    BY <1>2, <2>2 DEF PopenServer, Await, Watch
  <2>3. CASE k = l /\ AppendChild(l)
    <3>1. CASE lpc[l] = "append server"
      <4>1. children' = [children EXCEPT ![l] = @ \cup {"server"}]
        BY <2>3, <3>1 DEF AppendChild
      <4>2. "server" \in children'[l]
        BY <4>1
      <4>3. QED
        BY <2>3, <3>1, <4>2 DEF AppendChild, Known
    <3>2. CASE lpc[l] = "append tui"
      <4>1. "server" \in children[l] /\ children' = [children EXCEPT ![l] = @ \cup {"tui"}]
        BY <2>3, <3>2 DEF AppendChild
      <4>2. {"server", "tui"} \subseteq children'[l]
        BY <4>1
      <4>3. QED
        BY <2>3, <3>2, <4>2 DEF AppendChild
    <3>3. QED
      BY <2>3, <3>1, <3>2 DEF AppendChild
  <2>7. CASE k = l /\ PopenTui(l)
    BY <1>2, <2>7 DEF PopenTui
  <2>4. CASE k = l /\ (StopTui(l) \/ StopServer(l) \/ Unlink(l))
    <3>1. CASE StopTui(l)
      BY <1>2, <2>4, <3>1 DEF StopTui, RunningChild
    <3>2. CASE StopServer(l)
      BY <1>2, <2>4, <3>2 DEF StopServer, RunningChild
    <3>3. CASE Unlink(l)
      BY <1>2, <2>4, <3>3 DEF Unlink
    <3>4. QED
      BY <2>4, <3>1, <3>2, <3>3
  <2>5. CASE k = l /\ (WaitTui(l) \/ WaitServer(l))
    BY <1>2, <2>5 DEF WaitTui, WaitServer, KillChild
  <2>6. QED
    BY <2>1, <2>2, <2>3, <2>4, <2>5, <2>7 DEF Main
<1>3. Alone'
  <2> USE DEF IInv, Alone, StaysReachable, TypeOK
  <2>1. CASE PopenServer(l) \/ AppendChild(l) \/ Await(l) \/ PopenTui(l) \/ Watch(l)
             \/ StopTui(l) \/ WaitTui(l) \/ StopServer(l) \/ WaitServer(l)
    <3> USE DEF PopenServer, AppendChild, Await, PopenTui, Watch, StopTui, WaitTui, StopServer, WaitServer
    <3>1. lpc[l] \notin {"off", "gone"} /\ UNCHANGED <<socket, overlap>>
      BY <2>1
    <3>2. \A k \in Launcher : lpc'[k] \notin {"off", "gone"} => lpc[k] \notin {"off", "gone"}
      BY <2>1
    <3>3. \A k \in Launcher : server'[k] = "serving" => server[k] = "serving"
      BY <2>1 DEF KillChild
    <3>4. \A k \in Launcher : lpc'[k] # "gone" => lpc[k] # "gone"
      BY <2>1
    <3>5. QED
      BY <3>1, <3>2, <3>3, <3>4
  <2>2. CASE Unlink(l)
    <3>1. lpc[l] = "unlink" /\ lpc' = [lpc EXCEPT ![l] = "gone"] /\ UNCHANGED <<server, overlap>>
      BY <2>2 DEF Unlink
    <3>2. ASSUME ~overlap, NEW k \in Launcher, k # l PROVE server[k] = "serving" => lpc[k] = "gone"
      <4>1. lpc[k] \in {"off", "gone"}
        BY <3>1, <3>2
      <4>2. lpc[k] = "off" => server[k] = "none"
        BY DEF Known
      <4>3. QED
        BY <4>1, <4>2
    <3>3. ~overlap => \A k \in Launcher : server'[k] = "serving" => lpc'[k] = "gone"
      BY <3>1, <3>2
    <3>4. ~overlap => \A j, k \in Launcher : lpc'[j] \notin {"off", "gone"} /\ lpc'[k] \notin {"off", "gone"} => j = k
      BY <3>1
    <3>5. QED
      BY <3>1, <3>3, <3>4
  <2>3. QED
    BY <2>1, <2>2 DEF Main
<1>4. QED
  BY <1>1, <1>2, <1>3 DEF IInv

\* A signal at a good moment enters the cleanup with every process in the list.
LEMMA SignalStep == ASSUME IInv, NEW l \in Launcher, Signal(l) PROVE IInv'
<1>1. TypeOK'
  <2>1. lpc' \in [Launcher -> {"off", "gone"} \cup Watching \cup Cleanup] /\ struck' \in [Launcher -> BOOLEAN]
    BY DEF Signal, IInv, TypeOK, Cleanup
  <2>2. signals' \in 0..MaxSignals
    <3>1. signals \in 0..MaxSignals /\ signals < MaxSignals /\ signals' = signals + 1
      BY DEF Signal, IInv, TypeOK
    <3>2. MaxSignals \in Nat
      BY LauncherAssumption
    <3>3. signals \in Nat /\ signals <= MaxSignals
      BY <3>1, <3>2
    <3>4. QED
      BY <3>1, <3>2, <3>3
  <2>3. QED
    BY <2>1, <2>2 DEF Signal, IInv, TypeOK
<1>2. ASSUME NEW k \in Launcher PROVE Known(k)'
  BY <1>2 DEF Signal, IInv, TypeOK, Known, Stopped, Up, Watching, Cleanup
<1>3. Alone'
  <2>1. \A k \in Launcher : lpc'[k] \notin {"off", "gone"} => lpc[k] \notin {"off", "gone"}
    BY DEF Signal, IInv, TypeOK, Watching, Cleanup
  <2>2. QED
    BY <2>1, <1>2 DEF Signal, IInv, Known, Alone, StaysReachable
<1>4. QED
  BY <1>1, <1>2, <1>3 DEF IInv

\* The two programs only end by themselves; a server binds a free path only.
LEMMA ProcessStep == ASSUME IInv, NEW l \in Launcher, Bind(l) \/ ServerEnds(l) \/ TuiEnds(l) PROVE IInv'
<1> USE DEF Bind, ServerEnds, TuiEnds
<1>1. TypeOK'
  BY DEF IInv, TypeOK
<1>2. ASSUME NEW k \in Launcher PROVE Known(k)'
  BY <1>2 DEF IInv, TypeOK, Known, Stopped, Up
<1>3. Alone'
  BY LauncherAssumption DEF IInv, TypeOK, Alone, StaysReachable
<1>4. QED
  BY <1>1, <1>2, <1>3 DEF IInv

\* The invariant is inductive.
LEMMA IInvStep == IInv /\ [Next]_vars => IInv'
<1> SUFFICES ASSUME IInv, [Next]_vars PROVE IInv'
  OBVIOUS
<1>1. CASE UNCHANGED vars
  BY <1>1 DEF vars, IInv, TypeOK, Known, Alone, StaysReachable, Stopped, Up
<1>2. CASE Next
  BY <1>2, LaunchStep, MainStep, SignalStep, ProcessStep DEF Next
<1>3. QED
  BY <1>1, <1>2

\* The inductive invariant holds in every behaviour.
LEMMA IInvAlways == Spec => []IInv
  BY IInvInit, IInvStep, PTL DEF Spec

\* Every variable of the launchers keeps its range (runtime.py main).
THEOREM TypeCorrect == Spec => []TypeOK
<1>1. IInv => TypeOK
  BY DEF IInv
<1>2. QED
  BY <1>1, IInvAlways, PTL

\* However the steps and signals of any number of launchers interleave, one that
\* ended without being struck left neither its app-server nor its TUI behind.
THEOREM RuntimeCloses == Spec => []ClosesUnlessStruck
<1>1. IInv => ClosesUnlessStruck
  BY DEF IInv, ClosesUnlessStruck, Known
<1>2. QED
  BY <1>1, IInvAlways, PTL

\* No launcher cuts off the runtime of another that it did not overlap.
THEOREM RuntimeReachable == Spec => []StaysReachable
<1>1. IInv => StaysReachable
  BY DEF IInv, Alone, StaysReachable
<1>2. QED
  BY <1>1, IInvAlways, PTL
=============================================================================

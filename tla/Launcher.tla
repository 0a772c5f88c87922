-------------------------------- MODULE Launcher --------------------------------
(***************************************************************************)
(* codex-relay-session (runtime.py): a launcher starts an app-server on a  *)
(* private socket, then the terminal client (TUI) on it, and stops both    *)
(* when one of them ends or a signal arrives.  All launchers here are      *)
(* given the same --socket path.  What the two programs do is external.    *)
(***************************************************************************)
EXTENDS Naturals

CONSTANTS Launcher,
          MaxSignals,   \* bound: SIGTERM and SIGHUP
          Nobody

ASSUME LauncherAssumption == Nobody \notin Launcher /\ MaxSignals \in Nat

VARIABLES
  lpc,           \* position of each launcher
  children,      \* its list of children
  server, tui,   \* the processes it started
  socket,        \* who bound what is at the path, or Nobody
  signals,
  struck,        \* a signal came between a Popen and its append, or in the cleanup
  overlap        \* a launcher found no socket while another was not gone yet

vars == <<lpc, children, server, tui, socket, signals, struck, overlap>>

Watching == {"popen server", "append server", "await", "popen tui", "append tui", "watch"}
Cleanup  == {"stop tui", "wait tui", "stop server", "wait server", "unlink"}

Step(l, from, to) == lpc[l] = from /\ lpc' = [lpc EXCEPT ![l] = to]

(***************************************************************************)
(* main                                                                    *)
(***************************************************************************)

AnyPath   == TRUE
PathFree  == socket = Nobody

\* "Socket already exists; refusing to replace an existing runtime".
Launch(l) ==
  /\ Step(l, "off", IF PathFree THEN "popen server" ELSE "gone")
  /\ overlap' = (overlap \/ (socket = Nobody /\ \E k \in Launcher \ {l} : lpc[k] \notin {"off", "gone"}))
  /\ UNCHANGED <<children, server, tui, socket, signals, struck>>

PopenServer(l) ==
  /\ Step(l, "popen server", "append server")
  /\ server' = [server EXCEPT ![l] = "starting"]
  /\ UNCHANGED <<children, tui, socket, signals, struck, overlap>>

AppendChild(l) ==
  /\ \/ Step(l, "append server", "await") /\ children' = [children EXCEPT ![l] = @ \cup {"server"}]
     \/ Step(l, "append tui", "watch")    /\ children' = [children EXCEPT ![l] = @ \cup {"tui"}]
  /\ UNCHANGED <<server, tui, socket, signals, struck, overlap>>

\* Whoever bound the socket; without one, the server's end or 15 seconds.
Await(l) ==
  /\ IF socket # Nobody THEN Step(l, "await", "popen tui") ELSE Step(l, "await", "stop tui")
  /\ UNCHANGED <<children, server, tui, socket, signals, struck, overlap>>

PopenTui(l) ==
  /\ Step(l, "popen tui", "append tui")
  /\ tui' = [tui EXCEPT ![l] = "running"]
  /\ UNCHANGED <<children, server, socket, signals, struck, overlap>>

ServerEnded(l) == server[l] = "dead"
EitherEnded(l) == tui[l] = "dead" \/ server[l] = "dead"

Watch(l) ==
  /\ EitherEnded(l)
  /\ Step(l, "watch", "stop tui")
  /\ UNCHANGED <<children, server, tui, socket, signals, struck, overlap>>

\* SIGTERM and SIGHUP raise KeyboardInterrupt where the launcher is.  The
\* handlers stay during the finally block, which a second signal ends.
Signal(l) ==
  /\ lpc[l] \in Watching \cup Cleanup /\ signals < MaxSignals
  /\ signals' = signals + 1
  /\ lpc' = [lpc EXCEPT ![l] = IF lpc[l] \in Cleanup THEN "gone" ELSE "stop tui"]
  /\ struck' = [struck EXCEPT ![l] = @ \/ lpc[l] \in Cleanup \cup {"append server", "append tui"}]
  /\ UNCHANGED <<children, server, tui, socket, overlap>>

(***************************************************************************)
(* The finally block: the TUI, then the server, then the socket.           *)
(***************************************************************************)

RunningChild(l, name, process) == name \in children[l] /\ process[l] \in {"starting", "serving", "running"}

\* terminate only a child of the list that still runs.
StopTui(l) ==
  /\ Step(l, "stop tui", IF RunningChild(l, "tui", tui) THEN "wait tui" ELSE "stop server")
  /\ UNCHANGED <<children, server, tui, socket, signals, struck, overlap>>

StopServer(l) ==
  /\ Step(l, "stop server", IF RunningChild(l, "server", server) THEN "wait server" ELSE "unlink")
  /\ UNCHANGED <<children, server, tui, socket, signals, struck, overlap>>

GiveUp(process, l)    == process
KillChild(process, l) == [process EXCEPT ![l] = "dead"]

\* child.wait ends with the child, or after 3 seconds with child.kill.
WaitTui(l) ==
  /\ Step(l, "wait tui", "stop server")
  /\ tui' = KillChild(tui, l)
  /\ UNCHANGED <<children, server, socket, signals, struck, overlap>>

WaitServer(l) ==
  /\ Step(l, "wait server", "unlink")
  /\ server' = KillChild(server, l)
  /\ UNCHANGED <<children, tui, socket, signals, struck, overlap>>

\* Whatever socket is at the path.
Unlink(l) ==
  /\ Step(l, "unlink", "gone")
  /\ socket' = Nobody
  /\ UNCHANGED <<children, server, tui, signals, struck, overlap>>

(***************************************************************************)
(* The two programs.                                                       *)
(***************************************************************************)

\* The server binds its socket, or ends because something is at the path.
Bind(l) ==
  /\ server[l] = "starting"
  /\ IF socket = Nobody
     THEN socket' = l /\ server' = [server EXCEPT ![l] = "serving"]
     ELSE server' = [server EXCEPT ![l] = "dead"] /\ UNCHANGED socket
  /\ UNCHANGED <<lpc, children, tui, signals, struck, overlap>>

\* It ends by itself or by a SIGTERM, with or without its socket.
ServerEnds(l) ==
  /\ server[l] \in {"starting", "serving"}
  /\ server' = [server EXCEPT ![l] = "dead"]
  /\ socket' \in {socket, IF socket = l THEN Nobody ELSE socket}
  /\ UNCHANGED <<lpc, children, tui, signals, struck, overlap>>

\* The user quits, or a SIGTERM arrives.
TuiEnds(l) ==
  /\ tui[l] = "running"
  /\ tui' = [tui EXCEPT ![l] = "dead"]
  /\ UNCHANGED <<lpc, children, server, socket, signals, struck, overlap>>
-----------------------------------------------------------------------------
Init ==
  /\ lpc = [l \in Launcher |-> "off"] /\ children = [l \in Launcher |-> {}]
  /\ server = [l \in Launcher |-> "none"] /\ tui = [l \in Launcher |-> "none"]
  /\ socket = Nobody /\ signals = 0
  /\ struck = [l \in Launcher |-> FALSE] /\ overlap = FALSE

Main(l) == \/ PopenServer(l) \/ AppendChild(l) \/ Await(l) \/ PopenTui(l) \/ Watch(l)
           \/ StopTui(l) \/ WaitTui(l) \/ StopServer(l) \/ WaitServer(l) \/ Unlink(l)
Next == \E l \in Launcher :
  Launch(l) \/ Main(l) \/ Signal(l) \/ Bind(l) \/ ServerEnds(l) \/ TuiEnds(l)

Spec == Init /\ [][Next]_vars
\* Children end or are killed; a launcher polls them in a loop.
FairSpec == Spec /\ \A l \in Launcher : WF_vars(Main(l))
-----------------------------------------------------------------------------
\* Every variable keeps its range, and no client runs without a server.
TypeOK ==
  /\ lpc \in [Launcher -> {"off", "gone"} \cup Watching \cup Cleanup]
  /\ children \in [Launcher -> SUBSET {"server", "tui"}]
  /\ server \in [Launcher -> {"none", "starting", "serving", "dead"}]
  /\ tui \in [Launcher -> {"none", "running", "dead"}]
  /\ socket \in Launcher \cup {Nobody} /\ signals \in 0..MaxSignals
  /\ struck \in [Launcher -> BOOLEAN] /\ overlap \in BOOLEAN
  /\ \A l \in Launcher : tui[l] # "none" => server[l] # "none"

Stopped(l) == server[l] \in {"none", "dead"} /\ tui[l] \in {"none", "dead"}

\* "Its private runtime stays with the terminal [...] and closes when the
\* terminal exits" (docs/connections.md): a launcher that ended left no process,
\* unless a signal came at one of two bad moments.
ClosesUnlessStruck == \A l \in Launcher : lpc[l] = "gone" /\ ~struck[l] => Stopped(l)

\* "refusing to replace an existing runtime" (main): what one launcher serves is
\* never cut off by another that starts, fails and cleans up, unless the two
\* overlapped while there was no socket.
StaysReachable ==
  overlap \/ \A l \in Launcher : server[l] = "serving" /\ lpc[l] # "gone" => socket = l

\* The end of the terminal client ends the runtime in the end.
EndsWithTui ==
  \A l \in Launcher : tui[l] = "dead" ~> (lpc[l] = "gone" /\ (struck[l] \/ Stopped(l)))
=============================================================================

----------------------------- MODULE DeliveryOnce -----------------------------
(***************************************************************************)
(* What a delivery queue of the relay promises of every message: it is     *)
(* handed to its recipient at most once and only while an attempt is under *)
(* way, it waits again only when nothing was handed over, and an outcome   *)
(* (settled or cancelled) is final.  Many messages may move in one step: a *)
(* disconnect or a recovery is one SQL UPDATE.                             *)
(***************************************************************************)
EXTENDS Naturals

CONSTANT Message

VARIABLES
  phase,     \* "absent", "pending", "inflight", "settled" or "cancelled"
  handed     \* how often the message was given to its recipient

vars == <<phase, handed>>

Init ==
  /\ phase  \in [Message -> {"absent", "pending"}]
  /\ handed = [m \in Message |-> 0]

Move(m, from, to) ==
  phase[m] = from /\ phase'[m] = to /\ handed'[m] = handed[m]

Keep(m)   == phase'[m] = phase[m] /\ handed'[m] = handed[m]
Queue(m)  == Move(m, "absent", "pending")
Try(m)    == Move(m, "pending", "inflight") /\ handed[m] = 0
Hand(m)   == /\ phase[m] = "inflight" /\ phase'[m] = "inflight"
             /\ handed[m] = 0 /\ handed'[m] = 1
Defer(m)  == Move(m, "inflight", "pending") /\ handed[m] = 0
Settle(m) == Move(m, "inflight", "settled")
Cancel(m) == Move(m, "pending", "cancelled") /\ handed[m] = 0

MsgStep(m) ==
  Keep(m) \/ Queue(m) \/ Try(m) \/ Hand(m) \/ Defer(m) \/ Settle(m) \/ Cancel(m)

Next == \A m \in Message : MsgStep(m)

Spec == Init /\ [][Next]_vars
=============================================================================

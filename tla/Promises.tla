------------------------------ MODULE Promises ------------------------------
(***************************************************************************)
(* What the asynchronous methods of the package promise their caller,      *)
(* without any of the machinery that keeps the promise: a call throws, or  *)
(* returns a promise; the promise is settled at most once, inside a tick,  *)
(* and never after EOS is shut down.                                       *)
(***************************************************************************)
CONSTANT Requests

VARIABLES
  status,   \* per request: what its caller sees
  ticking,  \* EOS_Platform_Tick is on the stack
  ended     \* EOS is shut down

vars == <<status, ticking, ended>>

Init ==
  /\ status = [r \in Requests |-> "none"]
  /\ ticking = FALSE
  /\ ended = FALSE

Call(r) ==
  /\ ~ended
  /\ status[r] = "none"
  /\ \E outcome \in {"pending", "rejected", "threw"} :
       status' = [status EXCEPT ![r] = outcome]
  /\ UNCHANGED <<ticking, ended>>

Settle(r) ==
  /\ ticking /\ ~ended
  /\ status[r] = "pending"
  /\ \E outcome \in {"resolved", "rejected"} :
       status' = [status EXCEPT ![r] = outcome]
  /\ UNCHANGED <<ticking, ended>>

EnterOrLeaveTick == ticking' = ~ticking /\ UNCHANGED <<status, ended>>

End == ended' = TRUE /\ UNCHANGED <<status, ticking>>

Next ==
  \/ \E r \in Requests : Call(r) \/ Settle(r)
  \/ EnterOrLeaveTick
  \/ End

Spec == Init /\ [][Next]_vars
=============================================================================

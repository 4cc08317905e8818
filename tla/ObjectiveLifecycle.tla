-------------------------- MODULE ObjectiveLifecycle --------------------------
(***************************************************************************)
(* What asynchronous delivery promises about one objective, with no queue, *)
(* no workers and no HTTP: the five-state machine of async_state.py, the   *)
(* recovery reset, and the fence "one live attempt per objective" that     *)
(* makes a terminal write belong to the attempt that claimed the objective.*)
(***************************************************************************)
CONSTANT Objectives

VARIABLES
  status,   \* "absent" until admitted, and again once withdrawn
  attempts  \* objectives some worker has claimed and not yet let go of

vars == <<status, attempts>>

Move(o, from, to) == status[o] \in from /\ status' = [status EXCEPT ![o] = to]

LifecycleInit ==
  /\ status = [o \in Objectives |-> "absent"]
  /\ attempts = {}

Admit(o) == o \notin attempts /\ Move(o, {"absent"}, "accepted") /\ UNCHANGED attempts

\* Saturation: the admission is taken back, before any worker saw it.
Withdraw(o) ==
  o \notin attempts /\ Move(o, {"accepted", "cancelled"}, "absent") /\ UNCHANGED attempts

Claim(o) ==
  /\ o \notin attempts /\ Move(o, {"accepted"}, "running")
  /\ attempts' = attempts \cup {o}

\* Only a live attempt settles its objective, and only if a cancel has not.
Settle(o) ==
  /\ o \in attempts /\ attempts' = attempts \ {o}
  /\ \/ Move(o, {"running"}, "delivered")
     \/ Move(o, {"running"}, "refused")
     \/ UNCHANGED status

Cancel(o) == Move(o, {"accepted", "running"}, "cancelled") /\ UNCHANGED attempts

\* A restart ends every attempt; then running objectives go back to accepted.
Restart == attempts' = {} /\ UNCHANGED status
Reset(o) == o \notin attempts /\ Move(o, {"running"}, "accepted") /\ UNCHANGED attempts

LifecycleNext ==
  \/ \E o \in Objectives :
       \/ Admit(o) \/ Withdraw(o) \/ Claim(o) \/ Settle(o) \/ Cancel(o) \/ Reset(o)
  \/ Restart

LifecycleSpec == LifecycleInit /\ [][LifecycleNext]_vars
=============================================================================

----------------------------- MODULE Lifecycle ------------------------------
(***************************************************************************)
(* What the application promises to its owner, whatever its threads do:    *)
(* the states it goes through and the one cause it reports.  The cause is  *)
(* recorded once, never while the application is at rest, and it alone     *)
(* decides between stopped and failed.  No stop is undone.                 *)
(***************************************************************************)
CONSTANT Causes

VARIABLES
  state,   \* "created", "initializing", "running", "stopping", "stopped" or "failed"
  cause    \* the first fatal error, or "none"

lifecycleVars == <<state, cause>>

Init ==
  /\ state = "created"
  /\ cause = "none"

Initialize ==
  /\ state = "created"
  /\ state' = "initializing"
  /\ UNCHANGED cause

Ready ==
  /\ state = "initializing"
  /\ state' = "running"
  /\ UNCHANGED cause

(* Start gave up. *)
GiveUp ==
  /\ state = "initializing"
  /\ state' = "failed"
  /\ UNCHANGED cause

RecordCause ==
  /\ state \in {"initializing", "running", "stopping", "failed"}
  /\ cause = "none"
  /\ cause' \in Causes
  /\ UNCHANGED state

(* An application at rest in "failed" is stopped once more when destroyed. *)
BeginStop ==
  /\ state \in {"running", "failed"}
  /\ state' = "stopping"
  /\ UNCHANGED cause

Settle ==
  /\ state = "stopping"
  /\ state' = IF cause = "none" THEN "stopped" ELSE "failed"
  /\ UNCHANGED cause

Next == Initialize \/ Ready \/ GiveUp \/ RecordCause \/ BeginStop \/ Settle

Spec == Init /\ [][Next]_lifecycleVars

=============================================================================

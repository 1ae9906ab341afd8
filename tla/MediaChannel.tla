---------------------------- MODULE MediaChannel ----------------------------
(***************************************************************************)
(* What a bounded media queue promises to the threads on its two sides,    *)
(* with no mutex, no condition variable and no container.                  *)
(*                                                                         *)
(* Accepted items are numbered 1, 2, 3, ... in the order of acceptance.    *)
(* The channel always retains the newest `kept' of them, so its content is *)
(* the interval (accepted - kept + 1) .. accepted.  It delivers the oldest *)
(* retained item, and only a lossy channel may discard from the old end in *)
(* order to accept a new one.  The channel goes from open to draining      *)
(* (nothing is accepted any more) and to aborted (nothing is delivered any *)
(* more), and never back.                                                  *)
(***************************************************************************)
EXTENDS Naturals

CONSTANT Capacity   \* how many items the channel retains at most

VARIABLES
  accepted,   \* number of items accepted so far
  kept,       \* number of items retained
  phase,      \* "open", "draining" or "aborted"
  last,       \* number of the item delivered last, 0 before the first
  lossy       \* TRUE when accepting may discard retained items; never changes

channelVars == <<accepted, kept, phase, last, lossy>>

Init ==
  /\ accepted = 0
  /\ kept = 0
  /\ phase = "open"
  /\ last = 0
  /\ lossy \in BOOLEAN

(* Accept one item, discarding the `lost' oldest retained ones first. *)
Accept(lost) ==
  /\ phase = "open"
  /\ lost <= kept
  /\ lost > 0 => lossy
  /\ accepted' = accepted + 1
  /\ kept' = (kept - lost) + 1
  /\ kept' <= Capacity
  /\ UNCHANGED <<phase, last, lossy>>

(* Deliver the oldest retained item. *)
Deliver ==
  /\ phase # "aborted"
  /\ kept > 0
  /\ last' = (accepted - kept) + 1
  /\ kept' = kept - 1
  /\ UNCHANGED <<accepted, phase, lossy>>

Drain ==
  /\ phase = "open"
  /\ phase' = "draining"
  /\ UNCHANGED <<accepted, kept, last, lossy>>

Abort ==
  /\ phase' = "aborted"
  /\ kept' = 0
  /\ UNCHANGED <<accepted, last, lossy>>

Next ==
  \/ \E lost \in 0 .. Capacity : Accept(lost)
  \/ Deliver
  \/ Drain
  \/ Abort

Spec == Init /\ [][Next]_channelVars

=============================================================================

---------------------------- MODULE MCVideoPath -----------------------------
(***************************************************************************)
(* VideoPath for TLC: one family of configurations for each question.      *)
(***************************************************************************)
EXTENDS VideoPath

Bound(n, p) == [capacity |-> n, policy |-> p]
Policies == {"keep_latest", "drop_oldest", "drop_newest", "block_producer"}

Plain ==
  [fps |-> 5, readDelay |-> 0, latency |-> 1, maxFps |-> 0,
   overlay |-> TRUE, wait |-> 2, maxAge |-> 2, audioFrame |-> 4, stall |-> 7, health |-> 1,
   inferenceBound |-> Bound(1, "keep_latest"), encodeBound |-> Bound(2, "drop_oldest"),
   failing |-> {}, unreadable |-> {}, hangs |-> "none"]

(* The shortest time-out that Validate accepts. *)
Tight(s) == [s EXCEPT !.stall = SlowestStage(s) + s.health + 1]

(* Cameras and models of every speed; a wait of 0 draws what happens to be there. *)
Paces ==
  {Tight([Plain EXCEPT !.fps = f, !.readDelay = d, !.latency = l, !.wait = w, !.maxAge = w]) :
     f \in {3, 10}, d \in {0, 1}, l \in {0, 3}, w \in {0, 7}}

(* Inference slower than the camera, with every pair of policies. *)
Queues ==
  {[Plain EXCEPT !.fps = 10, !.latency = 2, !.wait = 7, !.maxAge = 7, !.stall = 9,
                 !.inferenceBound = Bound(2, p), !.encodeBound = Bound(1, q)] :
     p \in Policies, q \in Policies}

(* A camera that is gone for two attempts, frames that cannot be decoded. *)
Faults ==
  {[Plain EXCEPT !.failing = F, !.unreadable = U] : F \in {{}, {1, 2}}, U \in {{}, {0, 3}}}

Hangs ==
  {[Plain EXCEPT !.hangs = w, !.latency = l, !.health = h, !.encodeBound = Bound(1, q)] :
     w \in WorkerNames, l \in {0, 2}, h \in {1, 2},
     q \in {"drop_oldest", "block_producer"}}

(* max_fps no slower than the slowest stage. *)
Thinned == {[Plain EXCEPT !.fps = 10, !.maxFps = m] : m \in {3, 5}}

Configurations == Paces \cup Queues \cup Faults \cup Hangs \cup Thinned

(* max_fps slower than every stage, and a camera as slow as the model. *)
Underestimated ==
  {Tight([Plain EXCEPT !.fps = 10, !.audioFrame = 1, !.maxFps = m]) : m \in {1, 2}}
    \cup {Tight([Plain EXCEPT !.fps = 10, !.readDelay = 4, !.latency = 4])}

=============================================================================

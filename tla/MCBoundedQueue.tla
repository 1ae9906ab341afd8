--------------------------- MODULE MCBoundedQueue ---------------------------
(* Instances of BoundedQueue for TLC: named threads, two of each kind at most. *)
EXTENDS BoundedQueue

CONSTANTS p1, p2, c1, c2

OneProducer == {p1}
TwoProducers == {p1, p2}
OneConsumer == {c1}
TwoConsumers == {c1, c2}
NoThreads == {}
FirstConsumer == {c1}
OneOfEach == {p1, c1}
Everyone == Threads

AllPolicies == Policies
OnlyBlocking == {"block_producer"}

=============================================================================

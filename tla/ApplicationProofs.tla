-------------------------- MODULE ApplicationProofs --------------------------
(***************************************************************************)
(* Theorems about Application, for every configuration, every capacity,    *)
(* any number of frames and every choice of what may fail: the phases of   *)
(* StopWorkers keep what they promise, whenever a stop begins and whatever *)
(* fails while it runs.                                                    *)
(***************************************************************************)
EXTENDS Application, TLAPS

Active(w) == at[w] \notin {"unborn", "done"}

-----------------------------------------------------------------------------
(* The inductive invariant *)

(* Where the owner is decides the state it shows. *)
StateFollows ==
  /\ main = "created" => state = "created"
  /\ main \in {"opening", "routing", "launching"} => state = "initializing"
  /\ main = "serving" => state = "running"
  /\ main = "leaving" => state \in {"running", "failed"}
  /\ main = "stopping" => state = "stopping"
  /\ main = "returned" => state \in {"stopped", "failed"}
  /\ main = "gone" => state \in {"created", "stopped"}

(* No thread runs before the backends and the router do, a stop has its mode,
   and a graceful one begins when every thread was started. *)
StartFollows ==
  /\ state = "created" \/ main \in {"opening", "routing"} =>
       \A w \in Workers : at[w] = "unborn"
  /\ main \in {"created", "opening", "routing", "launching", "serving"} =>
       mode = "none" /\ token = {}
  /\ main \in {"leaving", "stopping"} => mode \in {"drain", "abort"}
  /\ main = "serving" \/ mode = "drain" => \A w \in Workers : at[w] # "unborn"
  /\ main \in {"routing", "launching"} => open = Devices
  /\ main = "launching" => router = "running"

(* A thread that runs has its backend, and an encoder's has its router. *)
UsersAreServed ==
  /\ \A w \in Queues : Active(w) => w \in open
  /\ \A e \in Encoders : Active(e) => router = "running"
  /\ missed = 0

(* The operations of a plan, and what is true once one was carried out. *)
Ops(p) == {p[i] : i \in 1 .. Len(p)}

Effect(x) ==
  /\ x[1] = "join" => \A w \in Workers : w = x[2] => ~Active(w)
  /\ x[1] = "release" => x[2] \notin open
  /\ x[1] = "stop" => router # "running"
  /\ x[1] = "adopt" => router \in {"absent", "stopped"} /\ (routerError => error # "none")

Before(x, y, p) == \A i, j \in 1 .. Len(p) : p[i] = x /\ p[j] = y => i < j

(* The order of operations that the phases establish. *)
Ordered(p) ==
  /\ \A w \in Queues : Before(<<"join", w>>, <<"release", w>>, p)
  /\ \A e \in Encoders : Before(<<"join", e>>, <<"stop", "router">>, p)
  /\ Before(<<"stop", "router">>, <<"adopt", "router">>, p)

(* What of the plan is not left to do has had its effect, and a graceful stop
   cancels no thread that serves a queue. *)
PlanFollows ==
  main = "stopping" =>
    /\ \A x \in Ops(Plan(mode)) : x \in Ops(plan) \/ Effect(x)
    /\ Ordered(plan)
    /\ mode = "drain" => \A w \in Queues : <<"cancel", w>> \notin Ops(plan)

(* An application at rest has carried out the whole plan. *)
RestIsQuiet ==
  AtRest =>
    /\ \A w \in Workers : ~Active(w)
    /\ open = {}
    /\ router \in {"absent", "stopped"}
    /\ routerError => error # "none"
    /\ state = IF error # "none" THEN "failed" ELSE "stopped"

(* A thread that reports has a cause, and stores it before it asks for a stop. *)
CausesAreStored ==
  \A w \in Workers :
    /\ at[w] = "reporting" => why[w] # "none"
    /\ at[w] \in {"requesting", "noting"} => error # "none"

(* The counters are counters. *)
CountersFollow ==
  /\ \A q \in Queues : queue[q].kept <= queue[q].accepted
  /\ \A e \in Encoders : at[e] = "working" => encoded[e] > 0

(* A thread leaves a queue only when nothing will come any more. *)
QueueIsServed(q) ==
  /\ queue[q].phase # "aborted"
  /\ queue[q].kept = 0 => queue[q].last = queue[q].accepted
  /\ at[q] \in {"leaving", "flushing", "done"} =>
       queue[q].phase = "draining" /\ queue[q].kept = 0

(* Every frame an encoder took was submitted, is inside it, or is being encoded. *)
EncoderIsServed(e) ==
  /\ at[e] # "reporting" =>
       submitted[e] + held[e] + (IF at[e] = "working" THEN 1 ELSE 0) = encoded[e]
  /\ at[e] = "done" => held[e] = 0

NothingIsLost ==
  error = "none" /\ mode # "abort" =>
    /\ token \cap Queues = {}
    /\ \A q \in Queues : QueueIsServed(q)
    /\ \A e \in Encoders : EncoderIsServed(e)
    /\ encoded["audio_encode"] + queue["audio_encode"].kept = queue["audio_encode"].accepted

AppInv ==
  /\ TypeOK
  /\ StateFollows
  /\ StartFollows
  /\ UsersAreServed
  /\ PlanFollows
  /\ RestIsQuiet
  /\ CausesAreStored
  /\ CountersFollow
  /\ NothingIsLost

-----------------------------------------------------------------------------
(* Constants and the operations of a plan *)

(* The names are different names. *)
LEMMA Names ==
  /\ Captures \subseteq Workers /\ Queues \subseteq Workers /\ Encoders \subseteq Queues
  /\ Queues \subseteq Devices /\ Devices \subseteq Workers
  /\ "monitor" \in Workers /\ "inference" \in Queues /\ "video_capture" \in Captures
  /\ "audio_capture" \in Captures /\ "video_encode" \in Encoders /\ "audio_encode" \in Encoders
  /\ Captures \cap Queues = {} /\ "monitor" \notin Queues
  /\ "inference" \notin Encoders
BY DEF Captures, Queues, Encoders, Workers, Devices

(* What is left of a plan after its first operation. *)
LEMMA OpsOfTail ==
  ASSUME NEW S, NEW p \in Seq(S), p # <<>>
  PROVE  /\ Tail(p) \in Seq(S)
         /\ Ops(p) = {Head(p)} \cup Ops(Tail(p))
<1>1. /\ Len(p) \in Nat \ {0} /\ Len(Tail(p)) = Len(p) - 1
      /\ \A i \in 1 .. Len(p) - 1 : Tail(p)[i] = p[i + 1]
      /\ Head(p) = p[1] /\ Tail(p) \in Seq(S)
  OBVIOUS
<1>2. ASSUME NEW x \in Ops(p)
      PROVE  x \in {Head(p)} \cup Ops(Tail(p))
  <2>1. PICK i \in 1 .. Len(p) : x = p[i]
    BY DEF Ops
  <2>2. CASE i = 1
    BY <1>1, <2>1, <2>2
  <2>3. CASE i # 1
    <3>1. i - 1 \in 1 .. Len(Tail(p)) /\ Tail(p)[i - 1] = p[i]
      BY <1>1, <2>3
    <3>2. QED
      BY <2>1, <3>1 DEF Ops
  <2>4. QED
    BY <2>2, <2>3
<1>3. ASSUME NEW x \in {Head(p)} \cup Ops(Tail(p))
      PROVE  x \in Ops(p)
  <2>1. CASE x = Head(p)
    <3>1. 1 \in 1 .. Len(p)
      BY <1>1
    <3>2. QED
      BY <1>1, <2>1, <3>1 DEF Ops
  <2>2. CASE x \in Ops(Tail(p))
    <3>1. PICK i \in 1 .. Len(Tail(p)) : x = Tail(p)[i]
      BY <2>2 DEF Ops
    <3>2. i + 1 \in 1 .. Len(p) /\ x = p[i + 1]
      BY <1>1, <3>1
    <3>3. QED
      BY <3>2 DEF Ops
  <2>3. QED
    BY <2>1, <2>2
<1>4. QED
  BY <1>1, <1>2, <1>3

(* The rest of an ordered plan is ordered, and nothing that has to come before
   the first operation is left. *)
LEMMA BeforeTail ==
  ASSUME NEW S, NEW p \in Seq(S), p # <<>>, NEW x, NEW y, Before(x, y, p)
  PROVE  /\ Before(x, y, Tail(p))
         /\ Head(p) = y => x \notin Ops(p)
<1>1. /\ Len(p) \in Nat \ {0} /\ Len(Tail(p)) = Len(p) - 1
      /\ \A i \in 1 .. Len(p) - 1 : Tail(p)[i] = p[i + 1]
      /\ Head(p) = p[1]
  OBVIOUS
<1>2. ASSUME NEW i \in 1 .. Len(Tail(p)), NEW j \in 1 .. Len(Tail(p)),
             Tail(p)[i] = x, Tail(p)[j] = y
      PROVE  i < j
  <2>1. i + 1 \in 1 .. Len(p) /\ j + 1 \in 1 .. Len(p) /\ p[i + 1] = x /\ p[j + 1] = y
    BY <1>1, <1>2
  <2>2. i + 1 < j + 1
    BY <2>1 DEF Before
  <2>3. i \in Nat /\ j \in Nat
    BY <1>1
  <2>4. QED
    BY <2>2, <2>3
<1>3. ASSUME Head(p) = y, NEW i \in 1 .. Len(p), p[i] = x
      PROVE  FALSE
  <2>1. 1 \in 1 .. Len(p) /\ p[1] = y
    BY <1>1, <1>3
  <2>2. i < 1
    BY <1>3, <2>1 DEF Before
  <2>3. QED
    BY <1>1, <2>2
<1>4. QED
  BY <1>2, <1>3 DEF Before, Ops

(* The operations and the order of a concatenation. *)
LEMMA OpsOfConcat ==
  ASSUME NEW S, NEW p \in Seq(S), NEW q \in Seq(S)
  PROVE  /\ p \o q \in Seq(S)
         /\ Ops(p \o q) = Ops(p) \cup Ops(q)
<1>1. /\ Len(p) \in Nat /\ Len(q) \in Nat /\ Len(p \o q) = Len(p) + Len(q)
      /\ \A i \in 1 .. Len(p) : (p \o q)[i] = p[i]
      /\ \A i \in Len(p) + 1 .. Len(p) + Len(q) : (p \o q)[i] = q[i - Len(p)]
      /\ p \o q \in Seq(S)
  OBVIOUS
<1>2. ASSUME NEW x \in Ops(p \o q)
      PROVE  x \in Ops(p) \cup Ops(q)
  <2>1. PICK i \in 1 .. Len(p \o q) : x = (p \o q)[i]
    BY DEF Ops
  <2>2. CASE i \in 1 .. Len(p)
    BY <1>1, <2>1, <2>2 DEF Ops
  <2>3. CASE i \notin 1 .. Len(p)
    <3>1. i \in Len(p) + 1 .. Len(p) + Len(q) /\ i - Len(p) \in 1 .. Len(q)
      BY <1>1, <2>3
    <3>2. x = q[i - Len(p)]
      BY <1>1, <2>1, <3>1
    <3>3. QED
      BY <3>1, <3>2 DEF Ops
  <2>4. QED
    BY <2>2, <2>3
<1>3. ASSUME NEW x \in Ops(p)
      PROVE  x \in Ops(p \o q)
  <2>1. PICK i \in 1 .. Len(p) : x = p[i]
    BY DEF Ops
  <2>2. i \in 1 .. Len(p \o q) /\ x = (p \o q)[i]
    BY <1>1, <2>1
  <2>3. QED
    BY <2>2 DEF Ops
<1>4. ASSUME NEW x \in Ops(q)
      PROVE  x \in Ops(p \o q)
  <2>1. PICK i \in 1 .. Len(q) : x = q[i]
    BY DEF Ops
  <2>2. /\ i + Len(p) \in 1 .. Len(p \o q)
        /\ i + Len(p) \in Len(p) + 1 .. Len(p) + Len(q)
        /\ (i + Len(p)) - Len(p) = i
    BY <1>1
  <2>3. x = (p \o q)[i + Len(p)]
    BY <1>1, <2>1, <2>2
  <2>4. QED
    BY <2>2, <2>3 DEF Ops
<1>5. QED
  BY <1>1, <1>2, <1>3, <1>4

(* An order that both parts keep, and that does not go back over the seam, is kept. *)
LEMMA BeforeConcat ==
  ASSUME NEW S, NEW p \in Seq(S), NEW q \in Seq(S), NEW x, NEW y,
         Before(x, y, p), Before(x, y, q), y \notin Ops(p) \/ x \notin Ops(q)
  PROVE  Before(x, y, p \o q)
<1>1. /\ Len(p) \in Nat /\ Len(q) \in Nat /\ Len(p \o q) = Len(p) + Len(q)
      /\ \A i \in 1 .. Len(p) : (p \o q)[i] = p[i]
      /\ \A i \in Len(p) + 1 .. Len(p) + Len(q) : (p \o q)[i] = q[i - Len(p)]
  OBVIOUS
<1> SUFFICES ASSUME NEW i \in 1 .. Len(p \o q), NEW j \in 1 .. Len(p \o q),
                    (p \o q)[i] = x, (p \o q)[j] = y
             PROVE  i < j
  BY DEF Before
<1>2. i \in Nat /\ j \in Nat
  BY <1>1
<1>3. CASE i \in 1 .. Len(p) /\ j \in 1 .. Len(p)
  <2>1. p[i] = x /\ p[j] = y
    BY <1>1, <1>3
  <2>2. QED
    BY <1>3, <2>1 DEF Before
<1>4. CASE i \in 1 .. Len(p) /\ j \notin 1 .. Len(p)
  BY <1>1, <1>2, <1>4
<1>5. CASE i \notin 1 .. Len(p)
  <2>1. i \in Len(p) + 1 .. Len(p) + Len(q) /\ i - Len(p) \in 1 .. Len(q)
    BY <1>1, <1>5
  <2>2. q[i - Len(p)] = x
    BY <1>1, <2>1
  <2>3. x \in Ops(q)
    BY <2>1, <2>2 DEF Ops
  <2>4. j \notin 1 .. Len(p)
    BY <1>1, <2>3 DEF Ops
  <2>5. j \in Len(p) + 1 .. Len(p) + Len(q) /\ j - Len(p) \in 1 .. Len(q)
    BY <1>1, <2>4
  <2>6. q[j - Len(p)] = y
    BY <1>1, <2>5
  <2>7. i - Len(p) < j - Len(p)
    BY <2>1, <2>2, <2>5, <2>6 DEF Before
  <2>8. QED
    BY <1>1, <1>2, <2>7
<1>6. QED
  BY <1>3, <1>4, <1>5

(* The operations of a plan that is written out. *)
LEMMA OpsOfThree ==
  ASSUME NEW a, NEW b, NEW c
  PROVE  Ops(<<a, b, c>>) = {a, b, c}
<1>1. Len(<<a, b, c>>) = 3 /\ 1 .. 3 = {1, 2, 3}
  OBVIOUS
<1>2. QED
  BY <1>1 DEF Ops

(* The same for a longer one. *)
LEMMA OpsOfSeven ==
  ASSUME NEW a, NEW b, NEW c, NEW d, NEW e, NEW f, NEW g
  PROVE  Ops(<<a, b, c, d, e, f, g>>) = {a, b, c, d, e, f, g}
<1>1. Len(<<a, b, c, d, e, f, g>>) = 7 /\ 1 .. 7 = {1, 2, 3, 4, 5, 6, 7}
  OBVIOUS
<1>2. QED
  BY <1>1 DEF Ops

Steps == {"cancel", "release", "join", "close", "stop", "adopt"} \X (Workers \cup {"router"})

(* What each phase does. *)
LEMMA PhaseOps ==
  /\ CapturePhase \in Seq(Steps) /\ OutputPhase \in Seq(Steps) /\ ReleasePhase \in Seq(Steps)
  /\ Ops(CapturePhase) =
       {<<"cancel", "monitor">>, <<"cancel", "video_capture">>, <<"cancel", "audio_capture">>,
        <<"release", "video_capture">>, <<"release", "audio_capture">>,
        <<"join", "video_capture">>, <<"join", "audio_capture">>}
  /\ Ops(OutputPhase) = {<<"stop", "router">>, <<"adopt", "router">>, <<"join", "monitor">>}
  /\ Ops(ReleasePhase) = {<<"release", w>> : w \in Queues}
<1>1. CapturePhase \in Seq(Steps)
  BY DEF CapturePhase, Steps, Workers, Captures, Encoders
<1>2. OutputPhase \in Seq(Steps)
  BY DEF OutputPhase, Steps, Workers
<1>3. ReleasePhase \in Seq(Steps)
  BY DEF ReleasePhase, Steps, Workers, Captures, Encoders
<1>4. Ops(ReleasePhase) = {<<"release", w>> : w \in Queues}
  <2>1. Ops(ReleasePhase) = {<<"release", "inference">>, <<"release", "video_encode">>,
                             <<"release", "audio_encode">>}
    BY OpsOfThree DEF ReleasePhase
  <2>2. QED
    BY <2>1 DEF Queues
<1>5. Ops(CapturePhase) =
        {<<"cancel", "monitor">>, <<"cancel", "video_capture">>, <<"cancel", "audio_capture">>,
         <<"release", "video_capture">>, <<"release", "audio_capture">>,
         <<"join", "video_capture">>, <<"join", "audio_capture">>}
  BY OpsOfSeven DEF CapturePhase
<1>6. Ops(OutputPhase) = {<<"stop", "router">>, <<"adopt", "router">>, <<"join", "monitor">>}
  BY OpsOfThree DEF OutputPhase
<1>7. QED
  BY <1>1, <1>2, <1>3, <1>4, <1>5, <1>6

(* What the phase of the queues does: only an abort cancels their threads. *)
LEMMA QueuePhaseOps ==
  ASSUME NEW m \in {"drain", "abort"}
  PROVE  /\ QueuePhase(m) \in Seq(Steps)
         /\ Ops(QueuePhase(m)) =
              {<<"close", w>> : w \in Queues} \cup {<<"join", w>> : w \in Queues}
              \cup (IF m = "abort" THEN {<<"cancel", w>> : w \in Queues} ELSE {})
<1> DEFINE closes == << <<"close", "inference">>, <<"close", "video_encode">>,
                        <<"close", "audio_encode">> >>
           cancels == << <<"cancel", "inference">>, <<"cancel", "video_encode">>,
                         <<"cancel", "audio_encode">> >>
           joins == << <<"join", "inference">>, <<"join", "video_encode">>,
                       <<"join", "audio_encode">> >>
           middle == IF m = "abort" THEN cancels ELSE <<>>
<1>1. QueuePhase(m) = (closes \o middle) \o joins
  BY DEF QueuePhase
<1>2. closes \in Seq(Steps) /\ joins \in Seq(Steps) /\ cancels \in Seq(Steps)
      /\ <<>> \in Seq(Steps)
  BY DEF Steps, Workers, Encoders
<1>3. /\ Ops(closes) = {<<"close", w>> : w \in Queues}
      /\ Ops(cancels) = {<<"cancel", w>> : w \in Queues}
      /\ Ops(joins) = {<<"join", w>> : w \in Queues}
  <2>1. /\ Ops(closes) = {<<"close", "inference">>, <<"close", "video_encode">>,
                        <<"close", "audio_encode">>}
        /\ Ops(cancels) = {<<"cancel", "inference">>, <<"cancel", "video_encode">>,
                         <<"cancel", "audio_encode">>}
        /\ Ops(joins) = {<<"join", "inference">>, <<"join", "video_encode">>,
                       <<"join", "audio_encode">>}
    BY OpsOfThree
  <2> HIDE DEF closes, cancels, joins
  <2>2. QED
    BY <2>1 DEF Queues
<1>4. Ops(<<>>) = {}
  BY DEF Ops
<1> HIDE DEF closes, cancels, joins
<1>5. /\ middle \in Seq(Steps)
      /\ Ops(middle) = IF m = "abort" THEN {<<"cancel", w>> : w \in Queues} ELSE {}
  BY <1>2, <1>3, <1>4
<1> DEFINE first == closes \o middle
<1> HIDE DEF middle
<1>6. /\ first \in Seq(Steps)
      /\ Ops(first) = Ops(closes) \cup Ops(middle)
  BY <1>2, <1>5, OpsOfConcat
<1>7. QueuePhase(m) = first \o joins
  BY <1>1
<1> HIDE DEF first
<1>8. /\ QueuePhase(m) \in Seq(Steps)
      /\ Ops(QueuePhase(m)) = Ops(first) \cup Ops(joins)
  BY <1>2, <1>6, <1>7, OpsOfConcat
<1>9. QED
  BY <1>3, <1>5, <1>6, <1>8

(* An order of operations of which a phase has at most one. *)
LEMMA BeforeTrivially ==
  ASSUME NEW p, NEW x, NEW y, x \notin Ops(p) \/ y \notin Ops(p)
  PROVE  Before(x, y, p)
BY DEF Before, Ops

(* The plan of StopWorkers: everything is joined, closed and released, in an
   order in which nothing is released or stopped under its users. *)
LEMMA PlanIsOrdered ==
  ASSUME NEW m \in {"drain", "abort"}
  PROVE  /\ Plan(m) \in Seq(Steps)
         /\ \A w \in Workers : <<"join", w>> \in Ops(Plan(m))
         /\ \A d \in Devices : <<"release", d>> \in Ops(Plan(m))
         /\ <<"stop", "router">> \in Ops(Plan(m)) /\ <<"adopt", "router">> \in Ops(Plan(m))
         /\ m = "drain" => \A w \in Queues : <<"cancel", w>> \notin Ops(Plan(m))
         /\ Ordered(Plan(m))
<1> DEFINE p1 == CapturePhase
           p2 == QueuePhase(m)
           p3 == OutputPhase
           p4 == ReleasePhase
<1>1. p1 \in Seq(Steps) /\ p2 \in Seq(Steps) /\ p3 \in Seq(Steps) /\ p4 \in Seq(Steps)
  BY PhaseOps, QueuePhaseOps
<1>2. /\ Ops(p1) =
           {<<"cancel", "monitor">>, <<"cancel", "video_capture">>,
            <<"cancel", "audio_capture">>, <<"release", "video_capture">>,
            <<"release", "audio_capture">>, <<"join", "video_capture">>,
            <<"join", "audio_capture">>}
      /\ Ops(p2) = {<<"close", w>> : w \in Queues} \cup {<<"join", w>> : w \in Queues}
                   \cup (IF m = "abort" THEN {<<"cancel", w>> : w \in Queues} ELSE {})
      /\ Ops(p3) = {<<"stop", "router">>, <<"adopt", "router">>, <<"join", "monitor">>}
      /\ Ops(p4) = {<<"release", w>> : w \in Queues}
  BY PhaseOps, QueuePhaseOps
<1>3. Before(<<"stop", "router">>, <<"adopt", "router">>, p3)
  <2>1. Len(OutputPhase) = 3 /\ 1 .. 3 = {1, 2, 3}
    BY DEF OutputPhase
  <2>2. /\ OutputPhase[1] = <<"stop", "router">>
        /\ OutputPhase[2] = <<"adopt", "router">>
        /\ OutputPhase[3] = <<"join", "monitor">>
    BY DEF OutputPhase
  <2>3. /\ <<"stop", "router">> # <<"adopt", "router">>
        /\ <<"stop", "router">> # <<"join", "monitor">>
        /\ <<"adopt", "router">> # <<"join", "monitor">>
    OBVIOUS
  <2>4. QED
    BY <2>1, <2>2, <2>3 DEF Before
<1>4. Plan(m) = ((p1 \o p2) \o p3) \o p4
  BY DEF Plan
<1> HIDE DEF p1, p2, p3, p4
<1> DEFINE c2 == p1 \o p2
           c3 == c2 \o p3
<1>5. Plan(m) = c3 \o p4
  BY <1>4
<1>6. /\ c2 \in Seq(Steps)
      /\ Ops(c2) = Ops(p1) \cup Ops(p2)
  BY <1>1, OpsOfConcat
<1>7. ASSUME NEW x, NEW y, Before(x, y, p1), Before(x, y, p2),
             x \notin Ops(p2) \/ y \notin Ops(p1)
      PROVE  Before(x, y, c2)
  BY <1>1, <1>7, BeforeConcat
<1> HIDE DEF c2
<1>8. /\ c3 \in Seq(Steps)
      /\ Ops(c3) = Ops(p1) \cup Ops(p2) \cup Ops(p3)
  BY <1>1, <1>6, OpsOfConcat
<1>9. ASSUME NEW x, NEW y, Before(x, y, c2), Before(x, y, p3),
             x \notin Ops(p3) \/ y \notin Ops(c2)
      PROVE  Before(x, y, c3)
  BY <1>1, <1>6, <1>9, BeforeConcat
<1> HIDE DEF c3
<1>10. /\ Plan(m) \in Seq(Steps)
       /\ Ops(Plan(m)) = Ops(p1) \cup Ops(p2) \cup Ops(p3) \cup Ops(p4)
  BY <1>1, <1>5, <1>8, OpsOfConcat
<1>11. ASSUME NEW x, NEW y, Before(x, y, p1), Before(x, y, p2), Before(x, y, p3),
              Before(x, y, p4),
              x \notin Ops(p2) \/ y \notin Ops(p1),
              x \notin Ops(p3) \/ y \notin Ops(p1) \cup Ops(p2),
              x \notin Ops(p4) \/ y \notin Ops(p1) \cup Ops(p2) \cup Ops(p3)
       PROVE  Before(x, y, Plan(m))
  <2>1. Before(x, y, c2)
    BY <1>7, <1>11
  <2>2. Before(x, y, c3)
    BY <1>6, <1>9, <1>11, <2>1
  <2>3. x \notin Ops(p4) \/ y \notin Ops(c3)
    BY <1>8, <1>11
  <2>4. QED
    BY <1>1, <1>5, <1>8, <1>11, <2>2, <2>3, BeforeConcat
<1>12. ASSUME NEW w \in Queues
       PROVE  Before(<<"join", w>>, <<"release", w>>, Plan(m))
  <2>1. /\ <<"release", w>> \notin Ops(p1) /\ <<"release", w>> \notin Ops(p2)
        /\ <<"release", w>> \notin Ops(p3)
        /\ <<"join", w>> \notin Ops(p4)
    BY <1>2 DEF Queues
  <2>2. QED
    BY <1>11, <2>1, BeforeTrivially
<1>13. ASSUME NEW e \in Encoders
       PROVE  Before(<<"join", e>>, <<"stop", "router">>, Plan(m))
  <2>1. /\ <<"stop", "router">> \notin Ops(p1) /\ <<"stop", "router">> \notin Ops(p2)
        /\ <<"stop", "router">> \notin Ops(p4)
        /\ <<"join", e>> \notin Ops(p3) /\ <<"join", e>> \notin Ops(p4)
    BY <1>2 DEF Encoders
  <2>2. QED
    BY <1>11, <2>1, BeforeTrivially
<1>14. Before(<<"stop", "router">>, <<"adopt", "router">>, Plan(m))
  <2>1. /\ <<"stop", "router">> \notin Ops(p1) /\ <<"stop", "router">> \notin Ops(p2)
        /\ <<"stop", "router">> \notin Ops(p4)
        /\ <<"adopt", "router">> \notin Ops(p1) /\ <<"adopt", "router">> \notin Ops(p2)
    BY <1>2
  <2>2. QED
    BY <1>3, <1>11, <2>1, BeforeTrivially
<1>15. \A w \in Workers : <<"join", w>> \in Ops(Plan(m))
  BY <1>2, <1>10 DEF Workers, Captures, Encoders, Queues
<1>16. \A d \in Devices : <<"release", d>> \in Ops(Plan(m))
  BY <1>2, <1>10 DEF Devices, Workers, Captures, Encoders, Queues
<1>17. m = "drain" => \A w \in Queues : <<"cancel", w>> \notin Ops(Plan(m))
  <2> SUFFICES ASSUME m = "drain", NEW w \in Queues, <<"cancel", w>> \in Ops(Plan(m))
               PROVE  FALSE
    OBVIOUS
  <2>1. m # "abort"
    OBVIOUS
  <2>2. QED
    BY <1>2, <1>10, <2>1 DEF Queues
<1>18. <<"stop", "router">> \in Ops(Plan(m)) /\ <<"adopt", "router">> \in Ops(Plan(m))
  BY <1>2, <1>10
<1>19. QED
  BY <1>10, <1>12, <1>13, <1>14, <1>15, <1>16, <1>17, <1>18 DEF Ordered

-----------------------------------------------------------------------------
(* Type correctness *)

(* What the setup says. *)
LEMMA SetupTypes ==
  ASSUME TypeOK
  PROVE  /\ setup.delay \in Nat
         /\ setup.policy \in [Queues -> Policies]
         /\ setup.policy["audio_encode"] = "block_producer"
         /\ setup.faults \subseteq Workers \cup {"start", "router", "stall"}
         /\ Capacity \in [Queues -> Nat \ {0}]
BY ApplicationAssumption DEF TypeOK, IsSetup

(* The steps of the threads. *)
WorkerStep ==
  \/ \E c \in Captures : CaptureStep(c)
  \/ VideoStep
  \/ AudioStep
  \/ \E w \in Queues : ConsumerStep(w)
  \/ Infer
  \/ SkipFrame
  \/ \E e \in Encoders : EncoderStep(e)
  \/ MonitorStep
  \/ \E w \in Workers : ReportStep(w)

(* A thread that moves changes nothing of the owner's. *)
LEMMA WorkerFrame ==
  ASSUME WorkerStep
  PROVE  UNCHANGED <<ownerVars, routerVars, requester, setup>>
BY DEF WorkerStep, CaptureStep, LoopAgain, LoopEnds, CaptureFrame, ReadCancelled,
       ReadRetries, ReadFails, PushRefused, PushFrame, VideoStep, ReadFindsClosed,
       PushDecides, PushSleeps, AudioStep, PushTimesOut, ConsumerStep, PopFrame, PopEnds,
       WorkFails, Infer, SkipFrame, EncoderStep, Encode, DecideFlush, Flush, FlushFails,
       MonitorStep, MonitorSleeps, MonitorReports, ReportStep, StoreError, ReportStop,
       NoteReason, Fail, OnlyAt

(* A thread moves from place to place; only PopFrame also wakes another one. *)
LEMMA WorkerMoves ==
  ASSUME TypeOK, WorkerStep
  PROVE  /\ at' \in [Workers -> Places]
         /\ \E w \in Workers : Active(w)
         /\ \A v \in Workers : at'[v] = "unborn" <=> at[v] = "unborn"
         /\ \A v \in Workers : at[v] = "done" => at'[v] = "done"
<1> DEFINE Goal == /\ at' \in [Workers -> Places]
                   /\ \E w \in Workers : Active(w)
                   /\ \A v \in Workers : at'[v] = "unborn" <=> at[v] = "unborn"
                   /\ \A v \in Workers : at[v] = "done" => at'[v] = "done"
<1>1. at \in [Workers -> Places]
  BY DEF TypeOK
<1>2. ASSUME NEW w \in Workers, NEW p \in Places, p # "unborn", Active(w), Move(w, p)
      PROVE  Goal
  BY <1>1, <1>2 DEF Move, Active
<1>3. ASSUME NEW c \in Captures, CaptureStep(c)
      PROVE  Goal
  <2>1. c \in Workers
    BY Names
  <2>2. CASE PushFrame(c)
    <3>1. CASE UNCHANGED at
      BY <1>1, <2>1, <2>2, <3>1 DEF PushFrame, Active
    <3>2. CASE Move(c, "loop")
      <4>1. Active(c)
        BY <2>2 DEF PushFrame, Active
      <4>2. QED
        BY <1>2, <2>1, <3>2, <4>1 DEF Places
    <3>3. QED
      BY <2>2, <3>1, <3>2 DEF PushFrame, Proceed
  <2>3. CASE ~PushFrame(c)
    <3>1. Active(c)
      BY <1>3, <2>3 DEF CaptureStep, LoopAgain, LoopEnds, CaptureFrame, ReadCancelled,
         ReadRetries, ReadFails, PushRefused, Active
    <3>2. \E p \in {"checking", "reading", "done", "pushing", "loop", "reporting"} : Move(c, p)
      BY <1>3, <2>3 DEF CaptureStep, LoopAgain, LoopEnds, CaptureFrame, ReadCancelled,
         ReadRetries, ReadFails, PushRefused, Fail
    <3>3. QED
      BY <1>2, <2>1, <3>1, <3>2 DEF Places
  <2>4. QED
    BY <2>2, <2>3
<1>4. ASSUME VideoStep \/ AudioStep
      PROVE  Goal
  <2>1. PICK c \in Captures : /\ Active(c)
                              /\ \E p \in {"reporting", "deciding", "sleeping"} : Move(c, p)
    BY <1>4, Names DEF VideoStep, AudioStep, ReadFindsClosed, PushDecides, PushSleeps,
       PushTimesOut, Active, Fail
  <2>2. QED
    BY <1>2, <2>1, Names DEF Places
<1>5. ASSUME NEW w \in Queues, ConsumerStep(w)
      PROVE  Goal
  <2>1. w \in Workers /\ w # "video_capture"
    BY Names
  <2>2. Active(w)
    BY <1>5 DEF ConsumerStep, PopFrame, PopEnds, WorkFails, Active
  <2>3. CASE PopFrame(w)
    <3> DEFINE moved == [at EXCEPT ![w] = "working"]
    <3>1. at' = moved \/ at' = WakeProducer(moved)
      BY <2>3 DEF PopFrame
    <3>2. /\ moved \in [Workers -> Places]
          /\ \A v \in Workers : moved[v] = "unborn" <=> at[v] = "unborn"
          /\ \A v \in Workers : at[v] = "done" => moved[v] = "done"
      BY <1>1, <2>1, <2>2 DEF Places, Active
    <3> HIDE DEF moved
    <3>3. /\ at' \in [Workers -> Places]
          /\ \A v \in Workers : \/ at'[v] = moved[v]
                                \/ moved[v] = "sleeping" /\ at'[v] = "pushing"
      BY <3>1, <3>2, Names DEF WakeProducer, Places
    <3>4. QED
      BY <2>1, <2>2, <3>2, <3>3
  <2>4. CASE PopEnds(w) \/ WorkFails(w)
    <3>1. \E p \in {"leaving", "done", "reporting"} : Move(w, p)
      BY <2>4 DEF PopEnds, WorkFails, Fail
    <3>2. QED
      BY <1>2, <2>1, <2>2, <3>1 DEF Places
  <2>5. QED
    BY <1>5, <2>3, <2>4 DEF ConsumerStep
<1>6. ASSUME Infer \/ SkipFrame
      PROVE  Goal
  <2>1. PICK w \in Queues : Active(w) /\ \E p \in {"loop", "done"} : Move(w, p)
    BY <1>6, Names DEF Infer, SkipFrame, Active
  <2>2. QED
    BY <1>2, <2>1, Names DEF Places
<1>7. ASSUME NEW e \in Encoders, EncoderStep(e)
      PROVE  Goal
  <2>1. Active(e) /\ \E p \in {"loop", "done", "flushing", "reporting"} : Move(e, p)
    BY <1>7 DEF EncoderStep, Encode, DecideFlush, Flush, FlushFails, Fail, Active
  <2>2. QED
    BY <1>2, <2>1, Names DEF Places
<1>8. ASSUME MonitorStep
      PROVE  Goal
  <2>1. Active("monitor")
        /\ \E p \in {"checking", "reading", "done", "loop", "reporting"} : Move("monitor", p)
    BY <1>8 DEF MonitorStep, LoopAgain, LoopEnds, MonitorSleeps, MonitorReports, Fail, Active
  <2>2. QED
    BY <1>2, <2>1, Names DEF Places
<1>9. ASSUME NEW w \in Workers, ReportStep(w)
      PROVE  Goal
  <2>1. Active(w)
    BY <1>9 DEF ReportStep, StoreError, ReportStop, NoteReason, Active
  <2>2. AfterReport(w) \in {"leaving", "done"}
    BY DEF AfterReport
  <2>3. Move(w, "requesting") \/ Move(w, "noting") \/ Move(w, AfterReport(w))
    BY <1>9 DEF ReportStep, StoreError, ReportStop, NoteReason
  <2>4. QED
    BY <1>2, <2>1, <2>2, <2>3 DEF Places
<1>10. QED
  BY <1>3, <1>4, <1>5, <1>6, <1>7, <1>8, <1>9 DEF WorkerStep

(* What the queue operations make of a channel. *)
LEMMA PushedIs ==
  ASSUME TypeOK, NEW q \in Queues
  PROVE  \E lost \in 0 .. queue[q].kept :
           /\ lost > 0 => Full(q)
           /\ Pushed(q) \in [Queues -> Channels]
           /\ \A r \in Queues \ {q} : Pushed(q)[r] = queue[r]
           /\ Pushed(q)[q].accepted = queue[q].accepted + 1
           /\ Pushed(q)[q].kept = (queue[q].kept - lost) + 1
           /\ Pushed(q)[q].phase = queue[q].phase
           /\ Pushed(q)[q].last = queue[q].last
<1>1. /\ queue \in [Queues -> Channels]
      /\ queue[q] \in Channels
      /\ Capacity[q] \in Nat \ {0}
  BY SetupTypes DEF TypeOK
<1>2. queue[q].kept \in Nat /\ queue[q].accepted \in Nat
  BY <1>1 DEF Channels
<1> DEFINE lost == IF ~Full(q) THEN 0
                   ELSE IF setup.policy[q] = "drop_oldest" THEN 1 ELSE queue[q].kept
           more == queue[q].accepted + 1
           kept == (queue[q].kept - lost) + 1
           new == [queue[q] EXCEPT !.accepted = more, !.kept = kept]
<1>3. lost \in 0 .. queue[q].kept /\ (lost > 0 => Full(q))
  BY <1>1, <1>2 DEF Full
<1>4. Pushed(q) = [queue EXCEPT ![q] = new]
  BY DEF Pushed
<1> HIDE DEF lost
<1>5. more \in Nat /\ kept \in Nat
  BY <1>2, <1>3
<1> HIDE DEF more, kept
<1>6. /\ new \in Channels
      /\ new.accepted = more
      /\ new.kept = kept
      /\ new.phase = queue[q].phase
      /\ new.last = queue[q].last
  BY <1>1, <1>5 DEF Channels
<1> HIDE DEF new
<1>7. /\ Pushed(q) \in [Queues -> Channels]
      /\ \A r \in Queues \ {q} : Pushed(q)[r] = queue[r]
      /\ Pushed(q)[q] = new
  BY <1>1, <1>4, <1>6
<1>8. QED
  BY <1>3, <1>6, <1>7 DEF more, kept

(* Pop takes the oldest frame, of which the channel keeps the number. *)
LEMMA PoppedIs ==
  ASSUME TypeOK, NEW q \in Queues, queue[q].kept > 0, queue[q].kept <= queue[q].accepted
  PROVE  /\ Popped(q) \in [Queues -> Channels]
         /\ \A r \in Queues \ {q} : Popped(q)[r] = queue[r]
         /\ Popped(q)[q].accepted = queue[q].accepted
         /\ Popped(q)[q].kept = queue[q].kept - 1
         /\ Popped(q)[q].phase = queue[q].phase
         /\ Popped(q)[q].last = (queue[q].accepted - queue[q].kept) + 1
<1>1. /\ queue \in [Queues -> Channels]
      /\ queue[q] \in Channels
  BY DEF TypeOK
<1>2. queue[q].kept \in Nat /\ queue[q].accepted \in Nat
  BY <1>1 DEF Channels
<1> DEFINE new == [queue[q] EXCEPT !.last = (queue[q].accepted - queue[q].kept) + 1,
                                   !.kept = queue[q].kept - 1]
<1>3. Popped(q) = [queue EXCEPT ![q] = new]
  BY DEF Popped
<1>4. (queue[q].accepted - queue[q].kept) + 1 \in Nat /\ queue[q].kept - 1 \in Nat
  BY <1>2
<1>5. /\ new \in Channels
      /\ new.accepted = queue[q].accepted
      /\ new.kept = queue[q].kept - 1
      /\ new.phase = queue[q].phase
      /\ new.last = (queue[q].accepted - queue[q].kept) + 1
  BY <1>1, <1>2, <1>4 DEF Channels
<1> HIDE DEF new
<1>6. /\ Popped(q) \in [Queues -> Channels]
      /\ \A r \in Queues \ {q} : Popped(q)[r] = queue[r]
      /\ Popped(q)[q] = new
  BY <1>1, <1>3, <1>5
<1>7. QED
  BY <1>5, <1>6

(* Close in drain mode keeps the frames, in abort mode it drops them. *)
LEMMA ClosedIs ==
  ASSUME TypeOK, NEW q \in Queues, NEW m \in {"drain", "abort"}
  PROVE  /\ Closed(q, m) \in [Queues -> Channels]
         /\ \A r \in Queues \ {q} : Closed(q, m)[r] = queue[r]
         /\ Closed(q, m)[q].accepted = queue[q].accepted
         /\ Closed(q, m)[q].last = queue[q].last
         /\ \/ Closed(q, m)[q] = queue[q]
            \/ /\ m = "drain"
               /\ queue[q].phase = "open"
               /\ Closed(q, m)[q].phase = "draining"
               /\ Closed(q, m)[q].kept = queue[q].kept
            \/ /\ m = "abort"
               /\ Closed(q, m)[q].kept = 0
<1>1. /\ queue \in [Queues -> Channels]
      /\ queue[q] \in Channels
  BY DEF TypeOK
<1> DEFINE aborted == [queue[q] EXCEPT !.phase = "aborted", !.kept = 0]
           draining == [queue[q] EXCEPT !.phase = "draining"]
<1>2. \/ Closed(q, m) = queue
      \/ m = "abort" /\ Closed(q, m) = [queue EXCEPT ![q] = aborted]
      \/ m = "drain" /\ queue[q].phase = "open" /\ Closed(q, m) = [queue EXCEPT ![q] = draining]
  <2>1. queue[q].phase # "open" => (queue[q].phase # "aborted" \/ m = "drain")
                                   \/ m = "abort"
    OBVIOUS
  <2>2. QED
    BY <2>1 DEF Closed
<1>3. /\ aborted \in Channels /\ aborted.accepted = queue[q].accepted
      /\ aborted.last = queue[q].last /\ aborted.kept = 0
  BY <1>1 DEF Channels
<1>4. /\ draining \in Channels /\ draining.accepted = queue[q].accepted
      /\ draining.last = queue[q].last /\ draining.kept = queue[q].kept
      /\ draining.phase = "draining"
  BY <1>1 DEF Channels
<1> HIDE DEF aborted, draining
<1>5. QED
  BY <1>1, <1>2, <1>3, <1>4

(* The variables of the threads keep their types. *)
LEMMA WorkerTypes ==
  ASSUME TypeOK, CountersFollow, WorkerStep
  PROVE  TypeOK'
<1> DEFINE Status == /\ stopRequested' \in BOOLEAN
                     /\ stopReason' \in {"not_stopped", "fatal_error", "requested", "destructor"}
                     /\ error' \in Causes \cup {"none"}
                     /\ why' \in [Workers -> Causes \cup {"none"}]
           Counts == /\ target' \in {"inference", "video_encode"}
                     /\ captured' \in [Captures -> Nat]
                     /\ queue' \in [Queues -> Channels]
                     /\ held' \in [Encoders -> 0 .. setup.delay]
                     /\ encoded' \in [Encoders -> Nat]
                     /\ submitted' \in [Encoders -> Nat]
                     /\ missed' \in Nat
<1>1. Status /\ UNCHANGED <<target, captured, queue, held, encoded, submitted, missed>>
        => Status /\ Counts
  BY DEF TypeOK
<1>2. Counts /\ UNCHANGED <<statusVars, why>> => Status /\ Counts
  BY DEF TypeOK, statusVars
<1>3. ASSUME NEW w \in Workers, NEW what \in Causes, Fail(w, what)
      PROVE  Status /\ Counts
  <2>1. Status
    BY <1>3 DEF Fail, TypeOK, statusVars
  <2>2. QED
    BY <1>1, <1>3, <2>1 DEF Fail
<1>4. ASSUME OnlyAt
      PROVE  Status /\ Counts
  <2>1. Status
    BY <1>4 DEF OnlyAt, TypeOK, statusVars
  <2>2. QED
    BY <1>1, <1>4, <2>1 DEF OnlyAt
<1>5. ASSUME NEW c \in Captures, CaptureStep(c)
      PROVE  Status /\ Counts
  <2>1. CASE LoopAgain(c) \/ LoopEnds(c) \/ ReadCancelled(c) \/ ReadRetries(c) \/ PushRefused(c)
    BY <1>4, <2>1 DEF LoopAgain, LoopEnds, ReadCancelled, ReadRetries, PushRefused
  <2>2. CASE CaptureFrame(c)
    <3>1. Counts
      BY <2>2 DEF CaptureFrame, TypeOK
    <3>2. QED
      BY <1>2, <2>2, <3>1 DEF CaptureFrame
  <2>3. CASE ReadFails(c)
    BY <1>3, <2>3 DEF ReadFails, Causes, Workers
  <2>4. CASE PushFrame(c)
    <3> DEFINE q == PushTarget(c)
    <3>1. q \in Queues
      BY DEF PushTarget, TypeOK, Queues
    <3>2. queue' = queue \/ queue' = Pushed(q)
      BY <2>4 DEF PushFrame
    <3> HIDE DEF q
    <3>3. queue' \in [Queues -> Channels]
      BY <3>1, <3>2, PushedIs DEF TypeOK
    <3>4. target' \in {"inference", "video_encode"}
      BY <2>4 DEF PushFrame, Proceed, TypeOK
    <3>5. Counts
      BY <2>4, <3>3, <3>4 DEF PushFrame, TypeOK
    <3>6. QED
      BY <1>2, <2>4, <3>5 DEF PushFrame
  <2>5. QED
    BY <1>5, <2>1, <2>2, <2>3, <2>4 DEF CaptureStep
<1>6. ASSUME VideoStep \/ AudioStep
      PROVE  Status /\ Counts
  <2>1. CASE PushDecides \/ PushSleeps
    BY <1>4, <2>1 DEF PushDecides, PushSleeps
  <2>2. CASE ReadFindsClosed
    BY <1>3, <2>2, Names DEF ReadFindsClosed, Causes
  <2>3. CASE PushTimesOut
    BY <1>3, <2>3, Names DEF PushTimesOut, Causes
  <2>4. QED
    BY <1>6, <2>1, <2>2, <2>3 DEF VideoStep, AudioStep
<1>7. ASSUME NEW w \in Queues, ConsumerStep(w)
      PROVE  Status /\ Counts
  <2>1. w \in Workers
    BY Names
  <2>2. CASE PopFrame(w)
    <3>1. /\ queue[w].kept > 0 /\ queue' = Popped(w)
          /\ encoded' = IF w \in Encoders THEN [encoded EXCEPT ![w] = @ + 1] ELSE encoded
          /\ UNCHANGED <<why, target, captured, held, submitted, missed, statusVars>>
      BY <2>2 DEF PopFrame
    <3>2. queue' \in [Queues -> Channels]
      BY <3>1, PoppedIs DEF CountersFollow
    <3>3. encoded' \in [Encoders -> Nat]
      BY <3>1 DEF TypeOK
    <3>4. Counts
      BY <3>1, <3>2, <3>3 DEF TypeOK
    <3>5. QED
      BY <1>2, <3>1, <3>4
  <2>3. CASE PopEnds(w)
    BY <1>4, <2>3 DEF PopEnds
  <2>4. CASE WorkFails(w)
    BY <1>3, <2>1, <2>4 DEF WorkFails, Causes
  <2>5. QED
    BY <1>7, <2>2, <2>3, <2>4 DEF ConsumerStep
<1>8. ASSUME Infer
      PROVE  Status /\ Counts
  BY <1>4, <1>8 DEF Infer
<1>9. ASSUME SkipFrame
      PROVE  Status /\ Counts
  <2>1. encoded["video_encode"] > 0 /\ encoded["video_encode"] \in Nat
    BY <1>9, Names DEF SkipFrame, CountersFollow, TypeOK
  <2>2. encoded' \in [Encoders -> Nat]
    <3>1. encoded["video_encode"] - 1 \in Nat
      BY <2>1
    <3>2. encoded' = [encoded EXCEPT !["video_encode"] = encoded["video_encode"] - 1]
      BY <1>9 DEF SkipFrame
    <3>3. QED
      BY <3>1, <3>2 DEF TypeOK
  <2>3. Counts
    BY <1>9, <2>2 DEF SkipFrame, TypeOK
  <2>4. QED
    BY <1>2, <1>9, <2>3 DEF SkipFrame
<1>10. ASSUME NEW e \in Encoders, NEW n \in Nat, Submit(e, n)
       PROVE  submitted' \in [Encoders -> Nat] /\ missed' \in Nat
  <2>1. submitted \in [Encoders -> Nat] /\ missed \in Nat
    BY DEF TypeOK
  <2>2. QED
    BY <1>10, <2>1 DEF Submit
<1>11. ASSUME NEW e \in Encoders, EncoderStep(e)
       PROVE  Status /\ Counts
  <2>1. e \in Workers /\ held[e] \in 0 .. setup.delay /\ setup.delay \in Nat
    BY Names, SetupTypes DEF TypeOK
  <2>2. CASE Encode(e)
    <3>1. PICK n \in 0 .. held[e] + 1 :
            /\ (held[e] + 1) - n <= setup.delay
            /\ held' = [held EXCEPT ![e] = (@ + 1) - n]
            /\ Submit(e, n)
      BY <2>2 DEF Encode
    <3>2. (held[e] + 1) - n \in 0 .. setup.delay /\ n \in Nat
      BY <2>1, <3>1
    <3>3. held' \in [Encoders -> 0 .. setup.delay]
      BY <3>1, <3>2 DEF TypeOK
    <3>4. Counts
      BY <1>10, <2>2, <3>1, <3>2, <3>3 DEF Encode, TypeOK
    <3>5. QED
      BY <1>2, <2>2, <3>4 DEF Encode
  <2>3. CASE DecideFlush(e)
    BY <1>4, <2>3 DEF DecideFlush
  <2>4. CASE Flush(e)
    <3>1. held' \in [Encoders -> 0 .. setup.delay] /\ held[e] \in Nat
      BY <2>1, <2>4 DEF Flush, TypeOK
    <3>2. Counts
      BY <1>10, <2>4, <3>1 DEF Flush, TypeOK
    <3>3. QED
      BY <1>2, <2>4, <3>2 DEF Flush
  <2>5. CASE FlushFails(e)
    BY <1>3, <2>1, <2>5 DEF FlushFails, Causes
  <2>6. QED
    BY <1>11, <2>2, <2>3, <2>4, <2>5 DEF EncoderStep
<1>12. ASSUME MonitorStep
       PROVE  Status /\ Counts
  <2>1. CASE LoopAgain("monitor") \/ LoopEnds("monitor") \/ MonitorSleeps
    BY <1>4, <2>1 DEF LoopAgain, LoopEnds, MonitorSleeps
  <2>2. CASE MonitorReports
    BY <1>3, <2>2, Names DEF MonitorReports, Causes
  <2>3. QED
    BY <1>12, <2>1, <2>2 DEF MonitorStep
<1>13. ASSUME NEW w \in Workers, ReportStep(w)
       PROVE  Status /\ Counts
  <2>1. Status
    <3>1. FirstError(why[w]) \in Causes \cup {"none"}
      BY DEF FirstError, TypeOK
    <3>2. QED
      BY <1>13, <3>1 DEF ReportStep, StoreError, ReportStop, NoteReason, TypeOK
  <2>2. UNCHANGED <<target, captured, queue, held, encoded, submitted, missed>>
    BY <1>13 DEF ReportStep, StoreError, ReportStop, NoteReason
  <2>3. QED
    BY <1>1, <2>1, <2>2
<1>14. Status /\ Counts
  BY <1>5, <1>6, <1>7, <1>8, <1>9, <1>11, <1>12, <1>13 DEF WorkerStep
<1>15. UNCHANGED <<state, token, open, main, plan, mode, router, routerError, requester, setup>>
  BY WorkerFrame DEF ownerVars, routerVars
<1>16. QED
  BY <1>14, <1>15, WorkerMoves DEF TypeOK

-----------------------------------------------------------------------------
(* The steps of the threads *)

(* What may be at the bottom of an error: something that is at fault, the router,
   an audio queue that stays full, or MockVideoCapture. *)
Justified(what) ==
  what = "overrun" \/ setup.faults # {} \/ setup.mockVideo \/ routerError

(* A thread that neither fails nor stores its error leaves the errors alone, and
   asks for a stop only when one is stored. *)
Uneventful ==
  /\ UNCHANGED <<error, why>>
  /\ \A v \in Workers :
       \/ at'[v] = at[v]
       \/ /\ at[v] # "reporting" /\ at'[v] # "reporting"
          /\ at'[v] \in {"requesting", "noting"} => error # "none"

(* What a step of a thread may do to the errors. *)
LEMMA WorkerIsOneOf ==
  ASSUME TypeOK, CausesAreStored, WorkerStep
  PROVE  \/ \E w \in Workers : \E what \in Causes : Fail(w, what) /\ Justified(what)
         \/ \E w \in Workers : StoreError(w)
         \/ Uneventful
<1> DEFINE Fails == \E w \in Workers : \E what \in Causes : Fail(w, what) /\ Justified(what)
           Goal == Fails \/ (\E w \in Workers : StoreError(w)) \/ Uneventful
<1>1. at \in [Workers -> Places]
  BY DEF TypeOK
<1>2. ASSUME NEW w \in Workers, NEW what \in Causes, Fail(w, what), Justified(what)
      PROVE  Goal
  BY <1>2
<1>3. ASSUME NEW w \in Workers, at[w] # "reporting",
             NEW p \in Places \ {"reporting", "requesting", "noting"},
             Move(w, p), UNCHANGED <<error, why>>
      PROVE  Goal
  <2>1. \A v \in Workers : at'[v] = at[v] \/ (v = w /\ at'[v] = p)
    BY <1>1, <1>3 DEF Move
  <2>2. QED
    BY <1>3, <2>1 DEF Uneventful
<1> HIDE DEF Goal
<1>4. ASSUME NEW c \in Captures, CaptureStep(c)
      PROVE  Goal
  <2>1. c \in Workers
    BY Names
  <2>2. CASE ReadFails(c)
    <3>1. c \in Causes /\ Justified(c) /\ Fail(c, c)
      BY <2>1, <2>2 DEF ReadFails, Causes, Justified
    <3>2. QED
      BY <1>2, <2>1, <3>1
  <2>3. CASE PushFrame(c)
    <3>1. /\ UNCHANGED <<error, why>> /\ at[c] = "pushing"
          /\ UNCHANGED at \/ Move(c, "loop")
      BY <2>3 DEF PushFrame, Proceed, statusVars
    <3>2. CASE UNCHANGED at
      BY <3>1, <3>2 DEF Goal, Uneventful
    <3>3. CASE Move(c, "loop")
      BY <1>3, <2>1, <3>1, <3>3 DEF Places
    <3>4. QED
      BY <3>1, <3>2, <3>3
  <2>4. CASE ~ReadFails(c) /\ ~PushFrame(c)
    <3>1. /\ UNCHANGED <<error, why>> /\ at[c] # "reporting"
          /\ \E p \in {"checking", "reading", "done", "pushing", "loop"} : Move(c, p)
      BY <1>4, <2>4 DEF CaptureStep, LoopAgain, LoopEnds, CaptureFrame, ReadCancelled,
         ReadRetries, PushRefused, OnlyAt, statusVars
    <3>2. QED
      BY <1>3, <2>1, <3>1 DEF Places
  <2>5. QED
    BY <2>2, <2>3, <2>4
<1>5. ASSUME VideoStep \/ AudioStep
      PROVE  Goal
  <2>1. CASE PushDecides \/ PushSleeps
    <3>1. /\ UNCHANGED <<error, why>> /\ at["video_capture"] # "reporting"
          /\ \E p \in {"deciding", "sleeping"} : Move("video_capture", p)
      BY <2>1 DEF PushDecides, PushSleeps, OnlyAt, statusVars
    <3>2. QED
      BY <1>3, <3>1, Names DEF Places
  <2>2. CASE ReadFindsClosed
    BY <1>2, <2>2, Names DEF ReadFindsClosed, Causes, Justified
  <2>3. CASE PushTimesOut
    BY <1>2, <2>3, Names DEF PushTimesOut, Causes, Justified
  <2>4. QED
    BY <1>5, <2>1, <2>2, <2>3 DEF VideoStep, AudioStep
<1>6. ASSUME NEW w \in Queues, ConsumerStep(w)
      PROVE  Goal
  <2>1. w \in Workers
    BY Names
  <2>2. CASE PopFrame(w)
    <3> DEFINE moved == [at EXCEPT ![w] = "working"]
    <3>1. /\ UNCHANGED <<error, why>> /\ at[w] = "loop"
          /\ at' = moved \/ at' = WakeProducer(moved)
      BY <2>2 DEF PopFrame, statusVars
    <3>2. \A v \in Workers : moved[v] = at[v] \/ (at[v] = "loop" /\ moved[v] = "working")
      BY <1>1, <3>1
    <3>3. moved \in [Workers -> Places]
      BY <1>1 DEF Places
    <3> HIDE DEF moved
    <3>4. \A v \in Workers : \/ at'[v] = moved[v]
                             \/ moved[v] = "sleeping" /\ at'[v] = "pushing"
      BY <3>1, <3>3, Names DEF WakeProducer
    <3>5. Uneventful
      BY <3>1, <3>2, <3>4 DEF Uneventful
    <3>6. QED
      BY <3>5 DEF Goal
  <2>3. CASE PopEnds(w)
    <3>1. /\ UNCHANGED <<error, why>> /\ at[w] # "reporting"
          /\ \E p \in {"leaving", "done"} : Move(w, p)
      BY <2>3 DEF PopEnds, OnlyAt, statusVars
    <3>2. QED
      BY <1>3, <2>1, <3>1 DEF Places
  <2>4. CASE WorkFails(w)
    <3>1. w \in Causes /\ Justified(w) /\ Fail(w, w)
      BY <2>1, <2>4 DEF WorkFails, Causes, Justified
    <3>2. QED
      BY <1>2, <2>1, <3>1
  <2>5. QED
    BY <1>6, <2>2, <2>3, <2>4 DEF ConsumerStep
<1>7. ASSUME Infer \/ SkipFrame
      PROVE  Goal
  <2>1. PICK w \in Queues : /\ UNCHANGED <<error, why>> /\ at[w] # "reporting"
                            /\ \E p \in {"loop", "done"} : Move(w, p)
    BY <1>7, Names DEF Infer, SkipFrame, OnlyAt, statusVars
  <2>2. QED
    BY <1>3, <2>1, Names DEF Places
<1>8. ASSUME NEW e \in Encoders, EncoderStep(e)
      PROVE  Goal
  <2>1. e \in Workers
    BY Names
  <2>2. CASE FlushFails(e)
    BY <1>2, <2>1, <2>2 DEF FlushFails, Causes, Justified
  <2>3. CASE Encode(e) \/ DecideFlush(e) \/ Flush(e)
    <3>1. /\ UNCHANGED <<error, why>> /\ at[e] # "reporting"
          /\ \E p \in {"loop", "done", "flushing"} : Move(e, p)
      BY <2>3 DEF Encode, DecideFlush, Flush, OnlyAt, statusVars
    <3>2. QED
      BY <1>3, <2>1, <3>1 DEF Places
  <2>4. QED
    BY <1>8, <2>2, <2>3 DEF EncoderStep
<1>9. ASSUME MonitorStep
      PROVE  Goal
  <2>1. CASE MonitorReports
    <3>1. \/ Fail("monitor", "router") /\ Justified("router")
          \/ Fail("monitor", "stall") /\ Justified("stall")
      BY <2>1 DEF MonitorReports, Justified
    <3>2. QED
      BY <1>2, <3>1, Names DEF Causes
  <2>2. CASE LoopAgain("monitor") \/ LoopEnds("monitor") \/ MonitorSleeps
    <3>1. /\ UNCHANGED <<error, why>> /\ at["monitor"] # "reporting"
          /\ \E p \in {"checking", "reading", "done", "loop"} : Move("monitor", p)
      BY <2>2 DEF LoopAgain, LoopEnds, MonitorSleeps, OnlyAt, statusVars
    <3>2. QED
      BY <1>3, <3>1, Names DEF Places
  <2>3. QED
    BY <1>9, <2>1, <2>2 DEF MonitorStep
<1>10. ASSUME NEW w \in Workers, ReportStep(w)
       PROVE  Goal
  <2>1. AfterReport(w) \in {"leaving", "done"}
    BY DEF AfterReport
  <2>2. CASE StoreError(w)
    BY <2>2 DEF Goal
  <2>3. CASE ReportStop(w)
    <3>1. /\ error # "none" /\ at[w] # "reporting" /\ UNCHANGED <<error, why>>
          /\ Move(w, "noting") \/ Move(w, AfterReport(w))
      BY <2>3 DEF ReportStop, CausesAreStored
    <3>2. CASE Move(w, "noting")
      <4>1. \A v \in Workers : at'[v] = at[v] \/ (v = w /\ at'[v] = "noting")
        BY <1>1, <3>2 DEF Move
      <4>2. QED
        BY <3>1, <4>1 DEF Goal, Uneventful
    <3>3. CASE Move(w, AfterReport(w))
      BY <1>3, <2>1, <3>1, <3>3 DEF Places
    <3>4. QED
      BY <3>1, <3>2, <3>3
  <2>4. CASE NoteReason(w)
    <3>1. UNCHANGED <<error, why>> /\ at[w] # "reporting" /\ Move(w, AfterReport(w))
      BY <2>4 DEF NoteReason
    <3>2. QED
      BY <1>3, <2>1, <3>1 DEF Places
  <2>5. QED
    BY <1>10, <2>2, <2>3, <2>4 DEF ReportStep
<1>11. QED
  BY <1>4, <1>5, <1>6, <1>7, <1>8, <1>9, <1>10 DEF WorkerStep, Goal

(* So an error that is stored stays, and is there before a stop is asked for. *)
LEMMA WorkerErrors ==
  ASSUME TypeOK, CausesAreStored, WorkerStep
  PROVE  /\ error # "none" => error' = error
         /\ CausesAreStored'
<1> DEFINE Goal == /\ error # "none" => error' = error
                   /\ CausesAreStored'
<1>1. at \in [Workers -> Places] /\ why \in [Workers -> Causes \cup {"none"}]
  BY DEF TypeOK
<1>2. ASSUME NEW w \in Workers, NEW what \in Causes, Fail(w, what)
      PROVE  Goal
  <2>1. /\ why' = [why EXCEPT ![w] = what]
        /\ at' = [at EXCEPT ![w] = "reporting"]
        /\ error' = error
        /\ what # "none"
    BY <1>2 DEF Fail, Move, statusVars, Causes, Workers, Captures, Encoders
  <2>2. QED
    BY <1>1, <2>1 DEF CausesAreStored
<1>3. ASSUME NEW w \in Workers, StoreError(w)
      PROVE  Goal
  <2>1. /\ why[w] # "none" /\ error' = FirstError(why[w]) /\ why' = why
        /\ at' = [at EXCEPT ![w] = "requesting"]
    BY <1>3 DEF StoreError, CausesAreStored, Move
  <2>2. error' # "none" /\ (error # "none" => error' = error)
    BY <2>1 DEF FirstError
  <2>3. QED
    BY <1>1, <2>1, <2>2 DEF CausesAreStored
<1>4. ASSUME Uneventful
      PROVE  Goal
  BY <1>4 DEF Uneventful, CausesAreStored
<1>5. QED
  BY <1>2, <1>3, <1>4, WorkerIsOneOf

(* An encoder that submits finds the router running. *)
LEMMA SubmitServed ==
  ASSUME TypeOK, UsersAreServed, NEW e \in Encoders, Active(e), NEW n, Submit(e, n)
  PROVE  submitted' = [submitted EXCEPT ![e] = @ + n] /\ missed' = missed
BY DEF UsersAreServed, Submit

(* So no packet misses the router. *)
LEMMA WorkerMisses ==
  ASSUME TypeOK, UsersAreServed, WorkerStep
  PROVE  missed' = 0
<1>1. missed = 0
  BY DEF UsersAreServed
<1>2. ASSUME NEW e \in Encoders, EncoderStep(e)
      PROVE  missed' = missed
  <2>1. CASE Encode(e) \/ Flush(e)
    <3>1. Active(e) /\ \E n : Submit(e, n)
      BY <2>1 DEF Encode, Flush, Active
    <3>2. QED
      BY <3>1, SubmitServed
  <2>2. CASE DecideFlush(e) \/ FlushFails(e)
    BY <2>2 DEF DecideFlush, FlushFails, Fail, OnlyAt
  <2>3. QED
    BY <1>2, <2>1, <2>2 DEF EncoderStep
<1>3. ASSUME WorkerStep, ~ \E e \in Encoders : EncoderStep(e)
      PROVE  missed' = missed
  BY <1>3 DEF WorkerStep, CaptureStep, LoopAgain, LoopEnds, CaptureFrame, ReadCancelled,
     ReadRetries, ReadFails, PushRefused, PushFrame, VideoStep, ReadFindsClosed,
     PushDecides, PushSleeps, AudioStep, PushTimesOut, ConsumerStep, PopFrame, PopEnds,
     WorkFails, Infer, SkipFrame, MonitorStep, MonitorSleeps, MonitorReports, ReportStep,
     StoreError, ReportStop, NoteReason, Fail, OnlyAt
<1>4. QED
  BY <1>1, <1>2, <1>3

(* What the owner relies on is untouched by the threads. *)
LEMMA WorkerFollows ==
  ASSUME AppInv, WorkerStep
  PROVE  StateFollows' /\ StartFollows' /\ UsersAreServed' /\ PlanFollows' /\ RestIsQuiet'
<1>1. TypeOK /\ StateFollows /\ StartFollows /\ UsersAreServed /\ PlanFollows /\ RestIsQuiet
      /\ CausesAreStored
  BY DEF AppInv
<1>2. /\ \E w \in Workers : Active(w)
      /\ \A v \in Workers : at'[v] = "unborn" <=> at[v] = "unborn"
      /\ \A v \in Workers : at[v] = "done" => at'[v] = "done"
  BY <1>1, WorkerMoves
<1>3. UNCHANGED <<state, token, open, main, plan, mode, router, routerError>>
  BY WorkerFrame DEF ownerVars, routerVars
<1>4. \A v \in Workers : Active(v)' => Active(v)
  BY <1>2 DEF Active
<1>5. error # "none" => error' # "none"
  BY <1>1, WorkerErrors
<1>6. StateFollows' /\ StartFollows'
  BY <1>1, <1>2, <1>3 DEF StateFollows, StartFollows
<1>7. UsersAreServed'
  BY <1>1, <1>3, <1>4, Names, WorkerMisses DEF UsersAreServed
<1>8. PlanFollows'
  <2> SUFFICES ASSUME main = "stopping"
               PROVE  (/\ \A x \in Ops(Plan(mode)) : x \in Ops(plan) \/ Effect(x)
                       /\ Ordered(plan)
                       /\ mode = "drain" => \A w \in Queues : <<"cancel", w>> \notin Ops(plan))'
    BY <1>3 DEF PlanFollows
  <2>1. Ops(Plan(mode))' = Ops(Plan(mode)) /\ Ops(plan)' = Ops(plan)
    BY <1>3 DEF Ops, Plan, QueuePhase
  <2>2. ASSUME NEW x, Effect(x)
        PROVE  Effect(x)'
    BY <1>3, <1>4, <1>5, <2>2 DEF Effect
  <2>3. Ordered(plan)'
    BY <1>1, <1>3 DEF PlanFollows, Ordered, Before
  <2>4. QED
    BY <1>1, <1>3, <2>1, <2>2, <2>3 DEF PlanFollows
<1>9. RestIsQuiet'
  BY <1>1, <1>2, <1>3 DEF RestIsQuiet, AtRest
<1>10. QED
  BY <1>6, <1>7, <1>8, <1>9

(* A thread counts what it takes. *)
LEMMA WorkerCounts ==
  ASSUME TypeOK, CountersFollow, WorkerStep
  PROVE  CountersFollow'
<1>1. /\ at \in [Workers -> Places] /\ queue \in [Queues -> Channels]
      /\ encoded \in [Encoders -> Nat] /\ Encoders \subseteq Queues /\ Queues \subseteq Workers
  BY Names DEF TypeOK
<1>2. \A q \in Queues : queue[q].kept \in Nat /\ queue[q].accepted \in Nat
  BY <1>1 DEF Channels
<1> DEFINE Kept == \A q \in Queues : queue'[q].kept <= queue'[q].accepted
           Taken == \A e \in Encoders : at'[e] = "working" => encoded'[e] > 0
<1>3. ASSUME NEW w \in Workers, NEW p \in Places \ {"working"}, Move(w, p),
             encoded' = encoded
      PROVE  Taken
  BY <1>1, <1>3 DEF Move, CountersFollow
<1>4. queue' = queue => Kept
  BY DEF CountersFollow
<1>5. ASSUME NEW c \in Captures, CaptureStep(c)
      PROVE  Kept /\ Taken
  <2>1. c \in Workers /\ c \notin Queues
    BY Names
  <2>2. CASE PushFrame(c)
    <3> DEFINE q == PushTarget(c)
    <3>1. q \in Queues
      BY DEF PushTarget, TypeOK, Queues
    <3>2. /\ queue' = queue \/ queue' = Pushed(q)
          /\ encoded' = encoded /\ (UNCHANGED at \/ Move(c, "loop"))
      BY <2>2 DEF PushFrame, Proceed
    <3> HIDE DEF q
    <3>3. CASE queue' = Pushed(q)
      <4>1. PICK lost \in 0 .. queue[q].kept :
              /\ \A r \in Queues \ {q} : Pushed(q)[r] = queue[r]
              /\ Pushed(q)[q].accepted = queue[q].accepted + 1
              /\ Pushed(q)[q].kept = (queue[q].kept - lost) + 1
        BY <3>1, PushedIs
      <4>2. Pushed(q)[q].kept <= Pushed(q)[q].accepted
        BY <1>2, <3>1, <4>1 DEF CountersFollow
      <4>3. Kept
        BY <3>3, <4>1, <4>2 DEF CountersFollow
      <4>4. QED
        BY <1>3, <2>1, <3>2, <4>3 DEF CountersFollow, Places
    <3>4. CASE queue' = queue
      BY <1>3, <1>4, <2>1, <3>2, <3>4 DEF CountersFollow, Places
    <3>5. QED
      BY <3>2, <3>3, <3>4
  <2>3. CASE ~PushFrame(c)
    <3>1. /\ queue' = queue /\ encoded' = encoded
          /\ \E p \in {"checking", "reading", "done", "pushing", "loop", "reporting"} : Move(c, p)
      BY <1>5, <2>3 DEF CaptureStep, LoopAgain, LoopEnds, CaptureFrame, ReadCancelled,
         ReadRetries, ReadFails, PushRefused, Fail, OnlyAt
    <3>2. QED
      BY <1>3, <1>4, <2>1, <3>1 DEF Places
  <2>4. QED
    BY <2>2, <2>3
<1>6. ASSUME VideoStep \/ AudioStep
      PROVE  Kept /\ Taken
  <2>1. /\ queue' = queue /\ encoded' = encoded
        /\ \E c \in Captures : \E p \in {"reporting", "deciding", "sleeping"} : Move(c, p)
    BY <1>6, Names DEF VideoStep, AudioStep, ReadFindsClosed, PushDecides, PushSleeps,
       PushTimesOut, Fail, OnlyAt
  <2>2. QED
    BY <1>3, <1>4, <2>1, Names DEF Places
<1>7. ASSUME NEW w \in Queues, ConsumerStep(w)
      PROVE  Kept /\ Taken
  <2>1. w \in Workers
    BY Names
  <2>2. CASE PopFrame(w)
    <3>1. /\ queue[w].kept > 0 /\ queue' = Popped(w)
          /\ encoded' = IF w \in Encoders THEN [encoded EXCEPT ![w] = @ + 1] ELSE encoded
      BY <2>2 DEF PopFrame
    <3>2. queue[w].kept <= queue[w].accepted
      BY DEF CountersFollow
    <3>3. /\ \A r \in Queues \ {w} : Popped(w)[r] = queue[r]
          /\ Popped(w)[w].accepted = queue[w].accepted
          /\ Popped(w)[w].kept = queue[w].kept - 1
      BY <3>1, <3>2, PoppedIs
    <3>4. Kept
      BY <1>2, <3>1, <3>2, <3>3 DEF CountersFollow
    <3> DEFINE moved == [at EXCEPT ![w] = "working"]
    <3>5. at' = moved \/ at' = WakeProducer(moved)
      BY <2>2 DEF PopFrame
    <3>6. ASSUME NEW e \in Encoders
          PROVE  at'[e] = moved[e]
      <4>1. e # "video_capture"
        BY Names
      <4>2. QED
        BY <1>1, <3>5, <4>1 DEF WakeProducer
    <3>7. ASSUME NEW e \in Encoders, at'[e] = "working"
          PROVE  encoded'[e] > 0
      <4>1. encoded[e] \in Nat
        BY <1>1
      <4>2. CASE e = w
        BY <1>1, <3>1, <4>1, <4>2
      <4>3. CASE e # w
        BY <1>1, <3>1, <3>6, <3>7, <4>3 DEF CountersFollow
      <4>4. QED
        BY <4>2, <4>3
    <3>8. QED
      BY <3>4, <3>7
  <2>3. CASE PopEnds(w) \/ WorkFails(w)
    <3>1. /\ queue' = queue /\ encoded' = encoded
          /\ \E p \in {"leaving", "done", "reporting"} : Move(w, p)
      BY <2>3 DEF PopEnds, WorkFails, Fail, OnlyAt
    <3>2. QED
      BY <1>3, <1>4, <2>1, <3>1 DEF Places
  <2>4. QED
    BY <1>7, <2>2, <2>3 DEF ConsumerStep
<1>8. ASSUME Infer
      PROVE  Kept /\ Taken
  <2>1. /\ queue' = queue /\ encoded' = encoded
        /\ \E p \in {"loop", "done"} : Move("inference", p)
    BY <1>8 DEF Infer, OnlyAt
  <2>2. QED
    BY <1>3, <1>4, <2>1, Names DEF Places
<1>9. ASSUME SkipFrame
      PROVE  Kept /\ Taken
  <2>1. /\ queue' = queue /\ Move("video_encode", "loop")
        /\ \A e \in Encoders \ {"video_encode"} : encoded'[e] = encoded[e]
    BY <1>1, <1>9 DEF SkipFrame
  <2>2. QED
    BY <1>1, <1>4, <2>1, Names DEF Move, CountersFollow
<1>10. ASSUME NEW e \in Encoders, EncoderStep(e)
       PROVE  Kept /\ Taken
  <2>1. /\ queue' = queue /\ encoded' = encoded
        /\ \E p \in {"loop", "done", "flushing", "reporting"} : Move(e, p)
    BY <1>10 DEF EncoderStep, Encode, DecideFlush, Flush, FlushFails, Fail, OnlyAt
  <2>2. QED
    BY <1>3, <1>4, <2>1, Names DEF Places
<1>11. ASSUME MonitorStep
       PROVE  Kept /\ Taken
  <2>1. /\ queue' = queue /\ encoded' = encoded
        /\ \E p \in {"checking", "reading", "done", "loop", "reporting"} : Move("monitor", p)
    BY <1>11 DEF MonitorStep, LoopAgain, LoopEnds, MonitorSleeps, MonitorReports, Fail, OnlyAt
  <2>2. QED
    BY <1>3, <1>4, <2>1, Names DEF Places
<1>12. ASSUME NEW w \in Workers, ReportStep(w)
       PROVE  Kept /\ Taken
  <2>1. AfterReport(w) \in {"leaving", "done"}
    BY DEF AfterReport
  <2>2. /\ queue' = queue /\ encoded' = encoded
        /\ Move(w, "requesting") \/ Move(w, "noting") \/ Move(w, AfterReport(w))
    BY <1>12 DEF ReportStep, StoreError, ReportStop, NoteReason
  <2>3. QED
    BY <1>3, <1>4, <2>1, <2>2 DEF Places
<1>13. Kept /\ Taken
  BY <1>5, <1>6, <1>7, <1>8, <1>9, <1>10, <1>11, <1>12 DEF WorkerStep
<1>14. QED
  BY <1>13 DEF CountersFollow

(* A queue or an encoder that a step does not concern is served as before. *)
LEMMA ServedFrame ==
  ASSUME NEW q \in Queues, QueueIsServed(q), queue'[q] = queue[q],
         at'[q] = at[q] \/ at'[q] \notin {"leaving", "flushing", "done"}
  PROVE  QueueIsServed(q)'
BY DEF QueueIsServed

(* The same for an encoder. *)
LEMMA EncoderFrame ==
  ASSUME NEW e \in Encoders, EncoderIsServed(e),
         UNCHANGED <<at[e], submitted[e], held[e], encoded[e]>>
  PROVE  EncoderIsServed(e)'
BY DEF EncoderIsServed

(* A graceful stop loses nothing: what each thread does to the accounts. *)
LEMMA WorkerLoses ==
  ASSUME AppInv, WorkerStep
  PROVE  NothingIsLost'
<1>1. TypeOK /\ UsersAreServed /\ CausesAreStored /\ CountersFollow
  BY DEF AppInv
<1>2. UNCHANGED <<mode, token, setup>>
  BY WorkerFrame DEF ownerVars
<1> DEFINE Body == /\ token \cap Queues = {}
                   /\ \A q \in Queues : QueueIsServed(q)
                   /\ \A e \in Encoders : EncoderIsServed(e)
                   /\ encoded["audio_encode"] + queue["audio_encode"].kept
                        = queue["audio_encode"].accepted
<1> SUFFICES ASSUME error' = "none", mode # "abort"
             PROVE  Body'
  BY <1>2 DEF NothingIsLost
<1>3. error = "none"
  BY <1>1, WorkerErrors
<1>4. Body
  BY <1>3 DEF AppInv, NothingIsLost
<1>5. /\ at \in [Workers -> Places] /\ queue \in [Queues -> Channels]
      /\ encoded \in [Encoders -> Nat] /\ submitted \in [Encoders -> Nat]
      /\ held \in [Encoders -> 0 .. setup.delay] /\ setup.delay \in Nat
  BY <1>1, SetupTypes DEF TypeOK
<1>6. \A q \in Queues : queue[q].kept \in Nat /\ queue[q].accepted \in Nat
  BY <1>5 DEF Channels
<1>7. \A e \in Encoders : encoded[e] \in Nat /\ submitted[e] \in Nat /\ held[e] \in Nat
  BY <1>5
<1>8. token' \cap Queues = {}
  BY <1>2, <1>4
<1>9. ASSUME UNCHANGED <<queue, submitted, held, encoded>>,
             \A q \in Queues : at'[q] = at[q]
      PROVE  Body'
  BY <1>4, <1>8, <1>9, Names DEF QueueIsServed, EncoderIsServed
<1>10. ASSUME NEW c \in Captures, CaptureStep(c)
       PROVE  Body'
  <2>1. c \in Workers /\ c \notin Queues
    BY Names
  <2>2. CASE PushFrame(c)
    <3>1. PICK q \in Queues : q = PushTarget(c)
      BY <1>1 DEF PushTarget, TypeOK, Queues
    <3>2. /\ queue[q].phase = "open"
          /\ \/ queue' = queue
             \/ /\ queue' = Pushed(q)
                /\ Full(q) => setup.policy[q] \in {"drop_oldest", "keep_latest"}
          /\ UNCHANGED <<submitted, held, encoded>>
          /\ UNCHANGED at \/ Move(c, "loop")
      BY <2>2, <3>1 DEF PushFrame, Proceed
    <3>3. \A r \in Queues : at'[r] = at[r]
      BY <1>5, <2>1, <3>2, Names DEF Move
    <3>4. CASE queue' = queue
      BY <1>9, <3>2, <3>3, <3>4
    <3>5. CASE queue' = Pushed(q) /\ (Full(q) => setup.policy[q] \in {"drop_oldest", "keep_latest"})
      <4>1. PICK lost \in 0 .. queue[q].kept :
              /\ lost > 0 => Full(q)
              /\ \A r \in Queues \ {q} : Pushed(q)[r] = queue[r]
              /\ Pushed(q)[q].accepted = queue[q].accepted + 1
              /\ Pushed(q)[q].kept = (queue[q].kept - lost) + 1
              /\ Pushed(q)[q].phase = queue[q].phase
        BY <1>1, <3>1, PushedIs
      <4>2. queue'[q].kept # 0
        BY <1>6, <3>1, <3>5, <4>1
      <4>3. at[q] \notin {"leaving", "flushing", "done"}
        BY <1>4, <3>1, <3>2 DEF QueueIsServed
      <4>4. QueueIsServed(q)'
        BY <3>1, <3>2, <3>3, <3>5, <4>1, <4>2, <4>3 DEF QueueIsServed
      <4>5. \A r \in Queues : QueueIsServed(r)'
        BY <1>4, <3>1, <3>3, <3>5, <4>1, <4>4, ServedFrame
      <4>6. \A e \in Encoders : EncoderIsServed(e)'
        BY <1>4, <3>2, <3>3, Names, EncoderFrame
      <4>7. (encoded["audio_encode"] + queue["audio_encode"].kept
                = queue["audio_encode"].accepted)'
        <5>1. CASE q = "audio_encode"
          <6>1. setup.policy["audio_encode"] = "block_producer"
            BY <1>1, SetupTypes
          <6>2. lost = 0
            BY <1>6, <3>1, <3>5, <4>1, <5>1, <6>1
          <6>3. encoded["audio_encode"] \in Nat /\ queue[q].kept \in Nat
            BY <1>6, <1>7, <3>1, Names
          <6>4. QED
            BY <1>4, <3>2, <3>5, <4>1, <5>1, <6>2, <6>3
        <5>2. CASE q # "audio_encode"
          BY <1>4, <3>2, <3>5, <4>1, <5>2, Names
        <5>3. QED
          BY <5>1, <5>2
      <4>8. QED
        BY <1>8, <4>5, <4>6, <4>7
    <3>6. QED
      BY <3>2, <3>4, <3>5
  <2>3. CASE ~PushFrame(c)
    <3>1. /\ UNCHANGED <<queue, submitted, held, encoded>>
          /\ \E p \in {"checking", "reading", "done", "pushing", "loop", "reporting"} : Move(c, p)
      BY <1>10, <2>3 DEF CaptureStep, LoopAgain, LoopEnds, CaptureFrame, ReadCancelled,
         ReadRetries, ReadFails, PushRefused, Fail, OnlyAt
    <3>2. \A q \in Queues : at'[q] = at[q]
      BY <1>5, <2>1, <3>1 DEF Move
    <3>3. QED
      BY <1>9, <3>1, <3>2
  <2>4. QED
    BY <2>2, <2>3
<1>11. ASSUME VideoStep \/ AudioStep
       PROVE  Body'
  <2>1. /\ UNCHANGED <<queue, submitted, held, encoded>>
        /\ \E c \in Captures : \E p \in {"reporting", "deciding", "sleeping"} : Move(c, p)
    BY <1>11, Names DEF VideoStep, AudioStep, ReadFindsClosed, PushDecides, PushSleeps,
       PushTimesOut, Fail, OnlyAt
  <2>2. \A q \in Queues : at'[q] = at[q]
    BY <1>5, <2>1, Names DEF Move
  <2>3. QED
    BY <1>9, <2>1, <2>2
<1>12. ASSUME NEW w \in Queues, PopFrame(w)
       PROVE  Body'
  <2>1. /\ at[w] = "loop"
        /\ queue[w].kept > 0 /\ queue' = Popped(w)
        /\ encoded' = IF w \in Encoders THEN [encoded EXCEPT ![w] = @ + 1] ELSE encoded
        /\ UNCHANGED <<submitted, held>>
    BY <1>12 DEF PopFrame
  <2>2. queue[w].kept <= queue[w].accepted
    BY <1>1 DEF CountersFollow
  <2>3. /\ \A r \in Queues \ {w} : queue'[r] = queue[r]
        /\ queue'[w].accepted = queue[w].accepted
        /\ queue'[w].kept = queue[w].kept - 1
        /\ queue'[w].phase = queue[w].phase
        /\ queue'[w].last = (queue[w].accepted - queue[w].kept) + 1
    BY <1>1, <2>1, <2>2, PoppedIs
  <2>4. /\ at'[w] = "working"
        /\ \A r \in Queues \ {w} : at'[r] = at[r]
    <3> DEFINE moved == [at EXCEPT ![w] = "working"]
    <3>1. at' = moved \/ at' = WakeProducer(moved)
      BY <1>12 DEF PopFrame
    <3>2. \A r \in Queues : r # "video_capture" /\ r \in Workers
      BY Names
    <3>3. \A r \in Queues : at'[r] = moved[r]
      BY <1>5, <3>1, <3>2 DEF WakeProducer
    <3>4. QED
      BY <1>5, <3>2, <3>3
  <2>5. QueueIsServed(w)'
    BY <1>4, <1>6, <2>2, <2>3, <2>4 DEF QueueIsServed
  <2>6. \A r \in Queues : QueueIsServed(r)'
    BY <1>4, <2>3, <2>4, <2>5, ServedFrame
  <2>7. ASSUME NEW e \in Encoders
        PROVE  EncoderIsServed(e)'
    <3>1. CASE e = w
      <4>1. encoded'[e] = encoded[e] + 1
        BY <1>5, <2>1, <3>1
      <4>2. submitted[e] + held[e] + 0 = encoded[e]
        BY <1>4, <2>1, <3>1 DEF EncoderIsServed
      <4>3. QED
        BY <1>7, <2>1, <2>4, <3>1, <4>1, <4>2 DEF EncoderIsServed
    <3>2. CASE e # w
      <4>1. encoded'[e] = encoded[e]
        BY <1>5, <2>1, <3>2
      <4>2. QED
        BY <1>4, <2>1, <2>4, <3>2, <4>1, Names, EncoderFrame
    <3>3. QED
      BY <3>1, <3>2
  <2>8. (encoded["audio_encode"] + queue["audio_encode"].kept
            = queue["audio_encode"].accepted)'
    <3>1. CASE w = "audio_encode"
      <4>1. encoded'["audio_encode"] = encoded["audio_encode"] + 1
        BY <1>5, <2>1, <3>1, Names
      <4>2. encoded["audio_encode"] \in Nat /\ queue[w].kept \in Nat
        BY <1>6, <1>7, Names
      <4>3. QED
        BY <1>4, <2>3, <3>1, <4>1, <4>2
    <3>2. CASE w # "audio_encode"
      BY <1>4, <1>5, <2>1, <2>3, <3>2, Names
    <3>3. QED
      BY <3>1, <3>2
  <2>9. QED
    BY <1>8, <2>6, <2>7, <2>8
<1>13. ASSUME NEW w \in Queues, UNCHANGED <<queue, submitted, held, encoded>>,
              Move(w, "reporting")
       PROVE  Body'
  <2>1. /\ at'[w] = "reporting"
        /\ \A r \in Queues \ {w} : at'[r] = at[r]
    BY <1>5, <1>13, Names DEF Move
  <2>2. \A r \in Queues : QueueIsServed(r)'
    BY <1>4, <1>13, <2>1, ServedFrame
  <2>3. \A e \in Encoders : EncoderIsServed(e)'
    <3>1. \A e \in Encoders : e = w \/ EncoderIsServed(e)'
      BY <1>4, <1>13, <2>1, Names, EncoderFrame
    <3>2. w \in Encoders => EncoderIsServed(w)'
      BY <2>1 DEF EncoderIsServed
    <3>3. QED
      BY <3>1, <3>2
  <2>4. QED
    BY <1>4, <1>8, <1>13, <2>2, <2>3
<1>14. ASSUME NEW w \in Queues, PopEnds(w)
       PROVE  Body'
  <2>1. /\ at[w] = "loop"
        /\ w \in token \/ Ended(w)
        /\ Move(w, IF w \in Encoders THEN "leaving" ELSE "done")
        /\ UNCHANGED <<queue, submitted, held, encoded>>
    BY <1>14 DEF PopEnds, OnlyAt
  <2>2. /\ at'[w] = IF w \in Encoders THEN "leaving" ELSE "done"
        /\ \A r \in Queues \ {w} : at'[r] = at[r]
    BY <1>5, <2>1, Names DEF Move
  <2>3. queue[w].phase = "draining" /\ queue[w].kept = 0
    BY <1>4, <2>1 DEF Ended, QueueIsServed
  <2>4. QueueIsServed(w)'
    BY <1>4, <2>1, <2>3 DEF QueueIsServed
  <2>5. \A r \in Queues : QueueIsServed(r)'
    BY <1>4, <2>1, <2>2, <2>4, ServedFrame
  <2>6. ASSUME NEW e \in Encoders
        PROVE  EncoderIsServed(e)'
    <3>1. \/ at'[e] = at[e]
          \/ at[e] = "loop" /\ at'[e] = "leaving"
      <4>1. CASE e = w
        BY <2>1, <2>2, <4>1
      <4>2. CASE e # w
        BY <2>2, <4>2, Names
      <4>3. QED
        BY <4>1, <4>2
    <3>2. QED
      BY <1>4, <2>1, <3>1 DEF EncoderIsServed
  <2>7. QED
    BY <1>4, <1>8, <2>1, <2>5, <2>6
<1>15. ASSUME NEW w \in Queues, ConsumerStep(w)
       PROVE  Body'
  <2>1. CASE WorkFails(w)
    BY <1>13, <2>1 DEF WorkFails, Fail
  <2>2. QED
    BY <1>12, <1>14, <1>15, <2>1 DEF ConsumerStep
<1>16. ASSUME Infer
       PROVE  Body'
  <2>1. /\ Move("inference", "loop")
        /\ UNCHANGED <<queue, submitted, held, encoded>>
    BY <1>4, <1>16, Names DEF Infer, OnlyAt
  <2>2. /\ at'["inference"] = "loop"
        /\ \A r \in Queues \ {"inference"} : at'[r] = at[r]
    BY <1>5, <2>1, Names DEF Move
  <2>3. \A r \in Queues : QueueIsServed(r)'
    BY <1>4, <2>1, <2>2, ServedFrame
  <2>4. \A e \in Encoders : EncoderIsServed(e)'
    BY <1>4, <2>1, <2>2, Names, EncoderFrame
  <2>5. QED
    BY <1>4, <1>8, <2>1, <2>3, <2>4
<1>17. ASSUME NEW e \in Encoders, UNCHANGED queue,
              Move(e, "loop") \/ Move(e, "done") \/ Move(e, "flushing"),
              at[e] \in {"working", "leaving", "flushing"},
              at[e] = "working" => Move(e, "loop"),
              EncoderIsServed(e)',
              \A f \in Encoders \ {e} :
                UNCHANGED <<submitted[f], held[f], encoded[f]>>,
              e = "video_encode" \/ encoded' = encoded
       PROVE  Body'
  <2>1. \A r \in Queues \ {e} : at'[r] = at[r]
    BY <1>5, <1>17, Names DEF Move
  <2>2. at'[e] \in {"loop", "done", "flushing"} /\ (at[e] = "working" => at'[e] = "loop")
    BY <1>5, <1>17, Names DEF Move
  <2>3. QueueIsServed(e)'
    BY <1>4, <1>17, <2>2, Names DEF QueueIsServed
  <2>4. \A r \in Queues : QueueIsServed(r)'
    BY <1>4, <1>17, <2>1, <2>3, ServedFrame
  <2>5. \A f \in Encoders : EncoderIsServed(f)'
    BY <1>4, <1>17, <2>1, Names, EncoderFrame
  <2>6. encoded'["audio_encode"] = encoded["audio_encode"]
    <3>1. "audio_encode" # "video_encode" /\ "audio_encode" \in Encoders
      BY Names
    <3>2. QED
      BY <1>17, <3>1
  <2>7. QED
    BY <1>4, <1>8, <1>17, <2>4, <2>5, <2>6
<1>18. ASSUME SkipFrame
       PROVE  Body'
  <2> DEFINE e == "video_encode"
  <2>1. /\ at[e] = "working" /\ Move(e, "loop")
        /\ encoded' = [encoded EXCEPT ![e] = @ - 1]
        /\ UNCHANGED <<queue, submitted, held>>
    BY <1>18 DEF SkipFrame
  <2>2. e \in Encoders /\ e \in Workers
    BY Names
  <2> HIDE DEF e
  <2>3. encoded'[e] = encoded[e] - 1 /\ at'[e] = "loop"
    BY <1>5, <2>1, <2>2 DEF Move
  <2>4. submitted[e] + held[e] + 1 = encoded[e]
    BY <1>4, <2>1, <2>2 DEF EncoderIsServed
  <2>5. EncoderIsServed(e)'
    BY <1>7, <2>1, <2>2, <2>3, <2>4 DEF EncoderIsServed
  <2>6. \A f \in Encoders \ {e} : UNCHANGED <<submitted[f], held[f], encoded[f]>>
    BY <1>5, <2>1
  <2>7. QED
    BY <1>17, <2>1, <2>2, <2>5, <2>6 DEF e
<1>19. ASSUME NEW e \in Encoders, EncoderStep(e)
       PROVE  Body'
  <2>1. e \in Workers /\ e \in Queues
    BY Names
  <2>2. CASE Encode(e)
    <3>1. PICK n \in 0 .. held[e] + 1 :
            /\ held' = [held EXCEPT ![e] = (@ + 1) - n]
            /\ Submit(e, n)
      BY <2>2 DEF Encode
    <3>2. /\ at[e] = "working" /\ Move(e, "loop") /\ UNCHANGED <<queue, encoded>>
      BY <2>2 DEF Encode
    <3>3. submitted' = [submitted EXCEPT ![e] = @ + n]
      BY <1>1, <3>1, <3>2, SubmitServed DEF Active
    <3>4. /\ held'[e] = (held[e] + 1) - n /\ submitted'[e] = submitted[e] + n
          /\ at'[e] = "loop"
      BY <1>5, <2>1, <3>1, <3>2, <3>3 DEF Move
    <3>5. submitted[e] + held[e] + 1 = encoded[e] /\ n \in Nat
      BY <1>4, <1>7, <3>2 DEF EncoderIsServed
    <3>6. EncoderIsServed(e)'
      BY <1>7, <3>2, <3>4, <3>5 DEF EncoderIsServed
    <3>7. \A f \in Encoders \ {e} : UNCHANGED <<submitted[f], held[f], encoded[f]>>
      BY <1>5, <3>1, <3>2, <3>3
    <3>8. QED
      BY <1>17, <3>2, <3>6, <3>7
  <2>3. CASE DecideFlush(e)
    <3>1. /\ at[e] = "leaving" /\ Move(e, "flushing")
          /\ UNCHANGED <<queue, submitted, held, encoded>>
      BY <1>4, <2>1, <2>3 DEF DecideFlush, OnlyAt
    <3>2. at'[e] = "flushing"
      BY <1>5, <2>1, <3>1 DEF Move
    <3>3. EncoderIsServed(e)'
      BY <1>4, <3>1, <3>2 DEF EncoderIsServed
    <3>4. QED
      BY <1>17, <3>1, <3>3
  <2>4. CASE Flush(e)
    <3>1. /\ at[e] = "flushing" /\ Move(e, "done")
          /\ held' = [held EXCEPT ![e] = 0]
          /\ Submit(e, held[e])
          /\ UNCHANGED <<queue, encoded>>
      BY <2>4 DEF Flush
    <3>2. submitted' = [submitted EXCEPT ![e] = @ + held[e]]
      BY <1>1, <3>1, SubmitServed DEF Active
    <3>3. /\ held'[e] = 0 /\ submitted'[e] = submitted[e] + held[e] /\ at'[e] = "done"
      BY <1>5, <2>1, <3>1, <3>2 DEF Move
    <3>4. submitted[e] + held[e] + 0 = encoded[e]
      BY <1>4, <3>1 DEF EncoderIsServed
    <3>5. EncoderIsServed(e)'
      BY <1>7, <3>1, <3>3, <3>4 DEF EncoderIsServed
    <3>6. \A f \in Encoders \ {e} : UNCHANGED <<submitted[f], held[f], encoded[f]>>
      BY <1>5, <3>1, <3>2
    <3>7. QED
      BY <1>17, <3>1, <3>5, <3>6
  <2>5. CASE FlushFails(e)
    BY <1>13, <2>1, <2>5 DEF FlushFails, Fail
  <2>6. QED
    BY <1>19, <2>2, <2>3, <2>4, <2>5 DEF EncoderStep
<1>20. ASSUME MonitorStep
       PROVE  Body'
  <2>1. /\ UNCHANGED <<queue, submitted, held, encoded>>
        /\ \E p \in {"checking", "reading", "done", "loop", "reporting"} : Move("monitor", p)
    BY <1>20 DEF MonitorStep, LoopAgain, LoopEnds, MonitorSleeps, MonitorReports, Fail, OnlyAt
  <2>2. \A q \in Queues : at'[q] = at[q]
    BY <1>5, <2>1, Names DEF Move
  <2>3. QED
    BY <1>9, <2>1, <2>2
<1>21. ASSUME NEW w \in Workers, ReportStep(w)
       PROVE  FALSE
  <2>1. StoreError(w) => error' # "none"
    BY <1>1 DEF StoreError, CausesAreStored, FirstError
  <2>2. ~ReportStop(w) /\ ~NoteReason(w)
    BY <1>1, <1>3 DEF ReportStop, NoteReason, CausesAreStored
  <2>3. QED
    BY <1>21, <2>1, <2>2 DEF ReportStep
<1>22. QED
  BY <1>10, <1>11, <1>15, <1>16, <1>18, <1>19, <1>20, <1>21 DEF WorkerStep

(* A step of a thread keeps the invariant. *)
LEMMA WorkerKeeps ==
  ASSUME AppInv, WorkerStep
  PROVE  AppInv'
<1>1. TypeOK /\ CausesAreStored /\ CountersFollow
  BY DEF AppInv
<1>2. QED
  BY <1>1, WorkerTypes, WorkerErrors, WorkerFollows, WorkerCounts, WorkerLoses DEF AppInv

-----------------------------------------------------------------------------
(* The steps of the owner outside StopWorkers *)

(* A step that leaves the threads and the error alone. *)
LEMMA ThreadsFrame ==
  ASSUME AppInv, UNCHANGED <<workerVars, error>>
  PROVE  /\ CausesAreStored'
         /\ CountersFollow'
         /\ \A w \in Workers : Active(w)' <=> Active(w)
         /\ token' = token /\ (mode' # "abort" => mode # "abort") => NothingIsLost'
<1>1. CausesAreStored /\ CountersFollow /\ NothingIsLost
  BY DEF AppInv
<1>2. UNCHANGED <<at, why, queue, held, encoded, submitted, error>>
  BY DEF workerVars
<1>3. CausesAreStored' /\ CountersFollow'
  BY <1>1, <1>2 DEF CausesAreStored, CountersFollow
<1>4. \A w \in Workers : Active(w)' <=> Active(w)
  BY <1>2 DEF Active
<1>5. ASSUME token' = token, mode' # "abort" => mode # "abort"
      PROVE  NothingIsLost'
  <2>1. ASSUME NEW q \in Queues, QueueIsServed(q)
        PROVE  QueueIsServed(q)'
    BY <1>2, <2>1 DEF QueueIsServed
  <2>2. ASSUME NEW e \in Encoders, EncoderIsServed(e)
        PROVE  EncoderIsServed(e)'
    BY <1>2, <2>2 DEF EncoderIsServed
  <2>3. QED
    BY <1>1, <1>2, <1>5, <2>1, <2>2 DEF NothingIsLost
<1>6. QED
  BY <1>3, <1>4, <1>5

(* The steps of other threads that only ask for a stop, or break the router. *)
LEMMA OutsideKeeps ==
  ASSUME AppInv, RequestStop \/ NoteRequest \/ RouterBreaks
  PROVE  AppInv'
<1>1. TypeOK /\ StateFollows /\ StartFollows /\ UsersAreServed /\ PlanFollows /\ RestIsQuiet
  BY DEF AppInv
<1>2. UNCHANGED <<workerVars, error, ownerVars, router, setup>>
  BY DEF RequestStop, NoteRequest, RouterBreaks, statusVars, routerVars
<1>3. UNCHANGED <<state, token, open, main, plan, mode>>
  BY <1>2 DEF ownerVars
<1>4. UNCHANGED <<at, why, target, captured, queue, held, encoded, submitted, missed>>
  BY <1>2 DEF workerVars
<1>5. \/ routerError' = routerError
      \/ router \in {"running", "stopping"} /\ routerError' = TRUE
  BY DEF RequestStop, NoteRequest, RouterBreaks, routerVars
<1>6. /\ stopRequested' \in BOOLEAN
      /\ stopReason' \in {"not_stopped", "fatal_error", "requested", "destructor"}
      /\ requester' \in {"idle", "noting", "done"}
  BY <1>1 DEF RequestStop, NoteRequest, RouterBreaks, statusVars, TypeOK
<1>7. TypeOK'
  <2>1. routerError' \in BOOLEAN
    BY <1>1, <1>5 DEF TypeOK
  <2>2. UNCHANGED <<error, router, setup>>
    BY <1>2
  <2>3. QED
    BY <1>1, <1>3, <1>4, <1>6, <2>1, <2>2 DEF TypeOK
<1>8. StateFollows' /\ StartFollows'
  BY <1>1, <1>2, <1>3, <1>4 DEF StateFollows, StartFollows
<1>9. UsersAreServed'
  BY <1>1, <1>2, <1>3, <1>4, Names, ThreadsFrame DEF UsersAreServed
<1>10. PlanFollows'
  <2>1. Ops(Plan(mode))' = Ops(Plan(mode)) /\ Ops(plan)' = Ops(plan)
    BY <1>3 DEF Ops, Plan, QueuePhase
  <2>2. ASSUME NEW x, Effect(x)
        PROVE  Effect(x)'
    BY <1>2, <1>3, <1>5, <2>2, ThreadsFrame DEF Effect
  <2>3. Ordered(plan)' <=> Ordered(plan)
    BY <1>3 DEF Ordered, Before
  <2>4. QED
    BY <1>1, <1>3, <2>1, <2>2, <2>3 DEF PlanFollows
<1>11. RestIsQuiet'
  BY <1>1, <1>2, <1>3, <1>5, ThreadsFrame DEF RestIsQuiet, AtRest
<1>12. QED
  BY <1>2, <1>3, <1>7, <1>8, <1>9, <1>10, <1>11, ThreadsFrame DEF AppInv

(* The steps of the owner that start no thread and carry out no plan. *)
OwnerStep ==
  \/ Start
  \/ OpenBackends
  \/ CreateRouter
  \/ StartSucceeds
  \/ StartFails
  \/ WaitEnds
  \/ Destroy
  \/ StopWorkers
  \/ Settle

(* Each worker has its place in the order of the launch. *)
LEMMA LaunchIsComplete ==
  /\ \A w \in Workers : \E i \in 1 .. Len(LaunchOrder) : LaunchOrder[i] = w
  /\ \A i \in 1 .. Len(LaunchOrder) : LaunchOrder[i] \in Workers
<1>1. Len(LaunchOrder) = 6 /\ 1 .. 6 = {1, 2, 3, 4, 5, 6}
  BY DEF LaunchOrder
<1>2. /\ LaunchOrder[1] = "inference" /\ LaunchOrder[2] = "video_encode"
      /\ LaunchOrder[3] = "audio_encode" /\ LaunchOrder[4] = "video_capture"
      /\ LaunchOrder[5] = "audio_capture" /\ LaunchOrder[6] = "monitor"
  BY DEF LaunchOrder
<1>3. QED
  BY <1>1, <1>2 DEF Workers, Captures, Encoders

(* With nothing left to do, everything has had its effect. *)
LEMMA PlanDone ==
  ASSUME AppInv, main = "stopping", plan = <<>>
  PROVE  /\ \A w \in Workers : ~Active(w)
         /\ open = {}
         /\ router \in {"absent", "stopped"}
         /\ routerError => error # "none"
<1>1. mode \in {"drain", "abort"} /\ open \subseteq Devices
  BY DEF AppInv, StartFollows, TypeOK
<1>2. Ops(plan) = {}
  BY DEF Ops
<1>3. \A x \in Ops(Plan(mode)) : Effect(x)
  BY <1>2 DEF AppInv, PlanFollows
<1>4. ASSUME NEW w \in Workers
      PROVE  ~Active(w)
  <2>1. Effect(<<"join", w>>)
    BY <1>1, <1>3, PlanIsOrdered
  <2>2. QED
    BY <2>1 DEF Effect
<1>5. ASSUME NEW d \in Devices
      PROVE  d \notin open
  <2>1. Effect(<<"release", d>>)
    BY <1>1, <1>3, PlanIsOrdered
  <2>2. QED
    BY <2>1 DEF Effect
<1>6. Effect(<<"adopt", "router">>)
  BY <1>1, <1>3, PlanIsOrdered
<1>7. QED
  BY <1>1, <1>4, <1>5, <1>6 DEF Effect

(* The owner's own steps keep the invariant: each phase of the lifecycle is entered ready. *)
LEMMA OwnerKeeps ==
  ASSUME AppInv, OwnerStep
  PROVE  AppInv'
<1>1. TypeOK /\ StateFollows /\ StartFollows /\ UsersAreServed /\ PlanFollows /\ RestIsQuiet
  BY DEF AppInv
<1>2. UNCHANGED <<workerVars, error, token, routerError, requester, setup>>
  BY DEF OwnerStep, Start, OpenBackends, CreateRouter, StartSucceeds, StartFails, WaitEnds,
     Destroy, StopWorkers, Settle, NotOwner, workerVars, statusVars, routerVars
<1>3. UNCHANGED <<at, why, target, captured, queue, held, encoded, submitted, missed>>
  BY <1>2 DEF workerVars
<1>4. \A w \in Workers : Active(w)' <=> Active(w)
  BY <1>2, ThreadsFrame
<1>5. StateFollows'
  <2>1. CASE Start \/ OpenBackends \/ CreateRouter \/ StartSucceeds \/ StartFails
    BY <1>1, <2>1 DEF Start, OpenBackends, CreateRouter, StartSucceeds, StartFails, StateFollows
  <2>2. CASE WaitEnds \/ StopWorkers \/ Settle
    BY <1>1, <2>2 DEF WaitEnds, StopWorkers, Settle, StateFollows
  <2>3. CASE Destroy
    BY <1>1, <2>3 DEF Destroy, StateFollows
  <2>4. QED
    BY <2>1, <2>2, <2>3 DEF OwnerStep
<1>6. StartFollows'
  <2>1. CASE Start
    BY <1>1, <1>3, <2>1 DEF Start, StartFollows, StateFollows, NotOwner
  <2>2. CASE OpenBackends \/ CreateRouter
    BY <1>1, <1>3, <2>2 DEF OpenBackends, CreateRouter, StartFollows, StateFollows, routerVars
  <2>3. CASE StartSucceeds
    <3>1. \A w \in Workers : at[w] # "unborn"
      BY <2>3, LaunchIsComplete DEF StartSucceeds, Unborn
    <3>2. QED
      BY <1>1, <1>3, <2>3, <3>1 DEF StartSucceeds, StartFollows, StateFollows, routerVars
  <2>4. CASE StartFails
    BY <1>1, <1>3, <2>4 DEF StartFails, StartFollows, StateFollows
  <2>5. CASE WaitEnds
    BY <1>1, <1>3, <2>5 DEF WaitEnds, StartFollows, StateFollows
  <2>6. CASE StopWorkers
    BY <1>1, <1>3, <2>6 DEF StopWorkers, StartFollows, StateFollows
  <2>7. CASE Settle
    BY <1>1, <1>3, <2>7 DEF Settle, StartFollows, StateFollows
  <2>8. CASE Destroy
    BY <1>1, <1>3, <2>8 DEF Destroy, StartFollows, StateFollows
  <2>9. QED
    BY <2>1, <2>2, <2>3, <2>4, <2>5, <2>6, <2>7, <2>8 DEF OwnerStep
<1>7. UsersAreServed'
  <2>1. CASE OpenBackends
    BY <1>1, <1>3, <1>4, <2>1, Names DEF OpenBackends, UsersAreServed, routerVars
  <2>2. CASE CreateRouter
    BY <1>1, <1>3, <1>4, <2>2, Names DEF CreateRouter, UsersAreServed
  <2>3. CASE ~OpenBackends /\ ~CreateRouter
    <3>1. UNCHANGED <<open, router>>
      BY <2>3 DEF OwnerStep, Start, StartSucceeds, StartFails, WaitEnds, Destroy, StopWorkers,
         Settle, routerVars
    <3>2. QED
      BY <1>1, <1>3, <1>4, <3>1, Names DEF UsersAreServed
  <2>4. QED
    BY <2>1, <2>2, <2>3
<1>8. plan' = plan \/ StopWorkers
  BY DEF OwnerStep, Start, OpenBackends, CreateRouter, StartSucceeds, StartFails, WaitEnds,
     Destroy, Settle
<1>9. ASSUME StopWorkers
      PROVE  /\ plan' = Plan(mode) /\ mode' = mode /\ mode \in {"drain", "abort"}
             /\ Plan(mode) \in Seq(Steps)
  BY <1>1, <1>9, PlanIsOrdered DEF StopWorkers, StartFollows
<1>10. PlanFollows'
  <2>1. CASE StopWorkers
    <3>1. Ops(Plan(mode))' = Ops(plan')
      BY <1>9, <2>1 DEF Ops, Plan, QueuePhase
    <3>2. Ops(plan)' = Ops(plan')
      BY DEF Ops
    <3>3. Ordered(plan)' <=> Ordered(plan')
      BY DEF Ordered, Before
    <3>4. QED
      BY <1>9, <2>1, <3>1, <3>2, <3>3, PlanIsOrdered DEF PlanFollows
  <2>2. CASE ~StopWorkers
    <3>1. main' # "stopping"
      BY <2>2 DEF OwnerStep, Start, OpenBackends, CreateRouter, StartSucceeds, StartFails,
         WaitEnds, Destroy, Settle
    <3>2. QED
      BY <3>1 DEF PlanFollows
  <2>3. QED
    BY <2>1, <2>2
<1>11. RestIsQuiet'
  <2>1. CASE Settle
    BY <1>2, <1>4, <2>1, PlanDone DEF Settle, RestIsQuiet, routerVars
  <2>2. CASE Destroy
    BY <1>1, <1>2, <1>4, <2>2 DEF Destroy, RestIsQuiet, AtRest, StateFollows, routerVars
  <2>3. CASE ~Settle /\ ~Destroy
    <3>1. main' \notin {"returned", "gone"}
      BY <2>3 DEF OwnerStep, Start, OpenBackends, CreateRouter, StartSucceeds, StartFails,
         WaitEnds, StopWorkers
    <3>2. QED
      BY <3>1 DEF RestIsQuiet, AtRest
  <2>4. QED
    BY <2>1, <2>2, <2>3
<1>12. mode' # "abort" => mode # "abort"
  BY <1>1 DEF OwnerStep, Start, OpenBackends, CreateRouter, StartSucceeds, StartFails, WaitEnds,
     Destroy, StopWorkers, Settle, StartFollows
<1>13. TypeOK'
  <2>1. /\ state' \in {"created", "initializing", "running", "stopping", "stopped", "failed"}
        /\ main' \in {"created", "opening", "routing", "launching", "serving", "leaving",
                      "stopping", "returned", "gone"}
        /\ mode' \in {"none", "drain", "abort"}
    BY <1>1 DEF OwnerStep, Start, OpenBackends, CreateRouter, StartSucceeds, StartFails,
       WaitEnds, Destroy, StopWorkers, Settle, TypeOK
  <2>2. /\ stopRequested' \in BOOLEAN
        /\ stopReason' \in {"not_stopped", "fatal_error", "requested", "destructor"}
    BY <1>1 DEF OwnerStep, Start, OpenBackends, CreateRouter, StartSucceeds, StartFails,
       WaitEnds, Destroy, StopWorkers, Settle, TypeOK, statusVars
  <2>3. /\ open' \in SUBSET Devices
        /\ router' \in {"absent", "running", "stopping", "stopped"}
    BY <1>1 DEF OwnerStep, Start, OpenBackends, CreateRouter, StartSucceeds, StartFails,
       WaitEnds, Destroy, StopWorkers, Settle, TypeOK, routerVars
  <2>4. plan' \in Seq(Steps)
    BY <1>1, <1>8, <1>9 DEF TypeOK, Steps
  <2>5. QED
    BY <1>1, <1>2, <1>3, <2>1, <2>2, <2>3, <2>4 DEF TypeOK, Steps
<1>14. QED
  BY <1>2, <1>5, <1>6, <1>7, <1>10, <1>11, <1>12, <1>13, ThreadsFrame DEF AppInv

(* The start of one thread. *)
LEMMA StartWorkerKeeps ==
  ASSUME AppInv, StartWorker
  PROVE  AppInv'
<1>1. /\ TypeOK /\ StateFollows /\ StartFollows /\ UsersAreServed /\ CausesAreStored
      /\ CountersFollow /\ NothingIsLost
  BY DEF AppInv
<1>2. /\ main = "launching"
      /\ UNCHANGED <<why, target, captured, queue, held, encoded, submitted, missed,
                     statusVars, ownerVars, routerVars, requester, setup>>
  BY DEF StartWorker, NotOwner, ownerVars
<1>3. UNCHANGED <<stopRequested, stopReason, error, state, token, open, main, plan, mode,
                  router, routerError>>
  BY <1>2 DEF statusVars, ownerVars, routerVars
<1>4. PICK w \in Workers : at[w] = "unborn" /\ at' = [at EXCEPT ![w] = "loop"]
  BY LaunchIsComplete DEF StartWorker, Unborn, Move
<1>5. /\ at' \in [Workers -> Places]
      /\ \A v \in Workers \ {w} : at'[v] = at[v]
      /\ at'[w] = "loop"
  BY <1>1, <1>4 DEF TypeOK, Places
<1>6. TypeOK'
  BY <1>1, <1>2, <1>3, <1>5 DEF TypeOK
<1>7. state = "initializing" /\ open = Devices /\ router = "running" /\ mode = "none"
  BY <1>1, <1>2 DEF StateFollows, StartFollows
<1>8. StateFollows' /\ StartFollows'
  BY <1>1, <1>2, <1>3, <1>7 DEF StateFollows, StartFollows
<1>9. UsersAreServed'
  BY <1>1, <1>2, <1>3, <1>7, Names DEF UsersAreServed
<1>10. PlanFollows' /\ RestIsQuiet'
  BY <1>2, <1>3 DEF PlanFollows, RestIsQuiet, AtRest
<1>11. CausesAreStored' /\ CountersFollow'
  BY <1>1, <1>2, <1>3, <1>5, Names DEF CausesAreStored, CountersFollow
<1>12. NothingIsLost'
  <2>1. ASSUME NEW q \in Queues, QueueIsServed(q)
        PROVE  QueueIsServed(q)'
    BY <1>2, <1>4, <1>5, <2>1, Names DEF QueueIsServed
  <2>2. ASSUME NEW e \in Encoders, EncoderIsServed(e)
        PROVE  EncoderIsServed(e)'
    BY <1>2, <1>4, <1>5, <2>2, Names DEF EncoderIsServed
  <2>3. QED
    BY <1>1, <1>2, <1>3, <2>1, <2>2 DEF NothingIsLost
<1>13. QED
  BY <1>6, <1>8, <1>9, <1>10, <1>11, <1>12 DEF AppInv

-----------------------------------------------------------------------------
(* The operations of StopWorkers *)

(* Waking the video thread does not make it more or less active. *)
LEMMA WakingIs ==
  ASSUME at \in [Workers -> Places], at' = at \/ at' = WakeProducer(at)
  PROVE  /\ at' \in [Workers -> Places]
         /\ \A w \in Workers : \/ at'[w] = at[w]
                               \/ at[w] = "sleeping" /\ at'[w] = "pushing"
         /\ \A q \in Queues : at'[q] = at[q]
<1>1. "video_capture" \in Workers /\ \A q \in Queues : q \in Workers /\ q # "video_capture"
  BY Names
<1>2. "pushing" \in Places
  BY DEF Places
<1>3. CASE at' = WakeProducer(at)
  BY <1>1, <1>2, <1>3 DEF WakeProducer
<1>4. QED
  BY <1>1, <1>3

(* What an operation of the plan has in common with the others. *)
PlanStep(op, on) ==
  /\ Due(op, on)
  /\ Done
  /\ UNCHANGED routerError
  /\ at' = at \/ at' = WakeProducer(at)
  /\ open' \subseteq open

(* An operation that has its effect, and undoes none, follows the plan. *)
LEMMA PlanStepFollows ==
  ASSUME AppInv, NEW op, NEW on, PlanStep(op, on),
         router \in {"absent", "stopped"} => router' = router,
         router # "running" => router' # "running",
         error # "none" => error' # "none",
         Effect(<<op, on>>)'
  PROVE  StateFollows' /\ StartFollows' /\ PlanFollows' /\ RestIsQuiet'
<1>1. TypeOK /\ StateFollows /\ StartFollows /\ PlanFollows
  BY DEF AppInv
<1>2. /\ main = "stopping" /\ plan # <<>> /\ Head(plan) = <<op, on>> /\ plan' = Tail(plan)
      /\ UNCHANGED <<state, main, mode, routerError>>
      /\ open' \subseteq open
      /\ at' = at \/ at' = WakeProducer(at)
  BY DEF PlanStep, Due, Done
<1>3. /\ plan \in Seq(Steps) /\ at \in [Workers -> Places]
  BY <1>1 DEF TypeOK, Steps
<1>4. \A w \in Workers : \/ at'[w] = at[w]
                         \/ at[w] = "sleeping" /\ at'[w] = "pushing"
  BY <1>2, <1>3, WakingIs
<1>5. \A w \in Workers : (Active(w)' <=> Active(w)) /\ (at'[w] = "unborn" <=> at[w] = "unborn")
  BY <1>4 DEF Active
<1>6. StateFollows' /\ StartFollows'
  BY <1>1, <1>2, <1>5 DEF StateFollows, StartFollows
<1>7. Ops(plan) = {<<op, on>>} \cup Ops(Tail(plan))
  BY <1>2, <1>3, OpsOfTail
<1>8. Ops(plan)' = Ops(Tail(plan)) /\ Ops(Plan(mode))' = Ops(Plan(mode))
  BY <1>2 DEF Ops, Plan, QueuePhase
<1>9. ASSUME NEW x, Effect(x)
      PROVE  Effect(x)'
  BY <1>2, <1>5, <1>9 DEF Effect
<1>10. Ordered(plan)'
  <2>1. Ordered(plan)
    BY <1>1, <1>2 DEF PlanFollows
  <2>2. ASSUME NEW x, NEW y, Before(x, y, plan)
        PROVE  Before(x, y, plan')
    BY <1>2, <1>3, <2>2, BeforeTail
  <2>3. Ordered(plan')
    BY <2>1, <2>2 DEF Ordered
  <2>4. QED
    BY <2>3 DEF Ordered, Before
<1>11. PlanFollows'
  <2>1. ASSUME NEW x \in Ops(Plan(mode))
        PROVE  x \in Ops(Tail(plan)) \/ Effect(x)'
    BY <1>1, <1>2, <1>7, <1>9 DEF PlanFollows
  <2>2. QED
    BY <1>1, <1>2, <1>7, <1>8, <1>10, <2>1 DEF PlanFollows
<1>12. RestIsQuiet'
  BY <1>2 DEF RestIsQuiet, AtRest
<1>13. QED
  BY <1>6, <1>11, <1>12

(* The accounts of an operation that leaves the queues and the tokens alone. *)
LEMMA PlanStepCounts ==
  ASSUME AppInv, NEW op, NEW on, PlanStep(op, on), error' = error, queue' = queue
  PROVE  /\ CausesAreStored' /\ CountersFollow'
         /\ token' \cap Queues \subseteq token \cap Queues \/ mode = "abort" => NothingIsLost'
<1>1. TypeOK /\ CausesAreStored /\ CountersFollow /\ NothingIsLost
  BY DEF AppInv
<1>2. /\ UNCHANGED <<why, held, encoded, submitted, mode>>
      /\ at' = at \/ at' = WakeProducer(at)
      /\ at \in [Workers -> Places]
  BY <1>1 DEF PlanStep, Done, NotOwner, TypeOK
<1>3. /\ \A w \in Workers : \/ at'[w] = at[w]
                            \/ at[w] = "sleeping" /\ at'[w] = "pushing"
      /\ \A q \in Queues : at'[q] = at[q]
  BY <1>2, WakingIs
<1>4. CausesAreStored' /\ CountersFollow'
  BY <1>1, <1>2, <1>3, Names DEF CausesAreStored, CountersFollow
<1>5. ASSUME token' \cap Queues \subseteq token \cap Queues \/ mode = "abort"
      PROVE  NothingIsLost'
  <2>1. ASSUME NEW q \in Queues, QueueIsServed(q)
        PROVE  QueueIsServed(q)'
    BY <1>3, <2>1 DEF QueueIsServed
  <2>2. ASSUME NEW e \in Encoders, EncoderIsServed(e)
        PROVE  EncoderIsServed(e)'
    BY <1>2, <1>3, <2>2, Names DEF EncoderIsServed
  <2>3. QED
    BY <1>1, <1>2, <1>5, <2>1, <2>2 DEF NothingIsLost
<1>6. QED
  BY <1>4, <1>5

(* The types of an operation of the plan. *)
LEMMA PlanStepTypes ==
  ASSUME TypeOK, NEW op, NEW on, PlanStep(op, on),
         UNCHANGED <<stopRequested, stopReason>>,
         error' \in Causes \cup {"none"}, queue' \in [Queues -> Channels],
         token' \subseteq Workers,
         router' \in {"absent", "running", "stopping", "stopped"}
  PROVE  TypeOK'
<1>1. /\ UNCHANGED <<state, main, mode, routerError>>
      /\ UNCHANGED <<why, target, captured, held, encoded, submitted, missed, requester, setup>>
      /\ plan # <<>> /\ plan' = Tail(plan) /\ open' \subseteq open
      /\ at' = at \/ at' = WakeProducer(at)
  BY DEF PlanStep, Due, Done, NotOwner
<1>2. plan \in Seq(Steps) /\ at \in [Workers -> Places] /\ open \subseteq Devices
  BY DEF TypeOK, Steps
<1>3. plan' \in Seq(Steps)
  BY <1>1, <1>2, OpsOfTail
<1>4. at' \in [Workers -> Places]
  BY <1>1, <1>2, WakingIs
<1>5. open' \subseteq Devices
  BY <1>1, <1>2
<1>6. QED
  BY <1>1, <1>3, <1>4, <1>5 DEF TypeOK, Steps

(* An operation that closes no backend in use and stops no router in use. *)
LEMMA PlanStepServes ==
  ASSUME AppInv, NEW op, NEW on, PlanStep(op, on),
         \A w \in Queues : w \in open \ open' => ~Active(w),
         \A e \in Encoders : Active(e) /\ router = "running" => router' = "running"
  PROVE  UsersAreServed'
<1>1. TypeOK /\ UsersAreServed
  BY DEF AppInv
<1>2. at \in [Workers -> Places] /\ missed' = missed /\ (at' = at \/ at' = WakeProducer(at))
  BY <1>1 DEF PlanStep, Done, NotOwner, TypeOK
<1>3. \A q \in Queues : at'[q] = at[q]
  BY <1>2, WakingIs
<1>4. \A q \in Queues : Active(q)' <=> Active(q)
  BY <1>3 DEF Active
<1>5. QED
  BY <1>1, <1>2, <1>4, Names DEF UsersAreServed

(* A thread whose join the plan has passed does not run. *)
LEMMA JoinedIsDone ==
  ASSUME AppInv, main = "stopping", NEW w \in Workers, <<"join", w>> \notin Ops(plan)
  PROVE  ~Active(w)
<1>1. mode \in {"drain", "abort"}
  BY DEF AppInv, StartFollows
<1>2. Effect(<<"join", w>>)
  BY <1>1, PlanIsOrdered DEF AppInv, PlanFollows
<1>3. QED
  BY <1>2 DEF Effect

(* A cancel reaches a thread that serves a queue only in an abort. *)
LEMMA CancelKeeps ==
  ASSUME AppInv, NEW w \in Workers, Cancel(w)
  PROVE  AppInv'
<1>1. /\ PlanStep("cancel", w)
      /\ token' = token \cup {w}
      /\ UNCHANGED <<queue, open, statusVars, routerVars>>
  BY DEF Cancel, PlanStep, routerVars
<1>2. UNCHANGED <<stopRequested, stopReason, error, router, routerError>>
  BY <1>1 DEF statusVars, routerVars
<1>3. TypeOK /\ PlanFollows
  BY DEF AppInv
<1>4. TypeOK'
  <2>1. /\ error' \in Causes \cup {"none"} /\ queue' \in [Queues -> Channels]
        /\ token' \subseteq Workers
        /\ router' \in {"absent", "running", "stopping", "stopped"}
    BY <1>1, <1>2, <1>3 DEF TypeOK
  <2>2. QED
    BY <1>1, <1>2, <1>3, <2>1, PlanStepTypes
<1>5. StateFollows' /\ StartFollows' /\ PlanFollows' /\ RestIsQuiet'
  <2>1. Effect(<<"cancel", w>>)'
    BY DEF Effect
  <2>2. QED
    BY <1>1, <1>2, <2>1, PlanStepFollows
<1>6. token' \cap Queues \subseteq token \cap Queues \/ mode = "abort"
  <2>1. main = "stopping" /\ plan # <<>> /\ Head(plan) = <<"cancel", w>>
        /\ plan \in Seq(Steps)
    BY <1>3 DEF Cancel, Due, TypeOK, Steps
  <2>2. <<"cancel", w>> \in Ops(plan)
    BY <2>1, OpsOfTail
  <2>3. mode \in {"drain", "abort"}
    BY <2>1 DEF AppInv, StartFollows
  <2>4. mode = "drain" => w \notin Queues
    BY <1>3, <2>1, <2>2 DEF PlanFollows
  <2>5. QED
    BY <1>1, <2>3, <2>4
<1>7. CausesAreStored' /\ CountersFollow' /\ NothingIsLost'
  BY <1>1, <1>2, <1>6, PlanStepCounts
<1>8. UsersAreServed'
  BY <1>1, <1>2, PlanStepServes
<1>9. QED
  BY <1>4, <1>5, <1>7, <1>8 DEF AppInv

(* A release comes after the join of the thread that uses the backend. *)
LEMMA ReleaseKeeps ==
  ASSUME AppInv, NEW d \in Devices, Release(d)
  PROVE  AppInv'
<1>1. /\ PlanStep("release", d)
      /\ open' = open \ {d}
      /\ UNCHANGED <<queue, token, statusVars, routerVars>>
  BY DEF Release, PlanStep, routerVars
<1>2. UNCHANGED <<stopRequested, stopReason, error, router, routerError>>
  BY <1>1 DEF statusVars, routerVars
<1>3. TypeOK /\ PlanFollows
  BY DEF AppInv
<1>4. TypeOK'
  <2>1. /\ error' \in Causes \cup {"none"} /\ queue' \in [Queues -> Channels]
        /\ token' \subseteq Workers
        /\ router' \in {"absent", "running", "stopping", "stopped"}
    BY <1>1, <1>2, <1>3 DEF TypeOK
  <2>2. QED
    BY <1>1, <1>2, <1>3, <2>1, PlanStepTypes
<1>5. StateFollows' /\ StartFollows' /\ PlanFollows' /\ RestIsQuiet'
  <2>1. Effect(<<"release", d>>)'
    BY <1>1 DEF Effect
  <2>2. QED
    BY <1>1, <1>2, <2>1, PlanStepFollows
<1>6. CausesAreStored' /\ CountersFollow' /\ NothingIsLost'
  BY <1>1, <1>2, PlanStepCounts
<1>7. ASSUME NEW w \in Queues, w \in open \ open'
      PROVE  ~Active(w)
  <2>1. /\ main = "stopping" /\ plan # <<>> /\ Head(plan) = <<"release", w>>
        /\ plan \in Seq(Steps)
    BY <1>1, <1>3, <1>7 DEF Release, Due, TypeOK, Steps
  <2>2. Before(<<"join", w>>, <<"release", w>>, plan)
    BY <1>3, <2>1 DEF PlanFollows, Ordered
  <2>3. <<"join", w>> \notin Ops(plan)
    BY <2>1, <2>2, BeforeTail
  <2>4. QED
    BY <2>1, <2>3, JoinedIsDone, Names
<1>8. UsersAreServed'
  BY <1>1, <1>2, <1>7, PlanStepServes
<1>9. QED
  BY <1>4, <1>5, <1>6, <1>8 DEF AppInv

(* A join waits for the thread to be done. *)
LEMMA JoinKeeps ==
  ASSUME AppInv, NEW w \in Workers, Join(w)
  PROVE  AppInv'
<1>1. /\ PlanStep("join", w)
      /\ at' = at
      /\ at[w] \in {"unborn", "done"}
      /\ UNCHANGED <<queue, token, open, statusVars, routerVars>>
  BY DEF Join, PlanStep, routerVars
<1>2. UNCHANGED <<stopRequested, stopReason, error, router, routerError>>
  BY <1>1 DEF statusVars, routerVars
<1>3. TypeOK'
  <2>1. TypeOK
    BY DEF AppInv
  <2>2. /\ error' \in Causes \cup {"none"} /\ queue' \in [Queues -> Channels]
        /\ token' \subseteq Workers
        /\ router' \in {"absent", "running", "stopping", "stopped"}
    BY <1>1, <1>2, <2>1 DEF TypeOK
  <2>3. QED
    BY <1>1, <1>2, <2>1, <2>2, PlanStepTypes
<1>4. StateFollows' /\ StartFollows' /\ PlanFollows' /\ RestIsQuiet'
  <2>1. Effect(<<"join", w>>)'
    BY <1>1 DEF Effect, Active
  <2>2. QED
    BY <1>1, <1>2, <2>1, PlanStepFollows
<1>5. CausesAreStored' /\ CountersFollow' /\ NothingIsLost'
  BY <1>1, <1>2, PlanStepCounts
<1>6. UsersAreServed'
  BY <1>1, <1>2, PlanStepServes
<1>7. QED
  BY <1>3, <1>4, <1>5, <1>6 DEF AppInv

(* A close in drain mode leaves what was accepted to the consumer. *)
LEMMA CloseKeeps ==
  ASSUME AppInv, NEW q \in Queues, CloseQueue(q)
  PROVE  AppInv'
<1>1. /\ PlanStep("close", q)
      /\ queue' = Closed(q, mode)
      /\ UNCHANGED <<token, open, statusVars, routerVars>>
      /\ mode' = mode /\ main = "stopping"
  BY DEF CloseQueue, PlanStep, Done, Due, routerVars
<1>2. UNCHANGED <<stopRequested, stopReason, error, router, routerError>>
  BY <1>1 DEF statusVars, routerVars
<1>3. TypeOK /\ CausesAreStored /\ CountersFollow /\ NothingIsLost
  BY DEF AppInv
<1>4. mode \in {"drain", "abort"}
  BY <1>1 DEF AppInv, StartFollows
<1>5. /\ queue' \in [Queues -> Channels]
      /\ \A r \in Queues \ {q} : queue'[r] = queue[r]
      /\ queue'[q].accepted = queue[q].accepted
      /\ queue'[q].last = queue[q].last
      /\ \/ queue'[q] = queue[q]
         \/ /\ mode = "drain"
            /\ queue[q].phase = "open"
            /\ queue'[q].phase = "draining"
            /\ queue'[q].kept = queue[q].kept
         \/ /\ mode = "abort"
            /\ queue'[q].kept = 0
  BY <1>1, <1>3, <1>4, ClosedIs
<1>6. TypeOK'
  <2>1. /\ error' \in Causes \cup {"none"} /\ token' \subseteq Workers
        /\ router' \in {"absent", "running", "stopping", "stopped"}
    BY <1>1, <1>2, <1>3 DEF TypeOK
  <2>2. QED
    BY <1>1, <1>2, <1>3, <1>5, <2>1, PlanStepTypes
<1>7. StateFollows' /\ StartFollows' /\ PlanFollows' /\ RestIsQuiet'
  <2>1. Effect(<<"close", q>>)'
    BY DEF Effect
  <2>2. QED
    BY <1>1, <1>2, <2>1, PlanStepFollows
<1>8. UsersAreServed'
  BY <1>1, <1>2, PlanStepServes
<1>9. /\ UNCHANGED <<why, held, encoded, submitted, mode>>
      /\ \A w \in Workers : \/ at'[w] = at[w]
                            \/ at[w] = "sleeping" /\ at'[w] = "pushing"
      /\ \A r \in Queues : at'[r] = at[r]
  BY <1>1, <1>3, WakingIs DEF PlanStep, Done, NotOwner, TypeOK
<1>10. CausesAreStored'
  BY <1>2, <1>3, <1>9 DEF CausesAreStored
<1>11. CountersFollow'
  <2>1. queue[q].accepted \in Nat /\ queue[q].kept <= queue[q].accepted
    BY <1>3 DEF TypeOK, Channels, CountersFollow
  <2>2. queue'[q].kept <= queue'[q].accepted
    BY <1>5, <2>1
  <2>3. QED
    BY <1>3, <1>5, <1>9, <2>2, Names DEF CountersFollow
<1>12. NothingIsLost'
  <2> SUFFICES ASSUME error = "none", mode = "drain"
               PROVE  /\ (token \cap Queues = {})'
                      /\ \A r \in Queues : QueueIsServed(r)'
                      /\ \A e \in Encoders : EncoderIsServed(e)'
                      /\ (encoded["audio_encode"] + queue["audio_encode"].kept
                            = queue["audio_encode"].accepted)'
    BY <1>2, <1>4, <1>9 DEF NothingIsLost
  <2>1. /\ token \cap Queues = {}
        /\ \A r \in Queues : QueueIsServed(r)
        /\ \A e \in Encoders : EncoderIsServed(e)
        /\ encoded["audio_encode"] + queue["audio_encode"].kept = queue["audio_encode"].accepted
    BY <1>3 DEF NothingIsLost
  <2>2. queue'[q].kept = queue[q].kept
    BY <1>5
  <2>3. QueueIsServed(q)'
    BY <1>5, <1>9, <2>1 DEF QueueIsServed
  <2>4. \A r \in Queues : QueueIsServed(r)'
    BY <1>5, <1>9, <2>1, <2>3, ServedFrame
  <2>5. \A e \in Encoders : EncoderIsServed(e)'
    BY <1>9, <2>1, Names DEF EncoderIsServed
  <2>6. /\ queue'["audio_encode"].kept = queue["audio_encode"].kept
        /\ queue'["audio_encode"].accepted = queue["audio_encode"].accepted
    BY <1>5, <2>2, Names
  <2>7. QED
    BY <1>1, <1>9, <2>1, <2>4, <2>5, <2>6
<1>13. QED
  BY <1>6, <1>7, <1>8, <1>10, <1>11, <1>12 DEF AppInv

(* The router is stopped after the encoders were joined. *)
LEMMA StopRouterKeeps ==
  ASSUME AppInv, StopRouter
  PROVE  AppInv'
<1>1. /\ PlanStep("stop", "router")
      /\ router' = IF router = "running" THEN "stopping" ELSE router
      /\ UNCHANGED <<queue, token, open, statusVars, routerError>>
  BY DEF StopRouter, PlanStep
<1>2. UNCHANGED <<stopRequested, stopReason, error>>
  BY <1>1 DEF statusVars
<1>3. TypeOK /\ PlanFollows
  BY DEF AppInv
<1>4. TypeOK'
  <2>1. /\ error' \in Causes \cup {"none"} /\ queue' \in [Queues -> Channels]
        /\ token' \subseteq Workers
        /\ router' \in {"absent", "running", "stopping", "stopped"}
    BY <1>1, <1>2, <1>3 DEF TypeOK
  <2>2. QED
    BY <1>1, <1>2, <1>3, <2>1, PlanStepTypes
<1>5. StateFollows' /\ StartFollows' /\ PlanFollows' /\ RestIsQuiet'
  <2>1. Effect(<<"stop", "router">>)'
    BY <1>1 DEF Effect
  <2>2. router # "running" => router' # "running"
    BY <1>1
  <2>3. router \in {"absent", "stopped"} => router' = router
    BY <1>1
  <2>4. QED
    BY <1>1, <1>2, <2>1, <2>2, <2>3, PlanStepFollows
<1>6. CausesAreStored' /\ CountersFollow' /\ NothingIsLost'
  BY <1>1, <1>2, PlanStepCounts
<1>7. ASSUME NEW e \in Encoders
      PROVE  ~Active(e)
  <2>1. /\ main = "stopping" /\ plan # <<>> /\ Head(plan) = <<"stop", "router">>
        /\ plan \in Seq(Steps)
    BY <1>3 DEF StopRouter, Due, TypeOK, Steps
  <2>2. Before(<<"join", e>>, <<"stop", "router">>, plan)
    BY <1>3, <2>1 DEF PlanFollows, Ordered
  <2>3. <<"join", e>> \notin Ops(plan)
    BY <2>1, <2>2, BeforeTail
  <2>4. QED
    BY <2>1, <2>3, JoinedIsDone, Names
<1>8. UsersAreServed'
  BY <1>1, <1>7, PlanStepServes
<1>9. QED
  BY <1>4, <1>5, <1>6, <1>8 DEF AppInv

(* The router's error is adopted after it was stopped. *)
LEMMA AdoptKeeps ==
  ASSUME AppInv, AdoptError
  PROVE  AppInv'
<1>1. /\ PlanStep("adopt", "router")
      /\ router' = IF router = "stopping" THEN "stopped" ELSE router
      /\ error' = IF routerError THEN FirstError("router") ELSE error
      /\ at' = at
      /\ UNCHANGED <<queue, token, open, stopRequested, stopReason, routerError>>
  BY DEF AdoptError, PlanStep
<1>2. TypeOK /\ PlanFollows
  BY DEF AppInv
<1>3. /\ error' \in Causes \cup {"none"}
      /\ error # "none" => error' = error
      /\ routerError => error' # "none"
  BY <1>1, <1>2 DEF FirstError, TypeOK, Causes
<1>4. TypeOK'
  <2>1. /\ queue' \in [Queues -> Channels] /\ token' \subseteq Workers
        /\ router' \in {"absent", "running", "stopping", "stopped"}
    BY <1>1, <1>2 DEF TypeOK
  <2>2. QED
    BY <1>1, <1>2, <1>3, <2>1, PlanStepTypes
<1>5. router # "running"
  <2>1. /\ main = "stopping" /\ plan # <<>> /\ Head(plan) = <<"adopt", "router">>
        /\ plan \in Seq(Steps)
    BY <1>2 DEF AdoptError, Due, TypeOK, Steps
  <2>2. mode \in {"drain", "abort"}
    BY <2>1 DEF AppInv, StartFollows
  <2>3. Before(<<"stop", "router">>, <<"adopt", "router">>, plan)
    BY <1>2, <2>1 DEF PlanFollows, Ordered
  <2>4. <<"stop", "router">> \notin Ops(plan)
    BY <2>1, <2>3, BeforeTail
  <2>5. Effect(<<"stop", "router">>)
    BY <1>2, <2>1, <2>2, <2>4, PlanIsOrdered DEF PlanFollows
  <2>6. QED
    BY <2>5 DEF Effect
<1>6. StateFollows' /\ StartFollows' /\ PlanFollows' /\ RestIsQuiet'
  <2>1. router' \in {"absent", "stopped"} /\ (router \in {"absent", "stopped"} => router' = router)
    BY <1>1, <1>2, <1>5 DEF TypeOK
  <2>2. Effect(<<"adopt", "router">>)'
    BY <1>1, <1>3, <2>1 DEF Effect
  <2>3. QED
    BY <1>1, <1>3, <2>1, <2>2, PlanStepFollows
<1>7. CausesAreStored' /\ CountersFollow' /\ NothingIsLost'
  <2>1. CASE error' = error
    BY <1>1, <2>1, PlanStepCounts
  <2>2. CASE error' # error
    <3>1. error' # "none"
      BY <1>3, <2>2
    <3>2. UNCHANGED <<at, why, queue, encoded>>
      BY <1>1 DEF PlanStep, Done, NotOwner
    <3>3. QED
      BY <3>1, <3>2 DEF AppInv, CausesAreStored, CountersFollow, NothingIsLost
  <2>3. QED
    BY <2>1, <2>2
<1>8. UsersAreServed'
  BY <1>1, <1>5, PlanStepServes
<1>9. QED
  BY <1>4, <1>6, <1>7, <1>8 DEF AppInv

-----------------------------------------------------------------------------
(* The theorems *)

(* Before Start there is nothing to promise. *)
LEMMA InitKeeps ==
  ASSUME Init
  PROVE  AppInv
<1>1. setup.delay \in Nat
  BY ApplicationAssumption DEF Init, IsSetup
<1>2. TypeOK
  <2>1. queue \in [Queues -> Channels]
    BY DEF Init, Channels
  <2>2. held \in [Encoders -> 0 .. setup.delay]
    BY <1>1 DEF Init
  <2>3. plan \in Seq(Steps)
    BY DEF Init
  <2>4. at \in [Workers -> Places] /\ why \in [Workers -> Causes \cup {"none"}]
    BY DEF Init, Places
  <2>5. QED
    BY <2>1, <2>2, <2>3, <2>4 DEF Init, TypeOK, Steps
<1>3. StateFollows /\ StartFollows /\ PlanFollows /\ RestIsQuiet
  BY DEF Init, StateFollows, StartFollows, PlanFollows, RestIsQuiet, AtRest
<1>4. UsersAreServed
  BY Names DEF Init, UsersAreServed, Active
<1>5. CausesAreStored /\ CountersFollow
  BY Names DEF Init, CausesAreStored, CountersFollow
<1>6. NothingIsLost
  <2>1. \A q \in Queues : QueueIsServed(q)
    BY Names DEF Init, QueueIsServed
  <2>2. \A e \in Encoders : EncoderIsServed(e)
    BY Names DEF Init, EncoderIsServed
  <2>3. QED
    BY <2>1, <2>2, Names DEF Init, NothingIsLost
<1>7. QED
  BY <1>2, <1>3, <1>4, <1>5, <1>6 DEF AppInv

(* The steps of the whole application, by who takes them. *)
LEMMA StepIsOneOf ==
  ASSUME Next
  PROVE  \/ WorkerStep
         \/ RequestStop \/ NoteRequest \/ RouterBreaks
         \/ OwnerStep
         \/ StartWorker
         \/ \E w \in Workers : Cancel(w) \/ Join(w)
         \/ \E d \in Devices : Release(d)
         \/ \E q \in Queues : CloseQueue(q)
         \/ StopRouter
         \/ AdoptError
         \/ UNCHANGED vars
BY DEF Next, WorkerStep, OwnerStep, StartStep, StopStep, Gone

(* Nothing happens. *)
LEMMA StutterKeeps ==
  ASSUME AppInv, UNCHANGED vars
  PROVE  AppInv'
<1>1. /\ UNCHANGED <<workerVars, statusVars, ownerVars, routerVars, requester, setup>>
      /\ UNCHANGED <<at, why, target, captured, queue, held, encoded, submitted, missed>>
      /\ UNCHANGED <<stopRequested, stopReason, error, state, token, open, main, plan, mode>>
      /\ UNCHANGED <<router, routerError>>
  BY DEF vars, workerVars, statusVars, ownerVars, routerVars
<1>2. TypeOK' /\ StateFollows' /\ StartFollows'
  BY <1>1 DEF AppInv, TypeOK, StateFollows, StartFollows
<1>3. \A w \in Workers : Active(w)' <=> Active(w)
  BY <1>1 DEF Active
<1>4. UsersAreServed' /\ RestIsQuiet'
  BY <1>1, <1>3, Names DEF AppInv, UsersAreServed, RestIsQuiet, AtRest
<1>5. PlanFollows'
  <2>1. Ops(Plan(mode))' = Ops(Plan(mode)) /\ Ops(plan)' = Ops(plan)
    BY <1>1 DEF Ops, Plan, QueuePhase
  <2>2. ASSUME NEW x, Effect(x)
        PROVE  Effect(x)'
    BY <1>1, <1>3, <2>2 DEF Effect
  <2>3. Ordered(plan)' <=> Ordered(plan)
    BY <1>1 DEF Ordered, Before
  <2>4. QED
    BY <1>1, <2>1, <2>2, <2>3 DEF AppInv, PlanFollows
<1>6. QED
  BY <1>1, <1>2, <1>4, <1>5, ThreadsFrame DEF AppInv

(* The invariant of the application: whenever a stop begins and whatever fails,
   what StopWorkers has done is done, nothing is released or stopped under its
   users, and a graceful stop keeps its accounts. *)
THEOREM AppSafe == Spec => []AppInv
<1>1. Init => AppInv
  BY InitKeeps
<1>2. AppInv /\ [Next]_vars => AppInv'
  <2> SUFFICES ASSUME AppInv, [Next]_vars
               PROVE  AppInv'
    OBVIOUS
  <2>1. CASE UNCHANGED vars
    BY <2>1, StutterKeeps
  <2>2. CASE WorkerStep
    BY <2>2, WorkerKeeps
  <2>3. CASE RequestStop \/ NoteRequest \/ RouterBreaks
    BY <2>3, OutsideKeeps
  <2>4. CASE OwnerStep
    BY <2>4, OwnerKeeps
  <2>5. CASE StartWorker
    BY <2>5, StartWorkerKeeps
  <2>6. CASE \E w \in Workers : Cancel(w) \/ Join(w)
    BY <2>6, CancelKeeps, JoinKeeps
  <2>7. CASE \E d \in Devices : Release(d)
    BY <2>7, ReleaseKeeps
  <2>8. CASE \E q \in Queues : CloseQueue(q)
    BY <2>8, CloseKeeps
  <2>9. CASE StopRouter \/ AdoptError
    BY <2>9, StopRouterKeeps, AdoptKeeps
  <2>10. QED
    BY <2>1, <2>2, <2>3, <2>4, <2>5, <2>6, <2>7, <2>8, <2>9, StepIsOneOf
<1>3. QED
  BY <1>1, <1>2, PTL DEF Spec

(* The type invariant holds, for every configuration and every capacity. *)
THEOREM AppTyped == Spec => []TypeOK
<1>1. AppInv => TypeOK
  BY DEF AppInv
<1>2. QED
  BY <1>1, AppSafe, PTL

(* Every packet an encoder submits, those of its Flush included, finds the
   router running: Application::StopWorkers joins the encoders before it stops
   the router. *)
THEOREM EncodersReachRouter == Spec => []NoPacketMissesRouter
<1>1. AppInv => NoPacketMissesRouter
  BY DEF AppInv, UsersAreServed, NoPacketMissesRouter
<1>2. QED
  BY <1>1, AppSafe, PTL

(* No inference engine and no encoder is closed while its thread works, flushes
   or is about to decide whether to flush. *)
THEOREM DevicesServeUsers == Spec => []DevicesOutliveUsers
<1>1. AppInv => DevicesOutliveUsers
  BY DEF AppInv, UsersAreServed, DevicesOutliveUsers, Active
<1>2. QED
  BY <1>1, AppSafe, PTL

(* When Wait or the destructor returns, no thread runs, no backend is open and
   the router is stopped. *)
THEOREM RestMeansQuiet == Spec => []StoppedIsQuiet
<1>1. ASSUME AppInv
      PROVE  StoppedIsQuiet
  BY <1>1 DEF AppInv, RestIsQuiet, StoppedIsQuiet, Active
<1>2. QED
  BY <1>1, AppSafe, PTL

(* Errors and what is at their bottom: an error a thread came upon is stored or
   about to be, a stored one came from a thread or the router, and where nothing
   is at fault there is none but that of a full audio queue. *)
ErrorsHaveCauses ==
  /\ \A w \in Workers : why[w] # "none" => at[w] = "reporting" \/ error # "none"
  /\ error # "none" => routerError \/ \E w \in Workers : why[w] # "none"
  /\ setup.faults = {} /\ ~setup.mockVideo =>
       /\ ~routerError
       /\ error \in {"none", "overrun"}
       /\ \A w \in Workers : why[w] \in {"none", "overrun"}

(* A thread's step keeps that. *)
LEMMA WorkerKeepsCauses ==
  ASSUME AppInv, ErrorsHaveCauses, WorkerStep
  PROVE  ErrorsHaveCauses'
<1>1. TypeOK /\ CausesAreStored
  BY DEF AppInv
<1>2. at \in [Workers -> Places] /\ why \in [Workers -> Causes \cup {"none"}]
  BY <1>1 DEF TypeOK
<1>3. routerError' = routerError /\ setup' = setup
  BY WorkerFrame DEF routerVars
<1>4. ASSUME NEW w \in Workers, NEW what \in Causes, Fail(w, what), Justified(what)
      PROVE  ErrorsHaveCauses'
  <2>1. /\ error' = error
        /\ \A v \in Workers : v # w => why'[v] = why[v] /\ at'[v] = at[v]
        /\ why'[w] = what /\ at'[w] = "reporting"
    BY <1>2, <1>4 DEF Fail, Move, statusVars
  <2>2. what # "none"
    BY DEF Causes, Workers, Captures, Encoders
  <2>3. error' # "none" => routerError' \/ \E v \in Workers : why'[v] # "none"
    BY <2>1, <2>2
  <2>4. setup'.faults = {} /\ ~setup'.mockVideo =>
          what = "overrun"
    BY <1>3, <1>4 DEF Justified, ErrorsHaveCauses
  <2>5. QED
    BY <1>3, <2>1, <2>3, <2>4 DEF ErrorsHaveCauses
<1>5. ASSUME NEW w \in Workers, StoreError(w)
      PROVE  ErrorsHaveCauses'
  <2>1. /\ why[w] # "none" /\ why' = why
        /\ error' = IF error = "none" THEN why[w] ELSE error
    BY <1>1, <1>5 DEF StoreError, CausesAreStored, FirstError
  <2>2. QED
    BY <1>3, <2>1 DEF ErrorsHaveCauses
<1>6. ASSUME Uneventful
      PROVE  ErrorsHaveCauses'
  BY <1>3, <1>6 DEF Uneventful, ErrorsHaveCauses
<1>7. QED
  BY <1>1, <1>4, <1>5, <1>6, WorkerIsOneOf

(* A step of any other thread leaves the causes alone, but for the router. *)
LEMMA OtherIsOneOf ==
  ASSUME TypeOK, Next, ~WorkerStep
  PROVE  /\ why' = why /\ setup' = setup
         /\ error' = error \/ (routerError /\ error' # "none"
                                /\ (error # "none" => error' = error))
         /\ routerError' = routerError \/ (routerError' = TRUE /\ setup.faults # {})
         /\ \A v \in Workers : at[v] = "reporting" => at'[v] = "reporting"
<1> DEFINE Goal ==
             /\ why' = why /\ setup' = setup
             /\ error' = error \/ (routerError /\ error' # "none"
                                    /\ (error # "none" => error' = error))
             /\ routerError' = routerError \/ (routerError' = TRUE /\ setup.faults # {})
             /\ \A v \in Workers : at[v] = "reporting" => at'[v] = "reporting"
<1>1. at \in [Workers -> Places]
  BY DEF TypeOK
<1>2. ASSUME UNCHANGED <<why, setup, error, routerError>>,
             at' = at \/ at' = WakeProducer(at)
      PROVE  Goal
  BY <1>1, <1>2, Names DEF WakeProducer
<1>3. CASE RequestStop \/ NoteRequest
  BY <1>3 DEF RequestStop, NoteRequest, workerVars, routerVars
<1>4. CASE RouterBreaks
  BY <1>4 DEF RouterBreaks, workerVars, statusVars
<1>5. CASE OwnerStep
  BY <1>5 DEF OwnerStep, Start, OpenBackends, CreateRouter, StartSucceeds, StartFails, WaitEnds,
     Destroy, StopWorkers, Settle, NotOwner, statusVars, routerVars
<1>6. CASE StartWorker
  <2>1. PICK i \in Unborn : Move(LaunchOrder[i], "loop")
    BY <1>6 DEF StartWorker
  <2>2. at[LaunchOrder[i]] = "unborn"
    BY <2>1 DEF Unborn
  <2>3. \A v \in Workers : at[v] = "reporting" => at'[v] = "reporting"
    BY <1>1, <2>1, <2>2 DEF Move
  <2>4. UNCHANGED <<why, setup, error, routerError>>
    BY <1>6 DEF StartWorker, NotOwner, statusVars, routerVars
  <2>5. QED
    BY <2>3, <2>4
<1>7. CASE \E w \in Workers : Cancel(w) \/ Join(w)
  BY <1>2, <1>7 DEF Cancel, Join, Done, NotOwner, statusVars, routerVars
<1>8. CASE \E d \in Devices : Release(d)
  BY <1>8 DEF Release, Done, NotOwner, statusVars, routerVars
<1>9. CASE \E q \in Queues : CloseQueue(q)
  BY <1>2, <1>9 DEF CloseQueue, Done, NotOwner, statusVars, routerVars
<1>10. CASE StopRouter
  BY <1>10 DEF StopRouter, Done, NotOwner, statusVars
<1>11. CASE AdoptError
  BY <1>11 DEF AdoptError, FirstError, Done, NotOwner
<1>12. CASE UNCHANGED vars
  BY <1>12 DEF vars, workerVars, statusVars, routerVars
<1>13. QED
  BY <1>3, <1>4, <1>5, <1>6, <1>7, <1>8, <1>9, <1>10, <1>11, <1>12, StepIsOneOf

(* Nor does any other step take an error's cause away. *)
LEMMA CausesKept ==
  ASSUME AppInv, ErrorsHaveCauses, [Next]_vars
  PROVE  ErrorsHaveCauses'
<1>1. CASE UNCHANGED vars
  BY <1>1 DEF vars, workerVars, statusVars, routerVars, ErrorsHaveCauses
<1>2. CASE Next /\ WorkerStep
  BY <1>2, WorkerKeepsCauses
<1>3. CASE Next /\ ~WorkerStep
  <2>1. TypeOK
    BY DEF AppInv
  <2>2. /\ why' = why /\ setup' = setup
        /\ error' = error \/ (routerError /\ error' # "none"
                               /\ (error # "none" => error' = error))
        /\ routerError' = routerError \/ (routerError' = TRUE /\ setup.faults # {})
        /\ \A v \in Workers : at[v] = "reporting" => at'[v] = "reporting"
    BY <1>3, <2>1, OtherIsOneOf
  <2>3. \A v \in Workers : why'[v] # "none" => at'[v] = "reporting" \/ error' # "none"
    BY <2>2 DEF ErrorsHaveCauses
  <2>4. error' # "none" => routerError' \/ \E v \in Workers : why'[v] # "none"
    BY <2>1, <2>2 DEF ErrorsHaveCauses, TypeOK
  <2>5. setup'.faults = {} /\ ~setup'.mockVideo =>
          /\ ~routerError'
          /\ error' \in {"none", "overrun"}
          /\ \A v \in Workers : why'[v] \in {"none", "overrun"}
    <3>1. CASE setup.faults = {} /\ ~setup.mockVideo
      <4>1. /\ ~routerError
            /\ error \in {"none", "overrun"}
            /\ \A v \in Workers : why[v] \in {"none", "overrun"}
        BY <3>1 DEF ErrorsHaveCauses
      <4>2. error' = error /\ routerError' = routerError
        BY <2>2, <3>1, <4>1
      <4>3. QED
        BY <2>2, <4>1, <4>2
    <3>2. CASE ~(setup.faults = {} /\ ~setup.mockVideo)
      BY <2>2, <3>2
    <3>3. QED
      BY <3>1, <3>2
  <2>6. QED
    BY <2>3, <2>4, <2>5 DEF ErrorsHaveCauses
<1>4. QED
  BY <1>1, <1>2, <1>3

(* The state Wait or the destructor leaves is failed exactly when fatal_error_
   holds an error; it holds one exactly when a worker or the router had one; and
   with nothing at fault and a real capture it holds none, but for an audio queue
   that stays full: a stop alone, at whatever moment, is no failure. *)
THEOREM RestIsHonest == Spec => []OutcomeIsHonest
<1>1. Init => AppInv /\ ErrorsHaveCauses
  BY InitKeeps DEF Init, ErrorsHaveCauses
<1>2. AppInv /\ ErrorsHaveCauses /\ [Next]_vars => ErrorsHaveCauses'
  BY CausesKept
<1>3. ASSUME AppInv, ErrorsHaveCauses
      PROVE  OutcomeIsHonest
  <2> SUFFICES ASSUME AtRest
               PROVE  /\ state = IF error # "none" THEN "failed" ELSE "stopped"
                      /\ error # "none" <=> routerError \/ \E w \in Workers : why[w] # "none"
                      /\ setup.faults = {} /\ ~setup.mockVideo =>
                           error \in {"none", "overrun"}
    BY DEF OutcomeIsHonest
  <2>1. /\ \A w \in Workers : at[w] # "reporting"
        /\ routerError => error # "none"
        /\ state = IF error # "none" THEN "failed" ELSE "stopped"
    BY <1>3 DEF AppInv, RestIsQuiet, Active
  <2>2. QED
    BY <1>3, <2>1 DEF ErrorsHaveCauses
<1>4. QED
  BY <1>1, <1>2, <1>3, AppSafe, PTL DEF Spec

(* A graceful stop without an error has encoded every frame a queue still held
   and submitted every packet an encoder held back. *)
THEOREM DrainLosesNothing == Spec => []DrainDelivers
<1>1. ASSUME AppInv, AtRest, mode = "drain", error = "none"
      PROVE  /\ \A q \in Queues : queue[q].last = queue[q].accepted
             /\ \A e \in Encoders : submitted[e] = encoded[e]
             /\ encoded["audio_encode"] = queue["audio_encode"].accepted
  <2>1. \A w \in Workers : at[w] = "done"
    BY <1>1 DEF AppInv, RestIsQuiet, StartFollows, Active
  <2>2. /\ \A q \in Queues : QueueIsServed(q)
        /\ \A e \in Encoders : EncoderIsServed(e)
        /\ encoded["audio_encode"] + queue["audio_encode"].kept = queue["audio_encode"].accepted
    BY <1>1 DEF AppInv, NothingIsLost
  <2>3. \A e \in Encoders : encoded[e] \in Nat /\ submitted[e] \in Nat
    BY <1>1 DEF AppInv, TypeOK
  <2>4. \A q \in Queues : queue[q].kept = 0 /\ queue[q].last = queue[q].accepted
    BY <2>1, <2>2, Names DEF QueueIsServed
  <2>5. ASSUME NEW e \in Encoders
        PROVE  submitted[e] = encoded[e]
    <3>1. at[e] = "done"
      BY <2>1, Names
    <3>2. held[e] = 0 /\ submitted[e] + held[e] + 0 = encoded[e]
      BY <2>2, <3>1 DEF EncoderIsServed
    <3>3. QED
      BY <2>3, <3>2
  <2>6. encoded["audio_encode"] = queue["audio_encode"].accepted
    BY <2>2, <2>3, <2>4, Names
  <2>7. QED
    BY <2>4, <2>5, <2>6
<1>2. AppInv => DrainDelivers
  BY <1>1 DEF DrainDelivers
<1>3. QED
  BY <1>2, AppSafe, PTL

(* Steps of the threads in the lifecycle the owner sees. *)
LEMMA WorkerIsLifecycleStep ==
  ASSUME AppInv, AppInv', WorkerStep
  PROVE  [Owner!Next]_(Owner!lifecycleVars)
<1>1. /\ TypeOK /\ CausesAreStored /\ StateFollows /\ StartFollows /\ RestIsQuiet
      /\ error' \in Causes \cup {"none"}
  BY DEF AppInv, TypeOK
<1>2. state' = state
  BY WorkerFrame DEF ownerVars
<1>3. error # "none" => error' = error
  BY <1>1, WorkerErrors
<1>4. \E w \in Workers : Active(w)
  BY <1>1, WorkerMoves
<1>5. state \in {"initializing", "running", "stopping", "failed"}
  <2>1. state # "created"
    BY <1>1, <1>4 DEF StartFollows, Active
  <2>2. ~AtRest
    BY <1>1, <1>4 DEF RestIsQuiet
  <2>3. state # "stopped"
    BY <1>1, <2>1, <2>2 DEF StateFollows, TypeOK, AtRest
  <2>4. QED
    BY <1>1, <2>1, <2>3 DEF TypeOK
<1>6. error' = error \/ Owner!RecordCause
  BY <1>1, <1>2, <1>3, <1>5 DEF Owner!RecordCause
<1>7. QED
  BY <1>2, <1>6 DEF Owner!Next, Owner!lifecycleVars

(* So are the other steps of the application. *)
LEMMA OtherIsLifecycleStep ==
  ASSUME AppInv, Next, ~WorkerStep
  PROVE  [Owner!Next]_(Owner!lifecycleVars)
<1>1. TypeOK /\ StateFollows
  BY DEF AppInv
<1>2. ASSUME UNCHANGED <<state, error>>
      PROVE  [Owner!Next]_(Owner!lifecycleVars)
  BY <1>2 DEF Owner!lifecycleVars
<1>3. CASE UNCHANGED vars
  BY <1>2, <1>3 DEF vars, ownerVars, statusVars
<1>4. CASE RequestStop \/ NoteRequest \/ RouterBreaks
  BY <1>2, <1>4 DEF RequestStop, NoteRequest, RouterBreaks, ownerVars, statusVars
<1>5. CASE OpenBackends \/ CreateRouter \/ StartWorker \/ WaitEnds \/ Destroy
  BY <1>2, <1>5 DEF OpenBackends, CreateRouter, StartWorker, WaitEnds, Destroy, statusVars
<1>6. CASE Start
  BY <1>1, <1>6 DEF Start, StateFollows, statusVars, Owner!Next, Owner!Initialize
<1>7. CASE StartSucceeds
  BY <1>1, <1>7 DEF StartSucceeds, StateFollows, statusVars, Owner!Next, Owner!Ready
<1>8. CASE StartFails
  BY <1>1, <1>8 DEF StartFails, StateFollows, statusVars, Owner!Next, Owner!GiveUp
<1>9. CASE StopWorkers
  BY <1>1, <1>9 DEF StopWorkers, StateFollows, statusVars, Owner!Next, Owner!BeginStop
<1>10. CASE Settle
  BY <1>1, <1>10 DEF Settle, StateFollows, statusVars, Owner!Next, Owner!Settle
<1>11. CASE \E w \in Workers : Cancel(w) \/ Join(w)
  BY <1>2, <1>11 DEF Cancel, Join, Done, statusVars
<1>12. CASE \/ \E d \in Devices : Release(d)
            \/ \E q \in Queues : CloseQueue(q)
            \/ StopRouter
  BY <1>2, <1>12 DEF Release, CloseQueue, StopRouter, Done, statusVars
<1>13. CASE AdoptError
  <2>1. state = "stopping" /\ state' = state
    BY <1>1, <1>13 DEF AdoptError, Due, Done, StateFollows
  <2>2. \/ error' = error
        \/ error = "none" /\ error' = "router"
    BY <1>13 DEF AdoptError, FirstError
  <2>3. CASE error' = error
    BY <1>2, <2>1, <2>3
  <2>4. CASE error = "none" /\ error' = "router"
    BY <2>1, <2>4 DEF Owner!Next, Owner!RecordCause, Causes
  <2>5. QED
    BY <2>2, <2>3, <2>4
<1>14. QED
  BY <1>3, <1>4, <1>5, <1>6, <1>7, <1>8, <1>9, <1>10, <1>11, <1>12, <1>13, StepIsOneOf
     DEF OwnerStep

(* The threads, the queues and the phases of a stop implement the lifecycle: the
   states follow each other as promised, and the one cause is the first. *)
THEOREM LifecycleIsImplemented == Spec => ImplementsLifecycle
<1>1. Init => Owner!Init
  BY DEF Init, Owner!Init
<1>2. AppInv /\ AppInv' /\ [Next]_vars => [Owner!Next]_(Owner!lifecycleVars)
  <2>1. UNCHANGED vars => UNCHANGED Owner!lifecycleVars
    BY DEF vars, ownerVars, statusVars, Owner!lifecycleVars
  <2>2. QED
    BY <2>1, WorkerIsLifecycleStep, OtherIsLifecycleStep
<1>3. QED
  BY <1>1, <1>2, AppSafe, PTL DEF Spec, ImplementsLifecycle, Owner!Spec

=============================================================================

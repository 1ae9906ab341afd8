-------------------------- MODULE VideoPathProofs ---------------------------
(***************************************************************************)
(* Theorems about VideoPath, for every configuration of the right shape:   *)
(* type correctness; that a result which is computed is drawn on its frame *)
(* when the wait covers inference; that a hang is found in time; and, with *)
(* a time-out that covers the stages one after another, that it is blamed  *)
(* on the worker that hangs and that nobody is reported without one.       *)
(***************************************************************************)
EXTENDS VideoPath, TLAPS

Places == {"reading", "retrying", "pacing", "delaying", "offering", "pushing"}
Reading == {"pacing", "delaying", "offering"}
Jobs == [frame : Frame, until : Nat]

(* The types of the state, part by part, with what the frame in the hands of the
   capture is. *)
SettingTypes ==
  /\ setup \in Settings /\ now \in 0 .. MaxTime
  /\ hung \in WorkerNames \cup {"none"} /\ hung \in {"none", setup.hangs}
  /\ error \in WorkerNames \cup {"none"}

CaptureTypes ==
  /\ capture \in [at : Places, until : Nat, frame : Frame \cup {None}]
  /\ attempt \in Nat /\ lastInference \in Nat \cup {-1}
  /\ capture.at \in Reading \cup {"pushing"} => attempt > 0
  /\ capture.at \in {"offering", "pushing"} =>
       capture.frame \in Frame /\ capture.frame.sequence = attempt - 1 /\ capture.until <= now

QueueTypes ==
  /\ inferenceQueue \in Seq(Frame) /\ Len(inferenceQueue) <= setup.inferenceBound.capacity
  /\ encodeQueue \in Seq(Frame) /\ Len(encodeQueue) <= setup.encodeBound.capacity

ResultTypes ==
  /\ inference \in Jobs \cup {Idle}
  /\ latest \in [sequence : Nat \cup {-1}, completed : Nat]
  /\ results \in SUBSET Nat

EncodeTypes == encode \in Jobs \cup {Idle} /\ encoded \in SUBSET Nat /\ drawn \in SUBSET Nat

HealthTypes ==
  /\ audioDue \in Nat /\ nextHealth \in Nat
  /\ progress \in [WorkerNames -> Nat] /\ \A w \in WorkerNames : progress[w] <= now

(* The type invariant, strengthened. *)
TypesInv ==
  SettingTypes /\ CaptureTypes /\ QueueTypes /\ ResultTypes /\ EncodeTypes /\ HealthTypes

-----------------------------------------------------------------------------
(* Operators *)

(* The settings have their types. *)
LEMMA SettingsTypes ==
  ASSUME NEW s \in Settings
  PROVE  /\ s.fps \in Nat \ {0} /\ s.readDelay \in Nat /\ s.latency \in Nat /\ s.maxFps \in Nat
         /\ s.overlay \in BOOLEAN /\ s.wait \in Nat /\ s.maxAge \in Nat
         /\ s.audioFrame \in Nat \ {0} /\ s.stall \in Nat /\ s.health \in Nat \ {0}
         /\ s.inferenceBound \in Bounds /\ s.encodeBound \in Bounds
         /\ s.hangs \in WorkerNames \cup {"none"}
BY DEF Settings

(* The names of the workers. *)
LEMMA WorkersNamed ==
  WorkerNames = {"video_capture", "audio_capture", "inference", "video_encode", "audio_encode"}
<1>1. DOMAIN Workers = 1 .. 5
  BY DEF Workers
<1>2. WorkerNames = {Workers[1], Workers[2], Workers[3], Workers[4], Workers[5]}
  BY <1>1 DEF WorkerNames
<1>3. QED
  BY <1>2 DEF Workers

(* Someone who waits is not idle. *)
LEMMA JobsAreNotIdle ==
  ASSUME NEW j \in Jobs
  PROVE  j # Idle /\ j.frame \in Frame /\ j.until \in Nat /\ j.frame.sequence \in Nat
<1>1. j.frame \in Frame /\ j.until \in Nat /\ j.frame.sequence \in Nat
  BY DEF Jobs, Frame
<1>2. Idle.frame.sequence = -1
  BY DEF Idle, None
<1>3. QED
  BY <1>1, <1>2

(* A quotient of naturals is one. *)
LEMMA QuotientIsNat ==
  ASSUME NEW a \in Nat, NEW b \in Nat \ {0}
  PROVE  a \div b \in Nat /\ a % b \in Nat
OBVIOUS

(* A product of naturals is one. *)
LEMMA ProductIsNat ==
  ASSUME NEW a \in Nat, NEW b \in Nat
  PROVE  a * b \in Nat
OBVIOUS

(* The pacer's deadlines are points in time. *)
LEMMA DeadlineIsNat ==
  ASSUME NEW n \in Nat, setup \in Settings
  PROVE  DeadlineFor(n) \in Nat
<1>1. setup.fps \in Nat \ {0} /\ Second \in Nat
  BY SettingsTypes, VideoAssumption DEF VideoAssumption
<1>2. n \div setup.fps \in Nat /\ n % setup.fps \in Nat
  BY <1>1, QuotientIsNat
<1>3. (n \div setup.fps) * Second \in Nat /\ (n % setup.fps) * Second \in Nat
  BY <1>1, <1>2, ProductIsNat
<1>4. ((n % setup.fps) * Second) \div setup.fps \in Nat
  BY <1>1, <1>3, QuotientIsNat
<1>5. QED
  BY <1>3, <1>4 DEF DeadlineFor

(* Division with a remainder. *)
LEMMA Division ==
  ASSUME NEW a \in Nat, NEW b \in Nat \ {0}
  PROVE  a \div b \in Nat /\ a % b \in 0 .. b - 1 /\ a = b * (a \div b) + (a % b)
OBVIOUS

(* A quotient is the number of times the divisor fits. *)
LEMMA QuotientIs ==
  ASSUME NEW a \in Nat, NEW b \in Nat \ {0}, NEW k \in Nat, NEW r \in 0 .. b - 1, a = b * k + r
  PROVE  a \div b = k
<1>1. a \div b \in Nat /\ a % b \in 0 .. b - 1 /\ a = b * (a \div b) + (a % b)
  BY Division
<1> DEFINE x == a \div b
           y == a % b
<1> HIDE DEF x, y
<1>2. x \in Nat /\ y \in 0 .. b - 1 /\ b * x + y = b * k + r
  BY <1>1 DEF x, y
<1>3. CASE x < k
  <2>1. PICK d \in Nat : k = x + 1 + d
    <3>1. k - x - 1 \in Nat /\ k = x + 1 + (k - x - 1)
      BY <1>2, <1>3
    <3>2. QED
      BY <3>1
  <2>2. b * k = b * x + b + b * d /\ b * d \in Nat /\ b * x \in Nat /\ b * k \in Nat
    BY <1>2, <2>1
  <2>3. QED
    BY <1>2, <2>2
<1>4. CASE k < x
  <2>1. PICK d \in Nat : x = k + 1 + d
    <3>1. x - k - 1 \in Nat /\ x = k + 1 + (x - k - 1)
      BY <1>2, <1>4
    <3>2. QED
      BY <3>1
  <2>2. b * x = b * k + b + b * d /\ b * d \in Nat /\ b * x \in Nat /\ b * k \in Nat
    BY <1>2, <2>1
  <2>3. QED
    BY <1>2, <2>2
<1>5. QED
  BY <1>2, <1>3, <1>4 DEF x

(* A product may be divided in two parts, whole multiples and the rest. *)
LEMMA SplitIsExact ==
  ASSUME NEW n \in Nat, NEW s \in Nat, NEW f \in Nat \ {0}
  PROVE  (n \div f) * s + ((n % f) * s) \div f = (n * s) \div f
<1> DEFINE q == n \div f
           r == n % f
           x == (r * s) \div f
           y == (r * s) % f
<1>1. q \in Nat /\ r \in Nat /\ n = f * q + r
  BY Division
<1>2. r * s \in Nat /\ q * s \in Nat /\ n * s \in Nat
  BY <1>1
<1>3. x \in Nat /\ y \in 0 .. f - 1 /\ r * s = f * x + y
  <2>1. \A a \in Nat : a \div f \in Nat /\ a % f \in 0 .. f - 1 /\ a = f * (a \div f) + (a % f)
    BY Division
  <2> HIDE DEF r
  <2>2. QED
    BY <1>2, <2>1
<1> HIDE DEF q, r, x, y
<1>4. n * s = f * (q * s + x) + y
  <2>1. (f * q + r) * s = f * (q * s) + r * s
    BY <1>1
  <2>2. f * (q * s + x) = f * (q * s) + f * x
    BY <1>2, <1>3
  <2>3. f * (q * s) \in Nat /\ f * x \in Nat
    BY <1>2, <1>3
  <2>4. QED
    BY <1>1, <1>3, <2>1, <2>2, <2>3
<1>5. q * s + x \in Nat
  BY <1>2, <1>3
<1>6. (n * s) \div f = q * s + x
  BY <1>2, <1>3, <1>4, <1>5, QuotientIs
<1>7. QED
  BY <1>6 DEF q, r, x

(* Whole seconds apart from the rest, as FramePacer computes it to stay within 64
   bits, the deadline of a frame is still its number times the interval, rounded
   down once: the camera does not drift however many frames it has read. *)
THEOREM DeadlinesAreExact ==
  ASSUME NEW n \in Nat, setup \in Settings
  PROVE  /\ DeadlineFor(n) = (n * Second) \div setup.fps
         /\ setup.fps * DeadlineFor(n) <= n * Second
         /\ n * Second < setup.fps * DeadlineFor(n) + setup.fps
<1>1. setup.fps \in Nat \ {0} /\ Second \in Nat
  BY SettingsTypes, VideoAssumption DEF VideoAssumption
<1>2. n * Second \in Nat
  BY <1>1, ProductIsNat
<1>3. DeadlineFor(n) = (n * Second) \div setup.fps
  BY <1>1, SplitIsExact DEF DeadlineFor
<1> DEFINE y == (n * Second) % setup.fps
<1>4. /\ y \in 0 .. setup.fps - 1
      /\ n * Second = setup.fps * DeadlineFor(n) + y
  BY <1>1, <1>2, <1>3, Division
<1> HIDE DEF y
<1>5. setup.fps * DeadlineFor(n) \in Nat
  BY <1>1, DeadlineIsNat, ProductIsNat
<1>6. QED
  BY <1>1, <1>2, <1>3, <1>4, <1>5

(* The queue p holds the old frames of q but for the first d, and f after them. *)
Extends(p, q, f, d) ==
  /\ p \in Seq(Frame) /\ Len(p) > 0 /\ p[Len(p)] = f
  /\ \A i \in 1 .. Len(p) - 1 : i + d \in 1 .. Len(q) /\ p[i] = q[i + d]

(* What is in a queue after a Push: the newest of the old frames in their order,
   and the new one if it was taken. *)
LEMMA PushedQueue ==
  ASSUME NEW q \in Seq(Frame), NEW b \in Bounds, NEW f \in Frame,
         Len(q) <= b.capacity, CanPush(q, b)
  PROVE  /\ Pushed(q, b, f) \in Seq(Frame)
         /\ Len(Pushed(q, b, f)) <= b.capacity
         /\ \/ ~PushIsOk(q, b) /\ Pushed(q, b, f) = q
            \/ PushIsOk(q, b) /\ \E d \in Nat : Extends(Pushed(q, b, f), q, f, d)
<1>1. /\ b.capacity \in Nat \ {0}
      /\ b.policy \in {"keep_latest", "drop_oldest", "drop_newest", "block_producer"}
      /\ Len(q) \in Nat
  BY DEF Bounds
<1>2. CASE Len(q) < b.capacity
  <2>1. Pushed(q, b, f) = Append(q, f) /\ PushIsOk(q, b)
    BY <1>2 DEF Pushed, PushIsOk
  <2>2. /\ Append(q, f) \in Seq(Frame) /\ Len(Append(q, f)) = Len(q) + 1
        /\ \A i \in 1 .. Len(q) : Append(q, f)[i] = q[i]
        /\ Append(q, f)[Len(q) + 1] = f
    OBVIOUS
  <2>3. Extends(Append(q, f), q, f, 0) /\ Len(Append(q, f)) <= b.capacity
    BY <1>1, <1>2, <2>2 DEF Extends
  <2>4. QED
    BY <2>1, <2>2, <2>3
<1>3. CASE Len(q) >= b.capacity /\ b.policy = "drop_newest"
  BY <1>1, <1>3 DEF Pushed, PushIsOk
<1>4. CASE Len(q) >= b.capacity /\ b.policy = "drop_oldest"
  <2>1. Pushed(q, b, f) = Append(Tail(q), f) /\ PushIsOk(q, b)
    BY <1>1, <1>4 DEF Pushed, PushIsOk
  <2>2. /\ Tail(q) \in Seq(Frame) /\ Len(Tail(q)) = Len(q) - 1
        /\ \A i \in 1 .. Len(q) - 1 : Tail(q)[i] = q[i + 1]
    BY <1>1, <1>4
  <2>3. /\ Append(Tail(q), f) \in Seq(Frame) /\ Len(Append(Tail(q), f)) = Len(q)
        /\ \A i \in 1 .. Len(q) - 1 : Append(Tail(q), f)[i] = q[i + 1]
        /\ Append(Tail(q), f)[Len(q)] = f
    BY <1>1, <1>4, <2>2
  <2>4. Extends(Append(Tail(q), f), q, f, 1) /\ Len(Append(Tail(q), f)) <= b.capacity
    BY <1>1, <1>4, <2>3 DEF Extends
  <2>5. QED
    BY <2>1, <2>3, <2>4
<1>5. CASE Len(q) >= b.capacity /\ b.policy = "keep_latest"
  <2>1. Pushed(q, b, f) = <<f>> /\ PushIsOk(q, b)
    BY <1>1, <1>5 DEF Pushed, PushIsOk
  <2>2. <<f>> \in Seq(Frame) /\ Len(<<f>>) = 1 /\ <<f>>[1] = f
    OBVIOUS
  <2>3. Extends(<<f>>, q, f, 0) /\ Len(<<f>>) <= b.capacity
    BY <1>1, <2>2 DEF Extends
  <2>4. QED
    BY <2>1, <2>2, <2>3
<1>6. QED
  BY <1>1, <1>2, <1>3, <1>4, <1>5 DEF CanPush

(* The numbers of the configuration. *)
LEMMA TypesFacts ==
  ASSUME TypesInv
  PROVE  /\ now \in Nat /\ attempt \in Nat
         /\ setup.latency \in Nat /\ setup.wait \in Nat /\ setup.readDelay \in Nat
         /\ setup.maxAge \in Nat /\ setup.stall \in Nat /\ setup.health \in Nat \ {0}
         /\ setup.audioFrame \in Nat \ {0} /\ Retry \in Nat /\ MaxTime \in Nat
         /\ setup.inferenceBound \in Bounds /\ setup.encodeBound \in Bounds
         /\ setup.inferenceBound.capacity \in Nat \ {0}
         /\ setup.encodeBound.capacity \in Nat \ {0}
         /\ setup.overlay \in BOOLEAN
BY SettingsTypes, VideoAssumption
   DEF TypesInv, SettingTypes, CaptureTypes, VideoAssumption, Bounds

(* What DetectStalledWorker names: none exactly if nobody was silent too long. *)
LEMMA DetectionNames ==
  ASSUME TypesInv
  PROVE  /\ DetectStalledWorker \in WorkerNames \cup {"none"}
         /\ DetectStalledWorker = "none" =>
              \A w \in WorkerNames : now - progress[w] <= setup.stall
<1> DEFINE Late == {i \in DOMAIN Workers : now - progress[Workers[i]] > setup.stall}
           First == CHOOSE i \in Late : \A j \in Late : i <= j
<1>1. DOMAIN Workers = 1 .. 5 /\ \A i \in 1 .. 5 : Workers[i] \in WorkerNames
  BY DEF Workers, WorkerNames
<1>2. DetectStalledWorker = IF Late = {} THEN "none" ELSE Workers[First]
  BY DEF DetectStalledWorker, FirstStalled
<1>3. Late # {} => First \in Late
  <2> HIDE DEF Late
  <2>1. Late \in SUBSET (1 .. 5)
    BY <1>1 DEF Late
  <2>2. Late # {} => \E i \in Late : \A j \in Late : i <= j
    <3>1. CASE 1 \in Late
      BY <2>1, <3>1
    <3>2. CASE 1 \notin Late /\ 2 \in Late
      BY <2>1, <3>2
    <3>3. CASE 1 \notin Late /\ 2 \notin Late /\ 3 \in Late
      BY <2>1, <3>3
    <3>4. CASE 1 \notin Late /\ 2 \notin Late /\ 3 \notin Late /\ 4 \in Late
      BY <2>1, <3>4
    <3>5. CASE 1 \notin Late /\ 2 \notin Late /\ 3 \notin Late /\ 4 \notin Late
      <4>1. \A i \in Late : i = 5
        BY <2>1, <3>5
      <4>2. QED
        BY <4>1
    <3>6. QED
      BY <2>1, <3>1, <3>2, <3>3, <3>4, <3>5
  <2>3. QED
    BY <2>2
<1>4. "none" \notin WorkerNames
  BY WorkersNamed
<1>5. Late = {} => \A w \in WorkerNames : now - progress[w] <= setup.stall
  <2>1. now \in Nat /\ setup.stall \in Nat /\ \A w \in WorkerNames : progress[w] \in Nat
    BY TypesFacts DEF TypesInv, HealthTypes
  <2>2. \A w \in WorkerNames : \E i \in DOMAIN Workers : w = Workers[i]
    BY DEF WorkerNames
  <2>3. QED
    BY <2>1, <2>2
<1>6. QED
  <2> HIDE DEF Late, First
  <2>1. Late # {} => Workers[First] \in WorkerNames
    BY <1>1, <1>3 DEF Late
  <2>2. QED
    BY <1>2, <1>4, <1>5, <2>1

-----------------------------------------------------------------------------
(* Type correctness *)

(* At the start nothing is queued. *)
LEMMA TypesInit == Init => TypesInv
<1> SUFFICES ASSUME Init PROVE TypesInv
  OBVIOUS
<1>1. setup \in Settings
  BY VideoAssumption DEF Init, VideoAssumption
<1>2. /\ setup.audioFrame \in Nat /\ setup.health \in Nat
      /\ setup.inferenceBound.capacity \in Nat /\ setup.encodeBound.capacity \in Nat
  BY <1>1, SettingsTypes DEF Bounds
<1>3. <<>> \in Seq(Frame) /\ Len(<<>>) = 0
  OBVIOUS
<1>4. progress \in [WorkerNames -> Nat] /\ \A w \in WorkerNames : progress[w] <= now
  BY DEF Init
<1>5. QED
  BY <1>1, <1>2, <1>3, <1>4, VideoAssumption
  DEF Init, TypesInv, SettingTypes, CaptureTypes, QueueTypes, ResultTypes, EncodeTypes,
      HealthTypes, VideoAssumption, Places, Reading

(* Nothing changes where no variable does. *)
LEMMA SameTypes ==
  ASSUME TypesInv, setup' = setup
  PROVE  /\ UNCHANGED <<now, hung, error>> => SettingTypes'
         /\ UNCHANGED <<capture, attempt, lastInference, now>> => CaptureTypes'
         /\ UNCHANGED <<inferenceQueue, encodeQueue>> => QueueTypes'
         /\ UNCHANGED <<inference, latest, results>> => ResultTypes'
         /\ UNCHANGED <<encode, encoded, drawn>> => EncodeTypes'
         /\ UNCHANGED <<audioDue, nextHealth, progress, now>> => HealthTypes'
BY DEF TypesInv, SettingTypes, CaptureTypes, QueueTypes, ResultTypes, EncodeTypes, HealthTypes

(* A worker that reports progress reports the present. *)
LEMMA MarkKeepsTypes ==
  ASSUME TypesInv, UNCHANGED <<audioDue, nextHealth, now>>,
         NEW w \in WorkerNames, progress' = [progress EXCEPT ![w] = now]
  PROVE  HealthTypes'
<1>1. now \in Nat
  BY TypesFacts
<1>2. QED
  BY <1>1 DEF TypesInv, HealthTypes

(* The capture reads, and hands its frame to the two queues. *)
LEMMA CaptureKeepsTypes ==
  ASSUME TypesInv, CaptureNext
  PROVE  TypesInv'
<1>1. CaptureStep /\ setup' = setup /\ now' = now
  BY DEF CaptureNext, ReadBegins, Retried, Paced, ReadReturns, Skip, Offer, PushEncode,
         CaptureStep
<1>2. SettingTypes' /\ ResultTypes' /\ EncodeTypes'
  BY <1>1, SameTypes DEF CaptureStep, inferenceVars, encodeVars
<1>3. now \in Nat /\ Retry \in Nat /\ setup.readDelay \in Nat /\ attempt \in Nat
      /\ setup.inferenceBound \in Bounds /\ setup.encodeBound \in Bounds
      /\ setup \in Settings
  BY TypesFacts DEF TypesInv, SettingTypes
<1>4. HealthTypes'
  <2>1. CASE ReadReturns
    <3>1. "video_capture" \in WorkerNames
      BY WorkersNamed
    <3>2. QED
      BY <1>1, <2>1, <3>1, MarkKeepsTypes DEF ReadReturns, MarkProgress, CaptureStep
  <2>2. CASE ~ReadReturns
    <3>1. UNCHANGED <<audioDue, nextHealth, progress, now>>
      BY <1>1, <2>2 DEF CaptureNext, ReadBegins, Retried, Paced, Skip, Offer, PushEncode,
                        CaptureStep
    <3>2. QED
      BY <1>1, <3>1, SameTypes
  <2>3. QED
    BY <2>1, <2>2
<1>5. QueueTypes'
  <2>1. CASE Offer
    <3>1. capture.frame \in Frame
      BY <2>1 DEF Offer, CaptureIs, TypesInv, CaptureTypes
    <3>2. /\ inferenceQueue' = Pushed(inferenceQueue, setup.inferenceBound, capture.frame)
          /\ CanPush(inferenceQueue, setup.inferenceBound)
          /\ encodeQueue' = encodeQueue
      BY <2>1 DEF Offer
    <3>3. /\ inferenceQueue' \in Seq(Frame)
          /\ Len(inferenceQueue') <= setup.inferenceBound.capacity
      BY <1>3, <3>1, <3>2, PushedQueue DEF TypesInv, QueueTypes
    <3>4. QED
      BY <1>1, <3>2, <3>3 DEF TypesInv, QueueTypes
  <2>2. CASE PushEncode
    <3>1. capture.frame \in Frame
      BY <2>2 DEF PushEncode, CaptureIs, TypesInv, CaptureTypes
    <3>2. /\ encodeQueue' = Pushed(encodeQueue, setup.encodeBound, capture.frame)
          /\ CanPush(encodeQueue, setup.encodeBound)
          /\ inferenceQueue' = inferenceQueue
      BY <2>2 DEF PushEncode
    <3>3. encodeQueue' \in Seq(Frame) /\ Len(encodeQueue') <= setup.encodeBound.capacity
      BY <1>3, <3>1, <3>2, PushedQueue DEF TypesInv, QueueTypes
    <3>4. QED
      BY <1>1, <3>2, <3>3 DEF TypesInv, QueueTypes
  <2>3. CASE ~Offer /\ ~PushEncode
    <3>1. UNCHANGED <<inferenceQueue, encodeQueue>>
      BY <2>3 DEF CaptureNext, ReadBegins, Retried, Paced, ReadReturns, Skip
    <3>2. QED
      BY <1>1, <3>1, SameTypes
  <2>4. QED
    BY <2>1, <2>2, <2>3
<1>6. CaptureTypes'
  <2> DEFINE Hands == [at : Places, until : Nat, frame : Frame \cup {None}]
  <2>0. capture \in Hands /\ lastInference \in Nat \cup {-1}
    BY DEF TypesInv, CaptureTypes
  <2>1. \A a \in Places, u \in Nat :
          CaptureGoes(a, u) =>
            /\ capture' \in Hands /\ capture'.at = a /\ capture'.until = u
            /\ capture'.frame = capture.frame
    BY <2>0 DEF CaptureGoes
  <2>2. CASE ReadBegins
    <3>1. DeadlineFor(attempt) \in Nat /\ now + Retry \in Nat
      BY <1>3, DeadlineIsNat
    <3>2. /\ capture' \in Hands /\ capture'.at \in {"retrying", "pacing"}
          /\ attempt' = attempt + 1 /\ lastInference' = lastInference
      BY <2>1, <2>2, <3>1 DEF ReadBegins, Places
    <3>3. QED
      BY <1>3, <2>0, <3>2 DEF CaptureTypes, Reading
  <2>3. CASE Retried \/ Paced
    <3>1. now + setup.readDelay \in Nat
      BY <1>3
    <3>2. /\ capture' \in Hands /\ capture'.at \in {"reading", "delaying"}
          /\ capture'.at = "delaying" => capture.at = "pacing"
          /\ attempt' = attempt /\ lastInference' = lastInference
      BY <1>3, <2>1, <2>3, <3>1 DEF Retried, Paced, CaptureIs, Places
    <3>3. QED
      BY <1>3, <2>0, <3>2 DEF TypesInv, CaptureTypes, Reading
  <2>4. CASE ReadReturns
    <3>1. capture.at = "delaying" /\ attempt' = attempt /\ lastInference' = lastInference
      BY <2>4 DEF ReadReturns, CaptureIs
    <3>2. attempt > 0 /\ attempt - 1 \in Nat
      BY <1>3, <3>1 DEF TypesInv, CaptureTypes, Reading
    <3>3. DeadlineFor(attempt - 1) \in Nat
      BY <1>3, <3>2, DeadlineIsNat
    <3>4. [sequence |-> attempt - 1, pts |-> DeadlineFor(attempt - 1), submitted |-> FALSE]
            \in Frame
      BY <3>2, <3>3 DEF Frame
    <3>5. /\ capture' \in Hands /\ capture'.frame \in Frame
          /\ capture'.frame.sequence = attempt - 1 /\ capture'.until = now
      BY <1>3, <2>4, <3>4 DEF ReadReturns, Places
    <3>6. QED
      BY <1>1, <1>3, <2>0, <3>1, <3>2, <3>5 DEF CaptureTypes
  <2>5. CASE Skip
    <3>1. capture.at = "offering" /\ attempt' = attempt /\ lastInference' = lastInference
      BY <2>5 DEF Skip, CaptureIs
    <3>2. capture' \in Hands /\ capture'.frame = capture.frame /\ capture'.until = now
      BY <1>3, <2>1, <2>5 DEF Skip, Places
    <3>3. QED
      BY <1>1, <1>3, <2>0, <3>1, <3>2 DEF TypesInv, CaptureTypes, Reading
  <2>6. CASE Offer
    <3>1. capture.at = "offering" /\ attempt' = attempt
      BY <2>6 DEF Offer, CaptureIs
    <3>2. capture.frame \in Frame /\ PushIsOk(inferenceQueue, setup.inferenceBound) \in BOOLEAN
      BY <3>1 DEF TypesInv, CaptureTypes, PushIsOk
    <3>3. /\ capture' \in Hands /\ capture'.until = capture.until
          /\ capture'.frame \in Frame /\ capture'.frame.sequence = capture.frame.sequence
      BY <2>0, <2>6, <3>2 DEF Offer, Places, Frame
    <3>4. lastInference' \in Nat \cup {-1}
      BY <2>0, <2>6, <3>2 DEF Offer, Frame
    <3>5. QED
      BY <1>1, <1>3, <3>1, <3>3, <3>4 DEF TypesInv, CaptureTypes, Reading
  <2>7. CASE PushEncode
    <3>1. /\ capture' \in Hands /\ capture'.at = "reading"
          /\ attempt' = attempt /\ lastInference' = lastInference
      BY <1>3, <2>1, <2>7 DEF PushEncode, Places
    <3>2. QED
      BY <1>3, <2>0, <3>1 DEF CaptureTypes, Reading
  <2>8. QED
    BY <2>2, <2>3, <2>4, <2>5, <2>6, <2>7 DEF CaptureNext
<1>7. QED
  BY <1>2, <1>4, <1>5, <1>6 DEF TypesInv

(* Inference and encoding take frames out of their queues. *)
LEMMA ConsumersKeepTypes ==
  ASSUME TypesInv, InferBegins \/ Publish \/ InferFails \/ EncodeBegins \/ EncodeFrame
  PROVE  TypesInv'
<1>0. \A q \in Seq(Frame) : q # <<>> =>
        Head(q) \in Frame /\ Tail(q) \in Seq(Frame) /\ Len(Tail(q)) = Len(q) - 1
  OBVIOUS
<1>1. UNCHANGED <<now, setup, hung, capture, attempt, lastInference, audioDue, nextHealth, error>>
  BY DEF InferBegins, Publish, InferFails, EncodeBegins, EncodeFrame, InferenceStep, EncodeStep,
         captureVars
<1>2. SettingTypes' /\ CaptureTypes'
  BY <1>1, SameTypes
<1>3. /\ now + setup.latency \in Nat /\ now + setup.wait \in Nat
      /\ setup.inferenceBound.capacity \in Nat /\ setup.encodeBound.capacity \in Nat
      /\ now \in Nat
  BY TypesFacts
<1>4. QueueTypes /\ ResultTypes /\ EncodeTypes
  BY DEF TypesInv
<1>5. CASE InferBegins
  <2>1. /\ inferenceQueue # <<>> /\ inferenceQueue' = Tail(inferenceQueue)
        /\ inference' = [frame |-> Head(inferenceQueue), until |-> now + setup.latency]
        /\ UNCHANGED <<latest, results, progress, encodeQueue, encode, encoded, drawn>>
    BY <1>5 DEF InferBegins, InferenceStep, encodeVars
  <2>2. inference' \in Jobs
    BY <1>0, <1>3, <1>4, <2>1 DEF Jobs, QueueTypes
  <2>3. QueueTypes'
    BY <1>0, <1>1, <1>3, <1>4, <2>1 DEF QueueTypes
  <2>4. ResultTypes'
    BY <1>4, <2>1, <2>2 DEF ResultTypes
  <2>5. EncodeTypes' /\ HealthTypes'
    BY <1>1, <2>1, SameTypes
  <2>6. QED
    BY <1>2, <2>3, <2>4, <2>5 DEF TypesInv
<1>6. CASE Publish
  <2>1. /\ inference # Idle /\ inference' = Idle
        /\ latest' = [sequence |-> inference.frame.sequence, completed |-> now]
        /\ results' = results \cup {inference.frame.sequence}
        /\ progress' = [progress EXCEPT !["inference"] = now]
        /\ UNCHANGED <<inferenceQueue, encodeQueue, encode, encoded, drawn>>
    BY <1>6 DEF Publish, InferenceIsDone, InferenceStep, MarkProgress, encodeVars
  <2>2. inference.frame.sequence \in Nat
    BY <1>4, <2>1, JobsAreNotIdle DEF ResultTypes
  <2>3. ResultTypes'
    BY <1>3, <1>4, <2>1, <2>2 DEF ResultTypes
  <2>4. "inference" \in WorkerNames
    BY WorkersNamed
  <2>5. HealthTypes'
    BY <1>1, <2>1, <2>4, MarkKeepsTypes
  <2>6. QueueTypes' /\ EncodeTypes'
    BY <1>1, <2>1, SameTypes
  <2>7. QED
    BY <1>2, <2>3, <2>5, <2>6 DEF TypesInv
<1>7. CASE InferFails
  <2>1. /\ inference' = Idle
        /\ UNCHANGED <<latest, results, progress, inferenceQueue, encodeQueue, encode, encoded,
                       drawn>>
    BY <1>7 DEF InferFails, InferenceStep, encodeVars
  <2>2. ResultTypes'
    BY <1>4, <2>1 DEF ResultTypes
  <2>3. QueueTypes' /\ EncodeTypes' /\ HealthTypes'
    BY <1>1, <2>1, SameTypes
  <2>4. QED
    BY <1>2, <2>2, <2>3 DEF TypesInv
<1>8. CASE EncodeBegins
  <2>1. /\ encodeQueue # <<>> /\ encodeQueue' = Tail(encodeQueue)
        /\ encode' = [frame |-> Head(encodeQueue), until |-> now + setup.wait]
        /\ UNCHANGED <<latest, results, progress, inferenceQueue, inference, encoded, drawn>>
    BY <1>8 DEF EncodeBegins, EncodeStep, inferenceVars
  <2>2. encode' \in Jobs
    BY <1>0, <1>3, <1>4, <2>1 DEF Jobs, QueueTypes
  <2>3. QueueTypes'
    BY <1>0, <1>1, <1>3, <1>4, <2>1 DEF QueueTypes
  <2>4. EncodeTypes'
    BY <1>4, <2>1, <2>2 DEF EncodeTypes
  <2>5. ResultTypes' /\ HealthTypes'
    BY <1>1, <2>1, SameTypes
  <2>6. QED
    BY <1>2, <2>3, <2>4, <2>5 DEF TypesInv
<1>9. CASE EncodeFrame
  <2>1. /\ encode # Idle /\ encode' = Idle
        /\ encoded' = encoded \cup {encode.frame.sequence}
        /\ drawn' \in {drawn, drawn \cup {encode.frame.sequence}}
        /\ progress' = [progress EXCEPT !["video_encode"] = now]
        /\ UNCHANGED <<latest, results, inferenceQueue, encodeQueue, inference>>
    BY <1>9 DEF EncodeFrame, EncodeStep, MarkProgress, inferenceVars
  <2>2. encode.frame.sequence \in Nat
    BY <1>4, <2>1, JobsAreNotIdle DEF EncodeTypes
  <2>3. EncodeTypes'
    BY <1>4, <2>1, <2>2 DEF EncodeTypes
  <2>4. "video_encode" \in WorkerNames
    BY WorkersNamed
  <2>5. HealthTypes'
    BY <1>1, <2>1, <2>4, MarkKeepsTypes
  <2>6. QueueTypes' /\ ResultTypes'
    BY <1>1, <2>1, SameTypes
  <2>7. QED
    BY <1>2, <2>3, <2>5, <2>6 DEF TypesInv
<1>10. QED
  BY <1>5, <1>6, <1>7, <1>8, <1>9

(* The audio, the monitor, a hang and time. *)
LEMMA OthersKeepTypes ==
  ASSUME TypesInv, AudioBlock \/ CheckHealth \/ Hang \/ Tick \/ UNCHANGED videoVars
  PROVE  TypesInv'
<1>1. /\ setup' = setup
      /\ UNCHANGED <<capture, attempt, lastInference, inferenceQueue, encodeQueue, inference,
                     latest, results, encode, encoded, drawn>>
  BY DEF AudioBlock, CheckHealth, Hang, Tick, videoVars, captureVars, inferenceVars, encodeVars
<1>2. QueueTypes' /\ ResultTypes' /\ EncodeTypes'
  BY <1>1, SameTypes
<1>3. SettingTypes /\ CaptureTypes /\ HealthTypes
  BY DEF TypesInv
<1>4. now \in Nat /\ audioDue \in Nat /\ nextHealth \in Nat /\ setup \in Settings
      /\ setup.audioFrame \in Nat /\ setup.health \in Nat /\ MaxTime \in Nat
      /\ setup.hangs \in WorkerNames \cup {"none"}
  BY <1>3, TypesFacts, SettingsTypes DEF SettingTypes, HealthTypes
<1>5. CASE AudioBlock
  <2>1. SettingTypes' /\ CaptureTypes'
    BY <1>1, <1>5, SameTypes DEF AudioBlock
  <2>2. HealthTypes'
    BY <1>3, <1>4, <1>5 DEF AudioBlock, HealthTypes
  <2>3. QED
    BY <1>2, <2>1, <2>2 DEF TypesInv
<1>6. CASE CheckHealth
  <2>1. error' \in WorkerNames \cup {"none"} /\ nextHealth' = nextHealth + setup.health
        /\ UNCHANGED <<now, hung, audioDue, progress>>
    BY <1>6, DetectionNames DEF CheckHealth
  <2>2. SettingTypes'
    BY <1>1, <1>3, <2>1 DEF SettingTypes
  <2>3. CaptureTypes'
    BY <1>1, <2>1, SameTypes
  <2>4. HealthTypes'
    BY <1>3, <1>4, <2>1 DEF HealthTypes
  <2>5. QED
    BY <1>2, <2>2, <2>3, <2>4 DEF TypesInv
<1>7. CASE Hang
  <2>1. hung' = setup.hangs /\ UNCHANGED <<now, error, audioDue, progress, nextHealth>>
    BY <1>7 DEF Hang, healthVars
  <2>2. SettingTypes'
    BY <1>1, <1>3, <1>4, <2>1 DEF SettingTypes
  <2>3. CaptureTypes' /\ HealthTypes'
    BY <1>1, <2>1, SameTypes
  <2>4. QED
    BY <1>2, <2>2, <2>3 DEF TypesInv
<1>8. CASE Tick
  <2>1. /\ now' = now + 1 /\ now < MaxTime
        /\ UNCHANGED <<hung, error, audioDue, progress, nextHealth>>
    BY <1>8 DEF Tick, healthVars
  <2>2. SettingTypes'
    BY <1>1, <1>3, <1>4, <2>1 DEF SettingTypes
  <2>3. CaptureTypes'
    BY <1>1, <1>3, <1>4, <2>1 DEF CaptureTypes
  <2>4. HealthTypes'
    BY <1>3, <1>4, <2>1 DEF HealthTypes
  <2>5. QED
    BY <1>2, <2>2, <2>3, <2>4 DEF TypesInv
<1>9. CASE UNCHANGED videoVars
  <2>1. UNCHANGED <<now, hung, error, audioDue, progress, nextHealth>>
    BY <1>9 DEF videoVars, healthVars
  <2>2. QED
    BY <1>1, <1>2, <2>1, SameTypes DEF TypesInv
<1>10. QED
  BY <1>5, <1>6, <1>7, <1>8, <1>9

(* The strengthened type invariant holds in every execution. *)
LEMMA TypesHold == Spec => []TypesInv
<1>1. TypesInv /\ [Next]_videoVars => TypesInv'
  BY CaptureKeepsTypes, ConsumersKeepTypes, OthersKeepTypes DEF Next, Rest
<1>2. QED
  BY <1>1, TypesInit, PTL DEF Spec

(* Whatever the rates, delays, policies, faults and hangs: no queue exceeds its
   capacity, and no worker reports progress it has not made yet. *)
THEOREM VideoTypes == Spec => []TypeOK
<1>1. TypesInv => TypeOK
  <2> SUFFICES ASSUME TypesInv PROVE TypeOK
    OBVIOUS
  <2>1. /\ inference = Idle \/ inference.frame \in Frame
        /\ encode = Idle \/ encode.frame \in Frame
    BY JobsAreNotIdle DEF TypesInv, ResultTypes, EncodeTypes
  <2>2. \A w \in WorkerNames : progress[w] \in 0 .. now
    BY TypesFacts DEF TypesInv, HealthTypes
  <2>3. QED
    BY <2>1, <2>2
    DEF TypesInv, SettingTypes, CaptureTypes, QueueTypes, ResultTypes, TypeOK, Places
<1>2. QED
  BY <1>1, TypesHold, PTL

-----------------------------------------------------------------------------
(* Silence is noticed *)

(* Until somebody is reported the checks are on time, and after a check everybody
   was heard of within the time-out. *)
HealthInv ==
  error = "none" =>
    /\ now <= nextHealth
    /\ \A w \in WorkerNames : nextHealth <= progress[w] + setup.stall + setup.health

(* A check happens as soon as it is due, and it finds who is late. *)
LEMMA StepKeepsHealth ==
  ASSUME TypesInv, HealthInv, [Next]_videoVars
  PROVE  HealthInv'
<1>1. /\ now \in Nat /\ nextHealth \in Nat /\ setup.stall \in Nat /\ setup.health \in Nat \ {0}
      /\ progress \in [WorkerNames -> Nat] /\ \A w \in WorkerNames : progress[w] <= now
  BY TypesFacts DEF TypesInv, HealthTypes
<1>2. CASE CheckHealth
  <2>1. /\ error = "none" /\ now >= nextHealth /\ error' = DetectStalledWorker
        /\ nextHealth' = nextHealth + setup.health /\ UNCHANGED <<now, setup, progress>>
    BY <1>2 DEF CheckHealth
  <2>2. SUFFICES ASSUME error' = "none" PROVE HealthInv'
    BY DEF HealthInv
  <2>3. now = nextHealth /\ \A w \in WorkerNames : now - progress[w] <= setup.stall
    BY <1>1, <2>1, <2>2, DetectionNames DEF HealthInv
  <2>4. QED
    BY <1>1, <2>1, <2>3 DEF HealthInv
<1>3. CASE Tick
  <2>1. now < nextHealth /\ now' = now + 1 /\ UNCHANGED <<setup, progress, nextHealth, error>>
    BY <1>3 DEF Tick, EverybodyWaits, healthVars
  <2>2. QED
    BY <1>1, <2>1 DEF HealthInv
<1>4. CASE ~CheckHealth /\ ~Tick
  <2>1. UNCHANGED <<now, setup, nextHealth, error>>
    BY <1>4 DEF Next, CaptureNext, ReadBegins, Retried, Paced, ReadReturns, Skip, Offer,
                PushEncode, CaptureStep, InferBegins, Publish, InferFails, InferenceStep,
                EncodeBegins, EncodeFrame, EncodeStep, AudioBlock, Hang, healthVars, Rest,
                videoVars
  <2>2. \A w \in WorkerNames : progress'[w] \in {progress[w], now}
    <3>1. \/ UNCHANGED progress
          \/ \E w \in WorkerNames : progress' = [progress EXCEPT ![w] = now]
          \/ AudioBlock
      BY <1>4, WorkersNamed
      DEF Next, CaptureNext, ReadBegins, Retried, Paced, ReadReturns, Skip, Offer,
          PushEncode, InferBegins, Publish, InferFails, EncodeBegins, EncodeFrame, Hang,
          MarkProgress, healthVars, Rest, videoVars
    <3>2. AudioBlock => \A w \in WorkerNames : progress'[w] \in {progress[w], now}
      BY DEF AudioBlock
    <3>3. QED
      BY <1>1, <3>1, <3>2
  <2>3. \A w \in WorkerNames : progress'[w] >= progress[w]
    BY <1>1, <2>2
  <2>4. \A w \in WorkerNames : progress[w] \in Nat /\ progress'[w] \in Nat
    BY <1>1, <2>2
  <2>5. QED
    BY <1>1, <2>1, <2>3, <2>4 DEF HealthInv
<1>5. QED
  BY <1>2, <1>3, <1>4

(* As long as nobody is reported, every worker was heard of within the time-out
   and one check: whoever hangs is found in time, wherever the hang comes. *)
THEOREM SilenceIsNoticed ==
  Spec => [](error = "none" =>
               \A w \in WorkerNames : now <= progress[w] + setup.stall + setup.health)
<1>1. Init => HealthInv
  <2> SUFFICES ASSUME Init PROVE HealthInv
    OBVIOUS
  <2>1. setup.stall \in Nat /\ setup.health \in Nat
    BY TypesInit, TypesFacts
  <2>2. now = 0 /\ nextHealth = setup.health /\ \A w \in WorkerNames : progress[w] = 0
    BY DEF Init
  <2>3. QED
    BY <2>1, <2>2 DEF HealthInv
<1>2. Spec => []HealthInv
  BY <1>1, StepKeepsHealth, TypesHold, PTL DEF Spec
<1>3. TypesInv /\ HealthInv =>
        (error = "none" =>
           \A w \in WorkerNames : now <= progress[w] + setup.stall + setup.health)
  <2> SUFFICES ASSUME TypesInv, HealthInv, error = "none", NEW w \in WorkerNames
               PROVE  now <= progress[w] + setup.stall + setup.health
    OBVIOUS
  <2>1. /\ now \in Nat /\ nextHealth \in Nat /\ setup.stall \in Nat /\ setup.health \in Nat
        /\ progress[w] \in Nat
    BY TypesFacts DEF TypesInv, HealthTypes
  <2>2. QED
    BY <2>1 DEF HealthInv
<1>4. QED
  BY <1>2, <1>3, TypesHold, PTL

-----------------------------------------------------------------------------
(* Every result is drawn: the argument *)

(* Frames below these numbers may be in inference, and on their way to the encoder. *)
Offered == IF capture.at \in Reading THEN attempt - 1 ELSE attempt
Captured == IF capture.at \in Reading \cup {"pushing"} THEN attempt - 1 ELSE attempt

(* The frames that are queued for a thread, and those of them inference saw. *)
InQueue(q) == {q[i] : i \in 1 .. Len(q)}
InWork(job) == IF job = Idle THEN {} ELSE {job.frame}
Numbers(S) == {f.sequence : f \in S}
Seen == results \cup Numbers(InWork(inference)) \cup Numbers(InQueue(inferenceQueue))

(* The frames on their way to the encoder. *)
Pending ==
  InQueue(encodeQueue) \cup InWork(encode)
    \cup (IF capture.at = "pushing" THEN {capture.frame} ELSE {})

(* A queue in order, between two numbers. *)
InOrder(q, low, high) ==
  /\ \A i \in 1 .. Len(q) : low < q[i].sequence /\ q[i].sequence < high
  /\ \A i, j \in 1 .. Len(q) : i < j => q[i].sequence < q[j].sequence

(* The last frame a thread took from its queue. *)
Taken(job, last) == IF job = Idle THEN last ELSE job.frame.sequence

(* Frames go through inference in their order. *)
InferenceOrder ==
  /\ \A s \in results : s <= latest.sequence
  /\ latest.sequence < Offered
  /\ inference # Idle =>
       latest.sequence < inference.frame.sequence /\ inference.frame.sequence < Offered
  /\ InOrder(inferenceQueue, Taken(inference, latest.sequence), Offered)

(* And so they do on their way to the encoder. *)
EncodeOrder ==
  /\ \A s \in encoded : s < Captured
  /\ encode # Idle => encode.frame.sequence < Captured
  /\ InOrder(encodeQueue, Taken(encode, -1), Captured)

(* Inference takes its time for a frame, begins when it is free, and is prompt. *)
InferenceTime ==
  /\ latest.completed <= now
  /\ inference # Idle =>
       /\ inference.until <= now + setup.latency
       /\ latest.completed + setup.latency <= inference.until
       /\ hung = "none" => now <= inference.until

(* The encoder does not wait for frames inference was not given. *)
Unsubmitted == \A f \in Pending : f.submitted \/ f.sequence \notin Seen

Covered == WaitCoversInference /\ hung = "none"

(* A frame that was encoded bare will not have a result. *)
Settled == Covered => \A s \in encoded : s \in drawn \/ s \notin Seen

(* A result that is waited for has just been computed, and is the latest. *)
ResultIsNew ==
  Covered =>
    \A f \in Pending :
      f.sequence \in results => f.sequence = latest.sequence /\ now = latest.completed

(* When inference is through with the i-th frame of its queue. *)
FreeAt == IF inference = Idle THEN now ELSE inference.until
Finish(i) == FreeAt + i * setup.latency

(* Which is before the encoder gives up. *)
InTime ==
  Covered /\ encode # Idle =>
    /\ inference # Idle /\ inference.frame.sequence = encode.frame.sequence =>
         inference.until < encode.until
    /\ \A i \in 1 .. Len(inferenceQueue) :
         inferenceQueue[i].sequence = encode.frame.sequence => Finish(i) < encode.until

(* The inductive invariant. *)
DrawInv ==
  /\ InferenceOrder /\ EncodeOrder /\ InferenceTime /\ Unsubmitted
  /\ Settled /\ ResultIsNew /\ InTime

-----------------------------------------------------------------------------
(* Every result is drawn: the steps *)

(* The types of what the argument compares. *)
LEMMA NumberTypes ==
  ASSUME TypesInv
  PROVE  /\ \A i \in 1 .. Len(inferenceQueue) :
              inferenceQueue[i] \in Frame /\ inferenceQueue[i].sequence \in Nat
         /\ \A i \in 1 .. Len(encodeQueue) :
              encodeQueue[i] \in Frame /\ encodeQueue[i].sequence \in Nat
         /\ inference # Idle =>
              /\ inference.frame \in Frame /\ inference.frame.sequence \in Nat
              /\ inference.until \in Nat
         /\ encode # Idle =>
              encode.frame \in Frame /\ encode.frame.sequence \in Nat /\ encode.until \in Nat
         /\ latest.sequence \in Nat \cup {-1} /\ latest.completed \in Nat
         /\ results \in SUBSET Nat /\ encoded \in SUBSET Nat
         /\ attempt \in Nat /\ Offered \in Int /\ Captured \in Int
         /\ Len(inferenceQueue) \in Nat /\ Len(encodeQueue) \in Nat
<1>1. \A f \in Frame : f.sequence \in Nat
  BY DEF Frame
<1>2. /\ inferenceQueue \in Seq(Frame) /\ encodeQueue \in Seq(Frame)
      /\ inference \in Jobs \cup {Idle} /\ encode \in Jobs \cup {Idle}
      /\ latest \in [sequence : Nat \cup {-1}, completed : Nat]
      /\ results \in SUBSET Nat /\ encoded \in SUBSET Nat /\ attempt \in Nat
  BY DEF TypesInv, QueueTypes, ResultTypes, EncodeTypes, CaptureTypes
<1>3. Offered \in Int /\ Captured \in Int
  BY <1>2 DEF Offered, Captured
<1>4. QED
  BY <1>1, <1>2, <1>3, JobsAreNotIdle

(* At the start nothing is known of any frame. *)
LEMMA DrawInit == Init => DrawInv
<1> SUFFICES ASSUME Init PROVE DrawInv
  OBVIOUS
<1>1. /\ capture.at = "reading" /\ attempt = 0 /\ now = 0
      /\ inference = Idle /\ encode = Idle /\ results = {} /\ encoded = {}
      /\ latest.sequence = -1 /\ latest.completed = 0
      /\ Len(inferenceQueue) = 0 /\ Len(encodeQueue) = 0
  BY DEF Init
<1>2. Offered = 0 /\ Captured = 0
  BY <1>1 DEF Offered, Captured, Reading
<1>3. Pending = {} /\ 1 .. 0 = {}
  BY <1>1 DEF Pending, InQueue, InWork
<1>4. InferenceOrder /\ EncodeOrder /\ InferenceTime
  BY <1>1, <1>2, <1>3 DEF InferenceOrder, EncodeOrder, InferenceTime, InOrder
<1>5. Unsubmitted /\ Settled /\ ResultIsNew /\ InTime
  BY <1>1, <1>3 DEF Unsubmitted, Settled, ResultIsNew, InTime
<1>6. QED
  BY <1>4, <1>5 DEF DrawInv

(* The parts of the argument that a step does not touch. *)
LEMMA DrawFrame ==
  ASSUME TypesInv, DrawInv, setup' = setup, hung' = "none" => hung = "none"
  PROVE  /\ (/\ UNCHANGED <<results, latest, inference, inferenceQueue>>
             /\ Offered' \in Int /\ Offered <= Offered') => InferenceOrder'
         /\ (/\ UNCHANGED <<encoded, encode, encodeQueue>>
             /\ Captured' \in Int /\ Captured <= Captured') => EncodeOrder'
         /\ UNCHANGED <<latest, inference, now>> => InferenceTime'
         /\ (Pending' \subseteq Pending /\ Seen' \subseteq Seen) => Unsubmitted'
         /\ (UNCHANGED <<encoded, drawn>> /\ Seen' \subseteq Seen) => Settled'
         /\ (/\ UNCHANGED <<latest, now, results>>
             /\ Pending' \subseteq Pending) => ResultIsNew'
         /\ UNCHANGED <<encode, inference, inferenceQueue, now>> => InTime'
<1>1. DrawInv
  OBVIOUS
<1>2. (/\ UNCHANGED <<results, latest, inference, inferenceQueue>>
       /\ Offered' \in Int /\ Offered <= Offered') => InferenceOrder'
  BY <1>1, NumberTypes, SMTT(30) DEF DrawInv, InferenceOrder, InOrder, Taken
<1>3. (/\ UNCHANGED <<encoded, encode, encodeQueue>>
       /\ Captured' \in Int /\ Captured <= Captured') => EncodeOrder'
  BY <1>1, NumberTypes DEF DrawInv, EncodeOrder, InOrder, Taken
<1>4. UNCHANGED <<latest, inference, now>> => InferenceTime'
  BY <1>1 DEF DrawInv, InferenceTime
<1>5. (Pending' \subseteq Pending /\ Seen' \subseteq Seen) => Unsubmitted'
  BY <1>1 DEF DrawInv, Unsubmitted
<1>6. Covered' => Covered
  BY DEF Covered, WaitCoversInference
<1>7. (UNCHANGED <<encoded, drawn>> /\ Seen' \subseteq Seen) => Settled'
  BY <1>1, <1>6 DEF DrawInv, Settled
<1>8. (UNCHANGED <<latest, now, results>> /\ Pending' \subseteq Pending) => ResultIsNew'
  BY <1>1, <1>6 DEF DrawInv, ResultIsNew
<1>9. UNCHANGED <<encode, inference, inferenceQueue, now>> => InTime'
  BY <1>1, <1>6 DEF DrawInv, InTime, Finish, FreeAt
<1>10. QED
  BY <1>2, <1>3, <1>4, <1>5, <1>7, <1>8, <1>9

(* The steps of a Read, and those that have nothing to do with frames. *)
LEMMA QuietKeepsDraw ==
  ASSUME TypesInv, DrawInv,
         ReadBegins \/ Retried \/ Paced \/ ReadReturns \/ AudioBlock \/ CheckHealth \/ Hang
           \/ UNCHANGED videoVars
  PROVE  DrawInv'
<1>1. /\ UNCHANGED <<now, setup, results, latest, inference, inferenceQueue, encoded, drawn,
                     encode, encodeQueue>>
      /\ hung' = "none" => hung = "none"
  BY DEF ReadBegins, Retried, Paced, ReadReturns, CaptureStep, AudioBlock, CheckHealth, Hang,
         videoVars, inferenceVars, encodeVars, healthVars
<1>2. /\ attempt \in Nat
      /\ \/ UNCHANGED <<capture, attempt>>
         \/ capture.at = "reading" /\ capture'.at \in {"retrying", "pacing"}
              /\ attempt' = attempt + 1
         \/ /\ capture.at \in {"retrying", "pacing", "delaying"} /\ attempt' = attempt
            /\ capture'.at \in {"reading", "delaying", "offering"}
            /\ capture.at = "retrying" <=> capture'.at = "reading"
  <2>1. capture \in [at : Places, until : Nat, frame : Frame \cup {None}] /\ attempt \in Nat
    BY DEF TypesInv, CaptureTypes
  <2>2. \A u : \A a \in Places : CaptureGoes(a, u) => capture'.at = a
    BY <2>1 DEF CaptureGoes
  <2>3. CASE ReadBegins
    BY <2>1, <2>2, <2>3 DEF ReadBegins, CaptureIs, Places
  <2>4. CASE Retried \/ Paced
    BY <2>1, <2>2, <2>4 DEF Retried, Paced, CaptureIs, Places
  <2>5. CASE ReadReturns
    BY <2>1, <2>5 DEF ReadReturns, CaptureIs
  <2>6. CASE AudioBlock \/ CheckHealth \/ Hang \/ UNCHANGED videoVars
    BY <2>1, <2>6 DEF AudioBlock, CheckHealth, Hang, videoVars, captureVars
  <2>7. QED
    BY <2>3, <2>4, <2>5, <2>6
<1>3. /\ Offered' \in Int /\ Offered <= Offered' /\ Captured' \in Int /\ Captured <= Captured'
  BY <1>2 DEF Offered, Captured, Reading
<1>4. Pending' \subseteq Pending
  BY <1>1, <1>2 DEF Pending, InQueue, InWork
<1>5. Seen' = Seen
  BY <1>1 DEF Seen, InWork, InQueue, Numbers
<1>6. QED
  BY <1>1, <1>3, <1>4, <1>5, DrawFrame DEF DrawInv

(* A queue in order that is extended by a later frame is in order. *)
LEMMA ExtendedInOrder ==
  ASSUME NEW p, NEW q \in Seq(Frame), NEW f \in Frame, NEW low \in Int, NEW n \in Int,
         \E d \in Nat : Extends(p, q, f, d), InOrder(q, low, n), low < n, f.sequence = n
  PROVE  InOrder(p, low, n + 1)
<1>1. PICK d \in Nat : Extends(p, q, f, d)
  OBVIOUS
<1>2. /\ Len(p) \in Nat \ {0} /\ p[Len(p)] = f
      /\ \A i \in 1 .. Len(p) - 1 : i + d \in 1 .. Len(q) /\ p[i] = q[i + d]
  BY <1>1 DEF Extends
<1>3. \A i \in 1 .. Len(q) : q[i].sequence \in Nat
  <2>1. \A i \in 1 .. Len(q) : q[i] \in Frame
    OBVIOUS
  <2>2. \A g \in Frame : g.sequence \in Nat
    BY DEF Frame
  <2>3. QED
    BY <2>1, <2>2
<1>4. \A i \in 1 .. Len(p) - 1 : p[i].sequence \in Nat /\ low < p[i].sequence /\ p[i].sequence < n
  BY <1>2, <1>3 DEF InOrder
<1>5. \A i, j \in 1 .. Len(p) - 1 : i < j => p[i].sequence < p[j].sequence
  <2>1. \A i, j \in 1 .. Len(p) - 1 : i < j => i + d < j + d
    BY <1>2
  <2>2. \A i, j \in 1 .. Len(q) : i < j => q[i].sequence < q[j].sequence
    BY DEF InOrder
  <2>3. QED
    BY <1>2, <2>1, <2>2
<1>6. \A i \in 1 .. Len(p) : i = Len(p) \/ i \in 1 .. Len(p) - 1
  BY <1>2
<1>7. \A i \in 1 .. Len(p) : low < p[i].sequence /\ p[i].sequence < n + 1
  BY <1>2, <1>4, <1>6
<1>8. ASSUME NEW i \in 1 .. Len(p), NEW j \in 1 .. Len(p), i < j
      PROVE  p[i].sequence < p[j].sequence
  <2>1. i \in 1 .. Len(p) - 1
    BY <1>2, <1>8
  <2>2. CASE j = Len(p)
    BY <1>2, <1>4, <2>1, <2>2
  <2>3. CASE j \in 1 .. Len(p) - 1
    BY <1>5, <1>8, <2>1, <2>3
  <2>4. QED
    BY <1>6, <2>2, <2>3
<1>9. QED
  BY <1>7, <1>8 DEF InOrder

(* It holds no frames but the old ones and the new one. *)
LEMMA ExtendedHolds ==
  ASSUME NEW p, NEW q, NEW f, \E d \in Nat : Extends(p, q, f, d)
  PROVE  InQueue(p) \subseteq InQueue(q) \cup {f}
<1>1. PICK d \in Nat : Extends(p, q, f, d)
  OBVIOUS
<1>2. \A i \in 1 .. Len(p) : p[i] = f \/ (i + d \in 1 .. Len(q) /\ p[i] = q[i + d])
  BY <1>1 DEF Extends
<1>3. QED
  BY <1>2 DEF InQueue

(* A frame that inference is not offered, or that its full queue refuses, is one
   it will never see; one that it is offered is one it has not seen yet. *)
LEMMA OfferKeepsDraw ==
  ASSUME TypesInv, DrawInv, Skip \/ Offer
  PROVE  DrawInv'
<1> DEFINE n == attempt - 1
<1>1. /\ UNCHANGED <<now, setup, hung, results, latest, inference, encoded, drawn, encode,
                     encodeQueue, attempt>>
      /\ capture.at = "offering" /\ capture'.at = "pushing"
  <2>1. capture \in [at : Places, until : Nat, frame : Frame \cup {None}]
    BY DEF TypesInv, CaptureTypes
  <2>2. QED
    BY <2>1 DEF Skip, Offer, CaptureIs, CaptureGoes, CaptureStep, inferenceVars, encodeVars
<1>2. /\ capture.frame \in Frame /\ capture.frame.sequence = n /\ n \in Int /\ attempt \in Nat
      /\ Offered = n /\ Captured = n /\ Offered' = n + 1 /\ Captured' = n
  BY <1>1 DEF TypesInv, CaptureTypes, Offered, Captured, Reading
<1>3. capture'.frame.sequence = n
  <2>1. capture \in [at : Places, until : Nat, frame : Frame \cup {None}]
        /\ capture.frame \in Frame
    BY <1>2 DEF TypesInv, CaptureTypes
  <2>2. CASE Skip
    BY <1>2, <2>1, <2>2 DEF Skip, CaptureGoes
  <2>3. CASE Offer
    BY <1>2, <2>1, <2>3 DEF Offer, Frame
  <2>4. QED
    BY <2>2, <2>3
<1>4. \/ inferenceQueue' = inferenceQueue
      \/ /\ capture'.frame.submitted
         /\ \E d \in Nat : Extends(inferenceQueue', inferenceQueue, capture.frame, d)
  <2>1. capture \in [at : Places, until : Nat, frame : Frame \cup {None}]
        /\ inferenceQueue \in Seq(Frame) /\ setup.inferenceBound \in Bounds
        /\ Len(inferenceQueue) <= setup.inferenceBound.capacity
    BY TypesFacts DEF TypesInv, CaptureTypes, QueueTypes
  <2>2. CASE Skip
    BY <2>2 DEF Skip
  <2>3. CASE Offer
    <3>1. /\ CanPush(inferenceQueue, setup.inferenceBound)
          /\ inferenceQueue' = Pushed(inferenceQueue, setup.inferenceBound, capture.frame)
      BY <2>3 DEF Offer
    <3>2. capture'.frame.submitted = PushIsOk(inferenceQueue, setup.inferenceBound)
      BY <1>2, <2>1, <2>3 DEF Offer, Frame
    <3>3. QED
      BY <1>2, <2>1, <3>1, <3>2, PushedQueue
  <2>4. QED
    BY <2>2, <2>3
<1> HIDE DEF n
<1>5. InOrder(inferenceQueue, Taken(inference, latest.sequence), n)
  BY <1>2 DEF DrawInv, InferenceOrder
<1>6. Taken(inference, latest.sequence) \in Int /\ Taken(inference, latest.sequence) < n
  BY <1>2, NumberTypes DEF DrawInv, InferenceOrder, Taken
<1>7. InOrder(inferenceQueue', Taken(inference, latest.sequence), n + 1)
  <2>1. CASE inferenceQueue' = inferenceQueue
    BY <1>2, <1>5, <2>1, NumberTypes DEF InOrder
  <2>2. CASE \E d \in Nat : Extends(inferenceQueue', inferenceQueue, capture.frame, d)
    <3>1. inferenceQueue \in Seq(Frame)
      BY DEF TypesInv, QueueTypes
    <3>2. QED
      BY <1>2, <1>5, <1>6, <2>2, <3>1, ExtendedInOrder
  <2>3. QED
    BY <1>4, <2>1, <2>2
<1>8. Numbers(InQueue(inferenceQueue'))
        \subseteq Numbers(InQueue(inferenceQueue)) \cup
                  (IF inferenceQueue' = inferenceQueue THEN {} ELSE {n})
  <2>1. CASE inferenceQueue' = inferenceQueue
    BY <2>1
  <2>2. CASE \E d \in Nat : Extends(inferenceQueue', inferenceQueue, capture.frame, d)
             /\ inferenceQueue' # inferenceQueue
    <3>1. InQueue(inferenceQueue') \subseteq InQueue(inferenceQueue) \cup {capture.frame}
      BY <2>2, ExtendedHolds
    <3>2. QED
      BY <1>2, <2>2, <3>1 DEF Numbers
  <2>3. QED
    BY <1>4, <2>1, <2>2
<1>9. Seen' \subseteq Seen \cup (IF inferenceQueue' = inferenceQueue THEN {} ELSE {n})
  BY <1>1, <1>8 DEF Seen
<1>10. n \notin Seen
  <2>1. \A s \in results : s < n
    BY <1>2, NumberTypes DEF DrawInv, InferenceOrder
  <2>2. inference # Idle => inference.frame.sequence < n
    BY <1>2 DEF DrawInv, InferenceOrder
  <2>3. \A i \in 1 .. Len(inferenceQueue) : inferenceQueue[i].sequence < n
    BY <1>5 DEF InOrder
  <2>4. QED
    BY <1>2, <2>1, <2>2, <2>3, NumberTypes DEF Seen, InWork, InQueue, Numbers
<1>11. Pending' = Pending \cup {capture'.frame}
  BY <1>1 DEF Pending, InWork
<1>12. \A f \in Pending : f.sequence # n
  <2>1. encode # Idle => encode.frame.sequence < n
    BY <1>2 DEF DrawInv, EncodeOrder
  <2>2. \A i \in 1 .. Len(encodeQueue) : encodeQueue[i].sequence < n
    BY <1>2 DEF DrawInv, EncodeOrder, InOrder
  <2>3. QED
    BY <1>1, <1>2, <2>1, <2>2, NumberTypes DEF Pending, InWork, InQueue
<1>13. InferenceOrder'
  BY <1>1, <1>2, <1>7, NumberTypes DEF DrawInv, InferenceOrder, Taken
<1>14. EncodeOrder' /\ InferenceTime'
  BY <1>1, <1>2, DrawFrame
<1>15. Unsubmitted'
  <2>1. \A f \in Pending : f.submitted \/ f.sequence \notin Seen'
    BY <1>9, <1>12 DEF DrawInv, Unsubmitted
  <2>2. capture'.frame.submitted \/ n \notin Seen'
    BY <1>4, <1>9, <1>10
  <2>3. QED
    BY <1>3, <1>11, <2>1, <2>2 DEF Unsubmitted
<1>16. Settled'
  <2>1. n \notin encoded
    BY <1>2, NumberTypes DEF DrawInv, EncodeOrder
  <2>2. QED
    BY <1>1, <1>9, <2>1 DEF DrawInv, Settled, Covered, WaitCoversInference
<1>17. ResultIsNew'
  <2>1. n \notin results'
    BY <1>1, <1>10 DEF Seen
  <2>2. QED
    BY <1>1, <1>3, <1>11, <2>1 DEF DrawInv, ResultIsNew, Covered, WaitCoversInference
<1>18. InTime'
  <2>1. CASE inferenceQueue' = inferenceQueue
    BY <1>1, <2>1, DrawFrame
  <2>2. CASE \E d \in Nat : Extends(inferenceQueue', inferenceQueue, capture.frame, d)
    <3>1. PICK d \in Nat : Extends(inferenceQueue', inferenceQueue, capture.frame, d)
      BY <2>2
    <3>2. \A i \in 1 .. Len(inferenceQueue') :
            \/ inferenceQueue'[i] = capture.frame
            \/ i + d \in 1 .. Len(inferenceQueue) /\ inferenceQueue'[i] = inferenceQueue[i + d]
      BY <3>1 DEF Extends
    <3>3. SUFFICES ASSUME Covered, encode # Idle PROVE InTime'
      BY <1>1 DEF InTime, Covered, WaitCoversInference
    <3>4. encode.frame.sequence # n
      BY <1>2, <3>3, NumberTypes DEF DrawInv, EncodeOrder
    <3>5. FreeAt' = FreeAt /\ FreeAt \in Nat /\ setup.latency \in Nat
      BY <1>1, NumberTypes, TypesFacts DEF FreeAt
    <3>6. ASSUME NEW i \in 1 .. Len(inferenceQueue'),
                 inferenceQueue'[i].sequence = encode.frame.sequence
          PROVE  Finish(i)' < encode.until
      <4>1. /\ i + d \in 1 .. Len(inferenceQueue)
            /\ inferenceQueue[i + d].sequence = encode.frame.sequence
        BY <1>2, <3>2, <3>4, <3>6
      <4>2. Finish(i + d) < encode.until
        BY <3>3, <4>1 DEF DrawInv, InTime
      <4>3. i \in Nat /\ i * setup.latency \in Nat /\ d * setup.latency \in Nat
            /\ (i + d) * setup.latency = i * setup.latency + d * setup.latency
        BY <3>1, <3>5, ProductIsNat
      <4>4. encode.until \in Nat
        BY <3>3, NumberTypes
      <4>5. Finish(i)' = FreeAt + i * setup.latency
        BY <1>1, <3>5 DEF Finish
      <4>6. Finish(i + d) = FreeAt + (i * setup.latency + d * setup.latency)
        BY <4>3 DEF Finish
      <4>7. \A a, b, c, u \in Nat : a + (b + c) < u => a + b < u
        OBVIOUS
      <4>8. FreeAt + (i * setup.latency + d * setup.latency) < encode.until
        BY <4>2, <4>6
      <4>9. FreeAt + i * setup.latency < encode.until
        BY <3>5, <4>3, <4>4, <4>7, <4>8
      <4>10. QED
        BY <1>1, <4>5, <4>9
    <3>7. QED
      BY <1>1, <3>3, <3>6 DEF DrawInv, InTime
  <2>3. QED
    BY <1>4, <2>1, <2>2
<1>19. QED
  BY <1>13, <1>14, <1>15, <1>16, <1>17, <1>18 DEF DrawInv

(* A frame that is put into the encode queue stays on its way, and those that
   make room for it are no longer. *)
LEMMA PushKeepsDraw ==
  ASSUME TypesInv, DrawInv, PushEncode
  PROVE  DrawInv'
<1> DEFINE n == attempt - 1
<1>1. /\ UNCHANGED <<now, setup, hung, results, latest, inference, inferenceQueue, encoded,
                     drawn, encode, attempt>>
      /\ capture.at = "pushing" /\ capture'.at = "reading"
  <2>1. capture \in [at : Places, until : Nat, frame : Frame \cup {None}]
    BY DEF TypesInv, CaptureTypes
  <2>2. QED
    BY <2>1 DEF PushEncode, CaptureIs, CaptureGoes, CaptureStep, inferenceVars, encodeVars
<1>2. /\ capture.frame \in Frame /\ capture.frame.sequence = n /\ n \in Int /\ attempt \in Nat
      /\ Offered = n + 1 /\ Offered' = n + 1 /\ Captured = n /\ Captured' = n + 1 /\ n > -1
  BY <1>1 DEF TypesInv, CaptureTypes, Offered, Captured, Reading
<1>3. \/ encodeQueue' = encodeQueue
      \/ \E d \in Nat : Extends(encodeQueue', encodeQueue, capture.frame, d)
  <2>1. /\ encodeQueue \in Seq(Frame) /\ setup.encodeBound \in Bounds
        /\ Len(encodeQueue) <= setup.encodeBound.capacity
    BY TypesFacts DEF TypesInv, QueueTypes
  <2>2. /\ CanPush(encodeQueue, setup.encodeBound)
        /\ encodeQueue' = Pushed(encodeQueue, setup.encodeBound, capture.frame)
    BY DEF PushEncode
  <2>3. QED
    BY <1>2, <2>1, <2>2, PushedQueue
<1> HIDE DEF n
<1>4. InOrder(encodeQueue, Taken(encode, -1), n)
  BY <1>2 DEF DrawInv, EncodeOrder
<1>5. Taken(encode, -1) \in Int /\ Taken(encode, -1) < n
  BY <1>2, NumberTypes DEF DrawInv, EncodeOrder, Taken
<1>6. InOrder(encodeQueue', Taken(encode, -1), n + 1)
  <2>1. CASE encodeQueue' = encodeQueue
    BY <1>2, <1>4, <2>1, NumberTypes DEF InOrder
  <2>2. CASE \E d \in Nat : Extends(encodeQueue', encodeQueue, capture.frame, d)
    <3>1. encodeQueue \in Seq(Frame)
      BY DEF TypesInv, QueueTypes
    <3>2. QED
      BY <1>2, <1>4, <1>5, <2>2, <3>1, ExtendedInOrder
  <2>3. QED
    BY <1>3, <2>1, <2>2
<1>7. InQueue(encodeQueue') \subseteq InQueue(encodeQueue) \cup {capture.frame}
  <2>1. CASE encodeQueue' = encodeQueue
    BY <2>1
  <2>2. CASE \E d \in Nat : Extends(encodeQueue', encodeQueue, capture.frame, d)
    BY <2>2, ExtendedHolds
  <2>3. QED
    BY <1>3, <2>1, <2>2
<1>8. Pending' \subseteq Pending /\ Seen' = Seen
  BY <1>1, <1>7 DEF Pending, Seen, InWork, InQueue
<1>9. EncodeOrder'
  <2>1. \A s \in encoded : s < n + 1
    BY <1>2, NumberTypes DEF DrawInv, EncodeOrder
  <2>2. encode # Idle => encode.frame.sequence < n + 1
    BY <1>2, NumberTypes DEF DrawInv, EncodeOrder
  <2>3. Taken(encode, -1)' = Taken(encode, -1)
    BY <1>1 DEF Taken
  <2>4. QED
    BY <1>1, <1>2, <1>6, <2>1, <2>2, <2>3 DEF EncodeOrder
<1>10. InferenceOrder' /\ InferenceTime' /\ Unsubmitted' /\ Settled' /\ ResultIsNew' /\ InTime'
  BY <1>1, <1>2, <1>8, DrawFrame
<1>11. QED
  BY <1>9, <1>10 DEF DrawInv

(* The head of a queue in order comes before the rest. *)
LEMMA TailInOrder ==
  ASSUME NEW q \in Seq(Frame), NEW low \in Int, NEW high \in Int,
         q # <<>>, InOrder(q, low, high)
  PROVE  /\ Head(q) \in Frame /\ Tail(q) \in Seq(Frame)
         /\ low < Head(q).sequence /\ Head(q).sequence < high
         /\ InOrder(Tail(q), Head(q).sequence, high)
         /\ Len(q) \in Nat \ {0} /\ Len(Tail(q)) = Len(q) - 1 /\ Head(q) = q[1]
         /\ \A i \in 1 .. Len(Tail(q)) : i + 1 \in 1 .. Len(q) /\ Tail(q)[i] = q[i + 1]
         /\ InQueue(q) = {Head(q)} \cup InQueue(Tail(q))
<1>1. /\ Head(q) \in Frame /\ Tail(q) \in Seq(Frame)
      /\ Len(q) \in Nat \ {0} /\ Len(Tail(q)) = Len(q) - 1 /\ Head(q) = q[1]
      /\ \A i \in 1 .. Len(Tail(q)) : i + 1 \in 1 .. Len(q) /\ Tail(q)[i] = q[i + 1]
  OBVIOUS
<1>2. low < Head(q).sequence /\ Head(q).sequence < high
  BY <1>1 DEF InOrder
<1>3. \A i \in 1 .. Len(Tail(q)) :
        Head(q).sequence < Tail(q)[i].sequence /\ Tail(q)[i].sequence < high
  <2>1. \A i \in 1 .. Len(Tail(q)) : 1 < i + 1 /\ 1 \in 1 .. Len(q)
    BY <1>1
  <2>2. QED
    BY <1>1, <2>1 DEF InOrder
<1>4. \A i, j \in 1 .. Len(Tail(q)) : i < j => Tail(q)[i].sequence < Tail(q)[j].sequence
  <2>1. \A i, j \in 1 .. Len(Tail(q)) : i < j => i + 1 < j + 1
    OBVIOUS
  <2>2. QED
    BY <1>1, <2>1 DEF InOrder
<1>5. InQueue(q) = {Head(q)} \cup InQueue(Tail(q))
  <2>1. \A i \in 1 .. Len(q) : i = 1 \/ (i - 1 \in 1 .. Len(Tail(q)) /\ q[i] = Tail(q)[i - 1])
    BY <1>1
  <2>2. 1 \in 1 .. Len(q)
    BY <1>1
  <2>3. ASSUME NEW f \in InQueue(q) PROVE f \in {Head(q)} \cup InQueue(Tail(q))
    <3>1. PICK i \in 1 .. Len(q) : f = q[i]
      BY <2>3 DEF InQueue
    <3>2. CASE i = 1
      BY <1>1, <3>1, <3>2
    <3>3. CASE i - 1 \in 1 .. Len(Tail(q)) /\ q[i] = Tail(q)[i - 1]
      BY <3>1, <3>3 DEF InQueue
    <3>4. QED
      BY <2>1, <3>2, <3>3
  <2>4. ASSUME NEW f \in InQueue(Tail(q)) PROVE f \in InQueue(q)
    BY <1>1, <2>4 DEF InQueue
  <2>5. Head(q) \in InQueue(q)
    BY <1>1, <2>2 DEF InQueue
  <2>6. QED
    BY <2>3, <2>4, <2>5
<1>6. QED
  BY <1>1, <1>2, <1>3, <1>4, <1>5 DEF InOrder

(* Inference takes the next frame: it has seen no other frames than before, and
   is through with each of them when it would have been. *)
LEMMA InferKeepsDraw ==
  ASSUME TypesInv, DrawInv, InferBegins
  PROVE  DrawInv'
<1> DEFINE head == Head(inferenceQueue)
           rest == Tail(inferenceQueue)
<1>1. /\ inference = Idle /\ inferenceQueue # <<>> /\ inferenceQueue' = rest
      /\ inference' = [frame |-> head, until |-> now + setup.latency]
      /\ UNCHANGED <<now, setup, hung, results, latest, encoded, drawn, encode, encodeQueue,
                     capture, attempt>>
  BY DEF InferBegins, InferenceStep, captureVars, encodeVars
<1>2. /\ Offered' = Offered /\ Captured' = Captured /\ Pending' = Pending
      /\ Offered \in Int /\ latest.sequence \in Int /\ inferenceQueue \in Seq(Frame)
      /\ now \in Nat /\ setup.latency \in Nat /\ latest.completed \in Nat
  <2>1. Offered' = Offered /\ Captured' = Captured /\ Pending' = Pending
    BY <1>1 DEF Offered, Captured, Pending, InWork, InQueue
  <2>2. Offered \in Int /\ latest.sequence \in Nat \cup {-1} /\ latest.completed \in Nat
    BY NumberTypes
  <2>3. now \in Nat /\ setup.latency \in Nat
    BY TypesFacts
  <2>4. inferenceQueue \in Seq(Frame)
    BY DEF TypesInv, QueueTypes
  <2>5. QED
    BY <2>1, <2>2, <2>3, <2>4
<1>3. InOrder(inferenceQueue, latest.sequence, Offered)
  BY <1>1 DEF DrawInv, InferenceOrder, Taken
<1>4. /\ head \in Frame /\ rest \in Seq(Frame) /\ Len(rest) \in Nat
      /\ latest.sequence < head.sequence /\ head.sequence < Offered
      /\ InOrder(rest, head.sequence, Offered)
      /\ 1 \in 1 .. Len(inferenceQueue) /\ head = inferenceQueue[1]
      /\ \A i \in 1 .. Len(rest) :
           i + 1 \in 1 .. Len(inferenceQueue) /\ rest[i] = inferenceQueue[i + 1]
      /\ InQueue(inferenceQueue) = {head} \cup InQueue(rest)
  BY <1>1, <1>2, <1>3, TailInOrder
<1> HIDE DEF head, rest
<1>5. inference' # Idle /\ inference'.frame = head /\ inference'.until = now + setup.latency
  <2>1. inference' \in Jobs
    BY <1>1, <1>2, <1>4 DEF Jobs
  <2>2. QED
    BY <1>1, <2>1, JobsAreNotIdle
<1>6. InferenceOrder'
  <2>1. Taken(inference, latest.sequence)' = head.sequence
    BY <1>5 DEF Taken
  <2>2. QED
    BY <1>1, <1>2, <1>4, <1>5, <2>1 DEF DrawInv, InferenceOrder
<1>7. EncodeOrder'
  BY <1>1, <1>2, NumberTypes, DrawFrame
<1>8. InferenceTime'
  BY <1>1, <1>2, <1>5 DEF DrawInv, InferenceTime
<1>9. Seen' = Seen
  <2>1. Numbers(InWork(inference')) = {head.sequence} /\ InWork(inference) = {}
    BY <1>1, <1>5 DEF Numbers, InWork
  <2>2. Numbers(InQueue(inferenceQueue)) = {head.sequence} \cup Numbers(InQueue(rest))
    BY <1>4 DEF Numbers
  <2>3. Numbers({}) = {}
    BY DEF Numbers
  <2>4. QED
    BY <1>1, <2>1, <2>2, <2>3 DEF Seen
<1>10. Unsubmitted' /\ Settled' /\ ResultIsNew'
  BY <1>1, <1>2, <1>9, DrawFrame
<1>11. InTime'
  <2>1. SUFFICES ASSUME Covered, encode # Idle PROVE InTime'
    BY <1>1 DEF InTime, Covered, WaitCoversInference
  <2>2. FreeAt = now /\ FreeAt' = now + setup.latency
    BY <1>1, <1>5 DEF FreeAt
  <2>3. head.sequence = encode.frame.sequence => now + setup.latency < encode.until
    <3>1. head.sequence = encode.frame.sequence => Finish(1) < encode.until
      BY <1>4, <2>1 DEF DrawInv, InTime
    <3>2. Finish(1) = now + setup.latency
      BY <1>2, <2>2 DEF Finish
    <3>3. QED
      BY <3>1, <3>2
  <2>4. ASSUME NEW i \in 1 .. Len(rest), rest[i].sequence = encode.frame.sequence
        PROVE  Finish(i)' < encode.until
    <3>1. Finish(i + 1) < encode.until
      BY <1>4, <2>1, <2>4 DEF DrawInv, InTime
    <3>2. /\ i * setup.latency \in Nat
          /\ (i + 1) * setup.latency = i * setup.latency + setup.latency
      BY <1>2, ProductIsNat
    <3>3. Finish(i)' = (now + setup.latency) + i * setup.latency
      BY <1>1, <2>2 DEF Finish
    <3>4. Finish(i + 1) = now + (i * setup.latency + setup.latency)
      BY <2>2, <3>2 DEF Finish
    <3>5. \A a, b, c \in Nat : (a + b) + c = a + (c + b)
      OBVIOUS
    <3>6. Finish(i)' = Finish(i + 1)
      BY <1>2, <3>2, <3>3, <3>4, <3>5
    <3>7. QED
      BY <3>1, <3>6
  <2>5. QED
    BY <1>1, <1>5, <2>3, <2>4 DEF InTime
<1>12. QED
  BY <1>6, <1>7, <1>8, <1>10, <1>11 DEF DrawInv

(* Inference is done with a frame, with a result or without: it is the latest,
   and while one was still awaited no time had passed for another. *)
LEMMA ResultKeepsDraw ==
  ASSUME TypesInv, DrawInv, Publish \/ InferFails
  PROVE  DrawInv'
<1> DEFINE s == inference.frame.sequence
<1>1. /\ inference # Idle /\ inference' = Idle /\ now >= inference.until
      /\ UNCHANGED <<now, setup, hung, encoded, drawn, encode, encodeQueue, inferenceQueue,
                     capture, attempt>>
      /\ \/ UNCHANGED <<latest, results>>
         \/ latest' = [sequence |-> s, completed |-> now] /\ results' = results \cup {s}
  BY DEF Publish, InferFails, InferenceIsDone, InferenceStep, captureVars, encodeVars
<1>2. /\ Offered' = Offered /\ Captured' = Captured /\ Pending' = Pending
      /\ Offered \in Int /\ latest.sequence \in Int /\ s \in Nat /\ inference.until \in Nat
      /\ now \in Nat /\ setup.latency \in Nat /\ latest.completed \in Nat
  <2>1. Offered' = Offered /\ Captured' = Captured /\ Pending' = Pending
    BY <1>1 DEF Offered, Captured, Pending, InWork, InQueue
  <2>2. /\ Offered \in Int /\ latest.sequence \in Nat \cup {-1} /\ latest.completed \in Nat
        /\ s \in Nat /\ inference.until \in Nat
    BY <1>1, NumberTypes
  <2>3. now \in Nat /\ setup.latency \in Nat
    BY TypesFacts
  <2>4. QED
    BY <2>1, <2>2, <2>3
<1> HIDE DEF s
<1>3. /\ latest.sequence < s /\ s < Offered /\ InOrder(inferenceQueue, s, Offered)
      /\ \A r \in results : r <= latest.sequence
  BY <1>1 DEF DrawInv, InferenceOrder, Taken, s
<1>4. \A i \in 1 .. Len(inferenceQueue) :
        latest.sequence < inferenceQueue[i].sequence /\ s < inferenceQueue[i].sequence
  BY <1>2, <1>3, NumberTypes DEF InOrder
<1>5. InferenceOrder'
  <2>1. \A l \in {latest.sequence, s} : InOrder(inferenceQueue, l, Offered)
    BY <1>3, <1>4 DEF InOrder
  <2>2. latest'.sequence \in {latest.sequence, s}
        /\ \A r \in results' : r <= latest'.sequence
    <3>1. CASE UNCHANGED <<latest, results>>
      BY <1>3, <3>1
    <3>2. CASE latest' = [sequence |-> s, completed |-> now] /\ results' = results \cup {s}
      <4>1. latest'.sequence = s
        BY <3>2
      <4>2. \A r \in results : r <= s
        BY <1>2, <1>3, NumberTypes
      <4>3. QED
        BY <1>2, <3>2, <4>1, <4>2
    <3>3. QED
      BY <1>1, <3>1, <3>2
  <2>3. Taken(inference, latest.sequence)' = latest'.sequence
    BY <1>1 DEF Taken
  <2>4. QED
    BY <1>1, <1>2, <1>3, <2>1, <2>2, <2>3 DEF InferenceOrder
<1>6. EncodeOrder'
  BY <1>1, <1>2, NumberTypes, DrawFrame
<1>7. InferenceTime'
  BY <1>1, <1>2 DEF DrawInv, InferenceTime
<1>8. Seen' \subseteq Seen
  <2>1. Numbers(InWork(inference)) = {s} /\ InWork(inference') = {}
    BY <1>1 DEF Numbers, InWork, s
  <2>2. Numbers({}) = {}
    BY DEF Numbers
  <2>3. QED
    BY <1>1, <2>1, <2>2 DEF Seen
<1>9. Unsubmitted' /\ Settled'
  BY <1>1, <1>2, <1>8, DrawFrame
<1>10. ResultIsNew'
  <2>1. CASE UNCHANGED <<latest, results>>
    BY <1>1, <1>2, <2>1, DrawFrame
  <2>2. CASE latest' = [sequence |-> s, completed |-> now] /\ results' = results \cup {s}
    <3>1. SUFFICES ASSUME Covered, NEW f \in Pending, f.sequence \in results'
                   PROVE  f.sequence = s
      BY <1>1, <1>2, <2>2 DEF ResultIsNew, Covered, WaitCoversInference
    <3>2. SUFFICES ASSUME f.sequence \in results PROVE FALSE
      BY <2>2, <3>1
    <3>3. now = latest.completed
      BY <3>1, <3>2 DEF DrawInv, ResultIsNew
    <3>4. latest.completed + setup.latency <= inference.until /\ setup.latency > 0
      BY <1>1, <3>1 DEF DrawInv, InferenceTime, Covered, WaitCoversInference
    <3>5. QED
      BY <1>1, <1>2, <3>3, <3>4
  <2>3. QED
    BY <1>1, <2>1, <2>2
<1>11. InTime'
  <2>1. SUFFICES ASSUME Covered, encode # Idle PROVE InTime'
    BY <1>1 DEF InTime, Covered, WaitCoversInference
  <2>2. now = inference.until
    BY <1>1, <1>2, <2>1 DEF DrawInv, InferenceTime, Covered
  <2>3. FreeAt' = FreeAt
    BY <1>1, <2>2 DEF FreeAt
  <2>4. QED
    BY <1>1, <2>1, <2>3 DEF DrawInv, InTime, Finish
<1>12. QED
  BY <1>5, <1>6, <1>7, <1>9, <1>10, <1>11 DEF DrawInv

(* A longer queue takes longer. *)
LEMMA ProductGrows ==
  ASSUME NEW a \in Nat, NEW b \in Nat, NEW c \in Nat, a <= b
  PROVE  a * c <= b * c
<1>1. b - a \in Nat /\ b = a + (b - a)
  OBVIOUS
<1>2. (b - a) * c \in Nat /\ a * c \in Nat /\ b * c \in Nat
  BY <1>1, ProductIsNat
<1>3. \A x, y, z \in Nat : (x + y) * z = x * z + y * z
  OBVIOUS
<1>4. b * c = a * c + (b - a) * c
  BY <1>1, <1>3
<1>5. QED
  BY <1>2, <1>4

(* The encoder takes a frame: its wait covers the frame inference works on and
   the whole queue of inference. *)
LEMMA TakeKeepsDraw ==
  ASSUME TypesInv, DrawInv, EncodeBegins
  PROVE  DrawInv'
<1> DEFINE head == Head(encodeQueue)
           rest == Tail(encodeQueue)
<1>1. /\ encode = Idle /\ encodeQueue # <<>> /\ encodeQueue' = rest
      /\ encode' = [frame |-> head, until |-> now + setup.wait]
      /\ UNCHANGED <<now, setup, hung, results, latest, inference, inferenceQueue, encoded, drawn,
                     capture, attempt>>
  BY DEF EncodeBegins, EncodeStep, captureVars, inferenceVars
<1>2. /\ Offered' = Offered /\ Captured' = Captured /\ Seen' = Seen
      /\ Captured \in Int /\ encodeQueue \in Seq(Frame) /\ now \in Nat
      /\ setup.latency \in Nat /\ setup.wait \in Nat
      /\ setup.inferenceBound.capacity \in Nat
  BY <1>1, NumberTypes, TypesFacts DEF Offered, Captured, Seen, TypesInv, QueueTypes
<1>3. InOrder(encodeQueue, -1, Captured)
  BY <1>1 DEF DrawInv, EncodeOrder, Taken
<1>4. /\ head \in Frame /\ rest \in Seq(Frame) /\ head.sequence < Captured
      /\ InOrder(rest, head.sequence, Captured)
      /\ InQueue(encodeQueue) = {head} \cup InQueue(rest)
  BY <1>1, <1>2, <1>3, TailInOrder
<1> HIDE DEF head, rest
<1>5. encode' # Idle /\ encode'.frame = head /\ encode'.until = now + setup.wait
  <2>1. encode' \in Jobs
    BY <1>1, <1>2, <1>4 DEF Jobs
  <2>2. QED
    BY <1>1, <2>1, JobsAreNotIdle
<1>6. Pending' = Pending
  BY <1>1, <1>4, <1>5 DEF Pending, InWork
<1>7. EncodeOrder'
  <2>1. Taken(encode, -1)' = head.sequence
    BY <1>5 DEF Taken
  <2>2. QED
    BY <1>1, <1>2, <1>4, <1>5, <2>1 DEF DrawInv, EncodeOrder
<1>8. InferenceOrder' /\ InferenceTime' /\ Unsubmitted' /\ Settled' /\ ResultIsNew'
  BY <1>1, <1>2, <1>6, NumberTypes, DrawFrame
<1>9. InTime'
  <2> DEFINE longest == setup.inferenceBound.capacity * setup.latency
  <2>1. SUFFICES ASSUME Covered PROVE InTime'
    BY <1>1 DEF InTime, Covered, WaitCoversInference
  <2>2. longest \in Nat /\ setup.wait > longest + setup.latency
    <3>1. longest \in Nat
      BY <1>2, ProductIsNat
    <3>2. \A c, l \in Nat : (c + 1) * l = c * l + l
      OBVIOUS
    <3>3. (setup.inferenceBound.capacity + 1) * setup.latency = longest + setup.latency
      BY <1>2, <3>2
    <3>4. QED
      BY <2>1, <3>1, <3>3 DEF Covered, WaitCoversInference
  <2>3. \A i \in 1 .. Len(inferenceQueue) : i * setup.latency \in Nat
                                           /\ i * setup.latency <= longest
    <3>1. Len(inferenceQueue) \in Nat
          /\ Len(inferenceQueue) <= setup.inferenceBound.capacity
      BY NumberTypes DEF TypesInv, QueueTypes
    <3>2. \A i \in 1 .. Len(inferenceQueue) :
            i \in Nat /\ i <= setup.inferenceBound.capacity
      BY <1>2, <3>1
    <3>3. QED
      BY <1>2, <3>2, ProductGrows, ProductIsNat
  <2> HIDE DEF longest
  <2>4. /\ FreeAt \in Nat /\ FreeAt <= now + setup.latency /\ FreeAt' = FreeAt
        /\ inference # Idle => inference.until = FreeAt
    BY <1>1, <1>2, NumberTypes DEF DrawInv, InferenceTime, FreeAt
  <2>5. \A i \in 1 .. Len(inferenceQueue) : Finish(i)' < now + setup.wait
    <3>1. \A i \in 1 .. Len(inferenceQueue) : Finish(i)' = FreeAt + i * setup.latency
      BY <1>1, <2>4 DEF Finish
    <3>2. \A a, b, c, l, x, w \in Nat :
            a <= c + l /\ b <= x /\ w > x + l => a + b < c + w
      OBVIOUS
    <3>3. \A i \in 1 .. Len(inferenceQueue) : FreeAt + i * setup.latency < now + setup.wait
      BY <1>2, <2>2, <2>3, <2>4, <3>2
    <3>4. QED
      BY <3>1, <3>3
  <2>6. inference # Idle => inference.until < now + setup.wait
    BY <1>2, <2>2, <2>4
  <2>7. QED
    BY <1>1, <1>5, <2>5, <2>6 DEF InTime
<1>10. QED
  BY <1>7, <1>8, <1>9 DEF DrawInv

(* A frame that is encoded bare was not given to inference, or was dropped by
   its queue, or was overtaken; it was not encoded because the wait was over. *)
LEMMA EncodedIsSettled ==
  ASSUME TypesInv, DrawInv, EncodeFrame, Covered, encode.frame.sequence \in Seen
  PROVE  IsDrawn
<1> DEFINE s == encode.frame.sequence
<1>1. /\ encode # Idle /\ WaitIsOver /\ setup.overlay
      /\ encode.frame \in Frame /\ s \in Nat /\ encode.until \in Nat
      /\ encode.frame \in Pending
  BY NumberTypes DEF EncodeFrame, Covered, WaitCoversInference, Pending, InWork
<1>2. /\ now \in Nat /\ setup.latency \in Nat /\ setup.maxAge \in Nat
      /\ latest.sequence \in Int /\ latest.completed \in Nat
  <2>1. now \in Nat /\ setup.latency \in Nat /\ setup.maxAge \in Nat
    BY TypesFacts
  <2>2. latest.sequence \in Nat \cup {-1} /\ latest.completed \in Nat
    BY NumberTypes
  <2>3. QED
    BY <2>1, <2>2
<1>3. \/ s \in results
      \/ inference # Idle /\ inference.frame.sequence = s
      \/ \E i \in 1 .. Len(inferenceQueue) : inferenceQueue[i].sequence = s
  BY DEF Seen, InWork, InQueue, Numbers
<1> HIDE DEF s
<1>4. encode.frame.submitted
  BY <1>1 DEF DrawInv, Unsubmitted
<1>5. CASE ResultIsThere
  <2>1. s <= latest.sequence
    BY <1>1, <1>2, <1>5 DEF ResultIsThere, s
  <2>2. ~(inference # Idle /\ inference.frame.sequence = s)
    BY <1>1, <1>2, <2>1 DEF DrawInv, InferenceOrder
  <2>3. \A i \in 1 .. Len(inferenceQueue) : inferenceQueue[i].sequence # s
    <3>1. Taken(inference, latest.sequence) >= latest.sequence
          /\ Taken(inference, latest.sequence) \in Int
      BY <1>2, NumberTypes DEF DrawInv, InferenceOrder, Taken
    <3>2. QED
      BY <1>1, <1>2, <2>1, <3>1, NumberTypes, SMTT(30) DEF DrawInv, InferenceOrder, InOrder
  <2>4. s \in results
    BY <1>3, <2>2, <2>3
  <2>5. s = latest.sequence /\ now = latest.completed
    BY <1>1, <2>4 DEF DrawInv, ResultIsNew, s
  <2>6. QED
    BY <1>1, <1>2, <2>5 DEF IsDrawn, s
<1>6. CASE ~ResultIsThere
  <2>1. now >= encode.until
    BY <1>1, <1>4, <1>6 DEF WaitIsOver
  <2>2. s \notin results
    BY <1>1, <1>2, <1>6, NumberTypes DEF DrawInv, InferenceOrder, ResultIsThere, s
  <2>3. ~(inference # Idle /\ inference.frame.sequence = s)
    BY <1>1, <1>2, <2>1, NumberTypes DEF DrawInv, InTime, InferenceTime, Covered, s
  <2>4. \A i \in 1 .. Len(inferenceQueue) : inferenceQueue[i].sequence # s
    <3>1. FreeAt \in Nat /\ now <= FreeAt
      BY <1>2, NumberTypes DEF DrawInv, InferenceTime, Covered, FreeAt
    <3>2. ASSUME NEW i \in 1 .. Len(inferenceQueue), inferenceQueue[i].sequence = s PROVE FALSE
      <4>1. FreeAt + i * setup.latency < encode.until
        BY <1>1, <3>2 DEF DrawInv, InTime, Finish, s
      <4>2. i * setup.latency \in Nat
        BY <1>2, ProductIsNat
      <4>3. \A a, b, c, d \in Nat : ~(a + b < c /\ d >= c /\ d <= a)
        OBVIOUS
      <4>4. QED
        BY <1>1, <1>2, <2>1, <3>1, <4>1, <4>2, <4>3
    <3>3. QED
      BY <3>2
  <2>5. QED
    BY <1>3, <2>2, <2>3, <2>4
<1>7. QED
  BY <1>5, <1>6

(* The frame is encoded, with its result if it will ever have one. *)
LEMMA EncodeKeepsDraw ==
  ASSUME TypesInv, DrawInv, EncodeFrame
  PROVE  DrawInv'
<1> DEFINE s == encode.frame.sequence
<1>1. /\ encode # Idle /\ encode' = Idle /\ encoded' = encoded \cup {s}
      /\ drawn' = IF IsDrawn THEN drawn \cup {s} ELSE drawn
      /\ UNCHANGED <<now, setup, hung, results, latest, inference, inferenceQueue, encodeQueue,
                     capture, attempt>>
  BY DEF EncodeFrame, EncodeStep, captureVars, inferenceVars
<1>2. /\ Offered' = Offered /\ Captured' = Captured /\ Seen' = Seen
      /\ Offered \in Int /\ Captured \in Int /\ s \in Nat
  BY <1>1, NumberTypes DEF Offered, Captured, Seen
<1>3. Pending' \subseteq Pending
  BY <1>1 DEF Pending, InWork
<1>4. Covered => s \notin Seen \/ IsDrawn
  BY EncodedIsSettled
<1> HIDE DEF s
<1>5. s < Captured /\ InOrder(encodeQueue, s, Captured)
  BY <1>1 DEF DrawInv, EncodeOrder, Taken, s
<1>6. EncodeOrder'
  <2>1. InOrder(encodeQueue, -1, Captured)
    BY <1>2, <1>5, NumberTypes DEF InOrder
  <2>2. Taken(encode, -1)' = -1
    BY <1>1 DEF Taken
  <2>3. QED
    BY <1>1, <1>2, <1>5, <2>1, <2>2 DEF DrawInv, EncodeOrder
<1>7. InferenceOrder' /\ InferenceTime' /\ Unsubmitted' /\ ResultIsNew'
  BY <1>1, <1>2, <1>3, DrawFrame
<1>8. Settled'
  BY <1>1, <1>2, <1>4 DEF DrawInv, Settled, Covered, WaitCoversInference
<1>9. InTime'
  BY <1>1 DEF InTime
<1>10. QED
  BY <1>6, <1>7, <1>8, <1>9 DEF DrawInv

(* Time does not pass while a result is there for a frame that is on its way. *)
LEMMA ResultIsUsedFirst ==
  ASSUME TypesInv, DrawInv, Tick, Covered,
         NEW f \in Pending, f.sequence \in results
  PROVE  FALSE
<1>1. /\ ~CaptureIsReady /\ ~EncodeIsReady
      /\ Runs("video_encode") /\ Runs("video_capture")
  BY DEF Tick, EverybodyWaits, Runs, Covered
<1>2. f.sequence = latest.sequence
  BY DEF DrawInv, ResultIsNew
<1>3. /\ encodeQueue = <<>> \/ encode # Idle
      /\ encode # Idle => ~ResultIsThere
  BY <1>1 DEF EncodeIsReady, WaitIsOver
<1>4. encode # Idle => encode.frame.sequence > f.sequence
  BY <1>2, <1>3, NumberTypes DEF ResultIsThere
<1>5. CASE f \in InWork(encode)
  BY <1>4, <1>5, NumberTypes DEF InWork
<1>6. CASE f \in InQueue(encodeQueue)
  <2>1. PICK i \in 1 .. Len(encodeQueue) : f = encodeQueue[i]
    BY <1>6 DEF InQueue
  <2>2. encode # Idle
    BY <1>3, <2>1
  <2>3. encode.frame.sequence < encodeQueue[i].sequence
    BY <2>1, <2>2 DEF DrawInv, EncodeOrder, InOrder, Taken
  <2>4. QED
    BY <1>4, <2>1, <2>2, <2>3, NumberTypes
<1>7. CASE capture.at = "pushing" /\ f = capture.frame
  <2>1. /\ f.sequence = attempt - 1 /\ capture.until <= now /\ Captured = attempt - 1
        /\ capture.until \in Nat /\ now \in Nat /\ attempt \in Nat
    BY <1>7, TypesFacts DEF TypesInv, CaptureTypes, Captured
  <2>2. ~CanPush(encodeQueue, setup.encodeBound)
    BY <1>1, <1>7, <2>1 DEF CaptureIsReady
  <2>3. encodeQueue # <<>>
    <3>1. setup.encodeBound.capacity \in Nat \ {0}
      BY TypesFacts
    <3>2. QED
      BY <2>2, <3>1 DEF CanPush
  <2>4. encode # Idle /\ encode.frame.sequence < attempt - 1
    BY <1>3, <2>1, <2>3 DEF DrawInv, EncodeOrder
  <2>5. QED
    BY <1>4, <2>1, <2>4, NumberTypes
<1>8. QED
  BY <1>5, <1>6, <1>7 DEF Pending

(* Time passes when nobody has anything to do: inference is not late. *)
LEMMA TickKeepsDraw ==
  ASSUME TypesInv, DrawInv, Tick
  PROVE  DrawInv'
<1>1. /\ now' = now + 1 /\ error = "none" /\ ~InferenceIsReady
      /\ UNCHANGED <<setup, hung, results, latest, inference, inferenceQueue, encoded, drawn,
                     encode, encodeQueue, capture, attempt>>
  BY DEF Tick, EverybodyWaits, captureVars, inferenceVars, encodeVars
<1>2. /\ Offered' = Offered /\ Captured' = Captured /\ Seen' = Seen /\ Pending' = Pending
      /\ Offered \in Int /\ Captured \in Int /\ now \in Nat /\ setup.latency \in Nat
  BY <1>1, NumberTypes, TypesFacts DEF Offered, Captured, Seen, Pending
<1>3. InferenceOrder' /\ EncodeOrder' /\ Unsubmitted' /\ Settled'
  BY <1>1, <1>2, DrawFrame
<1>4. hung = "none" =>
        /\ inference = Idle => inferenceQueue = <<>>
        /\ inference # Idle => now < inference.until
  BY <1>1, <1>2, NumberTypes DEF InferenceIsReady, InferenceIsDone, Runs
<1>5. InferenceTime'
  <2>1. latest.completed \in Nat /\ (inference # Idle => inference.until \in Nat)
    BY NumberTypes
  <2>2. CASE inference = Idle
    BY <1>1, <1>2, <2>1, <2>2 DEF DrawInv, InferenceTime
  <2>3. CASE inference # Idle
    BY <1>1, <1>2, <1>4, <2>1, <2>3 DEF DrawInv, InferenceTime
  <2>4. QED
    BY <2>2, <2>3
<1>6. ResultIsNew'
  <2>1. Covered => \A f \in Pending : f.sequence \notin results
    BY ResultIsUsedFirst
  <2>2. QED
    BY <1>1, <1>2, <2>1 DEF ResultIsNew, Covered, WaitCoversInference
<1>7. InTime'
  <2>1. SUFFICES ASSUME Covered, encode # Idle PROVE InTime'
    BY <1>1 DEF InTime, Covered, WaitCoversInference
  <2>2. CASE inference = Idle
    <3>1. 1 .. Len(inferenceQueue) = {}
      BY <1>4, <2>1, <2>2 DEF Covered
    <3>2. QED
      BY <1>1, <2>2, <3>1 DEF InTime
  <2>3. CASE inference # Idle
    <3>1. FreeAt' = FreeAt
      BY <1>1, <2>3 DEF FreeAt
    <3>2. QED
      BY <1>1, <2>1, <3>1 DEF DrawInv, InTime, Finish
  <2>4. QED
    BY <2>2, <2>3
<1>8. QED
  BY <1>3, <1>5, <1>6, <1>7 DEF DrawInv

(* The inductive invariant holds in every execution. *)
LEMMA DrawHolds == Spec => []DrawInv
<1>1. TypesInv /\ DrawInv /\ [Next]_videoVars => DrawInv'
  BY QuietKeepsDraw, OfferKeepsDraw, PushKeepsDraw, InferKeepsDraw, ResultKeepsDraw,
     TakeKeepsDraw, EncodeKeepsDraw, TickKeepsDraw
  DEF Next, CaptureNext, Rest
<1>2. QED
  BY <1>1, DrawInit, TypesHold, PTL DEF Spec

(* No result is wasted, for every rate, latency, capacity and policy for which
   the wait covers inference, whatever reads and inferences fail. *)
THEOREM ComputedIsDrawn == Spec => []EveryResultIsDrawn
<1>1. DrawInv => EveryResultIsDrawn
  BY DEF DrawInv, Settled, Covered, Seen, EveryResultIsDrawn
<1>2. QED
  BY <1>1, DrawHolds, PTL

-----------------------------------------------------------------------------
(* Who is blamed: the argument *)

(* Frames come one interval and one delay apart, at most. *)
FramesApart == VideoProgressInterval(setup)

(* Nothing but a hang is wrong with the configuration: no camera that is gone, no frame
   that cannot be read, no queue that makes the capture wait; and a camera whose frames
   are thinned by their PTS keeps the pace of its deadlines. *)
NothingElseIsWrong ==
  /\ setup.failing = {} /\ setup.unreadable = {} /\ ~PassesHangsOn
  /\ InferenceInterval = 0 \/ setup.readDelay <= Second \div setup.fps

(* The time-out that is long enough for such a configuration. *)
TimeoutCovers ==
  /\ NothingElseIsWrong
  /\ setup.stall >= setup.audioFrame
  /\ setup.stall >= FramesApart + setup.wait
  /\ setup.stall >= FramesApart + InferenceInterval + setup.latency

(* The deadlines of the frame that is read, or was last, and of the next one. *)
Due == DeadlineFor(attempt - 1)
NextDue == DeadlineFor(attempt)

(* The capture is on its way to its next frame, from its last one. *)
CaptureOnTime ==
  /\ capture.at # "retrying"
  /\ hung = "video_capture" => capture.at \in {"reading", "pacing", "delaying"}
  /\ attempt > 0 /\ capture.at \in {"reading", "offering", "pushing"} =>
       Due <= progress["video_capture"]
  /\ capture.at = "reading" => capture.until <= progress["video_capture"]
  /\ capture.at = "pacing" =>
       /\ capture.until = Due
       /\ capture.until <= progress["video_capture"] + Ceiling(Second, setup.fps)
  /\ capture.at = "delaying" =>
       /\ Due + setup.readDelay <= capture.until
       /\ capture.until <= progress["video_capture"] + FramesApart
  /\ capture.at \in {"offering", "pushing"} => now = progress["video_capture"]
  /\ hung # "video_capture" =>
       /\ capture.at = "reading" => now = progress["video_capture"]
       /\ capture.at = "pacing" => now <= progress["video_capture"] + Ceiling(Second, setup.fps)
       /\ capture.at = "delaying" => now <= capture.until

(* A camera that keeps its pace has each frame at its deadline and the delay, and the PTS
   that thin the frames are those of the clock. *)
CaptureKeepsPace ==
  InferenceInterval # 0 =>
    /\ capture.at = "delaying" => capture.until = Due + setup.readDelay
    /\ capture.at \in {"offering", "pushing"} =>
         now = Due + setup.readDelay
    /\ capture.at = "offering" => capture.frame.pts = Due
    /\ hung # "video_capture" =>
         /\ capture.at = "reading" => now <= NextDue
         /\ capture.at = "pacing" => now <= Due
    /\ lastInference >= 0 => lastInference + setup.readDelay <= now

(* A worker that is idle has seen the last frame, and it waits for the next one no longer
   than the capture does. *)
InferenceOnTime ==
  /\ hung = "inference" => inference # Idle
  /\ inference = Idle /\ inferenceQueue = <<>> =>
       /\ capture.at # "offering" =>
            progress["video_capture"] <= progress["inference"] + InferenceInterval
       /\ InferenceInterval # 0 /\ lastInference >= 0 =>
            lastInference + setup.readDelay <= progress["inference"]
  /\ inference = Idle /\ (hung = "video_capture" => inferenceQueue # <<>>) =>
       now <= progress["inference"] + InferenceInterval + FramesApart
  /\ inference # Idle =>
       /\ inference.until <=
            progress["inference"] + InferenceInterval + FramesApart + setup.latency
       /\ hung # "inference" => now <= inference.until

EncodeOnTime ==
  /\ hung = "video_encode" => encode # Idle
  /\ encode = Idle /\ encodeQueue = <<>> /\ capture.at \notin {"offering", "pushing"} =>
       progress["video_capture"] <= progress["video_encode"]
  /\ encode = Idle /\ (hung = "video_capture" => encodeQueue # <<>>) =>
       now <= progress["video_encode"] + FramesApart
  /\ encode # Idle =>
       /\ encode.until <= progress["video_encode"] + FramesApart + setup.wait
       /\ hung # "video_encode" => now <= encode.until

(* The audio threads have a block each frame of the device, and stop together. *)
AudioOnTime ==
  /\ now <= audioDue
  /\ hung # "audio_capture" => audioDue <= progress["audio_capture"] + setup.audioFrame
  /\ hung \notin {"audio_capture", "audio_encode"} =>
       audioDue <= progress["audio_encode"] + setup.audioFrame
  /\ hung # "audio_encode" => progress["audio_encode"] = progress["audio_capture"]

OnTime == CaptureOnTime /\ CaptureKeepsPace /\ InferenceOnTime /\ EncodeOnTime /\ AudioOnTime

BlameInv == NothingElseIsWrong => OnTime

-----------------------------------------------------------------------------
(* Who is blamed: the steps *)

(* One deadline comes an interval after the other, rounded down or up. *)
LEMMA DeadlinesApart ==
  ASSUME NEW n \in Nat, setup \in Settings
  PROVE  /\ DeadlineFor(n + 1) <= DeadlineFor(n) + Ceiling(Second, setup.fps)
         /\ DeadlineFor(n) + Second \div setup.fps <= DeadlineFor(n + 1)
<1> DEFINE f == setup.fps
           a == DeadlineFor(n)
           b == DeadlineFor(n + 1)
           c == Ceiling(Second, f)
           d == Second \div f
           y == (Second + f - 1) % f
           z == Second % f
<1>1. f \in Nat \ {0} /\ Second \in Nat /\ n + 1 \in Nat
  BY SettingsTypes, VideoAssumption DEF VideoAssumption
<1>2. a \in Nat /\ b \in Nat
  BY <1>1, DeadlineIsNat
<1>3. /\ f * a <= n * Second /\ n * Second < f * a + f
      /\ f * b <= (n + 1) * Second /\ (n + 1) * Second < f * b + f
  BY <1>1, DeadlinesAreExact
<1>4. d \in Nat /\ z \in 0 .. f - 1 /\ Second = f * d + z
  BY <1>1, Division
<1>5. c \in Nat /\ y \in 0 .. f - 1 /\ Second + f - 1 = f * c + y
  <2>1. Second + f - 1 \in Nat
    BY <1>1
  <2>2. QED
    BY <1>1, <2>1, Division DEF Ceiling
<1> HIDE DEF f, a, b, c, d, y, z
<1>6. (n + 1) * Second = n * Second + Second /\ n * Second \in Nat
  BY <1>1
<1>7. f * a \in Nat /\ f * b \in Nat /\ f * c \in Nat /\ f * d \in Nat
  BY <1>1, <1>2, <1>4, <1>5
<1>8. b <= a + c
  <2>1. SUFFICES ASSUME b > a + c PROVE FALSE
    BY <1>2, <1>5
  <2>2. PICK e \in Nat : b = a + c + 1 + e
    <3>1. b - a - c - 1 \in Nat /\ b = a + c + 1 + (b - a - c - 1)
      BY <1>2, <1>5, <2>1
    <3>2. QED
      BY <3>1
  <2>3. f * b = f * a + f * c + f + f * e /\ f * e \in Nat
    BY <1>1, <1>2, <1>5, <2>2
  <2>4. QED
    BY <1>1, <1>3, <1>5, <1>6, <1>7, <2>3
<1>9. a + d <= b
  <2>1. SUFFICES ASSUME a + d > b PROVE FALSE
    BY <1>2, <1>4
  <2>2. PICK e \in Nat : a + d = b + 1 + e
    <3>1. a + d - b - 1 \in Nat /\ a + d = b + 1 + (a + d - b - 1)
      BY <1>2, <1>4, <2>1
    <3>2. QED
      BY <3>1
  <2>3. f * a + f * d = f * (a + d) /\ f * (b + 1 + e) = f * b + f + f * e /\ f * e \in Nat
    BY <1>1, <1>2, <1>4, <2>2
  <2>4. QED
    BY <1>1, <1>3, <1>4, <1>6, <1>7, <2>2, <2>3
<1>10. QED
  BY <1>8, <1>9 DEF f, a, b, c, d

(* The times that are compared are natural numbers. *)
LEMMA TimeTypes ==
  ASSUME TypesInv
  PROVE  /\ now \in Nat /\ attempt \in Nat /\ capture.until \in Nat /\ lastInference \in Int
         /\ setup.readDelay \in Nat /\ setup.latency \in Nat /\ setup.wait \in Nat
         /\ setup.audioFrame \in Nat /\ setup.stall \in Nat
         /\ Ceiling(Second, setup.fps) \in Nat /\ InferenceInterval \in Nat
         /\ FramesApart = Ceiling(Second, setup.fps) + setup.readDelay
         /\ FramesApart \in Nat
         /\ NextDue \in Nat
         /\ attempt > 0 => attempt - 1 \in Nat /\ Due \in Nat
         /\ \A w \in WorkerNames : progress[w] \in Nat /\ progress[w] <= now
         /\ inference # Idle => inference.until \in Nat
         /\ encode # Idle => encode.until \in Nat
         /\ audioDue \in Nat
<1>1. setup \in Settings /\ attempt \in Nat
  BY DEF TypesInv, SettingTypes, CaptureTypes
<1>2. setup.fps \in Nat \ {0} /\ Second \in Nat /\ setup.maxFps \in Nat
  BY <1>1, SettingsTypes, VideoAssumption DEF VideoAssumption
<1>3. Ceiling(Second, setup.fps) \in Nat
  <2>1. Second + setup.fps - 1 \in Nat
    BY <1>2
  <2>2. QED
    BY <1>2, <2>1, QuotientIsNat DEF Ceiling
<1>4. InferenceInterval \in Nat
  BY <1>2, QuotientIsNat DEF InferenceInterval
<1>5. setup.readDelay \in Nat
  BY TypesFacts
<1>6. FramesApart = Ceiling(Second, setup.fps) + setup.readDelay
  BY DEF FramesApart, VideoProgressInterval
<1>7. FramesApart \in Nat
  BY <1>3, <1>5, <1>6
<1>8. NextDue \in Nat
  BY <1>1, DeadlineIsNat DEF NextDue
<1>9. attempt > 0 => attempt - 1 \in Nat /\ Due \in Nat
  <2>1. attempt > 0 => attempt - 1 \in Nat
    BY <1>1
  <2>2. QED
    BY <1>1, <2>1, DeadlineIsNat DEF Due
<1>10. capture.until \in Nat /\ lastInference \in Int
  BY DEF TypesInv, CaptureTypes
<1>11. audioDue \in Nat /\ \A w \in WorkerNames : progress[w] \in Nat /\ progress[w] <= now
  BY DEF TypesInv, HealthTypes
<1>12. (inference # Idle => inference.until \in Nat) /\ (encode # Idle => encode.until \in Nat)
  BY JobsAreNotIdle DEF TypesInv, ResultTypes, EncodeTypes
<1>13. /\ now \in Nat /\ setup.latency \in Nat /\ setup.wait \in Nat
       /\ setup.audioFrame \in Nat /\ setup.stall \in Nat
  BY TypesFacts
<1>14. QED
  BY <1>1, <1>3, <1>4, <1>5, <1>6, <1>7, <1>8, <1>9, <1>10, <1>11, <1>12, <1>13

(* At the start everybody was just heard of. *)
LEMMA OnTimeInit == Init => BlameInv
<1> SUFFICES ASSUME Init, NothingElseIsWrong PROVE OnTime
  BY DEF BlameInv
<1>1. TypesInv
  BY TypesInit
<1>2. /\ now = 0 /\ hung = "none" /\ attempt = 0 /\ lastInference = -1
      /\ capture.at = "reading" /\ capture.until = 0
      /\ inference = Idle /\ encode = Idle /\ audioDue = setup.audioFrame
      /\ \A w \in WorkerNames : progress[w] = 0
  BY DEF Init
<1>3. {"video_capture", "inference", "video_encode", "audio_capture", "audio_encode"}
        \subseteq WorkerNames
  BY WorkersNamed
<1>4. /\ FramesApart \in Nat /\ InferenceInterval \in Nat /\ NextDue \in Nat
      /\ setup.audioFrame \in Nat
  BY <1>1, <1>2, TimeTypes
<1>5. CaptureOnTime /\ CaptureKeepsPace
  BY <1>2, <1>3, <1>4 DEF CaptureOnTime, CaptureKeepsPace
<1>6. InferenceOnTime
  BY <1>2, <1>3, <1>4 DEF InferenceOnTime
<1>7. EncodeOnTime
  BY <1>2, <1>3, <1>4 DEF EncodeOnTime
<1>8. AudioOnTime
  BY <1>2, <1>3, <1>4 DEF AudioOnTime
<1>9. QED
  BY <1>5, <1>6, <1>7, <1>8 DEF OnTime

(* The parts that a step does not touch. *)
LEMMA OnTimeFrame ==
  ASSUME TypesInv, OnTime, UNCHANGED <<setup, hung, now>>
  PROVE  /\ (/\ UNCHANGED <<capture, attempt>>
             /\ progress'["video_capture"] = progress["video_capture"]) => CaptureOnTime'
         /\ UNCHANGED <<capture, attempt, lastInference>> => CaptureKeepsPace'
         /\ (/\ UNCHANGED <<inference, inferenceQueue, lastInference>>
             /\ progress'["inference"] = progress["inference"]
             /\ capture'.at # "offering" =>
                  /\ capture.at # "offering"
                  /\ progress'["video_capture"] = progress["video_capture"])
              => InferenceOnTime'
         /\ (/\ UNCHANGED <<encode, encodeQueue>>
             /\ progress'["video_encode"] = progress["video_encode"]
             /\ capture'.at \notin {"offering", "pushing"} =>
                  /\ capture.at \notin {"offering", "pushing"}
                  /\ progress'["video_capture"] = progress["video_capture"])
              => EncodeOnTime'
         /\ (/\ audioDue' = audioDue
             /\ progress'["audio_capture"] = progress["audio_capture"]
             /\ progress'["audio_encode"] = progress["audio_encode"]) => AudioOnTime'
<1>1. CaptureOnTime /\ CaptureKeepsPace /\ InferenceOnTime /\ EncodeOnTime /\ AudioOnTime
  BY DEF OnTime
<1>2. FramesApart' = FramesApart /\ InferenceInterval' = InferenceInterval
  BY DEF FramesApart, VideoProgressInterval, InferenceInterval
<1>3. attempt' = attempt => Due' = Due /\ NextDue' = NextDue
  BY DEF Due, NextDue, DeadlineFor
<1>4. (/\ UNCHANGED <<capture, attempt>>
       /\ progress'["video_capture"] = progress["video_capture"]) => CaptureOnTime'
  BY <1>1, <1>2, <1>3 DEF CaptureOnTime
<1>5. UNCHANGED <<capture, attempt, lastInference>> => CaptureKeepsPace'
  BY <1>1, <1>2, <1>3 DEF CaptureKeepsPace
<1>6. (/\ UNCHANGED <<inference, inferenceQueue, lastInference>>
       /\ progress'["inference"] = progress["inference"]
       /\ capture'.at # "offering" =>
            /\ capture.at # "offering"
            /\ progress'["video_capture"] = progress["video_capture"])
        => InferenceOnTime'
  BY <1>1, <1>2 DEF InferenceOnTime
<1>7. (/\ UNCHANGED <<encode, encodeQueue>>
       /\ progress'["video_encode"] = progress["video_encode"]
       /\ capture'.at \notin {"offering", "pushing"} =>
            /\ capture.at \notin {"offering", "pushing"}
            /\ progress'["video_capture"] = progress["video_capture"])
        => EncodeOnTime'
  BY <1>1, <1>2 DEF EncodeOnTime
<1>8. (/\ audioDue' = audioDue
       /\ progress'["audio_capture"] = progress["audio_capture"]
       /\ progress'["audio_encode"] = progress["audio_encode"]) => AudioOnTime'
  BY <1>1 DEF AudioOnTime
<1>9. QED
  BY <1>4, <1>5, <1>6, <1>7, <1>8

(* Where the capture goes. *)
LEMMA CaptureMoves ==
  ASSUME TypesInv, NEW a, NEW u, CaptureGoes(a, u)
  PROVE  capture'.at = a /\ capture'.until = u /\ capture'.frame = capture.frame
<1>1. capture \in [at : Places, until : Nat, frame : Frame \cup {None}]
  BY DEF TypesInv, CaptureTypes
<1>2. QED
  BY <1>1 DEF CaptureGoes

(* A Read: from one deadline to the next. *)
LEMMA ReadKeepsOnTime ==
  ASSUME TypesInv, NothingElseIsWrong, OnTime, ReadBegins \/ Retried \/ Paced
  PROVE  OnTime'
<1>1. /\ UNCHANGED <<now, setup, hung, lastInference, inference, inferenceQueue, encode,
                     encodeQueue, progress, audioDue>>
      /\ hung # "video_capture" /\ now >= capture.until
  BY DEF ReadBegins, Retried, Paced, CaptureStep, CaptureIs, Runs, inferenceVars, encodeVars
<1>2. CaptureOnTime /\ CaptureKeepsPace
  BY DEF OnTime
<1>3. ~Retried
  BY <1>2 DEF Retried, CaptureIs, CaptureOnTime
<1>4. FramesApart' = FramesApart /\ InferenceInterval' = InferenceInterval
  BY <1>1 DEF FramesApart, VideoProgressInterval, InferenceInterval
<1>5. (capture.at \notin {"offering", "pushing"}) /\ (capture'.at \notin {"offering", "pushing"})
  BY <1>3, CaptureMoves DEF ReadBegins, Paced, CaptureIs, NothingElseIsWrong
<1>6. InferenceOnTime' /\ EncodeOnTime' /\ AudioOnTime'
  BY <1>1, <1>5, OnTimeFrame
<1>7. CaptureOnTime' /\ CaptureKeepsPace'
  <2>1. CASE ReadBegins
    <3>1. /\ capture.at = "reading" /\ attempt' = attempt + 1
          /\ capture'.at = "pacing" /\ capture'.until = NextDue
      BY <2>1, CaptureMoves DEF ReadBegins, CaptureIs, NothingElseIsWrong, NextDue
    <3>2. Due' = NextDue
      <4>1. attempt' - 1 = attempt
        BY <3>1, TimeTypes
      <4>2. QED
        BY <1>1, <4>1 DEF Due, NextDue, DeadlineFor
    <3>3. NextDue <= progress["video_capture"] + Ceiling(Second, setup.fps)
      <4>1. "video_capture" \in WorkerNames
        BY WorkersNamed
      <4>2. CASE attempt = 0
        <5>1. DeadlineFor(0) = 0
          <6>1. setup.fps \in Nat \ {0} /\ Second \in Nat
            BY SettingsTypes, VideoAssumption DEF VideoAssumption, TypesInv, SettingTypes
          <6>2. 0 \div setup.fps = 0 /\ 0 % setup.fps = 0 /\ 0 * Second = 0
            BY <6>1
          <6>3. QED
            BY <6>2 DEF DeadlineFor
        <5>2. QED
          BY <4>1, <4>2, <5>1, TimeTypes DEF NextDue
      <4>3. CASE attempt > 0
        <5>1. attempt - 1 \in Nat /\ attempt - 1 + 1 = attempt /\ setup \in Settings
          BY <4>3, TimeTypes DEF TypesInv, SettingTypes
        <5>2. NextDue <= Due + Ceiling(Second, setup.fps)
          BY <5>1, DeadlinesApart DEF Due, NextDue
        <5>3. Due <= progress["video_capture"]
          BY <1>2, <3>1, <4>3 DEF CaptureOnTime
        <5>4. QED
          BY <4>1, <4>3, <5>2, <5>3, TimeTypes
      <4>4. QED
        BY <4>2, <4>3, TimeTypes
    <3>4. CaptureOnTime'
      <4>1. now = progress["video_capture"]
        BY <1>1, <1>2, <3>1 DEF CaptureOnTime
      <4>2. QED
        BY <1>1, <3>1, <3>2, <3>3, <4>1, TimeTypes DEF CaptureOnTime
    <3>5. CaptureKeepsPace'
      <4>1. InferenceInterval # 0 => now <= NextDue
        BY <1>1, <1>2, <3>1 DEF CaptureKeepsPace
      <4>2. InferenceInterval # 0 =>
              (lastInference >= 0 => lastInference + setup.readDelay <= now)
        BY <1>2 DEF CaptureKeepsPace
      <4>3. QED
        BY <1>1, <1>4, <3>1, <3>2, <4>1, <4>2 DEF CaptureKeepsPace
    <3>6. QED
      BY <3>4, <3>5
  <2>2. CASE Paced
    <3>1. /\ capture.at = "pacing" /\ attempt' = attempt
          /\ capture'.at = "delaying" /\ capture'.until = now + setup.readDelay
      BY <2>2, CaptureMoves DEF Paced, CaptureIs
    <3>2. Due' = Due
      BY <1>1, <3>1 DEF Due, DeadlineFor
    <3>3. attempt > 0
      BY <3>1 DEF TypesInv, CaptureTypes, Reading
    <3>4. /\ Due <= now
          /\ now <= progress["video_capture"] + Ceiling(Second, setup.fps)
      BY <1>1, <1>2, <3>1 DEF CaptureOnTime
    <3>5. "video_capture" \in WorkerNames
      BY WorkersNamed
    <3>6. CaptureOnTime'
      BY <1>1, <1>4, <3>1, <3>2, <3>3, <3>4, <3>5, TimeTypes DEF CaptureOnTime
    <3>7. InferenceInterval # 0 => now = Due
      BY <1>1, <1>2, <3>1, <3>3, <3>4, TimeTypes DEF CaptureKeepsPace
    <3>8. InferenceInterval # 0 =>
            (lastInference >= 0 => lastInference + setup.readDelay <= now)
      BY <1>2 DEF CaptureKeepsPace
    <3>9. CaptureKeepsPace'
      BY <1>1, <1>4, <3>1, <3>2, <3>7, <3>8 DEF CaptureKeepsPace
    <3>10. QED
      BY <3>6, <3>9
  <2>3. QED
    BY <1>3, <2>1, <2>2
<1>8. QED
  BY <1>6, <1>7 DEF OnTime

(* The frame arrives when its deadline and the delay have passed, and not later. *)
LEMMA ReadReturnsOnTime ==
  ASSUME TypesInv, NothingElseIsWrong, OnTime, ReadReturns
  PROVE  OnTime'
<1>1. /\ UNCHANGED <<now, setup, hung, attempt, lastInference, inference, inferenceQueue, encode,
                     encodeQueue, audioDue>>
      /\ hung # "video_capture" /\ now >= capture.until /\ capture.at = "delaying"
      /\ capture'.at = "offering" /\ capture'.until = now
      /\ capture'.frame.pts = Due
      /\ progress' = [progress EXCEPT !["video_capture"] = now]
  BY DEF ReadReturns, CaptureStep, CaptureIs, Runs, inferenceVars, encodeVars, MarkProgress, Due
<1>2. CaptureOnTime /\ CaptureKeepsPace
  BY DEF OnTime
<1>3. /\ progress \in [WorkerNames -> Nat]
      /\ {"video_capture", "inference", "video_encode", "audio_capture", "audio_encode"}
           = WorkerNames
  BY WorkersNamed DEF TypesInv, HealthTypes
<1>4. /\ progress'["video_capture"] = now
      /\ progress'["inference"] = progress["inference"]
      /\ progress'["video_encode"] = progress["video_encode"]
      /\ progress'["audio_capture"] = progress["audio_capture"]
      /\ progress'["audio_encode"] = progress["audio_encode"]
  BY <1>1, <1>3
<1>5. InferenceOnTime' /\ EncodeOnTime' /\ AudioOnTime'
  BY <1>1, <1>4, OnTimeFrame
<1>6. attempt > 0
  BY <1>1 DEF TypesInv, CaptureTypes, Reading
<1>7. /\ Due' = Due
      /\ FramesApart' = FramesApart /\ InferenceInterval' = InferenceInterval
  BY <1>1 DEF Due, NextDue, DeadlineFor, FramesApart, VideoProgressInterval, InferenceInterval
<1>8. Due + setup.readDelay <= now /\ now = capture.until
  BY <1>1, <1>2, TimeTypes, <1>6 DEF CaptureOnTime
<1>9. CaptureOnTime'
  <2>1. Due <= now
    BY <1>6, <1>8, TimeTypes
  <2>2. QED
    BY <1>1, <1>4, <1>7, <2>1 DEF CaptureOnTime
<1>10. CaptureKeepsPace'
  <2>1. InferenceInterval # 0 => now = Due + setup.readDelay
    BY <1>1, <1>2, <1>8 DEF CaptureKeepsPace
  <2>2. InferenceInterval # 0 =>
          (lastInference >= 0 => lastInference + setup.readDelay <= now)
    BY <1>2 DEF CaptureKeepsPace
  <2>3. QED
    BY <1>1, <1>7, <2>1, <2>2 DEF CaptureKeepsPace
<1>11. QED
  BY <1>5, <1>9, <1>10 DEF OnTime

(* A frame that is thinned is not far behind the one before it. *)
LEMMA SkipKeepsOnTime ==
  ASSUME TypesInv, NothingElseIsWrong, OnTime, Skip
  PROVE  OnTime'
<1>1. /\ UNCHANGED <<now, setup, hung, attempt, lastInference, inference, inferenceQueue, encode,
                     encodeQueue, progress, audioDue>>
      /\ hung # "video_capture" /\ capture.at = "offering" /\ IsThinned
      /\ capture'.at = "pushing" /\ capture'.frame = capture.frame
  BY CaptureMoves
  DEF Skip, CaptureStep, CaptureIs, Runs, inferenceVars, encodeVars
<1>2. CaptureOnTime /\ CaptureKeepsPace /\ InferenceOnTime
  BY DEF OnTime
<1>3. EncodeOnTime' /\ AudioOnTime'
  BY <1>1, OnTimeFrame
<1>4. attempt > 0
  BY <1>1 DEF TypesInv, CaptureTypes, Reading
<1>5. /\ Due' = Due
      /\ FramesApart' = FramesApart /\ InferenceInterval' = InferenceInterval
  BY <1>1 DEF Due, NextDue, DeadlineFor, FramesApart, VideoProgressInterval, InferenceInterval
<1>6. CaptureOnTime'
  BY <1>1, <1>2, <1>5 DEF CaptureOnTime
<1>7. CaptureKeepsPace'
  BY <1>1, <1>2, <1>5 DEF CaptureKeepsPace
<1>8. /\ InferenceInterval # 0 /\ lastInference >= 0
      /\ capture.frame.pts - lastInference < InferenceInterval
      /\ capture.frame.pts = Due
      /\ now = Due + setup.readDelay
      /\ now = progress["video_capture"]
  BY <1>1, <1>2 DEF IsThinned, CaptureKeepsPace, CaptureOnTime
<1>9. InferenceOnTime'
  <2>1. inference = Idle /\ inferenceQueue = <<>> =>
          progress["video_capture"] <= progress["inference"] + InferenceInterval
    <3>1. SUFFICES ASSUME inference = Idle, inferenceQueue = <<>>
                   PROVE  progress["video_capture"] <= progress["inference"] + InferenceInterval
      OBVIOUS
    <3>2. lastInference + setup.readDelay <= progress["inference"]
      BY <1>2, <1>8, <3>1 DEF InferenceOnTime
    <3>3. "inference" \in WorkerNames
      BY WorkersNamed
    <3>4. QED
      BY <1>4, <1>8, <3>2, <3>3, TimeTypes
  <2>2. QED
    BY <1>1, <1>2, <1>5, <2>1 DEF InferenceOnTime
<1>10. QED
  BY <1>3, <1>6, <1>7, <1>9 DEF OnTime

(* A frame that is pushed is in the queue, or the queue was full of others. *)
LEMMA PushedIsNotEmpty ==
  ASSUME NEW q \in Seq(Frame), NEW b \in Bounds, NEW f \in Frame,
         Len(q) <= b.capacity, CanPush(q, b)
  PROVE  Pushed(q, b, f) # <<>>
<1>1. b.capacity \in Nat \ {0}
  BY DEF Bounds
<1>2. CASE ~PushIsOk(q, b)
  BY <1>1, <1>2, PushedQueue DEF PushIsOk
<1>3. CASE PushIsOk(q, b)
  BY <1>3, PushedQueue DEF Extends
<1>4. QED
  BY <1>2, <1>3

(* The frame is in the hands of inference, or others are. *)
LEMMA OfferKeepsOnTime ==
  ASSUME TypesInv, NothingElseIsWrong, OnTime, Offer
  PROVE  OnTime'
<1>1. capture \in [at : Places, until : Nat, frame : Frame \cup {None}] /\ capture.frame \in Frame
  BY DEF TypesInv, CaptureTypes, Offer, CaptureIs
<1>2. /\ UNCHANGED <<now, setup, hung, attempt, inference, encode, encodeQueue, progress,
                     audioDue>>
      /\ hung # "video_capture" /\ capture.at = "offering"
      /\ inferenceQueue' = Pushed(inferenceQueue, setup.inferenceBound, capture.frame)
      /\ CanPush(inferenceQueue, setup.inferenceBound)
      /\ lastInference' \in {lastInference, capture.frame.pts}
  BY DEF Offer, CaptureStep, CaptureIs, Runs, inferenceVars, encodeVars
<1>3. capture'.at = "pushing"
  BY <1>1 DEF Offer
<1>4. inferenceQueue' # <<>>
  <2>1. /\ inferenceQueue \in Seq(Frame) /\ setup.inferenceBound \in Bounds
        /\ Len(inferenceQueue) <= setup.inferenceBound.capacity
    BY TypesFacts DEF TypesInv, QueueTypes
  <2>2. QED
    BY <1>1, <1>2, <2>1, PushedIsNotEmpty
<1>5. CaptureOnTime /\ CaptureKeepsPace /\ InferenceOnTime
  BY DEF OnTime
<1>6. EncodeOnTime' /\ AudioOnTime'
  BY <1>2, <1>3, OnTimeFrame
<1>7. /\ Due' = Due
      /\ FramesApart' = FramesApart /\ InferenceInterval' = InferenceInterval
  BY <1>2 DEF Due, NextDue, DeadlineFor, FramesApart, VideoProgressInterval, InferenceInterval
<1>8. CaptureOnTime'
  BY <1>2, <1>3, <1>5, <1>7 DEF CaptureOnTime
<1>9. CaptureKeepsPace'
  <2>1. attempt > 0
    BY <1>2 DEF TypesInv, CaptureTypes, Reading
  <2>2. InferenceInterval # 0 =>
          (lastInference' >= 0 => lastInference' + setup.readDelay <= now)
    BY <1>2, <1>5, <2>1, TimeTypes DEF CaptureKeepsPace
  <2>3. QED
    BY <1>2, <1>3, <1>5, <1>7, <2>2 DEF CaptureKeepsPace
<1>10. InferenceOnTime'
  <2>1. inference = Idle => now <= progress["inference"] + InferenceInterval + FramesApart
    BY <1>2, <1>5 DEF InferenceOnTime
  <2>2. QED
    BY <1>2, <1>4, <1>5, <1>7, <2>1 DEF InferenceOnTime
<1>11. QED
  BY <1>6, <1>8, <1>9, <1>10 DEF OnTime

(* The frame is in the hands of the encoder, or others are; the next Read begins. *)
LEMMA PushKeepsOnTime ==
  ASSUME TypesInv, NothingElseIsWrong, OnTime, PushEncode
  PROVE  OnTime'
<1>1. /\ UNCHANGED <<now, setup, hung, attempt, lastInference, inference, inferenceQueue, encode,
                     progress, audioDue>>
      /\ hung # "video_capture" /\ capture.at = "pushing"
      /\ encodeQueue' = Pushed(encodeQueue, setup.encodeBound, capture.frame)
      /\ CanPush(encodeQueue, setup.encodeBound)
      /\ capture'.at = "reading" /\ capture'.until = now
  BY CaptureMoves DEF PushEncode, CaptureStep, CaptureIs, Runs, inferenceVars, encodeVars
<1>2. encodeQueue' # <<>>
  <2>1. /\ encodeQueue \in Seq(Frame) /\ setup.encodeBound \in Bounds
        /\ Len(encodeQueue) <= setup.encodeBound.capacity
    BY TypesFacts DEF TypesInv, QueueTypes
  <2>2. capture.frame \in Frame
    BY <1>1 DEF TypesInv, CaptureTypes
  <2>3. QED
    BY <1>1, <2>1, <2>2, PushedIsNotEmpty
<1>3. CaptureOnTime /\ CaptureKeepsPace /\ EncodeOnTime
  BY DEF OnTime
<1>4. InferenceOnTime' /\ AudioOnTime'
  BY <1>1, OnTimeFrame
<1>5. attempt > 0 /\ setup \in Settings
  BY <1>1 DEF TypesInv, CaptureTypes, SettingTypes, Reading
<1>6. /\ Due' = Due
      /\ NextDue' = NextDue
      /\ FramesApart' = FramesApart /\ InferenceInterval' = InferenceInterval
  BY <1>1 DEF Due, NextDue, DeadlineFor, FramesApart, VideoProgressInterval, InferenceInterval
<1>7. now = progress["video_capture"]
  BY <1>1, <1>3 DEF CaptureOnTime
<1>8. CaptureOnTime'
  BY <1>1, <1>3, <1>6, <1>7, TimeTypes DEF CaptureOnTime
<1>9. CaptureKeepsPace'
  <2>1. InferenceInterval # 0 => now <= NextDue
    <3>1. SUFFICES ASSUME InferenceInterval # 0 PROVE now <= NextDue
      OBVIOUS
    <3>2. setup.readDelay <= Second \div setup.fps
      BY <3>1 DEF NothingElseIsWrong
    <3>3. now = Due + setup.readDelay
      BY <1>1, <1>3, <3>1 DEF CaptureKeepsPace
    <3>4. attempt - 1 \in Nat /\ attempt - 1 + 1 = attempt
      BY <1>5, TimeTypes
    <3>5. Due + Second \div setup.fps <= NextDue
      BY <1>5, <3>4, DeadlinesApart DEF Due, NextDue
    <3>6. Second \div setup.fps \in Nat
      BY <1>5, SettingsTypes, QuotientIsNat, VideoAssumption DEF VideoAssumption
    <3>7. QED
      BY <1>5, <3>2, <3>3, <3>5, <3>6, TimeTypes
  <2>2. InferenceInterval # 0 =>
          (lastInference >= 0 => lastInference + setup.readDelay <= now)
    BY <1>3 DEF CaptureKeepsPace
  <2>3. QED
    BY <1>1, <1>6, <2>1, <2>2 DEF CaptureKeepsPace
<1>10. EncodeOnTime'
  <2>1. encode = Idle => now <= progress["video_encode"] + FramesApart
    BY <1>1, <1>3 DEF EncodeOnTime
  <2>2. QED
    BY <1>1, <1>2, <1>3, <1>6, <2>1 DEF EncodeOnTime
<1>11. QED
  BY <1>4, <1>8, <1>9, <1>10 DEF OnTime

(* Inference takes the next frame at once, and is done with it in its time. *)
LEMMA InferenceKeepsOnTime ==
  ASSUME TypesInv, NothingElseIsWrong, OnTime, InferBegins \/ Publish \/ InferFails
  PROVE  OnTime'
<1>1. /\ UNCHANGED <<now, setup, hung, capture, attempt, lastInference, encode, encodeQueue,
                     audioDue>>
      /\ hung # "inference"
  BY DEF InferBegins, Publish, InferFails, InferenceIsDone, InferenceStep, Runs, captureVars,
         encodeVars
<1>2. CaptureOnTime /\ CaptureKeepsPace /\ InferenceOnTime
  BY DEF OnTime
<1>3. /\ progress \in [WorkerNames -> Nat] /\ \A w \in WorkerNames : progress[w] <= now
      /\ {"video_capture", "inference", "video_encode", "audio_capture", "audio_encode"}
           = WorkerNames
  BY WorkersNamed DEF TypesInv, HealthTypes
<1>4. ~InferFails
  BY DEF InferFails, NothingElseIsWrong
<1>5. progress' = progress \/ progress' = [progress EXCEPT !["inference"] = now]
  BY <1>4 DEF InferBegins, Publish, MarkProgress
<1>6. /\ progress'["video_capture"] = progress["video_capture"]
      /\ progress'["video_encode"] = progress["video_encode"]
      /\ progress'["audio_capture"] = progress["audio_capture"]
      /\ progress'["audio_encode"] = progress["audio_encode"]
  BY <1>3, <1>5
<1>7. CaptureOnTime' /\ CaptureKeepsPace' /\ EncodeOnTime' /\ AudioOnTime'
  BY <1>1, <1>6, OnTimeFrame
<1>8. FramesApart' = FramesApart /\ InferenceInterval' = InferenceInterval
  BY <1>1 DEF FramesApart, VideoProgressInterval, InferenceInterval
<1>9. InferenceOnTime'
  <2>1. CASE InferBegins
    <3>1. /\ inference = Idle /\ inferenceQueue # <<>> /\ progress' = progress
          /\ inference'.until = now + setup.latency /\ inference' # Idle
      <4>1. /\ inference = Idle /\ inferenceQueue # <<>> /\ progress' = progress
            /\ inference' = [frame |-> Head(inferenceQueue), until |-> now + setup.latency]
        BY <2>1 DEF InferBegins
      <4>2. inference' \in Jobs
        <5>1. Head(inferenceQueue) \in Frame
          BY <4>1 DEF TypesInv, QueueTypes
        <5>2. now + setup.latency \in Nat
          BY TimeTypes
        <5>3. QED
          BY <4>1, <5>1, <5>2 DEF Jobs
      <4>3. QED
        BY <4>1, <4>2, JobsAreNotIdle
    <3>2. now <= progress["inference"] + InferenceInterval + FramesApart
      BY <1>2, <3>1 DEF InferenceOnTime
    <3>3. /\ now + setup.latency <=
               progress["inference"] + InferenceInterval + FramesApart + setup.latency
          /\ now <= now + setup.latency
      BY <1>3, <3>2, TimeTypes
    <3>4. QED
      BY <1>1, <1>8, <3>1, <3>3 DEF InferenceOnTime
  <2>2. CASE Publish
    <3>1. inference' = Idle /\ progress'["inference"] = now
      BY <1>3, <2>2 DEF Publish, MarkProgress
    <3>2. InferenceInterval # 0 =>
            (lastInference >= 0 => lastInference + setup.readDelay <= now)
      BY <1>2 DEF CaptureKeepsPace
    <3>3. /\ now <= now + InferenceInterval + FramesApart
          /\ progress["video_capture"] <= now + InferenceInterval
      BY <1>3, TimeTypes
    <3>4. QED
      BY <1>1, <1>6, <1>8, <3>1, <3>2, <3>3 DEF InferenceOnTime
  <2>3. QED
    BY <1>4, <2>1, <2>2
<1>10. QED
  BY <1>7, <1>9 DEF OnTime

(* The encoder takes the next frame at once, and waits for its result no longer than it
   may. *)
LEMMA EncoderKeepsOnTime ==
  ASSUME TypesInv, NothingElseIsWrong, OnTime, EncodeBegins \/ EncodeFrame
  PROVE  OnTime'
<1>1. /\ UNCHANGED <<now, setup, hung, capture, attempt, lastInference, inference,
                     inferenceQueue, audioDue>>
      /\ hung # "video_encode"
  BY DEF EncodeBegins, EncodeFrame, EncodeStep, Runs, captureVars, inferenceVars
<1>2. CaptureOnTime /\ EncodeOnTime
  BY DEF OnTime
<1>3. /\ progress \in [WorkerNames -> Nat] /\ \A w \in WorkerNames : progress[w] <= now
      /\ {"video_capture", "inference", "video_encode", "audio_capture", "audio_encode"}
           = WorkerNames
  BY WorkersNamed DEF TypesInv, HealthTypes
<1>4. progress' = progress \/ progress' = [progress EXCEPT !["video_encode"] = now]
  BY DEF EncodeBegins, EncodeFrame, MarkProgress
<1>5. /\ progress'["video_capture"] = progress["video_capture"]
      /\ progress'["inference"] = progress["inference"]
      /\ progress'["audio_capture"] = progress["audio_capture"]
      /\ progress'["audio_encode"] = progress["audio_encode"]
  BY <1>3, <1>4
<1>6. CaptureOnTime' /\ CaptureKeepsPace' /\ InferenceOnTime' /\ AudioOnTime'
  BY <1>1, <1>5, OnTimeFrame
<1>7. FramesApart' = FramesApart
  BY <1>1 DEF FramesApart, VideoProgressInterval
<1>8. EncodeOnTime'
  <2>1. CASE EncodeBegins
    <3>1. /\ encode = Idle /\ encodeQueue # <<>> /\ progress' = progress
          /\ encode'.until = now + setup.wait /\ encode' # Idle
      <4>1. /\ encode = Idle /\ encodeQueue # <<>> /\ progress' = progress
            /\ encode' = [frame |-> Head(encodeQueue), until |-> now + setup.wait]
        BY <2>1 DEF EncodeBegins
      <4>2. encode' \in Jobs
        <5>1. Head(encodeQueue) \in Frame
          BY <4>1 DEF TypesInv, QueueTypes
        <5>2. now + setup.wait \in Nat
          BY TimeTypes
        <5>3. QED
          BY <4>1, <5>1, <5>2 DEF Jobs
      <4>3. QED
        BY <4>1, <4>2, JobsAreNotIdle
    <3>2. now <= progress["video_encode"] + FramesApart
      BY <1>2, <3>1 DEF EncodeOnTime
    <3>3. /\ now + setup.wait <= progress["video_encode"] + FramesApart + setup.wait
          /\ now <= now + setup.wait
      BY <1>3, <3>2, TimeTypes
    <3>4. QED
      BY <1>1, <1>7, <3>1, <3>3 DEF EncodeOnTime
  <2>2. CASE EncodeFrame
    <3>1. encode' = Idle /\ progress'["video_encode"] = now
      BY <1>3, <2>2 DEF EncodeFrame, MarkProgress
    <3>2. now <= now + FramesApart /\ progress["video_capture"] <= now
      BY <1>3, TimeTypes
    <3>3. QED
      BY <1>1, <1>5, <1>7, <3>1, <3>2 DEF EncodeOnTime
  <2>3. QED
    BY <2>1, <2>2
<1>9. QED
  BY <1>6, <1>8 DEF OnTime

(* The audio threads, a check, a hang. *)
LEMMA OthersKeepOnTime ==
  ASSUME TypesInv, NothingElseIsWrong, OnTime,
         AudioBlock \/ CheckHealth \/ Hang \/ UNCHANGED videoVars
  PROVE  OnTime'
<1>1. /\ UNCHANGED <<now, setup, capture, attempt, lastInference, inference, inferenceQueue,
                     encode, encodeQueue>>
  BY DEF AudioBlock, CheckHealth, Hang, videoVars, captureVars, inferenceVars, encodeVars
<1>2. CaptureOnTime /\ CaptureKeepsPace /\ InferenceOnTime /\ EncodeOnTime /\ AudioOnTime
  BY DEF OnTime
<1>3. CASE AudioBlock
  <2>1. {"video_capture", "inference", "video_encode", "audio_capture", "audio_encode"}
          = WorkerNames
    BY WorkersNamed
  <2>2. /\ hung' = hung /\ now >= audioDue /\ audioDue' = audioDue + setup.audioFrame
        /\ progress' = [w \in WorkerNames |->
                    IF \/ w = "audio_capture" /\ hung # "audio_capture"
                       \/ w = "audio_encode" /\ hung \notin {"audio_capture", "audio_encode"}
                    THEN now ELSE progress[w]]
    BY <1>3 DEF AudioBlock
  <2>3. /\ progress'["video_capture"] = progress["video_capture"]
        /\ progress'["inference"] = progress["inference"]
        /\ progress'["video_encode"] = progress["video_encode"]
        /\ progress'["audio_capture"] =
             IF hung # "audio_capture" THEN now ELSE progress["audio_capture"]
        /\ progress'["audio_encode"] =
             IF hung \notin {"audio_capture", "audio_encode"} THEN now
             ELSE progress["audio_encode"]
    BY <2>1, <2>2
  <2>4. CaptureOnTime' /\ CaptureKeepsPace' /\ InferenceOnTime' /\ EncodeOnTime'
    BY <1>1, <2>2, <2>3, OnTimeFrame
  <2>5. now = audioDue /\ now <= now + setup.audioFrame
    BY <1>2, <2>2, TimeTypes DEF AudioOnTime
  <2>6. AudioOnTime'
    BY <1>1, <1>2, <2>2, <2>3, <2>5 DEF AudioOnTime
  <2>7. QED
    BY <2>4, <2>6 DEF OnTime
<1>4. CASE CheckHealth \/ UNCHANGED videoVars
  <2>1. UNCHANGED <<hung, progress, audioDue>>
    BY <1>4 DEF CheckHealth, videoVars, healthVars
  <2>2. QED
    BY <1>1, <2>1, OnTimeFrame DEF OnTime
<1>5. CASE Hang
  <2>1. /\ hung = "none" /\ hung' = setup.hangs /\ IsInBackend(setup.hangs)
        /\ UNCHANGED <<progress, audioDue>>
    BY <1>5 DEF Hang, healthVars
  <2>2. /\ hung' = "video_capture" => capture.at \in {"reading", "pacing", "delaying"}
        /\ hung' = "inference" => inference # Idle
        /\ hung' = "video_encode" => encode # Idle
    BY <2>1 DEF IsInBackend
  <2>3. /\ FramesApart' = FramesApart /\ InferenceInterval' = InferenceInterval
        /\ Due' = Due /\ NextDue' = NextDue
    BY <1>1 DEF FramesApart, VideoProgressInterval, InferenceInterval, Due, NextDue, DeadlineFor
  <2>4. CaptureOnTime'
    BY <1>1, <1>2, <2>1, <2>2, <2>3 DEF CaptureOnTime
  <2>5. CaptureKeepsPace'
    BY <1>1, <1>2, <2>1, <2>3 DEF CaptureKeepsPace
  <2>6. InferenceOnTime'
    BY <1>1, <1>2, <2>1, <2>2, <2>3 DEF InferenceOnTime
  <2>7. EncodeOnTime'
    BY <1>1, <1>2, <2>1, <2>2, <2>3 DEF EncodeOnTime
  <2>8. AudioOnTime'
    BY <1>1, <1>2, <2>1 DEF AudioOnTime
  <2>9. QED
    BY <2>4, <2>5, <2>6, <2>7, <2>8 DEF OnTime
<1>6. QED
  BY <1>3, <1>4, <1>5

(* Time passes only up to the next thing that somebody waits for. *)
LEMMA TickKeepsOnTime ==
  ASSUME TypesInv, NothingElseIsWrong, OnTime, Tick
  PROVE  OnTime'
<1>1. /\ UNCHANGED <<setup, hung, capture, attempt, lastInference, inference, inferenceQueue,
                     encode, encodeQueue, progress, audioDue>>
      /\ error = "none" /\ now' = now + 1 /\ now < audioDue
      /\ ~CaptureIsReady /\ ~InferenceIsReady /\ ~EncodeIsReady
  BY DEF Tick, EverybodyWaits, captureVars, inferenceVars, encodeVars, healthVars
<1>2. CaptureOnTime /\ CaptureKeepsPace /\ InferenceOnTime /\ EncodeOnTime /\ AudioOnTime
  BY DEF OnTime
<1>3. /\ FramesApart' = FramesApart /\ InferenceInterval' = InferenceInterval
      /\ Due' = Due /\ NextDue' = NextDue
  BY <1>1 DEF FramesApart, VideoProgressInterval, InferenceInterval, Due, NextDue, DeadlineFor
<1>4. {"video_capture", "inference", "video_encode", "audio_capture", "audio_encode"}
        = WorkerNames
  BY WorkersNamed
<1>5. hung # "video_capture" => capture.at \in {"pacing", "delaying"} /\ now < capture.until
  <2>1. SUFFICES ASSUME hung # "video_capture"
                 PROVE  capture.at \in {"pacing", "delaying"} /\ now < capture.until
    OBVIOUS
  <2>2. /\ CanPush(inferenceQueue, setup.inferenceBound)
        /\ CanPush(encodeQueue, setup.encodeBound)
    BY DEF NothingElseIsWrong, PassesHangsOn, CanPush
  <2>3. ~(now >= capture.until)
    BY <1>1, <2>1, <2>2 DEF CaptureIsReady, Runs
  <2>4. now < capture.until
    BY <2>3, TimeTypes
  <2>5. capture.at # "reading"
    BY <1>2, <1>4, <2>4, TimeTypes DEF CaptureOnTime
  <2>6. capture.at \notin {"offering", "pushing"}
    BY <2>4, TimeTypes DEF TypesInv, CaptureTypes
  <2>7. capture.at \in Places /\ capture.at # "retrying"
    BY <1>2 DEF TypesInv, CaptureTypes, CaptureOnTime
  <2>8. QED
    BY <2>4, <2>5, <2>6, <2>7 DEF Places
<1>6. hung = "video_capture" => capture.at \in {"reading", "pacing", "delaying"}
  BY <1>2 DEF CaptureOnTime
<1>7. hung # "video_capture" => now + 1 <= progress["video_capture"] + FramesApart
  BY <1>2, <1>4, <1>5, TimeTypes DEF CaptureOnTime
<1>8. CaptureOnTime'
  <2>1. hung # "video_capture" /\ capture.at = "delaying" => now + 1 <= capture.until
    BY <1>5, TimeTypes
  <2>2. hung # "video_capture" /\ capture.at = "pacing" =>
          now + 1 <= progress["video_capture"] + Ceiling(Second, setup.fps)
    BY <1>2, <1>4, <1>5, TimeTypes DEF CaptureOnTime
  <2>3. QED
    BY <1>1, <1>2, <1>3, <1>5, <1>6, <2>1, <2>2 DEF CaptureOnTime
<1>9. CaptureKeepsPace'
  <2>1. InferenceInterval # 0 =>
          (lastInference >= 0 => lastInference + setup.readDelay <= now + 1)
    BY <1>2, TimeTypes DEF CaptureKeepsPace
  <2>2. hung # "video_capture" /\ capture.at = "pacing" => now + 1 <= Due
    <3>1. capture.at = "pacing" => attempt > 0 /\ capture.until = Due
      BY <1>2 DEF TypesInv, CaptureTypes, Reading, CaptureOnTime
    <3>2. QED
      BY <1>5, <3>1, TimeTypes
  <2>3. QED
    BY <1>1, <1>2, <1>3, <1>5, <1>6, <2>1, <2>2 DEF CaptureKeepsPace
<1>10. InferenceOnTime'
  <2>1. inference = Idle => inferenceQueue = <<>>
    BY <1>1, <1>2 DEF InferenceIsReady, Runs, InferenceOnTime
  <2>2. inference # Idle /\ hung # "inference" => now + 1 <= inference.until
    BY <1>1, TimeTypes DEF InferenceIsReady, InferenceIsDone, Runs
  <2>3. inference = Idle /\ hung # "video_capture" =>
          now + 1 <= progress["inference"] + InferenceInterval + FramesApart
    <3>1. SUFFICES ASSUME inference = Idle, hung # "video_capture"
                   PROVE  now + 1 <= progress["inference"] + InferenceInterval + FramesApart
      OBVIOUS
    <3>2. progress["video_capture"] <= progress["inference"] + InferenceInterval
      BY <1>2, <1>5, <2>1, <3>1 DEF InferenceOnTime
    <3>3. QED
      BY <1>4, <1>7, <3>1, <3>2, TimeTypes
  <2>4. QED
    BY <1>1, <1>2, <1>3, <2>1, <2>2, <2>3 DEF InferenceOnTime
<1>11. EncodeOnTime'
  <2>1. encode = Idle => encodeQueue = <<>>
    BY <1>1, <1>2 DEF EncodeIsReady, Runs, EncodeOnTime
  <2>2. encode # Idle /\ hung # "video_encode" => now + 1 <= encode.until
    BY <1>1, TimeTypes DEF EncodeIsReady, WaitIsOver, Runs
  <2>3. encode = Idle /\ hung # "video_capture" =>
          now + 1 <= progress["video_encode"] + FramesApart
    <3>1. SUFFICES ASSUME encode = Idle, hung # "video_capture"
                   PROVE  now + 1 <= progress["video_encode"] + FramesApart
      OBVIOUS
    <3>2. progress["video_capture"] <= progress["video_encode"]
      BY <1>2, <1>5, <2>1, <3>1 DEF EncodeOnTime
    <3>3. QED
      BY <1>4, <1>7, <3>1, <3>2, TimeTypes
  <2>4. QED
    BY <1>1, <1>2, <1>3, <2>1, <2>2, <2>3 DEF EncodeOnTime
<1>12. AudioOnTime'
  <2>1. now + 1 <= audioDue
    BY <1>1, TimeTypes
  <2>2. QED
    BY <1>1, <1>2, <2>1 DEF AudioOnTime
<1>13. QED
  BY <1>8, <1>9, <1>10, <1>11, <1>12 DEF OnTime

(* Everybody is on time in every execution. *)
LEMMA OnTimeHolds == Spec => []BlameInv
<1>1. TypesInv /\ BlameInv /\ [Next]_videoVars => BlameInv'
  <2> SUFFICES ASSUME TypesInv, BlameInv, [Next]_videoVars, NothingElseIsWrong'
               PROVE  OnTime'
    BY DEF BlameInv
  <2>1. setup' = setup
    BY DEF Next, CaptureNext, ReadBegins, Retried, Paced, ReadReturns, Skip, Offer, PushEncode,
           CaptureStep, InferBegins, Publish, InferFails, InferenceStep, EncodeBegins,
           EncodeFrame, EncodeStep, AudioBlock, CheckHealth, Hang, Tick, Rest, videoVars
  <2>2. NothingElseIsWrong
    BY <2>1 DEF NothingElseIsWrong, PassesHangsOn, InferenceInterval
  <2>3. OnTime
    BY <2>2 DEF BlameInv
  <2>4. QED
    BY <2>2, <2>3, ReadKeepsOnTime, ReadReturnsOnTime, SkipKeepsOnTime, OfferKeepsOnTime,
       PushKeepsOnTime, InferenceKeepsOnTime, EncoderKeepsOnTime, OthersKeepOnTime,
       TickKeepsOnTime
    DEF Next, CaptureNext, Rest
<1>2. QED
  BY <1>1, OnTimeInit, TypesHold, PTL DEF Spec

(* The worker that is reported is the first of those that are late. *)
LEMMA DetectionIsFirst ==
  ASSUME TypesInv, DetectStalledWorker # "none"
  PROVE  \E i \in 1 .. 5 :
           /\ DetectStalledWorker = Workers[i]
           /\ now - progress[Workers[i]] > setup.stall
           /\ \A j \in 1 .. i - 1 : ~(now - progress[Workers[j]] > setup.stall)
<1> DEFINE Late == {i \in DOMAIN Workers : now - progress[Workers[i]] > setup.stall}
           First == CHOOSE i \in Late : \A j \in Late : i <= j
<1>1. DOMAIN Workers = 1 .. 5
  BY DEF Workers
<1>2. DetectStalledWorker = IF Late = {} THEN "none" ELSE Workers[First]
  BY DEF DetectStalledWorker, FirstStalled
<1>3. Late # {} /\ DetectStalledWorker = Workers[First]
  BY <1>2
<1>4. \E i \in Late : \A j \in Late : i <= j
  <2> HIDE DEF Late
  <2>1. Late \in SUBSET (1 .. 5)
    BY <1>1 DEF Late
  <2>2. CASE 1 \in Late
    BY <2>1, <2>2
  <2>3. CASE 1 \notin Late /\ 2 \in Late
    BY <2>1, <2>3
  <2>4. CASE 1 \notin Late /\ 2 \notin Late /\ 3 \in Late
    BY <2>1, <2>4
  <2>5. CASE 1 \notin Late /\ 2 \notin Late /\ 3 \notin Late /\ 4 \in Late
    BY <2>1, <2>5
  <2>6. CASE 1 \notin Late /\ 2 \notin Late /\ 3 \notin Late /\ 4 \notin Late
    <3>1. \A i \in Late : i = 5
      BY <2>1, <2>6
    <3>2. QED
      BY <1>3, <3>1
  <2>7. QED
    BY <2>1, <2>2, <2>3, <2>4, <2>5, <2>6
<1>5. First \in Late /\ \A j \in Late : First <= j
  <2> HIDE DEF Late
  <2>1. QED
    BY <1>4
<1>6. First \in 1 .. 5 /\ now - progress[Workers[First]] > setup.stall
  <2> HIDE DEF First
  <2>1. QED
    BY <1>1, <1>5
<1>7. \A j \in 1 .. First - 1 : ~(now - progress[Workers[j]] > setup.stall)
  <2> HIDE DEF First
  <2>1. SUFFICES ASSUME NEW j \in 1 .. First - 1 PROVE j \notin Late
    BY <1>1, <1>6
  <2>2. ~(First <= j) /\ j \in 1 .. 5
    BY <1>6
  <2>3. QED
    BY <1>5, <2>2
<1> HIDE DEF First, Late
<1>8. QED
  BY <1>3, <1>6, <1>7

Late(worker) == now - progress[worker] > setup.stall

(* Who can be late with such a time-out: the worker that hangs, and those that wait for it
   no shorter than it is silent itself; or inference behind a camera, when the frames for
   it are thinned. *)
LEMMA LateWorkers ==
  ASSUME TypesInv, TimeoutCovers, OnTime
  PROVE  /\ Late("video_capture") => hung = "video_capture"
         /\ Late("audio_capture") => hung = "audio_capture"
         /\ Late("inference") =>
              \/ hung = "inference"
              \/ hung = "video_capture" /\ (InferenceInterval # 0 \/ Late("video_capture"))
         /\ Late("video_encode") =>
              \/ hung = "video_encode"
              \/ hung = "video_capture" /\ Late("video_capture")
         /\ Late("audio_encode") =>
              \/ hung = "audio_encode"
              \/ hung = "audio_capture" /\ Late("audio_capture")
<1>1. /\ now \in Nat /\ capture.until \in Nat
      /\ setup.stall \in Nat /\ FramesApart \in Nat /\ InferenceInterval \in Nat
      /\ setup.audioFrame \in Nat /\ setup.latency \in Nat /\ setup.wait \in Nat
      /\ setup.readDelay \in Nat /\ audioDue \in Nat
      /\ Ceiling(Second, setup.fps) \in Nat
      /\ FramesApart = Ceiling(Second, setup.fps) + setup.readDelay
  BY TimeTypes
<1>2. {"video_capture", "inference", "video_encode", "audio_capture", "audio_encode"}
        = WorkerNames
  BY WorkersNamed
<1>3. \A w \in WorkerNames : progress[w] \in Nat /\ progress[w] <= now
  BY TimeTypes
<1>4. CaptureOnTime /\ InferenceOnTime /\ EncodeOnTime /\ AudioOnTime
  BY DEF OnTime
<1>5. /\ setup.stall >= setup.audioFrame /\ setup.stall >= FramesApart + setup.wait
      /\ setup.stall >= FramesApart + InferenceInterval + setup.latency
  BY DEF TimeoutCovers
<1>6. Late("video_capture") => hung = "video_capture"
  <2>1. SUFFICES ASSUME hung # "video_capture"
                 PROVE  now <= progress["video_capture"] + FramesApart
    BY <1>1, <1>2, <1>3, <1>5 DEF Late
  <2>2. CASE capture.at \in {"reading", "offering", "pushing"}
    BY <1>1, <1>2, <1>3, <1>4, <2>1, <2>2 DEF CaptureOnTime
  <2>3. CASE capture.at = "pacing"
    BY <1>1, <1>2, <1>3, <1>4, <2>1, <2>3 DEF CaptureOnTime
  <2>4. CASE capture.at = "delaying"
    BY <1>1, <1>2, <1>3, <1>4, <2>1, <2>4 DEF CaptureOnTime
  <2>5. capture.at \in Places /\ capture.at # "retrying"
    BY <1>4 DEF TypesInv, CaptureTypes, CaptureOnTime
  <2>6. QED
    BY <2>2, <2>3, <2>4, <2>5 DEF Places
<1>7. Late("audio_capture") => hung = "audio_capture"
  <2>1. hung # "audio_capture" => audioDue <= progress["audio_capture"] + setup.audioFrame
    BY <1>4 DEF AudioOnTime
  <2>2. now <= audioDue
    BY <1>4 DEF AudioOnTime
  <2>3. QED
    BY <1>1, <1>2, <1>3, <1>5, <2>1, <2>2 DEF Late
<1>8. hung = "video_capture" => capture.at \notin {"offering", "pushing"}
  BY <1>4 DEF CaptureOnTime
<1>9. Late("inference") =>
        \/ hung = "inference"
        \/ hung = "video_capture" /\ (InferenceInterval # 0 \/ Late("video_capture"))
  <2>1. SUFFICES ASSUME Late("inference"), hung # "inference"
                 PROVE  /\ hung = "video_capture"
                        /\ InferenceInterval # 0 \/ Late("video_capture")
    OBVIOUS
  <2>2. ~(now <= progress["inference"] + InferenceInterval + FramesApart + setup.latency)
    BY <1>1, <1>2, <1>3, <1>5, <2>1 DEF Late
  <2>3. inference = Idle
    <3>1. SUFFICES ASSUME inference # Idle PROVE FALSE
      OBVIOUS
    <3>2. /\ now <= inference.until
          /\ inference.until <=
               progress["inference"] + InferenceInterval + FramesApart + setup.latency
      BY <1>4, <2>1, <3>1 DEF InferenceOnTime
    <3>3. inference.until \in Nat
      BY <3>1, TimeTypes
    <3>4. QED
      BY <1>1, <1>2, <1>3, <2>2, <3>2, <3>3
  <2>4. hung = "video_capture" /\ inferenceQueue = <<>>
    <3>1. SUFFICES ASSUME now <= progress["inference"] + InferenceInterval + FramesApart
                   PROVE  FALSE
      BY <1>4, <2>3 DEF InferenceOnTime
    <3>2. QED
      BY <1>1, <1>2, <1>3, <2>2, <3>1
  <2>5. progress["video_capture"] <= progress["inference"] + InferenceInterval
    BY <1>4, <1>8, <2>3, <2>4 DEF InferenceOnTime
  <2>6. InferenceInterval = 0 => Late("video_capture")
    BY <1>1, <1>2, <1>3, <2>1, <2>5 DEF Late
  <2>7. QED
    BY <2>4, <2>6
<1>10. Late("video_encode") =>
         \/ hung = "video_encode"
         \/ hung = "video_capture" /\ Late("video_capture")
  <2>1. SUFFICES ASSUME Late("video_encode"), hung # "video_encode"
                 PROVE  hung = "video_capture" /\ Late("video_capture")
    OBVIOUS
  <2>2. ~(now <= progress["video_encode"] + FramesApart + setup.wait)
    BY <1>1, <1>2, <1>3, <1>5, <2>1 DEF Late
  <2>3. encode = Idle
    <3>1. SUFFICES ASSUME encode # Idle PROVE FALSE
      OBVIOUS
    <3>2. /\ now <= encode.until
          /\ encode.until <= progress["video_encode"] + FramesApart + setup.wait
      BY <1>4, <2>1, <3>1 DEF EncodeOnTime
    <3>3. encode.until \in Nat
      BY <3>1, TimeTypes
    <3>4. QED
      BY <1>1, <1>2, <1>3, <2>2, <3>2, <3>3
  <2>4. hung = "video_capture" /\ encodeQueue = <<>>
    <3>1. SUFFICES ASSUME now <= progress["video_encode"] + FramesApart PROVE FALSE
      BY <1>4, <2>3 DEF EncodeOnTime
    <3>2. QED
      BY <1>1, <1>2, <1>3, <2>2, <3>1
  <2>5. progress["video_capture"] <= progress["video_encode"]
    BY <1>4, <1>8, <2>3, <2>4 DEF EncodeOnTime
  <2>6. QED
    BY <1>1, <1>2, <1>3, <2>1, <2>4, <2>5 DEF Late
<1>11. Late("audio_encode") =>
         \/ hung = "audio_encode"
         \/ hung = "audio_capture" /\ Late("audio_capture")
  <2>1. SUFFICES ASSUME Late("audio_encode"), hung # "audio_encode"
                 PROVE  hung = "audio_capture" /\ Late("audio_capture")
    OBVIOUS
  <2>2. progress["audio_encode"] = progress["audio_capture"]
    BY <1>4, <2>1 DEF AudioOnTime
  <2>3. Late("audio_capture")
    BY <2>1, <2>2 DEF Late
  <2>4. QED
    BY <1>7, <2>3
<1>12. QED
  BY <1>6, <1>7, <1>9, <1>10, <1>11

(* What is reported is the worker that hangs, or inference behind a thinned camera. *)
Blamed ==
  TimeoutCovers =>
    \/ error = "none" \/ error = hung
    \/ error = "inference" /\ hung = "video_capture" /\ InferenceInterval # 0

(* The check names the worker that hangs before the one that waits for it. *)
LEMMA CheckBlames ==
  ASSUME TypesInv, BlameInv, Blamed, CheckHealth
  PROVE  Blamed'
<1>1. UNCHANGED <<setup, hung, now, progress>> /\ error' = DetectStalledWorker
  BY DEF CheckHealth
<1>2. TimeoutCovers' => TimeoutCovers
  BY <1>1 DEF TimeoutCovers, NothingElseIsWrong, PassesHangsOn, InferenceInterval, FramesApart,
              VideoProgressInterval
<1>3. SUFFICES ASSUME TimeoutCovers, DetectStalledWorker # "none"
               PROVE  \/ DetectStalledWorker = hung
                      \/ /\ DetectStalledWorker = "inference"
                         /\ hung = "video_capture" /\ InferenceInterval # 0
  BY <1>1, <1>2 DEF Blamed, InferenceInterval
<1>4. OnTime
  BY <1>3 DEF BlameInv, TimeoutCovers
<1>5. PICK i \in 1 .. 5 :
        /\ DetectStalledWorker = Workers[i] /\ Late(Workers[i])
        /\ \A j \in 1 .. i - 1 : ~Late(Workers[j])
  BY <1>3, DetectionIsFirst DEF Late
<1>6. /\ Workers[1] = "video_capture" /\ Workers[2] = "audio_capture"
      /\ Workers[3] = "inference" /\ Workers[4] = "video_encode"
      /\ Workers[5] = "audio_encode"
  BY DEF Workers
<1>7. CASE i = 1
  BY <1>3, <1>4, <1>5, <1>6, <1>7, LateWorkers
<1>8. CASE i = 2
  BY <1>3, <1>4, <1>5, <1>6, <1>8, LateWorkers
<1>9. i >= 3 => ~Late("video_capture") /\ ~Late("audio_capture")
  <2>1. i >= 3 => 1 \in 1 .. i - 1 /\ 2 \in 1 .. i - 1
    OBVIOUS
  <2>2. QED
    BY <1>5, <1>6, <2>1
<1>10. CASE i = 3
  BY <1>3, <1>4, <1>5, <1>6, <1>9, <1>10, LateWorkers
<1>11. CASE i = 4
  BY <1>3, <1>4, <1>5, <1>6, <1>9, <1>11, LateWorkers
<1>12. CASE i = 5
  BY <1>3, <1>4, <1>5, <1>6, <1>9, <1>12, LateWorkers
<1>13. QED
  BY <1>7, <1>8, <1>10, <1>11, <1>12

(* And nobody else is ever named. *)
LEMMA BlamedHolds == Spec => []Blamed
<1>1. Init => Blamed
  BY DEF Init, Blamed
<1>2. TypesInv /\ BlameInv /\ Blamed /\ [Next]_videoVars => Blamed'
  <2> SUFFICES ASSUME TypesInv, BlameInv, Blamed, [Next]_videoVars, ~CheckHealth PROVE Blamed'
    BY CheckBlames
  <2>1. setup' = setup /\ error' = error
    BY DEF Next, CaptureNext, ReadBegins, Retried, Paced, ReadReturns, Skip, Offer, PushEncode,
           CaptureStep, InferBegins, Publish, InferFails, InferenceStep, EncodeBegins,
           EncodeFrame, EncodeStep, AudioBlock, Hang, Tick, Rest, videoVars, healthVars
  <2>2. hung' = hung \/ error = "none"
    BY DEF Next, CaptureNext, ReadBegins, Retried, Paced, ReadReturns, Skip, Offer, PushEncode,
           CaptureStep, InferBegins, Publish, InferFails, InferenceStep, EncodeBegins,
           EncodeFrame, EncodeStep, AudioBlock, Hang, Tick, Rest, videoVars
  <2>3. (TimeoutCovers' => TimeoutCovers) /\ InferenceInterval' = InferenceInterval
    BY <2>1 DEF TimeoutCovers, NothingElseIsWrong, PassesHangsOn, InferenceInterval,
                FramesApart, VideoProgressInterval
  <2>4. QED
    BY <2>1, <2>2, <2>3 DEF Blamed
<1>3. QED
  BY <1>1, <1>2, TypesHold, OnTimeHolds, PTL DEF Spec

(* With a time-out that covers the stages one after another, nobody is reported in a
   pipeline that is only as slow as its configuration: the sum that Validate ought to
   require, where it requires the longest stage alone. *)
THEOREM SumCoversTheStages == Spec => [](TimeoutCovers => HealthyIsNotReported)
<1>1. Blamed => (TimeoutCovers => HealthyIsNotReported)
  BY DEF Blamed, HealthyIsNotReported
<1>2. QED
  BY <1>1, BlamedHolds, PTL

(* Where the report can tell who hangs: frames are not thinned if it is the camera. A
   blocking queue may pass the hang on, and then it only has to be found. *)
BlameIsClear ==
  \/ PassesHangsOn
  \/ TimeoutCovers /\ (hung = "video_capture" => InferenceInterval = 0)

(* With such a time-out a hang is found in time and blamed on the worker that hangs, and
   never on one that starves behind it; unless the frames are thinned, when inference may
   be late before the camera that it waits for. *)
THEOREM BlameIsRight ==
  Spec => [](BlameIsClear => HangIsBlamed)
<1>1. ASSUME TypesInv, Blamed,
             error = "none" =>
               \A w \in WorkerNames : now <= progress[w] + setup.stall + setup.health,
             BlameIsClear
      PROVE  HangIsBlamed
  <2>1. SUFFICES ASSUME hung # "none"
                 PROVE  IF error = "none"
                        THEN now <= progress[hung] + setup.stall + setup.health
                        ELSE error = hung \/ PassesHangsOn
    BY DEF HangIsBlamed
  <2>2. hung \in WorkerNames
    BY <1>1, <2>1 DEF TypesInv, SettingTypes
  <2>3. QED
    BY <1>1, <2>2 DEF Blamed, BlameIsClear
<1>2. QED
  BY <1>1, BlamedHolds, TypesHold, SilenceIsNoticed, PTL

=============================================================================

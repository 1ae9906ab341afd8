--------------------------- MODULE AudioPathProofs ---------------------------
(***************************************************************************)
(* Theorems about AudioPath, for every size of block, frame, ring and      *)
(* queue, every delay of the codec and every time-out: what can break the  *)
(* time line of the capture, that the encoder's packets carry the samples  *)
(* they say, and that a drain delivers every sample.                       *)
(***************************************************************************)
EXTENDS AudioPath, SequenceTheorems, TLAPS

-----------------------------------------------------------------------------
(* The inductive invariant *)

(* Where the next block to be queued starts. *)
Due == IF at = "pushing" THEN block ELSE nextPts

LineType ==
  /\ now \in Int /\ nextPts \in Int /\ block \in Int
  /\ queue \in Seq(Int) /\ expected \in Int
  /\ source \in {"alsa", "mock"}

(* The blocks queued continue each other, from the one the encoder expects to
   the one the capture is about to queue. *)
InLine ==
  /\ \A i \in 1 .. Len(queue) - 1 : queue[i + 1] = queue[i] + Block
  /\ queue # <<>> /\ at # "stopped" => queue[Len(queue)] + Block = Due
  /\ queue # <<>> => expected \in {None, queue[1]}
  /\ queue = <<>> /\ at # "stopped" => expected \in {None, Due}
  /\ at = "pushing" => nextPts = block + Block

(* A stream that was never started, or is prepared again by nobody, has put
   nothing on the time line. *)
Fresh ==
  source = "alsa" =>
    /\ at \in {"reading", "pushing"} => started
    /\ at = "recovering" => pcm \in {"xrun", "gone"}
    /\ ~started /\ pcm = "prepared" => queue = <<>> /\ expected = None

LineInv ==
  LineType /\ (jumped \/ (InLine /\ Fresh /\ error # "discontinuous"))

(* After a restart that only prepared the device nothing more is claimed. *)
LEMMA JumpedStays ==
  ASSUME jumped, [Next]_audioVars
  PROVE  jumped'
  BY DEF Next, Tick, Unplug, CaptureStep, EncodeStep, RequestStop, CloseQueue, Rest, ReadBegins,
         StartFails, ReadPart, ReadSucceeds, ReadFails, FailedRead, AlsaRecovers, RestartAt,
         RecoverFails, MockFails, MockReads, MockRecovers, Retry, Push, ReadGivesUp, PushTimesOut,
         CaptureStops, Accept, Reject, EncodeFrame, EncodeFrameFails, EncodeFails,
         EncodeReturns, QueueEnds, FlushFrame, FlushReturns, FlushWith, FlushFails,
         EncoderStep, OnlyCapture, captureVars, audioVars

(* The types need no claim about overruns. *)
LEMMA TypeKept ==
  ASSUME AudioAssumption, LineType, [Next]_audioVars
  PROVE  LineType'
<1>1. Block \in Int
  BY DEF AudioAssumption
<1>2. CASE Tick \/ Unplug \/ RequestStop \/ Rest \/ UNCHANGED audioVars
  BY <1>2 DEF LineType, Tick, Unplug, RequestStop, Rest, audioVars, deviceVars, captureVars,
              queueVars, encoderVars
<1>3. CASE CloseQueue
  BY <1>3 DEF LineType, CloseQueue, deviceVars, captureVars, encoderVars
<1>4. CASE ReadBegins
  BY <1>4 DEF LineType, ReadBegins, Start, OnlyCapture, queueVars, encoderVars
<1>5. CASE ReadSucceeds \/ MockReads
  BY <1>1, <1>5 DEF LineType, ReadSucceeds, MockReads, OnlyCapture, queueVars, encoderVars
<1>6. CASE StartFails \/ ReadPart \/ ReadFails \/ MockFails \/ MockRecovers \/ Retry
  BY <1>6 DEF LineType, StartFails, ReadPart, ReadFails, FailedRead, MockFails, MockRecovers,
              Retry, OnlyCapture, queueVars, encoderVars
<1>7. CASE AlsaRecovers \/ RecoverFails
  BY <1>7 DEF LineType, AlsaRecovers, RestartAt, RecoverFails, OnlyCapture, queueVars, encoderVars
<1>8. CASE Push
  <2>1. queue' = Append(queue, block) /\ UNCHANGED <<now, nextPts, block, expected, source>>
    BY <1>8 DEF Push, deviceVars, encoderVars
  <2>2. QED
    BY <2>1, AppendProperties DEF LineType
<1>9. CASE ReadGivesUp \/ PushTimesOut \/ CaptureStops
  BY <1>9 DEF LineType, ReadGivesUp, PushTimesOut, CaptureStops, deviceVars, queueVars,
              encoderVars
<1>10. CASE Accept \/ Reject
  <2>1. /\ queue # <<>> /\ queue' = Tail(queue)
        /\ expected' \in {expected, Head(queue) + Block}
        /\ UNCHANGED <<now, nextPts, block, source>>
    BY <1>10 DEF Accept, Reject, EncoderStep, deviceVars, captureVars
  <2>2. queue' \in Seq(Int) /\ Head(queue) \in Int
    BY <2>1, HeadTailProperties DEF LineType
  <2>3. QED
    BY <1>1, <2>1, <2>2 DEF LineType
<1>11. CASE EncodeStep /\ ~Accept /\ ~Reject
  BY <1>11 DEF LineType, EncodeStep, EncodeFrame, EncodeFrameFails, EncodeFails, EncodeReturns,
               QueueEnds, FlushFrame, FlushReturns, FlushWith, FlushFails, EncoderStep,
               deviceVars, captureVars
<1>12. QED
  BY <1>2, <1>3, <1>4, <1>5, <1>6, <1>7, <1>8, <1>9, <1>10, <1>11 DEF Next, CaptureStep

-----------------------------------------------------------------------------
(* The steps of the capture *)

(* Time, the device and the stop. *)
LEMMA AroundKeepsInv ==
  ASSUME AudioAssumption, LineType, InLine, Fresh, error # "discontinuous",
         Tick \/ Unplug \/ RequestStop \/ Rest \/ UNCHANGED audioVars
  PROVE  InLine' /\ Fresh' /\ error' # "discontinuous"
<1>1. UNCHANGED <<queue, expected, source, nextPts, block, at, error, started>>
  BY DEF Tick, Unplug, RequestStop, Rest, audioVars, deviceVars, captureVars, queueVars,
         encoderVars
<1>2. pcm' = pcm \/ (pcm = "running" /\ pcm' = "xrun") \/ pcm' = "gone"
  BY DEF Tick, Unplug, RequestStop, Rest, audioVars, deviceVars
<1>3. InLine'
  BY <1>1 DEF InLine, Due
<1>4. Fresh'
  BY <1>1, <1>2 DEF Fresh
<1>5. QED
  BY <1>1, <1>3, <1>4

(* A stream that starts sets the time line, before anything is on it. *)
LEMMA ReadBeginsKeepsInv ==
  ASSUME InLine, Fresh, error # "discontinuous", ReadBegins
  PROVE  InLine' /\ Fresh' /\ error' # "discontinuous"
<1>1. /\ UNCHANGED <<queue, expected, source, block, error>>
      /\ source = "alsa" /\ at = "fetching" /\ at' = "reading"
  BY DEF ReadBegins, Go, OnlyCapture, queueVars, encoderVars
<1>2. CASE started
  <2>1. UNCHANGED <<pcm, started, nextPts>>
    BY <1>2 DEF ReadBegins
  <2>2. InLine' /\ Fresh'
    BY <1>1, <1>2, <2>1 DEF InLine, Due, Fresh
  <2>3. QED
    BY <1>1, <2>2
<1>3. CASE ~started
  <2>1. pcm = "prepared" /\ pcm' = "running" /\ started' = TRUE
    BY <1>3 DEF ReadBegins, Start
  <2>2. queue = <<>> /\ expected = None
    BY <1>1, <1>3, <2>1 DEF Fresh
  <2>3. InLine' /\ Fresh'
    BY <1>1, <2>1, <2>2 DEF InLine, Due, Fresh
  <2>4. QED
    BY <1>1, <2>3
<1>4. QED
  BY <1>2, <1>3

(* A block that is complete is due; the next one continues it. *)
LEMMA ReadKeepsInv ==
  ASSUME InLine, Fresh, error # "discontinuous", ReadSucceeds \/ MockReads
  PROVE  InLine' /\ Fresh' /\ error' # "discontinuous"
<1>1. /\ UNCHANGED <<queue, expected, source, error, started, pcm>>
      /\ at \in {"reading", "fetching"} /\ at' = "pushing"
      /\ block' = nextPts /\ nextPts' = nextPts + Block
      /\ source = "alsa" => at = "reading"
  BY DEF ReadSucceeds, MockReads, Go, OnlyCapture, queueVars, encoderVars
<1>2. InLine'
  BY <1>1 DEF InLine, Due
<1>3. Fresh'
  BY <1>1 DEF Fresh
<1>4. QED
  BY <1>1, <1>2, <1>3

(* Failures, retries and stops queue nothing and move no block. *)
LEMMA FaultKeepsInv ==
  ASSUME InLine, Fresh, error # "discontinuous", jumped' = jumped,
         \/ StartFails \/ ReadPart \/ ReadFails \/ AlsaRecovers \/ RecoverFails
         \/ MockFails \/ MockRecovers \/ Retry \/ ReadGivesUp \/ PushTimesOut \/ CaptureStops,
         ~jumped
  PROVE  InLine' /\ Fresh' /\ error' # "discontinuous"
<1>1. UNCHANGED <<queue, expected, source, nextPts, block>>
  BY DEF StartFails, ReadPart, ReadFails, FailedRead, AlsaRecovers, RestartAt, RecoverFails,
         MockFails, MockRecovers, Retry, ReadGivesUp, PushTimesOut, CaptureStops, OnlyCapture,
         deviceVars,
         queueVars, encoderVars
<1>2. error' \in {error, "overloaded", "unreadable"}
  BY DEF StartFails, ReadPart, ReadFails, FailedRead, AlsaRecovers, RestartAt, RecoverFails,
         MockFails, MockRecovers, Retry, ReadGivesUp, PushTimesOut, CaptureStops, OnlyCapture
<1>3. at' = "stopped" \/ (at \notin {"stopped", "pushing"} /\ at' # "pushing")
  BY DEF StartFails, ReadPart, ReadFails, FailedRead, AlsaRecovers, RestartAt, RecoverFails,
         MockFails, MockRecovers, Retry, ReadGivesUp, PushTimesOut, CaptureStops, Go, ReadError
<1>4. InLine'
  BY <1>1, <1>3 DEF InLine, Due
<1>5. Fresh'
  <2>1. CASE StartFails \/ ReadPart \/ Retry \/ ReadGivesUp \/ PushTimesOut \/ CaptureStops
    <3>1. UNCHANGED <<started, pcm>> /\ at' \in {at, "retrying", "fetching", "stopped"}
      BY <2>1 DEF StartFails, ReadPart, Retry, ReadGivesUp, PushTimesOut, CaptureStops, Go,
                  deviceVars
    <3>2. QED
      BY <1>1, <3>1 DEF Fresh
  <2>2. CASE ReadFails
    <3>1. UNCHANGED <<started, pcm>> /\ at' \in {"retrying", "recovering"}
          /\ (at' = "recovering" => pcm = "xrun")
      BY <2>2 DEF ReadFails, FailedRead, ReadError, Go
    <3>2. QED
      BY <1>1, <3>1 DEF Fresh
  <2>3. CASE AlsaRecovers
    <3>1. started' = TRUE /\ at' = "fetching"
      BY <2>3 DEF AlsaRecovers, RestartAt, Go
    <3>2. QED
      BY <3>1 DEF Fresh
  <2>4. CASE RecoverFails
    <3>1. source = "alsa" /\ at = "recovering" /\ pcm' = pcm /\ at' = "retrying"
      BY <2>4 DEF RecoverFails, Go
    <3>2. pcm' \in {"xrun", "gone"}
      BY <3>1 DEF Fresh
    <3>3. QED
      BY <3>1, <3>2 DEF Fresh
  <2>5. CASE MockFails \/ MockRecovers
    <3>1. source' = "mock"
      BY <1>1, <2>5 DEF MockFails, MockRecovers
    <3>2. QED
      BY <3>1 DEF Fresh
  <2>6. QED
    BY <2>1, <2>2, <2>3, <2>4, <2>5
<1>6. QED
  BY <1>2, <1>4, <1>5

(* A block is queued behind the one it continues. *)
LEMMA PushKeepsInv ==
  ASSUME AudioAssumption, LineType, InLine, Fresh, error # "discontinuous", Push
  PROVE  InLine' /\ Fresh' /\ error' # "discontinuous"
<1>1. /\ UNCHANGED <<expected, source, nextPts, block, started, pcm, error>>
      /\ at = "pushing" /\ at' = "fetching" /\ queue' = Append(queue, block)
  BY DEF Push, Go, deviceVars, encoderVars
<1>2. /\ Block \in Int /\ block \in Int /\ Len(queue) \in Nat /\ queue' # <<>>
      /\ Len(queue') = Len(queue) + 1
      /\ \A i \in 1 .. Len(queue) : queue'[i] = queue[i]
      /\ queue'[Len(queue) + 1] = block
  BY <1>1, AppendProperties DEF LineType, AudioAssumption
<1>3. queue # <<>> => Len(queue) >= 1 /\ queue[Len(queue)] + Block = block
  BY <1>1, EmptySeq DEF InLine, Due, LineType
<1>4. nextPts = block + Block
  BY <1>1 DEF InLine
<1>5. ASSUME NEW i \in 1 .. Len(queue') - 1 PROVE queue'[i + 1] = queue'[i] + Block
  <2>1. i \in 1 .. Len(queue)
    BY <1>2
  <2>2. CASE i = Len(queue)
    <3>1. queue # <<>>
      BY <2>1, <2>2
    <3>2. QED
      BY <1>2, <1>3, <2>1, <2>2, <3>1
  <2>3. CASE i # Len(queue)
    <3>1. i \in 1 .. Len(queue) - 1 /\ i + 1 \in 1 .. Len(queue)
      BY <1>2, <2>1, <2>3
    <3>2. QED
      BY <1>2, <2>1, <3>1 DEF InLine
  <2>4. QED
    BY <2>2, <2>3
<1>6. queue'[Len(queue')] + Block = Due'
  BY <1>1, <1>2, <1>4 DEF Due
<1>7. expected' \in {None, queue'[1]}
  <2>1. CASE queue = <<>>
    BY <1>1, <1>2, <2>1 DEF InLine, Due
  <2>2. CASE queue # <<>>
    BY <1>1, <1>2, <1>3, <2>2 DEF InLine
  <2>3. QED
    BY <2>1, <2>2
<1>8. InLine'
  BY <1>1, <1>2, <1>5, <1>6, <1>7 DEF InLine
<1>9. Fresh'
  BY <1>1 DEF Fresh
<1>10. QED
  BY <1>1, <1>8, <1>9

-----------------------------------------------------------------------------
(* The steps of the encoder *)

(* The first block queued is the one the encoder expects. *)
LEMMA NothingIsRejected ==
  ASSUME LineType, InLine, Reject
  PROVE  FALSE
<1>1. queue # <<>> /\ expected \notin {None, Head(queue)}
  BY DEF Reject, Continuous
<1>2. Head(queue) = queue[1]
  BY <1>1 DEF LineType
<1>3. QED
  BY <1>1, <1>2 DEF InLine

(* The block that is taken is followed by the one then expected. *)
LEMMA AcceptKeepsInv ==
  ASSUME AudioAssumption, LineType, InLine, Fresh, error # "discontinuous", Accept
  PROVE  InLine' /\ Fresh' /\ error' # "discontinuous"
<1>1. /\ UNCHANGED <<at, nextPts, block, source, pcm, started>>
      /\ queue # <<>> /\ queue' = Tail(queue) /\ expected' = Head(queue) + Block
      /\ error' \in {error, "queueing"}
  BY DEF Accept, Fail, EncoderStep, deviceVars, captureVars
<1>2. /\ Len(queue) \in Nat \ {0} /\ Len(queue') = Len(queue) - 1
      /\ \A i \in 1 .. Len(queue) - 1 : queue'[i] = queue[i + 1]
      /\ Head(queue) = queue[1] /\ queue' \in Seq(Int)
  BY <1>1, EmptySeq, HeadTailProperties DEF LineType
<1>3. ASSUME NEW i \in 1 .. Len(queue') - 1 PROVE queue'[i + 1] = queue'[i] + Block
  <2>1. i \in 1 .. Len(queue) - 1 /\ i + 1 \in 1 .. Len(queue) - 1
    BY <1>2
  <2>2. queue[(i + 1) + 1] = queue[i + 1] + Block
    BY <2>1 DEF InLine
  <2>3. QED
    BY <1>2, <2>1, <2>2
<1>4. CASE queue' = <<>>
  <2>1. Len(queue) = 1
    BY <1>2, <1>4
  <2>2. at # "stopped" => expected' = Due
    BY <1>1, <1>2, <2>1 DEF InLine
  <2>3. InLine'
    BY <1>1, <1>3, <1>4, <2>2 DEF InLine, Due
  <2>4. QED
    BY <1>1, <2>3 DEF Fresh
<1>5. CASE queue' # <<>>
  <2>1. Len(queue) - 1 \in Nat \ {0}
    BY <1>2, <1>5, EmptySeq
  <2>2. queue'[Len(queue')] = queue[Len(queue)]
    <3>1. Len(queue) - 1 \in 1 .. Len(queue) - 1 /\ (Len(queue) - 1) + 1 = Len(queue)
      BY <1>2, <2>1
    <3>2. QED
      BY <1>2, <3>1
  <2>3. expected' = queue'[1]
    <3>1. 1 \in 1 .. Len(queue) - 1
      BY <2>1
    <3>2. queue[1 + 1] = queue[1] + Block /\ queue'[1] = queue[1 + 1]
      BY <1>2, <3>1 DEF InLine
    <3>3. QED
      BY <1>1, <1>2, <3>2
  <2>4. InLine'
    BY <1>1, <1>3, <1>5, <2>2, <2>3 DEF InLine, Due
  <2>5. QED
    BY <1>1, <2>4 DEF Fresh
<1>6. QED
  BY <1>4, <1>5

(* The other steps of the encoder see neither the queue nor what it expects. *)
LEMMA EncoderKeepsInv ==
  ASSUME InLine, Fresh, error # "discontinuous", EncodeStep, ~Accept, ~Reject
  PROVE  InLine' /\ Fresh' /\ error' # "discontinuous"
<1>1. /\ UNCHANGED <<queue, expected, at, nextPts, block, source, pcm, started>>
      /\ error' \in {error, "encoding", "flushing"}
  BY DEF EncodeStep, EncodeFrame, EncodeFrameFails, EncodeFails, Fail, EncodeReturns,
         QueueEnds, FlushFrame, FlushReturns, FlushWith, FlushFails, EncoderStep,
         deviceVars, captureVars
<1>2. QED
  BY <1>1 DEF InLine, Due, Fresh

(* A closed queue loses what an Abort discards, when the capture has ended. *)
LEMMA CloseQueueKeepsInv ==
  ASSUME InLine, Fresh, error # "discontinuous", CloseQueue
  PROVE  InLine' /\ Fresh' /\ error' # "discontinuous"
<1>1. /\ UNCHANGED <<expected, at, nextPts, block, source, pcm, started, error>>
      /\ at = "stopped" /\ queue' \in {queue, <<>>}
  BY DEF CloseQueue, deviceVars, captureVars, encoderVars
<1>2. InLine'
  BY <1>1 DEF InLine, Due
<1>3. Fresh'
  BY <1>1 DEF Fresh
<1>4. QED
  BY <1>1, <1>2, <1>3

-----------------------------------------------------------------------------

(* The inductive invariant holds in every execution. *)
THEOREM LineSafe == AudioAssumption => (Spec => []LineInv)
<1> SUFFICES ASSUME AudioAssumption PROVE Spec => []LineInv
  OBVIOUS
<1>1. Init => LineInv
  BY DEF Init, LineInv, LineType, InLine, Due, Fresh, None
<1>2. LineInv /\ [Next]_audioVars => LineInv'
  <2> SUFFICES ASSUME LineInv, [Next]_audioVars PROVE LineInv'
    OBVIOUS
  <2>1. LineType /\ LineType'
    BY TypeKept DEF LineInv
  <2>2. CASE jumped'
    BY <2>1, <2>2 DEF LineInv
  <2>3. CASE ~jumped'
    <3>1. ~jumped /\ InLine /\ Fresh /\ error # "discontinuous"
      BY <2>3, JumpedStays DEF LineInv
    <3>2. CASE Tick \/ Unplug \/ RequestStop \/ Rest \/ UNCHANGED audioVars
      BY <2>1, <3>1, <3>2, AroundKeepsInv DEF LineInv
    <3>3. CASE ReadBegins \/ ReadSucceeds \/ MockReads
      BY <2>1, <3>1, <3>3, ReadBeginsKeepsInv, ReadKeepsInv DEF LineInv
    <3>4. CASE \/ StartFails \/ ReadPart \/ ReadFails \/ AlsaRecovers \/ RecoverFails
               \/ MockFails \/ MockRecovers \/ Retry \/ ReadGivesUp \/ PushTimesOut
               \/ CaptureStops
      <4>1. jumped' = jumped
        BY <2>3, <3>1, <3>4
        DEF StartFails, ReadPart, ReadFails, FailedRead, AlsaRecovers, RestartAt, RecoverFails,
            MockFails, MockRecovers, Retry, ReadGivesUp, PushTimesOut, CaptureStops
      <4>2. QED
        BY <2>1, <3>1, <3>4, <4>1, FaultKeepsInv DEF LineInv
    <3>5. CASE Push
      BY <2>1, <3>1, <3>5, PushKeepsInv DEF LineInv
    <3>6. CASE CloseQueue
      BY <2>1, <3>1, <3>6, CloseQueueKeepsInv DEF LineInv
    <3>7. CASE EncodeStep
      BY <2>1, <3>1, <3>7, AcceptKeepsInv, NothingIsRejected, EncoderKeepsInv DEF LineInv
    <3>8. QED
      BY <3>2, <3>3, <3>4, <3>5, <3>6, <3>7 DEF Next, CaptureStep
  <2>4. QED
    BY <2>2, <2>3
<1>3. QED
  BY <1>1, <1>2, PTL DEF Spec

(* Short reads, time-outs, overruns that Recover repairs, the faults of the mock
   and every order of steps leave the time line whole: the encoder ends the run
   over a discontinuity only after a restart that prepared the device and could
   not start it. *)
THEOREM DiscontinuityHasCause == AudioAssumption => (Spec => []ContinuityErrorHasCause)
<1> SUFFICES ASSUME AudioAssumption PROVE Spec => []ContinuityErrorHasCause
  OBVIOUS
<1>1. LineInv => ContinuityErrorHasCause
  BY DEF LineInv, ContinuityErrorHasCause
<1>2. QED
  BY <1>1, LineSafe, PTL

-----------------------------------------------------------------------------
(* The types of the device, the queue and the codec *)

(* A running device has room in its ring: the sample that fills it stops it. *)
DeviceInv ==
  /\ TypeOK /\ queue \in Seq(Nat) /\ block \in Nat
  /\ pcm = "running" => ring < Ring

(* The steps of the capture, of time and of the stop. *)
LEMMA CaptureKeepsTypes ==
  ASSUME AudioAssumption, DeviceInv,
         Tick \/ Unplug \/ CaptureStep \/ RequestStop \/ CloseQueue \/ UNCHANGED audioVars
  PROVE  DeviceInv'
<1> USE DEF DeviceInv, TypeOK
<1>1. /\ Block \in Nat \ {0} /\ Ring \in Nat \ {0} /\ Capacity \in Nat \ {0}
      /\ MaxTime \in Nat /\ queue \in Seq(Nat) /\ codec' = codec /\ enc' = enc
  <2>1. encoderVars' = encoderVars
    BY DEF Tick, Unplug, CaptureStep, RequestStop, CloseQueue, audioVars, ReadBegins,
           StartFails, ReadPart, ReadSucceeds, ReadFails, FailedRead, AlsaRecovers, RestartAt,
           RecoverFails, MockFails, MockReads, MockRecovers, Retry, Push, ReadGivesUp,
           PushTimesOut,
           CaptureStops, OnlyCapture
  <2>2. QED
    BY <2>1 DEF AudioAssumption, encoderVars
<1>2. CASE Tick \/ Unplug \/ RequestStop \/ UNCHANGED audioVars
  <2>1. CASE Tick
    BY <1>1, <2>1 DEF Tick, deviceVars, captureVars, queueVars
  <2>2. CASE Unplug
    BY <1>1, <2>2 DEF Unplug, deviceVars, captureVars, queueVars
  <2>3. CASE RequestStop
    BY <1>1, <2>3 DEF RequestStop, deviceVars, captureVars
  <2>4. CASE UNCHANGED audioVars
    BY <1>1, <2>4 DEF audioVars, deviceVars, captureVars, queueVars
  <2>5. QED
    BY <1>2, <2>1, <2>2, <2>3, <2>4
<1>3. CASE ReadBegins
  BY <1>1, <1>3 DEF ReadBegins, Start, Go, OnlyCapture, queueVars
<1>4. CASE ReadPart \/ ReadSucceeds
  <2>1. CASE ReadPart
    BY <1>1, <2>1 DEF ReadPart, OnlyCapture, queueVars
  <2>2. CASE ReadSucceeds
    <3>1. ring' \in 0 .. Ring - 1 /\ nextPts' \in Nat /\ blocks' \in Nat
      BY <1>1, <2>2 DEF ReadSucceeds
    <3>2. QED
      BY <1>1, <2>2, <3>1 DEF ReadSucceeds, Go, OnlyCapture, queueVars
  <2>3. QED
    BY <1>4, <2>1, <2>2
<1>5. CASE StartFails \/ ReadFails \/ Retry
  BY <1>1, <1>5, SMTT(30)
  DEF StartFails, ReadFails, FailedRead, ReadError, Retry, Go, OnlyCapture,
      queueVars
<1>6. CASE AlsaRecovers \/ RecoverFails
  BY <1>1, <1>6, SMTT(30) DEF AlsaRecovers, RestartAt, RecoverFails, Go, OnlyCapture, queueVars
<1>7. CASE MockFails \/ MockReads \/ MockRecovers
  BY <1>1, <1>7, SMTT(30) DEF MockFails, MockReads, MockRecovers, Go, OnlyCapture, queueVars
<1>8. CASE Push
  <2>1. Append(queue, block) \in Seq(Nat) /\ Len(Append(queue, block)) = Len(queue) + 1
        /\ Len(queue) \in Nat
    BY <1>1, AppendProperties
  <2>2. QED
    BY <1>1, <1>8, <2>1 DEF Push, Go, deviceVars
<1>9. CASE ReadGivesUp \/ PushTimesOut \/ CaptureStops
  BY <1>1, <1>9 DEF ReadGivesUp, PushTimesOut, CaptureStops, Go, deviceVars, queueVars
<1>10. CASE CloseQueue
  <2>1. queue' \in {queue, <<>>} /\ Len(<<>>) = 0
    BY <1>10 DEF CloseQueue
  <2>2. QED
    BY <1>1, <1>10, <2>1 DEF CloseQueue, deviceVars, captureVars
<1>11. QED
  BY <1>2, <1>3, <1>4, <1>5, <1>6, <1>7, <1>8, <1>9, <1>10 DEF CaptureStep

-----------------------------------------------------------------------------
(* The frames the encoder makes *)

Frames == [pts : Int, samples : Seq(Int)]

(* The encoder takes no more blocks. *)
Ended == enc \in {"flushing", "done"}

(* All frames carry the samples they say, but for the padding of the last. *)
Exact(s, padded) == \A k \in DOMAIN s : Packet(s[k], padded /\ k = Len(s))

(* The samples in the FIFO start where the next frame will say it starts, and
   end where the next block is expected; only the frame that emptied the FIFO
   after the last block is padded. *)
SampleInv ==
  /\ now \in Nat /\ nextPts \in Nat /\ block \in Nat /\ queue \in Seq(Nat)
  /\ enc \in {"popping", "encoding", "flushing", "done"}
  /\ expected \in Nat \cup {None} /\ origin \in Nat \cup {None}
  /\ fifo \in Seq(Int)
  /\ codec \in Seq(Frames) /\ output \in Seq(Frames) /\ submitted \in Seq(Frames)
  /\ origin = None => fifo = <<>> /\ expected = None
  /\ \A i \in 1 .. Len(fifo) : fifo[i] = origin + i - 1
  /\ origin # None /\ ~Ended => expected = origin + Len(fifo)
  /\ Exact(Made, Ended /\ fifo = <<>>)
  /\ Len(codec) <= Delay

(* The samples of a block. *)
LEMMA BlockSamples ==
  ASSUME NEW p \in Nat, NEW n \in Nat
  PROVE  /\ Samples(p, n) \in Seq(Int) /\ Len(Samples(p, n)) = n
         /\ \A i \in 1 .. n : Samples(p, n)[i] = p + i - 1
<1>1. \A i \in 1 .. n : p + i - 1 \in Int
  OBVIOUS
<1>2. QED
  BY <1>1 DEF Samples

(* Samples that start at o. *)
Contiguous(f, o) == f \in Seq(Int) /\ \A i \in 1 .. Len(f) : f[i] = o + i - 1

(* They are continued by those that start where they end. *)
LEMMA SamplesContinue ==
  ASSUME NEW f, NEW o \in Nat, NEW p \in Nat, NEW n \in Nat,
         Contiguous(f, o), p = o + Len(f)
  PROVE  /\ Contiguous(f \o Samples(p, n), o)
         /\ Len(f \o Samples(p, n)) = Len(f) + n
<1>0. f \in Seq(Int) /\ \A i \in 1 .. Len(f) : f[i] = o + i - 1
  BY DEF Contiguous
<1>1. /\ Samples(p, n) \in Seq(Int) /\ Len(Samples(p, n)) = n
      /\ \A i \in 1 .. n : Samples(p, n)[i] = p + i - 1
  BY BlockSamples
<1> DEFINE g == Samples(p, n)
<1> HIDE DEF g
<1>2. /\ f \o g \in Seq(Int) /\ Len(f \o g) = Len(f) + Len(g)
      /\ \A i \in 1 .. Len(f) + Len(g) :
           (f \o g)[i] = IF i <= Len(f) THEN f[i] ELSE g[i - Len(f)]
  BY <1>0, <1>1, ConcatProperties DEF g
<1>3. ASSUME NEW i \in 1 .. Len(f) + n
      PROVE  (f \o g)[i] = o + i - 1
  <2>1. CASE i <= Len(f)
    <3>1. i \in 1 .. Len(f)
      BY <2>1
    <3>2. QED
      BY <1>0, <1>1, <1>2, <2>1, <3>1 DEF g
  <2>2. CASE ~(i <= Len(f))
    <3>1. i - Len(f) \in 1 .. n /\ Len(f) \in Nat
      BY <1>0, <2>2
    <3>2. g[i - Len(f)] = p + (i - Len(f)) - 1
      BY <1>1, <3>1 DEF g
    <3>3. (f \o g)[i] = g[i - Len(f)]
      BY <1>0, <1>1, <1>2, <2>2 DEF g
    <3>4. QED
      BY <3>1, <3>2, <3>3
  <2>3. QED
    BY <2>1, <2>2
<1>4. QED
  BY <1>1, <1>2, <1>3 DEF g, Contiguous

(* A frame of the first n samples of the FIFO says where they start; what it is
   longer than they are is silence. *)
FrameFrom(n, size) ==
  [pts |-> origin,
   samples |-> SubSeq(fifo, 1, n) \o [i \in 1 .. (size - n) |-> Silence]]

(* Every sample of it was captured when it says, or pads it. *)
LEMMA FrameIsExact ==
  ASSUME NEW n \in Nat, NEW size \in Nat, n <= size, n <= Len(fifo),
         fifo \in Seq(Int), origin \in Nat,
         \A i \in 1 .. Len(fifo) : fifo[i] = origin + i - 1
  PROVE  /\ FrameFrom(n, size) \in Frames
         /\ Packet(FrameFrom(n, size), size # n)
<1> DEFINE a == SubSeq(fifo, 1, n)
           b == [i \in 1 .. (size - n) |-> Silence]
<1>1. /\ a \in Seq(Int) /\ Len(a) = n
      /\ \A i \in 1 .. n : a[i] = fifo[i]
  <2>1. \A i \in 1 .. n : fifo[i] \in Int
    OBVIOUS
  <2>2. QED
    BY <2>1, SubSeqProperties
<1>2. /\ b \in Seq(Int) /\ Len(b) = size - n
      /\ \A i \in 1 .. size - n : b[i] = Silence
  BY DEF Silence
<1> HIDE DEF a, b
<1>3. /\ a \o b \in Seq(Int) /\ Len(a \o b) = size /\ DOMAIN (a \o b) = 1 .. size
      /\ \A i \in 1 .. size : (a \o b)[i] = IF i <= n THEN a[i] ELSE b[i - n]
  <2>1. /\ a \o b \in Seq(Int) /\ Len(a \o b) = Len(a) + Len(b)
        /\ \A i \in 1 .. Len(a) + Len(b) :
             (a \o b)[i] = IF i <= Len(a) THEN a[i] ELSE b[i - Len(a)]
    BY <1>1, <1>2, ConcatProperties, ZenonT(40)
  <2>2. n + (size - n) = size
    OBVIOUS
  <2>3. DOMAIN (a \o b) = 1 .. Len(a \o b)
    BY <2>1, LenProperties
  <2>4. QED
    BY <1>1, <1>2, <2>1, <2>2, <2>3
<1>4. ASSUME NEW i \in 1 .. size
      PROVE  (a \o b)[i] = origin + i - 1 \/ (size # n /\ (a \o b)[i] = Silence)
  <2>1. CASE i <= n
    <3>1. i \in 1 .. n /\ i \in 1 .. Len(fifo)
      BY <2>1
    <3>2. QED
      BY <1>1, <1>3, <2>1, <3>1
  <2>2. CASE ~(i <= n)
    <3>1. i - n \in 1 .. size - n /\ size # n
      BY <2>2
    <3>2. QED
      BY <1>2, <1>3, <2>2, <3>1
  <2>3. QED
    BY <2>1, <2>2
<1>5. FrameFrom(n, size) = [pts |-> origin, samples |-> a \o b]
  BY DEF FrameFrom, a, b
<1>6. FrameFrom(n, size) \in Frames
  BY <1>3, <1>5 DEF Frames
<1>7. FrameFrom(n, size).pts = origin /\ FrameFrom(n, size).samples = a \o b
  BY <1>5
<1>8. QED
  BY <1>3, <1>4, <1>6, <1>7 DEF Packet

(* What is left in the FIFO starts where the frame ended. *)
Remainder(n) == SubSeq(fifo, n + 1, Len(fifo))

(* The next frame can be made of it. *)
LEMMA RemainderIsExact ==
  ASSUME NEW n \in Nat, n <= Len(fifo), fifo \in Seq(Int), origin \in Nat,
         \A i \in 1 .. Len(fifo) : fifo[i] = origin + i - 1
  PROVE  /\ Remainder(n) \in Seq(Int) /\ Len(Remainder(n)) = Len(fifo) - n
         /\ (origin + n) + Len(Remainder(n)) = origin + Len(fifo)
         /\ \A i \in 1 .. Len(Remainder(n)) : Remainder(n)[i] = (origin + n) + i - 1
<1>1. \A i \in n + 1 .. Len(fifo) : fifo[i] \in Int
  OBVIOUS
<1>2. /\ Remainder(n) \in Seq(Int)
      /\ Len(Remainder(n)) = IF n + 1 <= Len(fifo) THEN Len(fifo) - (n + 1) + 1 ELSE 0
      /\ \A i \in 1 .. Len(fifo) - (n + 1) + 1 : Remainder(n)[i] = fifo[(n + 1) + i - 1]
  <2> DEFINE m == n + 1
             l == Len(fifo)
  <2>1. m \in Int /\ l \in Int /\ \A i \in m .. l : fifo[i] \in Int
    BY <1>1
  <2> HIDE DEF m, l
  <2>2. /\ SubSeq(fifo, m, l) \in Seq(Int)
        /\ Len(SubSeq(fifo, m, l)) = IF m <= l THEN l - m + 1 ELSE 0
        /\ \A i \in 1 .. l - m + 1 : SubSeq(fifo, m, l)[i] = fifo[m + i - 1]
    BY <2>1, SubSeqProperties
  <2>3. QED
    BY <2>2 DEF Remainder, m, l
<1>3. Len(Remainder(n)) = Len(fifo) - n /\ Len(fifo) \in Nat
  BY <1>2
<1>4. ASSUME NEW i \in 1 .. Len(Remainder(n))
      PROVE  Remainder(n)[i] = (origin + n) + i - 1
  <2>1. n + i \in 1 .. Len(fifo) /\ (n + 1) + i - 1 = n + i /\ i \in 1 .. Len(fifo) - (n + 1) + 1
    BY <1>3
  <2>2. fifo[n + i] = origin + (n + i) - 1
    BY <2>1
  <2>3. QED
    BY <1>2, <2>1, <2>2
<1>5. (origin + n) + Len(Remainder(n)) = origin + Len(fifo)
  BY <1>3
<1>6. QED
  BY <1>2, <1>3, <1>4, <1>5

(* The codec passes on its oldest frames and keeps no more than its delay. *)
LEMMA SendPassesOn ==
  ASSUME AudioAssumption, NEW frame \in Frames,
         codec \in Seq(Frames), output \in Seq(Frames), submitted \in Seq(Frames),
         NEW n, NEW size, frame = FrameFrom(n, size), SendFrame(n, size), submitted' = submitted
  PROVE  /\ codec' \in Seq(Frames) /\ output' \in Seq(Frames)
         /\ Made' = Append(Made, frame) /\ Len(codec') <= Delay
<1> DEFINE held == Append(codec, frame)
           keep == Least(Delay, Len(held))
           k == Len(held) - keep
<1>1. held \in Seq(Frames) /\ Len(held) \in Nat \ {0} /\ Delay \in Nat
  BY AppendProperties DEF AudioAssumption
<1>2. keep \in Nat /\ keep <= Len(held) /\ keep <= Delay
  BY <1>1 DEF Least
<1>3. /\ output' = output \o SubSeq(held, 1, k)
      /\ codec' = SubSeq(held, k + 1, Len(held))
  BY DEF SendFrame, FrameFrom
<1> HIDE DEF held, keep
<1>4. k \in Nat /\ k \in 0 .. Len(held) /\ Len(held) - k = keep
  BY <1>1, <1>2
<1> HIDE DEF k
<1>5. /\ SubSeq(held, 1, k) \in Seq(Frames)
      /\ SubSeq(held, k + 1, Len(held)) \in Seq(Frames)
      /\ Len(SubSeq(held, k + 1, Len(held))) = keep
  <2>1. \A i \in 1 .. Len(held) : held[i] \in Frames
    BY <1>1
  <2>2. \A i \in 1 .. k : held[i] \in Frames
    BY <1>1, <1>4, <2>1
  <2>3. \A i \in k + 1 .. Len(held) : held[i] \in Frames
    BY <1>1, <1>4, <2>1
  <2>4. /\ 1 \in Int /\ k \in Int /\ k + 1 \in Int /\ Len(held) \in Int
        /\ IF k + 1 <= Len(held) THEN Len(held) - (k + 1) + 1 = keep ELSE 0 = keep
    BY <1>1, <1>2, <1>4
  <2>5. SubSeq(held, 1, k) \in Seq(Frames)
    BY <2>2, <2>4, SubSeqProperties
  <2>6. /\ SubSeq(held, k + 1, Len(held)) \in Seq(Frames)
        /\ Len(SubSeq(held, k + 1, Len(held)))
             = IF k + 1 <= Len(held) THEN Len(held) - (k + 1) + 1 ELSE 0
    BY <2>3, <2>4, SubSeqProperties
  <2>7. QED
    BY <2>4, <2>5, <2>6
<1>6. output' \in Seq(Frames)
  BY <1>3, <1>5, ConcatProperties
<1>7. SubSeq(held, 1, k) \o SubSeq(held, k + 1, Len(held)) = held
  <2>1. /\ 1 \in 1 .. Len(held) + 1 /\ k \in (1 - 1) .. Len(held) /\ Len(held) \in k .. Len(held)
    BY <1>1, <1>4
  <2>2. SubSeq(held, 1, Len(held)) = held
    BY <1>1, SubSeqFull
  <2>3. QED
    BY <1>1, <2>1, <2>2, ConcatAdjacentSubSeq
<1>8. held = codec \o <<frame>> /\ <<frame>> \in Seq(Frames)
  BY AppendIsConcat DEF held
<1>9. Made' = (submitted \o output) \o held
  <2>1. Made' = (submitted \o (output \o SubSeq(held, 1, k))) \o SubSeq(held, k + 1, Len(held))
    BY <1>3 DEF Made
  <2> DEFINE old == SubSeq(held, 1, k)
             new == SubSeq(held, k + 1, Len(held))
             sent == submitted \o output
  <2>2. old \in Seq(Frames) /\ new \in Seq(Frames)
    BY <1>5
  <2>3. sent \in Seq(Frames)
    BY ConcatProperties
  <2> HIDE DEF old, new
  <2>4. sent \o old = submitted \o (output \o old)
    BY <2>2, ConcatAssociative, SMTT(30)
  <2> HIDE DEF sent
  <2>5. (sent \o old) \o new = sent \o (old \o new)
    BY <2>2, <2>3, ConcatAssociative, SMTT(30)
  <2>6. QED
    BY <1>7, <2>1, <2>4, <2>5 DEF old, new, sent
<1>10. submitted \o output \in Seq(Frames) /\ Made \in Seq(Frames)
  BY ConcatProperties DEF Made
<1>11. (submitted \o output) \o held = Append(Made, frame)
  BY <1>8, <1>10, ConcatAssociative, AppendIsConcat DEF Made
<1>12. QED
  BY <1>2, <1>3, <1>5, <1>6, <1>9, <1>11

(* What is true of every frame but the padded last one stays true when fewer
   frames are claimed to be last, *)
LEMMA ExactWeaker ==
  ASSUME NEW s, NEW x, NEW y, Exact(s, x), x => y
  PROVE  Exact(s, y)
  BY DEF Exact, Packet

(* when a frame follows that may be padded, *)
LEMMA ExactAppend ==
  ASSUME NEW s \in Seq(Frames), NEW p \in Frames, NEW padded, Exact(s, FALSE), Packet(p, padded)
  PROVE  Exact(Append(s, p), padded)
<1>1. /\ DOMAIN s = 1 .. Len(s) /\ Len(s) \in Nat
      /\ DOMAIN Append(s, p) = 1 .. Len(s) + 1 /\ Len(Append(s, p)) = Len(s) + 1
      /\ \A k \in 1 .. Len(s) : Append(s, p)[k] = s[k]
      /\ Append(s, p)[Len(s) + 1] = p
  BY AppendProperties, LenProperties
<1>2. ASSUME NEW k \in 1 .. Len(s) + 1
      PROVE  Packet(Append(s, p)[k], padded /\ k = Len(s) + 1)
  <2>1. CASE k = Len(s) + 1
    BY <1>1, <2>1 DEF Packet
  <2>2. CASE k # Len(s) + 1
    <3>1. k \in 1 .. Len(s)
      BY <1>1, <2>2
    <3>2. Packet(s[k], FALSE /\ k = Len(s))
      BY <1>1, <3>1 DEF Exact
    <3>3. QED
      BY <1>1, <3>1, <3>2 DEF Packet
  <2>3. QED
    BY <2>1, <2>2
<1>3. QED
  BY <1>1, <1>2 DEF Exact

(* and when the frames in the middle are dropped. *)
LEMMA ExactWithout ==
  ASSUME NEW a \in Seq(Frames), NEW b \in Seq(Frames), NEW c \in Seq(Frames), NEW padded,
         Exact((a \o b) \o c, padded)
  PROVE  Exact((a \o <<>>) \o c, padded)
<1>1. a \o <<>> = a
  BY ConcatEmptySeq
<1>2. a \o b \in Seq(Frames) /\ Len(a) \in Nat /\ Len(b) \in Nat /\ Len(c) \in Nat
  BY ConcatProperties
<1>3. /\ Len(a \o b) = Len(a) + Len(b)
      /\ \A i \in 1 .. Len(a) + Len(b) : i <= Len(a) => (a \o b)[i] = a[i]
  BY ConcatProperties
<1>4. /\ (a \o b) \o c \in Seq(Frames)
      /\ Len((a \o b) \o c) = Len(a \o b) + Len(c)
      /\ \A i \in 1 .. Len(a \o b) + Len(c) :
           ((a \o b) \o c)[i] = IF i <= Len(a \o b) THEN (a \o b)[i] ELSE c[i - Len(a \o b)]
  BY <1>2, ConcatProperties
<1>5. /\ a \o c \in Seq(Frames) /\ Len(a \o c) = Len(a) + Len(c)
      /\ \A i \in 1 .. Len(a) + Len(c) :
           (a \o c)[i] = IF i <= Len(a) THEN a[i] ELSE c[i - Len(a)]
  BY ConcatProperties
<1>6. /\ DOMAIN ((a \o b) \o c) = 1 .. Len(a) + Len(b) + Len(c)
      /\ DOMAIN (a \o c) = 1 .. Len(a) + Len(c)
  BY <1>2, <1>3, <1>4, <1>5, LenProperties
<1>7. ASSUME NEW i \in 1 .. Len(a) + Len(c)
      PROVE  Packet((a \o c)[i], padded /\ i = Len(a) + Len(c))
  <2> DEFINE j == IF i <= Len(a) THEN i ELSE i + Len(b)
  <2>1. /\ j \in 1 .. Len(a) + Len(b) + Len(c)
        /\ j = Len(a) + Len(b) + Len(c) => i = Len(a) + Len(c)
    BY <1>2
  <2>2. ((a \o b) \o c)[j] = (a \o c)[i]
    <3>1. CASE i <= Len(a)
      <4>1. i \in 1 .. Len(a) + Len(b) /\ i \in 1 .. Len(a \o b) + Len(c) /\ i <= Len(a \o b)
        BY <1>2, <1>3, <3>1
      <4>2. ((a \o b) \o c)[i] = a[i]
        BY <1>3, <1>4, <3>1, <4>1
      <4>3. QED
        BY <1>5, <3>1, <4>2
    <3>2. CASE ~(i <= Len(a))
      <4>1. /\ j = i + Len(b) /\ j \in 1 .. Len(a \o b) + Len(c) /\ ~(j <= Len(a \o b))
            /\ j - Len(a \o b) = i - Len(a)
        BY <1>2, <1>3, <3>2
      <4>2. ((a \o b) \o c)[j] = c[i - Len(a)]
        BY <1>4, <4>1
      <4>3. QED
        BY <1>5, <3>2, <4>2
    <3>3. QED
      BY <3>1, <3>2
  <2> HIDE DEF j
  <2>3. Packet(((a \o b) \o c)[j], padded /\ j = Len(a) + Len(b) + Len(c))
    <3>1. Len((a \o b) \o c) = Len(a) + Len(b) + Len(c)
      BY <1>3, <1>4
    <3>2. QED
      BY <1>6, <2>1, <3>1 DEF Exact
  <2>4. QED
    BY <2>1, <2>2, <2>3 DEF Packet
<1>8. QED
  BY <1>1, <1>5, <1>6, <1>7 DEF Exact

-----------------------------------------------------------------------------
(* The steps keep the samples in line *)

(* The steps of the capture give the encoder nothing but another block. *)
LEMMA CaptureKeepsSamples ==
  ASSUME AudioAssumption, SampleInv,
         Tick \/ Unplug \/ CaptureStep \/ RequestStop \/ CloseQueue \/ UNCHANGED audioVars
  PROVE  SampleInv'
<1>1. encoderVars' = encoderVars
  BY DEF Tick, Unplug, CaptureStep, RequestStop, CloseQueue, audioVars, ReadBegins,
         StartFails, ReadPart, ReadSucceeds, ReadFails, FailedRead, AlsaRecovers, RestartAt,
         RecoverFails, MockFails, MockReads, MockRecovers, Retry, Push, ReadGivesUp, PushTimesOut,
         CaptureStops, OnlyCapture
<1>2. queue' \in {queue, <<>>, Append(queue, block)}
  BY DEF Tick, Unplug, CaptureStep, RequestStop, CloseQueue, audioVars, ReadBegins,
         StartFails, ReadPart, ReadSucceeds, ReadFails, FailedRead, AlsaRecovers, RestartAt,
         RecoverFails, MockFails, MockReads, MockRecovers, Retry, Push, ReadGivesUp, PushTimesOut,
         CaptureStops, OnlyCapture, queueVars
<1>3. queue' \in Seq(Nat)
  <2>1. queue \in Seq(Nat) /\ block \in Nat
    BY DEF SampleInv
  <2>2. Append(queue, block) \in Seq(Nat) /\ <<>> \in Seq(Nat)
    BY <2>1, AppendProperties
  <2>3. QED
    BY <1>2, <2>1, <2>2
<1>4. /\ now' \in {now, now + 1} /\ nextPts' \in {nextPts, now, nextPts + Block}
      /\ block' \in {block, nextPts}
  BY DEF Tick, Unplug, CaptureStep, RequestStop, CloseQueue, audioVars, ReadBegins, Start,
         StartFails, ReadPart, ReadSucceeds, ReadFails, FailedRead, AlsaRecovers, RestartAt,
         RecoverFails, MockFails, MockReads, MockRecovers, Retry, Push, ReadGivesUp, PushTimesOut,
         CaptureStops, OnlyCapture, captureVars
<1>5. now' \in Nat /\ nextPts' \in Nat /\ block' \in Nat
  BY <1>4 DEF SampleInv, AudioAssumption
<1>6. UNCHANGED <<enc, expected, origin, fifo, codec, output, submitted>>
  BY <1>1 DEF encoderVars
<1>7. Ended' = Ended /\ Made' = Made
  BY <1>6 DEF Ended, Made
<1>8. Exact(Made, Ended /\ fifo = <<>>)'
  BY <1>6, <1>7 DEF SampleInv, Exact
<1>9. QED
  BY <1>3, <1>5, <1>6, <1>7, <1>8 DEF SampleInv

(* What EncoderStep leaves alone, and what is known before a step. *)
LEMMA EncoderSees ==
  ASSUME AudioAssumption, SampleInv, EncoderStep
  PROVE  /\ now' \in Nat /\ nextPts' \in Nat /\ block' \in Nat
         /\ Block \in Nat \ {0} /\ Frame \in Nat \ {0}
         /\ Len(fifo) \in Nat /\ (fifo = <<>> <=> Len(fifo) = 0)
         /\ fifo # <<>> => origin \in Nat
         /\ smallLast' = smallLast
  BY EmptySeq DEF AudioAssumption, SampleInv, EncoderStep, captureVars

(* A frame that is sent takes its samples out of the FIFO; only when it empties
   the FIFO may it be padded. *)
LEMMA CutKeepsLine ==
  ASSUME AudioAssumption, SampleInv, NEW n \in Nat, NEW size \in Nat,
         n <= size, n <= Len(fifo), size # n => n = Len(fifo),
         fifo' = Remainder(n), origin' = origin + size,
         UNCHANGED expected
  PROVE  /\ fifo' \in Seq(Int) /\ origin' \in Nat \cup {None}
         /\ origin' = None => fifo' = <<>> /\ expected' = None
         /\ \A i \in 1 .. Len(fifo') : fifo'[i] = origin' + i - 1
         /\ fifo # <<>> => origin' \in Nat
         /\ size # n => fifo' = <<>>
         /\ size = n => origin' + Len(fifo') = origin + Len(fifo)
<1>1. /\ fifo \in Seq(Int) /\ origin \in Nat \cup {None} /\ Len(fifo) \in Nat
      /\ origin = None => fifo = <<>> /\ expected = None
      /\ \A i \in 1 .. Len(fifo) : fifo[i] = origin + i - 1
  BY DEF SampleInv
<1>2. CASE fifo = <<>>
  <2>1. Len(fifo) = 0 /\ n = 0
    BY <1>2
  <2>2. fifo' = <<>>
    BY <1>2, <2>1, SubSeqEmpty DEF Remainder
  <2>3. origin' \in Nat \cup {None} /\ (origin' = None => origin = None)
    BY <1>1 DEF None
  <2>4. Len(fifo') = 0
    <3>1. \A x : x = <<>> => Len(x) = 0
      OBVIOUS
    <3>2. QED
      BY <2>2, <3>1
  <2>5. size = n => origin' = origin
    <3>1. origin \in Int
      BY <1>1 DEF None
    <3>2. QED
      BY <2>1, <3>1
  <2>6. fifo' \in Seq(Int) /\ \A i \in 1 .. Len(fifo') : fifo'[i] = origin' + i - 1
    BY <2>2, <2>4
  <2>7. origin' = None => fifo' = <<>> /\ expected' = None
    BY <1>1, <2>2, <2>3
  <2>8. size = n => origin' + Len(fifo') = origin + Len(fifo)
    BY <2>1, <2>4, <2>5
  <2>9. QED
    BY <1>2, <2>2, <2>3, <2>6, <2>7, <2>8
<1>3. CASE fifo # <<>>
  <2>1. origin \in Nat
    BY <1>1, <1>3
  <2>2. /\ fifo' \in Seq(Int) /\ Len(fifo') = Len(fifo) - n
        /\ (origin + n) + Len(fifo') = origin + Len(fifo)
        /\ \A i \in 1 .. Len(fifo') : fifo'[i] = (origin + n) + i - 1
    BY <1>1, <2>1, RemainderIsExact
  <2>3. size # n => Len(fifo') = 0
    BY <1>1, <2>2
  <2>4. size # n => fifo' = <<>>
    BY <2>2, <2>3, EmptySeq
  <2>5. \A i \in 1 .. Len(fifo') : fifo'[i] = origin' + i - 1
    <3>1. CASE size = n
      BY <2>2, <3>1
    <3>2. CASE size # n
      BY <2>3, <3>2
    <3>3. QED
      BY <3>1, <3>2
  <2>6. origin' \in Nat /\ origin' # None
    BY <2>1 DEF None
  <2>7. size = n => origin' + Len(fifo') = origin + Len(fifo)
    BY <2>2
  <2>8. QED
    BY <2>2, <2>4, <2>5, <2>6, <2>7
<1>4. QED
  BY <1>2, <1>3

(* The size of the frames: the last one may be shorter or padded. *)
LEMMA FrameSizes ==
  ASSUME AudioAssumption, fifo \in Seq(Int)
  PROVE  /\ RestOfFifo \in Nat /\ LastSize \in Nat
         /\ RestOfFifo <= LastSize /\ RestOfFifo <= Len(fifo)
         /\ LastSize # RestOfFifo => RestOfFifo = Len(fifo)
  BY DEF AudioAssumption, RestOfFifo, LastSize, Least

(* A frame that is sent is exact. *)
LEMMA SendKeepsSamples ==
  ASSUME AudioAssumption, SampleInv, EncodeFrame \/ FlushFrame
  PROVE  SampleInv'
<1> DEFINE n == IF enc = "encoding" THEN Frame ELSE RestOfFifo
           size == IF enc = "encoding" THEN Frame ELSE LastSize
<1>1. /\ SendFrame(n, size) /\ fifo # <<>>
      /\ enc \in {"encoding", "flushing"}
      /\ UNCHANGED <<enc, expected, queue, submitted, error>> /\ EncoderStep
  <2>1. CASE EncodeFrame
    <3>1. fifo # <<>>
      BY <2>1 DEF EncodeFrame, AudioAssumption
    <3>2. QED
      BY <2>1, <3>1 DEF EncodeFrame
  <2>2. CASE FlushFrame
    BY <2>2 DEF FlushFrame
  <2>3. QED
    BY <2>1, <2>2
<1>2. /\ n \in Nat /\ size \in Nat /\ n <= size /\ n <= Len(fifo)
      /\ size # n => n = Len(fifo) /\ enc = "flushing"
  <2>1. fifo \in Seq(Int) /\ Frame \in Nat
    BY DEF SampleInv, AudioAssumption
  <2>2. enc = "encoding" => Len(fifo) >= Frame
    BY DEF EncodeFrame, FlushFrame
  <2>3. QED
    BY <1>1, <2>1, <2>2, FrameSizes
<1> HIDE DEF n, size
<1>3. /\ now' \in Nat /\ nextPts' \in Nat /\ block' \in Nat /\ origin \in Nat
  BY <1>1, EncoderSees
<1>4. /\ codec \in Seq(Frames) /\ output \in Seq(Frames) /\ submitted \in Seq(Frames)
      /\ fifo \in Seq(Int) /\ \A i \in 1 .. Len(fifo) : fifo[i] = origin + i - 1
  BY DEF SampleInv
<1>5. fifo' = Remainder(n) /\ origin' = origin + size
  BY <1>1 DEF SendFrame, Remainder
<1>6. /\ fifo' \in Seq(Int) /\ origin' \in Nat
      /\ \A i \in 1 .. Len(fifo') : fifo'[i] = origin' + i - 1
      /\ size # n => fifo' = <<>>
      /\ size = n => origin' + Len(fifo') = origin + Len(fifo)
  BY <1>1, <1>2, <1>5, CutKeepsLine
<1>7. FrameFrom(n, size) \in Frames /\ Packet(FrameFrom(n, size), size # n)
  BY <1>2, <1>3, <1>4, FrameIsExact
<1>8. /\ codec' \in Seq(Frames) /\ output' \in Seq(Frames)
      /\ Made' = Append(Made, FrameFrom(n, size)) /\ Len(codec') <= Delay
  BY <1>1, <1>4, <1>7, SendPassesOn
<1>9. Made \in Seq(Frames)
  BY <1>4, ConcatProperties DEF Made
<1>10. Exact(Made, FALSE)
  <2>1. ~(Ended /\ fifo = <<>>)
    BY <1>1
  <2>2. QED
    BY <2>1 DEF SampleInv, Exact
<1>11. Exact(Append(Made, FrameFrom(n, size)), size # n)
  BY <1>7, <1>9, <1>10, ExactAppend
<1>12. Exact(Made', Ended' /\ fifo' = <<>>)
  <2>1. size # n => Ended' /\ fifo' = <<>>
    BY <1>1, <1>2, <1>6 DEF Ended
  <2>2. QED
    BY <1>8, <1>11, <2>1, ExactWeaker
<1>13. origin' # None /\ (~Ended' => expected' = origin' + Len(fifo'))
  <2>1. origin # None /\ origin' # None
    BY <1>3, <1>6 DEF None
  <2>2. ~Ended => size = n
    BY <1>2 DEF Ended
  <2>3. QED
    BY <1>1, <1>6, <2>1, <2>2 DEF SampleInv, Ended
<1>14. /\ queue' \in Seq(Nat) /\ submitted' \in Seq(Frames) /\ expected' \in Nat \cup {None}
       /\ enc' \in {"popping", "encoding", "flushing", "done"}
  BY <1>1 DEF SampleInv
<1>15. QED
  BY <1>3, <1>6, <1>8, <1>12, <1>13, <1>14 DEF SampleInv, Exact

(* A call that fails drops the packets it had collected, and perhaps a frame. *)
LEMMA FailureKeepsSamples ==
  ASSUME AudioAssumption, SampleInv, NEW n \in Nat, NEW size \in Nat,
         n <= size, n <= Len(fifo), size # n => n = Len(fifo),
         EncodeFails(n, size), output' = <<>>, enc' \in {"flushing", "done"}
  PROVE  SampleInv'
<1>1. /\ UNCHANGED <<expected, queue, submitted, codec>> /\ EncoderStep
      /\ \/ UNCHANGED <<fifo, origin>>
         \/ fifo' = Remainder(n) /\ origin' = origin + size
  BY DEF EncodeFails, Remainder
<1>2. /\ now' \in Nat /\ nextPts' \in Nat /\ block' \in Nat
  BY <1>1, EncoderSees
<1>3. /\ fifo' \in Seq(Int) /\ origin' \in Nat \cup {None}
      /\ origin' = None => fifo' = <<>> /\ expected' = None
      /\ \A i \in 1 .. Len(fifo') : fifo'[i] = origin' + i - 1
      /\ fifo = <<>> => fifo' = <<>>
  <2>1. CASE UNCHANGED <<fifo, origin>>
    BY <1>1, <2>1 DEF SampleInv
  <2>2. CASE fifo' = Remainder(n) /\ origin' = origin + size
    <3>1. /\ fifo' \in Seq(Int) /\ origin' \in Nat \cup {None}
          /\ origin' = None => fifo' = <<>> /\ expected' = None
          /\ \A i \in 1 .. Len(fifo') : fifo'[i] = origin' + i - 1
      BY <1>1, <2>2, CutKeepsLine
    <3>2. fifo = <<>> => Remainder(n) = <<>>
      <4>1. fifo = <<>> => Len(fifo) = 0 /\ n = 0
        OBVIOUS
      <4>2. QED
        BY <4>1, SubSeqEmpty DEF Remainder
    <3>3. QED
      BY <2>2, <3>1, <3>2
  <2>3. QED
    BY <1>1, <2>1, <2>2
<1>4. /\ codec \in Seq(Frames) /\ output \in Seq(Frames) /\ submitted \in Seq(Frames)
      /\ Exact(Made, Ended /\ fifo = <<>>)
  BY DEF SampleInv
<1>5. Exact((submitted \o <<>>) \o codec, Ended /\ fifo = <<>>)
  BY <1>4, ExactWithout DEF Made
<1>6. Made' = (submitted \o <<>>) \o codec
  BY <1>1 DEF Made
<1>7. Exact(Made', Ended' /\ fifo' = <<>>)
  <2>1. Ended /\ fifo = <<>> => Ended' /\ fifo' = <<>>
    BY <1>3 DEF Ended
  <2>2. QED
    BY <1>5, <1>6, <2>1, ExactWeaker
<1>8. /\ queue' \in Seq(Nat) /\ submitted' \in Seq(Frames) /\ output' \in Seq(Frames)
      /\ codec' \in Seq(Frames) /\ Len(codec') <= Delay /\ expected' \in Nat \cup {None}
      /\ enc' \in {"popping", "encoding", "flushing", "done"} /\ Ended'
  BY <1>1 DEF SampleInv, Ended
<1>9. QED
  BY <1>2, <1>3, <1>7, <1>8 DEF SampleInv, Exact

(* Both calls that fail: the one for a frame and the one for the rest. *)
LEMMA FailsKeepSamples ==
  ASSUME AudioAssumption, SampleInv, EncodeFrameFails \/ FlushFails
  PROVE  SampleInv'
<1>1. fifo \in Seq(Int) /\ Len(fifo) \in Nat /\ Frame \in Nat
  BY DEF SampleInv, AudioAssumption
<1>2. CASE EncodeFrameFails
  <2>1. /\ EncodeFails(Frame, Frame) /\ Frame <= Len(fifo) /\ output' = <<>>
        /\ enc' \in {"flushing", "done"}
    BY <1>1, <1>2 DEF EncodeFrameFails, Fail, AfterFailure
  <2>2. QED
    BY <1>1, <2>1, FailureKeepsSamples
<1>3. CASE FlushFails
  <2>1. EncodeFails(RestOfFifo, LastSize) /\ output' = <<>> /\ enc' = "done"
    BY <1>3 DEF FlushFails
  <2>2. /\ RestOfFifo \in Nat /\ LastSize \in Nat
        /\ RestOfFifo <= LastSize /\ RestOfFifo <= Len(fifo)
        /\ LastSize # RestOfFifo => RestOfFifo = Len(fifo)
    BY <1>1, FrameSizes
  <2>3. QED
    BY <2>1, <2>2, FailureKeepsSamples
<1>4. QED
  BY <1>2, <1>3

(* A block that does not continue the line, or cannot be queued, ends the
   encoder; a block that does lengthens the line. *)
LEMMA RejectKeepsSamples ==
  ASSUME AudioAssumption, SampleInv, Reject
  PROVE  SampleInv'
<1>1. /\ UNCHANGED <<expected, origin, fifo, codec, submitted>> /\ EncoderStep
      /\ queue # <<>> /\ queue' = Tail(queue)
      /\ output' = <<>> /\ enc' \in {"flushing", "done"} /\ enc = "popping"
  BY DEF Reject, Fail, AfterFailure
<1>2. now' \in Nat /\ nextPts' \in Nat /\ block' \in Nat
  BY <1>1, EncoderSees
<1>3. queue' \in Seq(Nat)
  BY <1>1, HeadTailProperties DEF SampleInv
<1>4. /\ codec \in Seq(Frames) /\ output \in Seq(Frames) /\ submitted \in Seq(Frames)
      /\ Exact(Made, FALSE)
  <2>1. ~(Ended /\ fifo = <<>>)
    BY <1>1 DEF Ended
  <2>2. QED
    BY <2>1 DEF SampleInv, Exact
<1>5. Exact((submitted \o <<>>) \o codec, FALSE)
  BY <1>4, ExactWithout DEF Made
<1>6. Exact(Made', Ended' /\ fifo' = <<>>)
  <2>1. Made' = (submitted \o <<>>) \o codec
    BY <1>1 DEF Made
  <2>2. QED
    BY <1>5, <2>1, ExactWeaker
<1>7. /\ submitted' \in Seq(Frames) /\ output' \in Seq(Frames)
      /\ codec' \in Seq(Frames) /\ Len(codec') <= Delay /\ fifo' \in Seq(Int)
      /\ expected' \in Nat \cup {None} /\ origin' \in Nat \cup {None}
      /\ enc' \in {"popping", "encoding", "flushing", "done"} /\ Ended'
      /\ origin' = None => fifo' = <<>> /\ expected' = None
      /\ \A i \in 1 .. Len(fifo') : fifo'[i] = origin' + i - 1
  BY <1>1 DEF SampleInv, Ended
<1>8. QED
  BY <1>2, <1>3, <1>6, <1>7 DEF SampleInv, Exact

(* A block that is accepted goes behind the samples of the FIFO, or is not queued
   and ends the loop: the time line is ahead of the FIFO only when no block will
   follow. *)
LEMMA AcceptKeepsSamples ==
  ASSUME AudioAssumption, SampleInv, Accept
  PROVE  SampleInv'
<1> DEFINE p == Head(queue)
<1>1. /\ queue # <<>> /\ expected \in {None, p} /\ queue' = Tail(queue)
      /\ expected' = p + Block
      /\ origin' = IF origin = None THEN p ELSE origin
      /\ UNCHANGED <<codec, submitted>> /\ EncoderStep /\ enc = "popping"
      /\ \/ fifo' = fifo \o Samples(p, Block) /\ enc' = "encoding" /\ output' = output
         \/ UNCHANGED fifo /\ output' = <<>> /\ enc' \in {"flushing", "done"}
  BY DEF Accept, Continuous, QueueConverted, Fail, AfterFailure
<1>2. now' \in Nat /\ nextPts' \in Nat /\ block' \in Nat /\ Block \in Nat \ {0}
  BY <1>1, EncoderSees
<1>3. queue' \in Seq(Nat) /\ p \in Nat
  BY <1>1, HeadTailProperties DEF SampleInv
<1> HIDE DEF p
<1>4. /\ codec \in Seq(Frames) /\ output \in Seq(Frames) /\ submitted \in Seq(Frames)
      /\ Exact(Made, FALSE) /\ fifo \in Seq(Int) /\ Len(fifo) \in Nat
  <2>1. ~(Ended /\ fifo = <<>>)
    BY <1>1 DEF Ended
  <2>2. QED
    BY <2>1 DEF SampleInv, Exact
<1>5. /\ origin' \in Nat /\ p = origin' + Len(fifo)
      /\ \A i \in 1 .. Len(fifo) : fifo[i] = origin' + i - 1
  <2>1. CASE origin = None
    <3>1. fifo = <<>> /\ Len(fifo) = 0 /\ origin' = p
      BY <1>1, <2>1 DEF SampleInv
    <3>2. QED
      BY <1>3, <3>1
  <2>2. CASE origin # None
    <3>1. origin' = origin /\ origin \in Nat /\ expected = origin + Len(fifo)
      BY <1>1, <2>2 DEF SampleInv, Ended
    <3>2. expected # None
      BY <1>4, <3>1 DEF None
    <3>3. QED
      BY <1>1, <3>1, <3>2 DEF SampleInv
  <2>3. QED
    BY <2>1, <2>2
<1>6. origin' # None /\ expected' \in Nat
  <2>1. expected' = p + Block
    BY <1>1
  <2>2. Block \in Nat
    BY <1>2
  <2>3. p + Block \in Nat
    BY <1>3, <2>2
  <2>4. QED
    BY <1>5, <2>1, <2>3 DEF None
<1>7. CASE fifo' = fifo \o Samples(p, Block) /\ enc' = "encoding" /\ output' = output
  <2>1. /\ fifo' \in Seq(Int) /\ Len(fifo') = Len(fifo) + Block
        /\ \A i \in 1 .. Len(fifo') : fifo'[i] = origin' + i - 1
    <3>1. /\ fifo \o Samples(p, Block) \in Seq(Int)
          /\ Len(fifo \o Samples(p, Block)) = Len(fifo) + Block
          /\ \A i \in 1 .. Len(fifo) + Block :
               (fifo \o Samples(p, Block))[i] = origin' + i - 1
      <4>1. /\ fifo \in Seq(Int) /\ p \in Nat /\ Block \in Nat /\ origin' \in Nat
            /\ p = origin' + Len(fifo)
            /\ \A i \in 1 .. Len(fifo) : fifo[i] = origin' + i - 1
        BY <1>2, <1>3, <1>4, <1>5
      <4>2. Contiguous(fifo, origin')
        BY <4>1 DEF Contiguous
      <4>3. /\ Contiguous(fifo \o Samples(p, Block), origin')
            /\ Len(fifo \o Samples(p, Block)) = Len(fifo) + Block
        BY <4>1, <4>2, SamplesContinue
      <4>4. QED
        BY <4>3 DEF Contiguous
    <3>2. QED
      BY <1>7, <3>1
  <2>2. expected' = origin' + Len(fifo')
    <3>1. expected' = p + Block /\ Len(fifo') = Len(fifo) + Block /\ p = origin' + Len(fifo)
      BY <1>1, <1>5, <2>1
    <3>2. origin' \in Nat /\ Len(fifo) \in Nat /\ Block \in Nat
      BY <1>2, <1>4, <1>5
    <3>3. QED
      BY <3>1, <3>2
  <2>3. Made' = Made
    BY <1>1, <1>7 DEF Made
  <2>4. Exact(Made', Ended' /\ fifo' = <<>>)
    BY <1>4, <2>3, ExactWeaker
  <2>5. /\ submitted' \in Seq(Frames) /\ output' \in Seq(Frames)
        /\ codec' \in Seq(Frames) /\ Len(codec') <= Delay
        /\ enc' \in {"popping", "encoding", "flushing", "done"}
    BY <1>1, <1>4, <1>7 DEF SampleInv
  <2>6. QED
    BY <1>2, <1>3, <1>5, <1>6, <2>1, <2>2, <2>4, <2>5 DEF SampleInv, Exact
<1>8. CASE UNCHANGED fifo /\ output' = <<>> /\ enc' \in {"flushing", "done"}
  <2>1. Made' = (submitted \o <<>>) \o codec
    BY <1>1, <1>8 DEF Made
  <2>2. Exact((submitted \o <<>>) \o codec, FALSE)
    BY <1>4, ExactWithout DEF Made
  <2>3. Exact(Made', Ended' /\ fifo' = <<>>)
    BY <2>1, <2>2, ExactWeaker
  <2>4. /\ submitted' \in Seq(Frames) /\ output' \in Seq(Frames)
        /\ codec' \in Seq(Frames) /\ Len(codec') <= Delay /\ fifo' \in Seq(Int)
        /\ enc' \in {"popping", "encoding", "flushing", "done"} /\ Ended'
        /\ \A i \in 1 .. Len(fifo') : fifo'[i] = origin' + i - 1
    BY <1>1, <1>4, <1>5, <1>8 DEF SampleInv, Ended
  <2>5. QED
    BY <1>2, <1>3, <1>5, <1>6, <2>3, <2>4 DEF SampleInv, Exact
<1>9. QED
  BY <1>1, <1>7, <1>8

(* A call that returns moves the packets it collected, the last one those the
   codec still held. *)
LEMMA ReturnsMovePackets ==
  ASSUME AudioAssumption, SampleInv, EncodeReturns \/ QueueEnds \/ FlushReturns
  PROVE  /\ codec' \in Seq(Frames) /\ output' \in Seq(Frames) /\ submitted' \in Seq(Frames)
         /\ Made' = Made /\ Len(codec') <= Delay
<1>0. codec \in Seq(Frames) /\ output \in Seq(Frames) /\ submitted \in Seq(Frames)
  BY DEF SampleInv
<1>1. submitted \o output \in Seq(Frames) /\ (submitted \o output) \o codec \in Seq(Frames)
  BY <1>0, ConcatProperties
<1>2. CASE EncodeReturns
  <2>1. submitted' = submitted \o output /\ output' = <<>> /\ codec' = codec
    BY <1>2 DEF EncodeReturns
  <2>2. QED
    BY <1>0, <1>1, <2>1, ConcatEmptySeq DEF Made, SampleInv
<1>3. CASE QueueEnds
  BY <1>0, <1>3 DEF QueueEnds, Made, SampleInv
<1>4. CASE FlushReturns
  <2>1. /\ submitted' = (submitted \o output) \o codec /\ output' = <<>> /\ codec' = <<>>
    BY <1>4 DEF FlushReturns, FlushWith
  <2>2. Len(<<>>) = 0 /\ Delay \in Nat
    BY DEF AudioAssumption
  <2>3. QED
    BY <1>1, <2>1, <2>2, ConcatEmptySeq DEF Made
<1>5. QED
  BY <1>2, <1>3, <1>4

(* It changes no packet and no sample. *)
LEMMA ReturnsKeepSamples ==
  ASSUME AudioAssumption, SampleInv, EncodeReturns \/ QueueEnds \/ FlushReturns
  PROVE  SampleInv'
<1>1. /\ UNCHANGED <<expected, origin, fifo, queue>> /\ EncoderStep
      /\ enc' \in {"popping", "flushing", "done"} /\ (Ended => Ended')
      /\ enc' = "popping" => ~Ended
  BY DEF EncodeReturns, QueueEnds, FlushReturns, FlushWith, Ended
<1>2. now' \in Nat /\ nextPts' \in Nat /\ block' \in Nat
  BY <1>1, EncoderSees
<1>3. /\ codec' \in Seq(Frames) /\ output' \in Seq(Frames) /\ submitted' \in Seq(Frames)
      /\ Made' = Made /\ Len(codec') <= Delay
  BY ReturnsMovePackets
<1>4. Exact(Made', Ended' /\ fifo' = <<>>)
  <2>1. Ended /\ fifo = <<>> => Ended' /\ fifo' = <<>>
    BY <1>1
  <2>2. Exact(Made, Ended /\ fifo = <<>>)
    BY DEF SampleInv
  <2>3. QED
    BY <1>3, <2>1, <2>2, ExactWeaker
<1>5. /\ queue' \in Seq(Nat) /\ fifo' \in Seq(Int)
      /\ expected' \in Nat \cup {None} /\ origin' \in Nat \cup {None}
      /\ enc' \in {"popping", "encoding", "flushing", "done"}
      /\ origin' = None => fifo' = <<>> /\ expected' = None
      /\ \A i \in 1 .. Len(fifo') : fifo'[i] = origin' + i - 1
      /\ origin' # None /\ ~Ended' => expected' = origin' + Len(fifo')
  BY <1>1 DEF SampleInv
<1>6. QED
  BY <1>2, <1>3, <1>4, <1>5 DEF SampleInv, Exact

(* Every step keeps them. *)
LEMMA StepKeepsSamples ==
  ASSUME AudioAssumption, SampleInv, [Next]_audioVars
  PROVE  SampleInv'
<1>1. CASE Tick \/ Unplug \/ CaptureStep \/ RequestStop \/ CloseQueue \/ UNCHANGED audioVars
  BY <1>1, CaptureKeepsSamples
<1>2. CASE EncodeStep
  BY <1>2, AcceptKeepsSamples, RejectKeepsSamples, SendKeepsSamples, FailsKeepSamples,
     ReturnsKeepSamples DEF EncodeStep
<1>3. CASE Rest
  BY <1>1, <1>3 DEF Rest
<1>4. QED
  BY <1>1, <1>2, <1>3 DEF Next

(* Of the types the encoder disturbs those of its own variables and the queue. *)
LEMMA StepKeepsTypes ==
  ASSUME AudioAssumption, DeviceInv, SampleInv, SampleInv', [Next]_audioVars
  PROVE  DeviceInv'
<1>1. CASE Tick \/ Unplug \/ CaptureStep \/ RequestStop \/ CloseQueue \/ UNCHANGED audioVars
  BY <1>1, CaptureKeepsTypes
<1>2. CASE EncodeStep
  <2>1. /\ UNCHANGED <<now, pcm, ring, got, at, nextPts, blocks, block, phase>>
        /\ queue' = queue \/ (queue # <<>> /\ queue' = Tail(queue))
    BY <1>2 DEF EncodeStep, Accept, Reject, EncodeFrame, EncodeFrameFails, EncodeFails,
                EncodeReturns, QueueEnds, FlushFrame, FlushReturns, FlushWith, FlushFails,
                EncoderStep, deviceVars, captureVars
  <2>2. queue' \in Seq(Nat) /\ Len(queue') <= Capacity
    <3>1. queue \in Seq(Nat) /\ Len(queue) \in Nat /\ Len(queue) <= Capacity /\ Capacity \in Nat
      BY DEF DeviceInv, TypeOK, AudioAssumption
    <3>2. CASE queue # <<>> /\ queue' = Tail(queue)
      <4>1. Tail(queue) \in Seq(Nat) /\ Len(Tail(queue)) = Len(queue) - 1
        BY <3>1, <3>2, HeadTailProperties
      <4>2. QED
        BY <3>1, <3>2, <4>1
    <3>3. QED
      BY <2>1, <3>1, <3>2
  <2>3. Len(codec') <= Delay /\ enc' \in {"popping", "encoding", "flushing", "done"}
    BY DEF SampleInv
  <2>4. QED
    BY <2>1, <2>2, <2>3 DEF DeviceInv, TypeOK
<1>3. CASE Rest
  BY <1>1, <1>3 DEF Rest
<1>4. QED
  BY <1>1, <1>2, <1>3 DEF Next

-----------------------------------------------------------------------------
(* Theorems *)

(* Both hold in every execution. *)
THEOREM SamplesSafe == AudioAssumption => (Spec => [](DeviceInv /\ SampleInv))
<1> SUFFICES ASSUME AudioAssumption PROVE Spec => [](DeviceInv /\ SampleInv)
  OBVIOUS
<1>1. Init => DeviceInv /\ SampleInv
  <2> SUFFICES ASSUME Init PROVE DeviceInv /\ SampleInv
    OBVIOUS
  <2>1. /\ queue = <<>> /\ fifo = <<>> /\ codec = <<>> /\ output = <<>> /\ submitted = <<>>
        /\ Len(<<>>) = 0
    BY DEF Init
  <2>2. Made = <<>>
    BY <2>1 DEF Made
  <2>3. DeviceInv
    BY <2>1 DEF Init, DeviceInv, TypeOK, AudioAssumption
  <2>4. Exact(Made, Ended /\ fifo = <<>>)
    BY <2>2 DEF Exact
  <2>5. QED
    BY <2>1, <2>3, <2>4 DEF Init, SampleInv, AudioAssumption
<1>2. DeviceInv /\ SampleInv /\ [Next]_audioVars => (DeviceInv /\ SampleInv)'
  BY StepKeepsSamples, StepKeepsTypes
<1>3. QED
  BY <1>1, <1>2, PTL DEF Spec

(* The ring of the device, the block in progress, the queue and the delay line
   of the codec keep their sizes. *)
THEOREM AudioTypes == AudioAssumption => (Spec => []TypeOK)
<1> SUFFICES ASSUME AudioAssumption PROVE Spec => []TypeOK
  OBVIOUS
<1>1. DeviceInv => TypeOK
  BY DEF DeviceInv
<1>2. QED
  BY <1>1, SamplesSafe, PTL

(* Through the re-blocking of the FIFO, the delay of the codec and every failure
   each packet says when its samples were captured: the encoder's own count of
   samples is the time line of the capture, for every size of block and frame. *)
THEOREM PacketsSayWhenCaptured == AudioAssumption => (Spec => []EncodedPtsIsCapturePts)
<1> SUFFICES ASSUME AudioAssumption PROVE Spec => []EncodedPtsIsCapturePts
  OBVIOUS
<1>1. SampleInv => EncodedPtsIsCapturePts
  BY DEF SampleInv, EncodedPtsIsCapturePts, Exact, Packet, Ended
<1>2. QED
  BY <1>1, SamplesSafe, PTL

-----------------------------------------------------------------------------
(* What becomes of the samples *)

(* What was pushed is in order, before what will be: the time line of a capture is
   behind the clock, so that a stream that starts again from the clock goes on. *)
TakenInv ==
  /\ source = "alsa" => nextPts + got + ring <= now
  /\ at = "pushing" => nextPts = block + Block
  /\ taken \in Seq(Nat) /\ Increasing(taken)
  /\ \A x \in Values(taken) : x < Due

(* The samples of the blocks in the queue. *)
Queued(q) == UNION {Values(Samples(q[i], Block)) : i \in DOMAIN q}

(* The end of a packet's time. *)
End(p) == p.pts + Len(p.samples)

(* Nothing follows the padding of a packet. *)
PaddedAtEnd(p) ==
  \A i, j \in DOMAIN p.samples : i < j /\ p.samples[i] = Silence => p.samples[j] = Silence

(* The packets follow each other, up to where the next one will start. *)
InOrder(packets, next) ==
  /\ \A k \in DOMAIN packets :
       next # None /\ End(packets[k]) <= next /\ PaddedAtEnd(packets[k])
  /\ \A k, l \in DOMAIN packets : k < l => End(packets[k]) <= packets[l].pts

(* The encoder does not finish before it has all there is. *)
NothingIsLeft ==
  /\ phase # "abort"
  /\ Ended => queue = <<>> /\ closed
  /\ enc = "done" => fifo = <<>> /\ output = <<>> /\ codec = <<>>

(* As long as there is no error, every sample that was pushed is in a packet, in
   the FIFO or in the queue. *)
WholeInv ==
  /\ closed => at = "stopped"
  /\ error = "none" =>
       /\ NothingIsLeft /\ InOrder(Made, origin)
       /\ Values(taken) = Carried(Made) \cup Values(fifo) \cup Queued(queue)

-----------------------------------------------------------------------------
(* The samples of sequences *)

(* A sequence that is continued. *)
LEMMA ValuesConcat ==
  ASSUME NEW S, NEW f \in Seq(S), NEW g \in Seq(S)
  PROVE  Values(f \o g) = Values(f) \cup Values(g)
<1>1. /\ Len(f) \in Nat /\ Len(g) \in Nat
      /\ f \o g \in Seq(S) /\ Len(f \o g) = Len(f) + Len(g)
      /\ \A i \in 1 .. Len(f) + Len(g) :
           (f \o g)[i] = IF i <= Len(f) THEN f[i] ELSE g[i - Len(f)]
  BY ConcatProperties
<1>2. /\ DOMAIN f = 1 .. Len(f) /\ DOMAIN g = 1 .. Len(g)
      /\ DOMAIN (f \o g) = 1 .. Len(f) + Len(g)
  BY <1>1, LenProperties
<1> DEFINE h == f \o g
<1> HIDE DEF h
<1>3. ASSUME NEW x \in Values(h) PROVE x \in Values(f) \cup Values(g)
  <2>1. PICK i \in 1 .. Len(f) + Len(g) : x = h[i]
    BY <1>2, <1>3 DEF Values, h
  <2>2. CASE i <= Len(f)
    <3>1. i \in 1 .. Len(f) /\ x = f[i]
      BY <1>1, <2>1, <2>2 DEF h
    <3>2. QED
      BY <1>2, <3>1 DEF Values
  <2>3. CASE ~(i <= Len(f))
    <3>1. i - Len(f) \in 1 .. Len(g) /\ x = g[i - Len(f)]
      BY <1>1, <2>1, <2>3 DEF h
    <3>2. QED
      BY <1>2, <3>1 DEF Values
  <2>4. QED
    BY <2>2, <2>3
<1>4. ASSUME NEW i \in 1 .. Len(f) PROVE f[i] \in Values(h)
  <2>1. i \in 1 .. Len(f) + Len(g) /\ h[i] = f[i]
    BY <1>1 DEF h
  <2>2. QED
    BY <1>2, <2>1 DEF Values, h
<1>5. ASSUME NEW i \in 1 .. Len(g) PROVE g[i] \in Values(h)
  <2>1. i + Len(f) \in 1 .. Len(f) + Len(g) /\ h[i + Len(f)] = g[(i + Len(f)) - Len(f)]
        /\ (i + Len(f)) - Len(f) = i
    BY <1>1 DEF h
  <2>2. QED
    BY <1>2, <2>1 DEF Values, h
<1>6. QED
  BY <1>2, <1>3, <1>4, <1>5 DEF Values, h

(* What a longer list of packets carries. *)
LEMMA CarriedAppend ==
  ASSUME NEW s \in Seq(Frames), NEW p \in Frames
  PROVE  Carried(Append(s, p)) = Carried(s) \cup Sound(p)
<1>1. /\ DOMAIN s = 1 .. Len(s) /\ Len(s) \in Nat
      /\ DOMAIN Append(s, p) = 1 .. Len(s) + 1
      /\ \A k \in 1 .. Len(s) : Append(s, p)[k] = s[k]
      /\ Append(s, p)[Len(s) + 1] = p
  BY AppendProperties, LenProperties
<1>2. 1 .. Len(s) + 1 = 1 .. Len(s) \cup {Len(s) + 1}
  BY <1>1
<1>3. QED
  BY <1>1, <1>2 DEF Carried

(* What the queue holds after a push, *)
LEMMA QueuedAppend ==
  ASSUME NEW q \in Seq(Nat), NEW b \in Nat
  PROVE  Queued(Append(q, b)) = Queued(q) \cup Values(Samples(b, Block))
<1>1. /\ DOMAIN q = 1 .. Len(q) /\ Len(q) \in Nat
      /\ DOMAIN Append(q, b) = 1 .. Len(q) + 1
      /\ \A k \in 1 .. Len(q) : Append(q, b)[k] = q[k]
      /\ Append(q, b)[Len(q) + 1] = b
  BY AppendProperties, LenProperties
<1>2. 1 .. Len(q) + 1 = 1 .. Len(q) \cup {Len(q) + 1}
  BY <1>1
<1>3. QED
  BY <1>1, <1>2 DEF Queued

(* and before a pop. *)
LEMMA QueuedTail ==
  ASSUME NEW q \in Seq(Nat), q # <<>>
  PROVE  Queued(q) = Values(Samples(Head(q), Block)) \cup Queued(Tail(q))
<1>1. /\ DOMAIN q = 1 .. Len(q) /\ Len(q) \in Nat \ {0} /\ Head(q) = q[1]
      /\ Tail(q) \in Seq(Nat) /\ Len(Tail(q)) = Len(q) - 1
      /\ \A k \in 1 .. Len(q) - 1 : Tail(q)[k] = q[k + 1]
  BY HeadTailProperties, LenProperties, EmptySeq
<1>2. DOMAIN Tail(q) = 1 .. Len(q) - 1
  BY <1>1, LenProperties
<1> DEFINE t == Tail(q)
<1> HIDE DEF t
<1>3. ASSUME NEW k \in 1 .. Len(q)
      PROVE  q[k] = Head(q) \/ \E i \in 1 .. Len(q) - 1 : q[k] = t[i]
  <2>1. CASE k = 1
    BY <1>1, <2>1
  <2>2. CASE k # 1
    <3>1. k - 1 \in 1 .. Len(q) - 1 /\ (k - 1) + 1 = k
      BY <1>1, <2>2
    <3>2. QED
      BY <1>1, <3>1 DEF t
  <2>3. QED
    BY <2>1, <2>2
<1>4. ASSUME NEW i \in 1 .. Len(q) - 1 PROVE \E k \in 1 .. Len(q) : t[i] = q[k]
  <2>1. i + 1 \in 1 .. Len(q)
    BY <1>1
  <2>2. QED
    BY <1>1, <2>1 DEF t
<1>5. 1 \in 1 .. Len(q)
  BY <1>1
<1>6. DOMAIN t = 1 .. Len(q) - 1
  BY <1>2 DEF t
<1> DEFINE H(b) == Values(Samples(b, Block))
<1> HIDE DEF H
<1>7. Queued(q) = UNION {H(q[k]) : k \in 1 .. Len(q)}
  BY <1>1 DEF Queued, H
<1>8. Queued(t) = UNION {H(t[i]) : i \in 1 .. Len(q) - 1}
  BY <1>6 DEF Queued, H
<1>9. Queued(q) \subseteq H(Head(q)) \cup Queued(t)
  BY <1>3, <1>7, <1>8
<1>10. H(Head(q)) \subseteq Queued(q)
  BY <1>1, <1>5, <1>7
<1>11. Queued(t) \subseteq Queued(q)
  BY <1>4, <1>7, <1>8
<1>12. QED
  BY <1>9, <1>10, <1>11 DEF t, H

(* A block has its samples in order, from its PTS on. *)
LEMMA BlockInOrder ==
  ASSUME NEW p \in Nat, NEW n \in Nat
  PROVE  /\ Samples(p, n) \in Seq(Nat) /\ Increasing(Samples(p, n))
         /\ \A x \in Values(Samples(p, n)) : p <= x /\ x < p + n
<1>1. /\ Samples(p, n) \in Seq(Int) /\ Len(Samples(p, n)) = n
      /\ \A i \in 1 .. n : Samples(p, n)[i] = p + i - 1
  BY BlockSamples
<1>2. DOMAIN Samples(p, n) = 1 .. n
  BY <1>1, LenProperties
<1>3. \A i \in 1 .. n : p + i - 1 \in Nat
  OBVIOUS
<1>4. Samples(p, n) \in Seq(Nat)
  BY <1>3 DEF Samples
<1>5. QED
  BY <1>1, <1>2, <1>4 DEF Increasing, Values

(* What is pushed in order stays in order. *)
LEMMA IncreasingConcat ==
  ASSUME NEW f \in Seq(Nat), NEW g \in Seq(Nat), Increasing(f), Increasing(g),
         \A x \in Values(f), y \in Values(g) : x < y
  PROVE  Increasing(f \o g)
<1>1. /\ Len(f) \in Nat /\ Len(g) \in Nat
      /\ f \o g \in Seq(Nat) /\ Len(f \o g) = Len(f) + Len(g)
      /\ \A i \in 1 .. Len(f) + Len(g) :
           (f \o g)[i] = IF i <= Len(f) THEN f[i] ELSE g[i - Len(f)]
  BY ConcatProperties
<1>2. /\ DOMAIN f = 1 .. Len(f) /\ DOMAIN g = 1 .. Len(g)
      /\ DOMAIN (f \o g) = 1 .. Len(f) + Len(g)
  BY <1>1, LenProperties
<1> DEFINE h == f \o g
<1> HIDE DEF h
<1>3. ASSUME NEW i \in 1 .. Len(f) + Len(g), NEW j \in 1 .. Len(f) + Len(g), i < j
      PROVE  h[i] < h[j]
  <2>1. CASE j <= Len(f)
    <3>1. i \in 1 .. Len(f) /\ j \in 1 .. Len(f) /\ h[i] = f[i] /\ h[j] = f[j]
      BY <1>1, <1>3, <2>1 DEF h
    <3>2. QED
      BY <1>2, <1>3, <3>1 DEF Increasing
  <2>2. CASE i <= Len(f) /\ ~(j <= Len(f))
    <3>1. i \in 1 .. Len(f) /\ j - Len(f) \in 1 .. Len(g)
          /\ h[i] = f[i] /\ h[j] = g[j - Len(f)]
      BY <1>1, <1>3, <2>2 DEF h
    <3>2. f[i] \in Values(f) /\ g[j - Len(f)] \in Values(g)
      BY <1>2, <3>1 DEF Values
    <3>3. QED
      BY <3>1, <3>2
  <2>3. CASE ~(i <= Len(f))
    <3>1. /\ i - Len(f) \in 1 .. Len(g) /\ j - Len(f) \in 1 .. Len(g)
          /\ i - Len(f) < j - Len(f)
          /\ h[i] = g[i - Len(f)] /\ h[j] = g[j - Len(f)]
      BY <1>1, <1>3, <2>3 DEF h
    <3>2. QED
      BY <1>2, <3>1 DEF Increasing
  <2>4. QED
    BY <1>1, <1>3, <2>1, <2>2, <2>3
<1>4. QED
  BY <1>2, <1>3 DEF Increasing, h

(* A frame takes the first samples of the FIFO, and no other loses one. *)
LEMMA FrameTakes ==
  ASSUME NEW n \in Nat, NEW size \in Nat, n <= size, n <= Len(fifo),
         fifo \in Seq(Int), origin \in Nat,
         \A i \in 1 .. Len(fifo) : fifo[i] = origin + i - 1
  PROVE  /\ Values(fifo) = Sound(FrameFrom(n, size)) \cup Values(Remainder(n))
         /\ FrameFrom(n, size).pts = origin /\ End(FrameFrom(n, size)) = origin + size
         /\ PaddedAtEnd(FrameFrom(n, size))
<1> DEFINE a == SubSeq(fifo, 1, n)
           b == [i \in 1 .. (size - n) |-> Silence]
           r == Remainder(n)
<1>1. Len(fifo) \in Nat /\ \A i \in 1 .. n : fifo[i] \in Int
  OBVIOUS
<1>2. /\ a \in Seq(Int) /\ Len(a) = n /\ \A i \in 1 .. n : a[i] = fifo[i]
  <2>1. /\ a \in Seq(Int)
        /\ Len(a) = IF 1 <= n THEN n - 1 + 1 ELSE 0
        /\ \A i \in 1 .. n - 1 + 1 : a[i] = fifo[1 + i - 1]
    BY <1>1, SubSeqProperties
  <2>2. QED
    BY <2>1
<1>3. b \in Seq(Int) /\ Len(b) = size - n /\ \A i \in 1 .. size - n : b[i] = Silence
  BY DEF Silence
<1>4. /\ r \in Seq(Int) /\ Len(r) = Len(fifo) - n
      /\ \A i \in 1 .. Len(r) : r[i] = (origin + n) + i - 1
  BY RemainderIsExact
<1>5. FrameFrom(n, size).pts = origin /\ FrameFrom(n, size).samples = a \o b
  BY DEF FrameFrom
<1> HIDE DEF a, b, r
<1>6. Values(a \o b) = Values(a) \cup Values(b) /\ Len(a \o b) = size
  BY <1>2, <1>3, ValuesConcat, ConcatProperties
<1>7. DOMAIN a = 1 .. n /\ DOMAIN b = 1 .. size - n /\ DOMAIN fifo = 1 .. Len(fifo)
      /\ DOMAIN r = 1 .. Len(fifo) - n
  BY <1>2, <1>3, <1>4, LenProperties
<1>8. \A x \in Values(fifo) : x # Silence
  BY <1>7 DEF Values, Silence
<1>9. \A x \in Values(b) : x = Silence
  BY <1>3, <1>7 DEF Values
<1>10. Values(a) \subseteq Values(fifo)
  BY <1>1, <1>2, <1>7 DEF Values
<1>11. Sound(FrameFrom(n, size)) = Values(a)
  BY <1>5, <1>6, <1>8, <1>9, <1>10 DEF Sound
<1>12. Values(r) \subseteq Values(fifo)
  <2>1. ASSUME NEW i \in 1 .. Len(fifo) - n PROVE r[i] \in Values(fifo)
    <3>1. n + i \in 1 .. Len(fifo) /\ fifo[n + i] = origin + (n + i) - 1
      BY <1>1
    <3>2. r[i] = fifo[n + i]
      BY <1>4, <3>1
    <3>3. QED
      BY <1>7, <3>1, <3>2 DEF Values
  <2>2. QED
    BY <1>7, <2>1 DEF Values
<1>13. ASSUME NEW i \in 1 .. Len(fifo) PROVE fifo[i] \in Values(a) \cup Values(r)
  <2>1. CASE i <= n
    <3>1. i \in 1 .. n
      BY <2>1
    <3>2. QED
      BY <1>2, <1>7, <3>1 DEF Values
  <2>2. CASE ~(i <= n)
    <3>1. i - n \in 1 .. Len(fifo) - n /\ fifo[i] = origin + i - 1
      BY <1>1, <2>2
    <3>2. r[i - n] = fifo[i]
      BY <1>4, <3>1
    <3>3. QED
      BY <1>7, <3>1, <3>2 DEF Values
  <2>3. QED
    BY <2>1, <2>2
<1>14. Values(fifo) = Values(a) \cup Values(r)
  BY <1>7, <1>10, <1>12, <1>13 DEF Values
<1>15. End(FrameFrom(n, size)) = origin + size
  BY <1>5, <1>6 DEF End
<1>16. ASSUME NEW i \in 1 .. size, NEW j \in 1 .. size, i < j, (a \o b)[i] = Silence
       PROVE  (a \o b)[j] = Silence
  <2>1. \A l \in 1 .. size : (a \o b)[l] = IF l <= n THEN a[l] ELSE b[l - n]
    <3>1. \A l \in 1 .. Len(a) + Len(b) :
            (a \o b)[l] = IF l <= Len(a) THEN a[l] ELSE b[l - Len(a)]
      BY <1>2, <1>3, ConcatProperties
    <3>2. Len(a) + Len(b) = size
      BY <1>2, <1>3
    <3>3. QED
      BY <1>2, <3>1, <3>2
  <2>2. ~(i <= n)
    <3>1. SUFFICES ASSUME i <= n PROVE FALSE
      OBVIOUS
    <3>2. i \in 1 .. n /\ (a \o b)[i] = a[i]
      <4>1. (a \o b)[i] = a[i]
        BY <2>1, <3>1
      <4>2. i \in 1 .. n
        BY <3>1
      <4>3. QED
        BY <4>1, <4>2
    <3>3. a[i] \in Values(fifo)
      BY <1>7, <1>10, <3>2 DEF Values
    <3>4. QED
      BY <1>8, <1>16, <3>2, <3>3
  <2>3. ~(j <= n) /\ j - n \in 1 .. size - n
    BY <1>16, <2>2
  <2>4. QED
    BY <1>3, <2>1, <2>3
<1>17. PaddedAtEnd(FrameFrom(n, size))
  <2>1. DOMAIN (a \o b) = 1 .. size
    <3>1. a \o b \in Seq(Int)
      BY <1>2, <1>3, ConcatProperties
    <3>2. QED
      BY <1>6, <3>1, LenProperties
  <2>2. QED
    BY <1>5, <1>16, <2>1 DEF PaddedAtEnd
<1>18. QED
  BY <1>5, <1>11, <1>14, <1>15, <1>17 DEF r

(* A frame that starts where the last one ended is the next one. *)
LEMMA NextInOrder ==
  ASSUME NEW s \in Seq(Frames), NEW p \in Frames, NEW o \in Int, NEW u \in Nat,
         InOrder(s, o), p.pts = o, End(p) = u, o <= u, PaddedAtEnd(p)
  PROVE  InOrder(Append(s, p), u)
<1>1. /\ DOMAIN s = 1 .. Len(s) /\ Len(s) \in Nat
      /\ DOMAIN Append(s, p) = 1 .. Len(s) + 1
      /\ \A k \in 1 .. Len(s) : Append(s, p)[k] = s[k] /\ s[k] \in Frames
      /\ Append(s, p)[Len(s) + 1] = p
  BY AppendProperties, LenProperties
<1>2. \A f \in Frames : End(f) \in Int /\ f.pts \in Int
  BY DEF End, Frames
<1>3. \A k \in 1 .. Len(s) :
        End(s[k]) <= o /\ End(s[k]) \in Int /\ PaddedAtEnd(s[k])
  BY <1>1, <1>2 DEF InOrder
<1> DEFINE t == Append(s, p)
<1> HIDE DEF t
<1>4. ASSUME NEW k \in 1 .. Len(s) + 1 PROVE End(t[k]) <= u /\ PaddedAtEnd(t[k])
  <2>1. CASE k = Len(s) + 1
    BY <1>1, <2>1 DEF t
  <2>2. CASE k # Len(s) + 1
    <3>1. k \in 1 .. Len(s)
      BY <1>1, <2>2
    <3>2. QED
      BY <1>1, <1>3, <3>1 DEF t
  <2>3. QED
    BY <2>1, <2>2
<1>5. ASSUME NEW k \in 1 .. Len(s) + 1, NEW l \in 1 .. Len(s) + 1, k < l
      PROVE  End(t[k]) <= t[l].pts
  <2>1. k \in 1 .. Len(s) /\ t[k] = s[k]
    BY <1>1, <1>5 DEF t
  <2>2. CASE l = Len(s) + 1
    BY <1>1, <1>3, <2>1, <2>2 DEF t
  <2>3. CASE l # Len(s) + 1
    <3>1. l \in 1 .. Len(s) /\ t[l] = s[l]
      BY <1>1, <2>3 DEF t
    <3>2. QED
      BY <1>1, <1>5, <2>1, <3>1 DEF InOrder
  <2>4. QED
    BY <2>2, <2>3
<1>6. u # None
  BY DEF None
<1>7. DOMAIN t = 1 .. Len(s) + 1
  BY <1>1 DEF t
<1>8. QED
  BY <1>4, <1>5, <1>6, <1>7 DEF InOrder, t

-----------------------------------------------------------------------------
(* What was pushed *)

(* The time line of a capture never overtakes the clock, nor goes back. *)
LEMMA LineFollowsClock ==
  ASSUME AudioAssumption, DeviceInv, TakenInv, [Next]_audioVars
  PROVE  /\ source' = "alsa" => nextPts' + got' + ring' <= now'
         /\ at' = "pushing" => nextPts' = block' + Block
         /\ Due \in Nat /\ Due' \in Nat /\ Due <= Due'
<1>1. /\ now \in Nat /\ ring \in Nat /\ got \in Nat /\ nextPts \in Nat /\ block \in Nat
      /\ Block \in Nat \ {0}
  BY DEF DeviceInv, TypeOK, AudioAssumption
<1>2. /\ source = "alsa" => nextPts + got + ring <= now
      /\ at = "pushing" => nextPts = block + Block
  BY DEF TakenInv
<1>3. CASE EncodeStep \/ RequestStop \/ CloseQueue \/ Unplug \/ Rest \/ UNCHANGED audioVars
  <2>1. UNCHANGED <<now, source, ring, nextPts, got, at, block>>
    BY <1>3 DEF EncodeStep, Accept, Reject, EncodeFrame, EncodeFrameFails, EncodeFails,
                EncodeReturns, QueueEnds, FlushFrame, FlushReturns, FlushWith, FlushFails,
                EncoderStep, RequestStop, CloseQueue, Unplug, Rest, audioVars, deviceVars,
                captureVars
  <2>2. QED
    BY <1>1, <1>2, <2>1 DEF Due
<1>4. CASE Tick
  <2>1. /\ now' = now + 1 /\ (ring' = ring \/ ring' = ring + 1)
        /\ UNCHANGED <<source, nextPts, got, at, block>>
    BY <1>4 DEF Tick, captureVars
  <2>2. QED
    BY <1>1, <1>2, <2>1 DEF Due
<1>5. CASE ReadBegins
  <2>1. /\ source = "alsa" /\ at = "fetching" /\ at' = "reading" /\ got' = 0
        /\ UNCHANGED <<now, source, block>>
        /\ \/ nextPts' = nextPts /\ ring' = ring
           \/ nextPts' = now /\ ring' = 0
    BY <1>5 DEF ReadBegins, Start, Go, OnlyCapture
  <2>2. QED
    BY <1>1, <1>2, <2>1 DEF Due
<1>6. CASE ReadPart
  <2>1. /\ got' = got + ring /\ ring' = 0 /\ at = "reading"
        /\ UNCHANGED <<now, source, nextPts, at, block>>
    BY <1>6 DEF ReadPart, OnlyCapture
  <2>2. QED
    BY <1>1, <1>2, <2>1 DEF Due
<1>7. CASE ReadSucceeds
  <2>1. /\ at = "reading" /\ at' = "pushing" /\ got' = 0
        /\ ring' = ring - (Block - got) /\ ring >= Block - got
        /\ block' = nextPts /\ nextPts' = nextPts + Block
        /\ UNCHANGED <<now, source>>
    BY <1>7 DEF ReadSucceeds, Go, OnlyCapture
  <2>2. QED
    BY <1>1, <1>2, <2>1 DEF Due
<1>8. CASE MockReads
  <2>1. /\ source = "mock" /\ at = "fetching" /\ at' = "pushing"
        /\ block' = nextPts /\ nextPts' = nextPts + Block
        /\ UNCHANGED <<now, source>>
    BY <1>8 DEF MockReads, Go, OnlyCapture
  <2>2. QED
    BY <1>1, <1>2, <2>1 DEF Due
<1>9. CASE \/ StartFails \/ ReadFails \/ AlsaRecovers \/ RecoverFails \/ MockFails
           \/ MockRecovers \/ Retry
  <2>1. /\ UNCHANGED <<now, source, nextPts, block>>
        /\ (ring' = ring \/ ring' = 0) /\ (got' = got \/ got' = 0)
        /\ at # "pushing" /\ at' # "pushing"
    BY <1>9 DEF StartFails, ReadFails, FailedRead, ReadError, AlsaRecovers, RestartAt,
                RecoverFails, MockFails, MockRecovers, Retry, Go, OnlyCapture
  <2>2. QED
    BY <1>1, <1>2, <2>1 DEF Due
<1>10. CASE Push \/ ReadGivesUp \/ PushTimesOut \/ CaptureStops
  <2>1. UNCHANGED <<now, source, ring, nextPts, got, block>> /\ at' # "pushing"
    BY <1>10 DEF Push, ReadGivesUp, PushTimesOut, CaptureStops, Go, deviceVars
  <2>2. QED
    BY <1>1, <1>2, <2>1 DEF Due
<1>11. QED
  BY <1>3, <1>4, <1>5, <1>6, <1>7, <1>8, <1>9, <1>10 DEF Next, CaptureStep

(* Only Push adds to what was pushed. *)
LEMMA TakenFrame ==
  ASSUME [Next]_audioVars, ~Push
  PROVE  taken' = taken
  BY DEF Next, Tick, Unplug, CaptureStep, EncodeStep, RequestStop, CloseQueue, Rest, ReadBegins,
         StartFails, ReadPart, ReadSucceeds, ReadFails, FailedRead, AlsaRecovers, RestartAt,
         RecoverFails, MockFails, MockReads, MockRecovers, Retry, ReadGivesUp, PushTimesOut,
         CaptureStops, Accept, Reject, EncodeFrame, EncodeFrameFails, EncodeFails,
         EncodeReturns, QueueEnds, FlushFrame, FlushReturns, FlushWith, FlushFails,
         EncoderStep, OnlyCapture, queueVars, audioVars

(* It stays in order. *)
LEMMA StepKeepsTaken ==
  ASSUME AudioAssumption, DeviceInv, TakenInv, [Next]_audioVars
  PROVE  TakenInv'
<1>1. taken \in Seq(Nat) /\ Increasing(taken) /\ \A x \in Values(taken) : x < Due /\ x \in Nat
  BY DEF TakenInv, Values
<1>2. CASE ~Push
  <2>1. taken' = taken
    BY <1>2, TakenFrame
  <2>2. \A x \in Values(taken) : x < Due'
    BY <1>1, LineFollowsClock
  <2>3. QED
    BY <1>1, <2>1, <2>2, LineFollowsClock DEF TakenInv
<1>3. CASE Push
  <2>1. /\ at = "pushing" /\ at' = "fetching" /\ UNCHANGED <<nextPts, block>>
        /\ taken' = taken \o Samples(block, Block)
    BY <1>3 DEF Push, Go
  <2>2. Due = block /\ Due' = block + Block
    BY <2>1 DEF Due, TakenInv
  <2> DEFINE s == Samples(block, Block)
  <2>3. /\ s \in Seq(Nat) /\ Increasing(s) /\ block \in Nat /\ Block \in Nat
        /\ \A x \in Values(s) : block <= x /\ x < block + Block
    <3>1. block \in Nat /\ Block \in Nat
      BY DEF DeviceInv, AudioAssumption
    <3>2. QED
      BY <3>1, BlockInOrder
  <2> HIDE DEF s
  <2>4. \A y \in Values(s) : y \in Nat
    BY <2>3 DEF Values
  <2>5. \A x \in Values(taken), y \in Values(s) : x < y
    BY <1>1, <2>2, <2>3, <2>4
  <2>6. /\ taken \o s \in Seq(Nat) /\ Increasing(taken \o s)
        /\ Values(taken \o s) = Values(taken) \cup Values(s)
    <3>1. taken \o s \in Seq(Nat)
      BY <1>1, <2>3, ConcatProperties
    <3>2. Increasing(taken \o s)
      BY <1>1, <2>3, <2>5, IncreasingConcat
    <3>3. Values(taken \o s) = Values(taken) \cup Values(s)
      BY <1>1, <2>3, ValuesConcat
    <3>4. QED
      BY <3>1, <3>2, <3>3
  <2>7. \A x \in Values(taken \o s) : x < Due'
    BY <1>1, <2>2, <2>3, <2>4, <2>6
  <2>8. taken' = taken \o s
    BY <2>1 DEF s
  <2>9. QED
    BY <2>6, <2>7, <2>8, LineFollowsClock DEF TakenInv
<1>4. QED
  BY <1>2, <1>3

-----------------------------------------------------------------------------
(* The steps keep every sample *)

(* The first error is there to stay, and the queue is closed after the capture. *)
LEMMA ErrorsAndClosingStay ==
  ASSUME [Next]_audioVars
  PROVE  /\ error # "none" => error' # "none"
         /\ (closed => at = "stopped") => (closed' => at' = "stopped")
<1>1. CASE EncodeStep \/ RequestStop \/ Unplug \/ Tick \/ Rest \/ UNCHANGED audioVars
  BY <1>1 DEF EncodeStep, Accept, Reject, EncodeFrame, EncodeFrameFails, EncodeFails, Fail,
              EncodeReturns, QueueEnds, FlushFrame, FlushReturns, FlushWith, FlushFails,
              EncoderStep, RequestStop, Unplug, Tick, Rest, audioVars, captureVars, queueVars
<1>2. CASE CloseQueue
  BY <1>2 DEF CloseQueue, captureVars
<1>3. CASE CaptureStep
  <2>1. at # "stopped" /\ closed' = closed
    BY <1>3 DEF CaptureStep, ReadBegins, StartFails, ReadPart, ReadSucceeds, ReadFails,
                FailedRead, AlsaRecovers, RestartAt, RecoverFails, MockFails, MockReads,
                MockRecovers, Retry, Push, ReadGivesUp, PushTimesOut, CaptureStops, OnlyCapture,
                queueVars
  <2>2. error # "none" => error' # "none"
    BY <1>3 DEF CaptureStep, ReadBegins, StartFails, ReadPart, ReadSucceeds, ReadFails,
                FailedRead, AlsaRecovers, RestartAt, RecoverFails, MockFails, MockReads,
                MockRecovers, Retry, Push, ReadGivesUp, PushTimesOut, CaptureStops, OnlyCapture
  <2>3. QED
    BY <2>1, <2>2
<1>4. QED
  BY <1>1, <1>2, <1>3 DEF Next

(* What is claimed while there is no error. *)
NoneIsLost ==
  /\ NothingIsLeft /\ InOrder(Made, origin)
  /\ Values(taken) = Carried(Made) \cup Values(fifo) \cup Queued(queue)

(* Time, the device, the stop and a capture that pushes nothing. *)
LEMMA AroundLosesNothing ==
  ASSUME NoneIsLost, error = "none", error' = "none", ~Push,
         Tick \/ Unplug \/ CaptureStep \/ RequestStop \/ CloseQueue \/ UNCHANGED audioVars
  PROVE  NoneIsLost'
<1>1. encoderVars' = encoderVars /\ taken' = taken
  BY DEF Tick, Unplug, CaptureStep, RequestStop, CloseQueue, audioVars, ReadBegins,
         StartFails, ReadPart, ReadSucceeds, ReadFails, FailedRead, AlsaRecovers, RestartAt,
         RecoverFails, MockFails, MockReads, MockRecovers, Retry, ReadGivesUp, PushTimesOut,
         CaptureStops, OnlyCapture, queueVars
<1>2. queue' = queue /\ phase' # "abort" /\ (closed => closed')
  <2>1. phase # "abort"
    BY DEF NoneIsLost, NothingIsLeft
  <2>2. CASE Tick \/ Unplug \/ CaptureStep \/ UNCHANGED audioVars
    BY <2>1, <2>2
    DEF Tick, Unplug, CaptureStep, audioVars, ReadBegins, StartFails, ReadPart, ReadSucceeds,
        ReadFails, FailedRead, AlsaRecovers, RestartAt, RecoverFails, MockFails, MockReads,
        MockRecovers, Retry, ReadGivesUp, PushTimesOut, CaptureStops, OnlyCapture, queueVars
  <2>3. CASE RequestStop \/ CloseQueue
    BY <2>1, <2>3 DEF RequestStop, CloseQueue
  <2>4. QED
    BY <2>2, <2>3
<1>3. UNCHANGED <<enc, origin, fifo, codec, output, submitted>>
  BY <1>1 DEF encoderVars
<1>4. Made' = Made /\ Ended' = Ended
  BY <1>3 DEF Made, Ended
<1>5. NothingIsLeft'
  BY <1>2, <1>3, <1>4 DEF NoneIsLost, NothingIsLeft
<1>6. QED
  BY <1>1, <1>2, <1>3, <1>4, <1>5 DEF NoneIsLost, InOrder

(* A block that is pushed is in the queue; the encoder has not ended, because
   the queue is still open. *)
LEMMA PushLosesNothing ==
  ASSUME AudioAssumption, DeviceInv, TakenInv, NoneIsLost, closed => at = "stopped", Push
  PROVE  NoneIsLost'
<1>1. /\ at = "pushing" /\ queue' = Append(queue, block)
      /\ taken' = taken \o Samples(block, Block)
      /\ UNCHANGED <<closed, phase, enc, origin, fifo, codec, output, submitted>>
  BY DEF Push, encoderVars
<1>2. Made' = Made /\ Ended' = Ended
  BY <1>1 DEF Made, Ended
<1>3. ~Ended
  BY <1>1 DEF NoneIsLost, NothingIsLeft
<1>4. NothingIsLeft'
  BY <1>1, <1>2, <1>3 DEF NoneIsLost, NothingIsLeft, Ended
<1>5. block \in Nat /\ Block \in Nat /\ queue \in Seq(Nat) /\ taken \in Seq(Nat)
  BY DEF DeviceInv, TakenInv, AudioAssumption
<1>6. Queued(queue') = Queued(queue) \cup Values(Samples(block, Block))
  BY <1>1, <1>5, QueuedAppend
<1>7. Values(taken') = Values(taken) \cup Values(Samples(block, Block))
  <2>1. Samples(block, Block) \in Seq(Nat)
    BY <1>5, BlockInOrder
  <2>2. QED
    BY <1>1, <1>5, <2>1, ValuesConcat
<1>8. QED
  BY <1>1, <1>2, <1>4, <1>6, <1>7 DEF NoneIsLost, InOrder

(* A block that is accepted moves to the FIFO; the first one sets the time line,
   before there is any packet. *)
LEMMA AcceptLosesNothing ==
  ASSUME AudioAssumption, SampleInv, NoneIsLost, error' = "none", Accept
  PROVE  NoneIsLost'
<1> DEFINE p == Head(queue)
<1>1. /\ queue # <<>> /\ queue' = Tail(queue) /\ enc = "popping" /\ enc' = "encoding"
      /\ origin' = IF origin = None THEN p ELSE origin
      /\ fifo' = fifo \o Samples(p, Block)
      /\ UNCHANGED <<closed, phase, taken, codec, output, submitted>>
  BY DEF Accept, QueueConverted, Fail, EncoderStep
<1>2. Made' = Made
  BY <1>1 DEF Made
<1>3. NothingIsLeft'
  BY <1>1 DEF NoneIsLost, NothingIsLeft, Ended
<1>4. InOrder(Made, origin')
  <2>1. CASE origin = None
    <3>1. DOMAIN Made = {}
      BY <2>1 DEF NoneIsLost, InOrder
    <3>2. QED
      BY <3>1 DEF InOrder
  <2>2. CASE origin # None
    BY <1>1, <2>2 DEF NoneIsLost
  <2>3. QED
    BY <2>1, <2>2
<1>5. p \in Nat /\ Block \in Nat /\ fifo \in Seq(Int) /\ queue \in Seq(Nat)
  BY <1>1, HeadTailProperties DEF SampleInv, AudioAssumption
<1>6. Queued(queue) = Values(Samples(p, Block)) \cup Queued(queue')
  BY <1>1, <1>5, QueuedTail
<1>7. Values(fifo') = Values(fifo) \cup Values(Samples(p, Block))
  <2>1. Samples(p, Block) \in Seq(Int)
    BY <1>5, BlockSamples
  <2> HIDE DEF p
  <2>2. QED
    BY <1>1, <1>5, <2>1, ValuesConcat
<1> HIDE DEF p
<1>8. Values(taken') = Carried(Made') \cup Values(fifo') \cup Queued(queue')
  BY <1>1, <1>2, <1>6, <1>7 DEF NoneIsLost
<1>9. QED
  BY <1>2, <1>3, <1>4, <1>8 DEF NoneIsLost, InOrder

(* A frame that is sent takes its samples along. *)
LEMMA SendLosesNothing ==
  ASSUME AudioAssumption, SampleInv, NoneIsLost, EncodeFrame \/ FlushFrame
  PROVE  NoneIsLost'
<1> DEFINE n == IF enc = "encoding" THEN Frame ELSE RestOfFifo
           size == IF enc = "encoding" THEN Frame ELSE LastSize
<1>1. /\ SendFrame(n, size) /\ fifo # <<>>
      /\ enc \in {"encoding", "flushing"}
      /\ UNCHANGED <<enc, closed, phase, taken, queue, submitted>>
  <2>1. CASE EncodeFrame
    <3>1. fifo # <<>>
      BY <2>1 DEF EncodeFrame, AudioAssumption
    <3>2. QED
      BY <2>1, <3>1 DEF EncodeFrame, EncoderStep
  <2>2. CASE FlushFrame
    BY <2>2 DEF FlushFrame, EncoderStep
  <2>3. QED
    BY <2>1, <2>2
<1>2. n \in Nat /\ size \in Nat /\ n <= size /\ n <= Len(fifo)
  <2>1. fifo \in Seq(Int) /\ Frame \in Nat
    BY DEF SampleInv, AudioAssumption
  <2>2. enc = "encoding" => Len(fifo) >= Frame
    BY DEF EncodeFrame, FlushFrame
  <2>3. QED
    BY <1>1, <2>1, <2>2, FrameSizes
<1> HIDE DEF n, size
<1>3. /\ codec \in Seq(Frames) /\ output \in Seq(Frames) /\ submitted \in Seq(Frames)
      /\ fifo \in Seq(Int) /\ \A i \in 1 .. Len(fifo) : fifo[i] = origin + i - 1
      /\ origin \in Nat
  BY <1>1 DEF SampleInv
<1> DEFINE f == FrameFrom(n, size)
<1>4. f \in Frames
  BY <1>2, <1>3, FrameIsExact
<1>5. Made' = Append(Made, f) /\ Made \in Seq(Frames)
  <2>1. Made' = Append(Made, f)
    BY <1>1, <1>3, <1>4, SendPassesOn
  <2>2. QED
    BY <1>3, <2>1, ConcatProperties DEF Made
<1>6. fifo' = Remainder(n) /\ origin' = origin + size
  BY <1>1 DEF SendFrame, Remainder
<1>7. /\ Values(fifo) = Sound(f) \cup Values(Remainder(n))
      /\ f.pts = origin /\ End(f) = origin + size /\ PaddedAtEnd(f)
  BY <1>2, <1>3, FrameTakes
<1> HIDE DEF f
<1>8. InOrder(Append(Made, f), origin + size)
  <2>1. origin \in Int /\ origin + size \in Nat /\ origin <= origin + size
    BY <1>2, <1>3
  <2>2. InOrder(Made, origin)
    BY DEF NoneIsLost
  <2>3. QED
    BY <1>4, <1>5, <1>7, <2>1, <2>2, NextInOrder
<1>9. Carried(Append(Made, f)) = Carried(Made) \cup Sound(f)
  BY <1>4, <1>5, CarriedAppend
<1>10. NothingIsLeft'
  BY <1>1 DEF NoneIsLost, NothingIsLeft, Ended
<1>11. /\ InOrder(Made', origin')
       /\ Values(taken') = Carried(Made') \cup Values(fifo') \cup Queued(queue')
  <2>1. /\ Values(taken) = Carried(Made) \cup Values(fifo) \cup Queued(queue)
        /\ taken' = taken /\ queue' = queue
    BY <1>1 DEF NoneIsLost
  <2>2. Values(taken) = Carried(Append(Made, f)) \cup Values(Remainder(n)) \cup Queued(queue)
    BY <1>7, <1>9, <2>1
  <2>3. QED
    BY <1>5, <1>6, <1>8, <2>1, <2>2
<1>12. QED
  BY <1>10, <1>11 DEF NoneIsLost, InOrder

(* The last call returns when the queue has ended and the FIFO is empty. *)
LEMMA ReturnsLoseNothing ==
  ASSUME AudioAssumption, SampleInv, NoneIsLost, EncodeReturns \/ QueueEnds \/ FlushReturns
  PROVE  NoneIsLost'
<1>1. UNCHANGED <<origin, fifo, queue, closed, phase, taken>> /\ Made' = Made
  BY ReturnsMovePackets DEF EncodeReturns, QueueEnds, FlushReturns, FlushWith, EncoderStep
<1>2. NothingIsLeft'
  <2>1. phase # "abort"
    BY DEF NoneIsLost, NothingIsLeft
  <2>2. CASE EncodeReturns
    BY <1>1, <2>1, <2>2 DEF EncodeReturns, NothingIsLeft, Ended
  <2>3. CASE QueueEnds
    BY <1>1, <2>1, <2>3 DEF QueueEnds, EncoderCancelled, NothingIsLeft, Ended
  <2>4. CASE FlushReturns
    BY <1>1, <2>1, <2>4 DEF FlushReturns, FlushWith, NoneIsLost, NothingIsLeft, Ended
  <2>5. QED
    BY <2>2, <2>3, <2>4
<1>3. QED
  BY <1>1, <1>2 DEF NoneIsLost, InOrder

(* Every step that makes no error keeps every sample. *)
LEMMA StepKeepsWhole ==
  ASSUME AudioAssumption, DeviceInv, SampleInv, TakenInv, WholeInv, [Next]_audioVars
  PROVE  WholeInv'
<1>1. (closed => at = "stopped") /\ (error = "none" => NoneIsLost)
  BY DEF WholeInv, NoneIsLost
<1>2. closed' => at' = "stopped"
  BY <1>1, ErrorsAndClosingStay
<1>3. ASSUME error' = "none" PROVE NoneIsLost'
  <2>1. error = "none" /\ NoneIsLost
    BY <1>1, <1>3, ErrorsAndClosingStay
  <2>2. CASE Push
    BY <1>1, <2>1, <2>2, PushLosesNothing
  <2>3. CASE /\ ~Push
             /\ \/ Tick \/ Unplug \/ CaptureStep \/ RequestStop \/ CloseQueue
                \/ UNCHANGED audioVars
    BY <1>3, <2>1, <2>3, AroundLosesNothing
  <2>4. CASE EncodeStep
    <3>1. ~Reject /\ ~EncodeFrameFails /\ ~FlushFails
      BY <1>3, <2>1 DEF Reject, EncodeFrameFails, FlushFails, Fail
    <3>2. QED
      BY <1>3, <2>1, <2>4, <3>1, AcceptLosesNothing, SendLosesNothing, ReturnsLoseNothing
      DEF EncodeStep
  <2>5. QED
    BY <2>2, <2>3, <2>4 DEF Next, Rest
<1>4. QED
  BY <1>2, <1>3 DEF WholeInv, NoneIsLost

-----------------------------------------------------------------------------
(* Theorems *)

(* What was pushed and what became of it, in every execution. *)
THEOREM WholeSafe == AudioAssumption => (Spec => [](TakenInv /\ WholeInv))
<1> SUFFICES ASSUME AudioAssumption PROVE Spec => [](TakenInv /\ WholeInv)
  OBVIOUS
<1>1. Init => TakenInv /\ WholeInv
  <2> SUFFICES ASSUME Init PROVE TakenInv /\ WholeInv
    OBVIOUS
  <2>1. /\ queue = <<>> /\ fifo = <<>> /\ taken = <<>> /\ Made = <<>>
        /\ DOMAIN <<>> = {}
    BY DEF Init, Made
  <2>2. Values(<<>>) = {} /\ Carried(<<>>) = {} /\ Queued(<<>>) = {} /\ Increasing(<<>>)
    BY DEF Values, Carried, Queued, Increasing
  <2>3. TakenInv
    BY <2>1, <2>2 DEF Init, TakenInv
  <2>4. NothingIsLeft /\ InOrder(<<>>, origin)
    BY DEF Init, NothingIsLeft, Ended, InOrder
  <2>5. QED
    BY <2>1, <2>2, <2>3, <2>4 DEF Init, WholeInv
<1>2. /\ DeviceInv /\ SampleInv /\ TakenInv /\ WholeInv /\ [Next]_audioVars
      => (TakenInv /\ WholeInv)'
  BY StepKeepsTaken, StepKeepsWhole
<1>3. QED
  BY <1>1, <1>2, SamplesSafe, PTL DEF Spec

(* A drain that meets no error delivers every sample that entered the queue, once
   and in order, whatever the sizes of blocks and frames, the delay of the codec
   and the order of the steps: nothing is left in the queue, the FIFO or the codec,
   and no packet reaches back into the one before. *)
THEOREM DrainIsWhole == AudioAssumption => (Spec => []AudioIsWhole)
<1> SUFFICES ASSUME AudioAssumption PROVE Spec => []AudioIsWhole
  OBVIOUS
<1>1. SampleInv /\ TakenInv /\ WholeInv => AudioIsWhole
  <2> SUFFICES ASSUME SampleInv, TakenInv, WholeInv,
                      enc = "done", phase = "drain", error = "none"
               PROVE  /\ Carried(submitted) = Values(taken) /\ Increasing(taken)
                      /\ \A k, l \in DOMAIN submitted : k < l =>
                           \A x \in Sound(submitted[k]), y \in Sound(submitted[l]) : x < y
                      /\ \A k \in DOMAIN submitted :
                           \A i, j \in DOMAIN submitted[k].samples : i < j =>
                             \/ submitted[k].samples[j] = Silence
                             \/ /\ Silence # submitted[k].samples[i]
                                /\ submitted[k].samples[i] < submitted[k].samples[j]
    BY DEF AudioIsWhole
  <2>1. /\ fifo = <<>> /\ output = <<>> /\ codec = <<>> /\ queue = <<>>
        /\ submitted \in Seq(Frames)
    BY DEF WholeInv, NothingIsLeft, Ended, SampleInv
  <2>2. Made = submitted
    BY <2>1, ConcatEmptySeq DEF Made
  <2>3. Values(<<>>) = {} /\ Queued(<<>>) = {}
    BY DEF Values, Queued
  <2>4. Carried(submitted) = Values(taken) /\ Increasing(taken)
    BY <2>1, <2>2, <2>3 DEF WholeInv, TakenInv
  <2>5. InOrder(submitted, origin) /\ Exact(submitted, TRUE)
    BY <2>1, <2>2 DEF WholeInv, SampleInv, Ended
  <2>6. ASSUME NEW k \in DOMAIN submitted, NEW i \in DOMAIN submitted[k].samples
        PROVE  /\ submitted[k].pts \in Nat /\ i \in 1 .. Len(submitted[k].samples)
               /\ Len(submitted[k].samples) \in Nat
               /\ \/ submitted[k].samples[i] = submitted[k].pts + i - 1
                  \/ submitted[k].samples[i] = Silence
    <3>1. submitted[k] \in Frames
      BY <2>1
    <3>2. submitted[k].samples \in Seq(Int)
      BY <3>1 DEF Frames
    <3>3. Len(submitted[k].samples) \in Nat
          /\ DOMAIN submitted[k].samples = 1 .. Len(submitted[k].samples)
      BY <3>2, LenProperties
    <3>4. Packet(submitted[k], TRUE /\ k = Len(submitted))
      BY <2>5 DEF Exact
    <3>5. QED
      BY <3>3, <3>4 DEF Packet
  <2>7. ASSUME NEW k \in DOMAIN submitted, NEW l \in DOMAIN submitted, k < l,
               NEW x \in Sound(submitted[k]), NEW y \in Sound(submitted[l])
        PROVE  x < y
    <3>1. PICK i \in DOMAIN submitted[k].samples : x = submitted[k].samples[i] /\ x # Silence
      BY DEF Sound, Values
    <3>2. PICK j \in DOMAIN submitted[l].samples : y = submitted[l].samples[j] /\ y # Silence
      BY DEF Sound, Values
    <3>3. End(submitted[k]) <= submitted[l].pts
      BY <2>5, <2>7 DEF InOrder
    <3> DEFINE a == submitted[k].pts
               m == Len(submitted[k].samples)
               b == submitted[l].pts
    <3>4. a + m <= b
      BY <3>3 DEF End
    <3>5. x = a + i - 1 /\ a \in Nat /\ i \in 1 .. m /\ m \in Nat
      BY <2>6, <3>1
    <3>6. y = b + j - 1 /\ b \in Nat /\ j \in 1 .. Len(submitted[l].samples)
      BY <2>6, <3>2
    <3>7. j \in Int /\ 1 <= j
      <4>1. Len(submitted[l].samples) \in Nat
        BY <2>6, <3>2
      <4>2. QED
        BY <3>6, <4>1
    <3> HIDE DEF a, m, b
    <3>8. a + i - 1 < b + j - 1
      BY <3>4, <3>5, <3>6, <3>7
    <3>9. QED
      BY <3>5, <3>6, <3>8
  <2>8. ASSUME NEW k \in DOMAIN submitted, NEW i \in DOMAIN submitted[k].samples,
               NEW j \in DOMAIN submitted[k].samples, i < j,
               submitted[k].samples[j] # Silence
        PROVE  /\ Silence # submitted[k].samples[i]
               /\ submitted[k].samples[i] < submitted[k].samples[j]
    <3>1. PaddedAtEnd(submitted[k])
      BY <2>5 DEF InOrder
    <3>2. submitted[k].samples[i] # Silence
      BY <2>8, <3>1 DEF PaddedAtEnd
    <3>3. submitted[k].samples[i] = submitted[k].pts + i - 1 /\ submitted[k].pts \in Nat
          /\ i \in Nat
      BY <2>6, <3>2
    <3>4. submitted[k].samples[j] = submitted[k].pts + j - 1 /\ j \in Nat
      BY <2>6, <2>8
    <3>5. QED
      BY <2>8, <3>2, <3>3, <3>4
  <2>9. QED
    BY <2>4, <2>7, <2>8
<1>2. QED
  BY <1>1, SamplesSafe, WholeSafe, PTL

==============================================================================

------------------------- MODULE VideoEncoderProofs -------------------------
(***************************************************************************)
(* Theorems about VideoEncoder, for every delay of the codec and however   *)
(* many frames are captured.                                               *)
(***************************************************************************)
EXTENDS VideoEncoder, SequenceTheorems, TLAPS

Named(s) == \A k \in DOMAIN s : s[k].sequence = FrameOf(s[k].pts)

(* Two lists of packets that name their frames make one. *)
LEMMA NamedConcat ==
  ASSUME NEW s \in Seq(Packets), NEW u \in Seq(Packets), Named(s), Named(u)
  PROVE  /\ Named(s \o u)
         /\ s \o u \in Seq(Packets)
<1>1. ASSUME NEW k \in DOMAIN (s \o u)
      PROVE  (s \o u)[k].sequence = FrameOf((s \o u)[k].pts)
  <2>1. /\ k \in 1 .. Len(s) + Len(u)
        /\ (s \o u)[k] = IF k <= Len(s) THEN s[k] ELSE u[k - Len(s)]
    BY ConcatProperties
  <2>2. CASE k <= Len(s)
    <3>1. k \in DOMAIN s
      BY <2>1, <2>2
    <3>2. QED
      BY <2>1, <2>2, <3>1 DEF Named
  <2>3. CASE ~(k <= Len(s))
    <3>1. k - Len(s) \in DOMAIN u
      BY <2>1, <2>3
    <3>2. QED
      BY <2>1, <2>3, <3>1 DEF Named
  <2>4. QED
    BY <2>2, <2>3
<1>2. QED
  BY <1>1, ConcatProperties DEF Named

-----------------------------------------------------------------------------
(* The inductive invariant.  The codec gives packets back in the order of the
   frames, and those increase: so an entry that is taken out of the table with
   its packet is never one that another frame in the codec still needs. *)
Increasing == \A i \in DOMAIN codec : \A j \in 1 .. i - 1 : codec[j] < codec[i]
NoneNewer == \A i \in DOMAIN codec : codec[i] <= last
Entered == \A i \in DOMAIN codec : table[codec[i]] = FrameOf(codec[i])

EncoderInv ==
  /\ TypeOK
  /\ Named(submitted) /\ Named(output)
  /\ Increasing /\ NoneNewer /\ Entered

(* Every packet names its frame, and every frame in the codec has an entry. *)
LEMMA InvNamesFrames == EncoderInv => PacketsCarryTheirFrame
<1> SUFFICES ASSUME EncoderInv PROVE PacketsCarryTheirFrame
  OBVIOUS
<1>1. Named(submitted \o output)
  BY NamedConcat DEF EncoderInv, TypeOK
<1>2. QED
  BY <1>1 DEF EncoderInv, PacketsCarryTheirFrame, Named, Made, Entered

(* Send appends a newer frame and enters it before the codec can answer. *)
LEMMA SendKeepsInv ==
  ASSUME EncoderAssumption, EncoderInv, NEW t \in Times, Send(t)
  PROVE  EncoderInv'
<1>1. /\ codec \in Seq(Times) /\ sent \in Seq(Times) /\ last \in 0 .. MaxFrames
      /\ table \in [Times -> Times \cup {None}] /\ t \in Nat /\ MaxFrames \in Nat
  BY DEF EncoderInv, TypeOK, Times, EncoderAssumption
<1>2. /\ codec' = Append(codec, t) /\ sent' = Append(sent, t) /\ last' = t /\ last < t
      /\ table' = [table EXCEPT ![t] = t] /\ loop' = "encoding"
      /\ UNCHANGED <<backend, cancelled, output, submitted, failed>>
  BY DEF Send, FrameOf
<1>3. /\ DOMAIN codec' = 1 .. Len(codec) + 1
      /\ \A i \in 1 .. Len(codec) : codec'[i] = codec[i] /\ codec[i] \in Times
      /\ codec'[Len(codec) + 1] = t
      /\ codec' \in Seq(Times) /\ sent' \in Seq(Times)
      /\ Len(codec) \in Nat /\ DOMAIN codec = 1 .. Len(codec)
  BY <1>1, <1>2
<1>4. TypeOK'
  <2>1. last' \in 0 .. MaxFrames
    BY <1>1, <1>2 DEF Times
  <2>2. table' \in [Times -> Times \cup {None}]
    BY <1>1, <1>2
  <2>3. QED
    BY <1>2, <1>3, <2>1, <2>2 DEF EncoderInv, TypeOK
<1>5. Named(submitted)' /\ Named(output)'
  BY <1>2 DEF EncoderInv, Named, FrameOf
<1>6. \A i \in 1 .. Len(codec) : codec[i] < t
  <2> SUFFICES ASSUME NEW i \in 1 .. Len(codec) PROVE codec[i] < t
    OBVIOUS
  <2>1. codec[i] <= last
    BY <1>3 DEF EncoderInv, NoneNewer
  <2>2. codec[i] \in Int /\ last \in Int /\ last < t
    BY <1>1, <1>2, <1>3 DEF Times
  <2>3. QED
    BY <1>1, <2>1, <2>2
<1>7. Increasing'
  <2> SUFFICES ASSUME NEW i \in 1 .. Len(codec) + 1, NEW j \in 1 .. i - 1
               PROVE  codec'[j] < codec'[i]
    BY <1>3 DEF Increasing
  <2>1. CASE i = Len(codec) + 1
    BY <1>3, <1>6, <2>1
  <2>2. CASE i # Len(codec) + 1
    <3>1. i \in 1 .. Len(codec) /\ j \in 1 .. Len(codec)
      BY <1>3, <2>2
    <3>2. QED
      BY <1>3, <3>1 DEF EncoderInv, Increasing
  <2>3. QED
    BY <2>1, <2>2
<1>8. NoneNewer'
  <2> SUFFICES ASSUME NEW i \in 1 .. Len(codec) + 1 PROVE codec'[i] <= t
    BY <1>2, <1>3 DEF NoneNewer
  <2>1. CASE i = Len(codec) + 1
    BY <1>1, <1>3, <2>1
  <2>2. CASE i # Len(codec) + 1
    <3>1. i \in 1 .. Len(codec)
      BY <1>3, <2>2
    <3>2. codec[i] < t /\ codec'[i] = codec[i] /\ codec[i] \in Nat
      BY <1>3, <1>6, <3>1 DEF Times
    <3>3. QED
      BY <1>1, <3>2
  <2>3. QED
    BY <2>1, <2>2
<1>9. Entered'
  <2> SUFFICES ASSUME NEW i \in 1 .. Len(codec) + 1 PROVE table'[codec'[i]] = codec'[i]
    BY <1>3 DEF Entered, FrameOf
  <2>1. CASE i = Len(codec) + 1
    BY <1>1, <1>2, <1>3, <2>1
  <2>2. CASE i # Len(codec) + 1
    <3>1. i \in 1 .. Len(codec)
      BY <1>3, <2>2
    <3>2. codec'[i] = codec[i] /\ codec[i] \in Times /\ codec[i] # t
      BY <1>1, <1>3, <1>6, <3>1 DEF Times
    <3>3. table[codec[i]] = codec[i]
      BY <1>3, <3>1 DEF EncoderInv, Entered, FrameOf
    <3>4. QED
      BY <1>1, <1>2, <3>2, <3>3
  <2>3. QED
    BY <2>1, <2>2
<1>10. QED
  BY <1>4, <1>5, <1>7, <1>8, <1>9 DEF EncoderInv

(* What is left of the codec after its first frame keeps its order and its
   entries, as long as only the entry of the first may go. *)
LEMMA RestOfCodec ==
  ASSUME EncoderInv, EncoderAssumption, codec # <<>>, codec' = Tail(codec),
         NEW f \in [Times -> Times \cup {None}],
         table' = f, \A t \in Times : t # Head(codec) => f[t] = table[t],
         last' = last
  PROVE  /\ codec' \in Seq(Times) /\ Increasing' /\ NoneNewer' /\ Entered'
         /\ Head(codec) \in Times /\ table[Head(codec)] = FrameOf(Head(codec))
<1>1. /\ codec \in Seq(Times) /\ Len(codec) \in Nat \ {0} /\ DOMAIN codec = 1 .. Len(codec)
      /\ codec' \in Seq(Times) /\ Len(codec') = Len(codec) - 1
      /\ DOMAIN codec' = 1 .. Len(codec) - 1
      /\ \A i \in 1 .. Len(codec) - 1 : codec'[i] = codec[i + 1]
      /\ Head(codec) = codec[1]
  BY EmptySeq, HeadTailProperties DEF EncoderInv, TypeOK
<1>2. \A i \in 1 .. Len(codec) - 1 :
        i + 1 \in DOMAIN codec /\ codec[i + 1] \in Times /\ codec[1] < codec[i + 1]
  <2> SUFFICES ASSUME NEW i \in 1 .. Len(codec) - 1
               PROVE  /\ i + 1 \in DOMAIN codec /\ codec[i + 1] \in Times
                      /\ codec[1] < codec[i + 1]
    OBVIOUS
  <2>1. i + 1 \in DOMAIN codec /\ 1 \in 1 .. (i + 1) - 1
    BY <1>1
  <2>2. QED
    BY <1>1, <2>1 DEF EncoderInv, Increasing
<1>3. Head(codec) \in Times /\ table[Head(codec)] = FrameOf(Head(codec))
  <2>1. 1 \in DOMAIN codec
    BY <1>1
  <2>2. QED
    BY <1>1, <2>1 DEF EncoderInv, Entered
<1>4. Increasing'
  <2> SUFFICES ASSUME NEW i \in 1 .. Len(codec) - 1, NEW j \in 1 .. i - 1
               PROVE  codec'[j] < codec'[i]
    BY <1>1 DEF Increasing
  <2>1. /\ i + 1 \in DOMAIN codec /\ j + 1 \in 1 .. (i + 1) - 1 /\ j \in 1 .. Len(codec) - 1
    BY <1>1
  <2>2. codec[j + 1] < codec[i + 1]
    BY <2>1 DEF EncoderInv, Increasing
  <2>3. QED
    BY <1>1, <2>1, <2>2
<1>5. NoneNewer'
  <2> SUFFICES ASSUME NEW i \in 1 .. Len(codec) - 1 PROVE codec'[i] <= last
    BY <1>1 DEF NoneNewer
  <2>1. QED
    BY <1>1, <1>2 DEF EncoderInv, NoneNewer
<1>6. Entered'
  <2> SUFFICES ASSUME NEW i \in 1 .. Len(codec) - 1 PROVE table'[codec'[i]] = FrameOf(codec'[i])
    BY <1>1 DEF Entered, FrameOf
  <2>1. /\ codec'[i] = codec[i + 1] /\ codec[i + 1] \in Times /\ codec[i + 1] # Head(codec)
        /\ i + 1 \in DOMAIN codec
    BY <1>1, <1>2, <1>3 DEF Times
  <2>2. table[codec[i + 1]] = FrameOf(codec[i + 1])
    BY <2>1 DEF EncoderInv, Entered
  <2>3. QED
    BY <2>1, <2>2
<1>7. QED
  BY <1>1, <1>3, <1>4, <1>5, <1>6

(* Receive finds the entry of the packet, in FFmpeg for the last time. *)
LEMMA ReceiveKeepsInv ==
  ASSUME EncoderAssumption, EncoderInv, Receive
  PROVE  EncoderInv'
<1> DEFINE t == Head(codec)
           p == [pts |-> t, sequence |-> SequenceForPts(t)]
<1>1. /\ codec # <<>> /\ codec' = Tail(codec) /\ last' = last
      /\ output' = Append(output, p)
      /\ table' = IF backend = "ffmpeg" THEN Forget(t) ELSE table
      /\ UNCHANGED <<backend, loop, cancelled, submitted, sent, failed>>
  BY DEF Receive
<1>2. /\ table \in [Times -> Times \cup {None}] /\ output \in Seq(Packets)
      /\ None \notin Times
  BY DEF EncoderInv, TypeOK, None, Times
<1>3. /\ table' \in [Times -> Times \cup {None}]
      /\ \A s \in Times : s # t => table'[s] = table[s]
  BY <1>1, <1>2 DEF Forget
<1>4. /\ codec' \in Seq(Times) /\ Increasing' /\ NoneNewer' /\ Entered'
      /\ t \in Times /\ table[t] = FrameOf(t)
  BY <1>1, <1>3, RestOfCodec
<1>5. SequenceForPts(t) = t
  BY <1>2, <1>4 DEF SequenceForPts, FrameOf
<1>6. p \in Packets /\ p.sequence = FrameOf(p.pts)
  BY <1>4, <1>5 DEF Packets, FrameOf
<1>7. Named(<<p>>) /\ <<p>> \in Seq(Packets) /\ output' = output \o <<p>>
  BY <1>1, <1>2, <1>6 DEF Named
<1>8. Named(output') /\ output' \in Seq(Packets)
  <2>1. Named(output)
    BY DEF EncoderInv
  <2>2. QED
    BY <1>2, <1>7, <2>1, NamedConcat
<1>9. TypeOK'
  BY <1>1, <1>3, <1>4, <1>8 DEF EncoderInv, TypeOK
<1>10. QED
  BY <1>1, <1>4, <1>8, <1>9 DEF EncoderInv, Named, FrameOf

(* A codec that failed may have dropped its first frame. *)
LEMMA ReceiveFailsKeepsInv ==
  ASSUME EncoderAssumption, EncoderInv, ReceiveFails
  PROVE  EncoderInv'
<1>1. /\ output' = <<>> /\ failed' = TRUE /\ loop' \in {"done", "flushing"}
      /\ UNCHANGED <<backend, cancelled, last, table, submitted, sent>>
      /\ codec' = codec \/ (codec # <<>> /\ codec' = Tail(codec))
  BY DEF ReceiveFails, Fail
<1>2. Named(output') /\ output' \in Seq(Packets)
  BY <1>1 DEF Named
<1>3. codec' \in Seq(Times) /\ Increasing' /\ NoneNewer' /\ Entered'
  <2>1. CASE codec' = codec
    BY <1>1, <2>1 DEF EncoderInv, TypeOK, Increasing, NoneNewer, Entered, FrameOf
  <2>2. CASE codec # <<>> /\ codec' = Tail(codec)
    <3>1. table \in [Times -> Times \cup {None}]
      BY DEF EncoderInv, TypeOK
    <3>2. QED
      BY <1>1, <2>2, <3>1, RestOfCodec
  <2>3. QED
    BY <1>1, <2>1, <2>2
<1>4. TypeOK'
  BY <1>1, <1>2, <1>3 DEF EncoderInv, TypeOK
<1>5. QED
  BY <1>1, <1>2, <1>3, <1>4 DEF EncoderInv, Named, FrameOf

(* A refused frame leaves neither an entry nor a packet behind. *)
LEMMA SendFailsKeepsInv ==
  ASSUME EncoderAssumption, EncoderInv, NEW t \in Times, SendFails(t)
  PROVE  EncoderInv'
<1>1. /\ output' = <<>> /\ failed' = TRUE /\ loop' \in {"done", "flushing"}
      /\ last' \in {last, t} /\ last < t
      /\ UNCHANGED <<backend, cancelled, table, codec, submitted, sent>>
  BY DEF SendFails, Fail
<1>2. /\ last \in 0 .. MaxFrames /\ MaxFrames \in Nat /\ t \in 1 .. MaxFrames
      /\ \A i \in DOMAIN codec : codec[i] \in 1 .. MaxFrames
  BY DEF EncoderInv, TypeOK, Times, EncoderAssumption
<1>3. Named(output') /\ output' \in Seq(Packets)
  BY <1>1 DEF Named
<1>4. TypeOK'
  <2>1. last' \in 0 .. MaxFrames
    BY <1>1, <1>2
  <2>2. QED
    BY <1>1, <1>3, <2>1 DEF EncoderInv, TypeOK
<1>5. NoneNewer'
  BY <1>1, <1>2 DEF EncoderInv, NoneNewer
<1>6. QED
  BY <1>1, <1>3, <1>4, <1>5 DEF EncoderInv, Named, FrameOf, Increasing, Entered

(* The calls that return hand over packets that name their frames. *)
LEMMA ReturnKeepsInv ==
  ASSUME EncoderInv, submitted' = submitted \o output, output' = <<>>,
         loop' \in {"popping", "done"},
         UNCHANGED <<backend, cancelled, last, table, codec, sent, failed>>
  PROVE  EncoderInv'
<1>1. /\ submitted \in Seq(Packets) /\ output \in Seq(Packets)
      /\ Named(submitted) /\ Named(output)
  BY DEF EncoderInv, TypeOK
<1>2. Named(submitted') /\ submitted' \in Seq(Packets)
  BY <1>1, NamedConcat
<1>3. Named(output') /\ output' \in Seq(Packets)
  BY DEF Named
<1>4. TypeOK'
  BY <1>2, <1>3 DEF EncoderInv, TypeOK
<1>5. QED
  BY <1>2, <1>3, <1>4 DEF EncoderInv, Named, FrameOf, Increasing, NoneNewer, Entered

(* The other steps touch neither the codec nor the table. *)
LEMMA OtherStepsKeepInv ==
  ASSUME EncoderInv, UNCHANGED <<backend, last, table, codec, submitted, sent>>,
         output' \in {output, <<>>}, cancelled' \in BOOLEAN, failed' \in BOOLEAN,
         loop' \in {"popping", "encoding", "flushing", "draining", "done"}
  PROVE  EncoderInv'
<1>1. Named(output') /\ output' \in Seq(Packets)
  <2>1. Named(output) /\ output \in Seq(Packets)
    BY DEF EncoderInv, TypeOK
  <2>2. CASE output' = output
    BY <2>1, <2>2
  <2>3. CASE output' = <<>>
    BY <2>3 DEF Named
  <2>4. QED
    BY <2>2, <2>3
<1>2. TypeOK'
  BY <1>1 DEF EncoderInv, TypeOK
<1>3. QED
  BY <1>1, <1>2 DEF EncoderInv, Named, FrameOf, Increasing, NoneNewer, Entered

-----------------------------------------------------------------------------

(* The inductive invariant holds of both encoders in every execution. *)
THEOREM EncoderSafe == EncoderAssumption => (Spec => []EncoderInv)
<1> SUFFICES ASSUME EncoderAssumption PROVE Spec => []EncoderInv
  OBVIOUS
<1>1. Init => EncoderInv
  <2> SUFFICES ASSUME Init PROVE EncoderInv
    OBVIOUS
  <2>1. /\ codec = <<>> /\ output = <<>> /\ submitted = <<>> /\ sent = <<>> /\ last = 0
        /\ table \in [Times -> Times \cup {None}]
    BY DEF Init
  <2>2. last \in 0 .. MaxFrames
    BY <2>1 DEF EncoderAssumption
  <2>3. /\ codec \in Seq(Times) /\ sent \in Seq(Times)
        /\ output \in Seq(Packets) /\ submitted \in Seq(Packets)
    BY <2>1
  <2>4. TypeOK
    BY <2>1, <2>2, <2>3 DEF Init, TypeOK
  <2>5. QED
    BY <2>1, <2>4 DEF EncoderInv, Named, Increasing, NoneNewer, Entered
<1>2. EncoderInv /\ [Next]_encoderVars => EncoderInv'
  <2> SUFFICES ASSUME EncoderInv, [Next]_encoderVars PROVE EncoderInv'
    OBVIOUS
  <2>1. ASSUME NEW t \in Times, Send(t) \/ SendFails(t) PROVE EncoderInv'
    BY <2>1, SendKeepsInv, SendFailsKeepsInv
  <2>2. CASE Receive \/ ReceiveFails
    BY <2>2, ReceiveKeepsInv, ReceiveFailsKeepsInv
  <2>3. CASE EncodeReturns \/ FlushReturns
    BY <2>3, ReturnKeepsInv DEF EncodeReturns, FlushReturns, FlushReturnsWhen
  <2>4. CASE QueueEnds \/ Cancel \/ SendEndOfStream \/ FlushFails
    BY <2>4, OtherStepsKeepInv
    DEF QueueEnds, Cancel, SendEndOfStream, FlushFails, EncoderInv, TypeOK
  <2>5. CASE UNCHANGED encoderVars
    BY <2>5, OtherStepsKeepInv DEF encoderVars, EncoderInv, TypeOK
  <2>6. CASE Rest
    BY <2>5, <2>6 DEF Rest
  <2>7. QED
    BY <2>1, <2>2, <2>3, <2>4, <2>5, <2>6 DEF Next
<1>3. QED
  BY <1>1, <1>2, PTL DEF Spec

(* Every packet of either encoder names the frame it was made of, for every
   delay of the codec and whichever calls failed before. *)
THEOREM PacketsNameFrames == EncoderAssumption => (Spec => []PacketsCarryTheirFrame)
<1> SUFFICES ASSUME EncoderAssumption PROVE Spec => []PacketsCarryTheirFrame
  OBVIOUS
<1>1. EncoderInv => PacketsCarryTheirFrame
  BY InvNamesFrames
<1>2. QED
  BY <1>1, EncoderSafe, PTL

-----------------------------------------------------------------------------
(* A drain delivers every frame *)

Pts(s) == [k \in DOMAIN s |-> s[k].pts]

(* What the codec took is submitted, received or still in the codec, in this
   order; between two calls nothing is held back, and a loop that ended well has
   emptied the codec. *)
DrainInv ==
  /\ ~failed => Pts(Made) \o codec = sent
  /\ loop = "popping" => output = <<>>
  /\ loop = "done" /\ ~failed /\ ~cancelled => output = <<>> /\ codec = <<>>

(* The times of a list of packets are a list of times. *)
LEMMA PtsIsSeq ==
  ASSUME NEW s \in Seq(Packets)
  PROVE  /\ Pts(s) \in Seq(Times) /\ Len(Pts(s)) = Len(s)
         /\ \A k \in 1 .. Len(s) : Pts(s)[k] = s[k].pts
<1>1. /\ DOMAIN s = 1 .. Len(s) /\ Len(s) \in Nat
      /\ \A k \in 1 .. Len(s) : s[k] \in Packets
  OBVIOUS
<1>2. \A q \in Packets : q.pts \in Times
  BY DEF Packets
<1>3. Pts(s) = [k \in 1 .. Len(s) |-> s[k].pts]
  BY <1>1 DEF Pts
<1>4. \A k \in 1 .. Len(s) : s[k].pts \in Times
  BY <1>1, <1>2
<1>5. Pts(s) \in Seq(Times)
  BY <1>1, <1>3, <1>4
<1>6. DOMAIN Pts(s) = 1 .. Len(s)
  BY <1>3
<1>7. QED
  BY <1>1, <1>3, <1>5, <1>6, LenProperties

(* The times of one more packet. *)
LEMMA PtsAppend ==
  ASSUME NEW s \in Seq(Packets), NEW p \in Packets
  PROVE  Pts(Append(s, p)) = Append(Pts(s), p.pts) /\ Pts(s) \in Seq(Times)
<1>1. /\ DOMAIN s = 1 .. Len(s) /\ Len(s) \in Nat
      /\ \A k \in 1 .. Len(s) : s[k] \in Packets
  OBVIOUS
<1>2. Pts(s) \in Seq(Times) /\ Len(Pts(s)) = Len(s)
  BY PtsIsSeq
<1>3. p.pts \in Times
  BY DEF Packets
<1>4. /\ Append(Pts(s), p.pts) \in Seq(Times)
      /\ Len(Append(Pts(s), p.pts)) = Len(s) + 1
      /\ \A k \in 1 .. Len(s) : Append(Pts(s), p.pts)[k] = s[k].pts
      /\ Append(Pts(s), p.pts)[Len(s) + 1] = p.pts
  <2>1. \A k \in 1 .. Len(s) : Pts(s)[k] = s[k].pts
    BY <1>1 DEF Pts
  <2>2. QED
    BY <1>1, <1>2, <1>3, <2>1, AppendProperties
<1>5. /\ Append(s, p) \in Seq(Packets)
      /\ Len(Append(s, p)) = Len(s) + 1
      /\ DOMAIN Append(s, p) = 1 .. Len(s) + 1
      /\ \A k \in 1 .. Len(s) : Append(s, p)[k] = s[k]
      /\ Append(s, p)[Len(s) + 1] = p
  BY <1>1, AppendProperties
<1>6. Pts(Append(s, p)) \in Seq(Times) /\ Len(Pts(Append(s, p))) = Len(s) + 1
  BY <1>5, PtsIsSeq
<1>7. \A k \in 1 .. Len(s) + 1 : Pts(Append(s, p))[k] = Append(Pts(s), p.pts)[k]
  <2> SUFFICES ASSUME NEW k \in 1 .. Len(s) + 1
               PROVE  Pts(Append(s, p))[k] = Append(Pts(s), p.pts)[k]
    OBVIOUS
  <2>1. Pts(Append(s, p))[k] = Append(s, p)[k].pts
    BY <1>5 DEF Pts
  <2>2. CASE k = Len(s) + 1
    BY <1>4, <1>5, <2>1, <2>2
  <2>3. CASE k # Len(s) + 1
    <3>1. k \in 1 .. Len(s)
      BY <1>1, <2>3
    <3>2. QED
      BY <1>4, <1>5, <2>1, <3>1
  <2>4. QED
    BY <2>2, <2>3
<1>8. QED
  BY <1>2, <1>4, <1>6, <1>7, SeqEqual

(* A packet moves the time at the head of the codec behind those received. *)
LEMMA ReceiveMovesHead ==
  ASSUME NEW s \in Seq(Packets), NEW u \in Seq(Packets), NEW p \in Packets,
         NEW c \in Seq(Times), c # <<>>, p.pts = Head(c)
  PROVE  Pts(s \o Append(u, p)) \o Tail(c) = Pts(s \o u) \o c
<1>1. s \o Append(u, p) = Append(s \o u, p)
  <2>1. Append(u, p) = u \o <<p>> /\ Append(s \o u, p) = (s \o u) \o <<p>>
    BY AppendIsConcat, ConcatProperties
  <2>2. <<p>> \in Seq(Packets)
    OBVIOUS
  <2>3. QED
    BY <2>1, <2>2, ConcatAssociative
<1>2. s \o u \in Seq(Packets)
  BY ConcatProperties
<1>3. Pts(s \o Append(u, p)) = Append(Pts(s \o u), Head(c)) /\ Pts(s \o u) \in Seq(Times)
  BY <1>1, <1>2, PtsAppend
<1>4. Head(c) \in Times /\ Tail(c) \in Seq(Times) /\ c = <<Head(c)>> \o Tail(c)
  BY HeadTailProperties, HeadTailAppend, AppendIsConcat
<1>5. Append(Pts(s \o u), Head(c)) = Pts(s \o u) \o <<Head(c)>>
  BY <1>3, <1>4, AppendIsConcat
<1>6. <<Head(c)>> \in Seq(Times)
  BY <1>4
<1>7. QED
  BY <1>3, <1>4, <1>5, <1>6, ConcatAssociative

(* Whatever the codec, the loop and the stop token do next, nothing leaves this
   order. *)
LEMMA StepKeepsDrainInv ==
  ASSUME EncoderAssumption, EncoderInv, DrainInv, [Next]_encoderVars
  PROVE  DrainInv'
<1>1. /\ submitted \in Seq(Packets) /\ output \in Seq(Packets)
      /\ codec \in Seq(Times) /\ sent \in Seq(Times)
      /\ failed \in BOOLEAN /\ cancelled \in BOOLEAN
  BY DEF EncoderInv, TypeOK
<1>2. ASSUME NEW t \in Times, Send(t)
      PROVE  DrainInv'
  <2>1. /\ codec' = Append(codec, t) /\ sent' = Append(sent, t) /\ loop' = "encoding"
        /\ UNCHANGED <<output, submitted, failed>>
    BY <1>2 DEF Send
  <2>2. Pts(Made) \in Seq(Times)
    <3>1. Made \in Seq(Packets)
      BY <1>1, ConcatProperties DEF Made
    <3>2. QED
      BY <3>1, PtsIsSeq
  <2>3. Pts(Made) \o Append(codec, t) = Append(Pts(Made) \o codec, t)
    <3>1. Append(codec, t) = codec \o <<t>> /\ <<t>> \in Seq(Times)
      BY <1>1, AppendIsConcat
    <3>2. Append(Pts(Made) \o codec, t) = (Pts(Made) \o codec) \o <<t>>
      BY <1>1, <2>2, AppendIsConcat, ConcatProperties
    <3>3. QED
      BY <1>1, <2>2, <3>1, <3>2, ConcatAssociative
  <2>4. Made' = Made
    BY <2>1 DEF Made
  <2>5. QED
    BY <2>1, <2>3, <2>4 DEF DrainInv, Pts
<1>3. ASSUME Receive
      PROVE  DrainInv'
  <2> DEFINE p == [pts |-> Head(codec), sequence |-> SequenceForPts(Head(codec))]
  <2>1. /\ codec # <<>> /\ codec' = Tail(codec) /\ output' = Append(output, p)
        /\ loop \in {"encoding", "draining"}
        /\ UNCHANGED <<loop, cancelled, submitted, sent, failed>>
    BY <1>3 DEF Receive
  <2>2. output' \in Seq(Packets)
    BY <1>3, ReceiveKeepsInv DEF EncoderInv, TypeOK
  <2>3. p \in Packets
    <3>1. output'[Len(output) + 1] = p /\ Len(output) + 1 \in DOMAIN output'
      BY <1>1, <2>1, AppendProperties
    <3>2. QED
      BY <2>2, <3>1, ElementOfSeq
  <2>4. Pts(submitted \o output') \o codec' = Pts(submitted \o output) \o codec
    <3>1. p.pts = Head(codec)
      OBVIOUS
    <3> HIDE DEF p
    <3>2. QED
      BY <1>1, <2>1, <2>3, <3>1, ReceiveMovesHead
  <2>5. QED
    BY <2>1, <2>4 DEF DrainInv, Made, Pts
<1>4. ASSUME EncodeReturns \/ FlushReturns
      PROVE  DrainInv'
  <2>1. /\ submitted' = submitted \o output /\ output' = <<>>
        /\ UNCHANGED <<cancelled, codec, sent, failed>>
        /\ loop' = "done" => codec = <<>>
    BY <1>4 DEF EncodeReturns, FlushReturns, FlushReturnsWhen
  <2>2. Made' = Made
    <3>1. submitted \o output \in Seq(Packets)
      BY <1>1, ConcatProperties
    <3>2. QED
      BY <2>1, <3>1, ConcatEmptySeq DEF Made
  <2>3. QED
    BY <2>1, <2>2 DEF DrainInv, Pts
<1>5. ASSUME \/ ReceiveFails \/ FlushFails
             \/ \E t \in Times : SendFails(t)
      PROVE  DrainInv'
  BY <1>5 DEF ReceiveFails, FlushFails, SendFails, Fail, DrainInv
<1>6. ASSUME QueueEnds \/ Cancel \/ SendEndOfStream
      PROVE  DrainInv'
  <2>1. UNCHANGED <<codec, output, submitted, sent, failed>> /\ Made' = Made
    BY <1>6 DEF QueueEnds, Cancel, SendEndOfStream, Made
  <2>2. QED
    BY <1>6, <2>1 DEF QueueEnds, Cancel, SendEndOfStream, DrainInv, Pts
<1>7. CASE UNCHANGED encoderVars
  BY <1>7 DEF encoderVars, DrainInv, Made, Pts
<1>8. QED
  BY <1>2, <1>3, <1>4, <1>5, <1>6, <1>7 DEF Next, Rest

(* A drain that reports no error has submitted one packet for each frame the
   codec took, in that order, however long the codec holds frames back. *)
THEOREM DrainLosesNothing == EncoderAssumption => (Spec => []DrainDeliversFrames)
<1> SUFFICES ASSUME EncoderAssumption PROVE Spec => []DrainDeliversFrames
  OBVIOUS
<1>1. Init => DrainInv
  BY DEF Init, DrainInv, Made, Pts
<1>2. EncoderInv /\ DrainInv /\ [Next]_encoderVars => DrainInv'
  BY StepKeepsDrainInv
<1>3. EncoderInv /\ DrainInv => DrainDeliversFrames
  <2> SUFFICES ASSUME EncoderInv, DrainInv, loop = "done", ~cancelled, ~failed
               PROVE  Pts(submitted) = sent
    BY DEF DrainDeliversFrames, Pts
  <2>1. submitted \in Seq(Packets)
    BY DEF EncoderInv, TypeOK
  <2>2. Made = submitted
    BY <2>1, ConcatEmptySeq DEF DrainInv, Made
  <2>3. Pts(submitted) \in Seq(Times)
    BY <2>1, PtsIsSeq
  <2>4. QED
    BY <2>2, <2>3, ConcatEmptySeq DEF DrainInv
<1>4. QED
  BY <1>1, <1>2, <1>3, EncoderSafe, PTL DEF Spec

=============================================================================

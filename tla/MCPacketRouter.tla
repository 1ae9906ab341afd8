--------------------------- MODULE MCPacketRouter ---------------------------
(* Instances of PacketRouter for TLC: two sinks of chosen kinds, one or two
   encoder threads. *)
EXTENDS PacketRouter

CONSTANTS video, audio

OneEncoder == {video}
BothEncoders == {video, audio}
First == {1}
BothSinks == {1, 2}
BothModes == {"drain", "abort"}
OnlyDrain == {"drain"}

TwoPackets == [e \in Encoders |-> 2]
ThreePackets == [e \in Encoders |-> 3]
TwoAndOne == [e \in Encoders |-> IF e = video THEN 2 ELSE 1]

SmallQueues == [s \in Sinks |-> 1]
UnevenQueues == [s \in Sinks |-> s]

Setting(required, policy, reconnects) ==
  [required |-> required, policy |-> policy, reconnects |-> reconnects]

(* A recording that blocks its producer beside a preview that drops. *)
RecordAndPreview ==
  <<Setting(TRUE, "block_producer", FALSE), Setting(FALSE, "drop_oldest", FALSE)>>

(* Two outputs that both have to work, and overflow in different ways. *)
BothRequired ==
  <<Setting(TRUE, "drop_newest", FALSE), Setting(TRUE, "keep_latest", FALSE)>>

(* A recording beside a stream that reconnects. *)
RecordAndStream ==
  <<Setting(TRUE, "block_producer", FALSE), Setting(FALSE, "drop_oldest", TRUE)>>

OneConfig == {RecordAndPreview}
AllConfigs == {RecordAndPreview, BothRequired, RecordAndStream}

=============================================================================

-------------------------- MODULE V4l2CaptureProofs --------------------------
(***************************************************************************)
(* Theorems about V4l2Capture, for every number of buffers and frames.     *)
(***************************************************************************)
EXTENDS V4l2Capture, SequenceTheorems, FiniteSetTheorems, TLAPS

Distinct(s) == \A i, j \in DOMAIN s : s[i] = s[j] => i = j

(* What a buffer appended to a list that lacks it changes. *)
LEMMA AppendPlaces ==
  ASSUME NEW B, NEW s \in Seq(B), NEW b \in B, Distinct(s), b \notin Set(s)
  PROVE  /\ Append(s, b) \in Seq(B) /\ Distinct(Append(s, b))
         /\ Set(Append(s, b)) = Set(s) \cup {b}
         /\ Len(Append(s, b)) = Len(s) + 1
<1> DEFINE a == Append(s, b)
<1>1. /\ a \in Seq(B) /\ Len(a) = Len(s) + 1 /\ Len(s) \in Nat
      /\ DOMAIN s = 1 .. Len(s) /\ DOMAIN a = 1 .. Len(s) + 1
      /\ \A i \in 1 .. Len(s) : a[i] = s[i]
      /\ a[Len(s) + 1] = b
  BY AppendProperties
<1>2. \A i \in 1 .. Len(s) : s[i] # b
  BY <1>1 DEF Set
<1>3. Distinct(a)
  <2> SUFFICES ASSUME NEW i \in DOMAIN a, NEW j \in DOMAIN a, a[i] = a[j] PROVE i = j
    BY DEF Distinct
  <2> HIDE DEF a
  <2>1. CASE i \in 1 .. Len(s) /\ j \in 1 .. Len(s)
    BY <1>1, <2>1 DEF Distinct
  <2>2. CASE i = Len(s) + 1 \/ j = Len(s) + 1
    BY <1>1, <1>2, <2>2
  <2>3. QED
    BY <1>1, <2>1, <2>2
<1>4. Set(a) = Set(s) \cup {b}
  <2> HIDE DEF a
  <2>1. ASSUME NEW i \in DOMAIN a PROVE a[i] \in Set(s) \cup {b}
    BY <1>1, <2>1 DEF Set
  <2>2. ASSUME NEW x \in Set(s) PROVE x \in Set(a)
    <3>1. PICK i \in DOMAIN s : s[i] = x
      BY DEF Set
    <3>2. i \in DOMAIN a /\ a[i] = x
      BY <1>1, <3>1
    <3>3. QED
      BY <3>2 DEF Set
  <2>3. b \in Set(a)
    BY <1>1 DEF Set
  <2>4. Set(a) \subseteq Set(s) \cup {b}
    BY <2>1 DEF Set
  <2>5. QED
    BY <2>2, <2>3, <2>4
<1>5. QED
  BY <1>1, <1>3, <1>4

(* What the first buffer taken off a list changes. *)
LEMMA TailPlaces ==
  ASSUME NEW B, NEW s \in Seq(B), s # <<>>, Distinct(s)
  PROVE  /\ Tail(s) \in Seq(B) /\ Distinct(Tail(s))
         /\ Head(s) \in B /\ Head(s) \notin Set(Tail(s))
         /\ Set(s) = Set(Tail(s)) \cup {Head(s)}
         /\ Len(Tail(s)) = Len(s) - 1
<1> DEFINE u == Tail(s)
<1>1. /\ u \in Seq(B) /\ Len(u) = Len(s) - 1 /\ Len(s) \in Nat \ {0}
      /\ DOMAIN s = 1 .. Len(s) /\ DOMAIN u = 1 .. Len(s) - 1
      /\ \A i \in 1 .. Len(s) - 1 : u[i] = s[i + 1]
      /\ Head(s) = s[1] /\ s[1] \in B
  BY EmptySeq, HeadTailProperties
<1> HIDE DEF u
<1>2. Distinct(u)
  <2> SUFFICES ASSUME NEW i \in DOMAIN u, NEW j \in DOMAIN u, u[i] = u[j] PROVE i = j
    BY DEF Distinct
  <2>1. i + 1 \in DOMAIN s /\ j + 1 \in DOMAIN s /\ s[i + 1] = s[j + 1]
    BY <1>1
  <2>2. i + 1 = j + 1
    BY <2>1 DEF Distinct
  <2>3. QED
    BY <1>1, <2>2
<1>3. Head(s) \notin Set(u)
  <2> SUFFICES ASSUME NEW i \in DOMAIN u, u[i] = Head(s) PROVE FALSE
    BY DEF Set
  <2>1. i + 1 \in DOMAIN s /\ 1 \in DOMAIN s /\ s[i + 1] = s[1]
    BY <1>1
  <2>2. i + 1 = 1
    BY <2>1 DEF Distinct
  <2>3. QED
    BY <1>1, <2>2
<1>4. Set(s) = Set(u) \cup {Head(s)}
  <2>1. ASSUME NEW i \in DOMAIN s PROVE s[i] \in Set(u) \cup {Head(s)}
    <3>1. CASE i = 1
      BY <1>1, <3>1
    <3>2. CASE i # 1
      <4>1. i - 1 \in DOMAIN u /\ u[i - 1] = s[i]
        BY <1>1, <3>2
      <4>2. QED
        BY <4>1 DEF Set
    <3>3. QED
      BY <3>1, <3>2
  <2>2. ASSUME NEW i \in DOMAIN u PROVE u[i] \in Set(s)
    <3>1. i + 1 \in DOMAIN s /\ u[i] = s[i + 1]
      BY <1>1
    <3>2. QED
      BY <3>1 DEF Set
  <2>3. Head(s) \in Set(s)
    BY <1>1 DEF Set
  <2>4. Set(s) \subseteq Set(u) \cup {Head(s)}
    BY <2>1 DEF Set
  <2>5. Set(u) \subseteq Set(s)
    BY <2>2 DEF Set
  <2>6. QED
    BY <2>3, <2>4, <2>5
<1>5. QED
  BY <1>1, <1>2, <1>3, <1>4 DEF u


-----------------------------------------------------------------------------
(* The inductive invariant.  The buffers that are queued, filled, read and lost
   are apart, so one that moves leaves exactly one of these places. *)
Running == {"idle", "polling", "copying", "requeueing"}

Stages ==
  /\ streaming <=> call \in Running
  /\ held # 0 <=> call \in {"copying", "requeueing"}
  /\ ~streaming => outgoing = <<>> /\ lost = {}
  /\ call \in {"closed", "negotiating", "mapping"} => incoming = <<>>
  /\ call \in {"closed", "negotiating"} => mapped = {}
  /\ call = "mapping" => \E n \in 0 .. granted - 1 : mapped = 1 .. n
  /\ call = "queueing" => Len(incoming) < granted
  /\ call = "starting" => Len(incoming) = granted
  /\ call \in {"queueing", "starting"} => \A i \in DOMAIN incoming : incoming[i] = i

Apart ==
  /\ IsFiniteSet(lost)
  /\ Distinct(incoming) /\ Distinct(outgoing)
  /\ Set(incoming) \cap Set(outgoing) = {}
  /\ (Held \cup lost) \cap (Set(incoming) \cup Set(outgoing)) = {}
  /\ held \notin lost

V4l2Inv == TypeOK /\ Stages /\ Apart /\ BuffersAreConserved

(* The contents of the filled buffers grow from the last frame delivered on. *)
Ordered ==
  /\ delivered <= produced
  /\ \A i \in DOMAIN outgoing : content[outgoing[i]] \in delivered + 1 .. produced
  /\ \A i \in DOMAIN outgoing : \A j \in 1 .. i - 1 :
       content[outgoing[j]] < content[outgoing[i]]
  /\ held # 0 =>
       /\ content[held] \in delivered + 1 .. produced
       /\ \A i \in DOMAIN outgoing : content[held] < content[outgoing[i]]
  /\ call = "requeueing" => copy = content[held]

(* The buffer the program holds is one buffer, or none. *)
LEMMA OneOrNone ==
  ASSUME NEW h
  PROVE  Cardinality({h} \ {0}) = IF h = 0 THEN 0 ELSE 1
<1>1. CASE h = 0
  <2>1. {h} \ {0} = {}
    BY <1>1
  <2>2. QED
    BY <1>1, <2>1, FS_EmptySet
<1>2. CASE h # 0
  <2>1. {h} \ {0} = {h}
    BY <1>2
  <2>2. QED
    BY <1>2, <2>1, FS_Singleton
<1>3. QED
  BY <1>1, <1>2

(* Steps that move no buffer keep the buffers apart. *)
LEMMA PlacesKept ==
  ASSUME V4l2Inv, UNCHANGED <<incoming, outgoing, held, lost>>,
         streaming' => streaming /\ UNCHANGED granted
  PROVE  Apart' /\ BuffersAreConserved'
<1>1. Set(incoming)' = Set(incoming) /\ Set(outgoing)' = Set(outgoing) /\ Held' = Held
  BY DEF Set, Held
<1>2. Distinct(incoming)' = Distinct(incoming) /\ Distinct(outgoing)' = Distinct(outgoing)
  BY DEF Distinct
<1>3. Apart'
  BY <1>1, <1>2 DEF V4l2Inv, Apart
<1>4. BuffersAreConserved'
  BY <1>1 DEF V4l2Inv, BuffersAreConserved
<1>5. QED
  BY <1>3, <1>4

(* A camera that fills a buffer moves it from the queued to the filled. *)
LEMMA ProduceKeepsInv ==
  ASSUME V4l2Assumption, V4l2Inv, Produce
  PROVE  V4l2Inv'
<1>1. /\ produced' = produced + 1 /\ produced < MaxFrames
      /\ produced \in Nat /\ MaxFrames \in Nat /\ streaming
      /\ UNCHANGED <<call, fd, mapped, streaming, granted, held, copy, delivered, lost>>
      /\ incoming \in Seq(Buffers) /\ outgoing \in Seq(Buffers)
      /\ Distinct(incoming) /\ Distinct(outgoing)
      /\ call \in Running
  BY DEF Produce, V4l2Inv, TypeOK, Apart, Stages, V4l2Assumption, resourceVars, readVars
<1>2. produced' \in 0 .. MaxFrames
  BY <1>1
<1>3. CASE incoming = <<>>
  <2>1. UNCHANGED <<incoming, outgoing, content>>
    BY <1>3 DEF Produce
  <2>2. TypeOK'
    BY <1>1, <1>2, <2>1 DEF V4l2Inv, TypeOK
  <2>3. Stages'
    BY <1>1, <2>1 DEF V4l2Inv, Stages
  <2>4. Apart' /\ BuffersAreConserved'
    BY <1>1, <2>1, PlacesKept
  <2>5. QED
    BY <2>2, <2>3, <2>4 DEF V4l2Inv
<1>4. CASE incoming # <<>>
  <2> DEFINE b == Head(incoming)
  <2>1. /\ incoming' = Tail(incoming) /\ outgoing' = Append(outgoing, b)
        /\ content' = [content EXCEPT ![b] = produced + 1]
    BY <1>4 DEF Produce
  <2>2. /\ incoming' \in Seq(Buffers) /\ Distinct(incoming') /\ b \in Buffers
        /\ b \notin Set(incoming') /\ Set(incoming) = Set(incoming') \cup {b}
        /\ Len(incoming') = Len(incoming) - 1
    BY <1>1, <1>4, <2>1, TailPlaces
  <2>3. b \notin Set(outgoing)
    BY <2>2 DEF V4l2Inv, Apart
  <2>4. /\ outgoing' \in Seq(Buffers) /\ Distinct(outgoing')
        /\ Set(outgoing') = Set(outgoing) \cup {b}
        /\ Len(outgoing') = Len(outgoing) + 1
    BY <1>1, <2>1, <2>2, <2>3, AppendPlaces
  <2>5. TypeOK'
    <3>1. content' \in [Buffers -> 0 .. MaxFrames]
      BY <1>1, <1>2, <2>1, <2>2 DEF V4l2Inv, TypeOK
    <3>2. QED
      BY <1>1, <1>2, <2>2, <2>4, <3>1 DEF V4l2Inv, TypeOK
  <2>6. Stages'
    BY <1>1 DEF V4l2Inv, Stages, Running
  <2>7. Apart'
    <3>1. Held' = Held
      BY <1>1 DEF Held
    <3>2. /\ Set(incoming') \cap Set(outgoing') = {}
          /\ Set(incoming') \cup Set(outgoing') = Set(incoming) \cup Set(outgoing)
      BY <2>2, <2>3, <2>4 DEF V4l2Inv, Apart
    <3>3. QED
      BY <1>1, <2>2, <2>4, <3>1, <3>2 DEF V4l2Inv, Apart, Set, Distinct
  <2>8. BuffersAreConserved'
    <3>1. Held' = Held
      BY <1>1 DEF Held
    <3>2. Set(incoming') \cup Set(outgoing') = Set(incoming) \cup Set(outgoing)
      BY <2>2, <2>4
    <3>3. Len(incoming') + Len(outgoing') = Len(incoming) + Len(outgoing)
      BY <1>1, <2>2, <2>4
    <3>4. QED
      BY <1>1, <3>1, <3>2, <3>3 DEF V4l2Inv, BuffersAreConserved, Set
  <2>9. QED
    BY <2>5, <2>6, <2>7, <2>8 DEF V4l2Inv
<1>5. QED
  BY <1>3, <1>4


(* The steps of Open that only acquire. *)
LEMMA AcquiringKeepsInv ==
  ASSUME V4l2Assumption, V4l2Inv, OpenDevice \/ Negotiate \/ MapBuffer
  PROVE  V4l2Inv'
<1>1. /\ UNCHANGED <<streaming, incoming, outgoing, content, produced, held, copy,
                     delivered, lost>>
      /\ call \in Opening \cup {"closed"} /\ ~streaming /\ held = 0
  BY DEF OpenDevice, Negotiate, MapBuffer, driverVars, readVars, V4l2Inv, Stages, Opening, Running
<1>2. Apart' /\ BuffersAreConserved'
  BY <1>1, PlacesKept
<1>3. Requested \in Nat /\ granted \in 0 .. Requested /\ Buffers = 1 .. Requested
  BY DEF V4l2Assumption, V4l2Inv, TypeOK, Buffers
<1>4. CASE OpenDevice
  <2>1. /\ call = "closed" /\ call' = "negotiating" /\ fd' = TRUE
        /\ UNCHANGED <<mapped, granted>>
    BY <1>4 DEF OpenDevice
  <2>2. TypeOK'
    BY <1>1, <2>1 DEF V4l2Inv, TypeOK, Opening
  <2>3. Stages'
    BY <1>1, <2>1 DEF V4l2Inv, Stages, Running
  <2>4. QED
    BY <1>2, <2>2, <2>3 DEF V4l2Inv
<1>5. CASE Negotiate
  <2>1. /\ call = "negotiating" /\ call' = "mapping" /\ granted' \in 2 .. Requested
        /\ UNCHANGED <<fd, mapped>>
    BY <1>5 DEF Negotiate
  <2>2. TypeOK'
    BY <1>1, <1>3, <2>1 DEF V4l2Inv, TypeOK, Opening
  <2>3. \E n \in 0 .. granted' - 1 : mapped' = 1 .. n
    <3>1. 0 \in 0 .. granted' - 1
      <4>1. \A m \in 2 .. Requested : 0 \in 0 .. m - 1
        BY <1>3
      <4>2. QED
        BY <2>1, <4>1
    <3>2. mapped' = {}
      BY <2>1 DEF V4l2Inv, Stages
    <3>3. 1 .. 0 = {}
      OBVIOUS
    <3>4. QED
      BY <3>1, <3>2, <3>3
  <2>4. Stages'
    BY <1>1, <2>1, <2>3 DEF V4l2Inv, Stages, Running
  <2>5. QED
    BY <1>2, <2>2, <2>4 DEF V4l2Inv
<1>6. CASE MapBuffer
  <2> DEFINE next == Cardinality(mapped) + 1
  <2>1. /\ call = "mapping" /\ mapped' = mapped \cup {next}
        /\ call' = IF next = granted THEN "queueing" ELSE call
        /\ UNCHANGED <<fd, granted>>
    BY <1>6 DEF MapBuffer
  <2>2. PICK n \in 0 .. granted - 1 : mapped = 1 .. n
    BY <2>1 DEF V4l2Inv, Stages
  <2>3. next = n + 1
    <3>1. n \in Nat
      BY <1>3
    <3>2. Cardinality(1 .. n) = n
      BY <3>1, FS_Interval
    <3>3. QED
      BY <2>2, <3>2
  <2>4. mapped' = 1 .. n + 1
    BY <1>3, <2>1, <2>2, <2>3
  <2>5. TypeOK'
    <3>1. mapped' \subseteq Buffers
      BY <1>3, <2>2, <2>4
    <3>2. QED
      BY <1>1, <2>1, <3>1 DEF V4l2Inv, TypeOK, Opening
  <2>6. call' = "mapping" => n + 1 \in 0 .. granted' - 1
    BY <1>3, <2>1, <2>2, <2>3
  <2>7. call' = "queueing" => Len(incoming') < granted'
    BY <1>1, <1>3, <2>1, <2>2 DEF V4l2Inv, Stages
  <2>8. \A i \in DOMAIN incoming' : incoming'[i] = i
    BY <1>1, <2>1 DEF V4l2Inv, Stages
  <2>9. Stages'
    BY <1>1, <2>1, <2>4, <2>6, <2>7, <2>8 DEF V4l2Inv, Stages, Running
  <2>10. QED
    BY <1>2, <2>5, <2>9 DEF V4l2Inv
<1>7. QED
  BY <1>4, <1>5, <1>6

(* Open queues the buffers by their numbers. *)
LEMMA QueueBufferKeepsInv ==
  ASSUME V4l2Assumption, V4l2Inv, QueueBuffer
  PROVE  V4l2Inv'
<1> DEFINE next == Len(incoming) + 1
<1>1. /\ UNCHANGED <<fd, mapped, streaming, granted, outgoing, content, produced, held, copy,
                     delivered, lost>>
      /\ call = "queueing" /\ ~streaming /\ held = 0 /\ lost = {} /\ outgoing = <<>>
      /\ incoming' = Append(incoming, next)
      /\ call' = IF next = granted THEN "starting" ELSE call
  BY DEF QueueBuffer, resourceVars, readVars, V4l2Inv, Stages, Running
<1>2. /\ Requested \in Nat /\ granted \in 0 .. Requested /\ Buffers = 1 .. Requested
      /\ incoming \in Seq(Buffers) /\ Distinct(incoming)
      /\ Len(incoming) \in Nat /\ DOMAIN incoming = 1 .. Len(incoming)
  BY DEF V4l2Assumption, V4l2Inv, TypeOK, Buffers, Apart
<1>3. Len(incoming) < granted /\ \A i \in DOMAIN incoming : incoming[i] = i
  BY <1>1 DEF V4l2Inv, Stages
<1>4. next \in Buffers /\ next \notin Set(incoming)
  BY <1>2, <1>3 DEF Set
<1>5. /\ incoming' \in Seq(Buffers) /\ Distinct(incoming')
      /\ Len(incoming') = Len(incoming) + 1
  BY <1>1, <1>2, <1>4, AppendPlaces
<1>6. TypeOK'
  BY <1>1, <1>5 DEF V4l2Inv, TypeOK, Opening
<1>7. Stages'
  <2>1. \A i \in DOMAIN incoming' : incoming'[i] = i
    BY <1>1, <1>2, <1>3, <1>4
  <2>2. call' = "queueing" => Len(incoming') < granted'
    BY <1>1, <1>2, <1>3, <1>5
  <2>3. call' = "starting" => Len(incoming') = granted'
    BY <1>1, <1>2, <1>3, <1>5
  <2>4. QED
    BY <1>1, <2>1, <2>2, <2>3 DEF V4l2Inv, Stages, Running
<1>8. Apart'
  <2>1. Held' = {} /\ lost' = {} /\ Set(outgoing)' = {}
    BY <1>1 DEF Held, Set
  <2>2. QED
    BY <1>1, <1>5, <2>1 DEF V4l2Inv, Apart, Set, Distinct
<1>9. BuffersAreConserved'
  BY <1>1 DEF BuffersAreConserved
<1>10. QED
  BY <1>6, <1>7, <1>8, <1>9 DEF V4l2Inv

(* The stream starts with every buffer queued. *)
LEMMA StreamOnKeepsInv ==
  ASSUME V4l2Assumption, V4l2Inv, StreamOn
  PROVE  V4l2Inv'
<1>1. /\ UNCHANGED <<fd, mapped, granted, incoming, outgoing, content, produced, held, copy,
                     delivered, lost>>
      /\ call = "starting" /\ ~streaming /\ held = 0 /\ lost = {} /\ outgoing = <<>>
      /\ call' = "idle" /\ streaming' = TRUE
  BY DEF StreamOn, driverVars, readVars, V4l2Inv, Stages, Running
<1>2. /\ incoming \in Seq(Buffers) /\ Len(incoming) = granted /\ granted \in Nat
      /\ DOMAIN incoming = 1 .. granted
      /\ \A i \in 1 .. granted : incoming[i] = i
  BY <1>1 DEF V4l2Inv, TypeOK, Stages
<1>3. Set(incoming) = 1 .. granted
  BY <1>2 DEF Set
<1>4. TypeOK'
  BY <1>1 DEF V4l2Inv, TypeOK
<1>5. Stages'
  BY <1>1 DEF V4l2Inv, Stages, Running
<1>6. Set(incoming)' = Set(incoming) /\ Set(outgoing)' = {} /\ Held' = {}
  BY <1>1 DEF Set, Held
<1>7. Apart'
  <2>1. Distinct(incoming)' /\ Distinct(outgoing)'
    BY <1>1 DEF V4l2Inv, Apart, Distinct
  <2>2. QED
    BY <1>1, <1>6, <2>1 DEF V4l2Inv, Apart
<1>8. BuffersAreConserved'
  <2>1. Cardinality(Held') = 0 /\ Cardinality(lost') = 0
    BY <1>1, <1>6, FS_EmptySet
  <2>2. Len(incoming') = granted /\ Len(outgoing') = 0
    BY <1>1, <1>2
  <2>3. QED
    BY <1>1, <1>2, <1>3, <1>6, <2>1, <2>2 DEF BuffersAreConserved
<1>9. QED
  BY <1>4, <1>5, <1>7, <1>8 DEF V4l2Inv

(* Close takes every buffer back, and a failed Open what it had queued. *)
LEMMA CloseKeepsInv ==
  ASSUME V4l2Assumption, V4l2Inv, CloseUnlocked
  PROVE  V4l2Inv'
<1>1. /\ streaming' = FALSE /\ mapped' = {} /\ fd' = FALSE
      /\ incoming' = <<>> /\ outgoing' = <<>> /\ lost' = {} /\ held' = 0
      /\ call' = "closed"
      /\ UNCHANGED <<granted, content, produced, copy, delivered>>
  BY DEF CloseUnlocked
<1>2. TypeOK'
  <2>1. held' \in 0 .. Requested /\ <<>> \in Seq(Buffers)
    BY <1>1 DEF V4l2Assumption
  <2>2. QED
    BY <1>1, <2>1 DEF V4l2Inv, TypeOK
<1>3. Stages'
  BY <1>1 DEF Stages, Running
<1>4. Apart'
  BY <1>1, FS_EmptySet DEF Apart, Held, Set, Distinct
<1>5. BuffersAreConserved'
  BY <1>1 DEF BuffersAreConserved
<1>6. QED
  BY <1>2, <1>3, <1>4, <1>5 DEF V4l2Inv


-----------------------------------------------------------------------------
(* Read *)

(* The steps of Read that move no buffer. *)
LEMMA CopyingKeepsInv ==
  ASSUME V4l2Inv, ReadBegins \/ ReadFails \/ CopyPayload
  PROVE  V4l2Inv'
<1>1. /\ UNCHANGED <<fd, mapped, streaming, granted, incoming, outgoing, content, produced, held,
                     delivered, lost>>
      /\ call \in Running /\ call' \in Running
      /\ held # 0 <=> call' \in {"copying", "requeueing"}
  BY DEF ReadBegins, ReadFails, CopyPayload, OnlyRead, resourceVars, driverVars, readVars,
         V4l2Inv, Stages, Running
<1>2. copy' \in 0 .. MaxFrames
  <2>1. CASE CopyPayload
    <3>1. held \in Buffers
      BY <2>1 DEF CopyPayload, V4l2Inv, TypeOK, Stages, Buffers, V4l2Assumption
    <3>2. QED
      BY <2>1, <3>1 DEF CopyPayload, V4l2Inv, TypeOK
  <2>2. CASE ~CopyPayload
    BY <2>2 DEF ReadBegins, ReadFails, readVars, V4l2Inv, TypeOK
  <2>3. QED
    BY <2>1, <2>2
<1>3. TypeOK'
  BY <1>1, <1>2 DEF V4l2Inv, TypeOK, Running
<1>4. Stages'
  BY <1>1 DEF V4l2Inv, Stages, Running
<1>5. QED
  BY <1>1, <1>3, <1>4, PlacesKept DEF V4l2Inv

(* Read takes the buffer that was filled first. *)
LEMMA DequeueKeepsInv ==
  ASSUME V4l2Assumption, V4l2Inv, Dequeue
  PROVE  V4l2Inv'
<1>1. /\ UNCHANGED <<fd, mapped, streaming, granted, incoming, content, produced, copy,
                     delivered, lost>>
      /\ call = "polling" /\ call' = "copying" /\ streaming /\ held = 0
      /\ outgoing # <<>> /\ outgoing' = Tail(outgoing) /\ held' = Head(outgoing)
  BY DEF Dequeue, DequeueInto, OnlyRead, resourceVars, V4l2Inv, Stages, Running
<1>2. outgoing \in Seq(Buffers) /\ Distinct(outgoing)
  BY DEF V4l2Inv, TypeOK, Apart
<1>3. /\ outgoing' \in Seq(Buffers) /\ Distinct(outgoing') /\ held' \in Buffers
      /\ held' \notin Set(outgoing') /\ Set(outgoing) = Set(outgoing') \cup {held'}
      /\ Len(outgoing') = Len(outgoing) - 1 /\ Len(outgoing) \in Nat
  BY <1>1, <1>2, TailPlaces
<1>4. held' \in 0 .. Requested /\ held' # 0
  BY <1>3 DEF V4l2Assumption, Buffers
<1>5. TypeOK'
  BY <1>1, <1>3, <1>4 DEF V4l2Inv, TypeOK
<1>6. Stages'
  BY <1>1, <1>4 DEF V4l2Inv, Stages, Running
<1>7. Held = {} /\ Held' = {held'} /\ Set(incoming)' = Set(incoming)
  BY <1>1, <1>4 DEF Held, Set
<1>8. Apart'
  <2>1. Distinct(incoming)' /\ Distinct(outgoing)'
    BY <1>1, <1>3 DEF V4l2Inv, Apart, Distinct
  <2>2. /\ Set(incoming)' \cap Set(outgoing') = {}
        /\ ({held'} \cup lost) \cap (Set(incoming) \cup Set(outgoing')) = {}
        /\ held' \notin lost
    BY <1>3, <1>7 DEF V4l2Inv, Apart
  <2>3. QED
    BY <1>1, <1>7, <2>1, <2>2 DEF V4l2Inv, Apart, Set
<1>9. BuffersAreConserved'
  <2>1. Cardinality(Held) = 0 /\ Cardinality(Held') = 1
    BY <1>7, FS_EmptySet, FS_Singleton
  <2>2. Set(incoming) \cup Set(outgoing') \cup Held' \cup lost = 1 .. granted
    BY <1>1, <1>3, <1>7 DEF V4l2Inv, BuffersAreConserved
  <2>3. Len(incoming) \in Nat /\ Cardinality(lost) \in Nat
    BY FS_CardinalityType DEF V4l2Inv, TypeOK, Apart
  <2>4. Len(incoming) + Len(outgoing') + Cardinality(Held') + Cardinality(lost) = granted
    BY <1>1, <1>3, <2>1, <2>3 DEF V4l2Inv, BuffersAreConserved
  <2>5. QED
    BY <1>1, <2>2, <2>4 DEF BuffersAreConserved, Set
<1>10. QED
  BY <1>5, <1>6, <1>8, <1>9 DEF V4l2Inv

(* Read ends: the buffer it held is queued again, or lost. *)
LEMMA GivingBackKeepsInv ==
  ASSUME V4l2Assumption, V4l2Inv,
         call \in {"copying", "requeueing"}, call' = "idle", held' = 0,
         GiveBackOrLose, delivered' \in 0 .. MaxFrames,
         UNCHANGED <<fd, mapped, streaming, granted, outgoing, content, produced, copy>>
  PROVE  V4l2Inv'
<1>1. /\ held \in Buffers /\ held # 0 /\ streaming
      /\ incoming \in Seq(Buffers) /\ Distinct(incoming) /\ Distinct(outgoing)
      /\ IsFiniteSet(lost) /\ held \notin lost
  BY DEF V4l2Inv, TypeOK, Stages, Apart, Running, V4l2Assumption, Buffers
<1>2. Held = {held} /\ Held' = {} /\ Set(outgoing)' = Set(outgoing)
  BY <1>1 DEF Held, Set
<1>3. /\ held \notin Set(incoming) /\ held \notin Set(outgoing)
  BY <1>2 DEF V4l2Inv, Apart
<1>4. Cardinality(Held) = 1 /\ Cardinality(Held') = 0
  BY <1>2, FS_EmptySet, FS_Singleton
<1>5. Len(incoming) \in Nat /\ Len(outgoing) \in Nat /\ Cardinality(lost) \in Nat
  BY <1>1, FS_CardinalityType DEF V4l2Inv, TypeOK
<1>6. Stages'
  BY <1>1 DEF V4l2Inv, Stages, Running
<1>7. CASE incoming' = Append(incoming, held) /\ UNCHANGED lost
  <2>1. /\ incoming' \in Seq(Buffers) /\ Distinct(incoming')
        /\ Set(incoming') = Set(incoming) \cup {held}
        /\ Len(incoming') = Len(incoming) + 1
    BY <1>1, <1>3, <1>7, AppendPlaces
  <2>2. TypeOK'
    BY <1>7, <2>1 DEF V4l2Inv, TypeOK, V4l2Assumption
  <2>3. Apart'
    <3>1. /\ Set(incoming') \cap Set(outgoing) = {}
          /\ lost \cap (Set(incoming') \cup Set(outgoing)) = {}
      BY <1>1, <1>2, <1>3, <2>1 DEF V4l2Inv, Apart
    <3>2. 0 \notin lost
      BY DEF V4l2Inv, TypeOK, Buffers, V4l2Assumption
    <3>3. Distinct(outgoing)' /\ Set(outgoing') = Set(outgoing)
      BY <1>1 DEF Distinct
    <3>4. QED
      BY <1>1, <1>2, <1>7, <2>1, <3>1, <3>2, <3>3 DEF Apart, Set, Distinct
  <2>4. BuffersAreConserved'
    <3>1. Set(incoming') \cup Set(outgoing) \cup Held' \cup lost = 1 .. granted
      BY <1>1, <1>2, <2>1 DEF V4l2Inv, BuffersAreConserved
    <3>2. Len(incoming') + Len(outgoing) + Cardinality(Held') + Cardinality(lost) = granted
      BY <1>1, <1>4, <1>5, <2>1 DEF V4l2Inv, BuffersAreConserved
    <3>3. QED
      BY <1>7, <3>1, <3>2 DEF BuffersAreConserved, Set
  <2>5. QED
    BY <1>6, <2>2, <2>3, <2>4 DEF V4l2Inv
<1>8. CASE lost' = lost \cup {held} /\ UNCHANGED incoming
  <2>1. TypeOK'
    BY <1>1, <1>8 DEF V4l2Inv, TypeOK, V4l2Assumption
  <2>2. IsFiniteSet(lost') /\ Cardinality(lost') = Cardinality(lost) + 1
    BY <1>1, <1>8, FS_AddElement
  <2>3. Apart'
    <3>1. lost' \cap (Set(incoming) \cup Set(outgoing)) = {}
      BY <1>1, <1>2, <1>3, <1>8 DEF V4l2Inv, Apart
    <3>2. 0 \notin lost'
      BY <1>1, <1>8 DEF V4l2Inv, TypeOK, Buffers, V4l2Assumption
    <3>3. /\ Distinct(incoming)' /\ Distinct(outgoing)'
          /\ Set(incoming)' = Set(incoming) /\ Set(incoming) \cap Set(outgoing) = {}
      BY <1>1, <1>8 DEF Distinct, Set, V4l2Inv, Apart
    <3>4. QED
      BY <1>2, <2>2, <3>1, <3>2, <3>3 DEF Apart
  <2>4. BuffersAreConserved'
    <3>1. Set(incoming) \cup Set(outgoing) \cup Held' \cup lost' = 1 .. granted
      BY <1>1, <1>2, <1>8 DEF V4l2Inv, BuffersAreConserved
    <3>2. Len(incoming) + Len(outgoing) + Cardinality(Held') + Cardinality(lost') = granted
      BY <1>1, <1>4, <1>5, <2>2 DEF V4l2Inv, BuffersAreConserved
    <3>3. QED
      BY <1>8, <3>1, <3>2 DEF BuffersAreConserved, Set
  <2>5. QED
    BY <1>6, <2>1, <2>3, <2>4 DEF V4l2Inv
<1>9. QED
  BY <1>7, <1>8 DEF GiveBackOrLose

-----------------------------------------------------------------------------

(* The inductive invariant holds in every execution, for every number of
   buffers requested and granted. *)
THEOREM V4l2Safe == V4l2Assumption => (Spec => []V4l2Inv)
<1> SUFFICES ASSUME V4l2Assumption PROVE Spec => []V4l2Inv
  OBVIOUS
<1>1. Init => V4l2Inv
  <2> SUFFICES ASSUME Init PROVE V4l2Inv
    OBVIOUS
  <2>1. Requested \in Nat /\ MaxFrames \in Nat
    BY DEF V4l2Assumption
  <2>2. TypeOK
    <3>1. /\ 0 \in 0 .. Requested /\ 0 \in 0 .. MaxFrames
          /\ {} \subseteq Buffers /\ <<>> \in Seq(Buffers)
      BY <2>1
    <3>2. content \in [Buffers -> 0 .. MaxFrames]
      BY <3>1 DEF Init
    <3>3. QED
      BY <3>1, <3>2 DEF Init, TypeOK
  <2>3. Stages
    BY DEF Init, Stages, Running
  <2>4. Apart
    BY FS_EmptySet DEF Init, Apart, Held, Set, Distinct
  <2>5. QED
    BY <2>2, <2>3, <2>4 DEF Init, V4l2Inv, BuffersAreConserved
<1>2. V4l2Inv /\ [Next]_v4l2Vars => V4l2Inv'
  <2> SUFFICES ASSUME V4l2Inv, [Next]_v4l2Vars PROVE V4l2Inv'
    OBVIOUS
  <2>1. CASE Produce
    BY <2>1, ProduceKeepsInv
  <2>2. CASE OpenStep
    BY <2>2, AcquiringKeepsInv, QueueBufferKeepsInv, StreamOnKeepsInv, CloseKeepsInv
    DEF OpenStep, OpenFails
  <2>3. CASE ReadBegins \/ ReadFails \/ CopyPayload
    BY <2>3, CopyingKeepsInv
  <2>4. CASE Dequeue
    BY <2>4, DequeueKeepsInv
  <2>5. CASE RejectBuffer \/ ReadReturns \/ RequeueFails
    <3>1. /\ call \in {"copying", "requeueing"} /\ call' = "idle" /\ held' = 0
          /\ GiveBackOrLose
          /\ UNCHANGED <<fd, mapped, streaming, granted, outgoing, content, produced, copy>>
          /\ delivered' \in {delivered, copy}
      BY <2>5
      DEF RejectBuffer, RejectWith, GiveBackOrLose, ReadReturns, RequeueFails, OnlyRead,
          resourceVars
    <3>2. delivered' \in 0 .. MaxFrames
      BY <3>1 DEF V4l2Inv, TypeOK
    <3>3. QED
      BY <3>1, <3>2, GivingBackKeepsInv
  <2>6. CASE Close
    BY <2>6, CloseKeepsInv DEF Close
  <2>7. CASE UNCHANGED v4l2Vars
    <3>1. UNCHANGED <<call, fd, mapped, streaming, granted, incoming, outgoing, content,
                      produced, held, copy, delivered, lost>>
      BY <2>7 DEF v4l2Vars, resourceVars, driverVars, readVars
    <3>2. TypeOK' /\ Stages'
      BY <3>1 DEF V4l2Inv, TypeOK, Stages
    <3>3. QED
      BY <3>1, <3>2, PlacesKept DEF V4l2Inv
  <2>8. QED
    BY <2>1, <2>2, <2>3, <2>4, <2>5, <2>6, <2>7 DEF Next, ReadStep
<1>3. QED
  BY <1>1, <1>2, PTL DEF Spec

(* No path through Read loses a buffer, but a requeue that fails. *)
THEOREM NoBufferIsLost == V4l2Assumption => (Spec => []BuffersAreConserved)
<1> SUFFICES ASSUME V4l2Assumption PROVE Spec => []BuffersAreConserved
  OBVIOUS
<1>1. V4l2Inv => BuffersAreConserved
  BY DEF V4l2Inv
<1>2. QED
  BY <1>1, V4l2Safe, PTL


-----------------------------------------------------------------------------
(* The order of the frames *)

(* A frame the camera produces is newer than all that wait, and it goes into a
   buffer that nobody reads. *)
LEMMA ProduceKeepsOrder ==
  ASSUME V4l2Inv, Ordered, Produce
  PROVE  Ordered' /\ UNCHANGED delivered
<1>1. /\ produced' = produced + 1 /\ produced \in Nat /\ delivered \in Nat
      /\ UNCHANGED <<call, held, copy, delivered>>
      /\ incoming \in Seq(Buffers) /\ outgoing \in Seq(Buffers) /\ Distinct(incoming)
      /\ content \in [Buffers -> Nat]
      /\ Len(outgoing) \in Nat /\ DOMAIN outgoing = 1 .. Len(outgoing)
  BY DEF Produce, V4l2Inv, TypeOK, Apart, readVars
<1>2. CASE incoming = <<>>
  <2>1. UNCHANGED <<outgoing, content>>
    BY <1>2 DEF Produce
  <2>2. QED
    BY <1>1, <2>1 DEF Ordered
<1>3. CASE incoming # <<>>
  <2> DEFINE b == Head(incoming)
  <2>1. /\ outgoing' = Append(outgoing, b)
        /\ content' = [content EXCEPT ![b] = produced + 1]
    BY <1>3 DEF Produce
  <2>2. b \in Buffers /\ b \in Set(incoming)
    BY <1>1, <1>3, TailPlaces
  <2>3. b \notin Set(outgoing) /\ b \notin Held
    BY <2>2 DEF V4l2Inv, Apart
  <2>4. /\ DOMAIN outgoing' = 1 .. Len(outgoing) + 1
        /\ \A i \in 1 .. Len(outgoing) : outgoing'[i] = outgoing[i]
        /\ outgoing'[Len(outgoing) + 1] = b
    BY <1>1, <2>1, <2>2, AppendProperties
  <2> HIDE DEF b
  <2>5. content'[b] = produced' /\ \A c \in Buffers : c # b => content'[c] = content[c]
    BY <1>1, <2>1, <2>2
  <2>6. \A i \in 1 .. Len(outgoing) :
          /\ outgoing[i] \in Buffers /\ content'[outgoing'[i]] = content[outgoing[i]]
          /\ content[outgoing[i]] \in delivered + 1 .. produced
    <3> SUFFICES ASSUME NEW i \in 1 .. Len(outgoing)
                 PROVE  /\ outgoing[i] \in Buffers
                        /\ content'[outgoing'[i]] = content[outgoing[i]]
                        /\ content[outgoing[i]] \in delivered + 1 .. produced
      OBVIOUS
    <3>1. outgoing[i] \in Buffers /\ outgoing[i] # b
      BY <1>1, <2>3 DEF Set
    <3>2. QED
      BY <1>1, <2>4, <2>5, <3>1 DEF Ordered
  <2>7. \A i \in DOMAIN outgoing' : content'[outgoing'[i]] \in delivered + 1 .. produced'
    <3> SUFFICES ASSUME NEW i \in 1 .. Len(outgoing) + 1
                 PROVE  content'[outgoing'[i]] \in delivered + 1 .. produced'
      BY <2>4
    <3>1. CASE i = Len(outgoing) + 1
      BY <1>1, <2>4, <2>5, <3>1 DEF Ordered
    <3>2. CASE i # Len(outgoing) + 1
      <4>1. i \in 1 .. Len(outgoing)
        BY <1>1, <3>2
      <4>2. QED
        BY <1>1, <2>6, <4>1
    <3>3. QED
      BY <3>1, <3>2
  <2>8. \A i \in DOMAIN outgoing' : \A j \in 1 .. i - 1 :
          content'[outgoing'[j]] < content'[outgoing'[i]]
    <3> SUFFICES ASSUME NEW i \in 1 .. Len(outgoing) + 1, NEW j \in 1 .. i - 1
                 PROVE  content'[outgoing'[j]] < content'[outgoing'[i]]
      BY <2>4
    <3>1. j \in 1 .. Len(outgoing)
      BY <1>1
    <3>2. CASE i = Len(outgoing) + 1
      BY <1>1, <2>4, <2>5, <2>6, <3>1, <3>2
    <3>3. CASE i # Len(outgoing) + 1
      <4>1. i \in 1 .. Len(outgoing)
        <5>1. Len(outgoing) \in Nat
          BY <1>1
        <5>2. QED
          BY <3>3, <5>1
      <4>2. content[outgoing[j]] < content[outgoing[i]]
        BY <1>1, <4>1 DEF Ordered
      <4>3. QED
        BY <2>6, <3>1, <4>1, <4>2
    <3>4. QED
      BY <3>2, <3>3
  <2>9. ASSUME held # 0
        PROVE  /\ content'[held] \in delivered + 1 .. produced'
               /\ \A i \in DOMAIN outgoing' : content'[held] < content'[outgoing'[i]]
               /\ content'[held] = content[held]
    <3>1. held \in Buffers /\ held # b
      BY <2>3, <2>9 DEF V4l2Inv, TypeOK, Held, Buffers
    <3>2. content'[held] = content[held] /\ content[held] \in delivered + 1 .. produced
      BY <2>5, <2>9, <3>1 DEF Ordered
    <3>3. ASSUME NEW i \in 1 .. Len(outgoing) + 1
          PROVE  content'[held] < content'[outgoing'[i]]
      <4>1. CASE i = Len(outgoing) + 1
        BY <1>1, <2>4, <2>5, <3>2, <4>1
      <4>2. CASE i # Len(outgoing) + 1
        <5>1. i \in 1 .. Len(outgoing)
          BY <1>1, <4>2
        <5>2. content[held] < content[outgoing[i]]
          BY <1>1, <2>9, <5>1 DEF Ordered
        <5>3. QED
          BY <2>6, <3>2, <5>1, <5>2
      <4>3. QED
        BY <4>1, <4>2
    <3>4. content'[held] \in delivered + 1 .. produced'
      BY <1>1, <3>2
    <3>5. QED
      BY <2>4, <3>2, <3>3, <3>4
  <2>10. call' = "requeueing" => copy' = content'[held']
    BY <1>1, <2>9 DEF Ordered, V4l2Inv, Stages
  <2>11. delivered' <= produced'
    BY <1>1 DEF Ordered
  <2>12. QED
    BY <1>1, <2>7, <2>8, <2>9, <2>10, <2>11 DEF Ordered
<1>4. QED
  BY <1>2, <1>3

(* Read takes the oldest frame that waits. *)
LEMMA DequeueKeepsOrder ==
  ASSUME V4l2Inv, Ordered, Dequeue
  PROVE  Ordered' /\ UNCHANGED delivered
<1>1. /\ UNCHANGED <<content, produced, copy, delivered>> /\ call' = "copying"
      /\ outgoing # <<>> /\ outgoing' = Tail(outgoing) /\ held' = Head(outgoing)
      /\ outgoing \in Seq(Buffers)
  BY DEF Dequeue, DequeueInto, OnlyRead, V4l2Inv, TypeOK
<1>2. /\ Len(outgoing) \in Nat \ {0} /\ DOMAIN outgoing = 1 .. Len(outgoing)
      /\ DOMAIN outgoing' = 1 .. Len(outgoing) - 1
      /\ \A i \in 1 .. Len(outgoing) - 1 : outgoing'[i] = outgoing[i + 1]
      /\ held' = outgoing[1]
  BY <1>1, EmptySeq, HeadTailProperties
<1>3. ASSUME NEW i \in 1 .. Len(outgoing) - 1
      PROVE  /\ content[outgoing'[i]] \in delivered + 1 .. produced
             /\ content[held'] < content[outgoing'[i]]
             /\ \A j \in 1 .. i - 1 : content[outgoing'[j]] < content[outgoing'[i]]
  <2>1. i + 1 \in DOMAIN outgoing /\ 1 \in 1 .. (i + 1) - 1
    BY <1>2
  <2>2. ASSUME NEW j \in 1 .. i - 1 PROVE content[outgoing'[j]] < content[outgoing'[i]]
    <3>1. j + 1 \in 1 .. (i + 1) - 1 /\ j \in 1 .. Len(outgoing) - 1
      BY <1>2
    <3>2. QED
      BY <1>2, <2>1, <3>1 DEF Ordered
  <2>3. QED
    BY <1>2, <2>1, <2>2 DEF Ordered
<1>4. content[held'] \in delivered + 1 .. produced
  BY <1>2 DEF Ordered
<1>5. QED
  BY <1>1, <1>2, <1>3, <1>4 DEF Ordered

(* The frame Read returns is the one in the buffer it held. *)
LEMMA ReturnKeepsOrder ==
  ASSUME V4l2Inv, Ordered, ReadReturns
  PROVE  Ordered' /\ delivered' > delivered
<1>1. /\ UNCHANGED <<content, produced, copy, outgoing>> /\ held # 0 /\ held' = 0
      /\ call' = "idle" /\ delivered' = content[held]
      /\ delivered \in Nat /\ produced \in Nat
  BY DEF ReadReturns, OnlyRead, V4l2Inv, TypeOK, Stages, Ordered
<1>2. /\ content[held] \in delivered + 1 .. produced
      /\ \A i \in DOMAIN outgoing : /\ content[held] < content[outgoing[i]]
                                    /\ content[outgoing[i]] \in delivered + 1 .. produced
  BY <1>1 DEF Ordered
<1>3. \A i \in DOMAIN outgoing : content[outgoing[i]] \in content[held] + 1 .. produced
  BY <1>1, <1>2
<1>4. QED
  BY <1>1, <1>2, <1>3 DEF Ordered

(* Every other step copies a frame, drops one, or moves none. *)
LEMMA OthersKeepOrder ==
  ASSUME V4l2Inv, Ordered, [Next]_v4l2Vars, ~Produce, ~Dequeue, ~ReadReturns
  PROVE  Ordered' /\ UNCHANGED delivered
<1>1. /\ UNCHANGED <<content, produced, delivered>>
      /\ outgoing' \in {outgoing, <<>>} /\ held' \in {held, 0}
      /\ call' = "requeueing" => copy' = content[held] /\ held' = held
  <2>1. CASE OpenStep \/ Close
    BY <2>1
    DEF OpenStep, Close, OpenDevice, Negotiate, MapBuffer, QueueBuffer, StreamOn, OpenFails,
        CloseUnlocked, resourceVars, driverVars, readVars
  <2>2. CASE ReadBegins \/ ReadFails \/ CopyPayload
    BY <2>2 DEF ReadBegins, ReadFails, CopyPayload, OnlyRead, driverVars, readVars
  <2>3. CASE RejectBuffer \/ RequeueFails
    BY <2>3 DEF RejectBuffer, RejectWith, RequeueFails, OnlyRead
  <2>4. CASE UNCHANGED v4l2Vars
    BY <2>4 DEF v4l2Vars, driverVars, readVars, Ordered
  <2>5. QED
    BY <2>1, <2>2, <2>3, <2>4 DEF Next, ReadStep
<1>2. QED
  BY <1>1 DEF Ordered

(* Frames come in the order of the camera, each at most once, through every
   failed read and every time the device is opened again. *)
THEOREM FramesComeInOrder == V4l2Assumption => (Spec => FramesAreInOrder)
<1> SUFFICES ASSUME V4l2Assumption PROVE Spec => FramesAreInOrder
  OBVIOUS
<1>1. Init => Ordered
  BY DEF Init, Ordered
<1>2. V4l2Inv /\ Ordered /\ [Next]_v4l2Vars
        => Ordered' /\ [delivered' # delivered => delivered' > delivered]_v4l2Vars
  BY ProduceKeepsOrder, DequeueKeepsOrder, ReturnKeepsOrder, OthersKeepOrder
<1>3. Spec => []V4l2Inv
  BY V4l2Safe
<1>4. QED
  BY <1>1, <1>2, <1>3, PTL DEF Spec, FramesAreInOrder

=============================================================================

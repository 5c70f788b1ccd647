---------------------------- MODULE DecodeProofs ----------------------------
(* Proofs about Decode for any stream, codec delay and capacities.           *)
EXTENDS Decode, Integers, FiniteSetTheorems, TLAPS

(* What the decoder counts on before it sends a packet: the codec holds no   *)
(* frame it would give away, as long as packets have one frame at most.      *)
CodecDrained ==
    SingleFramePackets =>
        /\ refused = {}
        /\ Len(held) <= Delay + (IF pc = "receive" THEN 1 ELSE 0)

(* A refused audio packet leaves the decoder with a codec that refuses.      *)
Stalled ==
    kind = "audio" /\ refused # {} =>
        pc \notin {"receive", "peek"} /\ MustReceiveFirst

(* Once a frame was pushed after a request, the next thing is the loop head. *)
NothingMorePushed ==
    paused \/ aborted => /\ late <= 1
                         /\ late = 1 => pc \in {"loop", "exited"}

(* The refused packet's frame is in hand, or the codec is about to yield it. *)
Paid ==
    kind = "video" =>
        /\ owed <= (IF pc \in {"receive", "peek"} THEN 1 ELSE 0)
        /\ pc = "receive" /\ Len(held) <= Delay => owed = 0

-----------------------------------------------------------------------------
(* A packet's frames are a sequence as long as its yield.                    *)
LEMMA FramesOfPacket ==
    ASSUME TypeOK, NEW p \in Packets
    PROVE  FramesOf(p) \in Seq(Frames) /\ Len(FramesOf(p)) = yield[p]
  <1>1. yield[p] \in Nat
    BY BoundsAssumption DEF TypeOK
  <1>2. \A i \in 1..yield[p] : <<p, i>> \in Frames
    BY <1>1 DEF Frames
  <1>. QED
    BY <1>1, <1>2 DEF FramesOf

(* No step changes the stream, nor whose decodePacket() it is.               *)
LEMMA StreamFixed ==
    ASSUME [Next]_vars
    PROVE  kind' = kind /\ yield' = yield /\ damaged' = damaged
  BY DEF Next, Decoder, Loop, UnchangedByLoop, Pop, SendFails, SendRefused,
         SendAccepted, Receive, PushFrame, PushPacket, PopFrame, Pause,
         Resume, Stop, stream, vars

(* Every step keeps the types.                                               *)
LEMMA TypeStep == TypeOK /\ [Next]_vars => TypeOK'
  <1>. SUFFICES ASSUME TypeOK, [Next]_vars PROVE TypeOK'
    OBVIOUS
  <1>. USE BoundsAssumption
  <1>1. CASE Loop
    BY <1>1 DEF Loop, UnchangedByLoop, TypeOK, PCs, stream, control
  <1>2. CASE Pop
    <2>1. Head(queue) \in Packets /\ Tail(queue) \in Seq(Packets)
          /\ Len(Tail(queue)) = Len(queue) - 1 /\ Head(queue) # 0
      BY <1>2 DEF Pop, TypeOK, Packets
    <2>. QED
      BY <1>2, <2>1 DEF Pop, TypeOK, PCs, stream, control
  <1>3. CASE SendFails
    BY <1>3 DEF SendFails, TypeOK, PCs, stream, control
  <1>4. CASE SendRefused
    BY <1>4 DEF SendRefused, TypeOK, PCs, stream, control
  <1>5. CASE SendAccepted
    <2>1. packet \in Packets
      BY <1>5 DEF SendAccepted, TypeOK
    <2>2. held' \in Seq(Frames)
      BY <1>5, <2>1, FramesOfPacket DEF SendAccepted, TypeOK
    <2>. QED
      BY <1>5, <2>2 DEF SendAccepted, TypeOK, PCs, stream, control
  <1>6. CASE Receive
    <2>1. Len(held) > Delay => /\ Head(held) \in Frames /\ Head(held) # NoFrame
                               /\ Tail(held) \in Seq(Frames)
      BY DEF TypeOK, Frames, NoFrame, Packets
    <2>. QED
      BY <1>6, <2>1 DEF Receive, TypeOK, PCs, stream, control
  <1>7. CASE PushFrame
    <2>1. frame \in Frames
      BY <1>7 DEF PushFrame, TypeOK
    <2>. QED
      BY <1>7, <2>1 DEF PushFrame, TypeOK, PCs, stream, control
  <1>8. CASE PushPacket
    <2>1. sent + 1 \in Packets
      BY <1>8 DEF PushPacket, TypeOK, Packets
    <2>. QED
      BY <1>8, <2>1 DEF PushPacket, TypeOK, stream, control
  <1>9. CASE PopFrame
    BY <1>9 DEF PopFrame, TypeOK, stream, control
  <1>10. CASE Pause \/ Resume \/ Stop
    <2>1. UNCHANGED <<kind, yield, damaged, sent, queue, pc, packet, frame,
                      held, refused, out, ring, owed>>
      BY <1>10, StreamFixed DEF Pause, Resume, Stop
    <2>2. paused' \in BOOLEAN /\ aborted' \in BOOLEAN /\ late' \in Nat
      <3>1. paused' \in BOOLEAN
        BY <1>10, Zenon DEF Pause, Resume, Stop, TypeOK
      <3>2. aborted' \in BOOLEAN
        BY <1>10, Zenon DEF Pause, Resume, Stop, TypeOK
      <3>3. late' \in Nat
        BY <1>10 DEF Pause, Resume, Stop, TypeOK
      <3>. QED
        BY <3>1, <3>2, <3>3
    <2>. QED
      BY <2>1, <2>2 DEF TypeOK
  <1>11. CASE UNCHANGED vars
    BY <1>11 DEF vars, TypeOK
  <1>. QED
    BY <1>1, <1>2, <1>3, <1>4, <1>5, <1>6, <1>7, <1>8, <1>9, <1>10, <1>11
       DEF Next, Decoder

(* The variables keep their types, and both queues their bounds.             *)
THEOREM TypeCorrect == Spec => []TypeOK
  <1>1. ASSUME Init PROVE TypeOK
    <2>1. sent \in 0..MaxPackets /\ Len(queue) <= PacketCap /\ ring \in 0..RingCap
      BY <1>1, BoundsAssumption DEF Init
    <2>2. queue \in Seq(Packets) /\ held \in Seq(Frames) /\ out \in Seq(Frames)
      BY <1>1 DEF Init
    <2>. QED
      BY <1>1, <2>1, <2>2 DEF Init, TypeOK, PCs
  <1>2. TypeOK /\ [Next]_vars => TypeOK'
    BY TypeStep
  <1>. QED
    BY <1>1, <1>2, PTL DEF Spec

-----------------------------------------------------------------------------
(* With packets of one frame at most the codec never has two frames ready.   *)
LEMMA Drained == Spec => []CodecDrained
  <1>1. Init => CodecDrained
    BY BoundsAssumption DEF Init, CodecDrained
  <1>2. TypeOK /\ CodecDrained /\ [Next]_vars => CodecDrained'
    <2>. SUFFICES ASSUME TypeOK, CodecDrained, [Next]_vars, SingleFramePackets'
                  PROVE  /\ refused' = {}
                         /\ Len(held') <= Delay + (IF pc' = "receive" THEN 1 ELSE 0)
      BY DEF CodecDrained
    <2>1. yield' = yield
      BY StreamFixed
    <2>2. /\ SingleFramePackets /\ refused = {}
          /\ Len(held) <= Delay + (IF pc = "receive" THEN 1 ELSE 0)
          /\ Len(held) \in Nat /\ held \in Seq(Frames)
      BY <2>1 DEF CodecDrained, SingleFramePackets, TypeOK
    <2>. USE BoundsAssumption
    <2>3. CASE SendRefused
      BY <2>2, <2>3 DEF SendRefused, MustReceiveFirst
    <2>4. CASE SendAccepted
      <3>1. /\ FramesOf(packet) \in Seq(Frames)
            /\ Len(FramesOf(packet)) \in Nat /\ Len(FramesOf(packet)) <= 1
        BY <2>2, <2>4, FramesOfPacket DEF SendAccepted, TypeOK, SingleFramePackets
      <3>2. Len(held') = Len(held) + Len(FramesOf(packet))
        BY <2>2, <2>4, <3>1 DEF SendAccepted
      <3>. QED
        BY <2>2, <2>4, <3>1, <3>2 DEF SendAccepted
    <2>5. CASE Receive
      <3>1. held # << >> => Len(Tail(held)) = Len(held) - 1
        BY <2>2
      <3>. QED
        BY <2>2, <2>5, <3>1 DEF Receive
    <2>6. CASE Loop \/ Pop \/ SendFails \/ PushFrame
      BY <2>2, <2>6 DEF Loop, UnchangedByLoop, Pop, SendFails, PushFrame
    <2>7. CASE UNCHANGED <<pc, held, refused>>
      BY <2>2, <2>7
    <2>. QED
      BY <2>3, <2>4, <2>5, <2>6, <2>7
         DEF Next, Decoder, PushPacket, PopFrame, Pause, Resume, Stop, vars
  <1>. QED
    BY <1>1, <1>2, TypeCorrect, PTL DEF Spec

(* One call of avcodec_receive_frame() for each packet is enough when no     *)
(* packet holds two frames, for any stream, delay and backlog of the codec   *)
(* (AudioDecode.cpp:60, VideoDecode.cpp:69): nothing is ever refused.        *)
THEOREM SingleFrames == Spec => []SingleFramesAccepted
  <1>1. CodecDrained => SingleFramesAccepted
    BY DEF CodecDrained, SingleFramesAccepted
  <1>. QED
    BY <1>1, Drained, PTL

-----------------------------------------------------------------------------
(* After one refused packet the audio decoder is silent for good, whatever   *)
(* the stream and the codec (AudioDecode.cpp:51-52).                         *)
THEOREM AudioStalls == Spec => AudioStallsForGood
  <1>1. Init => Stalled
    BY DEF Init, Stalled
  <1>2. TypeOK /\ Stalled /\ [Next]_vars => Stalled'
    <2>. SUFFICES ASSUME TypeOK, Stalled, [Next]_vars,
                         kind' = "audio", refused' # {}
                  PROVE  pc' \notin {"receive", "peek"} /\ MustReceiveFirst'
      BY DEF Stalled
    <2>0. kind = "audio"
      BY StreamFixed
    <2>1. CASE SendRefused
      BY <2>0, <2>1 DEF SendRefused, MustReceiveFirst
    <2>2. CASE refused' = refused
      <3>1. pc \notin {"receive", "peek"} /\ MustReceiveFirst
        BY <2>0, <2>2 DEF Stalled
      <3>2. ~SendAccepted /\ ~Receive /\ ~PushFrame
        BY <3>1 DEF SendAccepted, Receive, PushFrame
      <3>3. CASE Loop \/ Pop \/ SendFails
        BY <3>1, <3>3 DEF Loop, UnchangedByLoop, Pop, SendFails, MustReceiveFirst
      <3>4. CASE UNCHANGED <<pc, held>>
        BY <3>1, <3>4 DEF MustReceiveFirst
      <3>. QED
        BY <2>1, <3>2, <3>3, <3>4
           DEF Next, Decoder, PushPacket, PopFrame, Pause, Resume, Stop, vars
    <2>. QED
      BY <2>1, <2>2
         DEF Next, Decoder, Loop, UnchangedByLoop, Pop, SendFails, SendAccepted,
             Receive, PushFrame, PushPacket, PopFrame, Pause, Resume, Stop, vars
  <1>3. Stalled /\ [Next]_vars => [kind = "audio" /\ refused # {} => out' = out]_vars
    BY DEF Stalled, Next, Decoder, Loop, UnchangedByLoop, Pop, SendFails,
           SendRefused, SendAccepted, Receive, PushFrame, PushPacket, PopFrame,
           Pause, Resume, Stop, vars
  <1>. QED
    BY <1>1, <1>2, <1>3, TypeCorrect, PTL DEF Spec, AudioStallsForGood

-----------------------------------------------------------------------------
(* At most one frame is pushed while a pause or stop request holds, wherever *)
(* the decoder was when the request came (AudioDecode.cpp:28-37).            *)
THEOREM SoonObeyed == Spec => []RequestsSoonObeyed
  <1>1. Init => NothingMorePushed
    BY DEF Init, NothingMorePushed
  <1>2. TypeOK /\ NothingMorePushed /\ [Next]_vars => NothingMorePushed'
    <2>. SUFFICES ASSUME TypeOK, NothingMorePushed, [Next]_vars, paused' \/ aborted'
                  PROVE  late' <= 1 /\ (late' = 1 => pc' \in {"loop", "exited"})
      BY DEF NothingMorePushed
    <2>1. CASE Pause \/ Stop
      BY <2>1 DEF Pause, Stop
    <2>2. CASE Resume
      BY <2>2 DEF Resume, NothingMorePushed, TypeOK
    <2>3. CASE Loop
      BY <2>3 DEF Loop, UnchangedByLoop, control, NothingMorePushed
    <2>4. CASE Pop \/ SendFails \/ SendRefused \/ SendAccepted \/ Receive
      <3>1. pc \in {"pop", "send", "receive"} /\ UNCHANGED <<paused, aborted, late>>
        BY <2>4 DEF Pop, SendFails, SendRefused, SendAccepted, Receive, control
      <3>2. late <= 1 /\ late # 1
        BY <3>1 DEF NothingMorePushed
      <3>. QED
        BY <3>1, <3>2
    <2>5. CASE PushFrame
      <3>1. pc = "peek" /\ UNCHANGED <<paused, aborted>> /\ late' = late + 1
            /\ pc' = "loop"
        BY <2>5 DEF PushFrame, control
      <3>2. late <= 1 /\ late # 1 /\ late \in Nat
        BY <3>1 DEF NothingMorePushed, TypeOK
      <3>. QED
        BY <3>1, <3>2
    <2>6. CASE UNCHANGED <<pc, paused, aborted, late>>
      BY <2>6 DEF NothingMorePushed
    <2>. QED
      BY <2>1, <2>2, <2>3, <2>4, <2>5, <2>6
         DEF Next, Decoder, PushPacket, PopFrame, control, vars
  <1>3. NothingMorePushed => RequestsSoonObeyed
    BY DEF NothingMorePushed, RequestsSoonObeyed
  <1>. QED
    BY <1>1, <1>2, <1>3, TypeCorrect, PTL DEF Spec

-----------------------------------------------------------------------------
(* Whatever the stream, the codec and the room in the ring, the video        *)
(* decoder asks for no packet while a refusal has brought no frame yet: two  *)
(* packets are never lost with no frame in between (VideoDecode.cpp:58-69).  *)
THEOREM VideoPays == Spec => []RefusalsArePaid
  <1>1. Init => Paid
    BY DEF Init, Paid
  <1>2. TypeOK /\ Paid /\ [Next]_vars => Paid'
    <2>. SUFFICES ASSUME TypeOK, Paid, [Next]_vars, kind' = "video"
                  PROVE  Paid'
      BY DEF Paid
    <2>0. /\ kind = "video" /\ owed \in Nat /\ Len(held) \in Nat
          /\ Delay \in Nat /\ Backlog \in Nat
      BY StreamFixed, BoundsAssumption DEF TypeOK
    <2>1. CASE SendRefused
      <3>1. pc = "send" /\ owed' = owed + 1 /\ pc' = "receive" /\ held' = held
            /\ Len(held) > Delay + Backlog
        BY <2>0, <2>1 DEF SendRefused, MustReceiveFirst
      <3>2. owed = 0
        BY <2>0, <3>1 DEF Paid
      <3>. QED
        BY <2>0, <3>1, <3>2 DEF Paid
    <2>2. CASE SendAccepted
      BY <2>0, <2>2 DEF SendAccepted, Paid
    <2>3. CASE Receive
      BY <2>0, <2>3 DEF Receive, Paid
    <2>4. CASE PushFrame
      BY <2>4 DEF PushFrame, Paid
    <2>5. CASE Loop \/ Pop \/ SendFails
      BY <2>0, <2>5 DEF Loop, UnchangedByLoop, Pop, SendFails, Paid
    <2>6. CASE UNCHANGED <<pc, held, owed>>
      BY <2>0, <2>6 DEF Paid
    <2>. QED
      BY <2>1, <2>2, <2>3, <2>4, <2>5, <2>6
         DEF Next, Decoder, PushPacket, PopFrame, Pause, Resume, Stop, vars
  <1>3. Paid => RefusalsArePaid
    BY DEF Paid, RefusalsArePaid
  <1>. QED
    BY <1>1, <1>2, <1>3, TypeCorrect, PTL DEF Spec

-----------------------------------------------------------------------------
(* What a queue holds after one step: with one element more, ...             *)
LEMMA ElementsAppend ==
    ASSUME NEW S, NEW s \in Seq(S), NEW e \in S
    PROVE  Elements(Append(s, e)) = Elements(s) \cup {e}
  <1>1. /\ Len(Append(s, e)) = Len(s) + 1 /\ Len(s) \in Nat
        /\ Append(s, e)[Len(s) + 1] = e
        /\ \A i \in 1..Len(s) : Append(s, e)[i] = s[i]
        /\ DOMAIN Append(s, e) = 1..(Len(s) + 1) /\ DOMAIN s = 1..Len(s)
    OBVIOUS
  <1>. QED
    BY <1>1 DEF Elements

(* Taking the head leaves the rest.                                          *)
LEMMA ElementsTail ==
    ASSUME NEW S, NEW s \in Seq(S), s # << >>
    PROVE  Elements(s) = {Head(s)} \cup Elements(Tail(s))
  <1>1. /\ Len(s) \in Nat /\ Len(s) >= 1 /\ Head(s) = s[1]
        /\ DOMAIN s = 1..Len(s) /\ DOMAIN Tail(s) = 1..(Len(s) - 1)
        /\ \A i \in 1..(Len(s) - 1) : Tail(s)[i] = s[i + 1]
    OBVIOUS
  <1>2. \A i \in 1..Len(s) : i = 1 \/ (i - 1 \in 1..(Len(s) - 1) /\ s[i] = Tail(s)[i - 1])
    BY <1>1
  <1>3. Elements(s) \subseteq {Head(s)} \cup Elements(Tail(s))
    <2>1. Elements(Tail(s)) = {Tail(s)[i] : i \in 1..(Len(s) - 1)}
      BY <1>1 DEF Elements
    <2>2. \A i \in 1..Len(s) : s[i] \in {Head(s)} \cup Elements(Tail(s))
      BY <1>1, <1>2, <2>1
    <2>. QED
      BY <1>1, <2>2 DEF Elements
  <1>4. \A i \in 1..(Len(s) - 1) : i + 1 \in 1..Len(s)
    BY <1>1
  <1>5. {Head(s)} \cup Elements(Tail(s)) \subseteq Elements(s)
    BY <1>1, <1>4 DEF Elements
  <1>. QED
    BY <1>3, <1>5

(* A packet's frames join those in the codec.                                *)
LEMMA ElementsConcat ==
    ASSUME NEW S, NEW s \in Seq(S), NEW t \in Seq(S)
    PROVE  Elements(s \o t) = Elements(s) \cup Elements(t)
  <1>1. /\ Len(s) \in Nat /\ Len(t) \in Nat
        /\ DOMAIN s = 1..Len(s) /\ DOMAIN t = 1..Len(t)
        /\ DOMAIN (s \o t) = 1..(Len(s) + Len(t))
        /\ \A i \in 1..Len(s) : (s \o t)[i] = s[i]
        /\ \A i \in (Len(s) + 1)..(Len(s) + Len(t)) : (s \o t)[i] = t[i - Len(s)]
    OBVIOUS
  <1>2. \A i \in 1..Len(t) : (s \o t)[i + Len(s)] = t[i]
                             /\ i + Len(s) \in 1..(Len(s) + Len(t))
    BY <1>1
  <1>3. \A i \in 1..(Len(s) + Len(t)) :
            i \in 1..Len(s) \/ (i - Len(s) \in 1..Len(t) /\ (s \o t)[i] = t[i - Len(s)])
    BY <1>1
  <1>4. /\ Elements(s) = {s[i] : i \in 1..Len(s)}
        /\ Elements(t) = {t[i] : i \in 1..Len(t)}
        /\ Elements(s \o t) = {(s \o t)[i] : i \in 1..(Len(s) + Len(t))}
    BY <1>1 DEF Elements
  <1>5. ASSUME NEW i \in 1..(Len(s) + Len(t))
        PROVE  (s \o t)[i] \in Elements(s) \cup Elements(t)
    <2>1. CASE i \in 1..Len(s)
      BY <1>1, <1>4, <2>1
    <2>2. CASE i - Len(s) \in 1..Len(t) /\ (s \o t)[i] = t[i - Len(s)]
      BY <1>4, <2>2
    <2>. QED
      BY <1>3, <2>1, <2>2
  <1>6. \A i \in 1..Len(s) : s[i] \in Elements(s \o t)
    <2>1. \A i \in 1..Len(s) : i \in 1..(Len(s) + Len(t))
      BY <1>1
    <2>. QED
      BY <1>1, <1>4, <2>1
  <1>7. ASSUME NEW i \in 1..Len(t) PROVE t[i] \in Elements(s \o t)
    <2>1. /\ (s \o t)[i + Len(s)] = t[i]
          /\ i + Len(s) \in 1..(Len(s) + Len(t))
      BY <1>2
    <2>. QED
      BY <1>4, <2>1
  <1>8. Elements(s \o t) \subseteq Elements(s) \cup Elements(t)
    BY <1>4, <1>5
  <1>9. Elements(s) \cup Elements(t) \subseteq Elements(s \o t)
    BY <1>4, <1>6, <1>7
  <1>. QED
    BY <1>8, <1>9

(* An empty sequence holds nothing.                                          *)
LEMMA ElementsEmpty == Elements(<< >>) = {}
  BY DEF Elements

-----------------------------------------------------------------------------
(* Where the frames of an accepted packet are.                               *)
Got == Elements(out) \cup Elements(held) \cup {frame}

(* A packet is still to be decoded, or none of its frames is lost.           *)
Safe(p) == \/ p = packet \/ p \in Elements(queue)
           \/ Elements(FramesOf(p)) \subseteq Got

AllSafe == \A p \in (1..sent) \ (refused \cup damaged) : Safe(p)

(* No step but a refusal loses a frame: what was there stays, though it      *)
(* moves from the codec to the hand and from the hand to the ring.           *)
LEMMA FramesStay ==
    ASSUME TypeOK, [Next]_vars PROVE Got \ {NoFrame} \subseteq Got'
  <1>1. held \in Seq(Frames) /\ out \in Seq(Frames)
    BY DEF TypeOK
  <1>2. CASE SendAccepted
    <2>1. packet \in Packets
      BY <1>2 DEF SendAccepted, TypeOK
    <2>2. Elements(held') = Elements(held) \cup Elements(FramesOf(packet))
      BY <1>1, <1>2, <2>1, FramesOfPacket, ElementsConcat DEF SendAccepted
    <2>. QED
      BY <1>2, <2>2 DEF SendAccepted, Got
  <1>3. CASE Receive
    <2>1. frame = NoFrame /\ out' = out
      BY <1>3 DEF Receive, TypeOK
    <2>2. CASE Len(held) > Delay
      <3>1. held # << >>
        BY <1>1, <2>2, BoundsAssumption
      <3>2. Elements(held) = {frame'} \cup Elements(held')
        BY <1>1, <1>3, <2>2, <3>1, ElementsTail DEF Receive
      <3>. QED
        BY <2>1, <3>2 DEF Got
    <2>3. CASE ~(Len(held) > Delay)
      BY <1>3, <2>3 DEF Receive, Got
    <2>. QED
      BY <2>2, <2>3
  <1>4. CASE PushFrame
    <2>1. frame \in Frames
      BY <1>4 DEF PushFrame, TypeOK
    <2>2. Elements(out') = Elements(out) \cup {frame} /\ held' = held
      BY <1>1, <1>4, <2>1, ElementsAppend DEF PushFrame
    <2>. QED
      BY <2>2 DEF Got
  <1>5. CASE UNCHANGED <<held, out, frame>>
    BY <1>5 DEF Got
  <1>. QED
    BY <1>2, <1>3, <1>4, <1>5
       DEF Next, Decoder, Loop, UnchangedByLoop, Pop, SendFails, SendRefused,
           PushPacket, PopFrame, Pause, Resume, Stop, vars

(* For any stream, codec delay and capacities: whatever happens between, a   *)
(* packet that was neither damaged nor refused is still on its way or has    *)
(* all its frames delivered, in hand or in the codec                         *)
(* (AudioDecode.cpp:28-93, VideoDecode.cpp:40-104).                          *)
THEOREM OnlyRefusals == Spec => []OnlyRefusedAreMissing
  <1>1. Init => AllSafe
    BY DEF Init, AllSafe
  <1>2. ASSUME TypeOK, AllSafe, [Next]_vars PROVE AllSafe'
    <2>. SUFFICES ASSUME NEW p \in (1..sent') \ (refused' \cup damaged') PROVE Safe(p)'
      BY DEF AllSafe
    <2>0. yield' = yield /\ damaged' = damaged
      BY <1>2, StreamFixed
    <2>a. p \in 1..sent /\ p \notin refused => Safe(p)
      BY <1>2, <2>0 DEF AllSafe
    <2>1. queue \in Seq(Packets) /\ sent \in Nat /\ sent <= MaxPackets
      BY <1>2, BoundsAssumption DEF TypeOK
    <2>2. ASSUME p \in 1..sent, p \notin refused,
                 p = packet \/ p \in Elements(queue) => Safe(p)'
          PROVE  Safe(p)'
      <3>1. CASE Elements(FramesOf(p)) \subseteq Got
        <4>1. p \in Packets
          BY <2>1, <2>2, BoundsAssumption DEF Packets
        <4>2. \A i \in 1..yield[p] : FramesOf(p)[i] = <<p, i>>
          BY DEF FramesOf
        <4>3. Elements(FramesOf(p)) = {<<p, i>> : i \in 1..yield[p]}
          BY <4>2 DEF Elements, FramesOf
        <4>4. NoFrame \notin Elements(FramesOf(p))
          BY <4>1, <4>3 DEF NoFrame, Packets
        <4>5. FramesOf(p)' = FramesOf(p)
          BY <2>0 DEF FramesOf
        <4>6. Elements(FramesOf(p)) \subseteq Got'
          BY <1>2, <3>1, <4>4, FramesStay
        <4>. QED
          BY <4>5, <4>6 DEF Safe
      <3>. QED
        BY <2>a, <2>2, <3>1 DEF Safe
    <2>3. CASE PushPacket
      <3>1. packet' = packet /\ sent' = sent + 1 /\ refused' = refused
            /\ queue' = Append(queue, sent + 1) /\ sent < MaxPackets
        BY <2>3 DEF PushPacket
      <3>2. sent + 1 \in Packets
        BY <2>1, <3>1, BoundsAssumption DEF Packets
      <3>3. Elements(queue') = Elements(queue) \cup {sent + 1}
        BY <2>1, <3>1, <3>2, ElementsAppend
      <3>4. p = sent + 1 \/ (p \in 1..sent /\ p \notin refused)
        BY <2>1, <3>1
      <3>. QED
        BY <2>2, <3>1, <3>3, <3>4 DEF Safe
    <2>4. CASE Pop
      <3>1. /\ queue # << >> /\ packet' = Head(queue) /\ queue' = Tail(queue)
            /\ sent' = sent /\ refused' = refused /\ packet = 0
        BY <1>2, <2>4 DEF Pop, TypeOK
      <3>2. Elements(queue) = {packet'} \cup Elements(queue')
        BY <2>1, <3>1, ElementsTail
      <3>3. p \in 1..sent /\ p \notin refused /\ p # packet
        BY <2>1, <3>1
      <3>. QED
        BY <2>2, <3>2, <3>3 DEF Safe
    <2>5. CASE SendFails \/ SendRefused
      <3>1. /\ queue' = queue /\ sent' = sent /\ refused \subseteq refused'
            /\ packet \in refused' \cup damaged
        BY <2>5 DEF SendFails, SendRefused
      <3>2. p \in 1..sent /\ p \notin refused /\ p # packet
        BY <2>0, <3>1
      <3>. QED
        BY <2>2, <3>1, <3>2 DEF Safe
    <2>6. CASE SendAccepted
      <3>1. queue' = queue /\ sent' = sent /\ refused' = refused
            /\ held' = held \o FramesOf(packet)
        BY <2>6 DEF SendAccepted
      <3>2. p = packet => Safe(p)'
        <4>1. packet \in Packets /\ held \in Seq(Frames)
          BY <1>2, <2>6 DEF SendAccepted, TypeOK
        <4>2. FramesOf(packet) \in Seq(Frames)
          BY <1>2, <4>1, FramesOfPacket
        <4>3. Elements(held') = Elements(held) \cup Elements(FramesOf(packet))
          BY <3>1, <4>1, <4>2, ElementsConcat
        <4>4. FramesOf(p)' = FramesOf(p)
          BY <2>0 DEF FramesOf
        <4>. QED
          BY <4>3, <4>4 DEF Got, Safe
      <3>3. p \in Elements(queue) => Safe(p)'
        BY <3>1 DEF Safe
      <3>. QED
        BY <2>2, <3>1, <3>2, <3>3
    <2>7. CASE UNCHANGED <<queue, packet, sent, refused>>
      BY <2>2, <2>7 DEF Safe
    <2>. QED
      BY <1>2, <2>3, <2>4, <2>5, <2>6, <2>7
         DEF Next, Decoder, Loop, UnchangedByLoop, Receive, PushFrame, PopFrame,
             Pause, Resume, Stop, vars
  <1>3. AllSafe => OnlyRefusedAreMissing
    BY DEF AllSafe, Safe, OnlyRefusedAreMissing, Got
  <1>. QED
    BY <1>1, <1>2, <1>3, TypeCorrect, PTL DEF Spec

-----------------------------------------------------------------------------
(* The order of the stream.                                                  *)
Before(f, g) == f[1] < g[1] \/ (f[1] = g[1] /\ f[2] < g[2])

Ascending(s) == \A i, j \in 1..Len(s) : i < j => Before(s[i], s[j])

(* A sequence over S holds elements of S.                                    *)
LEMMA ElementsIn ==
    ASSUME NEW S, NEW s \in Seq(S) PROVE Elements(s) \subseteq S
  BY DEF Elements

(* Order is kept by pushing a later frame, ...                               *)
LEMMA AscendingAppend ==
    ASSUME NEW s \in Seq(Frames), NEW f \in Frames, Ascending(s),
           \A e \in Elements(s) : Before(e, f)
    PROVE  Ascending(Append(s, f))
  <1>1. /\ Len(Append(s, f)) = Len(s) + 1 /\ Len(s) \in Nat
        /\ Append(s, f)[Len(s) + 1] = f
        /\ \A i \in 1..Len(s) : Append(s, f)[i] = s[i]
    OBVIOUS
  <1>2. \A i \in 1..Len(s) : Before(s[i], f)
    BY DEF Elements
  <1>. SUFFICES ASSUME NEW i \in 1..(Len(s) + 1), NEW j \in 1..(Len(s) + 1), i < j
                PROVE  Before(Append(s, f)[i], Append(s, f)[j])
    BY <1>1 DEF Ascending
  <1>3. CASE j = Len(s) + 1
    BY <1>1, <1>2, <1>3
  <1>4. CASE j # Len(s) + 1
    <2>1. i \in 1..Len(s) /\ j \in 1..Len(s)
      BY <1>1, <1>4
    <2>. QED
      BY <1>1, <2>1 DEF Ascending
  <1>. QED
    BY <1>3, <1>4

(* ... by taking the first one, which comes before the others, ...           *)
LEMMA AscendingTail ==
    ASSUME NEW s \in Seq(Frames), s # << >>, Ascending(s)
    PROVE  /\ Ascending(Tail(s))
           /\ \A e \in Elements(Tail(s)) : Before(Head(s), e)
  <1>1. /\ Len(s) \in Nat /\ Len(s) >= 1 /\ Head(s) = s[1]
        /\ Len(Tail(s)) = Len(s) - 1 /\ DOMAIN Tail(s) = 1..(Len(s) - 1)
        /\ \A i \in 1..(Len(s) - 1) : Tail(s)[i] = s[i + 1]
    OBVIOUS
  <1>2. \A i \in 1..(Len(s) - 1) : i + 1 \in 1..Len(s) /\ 1 < i + 1 /\ 1 \in 1..Len(s)
    BY <1>1
  <1>3. \A i \in 1..(Len(s) - 1) : Before(Head(s), Tail(s)[i])
    BY <1>1, <1>2 DEF Ascending
  <1>4. ASSUME NEW i \in 1..(Len(s) - 1), NEW j \in 1..(Len(s) - 1), i < j
        PROVE  Before(Tail(s)[i], Tail(s)[j])
    <2>1. i + 1 < j + 1
      BY <1>4
    <2>. QED
      BY <1>1, <1>2, <2>1 DEF Ascending
  <1>. QED
    BY <1>1, <1>3, <1>4 DEF Ascending, Elements

(* ... and by joining the frames of a later packet.                          *)
LEMMA AscendingConcat ==
    ASSUME NEW s \in Seq(Frames), NEW t \in Seq(Frames), Ascending(s), Ascending(t),
           \A e \in Elements(s), f \in Elements(t) : Before(e, f)
    PROVE  Ascending(s \o t)
  <1>1. /\ Len(s) \in Nat /\ Len(t) \in Nat /\ Len(s \o t) = Len(s) + Len(t)
        /\ \A i \in 1..Len(s) : (s \o t)[i] = s[i]
        /\ \A i \in (Len(s) + 1)..(Len(s) + Len(t)) : (s \o t)[i] = t[i - Len(s)]
    OBVIOUS
  <1>2. \A i \in 1..Len(s), j \in 1..Len(t) : Before(s[i], t[j])
    BY DEF Elements
  <1>. SUFFICES ASSUME NEW i \in 1..(Len(s) + Len(t)), NEW j \in 1..(Len(s) + Len(t)), i < j
                PROVE  Before((s \o t)[i], (s \o t)[j])
    BY <1>1 DEF Ascending
  <1>3. CASE j \in 1..Len(s)
    <2>1. i \in 1..Len(s)
      BY <1>1, <1>3
    <2>. QED
      BY <1>1, <1>3, <2>1 DEF Ascending
  <1>4. CASE j \notin 1..Len(s)
    <2>1. j \in (Len(s) + 1)..(Len(s) + Len(t)) /\ j - Len(s) \in 1..Len(t)
      BY <1>1, <1>4
    <2>2. CASE i \in 1..Len(s)
      BY <1>1, <1>2, <2>1, <2>2
    <2>3. CASE i \notin 1..Len(s)
      <3>1. /\ i \in (Len(s) + 1)..(Len(s) + Len(t)) /\ i - Len(s) \in 1..Len(t)
            /\ i - Len(s) < j - Len(s)
        BY <1>1, <2>1, <2>3
      <3>. QED
        BY <1>1, <2>1, <3>1 DEF Ascending
    <2>. QED
      BY <2>2, <2>3
  <1>. QED
    BY <1>3, <1>4

(* A packet's own frames come in order, and belong to it.                    *)
LEMMA FramesOfAscend ==
    ASSUME TypeOK, NEW p \in Packets
    PROVE  /\ Ascending(FramesOf(p))
           /\ \A f \in Elements(FramesOf(p)) : f[1] = p
  <1>1. Len(FramesOf(p)) = yield[p] /\ yield[p] \in Nat
    BY FramesOfPacket, BoundsAssumption DEF TypeOK
  <1>2. \A i \in 1..yield[p] : FramesOf(p)[i] = <<p, i>>
    BY DEF FramesOf
  <1>3. Elements(FramesOf(p)) = {<<p, i>> : i \in 1..yield[p]}
    BY <1>2 DEF Elements, FramesOf
  <1>. QED
    BY <1>1, <1>2, <1>3 DEF Ascending, Before

-----------------------------------------------------------------------------
(* The packets still to be decoded, in the order of the stream.              *)
PacketsInOrder ==
    /\ packet <= sent
    /\ \A q \in Elements(queue) : packet < q /\ q <= sent
    /\ \A i, j \in 1..Len(queue) : i < j => queue[i] < queue[j]

(* Every step keeps the packets in order.                                    *)
LEMMA PacketsStep ==
    ASSUME TypeOK, PacketsInOrder, [Next]_vars PROVE PacketsInOrder'
  <1>1. /\ queue \in Seq(Packets) /\ sent \in Nat /\ packet \in Nat
        /\ Elements(queue) \subseteq Packets
    <2>1. queue \in Seq(Packets)
      BY DEF TypeOK
    <2>2. sent \in Nat /\ packet \in Nat
      BY BoundsAssumption DEF TypeOK, Packets
    <2>. QED
      BY <2>1, <2>2, ElementsIn
  <1>2. CASE PushPacket
    <2>1. packet' = packet /\ sent' = sent + 1 /\ queue' = Append(queue, sent + 1)
          /\ sent < MaxPackets
      BY <1>2 DEF PushPacket
    <2>2. sent + 1 \in Packets
      BY <1>1, <2>1, BoundsAssumption DEF Packets
    <2>3. Elements(queue') = Elements(queue) \cup {sent + 1}
      BY <1>1, <2>1, <2>2, ElementsAppend
    <2>4. packet' <= sent' /\ \A q \in Elements(queue') : packet' < q /\ q <= sent'
      BY <1>1, <2>1, <2>3 DEF PacketsInOrder, Packets
    <2>5. ASSUME NEW i \in 1..Len(queue'), NEW j \in 1..Len(queue'), i < j
          PROVE  queue'[i] < queue'[j]
      <3>1. /\ Len(queue') = Len(queue) + 1 /\ Len(queue) \in Nat
            /\ queue'[Len(queue) + 1] = sent + 1
            /\ \A k \in 1..Len(queue) : queue'[k] = queue[k]
        BY <1>1, <2>1, <2>2
      <3>2. i \in 1..Len(queue)
        BY <2>5, <3>1
      <3>3. queue[i] \in Elements(queue)
        BY <1>1, <3>2 DEF Elements
      <3>4. queue[i] <= sent /\ queue[i] \in Nat
        BY <1>1, <3>3 DEF PacketsInOrder, Packets
      <3>5. CASE j = Len(queue) + 1
        BY <1>1, <3>1, <3>2, <3>4, <3>5
      <3>6. CASE j # Len(queue) + 1
        <4>1. j \in 1..Len(queue)
          BY <2>5, <3>1, <3>6
        <4>. QED
          BY <2>5, <3>1, <3>2, <4>1 DEF PacketsInOrder
      <3>. QED
        BY <3>5, <3>6
    <2>. QED
      BY <2>4, <2>5 DEF PacketsInOrder
  <1>3. CASE Pop
    <2>1. queue # << >> /\ packet' = Head(queue) /\ queue' = Tail(queue) /\ sent' = sent
      BY <1>3 DEF Pop
    <2>2. /\ Len(queue) \in Nat /\ Len(queue) >= 1 /\ Head(queue) = queue[1]
          /\ Len(queue') = Len(queue) - 1 /\ DOMAIN queue' = 1..(Len(queue) - 1)
          /\ \A i \in 1..(Len(queue) - 1) : queue'[i] = queue[i + 1]
      BY <1>1, <2>1
    <2>3. Elements(queue) = {packet'} \cup Elements(queue')
      BY <1>1, <2>1, ElementsTail
    <2>4. \A i \in 1..(Len(queue) - 1) : i + 1 \in 1..Len(queue) /\ 1 < i + 1
                                         /\ 1 \in 1..Len(queue)
      BY <2>2
    <2>5. \A i \in 1..(Len(queue) - 1) : packet' < queue'[i]
      BY <2>1, <2>2, <2>4 DEF PacketsInOrder
    <2>6. ASSUME NEW i \in 1..Len(queue'), NEW j \in 1..Len(queue'), i < j
          PROVE  queue'[i] < queue'[j]
      <3>1. i + 1 < j + 1
        BY <2>2, <2>6
      <3>. QED
        BY <2>2, <2>4, <3>1 DEF PacketsInOrder
    <2>7. \A q \in Elements(queue') : packet' < q
      BY <2>2, <2>5 DEF Elements
    <2>. QED
      BY <2>1, <2>3, <2>6, <2>7 DEF PacketsInOrder
  <1>4. CASE packet' = 0 /\ queue' = queue /\ sent' = sent
    BY <1>1, <1>4 DEF PacketsInOrder, Packets
  <1>5. CASE UNCHANGED <<packet, queue, sent>>
    BY <1>5 DEF PacketsInOrder
  <1>. QED
    BY <1>2, <1>3, <1>4, <1>5
       DEF Next, Decoder, Loop, UnchangedByLoop, SendFails, SendRefused, SendAccepted,
           Receive, PushFrame, PopFrame, Pause, Resume, Stop, vars

-----------------------------------------------------------------------------
(* The ring's frames come before the one in hand, that before those in the   *)
(* codec, and all of them before the packets not yet decoded.                *)
OrderInv ==
    /\ Ascending(out) /\ Ascending(held)
    /\ \A f \in Elements(out), g \in Elements(held) : Before(f, g)
    /\ pc = "peek" => /\ \A f \in Elements(out) : Before(f, frame)
                      /\ \A g \in Elements(held) : Before(frame, g)
    /\ \A f \in Got : /\ f[1] <= sent
                      /\ packet # 0 => f[1] < packet
                      /\ \A q \in Elements(queue) : f[1] < q

(* No step but an accepted packet brings new frames.                         *)
LEMMA NoneAdded ==
    ASSUME TypeOK, [Next]_vars, ~SendAccepted
    PROVE  Got' \subseteq Got \cup {NoFrame}
  <1>1. held \in Seq(Frames) /\ out \in Seq(Frames)
    BY DEF TypeOK
  <1>2. CASE Receive
    <2>1. out' = out
      BY <1>2 DEF Receive
    <2>2. CASE Len(held) > Delay
      <3>1. held # << >> /\ frame' = Head(held) /\ held' = Tail(held)
        BY <1>1, <1>2, <2>2, BoundsAssumption DEF Receive
      <3>2. Elements(held) = {frame'} \cup Elements(held')
        BY <1>1, <3>1, ElementsTail
      <3>. QED
        BY <2>1, <3>2 DEF Got
    <2>3. CASE ~(Len(held) > Delay)
      BY <1>2, <2>3 DEF Receive, Got
    <2>. QED
      BY <2>2, <2>3
  <1>3. CASE PushFrame
    <2>1. frame \in Frames /\ out' = Append(out, frame) /\ held' = held /\ frame' = NoFrame
      BY <1>3 DEF PushFrame, TypeOK
    <2>2. Elements(out') = Elements(out) \cup {frame}
      BY <1>1, <2>1, ElementsAppend
    <2>. QED
      BY <2>1, <2>2 DEF Got
  <1>4. CASE UNCHANGED <<held, out, frame>>
    BY <1>4 DEF Got
  <1>. QED
    BY <1>2, <1>3, <1>4
       DEF Next, Decoder, Loop, UnchangedByLoop, Pop, SendFails, SendRefused,
           PushPacket, PopFrame, Pause, Resume, Stop, vars

(* Every step keeps the frames in order.                                     *)
LEMMA OrderStep ==
    ASSUME TypeOK, PacketsInOrder, OrderInv, [Next]_vars PROVE OrderInv'
  <1>1. /\ held \in Seq(Frames) /\ out \in Seq(Frames) /\ queue \in Seq(Packets)
        /\ sent \in Nat /\ packet \in Nat
    BY BoundsAssumption DEF TypeOK, Packets
  <1>2. /\ \A f \in Got : f[1] \in Nat /\ f[2] \in Nat
        /\ Elements(queue) \subseteq Packets
    <2>1. Elements(held) \subseteq Frames /\ Elements(out) \subseteq Frames
      BY <1>1, ElementsIn
    <2>2. frame = NoFrame \/ frame \in Frames
      BY DEF TypeOK
    <2>3. \A f \in Frames : f[1] \in Nat /\ f[2] \in Nat
      BY DEF Frames, Packets
    <2>4. NoFrame[1] \in Nat /\ NoFrame[2] \in Nat
      BY DEF NoFrame
    <2>. QED
      BY <1>1, <2>1, <2>2, <2>3, <2>4, ElementsIn DEF Got
  (* The packets' side, for every step that decodes nothing.                 *)
  <1>3. ASSUME ~SendAccepted
        PROVE  \A f \in Got' : /\ f[1] <= sent'
                               /\ packet' # 0 => f[1] < packet'
                               /\ \A q \in Elements(queue') : f[1] < q
    <2>. SUFFICES ASSUME NEW f \in Got'
                  PROVE  /\ f[1] <= sent'
                         /\ packet' # 0 => f[1] < packet'
                         /\ \A q \in Elements(queue') : f[1] < q
      OBVIOUS
    <2>1. CASE f = NoFrame
      <3>1. /\ TypeOK' /\ f[1] = 0
        BY <2>1, TypeStep DEF NoFrame
      <3>2. /\ sent' \in Nat /\ packet' \in Nat /\ Elements(queue') \subseteq Packets
        <4>1. queue' \in Seq(Packets)
          BY <3>1 DEF TypeOK
        <4>2. sent' \in Nat /\ packet' \in Nat
          BY <3>1, BoundsAssumption DEF TypeOK, Packets
        <4>. QED
          BY <4>1, <4>2, ElementsIn
      <3>. QED
        BY <3>1, <3>2 DEF Packets
    <2>2. CASE f # NoFrame
      <3>1. f \in Got /\ f[1] \in Nat
        BY <1>2, <1>3, <2>2, NoneAdded
      <3>2. /\ f[1] <= sent
            /\ packet # 0 => f[1] < packet
            /\ \A q \in Elements(queue) : f[1] < q
        BY <3>1 DEF OrderInv
      <3>3. CASE PushPacket
        <4>1. packet' = packet /\ sent' = sent + 1 /\ queue' = Append(queue, sent + 1)
              /\ sent < MaxPackets
          BY <3>3 DEF PushPacket
        <4>2. sent + 1 \in Packets
          BY <1>1, <4>1, BoundsAssumption DEF Packets
        <4>3. Elements(queue') = Elements(queue) \cup {sent + 1}
          BY <1>1, <4>1, <4>2, ElementsAppend
        <4>4. f[1] <= sent + 1 /\ f[1] < sent + 1
          BY <1>1, <3>1, <3>2
        <4>. QED
          BY <3>2, <4>1, <4>3, <4>4
      <3>4. CASE Pop
        <4>1. queue # << >> /\ packet' = Head(queue) /\ queue' = Tail(queue) /\ sent' = sent
          BY <3>4 DEF Pop
        <4>2. Elements(queue) = {packet'} \cup Elements(queue')
          BY <1>1, <4>1, ElementsTail
        <4>. QED
          BY <3>2, <4>1, <4>2
      <3>5. CASE packet' \in {0, packet} /\ queue' = queue /\ sent' = sent
        BY <3>2, <3>5
      <3>. QED
        BY <1>3, <3>3, <3>4, <3>5
           DEF Next, Decoder, Loop, UnchangedByLoop, SendFails, SendRefused,
               Receive, PushFrame, PopFrame, Pause, Resume, Stop, vars
    <2>. QED
      BY <2>1, <2>2
  <1>4. CASE SendAccepted
    <2>1. /\ packet \in Packets /\ pc' = "receive" /\ packet' = 0
          /\ UNCHANGED <<out, frame, queue, sent>> /\ held' = held \o FramesOf(packet)
      BY <1>4 DEF SendAccepted, TypeOK
    <2>2. /\ FramesOf(packet) \in Seq(Frames) /\ Ascending(FramesOf(packet))
          /\ \A f \in Elements(FramesOf(packet)) : f[1] = packet
      BY <2>1, FramesOfPacket, FramesOfAscend
    <2>3. Elements(held') = Elements(held) \cup Elements(FramesOf(packet))
      BY <1>1, <2>1, <2>2, ElementsConcat
    <2>4. packet # 0 /\ \A f \in Got : f[1] < packet
      BY <2>1 DEF OrderInv, Packets
    <2>5. \A f \in Got, g \in Elements(FramesOf(packet)) : Before(f, g)
      BY <2>2, <2>4 DEF Before
    <2>6. Ascending(held')
      <3>1. \A f \in Elements(held), g \in Elements(FramesOf(packet)) : Before(f, g)
        BY <2>5 DEF Got
      <3>2. Ascending(held)
        BY DEF OrderInv
      <3>. QED
        BY <1>1, <2>1, <2>2, <3>1, <3>2, AscendingConcat
    <2>7. \A f \in Elements(out), g \in Elements(held') : Before(f, g)
      BY <2>3, <2>5 DEF OrderInv, Got
    <2>8. Got' = Got \cup Elements(FramesOf(packet))
      BY <2>1, <2>3 DEF Got
    <2>9. \A f \in Got' : f[1] <= sent' /\ \A q \in Elements(queue') : f[1] < q
      BY <2>1, <2>2, <2>8 DEF OrderInv, PacketsInOrder
    <2>. QED
      BY <2>1, <2>6, <2>7, <2>9 DEF OrderInv
  <1>5. CASE Receive
    <2>1. ~SendAccepted /\ out' = out /\ pc = "receive"
      BY <1>5 DEF Receive, SendAccepted
    <2>2. CASE Len(held) > Delay
      <3>1. held # << >> /\ frame' = Head(held) /\ held' = Tail(held)
        BY <1>1, <1>5, <2>2, BoundsAssumption DEF Receive
      <3>2. Elements(held) = {frame'} \cup Elements(held')
        BY <1>1, <3>1, ElementsTail
      <3>3. Ascending(held') /\ \A g \in Elements(held') : Before(frame', g)
        BY <1>1, <3>1, AscendingTail DEF OrderInv
      <3>. QED
        BY <1>3, <2>1, <3>2, <3>3 DEF OrderInv
    <2>3. CASE ~(Len(held) > Delay)
      <3>1. held' = held /\ pc' = "loop"
        BY <1>5, <2>3 DEF Receive
      <3>. QED
        BY <1>3, <2>1, <3>1 DEF OrderInv
    <2>. QED
      BY <2>2, <2>3
  <1>6. CASE PushFrame
    <2>1. /\ ~SendAccepted /\ frame \in Frames /\ pc = "peek" /\ pc' = "loop"
          /\ out' = Append(out, frame) /\ held' = held
      BY <1>6 DEF PushFrame, SendAccepted, TypeOK
    <2>2. Elements(out') = Elements(out) \cup {frame}
      BY <1>1, <2>1, ElementsAppend
    <2>3. Ascending(out')
      BY <1>1, <2>1, AscendingAppend DEF OrderInv
    <2>. QED
      BY <1>3, <2>1, <2>2, <2>3 DEF OrderInv
  <1>7. CASE UNCHANGED <<out, held, frame>> /\ (pc' = "peek" => pc = "peek")
             /\ ~SendAccepted
    BY <1>3, <1>7 DEF OrderInv
  <1>. QED
    BY <1>4, <1>5, <1>6, <1>7
       DEF Next, Decoder, Loop, UnchangedByLoop, Pop, SendFails, SendRefused,
           PushPacket, PopFrame, Pause, Resume, Stop, vars

(* For any stream, codec delay, capacities and however many packets are      *)
(* refused: the ring gets the frames in the order of the stream, none twice  *)
(* (AudioDecode.cpp:45-93, VideoDecode.cpp:52-104).                          *)
THEOREM InOrder == Spec => []FramesInOrder
  <1>1. Init => PacketsInOrder /\ OrderInv
    <2>. SUFFICES ASSUME Init PROVE PacketsInOrder /\ OrderInv
      OBVIOUS
    <2>1. /\ out = << >> /\ held = << >> /\ queue = << >> /\ sent = 0 /\ packet = 0
          /\ frame = NoFrame /\ pc = "loop"
      BY DEF Init
    <2>2. Elements(out) = {} /\ Elements(held) = {} /\ Elements(queue) = {}
      BY <2>1, ElementsEmpty
    <2>3. Ascending(out) /\ Ascending(held)
      BY <2>1 DEF Ascending
    <2>4. Got = {NoFrame} /\ NoFrame[1] = 0
      BY <2>1, <2>2 DEF Got, NoFrame
    <2>. QED
      BY <2>1, <2>2, <2>3, <2>4 DEF PacketsInOrder, OrderInv
  <1>2. TypeOK /\ PacketsInOrder /\ OrderInv /\ [Next]_vars
          => (PacketsInOrder /\ OrderInv)'
    BY PacketsStep, OrderStep
  <1>3. OrderInv => FramesInOrder
    BY DEF OrderInv, Ascending, Before, FramesInOrder
  <1>. QED
    BY <1>1, <1>2, <1>3, TypeCorrect, PTL DEF Spec

-----------------------------------------------------------------------------
(* How much of the stream has come through.                                  *)

(* Packets the decoder has done with: all that were sent but those in the    *)
(* queue and the one in hand.                                                *)
Taken   == sent - Len(queue)
Decoded == IF packet = 0 THEN Taken ELSE Taken - 1

(* Of the first n packets those that hold a frame.                           *)
Holding(n) == {p \in 1..n : yield[p] = 1}

(* Once the packet in hand is dealt with, every frame of the packets taken   *)
(* so far is in the ring but the last Delay ones.                            *)
OnlyDelayMissing ==
    SingleFramePackets /\ damaged = {} /\ pc \in {"loop", "pop", "exited"} =>
        LET n == Cardinality(Holding(Taken))
        IN  Len(out) = IF n > Delay THEN n - Delay ELSE 0

(* The queue holds the last packets sent, without a gap.                     *)
Numbered == /\ \A i \in 1..Len(queue) : queue[i] = Taken + i
            /\ packet # 0 => packet = Taken

InHand  == IF pc = "peek" THEN 1 ELSE 0
Counted == SingleFramePackets /\ damaged = {} =>
             Len(out) + Len(held) + InHand = Cardinality(Holding(Decoded))

(* The first frame comes only when the codec has enough of them.             *)
Filled == out # << >> \/ pc = "peek" => Len(held) >= Delay

LEMMA HoldingFinite ==
    ASSUME NEW n \in Nat
    PROVE  IsFiniteSet(Holding(n)) /\ Cardinality(Holding(n)) \in Nat
  <1>1. IsFiniteSet(1..n)
    BY FS_Interval
  <1>2. IsFiniteSet(Holding(n))
    BY <1>1, FS_Subset DEF Holding
  <1>. QED
    BY <1>2, FS_CardinalityType

(* One more packet is one more frame, or none.                               *)
LEMMA HoldingOneMore ==
    ASSUME NEW n \in Nat, yield[n + 1] \in {0, 1}
    PROVE  Cardinality(Holding(n + 1)) = Cardinality(Holding(n)) + yield[n + 1]
  <1>1. IsFiniteSet(Holding(n)) /\ Cardinality(Holding(n)) \in Nat
    BY HoldingFinite
  <1>2. CASE yield[n + 1] = 1
    <2>1. Holding(n + 1) = Holding(n) \cup {n + 1}
      BY <1>2 DEF Holding
    <2>2. n + 1 \notin Holding(n)
      BY DEF Holding
    <2>3. Cardinality(Holding(n) \cup {n + 1}) = Cardinality(Holding(n)) + 1
      BY <1>1, <2>2, FS_AddElement
    <2>. QED
      BY <1>2, <2>1, <2>3
  <1>3. CASE yield[n + 1] = 0
    <2>1. Holding(n + 1) = Holding(n)
      BY <1>3 DEF Holding
    <2>. QED
      BY <1>1, <1>3, <2>1
  <1>. QED
    BY <1>2, <1>3

LEMMA NumberedStep == TypeOK /\ Numbered /\ [Next]_vars => Numbered'
  <1>. SUFFICES ASSUME TypeOK, Numbered, [Next]_vars PROVE Numbered'
    OBVIOUS
  <1>1. queue \in Seq(Packets) /\ Len(queue) \in Nat /\ sent \in Nat
    BY BoundsAssumption DEF TypeOK
  <1>2. CASE PushPacket
    <2>1. sent' = sent + 1 /\ queue' = Append(queue, sent + 1) /\ packet' = packet
      BY <1>2 DEF PushPacket
    <2>2. /\ Len(queue') = Len(queue) + 1 /\ queue'[Len(queue) + 1] = sent + 1
          /\ \A i \in 1..Len(queue) : queue'[i] = queue[i]
      BY <1>1, <2>1
    <2>3. Taken' = Taken /\ Taken + Len(queue) = sent /\ Taken \in Int
      BY <1>1, <2>1, <2>2 DEF Taken
    <2>4. ASSUME NEW i \in 1..Len(queue') PROVE queue'[i] = Taken' + i
      <3>1. CASE i = Len(queue) + 1
        BY <1>1, <2>2, <2>3, <3>1
      <3>2. CASE i # Len(queue) + 1
        <4>1. i \in 1..Len(queue)
          BY <1>1, <2>2, <3>2
        <4>. QED
          BY <2>2, <2>3, <4>1 DEF Numbered
      <3>. QED
        BY <3>1, <3>2
    <2>. QED
      BY <2>1, <2>3, <2>4 DEF Numbered
  <1>3. CASE Pop
    <2>1. queue # << >> /\ queue' = Tail(queue) /\ packet' = Head(queue) /\ sent' = sent
      BY <1>3 DEF Pop
    <2>2. /\ Len(queue) >= 1 /\ Len(queue') = Len(queue) - 1 /\ packet' = queue[1]
          /\ \A i \in 1..Len(queue') : queue'[i] = queue[i + 1] /\ i + 1 \in 1..Len(queue)
      BY <1>1, <2>1
    <2>3. Taken' = Taken + 1 /\ Taken \in Int
      BY <1>1, <2>1, <2>2 DEF Taken
    <2>4. packet' = Taken'
      BY <1>1, <2>2, <2>3 DEF Numbered
    <2>5. ASSUME NEW i \in 1..Len(queue') PROVE queue'[i] = Taken' + i
      <3>1. queue'[i] = Taken + (i + 1)
        BY <2>2 DEF Numbered
      <3>. QED
        BY <2>3, <3>1
    <2>. QED
      BY <2>4, <2>5 DEF Numbered
  <1>4. CASE queue' = queue /\ sent' = sent /\ packet' \in {0, packet}
    BY <1>4 DEF Numbered, Taken
  <1>. QED
    BY <1>2, <1>3, <1>4 DEF Next, Decoder, Loop, UnchangedByLoop, SendFails,
       SendRefused, SendAccepted, Receive, PushFrame, PopFrame, Pause, Resume,
       Stop, vars

LEMMA FilledStep == TypeOK /\ Filled /\ [Next]_vars => Filled'
  <1>. SUFFICES ASSUME TypeOK, Filled, [Next]_vars PROVE Filled'
    OBVIOUS
  <1>1. held \in Seq(Frames) /\ Len(held) \in Nat /\ Delay \in Nat
    BY BoundsAssumption DEF TypeOK
  <1>2. CASE SendAccepted
    <2>1. FramesOf(packet) \in Seq(Frames)
      BY <1>2, FramesOfPacket DEF SendAccepted, TypeOK
    <2>2. Len(held') >= Len(held) /\ Len(held') \in Nat
      BY <1>1, <1>2, <2>1 DEF SendAccepted
    <2>. QED
      BY <1>1, <1>2, <2>2 DEF SendAccepted, Filled
  <1>3. CASE Receive
    <2>1. CASE Len(held) > Delay
      <3>1. held' = Tail(held) /\ held # << >>
        BY <1>1, <1>3, <2>1 DEF Receive
      <3>2. Len(held') = Len(held) - 1
        BY <1>1, <3>1
      <3>. QED
        BY <1>1, <2>1, <3>2 DEF Filled
    <2>2. CASE ~(Len(held) > Delay)
      BY <1>3, <2>2 DEF Receive, Filled
    <2>. QED
      BY <2>1, <2>2
  <1>4. CASE PushFrame
    BY <1>4 DEF PushFrame, Filled
  <1>5. CASE held' = held /\ out' = out /\ pc' # "peek"
    BY <1>5 DEF Filled
  <1>6. CASE UNCHANGED <<held, out, pc>>
    BY <1>6 DEF Filled
  <1>. QED
    BY <1>2, <1>3, <1>4, <1>5, <1>6 DEF Next, Decoder, Loop, UnchangedByLoop, Pop,
       SendFails, SendRefused, PushPacket, PopFrame, Pause, Resume, Stop, vars

LEMMA LengthsAdd ==
    ASSUME NEW s \in Seq(Frames), NEW t \in Seq(Frames)
    PROVE  Len(s \o t) = Len(s) + Len(t)
  OBVIOUS

LEMMA CountedStep ==
  TypeOK /\ CodecDrained /\ Numbered /\ Counted /\ [Next]_vars => Counted'
  <1>. SUFFICES ASSUME TypeOK, CodecDrained, Numbered, Counted, [Next]_vars,
                       SingleFramePackets', damaged' = {}
                PROVE  Len(out') + Len(held') + InHand'
                         = Cardinality(Holding(Decoded))'
    BY DEF Counted
  <1>1. /\ yield' = yield /\ damaged = {} /\ SingleFramePackets
        /\ held \in Seq(Frames) /\ out \in Seq(Frames) /\ queue \in Seq(Packets)
        /\ Len(held) \in Nat /\ Len(out) \in Nat /\ Len(queue) \in Nat
        /\ sent \in Nat /\ Delay \in Nat /\ Backlog \in Nat
    BY StreamFixed, BoundsAssumption DEF TypeOK, SingleFramePackets
  <1>2. /\ Len(out) + Len(held) + InHand = Cardinality(Holding(Decoded))
        /\ Len(held) <= Delay + (IF pc = "receive" THEN 1 ELSE 0)
    BY <1>1 DEF Counted, CodecDrained
  <1>3. ASSUME Decoded' = Decoded
        PROVE  Cardinality(Holding(Decoded))' = Cardinality(Holding(Decoded))
    BY <1>1, <1>3 DEF Holding
  <1>4. CASE PushPacket
    <2>1. Taken' = Taken
      BY <1>1, <1>4 DEF PushPacket, Taken
    <2>. QED
      BY <1>2, <1>3, <1>4, <2>1 DEF PushPacket, Decoded, InHand
  <1>5. CASE Pop
    <2>1. /\ Len(queue') = Len(queue) - 1 /\ packet = 0 /\ packet' # 0
          /\ sent' = sent
      <3>1. queue # << >> /\ queue' = Tail(queue) /\ packet' = Head(queue) /\ pc = "pop"
            /\ sent' = sent
        BY <1>5 DEF Pop
      <3>2. packet' \in Packets /\ Len(queue') = Len(queue) - 1
        BY <1>1, <3>1
      <3>. QED
        BY <3>1, <3>2 DEF TypeOK, Packets
    <2>2. Decoded' = Decoded
      BY <1>1, <2>1 DEF Decoded, Taken
    <2>. QED
      BY <1>2, <1>3, <1>5, <2>2 DEF Pop, InHand
  <1>6. CASE SendFails \/ SendRefused
    <2>1. pc = "send" /\ damaged = {}
      BY <1>1, <1>6 DEF SendFails, SendRefused
    <2>2. Len(held) <= Delay
      BY <1>1, <1>2, <2>1
    <2>. QED
      BY <1>1, <1>6, <2>1, <2>2 DEF SendFails, SendRefused, MustReceiveFirst
  <1>7. CASE SendAccepted
    <2>1. /\ packet \in Packets /\ packet = Taken /\ packet' = 0 /\ pc = "send"
          /\ pc' = "receive" /\ out' = out /\ held' = held \o FramesOf(packet)
          /\ sent' = sent /\ queue' = queue
      BY <1>7 DEF SendAccepted, TypeOK, Numbered, Packets
    <2>2. packet \in Nat /\ packet >= 1 /\ packet - 1 \in Nat
      BY <2>1, BoundsAssumption DEF Packets
    <2>3. Decoded = packet - 1 /\ Decoded' = packet
      BY <2>1, <2>2 DEF Decoded, Taken
    <2>4. yield[packet] \in {0, 1}
      <3>1. yield[packet] <= 1
        BY <1>1, <2>1 DEF SingleFramePackets
      <3>2. yield[packet] \in Nat
        BY <2>1, BoundsAssumption DEF TypeOK
      <3>. QED
        BY <3>1, <3>2
    <2>5. Len(held') = Len(held) + yield[packet]
      <3>1. FramesOf(packet) \in Seq(Frames) /\ Len(FramesOf(packet)) = yield[packet]
        BY <2>1, FramesOfPacket
      <3>2. Len(held \o FramesOf(packet)) = Len(held) + Len(FramesOf(packet))
        BY <1>1, <3>1, LengthsAdd
      <3>. QED
        BY <2>1, <3>1, <3>2
    <2>6. Cardinality(Holding(packet)) = Cardinality(Holding(packet - 1)) + yield[packet]
      <3>1. (packet - 1) + 1 = packet
        BY <2>2
      <3>. QED
        BY <2>2, <2>4, <3>1, HoldingOneMore
    <2>7. Cardinality(Holding(packet - 1)) \in Nat
      BY <2>2, HoldingFinite
    <2>8. Cardinality(Holding(Decoded))' = Cardinality(Holding(packet))
      BY <1>1, <2>3 DEF Holding
    <2>9. Len(out) + Len(held) = Cardinality(Holding(packet - 1)) /\ InHand' = 0
      BY <1>1, <1>2, <2>1, <2>3 DEF InHand
    <2>. QED
      BY <1>1, <2>1, <2>4, <2>5, <2>6, <2>7, <2>8, <2>9
  <1>8. CASE Receive
    <2>1. Decoded' = Decoded /\ out' = out /\ pc = "receive"
      BY <1>8 DEF Receive, Decoded, Taken
    <2>2. CASE Len(held) > Delay
      <3>1. held # << >> /\ held' = Tail(held) /\ pc' = "peek"
        BY <1>1, <1>8, <2>2 DEF Receive
      <3>2. Len(held') = Len(held) - 1
        BY <1>1, <3>1
      <3>. QED
        BY <1>1, <1>2, <1>3, <2>1, <3>1, <3>2 DEF InHand
    <2>3. CASE ~(Len(held) > Delay)
      BY <1>2, <1>3, <1>8, <2>1, <2>3 DEF Receive, InHand
    <2>. QED
      BY <2>2, <2>3
  <1>9. CASE PushFrame
    <2>1. Decoded' = Decoded /\ held' = held /\ InHand = 1 /\ InHand' = 0
      BY <1>9 DEF PushFrame, Decoded, Taken, InHand
    <2>2. Len(out') = Len(out) + 1
      BY <1>1, <1>9 DEF PushFrame
    <2>. QED
      BY <1>1, <1>2, <1>3, <2>1, <2>2
  <1>10. CASE /\ UNCHANGED <<packet, queue, sent, held, out>>
              /\ pc' = "peek" <=> pc = "peek"
    BY <1>2, <1>3, <1>10 DEF Decoded, Taken, InHand
  <1>. QED
    BY <1>4, <1>5, <1>6, <1>7, <1>8, <1>9, <1>10
       DEF Next, Decoder, Loop, UnchangedByLoop, PopFrame, Pause, Resume, Stop, vars

(* The safety half of AllButDelayDelivered, at every point of the stream and *)
(* through pauses, stops and full rings: nothing is missing but what the     *)
(* codec holds back; at the end of the file (nothing in the queue, all sent) *)
(* that is for good, as nobody drains the codec (FFDemux.cpp:116-121,        *)
(* AudioDecode.cpp:45-93, VideoDecode.cpp:52-104).                           *)
THEOREM DelayBehind == Spec => []OnlyDelayMissing
  <1>1. Init => Numbered /\ Filled /\ Counted
    <2>. SUFFICES ASSUME Init PROVE Numbered /\ Filled /\ Counted
      OBVIOUS
    <2>1. /\ out = << >> /\ held = << >> /\ queue = << >> /\ sent = 0
          /\ packet = 0 /\ pc = "loop"
      BY DEF Init
    <2>2. Taken = 0 /\ Decoded = 0 /\ InHand = 0
      <3>1. Len(queue) = 0 /\ pc # "peek"
        BY <2>1
      <3>2. Taken = 0
        <4>1. Taken = sent - Len(queue)
          BY DEF Taken
        <4>2. Taken = 0 - 0
          BY <2>1, <3>1, <4>1, Zenon
        <4>. QED
          BY <4>2
      <3>. QED
        BY <2>1, <3>1, <3>2 DEF Decoded, InHand
    <2>3. Holding(0) = {}
      BY DEF Holding
    <2>4. Cardinality(Holding(0)) = 0
      BY <2>3, FS_EmptySet
    <2>5. Len(out) + Len(held) + InHand = 0
      BY <2>1, <2>2
    <2>. QED
      BY <2>1, <2>2, <2>4, <2>5 DEF Numbered, Filled, Counted
  <1>2. TypeOK /\ CodecDrained /\ Filled /\ Counted => OnlyDelayMissing
    <2>. SUFFICES ASSUME TypeOK, CodecDrained, Filled, Counted, SingleFramePackets,
                         damaged = {}, pc \in {"loop", "pop", "exited"}
                  PROVE  Len(out) = IF Cardinality(Holding(Taken)) > Delay
                                      THEN Cardinality(Holding(Taken)) - Delay ELSE 0
      BY DEF OnlyDelayMissing
    <2>1. /\ Len(out) \in Nat /\ Len(held) \in Nat /\ Delay \in Nat
          /\ out # << >> => Len(out) > 0
          /\ out = << >> => Len(out) = 0
      BY BoundsAssumption DEF TypeOK
    <2>2. Len(held) <= Delay /\ (out # << >> => Len(held) = Delay)
      BY <2>1 DEF CodecDrained, Filled
    <2>3. packet = 0 /\ InHand = 0
      BY DEF TypeOK, InHand
    <2>4. Len(out) + Len(held) = Cardinality(Holding(Taken))
      BY <2>1, <2>3 DEF Counted, Decoded
    <2>. QED
      BY <2>1, <2>2, <2>4
  <1>. QED
    BY <1>1, <1>2, TypeCorrect, Drained, NumberedStep, FilledStep, CountedStep, PTL
       DEF Spec
=============================================================================

------------------------------- MODULE Decode -------------------------------
(* xplayer/decode: the decoder's thread (IDecode::run and decodePacket of    *)
(* AudioDecode and VideoDecode) between its packet queue and its frame ring, *)
(* here the bounded FIFOs that Queue and FrameQueue are shown to implement.  *)
(* The codec is FFmpeg's, as the contract of avcodec_send_packet and         *)
(* avcodec_receive_frame has it: it holds frames back for reordering, and    *)
(* refuses a packet (EAGAIN) until a frame is received from it.              *)
EXTENDS Naturals, Sequences, FiniteSets

CONSTANTS MaxPackets,  \* bound: packets in the stream
          Yields,      \* how many frames a packet may decode into
          Delay,       \* frames the codec holds back for reordering
          Backlog,     \* frames ready in the codec that do not make it refuse
          PacketCap,   \* size_max of the packet queue
          RingCap      \* max_size of the frame ring

ASSUME BoundsAssumption == /\ MaxPackets \in Nat /\ Yields \subseteq Nat
                           /\ Delay \in Nat /\ Backlog \in Nat
                           /\ PacketCap \in Nat \ {0} /\ RingCap \in Nat \ {0}

VARIABLES kind,     \* "audio" or "video": whose decodePacket() runs
          yield,    \* the stream: how many frames each packet holds
          damaged,  \* the stream: packets avcodec_send_packet() rejects
          sent,     \* packets the demuxer has pushed
          queue,    \* packetQueue
          pc,       \* where decodePacket() is
          packet,   \* the packet in hand
          frame,    \* the frame in hand
          held,     \* the codec's frames, oldest first
          refused,  \* packets refused with EAGAIN
          out,      \* every frame pushed to the ring so far
          ring,     \* how many of them are in the ring
          paused, aborted,  \* pauseRequest, abortRequest
          late,     \* frames pushed since the last pause or stop request
          owed      \* packets refused since the last frame was pushed

vars == <<kind, yield, damaged, sent, queue, pc, packet, frame, held, refused,
          out, ring, paused, aborted, late, owed>>
stream  == <<kind, yield, damaged>>
control == <<paused, aborted>>

Packets  == 1..MaxPackets
Frames   == Packets \X (Nat \ {0})
NoFrame  == <<0, 0>>

(* The frames of packet p, in order.                                         *)
FramesOf(p) == [i \in 1..yield[p] |-> <<p, i>>]

(* loop: the head of the for (;;)      pop: in packetQueue->pop()            *)
(* send, receive: calls of the codec   peek: in frameQueue->peekWritable()   *)
PCs == {"loop", "pop", "send", "receive", "peek", "exited"}

Init == /\ kind \in {"audio", "video"}
        /\ yield \in [Packets -> Yields]
        /\ damaged \in SUBSET Packets
        /\ sent = 0 /\ queue = << >>
        /\ pc = "loop" /\ packet = 0 /\ frame = NoFrame
        /\ held = << >> /\ refused = {}
        /\ out = << >> /\ ring = 0
        /\ paused = FALSE /\ aborted = FALSE
        /\ late = 0 /\ owed = 0

-----------------------------------------------------------------------------
(* The demuxer's pushPacket(): refuses nothing but blocks on a full queue.   *)
(* (A push that blocks when the stop comes may yet get through; the decoder  *)
(* takes one more packet at most by then, so that push is left out.)         *)
PushPacket == /\ sent < MaxPackets /\ ~aborted
              /\ Len(queue) < PacketCap
              /\ sent' = sent + 1
              /\ queue' = Append(queue, sent + 1)
              /\ UNCHANGED <<stream, control, pc, packet, frame, held, refused,
                             out, ring, late, owed>>

(* The synchronisation thread's popFrame().                                  *)
PopFrame == /\ ring > 0
            /\ ring' = ring - 1
            /\ UNCHANGED <<stream, control, sent, queue, pc, packet, frame,
                           held, refused, out, late, owed>>

Pause == /\ ~paused /\ ~aborted
         /\ paused' = TRUE /\ late' = 0
         /\ UNCHANGED <<stream, aborted, sent, queue, pc, packet, frame, held,
                        refused, out, ring, owed>>

Resume == /\ paused
          /\ paused' = FALSE
          /\ UNCHANGED <<stream, aborted, sent, queue, pc, packet, frame, held,
                         refused, out, ring, late, owed>>

Stop == /\ ~aborted
        /\ aborted' = TRUE /\ late' = 0
        /\ UNCHANGED <<stream, paused, sent, queue, pc, packet, frame, held,
                       refused, out, ring, owed>>

-----------------------------------------------------------------------------
UnchangedByLoop == UNCHANGED <<stream, control, sent, queue, packet, frame,
                               held, refused, out, ring, late, owed>>

(* Mutant: a paused thread does not look at the stop request.                *)
LoopPauseFirst ==
    /\ pc = "loop" /\ ~paused
    /\ pc' = IF aborted THEN "exited" ELSE "pop"
    /\ UnchangedByLoop

(* The head of the loop.  A pause is slept through, 500 ms at a time; a stop *)
(* ends decodePacket() and with it run(), which finds the same flag set.     *)
Loop == /\ pc = "loop"
        /\ aborted \/ ~paused
        /\ pc' = IF aborted THEN "exited" ELSE "pop"
        /\ UnchangedByLoop

(* Mutant: the packet is not removed from the queue (peek() for pop()).      *)
PopPeek == /\ pc = "pop" /\ queue # << >>
           /\ packet' = Head(queue)
           /\ pc' = "send"
           /\ UNCHANGED <<stream, control, sent, queue, frame, held, refused,
                          out, ring, late, owed>>

(* packetQueue->pop(), which blocks on an empty queue.                       *)
Pop == /\ pc = "pop" /\ queue # << >>
       /\ packet' = Head(queue) /\ queue' = Tail(queue)
       /\ pc' = "send"
       /\ UNCHANGED <<stream, control, sent, frame, held, refused, out, ring,
                      late, owed>>

(* Does the codec refuse a packet now?  Then a frame is ready: "send" and    *)
(* "receive" never both answer EAGAIN.                                       *)
MustReceiveFirst == Len(held) > Delay + Backlog

(* avcodec_send_packet() fails: the packet is dropped.                       *)
SendFails == /\ pc = "send" /\ packet \in damaged
             /\ pc' = "loop" /\ packet' = 0
             /\ UNCHANGED <<stream, control, sent, queue, frame, held, refused,
                            out, ring, late, owed>>

(* Mutant: audio, too, goes on to receive a frame.                           *)
SendRefusedReceive ==
    /\ pc = "send" /\ packet \notin damaged /\ MustReceiveFirst
    /\ refused' = refused \cup {packet} /\ owed' = owed + 1
    /\ pc' = "receive" /\ packet' = 0
    /\ UNCHANGED <<stream, control, sent, queue, frame, held, out, ring, late>>

(* Mutant: video, too, goes back to the head of the loop.                    *)
SendRefusedContinue ==
    /\ pc = "send" /\ packet \notin damaged /\ MustReceiveFirst
    /\ refused' = refused \cup {packet} /\ owed' = owed + 1
    /\ pc' = "loop" /\ packet' = 0
    /\ UNCHANGED <<stream, control, sent, queue, frame, held, out, ring, late>>

(* EAGAIN: either decoder loses the packet; audio starts over with the next  *)
(* one, video receives a frame first.                                        *)
SendRefused ==
    /\ pc = "send" /\ packet \notin damaged /\ MustReceiveFirst
    /\ refused' = refused \cup {packet} /\ owed' = owed + 1
    /\ pc' = IF kind = "audio" THEN "loop" ELSE "receive"
    /\ packet' = 0
    /\ UNCHANGED <<stream, control, sent, queue, frame, held, out, ring, late>>

SendAccepted ==
    /\ pc = "send" /\ packet \notin damaged /\ ~MustReceiveFirst
    /\ held' = held \o FramesOf(packet)
    /\ pc' = "receive" /\ packet' = 0
    /\ UNCHANGED <<stream, control, sent, queue, frame, refused, out, ring,
                   late, owed>>

(* Mutant: frames are received only when no more packets are waiting.        *)
ReceiveBatched ==
    /\ pc = "receive"
    /\ IF Len(held) > Delay /\ queue = << >>
         THEN frame' = Head(held) /\ held' = Tail(held) /\ pc' = "peek"
         ELSE UNCHANGED <<frame, held>> /\ pc' = "loop"
    /\ UNCHANGED <<stream, control, sent, queue, packet, refused, out, ring,
                   late, owed>>

(* avcodec_receive_frame(): called once for each packet, however many frames *)
(* the codec has.                                                            *)
Receive ==
    /\ pc = "receive"
    /\ IF Len(held) > Delay
         THEN frame' = Head(held) /\ held' = Tail(held) /\ pc' = "peek"
         ELSE UNCHANGED <<frame, held>> /\ pc' = "loop"
    /\ UNCHANGED <<stream, control, sent, queue, packet, refused, out, ring,
                   late, owed>>

(* Mutant: a full ring drops the frame.                                      *)
PushFrameOrDrop ==
    /\ pc = "peek"
    /\ IF ring < RingCap
         THEN /\ out' = Append(out, frame) /\ ring' = ring + 1
              /\ late' = late + 1 /\ owed' = 0
         ELSE UNCHANGED <<out, ring, late, owed>>
    /\ frame' = NoFrame /\ pc' = "loop"
    /\ UNCHANGED <<stream, control, sent, queue, packet, held, refused>>

(* peekWritable() blocks on a full ring, then the frame is pushed.           *)
PushFrame == /\ pc = "peek" /\ ring < RingCap
             /\ out' = Append(out, frame) /\ ring' = ring + 1
             /\ late' = late + 1 /\ owed' = 0
             /\ frame' = NoFrame /\ pc' = "loop"
             /\ UNCHANGED <<stream, control, sent, queue, packet, held, refused>>

Decoder == \/ Loop \/ Pop
           \/ SendFails \/ SendRefused \/ SendAccepted
           \/ Receive \/ PushFrame

Next == Decoder \/ PushPacket \/ PopFrame \/ Pause \/ Resume \/ Stop

Spec == Init /\ [][Next]_vars

(* The decoder's thread is scheduled; the demuxer and the synchronisation    *)
(* thread go on except in a pause or after a stop.                           *)
FairSpec == /\ Spec
            /\ WF_vars(Decoder) /\ WF_vars(~paused /\ PushPacket)
            /\ WF_vars(~paused /\ ~aborted /\ PopFrame)

-----------------------------------------------------------------------------
TypeOK == /\ kind \in {"audio", "video"}
          /\ yield \in [Packets -> Yields] /\ damaged \subseteq Packets
          /\ sent \in 0..MaxPackets
          /\ queue \in Seq(Packets) /\ Len(queue) <= PacketCap
          /\ pc \in PCs
          /\ packet \in Packets \cup {0} /\ (pc = "send" <=> packet # 0)
          /\ frame \in Frames \cup {NoFrame} /\ (pc = "peek" <=> frame # NoFrame)
          /\ held \in Seq(Frames) /\ refused \subseteq Packets
          /\ out \in Seq(Frames) /\ ring \in 0..RingCap
          /\ paused \in BOOLEAN /\ aborted \in BOOLEAN
          /\ late \in Nat /\ owed \in Nat

Elements(s) == {s[i] : i \in DOMAIN s}

(* A packet that neither failed to decode nor was refused has each of its    *)
(* frames delivered, in hand or in the codec: decodePacket() loses nothing   *)
(* by a pause, a full ring or an empty queue (AudioDecode.cpp:28-93,         *)
(* VideoDecode.cpp:40-104).                                                  *)
OnlyRefusedAreMissing ==
    \A p \in (1..sent) \ (refused \cup damaged) :
        \/ p = packet \/ p \in Elements(queue)
        \/ Elements(FramesOf(p)) \subseteq Elements(out) \cup Elements(held) \cup {frame}

(* The ring gets the frames in the order of the stream, none of them twice,  *)
(* whatever was refused in between.                                          *)
FramesInOrder ==
    \A i, j \in 1..Len(out) : i < j =>
        \/ out[i][1] < out[j][1]
        \/ out[i][1] = out[j][1] /\ out[i][2] < out[j][2]

SingleFramePackets == \A p \in Packets : yield[p] <= 1

(* One avcodec_receive_frame() for each packet is enough as long as no       *)
(* packet holds two frames: no packet is then ever refused, whatever the     *)
(* codec's delay.                                                            *)
SingleFramesAccepted == SingleFramePackets => refused = {}

(* The video decoder never asks for another packet before the last refusal   *)
(* has brought a frame, and so never loses two without a frame in between:   *)
(* after EAGAIN it goes on to avcodec_receive_frame, which then has one      *)
(* (VideoDecode.cpp:58-69).  Two packets in a row may be lost all the same,  *)
(* when one before them held several frames.                                 *)
RefusalsArePaid ==
    kind = "video" => owed <= (IF pc \in {"receive", "peek"} THEN 1 ELSE 0)

(* The audio decoder never recovers from a refused packet: "continue"        *)
(* (AudioDecode.cpp:51-52) skips the avcodec_receive_frame that would make   *)
(* the codec accept input again, and no frame reaches the ring any more.     *)
AudioStallsForGood ==
    [][kind = "audio" /\ refused # {} => out' = out]_vars

(* The flags are polled at the head of the loop: after a pause or stop       *)
(* request at most one more frame reaches the ring.                          *)
RequestsSoonObeyed == paused \/ aborted => late <= 1

(* Without a damaged packet or one of several frames, playback that is left  *)
(* alone gets every frame but the last Delay ones: at the end of the file    *)
(* nobody sends the empty packet that drains the codec (FFDemux.cpp:116-121).*)
Deliverable == Cardinality({p \in Packets : yield[p] = 1})
AllButDelayDelivered ==
    SingleFramePackets /\ damaged = {} /\ <>[](~paused /\ ~aborted)
        => <>[](Len(out) = IF Deliverable > Delay THEN Deliverable - Delay ELSE 0)

(* A stopped decoder ends, unless it blocks in pop() or in peekWritable():   *)
(* stop() only sets flags ("not always successful", XThread.h:15).  A pause  *)
(* does not keep it from ending.                                             *)
Blocked == \/ pc = "pop" /\ queue = << >>
           \/ pc = "peek" /\ ring = RingCap
StopEndsOrBlocks == aborted ~> [](pc = "exited" \/ Blocked)

=============================================================================

--------------------------- MODULE PlaybackProofs ---------------------------
(* Proofs about Playback for any file and any capacities.                    *)
EXTENDS Playback, FiniteSetTheorems, TLAPS

-----------------------------------------------------------------------------
(* Counting packets.                                                         *)
LEMMA FileIsSequence == ASSUME TypeOK PROVE file \in Seq(Streams) /\ Len(file) \in Nat
  <1>1. PICK n \in Lengths : file \in [1..n -> Streams]
    BY DEF TypeOK, Files
  <1>. QED
    BY <1>1, BoundsAssumption

LEMMA CountIsNat ==
    ASSUME NEW n \in Nat, NEW s
    PROVE  /\ IsFiniteSet({i \in 1..n : file[i] = s})
           /\ CountTo(n, s) \in Nat
  <1>1. IsFiniteSet(1..n)
    BY FS_Interval
  <1>2. IsFiniteSet({i \in 1..n : file[i] = s})
    BY <1>1, FS_Subset
  <1>. QED
    BY <1>2, FS_CardinalityType DEF CountTo

(* One more packet counts for the stream it belongs to.                      *)
LEMMA CountStep ==
    ASSUME NEW n \in Nat, NEW s
    PROVE  CountTo(n + 1, s) = CountTo(n, s) + (IF file[n + 1] = s THEN 1 ELSE 0)
  <1>. DEFINE S == {i \in 1..n : file[i] = s}
  <1>1. IsFiniteSet(S) /\ Cardinality(S) \in Nat
    BY CountIsNat DEF CountTo
  <1>2. CASE file[n + 1] = s
    <2>1. {i \in 1..(n + 1) : file[i] = s} = S \cup {n + 1}
      BY <1>2
    <2>2. n + 1 \notin S
      OBVIOUS
    <2>3. Cardinality(S \cup {n + 1}) =
            IF n + 1 \in S THEN Cardinality(S) ELSE Cardinality(S) + 1
      BY <1>1, FS_AddElement, Zenon
    <2>. QED
      BY <1>1, <1>2, <2>1, <2>2, <2>3 DEF CountTo
  <1>3. CASE file[n + 1] # s
    <2>1. {i \in 1..(n + 1) : file[i] = s} = S
      BY <1>3
    <2>. QED
      BY <1>1, <1>3, <2>1 DEF CountTo
  <1>. QED
    BY <1>2, <1>3

LEMMA CountMonotone ==
    ASSUME NEW m \in Nat, NEW n \in Nat, m <= n, NEW s
    PROVE  CountTo(m, s) <= CountTo(n, s)
  <1>1. {i \in 1..m : file[i] = s} \subseteq {i \in 1..n : file[i] = s}
    OBVIOUS
  <1>. QED
    BY <1>1, CountIsNat, FS_Subset DEF CountTo

(* A step leaves the file, and so every count, as it is.                     *)
LEMMA FileStays == ASSUME [Next]_vars PROVE UNCHANGED <<file, zeroPts>>
  BY DEF Next, Threads, Demuxer, Read, ReadFails, Retry, DemuxExit, PushRefused,
         PushBlocks, Push, Decoder, DecoderLoop, DecodePacket, PushFrame, Video,
         Audio, Device, SyncExit, SeePicture, DrawPicture, PopPicture, SeeSound,
         ShowSound, CallbackChecks, CallbackWakes, CallbackPlays, CallbackEnds,
         Pause, Resume, Stop, UnchangedByRequest, UnchangedByDemux,
         UnchangedByDecoder, UnchangedBySync, UnchangedByDevice, input, vars

-----------------------------------------------------------------------------
(* NothingLost, and what is left of it after a stop has dropped a packet.    *)
PacketFlow(s) ==
    /\ Carried(s) + queue[s] + decoded[s] <= CountTo(position, s)
    /\ ~aborted => CountTo(position, s) = Carried(s) + queue[s] + decoded[s]

FrameFlow(s) ==
    /\ Produced(s) = Filling(s) + Visible(s) + done[s]
    /\ Visible(s) >= (IF sync[s] \in {"present", "drawn"} THEN 1 ELSE 0)

Flow == \A s \in Streams : PacketFlow(s) /\ FrameFlow(s)

(* The types are kept; a frame is popped only from a ring that holds it.     *)
LEMMA TypeStep == TypeOK /\ Flow /\ [Next]_vars => TypeOK'
  <1>. SUFFICES ASSUME TypeOK, Flow, [Next]_vars PROVE TypeOK'
    OBVIOUS
  <1>. USE BoundsAssumption
  <1>1. UNCHANGED <<file, zeroPts>> /\ Len(file) \in Nat
    BY FileStays, FileIsSequence
  <1>2. \A k \in Streams \cup {"sound"} : Noted(k) \in [Streams \cup {"sound"} -> Nat]
    BY DEF TypeOK, Noted, Bump
  <1>3. CASE Pause
    BY <1>1, <1>3 DEF Pause, UnchangedByRequest, NoneLate, TypeOK, decoding, output
  <1>4. CASE Resume
    BY <1>1, <1>4 DEF Resume, UnchangedByRequest, NoneLate, TypeOK, decoding, output
  <1>5. CASE Stop
    BY <1>1, <1>5 DEF Stop, UnchangedByRequest, NoneLate, TypeOK, decoding, output
  <1>6. CASE Demuxer
    <2>1. CASE Push
      <3>1. InHand \in Streams
        BY <2>1, FileIsSequence DEF Push, TypeOK, InHand
      <3>2. queue' \in [Streams -> 0..PacketCap]
        <4>. /\ queue \in [Streams -> 0..PacketCap] /\ queue[InHand] < PacketCap
             /\ queue' = [queue EXCEPT ![InHand] = @ + 1]
          BY <2>1 DEF Push, Bump, TypeOK
        <4>. QED
          BY <3>1
      <3>3. demux' = "read" /\ position' = position
        BY <2>1 DEF Push
      <3>. QED
        BY <1>1, <2>1, <3>2, <3>3 DEF Push, UnchangedByDemux, TypeOK, requests,
           decoding, output
    <2>2. CASE Read
      <3>1. position' \in 0..Len(file') /\ (demux' = "push" => position' > 0)
            /\ demux' \in {"push", "ended"}
        BY <1>1, <2>2 DEF Read, TypeOK
      <3>. QED
        BY <1>1, <2>2, <3>1 DEF Read, UnchangedByDemux, TypeOK, requests,
               decoding, output
    <2>3. CASE DemuxExit \/ PushRefused \/ ReadFails \/ Retry
      BY <1>1, <2>3 DEF DemuxExit, PushRefused, ReadFails, Retry,
             UnchangedByDemux, TypeOK, requests, decoding, output
    <2>4. CASE PushBlocks
      BY <1>1, <2>4 DEF PushBlocks, UnchangedByDemux, TypeOK, requests, decoding,
             output
    <2>. QED
      BY <1>6, <2>1, <2>2, <2>3, <2>4 DEF Demuxer
  <1>7. ASSUME NEW s \in Streams, Decoder(s) PROVE TypeOK'
    <2>. USE DEF UnchangedByDecoder, TypeOK, requests, output
    <2>1. CASE DecoderLoop(s)
      BY <1>1, <2>1 DEF DecoderLoop
    <2>2. CASE DecodePacket(s)
      <3>1. queue' \in [Streams -> 0..PacketCap] /\ decoded' \in [Streams -> Nat]
        BY <2>2 DEF DecodePacket, Bump
      <3>2. decoder' \in [Streams -> {"loop", "pop", "peek", "exited"}]
        BY <2>2 DEF DecodePacket
      <3>. QED
        BY <1>1, <2>2, <3>1, <3>2 DEF DecodePacket
    <2>3. CASE PushFrame(s)
      BY <1>1, <2>3 DEF PushFrame, Bump
    <2>. QED
      BY <1>7, <2>1, <2>2, <2>3 DEF Decoder
  <1>8. ASSUME NEW s \in Streams, SyncExit(s) PROVE TypeOK'
    BY <1>1, <1>8 DEF SyncExit, UnchangedBySync, TypeOK, requests, decoding
  <1>9. ASSUME NEW s \in Streams, sync[s] \in {"present", "drawn"}, Popped(s)
        PROVE  /\ ring' \in [Streams -> 0..RingCap]
               /\ done' \in [Streams -> Nat]
               /\ sync' \in [Streams -> {"loop", "present", "drawn", "exited"}]
    <2>1. ring[s] - Kept(s) \in 0..RingCap
      BY <1>9 DEF Flow, FrameFlow, Visible, Kept, TypeOK
    <2>. QED
      BY <1>9, <2>1 DEF Popped, Bump, TypeOK
  <1>10. CASE DrawPicture
    BY <1>1, <1>2, <1>10 DEF DrawPicture, UnchangedBySync, Streams, TypeOK,
           requests, decoding
  <1>10a. CASE PopPicture
    BY <1>1, <1>9, <1>10a DEF PopPicture, UnchangedBySync, Streams, TypeOK,
           requests, decoding
  <1>11. CASE ShowSound
    BY <1>1, <1>2, <1>9, <1>11 DEF ShowSound, UnchangedBySync, Streams, TypeOK,
           requests, decoding
  <1>12. CASE SeePicture \/ SeeSound
    BY <1>1, <1>12 DEF SeePicture, SeeSound, UnchangedBySync, TypeOK, requests,
           decoding
  <1>13. CASE Device
    <2>. USE DEF UnchangedByDevice, TypeOK, requests, decoding
    <2>1. CASE CallbackChecks
      BY <1>1, <2>1 DEF CallbackChecks
    <2>2. CASE CallbackPlays
      <3>1. Noted("sound") \in [Streams \cup {"sound"} -> Nat]
        BY <1>2
      <3>2. pcm' \in Nat /\ heard' \in Nat /\ device' \in {"check", "ended"}
        BY <2>2 DEF CallbackPlays
      <3>. QED
        BY <1>1, <2>2, <3>1, <3>2 DEF CallbackPlays
    <2>3. CASE CallbackEnds \/ CallbackWakes
      BY <1>1, <2>3 DEF CallbackEnds, CallbackWakes
    <2>. QED
      BY <1>13, <2>1, <2>2, <2>3 DEF Device
  <1>14. CASE UNCHANGED vars
    BY <1>14 DEF vars, TypeOK
  <1>. QED
    BY <1>3, <1>4, <1>5, <1>6, <1>7, <1>8, <1>10, <1>10a, <1>11, <1>12, <1>13, <1>14
       DEF Next, Threads, Video, Audio, Streams

(* Packets: only reading one changes a count.                                *)
LEMMA PacketStep ==
    ASSUME TypeOK, TypeOK', Flow, [Next]_vars, NEW s \in Streams
    PROVE  PacketFlow(s)'
  <1>. USE BoundsAssumption
  <1>1. /\ file' = file /\ PacketFlow(s)
        /\ queue[s] \in Nat /\ decoded[s] \in Nat
        /\ queue'[s] \in Nat /\ decoded'[s] \in Nat
        /\ position \in Nat /\ position' \in Nat
    BY FileStays, FileIsSequence DEF Flow, TypeOK
  <1>2. /\ CountTo(position, s)' = CountTo(position', s)
        /\ CountTo(position, s) \in Nat
    BY <1>1, CountIsNat DEF CountTo
  <1>3. ASSUME position' = position, queue'[s] = queue[s], decoded'[s] = decoded[s],
               aborted' = aborted, Carried(s)' = Carried(s)
        PROVE  PacketFlow(s)'
    BY <1>1, <1>2, <1>3 DEF PacketFlow
  <1>4. CASE Demuxer
    <2>. USE DEF UnchangedByDemux, decoding, requests
    <2>1. CASE Read
      <3>1. CASE position' = position + 1
        <4>1. demux = "read" /\ demux' = "push" /\ ~aborted /\ ~aborted'
              /\ queue' = queue /\ decoded' = decoded
          BY <2>1, <3>1, <1>1 DEF Read
        <4>2. Carried(s) = 0 /\ Carried(s)' = IF file[position + 1] = s THEN 1 ELSE 0
          BY <1>1, <3>1, <4>1 DEF Carried, InHand
        <4>3. CountTo(position', s) =
                CountTo(position, s) + (IF file[position + 1] = s THEN 1 ELSE 0)
          BY <1>1, <3>1, CountStep
        <4>. QED
          BY <1>1, <1>2, <4>1, <4>2, <4>3 DEF PacketFlow
      <3>2. CASE position' = position
        BY <1>1, <1>3, <2>1, <3>2 DEF Read, Carried
      <3>. QED
        BY <2>1, <3>1, <3>2 DEF Read
    <2>2. CASE DemuxExit \/ ReadFails \/ Retry
      <3>1. Carried(s) = 0 /\ Carried(s)' = 0
        BY <2>2 DEF DemuxExit, ReadFails, Retry, Carried
      <3>2. /\ position' = position /\ queue' = queue
            /\ decoded' = decoded /\ aborted' = aborted
        BY <2>2 DEF DemuxExit, ReadFails, Retry
      <3>. QED
        BY <1>3, <3>1, <3>2
    <2>3. CASE PushRefused
      BY <1>1, <1>2, <2>3 DEF PushRefused, Carried, PacketFlow
    <2>4. CASE PushBlocks
      BY <1>1, <1>3, <2>4 DEF PushBlocks, Carried, InHand
    <2>5. CASE Push
      <3>1. Carried(s) + queue[s] = Carried(s)' + queue'[s]
        <4>1. demux \in {"push", "blocked"} /\ demux' = "read"
              /\ queue' = Bump(queue, InHand)
          BY <2>5 DEF Push
        <4>2. queue'[s] = IF InHand = s THEN queue[s] + 1 ELSE queue[s]
          BY <4>1 DEF Bump, TypeOK
        <4>3. Carried(s) = (IF InHand = s THEN 1 ELSE 0) /\ Carried(s)' = 0
          BY <4>1 DEF Carried
        <4>. QED
          BY <1>1, <4>2, <4>3
      <3>2. Carried(s) \in Nat /\ Carried(s)' \in Nat
        BY DEF Carried
      <3>. QED
        BY <1>1, <1>2, <2>5, <3>1, <3>2 DEF Push, PacketFlow
    <2>. QED
      BY <1>4, <2>1, <2>2, <2>3, <2>4, <2>5 DEF Demuxer
  <1>5. ASSUME NEW t \in Streams, Decoder(t) PROVE PacketFlow(s)'
    <2>1. Carried(s)' = Carried(s) /\ position' = position /\ aborted' = aborted
      BY <1>1, <1>5 DEF Decoder, DecoderLoop, DecodePacket, PushFrame,
                        UnchangedByDecoder, requests, Carried, InHand
    <2>2. CASE DecodePacket(t)
      <3>1. queue'[s] + decoded'[s] = queue[s] + decoded[s]
        BY <1>1, <2>2 DEF DecodePacket, Bump, TypeOK
      <3>2. Carried(s) \in Nat
        BY DEF Carried
      <3>. QED
        BY <1>1, <1>2, <2>1, <3>1, <3>2 DEF PacketFlow
    <2>3. CASE DecoderLoop(t) \/ PushFrame(t)
      BY <1>3, <2>1, <2>3 DEF DecoderLoop, PushFrame
    <2>. QED
      BY <1>5, <2>2, <2>3 DEF Decoder
  <1>6. CASE Stop
    BY <1>1, <1>2, <1>6 DEF Stop, UnchangedByRequest, decoding, Carried, InHand,
           PacketFlow
  <1>7. CASE UNCHANGED <<position, demux, queue, decoded, aborted>>
    BY <1>1, <1>3, <1>7 DEF Carried, InHand
  <1>. QED
    BY <1>4, <1>5, <1>6, <1>7 DEF Next, Threads, Video, Audio, Device, SyncExit,
       SeePicture, DrawPicture, PopPicture, SeeSound, ShowSound, CallbackChecks,
       CallbackWakes, CallbackPlays, CallbackEnds, Pause, Resume,
       UnchangedByRequest, UnchangedBySync, UnchangedByDevice, requests, decoding,
       vars

(* Frames: what leaves the codec is filled in, becomes visible, is presented.*)
LEMMA FrameStep ==
    ASSUME TypeOK, TypeOK', Flow, [Next]_vars, NEW s \in Streams
    PROVE  FrameFlow(s)'
  <1>. USE BoundsAssumption
  <1>1. /\ FrameFlow(s)
        /\ decoded[s] \in Nat /\ done[s] \in Nat /\ ring[s] \in Nat
        /\ Delay(s) \in Nat /\ Delay(s)' = Delay(s)
    BY DEF Flow, TypeOK, Delay
  <1>2. ASSUME decoded'[s] = decoded[s], decoder'[s] = decoder[s], ring'[s] = ring[s],
               done'[s] = done[s],
               \/ sync'[s] \in {sync[s], "exited"}
               \/ sync[s] = "present" /\ sync'[s] = "drawn"
        PROVE  FrameFlow(s)'
    BY <1>1, <1>2 DEF FrameFlow, Produced, Filling, Visible, Kept
  <1>2a. ASSUME decoded'[s] = decoded[s] + 1,
               decoder[s] = "pop", decoder'[s] = IF decoded'[s] > Delay(s) THEN "peek" ELSE "loop",
               ring'[s] = ring[s], done'[s] = done[s], sync'[s] = sync[s]
        PROVE  FrameFlow(s)'
    <2>. DEFINE more == IF decoded[s] + 1 > Delay(s) THEN 1 ELSE 0
    <2>1. Produced(s)' = IF decoded[s] + 1 > Delay(s) THEN decoded[s] + 1 - Delay(s) ELSE 0
      BY <1>1, <1>2a DEF Produced
    <2>2. Produced(s) \in Nat /\ Produced(s)' = Produced(s) + more
      BY <1>1, <2>1 DEF Produced
    <2>3. Filling(s) = 0 /\ Filling(s)' = more
      BY <1>2a DEF Filling
    <2>4. Visible(s)' = Visible(s) /\ Visible(s) \in Int
      BY <1>1, <1>2a DEF Visible, Kept
    <2>. QED
      BY <1>1, <1>2a, <2>2, <2>3, <2>4 DEF FrameFlow
  <1>3. ASSUME NEW t \in Streams, Decoder(t) PROVE FrameFlow(s)'
    <2>1. CASE s # t
      <3>1. /\ decoded'[s] = decoded[s] /\ decoder'[s] = decoder[s] /\ ring'[s] = ring[s]
            /\ done'[s] = done[s] /\ sync'[s] = sync[s]
        BY <1>3, <2>1 DEF Decoder, DecoderLoop, DecodePacket, PushFrame,
            UnchangedByDecoder, Bump, TypeOK
      <3>. QED
        BY <1>2, <3>1
    <2>2. CASE s = t /\ DecoderLoop(s)
      <3>1. /\ decoder[s] = "loop" /\ decoder'[s] \in {"pop", "exited"}
            /\ decoded' = decoded /\ ring' = ring /\ done' = done /\ sync' = sync
        BY <2>2 DEF DecoderLoop, UnchangedByDecoder, Bump, TypeOK
      <3>2. Filling(s) = 0 /\ Filling(s)' = 0
        BY <3>1 DEF Filling
      <3>3. Produced(s)' = Produced(s) /\ Visible(s)' = Visible(s)
        BY <1>1, <3>1 DEF Produced, Visible, Kept
      <3>. QED
        BY <1>1, <3>1, <3>2, <3>3 DEF FrameFlow
    <2>3. CASE s = t /\ DecodePacket(s)
      <3>1. /\ decoded'[s] = decoded[s] + 1 /\ decoder[s] = "pop"
            /\ decoder'[s] = IF decoded'[s] > Delay(s) THEN "peek" ELSE "loop"
            /\ ring' = ring /\ done' = done /\ sync' = sync
        BY <2>3 DEF DecodePacket, UnchangedByDecoder, Bump, TypeOK
      <3>. QED
        BY <1>2a, <3>1
    <2>4. CASE s = t /\ PushFrame(s)
      <3>1. /\ decoder[s] = "peek" /\ decoder'[s] = "loop" /\ ring'[s] = ring[s] + 1
            /\ decoded' = decoded /\ done' = done /\ sync' = sync
        BY <2>4 DEF PushFrame, UnchangedByDecoder, Bump, TypeOK
      <3>2. Filling(s) = 1 /\ Filling(s)' = 0
        BY <3>1 DEF Filling
      <3>3. Produced(s)' = Produced(s) /\ Kept(s)' = Kept(s) /\ Kept(s) \in {0, 1}
        BY <1>1, <3>1 DEF Produced, Kept
      <3>4. Visible(s)' = Visible(s) + 1
        BY <1>1, <3>1, <3>3 DEF Visible
      <3>5. Visible(s) \in Int
        BY <1>1, <3>3 DEF Visible
      <3>6. Visible(s)' >= (IF sync'[s] \in {"present", "drawn"} THEN 1 ELSE 0)
        BY <1>1, <3>1, <3>4, <3>5 DEF FrameFlow
      <3>7. Produced(s)' = Filling(s)' + Visible(s)' + done'[s]
        BY <1>1, <3>1, <3>2, <3>3, <3>4, <3>5 DEF FrameFlow
      <3>. QED
        BY <3>6, <3>7 DEF FrameFlow
    <2>. QED
      BY <1>3, <2>1, <2>2, <2>3, <2>4 DEF Decoder
  <1>4. ASSUME NEW t \in Streams, sync[t] \in {"present", "drawn"}, Popped(t),
               decoded' = decoded, decoder' = decoder
        PROVE  FrameFlow(s)'
    <2>1. CASE s # t
      BY <1>2, <1>4, <2>1 DEF Popped, Bump, TypeOK
    <2>2. CASE s = t
      <3>1. /\ ring'[s] = ring[s] - Kept(s) /\ done'[s] = done[s] + 1
            /\ sync'[s] = "loop"
        BY <1>4, <2>2 DEF Popped, Bump, TypeOK
      <3>2. Kept(s)' = 1 /\ Kept(s) \in {0, 1}
        BY <1>1, <3>1 DEF Kept
      <3>3. Visible(s)' = Visible(s) - 1
        BY <1>1, <3>1, <3>2 DEF Visible
      <3>4. Visible(s) \in Int /\ Visible(s) >= 1
        BY <1>1, <1>4, <2>2, <3>2 DEF Visible, FrameFlow
      <3>5. Produced(s)' = Produced(s) /\ Filling(s)' = Filling(s) /\ Filling(s) \in Nat
        BY <1>1, <1>4 DEF Produced, Filling
      <3>. QED
        BY <1>1, <3>1, <3>3, <3>4, <3>5 DEF FrameFlow
    <2>. QED
      BY <2>1, <2>2
  <1>5. CASE PopPicture \/ ShowSound
    BY <1>4, <1>5 DEF PopPicture, ShowSound, UnchangedBySync, decoding, Streams
  <1>5a. CASE DrawPicture
    BY <1>2, <1>5a DEF DrawPicture, UnchangedBySync, decoding, TypeOK
  <1>6. CASE SeePicture \/ SeeSound
    <2>1. \E t \in Streams : /\ Visible(t) > 0
                             /\ sync' = [sync EXCEPT ![t] = "present"]
      BY <1>6 DEF SeePicture, SeeSound, Streams
    <2>2. UNCHANGED <<ring, done, decoded, decoder>>
      BY <1>6 DEF SeePicture, SeeSound, UnchangedBySync, decoding
    <2>3. Visible(s) \in Int
      BY <1>1 DEF Visible, Kept
    <2>4. PICK t \in Streams : Visible(t) > 0 /\ sync' = [sync EXCEPT ![t] = "present"]
      BY <2>1
    <2>5. CASE t = s
      BY <1>1, <2>2, <2>3, <2>4, <2>5 DEF FrameFlow, Produced, Filling, Visible,
             Kept
    <2>6. CASE t # s
      BY <1>2, <2>2, <2>4, <2>6 DEF TypeOK
    <2>. QED
      BY <2>5, <2>6
  <1>7. ASSUME NEW t \in Streams, SyncExit(t) PROVE FrameFlow(s)'
    BY <1>2, <1>7 DEF SyncExit, UnchangedBySync, decoding, TypeOK
  <1>8. CASE UNCHANGED <<decoded, decoder, ring, done, sync>>
    BY <1>2, <1>8
  <1>. QED
    BY <1>3, <1>5, <1>5a, <1>6, <1>7, <1>8 DEF Next, Threads, Demuxer, Read,
       ReadFails, Retry, DemuxExit, PushRefused, PushBlocks, Push, Video, Audio,
       Device, CallbackChecks, CallbackWakes, CallbackPlays, CallbackEnds, Pause,
       Resume, Stop, UnchangedByRequest, UnchangedByDemux, UnchangedByDevice,
       decoding, Streams, vars

Inv == TypeOK /\ Flow

LEMMA InitInv == Init => Inv
  <1>. SUFFICES ASSUME Init PROVE Inv
    OBVIOUS
  <1>. USE BoundsAssumption
  <1>1. file \in Files /\ Len(file) \in Nat
    <2>1. PICK n \in Lengths : file \in [1..n -> Streams]
      BY DEF Init, Files
    <2>. QED
      BY <2>1 DEF Init
  <1>2. TypeOK
    <2>1. NoneLate \in [Streams \cup {"sound"} -> Nat]
      BY DEF NoneLate
    <2>2. position \in 0..Len(file) /\ pcm \in Nat /\ heard \in Nat
      BY <1>1 DEF Init
    <2>3. queue \in [Streams -> 0..PacketCap] /\ ring \in [Streams -> 0..RingCap]
      BY DEF Init
    <2>4. /\ demux \in {"read", "retry", "push", "blocked", "ended"}
          /\ demux \notin {"push", "blocked"}
      BY DEF Init
    <2>. QED
      BY <1>1, <2>1, <2>2, <2>3, <2>4 DEF Init, TypeOK
  <1>3. ASSUME NEW s \in Streams PROVE PacketFlow(s) /\ FrameFlow(s)
    <2>1. CountTo(0, s) = 0
      <3>1. {i \in 1..0 : file[i] = s} = {}
        OBVIOUS
      <3>. QED
        BY <3>1, FS_EmptySet DEF CountTo
    <2>2. PacketFlow(s)
      BY <2>1 DEF Init, PacketFlow, Carried
    <2>3. FrameFlow(s)
      BY DEF Init, FrameFlow, Produced, Filling, Visible, Kept, Delay
    <2>. QED
      BY <2>2, <2>3
  <1>. QED
    BY <1>2, <1>3 DEF Inv, Flow

LEMMA NextInv == Inv /\ [Next]_vars => Inv'
  BY TypeStep, PacketStep, FrameStep DEF Inv, Flow

(* The variables keep their types and every queue and ring its bound.        *)
THEOREM TypeCorrect == Spec => []TypeOK
  <1>1. Inv => TypeOK
    BY DEF Inv
  <1>. QED
    BY <1>1, InitInv, NextInv, PTL DEF Spec

(* Whatever the file and the capacities, and whenever threads are paused,    *)
(* no packet and no frame is lost between FFDemux and the output before a    *)
(* stop.                                                                     *)
THEOREM Conservation == Spec => []NothingLost
  <1>1. Inv => NothingLost
    BY DEF Inv, Flow, PacketFlow, FrameFlow, NothingLost
  <1>. QED
    BY <1>1, InitInv, NextInv, PTL DEF Spec

-----------------------------------------------------------------------------
(* What the audio side has taken in while no sound was presented.            *)
LEMMA AudioTaken ==
    ASSUME Inv, ~aborted, done["audio"] = 0
    PROVE  CountTo(position, "audio") <= Carried("audio") + AudioRoom
  <1>. USE BoundsAssumption
  <1>1. "audio" \in Streams
    BY DEF Streams
  <1>2. PacketFlow("audio") /\ FrameFlow("audio")
    BY <1>1 DEF Inv, Flow
  <1>3. /\ queue["audio"] \in 0..PacketCap /\ ring["audio"] \in 0..RingCap
        /\ decoded["audio"] \in Nat
    BY <1>1 DEF Inv, TypeOK
  <1>4. decoded["audio"] = Produced("audio")
    BY <1>3 DEF Produced, Delay
  <1>5. Filling("audio") \in {0, 1} /\ Visible("audio") = ring["audio"]
    BY <1>3 DEF Filling, Visible, Kept
  <1>6. Carried("audio") \in {0, 1}
    BY DEF Carried
  <1>. QED
    BY <1>2, <1>3, <1>4, <1>5, <1>6 DEF PacketFlow, FrameFlow, AudioRoom

(* The opening picture is missing from the first n packets, which hold one   *)
(* audio packet too many.                                                    *)
Overfull(n) == /\ CountTo(n, "audio") > AudioRoom
               /\ CountTo(n, "video") < OpeningPictures + VideoDelay

(* Then the demuxer does not get past them, and sound does not start.        *)
GateShut ==
    \A n \in 1..Len(file) : Overfull(n) =>
        /\ position <= n
        /\ done["audio"] = 0 /\ sync["audio"] # "present"
        /\ pcm = 0 /\ heard = 0
        /\ CountTo(position, "audio") <= AudioRoom + 1

LEMMA PictureMissing ==
    ASSUME Inv, NEW n \in 1..Len(file), Overfull(n), position <= n
    PROVE  Drawn < OpeningPictures /\ done["video"] < OpeningPictures
  <1>. USE BoundsAssumption
  <1>1. "video" \in Streams /\ Len(file) \in Nat
    BY FileIsSequence DEF Inv, Streams
  <1>2. PacketFlow("video") /\ FrameFlow("video")
    BY <1>1 DEF Inv, Flow
  <1>3. /\ queue["video"] \in Nat /\ decoded["video"] \in Nat
        /\ ring["video"] \in Nat /\ done["video"] \in Nat
        /\ position \in Nat /\ n \in Nat
    BY <1>1 DEF Inv, TypeOK
  <1>4. /\ CountTo(position, "video") <= CountTo(n, "video")
        /\ CountTo(position, "video") \in Nat /\ CountTo(n, "video") \in Nat
    BY <1>3, CountMonotone, CountIsNat
  <1>5. decoded["video"] < OpeningPictures + VideoDelay
    <2>1. Carried("video") \in Nat
      BY DEF Carried
    <2>. QED
      BY <1>2, <1>3, <1>4, <2>1 DEF PacketFlow, Overfull, OpeningPictures
  <1>6. Drawn <= Produced("video") /\ done["video"] <= Drawn /\ Drawn \in Nat
    <2>1. Filling("video") \in Nat /\ Visible("video") \in Int
          /\ Visible("video") >= (IF sync["video"] = "drawn" THEN 1 ELSE 0)
          /\ Produced("video") \in Int
      BY <1>2, <1>3 DEF Filling, FrameFlow, Visible, Kept, Produced, Delay
    <2>. QED
      BY <1>2, <1>3, <2>1 DEF FrameFlow, Drawn
  <1>. QED
    BY <1>3, <1>5, <1>6 DEF Produced, Delay, OpeningPictures

LEMMA GateStep == Inv /\ Inv' /\ GateShut /\ [Next]_vars => GateShut'
  <1>. SUFFICES ASSUME Inv, Inv', GateShut, [Next]_vars,
                       NEW n \in 1..Len(file'), Overfull(n)'
                PROVE  /\ position' <= n
                       /\ done'["audio"] = 0 /\ sync'["audio"] # "present"
                       /\ pcm' = 0 /\ heard' = 0
                       /\ CountTo(position, "audio")' <= AudioRoom + 1
    BY DEF GateShut, AudioRoom
  <1>. USE BoundsAssumption
  <1>1. file' = file /\ zeroPts' = zeroPts /\ Len(file) \in Nat
    BY FileStays, FileIsSequence DEF Inv
  <1>2. n \in 1..Len(file) /\ Overfull(n)
    BY <1>1 DEF Overfull, CountTo, OpeningPictures
  <1>3. /\ position <= n
        /\ done["audio"] = 0 /\ sync["audio"] # "present"
        /\ pcm = 0 /\ heard = 0
        /\ CountTo(position, "audio") <= AudioRoom + 1
    BY <1>2 DEF GateShut
  <1>4. ~SeeSound /\ ~ShowSound
    <2>1. Drawn < OpeningPictures
      BY <1>2, <1>3, PictureMissing
    <2>2. Drawn \in Nat /\ OpeningPictures \in Nat
      <3>1. done["video"] \in Nat
        BY DEF Inv, TypeOK, Streams
      <3>. QED
        BY <3>1 DEF OpeningPictures, Drawn
    <2>. QED
      BY <1>3, <2>1, <2>2 DEF SeeSound, ShowSound, SoundMayStart
  <1>5. /\ done'["audio"] = 0 /\ sync'["audio"] # "present"
        /\ pcm' = 0 /\ heard' = 0
    <2>1. CASE Device
      BY <1>3, <2>1 DEF Device, CallbackChecks, CallbackWakes, CallbackPlays,
             CallbackEnds, UnchangedByDevice
    <2>2. CASE SeePicture \/ DrawPicture \/ PopPicture \/ (\E s \in Streams : SyncExit(s))
      BY <1>3, <2>2 DEF SeePicture, DrawPicture, PopPicture, SyncExit, Popped, Bump,
                UnchangedBySync, Inv, TypeOK, Streams
    <2>3. CASE UNCHANGED <<done, sync, pcm, heard>>
      BY <1>3, <2>3
    <2>. QED
      BY <1>4, <2>1, <2>2, <2>3 DEF Next, Threads, Demuxer, Read, ReadFails,
         Retry, DemuxExit, PushRefused, PushBlocks, Push, Decoder, DecoderLoop,
         DecodePacket, PushFrame, Video, Audio, Pause, Resume, Stop,
         UnchangedByRequest, UnchangedByDemux, UnchangedByDecoder, output,
         Streams, vars
  <1>6. position' = position \/ (Read /\ position' = position + 1)
    BY DEF Next, Threads, Demuxer, Read, ReadFails, Retry, DemuxExit, PushRefused,
           PushBlocks, Push, Decoder, DecoderLoop, DecodePacket, PushFrame, Video,
           Audio, Device, SyncExit, SeePicture, DrawPicture, PopPicture, SeeSound,
           ShowSound, CallbackChecks, CallbackWakes, CallbackPlays, CallbackEnds,
           Pause, Resume, Stop, UnchangedByRequest, UnchangedByDecoder,
           UnchangedBySync, UnchangedByDevice, vars
  <1>7. CASE position' = position
    <2>1. CountTo(position, "audio")' = CountTo(position, "audio")
      BY <1>1, <1>7 DEF CountTo
    <2>. QED
      BY <1>3, <1>5, <1>7, <2>1
  <1>8. CASE Read /\ position' = position + 1
    <2>1. demux = "read" /\ ~aborted /\ ~aborted'
      BY <1>8 DEF Read, UnchangedByDemux, requests
    <2>2. position \in Nat /\ n \in Nat /\ AudioRoom \in Nat
      BY <1>1, <1>2 DEF Inv, TypeOK, AudioRoom
    <2>3. CountTo(position, "audio") \in Nat /\ CountTo(position, "audio") <= AudioRoom
      <3>1. Carried("audio") = 0
        BY <2>1 DEF Carried
      <3>. QED
        <4>1. CountTo(position, "audio") \in Nat
          BY <2>2, CountIsNat
        <4>2. CountTo(position, "audio") <= 0 + AudioRoom
          BY <1>3, <2>1, <3>1, AudioTaken
        <4>. QED
          BY <2>2, <4>1, <4>2
    <2>4. position # n
      BY <1>2, <2>2, <2>3, CountIsNat DEF Overfull
    <2>5. CountTo(position, "audio")' = CountTo(position + 1, "audio")
      BY <1>1, <1>8 DEF CountTo
    <2>6. CountTo(position + 1, "audio") <= AudioRoom + 1
      BY <2>2, <2>3, CountStep
    <2>. QED
      BY <1>3, <1>5, <1>8, <2>2, <2>4, <2>5, <2>6
  <1>. QED
    BY <1>6, <1>7, <1>8

(* For every file, capacities and codec delay: if one audio packet too many  *)
(* comes before the opening picture, the player never gets to that picture   *)
(* and no sound is ever heard (FFDemux.cpp:142, MediaSync2.cpp:35).          *)
THEOREM NeverPlays == Spec => []SkewedNeverPlays
  <1>1. Init => GateShut
    <2>. SUFFICES ASSUME Init, NEW n \in 1..Len(file)
                  PROVE  /\ position <= n
                         /\ done["audio"] = 0 /\ sync["audio"] # "present"
                         /\ pcm = 0 /\ heard = 0
                         /\ CountTo(position, "audio") <= AudioRoom + 1
      BY DEF GateShut
    <2>1. n \in Nat /\ n >= 1
      BY InitInv, FileIsSequence DEF Inv
    <2>2. CountTo(position, "audio") = 0
      <3>1. {i \in 1..position : file[i] = "audio"} = {}
        BY DEF Init
      <3>. QED
        BY <3>1, FS_EmptySet DEF CountTo
    <2>. QED
      BY <2>1, <2>2, BoundsAssumption DEF Init, Streams, AudioRoom
  <1>2. Inv /\ GateShut => SkewedNeverPlays
    <2>. SUFFICES ASSUME Inv, GateShut, ~WellInterleaved
                  PROVE  /\ heard = 0 /\ done["audio"] = 0
                         /\ Drawn < OpeningPictures
                         /\ CountTo(position, "audio") <= AudioRoom + 1
      BY DEF SkewedNeverPlays
    <2>1. PICK n \in 1..Len(file) : /\ CountTo(n, "audio") > AudioRoom
                                    /\ ~(CountTo(n, "video") >= OpeningPictures + VideoDelay)
      BY DEF WellInterleaved
    <2>2. Overfull(n)
      <3>1. CountTo(n, "video") \in Nat /\ OpeningPictures + VideoDelay \in Nat
        <4>1. n \in Nat
          BY FileIsSequence DEF Inv
        <4>. QED
          <5>1. CountTo(n, "video") \in Nat
            BY <4>1, CountIsNat
          <5>. QED
            BY <5>1, BoundsAssumption DEF OpeningPictures
      <3>. QED
        BY <2>1, <3>1 DEF Overfull
    <2>. QED
      BY <2>2, PictureMissing DEF GateShut
  <1>. QED
    BY <1>1, <1>2, InitInv, NextInv, GateStep, PTL DEF Spec
-----------------------------------------------------------------------------
(* Whoever has been late once is past its step and at its tests again.       *)
Obeying ==
    paused \/ aborted =>
        /\ late["sound"] <= 1
        /\ late["sound"] = 1 => device # "get"
        /\ late["sound"] = 1 /\ aborted => device # "nap"
        /\ \A s \in Streams : /\ late[s] <= 1
                              /\ late[s] = 1 => sync[s] # "present"

(* At most one more picture, one more block of sound and one more frame      *)
(* after a request, wherever the threads were when it came                   *)
(* (MediaSync2.cpp:28-29, 81-82, SLAudioPlay.cpp:112-115).                   *)
THEOREM SoonObeyed == Spec => []RequestsSoonObeyed
  <1>1. Init => Obeying
    BY DEF Init, Obeying
  <1>2. TypeOK /\ Obeying /\ [Next]_vars => Obeying'
    <2>. SUFFICES ASSUME TypeOK, Obeying, [Next]_vars, paused' \/ aborted'
                  PROVE  /\ late'["sound"] <= 1
                         /\ late'["sound"] = 1 => device' # "get"
                         /\ late'["sound"] = 1 /\ aborted' => device' # "nap"
                         /\ \A s \in Streams : /\ late'[s] <= 1
                                               /\ late'[s] = 1 => sync'[s] # "present"
      BY DEF Obeying
    <2>0. /\ late \in [Streams \cup {"sound"} -> Nat]
          /\ sync \in [Streams -> {"loop", "present", "drawn", "exited"}]
          /\ "sound" \notin Streams
      BY DEF TypeOK, Streams
    <2>1. CASE Pause \/ Stop
      BY <2>1 DEF Pause, Stop, NoneLate
    <2>2. CASE UNCHANGED <<paused, aborted, late, device, sync>>
      BY <2>2 DEF Obeying
    <2>3. CASE Resume
      BY <2>3 DEF Resume, Obeying, UnchangedByRequest, output
    <2>4. CASE Demuxer
      BY <2>2, <2>4 DEF Demuxer, Read, ReadFails, Retry, DemuxExit, PushRefused,
           PushBlocks, Push, UnchangedByDemux, requests, output
    <2>5. ASSUME NEW s \in Streams, Decoder(s) PROVE UNCHANGED <<paused, aborted, late, device, sync>>
      BY <2>5 DEF Decoder, DecoderLoop, DecodePacket, PushFrame, UnchangedByDecoder,
           requests, output
    <2>6. CASE CallbackChecks \/ CallbackEnds
      <3>1. /\ UNCHANGED <<paused, aborted, late, sync>>
            /\ device' = "get" => ~paused /\ ~aborted
            /\ device' = "nap" => ~aborted
        BY <2>6 DEF CallbackChecks, CallbackEnds, UnchangedByDevice, requests
      <3>. QED
        BY <3>1 DEF Obeying
    <2>6a. CASE CallbackWakes
      <3>1. /\ UNCHANGED <<paused, aborted, late, sync>> /\ device = "nap"
            /\ device' \in {"get", "ended"}
            /\ device' = "get" => ~paused
        BY <2>6a DEF CallbackWakes, UnchangedByDevice, requests
      <3>. QED
        BY <3>1 DEF Obeying
    <2>7. CASE CallbackPlays
      <3>1. /\ UNCHANGED <<paused, aborted, sync>> /\ device = "get" /\ device' = "check"
            /\ late' = [late EXCEPT !["sound"] = @ + 1]
        BY <2>7 DEF CallbackPlays, UnchangedByDevice, requests, Noted, Bump
      <3>2. late["sound"] = 0
        BY <2>0, <3>1 DEF Obeying
      <3>3. late'["sound"] = 1 /\ \A s \in Streams : late'[s] = late[s]
        BY <2>0, <3>1, <3>2
      <3>. QED
        BY <3>1, <3>3 DEF Obeying
    <2>8. ASSUME NEW s \in Streams, NEW place \in {"loop", "present", "drawn", "exited"},
                 sync' = [sync EXCEPT ![s] = place],
                 \/ late' = late /\ (place = "present" => ~paused /\ ~aborted)
                 \/ late' = Noted(s) /\ sync[s] = "present" /\ place # "present",
                 UNCHANGED <<paused, aborted, device>>
          PROVE  /\ late'["sound"] <= 1
                 /\ late'["sound"] = 1 => device' # "get"
                 /\ late'["sound"] = 1 /\ aborted' => device' # "nap"
                 /\ \A k \in Streams : /\ late'[k] <= 1
                                       /\ late'[k] = 1 => sync'[k] # "present"
      <3>0. sync'[s] = place /\ \A k \in Streams \ {s} : sync'[k] = sync[k]
        BY <2>0, <2>8
      <3>1. CASE late' = late /\ (place = "present" => ~paused /\ ~aborted)
        BY <2>0, <2>8, <3>0, <3>1 DEF Obeying
      <3>2. CASE late' = Noted(s) /\ sync[s] = "present" /\ place # "present"
        <4>1. late' = [late EXCEPT ![s] = @ + 1]
          BY <2>8, <3>2 DEF Noted, Bump
        <4>2. late[s] = 0
          BY <2>0, <2>8, <3>2 DEF Obeying
        <4>3. /\ late'["sound"] = late["sound"] /\ late'[s] = 1
              /\ \A k \in Streams \ {s} : late'[k] = late[k]
          BY <2>0, <4>1, <4>2
        <4>. QED
          BY <2>8, <3>0, <3>2, <4>3 DEF Obeying
      <3>. QED
        BY <2>8, <3>1, <3>2
    <2>9. CASE Video
      BY <2>8, <2>9 DEF Video, SyncExit, SeePicture, DrawPicture, PopPicture,
           Popped, UnchangedBySync, requests, Streams
    <2>10. CASE Audio
      BY <2>8, <2>10 DEF Audio, SyncExit, SeeSound, ShowSound, Popped,
           UnchangedBySync, requests, Streams
    <2>. QED
      BY <2>1, <2>2, <2>3, <2>4, <2>5, <2>6, <2>6a, <2>7, <2>9, <2>10
         DEF Next, Threads, Device, vars, requests, output
  <1>3. TypeOK /\ Obeying => RequestsSoonObeyed
    BY DEF TypeOK, Obeying, RequestsSoonObeyed
  <1>. QED
    BY <1>1, <1>2, <1>3, TypeCorrect, PTL DEF Spec

-----------------------------------------------------------------------------
(* Left alone, a file is played to its end: the safety behind FileIsPlayed.  *)
(* First, where each thread cannot take a step while nothing is requested.   *)
DemuxerStuck == \/ demux = "ended"
                \/ demux = "blocked" /\ queue[InHand] = PacketCap

DecoderStuck(s) == \/ decoder[s] = "pop" /\ queue[s] = 0
                   \/ decoder[s] = "peek" /\ ring[s] = RingCap
                   \/ decoder[s] = "exited"

VideoStuck == \/ sync["video"] = "loop" /\ Visible("video") = 0
              \/ sync["video"] = "exited"

AudioStuck == \/ sync["audio"] = "loop" /\ (Visible("audio") = 0 \/ ~SoundMayStart)
              \/ sync["audio"] = "present" /\ pcm > PcmCap
              \/ sync["audio"] = "exited"

DeviceStuck == \/ device = "get" /\ pcm = 0
               \/ device = "ended"

Stuck == /\ DemuxerStuck
         /\ \A s \in Streams : DecoderStuck(s)
         /\ VideoStuck /\ AudioStuck /\ DeviceStuck

(* What FileIsPlayed promises at the end.                                    *)
Played == /\ demux = "ended"
          /\ done["video"] = IF PicturesIn > VideoDelay
                               THEN PicturesIn - VideoDelay ELSE 0
          /\ heard = IF SoundOpens THEN CountTo(Len(file), "audio") ELSE 0

(* The threads of a well interleaved file cannot all be stuck before its end.*)
NeverStuck == WellInterleaved /\ ~paused /\ ~aborted /\ Stuck => Played

(* Nobody leaves before a stop; what was presented of the sound is heard or  *)
(* in the list, and none of it before the opening pictures.                  *)
StaysUntilStop ==
    ~aborted => /\ \A s \in Streams : decoder[s] # "exited" /\ sync[s] # "exited"
                /\ device # "ended"
                /\ demux = "ended" => position = Len(file)

SoundAfterOpening ==
    /\ done["audio"] = pcm + heard
    /\ done["audio"] > 0 \/ sync["audio"] = "present" => SoundMayStart

Output == StaysUntilStop /\ SoundAfterOpening

LEMMA StaysStep == Inv /\ StaysUntilStop /\ [Next]_vars => StaysUntilStop'
  <1>. SUFFICES ASSUME Inv, StaysUntilStop, [Next]_vars, ~aborted'
                PROVE  StaysUntilStop'
    BY DEF StaysUntilStop
  <1>1. /\ position \in 0..Len(file) /\ Len(file) \in Nat /\ file' = file
        /\ decoder \in [Streams -> {"loop", "pop", "peek", "exited"}]
        /\ sync \in [Streams -> {"loop", "present", "drawn", "exited"}]
    BY FileIsSequence, FileStays DEF Inv, TypeOK
  <1>2. ~aborted
    BY DEF Next, Threads, Demuxer, Read, ReadFails, Retry, DemuxExit, PushRefused,
           PushBlocks, Push, Decoder, DecoderLoop, DecodePacket, PushFrame, Video,
           Audio, Device, SyncExit, SeePicture, DrawPicture, PopPicture, SeeSound,
           ShowSound, CallbackChecks, CallbackWakes, CallbackPlays, CallbackEnds,
           Pause, Resume, Stop, UnchangedByRequest, UnchangedByDemux,
           UnchangedByDecoder, UnchangedBySync, UnchangedByDevice, requests, vars
  <1>3. /\ \A s \in Streams : decoder[s] # "exited" /\ sync[s] # "exited"
        /\ device # "ended"
        /\ demux = "ended" => position = Len(file)
    BY <1>2 DEF StaysUntilStop
  <1>4. \A s \in Streams : decoder'[s] # "exited"
    BY <1>1, <1>2, <1>3 DEF Next, Threads, Demuxer, Read, ReadFails, Retry,
       DemuxExit, PushRefused, PushBlocks, Push, Decoder, DecoderLoop,
       DecodePacket, PushFrame, Video, Audio, Device, SyncExit, SeePicture,
       DrawPicture, PopPicture, SeeSound, ShowSound, CallbackChecks,
       CallbackWakes, CallbackPlays, CallbackEnds, Pause, Resume, Stop,
       UnchangedByRequest, UnchangedByDemux, UnchangedBySync, UnchangedByDevice,
       decoding, vars
  <1>5. \A s \in Streams : sync'[s] # "exited"
    BY <1>1, <1>2, <1>3 DEF Next, Threads, Demuxer, Read, ReadFails, Retry,
       DemuxExit, PushRefused, PushBlocks, Push, Decoder, DecoderLoop,
       DecodePacket, PushFrame, Video, Audio, Device, SyncExit, SeePicture,
       DrawPicture, PopPicture, SeeSound, ShowSound, Popped, CallbackChecks,
       CallbackWakes, CallbackPlays, CallbackEnds, Pause, Resume, Stop,
       UnchangedByRequest, UnchangedByDemux, UnchangedByDecoder,
       UnchangedByDevice, vars
  <1>6. device' # "ended"
    BY <1>2, <1>3 DEF Next, Threads, Demuxer, Read, ReadFails, Retry, DemuxExit,
       PushRefused, PushBlocks, Push, Decoder, DecoderLoop, DecodePacket,
       PushFrame, Video, Audio, Device, SyncExit, SeePicture, DrawPicture,
       PopPicture, SeeSound, ShowSound, CallbackChecks, CallbackWakes,
       CallbackPlays, CallbackEnds, Pause, Resume, Stop, UnchangedByRequest,
       UnchangedByDemux, UnchangedByDecoder, UnchangedBySync, output, vars
  <1>7. demux' = "ended" => position' = Len(file')
    <2>1. CASE Demuxer
      BY <1>1, <1>2, <1>3, <2>1 DEF Demuxer, Read, ReadFails, Retry, DemuxExit,
         PushRefused, PushBlocks, Push
    <2>2. CASE UNCHANGED <<demux, position>>
      BY <1>1, <1>3, <2>2
    <2>. QED
      BY <2>1, <2>2 DEF Next, Threads, Decoder, DecoderLoop, DecodePacket,
         PushFrame, Video, Audio, Device, SyncExit, SeePicture, DrawPicture,
         PopPicture, SeeSound, ShowSound, CallbackChecks, CallbackWakes,
         CallbackPlays, CallbackEnds, Pause, Resume, Stop, UnchangedByRequest,
         UnchangedByDecoder, UnchangedBySync, UnchangedByDevice, vars
  <1>. QED
    BY <1>4, <1>5, <1>6, <1>7 DEF StaysUntilStop

LEMMA SoundStep == Inv /\ SoundAfterOpening /\ [Next]_vars => SoundAfterOpening'
  <1>. SUFFICES ASSUME Inv, SoundAfterOpening, [Next]_vars PROVE SoundAfterOpening'
    OBVIOUS
  <1>1. /\ done \in [Streams -> Nat] /\ pcm \in Nat /\ heard \in Nat
        /\ sync \in [Streams -> {"loop", "present", "drawn", "exited"}]
        /\ "audio" \in Streams /\ "video" \in Streams
    BY DEF Inv, TypeOK, Streams
  <1>2. zeroPts' = zeroPts
    BY FileStays
  <1>3. /\ Drawn \in Nat /\ OpeningPictures \in Nat
        /\ OpeningPictures' = OpeningPictures
    BY <1>1, <1>2 DEF Drawn, OpeningPictures
  <1>4. ASSUME done'["audio"] = done["audio"], pcm' + heard' = pcm + heard,
               sync'["audio"] \in {sync["audio"], "exited"},
               Drawn' \in Nat, Drawn' >= Drawn
        PROVE  SoundAfterOpening'
    BY <1>3, <1>4 DEF SoundAfterOpening, SoundMayStart
  <1>5. CASE DrawPicture \/ PopPicture
    <2>1. /\ Drawn' >= Drawn /\ Drawn' \in Nat
          /\ done'["audio"] = done["audio"]
          /\ sync'["audio"] = sync["audio"] /\ pcm' = pcm /\ heard' = heard
      BY <1>1, <1>5 DEF DrawPicture, PopPicture, Popped, Bump, UnchangedBySync,
             Drawn
    <2>. QED
      BY <1>4, <2>1
  <1>6. CASE SeeSound
    <2>1. SoundMayStart /\ Drawn' = Drawn
      BY <1>1, <1>6 DEF SeeSound, Drawn
    <2>2. UNCHANGED <<done, pcm, heard>>
      BY <1>6 DEF SeeSound, UnchangedBySync
    <2>. QED
      BY <1>3, <2>1, <2>2 DEF SoundAfterOpening, SoundMayStart
  <1>7. CASE ShowSound
    <2>1. /\ done'["video"] = done["video"] /\ done'["audio"] = done["audio"] + 1
          /\ sync["audio"] = "present" /\ pcm' = pcm + 1 /\ heard' = heard
          /\ sync'["video"] = sync["video"]
      BY <1>1, <1>7 DEF ShowSound, Popped, Bump, UnchangedBySync
    <2>2. Drawn' = Drawn
      BY <2>1 DEF Drawn
    <2>. QED
      BY <1>1, <1>3, <2>1, <2>2 DEF SoundAfterOpening, SoundMayStart
  <1>8. CASE SeePicture \/ (\E s \in Streams : SyncExit(s))
    <2>1. /\ sync'["audio"] \in {sync["audio"], "exited"}
          /\ UNCHANGED <<done, pcm, heard>>
          /\ sync'["video"] = "drawn" <=> sync["video"] = "drawn"
      BY <1>1, <1>8 DEF SeePicture, SyncExit, UnchangedBySync
    <2>2. Drawn' = Drawn
      BY <2>1 DEF Drawn
    <2>. QED
      BY <1>3, <1>4, <2>1, <2>2
  <1>9. CASE Device
    <2>1. UNCHANGED <<done, sync>> /\ pcm' + heard' = pcm + heard
      BY <1>1, <1>9
         DEF Device, CallbackChecks, CallbackWakes, CallbackPlays, CallbackEnds,
             UnchangedByDevice
    <2>2. Drawn' = Drawn
      BY <2>1 DEF Drawn
    <2>. QED
      BY <1>3, <1>4, <2>1, <2>2
  <1>10. CASE UNCHANGED <<done, pcm, heard, sync>>
    <2>1. Drawn' = Drawn
      BY <1>10 DEF Drawn
    <2>. QED
      BY <1>3, <1>4, <1>10, <2>1
  <1>. QED
    BY <1>5, <1>6, <1>7, <1>8, <1>9, <1>10
       DEF Next, Threads, Demuxer, Read, ReadFails, Retry, DemuxExit, PushRefused,
           PushBlocks, Push, Decoder, DecoderLoop, DecodePacket, PushFrame, Video,
           Audio, Pause, Resume, Stop, UnchangedByRequest, UnchangedByDemux,
           UnchangedByDecoder, output, Streams, vars

LEMMA OutputInitial == Init => Output
  BY DEF Init, Output, StaysUntilStop, SoundAfterOpening, Streams

LEMMA Complete == Spec => [](Inv /\ Output)
  <1>1. Inv /\ Output /\ [Next]_vars => Output'
    BY StaysStep, SoundStep DEF Output
  <1>. QED
    BY <1>1, OutputInitial, InitInv, NextInv, PTL DEF Spec

(* Whatever the capacities and the delay of the codec, the threads are all   *)
(* stuck only at the end.  The devices' list is empty, so that the audio     *)
(* loop waits for a frame or for the opening pictures; the video ring is     *)
(* empty, since a kept frame leaves it a place.  A demuxer that blocks then  *)
(* does so on the audio queue, with one packet more than the audio side has  *)
(* room for.                                                                 *)
THEOREM PlaysToTheEnd == Spec => []NeverStuck
  <1>1. Inv /\ Output => NeverStuck
    <2>. SUFFICES ASSUME Inv, Output, WellInterleaved, ~aborted, Stuck
                  PROVE  Played
      BY DEF NeverStuck
    <2>. USE BoundsAssumption
    <2>1. "audio" \in Streams /\ "video" \in Streams
      BY DEF Streams
    <2>2. /\ position \in 0..Len(file) /\ Len(file) \in Nat
          /\ file \in Seq(Streams)
          /\ demux \in {"push", "blocked"} => position > 0
          /\ pcm \in Nat /\ heard \in Nat
      BY FileIsSequence DEF Inv, TypeOK
    <2>3. \A s \in Streams : /\ queue[s] \in 0..PacketCap /\ ring[s] \in 0..RingCap
                             /\ decoded[s] \in Nat /\ done[s] \in Nat
      BY DEF Inv, TypeOK
    <2>4. /\ \A s \in Streams : decoder[s] # "exited" /\ sync[s] # "exited"
          /\ device # "ended"
          /\ demux = "ended" => position = Len(file)
      BY DEF Output, StaysUntilStop
    <2>5. pcm = 0
      BY <2>4 DEF Stuck, DeviceStuck
    <2>6. done["audio"] = heard /\ (done["audio"] > 0 => SoundMayStart)
      BY <2>2, <2>5 DEF Output, SoundAfterOpening
    <2>7. sync["audio"] = "loop" /\ (Visible("audio") = 0 \/ ~SoundMayStart)
      BY <2>1, <2>4, <2>5 DEF Stuck, AudioStuck
    <2>8. sync["video"] = "loop" /\ Visible("video") = 0
      BY <2>1, <2>4 DEF Stuck, VideoStuck
    <2>8a. SoundMayStart <=> done["video"] >= OpeningPictures
      <3>1. Drawn = done["video"]
        BY <2>1, <2>3, <2>8 DEF Drawn
      <3>. QED
        BY <3>1 DEF SoundMayStart
    <2>9. ASSUME NEW s \in Streams, Visible(s) = 0
          PROVE  decoder[s] = "pop" /\ queue[s] = 0 /\ Filling(s) = 0
      <3>1. ring[s] < RingCap
        BY <2>3, <2>9 DEF Visible, Kept
      <3>. QED
        BY <2>3, <2>4, <3>1 DEF Stuck, DecoderStuck, Filling
    <2>10. /\ decoder["video"] = "pop" /\ queue["video"] = 0 /\ Filling("video") = 0
      BY <2>1, <2>8, <2>9
    <2>11. \A s \in Streams : Produced(s) = Filling(s) + Visible(s) + done[s]
      BY DEF Inv, Flow, FrameFlow
    <2>12. \A s \in Streams : CountTo(position, s) = Carried(s) + queue[s] + decoded[s]
      BY DEF Output, StaysUntilStop, Inv, Flow, PacketFlow
    <2>13. /\ done["video"] = Produced("video")
           /\ Produced("video") = IF decoded["video"] > VideoDelay
                                    THEN decoded["video"] - VideoDelay ELSE 0
      <3>1. Produced("video") = 0 + 0 + done["video"]
        BY <2>1, <2>8, <2>10, <2>11
      <3>. QED
        BY <2>1, <2>3, <3>1 DEF Produced, Delay
    <2>14. CountTo(position, "video") = Carried("video") + decoded["video"]
      BY <2>1, <2>3, <2>10, <2>12 DEF Carried
    <2>15. decoded["audio"] = Produced("audio")
      BY <2>1, <2>3 DEF Produced, Delay
    <2>16. OpeningPictures \in Nat \ {0}
      BY DEF OpeningPictures
    <2>17. ASSUME demux = "ended"
           PROVE  /\ position = Len(file) /\ PicturesIn = decoded["video"]
                  /\ done["video"] = IF PicturesIn > VideoDelay
                                       THEN PicturesIn - VideoDelay ELSE 0
      <3>1. Carried("video") = 0 /\ position = Len(file)
        BY <2>4, <2>17 DEF Carried
      <3>. QED
        BY <2>1, <2>3, <2>13, <2>14, <3>1 DEF PicturesIn
    <2>18. CASE SoundMayStart
      <3>1. decoder["audio"] = "pop" /\ queue["audio"] = 0 /\ Filling("audio") = 0
            /\ Visible("audio") = 0
        BY <2>1, <2>7, <2>9, <2>18
      <3>2. demux = "ended"
        <4>1. CASE demux = "blocked" /\ queue[InHand] = PacketCap
          <5>1. InHand \in Streams
            BY <2>2, <4>1 DEF InHand
          <5>. QED
            BY <2>10, <3>1, <4>1, <5>1 DEF Streams
        <4>. QED
          BY <4>1 DEF Stuck, DemuxerStuck
      <3>3. heard = CountTo(Len(file), "audio")
        <4>1. Carried("audio") = 0
          BY <3>2 DEF Carried
        <4>2. CountTo(position, "audio") = decoded["audio"]
          BY <2>1, <2>3, <2>12, <3>1, <4>1
        <4>3. Produced("audio") = done["audio"]
          BY <2>1, <2>3, <2>11, <3>1
        <4>. QED
          BY <2>6, <2>15, <2>17, <3>2, <4>2, <4>3
      <3>4. SoundOpens
        <4>1. done["video"] >= OpeningPictures /\ done["video"] \in Nat
              /\ decoded["video"] \in Nat
          BY <2>1, <2>3, <2>8a, <2>18
        <4>2. decoded["video"] >= OpeningPictures + VideoDelay
          BY <2>13, <2>16, <4>1
        <4>. QED
          BY <2>17, <3>2, <4>2 DEF SoundOpens
      <3>. QED
        BY <2>17, <3>2, <3>3, <3>4 DEF Played
    <2>19. CASE ~SoundMayStart
      <3>1. done["audio"] = 0 /\ heard = 0
        BY <2>1, <2>3, <2>6, <2>19
      <3>2. decoded["video"] < OpeningPictures + VideoDelay
        <4>1. done["video"] < OpeningPictures /\ done["video"] \in Nat
              /\ decoded["video"] \in Nat
          BY <2>1, <2>3, <2>8a, <2>16, <2>19
        <4>. QED
          BY <2>13, <2>16, <4>1
      <3>3. CASE demux = "ended"
        <4>1. ~SoundOpens
          BY <2>1, <2>3, <2>16, <2>17, <3>2, <3>3 DEF SoundOpens
        <4>. QED
          BY <2>17, <3>1, <3>3, <4>1 DEF Played
      <3>4. CASE demux = "blocked" /\ queue[InHand] = PacketCap
        <4>1. InHand = "audio" /\ queue["audio"] = PacketCap
          <5>1. InHand \in Streams
            BY <2>2, <3>4 DEF InHand
          <5>. QED
            BY <2>10, <3>4, <5>1 DEF Streams
        <4>2. Carried("audio") = 1 /\ Carried("video") = 0
          BY <3>4, <4>1 DEF Carried
        <4>3. decoder["audio"] = "peek" /\ ring["audio"] = RingCap
          BY <2>1, <2>4, <4>1 DEF Stuck, DecoderStuck
        <4>4. decoded["audio"] = 1 + RingCap
          <5>1. Filling("audio") = 1 /\ Visible("audio") = RingCap
            BY <3>1, <4>3 DEF Filling, Visible, Kept
          <5>. QED
            BY <2>1, <2>11, <2>15, <3>1, <5>1
        <4>5. CountTo(position, "audio") > AudioRoom
          BY <2>1, <2>12, <4>1, <4>2, <4>4 DEF AudioRoom
        <4>6. CountTo(position, "video") < OpeningPictures + VideoDelay
          BY <2>1, <2>3, <2>14, <3>2, <4>2
        <4>7. position \in 1..Len(file)
          BY <2>2, <3>4
        <4>8. CountTo(position, "video") >= OpeningPictures + VideoDelay
          BY <4>5, <4>7 DEF WellInterleaved
        <4>. QED
          BY <2>1, <2>3, <2>14, <2>16, <4>2, <4>6, <4>8
      <3>. QED
        BY <3>3, <3>4 DEF Stuck, DemuxerStuck
    <2>. QED
      BY <2>18, <2>19
  <1>. QED
    BY <1>1, Complete, PTL

-----------------------------------------------------------------------------
(* And it gets there, if the file can be read: every step of a thread is     *)
(* counted by a number that the length of the file bounds, but for a failed  *)
(* read and its repetition.                                                  *)
DemuxerWork ==
    4 * position + (CASE demux = "push"    -> 0
                      [] demux = "blocked" -> 1
                      [] demux = "ended"   -> 3
                      [] OTHER             -> 2)

DecoderWork(s) ==
    3 * decoded[s] + (CASE decoder[s] = "peek" -> 0
                        [] decoder[s] = "loop" -> 1
                        [] decoder[s] = "pop"  -> 2
                        [] OTHER               -> 3)

SyncWork(s) == 3 * done[s] + (CASE sync[s] = "loop"    -> 0
                                [] sync[s] = "present" -> 1
                                [] OTHER               -> 2)

DeviceWork == 3 * heard + (CASE device = "check" -> 0
                             [] device = "nap"   -> 1
                             [] device = "get"   -> 2
                             [] OTHER            -> 3)

Work == DemuxerWork + DecoderWork("audio") + DecoderWork("video")
          + SyncWork("audio") + SyncWork("video") + DeviceWork

WorkBound == 19 * Len(file) + 16

LEMMA WorkIsNat ==
    Inv => /\ DemuxerWork \in Nat /\ DeviceWork \in Nat
           /\ \A s \in Streams : DecoderWork(s) \in Nat /\ SyncWork(s) \in Nat
  <1>. SUFFICES ASSUME Inv PROVE /\ DemuxerWork \in Nat /\ DeviceWork \in Nat
                                 /\ \A s \in Streams : DecoderWork(s) \in Nat /\ SyncWork(s) \in Nat
    OBVIOUS
  <1>1. /\ position \in Nat /\ heard \in Nat
        /\ \A s \in Streams : decoded[s] \in Nat /\ done[s] \in Nat
    BY FileIsSequence DEF Inv, TypeOK
  <1>. QED
    BY <1>1 DEF DemuxerWork, DeviceWork, DecoderWork, SyncWork

(* Each thread counts its own steps.                                         *)
LEMMA DemuxerCounts ==
    ASSUME Inv, Demuxer
    PROVE  IF ReadFails \/ Retry THEN DemuxerWork' = DemuxerWork
                                 ELSE DemuxerWork' > DemuxerWork
  <1>1. position \in Nat
    BY FileIsSequence DEF Inv, TypeOK
  <1>. QED
    BY <1>1 DEF Demuxer, Read, ReadFails, Retry, DemuxExit, PushRefused,
           PushBlocks, Push, DemuxerWork

LEMMA DecoderCounts ==
    ASSUME Inv, NEW s \in Streams, Decoder(s)
    PROVE  /\ DecoderWork(s)' > DecoderWork(s)
           /\ \A t \in Streams \ {s} : DecoderWork(t)' = DecoderWork(t)
  <1>1. /\ decoded \in [Streams -> Nat] /\ decoded[s] \in Nat
        /\ decoder \in [Streams -> {"loop", "pop", "peek", "exited"}]
    BY DEF Inv, TypeOK
  <1>2. \A t \in Streams \ {s} : decoded'[t] = decoded[t] /\ decoder'[t] = decoder[t]
    BY <1>1 DEF Decoder, DecoderLoop, DecodePacket, PushFrame, Bump
  <1>3. CASE DecoderLoop(s)
    <2>1. decoded'[s] = decoded[s] /\ decoder[s] = "loop" /\ decoder'[s] \in {"pop", "exited"}
      BY <1>1, <1>3 DEF DecoderLoop
    <2>. QED
      BY <1>1, <1>2, <2>1 DEF DecoderWork
  <1>4. CASE DecodePacket(s)
    <2>1. /\ decoded'[s] = decoded[s] + 1
          /\ decoder[s] = "pop" /\ decoder'[s] \in {"peek", "loop"}
      BY <1>1, <1>4 DEF DecodePacket, Bump
    <2>. QED
      BY <1>1, <1>2, <2>1 DEF DecoderWork
  <1>5. CASE PushFrame(s)
    <2>1. decoded'[s] = decoded[s] /\ decoder[s] = "peek" /\ decoder'[s] = "loop"
      BY <1>1, <1>5 DEF PushFrame
    <2>. QED
      BY <1>1, <1>2, <2>1 DEF DecoderWork
  <1>. QED
    BY <1>3, <1>4, <1>5 DEF Decoder

LEMMA SyncCounts ==
    ASSUME Inv, Video \/ Audio
    PROVE  \E s \in Streams :
               /\ SyncWork(s)' > SyncWork(s)
               /\ \A t \in Streams \ {s} : SyncWork(t)' = SyncWork(t)
  <1>1. /\ done \in [Streams -> Nat]
        /\ sync \in [Streams -> {"loop", "present", "drawn", "exited"}]
        /\ "audio" \in Streams /\ "video" \in Streams
    BY DEF Inv, TypeOK, Streams
  <1>2. ASSUME NEW s \in Streams, sync[s] = "loop", done' = done,
               NEW place \in {"present", "exited"}, sync' = [sync EXCEPT ![s] = place]
        PROVE  /\ SyncWork(s)' > SyncWork(s)
               /\ \A t \in Streams \ {s} : SyncWork(t)' = SyncWork(t)
    <2>1. sync'[s] = place /\ \A t \in Streams \ {s} : sync'[t] = sync[t]
      BY <1>1, <1>2
    <2>2. done[s] \in Nat
      BY <1>1
    <2>. QED
      BY <1>2, <2>1, <2>2 DEF SyncWork
  <1>3. ASSUME NEW s \in Streams, Popped(s)
        PROVE  /\ SyncWork(s)' > SyncWork(s)
               /\ \A t \in Streams \ {s} : SyncWork(t)' = SyncWork(t)
    <2>1. /\ sync'[s] = "loop" /\ done'[s] = done[s] + 1 /\ done[s] \in Nat
          /\ \A t \in Streams \ {s} : sync'[t] = sync[t] /\ done'[t] = done[t]
      BY <1>1, <1>3 DEF Popped, Bump
    <2>. QED
      BY <1>3, <2>1 DEF SyncWork
  <1>4. ASSUME NEW s \in Streams, SyncExit(s)
        PROVE  /\ SyncWork(s)' > SyncWork(s)
               /\ \A t \in Streams \ {s} : SyncWork(t)' = SyncWork(t)
    BY <1>2, <1>4 DEF SyncExit
  <1>5. CASE SeePicture
    BY <1>1, <1>2, <1>5 DEF SeePicture
  <1>6. CASE SeeSound
    BY <1>1, <1>2, <1>6 DEF SeeSound
  <1>7. CASE DrawPicture
    <2>1. /\ sync["video"] = "present" /\ sync'["video"] = "drawn" /\ done' = done
          /\ \A t \in Streams \ {"video"} : sync'[t] = sync[t]
      BY <1>1, <1>7 DEF DrawPicture
    <2>2. done["video"] \in Nat
      BY <1>1
    <2>. QED
      BY <1>1, <2>1, <2>2 DEF SyncWork
  <1>8. CASE PopPicture \/ ShowSound
    BY <1>1, <1>3, <1>8 DEF PopPicture, ShowSound
  <1>. QED
    BY <1>1, <1>4, <1>5, <1>6, <1>7, <1>8 DEF Video, Audio

LEMMA DeviceCounts == ASSUME Inv, Device PROVE DeviceWork' > DeviceWork
  <1>1. heard \in Nat
    BY DEF Inv, TypeOK
  <1>. QED
    BY <1>1 DEF Device, CallbackChecks, CallbackWakes, CallbackPlays,
           CallbackEnds, DeviceWork

(* A read fails or is repeated: the one thing a thread can do without end.   *)
Spins == ReadFails \/ Retry

(* Each step of a thread counts, whether or not it obeys a request, except   *)
(* that a demuxer whose reads fail goes round and round (FFDemux.cpp:116-125)*)
(* and gets nowhere.                                                         *)
THEOREM EachStepCounts ==
    Spec => [][Threads => IF Spins THEN Work' = Work ELSE Work' > Work]_vars
  <1>1. Inv /\ Inv' /\ [Next]_vars =>
          [Threads => IF Spins THEN Work' = Work ELSE Work' > Work]_vars
    <2>. SUFFICES ASSUME Inv, Inv', Threads
                  PROVE  IF Spins THEN Work' = Work ELSE Work' > Work
      OBVIOUS
    <2>1. "audio" \in Streams /\ "video" \in Streams /\ Streams = {"audio", "video"}
      BY DEF Streams
    <2>2. /\ DemuxerWork \in Nat /\ DeviceWork \in Nat
          /\ \A s \in Streams : DecoderWork(s) \in Nat /\ SyncWork(s) \in Nat
      BY WorkIsNat
    <2>3. (Inv => /\ DemuxerWork \in Nat /\ DeviceWork \in Nat
                  /\ \A s \in Streams : DecoderWork(s) \in Nat /\ SyncWork(s) \in Nat)'
      BY WorkIsNat, PTL
    <2>4. /\ DemuxerWork' \in Nat /\ DeviceWork' \in Nat
          /\ \A s \in Streams : DecoderWork(s)' \in Nat /\ SyncWork(s)' \in Nat
      BY <2>3
    <2>5. CASE Demuxer
      <3>1. IF Spins THEN DemuxerWork' = DemuxerWork ELSE DemuxerWork' > DemuxerWork
        BY <2>5, DemuxerCounts DEF Spins
      <3>2. UNCHANGED <<decoder, decoded, sync, done, device, heard>>
        BY <2>5 DEF Demuxer, Read, ReadFails, Retry, DemuxExit, PushRefused,
                    PushBlocks, Push, UnchangedByDemux, decoding, output
      <3>3. /\ \A s \in Streams : DecoderWork(s)' = DecoderWork(s) /\ SyncWork(s)' = SyncWork(s)
            /\ DeviceWork' = DeviceWork
        BY <3>2 DEF DecoderWork, SyncWork, DeviceWork
      <3>. QED
        BY <2>1, <2>2, <2>4, <3>1, <3>3 DEF Work
    <2>0. Spins => Demuxer
      BY DEF Spins, Demuxer
    <2>6. ASSUME NEW s \in Streams, Decoder(s) PROVE Work' > Work
      <3>1. /\ DecoderWork(s)' > DecoderWork(s)
            /\ \A t \in Streams \ {s} : DecoderWork(t)' = DecoderWork(t)
        BY <2>6, DecoderCounts
      <3>2. UNCHANGED <<position, demux, sync, done, device, heard>>
        BY <2>6 DEF Decoder, DecoderLoop, DecodePacket, PushFrame,
               UnchangedByDecoder, output
      <3>3. /\ \A t \in Streams : SyncWork(t)' = SyncWork(t)
            /\ DemuxerWork' = DemuxerWork /\ DeviceWork' = DeviceWork
        BY <3>2 DEF DemuxerWork, SyncWork, DeviceWork
      <3>4. DecoderWork("audio")' + DecoderWork("video")'
              > DecoderWork("audio") + DecoderWork("video")
        <4>1. CASE s = "audio"
          BY <2>1, <2>2, <2>4, <3>1, <4>1
        <4>2. CASE s = "video"
          BY <2>1, <2>2, <2>4, <3>1, <4>2
        <4>. QED
          BY <2>1, <4>1, <4>2
      <3>. QED
        BY <2>1, <2>2, <2>4, <3>3, <3>4 DEF Work
    <2>7. ASSUME Video \/ Audio PROVE Work' > Work
      <3>1. PICK s \in Streams : /\ SyncWork(s)' > SyncWork(s)
                                 /\ \A t \in Streams \ {s} : SyncWork(t)' = SyncWork(t)
        BY <2>7, SyncCounts
      <3>2. UNCHANGED <<position, demux, decoder, decoded, device, heard>>
        BY <2>7 DEF Video, Audio, SyncExit, SeePicture, DrawPicture, PopPicture,
                    SeeSound, ShowSound, UnchangedBySync, decoding
      <3>3. /\ \A t \in Streams : DecoderWork(t)' = DecoderWork(t)
            /\ DemuxerWork' = DemuxerWork /\ DeviceWork' = DeviceWork
        BY <3>2 DEF DemuxerWork, DecoderWork, DeviceWork
      <3>4. SyncWork("audio")' + SyncWork("video")' > SyncWork("audio") + SyncWork("video")
        <4>1. CASE s = "audio"
          BY <2>1, <2>2, <2>4, <3>1, <4>1
        <4>2. CASE s = "video"
          BY <2>1, <2>2, <2>4, <3>1, <4>2
        <4>. QED
          BY <2>1, <4>1, <4>2
      <3>. QED
        BY <2>1, <2>2, <2>4, <3>3, <3>4 DEF Work
    <2>8. ASSUME Device PROVE Work' > Work
      <3>1. DeviceWork' > DeviceWork
        BY <2>8, DeviceCounts
      <3>2. UNCHANGED <<position, demux, decoder, decoded, sync, done>>
        BY <2>8 DEF Device, CallbackChecks, CallbackWakes, CallbackPlays,
                    CallbackEnds, UnchangedByDevice, decoding
      <3>3. /\ \A s \in Streams : DecoderWork(s)' = DecoderWork(s) /\ SyncWork(s)' = SyncWork(s)
            /\ DemuxerWork' = DemuxerWork
        BY <3>2 DEF DecoderWork, SyncWork, DemuxerWork
      <3>. QED
        BY <2>1, <2>2, <2>4, <3>1, <3>3 DEF Work
    <2>. QED
      BY <2>0, <2>5, <2>6, <2>7, <2>8 DEF Threads
  <1>. QED
    BY <1>1, InitInv, NextInv, PTL DEF Spec

LEMMA CountAtMost == ASSUME NEW n \in Nat, NEW s PROVE CountTo(n, s) <= n
  <1>1. {i \in 1..n : file[i] = s} \subseteq 1..n
    OBVIOUS
  <1>2. IsFiniteSet(1..n) /\ Cardinality(1..n) = n
    BY FS_Interval
  <1>3. Cardinality({i \in 1..n : file[i] = s}) <= Cardinality(1..n)
    BY <1>1, <1>2, FS_Subset
  <1>. QED
    BY <1>2, <1>3 DEF CountTo

(* Threads can take no more such steps than that: for every file and         *)
(* whatever is requested, they come to rest unless reads go on failing.      *)
THEOREM WorkIsBounded == Spec => [](Work <= WorkBound)
  <1>1. Inv /\ Output => Work <= WorkBound
    <2>. SUFFICES ASSUME Inv, Output PROVE Work <= WorkBound
      OBVIOUS
    <2>1. /\ "audio" \in Streams /\ "video" \in Streams /\ Len(file) \in Nat
          /\ position \in 0..Len(file) /\ pcm \in Nat /\ heard \in Nat
          /\ position \in Nat
      BY FileIsSequence DEF Inv, TypeOK, Streams
    <2>2. ASSUME NEW s \in Streams
          PROVE  /\ decoded[s] \in 0..Len(file) /\ done[s] \in 0..Len(file)
      <3>1. /\ decoded[s] \in Nat /\ done[s] \in Nat /\ queue[s] \in Nat /\ ring[s] \in Nat
            /\ Delay(s) \in Nat
        BY <2>2, BoundsAssumption DEF Inv, TypeOK, Delay
      <3>2. decoded[s] <= CountTo(position, s)
        <4>1. Carried(s) + queue[s] + decoded[s] <= CountTo(position, s)
          BY <2>2 DEF Inv, Flow, PacketFlow
        <4>2. Carried(s) \in Nat /\ CountTo(position, s) \in Nat
          BY <2>1, CountIsNat DEF Carried
        <4>. QED
          BY <3>1, <4>1, <4>2
      <3>3. CountTo(position, s) <= position /\ CountTo(position, s) \in Nat
        BY <2>1, CountAtMost, CountIsNat
      <3>4. done[s] <= decoded[s]
        <4>1. /\ Produced(s) = Filling(s) + Visible(s) + done[s]
              /\ Visible(s) >= 0 /\ Visible(s) \in Int
          BY <2>2, <3>1 DEF Inv, Flow, FrameFlow, Visible, Kept
        <4>2. Filling(s) \in Nat
          BY DEF Filling
        <4>3. Produced(s) <= decoded[s] /\ Produced(s) \in Nat
          BY <3>1 DEF Produced
        <4>. QED
          BY <3>1, <4>1, <4>2, <4>3
      <3>. QED
        BY <2>1, <3>1, <3>2, <3>3, <3>4
    <2>3. heard \in 0..Len(file)
      BY <2>1, <2>2 DEF Output, SoundAfterOpening
    <2>4. DemuxerWork <= 4 * Len(file) + 3
      BY <2>1 DEF DemuxerWork
    <2>5. ASSUME NEW s \in Streams
          PROVE  DecoderWork(s) <= 3 * Len(file) + 3 /\ SyncWork(s) <= 3 * Len(file) + 2
      <3>1. decoded[s] \in 0..Len(file) /\ done[s] \in 0..Len(file)
        BY <2>2
      <3>. QED
        BY <2>1, <3>1 DEF DecoderWork, SyncWork
    <2>6. DeviceWork <= 3 * Len(file) + 3
      BY <2>1, <2>3 DEF DeviceWork
    <2>7. /\ DemuxerWork \in Nat /\ DeviceWork \in Nat
          /\ \A s \in Streams : DecoderWork(s) \in Nat /\ SyncWork(s) \in Nat
      BY WorkIsNat
    <2>. QED
      BY <2>1, <2>4, <2>5, <2>6, <2>7 DEF Work, WorkBound
  <1>. QED
    BY <1>1, Complete, PTL
=============================================================================

------------------------------ MODULE Playback ------------------------------
(* The whole pipeline of a started player: the demuxer (FFDemux), two        *)
(* decoders with their packet queues and frame rings, the two loops of       *)
(* MediaSync2, the list of PCM blocks (IAudioPlay) and the OpenSL callback   *)
(* (SLAudioPlay).  Queues and rings are what Queue, FrameQueue and Decode    *)
(* say of them, reduced to how many items they hold; a packet is one frame.  *)
(* What is left is how the streams hold each other up: ONE demuxer serves    *)
(* both and blocks on either, and sound waits for the first picture.         *)
EXTENDS Naturals, Sequences, FiniteSets

CONSTANTS Lengths,     \* bound: how many packets files have
          PacketCap,   \* size_max of each packet queue
          RingCap,     \* max_size of each frame ring
          PcmCap,      \* maxFrameBuffer
          VideoDelay,  \* pictures the video codec holds back
          ZeroPts,     \* may the first picture's time stamp be 0, or another
          Requests     \* which requests the user makes: "pause", "stop"

ASSUME BoundsAssumption ==
    /\ Lengths \subseteq Nat /\ PacketCap \in Nat \ {0}
    /\ RingCap \in Nat \ {0, 1} /\ PcmCap \in Nat /\ VideoDelay \in Nat
    /\ ZeroPts \subseteq BOOLEAN /\ Requests \subseteq {"pause", "stop"}

VARIABLES file,      \* the file: the packets of the two streams, in order
          zeroPts,   \* the file: is the first picture's time stamp 0
          position,  \* packets read
          demux,     \* where the demuxer's thread is
          queue,     \* packets in each packet queue
          decoder,   \* where each decoder's thread is
          decoded,   \* packets each codec has accepted
          ring,      \* size of each frame ring, the kept frame included
          sync,      \* where each loop of MediaSync2 is
          done,      \* frames each loop has presented and popped
          pcm,       \* blocks in IAudioPlay::frames
          device,    \* where the OpenSL callback is
          heard,     \* blocks it has enqueued
          paused, aborted,  \* pauseRequest, abortRequest
          late       \* what was presented since a request that still holds

vars == <<file, zeroPts, position, demux, queue, decoder, decoded, ring, sync,
          done, pcm, device, heard, paused, aborted, late>>

Streams == {"audio", "video"}
Files   == UNION {[1..n -> Streams] : n \in Lengths}

input    == <<file, zeroPts>>
requests == <<paused, aborted>>
decoding == <<decoder, decoded>>
output   == <<pcm, device, heard>>

(* The packet in the demuxer's hand belongs to this stream.                  *)
InHand == file[position]

Delay(s) == IF s = "video" THEN VideoDelay ELSE 0

(* The last frame shown keeps its slot: the first popFrame() frees none.     *)
Kept(s)    == IF done[s] > 0 THEN 1 ELSE 0
Visible(s) == ring[s] - Kept(s)

Bump(f, s) == [f EXCEPT ![s] = @ + 1]

NoneLate == [k \in Streams \cup {"sound"} |-> 0]

Init == /\ file \in Files /\ zeroPts \in ZeroPts
        /\ position = 0 /\ demux = "read"
        /\ queue = [s \in Streams |-> 0]
        /\ decoder = [s \in Streams |-> "loop"]
        /\ decoded = [s \in Streams |-> 0]
        /\ ring = [s \in Streams |-> 0]
        /\ sync = [s \in Streams |-> "loop"]
        /\ done = [s \in Streams |-> 0]
        /\ pcm = 0 /\ device = "check" /\ heard = 0
        /\ paused = FALSE /\ aborted = FALSE
        /\ late = NoneLate

-----------------------------------------------------------------------------
(* The UI thread's requests.                                                 *)
UnchangedByRequest == UNCHANGED <<input, position, demux, queue, decoding,
                                  ring, sync, done, output>>

Pause == /\ "pause" \in Requests /\ ~paused /\ ~aborted
         /\ paused' = TRUE /\ late' = NoneLate
         /\ UnchangedByRequest /\ UNCHANGED aborted

Resume == /\ paused
          /\ paused' = FALSE /\ late' = IF aborted THEN late ELSE NoneLate
          /\ UnchangedByRequest /\ UNCHANGED aborted

Stop == /\ "stop" \in Requests /\ ~aborted
        /\ aborted' = TRUE /\ late' = NoneLate
        /\ UnchangedByRequest /\ UNCHANGED paused

-----------------------------------------------------------------------------
(* The demuxer.  It sleeps a pause out and leaves at the end of the file or  *)
(* when it is stopped.                                                       *)
UnchangedByDemux == UNCHANGED <<input, requests, decoding, ring, sync, done,
                                output, late>>

Read == /\ demux = "read" /\ ~aborted /\ ~paused
        /\ IF position < Len(file)
             THEN position' = position + 1 /\ demux' = "push"
             ELSE demux' = "ended" /\ UNCHANGED position
        /\ UNCHANGED queue /\ UnchangedByDemux

(* A read brings neither decoder a packet: av_read_frame() fails, but not    *)
(* with the end of the file, or reads a packet of neither stream.  The mutex *)
(* is given back and taken again at once, however often that happens.        *)
ReadFails == /\ demux = "read" /\ ~aborted /\ ~paused
             /\ demux' = "retry"
             /\ UNCHANGED <<position, queue>> /\ UnchangedByDemux

Retry == /\ demux = "retry"
         /\ demux' = "read"
         /\ UNCHANGED <<position, queue>> /\ UnchangedByDemux

DemuxExit == /\ demux = "read" /\ aborted
             /\ demux' = "ended"
             /\ UNCHANGED <<position, queue>> /\ UnchangedByDemux

(* pushPacket() drops the packet of a stopped decoder ...                    *)
PushRefused == /\ demux = "push" /\ aborted
               /\ demux' = "read"
               /\ UNCHANGED <<position, queue>> /\ UnchangedByDemux

PushBlocks == /\ demux = "push" /\ ~aborted
              /\ queue[InHand] = PacketCap
              /\ demux' = "blocked"
              /\ UNCHANGED <<position, queue>> /\ UnchangedByDemux

(* ... but a push that already blocks stays there.                           *)
Push == /\ \/ demux = "push" /\ ~aborted
           \/ demux = "blocked"
        /\ queue[InHand] < PacketCap
        /\ queue' = Bump(queue, InHand)
        /\ demux' = "read"
        /\ UNCHANGED position /\ UnchangedByDemux

Demuxer == \/ Read \/ ReadFails \/ Retry \/ DemuxExit
           \/ PushRefused \/ PushBlocks \/ Push

-----------------------------------------------------------------------------
(* The decoder of stream s.                                                  *)
UnchangedByDecoder == UNCHANGED <<input, requests, position, demux, sync,
                                  done, output, late>>

DecoderLoop(s) == /\ decoder[s] = "loop" /\ (aborted \/ ~paused)
                  /\ decoder' = [decoder EXCEPT ![s] =
                                   IF aborted THEN "exited" ELSE "pop"]
                  /\ UNCHANGED <<queue, decoded, ring>> /\ UnchangedByDecoder

(* One packet is taken and decoded; a frame comes out once the codec holds   *)
(* more than its delay.                                                      *)
DecodePacket(s) == /\ decoder[s] = "pop" /\ queue[s] > 0
                   /\ queue' = [queue EXCEPT ![s] = @ - 1]
                   /\ decoded' = Bump(decoded, s)
                   /\ decoder' = [decoder EXCEPT ![s] =
                                    IF decoded'[s] > Delay(s)
                                      THEN "peek" ELSE "loop"]
                   /\ UNCHANGED ring /\ UnchangedByDecoder

(* Mutant: a full ring drops the frame.                                      *)
PushFrameOrDrop(s) == /\ decoder[s] = "peek"
                      /\ ring' = IF ring[s] < RingCap
                                   THEN Bump(ring, s) ELSE ring
                      /\ decoder' = [decoder EXCEPT ![s] = "loop"]
                      /\ UNCHANGED <<queue, decoded>> /\ UnchangedByDecoder

PushFrame(s) == /\ decoder[s] = "peek" /\ ring[s] < RingCap
                /\ ring' = Bump(ring, s)
                /\ decoder' = [decoder EXCEPT ![s] = "loop"]
                /\ UNCHANGED <<queue, decoded>> /\ UnchangedByDecoder

Decoder(s) == DecoderLoop(s) \/ DecodePacket(s) \/ PushFrame(s)

-----------------------------------------------------------------------------
(* The loops of MediaSync2.  Each passes its tests, then presents a frame.   *)
UnchangedBySync == UNCHANGED <<input, requests, position, demux, queue,
                               decoding, device, heard>>

SyncExit(s) == /\ sync[s] = "loop" /\ aborted
               /\ sync' = [sync EXCEPT ![s] = "exited"]
               /\ UNCHANGED <<ring, done, pcm, late>> /\ UnchangedBySync

Noted(k) == IF paused \/ aborted THEN Bump(late, k) ELSE late

(* popFrame(): the frame before this one loses its slot.                     *)
Popped(s) == /\ ring' = [ring EXCEPT ![s] = @ - Kept(s)]
             /\ done' = Bump(done, s)
             /\ sync' = [sync EXCEPT ![s] = "loop"]

(* Mutant: pictures wait for sound as sound waits for pictures.              *)
SeePictureAfterSound ==
    /\ sync["video"] = "loop" /\ ~aborted /\ ~paused /\ Visible("video") > 0
    /\ done["video"] > 0 => done["audio"] > 0
    /\ sync' = [sync EXCEPT !["video"] = "present"]
    /\ UNCHANGED <<ring, done, pcm, late>> /\ UnchangedBySync

(* Mutant: videoPlay() does not look at the pause request.                   *)
SeePicturePaused ==
    /\ sync["video"] = "loop" /\ ~aborted /\ Visible("video") > 0
    /\ sync' = [sync EXCEPT !["video"] = "present"]
    /\ UNCHANGED <<ring, done, pcm, late>> /\ UnchangedBySync

SeePicture == /\ sync["video"] = "loop" /\ ~aborted /\ ~paused
              /\ Visible("video") > 0
              /\ sync' = [sync EXCEPT !["video"] = "present"]
              /\ UNCHANGED <<ring, done, pcm, late>> /\ UnchangedBySync

(* videoPlay() sleeps until the picture is due, sets lastFramePts and draws  *)
(* it; then it pops it.                                                      *)
DrawPicture == /\ sync["video"] = "present"
               /\ sync' = [sync EXCEPT !["video"] = "drawn"]
               /\ late' = Noted("video")
               /\ UNCHANGED <<ring, done, pcm>> /\ UnchangedBySync

PopPicture == /\ sync["video"] = "drawn"
              /\ Popped("video")
              /\ UNCHANGED <<pcm, late>> /\ UnchangedBySync

(* Mutant: sound starts without a picture.                                   *)
SoundStartsAtOnce == TRUE

(* lastFramePts is 0 until a picture with another time stamp is shown.       *)
OpeningPictures == IF zeroPts THEN 2 ELSE 1
Drawn == done["video"] + (IF sync["video"] = "drawn" THEN 1 ELSE 0)
SoundMayStart == Drawn >= OpeningPictures

SeeSound == /\ sync["audio"] = "loop" /\ ~aborted /\ ~paused
            /\ Visible("audio") > 0 /\ SoundMayStart
            /\ sync' = [sync EXCEPT !["audio"] = "present"]
            /\ UNCHANGED <<ring, done, pcm, late>> /\ UnchangedBySync

(* audioPlay() resamples the frame and appends the block, which blocks above *)
(* maxFrameBuffer until a block is taken or stop() wakes it, and pops the    *)
(* frame.                                                                    *)
ShowSound == /\ sync["audio"] = "present" /\ (pcm <= PcmCap \/ aborted)
             /\ pcm' = pcm + 1 /\ late' = Noted("audio")
             /\ Popped("audio")
             /\ UnchangedBySync

Video == SyncExit("video") \/ SeePicture \/ DrawPicture \/ PopPicture
Audio == SyncExit("audio") \/ SeeSound \/ ShowSound

-----------------------------------------------------------------------------
(* SLAudioPlay::playCall: looks at the requests, then waits for a block.     *)
UnchangedByDevice == UNCHANGED <<input, requests, position, demux, queue,
                                 decoding, ring, sync, done>>

CallbackChecks == /\ device = "check"
                  /\ device' = IF aborted THEN "ended"
                                ELSE IF paused THEN "nap" ELSE "get"
                  /\ UNCHANGED <<pcm, heard, late>> /\ UnchangedByDevice

(* A pause is slept through.  The stop request is looked at in there only    *)
(* while the pause still holds.                                              *)
CallbackWakes == /\ device = "nap" /\ (aborted \/ ~paused)
                 /\ device' = IF paused THEN "ended" ELSE "get"
                 /\ UNCHANGED <<pcm, heard, late>> /\ UnchangedByDevice

CallbackPlays == /\ device = "get" /\ pcm > 0
                 /\ pcm' = pcm - 1 /\ heard' = heard + 1
                 /\ late' = Noted("sound")
                 /\ device' = "check"
                 /\ UnchangedByDevice

(* getData() after stop() returns an empty block and ends the callbacks.     *)
(* (MediaPlayer::stop sets abortRequest before IAudioPlay's isExit: a block  *)
(* may still be played in between.)                                          *)
CallbackEnds == /\ device = "get" /\ aborted
                /\ device' = "ended"
                /\ UNCHANGED <<pcm, heard, late>> /\ UnchangedByDevice

Device == CallbackChecks \/ CallbackWakes \/ CallbackPlays \/ CallbackEnds

-----------------------------------------------------------------------------
Threads == \/ Demuxer \/ (\E s \in Streams : Decoder(s))
           \/ Video \/ Audio \/ Device

Next == Threads \/ Pause \/ Resume \/ Stop

Spec == Init /\ [][Next]_vars

(* Each thread is scheduled; what blocks it is the model's own.              *)
FairSpec == /\ Spec
            /\ WF_vars(Demuxer)
            /\ \A s \in Streams : WF_vars(Decoder(s))
            /\ WF_vars(Video) /\ WF_vars(Audio) /\ WF_vars(Device)

-----------------------------------------------------------------------------
TypeOK == /\ file \in Files /\ zeroPts \in BOOLEAN
          /\ position \in 0..Len(file)
          /\ demux \in {"read", "retry", "push", "blocked", "ended"}
          /\ demux \in {"push", "blocked"} => position > 0
          /\ queue \in [Streams -> 0..PacketCap]
          /\ decoder \in [Streams -> {"loop", "pop", "peek", "exited"}]
          /\ decoded \in [Streams -> Nat]
          /\ ring \in [Streams -> 0..RingCap]
          /\ sync \in [Streams -> {"loop", "present", "drawn", "exited"}]
          /\ done \in [Streams -> Nat]
          /\ pcm \in Nat
          /\ device \in {"check", "nap", "get", "ended"}
          /\ heard \in Nat
          /\ paused \in BOOLEAN /\ aborted \in BOOLEAN
          /\ late \in [Streams \cup {"sound"} -> Nat]

(* How many of the first n packets of the file belong to stream s.           *)
CountTo(n, s) == Cardinality({i \in 1..n : file[i] = s})

(* Frames that have left the codec of s, and packets on their way to it.     *)
Produced(s) == IF decoded[s] > Delay(s) THEN decoded[s] - Delay(s) ELSE 0
Carried(s)  == IF demux \in {"push", "blocked"} /\ InHand = s THEN 1 ELSE 0
Filling(s)  == IF decoder[s] = "peek" THEN 1 ELSE 0

(* Until a stop nothing is lost between the file and the output: each packet *)
(* that was read is in the demuxer's hand, in the queue or decoded, and each *)
(* frame that left the codec is in hand, in the ring or presented.           *)
NothingLost ==
    \A s \in Streams :
        /\ ~aborted => CountTo(position, s) = Carried(s) + queue[s] + decoded[s]
        /\ Produced(s) = Filling(s) + Visible(s) + done[s]
        /\ Visible(s) >= (IF sync[s] \in {"present", "drawn"} THEN 1 ELSE 0)

(* What the audio side takes in before sound may start: a full ring, a frame *)
(* in the decoder's hand and a full packet queue.                            *)
AudioRoom == RingCap + 1 + PacketCap

(* The pictures that open the sound are in the file before the audio packet  *)
(* that no longer fits.                                                      *)
WellInterleaved ==
    \A n \in 1..Len(file) :
        CountTo(n, "audio") > AudioRoom
            => CountTo(n, "video") >= OpeningPictures + VideoDelay

(* One audio packet too many before the opening picture, and the file never  *)
(* plays: the demuxer blocks on the audio queue (FFDemux.cpp:142), the       *)
(* picture behind that packet is never read and audioPlay() waits for it     *)
(* (MediaSync2.cpp:35).                                                      *)
SkewedNeverPlays == ~WellInterleaved =>
    /\ heard = 0 /\ done["audio"] = 0
    /\ Drawn < OpeningPictures
    /\ CountTo(position, "audio") <= AudioRoom + 1

(* Every thread polls the requests between its steps: after a pause or a     *)
(* stop at most one more picture is shown, one more frame resampled and one  *)
(* more block enqueued (MediaSync2.cpp:28-29, 81-82, SLAudioPlay.cpp:112-115).*)
RequestsSoonObeyed ==
    paused \/ aborted => \A k \in DOMAIN late : late[k] <= 1

(* Left alone, a well interleaved file is played to its end unless reads go  *)
(* on failing for good (they are repeated without bound, FFDemux.cpp:124):   *)
(* both streams are presented completely but for the pictures the codec      *)
(* holds back, and all the sound is heard unless the file has no opening     *)
(* picture.                                                                  *)
PicturesIn == CountTo(Len(file), "video")
SoundOpens == PicturesIn >= OpeningPictures + VideoDelay
FileIsPlayed ==
    WellInterleaved /\ <>[](~paused /\ ~aborted /\ demux # "retry")
      => <>[](/\ demux = "ended"
              /\ done["video"] = IF PicturesIn > VideoDelay
                                   THEN PicturesIn - VideoDelay ELSE 0
              /\ heard = IF SoundOpens THEN CountTo(Len(file), "audio") ELSE 0)
=============================================================================

-------------------------- MODULE PlayerLifecycle --------------------------
(* What the activity's calls do to a player: PlayerActivity makes them one    *)
(* after the other on the UI thread; JNI's _start() opens the source AGAIN    *)
(* and starts one more set of threads each time.  MediaPlayer::mutex is held  *)
(* for a whole call and only the UI thread's calls take it, so it is part of  *)
(* the call.  FFDemux::mutex is shared with the demuxer's threads, which      *)
(* keep it while they sleep a pause out and while they block in push().       *)
(* Decoders only empty the packet queue here; Playback has the rest.          *)
EXTENDS Naturals, Sequences

CONSTANTS MaxStarts,  \* bound: calls of start()
          Length,     \* packets in the source
          QueueCap    \* size_max of the packet queue

ASSUME BoundsAssumption ==
    /\ MaxStarts \in Nat /\ Length \in Nat /\ QueueCap \in Nat \ {0}

VARIABLES screen,    \* the activity: "resumed", "paused", "stopped"
          ui,        \* where the UI thread is: "idle" or a step of _start()
          last,      \* the call that returned last
          starts,    \* calls of start()
          pause,     \* pauseRequest
          abort,     \* abortRequest
          isExit,    \* the demuxer's isExit
          contexts,  \* sources opened so far: each has a number
          source,    \* formatContext: a source's number, 0 = null
          stream,    \* the source FFDemux::pStream points into, 0 = null
          position,  \* packets read from the source
          queue,     \* the packet queue: [source, index] of each packet
          demux,     \* the demuxer thread of each start()
          decoder    \* the decoder thread of each start()

vars == <<screen, ui, last, starts, pause, abort, isExit, contexts, source,
          stream, position, queue, demux, decoder>>

Starts  == 1..MaxStarts
Packets == [source : 1..(MaxStarts + 1), index : 1..Length]

flags == <<pause, abort, isExit>>
media == <<contexts, source, stream, position>>

(* setDataSource() has opened the source once, in onCreate().                *)
Init == /\ screen = "resumed" /\ ui = "idle" /\ last = "none"
        /\ starts = 0
        /\ pause = FALSE /\ abort = FALSE /\ isExit = FALSE
        /\ contexts = 1 /\ source = 1 /\ stream = 0 /\ position = 0
        /\ queue = <<>>
        /\ demux = [g \in Starts |-> "none"]
        /\ decoder = [g \in Starts |-> "none"]

(* A demuxer thread read from a closed source: the process is gone.          *)
Crashed == \E g \in Starts : demux[g] = "crashed"

(* Mutant: the mutex is given back before push().                            *)
HeldAsleep == \E g \in Starts : demux[g] = "sleep"

(* FFDemux::mutex is taken.                                                  *)
Holding == {"sleep", "failed", "push", "blocked"}
Held == \E g \in Starts : demux[g] \in Holding

-----------------------------------------------------------------------------
(* Calls that return at once.                                                *)
Returns(call) == /\ ui = "idle" /\ last' = call
                 /\ UNCHANGED <<ui, starts, media, queue, demux, decoder>>

Pause == /\ screen = "resumed"
         /\ screen' \in {"resumed", "paused"}       \* the button, or onPause()
         /\ pause' = TRUE
         /\ Returns("pause") /\ UNCHANGED <<abort, isExit>>

Resume == /\ screen' = "resumed"                    \* the button, or onResume()
          /\ pause' = FALSE
          /\ Returns("resume") /\ UNCHANGED <<abort, isExit>>

Stop == /\ screen = "paused" /\ screen' = "stopped" \* onStop()
        /\ abort' = TRUE /\ isExit' = TRUE
        /\ Returns("stop") /\ UNCHANGED pause

-----------------------------------------------------------------------------
(* _start(): openSource() closes the source, opens it anew and reads the     *)
(* streams' parameters, taking FFDemux::mutex for each; then start().        *)
UnchangedByOpening == UNCHANGED <<screen, last, flags, queue, demux, decoder>>

(* Mutant: the threads are started before the source is opened.              *)
TapStartEarly == /\ ui = "idle" /\ screen = "resumed" /\ starts < MaxStarts
                 /\ ui' = "close" /\ starts' = starts + 1
                 /\ demux' = [demux EXCEPT ![starts'] = "top"]
                 /\ UNCHANGED <<screen, last, flags, media, queue, decoder>>

TapStart == /\ ui = "idle" /\ screen = "resumed" /\ starts < MaxStarts
            /\ ui' = "close" /\ starts' = starts + 1
            /\ UNCHANGED media /\ UnchangedByOpening

Close == /\ ui = "close" /\ ~Held
         /\ source' = 0 /\ ui' = "open"
         /\ UNCHANGED <<starts, contexts, stream, position>> /\ UnchangedByOpening

Open == /\ ui = "open" /\ ~Held
        /\ contexts' = contexts + 1 /\ source' = contexts' /\ position' = 0
        /\ ui' \in {"parameters", "decoder"}  \* or find_stream_info fails
        /\ UNCHANGED <<starts, stream>> /\ UnchangedByOpening

(* open() fails, openSource() returns and start() is called all the same.    *)
OpenFails == /\ ui = "open" /\ ~Held
             /\ ui' = "decoder"
             /\ UNCHANGED <<starts, media>> /\ UnchangedByOpening

(* The last of the times that open() and openSource() take the mutex to read *)
(* a parameter; none of them changes anything here.                          *)
ReadParameters == /\ ui = "parameters" /\ ~Held
                  /\ ui' = "decoder"
                  /\ UNCHANGED <<starts, media>> /\ UnchangedByOpening

(* MediaPlayer::start().  Neither request is taken back.  The sample rate is *)
(* asked for if it is not known.  (The call may block on the observers'      *)
(* mutex of the resampler: see AudioOutput.)                                 *)
UnchangedByStart == UNCHANGED <<screen, starts, pause, abort, media, queue>>

StartDecoder == /\ ui = "decoder"
                /\ decoder' = [decoder EXCEPT ![starts] = "loop"]
                /\ ui' \in {"rate", "demuxer"}
                /\ UNCHANGED <<isExit, last, demux>> /\ UnchangedByStart

AskRate == /\ ui = "rate" /\ ~Held
           /\ ui' = "demuxer"
           /\ UNCHANGED <<isExit, last, demux, decoder>> /\ UnchangedByStart

StartDemuxer == /\ ui = "demuxer"
                /\ demux' = [demux EXCEPT ![starts] = "top"]
                /\ isExit' = FALSE
                /\ ui' = "idle" /\ last' = "start"
                /\ UNCHANGED decoder /\ UnchangedByStart

Starting == \/ Close \/ Open \/ OpenFails \/ ReadParameters
            \/ StartDecoder \/ AskRate \/ StartDemuxer

UI == Pause \/ Resume \/ Stop \/ TapStart \/ Starting

-----------------------------------------------------------------------------
(* A demuxer thread.  From the top of the loop to its end it holds the mutex.*)
UnchangedByDemux == UNCHANGED <<screen, ui, last, starts, pause, abort,
                                contexts, source, decoder>>

Moves(g, from, to) == demux[g] = from /\ demux' = [demux EXCEPT ![g] = to]

DemuxExit(g) == /\ Moves(g, "top", "ended") /\ ~Held
                /\ abort \/ isExit
                /\ UNCHANGED <<isExit, stream, position, queue>> /\ UnchangedByDemux

(* Mutant: the pause is looked at first.                                     *)
DemuxSleepsFirst(g) == /\ Moves(g, "top", "sleep") /\ ~Held /\ pause
                       /\ UNCHANGED <<isExit, stream, position, queue>>
                       /\ UnchangedByDemux

DemuxSleeps(g) == /\ Moves(g, "top", "sleep") /\ ~Held
                  /\ ~abort /\ ~isExit /\ pause
                  /\ UNCHANGED <<isExit, stream, position, queue>> /\ UnchangedByDemux

DemuxWakes(g) == /\ Moves(g, "sleep", "top")
                 /\ UNCHANGED <<isExit, stream, position, queue>> /\ UnchangedByDemux

MayRead == ~Held /\ ~abort /\ ~isExit /\ ~pause

(* pStream is set once and outlives the source it points into.               *)
Read(g) == /\ MayRead /\ source # 0 /\ position < Length
           /\ Moves(g, "top", "push")
           /\ position' = position + 1
           /\ stream' = IF stream = 0 THEN source ELSE stream
           /\ UNCHANGED <<isExit, queue>> /\ UnchangedByDemux

ReadEnd(g) == /\ MayRead /\ source # 0 /\ position = Length
              /\ Moves(g, "top", "ended")
              /\ isExit' = TRUE
              /\ UNCHANGED <<stream, position, queue>> /\ UnchangedByDemux

(* Any other failure is retried at once and without bound: the mutex is      *)
(* given back and taken again.                                               *)
ReadFails(g) == /\ MayRead /\ source # 0
                /\ Moves(g, "top", "failed")
                /\ UNCHANGED <<isExit, stream, position, queue>> /\ UnchangedByDemux

Retry(g) == /\ Moves(g, "failed", "top")
            /\ UNCHANGED <<isExit, stream, position, queue>> /\ UnchangedByDemux

ReadNull(g) == /\ MayRead /\ source = 0
               /\ Moves(g, "top", "crashed")
               /\ UNCHANGED <<isExit, stream, position, queue>> /\ UnchangedByDemux

PushRefused(g) == /\ abort /\ Moves(g, "push", "top")
                  /\ UNCHANGED <<isExit, stream, position, queue>> /\ UnchangedByDemux

PushBlocks(g) == /\ ~abort /\ Len(queue) >= QueueCap
                 /\ Moves(g, "push", "blocked")
                 /\ UNCHANGED <<isExit, stream, position, queue>> /\ UnchangedByDemux

Push(g) == /\ \/ ~abort /\ Moves(g, "push", "top")
              \/ Moves(g, "blocked", "top")
           /\ Len(queue) < QueueCap
           /\ queue' = Append(queue, [source |-> source, index |-> position])
           /\ UNCHANGED <<isExit, stream, position>> /\ UnchangedByDemux

Demuxer(g) == \/ DemuxExit(g) \/ DemuxSleeps(g) \/ DemuxWakes(g)
              \/ Read(g) \/ ReadEnd(g) \/ ReadFails(g) \/ Retry(g) \/ ReadNull(g)
              \/ PushRefused(g) \/ PushBlocks(g) \/ Push(g)

-----------------------------------------------------------------------------
(* A decoder thread; those of several starts share codec and queue.          *)
UnchangedByDecoder == UNCHANGED <<screen, ui, last, starts, flags, media, demux>>

DecoderLoop(g) == /\ decoder[g] = "loop" /\ (abort \/ ~pause)
                  /\ decoder' = [decoder EXCEPT ![g] = IF abort THEN "ended" ELSE "pop"]
                  /\ UNCHANGED queue /\ UnchangedByDecoder

Pop(g) == /\ decoder[g] = "pop" /\ queue # <<>>
          /\ queue' = Tail(queue)
          /\ decoder' = [decoder EXCEPT ![g] = "loop"]
          /\ UnchangedByDecoder

Decoder(g) == DecoderLoop(g) \/ Pop(g)

-----------------------------------------------------------------------------
Next == ~Crashed /\ (UI \/ \E g \in Starts : Demuxer(g) \/ Decoder(g))

Spec == Init /\ [][Next]_vars

(* Every thread is scheduled, but a free mutex goes to whoever comes first:  *)
(* std::mutex is not fair.                                                   *)
FairSpec == /\ Spec
            /\ WF_vars(~Crashed /\ Starting)
            /\ \A g \in Starts : /\ WF_vars(~Crashed /\ Demuxer(g))
                                 /\ WF_vars(~Crashed /\ Decoder(g))

-----------------------------------------------------------------------------
TypeOK == /\ screen \in {"resumed", "paused", "stopped"}
          /\ ui \in {"idle", "close", "open", "parameters",
                     "decoder", "rate", "demuxer"}
          /\ last \in {"none", "pause", "resume", "stop", "start"}
          /\ starts \in 0..MaxStarts /\ (ui # "idle" => starts > 0)
          /\ pause \in BOOLEAN /\ abort \in BOOLEAN /\ isExit \in BOOLEAN
          /\ contexts \in 1..(MaxStarts + 1)
          /\ source \in 0..contexts /\ stream \in 0..contexts
          /\ position \in 0..Length
          /\ queue \in Seq(Packets) /\ Len(queue) <= QueueCap
          /\ demux \in [Starts -> {"none", "top", "ended", "crashed"} \cup Holding]
          /\ decoder \in [Starts -> {"none", "loop", "pop", "ended"}]

(* However many demuxer threads share the source, and although it may be     *)
(* closed and opened between two of their rounds, the queue holds the        *)
(* packets of each opening without a gap and in order, the older opening     *)
(* first (FFDemux.cpp:103-147: one mutex from the read to the push).         *)
Follows(p, q) == \/ q.source = p.source /\ q.index = p.index + 1
                 \/ q.source > p.source /\ q.index = 1
PacketsInOrder == \A i \in 1..(Len(queue) - 1) : Follows(queue[i], queue[i + 1])

(* How many calls of start() are through with opening the source, and did   *)
(* every one of them, and setDataSource() before, open it?                   *)
Openings == IF ui \in {"close", "open"} THEN starts - 1 ELSE starts
OpeningFailed == contexts < 1 + Openings

(* The only ways to a closed source: an opening has failed, or a further     *)
(* start() has closed the source under the threads of an earlier one and not *)
(* opened it yet; and pStream points into another source only after such a   *)
(* start() (FFDemux.cpp:72-75, 131-138).                                     *)
UnsafeOnReopening ==
    /\ Crashed => OpeningFailed \/ (starts > 1 /\ ui = "open")
    /\ stream \notin {0, source} => starts > 1

(* A call of start() returns unless the player is paused, when the demuxer   *)
(* may keep its mutex, or a stop found the demuxer blocked in push(), or     *)
(* reads go on failing for good, each of them with the mutex taken and given *)
(* back (FFDemux.cpp:72, 108-112, 124-125, 142-147; MediaPlayer.cpp:227).    *)
Unobstructed == IF abort THEN \A g \in Starts : demux[g] # "blocked" ELSE ~pause
StartReturns ==
    <>[](\A g \in Starts : demux[g] # "failed")
      => (ui # "idle" /\ Unobstructed ~> ui = "idle" \/ Crashed)

(* What IMediaPlayer.java:144-147 promises: after start() playback is on,    *)
(* resumed if it was paused and begun anew if it was stopped.                *)
StartPlays == ui = "idle" /\ last = "start" => ~pause /\ ~abort
=============================================================================

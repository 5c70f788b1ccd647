----------------------- MODULE PlayerLifecycleProofs -----------------------
(* Proofs about PlayerLifecycle for any number of starts, source length and  *)
(* capacity.                                                                 *)
EXTENDS PlayerLifecycle, TLAPS

USE DEF Holding

(* A source is opened at most once per start(), plus once in onCreate().     *)
Counting == contexts <= IF ui \in {"close", "open"} THEN starts ELSE starts + 1

(* The threads of a start() exist once the call is through.                  *)
Threading == \A g \in Starts :
                demux[g] # "none" => g <= starts /\ (ui # "idle" => g < starts)

(* One thread at most has the demuxer's mutex; one that carries a packet has *)
(* read it from an open source.                                              *)
Holds(g)   == demux[g] \in Holding
Carries(g) == demux[g] \in {"push", "blocked"}
Exclusion  == \A g, h \in Starts : Holds(g) /\ Holds(h) => g = h
Carrying   == \E g \in Starts : Carries(g)
FromSource == Carrying => source # 0 /\ position # 0

(* How the youngest packet p of the queue relates to the one to be read next.*)
Current(p) == \/ p.source = source /\ p.index = position
              \/ p.source < source /\ position = 0
Youngest ==
    queue # <<>> =>
        LET p == queue[Len(queue)]
        IN  /\ p.source <= contexts
            /\ Carrying => Follows(p, [source |-> source, index |-> position])
            /\ ~Carrying /\ ~abort /\ source # 0 => Current(p)

(* Why the source is closed, why a thread has read it closed, and that       *)
(* before the second start() pStream is not stale.                           *)
Reopening ==
    /\ source = 0 => OpeningFailed \/ ui = "open"
    /\ starts <= 1 => /\ stream \in {0, source}
                      /\ ui # "idle" \/ starts = 0 => stream = 0
    /\ Crashed => OpeningFailed \/ (starts > 1 /\ ui = "open")

Structure == TypeOK /\ Counting /\ Threading /\ Exclusion /\ FromSource

LEMMA InitStructure == Init => Structure
  <1>. SUFFICES ASSUME Init PROVE Structure
    OBVIOUS
  <1>1. TypeOK
    <2>1. queue \in Seq(Packets) /\ Len(queue) <= QueueCap
      BY BoundsAssumption DEF Init
    <2>2. /\ demux \in [Starts -> {"none", "top", "ended", "crashed"} \cup Holding]
          /\ decoder \in [Starts -> {"none", "loop", "pop", "ended"}]
      BY DEF Init
    <2>3. /\ starts \in 0..MaxStarts /\ contexts \in 1..(MaxStarts + 1)
          /\ source \in 0..contexts /\ stream \in 0..contexts
          /\ position \in 0..Length
      BY BoundsAssumption DEF Init
    <2>. QED
      BY <2>1, <2>2, <2>3 DEF Init, TypeOK
  <1>2. \A g \in Starts : demux[g] = "none"
    BY DEF Init
  <1>. QED
    BY <1>1, <1>2 DEF Init, Structure, Counting, Threading, Exclusion, Holds,
                      FromSource, Carrying, Carries

(* The steps of the UI thread but the last of _start() leave the threads     *)
(* alone and, while the mutex is taken, the source too.                      *)
LEMMA UIStructure == Structure /\ UI => Structure'
  <1>. SUFFICES ASSUME Structure, UI PROVE Structure'
    OBVIOUS
  <1>. USE BoundsAssumption
  <1>1. CASE Pause \/ Resume \/ Stop
    BY <1>1 DEF Pause, Resume, Stop, Returns, media, Structure, TypeOK, Counting,
                Threading, Exclusion, Holds, FromSource, Carrying, Carries
  <1>2. CASE TapStart
    BY <1>2 DEF TapStart, UnchangedByOpening, flags, media, Structure, TypeOK,
                Counting, Threading, Exclusion, Holds, FromSource, Carrying,
                Carries
  <1>3. CASE Close \/ Open \/ OpenFails \/ ReadParameters
    <2>1. demux' = demux /\ ~Carrying /\ ~Carrying'
      BY <1>3 DEF Close, Open, OpenFails, ReadParameters, UnchangedByOpening, Held,
                  Carrying, Carries
    <2>. USE <2>1 DEF UnchangedByOpening, flags, media, Structure, TypeOK, Counting,
                  Threading, Exclusion, Holds, FromSource
    <2>2. CASE Close
      BY <2>2 DEF Close
    <2>3. CASE Open
      BY <2>3 DEF Open
    <2>4. CASE OpenFails
      BY <2>4 DEF OpenFails
    <2>5. CASE ReadParameters
      BY <2>5 DEF ReadParameters
    <2>. QED
      BY <1>3, <2>2, <2>3, <2>4, <2>5
  <1>4. CASE StartDecoder \/ AskRate
    <2>1. /\ decoder' \in [Starts -> {"none", "loop", "pop", "ended"}]
          /\ ui # "idle" /\ ui' \in {"rate", "demuxer"}
          /\ ui \notin {"close", "open"}
          /\ UNCHANGED <<screen, last, starts, flags, media, queue, demux>>
      BY <1>4 DEF StartDecoder, AskRate, UnchangedByStart, flags, Structure, TypeOK
    <2>. QED
      BY <2>1 DEF flags, media, Structure, TypeOK, Counting, Threading, Exclusion,
                  Holds, FromSource, Carrying, Carries
  <1>5. CASE StartDemuxer
    <2>. USE DEF StartDemuxer, UnchangedByStart
    <2>1. starts \in Starts /\ demux[starts] = "none"
      BY <1>5 DEF Structure, TypeOK, Threading, Starts
    <2>2. \A g \in Starts : Holds(g)' = Holds(g) /\ Carries(g)' = Carries(g)
      BY <1>5, <2>1 DEF Holds, Carries, Structure, TypeOK
    <2>3. TypeOK'
      BY <1>5, <2>1 DEF media, Structure, TypeOK
    <2>4. Exclusion' /\ Carrying' = Carrying
      BY <2>2 DEF Structure, Exclusion, Carrying
    <2>5. Threading'
      BY <1>5, <2>1 DEF Structure, TypeOK, Threading
    <2>. QED
      BY <1>5, <2>3, <2>4, <2>5 DEF media, Structure, Counting, FromSource
  <1>. QED
    BY <1>1, <1>2, <1>3, <1>4, <1>5 DEF UI, Starting

(* A demuxer thread takes the mutex only when it is free.                    *)
LEMMA DemuxerStructure ==
    ASSUME Structure, NEW g \in Starts, Demuxer(g)
    PROVE  Structure'
  <1>. USE BoundsAssumption DEF Moves
  <1>1. /\ demux' = [demux EXCEPT ![g] = demux'[g]]
        /\ demux[g] \in {"top"} \cup Holding
        /\ demux'[g] \in {"top", "ended", "crashed"} \cup Holding
        /\ UnchangedByDemux
    BY DEF Demuxer, DemuxExit, DemuxSleeps, DemuxWakes, Read, ReadEnd, ReadFails,
           Retry, ReadNull, PushRefused, PushBlocks, Push, Structure, TypeOK
  <1>2. Holds(g)' => Holds(g) \/ ~Held
    BY DEF Demuxer, DemuxExit, DemuxSleeps, DemuxWakes, Read, ReadEnd, ReadFails,
           Retry, ReadNull, PushRefused, PushBlocks, Push, Holds, MayRead,
           Structure, TypeOK
  <1>3. Counting' /\ Threading'
    BY <1>1 DEF Structure, Counting, Threading, UnchangedByDemux, TypeOK
  <1>4. Exclusion'
    <2>. SUFFICES ASSUME NEW h \in Starts, NEW i \in Starts, Holds(h)', Holds(i)'
                  PROVE  h = i
      BY DEF Exclusion
    <2>1. \A j \in Starts : j # g => Holds(j)' = Holds(j)
      BY <1>1 DEF Holds, Structure, TypeOK
    <2>2. Held <=> \E j \in Starts : Holds(j)
      BY DEF Held, Holds
    <2>. QED
      BY <1>2, <2>1, <2>2 DEF Structure, Exclusion
  <1>5. TypeOK'
    <2>. USE DEF UnchangedByDemux, Structure, TypeOK
    <2>1. CASE Read(g)
      <3>1. position' \in 0..Length /\ stream' \in 0..contexts
        BY <2>1 DEF Read
      <3>. QED
        BY <1>1, <2>1, <3>1 DEF Read
    <2>2. CASE Push(g)
      <3>1. [source |-> source, index |-> position] \in Packets
        BY <2>2 DEF Push, FromSource, Carrying, Carries, Packets
      <3>2. queue' \in Seq(Packets) /\ Len(queue') <= QueueCap
        BY <2>2, <3>1 DEF Push
      <3>. QED
        BY <1>1, <2>2, <3>2 DEF Push
    <2>3. CASE \/ DemuxExit(g) \/ DemuxSleeps(g) \/ DemuxWakes(g) \/ ReadEnd(g)
               \/ ReadFails(g) \/ Retry(g) \/ ReadNull(g) \/ PushRefused(g)
               \/ PushBlocks(g)
      <3>1. /\ UNCHANGED <<stream, position, queue>>
            /\ isExit' \in BOOLEAN
        BY <2>3 DEF DemuxExit, DemuxSleeps, DemuxWakes, ReadEnd, ReadFails, Retry,
                    ReadNull, PushRefused, PushBlocks
      <3>. QED
        BY <1>1, <3>1
    <2>. QED
      BY <2>1, <2>2, <2>3 DEF Demuxer
  <1>6. FromSource'
    <2>1. CASE Read(g)
      BY <2>1 DEF Read, UnchangedByDemux, FromSource, Structure, TypeOK
    <2>2. CASE ~Read(g)
      <3>1. Carries(g)' => Carries(g)
        BY <2>2 DEF Demuxer, DemuxExit, DemuxSleeps, DemuxWakes, ReadEnd,
                    ReadFails, Retry, ReadNull, PushRefused, PushBlocks, Push,
                    Carries, Structure, TypeOK
      <3>2. Carrying' => Carrying
        BY <1>1, <3>1 DEF Carrying, Carries, Structure, TypeOK
      <3>3. position' = position
        BY <2>2 DEF Demuxer, DemuxExit, DemuxSleeps, DemuxWakes, ReadEnd,
                    ReadFails, Retry, ReadNull, PushRefused, PushBlocks, Push
      <3>. QED
        BY <1>1, <3>2, <3>3 DEF FromSource, UnchangedByDemux, Structure
    <2>. QED
      BY <2>1, <2>2
  <1>. QED
    BY <1>3, <1>4, <1>5, <1>6 DEF Structure

LEMMA DecoderStructure ==
    ASSUME Structure, NEW g \in Starts, Decoder(g)
    PROVE  Structure'
  <1>1. UnchangedByDecoder
    BY DEF Decoder, DecoderLoop, Pop
  <1>2. queue' \in Seq(Packets) /\ Len(queue') <= QueueCap
    BY BoundsAssumption DEF Decoder, DecoderLoop, Pop, Structure, TypeOK
  <1>3. decoder' \in [Starts -> {"none", "loop", "pop", "ended"}]
    BY DEF Decoder, DecoderLoop, Pop, Structure, TypeOK
  <1>. QED
    BY <1>1, <1>2, <1>3 DEF UnchangedByDecoder, flags, media, Structure, TypeOK,
           Counting, Threading, Exclusion, Holds, FromSource, Carrying, Carries

LEMMA StepStructure == Structure /\ [Next]_vars => Structure'
  <1>1. CASE UNCHANGED vars
    BY <1>1 DEF vars, Structure, TypeOK, Counting, Threading, Exclusion, Holds,
                FromSource, Carrying, Carries
  <1>. QED
    BY <1>1, UIStructure, DemuxerStructure, DecoderStructure DEF Next

-----------------------------------------------------------------------------
(* The packets in the queue.                                                 *)
Ordered == PacketsInOrder /\ Youngest

LEMMA InitOrdered == Init => Ordered
  BY DEF Init, Ordered, PacketsInOrder, Youngest

(* Appending what follows the youngest packet keeps the order.               *)
LEMMA AppendInOrder ==
    ASSUME NEW s \in Seq(Packets), NEW p \in Packets,
           \A i \in 1..(Len(s) - 1) : Follows(s[i], s[i + 1]),
           s # <<>> => Follows(s[Len(s)], p)
    PROVE  LET t == Append(s, p)
           IN  \A i \in 1..(Len(t) - 1) : Follows(t[i], t[i + 1])
  <1>. DEFINE t == Append(s, p)
  <1>. SUFFICES ASSUME NEW i \in 1..(Len(t) - 1) PROVE Follows(t[i], t[i + 1])
    OBVIOUS
  <1>1. Len(t) = Len(s) + 1 /\ Len(s) \in Nat
    OBVIOUS
  <1>2. CASE i = Len(s)
    <2>1. t[i] = s[Len(s)] /\ t[i + 1] = p /\ s # <<>>
      BY <1>1, <1>2
    <2>. QED
      BY <2>1
  <1>3. CASE i # Len(s)
    <2>1. i \in 1..(Len(s) - 1)
      BY <1>1, <1>3
    <2>2. t[i] = s[i] /\ t[i + 1] = s[i + 1]
      BY <2>1
    <2>. QED
      BY <2>1, <2>2
  <1>. QED
    BY <1>2, <1>3

LEMMA TailInOrder ==
    ASSUME NEW s \in Seq(Packets), s # <<>>,
           \A i \in 1..(Len(s) - 1) : Follows(s[i], s[i + 1])
    PROVE  LET t == Tail(s)
           IN  /\ \A i \in 1..(Len(t) - 1) : Follows(t[i], t[i + 1])
               /\ t # <<>> => t[Len(t)] = s[Len(s)]
  <1>. DEFINE t == Tail(s)
  <1>1. /\ Len(t) = Len(s) - 1 /\ Len(s) \in Nat \ {0}
        /\ \A i \in 1..Len(t) : t[i] = s[i + 1]
    OBVIOUS
  <1>2. \A i \in 1..(Len(t) - 1) : Follows(t[i], t[i + 1])
    <2>. SUFFICES ASSUME NEW i \in 1..(Len(t) - 1) PROVE Follows(t[i], t[i + 1])
      OBVIOUS
    <2>1. i + 1 \in 1..(Len(s) - 1)
      BY <1>1
    <2>2. t[i] = s[i + 1] /\ t[i + 1] = s[i + 1 + 1]
      BY <1>1
    <2>. QED
      BY <2>1, <2>2
  <1>3. t # <<>> => t[Len(t)] = s[Len(s)]
    BY <1>1
  <1>. QED
    BY <1>2, <1>3

(* While the queue stays as it is, the order does; what matters is how the   *)
(* youngest packet relates to the source's position.                         *)
LEMMA OrderedByUI == Structure /\ Ordered /\ UI => Ordered'
  <1>. SUFFICES ASSUME Structure, Ordered, UI PROVE Ordered'
    OBVIOUS
  <1>1. queue' = queue /\ PacketsInOrder'
    BY DEF UI, Starting, Pause, Resume, Stop, Returns, TapStart, Close, Open,
           OpenFails, ReadParameters, StartDecoder, AskRate, StartDemuxer,
           UnchangedByStart, UnchangedByOpening, Ordered, PacketsInOrder
  <1>2. queue # <<>> => queue[Len(queue)] \in Packets
    BY DEF Structure, TypeOK
  <1>3. CASE Close \/ Open
    <2>1. ~Carrying /\ ~Carrying'
      BY <1>3 DEF Close, Open, UnchangedByOpening, Held, Carrying, Carries
    <2>. QED
      BY <1>1, <1>2, <1>3, <2>1
         DEF Close, Open, Ordered, Youngest, Current, Packets, Structure, TypeOK
  <1>4. CASE ~Close /\ ~Open
    <2>1. UNCHANGED media /\ (abort => abort')
      BY <1>4 DEF UI, Starting, Pause, Resume, Stop, Returns, TapStart, OpenFails,
                  ReadParameters, StartDecoder, AskRate,
           StartDemuxer, UnchangedByStart, UnchangedByOpening, flags
    <2>2. Carrying' = Carrying
      <3>1. CASE StartDemuxer
        <4>1. starts \in Starts /\ demux[starts] = "none"
          BY <3>1 DEF StartDemuxer, Structure, TypeOK, Threading, Starts
        <4>. QED
          BY <3>1, <4>1 DEF StartDemuxer, Carrying, Carries, Structure, TypeOK
      <3>2. CASE demux' = demux
        BY <3>2 DEF Carrying, Carries
      <3>. QED
        BY <1>4, <3>1, <3>2 DEF UI, Starting, Pause, Resume, Stop, Returns,
               TapStart, OpenFails, ReadParameters, UnchangedByOpening,
               StartDecoder, AskRate
    <2>. QED
      BY <1>1, <2>1, <2>2 DEF Ordered, Youngest, Current, Follows, media
  <1>. QED
    BY <1>3, <1>4

LEMMA OrderedByDemuxer ==
    ASSUME Structure, Ordered, NEW g \in Starts, Demuxer(g)
    PROVE  Ordered'
  <1>. USE DEF Moves
  <1>1. queue # <<>> => queue[Len(queue)] \in Packets
    BY DEF Structure, TypeOK
  <1>2. source' = source /\ contexts' = contexts /\ abort' = abort
    BY DEF Demuxer, DemuxExit, DemuxSleeps, DemuxWakes, Read, ReadEnd, ReadFails,
           Retry, ReadNull, PushRefused, PushBlocks, Push, UnchangedByDemux
  <1>3. CASE Read(g)
    <2>1. ~Carrying /\ ~abort /\ source # 0 /\ queue' = queue /\ position' = position + 1
      BY <1>3 DEF Read, MayRead, Held, Carrying, Carries
    <2>2. Carrying'
      BY <1>3 DEF Read, Carrying, Carries, Structure, TypeOK
    <2>3. PacketsInOrder'
      BY <2>1 DEF Ordered, PacketsInOrder
    <2>4. ASSUME queue # <<>>
          PROVE  LET p == queue[Len(queue)]
                 IN  /\ p.source <= contexts
                     /\ Follows(p, [source |-> source, index |-> position + 1])
      BY <2>1, <2>4 DEF Ordered, Youngest, Current, Follows, Structure, TypeOK
    <2>. QED
      BY <1>2, <2>1, <2>2, <2>3, <2>4 DEF Ordered, Youngest
  <1>4. CASE Push(g)
    <2>. DEFINE p == [source |-> source, index |-> position]
    <2>1. Carrying /\ queue' = Append(queue, p) /\ position' = position
      BY <1>4 DEF Push, Carrying, Carries
    <2>2. p \in Packets
      <3>1. source \in 1..(MaxStarts + 1) /\ position \in 1..Length
        BY <2>1, BoundsAssumption DEF FromSource, Structure, TypeOK
      <3>. QED
        BY <3>1 DEF Packets
    <2>3. PacketsInOrder'
      BY <2>1, <2>2, AppendInOrder DEF Ordered, Youngest, PacketsInOrder,
             Structure, TypeOK
    <2>4. ~Carrying'
      BY <1>4 DEF Push, Exclusion, Holds, Carrying, Carries, Structure, TypeOK
    <2>5. queue'[Len(queue')] = p
      BY <2>1, <2>2 DEF Structure, TypeOK
    <2>. QED
      BY <1>2, <2>1, <2>3, <2>4, <2>5 DEF Ordered, Youngest, Current, Structure,
             TypeOK
  <1>5. CASE PushRefused(g)
    <2>1. abort' /\ queue' = queue /\ ~Carrying'
      BY <1>5 DEF PushRefused, UnchangedByDemux, Exclusion, Holds, Carrying,
                  Carries, Structure, TypeOK
    <2>. QED
      BY <1>2, <2>1 DEF Ordered, Youngest, PacketsInOrder
  <1>6. CASE \/ DemuxExit(g) \/ DemuxSleeps(g) \/ DemuxWakes(g) \/ ReadEnd(g)
             \/ ReadFails(g) \/ Retry(g) \/ ReadNull(g) \/ PushBlocks(g)
    <2>1. queue' = queue /\ position' = position
      BY <1>6 DEF DemuxExit, DemuxSleeps, DemuxWakes, ReadEnd, ReadFails, Retry,
             ReadNull, PushBlocks
    <2>2. Carrying' = Carrying
      BY <1>6 DEF DemuxExit, DemuxSleeps, DemuxWakes, ReadEnd, ReadFails, Retry,
                  ReadNull, PushBlocks, Carrying, Carries, Structure, TypeOK
    <2>. QED
      BY <1>2, <2>1, <2>2 DEF Ordered, Youngest, Current, Follows, PacketsInOrder
  <1>. QED
    BY <1>3, <1>4, <1>5, <1>6 DEF Demuxer

LEMMA OrderedByDecoder ==
    ASSUME Structure, Ordered, NEW g \in Starts, Decoder(g)
    PROVE  Ordered'
  <1>1. UnchangedByDecoder
    BY DEF Decoder, DecoderLoop, Pop
  <1>2. Carrying' = Carrying
    BY <1>1 DEF UnchangedByDecoder, Carrying, Carries
  <1>3. CASE Pop(g)
    <2>1. PacketsInOrder' /\ (queue' # <<>> => queue'[Len(queue')] = queue[Len(queue)])
      BY <1>3, TailInOrder DEF Pop, Ordered, PacketsInOrder, Structure, TypeOK
    <2>. QED
      BY <1>1, <1>2, <1>3, <2>1 DEF Pop, Ordered, Youngest, Current, Follows,
         UnchangedByDecoder, flags, media
  <1>4. CASE DecoderLoop(g)
    BY <1>1, <1>2, <1>4 DEF DecoderLoop, Ordered, Youngest, Current, Follows,
           PacketsInOrder, UnchangedByDecoder, flags, media
  <1>. QED
    BY <1>3, <1>4 DEF Decoder

LEMMA StepOrdered == Structure /\ Ordered /\ [Next]_vars => Ordered'
  <1>1. CASE UNCHANGED vars
    BY <1>1 DEF vars, Ordered, Youngest, Current, Follows, PacketsInOrder, Carrying,
                Carries
  <1>. QED
    BY <1>1, OrderedByUI, OrderedByDemuxer, OrderedByDecoder DEF Next

-----------------------------------------------------------------------------
LEMMA InitReopening == Init => Reopening
  BY DEF Init, Reopening, Crashed

(* No step ends before the crash: a crashed process takes no further one.    *)
LEMMA ReopeningByUI == Structure /\ Reopening /\ ~Crashed /\ UI => Reopening'
  <1>. SUFFICES ASSUME Structure, Reopening, ~Crashed, UI PROVE Reopening'
    OBVIOUS
  <1>. USE DEF Reopening, OpeningFailed, Openings
  <1>1. CASE Pause \/ Resume \/ Stop
    BY <1>1 DEF Pause, Resume, Stop, Returns, media, Crashed
  <1>2. CASE TapStart
    BY <1>2 DEF TapStart, UnchangedByOpening, media, Crashed, Structure, TypeOK
  <1>3. CASE Close \/ Open \/ OpenFails \/ ReadParameters
    <2>. USE DEF UnchangedByOpening, media, Structure, TypeOK
    <2>1. ~Crashed'
      BY <1>3 DEF Close, Open, OpenFails, ReadParameters, Crashed
    <2>2. CASE Close
      BY <2>1, <2>2 DEF Close
    <2>3. CASE Open
      BY <2>1, <2>3 DEF Open
    <2>4. CASE OpenFails
      BY <2>1, <2>4 DEF OpenFails, Counting
    <2>5. CASE ReadParameters
      BY <2>1, <2>5 DEF ReadParameters
    <2>. QED
      BY <1>3, <2>2, <2>3, <2>4, <2>5
  <1>4. CASE StartDecoder \/ AskRate \/ StartDemuxer
    <2>1. /\ ui \in {"decoder", "rate", "demuxer"} /\ ui' \notin {"close", "open"}
          /\ UNCHANGED <<starts, media>>
      BY <1>4 DEF StartDecoder, AskRate, StartDemuxer, UnchangedByStart,
             Structure, TypeOK
    <2>2. ~Crashed'
      BY <1>4 DEF StartDecoder, AskRate, StartDemuxer, Crashed, Structure, TypeOK
    <2>. QED
      BY <2>1, <2>2 DEF media, Structure, TypeOK
  <1>. QED
    BY <1>1, <1>2, <1>3, <1>4 DEF UI, Starting

LEMMA ReopeningByDemuxer ==
    ASSUME Structure, Reopening, ~Crashed, NEW g \in Starts, Demuxer(g)
    PROVE  Reopening'
  <1>. USE DEF Moves
  <1>1. UnchangedByDemux
    BY DEF Demuxer, DemuxExit, DemuxSleeps, DemuxWakes, Read, ReadEnd, ReadFails,
           Retry, ReadNull, PushRefused, PushBlocks, Push
  <1>2. /\ demux[g] # "none" /\ demux' = [demux EXCEPT ![g] = demux'[g]]
        /\ demux'[g] = "crashed" => source = 0
    BY DEF Demuxer, DemuxExit, DemuxSleeps, DemuxWakes, Read, ReadEnd, ReadFails,
           Retry, ReadNull, PushRefused, PushBlocks, Push, Structure, TypeOK
  <1>3. starts > 0 /\ (starts <= 1 => ui = "idle")
    BY <1>2 DEF Structure, Threading, TypeOK, Starts
  <1>4. stream' \in {stream, source}
    BY DEF Demuxer, DemuxExit, DemuxSleeps, DemuxWakes, Read, ReadEnd, ReadFails,
           Retry, ReadNull, PushRefused, PushBlocks, Push
  <1>5. Crashed' => source = 0
    BY <1>2 DEF Crashed, Structure, TypeOK
  <1>6. starts \in Nat
    BY BoundsAssumption DEF Structure, TypeOK
  <1>7. source = 0 => OpeningFailed \/ (starts > 1 /\ ui = "open")
    BY <1>3, <1>6 DEF Reopening
  <1>8. OpeningFailed' = OpeningFailed
    BY <1>1 DEF UnchangedByDemux, OpeningFailed, Openings
  <1>. QED
    BY <1>1, <1>3, <1>4, <1>5, <1>6, <1>7, <1>8 DEF UnchangedByDemux, Reopening

LEMMA StepReopening == Structure /\ Reopening /\ [Next]_vars => Reopening'
  <1>1. ASSUME Reopening, NEW g \in Starts, Decoder(g) PROVE Reopening'
    BY <1>1 DEF Decoder, DecoderLoop, Pop, UnchangedByDecoder, media, Reopening,
                Crashed, OpeningFailed, Openings
  <1>2. ASSUME Reopening, UNCHANGED vars PROVE Reopening'
    BY <1>2 DEF vars, media, Reopening, Crashed, OpeningFailed, Openings
  <1>. QED
    BY <1>1, <1>2, ReopeningByUI, ReopeningByDemuxer DEF Next

-----------------------------------------------------------------------------
(* For any number of starts the variables keep their types, the packet queue *)
(* its bound and the source's number its range.                              *)
THEOREM TypeCorrect == Spec => []TypeOK
  <1>1. Structure => TypeOK
    BY DEF Structure
  <1>. QED
    BY <1>1, InitStructure, StepStructure, PTL DEF Spec

(* For any number of starts and any capacity the packets of each opening are *)
(* queued in order and without a gap (FFDemux.cpp:103-147).                  *)
THEOREM QueueOrdered == Spec => []PacketsInOrder
  <1>1. Ordered => PacketsInOrder
    BY DEF Ordered
  <1>. QED
    BY <1>1, InitStructure, StepStructure, InitOrdered, StepOrdered, PTL DEF Spec

(* A thread reads a closed source only if an opening failed or while a       *)
(* further start() has it closed; pStream is stale only after a further      *)
(* start() (FFDemux.cpp:72-75, 131-138).                                     *)
THEOREM ReopeningOnly == Spec => []UnsafeOnReopening
  <1>1. Structure /\ Reopening => UnsafeOnReopening
    BY BoundsAssumption DEF Structure, TypeOK, Reopening, UnsafeOnReopening
  <1>. QED
    BY <1>1, InitStructure, StepStructure, InitReopening, StepReopening, PTL DEF
           Spec

-----------------------------------------------------------------------------
(* A demuxer or a decoder thread that cannot take a step: the guards of its  *)
(* actions, denied one by one.                                               *)
DemuxerStuck(g) ==
    \/ demux[g] \in {"none", "ended", "crashed"}
    \/ demux[g] = "top" /\ Held
    \/ demux[g] = "blocked" /\ Len(queue) >= QueueCap

DecoderStuck(g) ==
    \/ decoder[g] \in {"none", "ended"}
    \/ decoder[g] = "loop" /\ ~abort /\ pause
    \/ decoder[g] = "pop" /\ queue = <<>>

CallStuck == ui \in {"close", "open", "parameters", "rate"} /\ Held

(* A call of start() that waits for the demuxer's mutex waits for a thread   *)
(* that can go on, unless the player is obstructed.                          *)
StartNotStuck ==
    ~Crashed /\ CallStuck /\ Unobstructed =>
        \E g \in Starts : ~DemuxerStuck(g) \/ ~DecoderStuck(g)

(* A start() makes its decoder before its demuxer; decoders end after stop().*)
Started == /\ \A g \in Starts : /\ demux[g] # "none" => decoder[g] # "none"
                                /\ decoder[g] = "ended" => abort
           /\ ui \in {"rate", "demuxer"} => decoder[starts] # "none"

LEMMA StepStarted == TypeOK /\ Started /\ [Next]_vars => Started'
  <1>. SUFFICES ASSUME TypeOK, Started, [Next]_vars PROVE Started'
    OBVIOUS
  <1>1. CASE Pause \/ Resume \/ Stop \/ TapStart
    BY <1>1 DEF Pause, Resume, Stop, Returns, TapStart, UnchangedByOpening, Started,
                flags
  <1>2. CASE Close \/ Open \/ OpenFails \/ ReadParameters
    BY <1>2 DEF Close, Open, OpenFails, ReadParameters, UnchangedByOpening, Started,
                flags
  <1>3. CASE StartDecoder \/ AskRate \/ StartDemuxer
    <2>. USE DEF UnchangedByStart, TypeOK, Started
    <2>1. CASE StartDecoder
      BY <2>1, BoundsAssumption DEF StartDecoder, Starts
    <2>2. CASE AskRate
      BY <2>2 DEF AskRate
    <2>3. CASE StartDemuxer
      BY <2>3 DEF StartDemuxer
    <2>. QED
      BY <1>3, <2>1, <2>2, <2>3
  <1>4. ASSUME NEW g \in Starts, Demuxer(g) PROVE Started'
    <2>1. /\ demux[g] # "none" /\ demux'[g] # "none"
          /\ \A h \in Starts : h # g => demux'[h] = demux[h]
          /\ UNCHANGED <<abort, decoder, ui, starts>>
      BY <1>4 DEF Demuxer, DemuxExit, DemuxSleeps, DemuxWakes, Read, ReadEnd,
                  ReadFails, Retry, ReadNull, PushRefused, PushBlocks, Push,
                  Moves, TypeOK, UnchangedByDemux
    <2>. QED
      BY <2>1 DEF Started
  <1>5. ASSUME NEW g \in Starts, Decoder(g) PROVE Started'
    <2>1. /\ decoder[g] # "none" /\ decoder'[g] # "none"
          /\ decoder'[g] = "ended" => abort
          /\ \A h \in Starts : h # g => decoder'[h] = decoder[h]
          /\ UNCHANGED <<abort, demux, ui, starts>>
      BY <1>5 DEF Decoder, DecoderLoop, Pop, UnchangedByDecoder, flags, TypeOK
    <2>2. ui \in {"rate", "demuxer"} => starts \in Starts
      BY BoundsAssumption DEF TypeOK, Starts
    <2>. QED
      BY <2>1, <2>2 DEF Started
  <1>6. CASE UNCHANGED vars
    BY <1>6 DEF vars, flags, media, Started
  <1>. QED
    BY <1>1, <1>2, <1>3, <1>4, <1>5, <1>6 DEF Next, UI, Starting

(* The safety half of StartReturns: however many starts share the mutex and  *)
(* the queue, a start() that waits in openSource() or in reading the stream  *)
(* parameters is never part of a circle of waits: a decoder makes room or    *)
(* the mutex's holder goes on (FFDemux.cpp:72, 103-147).                     *)
THEOREM StartCannotHang == Spec => []StartNotStuck
  <1>1. Init => Started
    BY DEF Init, Started
  <1>2. Structure /\ Started => StartNotStuck
    <2>. SUFFICES ASSUME Structure, Started, CallStuck, Unobstructed,
                         \A g \in Starts : DemuxerStuck(g) /\ DecoderStuck(g)
                  PROVE  FALSE
      BY DEF StartNotStuck
    <2>1. PICK g \in Starts : demux[g] \in Holding
      BY DEF CallStuck, Held
    <2>2. demux[g] = "blocked" /\ Len(queue) >= QueueCap
      BY <2>1 DEF DemuxerStuck
    <2>3. ~abort /\ ~pause
      BY <2>2 DEF Unobstructed
    <2>4. queue # <<>>
      BY <2>2, BoundsAssumption
    <2>5. decoder[g] \in {"loop", "pop"}
      BY <2>2, <2>3 DEF Started, Structure, TypeOK
    <2>. QED
      BY <2>3, <2>4, <2>5 DEF DecoderStuck
  <1>3. Structure => TypeOK
    BY DEF Structure
  <1>. QED
    BY <1>1, <1>2, <1>3, InitStructure, StepStructure, StepStarted, PTL DEF Spec
=============================================================================

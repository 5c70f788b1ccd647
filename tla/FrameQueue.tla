----------------------------- MODULE FrameQueue -----------------------------
(* xplayer/queue/FrameQueue.cpp: the ring of decoded frames between one      *)
(* decoder thread (peekWritable, fill the slot, pushFrame) and one           *)
(* synchronisation thread (currentFrame, use the slot, popFrame).  The mutex *)
(* covers the counter only: slots and indexes are written outside it, and    *)
(* the consumer decides whether a frame is there by reading the slot's own   *)
(* "size" field, not the counter (MediaSync2.cpp:35, 91).  So a slot becomes *)
(* visible in the middle of its filling, before pushFrame counts it.         *)
EXTENDS Integers, Sequences

CONSTANTS MaxSize,     \* max_size, at most FRAME_QUEUE_SIZE
          KeepLast,    \* keep_last: the frame shown last stays in its slot
          MaxFrames,   \* bound: frames decoded in a run
          Disturbances \* what else may happen, see below

ASSUME MaxSizeAssumption   == MaxSize \in Nat /\ MaxSize >= 2
ASSUME KeepLastAssumption  == KeepLast \in BOOLEAN
ASSUME MaxFramesAssumption == MaxFrames \in Nat

(* spurious: wait() returns unnotified;  restart: start() is called again    *)
(* abort: abort() is called;             flush: ~IDecode drains the ring     *)
ASSUME DisturbancesAssumption ==
    Disturbances \subseteq {"spurious", "restart", "abort", "flush"}

VARIABLES slots,    \* queue[]
          rindex, windex, size,
          shown,    \* show_index
          aborted,  \* abort_request
          ppc,      \* where the decoder is
          cpc,      \* where the synchronisation thread is
          made,     \* frames whose slot has become visible
          used      \* frames the consumer is done with

vars == <<slots, rindex, windex, size, shown, aborted, ppc, cpc, made, used>>

Slots == 0..(MaxSize - 1)

(* marked: size # 0;  whole: all of the frame is written;  frame: its number *)
Blank == [marked |-> FALSE, whole |-> FALSE, frame |-> 0]

Init == /\ slots = [i \in Slots |-> Blank]
        /\ rindex = 0 /\ windex = 0 /\ size = 0
        /\ shown = FALSE
        /\ aborted = TRUE
        /\ ppc = "idle" /\ cpc = "idle"
        /\ made = 0 /\ used = 0

Succ(i) == IF i + 1 = MaxSize THEN 0 ELSE i + 1

(* Mutant: currentFrame() ignores show_index.                                *)
CurrentAtRead == rindex

(* currentFrame(): (rindex + show_index) % max_size                          *)
Current == IF shown THEN Succ(rindex) ELSE rindex

(* mNotFull.notify_all(): only the decoder waits there.                      *)
Notified == IF ppc = "waiting" THEN "woken" ELSE ppc

-----------------------------------------------------------------------------
Start == /\ aborted \/ "restart" \in Disturbances
         /\ aborted' = FALSE
         /\ ppc' = Notified
         /\ UNCHANGED <<slots, rindex, windex, size, shown, cpc, made, used>>

Abort == /\ "abort" \in Disturbances
         /\ aborted' = TRUE
         /\ ppc' = Notified
         /\ UNCHANGED <<slots, rindex, windex, size, shown, cpc, made, used>>

SpuriousWake ==
    /\ "spurious" \in Disturbances
    /\ ppc = "waiting"
    /\ ppc' = "woken"
    /\ UNCHANGED <<slots, rindex, windex, size, shown, aborted, cpc, made, used>>

-----------------------------------------------------------------------------
(* The decoder.  Without a slot (NULL) the frame in hand is dropped.         *)
UnchangedByPeek ==
    UNCHANGED <<slots, rindex, windex, size, shown, aborted, cpc, made, used>>

(* Mutant: the ring is taken for one larger than it is.                      *)
PeekWritableLate ==
    /\ ppc = "idle" /\ made < MaxFrames
    /\ ppc' = IF aborted THEN "idle"
              ELSE IF size > MaxSize THEN "waiting" ELSE "filling"
    /\ UnchangedByPeek

PeekWritable ==
    /\ ppc = "idle" /\ made < MaxFrames
    /\ ppc' = IF aborted THEN "idle"
              ELSE IF size >= MaxSize THEN "waiting" ELSE "filling"
    /\ UnchangedByPeek

(* After the wait the size is not looked at again.                           *)
PeekAfterWait ==
    /\ ppc = "woken"
    /\ ppc' = IF aborted THEN "idle" ELSE "filling"
    /\ UnchangedByPeek

(* Mutant: the size computed for the frame is 0.                             *)
MarkSizeZero ==
    /\ ppc = "filling"
    /\ slots' = [slots EXCEPT ![windex].frame = made + 1]
    /\ made' = made + 1
    /\ ppc' = "marked"
    /\ UNCHANGED <<rindex, windex, size, shown, aborted, cpc, used>>

(* The assignment to output->size makes the slot visible ...                 *)
Mark == /\ ppc = "filling"
        /\ slots' = [slots EXCEPT ![windex] = [marked |-> TRUE, whole |-> FALSE,
                                               frame |-> made + 1]]
        /\ made' = made + 1
        /\ ppc' = "marked"
        /\ UNCHANGED <<rindex, windex, size, shown, aborted, cpc, used>>

(* Mutant: pushFrame comes before the copy of the data.                      *)
CompleteNever == /\ ppc = "marked"
                 /\ ppc' = "whole"
                 /\ UNCHANGED <<slots, rindex, windex, size, shown, aborted, cpc,
                                made, used>>

(* ... before the picture or the samples are in it.                          *)
Complete == /\ ppc = "marked"
            /\ slots' = [slots EXCEPT ![windex].whole = TRUE]
            /\ ppc' = "whole"
            /\ UNCHANGED <<rindex, windex, size, shown, aborted, cpc, made, used>>

(* pushFrame(): the index moves first, the counter follows under the mutex.  *)
PushIndex == /\ ppc = "whole"
             /\ windex' = Succ(windex)
             /\ ppc' = "counting"
             /\ UNCHANGED <<slots, rindex, size, shown, aborted, cpc, made, used>>

PushCount == /\ ppc = "counting"
             /\ size' = size + 1
             /\ ppc' = "idle"
             /\ UNCHANGED <<slots, rindex, windex, shown, aborted, cpc, made, used>>

-----------------------------------------------------------------------------
(* The consumer.  It polls currentFrame() until the slot's size is not 0.    *)
Look == /\ cpc = "idle"
        /\ slots[Current].marked
        /\ cpc' = "using"
        /\ UNCHANGED <<slots, rindex, windex, size, shown, aborted, ppc, made, used>>

(* Mutant: the kept frame is counted as released.                            *)
PopFrameCountsKept ==
    /\ IF KeepLast /\ ~shown
         THEN shown' = TRUE /\ UNCHANGED <<slots, rindex>>
         ELSE /\ slots' = [slots EXCEPT ![rindex] = Blank]
              /\ rindex' = Succ(rindex)
              /\ UNCHANGED shown
    /\ cpc' = "counting"
    /\ used' = used + 1
    /\ UNCHANGED <<windex, size, aborted, ppc, made>>

(* Mutant: keep_last is ignored.                                             *)
PopFrameKeepsNone ==
    /\ slots' = [slots EXCEPT ![rindex] = Blank]
    /\ rindex' = Succ(rindex)
    /\ cpc' = "counting"
    /\ used' = used + 1
    /\ UNCHANGED <<windex, size, shown, aborted, ppc, made>>

(* popFrame(): the first call only keeps the frame, later ones release the   *)
(* one kept before.                                                          *)
PopFrame == /\ IF KeepLast /\ ~shown
                 THEN /\ shown' = TRUE
                      /\ cpc' = "idle"
                      /\ UNCHANGED <<slots, rindex>>
                 ELSE /\ slots' = [slots EXCEPT ![rindex] = Blank]
                      /\ rindex' = Succ(rindex)
                      /\ cpc' = "counting"
                      /\ UNCHANGED shown
            /\ used' = used + 1
            /\ UNCHANGED <<windex, size, aborted, ppc, made>>

Pop == cpc = "using" /\ PopFrame

(* Mutant: popFrame does not notify.                                         *)
PopCountSilent == /\ cpc = "counting"
                  /\ size' = IF size > 0 THEN size - 1 ELSE size
                  /\ cpc' = "idle"
                  /\ UNCHANGED <<slots, rindex, windex, shown, aborted, ppc, made,
                                 used>>

PopCount == /\ cpc = "counting"
            /\ size' = IF size > 0 THEN size - 1 ELSE size
            /\ cpc' = "idle"
            /\ ppc' = Notified
            /\ UNCHANGED <<slots, rindex, windex, shown, aborted, made, used>>

GetFrameSize == size - (IF shown THEN 1 ELSE 0)

(* flush(): popFrame() of frames nobody looked at, while getFrameSize() > 0. *)
Flush == /\ "flush" \in Disturbances
         /\ cpc = "idle"
         /\ GetFrameSize > 0
         /\ PopFrame

-----------------------------------------------------------------------------
Fill     == PeekWritable \/ PeekAfterWait \/ Mark \/ Complete \/ PushIndex
            \/ PushCount
Consume  == Look \/ Pop \/ PopCount

Next == Start \/ Abort \/ SpuriousWake \/ Fill \/ Consume \/ Flush

Spec == Init /\ [][Next]_vars

(* MediaPlayer::start starts the ring and both threads run.                  *)
FairSpec == Spec /\ WF_vars(Start /\ aborted) /\ WF_vars(Fill) /\ WF_vars(Consume)

-----------------------------------------------------------------------------
Slot == [marked : BOOLEAN, whole : BOOLEAN, frame : 0..MaxFrames]

TypeOK == /\ slots \in [Slots -> Slot]
          /\ rindex \in Slots /\ windex \in Slots
          /\ size \in 0..MaxSize
          /\ shown \in BOOLEAN /\ aborted \in BOOLEAN
          /\ ppc \in {"idle", "waiting", "woken", "filling", "marked", "whole",
                      "counting"}
          /\ cpc \in {"idle", "using", "counting"}
          /\ made \in 0..MaxFrames /\ used \in 0..MaxFrames

(* Frames between the indexes: the counter, corrected for a pushFrame or a   *)
(* popFrame that has moved its index and not yet counted.                    *)
Occupied == size + (IF ppc = "counting" THEN 1 ELSE 0)
                 - (IF cpc = "counting" THEN 1 ELSE 0)

(* The indexes and the counter tell the same story, although pushFrame and   *)
(* popFrame update them apart (FrameQueue.cpp:68, 78) and a frame may be     *)
(* consumed before it is counted; the guard at line 88 is never needed.      *)
RingConsistent ==
    /\ Occupied \in {windex - rindex, windex - rindex + MaxSize}
    /\ cpc = "counting" => size > 0

(* Whatever wakes the decoder, indexes and counter agree modulo the ring.    *)
IndexesAgree == /\ (Occupied - windex + rindex) % MaxSize = 0
                /\ cpc = "counting" => size > 0

(* The decoder waits only for room: neither popFrame nor a start() or        *)
(* abort() leaves it asleep without need (FrameQueue.cpp:59).                *)
WaitJustified == ppc = "waiting" => size >= MaxSize /\ ~aborted

(* The slot the decoder is filling is never released under its hands, though *)
(* the consumer may take it before it is counted: only keep_last prevents    *)
(* that (FrameQueue.cpp:79).                                                 *)
FillingNotReleased ==
    ppc \in {"marked", "whole"} =>
        slots[windex].marked /\ slots[windex].frame = made

(* The frame the consumer works on is the next one in order, and the decoder *)
(* does not reuse its slot meanwhile (MediaSync2.cpp:40, 113).               *)
UsedFrameStable ==
    cpc = "using" => slots[Current].marked /\ slots[Current].frame = used + 1

(* A half-written frame is seen only by a consumer that has caught up with   *)
(* the decoder: it is the frame being written and no finished one is pending.*)
TornOnlyWhenStarved ==
    cpc = "using" /\ ~slots[Current].whole =>
        ppc = "marked" /\ Current = windex /\ GetFrameSize <= 0

(* The frames visible to the consumer, in the order it will meet them: from  *)
(* the current slot on, up to a blank one or the kept one come round again.  *)
Nth(i)   == IF Current + i < MaxSize THEN Current + i ELSE Current + i - MaxSize
Fresh(i) == slots[Nth(i)].marked /\ slots[Nth(i)].frame > used
Pending  == CHOOSE n \in 0..MaxSize : /\ \A i \in 0..(n - 1) : Fresh(i)
                                      /\ n < MaxSize => ~Fresh(n)
Visible  == [i \in 1..Pending |-> slots[Nth(i - 1)].frame]

Abstract == INSTANCE BoundedBuffer
              WITH content <- Visible, Item <- 1..MaxFrames,
                   Capacity <- MaxSize, finished <- FALSE, quit <- FALSE,
                   grace <- {}

(* The ring is a FIFO: frames become visible at the tail and leave at the    *)
(* head, none is lost, repeated or reordered (FrameQueue.cpp:41-92).         *)
ImplementsFifo == Abstract!Spec

(* Every frame made visible is consumed; so a decoder that found the ring    *)
(* full is let in again (FrameQueue.cpp:59, 90).                             *)
FramesConsumed == \A f \in 1..MaxFrames : made >= f ~> used >= f
=============================================================================

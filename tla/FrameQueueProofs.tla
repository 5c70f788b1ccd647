-------------------------- MODULE FrameQueueProofs --------------------------
(* Proofs about FrameQueue.cpp as the decoders use it: keep_last set, one    *)
(* start(), no wakeup but popFrame's; any ring size, any number of frames,   *)
(* flush() at any time; the last theorem is about every use of the ring.     *)
EXTENDS FrameQueue, TLAPS

USE MaxSizeAssumption, MaxFramesAssumption

(* Both decoders build their ring with keep_last (AudioDecode.cpp:10,        *)
(* VideoDecode.cpp:18).                                                      *)
PlayerUse == KeepLast = TRUE /\ Disturbances \subseteq {"flush"}

Kept     == IF shown THEN 1 ELSE 0
InFlight == IF ppc \in {"marked", "whole"} THEN 1 ELSE 0

(* The ring is never entered when it is full: wait() returns only after a    *)
(* popFrame has made room, and nobody else takes the room.                   *)
RoomInv ==
    /\ ppc = "waiting" => ~aborted
    /\ ppc \in {"waiting", "woken", "filling"} => made < MaxFrames
    /\ ppc \in {"woken", "filling", "marked", "whole", "counting"}
         => size < MaxSize

(* The frames between the indexes, counted by frame number.                  *)
CountInv ==
    /\ Occupied = made - InFlight - used + Kept
    /\ Occupied \in {windex - rindex, windex - rindex + MaxSize}
    /\ used <= made
    /\ used = 0 <=> ~shown
    /\ cpc = "using" => used < made
    /\ cpc = "counting" => shown

(* How far a slot is from the oldest one, and what it therefore holds.       *)
Offset(i) == IF i >= rindex THEN i - rindex ELSE i - rindex + MaxSize

SlotInv ==
    \A i \in Slots :
        IF Offset(i) < made - used + Kept
          THEN /\ slots[i].marked
               /\ slots[i].frame = used + 1 - Kept + Offset(i)
               /\ slots[i].whole \/ (ppc = "marked" /\ i = windex)
          ELSE ~slots[i].marked

IInv == TypeOK /\ RoomInv /\ CountInv /\ SlotInv

-----------------------------------------------------------------------------
(* A released slot is a slot.                                                *)
LEMMA BlankIsSlot == Blank \in Slot
  BY DEF Blank, Slot

(* Every step keeps the types and never counts above max_size.               *)
LEMMA TypeStep ==
  ASSUME PlayerUse, TypeOK, RoomInv, CountInv, [Next]_vars PROVE TypeOK'
<1> USE DEF PlayerUse, TypeOK, Slot, Slots, RoomInv, CountInv, Occupied
<1>1. CASE Start
  BY <1>1 DEF Start, Notified
<1>2. CASE Abort
  BY <1>2 DEF Abort, Notified
<1>3. CASE SpuriousWake
  BY <1>3 DEF SpuriousWake
<1>4. CASE PeekWritable
  BY <1>4 DEF PeekWritable, UnchangedByPeek
<1>5. CASE PeekAfterWait
  BY <1>5 DEF PeekAfterWait, UnchangedByPeek
<1>6. CASE Mark
  <2>1. [marked |-> TRUE, whole |-> FALSE, frame |-> made + 1] \in Slot
    BY <1>6 DEF Mark
  <2>2. slots' \in [Slots -> Slot]
    BY <1>6, <2>1 DEF Mark
  <2>3. made + 1 \in 0..MaxFrames
    BY <1>6 DEF Mark
  <2>4. QED
    BY <1>6, <2>2, <2>3 DEF Mark
<1>7. CASE Complete
  BY <1>7 DEF Complete
<1>8. CASE PushIndex
  BY <1>8 DEF PushIndex, Succ
<1>9. CASE PushCount
  BY <1>9 DEF PushCount
<1>10. CASE Look
  BY <1>10 DEF Look
<1>11. CASE Pop
  <2>1. slots' \in [Slots -> Slot]
    BY <1>11, BlankIsSlot DEF Pop, PopFrame
  <2>2. used < made
    BY <1>11 DEF Pop, PopFrame, Kept, InFlight
  <2>3. rindex' \in Slots /\ used' \in 0..MaxFrames
    BY <1>11, <2>2 DEF Pop, PopFrame, Succ
  <2>4. QED
    BY <1>11, <2>1, <2>3 DEF Pop, PopFrame
<1>12. CASE PopCount
  BY <1>12 DEF PopCount, Notified
<1>13. CASE Flush
  <2>1. slots' \in [Slots -> Slot]
    BY <1>13, BlankIsSlot DEF Flush, PopFrame, GetFrameSize
  <2>2. used < made
    BY <1>13 DEF Flush, PopFrame, GetFrameSize, Kept, InFlight
  <2>3. rindex' \in Slots /\ used' \in 0..MaxFrames
    BY <1>13, <2>2 DEF Flush, PopFrame, GetFrameSize, Succ
  <2>4. QED
    BY <1>13, <2>1, <2>3 DEF Flush, PopFrame, GetFrameSize
<1>14. CASE UNCHANGED vars
  BY <1>14 DEF vars
<1>15. QED
  BY <1>1, <1>2, <1>3, <1>4, <1>5, <1>6, <1>7, <1>8, <1>9, <1>10, <1>11, <1>12,
     <1>13, <1>14 DEF Next, Fill, Consume

(* Only the decoder takes room, and only after it has seen some.             *)
LEMMA RoomStep ==
  ASSUME PlayerUse, TypeOK, RoomInv, [Next]_vars PROVE RoomInv'
<1> USE DEF PlayerUse, TypeOK, RoomInv
<1>1. CASE Start
  BY <1>1 DEF Start, Notified
<1>2. CASE Abort
  BY <1>2 DEF Abort, Notified
<1>3. CASE SpuriousWake
  BY <1>3 DEF SpuriousWake
<1>4. CASE PeekWritable
  BY <1>4 DEF PeekWritable, UnchangedByPeek
<1>5. CASE PeekAfterWait
  BY <1>5 DEF PeekAfterWait, UnchangedByPeek
<1>6. CASE Mark
  BY <1>6 DEF Mark
<1>7. CASE Complete
  BY <1>7 DEF Complete
<1>8. CASE PushIndex
  BY <1>8 DEF PushIndex, Succ
<1>9. CASE PushCount
  BY <1>9 DEF PushCount
<1>10. CASE Look
  BY <1>10 DEF Look
<1>11. CASE Pop
  BY <1>11 DEF Pop, PopFrame, Succ
<1>12. CASE PopCount
  BY <1>12 DEF PopCount, Notified
<1>13. CASE Flush
  BY <1>13 DEF Flush, PopFrame, GetFrameSize, Succ
<1>14. CASE UNCHANGED vars
  BY <1>14 DEF vars
<1>15. QED
  BY <1>1, <1>2, <1>3, <1>4, <1>5, <1>6, <1>7, <1>8, <1>9, <1>10, <1>11, <1>12,
     <1>13, <1>14 DEF Next, Fill, Consume

(* The counter follows the indexes.                                          *)
LEMMA CountStep ==
  ASSUME PlayerUse, IInv, [Next]_vars PROVE CountInv'
<1> USE DEF PlayerUse, IInv, TypeOK, Slots, RoomInv, CountInv, Occupied, Kept,
            InFlight
<1>1. CASE Start
  BY <1>1 DEF Start, Notified
<1>2. CASE Abort
  BY <1>2 DEF Abort, Notified
<1>3. CASE SpuriousWake
  BY <1>3 DEF SpuriousWake
<1>4. CASE PeekWritable
  BY <1>4 DEF PeekWritable, UnchangedByPeek
<1>5. CASE PeekAfterWait
  BY <1>5 DEF PeekAfterWait, UnchangedByPeek
<1>6. CASE Mark
  BY <1>6 DEF Mark
<1>7. CASE Complete
  BY <1>7 DEF Complete
<1>8. CASE PushIndex
  BY <1>8 DEF PushIndex, Succ
<1>9. CASE PushCount
  BY <1>9 DEF PushCount
<1>10. CASE Look
  <2>1. Current \in Slots /\ Offset(Current) = Kept
    BY DEF Current, Succ, Offset
  <2>2. used < made
    BY <1>10, <2>1 DEF Look, SlotInv
  <2>3. QED
    BY <1>10, <2>2 DEF Look
<1>11. CASE Pop
  BY <1>11 DEF Pop, PopFrame, Succ
<1>12. CASE PopCount
  BY <1>12 DEF PopCount, Notified
<1>13. CASE Flush
  BY <1>13 DEF Flush, PopFrame, GetFrameSize, Succ
<1>14. CASE UNCHANGED vars
  BY <1>14 DEF vars
<1>15. QED
  BY <1>1, <1>2, <1>3, <1>4, <1>5, <1>6, <1>7, <1>8, <1>9, <1>10, <1>11, <1>12,
     <1>13, <1>14 DEF Next, Fill, Consume

(* The decoder's half-done frame included, the ring never overflows.         *)
LEMMA RingBound ==
  ASSUME TypeOK, RoomInv, CountInv
  PROVE  made - used + Kept <= MaxSize
  BY DEF TypeOK, RoomInv, CountInv, Occupied, InFlight, Kept, Slots

(* Releasing the oldest slot moves every other one a place forward.          *)
LEMMA Shift ==
  ASSUME TypeOK, SlotInv, made - used + Kept <= MaxSize,
         Kept = 1, Kept' = 1, rindex' = Succ(rindex), made' = made,
         used' = used + 1, ppc' = ppc, windex' = windex,
         slots' = [slots EXCEPT ![rindex] = Blank]
  PROVE  SlotInv'
<1>1. /\ rindex \in Slots /\ slots \in [Slots -> Slot]
      /\ made \in Nat /\ used \in Nat
  BY DEF TypeOK
<1>2. ASSUME NEW j \in Slots, j # rindex
      PROVE  /\ Offset(j)' = Offset(j) - 1
             /\ Offset(j) \in Nat
             /\ slots'[j] = slots[j]
  BY <1>1, <1>2 DEF Offset, Succ, Slots
<1>3. ASSUME NEW j \in Slots, j = rindex
      PROVE  Offset(j)' = MaxSize - 1 /\ ~slots'[j].marked
  BY <1>1, <1>3 DEF Offset, Succ, Slots, Blank
<1>4. ASSUME NEW j \in Slots
      PROVE  IF Offset(j)' < made' - used' + Kept'
               THEN /\ slots'[j].marked
                    /\ slots'[j].frame = used' + 1 - Kept' + Offset(j)'
                    /\ slots'[j].whole \/ (ppc' = "marked" /\ j = windex')
               ELSE ~slots'[j].marked
  <2>1. CASE j = rindex
    BY <1>1, <1>3, <2>1
  <2>2. CASE j # rindex
    BY <1>1, <1>2, <2>2 DEF SlotInv
  <2>3. QED
    BY <2>1, <2>2
<1>5. QED
  BY <1>4 DEF SlotInv

(* Each slot keeps the frame its position calls for until popFrame.          *)
LEMMA SlotStep ==
  ASSUME PlayerUse, IInv, [Next]_vars PROVE SlotInv'
<1> USE DEF PlayerUse, IInv, TypeOK, Slots, RoomInv, CountInv, Occupied, Kept,
            InFlight, SlotInv
<1>1. CASE Start
  <2>1. \A j \in Slots : Offset(j)' = Offset(j)
    BY <1>1 DEF Start, Notified, Offset
  <2>2. QED
    BY <1>1, <2>1 DEF Start, Notified
<1>2. CASE Abort
  <2>1. \A j \in Slots : Offset(j)' = Offset(j)
    BY <1>2 DEF Abort, Notified, Offset
  <2>2. QED
    BY <1>2, <2>1 DEF Abort, Notified
<1>3. CASE SpuriousWake
  <2>1. \A j \in Slots : Offset(j)' = Offset(j)
    BY <1>3 DEF SpuriousWake, Offset
  <2>2. QED
    BY <1>3, <2>1 DEF SpuriousWake
<1>4. CASE PeekWritable
  <2>1. \A j \in Slots : Offset(j)' = Offset(j)
    BY <1>4 DEF PeekWritable, UnchangedByPeek, Offset
  <2>2. QED
    BY <1>4, <2>1 DEF PeekWritable, UnchangedByPeek
<1>5. CASE PeekAfterWait
  <2>1. \A j \in Slots : Offset(j)' = Offset(j)
    BY <1>5 DEF PeekAfterWait, UnchangedByPeek, Offset
  <2>2. QED
    BY <1>5, <2>1 DEF PeekAfterWait, UnchangedByPeek
<1>6. CASE Mark
  <2>1. Offset(windex) = made - used + Kept
    BY <1>6 DEF Mark, Offset
  <2>2. \A j \in Slots : j # windex => Offset(j) # Offset(windex)
    BY DEF Offset
  <2>3. \A j \in Slots : Offset(j) \in Nat /\ Offset(j)' = Offset(j)
    BY <1>6 DEF Mark, Offset
  <2>4. QED
    BY <1>6, <2>1, <2>2, <2>3 DEF Mark
<1>7. CASE Complete
  <2>1. \A j \in Slots : Offset(j)' = Offset(j)
    BY <1>7 DEF Complete, Offset
  <2>2. \A j \in Slots : /\ slots'[j].marked = slots[j].marked
                         /\ slots'[j].frame = slots[j].frame
                         /\ slots'[j].whole = (j = windex \/ slots[j].whole)
    BY <1>7 DEF Complete, Slot
  <2>3. made' = made /\ used' = used /\ shown' = shown
    BY <1>7 DEF Complete
  <2>4. QED
    BY <1>7, <2>1, <2>2, <2>3
<1>8. CASE PushIndex
  <2>1. \A j \in Slots : Offset(j)' = Offset(j)
    BY <1>8 DEF PushIndex, Succ, Offset
  <2>2. QED
    BY <1>8, <2>1 DEF PushIndex, Succ
<1>9. CASE PushCount
  <2>1. \A j \in Slots : Offset(j)' = Offset(j)
    BY <1>9 DEF PushCount, Offset
  <2>2. QED
    BY <1>9, <2>1 DEF PushCount
<1>10. CASE Look
  <2>1. \A j \in Slots : Offset(j)' = Offset(j)
    BY <1>10 DEF Look, Offset
  <2>2. QED
    BY <1>10, <2>1 DEF Look
<1>11. CASE Pop
  <2>1. CASE ~shown
    <3>1. \A j \in Slots : Offset(j)' = Offset(j)
      BY <1>11, <2>1 DEF Pop, PopFrame, Offset
    <3>2. QED
      BY <1>11, <2>1, <3>1 DEF Pop, PopFrame
  <2>2. CASE shown
    <3>1. rindex' = Succ(rindex)
      BY <1>11, <2>2 DEF Pop, PopFrame
    <3>2. /\ Kept = 1 /\ Kept' = 1 /\ made' = made /\ used' = used + 1
          /\ ppc' = ppc /\ windex' = windex
          /\ slots' = [slots EXCEPT ![rindex] = Blank]
      BY <1>11, <2>2 DEF Pop, PopFrame
    <3>3. QED
      BY <3>1, <3>2, RingBound, Shift
  <2>3. QED
    BY <2>1, <2>2
<1>12. CASE PopCount
  <2>1. \A j \in Slots : Offset(j)' = Offset(j)
    BY <1>12 DEF PopCount, Notified, Offset
  <2>2. QED
    BY <1>12, <2>1 DEF PopCount, Notified
<1>13. CASE Flush
  <2>1. CASE ~shown
    <3>1. \A j \in Slots : Offset(j)' = Offset(j)
      BY <1>13, <2>1 DEF Flush, PopFrame, GetFrameSize, Offset
    <3>2. QED
      BY <1>13, <2>1, <3>1 DEF Flush, PopFrame, GetFrameSize
  <2>2. CASE shown
    <3>1. rindex' = Succ(rindex)
      BY <1>13, <2>2 DEF Flush, PopFrame, GetFrameSize
    <3>2. /\ Kept = 1 /\ Kept' = 1 /\ made' = made /\ used' = used + 1
          /\ ppc' = ppc /\ windex' = windex
          /\ slots' = [slots EXCEPT ![rindex] = Blank]
      BY <1>13, <2>2 DEF Flush, PopFrame, GetFrameSize
    <3>3. QED
      BY <3>1, <3>2, RingBound, Shift
  <2>3. QED
    BY <2>1, <2>2
<1>14. CASE UNCHANGED vars
  BY <1>14 DEF vars, Offset
<1>15. QED
  BY <1>1, <1>2, <1>3, <1>4, <1>5, <1>6, <1>7, <1>8, <1>9, <1>10, <1>11, <1>12,
     <1>13, <1>14 DEF Next, Fill, Consume

-----------------------------------------------------------------------------
(* The strengthened invariant holds of every behaviour of the ring as the    *)
(* player uses it.                                                           *)
THEOREM Invariance ==
  ASSUME PlayerUse PROVE Spec => []IInv
<1>1. Init => IInv
  <2> SUFFICES ASSUME Init PROVE IInv
    OBVIOUS
  <2> USE DEF Init, Slots
  <2>1. TypeOK
    <3>1. slots \in [Slots -> Slot]
      BY BlankIsSlot
    <3>2. rindex \in Slots /\ windex \in Slots /\ size \in 0..MaxSize
      OBVIOUS
    <3>3. made \in 0..MaxFrames /\ used \in 0..MaxFrames
      OBVIOUS
    <3>4. QED
      BY <3>1, <3>2, <3>3 DEF TypeOK
  <2>2. RoomInv /\ CountInv
    BY DEF RoomInv, CountInv, Occupied, Kept, InFlight
  <2>3. SlotInv
    BY DEF SlotInv, Offset, Kept, Blank
  <2>4. QED
    BY <2>1, <2>2, <2>3 DEF IInv
<1>2. IInv /\ [Next]_vars => IInv'
  BY TypeStep, RoomStep, CountStep, SlotStep DEF IInv
<1>3. QED
  BY <1>1, <1>2, PTL DEF Spec

(* The ring's variables keep their types, and pushFrame never counts above   *)
(* max_size.                                                                 *)
THEOREM TypeCorrect ==
  ASSUME PlayerUse PROVE Spec => []TypeOK
<1>1. IInv => TypeOK
  BY DEF IInv
<1>2. QED
  BY <1>1, Invariance, PTL

(* Indexes and counter agree although pushFrame and popFrame update them     *)
(* apart, and popFrame's guard on the counter (FrameQueue.cpp:88) is never   *)
(* needed.                                                                   *)
THEOREM RingAgrees ==
  ASSUME PlayerUse PROVE Spec => []RingConsistent
<1>1. IInv => RingConsistent
  BY DEF IInv, TypeOK, Slots, CountInv, RoomInv, Occupied, Kept, InFlight,
         RingConsistent
<1>2. QED
  BY <1>1, Invariance, PTL

(* popFrame never releases the slot the decoder is filling, although the     *)
(* consumer may already have taken it (FrameQueue.cpp:79, AudioDecode:79).     *)
THEOREM FillingIsSafe ==
  ASSUME PlayerUse PROVE Spec => []FillingNotReleased
<1>1. IInv => FillingNotReleased
  <2> SUFFICES ASSUME IInv, ppc \in {"marked", "whole"}
               PROVE  slots[windex].marked /\ slots[windex].frame = made
    BY DEF FillingNotReleased
  <2> USE DEF IInv, TypeOK, Slots, CountInv, RoomInv, Occupied, Kept, InFlight
  <2>1. Offset(windex) = made - 1 - used + Kept
    BY DEF Offset
  <2>2. QED
    BY <2>1 DEF SlotInv
<1>2. QED
  BY <1>1, Invariance, PTL

(* The consumer meets the frames in order, and the slot it works on is not   *)
(* taken from it (MediaSync2.cpp:34-41, 90-114).                             *)
THEOREM UsedIsStable ==
  ASSUME PlayerUse PROVE Spec => []UsedFrameStable
<1>1. IInv => UsedFrameStable
  <2> SUFFICES ASSUME IInv, cpc = "using"
               PROVE  /\ slots[Current].marked
                      /\ slots[Current].frame = used + 1
    BY DEF UsedFrameStable
  <2> USE DEF IInv, TypeOK, Slots, CountInv, Kept
  <2>1. Current \in Slots /\ Offset(Current) = Kept
    BY DEF Current, Succ, Offset
  <2>2. QED
    BY <2>1 DEF SlotInv
<1>2. QED
  BY <1>1, Invariance, PTL

(* A frame taken before it was complete is the one being written, and only a *)
(* consumer with nothing else pending takes it.                              *)
THEOREM TornIsStarved ==
  ASSUME PlayerUse PROVE Spec => []TornOnlyWhenStarved
<1>1. IInv => TornOnlyWhenStarved
  <2> SUFFICES ASSUME IInv, cpc = "using", ~slots[Current].whole
               PROVE  ppc = "marked" /\ Current = windex /\ GetFrameSize <= 0
    BY DEF TornOnlyWhenStarved
  <2> USE DEF IInv, TypeOK, Slots, CountInv, Occupied, InFlight, Kept, RoomInv
  <2>1. Current \in Slots /\ Offset(Current) = Kept
    BY DEF Current, Succ, Offset
  <2>2. ppc = "marked" /\ Current = windex
    BY <2>1 DEF SlotInv
  <2>3. Offset(windex) = made - 1 - used + Kept
    BY <2>2 DEF Offset
  <2>4. GetFrameSize <= 0
    BY <2>1, <2>2, <2>3 DEF GetFrameSize
  <2>5. QED
    BY <2>2, <2>4
<1>2. QED
  BY <1>1, Invariance, PTL

-----------------------------------------------------------------------------
(* The frames after the last one used, up to the one made last.              *)
Unused == [i \in 1..(made - used) |-> used + i]

(* They are what the consumer has still to meet: no other number of slots    *)
(* qualifies.                                                                *)
LEMMA VisibleFrames == IInv => Visible = Unused
<1> SUFFICES ASSUME IInv PROVE Visible = Unused
  OBVIOUS
<1> DEFINE N == made - used
<1>1. /\ made \in Nat /\ used \in Nat /\ N \in Nat /\ Kept \in {0, 1}
      /\ N + Kept <= MaxSize /\ rindex \in Slots
      /\ slots \in [Slots -> Slot]
  BY RingBound DEF IInv, TypeOK, CountInv, Kept
<1>2. Current \in Slots /\ Offset(Current) = Kept
  BY <1>1 DEF Current, Succ, Offset, Kept, Slots
<1>3. ASSUME NEW i \in 0..(MaxSize - 1)
      PROVE  /\ Nth(i) \in Slots
             /\ Offset(Nth(i)) = IF Kept + i < MaxSize THEN Kept + i ELSE 0
  BY <1>1, <1>2, <1>3 DEF Nth, Offset, Slots
<1>4. ASSUME NEW i \in 0..(N - 1)
      PROVE  Fresh(i) /\ slots[Nth(i)].frame = used + 1 + i
  <2>1. i \in 0..(MaxSize - 1) /\ Kept + i < N + Kept /\ Kept + i < MaxSize
    BY <1>1, <1>4
  <2>2. Nth(i) \in Slots /\ Offset(Nth(i)) = Kept + i
    BY <1>3, <2>1
  <2>3. /\ slots[Nth(i)].marked
        /\ slots[Nth(i)].frame = used + 1 - Kept + (Kept + i)
    BY <1>1, <2>1, <2>2 DEF IInv, SlotInv
  <2>4. slots[Nth(i)].frame = used + 1 + i
    BY <1>1, <1>4, <2>3
  <2>5. QED
    BY <1>1, <1>4, <2>3, <2>4 DEF Fresh
<1>5. ASSUME N < MaxSize PROVE ~Fresh(N)
  <2>1. N \in 0..(MaxSize - 1)
    BY <1>1, <1>5
  <2>2. CASE Kept + N < MaxSize
    <3>1. Nth(N) \in Slots /\ Offset(Nth(N)) = Kept + N
      BY <1>3, <2>1, <2>2
    <3>2. ~(Kept + N < made - used + Kept)
      BY <1>1
    <3>3. ~slots[Nth(N)].marked
      BY <3>1, <3>2 DEF IInv, SlotInv
    <3>4. QED
      BY <3>3 DEF Fresh
  <2>3. CASE ~(Kept + N < MaxSize)
    <3>1. Kept = 1 /\ Nth(N) \in Slots /\ Offset(Nth(N)) = 0
      BY <1>1, <1>3, <1>5, <2>1, <2>3
    <3>2. 0 < made - used + Kept
      BY <1>1, <3>1
    <3>3. slots[Nth(N)].frame = used + 1 - Kept + 0
      BY <3>1, <3>2 DEF IInv, SlotInv
    <3>4. QED
      BY <1>1, <3>1, <3>3 DEF Fresh
  <2>4. QED
    BY <2>2, <2>3
<1>6. Pending = N
  <2> DEFINE P(n) == /\ \A i \in 0..(n - 1) : Fresh(i)
                     /\ n < MaxSize => ~Fresh(n)
  <2>1. N \in 0..MaxSize /\ P(N)
    BY <1>1, <1>4, <1>5
  <2>2. ASSUME NEW n \in 0..MaxSize, P(n) PROVE n = N
    <3>1. CASE n < N
      <4>1. n \in 0..(N - 1) /\ n < MaxSize
        BY <1>1, <3>1
      <4>2. QED
        BY <1>4, <2>2, <4>1
    <3>2. CASE n > N
      <4>1. N \in 0..(n - 1) /\ N < MaxSize
        BY <1>1, <3>2
      <4>2. QED
        BY <1>5, <2>2, <4>1
    <3>3. QED
      BY <1>1, <3>1, <3>2
  <2>3. Pending = CHOOSE n \in 0..MaxSize : P(n)
    BY DEF Pending
  <2> HIDE DEF P, N
  <2>4. QED
    BY <2>1, <2>2, <2>3
<1>7. \A i \in 1..N : i - 1 \in 0..(N - 1)
  BY <1>1
<1>8. \A i \in 1..N : slots[Nth(i - 1)].frame = used + i
  BY <1>1, <1>4, <1>7
<1>9. QED
  BY <1>6, <1>8 DEF Visible, Unused

(* They never outnumber the slots.                                           *)
LEMMA UnusedFit == IInv => made - used \in 0..MaxSize
  BY RingBound DEF IInv, TypeOK, CountInv, Kept

(* Only a frame that becomes visible and a frame that is popped change what  *)
(* the consumer has still to meet.                                           *)
LEMMA RefinementStep ==
  ASSUME PlayerUse, IInv, IInv', [Next]_vars
  PROVE  [Abstract!Next]_(Abstract!vars)
<1>1. Visible = Unused /\ Visible' = Unused'
  <2>1. (IInv => Visible = Unused)'
    BY VisibleFrames, PTL
  <2>2. QED
    BY <2>1, VisibleFrames
<1>2. /\ made \in 0..MaxFrames /\ used \in 0..MaxFrames /\ made - used \in 0..MaxSize
      /\ made' \in 0..MaxFrames /\ used' \in 0..MaxFrames
      /\ made' - used' \in 0..MaxSize
  <2>1. (IInv => made - used \in 0..MaxSize)'
    BY UnusedFit, PTL
  <2>2. made - used \in 0..MaxSize
    BY UnusedFit
  <2>3. /\ made \in 0..MaxFrames /\ used \in 0..MaxFrames
        /\ made' \in 0..MaxFrames /\ used' \in 0..MaxFrames
    BY DEF IInv, TypeOK
  <2>4. made' - used' \in 0..MaxSize
    BY <2>1
  <2>5. QED
    BY <2>2, <2>3, <2>4
<1>3. Unused \in Seq(1..MaxFrames) /\ Len(Unused) = made - used
  BY <1>2 DEF Unused
<1>4. CASE Mark
  <2>1. made' = made + 1 /\ used' = used
    BY <1>4 DEF Mark
  <2>2. Visible' = Append(Unused, made + 1) /\ made + 1 \in 1..MaxFrames
    BY <1>1, <1>2, <1>3, <2>1 DEF Unused
  <2>3. Len(Unused) < MaxSize
    BY <1>2, <1>3, <2>1
  <2>4. Abstract!Put
    BY <1>1, <2>2, <2>3 DEF Abstract!Put, Abstract!Served
  <2>5. QED
    BY <2>4 DEF Abstract!Next
<1>5. CASE made' = made /\ used' = used + 1
  <2>1. Unused # << >>
    BY <1>2, <1>3, <1>5
  <2>2. Visible' = Tail(Unused)
    BY <1>1, <1>2, <1>3, <1>5 DEF Unused
  <2>3. Abstract!Take
    BY <1>1, <2>1, <2>2 DEF Abstract!Take, Abstract!Served
  <2>4. QED
    BY <2>3 DEF Abstract!Next
<1>6. CASE UNCHANGED <<made, used>>
  BY <1>1, <1>6 DEF Abstract!vars, Unused
<1>7. QED
  BY <1>4, <1>5, <1>6
     DEF Next, Fill, Consume, Start, Abort, SpuriousWake, PeekWritable,
         PeekAfterWait, UnchangedByPeek, Complete, PushIndex, PushCount, Look,
         Pop, PopFrame, PopCount, Flush, vars

(* Between one decoder and one consumer the ring is a FIFO of at most        *)
(* max_size frames: none is lost, repeated or reordered, for any ring size   *)
(* and any number of frames (FrameQueue.cpp:41-92).                          *)
THEOREM Refinement ==
  ASSUME PlayerUse PROVE Spec => ImplementsFifo
<1>1. IInv /\ Init => Abstract!Init
  <2> SUFFICES ASSUME IInv, Init PROVE Abstract!Init
    OBVIOUS
  <2>1. Visible = Unused /\ made - used = 0
    BY VisibleFrames DEF Init
  <2>2. Visible = << >>
    BY <2>1 DEF Unused
  <2>3. QED
    BY <2>2 DEF Abstract!Init
<1>2. IInv /\ IInv' /\ [Next]_vars => [Abstract!Next]_(Abstract!vars)
  BY RefinementStep
<1>3. QED
  BY <1>1, <1>2, Invariance, PTL DEF Spec, ImplementsFifo, Abstract!Spec

-----------------------------------------------------------------------------
(* What woke the decoder does not matter for the rest: it may fill a slot    *)
(* that is still in use, but indexes and counter go on telling how many      *)
(* frames have become visible and not been popped.                           *)
Held    == made - used + Kept
Coming  == IF ppc \in {"marked", "whole", "counting"} THEN 1 ELSE 0
Leaving == IF cpc = "counting" THEN 1 ELSE 0

RingTypeOK ==
    /\ slots \in [Slots -> [marked : BOOLEAN, whole : BOOLEAN, frame : Nat]]
    /\ rindex \in Slots /\ windex \in Slots /\ size \in Nat
    /\ made \in Nat /\ used \in Nat /\ shown \in BOOLEAN
    /\ ppc \in {"idle", "waiting", "woken", "filling", "marked", "whole",
                "counting"}
    /\ cpc \in {"idle", "using", "counting"}

(* The distance of the indexes is known only up to turns of the ring.        *)
Turned == windex - rindex - Held + InFlight

HeldInv ==
    /\ Held >= 0
    /\ size = Held - Coming + Leaving
    /\ cpc = "counting" => size > 0
    /\ Turned % MaxSize = 0

(* A visible slot is one of those the indexes tell of.                       *)
MarkedInv ==
    /\ \A i \in Slots : slots[i].marked => Offset(i) < Held
    /\ cpc = "using" => slots[Current].marked

AnyInv == RingTypeOK /\ HeldInv /\ MarkedInv

(* One turn more or less is whole turns, and less than one turn is none.     *)
LEMMA Turn ==
  ASSUME NEW x \in Int, x % MaxSize = 0
  PROVE  /\ (x + MaxSize) % MaxSize = 0
         /\ (x - MaxSize) % MaxSize = 0
         /\ (-x) % MaxSize = 0
         /\ x < MaxSize => x <= 0
<1>1. PICK k \in Int : x = k * MaxSize
  <2>1. x \div MaxSize \in Int /\ x = (x \div MaxSize) * MaxSize
    OBVIOUS
  <2> QED
    BY <2>1
<1>2. \A m \in Int : (m * MaxSize) % MaxSize = 0
  OBVIOUS
<1>3. /\ x + MaxSize = (k + 1) * MaxSize /\ x - MaxSize = (k - 1) * MaxSize
      /\ -x = (-k) * MaxSize
  BY <1>1
<1>4. k >= 1 => k * MaxSize >= MaxSize
  OBVIOUS
<1>5. k <= 0 => k * MaxSize <= 0
  OBVIOUS
<1> QED
  BY <1>1, <1>2, <1>3, <1>4, <1>5

LEMMA AnyInitial == Init => AnyInv
<1> SUFFICES ASSUME Init PROVE AnyInv
  OBVIOUS
<1> USE DEF Init, Slots, Kept, Held
<1>1. RingTypeOK
  <2>1. Blank \in [marked : BOOLEAN, whole : BOOLEAN, frame : Nat]
    BY DEF Blank
  <2>2. slots \in [Slots -> [marked : BOOLEAN, whole : BOOLEAN, frame : Nat]]
    BY <2>1
  <2>3. rindex \in Slots /\ windex \in Slots
    OBVIOUS
  <2> QED
    BY <2>2, <2>3 DEF RingTypeOK
<1>2. Turned = 0 /\ 0 % MaxSize = 0
  BY DEF Turned, InFlight
<1>3. HeldInv
  BY <1>2 DEF HeldInv, Coming, Leaving
<1>4. MarkedInv
  BY DEF MarkedInv, Blank
<1> QED
  BY <1>1, <1>3, <1>4 DEF AnyInv

LEMMA SuccIsSlot ==
  ASSUME NEW i \in Slots
  PROVE  /\ Succ(i) \in Slots
         /\ Succ(i) = i + 1 \/ Succ(i) = i + 1 - MaxSize
BY DEF Succ, Slots

(* Every frame that leaves the ring had been held, and besides the one kept. *)
LEMMA PoppedIsHeld ==
  ASSUME AnyInv, shown, cpc = "using" PROVE Held >= 2
<1>1. Current \in Slots /\ Offset(Current) = 1
  BY DEF AnyInv, RingTypeOK, Slots, Current, Succ, Offset
<1>2. slots[Current].marked
  BY DEF AnyInv, MarkedInv
<1>3. Offset(Current) < Held
  BY <1>1, <1>2 DEF AnyInv, MarkedInv
<1>4. Held \in Int
  BY DEF AnyInv, RingTypeOK, Held, Kept
<1> QED
  BY <1>1, <1>3, <1>4

(* The decoder's slot is at most as far away as the frames held.             *)
LEMMA FilledIsNext ==
  ASSUME AnyInv, ppc = "filling" PROVE Offset(windex) <= Held
<1>1. /\ rindex \in 0..(MaxSize - 1) /\ windex \in 0..(MaxSize - 1)
      /\ Held \in Nat /\ InFlight = 0
  BY DEF AnyInv, RingTypeOK, HeldInv, Slots, Held, Kept, InFlight
<1>2. Turned \in Int /\ Turned % MaxSize = 0 /\ Turned = windex - rindex - Held
  BY <1>1 DEF AnyInv, HeldInv, Turned
<1>3. Offset(windex) \in 0..(MaxSize - 1)
      /\ Offset(windex) - Held \in {Turned, Turned + MaxSize}
  BY <1>1, <1>2 DEF Offset
<1>4. (Offset(windex) - Held) % MaxSize = 0
  BY <1>2, <1>3, Turn
<1>5. Offset(windex) - Held \in Int /\ Offset(windex) - Held < MaxSize
  BY <1>1, <1>3
<1>6. Offset(windex) - Held <= 0
  BY <1>4, <1>5, Turn
<1> QED
  BY <1>1, <1>3, <1>6

LEMMA AnyTypeStep == AnyInv /\ [Next]_vars => RingTypeOK'
<1> SUFFICES ASSUME AnyInv, [Next]_vars PROVE RingTypeOK'
  OBVIOUS
<1> USE DEF AnyInv, RingTypeOK
<1>1. CASE Start \/ Abort \/ SpuriousWake \/ PeekWritable \/ PeekAfterWait
  BY <1>1 DEF Start, Abort, SpuriousWake, PeekWritable, PeekAfterWait, Notified,
              UnchangedByPeek
<1>2. CASE Mark
  BY <1>2 DEF Mark
<1>3. CASE Complete
  BY <1>3 DEF Complete
<1>4. CASE PushIndex
  BY <1>4, SuccIsSlot DEF PushIndex
<1>5. CASE PushCount \/ Look
  BY <1>5 DEF PushCount, Look
<1>6. CASE Pop \/ Flush
  <2>1. Blank \in [marked : BOOLEAN, whole : BOOLEAN, frame : Nat]
    BY DEF Blank
  <2>2. /\ slots' \in [Slots -> [marked : BOOLEAN, whole : BOOLEAN, frame : Nat]]
        /\ rindex' \in Slots
    BY <1>6, <2>1, SuccIsSlot DEF Pop, Flush, PopFrame
  <2>3. /\ UNCHANGED <<windex, size, ppc, made>> /\ used' = used + 1
        /\ shown' \in BOOLEAN /\ cpc' \in {"idle", "counting"}
    BY <1>6 DEF Pop, Flush, PopFrame
  <2> QED
    BY <2>2, <2>3
<1>7. CASE PopCount
  BY <1>7 DEF PopCount, Notified
<1>8. CASE UNCHANGED vars
  BY <1>8 DEF vars
<1> QED
  BY <1>1, <1>2, <1>3, <1>4, <1>5, <1>6, <1>7, <1>8 DEF Next, Fill, Consume

(* Releasing a slot moves the read index and takes one frame away.           *)
LEMMA ReleaseStep ==
  ASSUME AnyInv, shown, Held >= 1, size > 0, PopFrame, cpc # "counting"
  PROVE  HeldInv' /\ MarkedInv'
<1>1. /\ slots' = [slots EXCEPT ![rindex] = Blank] /\ rindex' = Succ(rindex)
      /\ shown' = shown /\ cpc' = "counting" /\ used' = used + 1
      /\ UNCHANGED <<windex, size, aborted, ppc, made>>
  BY DEF PopFrame
<1>2. /\ rindex \in 0..(MaxSize - 1) /\ windex \in Int /\ size \in Nat
      /\ made \in Nat /\ used \in Nat
      /\ Kept = 1 /\ Kept' = 1 /\ Held \in Nat /\ InFlight \in {0, 1}
  BY <1>1 DEF AnyInv, RingTypeOK, HeldInv, Slots, Held, Kept, InFlight
<1>3. Held' = Held - 1 /\ InFlight' = InFlight /\ Coming' = Coming
  BY <1>1, <1>2 DEF Held, InFlight, Coming
<1>4. size = Held - Coming /\ Coming \in {0, 1}
  BY <1>2 DEF AnyInv, HeldInv, Leaving, Coming
<1>5. Turned \in Int /\ Turned % MaxSize = 0
  BY <1>2 DEF AnyInv, HeldInv, Turned
<1>6. Turned' % MaxSize = 0
  <2>1. rindex' = rindex + 1 \/ rindex' = rindex + 1 - MaxSize
    BY <1>1, <1>2, SuccIsSlot DEF Slots
  <2>2. Turned' \in {Turned, Turned + MaxSize}
    BY <1>1, <1>2, <1>3, <2>1 DEF Turned
  <2>3. Turned % MaxSize = 0 /\ (Turned + MaxSize) % MaxSize = 0
    BY <1>5, Turn
  <2>4. CASE Turned' = Turned
    BY <2>3, <2>4
  <2>5. CASE Turned' = Turned + MaxSize
    BY <2>3, <2>5
  <2> QED
    BY <2>2, <2>4, <2>5
<1>7. HeldInv'
  <2>1. Leaving' = 1 /\ Held' >= 0 /\ size' > 0
    BY <1>1, <1>2, <1>3 DEF Leaving
  <2>2. size' = Held' - Coming' + Leaving'
    BY <1>1, <1>2, <1>3, <1>4, <2>1
  <2> QED
    BY <1>6, <2>1, <2>2 DEF HeldInv
<1>8. ASSUME NEW i \in Slots, slots'[i].marked PROVE Offset(i)' < Held'
  <2>1. i # rindex /\ slots[i].marked
    BY <1>1, <1>8 DEF AnyInv, RingTypeOK, Blank
  <2>2. Offset(i) < Held
    BY <2>1 DEF AnyInv, MarkedInv
  <2>3. Offset(i)' = Offset(i) - 1 /\ Offset(i) \in Nat
    BY <1>1, <1>2, <2>1 DEF Offset, Succ, Slots
  <2> QED
    BY <1>2, <1>3, <2>2, <2>3
<1>9. MarkedInv'
  BY <1>1, <1>8 DEF MarkedInv
<1> QED
  BY <1>7, <1>9

(* The first popFrame() only keeps its frame.                                *)
LEMMA KeepStep ==
  ASSUME KeepLast, AnyInv, ~shown, PopFrame, cpc # "counting"
  PROVE  HeldInv' /\ MarkedInv'
<1>1. /\ shown' = TRUE /\ cpc' = "idle" /\ used' = used + 1
      /\ UNCHANGED <<slots, rindex, windex, size, aborted, ppc, made>>
  BY DEF PopFrame
<1>2. made \in Nat /\ used \in Nat
  BY DEF AnyInv, RingTypeOK
<1>3. Held' = Held /\ InFlight' = InFlight /\ Coming' = Coming
      /\ Leaving = 0 /\ Leaving' = 0
  BY <1>1, <1>2 DEF Held, Kept, InFlight, Coming, Leaving
<1>4. HeldInv'
  BY <1>1, <1>3 DEF AnyInv, HeldInv, Turned
<1>5. \A i \in Slots : Offset(i)' = Offset(i)
  BY <1>1 DEF Offset
<1> QED
  BY <1>1, <1>3, <1>4, <1>5 DEF AnyInv, MarkedInv

LEMMA AnyStep ==
  ASSUME KeepLast PROVE AnyInv /\ [Next]_vars => HeldInv' /\ MarkedInv'
<1> SUFFICES ASSUME AnyInv, [Next]_vars PROVE HeldInv' /\ MarkedInv'
  OBVIOUS
<1>1. /\ made \in Nat /\ used \in Nat /\ size \in Nat /\ Held \in Nat
      /\ rindex \in Slots /\ windex \in Slots /\ windex \in Int /\ rindex \in Int
  BY DEF AnyInv, RingTypeOK, HeldInv, Held, Kept, Slots
<1>2. ASSUME UNCHANGED <<slots, rindex, windex, size, shown, made, used>>,
             cpc' = cpc \/ (cpc' = "using" /\ cpc = "idle" /\ slots[Current].marked),
             Coming' = Coming, InFlight' = InFlight
      PROVE  HeldInv' /\ MarkedInv'
  <2>1. Held' = Held /\ Leaving' = Leaving /\ Current' = Current
    BY <1>2 DEF Held, Kept, Leaving, Current
  <2>2. \A i \in Slots : Offset(i)' = Offset(i)
    BY <1>2 DEF Offset
  <2>3. HeldInv'
    BY <1>2, <2>1 DEF AnyInv, HeldInv, Turned
  <2> QED
    BY <1>2, <2>1, <2>2, <2>3 DEF AnyInv, MarkedInv
<1>3. CASE Start \/ Abort \/ SpuriousWake \/ PeekWritable \/ PeekAfterWait
  <2>1. /\ UNCHANGED <<slots, rindex, windex, size, shown, cpc, made, used>>
        /\ Coming' = Coming /\ InFlight' = InFlight
    BY <1>3 DEF Start, Abort, SpuriousWake, PeekWritable, PeekAfterWait, Notified,
                UnchangedByPeek, Coming, InFlight
  <2> QED
    BY <1>2, <2>1
<1>4. CASE Mark
  <2>1. /\ ppc = "filling" /\ ppc' = "marked" /\ made' = made + 1
        /\ slots' = [slots EXCEPT ![windex] = [marked |-> TRUE, whole |-> FALSE,
                                               frame |-> made + 1]]
        /\ UNCHANGED <<rindex, windex, size, shown, cpc, used>>
    BY <1>4 DEF Mark
  <2>2. /\ Held' = Held + 1 /\ Coming = 0 /\ Coming' = 1 /\ InFlight = 0
        /\ InFlight' = 1 /\ Leaving' = Leaving /\ Current' = Current
    BY <1>1, <2>1 DEF Held, Kept, Coming, InFlight, Leaving, Current
  <2>3. Turned' = Turned
    BY <1>1, <2>1, <2>2 DEF Turned
  <2>7. HeldInv'
    <3>1. Leaving \in Int
      BY DEF Leaving
    <3> QED
      BY <1>1, <2>1, <2>2, <2>3, <3>1 DEF AnyInv, HeldInv
  <2>4. ASSUME NEW i \in Slots, slots'[i].marked PROVE Offset(i)' < Held'
    <3>1. Offset(i)' = Offset(i) /\ Offset(i) \in Int
      BY <1>1, <2>1 DEF Offset, Slots
    <3>2. CASE i = windex
      BY <1>1, <2>1, <2>2, <3>1, <3>2, FilledIsNext
    <3>3. CASE i # windex
      <4>1. slots[i].marked
        BY <2>1, <2>4, <3>3 DEF AnyInv, RingTypeOK
      <4>2. Offset(i) < Held
        BY <4>1 DEF AnyInv, MarkedInv
      <4> QED
        BY <1>1, <2>2, <3>1, <4>2
    <3> QED
      BY <3>2, <3>3
  <2>5. cpc' = "using" => slots'[Current'].marked
    <3>1. Current \in Slots
      BY <1>1, SuccIsSlot DEF Current
    <3>2. cpc = "using" => slots[Current].marked
      BY DEF AnyInv, MarkedInv
    <3> QED
      BY <2>1, <2>2, <3>1, <3>2 DEF AnyInv, RingTypeOK
  <2> QED
    BY <2>4, <2>5, <2>7 DEF MarkedInv
<1>5. CASE Complete
  <2>1. /\ ppc = "marked" /\ ppc' = "whole"
        /\ UNCHANGED <<rindex, windex, size, shown, cpc, made, used>>
    BY <1>5 DEF Complete
  <2>2. /\ Held' = Held /\ Coming' = Coming /\ InFlight' = InFlight
        /\ Leaving' = Leaving /\ Current' = Current
    BY <2>1 DEF Held, Kept, Coming, InFlight, Leaving, Current
  <2>3. \A i \in Slots : slots'[i].marked = slots[i].marked
    BY <1>5 DEF Complete, AnyInv, RingTypeOK
  <2>4. \A i \in Slots : Offset(i)' = Offset(i)
    BY <2>1 DEF Offset
  <2>5. Current \in Slots
    BY <1>1, SuccIsSlot DEF Current
  <2>6. HeldInv'
    BY <2>1, <2>2 DEF AnyInv, HeldInv, Turned
  <2> QED
    BY <2>1, <2>2, <2>3, <2>4, <2>5, <2>6 DEF AnyInv, MarkedInv
<1>6. CASE PushIndex
  <2>1. /\ ppc = "whole" /\ ppc' = "counting" /\ windex' = Succ(windex)
        /\ UNCHANGED <<slots, rindex, size, shown, cpc, made, used>>
    BY <1>6 DEF PushIndex
  <2>2. /\ Held' = Held /\ Coming' = Coming /\ InFlight = 1 /\ InFlight' = 0
        /\ Leaving' = Leaving /\ Current' = Current
    BY <2>1 DEF Held, Kept, Coming, InFlight, Leaving, Current
  <2>3. Turned \in Int /\ Turned % MaxSize = 0
    BY <1>1, <2>2 DEF AnyInv, HeldInv, Turned
  <2>4. Turned' % MaxSize = 0
    <3>1. Turned' \in {Turned, Turned - MaxSize}
      BY <1>1, <2>1, <2>2, SuccIsSlot DEF Turned
    <3>2. Turned % MaxSize = 0 /\ (Turned - MaxSize) % MaxSize = 0
      BY <2>3, Turn
    <3>3. CASE Turned' = Turned
      BY <3>2, <3>3
    <3>4. CASE Turned' = Turned - MaxSize
      BY <3>2, <3>4
    <3> QED
      BY <3>1, <3>3, <3>4
  <2>5. HeldInv'
    BY <2>1, <2>2, <2>4 DEF AnyInv, HeldInv
  <2>6. \A i \in Slots : Offset(i)' = Offset(i)
    BY <2>1 DEF Offset
  <2> QED
    BY <2>1, <2>2, <2>5, <2>6 DEF AnyInv, MarkedInv
<1>7. CASE PushCount
  <2>1. /\ ppc = "counting" /\ ppc' = "idle" /\ size' = size + 1
        /\ UNCHANGED <<slots, rindex, windex, shown, cpc, made, used>>
    BY <1>7 DEF PushCount
  <2>2. /\ Held' = Held /\ Coming = 1 /\ Coming' = 0 /\ InFlight' = InFlight
        /\ Leaving' = Leaving /\ Leaving \in Int /\ Current' = Current
    BY <2>1 DEF Held, Kept, Coming, InFlight, Leaving, Current
  <2>3. HeldInv'
    <3>1. size' = Held' - Coming' + Leaving' /\ Turned' = Turned
      BY <1>1, <2>1, <2>2 DEF AnyInv, HeldInv, Turned
    <3> QED
      BY <1>1, <2>1, <2>2, <3>1 DEF AnyInv, HeldInv
  <2>4. \A i \in Slots : Offset(i)' = Offset(i)
    BY <2>1 DEF Offset
  <2> QED
    BY <2>1, <2>2, <2>3, <2>4 DEF AnyInv, MarkedInv
<1>8. CASE Look
  BY <1>2, <1>8 DEF Look, Coming, InFlight
<1>9. CASE Pop
  <2>1. CASE shown
    <3>1. Held >= 2 /\ Coming \in {0, 1} /\ Leaving = 0
      BY <1>9, <2>1, PoppedIsHeld DEF Pop, Coming, Leaving
    <3>2. size > 0
      BY <1>1, <3>1 DEF AnyInv, HeldInv
    <3> QED
      BY <1>1, <1>9, <2>1, <3>1, <3>2, ReleaseStep DEF Pop
  <2> QED
    BY <1>9, <2>1, KeepStep DEF Pop
<1>10. CASE PopCount
  <2>1. /\ cpc = "counting" /\ cpc' = "idle" /\ ppc' = Notified
        /\ size' = IF size > 0 THEN size - 1 ELSE size
        /\ UNCHANGED <<slots, rindex, windex, shown, made, used>>
    BY <1>10 DEF PopCount
  <2>2. /\ Held' = Held /\ Coming' = Coming /\ InFlight' = InFlight
        /\ Leaving = 1 /\ Leaving' = 0
    BY <2>1 DEF Held, Kept, Coming, InFlight, Leaving, Notified
  <2>3. size' = size - 1
    BY <2>1 DEF AnyInv, HeldInv
  <2>4. HeldInv'
    <3>1. Coming \in Int
      BY DEF Coming
    <3>2. size' = Held' - Coming' + Leaving' /\ Turned' = Turned
      BY <1>1, <2>1, <2>2, <2>3, <3>1 DEF AnyInv, HeldInv, Turned
    <3> QED
      BY <2>1, <2>2, <3>2 DEF AnyInv, HeldInv
  <2>5. \A i \in Slots : Offset(i)' = Offset(i)
    BY <2>1 DEF Offset
  <2> QED
    BY <2>1, <2>2, <2>4, <2>5 DEF AnyInv, MarkedInv
<1>11. CASE Flush
  <2>1. cpc = "idle" /\ PopFrame /\ GetFrameSize > 0
    BY <1>11 DEF Flush
  <2>2. CASE shown
    <3>1. size > 1 /\ Coming \in {0, 1} /\ Leaving = 0
      BY <1>1, <2>1, <2>2 DEF GetFrameSize, Coming, Leaving
    <3>2. Held >= 1
      BY <1>1, <3>1 DEF AnyInv, HeldInv
    <3> QED
      BY <1>1, <2>1, <2>2, <3>1, <3>2, ReleaseStep
  <2> QED
    BY <2>1, <2>2, KeepStep
<1>12. CASE UNCHANGED vars
  BY <1>2, <1>12 DEF vars, Coming, InFlight
<1> QED
  BY <1>3, <1>4, <1>5, <1>6, <1>7, <1>8, <1>9, <1>10, <1>11, <1>12
     DEF Next, Fill, Consume

(* Whatever wakes the decoder, indexes and counter agree modulo the ring and *)
(* popFrame finds a count to take down, for any ring that keeps its last     *)
(* frame (FrameQueue.cpp:68, 78, 88).                                        *)
THEOREM AgreesWhateverWakes ==
  ASSUME KeepLast PROVE Spec => []IndexesAgree
<1>1. AnyInv => IndexesAgree
  <2> SUFFICES ASSUME AnyInv PROVE IndexesAgree
    OBVIOUS
  <2>1. Held \in Int /\ windex \in Int /\ rindex \in Int /\ InFlight \in {0, 1}
    BY DEF AnyInv, RingTypeOK, Held, Kept, Slots, InFlight
  <2>2. Occupied = Held - InFlight
    BY <2>1 DEF AnyInv, RingTypeOK, HeldInv, Occupied, Coming, Leaving, InFlight
  <2>3. Occupied - windex + rindex = -Turned /\ Turned \in Int
    BY <2>1, <2>2 DEF Turned
  <2>4. Turned % MaxSize = 0
    BY DEF AnyInv, HeldInv
  <2>5. (-Turned) % MaxSize = 0
    BY <2>3, <2>4, Turn
  <2> QED
    BY <2>3, <2>5 DEF AnyInv, HeldInv, IndexesAgree
<1>2. AnyInv /\ [Next]_vars => AnyInv'
  BY AnyTypeStep, AnyStep DEF AnyInv
<1> QED
  BY <1>1, <1>2, AnyInitial, PTL DEF Spec

(* Under every disturbance, and whether or not the ring keeps its last       *)
(* frame: a sleeping decoder has no room and no abort to see                 *)
(* (FrameQueue.cpp:59, 90, 104-118).                                         *)
THEOREM WaitsForRoom == Spec => []WaitJustified
<1>1. Init => WaitJustified
  BY DEF Init, WaitJustified
<1>2. WaitJustified /\ [Next]_vars => WaitJustified'
  <2> SUFFICES ASSUME WaitJustified, [Next]_vars, ppc' = "waiting"
               PROVE  size' >= MaxSize /\ ~aborted'
    BY DEF WaitJustified
  <2>1. CASE Start \/ Abort \/ SpuriousWake \/ PopCount
    BY <2>1 DEF Start, Abort, SpuriousWake, PopCount, Notified
  <2>2. CASE PeekWritable
    BY <2>2 DEF PeekWritable, UnchangedByPeek
  <2>3. CASE PeekAfterWait \/ Mark \/ Complete \/ PushIndex \/ PushCount
    BY <2>3 DEF PeekAfterWait, Mark, Complete, PushIndex, PushCount
  <2>4. CASE Look \/ Pop \/ Flush
    BY <2>4 DEF Look, Pop, Flush, PopFrame, WaitJustified
  <2>5. CASE UNCHANGED vars
    BY <2>5 DEF vars, WaitJustified
  <2>6. QED
    BY <2>1, <2>2, <2>3, <2>4, <2>5 DEF Next, Fill, Consume
<1>3. QED
  BY <1>1, <1>2, PTL DEF Spec

(* A consumer whose next slot is blank has used every frame made, and the    *)
(* decoder is not asleep: neither waits for the other for ever.              *)
DecoderServed ==
    cpc = "idle" /\ ~slots[Current].marked => used = made /\ ppc # "waiting"

(* The polling loop of MediaSync2.cpp:34-41 and 90-114 and the wait at       *)
(* FrameQueue.cpp:59 never starve each other, although the kept frame takes  *)
(* a slot of the ring.                                                       *)
THEOREM NeitherStarves ==
  ASSUME PlayerUse PROVE Spec => []DecoderServed
<1>1. IInv /\ WaitJustified => DecoderServed
  <2> SUFFICES ASSUME IInv, WaitJustified, cpc = "idle", ~slots[Current].marked
               PROVE  used = made /\ ppc # "waiting"
    BY DEF DecoderServed
  <2>1. /\ rindex \in Slots /\ made \in Nat /\ used \in Nat /\ size \in Nat
        /\ shown \in BOOLEAN
    BY DEF IInv, TypeOK
  <2>2. Current \in Slots /\ Offset(Current) = Kept /\ Kept \in {0, 1}
    BY <2>1 DEF Current, Succ, Offset, Kept, Slots
  <2>3. ~(Offset(Current) < made - used + Kept)
    BY <2>2 DEF IInv, SlotInv
  <2>4. used = made
    BY <2>1, <2>2, <2>3 DEF IInv, CountInv
  <2>5. ASSUME ppc = "waiting" PROVE FALSE
    <3>1. size >= MaxSize
      BY <2>5 DEF WaitJustified
    <3>2. Occupied = size
      BY <2>1, <2>5 DEF Occupied
    <3>3. Occupied = Kept
      BY <2>1, <2>2, <2>4, <2>5 DEF IInv, CountInv, InFlight
    <3> QED
      BY <2>1, <2>2, <3>1, <3>2, <3>3
  <2> QED
    BY <2>4, <2>5
<1> QED
  BY <1>1, Invariance, WaitsForRoom, PTL
=============================================================================

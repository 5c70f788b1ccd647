------------------------- MODULE AudioOutputProofs -------------------------
(* Proofs about AudioOutput for any number of starts and blocks and any      *)
(* bound of the list.                                                        *)
EXTENDS AudioOutput, Integers, TLAPS

(* Loops and devices exist once the start() that makes them got that far.    *)
Threading == \A k \in Starts : /\ sync[k] # "off" <=> k <= observers
                               /\ device[k] # "off" => k <= players

(* The loop that holds notify()'s mutex is the only one in update().         *)
Notifying == \A k \in Starts : sync[k] \in Updating <=> notifier = k

Carries(k) == sync[k] = "notify" \/ sync[k] \in Updating
Carrying  == \A k \in Starts :
                /\ Carries(k) => block[k] \in Blocks
                /\ sync[k] \in Updating => left[k] \in 1..observers
                /\ device[k] = "copy" => hand[k] \in Blocks

Stopping  == ui \in {"exiting", "emptied"} => isExit

Structure == TypeOK /\ Threading /\ Notifying /\ Carrying /\ Stopping

(* A loop is woken by a callback that has made room.                         *)
Room == ~spurious /\ ~isExit =>
            /\ Len(frames) <= MaxFrameBuffer + 1
            /\ \A k \in Starts : sync[k] = "woken" => Len(frames) <= MaxFrameBuffer

(* Registered once, the list's blocks are numbered through: those taken from *)
(* it, deleted or in the hand of one callback each, then those in the list,  *)
(* then the one in the loop's hand.                                          *)
Gone == made - Len(frames) - (IF Carries(1) THEN 1 ELSE 0)
Copies(d) == device[d] = "copy"
Numbering ==
    observers <= 1 =>
        /\ Gone >= 0
        /\ \A i \in 1..Len(frames) : frames[i] = Gone + i
        /\ Carries(1) => block[1] = made
        /\ freed \subseteq 1..Gone
        /\ \A d \in Starts : Copies(d) => hand[d] \in (1..Gone) \ freed
        /\ \A d, e \in Starts :
              Copies(d) /\ Copies(e) /\ hand[d] = hand[e] => d = e
        /\ fault # "freed"

(* With one start() the callback copies the block taken last, and one that   *)
(* was notified finds a block.                                               *)
Served == players <= 1 =>
            /\ Copies(1) => hand[1] = Gone
            /\ ~spurious => /\ device[1] = "woken" => frames # <<>> \/ isExit
                            /\ fault # "empty"

IInv == Structure /\ Room /\ Numbering /\ Served

LEMMA InitIInv == Init => IInv
  <1>. SUFFICES ASSUME Init PROVE IInv
    OBVIOUS
  <1>. USE BoundsAssumption DEF Init, Starts, Blocks
  <1>1. TypeOK
    <2>1. /\ sync \in [Starts -> Syncs] /\ device \in [Starts -> Devices]
      BY DEF Syncs, Devices
    <2>2. /\ block \in [Starts -> 0..MaxBlocks] /\ hand \in [Starts -> 0..MaxBlocks]
          /\ left \in [Starts -> 0..MaxStarts]
      OBVIOUS
    <2>3. frames \in Seq(Blocks)
      OBVIOUS
    <2>4. ui \in UIs /\ players = observers + (IF ui = "adding" THEN 1 ELSE 0)
      BY DEF UIs
    <2>5. /\ players \in 0..MaxStarts /\ observers \in 0..players
          /\ notifier \in 0..observers /\ made \in 0..MaxBlocks
      OBVIOUS
    <2>6. /\ pause \in BOOLEAN /\ abort \in BOOLEAN /\ isExit \in BOOLEAN
          /\ spurious \in BOOLEAN /\ freed \subseteq Blocks
          /\ fault \in {"none", "empty", "freed"}
      OBVIOUS
    <2>. QED
      BY <2>1, <2>2, <2>3, <2>4, <2>5, <2>6 DEF TypeOK
  <1>2. Threading /\ Notifying /\ Carrying /\ Stopping
    BY DEF Threading, Notifying, Carrying, Carries, Updating, Stopping
  <1>3. Room /\ Numbering /\ Served
    BY DEF Room, Numbering, Served, Gone, Carries, Copies, Updating
  <1>. QED
    BY <1>1, <1>2, <1>3 DEF IInv, Structure

-----------------------------------------------------------------------------
(* The UI thread.                                                            *)
LEMMA UIStructure == Structure /\ (Calls \/ Steps) => Structure'
  <1>. SUFFICES ASSUME Structure, Calls \/ Steps PROVE Structure'
    OBVIOUS
  <1>. USE BoundsAssumption DEF Structure, UnchangedByUI, Starts
  <1>1. CASE StartPlay
    <2>1. /\ players' = players + 1 /\ players' \in Starts
          /\ observers = players /\ observers' = observers
      BY <1>1 DEF StartPlay, TypeOK
    <2>2. device' \in [Starts -> Devices]
      BY <1>1 DEF StartPlay, TypeOK, Devices
    <2>3. TypeOK'
      <3>1. ui' \in UIs /\ players' = observers' + (IF ui' = "adding" THEN 1 ELSE 0)
        BY <1>1, <2>1 DEF StartPlay, TypeOK, UIs
      <3>2. /\ players' \in 0..MaxStarts /\ observers' \in 0..players'
            /\ notifier' \in 0..observers'
        BY <1>1, <2>1 DEF StartPlay, TypeOK
      <3>. QED
        BY <1>1, <2>2, <3>1, <3>2 DEF StartPlay, TypeOK
    <2>4. \A k \in Starts : device'[k] # "off" => k <= players'
      BY <1>1, <2>1 DEF StartPlay, TypeOK, Threading
    <2>5. \A k \in Starts : device'[k] = "copy" => device[k] = "copy"
      BY <1>1, <2>1 DEF StartPlay, TypeOK
    <2>. QED
      BY <1>1, <2>3, <2>4, <2>5 DEF StartPlay, Threading, Notifying, Carrying,
                                    Carries, Stopping
  <1>2. CASE AddObserver
    <2>1. TypeOK'
      <3>1. observers' \in Starts /\ observers' = observers + 1
        BY <1>2 DEF AddObserver, TypeOK
      <3>2. ui' = "idle" /\ players' = observers'
        BY <1>2 DEF AddObserver, TypeOK
      <3>. QED
        BY <1>2, <3>1, <3>2 DEF AddObserver, TypeOK, UIs, Syncs
    <2>2. Threading' /\ Notifying' /\ Carrying' /\ Stopping'
      BY <1>2 DEF AddObserver, TypeOK, Threading, Notifying, Carrying, Carries,
                  Stopping, Updating
    <2>. QED
      BY <2>1, <2>2
  <1>3. CASE Pause \/ Resume \/ Stop \/ StopExit
    BY <1>3 DEF Pause, Resume, Stop, StopExit, TypeOK, UIs, Threading, Notifying,
                Carrying, Carries, Stopping
  <1>4. CASE StopNotEmpty
    <2>1. TypeOK'
      BY <1>4 DEF StopNotEmpty, Woken, TypeOK, UIs, Devices
    <2>2. Threading' /\ Notifying' /\ Carrying' /\ Stopping'
      BY <1>4 DEF StopNotEmpty, Woken, TypeOK, Threading, Notifying, Carrying,
                  Carries, Stopping
    <2>. QED
      BY <2>1, <2>2
  <1>5. CASE StopNotFull
    <2>1. TypeOK'
      BY <1>5 DEF StopNotFull, Woken, TypeOK, UIs, Syncs, Updating
    <2>2. Threading' /\ Notifying' /\ Carrying' /\ Stopping'
      BY <1>5 DEF StopNotFull, Woken, TypeOK, Threading, Notifying, Carrying,
                  Carries, Stopping, Updating
    <2>. QED
      BY <2>1, <2>2
  <1>. QED
    BY <1>1, <1>2, <1>3, <1>4, <1>5 DEF Calls, Steps

LEMMA UIIInv == IInv /\ (Calls \/ Steps) => IInv'
  <1>. SUFFICES ASSUME IInv, Calls \/ Steps PROVE IInv'
    OBVIOUS
  <1>1. Structure'
    BY UIStructure DEF IInv
  <1>. USE BoundsAssumption DEF IInv, Structure, TypeOK, UnchangedByUI, Starts, Blocks
  <1>2. Room'
    <2>1. CASE StopNotFull
      BY <2>1 DEF StopNotFull, Stopping, Room
    <2>2. CASE AddObserver
      BY <2>2 DEF AddObserver, Room
    <2>3. CASE Calls \/ StopExit \/ StopNotEmpty
      BY <2>3 DEF Calls, StartPlay, Pause, Resume, Stop, StopExit, StopNotEmpty,
             Room
    <2>. QED
      BY <2>1, <2>2, <2>3 DEF Steps
  <1>. 1 \in Starts
    OBVIOUS
  <1>8. /\ players <= players' /\ observers <= observers'
        /\ players \in Nat /\ observers \in Nat
        /\ players' \in Nat /\ observers' \in Nat
    <2>1. /\ players' = players + 1 \/ players' = players
          /\ observers' = observers + 1 \/ observers' = observers
      BY DEF Calls, Steps, StartPlay, AddObserver, Pause, Resume, Stop, StopExit,
             StopNotEmpty, StopNotFull
    <2>2. players \in Nat /\ observers \in Nat
      OBVIOUS
    <2>. HIDE DEF IInv, Structure, TypeOK
    <2>3. players <= players' /\ players' \in Nat
      BY <2>1, <2>2
    <2>4. observers <= observers' /\ observers' \in Nat
      BY <2>1, <2>2
    <2>. QED
      BY <2>2, <2>3, <2>4
  <1>3. Carries(1)' <=> Carries(1)
    <2>1. CASE AddObserver
      <3>1. sync'[1] = IF observers' = 1 THEN "loop" ELSE sync[1]
        BY <2>1 DEF AddObserver
      <3>2. observers' = 1 => sync[1] = "off"
        BY <2>1 DEF AddObserver, Threading
      <3>. QED
        BY <3>1, <3>2 DEF Carries, Updating
    <2>2. CASE StopNotFull
      BY <2>2 DEF StopNotFull, Woken, Carries, Updating
    <2>3. CASE Calls \/ StopExit \/ StopNotEmpty
      BY <2>3 DEF Calls, StartPlay, Pause, Resume, Stop, StopExit, StopNotEmpty,
                  Carries
    <2>. QED
      BY <2>1, <2>2, <2>3 DEF Steps
  <1>4. \A d \in Starts : /\ Copies(d)' => Copies(d)
                          /\ device'[d] = "woken" => device[d] = "woken" \/ isExit'
    <2>. USE DEF Copies
    <2>1. CASE StartPlay
      <3>1. device' = device \/ device' = [device EXCEPT ![players'] = "playing"]
        BY <2>1 DEF StartPlay
      <3>. QED
        BY <3>1
    <2>2. CASE StopNotEmpty
      BY <2>2 DEF StopNotEmpty, Stopping, Woken
    <2>3. CASE AddObserver \/ Pause \/ Resume \/ Stop \/ StopExit \/ StopNotFull
      BY <2>3 DEF AddObserver, Pause, Resume, Stop, StopExit, StopNotFull
    <2>. QED
      BY <2>1, <2>2, <2>3 DEF Calls, Steps
  <1>5. UNCHANGED <<frames, made, block, hand, freed, spurious, fault>>
    BY DEF Calls, Steps, StartPlay, AddObserver, Pause, Resume, Stop, StopExit,
           StopNotEmpty, StopNotFull
  <1>9. Gone' = Gone
    BY <1>3, <1>5 DEF Gone
  <1>10. /\ players' <= 1 => players <= 1
         /\ observers' <= 1 => observers <= 1
    BY <1>8
  <1>6. Numbering'
    BY <1>3, <1>4, <1>5, <1>9, <1>10 DEF Numbering
  <1>7. Served'
    <2>1. isExit => isExit'
      BY DEF Calls, Steps, StartPlay, AddObserver, Pause, Resume, Stop, StopExit,
             StopNotEmpty, StopNotFull
    <2>. QED
      BY <1>4, <1>5, <1>9, <1>10, <2>1 DEF Served
  <1>. QED
    BY <1>1, <1>2, <1>6, <1>7 DEF IInv

-----------------------------------------------------------------------------
(* The audio loops.                                                          *)
LEMMA AppendedStructure ==
  ASSUME Structure, NEW k \in Starts, sync[k] \in {"update", "woken"},
         Appended(k), UNCHANGED made, UnchangedBySync
  PROVE  Structure'
  <1>. USE BoundsAssumption DEF Structure, UnchangedBySync, Starts, Blocks
  <1>1. /\ sync[k] \in Updating /\ notifier = k /\ notifier # 0
        /\ block[k] \in Blocks /\ left[k] \in 1..observers
    BY DEF Updating, Notifying, Carrying, Carries
  <1>2. frames' \in Seq(Blocks)
    BY <1>1 DEF Appended, TypeOK
  <1>7. /\ observers \in Nat /\ observers <= MaxStarts
        /\ left[k] \in Nat /\ left[k] >= 1 /\ left[k] <= observers
    <2>1. observers \in Nat /\ observers <= MaxStarts
      BY DEF TypeOK
    <2>. QED
      BY <1>1, <2>1
  <1>3. /\ left' \in [Starts -> 0..MaxStarts]
        /\ \A j \in Starts : left'[j] = IF j = k THEN left[k] - 1 ELSE left[j]
    <2>1. left[k] - 1 \in 0..MaxStarts
      BY <1>7
    <2>2. left' = [left EXCEPT ![k] = left[k] - 1]
      BY DEF Appended
    <2>. QED
      BY <2>1, <2>2 DEF TypeOK
  <1>4. device' \in [Starts -> Devices]
        /\ \A j \in Starts : (device'[j] = "copy" <=> device[j] = "copy")
                             /\ (device'[j] = "off" <=> device[j] = "off")
    BY DEF Appended, Woken, TypeOK, Devices
  <1>5. CASE left[k] > 1
    <2>1. sync' = [sync EXCEPT ![k] = "update"] /\ UNCHANGED <<notifier, block>>
      BY <1>5 DEF Appended, SyncTo
    <2>2. TypeOK'
      BY <1>2, <1>3, <1>4, <2>1 DEF TypeOK, Syncs, Updating
    <2>3. Threading' /\ Notifying'
      BY <1>1, <1>4, <2>1 DEF TypeOK, Threading, Notifying, Updating
    <2>4. Carrying'
      <3>1. left'[k] \in 1..observers
        BY <1>3, <1>5, <1>7
      <3>2. \A j \in Starts : Carries(j)' <=> Carries(j)
        BY <1>1, <2>1 DEF TypeOK, Carries, Updating
      <3>3. \A j \in Starts : sync'[j] \in Updating <=> sync[j] \in Updating
        BY <1>1, <2>1 DEF TypeOK, Updating
      <3>. QED
        BY <1>3, <1>4, <2>1, <3>1, <3>2, <3>3 DEF Carrying
    <2>. QED
      BY <2>2, <2>3, <2>4 DEF Stopping
  <1>6. CASE ~(left[k] > 1)
    <2>1. /\ sync' = [sync EXCEPT ![k] = "loop"] /\ notifier' = 0
          /\ block' = [block EXCEPT ![k] = 0]
      BY <1>6 DEF Appended, SyncTo
    <2>2. TypeOK'
      <3>1. /\ sync' \in [Starts -> Syncs] /\ notifier' \in 0..observers
            /\ block' \in [Starts -> 0..MaxBlocks]
        BY <2>1 DEF TypeOK, Syncs
      <3>. QED
        BY <1>2, <1>3, <1>4, <3>1 DEF TypeOK
    <2>3. Threading'
      BY <1>1, <1>4, <2>1 DEF TypeOK, Threading, Updating
    <2>4. Notifying'
      <3>1. \A j \in Starts : j # k => sync'[j] \notin Updating
        BY <1>1, <2>1 DEF TypeOK, Notifying
      <3>2. sync'[k] \notin Updating
        BY <2>1 DEF TypeOK, Updating
      <3>. QED
        BY <2>1, <3>1, <3>2 DEF Notifying
    <2>5. Carrying'
      BY <1>1, <1>3, <1>4, <2>1 DEF TypeOK, Carrying, Carries, Updating
    <2>. QED
      BY <2>2, <2>3, <2>4, <2>5 DEF Stopping
  <1>. QED
    BY <1>5, <1>6

LEMMA SyncStructure ==
  ASSUME Structure, NEW k \in Starts, Sync(k) PROVE Structure'
  <1>. USE BoundsAssumption DEF Structure, UnchangedBySync, Starts, Blocks, SyncTo
  <1>1. CASE SyncExit(k)
    BY <1>1 DEF SyncExit, TypeOK, Syncs, Threading, Notifying, Carrying, Carries,
                Stopping, Updating
  <1>2. CASE Resample(k)
    <2>1. made' \in Blocks /\ block' = [block EXCEPT ![k] = made']
      BY <1>2 DEF Resample, TypeOK
    <2>2. TypeOK'
      BY <1>2, <2>1 DEF Resample, TypeOK, Syncs
    <2>3. Threading' /\ Notifying' /\ Carrying' /\ Stopping'
      BY <1>2, <2>1 DEF Resample, TypeOK, Threading, Notifying, Carrying, Carries,
                        Stopping, Updating
    <2>. QED
      BY <2>2, <2>3
  <1>3. CASE Notify(k)
    <2>1. k <= observers /\ observers \in 1..MaxStarts
      BY <1>3 DEF Notify, TypeOK, Threading
    <2>2. sync[k] = "notify" /\ notifier = 0
      BY <1>3 DEF Notify
    <2>3. /\ notifier' = k /\ left' = [left EXCEPT ![k] = observers]
          /\ sync' = [sync EXCEPT ![k] = "update"]
          /\ UNCHANGED <<ui, pause, abort, isExit, players, observers, frames,
                         made, block, device, hand, freed, spurious, fault>>
      BY <1>3 DEF Notify
    <2>4. TypeOK'
      <3>1. sync' \in [Starts -> Syncs]
        BY <2>3 DEF TypeOK, Syncs, Updating
      <3>2. left' \in [Starts -> 0..MaxStarts]
        BY <2>1, <2>3 DEF TypeOK
      <3>3. notifier' \in 0..observers'
        BY <2>1, <2>3
      <3>. QED
        BY <2>3, <3>1, <3>2, <3>3 DEF TypeOK
    <2>5. Threading' /\ Notifying'
      <3>1. \A j \in Starts : j # k => sync'[j] = sync[j]
        BY <2>3 DEF TypeOK
      <3>2. sync'[k] = "update"
        BY <2>3 DEF TypeOK
      <3>3. \A j \in Starts : sync[j] \notin Updating
        BY <2>2 DEF Notifying
      <3>. QED
        BY <2>1, <2>2, <2>3, <3>1, <3>2, <3>3 DEF Threading, Notifying, Updating
    <2>6. Carrying'
      <3>1. \A j \in Starts : j # k => sync'[j] = sync[j] /\ left'[j] = left[j]
        BY <2>3 DEF TypeOK
      <3>2. left'[k] = observers /\ sync'[k] = "update" /\ block[k] \in Blocks
        BY <2>2, <2>3 DEF TypeOK, Carrying, Carries
      <3>. QED
        BY <2>1, <2>3, <3>1, <3>2 DEF Carrying, Carries
    <2>. QED
      BY <2>3, <2>4, <2>5, <2>6 DEF Stopping
  <1>4. CASE Update(k) \/ UpdateWoken(k)
    BY <1>4, AppendedStructure DEF Update, UpdateWoken
  <1>5. CASE UpdateFull(k) \/ UpdateWait(k)
    <2>1. PICK to \in {"full", "asleep"} : sync' = [sync EXCEPT ![k] = to]
      BY <1>5 DEF UpdateFull, UpdateWait
    <2>2. /\ sync[k] \in Updating
          /\ UNCHANGED <<ui, pause, abort, isExit, players, observers, notifier,
                         frames, made, block, left, device, hand, freed, spurious,
                         fault>>
      BY <1>5 DEF UpdateFull, UpdateWait, Updating
    <2>3. sync' \in [Starts -> Syncs]
      BY <2>1 DEF TypeOK, Syncs, Updating
    <2>4. TypeOK'
      BY <2>2, <2>3 DEF TypeOK
    <2>5. \A j \in Starts : /\ sync'[j] \in Updating <=> sync[j] \in Updating
                            /\ sync'[j] = "notify" <=> sync[j] = "notify"
                            /\ sync'[j] = "off" <=> sync[j] = "off"
      BY <2>1, <2>2 DEF TypeOK, Updating
    <2>. QED
      BY <2>2, <2>4, <2>5 DEF Threading, Notifying, Carrying, Carries, Stopping
  <1>. QED
    BY <1>1, <1>2, <1>3, <1>4, <1>5 DEF Sync

LEMMA SyncIInv ==
  ASSUME IInv, fault = "none", NEW k \in Starts, Sync(k) PROVE IInv'
  <1>. USE BoundsAssumption DEF IInv, Structure, TypeOK, UnchangedBySync, Starts,
                                Blocks, SyncTo
  <1>1. Structure'
    BY SyncStructure
  <1>2. CASE SyncExit(k) \/ Resample(k) \/ Notify(k) \/ UpdateFull(k) \/ UpdateWait(k)
    <2>1. /\ UNCHANGED <<frames, device, hand, freed, spurious, isExit, players,
                         observers, fault>>
          /\ sync'[k] # "woken"
          /\ \A j \in Starts : j # k => sync'[j] = sync[j]
      BY <1>2 DEF SyncExit, Resample, Notify, UpdateFull, UpdateWait
    <2>2. Room'
      BY <2>1 DEF Room
    <2>3. observers <= 1 => k = 1
      BY <1>2 DEF SyncExit, Resample, Notify, UpdateFull, UpdateWait, Threading
    <2>4. ASSUME observers <= 1
          PROVE  Gone' = Gone /\ (Carries(1)' => block'[1] = made')
      <3>1. CASE Resample(k)
        <4>1. /\ ~Carries(1) /\ Carries(1)' /\ made' = made + 1
              /\ block'[1] = made'
          BY <2>3, <2>4, <3>1 DEF Resample, Carries, Updating
        <4>2. Len(frames) \in Nat
          OBVIOUS
        <4>. QED
          BY <2>1, <4>1, <4>2 DEF Gone
      <3>2. CASE ~Resample(k)
        <4>1. UNCHANGED <<made, block>> /\ (Carries(k)' <=> Carries(k))
          BY <1>2, <3>2 DEF SyncExit, Notify, UpdateFull, UpdateWait, Carries,
                 Updating
        <4>. QED
          BY <2>1, <2>3, <2>4, <4>1 DEF Numbering, Gone
      <3>. QED
        BY <3>1, <3>2
    <2>5. Numbering'
      BY <2>1, <2>4 DEF Numbering, Copies
    <2>6. Served'
      BY <2>1, <2>4 DEF Served, Copies
    <2>. QED
      BY <1>1, <2>2, <2>5, <2>6
  <1>3. CASE Update(k) \/ UpdateWoken(k)
    <2>1. /\ sync[k] \in Updating /\ Appended(k)
          /\ UNCHANGED <<made, hand, freed, spurious, isExit, players, observers, fault>>
      BY <1>3 DEF Update, UpdateWoken, Updating
    <2>2. frames' = Append(frames, block[k]) /\ Len(frames') = Len(frames) + 1
      BY <2>1 DEF Appended, Carrying, Carries
    <2>3. Room'
      <3>1. ~spurious /\ ~isExit => Len(frames) <= MaxFrameBuffer
        BY <1>3 DEF Update, UpdateWoken, Room
      <3>2. \A j \in Starts : sync'[j] # "woken"
        <4>1. notifier = k
          BY <2>1 DEF Notifying
        <4>2. \A j \in Starts : j # k => sync[j] # "woken"
          BY <4>1 DEF Notifying, Updating
        <4>3. \A j \in Starts : j # k => sync'[j] = sync[j]
          BY <2>1 DEF Appended
        <4>4. sync'[k] \in {"update", "loop"}
          BY <2>1 DEF Appended
        <4>. QED
          BY <4>2, <4>3, <4>4
      <3>. QED
        BY <2>1, <2>2, <3>1, <3>2 DEF Room
    <2>4. ASSUME observers <= 1 PROVE Gone' = Gone /\ ~Carries(1)'
      <3>1. k = 1 /\ left[1] = 1 /\ Carries(1)
        BY <2>1, <2>4 DEF Threading, Carrying, Carries, Updating
      <3>2. ~Carries(1)'
        BY <2>1, <3>1 DEF Appended, Carries, Updating
      <3>. QED
        BY <2>1, <2>2, <3>1, <3>2 DEF Gone
    <2>5. \A d \in Starts : Copies(d)' <=> Copies(d)
      BY <2>1 DEF Appended, Woken, Copies
    <2>6. Served'
      <3>1. Len(frames') # 0
        BY <2>2
      <3>. QED
        BY <2>1, <2>4, <2>5, <3>1 DEF Served
    <2>7. Numbering'
      <3>. SUFFICES ASSUME observers <= 1 PROVE Numbering'
        BY <2>1 DEF Numbering
      <3>1. k = 1 /\ left[1] = 1 /\ Carries(1)
        BY <2>1 DEF Threading, Carrying, Carries, Updating
      <3>2. Gone' = Gone /\ ~Carries(1)'
        BY <2>4
      <3>4. block[1] = Gone + Len(frames')
        BY <2>2, <3>1 DEF Gone, Numbering
      <3>5. \A i \in 1..Len(frames') : frames'[i] = Gone + i
        <4>1. ASSUME NEW i \in 1..Len(frames') PROVE frames'[i] = Gone + i
          <5>1. CASE i = Len(frames')
            BY <2>2, <3>1, <3>4, <5>1
          <5>2. CASE i # Len(frames')
            <6>1. i \in 1..Len(frames)
              <7>1. Len(frames') = Len(frames) + 1 /\ Len(frames) \in Nat
                BY <2>2
              <7>. QED
                BY <5>2, <7>1
            <6>2. frames'[i] = frames[i]
              BY <2>2, <6>1
            <6>. QED
              BY <6>1, <6>2 DEF Numbering
          <5>. QED
            BY <5>1, <5>2
        <4>. QED
          BY <4>1
      <3>. QED
        BY <2>1, <2>5, <3>2, <3>5 DEF Numbering
    <2>. QED
      BY <1>1, <2>3, <2>6, <2>7
  <1>. QED
    BY <1>2, <1>3 DEF Sync

-----------------------------------------------------------------------------
(* The callbacks.                                                            *)
LEMMA HeadAndTail ==
  ASSUME NEW S, NEW s \in Seq(S), s # <<>>
  PROVE  Head(s) \in S /\ Tail(s) \in Seq(S)
  OBVIOUS

LEMMA DeviceStructure ==
  ASSUME Structure, NEW d \in Starts, Device(d) PROVE Structure'
  <1>. USE BoundsAssumption DEF Structure, UnchangedByDevice, Starts, Blocks, DeviceTo
  <1>1. CASE \/ Callback(d) \/ CallbackWakes(d) \/ GetEmpty(d) \/ GetWait(d)
             \/ GetNothing(d) \/ TakeMissing(d) \/ PlayFreed(d)
    <2>1. UNCHANGED <<ui, pause, abort, isExit, players, observers, notifier,
                      frames, made, sync, block, left, hand, freed, spurious>>
      BY <1>1 DEF Callback, CallbackWakes, GetEmpty, GetWait, GetNothing,
             TakeMissing, PlayFreed
    <2>2. fault' \in {"none", "empty", "freed"}
      BY <1>1 DEF Callback, CallbackWakes, GetEmpty, GetWait, GetNothing,
             TakeMissing, PlayFreed, TypeOK
    <2>3. \/ device' = device
          \/ /\ device[d] # "off"
             /\ \E to \in {"ended", "nap", "get", "empty", "asleep"} :
                   device' = [device EXCEPT ![d] = to]
      BY <1>1 DEF Callback, CallbackWakes, GetEmpty, GetWait, GetNothing,
             TakeMissing, PlayFreed, MayTake
    <2>4. device' \in [Starts -> Devices]
      BY <2>3 DEF TypeOK, Devices
    <2>5. \A j \in Starts : /\ device'[j] # "off" => device[j] # "off"
                            /\ device'[j] = "copy" => device[j] = "copy"
      BY <2>3 DEF TypeOK
    <2>6. TypeOK'
      BY <2>1, <2>2, <2>4 DEF TypeOK
    <2>. QED
      BY <2>1, <2>5, <2>6 DEF Threading, Notifying, Carrying, Carries, Stopping
  <1>2. CASE Take(d)
    <2>1. /\ Head(frames) \in Blocks /\ Tail(frames) \in Seq(Blocks)
          /\ device[d] # "off"
      <3>1. frames \in Seq(Blocks) /\ frames # <<>>
        BY <1>2 DEF Take, TypeOK
      <3>2. Head(frames) \in Blocks /\ Tail(frames) \in Seq(Blocks)
        BY <3>1, HeadAndTail
      <3>. QED
        BY <1>2, <3>2 DEF Take, MayTake
    <2>2. sync' \in [Starts -> Syncs]
      BY <1>2 DEF Take, Woken, TypeOK, Syncs, Updating
    <2>3. TypeOK'
      <3>1. device' \in [Starts -> Devices]
        BY <1>2 DEF Take, TypeOK, Devices
      <3>2. hand' \in [Starts -> 0..MaxBlocks]
        <4>1. hand' = [hand EXCEPT ![d] = Head(frames)]
          BY <1>2 DEF Take
        <4>2. Head(frames) \in 0..MaxBlocks
          BY <2>1
        <4>. QED
          BY <4>1, <4>2 DEF TypeOK
      <3>3. frames' \in Seq(Blocks)
        BY <1>2, <2>1 DEF Take
      <3>4. UNCHANGED <<ui, pause, abort, isExit, players, observers, notifier,
                        made, block, left, freed, spurious, fault>>
        BY <1>2 DEF Take
      <3>. QED
        BY <2>2, <3>1, <3>2, <3>3, <3>4 DEF TypeOK
    <2>4. \A j \in Starts : /\ sync'[j] \in Updating <=> sync[j] \in Updating
                            /\ sync'[j] = "notify" <=> sync[j] = "notify"
                            /\ sync'[j] = "off" <=> sync[j] = "off"
      BY <1>2 DEF Take, Woken, Updating
    <2>5. \A j \in Starts : /\ device'[j] # "off" => device[j] # "off"
                            /\ device'[j] = "copy" => hand'[j] \in Blocks
      BY <1>2, <2>1 DEF Take, TypeOK, Carrying
    <2>. QED
      BY <1>2, <2>3, <2>4, <2>5 DEF Take, Threading, Notifying, Carrying, Carries,
                                    Stopping
  <1>3. CASE Play(d)
    <2>1. hand[d] \in Blocks
      BY <1>3 DEF Play, Carrying
    <2>2. TypeOK'
      <3>1. /\ device' \in [Starts -> Devices] /\ hand' \in [Starts -> 0..MaxBlocks]
        BY <1>3 DEF Play, TypeOK, Devices
      <3>3. freed' \subseteq Blocks
        BY <1>3, <2>1 DEF Play, TypeOK
      <3>2. UNCHANGED <<ui, pause, abort, isExit, players, observers, notifier,
                        frames, made, sync, block, left, spurious, fault>>
        BY <1>3 DEF Play
      <3>. QED
        BY <3>1, <3>2, <3>3 DEF TypeOK
    <2>3. \A j \in Starts : /\ device'[j] # "off" => device[j] # "off"
                            /\ device'[j] = "copy" => hand'[j] \in Blocks
      BY <1>3 DEF Play, TypeOK, Carrying
    <2>. QED
      BY <1>3, <2>2, <2>3 DEF Play, Threading, Notifying, Carrying, Carries,
             Stopping
  <1>. QED
    BY <1>1, <1>2, <1>3 DEF Device

LEMMA DeviceIInv ==
  ASSUME IInv, fault = "none", NEW d \in Starts, Device(d) PROVE IInv'
  <1>. USE BoundsAssumption DEF IInv, Structure, TypeOK, UnchangedByDevice, Starts,
                                Blocks, DeviceTo
  <1>1. Structure'
    BY DeviceStructure
  <1>2. device[d] # "off" /\ (players <= 1 => d = 1)
    <2>1. device[d] # "off"
      BY DEF Device, Callback, CallbackWakes, GetEmpty, GetWait, GetNothing,
             TakeMissing, Take, Play, PlayFreed, MayTake
    <2>2. d <= players
      BY <2>1 DEF Threading
    <2>. QED
      BY <2>1, <2>2
  <1>3. CASE \/ Callback(d) \/ CallbackWakes(d) \/ GetEmpty(d) \/ GetWait(d)
             \/ GetNothing(d)
    <2>1. /\ UNCHANGED <<frames, made, sync, block, hand, freed, spurious, isExit,
                         players, observers, fault>>
          /\ device'[d] \notin {"copy", "woken"}
          /\ \A j \in Starts : j # d => device'[j] = device[j]
      BY <1>3 DEF Callback, CallbackWakes, GetEmpty, GetWait, GetNothing
    <2>. QED
      BY <1>1, <1>2, <2>1 DEF Room, Numbering, Gone, Carries, Copies, Served
  <1>4. CASE TakeMissing(d)
    <2>1. ~(~spurious /\ players <= 1)
      BY <1>2, <1>4 DEF TakeMissing, MayTake, Served
    <2>. QED
      BY <1>1, <1>4, <2>1 DEF TakeMissing, Room, Numbering, Gone, Carries, Copies,
             Served
  <1>5. CASE PlayFreed(d)
    <2>1. ~(observers <= 1) /\ ~(players <= 1)
      BY <1>2, <1>5 DEF PlayFreed, Numbering, Copies
    <2>. QED
      BY <1>1, <1>5, <2>1 DEF PlayFreed, Room, Numbering, Gone, Carries, Served
  <1>6. CASE Take(d)
    <2>1. /\ frames # <<>> /\ frames' = Tail(frames)
          /\ device'[d] = "copy" /\ hand'[d] = Head(frames)
          /\ UNCHANGED <<made, block, freed, spurious, isExit, players, observers,
                         fault>>
          /\ \A e \in Starts : e # d => device'[e] = device[e] /\ hand'[e] = hand[e]
      BY <1>6 DEF Take
    <2>2. /\ Len(frames') = Len(frames) - 1 /\ Len(frames) >= 1
          /\ \A i \in 1..Len(frames') : frames'[i] = frames[i + 1]
          /\ Head(frames) = frames[1]
      BY <2>1
    <2>3. Room'
      BY <2>1, <2>2 DEF Room
    <2>4. ASSUME observers <= 1
          PROVE  /\ Carries(1)' <=> Carries(1)
                 /\ Gone' = Gone + 1 /\ Gone \in Nat
                 /\ hand'[d] = Gone'
      <3>1. Carries(1)' <=> Carries(1)
        BY <1>6 DEF Take, Woken, Carries, Updating
      <3>2. Len(frames) \in Nat /\ Len(frames') \in Nat /\ made' = made
        BY <2>1, <2>2
      <3>3. Gone' = Gone + 1
        BY <2>2, <3>1, <3>2 DEF Gone
      <3>4. Gone \in Nat
        BY <2>4, <3>2 DEF Gone, Numbering
      <3>5. frames[1] = Gone + 1
        BY <2>2, <2>4, <3>2 DEF Numbering
      <3>. QED
        BY <2>1, <2>2, <3>1, <3>3, <3>4, <3>5
    <2>5. Served'
      BY <1>2, <2>1, <2>4 DEF Served
    <2>6. Numbering'
      <3>. SUFFICES ASSUME observers <= 1 PROVE Numbering'
        BY <2>1 DEF Numbering
      <3>1. Gone' = Gone + 1 /\ Gone \in Nat /\ hand'[d] = Gone'
        BY <2>4
      <3>2. freed' \subseteq 1..Gone' /\ Gone' \notin freed'
        BY <2>1, <3>1 DEF Numbering
      <3>3. \A e \in Starts : e # d /\ Copies(e)' =>
                Copies(e) /\ hand'[e] \in (1..Gone) \ freed'
        BY <2>1 DEF Numbering, Copies
      <3>4. \A e \in Starts : Copies(e)' => hand'[e] \in (1..Gone') \ freed'
        <4>1. hand'[d] \in (1..Gone') \ freed'
          BY <3>1, <3>2
        <4>2. 1..Gone \subseteq 1..Gone'
          BY <3>1
        <4>. QED
          BY <3>3, <4>1, <4>2
      <3>5. \A e, f \in Starts :
                Copies(e)' /\ Copies(f)' /\ hand'[e] = hand'[f] => e = f
        <4>. SUFFICES ASSUME NEW e \in Starts, NEW f \in Starts, Copies(e)',
                             Copies(f)', hand'[e] = hand'[f]
                      PROVE  e = f
          OBVIOUS
        <4>0. hand'[d] \notin 1..Gone
          BY <3>1
        <4>1. CASE e = d \/ f = d
          BY <3>3, <4>0, <4>1
        <4>2. CASE e # d /\ f # d
          BY <2>1, <3>3, <4>2 DEF Numbering
        <4>. QED
          BY <4>1, <4>2
      <3>6. \A i \in 1..Len(frames') : frames'[i] = Gone' + i
        <4>. SUFFICES ASSUME NEW i \in 1..Len(frames') PROVE frames'[i] = Gone' + i
          OBVIOUS
        <4>1. i + 1 \in 1..Len(frames)
          BY <2>2
        <4>2. frames[i + 1] = Gone + (i + 1)
          BY <4>1 DEF Numbering
        <4>. QED
          BY <2>2, <3>1, <4>2
      <3>7. Gone' >= 0
        BY <3>1
      <3>8. Carries(1)' => block'[1] = made'
        BY <2>1, <2>4 DEF Numbering
      <3>9. fault' # "freed"
        BY <2>1 DEF Numbering
      <3>. QED
        BY <3>2, <3>4, <3>5, <3>6, <3>7, <3>8, <3>9 DEF Numbering
    <2>. QED
      BY <1>1, <2>3, <2>5, <2>6
  <1>7. CASE Play(d)
    <2>1. /\ UNCHANGED <<frames, made, sync, block, spurious, isExit, players,
                         observers, fault>>
          /\ device[d] = "copy" /\ device'[d] = "playing"
          /\ freed' = freed \cup {hand[d]}
          /\ \A e \in Starts : e # d => device'[e] = device[e] /\ hand'[e] = hand[e]
      BY <1>7 DEF Play
    <2>2. Gone' = Gone /\ (Carries(1)' <=> Carries(1))
      BY <2>1 DEF Gone, Carries
    <2>3. Room' /\ Served'
      BY <1>2, <2>1, <2>2 DEF Room, Served, Copies
    <2>4. Numbering'
      <3>. SUFFICES ASSUME observers <= 1 PROVE Numbering'
        BY <2>1 DEF Numbering
      <3>1. hand[d] \in (1..Gone) \ freed
        BY <2>1 DEF Numbering, Copies
      <3>2. freed' \subseteq 1..Gone'
        BY <2>1, <2>2, <3>1 DEF Numbering
      <3>3. \A e \in Starts : Copies(e)' =>
                e # d /\ Copies(e) /\ hand'[e] = hand[e] /\ hand[e] # hand[d]
        BY <2>1 DEF Numbering, Copies
      <3>4. \A e \in Starts : Copies(e)' => hand'[e] \in (1..Gone') \ freed'
        BY <2>1, <2>2, <3>3 DEF Numbering
      <3>5. \A e, f \in Starts :
                Copies(e)' /\ Copies(f)' /\ hand'[e] = hand'[f] => e = f
        BY <3>3 DEF Numbering
      <3>. QED
        BY <2>1, <2>2, <3>2, <3>4, <3>5 DEF Numbering
    <2>. QED
      BY <1>1, <2>3, <2>4
  <1>. QED
    BY <1>3, <1>4, <1>5, <1>6, <1>7 DEF Device

-----------------------------------------------------------------------------
(* After a spurious wakeup only the structure and the numbering are left.    *)
LEMMA SpuriousIInv == IInv /\ SpuriousWake => IInv'
  <1>. SUFFICES ASSUME IInv, SpuriousWake PROVE IInv'
    OBVIOUS
  <1>. USE BoundsAssumption DEF IInv, Structure, Starts, Blocks
  <1>1. /\ spurious' = TRUE
        /\ UNCHANGED <<ui, pause, abort, isExit, players, observers, notifier,
                       frames, made, block, left, hand, freed, fault>>
    BY DEF SpuriousWake
  <1>2. PICK k \in Starts :
          \/ sync[k] = "asleep" /\ sync' = [sync EXCEPT ![k] = "woken"] /\ device' = device
          \/ device[k] = "asleep" /\ device' = [device EXCEPT ![k] = "woken"] /\ sync' = sync
    BY DEF SpuriousWake, SyncTo, DeviceTo
  <1>3. sync' \in [Starts -> Syncs] /\ device' \in [Starts -> Devices]
    BY <1>2 DEF TypeOK, Syncs, Devices, Updating
  <1>4. TypeOK'
    BY <1>1, <1>3 DEF TypeOK
  <1>5. \A j \in Starts : /\ sync'[j] \in Updating <=> sync[j] \in Updating
                          /\ sync'[j] = "notify" <=> sync[j] = "notify"
                          /\ sync'[j] = "off" <=> sync[j] = "off"
                          /\ device'[j] = "off" <=> device[j] = "off"
                          /\ device'[j] = "copy" <=> device[j] = "copy"
    BY <1>2 DEF TypeOK, Updating
  <1>6. Threading' /\ Notifying' /\ Carrying' /\ Stopping'
    BY <1>1, <1>5 DEF Threading, Notifying, Carrying, Carries, Stopping
  <1>7. 1 \in Starts /\ (Carries(1)' <=> Carries(1))
    BY <1>5 DEF Carries
  <1>8. Room' /\ Numbering' /\ Served'
    BY <1>1, <1>5, <1>7 DEF Room, Numbering, Served, Copies, Gone
  <1>. QED
    BY <1>4, <1>6, <1>8

LEMMA StutterIInv == IInv /\ UNCHANGED vars => IInv'
  BY DEF vars, IInv, Structure, TypeOK, Threading, Notifying, Carrying, Carries,
         Stopping, Room, Numbering, Gone, Copies, Served

THEOREM Invariance == Spec => []IInv
  <1>1. IInv /\ [Next]_vars => IInv'
    <2>. SUFFICES ASSUME IInv, Next PROVE IInv'
      BY StutterIInv
    <2>1. CASE Calls \/ Steps
      BY <2>1, UIIInv
    <2>2. CASE SpuriousWake
      BY <2>2, SpuriousIInv
    <2>3. CASE \E k \in Starts : Sync(k) \/ Device(k)
      BY <2>3, SyncIInv, DeviceIInv DEF Next
    <2>. QED
      BY <2>1, <2>2, <2>3 DEF Next
  <1>. QED
    BY InitIInv, <1>1, PTL DEF Spec

(* The variables keep their types: in particular notify() never runs past    *)
(* the observers and only a call of start() lets a loop of its own run.      *)
THEOREM TypeCorrect == Spec => []TypeOK
  <1>1. IInv => TypeOK
    BY DEF IInv, Structure
  <1>. QED
    BY Invariance, <1>1, PTL

(* Until stop() or a spurious wakeup the list exceeds maxFrameBuffer by one  *)
(* at most, however many loops update it (IAudioPlay.cpp:41-44).             *)
THEOREM ListIsBounded == Spec => []ListBounded
  <1>1. IInv => ListBounded
    BY DEF IInv, Room, ListBounded
  <1>. QED
    BY Invariance, <1>1, PTL

(* An empty list is taken from only after a spurious wakeup or with a second *)
(* device, a block deleted twice only if IAudioPlay is registered twice      *)
(* (IAudioPlay.cpp:15-21, MediaPlayer.cpp:42, SLAudioPlay.cpp:129-135).      *)
THEOREM FaultsExplained == Spec => []FaultsHaveCauses
  <1>1. IInv => FaultsHaveCauses
    BY DEF IInv, Structure, TypeOK, Numbering, Served, FaultsHaveCauses
  <1>. QED
    BY Invariance, <1>1, PTL

-----------------------------------------------------------------------------
(* Where every thread stands when none can take a step: the guards of the    *)
(* actions, denied one by one.                                               *)
SyncStuck(k) ==
    \/ sync[k] \in {"off", "exited", "asleep"}
    \/ sync[k] = "loop" /\ ~abort /\ (pause \/ made = MaxBlocks)
    \/ sync[k] = "notify" /\ notifier # 0
    \/ sync[k] \in {"update", "woken"} /\ ~Free

DeviceStuck(d) ==
    \/ device[d] \in {"off", "ended", "asleep"}
    \/ device[d] = "nap" /\ ~abort /\ pause
    \/ device[d] \in {"get", "woken"} /\ ~Free

CallStuck == ui = "idle" \/ (ui = "adding" /\ notifier # 0)

Stuck == /\ fault = "none" /\ CallStuck
         /\ \A k \in Starts : SyncStuck(k) /\ DeviceStuck(k)

(* When nothing moves, no call of start() is caught in addObserver(), unless *)
(* the player is paused or stopped or has no device.                         *)
StartNotStuck == Stuck /\ ui = "adding" => Obstructed

(* When nothing moves and nobody has interfered, every block that was made   *)
(* has been played.                                                          *)
PlayedWhenStuck == Stuck /\ LeftAlone => freed = 1..made

(* Who sleeps, or is about to, has reason to: a loop sleeps on a list that   *)
(* is too long, a callback on an empty one.                                  *)
SleepersJustified ==
    \A k \in Starts :
        /\ sync[k] \in {"full", "asleep"} => Len(frames) > MaxFrameBuffer
        /\ device[k] \in {"empty", "asleep"} => frames = <<>>

(* Loops and callbacks end after stop() only.                                *)
EndsAfterStop ==
    /\ isExit \/ ui \in {"aborting", "exiting", "emptied"} => abort
    /\ \A k \in Starts : sync[k] = "exited" \/ device[k] = "ended" => abort

(* With one start() every block that left the list is played, but for the    *)
(* one in the callback's hand.                                               *)
Done == IF device[1] = "copy" THEN Gone - 1 ELSE Gone
AllPlayed == players <= 1 => /\ freed = 1..Done
                             /\ observers = 0 => made = 0

LEMMA SleepersStep ==
  TypeOK /\ SleepersJustified /\ [Next]_vars => SleepersJustified'
  <1>. SUFFICES ASSUME TypeOK, SleepersJustified, [Next]_vars
                PROVE  SleepersJustified'
    OBVIOUS
  <1>0. Len(frames) \in Nat /\ MaxFrameBuffer \in Nat
    BY BoundsAssumption DEF TypeOK
  <1>1. CASE Calls \/ Steps
    <2>1. frames' = frames
      BY <1>1 DEF Calls, Steps, StartPlay, AddObserver, Pause, Resume, Stop,
                  StopExit, StopNotEmpty, StopNotFull, UnchangedByUI
    <2>2. \A k \in Starts : sync'[k] \in {"full", "asleep"} => sync'[k] = sync[k]
      BY <1>1 DEF Calls, Steps, StartPlay, AddObserver, Pause, Resume, Stop,
                  StopExit, StopNotEmpty, StopNotFull, Woken, TypeOK
    <2>3. \A k \in Starts : device'[k] \in {"empty", "asleep"}
                              => device'[k] = device[k]
      BY <1>1 DEF Calls, Steps, StartPlay, AddObserver, Pause, Resume, Stop,
                  StopExit, StopNotEmpty, StopNotFull, Woken, TypeOK
    <2>. QED
      BY <2>1, <2>2, <2>3 DEF SleepersJustified
  <1>2. CASE SpuriousWake
    BY <1>2 DEF SpuriousWake, SyncTo, DeviceTo, TypeOK, SleepersJustified
  <1>3. ASSUME NEW k \in Starts,
               SyncExit(k) \/ Resample(k) \/ Notify(k) \/ UpdateFull(k) \/ UpdateWait(k)
        PROVE  SleepersJustified'
    <2>1. UNCHANGED <<frames, device>>
      BY <1>3 DEF SyncExit, Resample, Notify, UpdateFull, UpdateWait,
             UnchangedBySync
    <2>2. \A j \in Starts : j # k => sync'[j] = sync[j]
      BY <1>3 DEF SyncExit, Resample, Notify, UpdateFull, UpdateWait, SyncTo, TypeOK
    <2>3. sync'[k] \in {"full", "asleep"}
            => Len(frames) > MaxFrameBuffer \/ sync[k] = "full"
      BY <1>3 DEF SyncExit, Resample, Notify, UpdateFull, UpdateWait, SyncTo, TypeOK
    <2>. QED
      BY <2>1, <2>2, <2>3 DEF SleepersJustified
  <1>4. ASSUME NEW k \in Starts, Update(k) \/ UpdateWoken(k)
        PROVE  SleepersJustified'
    <2>1. Appended(k) /\ Free
      BY <1>4 DEF Update, UpdateWoken
    <2>2. Len(frames') = Len(frames) + 1
      BY <2>1 DEF Appended, TypeOK
    <2>3. \A j \in Starts : device'[j] \notin {"empty", "asleep"}
      BY <2>1 DEF Appended, Woken, Free
    <2>4. \A j \in Starts : sync'[j] \in {"full", "asleep"} => sync'[j] = sync[j]
      BY <2>1 DEF Appended, SyncTo, TypeOK
    <2>. QED
      BY <1>0, <2>2, <2>3, <2>4 DEF SleepersJustified
  <1>5. ASSUME NEW d \in Starts,
               \/ Callback(d) \/ CallbackWakes(d) \/ GetEmpty(d) \/ GetWait(d)
               \/ GetNothing(d) \/ TakeMissing(d) \/ Play(d) \/ PlayFreed(d)
        PROVE  SleepersJustified'
    <2>1. UNCHANGED <<frames, sync>>
      BY <1>5 DEF Callback, CallbackWakes, GetEmpty, GetWait, GetNothing,
             TakeMissing, Play, PlayFreed
    <2>2. \A j \in Starts : j # d => device'[j] = device[j]
      BY <1>5 DEF Callback, CallbackWakes, GetEmpty, GetWait, GetNothing,
                  TakeMissing, Play, PlayFreed, DeviceTo, TypeOK
    <2>3. device'[d] \in {"empty", "asleep"} => frames = <<>> \/ device[d] = "empty"
      BY <1>5 DEF Callback, CallbackWakes, GetEmpty, GetWait, GetNothing,
                  TakeMissing, Play, PlayFreed, DeviceTo, TypeOK
    <2>. QED
      BY <2>1, <2>2, <2>3 DEF SleepersJustified
  <1>6. ASSUME NEW d \in Starts, Take(d)
        PROVE  SleepersJustified'
    <2>1. frames # <<>> /\ Free /\ sync' = Woken(sync)
          /\ device' = [device EXCEPT ![d] = "copy"]
      BY <1>6 DEF Take, MayTake, DeviceTo
    <2>2. \A j \in Starts : sync'[j] \notin {"full", "asleep"}
      BY <2>1 DEF Woken, Free
    <2>3. \A j \in Starts : device'[j] \notin {"empty", "asleep"}
      BY <2>1 DEF TypeOK, SleepersJustified
    <2>. QED
      BY <2>2, <2>3 DEF SleepersJustified
  <1>7. CASE UNCHANGED vars
    BY <1>7 DEF vars, SleepersJustified
  <1>. QED
    BY <1>1, <1>2, <1>3, <1>4, <1>5, <1>6, <1>7 DEF Next, Sync, Device

LEMMA EndsStep == TypeOK /\ EndsAfterStop /\ [Next]_vars => EndsAfterStop'
  <1>. SUFFICES ASSUME TypeOK, EndsAfterStop, [Next]_vars PROVE EndsAfterStop'
    OBVIOUS
  <1>. USE DEF EndsAfterStop
  <1>1. CASE Calls \/ Steps
    <2>1. /\ abort => abort'
          /\ isExit' => isExit \/ ui = "aborting"
          /\ ui' \in {"aborting", "exiting", "emptied"}
               => abort' \/ ui \in {"aborting", "exiting", "emptied"}
      BY <1>1 DEF Calls, Steps, StartPlay, AddObserver, Pause, Resume, Stop,
                  StopExit, StopNotEmpty, StopNotFull
    <2>2. \A k \in Starts : /\ sync'[k] = "exited" => sync[k] = "exited"
                            /\ device'[k] = "ended" => device[k] = "ended"
      BY <1>1 DEF Calls, Steps, StartPlay, AddObserver, Pause, Resume, Stop,
                  StopExit, StopNotEmpty, StopNotFull, Woken, TypeOK
    <2>. QED
      BY <2>1, <2>2
  <1>2. CASE SpuriousWake
    BY <1>2 DEF SpuriousWake, SyncTo, DeviceTo, TypeOK
  <1>3. ASSUME NEW k \in Starts, Sync(k)
        PROVE  EndsAfterStop'
    <2>1. UNCHANGED <<ui, abort, isExit>>
      BY <1>3 DEF Sync, SyncExit, Resample, Notify, Update, UpdateFull, UpdateWait,
                  UpdateWoken, UnchangedBySync
    <2>2. \A j \in Starts : sync'[j] = "exited" => sync[j] = "exited" \/ abort
      BY <1>3 DEF Sync, SyncExit, Resample, Notify, Update, UpdateFull, UpdateWait,
                  UpdateWoken, Appended, SyncTo, TypeOK
    <2>3. \A j \in Starts : device'[j] = "ended" => device[j] = "ended"
      BY <1>3 DEF Sync, SyncExit, Resample, Notify, Update, UpdateFull, UpdateWait,
                  UpdateWoken, Appended, Woken, TypeOK
    <2>. QED
      BY <2>1, <2>2, <2>3
  <1>4. ASSUME NEW d \in Starts, Device(d)
        PROVE  EndsAfterStop'
    <2>1. UNCHANGED <<ui, abort, isExit>>
      BY <1>4 DEF Device, Callback, CallbackWakes, GetEmpty, GetWait, GetNothing,
                  TakeMissing, Take, Play, PlayFreed, UnchangedByDevice
    <2>2. \A j \in Starts : device'[j] = "ended"
                              => device[j] = "ended" \/ abort \/ isExit
      BY <1>4 DEF Device, Callback, CallbackWakes, GetEmpty, GetWait, GetNothing,
                  TakeMissing, Take, Play, PlayFreed, DeviceTo, TypeOK
    <2>3. \A j \in Starts : sync'[j] = "exited" => sync[j] = "exited"
      BY <1>4 DEF Device, Callback, CallbackWakes, GetEmpty, GetWait, GetNothing,
                  TakeMissing, Take, Play, PlayFreed, Woken, TypeOK
    <2>. QED
      BY <2>1, <2>2, <2>3
  <1>5. CASE UNCHANGED vars
    BY <1>5 DEF vars
  <1>. QED
    BY <1>1, <1>2, <1>3, <1>4, <1>5 DEF Next

LEMMA AllPlayedStep == IInv /\ AllPlayed /\ [Next]_vars => AllPlayed'
  <1>. SUFFICES ASSUME IInv, AllPlayed, [Next]_vars, players' <= 1
                PROVE  freed' = 1..Done' /\ (observers' = 0 => made' = 0)
    BY DEF AllPlayed
  <1>0. /\ 1 \in Starts /\ made \in Nat /\ Len(frames) \in Nat
        /\ Gone \in Int /\ Done \in Int /\ players \in Nat /\ observers \in Nat
    <2>1. /\ 1 \in Starts /\ made \in Nat /\ Len(frames) \in Nat
          /\ players \in Nat /\ observers \in Nat
      BY BoundsAssumption DEF IInv, Structure, TypeOK, Starts
    <2>2. Gone \in {made - Len(frames), made - Len(frames) - 1}
      <3>1. CASE Carries(1)
        BY <2>1, <3>1 DEF Gone
      <3>2. CASE ~Carries(1)
        BY <2>1, <3>2 DEF Gone
      <3>. QED
        BY <3>1, <3>2
    <2>. QED
      BY <2>1, <2>2 DEF Done
  <1>1. CASE Calls \/ Steps
    <2>1. /\ UNCHANGED <<frames, made, freed>>
          /\ players' = players \/ (players' = players + 1 /\ StartPlay)
          /\ observers' = observers \/ observers' = observers + 1
      BY <1>1 DEF Calls, Steps, StartPlay, AddObserver, Pause, Resume, Stop,
                  StopExit, StopNotEmpty, StopNotFull, UnchangedByUI
    <2>2. players <= 1
      BY <1>0, <2>1
    <2>3. Carries(1)' <=> Carries(1)
      <3>1. CASE AddObserver
        <4>1. sync'[1] = IF observers' = 1 THEN "loop" ELSE sync[1]
          BY <1>0, <3>1 DEF AddObserver, IInv, Structure, TypeOK
        <4>2. observers' = 1 => sync[1] = "off"
          BY <1>0, <3>1 DEF AddObserver, IInv, Structure, Threading
        <4>. QED
          BY <4>1, <4>2 DEF Carries, Updating
      <3>2. CASE StopNotFull
        BY <1>0, <3>2 DEF StopNotFull, Woken, Carries, Updating, IInv, Structure,
               TypeOK
      <3>3. CASE Calls \/ StopExit \/ StopNotEmpty
        BY <3>3 DEF Calls, StartPlay, Pause, Resume, Stop, StopExit, StopNotEmpty,
                    Carries
      <3>. QED
        BY <1>1, <3>1, <3>2, <3>3 DEF Steps
    <2>4. device'[1] = "copy" <=> device[1] = "copy"
      <3>1. CASE StartPlay
        <4>1. players' = 1 /\ device[1] = "off"
          BY <1>0, <3>1 DEF StartPlay, IInv, Structure, Threading
        <4>. QED
          BY <1>0, <3>1, <4>1 DEF StartPlay, IInv, Structure, TypeOK
      <3>2. CASE StopNotEmpty
        BY <1>0, <3>2 DEF StopNotEmpty, Woken, IInv, Structure, TypeOK
      <3>3. CASE Pause \/ Resume \/ Stop \/ AddObserver \/ StopExit \/ StopNotFull
        BY <3>3 DEF Pause, Resume, Stop, AddObserver, StopExit, StopNotFull
      <3>. QED
        BY <1>1, <3>1, <3>2, <3>3 DEF Calls, Steps
    <2>5. Done' = Done
      BY <2>1, <2>3, <2>4 DEF Done, Gone
    <2>. QED
      BY <1>0, <2>1, <2>2, <2>5 DEF AllPlayed
  <1>2. CASE SpuriousWake
    <2>1. UNCHANGED <<frames, made, freed, players, observers>>
      BY <1>2 DEF SpuriousWake
    <2>2. (Carries(1)' <=> Carries(1)) /\ (device'[1] = "copy" <=> device[1] = "copy")
      BY <1>0, <1>2 DEF SpuriousWake, SyncTo, DeviceTo, Carries, Updating, IInv,
                        Structure, TypeOK
    <2>3. Done' = Done
      BY <2>1, <2>2 DEF Done, Gone
    <2>. QED
      BY <2>1, <2>3 DEF AllPlayed
  <1>3. ASSUME NEW k \in Starts, Sync(k)
        PROVE  freed' = 1..Done' /\ (observers' = 0 => made' = 0)
    <2>1. UNCHANGED <<players, observers, freed>> /\ sync[k] # "off"
      BY <1>3 DEF Sync, SyncExit, Resample, Notify, Update, UpdateFull, UpdateWait,
                  UpdateWoken, UnchangedBySync
    <2>2. k = 1 /\ observers = 1
      BY <1>0, <2>1 DEF IInv, Structure, Threading, TypeOK, Starts
    <2>3. device'[1] = "copy" <=> device[1] = "copy"
      BY <1>0, <1>3 DEF Sync, SyncExit, Resample, Notify, Update, UpdateFull,
                        UpdateWait, UpdateWoken, Appended, Woken, IInv, Structure,
                        TypeOK
    <2>4. Gone' = Gone
      <3>1. CASE SyncExit(k) \/ Notify(k) \/ UpdateFull(k) \/ UpdateWait(k)
        <4>1. UNCHANGED <<made, frames>> /\ (Carries(1)' <=> Carries(1))
          BY <1>0, <2>2, <3>1 DEF SyncExit, Notify, UpdateFull, UpdateWait, SyncTo,
                                  Carries, Updating, IInv, Structure, TypeOK
        <4>. QED
          BY <4>1 DEF Gone
      <3>2. CASE Resample(k)
        <4>1. /\ made' = made + 1 /\ frames' = frames
              /\ ~Carries(1) /\ Carries(1)'
          BY <1>0, <2>2, <3>2 DEF Resample, SyncTo, Carries, Updating, IInv,
                                  Structure, TypeOK
        <4>. QED
          BY <1>0, <4>1 DEF Gone
      <3>3. CASE Update(k) \/ UpdateWoken(k)
        <4>1. /\ made' = made /\ Appended(k) /\ Carries(1)
          BY <2>2, <3>3 DEF Update, UpdateWoken, Carries, Updating
        <4>2. left[1] = 1
          BY <1>0, <2>2, <3>3 DEF Update, UpdateWoken, IInv, Structure, Carrying,
                                  Updating
        <4>3. ~Carries(1)'
          BY <1>0, <2>2, <4>1, <4>2 DEF Appended, SyncTo, Carries, Updating, IInv,
                                        Structure, TypeOK
        <4>4. Len(frames') = Len(frames) + 1
          BY <4>1 DEF Appended, IInv, Structure, TypeOK
        <4>. QED
          BY <1>0, <4>1, <4>3, <4>4 DEF Gone
      <3>. QED
        BY <1>3, <3>1, <3>2, <3>3 DEF Sync
    <2>. QED
      BY <1>0, <2>1, <2>2, <2>3, <2>4 DEF Done, AllPlayed
  <1>4. ASSUME NEW d \in Starts, Device(d)
        PROVE  freed' = 1..Done' /\ (observers' = 0 => made' = 0)
    <2>1. UNCHANGED <<players, observers, made>> /\ device[d] # "off"
      BY <1>4 DEF Device, Callback, CallbackWakes, GetEmpty, GetWait, GetNothing,
                  TakeMissing, Take, Play, PlayFreed, MayTake, UnchangedByDevice
    <2>2. d = 1
      BY <1>0, <2>1 DEF IInv, Structure, Threading, TypeOK, Starts
    <2>3. freed = 1..Done /\ (observers = 0 => made = 0)
      BY <2>1 DEF AllPlayed
    <2>4. Carries(1)' <=> Carries(1)
      BY <1>0, <1>4 DEF Device, Callback, CallbackWakes, GetEmpty, GetWait,
                        GetNothing, TakeMissing, Take, Play, PlayFreed, Woken,
                        Carries, Updating, IInv, Structure, TypeOK
    <2>5. CASE \/ Callback(d) \/ CallbackWakes(d) \/ GetEmpty(d) \/ GetWait(d)
               \/ GetNothing(d) \/ TakeMissing(d) \/ PlayFreed(d)
      <3>1. UNCHANGED <<frames, freed>>
        BY <2>5 DEF Callback, CallbackWakes, GetEmpty, GetWait, GetNothing,
               TakeMissing, PlayFreed
      <3>2. device'[1] = "copy" <=> device[1] = "copy"
        BY <1>0, <2>2, <2>5 DEF Callback, CallbackWakes, GetEmpty, GetWait,
               GetNothing, TakeMissing, PlayFreed, MayTake, DeviceTo, IInv,
               Structure, TypeOK
      <3>. QED
        BY <2>1, <2>3, <2>4, <3>1, <3>2 DEF Done, Gone
    <2>6. CASE Take(d)
      <3>1. /\ freed' = freed /\ frames # <<>> /\ frames' = Tail(frames)
            /\ device[1] # "copy" /\ device'[1] = "copy"
        BY <1>0, <2>2, <2>6 DEF Take, MayTake, DeviceTo, IInv, Structure, TypeOK
      <3>2. Len(frames') = Len(frames) - 1
        BY <3>1 DEF IInv, Structure, TypeOK
      <3>3. Gone' = Gone + 1
        BY <1>0, <2>1, <2>4, <3>2 DEF Gone
      <3>. QED
        BY <1>0, <2>1, <2>3, <3>1, <3>3 DEF Done
    <2>7. CASE Play(d)
      <3>1. /\ freed' = freed \cup {hand[1]} /\ frames' = frames
            /\ device[1] = "copy" /\ device'[1] = "playing"
        BY <1>0, <2>2, <2>7 DEF Play, DeviceTo, IInv, Structure, TypeOK
      <3>2. hand[1] = Gone /\ Gone \in Nat
        BY <1>0, <2>1, <3>1 DEF IInv, Structure, TypeOK, Numbering, Served, Copies
      <3>3. hand[1] \in Blocks
        BY <1>0, <3>1 DEF IInv, Structure, Carrying
      <3>4. Gone' = Gone /\ Done' = Gone /\ Done = Gone - 1
        BY <2>1, <2>4, <3>1 DEF Gone, Done
      <3>5. freed' = 1..Gone
        <4>1. Gone >= 1
          BY <3>2, <3>3 DEF Blocks
        <4>2. freed' = (1..(Gone - 1)) \cup {Gone}
          BY <2>3, <3>1, <3>2, <3>4
        <4>. QED
          BY <3>2, <4>1, <4>2
      <3>. QED
        BY <2>1, <2>3, <3>4, <3>5
    <2>. QED
      BY <1>4, <2>5, <2>6, <2>7 DEF Device
  <1>5. CASE UNCHANGED vars
    BY <1>5 DEF vars, AllPlayed, Done, Gone, Carries
  <1>. QED
    BY <1>1, <1>2, <1>3, <1>4, <1>5 DEF Next

LEMMA Resting ==
  Spec => [](IInv /\ SleepersJustified /\ EndsAfterStop /\ AllPlayed)
  <1>1. Init => SleepersJustified /\ EndsAfterStop /\ AllPlayed
    <2>. SUFFICES ASSUME Init PROVE SleepersJustified /\ EndsAfterStop /\ AllPlayed
      OBVIOUS
    <2>1. /\ frames = <<>> /\ made = 0 /\ 1 \in Starts
          /\ sync[1] = "off" /\ device[1] = "off"
      BY BoundsAssumption DEF Init, Starts
    <2>2. Gone = 0 /\ Done = 0
      <3>1. Len(frames) = 0 /\ ~Carries(1)
        BY <2>1 DEF Carries, Updating
      <3>2. Gone = made - Len(frames) - 0
        BY <3>1 DEF Gone
      <3>3. Gone = 0
        BY <2>1, <3>1, <3>2
      <3>. QED
        BY <2>1, <3>3 DEF Done
    <2>. QED
      BY <2>1, <2>2 DEF Init, SleepersJustified, EndsAfterStop, AllPlayed
  <1>2. IInv => TypeOK
    BY DEF IInv, Structure
  <1>. QED
    BY <1>1, <1>2, Invariance, SleepersStep, EndsStep, AllPlayedStep, PTL DEF Spec

(* When nothing moves, a device that is there waits for a block.             *)
LEMMA StuckCallback ==
  ASSUME IInv, SleepersJustified, EndsAfterStop, Stuck, ~abort, ~pause,
         NEW d \in Starts, device[d] # "off"
  PROVE  frames = <<>>
  <1>1. Free
    <2>1. \A k \in Starts : sync[k] # "full" /\ device[k] # "empty"
      BY DEF Stuck, SyncStuck, DeviceStuck
    <2>. QED
      BY <2>1 DEF Free
  <1>2. device[d] = "asleep"
    BY <1>1 DEF Stuck, DeviceStuck, EndsAfterStop
  <1>. QED
    BY <1>2 DEF SleepersJustified

(* When nothing moves, who holds notify()'s mutex waits for room in the list.*)
LEMMA StuckUpdate ==
  ASSUME IInv, SleepersJustified, EndsAfterStop, Stuck, notifier # 0
  PROVE  Len(frames) > MaxFrameBuffer /\ notifier \in Starts
  <1>1. notifier \in Starts
    BY BoundsAssumption DEF IInv, Structure, TypeOK, Starts
  <1>2. sync[notifier] \in Updating
    BY <1>1 DEF IInv, Structure, Notifying
  <1>3. Free
    <2>1. \A k \in Starts : sync[k] # "full" /\ device[k] # "empty"
      BY DEF Stuck, SyncStuck, DeviceStuck
    <2>. QED
      BY <2>1 DEF Free
  <1>4. sync[notifier] = "asleep"
    BY <1>1, <1>2, <1>3 DEF Stuck, SyncStuck, Updating
  <1>. QED
    BY <1>1, <1>4 DEF SleepersJustified

(* However many devices and loops there are, whatever wakes them, and with   *)
(* stop() at any point: start() cannot wait in addObserver() for a loop that *)
(* waits for room nobody makes, but for a reason Obstructed names            *)
(* (IObserver.cpp:11, 18-22, IAudioPlay.cpp:41-44).                          *)
THEOREM StartCannotHang == Spec => []StartNotStuck
  <1>1. IInv /\ SleepersJustified /\ EndsAfterStop => StartNotStuck
    <2>. SUFFICES ASSUME IInv, SleepersJustified, EndsAfterStop, Stuck,
                         ui = "adding", ~pause, ~abort,
                         NEW d \in Starts, device[d] # "off"
                  PROVE  FALSE
      BY DEF StartNotStuck, Obstructed
    <2>1. notifier # 0
      BY DEF Stuck, CallStuck
    <2>2. Len(frames) > MaxFrameBuffer
      BY <2>1, StuckUpdate
    <2>3. frames = <<>>
      BY StuckCallback
    <2>. QED
      BY <2>2, <2>3, BoundsAssumption
  <1>. QED
    BY <1>1, Resting, PTL

(* The safety half of EveryBlockPlayed: one start() left alone comes to rest *)
(* only when every block the resampler made has been played; no wakeup is    *)
(* lost on the way (IAudioPlay.cpp:15-24, 41-45, SLAudioPlay.cpp:123-135).   *)
THEOREM RestsWhenPlayed == Spec => []PlayedWhenStuck
  <1>1. IInv /\ SleepersJustified /\ EndsAfterStop /\ AllPlayed => PlayedWhenStuck
    <2>. SUFFICES ASSUME IInv, SleepersJustified, EndsAfterStop, AllPlayed,
                         Stuck, LeftAlone
                  PROVE  freed = 1..made
      BY DEF PlayedWhenStuck
    <2>0. /\ 1 \in Starts /\ made \in Nat /\ Len(frames) \in Nat
          /\ players \in {0, 1} /\ observers \in 0..players
          /\ ~pause /\ ~abort
      BY BoundsAssumption DEF IInv, Structure, TypeOK, Starts, LeftAlone
    <2>1. freed = 1..Done /\ (observers = 0 => made = 0)
      BY <2>0 DEF AllPlayed
    <2>2. CASE players = 0
      <3>1. sync[1] = "off" /\ device[1] = "off" /\ made = 0
        BY <2>0, <2>1, <2>2 DEF IInv, Structure, Threading
      <3>2. Gone >= 0 /\ Gone = made - Len(frames)
        BY <2>0, <2>2, <3>1 DEF IInv, Numbering, Copies, Gone, Carries, Updating
      <3>3. Done = made
        BY <2>0, <3>1, <3>2 DEF Done
      <3>. QED
        BY <2>1, <3>3
    <2>3. CASE players = 1
      <3>1. device[1] # "off"
        BY <2>3 DEF LeftAlone
      <3>2. frames = <<>>
        BY <2>0, <3>1, StuckCallback
      <3>3. notifier = 0
        BY <2>0, <3>2, StuckUpdate, BoundsAssumption
      <3>4. ~Carries(1)
        <4>1. sync[1] \notin Updating
          BY <2>0, <3>3 DEF IInv, Structure, Notifying
        <4>. QED
          BY <2>0, <3>3, <4>1 DEF Stuck, SyncStuck, Carries
      <3>5. device[1] # "copy"
        BY <2>0 DEF Stuck, DeviceStuck
      <3>6. Done = made
        BY <2>0, <3>2, <3>4, <3>5 DEF Done, Gone
      <3>. QED
        BY <2>1, <3>6
    <2>. QED
      BY <2>0, <2>2, <2>3
  <1>. QED
    BY <1>1, Resting, PTL
=============================================================================

----------------------------- MODULE AudioOutput -----------------------------
(* The way of a block of sound from MediaSync2's audio loop to the device:   *)
(* IResample::update, IObserver::notify, IAudioPlay's list of blocks with    *)
(* one mutex and two condition variables, and SLAudioPlay's callback, which  *)
(* OpenSL calls each time a buffer has been played.  Both ends test with IF, *)
(* not WHILE, before they wait, and stop() takes no mutex.                   *)
(* Every start() makes one more device, one more audio loop, and registers   *)
(* the SAME IAudioPlay with the resampler once more.                         *)
EXTENDS Naturals, Sequences

CONSTANTS MaxStarts,       \* bound: calls of start()
          MaxBlocks,       \* bound: blocks the resampler makes
          MaxFrameBuffer   \* maxFrameBuffer

ASSUME BoundsAssumption ==
    /\ MaxStarts \in Nat \ {0} /\ MaxBlocks \in Nat /\ MaxFrameBuffer \in Nat

VARIABLES ui,         \* where the UI thread is, see UIs
          pause,      \* pauseRequest
          abort,      \* abortRequest
          isExit,     \* IAudioPlay's isExit
          players,    \* calls of startPlay()
          observers,  \* entries of IResample's observers, all the one IAudioPlay
          notifier,   \* the audio loop in notify(), which holds its mutex; or 0
          frames,     \* the list of blocks
          made,       \* blocks made so far: each has a number
          sync,       \* where the audio loop of each start() is
          block,      \* the block each loop has in hand
          left,       \* observers notify() has still to update
          device,     \* where the callback of each device is
          hand,       \* the block each callback has in hand
          freed,      \* blocks copied to the device and deleted
          spurious,   \* has a wait() returned without a notification
          fault       \* undefined behaviour met: "none", "empty", "freed"

vars == <<ui, pause, abort, isExit, players, observers, notifier, frames,
          made, sync, block, left, device, hand, freed, spurious, fault>>

Starts == 1..MaxStarts
Blocks == 1..MaxBlocks

(* idle: no call in progress           adding: start() after startPlay()     *)
(* aborting, exiting, emptied: stop() after abortRequest, isExit, notEmpty   *)
UIs == {"idle", "adding", "aborting", "exiting", "emptied"}

(* full: holds framesMutex and will sleep.  asleep, woken: in notFull.wait() *)
Updating == {"update", "full", "asleep", "woken"}
Syncs    == {"off", "loop", "notify", "exited"} \cup Updating

(* playing: its buffer plays; then the callback is called.  nap: it sleeps a *)
(* pause out.  empty: holds framesMutex and will sleep.                      *)
Devices == {"off", "playing", "nap", "get", "empty", "asleep", "woken", "copy",
            "ended"}

Init == /\ ui = "idle" /\ pause = FALSE /\ abort = FALSE /\ isExit = FALSE
        /\ players = 0 /\ observers = 0 /\ notifier = 0
        /\ frames = <<>> /\ made = 0
        /\ sync = [k \in Starts |-> "off"]
        /\ block = [k \in Starts |-> 0]
        /\ left = [k \in Starts |-> 0]
        /\ device = [d \in Starts |-> "off"]
        /\ hand = [d \in Starts |-> 0]
        /\ freed = {} /\ spurious = FALSE /\ fault = "none"

(* framesMutex is free: nobody is between his test and his wait.             *)
Free == /\ \A k \in Starts : sync[k] # "full"
        /\ \A d \in Starts : device[d] # "empty"

(* notify_all() on a condition variable.                                     *)
Woken(pc) == [k \in Starts |-> IF pc[k] = "asleep" THEN "woken" ELSE pc[k]]

-----------------------------------------------------------------------------
(* The UI thread: start(), pause(), resume(), stop().                        *)
UnchangedByUI == UNCHANGED <<notifier, frames, made, block, left, hand, freed,
                             spurious, fault>>

(* startPlay() enqueues a first buffer; its failure is not looked at.        *)
StartPlay == /\ ui = "idle" /\ players < MaxStarts
             /\ ui' = "adding" /\ players' = players + 1
             /\ \/ device' = [device EXCEPT ![players'] = "playing"]
                \/ UNCHANGED device
             /\ UNCHANGED <<pause, abort, isExit, observers, sync>>
             /\ UnchangedByUI

(* addObserver() wants the mutex notify() holds; then the loop is started.   *)
AddObserver == /\ ui = "adding" /\ notifier = 0
               /\ ui' = "idle" /\ observers' = observers + 1
               /\ sync' = [sync EXCEPT ![observers'] = "loop"]
               /\ UNCHANGED <<pause, abort, isExit, players, device>>
               /\ UnchangedByUI

Pause == /\ ui = "idle" /\ pause' = TRUE
         /\ UNCHANGED <<ui, abort, isExit, players, observers, sync, device>>
         /\ UnchangedByUI

Resume == /\ ui = "idle" /\ pause' = FALSE
          /\ UNCHANGED <<ui, abort, isExit, players, observers, sync, device>>
          /\ UnchangedByUI

(* MediaPlayer::stop() sets abortRequest, IAudioPlay::stop() sets isExit and *)
(* notifies both conditions, all without framesMutex.                        *)
Stop == /\ ui = "idle" /\ players > 0
        /\ ui' = "aborting" /\ abort' = TRUE
        /\ UNCHANGED <<pause, isExit, players, observers, sync, device>>
        /\ UnchangedByUI

StopExit == /\ ui = "aborting"
            /\ ui' = "exiting" /\ isExit' = TRUE
            /\ UNCHANGED <<pause, abort, players, observers, sync, device>>
            /\ UnchangedByUI

StopNotEmpty == /\ ui = "exiting"
                /\ ui' = "emptied" /\ device' = Woken(device)
                /\ UNCHANGED <<pause, abort, isExit, players, observers, sync>>
                /\ UnchangedByUI

StopNotFull == /\ ui = "emptied"
               /\ ui' = "idle" /\ sync' = Woken(sync)
               /\ UNCHANGED <<pause, abort, isExit, players, observers, device>>
               /\ UnchangedByUI

Calls == StartPlay \/ Pause \/ Resume \/ Stop
Steps == AddObserver \/ StopExit \/ StopNotEmpty \/ StopNotFull

-----------------------------------------------------------------------------
(* The audio loop of start number k.                                         *)
UnchangedBySync == UNCHANGED <<ui, pause, abort, isExit, players, observers,
                               hand, freed, spurious, fault>>

SyncTo(k, to) == sync' = [sync EXCEPT ![k] = to]

SyncExit(k) == /\ sync[k] = "loop" /\ abort
               /\ SyncTo(k, "exited")
               /\ UNCHANGED <<notifier, frames, made, block, left, device>>
               /\ UnchangedBySync

(* A frame is resampled; one that gives no sound changes nothing here.       *)
Resample(k) == /\ sync[k] = "loop" /\ ~abort /\ ~pause
               /\ made < MaxBlocks
               /\ made' = made + 1 /\ block' = [block EXCEPT ![k] = made']
               /\ SyncTo(k, "notify")
               /\ UNCHANGED <<notifier, frames, left, device>> /\ UnchangedBySync

(* Mutant: notify() does without its mutex.                                  *)
NotifyUnlocked(k) == /\ sync[k] = "notify"
                     /\ notifier' = k /\ left' = [left EXCEPT ![k] = observers]
                     /\ SyncTo(k, "update")
                     /\ UNCHANGED <<frames, made, block, device>> /\ UnchangedBySync

Notify(k) == /\ sync[k] = "notify" /\ notifier = 0
             /\ notifier' = k /\ left' = [left EXCEPT ![k] = observers]
             /\ SyncTo(k, "update")
             /\ UNCHANGED <<frames, made, block, device>> /\ UnchangedBySync

(* Mutant: notEmpty is not notified.                                         *)
AppendedSilent(k) == /\ frames' = Append(frames, block[k])
                     /\ left' = [left EXCEPT ![k] = @ - 1]
                     /\ UNCHANGED device
                     /\ IF left[k] > 1
                          THEN SyncTo(k, "update") /\ UNCHANGED <<notifier, block>>
                          ELSE /\ SyncTo(k, "loop") /\ notifier' = 0
                               /\ block' = [block EXCEPT ![k] = 0]

(* update() appends the block; notify() goes on with the next observer, and  *)
(* after the last one the loop forgets the block.                            *)
Appended(k) == /\ frames' = Append(frames, block[k])
              /\ device' = Woken(device)
              /\ left' = [left EXCEPT ![k] = @ - 1]
              /\ IF left[k] > 1
                   THEN SyncTo(k, "update") /\ UNCHANGED <<notifier, block>>
                   ELSE /\ SyncTo(k, "loop") /\ notifier' = 0
                        /\ block' = [block EXCEPT ![k] = 0]

Update(k) == /\ sync[k] = "update" /\ Free
             /\ Len(frames) <= MaxFrameBuffer
             /\ Appended(k)
             /\ UNCHANGED made /\ UnchangedBySync

UpdateFull(k) == /\ sync[k] = "update" /\ Free
                 /\ Len(frames) > MaxFrameBuffer
                 /\ SyncTo(k, "full")
                 /\ UNCHANGED <<notifier, frames, made, block, left, device>>
                 /\ UnchangedBySync

UpdateWait(k) == /\ sync[k] = "full"
                 /\ SyncTo(k, "asleep")
                 /\ UNCHANGED <<notifier, frames, made, block, left, device>>
                 /\ UnchangedBySync

(* After its wait update() does not look at the list again.                  *)
UpdateWoken(k) == /\ sync[k] = "woken" /\ Free
                  /\ Appended(k)
                  /\ UNCHANGED made /\ UnchangedBySync

Sync(k) == \/ SyncExit(k) \/ Resample(k) \/ Notify(k)
           \/ Update(k) \/ UpdateFull(k) \/ UpdateWait(k) \/ UpdateWoken(k)

-----------------------------------------------------------------------------
(* The callback of device d: SLAudioPlay::playCall and IAudioPlay::getData.  *)
UnchangedByDevice == UNCHANGED <<ui, pause, abort, isExit, players, observers,
                                 notifier, made, block, left, spurious>>

DeviceTo(d, to) == device' = [device EXCEPT ![d] = to]

Callback(d) == /\ device[d] = "playing"
               /\ DeviceTo(d, IF abort THEN "ended" ELSE IF pause THEN "nap" ELSE "get")
               /\ UNCHANGED <<frames, sync, hand, freed, fault>>
               /\ UnchangedByDevice

(* After its sleep the callback looks at the pause request first: one that   *)
(* was taken back lets it go on to getData() even after a stop.              *)
CallbackWakes(d) == /\ device[d] = "nap" /\ (abort \/ ~pause)
                    /\ DeviceTo(d, IF pause THEN "ended" ELSE "get")
                    /\ UNCHANGED <<frames, sync, hand, freed, fault>>
                    /\ UnchangedByDevice

GetEmpty(d) == /\ device[d] = "get" /\ Free /\ frames = <<>>
               /\ DeviceTo(d, "empty")
               /\ UNCHANGED <<frames, sync, hand, freed, fault>>
               /\ UnchangedByDevice

GetWait(d) == /\ device[d] = "empty"
              /\ DeviceTo(d, "asleep")
              /\ UNCHANGED <<frames, sync, hand, freed, fault>>
              /\ UnchangedByDevice

MayTake(d) == /\ Free
              /\ device[d] = "woken" \/ (device[d] = "get" /\ frames # <<>>)

(* getData() after stop(): an empty block, and no buffer is enqueued: OpenSL *)
(* does not call again.                                                      *)
GetNothing(d) == /\ MayTake(d) /\ isExit
                 /\ DeviceTo(d, "ended")
                 /\ UNCHANGED <<frames, sync, hand, freed, fault>>
                 /\ UnchangedByDevice

(* front() of an empty list.                                                 *)
TakeMissing(d) == /\ MayTake(d) /\ ~isExit /\ frames = <<>>
                  /\ fault' = "empty"
                  /\ UNCHANGED <<frames, sync, device, hand, freed>>
                  /\ UnchangedByDevice

(* Mutant: notFull is not notified.                                          *)
TakeSilent(d) == /\ MayTake(d) /\ ~isExit /\ frames # <<>>
                 /\ hand' = [hand EXCEPT ![d] = Head(frames)]
                 /\ frames' = Tail(frames)
                 /\ DeviceTo(d, "copy")
                 /\ UNCHANGED <<sync, freed, fault>> /\ UnchangedByDevice

(* Mutant: the block stays in the list.                                      *)
TakeFront(d) == /\ MayTake(d) /\ ~isExit /\ frames # <<>>
                /\ hand' = [hand EXCEPT ![d] = Head(frames)]
                /\ sync' = Woken(sync)
                /\ DeviceTo(d, "copy")
                /\ UNCHANGED <<frames, freed, fault>> /\ UnchangedByDevice

Take(d) == /\ MayTake(d) /\ ~isExit /\ frames # <<>>
           /\ hand' = [hand EXCEPT ![d] = Head(frames)]
           /\ frames' = Tail(frames)
           /\ sync' = Woken(sync)
           /\ DeviceTo(d, "copy")
           /\ UNCHANGED <<freed, fault>> /\ UnchangedByDevice

(* The block is copied, its buffer enqueued (assumed to succeed, as the code *)
(* does) and its memory deleted.  In between the player's handler is told of *)
(* the position, and that call is taken to return: see Looper.               *)
Play(d) == /\ device[d] = "copy" /\ hand[d] \notin freed
           /\ freed' = freed \cup {hand[d]}
           /\ hand' = [hand EXCEPT ![d] = 0]
           /\ DeviceTo(d, "playing")
           /\ UNCHANGED <<frames, sync, fault>> /\ UnchangedByDevice

(* Another callback has deleted it: the observer was registered twice.       *)
PlayFreed(d) == /\ device[d] = "copy" /\ hand[d] \in freed
                /\ fault' = "freed"
                /\ UNCHANGED <<frames, sync, device, hand, freed>>
                /\ UnchangedByDevice

Device(d) == \/ Callback(d) \/ CallbackWakes(d) \/ GetEmpty(d) \/ GetWait(d)
             \/ GetNothing(d) \/ TakeMissing(d) \/ Take(d) \/ Play(d) \/ PlayFreed(d)

-----------------------------------------------------------------------------
(* A wait() returns of itself; bound: once.                                  *)
SpuriousWake == /\ ~spurious /\ spurious' = TRUE
                /\ \E k \in Starts :
                     \/ /\ sync[k] = "asleep" /\ SyncTo(k, "woken")
                        /\ UNCHANGED device
                     \/ /\ device[k] = "asleep" /\ DeviceTo(k, "woken")
                        /\ UNCHANGED sync
                /\ UNCHANGED <<ui, pause, abort, isExit, players, observers,
                               notifier, frames, made, block, left, hand,
                               freed, fault>>

(* Nothing is said of a process that has met undefined behaviour.            *)
Next == /\ fault = "none"
        /\ \/ Calls \/ Steps \/ SpuriousWake
           \/ \E k \in Starts : Sync(k) \/ Device(k)

Spec == Init /\ [][Next]_vars

(* Every thread is scheduled, the device plays what it is given, and calls   *)
(* that began go on; nobody has to call.                                     *)
FairSpec == /\ Spec
            /\ WF_vars(fault = "none" /\ Steps)
            /\ \A k \in Starts : /\ WF_vars(fault = "none" /\ Sync(k))
                                 /\ WF_vars(fault = "none" /\ Device(k))

-----------------------------------------------------------------------------
TypeOK == /\ ui \in UIs
          /\ pause \in BOOLEAN /\ abort \in BOOLEAN /\ isExit \in BOOLEAN
          /\ players \in 0..MaxStarts /\ observers \in 0..players
          /\ players = observers + (IF ui = "adding" THEN 1 ELSE 0)
          /\ notifier \in 0..observers
          /\ frames \in Seq(Blocks)
          /\ made \in 0..MaxBlocks
          /\ sync \in [Starts -> Syncs] /\ device \in [Starts -> Devices]
          /\ block \in [Starts -> 0..MaxBlocks]
          /\ hand \in [Starts -> 0..MaxBlocks]
          /\ left \in [Starts -> 0..MaxStarts]
          /\ freed \subseteq Blocks /\ spurious \in BOOLEAN
          /\ fault \in {"none", "empty", "freed"}

(* The list exceeds maxFrameBuffer by one and no more, although update()     *)
(* compares with > and waits once (IAudioPlay.cpp:41-44): notify() keeps     *)
(* every other loop out while one waits (IObserver.cpp:18-22).  After stop() *)
(* or a spurious wakeup there is no bound.                                   *)
ListBounded == ~spurious /\ ~isExit => Len(frames) <= MaxFrameBuffer + 1

(* A callback takes from an empty list only after a spurious wakeup or when  *)
(* another device shares the list, since getData() does not look again after *)
(* its wait (IAudioPlay.cpp:15-21); and however many devices share it and    *)
(* wake as they like, none plays or deletes a block twice unless the one     *)
(* IAudioPlay is registered twice (MediaPlayer.cpp:42, SLAudioPlay.cpp:129). *)
FaultsHaveCauses == /\ fault = "empty" => spurious \/ players > 1
                    /\ fault = "freed" => observers > 1

(* Left alone, every block is played: the chain of callbacks never ends and  *)
(* no wakeup is lost (SLAudioPlay.cpp:123-131, IAudioPlay.cpp:24, 45).       *)
LeftAlone == /\ players <= 1 /\ ~pause /\ ~abort /\ ~spurious
             /\ players = 1 => device[1] # "off"
EveryBlockPlayed ==
    <>[]LeftAlone => \A b \in Blocks : made >= b ~> b \in freed

(* A call of start() returns although addObserver() wants the mutex notify() *)
(* holds while the list is full (IObserver.cpp:11, 18-22): some device takes  *)
(* blocks -- unless the player is paused or stopped or no device could be    *)
(* made.  (Then MediaPlayer::mutex stays taken, and nobody can resume.)      *)
Obstructed == pause \/ abort \/ \A d \in Starts : device[d] = "off"
StartReturns == ui = "adding" ~> ui = "idle" \/ Obstructed \/ fault # "none"
=============================================================================

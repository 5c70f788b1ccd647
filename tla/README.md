# Xplay in TLA+

This directory holds a TLA+ model of Xplay, an Android video player written in C++ on
FFmpeg, OpenSL ES and OpenGL ES. Paths below are relative to `src/app/src/main/cpp/`.

## The system

| Part | State | Operations | Talks to |
|---|---|---|---|
| Demuxer (`xplayer/demux/FFDemux.cpp`) | format context, its own mutex, `isExit` | `open`, `close`, `readPacket` loop on its thread | pushes packets into the decoders' queues while it holds its mutex |
| Packet queue (`xplayer/queue/Queue.h`) | `std::queue`, `_quit`, `_finished`, mutex, two condition variables | `push`, `pop`, `finished`, `quit`, `peek`, `last`, `length` | demuxer thread to decoder thread; quit from the thread that deletes the decoder |
| Decoders (`xplayer/decode/*.cpp`) | codec context, packet queue (100), frame ring (10) | `decodePacket` loop, `pushPacket`, destructor | codec; packet queue; frame ring |
| Frame ring (`xplayer/queue/FrameQueue.cpp`) | ten slots, `rindex`, `windex`, `size`, `show_index`, `abort_request` | `peekWritable`, `pushFrame`, `currentFrame`, `popFrame`, `start`, `abort`, `flush` | decoder thread to synchronisation thread |
| Synchronisation (`xplayer/sync/MediaSync2.cpp`, `MediaClock.cpp`) | two clocks, last time stamps, `isExist`, `resumeAfterPause` | `audioPlay` and `videoPlay` loops, `audioCallBack` | rings; resampler; video view; position messages |
| Audio output (`xplayer/resample/*`, `xplayer/audio/*`, `xplayer/IObserver.cpp`) | list of PCM blocks, mutex, `isExit` | `update` (from the audio synchronisation thread), `getData` (from the OpenSL callback), `stop` | `audioCallBack` |
| Video output (`xplayer/video/GLVideoView.cpp`, `xplayer/texture/*`) | window, texture, one EGL state for the process | `setRender`, `render`, `terminate` | video synchronisation thread and UI thread |
| Player (`xplayer/player/MediaPlayer.cpp`, `xplayer/XThread.cpp`) | pointers to the parts, `abortRequest`, `pauseRequest`, a mutex | `setDataSource`, `openSource`, `start`, `pause`, `resume`, `stop`, `release` | called by the UI thread; all threads are detached and never joined |
| Message loop (`xhandler/*`) | one looper per thread id, queue of ten messages | `postMessage`, `loop`, `quit` | OpenSL callback thread to the player's handler thread to Java |
| Metadata retriever (`metadata/*`) | format, codec and scaling contexts | `setDataSource`, `getFrame`, `release` | independent of the player |

What is hard in this code: every thread is detached; flags are polled, some of them
without any synchronisation; the queues block, and two of their operations change flags
without the mutex; the ring is read without its mutex; the demuxer and the player
block while holding their own mutex. `PROJECT.json` lists each hazard with its line and
the properties that cover it.

## What makes each part correct

* Packet queue: first in first out, bounded, no lost wakeup between `push` and `pop`; the
  end of the stream is announced only when nothing can follow; closing it (`quit`,
  `finished`) wakes everybody who can be woken.
* Frame ring: indexes and counter agree; a slot is neither overwritten nor released while
  somebody uses it; every frame is shown once, in order; a blocked decoder is woken.
* Pipeline: each stream is delivered in order; no stream starves because the other one is
  blocked; the end of the file is reached.
* Life cycle: what `start`, `pause`, `stop` and `release` promise their caller.
* Audio output: what the comments on `update` and `getData` say of blocking.
* Frame timing: whatever the clocks went through, pictures come back to the sound; a sleep
  during which no request is seen is bounded.
* Message loop: each thread serves its own handler; a message accepted is dispatched; nobody
  waits for good on a mutex.
* Video output: a picture waiting for a window gets one; a player draws where it is seen.

## Modules

`BoundedBuffer` is the abstract specification of both queues: a FIFO of bounded length
that may be told to accept no more input (`Finish`) or to stop (`Quit`), where one call
admitted before may still go through.

`Queue` models `Queue.h`. Each thread is `ready` (outside), at the loop's `test` or in its
body (`act`) with the mutex held, `asleep` in `wait()`, `woken`, or, for a consumer whose
`pop()` returned false, `stopped`. Reading the flags and acting upon them are two steps,
because `finished()` and `quit()` change them without the mutex; their notifications are
steps of their own. A critical section is otherwise one step, since the mutex hides its
inside. The reads of `_quit` and `_finished` in one evaluation of the loop's condition are
one step: both flags only ever become true, so any outcome of the two reads is the outcome of
reading both at one of the two moments. A push that is refused loses its item, as in
`IDecode::pushPacket`. `peek`, `last`, `isFinish` and `length` change nothing and are left
out; `XMessageQueue.h` is the same algorithm.

`FrameQueue` models `FrameQueue.cpp` together with the two places that use it: the decoder
(`AudioDecode.cpp:75-90`, `VideoDecode.cpp:82-103`), which makes a slot visible by writing
`size` and completes it afterwards, and the synchronisation thread (`MediaSync2.cpp:34-41`,
`90-114`), which polls the slot and not the counter. A frame is a number. The mutex covers
single steps only and is not modelled. `Disturbances` names what may happen besides: a
spurious wakeup, a second `start()`, an `abort()`, a `flush()`.

`Decode` models the decoder's thread: `IDecode::run` and the two `decodePacket()` loops
(`AudioDecode.cpp:23-100`, `VideoDecode.cpp:31-120`), between a packet queue and a ring that
are the bounded FIFOs of the two modules above. `kind`, chosen in `Init`, says whose loop
runs: the two differ in what they do when the codec refuses a packet. The codec is external
and modelled by the contract of `avcodec_send_packet` and `avcodec_receive_frame`: it keeps
`Delay` frames for reordering, and refuses a packet with `EAGAIN` while more than
`Delay + Backlog` frames are waiting in it. A packet decodes into any number of frames of
`Yields`, and any packet may be damaged; both are chosen in `Init`. `owed` counts the packets
refused since the last frame.

`Playback` composes the whole pipeline of a started player: one demuxer
(`FFDemux::readPacket`), two decoders, the loops `audioPlay` and `videoPlay` of
`MediaSync2`, the list of PCM blocks, and the OpenSL callback. Queues and rings are
reduced to how many items they hold (their order and wakeups are the business of `Queue`,
`FrameQueue` and `Decode`), and a packet is one frame. What is left is how the parts hold
each other up. The file, chosen in `Init`, is a sequence of streams: any interleaving of
audio and video, the packets of the two streams that `av_read_frame` returns. Any read may
instead bring neither decoder a packet (`ReadFails`, `Retry`): it fails with an error other than
the end of the file, or the packet belongs to a third stream (`FFDemux.cpp:116-126, 139-146`).
The code tries again at once, without bound, and so does the model. A picture sets
`lastFramePts`, and so may let the sound begin, before it is popped. Sound waits until a picture with a time stamp other than 0 was shown
(`MediaSync2.cpp:35`); `zeroPts` says whether the first one has time stamp 0.
The pause and stop requests are the two flags every thread polls; a callback that sleeps a
pause out looks at the stop request only while the pause lasts (`SLAudioPlay.cpp:115-123`).

`PlayerLifecycle` models the calls that `PlayerActivity.kt` makes on the UI thread against
the threads they start: `_start()` (`xplay.cpp:151-154`) closes the source, opens it anew,
reads the parameters, each under `FFDemux::mutex`, and starts another set of threads
every time. Each opening of the source has a number, so that a stale `pStream` and packets
of an earlier opening can be told apart. The packet queue is one queue, and decoders
only empty it. A read may fail and be tried again without bound, each time with the mutex
taken and given back. `start()` starts the decoders, may ask for the sample rate, which takes
the mutex, and starts the demuxer last. Of the several times that `openSource()` takes the mutex
to read a parameter the last one stands for all: none of them changes anything.
`MediaPlayer::mutex` is held for a whole call and is part of the call.
`release()` and `initView()` are in `VideoOutput`, the handler's messages in `Looper`.

`AudioOutput` follows a block of sound from `audioPlay` through `IResample::update` and
`IObserver::notify` into the list of `IAudioPlay`, and from there through `getData()` to
`SLAudioPlay::playCall`. It has the granularity of `Queue`: the test and the `wait()` of
`update` and `getData` are two steps with `framesMutex` held between them, `stop()` sets its
flag and notifies in three steps without the mutex. A wait is not a loop here, so that one
spurious wakeup at most is an action of its own. Every `start()` makes another OpenSL player
with its own callback and another audio loop, and registers the same `IAudioPlay` as an observer
of the resampler once more; from then on each block is appended, played and deleted
twice, which the module records in `fault` (an undefined read ends the behaviour). The
buffer that two callbacks would copy into and the resampler's context, both used without a
mutex then, are not modelled. A callback that slept a pause out goes on to `getData()` although
the player was stopped meanwhile. The position message that a callback sends before it returns
(`SLAudioPlay.cpp:132-134`) is left out: `Looper` shows that such a call returns unless the
handler is deaf.

`MediaSync` models when a picture is shown: `videoPlay()`, `calculateDelay()`, the clocks of
`MediaClock.cpp` and `audioCallBack()`. Time is counted in ticks. A clock is a time stamp plus
its age, so that only the difference of the two last time stamps (`lead`) and two ages have to
be kept; `NAN` is a state of a clock (`unset` before the first time stamp, `nan` after
a frame without one). After a pause the video thread restarts both clocks at what was presented
last, and may overwrite what the device has just set with the `lastAudioPts` it read before:
0 ahead of the first block, a block older, or `NAN` (`sound` remembers which, and `RestartAudio`
has the choice).
Distances between pictures, first time stamps, stalls and pauses are free within bounds; the
decoders deliver no picture more than `MaxAhead` before the first sound, as they cannot with
their bounded queues, and a picture already `MaxBehind` late is not delayed any further.

`Looper` models `xhandler`: the start of a handler's thread (`LooperManager::getInstance`,
which tests and sets its pointer without a mutex, `createLooper`, and `getLooper` once more in
`loop()`), `postMessage` down to `XMessageQueue::push`, `_loop` with `pop`, and `~XHandler`.
The mutex of the looper is a variable, since a sender keeps it while it waits for room; the
mutex of the queue is the guard `MayPush`. Thread ids of dead threads are used again.
The only handler thread of the application is `MediaPlayer`, which `release()` does not
delete; the deletion is modelled because the package's destructors define it. `PostersAssumption`
says that the value of a free mutex is not itself a sender.

`VideoOutput` models `GLVideoView`, `XTexture::init`, the one `XEGL` of the process and
the `window` of `xplay.cpp` that all players share. Each player is created, started, stopped and
released on the UI thread in the order of `PlayerActivity.kt`; the thread that
`onSurfaceTextureAvailable` starts makes each read of the shared window a step of its own.
`release()` joins no thread: a thread that goes on afterwards uses deleted objects, which ends
the behaviour (`crashed`). Each player starts once; what a second start does is in
`PlayerLifecycle` and `AudioOutput`. Its specification is `OutSpec`, and the definitions that
`MediaSync` has too begin with `Out`: pictures are timed there and drawn here, and one
module, `PictureProofs`, proves what is proved of both.

## Runs

| Run | Shows | Bounds, and why they are enough |
|---|---|---|
| `queue_safety` | No wakeup is lost; `quit()` leaves at most one thread asleep; `Queue` implements `BoundedBuffer`; items are delivered | two producers and two consumers (two of a kind are needed for a wakeup to go to the wrong one), one place so that full and empty are one step apart, spurious wakeups, on which no fairness is assumed, so that they do not hide a lost one |
| `ring` | No slot in use is written or released; a torn frame is seen only by a consumer with nothing else to show; the ring is a FIFO; the decoder is released | three slots and eight frames, so that the indexes wrap more than twice; one `flush()` |
| `ring_wakeups` | What survives when the decoder is woken by something other than `popFrame()` | two slots, every disturbance |
| `decode_stream` | Only refused or damaged packets are missing, frames stay in order, the video decoder takes no other packet before a refusal has brought a frame, one refusal silences the audio decoder for good, single-frame packets are never refused; everything but the codec's delay is delivered; a stopped decoder ends or blocks | both decoders, every stream of four packets of none, one or three frames, delay 1: refusal and recovery happen, and packets of three frames have two refusals follow upon each other; pauses and stop at any time |
| `playback_streams` | A well interleaved file plays to its end unless reads fail for good; one whose opening picture comes an audio packet too late never plays; nothing is lost | every file of up to six packets, read errors at any time, a codec that delays by one picture; no requests (with them the files would have to be shorter; that nothing but the end stops a file, whatever was requested before, is proved, `PlaysToTheEnd`). The audio side takes in `PacketCap + RingCap + 1` = 4 packets, so six are enough for both sides of the limit |
| `playback_requests` | After a pause or stop each stage finishes at most one item | every file of one to four packets, pause and stop at any time; no delay in the codec, so that after the one or two pictures that open the sound two more items are there for the sound's loop and the device as well |
| `lifecycle_calls` | With repeated calls of `start()`: packets stay in order; a thread reads a closed source only when an opening failed or a further `start()` is between closing and opening; `start()` returns unless a pause or a blocked demuxer keeps the mutex or reads fail for good | three starts, two packets, two places: three demuxer threads on one source, each able to block |
| `lifecycle_start` | Violation: `start()` on a paused or stopped player plays nothing | one start |
| `audio_device` | The list exceeds `maxFrameBuffer` by one block at most until `stop()`; a callback takes from an empty list only after a spurious wakeup or with a second device, and a block is used after its deletion only with a second registration; left alone, one player plays every block; a second `start()` returns, unless the player is paused | two starts (one more registers nothing new), two blocks each appended twice, a list that is full with one block, so that both loops and both callbacks wait; `maxFrameBuffer` is 100 in the code |
| `media_sync` | A sleep is bounded; pictures less than `maxFrameDuration` ahead of the sound, or by a block less than that behind it, come to within the thresholds and stay there; pictures later than `maxFrameDuration` never catch up | thresholds of 1 and 3 ticks, `maxFrameDuration` 8, blocks of 2 ticks, pictures 2, 3 or 4 ticks apart (below, at and beyond the larger threshold), so that every branch of `calculateDelay` is taken and differences reach both sides of each limit; two mishaps (pauses, stalls, unknown time stamps), so that one can follow upon another |
| `looper_handlers` | No thread reads another handler's queue; at most one late message; why a loop ends unasked; calls return; messages are dispatched | two handlers, ids equal or different, a queue of one place and two messages, so that a sender waits while the handler is deleted |
| `video_output` | A picture that waits gets its window; why a player draws out of sight or on a dead window | two players, together or one after the other, two surfaces: each hazard needs one other player |

`CHECK_DEADLOCK FALSE` is set where the system may rest: nobody has to push, the file
ends, a stopped thread is gone, or (what the properties are about) threads block for good.

Fairness. Each thread is weakly fair: the operating system schedules it whenever
it can move, and sleeps end. Nothing is assumed of the user's requests, and nothing of
who gets a free mutex: `std::mutex` is not fair, so `StartReturns` may rely only on the
demuxer coming to the end of the file. Nothing in the code makes failing reads come to an end
either: `FileIsPlayed` and this `StartReturns` have as their premise that reads do not fail
for good. In `Queue` and `FrameQueue` the other side is
assumed to go on pushing or consuming, as the loops around them do. In `Playback` a
picture is due at some time (`videoPlay` sleeps a finite time) and the device asks for
the next block once it has got one. In `AudioOutput` likewise each device calls back when
its buffer has been played, and calls that began go on; neither spurious wakeups nor
resampled frames are assumed to come. In `MediaSync` time goes on, and so do the two
threads; no pause has to end and no stalled stream to come back. In `Looper` the threads and the
calls under way go on; a free mutex goes to anybody, nobody has to send or delete. In
`VideoOutput` the rendering threads and those that bring a surface go on; no surface has to come.

Several properties hold under a condition that says where the code fails without it.
`StartReturns` of `AudioOutput` excludes a paused player: there `start()` waits for the
mutex that `notify()` holds while `update()` waits for room, and since
`MediaPlayer::start` holds the player's mutex meanwhile, `resume()` cannot end the wait.
`FaultsHaveCauses` (there) names what makes `getData()` take the front of an empty list, against
the comment at `IAudioPlay.h:27`: a spurious wakeup, or another device on the same list; and a
block is used after it was deleted only when the list is registered twice, however many devices
there are. `UnsafeOnReopening` names the ways to a closed source in the same manner.
`StartReturns` of `PlayerLifecycle` excludes a pause and, after a stop, a demuxer found blocked.
`CallsReturn` and `Delivered` exclude a deaf handler, whose loop has ended though nobody asked:
`DeafReason` names the two ways to that. `UnseenReason` and `DeadWindowReason` say for which
reasons alone a player draws out of sight or to a window that was given back.
`Converges` asks for a picture less than `maxFrameDuration` ahead of the sound or, by a block, less
than that behind it: sound is reported a block at a time, so that a picture in the band of
one block below the limit may be found beyond it at the next look, and `NeverCaughtUp` shows
that it then stays behind. It also leaves out the time until the next block after a clock was
overwritten with an older value.

## What disagrees with the documentation

* `lifecycle_start`: `IMediaPlayer.java:144-147` says `start()` resumes a paused player
  and restarts a stopped one. `pauseRequest` and `abortRequest` are left as they are.
* The comment at `Queue.h:103` says of `finished()` that "the queue has finished accepting
  input". A push that has passed its test of the flag still goes through, because
  `finished()` does not take the mutex; `BoundedBuffer`, which `Queue` implements, lets in one
  push at most.
* A comment at `AudioDecode.cpp:49` says a refused packet must be decoded again. It is neither
  sent again nor does the loop receive a frame, so that the codec goes on refusing:
  `AudioStallsForGood`, checked by `decode_stream` and proved, says so.

## Proofs

| Module | Proved, for all values of the constants | Inductive invariant |
|---|---|---|
| `QueueProofs` | types, no lost wakeup, the two bounds on stranded threads, the end of the stream, that `Queue` implements `BoundedBuffer`, and that producers and consumers never all wait for each other (`NobodyWaitsForNobody`) | `IInv`: who is past its test of a flag holds the mutex (`LockInv`); between the two notifications of `quit()` and after the one of `finished()` at most one thread is late (`QuitInv`, `FinishInv`). The properties alone are not inductive, since they only speak of completed calls. `HolderInv`: who holds the mutex is in a critical section, and so can move |
| `FrameQueueProofs` | types, the agreement of indexes and counter, the safety of slots being filled and used, torn frames, that the ring implements `BoundedBuffer`, the reasons of a waiting decoder, and that ring and polling loop never starve each other (`NeitherStarves`) | `IInv`: a decoder past its wait has room (`RoomInv`), the distance of the indexes is the number of frames between them (`CountInv`), and each slot holds the frame its distance from `rindex` says (`SlotInv`). Assumes `PlayerUse`: the ring keeps the last frame, as both decoders build it, and there is no spurious wakeup, no second `start()` and no `abort()` while the ring is in use. Under `IInv` the frames visible to the consumer are `used + 1 .. made` (`VisibleFrames`), so that `Mark` is the abstract `Put` and `popFrame` the abstract `Take`. Two theorems do without `PlayerUse`. `AgreesWhateverWakes` holds under every disturbance, given the kept frame: `AnyInv` knows the distance of the indexes only up to turns of the ring (`HeldInv`), that no slot beyond those counted is visible (`MarkedInv`), and forgets which frames the slots hold. `WaitsForRoom` needs nothing: `WaitJustified` is inductive |
| `DecodeProofs` | types; single frames are never refused; the audio decoder's silence; the bound after a request; no packet after a refusal of the video decoder before a frame (`Paid`); only refused and damaged packets lose frames; the ring gets frames in stream order; with single frames nothing is ever missing but the codec's delay (`DelayBehind`) | one invariant per property: what the codec holds at each point of the loop (`CodecDrained`, `Stalled`, `Paid`); for the order `OrderInv` and `PacketsInOrder`: ring, hand, codec, packet in hand and packet queue follow each other in the stream; for the number of frames `Counted` (those in the ring, in hand and in the codec are those of the packets taken), `Numbered` (which packets these are) and `Filled` (the codec gives nothing before its delay is full) |
| `PlaybackProofs` | types; nothing is lost; a skewed file never plays; the bound after a request; a well interleaved file can only stop at its end (`PlaysToTheEnd`); apart from failed reads and their retries, threads take a bounded number of steps (`EachStepCounts`, `WorkIsBounded`) | `Inv`: packets read are carried, queued or decoded, frames produced are in hand, in the ring or presented; `GateShut`: while the opening picture is missing, the demuxer cannot get past the audio packet that no longer fits; `Obeying`: whoever was late once is back at its tests; `Output`: threads end after a stop only, and sound is in the output only after an opening picture |
| `PlayerLifecycleProofs` | types; packets in order; the ways to a closed source (`ReopeningOnly`); a `start()` that waits, waits for a thread that can move (`StartCannotHang`) | `Structure`: at most one thread has the demuxer's mutex, and what it carries comes from the open source; `Youngest`: how the youngest packet queued relates to the one read next; `Started`: each start made a decoder and then a demuxer, and decoders end after `stop()` only; `Reopening`: the source is closed only after a failed opening or between `close()` and the opening after it, and until a second call `pStream` is null or points into the open source |
| `AudioOutputProofs` | types; the list's bound; the causes of its faults (`FaultsExplained`); no call of `start()` is stuck without a reason (`StartCannotHang`); at rest every block was played (`RestsWhenPlayed`) | `Structure`: the loop inside `notify()` is the only one in `update()`; `Room`: a loop woken finds room; `Numbering`: blocks deleted, in hand, in the list and still to be appended follow each other without a gap as long as the list is registered once, however many devices take from it; `Served`: the callback of a single device, once woken, finds a block; `SleepersJustified`: loops sleep on a list that is too long and callbacks on an empty one, so never both; `EndsAfterStop`; `AllPlayed`: with one start the blocks that left the list are the ones played |
| `LooperProofs` | types; no thread reads another handler's queue; at most one late message; the reasons of a deaf handler; at rest all calls have returned and all messages were dispatched, except at deaf or deleted handlers (`ComesToRest`) | `Registry`: running threads have ids of their own, and a looper is registered under its thread's; `Readers`: a looper that is found although it is another thread's has been told to quit, so that its finder ends at its first test; `LateInv`: only what was decided before `quit()` is dispatched after it; `DeafInv`: a looper once registered stays so, and who found the id taken found a looper told to quit; `Sending`: who is in `push()` holds the looper's mutex, and the looper exists; `Waiting`: senders wait on a full queue and loops on an empty one, and messages accepted are dispatched, in hand or queued |
| `PictureProofs`, of `MediaSync` | types; the bound of a sleep; pictures found too late never catch up (`LateForGood`); pictures in time with sound reported on time stay so (`StaysInSync`); of `calculateDelay()` by itself that it brings pictures nearer to the sound and never past it (`DelayCorrects`) | `ClockInv`: types and bound, with the arithmetic in `DelayBounded`; `Resting`: the sleep left over when the loop polls again belongs to a pause; `InTime`: how far the picture being slept for will be from the sound |
| `PictureProofs`, of `VideoOutput` | types; why a picture is rendered without a window; why a player renders to a window that was given back | `OutInv`: what a player has in each phase, and that players alive together have met (`Lifetimes`); every window passed around came with a surface (`Ownership`); a window given back, or none, reaches a player only when another was released in its lifetime, or after a spurious wakeup (`DeadReason`, `LostReason`); an EGL surface belongs to the texture of a living player (`Drawn`). `UnseenReason` alone is not inductive: the window is lost several steps before a picture is rendered without it |

The proofs assume no more than the named `ASSUME`s of the modules (capacities are
positive, and so on), which TLC evaluates for each run, and what a theorem's own `ASSUME` names:
`PlayerUse` and `KeepLast` above, and for `StaysInSync` that the larger threshold and the work on
a picture together are less than `maxFrameDuration`.

Liveness under fairness is out of the prover's reach, and so are `ENABLED` and recursion over
data. What remains of a liveness property is its safety half, that the system cannot have come
to rest anywhere but where the property wants it, and eight theorems state that, with the
condition of each thread's being unable to move written out:

| Liveness property (model-checked) | Safety half (proved) |
|---|---|
| `ItemsDelivered` of `Queue` | `NoDeadlock` |
| `FramesConsumed` of `FrameQueue` | `DecoderServed` |
| `AllButDelayDelivered` of `Decode` | `OnlyDelayMissing` |
| `FileIsPlayed` of `Playback` | `NeverStuck`, and the bound on the number of steps, which makes it come to rest |
| `StartReturns` of `PlayerLifecycle` | `StartNotStuck` |
| `EveryBlockPlayed` and `StartReturns` of `AudioOutput` | `PlayedWhenStuck` and `StartNotStuck` |
| `CallsReturn` and `Delivered` of `Looper` | `RestsDone` |

For `Playback` that is all of the argument but its last line: each step of a thread, other than a
failed read and its retry, adds to `Work`, and those two leave it as it is; `Work` is bounded by
the length of the file; hence threads that are scheduled come to rest once reads fail no more,
and they cannot rest before the end. A demuxer whose reads go on failing does spin. `StopEndsOrBlocks`, `RenderReturns` and `Converges` have no
such counterpart: the first says that a thread that can move does, the other two need steps
of particular threads to be counted.

Only model-checked: these liveness properties. Every other property of a passing run is the
conclusion of a theorem. Proved but not among the runs' properties, because the proof covers
every instance: the type invariants, the safety halves above, `RingConsistent`,
`FinishStrandsAtMostOne`, `EndOfStreamIsFinal`, `RequestsSoonObeyed` of `Decode`, `InSyncKept`,
and the bound on `Work`. Those were checked by TLC on the runs' instances before they were
proved.

## Not modelled

* The metadata retriever: sequential, on one thread; its only caller (`PlayerActivity.kt:32-48`) is
  commented out, so that no order of calls is there to be modelled.
* `PacketQueue`: used by a test class only. `finished()`, `peek`, `last` and `length` of
  `XMessageQueue`, and speed, pause and `syncToSlave` of `MediaClock`: without callers.
* `PlayerState`'s option parsing, the JNI forwarding and the builder, logging, and the user
  interface except for the order of its calls.
* Payload memory and its ownership, pixel and sample formats, shaders and vector mathematics.
* What happens inside FFmpeg, EGL or a destructed object after a use that the code does not
  order (a second `openDecode()` under a running decoder, `flush()` from `~IDecode` against
  `popFrame`, threads left over by `release()`). The models that reach such a use end there, and
  properties say when it cannot happen.
* The failure of single OpenSL and EGL calls: the code logs them and goes on.

Most lines of the tree are vendored headers of FFmpeg and libyuv for two architectures; the
player's own code is a few thousand lines.

## State of the plan

Every component with concurrent state of its own is modelled, and what its runs check besides
liveness is proved. Worth doing next: work measures like that of `Playback` for `AudioOutput` and
`Looper`, so that their rest is known to come, and the safety half of `RenderReturns`.

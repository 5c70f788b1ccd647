----------------------------- MODULE MediaSync ------------------------------
(* xplayer/sync: when a picture is shown.  videoPlay() sleeps the distance   *)
(* between two pictures, stretched or cut by calculateDelay() after the      *)
(* difference of two clocks.  A clock is a time stamp that grows with time:  *)
(* the video clock is set when a picture is shown, the audio clock by        *)
(* audioCallBack() when the device takes a block.                            *)
(*                                                                           *)
(* Time is counted in ticks, and only what the code can tell apart is kept:  *)
(* lead is lastFramePts - lastAudioPts, and the readings of the clocks are   *)
(* ageV above lastFramePts and ageA above lastAudioPts.  A frame without a   *)
(* time stamp has one that the code does not know.                           *)
EXTENDS Integers

CONSTANTS Min, Max, Dup,  \* AV_SYNC_THRESHOLD_MIN, _MAX, _FRAMEDUP_THRESHOLD
          NoSync,         \* maxFrameDuration
          Nap,            \* how long the threads sleep in a pause
          Work,           \* bound: ticks from one picture to the next look
          Block,          \* ticks of sound in a block
          FirstPts,       \* bound: time stamps of the first picture and block
          Spacings,       \* bound: distances between pictures
          MaxAge,         \* bound: how long nothing is presented
          MaxMishaps,     \* bound: pauses, stalls and unknown time stamps
          MaxAhead,       \* bound: how far pictures get before the first sound
          MaxBehind       \* bound: a picture this late gets no later

ASSUME ThresholdsAssumption ==
    /\ Min \in Nat \ {0} /\ Max \in Nat /\ Dup \in Nat /\ NoSync \in Nat
    /\ Min <= Max /\ Dup <= Max /\ Max < NoSync
ASSUME TimesAssumption ==
    /\ Nap \in Nat \ {0} /\ Work \in Nat /\ Block \in Nat \ {0}
    /\ FirstPts \subseteq Nat
    /\ Spacings \subseteq {d \in Nat : d > Work}
    /\ MaxAge \in Nat /\ MaxMishaps \in Nat
    /\ MaxAhead \in Nat /\ MaxBehind \in Nat

VARIABLES lead, ageV, ageA,
          video, audio, \* each clock: "unset", at "zero", "nan" or "set"
          opened,       \* lastFramePts # 0
          pc,           \* where videoPlay() is
          left,         \* ticks it goes on sleeping
          next,         \* the picture it sleeps for: distance, time stamp known
          resumeAfterPause,
          sound,        \* lastAudioPts, and what it was before: see Sounds
          device,       \* what the OpenSL player is about
          busy,         \* ticks until it goes on
          paused,       \* pauseRequest
          stopped,      \* stop(): isExist, isExit, and no playerHandler
          missing,      \* streams of which there is nothing to present
          mishaps       \* how many there were

picture == <<video, opened, pc, left, next, resumeAfterPause>>
player  == <<device, busy, audio, sound>>
world   == <<paused, stopped, missing, mishaps>>
vars    == <<lead, ageV, ageA, picture, player, world>>

Streams == {"audio", "video"}

NoPicture == [distance |-> 0, known |-> TRUE]

(* Is lastAudioPts a time stamp or NAN; and, until the block is reported,    *)
(* the same of the value it had before, and how far below it that was.       *)
Sounds == [known : BOOLEAN, before : BOOLEAN, distance : Nat]
Quiet(known) == [known |-> known, before |-> TRUE, distance |-> 0]

Init == /\ lead = 0 /\ ageV = 0 /\ ageA = 0
        /\ video = "unset" /\ audio = "unset" /\ opened = FALSE
        /\ pc = "poll" /\ left = 0 /\ next = NoPicture
        /\ resumeAfterPause = FALSE
        /\ device = "check" /\ busy = 0 /\ sound = Quiet(TRUE)
        /\ paused = FALSE /\ stopped = FALSE
        /\ missing = Streams /\ mishaps = 0

-----------------------------------------------------------------------------
(* The user, the decoders, and the time.                                     *)
Diff  == lead + ageV - ageA
Known == video \in {"zero", "set"} /\ audio \in {"zero", "set"}

Mishap == mishaps < MaxMishaps /\ mishaps' = mishaps + 1
NoMishap == UNCHANGED mishaps

Pause == /\ ~paused /\ paused' = TRUE /\ Mishap
         /\ UNCHANGED <<lead, ageV, ageA, picture, player, stopped, missing>>

Resume == /\ paused /\ paused' = FALSE
          /\ UNCHANGED <<lead, ageV, ageA, picture, player, stopped,
                         missing, mishaps>>

Stop == /\ ~stopped /\ stopped' = TRUE
        /\ UNCHANGED <<lead, ageV, ageA, picture, player, paused,
                       missing, mishaps>>

Stall(s) == /\ s \notin missing /\ missing' = missing \cup {s} /\ Mishap
            /\ UNCHANGED <<lead, ageV, ageA, picture, player, paused, stopped>>

Supply(s) == /\ s \in missing /\ missing' = missing \ {s}
             /\ UNCHANGED <<lead, ageV, ageA, picture, player, paused,
                            stopped, mishaps>>

World == Pause \/ Resume \/ Stop \/ \E s \in Streams : Stall(s) \/ Supply(s)

(* What each thread may wait for while time goes by.                         *)
NoPictureYet == \/ "video" \in missing
                \/ audio \in {"unset", "zero"} /\ lead > MaxAhead

VideoWaits == \/ pc = "exited" \/ left > 0
              \/ /\ pc = "poll" /\ ~stopped /\ ~paused
                 /\ NoPictureYet \/ (ageV < Work /\ Diff > -MaxBehind)
DeviceWaits == \/ device = "ended" \/ busy > 0
               \/ device = "get" /\ ~stopped /\ ("audio" \in missing \/ ~opened)

Older(age, clock) == IF clock = "unset" THEN age ELSE age + 1

Tick == /\ VideoWaits /\ DeviceWaits
        /\ pc # "exited" \/ device # "ended"
        /\ missing # {} \/ paused => ageV < MaxAge /\ ageA < MaxAge
        /\ ageV' = Older(ageV, video) /\ ageA' = Older(ageA, audio)
        /\ left' = IF left > 0 THEN left - 1 ELSE 0
        /\ busy' = IF busy > 0 THEN busy - 1 ELSE 0
        /\ UNCHANGED <<lead, video, audio, opened, pc, next, resumeAfterPause,
                       device, sound, world>>

-----------------------------------------------------------------------------
(* videoPlay().                                                              *)
VideoExit == /\ pc = "poll" /\ left = 0 /\ stopped
             /\ pc' = "exited"
             /\ UNCHANGED <<lead, ageV, ageA, video, opened, left, next,
                            resumeAfterPause, player, world>>

NapInPause == /\ pc = "poll" /\ ~stopped /\ paused /\ left = 0
              /\ left' = Nap
              /\ resumeAfterPause' = TRUE
              /\ UNCHANGED <<lead, ageV, ageA, video, opened, pc, next, player,
                             world>>

MayLook == pc = "poll" /\ left = 0 /\ ~stopped /\ ~paused /\ ~NoPictureYet

Stamp(known) == IF known THEN "set" ELSE "nan"

(* After a pause both clocks are restarted at what was presented last.  The  *)
(* device may have set lastAudioPts and its clock to a new block in between: *)
(* then the value read before overwrites that clock.                         *)
RestartAudio == \/ /\ ageA' = 0
                   /\ audio' = IF audio \in {"unset", "zero"} THEN "zero"
                               ELSE Stamp(sound.known)
                \/ /\ device = "report"
                   /\ ageA' = 0 - sound.distance /\ audio' = Stamp(sound.before)

Look == /\ MayLook
        /\ pc' = "decide"
        /\ IF resumeAfterPause
             THEN /\ ageV' = 0 /\ video' = IF video = "unset" THEN "zero" ELSE video
                  /\ RestartAudio
             ELSE UNCHANGED <<ageV, ageA, video, audio>>
        /\ resumeAfterPause' = FALSE
        /\ UNCHANGED <<lead, opened, left, next, sound, device, busy, world>>

Threshold(d) == IF d < Min THEN Min ELSE IF d > Max THEN Max ELSE d

(* Mutant: clocks far apart are followed as well.                            *)
CalculateDelayAlways(d) ==
    LET t == Threshold(d) IN
    IF ~Known THEN d
    ELSE IF Diff <= -t THEN IF d + Diff > 0 THEN d + Diff ELSE 0
    ELSE IF Diff >= t THEN IF d > Dup THEN d + Diff ELSE 2 * d
    ELSE d

(* Mutant: the difference has the wrong sign.                                *)
CalculateDelaySwapped(d) ==
    LET t == Threshold(d) IN
    IF ~Known \/ Diff >= NoSync \/ Diff <= -NoSync THEN d
    ELSE IF Diff <= -t THEN 2 * d
    ELSE IF Diff >= t THEN IF d > Diff THEN d - Diff ELSE 0
    ELSE d

CalculateDelay(d) ==
    LET t == Threshold(d) IN
    IF ~Known \/ Diff >= NoSync \/ Diff <= -NoSync THEN d
    ELSE IF Diff <= -t THEN IF d + Diff > 0 THEN d + Diff ELSE 0
    ELSE IF Diff >= t THEN IF d > Dup THEN d + Diff ELSE 2 * d
    ELSE d

(* No sleep when the distance to the last picture is not known.  The first   *)
(* picture is slept for from time stamp 0.                                   *)
Decide == /\ pc = "decide"
          /\ \E d \in IF video \in {"unset", "zero"} THEN FirstPts ELSE Spacings,
                known \in BOOLEAN :
               /\ IF known THEN NoMishap ELSE Mishap
               /\ next' = [distance |-> d, known |-> known]
               /\ left' = IF known /\ video # "nan" THEN CalculateDelay(d) ELSE 0
          /\ pc' = "sleep"
          /\ UNCHANGED <<lead, ageV, ageA, video, opened, resumeAfterPause,
                         player, paused, stopped, missing>>

Show == /\ pc = "sleep" /\ left = 0
        /\ lead' = lead + next.distance
        /\ ageV' = 0
        /\ video' = Stamp(next.known)
        /\ opened' = (opened \/ ~next.known \/ next.distance > 0)
        /\ pc' = "poll" /\ next' = NoPicture
        /\ UNCHANGED <<ageA, left, resumeAfterPause, player, world>>

Video == VideoExit \/ NapInPause \/ Look \/ Decide \/ Show

-----------------------------------------------------------------------------
(* SLAudioPlay::playCall and audioCallBack().                                *)
DeviceChecks == /\ device = "check" /\ busy = 0
                /\ device' = IF stopped THEN "ended"
                             ELSE IF paused THEN "check" ELSE "get"
                /\ busy' = IF ~stopped /\ paused THEN Nap ELSE 0
                /\ UNCHANGED <<lead, ageV, ageA, picture, audio, sound, world>>

DeviceEnds == /\ device = "get" /\ stopped
              /\ device' = "ended"
              /\ UNCHANGED <<lead, ageV, ageA, picture, audio, sound, busy, world>>

(* The first block may start anywhere; audioPlay() delivers none before a    *)
(* picture was shown.  A handler cleared by stop() gets no message.          *)
AudioCallBack ==
    /\ device = "get" /\ opened /\ "audio" \notin missing
    /\ \E b \in IF audio \in {"unset", "zero"} THEN FirstPts ELSE {Block},
          known \in BOOLEAN :
         /\ IF known THEN NoMishap ELSE Mishap
         /\ lead' = lead - b
         /\ audio' = Stamp(known)
         /\ IF stopped
              THEN device' = "check" /\ busy' = Block /\ sound' = Quiet(known)
              ELSE /\ device' = "report" /\ busy' = 0
                   /\ sound' = [known |-> known, before |-> sound.known, distance |-> b]
    /\ ageA' = 0
    /\ UNCHANGED <<ageV, picture, paused, stopped, missing>>

(* The handler tested before is read again, or not, when the message is      *)
(* posted: stop() may have cleared it.                                       *)
Report == /\ device = "report"
          /\ device' \in IF stopped THEN {"check", "crashed"} ELSE {"check"}
          /\ busy' = Block /\ sound' = Quiet(sound.known)
          /\ UNCHANGED <<lead, ageV, ageA, picture, audio, world>>

Device == DeviceChecks \/ DeviceEnds \/ AudioCallBack \/ Report

-----------------------------------------------------------------------------
Next == /\ device # "crashed"
        /\ World \/ Tick \/ Video \/ Device

Spec == Init /\ [][Next]_vars

(* Time goes on, and so do the threads; nothing is asked of the world.       *)
FairSpec == Spec /\ WF_vars(Tick) /\ WF_vars(Video) /\ WF_vars(Device)

-----------------------------------------------------------------------------
TypeOK == /\ lead \in Int /\ ageV \in Nat /\ ageA \in Int
          /\ video \in {"unset", "zero", "nan", "set"}
          /\ audio \in {"unset", "zero", "nan", "set"}
          /\ opened \in BOOLEAN
          /\ pc \in {"poll", "decide", "sleep", "exited"}
          /\ left \in Nat
          /\ next \in [distance : Nat, known : BOOLEAN]
          /\ resumeAfterPause \in BOOLEAN
          /\ device \in {"check", "get", "report", "ended", "crashed"}
          /\ busy \in Nat /\ sound \in Sounds
          /\ paused \in BOOLEAN /\ stopped \in BOOLEAN
          /\ missing \subseteq Streams /\ mishaps \in 0..MaxMishaps

(* A picture is slept for no longer than its distance from the last one and  *)
(* maxFrameDuration, whatever the clocks say (MediaSync2.cpp:122): clocks    *)
(* further apart are not followed.  During this sleep neither a pause nor a  *)
(* stop is seen.                                                             *)
SleepBounded == pc = "sleep" => left <= next.distance + NoSync

(* Streams present, no request, time stamps known, and the sound's clock at  *)
(* most a block from lastAudioPts: one that was overwritten when the sound   *)
(* began may be further off until the next block.                            *)
Calm == /\ missing = {} /\ ~paused /\ ~stopped /\ ~resumeAfterPause
        /\ video = "set" /\ audio = "set" /\ next.known
        /\ ageA \in (-Block)..Block

InSync == -(Max + Work) <= Diff /\ Diff <= Max

Shown == pc = "poll" /\ ageV = 0

(* Whatever happened before, first time stamps, pauses one thread noticed    *)
(* and the other did not, stalled streams or frames without time stamp: once *)
(* a picture was shown less than maxFrameDuration ahead of the sound or, by  *)
(* a block, less than that behind it, and all is calm, pictures come to      *)
(* within the thresholds and stay there (MediaSync2.cpp:97-107, 118-132).    *)
Converges ==
    []([]Calm /\ Shown /\ Diff < NoSync /\ Diff > Block - NoSync => <>[]InSync)

(* Pictures that are maxFrameDuration late do not catch up any more          *)
(* (MediaSync2.cpp:122).                                                     *)
NeverCaughtUp ==
    []([]Calm /\ Shown /\ Diff <= -NoSync => [](Diff <= -NoSync))
=============================================================================

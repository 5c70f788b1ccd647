--------------------------- MODULE PictureProofs ----------------------------
(* When a picture is shown, and where.  First MediaSync: what                *)
(* calculateDelay() computes for all thresholds, distances and clocks, that  *)
(* no picture is slept for longer than it allows, and that it never makes up *)
(* for maxFrameDuration.  Then VideoOutput: why a picture is not seen, for   *)
(* any number of players and windows.                                        *)
EXTENDS MediaSync, VideoOutput, TLAPS

(* The sleep is never negative and exceeds the distance to the last picture  *)
(* by no more than maxFrameDuration.                                         *)
LEMMA DelayBounded ==
  ASSUME lead \in Int, ageV \in Int, ageA \in Int, NEW d \in Nat
  PROVE  /\ CalculateDelay(d) \in Nat
         /\ CalculateDelay(d) <= d + NoSync
<1> DEFINE D == Diff
           t == Threshold(d)
<1>1. D \in Int
  BY DEF Diff
<1>2. t \in Nat \ {0} /\ (d <= Dup => d <= t)
  BY ThresholdsAssumption DEF Threshold
<1>3. CASE ~Known \/ D >= NoSync \/ D <= -NoSync
  <2>1. CalculateDelay(d) = d
    BY <1>3 DEF CalculateDelay
  <2> QED
    BY <2>1, ThresholdsAssumption
<1>4. CASE Known /\ D < NoSync /\ D > -NoSync
  <2>1. CalculateDelay(d) =
          IF D <= -t THEN IF d + D > 0 THEN d + D ELSE 0
          ELSE IF D >= t THEN IF d > Dup THEN d + D ELSE 2 * d
          ELSE d
    BY <1>1, <1>4, ThresholdsAssumption DEF CalculateDelay
  <2> HIDE DEF D, t
  <2> QED
    BY <2>1, <1>1, <1>2, <1>4, ThresholdsAssumption
<1> QED
  BY <1>1, <1>3, <1>4, ThresholdsAssumption

(* While the clocks are less than maxFrameDuration apart, the sleep makes a  *)
(* difference D + d - sleep out of a difference D (MediaSync2.cpp:118-132):  *)
(* it brings the pictures nearer to the sound and never past it, and leaves  *)
(* them alone within the threshold.                                          *)
THEOREM DelayCorrects ==
  ASSUME lead \in Int, ageV \in Int, ageA \in Int, NEW d \in Nat \ {0}, Known,
         Diff < NoSync, Diff > -NoSync
  PROVE  LET after == Diff + d - CalculateDelay(d) IN
         /\ Diff <= -Threshold(d) => Diff < after /\ after <= 0
         /\ Diff >= Threshold(d) => 0 <= after /\ after < Diff
         /\ Diff > -Threshold(d) /\ Diff < Threshold(d) => after = Diff
<1> DEFINE D == Diff
           t == Threshold(d)
           c == CalculateDelay(d)
<1>1. D \in Int
  BY DEF Diff
<1>2. t \in Nat \ {0} /\ (d <= Dup => d <= t)
  BY ThresholdsAssumption DEF Threshold
<1>3. c = IF D <= -t THEN IF d + D > 0 THEN d + D ELSE 0
          ELSE IF D >= t THEN IF d > Dup THEN d + D ELSE 2 * d
          ELSE d
  BY <1>1, ThresholdsAssumption DEF CalculateDelay
<1>4. D < NoSync /\ D > -NoSync
  OBVIOUS
<1> HIDE DEF D, t, c
<1>5. /\ D <= -t => D < D + d - c /\ D + d - c <= 0
      /\ D >= t => 0 <= D + d - c /\ D + d - c < D
      /\ D > -t /\ D < t => D + d - c = D
  BY <1>1, <1>2, <1>3, <1>4, ThresholdsAssumption
<1> QED
  BY <1>5 DEF D, t, c

-----------------------------------------------------------------------------
ClockInv == TypeOK /\ SleepBounded

LEMMA ClockInitial == Init => ClockInv
<1> SUFFICES ASSUME Init PROVE TypeOK /\ SleepBounded
  BY DEF ClockInv
<1>1. lead \in Int /\ ageV \in Nat /\ ageA \in Int /\ left \in Nat /\ busy \in Nat
  BY DEF Init
<1>2. next \in [distance : Nat, known : BOOLEAN]
  BY DEF Init, NoPicture
<1>3. missing \subseteq Streams
  BY DEF Init
<1>4. mishaps \in 0..MaxMishaps
  BY TimesAssumption DEF Init
<1>5. SleepBounded
  BY DEF Init, SleepBounded
<1>6. /\ video \in {"unset", "zero", "nan", "set"}
      /\ audio \in {"unset", "zero", "nan", "set"}
      /\ pc \in {"poll", "decide", "sleep", "exited"}
      /\ device \in {"check", "get", "report", "ended", "crashed"}
  BY DEF Init
<1>7. /\ opened \in BOOLEAN /\ resumeAfterPause \in BOOLEAN
      /\ paused \in BOOLEAN /\ stopped \in BOOLEAN
  BY DEF Init
<1>8. sound \in Sounds
  BY DEF Init, Sounds, Quiet
<1> QED
  BY <1>1, <1>2, <1>3, <1>4, <1>5, <1>6, <1>7, <1>8 DEF TypeOK

LEMMA ClockStep == ClockInv /\ [Next]_vars => ClockInv'
<1> SUFFICES ASSUME ClockInv, [Next]_vars PROVE ClockInv'
  OBVIOUS
<1> USE ThresholdsAssumption, TimesAssumption
    DEF ClockInv, TypeOK, SleepBounded, picture, player, world, Streams
<1>1. CASE World
  <2>1. /\ UNCHANGED <<lead, ageV, ageA, video, audio, opened, pc, left, next,
                       resumeAfterPause, sound, device, busy>>
        /\ paused' \in BOOLEAN /\ stopped' \in BOOLEAN
        /\ missing' \subseteq Streams /\ mishaps' \in 0..MaxMishaps
    <3>1. CASE Pause
      BY <3>1 DEF Pause, Mishap
    <3>2. CASE Resume
      BY <3>2 DEF Resume
    <3>3. CASE Stop
      BY <3>3 DEF Stop
    <3>4. ASSUME NEW s \in Streams, Stall(s) PROVE <2>1!:
      BY <3>4 DEF Stall, Mishap
    <3>5. ASSUME NEW s \in Streams, Supply(s) PROVE <2>1!:
      BY <3>5 DEF Supply
    <3> QED
      BY <1>1, <3>1, <3>2, <3>3, <3>4, <3>5 DEF World
  <2>2. UNCHANGED <<lead, ageV, ageA, video, audio, opened>>
    BY <2>1
  <2>3. UNCHANGED <<pc, left, next, resumeAfterPause, sound, device, busy>>
    BY <2>1
  <2> QED
    BY <2>1, <2>2, <2>3
<1>2. CASE Tick
  BY <1>2 DEF Tick, Older
<1>3. CASE Video
  <2>1. CASE VideoExit
    BY <2>1 DEF VideoExit
  <2>2. CASE NapInPause
    BY <2>2 DEF NapInPause
  <2>3. CASE Look
    <3>1. ageV' \in Nat /\ ageA' \in Int
      BY <2>3 DEF Look, RestartAudio, Sounds
    <3>2. /\ video' \in {"unset", "zero", "nan", "set"}
          /\ audio' \in {"unset", "zero", "nan", "set"}
      BY <2>3 DEF Look, RestartAudio, Stamp
    <3>3. /\ pc' = "decide" /\ resumeAfterPause' = FALSE
          /\ UNCHANGED <<lead, opened, left, next, sound, device, busy, paused,
                         stopped, missing, mishaps>>
      BY <2>3 DEF Look
    <3> QED
      BY <3>1, <3>2, <3>3
  <2>4. CASE Decide
    <3>1. PICK d \in Nat, known \in BOOLEAN :
            /\ next' = [distance |-> d, known |-> known]
            /\ left' = IF known /\ video # "nan" THEN CalculateDelay(d) ELSE 0
            /\ mishaps' \in 0..MaxMishaps
      BY <2>4 DEF Decide, Mishap, NoMishap
    <3>2. left' \in Nat /\ left' <= d + NoSync
      BY <3>1, DelayBounded
    <3>3. /\ pc' = "sleep"
          /\ UNCHANGED <<lead, ageV, ageA, video, audio, opened, resumeAfterPause,
                         sound, device, busy, paused, stopped, missing>>
      BY <2>4 DEF Decide
    <3> QED
      BY <3>1, <3>2, <3>3
  <2>5. CASE Show
    BY <2>5 DEF Show, NoPicture, Stamp
  <2> QED
    BY <1>3, <2>1, <2>2, <2>3, <2>4, <2>5 DEF Video
<1>4. CASE Device
  <2>1. CASE DeviceChecks
    BY <2>1 DEF DeviceChecks
  <2>2. CASE DeviceEnds
    BY <2>2 DEF DeviceEnds
  <2>3. CASE AudioCallBack
    <3>1. PICK b \in Nat, known \in BOOLEAN :
            /\ mishaps' \in 0..MaxMishaps
            /\ lead' = lead - b /\ audio' = Stamp(known)
            /\ \/ /\ device' = "check" /\ busy' = Block /\ sound' = Quiet(known)
               \/ /\ device' = "report" /\ busy' = 0
                  /\ sound' = [known |-> known, before |-> sound.known,
                               distance |-> b]
      BY <2>3 DEF AudioCallBack, Mishap, NoMishap
    <3>2. sound' \in Sounds
      <4>1. \A k \in BOOLEAN, e \in BOOLEAN, n \in Nat :
              [known |-> k, before |-> e, distance |-> n] \in Sounds
        BY Zenon DEF Sounds
      <4>2. sound.known \in BOOLEAN
        BY Zenon DEF Sounds
      <4> QED
        BY <3>1, <4>1, <4>2 DEF Quiet
    <3>3. ageA' = 0 /\ UNCHANGED <<ageV, picture, paused, stopped, missing>>
      BY <2>3 DEF AudioCallBack
    <3> QED
      BY <3>1, <3>2, <3>3 DEF Stamp
  <2>4. CASE Report
    BY <2>4 DEF Report, Sounds, Quiet
  <2> QED
    BY <1>4, <2>1, <2>2, <2>3, <2>4 DEF Device
<1>5. CASE UNCHANGED vars
  BY <1>5 DEF vars
<1> QED
  BY <1>1, <1>2, <1>3, <1>4, <1>5 DEF Next

LEMMA ClockInvariant == Spec => []ClockInv
BY ClockInitial, ClockStep, PTL DEF Spec

(* The variables keep their types; no sleep is negative.                     *)
THEOREM TypeCorrect == Spec => []TypeOK
<1>1. ClockInv => TypeOK
  BY DEF ClockInv
<1> QED
  BY ClockInvariant, <1>1, PTL

(* However far the clocks are apart, a picture is slept for no longer than   *)
(* its distance and maxFrameDuration.                                        *)
THEOREM SleepIsBounded == Spec => []SleepBounded
<1>1. ClockInv => SleepBounded
  BY DEF ClockInv
<1> QED
  BY ClockInvariant, <1>1, PTL

(* Pictures this late, and a sleep that lasts to the end of their distance.  *)
Late == /\ Diff <= -NoSync
        /\ pc = "sleep" => ageV + left >= next.distance

(* Clocks that far apart are not followed: each picture is slept for its     *)
(* whole distance, and a block of sound begins no earlier than the one       *)
(* before has ended.                                                         *)
LEMMA StaysLate ==
  TypeOK /\ Calm /\ Calm' /\ Late /\ [Next]_vars => Late'
<1> SUFFICES ASSUME TypeOK, Calm, Calm', Late, [Next]_vars PROVE Late'
  OBVIOUS
<1>1. /\ lead \in Int /\ ageV \in Nat /\ ageA \in Int /\ left \in Nat
      /\ next.distance \in Nat /\ NoSync \in Nat /\ Block \in Nat
  BY ThresholdsAssumption, TimesAssumption DEF TypeOK
<1>2. /\ video = "set" /\ audio = "set" /\ ageA <= Block
      /\ missing = {} /\ ~paused /\ ~stopped /\ ~resumeAfterPause
      /\ next'.known /\ missing' = {} /\ ~paused' /\ ~stopped'
  BY DEF Calm
<1>3. Diff \in Int /\ Diff <= -NoSync
  BY <1>1 DEF Diff, Late
<1> USE DEF picture, player, world
<1>4. ASSUME UNCHANGED <<lead, ageV, ageA, pc, left, next>> PROVE Late'
  BY <1>4 DEF Late, Diff
<1>5. CASE World
  <2>1. ~Pause /\ ~Resume /\ ~Stop
    BY <1>2 DEF Pause, Resume, Stop
  <2>2. \A s \in Streams : ~Stall(s) /\ ~Supply(s)
    BY <1>2 DEF Stall, Supply
  <2> QED
    BY <1>5, <2>1, <2>2 DEF World
<1>6. CASE Tick
  <2>1. ageV' = ageV + 1 /\ ageA' = ageA + 1
    BY <1>2, <1>6 DEF Tick, Older
  <2>2. left' = (IF left > 0 THEN left - 1 ELSE 0) /\ UNCHANGED <<lead, pc, next>>
    BY <1>6 DEF Tick
  <2>3. Diff' <= -NoSync
    BY <1>1, <1>3, <2>1, <2>2 DEF Diff
  <2>4. ageV' + left' >= ageV + left
    BY <1>1, <2>1, <2>2
  <2> QED
    BY <1>1, <2>1, <2>2, <2>3, <2>4 DEF Late
<1>7. CASE Video
  <2>1. ~VideoExit /\ ~NapInPause
    BY <1>2 DEF VideoExit, NapInPause
  <2>2. CASE Look
    <3>1. pc' = "decide" /\ UNCHANGED <<lead, ageV, ageA>>
      BY <1>2, <2>2 DEF Look
    <3> QED
      BY <1>3, <3>1 DEF Late, Diff
  <2>3. CASE Decide
    <3>1. PICK d \in Spacings, known \in BOOLEAN :
            /\ next' = [distance |-> d, known |-> known]
            /\ left' = IF known /\ video # "nan" THEN CalculateDelay(d) ELSE 0
      BY <1>2, <2>3 DEF Decide
    <3>2. next'.distance = d /\ known
      BY <1>2, <3>1
    <3>3. d \in Nat /\ left' = CalculateDelay(d)
      BY <1>2, <3>1, <3>2, TimesAssumption
    <3>4. left' = d
      BY <1>3, <3>3 DEF CalculateDelay
    <3>5. UNCHANGED <<lead, ageV, ageA>>
      BY <2>3 DEF Decide
    <3> QED
      BY <1>1, <1>3, <3>2, <3>3, <3>4, <3>5 DEF Late, Diff
  <2>4. CASE Show
    <3>1. /\ pc = "sleep" /\ left = 0 /\ lead' = lead + next.distance
          /\ ageV' = 0 /\ ageA' = ageA /\ pc' = "poll"
      BY <2>4 DEF Show
    <3>2. ageV >= next.distance
      BY <1>1, <3>1 DEF Late
    <3> QED
      BY <1>1, <1>3, <3>1, <3>2 DEF Late, Diff
  <2> QED
    BY <1>7, <2>1, <2>2, <2>3, <2>4 DEF Video
<1>8. CASE Device
  <2>1. CASE DeviceChecks \/ DeviceEnds \/ Report
    BY <1>4, <2>1 DEF DeviceChecks, DeviceEnds, Report
  <2>2. CASE AudioCallBack
    <3>1. /\ lead' = lead - Block /\ ageA' = 0
          /\ UNCHANGED <<ageV, pc, left, next>>
      BY <1>2, <2>2 DEF AudioCallBack
    <3> QED
      BY <1>1, <1>2, <1>3, <3>1 DEF Late, Diff
  <2> QED
    BY <1>8, <2>1, <2>2 DEF Device
<1>9. CASE UNCHANGED vars
  BY <1>4, <1>9 DEF vars
<1> QED
  BY <1>5, <1>6, <1>7, <1>8, <1>9 DEF Next

(* Pictures maxFrameDuration late never catch up while nothing disturbs      *)
(* them, however the threads are scheduled (MediaSync2.cpp:122).             *)
THEOREM LateForGood == Spec => NeverCaughtUp
<1>1. Shown /\ Diff <= -NoSync => Late
  BY DEF Shown, Late
<1>2. Late => Diff <= -NoSync
  BY DEF Late
<1> QED
  BY TypeCorrect, StaysLate, <1>1, <1>2, PTL DEF Spec, NeverCaughtUp

(* A thread that neither naps nor sleeps is not held up, and no block is     *)
(* taken before a picture was shown.                                         *)
Resting == /\ pc = "poll" /\ left > 0 => resumeAfterPause
           /\ pc = "decide" => left = 0
           /\ device \in {"get", "report"} => busy = 0
           /\ device = "report" \/ audio \in {"set", "nan"} => opened

LEMMA RestingStep == TypeOK /\ Resting /\ [Next]_vars => Resting'
<1> SUFFICES ASSUME TypeOK, Resting, [Next]_vars PROVE Resting'
  OBVIOUS
<1> USE DEF Resting, picture, player, world
<1>1. CASE World
  BY <1>1 DEF World, Pause, Resume, Stop, Stall, Supply
<1>2. CASE Tick
  <2>1. left \in Nat /\ busy \in Nat
    BY DEF TypeOK
  <2> QED
    BY <1>2, <2>1 DEF Tick
<1>3. CASE Video
  <2>1. CASE VideoExit \/ NapInPause
    BY <2>1 DEF VideoExit, NapInPause
  <2>2. CASE Look
    <3>1. audio' \in {"set", "nan"} => audio \in {"set", "nan"} \/ device = "report"
      BY <2>2 DEF Look, RestartAudio, TypeOK
    <3> QED
      BY <2>2, <3>1 DEF Look, MayLook
  <2>3. CASE Decide
    BY <2>3 DEF Decide
  <2>4. CASE Show
    <3>1. left = 0 /\ left' = left /\ (opened => opened')
      BY <2>4 DEF Show
    <3>2. pc' = "poll" /\ UNCHANGED <<device, busy, audio>>
      BY <2>4 DEF Show
    <3> QED
      BY <3>1, <3>2
  <2> QED
    BY <1>3, <2>1, <2>2, <2>3, <2>4 DEF Video
<1>4. CASE Device
  BY <1>4 DEF Device, DeviceChecks, DeviceEnds, AudioCallBack, Report
<1>5. CASE UNCHANGED vars
  BY <1>5 DEF vars
<1> QED
  BY <1>1, <1>2, <1>3, <1>4, <1>5 DEF Next

LEMMA RestingInvariant == Spec => []Resting
<1>1. Init => Resting
  BY DEF Init, Resting
<1> QED
  BY <1>1, RestingStep, TypeCorrect, PTL DEF Spec

(* The block in the device and the time until the next one make up a block.  *)
OnTime == \/ device \in {"check", "get"} /\ ageA + busy = Block
          \/ device = "report" /\ ageA = 0

(* Pictures within the thresholds, shown while the sound is on time, stay    *)
(* there as long as nothing disturbs them.                                   *)
InSyncKept == []([]Calm /\ Shown /\ OnTime /\ InSync => []InSync)

(* Where the clocks will be when the picture slept for is shown.             *)
Expected == Diff + next.distance - ageV - left

InTime == /\ InSync /\ OnTime
          /\ pc \in {"poll", "decide"} => ageV <= Work
          /\ pc = "sleep" => -(Max + Work) <= Expected /\ Expected <= Max

(* calculateDelay() leaves a difference within the thresholds, or brings one *)
(* back that the work since the last picture has pushed out.                 *)
LEMMA DelayKeepsSync ==
  ASSUME lead \in Int, ageV \in Nat, ageA \in Int, NEW d \in Nat, d > Work,
         ageV <= Work, Known, InSync, Max + Work < NoSync
  PROVE  LET after == Diff + d - ageV - CalculateDelay(d) IN
         -(Max + Work) <= after /\ after <= Max
<1> DEFINE D == Diff
           t == Threshold(d)
           c == CalculateDelay(d)
<1>1. D \in Int /\ -(Max + Work) <= D /\ D <= Max
  BY DEF Diff, InSync
<1>2. t \in Nat \ {0} /\ t <= Max /\ (d <= Dup => d <= t)
  BY ThresholdsAssumption DEF Threshold
<1>3. c = IF D <= -t THEN IF d + D > 0 THEN d + D ELSE 0
          ELSE IF D >= t THEN IF d > Dup THEN d + D ELSE 2 * d
          ELSE d
  BY <1>1, ThresholdsAssumption, TimesAssumption DEF CalculateDelay
<1> HIDE DEF D, t, c
<1>4. Max \in Nat /\ Work \in Nat
  BY ThresholdsAssumption, TimesAssumption
<1>5. -(Max + Work) <= D + d - ageV - c /\ D + d - ageV - c <= Max
  <2>1. CASE D <= -t
    BY <1>1, <1>2, <1>3, <1>4, <2>1
  <2>2. CASE D >= t
    <3>1. ~(D <= -t)
      BY <1>1, <1>2, <2>2
    <3>2. CASE d > Dup
      <4>1. c = d + D
        BY <1>3, <2>2, <3>1, <3>2
      <4> QED
        BY <1>1, <1>4, <4>1
    <3>3. CASE ~(d > Dup)
      <4>1. c = 2 * d
        BY <1>3, <2>2, <3>1, <3>3
      <4>2. d <= D
        BY <1>1, <1>2, <2>2, <3>3, ThresholdsAssumption
      <4> QED
        BY <1>1, <1>4, <4>1, <4>2
    <3> QED
      BY <3>2, <3>3
  <2>3. CASE D > -t /\ D < t
    <3>1. c = d
      BY <1>1, <1>2, <1>3, <2>3
    <3> QED
      BY <1>1, <1>2, <1>4, <2>3, <3>1
  <2> QED
    BY <1>1, <1>2, <2>1, <2>2, <2>3
<1> QED
  BY <1>5 DEF D, c

LEMMA StaysInTime ==
  ASSUME Max + Work < NoSync
  PROVE  TypeOK /\ Resting /\ Calm /\ Calm' /\ InTime /\ [Next]_vars => InTime'
<1> SUFFICES ASSUME TypeOK, Resting, Calm, Calm', InTime, [Next]_vars
             PROVE  InTime'
  OBVIOUS
<1>1. /\ lead \in Int /\ ageV \in Nat /\ ageA \in Int /\ left \in Nat /\ busy \in Nat
      /\ next.distance \in Nat /\ Max \in Nat /\ Work \in Nat
      /\ Block \in Nat \ {0} /\ Diff \in Int
  BY ThresholdsAssumption, TimesAssumption DEF TypeOK, Diff
<1>2. /\ video = "set" /\ audio = "set" /\ opened
      /\ missing = {} /\ ~paused /\ ~stopped /\ ~resumeAfterPause
      /\ next'.known /\ missing' = {} /\ ~paused' /\ ~stopped'
  BY DEF Calm, Resting
<1>3. -(Max + Work) <= Diff /\ Diff <= Max
  BY DEF InTime, InSync
<1>4. /\ pc \in {"poll", "decide"} => left = 0 /\ ageV <= Work
      /\ pc = "sleep" => -(Max + Work) <= Expected /\ Expected <= Max
  BY <1>1, <1>2 DEF InTime, Resting
<1>5. /\ \/ device \in {"check", "get"} /\ ageA + busy = Block
         \/ device = "report" /\ ageA = 0
      /\ device \in {"get", "report"} => busy = 0
  BY DEF InTime, OnTime, Resting
<1> USE DEF picture, player, world
<1>6. ASSUME UNCHANGED <<lead, ageV, ageA, pc, left, next, device, busy>>
      PROVE  InTime'
  BY <1>6 DEF InTime, InSync, OnTime, Expected, Diff
<1>7. CASE World
  <2>1. ~Pause /\ ~Resume /\ ~Stop
    BY <1>2 DEF Pause, Resume, Stop
  <2>2. \A s \in Streams : ~Stall(s) /\ ~Supply(s)
    BY <1>2 DEF Stall, Supply
  <2> QED
    BY <1>7, <2>1, <2>2 DEF World
<1>8. CASE Tick
  <2>1. ageV' = ageV + 1 /\ ageA' = ageA + 1 /\ UNCHANGED <<lead, pc, next, device>>
    BY <1>2, <1>8 DEF Tick, Older
  <2>2. Diff' = Diff
    BY <1>1, <2>1 DEF Diff
  <2>3. device = "check" /\ busy > 0 /\ busy' = busy - 1
    BY <1>2, <1>5, <1>8 DEF Tick, DeviceWaits
  <2>4. OnTime'
    BY <1>1, <1>5, <2>1, <2>3 DEF OnTime
  <2>5. /\ pc # "decide" /\ (pc = "poll" => ageV < Work)
        /\ pc = "sleep" => left > 0 /\ left' = left - 1
    BY <1>1, <1>2, <1>4, <1>8 DEF Tick, VideoWaits, NoPictureYet
  <2>6. pc' = "sleep" => Expected' = Expected
    BY <1>1, <2>1, <2>2, <2>5 DEF Expected
  <2> QED
    BY <1>1, <1>3, <1>4, <2>1, <2>2, <2>4, <2>5, <2>6 DEF InTime, InSync
<1>9. CASE Video
  <2>1. ~VideoExit /\ ~NapInPause
    BY <1>2 DEF VideoExit, NapInPause
  <2>2. OnTime'
    <3>1. UNCHANGED <<device, busy, ageA>>
      BY <1>2, <1>9, <2>1 DEF Video, Look, Decide, Show
    <3> QED
      BY <3>1 DEF InTime, OnTime
  <2>3. CASE Look
    <3>1. pc = "poll" /\ pc' = "decide" /\ UNCHANGED <<lead, ageV, ageA>>
      BY <1>2, <2>3 DEF Look, MayLook
    <3> QED
      BY <1>3, <1>4, <2>2, <3>1 DEF InTime, InSync, Diff
  <2>4. CASE Decide
    <3>1. PICK d \in Spacings, known \in BOOLEAN :
            /\ next' = [distance |-> d, known |-> known]
            /\ left' = IF known /\ video # "nan" THEN CalculateDelay(d) ELSE 0
      BY <1>2, <2>4 DEF Decide
    <3>2. next'.distance = d /\ known
      BY <1>2, <3>1
    <3>3. d \in Nat /\ d > Work /\ left' = CalculateDelay(d)
      BY <1>2, <3>1, <3>2, TimesAssumption
    <3>4. pc = "decide" /\ pc' = "sleep" /\ UNCHANGED <<lead, ageV, ageA>>
      BY <2>4 DEF Decide
    <3>5. Known /\ InSync /\ ageV <= Work
      BY <1>2, <1>4, <3>4 DEF Known, InTime
    <3>6. /\ -(Max + Work) <= Diff + d - ageV - CalculateDelay(d)
          /\ Diff + d - ageV - CalculateDelay(d) <= Max
      BY <1>1, <3>3, <3>5, DelayKeepsSync
    <3>7. Diff' = Diff
      BY <3>4 DEF Diff
    <3>8. Expected' = Diff + d - ageV - CalculateDelay(d)
      BY <3>2, <3>3, <3>4, <3>7 DEF Expected
    <3> QED
      BY <1>3, <2>2, <3>4, <3>6, <3>7, <3>8 DEF InTime, InSync
  <2>5. CASE Show
    <3>1. /\ pc = "sleep" /\ left = 0 /\ lead' = lead + next.distance
          /\ ageV' = 0 /\ ageA' = ageA /\ pc' = "poll"
      BY <2>5 DEF Show
    <3>2. Diff' = Expected
      BY <1>1, <3>1 DEF Expected, Diff
    <3> QED
      BY <1>1, <1>4, <2>2, <3>1, <3>2 DEF InTime, InSync
  <2> QED
    BY <1>9, <2>1, <2>3, <2>4, <2>5 DEF Video
<1>10. CASE Device
  <2>1. CASE DeviceEnds
    BY <1>2, <2>1 DEF DeviceEnds
  <2>2. CASE DeviceChecks \/ Report
    <3>1. UNCHANGED <<lead, ageV, ageA, pc, left, next>>
      BY <2>2 DEF DeviceChecks, Report
    <3>2. CASE DeviceChecks
      <4>1. device = "check" /\ busy = 0 /\ device' = "get" /\ busy' = 0
        BY <1>2, <3>2 DEF DeviceChecks
      <4>2. OnTime'
        BY <1>1, <1>5, <3>1, <4>1 DEF OnTime
      <4> QED
        BY <3>1, <4>2 DEF InTime, InSync, Expected, Diff
    <3>3. CASE Report
      <4>1. device = "report" /\ device' = "check" /\ busy' = Block
        BY <1>2, <3>3 DEF Report
      <4>2. OnTime'
        BY <1>1, <1>5, <3>1, <4>1 DEF OnTime
      <4> QED
        BY <3>1, <4>2 DEF InTime, InSync, Expected, Diff
    <3> QED
      BY <2>2, <3>2, <3>3
  <2>3. CASE AudioCallBack
    <3>1. /\ lead' = lead - Block /\ ageA' = 0 /\ device = "get"
          /\ device' = "report"
          /\ UNCHANGED <<ageV, pc, left, next>>
      BY <1>2, <2>3 DEF AudioCallBack
    <3>2. Diff' = Diff /\ OnTime'
      BY <1>1, <1>5, <3>1 DEF Diff, OnTime
    <3> QED
      BY <3>1, <3>2 DEF InTime, InSync, Expected
  <2> QED
    BY <1>10, <2>1, <2>2, <2>3 DEF Device
<1>11. CASE UNCHANGED vars
  BY <1>6, <1>11 DEF vars
<1> QED
  BY <1>7, <1>8, <1>9, <1>10, <1>11 DEF Next

(* For thresholds and distances of any size the loop is stable: pictures     *)
(* that are within the thresholds stay there (MediaSync2.cpp:118-132).  The  *)
(* work on a picture must not by itself make it maxFrameDuration late.       *)
THEOREM StaysInSync ==
  ASSUME Max + Work < NoSync PROVE Spec => InSyncKept
<1>1. Shown /\ OnTime /\ InSync => InTime
  BY TimesAssumption DEF Shown, InTime
<1>2. InTime => InSync
  BY DEF InTime
<1> QED
  BY TypeCorrect, RestingInvariant, StaysInTime, <1>1, <1>2, PTL
     DEF Spec, InSyncKept

-----------------------------------------------------------------------------
(* A player of its lifetime was released.                                    *)
Lost(p) == \E q \in met[p] : Deleted(q)

(* What a player has in each phase, and whom it meets.                       *)
Lifetimes ==
    /\ \A p \in Players :
         /\ phase[p] = "none" =>
              /\ surface[p] = "idle" /\ arg[p] = NoWindow
              /\ own[p] = NoWindow /\ view[p] = NoWindow
         /\ phase[p] \in {"none", "open"} => thread[p] = "none"
         /\ phase[p] \in {"none", "open", "deleted"} => texture[p] = NoWindow
         /\ Deleted(p) => view[p] = NoWindow
    /\ \A p, q \in Players : Exists(p) /\ Exists(q) /\ p # q => q \in met[p]
    /\ dropping # Nobody =>
         /\ Deleted(dropping)
         /\ \A p \in Players : Exists(p) => dropping \in met[p]

(* Every window that is passed around has come with a surface.               *)
Owned(w) == w \in Windows => owner[w] # Nobody

Ownership ==
    /\ Owned(window) /\ window \notin released
    /\ \A w \in released \cup surfaces : Owned(w)
    /\ \A p \in Players :
         Owned(arg[p]) /\ Owned(own[p]) /\ Owned(view[p]) /\ Owned(texture[p])

(* A window given back reaches a player only through another's release().    *)
DeadReason == \A p \in Players :
    Exists(p) /\ (arg[p] \in released \/ own[p] \in released \/ view[p] \in released)
      => Lost(p)

(* ... and so does no window at all, except after a spurious wakeup.         *)
LostReason == \A p \in Players : Exists(p) =>
    /\ surface[p] = "load" /\ window = NoWindow => Lost(p)
    /\ surface[p] = "call" /\ arg[p] = NoWindow => Lost(p)
    /\ surface[p] = "set" /\ own[p] = NoWindow => Lost(p)
    /\ thread[p] = "bind" /\ view[p] = NoWindow => Lost(p) \/ p \in woken

(* An EGL surface belongs to a texture until release() takes the EGL down.   *)
Drawn == \A w \in surfaces : \E r \in Players : Exists(r) /\ texture[r] = w

OutInv == /\ OutTypeOK /\ Lifetimes /\ Ownership
          /\ DeadReason /\ LostReason /\ Drawn /\ UnseenReason

LEMMA NoWindowIsNone == NoWindow \notin Windows /\ NoWindow # Blank /\ Blank \notin Windows
BY WindowsAssumption DEF Windows, Blank

LEMMA OutInitial == OutInit => OutInv
<1> SUFFICES ASSUME OutInit PROVE OutInv
  OBVIOUS
<1> USE DEF OutInit, Exists, Deleted
<1>1. OutTypeOK
  BY DEF OutTypeOK
<1>2. Lifetimes
  BY DEF Lifetimes
<1>3. Ownership
  BY WindowsAssumption DEF Ownership, Owned, Windows
<1>4. DeadReason /\ LostReason /\ Drawn /\ UnseenReason
  BY DEF DeadReason, LostReason, Drawn, UnseenReason
<1> QED
  BY <1>1, <1>2, <1>3, <1>4 DEF OutInv

LEMMA OutTypeStep == OutTypeOK /\ [OutNext]_outVars => OutTypeOK'
<1> SUFFICES ASSUME OutTypeOK, [OutNext]_outVars PROVE OutTypeOK'
  OBVIOUS
<1> USE DEF OutTypeOK, java, arrival, graphic
<1>1. CASE DropWindow
  BY <1>1 DEF DropWindow
<1>2. ASSUME NEW p \in Players, Create(p) PROVE OutTypeOK'
  BY <1>2 DEF Create
<1>3. ASSUME NEW p \in Players, Start(p) PROVE OutTypeOK'
  BY <1>3 DEF Start
<1>4. ASSUME NEW p \in Players, StopPlayer(p) PROVE OutTypeOK'
  BY <1>4 DEF StopPlayer
<1>5. ASSUME NEW p \in Players, Release(p) PROVE OutTypeOK'
  BY <1>5 DEF Release
<1>6. ASSUME NEW p \in Players, Available(p) PROVE OutTypeOK'
  BY <1>6 DEF Available, Reaches, UnchangedByArrival
<1>7. ASSUME NEW p \in Players, Arrive(p) PROVE OutTypeOK'
  BY <1>7 DEF Arrive, Reaches, UnchangedByArrival
<1>8. ASSUME NEW p \in Players, Test(p) PROVE OutTypeOK'
  BY <1>8 DEF Test, Reaches, UnchangedByArrival
<1>9. ASSUME NEW p \in Players, Load(p) PROVE OutTypeOK'
  BY <1>9 DEF Load, Reaches, UnchangedByArrival
<1>10. ASSUME NEW p \in Players, Call(p) PROVE OutTypeOK'
  BY <1>10 DEF Call, Reaches, UnchangedByArrival
<1>11. ASSUME NEW p \in Players, Set(p) PROVE OutTypeOK'
  BY <1>11 DEF Set, SetRender, Reaches, UnchangedByArrival
<1>12. ASSUME NEW p \in Players, Enter(p), crashed' = crashed PROVE OutTypeOK'
  BY <1>12 DEF Enter, Goes, UnchangedByVideo
<1>13. ASSUME NEW p \in Players, Settle(p), crashed' = crashed PROVE OutTypeOK'
  BY <1>13 DEF Settle, Goes, UnchangedByVideo
<1>14. ASSUME NEW p \in Players, Bind(p), crashed' = crashed PROVE OutTypeOK'
  BY <1>14 DEF Bind, Goes, UnchangedByVideo
<1>15. ASSUME NEW p \in Players, UseDeleted(p) PROVE OutTypeOK'
  BY <1>15 DEF UseDeleted
<1>16. ASSUME NEW p \in Players, SpuriousWakeup(p), crashed' = crashed PROVE OutTypeOK'
  BY <1>16 DEF SpuriousWakeup, Goes, UnchangedByVideo
<1>17. CASE UNCHANGED outVars
  BY <1>17 DEF outVars
<1> QED
  BY <1>1, <1>2, <1>3, <1>4, <1>5, <1>6, <1>7, <1>8, <1>9, <1>10, <1>11, <1>12,
     <1>13, <1>14, <1>15, <1>16, <1>17
     DEF OutNext, Ui, Surface, Renderer, Render

LEMMA LifetimesStep == OutInv /\ [OutNext]_outVars => Lifetimes'
<1> SUFFICES ASSUME OutInv, [OutNext]_outVars PROVE Lifetimes'
  OBVIOUS
<1> USE DEF OutInv, OutTypeOK, Lifetimes, Exists, Deleted, java, arrival, graphic
<1>1. CASE DropWindow
  BY <1>1 DEF DropWindow
<1>2. ASSUME NEW p \in Players, Create(p) PROVE Lifetimes'
  BY <1>2 DEF Create, UiFree
<1>3. ASSUME NEW p \in Players, Start(p) PROVE Lifetimes'
  BY <1>3 DEF Start, UiFree
<1>4. ASSUME NEW p \in Players, StopPlayer(p) PROVE Lifetimes'
  BY <1>4 DEF StopPlayer, UiFree
<1>5. ASSUME NEW p \in Players, Release(p) PROVE Lifetimes'
  BY <1>5 DEF Release, UiFree
<1>6. ASSUME NEW p \in Players, Available(p) PROVE Lifetimes'
  BY <1>6 DEF Available, Reaches, UnchangedByArrival
<1>7. ASSUME NEW p \in Players, Arrive(p) PROVE Lifetimes'
  BY <1>7 DEF Arrive, Reaches, UnchangedByArrival
<1>8. ASSUME NEW p \in Players, Test(p) PROVE Lifetimes'
  BY <1>8 DEF Test, Reaches, UnchangedByArrival
<1>9. ASSUME NEW p \in Players, Load(p) PROVE Lifetimes'
  BY <1>9 DEF Load, Reaches, UnchangedByArrival
<1>10. ASSUME NEW p \in Players, Call(p) PROVE Lifetimes'
  BY <1>10 DEF Call, Reaches, UnchangedByArrival
<1>11. ASSUME NEW p \in Players, Set(p) PROVE Lifetimes'
  BY <1>11 DEF Set, SetRender, Reaches, UnchangedByArrival
<1>12. ASSUME NEW p \in Players, Enter(p), ~Deleted(p) PROVE Lifetimes'
  BY <1>12 DEF Enter, Goes, UnchangedByVideo
<1>13. ASSUME NEW p \in Players, Settle(p), ~Deleted(p) PROVE Lifetimes'
  BY <1>13 DEF Settle, Goes, UnchangedByVideo
<1>14. ASSUME NEW p \in Players, Bind(p), ~Deleted(p) PROVE Lifetimes'
  BY <1>14 DEF Bind, Goes, UnchangedByVideo
<1>15. ASSUME NEW p \in Players, UseDeleted(p) PROVE Lifetimes'
  BY <1>15 DEF UseDeleted
<1>16. ASSUME NEW p \in Players, SpuriousWakeup(p), ~Deleted(p) PROVE Lifetimes'
  BY <1>16 DEF SpuriousWakeup, Goes, UnchangedByVideo
<1>17. CASE UNCHANGED outVars
  BY <1>17 DEF outVars
<1> QED
  BY <1>1, <1>2, <1>3, <1>4, <1>5, <1>6, <1>7, <1>8, <1>9, <1>10, <1>11, <1>12,
     <1>13, <1>14, <1>15, <1>16, <1>17 DEF OutNext, Ui, Surface, Renderer, Render

LEMMA OwnershipStep == OutInv /\ [OutNext]_outVars => Ownership'
<1> SUFFICES ASSUME OutInv, [OutNext]_outVars PROVE Ownership'
  OBVIOUS
<1> USE DEF OutInv, OutTypeOK, Lifetimes, Ownership, Owned, java, arrival, graphic
<1>1. CASE DropWindow
  <2>1. released' \subseteq released \cup {window} /\ released' \subseteq Windows
    BY <1>1 DEF DropWindow
  <2>2. /\ window' = NoWindow
        /\ UNCHANGED <<owner, surfaces, arg, own, view, texture>>
    BY <1>1 DEF DropWindow
  <2> QED
    BY <2>1, <2>2, NoWindowIsNone
<1>2. ASSUME NEW p \in Players, Create(p) PROVE Ownership'
  BY <1>2 DEF Create, UiFree
<1>3. ASSUME NEW p \in Players, Start(p) PROVE Ownership'
  BY <1>3 DEF Start, UiFree
<1>4. ASSUME NEW p \in Players, StopPlayer(p) PROVE Ownership'
  BY <1>4 DEF StopPlayer, UiFree
<1>5. ASSUME NEW p \in Players, Release(p) PROVE Ownership'
  <2>1. /\ surfaces' = {}
        /\ UNCHANGED <<window, owner, released, arg>>
    BY <1>5 DEF Release
  <2>2. \A q \in Players : /\ own'[q] \in {own[q], NoWindow}
                           /\ view'[q] \in {view[q], NoWindow}
                           /\ texture'[q] \in {texture[q], NoWindow}
    BY <1>5 DEF Release
  <2> QED
    BY <2>1, <2>2, NoWindowIsNone
<1>6. ASSUME NEW p \in Players, Available(p) PROVE Ownership'
  BY <1>6 DEF Available, Reaches, UnchangedByArrival
<1>7. ASSUME NEW p \in Players, Arrive(p) PROVE Ownership'
  <2>1. PICK w \in Windows : owner[w] = Nobody /\ window' = w
                             /\ owner' = [owner EXCEPT ![w] = p]
    BY <1>7 DEF Arrive
  <2>2. UNCHANGED <<released, surfaces, arg, own, view, texture>>
    BY <1>7 DEF Arrive, UnchangedByArrival
  <2>3. p # Nobody /\ \A v \in Windows : Owned(v) => owner'[v] # Nobody
    BY <2>1, NobodyAssumption
  <2> QED
    BY <2>1, <2>2, <2>3
<1>8. ASSUME NEW p \in Players, Test(p) PROVE Ownership'
  BY <1>8 DEF Test, Reaches, UnchangedByArrival
<1>9. ASSUME NEW p \in Players, Load(p) PROVE Ownership'
  BY <1>9 DEF Load, Reaches, UnchangedByArrival
<1>10. ASSUME NEW p \in Players, Call(p) PROVE Ownership'
  <2>1. /\ own' = [own EXCEPT ![p] = arg[p]] /\ arg' = [arg EXCEPT ![p] = NoWindow]
        /\ UNCHANGED <<window, owner, released, surfaces, view, texture>>
    BY <1>10 DEF Call, UnchangedByArrival
  <2>2. \A q \in Players : /\ own'[q] \in {own[q], arg[q]}
                           /\ arg'[q] \in {arg[q], NoWindow}
    BY <2>1
  <2> QED
    BY <2>1, <2>2, NoWindowIsNone
<1>11. ASSUME NEW p \in Players, Set(p) PROVE Ownership'
  BY <1>11 DEF Set, SetRender, Reaches, UnchangedByArrival
<1>12. ASSUME NEW p \in Players, Enter(p), ~Deleted(p) PROVE Ownership'
  BY <1>12 DEF Enter, Goes, UnchangedByVideo
<1>13. ASSUME NEW p \in Players, Settle(p), ~Deleted(p) PROVE Ownership'
  BY <1>13 DEF Settle, Goes, UnchangedByVideo
<1>14. ASSUME NEW p \in Players, Bind(p), ~Deleted(p) PROVE Ownership'
  <2>1. UNCHANGED <<window, owner, released, arg, own, view>>
    BY <1>14 DEF Bind, UnchangedByVideo
  <2>2. \A q \in Players : texture'[q] \in {texture[q], view[q], Blank}
    BY <1>14 DEF Bind
  <2>3. surfaces' \subseteq surfaces \cup {view[p]}
    BY <1>14 DEF Bind
  <2> QED
    BY <2>1, <2>2, <2>3, NoWindowIsNone
<1>15. ASSUME NEW p \in Players, UseDeleted(p) PROVE Ownership'
  BY <1>15 DEF UseDeleted
<1>16. ASSUME NEW p \in Players, SpuriousWakeup(p), ~Deleted(p) PROVE Ownership'
  BY <1>16 DEF SpuriousWakeup, Goes, UnchangedByVideo
<1>17. CASE UNCHANGED outVars
  BY <1>17 DEF outVars
<1> QED
  BY <1>1, <1>2, <1>3, <1>4, <1>5, <1>6, <1>7, <1>8, <1>9, <1>10, <1>11, <1>12,
     <1>13, <1>14, <1>15, <1>16, <1>17 DEF OutNext, Ui, Surface, Renderer, Render

LEMMA DeadStep == OutInv /\ [OutNext]_outVars => DeadReason'
<1> SUFFICES ASSUME OutInv, [OutNext]_outVars PROVE DeadReason'
  OBVIOUS
<1> USE DEF OutInv, OutTypeOK, Lifetimes, Ownership, DeadReason, Lost, Exists,
           Deleted, java, arrival, graphic
<1>1. CASE DropWindow
  BY <1>1 DEF DropWindow
<1>2. ASSUME NEW p \in Players, Create(p) PROVE DeadReason'
  <2>1. /\ phase[p] = "none" /\ released' = released /\ arg' = arg
        /\ phase' = [phase EXCEPT ![p] = "open"]
        /\ own' = [own EXCEPT ![p] = window] /\ view' = [view EXCEPT ![p] = window]
        /\ \A q \in Players : q # p => met[q] \subseteq met'[q]
    BY <1>2 DEF Create
  <2>2. arg[p] \notin released /\ window \notin released
    BY <2>1, NoWindowIsNone
  <2>3. ASSUME NEW q \in Players, q # p, Exists(q)', Lost(q) PROVE Lost(q)'
    BY <2>1, <2>3
  <2> QED
    BY <2>1, <2>2, <2>3
<1>3. ASSUME NEW p \in Players, Start(p) PROVE DeadReason'
  BY <1>3 DEF Start, UiFree
<1>4. ASSUME NEW p \in Players, StopPlayer(p) PROVE DeadReason'
  BY <1>4 DEF StopPlayer, UiFree
<1>5. ASSUME NEW p \in Players, Release(p) PROVE DeadReason'
  BY <1>5 DEF Release, UiFree
<1>6. ASSUME NEW p \in Players, Available(p) PROVE DeadReason'
  BY <1>6 DEF Available, Reaches, UnchangedByArrival
<1>7. ASSUME NEW p \in Players, Arrive(p) PROVE DeadReason'
  BY <1>7 DEF Arrive, Reaches, UnchangedByArrival
<1>8. ASSUME NEW p \in Players, Test(p) PROVE DeadReason'
  BY <1>8 DEF Test, Reaches, UnchangedByArrival
<1>9. ASSUME NEW p \in Players, Load(p) PROVE DeadReason'
  BY <1>9 DEF Load, Reaches, UnchangedByArrival
<1>10. ASSUME NEW p \in Players, Call(p) PROVE DeadReason'
  <2>1. /\ own' = [own EXCEPT ![p] = arg[p]] /\ arg' = [arg EXCEPT ![p] = NoWindow]
        /\ UNCHANGED <<released, phase, met, view>>
    BY <1>10 DEF Call, UnchangedByArrival
  <2> QED
    BY <2>1, NoWindowIsNone
<1>11. ASSUME NEW p \in Players, Set(p) PROVE DeadReason'
  BY <1>11 DEF Set, SetRender, Reaches, UnchangedByArrival
<1>12. ASSUME NEW p \in Players, Enter(p), ~Deleted(p) PROVE DeadReason'
  BY <1>12 DEF Enter, Goes, UnchangedByVideo
<1>13. ASSUME NEW p \in Players, Settle(p), ~Deleted(p) PROVE DeadReason'
  BY <1>13 DEF Settle, Goes, UnchangedByVideo
<1>14. ASSUME NEW p \in Players, Bind(p), ~Deleted(p) PROVE DeadReason'
  BY <1>14 DEF Bind, Goes, UnchangedByVideo
<1>15. ASSUME NEW p \in Players, UseDeleted(p) PROVE DeadReason'
  BY <1>15 DEF UseDeleted
<1>16. ASSUME NEW p \in Players, SpuriousWakeup(p), ~Deleted(p) PROVE DeadReason'
  BY <1>16 DEF SpuriousWakeup, Goes, UnchangedByVideo
<1>17. CASE UNCHANGED outVars
  BY <1>17 DEF outVars
<1> QED
  BY <1>1, <1>2, <1>3, <1>4, <1>5, <1>6, <1>7, <1>8, <1>9, <1>10, <1>11, <1>12,
     <1>13, <1>14, <1>15, <1>16, <1>17 DEF OutNext, Ui, Surface, Renderer, Render

LEMMA LostStep == OutInv /\ [OutNext]_outVars => LostReason'
<1> SUFFICES ASSUME OutInv, [OutNext]_outVars PROVE LostReason'
  OBVIOUS
<1> USE DEF OutInv, OutTypeOK, Lifetimes, Ownership, LostReason, Lost, Exists, Deleted, java, arrival, graphic
<1>1. CASE DropWindow
  BY <1>1 DEF DropWindow
<1>2. ASSUME NEW p \in Players, Create(p) PROVE LostReason'
  BY <1>2 DEF Create, UiFree
<1>3. ASSUME NEW p \in Players, Start(p) PROVE LostReason'
  BY <1>3 DEF Start, UiFree
<1>4. ASSUME NEW p \in Players, StopPlayer(p) PROVE LostReason'
  BY <1>4 DEF StopPlayer, UiFree
<1>5. ASSUME NEW p \in Players, Release(p) PROVE LostReason'
  BY <1>5 DEF Release, UiFree
<1>6. ASSUME NEW p \in Players, Available(p) PROVE LostReason'
  BY <1>6 DEF Available, Reaches, UnchangedByArrival
<1>7. ASSUME NEW p \in Players, Arrive(p) PROVE LostReason'
  <2>1. window' \in Windows /\ surface[p] = "new"
        /\ surface' = [surface EXCEPT ![p] = "test"]
    BY <1>7 DEF Arrive, Reaches
  <2>2. UNCHANGED <<phase, met, arg, own, view, thread, woken>>
    BY <1>7 DEF Arrive, UnchangedByArrival
  <2> QED
    BY <2>1, <2>2, NoWindowIsNone
<1>8. ASSUME NEW p \in Players, Test(p) PROVE LostReason'
  BY <1>8 DEF Test, Reaches, UnchangedByArrival
<1>9. ASSUME NEW p \in Players, Load(p) PROVE LostReason'
  BY <1>9 DEF Load, Reaches, UnchangedByArrival
<1>10. ASSUME NEW p \in Players, Call(p) PROVE LostReason'
  BY <1>10 DEF Call, Reaches, UnchangedByArrival
<1>11. ASSUME NEW p \in Players, Set(p) PROVE LostReason'
  BY <1>11 DEF Set, SetRender, Reaches, UnchangedByArrival
<1>12. ASSUME NEW p \in Players, Enter(p), ~Deleted(p) PROVE LostReason'
  BY <1>12 DEF Enter, Goes, UnchangedByVideo
<1>13. ASSUME NEW p \in Players, Settle(p), ~Deleted(p) PROVE LostReason'
  BY <1>13 DEF Settle, Goes, UnchangedByVideo
<1>14. ASSUME NEW p \in Players, Bind(p), ~Deleted(p) PROVE LostReason'
  BY <1>14 DEF Bind, Goes, UnchangedByVideo
<1>15. ASSUME NEW p \in Players, UseDeleted(p) PROVE LostReason'
  BY <1>15 DEF UseDeleted
<1>16. ASSUME NEW p \in Players, SpuriousWakeup(p), ~Deleted(p) PROVE LostReason'
  BY <1>16 DEF SpuriousWakeup, Goes, UnchangedByVideo
<1>17. CASE UNCHANGED outVars
  BY <1>17 DEF outVars
<1> QED
  BY <1>1, <1>2, <1>3, <1>4, <1>5, <1>6, <1>7, <1>8, <1>9, <1>10, <1>11, <1>12,
     <1>13, <1>14, <1>15, <1>16, <1>17 DEF OutNext, Ui, Surface, Renderer, Render

LEMMA DrawnStep == OutInv /\ [OutNext]_outVars => Drawn'
<1> SUFFICES ASSUME OutInv, [OutNext]_outVars PROVE Drawn'
  OBVIOUS
<1> USE DEF OutInv, OutTypeOK, Lifetimes, Drawn, Exists, Deleted, java, arrival, graphic
<1>1. CASE DropWindow
  BY <1>1 DEF DropWindow
<1>2. ASSUME NEW p \in Players, Create(p) PROVE Drawn'
  BY <1>2 DEF Create, UiFree
<1>3. ASSUME NEW p \in Players, Start(p) PROVE Drawn'
  BY <1>3 DEF Start, UiFree
<1>4. ASSUME NEW p \in Players, StopPlayer(p) PROVE Drawn'
  BY <1>4 DEF StopPlayer, UiFree
<1>5. ASSUME NEW p \in Players, Release(p) PROVE Drawn'
  BY <1>5 DEF Release, UiFree
<1>6. ASSUME NEW p \in Players, Available(p) PROVE Drawn'
  BY <1>6 DEF Available, Reaches, UnchangedByArrival
<1>7. ASSUME NEW p \in Players, Arrive(p) PROVE Drawn'
  BY <1>7 DEF Arrive, Reaches, UnchangedByArrival
<1>8. ASSUME NEW p \in Players, Test(p) PROVE Drawn'
  BY <1>8 DEF Test, Reaches, UnchangedByArrival
<1>9. ASSUME NEW p \in Players, Load(p) PROVE Drawn'
  BY <1>9 DEF Load, Reaches, UnchangedByArrival
<1>10. ASSUME NEW p \in Players, Call(p) PROVE Drawn'
  BY <1>10 DEF Call, Reaches, UnchangedByArrival
<1>11. ASSUME NEW p \in Players, Set(p) PROVE Drawn'
  BY <1>11 DEF Set, SetRender, Reaches, UnchangedByArrival
<1>12. ASSUME NEW p \in Players, Enter(p), ~Deleted(p) PROVE Drawn'
  BY <1>12 DEF Enter, Goes, UnchangedByVideo
<1>13. ASSUME NEW p \in Players, Settle(p), ~Deleted(p) PROVE Drawn'
  BY <1>13 DEF Settle, Goes, UnchangedByVideo
<1>14. ASSUME NEW p \in Players, Bind(p), ~Deleted(p) PROVE Drawn'
  <2>1. Exists(p) /\ phase' = phase
    BY <1>14 DEF Bind, Goes, UnchangedByVideo
  <2>2. CASE texture[p] # NoWindow
    BY <1>14, <2>2 DEF Bind, UnchangedByVideo
  <2>3. CASE texture[p] = NoWindow
    <3>1. \A r \in Players : texture[r] # NoWindow => texture'[r] = texture[r]
      BY <1>14, <2>3 DEF Bind
    <3>2. surfaces' = surfaces \/ (/\ surfaces' = surfaces \cup {view[p]}
                                  /\ texture'[p] = view[p])
      BY <1>14, <2>3 DEF Bind
    <3>3. \A w \in surfaces : \E r \in Players : Exists(r) /\ texture'[r] = w
      BY <3>1, NoWindowIsNone
    <3> QED
      BY <2>1, <3>2, <3>3
  <2> QED
    BY <2>2, <2>3
<1>15. ASSUME NEW p \in Players, UseDeleted(p) PROVE Drawn'
  BY <1>15 DEF UseDeleted
<1>16. ASSUME NEW p \in Players, SpuriousWakeup(p), ~Deleted(p) PROVE Drawn'
  BY <1>16 DEF SpuriousWakeup, Goes, UnchangedByVideo
<1>17. CASE UNCHANGED outVars
  BY <1>17 DEF outVars
<1> QED
  BY <1>1, <1>2, <1>3, <1>4, <1>5, <1>6, <1>7, <1>8, <1>9, <1>10, <1>11, <1>12,
     <1>13, <1>14, <1>15, <1>16, <1>17 DEF OutNext, Ui, Surface, Renderer, Render

LEMMA UnseenStep == OutInv /\ [OutNext]_outVars => UnseenReason'
<1> SUFFICES ASSUME OutInv, [OutNext]_outVars PROVE UnseenReason'
  OBVIOUS
<1> USE DEF OutInv, OutTypeOK, Lifetimes, Ownership, LostReason, Drawn, UnseenReason, RendersTo, Lost, Exists, Deleted, java, arrival, graphic
<1>1. CASE DropWindow
  BY <1>1 DEF DropWindow
<1>2. ASSUME NEW p \in Players, Create(p) PROVE UnseenReason'
  BY <1>2 DEF Create, UiFree
<1>3. ASSUME NEW p \in Players, Start(p) PROVE UnseenReason'
  BY <1>3 DEF Start, UiFree
<1>4. ASSUME NEW p \in Players, StopPlayer(p) PROVE UnseenReason'
  BY <1>4 DEF StopPlayer, UiFree
<1>5. ASSUME NEW p \in Players, Release(p) PROVE UnseenReason'
  BY <1>5 DEF Release, UiFree
<1>6. ASSUME NEW p \in Players, Available(p) PROVE UnseenReason'
  BY <1>6 DEF Available, Reaches, UnchangedByArrival
<1>7. ASSUME NEW p \in Players, Arrive(p) PROVE UnseenReason'
  <2>1. UNCHANGED <<phase, met, texture, egl, woken>>
    BY <1>7 DEF Arrive, UnchangedByArrival
  <2>2. \A v \in Windows : owner[v] # Nobody => owner'[v] = owner[v]
    BY <1>7 DEF Arrive
  <2>3. \A q \in Players : texture[q] \in Windows =>
          owner'[texture[q]] = owner[texture[q]]
    BY <2>2 DEF Owned
  <2> QED
    BY <2>1, <2>3
<1>8. ASSUME NEW p \in Players, Test(p) PROVE UnseenReason'
  BY <1>8 DEF Test, Reaches, UnchangedByArrival
<1>9. ASSUME NEW p \in Players, Load(p) PROVE UnseenReason'
  BY <1>9 DEF Load, Reaches, UnchangedByArrival
<1>10. ASSUME NEW p \in Players, Call(p) PROVE UnseenReason'
  BY <1>10 DEF Call, Reaches, UnchangedByArrival
<1>11. ASSUME NEW p \in Players, Set(p) PROVE UnseenReason'
  BY <1>11 DEF Set, SetRender, Reaches, UnchangedByArrival
<1>12. ASSUME NEW p \in Players, Enter(p), ~Deleted(p) PROVE UnseenReason'
  BY <1>12 DEF Enter, Goes, UnchangedByVideo
<1>13. ASSUME NEW p \in Players, Settle(p), ~Deleted(p) PROVE UnseenReason'
  BY <1>13 DEF Settle, Goes, UnchangedByVideo
<1>14. ASSUME NEW p \in Players, Bind(p), ~Deleted(p) PROVE UnseenReason'
  <2>1. /\ Exists(p) /\ thread[p] = "bind" /\ UNCHANGED <<phase, met, owner, woken>>
        /\ view[p] \in Windows \cup {NoWindow}
    BY <1>14 DEF Bind, Goes, UnchangedByVideo
  <2>2. CASE texture[p] # NoWindow
    BY <1>14, <2>2 DEF Bind, UnchangedByVideo
  <2>3. CASE texture[p] = NoWindow /\ view[p] = NoWindow
    <3>1. texture' = [texture EXCEPT ![p] = Blank] /\ egl' = egl
      BY <1>14, <2>3 DEF Bind
    <3>2. p \in woken \/ \E q \in Players \ {p} : q \in met[p] /\ Deleted(q)
      BY <2>1, <2>3
    <3>3. \A q \in Players : q # p => texture'[q] = texture[q]
      BY <3>1
    <3>4. \A q \in Players : texture[q] # NoWindow => texture'[q] # NoWindow
      BY <3>1, NoWindowIsNone
    <3> QED
      BY <2>1, <3>1, <3>2, <3>3, <3>4
  <2>4. CASE texture[p] = NoWindow /\ view[p] # NoWindow
    <3>1. /\ texture' = [texture EXCEPT ![p] = view[p]] /\ view[p] \in Windows
          /\ egl' = IF view[p] \in surfaces THEN Nobody ELSE p
      BY <1>14, <2>1, <2>4 DEF Bind
    <3>2. texture'[p] = view[p] /\ \A q \in Players : q # p => texture'[q] = texture[q]
      BY <3>1
    <3>3. owner[view[p]] \in Players
      BY <3>1 DEF Owned
    <3>4. ASSUME view[p] \in surfaces
          PROVE  \E r \in Players \ {p} : r \in met[p] /\ texture'[r] # NoWindow
      BY <2>1, <2>4, <3>1, <3>2, <3>4, NoWindowIsNone
    <3>5. ASSUME NEW q \in Players, q # p, Exists(q), texture[q] # NoWindow
          PROVE  p \in met[q] /\ texture'[p] # NoWindow
      BY <2>1, <3>1, <3>2, <3>5, NoWindowIsNone
    <3>6. ASSUME view[p] \notin surfaces
          PROVE  \/ egl' = p /\ owner[view[p]] = p
                 \/ owner[view[p]] \in Players \ {p}
      BY <3>1, <3>3, <3>6
    <3> QED
      BY <2>1, <3>1, <3>2, <3>4, <3>5, <3>6
  <2> QED
    BY <2>2, <2>3, <2>4
<1>15. ASSUME NEW p \in Players, UseDeleted(p) PROVE UnseenReason'
  BY <1>15 DEF UseDeleted
<1>16. ASSUME NEW p \in Players, SpuriousWakeup(p), ~Deleted(p) PROVE UnseenReason'
  BY <1>16 DEF SpuriousWakeup, Goes, UnchangedByVideo
<1>17. CASE UNCHANGED outVars
  BY <1>17 DEF outVars
<1> QED
  BY <1>1, <1>2, <1>3, <1>4, <1>5, <1>6, <1>7, <1>8, <1>9, <1>10, <1>11, <1>12,
     <1>13, <1>14, <1>15, <1>16, <1>17 DEF OutNext, Ui, Surface, Renderer, Render

LEMMA OutInvariant == OutSpec => []OutInv
<1>1. OutInv => OutTypeOK
  BY DEF OutInv
<1>2. OutTypeOK' /\ Lifetimes' /\ Ownership' /\ DeadReason' /\ LostReason'
      /\ Drawn' /\ UnseenReason' => OutInv'
  BY DEF OutInv
<1>3. OutInv /\ [OutNext]_outVars => OutInv'
  BY <1>1, <1>2, OutTypeStep, LifetimesStep, OwnershipStep, DeadStep, LostStep,
     DrawnStep, UnseenStep
<1> QED
  BY OutInitial, <1>3, PTL DEF OutSpec

(* The variables keep their types.                                           *)
THEOREM OutTypeCorrect == OutSpec => []OutTypeOK
<1>1. OutInv => OutTypeOK
  BY DEF OutInv
<1> QED
  BY OutInvariant, <1>1, PTL

(* However many players share the window and XEGL, a player renders out of   *)
(* sight only for one of the reasons named (GLVideoView.cpp:86-93,           *)
(* XEGL.cpp:141-144).                                                        *)
THEOREM UnseenHasReason == OutSpec => []UnseenReason
<1>1. OutInv => UnseenReason
  BY DEF OutInv
<1> QED
  BY OutInvariant, <1>1, PTL

(* A window given back gets to a player only when another player of its      *)
(* lifetime was released (xplay.cpp:143, 201-202).                           *)
THEOREM DeadWindowHasReason == OutSpec => []DeadWindowReason
<1>1. OutInv => DeadWindowReason
  BY DEF OutInv, DeadReason, DeadWindowReason, Lost
<1> QED
  BY OutInvariant, <1>1, PTL
=============================================================================

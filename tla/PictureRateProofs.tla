------------------------- MODULE PictureRateProofs -------------------------
(***************************************************************************)
(* Proofs about what follows from the capacity of the link: the ceiling of *)
(* the video's bitrate is cut for losses only, no camera is driven above   *)
(* the bitrate it came up with, and one burst of lost pictures costs one   *)
(* rung of the ladder.                                                     *)
(***************************************************************************)
EXTENDS PictureRate, Integers, SequenceTheorems, FiniteSetTheorems, WellFoundedInduction, TLAPS

\* No part changes while another takes a step.
LEMMA PartsApart ==
  ASSUME [Next]_vars
  PROVE  /\ part' = part
         /\ [Size!Next]_(Size!vars) /\ [Rate!Next]_(Rate!vars) /\ [Camera!Next]_(Camera!vars)
         /\ Camera!vars' # Camera!vars => part = "camera"
  BY DEF Next, SizeNext, RateNext, CameraNext, vars, sizeVars, rateVars, cameraVars,
         Size!vars, Rate!vars, Camera!vars, Camera!process

-----------------------------------------------------------------------------
(* The ceiling of the bitrate.                                             *)

\* How far the mean has come back after so many windows that lost nothing.
Recovered(n) == IF n < 2 THEN 0 ELSE IF n = 2 THEN 13 ELSE IF n = 3 THEN 19 ELSE 22

\* After a gap in the reports the blocks needed in the window before are those of one second again,
\* and without a loss each window brings the mean back by half.
RateInv ==
  /\ air_scale \in 0 .. Steps /\ r_ema \in Nat
  /\ sent \in Nat /\ retx \in Nat /\ prev \in Nat /\ since \in 0 .. 4 /\ sent >= retx
  /\ known => sent = 0 /\ retx = 0
  /\ since > 0 => known /\ prev = Blocks
  /\ lossless => r_ema >= Recovered(since)

\* What a second without losses makes of the ratio (Ratio), when the second before was whole too.
LEMMA WholeRatio ==
  ASSUME Rate!AirScaleAssumption
  PROVE  (250 * Blocks) \div (7 * Blocks + 3 * Blocks) = 25
  <1>1. PICK b \in Nat : b = Blocks /\ b > 0
    BY DEF Rate!AirScaleAssumption
  <1>2. (250 * b) \div (7 * b + 3 * b) = 25
    <2>1. PICK n \in Nat : n = 10 * b /\ n > 0
      BY <1>1
    <2>2. 250 * b = 25 * n /\ 7 * b + 3 * b = n
      BY <1>1, <2>1
    <2>3. (25 * n) \div n = 25
      BY <2>1, Z3
    <2> QED
      BY <2>2, <2>3
  <1> QED
    BY <1>1, <1>2

\* A second with fresh reports (Window).
LEMMA WindowKeeps ==
  ASSUME Rate!AirScaleAssumption, RateInv,
         NEW deliv \in 0 .. Blocks, NEW again \in Nat, NEW hold \in BOOLEAN,
         Rate!Window(deliv, again, hold),
         lossless' => lossless /\ deliv \in {0, Blocks}
  PROVE  RateInv' /\ (lossless' /\ since >= 4 => air_scale' >= air_scale)
  <1> DEFINE needed == Rate!Needed(sent + Blocks + again, retx + again)
             judged == known /\ Rate!Enough(needed) /\ ~Rate!Outage(deliv, hold)
             ratio == Rate!Ratio(deliv, needed)
  <1> USE DEF Rate!Least
  <1>1. Blocks \in Nat /\ Blocks > 0 /\ Steps \in Nat
    BY DEF Rate!AirScaleAssumption
  <1>2. needed \in Nat /\ needed > 0 /\ (known => needed = Blocks)
    BY <1>1 DEF RateInv, Rate!Needed
  <1>3. /\ (judged => r_ema' = Rate!Mean(ratio) /\ air_scale' = Rate!Scaled(r_ema'))
        /\ (~judged => r_ema' = r_ema /\ air_scale' = air_scale)
        /\ prev' = needed /\ known' = TRUE /\ sent' = 0 /\ retx' = 0
        /\ since' = IF judged THEN Rate!Least(since + 1, 4) ELSE IF known THEN since ELSE 0
    BY DEF Rate!Window, Rate!Settling
  <1>4. judged => known /\ deliv # 0
    BY DEF Rate!Outage
  <1> HIDE DEF needed, judged
  <1>5. ratio \in Nat
    <2>1. PICK d \in Nat : d = 7 * needed + 3 * prev /\ d > 0
      BY <1>2 DEF RateInv
    <2>2. PICK n \in Nat : n = 250 * deliv
      BY <1>1
    <2>3. n \div d \in Nat
      BY <2>1, <2>2
    <2> QED
      BY <2>1, <2>2, <2>3 DEF Rate!Ratio
  <1>6. (judged /\ lossless' /\ since > 0) => ratio = 25
    BY <1>2, <1>4, WholeRatio DEF RateInv, Rate!Ratio
  <1> HIDE DEF ratio
  <1>7. since' \in 0 .. 4 /\ (judged => since' = IF since = 4 THEN 4 ELSE since + 1)
        /\ (~judged => since' = since \/ since' = 0)
    BY <1>3 DEF RateInv
  <1>8. r_ema' \in Nat /\ (judged => 2 * r_ema' >= r_ema + ratio)
    BY <1>3, <1>5 DEF RateInv, Rate!Mean
  <1>9. since' > 0 => needed = Blocks
    BY <1>2, <1>3, <1>4 DEF RateInv
  <1>10. lossless' => r_ema' >= Recovered(since')
    <2> SUFFICES ASSUME lossless' PROVE r_ema' >= Recovered(since')
      OBVIOUS
    <2>1. r_ema >= Recovered(since)
      BY DEF RateInv
    <2>2. CASE ~judged
      BY <1>3, <1>7, <2>1, <2>2 DEF RateInv, Recovered
    <2>3. CASE judged
      BY <1>6, <1>7, <1>8, <2>1, <2>3 DEF RateInv, Recovered
    <2> QED
      BY <2>2, <2>3
  <1>11. air_scale' \in 0 .. Steps
    BY <1>1, <1>3, <1>8 DEF RateInv, Rate!Scaled
  <1>12. lossless' => lossless
    OBVIOUS
  <1>13. (lossless' /\ since >= 4) => air_scale' >= air_scale
    <2> SUFFICES ASSUME lossless', since = 4 PROVE air_scale' >= air_scale
      BY DEF RateInv
    <2>1. judged => r_ema' >= 23
      <3>1. PICK h \in Nat : h = r_ema'
        BY <1>8
      <3>2. PICK r \in Nat : r = r_ema /\ r >= 22
        BY <1>12 DEF RateInv, Recovered
      <3>3. judged => ratio = 25
        BY <1>6
      <3>4. judged => 2 * h >= r + ratio
        BY <1>8, <3>1, <3>2
      <3>5. judged => 2 * h >= r + 25
        BY <3>3, <3>4
      <3>6. judged => h >= 23
        BY <3>2, <3>5
      <3> QED
        BY <3>1, <3>6
    <2> QED
      BY <1>1, <1>3, <1>8, <2>1 DEF RateInv, Rate!Scaled
  <1> QED
    BY <1>1, <1>2, <1>3, <1>7, <1>8, <1>9, <1>10, <1>11, <1>13 DEF RateInv

LEMMA RateInitInv ==
  ASSUME Rate!AirScaleAssumption, Rate!Init
  PROVE  RateInv
  <1>1. since = 0 /\ Recovered(since) = 0 /\ r_ema = 25 /\ ~known
    BY DEF Rate!Init, Recovered
  <1>2. r_ema >= Recovered(since)
    BY <1>1
  <1>3. air_scale \in 0 .. Steps /\ Steps \in Nat
    BY DEF Rate!Init, Rate!AirScaleAssumption
  <1>4. sent = 0 /\ retx = 0 /\ prev = 0
    BY DEF Rate!Init
  <1>5. since > 0 => known /\ prev = Blocks
    BY <1>1
  <1>6. known => sent = 0 /\ retx = 0
    BY <1>1
  <1>7. since \in 0 .. 4 /\ sent >= retx /\ r_ema \in Nat
    BY <1>1, <1>4
  <1> QED
    BY <1>1, <1>2, <1>3, <1>4, <1>5, <1>6, <1>7 DEF RateInv

LEMMA RateStep ==
  ASSUME Rate!AirScaleAssumption, RateInv, [Rate!Next]_(Rate!vars)
  PROVE  RateInv' /\ (lossless' /\ since >= 4 => air_scale' >= air_scale)
  <1> USE DEF Rate!Least
  <1>1. Blocks \in Nat /\ Blocks > 0 /\ GapMax \in Nat /\ Steps \in Nat
    BY DEF Rate!AirScaleAssumption
  <1>2. Blocks \div 2 \in Nat /\ Blocks \div 10 \in Nat
    BY <1>1
  <1>3. CASE Rate!Unsettled
    <2>1. CASE \E deliv \in 0 .. Blocks, again \in {0, Blocks \div 2}, hold \in BOOLEAN :
                 /\ Rate!Window(deliv, again, hold)
                 /\ lossless' = (lossless /\ deliv \in {0, Blocks})
      BY <1>2, <2>1, WindowKeeps DEF RateInv
    <2>2. CASE \E again \in {0, Blocks \div 2} : Rate!NoReport(again) /\ UNCHANGED lossless
      <3>1. PICK again \in Nat : Rate!NoReport(again) /\ UNCHANGED lossless
        BY <1>2, <2>2
      <3>2. sent' \in Nat /\ retx' \in Nat /\ sent' >= retx'
        BY <1>1, <3>1 DEF RateInv, Rate!NoReport
      <3>3. r_ema' \in Nat /\ r_ema' = r_ema /\ air_scale' = air_scale
        BY <3>1 DEF RateInv, Rate!NoReport
      <3> QED
        BY <3>1, <3>2, <3>3 DEF RateInv, Rate!NoReport, Recovered
    <2> QED
      BY <1>3, <2>1, <2>2 DEF Rate!Unsettled
  <1>4. CASE Rate!Restored
    <2>1. air_scale' \in 0 .. Steps /\ air_scale' >= air_scale
      BY <1>1, <1>4 DEF RateInv, Rate!Restored
    <2>2. r_ema' \in Nat /\ r_ema' >= r_ema
      BY <1>4 DEF RateInv, Rate!Restored
    <2>3. lossless' => r_ema' >= Recovered(since')
      <3>1. PICK h \in Nat : h = r_ema' /\ h >= r_ema
        BY <2>2
      <3>2. PICK n \in Nat : n = Recovered(since)
        BY DEF Recovered
      <3>3. since' = since /\ (lossless' => lossless)
        BY <1>4 DEF Rate!Restored
      <3>4. lossless => h >= n
        BY <3>1, <3>2 DEF RateInv
      <3> QED
        BY <3>1, <3>2, <3>3, <3>4
    <2>4. known' = known /\ sent' = sent /\ retx' = retx /\ prev' = prev /\ since' = since
      BY <1>4 DEF Rate!Restored
    <2>5. /\ known' => sent' = 0 /\ retx' = 0
          /\ since' > 0 => known' /\ prev' = Blocks
          /\ sent' \in Nat /\ retx' \in Nat /\ prev' \in Nat /\ since' \in 0 .. 4
          /\ sent' >= retx'
      BY <2>4 DEF RateInv
    <2>6. RateInv'
      BY <2>1, <2>2, <2>3, <2>5 DEF RateInv
    <2> QED
      BY <2>1, <2>6
  <1>5. CASE Rate!Settled
    <2>1. PICK again \in Nat : Rate!Window(Blocks, again, FALSE) /\ UNCHANGED lossless
      BY <1>2, <1>5 DEF Rate!Settled
    <2>2. Blocks \in 0 .. Blocks /\ FALSE \in BOOLEAN /\ Blocks \in {0, Blocks}
      BY <1>1
    <2>3. lossless' => lossless /\ Blocks \in {0, Blocks}
      BY <2>1
    <2> QED
      BY <2>1, <2>2, <2>3, WindowKeeps
  <1>6. CASE Rate!Cleans
    BY <1>6 DEF Rate!Cleans, RateInv
  <1>7. CASE UNCHANGED Rate!vars
    BY <1>7 DEF Rate!vars, RateInv
  <1> QED
    BY <1>3, <1>4, <1>5, <1>6, <1>7 DEF Rate!Next

\* No ceiling is cut while nothing is lost: an outage, and the gap in the reports it leaves behind,
\* is not a rate the air cannot carry (worker.rs, the rate control's judgement once a second).
THEOREM LosslessNeverCut == Spec => OnlyLossCuts
  <1>1. Init => RateInv
    BY PictureRateAssumption, RateInitInv DEF Init
  <1>2. RateInv /\ [Next]_vars => RateInv'
    BY PartsApart, PictureRateAssumption, RateStep
  <1>3. RateInv /\ [Next]_vars
          => [lossless' /\ since >= Rate!Settling => air_scale' >= air_scale]_(Rate!vars)
    BY PartsApart, PictureRateAssumption, RateStep DEF Rate!Settling
  <1> QED
    BY <1>1, <1>2, <1>3, PTL DEF Spec, OnlyLossCuts, Rate!OnlyLossCuts

-----------------------------------------------------------------------------
(* The bitrate of a camera.                                                *)

\* A bitrate a camera may be driven to.
Within(k) ==
  \/ \E d \in Cameras : k <= Own[d]
  \/ \E m \in Ceilings : k <= m
  \/ k <= CAM_MIN_KBPS

\* Settings whose ceiling is one.
Sound(s) == s \in Camera!Settings /\ (s.max > 0 => Within(s.max))

\* Whatever the settings, the file, the thread and the worker hold is within, so what a camera is
\* given is; and a connection implies that the bitrate it was made at is known.
CameraInv ==
  /\ Sound(cfg) /\ (\A s \in file \cup text : Sound(s))
  /\ base \in 0 .. Top /\ (base > 0 => Within(base))
  /\ Camera!ok => base > 0
  /\ want \in Nat /\ (want > 0 => Within(want))
  /\ air \in Camera!Levels
  /\ rate \in [Cameras -> Camera!Levels] /\ (\A c \in Cameras : Within(rate[c]))

\* A bitrate below one that is within is within.
LEMMA BelowIsWithin ==
  ASSUME Camera!CameraRateAssumption, NEW k \in Nat, NEW j \in Nat, j <= k, Within(k)
  PROVE  Within(j)
  <1>1. (\A d \in Cameras : Own[d] \in Nat) /\ (\A m \in Ceilings : m \in Nat)
        /\ CAM_MIN_KBPS \in Nat
    BY DEF Camera!CameraRateAssumption, Camera!Levels
  <1> QED
    BY <1>1 DEF Within

\* What a camera makes of a bitrate that is within (Clamp).
LEMMA ClampWithin ==
  ASSUME Camera!CameraRateAssumption, NEW c \in Cameras, NEW k \in Nat, Within(k)
  PROVE  Camera!Clamp(c, k) \in Camera!Levels /\ Within(Camera!Clamp(c, k))
  <1> DEFINE lo == Accepts[c][1]
             hi == Accepts[c][2]
  <1>1. lo \in Camera!Levels /\ hi \in Camera!Levels /\ Own[c] \in Camera!Levels
        /\ lo <= Own[c] /\ Own[c] <= hi /\ Top \in Nat
    BY DEF Camera!CameraRateAssumption
  <1>2. Within(lo)
    BY <1>1 DEF Within
  <1>3. Camera!Clamp(c, k) = IF lo > (IF k < hi THEN k ELSE hi) THEN lo
                             ELSE IF k < hi THEN k ELSE hi
    BY DEF Camera!Clamp, Camera!Most, Camera!Least
  <1> HIDE DEF lo, hi
  <1>4. lo \in Nat /\ lo > 0 /\ lo <= hi /\ hi \in Nat /\ hi <= Top
    BY <1>1 DEF Camera!Levels
  <1>5. CASE Camera!Clamp(c, k) = lo
    BY <1>1, <1>2, <1>5
  <1>6. CASE Camera!Clamp(c, k) # lo
    <2>1. Camera!Clamp(c, k) \in Nat /\ Camera!Clamp(c, k) <= k /\ Camera!Clamp(c, k) <= hi
          /\ lo <= Camera!Clamp(c, k)
      BY <1>3, <1>4, <1>6
    <2>2. Within(Camera!Clamp(c, k))
      BY <2>1, BelowIsWithin
    <2>3. Camera!Clamp(c, k) \in 1 .. Top
      BY <1>1, <1>4, <2>1
    <2> QED
      BY <2>2, <2>3 DEF Camera!Levels
  <1> QED
    BY <1>5, <1>6

\* What the worker wishes for while the camera is reached (Target).
LEMMA TargetWithin ==
  ASSUME Camera!CameraRateAssumption, CameraInv, Camera!ok
  PROVE  Camera!Target \in Nat /\ Within(Camera!Target)
  <1>1. Camera!Ceiling \in Nat /\ Camera!Ceiling > 0 /\ Within(Camera!Ceiling)
    <2>1. cfg.max \in Nat /\ base \in Nat /\ base > 0
      BY DEF CameraInv, Sound, Camera!Settings
    <2> QED
      BY <2>1 DEF CameraInv, Sound, Camera!Ceiling
  <1>2. PICK t \in Nat : t = Camera!Most(air, CAM_MIN_KBPS)
    BY DEF CameraInv, Camera!CameraRateAssumption, Camera!Levels, Camera!Most
  <1>3. Camera!Target = IF t < Camera!Ceiling THEN t ELSE Camera!Ceiling
    BY <1>1, <1>2 DEF Camera!Target, Camera!Least
  <1>4. Camera!Target \in Nat /\ Camera!Target <= Camera!Ceiling
    BY <1>1, <1>2, <1>3
  <1> QED
    BY <1>1, <1>4, BelowIsWithin

LEMMA CameraInitInv ==
  ASSUME Camera!CameraRateAssumption, Camera!Init
  PROVE  CameraInv
  <1>1. Sound(Camera!Default)
    BY DEF Sound, Camera!Default, Camera!Settings, Camera!CameraRateAssumption
  <1>2. /\ cfg = Camera!Default /\ file = {Camera!Default} /\ text = {} /\ base = 0 /\ want = 0
        /\ ~Camera!ok /\ rate = Own /\ air = Top
    BY DEF Camera!Init, Camera!Fresh, Camera!ok
  <1>3. rate \in [Cameras -> Camera!Levels] /\ air \in Camera!Levels /\ Top \in Nat
    BY <1>2 DEF Camera!CameraRateAssumption, Camera!Levels
  <1>4. \A c \in Cameras : Within(rate[c])
    BY <1>2, <1>3 DEF Within, Camera!Levels
  <1> QED
    BY <1>1, <1>2, <1>3, <1>4 DEF CameraInv

LEMMA CameraStep ==
  ASSUME Camera!CameraRateAssumption, CameraInv, [Camera!Next]_(Camera!vars)
  PROVE  CameraInv'
  <1>1. /\ Top \in Nat /\ Camera!Levels \subseteq Nat /\ Camera!Levels \subseteq 0 .. Top
        /\ Ceilings \subseteq 0 .. Top /\ NoUrl \notin Cameras
        /\ \A k \in Camera!Levels : k > 0
    BY DEF Camera!CameraRateAssumption, Camera!Levels
  <1> USE DEF Camera!vars, Camera!process
  <1>2. CASE UNCHANGED Camera!vars
    BY <1>2 DEF CameraInv, Camera!ok, Sound
  <1>3. CASE Camera!Calm
    BY <1>3 DEF CameraInv, Camera!ok, Camera!Calm, Sound
  <1>4. CASE Camera!AirChanges
    BY <1>4 DEF CameraInv, Camera!ok, Camera!AirChanges, Sound
  <1>5. CASE Camera!Restart
    <2>1. Sound(cfg')
      <3>1. CASE file = {}
        BY <1>5, <3>1, <1>1 DEF Camera!Restart, Sound, Camera!Default, Camera!Settings
      <3>2. CASE file # {}
        <4>1. PICK s : s \in file /\ s = CHOOSE t \in file : TRUE
          BY <3>2
        <4>2. cfg' = IF s.url \in Marked THEN [s EXCEPT !.url = NoUrl] ELSE s
          BY <1>5, <3>2, <4>1 DEF Camera!Restart, Camera!ReadBack
        <4>3. Sound(s)
          BY <4>1 DEF CameraInv
        <4> QED
          BY <4>2, <4>3 DEF Sound, Camera!Settings
      <3> QED
        BY <3>1, <3>2
    <2> QED
      BY <1>1, <1>5, <2>1 DEF CameraInv, Camera!ok, Camera!Restart, Sound
  <1>6. CASE Camera!Save
    BY <1>6 DEF CameraInv, Camera!ok, Camera!Save, Sound
  <1>7. CASE Camera!Watch
    <2>1. cfg' = [cfg EXCEPT !.max = base] /\ base > 0 /\ base \in 0 .. Top /\ Within(base)
      BY <1>7 DEF Camera!Watch, CameraInv
    <2>2. Sound(cfg')
      BY <2>1 DEF CameraInv, Sound, Camera!Settings
    <2>3. \A s \in file' \cup text' : Sound(s)
      BY <1>7, <2>2 DEF Camera!Watch, CameraInv
    <2> QED
      BY <1>7, <2>2, <2>3 DEF CameraInv, Camera!ok, Camera!Watch, Sound
  <1>8. CASE Camera!Written
    BY <1>8 DEF CameraInv, Camera!ok, Camera!Written, Sound
  <1>9. CASE \E new \in Camera!Settings : Camera!Set(new)
    <2>1. PICK new \in Camera!Settings : Camera!Set(new)
      BY <1>9
    <2>2. new.max \in Ceilings \/ new.max = cfg.max
      BY <2>1 DEF Camera!Set
    <2>3. new.max > 0 => Within(new.max)
      <3>1. \A m \in Ceilings : Within(m)
        BY <1>1 DEF Within
      <3> QED
        BY <2>2, <3>1 DEF CameraInv, Sound
    <2>4. Sound(cfg')
      BY <2>1, <2>3 DEF Camera!Set, Sound
    <2> QED
      BY <2>1, <2>4 DEF CameraInv, Camera!ok, Camera!Set, Sound
  <1>10. CASE \E c \in Cameras : Camera!CameraRestarts(c)
    <2>1. PICK c \in Cameras : rate' = [rate EXCEPT ![c] = Own[c]]
      BY <1>10 DEF Camera!CameraRestarts
    <2>2. Own[c] \in Camera!Levels
      BY DEF Camera!CameraRateAssumption
    <2>3. Within(Own[c])
      <3>1. PICK o \in Nat : o = Own[c]
        BY <1>1, <2>2
      <3>2. Own[c] <= Own[c]
        BY <3>1
      <3> QED
        BY <3>2 DEF Within
    <2>4. rate' \in [Cameras -> Camera!Levels] /\ \A d \in Cameras : Within(rate'[d])
      BY <2>1, <2>2, <2>3 DEF CameraInv
    <2> QED
      BY <1>10, <2>4 DEF CameraInv, Camera!ok, Camera!CameraRestarts, Sound
  <1>11. CASE Camera!Onvif
    <2>1. CASE Camera!Leave
      BY <2>1 DEF CameraInv, Camera!ok, Camera!Leave, Sound
    <2>2. CASE Camera!Connect
      <3>1. cfg.url \in Cameras
        BY <2>2 DEF Camera!Connect, CameraInv, Sound, Camera!Settings
      <3>2. rate[cfg.url] \in 0 .. Top /\ rate[cfg.url] > 0 /\ Within(rate[cfg.url])
        BY <1>1, <3>1 DEF CameraInv
      <3>3. base' \in 0 .. Top /\ (base' > 0 => Within(base'))
        BY <2>2, <3>2 DEF Camera!Connect, CameraInv
      <3>4. Camera!ok' => base' > 0
        <4>1. CASE conn' = Camera!NoCam
          BY <4>1 DEF Camera!ok, Camera!NoCam
        <4>2. CASE conn' # Camera!NoCam
          BY <2>2, <3>2, <4>2 DEF Camera!Connect, Camera!Lost, CameraInv
        <4> QED
          BY <4>1, <4>2
      <3> QED
        BY <2>2, <3>3, <3>4 DEF CameraInv, Camera!Connect, Sound
    <2>3. CASE Camera!Forget
      BY <2>3 DEF CameraInv, Camera!ok, Camera!Forget, Sound
    <2>4. CASE Camera!RetryOver
      BY <2>4 DEF CameraInv, Camera!ok, Camera!RetryOver, Sound
    <2>5. CASE Camera!Refresh
      BY <2>5 DEF CameraInv, Camera!ok, Camera!Refresh, Camera!Here, Camera!Lost, Sound
    <2>6. CASE Camera!SetBitrate
      <3> DEFINE k == Camera!Clamp(cfg.url, want)
                 new == [rate EXCEPT ![cfg.url] = k]
      <3>1. want > 0 /\ want \in Nat /\ Within(want) /\ Camera!ok
        BY <2>6 DEF Camera!SetBitrate, Camera!OtherWanted, Camera!Here, CameraInv
      <3>2. rate' = rate \/ rate' = new
        BY <2>6 DEF Camera!SetBitrate
      <3>3. cfg.url \in Cameras => k \in Camera!Levels /\ Within(k)
        BY <3>1, ClampWithin
      <3> HIDE DEF k
      <3>4. rate' \in [Cameras -> Camera!Levels] /\ \A d \in Cameras : Within(rate'[d])
        BY <3>2, <3>3 DEF CameraInv
      <3>5. base > 0
        BY <3>1 DEF CameraInv
      <3> QED
        BY <2>6, <3>4, <3>5 DEF CameraInv, Camera!ok, Camera!SetBitrate, Sound
    <2> QED
      BY <1>11, <2>1, <2>2, <2>3, <2>4, <2>5, <2>6 DEF Camera!Onvif
  <1>12. CASE Camera!Worker
    <2>1. CASE Camera!WishNothing
      BY <2>1 DEF CameraInv, Camera!ok, Camera!WishNothing, Sound
    <2>2. CASE \E late \in BOOLEAN : Camera!Wish(late)
      <3>1. PICK late \in BOOLEAN : Camera!Wish(late)
        BY <2>2
      <3>2. PICK sends \in Camera!Levels :
              want' = IF want = 0 THEN Camera!Target
                      ELSE IF late THEN Camera!Most(Camera!Least(Camera!Target, sends - 1),
                                                    CAM_MIN_KBPS)
                      ELSE Camera!Least(Camera!Target, want + 1)
        BY <3>1 DEF Camera!Wish
      <3>3. PICK t \in Nat : t = Camera!Target /\ Within(t)
        BY <3>1, TargetWithin DEF Camera!Wish
      <3>4. CAM_MIN_KBPS \in Nat /\ Within(CAM_MIN_KBPS) /\ sends \in Nat /\ sends > 0
        BY <1>1 DEF Within, Camera!CameraRateAssumption
      <3>5. Camera!Most(Camera!Least(t, sends - 1), CAM_MIN_KBPS) \in Nat
            /\ (\/ Camera!Most(Camera!Least(t, sends - 1), CAM_MIN_KBPS) <= t
                \/ Camera!Most(Camera!Least(t, sends - 1), CAM_MIN_KBPS) = CAM_MIN_KBPS)
        BY <3>3, <3>4 DEF Camera!Most, Camera!Least
      <3>6. want \in Nat
        BY DEF CameraInv
      <3>7. Camera!Least(t, want + 1) \in Nat /\ Camera!Least(t, want + 1) <= t
        BY <3>3, <3>6 DEF Camera!Least
      <3>8. /\ Camera!Most(Camera!Least(t, sends - 1), CAM_MIN_KBPS) \in Nat
            /\ Within(Camera!Most(Camera!Least(t, sends - 1), CAM_MIN_KBPS))
        BY <3>3, <3>4, <3>5, BelowIsWithin
      <3>9. Camera!Least(t, want + 1) \in Nat /\ Within(Camera!Least(t, want + 1))
        BY <3>3, <3>7, BelowIsWithin
      <3>10. want' \in Nat /\ Within(want')
        BY <3>2, <3>3, <3>8, <3>9
      <3>11. base > 0
        BY <3>1 DEF Camera!Wish, CameraInv
      <3> QED
        BY <3>1, <3>10, <3>11 DEF CameraInv, Camera!ok, Camera!Wish, Sound
    <2> QED
      BY <1>12, <2>1, <2>2 DEF Camera!Worker
  <1> QED
    BY <1>2, <1>3, <1>4, <1>5, <1>6, <1>7, <1>8, <1>9, <1>10, <1>11, <1>12 DEF Camera!Next

\* However settings change, answers are lost and processes and cameras restart, no camera is driven
\* above what a camera comes up with, a ceiling the operator named or the least that is asked for
\* (nyx-common onvif.rs, run; cam_ceiling and the watcher's saved ceiling).
THEOREM NoCameraAbove == Spec => []NeverAbove
  <1>1. Init => CameraInv
    BY PictureRateAssumption, CameraInitInv DEF Init
  <1>2. CameraInv /\ [Next]_vars => CameraInv'
    BY PartsApart, PictureRateAssumption, CameraStep
  <1>3. CameraInv => NeverAbove
    BY DEF CameraInv, Within, NeverAbove, Camera!NeverAbove
  <1> QED
    BY <1>1, <1>2, <1>3, PTL DEF Spec

-----------------------------------------------------------------------------
(* The ladder of picture sizes.                                            *)

\* The pictures lost whose age is at most h.
LostWithin(s, h) == {i \in 1 .. Len(s) : s[i] <= h}

Ages == 0 .. SMOOTH_WIN
OldestFirst(s) == \A i, j \in 1 .. Len(s) : i <= j => s[i] >= s[j]

\* The capacity is counted; and while it has been enough for every rung, the pictures lost on the
\* rung held are no more than have been paid for.
LadderInv ==
  /\ rest \in Nat
  /\ ample =>
       /\ cur \in Size!Rungs /\ held \in 0 .. Size!HeldMost /\ up \in Nat /\ down \in Nat
       /\ wait \in [Size!Rungs -> Nat] /\ backoff \in [Size!Rungs -> Nat]
       /\ lost \in Seq(Ages) /\ OldestFirst(lost) /\ paid \in Nat
       /\ Cardinality(LostWithin(lost, held)) <= paid \/ paid >= SMOOTH_IDR_N

\* The numbers the constants are.
LEMMA LadderNumbers ==
  ASSUME Size!LadderAssumption
  PROVE  /\ Size!Highest \in Nat /\ Size!Rungs = 0 .. Size!Highest
         /\ Need \in [Size!Rungs -> Nat] /\ Caps \subseteq Nat
         /\ UP \in Nat /\ DOWN \in Nat /\ CRASH \in Nat /\ SMOOTH_WIN \in Nat
         /\ SMOOTH_IDR_N \in Nat /\ SMOOTH_IDR_N > 0 /\ MaxLost \in Nat /\ TIER_SETTLED \in Nat
         /\ TIER_BACKOFF \in Nat /\ TIER_BACKOFF_MAX \in Nat /\ SMOOTH_FLOOR_TIER \in Nat
         /\ Size!HeldMost \in Nat /\ Size!HeldMost >= SMOOTH_WIN
<1>1. /\ UP \in Nat /\ DOWN \in Nat /\ CRASH \in Nat /\ SMOOTH_WIN \in Nat
      /\ SMOOTH_IDR_N \in Nat /\ MaxLost \in Nat /\ TIER_SETTLED \in Nat
      /\ TIER_BACKOFF \in Nat /\ TIER_BACKOFF_MAX \in Nat /\ SMOOTH_FLOOR_TIER \in Nat
      /\ SMOOTH_UP_MAX \in Nat
  BY DEF Size!LadderAssumption
<1>2. SMOOTH_IDR_N > SMOOTH_UP_MAX
  BY <1>1 DEF Size!LadderAssumption
<1>3. SMOOTH_IDR_N > 0
  BY <1>1, <1>2
<1>4. Size!HeldMost \in Nat /\ Size!HeldMost >= SMOOTH_WIN
  BY <1>1 DEF Size!HeldMost
<1>5. /\ Size!Highest \in Nat /\ Size!Rungs = 0 .. Size!Highest
      /\ Need \in [Size!Rungs -> Nat] /\ Caps \subseteq Nat
  BY DEF Size!LadderAssumption
<1>6. QED
  BY <1>1, <1>3, <1>4, <1>5

\* The rungs are numbers.
LEMMA HighestNat ==
  ASSUME Size!LadderAssumption
  PROVE  Size!Highest \in Nat
  BY LadderNumbers

LEMMA RungsNat ==
  ASSUME Size!LadderAssumption
  PROVE  Size!Highest \in Nat /\ \A r \in Size!Rungs : r \in Nat
  BY LadderNumbers

LEMMA LostWithinFinite ==
  ASSUME NEW s, Len(s) \in Nat, NEW h
  PROVE  IsFiniteSet(LostWithin(s, h)) /\ Cardinality(LostWithin(s, h)) \in Nat
  <1>1. IsFiniteSet(1 .. Len(s))
    BY FS_Interval
  <1>2. LostWithin(s, h) \in SUBSET (1 .. Len(s))
    BY DEF LostWithin
  <1> QED
    BY <1>1, <1>2, FS_Subset, FS_CardinalityType

\* A part of a sequence holds no more of what was lost lately than the sequence.
LEMMA PartLostWithin ==
  ASSUME NEW s, Len(s) \in Nat, NEW t, Len(t) \in Nat, NEW k \in Nat, NEW g, NEW h,
         \A i \in 1 .. Len(t) : i + k \in 1 .. Len(s) /\ (t[i] <= h => s[i + k] <= g)
  PROVE  Cardinality(LostWithin(t, h)) <= Cardinality(LostWithin(s, g))
  <1> DEFINE f == [i \in LostWithin(t, h) |-> i + k]
  <1>1. \A i \in LostWithin(t, h) : i \in Nat /\ i + k \in LostWithin(s, g)
    BY DEF LostWithin
  <1>2. f \in Injection(LostWithin(t, h), LostWithin(s, g))
    BY <1>1 DEF Injection, IsInjective
  <1> HIDE DEF f
  <1> QED
    BY <1>2, LostWithinFinite, FS_Injection

\* The part of a sequence of ages from its m-th to its n-th member.
LEMMA PartOfAges ==
  ASSUME SMOOTH_WIN \in Nat, NEW s \in Seq(Nat), OldestFirst(s),
         NEW m \in Nat \ {0}, NEW n \in 0 .. Len(s)
  PROVE  /\ SubSeq(s, m, n) \in Seq(Nat) /\ OldestFirst(SubSeq(s, m, n))
         /\ s \in Seq(Ages) => SubSeq(s, m, n) \in Seq(Ages)
         /\ \A h : Cardinality(LostWithin(SubSeq(s, m, n), h)) <= Cardinality(LostWithin(s, h))
  <1> DEFINE t == SubSeq(s, m, n)
  <1>1. Len(s) \in Nat /\ \A i \in m .. n : i \in 1 .. Len(s) /\ s[i] \in Nat
    BY ElementOfSeq
  <1>2. /\ t \in Seq(Nat) /\ Len(t) = (IF m <= n THEN n - m + 1 ELSE 0)
        /\ \A i \in 1 .. n - m + 1 : t[i] = s[m + i - 1]
    BY <1>1, SubSeqProperties
  <1>3. s \in Seq(Ages) => t \in Seq(Ages)
    <2> SUFFICES ASSUME s \in Seq(Ages) PROVE t \in Seq(Ages)
      OBVIOUS
    <2>1. \A i \in m .. n : s[i] \in Ages
      BY <1>1, ElementOfSeq
    <2> QED
      BY <2>1, SubSeqProperties
  <1> HIDE DEF t
  <1>4. /\ Len(t) \in Nat
        /\ \A i \in 1 .. Len(t) : i + (m - 1) \in 1 .. Len(s) /\ t[i] = s[i + (m - 1)]
    BY <1>1, <1>2
  <1>5. OldestFirst(t)
    <2> SUFFICES ASSUME NEW i \in 1 .. Len(t), NEW j \in 1 .. Len(t), i <= j PROVE t[i] >= t[j]
      BY DEF OldestFirst
    <2>1. i + (m - 1) <= j + (m - 1)
      BY <1>4
    <2> QED
      BY <1>4, <2>1 DEF OldestFirst
  <1>6. ASSUME NEW h PROVE Cardinality(LostWithin(t, h)) <= Cardinality(LostWithin(s, h))
    <2>1. \A i \in 1 .. Len(t) : i + (m - 1) \in 1 .. Len(s) /\ (t[i] <= h => s[i + (m - 1)] <= h)
      BY <1>4
    <2>2. m - 1 \in Nat
      OBVIOUS
    <2> QED
      BY <1>1, <1>4, <2>1, <2>2, PartLostWithin
  <1> QED
    BY <1>2, <1>3, <1>5, <1>6 DEF t

\* What is older by a turn (Older).
LEMMA OlderAges ==
  ASSUME SMOOTH_WIN \in Nat, NEW s \in Seq(Ages), OldestFirst(s)
  PROVE  /\ Size!Older(s) \in Seq(Nat) /\ Len(Size!Older(s)) = Len(s) /\ OldestFirst(Size!Older(s))
         /\ \A i \in 1 .. Len(s) : Size!Older(s)[i] = s[i] + 1
  <1>1. Len(s) \in Nat /\ \A i \in 1 .. Len(s) : s[i] \in Ages
    BY ElementOfSeq
  <1>2. Size!Older(s) = [i \in 1 .. Len(s) |-> s[i] + 1]
    BY <1>1 DEF Size!Older, Size!Least, Ages
  <1>3. \A i \in 1 .. Len(s) : s[i] + 1 \in Nat
    BY <1>1 DEF Ages
  <1>4. Size!Older(s) \in Seq(Nat) /\ Len(Size!Older(s)) = Len(s)
    BY <1>1, <1>2, <1>3
  <1>5. OldestFirst(Size!Older(s))
    BY <1>1, <1>2, <1>4 DEF OldestFirst, Ages
  <1> QED
    BY <1>2, <1>4, <1>5

\* The pictures lost that still count (Lately): none is too old, each is a turn older.
LEMMA LatelyAges ==
  ASSUME SMOOTH_WIN \in Nat, NEW s \in Seq(Ages), OldestFirst(s)
  PROVE  /\ Size!Lately(s) \in Seq(Ages) /\ OldestFirst(Size!Lately(s))
         /\ \A i \in 1 .. Len(Size!Lately(s)) : Size!Lately(s)[i] > 0
         /\ \A h \in Nat : Cardinality(LostWithin(Size!Lately(s), h + 1))
                             <= Cardinality(LostWithin(s, h))
         /\ \A h \in Nat : h >= SMOOTH_WIN =>
              Cardinality(LostWithin(Size!Lately(s), h)) <= Cardinality(LostWithin(s, h))
  <1> DEFINE o == Size!Older(s)
             First(k) == /\ \A i \in 1 .. k - 1 : o[i] > SMOOTH_WIN
                         /\ k <= Len(s) => o[k] <= SMOOTH_WIN
             first == CHOOSE k \in 1 .. Len(s) + 1 : First(k)
             t == SubSeq(o, first, Len(s))
  <1>1. Len(s) \in Nat /\ \A i \in 1 .. Len(s) : s[i] \in Ages
    BY ElementOfSeq
  <1>2. /\ o \in Seq(Nat) /\ Len(o) = Len(s) /\ OldestFirst(o)
        /\ \A i \in 1 .. Len(s) : o[i] = s[i] + 1
    BY OlderAges
  <1>3. Size!Lately(s) = t
    BY DEF Size!Lately
  <1> HIDE DEF o
  <1>4. \E k \in 1 .. Len(s) + 1 : First(k)
    <2> DEFINE Young == {k \in 1 .. Len(s) : o[k] <= SMOOTH_WIN}
    <2>1. CASE Young = {}
      <3>1. \A i \in 1 .. Len(s) : o[i] > SMOOTH_WIN
        <4> SUFFICES ASSUME NEW i \in 1 .. Len(s) PROVE o[i] > SMOOTH_WIN
          OBVIOUS
        <4>1. i \notin Young
          BY <2>1
        <4>2. o[i] \in Nat
          BY <1>1, <1>2 DEF Ages
        <4> QED
          BY <4>1, <4>2
      <3>2. First(Len(s) + 1) /\ Len(s) + 1 \in 1 .. Len(s) + 1
        BY <1>1, <3>1
      <3> QED
        BY <3>2
    <2>2. CASE Young # {}
      <3>1. Young \in SUBSET Nat
        OBVIOUS
      <3>2. PICK k \in Young : \A j \in Young : <<j, k>> \notin OpToRel(<, Nat)
        BY <2>2, <3>1, WFMin, NatLessThanWellFounded
      <3>3. ASSUME NEW j \in Young PROVE j >= k
        <4>1. j \in Nat /\ k \in Nat
          OBVIOUS
        <4>2. ~(j < k)
          BY <3>2, <4>1 DEF OpToRel
        <4> QED
          BY <4>1, <4>2
      <3>4. \A i \in 1 .. k - 1 : o[i] > SMOOTH_WIN
        <4> SUFFICES ASSUME NEW i \in 1 .. k - 1, ~(o[i] > SMOOTH_WIN) PROVE FALSE
          OBVIOUS
        <4>1. i \in 1 .. Len(s) /\ i < k
          BY <1>1
        <4>2. o[i] \in Nat
          <5>1. o \in Seq(Nat) /\ i \in 1 .. Len(o)
            BY <1>2, <4>1
          <5> QED
            BY <5>1, ElementOfSeq
        <4>3. i \in Young
          BY <4>1, <4>2
        <4> QED
          BY <3>3, <4>1, <4>3
      <3>5. k \in 1 .. Len(s) + 1 /\ First(k)
        BY <1>1, <3>4
      <3> QED
        BY <3>5
    <2> QED
      BY <2>1, <2>2
  <1>5. first \in 1 .. Len(s) + 1 /\ First(first)
    BY <1>4
  <1> HIDE DEF first, First
  <1>6. \A i \in first .. Len(s) : o[i] \in Nat
    <2>1. TAKE i \in first .. Len(s)
    <2>2. o \in Seq(Nat) /\ i \in 1 .. Len(o)
      BY <1>1, <1>2, <1>5
    <2> QED
      BY <2>2, ElementOfSeq
  <1>7. /\ Len(t) = (IF first <= Len(s) THEN Len(s) - first + 1 ELSE 0) /\ Len(t) \in Nat
        /\ \A i \in 1 .. Len(s) - first + 1 : t[i] = o[first + i - 1]
    BY <1>1, <1>5, <1>6, SubSeqProperties
  <1>8. OldestFirst(t)
    BY <1>1, <1>2, <1>5, PartOfAges
  <1>9. \A i \in first .. Len(s) : o[i] \in Ages
    <2> SUFFICES ASSUME NEW i \in first .. Len(s) PROVE o[i] \in Ages
      OBVIOUS
    <2>1. first \in 1 .. Len(o) /\ i \in 1 .. Len(o) /\ first <= i /\ first <= Len(s)
      BY <1>1, <1>2, <1>5
    <2>2. o[first] <= SMOOTH_WIN
      BY <1>5, <2>1 DEF First
    <2>3. o[first] >= o[i]
      BY <1>2, <2>1 DEF OldestFirst
    <2>4. o[first] \in Nat /\ o[i] \in Nat
      BY <1>6, <2>1
    <2> QED
      BY <2>2, <2>3, <2>4 DEF Ages
  <1>10. t \in Seq(Ages)
    BY <1>1, <1>5, <1>9, SubSeqProperties
  <1> HIDE DEF t
  <1>11. \A i \in 1 .. Len(t) : i + (first - 1) \in 1 .. Len(s) /\ t[i] = s[i + (first - 1)] + 1
    <2> SUFFICES ASSUME NEW i \in 1 .. Len(t)
                 PROVE  i + (first - 1) \in 1 .. Len(s) /\ t[i] = s[i + (first - 1)] + 1
      OBVIOUS
    <2>1. first <= Len(s) /\ Len(t) = Len(s) - first + 1
      BY <1>1, <1>5, <1>7
    <2>2. i + (first - 1) \in 1 .. Len(s) /\ first + i - 1 = i + (first - 1)
      BY <1>1, <1>5, <2>1
    <2>3. t[i] = o[i + (first - 1)]
      BY <1>7, <2>1, <2>2
    <2> QED
      BY <1>2, <2>2, <2>3
  <1>12. first - 1 \in Nat
    BY <1>1, <1>5
  <1>13. ASSUME NEW h \in Nat
         PROVE  Cardinality(LostWithin(t, h + 1)) <= Cardinality(LostWithin(s, h))
    <2>1. \A i \in 1 .. Len(t) : i + (first - 1) \in 1 .. Len(s)
                                 /\ (t[i] <= h + 1 => s[i + (first - 1)] <= h)
      BY <1>1, <1>11 DEF Ages
    <2> QED
      BY <1>1, <1>7, <1>12, <2>1, PartLostWithin
  <1>14. ASSUME NEW h \in Nat, h >= SMOOTH_WIN
         PROVE  Cardinality(LostWithin(t, h)) <= Cardinality(LostWithin(s, h))
    <2>1. \A i \in 1 .. Len(t) : i + (first - 1) \in 1 .. Len(s)
                                 /\ (t[i] <= h => s[i + (first - 1)] <= h)
      BY <1>1, <1>11, <1>14 DEF Ages
    <2> QED
      BY <1>1, <1>7, <1>12, <2>1, PartLostWithin
  <1>15. \A i \in 1 .. Len(t) : t[i] > 0
    BY <1>1, <1>11 DEF Ages
  <1> QED
    BY <1>3, <1>8, <1>10, <1>13, <1>14, <1>15

Memories == [cur : Size!Rungs, held : 0 .. Size!HeldMost, up : Nat, down : Nat,
             wait : [Size!Rungs -> Nat], backoff : [Size!Rungs -> Nat], lost : Seq(Ages)]

\* A capacity that is enough for every rung.
EnoughForAll(cap) == cap \in Nat /\ \A r \in Size!Rungs : 100 * cap >= 80 * Need[r]

LEMMA LastsNat ==
  ASSUME NEW now, NEW was \in Nat, NEW most \in Nat
  PROVE  Size!Lasts(now, was, most) \in Nat /\ (~now => Size!Lasts(now, was, most) = 0)
  BY DEF Size!Lasts, Size!Least

\* While the capacity is enough for every rung, a rung is left downwards for the pictures lost on it
\* alone (Decided).
LEMMA DecidedOnLosses ==
  ASSUME Size!LadderAssumption, NEW m \in Memories, NEW cap, EnoughForAll(cap), NEW smooth
  PROVE  LET d == Size!Decided(m, cap, Size!Highest, smooth) IN
           /\ d \in Memories /\ d.lost = m.lost
           /\ d.held = 0 \/ (d.held = m.held /\ d.cur = m.cur)
           /\ d.cur < m.cur => Cardinality(LostWithin(m.lost, m.held)) >= SMOOTH_IDR_N
  <1> DEFINE max == Size!Highest
             b == [m EXCEPT !.up = Size!Lasts(Size!UpNow(m, cap, max, smooth), m.up, UP),
                            !.down = Size!Lasts(Size!DownNow(m, cap), m.down, DOWN)]
             d == Size!Decided(m, cap, max, smooth)
             dwell == b.held >= DWELL
             crash == Size!CrashNow(b, cap) /\ b.down > CRASH
             falls == crash \/ (dwell /\ (b.down > DOWN \/ Size!Rough(b, smooth)))
             climbs == b.up > UP /\ dwell
  <1>1. d = IF falls THEN Size!Fallen(b) ELSE IF climbs THEN Size!Climbed(b) ELSE Size!Holding(b)
    BY DEF Size!Decided
  <1>2. /\ m.cur \in Size!Rungs /\ m.held \in 0 .. Size!HeldMost /\ m.up \in Nat /\ m.down \in Nat
        /\ m.wait \in [Size!Rungs -> Nat] /\ m.backoff \in [Size!Rungs -> Nat]
        /\ m.lost \in Seq(Ages)
    BY DEF Memories
  <1>3. ~Size!DownNow(m, cap)
    <2>1. cap \in Nat /\ 100 * cap >= 80 * Need[m.cur]
      BY <1>2 DEF EnoughForAll
    <2>2. Need[m.cur] \in Nat
      BY <1>2, LadderNumbers
    <2>3. ~(100 * cap < 80 * Need[m.cur])
      BY <2>1, <2>2
    <2> QED
      BY <2>3 DEF Size!DownNow
  <1>4. /\ b \in Memories /\ b.cur = m.cur /\ b.held = m.held /\ b.lost = m.lost
        /\ b.up = Size!Lasts(Size!UpNow(m, cap, max, smooth), m.up, UP) /\ b.down = 0
    BY <1>2, <1>3, LastsNat, LadderNumbers DEF Memories
  <1>5. 0 \in 0 .. Size!HeldMost
    BY LadderNumbers
  <1> HIDE DEF d, b
  <1>6. CASE falls
    <2>1. Size!Rough(b, smooth)
      BY <1>4, <1>6, LadderNumbers
    <2>2. Cardinality(LostWithin(m.lost, m.held)) >= SMOOTH_IDR_N
      BY <1>4, <2>1 DEF Size!Rough, Size!LostHere, LostWithin, Size!Cardinality, Cardinality
    <2>3. b.cur - 1 \in Size!Rungs
      <3>1. PICK c \in Nat : c = m.cur /\ c \in 0 .. Size!Highest
        <4>1. Size!Rungs = 0 .. Size!Highest /\ Size!Highest \in Nat
          BY LadderNumbers
        <4>2. m.cur \in 0 .. Size!Highest
          BY <1>2, <4>1
        <4>3. m.cur \in Nat
          BY <4>1, <4>2
        <4> QED
          BY <4>2, <4>3
      <3>2. c > 0
        BY <1>4, <2>1, <3>1, LadderNumbers DEF Size!Rough
      <3>3. c - 1 \in 0 .. Size!Highest
        BY <3>1, <3>2, HighestNat
      <3> QED
        BY <1>4, <3>1, <3>3, LadderNumbers
    <2> DEFINE w == IF b.held >= TIER_SETTLED THEN TIER_BACKOFF
                    ELSE Size!Least(2 * b.backoff[b.cur], TIER_BACKOFF_MAX)
    <2>4. w \in Nat
      <3>1. PICK n \in Nat : n = b.backoff[b.cur]
        BY <1>2, <1>4 DEF Memories
      <3>2. Size!Least(2 * n, TIER_BACKOFF_MAX) \in Nat
        BY LadderNumbers DEF Size!Least
      <3>3. w = IF b.held >= TIER_SETTLED THEN TIER_BACKOFF ELSE Size!Least(2 * n, TIER_BACKOFF_MAX)
        BY <3>1
      <3> HIDE DEF w
      <3> QED
        BY <3>2, <3>3, LadderNumbers
    <2>5. d = [b EXCEPT !.cur = b.cur - 1, !.held = 0, !.backoff[b.cur] = w, !.wait[b.cur] = w]
      BY <1>1, <1>6 DEF Size!Fallen
    <2> HIDE DEF w
    <2>6. d \in Memories /\ d.held = 0 /\ d.lost = b.lost
      BY <1>4, <1>5, <2>3, <2>4, <2>5 DEF Memories
    <2> QED
      BY <1>4, <2>2, <2>6 DEF d
  <1>7. CASE ~falls /\ climbs
    <2>1. Size!UpNow(m, cap, max, smooth)
      <3> SUFFICES ASSUME ~Size!UpNow(m, cap, max, smooth) PROVE FALSE
        OBVIOUS
      <3>1. b.up = 0
        BY <1>4 DEF Size!Lasts
      <3> QED
        BY <1>7, <3>1, LadderNumbers
    <2>2. b.cur + 1 \in Size!Rungs
      <3>1. PICK c \in Nat : c = m.cur /\ c \in 0 .. Size!Highest
        <4>1. Size!Rungs = 0 .. Size!Highest /\ Size!Highest \in Nat
          BY LadderNumbers
        <4>2. m.cur \in 0 .. Size!Highest
          BY <1>2, <4>1
        <4>3. m.cur \in Nat
          BY <4>1, <4>2
        <4> QED
          BY <4>2, <4>3
      <3>2. c < Size!Highest
        BY <2>1, <3>1 DEF Size!UpNow
      <3>3. c + 1 \in 0 .. Size!Highest
        BY <3>1, <3>2, HighestNat
      <3> QED
        BY <1>4, <3>1, <3>3, LadderNumbers
    <2>3. d = [b EXCEPT !.cur = b.cur + 1, !.held = 0]
      BY <1>1, <1>7 DEF Size!Climbed
    <2>4. d \in Memories /\ d.cur = b.cur + 1 /\ d.held = 0 /\ d.lost = b.lost
      BY <1>4, <1>5, <2>2, <2>3 DEF Memories
    <2>5. ~(d.cur < m.cur)
      <3>1. PICK c \in Nat : c = m.cur
        BY <1>2, RungsNat
      <3>2. d.cur = c + 1 /\ ~(c + 1 < c)
        BY <1>4, <2>4, <3>1
      <3> QED
        BY <3>1, <3>2
    <2> QED
      BY <1>4, <2>4, <2>5 DEF d
  <1>8. CASE ~falls /\ ~climbs
    <2>1. d = Size!Holding(b)
      BY <1>1, <1>8
    <2>2. d \in Memories /\ d.cur = b.cur /\ d.held = b.held /\ d.lost = b.lost
      BY <1>4, <2>1, LadderNumbers DEF Memories, Size!Holding
    <2> QED
      BY <1>2, <1>4, <2>2, LadderNumbers DEF d
  <1> QED
    BY <1>6, <1>7, <1>8

\* None of the pictures lost that still count is as young as a rung just taken.
LEMMA NoneYet ==
  ASSUME NEW s, Len(s) \in Nat, \A i \in 1 .. Len(s) : s[i] \in Nat /\ s[i] > 0
  PROVE  Cardinality(LostWithin(s, 0)) = 0
  <1>1. LostWithin(s, 0) = {}
    BY DEF LostWithin
  <1> QED
    BY <1>1, FS_EmptySet

\* Pictures lost in this turn come last.
LEMMA AppendLost ==
  ASSUME SMOOTH_WIN \in Nat, NEW s \in Seq(Ages), OldestFirst(s), NEW n \in 0 .. 1
  PROVE  LET w == s \o [i \in 1 .. n |-> 0] IN
           /\ w \in Seq(Ages) /\ OldestFirst(w)
           /\ \A h : Cardinality(LostWithin(w, h)) <= Cardinality(LostWithin(s, h)) + n
  <1> DEFINE z == [i \in 1 .. n |-> 0]
             w == s \o z
  <1>1. Len(s) \in Nat /\ \A i \in 1 .. Len(s) : s[i] \in Nat /\ s[i] \in Ages
    BY ElementOfSeq DEF Ages
  <1>2. z \in Seq(Ages) /\ Len(z) = n /\ \A i \in 1 .. n : z[i] = 0
    BY DEF Ages
  <1> HIDE DEF z
  <1>3. /\ w \in Seq(Ages) /\ Len(w) = Len(s) + n
        /\ \A i \in 1 .. Len(s) + n : w[i] = IF i <= Len(s) THEN s[i] ELSE z[i - Len(s)]
    BY <1>2, ConcatProperties
  <1> HIDE DEF w
  <1>4. \A i \in 1 .. Len(w) : (i <= Len(s) => w[i] = s[i]) /\ (i > Len(s) =>
          w[i] = 0 /\ i = Len(s) + 1)
    BY <1>1, <1>2, <1>3
  <1>5. OldestFirst(w)
    <2> SUFFICES ASSUME NEW i \in 1 .. Len(w), NEW j \in 1 .. Len(w), i <= j PROVE w[i] >= w[j]
      BY DEF OldestFirst
    <2>1. CASE j <= Len(s)
      BY <1>1, <1>4, <2>1 DEF OldestFirst
    <2>2. CASE j > Len(s)
      BY <1>1, <1>4, <2>2
    <2> QED
      BY <1>1, <2>1, <2>2
  <1>6. ASSUME NEW h PROVE Cardinality(LostWithin(w, h)) <= Cardinality(LostWithin(s, h)) + n
    <2>1. IsFiniteSet(LostWithin(s, h)) /\ Cardinality(LostWithin(s, h)) \in Nat
          /\ IsFiniteSet(LostWithin(w, h)) /\ Cardinality(LostWithin(w, h)) \in Nat
      BY <1>1, <1>3, LostWithinFinite
    <2>2. CASE n = 0
      <3>1. LostWithin(w, h) \in SUBSET LostWithin(s, h)
        BY <1>1, <1>3, <1>4, <2>2 DEF LostWithin
      <3> QED
        BY <2>1, <2>2, <3>1, FS_Subset
    <2>3. CASE n = 1
      <3>1. LostWithin(w, h) \in SUBSET (LostWithin(s, h) \cup {Len(s) + 1})
        BY <1>1, <1>3, <1>4, <2>3 DEF LostWithin
      <3>2. /\ IsFiniteSet(LostWithin(s, h) \cup {Len(s) + 1})
            /\ Cardinality(LostWithin(s, h) \cup {Len(s) + 1}) <= Cardinality(LostWithin(s, h)) + 1
        <4>1. PICK c \in Nat : c = Cardinality(LostWithin(s, h))
          BY <2>1
        <4>2. /\ IsFiniteSet(LostWithin(s, h) \cup {Len(s) + 1})
              /\ Cardinality(LostWithin(s, h) \cup {Len(s) + 1}) \in {c, c + 1}
          BY <2>1, <4>1, FS_AddElement
        <4> QED
          BY <4>1, <4>2
      <3>3. Cardinality(LostWithin(w, h)) <= Cardinality(LostWithin(s, h) \cup {Len(s) + 1})
        BY <3>1, <3>2, FS_Subset
      <3>4. Cardinality(LostWithin(s, h) \cup {Len(s) + 1}) \in Nat
        BY <3>2, FS_CardinalityType
      <3> QED
        BY <2>1, <2>3, <3>2, <3>3, <3>4
    <2> QED
      BY <2>2, <2>3
  <1> QED
    BY <1>3, <1>5, <1>6 DEF w, z

LEMMA AgesAreNumbers == Seq(Ages) \subseteq Seq(Nat)
  <1>1. Ages \subseteq Nat
    BY DEF Ages
  <1> QED
    BY <1>1, SeqMonotonic

\* What the ladder knows at a turn (Memory, Lowered, Restored), while the ceiling is the highest
\* rung: either the rung it was on, a turn longer, or one above it, taken just now.
LEMMA KnownAtTurn ==
  ASSUME Size!LadderAssumption, LadderInv, ample, NEW t \in Size!Rungs
  PROVE  LET m == Size!Restored(Size!Lowered(Size!Memory, Size!Highest),
                                Size!Least(t, Size!Highest)) IN
           /\ m \in Memories /\ m.lost = Size!Lately(lost)
           /\ \/ m.cur = cur /\ m.held = Size!Least(held + 1, Size!HeldMost)
              \/ m.cur > cur /\ m.held = 0
  <1> DEFINE a == Size!Memory
             b == Size!Lowered(a, Size!Highest)
             u == Size!Least(t, Size!Highest)
             m == Size!Restored(b, u)
             passed == b.cur + 1 .. u
             wt == [r \in Size!Rungs |-> IF r \in passed THEN 0 ELSE b.wait[r]]
             bt == [r \in Size!Rungs |-> IF r \in passed THEN TIER_BACKOFF ELSE b.backoff[r]]
  <1>1. /\ cur \in Size!Rungs /\ held \in 0 .. Size!HeldMost /\ up \in Nat /\ down \in Nat
        /\ wait \in [Size!Rungs -> Nat] /\ backoff \in [Size!Rungs -> Nat]
        /\ lost \in Seq(Ages) /\ OldestFirst(lost)
    BY DEF LadderInv
  <1>2. Size!Lately(lost) \in Seq(Ages)
    BY <1>1, LatelyAges, LadderNumbers
  <1>3. Size!Least(held + 1, Size!HeldMost) \in 0 .. Size!HeldMost
    <2>1. Size!HeldMost \in Nat
      BY LadderNumbers
    <2>2. held \in Nat /\ held <= Size!HeldMost
      BY <1>1, <2>1
    <2>3. PICK k \in Nat, top \in Nat : k = held /\ top = Size!HeldMost /\ k <= top
      BY <2>1, <2>2
    <2>4. Size!Least(k + 1, top) \in 0 .. top
      BY <2>3 DEF Size!Least
    <2> QED
      BY <2>3, <2>4
  <1>4. [r \in Size!Rungs |-> IF wait[r] > 0 THEN wait[r] - 1 ELSE 0] \in [Size!Rungs -> Nat]
    BY <1>1
  <1>5. /\ a \in Memories /\ a.cur = cur /\ a.held = Size!Least(held + 1, Size!HeldMost)
        /\ a.lost = Size!Lately(lost)
    BY <1>1, <1>2, <1>3, <1>4 DEF Size!Memory, Memories
  <1>6. Size!Least(cur, Size!Highest) = cur
    <2>1. cur \in 0 .. Size!Highest
      BY <1>1, LadderNumbers
    <2> QED
      BY <2>1, LadderNumbers DEF Size!Least
  <1> HIDE DEF a
  <1>7. b = [a EXCEPT !.cur = cur]
    BY <1>5, <1>6 DEF Size!Lowered
  <1>8. /\ b \in Memories /\ b.cur = cur /\ b.held = Size!Least(held + 1, Size!HeldMost)
        /\ b.lost = Size!Lately(lost)
    BY <1>1, <1>5, <1>7 DEF Memories
  <1>9. u \in Size!Rungs
    BY LadderNumbers DEF Size!Least
  <1> HIDE DEF b, u
  <1>10. 0 \in 0 .. Size!HeldMost /\ 0 \in Nat /\ TIER_BACKOFF \in Nat
    BY LadderNumbers
  <1>11. wt \in [Size!Rungs -> Nat] /\ bt \in [Size!Rungs -> Nat]
    BY <1>8, <1>10 DEF Memories
  <1>12. CASE u <= b.cur
    <2>1. m = b
      BY <1>12 DEF Size!Restored
    <2> QED
      BY <1>8, <2>1 DEF m, b, u, a
  <1>13. CASE ~(u <= b.cur)
    <2>1. m = [b EXCEPT !.cur = u, !.held = 0, !.up = 0, !.down = 0, !.wait = wt, !.backoff = bt]
      BY <1>13 DEF Size!Restored
    <2> HIDE DEF m, wt, bt
    <2>2. m \in Memories /\ m.cur = u /\ m.held = 0 /\ m.lost = b.lost
      BY <1>8, <1>9, <1>10, <1>11, <2>1 DEF Memories
    <2>3. u > cur
      <3>1. u \in Nat /\ cur \in Nat
        BY <1>1, <1>9, RungsNat
      <3>2. ~(u <= cur)
        BY <1>8, <1>13
      <3> QED
        BY <3>1, <3>2
    <2> QED
      BY <1>8, <2>2, <2>3 DEF m, b, u, a
  <1> QED
    BY <1>12, <1>13

\* What a turn with enough capacity leaves behind (Turn, Remember).
LEMMA TurnKeeps ==
  ASSUME Size!LadderAssumption, LadderInv, NEW cap \in Nat, NEW max, NEW smooth,
         NEW t \in Size!Rungs, NEW n \in 0 .. 1, Size!Turn(cap, max, smooth, t, n)
  PROVE  /\ rest' = rest => LadderInv'
         /\ ample /\ ample' /\ cur' < cur => paid >= SMOOTH_IDR_N
  <1> SUFFICES ASSUME ample'
               PROVE  /\ rest' = rest => LadderInv'
                      /\ cur' < cur => paid >= SMOOTH_IDR_N
    BY DEF LadderInv
  <1> DEFINE m == Size!Restored(Size!Lowered(Size!Memory, Size!Highest),
                                Size!Least(t, Size!Highest))
             d == Size!Decided(m, cap, Size!Highest, smooth)
             w == d.lost \o [i \in 1 .. n |-> 0]
             old == Cardinality(LostWithin(lost, held))
  <1>1. ample /\ EnoughForAll(cap) /\ max = Size!Highest
    BY LadderNumbers DEF Size!Turn, EnoughForAll
  <1>2. Size!Remember(d, n)
    BY <1>1 DEF Size!Turn
  <1>3. /\ m \in Memories /\ m.lost = Size!Lately(lost)
        /\ \/ m.cur = cur /\ m.held = Size!Least(held + 1, Size!HeldMost)
           \/ m.cur > cur /\ m.held = 0
    BY <1>1, KnownAtTurn
  <1> HIDE DEF m
  <1>4. /\ d \in Memories /\ d.lost = m.lost
        /\ d.held = 0 \/ (d.held = m.held /\ d.cur = m.cur)
        /\ d.cur < m.cur => Cardinality(LostWithin(m.lost, m.held)) >= SMOOTH_IDR_N
    BY <1>1, <1>3, DecidedOnLosses
  <1> HIDE DEF d
  <1>5. /\ cur' = d.cur /\ held' = d.held /\ up' = d.up /\ down' = d.down
        /\ wait' = d.wait /\ backoff' = d.backoff
        /\ lost' = SubSeq(w, IF Len(w) > MaxLost THEN Len(w) - MaxLost + 1 ELSE 1, Len(w))
        /\ paid' = Size!Least(n + (IF d.cur = cur THEN paid ELSE 0), SMOOTH_IDR_N)
    BY <1>2 DEF Size!Remember
  <1>6. /\ cur \in Size!Rungs /\ held \in 0 .. Size!HeldMost /\ lost \in Seq(Ages)
        /\ OldestFirst(lost) /\ paid \in Nat /\ (old <= paid \/ paid >= SMOOTH_IDR_N)
    BY <1>1 DEF LadderInv
  <1>7. SMOOTH_WIN \in Nat /\ MaxLost \in Nat /\ SMOOTH_IDR_N \in Nat /\ SMOOTH_IDR_N > 0
    BY LadderNumbers
  <1>8. /\ OldestFirst(d.lost) /\ d.lost \in Seq(Ages)
        /\ \A i \in 1 .. Len(d.lost) : d.lost[i] \in Nat /\ d.lost[i] > 0
        /\ Len(d.lost) \in Nat
    <2>1. Size!Lately(lost) \in Seq(Ages)
      BY <1>6, <1>7, LatelyAges
    <2>2. \A i \in 1 .. Len(Size!Lately(lost)) : Size!Lately(lost)[i] \in Ages
      BY <2>1, ElementOfSeq
    <2>3. /\ OldestFirst(Size!Lately(lost)) /\ Len(Size!Lately(lost)) \in Nat
          /\ \A i \in 1 .. Len(Size!Lately(lost)) : Size!Lately(lost)[i] > 0
      <3>1. Len(Size!Lately(lost)) \in Nat
        BY <2>1
      <3>2. OldestFirst(Size!Lately(lost))
        BY <1>6, <1>7, LatelyAges
      <3>3. \A i \in 1 .. Len(Size!Lately(lost)) : Size!Lately(lost)[i] > 0
        BY <1>6, <1>7, LatelyAges
      <3> QED
        BY <3>1, <3>2, <3>3
    <2>4. d.lost = Size!Lately(lost) /\ Ages \subseteq Nat
      BY <1>3, <1>4 DEF Ages
    <2> QED
      BY <2>1, <2>2, <2>3, <2>4
  <1>9. old \in Nat
    <2>1. Len(lost) \in Nat
      BY <1>6
    <2> QED
      BY <2>1, LostWithinFinite
  \* The rung held since before this turn answers for no more than before.
  <1>10. Cardinality(LostWithin(d.lost, Size!Least(held + 1, Size!HeldMost))) <= old
    <2>1. PICK h \in Nat : h = held /\ h <= Size!HeldMost
      <3>1. held \in Nat /\ held <= Size!HeldMost
        BY <1>6, LadderNumbers
      <3> QED
        BY <3>1
    <2>2. PICK top \in Nat : top = Size!HeldMost /\ top >= SMOOTH_WIN
      BY LadderNumbers
    <2>3. CASE h < top
      <3>1. Size!Least(h + 1, top) = h + 1
        BY <2>3 DEF Size!Least
      <3> QED
        BY <1>3, <1>4, <1>6, <1>7, <2>1, <2>2, <3>1, LatelyAges
    <2>4. CASE h = top
      <3>1. Size!Least(h + 1, top) = h
        BY <2>4 DEF Size!Least
      <3> QED
        BY <1>3, <1>4, <1>6, <1>7, <2>1, <2>2, <2>4, <3>1, LatelyAges
    <2> QED
      BY <2>1, <2>2, <2>3, <2>4
  <1>11. Cardinality(LostWithin(d.lost, 0)) = 0
    BY <1>8, NoneYet
  <1>12. cur' < cur => paid >= SMOOTH_IDR_N
    <2> SUFFICES ASSUME d.cur < cur PROVE paid >= SMOOTH_IDR_N
      BY <1>5
    <2>1. d.cur \in Nat /\ m.cur \in Nat /\ cur \in Nat
      BY <1>3, <1>4, <1>6, LadderNumbers DEF Memories
    <2>2. d.cur < m.cur
      BY <1>3, <2>1
    <2>3. Cardinality(LostWithin(d.lost, m.held)) >= SMOOTH_IDR_N
      BY <1>4, <2>2
    <2>4. m.held # 0 \/ m.held = Size!Least(held + 1, Size!HeldMost)
      BY <1>7, <1>11, <2>3
    <2>5. m.held = Size!Least(held + 1, Size!HeldMost)
      BY <1>3, <2>4
    <2>6. PICK c \in Nat : c = Cardinality(LostWithin(d.lost, m.held))
      BY <1>8, LostWithinFinite
    <2>7. old >= SMOOTH_IDR_N
      BY <1>7, <1>9, <1>10, <2>3, <2>5, <2>6
    <2> QED
      BY <1>6, <1>7, <1>9, <2>7
  <1>13. /\ w \in Seq(Ages) /\ OldestFirst(w)
         /\ \A h : Cardinality(LostWithin(w, h)) <= Cardinality(LostWithin(d.lost, h)) + n
    BY <1>7, <1>8, AppendLost
  <1> HIDE DEF w
  <1>14. /\ lost' \in Seq(Ages) /\ OldestFirst(lost')
         /\ \A h : Cardinality(LostWithin(lost', h)) <= Cardinality(LostWithin(w, h))
    <2>1. PICK a \in Nat \ {0} : lost' = SubSeq(w, a, Len(w))
      <3>1. Len(w) \in Nat
        BY <1>13
      <3>2. (IF Len(w) > MaxLost THEN Len(w) - MaxLost + 1 ELSE 1) \in Nat \ {0}
        BY <1>7, <3>1
      <3> QED
        BY <1>5, <3>2
    <2>2. w \in Seq(Nat) /\ Len(w) \in 0 .. Len(w)
      <3>1. Seq(Ages) \subseteq Seq(Nat)
        BY AgesAreNumbers
      <3>2. Len(w) \in Nat
        BY <1>13
      <3> QED
        BY <1>13, <3>1, <3>2
    <2> QED
      BY <1>7, <1>13, <2>1, <2>2, PartOfAges
  <1>15. Cardinality(LostWithin(lost', held')) <= paid' \/ paid' >= SMOOTH_IDR_N
    <2> DEFINE new == Cardinality(LostWithin(lost', held'))
               mid == Cardinality(LostWithin(d.lost, d.held))
               most == Cardinality(LostWithin(w, d.held))
    <2>1. new \in Nat /\ mid \in Nat /\ most \in Nat
      <3>1. Len(lost') \in Nat /\ Len(w) \in Nat
        BY <1>13, <1>14
      <3> QED
        BY <1>8, <3>1, LostWithinFinite
    <2>2. new <= most /\ most <= mid + n
      BY <1>5, <1>13, <1>14
    <2> HIDE DEF new, mid, most
    <2>3. new <= mid + n
      BY <2>1, <2>2
    <2>4. mid = 0 \/ (d.cur = cur /\ mid <= old)
      <3>1. CASE d.held = 0
        BY <1>11, <3>1 DEF mid
      <3>2. CASE d.held # 0
        <4>1. d.held = m.held /\ d.cur = m.cur
          BY <1>4, <3>2
        <4>2. m.cur = cur /\ m.held = Size!Least(held + 1, Size!HeldMost)
          BY <1>3, <3>2, <4>1
        <4> QED
          BY <1>10, <4>1, <4>2 DEF mid
      <3> QED
        BY <3>1, <3>2
    <2>5. n \in Nat /\ paid' = Size!Least(n + (IF d.cur = cur THEN paid ELSE 0), SMOOTH_IDR_N)
      BY <1>5
    <2>6. PICK q \in Nat : q = n + (IF d.cur = cur THEN paid ELSE 0)
      BY <1>6, <2>5
    <2>7. new <= q \/ q >= SMOOTH_IDR_N
      BY <1>6, <1>7, <1>9, <2>1, <2>3, <2>4, <2>5, <2>6
    <2>8. new <= Size!Least(q, SMOOTH_IDR_N) \/ Size!Least(q, SMOOTH_IDR_N) >= SMOOTH_IDR_N
      BY <1>7, <2>1, <2>7 DEF Size!Least
    <2> QED
      BY <2>5, <2>6, <2>8 DEF new
  <1>16. paid' \in Nat
    BY <1>5, <1>6, <1>7 DEF Size!Least
  <1>17. /\ cur' \in Size!Rungs /\ held' \in 0 .. Size!HeldMost /\ up' \in Nat /\ down' \in Nat
         /\ wait' \in [Size!Rungs -> Nat] /\ backoff' \in [Size!Rungs -> Nat]
    BY <1>4, <1>5 DEF Memories
  <1> QED
    BY <1>12, <1>14, <1>15, <1>16, <1>17 DEF LadderInv

LEMMA LadderInitInv ==
  ASSUME Size!LadderAssumption, Size!Init
  PROVE  LadderInv
  <1>1. rest = 0 /\ cur = Size!Highest /\ held = 0 /\ up = 0 /\ down = 0 /\ lost = <<>> /\ paid = 0
        /\ wait = [r \in Size!Rungs |-> 0] /\ backoff = [r \in Size!Rungs |-> TIER_BACKOFF]
    BY DEF Size!Init
  <1>2. LostWithin(lost, held) = {} /\ OldestFirst(lost) /\ lost \in Seq(Ages)
    BY <1>1 DEF LostWithin, OldestFirst
  <1>3. Cardinality(LostWithin(lost, held)) <= paid
    BY <1>1, <1>2, FS_EmptySet
  <1>4. cur \in Size!Rungs /\ held \in 0 .. Size!HeldMost /\ rest \in Nat
    BY <1>1, LadderNumbers
  <1>5. wait \in [Size!Rungs -> Nat] /\ backoff \in [Size!Rungs -> Nat]
    BY <1>1, LadderNumbers
  <1> QED
    BY <1>1, <1>2, <1>3, <1>4, <1>5 DEF LadderInv

LEMMA LadderStep ==
  ASSUME Size!LadderAssumption, LadderInv, [Size!Next]_(Size!vars)
  PROVE  LadderInv' /\ (ample /\ ample' /\ cur' < cur => paid >= SMOOTH_IDR_N)
  <1>1. Caps \subseteq Nat /\ Size!Highest \in Nat /\ 0 \in Size!Rungs /\ SMOOTH_WIN \in Nat
    BY LadderNumbers
  <1>2. CASE Size!Unsettled
    <2>1. PICK cap \in Caps, n \in 0 .. 1 :
            \/ \E smooth \in BOOLEAN : Size!Turn(cap, Size!Highest, smooth, 0, n)
            \/ \E max \in Size!Rungs : Size!Turn(cap, max, TRUE, 0, n)
            \/ \E t \in Size!Rungs : Size!Turn(cap, Size!Highest, TRUE, t, n)
      BY <1>2 DEF Size!Unsettled
    <2>2. rest' = rest /\ cap \in Nat
      BY <1>1, <1>2 DEF Size!Unsettled
    <2>3. CASE \E smooth \in BOOLEAN : Size!Turn(cap, Size!Highest, smooth, 0, n)
      BY <1>1, <2>2, <2>3, TurnKeeps
    <2>4. CASE \E max \in Size!Rungs : Size!Turn(cap, max, TRUE, 0, n)
      BY <1>1, <2>2, <2>4, TurnKeeps
    <2>5. CASE \E t \in Size!Rungs : Size!Turn(cap, Size!Highest, TRUE, t, n)
      BY <2>2, <2>5, TurnKeeps
    <2> QED
      BY <2>1, <2>3, <2>4, <2>5
  <1>3. CASE Size!Off
    BY <1>3 DEF Size!Off, Size!TurnOff, LadderInv
  <1>4. CASE Size!Switched
    <2>1. PICK k \in 0 .. Len(lost) : lost' = SubSeq(lost, 1, k)
      BY <1>4 DEF Size!Switched
    <2>2. /\ rest' = rest /\ ample' = ample /\ cur' = cur /\ held' = held /\ up' = up
          /\ down' = down /\ wait' = wait /\ backoff' = backoff /\ paid' = paid
      BY <1>4 DEF Size!Switched
    <2>3. ASSUME ample
          PROVE  /\ lost' \in Seq(Ages) /\ OldestFirst(lost')
                 /\ Cardinality(LostWithin(lost', held)) <= paid \/ paid >= SMOOTH_IDR_N
      <3>1. lost \in Seq(Ages) /\ OldestFirst(lost) /\ paid \in Nat
            /\ (Cardinality(LostWithin(lost, held)) <= paid \/ paid >= SMOOTH_IDR_N)
        BY <2>3 DEF LadderInv
      <3>2. lost \in Seq(Nat) /\ 1 \in Nat \ {0}
        <4>1. Seq(Ages) \subseteq Seq(Nat)
          BY AgesAreNumbers
        <4> QED
          BY <3>1, <4>1
      <3>3. lost' \in Seq(Ages) /\ OldestFirst(lost')
            /\ Cardinality(LostWithin(lost', held)) <= Cardinality(LostWithin(lost, held))
        BY <1>1, <2>1, <3>1, <3>2, PartOfAges
      <3>4. Cardinality(LostWithin(lost', held)) \in Nat /\ Cardinality(LostWithin(lost,
              held)) \in Nat
        <4>1. Len(lost) \in Nat /\ Len(lost') \in Nat
          BY <3>1, <3>3
        <4> QED
          BY <4>1, LostWithinFinite
      <3> QED
        BY <3>1, <3>3, <3>4
    <2>4. LadderInv'
      BY <2>2, <2>3 DEF LadderInv
    <2>5. ample => cur \in Nat
      BY <1>1, LadderNumbers DEF LadderInv
    <2> QED
      BY <2>2, <2>4, <2>5
  <1>5. CASE Size!Settled
    <2>1. Size!Turn(rest, Size!Highest, TRUE, 0, 0) /\ rest' = rest /\ rest \in Nat
      BY <1>5 DEF Size!Settled, LadderInv
    <2>2. 0 \in 0 .. 1
      OBVIOUS
    <2> QED
      BY <1>1, <2>1, <2>2, TurnKeeps
  <1>6. CASE Size!Rest
    <2>1. ample => cur \in Nat
      BY <1>1, LadderNumbers DEF LadderInv
    <2> QED
      BY <1>1, <1>6, <2>1 DEF Size!Rest, LadderInv
  <1>7. CASE UNCHANGED Size!vars
    <2>1. ample => cur \in Nat
      BY <1>1, LadderNumbers DEF LadderInv
    <2> QED
      BY <1>7, <2>1 DEF Size!vars, LadderInv
  <1> QED
    BY <1>2, <1>3, <1>4, <1>5, <1>6, <1>7 DEF Size!Next

\* While the capacity has always been enough for every rung, each rung the picture goes down is paid
\* for with pictures lost since the rung was last changed, so one burst costs one rung (lost_here).
THEOREM OneRungPerBurst == Spec => OneBurstOneRung
  <1>1. Init => LadderInv
    BY PictureRateAssumption, LadderInitInv DEF Init
  <1>2. LadderInv /\ [Next]_vars => LadderInv'
    BY PartsApart, PictureRateAssumption, LadderStep
  <1>3. LadderInv /\ [Next]_vars
          => [(ample /\ ample' /\ cur' < cur) => paid >= SMOOTH_IDR_N]_(Size!vars)
    BY PartsApart, PictureRateAssumption, LadderStep
  <1> QED
    BY <1>1, <1>2, <1>3, PTL DEF Spec, OneBurstOneRung, Size!OneBurstOneRung
=============================================================================

---------------------------- MODULE PictureRate ----------------------------
(***************************************************************************)
(* The three decisions of nyx-tx's worker that follow what the link        *)
(* carries, apart from its rate: the size of the picture (Ladder), the     *)
(* ceiling of its bitrate (AirScale) and the bitrate a camera is asked for *)
(* where its own pictures are passed through (CameraRate).  Each takes     *)
(* from the others no more than a capacity, which is an input of all three *)
(* models, so a behaviour is of one of them.                               *)
(***************************************************************************)
EXTENDS Naturals

CONSTANTS
  Need, Caps, UP, DOWN, CRASH, DWELL, TIER_BACKOFF, TIER_BACKOFF_MAX, TIER_SETTLED,
  SMOOTH_WIN, SMOOTH_IDR_N, SMOOTH_UP_MAX, SMOOTH_FLOOR_TIER, SMOOTH_UP_HOLD, SMOOTH_UP_QUIET,
  MaxLost,
  Blocks, Steps, GapMax,
  Cameras, NoUrl, Marked, Own, Accepts, Top, CAM_MIN_KBPS, Ceilings

VARIABLES
  part,      \* which of the three
  rest, cur, held, up, down, wait, backoff, lost, turn, ample, paid,
  clean, air_scale, r_ema, known, sent, retx, prev, second, lossless, since,
  calm, cfg, file, text, rate, air, base, conn, retry, want

Size == INSTANCE Ladder
Rate == INSTANCE AirScale
Camera == INSTANCE CameraRate

ASSUME PictureRateAssumption ==
  Size!LadderAssumption /\ Rate!AirScaleAssumption /\ Camera!CameraRateAssumption

sizeVars == <<rest, cur, held, up, down, wait, backoff, lost, turn, ample, paid>>
rateVars == <<clean, air_scale, r_ema, known, sent, retx, prev, second, lossless, since>>
cameraVars == <<calm, cfg, file, text, rate, air, base, conn, retry, want>>
vars == <<part, sizeVars, rateVars, cameraVars>>

Init == part \in {"size", "rate", "camera"} /\ Size!Init /\ Rate!Init /\ Camera!Init

SizeNext == part = "size" /\ Size!Next /\ UNCHANGED <<part, rateVars, cameraVars>>
RateNext == part = "rate" /\ Rate!Next /\ UNCHANGED <<part, sizeVars, cameraVars>>
CameraNext == part = "camera" /\ Camera!Next /\ UNCHANGED <<part, sizeVars, rateVars>>
Next == SizeNext \/ RateNext \/ CameraNext

\* The worker's loop goes on; the camera's threads run, each of their timers ends, and a write to
\* the file ends.
Fairness ==
  /\ WF_turn(part = "size" /\ turn' = ~turn)
  /\ WF_second(part = "rate" /\ second' = ~second)
  /\ WF_cameraVars(part = "camera" /\ Camera!Connect)
  /\ WF_cameraVars(part = "camera" /\ Camera!RetryOver)
  /\ WF_cameraVars(part = "camera" /\ Camera!Refresh)
  /\ WF_cameraVars(part = "camera" /\ Camera!SetBitrate)
  /\ WF_cameraVars(part = "camera" /\ (Camera!Leave \/ Camera!Forget))
  /\ WF_cameraVars(part = "camera" /\ Camera!Worker)
  /\ WF_cameraVars(part = "camera" /\ Camera!Watch)
  /\ WF_cameraVars(part = "camera" /\ Camera!Written)

Spec == Init /\ [][Next]_vars /\ Fairness

-----------------------------------------------------------------------------

\* One burst of lost pictures costs one rung (lost_here).
OneBurstOneRung == Size!OneBurstOneRung
\* Once the capacity stays, the picture comes to the rung that suits it and stays there, and once
\* every block arrives the whole ceiling of its bitrate comes back.
Settles == Size!Settles /\ Rate!CeilingBack
\* A link that loses no block while it can be reached is not held back by its outages.
OnlyLossCuts == Rate!OnlyLossCuts
\* No camera is driven above the bitrate it came up with (cam_ceiling, watch).
NeverAbove == part = "camera" => Camera!NeverAbove
\* In the end a camera has the bitrate that suits the link, however it got there, and is left
\* alone at it (onvif run).
Follows == part = "camera" => Camera!Follows /\ Camera!LeftAlone
=============================================================================

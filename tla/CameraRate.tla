---------------------------- MODULE CameraRate ----------------------------
(***************************************************************************)
(* Following the link with the bitrate of a camera that is passed through. *)
(* The worker of nyx-tx works out the bitrate it wants; the thread `onvif` *)
(* (nyx-common onvif.rs) carries it to the camera over a connection that   *)
(* fails and reads the camera back now and then; the watcher of nyx-ipcam  *)
(* keeps the first bitrate seen in the settings, as the ceiling.           *)
(* The settings are saved in a file.  The process may stop at any moment   *)
(* and starts again from that file, the camera keeps the bitrate it was    *)
(* given last, or comes up anew with its own.                              *)
(*                                                                         *)
(* Bitrates are levels; a level is the 30 % a step up may be.  Less than a *)
(* level is the 10 % below which the camera is left alone.                 *)
(***************************************************************************)
EXTENDS Naturals

CONSTANTS
  Cameras,        \* the cameras, by their address
  NoUrl,          \* no camera named
  Marked,         \* those whose address the settings file does not carry (a blank, a `#`)
  Own,            \* the bitrate a camera comes up with
  Accepts,        \* the lowest and the highest bitrate a camera takes (BitrateRange)
  Top,            \* the highest level
  CAM_MIN_KBPS,   \* the lowest bitrate asked for
  Ceilings        \* bound: ceilings the operator may name (`set cammax`), 0 is none

Levels == 1 .. Top
Settings == [url : Cameras \cup {NoUrl}, adapt : BOOLEAN, max : 0 .. Top]

CameraRateAssumption ==
  /\ Top \in Nat \ {0} /\ CAM_MIN_KBPS \in Levels
  /\ NoUrl \notin Cameras /\ Marked \subseteq Cameras /\ Ceilings \subseteq 0 .. Top
  /\ Own \in [Cameras -> Levels]
  /\ Accepts \in [Cameras -> Levels \X Levels]
  /\ \A c \in Cameras : Accepts[c][1] <= Own[c] /\ Own[c] <= Accepts[c][2]

VARIABLES
  calm,      \* from now on nobody changes anything and nothing fails
  cfg,       \* the settings
  file,      \* the settings file: {what was saved}, or {} while it is half written
  text,      \* {what is being written to it}
  rate,      \* each camera's bitrate
  air,       \* what the air carries at the spacing the daemon keeps up with, with room left
  base,      \* the camera's bitrate when it was first reached, 0 before (onvif_base_kbps)
  conn,      \* the thread's camera: its address and its bitrate as far as is known
  retry,     \* it is too early to connect again
  want       \* the bitrate wanted, 0 is none (want_kbps)

process == <<cfg, text, base, conn, retry, want>>
vars == <<calm, process, file, rate, air>>

NoCam == [url |-> NoUrl, kbps |-> 0]
ok == conn # NoCam            \* the camera is reached (onvif_ok)

Default == [url |-> NoUrl, adapt |-> TRUE, max |-> 0]

\* A saved setting as the next start reads it (load_config_file).
ReadBack(c) == IF c.url \in Marked THEN [c EXCEPT !.url = NoUrl] ELSE c

Least(a, b) == IF a < b THEN a ELSE b
Most(a, b) == IF a > b THEN a ELSE b

Fresh ==
  /\ text = {} /\ base = 0 /\ conn = NoCam /\ retry = FALSE /\ want = 0

Init ==
  /\ calm = FALSE
  /\ cfg = Default /\ file = {Default} /\ Fresh
  /\ rate = Own /\ air = Top

-----------------------------------------------------------------------------
(* What happens to the box: the operator, the air, the camera, the process. *)

Calm == calm' = TRUE /\ UNCHANGED <<process, file, rate, air>>

\* `set rtsp`, `set camadapt`, `set cammax`
Set(new) ==
  /\ ~calm /\ new \in [url : Cameras \cup {NoUrl}, adapt : BOOLEAN, max : Ceilings \cup {cfg.max}]
  /\ cfg' = new
  /\ UNCHANGED <<calm, text, base, conn, retry, want, file, rate, air>>

AirChanges ==
  /\ ~calm /\ air' \in Levels
  /\ UNCHANGED <<calm, process, file, rate>>

\* The camera restarts: it was not told to keep what it was given (ForcePersistence).
CameraRestarts(c) ==
  /\ ~calm /\ rate' = [rate EXCEPT ![c] = Own[c]]
  /\ UNCHANGED <<calm, process, file, air>>

\* The process ends, at any moment, and starts again from the file.
Restart ==
  /\ ~calm
  /\ cfg' = IF file = {} THEN Default ELSE ReadBack(CHOOSE s \in file : TRUE)
  /\ text' = {} /\ base' = 0 /\ conn' = NoCam /\ retry' = FALSE /\ want' = 0
  /\ UNCHANGED <<calm, file, rate, air>>

-----------------------------------------------------------------------------
(* The settings file (save_config): the file is emptied, then written.     *)

\* The console's `save`.
Save ==
  /\ ~calm /\ text = {}
  /\ text' = {cfg} /\ file' = {}
  /\ UNCHANGED <<calm, cfg, base, conn, retry, want, rate, air>>

\* The watcher: the first bitrate seen becomes the ceiling, and is saved, if the file can be
\* written.
Watch ==
  /\ base > 0 /\ cfg.max = 0 /\ text = {}
  /\ cfg' = [cfg EXCEPT !.max = base]
  /\ \/ text' = {cfg'} /\ file' = {}
     \/ ~calm /\ UNCHANGED <<text, file>>
  /\ UNCHANGED <<calm, base, conn, retry, want, rate, air>>

Written ==
  /\ text # {}
  /\ file' = text /\ text' = {}
  /\ UNCHANGED <<calm, cfg, base, conn, retry, want, rate, air>>

-----------------------------------------------------------------------------
(* The thread onvif (run).                                                 *)

Here == ok /\ conn.url = cfg.url

\* An error: the connection is dropped, the next attempt waits.
Lost == conn' = NoCam /\ retry' = TRUE

\* Adaptation is off.
Leave ==
  /\ ~cfg.adapt /\ ok /\ conn' = NoCam
  /\ UNCHANGED <<calm, cfg, text, base, retry, want, file, rate, air>>

\* No connection, or one to another camera than the one named.
Connect ==
  /\ cfg.adapt /\ cfg.url # NoUrl /\ ~Here /\ ~retry
  /\ \/ /\ conn' = [url |-> cfg.url, kbps |-> rate[cfg.url]]
        /\ base' = IF base = 0 THEN rate[cfg.url] ELSE base
        /\ UNCHANGED retry
     \/ ~calm /\ Lost /\ UNCHANGED base
  /\ UNCHANGED <<calm, cfg, text, want, file, rate, air>>

\* Another camera is named and it is too early to connect.
Forget ==
  /\ cfg.adapt /\ cfg.url # NoUrl /\ ok /\ ~Here /\ retry
  /\ conn' = NoCam
  /\ UNCHANGED <<calm, cfg, text, base, retry, want, file, rate, air>>

RetryOver ==
  /\ retry /\ retry' = FALSE
  /\ UNCHANGED <<calm, cfg, text, base, conn, want, file, rate, air>>

\* The camera is read back (faulty variant: the answer is not taken over).
RefreshUnused ==
  /\ cfg.adapt /\ Here
  /\ \/ UNCHANGED <<conn, retry>>
     \/ ~calm /\ Lost
  /\ UNCHANGED <<calm, cfg, text, base, want, file, rate, air>>
\* The camera is read back: it may have come up anew, or another client may have set it.
Refresh ==
  /\ cfg.adapt /\ Here
  /\ \/ conn' = [conn EXCEPT !.kbps = rate[cfg.url]] /\ UNCHANGED retry
     \/ ~calm /\ Lost
  /\ UNCHANGED <<calm, cfg, text, base, want, file, rate, air>>

\* Is the camera to be given what is wanted?
OtherWanted == want # 0 /\ want # conn.kbps

Clamp(c, k) == Most(Accepts[c][1], Least(k, Accepts[c][2]))

\* set_bitrate; an answer that is lost leaves the camera with the new bitrate or the old one.
SetBitrate ==
  /\ cfg.adapt /\ Here /\ OtherWanted
  /\ LET new == [rate EXCEPT ![cfg.url] = Clamp(cfg.url, want)] IN
       \/ /\ rate' = new /\ conn' = [conn EXCEPT !.kbps = new[cfg.url]]
          /\ UNCHANGED retry
       \/ ~calm /\ rate' \in {rate, new} /\ Lost
  /\ UNCHANGED <<calm, cfg, text, base, want, file, air>>

Onvif == Leave \/ Connect \/ Forget \/ RetryOver \/ Refresh \/ SetBitrate

-----------------------------------------------------------------------------
(* The worker, once a second.                                              *)

\* cam_ceiling
Ceiling == IF cfg.max > 0 THEN cfg.max ELSE base

\* The bitrate the camera should come to (faulty variant: the ceiling does not count).
TargetUncapped == Most(air, CAM_MIN_KBPS)
\* The bitrate the camera should come to.
Target ==
  LET t == Most(air, CAM_MIN_KBPS) IN IF Ceiling > 0 THEN Least(t, Ceiling) ELSE t

\* Down at once, up one level at a time; frames that went old waiting pull it under what the
\* camera really sends.
Wish(late) ==
  /\ cfg.adapt /\ ok
  /\ \E sends \in Levels :
       /\ late => ~calm
       /\ ~late => sends = 1
       /\ want' = IF want = 0 THEN Target
                  ELSE IF late THEN Most(Least(Target, sends - 1), CAM_MIN_KBPS)
                  ELSE Least(Target, want + 1)
  /\ UNCHANGED <<calm, cfg, text, base, conn, retry, file, rate, air>>

\* Adaptation is off.
WishNothing ==
  /\ ~cfg.adapt /\ want # 0 /\ want' = 0
  /\ UNCHANGED <<calm, cfg, text, base, conn, retry, file, rate, air>>

Worker == WishNothing \/ \E late \in BOOLEAN : Wish(late)

-----------------------------------------------------------------------------

Next ==
  \/ Calm \/ AirChanges \/ Restart \/ Save \/ Watch \/ Written
  \/ \E new \in Settings : Set(new)
  \/ \E c \in Cameras : CameraRestarts(c)
  \/ Onvif \/ Worker

\* The threads run, each of their timers ends, a write to the file ends.
Fairness ==
  /\ WF_vars(Connect) /\ WF_vars(RetryOver) /\ WF_vars(Refresh) /\ WF_vars(SetBitrate)
  /\ WF_vars(Leave \/ Forget) /\ WF_vars(Worker) /\ WF_vars(Watch) /\ WF_vars(Written)

Spec == Init /\ [][Next]_vars /\ Fairness

-----------------------------------------------------------------------------
(* Properties.                                                             *)

\* However settings change, processes and cameras restart and answers are lost, no camera is ever
\* driven above the bitrate the cameras come up with, unless the operator named a higher ceiling
\* (cam_ceiling, the ceiling saved by the watcher), or both are below what is asked for at least:
\* once frames went old the wish is raised to that, whatever the ceiling.
NeverAbove ==
  \A c \in Cameras : \/ \E d \in Cameras : rate[c] <= Own[d]
                     \/ \E k \in Ceilings : rate[c] <= k
                     \/ rate[c] <= CAM_MIN_KBPS

Named == cfg.url # NoUrl
Follow == calm /\ cfg.adapt /\ Named
Suits == IF Named THEN rate[cfg.url] = Clamp(cfg.url, Target) ELSE FALSE
Accepted == IF Named THEN Clamp(cfg.url, Target) = Target ELSE FALSE

\* Once nothing disturbs any more, the camera comes to the bitrate that suits the link, and stays
\* at it, whatever the threads believed of it before (run, the worker's wish).
Follows == <>[]Follow => <>[]Suits

\* ... and it is left alone from then on, as every change may restart its stream, if it accepts
\* that bitrate (run).
LeftAlone == <>[](Follow /\ Accepted) => <>[]~ENABLED SetBitrate
=============================================================================

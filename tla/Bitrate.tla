------------------------------ MODULE Bitrate ------------------------------
(***************************************************************************)
(* A measurement of the link (nyx-bitrate): the run holds the ground board *)
(* on one channel and one width, sends test packets, and puts the board's  *)
(* settings back.  Every step of it is a command over a console of its     *)
(* own: carried out and answered, refused, or carried out with the answer  *)
(* lost.  An answer that is cut short is taken as it is, and a field it    *)
(* lacks for its default.  What is measured is left out.                   *)
(***************************************************************************)

CONSTANTS
  Channels, Widths,  \* the channels and widths a board knows
  Full               \* the whole width (chbw_div 1)

BitrateAssumption == Channels # {} /\ Full \in Widths

VARIABLES
  hop, bw,  \* the ground board: [auto, on], the channel and the width
  far,      \* the width the aircraft board is on
  before,   \* the settings the run began with
  saved,    \* Saved: what the run read of them, and whether it was told the channel
  job,      \* widths still to be measured, the channel to hold (none: the one it is on)
  stop,     \* the operator's stop
  pc,       \* where the run is
  failed    \* which of its preparation and its putting back had a command without a good answer

ground == <<hop, bw>>
vars == <<ground, far, before, saved, job, stop, pc, failed>>

On(V) == [auto : BOOLEAN, on : V]
Settings == [hop |-> hop, bw |-> bw]

Init ==
  /\ hop \in On(Channels) /\ bw \in On(Widths) /\ far = bw.on
  /\ before = Settings /\ saved = [hop |-> hop, bw |-> bw, told |-> TRUE]
  /\ job = [widths |-> {}, chan |-> {}] /\ stop = FALSE
  /\ pc = "idle" /\ failed = {}

-----------------------------------------------------------------------------
(* Commands                                                                *)

\* A setting s of the board is to become v: whether it did, and whether the run hears so.
Command(s, v, ok) ==
  \/ ok /\ s' = v
  \/ ~ok /\ s' \in {s, v}

Hold(v) == [auto |-> FALSE, on |-> v]

\* What failed so far, after a command of a phase.
After(phase, ok) == IF ok THEN failed ELSE failed \cup {phase}

\* start: the stop flag is cleared, the job taken; the meter answers, or the run is over.
Start(ws, c) ==
  /\ pc = "idle"
  /\ job' = [widths |-> ws, chan |-> c] /\ stop' = FALSE
  /\ pc' = "read" /\ before' = Settings /\ failed' = {}
  /\ UNCHANGED <<ground, far, saved>>

\* prepare: the two questions; of the answers a field that tells of `auto`, the channel or the
\* width may be missing ...
Read ==
  /\ pc = "read"
  /\ \/ \E mode, auto, told, width \in BOOLEAN :
          saved' = [hop |-> [hop EXCEPT !.auto = @ /\ mode], told |-> told,
                    bw |-> [auto |-> bw.auto /\ auto, on |-> IF width THEN bw.on ELSE Full]]
        /\ pc' = "hold"
     \/ saved' = saved /\ pc' = "idle"
  /\ UNCHANGED <<ground, far, before, job, stop, failed>>

\* ... the channel to hold, the one asked for or else the one it is on, if that was told ...
Channel == IF job.chan = {} THEN saved.hop.on ELSE CHOOSE c \in job.chan : TRUE
Holds == job.chan # {} \/ saved.told
OnIt == ~saved.hop.auto /\ saved.told /\ Channel = saved.hop.on

HoldChannel ==
  /\ pc = "hold"
  /\ IF Holds /\ ~OnIt
     THEN \E ok \in BOOLEAN :
            /\ Command(hop, Hold(Channel), ok)
            /\ pc' = IF ok THEN "fix" ELSE "idle"
            /\ failed' = After("prepare", ok)
     ELSE pc' = "fix" /\ UNCHANGED <<hop, failed>>
  /\ UNCHANGED <<bw, far, before, saved, job, stop>>

\* ... and the width: an error of either leaves the run at once, with nothing put back.
FixWidth ==
  /\ pc = "fix"
  /\ IF saved.bw.auto
     THEN \E ok \in BOOLEAN :
            /\ Command(bw, Hold(saved.bw.on), ok)
            /\ pc' = IF ok THEN "width" ELSE "idle"
            /\ failed' = After("prepare", ok)
     ELSE pc' = "width" /\ UNCHANGED <<bw, failed>>
  /\ UNCHANGED <<hop, far, before, saved, job, stop>>

\* (faulty variant: an error leaves the run as the preparation's do)
LeavesAtOnce == "idle"
\* set_width: the next width of the job, unless both ends say they are on it.
AfterError == "back bw"

NextWidth(w) ==
  \/ pc' = AfterError /\ bw' = bw
  \/ (bw.on = w \/ w = Full) /\ far = w /\ pc' = "blast" /\ bw' = bw
  \/ \E ok \in BOOLEAN : Command(bw, Hold(w), ok) /\ pc' = IF ok THEN "wait" ELSE AfterError

SetWidth ==
  /\ pc = "width"
  /\ \/ job.widths = {} /\ pc' = "back bw" /\ UNCHANGED <<bw, job>>
     \/ \E w \in job.widths : NextWidth(w) /\ job' = [job EXCEPT !.widths = @ \ {w}]
  /\ UNCHANGED <<hop, far, before, saved, stop, failed>>

\* The aircraft is on it; or the stop was pressed, or twenty seconds are over without both ends
\* having said so.
WaitWidth ==
  /\ pc = "wait"
  /\ \/ far = bw.on /\ pc' = "blast"
     \/ pc' = AfterError
  /\ UNCHANGED <<ground, far, before, saved, job, stop, failed>>

\* Test packets: a batch more, the next width, or an error; the stop ends the job.
Blasts ==
  /\ pc = "blast"
  /\ \/ ~stop /\ pc' \in {"blast", "width"}
     \/ stop /\ pc' = "back bw"
     \/ pc' = AfterError
  /\ UNCHANGED <<ground, far, before, saved, job, stop, failed>>

\* restore: the width, then the channel, errors passed over ...
BackWidth ==
  /\ pc = "back bw"
  /\ \E ok \in BOOLEAN :
       /\ Command(bw, IF saved.bw.auto THEN [bw EXCEPT !.auto = TRUE] ELSE Hold(saved.bw.on), ok)
       /\ failed' = After("restore", ok)
  /\ pc' = "back hop"
  /\ UNCHANGED <<hop, far, before, saved, job, stop>>

\* ... which is left as it is if the board was not on auto and did not tell it.
BackChannel ==
  /\ pc = "back hop"
  /\ IF saved.hop.auto \/ saved.told
     THEN \E ok \in BOOLEAN :
            /\ Command(hop, IF saved.hop.auto THEN [hop EXCEPT !.auto = TRUE] ELSE Hold(saved.hop.on), ok)
            /\ failed' = After("restore", ok)
     ELSE UNCHANGED <<hop, failed>>
  /\ pc' = "idle"
  /\ UNCHANGED <<bw, far, before, saved, job, stop>>

-----------------------------------------------------------------------------
(* The operator, the aircraft, the board                                   *)

Stop == /\ pc # "idle" /\ ~stop /\ stop' = TRUE
        /\ UNCHANGED <<ground, far, before, saved, job, pc, failed>>

\* The aircraft follows the ground's width over the air.
Follows == /\ far # bw.on /\ far' = bw.on
           /\ UNCHANGED <<ground, before, saved, job, stop, pc, failed>>

\* Left to itself the board moves.
Moves ==
  /\ \/ hop.auto /\ (\E c \in Channels : hop' = [hop EXCEPT !.on = c]) /\ bw' = bw
     \/ bw.auto /\ (\E w \in Widths : bw' = [bw EXCEPT !.on = w]) /\ hop' = hop
  /\ UNCHANGED <<far, before, saved, job, stop, pc, failed>>

Run == Read \/ HoldChannel \/ FixWidth \/ SetWidth \/ WaitWidth \/ Blasts \/ BackWidth \/ BackChannel
Next ==
  \/ Run \/ Stop \/ Follows \/ Moves
  \/ \E ws \in SUBSET Widths \ {{}}, c \in {{}} \cup {{d} : d \in Channels} : Start(ws, c)

-----------------------------------------------------------------------------

Same(s, t) == s.auto = t.auto /\ (s.auto \/ s.on = t.on)

\* What the run read of the channel, or took it for, is what the board was on, or it has no need
\* to know; and what it read of the width.
KnewChannel ==
  /\ saved.hop.auto = before.hop.auto
  /\ saved.hop.auto \/ saved.told \/ job.chan = {}
KnewWidth == Same(saved.bw, before.bw)

\* However a run ends, by its job, by the stop or by an error, channel and width are as they were,
\* where its first two answers carried what it needs to know of them and each command of its
\* preparation and of its putting back was answered (link.rs, run).
PutBack ==
  pc = "idle" /\ failed = {} =>
    /\ KnewChannel => Same(hop, before.hop)
    /\ KnewWidth => Same(bw, before.bw)

\* What the header of link.rs says (6-7): a run "puts everything back after", unless a command of
\* the putting back itself fails.
EverythingBack ==
  pc = "idle" /\ "restore" \notin failed => Same(hop, before.hop) /\ Same(bw, before.bw)
=============================================================================

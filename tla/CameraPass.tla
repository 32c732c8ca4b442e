---------------------------- MODULE CameraPass ----------------------------
(***************************************************************************)
(* Camera pass-through: the pictures of an IP camera go on air as the      *)
(* camera encoded them.  Three parties: the operator, who changes the      *)
(* settings; the thread `rtsp` (nyx-common source.rs), which opens a       *)
(* session with the camera and queues its access units; and the worker of  *)
(* nyx-tx (worker.rs), which hands the settings on and takes the access    *)
(* units from the queue (pass_next).                                       *)
(*                                                                         *)
(* A picture that is not a key frame is of use only after the one before   *)
(* it.  Pictures are thrown away at a full queue, at the start of a        *)
(* session, when pass-through is switched and when they are old; the       *)
(* threads share a queue, a flag and a few settings without a common lock. *)
(* That an access unit follows the one before it is recorded in the access *)
(* unit itself: `follows` says that the camera's picture before it is the  *)
(* one before it in the queue, or the last one sent.                       *)
(***************************************************************************)
EXTENDS Naturals, Sequences

CONSTANTS
  RTSP_AU_QUEUE,  \* access units that wait at most (90)
  BACKLOG,        \* so many waiting leave without the interval between them (3)
  Urls,           \* cameras the operator may name
  NoUrl,          \* no camera named
  Choices         \* bound: settings the operator may choose

\* Standby; is the source the camera; passed through or decoded; its address.
Settings ==
  [standby : BOOLEAN, rtsp : BOOLEAN, rtsp_pass : BOOLEAN, url : Urls \cup {NoUrl}]

ASSUME CameraPassAssumption ==
  /\ {RTSP_AU_QUEUE, BACKLOG} \subseteq Nat \ {0}
  /\ NoUrl \notin Urls /\ Choices \subseteq Settings
VARIABLES
  cfg,         \* the settings
  trouble,     \* the network or the radio is slow or fails at present, or the operator paused
  wanted, url, pass,  \* what the worker handed on of them (RtspShared)
  aus,         \* the queue of access units
  aus_broken,  \* access units were thrown away before the consumer saw them
  old,         \* how many of the queue, from its head, are older than PASS_MAX_LAG
  session,     \* where the thread rtsp is
  dialed,      \* the camera its session is with
  waiting_key, \* the session has had no key frame yet
  unit_key,    \* the picture it holds is a key frame
  gap,         \* history: the next access unit does not follow the last one queued
  worker,      \* where the worker's loop is
  wait_key,    \* PassState: drop until a key frame
  sent         \* history: could the last access unit sent be decoded; the parity of their number

shared == <<wanted, url, pass>>
queue == <<aus, aus_broken, old, gap>>
rtsp == <<session, dialed, waiting_key, unit_key>>
consumer == <<worker, wait_key, sent>>
vars == <<cfg, trouble, shared, queue, rtsp, consumer>>

Init ==
  /\ cfg \in Choices /\ trouble = FALSE
  /\ wanted = FALSE /\ url = NoUrl /\ pass = FALSE
  /\ aus = <<>> /\ aus_broken = FALSE /\ old = 0 /\ gap = TRUE
  /\ session = "idle" /\ dialed = NoUrl /\ waiting_key = TRUE
  /\ unit_key = FALSE
  /\ worker = "top" /\ wait_key = TRUE
  /\ sent = [decodable |-> TRUE, odd |-> FALSE]

-----------------------------------------------------------------------------
(* The operator, the clock and the network.                                *)

Change == cfg' \in Choices /\ UNCHANGED <<trouble, shared, queue, rtsp, consumer>>

TroubleComesOrGoes ==
  trouble' = ~trouble /\ UNCHANGED <<cfg, shared, queue, rtsp, consumer>>

\* PASS_MAX_LAG is over for the oldest access units that were young: the worker is behind.
Age ==
  /\ trouble /\ old < Len(aus)
  /\ old' \in old + 1 .. Len(aus)
  /\ UNCHANGED <<cfg, trouble, shared, aus, aus_broken, gap, rtsp, consumer>>

-----------------------------------------------------------------------------
(* The queue.                                                              *)

\* push_au
PushAu ==
  LET full == Len(aus) >= RTSP_AU_QUEUE
      au == [key |-> unit_key, follows |-> ~gap /\ ~full] IN
  /\ aus' = IF full THEN <<au>> ELSE Append(aus, au)
  /\ old' = IF full THEN 0 ELSE old
  /\ aus_broken' = (aus_broken \/ full)
  /\ gap' = FALSE

\* clear_aus
Clear ==
  /\ aus' = <<>> /\ old' = 0
  /\ aus_broken' = (aus_broken \/ aus # <<>>)

-----------------------------------------------------------------------------
(* The thread rtsp: run and stream_one.                                    *)

Dial ==
  /\ session = "idle" /\ wanted /\ url # NoUrl
  /\ session' = "dial" /\ dialed' = url
  /\ UNCHANGED <<cfg, trouble, shared, queue, waiting_key, unit_key, consumer>>

\* The session stands; what the consumer still holds belongs to the old stream.
Open ==
  /\ session = "dial"
  /\ Clear /\ gap' = TRUE
  /\ session' = "check" /\ waiting_key' = TRUE
  /\ UNCHANGED <<cfg, trouble, shared, dialed, unit_key, consumer>>

\* The session ends: no answer, an error, the end of the stream, or silence for ten seconds.
Fails ==
  /\ trouble /\ session \in {"dial", "await"}
  /\ session' = "idle" /\ dialed' = NoUrl /\ waiting_key' = TRUE
  /\ UNCHANGED <<cfg, trouble, shared, queue, unit_key, consumer>>

StillWanted ==
  /\ session = "check"
  /\ IF wanted /\ url = dialed
       THEN session' = "await" /\ UNCHANGED <<dialed, waiting_key>>
       ELSE session' = "idle" /\ dialed' = NoUrl /\ waiting_key' = TRUE
  /\ UNCHANGED <<cfg, trouble, shared, queue, unit_key, consumer>>

\* The camera's next picture; before the first key frame others are dropped.
Picture(key) ==
  /\ session = "await"
  /\ LET dropped == waiting_key /\ ~key IN
       /\ session' = IF dropped THEN "check" ELSE "hold"
       /\ unit_key' = (key /\ ~dropped)
       /\ waiting_key' = dropped
  /\ UNCHANGED <<cfg, trouble, shared, queue, dialed, consumer>>

\* Is it to be passed on?
ReadPass ==
  /\ session = "hold"
  /\ session' = IF pass THEN "push" ELSE "check"
  /\ unit_key' = (pass /\ unit_key)
  /\ gap' = (gap \/ ~pass)
  /\ UNCHANGED <<cfg, trouble, shared, aus, aus_broken, old, dialed, waiting_key, consumer>>

\* The queue holds three seconds: it fills up only while something is slow.
Push ==
  /\ session = "push" /\ (trouble \/ Len(aus) < RTSP_AU_QUEUE)
  /\ PushAu /\ session' = "check" /\ unit_key' = FALSE
  /\ UNCHANGED <<cfg, trouble, shared, dialed, waiting_key, consumer>>

Rtsp == Dial \/ Open \/ Fails \/ StillWanted \/ ReadPass \/ Push
          \/ \E key \in BOOLEAN : Picture(key)

-----------------------------------------------------------------------------
(* The worker's loop, as far as it is about the camera.                    *)

\* Top of the loop: a copy of the settings, and what follows from it for the thread rtsp.
Top ==
  /\ worker = "top"
  /\ IF cfg.standby
       THEN wanted' = FALSE /\ UNCHANGED <<pass, worker>>
       ELSE LET now == cfg.rtsp /\ cfg.rtsp_pass IN
              /\ wanted' = cfg.rtsp
              /\ pass' = now
              /\ worker' = IF now # pass THEN "clear" ELSE "url"
  /\ UNCHANGED <<cfg, trouble, url, queue, rtsp, wait_key, sent>>

\* Pass-through was switched (faulty variant: the reader's state stays as it was).
KeepPassState ==
  /\ worker = "clear" /\ Clear /\ gap' = (gap \/ aus # <<>>)
  /\ worker' = "url" /\ UNCHANGED <<cfg, trouble, shared, rtsp, wait_key, sent>>
\* Pass-through was switched: the queue is forgotten, the reader starts anew.
NewPassState ==
  /\ worker = "clear" /\ Clear /\ gap' = (gap \/ aus # <<>>)
  /\ worker' = "url" /\ wait_key' = TRUE
  /\ UNCHANGED <<cfg, trouble, shared, rtsp, sent>>

\* The camera's address goes over; paused or without a connection the loop ends here.
HandUrl ==
  /\ worker = "url"
  /\ url' = IF cfg.rtsp THEN cfg.url ELSE url
  /\ worker' \in (IF trouble THEN {"top", "read"} ELSE {"read"})
  /\ UNCHANGED <<cfg, trouble, wanted, pass, queue, rtsp, wait_key, sent>>

KeysIn(s) == {k \in 1 .. Len(s) : s[k].key}
Newest(S) == CHOOSE k \in S : \A j \in S : j <= k
Oldest(S) == CHOOSE k \in S : \A j \in S : k <= j

\* The queue without its first n entries.
Without(s, n) ==
  LET rest == SubSeq(s, n + 1, Len(s)) IN
  IF n > 0 /\ rest # <<>> THEN [rest EXCEPT ![1].follows = FALSE] ELSE rest

\* How many access units go when the oldest is too old: all before the newest key frame that is
\* not, or all.
TooOld(s) ==
  LET young == {k \in KeysIn(s) : k > old} IN
  IF old = 0 THEN 0 ELSE IF young = {} THEN Len(s) ELSE Newest(young) - 1

\* How many go before a key frame, if one is waited for (faulty variant: the key frame is not
\* looked for).
AllUntilKey(s, waiting) == IF waiting THEN Len(s) ELSE 0
\* How many go before a key frame, if one is waited for.
NoKeyYet(s, waiting) ==
  IF ~waiting THEN 0 ELSE IF KeysIn(s) = {} THEN Len(s) ELSE Oldest(KeysIn(s)) - 1

\* pass_next; `early` is that the last access unit left less than half an interval ago.
PassNext(early) ==
  LET late == TooOld(aus)
      kept == Without(aus, late)
      waiting == IF old > 0 THEN kept = <<>> ELSE wait_key \/ aus_broken
      skipped == NoKeyYet(kept, waiting)
      ready == Without(kept, skipped)
      sends == ready # <<>> /\ ~(early /\ Len(ready) < BACKLOG)
  IN
  /\ worker = "read" /\ pass
  /\ aus_broken' = FALSE
  /\ wait_key' = (waiting /\ ready = <<>>)
  /\ aus' = IF sends THEN Tail(ready) ELSE ready
  /\ old' = 0
  /\ gap' = (gap \/ (ready = <<>> /\ aus # <<>>))
  /\ sent' = IF ~sends THEN sent
              ELSE [decodable |-> Head(ready).key \/ Head(ready).follows, odd |-> ~sent.odd]
  /\ worker' = "top"
  /\ UNCHANGED <<cfg, trouble, shared, rtsp>>

\* Another source, or the camera's picture decoded and encoded again.
OtherSource ==
  /\ worker = "read" /\ ~pass
  /\ worker' = "top" /\ UNCHANGED <<cfg, trouble, shared, queue, rtsp, wait_key, sent>>

Worker == Top \/ NewPassState \/ HandUrl \/ OtherSource \/ \E early \in BOOLEAN : PassNext(early)

-----------------------------------------------------------------------------

Next == Change \/ TroubleComesOrGoes \/ Age \/ Rtsp \/ Worker

\* Both threads run; the camera sends key frames again and again, and the interval between two
\* pictures passes.
Spec ==
  /\ Init /\ [][Next]_vars
  /\ WF_vars(Rtsp) /\ WF_vars(Worker)
  /\ SF_vars(Picture(TRUE)) /\ SF_vars(PassNext(FALSE))

-----------------------------------------------------------------------------
(* Properties.                                                             *)

\* Whatever was thrown away by whom, an access unit that is sent can be decoded: it is a key
\* frame, or it follows the one sent before it (pass_next, push_au, clear_aus).
Decodable == sent.decodable

Steady ==
  /\ ~trouble /\ cfg.rtsp /\ cfg.rtsp_pass /\ cfg.url # NoUrl
  /\ ~cfg.standby

\* When the operator has chosen pass-through of a camera, and nothing fails any more, pictures go
\* out again, whatever the flags and the queue were left in.
Resumes == (<>[][UNCHANGED cfg]_vars /\ <>[]Steady) => []<><<sent' # sent>>_vars
=============================================================================

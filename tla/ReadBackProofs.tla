--------------------------- MODULE ReadBackProofs ---------------------------
(***************************************************************************)
(* Proofs about what is read back: a measurement of the link gives the     *)
(* board its settings back, for any channels and widths and any number of  *)
(* runs; a block is taken for itself, and one that comes clean is handed   *)
(* on, once, by the theorems of BlockProofs; messages and control payloads *)
(* come out as they were written, for any sizes and versions; and the      *)
(* settings of the last save come back, for any number of threads.         *)
(***************************************************************************)
EXTENDS ReadBack, SequenceTheorems, WellFoundedInduction, TLAPS

-----------------------------------------------------------------------------
(* A measurement.                                                          *)

Both == [hop : Meter!On(Channels), bw : Meter!On(Widths)]
Answers == [hop : Meter!On(Channels), bw : Meter!On(Widths), told : BOOLEAN]

MeterTypeOK ==
  /\ hop \in Meter!On(Channels) /\ bw \in Meter!On(Widths)
  /\ before \in Both /\ saved \in Answers
  /\ pc \in {"idle", "read", "hold", "fix", "width", "wait", "blast", "back bw", "back hop"}
  /\ job \in [widths : SUBSET Widths, chan : SUBSET Channels]

\* What the run read of the channel is what there was when it began, but for what the board chose
\* itself, unless it took a board on auto for one that is not.
SavedAsBefore ==
  pc \notin {"idle", "read"} /\ saved.hop.auto = before.hop.auto =>
    Meter!Same(saved.hop, before.hop)

\* A channel that was not told is not touched, unless another was asked for.
NotHeld ==
  pc \notin {"idle", "read"} /\ ~before.hop.auto /\ ~saved.told /\ job.chan = {} =>
    saved.hop.auto \/ Meter!Same(hop, before.hop)

\* Nothing is touched before it is read.
Untouched == pc = "read" => Meter!Same(hop, before.hop) /\ Meter!Same(bw, before.bw)

\* The width is put back first.
WidthBack == pc = "back hop" /\ failed = {} /\ Meter!KnewWidth => Meter!Same(bw, before.bw)

MeterInv ==
  MeterTypeOK /\ SavedAsBefore /\ NotHeld /\ Untouched /\ WidthBack /\ Meter!PutBack

LEMMA SameTransitive ==
  ASSUME NEW s, NEW t, NEW u, Meter!Same(s, t), Meter!Same(t, u)
  PROVE  Meter!Same(s, u)
BY DEF Meter!Same

\* A setting put back is as it was saved.
LEMMA Restored ==
  ASSUME NEW V, NEW s \in Meter!On(V), NEW t \in Meter!On(V)
  PROVE  LET r == IF t.auto THEN [s EXCEPT !.auto = TRUE]
    ELSE Meter!Hold(t.on) IN r \in Meter!On(V) /\ Meter!Same(r, t)
BY DEF Meter!On, Meter!Hold, Meter!Same

\* The board moves only what it may choose itself.
LEMMA Moved ==
  ASSUME NEW V, NEW s \in Meter!On(V), NEW v \in V, s.auto
  PROVE  /\ [s EXCEPT !.on = v] \in Meter!On(V)
         /\ \A t : Meter!Same(s, t) => Meter!Same([s EXCEPT !.on = v], t)
BY DEF Meter!On, Meter!Same

LEMMA MeterInit == ASSUME Meter!Init PROVE MeterInv
<1>1. /\ hop \in Meter!On(Channels) /\ bw \in Meter!On(Widths) /\ before = Meter!Settings
      /\ saved = [hop |-> hop, bw |-> bw, told |-> TRUE] /\ pc = "idle"
  BY DEF Meter!Init
<1>2. MeterTypeOK
  BY <1>1 DEF Meter!Init, MeterTypeOK, Both, Answers, Meter!Settings
<1>3. Meter!PutBack
  BY <1>1 DEF Meter!PutBack, Meter!Settings, Meter!Same
<1>4. QED
  BY <1>1, <1>2, <1>3 DEF MeterInv, SavedAsBefore, NotHeld, Untouched, WidthBack

-----------------------------------------------------------------------------
(* The run.                                                                *)

LEMMA StartStep ==
  ASSUME MeterInv, NEW ws \in SUBSET Widths, NEW c \in {{}} \cup {{d} : d \in Channels},
         Meter!Start(ws, c)
  PROVE  MeterInv'
<1>1. UNCHANGED <<hop, bw, saved>> /\ pc' = "read" /\ before' = Meter!Settings
  BY DEF Meter!Start, Meter!ground
<1>2. MeterTypeOK'
  BY <1>1 DEF Meter!Start, MeterInv, MeterTypeOK, Both, Meter!Settings
<1>3. Meter!Same(hop', before'.hop) /\ Meter!Same(bw', before'.bw)
  BY <1>1 DEF Meter!Settings, Meter!Same
<1>4. QED
  BY <1>1, <1>2, <1>3 DEF MeterInv, SavedAsBefore, NotHeld, Untouched, WidthBack, Meter!PutBack

\* A board that is taken for one on auto is on auto.
LEMMA ReadStep ==
  ASSUME MeterInv, Meter!Read, Meter!BitrateAssumption
  PROVE  MeterInv'
<1>1. /\ UNCHANGED <<hop, bw, before, job, failed>> /\ pc = "read"
      /\ Meter!Same(hop, before.hop) /\ Meter!Same(bw, before.bw)
  BY DEF Meter!Read, Meter!ground, MeterInv, Untouched
<1>2. ASSUME NEW mode \in BOOLEAN, NEW auto \in BOOLEAN, NEW told \in BOOLEAN,
             NEW width \in BOOLEAN, pc' = "hold",
             saved' = [hop |-> [hop EXCEPT !.auto = @ /\ mode], told |-> told,
                       bw |-> [auto |-> bw.auto /\ auto, on |-> IF width THEN bw.on ELSE Full]]
      PROVE  MeterInv'
  <2>1. /\ hop \in Meter!On(Channels) /\ bw \in Meter!On(Widths) /\ before \in Both
        /\ job \in [widths : SUBSET Widths, chan : SUBSET Channels]
    BY DEF MeterInv, MeterTypeOK
  <2>2. saved'.hop \in Meter!On(Channels) /\ saved'.hop = [hop EXCEPT !.auto = @ /\ mode]
    BY <1>2, <2>1 DEF Meter!On
  <2>3. saved' \in Answers
    <3>1. [auto |-> bw.auto /\ auto, on |-> IF width THEN bw.on ELSE Full] \in Meter!On(Widths)
      BY <2>1 DEF Meter!On, Meter!BitrateAssumption
    <3>2. QED
      BY <1>2, <2>2, <3>1 DEF Answers
  <2>4. MeterTypeOK'
    BY <1>1, <1>2, <2>1, <2>3 DEF MeterTypeOK
  <2>5. SavedAsBefore'
    BY <1>1, <2>1, <2>2 DEF SavedAsBefore, Meter!Same, Meter!On
  <2>6. NotHeld' /\ Untouched' /\ WidthBack' /\ Meter!PutBack'
    BY <1>1, <1>2 DEF NotHeld, Untouched, WidthBack, Meter!PutBack
  <2>7. QED
    BY <2>4, <2>5, <2>6 DEF MeterInv
<1>3. CASE saved' = saved /\ pc' = "idle"
  BY <1>1, <1>3
  DEF MeterInv, MeterTypeOK, SavedAsBefore, NotHeld, Untouched, WidthBack, Meter!PutBack
<1>4. QED
  BY <1>2, <1>3 DEF Meter!Read

\* A step from here to there in the middle of the run: what is not touched stays so.
LEMMA InTheMiddle ==
  ASSUME MeterInv, MeterTypeOK', NotHeld', UNCHANGED <<before, saved>>,
         pc \notin {"idle", "read", "back hop"}, pc' \notin {"read", "back hop"},
         pc' = "idle" => failed' # {}
  PROVE  MeterInv'
BY DEF MeterInv, SavedAsBefore, Untouched, WidthBack, Meter!PutBack

\* A command of the preparation that fails is remembered.
LEMMA HoldStep ==
  ASSUME MeterInv, Meter!HoldChannel
  PROVE  MeterInv'
<1>1. UNCHANGED <<bw, before, saved, job>> /\ pc = "hold"
  BY DEF Meter!HoldChannel
<1>2. hop \in Meter!On(Channels) /\ saved.hop \in Meter!On(Channels) /\ job.chan \subseteq Channels
  BY DEF MeterInv, MeterTypeOK, Answers
<1>3. CASE Meter!Holds /\ ~Meter!OnIt
  <2>1. PICK ok \in BOOLEAN : /\ Meter!Command(hop, Meter!Hold(Meter!Channel), ok)
                              /\ pc' = IF ok THEN "fix" ELSE "idle"
                              /\ failed' = Meter!After("prepare", ok)
    BY <1>3 DEF Meter!HoldChannel
  <2>2. Meter!Channel \in Channels
    BY <1>2 DEF Meter!On, Meter!Channel
  <2>3. Meter!Hold(Meter!Channel) \in Meter!On(Channels)
    BY <2>2 DEF Meter!Hold, Meter!On
  <2>4. hop' \in Meter!On(Channels)
    BY <1>2, <2>1, <2>3 DEF Meter!Command
  <2>5. pc' \in {"fix", "idle"} /\ (pc' = "idle" => failed' # {})
    BY <2>1 DEF Meter!After
  <2>6. MeterTypeOK'
    BY <1>1, <2>4, <2>5 DEF MeterInv, MeterTypeOK
  <2>7. NotHeld'
    BY <1>1, <1>3 DEF NotHeld, Meter!Holds
  <2>8. QED
    BY <1>1, <2>5, <2>6, <2>7, InTheMiddle
<1>4. CASE ~(Meter!Holds /\ ~Meter!OnIt)
  <2>1. pc' = "fix" /\ hop' = hop
    BY <1>4 DEF Meter!HoldChannel
  <2>2. MeterTypeOK' /\ NotHeld'
    BY <1>1, <2>1 DEF MeterInv, MeterTypeOK, NotHeld
  <2>3. QED
    BY <1>1, <2>1, <2>2, InTheMiddle
<1>5. QED
  BY <1>3, <1>4

LEMMA FixStep ==
  ASSUME MeterInv, Meter!FixWidth
  PROVE  MeterInv'
<1>1. UNCHANGED <<hop, before, saved, job>> /\ pc = "fix"
  BY DEF Meter!FixWidth
<1>2. NotHeld'
  BY <1>1 DEF MeterInv, NotHeld
<1>3. CASE saved.bw.auto
  <2>1. PICK ok \in BOOLEAN : /\ Meter!Command(bw, Meter!Hold(saved.bw.on), ok)
                              /\ pc' = IF ok THEN "width" ELSE "idle"
                              /\ failed' = Meter!After("prepare", ok)
    BY <1>3 DEF Meter!FixWidth
  <2>2. Meter!Hold(saved.bw.on) \in Meter!On(Widths)
    BY DEF MeterInv, MeterTypeOK, Answers, Meter!Hold, Meter!On
  <2>3. bw' \in Meter!On(Widths)
    BY <2>1, <2>2 DEF Meter!Command, MeterInv, MeterTypeOK
  <2>4. pc' \in {"width", "idle"} /\ (pc' = "idle" => failed' # {})
    BY <2>1 DEF Meter!After
  <2>5. MeterTypeOK'
    BY <1>1, <2>3, <2>4 DEF MeterInv, MeterTypeOK
  <2>6. QED
    BY <1>1, <1>2, <2>4, <2>5, InTheMiddle
<1>4. CASE ~saved.bw.auto
  <2>1. pc' = "width" /\ bw' = bw
    BY <1>4 DEF Meter!FixWidth
  <2>2. MeterTypeOK'
    BY <1>1, <2>1 DEF MeterInv, MeterTypeOK
  <2>3. QED
    BY <1>1, <1>2, <2>1, <2>2, InTheMiddle
<1>5. QED
  BY <1>3, <1>4

\* A width is asked for, or the board is on it already, or it does not tell.
LEMMA NextWidthTyped ==
  ASSUME MeterInv, NEW w \in Widths, Meter!NextWidth(w)
  PROVE  bw' \in Meter!On(Widths) /\ pc' \in {"wait", "blast", "back bw"}
<1>1. bw \in Meter!On(Widths)
  BY DEF MeterInv, MeterTypeOK
<1>2. Meter!Hold(w) \in Meter!On(Widths)
  BY DEF Meter!Hold, Meter!On
<1>3. ASSUME NEW ok \in BOOLEAN, Meter!Command(bw, Meter!Hold(w), ok)
      PROVE  bw' \in Meter!On(Widths)
  BY <1>1, <1>2, <1>3 DEF Meter!Command
<1>4. QED
  BY <1>1, <1>3 DEF Meter!NextWidth, Meter!AfterError

\* Whatever happens while it measures, the run goes on to put back.
LEMMA MeasureStep ==
  ASSUME MeterInv, Meter!SetWidth \/ Meter!WaitWidth \/ Meter!Blasts
  PROVE  MeterInv'
<1>1. UNCHANGED <<hop, before, saved, failed>> /\ pc \in {"width", "wait", "blast"}
  <2>1. CASE Meter!SetWidth
    BY <2>1 DEF Meter!SetWidth
  <2>2. CASE Meter!WaitWidth
    BY <2>2 DEF Meter!WaitWidth, Meter!ground
  <2>3. CASE Meter!Blasts
    BY <2>3 DEF Meter!Blasts, Meter!ground
  <2>4. QED
    BY <2>1, <2>2, <2>3
<1>2. job \in [widths : SUBSET Widths, chan : SUBSET Channels] /\ bw \in Meter!On(Widths)
  BY DEF MeterInv, MeterTypeOK
<1>3. /\ pc' \in {"width", "wait", "blast", "back bw"} /\ bw' \in Meter!On(Widths)
      /\ job' \in [widths : SUBSET Widths, chan : SUBSET Channels] /\ job'.chan = job.chan
  <2>1. CASE Meter!SetWidth
    <3>1. CASE job.widths = {} /\ pc' = "back bw" /\ UNCHANGED <<bw, job>>
      BY <1>2, <3>1
    <3>2. ASSUME NEW w \in job.widths, Meter!NextWidth(w),
                 job' = [job EXCEPT !.widths = @ \ {w}]
          PROVE  /\ pc' \in {"width", "wait", "blast", "back bw"} /\ bw' \in Meter!On(Widths)
                 /\ job' \in [widths : SUBSET Widths, chan : SUBSET Channels]
                 /\ job'.chan = job.chan
      <4>1. w \in Widths
        BY <1>2
      <4>2. bw' \in Meter!On(Widths) /\ pc' \in {"wait", "blast", "back bw"}
        BY <3>2, <4>1, NextWidthTyped
      <4>3. job' \in [widths : SUBSET Widths, chan : SUBSET Channels] /\ job'.chan = job.chan
        BY <1>2, <3>2
      <4>4. QED
        BY <4>2, <4>3
    <3>3. QED
      BY <2>1, <3>1, <3>2 DEF Meter!SetWidth
  <2>2. CASE Meter!WaitWidth
    BY <1>2, <2>2 DEF Meter!WaitWidth, Meter!ground, Meter!AfterError
  <2>3. CASE Meter!Blasts
    BY <1>2, <2>3 DEF Meter!Blasts, Meter!ground, Meter!AfterError
  <2>4. QED
    BY <2>1, <2>2, <2>3
<1>4. MeterTypeOK'
  BY <1>1, <1>3 DEF MeterInv, MeterTypeOK
<1>5. NotHeld'
  BY <1>1, <1>3 DEF MeterInv, NotHeld
<1>6. QED
  BY <1>1, <1>3, <1>4, <1>5, InTheMiddle

LEMMA BackWidthStep ==
  ASSUME MeterInv, Meter!BackWidth
  PROVE  MeterInv'
<1> DEFINE r == IF saved.bw.auto THEN [bw EXCEPT !.auto = TRUE] ELSE Meter!Hold(saved.bw.on)
<1>1. UNCHANGED <<hop, before, saved, job>> /\ pc = "back bw" /\ pc' = "back hop"
  BY DEF Meter!BackWidth
<1>2. PICK ok \in BOOLEAN : Meter!Command(bw, r, ok) /\ failed' = Meter!After("restore", ok)
  BY DEF Meter!BackWidth
<1>3. bw \in Meter!On(Widths) /\ saved.bw \in Meter!On(Widths)
  BY DEF MeterInv, MeterTypeOK, Answers
<1>4. r \in Meter!On(Widths) /\ Meter!Same(r, saved.bw)
  BY <1>3, Restored
<1> HIDE DEF r
<1>5. bw' \in Meter!On(Widths) /\ (ok => bw' = r)
  BY <1>2, <1>3, <1>4 DEF Meter!Command
<1>6. ok \/ failed' # {}
  BY <1>2 DEF Meter!After
<1>7. ok /\ Meter!KnewWidth => Meter!Same(bw', before.bw)
  BY <1>4, <1>5, SameTransitive DEF Meter!KnewWidth
<1>8. MeterTypeOK'
  BY <1>1, <1>5 DEF MeterInv, MeterTypeOK
<1>9. WidthBack'
  BY <1>1, <1>6, <1>7 DEF WidthBack, Meter!KnewWidth
<1>10. SavedAsBefore' /\ NotHeld' /\ Untouched' /\ Meter!PutBack'
  BY <1>1 DEF MeterInv, SavedAsBefore, NotHeld, Untouched, Meter!PutBack
<1>11. QED
  BY <1>8, <1>9, <1>10 DEF MeterInv

LEMMA BackChannelStep ==
  ASSUME MeterInv, Meter!BackChannel
  PROVE  MeterInv'
<1> DEFINE r == IF saved.hop.auto THEN [hop EXCEPT !.auto = TRUE] ELSE Meter!Hold(saved.hop.on)
<1>1. UNCHANGED <<bw, before, saved, job>> /\ pc = "back hop" /\ pc' = "idle"
  BY DEF Meter!BackChannel
<1>2. hop \in Meter!On(Channels) /\ saved.hop \in Meter!On(Channels) /\ before.hop \in Meter!On(Channels)
  BY DEF MeterInv, MeterTypeOK, Answers, Both
<1>3. /\ saved.hop.auto = before.hop.auto => Meter!Same(saved.hop, before.hop)
      /\ failed = {} /\ Meter!KnewWidth => Meter!Same(bw, before.bw)
  BY <1>1 DEF MeterInv, SavedAsBefore, WidthBack
<1>4. /\ hop' \in Meter!On(Channels) /\ (failed' = {} => failed = {})
      /\ failed' = {} /\ Meter!KnewChannel => Meter!Same(hop', before.hop)
  <2>1. CASE saved.hop.auto \/ saved.told
    <3>1. PICK ok \in BOOLEAN : Meter!Command(hop, r, ok) /\ failed' = Meter!After("restore", ok)
      BY <2>1 DEF Meter!BackChannel
    <3>2. r \in Meter!On(Channels) /\ Meter!Same(r, saved.hop)
      BY <1>2, Restored
    <3> HIDE DEF r
    <3>3. hop' \in Meter!On(Channels) /\ (ok => hop' = r)
      BY <1>2, <3>1, <3>2 DEF Meter!Command
    <3>4. (ok \/ failed' # {}) /\ (failed' = {} => failed = {})
      BY <3>1 DEF Meter!After
    <3>5. ok /\ Meter!KnewChannel => Meter!Same(hop', before.hop)
      BY <1>3, <3>2, <3>3, SameTransitive DEF Meter!KnewChannel
    <3>6. QED
      BY <3>3, <3>4, <3>5
  <2>2. CASE ~(saved.hop.auto \/ saved.told)
    <3>1. hop' = hop /\ failed' = failed
      BY <2>2 DEF Meter!BackChannel
    <3>2. Meter!KnewChannel => Meter!Same(hop, before.hop)
      BY <1>1, <2>2 DEF Meter!KnewChannel, MeterInv, NotHeld
    <3>3. QED
      BY <1>2, <3>1, <3>2
  <2>3. QED
    BY <2>1, <2>2
<1>5. MeterTypeOK'
  BY <1>1, <1>4 DEF MeterInv, MeterTypeOK
<1>6. Meter!PutBack'
  BY <1>1, <1>3, <1>4 DEF Meter!PutBack, Meter!KnewChannel, Meter!KnewWidth
<1>7. QED
  BY <1>1, <1>5, <1>6 DEF MeterInv, SavedAsBefore, NotHeld, Untouched, WidthBack

-----------------------------------------------------------------------------
(* The operator, the aircraft, the board.                                  *)

LEMMA MovesStep ==
  ASSUME MeterInv, Meter!Moves
  PROVE  MeterInv'
<1>1. UNCHANGED <<before, saved, job, pc, failed>>
  BY DEF Meter!Moves
<1>2. /\ hop' \in Meter!On(Channels) /\ \A t : Meter!Same(hop, t) => Meter!Same(hop', t)
      /\ bw' \in Meter!On(Widths) /\ \A t : Meter!Same(bw, t) => Meter!Same(bw', t)
  <2>1. hop \in Meter!On(Channels) /\ bw \in Meter!On(Widths)
    BY DEF MeterInv, MeterTypeOK
  <2>2. ASSUME hop.auto, NEW c \in Channels, hop' = [hop EXCEPT !.on = c]
        PROVE  hop' \in Meter!On(Channels) /\ \A t : Meter!Same(hop, t) => Meter!Same(hop', t)
    BY <2>1, <2>2, Moved
  <2>3. ASSUME bw.auto, NEW w \in Widths, bw' = [bw EXCEPT !.on = w]
        PROVE  bw' \in Meter!On(Widths) /\ \A t : Meter!Same(bw, t) => Meter!Same(bw', t)
    BY <2>1, <2>3, Moved
  <2>4. QED
    BY <2>1, <2>2, <2>3 DEF Meter!Moves
<1>3. MeterTypeOK'
  BY <1>1, <1>2 DEF MeterInv, MeterTypeOK
<1>4. QED
  BY <1>1, <1>2, <1>3
  DEF MeterInv, SavedAsBefore, NotHeld, Untouched, WidthBack, Meter!PutBack, Meter!KnewChannel,
      Meter!KnewWidth

LEMMA RestStep ==
  ASSUME MeterInv, Meter!Stop \/ Meter!Follows \/ UNCHANGED Meter!vars
  PROVE  MeterInv'
<1>1. UNCHANGED <<hop, bw, before, saved, job, pc, failed>>
  BY DEF Meter!Stop, Meter!Follows, Meter!vars, Meter!ground
<1>2. QED
  BY <1>1
  DEF MeterInv, MeterTypeOK, SavedAsBefore, NotHeld, Untouched, WidthBack, Meter!PutBack,
      Meter!KnewChannel, Meter!KnewWidth

LEMMA MeterNextStep ==
  Meter!BitrateAssumption /\ MeterInv /\ [Meter!Next]_(Meter!vars) => MeterInv'
<1> SUFFICES ASSUME Meter!BitrateAssumption, MeterInv, [Meter!Next]_(Meter!vars) PROVE MeterInv'
  OBVIOUS
<1>1. CASE Meter!Run
  BY <1>1, ReadStep, HoldStep, FixStep, MeasureStep, BackWidthStep, BackChannelStep DEF Meter!Run
<1>2. CASE Meter!Stop \/ Meter!Follows \/ Meter!Moves \/ UNCHANGED Meter!vars
  BY <1>2, MovesStep, RestStep
<1>3. CASE \E ws \in SUBSET Widths \ {{}},
        c \in {{}} \cup {{d} : d \in Channels} : Meter!Start(ws, c)
  BY <1>3, StartStep
<1>4. QED
  BY <1>1, <1>2, <1>3 DEF Meter!Next

-----------------------------------------------------------------------------
(* The settings and their file.                                            *)

\* A set of numbers has a smallest one.
LEMMA Smallest ==
  ASSUME NEW S \in SUBSET Nat, S # {}
  PROVE  \E x \in S : \A y \in S : x <= y
<1>1. PICK x \in S : \A y \in S : <<y, x>> \notin OpToRel(<, Nat)
  BY WFMin, NatLessThanWellFounded
<1>2. ASSUME NEW y \in S PROVE x <= y
  <2>1. ~(y < x) BY <1>1 DEF OpToRel
  <2>2. x \in Nat /\ y \in Nat OBVIOUS
  <2>3. QED BY <2>1, <2>2
<1>3. QED BY <1>2

\* The texts of the model, what each key may have of them, and the settings and lines there are.
Texts == {"", "auto", "word", "word#tail", "word tail", "default", "other", "least", "greatest",
          "below", "above", "junk", "pattern", "webcam", "rtsp", "data", "file", "h264", "mjpeg",
          "ipcam", "video", "jpeg"}
Allowed(k, v) ==
  /\ k \in Keep!Switches => v \in {"default", "other"}
  /\ k \in Keep!Clamped \cup Keep!Ranged => v \in {"least", "default", "greatest"}
  /\ k = "source" => v \in {"pattern", "webcam", "rtsp", "data", "file"}
  /\ k = "codec" => v \in {"h264", "mjpeg"}
  /\ k = "onvif" => v # "auto"
Configs == {c \in [Keep!Keys -> Texts] : \A k \in Keep!Keys : Allowed(k, c[k])}
Lines == [key : Keep!Keys, val : Texts]

\* All keys, by kind.
LEMMA KeysAre ==
  /\ Keep!Keys =
       Keep!Switches \cup Keep!Clamped \cup Keep!Ranged \cup Keep!Words \cup {"source", "codec"}
  /\ DOMAIN Keep!Choice = {"source", "codec"}
<1>1. DOMAIN Keep!Choice = {"source", "codec"} BY DEF Keep!Choice
<1>2. QED BY <1>1 DEF Keep!Keys

\* A key is of one kind.
LEMMA KindsApart ==
  /\ \A k \in Keep!Switches :
       k \notin Keep!Clamped \cup Keep!Ranged \cup Keep!Words \cup {"source", "codec"}
  /\ \A k \in Keep!Clamped : k \notin Keep!Ranged \cup Keep!Words \cup {"source", "codec"}
  /\ \A k \in Keep!Ranged : k \notin Keep!Words \cup {"source", "codec"}
  /\ \A k \in Keep!Words : k \notin {"source", "codec"}
BY DEF Keep!Switches, Keep!Clamped, Keep!Ranged, Keep!Words

\* What a key takes, kind by kind.
LEMMA TakenByKind ==
  ASSUME NEW k, NEW v
  PROVE  /\ k \in Keep!Switches => Keep!Taken(k, v) = {v} \cap {"default", "other"}
         /\ k \in Keep!Clamped =>
              Keep!Taken(k, v) = IF v = "below" THEN {"least"} ELSE IF v = "above" THEN {"greatest"}
                                 ELSE {v} \cap {"least", "default", "greatest"}
         /\ k \in Keep!Ranged => Keep!Taken(k, v) = {v} \cap {"least", "default", "greatest"}
         /\ k \in {"source", "codec"} => Keep!Taken(k, v) = {Keep!Named(v)} \cap Keep!Choice[k]
         /\ k = "onvif" => Keep!Taken(k, v) = IF v = "auto" THEN {""} ELSE {v}
         /\ k \in {"rtsp", "file"} => Keep!Taken(k, v) = {v}
<1>1. ASSUME k \in Keep!Switches
      PROVE  Keep!Taken(k, v) = {v} \cap {"default", "other"}
  <2>1. /\ k \notin Keep!Clamped /\ k \notin Keep!Ranged /\ k \notin DOMAIN Keep!Choice
        /\ k # "onvif" /\ k \notin {"rtsp", "file"}
    BY <1>1, KindsApart, KeysAre DEF Keep!Words
  <2>2. QED BY <1>1, <2>1 DEF Keep!Taken
<1>2. ASSUME k \in Keep!Clamped
      PROVE  Keep!Taken(k, v) = IF v = "below" THEN {"least"} ELSE IF v = "above" THEN {"greatest"}
                                ELSE {v} \cap {"least", "default", "greatest"}
  <2>1. /\ k \notin Keep!Switches /\ k \notin Keep!Ranged /\ k \notin DOMAIN Keep!Choice
        /\ k # "onvif" /\ k \notin {"rtsp", "file"}
    BY <1>2, KindsApart, KeysAre DEF Keep!Words
  <2>2. QED BY <1>2, <2>1 DEF Keep!Taken
<1>3. ASSUME k \in Keep!Ranged
      PROVE  Keep!Taken(k, v) = {v} \cap {"least", "default", "greatest"}
  <2>1. /\ k \notin Keep!Switches /\ k \notin Keep!Clamped /\ k \notin DOMAIN Keep!Choice
        /\ k # "onvif" /\ k \notin {"rtsp", "file"}
    BY <1>3, KindsApart, KeysAre DEF Keep!Words
  <2>2. QED BY <1>3, <2>1 DEF Keep!Taken
<1>4. ASSUME k \in {"source", "codec"}
      PROVE  Keep!Taken(k, v) = {Keep!Named(v)} \cap Keep!Choice[k]
  <2>1. /\ k \notin Keep!Switches /\ k \notin Keep!Clamped /\ k \notin Keep!Ranged
        /\ k # "onvif" /\ k \notin {"rtsp", "file"} /\ k \in DOMAIN Keep!Choice
    BY <1>4, KindsApart, KeysAre DEF Keep!Words
  <2>2. QED BY <1>4, <2>1 DEF Keep!Taken
<1>5. ASSUME k \in {"onvif", "rtsp", "file"}
      PROVE  /\ k = "onvif" => Keep!Taken(k, v) = IF v = "auto" THEN {""} ELSE {v}
             /\ k \in {"rtsp", "file"} => Keep!Taken(k, v) = {v}
  <2>1. /\ k \notin Keep!Switches /\ k \notin Keep!Clamped /\ k \notin Keep!Ranged
        /\ k \notin DOMAIN Keep!Choice
    BY <1>5, KindsApart, KeysAre DEF Keep!Words
  <2>2. QED BY <1>5, <2>1 DEF Keep!Taken
<1>6. QED BY <1>1, <1>2, <1>3, <1>4, <1>5

\* What a key takes of a text.
LEMMA TakenAllowed ==
  ASSUME NEW k \in Keep!Keys, NEW v \in Texts, NEW w \in Keep!Taken(k, v)
  PROVE  w \in Texts /\ Allowed(k, w)
<1>1. CASE k \in Keep!Switches
  <2>0. Keep!Taken(k, v) = {v} \cap {"default", "other"} BY <1>1, TakenByKind
  <2>1. w \in {"default", "other"} BY <2>0
  <2>2. QED BY <1>1, <2>1, KindsApart DEF Allowed, Texts, Keep!Words
<1>2. CASE k \in Keep!Clamped
  <2>0. Keep!Taken(k, v) = IF v = "below" THEN {"least"} ELSE IF v = "above" THEN {"greatest"}
                           ELSE {v} \cap {"least", "default", "greatest"}
    BY <1>2, TakenByKind
  <2>1. w \in {"least", "default", "greatest"} BY <2>0
  <2>2. QED BY <1>2, <2>1, KindsApart DEF Allowed, Texts, Keep!Words
<1>3. CASE k \in Keep!Ranged
  <2>0. Keep!Taken(k, v) = {v} \cap {"least", "default", "greatest"} BY <1>3, TakenByKind
  <2>1. w \in {"least", "default", "greatest"} BY <2>0
  <2>2. QED BY <1>3, <2>1, KindsApart DEF Allowed, Texts, Keep!Words
<1>4. CASE k \in {"source", "codec"}
  <2>0. Keep!Taken(k, v) = {Keep!Named(v)} \cap Keep!Choice[k] BY <1>4, TakenByKind
  <2>1. w \in Keep!Choice[k] BY <2>0
  <2>2. CASE k = "source"
    <3>1. w \in {"pattern", "webcam", "rtsp", "data", "file"} BY <2>1, <2>2 DEF Keep!Choice
    <3>2. QED BY <1>4, <2>2, <3>1, KindsApart DEF Allowed, Texts, Keep!Words
  <2>3. CASE k = "codec"
    <3>1. w \in {"h264", "mjpeg"} BY <2>1, <2>3 DEF Keep!Choice
    <3>2. QED BY <1>4, <2>3, <3>1, KindsApart DEF Allowed, Texts, Keep!Words
  <2>4. QED BY <1>4, <2>2, <2>3
<1>5. CASE k = "onvif"
  <2>0. Keep!Taken(k, v) = IF v = "auto" THEN {""} ELSE {v} BY <1>5, TakenByKind
  <2>1. w # "auto" /\ (w = v \/ w = "") BY <2>0
  <2>2. QED BY <1>5, <2>1, KindsApart DEF Allowed, Texts, Keep!Words
<1>6. CASE k \in {"rtsp", "file"}
  <2>0. Keep!Taken(k, v) = {v} BY <1>6, TakenByKind
  <2>1. w = v BY <2>0
  <2>2. QED BY <1>6, <2>1, KindsApart DEF Allowed, Texts, Keep!Words
<1>7. QED BY <1>1, <1>2, <1>3, <1>4, <1>5, <1>6, KeysAre DEF Keep!Words

\* The defaults are settings.
LEMMA DefaultAllowed == Keep!Default \in Configs
<1>1. ASSUME NEW k \in Keep!Keys PROVE Keep!Default[k] \in Texts /\ Allowed(k, Keep!Default[k])
  BY KindsApart, KeysAre DEF Keep!Default, Texts, Allowed, Keep!Words
<1>2. QED BY <1>1 DEF Configs, Keep!Default

\* The settings stay what they may be.
LEMMA SetAllowed ==
  ASSUME NEW c \in Configs, NEW k \in Keep!Keys, NEW v \in Texts
  PROVE  Keep!apply_set(c, k, v) \in Configs
<1>1. CASE Keep!Taken(k, v) # {}
  <2> DEFINE w == CHOOSE w \in Keep!Taken(k, v) : TRUE
  <2>1. w \in Keep!Taken(k, v) BY <1>1
  <2>2. w \in Texts /\ Allowed(k, w) BY <2>1, TakenAllowed
  <2>3. Keep!apply_set(c, k, v) = [c EXCEPT ![k] = w] BY <1>1 DEF Keep!apply_set
  <2> HIDE DEF w
  <2>4. QED BY <2>2, <2>3 DEF Configs
<1>2. CASE Keep!Taken(k, v) = {} BY <1>2 DEF Keep!apply_set
<1>3. QED BY <1>1, <1>2

\* What is read of a text is one.
LEMMA WordTyped == \A v \in Texts : Keep!WordOf(v) \in Texts
BY DEF Keep!WordOf, Texts

\* A line leaves settings.
LEMMA AppliedAllowed ==
  ASSUME NEW c \in Configs, NEW l \in Lines
  PROVE  Keep!Applied(c, l) \in Configs
BY SetAllowed, WordTyped DEF Keep!Applied, Lines

\* What the settings are after each line of a file.
Loads(ls, f) ==
  f = [n \in 0 .. Len(ls) |-> IF n = 0 THEN Keep!Default ELSE Keep!Applied(f[n - 1], ls[n])]

\* The recursion of load_config_file defines a function ...
LEMMA LoadsExist ==
  ASSUME NEW ls \in Seq(Lines)
  PROVE  \E f : Loads(ls, f)
<1> DEFINE Good(m, f) == /\ f \in [0 .. m -> Configs] /\ f[0] = Keep!Default
                         /\ \A n \in 1 .. m : f[n] = Keep!Applied(f[n - 1], ls[n])
           Bad == {m \in 0 .. Len(ls) : ~\E f \in [0 .. m -> Configs] : Good(m, f)}
<1>0. Len(ls) \in Nat OBVIOUS
<1>1. Bad = {}
  <2> SUFFICES ASSUME Bad # {} PROVE FALSE OBVIOUS
  <2>1. Bad \in SUBSET Nat BY <1>0
  <2>2. PICK m \in Bad : \A y \in Bad : m <= y BY <2>1, Smallest
  <2>3. m \in Nat /\ m <= Len(ls) BY <1>0
  <2>4. CASE m = 0
    <3> DEFINE g == [n \in 0 .. 0 |-> Keep!Default]
    <3>1. g \in [0 .. 0 -> Configs] /\ g[0] = Keep!Default BY DefaultAllowed
    <3>2. Good(0, g) BY <3>1
    <3>3. QED BY <2>4, <3>1, <3>2
  <2>5. CASE m # 0
    <3>1. m - 1 \in 0 .. Len(ls) /\ ~(m <= m - 1) /\ m \in 1 .. Len(ls) BY <1>0, <2>3, <2>5
    <3>2. m - 1 \notin Bad BY <2>2, <3>1
    <3>3. PICK f \in [0 .. m - 1 -> Configs] : Good(m - 1, f) BY <3>1, <3>2
    <3>4. ls[m] \in Lines BY <3>1
    <3>5. f[m - 1] \in Configs BY <3>1, <3>3, <2>3
    <3>6. Keep!Applied(f[m - 1], ls[m]) \in Configs BY <3>4, <3>5, AppliedAllowed
    <3> DEFINE g == [n \in 0 .. m |-> IF n = m THEN Keep!Applied(f[m - 1], ls[m]) ELSE f[n]]
    <3>7. g \in [0 .. m -> Configs]
      <4>1. ASSUME NEW n \in 0 .. m, n # m PROVE f[n] \in Configs
        <5>1. n \in 0 .. m - 1 BY <4>1, <2>3
        <5>2. QED BY <5>1
      <4>2. QED BY <4>1, <3>6
    <3>8. g[0] = Keep!Default
      <4>1. 0 \in 0 .. m BY <2>3
      <4>2. QED BY <4>1, <2>5, <3>3
    <3>9. ASSUME NEW n \in 1 .. m PROVE g[n] = Keep!Applied(g[n - 1], ls[n])
      <4>1. n \in 0 .. m /\ n - 1 \in 0 .. m /\ n - 1 # m BY <2>3
      <4>2. g[n - 1] = f[n - 1] BY <4>1
      <4>3. CASE n = m BY <4>1, <4>2, <4>3
      <4>4. CASE n # m
        <5>1. n \in 1 .. m - 1 BY <4>4, <2>3
        <5>2. f[n] = Keep!Applied(f[n - 1], ls[n]) BY <5>1, <3>3
        <5>3. g[n] = f[n] BY <4>1, <4>4
        <5>4. QED BY <4>2, <5>2, <5>3
      <4>5. QED BY <4>3, <4>4
    <3>10. Good(m, g) BY <3>7, <3>8, <3>9
    <3> HIDE DEF g
    <3>11. QED BY <3>7, <3>10
  <2>6. QED BY <2>4, <2>5
<1>2. Len(ls) \in 0 .. Len(ls) BY <1>0
<1>3. PICK f \in [0 .. Len(ls) -> Configs] : Good(Len(ls), f) BY <1>1, <1>2
<1> DEFINE h == [n \in 0 .. Len(ls) |->
                   IF n = 0 THEN Keep!Default ELSE Keep!Applied(f[n - 1], ls[n])]
<1>4. ASSUME NEW n \in 0 .. Len(ls) PROVE h[n] = f[n]
  <2>1. CASE n = 0 BY <2>1, <1>3
  <2>2. CASE n # 0
    <3>1. n \in 1 .. Len(ls) BY <2>2, <1>0
    <3>2. QED BY <2>2, <3>1, <1>3
  <2>3. QED BY <2>1, <2>2
<1>5. f = h BY <1>4
<1>6. QED BY <1>5 DEF Loads

\* ... and what is read of a file is its last value.
LEMMA LoadedIs ==
  ASSUME NEW ls \in Seq(Lines)
  PROVE  \E f \in [0 .. Len(ls) -> Configs] :
           /\ f[0] = Keep!Default /\ Keep!load_config_file(ls) = f[Len(ls)]
           /\ \A n \in 1 .. Len(ls) : f[n] = Keep!Applied(f[n - 1], ls[n])
<1> DEFINE f == CHOOSE g : Loads(ls, g)
<1>0. Len(ls) \in Nat OBVIOUS
<1>1. Loads(ls, f) BY LoadsExist
<1>2. Keep!load_config_file(ls) = f[Len(ls)] BY DEF Keep!load_config_file, Loads
<1> HIDE DEF f
<1>3. f = [n \in 0 .. Len(ls) |-> IF n = 0 THEN Keep!Default ELSE Keep!Applied(f[n - 1], ls[n])]
  BY <1>1 DEF Loads
<1>4. DOMAIN f = 0 .. Len(ls) /\ f[0] = Keep!Default BY <1>0, <1>3
<1>5. ASSUME NEW n \in 1 .. Len(ls) PROVE f[n] = Keep!Applied(f[n - 1], ls[n])
  <2>1. n \in 0 .. Len(ls) /\ n # 0 BY <1>0
  <2>2. QED BY <1>3, <2>1
<1> DEFINE Bad == {n \in 0 .. Len(ls) : f[n] \notin Configs}
<1>6. Bad = {}
  <2> SUFFICES ASSUME Bad # {} PROVE FALSE OBVIOUS
  <2>1. Bad \in SUBSET Nat BY <1>0
  <2>2. PICK m \in Bad : \A y \in Bad : m <= y BY <2>1, Smallest
  <2>3. m \in Nat /\ m <= Len(ls) /\ m # 0 BY <1>0, <1>4, DefaultAllowed
  <2>4. m \in 1 .. Len(ls) /\ m - 1 \in 0 .. Len(ls) /\ ~(m <= m - 1) BY <1>0, <2>3
  <2>5. f[m - 1] \in Configs /\ ls[m] \in Lines BY <2>2, <2>4
  <2>6. QED BY <1>5, <2>2, <2>4, <2>5, AppliedAllowed
<1>7. f \in [0 .. Len(ls) -> Configs]
  <2>1. \A n \in 0 .. Len(ls) : f[n] \in Configs BY <1>6
  <2>2. QED BY <1>3, <1>4, <2>1
<1>8. QED BY <1>2, <1>4, <1>5, <1>7

\* What is read of any file are settings.
LEMMA LoadedAllowed ==
  ASSUME NEW ls \in Seq(Lines)
  PROVE  Keep!load_config_file(ls) \in Configs
<1>1. Len(ls) \in 0 .. Len(ls) OBVIOUS
<1>2. QED BY <1>1, LoadedIs

\* An empty file leaves the defaults.
LEMMA LoadedEmpty == Keep!load_config_file(<<>>) = Keep!Default
<1>1. <<>> \in Seq(Lines) /\ Len(<<>>) = 0 BY EmptySeq
<1>2. QED BY <1>1, LoadedIs

-----------------------------------------------------------------------------
(* What a save writes is read back.                                        *)

\* The keys without a line.
Unwritten == {"ltr", "rep2", "chanrate", "rep2interf", "fecsmall", "pause"}

\* The keys that may have a line are keys, and none of those.
LEMMA WrittenAre == Keep!Written \subseteq Keep!Keys \ Unwritten
<1>1. Keep!Others \in Seq(Keep!Keys \ Unwritten)
  BY DEF Keep!Others, Keep!Keys, Keep!Switches, Keep!Clamped, Keep!Ranged, Keep!Words, Keep!Choice,
         Unwritten
<1>2. \A i \in DOMAIN Keep!Others : Keep!Others[i] \in Keep!Keys \ Unwritten
  BY <1>1
<1>3. {"source", "rtsp", "file"} \subseteq Keep!Keys \ Unwritten
  BY DEF Keep!Keys, Keep!Words, Keep!Choice, Unwritten
<1>4. QED
  BY <1>2, <1>3 DEF Keep!Written

\* A line of a key is read as what was written, unless its text is one a line does not carry.
LEMMA LineRead ==
  ASSUME NEW c \in Configs, NEW k \in Keep!Written \ Keep!Broken(c), k \in {"rtsp", "file"} => c[k] # ""
  PROVE  /\ Keep!WordOf(Keep!LineOf(c, k).val) # ""
         /\ Keep!Taken(k, Keep!WordOf(Keep!LineOf(c, k).val)) = {c[k]}
<1> DEFINE v == Keep!LineOf(c, k).val
<1>1. k \in Keep!Keys /\ c[k] \in Texts /\ Allowed(k, c[k]) BY WrittenAre DEF Configs
<1>2. k \in Keep!Words => c[k] # "word#tail" /\ c[k] # "word tail" BY DEF Keep!Broken
<1>3. v = IF k = "onvif" /\ c[k] = "" THEN "auto" ELSE c[k] BY DEF Keep!LineOf
<1> HIDE DEF v
<1>4. CASE k \in Keep!Switches
  <2>1. c[k] \in {"default", "other"} /\ k # "onvif"
    BY <1>1, <1>4, KindsApart DEF Allowed, Keep!Words
  <2>2. v = c[k] BY <1>3, <2>1
  <2>3. Keep!WordOf(v) = c[k] BY <2>1, <2>2 DEF Keep!WordOf
  <2>4. Keep!Taken(k, c[k]) = {c[k]} \cap {"default", "other"} BY <1>4, TakenByKind
  <2>5. Keep!Taken(k, c[k]) = {c[k]} BY <2>1, <2>4
  <2>6. QED BY <2>1, <2>3, <2>5 DEF v
<1>5. CASE k \in Keep!Clamped
  <2>1. c[k] \in {"least", "default", "greatest"} /\ k # "onvif"
    BY <1>1, <1>5, KindsApart DEF Allowed, Keep!Words
  <2>2. v = c[k] BY <1>3, <2>1
  <2>3. Keep!WordOf(v) = c[k] BY <2>1, <2>2 DEF Keep!WordOf
  <2>4. Keep!Taken(k, c[k]) =
          IF c[k] = "below" THEN {"least"} ELSE IF c[k] = "above" THEN {"greatest"}
          ELSE {c[k]} \cap {"least", "default", "greatest"}
    BY <1>5, TakenByKind
  <2>5. Keep!Taken(k, c[k]) = {c[k]} BY <2>1, <2>4
  <2>6. QED BY <2>1, <2>3, <2>5 DEF v
<1>6. CASE k \in Keep!Ranged
  <2>1. c[k] \in {"least", "default", "greatest"} /\ k # "onvif"
    BY <1>1, <1>6, KindsApart DEF Allowed, Keep!Words
  <2>2. v = c[k] BY <1>3, <2>1
  <2>3. Keep!WordOf(v) = c[k] BY <2>1, <2>2 DEF Keep!WordOf
  <2>4. Keep!Taken(k, c[k]) = {c[k]} \cap {"least", "default", "greatest"}
    BY <1>6, TakenByKind
  <2>5. Keep!Taken(k, c[k]) = {c[k]} BY <2>1, <2>4
  <2>6. QED BY <2>1, <2>3, <2>5 DEF v
<1>7. CASE k \in {"source", "codec"}
  <2>1. k # "onvif" /\ v = c[k] BY <1>3, <1>7
  <2>2. Keep!Taken(k, c[k]) = {Keep!Named(c[k])} \cap Keep!Choice[k] BY <1>7, TakenByKind
  <2>3. CASE k = "source"
    <3>1. c[k] \in {"pattern", "webcam", "rtsp", "data", "file"} BY <1>1, <2>3 DEF Allowed
    <3>2. Keep!Choice[k] = {"pattern", "webcam", "rtsp", "data", "file"} BY <2>3 DEF Keep!Choice
    <3>3. Keep!Named(c[k]) = c[k] /\ Keep!WordOf(c[k]) = c[k] /\ c[k] # ""
      BY <3>1 DEF Keep!Named, Keep!WordOf
    <3>4. Keep!Taken(k, c[k]) = {c[k]} BY <2>2, <3>1, <3>2, <3>3
    <3>5. QED BY <2>1, <3>3, <3>4 DEF v
  <2>4. CASE k = "codec"
    <3>1. c[k] \in {"h264", "mjpeg"} BY <1>1, <2>4 DEF Allowed
    <3>2. Keep!Choice[k] = {"h264", "mjpeg"} BY <2>4 DEF Keep!Choice
    <3>3. Keep!Named(c[k]) = c[k] /\ Keep!WordOf(c[k]) = c[k] /\ c[k] # ""
      BY <3>1 DEF Keep!Named, Keep!WordOf
    <3>4. Keep!Taken(k, c[k]) = {c[k]} BY <2>2, <3>1, <3>2, <3>3
    <3>5. QED BY <2>1, <3>3, <3>4 DEF v
  <2>5. QED BY <1>7, <2>3, <2>4
<1>8. CASE k = "onvif"
  <2>1. c[k] # "auto" /\ c[k] # "word#tail" /\ c[k] # "word tail"
    BY <1>1, <1>2, <1>8 DEF Allowed, Keep!Words
  <2>2. Keep!Taken(k, Keep!WordOf(v)) = IF Keep!WordOf(v) = "auto" THEN {""} ELSE {Keep!WordOf(v)}
    BY <1>8, TakenByKind
  <2>3. CASE c[k] = ""
    <3>1. Keep!WordOf(v) = "auto" BY <1>3, <1>8, <2>3 DEF Keep!WordOf
    <3>2. QED BY <2>2, <2>3, <3>1 DEF v
  <2>4. CASE c[k] # ""
    <3>1. Keep!WordOf(v) = c[k] BY <1>3, <2>1, <2>4 DEF Keep!WordOf
    <3>2. QED BY <2>1, <2>2, <2>4, <3>1 DEF v
  <2>5. QED BY <2>3, <2>4
<1>9. CASE k \in {"rtsp", "file"}
  <2>1. v = c[k] /\ c[k] # "" /\ c[k] # "word#tail" /\ c[k] # "word tail"
    BY <1>2, <1>3, <1>9 DEF Keep!Words
  <2>2. Keep!WordOf(v) = c[k] BY <2>1 DEF Keep!WordOf
  <2>3. Keep!Taken(k, c[k]) = {c[k]} BY <1>9, TakenByKind
  <2>4. QED BY <2>1, <2>2, <2>3 DEF v
<1>10. QED BY <1>1, <1>4, <1>5, <1>6, <1>7, <1>8, <1>9, KeysAre DEF Keep!Words

\* What stands in a sequence.
In(x, s) == \E i \in 1 .. Len(s) : s[i] = x

\* What stands in a sequence stands in a longer one.
LEMMA InConcat ==
  ASSUME NEW S, NEW s \in Seq(S), NEW u \in Seq(S), NEW x, In(x, s) \/ In(x, u)
  PROVE  In(x, s \o u) /\ s \o u \in Seq(S)
<1>1. /\ s \o u \in Seq(S) /\ Len(s \o u) = Len(s) + Len(u) /\ Len(s) \in Nat /\ Len(u) \in Nat
      /\ \A i \in 1 .. Len(s) + Len(u) : (s \o u)[i] = IF i <= Len(s) THEN s[i] ELSE u[i - Len(s)]
  BY ConcatProperties
<1>2. CASE In(x, s)
  <2>1. PICK i \in 1 .. Len(s) : s[i] = x BY <1>2 DEF In
  <2>2. i \in 1 .. Len(s) + Len(u) /\ i <= Len(s) BY <1>1
  <2>3. (s \o u)[i] = x BY <1>1, <2>1, <2>2
  <2>4. QED BY <1>1, <2>2, <2>3 DEF In
<1>3. CASE In(x, u)
  <2>1. PICK i \in 1 .. Len(u) : u[i] = x BY <1>3 DEF In
  <2>2. /\ i + Len(s) \in 1 .. Len(s) + Len(u) /\ ~(i + Len(s) <= Len(s))
        /\ (i + Len(s)) - Len(s) = i
    BY <1>1
  <2>3. (s \o u)[i + Len(s)] = x BY <1>1, <2>1, <2>2
  <2>4. QED BY <1>1, <2>2, <2>3 DEF In
<1>4. QED BY <1>1, <1>2, <1>3

\* The keys that always have a line.
LEMMA OthersAre ==
  /\ Keep!Others \in Seq(Keep!Keys \ {"rtsp", "file"})
  /\ \A k \in Keep!Keys \ (Unwritten \cup {"source", "rtsp", "file"}) : In(k, Keep!Others)
<1>3. Keep!Others \in Seq(Keep!Keys \ {"rtsp", "file"})
  BY DEF Keep!Others, Keep!Keys, Keep!Switches, Keep!Clamped, Keep!Ranged, Keep!Words, Keep!Choice
<1>4. ASSUME NEW k \in Keep!Switches \ Unwritten PROVE In(k, Keep!Others)
  BY DEF Keep!Others, Keep!Switches, Unwritten, In
<1>5. ASSUME NEW k \in Keep!Clamped PROVE In(k, Keep!Others)
  BY DEF Keep!Others, Keep!Clamped, In
<1>6. ASSUME NEW k \in Keep!Ranged PROVE In(k, Keep!Others)
  BY DEF Keep!Others, Keep!Ranged, In
<1>7. In("codec", Keep!Others) /\ In("onvif", Keep!Others)
  BY DEF Keep!Others, In
<1>8. QED BY <1>3, <1>4, <1>5, <1>6, <1>7, KeysAre DEF Keep!Words

\* The lines of a file: of the keys that have one, and of no others.
Held(c) == {Keep!LineOf(c, k) : k \in {j \in Keep!Keys : j \in {"rtsp", "file"} => c[j] # ""}}

\* They are those lines.
LEMMA LinesAre ==
  ASSUME NEW c \in Configs
  PROVE  /\ Keep!config_lines(c) \in Seq(Held(c)) /\ Keep!config_lines(c) \in Seq(Lines)
         /\ \A k \in Keep!Keys \ Unwritten :
              (k \in {"rtsp", "file"} => c[k] # "") => In(Keep!LineOf(c, k), Keep!config_lines(c))
<1> DEFINE A == <<Keep!LineOf(c, "source")>>
           B == Keep!Given(c, "rtsp")
           C == Keep!Given(c, "file")
           D == [i \in DOMAIN Keep!Others |-> Keep!LineOf(c, Keep!Others[i])]
           H == Held(c)
<1>1. "source" \in Keep!Keys /\ "rtsp" \in Keep!Keys /\ "file" \in Keep!Keys
  BY KeysAre DEF Keep!Words
<1>2. Keep!LineOf(c, "source") \in H BY <1>1 DEF Held
<1>3. A \in Seq(H) /\ In(Keep!LineOf(c, "source"), A)
  <2> DEFINE x == Keep!LineOf(c, "source")
  <2>1. x \in H BY <1>2
  <2> HIDE DEF x
  <2>2. <<x>> \in Seq(H) /\ In(x, <<x>>) BY <2>1 DEF In
  <2>3. QED BY <2>2 DEF x
<1>4. ASSUME NEW k \in {"rtsp", "file"}
      PROVE  Keep!Given(c, k) \in Seq(H) /\ (c[k] # "" => In(Keep!LineOf(c, k), Keep!Given(c, k)))
  <2> DEFINE x == Keep!LineOf(c, k)
  <2>1. CASE c[k] = ""
    <3>1. Keep!Given(c, k) = <<>> BY <2>1 DEF Keep!Given
    <3>2. <<>> \in Seq(H) BY EmptySeq
    <3>3. QED BY <2>1, <3>1, <3>2
  <2>2. CASE c[k] # ""
    <3>1. x \in H BY <1>1, <2>2 DEF Held
    <3>2. Keep!Given(c, k) = <<x>> BY <2>2 DEF Keep!Given
    <3> HIDE DEF x
    <3>3. <<x>> \in Seq(H) /\ In(x, <<x>>) BY <3>1 DEF In
    <3>4. QED BY <3>2, <3>3 DEF x
  <2>3. QED BY <2>1, <2>2
<1>5. /\ D \in Seq(H)
      /\ \A k \in Keep!Keys : In(k, Keep!Others) => In(Keep!LineOf(c, k), D)
  <2> DEFINE n == Len(Keep!Others)
  <2>1. /\ n \in Nat /\ DOMAIN Keep!Others = 1 .. n
        /\ \A i \in 1 .. n : Keep!Others[i] \in Keep!Keys \ {"rtsp", "file"}
    BY OthersAre
  <2> HIDE DEF n
  <2>2. \A i \in 1 .. n : Keep!LineOf(c, Keep!Others[i]) \in H BY <2>1 DEF Held
  <2> HIDE DEF H
  <2>3. D \in [1 .. n -> H] BY <2>1, <2>2
  <2>4. D \in Seq(H) /\ Len(D) = n BY <2>1, <2>3
  <2>5. ASSUME NEW k \in Keep!Keys, In(k, Keep!Others) PROVE In(Keep!LineOf(c, k), D)
    <3>1. PICK i \in 1 .. n : Keep!Others[i] = k BY <2>5 DEF In, n
    <3>2. D[i] = Keep!LineOf(c, k) BY <2>1, <3>1
    <3>3. QED BY <2>4, <3>2 DEF In
  <2>6. QED BY <2>4, <2>5
<1>6. B \in Seq(H) /\ (c["rtsp"] # "" => In(Keep!LineOf(c, "rtsp"), B)) BY <1>4
<1>7. C \in Seq(H) /\ (c["file"] # "" => In(Keep!LineOf(c, "file"), C)) BY <1>4
<1>8. Keep!config_lines(c) = A \o B \o C \o D BY DEF Keep!config_lines
<1> HIDE DEF A, B, C, D
<1>9. A \o B \in Seq(H) BY <1>3, <1>6, ConcatProperties
<1>10. A \o B \o C \in Seq(H) BY <1>7, <1>9, ConcatProperties
<1>11. Keep!config_lines(c) \in Seq(H) BY <1>5, <1>8, <1>10, ConcatProperties
<1>12. \A x : In(x, A) \/ In(x, B) \/ In(x, C) \/ In(x, D) => In(x, Keep!config_lines(c))
  <2>1. \A x : In(x, A) \/ In(x, B) => In(x, A \o B) BY <1>3, <1>6, InConcat
  <2>2. \A x : In(x, A \o B) \/ In(x, C) => In(x, A \o B \o C) BY <1>7, <1>9, InConcat
  <2>3. \A x : In(x, A \o B \o C) \/ In(x, D) => In(x, A \o B \o C \o D) BY <1>5, <1>10, InConcat
  <2>4. QED BY <1>8, <2>1, <2>2, <2>3
<1>13. ASSUME NEW k \in Keep!Keys \ Unwritten, k \in {"rtsp", "file"} => c[k] # ""
       PROVE  In(Keep!LineOf(c, k), Keep!config_lines(c))
  <2>1. CASE k = "source" BY <1>3, <1>12, <2>1
  <2>2. CASE k = "rtsp" BY <1>6, <1>12, <1>13, <2>2
  <2>3. CASE k = "file" BY <1>7, <1>12, <1>13, <2>3
  <2>4. CASE k \notin {"source", "rtsp", "file"}
    <3>1. In(k, Keep!Others) BY <2>4, OthersAre
    <3>2. QED BY <1>5, <1>12, <3>1
  <2>5. QED BY <2>1, <2>2, <2>3, <2>4
<1>14. H \subseteq Lines
  <2>1. ASSUME NEW k \in Keep!Keys PROVE Keep!LineOf(c, k) \in Lines
    <3>1. c[k] \in Texts /\ "auto" \in Texts BY DEF Configs, Texts
    <3>2. QED BY <3>1 DEF Keep!LineOf, Lines
  <2>2. QED BY <2>1 DEF Held
<1>15. Keep!config_lines(c) \in Seq(Lines) BY <1>11, <1>14
<1>16. QED BY <1>11, <1>13, <1>15

\* What applying a line of a file does to a setting that is read back.
LEMMA AppliedLine ==
  ASSUME NEW c \in Configs, NEW d \in Configs, NEW l \in Held(c), NEW k \in Keep!Written \ Keep!Broken(c)
  PROVE  Keep!Applied(d, l)[k] = IF l.key = k THEN c[k] ELSE d[k]
<1>1. PICK j \in Keep!Keys : (j \in {"rtsp", "file"} => c[j] # "") /\ l = Keep!LineOf(c, j)
  BY DEF Held
<1>2. l.key = j BY <1>1 DEF Keep!LineOf
<1> DEFINE v == Keep!WordOf(l.val)
<1>3. CASE j = k
  <2>1. v # "" /\ Keep!Taken(k, v) = {c[k]} BY <1>1, <1>3, LineRead
  <2> HIDE DEF v
  <2>2. Keep!apply_set(d, k, v) = [d EXCEPT ![k] = c[k]] BY <2>1, WrittenAre DEF Keep!apply_set
  <2>3. Keep!Applied(d, l) = [d EXCEPT ![k] = c[k]]
    BY <1>2, <1>3, <2>1, <2>2 DEF Keep!Applied, v
  <2>4. k \in DOMAIN d BY WrittenAre DEF Configs
  <2>5. QED BY <1>2, <1>3, <2>3, <2>4
<1>4. CASE j # k
  <2>1. Keep!Applied(d, l) = d \/ \E w : Keep!Applied(d, l) = [d EXCEPT ![j] = w]
    BY <1>2 DEF Keep!Applied, Keep!apply_set
  <2>2. k \in DOMAIN d BY WrittenAre DEF Configs
  <2>3. QED BY <1>2, <1>4, <2>1, <2>2
<1>5. QED BY <1>3, <1>4

\* What a save wrote is read back.
LEMMA RoundTrip ==
  ASSUME NEW c \in Configs, NEW k \in Keep!Written \ Keep!Broken(c)
  PROVE  Keep!load_config_file(Keep!config_lines(c))[k] = c[k]
<1> DEFINE ls == Keep!config_lines(c)
<1>1. ls \in Seq(Held(c)) /\ ls \in Seq(Lines) BY LinesAre
<1>2. (k \in {"rtsp", "file"} => c[k] # "") => In(Keep!LineOf(c, k), ls)
  BY LinesAre, WrittenAre
<1> HIDE DEF ls
<1>3. PICK f \in [0 .. Len(ls) -> Configs] :
        /\ f[0] = Keep!Default /\ Keep!load_config_file(ls) = f[Len(ls)]
        /\ \A n \in 1 .. Len(ls) : f[n] = Keep!Applied(f[n - 1], ls[n])
  BY <1>1, LoadedIs
<1>4. Len(ls) \in Nat BY <1>1
<1> DEFINE Bad == {n \in 0 .. Len(ls) :
                     f[n][k] # IF \E m \in 1 .. n : ls[m].key = k THEN c[k] ELSE Keep!Default[k]}
<1>5. Bad = {}
  <2> SUFFICES ASSUME Bad # {} PROVE FALSE OBVIOUS
  <2>1. Bad \in SUBSET Nat BY <1>4
  <2>2. PICK m \in Bad : \A y \in Bad : m <= y BY <2>1, Smallest
  <2>3. m \in Nat /\ m <= Len(ls) BY <1>4
  <2>4. m # 0
    <3>1. ~\E i \in 1 .. 0 : ls[i].key = k OBVIOUS
    <3>2. QED BY <1>3, <2>2, <3>1
  <2>5. m \in 1 .. Len(ls) /\ m - 1 \in 0 .. Len(ls) /\ ~(m <= m - 1) BY <1>4, <2>3, <2>4
  <2>6. f[m - 1][k] = IF \E i \in 1 .. m - 1 : ls[i].key = k THEN c[k] ELSE Keep!Default[k]
    BY <2>2, <2>5
  <2>7. f[m] = Keep!Applied(f[m - 1], ls[m]) /\ f[m - 1] \in Configs /\ ls[m] \in Held(c)
    BY <1>1, <1>3, <2>5
  <2>8. f[m][k] = IF ls[m].key = k THEN c[k] ELSE f[m - 1][k] BY <2>7, AppliedLine
  <2>9. (\E i \in 1 .. m : ls[i].key = k) <=> (ls[m].key = k \/ \E i \in 1 .. m - 1 : ls[i].key = k)
    <3>1. \A i \in 1 .. m : i = m \/ i \in 1 .. m - 1 BY <2>3
    <3>2. m \in 1 .. m /\ \A i \in 1 .. m - 1 : i \in 1 .. m BY <2>3, <2>4
    <3>3. QED BY <3>1, <3>2
  <2>10. f[m][k] = IF \E i \in 1 .. m : ls[i].key = k THEN c[k] ELSE Keep!Default[k]
    BY <2>6, <2>8, <2>9
  <2>11. QED BY <2>2, <2>10
<1>6. f[Len(ls)][k] = IF \E m \in 1 .. Len(ls) : ls[m].key = k THEN c[k] ELSE Keep!Default[k]
  <2>1. Len(ls) \in 0 .. Len(ls) BY <1>4
  <2>2. QED BY <1>5, <2>1
<1>7. CASE k \in {"rtsp", "file"} => c[k] # ""
  <2>1. PICK m \in 1 .. Len(ls) : ls[m] = Keep!LineOf(c, k) BY <1>2, <1>7 DEF In
  <2>2. Keep!LineOf(c, k).key = k BY DEF Keep!LineOf
  <2>3. ls[m].key = k BY <2>1, <2>2
  <2>4. QED BY <1>3, <1>6, <2>3 DEF ls
<1>8. CASE k \in {"rtsp", "file"} /\ c[k] = ""
  <2>1. k \in Keep!Words BY <1>8 DEF Keep!Words
  <2>2. k # "source" /\ k # "codec" BY <1>8
  <2>3. Keep!Default[k] = "" BY <2>1, <2>2, WrittenAre DEF Keep!Default
  <2>4. QED BY <1>3, <1>6, <1>8, <2>3 DEF ls
<1>9. QED BY <1>7, <1>8

-----------------------------------------------------------------------------
(* The inductive invariant of the settings.                                *)

\* What is in the file is lines, and a save that is alone with an open file finds it empty.
KeepTyped ==
  /\ cfg \in Configs /\ last \in Configs /\ file \in Seq(Lines) /\ mixed \in BOOLEAN
  /\ text \in [Saves -> SUBSET Configs] /\ open \subseteq Saves
Alone == ~mixed => \A s \in open : open = {s} /\ file = <<>>
KeepInv == KeepTyped /\ Alone /\ Keep!SavedComesBack

\* Part of one file over another is a file.
LEMMA OverTyped ==
  ASSUME NEW new \in Seq(Lines), NEW old \in Seq(Lines)
  PROVE  Keep!Over(new, old) \in Seq(Lines) /\ (old = <<>> => Keep!Over(new, old) = new)
<1> DEFINE n == Len(new)
           m == Len(old)
           rest == SubSeq(old, n + 1, m)
<1>0. n \in Nat /\ m \in Nat OBVIOUS
<1>1. rest \in Seq(Lines) /\ (m = 0 => rest = <<>>)
  <2>1. CASE n + 1 <= m
    <3>1. \A i \in n + 1 .. m : i \in 1 .. Len(old) BY <1>0
    <3>2. QED BY <1>0, <2>1, <3>1, SubSeqProperties
  <2>2. CASE ~(n + 1 <= m)
    <3>1. rest = <<>> BY <1>0, <2>2
    <3>2. QED BY <3>1, EmptySeq
  <2>3. QED BY <2>1, <2>2
<1>2. Keep!Over(new, old) = new \o rest BY DEF Keep!Over
<1> HIDE DEF rest
<1>3. new \o rest \in Seq(Lines) BY <1>1, ConcatProperties
<1>4. old = <<>> => m = 0 BY EmptySeq
<1>5. new \o <<>> = new BY ConcatEmptySeq
<1>6. QED BY <1>1, <1>2, <1>3, <1>4, <1>5

\* Nothing was saved yet.
LEMMA KeepInitial == ASSUME Keep!Init PROVE KeepInv
<1>1. cfg = Keep!Default /\ file = <<>> /\ last = Keep!Default /\ open = {} /\ mixed = FALSE
  BY DEF Keep!Init
<1>2. text \in [Saves -> SUBSET Configs] BY DEF Keep!Init
<1>3. <<>> \in Seq(Lines) BY EmptySeq
<1>4. KeepTyped BY <1>1, <1>2, <1>3, DefaultAllowed DEF KeepTyped
<1>5. Keep!SavedComesBack BY <1>1, LoadedEmpty DEF Keep!SavedComesBack
<1>6. QED BY <1>1, <1>4, <1>5 DEF KeepInv, Alone

\* The settings change, the file does not.
LEMMA ChangeStep ==
  ASSUME KeepInv, UNCHANGED <<file, text, open, last, mixed>>, cfg' \in Configs
  PROVE  KeepInv'
BY DEF KeepInv, KeepTyped, Alone, Keep!SavedComesBack

\* What is typed.
LEMMA ValuesByKind ==
  ASSUME NEW k, NEW v \in Keep!Values(k)
  PROVE  /\ k \in Keep!Switches => v \in {"other", "junk"}
         /\ k \in Keep!Clamped \cup Keep!Ranged => v \in {"below", "above", "least", "junk"}
         /\ k \in {"source", "codec"} => v \in Texts
         /\ k \in Keep!Words => v \in {"word", "word#tail", "auto"}
<1>1. CASE k \in Keep!Switches
  <2>1. /\ k \notin Keep!Clamped \cup Keep!Ranged /\ k \notin DOMAIN Keep!Choice
        /\ k \notin Keep!Words
    BY <1>1, KindsApart, KeysAre
  <2>2. Keep!Values(k) = {"other", "junk"} BY <1>1, <2>1 DEF Keep!Values
  <2>3. QED BY <1>1, <2>1, <2>2, KeysAre
<1>2. CASE k \in Keep!Clamped \cup Keep!Ranged
  <2>1. k \notin Keep!Switches /\ k \notin DOMAIN Keep!Choice /\ k \notin Keep!Words
    BY <1>2, KindsApart, KeysAre
  <2>2. Keep!Values(k) = {"below", "above", "least", "junk"} BY <1>2, <2>1 DEF Keep!Values
  <2>3. QED BY <1>2, <2>1, <2>2, KeysAre
<1>3. CASE k \in {"source", "codec"}
  <2>1. /\ k \notin Keep!Switches /\ k \in DOMAIN Keep!Choice /\ k \notin Keep!Words
        /\ k \notin Keep!Clamped \cup Keep!Ranged
    BY <1>3, KindsApart, KeysAre
  <2>2. Keep!Values(k) = Keep!Choice[k] \cup {"ipcam", "jpeg", "junk"}
    BY <1>3, <2>1 DEF Keep!Values
  <2>3. k \in {"source", "codec"} => Keep!Choice[k] \subseteq Texts
    <3>1. CASE k = "source" BY <3>1 DEF Keep!Choice, Texts
    <3>2. CASE k = "codec" BY <3>2 DEF Keep!Choice, Texts
    <3>3. QED BY <1>3, <3>1, <3>2
  <2>4. v \in Texts BY <1>3, <2>2, <2>3 DEF Texts
  <2>5. QED BY <2>1, <2>4
<1>4. CASE k \in Keep!Words
  <2>1. /\ k \notin Keep!Switches /\ k \notin DOMAIN Keep!Choice
        /\ k \notin Keep!Clamped \cup Keep!Ranged
    BY <1>4, KindsApart, KeysAre
  <2>2. Keep!Values(k) = {"word", "word#tail", "auto"} BY <1>4, <2>1 DEF Keep!Values
  <2>3. QED BY <1>4, <2>1, <2>2, KeysAre
<1>5. QED BY <1>1, <1>2, <1>3, <1>4

\* The console, the screen and the worker leave settings.
LEMMA ChangesAllowed ==
  ASSUME KeepInv, Keep!Set \/ Keep!Screen \/ Keep!NoWebcam
  PROVE  UNCHANGED <<file, text, open, last, mixed>> /\ cfg' \in Configs
<1>1. cfg \in Configs BY DEF KeepInv, KeepTyped
<1>2. CASE Keep!Set
  <2>1. PICK key \in Keep!Keys : \E val \in Keep!Values(key) : cfg' = Keep!apply_set(cfg, key, val)
    BY <1>2 DEF Keep!Set
  <2>2. PICK val \in Keep!Values(key) : cfg' = Keep!apply_set(cfg, key, val) BY <2>1
  <2>3. val \in Texts
    <3>1. CASE key \in Keep!Switches BY <3>1, ValuesByKind DEF Texts
    <3>2. CASE key \in Keep!Clamped \cup Keep!Ranged BY <3>2, ValuesByKind DEF Texts
    <3>3. CASE key \in {"source", "codec"} BY <3>3, ValuesByKind DEF Texts
    <3>4. CASE key \in Keep!Words BY <3>4, ValuesByKind DEF Texts
    <3>5. QED BY <3>1, <3>2, <3>3, <3>4, KeysAre
  <2>4. QED BY <1>1, <1>2, <2>2, <2>3, SetAllowed DEF Keep!Set
<1>3. CASE Keep!Screen
  <2>1. PICK key \in Keep!Words, val \in {"", "word tail"} :
          cfg' = [cfg EXCEPT ![key] = val, !.source = IF key = "file" THEN "file" ELSE @]
    BY <1>3 DEF Keep!Screen
  <2>2. key \in Keep!Keys /\ key # "source" /\ "source" \in Keep!Keys
    BY KindsApart, KeysAre DEF Keep!Words
  <2>3. val \in Texts /\ Allowed(key, val)
    BY KindsApart DEF Allowed, Texts
  <2>4. [cfg EXCEPT ![key] = val] \in Configs BY <1>1, <2>2, <2>3 DEF Configs
  <2>5. "file" \in Texts /\ Allowed("source", "file") BY KindsApart DEF Allowed, Texts
  <2>6. QED BY <1>1, <1>3, <2>1, <2>2, <2>4, <2>5 DEF Configs, Keep!Screen
<1>4. CASE Keep!NoWebcam
  <2>1. "pattern" \in Texts /\ Allowed("source", "pattern") /\ "source" \in Keep!Keys
    BY KindsApart, KeysAre DEF Allowed, Texts
  <2>2. QED BY <1>1, <1>4, <2>1 DEF Configs, Keep!NoWebcam
<1>5. QED BY <1>2, <1>3, <1>4

\* A save: it takes the settings, empties the file, writes it, or fails.
LEMMA SaveStep ==
  ASSUME KeepInv, NEW s \in Saves,
         Keep!Save(s) \/ Keep!Open(s) \/ Keep!WriteOut(s) \/ Keep!SaveFails(s)
  PROVE  KeepInv'
<1>1. KeepTyped /\ Alone /\ Keep!SavedComesBack BY DEF KeepInv
<1>2. CASE Keep!Save(s) \/ Keep!SaveFails(s)
  <2>1. UNCHANGED <<cfg, file, open, last, mixed>> BY <1>2 DEF Keep!Save, Keep!SaveFails
  <2>2. text' \in [Saves -> SUBSET Configs] BY <1>1, <1>2 DEF KeepTyped, Keep!Save, Keep!SaveFails
  <2>3. QED BY <1>1, <2>1, <2>2 DEF KeepInv, KeepTyped, Alone, Keep!SavedComesBack
<1>3. CASE Keep!Open(s)
  <2>1. /\ open' = open \cup {s} /\ mixed' = (open # {}) /\ file' = <<>> /\ last' = Keep!Default
        /\ UNCHANGED <<cfg, text>>
    BY <1>3 DEF Keep!Open
  <2>2. KeepTyped' BY <1>1, <2>1, EmptySeq, DefaultAllowed DEF KeepTyped
  <2>3. Alone' BY <2>1 DEF Alone
  <2>4. Keep!SavedComesBack' BY <2>1, LoadedEmpty DEF Keep!SavedComesBack
  <2>5. QED BY <2>2, <2>3, <2>4 DEF KeepInv
<1>4. CASE Keep!WriteOut(s)
  <2>1. PICK c \in text[s] : file' = Keep!Over(Keep!config_lines(c), file) /\ last' = c
    BY <1>4 DEF Keep!WriteOut
  <2>2. /\ s \in open /\ open' = open \ {s} /\ text' = [text EXCEPT ![s] = {}]
        /\ UNCHANGED <<cfg, mixed>>
    BY <1>4 DEF Keep!WriteOut
  <2>3. c \in Configs BY <1>1, <2>1 DEF KeepTyped
  <2>4. Keep!config_lines(c) \in Seq(Lines) BY <2>3, LinesAre
  <2>5. file' \in Seq(Lines) /\ (file = <<>> => file' = Keep!config_lines(c))
    BY <1>1, <2>1, <2>4, OverTyped DEF KeepTyped
  <2>6. KeepTyped' BY <1>1, <2>1, <2>2, <2>3, <2>5 DEF KeepTyped
  <2>7. Alone' BY <1>1, <2>2 DEF Alone
  <2>8. ASSUME ~mixed' PROVE file' = Keep!config_lines(c)
    BY <1>1, <2>2, <2>5, <2>8 DEF Alone
  <2>9. Keep!SavedComesBack'
    <3> SUFFICES ASSUME ~mixed', NEW k \in Keep!Written \ Keep!Broken(last')
                 PROVE  Keep!load_config_file(file')[k] = last'[k]
      BY DEF Keep!SavedComesBack
    <3>1. file' = Keep!config_lines(c) BY <2>8
    <3>2. QED BY <2>1, <2>3, <3>1, RoundTrip
  <2>10. QED BY <2>6, <2>7, <2>9 DEF KeepInv
<1>5. QED BY <1>2, <1>3, <1>4

\* The next start reads what is there.
LEMMA RestartStep ==
  ASSUME KeepInv, Keep!StartsAgain
  PROVE  KeepInv'
<1>1. /\ cfg' = Keep!load_config_file(file) /\ last' = Keep!load_config_file(file) /\ file' = file
      /\ text' = [s \in Saves |-> {}] /\ open' = {} /\ mixed' = FALSE
  BY DEF Keep!StartsAgain
<1>2. Keep!load_config_file(file) \in Configs BY LoadedAllowed DEF KeepInv, KeepTyped
<1>3. KeepTyped' BY <1>1, <1>2 DEF KeepInv, KeepTyped
<1>4. QED BY <1>1, <1>3 DEF KeepInv, Alone, Keep!SavedComesBack

\* Every step of the settings keeps the invariant.
LEMMA KeepNextStep == KeepInv /\ [Keep!Next]_(Keep!vars) => KeepInv'
<1> SUFFICES ASSUME KeepInv, [Keep!Next]_(Keep!vars) PROVE KeepInv'
  OBVIOUS
<1>1. CASE Keep!Set \/ Keep!Screen \/ Keep!NoWebcam BY <1>1, ChangesAllowed, ChangeStep
<1>2. CASE Keep!StartsAgain BY <1>2, RestartStep
<1>3. CASE \E s \in Saves :
             Keep!Save(s) \/ Keep!Open(s) \/ Keep!WriteOut(s) \/ Keep!SaveFails(s)
  BY <1>3, SaveStep
<1>4. CASE UNCHANGED Keep!vars
  <2>1. UNCHANGED <<cfg, file, text, open, last, mixed>> BY <1>4 DEF Keep!vars
  <2>2. QED BY <2>1 DEF KeepInv, KeepTyped, Alone, Keep!SavedComesBack
<1>5. QED BY <1>1, <1>2, <1>3, <1>4 DEF Keep!Next

-----------------------------------------------------------------------------
(* The messages on a connection, and in a control payload.                 *)

\* The sizes of WireFormat.
LEMMA WireSizes ==
  /\ LIST_MAX \in Nat \ {0} /\ TEXT_MAX \in Nat \ {0} /\ TLM_MAX \in Nat \ {0}
  /\ LIMIT \in Nat \ {0} /\ MAX_BODY \in Nat \ {0} /\ PAYLOAD \in Nat \ {0}
  /\ MaxSent \in Nat \ {0} /\ Wire!Unlimited \in Nat
  /\ MAX_BODY >= 40 /\ MAX_BODY >= TEXT_MAX + 3 /\ MAX_BODY >= TLM_MAX + 3
<1>1. /\ \A n \in {LIST_MAX, TEXT_MAX, TLM_MAX, LIMIT, MAX_BODY, PAYLOAD, MaxSent} : n \in Nat \ {0}
      /\ MAX_BODY >= 40 /\ MAX_BODY >= TEXT_MAX + 3 /\ MAX_BODY >= TLM_MAX + 3
  BY ReadBackAssumption DEF Wire!WireFormatAssumption
<1>2. QED BY <1>1 DEF Wire!Unlimited

\* s stands in b, behind the first off entries.
At(b, off, s) == off + Len(s) <= Len(b) /\ \A i \in 1 .. Len(s) : b[off + i] = s[i]

LEMMA AtTyped ==
  ASSUME NEW S, NEW s \in Seq(S)
  PROVE  /\ Len(s) \in Nat /\ DOMAIN s = 1 .. Len(s) /\ \A i \in 1 .. Len(s) : s[i] \in S
         /\ s = [i \in 1 .. Len(s) |-> s[i]]
OBVIOUS

LEMMA SameSeq ==
  ASSUME NEW S, NEW s \in Seq(S), NEW u \in Seq(S), Len(s) = Len(u),
         \A i \in 1 .. Len(s) : s[i] = u[i]
  PROVE  s = u
<1>1. /\ s = [i \in 1 .. Len(s) |-> s[i]] /\ u = [i \in 1 .. Len(u) |-> u[i]] BY AtTyped
<1>2. QED BY <1>1

LEMMA ConcatAt ==
  ASSUME NEW S, NEW s \in Seq(S), NEW u \in Seq(S)
  PROVE  /\ s \o u \in Seq(S) /\ Len(s \o u) = Len(s) + Len(u)
         /\ At(s \o u, 0, s) /\ At(s \o u, Len(s), u)
<1>1. /\ s \o u \in Seq(S) /\ Len(s \o u) = Len(s) + Len(u) /\ Len(s) \in Nat /\ Len(u) \in Nat
      /\ \A i \in 1 .. Len(s) + Len(u) : (s \o u)[i] = IF i <= Len(s) THEN s[i] ELSE u[i - Len(s)]
  BY ConcatProperties
<1> DEFINE b == s \o u
<1> HIDE DEF b
<1>2. \A i \in 1 .. Len(s) : b[0 + i] = s[i] BY <1>1 DEF b
<1>3. ASSUME NEW i \in 1 .. Len(u) PROVE b[Len(s) + i] = u[i]
  <2>1. /\ Len(s) + i \in 1 .. Len(s) + Len(u) /\ ~(Len(s) + i <= Len(s))
        /\ (Len(s) + i) - Len(s) = i
    BY <1>1
  <2>2. QED BY <1>1, <2>1 DEF b
<1>4. QED BY <1>1, <1>2, <1>3 DEF At, b

LEMMA AtWithin ==
  ASSUME NEW S, NEW b \in Seq(S), NEW s \in Seq(S), NEW u \in Seq(S), NEW off \in Nat,
         NEW in \in Nat, At(b, off, s), At(s, in, u)
  PROVE  At(b, off + in, u)
<1>1. Len(b) \in Nat /\ Len(s) \in Nat /\ Len(u) \in Nat OBVIOUS
<1>2. off + in + Len(u) <= Len(b) BY <1>1 DEF At
<1>3. ASSUME NEW i \in 1 .. Len(u) PROVE b[off + in + i] = u[i]
  <2>1. in + i \in 1 .. Len(s) /\ off + (in + i) = off + in + i BY <1>1 DEF At
  <2>2. b[off + (in + i)] = s[in + i] BY <2>1 DEF At
  <2>3. s[in + i] = u[i] BY DEF At
  <2>4. QED BY <2>1, <2>2, <2>3
<1>4. QED BY <1>2, <1>3 DEF At

\* What stands at a place is cut out there.
LEMMA CutOut ==
  ASSUME NEW S, NEW b \in Seq(S), NEW s \in Seq(S), NEW off \in Nat, At(b, off, s)
  PROVE  SubSeq(b, off + 1, off + Len(s)) = s
<1>1. Len(b) \in Nat /\ Len(s) \in Nat OBVIOUS
<1> DEFINE c == SubSeq(b, off + 1, off + Len(s))
<1>2. off + Len(s) <= Len(b) BY DEF At
<1>3. c = [i \in 1 .. Len(s) |-> b[off + i]]
  <2>1. c = [i \in 1 .. ((off + Len(s)) - (off + 1) + 1) |-> b[i + (off + 1) - 1]] BY DEF SubSeq
  <2>2. (off + Len(s)) - (off + 1) + 1 = Len(s) BY <1>1
  <2>3. \A i \in 1 .. Len(s) : i + (off + 1) - 1 = off + i BY <1>1
  <2>4. QED BY <2>1, <2>2, <2>3
<1> HIDE DEF c
<1>4. s = [i \in 1 .. Len(s) |-> s[i]] BY AtTyped
<1>5. QED BY <1>3, <1>4 DEF At, c

\* A part of a sequence, and what stands in it.
LEMMA PartOf ==
  ASSUME NEW S, NEW b \in Seq(S), NEW from \in Nat, NEW to \in Nat, from <= to, to <= Len(b)
  PROVE  LET c == SubSeq(b, from + 1, to)
         IN /\ c \in Seq(S) /\ Len(c) = to - from /\ At(b, from, c)
            /\ \A s \in Seq(S), off \in Nat : At(c, off, s)
                 <=> off + Len(s) <= to - from /\ At(b, from + off, s)
<1> DEFINE c == SubSeq(b, from + 1, to)
<1>1. Len(b) \in Nat /\ \A i \in 1 .. Len(b) : b[i] \in S OBVIOUS
<1>2. c = [i \in 1 .. (to - from) |-> b[from + i]]
  <2>1. c = [i \in 1 .. (to - (from + 1) + 1) |-> b[i + (from + 1) - 1]] BY DEF SubSeq
  <2>2. to - (from + 1) + 1 = to - from OBVIOUS
  <2>3. \A i \in 1 .. (to - from) : i + (from + 1) - 1 = from + i OBVIOUS
  <2>4. QED BY <2>1, <2>2, <2>3
<1> HIDE DEF c
<1>3. PICK n \in Nat : n = to - from OBVIOUS
<1>4. \A i \in 1 .. n : from + i \in 1 .. Len(b) BY <1>1, <1>3
<1>5. \A i \in 1 .. n : b[from + i] \in S BY <1>1, <1>4
<1>6. c \in [1 .. n -> S] BY <1>2, <1>3, <1>5
<1>7. c \in Seq(S) /\ Len(c) = n BY <1>6
<1>8. \A i \in 1 .. n : c[i] = b[from + i] BY <1>2, <1>3
<1>9. At(b, from, c) BY <1>1, <1>3, <1>7, <1>8 DEF At
<1>10. ASSUME NEW s \in Seq(S), NEW off \in Nat
       PROVE  At(c, off, s) <=> off + Len(s) <= n /\ At(b, from + off, s)
  <2>1. Len(s) \in Nat OBVIOUS
  <2>2. CASE off + Len(s) <= n
    <3>1. \A i \in 1 .. Len(s) : off + i \in 1 .. n /\ from + (off + i) = from + off + i
      BY <2>1, <2>2
    <3>2. \A i \in 1 .. Len(s) : c[off + i] = b[from + off + i] BY <1>8, <3>1
    <3>3. from + off + Len(s) <= Len(b) BY <1>1, <1>3, <2>1, <2>2
    <3>4. QED BY <2>2, <3>2, <3>3, <1>7 DEF At
  <2>3. CASE ~(off + Len(s) <= n) BY <2>3, <1>7 DEF At
  <2>4. QED BY <2>2, <2>3
<1>11. QED BY <1>3, <1>7, <1>9, <1>10 DEF c

\* What FlattenSeq's recursion defines.
Flattens(ss, f) == f = [i \in 1 .. Len(ss) |-> IF i = 1 THEN ss[i] ELSE f[i - 1] \o ss[i]]

LEMMA FlattenExists ==
  ASSUME NEW ss, Len(ss) \in Nat
  PROVE  \E f : Flattens(ss, f)
<1> DEFINE Good(m, f) == /\ DOMAIN f = 1 .. m
                         /\ \A n \in 1 .. m : f[n] = IF n = 1 THEN ss[n] ELSE f[n - 1] \o ss[n]
           Bad == {m \in 0 .. Len(ss) : ~\E f : Good(m, f)}
<1>1. Bad = {}
  <2> SUFFICES ASSUME Bad # {} PROVE FALSE OBVIOUS
  <2>1. Bad \in SUBSET Nat OBVIOUS
  <2>2. PICK m \in Bad : \A y \in Bad : m <= y BY <2>1, Smallest
  <2>3. m \in Nat /\ m <= Len(ss) OBVIOUS
  <2>4. CASE m = 0
    <3> DEFINE g == [n \in 1 .. 0 |-> ss]
    <3>1. Good(0, g) OBVIOUS
    <3>2. QED BY <2>4, <3>1
  <2>5. CASE m # 0
    <3>1. m - 1 \in 0 .. Len(ss) /\ ~(m <= m - 1) /\ m \in 1 .. Len(ss) BY <2>3, <2>5
    <3>2. m - 1 \notin Bad BY <2>2, <3>1
    <3>3. PICK f : Good(m - 1, f) BY <3>1, <3>2
    <3> DEFINE g == [n \in 1 .. m |-> IF n # m THEN f[n]
                                      ELSE IF m = 1 THEN ss[m] ELSE f[m - 1] \o ss[m]]
    <3>4. ASSUME NEW n \in 1 .. m PROVE g[n] = IF n = 1 THEN ss[n] ELSE g[n - 1] \o ss[n]
      <4>1. CASE n # m
        <5>1. n \in 1 .. m - 1 BY <4>1, <2>3
        <5>2. g[n] = f[n] BY <4>1
        <5>3. f[n] = IF n = 1 THEN ss[n] ELSE f[n - 1] \o ss[n] BY <5>1, <3>3
        <5>4. n # 1 => g[n - 1] = f[n - 1]
          <6>1. n # 1 => n - 1 \in 1 .. m /\ n - 1 # m BY <2>3, <5>1
          <6>2. QED BY <6>1
        <5>5. QED BY <5>2, <5>3, <5>4
      <4>2. CASE n = m
        <5>1. n # 1 => n - 1 \in 1 .. m /\ n - 1 # m BY <2>3
        <5>2. n # 1 => g[n - 1] = f[n - 1] BY <5>1
        <5>3. QED BY <4>2, <5>2
      <4>3. QED BY <4>1, <4>2
    <3>5. DOMAIN g = 1 .. m OBVIOUS
    <3> HIDE DEF g
    <3>6. Good(m, g) BY <3>4, <3>5
    <3>7. QED BY <3>6
  <2>6. QED BY <2>4, <2>5
<1>2. Len(ss) \in 0 .. Len(ss) OBVIOUS
<1>3. PICK f : Good(Len(ss), f) BY <1>1, <1>2
<1> DEFINE h == [n \in 1 .. Len(ss) |-> IF n = 1 THEN ss[n] ELSE f[n - 1] \o ss[n]]
<1>4. \A n \in 1 .. Len(ss) : h[n] = f[n] BY <1>3
<1>5. ASSUME NEW n \in 1 .. Len(ss) PROVE h[n] = IF n = 1 THEN ss[n] ELSE h[n - 1] \o ss[n]
  <2>1. n # 1 => n - 1 \in 1 .. Len(ss) OBVIOUS
  <2>2. n # 1 => h[n - 1] = f[n - 1] BY <2>1, <1>4
  <2>3. QED BY <2>2
<1>6. h = [n \in 1 .. Len(ss) |-> IF n = 1 THEN ss[n] ELSE h[n - 1] \o ss[n]]
  <2>1. h = [n \in 1 .. Len(ss) |-> h[n]] OBVIOUS
  <2> HIDE DEF h
  <2>2. QED BY <1>5, <2>1
<1> HIDE DEF h
<1>7. QED BY <1>6 DEF Flattens

\* Sequences written one behind the other stand where those before them end.
LEMMA FlattenIs ==
  ASSUME NEW S, NEW ss \in Seq(Seq(S)), NEW P, P[0] = 0,
         \A i \in 1 .. Len(ss) : P[i] \in Nat /\ P[i] = P[i - 1] + Len(ss[i])
  PROVE  /\ Wire!FlattenSeq(ss) \in Seq(S) /\ Len(Wire!FlattenSeq(ss)) = P[Len(ss)]
         /\ \A i \in 1 .. Len(ss) : At(Wire!FlattenSeq(ss), P[i - 1], ss[i])
<1> DEFINE n == Len(ss)
           flatten == CHOOSE f : Flattens(ss, f)
<1>0. n \in Nat /\ \A i \in 1 .. n : ss[i] \in Seq(S) /\ Len(ss[i]) \in Nat
  <2>1. n \in Nat /\ \A i \in 1 .. n : ss[i] \in Seq(S) OBVIOUS
  <2>2. QED BY <2>1, AtTyped
<1>1. Flattens(ss, flatten) BY <1>0, FlattenExists
<1>2. Wire!FlattenSeq(ss) = IF n = 0 THEN ss ELSE flatten[n] BY DEF Wire!FlattenSeq, Flattens
<1> HIDE DEF flatten
<1>3. \A i \in 1 .. n : flatten[i] = IF i = 1 THEN ss[i] ELSE flatten[i - 1] \o ss[i]
  <2>1. flatten = [i \in 1 .. n |-> IF i = 1 THEN ss[i] ELSE flatten[i - 1] \o ss[i]]
    BY <1>1 DEF Flattens
  <2>2. QED BY <2>1
<1>4. \A i \in 0 .. n : P[i] \in Nat
  <2>1. \A i \in 0 .. n : i = 0 \/ i \in 1 .. n BY <1>0
  <2>2. QED BY <2>1
<1>5. \A i \in 1 .. n : P[i] = P[i - 1] + Len(ss[i]) OBVIOUS
<1> HIDE DEF n
<1> DEFINE Fits1(m) == /\ flatten[m] \in Seq(S) /\ Len(flatten[m]) = P[m]
                       /\ \A j \in 1 .. m : At(flatten[m], P[j - 1], ss[j])
           Bad == {m \in 1 .. n : ~Fits1(m)}
<1>6. Bad = {}
  <2> SUFFICES ASSUME Bad # {} PROVE FALSE OBVIOUS
  <2>1. Bad \in SUBSET Nat BY <1>0
  <2>2. PICK m \in Bad : \A y \in Bad : m <= y BY <2>1, Smallest
  <2>3. m \in 1 .. n /\ ~Fits1(m) OBVIOUS
  <2> HIDE DEF Bad, Fits1
  <2>4. ss[m] \in Seq(S) /\ Len(ss[m]) \in Nat BY <1>0, <2>3
  <2>5. CASE m = 1
    <3>1. flatten[m] = ss[m] BY <1>3, <2>3, <2>5
    <3>2. P[m] = Len(ss[m]) /\ P[m - 1] = 0 BY <1>5, <2>3, <2>4, <2>5
    <3>3. At(ss[m], 0, ss[m]) BY <2>4 DEF At
    <3>4. \A j \in 1 .. m : j = m BY <2>5
    <3>5. Fits1(m) BY <3>1, <3>2, <3>3, <3>4, <2>4 DEF Fits1
    <3>6. QED BY <2>3, <3>5
  <2>6. CASE m # 1
    <3>1. m - 1 \in 1 .. n /\ ~(m <= m - 1) BY <2>3, <2>6, <1>0
    <3>2. Fits1(m - 1) BY <2>2, <3>1 DEF Bad
    <3> DEFINE a == flatten[m - 1]   b == ss[m]
    <3>3. flatten[m] = a \o b BY <1>3, <2>3, <2>6
    <3>4. a \in Seq(S) /\ Len(a) = P[m - 1] BY <3>2 DEF Fits1
    <3>5. P[m] = P[m - 1] + Len(b) BY <1>5, <2>3
    <3> HIDE DEF a, b
    <3>6. b \in Seq(S) BY <2>4 DEF b
    <3>7. /\ a \o b \in Seq(S) /\ Len(a \o b) = Len(a) + Len(b)
          /\ At(a \o b, 0, a) /\ At(a \o b, Len(a), b)
      BY <3>4, <3>6, ConcatAt
    <3>8. ASSUME NEW j \in 1 .. m PROVE At(flatten[m], P[j - 1], ss[j])
      <4>1. CASE j = m BY <4>1, <3>3, <3>4, <3>7 DEF b
      <4>2. CASE j # m
        <5>1. j \in 1 .. m - 1 /\ j \in 1 .. n /\ j - 1 \in 0 .. n BY <4>2, <2>3, <1>0
        <5>2. At(a, P[j - 1], ss[j]) BY <3>2, <5>1 DEF Fits1, a
        <5>3. P[j - 1] \in Nat /\ ss[j] \in Seq(S) BY <5>1, <1>0, <1>4
        <5>4. At(a \o b, 0 + P[j - 1], ss[j]) BY <3>4, <3>7, <5>2, <5>3, AtWithin
        <5>5. QED BY <3>3, <5>3, <5>4
      <4>3. QED BY <4>1, <4>2
    <3>9. Fits1(m) BY <3>3, <3>4, <3>5, <3>7, <3>8 DEF Fits1
    <3>10. QED BY <2>3, <3>9
  <2>7. QED BY <2>5, <2>6
<1>7. CASE n = 0
  <2>1. Wire!FlattenSeq(ss) = <<>>
    <3>1. ss = <<>> BY <1>7, EmptySeq DEF n
    <3>2. QED BY <1>2, <1>7, <3>1
  <2>2. <<>> \in Seq(S) /\ Len(<<>>) = 0 BY EmptySeq
  <2>3. QED BY <1>7, <2>1, <2>2 DEF n
<1>8. CASE n # 0
  <2>1. n \in 1 .. n BY <1>0, <1>8
  <2>2. Fits1(n) BY <1>6, <2>1
  <2>3. Wire!FlattenSeq(ss) = flatten[n] BY <1>2, <1>8
  <2>4. QED BY <2>2, <2>3 DEF n
<1>9. QED BY <1>7, <1>8

\* Sequences of one length.
LEMMA FlattenEven ==
  ASSUME NEW S, NEW ss \in Seq(Seq(S)), NEW w \in Nat, \A i \in 1 .. Len(ss) : Len(ss[i]) = w
  PROVE  /\ Wire!FlattenSeq(ss) \in Seq(S) /\ Len(Wire!FlattenSeq(ss)) = Len(ss) * w
         /\ \A i \in 1 .. Len(ss) : At(Wire!FlattenSeq(ss), (i - 1) * w, ss[i])
<1> DEFINE P == [i \in 0 .. Len(ss) |-> i * w]
<1>1. Len(ss) \in Nat OBVIOUS
<1>2. P[0] = 0 BY <1>1
<1>3. ASSUME NEW i \in 1 .. Len(ss)
      PROVE  P[i] \in Nat /\ P[i] = P[i - 1] + Len(ss[i]) /\ P[i - 1] = (i - 1) * w
  <2>1. i \in 0 .. Len(ss) /\ i - 1 \in 0 .. Len(ss) /\ i \in Nat BY <1>1
  <2>2. P[i] = i * w /\ P[i - 1] = (i - 1) * w BY <2>1
  <2>3. i * w = (i - 1) * w + w /\ i * w \in Nat BY <2>1
  <2>4. QED BY <2>2, <2>3
<1>4. P[Len(ss)] = Len(ss) * w BY <1>1
<1> HIDE DEF P
<1>5. /\ Wire!FlattenSeq(ss) \in Seq(S) /\ Len(Wire!FlattenSeq(ss)) = P[Len(ss)]
      /\ \A i \in 1 .. Len(ss) : At(Wire!FlattenSeq(ss), P[i - 1], ss[i])
  BY <1>2, <1>3, FlattenIs
<1>6. QED BY <1>3, <1>4, <1>5

\* The fields f of a message are written one behind the other in their widths, and read there.
Laid(f, widths, places) ==
  /\ f \in Seq(DOMAIN widths) /\ DOMAIN places = DOMAIN widths
  /\ \A x \in DOMAIN widths : \E i \in 1 .. Len(f) : f[i] = x
  /\ \A i \in 1 .. Len(f) :
       /\ widths[f[i]] \in Nat /\ places[f[i]][2] = widths[f[i]]
       /\ places[f[i]][1] = IF i = 1 THEN 0 ELSE places[f[i - 1]][1] + widths[f[i - 1]]
Ends(f, widths, places) ==
  IF Len(f) = 0 THEN 0 ELSE places[f[Len(f)]][1] + widths[f[Len(f)]]

\* The counts of its lists are written behind them, and read there.
Counted(c, l, rc, rl, end) ==
  /\ Len(c) = Len(l) /\ Len(rc) = Len(l) /\ Len(l) \in 0 .. 2 /\ rl = l
  /\ c \in Seq(Nat \ {0}) /\ l \in Seq(Nat \ {0}) /\ DOMAIN rc = 1 .. Len(l)
  /\ Len(l) >= 1 => rc[1] = <<end, c[1]>>
  /\ Len(l) = 2 => rc[2] = <<end + c[1], c[2]>>
CountWidth(c) == IF Len(c) = 0 THEN 0 ELSE IF Len(c) = 1 THEN c[1] ELSE c[1] + c[2]

\* What a reader takes.
Six == {"EqFrame", "LlrFrame", "DecFrame", "TxBits", "TxPayload", "TxBlock"}
Exacts == Six \cup {"IqFrame", "Nack", "UserText", "Tlm"}
Bounded(kind, l, exact, most) ==
  /\ exact = (kind \in Exacts)
  /\ l # <<>> => most = IF kind \in Six THEN LIMIT ELSE IF kind = "UserText" THEN TEXT_MAX
                        ELSE IF kind = "Tlm" THEN TLM_MAX ELSE Wire!Unlimited

Tabled(kind) ==
  LET d == Wire!Msg[kind]   w == Wire!Writes(kind)   r == Wire!Reads(Wire!type_byte[kind])
      end == Ends(w.f, d.f, r.f)
  IN /\ Wire!type_byte[kind] \in Nat
     /\ r.kind = kind /\ Laid(w.f, d.f, r.f) /\ Counted(w.c, d.l, r.c, r.l, end)
     /\ kind # "Feedback" => r.at = end + CountWidth(w.c)
     /\ Bounded(kind, d.l, r.exact, r.most)

LEMMA TabledBy ==
  ASSUME NEW kind, NEW t \in Nat, NEW f, NEW widths, NEW places, NEW counts, NEW c, NEW l,
         NEW at, NEW exact, NEW most, NEW end,
         Wire!Msg[kind] = Wire!D(widths, l), Wire!type_byte[kind] = t,
         Wire!Writes(kind) = Wire!W(f, c),
         Wire!Reads(t) = Wire!R(kind, places, counts, at, l, exact, most),
         Laid(f, widths, places), Ends(f, widths, places) = end, Counted(c, l, counts, l, end),
         kind # "Feedback" => at = end + CountWidth(c), Bounded(kind, l, exact, most)
  PROVE  Tabled(kind)
<1>1. Wire!Msg[kind].f = widths /\ Wire!Msg[kind].l = l BY DEF Wire!D
<1>2. Wire!Writes(kind).f = f /\ Wire!Writes(kind).c = c BY DEF Wire!W
<1> DEFINE r == Wire!Reads(Wire!type_byte[kind])
<1>3. /\ r.kind = kind /\ r.f = places /\ r.c = counts /\ r.at = at /\ r.l = l
      /\ r.exact = exact /\ r.most = most
  BY DEF Wire!R
<1>4. QED BY <1>1, <1>2, <1>3 DEF Tabled

\* Each kind is read where it is written (encode_msg, decode_msg).
LEMMA Tables == \A kind \in Wire!Kinds : Tabled(kind)
<1>1. Tabled("IqFrame")
  <2> DEFINE f == <<"seq", "mcs", "rv">>
             widths == [seq |-> 8, mcs |-> 1, rv |-> 1]
             places == [seq |-> <<0, 8>>, mcs |-> <<8, 1>>, rv |-> <<9, 1>>]
             counts == <<<<10, 4>>>>
  <2>1. /\ Wire!Msg["IqFrame"] = Wire!D(widths, <<4>>) /\ Wire!type_byte["IqFrame"] = 1
        /\ Wire!Writes("IqFrame") = Wire!W(f, <<4>>)
    BY DEF Wire!Msg, Wire!type_byte, Wire!Writes, Wire!WritesFirst, Wire!WritesThen, Wire!Block
  <2>2. Wire!Reads(1) = Wire!R("IqFrame", places, counts, 14, <<4>>, TRUE, Wire!Unlimited)
    BY DEF Wire!Reads
  <2>3. Laid(f, widths, places) BY DEF Laid
  <2>4. Ends(f, widths, places) = 10 /\ Counted(<<4>>, <<4>>, counts, <<4>>, 10)
          /\ 14 = 10 + CountWidth(<<4>>)
    BY DEF Ends, Counted, CountWidth
  <2>5. Bounded("IqFrame", <<4>>, TRUE, Wire!Unlimited) BY DEF Bounded, Exacts, Six
  <2> HIDE DEF f, widths, places, counts
  <2>6. QED BY <2>1, <2>2, <2>3, <2>4, <2>5, TabledBy
<1>2. Tabled("Feedback")
  <2> DEFINE f == <<"snr_db", "bler", "segs_ok", "segs_lost", "need_idr", "ok_mcs", "ok_base">>
             widths == [snr_db |-> 4, bler |-> 4, segs_ok |-> 8, segs_lost |-> 8,
                        need_idr |-> 1, ok_mcs |-> 12, ok_base |-> 2]
             places == [ok_mcs |-> <<25, 12>>, ok_base |-> <<37, 2>>, snr_db |-> <<0, 4>>,
                        bler |-> <<4, 4>>, segs_ok |-> <<8, 8>>, segs_lost |-> <<16, 8>>,
                        need_idr |-> <<24, 1>>]
             counts == <<>>
  <2>1. /\ Wire!Msg["Feedback"] = Wire!D(widths, <<>>) /\ Wire!type_byte["Feedback"] = 2
        /\ Wire!Writes("Feedback") = Wire!W(f, <<>>)
    BY DEF Wire!Msg, Wire!type_byte, Wire!Writes, Wire!WritesFirst, Wire!WritesThen
  <2>2. Wire!Reads(2) = Wire!R("Feedback", places, counts, 25, <<>>, FALSE, 0)
    BY DEF Wire!Reads, Wire!Fixed
  <2>3. Laid(f, widths, places) BY DEF Laid
  <2>4. Ends(f, widths, places) = 39 /\ Counted(<<>>, <<>>, counts, <<>>, 39)
    BY DEF Ends, Counted, CountWidth
  <2>5. Bounded("Feedback", <<>>, FALSE, 0) BY DEF Bounded, Exacts, Six
  <2> HIDE DEF f, widths, places, counts
  <2>6. QED BY <2>1, <2>2, <2>3, <2>4, <2>5, TabledBy
<1>3. Tabled("Nack")
  <2> DEFINE f == <<"seq">>
             widths == [seq |-> 8]
             places == [seq |-> <<0, 8>>]
             counts == <<>>
  <2>1. /\ Wire!Msg["Nack"] = Wire!D(widths, <<>>) /\ Wire!type_byte["Nack"] = 3
        /\ Wire!Writes("Nack") = Wire!W(f, <<>>)
    BY DEF Wire!Msg, Wire!type_byte, Wire!Writes, Wire!WritesFirst, Wire!WritesThen
  <2>2. Wire!Reads(3) = Wire!R("Nack", places, counts, 8, <<>>, TRUE, 0) BY DEF Wire!Reads
  <2>3. Laid(f, widths, places) BY DEF Laid
  <2>4. Ends(f, widths, places) = 8 /\ Counted(<<>>, <<>>, counts, <<>>, 8)
          /\ 8 = 8 + CountWidth(<<>>)
    BY DEF Ends, Counted, CountWidth
  <2>5. Bounded("Nack", <<>>, TRUE, 0) BY DEF Bounded, Exacts, Six
  <2> HIDE DEF f, widths, places, counts
  <2>6. QED BY <2>1, <2>2, <2>3, <2>4, <2>5, TabledBy
<1>4. Tabled("Ping")
  <2> DEFINE f == <<>>
             widths == <<>>
             places == <<>>
             counts == <<>>
  <2>1. /\ Wire!Msg["Ping"] = Wire!D(widths, <<>>) /\ Wire!type_byte["Ping"] = 4
        /\ Wire!Writes("Ping") = Wire!W(f, <<>>)
    BY DEF Wire!Msg, Wire!type_byte, Wire!Writes, Wire!WritesFirst, Wire!WritesThen
  <2>2. Wire!Reads(4) = Wire!R("Ping", places, counts, 0, <<>>, FALSE, 0)
    BY DEF Wire!Reads, Wire!ReadsListed, Wire!Fixed
  <2>3. Laid(f, widths, places) BY DEF Laid
  <2>4. Ends(f, widths, places) = 0 /\ Counted(<<>>, <<>>, counts, <<>>, 0)
          /\ 0 = 0 + CountWidth(<<>>)
    BY DEF Ends, Counted, CountWidth
  <2>5. Bounded("Ping", <<>>, FALSE, 0) BY DEF Bounded, Exacts, Six
  <2> HIDE DEF f, widths, places, counts
  <2>6. QED BY <2>1, <2>2, <2>3, <2>4, <2>5, TabledBy
<1>5. Tabled("EqFrame")
  <2> DEFINE f == <<"seq", "us", "theta">>
             widths == [seq |-> 8, us |-> 2, theta |-> 4]
             places == [seq |-> <<0, 8>>, us |-> <<8, 2>>, theta |-> <<10, 4>>]
             counts == <<<<14, 4>>, <<18, 4>>>>
  <2>1. /\ Wire!Msg["EqFrame"] = Wire!D(widths, <<4, 4>>) /\ Wire!type_byte["EqFrame"] = 5
        /\ Wire!Writes("EqFrame") = Wire!W(f, <<4, 4>>)
    BY DEF Wire!Msg, Wire!type_byte, Wire!Writes, Wire!WritesFirst, Wire!WritesThen
  <2>2. Wire!Reads(5) = Wire!R("EqFrame", places, counts, 22, <<4, 4>>, TRUE, LIMIT)
    BY DEF Wire!Reads, Wire!ReadsListed, Wire!ReadsLong
  <2>3. Laid(f, widths, places) BY DEF Laid
  <2>4. Ends(f, widths, places) = 14 /\ Counted(<<4, 4>>, <<4, 4>>, counts, <<4, 4>>, 14)
          /\ 22 = 14 + CountWidth(<<4, 4>>)
    BY DEF Ends, Counted, CountWidth
  <2>5. Bounded("EqFrame", <<4, 4>>, TRUE, LIMIT) BY DEF Bounded, Exacts, Six
  <2> HIDE DEF f, widths, places, counts
  <2>6. QED BY <2>1, <2>2, <2>3, <2>4, <2>5, TabledBy
<1>6. Tabled("LlrFrame")
  <2> DEFINE f == <<"seq", "us", "theta", "mcs", "rv", "seq_lsb">>
             widths == [seq |-> 8, us |-> 2, theta |-> 4, mcs |-> 1, rv |-> 1, seq_lsb |-> 1]
             places == [seq |-> <<0, 8>>, us |-> <<8, 2>>, theta |-> <<10, 4>>,
                        mcs |-> <<14, 1>>, rv |-> <<15, 1>>, seq_lsb |-> <<16, 1>>]
             counts == <<<<17, 4>>>>
  <2>1. /\ Wire!Msg["LlrFrame"] = Wire!D(widths, <<4>>) /\ Wire!type_byte["LlrFrame"] = 6
        /\ Wire!Writes("LlrFrame") = Wire!W(f, <<4>>)
    BY DEF Wire!Msg, Wire!type_byte, Wire!Writes, Wire!WritesFirst, Wire!WritesThen
  <2>2. Wire!Reads(6) = Wire!R("LlrFrame", places, counts, 21, <<4>>, TRUE, LIMIT)
    BY DEF Wire!Reads, Wire!ReadsListed, Wire!ReadsLong
  <2>3. Laid(f, widths, places) BY DEF Laid
  <2>4. Ends(f, widths, places) = 17 /\ Counted(<<4>>, <<4>>, counts, <<4>>, 17)
          /\ 21 = 17 + CountWidth(<<4>>)
    BY DEF Ends, Counted, CountWidth
  <2>5. Bounded("LlrFrame", <<4>>, TRUE, LIMIT) BY DEF Bounded, Exacts, Six
  <2> HIDE DEF f, widths, places, counts
  <2>6. QED BY <2>1, <2>2, <2>3, <2>4, <2>5, TabledBy
<1>7. Tabled("DecFrame")
  <2> DEFINE f == <<"seq", "mcs", "seq_lsb", "iters", "llr_sum">>
             widths == [seq |-> 8, mcs |-> 1, seq_lsb |-> 1, iters |-> 1, llr_sum |-> 4]
             places == [seq |-> <<0, 8>>, mcs |-> <<8, 1>>, seq_lsb |-> <<9, 1>>,
                        iters |-> <<10, 1>>, llr_sum |-> <<11, 4>>]
             counts == <<<<15, 4>>>>
  <2>1. /\ Wire!Msg["DecFrame"] = Wire!D(widths, <<1>>) /\ Wire!type_byte["DecFrame"] = 8
        /\ Wire!Writes("DecFrame") = Wire!W(f, <<4>>)
    BY DEF Wire!Msg, Wire!type_byte, Wire!Writes, Wire!WritesFirst, Wire!WritesThen
  <2>2. Wire!Reads(8) = Wire!R("DecFrame", places, counts, 19, <<1>>, TRUE, LIMIT)
    BY DEF Wire!Reads, Wire!ReadsListed, Wire!ReadsLong
  <2>3. Laid(f, widths, places) BY DEF Laid
  <2>4. Ends(f, widths, places) = 15 /\ Counted(<<4>>, <<1>>, counts, <<1>>, 15)
          /\ 19 = 15 + CountWidth(<<4>>)
    BY DEF Ends, Counted, CountWidth
  <2>5. Bounded("DecFrame", <<1>>, TRUE, LIMIT) BY DEF Bounded, Exacts, Six
  <2> HIDE DEF f, widths, places, counts
  <2>6. QED BY <2>1, <2>2, <2>3, <2>4, <2>5, TabledBy
<1>8. Tabled("TxBits")
  <2> DEFINE f == <<"seq", "mcs", "rv">>
             widths == [seq |-> 8, mcs |-> 1, rv |-> 1]
             places == [seq |-> <<0, 8>>, mcs |-> <<8, 1>>, rv |-> <<9, 1>>]
             counts == <<<<10, 4>>>>
  <2>1. /\ Wire!Msg["TxBits"] = Wire!D(widths, <<4>>) /\ Wire!type_byte["TxBits"] = 7
        /\ Wire!Writes("TxBits") = Wire!W(f, <<4>>)
    BY DEF Wire!Msg, Wire!type_byte, Wire!Writes, Wire!WritesFirst, Wire!WritesThen, Wire!Block
  <2>2. Wire!Reads(7) = Wire!R("TxBits", places, counts, 14, <<4>>, TRUE, LIMIT)
    BY DEF Wire!Reads, Wire!ReadsListed, Wire!ReadsLong
  <2>3. Laid(f, widths, places) BY DEF Laid
  <2>4. Ends(f, widths, places) = 10 /\ Counted(<<4>>, <<4>>, counts, <<4>>, 10)
          /\ 14 = 10 + CountWidth(<<4>>)
    BY DEF Ends, Counted, CountWidth
  <2>5. Bounded("TxBits", <<4>>, TRUE, LIMIT) BY DEF Bounded, Exacts, Six
  <2> HIDE DEF f, widths, places, counts
  <2>6. QED BY <2>1, <2>2, <2>3, <2>4, <2>5, TabledBy
<1>9. Tabled("TxPayload")
  <2> DEFINE f == <<"seq", "mcs", "rv">>
             widths == [seq |-> 8, mcs |-> 1, rv |-> 1]
             places == [seq |-> <<0, 8>>, mcs |-> <<8, 1>>, rv |-> <<9, 1>>]
             counts == <<<<10, 4>>>>
  <2>1. /\ Wire!Msg["TxPayload"] = Wire!D(widths, <<4>>) /\ Wire!type_byte["TxPayload"] = 9
        /\ Wire!Writes("TxPayload") = Wire!W(f, <<4>>)
    BY DEF Wire!Msg, Wire!type_byte, Wire!Writes, Wire!WritesFirst, Wire!WritesThen, Wire!Block
  <2>2. Wire!Reads(9) = Wire!R("TxPayload", places, counts, 14, <<4>>, TRUE, LIMIT)
    BY DEF Wire!Reads, Wire!ReadsListed, Wire!ReadsLong
  <2>3. Laid(f, widths, places) BY DEF Laid
  <2>4. Ends(f, widths, places) = 10 /\ Counted(<<4>>, <<4>>, counts, <<4>>, 10)
          /\ 14 = 10 + CountWidth(<<4>>)
    BY DEF Ends, Counted, CountWidth
  <2>5. Bounded("TxPayload", <<4>>, TRUE, LIMIT) BY DEF Bounded, Exacts, Six
  <2> HIDE DEF f, widths, places, counts
  <2>6. QED BY <2>1, <2>2, <2>3, <2>4, <2>5, TabledBy
<1>10. Tabled("TxBlock")
  <2> DEFINE f == <<"seq", "mcs", "rv", "flags">>
             widths == [seq |-> 8, mcs |-> 1, rv |-> 1, flags |-> 1]
             places == [seq |-> <<0, 8>>, mcs |-> <<8, 1>>, rv |-> <<9, 1>>,
                        flags |-> <<10, 1>>]
             counts == <<<<11, 4>>>>
  <2>1. /\ Wire!Msg["TxBlock"] = Wire!D(widths, <<1>>) /\ Wire!type_byte["TxBlock"] = 20
        /\ Wire!Writes("TxBlock") = Wire!W(f, <<4>>)
    BY DEF Wire!Msg, Wire!type_byte, Wire!Writes, Wire!WritesFirst, Wire!WritesThen
  <2>2. Wire!Reads(20) = Wire!R("TxBlock", places, counts, 15, <<1>>, TRUE, LIMIT)
    BY DEF Wire!Reads, Wire!ReadsListed
  <2>3. Laid(f, widths, places) BY DEF Laid
  <2>4. Ends(f, widths, places) = 11 /\ Counted(<<4>>, <<1>>, counts, <<1>>, 11)
          /\ 15 = 11 + CountWidth(<<4>>)
    BY DEF Ends, Counted, CountWidth
  <2>5. Bounded("TxBlock", <<1>>, TRUE, LIMIT) BY DEF Bounded, Exacts, Six
  <2> HIDE DEF f, widths, places, counts
  <2>6. QED BY <2>1, <2>2, <2>3, <2>4, <2>5, TabledBy
<1>11. Tabled("HopCmd")
  <2> DEFINE f == <<"mode", "seed", "dwell", "mask">>
             widths == [mode |-> 1, seed |-> 8, dwell |-> 4, mask |-> 2]
             places == [mode |-> <<0, 1>>, seed |-> <<1, 8>>, dwell |-> <<9, 4>>,
                        mask |-> <<13, 2>>]
             counts == <<>>
  <2>1. /\ Wire!Msg["HopCmd"] = Wire!D(widths, <<>>) /\ Wire!type_byte["HopCmd"] = 10
        /\ Wire!Writes("HopCmd") = Wire!W(f, <<>>)
    BY DEF Wire!Msg, Wire!type_byte, Wire!Writes, Wire!WritesFirst, Wire!WritesThen
  <2>2. Wire!Reads(10) = Wire!R("HopCmd", places, counts, 15, <<>>, FALSE, 0)
    BY DEF Wire!Reads, Wire!ReadsListed, Wire!Fixed
  <2>3. Laid(f, widths, places) BY DEF Laid
  <2>4. Ends(f, widths, places) = 15 /\ Counted(<<>>, <<>>, counts, <<>>, 15)
          /\ 15 = 15 + CountWidth(<<>>)
    BY DEF Ends, Counted, CountWidth
  <2>5. Bounded("HopCmd", <<>>, FALSE, 0) BY DEF Bounded, Exacts, Six
  <2> HIDE DEF f, widths, places, counts
  <2>6. QED BY <2>1, <2>2, <2>3, <2>4, <2>5, TabledBy
<1>12. Tabled("UserText")
  <2> DEFINE f == <<>>
             widths == <<>>
             places == <<>>
             counts == <<<<0, 2>>>>
  <2>1. /\ Wire!Msg["UserText"] = Wire!D(widths, <<1>>) /\ Wire!type_byte["UserText"] = 11
        /\ Wire!Writes("UserText") = Wire!W(f, <<2>>)
    BY DEF Wire!Msg, Wire!type_byte, Wire!Writes, Wire!WritesFirst, Wire!WritesThen
  <2>2. Wire!Reads(11) = Wire!R("UserText", places, counts, 2, <<1>>, TRUE, TEXT_MAX)
    BY DEF Wire!Reads, Wire!ReadsListed
  <2>3. Laid(f, widths, places) BY DEF Laid
  <2>4. Ends(f, widths, places) = 0 /\ Counted(<<2>>, <<1>>, counts, <<1>>, 0)
          /\ 2 = 0 + CountWidth(<<2>>)
    BY DEF Ends, Counted, CountWidth
  <2>5. Bounded("UserText", <<1>>, TRUE, TEXT_MAX) BY DEF Bounded, Exacts, Six
  <2> HIDE DEF f, widths, places, counts
  <2>6. QED BY <2>1, <2>2, <2>3, <2>4, <2>5, TabledBy
<1>13. Tabled("Tlm")
  <2> DEFINE f == <<>>
             widths == <<>>
             places == <<>>
             counts == <<<<0, 2>>>>
  <2>1. /\ Wire!Msg["Tlm"] = Wire!D(widths, <<1>>) /\ Wire!type_byte["Tlm"] = 12
        /\ Wire!Writes("Tlm") = Wire!W(f, <<2>>)
    BY DEF Wire!Msg, Wire!type_byte, Wire!Writes, Wire!WritesFirst, Wire!WritesThen
  <2>2. Wire!Reads(12) = Wire!R("Tlm", places, counts, 2, <<1>>, TRUE, TLM_MAX)
    BY DEF Wire!Reads, Wire!ReadsListed
  <2>3. Laid(f, widths, places) BY DEF Laid
  <2>4. Ends(f, widths, places) = 0 /\ Counted(<<2>>, <<1>>, counts, <<1>>, 0)
          /\ 2 = 0 + CountWidth(<<2>>)
    BY DEF Ends, Counted, CountWidth
  <2>5. Bounded("Tlm", <<1>>, TRUE, TLM_MAX) BY DEF Bounded, Exacts, Six
  <2> HIDE DEF f, widths, places, counts
  <2>6. QED BY <2>1, <2>2, <2>3, <2>4, <2>5, TabledBy
<1>14. Tabled("HopMask")
  <2> DEFINE f == <<"epoch_hi", "eff_e8", "mask">>
             widths == [epoch_hi |-> 1, eff_e8 |-> 1, mask |-> 16]
             places == [epoch_hi |-> <<0, 1>>, eff_e8 |-> <<1, 1>>, mask |-> <<2, 16>>]
             counts == <<>>
  <2>1. /\ Wire!Msg["HopMask"] = Wire!D(widths, <<>>) /\ Wire!type_byte["HopMask"] = 13
        /\ Wire!Writes("HopMask") = Wire!W(f, <<>>)
    BY DEF Wire!Msg, Wire!type_byte, Wire!Writes, Wire!WritesFirst, Wire!WritesThen
  <2>2. Wire!Reads(13) = Wire!R("HopMask", places, counts, 18, <<>>, FALSE, 0)
    BY DEF Wire!Reads, Wire!Fixed
  <2>3. Laid(f, widths, places) BY DEF Laid
  <2>4. Ends(f, widths, places) = 18 /\ Counted(<<>>, <<>>, counts, <<>>, 18)
          /\ 18 = 18 + CountWidth(<<>>)
    BY DEF Ends, Counted, CountWidth
  <2>5. Bounded("HopMask", <<>>, FALSE, 0) BY DEF Bounded, Exacts, Six
  <2> HIDE DEF f, widths, places, counts
  <2>6. QED BY <2>1, <2>2, <2>3, <2>4, <2>5, TabledBy
<1>15. Tabled("HopDesc")
  <2> DEFINE f == <<"mode", "flags", "dwell_ms", "seed", "ctl_k", "epoch_hi", "e8", "n_video",
                   "n_ctl", "tag8">>
             widths == [mode |-> 1, flags |-> 1, dwell_ms |-> 2, seed |-> 8, ctl_k |-> 1,
                        epoch_hi |-> 1, e8 |-> 1, n_video |-> 1, n_ctl |-> 1, tag8 |-> 1]
             places == [mode |-> <<0, 1>>, flags |-> <<1, 1>>, dwell_ms |-> <<2, 2>>,
                        seed |-> <<4, 8>>, ctl_k |-> <<12, 1>>, epoch_hi |-> <<13, 1>>,
                        e8 |-> <<14, 1>>, n_video |-> <<15, 1>>, n_ctl |-> <<16, 1>>,
                        tag8 |-> <<17, 1>>]
             counts == <<>>
  <2>1. /\ Wire!Msg["HopDesc"] = Wire!D(widths, <<>>) /\ Wire!type_byte["HopDesc"] = 14
        /\ Wire!Writes("HopDesc") = Wire!W(f, <<>>)
    BY DEF Wire!Msg, Wire!type_byte, Wire!Writes, Wire!WritesFirst, Wire!WritesThen
  <2>2. Wire!Reads(14) = Wire!R("HopDesc", places, counts, 18, <<>>, FALSE, 0)
    BY DEF Wire!Reads, Wire!Fixed
  <2>3. Laid(f, widths, places) BY DEF Laid
  <2>4. Ends(f, widths, places) = 18 /\ Counted(<<>>, <<>>, counts, <<>>, 18)
          /\ 18 = 18 + CountWidth(<<>>)
    BY DEF Ends, Counted, CountWidth
  <2>5. Bounded("HopDesc", <<>>, FALSE, 0) BY DEF Bounded, Exacts, Six
  <2> HIDE DEF f, widths, places, counts
  <2>6. QED BY <2>1, <2>2, <2>3, <2>4, <2>5, TabledBy
<1>16. Tabled("LinkBind")
  <2> DEFINE f == <<"unit", "key", "chan_mhz">>
             widths == [unit |-> 4, key |-> 8, chan_mhz |-> 2]
             places == [unit |-> <<0, 4>>, key |-> <<4, 8>>, chan_mhz |-> <<12, 2>>]
             counts == <<>>
  <2>1. /\ Wire!Msg["LinkBind"] = Wire!D(widths, <<>>) /\ Wire!type_byte["LinkBind"] = 16
        /\ Wire!Writes("LinkBind") = Wire!W(f, <<>>)
    BY DEF Wire!Msg, Wire!type_byte, Wire!Writes, Wire!WritesFirst, Wire!WritesThen
  <2>2. Wire!Reads(16) = Wire!R("LinkBind", places, counts, 14, <<>>, FALSE, 0)
    BY DEF Wire!Reads, Wire!Fixed
  <2>3. Laid(f, widths, places) BY DEF Laid
  <2>4. Ends(f, widths, places) = 14 /\ Counted(<<>>, <<>>, counts, <<>>, 14)
          /\ 14 = 14 + CountWidth(<<>>)
    BY DEF Ends, Counted, CountWidth
  <2>5. Bounded("LinkBind", <<>>, FALSE, 0) BY DEF Bounded, Exacts, Six
  <2> HIDE DEF f, widths, places, counts
  <2>6. QED BY <2>1, <2>2, <2>3, <2>4, <2>5, TabledBy
<1>17. Tabled("TxChan")
  <2> DEFINE f == <<"hz">>
             widths == [hz |-> 8]
             places == [hz |-> <<0, 8>>]
             counts == <<>>
  <2>1. /\ Wire!Msg["TxChan"] = Wire!D(widths, <<>>) /\ Wire!type_byte["TxChan"] = 15
        /\ Wire!Writes("TxChan") = Wire!W(f, <<>>)
    BY DEF Wire!Msg, Wire!type_byte, Wire!Writes, Wire!WritesFirst, Wire!WritesThen
  <2>2. Wire!Reads(15) = Wire!R("TxChan", places, counts, 8, <<>>, FALSE, 0)
    BY DEF Wire!Reads, Wire!Fixed
  <2>3. Laid(f, widths, places) BY DEF Laid
  <2>4. Ends(f, widths, places) = 8 /\ Counted(<<>>, <<>>, counts, <<>>, 8)
          /\ 8 = 8 + CountWidth(<<>>)
    BY DEF Ends, Counted, CountWidth
  <2>5. Bounded("TxChan", <<>>, FALSE, 0) BY DEF Bounded, Exacts, Six
  <2> HIDE DEF f, widths, places, counts
  <2>6. QED BY <2>1, <2>2, <2>3, <2>4, <2>5, TabledBy
<1>18. Tabled("LicInfo")
  <2> DEFINE f == <<"dna", "state", "minutes", "trial_min", "ver">>
             widths == [dna |-> 8, state |-> 1, minutes |-> 4, trial_min |-> 4, ver |-> 1]
             places == [dna |-> <<0, 8>>, state |-> <<8, 1>>, minutes |-> <<9, 4>>,
                        trial_min |-> <<13, 4>>, ver |-> <<17, 1>>]
             counts == <<>>
  <2>1. /\ Wire!Msg["LicInfo"] = Wire!D(widths, <<>>) /\ Wire!type_byte["LicInfo"] = 17
        /\ Wire!Writes("LicInfo") = Wire!W(f, <<>>)
    BY DEF Wire!Msg, Wire!type_byte, Wire!Writes, Wire!WritesFirst, Wire!WritesThen
  <2>2. Wire!Reads(17) = Wire!R("LicInfo", places, counts, 18, <<>>, FALSE, 0)
    BY DEF Wire!Reads, Wire!Fixed
  <2>3. Laid(f, widths, places) BY DEF Laid
  <2>4. Ends(f, widths, places) = 18 /\ Counted(<<>>, <<>>, counts, <<>>, 18)
          /\ 18 = 18 + CountWidth(<<>>)
    BY DEF Ends, Counted, CountWidth
  <2>5. Bounded("LicInfo", <<>>, FALSE, 0) BY DEF Bounded, Exacts, Six
  <2> HIDE DEF f, widths, places, counts
  <2>6. QED BY <2>1, <2>2, <2>3, <2>4, <2>5, TabledBy
<1>19. Tabled("LicPush")
  <2> DEFINE f == <<"dna", "aux", "word">>
             widths == [dna |-> 8, aux |-> 8, word |-> 8]
             places == [dna |-> <<0, 8>>, aux |-> <<8, 8>>, word |-> <<16, 8>>]
             counts == <<>>
  <2>1. /\ Wire!Msg["LicPush"] = Wire!D(widths, <<>>) /\ Wire!type_byte["LicPush"] = 18
        /\ Wire!Writes("LicPush") = Wire!W(f, <<>>)
    BY DEF Wire!Msg, Wire!type_byte, Wire!Writes, Wire!WritesFirst, Wire!WritesThen
  <2>2. Wire!Reads(18) = Wire!R("LicPush", places, counts, 24, <<>>, FALSE, 0)
    BY DEF Wire!Reads, Wire!Fixed
  <2>3. Laid(f, widths, places) BY DEF Laid
  <2>4. Ends(f, widths, places) = 24 /\ Counted(<<>>, <<>>, counts, <<>>, 24)
          /\ 24 = 24 + CountWidth(<<>>)
    BY DEF Ends, Counted, CountWidth
  <2>5. Bounded("LicPush", <<>>, FALSE, 0) BY DEF Bounded, Exacts, Six
  <2> HIDE DEF f, widths, places, counts
  <2>6. QED BY <2>1, <2>2, <2>3, <2>4, <2>5, TabledBy
<1>20. Tabled("HopTable")
  <2> DEFINE f == <<"kind", "idx", "n", "tag", "epoch_hi", "eff_e8">>
             widths == [kind |-> 1, idx |-> 1, n |-> 1, tag |-> 1, epoch_hi |-> 1, eff_e8 |-> 1]
             places == [kind |-> <<0, 1>>, idx |-> <<1, 1>>, n |-> <<2, 1>>, tag |-> <<3, 1>>,
                        epoch_hi |-> <<4, 1>>, eff_e8 |-> <<5, 1>>]
             counts == <<<<6, 1>>>>
  <2>1. /\ Wire!Msg["HopTable"] = Wire!D(widths, <<2>>) /\ Wire!type_byte["HopTable"] = 19
        /\ Wire!Writes("HopTable") = Wire!W(f, <<1>>)
    BY DEF Wire!Msg, Wire!type_byte, Wire!Writes, Wire!WritesFirst, Wire!WritesThen
  <2>2. Wire!Reads(19) = Wire!R("HopTable", places, counts, 7, <<2>>, FALSE, Wire!Unlimited)
    BY DEF Wire!Reads, Wire!ReadsListed
  <2>3. Laid(f, widths, places) BY DEF Laid
  <2>4. Ends(f, widths, places) = 6 /\ Counted(<<1>>, <<2>>, counts, <<2>>, 6)
          /\ 7 = 6 + CountWidth(<<1>>)
    BY DEF Ends, Counted, CountWidth
  <2>5. Bounded("HopTable", <<2>>, FALSE, Wire!Unlimited) BY DEF Bounded, Exacts, Six
  <2> HIDE DEF f, widths, places, counts
  <2>6. QED BY <2>1, <2>2, <2>3, <2>4, <2>5, TabledBy
<1>21. Tabled("RangeRep")
  <2> DEFINE f == <<"samp_hz">>
             widths == [samp_hz |-> 4]
             places == [samp_hz |-> <<0, 4>>]
             counts == <<<<4, 1>>, <<5, 1>>>>
  <2>1. /\ Wire!Msg["RangeRep"] = Wire!D(widths, <<6, 7>>) /\ Wire!type_byte["RangeRep"] = 21
        /\ Wire!Writes("RangeRep") = Wire!W(f, <<1, 1>>)
    BY DEF Wire!Msg, Wire!type_byte, Wire!Writes, Wire!WritesFirst, Wire!WritesThen
  <2>2. Wire!Reads(21) = Wire!R("RangeRep", places, counts, 6, <<6, 7>>, FALSE, Wire!Unlimited)
    BY DEF Wire!Reads, Wire!ReadsListed
  <2>3. Laid(f, widths, places) BY DEF Laid
  <2>4. Ends(f, widths, places) = 4 /\ Counted(<<1, 1>>, <<6, 7>>, counts, <<6, 7>>, 4)
          /\ 6 = 4 + CountWidth(<<1, 1>>)
    BY DEF Ends, Counted, CountWidth
  <2>5. Bounded("RangeRep", <<6, 7>>, FALSE, Wire!Unlimited) BY DEF Bounded, Exacts, Six
  <2> HIDE DEF f, widths, places, counts
  <2>6. QED BY <2>1, <2>2, <2>3, <2>4, <2>5, TabledBy
<1>22. Tabled("Ltr")
  <2> DEFINE f == <<"kind", "idr_pic_id", "marked", "current">>
             widths == [kind |-> 1, idr_pic_id |-> 2, marked |-> 2, current |-> 2]
             places == [kind |-> <<0, 1>>, idr_pic_id |-> <<1, 2>>, marked |-> <<3, 2>>,
                        current |-> <<5, 2>>]
             counts == <<>>
  <2>1. /\ Wire!Msg["Ltr"] = Wire!D(widths, <<>>) /\ Wire!type_byte["Ltr"] = 22
        /\ Wire!Writes("Ltr") = Wire!W(f, <<>>)
    BY DEF Wire!Msg, Wire!type_byte, Wire!Writes, Wire!WritesFirst, Wire!WritesThen
  <2>2. Wire!Reads(22) = Wire!R("Ltr", places, counts, 7, <<>>, FALSE, 0)
    BY DEF Wire!Reads, Wire!ReadsListed, Wire!Fixed
  <2>3. Laid(f, widths, places) BY DEF Laid
  <2>4. Ends(f, widths, places) = 7 /\ Counted(<<>>, <<>>, counts, <<>>, 7)
          /\ 7 = 7 + CountWidth(<<>>)
    BY DEF Ends, Counted, CountWidth
  <2>5. Bounded("Ltr", <<>>, FALSE, 0) BY DEF Bounded, Exacts, Six
  <2> HIDE DEF f, widths, places, counts
  <2>6. QED BY <2>1, <2>2, <2>3, <2>4, <2>5, TabledBy
<1>23. Tabled("ChanRates")
  <2> DEFINE f == <<>>
             widths == <<>>
             places == <<>>
             counts == <<<<0, 1>>>>
  <2>1. /\ Wire!Msg["ChanRates"] = Wire!D(widths, <<9>>) /\ Wire!type_byte["ChanRates"] = 23
        /\ Wire!Writes("ChanRates") = Wire!W(f, <<1>>)
    BY DEF Wire!Msg, Wire!type_byte, Wire!Writes, Wire!WritesFirst, Wire!WritesThen
  <2>2. Wire!Reads(23) = Wire!R("ChanRates", places, counts, 1, <<9>>, FALSE, Wire!Unlimited)
    BY DEF Wire!Reads, Wire!ReadsListed
  <2>3. Laid(f, widths, places) BY DEF Laid
  <2>4. Ends(f, widths, places) = 0 /\ Counted(<<1>>, <<9>>, counts, <<9>>, 0)
          /\ 1 = 0 + CountWidth(<<1>>)
    BY DEF Ends, Counted, CountWidth
  <2>5. Bounded("ChanRates", <<9>>, FALSE, Wire!Unlimited) BY DEF Bounded, Exacts, Six
  <2> HIDE DEF f, widths, places, counts
  <2>6. QED BY <2>1, <2>2, <2>3, <2>4, <2>5, TabledBy
<1>24. Tabled("HopCtlMask")
  <2> DEFINE f == <<"epoch_hi", "eff_e8", "mask", "tag">>
             widths == [epoch_hi |-> 1, eff_e8 |-> 1, mask |-> 2, tag |-> 2]
             places == [epoch_hi |-> <<0, 1>>, eff_e8 |-> <<1, 1>>, mask |-> <<2, 2>>,
                        tag |-> <<4, 2>>]
             counts == <<>>
  <2>1. /\ Wire!Msg["HopCtlMask"] = Wire!D(widths, <<>>) /\ Wire!type_byte["HopCtlMask"] = 24
        /\ Wire!Writes("HopCtlMask") = Wire!W(f, <<>>)
    BY DEF Wire!Msg, Wire!type_byte, Wire!Writes, Wire!WritesFirst, Wire!WritesThen
  <2>2. Wire!Reads(24) = Wire!R("HopCtlMask", places, counts, 6, <<>>, FALSE, 0)
    BY DEF Wire!Reads, Wire!ReadsListed, Wire!Fixed
  <2>3. Laid(f, widths, places) BY DEF Laid
  <2>4. Ends(f, widths, places) = 6 /\ Counted(<<>>, <<>>, counts, <<>>, 6)
          /\ 6 = 6 + CountWidth(<<>>)
    BY DEF Ends, Counted, CountWidth
  <2>5. Bounded("HopCtlMask", <<>>, FALSE, 0) BY DEF Bounded, Exacts, Six
  <2> HIDE DEF f, widths, places, counts
  <2>6. QED BY <2>1, <2>2, <2>3, <2>4, <2>5, TabledBy
<1>25. Tabled("CtlRxCount")
  <2> DEFINE f == <<"tag">>
             widths == [tag |-> 2]
             places == [tag |-> <<0, 2>>]
             counts == <<<<2, 1>>>>
  <2>1. /\ Wire!Msg["CtlRxCount"] = Wire!D(widths, <<2>>) /\ Wire!type_byte["CtlRxCount"] = 25
        /\ Wire!Writes("CtlRxCount") = Wire!W(f, <<1>>)
    BY DEF Wire!Msg, Wire!type_byte, Wire!Writes, Wire!WritesFirst, Wire!WritesThen
  <2>2. Wire!Reads(25) = Wire!R("CtlRxCount", places, counts, 3, <<2>>, FALSE, Wire!Unlimited)
    BY DEF Wire!Reads, Wire!ReadsListed
  <2>3. Laid(f, widths, places) BY DEF Laid
  <2>4. Ends(f, widths, places) = 2 /\ Counted(<<1>>, <<2>>, counts, <<2>>, 2)
          /\ 3 = 2 + CountWidth(<<1>>)
    BY DEF Ends, Counted, CountWidth
  <2>5. Bounded("CtlRxCount", <<2>>, FALSE, Wire!Unlimited) BY DEF Bounded, Exacts, Six
  <2> HIDE DEF f, widths, places, counts
  <2>6. QED BY <2>1, <2>2, <2>3, <2>4, <2>5, TabledBy
<1>26. QED
  BY <1>1, <1>2, <1>3, <1>4, <1>5, <1>6, <1>7, <1>8, <1>9, <1>10, <1>11, <1>12, <1>13, <1>14,
     <1>15, <1>16, <1>17, <1>18, <1>19, <1>20, <1>21, <1>22, <1>23, <1>24, <1>25
  DEF Wire!Kinds, Wire!Msg

\* A function on the first numbers is a sequence.
LEMMA TupleIs ==
  ASSUME NEW S, NEW n \in Nat, NEW s \in [1 .. n -> S]
  PROVE  s \in Seq(S) /\ Len(s) = n
OBVIOUS

\* The smaller of two numbers.
LEMMA SmallerOf ==
  ASSUME NEW a \in Nat, NEW b \in Nat
  PROVE  Wire!Min({a, b}) = IF a <= b THEN a ELSE b
<1> DEFINE m == IF a <= b THEN a ELSE b
<1>1. m \in {a, b} /\ \A y \in {a, b} : m <= y OBVIOUS
<1>2. \A x \in {a, b} : (\A y \in {a, b} : x <= y) => x = m OBVIOUS
<1>3. (CHOOSE x \in {a, b} : \A y \in {a, b} : x <= y) = m BY <1>1, <1>2
<1>4. QED BY <1>3 DEF Wire!Min, m

LEMMA CapIs ==
  ASSUME NEW kind, NEW n \in Nat
  PROVE  /\ Wire!Cap(kind, n) \in Nat /\ Wire!Cap(kind, n) <= n
           /\ Wire!Count(kind, n) = Wire!Cap(kind, n)
         /\ kind \in {"HopTable", "RangeRep", "ChanRates", "CtlRxCount"} =>
              Wire!Cap(kind, n) <= LIST_MAX
         /\ kind = "UserText" => Wire!Cap(kind, n) <= TEXT_MAX
         /\ kind = "Tlm" => Wire!Cap(kind, n) <= TLM_MAX
<1>1. /\ Wire!Min({n, LIST_MAX}) = IF n <= LIST_MAX THEN n ELSE LIST_MAX
      /\ Wire!Min({n, TEXT_MAX}) = IF n <= TEXT_MAX THEN n ELSE TEXT_MAX
      /\ Wire!Min({n, TLM_MAX}) = IF n <= TLM_MAX THEN n ELSE TLM_MAX
  BY WireSizes, SmallerOf
<1>2. CASE kind \in {"HopTable", "RangeRep", "ChanRates", "CtlRxCount"}
  BY <1>1, <1>2, WireSizes DEF Wire!Cap, Wire!Count
<1>3. CASE kind = "UserText" BY <1>1, <1>3, WireSizes DEF Wire!Cap, Wire!Count
<1>4. CASE kind = "Tlm" BY <1>1, <1>4, WireSizes DEF Wire!Cap, Wire!Count
<1>5. CASE kind \notin {"HopTable", "RangeRep", "ChanRates", "CtlRxCount", "UserText", "Tlm"}
  BY <1>5 DEF Wire!Cap, Wire!Count
<1>6. QED BY <1>2, <1>3, <1>4, <1>5

\* Bytes of a message: where they come from.
Names ==
  {"#", "new", "NYXC", "first", "second"} \cup UNION {DOMAIN Wire!Msg[k].f : k \in Wire!Kinds}
Octets == Nat \X Names \X Nat \X Nat

LEMMA BytesAre ==
  ASSUME NEW no \in Nat, NEW name \in Names, NEW e \in Nat, NEW w \in Nat
  PROVE  /\ Wire!Bytes(no, name, e, w) \in Seq(Octets) /\ Len(Wire!Bytes(no, name, e, w)) = w
         /\ Wire!Number(no, e, w) \in Seq(Octets) /\ Len(Wire!Number(no, e, w)) = w
<1>1. \A i \in 1 .. w : <<no, name, e, i>> \in Octets /\ <<no, "#", e, i>> \in Octets
  <2>1. "#" \in Names BY DEF Names
  <2>2. QED BY <2>1 DEF Octets
<1> HIDE DEF Octets
<1>2. [i \in 1 .. w |-> <<no, name, e, i>>] \in [1 .. w -> Octets] BY <1>1
<1>3. [i \in 1 .. w |-> <<no, "#", e, i>>] \in [1 .. w -> Octets] BY <1>1
<1>4. \A s \in [1 .. w -> Octets] : s \in Seq(Octets) /\ Len(s) = w OBVIOUS
<1>5. QED BY <1>2, <1>3, <1>4 DEF Wire!Bytes, Wire!Number

LEMMA NumberIs ==
  ASSUME NEW no \in Nat, NEW n \in Nat, NEW w \in Nat
  PROVE  Wire!Number(no, n, w) \in Seq(Octets) /\ Len(Wire!Number(no, n, w)) = w
<1>1. "#" \in Names BY DEF Names
<1>2. QED BY <1>1, BytesAre

\* A number is read where it was written.
LEMMA ValueIs ==
  ASSUME NEW b \in Seq(Octets), NEW off \in Nat, NEW no \in Nat, NEW n \in Nat, NEW w \in Nat \ {0},
         At(b, off, Wire!Number(no, n, w))
  PROVE  Wire!Value(b, off, w) = n
<1> DEFINE s == Wire!Number(no, n, w)
<1>2. s \in Seq(Octets) /\ Len(s) = w BY NumberIs
<1>3. SubSeq(b, off + 1, off + w) = s BY <1>2, CutOut
<1>4. s[1] = <<no, "#", n, 1>> BY DEF Wire!Number
<1>5. s[1][1] = no /\ s[1][3] = n BY <1>4
<1>6. QED BY <1>3, <1>5 DEF Wire!Value

\* One or two sequences behind each other.
LEMMA FlattenTwo ==
  ASSUME NEW S, NEW ss \in Seq(Seq(S)), Len(ss) <= 2
  PROVE  LET b == Wire!FlattenSeq(ss)
         IN /\ b \in Seq(S)
            /\ Len(ss) = 0 => Len(b) = 0
            /\ Len(ss) = 1 => Len(b) = Len(ss[1]) /\ At(b, 0, ss[1])
            /\ Len(ss) = 2 => /\ Len(b) = Len(ss[1]) + Len(ss[2])
                              /\ At(b, 0, ss[1]) /\ At(b, Len(ss[1]), ss[2])
<1>1. Len(ss) \in 0 .. 2 /\ \A i \in 1 .. Len(ss) : ss[i] \in Seq(S) /\ Len(ss[i]) \in Nat
  <2>1. Len(ss) \in Nat /\ \A i \in 1 .. Len(ss) : ss[i] \in Seq(S) OBVIOUS
  <2>2. \A i \in 1 .. Len(ss) : Len(ss[i]) \in Nat BY <2>1, AtTyped
  <2>3. Len(ss) \in 0 .. 2
    <3>1. PICK n \in Nat : n = Len(ss) BY <2>1
    <3>2. QED BY <3>1
  <2>4. QED BY <2>1, <2>2, <2>3
<1> DEFINE P == [i \in 0 .. 2 |-> IF i = 0 THEN 0 ELSE IF i = 1 THEN Len(ss[1])
                                  ELSE Len(ss[1]) + Len(ss[2])]
<1>2. P[0] = 0 /\ P[1] = Len(ss[1]) /\ P[2] = Len(ss[1]) + Len(ss[2]) OBVIOUS
<1> HIDE DEF P
<1>3. \A i \in 1 .. Len(ss) : P[i] \in Nat /\ P[i] = P[i - 1] + Len(ss[i])
  <2>1. \A i \in 1 .. Len(ss) : i = 1 \/ (i = 2 /\ Len(ss) = 2) BY <1>1
  <2>2. ASSUME NEW i \in 1 .. Len(ss) PROVE P[i] \in Nat /\ P[i] = P[i - 1] + Len(ss[i])
    <3>1. Len(ss[i]) \in Nat BY <1>1
    <3>2. CASE i = 1
      <4>1. i - 1 = 0 BY <3>2
      <4>2. QED BY <1>2, <3>1, <3>2, <4>1
    <3>3. CASE i = 2 /\ Len(ss) = 2
      <4>1. i - 1 = 1 /\ 1 \in 1 .. Len(ss) BY <3>3
      <4>2. Len(ss[1]) \in Nat BY <1>1, <4>1
      <4>3. P[i] = P[2] /\ P[i - 1] = P[1] /\ ss[i] = ss[2] BY <3>3, <4>1
      <4>4. PICK x \in Nat : x = Len(ss[1]) BY <4>2
      <4>5. PICK y \in Nat : y = Len(ss[i]) BY <3>1
      <4>6. P[2] = x + y /\ P[1] = x BY <1>2, <4>3, <4>4, <4>5
      <4>7. QED BY <4>3, <4>5, <4>6
    <3>4. QED BY <2>1, <3>2, <3>3
  <2>3. QED BY <2>2
<1> DEFINE b == Wire!FlattenSeq(ss)
<1>4. b \in Seq(S) /\ Len(b) = P[Len(ss)] /\ \A i \in 1 .. Len(ss) : At(b, P[i - 1], ss[i])
  BY <1>2, <1>3, FlattenIs
<1> HIDE DEF b
<1>5. CASE Len(ss) = 0 BY <1>2, <1>4, <1>5 DEF b
<1>6. CASE Len(ss) = 1 BY <1>2, <1>4, <1>6 DEF b
<1>7. CASE Len(ss) = 2 BY <1>2, <1>4, <1>7 DEF b
<1>8. Len(ss) = 0 \/ Len(ss) = 1 \/ Len(ss) = 2 BY <1>1
<1>9. QED BY <1>4, <1>5, <1>6, <1>7, <1>8 DEF b

\* The fields of a message, in their places.
LEMMA FieldsAre ==
  ASSUME NEW no \in Nat, NEW f, NEW widths, NEW places, Laid(f, widths, places),
         DOMAIN widths \subseteq Names
  PROVE  LET b == Wire!FlattenSeq([i \in DOMAIN f |-> Wire!Bytes(no, f[i], 0, widths[f[i]])])
         IN /\ b \in Seq(Octets) /\ Len(b) = Ends(f, widths, places)
            /\ \A x \in DOMAIN widths :
                 /\ places[x][1] \in Nat /\ widths[x] \in Nat /\ places[x][2] = widths[x]
                 /\ At(b, places[x][1], Wire!Bytes(no, x, 0, widths[x]))
<1> DEFINE n == Len(f)
           ss == [i \in DOMAIN f |-> Wire!Bytes(no, f[i], 0, widths[f[i]])]
           P == [i \in 0 .. n |-> IF i = 0 THEN 0 ELSE places[f[i]][1] + widths[f[i]]]
           b == Wire!FlattenSeq(ss)
<1>1. f \in Seq(DOMAIN widths) BY DEF Laid
<1>2. n \in Nat /\ DOMAIN f = 1 .. n /\ \A i \in 1 .. n : f[i] \in DOMAIN widths
  BY <1>1, AtTyped
<1>3. \A i \in 1 .. n : /\ widths[f[i]] \in Nat /\ places[f[i]][2] = widths[f[i]]
                        /\ places[f[i]][1] = IF i = 1 THEN 0
                                             ELSE places[f[i - 1]][1] + widths[f[i - 1]]
  BY DEF Laid
<1>4. /\ ss \in Seq(Seq(Octets)) /\ Len(ss) = n
      /\ \A i \in 1 .. n : ss[i] = Wire!Bytes(no, f[i], 0, widths[f[i]])
           /\ Len(ss[i]) = widths[f[i]]
  <2>1. \A i \in 1 .. n : /\ Wire!Bytes(no, f[i], 0, widths[f[i]]) \in Seq(Octets)
                          /\ Len(Wire!Bytes(no, f[i], 0, widths[f[i]])) = widths[f[i]]
    <3>1. ASSUME NEW i \in 1 .. n
          PROVE  /\ Wire!Bytes(no, f[i], 0, widths[f[i]]) \in Seq(Octets)
                 /\ Len(Wire!Bytes(no, f[i], 0, widths[f[i]])) = widths[f[i]]
      <4>1. f[i] \in Names /\ widths[f[i]] \in Nat /\ 0 \in Nat BY <1>2, <1>3
      <4>2. QED BY <4>1, BytesAre
    <3>2. QED BY <3>1
  <2>2. ss \in [1 .. n -> Seq(Octets)] BY <1>2, <2>1
  <2>3. \A s \in [1 .. n -> Seq(Octets)] : s \in Seq(Seq(Octets)) /\ Len(s) = n BY <1>2
  <2>4. \A i \in 1 .. n : ss[i] = Wire!Bytes(no, f[i], 0, widths[f[i]]) BY <1>2
  <2> HIDE DEF ss
  <2>5. QED BY <2>1, <2>2, <2>3, <2>4
<1>5. P[0] = 0 BY <1>2
<1>6. \A i \in 1 .. n : P[i] = P[i - 1] + widths[f[i]] /\ P[i - 1] = places[f[i]][1]
  <2>1. ASSUME NEW i \in 1 .. n
        PROVE  P[i] = P[i - 1] + widths[f[i]] /\ P[i - 1] = places[f[i]][1]
    <3>1. i \in 0 .. n /\ i - 1 \in 0 .. n /\ i # 0 /\ (i - 1 = 0 <=> i = 1) BY <1>2
    <3>2. P[i] = places[f[i]][1] + widths[f[i]] BY <3>1
    <3>3. P[i - 1] = IF i = 1 THEN 0 ELSE places[f[i - 1]][1] + widths[f[i - 1]] BY <3>1
    <3>4. QED BY <1>3, <3>2, <3>3
  <2>2. QED BY <2>1
<1>7. P[n] = Ends(f, widths, places) BY <1>2 DEF Ends
<1> HIDE DEF P
<1>8. \A i \in 0 .. n : P[i] \in Nat
  <2> DEFINE Bad == {i \in 0 .. n : P[i] \notin Nat}
  <2>1. Bad = {}
    <3> SUFFICES ASSUME Bad # {} PROVE FALSE OBVIOUS
    <3>1. Bad \in SUBSET Nat BY <1>2
    <3>2. PICK m \in Bad : \A y \in Bad : m <= y BY <3>1, Smallest
    <3>3. m \in 0 .. n /\ P[m] \notin Nat OBVIOUS
    <3>4. m # 0 BY <1>5, <3>3
    <3>5. m \in 1 .. n /\ m - 1 \in 0 .. n /\ ~(m <= m - 1) BY <1>2, <3>3, <3>4
    <3>6. P[m - 1] \in Nat BY <3>2, <3>5
    <3>7. P[m] = P[m - 1] + widths[f[m]] /\ widths[f[m]] \in Nat BY <1>3, <1>6, <3>5
    <3>8. QED BY <3>3, <3>6, <3>7
  <2>2. QED BY <2>1
<1>9. /\ b \in Seq(Octets) /\ Len(b) = P[n]
      /\ \A i \in 1 .. n : At(b, P[i - 1], ss[i])
  <2>1. \A i \in 1 .. Len(ss) : P[i] \in Nat /\ P[i] = P[i - 1] + Len(ss[i])
    <3>1. \A i \in 1 .. n : i \in 0 .. n BY <1>2
    <3>2. QED BY <1>4, <1>6, <1>8, <3>1
  <2> HIDE DEF ss
  <2>2. QED BY <1>4, <1>5, <2>1, FlattenIs
<1> HIDE DEF ss, b
<1>10. ASSUME NEW x \in DOMAIN widths
       PROVE  /\ places[x][1] \in Nat /\ widths[x] \in Nat /\ places[x][2] = widths[x]
              /\ At(b, places[x][1], Wire!Bytes(no, x, 0, widths[x]))
  <2>1. PICK i \in 1 .. n : f[i] = x BY DEF Laid
  <2>2. P[i - 1] = places[x][1] /\ At(b, P[i - 1], Wire!Bytes(no, x, 0, widths[x]))
    BY <1>4, <1>6, <1>9, <2>1
  <2>3. i - 1 \in 0 .. n BY <1>2
  <2>4. QED BY <1>3, <1>8, <2>1, <2>2, <2>3
<1>11. QED BY <1>7, <1>9, <1>10 DEF b, ss

\* A message that is written.
Valid(m) ==
  /\ m.no \in Nat /\ m.kind \in Wire!Kinds /\ m.n \in [1 .. Len(Wire!Msg[m.kind].l) -> Nat]
  /\ m.by \in {"this", "newer", "old", "oldest"}
  /\ m.by \in {"old", "oldest"} => m.kind = "Feedback"

\* Its lists: where they begin, their length, and that of all.
Base(kind) ==
  Ends(Wire!Writes(kind).f, Wire!Msg[kind].f, Wire!Reads(Wire!type_byte[kind]).f)
    + CountWidth(Wire!Writes(kind).c)
Size(m, k) == Wire!Cap(m.kind, m.n[k]) * Wire!Msg[m.kind].l[k]
Begins(m, k) == Base(m.kind) + (IF k = 1 THEN 0 ELSE Size(m, 1))
Whole(m) ==
  LET n == Len(Wire!Msg[m.kind].l)
  IN Base(m.kind) + (IF n = 0 THEN 0 ELSE IF n = 1 THEN Size(m, 1) ELSE Size(m, 1) + Size(m, 2))

\* Where a reader looks for them, the fields, counts and entries of m stand in b.
FieldsIn(m, b) ==
  LET d == Wire!Msg[m.kind]   r == Wire!Reads(Wire!type_byte[m.kind])
  IN \A x \in DOMAIN d.f : At(b, r.f[x][1], Wire!Bytes(m.no, x, 0, d.f[x]))
ListsIn(m, b) ==
  LET d == Wire!Msg[m.kind]   r == Wire!Reads(Wire!type_byte[m.kind])
  IN \A k \in 1 .. Len(d.l) :
       /\ At(b, r.c[k][1], Wire!Number(m.no, Wire!Cap(m.kind, m.n[k]), r.c[k][2]))
       /\ \A e \in 1 .. Wire!Cap(m.kind, m.n[k]) :
            At(b, Begins(m, k) + (e - 1) * d.l[k], Wire!Bytes(m.no, Wire!Entry(k), e, d.l[k]))

\* The entries of a list.
LEMMA ListIs ==
  ASSUME NEW no \in Nat, NEW name \in Names, NEW n \in Nat, NEW w \in Nat
  PROVE  LET b == Wire!FlattenSeq([e \in 1 .. n |-> Wire!Bytes(no, name, e, w)])
         IN /\ b \in Seq(Octets) /\ Len(b) = n * w
            /\ \A e \in 1 .. n : At(b, (e - 1) * w, Wire!Bytes(no, name, e, w))
<1> DEFINE ss == [e \in 1 .. n |-> Wire!Bytes(no, name, e, w)]
<1>1. \A e \in 1 .. n : Wire!Bytes(no, name, e, w) \in Seq(Octets)
        /\ Len(Wire!Bytes(no, name, e, w)) = w
  <2>1. ASSUME NEW e \in 1 .. n
        PROVE  Wire!Bytes(no, name, e, w) \in Seq(Octets) /\ Len(Wire!Bytes(no, name, e, w)) = w
    <3>1. e \in Nat OBVIOUS
    <3>2. QED BY <3>1, BytesAre
  <2>2. QED BY <2>1
<1>2. ss \in [1 .. n -> Seq(Octets)] BY <1>1
<1>3. \A s \in [1 .. n -> Seq(Octets)] : s \in Seq(Seq(Octets)) /\ Len(s) = n OBVIOUS
<1>4. \A e \in 1 .. n : ss[e] = Wire!Bytes(no, name, e, w) OBVIOUS
<1> HIDE DEF ss
<1>5. ss \in Seq(Seq(Octets)) /\ Len(ss) = n BY <1>2, <1>3
<1>6. \A e \in 1 .. Len(ss) : Len(ss[e]) = w BY <1>1, <1>4, <1>5
<1>7. /\ Wire!FlattenSeq(ss) \in Seq(Octets) /\ Len(Wire!FlattenSeq(ss)) = Len(ss) * w
      /\ \A e \in 1 .. Len(ss) : At(Wire!FlattenSeq(ss), (e - 1) * w, ss[e])
  BY <1>5, <1>6, FlattenEven
<1>8. QED BY <1>4, <1>5, <1>7 DEF ss

\* A message is written as it is laid out.
LEMMA BodyIs ==
  ASSUME NEW m, Valid(m)
  PROVE  /\ Wire!Body(m) \in Seq(Octets) /\ Len(Wire!Body(m)) = Whole(m)
         /\ FieldsIn(m, Wire!Body(m)) /\ ListsIn(m, Wire!Body(m))
<1> DEFINE d == Wire!Msg[m.kind]   w == Wire!Writes(m.kind)
           r == Wire!Reads(Wire!type_byte[m.kind])
           end == Ends(w.f, d.f, r.f)   n == Len(d.l)
           cap(k) == Wire!Cap(m.kind, m.n[k])
           list(k) == Wire!FlattenSeq(
                        [e \in 1 .. cap(k) |-> Wire!Bytes(m.no, Wire!Entry(k), e, d.l[k])])
           cs == [k \in DOMAIN w.c |-> Wire!Number(m.no, Wire!Count(m.kind, m.n[k]), w.c[k])]
           ls == [k \in DOMAIN w.c |-> list(k)]
           F == Wire!FlattenSeq([i \in DOMAIN w.f |-> Wire!Bytes(m.no, w.f[i], 0, d.f[w.f[i]])])
           C == Wire!FlattenSeq(cs)   L == Wire!FlattenSeq(ls)
<1>1. Tabled(m.kind) BY Tables DEF Valid
<1>2. Wire!Body(m) = F \o C \o L BY DEF Wire!Body
<1>3. m.no \in Nat /\ m.kind \in Wire!Kinds /\ m.n \in [1 .. n -> Nat] BY DEF Valid
<1>4. Laid(w.f, d.f, r.f) /\ Counted(w.c, d.l, r.c, r.l, end) BY <1>1 DEF Tabled
<1>5. /\ n \in 0 .. 2 /\ DOMAIN w.c = 1 .. n /\ Len(w.c) = n
      /\ \A k \in 1 .. n : w.c[k] \in Nat \ {0} /\ d.l[k] \in Nat \ {0} /\ m.n[k] \in Nat
  <2> HIDE DEF d, w, r, end
  <2>1. /\ n \in 0 .. 2 /\ Len(w.c) = n /\ w.c \in Seq(Nat \ {0}) /\ d.l \in Seq(Nat \ {0})
    BY <1>4 DEF Counted
  <2>2. DOMAIN w.c = 1 .. n BY <2>1
  <2>3. \A k \in 1 .. n : w.c[k] \in Nat \ {0} BY <2>1
  <2>4. \A k \in 1 .. n : d.l[k] \in Nat \ {0} BY <2>1
  <2>5. \A k \in 1 .. n : m.n[k] \in Nat BY <1>3
  <2>6. QED BY <2>1, <2>2, <2>3, <2>4, <2>5
<1>6. /\ n >= 1 => r.c[1] = <<end, w.c[1]>>
      /\ n = 2 => r.c[2] = <<end + w.c[1], w.c[2]>>
  BY <1>4 DEF Counted
<1>7. DOMAIN d.f \subseteq Names BY <1>3 DEF Names
<1>8. Base(m.kind) = end + CountWidth(w.c) BY DEF Base
<1>9. \A k \in 1 .. n : cap(k) \in Nat /\ Wire!Count(m.kind, m.n[k]) = cap(k) BY <1>5, CapIs
<1>10. \A k \in 1 .. n : Size(m, k) = cap(k) * d.l[k] /\ Size(m, k) \in Nat
  BY <1>5, <1>9 DEF Size
<1> HIDE DEF d, w, r, end, n
<1>11. /\ F \in Seq(Octets) /\ Len(F) = end
       /\ \A x \in DOMAIN d.f :
            /\ r.f[x][1] \in Nat /\ d.f[x] \in Nat
            /\ At(F, r.f[x][1], Wire!Bytes(m.no, x, 0, d.f[x]))
  <2> DEFINE f == w.f   widths == d.f   places == r.f
  <2>1. PICK no \in Nat : no = m.no BY <1>3
  <2>2. Laid(f, widths, places) /\ DOMAIN widths \subseteq Names BY <1>4, <1>7
  <2>3. end = Ends(f, widths, places) BY DEF end
  <2>4. F = Wire!FlattenSeq([i \in DOMAIN f |-> Wire!Bytes(no, f[i], 0, widths[f[i]])]) BY <2>1
  <2> HIDE DEF f, widths, places, F
  <2>5. /\ F \in Seq(Octets) /\ Len(F) = Ends(f, widths, places)
        /\ \A x \in DOMAIN widths :
             /\ places[x][1] \in Nat /\ widths[x] \in Nat
             /\ At(F, places[x][1], Wire!Bytes(no, x, 0, widths[x]))
    BY <2>2, <2>4, FieldsAre
  <2>6. QED BY <2>1, <2>3, <2>5 DEF f, widths, places
<1>12. /\ cs \in Seq(Seq(Octets)) /\ Len(cs) = n
       /\ \A k \in 1 .. n : cs[k] = Wire!Number(m.no, cap(k), w.c[k]) /\ Len(cs[k]) = w.c[k]
  <2>1. \A k \in 1 .. n : /\ Wire!Number(m.no, cap(k), w.c[k]) \in Seq(Octets)
                          /\ Len(Wire!Number(m.no, cap(k), w.c[k])) = w.c[k]
    <3>1. ASSUME NEW k \in 1 .. n
          PROVE  /\ Wire!Number(m.no, cap(k), w.c[k]) \in Seq(Octets)
                 /\ Len(Wire!Number(m.no, cap(k), w.c[k])) = w.c[k]
      <4>1. cap(k) \in Nat /\ w.c[k] \in Nat /\ "#" \in Names BY <1>5, <1>9 DEF Names
      <4> HIDE DEF cap
      <4>2. QED BY <1>3, <4>1, BytesAre
    <3>2. QED BY <3>1
  <2>2. \A k \in 1 .. n : cs[k] = Wire!Number(m.no, cap(k), w.c[k]) BY <1>5, <1>9
  <2>3. cs \in [1 .. n -> Seq(Octets)] BY <1>5, <1>9, <2>1
  <2>4. \A s \in [1 .. n -> Seq(Octets)] : s \in Seq(Seq(Octets)) /\ Len(s) = n BY <1>5
  <2> HIDE DEF cs, cap
  <2>5. QED BY <2>1, <2>2, <2>3, <2>4
<1>13. \A k \in 1 .. n :
         /\ list(k) \in Seq(Octets) /\ Len(list(k)) = Size(m, k)
         /\ \A e \in 1 .. cap(k) :
              At(list(k), (e - 1) * d.l[k], Wire!Bytes(m.no, Wire!Entry(k), e, d.l[k]))
  <2>1. ASSUME NEW k \in 1 .. n
        PROVE  /\ list(k) \in Seq(Octets) /\ Len(list(k)) = Size(m, k)
               /\ \A e \in 1 .. cap(k) :
                    At(list(k), (e - 1) * d.l[k], Wire!Bytes(m.no, Wire!Entry(k), e, d.l[k]))
    <3>1. cap(k) \in Nat /\ d.l[k] \in Nat /\ Wire!Entry(k) \in Names
      BY <1>5, <1>9 DEF Names, Wire!Entry
    <3>2. Size(m, k) = cap(k) * d.l[k] BY <1>10
    <3> HIDE DEF cap
    <3>3. QED BY <1>3, <3>1, <3>2, ListIs
  <2>2. QED BY <2>1
<1> HIDE DEF list
<1>14. ls \in Seq(Seq(Octets)) /\ Len(ls) = n /\ \A k \in 1 .. n : ls[k] = list(k)
  <2>1. ls \in [1 .. n -> Seq(Octets)] BY <1>5, <1>13
  <2>2. \A s \in [1 .. n -> Seq(Octets)] : s \in Seq(Seq(Octets)) /\ Len(s) = n BY <1>5
  <2>3. \A k \in 1 .. n : ls[k] = list(k) BY <1>5
  <2> HIDE DEF ls
  <2>4. QED BY <2>1, <2>2, <2>3
<1> HIDE DEF cs, ls, F
<1>15. /\ C \in Seq(Octets) /\ Len(C) = CountWidth(w.c)
       /\ n >= 1 => At(C, 0, Wire!Number(m.no, cap(1), w.c[1]))
       /\ n = 2 => At(C, w.c[1], Wire!Number(m.no, cap(2), w.c[2]))
  <2>1. /\ C \in Seq(Octets)
        /\ n = 0 => Len(C) = 0
        /\ n = 1 => Len(C) = Len(cs[1]) /\ At(C, 0, cs[1])
        /\ n = 2 => Len(C) = Len(cs[1]) + Len(cs[2]) /\ At(C, 0, cs[1]) /\ At(C, Len(cs[1]), cs[2])
    <3>1. cs \in Seq(Seq(Octets)) /\ Len(cs) = n /\ Len(cs) <= 2 BY <1>5, <1>12
    <3>2. QED BY <3>1, FlattenTwo
  <2> HIDE DEF C, cap
  <2>2. CASE n = 0 BY <1>5, <2>1, <2>2 DEF CountWidth
  <2>3. CASE n = 1 BY <1>5, <1>12, <2>1, <2>3 DEF CountWidth
  <2>4. CASE n = 2 BY <1>5, <1>12, <2>1, <2>4 DEF CountWidth
  <2>5. QED BY <1>5, <2>2, <2>3, <2>4
<1>16. /\ L \in Seq(Octets)
       /\ Len(L) = IF n = 0 THEN 0 ELSE IF n = 1 THEN Size(m, 1) ELSE Size(m, 1) + Size(m, 2)
       /\ n >= 1 => At(L, 0, list(1))
       /\ n = 2 => At(L, Size(m, 1), list(2))
  <2>1. /\ L \in Seq(Octets)
        /\ n = 0 => Len(L) = 0
        /\ n = 1 => Len(L) = Len(ls[1]) /\ At(L, 0, ls[1])
        /\ n = 2 => Len(L) = Len(ls[1]) + Len(ls[2]) /\ At(L, 0, ls[1]) /\ At(L, Len(ls[1]), ls[2])
    <3>1. ls \in Seq(Seq(Octets)) /\ Len(ls) = n /\ Len(ls) <= 2 BY <1>5, <1>14
    <3>2. QED BY <3>1, FlattenTwo
  <2> HIDE DEF L
  <2>2. CASE n = 0 BY <2>1, <2>2
  <2>3. CASE n = 1 BY <1>13, <1>14, <2>1, <2>3
  <2>4. CASE n = 2 BY <1>13, <1>14, <2>1, <2>4
  <2>5. QED BY <1>5, <2>2, <2>3, <2>4
<1> HIDE DEF C, L
<1>17. end \in Nat /\ CountWidth(w.c) \in Nat BY <1>11, <1>15, AtTyped
<1>18. /\ F \o C \in Seq(Octets) /\ Len(F \o C) = end + CountWidth(w.c)
       /\ At(F \o C, 0, F) /\ At(F \o C, end, C)
  BY <1>11, <1>15, ConcatAt
<1> DEFINE b == F \o C \o L
<1>19. /\ b \in Seq(Octets) /\ Len(b) = end + CountWidth(w.c) + Len(L)
       /\ At(b, 0, F \o C) /\ At(b, end + CountWidth(w.c), L)
  BY <1>16, <1>18, ConcatAt
<1> HIDE DEF b
<1>20. At(b, 0, F) /\ At(b, end, C)
  <2>1. At(b, 0 + 0, F) BY <1>11, <1>18, <1>19, AtWithin
  <2>2. At(b, 0 + end, C) BY <1>15, <1>17, <1>18, <1>19, AtWithin
  <2>3. QED BY <1>17, <2>1, <2>2
<1>21. Len(b) = Whole(m) BY <1>8, <1>16, <1>19 DEF Whole, n, d
<1>22. ASSUME NEW x \in DOMAIN d.f PROVE At(b, r.f[x][1], Wire!Bytes(m.no, x, 0, d.f[x]))
  <2>1. x \in Names /\ r.f[x][1] \in Nat /\ d.f[x] \in Nat /\ 0 \in Nat BY <1>7, <1>11
  <2>2. Wire!Bytes(m.no, x, 0, d.f[x]) \in Seq(Octets) BY <1>3, <2>1, BytesAre
  <2>3. At(b, 0 + r.f[x][1], Wire!Bytes(m.no, x, 0, d.f[x]))
    BY <1>11, <1>19, <1>20, <2>1, <2>2, AtWithin
  <2>4. QED BY <2>1, <2>3
<1>23. ASSUME NEW k \in 1 .. n PROVE At(b, r.c[k][1], Wire!Number(m.no, cap(k), r.c[k][2]))
  <2>1. cap(k) \in Nat /\ w.c[k] \in Nat /\ "#" \in Names BY <1>5, <1>9 DEF Names
  <2> DEFINE s == Wire!Number(m.no, cap(k), w.c[k])
  <2>2. s \in Seq(Octets)
    <3> HIDE DEF cap
    <3>1. QED BY <1>3, <2>1, BytesAre
  <2>3. k = 1 \/ (k = 2 /\ n = 2) BY <1>5
  <2>4. CASE k = 1
    <3>1. At(C, 0, s) BY <1>5, <1>15, <2>4
    <3>2. At(b, end + 0, s) BY <1>15, <1>17, <1>19, <1>20, <2>2, <3>1, AtWithin
    <3>3. r.c[k][1] = end /\ r.c[k][2] = w.c[k] BY <1>5, <1>6, <2>4
    <3>4. QED BY <1>17, <3>2, <3>3
  <2>5. CASE k = 2 /\ n = 2
    <3>1. At(C, w.c[1], s) /\ w.c[1] \in Nat BY <1>5, <1>15, <2>5
    <3>2. At(b, end + w.c[1], s) BY <1>15, <1>17, <1>19, <1>20, <2>2, <3>1, AtWithin
    <3>3. r.c[k][1] = end + w.c[1] /\ r.c[k][2] = w.c[k] BY <1>6, <2>5
    <3>4. QED BY <3>2, <3>3
  <2>6. QED BY <2>3, <2>4, <2>5
<1>24. ASSUME NEW k \in 1 .. n, NEW e \in 1 .. cap(k)
       PROVE  At(b, Begins(m, k) + (e - 1) * d.l[k], Wire!Bytes(m.no, Wire!Entry(k), e, d.l[k]))
  <2> DEFINE s == Wire!Bytes(m.no, Wire!Entry(k), e, d.l[k])
  <2>1. cap(k) \in Nat /\ d.l[k] \in Nat /\ Wire!Entry(k) \in Names
    BY <1>5, <1>9 DEF Names, Wire!Entry
  <2>2. e \in Nat /\ (e - 1) * d.l[k] \in Nat
    <3> HIDE DEF cap
    <3>1. e \in Nat /\ e - 1 \in Nat BY <2>1
    <3>2. QED BY <2>1, <3>1
  <2>3. s \in Seq(Octets) BY <1>3, <2>1, <2>2, BytesAre
  <2>4. list(k) \in Seq(Octets) /\ At(list(k), (e - 1) * d.l[k], s) BY <1>13
  <2> DEFINE z == (e - 1) * d.l[k]   at == IF k = 1 THEN 0 ELSE Size(m, 1)
  <2>5. z \in Nat BY <2>2
  <2> HIDE DEF s, z, cap
  <2>6. At(list(k), z, s) BY <2>4 DEF s, z
  <2>7. k = 1 \/ (k = 2 /\ n = 2) BY <1>5
  <2>8. At(L, at, list(k)) /\ at \in Nat
    <3>1. CASE k = 1 BY <1>5, <1>16, <3>1
    <3>2. CASE k = 2 /\ n = 2
      <4>1. Size(m, 1) \in Nat BY <1>10, <3>2
      <4>2. QED BY <1>16, <3>2, <4>1
    <3>3. QED BY <2>7, <3>1, <3>2
  <2> HIDE DEF at
  <2>9. At(L, at + z, s) BY <1>16, <2>3, <2>4, <2>5, <2>6, <2>8, AtWithin
  <2>10. at + z \in Nat /\ end + CountWidth(w.c) \in Nat BY <1>17, <2>5, <2>8
  <2>11. At(b, (end + CountWidth(w.c)) + (at + z), s)
    BY <1>16, <1>19, <2>3, <2>9, <2>10, AtWithin
  <2>12. Begins(m, k) = end + CountWidth(w.c) + at BY <1>8 DEF Begins, at
  <2>13. (end + CountWidth(w.c)) + (at + z) = Begins(m, k) + z BY <1>17, <2>5, <2>8, <2>12
  <2>14. At(b, Begins(m, k) + z, s) BY <2>11, <2>13
  <2>15. QED BY <2>14 DEF s, z
<1>25. b = Wire!Body(m) BY <1>2 DEF b
<1>26. FieldsIn(m, b) BY <1>22 DEF FieldsIn, d, r
<1>27. ListsIn(m, b) BY <1>23, <1>24 DEF ListsIn, n, d, r
<1>28. QED BY <1>19, <1>21, <1>25, <1>26, <1>27

\* A Feedback is of one of three lengths, the fields of which are the first.
LEMMA FeedbackIs ==
  LET r == Wire!Reads(Wire!type_byte["Feedback"])
  IN /\ r.at = 25 /\ DOMAIN r.f = DOMAIN Wire!Msg["Feedback"].f
     /\ Len(Wire!Msg["Feedback"].l) = 0 /\ Base("Feedback") = 39
     /\ \A x \in DOMAIN r.f : /\ r.f[x][1] + r.f[x][2] <= 37 <=> x # "ok_base"
                              /\ r.f[x][1] + r.f[x][2] <= 25 <=> x \notin {"ok_base", "ok_mcs"}
<1> DEFINE f == <<"snr_db", "bler", "segs_ok", "segs_lost", "need_idr", "ok_mcs", "ok_base">>
           widths == [snr_db |-> 4, bler |-> 4, segs_ok |-> 8, segs_lost |-> 8, need_idr |-> 1,
                      ok_mcs |-> 12, ok_base |-> 2]
           places == [ok_mcs |-> <<25, 12>>, ok_base |-> <<37, 2>>, snr_db |-> <<0, 4>>,
                      bler |-> <<4, 4>>, segs_ok |-> <<8, 8>>, segs_lost |-> <<16, 8>>,
                      need_idr |-> <<24, 1>>]
<1>1. /\ Wire!Msg["Feedback"] = Wire!D(widths, <<>>) /\ Wire!type_byte["Feedback"] = 2
      /\ Wire!Writes("Feedback") = Wire!W(f, <<>>)
  BY DEF Wire!Msg, Wire!type_byte, Wire!Writes, Wire!WritesFirst, Wire!WritesThen
<1>2. Wire!Reads(2) = Wire!R("Feedback", places, <<>>, 25, <<>>, FALSE, 0)
  BY DEF Wire!Reads, Wire!Fixed
<1>3. Ends(f, widths, places) = 39 BY DEF Ends
<1>4. \A x \in DOMAIN places : /\ places[x][1] + places[x][2] <= 37 <=> x # "ok_base"
                               /\ places[x][1] + places[x][2] <= 25
                                    <=> x \notin {"ok_base", "ok_mcs"}
  OBVIOUS
<1>5. DOMAIN places = DOMAIN widths OBVIOUS
<1> HIDE DEF f, widths, places
<1>6. Wire!Msg["Feedback"].f = widths /\ Wire!Msg["Feedback"].l = <<>> BY <1>1 DEF Wire!D
<1>7. Wire!Writes("Feedback").f = f /\ Wire!Writes("Feedback").c = <<>> BY <1>1 DEF Wire!W
<1>8. Wire!Reads(2).f = places /\ Wire!Reads(2).at = 25 BY <1>2 DEF Wire!R
<1>9. CountWidth(<<>>) = 0 /\ Len(<<>>) = 0 BY DEF CountWidth
<1>10. Base("Feedback") = 39 BY <1>1, <1>3, <1>6, <1>7, <1>8, <1>9 DEF Base
<1>11. QED BY <1>1, <1>4, <1>5, <1>6, <1>8, <1>9, <1>10

\* What is in a part of the message when it is cut or goes on.
FieldsKept(m, b) ==
  LET d == Wire!Msg[m.kind]   r == Wire!Reads(Wire!type_byte[m.kind])
  IN \A x \in DOMAIN d.f :
       r.f[x][1] + r.f[x][2] <= Len(b) => At(b, r.f[x][1], Wire!Bytes(m.no, x, 0, d.f[x]))

\* The rows of a message's kind.
LEMMA RowIs ==
  ASSUME NEW m, Valid(m)
  PROVE  LET d == Wire!Msg[m.kind]   r == Wire!Reads(Wire!type_byte[m.kind])   n == Len(d.l)
         IN /\ r.kind = m.kind /\ m.kind # "none" /\ Wire!type_byte[m.kind] \in Nat
            /\ DOMAIN r.f = DOMAIN d.f /\ DOMAIN d.f \subseteq Names
            /\ \A x \in DOMAIN d.f : /\ r.f[x][1] \in Nat /\ d.f[x] \in Nat /\ r.f[x][2] = d.f[x]
            /\ n \in 0 .. 2 /\ DOMAIN r.c = 1 .. n /\ r.l = d.l /\ DOMAIN d.l = 1 .. n
            /\ \A k \in 1 .. n :
                 /\ r.c[k][1] \in Nat /\ r.c[k][2] \in Nat \ {0} /\ d.l[k] \in Nat \ {0}
                 /\ m.n[k] \in Nat /\ Wire!Cap(m.kind, m.n[k]) \in Nat /\ Size(m, k) \in Nat
            /\ Base(m.kind) \in Nat
            /\ m.kind # "Feedback" => r.at = Base(m.kind)
            /\ Bounded(m.kind, d.l, r.exact, r.most)
<1> DEFINE d == Wire!Msg[m.kind]   w == Wire!Writes(m.kind)
           r == Wire!Reads(Wire!type_byte[m.kind])   n == Len(d.l)
           end == Ends(w.f, d.f, r.f)
<1>1. Tabled(m.kind) BY Tables DEF Valid
<1>2. m.kind \in Wire!Kinds /\ m.n \in [1 .. n -> Nat] BY DEF Valid
<1>3. /\ Wire!type_byte[m.kind] \in Nat /\ r.kind = m.kind
      /\ Laid(w.f, d.f, r.f) /\ Counted(w.c, d.l, r.c, r.l, end)
      /\ m.kind # "Feedback" => r.at = end + CountWidth(w.c)
      /\ Bounded(m.kind, d.l, r.exact, r.most)
  BY <1>1 DEF Tabled
<1>4. m.kind # "none" BY <1>2 DEF Wire!Kinds, Wire!Msg
<1>5. DOMAIN d.f \subseteq Names BY <1>2 DEF Names
<1>6. Base(m.kind) = end + CountWidth(w.c) BY DEF Base
<1> HIDE DEF d, w, r, n, end
<1>7. /\ end \in Nat
      /\ \A x \in DOMAIN d.f : r.f[x][1] \in Nat /\ d.f[x] \in Nat /\ r.f[x][2] = d.f[x]
  <2> DEFINE f == w.f   widths == d.f   places == r.f
             F == Wire!FlattenSeq([i \in DOMAIN f |-> Wire!Bytes(0, f[i], 0, widths[f[i]])])
  <2>1. Laid(f, widths, places) /\ DOMAIN widths \subseteq Names BY <1>3, <1>5
  <2>2. end = Ends(f, widths, places) BY DEF end
  <2>3. 0 \in Nat OBVIOUS
  <2> HIDE DEF f, widths, places
  <2>4. /\ F \in Seq(Octets) /\ Len(F) = Ends(f, widths, places)
        /\ \A x \in DOMAIN widths :
             /\ places[x][1] \in Nat /\ widths[x] \in Nat /\ places[x][2] = widths[x]
             /\ At(F, places[x][1], Wire!Bytes(0, x, 0, widths[x]))
    BY <2>1, <2>3, FieldsAre
  <2> HIDE DEF F
  <2>5. Len(F) \in Nat BY <2>4
  <2>6. QED BY <2>2, <2>4, <2>5 DEF widths, places
<1>8. DOMAIN r.f = DOMAIN d.f BY <1>3 DEF Laid
<1>9. /\ n \in 0 .. 2 /\ Len(w.c) = n /\ DOMAIN r.c = 1 .. n /\ r.l = d.l /\ DOMAIN d.l = 1 .. n
      /\ \A k \in 1 .. n : w.c[k] \in Nat \ {0} /\ d.l[k] \in Nat \ {0}
      /\ n >= 1 => r.c[1] = <<end, w.c[1]>>
      /\ n = 2 => r.c[2] = <<end + w.c[1], w.c[2]>>
  BY <1>3 DEF Counted, n
<1>10. \A k \in 1 .. n : m.n[k] \in Nat /\ Wire!Cap(m.kind, m.n[k]) \in Nat BY <1>2, CapIs
<1>11. ASSUME NEW k \in 1 .. n
       PROVE r.c[k][1] \in Nat /\ r.c[k][2] \in Nat \ {0} /\ Size(m, k) \in Nat
  <2>1. k = 1 \/ (k = 2 /\ n = 2) BY <1>9
  <2>2. r.c[k][1] \in Nat /\ r.c[k][2] \in Nat \ {0}
    <3>1. CASE k = 1 BY <1>7, <1>9, <3>1
    <3>2. CASE k = 2 /\ n = 2 BY <1>7, <1>9, <3>2
    <3>3. QED BY <2>1, <3>1, <3>2
  <2>3. Size(m, k) = Wire!Cap(m.kind, m.n[k]) * d.l[k] BY DEF Size, d
  <2>4. d.l[k] \in Nat BY <1>9
  <2>5. QED BY <1>10, <2>2, <2>3, <2>4
<1>12. CountWidth(w.c) \in Nat
  <2>1. CASE n = 0 BY <1>9, <2>1 DEF CountWidth
  <2>2. CASE n = 1 BY <1>9, <2>2 DEF CountWidth
  <2>3. CASE n = 2 BY <1>9, <2>3 DEF CountWidth
  <2>4. QED BY <1>9, <2>1, <2>2, <2>3
<1>13. Base(m.kind) \in Nat BY <1>6, <1>7, <1>12
<1>14. m.kind # "Feedback" => r.at = Base(m.kind) BY <1>3, <1>6
<1>15. QED
  BY <1>3, <1>4, <1>5, <1>7, <1>8, <1>9, <1>10, <1>11, <1>13, <1>14 DEF d, r, n

LEMMA BeginsIs ==
  ASSUME NEW m, Valid(m), NEW k \in 1 .. Len(Wire!Msg[m.kind].l),
         NEW e \in 1 .. Wire!Cap(m.kind, m.n[k])
  PROVE  /\ Begins(m, k) \in Nat /\ e \in Nat /\ (e - 1) * Wire!Msg[m.kind].l[k] \in Nat
         /\ Begins(m, k) + (e - 1) * Wire!Msg[m.kind].l[k] \in Nat
         /\ (e - 1) * Wire!Msg[m.kind].l[k] + Wire!Msg[m.kind].l[k] = e * Wire!Msg[m.kind].l[k]
<1> DEFINE n == Len(Wire!Msg[m.kind].l)
<1>0. /\ n \in 0 .. 2 /\ Base(m.kind) \in Nat
      /\ \A j \in 1 .. n : /\ Wire!Msg[m.kind].l[j] \in Nat /\ Wire!Cap(m.kind, m.n[j]) \in Nat
                           /\ Size(m, j) \in Nat
  BY RowIs
<1>1. /\ k \in 1 .. 2 /\ 1 \in 1 .. n /\ Wire!Msg[m.kind].l[k] \in Nat
      /\ Wire!Cap(m.kind, m.n[k]) \in Nat /\ Base(m.kind) \in Nat
      /\ \A j \in 1 .. n : Size(m, j) \in Nat
  <2>1. k \in 1 .. n OBVIOUS
  <2> HIDE DEF n
  <2>2. QED BY <1>0, <2>1
<1>2. k # 1 => Size(m, 1) \in Nat BY <1>1
<1>3. Begins(m, k) \in Nat BY <1>1, <1>2 DEF Begins
<1>4. PICK c \in Nat : c = Wire!Cap(m.kind, m.n[k]) BY <1>1
<1>5. PICK w \in Nat : w = Wire!Msg[m.kind].l[k] BY <1>1
<1>6. e \in Nat /\ e - 1 \in Nat BY <1>4
<1>7. (e - 1) * w \in Nat /\ (e - 1) * w + w = e * w BY <1>6
<1>8. QED BY <1>3, <1>5, <1>6, <1>7

\* A message of any version is laid out so, and no shorter than what its version has.
LEMMA VersionIs ==
  ASSUME NEW m, Valid(m)
  PROVE  LET b == Wire!Version(m, Wire!Body(m))
         IN /\ b \in Seq(Octets) /\ FieldsKept(m, b) /\ ListsIn(m, b)
            /\ Len(b) = CASE m.by = "this" -> Whole(m)
                          [] m.by = "newer" -> Whole(m) + 1
                          [] m.by = "old" -> 37
                          [] m.by = "oldest" -> 25
            /\ m.by \in {"this", "newer"} => FieldsIn(m, b)
<1> DEFINE d == Wire!Msg[m.kind]   r == Wire!Reads(Wire!type_byte[m.kind])   n == Len(d.l)
           a == Wire!Body(m)
           b == Wire!Version(m, a)
<1>1. a \in Seq(Octets) /\ Len(a) = Whole(m) /\ FieldsIn(m, a) /\ ListsIn(m, a) BY BodyIs
<1>2. m.no \in Nat /\ m.by \in {"this", "newer", "old", "oldest"} BY DEF Valid
<1>3. \A x \in DOMAIN d.f : x \in Names /\ r.f[x][1] \in Nat /\ d.f[x] \in Nat /\ r.f[x][2] = d.f[x]
  BY RowIs
<1>4. \A x \in DOMAIN d.f : /\ Wire!Bytes(m.no, x, 0, d.f[x]) \in Seq(Octets)
                            /\ Len(Wire!Bytes(m.no, x, 0, d.f[x])) = d.f[x]
  <2>1. ASSUME NEW x \in DOMAIN d.f
        PROVE  /\ Wire!Bytes(m.no, x, 0, d.f[x]) \in Seq(Octets)
               /\ Len(Wire!Bytes(m.no, x, 0, d.f[x])) = d.f[x]
    <3>1. x \in Names /\ d.f[x] \in Nat /\ 0 \in Nat BY <1>3
    <3>2. QED BY <1>2, <3>1, BytesAre
  <2>2. QED BY <2>1
<1>5. FieldsIn(m, a) <=> \A x \in DOMAIN d.f : At(a, r.f[x][1], Wire!Bytes(m.no, x, 0, d.f[x]))
  BY DEF FieldsIn
<1>6. Len(a) \in Nat BY <1>1
<1>7. CASE m.by = "this"
  <2>1. b = a BY <1>7 DEF Wire!Version
  <2>2. FieldsKept(m, a) BY <1>1 DEF FieldsKept, FieldsIn
  <2>3. QED BY <1>1, <1>7, <2>1, <2>2
<1>8. CASE m.by = "newer"
  <2> DEFINE z == <<m.no, "new", 0, 1>>
  <2>1. b = Append(a, z) BY <1>8 DEF Wire!Version
  <2>2. z \in Octets
    <3>1. "new" \in Names /\ 0 \in Nat /\ 1 \in Nat BY DEF Names
    <3>2. QED BY <1>2, <3>1 DEF Octets
  <2> HIDE DEF a, b, z
  <2>3. b \in Seq(Octets) /\ Len(b) = Len(a) + 1 /\ \A i \in 1 .. Len(a) : b[i] = a[i]
    BY <1>1, <2>1, <2>2
  <2>4. At(b, 0, a) BY <1>6, <2>3 DEF At
  <2>5. \A s \in Seq(Octets), off \in Nat : At(a, off, s) => At(b, off, s)
    <3>1. ASSUME NEW s \in Seq(Octets), NEW off \in Nat, At(a, off, s) PROVE At(b, off, s)
      <4>1. At(b, 0 + off, s) BY <1>1, <2>3, <2>4, <3>1, AtWithin
      <4>2. QED BY <4>1
    <3>2. QED BY <3>1
  <2>6. \A x \in DOMAIN d.f : At(b, r.f[x][1], Wire!Bytes(m.no, x, 0, d.f[x]))
    BY <1>1, <1>3, <1>4, <1>5, <2>5
  <2>7. FieldsIn(m, b) /\ FieldsKept(m, b) BY <2>6 DEF FieldsIn, FieldsKept
  <2>8. ListsIn(m, b)
    <3>1. ASSUME NEW k \in 1 .. n
          PROVE  /\ At(b, r.c[k][1], Wire!Number(m.no, Wire!Cap(m.kind, m.n[k]), r.c[k][2]))
                 /\ \A e \in 1 .. Wire!Cap(m.kind, m.n[k]) :
                      At(b, Begins(m, k) + (e - 1) * d.l[k],
                        Wire!Bytes(m.no, Wire!Entry(k), e, d.l[k]))
      <4>1. /\ n \in 0 .. 2 /\ r.c[k][1] \in Nat /\ r.c[k][2] \in Nat /\ d.l[k] \in Nat
            /\ Wire!Cap(m.kind, m.n[k]) \in Nat
        BY RowIs
      <4>2. /\ At(a, r.c[k][1], Wire!Number(m.no, Wire!Cap(m.kind, m.n[k]), r.c[k][2]))
            /\ \A e \in 1 .. Wire!Cap(m.kind, m.n[k]) :
                 At(a, Begins(m, k) + (e - 1) * d.l[k], Wire!Bytes(m.no, Wire!Entry(k), e, d.l[k]))
        BY <1>1 DEF ListsIn
      <4>3. Wire!Number(m.no, Wire!Cap(m.kind, m.n[k]), r.c[k][2]) \in Seq(Octets)
        <5>1. "#" \in Names BY DEF Names
        <5>2. QED BY <1>2, <4>1, <5>1, BytesAre
      <4>4. ASSUME NEW e \in 1 .. Wire!Cap(m.kind, m.n[k])
            PROVE  At(b, Begins(m, k) + (e - 1) * d.l[k],
                     Wire!Bytes(m.no, Wire!Entry(k), e, d.l[k]))
        <5>1. e \in Nat /\ Wire!Entry(k) \in Names BY <4>1 DEF Wire!Entry, Names
        <5>2. Wire!Bytes(m.no, Wire!Entry(k), e, d.l[k]) \in Seq(Octets)
          BY <1>2, <4>1, <5>1, BytesAre
        <5>3. Begins(m, k) + (e - 1) * d.l[k] \in Nat BY BeginsIs
        <5>4. QED BY <2>5, <4>2, <5>2, <5>3
      <4>5. QED BY <2>5, <4>1, <4>2, <4>3, <4>4
    <3>2. QED BY <3>1 DEF ListsIn, n, d, r
  <2>9. QED BY <1>1, <1>8, <2>3, <2>7, <2>8 DEF a, b
<1>9. CASE m.by \in {"old", "oldest"}
  <2> DEFINE to == IF m.by = "old" THEN 37 ELSE 25
  <2>1. m.kind = "Feedback" BY <1>9 DEF Valid
  <2>2. Len(a) = 39 /\ n = 0 BY <1>1, <2>1, FeedbackIs DEF Whole
  <2>3. b = SubSeq(a, 0 + 1, to)
    <3>1. CASE m.by = "old" BY <3>1 DEF Wire!Version
    <3>2. CASE m.by = "oldest" BY <3>2 DEF Wire!Version
    <3>3. QED BY <1>9, <3>1, <3>2
  <2>4. to \in Nat /\ 0 <= to /\ to <= Len(a) /\ 0 \in Nat BY <2>2
  <2> HIDE DEF a, b, to
  <2>5. /\ b \in Seq(Octets) /\ Len(b) = to - 0
        /\ \A s \in Seq(Octets), off \in Nat :
             At(b, off, s) <=> off + Len(s) <= to - 0 /\ At(a, 0 + off, s)
    BY <1>1, <2>3, <2>4, PartOf
  <2>6. Len(b) = to BY <2>4, <2>5
  <2>7. ASSUME NEW x \in DOMAIN d.f, r.f[x][1] + r.f[x][2] <= Len(b)
        PROVE  At(b, r.f[x][1], Wire!Bytes(m.no, x, 0, d.f[x]))
    <3>1. At(a, r.f[x][1], Wire!Bytes(m.no, x, 0, d.f[x])) BY <1>1, <1>5
    <3>2. r.f[x][1] \in Nat /\ 0 + r.f[x][1] = r.f[x][1] /\ r.f[x][2] = d.f[x] BY <1>3
    <3>3. r.f[x][1] + Len(Wire!Bytes(m.no, x, 0, d.f[x])) <= to - 0 BY <1>4, <2>4, <2>6, <2>7, <3>2
    <3>4. QED BY <1>4, <2>5, <3>1, <3>2, <3>3
  <2>8. FieldsKept(m, b) BY <2>7 DEF FieldsKept
  <2>9. ListsIn(m, b) BY <2>2 DEF ListsIn
  <2>10. Len(b) = IF m.by = "old" THEN 37 ELSE 25 BY <2>6 DEF to
  <2>11. QED BY <1>9, <2>5, <2>8, <2>9, <2>10 DEF a, b
<1>10. QED BY <1>2, <1>7, <1>8, <1>9

\* A message is read in full, whatever version wrote it, unless it is one a reader refuses.
LEMMA DecodeIs ==
  ASSUME NEW m, Valid(m),
         NEW p, p = Wire!Number(m.no, Wire!type_byte[m.kind], 1) \o Wire!Version(m, Wire!Body(m))
  PROVE  \/ Wire!decode_msg(p) = Wire!InFull(m)
         \/ Wire!decode_msg(p) = Wire!Refused /\ Wire!Foreign(m)
<1> DEFINE d == Wire!Msg[m.kind]   r == Wire!Reads(Wire!type_byte[m.kind])   size == Len(d.l)
           b == Wire!Version(m, Wire!Body(m))   ty == Wire!type_byte[m.kind]
           cap(k) == Wire!Cap(m.kind, m.n[k])
           nn == [k \in DOMAIN r.c |-> Wire!Value(b, r.c[k][1], r.c[k][2])]
<1>1. /\ r.kind = m.kind /\ m.kind # "none" /\ ty \in Nat
      /\ DOMAIN r.f = DOMAIN d.f /\ DOMAIN d.f \subseteq Names
      /\ \A x \in DOMAIN d.f : /\ r.f[x][1] \in Nat /\ d.f[x] \in Nat /\ r.f[x][2] = d.f[x]
      /\ size \in 0 .. 2 /\ DOMAIN r.c = 1 .. size /\ r.l = d.l /\ DOMAIN d.l = 1 .. size
      /\ \A k \in 1 .. size :
           /\ r.c[k][1] \in Nat /\ r.c[k][2] \in Nat \ {0} /\ d.l[k] \in Nat \ {0}
           /\ m.n[k] \in Nat /\ cap(k) \in Nat /\ Size(m, k) \in Nat
      /\ Base(m.kind) \in Nat
      /\ m.kind # "Feedback" => r.at = Base(m.kind)
      /\ Bounded(m.kind, d.l, r.exact, r.most)
  BY RowIs
<1> HIDE DEF d, r, size, ty, cap, b, nn
<1>2. r.kind = m.kind /\ r.kind # "none" /\ ty \in Nat BY <1>1
<1>3. /\ DOMAIN r.f = DOMAIN d.f /\ DOMAIN d.f \subseteq Names
      /\ \A x \in DOMAIN d.f : /\ r.f[x][1] \in Nat /\ d.f[x] \in Nat /\ r.f[x][2] = d.f[x]
  BY <1>1
<1>4. size \in 0 .. 2 /\ DOMAIN r.c = 1 .. size /\ r.l = d.l /\ DOMAIN d.l = 1 .. size BY <1>1
<1>5. \A k \in 1 .. size :
        /\ r.c[k][1] \in Nat /\ r.c[k][2] \in Nat \ {0} /\ d.l[k] \in Nat \ {0}
        /\ m.n[k] \in Nat /\ cap(k) \in Nat /\ Size(m, k) \in Nat
  BY <1>1
<1>6. Base(m.kind) \in Nat BY <1>1
<1>7. m.kind # "Feedback" => r.at = Base(m.kind) BY <1>1
<1>8. Bounded(m.kind, d.l, r.exact, r.most) BY <1>1
<1>9. /\ b \in Seq(Octets) /\ FieldsKept(m, b) /\ ListsIn(m, b)
      /\ m.by \in {"this", "newer"} => FieldsIn(m, b)
      /\ m.by = "this" => Len(b) = Whole(m)
      /\ m.by = "newer" => Len(b) = Whole(m) + 1
      /\ m.by = "old" => Len(b) = 37
      /\ m.by = "oldest" => Len(b) = 25
  <2>1. LET c == Wire!Version(m, Wire!Body(m))
        IN /\ c \in Seq(Octets) /\ FieldsKept(m, c) /\ ListsIn(m, c)
           /\ Len(c) = CASE m.by = "this" -> Whole(m)
                         [] m.by = "newer" -> Whole(m) + 1
                         [] m.by = "old" -> 37
                         [] m.by = "oldest" -> 25
           /\ m.by \in {"this", "newer"} => FieldsIn(m, c)
    BY VersionIs
  <2> HIDE DEF b
  <2>2. Len(b) = CASE m.by = "this" -> Whole(m)
                   [] m.by = "newer" -> Whole(m) + 1
                   [] m.by = "old" -> 37
                   [] m.by = "oldest" -> 25
    BY <2>1 DEF b
  <2>3. m.by = "this" => Len(b) = Whole(m) BY <2>2
  <2>4. m.by = "newer" => Len(b) = Whole(m) + 1 BY <2>2
  <2>5. m.by = "old" => Len(b) = 37 BY <2>2
  <2>6. m.by = "oldest" => Len(b) = 25 BY <2>2
  <2>7. QED BY <2>1, <2>3, <2>4, <2>5, <2>6 DEF b
<1>10. /\ m.no \in Nat /\ m.by \in {"this", "newer", "old", "oldest"}
       /\ m.by \in {"old", "oldest"} => m.kind = "Feedback"
  BY DEF Valid
<1> DEFINE head == Wire!Number(m.no, ty, 1)
<1>11. head \in Seq(Octets) /\ Len(head) = 1
  <2>1. "#" \in Names /\ 1 \in Nat BY DEF Names
  <2>2. QED BY <1>2, <1>10, <2>1, BytesAre
<1>12. p = head \o b BY DEF head, b, ty
<1>13. /\ DOMAIN nn = 1 .. size /\ nn = [k \in 1 .. size |-> nn[k]]
       /\ \A k \in 1 .. size : nn[k] = cap(k)
  <2>1. ASSUME NEW k \in 1 .. size PROVE Wire!Value(b, r.c[k][1], r.c[k][2]) = cap(k)
    <3>1. At(b, r.c[k][1], Wire!Number(m.no, cap(k), r.c[k][2]))
      BY <1>9 DEF ListsIn, size, d, r, cap
    <3>2. r.c[k][1] \in Nat /\ r.c[k][2] \in Nat \ {0} /\ cap(k) \in Nat BY <1>5
    <3>3. QED BY <1>9, <1>10, <3>1, <3>2, ValueIs
  <2>2. QED BY <1>4, <2>1 DEF nn
<1>14. Wire!decode_msg(p) = Wire!Decoded(r, b, nn)
  <2> HIDE DEF head
  <2>1. /\ p \in Seq(Octets) /\ Len(p) = 1 + Len(b) /\ At(p, 0, head) /\ At(p, 1, b)
    <3>1. b \in Seq(Octets) BY <1>9
    <3>2. /\ head \o b \in Seq(Octets) /\ Len(head \o b) = Len(head) + Len(b)
          /\ At(head \o b, 0, head) /\ At(head \o b, Len(head), b)
      BY <1>11, <3>1, ConcatAt
    <3>3. QED BY <1>11, <1>12, <3>2
  <2>2. Wire!Value(p, 0, 1) = ty
    <3>1. 0 \in Nat /\ 1 \in Nat \ {0} OBVIOUS
    <3>2. At(p, 0, Wire!Number(m.no, ty, 1)) BY <2>1 DEF head
    <3>3. QED BY <1>2, <1>10, <2>1, <3>1, <3>2, ValueIs
  <2>3. Tail(p) = b
    <3>1. Len(b) \in Nat /\ p # <<>>
      <4>1. Len(b) \in Nat BY <1>9, AtTyped
      <4>2. Len(p) # 0 BY <2>1, <4>1
      <4>3. QED BY <4>1, <4>2
    <3>2. /\ Tail(p) \in Seq(Octets) /\ Len(Tail(p)) = Len(p) - 1
          /\ \A i \in 1 .. Len(Tail(p)) : Tail(p)[i] = p[i + 1]
      BY <2>1, <3>1, HeadTailProperties
    <3>3. Len(Tail(p)) = Len(b) BY <2>1, <3>1, <3>2
    <3>4. \A i \in 1 .. Len(b) : p[i + 1] = b[i]
      <4>1. \A i \in 1 .. Len(b) : p[1 + i] = b[i] BY <2>1 DEF At
      <4>2. \A i \in 1 .. Len(b) : 1 + i = i + 1 BY <3>1
      <4>3. QED BY <4>1, <4>2
    <3>5. \A i \in 1 .. Len(Tail(p)) : Tail(p)[i] = b[i] BY <3>2, <3>3, <3>4
    <3>6. QED BY <1>9, <3>2, <3>3, <3>5, SameSeq
  <2>4. QED BY <2>2, <2>3 DEF Wire!decode_msg, r, ty, nn
<1>15. Len(nn) = size /\ (nn = <<>> <=> size = 0)
  <2>1. nn \in [1 .. size -> Nat] BY <1>5, <1>13
  <2>2. size \in Nat BY <1>4
  <2>3. nn \in Seq(Nat) /\ Len(nn) = size BY <2>1, <2>2, TupleIs
  <2>4. QED BY <2>2, <2>3
<1> HIDE DEF head
<1>16. Len(b) \in Nat BY <1>9, AtTyped
<1>17. \A k \in 1 .. size : m.kind # "Feedback" /\ Wire!Start(r, nn, k) = Begins(m, k)
         /\ Begins(m, k) \in Nat
  <2>1. ASSUME NEW k \in 1 .. size
        PROVE  /\ m.kind # "Feedback" /\ Wire!Start(r, nn, k) = Begins(m, k)
               /\ Begins(m, k) \in Nat
    <3>1. m.kind # "Feedback"
      <4>1. m.kind = "Feedback" => size = 0 BY FeedbackIs DEF size, d
      <4>2. QED BY <1>4, <4>1
    <3>2. r.at = Base(m.kind) /\ 1 \in 1 .. size /\ k \in 1 .. 2 BY <1>4, <1>7, <3>1
    <3>3. nn[1] * r.l[1] = Size(m, 1)
      <4>1. Size(m, 1) = Wire!Cap(m.kind, m.n[1]) * d.l[1] BY DEF Size, d
      <4>2. nn[1] = cap(1) /\ r.l = d.l BY <1>4, <1>13, <3>2
      <4>3. QED BY <4>1, <4>2 DEF cap
    <3>4. Wire!Start(r, nn, k) = Base(m.kind) + (IF k = 1 THEN 0 ELSE Size(m, 1))
      BY <3>2, <3>3 DEF Wire!Start
    <3>5. Size(m, 1) \in Nat /\ Base(m.kind) \in Nat BY <1>5, <1>6, <3>2
    <3>6. QED BY <3>1, <3>4, <3>5 DEF Begins
  <2>2. QED BY <2>1
<1>18. m.kind # "Feedback" => Wire!Total(r, nn) = Whole(m)
  <2> SUFFICES ASSUME m.kind # "Feedback" PROVE Wire!Total(r, nn) = Whole(m) OBVIOUS
  <2>1. r.at = Base(m.kind) BY <1>7
  <2>2. \A k \in 1 .. size : nn[k] * r.l[k] = Size(m, k) BY <1>4, <1>13 DEF Size, cap, d
  <2>3. Whole(m) = Base(m.kind) + (IF size = 0 THEN 0 ELSE IF size = 1 THEN Size(m, 1)
                                   ELSE Size(m, 1) + Size(m, 2))
    BY DEF Whole, size, d
  <2>4. CASE size = 0 BY <1>6, <1>15, <2>1, <2>3, <2>4 DEF Wire!Total
  <2>5. CASE size = 1
    <3>1. 1 \in 1 .. size /\ Size(m, 1) \in Nat BY <1>5, <2>5
    <3>2. Begins(m, 1) = Base(m.kind) /\ Wire!Start(r, nn, 1) = Begins(m, 1)
      BY <1>6, <1>17, <3>1 DEF Begins
    <3>3. Wire!Total(r, nn) = Wire!Start(r, nn, 1) + Size(m, 1)
      BY <1>15, <2>2, <2>5, <3>1 DEF Wire!Total
    <3>4. QED BY <2>3, <2>5, <3>1, <3>2, <3>3
  <2>6. CASE size = 2
    <3>1. 1 \in 1 .. size /\ 2 \in 1 .. size /\ Size(m, 1) \in Nat /\ Size(m, 2) \in Nat
      BY <1>5, <2>6
    <3>2. Begins(m, 2) = Base(m.kind) + Size(m, 1) /\ Wire!Start(r, nn, 2) = Begins(m, 2)
      BY <1>17, <3>1 DEF Begins
    <3>3. Wire!Total(r, nn) = Wire!Start(r, nn, 2) + Size(m, 2)
      BY <1>15, <2>2, <2>6, <3>1 DEF Wire!Total
    <3>4. QED BY <1>6, <2>3, <2>6, <3>1, <3>2, <3>3
  <2>7. QED BY <1>4, <2>4, <2>5, <2>6
<1>19. Whole(m) \in Nat /\ Base(m.kind) <= Whole(m) /\ \A k \in 1 .. size : Size(m, k) <= Whole(m)
  <2>1. Whole(m) = Base(m.kind) + (IF size = 0 THEN 0 ELSE IF size = 1 THEN Size(m, 1)
                                   ELSE Size(m, 1) + Size(m, 2))
    BY DEF Whole, size, d
  <2>2. size = 0 \/ size = 1 \/ size = 2 BY <1>4
  <2>3. CASE size = 0 BY <1>6, <2>1, <2>3
  <2>4. CASE size = 1
    <3>1. Size(m, 1) \in Nat /\ \A k \in 1 .. size : k = 1 BY <1>5, <2>4
    <3>2. QED BY <1>6, <2>1, <2>4, <3>1
  <2>5. CASE size = 2
    <3>1. /\ Size(m, 1) \in Nat /\ Size(m, 2) \in Nat
          /\ \A k \in 1 .. size : k = 1 \/ k = 2
      BY <1>5, <2>5
    <3>2. QED BY <1>6, <2>1, <2>5, <3>1
  <2>6. QED BY <2>2, <2>3, <2>4, <2>5
<1>20. \A x \in DOMAIN d.f : /\ Wire!Bytes(m.no, x, 0, d.f[x]) \in Seq(Octets)
                             /\ Len(Wire!Bytes(m.no, x, 0, d.f[x])) = d.f[x]
  <2>1. ASSUME NEW x \in DOMAIN d.f
        PROVE  /\ Wire!Bytes(m.no, x, 0, d.f[x]) \in Seq(Octets)
               /\ Len(Wire!Bytes(m.no, x, 0, d.f[x])) = d.f[x]
    <3>1. x \in Names /\ d.f[x] \in Nat /\ 0 \in Nat BY <1>3
    <3>2. QED BY <1>10, <3>1, BytesAre
  <2>2. QED BY <2>1
<1>21. \A k \in 1 .. size, e \in Nat : /\ Wire!Bytes(m.no, Wire!Entry(k), e, d.l[k]) \in Seq(Octets)
                                       /\ Len(Wire!Bytes(m.no, Wire!Entry(k), e, d.l[k])) = d.l[k]
  <2>1. ASSUME NEW k \in 1 .. size, NEW e \in Nat
        PROVE  /\ Wire!Bytes(m.no, Wire!Entry(k), e, d.l[k]) \in Seq(Octets)
               /\ Len(Wire!Bytes(m.no, Wire!Entry(k), e, d.l[k])) = d.l[k]
    <3>1. Wire!Entry(k) \in Names BY DEF Wire!Entry, Names
    <3>2. d.l[k] \in Nat BY <1>5
    <3>3. QED BY <1>10, <3>1, <3>2, BytesAre
  <2>2. QED BY <2>1
<1> DEFINE refused == \/ Len(b) < r.at \/ ~Wire!Agrees(r, nn, Len(b))
                      \/ \E k \in DOMAIN nn : nn[k] > r.most
<1>22. ASSUME ~Wire!Foreign(m) PROVE ~refused
  <2>1. CASE m.kind = "Feedback"
    <3>1. r.at = 25 /\ size = 0 /\ Base("Feedback") = 39 BY <2>1, FeedbackIs DEF r, size, d
    <3>2. Whole(m) = 39 BY <2>1, <3>1 DEF Whole, size, d
    <3>3. m.by # "newer" BY <1>22, <2>1 DEF Wire!Foreign
    <3>4. Len(b) \in {25, 37, 39} BY <1>9, <1>10, <3>2, <3>3
    <3>5. Wire!FeedbackLen(Len(b)) BY <3>4 DEF Wire!FeedbackLen
    <3>6. r.kind = "Feedback" BY <1>2, <2>1
    <3>7. ~r.exact BY <1>8, <2>1 DEF Bounded, Exacts, Six
    <3>8. Wire!Agrees(r, nn, Len(b)) BY <3>5, <3>6, <3>7 DEF Wire!Agrees
    <3>9. ~(Len(b) < r.at)
      <4>1. r.at = 25 BY <3>1
      <4>2. Len(b) = 25 \/ Len(b) = 37 \/ Len(b) = 39 BY <3>4
      <4>3. ~(Len(b) < 25)
        <5>1. PICK x \in Nat : x = Len(b) BY <1>16
        <5>2. x = 25 \/ x = 37 \/ x = 39 BY <4>2, <5>1
        <5>3. ~(x < 25) BY <5>2
        <5>4. QED BY <5>1, <5>3
      <4>4. QED BY <4>1, <4>3
    <3>10. DOMAIN nn = {} BY <1>13, <3>1
    <3>11. QED BY <3>8, <3>9, <3>10
  <2>2. CASE m.kind # "Feedback"
    <3>1. m.by \in {"this", "newer"} BY <1>10, <2>2
    <3>2. Len(b) >= Whole(m) BY <1>9, <1>19, <3>1
    <3>3. ~(Len(b) < r.at) BY <1>6, <1>7, <1>16, <1>19, <2>2, <3>2
    <3>4. r.exact => Len(b) = Wire!Total(r, nn)
      <4> SUFFICES ASSUME r.exact PROVE Len(b) = Wire!Total(r, nn) OBVIOUS
      <4>1. m.kind \in Exacts BY <1>8 DEF Bounded
      <4>2. m.by # "newer" BY <1>22, <4>1 DEF Wire!Foreign, Exacts, Six
      <4>3. QED BY <1>9, <1>18, <2>2, <3>1, <4>2
    <3>5. Wire!Agrees(r, nn, Len(b))
      <4>1. r.kind # "Feedback" /\ Len(b) >= Wire!Total(r, nn) BY <1>2, <1>18, <2>2, <3>2
      <4>2. QED BY <3>4, <4>1 DEF Wire!Agrees
    <3>6. ASSUME NEW k \in 1 .. size PROVE ~(nn[k] > r.most)
      <4>1. /\ nn[k] = cap(k) /\ cap(k) \in Nat /\ m.n[k] \in Nat
            /\ cap(k) <= m.n[k]
            /\ m.kind = "UserText" => cap(k) <= TEXT_MAX
            /\ m.kind = "Tlm" => cap(k) <= TLM_MAX
        BY <1>5, <1>13, CapIs DEF cap
      <4>2. d.l # <<>>
        <5>1. size # 0 BY <1>4
        <5>2. d.l = <<>> => size = 0 BY DEF size
        <5>3. QED BY <5>1, <5>2
      <4>3. r.most = IF m.kind \in Six THEN LIMIT ELSE IF m.kind = "UserText" THEN TEXT_MAX
                     ELSE IF m.kind = "Tlm" THEN TLM_MAX ELSE Wire!Unlimited
        BY <1>8, <4>2 DEF Bounded
      <4>4. CASE m.kind \in Six
        <5>1. m.n[k] <= LIMIT
          <6>1. DOMAIN m.n = 1 .. size BY DEF Valid, size, d
          <6>2. ~(m.n[k] > LIMIT) BY <1>22, <4>4, <6>1 DEF Wire!Foreign, Six
          <6>3. QED BY <4>1, <6>2, WireSizes
        <5>2. r.most = LIMIT BY <4>3, <4>4
        <5>3. QED BY <4>1, <5>1, <5>2, WireSizes
      <4>5. CASE m.kind \in {"UserText", "Tlm"}
        <5>1. r.most = IF m.kind = "UserText" THEN TEXT_MAX ELSE TLM_MAX
          BY <4>3, <4>5 DEF Six
        <5>2. QED BY <4>1, <4>5, <5>1, WireSizes
      <4>6. CASE m.kind \notin Six \cup {"UserText", "Tlm"}
        <5>1. r.most = Wire!Unlimited BY <4>3, <4>6
        <5>2. Len(b) < MAX_BODY
          <6>1. ~(Len(b) >= MAX_BODY) BY <1>22 DEF Wire!Foreign, b
          <6>2. QED BY <1>16, <6>1, WireSizes
        <5>3. cap(k) <= Size(m, k)
          <6>1. Size(m, k) = cap(k) * d.l[k] /\ d.l[k] \in Nat \ {0} BY <1>5 DEF Size, cap, d
          <6>2. PICK x \in Nat : x = cap(k) BY <4>1
          <6>3. PICK y \in Nat \ {0} : y = d.l[k] BY <6>1
          <6>4. x <= x * y
            <7>1. PICK z \in Nat : y = z + 1
              <8>1. y - 1 \in Nat /\ y = (y - 1) + 1 BY <6>3
              <8>2. QED BY <8>1
            <7>2. x * y = x * z + x /\ x * z \in Nat BY <7>1
            <7>3. QED BY <7>2
          <6>5. QED BY <6>1, <6>2, <6>3, <6>4
        <5>4. Size(m, k) <= Whole(m) /\ Size(m, k) \in Nat BY <1>5, <1>19
        <5>5. MAX_BODY <= Wire!Unlimited BY WireSizes DEF Wire!Unlimited
        <5>6. QED BY <1>16, <1>19, <3>2, <4>1, <5>1, <5>2, <5>3, <5>4, <5>5, WireSizes
      <4>7. QED BY <4>4, <4>5, <4>6
    <3>7. QED BY <1>13, <3>3, <3>5, <3>6
  <2>3. QED BY <2>1, <2>2
<1>23. CASE refused
  <2>1. Wire!Decoded(r, b, nn) = Wire!Refused BY <1>23 DEF Wire!Decoded
  <2>2. QED BY <1>14, <1>22, <1>23, <2>1
<1>24. CASE ~refused
  <2> DEFINE old == IF m.by = "old" THEN {"ok_base"}
                    ELSE IF m.by = "oldest" THEN {"ok_base", "ok_mcs"} ELSE {}
             f == {<<name, SubSeq(b, r.f[name][1] + 1, r.f[name][1] + r.f[name][2])>> :
                     name \in {x \in DOMAIN r.f : r.f[x][1] + r.f[x][2] <= Len(b)}}
             l == [k \in DOMAIN nn |-> Wire!Lossy(r.kind, Wire!Entries(r, b, nn, k))]
             list(k) == [e \in 1 .. cap(k) |-> Wire!Bytes(m.no, Wire!Entry(k), e, d.l[k])]
             f0 == {<<name, Wire!Bytes(m.no, name, 0, d.f[name])>> : name \in DOMAIN d.f \ old}
             l0 == [k \in DOMAIN d.l |-> Wire!Lossy(m.kind, list(k))]
  <2>1. Wire!Decoded(r, b, nn) = [kind |-> r.kind, f |-> f, l |-> l]
    <3>1. r.kind # "none" BY <1>2
    <3>2. QED BY <1>24, <3>1 DEF Wire!Decoded
  <2>2. Wire!InFull(m) = [kind |-> m.kind, f |-> f0, l |-> l0] BY DEF Wire!InFull, cap, d
  <2>3. \A x \in DOMAIN d.f :
          /\ r.f[x][1] + r.f[x][2] <= Len(b) <=> x \notin old
          /\ r.f[x][1] + r.f[x][2] <= Len(b) => At(b, r.f[x][1], Wire!Bytes(m.no, x, 0, d.f[x]))
    <3>1. \A x \in DOMAIN d.f :
            r.f[x][1] + r.f[x][2] <= Len(b) => At(b, r.f[x][1], Wire!Bytes(m.no, x, 0, d.f[x]))
      BY <1>9 DEF FieldsKept, r, d
    <3>2. CASE m.by \in {"this", "newer"}
      <4>1. old = {} BY <3>2
      <4>2. ASSUME NEW x \in DOMAIN d.f PROVE r.f[x][1] + r.f[x][2] <= Len(b)
        <5>1. At(b, r.f[x][1], Wire!Bytes(m.no, x, 0, d.f[x])) BY <1>9, <3>2 DEF FieldsIn, r, d
        <5>2. Len(Wire!Bytes(m.no, x, 0, d.f[x])) = d.f[x] BY <1>20
        <5>3. r.f[x][2] = d.f[x] BY <1>3
        <5>5. QED BY <5>1, <5>2, <5>3 DEF At
      <4>3. QED BY <3>1, <4>1, <4>2
    <3>3. CASE m.by \in {"old", "oldest"}
      <4>1. m.kind = "Feedback" BY <1>10, <3>3
      <4>2. \A x \in DOMAIN d.f : /\ r.f[x][1] + r.f[x][2] <= 37 <=> x # "ok_base"
                                  /\ r.f[x][1] + r.f[x][2] <= 25 <=> x \notin {"ok_base", "ok_mcs"}
        BY <4>1, FeedbackIs DEF r, d
      <4>3. CASE m.by = "old"
        <5>1. Len(b) = 37 /\ old = {"ok_base"} BY <1>9, <4>3
        <5> HIDE DEF old
        <5>2. ASSUME NEW x \in DOMAIN d.f
              PROVE  r.f[x][1] + r.f[x][2] <= Len(b) <=> x \notin old
          <6>1. r.f[x][1] + r.f[x][2] <= 37 <=> x # "ok_base" BY <4>2
          <6>2. r.f[x][1] + r.f[x][2] <= Len(b) <=> r.f[x][1] + r.f[x][2] <= 37 BY <5>1
          <6>3. x \notin old <=> x # "ok_base" BY <5>1
          <6>4. QED BY <6>1, <6>2, <6>3
        <5>3. QED BY <3>1, <5>2
      <4>4. CASE m.by = "oldest"
        <5>1. Len(b) = 25 /\ old = {"ok_base", "ok_mcs"} BY <1>9, <4>4
        <5> HIDE DEF old
        <5>2. ASSUME NEW x \in DOMAIN d.f
              PROVE  r.f[x][1] + r.f[x][2] <= Len(b) <=> x \notin old
          <6>1. r.f[x][1] + r.f[x][2] <= 25 <=> x \notin {"ok_base", "ok_mcs"} BY <4>2
          <6>2. r.f[x][1] + r.f[x][2] <= Len(b) <=> r.f[x][1] + r.f[x][2] <= 25 BY <5>1
          <6>3. x \notin old <=> x \notin {"ok_base", "ok_mcs"} BY <5>1
          <6>4. QED BY <6>1, <6>2, <6>3
        <5>3. QED BY <3>1, <5>2
      <4>5. QED BY <3>3, <4>3, <4>4
    <3>4. QED BY <1>10, <3>2, <3>3
  <2>4. f = f0
    <3>1. {x \in DOMAIN r.f : r.f[x][1] + r.f[x][2] <= Len(b)} = DOMAIN d.f \ old
      <4>1. DOMAIN r.f = DOMAIN d.f BY <1>3
      <4> HIDE DEF old
      <4>2. QED BY <2>3, <4>1
    <3>2. ASSUME NEW x \in DOMAIN d.f \ old
          PROVE  SubSeq(b, r.f[x][1] + 1, r.f[x][1] + r.f[x][2]) = Wire!Bytes(m.no, x, 0, d.f[x])
      <4>1. At(b, r.f[x][1], Wire!Bytes(m.no, x, 0, d.f[x])) BY <2>3
      <4>2. x \in Names /\ r.f[x][1] \in Nat /\ d.f[x] \in Nat /\ r.f[x][2] = d.f[x] /\ 0 \in Nat
        BY <1>3
      <4> DEFINE s == Wire!Bytes(m.no, x, 0, d.f[x])   off == r.f[x][1]
      <4>3. s \in Seq(Octets) /\ Len(s) = d.f[x] BY <1>20
      <4> HIDE DEF s, off
      <4>4. At(b, off, s) /\ off \in Nat BY <4>1, <4>2 DEF s, off
      <4>5. SubSeq(b, off + 1, off + Len(s)) = s BY <1>9, <4>3, <4>4, CutOut
      <4>6. Len(s) = r.f[x][2] BY <4>2, <4>3
      <4>7. QED BY <4>5, <4>6 DEF s, off
    <3> DEFINE A == DOMAIN d.f \ old
    <3>3. f = {<<name, SubSeq(b, r.f[name][1] + 1, r.f[name][1] + r.f[name][2])>> : name \in A}
      BY <3>1
    <3>4. \A x \in A : <<x, SubSeq(b, r.f[x][1] + 1, r.f[x][1] + r.f[x][2])>>
                        = <<x, Wire!Bytes(m.no, x, 0, d.f[x])>>
      BY <3>2
    <3> HIDE DEF A
    <3>5. {<<name, SubSeq(b, r.f[name][1] + 1, r.f[name][1] + r.f[name][2])>> : name \in A}
          = {<<name, Wire!Bytes(m.no, name, 0, d.f[name])>> : name \in A}
      BY <3>4
    <3>6. QED BY <3>3, <3>5 DEF A
  <2>5. \A k \in 1 .. size : Wire!Entries(r, b, nn, k) = list(k)
    <3>1. ASSUME NEW k \in 1 .. size PROVE Wire!Entries(r, b, nn, k) = list(k)
      <4>1. nn[k] = cap(k) /\ Wire!Start(r, nn, k) = Begins(m, k) /\ r.l = d.l BY <1>4, <1>13, <1>17
      <4>2. Wire!Entries(r, b, nn, k)
            = [e \in 1 .. cap(k) |-> SubSeq(b, Begins(m, k) + (e - 1) * d.l[k] + 1,
                                           Begins(m, k) + e * d.l[k])]
        BY <4>1 DEF Wire!Entries
      <4>3. ASSUME NEW e \in 1 .. cap(k)
            PROVE  SubSeq(b, Begins(m, k) + (e - 1) * d.l[k] + 1, Begins(m, k) + e * d.l[k])
                   = Wire!Bytes(m.no, Wire!Entry(k), e, d.l[k])
        <5> DEFINE s == Wire!Bytes(m.no, Wire!Entry(k), e, d.l[k])
                   off == Begins(m, k) + (e - 1) * d.l[k]
        <5>1. At(b, off, s) BY <1>9 DEF ListsIn, cap, size, d, r
        <5>2. /\ Begins(m, k) \in Nat /\ e \in Nat /\ (e - 1) * d.l[k] \in Nat /\ off \in Nat
              /\ (e - 1) * d.l[k] + d.l[k] = e * d.l[k]
          BY BeginsIs DEF cap, size, d
        <5>3. d.l[k] \in Nat BY <1>5
        <5>4. s \in Seq(Octets) /\ Len(s) = d.l[k] BY <1>21, <5>2
        <5>5. off + d.l[k] = Begins(m, k) + e * d.l[k]
          <6>1. PICK x \in Nat : x = (e - 1) * d.l[k] BY <5>2
          <6>2. x + d.l[k] = e * d.l[k] BY <5>2, <6>1
          <6>3. QED BY <5>2, <5>3, <6>1, <6>2
        <5> HIDE DEF s, off
        <5>6. SubSeq(b, off + 1, off + Len(s)) = s BY <1>9, <5>1, <5>2, <5>4, CutOut
        <5>7. SubSeq(b, off + 1, Begins(m, k) + e * d.l[k]) = s BY <5>4, <5>5, <5>6
        <5>8. QED BY <5>7 DEF s, off
      <4>4. QED BY <4>2, <4>3
    <3>2. QED BY <3>1
  <2>6. l = l0
    <3>1. DOMAIN nn = 1 .. size /\ DOMAIN d.l = 1 .. size /\ r.kind = m.kind BY <1>2, <1>4, <1>13
    <3> HIDE DEF list
    <3>2. QED BY <2>5, <3>1
  <2> HIDE DEF f, f0, l, l0
  <2>7. Wire!Decoded(r, b, nn) = Wire!InFull(m) BY <1>2, <2>1, <2>2, <2>4, <2>6
  <2>8. QED BY <1>14, <2>7
<1>25. QED BY <1>23, <1>24

\* What a writer has in hand: a message of a known kind, or of one no reader knows.
Written(m) == m.no \in Nat /\ (Valid(m) \/ m.kind = "Stranger")

\* What it writes behind the length, and what becomes of it.
Behind(m, p) ==
  /\ p \in Seq(Octets) /\ Len(p) > 0
  /\ Wire!encode_msg(m) = Wire!Number(m.no, Len(p), 4) \o p
  /\ Len(p) > MAX_BODY => Wire!Foreign(m)
  /\ \/ Wire!decode_msg(p) = Wire!InFull(m) /\ m.kind # "Stranger" /\ Wire!InFull(m) # Wire!Refused
     \/ Wire!decode_msg(p) = Wire!Refused /\ Wire!Foreign(m)

LEMMA EncodeIs ==
  ASSUME NEW m, Written(m)
  PROVE  \E p : Behind(m, p)
<1> DEFINE a == Wire!Version(m, Wire!Body(m))
           body == IF m.kind = "Stranger" THEN <<>> ELSE a
           ty == IF m.kind = "Stranger" THEN 26 ELSE Wire!type_byte[m.kind]
           p == Wire!Number(m.no, ty, 1) \o body
<1>1. m.no \in Nat BY DEF Written
<1>2. ty \in Nat /\ body \in Seq(Octets)
  <2>1. CASE m.kind = "Stranger" BY <2>1
  <2>2. CASE m.kind # "Stranger"
    <3>1. Valid(m) BY <2>2 DEF Written
    <3>2. Wire!type_byte[m.kind] \in Nat BY <3>1, RowIs
    <3>3. a \in Seq(Octets) BY <3>1, VersionIs
    <3> HIDE DEF a
    <3>4. QED BY <2>2, <3>2, <3>3
  <2>3. QED BY <2>1, <2>2
<1>3. Wire!encode_msg(m) = Wire!Number(m.no, Len(body) + 1, 4) \o Wire!Number(m.no, ty, 1) \o body
  BY DEF Wire!encode_msg
<1> HIDE DEF ty, body
<1>4. Len(body) \in Nat BY <1>2, AtTyped
<1>5. /\ Wire!Number(m.no, ty, 1) \in Seq(Octets) /\ Len(Wire!Number(m.no, ty, 1)) = 1
      /\ Wire!Number(m.no, Len(body) + 1, 4) \in Seq(Octets)
  <2>1. "#" \in Names BY DEF Names
  <2>2. \A n, w \in Nat : Wire!Number(m.no, n, w) \in Seq(Octets)
          /\ Len(Wire!Number(m.no, n, w)) = w
    BY <1>1, <2>1, BytesAre
  <2>3. Len(body) + 1 \in Nat /\ 4 \in Nat /\ 1 \in Nat BY <1>4
  <2>4. QED BY <1>2, <2>2, <2>3
<1>6. p \in Seq(Octets) /\ Len(p) = 1 + Len(body)
  <2>1. Len(p) = Len(Wire!Number(m.no, ty, 1)) + Len(body) /\ p \in Seq(Octets)
    BY <1>2, <1>5, ConcatAt
  <2>2. QED BY <1>5, <2>1
<1>7. Wire!encode_msg(m) = Wire!Number(m.no, Len(p), 4) \o p
  <2>1. Len(p) = Len(body) + 1 BY <1>4, <1>6
  <2>2. Wire!Number(m.no, Len(body) + 1, 4) \o Wire!Number(m.no, ty, 1) \o body
        = Wire!Number(m.no, Len(body) + 1, 4) \o p
    BY <1>2, <1>5, ConcatAssociative
  <2>3. QED BY <1>3, <2>1, <2>2
<1>8. Len(p) > 0 BY <1>4, <1>6
<1>9. CASE m.kind = "Stranger"
  <2>1. ty = 26 /\ body = <<>> BY <1>9 DEF ty, body
  <2>2. Wire!Foreign(m) BY <1>9 DEF Wire!Foreign
  <2>3. Wire!decode_msg(p) = Wire!Refused
    <3>1. /\ At(p, 0, Wire!Number(m.no, 26, 1))
      BY <1>2, <1>5, <2>1, ConcatAt
    <3>2. Wire!Value(p, 0, 1) = 26
      <4>1. 26 \in Nat /\ 0 \in Nat /\ 1 \in Nat \ {0} OBVIOUS
      <4> HIDE DEF p
      <4>2. QED BY <1>1, <1>6, <3>1, <4>1, ValueIs
    <3>3. Wire!Reads(26).kind = "none"
      BY DEF Wire!Reads, Wire!ReadsListed, Wire!ReadsLong, Wire!Fixed, Wire!R
    <3> HIDE DEF p
    <3>4. QED BY <3>2, <3>3 DEF Wire!decode_msg, Wire!Decoded
  <2>4. QED BY <1>6, <1>7, <1>8, <2>2, <2>3 DEF Behind
<1>10. CASE m.kind # "Stranger"
  <2>1. Valid(m) BY <1>10 DEF Written
  <2>2. p = Wire!Number(m.no, Wire!type_byte[m.kind], 1) \o Wire!Version(m, Wire!Body(m))
    BY <1>10 DEF ty, body
  <2>3. \/ Wire!decode_msg(p) = Wire!InFull(m)
        \/ Wire!decode_msg(p) = Wire!Refused /\ Wire!Foreign(m)
    <3> HIDE DEF p
    <3>1. QED BY <2>1, <2>2, DecodeIs
  <2>4. Wire!InFull(m) # Wire!Refused
    <3>1. Wire!InFull(m).kind = m.kind BY DEF Wire!InFull
    <3>2. m.kind # "none" BY <2>1 DEF Valid, Wire!Kinds, Wire!Msg
    <3>3. Wire!Refused.kind = "none" BY DEF Wire!Refused
    <3>4. QED BY <3>1, <3>2, <3>3
  <2>5. Len(p) > MAX_BODY => Wire!Foreign(m)
    <3>1. body = a BY <1>10 DEF body
    <3>2. 1 + Len(body) > MAX_BODY => Len(body) >= MAX_BODY BY <1>4, WireSizes
    <3>3. QED BY <1>6, <3>1, <3>2 DEF Wire!Foreign
  <2> HIDE DEF p
  <2>6. QED BY <1>6, <1>7, <1>8, <1>10, <2>3, <2>4, <2>5 DEF Behind
<1>11. QED BY <1>9, <1>10

\* What is written, is a message of a version that writes its kind.
LEMMA MessagesAre ==
  ASSUME NEW no \in Nat, NEW kinds, kinds \subseteq Wire!Kinds \cup {"Stranger"},
         NEW m \in Wire!Messages(no, kinds)
  PROVE  Written(m) /\ m.no = no /\ m.kind \in kinds
<1>1. PICK k \in kinds :
        m \in [no : {no}, kind : {k}, by : Wire!Versions(k),
               n : [1 .. Wire!Lists(k) -> Wire!Lens(k)]]
  BY DEF Wire!Messages
<1>2. /\ m.no = no /\ m.kind = k /\ m.by \in Wire!Versions(k)
      /\ m.n \in [1 .. Wire!Lists(k) -> Wire!Lens(k)]
  BY <1>1
<1>3. CASE k = "Stranger" BY <1>2, <1>3 DEF Written
<1>4. CASE k # "Stranger"
  <2>1. k \in Wire!Kinds /\ Wire!Lists(k) = Len(Wire!Msg[k].l) BY <1>4 DEF Wire!Lists
  <2>2. Wire!Lens(k) \subseteq Nat
    <3>1. MAX_BODY \div 4 \in Nat BY WireSizes
    <3>2. /\ LIST_MAX \in Nat /\ LIMIT \in Nat /\ TEXT_MAX \in Nat /\ TEXT_MAX - 1 \in Nat
          /\ TLM_MAX \in Nat
      BY WireSizes
    <3>3. QED BY <3>1, <3>2 DEF Wire!Lens
  <2>3. /\ m.by \in {"this", "newer", "old", "oldest"}
        /\ m.by \in {"old", "oldest"} => k = "Feedback"
    BY <1>2, <1>4 DEF Wire!Versions
  <2>4. m.n \in [1 .. Len(Wire!Msg[k].l) -> Nat] BY <1>2, <2>1, <2>2
  <2>5. Valid(m) BY <1>2, <2>1, <2>3, <2>4 DEF Valid
  <2>6. QED BY <1>2, <2>5 DEF Written
<1>5. QED BY <1>3, <1>4

\* The messages of sent from the one after from on stand in full, one behind the other; left is
\* the first part of it, all of it while the connection is not cut.
Stands(full, P, sent, left, cut, from) ==
  /\ full \in Seq(Octets) /\ left \in Seq(Octets) /\ At(full, 0, left) /\ (~cut => left = full)
  /\ P[from] = 0 /\ P[Len(sent)] = Len(full)
  /\ \A i \in from + 1 .. Len(sent) :
       /\ P[i - 1] \in Nat /\ P[i] \in Nat /\ P[i] = P[i - 1] + Len(Wire!encode_msg(sent[i]))
       /\ At(full, P[i - 1], Wire!encode_msg(sent[i]))

Sent == UNION {Wire!Messages(no, Wire!Kinds \cup {"Stranger"}) : no \in Nat}

LEMMA SentIs == \A m \in Sent : Written(m) /\ Wire!encode_msg(m) \in Seq(Octets)
<1> SUFFICES ASSUME NEW m \in Sent PROVE Written(m) /\ Wire!encode_msg(m) \in Seq(Octets) OBVIOUS
<1>1. PICK no \in Nat : m \in Wire!Messages(no, Wire!Kinds \cup {"Stranger"}) BY DEF Sent
<1>2. Written(m)
  <2> DEFINE kinds == Wire!Kinds \cup {"Stranger"}
  <2>1. kinds \subseteq Wire!Kinds \cup {"Stranger"} /\ m \in Wire!Messages(no, kinds) BY <1>1
  <2> HIDE DEF kinds
  <2>2. QED BY <2>1, MessagesAre
<1>3. PICK p : Behind(m, p) BY <1>2, EncodeIs
<1>4. p \in Seq(Octets) /\ Wire!encode_msg(m) = Wire!Number(m.no, Len(p), 4) \o p BY <1>3 DEF Behind
<1>5. Wire!Number(m.no, Len(p), 4) \in Seq(Octets)
  <2>1. "#" \in Names /\ Len(p) \in Nat /\ 4 \in Nat BY <1>4, AtTyped DEF Names
  <2>2. m.no \in Nat BY <1>2 DEF Written
  <2>3. QED BY <2>1, <2>2, BytesAre
<1>6. QED BY <1>2, <1>4, <1>5, ConcatAt

\* A message is written behind the others (write_msg).
LEMMA StandsWrite ==
  ASSUME NEW full, NEW P, NEW sent \in Seq(Sent), NEW left, NEW from \in Nat, from <= Len(sent),
         Stands(full, P, sent, left, FALSE, from), NEW m \in Sent
  PROVE  \E f, Q : Stands(f, Q, Append(sent, m), left \o Wire!encode_msg(m), FALSE, from)
<1> DEFINE e == Wire!encode_msg(m)   f == full \o e   n == Len(sent)   more == Append(sent, m)
           Q == [i \in 0 .. n + 1 |-> IF i = n + 1 THEN Len(f) ELSE P[i]]
<1>1. n \in Nat /\ Len(more) = n + 1 /\ (\A i \in 1 .. n : more[i] = sent[i]) /\ more[n + 1] = m
  OBVIOUS
<1>2. e \in Seq(Octets) BY SentIs
<1>3. /\ full \in Seq(Octets) /\ left = full /\ P[from] = 0 /\ P[n] = Len(full)
      /\ \A i \in from + 1 .. n : /\ P[i - 1] \in Nat /\ P[i] \in Nat
                                  /\ P[i] = P[i - 1] + Len(Wire!encode_msg(sent[i]))
                                  /\ At(full, P[i - 1], Wire!encode_msg(sent[i]))
  BY DEF Stands
<1> HIDE DEF e, more
<1>4. /\ f \in Seq(Octets) /\ Len(f) = Len(full) + Len(e) /\ At(f, 0, full) /\ At(f, Len(full), e)
  BY <1>2, <1>3, ConcatAt
<1>5. Len(full) \in Nat /\ Len(e) \in Nat BY <1>2, <1>3, AtTyped
<1>6. Q[n + 1] = Len(f) /\ \A i \in 0 .. n : Q[i] = P[i] BY <1>1
<1> HIDE DEF f, n, Q
<1>7. ASSUME NEW i \in from + 1 .. n + 1
      PROVE  /\ Q[i - 1] \in Nat /\ Q[i] \in Nat /\ Q[i] = Q[i - 1] + Len(Wire!encode_msg(more[i]))
             /\ At(f, Q[i - 1], Wire!encode_msg(more[i]))
  <2>1. CASE i = n + 1
    <3>1. i - 1 = n /\ n \in 0 .. n BY <1>1, <2>1
    <3>2. Q[i - 1] = Len(full) /\ Q[i] = Len(full) + Len(e) BY <1>3, <1>4, <1>6, <2>1, <3>1
    <3>3. Wire!encode_msg(more[i]) = e BY <1>1, <2>1 DEF e
    <3>4. QED BY <1>4, <1>5, <3>2, <3>3
  <2>2. CASE i # n + 1
    <3>1. i \in from + 1 .. n /\ i \in 0 .. n /\ i - 1 \in 0 .. n /\ i \in 1 .. n BY <1>1, <2>2
    <3>2. Q[i] = P[i] /\ Q[i - 1] = P[i - 1] /\ more[i] = sent[i] BY <1>1, <1>6, <3>1
    <3>3. /\ P[i - 1] \in Nat /\ P[i] \in Nat /\ P[i] = P[i - 1] + Len(Wire!encode_msg(sent[i]))
          /\ At(full, P[i - 1], Wire!encode_msg(sent[i]))
      BY <1>3, <3>1
    <3> DEFINE s == Wire!encode_msg(sent[i])   z == P[i - 1]
    <3>4. s \in Seq(Octets)
      <4>1. sent[i] \in Sent BY <3>1 DEF n
      <4>2. QED BY <4>1, SentIs
    <3>5. z \in Nat /\ At(full, z, s) BY <3>3
    <3> HIDE DEF s, z
    <3>6. At(f, 0 + z, s)
      <4>1. 0 \in Nat OBVIOUS
      <4>2. QED BY <1>3, <1>4, <3>4, <3>5, <4>1, AtWithin
    <3>7. At(f, z, s) BY <3>5, <3>6
    <3>8. QED BY <3>2, <3>3, <3>7 DEF s, z
  <2>3. QED BY <2>1, <2>2
<1>8. Q[from] = 0 /\ Q[Len(more)] = Len(f)
  <2>1. from \in 0 .. n BY <1>1 DEF n
  <2>2. QED BY <1>1, <1>3, <1>6, <2>1
<1>9. At(f, 0, f) BY <1>4, AtTyped DEF At
<1>10. Stands(f, Q, more, f, FALSE, from) BY <1>1, <1>4, <1>7, <1>8, <1>9 DEF Stands
<1>11. left \o Wire!encode_msg(m) = f BY <1>3 DEF f, e
<1>12. QED BY <1>10, <1>11 DEF more

\* The connection breaks somewhere.
LEMMA StandsCut ==
  ASSUME NEW full, NEW P, NEW sent, NEW left, NEW cut, NEW from,
         Stands(full, P, sent, left, cut, from), NEW k \in 0 .. Len(left)
  PROVE  Stands(full, P, sent, SubSeq(left, 1, k), TRUE, from)
<1> DEFINE c == SubSeq(left, 1, k)
<1>1. full \in Seq(Octets) /\ left \in Seq(Octets) /\ At(full, 0, left) BY DEF Stands
<1>2. Len(left) \in Nat BY <1>1, AtTyped
<1>3. 0 \in Nat /\ k \in Nat /\ 0 <= k /\ k <= Len(left) /\ 0 + 1 = 1 BY <1>2
<1>4. c \in Seq(Octets) /\ At(left, 0, c)
  <2> DEFINE z == SubSeq(left, 0 + 1, k)
  <2>1. z \in Seq(Octets) /\ At(left, 0, z) BY <1>1, <1>3, PartOf
  <2>2. QED BY <2>1
<1> HIDE DEF c
<1>5. At(full, 0 + 0, c) BY <1>1, <1>3, <1>4, AtWithin
<1>6. At(full, 0, c) BY <1>5
<1>7. QED BY <1>4, <1>6 DEF Stands, c

\* What a reader finds at the beginning of what is left: the next message, as far as it is there.
LEMMA StandsFirst ==
  ASSUME NEW full, NEW P, NEW sent \in Seq(Sent), NEW left, NEW cut, NEW from \in Nat,
         from <= Len(sent), Stands(full, P, sent, left, cut, from), Len(left) >= 4
  PROVE  /\ from + 1 \in 1 .. Len(sent)
         /\ \A p : Behind(sent[from + 1], p) =>
              /\ Wire!Value(left, 0, 4) = Len(p) /\ Len(p) \in Nat
              /\ Len(left) >= 4 + Len(p) => SubSeq(left, 5, 4 + Len(p)) = p
<1>1. /\ full \in Seq(Octets) /\ left \in Seq(Octets) /\ At(full, 0, left)
      /\ P[from] = 0 /\ P[Len(sent)] = Len(full)
      /\ \A i \in from + 1 .. Len(sent) : At(full, P[i - 1], Wire!encode_msg(sent[i]))
  BY DEF Stands
<1>2. Len(sent) \in Nat /\ Len(left) \in Nat /\ Len(full) \in Nat BY <1>1, AtTyped
<1>3. from # Len(sent)
  <2>1. Len(left) <= Len(full) BY <1>1, <1>2 DEF At
  <2>2. QED BY <1>1, <1>2, <2>1
<1>4. from + 1 \in 1 .. Len(sent) /\ from + 1 \in from + 1 .. Len(sent) /\ (from + 1) - 1 = from
  BY <1>2, <1>3
<1> DEFINE m == sent[from + 1]
<1>5. ASSUME NEW p, Behind(m, p)
      PROVE  /\ Wire!Value(left, 0, 4) = Len(p) /\ Len(p) \in Nat
             /\ Len(left) >= 4 + Len(p) => SubSeq(left, 5, 4 + Len(p)) = p
  <2> DEFINE h == Wire!Number(m.no, Len(p), 4)
  <2>1. m \in Sent BY <1>4
  <2>2. p \in Seq(Octets) /\ Wire!encode_msg(m) = h \o p BY <1>5 DEF Behind
  <2>3. Len(p) \in Nat BY <2>2, AtTyped
  <2>4. m.no \in Nat BY <2>1, SentIs DEF Written
  <2> HIDE DEF m
  <2>5. h \in Seq(Octets) /\ Len(h) = 4
    <3>1. "#" \in Names /\ 4 \in Nat BY DEF Names
    <3>2. QED BY <2>3, <2>4, <3>1, BytesAre
  <2>6. At(full, 0, h \o p) BY <1>1, <1>4, <2>2 DEF m
  <2> HIDE DEF h
  <2>7. /\ h \o p \in Seq(Octets) /\ Len(h \o p) = 4 + Len(p) /\ At(h \o p, 0, h)
          /\ At(h \o p, 4, p)
    BY <2>2, <2>5, ConcatAt
  <2> DEFINE e == h \o p
  <2>8. e \in Seq(Octets) /\ Len(e) = 4 + Len(p) /\ At(e, 0, h) /\ At(e, 4, p) /\ At(full, 0, e)
    BY <2>6, <2>7
  <2> HIDE DEF e
  <2>9. \A i \in 1 .. Len(left) : full[i] = left[i]
    <3>1. \A i \in 1 .. Len(left) : full[0 + i] = left[i] BY <1>1 DEF At
    <3>2. \A i \in 1 .. Len(left) : 0 + i = i BY <1>2
    <3>3. QED BY <3>1, <3>2
  <2>10. \A i \in 1 .. Len(e) : full[i] = e[i]
    <3>1. \A i \in 1 .. Len(e) : full[0 + i] = e[i] BY <2>8 DEF At
    <3>2. \A i \in 1 .. Len(e) : 0 + i = i BY <2>3, <2>8
    <3>3. QED BY <3>1, <3>2
  <2>11. At(left, 0, h)
    <3>1. ASSUME NEW i \in 1 .. Len(h) PROVE left[0 + i] = h[i]
      <4>1. i \in 1 .. Len(left) /\ i \in 1 .. Len(e) /\ 0 + i = i BY <1>2, <2>3, <2>5, <2>8
      <4>2. e[0 + i] = h[i] BY <2>8 DEF At
      <4>3. QED BY <2>9, <2>10, <4>1, <4>2
    <3>2. 0 + Len(h) <= Len(left) BY <2>5
    <3>3. QED BY <3>1, <3>2 DEF At
  <2>12. Wire!Value(left, 0, 4) = Len(p)
    <3>1. 0 \in Nat /\ 4 \in Nat \ {0} OBVIOUS
    <3>2. QED BY <1>1, <2>3, <2>4, <2>11, <3>1, ValueIs DEF h
  <2>13. ASSUME Len(left) >= 4 + Len(p) PROVE SubSeq(left, 5, 4 + Len(p)) = p
    <3>1. At(left, 4, p)
      <4>1. ASSUME NEW i \in 1 .. Len(p) PROVE left[4 + i] = p[i]
        <5>1. 4 + i \in 1 .. Len(left) /\ 4 + i \in 1 .. Len(e) BY <1>2, <2>3, <2>8, <2>13
        <5>2. e[4 + i] = p[i] BY <2>8 DEF At
        <5>3. QED BY <2>9, <2>10, <5>1, <5>2
      <4>2. 4 + Len(p) <= Len(left) BY <2>13
      <4>3. QED BY <4>1, <4>2 DEF At
    <3>2. 4 \in Nat /\ 4 + 1 = 5 OBVIOUS
    <3>3. SubSeq(left, 4 + 1, 4 + Len(p)) = p BY <1>1, <2>2, <3>1, <3>2, CutOut
    <3>4. QED BY <3>2, <3>3
  <2>14. QED BY <2>3, <2>12, <2>13
<1>6. QED BY <1>4, <1>5 DEF m

\* It is taken out (read_msg).
LEMMA StandsRead ==
  ASSUME NEW full, NEW P, NEW sent \in Seq(Sent), NEW left, NEW cut, NEW from \in Nat,
         from + 1 \in 1 .. Len(sent), Stands(full, P, sent, left, cut, from),
         NEW p, Behind(sent[from + 1], p), Len(left) >= 4 + Len(p)
  PROVE  \E f, Q : Stands(f, Q, sent, SubSeq(left, 5 + Len(p), Len(left)), cut, from + 1)
<1> DEFINE n == Len(sent)   m == sent[from + 1]   c == 4 + Len(p)
           f == SubSeq(full, c + 1, Len(full))   rest == SubSeq(left, c + 1, Len(left))
           Q == [i \in 0 .. n |-> P[i] - c]
<1>1. /\ full \in Seq(Octets) /\ left \in Seq(Octets) /\ At(full, 0, left) /\ (~cut => left = full)
      /\ P[from] = 0 /\ P[n] = Len(full)
      /\ \A i \in from + 1 .. n : /\ P[i - 1] \in Nat /\ P[i] \in Nat
                                  /\ P[i] = P[i - 1] + Len(Wire!encode_msg(sent[i]))
                                  /\ At(full, P[i - 1], Wire!encode_msg(sent[i]))
  BY DEF Stands
<1>2. n \in Nat /\ Len(left) \in Nat /\ Len(full) \in Nat BY <1>1, AtTyped
<1>3. p \in Seq(Octets) /\ Wire!encode_msg(m) = Wire!Number(m.no, Len(p), 4) \o p BY DEF Behind
<1>4. Len(p) \in Nat /\ c \in Nat BY <1>3, AtTyped
<1>5. Len(Wire!encode_msg(m)) = c
  <2>1. m.no \in Nat /\ "#" \in Names /\ 4 \in Nat BY SentIs DEF Written, Names
  <2> HIDE DEF m, c
  <2>2. Wire!Number(m.no, Len(p), 4) \in Seq(Octets) /\ Len(Wire!Number(m.no, Len(p), 4)) = 4
    <3>1. PICK no \in Nat : no = m.no BY <2>1
    <3>2. PICK z \in Nat : z = Len(p) BY <1>4
    <3>3. "#" \in Names /\ 4 \in Nat BY DEF Names
    <3>4. Wire!Number(no, z, 4) \in Seq(Octets) /\ Len(Wire!Number(no, z, 4)) = 4 BY <3>3, BytesAre
    <3>5. QED BY <3>1, <3>2, <3>4
  <2>3. Len(Wire!encode_msg(m)) = Len(Wire!Number(m.no, Len(p), 4)) + Len(p) BY <1>3, <2>2, ConcatAt
  <2>4. QED BY <2>2, <2>3 DEF c
<1>6. P[from + 1] = c
  <2>1. from + 1 \in from + 1 .. n /\ (from + 1) - 1 = from BY <1>2
  <2>2. P[from + 1] = P[from] + Len(Wire!encode_msg(m)) BY <1>1, <2>1
  <2>3. QED BY <1>1, <1>4, <1>5, <2>2
<1>7. Len(left) <= Len(full) /\ c <= Len(left) /\ c <= Len(full)
  <2>1. Len(left) <= Len(full) BY <1>1, <1>2 DEF At
  <2>2. QED BY <1>2, <1>4, <2>1
<1> HIDE DEF m, c, n
<1>8. /\ f \in Seq(Octets) /\ Len(f) = Len(full) - c
      /\ \A s \in Seq(Octets), off \in Nat :
           At(f, off, s) <=> off + Len(s) <= Len(full) - c /\ At(full, c + off, s)
  <2> DEFINE to == Len(full)
  <2>1. full \in Seq(Octets) BY <1>1
  <2>2. to \in Nat /\ c <= to /\ to <= Len(full) BY <1>2, <1>7
  <2>3. f = SubSeq(full, c + 1, to) OBVIOUS
  <2> HIDE DEF f, to
  <2>4. /\ f \in Seq(Octets) /\ Len(f) = to - c
        /\ \A s \in Seq(Octets), off \in Nat :
             At(f, off, s) <=> off + Len(s) <= to - c /\ At(full, c + off, s)
    <3>1. PICK d \in Nat : d = c BY <1>4
    <3>2. d <= to /\ f = SubSeq(full, d + 1, to) BY <2>2, <2>3, <3>1
    <3>3. /\ f \in Seq(Octets) /\ Len(f) = to - d
          /\ \A s \in Seq(Octets), off \in Nat :
               At(f, off, s) <=> off + Len(s) <= to - d /\ At(full, d + off, s)
      BY <2>1, <2>2, <3>2, PartOf
    <3>4. QED BY <3>1, <3>3
  <2>5. QED BY <2>4 DEF to
<1>9. rest \in Seq(Octets) /\ Len(rest) = Len(left) - c /\ At(left, c, rest)
  <2>1. left \in Seq(Octets) BY <1>1
  <2>2. \A to \in Nat : c <= to /\ to <= Len(left) =>
          LET g == SubSeq(left, c + 1, to)
          IN g \in Seq(Octets) /\ Len(g) = to - c /\ At(left, c, g)
    BY <1>4, <2>1, PartOf
  <2> DEFINE to == Len(left)   g == SubSeq(left, c + 1, to)
  <2>3. to \in Nat /\ c <= to /\ to <= Len(left) BY <1>2, <1>7
  <2>4. g \in Seq(Octets) /\ Len(g) = to - c /\ At(left, c, g) BY <2>2, <2>3
  <2>5. QED BY <2>4
<1>10. ~cut => rest = f BY <1>1
<1>11. \A i \in from + 1 .. n : P[i] \in Nat /\ P[i] >= c
  <2> DEFINE Bad == {i \in from + 1 .. n : ~(P[i] \in Nat /\ P[i] >= c)}
  <2>1. Bad = {}
    <3> SUFFICES ASSUME Bad # {} PROVE FALSE OBVIOUS
    <3>1. Bad \in SUBSET Nat BY <1>2
    <3>2. PICK i \in Bad : \A y \in Bad : i <= y BY <3>1, Smallest
    <3>3. i \in from + 1 .. n /\ ~(P[i] \in Nat /\ P[i] >= c) OBVIOUS
    <3>4. P[i] \in Nat /\ P[i - 1] \in Nat /\ P[i] = P[i - 1] + Len(Wire!encode_msg(sent[i]))
      BY <1>1, <3>3
    <3>5. i # from + 1 BY <1>4, <1>6, <3>3
    <3>6. i - 1 \in from + 1 .. n /\ ~(i <= i - 1) BY <1>2, <3>3, <3>5
    <3>7. P[i - 1] >= c BY <3>2, <3>6
    <3>8. Len(Wire!encode_msg(sent[i])) \in Nat
      <4>1. i \in 1 .. Len(sent) BY <1>2, <3>3 DEF n
      <4>2. Wire!encode_msg(sent[i]) \in Seq(Octets) BY <4>1, SentIs
      <4>3. QED BY <4>2, AtTyped
    <3>9. QED BY <1>4, <3>3, <3>4, <3>7, <3>8
  <2>2. QED BY <2>1
<1>12. \A i \in from + 1 .. n : i \in 0 .. n /\ Q[i] = P[i] - c BY <1>2
<1>13. n \in from + 1 .. n /\ from + 1 \in from + 1 .. n BY <1>2 DEF n
<1>14. Q[from + 1] = 0 /\ Q[n] = Len(f)
  <2>1. Q[from + 1] = P[from + 1] - c /\ Q[n] = P[n] - c BY <1>12, <1>13
  <2>2. Len(f) = Len(full) - c BY <1>8
  <2>3. P[from + 1] - c = 0 BY <1>4, <1>6
  <2>4. P[n] = Len(full) BY <1>1
  <2>5. QED BY <2>1, <2>2, <2>3, <2>4
<1> HIDE DEF f, rest, Q
<1>15. ASSUME NEW i \in (from + 1) + 1 .. n
       PROVE  /\ Q[i - 1] \in Nat /\ Q[i] \in Nat /\ Q[i] = Q[i - 1] + Len(Wire!encode_msg(sent[i]))
              /\ At(f, Q[i - 1], Wire!encode_msg(sent[i]))
  <2>1. i \in from + 1 .. n /\ i - 1 \in from + 1 .. n BY <1>2
  <2>2. Q[i] = P[i] - c /\ Q[i - 1] = P[i - 1] - c BY <1>12, <2>1
  <2>3. /\ P[i - 1] \in Nat /\ P[i] \in Nat /\ P[i] = P[i - 1] + Len(Wire!encode_msg(sent[i]))
        /\ At(full, P[i - 1], Wire!encode_msg(sent[i]))
    BY <1>1, <2>1
  <2>4. P[i - 1] >= c /\ P[i] >= c BY <1>11, <2>1
  <2>5. Wire!encode_msg(sent[i]) \in Seq(Octets)
    <3>1. i \in 1 .. Len(sent) BY <1>2, <2>1 DEF n
    <3>2. QED BY <3>1, SentIs
  <2> DEFINE s == Wire!encode_msg(sent[i])
  <2>6. Len(s) \in Nat BY <2>5, AtTyped
  <2> HIDE DEF s
  <2>7. Q[i - 1] \in Nat /\ Q[i] \in Nat /\ Q[i] = Q[i - 1] + Len(s)
    <3>1. P[i] = P[i - 1] + Len(s) BY <2>3 DEF s
    <3>2. PICK x \in Nat : x = P[i - 1] BY <2>3
    <3>3. PICK y \in Nat : y = P[i] BY <2>3
    <3>4. PICK l \in Nat : l = Len(s) BY <2>6
    <3>5. y = x + l /\ x >= c /\ y >= c BY <2>4, <3>1, <3>2, <3>3, <3>4
    <3>6. x - c \in Nat /\ y - c \in Nat /\ y - c = (x - c) + l BY <1>4, <3>5
    <3>7. QED BY <2>2, <3>2, <3>3, <3>4, <3>6
  <2>8. c + Q[i - 1] = P[i - 1] BY <1>4, <2>2, <2>3
  <2>9. At(full, c + Q[i - 1], s) BY <2>3, <2>8 DEF s
  <2>10. Q[i - 1] + Len(s) <= Len(full) - c
    <3>1. P[i - 1] + Len(s) <= Len(full) BY <2>3 DEF At, s
    <3>2. PICK x \in Nat : x = P[i - 1] BY <2>3
    <3>3. PICK y \in Nat : y = Len(full) BY <1>2
    <3>4. PICK l \in Nat : l = Len(s) BY <2>6
    <3>5. x + l <= y BY <3>1, <3>2, <3>3, <3>4
    <3>6. (x - c) + l <= y - c BY <1>4, <3>5
    <3>7. QED BY <2>2, <3>2, <3>3, <3>4, <3>6
  <2>11. At(f, Q[i - 1], s)
    <3>1. s \in Seq(Octets) BY <2>5 DEF s
    <3>2. QED BY <1>8, <2>7, <2>9, <2>10, <3>1
  <2>12. QED BY <2>7, <2>11 DEF s
<1>16. At(f, 0, rest)
  <2>1. 0 \in Nat /\ 0 + c = c /\ c + 0 = c BY <1>4
  <2>2. At(full, 0 + c, rest) BY <1>1, <1>4, <1>9, <2>1, AtWithin
  <2>3. At(full, c + 0, rest) BY <2>1, <2>2
  <2>4. 0 + Len(rest) <= Len(full) - c BY <1>2, <1>4, <1>7, <1>9
  <2>5. QED BY <1>8, <1>9, <2>1, <2>3, <2>4
<1>17. Stands(f, Q, sent, rest, cut, from + 1)
  BY <1>8, <1>9, <1>10, <1>14, <1>15, <1>16 DEF Stands, n
<1>18. rest = SubSeq(left, 5 + Len(p), Len(left))
  <2>1. c + 1 = 5 + Len(p) BY <1>4 DEF c
  <2>2. QED BY <2>1 DEF rest
<1>19. QED BY <1>17, <1>18

\* What holds of the connection.
StreamInv ==
  /\ wrote \in Seq(Sent) /\ got \in Seq({Wire!InFull(m) : m \in Sent})
  /\ broken \in BOOLEAN /\ reader \in {"reads", "ended"}
  /\ Len(got) <= Len(wrote)
  /\ \A i \in 1 .. Len(got) : wrote[i].kind # "Stranger" /\ got[i] = Wire!InFull(wrote[i])
  /\ reader = "ended" =>
       broken \/ (Len(got) + 1 \in 1 .. Len(wrote) /\ Wire!Foreign(wrote[Len(got) + 1]))
  /\ reader = "reads" => \E full, P : Stands(full, P, wrote, wire, broken, Len(got))

LEMMA StreamInit == Wire!Init => StreamInv
<1> SUFFICES ASSUME Wire!Init PROVE StreamInv OBVIOUS
<1> DEFINE P == [i \in {0} |-> 0]
<1>1. wrote = <<>> /\ wire = <<>> /\ broken = FALSE /\ got = <<>> /\ reader = "reads"
  BY DEF Wire!Init
<1>2. Len(<<>>) = 0 /\ <<>> \in Seq(Octets) /\ P[0] = 0 /\ At(<<>>, 0, <<>>) BY DEF At
<1> HIDE DEF P
<1>3. Stands(<<>>, P, <<>>, <<>>, FALSE, 0) BY <1>2 DEF Stands
<1>4. wrote \in Seq(Sent) /\ got \in Seq({Wire!InFull(m) : m \in Sent}) BY <1>1, EmptySeq
<1>5. Len(got) = 0 /\ Len(wrote) = 0 /\ 1 .. Len(got) = {} BY <1>1, <1>2
<1>6. \E full, Q : Stands(full, Q, wrote, wire, broken, Len(got)) BY <1>1, <1>3, <1>5
<1>7. \A i \in 1 .. Len(got) : wrote[i].kind # "Stranger" /\ got[i] = Wire!InFull(wrote[i]) BY <1>5
<1>8. reader # "ended" /\ reader \in {"reads", "ended"} /\ broken \in BOOLEAN BY <1>1
<1>9. Len(got) <= Len(wrote) BY <1>5
<1>10. QED BY <1>4, <1>6, <1>7, <1>8, <1>9 DEF StreamInv

LEMMA StreamSame == StreamInv /\ UNCHANGED <<wrote, wire, broken, got, reader>> => StreamInv'
BY DEF StreamInv

LEMMA StreamStep == StreamInv /\ [Wire!Next]_(Wire!vars) => StreamInv'
<1> SUFFICES ASSUME StreamInv, [Wire!Next]_(Wire!vars) PROVE StreamInv' OBVIOUS
<1>1. /\ wrote \in Seq(Sent) /\ got \in Seq({Wire!InFull(m) : m \in Sent})
      /\ broken \in BOOLEAN /\ reader \in {"reads", "ended"} /\ Len(got) <= Len(wrote)
  BY DEF StreamInv
<1>2. Len(got) \in Nat /\ Len(wrote) \in Nat BY <1>1, AtTyped
<1>3. \A i \in 1 .. Len(got) : wrote[i].kind # "Stranger" /\ got[i] = Wire!InFull(wrote[i])
  BY DEF StreamInv
<1>4. reader = "ended" =>
        broken \/ (Len(got) + 1 \in 1 .. Len(wrote) /\ Wire!Foreign(wrote[Len(got) + 1]))
  BY DEF StreamInv
<1>5. reader = "reads" => \E full, P : Stands(full, P, wrote, wire, broken, Len(got))
  BY DEF StreamInv
<1>6. CASE Wire!Write
  <2>1. PICK m \in Wire!Messages(Len(wrote) + 1, IF wrote = <<>> THEN Wire!Kinds \cup {"Stranger"}
                                                 ELSE {"Ping", "Nack", "Tlm"}) :
          wrote' = Append(wrote, m) /\ wire' = wire \o Wire!encode_msg(m)
    BY <1>6 DEF Wire!Write
  <2>2. broken = FALSE /\ broken' = broken /\ got' = got /\ reader' = reader
    BY <1>1, <1>6 DEF Wire!Write
  <2>3. m \in Sent
    <3> DEFINE kinds == IF wrote = <<>> THEN Wire!Kinds \cup {"Stranger"}
                        ELSE {"Ping", "Nack", "Tlm"}
    <3>1. \A k \in kinds : k \in Wire!Kinds \cup {"Stranger"} BY DEF Wire!Kinds, Wire!Msg
    <3>2. Len(wrote) + 1 \in Nat BY <1>2
    <3>3. m \in Wire!Messages(Len(wrote) + 1, kinds) BY <2>1
    <3> HIDE DEF kinds
    <3>4. m \in Wire!Messages(Len(wrote) + 1, Wire!Kinds \cup {"Stranger"})
      BY <3>1, <3>3 DEF Wire!Messages
    <3>5. QED BY <3>2, <3>4 DEF Sent
  <2>4. /\ wrote' \in Seq(Sent) /\ Len(wrote') = Len(wrote) + 1
        /\ \A i \in 1 .. Len(wrote) : wrote'[i] = wrote[i]
    BY <1>1, <2>1, <2>3
  <2>5. reader = "reads" => \E full, P : Stands(full, P, wrote', wire', FALSE, Len(got))
    <3> SUFFICES ASSUME reader = "reads"
                 PROVE  \E full, P : Stands(full, P, wrote', wire', FALSE, Len(got))
      OBVIOUS
    <3>1. PICK full, P : Stands(full, P, wrote, wire, FALSE, Len(got)) BY <1>5, <2>2
    <3>2. \E f, Q : Stands(f, Q, Append(wrote, m), wire \o Wire!encode_msg(m), FALSE, Len(got))
      BY <1>1, <1>2, <2>3, <3>1, StandsWrite
    <3>3. QED BY <2>1, <3>2
  <2>6. \A i \in 1 .. Len(got) : i \in 1 .. Len(wrote) BY <1>1, <1>2
  <2>7. Len(got) <= Len(wrote') BY <1>1, <1>2, <2>4
  <2>8. \A i \in 1 .. Len(got) : wrote'[i].kind # "Stranger" /\ got[i] = Wire!InFull(wrote'[i])
    BY <1>3, <2>4, <2>6
  <2>9. reader = "ended" => Len(got) + 1 \in 1 .. Len(wrote') /\ Wire!Foreign(wrote'[Len(got) + 1])
    BY <1>2, <1>4, <2>2, <2>4
  <2>10. QED BY <1>1, <2>2, <2>4, <2>5, <2>7, <2>8, <2>9 DEF StreamInv
<1>7. CASE Wire!Break
  <2>1. /\ broken' = TRUE /\ wrote' = wrote /\ got' = got /\ reader' = reader
        /\ \E k \in 0 .. Len(wire) : wire' = SubSeq(wire, 1, k)
    BY <1>7 DEF Wire!Break
  <2>2. reader = "reads" => \E full, P : Stands(full, P, wrote, wire', TRUE, Len(got))
    <3> SUFFICES ASSUME reader = "reads"
                 PROVE  \E full, P : Stands(full, P, wrote, wire', TRUE, Len(got))
      OBVIOUS
    <3>1. PICK full, P : Stands(full, P, wrote, wire, broken, Len(got)) BY <1>5
    <3>2. PICK k \in 0 .. Len(wire) : wire' = SubSeq(wire, 1, k) BY <2>1
    <3>3. Stands(full, P, wrote, SubSeq(wire, 1, k), TRUE, Len(got)) BY <3>1, StandsCut
    <3>4. QED BY <3>2, <3>3
  <2>3. QED BY <1>1, <1>3, <1>4, <2>1, <2>2 DEF StreamInv
<1>8. ASSUME reader = "reads", Wire!HasLength
      PROVE  \E full, P, p :
               /\ Stands(full, P, wrote, wire, broken, Len(got))
               /\ Len(got) + 1 \in 1 .. Len(wrote) /\ Behind(wrote[Len(got) + 1], p)
               /\ Wire!BodyLen = Len(p) /\ Len(p) \in Nat
               /\ Len(wire) >= 4 + Len(p) => SubSeq(wire, 5, 4 + Len(p)) = p
  <2>1. PICK full, P : Stands(full, P, wrote, wire, broken, Len(got)) BY <1>5, <1>8
  <2>2. Len(wire) >= 4 BY <1>8 DEF Wire!HasLength
  <2>3. /\ Len(got) + 1 \in 1 .. Len(wrote)
        /\ \A p : Behind(wrote[Len(got) + 1], p) =>
             /\ Wire!Value(wire, 0, 4) = Len(p) /\ Len(p) \in Nat
             /\ Len(wire) >= 4 + Len(p) => SubSeq(wire, 5, 4 + Len(p)) = p
    BY <1>1, <1>2, <2>1, <2>2, StandsFirst
  <2>4. wrote[Len(got) + 1] \in Sent BY <1>1, <2>3
  <2>5. PICK p : Behind(wrote[Len(got) + 1], p) BY <2>4, SentIs, EncodeIs
  <2>6. QED BY <2>1, <2>3, <2>5 DEF Wire!BodyLen
<1>9. CASE Wire!Read
  <2>1. /\ reader = "reads" /\ Wire!HasLength /\ Len(wire) >= 4 + Wire!BodyLen /\ ~Wire!BadLength
        /\ wire' = SubSeq(wire, 5 + Wire!BodyLen, Len(wire))
        /\ wrote' = wrote /\ broken' = broken
        /\ IF Wire!decode_msg(SubSeq(wire, 5, 4 + Wire!BodyLen)) = Wire!Refused
           THEN reader' = "ended" /\ got' = got
           ELSE /\ got' = Append(got, Wire!decode_msg(SubSeq(wire, 5, 4 + Wire!BodyLen)))
                /\ reader' = reader
    BY <1>9 DEF Wire!Read, Wire!HasBody
  <2>2. PICK full, P, p :
          /\ Stands(full, P, wrote, wire, broken, Len(got))
          /\ Len(got) + 1 \in 1 .. Len(wrote) /\ Behind(wrote[Len(got) + 1], p)
          /\ Wire!BodyLen = Len(p) /\ Len(p) \in Nat
          /\ Len(wire) >= 4 + Len(p) => SubSeq(wire, 5, 4 + Len(p)) = p
    BY <1>8, <2>1
  <2> DEFINE m == wrote[Len(got) + 1]
  <2>3. SubSeq(wire, 5, 4 + Wire!BodyLen) = p BY <2>1, <2>2
  <2>4. m \in Sent BY <1>1, <2>2
  <2>5. CASE Wire!decode_msg(p) = Wire!Refused
    <3>1. reader' = "ended" /\ got' = got BY <2>1, <2>3, <2>5
    <3>2. Wire!Foreign(m) BY <2>2, <2>5 DEF Behind
    <3>3. QED BY <1>1, <1>3, <2>1, <2>2, <3>1, <3>2 DEF StreamInv
  <2>6. CASE Wire!decode_msg(p) # Wire!Refused
    <3>1. Wire!decode_msg(p) = Wire!InFull(m) /\ m.kind # "Stranger" BY <2>2, <2>6 DEF Behind
    <3>2. got' = Append(got, Wire!InFull(m)) /\ reader' = reader BY <2>1, <2>3, <2>6, <3>1
    <3>3. Wire!InFull(m) \in {Wire!InFull(x) : x \in Sent} BY <2>4
    <3> DEFINE S == {Wire!InFull(x) : x \in Sent}   a == Wire!InFull(m)
    <3>4. got \in Seq(S) /\ a \in S /\ got' = Append(got, a) BY <1>1, <3>2, <3>3
    <3> HIDE DEF S, a
    <3>5. /\ got' \in Seq(S) /\ Len(got') = Len(got) + 1 /\ got'[Len(got) + 1] = a
          /\ \A i \in 1 .. Len(got) : got'[i] = got[i]
      BY <3>4
    <3>6. ASSUME NEW i \in 1 .. Len(got')
          PROVE  wrote[i].kind # "Stranger" /\ got'[i] = Wire!InFull(wrote[i])
      <4>1. i \in 1 .. Len(got) \/ i = Len(got) + 1 BY <1>2, <3>5
      <4>2. CASE i \in 1 .. Len(got) BY <1>3, <3>5, <4>2
      <4>3. CASE i = Len(got) + 1 BY <3>1, <3>5, <4>3 DEF a
      <4>4. QED BY <4>1, <4>2, <4>3
    <3>7. \E f, Q : Stands(f, Q, wrote, wire', broken, Len(got'))
      <4>1. Len(wire) >= 4 + Len(p) /\ wire' = SubSeq(wire, 5 + Len(p), Len(wire)) BY <2>1, <2>2
      <4>2. \E f, Q : Stands(f, Q, wrote, SubSeq(wire, 5 + Len(p), Len(wire)), broken, Len(got) + 1)
        BY <1>1, <1>2, <2>2, <4>1, StandsRead
      <4>3. QED BY <3>5, <4>1, <4>2
    <3>8. Len(got') <= Len(wrote) BY <1>2, <2>2, <3>5
    <3>9. got' \in Seq({Wire!InFull(x) : x \in Sent}) BY <3>5 DEF S
    <3>10. QED BY <1>1, <2>1, <3>2, <3>6, <3>7, <3>8, <3>9 DEF StreamInv
  <2>7. QED BY <2>5, <2>6
<1>10. CASE Wire!ReadFails
  <2>1. /\ reader = "reads" /\ reader' = "ended" /\ wrote' = wrote /\ wire' = wire
        /\ broken' = broken /\ got' = got
        /\ broken \/ (Wire!HasLength /\ Wire!BadLength)
    BY <1>10 DEF Wire!ReadFails
  <2>2. broken \/ (Len(got) + 1 \in 1 .. Len(wrote) /\ Wire!Foreign(wrote[Len(got) + 1]))
    <3>1. CASE broken BY <3>1
    <3>2. CASE Wire!HasLength /\ Wire!BadLength
      <4>1. PICK p : /\ Len(got) + 1 \in 1 .. Len(wrote) /\ Behind(wrote[Len(got) + 1], p)
                     /\ Wire!BodyLen = Len(p) /\ Len(p) \in Nat
        BY <1>8, <2>1, <3>2
      <4>2. Len(p) > 0 /\ (Len(p) > MAX_BODY => Wire!Foreign(wrote[Len(got) + 1]))
        BY <4>1 DEF Behind
      <4>3. Len(p) = 0 \/ Len(p) > MAX_BODY BY <3>2, <4>1 DEF Wire!BadLength
      <4>4. QED BY <4>1, <4>2, <4>3
    <3>3. QED BY <2>1, <3>1, <3>2
  <2>3. QED BY <1>1, <1>3, <2>1, <2>2 DEF StreamInv
<1>11. CASE Wire!Control \/ UNCHANGED Wire!vars
  <2>1. UNCHANGED <<wrote, wire, broken, got, reader>> BY <1>11 DEF Wire!Control, Wire!vars
  <2>2. QED BY <2>1, StreamSame
<1>12. QED BY <1>6, <1>7, <1>9, <1>10, <1>11 DEF Wire!Next

LEMMA StreamThen == StreamInv => Wire!ReadAsWritten /\ Wire!LeavesForForeign
<1> SUFFICES ASSUME StreamInv PROVE Wire!ReadAsWritten /\ Wire!LeavesForForeign OBVIOUS
<1>1. Len(got) \in Nat /\ Len(wrote) \in Nat /\ DOMAIN got = 1 .. Len(got)
  BY AtTyped DEF StreamInv
<1>2. Wire!ReadAsWritten BY <1>1 DEF StreamInv, Wire!ReadAsWritten
<1>3. Wire!LeavesForForeign BY <1>1 DEF StreamInv, Wire!LeavesForForeign
<1>4. QED BY <1>2, <1>3

\* What goes into a control payload is never more than a reader takes.
Taken == {"Feedback", "UserText", "Nack", "Tlm", "HopCmd"}

LEMMA TakenIs ==
  ASSUME NEW no \in Nat, NEW m \in Wire!Messages(no, Taken), m.by = "this"
  PROVE  m \in Sent /\ ~Wire!Foreign(m)
<1>1. Taken \subseteq Wire!Kinds \cup {"Stranger"} BY DEF Taken, Wire!Kinds, Wire!Msg
<1>2. m \in Wire!Messages(no, Wire!Kinds \cup {"Stranger"}) BY <1>1 DEF Wire!Messages
<1>3. m \in Sent BY <1>2 DEF Sent
<1>4. Written(m) /\ m.kind \in Taken
  <2> DEFINE kinds == Taken
  <2>1. kinds \subseteq Wire!Kinds \cup {"Stranger"} /\ m \in Wire!Messages(no, kinds) BY <1>1
  <2> HIDE DEF kinds
  <2>2. Written(m) /\ m.kind \in kinds BY <2>1, MessagesAre
  <2>3. QED BY <2>2 DEF kinds
<1>5. Valid(m) BY <1>4 DEF Written, Taken
<1> DEFINE b == Wire!Version(m, Wire!Body(m))   r == Wire!Reads(Wire!type_byte[m.kind])
           l == Wire!Msg[m.kind].l
<1>6. Len(b) = Whole(m)
  <2>1. Len(b) = CASE m.by = "this" -> Whole(m)
                   [] m.by = "newer" -> Whole(m) + 1
                   [] m.by = "old" -> 37
                   [] m.by = "oldest" -> 25
    BY <1>5, VersionIs
  <2> HIDE DEF b
  <2>2. QED BY <2>1
<1>7. /\ m.kind # "Feedback" => r.at = Base(m.kind)
      /\ Len(l) \in 0 .. 2
      /\ \A k \in 1 .. Len(l) : m.n[k] \in Nat
  BY <1>5, RowIs
<1>8. Whole(m) < MAX_BODY
  <2>1. CASE m.kind = "Feedback"
    <3>1. Base(m.kind) = 39 /\ Len(l) = 0 BY <2>1, FeedbackIs
    <3>2. QED BY <3>1, WireSizes DEF Whole
  <2>2. CASE m.kind \in {"Nack", "HopCmd"}
    <3>1. Len(l) = 0 BY <2>2 DEF Wire!Msg, Wire!D
    <3>2. r.at \in {8, 15}
      <4>1. CASE m.kind = "Nack" BY <4>1 DEF Wire!type_byte, Wire!Reads, Wire!R
      <4>2. CASE m.kind = "HopCmd"
        BY <4>2 DEF Wire!type_byte, Wire!Reads, Wire!ReadsListed, Wire!Fixed, Wire!R
      <4>3. QED BY <2>2, <4>1, <4>2
    <3>3. Whole(m) = Base(m.kind) + 0 BY <3>1 DEF Whole
    <3>4. Base(m.kind) = 8 \/ Base(m.kind) = 15 BY <1>7, <2>2, <3>2
    <3>5. QED BY <3>3, <3>4, WireSizes
  <2>3. CASE m.kind \in {"UserText", "Tlm"}
    <3>1. l = <<1>>
      <4>1. CASE m.kind = "UserText" BY <4>1 DEF Wire!Msg, Wire!D
      <4>2. CASE m.kind = "Tlm" BY <4>2 DEF Wire!Msg, Wire!D
      <4>3. QED BY <2>3, <4>1, <4>2
    <3>2. r.at = 2
      <4>1. CASE m.kind = "UserText"
        BY <4>1 DEF Wire!type_byte, Wire!Reads, Wire!ReadsListed, Wire!R
      <4>2. CASE m.kind = "Tlm" BY <4>2 DEF Wire!type_byte, Wire!Reads, Wire!ReadsListed, Wire!R
      <4>3. QED BY <2>3, <4>1, <4>2
    <3>3. Base(m.kind) = 2 BY <1>7, <2>3, <3>2
    <3>4. m.n[1] \in Nat BY <1>7, <3>1
    <3>5. Len(l) = 1 /\ l[1] = 1 BY <3>1
    <3>6. Whole(m) = 2 + Size(m, 1) BY <3>3, <3>5 DEF Whole
    <3>7. Size(m, 1) = Wire!Cap(m.kind, m.n[1]) * 1 BY <3>5 DEF Size
    <3>8. /\ Wire!Cap(m.kind, m.n[1]) \in Nat
          /\ m.kind = "UserText" => Wire!Cap(m.kind, m.n[1]) <= TEXT_MAX
          /\ m.kind = "Tlm" => Wire!Cap(m.kind, m.n[1]) <= TLM_MAX
      BY <3>4, CapIs
    <3>9. PICK x \in Nat : x = Wire!Cap(m.kind, m.n[1]) BY <3>8
    <3>10. Whole(m) = 2 + x BY <3>6, <3>7, <3>9
    <3>11. x <= TEXT_MAX \/ x <= TLM_MAX BY <2>3, <3>8, <3>9
    <3>12. QED BY <3>10, <3>11, WireSizes
  <2>4. QED BY <1>4, <2>1, <2>2, <2>3 DEF Taken
<1>9. m.kind # "Stranger" /\ m.kind \notin Six /\ m.by # "newer" BY <1>4 DEF Taken, Six
<1>10. ~(Len(b) >= MAX_BODY)
  <2>1. Whole(m) \in Nat
    <3>1. Len(b) \in Nat
      <4>1. b \in Seq(Octets) BY <1>5, VersionIs
      <4> HIDE DEF b
      <4>2. QED BY <4>1, AtTyped
    <3>2. QED BY <1>6, <3>1
  <2>2. QED BY <1>6, <1>8, <2>1, WireSizes
<1>11. QED BY <1>3, <1>9, <1>10 DEF Wire!Foreign, Six

\* Messages packed behind each other (pack_ctrl).
Packed(ms, i) ==
  Wire!Header \o Wire!Number(0, i, 1)
    \o Wire!FlattenSeq([j \in 1 .. i |-> Wire!encode_msg(ms[j])])
Picked(ms) ==
  CHOOSE i \in 0 .. Len(ms) :
    /\ \A j \in 1 .. i : Wire!Fits(Packed(ms, j - 1), Wire!encode_msg(ms[j]))
    /\ i < Len(ms) => ~Wire!Fits(Packed(ms, i), Wire!encode_msg(ms[i + 1]))

\* Where each of the three messages of ms begins in a payload.
Places(ms, U) ==
  /\ U[0] = 6
  /\ \A i \in 1 .. 3 : U[i] \in Nat /\ U[i - 1] \in Nat
       /\ U[i] = U[i - 1] + Len(Wire!encode_msg(ms[i]))

LEMMA PackedIs ==
  ASSUME NEW ms \in Seq(Sent), Len(ms) = 3, NEW U, Places(ms, U), NEW i \in 0 .. 3
  PROVE  LET b == Packed(ms, i)
         IN /\ b \in Seq(Octets) /\ Len(b) = U[i]
            /\ At(b, 0, Wire!Header) /\ At(b, 5, Wire!Number(0, i, 1))
            /\ \A j \in 1 .. i : At(b, U[j - 1], Wire!encode_msg(ms[j]))
<1> DEFINE ss == [j \in 1 .. i |-> Wire!encode_msg(ms[j])]   F == Wire!FlattenSeq(ss)
           num == Wire!Number(0, i, 1)   P == [j \in 0 .. i |-> U[j] - 6]
           b == Wire!Header \o num \o F
<1>1. \A j \in 1 .. 3 : ms[j] \in Sent /\ Wire!encode_msg(ms[j]) \in Seq(Octets)
  <2>1. \A j \in 1 .. 3 : ms[j] \in Sent BY AtTyped
  <2>2. QED BY <2>1, SentIs
<1>2. i \in Nat OBVIOUS
<1>3. ss \in [1 .. i -> Seq(Octets)] BY <1>1
<1>4. \A j \in 1 .. i : ss[j] = Wire!encode_msg(ms[j]) OBVIOUS
<1> HIDE DEF ss
<1>5. ss \in Seq(Seq(Octets)) /\ Len(ss) = i BY <1>2, <1>3, TupleIs
<1>6. U[0] = 6 /\ \A j \in 1 .. 3 : /\ U[j] \in Nat /\ U[j - 1] \in Nat
                                    /\ U[j] = U[j - 1] + Len(Wire!encode_msg(ms[j]))
  BY DEF Places
<1>7. \A j \in 1 .. 3 : Len(Wire!encode_msg(ms[j])) \in Nat BY <1>1, AtTyped
<1>8. \A j \in 0 .. 3 : U[j] \in Nat /\ U[j] >= 6
  <2>1. U[0] >= 6 /\ U[0] \in Nat BY <1>6
  <2>2. U[1] >= 6
    <3>1. U[1] = U[1 - 1] + Len(Wire!encode_msg(ms[1])) /\ U[1] \in Nat /\ 1 - 1 = 0 BY <1>6
    <3>2. PICK x \in Nat : x = Len(Wire!encode_msg(ms[1])) BY <1>7
    <3>3. U[1] = 6 + x BY <1>6, <3>1, <3>2
    <3>4. QED BY <3>3
  <2>3. U[2] >= 6
    <3>1. U[2] = U[2 - 1] + Len(Wire!encode_msg(ms[2])) /\ U[1] \in Nat /\ 2 - 1 = 1 BY <1>6
    <3>2. PICK x \in Nat : x = Len(Wire!encode_msg(ms[2])) BY <1>7
    <3>3. PICK y \in Nat : y = U[1] BY <3>1
    <3>4. U[2] = y + x /\ y >= 6 BY <2>2, <3>1, <3>2, <3>3
    <3>5. QED BY <3>4
  <2>4. U[3] >= 6
    <3>1. U[3] = U[3 - 1] + Len(Wire!encode_msg(ms[3])) /\ U[2] \in Nat /\ 3 - 1 = 2 BY <1>6
    <3>2. PICK x \in Nat : x = Len(Wire!encode_msg(ms[3])) BY <1>7
    <3>3. PICK y \in Nat : y = U[2] BY <3>1
    <3>4. U[3] = y + x /\ y >= 6 BY <2>3, <3>1, <3>2, <3>3
    <3>5. QED BY <3>4
  <2>5. U[1] \in Nat /\ U[2] \in Nat /\ U[3] \in Nat BY <1>6
  <2>6. \A j \in 0 .. 3 : j = 0 \/ j = 1 \/ j = 2 \/ j = 3 OBVIOUS
  <2>7. QED BY <2>1, <2>2, <2>3, <2>4, <2>5, <2>6
<1>9. P[0] = 0 /\ \A j \in 0 .. i : P[j] = U[j] - 6 /\ P[j] \in Nat
  <2>1. \A j \in 0 .. i : P[j] = U[j] - 6 OBVIOUS
  <2> HIDE DEF P
  <2>2. ASSUME NEW j \in 0 .. i PROVE P[j] \in Nat
    <3>1. j \in 0 .. 3 OBVIOUS
    <3>2. PICK x \in Nat : x = U[j] BY <1>8, <3>1
    <3>3. x >= 6 BY <1>8, <3>1, <3>2
    <3>4. x - 6 \in Nat BY <3>3
    <3>5. QED BY <2>1, <3>2, <3>4
  <2>3. 0 \in 0 .. i /\ 6 - 6 = 0 BY <1>2
  <2>4. P[0] = 0 BY <1>6, <2>1, <2>3
  <2>5. QED BY <2>1, <2>2, <2>4
<1> HIDE DEF P
<1>10. \A j \in 1 .. Len(ss) : P[j] \in Nat /\ P[j] = P[j - 1] + Len(ss[j])
  <2>1. ASSUME NEW j \in 1 .. i PROVE P[j] \in Nat /\ P[j] = P[j - 1] + Len(ss[j])
    <3>1. j \in 1 .. 3 /\ j \in 0 .. i /\ j - 1 \in 0 .. i OBVIOUS
    <3>2. P[j] = U[j] - 6 /\ P[j - 1] = U[j - 1] - 6 /\ P[j] \in Nat BY <1>9, <3>1
    <3>3. U[j] = U[j - 1] + Len(ss[j]) /\ U[j - 1] \in Nat BY <1>4, <1>6, <3>1
    <3>4. PICK x \in Nat : x = Len(ss[j]) BY <1>4, <1>7, <3>1
    <3>5. PICK y \in Nat : y = U[j - 1] BY <3>3
    <3>6. (y + x) - 6 = (y - 6) + x BY <3>4
    <3>7. QED BY <3>2, <3>3, <3>4, <3>5, <3>6
  <2>2. QED BY <1>5, <2>1
<1>11. F \in Seq(Octets) /\ Len(F) = P[i] /\ \A j \in 1 .. i : At(F, P[j - 1], ss[j])
  BY <1>5, <1>9, <1>10, FlattenIs
<1> HIDE DEF F
<1>12. Wire!Header \in Seq(Octets) /\ Len(Wire!Header) = 5
  <2>1. "NYXC" \in Names /\ 0 \in Nat /\ 5 \in Nat BY DEF Names
  <2>2. QED BY <2>1, BytesAre DEF Wire!Header
<1>13. num \in Seq(Octets) /\ Len(num) = 1
  <2>1. 0 \in Nat /\ 1 \in Nat OBVIOUS
  <2>2. QED BY <1>2, <2>1, NumberIs
<1> HIDE DEF num
<1> DEFINE a == Wire!Header \o num
<1>14. a \in Seq(Octets) /\ Len(a) = 6 /\ At(a, 0, Wire!Header) /\ At(a, 5, num)
  <2>1. /\ a \in Seq(Octets) /\ Len(a) = Len(Wire!Header) + Len(num)
        /\ At(a, 0, Wire!Header) /\ At(a, Len(Wire!Header), num)
    BY <1>12, <1>13, ConcatAt
  <2> HIDE DEF a
  <2>2. QED BY <1>12, <1>13, <2>1
<1> HIDE DEF a
<1>15. /\ b \in Seq(Octets) /\ Len(b) = 6 + Len(F) /\ At(b, 0, a) /\ At(b, 6, F)
  <2>1. /\ a \o F \in Seq(Octets) /\ Len(a \o F) = Len(a) + Len(F)
        /\ At(a \o F, 0, a) /\ At(a \o F, Len(a), F)
    BY <1>11, <1>14, ConcatAt
  <2>2. QED BY <1>14, <2>1 DEF a
<1> HIDE DEF b
<1>16. Len(b) = U[i]
  <2>1. i \in 0 .. i BY <1>2
  <2>2. P[i] = U[i] - 6 /\ U[i] \in Nat BY <1>8, <1>9, <2>1
  <2>3. QED BY <1>11, <1>15, <2>2
<1>17. At(b, 0, Wire!Header) /\ At(b, 5, num)
  <2>1. 0 \in Nat /\ 5 \in Nat /\ 0 + 0 = 0 /\ 0 + 5 = 5 OBVIOUS
  <2>2. At(b, 0 + 0, Wire!Header) /\ At(b, 0 + 5, num) BY <1>12, <1>13, <1>14, <1>15, <2>1, AtWithin
  <2>3. QED BY <2>1, <2>2
<1>18. ASSUME NEW j \in 1 .. i PROVE At(b, U[j - 1], Wire!encode_msg(ms[j]))
  <2>1. j \in 1 .. 3 /\ j - 1 \in 0 .. i /\ j - 1 \in 0 .. 3 OBVIOUS
  <2>2. At(F, P[j - 1], ss[j]) /\ P[j - 1] \in Nat /\ P[j - 1] = U[j - 1] - 6 BY <1>9, <1>11, <2>1
  <2>3. ss[j] \in Seq(Octets) BY <1>1, <1>4, <2>1
  <2>4. 6 \in Nat OBVIOUS
  <2>5. At(b, 6 + P[j - 1], ss[j]) BY <1>11, <1>15, <2>2, <2>3, <2>4, AtWithin
  <2>6. 6 + P[j - 1] = U[j - 1]
    <3>1. U[j - 1] \in Nat BY <1>8, <2>1
    <3>2. QED BY <2>2, <3>1
  <2>7. QED BY <1>4, <2>5, <2>6
<1>19. b = Packed(ms, i) BY DEF b, num, F, ss, Packed
<1>20. QED BY <1>15, <1>16, <1>17, <1>18, <1>19 DEF num

LEMMA PlacesAre ==
  ASSUME NEW ms \in Seq(Sent), Len(ms) = 3
  PROVE  LET U == [i \in 0 .. 3 |-> 6 + (IF i >= 1 THEN Len(Wire!encode_msg(ms[1])) ELSE 0)
                                  + (IF i >= 2 THEN Len(Wire!encode_msg(ms[2])) ELSE 0)
                                  + (IF i >= 3 THEN Len(Wire!encode_msg(ms[3])) ELSE 0)]
         IN Places(ms, U)
<1> DEFINE U == [i \in 0 .. 3 |-> 6 + (IF i >= 1 THEN Len(Wire!encode_msg(ms[1])) ELSE 0)
                                  + (IF i >= 2 THEN Len(Wire!encode_msg(ms[2])) ELSE 0)
                                  + (IF i >= 3 THEN Len(Wire!encode_msg(ms[3])) ELSE 0)]
<1>1. \A j \in 1 .. 3 : Len(Wire!encode_msg(ms[j])) \in Nat
  <2>1. \A j \in 1 .. 3 : ms[j] \in Sent BY AtTyped
  <2>2. \A j \in 1 .. 3 : Wire!encode_msg(ms[j]) \in Seq(Octets) BY <2>1, SentIs
  <2>3. QED BY <2>2, AtTyped
<1>2. 1 \in 1 .. 3 /\ 2 \in 1 .. 3 /\ 3 \in 1 .. 3 OBVIOUS
<1>3. PICK x \in Nat : x = Len(Wire!encode_msg(ms[1])) BY <1>1, <1>2
<1>4. PICK y \in Nat : y = Len(Wire!encode_msg(ms[2])) BY <1>1, <1>2
<1>5. PICK z \in Nat : z = Len(Wire!encode_msg(ms[3])) BY <1>1, <1>2
<1>6. U[0] = 6 /\ U[1] = 6 + x /\ U[2] = 6 + x + y /\ U[3] = 6 + x + y + z
  BY <1>3, <1>4, <1>5
<1> HIDE DEF U
<1>7. ASSUME NEW i \in 1 .. 3
      PROVE  U[i] \in Nat /\ U[i - 1] \in Nat /\ U[i] = U[i - 1] + Len(Wire!encode_msg(ms[i]))
  <2>1. CASE i = 1
    <3>1. i - 1 = 0 BY <2>1
    <3>2. QED BY <1>3, <1>6, <2>1, <3>1
  <2>2. CASE i = 2
    <3>1. i - 1 = 1 BY <2>2
    <3>2. QED BY <1>3, <1>4, <1>6, <2>2, <3>1
  <2>3. CASE i = 3
    <3>1. i - 1 = 2 BY <2>3
    <3>2. QED BY <1>3, <1>4, <1>5, <1>6, <2>3, <3>1
  <2>4. QED BY <2>1, <2>2, <2>3
<1>8. Places(ms, U) BY <1>6, <1>7 DEF Places
<1>9. QED BY <1>8 DEF U

\* n messages of ms are in p.
Holds(p, n, ms, U) ==
  /\ p \in Seq(Octets) /\ Len(p) = PAYLOAD /\ U[n] <= PAYLOAD
  /\ At(p, 0, Wire!Header) /\ At(p, 5, Wire!Number(0, n, 1))
  /\ \A j \in 1 .. n : At(p, U[j - 1], Wire!encode_msg(ms[j]))

LEMMA PackIs ==
  ASSUME NEW ms \in Seq(Sent), Len(ms) = 3, NEW U, Places(ms, U)
  PROVE  \E n \in 0 .. 3 : /\ n < 3 => U[n + 1] > PAYLOAD
                           /\ n = 0 => Wire!pack_ctrl(ms) = <<>>
                           /\ n # 0 => Holds(Wire!pack_ctrl(ms), n, ms, U)
<1> DEFINE n == Picked(ms)   p == Wire!pack_ctrl(ms)
           Until(i) == /\ \A j \in 1 .. i : Wire!Fits(Packed(ms, j - 1), Wire!encode_msg(ms[j]))
                       /\ i < 3 => ~Wire!Fits(Packed(ms, i), Wire!encode_msg(ms[i + 1]))
<1>1. PAYLOAD \in Nat BY WireSizes
<1>2. \A j \in 1 .. 3 : U[j] \in Nat BY DEF Places
<1>3. ASSUME NEW j \in 1 .. 3
      PROVE  Wire!Fits(Packed(ms, j - 1), Wire!encode_msg(ms[j])) <=> U[j] <= PAYLOAD
  <2>1. j - 1 \in 0 .. 3 OBVIOUS
  <2> DEFINE i == j - 1
  <2>2. i \in 0 .. 3 BY <2>1
  <2> HIDE DEF i
  <2>3. Len(Packed(ms, i)) = U[i] BY <2>2, PackedIs
  <2>4. U[j] = U[j - 1] + Len(Wire!encode_msg(ms[j])) BY DEF Places
  <2>5. QED BY <2>3, <2>4 DEF Wire!Fits, i
<1>4. \E i \in 0 .. 3 : Until(i)
  <2>1. Wire!Fits(Packed(ms, 0), Wire!encode_msg(ms[1])) <=> U[1] <= PAYLOAD
    <3>1. 1 \in 1 .. 3 /\ 1 - 1 = 0 OBVIOUS
    <3>2. QED BY <1>3, <3>1
  <2>2. Wire!Fits(Packed(ms, 1), Wire!encode_msg(ms[2])) <=> U[2] <= PAYLOAD
    <3>1. 2 \in 1 .. 3 /\ 2 - 1 = 1 OBVIOUS
    <3>2. QED BY <1>3, <3>1
  <2>3. Wire!Fits(Packed(ms, 2), Wire!encode_msg(ms[3])) <=> U[3] <= PAYLOAD
    <3>1. 3 \in 1 .. 3 /\ 3 - 1 = 2 OBVIOUS
    <3>2. QED BY <1>3, <3>1
  <2>4. CASE ~(U[1] <= PAYLOAD)
    <3>1. Until(0)
      <4>1. 1 .. 0 = {} /\ 0 + 1 = 1 OBVIOUS
      <4>2. QED BY <2>1, <2>4, <4>1
    <3> HIDE DEF Until
    <3>2. QED BY <3>1
  <2>5. CASE U[1] <= PAYLOAD /\ ~(U[2] <= PAYLOAD)
    <3>1. Until(1)
      <4>1. (\A j \in 1 .. 1 : j = 1) /\ 1 - 1 = 0 /\ 1 + 1 = 2 OBVIOUS
      <4>2. \A j \in 1 .. 1 : Wire!Fits(Packed(ms, j - 1), Wire!encode_msg(ms[j]))
        BY <2>1, <2>5, <4>1
      <4>3. QED BY <2>2, <2>5, <4>1, <4>2
    <3> HIDE DEF Until
    <3>2. QED BY <3>1
  <2>6. CASE U[1] <= PAYLOAD /\ U[2] <= PAYLOAD /\ ~(U[3] <= PAYLOAD)
    <3>1. Until(2)
      <4>1. (\A j \in 1 .. 2 : j = 1 \/ j = 2) /\ 1 - 1 = 0 /\ 2 - 1 = 1 /\ 2 + 1 = 3 OBVIOUS
      <4>2. \A j \in 1 .. 2 : Wire!Fits(Packed(ms, j - 1), Wire!encode_msg(ms[j]))
        BY <2>1, <2>2, <2>6, <4>1
      <4>3. QED BY <2>3, <2>6, <4>1, <4>2
    <3> HIDE DEF Until
    <3>2. QED BY <3>1
  <2>7. CASE U[1] <= PAYLOAD /\ U[2] <= PAYLOAD /\ U[3] <= PAYLOAD
    <3>1. Until(3)
      <4>1. /\ \A j \in 1 .. 3 : j = 1 \/ j = 2 \/ j = 3
            /\ 1 - 1 = 0 /\ 2 - 1 = 1 /\ 3 - 1 = 2 /\ ~(3 < 3)
        OBVIOUS
      <4>2. \A j \in 1 .. 3 : Wire!Fits(Packed(ms, j - 1), Wire!encode_msg(ms[j]))
        BY <2>1, <2>2, <2>3, <2>7, <4>1
      <4>3. QED BY <4>1, <4>2
    <3> HIDE DEF Until
    <3>2. QED BY <3>1
  <2>8. QED BY <2>4, <2>5, <2>6, <2>7
<1>5. n \in 0 .. 3 /\ Until(n)
  <2>1. n = CHOOSE i \in 0 .. 3 : Until(i) BY DEF Picked
  <2> HIDE DEF n, Until
  <2>2. QED BY <1>4, <2>1
<1>6. p = IF n = 0 THEN <<>>
          ELSE [i \in 1 .. PAYLOAD |-> IF i <= Len(Packed(ms, n)) THEN Packed(ms, n)[i]
                                     ELSE <<0, "#", 0, 1>>]
  BY DEF Wire!pack_ctrl, Picked, Packed
<1> HIDE DEF n, p
<1>7. n < 3 => U[n + 1] > PAYLOAD
  <2> SUFFICES ASSUME n < 3 PROVE U[n + 1] > PAYLOAD OBVIOUS
  <2>1. n + 1 \in 1 .. 3 /\ (n + 1) - 1 = n BY <1>5
  <2>2. ~Wire!Fits(Packed(ms, n), Wire!encode_msg(ms[n + 1])) BY <1>5
  <2>3. ~(U[n + 1] <= PAYLOAD) BY <1>3, <2>1, <2>2
  <2>4. QED BY <1>1, <1>2, <2>1, <2>3
<1>8. ASSUME n # 0 PROVE Holds(p, n, ms, U)
  <2> DEFINE b == Packed(ms, n)
  <2>1. /\ b \in Seq(Octets) /\ Len(b) = U[n]
        /\ At(b, 0, Wire!Header) /\ At(b, 5, Wire!Number(0, n, 1))
        /\ \A j \in 1 .. n : At(b, U[j - 1], Wire!encode_msg(ms[j]))
    BY <1>5, PackedIs
  <2>2. U[n] <= PAYLOAD
    <3>1. n \in 1 .. 3 /\ n \in 1 .. n BY <1>5, <1>8
    <3>2. Wire!Fits(Packed(ms, n - 1), Wire!encode_msg(ms[n])) BY <1>5, <3>1
    <3>3. QED BY <1>3, <3>1, <3>2
  <2>3. p = [i \in 1 .. PAYLOAD |-> IF i <= Len(b) THEN b[i] ELSE <<0, "#", 0, 1>>] BY <1>6, <1>8
  <2> HIDE DEF b
  <2>4. \A i \in 1 .. Len(b) : b[i] \in Octets BY <2>1, AtTyped
  <2>5. <<0, "#", 0, 1>> \in Octets
    <3>1. "#" \in Names /\ 0 \in Nat /\ 1 \in Nat BY DEF Names
    <3>2. QED BY <3>1 DEF Octets
  <2>6. Len(b) \in Nat BY <2>1, AtTyped
  <2>7. \A i \in 1 .. PAYLOAD : p[i] \in Octets
    <3>1. ASSUME NEW i \in 1 .. PAYLOAD PROVE p[i] \in Octets
      <4>1. CASE i <= Len(b)
        <5>1. i \in 1 .. Len(b) BY <1>1, <2>6, <4>1
        <5>2. p[i] = b[i] BY <2>3, <4>1
        <5>3. QED BY <2>4, <5>1, <5>2
      <4>2. CASE ~(i <= Len(b))
        <5>1. p[i] = <<0, "#", 0, 1>> BY <2>3, <4>2
        <5>2. QED BY <2>5, <5>1
      <4>3. QED BY <4>1, <4>2
    <3>2. QED BY <3>1
  <2>8. p \in Seq(Octets) /\ Len(p) = PAYLOAD
    <3>1. p \in [1 .. PAYLOAD -> Octets] BY <2>3, <2>7
    <3>2. QED BY <1>1, <3>1, TupleIs
  <2>9. At(p, 0, b)
    <3>1. ASSUME NEW i \in 1 .. Len(b) PROVE p[0 + i] = b[i]
      <4>1. i \in 1 .. PAYLOAD /\ i <= Len(b) /\ 0 + i = i BY <1>1, <2>1, <2>2, <2>6
      <4>2. QED BY <2>3, <4>1
    <3>2. 0 + Len(b) <= Len(p) BY <2>1, <2>2, <2>6, <2>8
    <3>3. QED BY <3>1, <3>2 DEF At
  <2>10. \A s \in Seq(Octets), off \in Nat : At(b, off, s) => At(p, off, s)
    <3>1. ASSUME NEW s \in Seq(Octets), NEW off \in Nat, At(b, off, s) PROVE At(p, off, s)
      <4>1. 0 \in Nat /\ 0 + off = off OBVIOUS
      <4>2. At(p, 0 + off, s) BY <2>1, <2>8, <2>9, <3>1, <4>1, AtWithin
      <4>3. QED BY <4>1, <4>2
    <3>2. QED BY <3>1
  <2>11. At(p, 0, Wire!Header) /\ At(p, 5, Wire!Number(0, n, 1))
    <3>1. "NYXC" \in Names /\ 0 \in Nat /\ 1 \in Nat /\ 5 \in Nat /\ n \in Nat
      BY <1>5 DEF Names
    <3>2. Wire!Number(0, n, 1) \in Seq(Octets) BY <3>1, NumberIs
    <3>3. Wire!Header \in Seq(Octets) BY <3>1, BytesAre DEF Wire!Header
    <3>4. QED BY <2>1, <2>10, <3>1, <3>2, <3>3
  <2>12. ASSUME NEW j \in 1 .. n PROVE At(p, U[j - 1], Wire!encode_msg(ms[j]))
    <3>1. j \in 1 .. 3 BY <1>5
    <3>2. ms[j] \in Sent BY <3>1, AtTyped
    <3>3. Wire!encode_msg(ms[j]) \in Seq(Octets) BY <3>2, SentIs
    <3>4. U[j - 1] \in Nat BY <3>1 DEF Places
    <3>5. QED BY <2>1, <2>10, <3>3, <3>4
  <2>13. QED BY <2>2, <2>8, <2>11, <2>12 DEF Holds
<1>9. n = 0 => p = <<>> BY <1>6
<1>10. QED BY <1>5, <1>7, <1>8, <1>9 DEF p

\* A payload taken apart (unpack_ctrl).
Unpacks(p, n, f) ==
  f = [k \in 0 .. n |-> IF k = 0 THEN [off |-> 6, ms |-> <<>>, ok |-> TRUE]
                        ELSE Wire!Unpacked(p, f[k - 1])]

LEMMA UnpackIs ==
  ASSUME NEW ms \in Seq(Sent), Len(ms) = 3, \A i \in 1 .. 3 : ~Wire!Foreign(ms[i]),
         NEW U, Places(ms, U), NEW n \in 1 .. 3, NEW p, Holds(p, n, ms, U)
  PROVE  Wire!unpack_ctrl(p) = [i \in 1 .. n |-> Wire!InFull(ms[i])]
<1> DEFINE out(k) == [i \in 1 .. k |-> Wire!InFull(ms[i])]
           found(k) == [off |-> U[k], ms |-> out(k), ok |-> TRUE]
           g == [k \in 0 .. n |-> found(k)]
           after == CHOOSE f : Unpacks(p, n, f)
<1>1. /\ p \in Seq(Octets) /\ Len(p) = PAYLOAD /\ U[n] <= PAYLOAD
      /\ At(p, 0, Wire!Header) /\ At(p, 5, Wire!Number(0, n, 1))
      /\ \A j \in 1 .. n : At(p, U[j - 1], Wire!encode_msg(ms[j]))
  BY DEF Holds
<1>2. /\ U[0] = 6
      /\ \A i \in 1 .. 3 : /\ U[i] \in Nat /\ U[i - 1] \in Nat
                           /\ U[i] = U[i - 1] + Len(Wire!encode_msg(ms[i]))
  BY DEF Places
<1>3. out(0) = <<>> OBVIOUS
<1>4. ASSUME NEW k \in 1 .. n PROVE Wire!Unpacked(p, found(k - 1)) = found(k)
  <2> DEFINE m == ms[k]   off == U[k - 1]
  <2>1. k \in 1 .. 3 BY <1>1
  <2>2. m \in Sent /\ ~Wire!Foreign(m) BY <2>1, AtTyped
  <2> HIDE DEF m
  <2>3. PICK q : Behind(m, q) BY <2>2, SentIs, EncodeIs
  <2>4. /\ q \in Seq(Octets) /\ Len(q) > 0 /\ Wire!encode_msg(m) = Wire!Number(m.no, Len(q), 4) \o q
        /\ ~(Len(q) > MAX_BODY) /\ Wire!decode_msg(q) = Wire!InFull(m)
             /\ Wire!InFull(m) # Wire!Refused
    BY <2>2, <2>3 DEF Behind
  <2>5. Len(q) \in Nat BY <2>4, AtTyped
  <2>6. off \in Nat /\ U[k] = off + Len(Wire!encode_msg(m)) /\ At(p, off, Wire!encode_msg(m))
    BY <1>1, <1>2, <2>1 DEF m
  <2> DEFINE h == Wire!Number(m.no, Len(q), 4)   e == h \o q
  <2>7. m.no \in Nat BY <2>2, SentIs DEF Written
  <2>8. h \in Seq(Octets) /\ Len(h) = 4
    <3>1. 4 \in Nat OBVIOUS
    <3>2. QED BY <2>5, <2>7, <3>1, NumberIs
  <2>9. At(p, off, e) /\ U[k] = off + Len(e) BY <2>4, <2>6
  <2> HIDE DEF h, off
  <2>10. /\ e \in Seq(Octets) /\ Len(e) = 4 + Len(q) /\ At(e, 0, h) /\ At(e, 4, q)
    <3>1. /\ e \in Seq(Octets) /\ Len(e) = Len(h) + Len(q) /\ At(e, 0, h) /\ At(e, Len(h), q)
      BY <2>4, <2>8, ConcatAt
    <3> HIDE DEF e
    <3>2. QED BY <2>8, <3>1
  <2> HIDE DEF e
  <2>11. At(p, off, h) /\ At(p, off + 4, q)
    <3>1. 0 \in Nat /\ 4 \in Nat /\ off + 0 = off BY <2>6
    <3>2. At(p, off + 0, h) /\ At(p, off + 4, q)
      BY <1>1, <2>4, <2>6, <2>8, <2>9, <2>10, <3>1, AtWithin
    <3>3. QED BY <3>1, <3>2
  <2>12. Wire!Value(p, off, 4) = Len(q)
    <3>1. 4 \in Nat \ {0} OBVIOUS
    <3>2. QED BY <1>1, <2>5, <2>6, <2>7, <2>11, <3>1, ValueIs DEF h
  <2>13. SubSeq(p, off + 5, off + 4 + Len(q)) = q
    <3>1. off + 4 \in Nat /\ (off + 4) + 1 = off + 5 BY <2>6
    <3>2. SubSeq(p, (off + 4) + 1, (off + 4) + Len(q)) = q BY <1>1, <2>4, <2>11, <3>1, CutOut
    <3>3. QED BY <3>1, <3>2
  <2>14. off + 4 + Len(q) <= Len(p) /\ U[k] = off + 4 + Len(q)
    <3>1. off + Len(e) <= Len(p) BY <2>9 DEF At
    <3>2. PICK x \in Nat : x = Len(q) BY <2>5
    <3>3. PICK y \in Nat : y = off BY <2>6
    <3>4. Len(e) = 4 + x BY <2>10, <3>2
    <3>5. y + (4 + x) = y + 4 + x OBVIOUS
    <3>6. QED BY <2>9, <3>1, <3>2, <3>3, <3>4, <3>5
  <2>15. ~(off + 4 > Len(p))
    <3>1. Len(p) \in Nat BY <1>1, AtTyped
    <3>2. QED BY <2>5, <2>6, <2>14, <3>1
  <2>16. Append(out(k - 1), Wire!InFull(m)) = out(k)
    <3> DEFINE S == {Wire!InFull(x) : x \in Sent}   a == out(k - 1)   b == out(k)
    <3>1. k - 1 \in Nat /\ k \in Nat BY <2>1
    <3>2. \A i \in 1 .. 3 : Wire!InFull(ms[i]) \in S
      <4>1. \A i \in 1 .. 3 : ms[i] \in Sent BY AtTyped
      <4>2. QED BY <4>1
    <3>3. a \in [1 .. k - 1 -> S] /\ b \in [1 .. k -> S]
      <4>1. (\A i \in 1 .. k - 1 : i \in 1 .. 3) /\ (\A i \in 1 .. k : i \in 1 .. 3) BY <2>1
      <4> HIDE DEF S
      <4>2. QED BY <3>2, <4>1
    <3>4. (\A i \in 1 .. k - 1 : a[i] = Wire!InFull(ms[i]))
            /\ (\A i \in 1 .. k : b[i] = Wire!InFull(ms[i]))
      OBVIOUS
    <3>5. Wire!InFull(m) \in S BY <2>2
    <3> HIDE DEF S, a, b, out, found
    <3>6. a \in Seq(S) /\ Len(a) = k - 1 BY <3>1, <3>3, TupleIs
    <3>7. b \in Seq(S) /\ Len(b) = k BY <3>1, <3>3, TupleIs
    <3> DEFINE c == Append(a, Wire!InFull(m))
    <3>8. /\ c \in Seq(S) /\ Len(c) = (k - 1) + 1 /\ c[(k - 1) + 1] = Wire!InFull(m)
          /\ \A i \in 1 .. k - 1 : c[i] = a[i]
      BY <3>5, <3>6
    <3>9. (k - 1) + 1 = k BY <3>1
    <3> HIDE DEF c
    <3>10. ASSUME NEW i \in 1 .. Len(c) PROVE c[i] = b[i]
      <4>1. i = k \/ i \in 1 .. k - 1 BY <3>1, <3>8, <3>9
      <4>2. i \in 1 .. k BY <3>8, <3>9
      <4>3. b[i] = Wire!InFull(ms[i]) BY <3>4, <4>2
      <4>4. CASE i = k BY <3>8, <3>9, <4>3, <4>4 DEF m
      <4>5. CASE i \in 1 .. k - 1 BY <3>4, <3>8, <4>3, <4>5
      <4>6. QED BY <4>1, <4>4, <4>5
    <3>11. c = b BY <3>7, <3>8, <3>9, <3>10, SameSeq
    <3>12. QED BY <3>11 DEF a, b, c
  <2> DEFINE r == found(k - 1)
  <2>17. r.off = off /\ r.ms = out(k - 1) /\ r.ok = TRUE BY DEF off
  <2>18. found(k) = [off |-> off + 4 + Len(q), ms |-> Append(r.ms, Wire!InFull(m)), ok |-> TRUE]
    BY <2>14, <2>16, <2>17
  <2> HIDE DEF r, found, out
  <2>19. Len(q) # 0 BY <2>4, <2>5
  <2>20. ~(off + 4 + Len(q) > Len(p))
    <3>1. Len(p) \in Nat BY <1>1, AtTyped
    <3>2. PICK x \in Nat : x = off + 4 + Len(q) BY <2>5, <2>6
    <3>3. x <= Len(p) BY <2>14, <3>2
    <3>4. QED BY <3>1, <3>2, <3>3
  <2>21. Wire!Unpacked(p, r) =
           [off |-> off + 4 + Len(q), ms |-> Append(r.ms, Wire!InFull(m)), ok |-> TRUE]
    BY <2>4, <2>12, <2>13, <2>15, <2>17, <2>19, <2>20 DEF Wire!Unpacked
  <2>22. QED BY <2>18, <2>21 DEF r
<1> HIDE DEF out
<1>5. found(0) = [off |-> 6, ms |-> <<>>, ok |-> TRUE] BY <1>2, <1>3
<1> HIDE DEF found
<1>6. Unpacks(p, n, g)
  <2>1. \A k \in 0 .. n : g[k] = IF k = 0 THEN [off |-> 6, ms |-> <<>>, ok |-> TRUE]
                               ELSE Wire!Unpacked(p, g[k - 1])
    <3>1. ASSUME NEW k \in 0 .. n
          PROVE  g[k] = IF k = 0 THEN [off |-> 6, ms |-> <<>>, ok |-> TRUE]
                        ELSE Wire!Unpacked(p, g[k - 1])
      <4>1. CASE k = 0 BY <1>5, <4>1
      <4>2. CASE k # 0
        <5>1. k \in 1 .. n /\ k - 1 \in 0 .. n BY <4>2
        <5>2. g[k - 1] = found(k - 1) /\ g[k] = found(k) BY <5>1
        <5>3. QED BY <1>4, <4>2, <5>1, <5>2
      <4>3. QED BY <4>1, <4>2
    <3>2. QED BY <3>1
  <2>2. g = [k \in 0 .. n |-> g[k]] OBVIOUS
  <2> HIDE DEF g
  <2>3. QED BY <2>1, <2>2 DEF Unpacks
<1>7. Unpacks(p, n, after) BY <1>6
<1>8. \A k \in 0 .. n : after[k] = IF k = 0 THEN [off |-> 6, ms |-> <<>>, ok |-> TRUE]
                                 ELSE Wire!Unpacked(p, after[k - 1])
  <2> HIDE DEF after
  <2>1. after = [k \in 0 .. n |-> IF k = 0 THEN [off |-> 6, ms |-> <<>>, ok |-> TRUE]
                                ELSE Wire!Unpacked(p, after[k - 1])]
    BY <1>7 DEF Unpacks
  <2>2. QED BY <2>1
<1>9. after[n] = found(n)
  <2> HIDE DEF after
  <2>1. after[0] = found(0)
    <3>1. 0 \in 0 .. n OBVIOUS
    <3> DEFINE z == 0
    <3>2. z \in 0 .. n BY <3>1
    <3>3. after[z] = IF z = 0 THEN [off |-> 6, ms |-> <<>>, ok |-> TRUE]
                     ELSE Wire!Unpacked(p, after[z - 1])
      <4> HIDE DEF z
      <4>1. QED BY <1>8, <3>2
    <3>4. QED BY <1>5, <3>3
  <2>2. \A k \in 1 .. n : after[k - 1] = found(k - 1) => after[k] = found(k)
    <3>1. \A k \in 1 .. n : k \in 0 .. n /\ k # 0 OBVIOUS
    <3>2. QED BY <1>4, <1>8, <3>1
  <2>3. after[1] = found(1)
    <3>1. 1 \in 1 .. n /\ 1 - 1 = 0 OBVIOUS
    <3>2. QED BY <2>1, <2>2, <3>1
  <2>4. n >= 2 => after[2] = found(2)
    <3>1. n >= 2 => 2 \in 1 .. n /\ 2 - 1 = 1 OBVIOUS
    <3>2. QED BY <2>2, <2>3, <3>1
  <2>5. n = 3 => after[3] = found(3)
    <3>1. n = 3 => 3 \in 1 .. n /\ 3 - 1 = 2 /\ n >= 2 OBVIOUS
    <3>2. QED BY <2>2, <2>4, <3>1
  <2>6. n = 1 \/ n = 2 \/ n = 3 OBVIOUS
  <2>7. QED BY <2>3, <2>4, <2>5, <2>6
<1>10. Wire!Value(p, 5, 1) = n
  <2>1. n \in Nat /\ 0 \in Nat /\ 5 \in Nat /\ 1 \in Nat \ {0} OBVIOUS
  <2>2. QED BY <1>1, <2>1, ValueIs
<1>11. SubSeq(p, 1, 5) = Wire!Header
  <2>1. Wire!Header \in Seq(Octets) /\ Len(Wire!Header) = 5
    <3>1. "NYXC" \in Names /\ 0 \in Nat /\ 5 \in Nat BY DEF Names
    <3>2. QED BY <3>1, BytesAre DEF Wire!Header
  <2>2. 0 \in Nat /\ 0 + 1 = 1 /\ 0 + 5 = 5 OBVIOUS
  <2>3. SubSeq(p, 0 + 1, 0 + Len(Wire!Header)) = Wire!Header BY <1>1, <2>1, <2>2, CutOut
  <2>4. QED BY <2>1, <2>2, <2>3
<1>12. ~(Len(p) < 6)
  <2>1. 5 + Len(Wire!Number(0, n, 1)) <= Len(p) BY <1>1 DEF At
  <2>2. Len(Wire!Number(0, n, 1)) = 1
    <3>1. 0 \in Nat /\ 1 \in Nat /\ n \in Nat OBVIOUS
    <3>2. QED BY <3>1, NumberIs
  <2>3. Len(p) \in Nat BY <1>1, AtTyped
  <2>4. 5 + 1 <= Len(p) BY <2>1, <2>2
  <2>5. PICK x \in Nat : x = Len(p) BY <2>3
  <2>6. 5 + 1 <= x BY <2>4, <2>5
  <2>7. ~(x < 6) BY <2>6
  <2>8. QED BY <2>5, <2>7
<1>13. Wire!Contents(p, n) = IF after[n].ok THEN after[n].ms ELSE <<>> BY DEF Wire!Contents, Unpacks
<1> HIDE DEF after
<1>14. found(n).ok = TRUE /\ found(n).ms = out(n) BY DEF found
<1>15. Wire!Contents(p, n) = out(n) BY <1>9, <1>13, <1>14
<1>16. Wire!unpack_ctrl(p) = Wire!Contents(p, n) BY <1>10, <1>11, <1>12 DEF Wire!unpack_ctrl
<1>17. QED BY <1>15, <1>16 DEF out

\* What comes out of a payload packed from ms (ControlWhole).
Through(ms, out) ==
  LET k == Len(out)
      size(i) == Len(Wire!encode_msg(ms[i]))
      upto(i) == 6 + (IF i >= 1 THEN size(1) ELSE 0) + (IF i >= 2 THEN size(2) ELSE 0)
                 + (IF i >= 3 THEN size(3) ELSE 0)
  IN /\ \A i \in 1..k : out[i] = Wire!InFull(ms[i])
     /\ k < Len(ms) => upto(k + 1) > PAYLOAD

LEMMA ThroughIs ==
  ASSUME NEW ms \in Seq(Sent), Len(ms) = 3, \A i \in 1 .. 3 : ~Wire!Foreign(ms[i])
  PROVE  Through(ms, Wire!unpack_ctrl(Wire!pack_ctrl(ms)))
<1> DEFINE U == [i \in 0 .. 3 |-> 6 + (IF i >= 1 THEN Len(Wire!encode_msg(ms[1])) ELSE 0)
                                  + (IF i >= 2 THEN Len(Wire!encode_msg(ms[2])) ELSE 0)
                                  + (IF i >= 3 THEN Len(Wire!encode_msg(ms[3])) ELSE 0)]
           out == Wire!unpack_ctrl(Wire!pack_ctrl(ms))
<1>1. Places(ms, U) BY PlacesAre
<1>2. \A i \in 0 .. 3 : U[i] = 6 + (IF i >= 1 THEN Len(Wire!encode_msg(ms[1])) ELSE 0)
                                 + (IF i >= 2 THEN Len(Wire!encode_msg(ms[2])) ELSE 0)
                                 + (IF i >= 3 THEN Len(Wire!encode_msg(ms[3])) ELSE 0)
  OBVIOUS
<1> HIDE DEF U
<1>3. PICK n \in 0 .. 3 : /\ n < 3 => U[n + 1] > PAYLOAD
                          /\ n = 0 => Wire!pack_ctrl(ms) = <<>>
                          /\ n # 0 => Holds(Wire!pack_ctrl(ms), n, ms, U)
  BY <1>1, PackIs
<1>4. Len(out) = n /\ \A i \in 1 .. n : out[i] = Wire!InFull(ms[i])
  <2>1. CASE n = 0
    <3>1. Wire!pack_ctrl(ms) = <<>> BY <1>3, <2>1
    <3>2. Len(<<>>) < 6 OBVIOUS
    <3>3. Wire!unpack_ctrl(<<>>) = <<>> BY <3>2 DEF Wire!unpack_ctrl
    <3>4. out = <<>> /\ Len(<<>>) = 0 BY <3>1, <3>3
    <3> HIDE DEF out
    <3>5. QED BY <2>1, <3>4
  <2>2. CASE n # 0
    <3>1. n \in 1 .. 3 /\ n \in Nat BY <2>2
    <3> DEFINE p == Wire!pack_ctrl(ms)   S == {Wire!InFull(ms[i]) : i \in 1 .. n}
               o == [i \in 1 .. n |-> Wire!InFull(ms[i])]
    <3>2. Holds(p, n, ms, U) BY <1>3, <2>2
    <3> HIDE DEF p
    <3>3. Wire!unpack_ctrl(p) = [i \in 1 .. n |-> Wire!InFull(ms[i])] BY <1>1, <3>1, <3>2, UnpackIs
    <3>4. out = o BY <3>3 DEF p
    <3>5. o \in [1 .. n -> S] /\ \A i \in 1 .. n : o[i] = Wire!InFull(ms[i]) OBVIOUS
    <3> HIDE DEF out, o, S
    <3>6. Len(o) = n BY <3>1, <3>5, TupleIs
    <3>7. QED BY <3>4, <3>5, <3>6
  <2>3. QED BY <2>1, <2>2
<1> HIDE DEF out
<1>5. n < Len(ms) => /\ n + 1 \in 0 .. 3
                     /\ U[n + 1] > PAYLOAD
  BY <1>3
<1>6. Through(ms, out) BY <1>2, <1>4, <1>5 DEF Through
<1>7. QED BY <1>6 DEF out

LEMMA ControlInit == Wire!Init => Wire!ControlWhole
<1> SUFFICES ASSUME Wire!Init PROVE Wire!ControlWhole OBVIOUS
<1>1. ctrl.ms = <<>> /\ ctrl.out = <<>> BY DEF Wire!Init
<1>2. Len(<<>>) = 0 OBVIOUS
<1>3. QED BY <1>1, <1>2 DEF Wire!ControlWhole

LEMMA ControlStep == Wire!ControlWhole /\ [Wire!Next]_(Wire!vars) => Wire!ControlWhole'
<1> SUFFICES ASSUME Wire!ControlWhole, [Wire!Next]_(Wire!vars) PROVE Wire!ControlWhole' OBVIOUS
<1>1. CASE UNCHANGED ctrl BY <1>1 DEF Wire!ControlWhole
<1>2. CASE Wire!Control
  <2>1. PICK a \in Wire!Messages(1, {"Feedback", "UserText", "Nack"}),
             b \in Wire!Messages(2, {"UserText", "Tlm"}),
             c \in Wire!Messages(3, {"Nack", "HopCmd"}) :
          /\ \A m \in {a, b, c} : m.by = "this"
          /\ ctrl' = [ms |-> <<a, b, c>>, out |-> Wire!unpack_ctrl(Wire!pack_ctrl(<<a, b, c>>))]
    BY <1>2 DEF Wire!Control
  <2>2. a \in Wire!Messages(1, Taken) /\ b \in Wire!Messages(2, Taken)
          /\ c \in Wire!Messages(3, Taken)
    <3>1. /\ {"Feedback", "UserText", "Nack"} \subseteq Taken
          /\ {"UserText", "Tlm"} \subseteq Taken /\ {"Nack", "HopCmd"} \subseteq Taken
      BY DEF Taken
    <3>2. ASSUME NEW no, NEW few \in SUBSET Taken, NEW m \in Wire!Messages(no, few)
          PROVE  m \in Wire!Messages(no, Taken)
      BY <3>2 DEF Wire!Messages
    <3>3. a \in Wire!Messages(1, Taken) BY <3>1, <3>2
    <3>4. b \in Wire!Messages(2, Taken) BY <3>1, <3>2
    <3>5. c \in Wire!Messages(3, Taken) BY <3>1, <3>2
    <3>6. QED BY <3>3, <3>4, <3>5
  <2>3. a.by = "this" /\ b.by = "this" /\ c.by = "this" BY <2>1
  <2> DEFINE ms == <<a, b, c>>
  <2>4. 1 \in Nat /\ 2 \in Nat /\ 3 \in Nat OBVIOUS
  <2>5. a \in Sent /\ ~Wire!Foreign(a) BY <2>2, <2>3, <2>4, TakenIs
  <2>6. b \in Sent /\ ~Wire!Foreign(b) BY <2>2, <2>3, <2>4, TakenIs
  <2>7. c \in Sent /\ ~Wire!Foreign(c) BY <2>2, <2>3, <2>4, TakenIs
  <2>8. ms \in Seq(Sent) /\ Len(ms) = 3 /\ \A i \in 1 .. 3 : ~Wire!Foreign(ms[i])
    BY <2>5, <2>6, <2>7
  <2>9. ctrl'.ms = ms /\ ctrl'.out = Wire!unpack_ctrl(Wire!pack_ctrl(ms)) BY <2>1
  <2> HIDE DEF ms
  <2>10. Through(ctrl'.ms, ctrl'.out) BY <2>8, <2>9, ThroughIs
  <2>11. QED BY <2>10 DEF Through, Wire!ControlWhole
<1>3. QED BY <1>1, <1>2 DEF Wire!Next, Wire!vars, Wire!Write, Wire!Break, Wire!Read, Wire!ReadFails

-----------------------------------------------------------------------------
(* The numbers of the blocks.                                              *)

N == INSTANCE BlockProofs

\* The numbers are those of BlockProofs.
LEMMA SameNumbers ==
  /\ Number!LinkArqAssumption => N!LinkArqAssumption
  /\ Number!LinkTrusted => N!LinkTrusted
  /\ Number!Init => N!Init
  /\ [Number!Next]_(Number!vars) => [N!Next]_(N!vars)
  /\ N!ReadAsItself /\ N!NeverAhead => Number!ReadAsItself /\ Number!NeverAhead
<1>1. Number!LinkArqAssumption => N!LinkArqAssumption
  BY DEF Number!LinkArqAssumption, N!LinkArqAssumption, Number!Seqs, N!Seqs
<1>2. Number!LinkTrusted => N!LinkTrusted BY DEF Number!LinkTrusted, N!LinkTrusted
<1>3. Number!Init => N!Init BY DEF Number!Init, N!Init
<1> USE DEF Number!sender, N!sender, Number!receiver, N!receiver
<1>4. \A S : Number!Cardinality(S) = N!Cardinality(S) BY DEF Number!Cardinality, N!Cardinality
<1>5. \A f : Number!Range(f) = N!Range(f) BY DEF Number!Range, N!Range
<1>6. \A f, S : Number!Restrict(f, S) = N!Restrict(f, S) BY DEF Number!Restrict, N!Restrict
<1>7. \A S : Number!SetToSeqs(S) = N!SetToSeqs(S) BY <1>4 DEF Number!SetToSeqs, N!SetToSeqs
<1>8. Number!Send => N!Send BY DEF Number!Send, N!Send, Number!Kept, N!Kept
<1>9. Number!AskLost => N!AskLost BY DEF Number!AskLost, N!AskLost
<1>10. \A copied \in {FALSE, Dup} : Number!Answer(copied) => N!Answer(copied)
  BY DEF Number!Answer, N!Answer, Number!Matches, N!Matches, Number!NewestMatch, N!NewestMatch,
     Number!RetryOf, N!RetryOf
<1>11. Number!InTime => N!InTime BY <1>5 DEF Number!InTime, N!InTime
<1>12. \A s : Number!Resolve(s) = N!Resolve(s)
  BY DEF Number!Resolve, N!Resolve, Number!Delta, N!Delta, Number!LateRetry, N!LateRetry,
     Number!Young, N!Young, Number!Floor, N!Floor
<1>13. \A r : Number!Asked(r) = N!Asked(r)
  BY <1>4 DEF Number!Asked, N!Asked, Number!Gap, N!Gap, Number!Young, N!Young
<1>14. \A s, readable : Number!Captured(s, readable) => N!Captured(s, readable)
  BY <1>12, <1>13, <1>6, <1>7 DEF Number!Captured, N!Captured, Number!Opened, N!Opened,
     Number!SendNacks,
     N!SendNacks, Number!Newest, N!Newest
<1>15. \A readable \in BOOLEAN : Number!HearNew(readable) => N!HearNew(readable)
  BY <1>11, <1>14 DEF Number!HearNew, N!HearNew
<1>16. \A readable \in BOOLEAN : Number!HearRetry(readable) => N!HearRetry(readable)
  BY <1>14 DEF Number!HearRetry, N!HearRetry
<1>17. Number!LoseNew => N!LoseNew BY <1>11 DEF Number!LoseNew, N!LoseNew
<1>18. Number!LoseRetry => N!LoseRetry BY DEF Number!LoseRetry, N!LoseRetry
<1>19. Number!NackAges => N!NackAges
  BY <1>5, <1>6 DEF Number!NackAges, N!NackAges, Number!Under, N!Under
<1>20. Number!Next => N!Next
  BY <1>8, <1>9, <1>10, <1>15, <1>16, <1>17, <1>18, <1>19 DEF Number!Next, N!Next
<1>21. N!ReadAsItself /\ N!NeverAhead => Number!ReadAsItself /\ Number!NeverAhead
  BY <1>5 DEF N!ReadAsItself, N!NeverAhead, Number!ReadAsItself, Number!NeverAhead
<1>22. [Number!Next]_(Number!vars) => [N!Next]_(N!vars)
  <2>1. UNCHANGED Number!vars => UNCHANGED N!vars BY DEF Number!vars, N!vars
  <2>2. QED BY <2>1, <1>20
<1>23. QED BY <1>1, <1>2, <1>3, <1>21, <1>22

-----------------------------------------------------------------------------
(* The soft buffers of the blocks.                                         *)

\* The soft buffers are those of BlockProofs: what goes through a capture ...
LEMMA SameFrame == \A r, f : Soft!Frame(r, f) = N!Soft!Frame(r, f)
<1> USE DEF Soft!Nothing, N!Soft!Nothing
<1>1. \A S : Soft!Max(S) = N!Soft!Max(S) BY DEF Soft!Max, N!Soft!Max
<1>2. \A q : Soft!ToSet(q) = N!Soft!ToSet(q) BY DEF Soft!ToSet, N!Soft!ToSet
<1>4. \A S : Soft!Cardinality(S) = N!Soft!Cardinality(S)
  BY DEF Soft!Cardinality, N!Soft!Cardinality
<1>5. \A lsb, r : Soft!Resolve(lsb, r) = N!Soft!Resolve(lsb, r)
  BY <1>1 DEF Soft!Resolve, N!Soft!Resolve
<1>6. ASSUME NEW r, NEW n PROVE Soft!Removed(r, n) = N!Soft!Removed(r, n)
  BY DEF Soft!Removed, N!Soft!Removed, Soft!Restrict, N!Soft!Restrict
<1>7. ASSUME NEW r, NEW n, NEW buffer
      PROVE  Soft!Inserted(r, n, buffer) = N!Soft!Inserted(r, n, buffer)
  BY DEF Soft!Inserted, N!Soft!Inserted, Soft!Max, N!Soft!Max, Soft!ToSet, N!Soft!ToSet,
     Soft!Restrict, N!Soft!Restrict
<1>8. \A r, numbers : Soft!Ask(r, numbers) = N!Soft!Ask(r, numbers)
  BY <1>2 DEF Soft!Ask, N!Soft!Ask
<1>9. \A r, full : Soft!Missing(r, full) = N!Soft!Missing(r, full)
  BY <1>4 DEF Soft!Missing, N!Soft!Missing
<1>10. ASSUME NEW r, NEW full, NEW b PROVE Soft!Noted(r, full, b) = N!Soft!Noted(r, full, b)
  <2> DEFINE numbers == Soft!Missing(r, full)   a == Soft!Ask(r, numbers)
  <2>1. numbers = N!Soft!Missing(r, full) BY <1>9
  <2> HIDE DEF numbers
  <2>2. a = N!Soft!Ask(r, N!Soft!Missing(r, full)) BY <2>1, <1>8
  <2> HIDE DEF a
  <2>3. Soft!Ask(r, Soft!Missing(r, full)) = a BY DEF a, numbers
  <2>4. QED BY <2>2, <2>3 DEF Soft!Noted, N!Soft!Noted
<1>11. \A r, full, f : Soft!Remembered(r, full, f) = N!Soft!Remembered(r, full, f)
  BY <1>1 DEF Soft!Remembered, N!Soft!Remembered
<1>12. ASSUME NEW r, NEW full, NEW f
       PROVE  Soft!Delivered(r, full, f) = N!Soft!Delivered(r, full, f)
  <2>1. Soft!Removed(r, full) = N!Soft!Removed(r, full) BY <1>6
  <2>2. Soft!Remembered(r, full, f) = N!Soft!Remembered(r, full, f) BY <1>11
  <2>3. QED BY <2>1, <2>2 DEF Soft!Delivered, N!Soft!Delivered
<1>13. \A buffer : Soft!Decodes(buffer) <=> N!Soft!Decodes(buffer)
  BY DEF Soft!Decodes, N!Soft!Decodes
<1>14. \A r, full, f : Soft!Attempt(r, full, f) = N!Soft!Attempt(r, full, f)
  <2> SUFFICES ASSUME NEW r, NEW full, NEW f
               PROVE  Soft!Attempt(r, full, f) = N!Soft!Attempt(r, full, f)
    OBVIOUS
  <2> DEFINE held == IF full \in DOMAIN r.soft THEN r.soft[full] ELSE <<>>
             buffer == Append(held, [b |-> f.b, q |-> f.q])
  <2>1. Soft!Attempt(r, full, f)
          = CASE f.q = "board" -> Soft!Delivered(r, full, f)
              [] f.q = "unsynced" -> Soft!Ask(r, <<full>>)
              [] OTHER -> IF Soft!Decodes(buffer) THEN Soft!Delivered(r, full, f)
                          ELSE Soft!Ask(Soft!Inserted(r, full, buffer), <<full>>)
    BY DEF Soft!Attempt
  <2>2. N!Soft!Attempt(r, full, f)
          = CASE f.q = "board" -> N!Soft!Delivered(r, full, f)
              [] f.q = "unsynced" -> N!Soft!Ask(r, <<full>>)
              [] OTHER -> IF N!Soft!Decodes(buffer) THEN N!Soft!Delivered(r, full, f)
                          ELSE N!Soft!Ask(N!Soft!Inserted(r, full, buffer), <<full>>)
    BY DEF N!Soft!Attempt
  <2> HIDE DEF buffer
  <2>3. CASE f.q = "board" BY <2>1, <2>2, <2>3, <1>12
  <2>4. CASE f.q = "unsynced" BY <2>1, <2>2, <2>4, <1>8
  <2>5. CASE f.q \notin {"board", "unsynced"} /\ Soft!Decodes(buffer)
    <3>1. N!Soft!Decodes(buffer) BY <2>5, <1>13
    <3>2. /\ Soft!Attempt(r, full, f) = Soft!Delivered(r, full, f)
          /\ N!Soft!Attempt(r, full, f) = N!Soft!Delivered(r, full, f)
      BY <2>1, <2>2, <2>5, <3>1
    <3>3. QED BY <3>2, <1>12
  <2>6. CASE f.q \notin {"board", "unsynced"} /\ ~Soft!Decodes(buffer)
    <3>1. ~N!Soft!Decodes(buffer) BY <2>6, <1>13
    <3>2. Soft!Attempt(r, full, f) = Soft!Ask(Soft!Inserted(r, full, buffer), <<full>>)
      BY <2>1, <2>6
    <3>3. N!Soft!Attempt(r, full, f) = N!Soft!Ask(N!Soft!Inserted(r, full, buffer), <<full>>)
      BY <2>2, <2>6, <3>1
    <3>4. Soft!Inserted(r, full, buffer) = N!Soft!Inserted(r, full, buffer) BY <1>7
    <3>5. QED BY <3>2, <3>3, <3>4, <1>8
  <2>7. QED BY <2>3, <2>4, <2>5, <2>6
<1>15. ASSUME NEW r, NEW f PROVE Soft!Frame(r, f) = N!Soft!Frame(r, f)
  <2> DEFINE full == Soft!Resolve(f.b.seq % SoftMod, r)
             noted == Soft!Noted(r, full, f.b)
             next == IF full \in Soft!ToSet(r.delivered) \/ f.q = "cut" THEN noted
                     ELSE Soft!Attempt(noted, full, f)
             fullN == N!Soft!Resolve(f.b.seq % SoftMod, r)
             notedN == N!Soft!Noted(r, fullN, f.b)
             nextN == IF fullN \in N!Soft!ToSet(r.delivered) \/ f.q = "cut" THEN notedN
                      ELSE N!Soft!Attempt(notedN, fullN, f)
  <2>1. Soft!Frame(r, f) = IF f.q \in {"clean", "board"} /\ f.b.life = r.follows
                           THEN [next EXCEPT !.whole = @ \cup {f.b}] ELSE next
    BY DEF Soft!Frame
  <2>2. N!Soft!Frame(r, f) = IF f.q \in {"clean", "board"} /\ f.b.life = r.follows
                             THEN [nextN EXCEPT !.whole = @ \cup {f.b}] ELSE nextN
    BY DEF N!Soft!Frame
  <2>3. full = fullN BY <1>5
  <2> HIDE DEF full, fullN
  <2>4. noted = notedN BY <2>3, <1>10
  <2>5. Soft!ToSet(r.delivered) = N!Soft!ToSet(r.delivered) BY <1>2
  <2> HIDE DEF noted, notedN
  <2>6. Soft!Attempt(noted, full, f) = N!Soft!Attempt(notedN, fullN, f) BY <2>3, <2>4, <1>14
  <2>7. next = nextN BY <2>3, <2>4, <2>5, <2>6
  <2> HIDE DEF next, nextN
  <2>8. QED BY <2>1, <2>2, <2>7
<1>16. QED BY <1>15

LEMMA SameTurn == \A r, frames : Soft!Turn(r, frames) = N!Soft!Turn(r, frames)
<1> SUFFICES ASSUME NEW r, NEW frames PROVE Soft!Turn(r, frames) = N!Soft!Turn(r, frames) OBVIOUS
<1> DEFINE junk == {i \in DOMAIN frames : frames[i].q = "junk"}
           read == IF junk = {} THEN frames ELSE SubSeq(frames, 1, Soft!Min(junk) - 1)
           readN == IF junk = {} THEN frames ELSE SubSeq(frames, 1, N!Soft!Min(junk) - 1)
           After(a) == a = [n \in 0 .. Len(read) |-> IF n = 0 THEN r
                                                     ELSE Soft!Frame(a[n - 1], read[n])]
           AfterN(a) == a = [n \in 0 .. Len(readN) |-> IF n = 0 THEN r
                                                       ELSE N!Soft!Frame(a[n - 1], readN[n])]
           s == (CHOOSE a : After(a))[Len(read)]
           sN == (CHOOSE a : AfterN(a))[Len(readN)]
           others == {l \in 0 .. life :
                        l # s.follows /\ Soft!Completes(s, l) /\ ~Soft!Completes(r, l)}
           othersN == {l \in 0 .. life :
                         l # sN.follows /\ N!Soft!Completes(sN, l) /\ ~N!Soft!Completes(r, l)}
<1>1. Soft!Turn(r, frames)
        = IF others = {} THEN s ELSE Soft!Followed(s, CHOOSE l \in others : TRUE)
  BY DEF Soft!Turn
<1>2. N!Soft!Turn(r, frames)
        = IF othersN = {} THEN sN ELSE N!Soft!Followed(sN, CHOOSE l \in othersN : TRUE)
  BY DEF N!Soft!Turn
<1>3. read = readN
  <2>1. \A S : Soft!Min(S) = N!Soft!Min(S) BY DEF Soft!Min, N!Soft!Min
  <2>2. QED BY <2>1
<1>4. \A a : After(a) <=> AfterN(a)
  <2> HIDE DEF read, readN
  <2>1. QED BY <1>3, SameFrame
<1>5. s = sN
  <2> HIDE DEF After, AfterN, read, readN
  <2>1. (CHOOSE a : After(a)) = (CHOOSE a : AfterN(a)) BY <1>4
  <2>2. QED BY <2>1, <1>3
<1> HIDE DEF s, sN
<1>6. others = othersN
  <2>1. \A x, l : Soft!Completes(x, l) <=> N!Soft!Completes(x, l)
    BY DEF Soft!Completes, N!Soft!Completes
  <2>2. QED BY <2>1, <1>5
<1>7. \A x, l : Soft!Followed(x, l) = N!Soft!Followed(x, l)
  BY DEF Soft!Followed, N!Soft!Followed, Soft!Empty, N!Soft!Empty, Soft!Nothing, N!Soft!Nothing
<1> HIDE DEF others, othersN
<1>8. QED BY <1>1, <1>2, <1>5, <1>6, <1>7

\* ... and every step.
LEMMA SameSoft ==
  /\ N!Sizes
  /\ Soft!Trusted => N!Soft!Trusted
  /\ Soft!OnTime => N!Soft!OnTime
  /\ Soft!Init => N!Soft!Init
  /\ [Soft!Next]_(Soft!vars) => [N!Soft!Next]_(N!Soft!vars)
  /\ N!Soft!CleanGoesThrough /\ N!Soft!HandedOnce => Soft!CleanGoesThrough /\ Soft!HandedOnce
<1>1. N!Sizes BY ReadBackAssumption DEF Soft!HarqAssumption, N!Sizes
<1>2. Soft!Trusted => N!Soft!Trusted BY DEF Soft!Trusted, N!Soft!Trusted
<1>3. Soft!OnTime => N!Soft!OnTime
  BY DEF Soft!OnTime, N!Soft!OnTime, Soft!Nothing, N!Soft!Nothing
<1>4. Soft!Init => N!Soft!Init
  BY DEF Soft!Init, N!Soft!Init, Soft!Empty, N!Soft!Empty, Soft!Nothing, N!Soft!Nothing,
     Soft!Copies, N!Soft!Copies
<1>5. \A S : Soft!Max(S) = N!Soft!Max(S) BY DEF Soft!Max, N!Soft!Max
<1>6. \A newest : Soft!InTime(newest) <=> N!Soft!InTime(newest)
  BY DEF Soft!InTime, N!Soft!InTime
<1>7. Soft!Send => N!Soft!Send BY <1>5, <1>6 DEF Soft!Send, N!Soft!Send
<1>8. \A t, nseq : Soft!Retry(t, nseq) = N!Soft!Retry(t, nseq)
  BY DEF Soft!Retry, N!Soft!Retry
<1>9. Soft!Answer => N!Soft!Answer BY <1>8 DEF Soft!Answer, N!Soft!Answer
<1>10. Soft!Restart => N!Soft!Restart BY DEF Soft!Restart, N!Soft!Restart
<1>11. Soft!Capture => N!Soft!Capture
  <2>1. \A S : Soft!Min(S) = N!Soft!Min(S) BY DEF Soft!Min, N!Soft!Min
  <2>2. \A S : Soft!Cardinality(S) = N!Soft!Cardinality(S)
    BY DEF Soft!Cardinality, N!Soft!Cardinality
  <2>3. Soft!Qualities = N!Soft!Qualities BY DEF Soft!Qualities, N!Soft!Qualities
  <2> DEFINE Faulty(k, q) == {i \in 1 .. k : q[i] \notin {"clean", "board"}}
             Frames(k, q) == [i \in 1 .. k |-> [b |-> air[i], q |-> q[i]]]
             Caught(k, q, top, faults, r) ==
               LET rest == CASE q[k] = "cut" -> {k, k + 1}
                             [] q[k] = "junk" -> (k + 1) .. top + 1
                             [] OTHER -> {k + 1}
               IN /\ bad + faults <= MaxBad /\ bad' = bad + faults
                  /\ \A i \in 1 .. k : /\ q[i] = "cut" => i = k /\ k > 1
                                       /\ q[i] = "junk" => i = k
                  /\ \E next \in rest : air' = SubSeq(air, next, Len(air))
                  /\ rx' = [r EXCEPT !.sends = <<>>]
                  /\ softAsks' = softAsks \o r.sends
             top == Soft!Min({SUBFRAMES, Len(air)})
             topN == N!Soft!Min({SUBFRAMES, Len(air)})
  <2>4. Soft!Capture <=>
          /\ \E k \in 1 .. top : \E q \in [1 .. k -> Soft!Qualities] :
               Caught(k, q, top, Soft!Cardinality(Faulty(k, q)), Soft!Turn(rx, Frames(k, q)))
          /\ UNCHANGED <<copies, life, softSeq, softCache>>
    BY DEF Soft!Capture
  <2>5. N!Soft!Capture <=>
          /\ \E k \in 1 .. topN : \E q \in [1 .. k -> N!Soft!Qualities] :
               Caught(k, q, topN, N!Soft!Cardinality(Faulty(k, q)), N!Soft!Turn(rx, Frames(k, q)))
          /\ UNCHANGED <<copies, life, softSeq, softCache>>
    BY DEF N!Soft!Capture
  <2>6. top = topN BY <2>1
  <2> HIDE DEF Faulty, Frames, Caught, top, topN
  <2>7. QED BY <2>2, <2>3, <2>4, <2>5, <2>6, SameTurn
<1>12. [Soft!Next]_(Soft!vars) => [N!Soft!Next]_(N!Soft!vars)
  BY <1>7, <1>9, <1>10, <1>11 DEF Soft!Next, N!Soft!Next, Soft!vars, N!Soft!vars
<1>13. N!Soft!CleanGoesThrough /\ N!Soft!HandedOnce => Soft!CleanGoesThrough /\ Soft!HandedOnce
  BY DEF N!Soft!CleanGoesThrough, N!Soft!HandedOnce, Soft!CleanGoesThrough, Soft!HandedOnce
<1>14. QED BY <1>1, <1>2, <1>3, <1>4, <1>12, <1>13

-----------------------------------------------------------------------------
(* The results.                                                            *)

\* However a run ends, by its job, by the stop or by an error, channel and width are as they were
\* where its first two answers carried what it needs to know of them and each command of its
\* preparation and of its putting back was answered: KnewChannel, KnewWidth and failed (link.rs,
\* prepare, run, restore).
THEOREM AlwaysPutBack == Spec => []PutBack
<1>1. Init => (part = "meter" => MeterInv)
  BY MeterInit DEF Init
<1>2. (part = "meter" => MeterInv) /\ [Next]_vars => (part = "meter" => MeterInv)'
  <2> SUFFICES ASSUME part = "meter" => MeterInv, [Next]_vars, part' = "meter" PROVE MeterInv'
    OBVIOUS
  <2>1. part = "meter" /\ [Meter!Next]_(Meter!vars)
    BY DEF Next, NumberNext, SoftNext, WireNext, MeterNext, KeepNext, vars, meterVars, Meter!vars,
       Meter!ground
  <2>2. QED BY <2>1, MeterNextStep, ReadBackAssumption DEF ReadBackAssumption
<1>3. (part = "meter" => MeterInv) => PutBack BY DEF MeterInv, PutBack
<1>4. QED BY <1>1, <1>2, <1>3, PTL DEF Spec

\* resolve_link_seq gives a block its own number, whether it came in its turn or as a retry that
\* is late by less than a turn, whatever was lost, asked for, answered or overtaken meanwhile, and
\* neither takes a number nor asks for one of a block that was not sent.
THEOREM AlwaysReadAsItself == ASSUME Number!LinkTrusted PROVE Spec => []ReadAsItself
<1> DEFINE P == part = "number"
<1>1. N!LinkArqAssumption /\ N!LinkTrusted BY ReadBackAssumption, SameNumbers
<1>2. N!Spec => []N!ReadAsItself BY <1>1, N!AlwaysReadAsItself
<1>3. N!Spec => []N!NeverAhead BY <1>1, N!AlwaysNeverAhead
<1>4. Init => (P => N!Init) BY SameNumbers DEF Init
<1>5. [Next]_vars => (P' <=> P) /\ (P => [N!Next]_(N!vars))
  <2> SUFFICES ASSUME [Next]_vars PROVE (P' <=> P) /\ (P => [N!Next]_(N!vars)) OBVIOUS
  <2>1. part' = part BY DEF Next, NumberNext, SoftNext, WireNext, MeterNext, KeepNext, vars
  <2>2. P => [Number!Next]_(Number!vars)
    BY DEF Next, NumberNext, SoftNext, WireNext, MeterNext, KeepNext, vars, numberVars, Number!vars,
       Number!sender, Number!receiver
  <2>3. QED BY <2>1, <2>2, SameNumbers
<1>6. (P => N!ReadAsItself /\ N!NeverAhead) => ReadAsItself BY SameNumbers DEF ReadAsItself
<1> HIDE DEF P
<1>7. QED BY <1>2, <1>3, <1>4, <1>5, <1>6, PTL DEF Spec, N!Spec

\* A step of the soft buffers is one of theirs, and no other step is.
LEMMA SoftSteps ==
  [Next]_vars => ((part = "soft")' <=> part = "soft")
                 /\ (part = "soft" => [N!Soft!Next]_(N!Soft!vars))
<1> SUFFICES ASSUME [Next]_vars
             PROVE  ((part = "soft")' <=> part = "soft")
                    /\ (part = "soft" => [N!Soft!Next]_(N!Soft!vars))
  OBVIOUS
<1>1. part' = part BY DEF Next, NumberNext, SoftNext, WireNext, MeterNext, KeepNext, vars
<1>2. part = "soft" => [Soft!Next]_(Soft!vars)
  BY DEF Next, NumberNext, SoftNext, WireNext, MeterNext, KeepNext, vars, softVars, Soft!vars
<1>3. QED BY <1>1, <1>2, SameSoft

\* Every block that comes clean, by itself or from the board, is handed to the funnel: no soft
\* buffer of another block and no number of another block stands in its way (demod_loop, HarqCache,
\* delivered_seqs), whatever is lost, comes twice or is asked for again, as long as what comes is on
\* time.
THEOREM AlwaysGoesThrough ==
  ASSUME Soft!Trusted
  PROVE  Spec /\ [](part = "soft" => Soft!OnTime) => []CleanGoesThrough
<1> DEFINE P == part = "soft"   T == P => Soft!OnTime
<1>1. N!Soft!Init /\ [][N!Soft!Next]_(N!Soft!vars) /\ []N!Soft!OnTime
        => [](N!Soft!CleanGoesThrough /\ N!Soft!HandedOnce)
  BY SameSoft, N!AlwaysHandedOn
<1>2. Init => (P => N!Soft!Init) BY SameSoft DEF Init
<1>3. [Next]_vars => (P' <=> P) /\ (P => [N!Soft!Next]_(N!Soft!vars)) BY SoftSteps
<1>4. (P => N!Soft!CleanGoesThrough /\ N!Soft!HandedOnce) => CleanGoesThrough
  BY SameSoft DEF CleanGoesThrough
<1>5. T /\ P => N!Soft!OnTime BY SameSoft
<1> HIDE DEF P, T
<1>6. Spec /\ []T => []CleanGoesThrough BY <1>1, <1>2, <1>3, <1>4, <1>5, PTL DEF Spec
<1>7. QED BY <1>6 DEF T, P

\* No copy and no retry of a block is handed to the funnel a second time under the numbering that
\* is followed (demod_loop, delivered_seqs), as long as what comes is on time.
THEOREM AlwaysHandedOnce ==
  ASSUME Soft!Trusted
  PROVE  Spec /\ [](part = "soft" => Soft!OnTime) => []HandedOnce
<1> DEFINE P == part = "soft"   T == P => Soft!OnTime
<1>1. N!Soft!Init /\ [][N!Soft!Next]_(N!Soft!vars) /\ []N!Soft!OnTime
        => [](N!Soft!CleanGoesThrough /\ N!Soft!HandedOnce)
  BY SameSoft, N!AlwaysHandedOn
<1>2. Init => (P => N!Soft!Init) BY SameSoft DEF Init
<1>3. [Next]_vars => (P' <=> P) /\ (P => [N!Soft!Next]_(N!Soft!vars)) BY SoftSteps
<1>4. (P => N!Soft!CleanGoesThrough /\ N!Soft!HandedOnce) => HandedOnce
  BY SameSoft DEF HandedOnce
<1>5. T /\ P => N!Soft!OnTime BY SameSoft
<1> HIDE DEF P, T
<1>6. Spec /\ []T => []HandedOnce BY <1>1, <1>2, <1>3, <1>4, <1>5, PTL DEF Spec
<1>7. QED BY <1>6 DEF T, P

\* The next start of the transmitter finds the settings of the last save, every key that has a line
\* and every text that a line carries, or the defaults if the process ended inside the save,
\* whatever was set, saved and restarted before and however many threads save, unless two of them
\* wrote at once (config_lines, save_config, load_config_file, apply_set).
THEOREM AlwaysSavedComesBack == Spec => []SavedComesBack
<1>1. Init => (part = "keep" => KeepInv)
  BY KeepInitial DEF Init
<1>2. (part = "keep" => KeepInv) /\ [Next]_vars => (part = "keep" => KeepInv)'
  <2> SUFFICES ASSUME part = "keep" => KeepInv, [Next]_vars, part' = "keep" PROVE KeepInv'
    OBVIOUS
  <2>1. part = "keep" /\ [Keep!Next]_(Keep!vars)
    BY DEF Next, NumberNext, SoftNext, WireNext, MeterNext, KeepNext, vars, keepVars, Keep!vars
  <2>2. QED BY <2>1, KeepNextStep
<1>3. (part = "keep" => KeepInv) => SavedComesBack BY DEF KeepInv, SavedComesBack
<1>4. QED BY <1>1, <1>2, <1>3, PTL DEF Spec

\* A reader hands on the messages that were written, in order, each with all its version wrote of
\* it and nothing of its neighbours, and leaves only a connection that broke or one with a message
\* it cannot read next; and of a control payload the first of its messages come out, all that fit:
\* for any sizes of the lists and texts, for any versions, and wherever the connection breaks
\* (encode_msg, read_msg, decode_msg, pack_ctrl, unpack_ctrl).
THEOREM AlwaysReadAsWritten == Spec => []ReadAsWritten
<1> DEFINE I == part = "wire" => StreamInv /\ Wire!ControlWhole
<1>1. Init => I BY StreamInit, ControlInit DEF Init
<1>2. I /\ [Next]_vars => I'
  <2> SUFFICES ASSUME I, [Next]_vars, part' = "wire" PROVE StreamInv' /\ Wire!ControlWhole'
    OBVIOUS
  <2>1. part = "wire" /\ [Wire!Next]_(Wire!vars)
    BY DEF Next, NumberNext, SoftNext, WireNext, MeterNext, KeepNext, vars, wireVars, Wire!vars
  <2>2. QED BY <2>1, StreamStep, ControlStep
<1>3. I => ReadAsWritten BY StreamThen DEF ReadAsWritten
<1>4. QED BY <1>1, <1>2, <1>3, PTL DEF Spec

=============================================================================

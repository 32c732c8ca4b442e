------------------------------ MODULE ReadBack ------------------------------
(***************************************************************************)
(* What is written down in one place and read in another, and must be read *)
(* as what it was: the numbers of the blocks (LinkArq, with the queue of   *)
(* ConvTx), the transmissions and numbers demod_loop keeps of blocks it    *)
(* demodulates itself (Harq), the messages on a connection (WireFormat),   *)
(* the settings of the ground a measurement gives back (Bitrate) and those *)
(* of the transmitter in its file (Settings).  A behaviour is of one of    *)
(* them; the variables of the others stay.                                 *)
(***************************************************************************)
EXTENDS Integers

CONSTANTS
  MaxSeq, MOD, HALF, FAR, NACK_SPAN, NACK_CAP, ARQ_CACHE, MAX_RETX, Uncached, Rows, LongestLoss,
  LatestRetry, Dup, MaxQueued, MaxNacks, None,                    \* LinkArq
  SoftMod, SoftHalf, SoftFar, SoftSpan, SoftNacks, SoftCache, SoftRetx,
  HARQ_CAP, DELIVERED_CAP, SUBFRAMES, FRAME, MaxBlocks, MaxOnAir, MaxBad, MaxRestarts,   \* Harq
  LIST_MAX, TEXT_MAX, TLM_MAX, LIMIT, MAX_BODY, PAYLOAD, MaxSent,  \* WireFormat
  Channels, Widths, Full,       \* Bitrate
  Saves, MaxSets                \* Settings

VARIABLES
  part,
  seq, cache, asks, heard, retries, lastSeq, nacks, delivered, offset,
  copies, life, softSeq, softCache, air, softAsks, rx, bad,
  wrote, wire, broken, got, reader, ctrl,
  hop, bw, far, before, saved, job, stop, pc, failed,
  cfg, file, text, open, last, mixed, sets

Number == INSTANCE LinkArq
Soft == INSTANCE Harq WITH
  MOD <- SoftMod, HALF <- SoftHalf, FAR <- SoftFar, NACK_SPAN <- SoftSpan, NACK_CAP <- SoftNacks,
  ARQ_CACHE <- SoftCache, MAX_RETX <- SoftRetx, seq <- softSeq, cache <- softCache,
  asks <- softAsks
Wire == INSTANCE WireFormat
Meter == INSTANCE Bitrate
Keep == INSTANCE Settings

ASSUME ReadBackAssumption ==
  /\ Number!LinkArqAssumption /\ Soft!HarqAssumption /\ Wire!WireFormatAssumption
  /\ Meter!BitrateAssumption /\ Keep!SettingsAssumption

numberVars == <<seq, cache, asks, heard, retries, lastSeq, nacks, delivered, offset>>
softVars == <<copies, life, softSeq, softCache, air, softAsks, rx, bad>>
wireVars == <<wrote, wire, broken, got, reader, ctrl>>
meterVars == <<hop, bw, far, before, saved, job, stop, pc, failed>>
keepVars == <<cfg, file, text, open, last, mixed, sets>>
vars == <<part, numberVars, softVars, wireVars, meterVars, keepVars>>

\* What does not take part has no state.
Init ==
  /\ part \in {"number", "soft", "wire", "meter", "keep"}
  /\ IF part = "number" THEN Number!Init
     ELSE /\ seq = 0 /\ cache = 0 /\ asks = 0 /\ heard = 0 /\ retries = 0 /\ lastSeq = 0 /\ nacks = 0
          /\ delivered = 0 /\ offset = 0
  /\ IF part = "soft" THEN Soft!Init
     ELSE /\ copies = 0 /\ life = 0 /\ softSeq = 0 /\ softCache = 0 /\ air = 0 /\ softAsks = 0
          /\ rx = 0 /\ bad = 0
  /\ IF part = "wire" THEN Wire!Init
     ELSE wrote = 0 /\ wire = 0 /\ broken = 0 /\ got = 0 /\ reader = 0 /\ ctrl = 0
  /\ IF part = "meter" THEN Meter!Init
     ELSE /\ hop = 0 /\ bw = 0 /\ far = 0 /\ before = 0 /\ saved = 0 /\ job = 0 /\ stop = 0 /\ pc = 0
          /\ failed = 0
  /\ IF part = "keep" THEN Keep!Init
     ELSE cfg = 0 /\ file = 0 /\ text = 0 /\ open = 0 /\ last = 0 /\ mixed = 0 /\ sets = 0

NumberNext ==
  /\ part = "number" /\ Number!Next
  /\ UNCHANGED <<part, softVars, wireVars, meterVars, keepVars>>
SoftNext ==
  /\ part = "soft" /\ Soft!Next
  /\ UNCHANGED <<part, numberVars, wireVars, meterVars, keepVars>>
WireNext ==
  /\ part = "wire" /\ Wire!Next
  /\ UNCHANGED <<part, numberVars, softVars, meterVars, keepVars>>
MeterNext ==
  /\ part = "meter" /\ Meter!Next
  /\ UNCHANGED <<part, numberVars, softVars, wireVars, keepVars>>
KeepNext ==
  /\ part = "keep" /\ Keep!Next
  /\ UNCHANGED <<part, numberVars, softVars, wireVars, meterVars>>

Next == NumberNext \/ SoftNext \/ WireNext \/ MeterNext \/ KeepNext

Spec == Init /\ [][Next]_vars

-----------------------------------------------------------------------------

\* A block is taken for itself, in its turn or as a late retry, and the newest number seen and all
\* that is asked for are of blocks that were sent (resolve_link_seq, demod_loop).
ReadAsItself == part = "number" => Number!ReadAsItself /\ Number!NeverAhead
\* No soft buffer and no number of another block keeps a clean block back (demod_loop).
CleanGoesThrough == part = "soft" => Soft!CleanGoesThrough
\* No copy and no retry of a block is handed on a second time (demod_loop).
HandedOnce == part = "soft" => Soft!HandedOnce
\* A reader hands on what was written, whole and in order, and leaves only a connection that
\* broke or carries what it cannot read (read_msg); what a control payload carries comes out
\* as the first of its messages, all that fit (pack_ctrl).
ReadAsWritten ==
  part = "wire" => Wire!ReadAsWritten /\ Wire!LeavesForForeign /\ Wire!ControlWhole
\* A measurement puts the ground's settings back where it was told them and its commands were
\* answered (nyx-bitrate run).
PutBack == part = "meter" => Meter!PutBack
\* The settings of the last save come back (save_config, load_config_file).
SavedComesBack == part = "keep" => Keep!SavedComesBack

\* What the code says and does not do: a measurement puts everything back (link.rs 6-7) ...
EverythingBack == part = "meter" => Meter!EverythingBack
\* ... and every setting is in the file (tx lib.rs 877, 943-945).
EverySettingBack == part = "keep" => Keep!EverySettingBack
=============================================================================

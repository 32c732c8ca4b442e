------------------------------ MODULE Settings ------------------------------
(***************************************************************************)
(* The settings of nyx-tx: `set` on the console and the screen change      *)
(* them, `save` writes them to a file as lines of `key value`, the next    *)
(* start reads that file through the same apply_set (nyx-tx lib.rs;        *)
(* nyx-common control.rs: every connection of the console has a thread of  *)
(* its own, so two saves may be under way).  The process may end at any    *)
(* moment and starts again.                                                *)
(*                                                                         *)
(* A value is named for what becomes of it: a number is "below" or         *)
(* "above" what its key takes, the least or the greatest it takes, or the  *)
(* "default"; a text has a blank, a `#`, neither, or nothing in it.        *)
(***************************************************************************)
EXTENDS Integers, Sequences

CONSTANTS
  Saves,     \* bound: threads that save
  MaxSets    \* bound: settings changed in a behaviour

SettingsAssumption == Saves # {} /\ MaxSets \in Nat

VARIABLES
  cfg,    \* shared.config: the value of each key
  file,   \* the lines of the settings file: [key, val]
  text,   \* what each save under way writes
  open,   \* the saves that have emptied the file and not written yet
  last,   \* history: the settings the file was last written with
  mixed,  \* history: two saves were writing at the same time
  sets    \* settings changed so far

vars == <<cfg, file, text, open, last, mixed, sets>>

-----------------------------------------------------------------------------
(* apply_set                                                               *)

\* Keys of yes and no; the numbers brought within their limits; the numbers refused outside.
Switches == {"pass", "camadapt", "auto", "arq", "ir", "fec", "fecrs", "dup", "txconv", "filv", "txbits",
             "txpl", "pair", "autores", "smoothres", "simulcast", "chanmem", "stamp", "blindhold",
             "blindbase", "ltr", "rep2", "chanrate", "rep2interf", "fecsmall", "pause"}
Clamped == {"fps", "quality", "plsyms", "gap", "rep", "res", "cammax", "maxkbps"}
Ranged == {"blindfloor", "fecblind", "blindidr", "basemcs", "mcs"}
Words == {"rtsp", "file", "onvif"}
Choice == [source |-> {"pattern", "webcam", "rtsp", "data", "file"}, codec |-> {"h264", "mjpeg"}]
Keys == Switches \cup Clamped \cup Ranged \cup Words \cup DOMAIN Choice

\* Other names of a choice.
Named(val) ==
  CASE val = "ipcam" -> "rtsp" [] val = "video" -> "file" [] val = "jpeg" -> "mjpeg" [] OTHER -> val

\* What a key takes of a value: nothing when it is refused.
Taken(key, val) ==
  CASE key \in Switches -> {val} \cap {"default", "other"}
    [] key \in Clamped ->
         CASE val = "below" -> {"least"} [] val = "above" -> {"greatest"}
           [] OTHER -> {val} \cap {"least", "default", "greatest"}
    [] key \in Ranged -> {val} \cap {"least", "default", "greatest"}
    [] key \in DOMAIN Choice -> {Named(val)} \cap Choice[key]
    [] key = "onvif" -> IF val = "auto" THEN {""} ELSE {val}
    [] key \in {"rtsp", "file"} -> {val}
    [] OTHER -> {}

\* The settings after `set key val`; a value that is refused changes nothing.
apply_set(c, key, val) ==
  IF key \in Keys /\ Taken(key, val) # {} THEN [c EXCEPT ![key] = CHOOSE v \in Taken(key, val) : TRUE] ELSE c

Default ==
  [k \in Keys |-> CASE k = "source" -> "webcam" [] k = "codec" -> "h264" [] k \in Words -> ""
                    [] OTHER -> "default"]

-----------------------------------------------------------------------------
(* The file                                                                *)

\* The keys config_lines always writes after source, rtsp and file, in order.
Others == <<"pass", "camadapt", "onvif", "cammax", "maxkbps", "codec", "res", "fps", "quality", "auto",
  "mcs", "arq", "ir", "fec", "fecrs", "dup", "txconv", "filv", "txbits", "txpl", "pair", "gap", "rep",
  "autores", "smoothres", "plsyms", "simulcast", "basemcs", "chanmem", "stamp", "blindfloor",
  "fecblind", "blindidr", "blindhold", "blindbase">>

\* (faulty variant: the base layer's rung goes with the base layer only)
LineOfBase(c, k) ==
  [key |-> k, val |-> IF k = "basemcs" /\ c.simulcast = "default" THEN "default" ELSE c[k]]
LineOf(c, k) == [key |-> k, val |-> IF k = "onvif" /\ c[k] = "" THEN "auto" ELSE c[k]]
\* An address or a file that is not given has no line.
Given(c, k) == IF c[k] = "" THEN <<>> ELSE <<LineOf(c, k)>>

config_lines(c) ==
  <<LineOf(c, "source")>> \o Given(c, "rtsp") \o Given(c, "file")
    \o [i \in DOMAIN Others |-> LineOf(c, Others[i])]

\* What the rest of a line is read as: up to a `#`, its first word.
WordOf(val) ==
  CASE val = "word#tail" -> "word" [] val = "word tail" -> "word" [] OTHER -> val

\* A line without a value is skipped.
Applied(c, l) == IF WordOf(l.val) = "" THEN c ELSE apply_set(c, l.key, WordOf(l.val))

\* load_config_file: line by line, over the defaults.
load_config_file(lines) ==
  LET after[n \in 0 .. Len(lines)] == IF n = 0 THEN Default ELSE Applied(after[n - 1], lines[n])
  IN  after[Len(lines)]

\* A write from the beginning leaves what stood behind its end.
Over(new, old) == new \o SubSeq(old, Len(new) + 1, Len(old))

-----------------------------------------------------------------------------

Init ==
  /\ cfg = Default /\ file = <<>> /\ text = [s \in Saves |-> {}] /\ open = {} /\ last = Default
  /\ mixed = FALSE /\ sets = 0

Values(key) ==
  CASE key \in Switches -> {"other", "junk"}
    [] key \in Clamped \cup Ranged -> {"below", "above", "least", "junk"}
    [] key \in DOMAIN Choice -> Choice[key] \cup {"ipcam", "jpeg", "junk"}
    [] OTHER -> {"word", "word#tail", "auto"}

\* `set` on a connection of the console: the value is one word.
Set ==
  /\ sets < MaxSets /\ sets' = sets + 1
  /\ \E key \in Keys : \E val \in Values(key) : cfg' = apply_set(cfg, key, val)
  /\ UNCHANGED <<file, text, open, last, mixed>>

\* A file dropped on the window, an address typed: any text, or none.
Screen ==
  /\ sets < MaxSets /\ sets' = sets + 1
  /\ \E key \in Words, val \in {"", "word tail"} :
       cfg' = [cfg EXCEPT ![key] = val, !.source = IF key = "file" THEN "file" ELSE @]
  /\ UNCHANGED <<file, text, open, last, mixed>>

\* No camera opens: the worker goes over to the test pattern, in the settings.
NoWebcam ==
  /\ cfg.source = "webcam" /\ cfg' = [cfg EXCEPT !.source = "pattern"]
  /\ UNCHANGED <<file, text, open, last, mixed, sets>>

\* save_config takes the settings under their lock ...
Save(s) ==
  /\ text[s] = {} /\ text' = [text EXCEPT ![s] = {cfg}]
  /\ UNCHANGED <<cfg, file, open, last, mixed, sets>>

\* ... opens the file, which empties it ...
Open(s) ==
  /\ text[s] # {} /\ s \notin open
  /\ open' = open \cup {s} /\ mixed' = (open # {})
  /\ file' = <<>> /\ last' = Default
  /\ UNCHANGED <<cfg, text, sets>>

\* ... and writes it.
WriteOut(s) ==
  /\ s \in open /\ open' = open \ {s}
  /\ \E c \in text[s] : file' = Over(config_lines(c), file) /\ last' = c
  /\ text' = [text EXCEPT ![s] = {}]
  /\ UNCHANGED <<cfg, mixed, sets>>

\* The file cannot be opened: the answer says so.
SaveFails(s) ==
  /\ text[s] # {} /\ s \notin open /\ text' = [text EXCEPT ![s] = {}]
  /\ UNCHANGED <<cfg, file, open, last, mixed, sets>>

\* The process ends, and starts again from what is in the file.
StartsAgain ==
  /\ cfg' = load_config_file(file)
  /\ text' = [s \in Saves |-> {}] /\ open' = {} /\ mixed' = FALSE
  /\ last' = load_config_file(file) /\ file' = file
  /\ UNCHANGED sets

Next ==
  \/ Set \/ Screen \/ NoWebcam \/ StartsAgain
  \/ \E s \in Saves : Save(s) \/ Open(s) \/ WriteOut(s) \/ SaveFails(s)

-----------------------------------------------------------------------------

\* The keys of a line in the file, and the texts a line does not carry whole.
Written == {Others[i] : i \in DOMAIN Others} \cup {"source", "rtsp", "file"}
Broken(c) == {k \in Words : c[k] \in {"word#tail", "word tail"}}

\* Unless two saves wrote at once, a start finds each setting config_lines writes as the last save
\* had it, or the defaults when the process ended inside the save.
SavedComesBack ==
  ~mixed => LET c == load_config_file(file) IN \A k \in Written \ Broken(last) : c[k] = last[k]

\* What the code says: the lines are those of every key apply_set reads back (lib.rs 877), for a
\* restart used to lose every setting (943-945).
EverySettingBack ==
  ~mixed => LET c == load_config_file(file) IN \A k \in Keys \ Broken(last) : c[k] = last[k]
=============================================================================

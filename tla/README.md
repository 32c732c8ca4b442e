# nyxhop in TLA+

nyxhop sends live video and data over a home-made OFDM radio link. An airside program (`nyx-tx`,
on a PC, a phone or the camera board) encodes a picture, cuts it into blocks and hands them to a
radio board; the ground board hands what it captures to `nyx-rx`, which puts the frames together
again, decodes them and tells the transmitter what is missing. The boards' own software is not in
the repository. This directory holds TLA+ models of the programs' core logic, TLC
configurations that check them on small instances, and TLAPS proofs of what holds for all.

Paths below are relative to the repository; `rx` is `apps/video/nyx-rx/src/lib.rs`, `tx` is
`apps/video/nyx-tx/src`, `worker` is `tx/worker.rs`, `link` is `link/nyx-link/src/lib.rs`, `proto`
is `link/nyx-proto/src/lib.rs`, `common` is `link/nyx-common/src`.

## 1. Inventory

    camera/file/pattern -> worker (encode, rate) -> packetize -> ConvTx queue -> conv-tx -> Net --+
                              ^        ^                 ^                                        |
                 Ltr, Feedback|        | NACK answers     \ block labels (link_seq)               v
                              |        |                                             board ~ radio ~ board
    read_side (nyx-tx) <------+--------+------ board <~ radio ~ board <- net-writer               |
                                                                        ^                         v
    screen <- playout <- decoder <- reorder stage <- Reassembler <- demod_loop <- pool <- read loop

| component | state | operations | hard behaviour | what makes it correct |
|---|---|---|---|---|
| transmit queue (`tx/conv_tx.rs`) | items, index of retransmissions, air waiting, closed flag | push, push_retx, push_dup, push_mcs, push_wait, sender loop, drop | two threads, two condition variables, back-pressure, shutdown | blocks accounted for, order, retransmissions first, bound, nobody stalls |
| block numbers, copies, retransmissions (`worker`, `rx`) | link_seq, cache, outstanding NACKs, soft buffers, delivered set | number, cache, answer, resolve, combine, ask | eight bits on the air; loss, lateness, duplication; a restart | a block is taken for itself, once, and no clean one is lost |
| reassembly funnel (`link`) | partial frames, finished ids | push, take_stale, progressing, has_partial | blocks in any order and late, parity | complete frames leave at once |
| reorder stage (`rx` demod_loop) | cursor, waiting frames, ages | queue, release, skip, resync | holes that are phantoms, losses or repairs on their way | decoder order; every id accounted for; nothing waits for ever |
| front of the receiver (`rx` push_capture, spawn_demod, demod_loop) | queue, stash, worker results, next number | queue, stash, claim, number, consume, valve, sweep | bounded stores in a ring, slow or dead worker | nothing copied or forgotten, order, no deadlock |
| connection of the transmitter (`tx/net.rs`, `tx/lib.rs`) | three handles of a socket, flags | dial, read, send, switch off, change transport, reconnect | half-open connections, blocked writes, races with the host | reconnects; the board's only port is let go |
| connection of the receiver (`rx` spawn_net, net-writer, udp_loop) | sockets, chunks of a capture | dial, read, write, assemble, redial | writes without a time limit under a lock | both ways again; captures are whole |
| picture repair (`worker`, `rx`, `common/codec.rs`) | need_idr, backoff, survival mode, long-term reference | encode, ask, confirm, refuse, recreate | requests and answers lost independently | the picture comes right, requests end |
| rate control (`worker` 834-1917, 2846-2943) | rung, windows of outcomes, backoffs, memories; size of the picture; ceiling of the bitrate | climb, fall, probe, survive, cut | noisy feedback; latches | no rung kept that delivers nothing; climbs back; no cut without a loss |
| playout (`rx` spawn_playout) | queue of pictures, next time | push, trim, publish | the screen's lock is held by the window | order; the last picture is shown |
| camera pass-through (`common/source.rs`, `worker` pass_next) | queue of access units, broken flag | push, clear, take, drop late | three threads, new sessions | only decodable pictures are sent, and they resume |
| bitrate of a camera (`common/onvif.rs`, `nyx-ipcam`) | camera's bitrate, ceiling, wish, connection | read back, set, keep the ceiling | crashes, lost answers, other writers | never above its own; follows the link |
| bitrate meter (`nyx-bitrate`) | saved channel and width, the job | prepare, measure, restore | a command fails half way, one board is far | the boards are left as found |
| start screen and consoles (`common/start.rs`, `boardctl.rs`, `nyx-board`) | role of the board, slot of the poll; commands queued | ask, switch, follow; ask, order, dial | stale and lost answers | the host follows others only; an answer is its question's |
| settings (`tx/lib.rs`, `common/control.rs`) | settings, file | set, save, load | two saves at a time, an end inside one | the last save comes back |
| phone (`nyx-mobile`) | next id, frames held | take, release, jump | late blocks, frames that never complete | order; nothing waits |
| wire format (`proto`) | none; a stream of bytes | write, read, pack | versions, limits, a broken connection | read as written |
| codec, windows, web page, camera drivers, fake camera, scripts | presentation or external | - | - | - |

The hazards of this code, each at its line and with the properties that would catch it, are the
list `hazards` of `PROJECT.json`; the components and their status are its list `components`.

## 2. The modules

| module | models | composed of |
|---|---|---|
| `ConvTx` | the transmit queue | |
| `Reorder` | the reorder stage, with any input | |
| `Reassembler` | the funnel, as operators on a record | |
| `VideoFeed` | abstract: what the decoder is promised | |
| `Delivery` | captures to decoder: gap NACKs, funnel, reorder stage | `Reorder`, `Reassembler`; implements `VideoFeed` |
| `VideoRepair`, `RateControl` | keyframe requests, references, survival mode; the choice of the modulation rung | `FeedbackLoops` |
| `Ladder`, `AirScale`, `CameraRate` | size of the picture, ceiling of the bitrate, bitrate of a camera | `PictureRate` |
| `CameraPass` | access units of a pass-through camera | |
| `LinkArq` | block numbers, NACKs and the cache | `ReadBack` |
| `Harq` | soft buffers, copies and restarts where blocks are demodulated on the computer | `ReadBack` |
| `WireFormat`, `Bitrate`, `Settings` | messages, the meter's save and restore, the settings file | `ReadBack` |
| `TxLink`, `RxLink` | the connections of both ends | `Ends` |
| `Predemod`, `Playout` | captures from the socket to demod_loop; pictures from it to the screen | `Ends` |
| `Chooser`, `Console`, `PhoneOrder` | start screen, board consoles, the phone's ordering | `Ends` |
| `ConvTxProofs`, `DeliveryProofs`, `PredemodProofs`, `CameraPassProofs`, `BlockProofs`, `EndsProofs`, `ReadBackProofs`, `PictureRateProofs` | theorems | each extends the module it is about; `EndsProofs` takes over the theorems of `PredemodProofs`, `ReadBackProofs` those of `BlockProofs`, by `INSTANCE` |

`Ends`, `ReadBack`, `PictureRate` and `FeedbackLoops` do not let their parts interact: the programs share no state
there. A behaviour is of one part, chosen in `Init`, and a property of theirs names those of the
parts. They exist so that questions of one kind are one run. Each `MC` module extends a module
and gives the constants that a `.cfg` cannot. The entry `map` of `PROJECT.json` names for every
definition the lines it stands for. Definitions marked *faulty variant* are what a plausible
mistake would make of the definition below them; they take no part in the specification, and show
that the properties notice.

**ConvTx.** One critical section of the queue's mutex is one action, and a notification after the
unlock is one of its own, since the other thread may run in between. The worker's actions are the
calls it makes (`push`, `push_retx`, ...), the sender's are taking, writing, pacing. Time limits of
waits are left out of the fairness, so that what ends does so without them. Two things the code
does differ from its comments and are modelled as coded: a block taken from the queue is also lost
where there is no connection to write to (conv_tx.rs 12 and 56 speak of the full queue only), which
is the reason `uncarried` of `Conserved`; and the branch for a block of more than `MAX_FRAGS`
fragments cannot be reached (the slowest rung needs ten of twelve).

**Reorder** is the part of `demod_loop` from a completed frame to the decoder. What the funnel says
about the hole at the cursor is an input, any answer at any time, so what is proved does not depend
on the funnel. Ages are ticks of a clock that stands still during a handler. **Delivery** replaces
the inputs by the funnel (`Reassembler`) and the bookkeeping of NACKs, and adds the histories its
properties need. **VideoFeed** is what remains when all that is forgotten: frames in order, each at
most once, none of which too few blocks came. A capture carries at most one block in `Delivery`.

**LinkArq** has the transmitter's full numbers, the receiver's, and only the low part on the air.
First transmissions come in order, retries at any time within `LatestRetry`. `offset` is the constant
multiple of the modulus by which the two numberings differ. **Harq** is the other path, on which
every block is demodulated on the computer: a capture carries several frames, a block is sent in
copies and again, what could not be decoded is kept and combined under its number, and the
transmitter may start again. The decoder is taken at its worst: a buffer that holds transmissions
of two blocks decodes to nothing.

**Predemod** has each thread's step between two accesses to shared state as an action. Taking a
capture and numbering it are one, because both happen under the queue's lock. A capture comes as
samples, as samples the board says it decodes nothing of, as symbols or soft bits, or decoded.

**TxLink** separates what the thread of the connection does line by line, so that the host's requests
fall in between. A board that stops reading, stops relaying, closes or vanishes is an action each.
**RxLink** has the reader and the writer of the receiver with the lock between them; breaking, a
board going away, the operator's press and the kernel's time limit are actions, and so are the
datagrams of a capture in any order, lost and doubled.

**VideoRepair** has one picture on the air. The elapsed times the code compares with its limits are
inputs (an interval is over or not); a picture comes whole, is lost and noticed, or is lost and not.
Not in it: a receiver that restarts and counts from zero again (survival mode then lasts until its
count has caught up).

**RateControl** takes a second of the worker's loop as one action: a window that is measured, a second
held after a change of width, or a blind one. The decision is a chain of functions on the record of the
worker's locals, in the order of the code. The environment is a channel (the share of blocks each rung
gets through, the SNR, how many probe blocks the traffic makes a window, whether reports come), which changes at most twice. Counts are shares in per cent,
averaged 60 to 40 as the code does for a steady stream; that blocks are few, and the history's weight is
capped when their number changes, is not in it. **Ladder** takes a turn of the loop as one action and the
link's capacity as input; its timers are turns. **AirScale** has ratios in 25ths and the ceiling in
steps up. **CameraRate** has bitrates as levels of the thirty per cent a step up may be; the
process may end and start again at any moment, between emptying the file and writing it too.

**CameraPass** has the camera's reader, the worker and the session that is made anew; an access unit is
its number in the camera's stream and whether it is a key frame.

**WireFormat** has a message as the sequence of its fields, each with the length it gives the lists and
texts behind it. Two programs of different versions write and read; the connection may break
anywhere. **Settings** has a value of a setting named for what becomes of it (below its range, a text
with a blank in it); a save is three steps, so that another save or the end of the process falls in
between. **Bitrate** has a measurement command by command: each is carried
out and answered, refused, or carried out and its answer lost. An answer may lack a field, the channel
among them, which is then neither held nor put back; a command without an answer in the preparation ends
the run there, with nothing put back.

**Chooser** has the poll, the switch and the host as three threads over the slot they share, and a board
whose role another computer may change. **Console** has a board's command thread and what the board
answers. **PhoneOrder** has the frames of a transmitter that may start again. **Playout** has the window
holding the screen's lock as an action.

## 3. The runs

| run | asks | bounds, and why they are enough |
|---|---|---|
| `conv_tx` | any interleaving of worker, sender and notifications | air 1 or 2 against a limit of 2, two blocks queued, two numbers and two repeats: full by air, full by count, one block over the limit, a retransmission over a full queue |
| `delivery` | losses, garbled blocks, repairs in any order, a jump, a frame that may be shown in part | four ids: a frame of two blocks, one of three with parity (two of three is over 60 %, so all three outcomes of `take_stale` occur), a phantom, and a frame of one block two ahead of a cursor stuck before it |
| `feedback_loops` | pictures and reports lost, then a clean link or no way back; fades, bursts that hit all rungs or some, jamming, outages, a probe that lies, lost reports, width changes, hops | two repairs, two keyframes of survival mode (three in the code: one more of the same step); four of six rungs, two changes of the channel (a second one finds all that the first left behind), limits scaled to a few seconds in their order; eleven windows is the shortest `DeadLimit` that holds. Five probe blocks a window, of which twelve in three end the repeat step, as forty in eight do in the code; and a clear channel with three, where it never ends |
| `picture_rate` | capacities and losses that change and then stay; seconds without reports; cameras, their restarts and the program's | four rungs of the picture with timers of two to four turns, and lost pictures counted over five (as in the code, longer than a rung takes to settle); six steps of the ceiling, three seconds without reports; two cameras of different bitrates and ranges |
| `camera_pass` | the camera's reader, the worker and new sessions in any order | a queue of two, which overflows, and is then long enough for the interval between two units to be left out |
| `read_back` | numbers, soft buffers, messages, a measurement and a settings file, each written in one place and read in another | numbers modulo 6 and 8: every number but one comes round again; one soft buffer and two frames a capture; messages of two entries, one of each kind and both versions; two channels, two widths, any field of an answer missing; two saves |
| `ends` | the programs around the pipeline | three requests of the host; two boards; five pictures through three places; two changes of role; four frames and a window of two; two consoles; four captures, one as samples and as soft bits, one as samples that the board leaves out, stores of one slot and two workers, one of which may die |
| `link_arq_base`, `tx_link_mute`, `phone_restart`, `settings_keys`, `meter_halfway` | what a comment says and the code does not | violated, see 5 |

Every property of a passing run is paired in `mutants` with a change of one definition that breaks it.

**Deadlock** is not checked where the system may rightly stop: a transmitter that has sent all its
bounded blocks (`conv_tx`, `read_back`), a stream that is over (`delivery`), a program that waits for its
operator (`ends`). `feedback_loops`, `picture_rate` and `camera_pass` must not stop.

**Fairness.** Threads that can run do (weak fairness of each thread's step). `ConvTx`: the sender and the
worker's pending notification and recheck, not the producer of blocks. `Delivery`: the thread runs,
time passes, and captures go on coming, be they noise, for nothing is released without one; the radio
need not deliver any block. `Predemod`: threads and the sweeper's clock, not the board. `TxLink`:
threads, the two time limits of the socket (they are what makes a blocked call fail), and a board that
is reading does read. `RxLink`: the reader, the beat, a press of the button that is carried out, and the
kernel, which ends a write that waits on a dead connection. `Playout`: the playout thread's tick and a
thread that publishes. `Chooser`: poll, preparation, the host's frames, and a board that restarts comes
back. `Console`: the thread, seconds, and a board that is not away answers. `PhoneOrder`: the
transmitter sends, blocks come, time passes, and of the blocks that come after a wait is over one again
and again completes nothing (strong fairness: blocks come more often than one frame is handed over in
part again, which begins its wait anew). `VideoRepair`: pictures go on being encoded and their
intervals pass (strong fairness, for the encoder's step is disabled while a picture is on the air), and a
feedback that is due is sent; nothing obliges the encoder to make keyframes, marks or repairs of its own.
The spell of three seconds without a repair, which makes the tries start over, may come on a clean link
only when nothing is asked for, because a request is answered within the longest backoff, 2.8 s.
`RateControl`, `Ladder`, `AirScale`: turns and seconds pass, the channel need not change. `CameraRate`: the
onvif thread's steps, the worker's, the watcher's, and a write to the file that was begun. `CameraPass`:
both threads; a camera sends key frames again and again, and the worker, which finds the queue
empty in between, takes from it again and again (strong fairness of both).

## 4. The proofs

The proofs hold for every value of the constants: any limits, window and store sizes, timers, numbers of
frames, blocks, workers, boards and threads. In each module an invariant is proved to hold in `Init` and to be
kept by each action (one lemma per action, or per group that leaves the same things alone); an action
property then follows from the invariant and one look at the action it is about. What a recursion over data
computes is never assumed: where it matters, the sum, stream or file it runs over is a recursive function
or a definition without recursion, and the claim is shown by its least counterexample (`WFMin` of the library).

**The transmit queue** (`ConvTxProofs`): type correctness (`TypeCorrect`), that every block is accounted for
(`NoBlockUnaccounted`), that retransmissions are ahead of the rest (`RetxOvertakes`), that first
transmissions keep their order (`FirstTimeInOrder`) and that the air waiting is bounded (`AirStaysBounded`).
The first two are inductive with little help. The order is not: that the next number taken is above the
last one written needs that the numbers in the queue increase among blocks that are not repeats, are above
what was written and what is in the sender's hand, and are at most the worker's counter, together with where
the retransmissions stand (`retxHead` of them at the head, and no more). The bound needs that the account
the code keeps is the air of what waits, so that taking the last block that may be dropped brings it to
zero; that a sum over a queue changes by what is put in or taken out is proved without induction, by the
least prefix for which it fails.

**From the air to the decoder** (`DeliveryProofs`). The reorder stage is first proved alone, with any input:
type correctness (`TypeCorrect`), waiting frames are ahead of the cursor (`QueueStaysAhead`), every id the cursor
passed is accounted for (`EveryIdAccounted`), and the decoder's order (`DecoderOrder`). Then with the funnel
and the captures before it: the same accounts (`EveryIdAccountedOnAir`), and that the two together implement
`VideoFeed` (`FeedIsKept`): initial states map to initial states, each step to a step of `VideoFeed` or to none.
What carries the refinement is that the funnel makes nothing up (`Backed`): the blocks of its partial
frames are blocks that were read, each at its own place, and a frame that is completed, waits or is shown
has as many as it needs. All this is under the hypothesis `NoWrap`: ids do not reach the point where the 32-bit
counter wraps. It is needed, for where ids wrap the first entry of the `BTreeMap` is the newest frame, and
the skip (rx 2446) leaves an older one behind; at sixty frames a second that is after two years.

That a frame which was sent is skipped as a phantom only for a reason (`AlwaysVanishedExplained`) needs more
memory (`Tracked`): every block up to the newest, and every block of a frame before one that was completed,
came, is asked for, or is one no NACK covers any more; and the frame of a block that came is in the funnel, was
thrown away there, or was completed. Its hypotheses are `Apart` (ids keep away from the wrap on both sides, NACKs
and partial frames are kept for some time at all; the run `delivery` has constants for which it holds) and
that no frame is completed more than `BEHIND` ids behind the cursor (`FarBehind`). The second is necessary:
such a frame is taken for a restart of the numbering, the cursor goes back over frames that were shown, and finds
no trace of them in the funnel. The code takes 256 ids for it, four seconds of video at sixty frames, while a NACK is kept for
two; in the run `delivery` no such frame exists.

**Block numbers** (`BlockProofs`, `ReadBackProofs`): a block is taken for the number it has from its low eight bits
(`AlwaysReadAsItself`), and no number the transmitter has not reached is taken or asked for
(`AlwaysNeverAhead`). The invariant says that the receiver's numbering is a whole number of turns off the transmitter's
(`InStep`), that it is at most the longest loss behind, and that what is under way answers a young NACK, once. They
hold only within what the link is trusted with (`LinkTrusted`), and each bound is necessary: the longest run of
losses is below `FAR` (32), a retry is at most a turn less the queue late (`LatestRetry + MaxQueued < MOD`
and `LatestRetry < MOD - FAR`), an answer comes while its NACK is young, every block is cached and no retry is sent twice.
Without the cached base layer `link_arq_base` is what happens; with `dup` on, a second copy of a retry that is half a
turn late can be read as a number ahead (`NeverAhead` fails); `dup` is off by default.

**Soft buffers, copies and restarts** (`BlockProofs`, `ReadBackProofs`): every block that comes clean is handed to the
funnel (`AlwaysGoesThrough`), and none a second time while its numbering is followed (`AlwaysHandedOnce`); both are
`AlwaysHandedOn` for the part alone. The lives of the transmitter come one after the other on the air (`OneByOne`), and
as long as the newest transmission had is of the life the receiver follows (`Current`), every number it holds is the block's
own, less one and the same multiple of the modulus (`Numbered`): so a buffer holds transmissions of one block, which one
clean transmission decodes, and a number that is remembered as delivered is of a block that was handed on. What the memory
forgets is then at least half a turn old: the oldest of `DELIVERED_CAP` different numbers that are all near the
newest cannot be near it too (`OldestIsFar`, by counting). The theorems ask two things. `Trusted`, of the constants: half a turn is at
most half the modulus, a jump at most half a turn, and two half turns less one are remembered (256, 128, 32 and
512 in the code; the run, with five numbers remembered of the seven, and no bound on lateness but its counts, goes beyond it). `OnTime`, of the link: what
comes is less than half a turn behind the newest the receiver has had by then, at most `FAR` ahead of it, and has a number in the
receiver's numbering. The last is about the first blocks: where the first that comes is not the
first sent, an earlier one has a difference below zero, which is cut off at zero (rx 3386), and is read as number 0.
The transmitter sends as it likes within that, fails in the middle of a message, and starts again any number of times.

**The front of the receiver** (`PredemodProofs`, `EndsProofs`), under `PredemodAssumption`: no result of the pool waits for
a turn that is over and no more wait than the valve lets (`NoResultBehind`), captures are consumed in the order of
the queue but for the numbers the valve gave up (`ConsumedInOrder`), and every capture is in one place
(`EachInOnePlace`): in the queue, the stash, with one worker, among the results, consumed, or dropped for a
reason the code has. Two parts of the invariant carry the order: a number is in one place only, with a worker,
in the channel or waiting, and a full valve has just been opened, so that what comes next is among those that
wait. The accounts add that what left one store is in no other (`PlaceInv`). `AlwaysOnceInOrder` states
the three of the run `ends`.

**The programs around it** (`EndsProofs`). A connection is dialled only when no handle of the last one is left,
and a transmitter switched off keeps the board's port only where the request fell into the dialling
(`OldHandlesGone`; the invariant says when each handle may be there, and that a request to switch off is carried
out, remembered or one of those missed). A capture that comes in datagrams is handed on whole
(`HandedOnWhole`: the chunks kept are the first of one capture, in order). The screen never goes
back to an older picture (`ShownNeverOlder`), although the playout thread puts back what it could not show.
The phone feeds its decoder in order (`AlwaysFedInOrder`): what waits is not behind the next id, what was
fed is, and while there is no next id nothing waits. The host follows others only (`FollowsOnlyOthers`): as long
as no other computer gave the board a role, one that answered as wanted still has that role, and the slot names nothing else. An answer is its question's and
an order is carried out once at the most (`AnswersAlwaysMatch`): one command or one answer is on its way at a
time, an order is in the queue or leads a round and never both, and one that was carried out is in neither once its
answer is read.

**Camera pass-through** (`CameraPassProofs`): what goes on air is a key frame or follows what was sent before
(`SentIsDecodable`). It needs to say of three threads at once what the consumer will take next: unless
it is about to skip to a key frame, the head of the queue is one or follows the last one sent
(`HeadFollows`), what the session will put behind an empty queue does so too (`NextFollows`), and what is in
the queue follows itself (`Chain`). That the consumer finds the first key frame is a lemma on the
least number of a set.

**What follows from the capacity** (`PictureRateProofs`). One burst of lost pictures costs one rung
(`OneRungPerBurst`): while the capacity was always enough, the pictures lost since the rung was changed, and
young enough to count, are no more than those paid for it (`LadderInv`). A link that loses nothing is not cut
(`LosslessNeverCut`): after a gap in the reports the average of delivered to needed is as far back as the
number of windows since allows, and by the time the code judges again that is far enough (`RateInv`). No camera is
driven above the bitrates the cameras came up with, the operator's ceilings and the floor (`NoCameraAbove`),
through ends of the program inside a save: whatever the settings, the file, the thread and the worker hold is within
these (`CameraInv`).

**Read back** (`ReadBackProofs`). The ground board is put back (`AlwaysPutBack`) where every command of the preparation
and of the putting back was answered (`failed` is empty), and the answers read at the start carried what has to be known: the width as it was
(`KnewWidth`), and of the channel whether the board was on auto and, if not, which channel or that none is to
be held (`KnewChannel`). What carries it is that the channel saved is then the one there was (`SavedAsBefore`), that one which
was not told is not touched (`NotHeld`), and that the width is back before the channel is (`WidthBack`). What
happens without the hypotheses is the run `meter_halfway`.

Messages and control payloads come out as they were written (`AlwaysReadAsWritten`), for any lengths of their
lists and texts, any versions of the two programs, and wherever the connection breaks. The invariant (`StreamInv`) says that what is
left on the wire is what was written behind what was read, cut where it broke; the reader stops there, or at a message it
refuses. That each kind of message comes back as its tables of fields say is one lemma over the tables (`Tables`), and that
what a run of fields takes from the wire is what it put there goes by the least field for which it does not. The
assumptions are that the limit of a body holds the fixed fields, the longest text and the longest telemetry list
(`ReadBackAssumption`; 64 MiB in the code).

The settings of the last save come back at the next start, or the
defaults if the process ended inside the save (`AlwaysSavedComesBack`): a save that is alone finds the file empty,
so what it writes is the lines of its settings and nothing else; and what `load_config_file` makes of those lines
is each value as the line carries it, for the least line after which that is not so would be one that changes
another's key. Two saves at a time may leave a mixture, which the property names.

The proofs rest on the named assumptions about the constants, in the modules that declare them
(`ConvTxAssumption`, `ReorderAssumption`, `ReassemblerAssumption`, `DeliveryAssumption`, `CameraPassAssumption`,
`PictureRateAssumption`, `EndsAssumption`, `ReadBackAssumption`), which TLC evaluates in the runs, and on the
hypotheses named above: `NoWrap`, `Apart` and `FarBehind` in `DeliveryProofs`; `LinkTrusted`, `Trusted` and `OnTime` in the
two modules of the numbers; `PredemodAssumption`, `LinkArqAssumption` and `Sizes` of `BlockProofs`, which follow from those of `Ends` and `ReadBack`. In the runs
`ends`, `read_back` and `picture_rate` the properties of a part appear behind `part = ...`, and the theorems
state them so.

Only model-checked are:

* liveness, all of it: the prover has no fairness and no `ENABLED`;
* `LeavesDead` of `RateControl`: it counts the windows on a rung that delivers nothing through a decision of some
  twenty branches, and holds as long as the channel changes at most twice;
* so `VideoRepair`, `RateControl` and `FeedbackLoops`, which puts them together, are the modules without a theorem.

## 5. Where code and words differ

Runs that expect a violation:

* `link_arq_base`: blocks of the simulcast base layer take numbers and are not cached, so the cache
  reaches back more than 256 numbers and a NACK for one is answered with the block 256 before it, which
  the receiver takes for it (worker 2981 says the low byte is unambiguous within the cache).
* `tx_link_mute`: a write that timed out drops the writer's handle only; while the board relays anything,
  the reader stays and nothing dials again (net.rs 179-182 says the connection is dropped and made anew).
* `phone_restart`: the phone drops every frame of a restarted transmitter until its ids pass the old ones
  (nyx-mobile lib.rs 421 says a restart makes it jump).
* `settings_keys`: `ltr`, `rep2`, `chanrate`, `rep2interf`, `fecsmall` and `pause` have no line in the file, so they are at
  their defaults after every restart (the comment at tx/lib.rs 877 speaks of every key that `apply_set` reads
  back, and 943-945 says that a restart used to lose settings). `SavedComesBack` is about the keys that have a line.
* `meter_halfway`: `prepare` of the bitrate meter returns at a command without a good answer and leaves the channel held (link.rs
  382, 385, 634), though the header (4-7) says that everything is put back after.

Met while modelling, modelled as coded, and without a run of their own:

* a frame some of whose blocks came and were dropped by the funnel is skipped as one that never
  existed (rx 2425 says no fragment of such a frame was ever seen); `VanishedExplained` names the case;
* the repeat step needs 40 probe blocks in 8 windows to end (worker 1778, 49-50), and every twelfth block
  is a probe (conv_tx.rs 36); a stream of fewer than 60 blocks a second gives too few, and the step stays on
  over a channel that has become clean, and the rung with it. The comment at worker 45-46 counts on 4 to 8 a window, of
  which 4 are too few. `RepeatEnds` and `Settles` name the condition (`Enough`); the run has traffic on both sides of it;
* rx 1941 says each number is asked for exactly once, but one whose payload does not decode is
  asked for again (rx 2258-2263); rx 1623-1625 speak of two more requests, which are never made;
* with the concealing decoder the first picture after a gap withdraws the request for a keyframe before
  a feedback carried it (rx 2493; rx 2691-2694 say the request stands beside the repair), and such a decoder
  confirms references that are themselves smeared;
* `HarqCache` (rx 1476) is called an LRU and throws away the oldest entered; after a restart of the
  transmitter its clean blocks are dropped as duplicates, or spoiled by an old buffer, until its picture numbers are
  seen to jump;
* the ceiling of the bitrate is cut once when reports come back after a gap, for all that was sent meanwhile
  counts as needed in one second (worker 2853-2873); `OnlyLossCuts` leaves that window out;
* a late frame raises the wish for the camera's bitrate to 250 kbit/s at least (worker 2046), even where the
  ceiling is lower, so a camera whose own bitrate is below that can be set above it; `NeverAbove` leaves the
  floor out;
* the timer that lets the picture go down in one turn at a crash of the capacity is not reset when the
  size falls, though the comment at worker 912 says the crash has to last;
* the onvif thread writes the whole encoder configuration from a copy that is up to ten seconds old; a wish outside the
  camera's range is sent again every few seconds; the ceiling of the first camera stays when another
  one is named; `set cammax 0` is undone within 250 ms by nyx-ipcam; with adaptation switched off the camera stays
  lowered; a program that ends between lowering the camera and saving the ceiling takes the lowered
  bitrate for it at its next start;
* a program that ends inside a save leaves an empty file, and the next start takes the defaults; two saves at once may
  leave a mixture; an address with a blank or a `#` does not survive; the worker's fall-back to the test pattern is written into the settings, and saved with them;
* a press of the receiver's connect button while it dials is lost; over UDP connecting to another
  address has no effect; a write that waits holds up the reader's clean-up;
* errors of `restore` of the bitrate meter are ignored, and a channel the board did not report is not put back, even where
  another was asked for and held (link.rs 372, 399; `KnewChannel` names it);
* with `set role` switched off on a board of the other end, the host follows it to that end at once; an
  answer to `role` that is lost leaves the board switched and the start screen on;
* commands of the board panel are lost silently while their board cannot be reached; a line of an
  answer that begins with `err` ends the answer early;
* a message of an unknown kind or over the limit ends the connection; `pack_ctrl` stops at the first
  message that does not fit, and nothing in the tree calls it.

## 6. What is not modelled

Not modelled for good: signal processing and the codec itself (external; `pc.rs` is a stub in this
tree), windows and web page, drivers, scripts, the fake camera, SOAP and digest authentication.

Left out of the modelled parts: the parity sized from the loss, the rungs per channel that the receiver
measures (worker 1865-1907) and the base layer's share of the lowest rung; which redundancy version a
retry carries; sources that keep only the newest picture (webcam, test pattern, video file); the block
and picture headers of the wire format; the web page's stream.

Next, if the project goes on: the composition of `VideoRepair` with `Delivery` (the
repair loop over a feed that reorders); the rungs per channel.

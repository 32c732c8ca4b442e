---------------------------- MODULE Reassembler ----------------------------
(***************************************************************************)
(* The reassembly funnel (Reassembler in link/nyx-link/src/lib.rs): blocks *)
(* of a frame in, the frame out as soon as it can be rebuilt.              *)
(*                                                                         *)
(* Frame i was cut into Data[i] data blocks and has Parity[i] parity       *)
(* blocks, the rows of a Reed-Solomon code: as many rows as data blocks    *)
(* are missing rebuild these, whichever they are.  What a block carries    *)
(* is left out, who it is is kept: [id, par, idx], the row idx of the      *)
(* parity if par, the data block idx otherwise.  All blocks of an id agree *)
(* on how many there are: one numbering of the transmitter.                *)
(*                                                                         *)
(* A funnel is a record [pending, done]: the entries of the frames begun   *)
(* and the ids of the last frames completed, oldest first.  Its operations *)
(* answer [funnel, out]: the funnel after them and the frames they hand    *)
(* over, in no particular order where the code walks a hash map.           *)
(***************************************************************************)
EXTENDS Integers, Sequences, FiniteSets, Functions

CONSTANTS
  Data,         \* data blocks of each frame (0: the id has no frame)
  Parity,       \* parity blocks of each frame
  KEEP,         \* an entry this many ids older than a completed frame is dropped (16)
  DONE,         \* completed frames remembered (128)
  LAG,          \* a frame this many ids older than the block just read is stale (2)
  QUIET,        \* ... once no block came for it in this long
  PARTIAL_MAX,  \* a frame fills in for at most this long
  PartialOk     \* partial_ok: stale frames are handed over in part

ASSUME ReassemblerAssumption ==
  /\ \A i \in DOMAIN Data : Data[i] \in Nat
  /\ DOMAIN Parity = DOMAIN Data /\ \A i \in DOMAIN Data : Parity[i] \in Nat
  /\ KEEP \in Nat /\ DONE \in Nat /\ LAG \in Nat /\ QUIET \in Nat /\ PARTIAL_MAX \in Nat
  /\ PartialOk \in BOOLEAN

NewFunnel == [pending |-> <<>>, done |-> <<>>]

\* An entry: the data blocks and the parity rows there, the time since its first block and
\* since its latest.
NewEntry == [data |-> {}, rows |-> {}, born |-> 0, last |-> 0]

HasPartial(f, i) == i \in DOMAIN f.pending
EntryOf(f, i) == IF HasPartial(f, i) THEN f.pending[i] ELSE NewEntry

Filled(e, b) ==
  IF b.par THEN [e EXCEPT !.rows = @ \cup {b.idx}, !.last = 0]
           ELSE [e EXCEPT !.data = @ \cup {b.idx}, !.last = 0]

Missing(i, e) == (0 .. Data[i] - 1) \ e.data

\* Complete, or to be completed from the parity.
Solvable(i, e) == Cardinality(Missing(i, e)) <= Cardinality(e.rows)

SetEntry(f, i, e) ==
  [f EXCEPT !.pending = [j \in DOMAIN f.pending \cup {i} |-> IF j = i THEN e ELSE f.pending[j]]]

\* The frame is completed: remembered, and the entries too old are dropped.
Remembered(done, i) ==
  LET d == Append(done, i) IN IF Len(d) > DONE THEN Tail(d) ELSE d
Completed(f, i) ==
  [pending |-> Restrict(f.pending, {j \in DOMAIN f.pending : j # i /\ j + KEEP > i}),
   done    |-> Remembered(f.done, i)]

\* push: a block of a frame that is done is ignored.
Push(f, b) ==
  LET e == Filled(EntryOf(f, b.id), b) IN
  IF \E n \in DOMAIN f.done : f.done[n] = b.id THEN [funnel |-> f, out |-> {}]
  ELSE IF Solvable(b.id, e) THEN [funnel |-> Completed(f, b.id), out |-> {b.id}]
  ELSE [funnel |-> SetEntry(f, b.id, e), out |-> {}]

\* take_stale: frames past their time leave the funnel; those with 60 % of their data
\* blocks are handed over as they are.
Stale(f, newest) ==
  {i \in DOMAIN f.pending : i + LAG <= newest /\ f.pending[i].last >= QUIET}
Worthwhile(i, e) == e.data # {} /\ 10 * Cardinality(e.data) >= 6 * Data[i]
TakeStale(f, newest) ==
  [funnel |-> [f EXCEPT !.pending = Restrict(@, DOMAIN @ \ Stale(f, newest))],
   out    |-> {i \in Stale(f, newest) : Worthwhile(i, f.pending[i])}]

\* What the receiver does with a block of the main layer.
Feed(f, b) ==
  LET pushed == Push(f, b)
      taken  == TakeStale(pushed.funnel, b.id)
  IN IF PartialOk THEN [funnel |-> taken.funnel, whole |-> pushed.out, torn |-> taken.out]
                  ELSE [funnel |-> pushed.funnel, whole |-> pushed.out, torn |-> {}]

\* A block came for the frame lately, and its first one not too long ago.
Progressing(f, i) ==
  HasPartial(f, i) /\ f.pending[i].last < QUIET /\ f.pending[i].born < PARTIAL_MAX

\* Time passes; ages are not counted beyond what is asked of them.
Aged(n, limit) == IF n < limit THEN n + 1 ELSE n
OlderEntry(e) == [e EXCEPT !.born = Aged(@, PARTIAL_MAX), !.last = Aged(@, QUIET)]
Older(f) == [f EXCEPT !.pending = [i \in DOMAIN @ |-> OlderEntry(@[i])]]

=============================================================================

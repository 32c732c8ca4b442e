----------------------------- MODULE PhoneOrder -----------------------------
(***************************************************************************)
(* The phone as the receiver (session in nyx-mobile): decoded blocks come  *)
(* from the board, a funnel of its own completes frames in any order, and  *)
(* the frames wait in pend_pics until they can be decoded one after the    *)
(* other.  A hole nobody saw a block of is passed over at once, one that   *)
(* is being filled in is waited for, for HOLD at most.                     *)
(*                                                                         *)
(* The funnel is its promise: a block of frame i completes it, leaves it   *)
(* begun or is known already, and frames begun that are LAG older may be   *)
(* handed over in part (Reassembler has the whole of it).                  *)
(***************************************************************************)
EXTENDS Integers, Functions, FiniteSetsExt

CONSTANTS
  Frames,  \* bound: the ids of one numbering are 1 .. Frames
  Reach,   \* bound: a block is of one of the last Reach frames sent
  LAG,     \* 2
  WINDOW   \* 64: further ahead than this the numbering was lost

PhoneOrderAssumption == {Frames, Reach, LAG, WINDOW} \subseteq Nat

VARIABLES
  sent,     \* frames the transmitter has sent in this numbering
  again,    \* it was restarted and numbers from the beginning
  begun,    \* frames begun in the funnel
  next,     \* next_id, at most one
  pend,     \* pend_pics: whether a frame has waited longer than HOLD
  fed,      \* the frame given to the decoder last
  top,      \* the newest frame of this numbering that was completed
  missed    \* frames of the new numbering, each the newest, completed and dropped in a row

vars == <<sent, again, begun, next, pend, fed, top, missed>>

Init ==
  /\ sent = 0 /\ again = FALSE /\ begun = {} /\ next = {} /\ pend = << >>
  /\ fed = 0 /\ top = 0 /\ missed = 0

-----------------------------------------------------------------------------

\* (faulty variant: whatever is completed is taken)
NeverLate(n, i) == FALSE
\* What is not ahead of the next id was given to the decoder already.
Late(n, i) == \E m \in n : i < m

Oldest(p) == Min(DOMAIN p)

\* A gap too wide to be walked.
Jumped(n, p) ==
  IF DOMAIN p # {} /\ (\E m \in n : Oldest(p) - m > WINDOW) THEN Oldest(p) ELSE CHOOSE m \in n : TRUE

\* (faulty variant: the hole is waited for as long as it takes)
WaitedNever(p) == FALSE
\* Somebody waited for HOLD.
Waited(p) == \E i \in DOMAIN p : p[i]

\* What waits behind id m.
After(p, m) == Restrict(p, {i \in DOMAIN p : i > m})

\* The walk goes over frames that are there, over holes nobody saw a block of and over those that
\* were waited for long enough; it stops where nothing waits behind, or something not yet long.
Stops(p, m) ==
  /\ m \notin DOMAIN p
  /\ DOMAIN After(p, m) = {} \/ (m \in begun' /\ ~Waited(After(p, m)))

\* The frames that can be given to the decoder now, from id n on.
Released(n, p, f) ==
  LET m == Min({k \in n..Frames + 1 : Stops(p, k)})
      given == {i \in DOMAIN p : i < m}
  IN  [next |-> m, pend |-> After(p, m), fed |-> IF given = {} THEN f ELSE Max(given)]

\* Frames completed, the one of the block first.
Taken(c) == {i \in c : ~Late(next, i)}
Ordered(c, first) ==
  LET n == IF next # {} \/ c = {} THEN next ELSE {first}
      t == {i \in c : ~Late(n, i)}
      p == [i \in DOMAIN pend \cup t |-> IF i \in t THEN FALSE ELSE pend[i]]
      r == Released(Jumped(n, p), p, fed)
  IN  IF n = {} THEN UNCHANGED <<next, pend, fed>>
      ELSE next' = {r.next} /\ pend' = r.pend /\ fed' = r.fed

Completes(c, first) ==
  /\ Ordered(c, first)
  /\ top' = Max(c \cup {top})
  /\ missed' = IF ~again \/ c = {} \/ Max(c) <= top THEN missed
               ELSE IF Taken({Max(c)}) = {} THEN Min({missed + 1, WINDOW + 1}) ELSE 0

\* A block of frame i, with what the funnel makes of it.
Block(i) ==
  /\ i > sent - Reach
  /\ \E stale \in SUBSET {j \in begun \ {i} : j + LAG <= i} :
       \/ /\ begun' = (begun \cup {i}) \ stale
          /\ \E first \in IF stale = {} THEN {i} ELSE stale : Completes(stale, first)
       \/ /\ begun' = begun \ (stale \cup {i})
          /\ Completes(stale \cup {i}, i)
       \/ /\ i \notin begun /\ begun' = begun \ stale
          /\ \E first \in IF stale = {} THEN {i} ELSE stale : Completes(stale, first)
  /\ UNCHANGED <<sent, again>>

\* Between two frames handed over comes a block after HOLD which hands none over.
Begins(i) ==
  /\ i > sent - Reach /\ begun' \in {begun, begun \cup {i}} /\ Completes({}, i)
  /\ UNCHANGED <<sent, again>>
BlockAfterHold == Waited(pend) /\ \E i \in 1..sent : Begins(i)

Sends == /\ sent < Frames /\ sent' = sent + 1
         /\ UNCHANGED <<again, begun, next, pend, fed, top, missed>>

HoldOver ==
  /\ \E i \in DOMAIN pend : ~pend[i]
  /\ pend' = [i \in DOMAIN pend |-> TRUE]
  /\ UNCHANGED <<sent, again, begun, next, fed, top, missed>>

\* Frames begun under the old numbering are swept out by the first ones of the new.
Restarts ==
  /\ ~again /\ sent > 0 /\ again' = TRUE
  /\ sent' = 0 /\ top' = 0 /\ begun' = {}
  /\ UNCHANGED <<next, pend, fed, missed>>

Blocks == \E i \in 1..sent : Block(i)
Next == Blocks \/ Sends \/ HoldOver \/ Restarts

-----------------------------------------------------------------------------

\* The decoder never gets a frame twice nor an older one after a newer (the comment on the
\* ordering of session: the second time is always bad).
FedInOrder == [][fed' >= fed]_fed

\* No hole holds completed frames back for ever: again and again none waits.
NothingWaits == []<>(DOMAIN pend = {})

\* "a resync (or a TX restart) can jump them by millions ... anything further than a small window
\* means we lost sync, so jump straight to the oldest frame we hold": frames of a new numbering
\* are taken after a window of them at the latest.
RestartTaken == missed <= WINDOW
=============================================================================

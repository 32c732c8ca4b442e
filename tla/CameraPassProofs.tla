------------------------- MODULE CameraPassProofs -------------------------
(***************************************************************************)
(* Proofs about camera pass-through, for any cameras, any settings the     *)
(* operator may choose and every size of the queue.                        *)
(***************************************************************************)
EXTENDS CameraPass, SequenceTheorems, WellFoundedInduction, TLAPS

Unit == [key : BOOLEAN, follows : BOOLEAN]

TypeOK ==
  /\ aus \in Seq(Unit) /\ old \in 0 .. Len(aus)
  /\ aus_broken \in BOOLEAN /\ gap \in BOOLEAN /\ waiting_key \in BOOLEAN
  /\ unit_key \in BOOLEAN /\ pass \in BOOLEAN /\ wait_key \in BOOLEAN
  /\ sent \in [decodable : BOOLEAN, odd : BOOLEAN]

\* The consumer will take nothing before a key frame.
WillSkip == worker = "clear" \/ wait_key \/ aus_broken

\* What it takes otherwise is a key frame or follows what was sent ...
HeadFollows == aus # <<>> /\ ~WillSkip => aus[1].key \/ aus[1].follows

\* ... and so does what comes next.
NextFollows == gap /\ ~WillSkip => waiting_key \/ unit_key

\* A session that holds a picture has had its key frame.
HoldsAfterKey ==
  IF session \in {"hold", "push"} THEN ~waiting_key ELSE ~unit_key

\* Once the queue is cleared for pass-through, its access units follow each other.
Chain ==
  pass /\ worker # "clear" => /\ aus # <<>> => ~gap
                              /\ \A k \in 2 .. Len(aus) : aus[k].follows

\* Without pass-through the consumer waits for a key frame.
OffWaits == ~pass /\ worker # "clear" => wait_key

IInv ==
  TypeOK /\ HeadFollows /\ NextFollows /\ HoldsAfterKey /\ Chain /\ OffWaits /\ Decodable

-----------------------------------------------------------------------------
(* The queue.                                                              *)

\* A set of numbers that is not empty has an oldest ...
LEMMA OldestExists ==
  ASSUME NEW S \in SUBSET Nat, S # {}
  PROVE  Oldest(S) \in S /\ \A j \in S : Oldest(S) <= j
<1>1. PICK x \in S : \A y \in S : <<y, x>> \notin OpToRel(<, Nat)
  BY WFMin, NatLessThanWellFounded
<1>2. ASSUME NEW y \in S PROVE x <= y
  <2>1. x \in Nat /\ y \in Nat
    OBVIOUS
  <2>2. ~(y < x)
    BY <1>1, <2>1 DEF OpToRel
  <2>3. QED
    BY <2>1, <2>2
<1>3. QED
  BY <1>2 DEF Oldest

\* ... and, if it is bounded, a newest.
LEMMA NewestExists ==
  ASSUME NEW n \in Nat, NEW S \in SUBSET (1 .. n), S # {}
  PROVE  Newest(S) \in S /\ \A j \in S : j <= Newest(S)
<1> DEFINE back == {n - k : k \in S}
<1>1. back \in SUBSET Nat /\ back # {}
  <2>1. \A k \in S : n - k \in Nat
    OBVIOUS
  <2>2. \A b \in back : b \in Nat
    BY <2>1
  <2>3. QED
    BY <2>2
<1>2. PICK m \in back : \A j \in back : m <= j
  BY <1>1, OldestExists
<1>3. PICK k \in S : m = n - k
  BY <1>2
<1>4. ASSUME NEW j \in S PROVE j <= k
  <2>1. m <= n - j
    BY <1>2
  <2>2. j \in 1 .. n /\ k \in 1 .. n
    BY <1>3
  <2>3. QED
    BY <1>3, <2>1, <2>2
<1>5. QED
  BY <1>4 DEF Newest

LEMMA WithoutFacts ==
  ASSUME NEW s \in Seq(Unit), NEW n \in 0 .. Len(s)
  PROVE  /\ Without(s, n) \in Seq(Unit) /\ Len(Without(s, n)) = Len(s) - n
         /\ n = 0 => Without(s, n) = s
         /\ n < Len(s) => Without(s, n)[1].key = s[n + 1].key
         /\ \A k \in 2 .. Len(s) - n : Without(s, n)[k] = s[n + k]
<1> DEFINE rest == SubSeq(s, n + 1, Len(s))
<1>1. Len(s) \in Nat /\ n \in Nat /\ \A i \in 1 .. Len(s) : s[i] \in Unit
  BY LenProperties, ElementOfSeq
<1>2. /\ rest \in Seq(Unit) /\ Len(rest) = Len(s) - n
      /\ \A k \in 1 .. Len(s) - n : rest[k] = s[n + k]
  <2>1. n + 1 \in Int /\ Len(s) \in Int /\ \A i \in n + 1 .. Len(s) : s[i] \in Unit
    BY <1>1
  <2>2. /\ rest \in Seq(Unit) /\ Len(rest) = IF n + 1 <= Len(s) THEN Len(s) - (n + 1) + 1 ELSE 0
        /\ \A k \in 1 .. Len(s) - (n + 1) + 1 : rest[k] = s[(n + 1) + k - 1]
    BY <2>1, SubSeqProperties
  <2>3. QED
    BY <1>1, <2>2
<1>3. n = 0 => rest = s
  BY SubSeqFull
<1> HIDE DEF rest
<1>4. CASE n > 0 /\ rest # <<>>
  <2>1. Without(s, n) = [rest EXCEPT ![1].follows = FALSE]
    BY <1>4 DEF Without, rest
  <2>2. Len(rest) \in Nat /\ Len(rest) > 0 /\ rest[1] \in Unit
    BY <1>2, <1>4, EmptySeq, ElementOfSeq
  <2>3. Without(s, n) = [rest EXCEPT ![1] = [rest[1] EXCEPT !.follows = FALSE]]
    BY <2>1
  <2>4. [rest[1] EXCEPT !.follows = FALSE] \in Unit
        /\ [rest[1] EXCEPT !.follows = FALSE].key = rest[1].key
    BY <2>2 DEF Unit
  <2>5. /\ Without(s, n) \in Seq(Unit) /\ Len(Without(s, n)) = Len(rest)
        /\ \A k \in 1 .. Len(rest) : Without(s, n)[k] =
             IF k = 1 THEN [rest[1] EXCEPT !.follows = FALSE] ELSE rest[k]
    <3>1. 1 \in 1 .. Len(rest)
      BY <2>2
    <3>2. QED
      BY <1>2, <2>3, <2>4, <3>1, ExceptSeq
  <2>6. 1 \in 1 .. Len(rest) /\ rest[1] = s[n + 1]
    BY <1>1, <1>2, <2>2
  <2>7. Without(s, n)[1].key = s[n + 1].key
    BY <2>4, <2>5, <2>6
  <2>8. \A k \in 2 .. Len(s) - n : Without(s, n)[k] = s[n + k]
    BY <1>1, <1>2, <2>5
  <2>9. QED
    BY <1>2, <1>4, <2>5, <2>7, <2>8
<1>5. CASE ~(n > 0 /\ rest # <<>>)
  <2>1. Without(s, n) = rest
    BY <1>5 DEF Without, rest
  <2>2. QED
    BY <1>1, <1>2, <1>3, <2>1
<1>6. QED
  BY <1>4, <1>5

\* What is too old goes up to a key frame, or all of it.
LEMMA TooOldFacts ==
  ASSUME TypeOK
  PROVE  /\ TooOld(aus) \in 0 .. Len(aus)
         /\ old = 0 => TooOld(aus) = 0
         /\ old > 0 /\ TooOld(aus) < Len(aus) => aus[TooOld(aus) + 1].key
<1> DEFINE young == {k \in KeysIn(aus) : k > old}
<1>1. Len(aus) \in Nat /\ young \in SUBSET (1 .. Len(aus)) /\ old \in Nat
  BY LenProperties DEF TypeOK, KeysIn
<1>2. CASE old = 0
  BY <1>1, <1>2 DEF TooOld
<1>3. CASE old > 0 /\ young = {}
  BY <1>1, <1>3 DEF TooOld
<1>4. CASE old > 0 /\ young # {}
  <2>1. Newest(young) \in young
    BY <1>1, <1>4, NewestExists
  <2>2. TooOld(aus) = Newest(young) - 1
    BY <1>4 DEF TooOld
  <2>3. Newest(young) \in 1 .. Len(aus) /\ aus[Newest(young)].key
    BY <2>1 DEF KeysIn
  <2> HIDE DEF young
  <2>4. TooOld(aus) + 1 = Newest(young)
    BY <2>2, <2>3
  <2>5. QED
    BY <1>1, <1>4, <2>2, <2>3, <2>4
<1>5. QED
  BY <1>1, <1>2, <1>3, <1>4

\* A consumer that waits for a key frame skips up to one, or all.
LEMMA NoKeyFacts ==
  ASSUME NEW s \in Seq(Unit), NEW waiting \in BOOLEAN
  PROVE  /\ NoKeyYet(s, waiting) \in 0 .. Len(s)
         /\ ~waiting => NoKeyYet(s, waiting) = 0
         /\ waiting /\ NoKeyYet(s, waiting) < Len(s) => s[NoKeyYet(s, waiting) + 1].key
<1>1. Len(s) \in Nat /\ KeysIn(s) \in SUBSET (1 .. Len(s)) /\ KeysIn(s) \in SUBSET Nat
  BY LenProperties DEF KeysIn
<1>2. CASE ~waiting
  BY <1>1, <1>2 DEF NoKeyYet
<1>3. CASE waiting /\ KeysIn(s) = {}
  BY <1>1, <1>3 DEF NoKeyYet
<1>4. CASE waiting /\ KeysIn(s) # {}
  <2>1. Oldest(KeysIn(s)) \in KeysIn(s)
    BY <1>1, <1>4, OldestExists
  <2>2. NoKeyYet(s, waiting) = Oldest(KeysIn(s)) - 1
    BY <1>4 DEF NoKeyYet
  <2>3. Oldest(KeysIn(s)) \in 1 .. Len(s) /\ s[Oldest(KeysIn(s))].key
    BY <2>1 DEF KeysIn
  <2>4. NoKeyYet(s, waiting) + 1 = Oldest(KeysIn(s)) /\ NoKeyYet(s, waiting) \in 0 .. Len(s)
    BY <1>1, <2>2, <2>3
  <2>5. s[NoKeyYet(s, waiting) + 1].key
    BY <2>3, <2>4
  <2>6. QED
    BY <1>4, <2>4, <2>5
<1>5. QED
  BY <1>2, <1>3, <1>4

LEMMA InitIInv == ASSUME Init PROVE IInv
<1>1. aus = <<>> /\ old = 0 /\ wait_key = TRUE /\ worker = "top" /\ waiting_key = TRUE /\ unit_key = FALSE
      /\ session = "idle" /\ gap = TRUE /\ aus_broken = FALSE /\ pass = FALSE
      /\ sent = [decodable |-> TRUE, odd |-> FALSE]
  BY DEF Init
<1>2. TypeOK
  <2>1. aus \in Seq(Unit) /\ old \in 0 .. Len(aus)
    BY <1>1, EmptySeq
  <2>2. sent \in [decodable : BOOLEAN, odd : BOOLEAN]
    BY <1>1
  <2>3. QED
    BY <1>1, <2>1, <2>2 DEF TypeOK
<1>3. QED
  BY <1>1, <1>2 DEF IInv, HeadFollows, NextFollows, WillSkip, HoldsAfterKey, Chain, OffWaits, Decodable

-----------------------------------------------------------------------------
(* The thread rtsp.                                                        *)

\* A step that leaves the queue and the consumer alone, and no session with its key frame behind.
LEMMA SessionStep ==
  ASSUME IInv, UNCHANGED <<pass, queue, consumer>>,
         waiting_key' \in BOOLEAN, unit_key' \in BOOLEAN, HoldsAfterKey',
         waiting_key \/ unit_key => waiting_key' \/ unit_key'
  PROVE  IInv'
<1>1. UNCHANGED <<pass, aus, aus_broken, old, gap, worker, wait_key, sent>>
  BY DEF queue, consumer
<1>2. TypeOK'
  BY <1>1 DEF IInv, TypeOK
<1>3. HeadFollows' /\ NextFollows'
  BY <1>1 DEF IInv, HeadFollows, NextFollows, WillSkip
<1>4. Chain' /\ OffWaits' /\ Decodable'
  BY <1>1 DEF IInv, Chain, OffWaits, Decodable
<1>5. QED
  BY <1>2, <1>3, <1>4 DEF IInv

LEMMA DialStep ==
  ASSUME IInv, Dial \/ Fails \/ StillWanted
  PROVE  IInv'
<1>1. UNCHANGED <<pass, queue, consumer, unit_key>>
  BY DEF Dial, Fails, StillWanted, shared
<1>2. waiting_key' \in {waiting_key, TRUE}
  BY DEF Dial, Fails, StillWanted
<1>3. session \notin {"hold", "push"} /\ session' \notin {"hold", "push"}
  BY DEF Dial, Fails, StillWanted
<1>4. HoldsAfterKey'
  BY <1>1, <1>3 DEF IInv, HoldsAfterKey
<1>5. waiting_key' \in BOOLEAN /\ unit_key' \in BOOLEAN
  BY <1>1, <1>2 DEF IInv, TypeOK
<1>6. waiting_key \/ unit_key => waiting_key' \/ unit_key'
  BY <1>1, <1>2
<1>7. QED
  BY <1>1, <1>4, <1>5, <1>6, SessionStep

LEMMA PictureStep ==
  ASSUME IInv, NEW key \in BOOLEAN, Picture(key)
  PROVE  IInv'
<1>1. UNCHANGED <<pass, queue, consumer>> /\ session = "await"
  BY DEF Picture, shared
<1>2. ~unit_key /\ waiting_key \in BOOLEAN /\ unit_key \in BOOLEAN
  BY <1>1 DEF IInv, HoldsAfterKey, TypeOK
<1>3. CASE waiting_key /\ ~key
  <2>1. session' = "check" /\ unit_key' = FALSE /\ waiting_key' = TRUE
    BY <1>3 DEF Picture
  <2>2. QED
    BY <1>1, <2>1, SessionStep DEF HoldsAfterKey
<1>4. CASE ~(waiting_key /\ ~key)
  <2>1. session' = "hold" /\ unit_key' = key /\ waiting_key' = FALSE
    BY <1>4 DEF Picture
  <2>2. QED
    BY <1>1, <1>2, <1>4, <2>1, SessionStep DEF HoldsAfterKey
<1>5. QED
  BY <1>3, <1>4

\* A new session clears the queue and begins with a key frame.
LEMMA OpenStep ==
  ASSUME IInv, Open
  PROVE  IInv'
<1>1. aus' = <<>> /\ old' = 0 /\ aus_broken' = (aus_broken \/ aus # <<>>) /\ gap' = TRUE
      /\ session = "dial" /\ session' = "check" /\ waiting_key' = TRUE
      /\ UNCHANGED <<pass, unit_key, worker, wait_key, sent>>
  BY DEF Open, Clear, shared, consumer
<1>2. TypeOK'
  BY <1>1, EmptySeq DEF IInv, TypeOK
<1>3. Len(aus') = 0
  BY <1>1
<1>4. HoldsAfterKey'
  BY <1>1 DEF IInv, HoldsAfterKey
<1>5. QED
  BY <1>1, <1>2, <1>3, <1>4 DEF IInv, HeadFollows, NextFollows, WillSkip, Chain, OffWaits, Decodable

\* A picture that is not passed on leaves a gap, which the consumer waits out.
LEMMA ReadPassStep ==
  ASSUME IInv, ReadPass
  PROVE  IInv'
<1>1. UNCHANGED <<pass, aus, aus_broken, old, waiting_key, worker, wait_key, sent>> /\ session = "hold"
  BY DEF ReadPass, shared, consumer
<1>2. CASE pass
  <2>1. session' = "push" /\ unit_key' = unit_key /\ gap' = gap
    BY <1>2 DEF ReadPass, IInv, TypeOK
  <2>2. UNCHANGED <<pass, queue, consumer>>
    BY <1>1, <2>1 DEF queue, consumer
  <2>3. HoldsAfterKey'
    BY <1>1, <2>1 DEF IInv, HoldsAfterKey
  <2>4. QED
    BY <1>1, <2>1, <2>2, <2>3, SessionStep DEF IInv, TypeOK
<1>3. CASE ~pass
  <2>1. session' = "check" /\ unit_key' = FALSE /\ gap' = TRUE
    BY <1>3 DEF ReadPass
  <2>2. TypeOK'
    BY <1>1, <2>1 DEF IInv, TypeOK
  <2>3. WillSkip /\ WillSkip'
    BY <1>1, <1>3 DEF IInv, OffWaits, WillSkip
  <2>4. HeadFollows' /\ NextFollows'
    BY <2>3 DEF HeadFollows, NextFollows
  <2>5. HoldsAfterKey' /\ Chain'
    BY <1>1, <1>3, <2>1 DEF HoldsAfterKey, Chain
  <2>6. OffWaits' /\ Decodable'
    BY <1>1 DEF IInv, OffWaits, Decodable
  <2>7. QED
    BY <2>2, <2>4, <2>5, <2>6 DEF IInv
<1>4. QED
  BY <1>2, <1>3

\* What is queued follows what was queued before it; a full queue is thrown away and says so.
LEMMA PushStep ==
  ASSUME IInv, Push
  PROVE  IInv'
<1> DEFINE full == Len(aus) >= RTSP_AU_QUEUE
           au == [key |-> unit_key, follows |-> ~gap /\ ~full]
<1>1. /\ aus' = IF full THEN <<au>> ELSE Append(aus, au)
      /\ old' = IF full THEN 0 ELSE old
      /\ aus_broken' = (aus_broken \/ full)
      /\ gap' = FALSE /\ session = "push" /\ session' = "check" /\ unit_key' = FALSE
      /\ UNCHANGED <<pass, waiting_key, worker, wait_key, sent>>
  BY DEF Push, PushAu, shared, consumer
<1>2. au \in Unit /\ au.key = unit_key /\ au.follows = (~gap /\ ~full)
  BY DEF IInv, TypeOK, Unit
<1>3. aus \in Seq(Unit) /\ Len(aus) \in Nat /\ old \in 0 .. Len(aus)
  BY LenProperties DEF IInv, TypeOK
<1>4. ~waiting_key
  BY <1>1 DEF IInv, HoldsAfterKey
<1>5. HoldsAfterKey' /\ OffWaits' /\ Decodable' /\ NextFollows'
  BY <1>1 DEF IInv, HoldsAfterKey, OffWaits, Decodable, NextFollows
<1>6. full \in BOOLEAN
  OBVIOUS
<1> HIDE DEF au, full
<1>7. CASE full
  <2>1. aus' = <<au>> /\ old' = 0 /\ aus_broken' = TRUE
    BY <1>1, <1>7
  <2>2. aus' \in Seq(Unit) /\ Len(aus') = 1
    BY <1>2, <2>1
  <2>3. TypeOK'
    <3>1. old' \in 0 .. Len(aus') /\ aus_broken' \in BOOLEAN
      BY <2>1, <2>2
    <3>2. QED
      BY <1>1, <2>2, <3>1 DEF IInv, TypeOK
  <2>4. HeadFollows' /\ Chain'
    BY <1>1, <2>1, <2>2 DEF HeadFollows, Chain, WillSkip
  <2>5. QED
    BY <1>5, <2>3, <2>4 DEF IInv
<1>8. CASE ~full
  <2>1. aus' = Append(aus, au) /\ old' = old /\ aus_broken' = aus_broken
    BY <1>1, <1>6, <1>8 DEF IInv, TypeOK
  <2>2. /\ aus' \in Seq(Unit) /\ Len(aus') = Len(aus) + 1
        /\ \A i \in 1 .. Len(aus) : aus'[i] = aus[i]
        /\ aus'[Len(aus) + 1] = au
    BY <1>2, <1>3, <2>1
  <2>3. TypeOK'
    <3>1. old' \in 0 .. Len(aus')
      BY <1>3, <2>1, <2>2
    <3>2. QED
      BY <1>1, <2>1, <2>2, <3>1 DEF IInv, TypeOK
  <2>4. au.follows = ~gap
    BY <1>2, <1>8
  <2>5. HeadFollows'
    <3>1. WillSkip' = WillSkip
      BY <1>1, <2>1 DEF WillSkip
    <3>2. CASE aus = <<>>
      <4>1. aus'[1] = au
        BY <2>2, <3>2
      <4>2. ~WillSkip => au.key \/ au.follows
        BY <1>2, <1>4, <2>4 DEF IInv, NextFollows
      <4>3. QED
        BY <3>1, <4>1, <4>2 DEF HeadFollows
    <3>3. CASE aus # <<>>
      <4>1. 1 \in 1 .. Len(aus)
        BY <1>3, <3>3, EmptySeq
      <4>2. QED
        BY <2>2, <3>1, <3>3, <4>1 DEF IInv, HeadFollows
    <3>4. QED
      BY <3>2, <3>3
  <2>6. Chain'
    <3> SUFFICES ASSUME pass, worker # "clear", NEW k \in 2 .. Len(aus')
                 PROVE  aus'[k].follows
      BY <1>1 DEF Chain
    <3>1. CASE k \in 2 .. Len(aus)
      BY <1>3, <2>2, <3>1 DEF IInv, Chain
    <3>2. CASE k = Len(aus) + 1
      <4>1. aus # <<>>
        BY <1>3, <3>2, EmptySeq
      <4>2. ~gap
        BY <4>1 DEF IInv, Chain
      <4>3. QED
        BY <2>2, <2>4, <3>2, <4>2
    <3>3. QED
      BY <1>3, <2>2, <3>1, <3>2
  <2>7. QED
    BY <1>5, <2>3, <2>5, <2>6 DEF IInv
<1>9. QED
  BY <1>7, <1>8

LEMMA RtspStep ==
  ASSUME IInv, Rtsp
  PROVE  IInv'
BY DialStep, OpenStep, ReadPassStep, PushStep, PictureStep DEF Rtsp

-----------------------------------------------------------------------------
(* The worker.                                                             *)

\* Pass-through is switched only together with the step to the clearing.
LEMMA TopStep ==
  ASSUME IInv, Top
  PROVE  IInv'
<1>1. UNCHANGED <<aus, aus_broken, old, gap, session, waiting_key, unit_key, wait_key, sent>>
      /\ worker = "top"
  BY DEF Top, queue, rtsp
<1>2. pass' \in BOOLEAN /\ (worker' = "clear" \/ pass' = pass)
  <2>1. CASE cfg.standby
    BY <2>1 DEF Top, IInv, TypeOK
  <2>2. CASE ~cfg.standby
    <3> DEFINE now == cfg.rtsp /\ cfg.rtsp_pass
    <3>1. pass' = now /\ worker' = IF now # pass THEN "clear" ELSE "url"
      BY <2>2 DEF Top
    <3>2. now \in BOOLEAN
      OBVIOUS
    <3> HIDE DEF now
    <3>3. QED
      BY <3>1, <3>2
  <2>3. QED
    BY <2>1, <2>2
<1>3. TypeOK'
  BY <1>1, <1>2 DEF IInv, TypeOK
<1>4. HeadFollows' /\ NextFollows'
  BY <1>1 DEF IInv, HeadFollows, NextFollows, WillSkip
<1>5. Chain' /\ OffWaits'
  BY <1>1, <1>2 DEF IInv, Chain, OffWaits
<1>6. HoldsAfterKey' /\ Decodable'
  BY <1>1 DEF IInv, HoldsAfterKey, Decodable
<1>7. QED
  BY <1>3, <1>4, <1>5, <1>6 DEF IInv

LEMMA ClearStep ==
  ASSUME IInv, NewPassState
  PROVE  IInv'
<1>1. aus' = <<>> /\ old' = 0 /\ aus_broken' = (aus_broken \/ aus # <<>>)
      /\ gap' = (gap \/ aus # <<>>) /\ wait_key' = TRUE
      /\ UNCHANGED <<pass, session, waiting_key, unit_key, sent>>
  BY DEF NewPassState, Clear, shared, rtsp
<1>2. Len(aus') = 0 /\ aus' \in Seq(Unit)
  BY <1>1, EmptySeq
<1>3. TypeOK'
  <2>1. old' \in 0 .. Len(aus') /\ aus_broken' \in BOOLEAN /\ gap' \in BOOLEAN
    BY <1>1, <1>2
  <2>2. QED
    BY <1>1, <1>2, <2>1 DEF IInv, TypeOK
<1>4. HeadFollows' /\ NextFollows' /\ OffWaits'
  BY <1>1 DEF HeadFollows, NextFollows, WillSkip, OffWaits
<1>5. Chain'
  BY <1>1, <1>2 DEF Chain
<1>6. HoldsAfterKey' /\ Decodable'
  BY <1>1 DEF IInv, HoldsAfterKey, Decodable
<1>7. QED
  BY <1>3, <1>4, <1>5, <1>6 DEF IInv

LEMMA OtherWorkerStep ==
  ASSUME IInv, HandUrl \/ OtherSource
  PROVE  IInv'
<1>1. UNCHANGED <<pass, aus, aus_broken, old, gap, session, waiting_key, unit_key, wait_key, sent>>
      /\ worker # "clear" /\ worker' # "clear"
  BY DEF HandUrl, OtherSource, shared, queue, rtsp
<1>2. TypeOK'
  BY <1>1 DEF IInv, TypeOK
<1>3. HeadFollows' /\ NextFollows' /\ Chain' /\ OffWaits'
  BY <1>1 DEF IInv, HeadFollows, NextFollows, WillSkip, Chain, OffWaits
<1>4. HoldsAfterKey' /\ Decodable'
  BY <1>1 DEF IInv, HoldsAfterKey, Decodable
<1>5. QED
  BY <1>2, <1>3, <1>4 DEF IInv

\* pass_next: what is left of the queue begins with a key frame, or nothing was skipped.
LEMMA ReadyFacts ==
  ASSUME IInv, pass, worker = "read",
         NEW late, late = TooOld(aus), NEW kept, kept = Without(aus, late),
         NEW waiting, waiting = (IF old > 0 THEN kept = <<>> ELSE wait_key \/ aus_broken),
         NEW skipped, skipped = NoKeyYet(kept, waiting),
         NEW ready, ready = Without(kept, skipped)
  PROVE  /\ waiting \in BOOLEAN /\ ready \in Seq(Unit)
         /\ ready # <<>> => ready[1].key \/ ready[1].follows
         /\ \A k \in 2 .. Len(ready) : ready[k].follows
         /\ ready = <<>> /\ aus # <<>> => waiting
         /\ aus = <<>> => ready = <<>> /\ (waiting <=> wait_key \/ aus_broken)
<1>1. TypeOK /\ aus \in Seq(Unit) /\ Len(aus) \in Nat /\ old \in 0 .. Len(aus)
  BY LenProperties DEF IInv, TypeOK
<1>2. late \in 0 .. Len(aus) /\ (old = 0 => late = 0)
      /\ (old > 0 /\ late < Len(aus) => aus[late + 1].key)
  BY <1>1, TooOldFacts
<1>3. /\ kept \in Seq(Unit) /\ Len(kept) = Len(aus) - late
      /\ late = 0 => kept = aus
      /\ late < Len(aus) => kept[1].key = aus[late + 1].key
      /\ \A k \in 2 .. Len(aus) - late : kept[k] = aus[late + k]
  BY <1>1, <1>2, WithoutFacts
<1>4. waiting \in BOOLEAN
  BY DEF IInv, TypeOK
<1>5. /\ skipped \in 0 .. Len(kept)
      /\ ~waiting => skipped = 0
      /\ waiting /\ skipped < Len(kept) => kept[skipped + 1].key
  BY <1>3, <1>4, NoKeyFacts
<1>6. /\ ready \in Seq(Unit) /\ Len(ready) = Len(kept) - skipped
      /\ skipped = 0 => ready = kept
      /\ skipped < Len(kept) => ready[1].key = kept[skipped + 1].key
      /\ \A k \in 2 .. Len(kept) - skipped : ready[k] = kept[skipped + k]
  <2>1. kept \in Seq(Unit) /\ skipped \in 0 .. Len(kept)
    BY <1>3, <1>5
  <2>2. /\ Without(kept, skipped) \in Seq(Unit) /\ Len(Without(kept, skipped)) = Len(kept) - skipped
        /\ skipped = 0 => Without(kept, skipped) = kept
        /\ skipped < Len(kept) => Without(kept, skipped)[1].key = kept[skipped + 1].key
        /\ \A k \in 2 .. Len(kept) - skipped : Without(kept, skipped)[k] = kept[skipped + k]
    BY ONLY <2>1, WithoutFacts
  <2>3. ready = Without(kept, skipped)
    OBVIOUS
  <2>4. QED
    BY ONLY <2>2, <2>3
<1>7. Len(kept) \in Nat /\ Len(ready) \in Nat
  BY <1>3, <1>6, LenProperties
<1>8. \A k \in 2 .. Len(ready) : ready[k].follows
  <2> SUFFICES ASSUME NEW k \in 2 .. Len(ready) PROVE ready[k].follows
    OBVIOUS
  <2>1. k \in Nat /\ 2 <= k /\ k <= Len(kept) - skipped /\ skipped \in Nat
    BY <1>5, <1>6, <1>7
  <2>2. ready[k] = kept[skipped + k] /\ skipped + k \in 2 .. Len(kept)
    <3>1. k \in 2 .. Len(kept) - skipped
      BY <1>7, <2>1
    <3>2. ready[k] = kept[skipped + k]
      BY <1>6, <3>1
    <3>3. skipped + k \in 2 .. Len(kept)
      BY <1>7, <2>1
    <3>4. QED
      BY <3>2, <3>3
  <2>3. ready[k] = aus[late + (skipped + k)] /\ late + (skipped + k) \in 2 .. Len(aus)
    <3>1. Len(kept) = Len(aus) - late /\ late \in Nat /\ Len(aus) \in Nat
      BY <1>1, <1>2, <1>3
    <3>2. skipped + k \in 2 .. Len(aus) - late
      BY <2>2, <3>1
    <3>3. kept[skipped + k] = aus[late + (skipped + k)]
      BY <1>3, <3>2
    <3>4. late + (skipped + k) \in 2 .. Len(aus)
      BY <3>1, <3>2
    <3>5. QED
      BY <2>2, <3>3, <3>4
  <2>4. QED
    BY <2>3 DEF IInv, Chain
<1>9. ASSUME ready # <<>> PROVE ready[1].key \/ ready[1].follows
  <2>1. skipped < Len(kept)
    BY <1>5, <1>6, <1>7, <1>9, EmptySeq
  <2>2. CASE waiting
    BY <1>5, <1>6, <2>1, <2>2
  <2>3. CASE ~waiting
    <3>1. skipped = 0 /\ ready = kept /\ kept # <<>>
      BY <1>5, <1>6, <1>9, <2>3
    <3>2. CASE old > 0
      <4>1. late < Len(aus)
        BY <1>1, <1>2, <1>3, <1>7, <2>1, <3>1
      <4>2. QED
        BY <1>2, <1>3, <3>1, <3>2, <4>1
    <3>3. CASE ~(old > 0)
      <4>0. old = 0 /\ late = 0
        BY <1>1, <1>2, <3>3
      <4>1. ready = aus /\ ~(wait_key \/ aus_broken)
        BY <1>3, <2>3, <3>1, <3>3, <4>0
      <4>2. ~WillSkip
        BY <4>1 DEF WillSkip
      <4>3. QED
        BY <1>9, <4>1, <4>2 DEF IInv, HeadFollows
    <3>4. QED
      BY <3>2, <3>3
  <2>4. QED
    BY <1>4, <2>2, <2>3
<1>10. ASSUME ready = <<>>, aus # <<>>, ~waiting PROVE FALSE
  <2>1. skipped = 0 /\ kept = <<>>
    BY <1>5, <1>6, <1>10
  <2>2. ~(old > 0)
    BY <1>10, <2>1
  <2>3. kept = aus
    BY <1>1, <1>2, <1>3, <2>2
  <2>4. QED
    BY <1>10, <2>1, <2>3
<1>11. ASSUME aus = <<>> PROVE ready = <<>> /\ (waiting <=> wait_key \/ aus_broken)
  <2>1. Len(aus) = 0
    BY <1>11
  <2>2. old = 0 /\ late = 0 /\ Len(kept) = 0
    BY <1>1, <1>2, <1>3, <2>1
  <2>3. Len(ready) = 0
    BY <1>5, <1>6, <2>2
  <2>4. ready = <<>>
    BY <1>6, <2>3, EmptySeq
  <2>5. waiting = (wait_key \/ aus_broken)
    <3>1. ~(old > 0)
      BY <2>2
    <3>2. QED
      BY <3>1
  <2>6. QED
    BY <2>4, <2>5
<1>12. QED
  BY <1>4, <1>6, <1>8, <1>9, <1>10, <1>11

LEMMA PassNextStep ==
  ASSUME IInv, NEW early \in BOOLEAN, PassNext(early)
  PROVE  IInv'
<1> DEFINE late == TooOld(aus)
           kept == Without(aus, late)
           waiting == IF old > 0 THEN kept = <<>> ELSE wait_key \/ aus_broken
           skipped == NoKeyYet(kept, waiting)
           ready == Without(kept, skipped)
           sends == ready # <<>> /\ ~(early /\ Len(ready) < BACKLOG)
<1>1. /\ worker = "read" /\ pass /\ worker' = "top"
      /\ aus_broken' = FALSE
      /\ wait_key' = (waiting /\ ready = <<>>)
      /\ aus' = IF sends THEN Tail(ready) ELSE ready
      /\ old' = 0
      /\ gap' = (gap \/ (ready = <<>> /\ aus # <<>>))
      /\ sent' = IF ~sends THEN sent
                  ELSE [decodable |-> Head(ready).key \/ Head(ready).follows, odd |-> ~sent.odd]
      /\ UNCHANGED <<pass, session, waiting_key, unit_key>>
  BY DEF PassNext, shared, rtsp
<1>2. /\ waiting \in BOOLEAN /\ ready \in Seq(Unit)
      /\ ready # <<>> => ready[1].key \/ ready[1].follows
      /\ \A k \in 2 .. Len(ready) : ready[k].follows
      /\ ready = <<>> /\ aus # <<>> => waiting
      /\ aus = <<>> => ready = <<>> /\ (waiting <=> wait_key \/ aus_broken)
  BY <1>1, ReadyFacts
<1>3. sends \in BOOLEAN /\ (sends => ready # <<>>)
  OBVIOUS
<1> HIDE DEF late, kept, waiting, skipped, ready, sends
<1>4. Len(ready) \in Nat /\ (ready # <<>> => Len(ready) > 0)
  BY <1>2, EmptySeq, LenProperties
<1>5. sends => /\ Tail(ready) \in Seq(Unit) /\ Len(Tail(ready)) = Len(ready) - 1
               /\ \A k \in 1 .. Len(Tail(ready)) : Tail(ready)[k] = ready[k + 1]
               /\ Head(ready) = ready[1] /\ ready[1] \in Unit
  <2> SUFFICES ASSUME ready # <<>>
               PROVE  /\ Tail(ready) \in Seq(Unit) /\ Len(Tail(ready)) = Len(ready) - 1
                      /\ \A k \in 1 .. Len(Tail(ready)) : Tail(ready)[k] = ready[k + 1]
                      /\ Head(ready) = ready[1] /\ ready[1] \in Unit
    BY <1>3
  <2>1. Head(ready) = ready[1]
    BY <1>2
  <2>2. QED
    BY <1>2, <2>1, HeadTailProperties
<1>6. /\ aus' \in Seq(Unit) /\ Len(aus') \in Nat
      /\ \A k \in 2 .. Len(aus') : aus'[k].follows
      /\ aus' # <<>> => aus'[1].key \/ aus'[1].follows
  <2>1. CASE sends
    <3>1. aus' = Tail(ready) /\ aus' \in Seq(Unit) /\ Len(aus') = Len(ready) - 1
      BY <1>1, <1>5, <2>1
    <3>2. Len(aus') \in Nat /\ \A k \in 1 .. Len(aus') : aus'[k] = ready[k + 1] /\ k + 1 \in 2 .. Len(ready)
      BY <1>3, <1>4, <1>5, <2>1, <3>1
    <3>3. \A k \in 1 .. Len(aus') : aus'[k].follows
      BY <1>2, <3>2
    <3>4. aus' # <<>> => 1 \in 1 .. Len(aus')
      BY <3>1, <3>2, EmptySeq
    <3>5. \A k \in 2 .. Len(aus') : k \in 1 .. Len(aus')
      BY <3>2
    <3>6. QED
      BY <3>1, <3>2, <3>3, <3>4, <3>5
  <2>2. CASE ~sends
    BY <1>1, <1>2, <1>4, <2>2
  <2>3. QED
    BY <1>3, <2>1, <2>2
<1>7. aus' # <<>> => ready # <<>>
  BY <1>1, <1>3
<1>8. sent' \in [decodable : BOOLEAN, odd : BOOLEAN] /\ sent'.decodable
  <2>1. CASE ~sends
    BY <1>1, <2>1 DEF IInv, TypeOK, Decodable
  <2>2. CASE sends
    <3>1. Head(ready).key \/ Head(ready).follows
      BY <1>2, <1>3, <1>5, <2>2
    <3>2. sent' = [decodable |-> TRUE, odd |-> ~sent.odd]
      BY <1>1, <2>2, <3>1
    <3>3. QED
      BY <3>2
  <2>3. QED
    BY <1>3, <2>1, <2>2
<1>9. TypeOK'
  <2>1. old' \in 0 .. Len(aus')
    BY <1>1, <1>6
  <2>2. aus_broken' \in BOOLEAN /\ wait_key' \in BOOLEAN /\ gap' \in BOOLEAN
    BY <1>1, <1>2
  <2>3. QED
    BY <1>1, <1>6, <1>8, <2>1, <2>2 DEF IInv, TypeOK
<1>10. HeadFollows' /\ HoldsAfterKey' /\ Decodable'
  BY <1>1, <1>6, <1>8 DEF IInv, HeadFollows, HoldsAfterKey, Decodable
<1>11. NextFollows'
  <2> SUFFICES ASSUME gap', ~wait_key' PROVE waiting_key \/ unit_key
    BY <1>1 DEF NextFollows, WillSkip
  <2>1. CASE aus # <<>>
    <3>1. ready # <<>> /\ gap
      BY <1>1, <1>2, <2>1
    <3>2. QED
      BY <1>1, <2>1, <3>1 DEF IInv, Chain
  <2>2. CASE aus = <<>>
    <3>1. gap
      BY <1>1, <2>2
    <3>2. ready = <<>>
      BY <1>2, <2>2
    <3>3. ~(wait_key \/ aus_broken)
      BY <1>1, <1>2, <2>2, <3>2
    <3>4. QED
      BY <1>1, <3>1, <3>3 DEF IInv, NextFollows, WillSkip
  <2>3. QED
    BY <2>1, <2>2
<1>12. Chain' /\ OffWaits'
  <2>1. ASSUME aus' # <<>>, gap' PROVE FALSE
    <3>1. ready # <<>>
      BY <1>7, <2>1
    <3>2. aus # <<>>
      BY <1>2, <3>1
    <3>3. ~gap
      BY <1>1, <3>2 DEF IInv, Chain
    <3>4. QED
      BY <1>1, <2>1, <3>1, <3>3
  <2>2. QED
    BY <1>1, <1>6, <2>1 DEF Chain, OffWaits
<1>13. QED
  BY <1>9, <1>10, <1>11, <1>12 DEF IInv

LEMMA WorkerStep ==
  ASSUME IInv, Worker
  PROVE  IInv'
BY TopStep, ClearStep, OtherWorkerStep, PassNextStep DEF Worker

-----------------------------------------------------------------------------
(* The operator, the clock and the network.                                *)

LEMMA RestStep ==
  ASSUME IInv, Change \/ TroubleComesOrGoes \/ Age \/ UNCHANGED vars
  PROVE  IInv'
<1>1. UNCHANGED <<pass, aus, aus_broken, gap, session, waiting_key, unit_key, worker, wait_key, sent>>
  BY DEF Change, TroubleComesOrGoes, Age, vars, shared, queue, rtsp, consumer
<1>2. old' \in 0 .. Len(aus)
  <2>1. Len(aus) \in Nat /\ old \in 0 .. Len(aus)
    BY LenProperties DEF IInv, TypeOK
  <2>2. CASE Age
    BY <2>1, <2>2 DEF Age
  <2>3. CASE Change \/ TroubleComesOrGoes \/ UNCHANGED vars
    BY <2>1, <2>3 DEF Change, TroubleComesOrGoes, vars, queue
  <2>4. QED
    BY <2>2, <2>3
<1>3. TypeOK'
  BY <1>1, <1>2 DEF IInv, TypeOK
<1>4. HeadFollows' /\ NextFollows' /\ HoldsAfterKey'
  BY <1>1 DEF IInv, HeadFollows, NextFollows, WillSkip, HoldsAfterKey
<1>5. Chain' /\ OffWaits' /\ Decodable'
  BY <1>1 DEF IInv, Chain, OffWaits, Decodable
<1>6. QED
  BY <1>3, <1>4, <1>5 DEF IInv

LEMMA NextIInv == IInv /\ [Next]_vars => IInv'
BY RtspStep, WorkerStep, RestStep DEF Next

-----------------------------------------------------------------------------
(* The result.                                                             *)

\* An access unit that goes on air can be decoded, in every interleaving of the operator, the
\* thread rtsp and the worker, and whatever is thrown away (pass_next, push_au, clear_aus).
THEOREM SentIsDecodable == Spec => []Decodable
<1>1. Init => IInv
  BY InitIInv
<1>2. IInv /\ [Next]_vars => IInv'
  BY NextIInv
<1>3. IInv => Decodable
  BY DEF IInv
<1>4. QED
  BY <1>1, <1>2, <1>3, PTL DEF Spec
=============================================================================

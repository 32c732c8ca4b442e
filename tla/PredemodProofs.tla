--------------------------- MODULE PredemodProofs ---------------------------
(***************************************************************************)
(* Proofs about the front of the receiver, for any number of workers, any  *)
(* size of its stores and any captures.                                    *)
(***************************************************************************)
EXTENDS Predemod, SequenceTheorems, FiniteSetTheorems, WellFoundedInduction, TLAPS

TypeOK ==
  /\ iq \in Seq(Items) /\ Len(iq) <= IQ_CAP
  /\ stash \in Seq(Items) /\ aged \in 0 .. Len(stash)
  /\ idxGen \in Nat /\ work \in [Workers -> SUBSET Results]
  /\ pre \in Seq(Results) /\ pending \in SUBSET Results /\ consumed \in SUBSET Results
  /\ next \in Nat

\* Numbers given are behind the next one, and a number is in one place only: with one worker, at
\* one place of the channel, or with one result that waits.
Numbered ==
  /\ \A w \in Workers : \A r \in work[w] : r.idx < idxGen
  /\ \A i \in 1 .. Len(pre) : pre[i].idx < idxGen
  /\ \A r \in pending : r.idx < idxGen
InPoolOnce ==
  \A w \in Workers : \A r \in work[w] :
    /\ \A v \in Workers : \A q \in work[v] : q.idx = r.idx => v = w
    /\ \A i \in 1 .. Len(pre) : pre[i].idx # r.idx
    /\ \A q \in pending : q.idx # r.idx
InChannelOnce ==
  \A i \in 1 .. Len(pre) :
    /\ \A j \in 1 .. Len(pre) : pre[i].idx = pre[j].idx => i = j
    /\ \A q \in pending : q.idx # pre[i].idx
WaitsOnce == \A r, q \in pending : r.idx = q.idx => r = q
Once == Numbered /\ InPoolOnce /\ InChannelOnce /\ WaitsOnce

\* A full valve has just been opened: one of those that wait is next.
ValveOpens ==
  /\ IsFiniteSet(pending)
  /\ Cardinality(pending) = VALVE => \E r \in pending : r.idx = next

\* What is behind the turn was taken or given up.
TurnsTaken ==
  /\ \A j \in 0 .. next - 1 : j \in jumped \/ \E q \in consumed : q.idx = j
  /\ \A r \in consumed : r.idx < next

IInv == TypeOK /\ Once /\ NoneBehind /\ ValveOpens /\ TurnsTaken

\* Nothing was read yet.
LEMMA InitIInv == ASSUME PredemodAssumption, Init PROVE IInv
<1>1. iq = <<>> /\ stash = <<>> /\ aged = 0 /\ idxGen = 0 /\ work = [w \in Workers |-> {}]
      /\ pre = <<>> /\ next = 0 /\ pending = {} /\ consumed = {}
  BY DEF Init
<1>2. TypeOK
  <2>1. aged \in 0 .. Len(stash)
    BY <1>1
  <2>2. Len(iq) <= IQ_CAP
    BY <1>1 DEF PredemodAssumption
  <2>3. QED
    BY <1>1, <2>1, <2>2, EmptySeq DEF TypeOK
<1>3. Once
  BY <1>1 DEF Once, Numbered, InPoolOnce, InChannelOnce, WaitsOnce
<1>4. NoneBehind /\ ValveOpens /\ TurnsTaken
  BY <1>1, FS_EmptySet DEF PredemodAssumption, NoneBehind, ValveOpens, TurnsTaken
<1>5. QED
  BY <1>2, <1>3, <1>4 DEF IInv

-----------------------------------------------------------------------------
(* The reading thread, the clock, and the sweep: captures without a number. *)

\* A step that numbers nothing and takes nothing leaves the results as they are.
LEMMA ResultsStay ==
  ASSUME IInv, iq' \in Seq(Items), Len(iq') <= IQ_CAP, stash' \in Seq(Items),
         aged' \in 0 .. Len(stash'),
         UNCHANGED <<idxGen, work, pre, turn>>
  PROVE  IInv'
<1>1. UNCHANGED <<next, pending, consumed, jumped>>
  BY DEF turn
<1>2. TypeOK'
  BY <1>1 DEF IInv, TypeOK
<1>3. Once'
  BY <1>1 DEF IInv, Once, Numbered, InPoolOnce, InChannelOnce, WaitsOnce
<1>4. NoneBehind' /\ ValveOpens' /\ TurnsTaken'
  BY <1>1 DEF IInv, NoneBehind, ValveOpens, TurnsTaken
<1>5. QED
  BY <1>2, <1>3, <1>4 DEF IInv

\* A write into the stash keeps its types.
LEMMA StashTypes ==
  ASSUME TypeOK
  PROVE  /\ Len(iq) \in Nat /\ Len(stash) \in Nat /\ aged \in Nat /\ aged <= Len(stash)
         /\ iq # <<>> => Head(iq) \in Items /\ Tail(iq) \in Seq(Items)
         /\ stash # <<>> => Tail(stash) \in Seq(Items) /\ Len(Tail(stash)) = Len(stash) - 1
BY LenProperties, HeadTailProperties DEF TypeOK

\* A capture that is read goes to the queue, to the stash or is dropped.
LEMMA ReadStep ==
  ASSUME PredemodAssumption, IInv, NEW x \in Items, ReadDecoded(x) \/ ReadSpare(x) \/ ReadSamples(x)
  PROVE  IInv'
<1>0. TypeOK
  BY DEF IInv
<1>1. UNCHANGED <<idxGen, work, pre, turn>>
  BY DEF ReadDecoded, ReadSpare, ReadSamples, pool
<1>2. CASE ReadDecoded(x) \/ ReadSamples(x)
  <2>1. UNCHANGED <<stash, aged>> /\ TrySend(x)
    BY <1>2 DEF ReadDecoded, ReadSamples
  <2>2. (Len(iq) < IQ_CAP /\ iq' = Append(iq, x)) \/ iq' = iq
    BY <2>1 DEF TrySend
  <2>3. iq' \in Seq(Items) /\ Len(iq') <= IQ_CAP
    <3>1. CASE Len(iq) < IQ_CAP /\ iq' = Append(iq, x)
      <4>1. iq' \in Seq(Items) /\ Len(iq') = Len(iq) + 1
        BY <1>0, <3>1, AppendProperties DEF TypeOK
      <4>2. QED
        BY <1>0, <3>1, <4>1, StashTypes DEF PredemodAssumption
    <3>2. CASE iq' = iq
      BY <1>0, <3>2 DEF TypeOK
    <3>3. QED
      BY <2>2, <3>1, <3>2
  <2>4. QED
    BY <1>0, <1>1, <2>1, <2>3, ResultsStay DEF TypeOK
<1>3. CASE ReadSpare(x)
  <2>1. UNCHANGED iq /\ stash' = Stashed(x)
    BY <1>3 DEF ReadSpare
  <2>2. CASE Len(stash) < STASH_CAP
    <3>1. stash' = Append(stash, x) /\ aged' = aged
      BY <1>3, <2>1, <2>2 DEF ReadSpare, Stashed
    <3>2. stash' \in Seq(Items) /\ Len(stash') = Len(stash) + 1
      BY <1>0, <3>1, AppendProperties DEF TypeOK
    <3>3. aged' \in 0 .. Len(stash')
      BY <1>0, <3>1, <3>2, StashTypes
    <3>4. QED
      BY <1>0, <1>1, <2>1, <3>2, <3>3, ResultsStay DEF TypeOK
  <2>3. CASE ~(Len(stash) < STASH_CAP)
    <3>1. stash' = Append(Tail(stash), x) /\ aged' = IF aged = 0 THEN 0 ELSE aged - 1
      BY <1>3, <2>1, <2>3 DEF ReadSpare, Stashed
    <3>2. STASH_CAP \in Nat \ {0}
      BY DEF PredemodAssumption
    <3>3. stash # <<>>
      BY <1>0, <2>3, <3>2, StashTypes, EmptySeq
    <3>4. Tail(stash) \in Seq(Items) /\ Len(Tail(stash)) = Len(stash) - 1
      BY <1>0, <3>3, StashTypes
    <3>5. stash' \in Seq(Items) /\ Len(stash') = Len(stash)
      BY <1>0, <3>1, <3>4, AppendProperties, StashTypes
    <3>6. aged' \in 0 .. Len(stash')
      BY <1>0, <3>1, <3>5, StashTypes
    <3>7. QED
      BY <1>0, <1>1, <2>1, <3>5, <3>6, ResultsStay DEF TypeOK
  <2>4. QED
    BY <2>2, <2>3
<1>4. QED
  BY <1>2, <1>3

\* The watch over the captures that wait only ages.
LEMMA ClockStep ==
  ASSUME IInv, SpareAges \/ CoverEnds \/ UNCHANGED vars
  PROVE  IInv'
<1>1. UNCHANGED <<iq, stash, idxGen, work, pre, turn>>
  BY DEF SpareAges, CoverEnds, vars, pool
<1>2. aged' \in 0 .. Len(stash)
  <2>1. aged' = aged \/ (aged' = aged + 1 /\ aged < Len(stash))
    BY DEF SpareAges, CoverEnds, vars
  <2>2. QED
    BY <2>1, StashTypes DEF IInv
<1>3. QED
  BY <1>1, <1>2, ResultsStay DEF IInv, TypeOK

\* The sweep moves a capture of the stash back to the queue.
LEMMA SweepStep ==
  ASSUME PredemodAssumption, IInv, Sweep
  PROVE  IInv'
<1>1. /\ iq' = iq \o SubSeq(stash, 1, SweptNow)
      /\ stash' = SubSeq(stash, SweptNow + 1, Len(stash)) /\ aged' = aged - SweptNow
      /\ UNCHANGED <<idxGen, work, pre, turn>>
  BY DEF Sweep, SweepStash, SweepWhatFits, pool
<1>2. TypeOK /\ IQ_CAP \in Nat /\ Len(iq) <= IQ_CAP
  BY DEF IInv, TypeOK, PredemodAssumption
<1>3. SweptNow \in 0 .. aged /\ SweptNow <= IQ_CAP - Len(iq)
  BY <1>2, StashTypes DEF SweptNow, LeastOf
<1> DEFINE n == SweptNow
           m == Len(stash)
<1>4. n \in Nat /\ n <= m /\ m \in Nat /\ aged \in Nat /\ n <= aged /\ aged <= m /\ Len(iq) \in Nat
  BY <1>2, <1>3, StashTypes
<1>5. \A i \in 1 .. m : stash[i] \in Items
  BY <1>2, ElementOfSeq DEF TypeOK
<1> HIDE DEF n, m
<1>6. SubSeq(stash, 1, n) \in Seq(Items) /\ Len(SubSeq(stash, 1, n)) = n
  <2>1. \A i \in 1 .. n : stash[i] \in Items
    BY <1>4, <1>5
  <2>2. /\ SubSeq(stash, 1, n) \in Seq(Items)
        /\ Len(SubSeq(stash, 1, n)) = IF 1 <= n THEN n - 1 + 1 ELSE 0
    BY <1>4, <2>1, SubSeqProperties
  <2>3. QED
    BY <1>4, <2>2
<1>7. SubSeq(stash, n + 1, m) \in Seq(Items) /\ Len(SubSeq(stash, n + 1, m)) = m - n
  <2>1. n + 1 \in Int /\ m \in Int /\ \A i \in n + 1 .. m : stash[i] \in Items
    BY <1>4, <1>5
  <2>2. /\ SubSeq(stash, n + 1, m) \in Seq(Items)
        /\ Len(SubSeq(stash, n + 1, m)) = IF n + 1 <= m THEN m - (n + 1) + 1 ELSE 0
    BY <2>1, SubSeqProperties
  <2>3. QED
    BY <1>4, <2>2
<1>8. iq' \in Seq(Items) /\ Len(iq') = Len(iq) + n
  BY <1>1, <1>2, <1>6, ConcatProperties DEF n, TypeOK
<1>9. stash' \in Seq(Items) /\ Len(stash') = m - n /\ aged' = aged - n
  BY <1>1, <1>7 DEF n, m
<1>10. Len(iq') <= IQ_CAP /\ aged' \in 0 .. Len(stash')
  BY <1>2, <1>3, <1>4, <1>8, <1>9 DEF n
<1>11. QED
  BY <1>1, <1>8, <1>9, <1>10, ResultsStay

-----------------------------------------------------------------------------
(* The pool: captures get their numbers.                                   *)

\* The first of the queue and what remains.
LEMMA HeadOfQueue ==
  ASSUME PredemodAssumption, TypeOK, iq # <<>>
  PROVE  /\ Head(iq) \in Items /\ Tail(iq) \in Seq(Items) /\ Len(Tail(iq)) <= IQ_CAP
<1>1. Head(iq) \in Items /\ Tail(iq) \in Seq(Items) /\ Len(Tail(iq)) = Len(iq) - 1
  BY HeadTailProperties DEF TypeOK
<1>2. Len(iq) \in Nat /\ Len(iq) <= IQ_CAP /\ IQ_CAP \in Nat
  BY LenProperties DEF TypeOK, PredemodAssumption
<1>3. QED
  BY <1>1, <1>2

\* Results of every place are results.
LEMMA ResultsTyped ==
  ASSUME TypeOK
  PROVE  /\ \A w \in Workers : \A r \in work[w] : r \in Results /\ r.idx \in Nat
         /\ \A i \in 1 .. Len(pre) : pre[i] \in Results /\ pre[i].idx \in Nat
         /\ \A r \in pending : r \in Results /\ r.idx \in Nat
<1>1. \A r \in Results : r.idx \in Nat
  BY DEF Results
<1>2. \A w \in Workers : \A r \in work[w] : r \in Results
  BY DEF TypeOK
<1>3. \A i \in 1 .. Len(pre) : pre[i] \in Results
  BY ElementOfSeq DEF TypeOK
<1>4. \A r \in pending : r \in Results
  BY DEF TypeOK
<1>5. QED
  BY <1>1, <1>2, <1>3, <1>4

\* The number of the capture taken is new.
LEMMA TakeStep ==
  ASSUME PredemodAssumption, IInv, NEW w \in Workers, Take(w)
  PROVE  IInv'
<1> DEFINE new == [idx |-> idxGen, item |-> Head(iq)]
<1>1. /\ work[w] = {} /\ iq # <<>> /\ iq' = Tail(iq) /\ idxGen' = idxGen + 1
      /\ work' = [work EXCEPT ![w] = {new}]
      /\ UNCHANGED <<stash, aged, pre, next, pending, consumed, jumped>>
  BY DEF Take, turn
<1>2. TypeOK /\ IQ_CAP \in Nat
  BY DEF IInv, PredemodAssumption
<1>3. new \in Results /\ new.idx = idxGen /\ idxGen \in Nat
  BY <1>1, <1>2, HeadOfQueue DEF Results, TypeOK
<1> HIDE DEF new
<1>4. /\ work'[w] = {new} /\ \A v \in Workers : v # w => work'[v] = work[v]
      /\ work' \in [Workers -> SUBSET Results]
  BY <1>1, <1>2, <1>3 DEF TypeOK
<1>5. TypeOK'
  BY <1>1, <1>2, <1>3, <1>4, HeadOfQueue DEF TypeOK
<1>6. Numbered /\ InPoolOnce /\ InChannelOnce /\ WaitsOnce
  BY DEF IInv, Once
<1>7. /\ \A v \in Workers : \A r \in work[v] : r.idx \in Nat
      /\ \A i \in 1 .. Len(pre) : pre[i].idx \in Nat
      /\ \A r \in pending : r.idx \in Nat
  BY <1>2, ResultsTyped
<1>8. Numbered'
  BY <1>1, <1>3, <1>4, <1>6, <1>7 DEF Numbered
<1>9. InPoolOnce'
  <2> SUFFICES ASSUME NEW u \in Workers, NEW r \in work'[u]
               PROVE  /\ \A v \in Workers : \A q \in work'[v] : q.idx = r.idx => v = u
                      /\ \A i \in 1 .. Len(pre) : pre[i].idx # r.idx
                      /\ \A q \in pending : q.idx # r.idx
    BY <1>1 DEF InPoolOnce
  <2>1. CASE u = w
    <3>1. r = new
      BY <1>4, <2>1
    <3>2. QED
      BY <1>3, <1>4, <1>6, <1>7, <2>1, <3>1 DEF Numbered
  <2>2. CASE u # w
    <3>1. r \in work[u] /\ r.idx < idxGen
      BY <1>4, <1>6, <2>2 DEF Numbered
    <3>2. ASSUME NEW v \in Workers, NEW q \in work'[v], q.idx = r.idx PROVE v = u
      <4>1. CASE v = w
        BY <1>3, <1>4, <1>7, <3>1, <3>2, <4>1
      <4>2. CASE v # w
        BY <1>4, <1>6, <3>1, <3>2, <4>2 DEF InPoolOnce
      <4>3. QED
        BY <4>1, <4>2
    <3>3. QED
      BY <1>6, <3>1, <3>2 DEF InPoolOnce
  <2>3. QED
    BY <2>1, <2>2
<1>10. InChannelOnce' /\ WaitsOnce' /\ NoneBehind' /\ ValveOpens' /\ TurnsTaken'
  BY <1>1, <1>6 DEF IInv, InChannelOnce, WaitsOnce, NoneBehind, ValveOpens, TurnsTaken
<1>11. QED
  BY <1>5, <1>8, <1>9, <1>10 DEF IInv, Once

\* A stale capture is dropped before it gets a number.
LEMMA DropStaleStep ==
  ASSUME PredemodAssumption, IInv, NEW w \in Workers, DropStale(w)
  PROVE  IInv'
<1>1. iq # <<>> /\ iq' = Tail(iq) /\ UNCHANGED <<stash, aged, idxGen, work, pre, turn>>
  BY DEF DropStale
<1>2. QED
  BY <1>1, HeadOfQueue, ResultsStay DEF IInv, TypeOK

\* A claim takes one spare from the stash, or none.
LEMMA ClaimTypes ==
  ASSUME TypeOK, NEW x, Claim(x)
  PROVE  stash' \in Seq(Items) /\ aged' \in 0 .. Len(stash')
<1> DEFINE m == Len(stash)
<1>1. m \in Nat /\ aged \in Nat /\ aged <= m /\ \A i \in 1 .. m : stash[i] \in Items
  BY LenProperties, ElementOfSeq DEF TypeOK
<1>2. CASE Spare(x) = {}
  BY <1>2 DEF Claim, TypeOK
<1>3. CASE Spare(x) # {}
  <2> DEFINE k == CHOOSE k \in Spare(x) : \A j \in Spare(x) : k <= j
  <2>1. /\ stash' = RemoveAt(stash, k)
        /\ aged' = IF k <= aged THEN aged - 1 ELSE aged
    BY <1>3 DEF Claim
  <2>2. Spare(x) \in SUBSET (1 .. m)
    BY DEF Spare
  <2>3. k \in Spare(x)
    <3>1. PICK y \in Spare(x) : \A z \in Spare(x) : <<z, y>> \notin OpToRel(<, Nat)
      <4>1. Spare(x) \subseteq Nat
        BY <1>1, <2>2
      <4>2. QED
        BY <1>3, <4>1, WFMin, NatLessThanWellFounded
    <3>2. ASSUME NEW z \in Spare(x) PROVE y <= z
      <4>1. y \in Nat /\ z \in Nat
        BY <1>1, <2>2
      <4>2. ~(z < y)
        BY <3>1, <4>1 DEF OpToRel
      <4>3. QED
        BY <4>1, <4>2
    <3>3. QED
      BY <3>2
  <2> HIDE DEF k, m
  <2>4. k \in Nat /\ 1 <= k /\ k <= m
    BY <1>1, <2>2, <2>3
  <2>5. SubSeq(stash, 1, k - 1) \in Seq(Items) /\ Len(SubSeq(stash, 1, k - 1)) = k - 1
    <3>1. k - 1 \in Int /\ \A i \in 1 .. k - 1 : stash[i] \in Items
      BY <1>1, <2>4
    <3>2. /\ SubSeq(stash, 1, k - 1) \in Seq(Items)
          /\ Len(SubSeq(stash, 1, k - 1)) = IF 1 <= k - 1 THEN (k - 1) - 1 + 1 ELSE 0
      BY <3>1, SubSeqProperties
    <3>3. QED
      BY <2>4, <3>2
  <2>6. SubSeq(stash, k + 1, m) \in Seq(Items) /\ Len(SubSeq(stash, k + 1, m)) = m - k
    <3>1. k + 1 \in Int /\ m \in Int /\ \A i \in k + 1 .. m : stash[i] \in Items
      BY <1>1, <2>4
    <3>2. /\ SubSeq(stash, k + 1, m) \in Seq(Items)
          /\ Len(SubSeq(stash, k + 1, m)) = IF k + 1 <= m THEN m - (k + 1) + 1 ELSE 0
      BY <3>1, SubSeqProperties
    <3>3. QED
      BY <1>1, <2>4, <3>2
  <2>7. stash' \in Seq(Items) /\ Len(stash') = m - 1
    <3>1. /\ SubSeq(stash, 1, k - 1) \o SubSeq(stash, k + 1, m) \in Seq(Items)
          /\ Len(SubSeq(stash, 1, k - 1) \o SubSeq(stash, k + 1, m)) = (k - 1) + (m - k)
      BY <2>5, <2>6, ConcatProperties
    <3>2. stash' = SubSeq(stash, 1, k - 1) \o SubSeq(stash, k + 1, m)
      BY <2>1 DEF RemoveAt, m
    <3>3. QED
      BY <1>1, <2>4, <3>1, <3>2
  <2>8. aged' \in 0 .. m - 1
    BY <1>1, <2>1, <2>4
  <2>9. QED
    BY <2>7, <2>8
<1>4. QED
  BY <1>2, <1>3

\* A worker that worked a decoded capture out claims its spare.
LEMMA ProcessStep ==
  ASSUME IInv, NEW w \in Workers, Process(w)
  PROVE  IInv'
<1>1. UNCHANGED <<iq, idxGen, work, pre, turn>> /\ \E r \in work[w] : Claim(r.item) \/ GivesUp(r.item)
  BY DEF Process
<1>2. TypeOK
  BY DEF IInv
<1>3. stash' \in Seq(Items) /\ aged' \in 0 .. Len(stash')
  BY <1>1, <1>2, ClaimTypes DEF GivesUp, TypeOK
<1>4. QED
  BY <1>1, <1>3, ResultsStay DEF IInv, TypeOK

\* A result leaves its worker for the end of the channel.
LEMMA FinishStep ==
  ASSUME IInv, NEW w \in Workers, Finish(w)
  PROVE  IInv'
<1>1. PICK r \in work[w] : pre' = Append(pre, r)
  BY DEF Finish
<1>2. work' = [work EXCEPT ![w] = {}]
      /\ UNCHANGED <<iq, stash, aged, idxGen, next, pending, consumed, jumped>>
  BY DEF Finish, turn
<1>3. TypeOK /\ Numbered /\ InPoolOnce /\ InChannelOnce /\ WaitsOnce
  BY DEF IInv, Once
<1>4. /\ work'[w] = {} /\ \A v \in Workers : v # w => work'[v] = work[v]
      /\ work' \in [Workers -> SUBSET Results]
  BY <1>2, <1>3 DEF TypeOK
<1>5. /\ pre' \in Seq(Results) /\ Len(pre') = Len(pre) + 1 /\ Len(pre) \in Nat
      /\ \A i \in 1 .. Len(pre) : pre'[i] = pre[i]
      /\ pre'[Len(pre) + 1] = r
  <2>1. r \in Results /\ pre \in Seq(Results) /\ Len(pre) \in Nat
    BY <1>3, LenProperties DEF TypeOK
  <2>2. QED
    BY <1>1, <2>1, AppendProperties
<1>6. \A i \in 1 .. Len(pre') :
        (i \in 1 .. Len(pre) /\ pre'[i] = pre[i]) \/ (i = Len(pre) + 1 /\ pre'[i] = r)
  BY <1>5
<1>7. TypeOK'
  BY <1>2, <1>3, <1>4, <1>5 DEF TypeOK
<1>8. Numbered'
  BY <1>2, <1>3, <1>4, <1>6 DEF Numbered
<1>9. InPoolOnce'
  <2> SUFFICES ASSUME NEW u \in Workers, NEW s \in work'[u]
               PROVE  /\ \A v \in Workers : \A q \in work'[v] : q.idx = s.idx => v = u
                      /\ \A i \in 1 .. Len(pre') : pre'[i].idx # s.idx
                      /\ \A q \in pending : q.idx # s.idx
    BY <1>2 DEF InPoolOnce
  <2>1. u # w /\ s \in work[u]
    BY <1>4
  <2>2. s.idx # r.idx
    BY <1>3, <2>1 DEF InPoolOnce
  <2>3. \A i \in 1 .. Len(pre') : pre'[i].idx # s.idx
    BY <1>3, <1>6, <2>1, <2>2 DEF InPoolOnce
  <2>4. \A v \in Workers : \A q \in work'[v] : q.idx = s.idx => v = u
    BY <1>3, <1>4, <2>1 DEF InPoolOnce
  <2>5. QED
    BY <1>3, <2>1, <2>3, <2>4 DEF InPoolOnce
<1>10. InChannelOnce'
  <2>1. \A i \in 1 .. Len(pre) : pre[i].idx # r.idx
    BY <1>3 DEF InPoolOnce
  <2>2. \A q \in pending : q.idx # r.idx
    BY <1>3 DEF InPoolOnce
  <2> SUFFICES ASSUME NEW i \in 1 .. Len(pre')
               PROVE  /\ \A j \in 1 .. Len(pre') : pre'[i].idx = pre'[j].idx => i = j
                      /\ \A q \in pending : q.idx # pre'[i].idx
    BY <1>2 DEF InChannelOnce
  <2>3. CASE i \in 1 .. Len(pre) /\ pre'[i] = pre[i]
    BY <1>3, <1>6, <2>1, <2>3 DEF InChannelOnce
  <2>4. CASE i = Len(pre) + 1 /\ pre'[i] = r
    BY <1>6, <2>1, <2>2, <2>4
  <2>5. QED
    BY <1>6, <2>3, <2>4
<1>11. WaitsOnce' /\ NoneBehind' /\ ValveOpens' /\ TurnsTaken'
  BY <1>2, <1>3 DEF IInv, WaitsOnce, NoneBehind, ValveOpens, TurnsTaken
<1>12. QED
  BY <1>7, <1>8, <1>9, <1>10, <1>11 DEF IInv, Once

\* A worker that dies takes its number with it.
LEMMA DieStep ==
  ASSUME IInv, NEW w \in Workers, Die(w)
  PROVE  IInv'
<1>1. work' = [work EXCEPT ![w] = {}]
      /\ UNCHANGED <<iq, stash, aged, idxGen, pre, next, pending, consumed, jumped>>
  BY DEF Die, turn
<1>2. TypeOK /\ Numbered /\ InPoolOnce /\ InChannelOnce /\ WaitsOnce
  BY DEF IInv, Once
<1>3. /\ \A v \in Workers : work'[v] \subseteq work[v]
      /\ work' \in [Workers -> SUBSET Results]
  BY <1>1, <1>2 DEF TypeOK
<1>4. TypeOK'
  BY <1>1, <1>2, <1>3 DEF TypeOK
<1>5. Numbered' /\ InPoolOnce'
  BY <1>1, <1>2, <1>3 DEF Numbered, InPoolOnce
<1>6. InChannelOnce' /\ WaitsOnce' /\ NoneBehind' /\ ValveOpens' /\ TurnsTaken'
  BY <1>1, <1>2 DEF IInv, InChannelOnce, WaitsOnce, NoneBehind, ValveOpens, TurnsTaken
<1>7. QED
  BY <1>4, <1>5, <1>6 DEF IInv, Once

-----------------------------------------------------------------------------
(* demod_loop.                                                             *)

\* A turn of demod_loop that finds the channel empty.
LEMMA StarveStep ==
  ASSUME IInv, Starve
  PROVE  IInv'
<1>1. UNCHANGED <<iq, stash, aged, idxGen, work, pre, turn>>
  BY DEF Starve, pool
<1>2. QED
  BY <1>1, ResultsStay DEF IInv, TypeOK

\* The result that was next leaves those that wait; the others are later.
LEMMA TakePendingStep ==
  ASSUME PredemodAssumption, IInv, TakePending
  PROVE  IInv'
<1>1. PICK r \in pending : r.idx = next /\ pending' = pending \ {r} /\ consumed' = consumed \cup {r}
  BY DEF TakePending
<1>2. next' = next + 1 /\ UNCHANGED <<iq, stash, aged, idxGen, work, pre, jumped>>
  BY DEF TakePending, pool
<1>3. TypeOK /\ Numbered /\ InPoolOnce /\ InChannelOnce /\ WaitsOnce
      /\ NoneBehind /\ ValveOpens /\ TurnsTaken /\ VALVE \in Nat
  BY DEF IInv, Once, PredemodAssumption
<1>4. TypeOK'
  BY <1>1, <1>2, <1>3 DEF TypeOK
<1>5. Numbered' /\ InPoolOnce' /\ InChannelOnce' /\ WaitsOnce'
  BY <1>1, <1>2, <1>3 DEF Numbered, InPoolOnce, InChannelOnce, WaitsOnce
<1>6. /\ IsFiniteSet(pending') /\ Cardinality(pending') = Cardinality(pending) - 1
      /\ Cardinality(pending) \in Nat /\ Cardinality(pending) <= VALVE
  BY <1>1, <1>3, FS_RemoveElement, FS_CardinalityType DEF ValveOpens, NoneBehind
<1>7. NoneBehind'
  <2>1. ASSUME NEW q \in pending' PROVE q.idx >= next + 1
    <3>1. q \in pending /\ q # r /\ q.idx # next
      BY <1>1, <1>3, <2>1 DEF WaitsOnce
    <3>2. q.idx \in Nat /\ next \in Nat /\ q.idx >= next
      BY <1>3, <3>1, ResultsTyped DEF NoneBehind, TypeOK
    <3>3. QED
      BY <3>1, <3>2
  <2>2. Cardinality(pending') <= VALVE
    BY <1>3, <1>6
  <2>3. QED
    BY <1>2, <2>1, <2>2 DEF NoneBehind
<1>8. ValveOpens'
  <2>1. Cardinality(pending') # VALVE
    BY <1>3, <1>6
  <2>2. QED
    BY <1>6, <2>1 DEF ValveOpens
<1>9. TurnsTaken'
  <2>1. ASSUME NEW j \in 0 .. next PROVE j \in jumped \/ \E q \in consumed' : q.idx = j
    <3>1. CASE j = next
      BY <1>1, <3>1
    <3>2. CASE j # next
      <4>1. j \in 0 .. next - 1
        BY <1>3, <3>2 DEF TypeOK
      <4>2. QED
        BY <1>1, <1>3, <4>1 DEF TurnsTaken
    <3>3. QED
      BY <3>1, <3>2
  <2>2. ASSUME NEW q \in consumed' PROVE q.idx < next + 1
    <3>1. next \in Nat /\ \A p \in consumed : p.idx \in Nat
      BY <1>3 DEF TypeOK, Results
    <3>2. QED
      BY <1>1, <1>3, <3>1 DEF TurnsTaken
  <2>3. next' - 1 = next
    BY <1>2, <1>3 DEF TypeOK
  <2>4. QED
    BY <1>2, <2>1, <2>2, <2>3 DEF TurnsTaken
<1>10. QED
  BY <1>4, <1>5, <1>7, <1>8, <1>9 DEF IInv, Once

\* The result received is nowhere else any more, and none of those that wait is next.
LEMMA ReceivedFacts ==
  ASSUME IInv, Waits, NEW r, Received(r), UNCHANGED <<idxGen, work>>
  PROVE  /\ pre' \in Seq(Results) /\ r \in Results /\ r.idx \in Nat /\ r.idx < idxGen
         /\ \A i \in 1 .. Len(pre') : i + 1 \in 1 .. Len(pre) /\ pre'[i] = pre[i + 1]
         /\ \A i \in 1 .. Len(pre') : pre'[i].idx # r.idx
         /\ \A w \in Workers : \A q \in work[w] : q.idx # r.idx
         /\ \A q \in pending : q.idx # r.idx /\ q.idx # next
<1>1. pre # <<>> /\ r = Head(pre) /\ pre' = Tail(pre)
  BY DEF Received
<1>2. TypeOK /\ Numbered /\ InPoolOnce /\ InChannelOnce /\ pre \in Seq(Results)
  BY DEF IInv, Once, TypeOK
<1>3. /\ pre' \in Seq(Results) /\ Len(pre') = Len(pre) - 1
      /\ \A i \in 1 .. Len(pre') : pre'[i] = pre[i + 1]
      /\ Len(pre) \in Nat /\ Len(pre) > 0
  BY <1>1, <1>2, HeadTailProperties, LenProperties, EmptySeq
<1>4. 1 \in 1 .. Len(pre) /\ r = pre[1]
  BY <1>1, <1>2, <1>3
<1>5. \A i \in 1 .. Len(pre') : i + 1 \in 1 .. Len(pre) /\ i + 1 # 1
  BY <1>3
<1>6. r \in Results /\ r.idx \in Nat
  BY <1>2, <1>4, ResultsTyped
<1>7. \A i \in 1 .. Len(pre') : pre'[i].idx # r.idx
  BY <1>2, <1>3, <1>4, <1>5 DEF InChannelOnce
<1>8. QED
  BY <1>2, <1>3, <1>4, <1>5, <1>6, <1>7 DEF Numbered, InPoolOnce, InChannelOnce, Waits

\* What a result that is received leaves behind keeps its numbers.
LEMMA ReceivedOnce ==
  ASSUME IInv, Waits, NEW r, Received(r), UNCHANGED <<idxGen, work>>,
         pending' \in {pending, pending \cup {r}}
  PROVE  Once'
<1>1. Numbered /\ InPoolOnce /\ InChannelOnce /\ WaitsOnce
  BY DEF IInv, Once
<1>2. Numbered'
  BY <1>1, ReceivedFacts DEF Numbered
<1>3. InPoolOnce'
  BY <1>1, ReceivedFacts DEF InPoolOnce
<1>4. InChannelOnce'
  <2> SUFFICES ASSUME NEW i \in 1 .. Len(pre')
               PROVE  /\ \A j \in 1 .. Len(pre') : pre'[i].idx = pre'[j].idx => i = j
                      /\ \A q \in pending' : q.idx # pre'[i].idx
    BY DEF InChannelOnce
  <2>1. i + 1 \in 1 .. Len(pre) /\ pre'[i] = pre[i + 1] /\ pre'[i].idx # r.idx
    BY ReceivedFacts
  <2>2. ASSUME NEW j \in 1 .. Len(pre'), pre'[i].idx = pre'[j].idx PROVE i = j
    <3>1. j + 1 \in 1 .. Len(pre) /\ pre'[j] = pre[j + 1]
      BY ReceivedFacts
    <3>2. i + 1 = j + 1
      BY <1>1, <2>1, <2>2, <3>1 DEF InChannelOnce
    <3>3. QED
      BY <3>2
  <2>3. QED
    BY <1>1, <2>1, <2>2 DEF InChannelOnce
<1>5. WaitsOnce'
  BY <1>1, ReceivedFacts DEF WaitsOnce
<1>6. QED
  BY <1>2, <1>3, <1>4, <1>5 DEF Once

\* Not full, as none of those that wait is next.
LEMMA ValveShut ==
  ASSUME PredemodAssumption, IInv, Waits
  PROVE  /\ IsFiniteSet(pending) /\ Cardinality(pending) \in Nat /\ VALVE \in Nat /\ VALVE > 0
         /\ Cardinality(pending) < VALVE
<1>1. IsFiniteSet(pending) /\ Cardinality(pending) # VALVE
  BY DEF IInv, ValveOpens, Waits
<1>2. Cardinality(pending) \in Nat /\ Cardinality(pending) <= VALVE /\ VALVE \in Nat /\ VALVE > 0
  BY <1>1, FS_CardinalityType DEF IInv, NoneBehind, PredemodAssumption
<1>3. QED
  BY <1>1, <1>2

\* What waits has later turns still.
LEMMA WaitsLater ==
  ASSUME IInv, Waits
  PROVE  \A q \in pending : q.idx \in Nat /\ q.idx >= next /\ q.idx # next
BY ResultsTyped DEF IInv, NoneBehind, Waits

\* A result whose turn it is: it is taken and the turn passes.
LEMMA InTurnStep ==
  ASSUME PredemodAssumption, IInv, Waits, NEW r, Received(r), TakeInTurn(r),
         UNCHANGED <<iq, stash, aged, idxGen, work>>
  PROVE  IInv'
<1>1. r.idx = next /\ consumed' = consumed \cup {r} /\ next' = r.idx + 1
      /\ UNCHANGED <<pending, jumped>>
  BY DEF TakeInTurn, OnTurn, InTurn
<1>2. TypeOK /\ TurnsTaken /\ next \in Nat
  BY DEF IInv, TypeOK
<1>3. r \in Results /\ pre' \in Seq(Results)
  BY ReceivedFacts
<1>4. TypeOK'
  BY <1>1, <1>2, <1>3 DEF TypeOK
<1>5. Once'
  BY <1>1, ReceivedOnce
<1>6. NoneBehind'
  <2>1. \A q \in pending : q.idx >= next + 1
    BY <1>2, WaitsLater
  <2>2. QED
    BY <1>1, <2>1, ValveShut DEF NoneBehind
<1>7. ValveOpens'
  BY <1>1, ValveShut DEF ValveOpens
<1>8. TurnsTaken'
  <2>1. ASSUME NEW j \in 0 .. next PROVE j \in jumped \/ \E q \in consumed' : q.idx = j
    <3>1. CASE j = next
      BY <1>1, <3>1
    <3>2. CASE j # next
      <4>1. j \in 0 .. next - 1
        BY <1>2, <3>2
      <4>2. QED
        BY <1>1, <1>2, <4>1 DEF TurnsTaken
    <3>3. QED
      BY <3>1, <3>2
  <2>2. ASSUME NEW q \in consumed' PROVE q.idx < next + 1
    <3>1. \A p \in consumed : p.idx \in Nat
      BY <1>2 DEF TypeOK, Results
    <3>2. QED
      BY <1>1, <1>2, <3>1 DEF TurnsTaken
  <2>3. next' = next + 1 /\ next' - 1 = next
    BY <1>1, <1>2
  <2>4. QED
    BY <1>1, <2>1, <2>2, <2>3 DEF TurnsTaken
<1>9. QED
  BY <1>4, <1>5, <1>6, <1>7, <1>8 DEF IInv

\* A result behind its turn is taken at once.
LEMMA LateStep ==
  ASSUME PredemodAssumption, IInv, Waits, NEW r, Received(r), TakeLate(r),
         UNCHANGED <<iq, stash, aged, idxGen, work>>
  PROVE  IInv'
<1>1. r.idx < next /\ consumed' = consumed \cup {r} /\ UNCHANGED <<pending, next, jumped>>
  BY DEF TakeLate
<1>2. TypeOK /\ TurnsTaken
  BY DEF IInv
<1>3. TypeOK'
  BY <1>1, <1>2, ReceivedFacts DEF TypeOK
<1>4. Once'
  BY <1>1, ReceivedOnce
<1>5. NoneBehind' /\ ValveOpens'
  BY <1>1 DEF IInv, NoneBehind, ValveOpens
<1>6. TurnsTaken'
  BY <1>1, <1>2 DEF TurnsTaken
<1>7. QED
  BY <1>3, <1>4, <1>5, <1>6 DEF IInv

\* The lowest number of those that wait.
LEMMA LowestExists ==
  ASSUME NEW s, s # {}, \A r \in s : r.idx \in Nat
  PROVE  Lowest(s) \in Nat /\ (\E r \in s : r.idx = Lowest(s)) /\ \A r \in s : Lowest(s) <= r.idx
<1> DEFINE ids == {r.idx : r \in s}
<1>1. ids \in SUBSET Nat /\ ids # {}
  OBVIOUS
<1>2. PICK x \in ids : \A y \in ids : <<y, x>> \notin OpToRel(<, Nat)
  BY <1>1, WFMin, NatLessThanWellFounded
<1>3. ASSUME NEW r \in s PROVE x <= r.idx
  <2>1. x \in Nat /\ r.idx \in Nat /\ r.idx \in ids
    BY <1>1
  <2>2. ~(r.idx < x)
    BY <1>2, <2>1 DEF OpToRel
  <2>3. QED
    BY <2>1, <2>2
<1>4. Lowest(s) \in ids /\ \A r \in s : Lowest(s) <= r.idx
  BY <1>3 DEF Lowest
<1>5. QED
  BY <1>1, <1>4

\* The turns up to a number and those behind it.
LEMMA TwoRanges ==
  ASSUME NEW a \in Nat, NEW b \in Nat, NEW j, j \in 0 .. b - 1
  PROVE  j \in 0 .. a - 1 \/ j \in a .. b - 1
<1>1. j \in Int /\ 0 <= j /\ j <= b - 1
  OBVIOUS
<1>2. CASE j < a
  BY <1>1, <1>2
<1>3. CASE a <= j
  BY <1>1, <1>3
<1>4. QED
  BY <1>1, <1>2, <1>3

\* A result ahead of its turn waits, and may open the valve.
LEMMA EarlyStep ==
  ASSUME PredemodAssumption, IInv, Waits, NEW r, Received(r), TakeEarly(r),
         UNCHANGED <<iq, stash, aged, idxGen, work>>
  PROVE  IInv'
<1>1. r.idx > next /\ pending' = pending \cup {r} /\ UNCHANGED consumed
  BY DEF TakeEarly
<1>2. TypeOK /\ TurnsTaken /\ next \in Nat
  BY DEF IInv, TypeOK
<1>3. r \in Results /\ pre' \in Seq(Results) /\ r.idx \in Nat
  BY ReceivedFacts
<1>4. pending' \in SUBSET Results
  BY <1>1, <1>2, <1>3 DEF TypeOK
<1>5. Once'
  BY <1>1, ReceivedOnce
<1>6. /\ IsFiniteSet(pending') /\ Cardinality(pending') \in Nat
      /\ Cardinality(pending') <= VALVE
  BY <1>1, ValveShut, FS_AddElement
<1>7. \A q \in pending' : q.idx \in Nat /\ q.idx > next
  BY <1>1, <1>2, <1>3, WaitsLater
<1>8. CASE Cardinality(pending') >= VALVE
  <2>1. next' = Lowest(pending') /\ jumped' = jumped \cup next .. next' - 1
    BY <1>8 DEF TakeEarly
  <2>2. next' \in Nat /\ (\E q \in pending' : q.idx = next') /\ \A q \in pending' : next' <= q.idx
    BY <1>1, <1>7, <2>1, LowestExists
  <2>3. next' > next
    BY <1>7, <2>2
  <2>4. TypeOK'
    BY <1>1, <1>2, <1>3, <1>4, <2>2 DEF TypeOK
  <2>5. NoneBehind' /\ ValveOpens'
    BY <1>6, <1>7, <2>2 DEF NoneBehind, ValveOpens
  <2>6. TurnsTaken'
    <3>1. ASSUME NEW j, j \in 0 .. next' - 1 PROVE j \in jumped' \/ \E q \in consumed : q.idx = j
      <4>1. j \in 0 .. next - 1 \/ j \in next .. next' - 1
        BY <1>2, <2>2, <3>1, TwoRanges
      <4>2. QED
        BY <1>2, <2>1, <4>1 DEF TurnsTaken
    <3>2. ASSUME NEW q \in consumed PROVE q.idx < next'
      <4>1. q.idx \in Nat /\ q.idx < next
        BY <1>2 DEF TypeOK, Results, TurnsTaken
      <4>2. QED
        BY <1>2, <2>2, <2>3, <4>1
    <3>3. QED
      BY <1>1, <3>1, <3>2 DEF TurnsTaken
  <2>7. QED
    BY <1>5, <2>4, <2>5, <2>6 DEF IInv
<1>9. CASE ~(Cardinality(pending') >= VALVE)
  <2>1. UNCHANGED <<next, jumped>>
    BY <1>9 DEF TakeEarly
  <2>2. TypeOK'
    BY <1>1, <1>2, <1>3, <1>4, <2>1 DEF TypeOK
  <2>3. NoneBehind'
    <3>1. \A q \in pending' : q.idx >= next
      BY <1>2, <1>7
    <3>2. QED
      BY <1>6, <2>1, <3>1 DEF NoneBehind
  <2>4. ValveOpens'
    <3>1. Cardinality(pending') # VALVE
      BY <1>6, <1>9, ValveShut
    <3>2. QED
      BY <1>6, <3>1 DEF ValveOpens
  <2>5. TurnsTaken'
    BY <1>1, <1>2, <2>1 DEF TurnsTaken
  <2>6. QED
    BY <1>5, <2>2, <2>3, <2>4, <2>5 DEF IInv
<1>10. QED
  BY <1>8, <1>9

\* demod_loop takes a result from the channel.
LEMMA ReceiveStep ==
  ASSUME PredemodAssumption, IInv, Receive
  PROVE  IInv'
<1>1. Waits /\ UNCHANGED <<iq, stash, aged, idxGen, work>>
  BY DEF Receive, pool
<1>2. PICK r : Received(r) /\ (TakeInTurn(r) \/ TakeLate(r) \/ TakeEarly(r))
  BY DEF Receive
<1>3. QED
  BY <1>1, <1>2, InTurnStep, LateStep, EarlyStep

-----------------------------------------------------------------------------

\* Every step keeps the invariant.
LEMMA NextIInv == PredemodAssumption /\ IInv /\ [Next]_vars => IInv'
<1> SUFFICES ASSUME PredemodAssumption, IInv, [Next]_vars PROVE IInv'
  OBVIOUS
<1>1. CASE \E x \in Items : ReadDecoded(x) \/ ReadSpare(x) \/ ReadSamples(x)
  BY <1>1, ReadStep
<1>2. CASE SpareAges \/ CoverEnds \/ UNCHANGED vars
  BY <1>2, ClockStep
<1>3. CASE \E w \in Workers : Worker(w) \/ Die(w)
  BY <1>3, TakeStep, DropStaleStep, ProcessStep, FinishStep, DieStep DEF Worker
<1>4. CASE Demod
  BY <1>4, SweepStep, TakePendingStep, ReceiveStep, StarveStep DEF Demod
<1>5. QED
  BY <1>1, <1>2, <1>3, <1>4 DEF Next

\* The invariant holds in every behaviour.
LEMMA Invariance == ASSUME PredemodAssumption PROVE Init /\ [][Next]_vars => []IInv
<1>1. Init => IInv
  BY InitIInv
<1>2. IInv /\ [Next]_vars => IInv'
  BY NextIInv
<1>3. QED
  BY <1>1, <1>2, PTL

-----------------------------------------------------------------------------
(* Where the captures are: two stores, the results, and what was dropped.  *)

\* The results there are, wherever they are.
Taken == InPool \cup Range(pre) \cup pending \cup consumed

\* A worker has one result in hand, and what was consumed is nowhere else.
OneInHand == \A w \in Workers : \A r, q \in work[w] : r = q
ConsumedOnce ==
  \A r \in consumed : r.idx < idxGen /\ r \notin InPool /\ r \notin Range(pre) /\ r \notin pending

Distinct(s) == \A i, j \in 1 .. Len(s) : s[i] = s[j] => i = j
Four(all, a, b, c, d) ==
  /\ all = a \cup b \cup c \cup d
  /\ a \cap b = {} /\ a \cap c = {} /\ a \cap d = {}
  /\ b \cap c = {} /\ b \cap d = {} /\ c \cap d = {}

\* Every capture is in one of four places and once there: the queue, the stash, a result, dropped.
Apart ==
  /\ Four(arrived, Range(iq), Range(stash), ItemsOf(Taken), gone)
  /\ Distinct(iq) /\ Distinct(stash)
  /\ \A r, q \in Taken : r.item = q.item => r = q
Counted ==
  /\ IsFiniteSet(arrived) /\ IsFiniteSet(Taken) /\ IsFiniteSet(gone)
  /\ Cardinality(arrived) = Len(iq) + Len(stash) + Cardinality(Taken) + Cardinality(gone)

PlaceInv == OneInHand /\ ConsumedOnce /\ Apart /\ Counted

\* A store with one capture more or less.
Gains(s, t, x) == Range(t) = Range(s) \cup {x} /\ Distinct(t) /\ Len(t) = Len(s) + 1
Loses(s, t, x) == x \notin Range(t) /\ Gains(t, s, x) /\ Distinct(t)

\* The elements of a sequence, by their places.
LEMMA RangeIs ==
  ASSUME NEW S, NEW s \in Seq(S)
  PROVE  Range(s) = {s[i] : i \in 1 .. Len(s)}
BY DEF Range

\* Append adds its element to those of the sequence.
LEMMA AppendRange ==
  ASSUME NEW S, NEW s \in Seq(S), NEW x \in S
  PROVE  Range(Append(s, x)) = Range(s) \cup {x}
<1> DEFINE t == Append(s, x)
<1>1. /\ t \in Seq(S) /\ Len(t) = Len(s) + 1 /\ Len(s) \in Nat
      /\ \A i \in 1 .. Len(s) : t[i] = s[i]
      /\ t[Len(s) + 1] = x
  BY AppendProperties
<1> HIDE DEF t
<1>2. \A i \in 1 .. Len(t) : (i \in 1 .. Len(s) /\ t[i] = s[i]) \/ (i = Len(s) + 1 /\ t[i] = x)
  BY <1>1
<1>3. \A i \in 1 .. Len(s) : i \in 1 .. Len(t) BY <1>1
<1>4. Len(s) + 1 \in 1 .. Len(t) BY <1>1
<1>5. Range(s) = {s[i] : i \in 1 .. Len(s)} /\ Range(t) = {t[i] : i \in 1 .. Len(t)}
  BY <1>1, RangeIs
<1>6. ASSUME NEW y \in Range(t) PROVE y \in Range(s) \cup {x} BY <1>2, <1>5
<1>7. ASSUME NEW y \in Range(s) PROVE y \in Range(t) BY <1>1, <1>3, <1>5
<1>8. x \in Range(t) BY <1>1, <1>4, <1>5
<1>9. Range(t) = Range(s) \cup {x} BY <1>6, <1>7, <1>8
<1>10. QED BY <1>9 DEF t

\* Append puts one element more into a sequence of different ones.
LEMMA AppendGains ==
  ASSUME NEW S, NEW s \in Seq(S), Distinct(s), NEW x \in S, x \notin Range(s)
  PROVE  Gains(s, Append(s, x), x)
<1> DEFINE t == Append(s, x)
<1>1. /\ t \in Seq(S) /\ Len(t) = Len(s) + 1 /\ Len(s) \in Nat /\ t[Len(s) + 1] = x
      /\ \A i \in 1 .. Len(s) : t[i] = s[i]
  BY AppendProperties
<1> HIDE DEF t
<1>2. \A i \in 1 .. Len(t) : (i \in 1 .. Len(s) /\ t[i] = s[i]) \/ (i = Len(s) + 1 /\ t[i] = x)
  BY <1>1
<1>3. \A i \in 1 .. Len(s) : i \in 1 .. Len(t) BY <1>1
<1>4. Len(s) + 1 \in 1 .. Len(t) BY <1>1
<1>5. Range(s) = {s[i] : i \in 1 .. Len(s)} /\ Range(t) = {t[i] : i \in 1 .. Len(t)}
  BY <1>1, RangeIs
<1>6. Range(t) = Range(s) \cup {x} BY AppendRange DEF t
<1>7. Distinct(t)
  <2> SUFFICES ASSUME NEW i \in 1 .. Len(t), NEW j \in 1 .. Len(t), t[i] = t[j] PROVE i = j
    BY DEF Distinct
  <2>1. CASE i \in 1 .. Len(s) /\ j \in 1 .. Len(s) BY <1>1, <2>1 DEF Distinct
  <2>2. CASE ~(i \in 1 .. Len(s)) /\ ~(j \in 1 .. Len(s)) BY <1>2, <2>2
  <2>3. CASE i \in 1 .. Len(s) /\ ~(j \in 1 .. Len(s)) BY <1>1, <1>2, <1>5, <2>3
  <2>4. CASE ~(i \in 1 .. Len(s)) /\ j \in 1 .. Len(s) BY <1>1, <1>2, <1>5, <2>4
  <2>5. QED BY <2>1, <2>2, <2>3, <2>4
<1>8. QED BY <1>1, <1>6, <1>7 DEF Gains, t

\* Without the element at k.
LEMMA RemoveAtLoses ==
  ASSUME NEW S, NEW s \in Seq(S), Distinct(s), NEW k \in 1 .. Len(s), NEW t \in Seq(S),
         Len(t) = Len(s) - 1,
         \A i \in 1 .. Len(t) : t[i] = IF i < k THEN s[i] ELSE s[i + 1]
  PROVE  Loses(s, t, s[k])
<1>1. Len(s) \in Nat /\ k \in Nat /\ k <= Len(s) /\ Len(t) \in Nat /\ Len(s) = Len(t) + 1 /\ 1 <= k
  OBVIOUS
<1> DEFINE Was(i) == IF i < k THEN i ELSE i + 1
           Is(i) == IF i < k THEN i ELSE i - 1
<1>2. ASSUME NEW i \in 1 .. Len(t) PROVE Was(i) \in 1 .. Len(s) /\ Was(i) # k /\ t[i] = s[Was(i)]
  BY <1>1
<1>3. ASSUME NEW i \in 1 .. Len(s), i # k PROVE Is(i) \in 1 .. Len(t) /\ Was(Is(i)) = i
  BY <1>1, <1>3
<1>4. ASSUME NEW i \in 1 .. Len(t), NEW j \in 1 .. Len(t), Was(i) = Was(j) PROVE i = j
  BY <1>1, <1>4
<1> HIDE DEF Was, Is
<1>5. Range(s) = {s[i] : i \in 1 .. Len(s)} /\ Range(t) = {t[i] : i \in 1 .. Len(t)}
  BY RangeIs
<1>6. s[k] \notin Range(t)
  <2> SUFFICES ASSUME NEW i \in 1 .. Len(t), t[i] = s[k] PROVE FALSE BY <1>5
  <2>1. QED BY <1>2 DEF Distinct
<1>7. Range(s) = Range(t) \cup {s[k]}
  <2>1. ASSUME NEW i \in 1 .. Len(s), i # k PROVE s[i] \in Range(t)
    <3>1. t[Is(i)] = s[i] BY <1>2, <1>3, <2>1
    <3>2. QED BY <1>3, <1>5, <2>1, <3>1
  <2>2. Range(s) \subseteq Range(t) \cup {s[k]} BY <1>5, <2>1
  <2>3. Range(t) \subseteq Range(s) BY <1>2, <1>5
  <2>4. s[k] \in Range(s) BY <1>5
  <2>5. QED BY <2>2, <2>3, <2>4
<1>8. Distinct(t)
  <2> SUFFICES ASSUME NEW i \in 1 .. Len(t), NEW j \in 1 .. Len(t), t[i] = t[j] PROVE i = j
    BY DEF Distinct
  <2>1. Was(i) = Was(j) BY <1>2 DEF Distinct
  <2>2. QED BY <1>4, <2>1
<1>9. QED BY <1>1, <1>6, <1>7, <1>8 DEF Loses, Gains

\* Without its first element.
LEMMA TailLoses ==
  ASSUME NEW S, NEW s \in Seq(S), Distinct(s), s # <<>>
  PROVE  Tail(s) \in Seq(S) /\ Head(s) \in S /\ Loses(s, Tail(s), Head(s))
<1>1. /\ Tail(s) \in Seq(S) /\ Head(s) \in S /\ Len(Tail(s)) = Len(s) - 1 /\ Head(s) = s[1]
      /\ \A i \in 1 .. Len(Tail(s)) : Tail(s)[i] = s[i + 1]
  BY HeadTailProperties
<1>2. Len(s) \in Nat /\ Len(s) # 0 BY EmptySeq
<1>3. 1 \in 1 .. Len(s) BY <1>2
<1>4. \A i \in 1 .. Len(Tail(s)) : Tail(s)[i] = IF i < 1 THEN s[i] ELSE s[i + 1]
  BY <1>1, <1>2
<1>5. QED BY <1>1, <1>3, <1>4, RemoveAtLoses

\* The first n go behind the other store.
LEMMA SweepMoves ==
  ASSUME NEW S, NEW q \in Seq(S), NEW s \in Seq(S), Distinct(q), Distinct(s), NEW n \in 0 .. Len(s),
         Range(q) \cap Range(s) = {}
  PROVE  LET t == q \o SubSeq(s, 1, n)
             u == SubSeq(s, n + 1, Len(s))
         IN  /\ Distinct(t) /\ Distinct(u) /\ Range(t) \cap Range(u) = {}
             /\ Range(t) \cup Range(u) = Range(q) \cup Range(s)
             /\ Len(t) + Len(u) = Len(q) + Len(s)
<1> DEFINE t == q \o SubSeq(s, 1, n)
           u == SubSeq(s, n + 1, Len(s))
           v == SubSeq(s, 1, n)
           m == Len(s)
           l == Len(q)
<1>1. m \in Nat /\ n \in Nat /\ n <= m /\ l \in Nat OBVIOUS
<1>2. \A i \in 1 .. m : s[i] \in S OBVIOUS
<1>3. v \in Seq(S) /\ Len(v) = n /\ \A i \in 1 .. n : v[i] = s[i]
  <2>1. \A i \in 1 .. n : s[i] \in S BY <1>1, <1>2
  <2>2. QED BY <1>1, <2>1, SubSeqProperties
<1>4. u \in Seq(S) /\ Len(u) = m - n /\ \A i \in 1 .. m - n : u[i] = s[i + n]
  <2>1. \A i \in n + 1 .. m : s[i] \in S BY <1>1, <1>2
  <2>2. n + 1 \in Int /\ m \in Int BY <1>1
  <2>3. /\ u \in Seq(S) /\ Len(u) = IF n + 1 <= m THEN m - (n + 1) + 1 ELSE 0
        /\ \A i \in 1 .. m - (n + 1) + 1 : u[i] = s[(n + 1) + i - 1]
    BY <2>1, <2>2, SubSeqProperties
  <2>4. Len(u) = m - n BY <1>1, <2>3
  <2>5. ASSUME NEW i \in 1 .. m - n PROVE u[i] = s[i + n]
    <3>1. i \in 1 .. m - (n + 1) + 1 /\ (n + 1) + i - 1 = i + n BY <1>1
    <3>2. QED BY <2>3, <3>1
  <2>6. QED BY <2>3, <2>4, <2>5
<1> HIDE DEF u, v, m, l
<1>5. /\ t \in Seq(S) /\ Len(t) = l + n
      /\ \A i \in 1 .. l + n : t[i] = IF i <= l THEN q[i] ELSE v[i - l]
  <2>1. /\ q \o v \in Seq(S) /\ Len(q \o v) = Len(q) + Len(v)
        /\ \A i \in 1 .. Len(q) + Len(v) : (q \o v)[i] = IF i <= Len(q) THEN q[i] ELSE v[i - Len(q)]
    BY <1>3, ConcatProperties
  <2>2. t = q \o v BY DEF v
  <2> HIDE DEF t
  <2>3. QED BY <1>3, <2>1, <2>2 DEF l
<1> HIDE DEF t
<1>6. ASSUME NEW i \in 1 .. l + n
      PROVE  \/ i \in 1 .. l /\ t[i] = q[i]
             \/ ~(i <= l) /\ i - l \in 1 .. m /\ i - l <= n /\ t[i] = s[i - l]
  <2>1. CASE i <= l BY <1>1, <1>5, <2>1
  <2>2. CASE ~(i <= l)
    <3>1. i - l \in 1 .. n /\ i - l \in 1 .. m BY <1>1, <2>2
    <3>2. t[i] = v[i - l] BY <1>5, <2>2
    <3>3. QED BY <1>3, <2>2, <3>1, <3>2
  <2>3. QED BY <2>1, <2>2
<1>7. /\ Range(q) = {q[i] : i \in 1 .. l} /\ Range(s) = {s[i] : i \in 1 .. m}
      /\ Range(t) = {t[i] : i \in 1 .. l + n} /\ Range(u) = {u[i] : i \in 1 .. m - n}
  BY <1>4, <1>5, RangeIs DEF l, m
<1>8. /\ \A i, j \in 1 .. l : q[i] = q[j] => i = j
      /\ \A i, j \in 1 .. m : s[i] = s[j] => i = j
      /\ \A i \in 1 .. l, j \in 1 .. m : q[i] # s[j]
  BY <1>7 DEF Distinct, l, m
<1>9. ASSUME NEW i \in 1 .. m - n PROVE i + n \in 1 .. m /\ ~(i + n <= n) /\ u[i] = s[i + n]
  <2>1. i + n \in 1 .. m /\ ~(i + n <= n) BY <1>1
  <2>2. u[i] = s[i + n] BY <1>4
  <2>3. QED BY <2>1, <2>2
<1>10. Distinct(t)
  <2> SUFFICES ASSUME NEW i \in 1 .. l + n, NEW j \in 1 .. l + n, t[i] = t[j] PROVE i = j
    BY <1>5 DEF Distinct
  <2>1. i \in Int /\ j \in Int /\ l \in Nat BY <1>1
  <2>2. CASE i \in 1 .. l /\ t[i] = q[i]
    <3>1. j \in 1 .. l /\ t[j] = q[j] BY <1>6, <1>8, <2>2
    <3>2. QED BY <1>8, <2>2, <3>1
  <2>3. CASE ~(i <= l) /\ i - l \in 1 .. m /\ t[i] = s[i - l]
    <3>1. ~(j <= l) /\ j - l \in 1 .. m /\ t[j] = s[j - l] BY <1>6, <1>8, <2>3
    <3>2. i - l = j - l BY <1>8, <2>3, <3>1
    <3>3. QED BY <2>1, <3>2
  <2>4. QED BY <1>6, <2>2, <2>3
<1>11. Distinct(u)
  <2> SUFFICES ASSUME NEW i \in 1 .. m - n, NEW j \in 1 .. m - n, u[i] = u[j] PROVE i = j
    BY <1>4 DEF Distinct
  <2>1. i + n = j + n BY <1>8, <1>9
  <2>2. i \in Int /\ j \in Int BY <1>1
  <2>3. QED BY <1>1, <2>1, <2>2
<1>12. Range(t) \cap Range(u) = {}
  <2> SUFFICES ASSUME NEW i \in 1 .. l + n, NEW j \in 1 .. m - n, t[i] = u[j] PROVE FALSE
    BY <1>7
  <2>1. j + n \in 1 .. m /\ ~(j + n <= n) /\ u[j] = s[j + n] BY <1>9
  <2>2. CASE i \in 1 .. l /\ t[i] = q[i] BY <1>8, <2>1, <2>2
  <2>3. CASE i - l \in 1 .. m /\ i - l <= n /\ t[i] = s[i - l]
    <3>1. i - l = j + n BY <1>8, <2>1, <2>3
    <3>2. QED BY <2>1, <2>3, <3>1
  <2>4. QED BY <1>6, <2>2, <2>3
<1>13. Range(t) \cup Range(u) = Range(q) \cup Range(s)
  <2>1. ASSUME NEW y \in Range(t) PROVE y \in Range(q) \cup Range(s)
    <3>1. PICK i \in 1 .. l + n : t[i] = y BY <1>7, <2>1
    <3>2. QED BY <1>6, <1>7, <3>1
  <2>2. ASSUME NEW y \in Range(u) PROVE y \in Range(s)
    <3>1. PICK i \in 1 .. m - n : u[i] = y BY <1>7, <2>2
    <3>2. QED BY <1>7, <1>9, <3>1
  <2>3. ASSUME NEW y \in Range(q) PROVE y \in Range(t)
    <3>1. PICK i \in 1 .. l : q[i] = y BY <1>7, <2>3
    <3>2. i \in 1 .. l + n /\ i <= l BY <1>1
    <3>3. t[i] = y BY <1>5, <3>1, <3>2
    <3>4. QED BY <1>7, <3>2, <3>3
  <2>4. ASSUME NEW y \in Range(s) PROVE y \in Range(t) \cup Range(u)
    <3>1. PICK i \in 1 .. m : s[i] = y BY <1>7, <2>4
    <3>2. CASE i <= n
      <4>1. i + l \in 1 .. l + n /\ ~(i + l <= l) /\ (i + l) - l = i /\ i \in 1 .. n BY <1>1, <3>2
      <4>2. t[i + l] = v[(i + l) - l] BY <1>5, <4>1
      <4>3. t[i + l] = y BY <1>3, <3>1, <4>1, <4>2
      <4>4. QED BY <1>7, <4>1, <4>3
    <3>3. CASE ~(i <= n)
      <4>1. i - n \in 1 .. m - n /\ (i - n) + n = i BY <1>1, <3>3
      <4>2. u[i - n] = s[(i - n) + n] BY <1>4, <4>1
      <4>3. u[i - n] = y BY <3>1, <4>1, <4>2
      <4>4. QED BY <1>7, <4>1, <4>3
    <3>4. QED BY <3>2, <3>3
  <2>5. QED BY <2>1, <2>2, <2>3, <2>4
<1>14. Len(t) + Len(u) = l + m BY <1>1, <1>4, <1>5
<1>15. QED BY <1>10, <1>11, <1>12, <1>13, <1>14 DEF t, u, l, m

\* As many elements as there are places.
LEMMA DistinctCount ==
  ASSUME NEW S, NEW s \in Seq(S), Distinct(s)
  PROVE  Cardinality(Range(s)) = Len(s)
<1>1. Len(s) \in Nat /\ Range(s) = {s[i] : i \in 1 .. Len(s)} BY RangeIs
<1> DEFINE f == [i \in 1 .. Len(s) |-> s[i]]
<1>2. f \in Bijection(1 .. Len(s), Range(s))
  <2>1. f \in [1 .. Len(s) -> Range(s)] BY <1>1
  <2>2. \A i, j \in 1 .. Len(s) : f[i] = f[j] => i = j BY DEF Distinct
  <2>3. \A y \in Range(s) : \E i \in 1 .. Len(s) : f[i] = y BY <1>1
  <2>4. f \in Injection(1 .. Len(s), Range(s)) BY <2>1, <2>2 DEF Injection, IsInjective
  <2>5. f \in Surjection(1 .. Len(s), Range(s)) BY <2>1, <2>3 DEF Surjection
  <2>6. QED BY <2>4, <2>5 DEF Bijection
<1>3. IsFiniteSet(1 .. Len(s)) /\ Cardinality(1 .. Len(s)) = Len(s)
  <2>1. 1 \in Int /\ Len(s) \in Int BY <1>1
  <2>2. /\ IsFiniteSet(1 .. Len(s))
        /\ Cardinality(1 .. Len(s)) = (IF 1 > Len(s) THEN 0 ELSE Len(s) - 1 + 1)
    BY <2>1, FS_Interval
  <2>3. QED BY <1>1, <2>2
<1>4. ExistsBijection(1 .. Len(s), Range(s)) BY <1>2 DEF ExistsBijection
<1>5. QED BY <1>3, <1>4, FS_Bijection

\* Sets apart from each other are counted one by one.
LEMMA DisjointSum ==
  ASSUME NEW A, NEW B, IsFiniteSet(A), IsFiniteSet(B), A \cap B = {}
  PROVE  IsFiniteSet(A \cup B) /\ Cardinality(A \cup B) = Cardinality(A) + Cardinality(B)
<1>1. /\ IsFiniteSet(A \cup B)
      /\ Cardinality(A \cup B) = Cardinality(A) + Cardinality(B) - Cardinality(A \cap B)
  BY FS_Union
<1>2. Cardinality(A \cap B) = 0 BY FS_EmptySet
<1>3. Cardinality(A) \in Nat /\ Cardinality(B) \in Nat BY FS_CardinalityType
<1>4. QED BY <1>1, <1>2, <1>3

\* The place a claim takes from, and what it leaves.
LEMMA LeastSpare ==
  ASSUME TypeOK, NEW x, Spare(x) # {}
  PROVE  (CHOOSE k \in Spare(x) : \A j \in Spare(x) : k <= j) \in Spare(x)
<1>1. Spare(x) \subseteq Nat BY LenProperties DEF Spare, TypeOK
<1>2. PICK y \in Spare(x) : \A z \in Spare(x) : <<z, y>> \notin OpToRel(<, Nat)
  BY <1>1, WFMin, NatLessThanWellFounded
<1>3. ASSUME NEW z \in Spare(x) PROVE y <= z
  <2>1. y \in Nat /\ z \in Nat BY <1>1
  <2>2. ~(z < y) BY <1>2, <2>1 DEF OpToRel
  <2>3. QED BY <2>1, <2>2
<1>4. QED BY <1>3

\* A worker without one of the captures it had.
LEMMA WithoutOne ==
  ASSUME NEW S, NEW s \in Seq(S), NEW k \in 1 .. Len(s)
  PROVE  /\ RemoveAt(s, k) \in Seq(S) /\ Len(RemoveAt(s, k)) = Len(s) - 1
         /\ \A i \in 1 .. Len(s) - 1 : RemoveAt(s, k)[i] = IF i < k THEN s[i] ELSE s[i + 1]
<1> DEFINE m == Len(s)
           a == SubSeq(s, 1, k - 1)
           b == SubSeq(s, k + 1, m)
<1>1. m \in Nat /\ k \in Nat /\ 1 <= k /\ k <= m /\ \A i \in 1 .. m : s[i] \in S OBVIOUS
<1> HIDE DEF m
<1>2. a \in Seq(S) /\ Len(a) = k - 1 /\ \A i \in 1 .. k - 1 : a[i] = s[i]
  <2>1. k - 1 \in Int /\ \A i \in 1 .. k - 1 : s[i] \in S BY <1>1
  <2>2. /\ a \in Seq(S) /\ Len(a) = IF 1 <= k - 1 THEN (k - 1) - 1 + 1 ELSE 0
        /\ \A i \in 1 .. (k - 1) - 1 + 1 : a[i] = s[1 + i - 1]
    BY <2>1, SubSeqProperties
  <2>3. Len(a) = k - 1 BY <1>1, <2>2
  <2>4. ASSUME NEW i \in 1 .. k - 1 PROVE a[i] = s[i]
    <3>1. i \in 1 .. (k - 1) - 1 + 1 /\ 1 + i - 1 = i BY <1>1
    <3>2. QED BY <2>2, <3>1
  <2>5. QED BY <2>2, <2>3, <2>4
<1>3. b \in Seq(S) /\ Len(b) = m - k /\ \A i \in 1 .. m - k : b[i] = s[i + k]
  <2>1. k + 1 \in Int /\ m \in Int /\ \A i \in k + 1 .. m : s[i] \in S BY <1>1
  <2>2. /\ b \in Seq(S) /\ Len(b) = IF k + 1 <= m THEN m - (k + 1) + 1 ELSE 0
        /\ \A i \in 1 .. m - (k + 1) + 1 : b[i] = s[(k + 1) + i - 1]
    BY <2>1, SubSeqProperties
  <2>3. Len(b) = m - k BY <1>1, <2>2
  <2>4. ASSUME NEW i \in 1 .. m - k PROVE b[i] = s[i + k]
    <3>1. i \in 1 .. m - (k + 1) + 1 /\ (k + 1) + i - 1 = i + k BY <1>1
    <3>2. QED BY <2>2, <3>1
  <2>5. QED BY <2>2, <2>3, <2>4
<1>4. RemoveAt(s, k) = a \o b BY DEF RemoveAt, m
<1> HIDE DEF a, b
<1>5. /\ a \o b \in Seq(S) /\ Len(a \o b) = Len(a) + Len(b)
      /\ \A i \in 1 .. Len(a) + Len(b) : (a \o b)[i] = IF i <= Len(a) THEN a[i] ELSE b[i - Len(a)]
  BY <1>2, <1>3, ConcatProperties
<1>6. Len(a) + Len(b) = m - 1 BY <1>1, <1>2, <1>3
<1>7. ASSUME NEW i \in 1 .. m - 1 PROVE (a \o b)[i] = IF i < k THEN s[i] ELSE s[i + 1]
  <2>1. CASE i < k
    <3>1. i \in 1 .. k - 1 /\ i <= Len(a) BY <1>1, <1>2, <2>1
    <3>2. QED BY <1>2, <1>5, <1>6, <2>1, <3>1
  <2>2. CASE ~(i < k)
    <3>1. ~(i <= k - 1) /\ i - (k - 1) \in 1 .. m - k /\ (i - (k - 1)) + k = i + 1 BY <1>1, <2>2
    <3>2. (a \o b)[i] = b[i - (k - 1)] BY <1>2, <1>5, <1>6, <3>1
    <3>3. b[i - (k - 1)] = s[(i - (k - 1)) + k] BY <1>3, <3>1
    <3>4. QED BY <2>2, <3>1, <3>2, <3>3
  <2>3. QED BY <2>1, <2>2
<1>8. QED BY <1>4, <1>5, <1>6, <1>7 DEF m

\* What is counted is finite.
LEMMA PlaceTypes ==
  ASSUME IInv
  PROVE  /\ iq \in Seq(Items) /\ stash \in Seq(Items) /\ pre \in Seq(Results)
         /\ Len(iq) \in Nat /\ Len(stash) \in Nat /\ Len(pre) \in Nat
         /\ Range(pre) = {pre[i] : i \in 1 .. Len(pre)}
BY RangeIs DEF IInv, TypeOK

\* Where a result goes from a worker to demod_loop, its capture stays in its place.
LEMMA SamePlaces ==
  ASSUME Apart, Counted, Taken' = Taken, UNCHANGED <<arrived, iq, stash, gone>>
  PROVE  Apart' /\ Counted'
<1>1. ItemsOf(Taken)' = ItemsOf(Taken) BY DEF ItemsOf
<1>2. QED BY <1>1 DEF Apart, Counted, Distinct

\* The results stay where they are while the captures are moved.
LEMMA SameResults ==
  ASSUME OneInHand, ConsumedOnce, UNCHANGED <<work, pre, pending, consumed, idxGen>>
  PROVE  OneInHand' /\ ConsumedOnce' /\ Taken' = Taken /\ ItemsOf(Taken)' = ItemsOf(Taken)
<1>1. InPool' = InPool BY DEF InPool
<1>2. Taken' = Taken BY <1>1 DEF Taken
<1>3. QED BY <1>1, <1>2 DEF OneInHand, ConsumedOnce, ItemsOf

\* A new capture is dropped, ...
LEMMA NewDropped ==
  ASSUME Apart, Counted, NEW x, x \notin arrived, arrived' = arrived \cup {x},
         gone' = gone \cup {x},
         UNCHANGED <<iq, stash>>, Taken' = Taken, Len(iq) \in Nat, Len(stash) \in Nat
  PROVE  Apart' /\ Counted'
<1>1. ItemsOf(Taken') = ItemsOf(Taken) BY DEF ItemsOf
<1>2. x \notin gone BY DEF Apart, Four
<1>3. Apart' BY <1>1 DEF Apart, Four, Distinct
<1>4. /\ IsFiniteSet(arrived') /\ Cardinality(arrived') = Cardinality(arrived) + 1
      /\ IsFiniteSet(gone') /\ Cardinality(gone') = Cardinality(gone) + 1
  BY <1>2, FS_AddElement DEF Counted
<1>5. /\ Cardinality(arrived) \in Nat /\ Cardinality(gone) \in Nat /\ Cardinality(Taken) \in Nat
  BY FS_CardinalityType DEF Counted
<1>6. Counted' BY <1>4, <1>5 DEF Counted
<1>7. QED BY <1>3, <1>6

\* ... or put into a store.
LEMMA NewStored ==
  ASSUME Apart, Counted, NEW x, x \notin arrived, arrived' = arrived \cup {x}, Taken' = Taken,
         UNCHANGED gone, Len(iq) \in Nat, Len(stash) \in Nat,
         (Gains(iq, iq', x) /\ UNCHANGED stash) \/ (Gains(stash, stash', x) /\ UNCHANGED iq)
  PROVE  Apart' /\ Counted'
<1>1. ItemsOf(Taken') = ItemsOf(Taken) BY DEF ItemsOf
<1>2. Apart'
  <2>1. CASE Gains(iq, iq', x) /\ UNCHANGED stash BY <1>1, <2>1 DEF Apart, Four, Distinct, Gains
  <2>2. CASE Gains(stash, stash', x) /\ UNCHANGED iq BY <1>1, <2>2 DEF Apart, Four, Distinct, Gains
  <2>3. QED BY <2>1, <2>2
<1>3. IsFiniteSet(arrived') /\ Cardinality(arrived') = Cardinality(arrived) + 1
  BY FS_AddElement DEF Counted
<1>4. /\ Cardinality(arrived) \in Nat /\ Cardinality(gone) \in Nat /\ Cardinality(Taken) \in Nat
  BY FS_CardinalityType DEF Counted
<1>5. Len(iq') + Len(stash') = Len(iq) + Len(stash) + 1 /\ Len(iq') \in Nat /\ Len(stash') \in Nat
  BY DEF Gains
<1>6. Counted' BY <1>3, <1>4, <1>5 DEF Counted
<1>7. QED BY <1>2, <1>6

\* A capture leaves a store and is dropped.
LEMMA StoredDropped ==
  ASSUME Apart, Counted, NEW x, gone' = gone \cup {x}, Taken' = Taken, UNCHANGED arrived,
         Len(iq) \in Nat, Len(stash) \in Nat, Len(iq') \in Nat, Len(stash') \in Nat,
         (Loses(iq, iq', x) /\ UNCHANGED stash) \/ (Loses(stash, stash', x) /\ UNCHANGED iq)
  PROVE  Apart' /\ Counted'
<1>1. ItemsOf(Taken') = ItemsOf(Taken) BY DEF ItemsOf
<1>2. Apart' /\ x \notin gone
  <2>1. CASE Loses(iq, iq', x) /\ UNCHANGED stash
    BY <1>1, <2>1 DEF Apart, Four, Distinct, Loses, Gains
  <2>2. CASE Loses(stash, stash', x) /\ UNCHANGED iq
    BY <1>1, <2>2 DEF Apart, Four, Distinct, Loses, Gains
  <2>3. QED BY <2>1, <2>2
<1>3. IsFiniteSet(gone') /\ Cardinality(gone') = Cardinality(gone) + 1
  BY <1>2, FS_AddElement DEF Counted
<1>4. /\ Cardinality(arrived) \in Nat /\ Cardinality(gone) \in Nat /\ Cardinality(Taken) \in Nat
  BY FS_CardinalityType DEF Counted
<1>5. Len(iq) + Len(stash) = Len(iq') + Len(stash') + 1
  BY DEF Loses, Gains
<1>6. Counted' BY <1>3, <1>4, <1>5 DEF Counted
<1>7. QED BY <1>2, <1>6

\* A capture that is read is new, and comes to one place.
LEMMA ReadPlaces ==
  ASSUME PredemodAssumption, IInv, PlaceInv, NEW x \in Items,
         ReadDecoded(x) \/ ReadSpare(x) \/ ReadSamples(x)
  PROVE  PlaceInv'
<1>1. UNCHANGED <<work, pre, pending, consumed, idxGen>>
  BY DEF ReadDecoded, ReadSpare, ReadSamples, pool, turn
<1>2. OneInHand' /\ ConsumedOnce' /\ Taken' = Taken BY <1>1, SameResults DEF PlaceInv
<1>3. x \notin arrived /\ arrived' = arrived \cup {x}
  BY DEF ReadDecoded, ReadSpare, ReadSamples, MaySend
<1>4. /\ x \notin Range(iq) /\ x \notin Range(stash)
      /\ Distinct(iq) /\ Distinct(stash) /\ Apart /\ Counted
  BY <1>3 DEF PlaceInv, Apart, Four
<1>5. CASE ReadDecoded(x) \/ ReadSamples(x)
  <2>1. UNCHANGED stash /\ TrySend(x) BY <1>5 DEF ReadDecoded, ReadSamples
  <2>2. CASE Len(iq) < IQ_CAP
    <3>1. iq' = Append(iq, x) /\ UNCHANGED gone BY <2>1, <2>2 DEF TrySend
    <3>2. Gains(iq, iq', x) BY <1>4, <3>1, PlaceTypes, AppendGains
    <3>3. Apart' /\ Counted' BY <1>2, <1>3, <1>4, <2>1, <3>1, <3>2, PlaceTypes, NewStored
    <3>4. QED BY <1>2, <3>3 DEF PlaceInv
  <2>3. CASE ~(Len(iq) < IQ_CAP)
    <3>1. gone' = gone \cup {x} /\ UNCHANGED iq BY <2>1, <2>3 DEF TrySend
    <3>2. Apart' /\ Counted' BY <1>2, <1>3, <1>4, <2>1, <3>1, PlaceTypes, NewDropped
    <3>3. QED BY <1>2, <3>2 DEF PlaceInv
  <2>4. QED BY <2>2, <2>3
<1>6. CASE ReadSpare(x)
  <2>1. UNCHANGED iq /\ stash' = Stashed(x) BY <1>6 DEF ReadSpare
  <2>2. CASE Len(stash) < STASH_CAP
    <3>1. stash' = Append(stash, x) /\ UNCHANGED gone BY <1>6, <2>1, <2>2 DEF ReadSpare, Stashed
    <3>2. Gains(stash, stash', x) BY <1>4, <3>1, PlaceTypes, AppendGains
    <3>3. Apart' /\ Counted' BY <1>2, <1>3, <1>4, <2>1, <3>1, <3>2, PlaceTypes, NewStored
    <3>4. QED BY <1>2, <3>3 DEF PlaceInv
  <2>3. CASE ~(Len(stash) < STASH_CAP)
    <3> DEFINE y == Head(stash)
               t == Tail(stash)
    <3>1. stash' = Append(t, x) /\ gone' = gone \cup {y}
      BY <1>6, <2>1, <2>3 DEF ReadSpare, Stashed
    <3>2. stash # <<>>
      <4>1. STASH_CAP \in Nat \ {0} BY DEF PredemodAssumption
      <4>2. QED BY <2>3, <4>1, PlaceTypes, EmptySeq
    <3>3. t \in Seq(Items) /\ y \in Items /\ Loses(stash, t, y)
      BY <1>4, <3>2, PlaceTypes, TailLoses
    <3> HIDE DEF y, t
    <3>4. Distinct(t) /\ x \notin Range(t) /\ Len(t) \in Nat BY <1>4, <3>3 DEF Loses, Gains
    <3>5. Gains(t, stash', x) BY <3>1, <3>3, <3>4, AppendGains
    <3>6. /\ Range(stash) = Range(t) \cup {y} /\ y \notin Range(t)
          /\ Range(stash') = Range(t) \cup {x} /\ Distinct(stash') /\ Len(stash') = Len(stash)
      BY <3>3, <3>5, PlaceTypes DEF Loses, Gains
    <3>7. y \notin gone /\ ItemsOf(Taken)' = ItemsOf(Taken)
      BY <1>1, <1>4, <3>6, SameResults DEF Apart, Four, PlaceInv
    <3>8. Four(arrived', Range(iq'), Range(stash'), ItemsOf(Taken)', gone')
      BY <1>3, <1>4, <2>1, <3>1, <3>6, <3>7 DEF Apart, Four
    <3>9. Apart' BY <1>2, <1>4, <2>1, <3>6, <3>8 DEF Apart
    <3>10. /\ IsFiniteSet(arrived') /\ Cardinality(arrived') = Cardinality(arrived) + 1
           /\ IsFiniteSet(gone') /\ Cardinality(gone') = Cardinality(gone) + 1
      BY <1>3, <1>4, <3>1, <3>7, FS_AddElement DEF Counted
    <3>11. /\ Cardinality(arrived) \in Nat /\ Cardinality(gone) \in Nat
           /\ Cardinality(Taken) \in Nat
      BY <1>4, FS_CardinalityType DEF Counted
    <3>12. Counted' BY <1>2, <1>4, <2>1, <3>6, <3>10, <3>11, PlaceTypes DEF Counted
    <3>13. QED BY <1>2, <3>9, <3>12 DEF PlaceInv
  <2>4. QED BY <2>2, <2>3
<1>7. QED BY <1>5, <1>6

\* The result taken is new.
LEMMA TakePlaces ==
  ASSUME PredemodAssumption, IInv, PlaceInv, NEW w \in Workers, Take(w)
  PROVE  PlaceInv'
<1> DEFINE x == Head(iq)
           new == [idx |-> idxGen, item |-> x]
<1>1. /\ work[w] = {} /\ iq # <<>> /\ iq' = Tail(iq) /\ idxGen' = idxGen + 1
      /\ work' = [work EXCEPT ![w] = {new}]
      /\ UNCHANGED <<arrived, stash, pre, pending, consumed, gone>>
  BY DEF Take, turn, board
<1>2. /\ idxGen \in Nat /\ work \in [Workers -> SUBSET Results] /\ new.item = x /\ new.idx = idxGen
  BY DEF IInv, TypeOK
<1>3. Apart /\ Counted /\ OneInHand /\ ConsumedOnce /\ Distinct(iq) BY DEF PlaceInv, Apart
<1>4. iq' \in Seq(Items) /\ x \in Items /\ Loses(iq, iq', x)
  BY <1>1, <1>3, PlaceTypes, TailLoses
<1> HIDE DEF x, new
<1>5. work'[w] = {new} /\ \A v \in Workers : v # w => work'[v] = work[v] BY <1>1, <1>2
<1>6. InPool' = InPool \cup {new} BY <1>1, <1>5 DEF InPool
<1>7. Taken' = Taken \cup {new} BY <1>1, <1>6 DEF Taken
<1>8. new \notin InPool /\ new \notin Range(pre) /\ new \notin pending /\ new \notin consumed
  <2>1. Numbered BY DEF IInv, Once
  <2>2. ~(new.idx < idxGen) BY <1>2
  <2>3. new \notin InPool BY <2>1, <2>2 DEF InPool, Numbered
  <2>4. new \notin Range(pre) BY <2>1, <2>2, PlaceTypes DEF Numbered
  <2>5. QED BY <1>3, <2>1, <2>2, <2>3, <2>4 DEF Numbered, ConsumedOnce
<1>9. new \notin Taken BY <1>8 DEF Taken
<1>10. ItemsOf(Taken') = ItemsOf(Taken) \cup {x} BY <1>2, <1>7 DEF ItemsOf
<1>11. OneInHand' BY <1>3, <1>5 DEF OneInHand
<1>12. ConsumedOnce'
  <2>1. \A r \in consumed : r.idx \in Nat BY DEF IInv, TypeOK, Results
  <2>2. \A r \in consumed : r.idx < idxGen + 1 BY <1>2, <1>3, <2>1 DEF ConsumedOnce
  <2>3. QED BY <1>1, <1>3, <1>6, <1>8, <2>2 DEF ConsumedOnce
<1>13. Apart'
  <2>1. Four(arrived, Range(iq'), Range(stash), ItemsOf(Taken) \cup {x}, gone)
    BY <1>3, <1>4 DEF Apart, Four, Loses, Gains
  <2>2. Four(arrived', Range(iq)', Range(stash)', ItemsOf(Taken)', gone')
    BY <1>1, <1>10, <2>1
  <2>3. x \notin ItemsOf(Taken) BY <1>3, <1>4 DEF Apart, Four, Loses, Gains
  <2>4. \A r \in Taken : r.item # new.item BY <1>2, <2>3 DEF ItemsOf
  <2>5. \A r, q \in Taken' : r.item = q.item => r = q BY <1>3, <1>7, <2>4 DEF Apart
  <2>6. QED BY <1>1, <1>3, <1>4, <2>2, <2>5 DEF Apart, Loses
<1>14. Counted'
  <2>1. IsFiniteSet(Taken') /\ Cardinality(Taken') = Cardinality(Taken) + 1
    BY <1>3, <1>7, <1>9, FS_AddElement DEF Counted
  <2>2. /\ Cardinality(arrived) \in Nat /\ Cardinality(gone) \in Nat /\ Cardinality(Taken) \in Nat
    BY <1>3, FS_CardinalityType DEF Counted
  <2>3. Len(iq) = Len(iq') + 1 /\ Len(iq') \in Nat BY <1>4 DEF Loses, Gains
  <2>4. QED BY <1>1, <1>3, <2>1, <2>2, <2>3, PlaceTypes DEF Counted
<1>15. QED BY <1>11, <1>12, <1>13, <1>14 DEF PlaceInv

\* A capture given up for its age is counted as dropped.
LEMMA DropStalePlaces ==
  ASSUME IInv, PlaceInv, NEW w \in Workers, DropStale(w)
  PROVE  PlaceInv'
<1>1. /\ iq # <<>> /\ iq' = Tail(iq) /\ gone' = gone \cup {Head(iq)}
      /\ UNCHANGED <<arrived, stash, work, pre, pending, consumed, idxGen>>
  BY DEF DropStale, turn, board
<1>2. OneInHand' /\ ConsumedOnce' /\ Taken' = Taken BY <1>1, SameResults DEF PlaceInv
<1>3. iq' \in Seq(Items) /\ Loses(iq, iq', Head(iq))
  BY <1>1, PlaceTypes, TailLoses DEF PlaceInv, Apart
<1>4. Len(iq') \in Nat BY <1>3
<1>5. Apart' /\ Counted' BY <1>1, <1>2, <1>3, <1>4, PlaceTypes, StoredDropped DEF PlaceInv
<1>6. QED BY <1>2, <1>5 DEF PlaceInv

\* A claim drops the spare it takes.
LEMMA ClaimLoses ==
  ASSUME IInv, Distinct(stash), NEW x, Claim(x)
  PROVE  \/ UNCHANGED <<stash, gone>>
         \/ \E y : Loses(stash, stash', y) /\ gone' = gone \cup {y} /\ Len(stash') \in Nat
<1> DEFINE m == Len(stash)
<1>1. m \in Nat /\ \A i \in 1 .. m : stash[i] \in Items
  BY ElementOfSeq DEF IInv, TypeOK
<1>2. CASE Spare(x) = {} BY <1>2 DEF Claim
<1>3. CASE Spare(x) # {}
  <2> DEFINE k == CHOOSE k \in Spare(x) : \A j \in Spare(x) : k <= j
  <2>1. stash' = RemoveAt(stash, k) /\ gone' = gone \cup {stash[k]} BY <1>3 DEF Claim
  <2>2. k \in Spare(x) BY <1>3, LeastSpare DEF IInv
  <2>3. k \in 1 .. m BY <2>2 DEF Spare
  <2> HIDE DEF k, m
  <2>4. /\ stash' \in Seq(Items) /\ Len(stash') = m - 1
        /\ \A i \in 1 .. m - 1 : stash'[i] = IF i < k THEN stash[i] ELSE stash[i + 1]
    <3>1. stash \in Seq(Items) /\ m = Len(stash) BY PlaceTypes DEF m
    <3>2. QED BY <2>1, <2>3, <3>1, WithoutOne
  <2>5. Loses(stash, stash', stash[k]) BY <2>3, <2>4, PlaceTypes, RemoveAtLoses DEF m
  <2>6. Len(stash') \in Nat BY <2>4
  <2>7. QED BY <2>1, <2>5, <2>6
<1>4. QED BY <1>2, <1>3

\* A spare that is claimed is dropped.
LEMMA ProcessPlaces ==
  ASSUME IInv, PlaceInv, NEW w \in Workers, Process(w)
  PROVE  PlaceInv'
<1>1. UNCHANGED <<arrived, iq, work, pre, pending, consumed, idxGen>> BY DEF Process, turn, board
<1>2. OneInHand' /\ ConsumedOnce' /\ Taken' = Taken BY <1>1, SameResults DEF PlaceInv
<1>3. PICK r \in work[w] : Claim(r.item) \/ UNCHANGED <<stash, gone>> BY DEF Process, GivesUp
<1>4. Distinct(stash) /\ Apart /\ Counted BY DEF PlaceInv, Apart
<1>5. CASE UNCHANGED <<stash, gone>>
  <2>1. Apart' /\ Counted' BY <1>1, <1>2, <1>4, <1>5, SamePlaces
  <2>2. QED BY <1>2, <2>1 DEF PlaceInv
<1>6. CASE ~UNCHANGED <<stash, gone>>
  <2>1. PICK y : Loses(stash, stash', y) /\ gone' = gone \cup {y} /\ Len(stash') \in Nat
    BY <1>3, <1>4, <1>6, ClaimLoses
  <2>2. Apart' /\ Counted' BY <1>1, <1>2, <1>4, <2>1, PlaceTypes, StoredDropped
  <2>3. QED BY <1>2, <2>2 DEF PlaceInv
<1>7. QED BY <1>5, <1>6

\* A finished capture goes from its worker to the channel.
LEMMA FinishPlaces ==
  ASSUME IInv, PlaceInv, NEW w \in Workers, Finish(w)
  PROVE  PlaceInv'
<1>1. PICK r \in work[w] : pre' = Append(pre, r) BY DEF Finish
<1>2. /\ work' = [work EXCEPT ![w] = {}]
      /\ UNCHANGED <<arrived, iq, stash, gone, idxGen, pending, consumed>>
  BY DEF Finish, turn, board
<1>3. OneInHand /\ ConsumedOnce /\ Apart /\ Counted /\ work \in [Workers -> SUBSET Results]
  BY DEF PlaceInv, IInv, TypeOK
<1>4. work'[w] = {} /\ \A v \in Workers : v # w => work'[v] = work[v] BY <1>2, <1>3
<1>5. work[w] = {r} BY <1>1, <1>3 DEF OneInHand
<1>6. InPool = InPool' \cup {r} BY <1>4, <1>5 DEF InPool
<1>7. Range(pre') = Range(pre) \cup {r}
  <2>1. r \in Results /\ pre \in Seq(Results) BY <1>1, <1>3, PlaceTypes
  <2>2. Range(Append(pre, r)) = Range(pre) \cup {r} BY <2>1, AppendRange
  <2>3. QED BY <1>1, <2>2
<1>8. Taken' = Taken BY <1>2, <1>6, <1>7 DEF Taken
<1>9. Apart' /\ Counted' BY <1>2, <1>3, <1>8, SamePlaces
<1>10. OneInHand' BY <1>3, <1>4 DEF OneInHand
<1>11. ConsumedOnce' BY <1>2, <1>3, <1>6, <1>7 DEF ConsumedOnce
<1>12. QED BY <1>9, <1>10, <1>11 DEF PlaceInv

\* A worker that dies loses what it had, and that is counted.
LEMMA DiePlaces ==
  ASSUME IInv, PlaceInv, NEW w \in Workers, Die(w)
  PROVE  PlaceInv'
<1>1. PICK r \in work[w] : gone' = gone \cup {r.item} BY DEF Die
<1>2. /\ work' = [work EXCEPT ![w] = {}]
      /\ UNCHANGED <<arrived, iq, stash, idxGen, pre, pending, consumed>>
  BY DEF Die, turn, board
<1>3. OneInHand /\ ConsumedOnce /\ Apart /\ Counted /\ work \in [Workers -> SUBSET Results]
  BY DEF PlaceInv, IInv, TypeOK
<1>4. work'[w] = {} /\ \A v \in Workers : v # w => work'[v] = work[v] BY <1>2, <1>3
<1>5. work[w] = {r} BY <1>1, <1>3 DEF OneInHand
<1>6. InPoolOnce BY DEF IInv, Once
<1>7. InPool = InPool' \cup {r} /\ r \in InPool BY <1>4, <1>5 DEF InPool
<1>8. r \notin InPool' BY <1>4, <1>5, <1>6 DEF InPool, InPoolOnce
<1>9. r \notin Range(pre) /\ r \notin pending BY <1>5, <1>6, PlaceTypes DEF InPoolOnce
<1>10. r \notin consumed BY <1>3, <1>7 DEF ConsumedOnce
<1>11. Taken' = Taken \ {r} /\ r \in Taken BY <1>2, <1>7, <1>8, <1>9, <1>10 DEF Taken
<1>12. ItemsOf(Taken) = ItemsOf(Taken') \cup {r.item} /\ r.item \notin ItemsOf(Taken')
  <2>1. \A q \in Taken' : q.item # r.item BY <1>3, <1>11 DEF Apart
  <2>2. QED BY <1>11, <2>1 DEF ItemsOf
<1>13. Apart'
  <2>1. Four(arrived, Range(iq), Range(stash), ItemsOf(Taken'), gone \cup {r.item})
    BY <1>3, <1>12 DEF Apart, Four
  <2>2. Four(arrived', Range(iq)', Range(stash)', ItemsOf(Taken)', gone') BY <1>1, <1>2, <2>1
  <2>3. QED BY <1>2, <1>3, <1>11, <2>2 DEF Apart
<1>14. Counted'
  <2>1. r.item \notin gone BY <1>3, <1>12 DEF Apart, Four
  <2>2. /\ IsFiniteSet(gone') /\ Cardinality(gone') = Cardinality(gone) + 1
        /\ IsFiniteSet(Taken') /\ Cardinality(Taken') = Cardinality(Taken) - 1
    BY <1>1, <1>3, <1>11, <2>1, FS_AddElement, FS_RemoveElement DEF Counted
  <2>3. /\ Cardinality(arrived) \in Nat /\ Cardinality(gone) \in Nat /\ Cardinality(Taken) \in Nat
    BY <1>3, FS_CardinalityType DEF Counted
  <2>4. QED BY <1>2, <1>3, <2>2, <2>3, PlaceTypes DEF Counted
<1>15. OneInHand' BY <1>3, <1>4 DEF OneInHand
<1>16. ConsumedOnce' BY <1>2, <1>3, <1>7 DEF ConsumedOnce
<1>17. QED BY <1>13, <1>14, <1>15, <1>16 DEF PlaceInv

\* The sweep moves a capture, and loses none.
LEMMA SweepPlaces ==
  ASSUME PredemodAssumption, IInv, PlaceInv, Sweep
  PROVE  PlaceInv'
<1>1. /\ iq' = iq \o SubSeq(stash, 1, SweptNow) /\ stash' = SubSeq(stash, SweptNow + 1, Len(stash))
      /\ UNCHANGED <<arrived, gone, work, pre, pending, consumed, idxGen>>
  BY DEF Sweep, SweepStash, SweepWhatFits, pool, turn, board
<1>2. OneInHand' /\ ConsumedOnce' /\ Taken' = Taken BY <1>1, SameResults DEF PlaceInv
<1>3. SweptNow \in 0 .. Len(stash)
  <2>1. IQ_CAP \in Nat /\ Len(iq) \in Nat /\ Len(iq) <= IQ_CAP /\ aged \in 0 .. Len(stash)
    BY DEF IInv, TypeOK, PredemodAssumption
  <2>2. QED BY <2>1, PlaceTypes DEF SweptNow, LeastOf
<1>4. Apart /\ Counted BY DEF PlaceInv
<1>5. /\ Distinct(iq') /\ Distinct(stash') /\ Range(iq') \cap Range(stash') = {}
      /\ Range(iq') \cup Range(stash') = Range(iq) \cup Range(stash)
      /\ Len(iq') + Len(stash') = Len(iq) + Len(stash)
  <2>1. iq \in Seq(Items) /\ stash \in Seq(Items) BY PlaceTypes
  <2>2. Distinct(iq) /\ Distinct(stash) /\ Range(iq) \cap Range(stash) = {}
    BY <1>4 DEF Apart, Four
  <2>3. PICK n \in 0 .. Len(stash) : n = SweptNow BY <1>3
  <2> DEFINE t == iq \o SubSeq(stash, 1, n)   u == SubSeq(stash, n + 1, Len(stash))
  <2>4. iq' = t /\ stash' = u BY <1>1, <2>3
  <2>5. /\ Distinct(t) /\ Distinct(u) /\ Range(t) \cap Range(u) = {}
        /\ Range(t) \cup Range(u) = Range(iq) \cup Range(stash)
        /\ Len(t) + Len(u) = Len(iq) + Len(stash)
    BY <2>1, <2>2, SweepMoves
  <2> HIDE DEF t, u
  <2>6. QED BY <2>4, <2>5
<1>6. ItemsOf(Taken') = ItemsOf(Taken) BY <1>2
<1>7. Apart'
  <2>1. Four(arrived, Range(iq'), Range(stash'), ItemsOf(Taken), gone)
    BY <1>4, <1>5 DEF Apart, Four
  <2>2. Four(arrived', Range(iq)', Range(stash)', ItemsOf(Taken)', gone') BY <1>1, <1>6, <2>1
  <2>3. QED BY <1>2, <1>4, <1>5, <2>2 DEF Apart
<1>8. Counted' BY <1>1, <1>2, <1>4, <1>5 DEF Counted
<1>9. QED BY <1>2, <1>7, <1>8 DEF PlaceInv

\* A result whose turn came goes from those that wait to those consumed.
LEMMA TakePendingPlaces ==
  ASSUME IInv, PlaceInv, TakePending
  PROVE  PlaceInv'
<1>1. PICK r \in pending : pending' = pending \ {r} /\ consumed' = consumed \cup {r}
  BY DEF TakePending
<1>2. UNCHANGED <<arrived, iq, stash, gone, idxGen, work, pre>> BY DEF TakePending, pool, board
<1>3. OneInHand /\ ConsumedOnce /\ Apart /\ Counted BY DEF PlaceInv
<1>4. InPool' = InPool BY <1>2 DEF InPool
<1>5. Taken' = Taken BY <1>1, <1>2, <1>4 DEF Taken
<1>6. Apart' /\ Counted' BY <1>2, <1>3, <1>5, SamePlaces
<1>7. OneInHand' BY <1>2, <1>3 DEF OneInHand
<1>8. r.idx < idxGen /\ r \notin InPool /\ r \notin Range(pre)
  <2>1. Numbered /\ InPoolOnce /\ InChannelOnce BY DEF IInv, Once
  <2>2. r \notin InPool BY <2>1 DEF InPoolOnce, InPool
  <2>3. r \notin Range(pre) BY <2>1, PlaceTypes DEF InChannelOnce
  <2>4. QED BY <2>1, <2>2, <2>3 DEF Numbered
<1>9. ConsumedOnce' BY <1>1, <1>2, <1>3, <1>4, <1>8 DEF ConsumedOnce
<1>10. QED BY <1>6, <1>7, <1>9 DEF PlaceInv

\* A result received is consumed or waits.
LEMMA ReceivePlaces ==
  ASSUME IInv, PlaceInv, Receive
  PROVE  PlaceInv'
<1>1. Waits /\ UNCHANGED <<arrived, iq, stash, gone, idxGen, work>> BY DEF Receive, pool, board
<1>2. PICK r : Received(r) /\ (TakeInTurn(r) \/ TakeLate(r) \/ TakeEarly(r)) BY DEF Receive
<1>3. \/ consumed' = consumed \cup {r} /\ pending' = pending
      \/ consumed' = consumed /\ pending' = pending \cup {r}
  BY <1>2 DEF TakeInTurn, TakeLate, TakeEarly
<1>4. OneInHand /\ ConsumedOnce /\ Apart /\ Counted BY DEF PlaceInv
<1>5. InPool' = InPool BY <1>1 DEF InPool
<1>6. /\ pre' \in Seq(Results) /\ r.idx < idxGen
      /\ \A i \in 1 .. Len(pre') : i + 1 \in 1 .. Len(pre) /\ pre'[i] = pre[i + 1]
      /\ \A i \in 1 .. Len(pre') : pre'[i].idx # r.idx
      /\ \A w \in Workers : \A q \in work[w] : q.idx # r.idx
      /\ \A q \in pending : q.idx # r.idx
  BY <1>1, <1>2, ReceivedFacts
<1>7. Range(pre') = {pre'[i] : i \in 1 .. Len(pre')} BY <1>6, RangeIs
<1>8. Range(pre) = Range(pre') \cup {r} /\ r \notin Range(pre')
  <2>1. pre # <<>> /\ r = Head(pre) /\ pre' = Tail(pre) BY <1>2 DEF Received
  <2>2. Len(pre) \in Nat /\ Len(pre) # 0 /\ Len(pre') = Len(pre) - 1 /\ r = pre[1]
    BY <2>1, PlaceTypes, HeadTailProperties, EmptySeq
  <2>3. ASSUME NEW i \in 1 .. Len(pre), i # 1 PROVE pre[i] \in Range(pre')
    <3>1. i - 1 \in 1 .. Len(pre') /\ (i - 1) + 1 = i BY <2>2, <2>3
    <3>2. pre'[i - 1] = pre[i] BY <1>6, <3>1
    <3>3. QED BY <1>7, <3>1, <3>2
  <2>4. Range(pre) \subseteq Range(pre') \cup {r} BY <2>2, <2>3, PlaceTypes
  <2>5. Range(pre') \subseteq Range(pre) BY <1>6, <1>7, PlaceTypes
  <2>6. r \in Range(pre)
    <3>1. 1 \in 1 .. Len(pre) BY <2>2
    <3>2. QED BY <2>2, <3>1, PlaceTypes
  <2>7. r \notin Range(pre') BY <1>6, <1>7
  <2>8. QED BY <2>4, <2>5, <2>6, <2>7
<1>9. r \notin InPool /\ r \notin pending BY <1>6 DEF InPool
<1>10. Taken' = Taken BY <1>3, <1>5, <1>8 DEF Taken
<1>11. Apart' /\ Counted' BY <1>1, <1>4, <1>10, SamePlaces
<1>12. OneInHand' BY <1>1, <1>4 DEF OneInHand
<1>13. r \notin consumed BY <1>4, <1>8 DEF ConsumedOnce
<1>14. ConsumedOnce'
  <2>1. CASE consumed' = consumed \cup {r} /\ pending' = pending
    BY <1>1, <1>4, <1>5, <1>6, <1>8, <1>9, <2>1 DEF ConsumedOnce
  <2>2. CASE consumed' = consumed /\ pending' = pending \cup {r}
    BY <1>1, <1>4, <1>5, <1>8, <1>13, <2>2 DEF ConsumedOnce
  <2>3. QED BY <1>3, <2>1, <2>2
<1>15. QED BY <1>11, <1>12, <1>14 DEF PlaceInv

\* Every step keeps each capture in one place.
LEMMA NextPlaces == PredemodAssumption /\ IInv /\ PlaceInv /\ [Next]_vars => PlaceInv'
<1> SUFFICES ASSUME PredemodAssumption, IInv, PlaceInv, [Next]_vars PROVE PlaceInv'
  OBVIOUS
<1>1. CASE \E x \in Items : ReadDecoded(x) \/ ReadSpare(x) \/ ReadSamples(x) BY <1>1, ReadPlaces
<1>2. CASE SpareAges \/ CoverEnds \/ Starve \/ UNCHANGED vars
  <2>1. UNCHANGED <<arrived, iq, stash, gone, work, pre, pending, consumed, idxGen>>
    BY <1>2 DEF SpareAges, CoverEnds, Starve, vars, board, pool, turn
  <2>2. OneInHand' /\ ConsumedOnce' /\ Taken' = Taken BY <2>1, SameResults DEF PlaceInv
  <2>3. Apart' /\ Counted' BY <2>1, <2>2, SamePlaces DEF PlaceInv
  <2>4. QED BY <2>2, <2>3 DEF PlaceInv
<1>3. CASE \E w \in Workers : Worker(w) \/ Die(w)
  BY <1>3, TakePlaces, DropStalePlaces, ProcessPlaces, FinishPlaces, DiePlaces DEF Worker
<1>4. CASE Sweep \/ TakePending \/ Receive
  BY <1>4, SweepPlaces, TakePendingPlaces, ReceivePlaces
<1>5. QED BY <1>1, <1>2, <1>3, <1>4 DEF Next, Demod

\* Before the first capture every place is empty.
LEMMA InitPlaces == ASSUME Init PROVE PlaceInv
<1>1. /\ iq = <<>> /\ stash = <<>> /\ pre = <<>> /\ pending = {} /\ consumed = {} /\ gone = {}
      /\ arrived = {} /\ work = [w \in Workers |-> {}]
  BY DEF Init
<1>2. InPool = {} BY <1>1 DEF InPool
<1>3. Range(iq) = {} /\ Range(stash) = {} /\ Range(pre) = {} /\ Len(iq) = 0 /\ Len(stash) = 0
  BY <1>1 DEF Range
<1>4. Taken = {} BY <1>1, <1>2, <1>3 DEF Taken
<1>5. OneInHand /\ ConsumedOnce BY <1>1 DEF OneInHand, ConsumedOnce
<1>6. Apart BY <1>1, <1>3, <1>4 DEF Apart, Four, Distinct, ItemsOf
<1>7. Counted BY <1>1, <1>3, <1>4, FS_EmptySet DEF Counted
<1>8. QED BY <1>5, <1>6, <1>7 DEF PlaceInv

\* Four sets of results of which none is in two come to what they are together.
LEMMA ResultsCounted ==
  ASSUME IInv, PlaceInv
  PROVE  Cardinality(Taken) = Cardinality(InPool) + Len(pre) + Cardinality(pending)
                                + Cardinality(consumed)
<1>1. IsFiniteSet(Taken) BY DEF PlaceInv, Counted
<1>2. /\ IsFiniteSet(InPool) /\ IsFiniteSet(Range(pre)) /\ IsFiniteSet(pending)
      /\ IsFiniteSet(consumed)
  <2>1. InPool \in SUBSET Taken /\ Range(pre) \in SUBSET Taken /\ pending \in SUBSET Taken
        /\ consumed \in SUBSET Taken
    BY DEF Taken
  <2>2. QED BY <1>1, <2>1, FS_Subset
<1>3. InPoolOnce /\ InChannelOnce /\ ConsumedOnce BY DEF IInv, Once, PlaceInv
<1>4. InPool \cap Range(pre) = {} /\ InPool \cap pending = {} /\ Range(pre) \cap pending = {}
  <2>1. InPool \cap Range(pre) = {} BY <1>3, PlaceTypes DEF InPoolOnce, InPool
  <2>2. InPool \cap pending = {} BY <1>3 DEF InPoolOnce, InPool
  <2>3. Range(pre) \cap pending = {} BY <1>3, PlaceTypes DEF InChannelOnce
  <2>4. QED BY <2>1, <2>2, <2>3
<1>5. (InPool \cup Range(pre) \cup pending) \cap consumed = {} BY <1>3 DEF ConsumedOnce
<1>6. /\ IsFiniteSet(InPool \cup Range(pre))
      /\ Cardinality(InPool \cup Range(pre)) = Cardinality(InPool) + Cardinality(Range(pre))
  BY <1>2, <1>4, DisjointSum
<1>7. /\ IsFiniteSet((InPool \cup Range(pre)) \cup pending)
      /\ Cardinality((InPool \cup Range(pre)) \cup pending)
           = Cardinality(InPool \cup Range(pre)) + Cardinality(pending)
  <2>1. (InPool \cup Range(pre)) \cap pending = {} BY <1>4
  <2>2. QED BY <1>2, <1>6, <2>1, DisjointSum
<1>8. Cardinality(Taken)
        = Cardinality((InPool \cup Range(pre)) \cup pending) + Cardinality(consumed)
  <2>1. Taken = ((InPool \cup Range(pre)) \cup pending) \cup consumed BY DEF Taken
  <2>2. QED BY <1>2, <1>5, <1>7, <2>1, DisjointSum
<1>9. Cardinality(Range(pre)) = Len(pre)
  <2>1. \A i, j \in 1 .. Len(pre) : pre[i] = pre[j] => i = j BY <1>3 DEF InChannelOnce
  <2>2. QED BY <2>1, PlaceTypes, DistinctCount DEF Distinct
<1>10. QED BY <1>6, <1>7, <1>8, <1>9

-----------------------------------------------------------------------------
(* The results.                                                            *)

\* No result waits for a turn that is over, nor do more wait than the valve lets, in every order in
\* which the workers finish and die (demod_loop, pending_pre).
THEOREM NoResultBehind == ASSUME PredemodAssumption PROVE Init /\ [][Next]_vars => []NoneBehind
<1>1. IInv => NoneBehind
  BY DEF IInv
<1>2. QED
  BY <1>1, Invariance, PTL

\* Captures are consumed in the order of the queue, but for those the valve gave up (demod_loop,
\* next_pre_idx).
THEOREM ConsumedInOrder ==
  ASSUME PredemodAssumption PROVE Init /\ [][Next]_vars => []InOrderUnlessJumped
<1>1. IInv => InOrderUnlessJumped
  <2> SUFFICES ASSUME IInv, NEW r \in consumed, NEW j \in 0 .. r.idx - 1
               PROVE  j \in jumped \/ \E q \in consumed : q.idx = j
    BY DEF InOrderUnlessJumped
  <2>1. r.idx \in Nat /\ r.idx < next /\ next \in Nat
    BY DEF IInv, TypeOK, Results, TurnsTaken
  <2>2. j \in 0 .. next - 1
    BY <2>1
  <2>3. QED
    BY <2>2 DEF IInv, TurnsTaken
<1>2. QED
  BY <1>1, Invariance, PTL

\* Every capture is in one place and none is forgotten: what the board sent is in the queue, in the
\* stash, with a worker, in the channel, waiting, consumed or dropped, and counted once
\* (push_capture, sweep, claim, the workers and demod_loop).
THEOREM EachInOnePlace == ASSUME PredemodAssumption PROVE Init /\ [][Next]_vars => []OnePlace
<1>1. Init => IInv /\ PlaceInv BY InitIInv, InitPlaces
<1>2. IInv /\ PlaceInv /\ [Next]_vars => (IInv /\ PlaceInv)' BY NextIInv, NextPlaces
<1>3. IInv /\ PlaceInv => OnePlace
  <2> SUFFICES ASSUME IInv, PlaceInv PROVE OnePlace OBVIOUS
  <2>1. ItemsOf(Taken) = ItemsOf(InPool \cup Range(pre)) \cup ItemsOf(pending \cup consumed)
    BY DEF ItemsOf, Taken
  <2>2. arrived = Range(iq) \cup Range(stash) \cup ItemsOf(InPool \cup Range(pre))
                    \cup ItemsOf(pending \cup consumed) \cup gone
    BY <2>1 DEF PlaceInv, Apart, Four
  <2>3. /\ Cardinality(arrived) = Len(iq) + Len(stash) + Cardinality(Taken) + Cardinality(gone)
        /\ IsFiniteSet(Taken) /\ IsFiniteSet(gone)
    BY DEF PlaceInv, Counted
  <2>4. /\ IsFiniteSet(InPool) /\ IsFiniteSet(pending) /\ IsFiniteSet(consumed)
    <3>1. InPool \in SUBSET Taken /\ pending \in SUBSET Taken /\ consumed \in SUBSET Taken
      BY DEF Taken
    <3>2. QED BY <2>3, <3>1, FS_Subset
  <2>5. /\ Cardinality(InPool) \in Nat /\ Cardinality(pending) \in Nat
        /\ Cardinality(consumed) \in Nat
        /\ Cardinality(gone) \in Nat
    BY <2>3, <2>4, FS_CardinalityType
  <2>6. Cardinality(arrived) = Held + Cardinality(consumed) + Cardinality(gone)
    BY <2>3, <2>5, ResultsCounted, PlaceTypes DEF Held
  <2>7. QED BY <2>2, <2>6 DEF OnePlace
<1>4. QED BY <1>1, <1>2, <1>3, PTL

=============================================================================

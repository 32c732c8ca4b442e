---------------------------- MODULE ConvTxProofs ----------------------------
(***************************************************************************)
(* Proofs about the transmit queue for every bound, every set of air times *)
(* and every interleaving of the worker and the sender.                    *)
(***************************************************************************)
EXTENDS ConvTx, SequenceTheorems, WellFoundedInduction, TLAPS

\* t is s with e inserted behind the first n elements.
IsInserted(t, s, e, n, S) ==
  /\ t \in Seq(S)
  /\ Len(t) = Len(s) + 1
  /\ \A i \in 1 .. n : t[i] = s[i]
  /\ t[n + 1] = e
  /\ \A i \in n + 2 .. Len(s) + 1 : t[i] = s[i - 1]

\* What push_retx does to the queue: the block lands behind the first n blocks, the
\* others keep their order.
LEMMA InsertAtLemma ==
  ASSUME NEW S, NEW s \in Seq(S), NEW e \in S, NEW n \in 0 .. Len(s)
  PROVE  IsInserted(InsertAt(s, n + 1, e), s, e, n, S)
<1> DEFINE a == SubSeq(s, 1, n)
           b == SubSeq(s, n + 1, Len(s))
           t == InsertAt(s, n + 1, e)
           u == a \o <<e>>
<1>0. n \in Nat /\ Len(s) \in Nat /\ n <= Len(s) /\ (n + 1) - 1 = n
  OBVIOUS
<1>1. t = u \o b
  BY <1>0 DEF InsertAt
<1>2. a \in Seq(S) /\ Len(a) = n /\ \A i \in 1 .. n : a[i] = s[i]
  <2>1. \A i \in 1 .. n : s[i] \in S
    BY <1>0
  <2>2. QED
    BY <1>0, <2>1, SubSeqProperties
<1>3. b \in Seq(S) /\ Len(b) = Len(s) - n /\ \A i \in 1 .. Len(s) - n : b[i] = s[i + n]
  <2>1. \A i \in n + 1 .. Len(s) : s[i] \in S
    BY <1>0
  <2>2. QED
    BY <1>0, <2>1, SubSeqProperties
<1>4. u \in Seq(S) /\ Len(u) = n + 1 /\ u[n + 1] = e /\ \A i \in 1 .. n : u[i] = s[i]
  <2>1. <<e>> \in Seq(S) /\ Len(<<e>>) = 1 /\ <<e>>[1] = e
    OBVIOUS
  <2>2. QED
    BY <1>0, <1>2, <2>1, ConcatProperties
<1> HIDE DEF a, b, t, u
<1>5. /\ t \in Seq(S) /\ Len(t) = Len(s) + 1
      /\ \A i \in 1 .. Len(s) + 1 : t[i] = IF i <= n + 1 THEN u[i] ELSE b[i - (n + 1)]
  <2>1. /\ u \o b \in Seq(S) /\ Len(u \o b) = Len(u) + Len(b)
        /\ \A i \in 1 .. Len(u) + Len(b) :
             (u \o b)[i] = IF i <= Len(u) THEN u[i] ELSE b[i - Len(u)]
    BY <1>3, <1>4, ConcatProperties
  <2>2. Len(u) = n + 1 /\ Len(u) + Len(b) = Len(s) + 1
    BY <1>0, <1>3, <1>4
  <2>3. QED
    BY <1>1, <2>1, <2>2
<1>6. \A i \in 1 .. n : t[i] = s[i]
  BY <1>0, <1>4, <1>5
<1>7. t[n + 1] = e
  BY <1>0, <1>4, <1>5
<1>8. ASSUME NEW i \in n + 2 .. Len(s) + 1 PROVE t[i] = s[i - 1]
  <2>1. t[i] = b[i - (n + 1)]
    BY <1>0, <1>5
  <2>2. i - (n + 1) \in 1 .. Len(s) - n /\ (i - (n + 1)) + n = i - 1
    BY <1>0
  <2>3. QED
    BY <1>3, <2>1, <2>2
<1>9. IsInserted(t, s, e, n, S)
  BY <1>5, <1>6, <1>7, <1>8 DEF IsInserted
<1>10. QED
  BY <1>9 DEF t

\* f[n] is what the first n numbers of w come to.
Sums(w, f) == f = [n \in 0 .. Len(w) |-> IF n = 0 THEN 0 ELSE f[n - 1] + w[n]]

\* Induction is by the least number for which a claim fails.
LEMMA Smallest ==
  ASSUME NEW S \in SUBSET Nat, S # {}
  PROVE  \E x \in S : \A y \in S : x <= y
<1>1. PICK x \in S : \A y \in S : <<y, x>> \notin OpToRel(<, Nat)
  BY WFMin, NatLessThanWellFounded
<1>2. ASSUME NEW y \in S PROVE x <= y
  <2>1. ~(y < x) BY <1>1 DEF OpToRel
  <2>2. x \in Nat /\ y \in Nat OBVIOUS
  <2>3. QED BY <2>1, <2>2
<1>3. QED BY <1>2

\* The recursion of SumOf defines a function ...
LEMMA SumsExist ==
  ASSUME NEW w \in Seq(Nat)
  PROVE  \E f : Sums(w, f) /\ f \in [0 .. Len(w) -> Nat]
<1> DEFINE Good(m, f) == /\ f \in [0 .. m -> Nat] /\ f[0] = 0
                         /\ \A n \in 1 .. m : f[n] = f[n - 1] + w[n]
           Bad == {m \in 0 .. Len(w) : ~\E f \in [0 .. m -> Nat] : Good(m, f)}
<1>0. Len(w) \in Nat OBVIOUS
<1>1. Bad = {}
  <2> SUFFICES ASSUME Bad # {} PROVE FALSE OBVIOUS
  <2>1. Bad \in SUBSET Nat BY <1>0
  <2>2. PICK m \in Bad : \A y \in Bad : m <= y BY <2>1, Smallest
  <2>3. m \in Nat /\ m <= Len(w) BY <1>0
  <2>4. CASE m = 0
    <3> DEFINE g == [n \in 0 .. 0 |-> 0]
    <3>1. g \in [0 .. 0 -> Nat] /\ g[0] = 0 OBVIOUS
    <3>2. Good(0, g) BY <3>1
    <3>3. QED BY <2>4, <3>1, <3>2
  <2>5. CASE m # 0
    <3>1. m - 1 \in 0 .. Len(w) /\ ~(m <= m - 1) /\ m \in 1 .. Len(w) BY <1>0, <2>3, <2>5
    <3>2. m - 1 \notin Bad BY <2>2, <3>1
    <3>3. PICK f \in [0 .. m - 1 -> Nat] : Good(m - 1, f) BY <3>1, <3>2
    <3>4. w[m] \in Nat BY <3>1
    <3>5. f[m - 1] \in Nat BY <3>1, <3>3, <2>3
    <3> DEFINE g == [n \in 0 .. m |-> IF n = m THEN f[m - 1] + w[m] ELSE f[n]]
    <3>6. g \in [0 .. m -> Nat]
      <4>1. ASSUME NEW n \in 0 .. m, n # m PROVE f[n] \in Nat
        <5>1. n \in 0 .. m - 1 BY <4>1, <2>3
        <5>2. QED BY <5>1
      <4>2. QED BY <4>1, <3>4, <3>5
    <3>7. g[0] = 0
      <4>1. 0 \in 0 .. m BY <2>3
      <4>2. QED BY <4>1, <2>5, <3>3
    <3>8. ASSUME NEW n \in 1 .. m PROVE g[n] = g[n - 1] + w[n]
      <4>1. n \in 0 .. m /\ n - 1 \in 0 .. m /\ n - 1 # m BY <2>3
      <4>2. g[n - 1] = f[n - 1] BY <4>1
      <4>3. CASE n = m BY <4>1, <4>2, <4>3
      <4>4. CASE n # m
        <5>1. n \in 1 .. m - 1 BY <4>4, <2>3
        <5>2. f[n] = f[n - 1] + w[n] BY <5>1, <3>3
        <5>3. QED BY <4>1, <4>2, <4>4, <5>2
      <4>5. QED BY <4>3, <4>4
    <3>9. Good(m, g) BY <3>6, <3>7, <3>8
    <3> HIDE DEF g
    <3>10. QED BY <3>6, <3>9
  <2>6. QED BY <2>4, <2>5
<1>2. Len(w) \in 0 .. Len(w) BY <1>0
<1>3. PICK f \in [0 .. Len(w) -> Nat] : Good(Len(w), f) BY <1>1, <1>2
<1> DEFINE h == [n \in 0 .. Len(w) |-> IF n = 0 THEN 0 ELSE f[n - 1] + w[n]]
<1>4. ASSUME NEW n \in 0 .. Len(w) PROVE h[n] = f[n]
  <2>1. CASE n = 0 BY <2>1, <1>3
  <2>2. CASE n # 0
    <3>1. n \in 1 .. Len(w) BY <2>2, <1>0
    <3>2. QED BY <2>2, <3>1, <1>3
  <2>3. QED BY <2>1, <2>2
<1>5. f = h BY <1>4
<1>6. Sums(w, f) BY <1>5 DEF Sums
<1>7. QED BY <1>6

\* ... whose last value it is.
LEMMA SumOfIs ==
  ASSUME NEW w \in Seq(Nat)
  PROVE  \E f \in [0 .. Len(w) -> Nat] :
           /\ f[0] = 0 /\ SumOf(w) = f[Len(w)]
           /\ \A n \in 1 .. Len(w) : f[n] = f[n - 1] + w[n]
<1> DEFINE f == CHOOSE g : Sums(w, g)
<1>0. Len(w) \in Nat OBVIOUS
<1>1. Sums(w, f) BY SumsExist
<1>2. SumOf(w) = f[Len(w)] BY DEF SumOf, Sums
<1> HIDE DEF f
<1>3. f = [n \in 0 .. Len(w) |-> IF n = 0 THEN 0 ELSE f[n - 1] + w[n]] BY <1>1 DEF Sums
<1>4. DOMAIN f = 0 .. Len(w) /\ f[0] = 0 BY <1>0, <1>3
<1>5. ASSUME NEW n \in 1 .. Len(w) PROVE f[n] = f[n - 1] + w[n]
  <2>1. n \in 0 .. Len(w) /\ n # 0 BY <1>0
  <2>2. QED BY <1>3, <2>1
<1> DEFINE Bad == {n \in 0 .. Len(w) : f[n] \notin Nat}
<1>6. Bad = {}
  <2> SUFFICES ASSUME Bad # {} PROVE FALSE OBVIOUS
  <2>1. Bad \in SUBSET Nat BY <1>0
  <2>2. PICK m \in Bad : \A y \in Bad : m <= y BY <2>1, Smallest
  <2>3. m \in Nat /\ m <= Len(w) /\ m # 0 BY <1>0, <1>4
  <2>4. m \in 1 .. Len(w) /\ m - 1 \in 0 .. Len(w) /\ ~(m <= m - 1) BY <1>0, <2>3
  <2>5. f[m - 1] \in Nat /\ w[m] \in Nat BY <2>2, <2>4
  <2>6. QED BY <1>5, <2>2, <2>4, <2>5
<1>7. f \in [0 .. Len(w) -> Nat]
  <2>1. \A n \in 0 .. Len(w) : f[n] \in Nat BY <1>6
  <2>2. QED BY <1>3, <1>4, <2>1
<1>8. QED BY <1>2, <1>4, <1>5, <1>7

\* A sum of natural numbers is one.
LEMMA SumNat == ASSUME NEW w \in Seq(Nat) PROVE SumOf(w) \in Nat
<1>1. Len(w) \in 0 .. Len(w) OBVIOUS
<1>2. QED BY <1>1, SumOfIs

\* One number more, wherever it stands, is that much more.
LEMMA SumOfInserted ==
  ASSUME NEW s \in Seq(Nat), NEW e \in Nat, NEW n \in 0 .. Len(s), NEW t, IsInserted(t, s, e, n,
         Nat)
  PROVE  SumOf(t) = SumOf(s) + e
<1>0. Len(s) \in Nat /\ n \in Nat /\ n <= Len(s) /\ t \in Seq(Nat) /\ Len(t) = Len(s) + 1
  BY DEF IsInserted
<1>1. PICK f \in [0 .. Len(s) -> Nat] :
           /\ f[0] = 0 /\ SumOf(s) = f[Len(s)]
           /\ \A k \in 1 .. Len(s) : f[k] = f[k - 1] + s[k]
  BY SumOfIs
<1>2. PICK g \in [0 .. Len(t) -> Nat] :
           /\ g[0] = 0 /\ SumOf(t) = g[Len(t)]
           /\ \A k \in 1 .. Len(t) : g[k] = g[k - 1] + t[k]
  BY <1>0, SumOfIs
<1> DEFINE Bad == {k \in 0 .. Len(s) : g[k] # f[k] /\ k <= n}
           Off == {k \in 0 .. Len(s) : n <= k /\ g[k + 1] # f[k] + e}
<1>3. Bad = {}
  <2> SUFFICES ASSUME Bad # {} PROVE FALSE OBVIOUS
  <2>1. Bad \in SUBSET Nat BY <1>0
  <2>2. PICK m \in Bad : \A y \in Bad : m <= y BY <2>1, Smallest
  <2>3. m \in Nat /\ m <= Len(s) /\ m <= n /\ m # 0 BY <1>0, <1>1, <1>2
  <2>4. /\ m \in 1 .. Len(s) /\ m \in 1 .. Len(t) /\ m \in 1 .. n
        /\ m - 1 \in 0 .. Len(s) /\ ~(m <= m - 1)
    BY <1>0, <2>3
  <2>5. g[m - 1] = f[m - 1]
    <3>1. m - 1 \notin Bad BY <2>2, <2>4
    <3>2. m - 1 <= n BY <1>0, <2>3
    <3>3. QED BY <2>4, <3>1, <3>2
  <2>6. t[m] = s[m] BY <2>4 DEF IsInserted
  <2>7. QED BY <1>1, <1>2, <2>2, <2>4, <2>5, <2>6
<1>4. g[n] = f[n]
  <2>1. n \in 0 .. Len(s) /\ n <= n BY <1>0
  <2>2. n \notin Bad BY <1>3
  <2>3. QED BY <2>1, <2>2
<1>5. f[n] \in Nat /\ n \in 0 .. Len(s) BY <1>1
<1>6. g[n + 1] = f[n] + e
  <2>1. n + 1 \in 1 .. Len(t) /\ (n + 1) - 1 = n BY <1>0
  <2>2. t[n + 1] = e BY DEF IsInserted
  <2>3. QED BY <1>2, <1>4, <2>1, <2>2
<1>7. Off = {}
  <2> SUFFICES ASSUME Off # {} PROVE FALSE OBVIOUS
  <2>1. Off \in SUBSET Nat BY <1>0
  <2>2. PICK m \in Off : \A y \in Off : m <= y BY <2>1, Smallest
  <2>3. m \in Nat /\ m <= Len(s) /\ n <= m /\ m # n BY <1>0, <1>6
  <2>4. /\ m \in 1 .. Len(s) /\ m + 1 \in 1 .. Len(t) /\ m - 1 \in 0 .. Len(s) /\ n <= m - 1
        /\ m + 1 \in n + 2 .. Len(s) + 1 /\ (m - 1) + 1 = m /\ (m + 1) - 1 = m /\ ~(m <= m - 1)
    BY <1>0, <2>3
  <2>5. g[m] = f[m - 1] + e
    <3>1. m - 1 \notin Off BY <2>2, <2>4
    <3>2. g[(m - 1) + 1] = f[m - 1] + e BY <2>4, <3>1
    <3>3. QED BY <2>4, <3>2
  <2>6. t[m + 1] = s[m] BY <2>4 DEF IsInserted
  <2>7. g[m + 1] = g[m] + s[m] BY <1>2, <2>4, <2>6
  <2>8. f[m] = f[m - 1] + s[m] BY <1>1, <2>4
  <2>9. PICK a \in Nat : a = f[m - 1] BY <2>4
  <2>10. PICK b \in Nat : b = s[m] BY <2>4
  <2>11. g[m + 1] = f[m] + e
    <3>1. f[m] = a + b /\ g[m + 1] = (a + e) + b BY <2>5, <2>7, <2>8, <2>9, <2>10
    <3>2. (a + e) + b = (a + b) + e OBVIOUS
    <3>3. QED BY <3>1, <3>2
  <2>12. QED BY <2>2, <2>11
<1>8. Len(s) \in 0 .. Len(s) BY <1>0
<1>9. g[Len(s) + 1] = f[Len(s)] + e BY <1>0, <1>7, <1>8
<1>10. QED BY <1>0, <1>1, <1>2, <1>9

\* Numbers that are nowhere greater come to no more.
LEMMA SumMonotone ==
  ASSUME NEW s \in Seq(Nat), NEW t \in Seq(Nat), Len(s) = Len(t),
         \A i \in 1 .. Len(s) : s[i] <= t[i]
  PROVE  SumOf(s) <= SumOf(t)
<1>0. Len(s) \in Nat OBVIOUS
<1>1. PICK f \in [0 .. Len(s) -> Nat] :
           /\ f[0] = 0 /\ SumOf(s) = f[Len(s)]
           /\ \A k \in 1 .. Len(s) : f[k] = f[k - 1] + s[k]
  BY SumOfIs
<1>2. PICK g \in [0 .. Len(s) -> Nat] :
           /\ g[0] = 0 /\ SumOf(t) = g[Len(s)]
           /\ \A k \in 1 .. Len(s) : g[k] = g[k - 1] + t[k]
  <2>1. \E g \in [0 .. Len(t) -> Nat] :
          /\ g[0] = 0 /\ SumOf(t) = g[Len(t)]
          /\ \A k \in 1 .. Len(t) : g[k] = g[k - 1] + t[k]
    BY SumOfIs
  <2>2. QED BY <2>1
<1> DEFINE Bad == {k \in 0 .. Len(s) : ~(f[k] <= g[k])}
<1>3. Bad = {}
  <2> SUFFICES ASSUME Bad # {} PROVE FALSE OBVIOUS
  <2>1. Bad \in SUBSET Nat BY <1>0
  <2>2. PICK m \in Bad : \A y \in Bad : m <= y BY <2>1, Smallest
  <2>3. m \in Nat /\ m <= Len(s) /\ m # 0 BY <1>0, <1>1, <1>2
  <2>4. m \in 1 .. Len(s) /\ m - 1 \in 0 .. Len(s) /\ ~(m <= m - 1) BY <1>0, <2>3
  <2>5. f[m - 1] <= g[m - 1] BY <2>2, <2>4
  <2>6. f[m] = f[m - 1] + s[m] /\ g[m] = g[m - 1] + t[m] /\ s[m] <= t[m] BY <1>1, <1>2, <2>4
  <2>7. PICK a \in Nat : a = f[m - 1] BY <2>4
  <2>8. PICK b \in Nat : b = s[m] BY <2>4
  <2>9. PICK c \in Nat : c = g[m - 1] BY <2>4
  <2>10. PICK d \in Nat : d = t[m] BY <2>4
  <2>11. a <= c /\ b <= d BY <2>5, <2>6, <2>7, <2>8, <2>9, <2>10
  <2>12. a + b <= c + d BY <2>11
  <2>13. f[m] = a + b /\ g[m] = c + d BY <2>6, <2>7, <2>8, <2>9, <2>10
  <2>14. f[m] <= g[m] BY <2>12, <2>13
  <2>15. QED BY <2>2, <2>14
<1>4. Len(s) \in 0 .. Len(s) BY <1>0
<1>5. QED BY <1>1, <1>2, <1>3, <1>4
-----------------------------------------------------------------------------
(* The inductive invariant.                                                *)

\* The retransmissions are exactly the first retxHead blocks of the queue: without it
\* push_retx, which inserts at that place, could land among the ordinary blocks.
RetxAtHead ==
  /\ retxHead <= Len(items)
  /\ \A i \in 1 .. Len(items) : items[i].kind = "retx" <=> i <= retxHead

IsFresh(b) == b.kind \in Fresh

\* First-time blocks are in order all along the pipeline: on the wire, in the sender's
\* hand, in the queue, in the worker's hand.
QueueInOrder ==
  /\ \A i \in 1 .. Len(items) :
       items[i].seq <= seq /\ (IsFresh(items[i]) => freshSent < items[i].seq)
  /\ \A i, j \in 1 .. Len(items) :
       i < j /\ IsFresh(items[i]) /\ IsFresh(items[j]) => items[i].seq < items[j].seq

HeldInOrder ==
  held # None /\ IsFresh(held) =>
    /\ freshSent < held.seq /\ held.seq <= seq
    /\ \A i \in 1 .. Len(items) : IsFresh(items[i]) => held.seq < items[i].seq

WaitingInOrder ==
  waiting # None =>
    /\ waiting.kind = "camera" /\ waiting.seq = seq /\ freshSent < seq
    /\ held # None /\ IsFresh(held) => held.seq < seq
    /\ \A i \in 1 .. Len(items) : IsFresh(items[i]) => items[i].seq < seq

InOrder == QueueInOrder /\ HeldInOrder /\ WaitingInOrder

IInv == TypeOK /\ RetxAtHead /\ InOrder /\ Conserved

-----------------------------------------------------------------------------
LEMMA InitIInv == Init => IInv
<1> SUFFICES ASSUME Init PROVE IInv
  OBVIOUS
<1>1. items = <<>> /\ items \in Seq(Block) /\ Len(items) = 0 /\ retxHead = 0 /\ airUs = 0
  BY DEF Init
<1>2. /\ lost \in [Reasons -> Nat] /\ lost["full"] = 0
      /\ lost["uncarried"] = 0 /\ lost["stopped"] = 0
  BY DEF Init, Reasons
<1>3. TypeOK
  <2>1. seq \in 0 .. MaxSeq /\ freshSent \in 0 .. seq /\ again \in 0 .. MaxAgain
    BY ConvTxAssumption DEF Init
  <2>2. cached \subseteq 1 .. seq /\ cqIn \in Nat /\ cqDrop \in Nat /\ sent \in Nat
    BY DEF Init
  <2>3. /\ workerPc \in WorkerPcs /\ waiting = None /\ workerPc \notin {"recheck", "room"}
        /\ senderPc \in SenderPcs /\ held = None /\ senderPc \notin {"taken", "pacing"}
    BY DEF Init, WorkerPcs, SenderPcs
  <2>4. link \in {"up", "down", "udp"} /\ stop \in BOOLEAN /\ closed \in BOOLEAN
    BY DEF Init
  <2>5. QED
    BY <1>1, <1>2, <2>1, <2>2, <2>3, <2>4 DEF TypeOK
<1>4. RetxAtHead /\ InOrder
  BY <1>1 DEF Init, RetxAtHead, InOrder, QueueInOrder, HeldInOrder, WaitingInOrder
<1>5. Conserved
  <2>1. InHand = 0 /\ Uncounted = 0 /\ cqIn = 0 /\ cqDrop = 0 /\ sent = 0
    BY DEF Init, InHand, Uncounted
  <2>2. QED
    BY <1>1, <1>2, <2>1 DEF Conserved
<1>6. QED
  BY <1>3, <1>4, <1>5 DEF IInv

\* A block pushed at the back.
LEMMA PushBackLemma ==
  ASSUME IInv, NEW b \in Block, PushBack(b)
  PROVE  /\ items' \in Seq(Block) /\ Len(items') = Len(items) + 1
         /\ \A i \in 1 .. Len(items) : items'[i] = items[i]
         /\ items'[Len(items) + 1] = b
         /\ airUs' \in Nat /\ retxHead' \in Nat /\ closed' \in BOOLEAN
         /\ b.kind # "retx" => RetxAtHead'
<1>1. items \in Seq(Block) /\ airUs \in Nat /\ b.air \in Nat /\ retxHead \in Nat /\ closed \in BOOLEAN
  BY ConvTxAssumption DEF IInv, TypeOK, Block
<1>2. /\ items' \in Seq(Block) /\ Len(items') = Len(items) + 1
      /\ \A i \in 1 .. Len(items) : items'[i] = items[i]
      /\ items'[Len(items) + 1] = b
  BY <1>1, AppendProperties DEF PushBack
<1>3. airUs' \in Nat /\ retxHead' = retxHead /\ closed' = closed
  BY <1>1 DEF PushBack
<1>4. b.kind # "retx" => RetxAtHead'
  BY <1>1, <1>2, <1>3 DEF IInv, RetxAtHead
<1>5. QED
  BY <1>1, <1>2, <1>3, <1>4

\* One more loss for a reason, and no other.
LEMMA LoseLemma ==
  ASSUME lost \in [Reasons -> Nat], NEW why \in Reasons, Lose(why)
  PROVE  /\ lost' \in [Reasons -> Nat]
         /\ lost'[why] = lost[why] + 1
         /\ \A r \in Reasons \ {why} : lost'[r] = lost[r]
         /\ \A r \in Reasons : lost[r] \in Nat
BY DEF Lose

LEMMA AirsNat == Airs \subseteq Nat
BY ConvTxAssumption

\* What the type invariant says of the numbers the other conjuncts compare.
LEMMA TypeFacts ==
  ASSUME TypeOK
  PROVE  /\ items \in Seq(Block) /\ Len(items) \in Nat /\ seq \in Nat /\ freshSent \in Nat
         /\ freshSent <= seq /\ seq <= MaxSeq /\ MaxSeq \in Nat
         /\ \A i \in 1 .. Len(items) :
              items[i] \in Block /\ items[i].seq \in Nat /\ items[i].air \in Nat
         /\ held # None => held \in Block /\ held.seq \in Nat
         /\ waiting # None => waiting \in Block /\ waiting.seq \in Nat
<1>1. items \in Seq(Block) /\ Len(items) \in Nat
  BY DEF TypeOK
<1>2. MaxSeq \in Nat /\ seq \in 0 .. MaxSeq /\ freshSent \in 0 .. seq
  BY ConvTxAssumption DEF TypeOK
<1>3. ASSUME NEW b \in Block PROVE b.seq \in Nat /\ b.air \in Nat
  <2>1. b.seq \in 1 .. MaxSeq /\ b.air \in Airs
    BY DEF Block
  <2>2. b.air \in Nat
    BY <2>1, AirsNat
  <2>3. QED
    BY <1>2, <2>1, <2>2
<1>4. held \in Block \cup {None} /\ waiting \in Block \cup {None}
  BY DEF TypeOK
<1>5. \A i \in 1 .. Len(items) : items[i] \in Block
  BY <1>1
<1>6. QED
  BY <1>1, <1>2, <1>3, <1>4, <1>5

\* ... and of the counts that Conserved adds up.
LEMMA NumberFacts ==
  ASSUME IInv
  PROVE  /\ Conserved /\ Len(items) \in Nat /\ cqIn \in Nat /\ cqDrop \in Nat /\ sent \in Nat
         /\ lost["full"] \in Nat /\ lost["uncarried"] \in Nat /\ lost["stopped"] \in Nat
         /\ InHand \in {0, 1} /\ Uncounted \in {0, 1}
BY DEF IInv, TypeOK, Reasons, InHand, Uncounted

\* A block enters the queue and is not counted yet.
LEMMA ConservedByPush ==
  ASSUME IInv, Len(items') = Len(items) + 1, Uncounted = 0, Uncounted' = 1, InHand' = InHand,
         UNCHANGED <<cqIn, cqDrop, sent, lost>>
  PROVE  Conserved'
<1> DEFINE a == lost["uncarried"]
           b == lost["stopped"]
           c == lost["full"]
           n == Len(items)
           h == InHand
<1>1. /\ n \in Nat /\ a \in Nat /\ b \in Nat /\ c \in Nat /\ cqIn \in Nat /\ sent \in Nat
      /\ h \in {0, 1} /\ cqIn + 0 = n + h + sent + a + b /\ cqDrop = c
  BY NumberFacts DEF Conserved
<1>2. lost'["uncarried"] = a /\ lost'["stopped"] = b /\ lost'["full"] = c /\ cqDrop' = cqDrop
  OBVIOUS
<1>3. Len(items') = n + 1 /\ InHand' = h /\ cqIn' = cqIn /\ sent' = sent
  OBVIOUS
<1> HIDE DEF a, b, c, n, h
<1>4. cqIn + 1 = (n + 1) + h + sent + a + b
  BY <1>1
<1>5. QED
  BY <1>1, <1>2, <1>3, <1>4 DEF Conserved

\* The three orders when nothing moves but the bookkeeping and the highest sequence number.
LEMMA OrderKept ==
  ASSUME IInv, UNCHANGED <<items, held, freshSent>>, seq' \in Nat, seq <= seq',
         waiting' = None \/ (waiting' = waiting /\ seq' = seq)
  PROVE  InOrder'
BY TypeFacts DEF IInv, InOrder, QueueInOrder, HeldInOrder, WaitingInOrder, IsFresh

\* The orders after a push: a first-time block is numbered above all the others.
LEMMA OrderAfterPush ==
  ASSUME IInv, NEW b \in Block, PushBack(b), UNCHANGED <<held, freshSent>>,
         seq' \in Nat, seq <= seq', b.seq <= seq', waiting' = None,
         IsFresh(b) => \/ b.seq = seq + 1
                       \/ waiting = b
  PROVE  InOrder'
<1>1. /\ items' \in Seq(Block) /\ Len(items') = Len(items) + 1
      /\ \A i \in 1 .. Len(items) : items'[i] = items[i]
      /\ items'[Len(items) + 1] = b
  BY PushBackLemma
<1>2. b.seq \in Nat /\ b # None
  BY ConvTxAssumption DEF Block
<1>3. IsFresh(b) =>
        /\ freshSent < b.seq
        /\ held # None /\ IsFresh(held) => held.seq < b.seq
        /\ \A i \in 1 .. Len(items) : IsFresh(items[i]) => items[i].seq < b.seq
  BY <1>2, TypeFacts DEF IInv, InOrder, QueueInOrder, HeldInOrder, WaitingInOrder
<1>4. QueueInOrder'
  <2>1. ASSUME NEW i \in 1 .. Len(items')
        PROVE  items'[i].seq <= seq' /\ (IsFresh(items'[i]) => freshSent' < items'[i].seq)
    <3>1. CASE i = Len(items) + 1
      BY <1>1, <1>2, <1>3, <3>1
    <3>2. CASE i # Len(items) + 1
      <4>1. i \in 1 .. Len(items) /\ items'[i] = items[i]
        BY <1>1, <3>2, TypeFacts DEF IInv
      <4>2. QED
        BY <4>1, TypeFacts DEF IInv, InOrder, QueueInOrder
    <3>3. QED
      BY <3>1, <3>2
  <2>2. ASSUME NEW i \in 1 .. Len(items'), NEW j \in 1 .. Len(items'), i < j,
               IsFresh(items'[i]), IsFresh(items'[j])
        PROVE  items'[i].seq < items'[j].seq
    <3>1. i \in 1 .. Len(items) /\ items'[i] = items[i]
      BY <1>1, <2>2, TypeFacts DEF IInv
    <3>2. CASE j = Len(items) + 1
      BY <1>1, <1>3, <2>2, <3>1, <3>2
    <3>3. CASE j # Len(items) + 1
      <4>1. j \in 1 .. Len(items) /\ items'[j] = items[j]
        BY <1>1, <3>3, TypeFacts DEF IInv
      <4>2. QED
        BY <2>2, <3>1, <4>1 DEF IInv, InOrder, QueueInOrder
    <3>4. QED
      BY <3>2, <3>3
  <2>3. QED
    BY <2>1, <2>2 DEF QueueInOrder
<1>5. HeldInOrder'
  <2>1. SUFFICES ASSUME held # None, IsFresh(held)
        PROVE /\ freshSent < held.seq /\ held.seq <= seq'
              /\ \A i \in 1 .. Len(items') : IsFresh(items'[i]) => held.seq < items'[i].seq
    BY DEF HeldInOrder
  <2>2. /\ freshSent < held.seq /\ held.seq <= seq'
        /\ \A i \in 1 .. Len(items) : IsFresh(items[i]) => held.seq < items[i].seq
    BY <2>1, TypeFacts DEF IInv, InOrder, HeldInOrder
  <2>3. ASSUME NEW i \in 1 .. Len(items'), IsFresh(items'[i]) PROVE held.seq < items'[i].seq
    <3>1. CASE i = Len(items) + 1
      BY <1>1, <1>3, <2>1, <2>3, <3>1
    <3>2. CASE i # Len(items) + 1
      <4>1. i \in 1 .. Len(items) /\ items'[i] = items[i]
        BY <1>1, <3>2, TypeFacts DEF IInv
      <4>2. QED
        BY <2>2, <2>3, <4>1
    <3>3. QED
      BY <3>1, <3>2
  <2>4. QED
    BY <2>2, <2>3
<1>6. WaitingInOrder'
  BY DEF WaitingInOrder
<1>7. QED
  BY <1>4, <1>5, <1>6 DEF InOrder

-----------------------------------------------------------------------------
(* One lemma per action.                                                   *)

\* A push by push_mcs, with what its two callers have in common.
LEMMA PushMcsStep ==
  ASSUME IInv, NEW b \in Block, PushMcs(b), workerPc = "run",
         b.kind \in {"data", "base", "dup"},
         seq' \in seq .. MaxSeq, b.seq <= seq', IsFresh(b) => b.seq = seq + 1,
         cached' \subseteq 1 .. seq', again' \in 0 .. MaxAgain,
         waiting' = waiting, senderPc' = senderPc, held' = held,
         link' = link, stop' = stop, cqIn' = cqIn, sent' = sent, freshSent' = freshSent
  PROVE  IInv'
<1>1. waiting = None
  BY DEF IInv, TypeOK
<1>2. seq' \in Nat /\ seq <= seq' /\ seq' <= MaxSeq /\ freshSent <= seq'
  BY TypeFacts DEF IInv
<1>3. CASE Full(b.air)
  <2>1. /\ cqDrop' = cqDrop + 1 /\ Lose("full")
        /\ items' = items /\ retxHead' = retxHead /\ airUs' = airUs /\ closed' = closed
        /\ workerPc' = workerPc
    BY <1>3 DEF PushMcs, queue
  <2>7. /\ lost' \in [Reasons -> Nat] /\ lost'["full"] = lost["full"] + 1
        /\ lost'["uncarried"] = lost["uncarried"] /\ lost'["stopped"] = lost["stopped"]
    <3>1. lost \in [Reasons -> Nat]
      BY DEF IInv, TypeOK
    <3>2. "full" \in Reasons
      BY DEF Reasons
    <3>3. {"uncarried", "stopped"} \subseteq Reasons \ {"full"}
      BY DEF Reasons
    <3>4. QED
      BY <2>1, <3>1, <3>2, <3>3, LoseLemma
  <2>8. cqDrop' \in Nat
    BY <2>1 DEF IInv, TypeOK
  <2>2. TypeOK'
    BY <1>2, <2>1, <2>7, <2>8 DEF IInv, TypeOK
  <2>3. RetxAtHead'
    BY <2>1 DEF IInv, RetxAtHead
  <2>4. InOrder'
    BY <1>1, <1>2, <2>1, OrderKept
  <2>5. Conserved'
    BY <2>1, <2>7 DEF IInv, Conserved, InHand, Uncounted
  <2>6. QED
    BY <2>2, <2>3, <2>4, <2>5 DEF IInv
<1>4. CASE ~Full(b.air)
  <2>1. PushBack(b) /\ cqDrop' = cqDrop /\ lost' = lost /\ workerPc' = "notify"
    BY <1>4 DEF PushMcs, PushBack
  <2>2. /\ items' \in Seq(Block) /\ Len(items') = Len(items) + 1
        /\ airUs' \in Nat /\ retxHead' \in Nat /\ closed' \in BOOLEAN
        /\ RetxAtHead'
    BY <2>1, PushBackLemma
  <2>3. TypeOK'
    BY <1>1, <1>2, <2>1, <2>2, TypeFacts DEF IInv, TypeOK, WorkerPcs
  <2>4. InOrder'
    BY <1>1, <1>2, <2>1, OrderAfterPush
  <2>5. Conserved'
    <3>1. Uncounted = 0 /\ Uncounted' = 1 /\ InHand' = InHand
      BY <2>1 DEF Uncounted, InHand
    <3>2. QED
      BY <2>1, <2>2, <3>1, ConservedByPush
  <2>6. QED
    BY <2>2, <2>3, <2>4, <2>5 DEF IInv
<1>5. QED
  BY <1>3, <1>4

LEMMA PushStep ==
  ASSUME IInv, NEW kind \in {"data", "base"}, NEW air \in Airs, Push(kind, air)
  PROVE  IInv'
<1> DEFINE b == NewBlock(seq + 1, kind, air)
<1>1. seq \in Nat /\ seq + 1 \in seq .. MaxSeq /\ seq + 1 \in 1 .. MaxSeq
  BY TypeFacts DEF IInv, Push
<1>2. b \in Block /\ b.kind = kind /\ b.seq = seq + 1
  BY <1>1 DEF NewBlock, Block, Kinds
<1>3. PushMcs(b)
  BY DEF Push
<1> HIDE DEF b
<1>4. /\ workerPc = "run" /\ seq' = seq + 1 /\ cached' \subseteq 1 .. seq'
      /\ again' = again /\ waiting' = waiting /\ senderPc' = senderPc /\ held' = held
      /\ link' = link /\ stop' = stop /\ cqIn' = cqIn /\ sent' = sent /\ freshSent' = freshSent
  BY <1>1 DEF IInv, TypeOK, Push, env, wire
<1>5. again' \in 0 .. MaxAgain
  BY <1>4 DEF IInv, TypeOK
<1>6. QED
  BY <1>1, <1>2, <1>3, <1>4, <1>5, PushMcsStep

LEMMA PushDupStep ==
  ASSUME IInv, NEW s \in cached, NEW air \in Airs, PushDup(s, air)
  PROVE  IInv'
<1> DEFINE b == NewBlock(s, "dup", air)
<1>1. seq \in Nat /\ s \in 1 .. seq /\ s \in 1 .. MaxSeq /\ s <= seq /\ seq \in seq .. MaxSeq
  BY TypeFacts DEF IInv, TypeOK
<1>2. b \in Block /\ b.kind = "dup" /\ b.seq = s
  BY <1>1 DEF NewBlock, Block, Kinds
<1>3. PushMcs(b)
  BY DEF PushDup
<1>4. ~IsFresh(b)
  BY <1>2 DEF IsFresh, Fresh
<1> HIDE DEF b
<1>5. /\ workerPc = "run" /\ seq' = seq /\ cached' = cached /\ again' = again + 1
      /\ waiting' = waiting /\ senderPc' = senderPc /\ held' = held
      /\ link' = link /\ stop' = stop /\ cqIn' = cqIn /\ sent' = sent /\ freshSent' = freshSent
  BY DEF PushDup, env, wire
<1>6. again' \in 0 .. MaxAgain /\ cached' \subseteq 1 .. seq'
  BY <1>5, ConvTxAssumption DEF IInv, TypeOK, PushDup
<1>7. QED
  BY <1>1, <1>2, <1>3, <1>4, <1>5, <1>6, PushMcsStep

LEMMA PushRetxStep ==
  ASSUME IInv, NEW s \in cached, NEW air \in Airs, PushRetx(s, air)
  PROVE  IInv'
<1> DEFINE b == NewBlock(s, "retx", air)
<1>1. /\ seq \in Nat /\ s \in 1 .. seq /\ s \in 1 .. MaxSeq /\ s <= seq
      /\ items \in Seq(Block) /\ Len(items) \in Nat /\ airUs \in Nat /\ air \in Nat
  <2>1. seq \in Nat /\ seq <= MaxSeq /\ MaxSeq \in Nat /\ s \in 1 .. seq
    BY TypeFacts DEF IInv, TypeOK
  <2>2. items \in Seq(Block) /\ Len(items) \in Nat /\ airUs \in Nat
    BY DEF IInv, TypeOK
  <2>3. air \in Nat
    BY AirsNat
  <2>4. QED
    BY <2>1, <2>2, <2>3
<1>2. b \in Block /\ b.kind = "retx" /\ b.seq = s /\ ~IsFresh(b)
  BY <1>1 DEF NewBlock, Block, Kinds, IsFresh, Fresh
<1>3. RetxAt = retxHead /\ RetxAt \in 0 .. Len(items)
  BY <1>1 DEF RetxAt, IInv, RetxAtHead, TypeOK
<1>4. /\ items' = InsertAt(items, RetxAt + 1, b) /\ retxHead' = RetxAt + 1
      /\ airUs' = airUs + air /\ workerPc = "run" /\ workerPc' = "notify"
      /\ again < MaxAgain /\ again' = again + 1
      /\ closed' = closed /\ seq' = seq /\ cached' = cached /\ waiting' = waiting
      /\ senderPc' = senderPc /\ held' = held /\ link' = link /\ stop' = stop
      /\ cqIn' = cqIn /\ cqDrop' = cqDrop /\ sent' = sent /\ freshSent' = freshSent
      /\ lost' = lost
  BY DEF PushRetx, env, wire
<1> HIDE DEF b
<1>5. /\ items' \in Seq(Block)
      /\ Len(items') = Len(items) + 1
      /\ \A i \in 1 .. retxHead : items'[i] = items[i]
      /\ items'[retxHead + 1] = b
      /\ \A i \in retxHead + 2 .. Len(items) + 1 : items'[i] = items[i - 1]
  <2>1. retxHead \in 0 .. Len(items) /\ items' = InsertAt(items, retxHead + 1, b)
    BY <1>3, <1>4
  <2>2. items \in Seq(Block) /\ b \in Block /\ retxHead \in 0 .. Len(items)
    BY <1>1, <1>2, <2>1
  <2>3. IsInserted(InsertAt(items, retxHead + 1, b), items, b, retxHead, Block)
    BY <2>2, InsertAtLemma, Zenon
  <2>4. IsInserted(items', items, b, retxHead, Block)
    BY <2>1, <2>3, Zenon
  <2>5. QED
    BY <2>4 DEF IsInserted
<1>6. waiting = None
  BY <1>4 DEF IInv, TypeOK
<1>7. TypeOK'
  <2>1. again' \in 0 .. MaxAgain /\ retxHead' \in Nat /\ airUs' \in Nat
    BY <1>1, <1>3, <1>4, ConvTxAssumption DEF IInv, TypeOK
  <2>2. QED
    BY <1>4, <1>5, <1>6, <2>1 DEF IInv, TypeOK, WorkerPcs
<1>8. RetxAtHead'
  <2>1. retxHead' = retxHead + 1 /\ retxHead \in Nat /\ retxHead <= Len(items)
    BY <1>3, <1>4
  <2>2. ASSUME NEW i \in 1 .. Len(items')
        PROVE  items'[i].kind = "retx" <=> i <= retxHead'
    <3>1. CASE i <= retxHead
      BY <1>1, <1>5, <2>1, <2>2, <3>1 DEF IInv, RetxAtHead
    <3>2. CASE i = retxHead + 1
      BY <1>2, <1>5, <2>1, <3>2
    <3>3. CASE i > retxHead + 1
      <4>1. i - 1 \in 1 .. Len(items) /\ items'[i] = items[i - 1] /\ ~(i - 1 <= retxHead)
        BY <1>1, <1>5, <2>1, <2>2, <3>3
      <4>2. QED
        BY <2>1, <4>1 DEF IInv, RetxAtHead
    <3>4. QED
      BY <2>1, <3>1, <3>2, <3>3
  <2>3. QED
    BY <1>1, <1>5, <2>1, <2>2 DEF RetxAtHead
<1>9. InOrder'
  <2> DEFINE old(i) == IF i <= retxHead THEN i ELSE i - 1
  <2>1. ASSUME NEW i \in 1 .. Len(items'), i # retxHead + 1
        PROVE  old(i) \in 1 .. Len(items) /\ items'[i] = items[old(i)]
    BY <1>1, <1>3, <1>5, <2>1
  <2>2. \A i \in 1 .. Len(items') : IsFresh(items'[i]) => i # retxHead + 1
    BY <1>2, <1>5
  <2>3. \A i, j \in 1 .. Len(items') :
          i < j /\ i # retxHead + 1 /\ j # retxHead + 1 => old(i) < old(j)
    BY <1>1, <1>3, <1>5
  <2> HIDE DEF old
  <2>4. QueueInOrder'
    <3>1. ASSUME NEW i \in 1 .. Len(items')
          PROVE  items'[i].seq <= seq' /\ (IsFresh(items'[i]) => freshSent' < items'[i].seq)
      <4>1. CASE i = retxHead + 1
        BY <1>1, <1>2, <1>4, <1>5, <2>2, <4>1
      <4>2. CASE i # retxHead + 1
        BY <1>4, <2>1, <4>2 DEF IInv, InOrder, QueueInOrder
      <4>3. QED
        BY <4>1, <4>2
    <3>2. ASSUME NEW i \in 1 .. Len(items'), NEW j \in 1 .. Len(items'), i < j,
                 IsFresh(items'[i]), IsFresh(items'[j])
          PROVE  items'[i].seq < items'[j].seq
      BY <2>1, <2>2, <2>3, <3>2 DEF IInv, InOrder, QueueInOrder
    <3>3. QED
      BY <3>1, <3>2 DEF QueueInOrder
  <2>5. HeldInOrder'
    BY <1>4, <2>1, <2>2 DEF IInv, InOrder, HeldInOrder
  <2>6. WaitingInOrder'
    BY <1>4, <1>6 DEF WaitingInOrder
  <2>7. QED
    BY <2>4, <2>5, <2>6 DEF InOrder
<1>10. Conserved'
  <2>1. Uncounted = 0 /\ Uncounted' = 1 /\ InHand' = InHand
    BY <1>4 DEF Uncounted, InHand
  <2>2. QED
    BY <1>4, <1>5, <2>1, ConservedByPush
<1>11. QED
  BY <1>7, <1>8, <1>9, <1>10 DEF IInv

LEMMA PushWaitStep ==
  ASSUME IInv, NEW air \in Airs, PushWait(air)
  PROVE  IInv'
<1>1. seq \in Nat /\ seq + 1 \in 0 .. MaxSeq /\ seq + 1 \in 1 .. MaxSeq /\ air \in Airs
  BY TypeFacts DEF IInv, PushWait
<1>2. /\ workerPc = "run" /\ workerPc' = "recheck"
      /\ seq' = seq + 1 /\ cached' = cached \cup {seq + 1}
      /\ waiting' = NewBlock(seq + 1, "camera", air)
      /\ items' = items /\ retxHead' = retxHead /\ airUs' = airUs /\ closed' = closed
      /\ again' = again /\ senderPc' = senderPc /\ held' = held
      /\ link' = link /\ stop' = stop
      /\ cqIn' = cqIn /\ cqDrop' = cqDrop /\ sent' = sent /\ freshSent' = freshSent
      /\ lost' = lost
  BY DEF PushWait, queue, env, wire
<1>3. waiting' \in Block /\ waiting' # None /\ waiting'.kind = "camera" /\ waiting'.seq = seq + 1
  BY <1>1, <1>2, ConvTxAssumption DEF NewBlock, Block, Kinds
<1>4. TypeOK'
  <2>1. cached' \subseteq 1 .. seq' /\ freshSent' \in 0 .. seq'
    BY <1>1, <1>2 DEF IInv, TypeOK
  <2>2. QED
    BY <1>1, <1>2, <1>3, <2>1 DEF IInv, TypeOK, WorkerPcs
<1>5. RetxAtHead'
  BY <1>2 DEF IInv, RetxAtHead
<1>6. InOrder'
  <2>1. QueueInOrder' /\ HeldInOrder'
    BY <1>1, <1>2, TypeFacts DEF IInv, InOrder, QueueInOrder, HeldInOrder, IsFresh
  <2>2. WaitingInOrder'
    <3>1. freshSent < seq + 1
      BY <1>1, TypeFacts DEF IInv
    <3>2. held # None /\ IsFresh(held) => held.seq < seq + 1
      BY <1>1, TypeFacts DEF IInv, InOrder, HeldInOrder
    <3>3. \A i \in 1 .. Len(items) : IsFresh(items[i]) => items[i].seq < seq + 1
      BY <1>1, TypeFacts DEF IInv, InOrder, QueueInOrder
    <3>4. QED
      BY <1>2, <1>3, <3>1, <3>2, <3>3 DEF WaitingInOrder, IsFresh
  <2>3. QED
    BY <2>1, <2>2 DEF InOrder
<1>7. Conserved'
  BY <1>2 DEF IInv, Conserved, InHand, Uncounted
<1>8. QED
  BY <1>4, <1>5, <1>6, <1>7 DEF IInv

\* The camera block leaves push_wait, with room or without.
LEMMA CameraPushed ==
  ASSUME IInv, workerPc \in {"recheck", "room"}, PushBack(waiting), waiting' = None,
         UNCHANGED <<senderPc, held, env, work, cqIn, cqDrop, wire, lost>>
  PROVE  IInv'
<1>1. waiting \in Block /\ waiting.kind = "camera" /\ waiting.seq = seq
  BY DEF IInv, TypeOK, InOrder, WaitingInOrder
<1>2. /\ senderPc' = senderPc /\ held' = held /\ link' = link /\ stop' = stop
      /\ seq' = seq /\ cached' = cached /\ again' = again /\ cqIn' = cqIn
      /\ cqDrop' = cqDrop /\ sent' = sent /\ freshSent' = freshSent /\ lost' = lost
      /\ workerPc' = "notify"
  BY DEF env, work, wire, PushBack
<1>3. /\ items' \in Seq(Block) /\ Len(items') = Len(items) + 1
      /\ airUs' \in Nat /\ retxHead' \in Nat /\ closed' \in BOOLEAN /\ RetxAtHead'
  BY <1>1, PushBackLemma
<1>4. TypeOK'
  BY <1>2, <1>3 DEF IInv, TypeOK, WorkerPcs
<1>5. InOrder'
  <2>1. seq' \in Nat /\ seq <= seq' /\ waiting.seq <= seq'
    BY <1>1, <1>2, TypeFacts DEF IInv
  <2>2. QED
    BY <1>1, <1>2, <2>1, OrderAfterPush
<1>6. Conserved'
  <2>1. Uncounted = 0 /\ Uncounted' = 1 /\ InHand' = InHand
    BY <1>2 DEF Uncounted, InHand
  <2>2. QED
    BY <1>2, <1>3, <2>1, ConservedByPush
<1>7. QED
  BY <1>3, <1>4, <1>5, <1>6 DEF IInv

LEMMA PushWaitRecheckStep == IInv /\ PushWaitRecheck => IInv'
<1> SUFFICES ASSUME IInv, PushWaitRecheck PROVE IInv'
  OBVIOUS
<1>1. CASE Full(waiting.air) /\ ~closed
  <2>1. /\ workerPc = "recheck" /\ workerPc' = "room" /\ waiting' = waiting
        /\ items' = items /\ retxHead' = retxHead /\ airUs' = airUs /\ closed' = closed
        /\ senderPc' = senderPc /\ held' = held /\ link' = link /\ stop' = stop
        /\ seq' = seq /\ cached' = cached /\ again' = again /\ cqIn' = cqIn
        /\ cqDrop' = cqDrop /\ sent' = sent /\ freshSent' = freshSent /\ lost' = lost
    BY <1>1 DEF PushWaitRecheck, queue, env, work, wire
  <2>2. TypeOK'
    BY <2>1 DEF IInv, TypeOK, WorkerPcs
  <2>3. RetxAtHead' /\ InOrder'
    BY <2>1, OrderKept, TypeFacts DEF IInv, RetxAtHead
  <2>4. Conserved'
    BY <2>1 DEF IInv, Conserved, InHand, Uncounted
  <2>5. QED
    BY <2>2, <2>3, <2>4 DEF IInv
<1>2. CASE ~(Full(waiting.air) /\ ~closed)
  BY <1>2, CameraPushed DEF PushWaitRecheck
<1>3. QED
  BY <1>1, <1>2

LEMMA PushWaitTimeoutStep == IInv /\ PushWaitTimeout => IInv'
BY CameraPushed DEF PushWaitTimeout

\* The steps that leave the queue and the block in each hand alone: only positions, the
\* environment and a count change.
LEMMA QuietStep ==
  ASSUME IInv, UNCHANGED <<queue, waiting, held, work, cqDrop, wire, lost>>,
         workerPc' \in WorkerPcs, senderPc' \in SenderPcs,
         workerPc' \in {"recheck", "room"} <=> workerPc \in {"recheck", "room"},
         senderPc' \in {"taken", "pacing"} <=> senderPc \in {"taken", "pacing"},
         link' \in {"up", "down", "udp"}, stop' \in BOOLEAN,
         cqIn' \in Nat, cqIn' + Uncounted' = cqIn + Uncounted
  PROVE  IInv'
<1>1. /\ items' = items /\ retxHead' = retxHead /\ airUs' = airUs /\ closed' = closed
      /\ waiting' = waiting /\ held' = held /\ seq' = seq /\ cached' = cached
      /\ again' = again /\ cqDrop' = cqDrop /\ sent' = sent /\ freshSent' = freshSent
      /\ lost' = lost
  BY DEF queue, work, wire
<1>2. TypeOK'
  BY <1>1 DEF IInv, TypeOK
<1>3. RetxAtHead'
  BY <1>1 DEF IInv, RetxAtHead
<1>4. InOrder'
  BY <1>1, OrderKept, TypeFacts DEF IInv
<1>5. Conserved'
  BY <1>1 DEF IInv, Conserved, InHand
<1>6. QED
  BY <1>2, <1>3, <1>4, <1>5 DEF IInv

LEMMA WokenFacts ==
  ASSUME TypeOK
  PROVE  /\ WokenSender \in SenderPcs
         /\ WokenSender \in {"taken", "pacing"} <=> senderPc \in {"taken", "pacing"}
         /\ WokenWorker \in WorkerPcs
         /\ WokenWorker \in {"recheck", "room"} <=> workerPc \in {"recheck", "room"}
         /\ WokenWorker = "notify" <=> workerPc = "notify"
BY DEF TypeOK, WokenSender, WokenWorker, SenderPcs, WorkerPcs

LEMMA NotifyReadyStep == IInv /\ NotifyReady => IInv'
<1> SUFFICES ASSUME IInv, NotifyReady PROVE IInv'
  OBVIOUS
<1>1. workerPc = "notify" /\ workerPc' = "run" /\ senderPc' = WokenSender /\ cqIn' = cqIn + 1
  BY DEF NotifyReady
<1>2. link' = link /\ stop' = stop /\ UNCHANGED <<queue, waiting, held, work, cqDrop, wire, lost>>
  BY DEF NotifyReady, env
<1>3. cqIn' \in Nat /\ cqIn' + Uncounted' = cqIn + Uncounted
  BY <1>1, NumberFacts DEF Uncounted
<1>4. workerPc' \in WorkerPcs /\ (workerPc' \in {"recheck", "room"} <=> workerPc \in {"recheck",
        "room"})
  BY <1>1 DEF WorkerPcs
<1>5. link' \in {"up", "down", "udp"} /\ stop' \in BOOLEAN
  BY <1>2 DEF IInv, TypeOK
<1>6. QED
  BY <1>1, <1>2, <1>3, <1>4, <1>5, QuietStep, WokenFacts DEF IInv

LEMMA CloseStep == IInv /\ Close => IInv'
<1> SUFFICES ASSUME IInv, Close PROVE IInv'
  OBVIOUS
<1>1. /\ workerPc = "run" /\ workerPc' = "closing" /\ closed' = TRUE
      /\ items' = items /\ retxHead' = retxHead /\ airUs' = airUs
      /\ waiting' = waiting /\ senderPc' = senderPc /\ held' = held
      /\ link' = link /\ stop' = stop /\ seq' = seq /\ cached' = cached /\ again' = again
      /\ cqIn' = cqIn /\ cqDrop' = cqDrop /\ sent' = sent /\ freshSent' = freshSent
      /\ lost' = lost
  BY DEF Close, env, work, wire
<1>2. TypeOK'
  BY <1>1 DEF IInv, TypeOK, WorkerPcs
<1>3. RetxAtHead' /\ InOrder'
  BY <1>1, OrderKept, TypeFacts DEF IInv, RetxAtHead
<1>4. Conserved'
  BY <1>1 DEF IInv, Conserved, InHand, Uncounted
<1>5. QED
  BY <1>2, <1>3, <1>4 DEF IInv

LEMMA NotifyClosedStep == IInv /\ NotifyClosed => IInv'
<1> SUFFICES ASSUME IInv, NotifyClosed PROVE IInv'
  OBVIOUS
<1>1. workerPc = "closing" /\ workerPc' = "gone" /\ senderPc' = WokenSender /\ cqIn' = cqIn
  BY DEF NotifyClosed
<1>2. link' = link /\ stop' = stop /\ UNCHANGED <<queue, waiting, held, work, cqDrop, wire, lost>>
  BY DEF NotifyClosed, env
<1>3. cqIn' \in Nat /\ cqIn' + Uncounted' = cqIn + Uncounted
  BY <1>1, NumberFacts DEF Uncounted
<1>4. workerPc' \in WorkerPcs /\ (workerPc' \in {"recheck", "room"} <=> workerPc \in {"recheck",
        "room"})
  BY <1>1 DEF WorkerPcs
<1>5. link' \in {"up", "down", "udp"} /\ stop' \in BOOLEAN
  BY <1>2 DEF IInv, TypeOK
<1>6. QED
  BY <1>1, <1>2, <1>3, <1>4, <1>5, QuietStep, WokenFacts DEF IInv

LEMMA SleepOrEndStep == IInv /\ SleepOrEnd => IInv'
<1> SUFFICES ASSUME IInv, SleepOrEnd PROVE IInv'
  OBVIOUS
<1>1. senderPc = "idle" /\ senderPc' \in {"done", "asleep"} /\ workerPc' = workerPc /\ cqIn' = cqIn
  BY DEF SleepOrEnd
<1>2. link' = link /\ stop' = stop /\ UNCHANGED <<queue, waiting, held, work, cqDrop, wire, lost>>
  BY DEF SleepOrEnd, env
<1>3. cqIn' \in Nat /\ cqIn' + Uncounted' = cqIn + Uncounted
  BY <1>1, NumberFacts DEF Uncounted
<1>4. senderPc' \in SenderPcs /\ (senderPc' \in {"taken", "pacing"} <=> senderPc \in {"taken",
        "pacing"})
  BY <1>1 DEF SenderPcs
<1>5. /\ link' \in {"up", "down", "udp"} /\ stop' \in BOOLEAN /\ workerPc' \in WorkerPcs
      /\ workerPc' \in {"recheck", "room"} <=> workerPc \in {"recheck", "room"}
  BY <1>1, <1>2 DEF IInv, TypeOK
<1>6. QED
  BY <1>1, <1>2, <1>3, <1>4, <1>5, QuietStep

LEMMA EnvStep ==
  ASSUME IInv, \/ \E l \in {"up", "down", "udp"} : LinkChanges(l)
               \/ Stop
  PROVE  IInv'
<1>1. /\ workerPc' = workerPc /\ senderPc' = senderPc /\ cqIn' = cqIn
      /\ UNCHANGED <<queue, waiting, held, work, cqDrop, wire, lost>>
  BY DEF LinkChanges, Stop
<1>2. link' \in {"up", "down", "udp"} /\ stop' \in BOOLEAN
  BY DEF LinkChanges, Stop, IInv, TypeOK
<1>3. cqIn' \in Nat /\ cqIn' + Uncounted' = cqIn + Uncounted
  BY <1>1, NumberFacts DEF Uncounted
<1>4. workerPc' \in WorkerPcs /\ senderPc' \in SenderPcs
  BY <1>1 DEF IInv, TypeOK
<1>5. QED
  BY <1>1, <1>2, <1>3, <1>4, QuietStep

\* The sender takes the head: the orders of the queue become those of the block in hand.
LEMMA TakeStep == IInv /\ Take => IInv'
<1> SUFFICES ASSUME IInv, Take PROVE IInv'
  OBVIOUS
<1>1. /\ senderPc = "idle" /\ senderPc' = "taken" /\ items # <<>>
      /\ held' = Head(items) /\ items' = Tail(items)
      /\ retxHead' = RetxHeadAfterTake /\ airUs' = AirAfterTake /\ closed' = closed
      /\ workerPc' = workerPc /\ waiting' = waiting /\ link' = link /\ stop' = stop
      /\ seq' = seq /\ cached' = cached /\ again' = again
      /\ cqIn' = cqIn /\ cqDrop' = cqDrop /\ sent' = sent /\ freshSent' = freshSent
      /\ lost' = lost
  BY DEF Take, env, work, wire
<1>2. /\ held' = items[1] /\ held' \in Block /\ held' # None /\ Len(items) >= 1
      /\ items' \in Seq(Block) /\ Len(items') = Len(items) - 1 /\ Len(items) \in Nat
      /\ \A i \in 1 .. Len(items') : items'[i] = items[i + 1]
  <2>1. items \in Seq(Block) /\ items # <<>>
    BY <1>1 DEF IInv, TypeOK
  <2>2. held' = items[1] /\ held' \in Block /\ Len(items) >= 1 /\ Len(items) \in Nat
    BY <1>1, <2>1
  <2>3. /\ items' \in Seq(Block) /\ Len(items') = Len(items) - 1
        /\ \A i \in 1 .. Len(items') : items'[i] = items[i + 1]
    BY <1>1, <2>1
  <2>4. QED
    BY <2>2, <2>3, ConvTxAssumption
<1>3. held = None /\ senderPc' \in SenderPcs
  BY <1>1 DEF IInv, TypeOK, SenderPcs
<1>4. TypeOK'
  <2>1. airUs' \in Nat
    <3>1. items[1].air \in Nat /\ Head(items) = items[1] /\ airUs \in Nat
      BY <1>1, <1>2, TypeFacts DEF IInv, TypeOK
    <3>2. QED
      BY <1>1, <3>1 DEF AirAfterTake, Saturate
  <2>2. retxHead' \in Nat
    BY <1>1 DEF RetxHeadAfterTake, Saturate, IInv, TypeOK
  <2>3. QED
    BY <1>1, <1>2, <1>3, <2>1, <2>2 DEF IInv, TypeOK
<1>5. RetxAtHead'
  <2>1. retxHead \in Nat /\ retxHead <= Len(items)
    BY DEF IInv, TypeOK, RetxAtHead
  <2>2. CASE retxHead = 0
    <3>1. retxHead' = 0
      BY <1>1, <2>2 DEF RetxHeadAfterTake, Saturate
    <3>2. QED
      BY <1>2, <2>2, <3>1 DEF IInv, RetxAtHead
  <2>3. CASE retxHead > 0
    <3>1. retxHead' = retxHead - 1
      BY <1>1, <2>1, <2>3 DEF RetxHeadAfterTake, Saturate
    <3>2. QED
      BY <1>2, <2>1, <3>1 DEF IInv, RetxAtHead
  <2>4. QED
    BY <2>1, <2>2, <2>3
<1>6. InOrder'
  <2>1. QueueInOrder'
    BY <1>1, <1>2, TypeFacts DEF IInv, InOrder, QueueInOrder
  <2>2. HeldInOrder'
    BY <1>1, <1>2, TypeFacts DEF IInv, InOrder, QueueInOrder, HeldInOrder
  <2>3. WaitingInOrder'
    <3>1. SUFFICES ASSUME waiting # None
          PROVE  /\ waiting.kind = "camera" /\ waiting.seq = seq /\ freshSent < seq
                 /\ held' # None /\ IsFresh(held') => held'.seq < seq
                 /\ \A i \in 1 .. Len(items') : IsFresh(items'[i]) => items'[i].seq < seq
      BY <1>1 DEF WaitingInOrder
    <3>2. /\ waiting.kind = "camera" /\ waiting.seq = seq /\ freshSent < seq
          /\ \A i \in 1 .. Len(items) : IsFresh(items[i]) => items[i].seq < seq
      BY <3>1 DEF IInv, InOrder, WaitingInOrder
    <3>3. QED
      BY <1>2, <3>2
  <2>4. QED
    BY <2>1, <2>2, <2>3 DEF InOrder
<1>7. Conserved'
  <2>1. InHand = 0 /\ InHand' = 1 /\ Uncounted' = Uncounted
    BY <1>1, <1>2, <1>3 DEF InHand, Uncounted
  <2>2. /\ Len(items') + 1 = Len(items) + 0 /\ Len(items') \in Nat
    BY <1>2
  <2>3. cqIn + Uncounted = Len(items') + 1 + sent + lost["uncarried"] + lost["stopped"]
    BY <1>3, <2>1, <2>2, NumberFacts DEF Conserved
  <2>4. QED
    BY <1>1, <2>1, <2>3, NumberFacts DEF Conserved
<1>8. QED
  BY <1>4, <1>5, <1>6, <1>7 DEF IInv

\* The block leaves the sender's hand, written or lost for one reason.
LEMMA HandEmptied ==
  ASSUME IInv, held # None, held' = None,
         senderPc' \in SenderPcs \ {"taken", "pacing"},
         workerPc' \in WorkerPcs,
         workerPc' \in {"recheck", "room"} <=> workerPc \in {"recheck", "room"},
         workerPc' = "notify" <=> workerPc = "notify",
         link' \in {"up", "down", "udp"}, stop' = stop,
         UNCHANGED <<queue, waiting, work, cqIn, cqDrop>>,
         \/ /\ sent' = sent + 1 /\ lost' = lost
            /\ freshSent' = IF IsFresh(held) THEN held.seq ELSE freshSent
         \/ /\ UNCHANGED wire
            /\ Lose("uncarried") \/ Lose("stopped")
  PROVE  IInv'
<1>1. /\ items' = items /\ retxHead' = retxHead /\ airUs' = airUs /\ closed' = closed
      /\ waiting' = waiting /\ seq' = seq /\ cached' = cached /\ again' = again
      /\ cqIn' = cqIn /\ cqDrop' = cqDrop
  BY DEF queue, work
<1>2. lost \in [Reasons -> Nat] /\ {"uncarried", "stopped", "full"} = Reasons
  BY DEF IInv, TypeOK, Reasons
<1>3. /\ sent' \in Nat /\ lost' \in [Reasons -> Nat]
      /\ lost'["full"] = lost["full"]
      /\ sent' + lost'["uncarried"] + lost'["stopped"]
           = sent + lost["uncarried"] + lost["stopped"] + 1
  <2>1. CASE sent' = sent + 1 /\ lost' = lost
    <3>1. PICK a \in Nat, b \in Nat, c \in Nat :
                 a = sent /\ b = lost["uncarried"] /\ c = lost["stopped"]
      BY NumberFacts
    <3>2. (a + 1) + b + c = a + b + c + 1
      OBVIOUS
    <3>3. sent' = a + 1 /\ lost' \in [Reasons -> Nat] /\ sent' \in Nat
      BY <1>2, <2>1, <3>1
    <3>4. QED
      BY <2>1, <3>1, <3>2, <3>3
  <2>2. CASE UNCHANGED wire /\ Lose("uncarried")
    <3>1. /\ lost' \in [Reasons -> Nat] /\ lost'["uncarried"] = lost["uncarried"] + 1
          /\ lost'["stopped"] = lost["stopped"] /\ lost'["full"] = lost["full"]
      BY <1>2, <2>2, LoseLemma
    <3>2. sent' = sent /\ sent \in Nat /\ lost["uncarried"] \in Nat /\ lost["stopped"] \in Nat
      BY <2>2, NumberFacts DEF wire
    <3>3. QED
      BY <3>1, <3>2
  <2>3. CASE UNCHANGED wire /\ Lose("stopped")
    <3>1. /\ lost' \in [Reasons -> Nat] /\ lost'["stopped"] = lost["stopped"] + 1
          /\ lost'["uncarried"] = lost["uncarried"] /\ lost'["full"] = lost["full"]
      BY <1>2, <2>3, LoseLemma
    <3>2. sent' = sent /\ sent \in Nat /\ lost["uncarried"] \in Nat /\ lost["stopped"] \in Nat
      BY <2>3, NumberFacts DEF wire
    <3>3. QED
      BY <3>1, <3>2
  <2>4. QED
    BY <2>1, <2>2, <2>3
<1>4. /\ freshSent' \in Nat /\ freshSent <= freshSent' /\ freshSent' <= seq
      /\ freshSent' # freshSent => freshSent' = held.seq /\ IsFresh(held)
  <2>1. freshSent' = freshSent \/ (freshSent' = held.seq /\ IsFresh(held))
    BY DEF wire
  <2>2. freshSent \in Nat /\ freshSent <= seq
    BY TypeFacts DEF IInv
  <2>3. IsFresh(held) => held.seq \in Nat /\ freshSent < held.seq /\ held.seq <= seq
    BY TypeFacts DEF IInv, InOrder, HeldInOrder
  <2>4. QED
    BY <2>1, <2>2, <2>3
<1>5. TypeOK'
  <2>1. freshSent' \in 0 .. seq'
    BY <1>1, <1>4, TypeFacts DEF IInv
  <2>2. QED
    BY <1>1, <1>3, <2>1 DEF IInv, TypeOK
<1>6. RetxAtHead'
  BY <1>1 DEF IInv, RetxAtHead
<1>7. InOrder'
  <2>1. QueueInOrder'
    BY <1>1, <1>4, TypeFacts DEF IInv, InOrder, QueueInOrder, HeldInOrder
  <2>2. HeldInOrder'
    BY DEF HeldInOrder
  <2>3. WaitingInOrder'
    BY <1>1, <1>4, TypeFacts DEF IInv, InOrder, WaitingInOrder
  <2>4. QED
    BY <2>1, <2>2, <2>3 DEF InOrder
<1>8. Conserved'
  <2>1. InHand = 1 /\ InHand' = 0 /\ Uncounted' = Uncounted
    BY DEF InHand, Uncounted
  <2> DEFINE a == lost["uncarried"]
             b == lost["stopped"]
             x == lost'["uncarried"]
             y == lost'["stopped"]
             n == Len(items)
  <2>2. a \in Nat /\ b \in Nat /\ x \in Nat /\ y \in Nat /\ n \in Nat /\ sent \in Nat
    BY <1>2, <1>3, NumberFacts
  <2>3. cqIn + Uncounted = n + 1 + sent + a + b /\ cqIn \in Nat /\ Uncounted \in {0, 1}
    BY <2>1, NumberFacts DEF Conserved
  <2>4. sent' + x + y = sent + a + b + 1 /\ sent' \in Nat
    BY <1>3
  <2> HIDE DEF a, b, x, y, n
  <2>5. cqIn + Uncounted = n + 0 + sent' + x + y
    <3>1. n + 1 + sent + a + b = n + (sent + a + b + 1)
      BY <2>2
    <3>2. n + 0 + sent' + x + y = n + (sent' + x + y)
      BY <2>2, <2>4
    <3>3. QED
      BY <2>3, <2>4, <3>1, <3>2
  <2>6. QED
    BY <1>1, <1>3, <2>1, <2>5, NumberFacts DEF Conserved, a, b, x, y, n
<1>9. QED
  BY <1>5, <1>6, <1>7, <1>8 DEF IInv

LEMMA NotifyRoomStep == IInv /\ NotifyRoom => IInv'
<1> SUFFICES ASSUME IInv, NotifyRoom PROVE IInv'
  OBVIOUS
<1>1. /\ senderPc = "taken" /\ held # None /\ workerPc' = WokenWorker
      /\ link' = link /\ stop' = stop /\ UNCHANGED <<queue, waiting, work, cqIn, cqDrop, wire>>
  BY DEF NotifyRoom, env, IInv, TypeOK
<1>2. /\ workerPc' \in WorkerPcs
      /\ workerPc' \in {"recheck", "room"} <=> workerPc \in {"recheck", "room"}
      /\ workerPc' = "notify" <=> workerPc = "notify"
  BY <1>1, WokenFacts DEF IInv
<1>3. link' \in {"up", "down", "udp"} /\ stop' \in BOOLEAN
  BY <1>1 DEF IInv, TypeOK
<1>4. CASE stop
  <2>1. senderPc' = "done" /\ held' = None /\ Lose("stopped")
    BY <1>4 DEF NotifyRoom, StopLoses
  <2>2. QED
    BY <1>1, <1>2, <1>3, <2>1, HandEmptied DEF SenderPcs
<1>5. CASE ~stop
  <2>1. senderPc' = "pacing" /\ held' = held /\ lost' = lost
    BY <1>5 DEF NotifyRoom
  <2>2. cqIn' \in Nat /\ cqIn' + Uncounted' = cqIn + Uncounted
    BY <1>1, <1>2, NumberFacts DEF Uncounted
  <2>3. QED
    BY <1>1, <1>2, <1>3, <2>1, <2>2, QuietStep DEF SenderPcs
<1>6. QED
  BY <1>4, <1>5

LEMMA SendPacedStep == IInv /\ SendPaced => IInv'
<1> SUFFICES ASSUME IInv, SendPaced PROVE IInv'
  OBVIOUS
<1>1. /\ senderPc = "pacing" /\ held # None /\ senderPc' = "idle" /\ held' = None
      /\ workerPc' = workerPc /\ stop' = stop
      /\ UNCHANGED <<queue, waiting, work, cqIn, cqDrop>>
  BY DEF SendPaced, IInv, TypeOK
<1>2. workerPc' \in WorkerPcs
  BY <1>1 DEF IInv, TypeOK
<1>3. senderPc' \in SenderPcs \ {"taken", "pacing"}
  BY <1>1 DEF SenderPcs
<1>4. CASE /\ link = "up" /\ sent' = sent + 1
           /\ freshSent' = IF held.kind \in Fresh THEN held.seq ELSE freshSent
           /\ UNCHANGED <<link, lost>>
  BY <1>1, <1>2, <1>3, <1>4, HandEmptied DEF IsFresh
<1>5. CASE link' \in {"down", "udp"} /\ Lose("uncarried") /\ UNCHANGED wire
  BY <1>1, <1>2, <1>3, <1>5, HandEmptied
<1>6. QED
  BY <1>4, <1>5 DEF SendPaced

LEMMA NextIInv == IInv /\ [Next]_vars => IInv'
<1> SUFFICES ASSUME IInv, [Next]_vars PROVE IInv'
  OBVIOUS
<1>1. CASE Worker
  BY <1>1, PushStep, PushDupStep, PushRetxStep, PushWaitStep, PushWaitRecheckStep,
     PushWaitTimeoutStep, NotifyReadyStep, CloseStep, NotifyClosedStep DEF Worker
<1>2. CASE Sender
  BY <1>2, TakeStep, SleepOrEndStep, NotifyRoomStep, SendPacedStep DEF Sender
<1>3. CASE (\E l \in {"up", "down", "udp"} : LinkChanges(l)) \/ Stop
  BY <1>3, EnvStep
<1>4. CASE UNCHANGED vars
  <2>1. /\ UNCHANGED <<queue, waiting, held, work, cqDrop, wire, lost>>
        /\ workerPc' = workerPc /\ senderPc' = senderPc /\ cqIn' = cqIn
        /\ link' = link /\ stop' = stop
    BY <1>4 DEF vars, env
  <2>2. /\ workerPc' \in WorkerPcs /\ senderPc' \in SenderPcs
        /\ link' \in {"up", "down", "udp"} /\ stop' \in BOOLEAN
    BY <2>1 DEF IInv, TypeOK
  <2>3. cqIn' \in Nat /\ cqIn' + Uncounted' = cqIn + Uncounted
    BY <2>1, NumberFacts DEF Uncounted
  <2>4. QED
    BY <2>1, <2>2, <2>3, QuietStep
<1>5. QED
  BY <1>1, <1>2, <1>3, <1>4 DEF Next

THEOREM Inductive == Spec => []IInv
<1>1. Init => IInv
  BY InitIInv
<1>2. IInv /\ [Next]_vars => IInv'
  BY NextIInv
<1>3. QED
  BY <1>1, <1>2, PTL DEF Spec

-----------------------------------------------------------------------------
(* The results.                                                            *)

\* Every variable keeps its type, and a block is in a thread's hand exactly while that
\* thread is between the two calls that bound its possession (push_wait; the sender's
\* loop from pop_front to Net::send).
THEOREM TypeCorrect == Spec => []TypeOK
<1>1. IInv => TypeOK
  BY DEF IInv
<1>2. QED
  BY <1>1, Inductive, PTL

\* No interleaving of push, push_retx, push_wait, the sender's loop and Drop loses a
\* block or counts one twice: CQ_IN and CQ_DROP account for every block.
THEOREM NoBlockUnaccounted == Spec => []Conserved
<1>1. IInv => Conserved
  BY DEF IInv
<1>2. QED
  BY <1>1, Inductive, PTL

\* push_retx inserts at retx_head and the sender takes one off it: the retransmissions
\* stay exactly the first retx_head blocks, so that no ordinary block is taken while one
\* of them waits.
THEOREM RetxOvertakes == Spec => RetxFirst
<1>1. ASSUME IInv, [Next]_vars, held = None, held' # None, held'.kind # "retx"
      PROVE  \A i \in DOMAIN items : items[i].kind # "retx"
  <2>1. Take
    <3>1. CASE Worker
      BY <1>1, <3>1 DEF Worker, Push, PushDup, PushRetx, PushWait, PushWaitRecheck,
         PushWaitTimeout, NotifyReady, Close, NotifyClosed
    <3>2. CASE SleepOrEnd \/ SendPaced
      BY <1>1, <3>2 DEF SleepOrEnd, SendPaced
    <3>3. CASE NotifyRoom
      BY <1>1, <3>3 DEF NotifyRoom
    <3>4. CASE (\E l \in {"up", "down", "udp"} : LinkChanges(l)) \/ Stop \/ UNCHANGED vars
      BY <1>1, <3>4 DEF LinkChanges, Stop, vars
    <3>5. QED
      BY <1>1, <3>1, <3>2, <3>3, <3>4 DEF Next, Sender
  <2>2. held' = items[1] /\ Len(items) >= 1 /\ Len(items) \in Nat /\ DOMAIN items = 1 .. Len(items)
    BY <1>1, <2>1 DEF Take, IInv, TypeOK
  <2>3. ~(1 <= retxHead) /\ retxHead \in Nat
    BY <1>1, <2>2 DEF IInv, TypeOK, RetxAtHead
  <2>4. QED
    BY <1>1, <2>2, <2>3 DEF IInv, RetxAtHead
<1>2. IInv /\ [Next]_vars =>
        [held = None /\ held' # None /\ held'.kind # "retx"
           => \A i \in DOMAIN items : items[i].kind # "retx"]_vars
  BY <1>1
<1>3. QED
  BY <1>2, Inductive, PTL DEF Spec, RetxFirst

\* The blocks sent for the first time reach the socket in the order of their sequence
\* numbers, each once, whatever overtakes them.
THEOREM FirstTimeInOrder == Spec => WireInOrder
<1>1. ASSUME IInv, [Next]_vars, sent' # sent, held.kind \in Fresh
      PROVE  held.seq > freshSent
  <2>1. SendPaced
    <3>1. CASE Worker
      BY <1>1, <3>1 DEF Worker, Push, PushDup, PushRetx, PushWait, PushWaitRecheck,
         PushWaitTimeout, NotifyReady, Close, NotifyClosed, wire
    <3>2. CASE Take \/ SleepOrEnd \/ NotifyRoom
      BY <1>1, <3>2 DEF Take, SleepOrEnd, NotifyRoom, wire
    <3>3. CASE (\E l \in {"up", "down", "udp"} : LinkChanges(l)) \/ Stop \/ UNCHANGED vars
      BY <1>1, <3>3 DEF LinkChanges, Stop, vars, wire
    <3>4. QED
      BY <1>1, <3>1, <3>2, <3>3 DEF Next, Sender
  <2>2. held # None
    BY <1>1, <2>1 DEF SendPaced, IInv, TypeOK
  <2>3. freshSent < held.seq /\ freshSent \in Nat /\ held.seq \in Nat
    BY <1>1, <2>2, TypeFacts DEF IInv, InOrder, HeldInOrder, IsFresh
  <2>4. QED
    BY <2>3
<1>2. IInv /\ [Next]_vars =>
        [sent' # sent /\ held.kind \in Fresh => held.seq > freshSent]_vars
  BY <1>1
<1>3. QED
  BY <1>2, Inductive, PTL DEF Spec, WireInOrder

-----------------------------------------------------------------------------
(* The air time in the queue.                                              *)

Weights(q, kinds) == [i \in DOMAIN q |-> IF q[i].kind \in kinds THEN q[i].air ELSE 0]

\* Each block counts with its air or not at all.
LEMMA WeightsLemma ==
  ASSUME NEW q \in Seq(Block), NEW kinds
  PROVE  /\ Weights(q, kinds) \in Seq(Nat) /\ Len(Weights(q, kinds)) = Len(q)
         /\ \A i \in 1 .. Len(q) : Weights(q, kinds)[i] = IF q[i].kind \in kinds
            THEN q[i].air ELSE 0
         /\ TotalAir(q, kinds) = SumOf(Weights(q, kinds)) /\ TotalAir(q, kinds) \in Nat
<1>1. Len(q) \in Nat /\ DOMAIN q = 1 .. Len(q) /\ \A i \in 1 .. Len(q) : q[i].air \in Nat
  <2>1. \A i \in 1 .. Len(q) : q[i] \in Block OBVIOUS
  <2>2. \A i \in 1 .. Len(q) : q[i].air \in Airs BY <2>1 DEF Block
  <2>3. \A i \in 1 .. Len(q) : q[i].air \in Nat BY <2>2, AirsNat
  <2>4. Len(q) \in Nat /\ DOMAIN q = 1 .. Len(q) OBVIOUS
  <2>5. QED BY <2>3, <2>4
<1>2. Weights(q, kinds) \in [1 .. Len(q) -> Nat] BY <1>1 DEF Weights
<1>3. Weights(q, kinds) \in Seq(Nat) /\ Len(Weights(q, kinds)) = Len(q) BY <1>1, <1>2
<1>4. TotalAir(q, kinds) = SumOf(Weights(q, kinds)) BY DEF TotalAir, Weights
<1>5. TotalAir(q, kinds) \in Nat BY <1>3, <1>4, SumNat
<1>6. \A i \in 1 .. Len(q) : Weights(q, kinds)[i] = IF q[i].kind \in kinds THEN q[i].air ELSE 0
  BY <1>1 DEF Weights
<1>7. QED BY <1>3, <1>4, <1>5, <1>6

\* A block more adds its air, wherever it stands.
LEMMA InsertedAir ==
  ASSUME NEW s \in Seq(Block), NEW e \in Block, NEW n \in 0 .. Len(s), NEW t,
         IsInserted(t, s, e, n, Block), NEW kinds
  PROVE  TotalAir(t, kinds) = TotalAir(s, kinds) + (IF e.kind \in kinds THEN e.air ELSE 0)
<1> DEFINE a == IF e.kind \in kinds THEN e.air ELSE 0
           u == Weights(s, kinds)
           v == Weights(t, kinds)
<1>1. t \in Seq(Block) /\ Len(t) = Len(s) + 1 /\ Len(s) \in Nat /\ n \in Nat /\ n <= Len(s)
  BY DEF IsInserted
<1>2. /\ u \in Seq(Nat) /\ Len(u) = Len(s) /\ TotalAir(s, kinds) = SumOf(u)
      /\ \A i \in 1 .. Len(s) : u[i] = IF s[i].kind \in kinds THEN s[i].air ELSE 0
  BY WeightsLemma
<1>3. /\ v \in Seq(Nat) /\ Len(v) = Len(t) /\ TotalAir(t, kinds) = SumOf(v)
      /\ \A i \in 1 .. Len(t) : v[i] = IF t[i].kind \in kinds THEN t[i].air ELSE 0
  BY <1>1, WeightsLemma
<1>4. a \in Nat
  <2>1. e.air \in Airs BY DEF Block
  <2>2. QED BY <2>1, AirsNat
<1> HIDE DEF u, v
<1>5. \A i \in 1 .. n : v[i] = u[i]
  <2> SUFFICES ASSUME NEW i \in 1 .. n PROVE v[i] = u[i] OBVIOUS
  <2>1. i \in 1 .. Len(s) /\ i \in 1 .. Len(t) BY <1>1
  <2>2. t[i] = s[i] BY DEF IsInserted
  <2>3. QED BY <1>2, <1>3, <2>1, <2>2
<1>6. v[n + 1] = a
  <2>1. n + 1 \in 1 .. Len(t) BY <1>1
  <2>2. t[n + 1] = e BY DEF IsInserted
  <2>3. QED BY <1>3, <2>1, <2>2
<1>7. \A i \in n + 2 .. Len(u) + 1 : v[i] = u[i - 1]
  <2> SUFFICES ASSUME NEW i \in n + 2 .. Len(s) + 1 PROVE v[i] = u[i - 1] BY <1>2
  <2>1. i - 1 \in 1 .. Len(s) /\ i \in 1 .. Len(t) BY <1>1
  <2>2. t[i] = s[i - 1] BY DEF IsInserted
  <2>3. QED BY <1>2, <1>3, <2>1, <2>2
<1>8. IsInserted(v, u, a, n, Nat) BY <1>1, <1>2, <1>3, <1>5, <1>6, <1>7 DEF IsInserted
<1>9. n \in 0 .. Len(u) BY <1>2
<1> HIDE DEF a
<1>10. SumOf(v) = SumOf(u) + a BY <1>2, <1>4, <1>8, <1>9, SumOfInserted
<1>11. QED BY <1>2, <1>3, <1>10 DEF a

\* Fewer kinds take no more air.
LEMMA FewerKinds ==
  ASSUME NEW q \in Seq(Block), NEW many, NEW few \in SUBSET many
  PROVE  TotalAir(q, few) <= TotalAir(q, many)
<1> DEFINE u == Weights(q, few)
           v == Weights(q, many)
<1>1. /\ u \in Seq(Nat) /\ Len(u) = Len(q) /\ TotalAir(q, few) = SumOf(u)
      /\ \A i \in 1 .. Len(q) : u[i] = IF q[i].kind \in few THEN q[i].air ELSE 0
  BY WeightsLemma
<1>2. /\ v \in Seq(Nat) /\ Len(v) = Len(q) /\ TotalAir(q, many) = SumOf(v)
      /\ \A i \in 1 .. Len(q) : v[i] = IF q[i].kind \in many THEN q[i].air ELSE 0
  BY WeightsLemma
<1> HIDE DEF u, v
<1>3. \A i \in 1 .. Len(u) : u[i] <= v[i]
  <2> SUFFICES ASSUME NEW i \in 1 .. Len(q) PROVE u[i] <= v[i] BY <1>1
  <2>1. q[i] \in Block OBVIOUS
  <2>2. q[i].air \in Airs BY <2>1 DEF Block
  <2>3. q[i].air \in Nat BY <2>2, AirsNat
  <2>4. u[i] = IF q[i].kind \in few THEN q[i].air ELSE 0 BY <1>1
  <2>5. v[i] = IF q[i].kind \in many THEN q[i].air ELSE 0 BY <1>2
  <2>6. CASE q[i].kind \in few
    <3>1. u[i] = q[i].air /\ v[i] = q[i].air BY <2>4, <2>5, <2>6
    <3>2. QED BY <2>3, <3>1
  <2>7. CASE q[i].kind \notin few
    <3>1. u[i] = 0 /\ v[i] \in Nat BY <2>3, <2>4, <2>5, <2>7
    <3>2. QED BY <3>1
  <2>8. QED BY <2>6, <2>7
<1>4. QED BY <1>1, <1>2, <1>3, SumMonotone

\* The queue without its head.
LEMMA HeadInserted ==
  ASSUME NEW q \in Seq(Block), q # <<>>
  PROVE  /\ Tail(q) \in Seq(Block) /\ Head(q) \in Block
         /\ IsInserted(q, Tail(q), Head(q), 0, Block)
<1>1. /\ Tail(q) \in Seq(Block) /\ Head(q) \in Block /\ Len(Tail(q)) = Len(q) - 1
      /\ Head(q) = q[1] /\ Len(q) \in Nat /\ Len(q) # 0
      /\ \A i \in 1 .. Len(Tail(q)) : Tail(q)[i] = q[i + 1]
  BY HeadTailProperties, EmptySeq
<1>2. Len(q) = Len(Tail(q)) + 1 BY <1>1
<1>3. ASSUME NEW i \in 0 + 2 .. Len(Tail(q)) + 1 PROVE q[i] = Tail(q)[i - 1]
  <2>1. i - 1 \in 1 .. Len(Tail(q)) /\ (i - 1) + 1 = i BY <1>1
  <2>2. QED BY <1>1, <2>1
<1>4. q[0 + 1] = Head(q) BY <1>1
<1>5. \A i \in 1 .. 0 : q[i] = Tail(q)[i] OBVIOUS
<1>6. QED BY <1>1, <1>2, <1>3, <1>4, <1>5 DEF IsInserted

\* A queue whose account is empty is empty: every block takes air.
LEMMA NoAirNoBlocks ==
  ASSUME NEW q \in Seq(Block), TotalAir(q, Kinds) = 0
  PROVE  q = <<>>
<1> SUFFICES ASSUME q # <<>> PROVE FALSE OBVIOUS
<1>1. PICK t \in Seq(Block), e \in Block : IsInserted(q, t, e, 0, Block)
  BY HeadInserted
<1>2. 0 \in 0 .. Len(t) OBVIOUS
<1>3. e.kind \in Kinds /\ e.air \in Airs BY DEF Block
<1>4. \A kinds : TotalAir(q, kinds) = TotalAir(t, kinds) + (IF e.kind \in kinds THEN e.air ELSE 0)
  BY <1>1, <1>2, InsertedAir
<1>5. TotalAir(t, Kinds) \in Nat BY WeightsLemma
<1>6. e.air \in Nat \ {0} BY <1>3, ConvTxAssumption
<1>7. QED BY <1>3, <1>4, <1>5, <1>6

\* The account of the queue is the air of the blocks in it.
AirInv == airUs = TotalAir(items, Kinds) /\ AirBounded

\* Nothing waits at first.
LEMMA InitAirInv == Init => AirInv
<1> SUFFICES ASSUME Init PROVE AirInv OBVIOUS
<1>1. items = <<>> /\ airUs = 0 BY DEF Init
<1>2. \A kinds : TotalAir(items, kinds) = 0
  <2> SUFFICES ASSUME NEW kinds PROVE TotalAir(items, kinds) = 0 OBVIOUS
  <2>1. items \in Seq(Block) /\ Len(items) = 0 BY <1>1
  <2>2. /\ Weights(items, kinds) \in Seq(Nat) /\ Len(Weights(items, kinds)) = 0
        /\ TotalAir(items, kinds) = SumOf(Weights(items, kinds))
    BY <2>1, WeightsLemma
  <2>3. QED BY <2>2, SumOfIs
<1>3. TotalAir(items, Droppable) <= CQ_MAX_AIR_US BY <1>2, ConvTxAssumption
<1>4. QED BY <1>1, <1>2, <1>3 DEF AirInv, AirBounded

\* A block pushed at the back: one that may be dropped was let in by the test of push_mcs.
LEMMA PushBackAir ==
  ASSUME IInv, AirInv, NEW b \in Block, PushBack(b), b.kind \in Droppable => ~Full(b.air)
  PROVE  AirInv'
<1>1. /\ items' \in Seq(Block) /\ Len(items') = Len(items) + 1
      /\ \A i \in 1 .. Len(items) : items'[i] = items[i]
      /\ items'[Len(items) + 1] = b
  BY PushBackLemma
<1>2. items \in Seq(Block) /\ Len(items) \in Nat /\ airUs \in Nat /\ Len(items) \in 0 .. Len(items)
  BY DEF IInv, TypeOK
<1>3. IsInserted(items', items, b, Len(items), Block)
  BY <1>1, <1>2 DEF IsInserted
<1>4. \A kinds : TotalAir(items', kinds) = TotalAir(items, kinds) + (IF b.kind \in kinds
        THEN b.air ELSE 0)
  BY <1>2, <1>3, InsertedAir
<1>5. b.kind \in Kinds /\ b.air \in Nat /\ airUs' = airUs + b.air
  <2>1. b.air \in Airs /\ b.kind \in Kinds BY DEF Block
  <2>2. QED BY <2>1, AirsNat DEF PushBack
<1>6. airUs' = TotalAir(items', Kinds) BY <1>4, <1>5 DEF AirInv
<1>7. DOMAIN items = 1 .. Len(items) /\ DOMAIN items' = 1 .. Len(items) + 1 BY <1>1, <1>2
<1>8. /\ TotalAir(items, Droppable) <= airUs
      /\ TotalAir(items, Droppable) \in Nat
      /\ CQ_MAX_AIR_US \in Nat
  <2>1. Droppable \in SUBSET Kinds BY DEF Droppable, Kinds
  <2>2. TotalAir(items, Droppable) <= TotalAir(items, Kinds) BY <1>2, <2>1, FewerKinds
  <2>3. QED BY <1>2, <2>2, WeightsLemma, ConvTxAssumption DEF AirInv
<1>9. CASE b.kind \notin Droppable
  <2>1. TotalAir(items', Droppable) = TotalAir(items, Droppable) BY <1>4, <1>8, <1>9
  <2>2. ASSUME NEW i \in DOMAIN items', items'[i].kind \in Droppable
        PROVE  i \in DOMAIN items /\ items[i].kind \in Droppable
    <3>1. i # Len(items) + 1 BY <1>1, <1>9, <2>2
    <3>2. i \in 1 .. Len(items) BY <1>2, <1>7, <3>1
    <3>3. QED BY <1>1, <1>7, <2>2, <3>2
  <2>3. AirBounded' BY <2>1, <2>2 DEF AirInv, AirBounded
  <2>4. QED BY <1>6, <2>3 DEF AirInv
<1>10. CASE b.kind \in Droppable
  <2>1. airUs = 0 \/ airUs + b.air <= CQ_MAX_AIR_US BY <1>2, <1>5, <1>8, <1>10 DEF Full
  <2>2. TotalAir(items', Droppable) = TotalAir(items, Droppable) + b.air BY <1>4, <1>10
  <2>3. CASE airUs + b.air <= CQ_MAX_AIR_US
    <3>1. TotalAir(items', Droppable) <= CQ_MAX_AIR_US
      BY <1>2, <1>5, <1>8, <2>2, <2>3
    <3>2. QED BY <1>6, <3>1 DEF AirInv, AirBounded
  <2>4. CASE airUs = 0
    <3>1. items = <<>> BY <1>2, <2>4, NoAirNoBlocks DEF AirInv
    <3>2. DOMAIN items' = 1 .. 1 BY <1>7, <3>1
    <3>3. \A i, j \in DOMAIN items' : i = j BY <3>2
    <3>4. QED BY <1>6, <3>3 DEF AirInv, AirBounded
  <2>5. QED BY <2>1, <2>3, <2>4
<1>11. QED BY <1>9, <1>10

\* Steps that leave the queue alone.
LEMMA QuietAir ==
  ASSUME AirInv, items' = items, airUs' = airUs
  PROVE  AirInv'
BY DEF AirInv, AirBounded

\* push_mcs, for its two callers.
LEMMA PushMcsAir ==
  ASSUME IInv, AirInv, NEW b \in Block, PushMcs(b)
  PROVE  AirInv'
<1>1. CASE Full(b.air) BY <1>1, QuietAir DEF PushMcs, queue
<1>2. CASE ~Full(b.air) BY <1>2, PushBackAir DEF PushMcs
<1>3. QED BY <1>1, <1>2

\* A retransmission, wherever among the others, is none of those that may be dropped.
LEMMA PushRetxAir ==
  ASSUME IInv, AirInv, NEW s \in cached, NEW air \in Airs, PushRetx(s, air)
  PROVE  AirInv'
<1> DEFINE b == NewBlock(s, "retx", air)
<1>1. items \in Seq(Block) /\ Len(items) \in Nat /\ airUs \in Nat /\ RetxAt \in 0 .. Len(items)
  BY DEF IInv, TypeOK, RetxAt
<1>2. b \in Block /\ b.kind = "retx" /\ b.air = air /\ air \in Nat
  <2>1. s \in 1 .. MaxSeq
    <3>1. s \in 1 .. seq /\ seq \in Nat /\ seq <= MaxSeq /\ MaxSeq \in Nat
      BY TypeFacts DEF IInv, TypeOK
    <3>2. QED BY <3>1
  <2>2. QED BY <2>1, AirsNat DEF NewBlock, Block, Kinds
<1>3. items' = InsertAt(items, RetxAt + 1, b) /\ airUs' = airUs + air BY DEF PushRetx
<1> HIDE DEF b
<1>4. IsInserted(items', items, b, RetxAt, Block) BY <1>1, <1>2, <1>3, InsertAtLemma
<1>5. \A kinds : TotalAir(items', kinds) = TotalAir(items, kinds) + (IF b.kind \in kinds
        THEN b.air ELSE 0)
  BY <1>1, <1>2, <1>4, InsertedAir
<1>6. b.kind \in Kinds /\ b.kind \notin Droppable BY <1>2 DEF Kinds, Droppable
<1>7. airUs' = TotalAir(items', Kinds) BY <1>2, <1>3, <1>5, <1>6 DEF AirInv
<1>8. TotalAir(items, Droppable) \in Nat BY <1>1, WeightsLemma
<1>9. TotalAir(items', Droppable) = TotalAir(items, Droppable) BY <1>5, <1>6, <1>8
<1>10. CASE TotalAir(items, Droppable) <= CQ_MAX_AIR_US
  BY <1>7, <1>9, <1>10 DEF AirInv, AirBounded
<1>11. CASE \A i, j \in DOMAIN items :
              items[i].kind \in Droppable /\ items[j].kind \in Droppable => i = j
  <2> DEFINE Was(i) == IF i <= RetxAt THEN i ELSE i - 1
  <2>1. ASSUME NEW i \in DOMAIN items', items'[i].kind \in Droppable
        PROVE  /\ i # RetxAt + 1 /\ Was(i) \in DOMAIN items
               /\ items[Was(i)].kind \in Droppable
    <3>1. i \in 1 .. Len(items) + 1 BY <1>1, <1>4 DEF IsInserted
    <3>2. i # RetxAt + 1 BY <1>4, <1>6, <2>1 DEF IsInserted
    <3>3. CASE i <= RetxAt
      <4>1. i \in 1 .. RetxAt /\ i \in 1 .. Len(items) BY <1>1, <3>1, <3>3
      <4>2. items'[i] = items[i] BY <1>4, <4>1 DEF IsInserted
      <4>3. QED BY <1>1, <2>1, <3>2, <3>3, <4>1, <4>2
    <3>4. CASE ~(i <= RetxAt)
      <4>1. i \in RetxAt + 2 .. Len(items) + 1 /\ i - 1 \in 1 .. Len(items) BY <1>1, <3>1, <3>2,
              <3>4
      <4>2. items'[i] = items[i - 1] BY <1>4, <4>1 DEF IsInserted
      <4>3. QED BY <1>1, <2>1, <3>2, <3>4, <4>1, <4>2
    <3>5. QED BY <3>3, <3>4
  <2>2. ASSUME NEW i \in DOMAIN items', NEW j \in DOMAIN items',
               items'[i].kind \in Droppable, items'[j].kind \in Droppable
        PROVE  i = j
    <3>1. Was(i) = Was(j) /\ i # RetxAt + 1 /\ j # RetxAt + 1 BY <1>11, <2>1, <2>2
    <3>2. i \in Nat /\ j \in Nat /\ RetxAt \in Nat BY <1>1, <1>4 DEF IsInserted
    <3>3. QED BY <3>1, <3>2
  <2>3. QED BY <1>7, <2>2 DEF AirInv, AirBounded
<1>12. QED BY <1>10, <1>11 DEF AirInv, AirBounded

\* Nor is a block of a camera, whether it found room or waited in vain.
LEMMA WaitingAir ==
  ASSUME IInv, AirInv, workerPc \in {"recheck", "room"}, PushBack(waiting)
  PROVE  AirInv'
<1>1. waiting # None /\ waiting \in Block BY DEF IInv, TypeOK
<1>2. waiting.kind \notin Droppable BY <1>1 DEF IInv, InOrder, WaitingInOrder, Droppable
<1>3. QED BY <1>1, <1>2, PushBackAir

\* The sender takes from the account what it takes from the queue.
LEMMA TakeAir == IInv /\ AirInv /\ Take => AirInv'
<1> SUFFICES ASSUME IInv, AirInv, Take PROVE AirInv' OBVIOUS
<1>1. items \in Seq(Block) /\ items # <<>> /\ airUs \in Nat /\ items' = Tail(items)
  BY DEF IInv, TypeOK, Take
<1>2. /\ items' \in Seq(Block) /\ Head(items) \in Block
      /\ IsInserted(items, items', Head(items), 0, Block)
  BY <1>1, HeadInserted
<1>3. 0 \in 0 .. Len(items') BY <1>2
<1>4. \A kinds : TotalAir(items, kinds) = TotalAir(items', kinds)
                   + (IF Head(items).kind \in kinds THEN Head(items).air ELSE 0)
  BY <1>2, <1>3, InsertedAir
<1>5. Head(items).kind \in Kinds /\ Head(items).air \in Nat
  <2>1. Head(items).kind \in Kinds /\ Head(items).air \in Airs BY <1>2 DEF Block
  <2>2. QED BY <2>1, AirsNat
<1>6. TotalAir(items', Kinds) \in Nat /\ TotalAir(items', Droppable) \in Nat BY <1>2, WeightsLemma
<1>7. airUs = TotalAir(items', Kinds) + Head(items).air BY <1>4, <1>5 DEF AirInv
<1>8. airUs - Head(items).air = TotalAir(items', Kinds) BY <1>5, <1>6, <1>7
<1>9. airUs' = TotalAir(items', Kinds)
  BY <1>6, <1>8 DEF Take, AirAfterTake, Saturate
<1>10. CASE TotalAir(items, Droppable) <= CQ_MAX_AIR_US
  <2>1. TotalAir(items', Droppable) <= TotalAir(items, Droppable) BY <1>4, <1>5, <1>6
  <2>2. TotalAir(items, Droppable) \in Nat /\ CQ_MAX_AIR_US \in Nat
    BY <1>1, WeightsLemma, ConvTxAssumption
  <2>3. TotalAir(items', Droppable) <= CQ_MAX_AIR_US BY <1>6, <1>10, <2>1, <2>2
  <2>4. QED BY <1>9, <2>3 DEF AirInv, AirBounded
<1>11. CASE \A i, j \in DOMAIN items :
              items[i].kind \in Droppable /\ items[j].kind \in Droppable => i = j
  <2>1. ASSUME NEW i \in DOMAIN items'
        PROVE  i \in Nat /\ i + 1 \in DOMAIN items /\ items'[i] = items[i + 1]
    <3>1. Len(items) = Len(items') + 1 /\ Len(items') \in Nat /\ i \in 1 .. Len(items')
      BY <1>2 DEF IsInserted
    <3>2. i + 1 \in 0 + 2 .. Len(items') + 1 /\ (i + 1) - 1 = i BY <3>1
    <3>3. items[i + 1] = items'[(i + 1) - 1] BY <1>2, <3>2 DEF IsInserted
    <3>4. QED BY <1>1, <3>1, <3>2, <3>3
  <2>2. ASSUME NEW i \in DOMAIN items', NEW j \in DOMAIN items',
               items'[i].kind \in Droppable, items'[j].kind \in Droppable
        PROVE  i = j
    <3>1. i + 1 = j + 1 BY <1>11, <2>1, <2>2
    <3>2. QED BY <2>1, <3>1
  <2>3. QED BY <1>9, <2>2 DEF AirInv, AirBounded
<1>12. QED BY <1>10, <1>11 DEF AirInv, AirBounded

\* Every step.
LEMMA NextAirInv == IInv /\ AirInv /\ [Next]_vars => AirInv'
<1> SUFFICES ASSUME IInv, AirInv, [Next]_vars PROVE AirInv' OBVIOUS
<1>1. ASSUME NEW kind \in {"data", "base"}, NEW air \in Airs, Push(kind, air) PROVE AirInv'
  <2>1. NewBlock(seq + 1, kind, air) \in Block
    <3>1. seq + 1 \in 1 .. MaxSeq BY <1>1, TypeFacts DEF IInv, Push
    <3>2. QED BY <3>1 DEF NewBlock, Block, Kinds
  <2>2. QED BY <1>1, <2>1, PushMcsAir DEF Push
<1>2. ASSUME NEW s \in cached, NEW air \in Airs, PushDup(s, air) PROVE AirInv'
  <2>1. NewBlock(s, "dup", air) \in Block
    <3>1. s \in 1 .. seq /\ seq \in Nat /\ seq <= MaxSeq /\ MaxSeq \in Nat
      BY TypeFacts DEF IInv, TypeOK
    <3>2. s \in 1 .. MaxSeq BY <3>1
    <3>3. QED BY <3>2 DEF NewBlock, Block, Kinds
  <2>2. QED BY <1>2, <2>1, PushMcsAir DEF PushDup
<1>3. CASE PushWaitRecheck
  <2>1. CASE Full(waiting.air) /\ ~closed
    BY <1>3, <2>1, QuietAir DEF PushWaitRecheck, queue
  <2>2. CASE ~(Full(waiting.air) /\ ~closed)
    BY <1>3, <2>2, WaitingAir DEF PushWaitRecheck
  <2>3. QED BY <2>1, <2>2
<1>4. CASE PushWaitTimeout BY <1>4, WaitingAir DEF PushWaitTimeout
<1>5. CASE (\E air \in Airs : PushWait(air)) \/ NotifyReady \/ Close \/ NotifyClosed
  BY <1>5, QuietAir DEF PushWait, NotifyReady, Close, NotifyClosed, queue
<1>6. CASE Take BY <1>6, TakeAir
<1>7. CASE SleepOrEnd \/ NotifyRoom \/ SendPaced
  BY <1>7, QuietAir DEF SleepOrEnd, NotifyRoom, SendPaced, queue
<1>8. CASE (\E l \in {"up", "down", "udp"} : LinkChanges(l)) \/ Stop \/ UNCHANGED vars
  BY <1>8, QuietAir DEF LinkChanges, Stop, vars, queue
<1>9. CASE Worker
  BY <1>1, <1>2, <1>3, <1>4, <1>5, <1>9, PushRetxAir DEF Worker
<1>10. QED BY <1>6, <1>7, <1>8, <1>9 DEF Next, Sender

\* The account kept by push_mcs, push_retx and the sender is the air of what waits, so that the
\* test of push_mcs bounds it: what may be dropped never waits with more air than the bound, but
\* for a single block longer than that.
THEOREM AirStaysBounded == Spec => []AirBounded
<1>1. Init => AirInv BY InitAirInv
<1>2. IInv /\ AirInv /\ [Next]_vars => AirInv' BY NextAirInv
<1>3. AirInv => AirBounded BY DEF AirInv
<1>4. QED BY <1>1, <1>2, <1>3, Inductive, PTL DEF Spec

=============================================================================

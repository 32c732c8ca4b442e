---------------------------- MODULE BlockProofs ----------------------------
(***************************************************************************)
(* Proofs about the blocks at both ends of the link: their numbers, for    *)
(* every modulus, every size of the cache and any number of blocks, NACKs  *)
(* and retries, within what the link is trusted with (LinkTrusted); and    *)
(* the soft buffers of the copies (Harq), for every modulus and size of    *)
(* the caches.                                                             *)
(***************************************************************************)
EXTENDS LinkArq, SequenceTheorems, FiniteSetTheorems, WellFoundedInduction, TLAPS

Ages == {"young", "old"}

TypeOK ==
  /\ seq \in Nat /\ heard \in Nat /\ cache \in Seq([seq : Nat, retx : Nat])
  /\ asks \in Seq(Nat) /\ retries \in Seq(Nat)
  /\ lastSeq \in Nat \cup {None} /\ offset \in Int \cup {None}
  /\ DOMAIN nacks \subseteq Nat /\ nacks \in [DOMAIN nacks -> Ages]

\* The air holds no more than it is given.
Queued == heard <= seq /\ seq - heard <= MaxQueued

\* The cache keeps the newest blocks, without a gap.
CacheRuns == \A k \in 1 .. Len(cache) : cache[k].seq = seq - Len(cache) + k

\* Until a block is read nothing is asked for.
NothingYet ==
  lastSeq = None =>
    asks = <<>> /\ retries = <<>> /\ DOMAIN nacks = {} /\ DOMAIN delivered = {} /\ offset = None

\* The receiver counts a whole number of turns behind the transmitter, and is no more blocks
\* behind than may be lost in a row.
InStep ==
  lastSeq # None =>
    /\ offset \in Int /\ \E k \in Int : offset = MOD * k
    /\ lastSeq + offset <= heard /\ heard - (lastSeq + offset) <= LongestLoss

\* What is asked for is not ahead of the newest number seen.
AskedBehind == lastSeq # None => \A n \in DOMAIN nacks : n <= lastSeq

\* What is under way answers a young NACK and is not late, and is under way once.
UnderWay ==
  /\ \A i \in 1 .. Len(asks) : Young(asks[i]) /\ heard - (asks[i] + offset) <= LatestRetry
  /\ \A i \in 1 .. Len(retries) :
       /\ retries[i] - offset \in Nat /\ Young(retries[i] - offset)
       /\ heard - retries[i] <= LatestRetry
UnderWayOnce ==
  /\ \A i, j \in 1 .. Len(asks) : asks[i] = asks[j] => i = j
  /\ \A i, j \in 1 .. Len(retries) : retries[i] = retries[j] => i = j
  /\ \A i \in 1 .. Len(asks), j \in 1 .. Len(retries) : asks[i] + offset # retries[j]

IInv ==
  /\ TypeOK /\ Queued /\ CacheRuns /\ NothingYet /\ InStep /\ AskedBehind
  /\ UnderWay /\ UnderWayOnce /\ ReadAsItself

-----------------------------------------------------------------------------
(* Numbers modulo m.                                                       *)

\* A number has one quotient and one remainder.
LEMMA OneRemainder ==
  ASSUME NEW m \in Nat \ {0}, NEW q \in Int, NEW p \in Int,
         NEW r \in 0 .. m - 1, NEW t \in 0 .. m - 1, m * q + r = m * p + t
  PROVE  q = p /\ r = t
<1>1. ASSUME q > p PROVE FALSE
  <2>1. q - p >= 1 BY <1>1
  <2>2. m * (q - p) >= m BY <2>1, Z3
  <2>3. m * (q - p) = t - r BY Z3
  <2>4. QED BY <2>2, <2>3
<1>2. ASSUME q < p PROVE FALSE
  <2>1. p - q >= 1 BY <1>2
  <2>2. m * (p - q) >= m BY <2>1, Z3
  <2>3. m * (p - q) = r - t BY Z3
  <2>4. QED BY <2>2, <2>3
<1>3. QED BY <1>1, <1>2

LEMMA Division ==
  ASSUME NEW m \in Nat \ {0}, NEW x \in Int
  PROVE  /\ x \div m \in Int /\ x % m \in 0 .. m - 1
         /\ x = m * (x \div m) + (x % m)
BY Z3

LEMMA Remainder ==
  ASSUME NEW m \in Nat \ {0}, NEW q \in Int, NEW r \in 0 .. m - 1
  PROVE  (m * q + r) % m = r
<1> DEFINE x == m * q + r
<1>1. x \in Int OBVIOUS
<1>2. /\ x \div m \in Int /\ x % m \in 0 .. m - 1
      /\ m * q + r = m * (x \div m) + (x % m)
  BY <1>1, Division
<1> HIDE DEF x
<1>3. r = x % m BY <1>2, OneRemainder
<1>4. QED BY <1>3 DEF x

\* Two numbers less than a turn apart that look alike are one.
LEMMA Alike ==
  ASSUME NEW m \in Nat \ {0}, NEW x \in Int, NEW y \in Int,
         x % m = y % m, x - y \in 0 .. m - 1
  PROVE  x = y
<1> DEFINE a == x \div m   b == y \div m
<1>1. a \in Int /\ b \in Int /\ x = m * a + (x % m) /\ y = m * b + (y % m) BY Division
<1>2. y % m \in 0 .. m - 1 BY Division
<1> HIDE DEF a, b
<1>3. x - y = m * (a - b) BY <1>1, <1>2, Z3
<1>4. m * (a - b) + 0 = m * 0 + (x - y) BY <1>1, <1>3, Z3
<1>5. 0 \in 0 .. m - 1 /\ a - b \in Int BY <1>1
<1>6. x - y = 0 BY <1>4, <1>5, OneRemainder
<1>7. QED BY <1>6

-----------------------------------------------------------------------------
(* The receiver reads a number as it is.                                   *)

\* The difference read off the air, where the numberings are whole turns apart: it is as it is, or
\* a turn more.
LEMMA DeltaIs ==
  ASSUME MOD \in Nat \ {0}, lastSeq \in Int, offset \in Int, \E k \in Int : offset = MOD * k,
         NEW s \in Int
  PROVE  /\ s - offset - lastSeq \in 0 .. MOD - 1 => Delta(s % MOD) = s - offset - lastSeq
         /\ s - offset - lastSeq \in 1 - MOD .. -1
              => Delta(s % MOD) = s - offset - lastSeq + MOD
<1>1. PICK k \in Int : offset = MOD * k OBVIOUS
<1> DEFINE d == s - offset - lastSeq   q == k - (s \div MOD)   x == (s % MOD) - lastSeq
<1>2. /\ s \div MOD \in Int /\ s % MOD \in 0 .. MOD - 1
      /\ s = MOD * (s \div MOD) + (s % MOD)
  BY Division
<1>3. q \in Int /\ d \in Int /\ x \in Int BY <1>2
<1>4. x = MOD * q + d BY <1>1, <1>2, Z3
<1>5. x = MOD * (q - 1) + (d + MOD) BY <1>3, <1>4, Z3
<1> HIDE DEF d, q, x
<1>6. d \in 0 .. MOD - 1 => x % MOD = d BY <1>3, <1>4, Remainder
<1>7. ASSUME d \in 1 - MOD .. -1 PROVE x % MOD = d + MOD
  <2>1. d + MOD \in 0 .. MOD - 1 /\ q - 1 \in Int BY <1>3, <1>7
  <2>2. QED BY <2>1, <1>5, Remainder
<1>8. QED BY <1>6, <1>7 DEF d, x, Delta

\* A block in its turn, which is ahead by no more than a jump that is not suspected.
LEMMA ReadsNew ==
  ASSUME IInv, LinkArqAssumption, LinkTrusted, lastSeq # None
  PROVE  Resolve((heard + 1) % MOD) = heard + 1 - offset
<1> DEFINE d == heard + 1 - offset - lastSeq
<1>1. /\ heard \in Int /\ lastSeq \in Int /\ offset \in Int /\ MOD \in Nat \ {0}
      /\ FAR \in Int /\ HALF \in Int /\ LongestLoss \in Int /\ LatestRetry \in Int
  BY DEF IInv, TypeOK, InStep, LinkArqAssumption
<1>2. \E k \in Int : offset = MOD * k BY DEF IInv, InStep
<1>3. d \in 1 .. FAR /\ FAR < MOD BY <1>1 DEF IInv, InStep, LinkTrusted
<1>4. d \in 0 .. MOD - 1 BY <1>1, <1>3
<1>5. Delta((heard + 1) % MOD) = d
  <2>1. heard + 1 \in Int BY <1>1
  <2>2. QED BY <1>1, <1>2, <1>4, <2>1, DeltaIs
<1>6. ~(d > FAR) /\ ~(d > HALF) BY <1>1, <1>3 DEF LinkTrusted
<1>7. ~LateRetry((heard + 1) % MOD) BY <1>5, <1>6 DEF LateRetry
<1>8. QED BY <1>1, <1>5, <1>6, <1>7 DEF Resolve

\* A retry, which is at the newest number or behind it, and answers a young NACK.
LEMMA ReadsRetry ==
  ASSUME IInv, LinkArqAssumption, LinkTrusted, retries # <<>>
  PROVE  Resolve(Head(retries) % MOD) = Head(retries) - offset
<1> DEFINE s == Head(retries)   n == s - offset   d == n - lastSeq
<1>1. lastSeq # None BY DEF IInv, NothingYet
<1>2. /\ heard \in Int /\ lastSeq \in Int /\ offset \in Int /\ MOD \in Nat \ {0}
      /\ FAR \in Int /\ HALF \in Int /\ LongestLoss \in Int /\ LatestRetry \in Int
  BY <1>1 DEF IInv, TypeOK, InStep, LinkArqAssumption
<1>3. 1 \in 1 .. Len(retries) /\ s = retries[1] /\ s \in Nat
  BY DEF IInv, TypeOK
<1>4. n \in Nat /\ Young(n) /\ heard - s <= LatestRetry BY <1>3 DEF IInv, UnderWay
<1>5. n <= lastSeq BY <1>1, <1>4 DEF Young, IInv, AskedBehind
<1>6. \E k \in Int : offset = MOD * k BY <1>1 DEF IInv, InStep
<1>7. lastSeq + offset <= heard BY <1>1 DEF IInv, InStep
<1>8. d \in -LatestRetry .. 0 BY <1>2, <1>3, <1>4, <1>5, <1>7
<1>9. CASE d = 0
  <2>1. Delta(s % MOD) = 0
    <3>1. s \in Int /\ s - offset - lastSeq = 0 /\ 0 \in 0 .. MOD - 1 BY <1>2, <1>3, <1>9
    <3>2. QED BY <1>2, <1>6, <3>1, DeltaIs
  <2>2. ~LateRetry(s % MOD) /\ ~(0 > HALF) BY <2>1, <1>2 DEF LateRetry, LinkArqAssumption
  <2>3. QED BY <2>1, <2>2, <1>1, <1>2, <1>3, <1>9 DEF Resolve
<1>10. CASE d # 0
  <2>1. d \in 1 - MOD .. -1 /\ d + MOD > FAR
    <3>1. LatestRetry + FAR < MOD /\ FAR \in Nat BY <1>2 DEF LinkTrusted, LinkArqAssumption
    <3>2. d \in Int BY <1>8
    <3> HIDE DEF d
    <3>3. QED BY ONLY <3>1, <3>2, <1>2, <1>8, <1>10
  <2>2. s - offset - lastSeq = d BY <1>2, <1>3
  <2>3. Delta(s % MOD) = d + MOD
    <3>1. s \in Int /\ s - offset - lastSeq \in 1 - MOD .. -1 BY <1>3, <2>1, <2>2
    <3>2. QED BY <1>2, <1>6, <2>2, <3>1, DeltaIs
  <2>4. lastSeq + Delta(s % MOD) - MOD = n BY <2>3, <1>2, <1>3, <2>1
  <2>5. LateRetry(s % MOD) BY <2>1, <2>3, <2>4, <1>4 DEF LateRetry
  <2>6. Floor(n) = n BY <1>4 DEF Floor
  <2>7. QED BY <2>4, <2>5, <2>6, <1>1 DEF Resolve
<1>11. QED BY <1>9, <1>10

-----------------------------------------------------------------------------
(* The transmitter answers for the block that was meant.                   *)

LEMMA SameOnAir ==
  ASSUME MOD \in Nat \ {0}, offset \in Int, \E k \in Int : offset = MOD * k, NEW n \in Int
  PROVE  n % MOD = (n + offset) % MOD
<1>1. PICK k \in Int : offset = MOD * k OBVIOUS
<1> DEFINE q == n \div MOD   t == n % MOD
<1>2. q \in Int /\ t \in 0 .. MOD - 1 /\ n = MOD * q + t BY Division
<1> HIDE DEF q, t
<1>3. n + offset = MOD * (q + k) + t /\ q + k \in Int BY <1>1, <1>2, Z3
<1>4. (n + offset) % MOD = t BY <1>2, <1>3, Remainder
<1>5. QED BY <1>4 DEF t

LEMMA AnswersIt ==
  ASSUME IInv, LinkArqAssumption, LinkTrusted, asks # <<>>, Matches(Head(asks)) # {}
  PROVE  /\ NewestMatch(Head(asks)) \in 1 .. Len(cache)
         /\ cache[NewestMatch(Head(asks))].seq = Head(asks) + offset
<1> DEFINE n == Head(asks)   s == n + offset
<1>1. lastSeq # None BY DEF IInv, NothingYet
<1>2. /\ seq \in Nat /\ heard \in Nat /\ offset \in Int /\ lastSeq \in Nat /\ Len(cache) \in Nat
      /\ MOD \in Nat \ {0} /\ LatestRetry \in Nat /\ MaxQueued \in Nat
      /\ \E k \in Int : offset = MOD * k
  BY <1>1 DEF IInv, TypeOK, InStep, LinkArqAssumption
<1>3. 1 \in 1 .. Len(asks) /\ n = asks[1] /\ n \in Nat BY DEF IInv, TypeOK
<1>4. Young(n) /\ heard - s <= LatestRetry BY <1>3 DEF IInv, UnderWay
<1>5. n <= lastSeq BY <1>1, <1>4 DEF Young, IInv, AskedBehind
<1>6. s \in Int /\ s <= seq /\ seq - s < MOD
  BY <1>1, <1>2, <1>3, <1>4, <1>5 DEF IInv, InStep, Queued, LinkTrusted
<1>7. DOMAIN cache = 1 .. Len(cache) BY DEF IInv, TypeOK
<1>8. \A k \in 1 .. Len(cache) : cache[k].seq = seq - Len(cache) + k BY DEF IInv, CacheRuns
<1>9. n % MOD = s % MOD
  <2>1. n \in Int BY <1>3
  <2> HIDE DEF n
  <2>2. n % MOD = (n + offset) % MOD BY <1>2, <2>1, SameOnAir
  <2>3. QED BY <2>2
\* An entry that looks like it is no newer ...
<1>10. ASSUME NEW j \in Matches(n) PROVE j \in 1 .. Len(cache) /\ cache[j].seq <= s
  <2>1. j \in 1 .. Len(cache) /\ cache[j].seq % MOD = s % MOD BY <1>7, <1>9 DEF Matches
  <2>2. cache[j].seq \in Int /\ cache[j].seq <= seq BY <1>2, <1>8, <2>1
  <2>3. ASSUME cache[j].seq > s PROVE FALSE
    <3>1. cache[j].seq - s \in 0 .. MOD - 1 BY <1>2, <1>6, <2>2, <2>3
    <3>2. cache[j].seq = s BY <1>2, <1>6, <2>1, <2>2, <3>1, Alike
    <3>3. QED BY <2>3, <3>2, <1>6
  <2>4. QED BY <1>6, <2>1, <2>2, <2>3
\* ... and what is between it and the newest one is there.
<1>11. PICK j \in Matches(n) : TRUE OBVIOUS
<1> DEFINE m == s - seq + Len(cache)
<1>12. m \in 1 .. Len(cache) /\ cache[m].seq = s
  <2>1. cache[j].seq = seq - Len(cache) + j /\ j \in 1 .. Len(cache) /\ cache[j].seq <= s
    BY <1>8, <1>10, <1>11
  <2>2. m \in 1 .. Len(cache) BY <1>2, <1>6, <2>1
  <2>3. QED BY <1>2, <1>6, <1>8, <2>2
<1>13. m \in Matches(n) BY <1>7, <1>9, <1>12 DEF Matches
<1>14. ASSUME NEW k \in Matches(n) PROVE k <= m
  <2>1. k \in 1 .. Len(cache) /\ cache[k].seq <= s BY <1>10
  <2>2. seq - Len(cache) + k <= s BY <1>8, <2>1
  <2>3. QED BY <1>2, <1>6, <2>1, <2>2
<1> HIDE DEF m
<1>15. NewestMatch(n) = m
  <2>1. \E k \in Matches(n) : \A i \in Matches(n) : i <= k BY <1>13, <1>14
  <2>2. NewestMatch(n) \in Matches(n) /\ \A i \in Matches(n) : i <= NewestMatch(n)
    BY <2>1 DEF NewestMatch
  <2>3. NewestMatch(n) \in Int /\ m \in Int BY <2>2, <1>10, <1>12
  <2>4. QED BY <2>2, <2>3, <1>13, <1>14
<1>16. QED BY <1>12, <1>15

-----------------------------------------------------------------------------
(* NACKs that are sent.                                                    *)

LEMMA AsksGrow ==
  ASSUME asks \in Seq(Nat), NEW N \in SUBSET Nat, IsFiniteSet(N), SendNacks(N),
         \A i, j \in 1 .. Len(asks) : asks[i] = asks[j] => i = j,
         \A i \in 1 .. Len(asks) : asks[i] \notin N
  PROVE  /\ asks' \in Seq(Nat)
         /\ \A i \in 1 .. Len(asks') :
              asks'[i] \in N \/ \E j \in 1 .. Len(asks) : asks'[i] = asks[j]
         /\ \A i, j \in 1 .. Len(asks') : asks'[i] = asks'[j] => i = j
<1>1. PICK order \in SetToSeqs(N) : asks' = asks \o order BY DEF SendNacks
<1> DEFINE c == Cardinality(N)
<1>2. c \in Nat BY FS_CardinalityType
<1>3. /\ order \in [1 .. c -> N] /\ \A i, j \in 1 .. c : i # j => order[i] # order[j]
  BY DEF SetToSeqs
<1> HIDE DEF c
<1>4. order \in Seq(Nat) /\ Len(order) = c
  <2>1. order \in Seq(N) BY <1>2, <1>3, SeqDef
  <2>2. order \in Seq(Nat) BY <2>1, SeqMonotonic
  <2>3. DOMAIN order = 1 .. Len(order) /\ DOMAIN order = 1 .. c /\ Len(order) \in Nat
    BY <1>3, <2>1, LenProperties
  <2>4. \A k \in Nat : k \in 1 .. Len(order) <=> k \in 1 .. c BY <2>3
  <2>5. Len(order) = c
    <3>1. Len(order) \in Nat /\ c \in Nat BY <1>2, <2>3
    <3>2. QED BY <2>4, <3>1
  <2>6. QED BY <2>2, <2>5
<1>5. \A i \in 1 .. c : order[i] \in N BY <1>3
<1>6. /\ asks' \in Seq(Nat) /\ Len(asks') = Len(asks) + c
      /\ \A i \in 1 .. Len(asks') :
           asks'[i] = IF i <= Len(asks) THEN asks[i] ELSE order[i - Len(asks)]
  <2>1. /\ asks \o order \in Seq(Nat) /\ Len(asks \o order) = Len(asks) + Len(order)
        /\ \A i \in 1 .. Len(asks) + Len(order) :
             (asks \o order)[i] = IF i <= Len(asks) THEN asks[i] ELSE order[i - Len(asks)]
    <3>1. asks \in Seq(Nat) /\ order \in Seq(Nat) BY <1>4
    <3>2. QED BY ONLY <3>1, ConcatProperties
  <2>2. QED BY <1>1, <1>4, <2>1
<1>7. Len(asks) \in Nat OBVIOUS
<1>8. \A i \in 1 .. Len(asks') : i > Len(asks) => i - Len(asks) \in 1 .. c BY <1>2, <1>6, <1>7
<1>9. QED
  <2>1. \A i \in 1 .. Len(asks') : i <= Len(asks) => i \in 1 .. Len(asks) BY <1>7
  <2>2. \A i \in 1 .. Len(asks') : asks'[i] \in N \/ \E j \in 1 .. Len(asks) : asks'[i] = asks[j]
    <3>1. TAKE i \in 1 .. Len(asks')
    <3>2. CASE i <= Len(asks) BY <3>2, <2>1, <1>6
    <3>3. CASE i > Len(asks)
      <4>1. asks'[i] = order[i - Len(asks)] BY <3>3, <1>6, <1>7
      <4>2. QED BY <3>3, <4>1, <1>5, <1>8
    <3>4. QED BY <3>2, <3>3, <1>6, <1>7
  <2>3. ASSUME NEW i \in 1 .. Len(asks'), NEW j \in 1 .. Len(asks'), asks'[i] = asks'[j]
        PROVE  i = j
    <3>1. CASE i <= Len(asks) /\ j <= Len(asks)
      BY <3>1, <2>1, <2>3, <1>6
    <3>2. CASE i > Len(asks) /\ j > Len(asks)
      <4>1. order[i - Len(asks)] = order[j - Len(asks)] BY <3>2, <2>3, <1>6, <1>7
      <4>2. i - Len(asks) = j - Len(asks) BY <4>1, <3>2, <1>8, <1>3
      <4>3. QED BY <4>2, <1>7
    <3>3. CASE i <= Len(asks) /\ j > Len(asks)
      <4>1. i \in 1 .. Len(asks) /\ asks'[i] = asks[i] /\ asks[i] \notin N BY <3>3, <2>1, <1>6
      <4>2. ~(j <= Len(asks)) BY <3>3, <1>6, <1>7
      <4>3. j - Len(asks) \in 1 .. c /\ asks'[j] = order[j - Len(asks)] BY <3>3, <4>2, <1>6, <1>8
      <4>4. QED BY <4>1, <4>3, <2>3, <1>5
    <3>4. CASE i > Len(asks) /\ j <= Len(asks)
      <4>1. j \in 1 .. Len(asks) /\ asks'[j] = asks[j] /\ asks[j] \notin N BY <3>4, <2>1, <1>6
      <4>2. ~(i <= Len(asks)) BY <3>4, <1>6, <1>7
      <4>3. i - Len(asks) \in 1 .. c /\ asks'[i] = order[i - Len(asks)] BY <3>4, <4>2, <1>6, <1>8
      <4>4. QED BY <4>1, <4>3, <2>3, <1>5
    <3>5. QED BY <3>1, <3>2, <3>3, <3>4, <1>6, <1>7
  <2>4. QED BY <1>6, <2>2, <2>3

\* What a block that is read, or whose payload is not, leaves in outstanding_nacks: the NACKs that
\* are sent are young, and so stay those that wait for another block.
LEMMA Notes ==
  ASSUME LinkArqAssumption, lastSeq \in Nat, DOMAIN nacks \subseteq Nat,
         nacks \in [DOMAIN nacks -> Ages],
         \A n \in DOMAIN nacks : n <= lastSeq,
         NEW s \in Nat, NEW readable \in BOOLEAN, Captured(s, readable), NEW r \in Nat,
         Resolve(s % MOD) = r
  PROVE  \E N \in SUBSET Nat :
           /\ IsFiniteSet(N) /\ SendNacks(N)
           /\ \A n \in N : (n > lastSeq \/ n = r) /\ n <= Newest(r) /\ Young(n)'
           /\ \A n \in Nat : Young(n) /\ n # r => Young(n)'
           /\ DOMAIN nacks' \subseteq Nat /\ nacks' \in [DOMAIN nacks' -> Ages]
           /\ \A n \in DOMAIN nacks' : n <= Newest(r)
<1>1. lastSeq # None BY DEF LinkArqAssumption
<1> DEFINE A == Asked(r)   D == (DOMAIN nacks \cup A) \ {r}
           answered == Restrict(Opened(A), D)
<1>2. Newest(r) \in Nat /\ lastSeq <= Newest(r) /\ r <= Newest(r) BY <1>1 DEF Newest
<1>3. A \subseteq lastSeq + 1 .. r - 1 /\ IsFiniteSet(A)
  <2>1. IsFiniteSet(lastSeq + 1 .. r - 1)
    <3>1. lastSeq + 1 \in Int /\ r - 1 \in Int OBVIOUS
    <3>2. QED BY <3>1, FS_Interval
  <2>2. IsFiniteSet({}) BY FS_EmptySet
  <2>3. QED BY <2>1, <2>2, <1>1 DEF Asked, Gap
<1>4. \A n \in A : /\ n \in Nat /\ n > lastSeq /\ n < r /\ n # r /\ n <= Newest(r)
                  /\ n \notin DOMAIN nacks
  <2>1. TAKE n \in A
  <2>2. n \in lastSeq + 1 .. r - 1 BY <1>3
  <2>3. n \in Nat /\ n > lastSeq /\ n < r BY <2>2
  <2>4. QED BY <2>3, <1>2
<1>5. /\ DOMAIN answered = D
      /\ \A n \in D : answered[n] = IF n \in DOMAIN nacks THEN nacks[n] ELSE "young"
  BY DEF Restrict, Opened
<1>6. D \subseteq Nat /\ \A n \in D : n <= Newest(r) BY <1>2, <1>4
<1>7. \A n \in D : answered[n] \in Ages BY <1>5 DEF Ages
<1>8. answered = [n \in D |-> answered[n]] BY <1>5 DEF Restrict, Opened
<1>9. (\A n \in A : n \in D /\ answered[n] = "young")
      /\ \A n \in Nat : Young(n) /\ n # r => n \in D /\ answered[n] = "young"
  BY <1>4, <1>5 DEF Young
<1> HIDE DEF A, D, answered
<1>10. CASE nacks' = answered /\ SendNacks(A)
  <2>1. \A n \in A : Young(n)' BY <1>5, <1>9, <1>10 DEF Young
  <2>2. \A n \in Nat : Young(n) /\ n # r => Young(n)' BY <1>5, <1>9, <1>10 DEF Young
  <2>3. /\ DOMAIN nacks' \subseteq Nat /\ nacks' \in [DOMAIN nacks' -> Ages]
        /\ \A n \in DOMAIN nacks' : n <= Newest(r)
    BY <1>5, <1>6, <1>7, <1>8, <1>10
  <2>4. A \in SUBSET Nat BY <1>4
  <2>5. QED BY <2>1, <2>2, <2>3, <2>4, <1>3, <1>4, <1>10
<1>11. CASE /\ SendNacks(A \cup {r})
            /\ nacks' = [n \in D \cup {r} |-> IF n = r THEN "young" ELSE answered[n]]
  <2>1. \A n \in A \cup {r} : Young(n)' BY <1>9, <1>11 DEF Young
  <2>2. \A n \in Nat : Young(n) /\ n # r => Young(n)' BY <1>9, <1>11 DEF Young
  <2>3. /\ DOMAIN nacks' \subseteq Nat /\ nacks' \in [DOMAIN nacks' -> Ages]
        /\ \A n \in DOMAIN nacks' : n <= Newest(r)
    BY <1>2, <1>6, <1>7, <1>11 DEF Ages
  <2>4. A \cup {r} \in SUBSET Nat BY <1>4
  <2>5. IsFiniteSet(A \cup {r}) BY <1>3, FS_AddElement
  <2>6. QED BY <2>1, <2>2, <2>3, <2>4, <2>5, <1>2, <1>4, <1>11
<1>12. \/ nacks' = answered /\ SendNacks(A)
       \/ SendNacks(A \cup {r}) /\ nacks' = [n \in D \cup {r} |-> IF n = r THEN "young"
          ELSE answered[n]]
  BY <1>5 DEF Captured, A, D, answered
<1>13. QED BY <1>10, <1>11, <1>12

\* What a capture leaves, whether the block came in its turn or again.
LEMMA CapturedKeeps ==
  ASSUME LinkArqAssumption, LinkTrusted, IInv, lastSeq # None,
         NEW s \in Nat, NEW readable \in BOOLEAN, Captured(s, readable),
         Resolve(s % MOD) = s - offset, s - offset \in Nat,
         seq' = seq, cache' = cache, heard' \in {heard, heard + 1}, heard' <= seq,
         s <= heard', heard' - s <= LatestRetry,
         heard' = heard + 1 => s = heard + 1,
         \A i \in 1 .. Len(asks) :
           asks[i] + offset # s /\ heard' - (asks[i] + offset) <= LatestRetry,
         retries' \in Seq(Nat),
         \A i \in 1 .. Len(retries') :
           /\ retries'[i] # s /\ heard' - retries'[i] <= LatestRetry
           /\ \E j \in 1 .. Len(retries) : retries'[i] = retries[j],
         \A i, j \in 1 .. Len(retries') : retries'[i] = retries'[j] => i = j
  PROVE  IInv'
<1> DEFINE r == s - offset
<1>1. /\ lastSeq \in Nat /\ offset \in Int /\ heard \in Nat /\ heard' \in Nat /\ seq \in Nat
      /\ LongestLoss \in Nat /\ LatestRetry \in Nat /\ MaxQueued \in Nat /\ r \in Nat
  BY DEF IInv, TypeOK, InStep, LinkArqAssumption
<1>2. offset # None /\ s \in Nat /\ heard' - s <= LatestRetry BY <1>1 DEF LinkArqAssumption
<1>3. /\ lastSeq' = Newest(r) /\ offset' = offset BY <1>2 DEF Captured
<1>4. PICK N \in SUBSET Nat :
        /\ IsFiniteSet(N) /\ SendNacks(N)
        /\ \A n \in N : (n > lastSeq \/ n = r) /\ n <= Newest(r) /\ Young(n)'
        /\ \A n \in Nat : Young(n) /\ n # r => Young(n)'
        /\ DOMAIN nacks' \subseteq Nat /\ nacks' \in [DOMAIN nacks' -> Ages]
        /\ \A n \in DOMAIN nacks' : n <= Newest(r)
  <2>1. DOMAIN nacks \subseteq Nat /\ nacks \in [DOMAIN nacks -> Ages] BY DEF IInv, TypeOK
  <2>2. \A n \in DOMAIN nacks : n <= lastSeq BY DEF IInv, AskedBehind
  <2>3. s \in Nat /\ r \in Nat /\ Resolve(s % MOD) = r OBVIOUS
  <2> HIDE DEF r
  <2>4. LinkArqAssumption /\ lastSeq \in Nat /\ readable \in BOOLEAN /\ Captured(s, readable)
    BY <1>1
  <2>5. QED BY ONLY <2>1, <2>2, <2>3, <2>4, Notes
<1>5. /\ Newest(r) \in Nat /\ lastSeq <= Newest(r) /\ r <= Newest(r)
      /\ Newest(r) = lastSeq \/ Newest(r) = r
  BY <1>1 DEF Newest
<1>6. InStep'
  <2>1. lastSeq + offset <= heard /\ heard - (lastSeq + offset) <= LongestLoss BY DEF IInv, InStep
  <2>2. Newest(r) + offset <= heard' /\ heard' - (Newest(r) + offset) <= LongestLoss
    BY <2>1, <1>1, <1>5
  <2>3. \E k \in Int : offset = MOD * k BY DEF IInv, InStep
  <2>4. QED BY <2>2, <2>3, <1>1, <1>3 DEF InStep
\* What is asked for was not under way, and is not late.
<1>7. \A i \in 1 .. Len(asks) : /\ asks[i] \in Nat /\ asks[i] <= lastSeq
                                /\ asks[i] # r /\ Young(asks[i])
  <2>1. TAKE i \in 1 .. Len(asks)
  <2>2. asks \in Seq(Nat) BY DEF IInv, TypeOK
  <2>3. asks[i] \in Nat BY <2>2, ElementOfSeq
  <2>4. Young(asks[i]) BY DEF IInv, UnderWay
  <2>5. asks[i] <= lastSeq BY <2>4 DEF IInv, AskedBehind, Young
  <2>6. QED BY <1>1, <2>3, <2>4, <2>5
<1>8. \A i \in 1 .. Len(asks) : asks[i] \notin N
  <2>1. TAKE i \in 1 .. Len(asks)
  <2>2. asks[i] \in Nat /\ ~(asks[i] > lastSeq) /\ asks[i] # r BY <1>1, <1>7
  <2>3. QED BY <2>2, <1>4
<1>9. \A n \in N : n \in Nat /\ heard' - (n + offset) <= LatestRetry
  <2>1. TAKE n \in N
  <2>2. n \in Nat BY <1>4
  <2>3. heard' <= heard + 1 /\ LongestLoss <= LatestRetry BY <1>1 DEF LinkTrusted
  <2>4. heard - (lastSeq + offset) <= LongestLoss /\ lastSeq + offset <= heard BY DEF IInv, InStep
  <2>5. CASE n = r
    <3>1. r + offset = s BY <1>1, <1>2
    <3>2. n + offset = s BY <2>5, <3>1
    <3>3. heard' - (n + offset) <= LatestRetry BY ONLY <3>2, <1>2
    <3>4. QED BY ONLY <2>2, <3>3
  <2>6. CASE n > lastSeq
    <3>1. PICK h \in Nat : h = heard' BY <1>1
    <3>2. h \in Nat /\ h <= heard + 1 /\ LongestLoss <= LatestRetry BY <2>3, <3>1
    <3>3. /\ lastSeq \in Nat /\ offset \in Int /\ heard \in Nat
           /\ LongestLoss \in Nat /\ LatestRetry \in Nat
      BY <1>1
    <3>4. h - (n + offset) <= LatestRetry BY ONLY <2>2, <2>4, <2>6, <3>2, <3>3
    <3>5. QED BY <2>2, <3>1, <3>4
  <2>7. QED BY <2>5, <2>6, <1>4
<1>10. /\ asks' \in Seq(Nat)
       /\ \A i \in 1 .. Len(asks') : asks'[i] \in N \/ \E j \in 1 .. Len(asks) : asks'[i] = asks[j]
       /\ \A i, j \in 1 .. Len(asks') : asks'[i] = asks'[j] => i = j
  <2>1. /\ asks \in Seq(Nat) /\ \A i, j \in 1 .. Len(asks) : asks[i] = asks[j] => i = j
    BY DEF IInv, TypeOK, UnderWayOnce
  <2>2. QED BY <2>1, <1>4, <1>8, AsksGrow
<1>11. \A i \in 1 .. Len(retries') :
         /\ retries'[i] - offset \in Nat /\ retries'[i] - offset <= lastSeq
         /\ retries'[i] - offset # r /\ Young(retries'[i] - offset)
  <2>1. TAKE i \in 1 .. Len(retries')
  <2>2. PICK j \in 1 .. Len(retries) : retries'[i] = retries[j] OBVIOUS
  <2>3. retries[j] - offset \in Nat /\ Young(retries[j] - offset) BY DEF IInv, UnderWay
  <2>4. retries[j] - offset <= lastSeq BY <2>3 DEF IInv, AskedBehind, Young
  <2>5. retries'[i] # s OBVIOUS
  <2>6. retries'[i] \in Nat
    <3>1. retries' \in Seq(Nat) OBVIOUS
    <3>2. QED BY <3>1, ElementOfSeq
  <2>7. PICK y \in Nat : y = retries'[i] /\ y = retries[j] BY <2>2, <2>6
  <2>8. y # s /\ y \in Nat BY <2>5, <2>7
  <2>9. y - offset # s - offset BY ONLY <2>8, <1>1, <1>2
  <2>10. QED BY <2>3, <2>4, <2>7, <2>9
<1>12. UnderWay'
  <2>1. ASSUME NEW i \in 1 .. Len(asks')
        PROVE  asks'[i] \in DOMAIN nacks' /\ nacks'[asks'[i]] = "young"
               /\ heard' - (asks'[i] + offset') <= LatestRetry
    <3>1. CASE asks'[i] \in N BY <3>1, <1>3, <1>4, <1>9 DEF Young
    <3>2. ASSUME NEW j \in 1 .. Len(asks), asks'[i] = asks[j]
          PROVE  /\ asks'[i] \in DOMAIN nacks' /\ nacks'[asks'[i]] = "young"
                 /\ heard' - (asks[j] + offset) <= LatestRetry
      BY <3>2, <1>4, <1>7 DEF Young
    <3>3. QED BY <3>1, <3>2, <1>3, <1>10 DEF Young
  <2>2. ASSUME NEW i \in 1 .. Len(retries')
        PROVE  /\ retries'[i] - offset' \in Nat /\ heard' - retries'[i] <= LatestRetry
               /\ retries'[i] - offset' \in DOMAIN nacks' /\ nacks'[retries'[i] - offset'] = "young"
    BY <1>3, <1>4, <1>11 DEF Young
  <2>3. QED BY <2>1, <2>2, <1>3 DEF UnderWay, Young
<1>13. UnderWayOnce'
  <2>1. ASSUME NEW i \in 1 .. Len(asks'), NEW j \in 1 .. Len(retries')
        PROVE asks'[i] + offset # retries'[j]
    <3>1. CASE asks'[i] \in N
      <4>1. asks'[i] \in Nat /\ (asks'[i] > lastSeq \/ asks'[i] = r) BY <3>1, <1>4
      <4>2. /\ retries'[j] - offset \in Nat /\ retries'[j] - offset <= lastSeq
            /\ retries'[j] - offset # r /\ retries'[j] \in Nat
        BY <1>11
      <4> HIDE DEF r
      <4>3. QED BY ONLY <4>1, <4>2, <1>1
    <3>2. ASSUME NEW k \in 1 .. Len(asks), asks'[i] = asks[k] PROVE asks'[i] + offset # retries'[j]
      <4>1. PICK m \in 1 .. Len(retries) : retries'[j] = retries[m] OBVIOUS
      <4>2. QED BY <3>2, <4>1 DEF IInv, UnderWayOnce
    <3>3. QED BY <3>1, <3>2, <1>10
  <2>2. QED BY <2>1, <1>3, <1>10 DEF UnderWayOnce
<1>14. TypeOK'
  BY <1>1, <1>3, <1>4, <1>5, <1>10 DEF IInv, TypeOK
<1>15. Queued' /\ CacheRuns' BY <1>1 DEF IInv, Queued, CacheRuns
<1>16. NothingYet' /\ AskedBehind'
  <2>1. lastSeq' # None BY <1>3, <1>5 DEF LinkArqAssumption
  <2>2. QED BY <2>1, <1>3, <1>4 DEF NothingYet, AskedBehind
<1>17. ReadAsItself'
  <2>1. \A n \in DOMAIN delivered : delivered[n] = n + offset BY DEF IInv, ReadAsItself
  <2>2. \/ delivered' = delivered
        \/ delivered' = [n \in DOMAIN delivered \cup {r} |-> IF n = r THEN s ELSE delivered[n]]
    BY DEF Captured
  <2>3. s = r + offset BY <1>1
  <2>4. QED BY <2>1, <2>2, <2>3, <1>3 DEF ReadAsItself
<1>18. QED BY <1>6, <1>12, <1>13, <1>14, <1>15, <1>16, <1>17 DEF IInv

-----------------------------------------------------------------------------
(* Every step keeps the invariant.                                         *)

LEMMA InitIInv == ASSUME LinkArqAssumption, Init PROVE IInv
<1>1. TypeOK BY DEF Init, TypeOK, LinkArqAssumption, Ages
<1>2. QED
  BY <1>1 DEF Init, IInv, Queued, CacheRuns, NothingYet, InStep, AskedBehind, UnderWay,
     UnderWayOnce,
     ReadAsItself, LinkArqAssumption

\* A block is numbered; the oldest entry of a full cache goes.
LEMMA SendKeeps == ASSUME LinkArqAssumption, LinkTrusted, IInv, Send PROVE IInv'
<1>1. /\ seq \in Nat /\ seq' = seq + 1 /\ heard \in Nat /\ MaxQueued \in Nat /\ ARQ_CACHE \in Nat
      /\ cache \in Seq([seq : Nat, retx : Nat]) /\ Len(cache) \in Nat
  BY DEF IInv, TypeOK, Send, LinkArqAssumption
<1> DEFINE e == [seq |-> seq + 1, retx |-> 0]   c == Append(cache, e)
<1>2. cache' = Kept(c) BY DEF Send, LinkTrusted
<1>3. /\ c \in Seq([seq : Nat, retx : Nat]) /\ Len(c) = Len(cache) + 1
      /\ \A k \in 1 .. Len(c) : c[k].seq = (seq + 1) - Len(c) + k
  <2>1. e \in [seq : Nat, retx : Nat] BY <1>1
  <2>2. /\ c \in Seq([seq : Nat, retx : Nat]) /\ Len(c) = Len(cache) + 1
        /\ \A k \in 1 .. Len(c) : c[k] = IF k <= Len(cache) THEN cache[k] ELSE e
    BY <1>1, <2>1
  <2>3. \A k \in 1 .. Len(cache) : cache[k].seq = seq - Len(cache) + k BY DEF IInv, CacheRuns
  <2>4. ASSUME NEW k \in 1 .. Len(c) PROVE c[k].seq = (seq + 1) - Len(c) + k
    <3>1. CASE k <= Len(cache)
      <4>1. k \in 1 .. Len(cache) BY <3>1, <1>1
      <4>2. c[k].seq = seq - Len(cache) + k BY <2>2, <2>3, <3>1, <4>1
      <4>3. QED BY <4>2, <1>1, <2>2
    <3>2. CASE ~(k <= Len(cache))
      <4>1. k = Len(c) /\ c[k].seq = seq + 1 BY <3>2, <1>1, <2>2
      <4>2. QED BY <4>1, <1>1, <2>2
    <3>3. QED BY <3>1, <3>2
  <2>5. QED BY <2>2, <2>4
<1> HIDE DEF c
<1>4. /\ cache' \in Seq([seq : Nat, retx : Nat])
      /\ \A k \in 1 .. Len(cache') : cache'[k].seq = (seq + 1) - Len(cache') + k
  <2>1. CASE ~(Len(c) > ARQ_CACHE)
    <3>1. cache' = c BY <2>1, <1>2 DEF Kept
    <3>2. QED BY <3>1, <1>3
  <2>2. CASE Len(c) > ARQ_CACHE
    <3> DEFINE b == Len(c) - ARQ_CACHE
    <3>1. b \in Nat /\ b + 1 \in 1 .. Len(c) + 1 /\ Len(c) \in Nat BY <2>2, <1>1, <1>3
    <3>2. cache' = SubSeq(c, b + 1, Len(c)) BY <2>2, <1>2 DEF Kept
    <3>3. /\ cache' \in Seq([seq : Nat, retx : Nat]) /\ Len(cache') = Len(c) - b
          /\ \A k \in 1 .. Len(c) - b : cache'[k] = c[b + k]
      <4> HIDE DEF b
      <4>1. /\ SubSeq(c, b + 1, Len(c)) \in Seq([seq : Nat, retx : Nat])
            /\ Len(SubSeq(c, b + 1, Len(c))) = Len(c) - b
            /\ \A k \in 1 .. Len(c) - b : SubSeq(c, b + 1, Len(c))[k] = c[b + k]
        <5> DEFINE S == [seq : Nat, retx : Nat]
        <5>1. /\ b + 1 \in Int /\ Len(c) \in Int /\ b + 1 <= Len(c) + 1
              /\ Len(c) - (b + 1) + 1 = Len(c) - b
          BY <3>1
        <5>2. \A i \in b + 1 .. Len(c) : c[i] \in S
          <6>1. TAKE i \in b + 1 .. Len(c)
          <6>2. i \in 1 .. Len(c) BY <3>1
          <6> HIDE DEF S
          <6>3. c \in Seq(S) BY <1>3 DEF S
          <6>4. QED BY <6>2, <6>3, ElementOfSeq
        <5> HIDE DEF S
        <5>3. /\ SubSeq(c, b + 1, Len(c)) \in Seq(S)
              /\ Len(SubSeq(c, b + 1, Len(c)))
                   = IF b + 1 <= Len(c) THEN Len(c) - (b + 1) + 1 ELSE 0
              /\ \A i \in 1 .. Len(c) - (b + 1) + 1 : SubSeq(c, b + 1,
                 Len(c))[i] = c[(b + 1) + i - 1]
          BY <5>1, <5>2, SubSeqProperties
        <5>4. Len(SubSeq(c, b + 1, Len(c))) = Len(c) - b
          <6>1. b + 1 <= Len(c) \/ Len(c) - b = 0 BY <3>1
          <6>2. ~(b + 1 <= Len(c)) => Len(c) - b = 0 BY <3>1
          <6>3. QED BY <5>1, <5>3, <6>2
        <5>5. ASSUME NEW k \in 1 .. Len(c) - b PROVE SubSeq(c, b + 1, Len(c))[k] = c[b + k]
          <6>1. k \in 1 .. Len(c) - (b + 1) + 1 /\ (b + 1) + k - 1 = b + k BY <3>1, <5>1
          <6>2. QED BY <5>3, <6>1
        <5>6. QED BY <5>3, <5>4, <5>5 DEF S
      <4>2. QED BY <3>2, <4>1
    <3> HIDE DEF b
    <3>4. ASSUME NEW k \in 1 .. Len(cache') PROVE cache'[k].seq = (seq + 1) - Len(cache') + k
      <4>1. b + k \in 1 .. Len(c) /\ cache'[k] = c[b + k] BY <3>1, <3>3
      <4>2. c[b + k].seq = (seq + 1) - Len(c) + (b + k) BY <4>1, <1>3
      <4>3. QED BY <4>1, <4>2, <3>1, <3>3, <1>1
    <3>5. QED BY <3>3, <3>4
  <2>3. QED BY <2>1, <2>2
<1>5. TypeOK' BY <1>1, <1>4 DEF IInv, TypeOK, Send, receiver
<1>6. CacheRuns' BY <1>1, <1>4 DEF CacheRuns
<1>7. Queued' BY <1>1 DEF IInv, Queued, Send
<1>8. QED
  BY <1>5, <1>6, <1>7 DEF IInv, Send, receiver, NothingYet, InStep, AskedBehind, UnderWay,
     UnderWayOnce, ReadAsItself, Young

\* What is left of a queue whose first is taken.
Shorter(q) ==
  /\ Tail(q) \in Seq(Nat) /\ Len(Tail(q)) = Len(q) - 1 /\ Len(q) \in Nat
  /\ \A i \in 1 .. Len(Tail(q)) : i + 1 \in 1 .. Len(q) /\ Tail(q)[i] = q[i + 1]

LEMMA TailIs == ASSUME NEW q \in Seq(Nat), q # <<>> PROVE Shorter(q)
BY HeadTailProperties DEF Shorter

\* A NACK that is lost is under way no more.
LEMMA AskLostKeeps == ASSUME LinkArqAssumption, IInv, AskLost PROVE IInv'
<1>1. asks \in Seq(Nat) /\ asks # <<>> /\ asks' = Tail(asks) BY DEF IInv, TypeOK, AskLost
<1>2. Shorter(asks) BY <1>1, TailIs
<1>3. /\ UNCHANGED <<seq, cache, heard, retries, lastSeq, nacks, delivered, offset>>
  BY DEF AskLost, sender, receiver
<1>4. /\ asks' \in Seq(Nat)
      /\ \A i \in 1 .. Len(asks') : i \in Nat /\ i + 1 \in 1 .. Len(asks) /\ asks'[i] = asks[i + 1]
  BY <1>1, <1>2 DEF Shorter
<1>5. TypeOK' /\ NothingYet'
  BY <1>1, <1>3, <1>4 DEF IInv, TypeOK, NothingYet
<1>6. UnderWay' BY <1>3, <1>4 DEF IInv, UnderWay, Young
<1>7. UnderWayOnce'
  <2>1. ASSUME NEW i \in 1 .. Len(asks'), NEW j \in 1 .. Len(asks'), asks'[i] = asks'[j] PROVE i = j
    <3>1. i + 1 = j + 1 BY <2>1, <1>4 DEF IInv, UnderWayOnce
    <3>2. QED BY <3>1, <1>4
  <2>2. ASSUME NEW i \in 1 .. Len(asks'), NEW j \in 1 .. Len(retries')
        PROVE  asks'[i] + offset' # retries'[j]
    BY <1>3, <1>4 DEF IInv, UnderWayOnce
  <2>3. \A i, j \in 1 .. Len(retries') : retries'[i] = retries'[j] => i = j
    BY <1>3 DEF IInv, UnderWayOnce
  <2>4. QED BY <2>1, <2>2, <2>3 DEF UnderWayOnce
<1>8. QED
  BY <1>3, <1>5, <1>6, <1>7 DEF IInv, Queued, CacheRuns, InStep, AskedBehind, ReadAsItself

\* So is a retry that is lost.
LEMMA LoseRetryKeeps == ASSUME LinkArqAssumption, IInv, LoseRetry PROVE IInv'
<1>1. retries \in Seq(Nat) /\ retries # <<>> /\ retries' = Tail(retries)
  BY DEF IInv, TypeOK, LoseRetry
<1>2. Shorter(retries) BY <1>1, TailIs
<1>3. /\ UNCHANGED <<seq, cache, heard, asks, lastSeq, nacks, delivered, offset>>
  BY DEF LoseRetry, sender, receiver
<1>4. /\ retries' \in Seq(Nat)
      /\ \A i \in 1 .. Len(retries') :
           i \in Nat /\ i + 1 \in 1 .. Len(retries) /\ retries'[i] = retries[i + 1]
  BY <1>1, <1>2 DEF Shorter
<1>5. TypeOK' /\ NothingYet'
  BY <1>1, <1>3, <1>4 DEF IInv, TypeOK, NothingYet
<1>6. UnderWay' BY <1>3, <1>4 DEF IInv, UnderWay, Young
<1>7. UnderWayOnce'
  <2>1. ASSUME NEW i \in 1 .. Len(retries'), NEW j \in 1 .. Len(retries'),
               retries'[i] = retries'[j] PROVE i = j
    <3>1. i + 1 = j + 1 BY <2>1, <1>4 DEF IInv, UnderWayOnce
    <3>2. QED BY <3>1, <1>4
  <2>2. ASSUME NEW i \in 1 .. Len(asks'), NEW j \in 1 .. Len(retries')
        PROVE  asks'[i] + offset' # retries'[j]
    BY <1>3, <1>4 DEF IInv, UnderWayOnce
  <2>3. \A i, j \in 1 .. Len(asks') : asks'[i] = asks'[j] => i = j
    BY <1>3 DEF IInv, UnderWayOnce
  <2>4. QED BY <2>1, <2>2, <2>3 DEF UnderWayOnce
<1>8. QED
  BY <1>3, <1>5, <1>6, <1>7 DEF IInv, Queued, CacheRuns, InStep, AskedBehind, ReadAsItself

\* A NACK grows old once nothing is under way for it.
LEMMA NackAgesKeeps == ASSUME LinkArqAssumption, IInv, NackAges PROVE IInv'
<1>1. /\ UNCHANGED <<seq, cache, asks, heard, retries, lastSeq, delivered, offset>>
  BY DEF NackAges, sender
<1>2. PICK n \in DOMAIN nacks :
        IF nacks[n] = "young"
        THEN ~Under(n) /\ nacks' = [nacks EXCEPT ![n] = "old"]
        ELSE nacks' = Restrict(nacks, DOMAIN nacks \ {n})
  BY DEF NackAges
<1>3. DOMAIN nacks \subseteq Nat /\ nacks \in [DOMAIN nacks -> Ages] BY DEF IInv, TypeOK
<1>4. /\ DOMAIN nacks' \subseteq DOMAIN nacks /\ nacks' \in [DOMAIN nacks' -> Ages]
      /\ \A k \in Nat : Young(k) /\ Under(k) => k \in DOMAIN nacks' /\ nacks'[k] = "young"
  <2>1. CASE nacks[n] = "young"
    <3>1. ~Under(n) /\ nacks' = [nacks EXCEPT ![n] = "old"] BY <2>1, <1>2
    <3>2. QED BY <3>1, <1>3 DEF Ages, Young
  <2>2. CASE nacks[n] # "young"
    <3>1. nacks' = [k \in DOMAIN nacks \ {n} |-> nacks[k]] BY <2>2, <1>2 DEF Restrict
    <3>2. QED BY <3>1, <2>2, <1>3 DEF Young
  <2>3. QED BY <2>1, <2>2
<1>5. TypeOK' BY <1>1, <1>3, <1>4 DEF IInv, TypeOK
<1>6. NothingYet' /\ AskedBehind' BY <1>1, <1>4 DEF IInv, NothingYet, AskedBehind
<1>7. UnderWay'
  <2>1. ASSUME NEW i \in 1 .. Len(asks)
        PROVE  asks[i] \in DOMAIN nacks' /\ nacks'[asks[i]] = "young"
    <3>1. asks \in Seq(Nat) /\ asks[i] \in Range(asks) /\ asks[i] \in Nat
      BY DEF IInv, TypeOK, Range
    <3>2. Young(asks[i]) BY DEF IInv, UnderWay
    <3>3. QED BY <3>1, <3>2, <1>4 DEF Under
  <2>2. ASSUME NEW i \in 1 .. Len(retries)
        PROVE  retries[i] - offset \in DOMAIN nacks' /\ nacks'[retries[i] - offset] = "young"
    <3>1. retries \in Seq(Nat) /\ retries[i] \in Range(retries) /\ retries[i] \in Nat
      BY DEF IInv, TypeOK, Range
    <3>2. retries[i] - offset \in Nat /\ Young(retries[i] - offset) BY DEF IInv, UnderWay
    <3>3. lastSeq # None BY <3>1 DEF IInv, NothingYet
    <3>4. offset \in Int BY <3>3 DEF IInv, InStep
    <3>5. (retries[i] - offset) + offset = retries[i] BY <3>1, <3>4
    <3>6. Under(retries[i] - offset) BY <3>1, <3>5 DEF Under
    <3>7. QED BY <3>2, <3>6, <1>4
  <2>3. QED BY <2>1, <2>2, <1>1 DEF IInv, UnderWay, Young
<1>8. QED
  BY <1>1, <1>5, <1>6, <1>7 DEF IInv, Queued, CacheRuns, InStep, UnderWayOnce, ReadAsItself

\* A new block is lost.
LEMMA LoseNewKeeps == ASSUME LinkArqAssumption, IInv, LoseNew PROVE IInv'
<1>1. /\ UNCHANGED <<seq, cache, asks, retries, lastSeq, nacks, delivered, offset>>
      /\ heard' = heard + 1 /\ heard < seq /\ heard \in Nat /\ seq \in Nat /\ MaxQueued \in Nat
  BY DEF LoseNew, sender, receiver, IInv, TypeOK, LinkArqAssumption
<1>2. TypeOK' BY <1>1 DEF IInv, TypeOK
<1>3. Queued' BY <1>1 DEF IInv, Queued
<1>4. PICK h \in Nat : h = heard' /\ h = heard + 1 BY <1>1
<1>5. InStep'
  <2>1. ASSUME lastSeq # None
        PROVE  /\ offset \in Int /\ \E k \in Int : offset = MOD * k
               /\ lastSeq + offset <= h /\ h - (lastSeq + offset) <= LongestLoss
    <3>1. /\ offset \in Int /\ lastSeq \in Nat /\ lastSeq + offset <= heard
          /\ \E k \in Int : offset = MOD * k
      BY <2>1 DEF IInv, InStep, TypeOK
    <3>2. heard + 1 - (lastSeq + offset) <= LongestLoss BY <2>1 DEF LoseNew
    <3>3. h - (lastSeq + offset) <= LongestLoss
      <4>1. heard \in Nat /\ LongestLoss \in Nat BY <1>1 DEF LinkArqAssumption
      <4>2. QED BY <3>1, <3>2, <4>1, <1>4
    <3>4. lastSeq + offset <= h BY <3>1, <1>4, <1>1
    <3>5. QED BY <3>1, <3>3, <3>4
  <2>2. QED BY <2>1, <1>4, <1>1 DEF InStep
<1>6. UnderWay'
  <2>1. asks \in Seq(Nat) /\ retries \in Seq(Nat) BY DEF IInv, TypeOK
  <2>2. ASSUME asks # <<>> PROVE offset \in Int
    BY <2>2 DEF IInv, NothingYet, InStep
  <2>3. ASSUME NEW i \in 1 .. Len(asks) PROVE h - (asks[i] + offset) <= LatestRetry
    <3>1. asks[i] \in Range(asks) /\ asks # <<>> BY <2>1 DEF Range
    <3>2. heard + 1 - (asks[i] + offset) <= LatestRetry BY <3>1 DEF LoseNew, InTime
    <3>3. PICK x \in Nat : x = asks[i] BY <2>1, ElementOfSeq
    <3>4. offset \in Int /\ heard \in Nat /\ LatestRetry \in Nat
      BY <2>2, <3>1, <1>1 DEF LinkArqAssumption
    <3>5. h - (x + offset) <= LatestRetry BY <3>2, <3>3, <3>4, <1>4
    <3>6. QED BY <3>3, <3>5
  <2>4. ASSUME NEW i \in 1 .. Len(retries) PROVE h - retries[i] <= LatestRetry
    <3>1. retries[i] \in Range(retries) BY <2>1 DEF Range
    <3>2. heard + 1 - retries[i] <= LatestRetry BY <3>1 DEF LoseNew, InTime
    <3>3. PICK x \in Nat : x = retries[i] BY <2>1, ElementOfSeq
    <3>4. heard \in Nat /\ LatestRetry \in Nat BY <1>1 DEF LinkArqAssumption
    <3>5. h - x <= LatestRetry BY <3>2, <3>3, <3>4, <1>4
    <3>6. QED BY <3>3, <3>5
  <2>5. QED BY <2>3, <2>4, <1>4, <1>1 DEF IInv, UnderWay, Young
<1>7. QED
  BY <1>1, <1>2, <1>3, <1>5, <1>6 DEF IInv, CacheRuns, NothingYet, AskedBehind, UnderWayOnce,
     ReadAsItself

\* A NACK is answered, with the block it was sent for, once.
LEMMA AnswerKeeps ==
  ASSUME LinkArqAssumption, LinkTrusted, IInv, Answer(FALSE) PROVE IInv'
<1> DEFINE n == Head(asks)   k == NewestMatch(n)   q == cache[k].seq
<1>1. /\ UNCHANGED <<seq, heard, lastSeq, nacks, delivered, offset>>
      /\ asks \in Seq(Nat) /\ asks # <<>> /\ asks' = Tail(asks)
  BY DEF IInv, TypeOK, Answer, receiver
<1>2. Shorter(asks) BY <1>1, TailIs
<1>3. /\ asks' \in Seq(Nat)
      /\ \A i \in 1 .. Len(asks') : i \in Nat /\ i + 1 \in 1 .. Len(asks) /\ asks'[i] = asks[i + 1]
      /\ 1 \in 1 .. Len(asks) /\ n = asks[1] /\ n \in Nat
  BY <1>1, <1>2 DEF Shorter
<1>4. lastSeq # None BY <1>1 DEF IInv, NothingYet
<1>5. offset \in Int /\ heard \in Nat /\ LatestRetry \in Nat /\ retries \in Seq(Nat)
  BY <1>4 DEF IInv, InStep, TypeOK, LinkArqAssumption
<1>6. NothingYet' /\ Queued' /\ InStep' /\ AskedBehind' /\ ReadAsItself'
  BY <1>1, <1>4 DEF IInv, NothingYet, Queued, InStep, AskedBehind, ReadAsItself
\* The NACKs that wait.
<1>7. \A i \in 1 .. Len(asks') : Young(asks'[i]) /\ heard - (asks'[i] + offset) <= LatestRetry
  BY <1>3 DEF IInv, UnderWay
<1>8. ASSUME NEW i \in 1 .. Len(asks'), NEW j \in 1 .. Len(asks'), asks'[i] = asks'[j] PROVE i = j
  <2>1. i + 1 = j + 1 BY <1>3, <1>8 DEF IInv, UnderWayOnce
  <2>2. QED BY <2>1, <1>3
<1>9. \A i \in 1 .. Len(asks') : asks'[i] # n
  <2>1. TAKE i \in 1 .. Len(asks')
  <2>2. i + 1 # 1 BY <1>3
  <2>3. QED BY <2>2, <1>3 DEF IInv, UnderWayOnce
\* The block is not sent again ...
<1>10. CASE UNCHANGED <<cache, retries>>
  <2>1. TypeOK' /\ CacheRuns' BY <1>1, <1>3, <1>10 DEF IInv, TypeOK, CacheRuns
  <2>2. UnderWay' BY <1>1, <1>7, <1>10 DEF IInv, UnderWay, Young
  <2>3. UnderWayOnce'
    <3>1. ASSUME NEW i \in 1 .. Len(asks'), NEW j \in 1 .. Len(retries')
          PROVE  asks'[i] + offset' # retries'[j]
      BY <1>1, <1>3, <1>10 DEF IInv, UnderWayOnce
    <3>2. QED BY <3>1, <1>8, <1>10 DEF IInv, UnderWayOnce
  <2>4. QED BY <2>1, <2>2, <2>3, <1>6 DEF IInv
\* ... or it is.
<1>11. CASE /\ Matches(n) # {} /\ cache' = [cache EXCEPT ![k].retx = @ + 1]
            /\ retries' = retries \o <<q>>
  <2>1. k \in 1 .. Len(cache) /\ q = n + offset BY <1>1, <1>11, AnswersIt
  <2>2. cache \in Seq([seq : Nat, retx : Nat]) BY DEF IInv, TypeOK
  <2>3. cache[k] \in [seq : Nat, retx : Nat]
    <3> HIDE DEF k
    <3>1. QED BY <2>1, <2>2, ElementOfSeq
  <2>4. /\ cache' \in Seq([seq : Nat, retx : Nat]) /\ Len(cache') = Len(cache)
        /\ \A j \in 1 .. Len(cache) : cache'[j].seq = cache[j].seq
    <3> DEFINE e == [cache[k] EXCEPT !.retx = @ + 1]
    <3>1. e \in [seq : Nat, retx : Nat] /\ e.seq = cache[k].seq BY <2>3
    <3>2. cache' = [cache EXCEPT ![k] = e] BY <1>11
    <3> HIDE DEF e, k, q
    <3>3. QED BY <2>1, <2>2, <3>1, <3>2
  <2>5. CacheRuns' BY <2>4, <1>1 DEF IInv, CacheRuns
  <2>6. q \in Nat BY <2>3
  <2> HIDE DEF k, q
  <2>7. /\ retries' \in Seq(Nat) /\ Len(retries') = Len(retries) + 1
        /\ \A i \in 1 .. Len(retries') :
             retries'[i] = IF i = Len(retries) + 1 THEN q ELSE retries[i]
        /\ \A i \in 1 .. Len(retries') : i # Len(retries) + 1 => i \in 1 .. Len(retries)
    BY <2>6, <1>5, <1>11
  <2>8. TypeOK' BY <1>1, <1>3, <2>4, <2>7 DEF IInv, TypeOK
  <2>9. q - offset = n /\ heard - q <= LatestRetry /\ Young(n)
    <3>1. Young(n) /\ heard - (n + offset) <= LatestRetry BY <1>3 DEF IInv, UnderWay
    <3>2. q - offset = n BY <1>3, <1>5, <2>1
    <3>3. QED BY <3>1, <3>2, <2>1
  <2>10. UnderWay'
    <3>1. ASSUME NEW i \in 1 .. Len(retries')
          PROVE  /\ retries'[i] - offset \in Nat /\ Young(retries'[i] - offset)
                 /\ heard - retries'[i] <= LatestRetry
      <4>1. CASE i = Len(retries) + 1 BY <4>1, <2>7, <2>9, <1>3
      <4>2. CASE i # Len(retries) + 1
        <5>1. i \in 1 .. Len(retries) /\ retries'[i] = retries[i] BY <4>2, <2>7
        <5>2. QED BY <5>1 DEF IInv, UnderWay
      <4>3. QED BY <4>1, <4>2
    <3>2. QED BY <3>1, <1>1, <1>7 DEF UnderWay, Young
  <2>11. \A j \in 1 .. Len(retries) : retries[j] # q BY <1>3, <2>1 DEF IInv, UnderWayOnce
  <2>12. UnderWayOnce'
    <3>1. ASSUME NEW i \in 1 .. Len(retries'), NEW j \in 1 .. Len(retries'),
                 retries'[i] = retries'[j]
          PROVE  i = j
      <4>1. CASE i = Len(retries) + 1 BY <4>1, <3>1, <2>7, <2>11
      <4>2. CASE j = Len(retries) + 1 BY <4>2, <3>1, <2>7, <2>11
      <4>3. CASE i # Len(retries) + 1 /\ j # Len(retries) + 1
        <5>1. /\ i \in 1 .. Len(retries) /\ j \in 1 .. Len(retries) /\ retries[i] = retries[j]
          BY <4>3, <3>1, <2>7
        <5>2. QED BY <5>1 DEF IInv, UnderWayOnce
      <4>4. QED BY <4>1, <4>2, <4>3
    <3>2. ASSUME NEW i \in 1 .. Len(asks'), NEW j \in 1 .. Len(retries')
          PROVE  asks'[i] + offset # retries'[j]
      <4>1. CASE j = Len(retries) + 1
        <5>1. PICK x \in Nat : x = asks'[i]
          <6>1. asks' \in Seq(Nat) BY <1>3
          <6>2. QED BY <6>1, ElementOfSeq
        <5>2. x # n /\ n \in Nat BY <5>1, <1>3, <1>9
        <5>3. retries'[j] = n + offset BY <4>1, <2>1, <2>7
        <5> HIDE DEF n
        <5>4. x + offset # n + offset BY ONLY <5>2, <1>5
        <5>5. QED BY <5>1, <5>3, <5>4
      <4>2. CASE j # Len(retries) + 1
        <5>1. j \in 1 .. Len(retries) /\ retries'[j] = retries[j] BY <4>2, <2>7
        <5>2. i + 1 \in 1 .. Len(asks) /\ asks'[i] = asks[i + 1] BY <1>3
        <5>3. asks[i + 1] + offset # retries[j] BY <5>1, <5>2 DEF IInv, UnderWayOnce
        <5>4. QED BY <5>1, <5>2, <5>3
      <4>3. QED BY <4>1, <4>2
    <3>3. QED BY <3>1, <3>2, <1>1, <1>8 DEF UnderWayOnce
  <2>13. QED BY <1>6, <2>5, <2>8, <2>10, <2>12 DEF IInv
<1>12. QED BY <1>10, <1>11 DEF Answer

\* The first block that is read sets the receiver's numbering, whole turns behind.
LEMMA FirstKeeps ==
  ASSUME LinkArqAssumption, LinkTrusted, IInv, lastSeq = None, NEW readable \in BOOLEAN,
         heard < seq, heard' = heard + 1, Captured(heard + 1, readable),
         UNCHANGED <<sender, retries>>
  PROVE  IInv'
<1> DEFINE s == heard + 1   r == s % MOD   o == s - r
<1>1. /\ heard \in Nat /\ seq \in Nat /\ s \in Nat /\ MOD \in Nat \ {0}
      /\ {LongestLoss, LatestRetry, MaxQueued} \subseteq Nat
  <2>1. heard \in Nat /\ seq \in Nat BY DEF IInv, TypeOK
  <2>2. s \in Nat BY <2>1
  <2>3. QED BY <2>1, <2>2 DEF LinkArqAssumption
<1>2. r \in Nat /\ o \in Int /\ \E k \in Int : o = MOD * k
  <2>1. s \div MOD \in Int /\ r \in 0 .. MOD - 1 /\ s = MOD * (s \div MOD) + r BY <1>1, Division
  <2>2. o = MOD * (s \div MOD) BY <2>1, <1>1, Z3
  <2>3. r \in Nat /\ o \in Int BY <2>1, <1>1
  <2>4. QED BY <2>1, <2>2, <2>3
<1>3. /\ asks = <<>> /\ retries = <<>> /\ DOMAIN nacks = {} /\ DOMAIN delivered = {}
      /\ offset = None
  BY DEF IInv, NothingYet
<1>4. r # None /\ o # None BY <1>2 DEF LinkArqAssumption
<1> HIDE DEF r, o
<1>5. Resolve(s % MOD) = r BY DEF Resolve, r
<1>6. Asked(r) = {} BY DEF Asked, Gap
<1>7. /\ lastSeq' = r /\ offset' = o /\ retries' = retries /\ seq' = seq /\ cache' = cache
  BY <1>3, <1>5 DEF Captured, Newest, sender, o
<1>8. PICK N \in SUBSET {r} :
        /\ SendNacks(N) /\ DOMAIN nacks' = N /\ \A n \in N : nacks'[n] = "young"
        /\ nacks' = [n \in N |-> nacks'[n]]
  <2> DEFINE answered == Restrict(Opened(Asked(r)), (DOMAIN nacks \cup Asked(r)) \ {r})
  <2>1. answered = [n \in {} |-> Opened(Asked(r))[n]] /\ DOMAIN answered = {}
    BY <1>3, <1>6 DEF Restrict
  <2>2. \/ SendNacks({}) /\ nacks' = answered
        \/ /\ SendNacks({r})
           /\ nacks' = [n \in {r} |-> IF n = r THEN "young" ELSE answered[n]]
    <3>1. r \notin DOMAIN delivered BY <1>3
    <3>2. \/ SendNacks(Asked(r)) /\ nacks' = answered
          \/ /\ SendNacks(Asked(r) \cup {r})
             /\ nacks' = [n \in DOMAIN answered \cup {r} |-> IF n = r THEN "young" ELSE answered[n]]
      BY <3>1, <1>5 DEF Captured
    <3> HIDE DEF answered
    <3>3. Asked(r) \cup {r} = {r} /\ DOMAIN answered \cup {r} = {r} BY <1>6, <2>1
    <3>4. QED BY <3>2, <3>3, <1>6
  <2>3. CASE SendNacks({}) /\ nacks' = answered
    <3>1. nacks' = [n \in {} |-> nacks'[n]] BY <2>1, <2>3
    <3>2. QED BY <3>1, <2>1, <2>3
  <2>4. CASE SendNacks({r}) /\ nacks' = [n \in {r} |-> IF n = r THEN "young" ELSE answered[n]]
    <3> HIDE DEF answered
    <3>1. QED BY <2>4
  <2>5. QED BY <2>2, <2>3, <2>4
<1>9. /\ asks' \in Seq(Nat) /\ \A i \in 1 .. Len(asks') : asks'[i] \in N
      /\ \A i, j \in 1 .. Len(asks') : asks'[i] = asks'[j] => i = j
  <2>1. asks \in Seq(Nat) /\ \A i \in 1 .. Len(asks) : FALSE BY <1>3
  <2>2. N \in SUBSET Nat BY <1>2
  <2>3. IsFiniteSet(N)
    <3>1. IsFiniteSet({r}) BY FS_Singleton
    <3>2. QED BY <3>1, FS_Subset
  <2>4. QED BY <2>1, <2>2, <2>3, <1>8, AsksGrow
<1>10. TypeOK'
  <2>1. DOMAIN nacks' \subseteq Nat BY <1>2, <1>8
  <2>2. nacks' \in [DOMAIN nacks' -> Ages] BY <1>8 DEF Ages
  <2>3. QED BY <2>1, <2>2, <1>1, <1>2, <1>7, <1>9 DEF IInv, TypeOK
<1>11. InStep'
  <2>1. PICK h \in Nat : h = heard' /\ h = s BY <1>1
  <2>2. r + o = s BY <1>1, <1>2 DEF o
  <2>3. r + o <= h /\ h - (r + o) <= LongestLoss BY <1>1, <1>2, <2>1, <2>2
  <2>4. QED BY <2>1, <2>3, <1>2, <1>7 DEF InStep
<1>12. UnderWay'
  <2>1. PICK h \in Nat : h = heard' /\ h = s BY <1>1
  <2>2. h - (r + o) <= LatestRetry
    <3>1. r + o = s BY <1>1, <1>2 DEF o
    <3>2. QED BY <1>1, <1>2, <2>1, <3>1
  <2>3. ASSUME NEW i \in 1 .. Len(asks')
        PROVE  /\ asks'[i] \in DOMAIN nacks' /\ nacks'[asks'[i]] = "young"
               /\ h - (asks'[i] + o) <= LatestRetry
    <3>1. asks'[i] = r /\ r \in N BY <1>8, <1>9
    <3>2. QED BY <3>1, <2>2, <1>8
  <2>4. \A i \in 1 .. Len(retries') : FALSE BY <1>3, <1>7
  <2>5. QED BY <2>1, <2>3, <2>4, <1>7 DEF UnderWay, Young
<1>13. UnderWayOnce'
  <2>1. \A i \in 1 .. Len(retries') : FALSE BY <1>3, <1>7
  <2>2. QED BY <2>1, <1>9 DEF UnderWayOnce
<1>14. ReadAsItself'
  <2>1. \/ delivered' = delivered
        \/ delivered' = [n \in DOMAIN delivered \cup {r} |-> IF n = r THEN s ELSE delivered[n]]
    BY <1>5 DEF Captured
  <2>2. s = r + o BY <1>1, <1>2 DEF o
  <2>3. QED BY <2>1, <2>2, <1>3, <1>7 DEF ReadAsItself
<1>15. NothingYet' /\ AskedBehind'
  <2>1. \A n \in DOMAIN nacks' : n <= r BY <1>2, <1>8
  <2>2. QED BY <2>1, <1>4, <1>7 DEF NothingYet, AskedBehind
<1>16. Queued' BY <1>1, <1>7 DEF IInv, Queued
<1>17. CacheRuns' BY <1>7 DEF IInv, CacheRuns
<1>18. QED BY <1>10, <1>11, <1>12, <1>13, <1>14, <1>15, <1>16, <1>17 DEF IInv

\* The next new block is captured.
LEMMA HearNewKeeps ==
  ASSUME LinkArqAssumption, LinkTrusted, IInv, NEW readable \in BOOLEAN, HearNew(readable)
  PROVE  IInv'
<1> DEFINE s == heard + 1
<1>1. /\ heard < seq /\ heard' = s /\ Captured(s, readable) /\ UNCHANGED <<sender, retries>>
      /\ seq' = seq /\ cache' = cache /\ retries' = retries
  BY DEF HearNew, sender
<1>2. CASE lastSeq = None BY <1>1, <1>2, FirstKeeps
<1>3. CASE lastSeq # None
  <2>1. /\ heard \in Nat /\ seq \in Nat /\ s \in Nat /\ lastSeq \in Nat /\ offset \in Int
        /\ LatestRetry \in Nat /\ asks \in Seq(Nat) /\ retries \in Seq(Nat)
        /\ lastSeq + offset <= heard
    <3>1. heard \in Nat /\ seq \in Nat /\ asks \in Seq(Nat) /\ retries \in Seq(Nat)
      BY DEF IInv, TypeOK
    <3>2. lastSeq \in Nat /\ offset \in Int /\ lastSeq + offset <= heard
      BY <1>3 DEF IInv, TypeOK, InStep
    <3>3. QED BY <3>1, <3>2 DEF LinkArqAssumption
  <2>2. Resolve(s % MOD) = s - offset
    <3>1. Resolve((heard + 1) % MOD) = heard + 1 - offset BY <1>3, ReadsNew
    <3>2. QED BY <3>1, <2>1
  <2>3. s - offset \in Nat BY <2>1
  <2>4. PICK h \in Nat : h = heard' /\ h = s BY <1>1, <2>1
  <2>5. ASSUME NEW i \in 1 .. Len(asks)
        PROVE  asks[i] + offset # s /\ h - (asks[i] + offset) <= LatestRetry
    <3>1. asks[i] \in Nat /\ asks[i] \in Range(asks) BY <2>1 DEF Range
    <3>2. Young(asks[i]) BY DEF IInv, UnderWay
    <3>3. asks[i] <= lastSeq BY <3>2, <1>3 DEF IInv, AskedBehind, Young
    <3>4. heard + 1 - (asks[i] + offset) <= LatestRetry BY <3>1 DEF HearNew, InTime
    <3>5. PICK x \in Nat : x = asks[i] BY <3>1
    <3>6. x <= lastSeq /\ heard + 1 - (x + offset) <= LatestRetry BY <3>3, <3>4, <3>5
    <3>7. x + offset # heard + 1 /\ h - (x + offset) <= LatestRetry
      <4>1. h = heard + 1 BY <2>4
      <4>2. QED BY ONLY <4>1, <3>6, <2>1
    <3>8. QED BY <3>5, <3>7
  <2>6. ASSUME NEW i \in 1 .. Len(retries)
        PROVE  retries[i] # s /\ h - retries[i] <= LatestRetry
    <3>1. retries[i] \in Nat /\ retries[i] \in Range(retries) BY <2>1 DEF Range
    <3>2. retries[i] - offset \in Nat /\ Young(retries[i] - offset) BY DEF IInv, UnderWay
    <3>3. retries[i] - offset <= lastSeq BY <3>2, <1>3 DEF IInv, AskedBehind, Young
    <3>4. heard + 1 - retries[i] <= LatestRetry BY <3>1 DEF HearNew, InTime
    <3>5. PICK x \in Nat : x = retries[i] BY <3>1
    <3>6. x - offset <= lastSeq /\ heard + 1 - x <= LatestRetry BY <3>3, <3>4, <3>5
    <3>7. x # heard + 1 /\ h - x <= LatestRetry
      <4>1. h = heard + 1 BY <2>4
      <4>2. QED BY ONLY <4>1, <3>6, <2>1
    <3>8. QED BY <3>5, <3>7
  <2>7. s <= h /\ h - s <= LatestRetry BY <2>1, <2>4
  <2>8. /\ heard' \in {heard, heard + 1} /\ heard' <= seq
        /\ heard' = heard + 1 => s = heard + 1
    BY <1>1, <2>1
  <2>9. /\ \A i \in 1 .. Len(asks) :
             asks[i] + offset # s /\ heard' - (asks[i] + offset) <= LatestRetry
        /\ \A i \in 1 .. Len(retries') :
             /\ retries'[i] # s /\ heard' - retries'[i] <= LatestRetry
             /\ \E j \in 1 .. Len(retries) : retries'[i] = retries[j]
        /\ s <= heard' /\ heard' - s <= LatestRetry
    BY <1>1, <2>4, <2>5, <2>6, <2>7
  <2>10. /\ retries' \in Seq(Nat)
         /\ \A i, j \in 1 .. Len(retries') : retries'[i] = retries'[j] => i = j
    BY <1>1, <2>1 DEF IInv, UnderWayOnce
  <2> HIDE DEF s
  <2>11. QED BY <1>1, <1>3, <2>1, <2>2, <2>3, <2>8, <2>9, <2>10, CapturedKeeps
<1>4. QED BY <1>2, <1>3

\* A retry is captured.
LEMMA HearRetryKeeps ==
  ASSUME LinkArqAssumption, LinkTrusted, IInv, NEW readable \in BOOLEAN, HearRetry(readable)
  PROVE  IInv'
<1> DEFINE s == Head(retries)
<1>1. /\ retries # <<>> /\ retries' = Tail(retries) /\ Captured(s, readable)
      /\ seq' = seq /\ cache' = cache /\ heard' = heard
      /\ retries \in Seq(Nat) /\ asks \in Seq(Nat)
  BY DEF HearRetry, sender, IInv, TypeOK
<1>2. Shorter(retries) BY <1>1, TailIs
<1>3. /\ retries' \in Seq(Nat)
      /\ \A i \in 1 .. Len(retries') : /\ i \in Nat /\ i + 1 \in 1 .. Len(retries) /\ i + 1 # 1
                                       /\ retries'[i] = retries[i + 1]
      /\ 1 \in 1 .. Len(retries) /\ s = retries[1] /\ s \in Nat
  BY <1>1, <1>2 DEF Shorter
<1>4. lastSeq # None BY <1>1 DEF IInv, NothingYet
<1>5. /\ heard \in Nat /\ seq \in Nat /\ heard <= seq /\ lastSeq \in Nat /\ offset \in Int
      /\ lastSeq + offset <= heard
  BY <1>4 DEF IInv, TypeOK, InStep, Queued
<1>6. Resolve(s % MOD) = s - offset BY <1>1, ReadsRetry
<1>7. s - offset \in Nat /\ Young(s - offset) /\ heard - s <= LatestRetry BY <1>3 DEF IInv, UnderWay
<1>8. s <= heard
  <2>1. s - offset <= lastSeq BY <1>4, <1>7 DEF IInv, AskedBehind, Young
  <2> HIDE DEF s
  <2>2. QED BY <2>1, <1>3, <1>5
<1> HIDE DEF s
<1>9. \A i \in 1 .. Len(asks) : asks[i] + offset # s /\ heard - (asks[i] + offset) <= LatestRetry
  BY <1>3 DEF IInv, UnderWay, UnderWayOnce
<1>10. \A i \in 1 .. Len(retries') :
         /\ retries'[i] # s /\ heard - retries'[i] <= LatestRetry
         /\ \E j \in 1 .. Len(retries) : retries'[i] = retries[j]
  BY <1>3 DEF IInv, UnderWay, UnderWayOnce
<1>11. ASSUME NEW i \in 1 .. Len(retries'), NEW j \in 1 .. Len(retries'), retries'[i] = retries'[j]
       PROVE  i = j
  <2>1. i + 1 = j + 1 BY <1>3, <1>11 DEF IInv, UnderWayOnce
  <2>2. QED BY <2>1, <1>3
<1>12. /\ heard' \in {heard, heard + 1} /\ heard' <= seq /\ s <= heard'
       /\ heard' = heard + 1 => s = heard + 1
  BY <1>1, <1>5, <1>8
<1>13. QED
  BY <1>1, <1>3, <1>4, <1>6, <1>7, <1>9, <1>10, <1>11, <1>12, CapturedKeeps

-----------------------------------------------------------------------------
(* What holds throughout.                                                  *)

LEMMA Inductive ==
  ASSUME LinkArqAssumption, LinkTrusted PROVE Spec => []IInv
<1>1. Init => IInv BY InitIInv
<1>2. IInv /\ [Next]_vars => IInv'
  <2> SUFFICES ASSUME IInv, [Next]_vars PROVE IInv' OBVIOUS
  <2>1. CASE Send BY <2>1, SendKeeps
  <2>2. CASE AskLost BY <2>2, AskLostKeeps
  <2>3. ASSUME NEW copied \in {FALSE, Dup}, Answer(copied) PROVE IInv'
    <3>1. copied = FALSE BY DEF LinkTrusted, LinkArqAssumption
    <3>2. Answer(FALSE) BY <2>3, <3>1
    <3>3. QED BY <3>2, AnswerKeeps
  <2>4. CASE LoseNew BY <2>4, LoseNewKeeps
  <2>5. CASE LoseRetry BY <2>5, LoseRetryKeeps
  <2>6. ASSUME NEW readable \in BOOLEAN, HearNew(readable) PROVE IInv' BY <2>6, HearNewKeeps
  <2>7. ASSUME NEW readable \in BOOLEAN, HearRetry(readable) PROVE IInv' BY <2>7, HearRetryKeeps
  <2>8. CASE NackAges BY <2>8, NackAgesKeeps
  <2>9. CASE UNCHANGED vars
    BY <2>9 DEF vars, sender, receiver, IInv, TypeOK, Queued, CacheRuns, NothingYet, InStep,
       AskedBehind, UnderWay, UnderWayOnce, ReadAsItself, Young
  <2>10. QED BY <2>1, <2>2, <2>3, <2>4, <2>5, <2>6, <2>7, <2>8, <2>9 DEF Next
<1>3. QED BY <1>1, <1>2, PTL DEF Spec

\* resolve_link_seq gives a block its own number, whether it came in its turn or as a retry that
\* is late by less than a turn, whatever was lost, asked for, answered or overtaken meanwhile.
THEOREM AlwaysReadAsItself ==
  ASSUME LinkArqAssumption, LinkTrusted PROVE Spec => []ReadAsItself
<1>1. IInv => ReadAsItself BY DEF IInv
<1>2. QED BY <1>1, Inductive, PTL

\* The receiver never takes a number, nor asks for one, of a block that was not sent.
THEOREM AlwaysNeverAhead ==
  ASSUME LinkArqAssumption, LinkTrusted PROVE Spec => []NeverAhead
<1>1. IInv => NeverAhead
  <2> SUFFICES ASSUME IInv PROVE NeverAhead OBVIOUS
  <2>1. lastSeq # None => lastSeq + offset <= heard BY DEF IInv, InStep
  <2>2. ASSUME NEW n \in DOMAIN nacks \cup Range(asks) PROVE n + offset <= heard
    <3>1. n \in DOMAIN nacks
      <4>1. CASE n \in Range(asks)
        <5>1. asks \in Seq(Nat) BY DEF IInv, TypeOK
        <5>2. DOMAIN asks = 1 .. Len(asks) BY <5>1, LenProperties
        <5>3. PICK i \in 1 .. Len(asks) : n = asks[i] BY <4>1, <5>2 DEF Range
        <5>4. Young(asks[i]) BY DEF IInv, UnderWay
        <5>5. QED BY <5>3, <5>4 DEF Young
      <4>2. QED BY <4>1
    <3>2. lastSeq # None BY <3>1 DEF IInv, NothingYet
    <3>3. n \in Nat /\ n <= lastSeq BY <3>1, <3>2 DEF IInv, TypeOK, AskedBehind
    <3>4. lastSeq \in Nat /\ heard \in Nat /\ offset \in Int /\ lastSeq + offset <= heard
      BY <3>2 DEF IInv, TypeOK, InStep
    <3>5. QED BY <3>3, <3>4
  <2>3. QED BY <2>1, <2>2 DEF NeverAhead
<1>2. QED BY <1>1, Inductive, PTL

-----------------------------------------------------------------------------
(* The blocks demodulated here: Harq, with names of its own.               *)

CONSTANTS
  SoftMod, SoftHalf, SoftFar, SoftSpan, SoftNacks, SoftCache, SoftRetx,
  HARQ_CAP, DELIVERED_CAP, SUBFRAMES, FRAME, MaxBlocks, MaxOnAir, MaxBad, MaxRestarts

VARIABLES copies, life, softSeq, softCache, air, softAsks, rx, bad

Soft == INSTANCE Harq WITH
  MOD <- SoftMod, HALF <- SoftHalf, FAR <- SoftFar, NACK_SPAN <- SoftSpan, NACK_CAP <- SoftNacks,
  ARQ_CACHE <- SoftCache, MAX_RETX <- SoftRetx, seq <- softSeq, cache <- softCache,
  asks <- softAsks

\* A set of numbers has a smallest one.
LEMMA Smallest ==
  ASSUME NEW S \in SUBSET Nat, S # {}
  PROVE  \E x \in S : \A y \in S : x <= y
<1>1. PICK x \in S : \A y \in S : <<y, x>> \notin OpToRel(<, Nat)
  BY WFMin, NatLessThanWellFounded
<1>2. ASSUME NEW y \in S PROVE x <= y
  <2>1. ~(y < x) BY <1>1 DEF OpToRel
  <2>2. x \in Nat /\ y \in Nat OBVIOUS
  <2>3. QED BY <2>1, <2>2
<1>3. QED BY <1>2

\* The constants of Harq, as the proofs use them.
Sizes ==
  /\ SoftMod \in Nat \ {0} /\ SoftHalf \in Nat \ {0} /\ SoftFar \in Nat \ {0}
  /\ SoftSpan \in Nat \ {0} /\ SoftNacks \in Nat \ {0} /\ SoftCache \in Nat \ {0}
  /\ SoftRetx \in Nat \ {0} /\ HARQ_CAP \in Nat \ {0} /\ DELIVERED_CAP \in Nat \ {0}
  /\ SUBFRAMES \in Nat \ {0} /\ FRAME \in Nat \ {0} /\ MaxBlocks \in Nat \ {0}

Blocks == [life : Nat, seq : Nat]

\* What demod_loop keeps, by field.
Holds(r) ==
  /\ r = [last |-> r.last, newest |-> r.newest, nacked |-> r.nacked, soft |-> r.soft,
          order |-> r.order, delivered |-> r.delivered, sends |-> r.sends,
          follows |-> r.follows, turn |-> r.turn, whole |-> r.whole, handed |-> r.handed,
          twice |-> r.twice]
  /\ r.last \in Int /\ r.newest \in Blocks /\ r.delivered \in Seq(Int) /\ r.sends \in Seq(Int)
  /\ r.follows \in Nat /\ r.turn \in Nat

\* The history: nothing is of a turn to come, all that came clean was handed on, none twice.
Fine(r) ==
  /\ \A h \in r.handed : h.turn \in Nat /\ h.turn <= r.turn
  /\ \A b \in r.whole : \E h \in r.handed : h.b = b
  /\ ~r.twice

\* How far the receiver's numbers are behind those of the blocks.
Off(r) == r.newest.seq - r.last
Own(r, n) == [life |-> r.follows, seq |-> n]
Now(r, b) == [b |-> b, turn |-> r.turn]

\* Numbers in the order they were delivered: none is far below one before it, and the newest is
\* above all of them.
Recent(d, top) ==
  /\ Len(d) <= DELIVERED_CAP
  /\ \A i \in 1 .. Len(d) : d[i] <= top
  /\ \A i, j \in 1 .. Len(d) : i < j => d[i] # d[j] /\ d[j] > d[i] - SoftHalf

\* A receiver that has had a block and only blocks of the numbering it follows: its numbers are
\* whole turns behind theirs, each delivered one was handed on and each soft buffer holds its own
\* block's transmissions, and what was handed on lately is remembered.
Numbered(r) ==
  /\ r.last \in Nat /\ r.newest.life = r.follows /\ \E k \in Int : Off(r) = SoftMod * k
  /\ \A i \in 1 .. Len(r.delivered) : Now(r, Own(r, r.delivered[i] + Off(r))) \in r.handed
  /\ \A n \in DOMAIN r.soft :
       n \in Int /\ r.soft[n] \in Seq([b : {Own(r, n + Off(r))}, q : Soft!Qualities])
  /\ \A h \in r.handed : h.turn = r.turn /\ h.b.life = r.follows =>
       /\ h.b.seq \in Nat /\ h.b.seq <= r.newest.seq
       /\ h.b.seq > r.newest.seq - SoftHalf
            => \E i \in 1 .. Len(r.delivered) : h.b.seq = r.delivered[i] + Off(r)
  /\ Recent(r.delivered, r.last)

\* One that has had nothing since it follows.
Blank(r) ==
  /\ r.last = Soft!Nothing /\ r.delivered = <<>> /\ DOMAIN r.soft = {}
  /\ \A h \in r.handed : h.turn # r.turn

Pure(r) == Blank(r) \/ Numbered(r)

\* A block within half a turn of the newest, and no more ahead than is believed.
Near(r, s) ==
  r.newest.seq - s < SoftHalf /\ s - r.newest.seq <= SoftFar /\ s >= Off(r)

LEMMA LargerOf ==
  ASSUME NEW a \in Int, NEW b \in Int
  PROVE  Soft!Max({a, b}) = IF a >= b THEN a ELSE b
<1> DEFINE m == IF a >= b THEN a ELSE b
<1>1. m \in {a, b} /\ \A y \in {a, b} : m >= y OBVIOUS
<1>2. ASSUME NEW x \in {a, b}, \A y \in {a, b} : x >= y PROVE x = m BY <1>2
<1> HIDE DEF m
<1>3. (CHOOSE x \in {a, b} : \A y \in {a, b} : x >= y) = m BY <1>1, <1>2
<1>4. QED BY <1>3 DEF Soft!Max, m

LEMMA SmallerOf ==
  ASSUME NEW a \in Int, NEW b \in Int
  PROVE  Soft!Min({a, b}) = IF a <= b THEN a ELSE b
<1> DEFINE m == IF a <= b THEN a ELSE b
<1>1. m \in {a, b} /\ \A y \in {a, b} : m <= y OBVIOUS
<1>2. ASSUME NEW x \in {a, b}, \A y \in {a, b} : x <= y PROVE x = m BY <1>2
<1> HIDE DEF m
<1>3. (CHOOSE x \in {a, b} : \A y \in {a, b} : x <= y) = m BY <1>1, <1>2
<1>4. QED BY <1>3 DEF Soft!Min, m

\* A number read near the newest is the block's own (resolve_link_seq).
LEMMA ResolvesNear ==
  ASSUME Sizes, Soft!Trusted, NEW r, Holds(r), Numbered(r), NEW s \in Nat, Near(r, s)
  PROVE  Soft!Resolve(s % SoftMod, r) = s - Off(r) /\ s - Off(r) \in Nat
<1>0. Sizes OBVIOUS
<1>1. PICK t \in Nat : t = r.newest.seq BY DEF Holds, Blocks
<1>2. PICK l \in Nat : l = r.last BY DEF Numbered
<1>3. PICK k \in Int : t - l = SoftMod * k BY <1>1, <1>2 DEF Numbered, Off
<1> DEFINE m == SoftMod   d == s - t   q == (s % m) - l
<1>4. /\ m \in Nat \ {0} /\ SoftHalf \in Nat /\ SoftFar \in Nat
      /\ 2 * SoftHalf <= m /\ SoftFar <= SoftHalf
  BY <1>0 DEF Sizes, Soft!Trusted
<1>5. d > -SoftHalf /\ d <= SoftFar /\ s >= t - l /\ d \in Int BY <1>1, <1>2, <1>4 DEF Near, Off
<1> DEFINE a == s \div m   b == s % m
<1>6. a \in Int /\ b \in 0 .. m - 1 /\ s = m * a + b BY <1>4, Division
<1> HIDE DEF a, b
<1>7. b - l = m * (k - a) + d BY <1>3, <1>6, <1>4, Z3
<1>8. d >= 0 => (b - l) % m = d
  <2>1. d >= 0 => d \in 0 .. m - 1 /\ k - a \in Int BY <1>4, <1>5, <1>6
  <2>2. QED BY <2>1, <1>4, <1>7, Remainder
<1>9. d < 0 => (b - l) % m = m + d
  <2>1. d < 0 => m + d \in 0 .. m - 1 /\ k - a - 1 \in Int BY <1>4, <1>5, <1>6
  <2>2. m * (k - a) + d = m * (k - a - 1) + (m + d) BY <1>4, <1>5, <1>6, Z3
  <2>3. QED BY <2>1, <2>2, <1>4, <1>7, Remainder
<1> DEFINE up == (b - l) % m   dd == IF up > SoftHalf THEN up - m ELSE up
<1>10. dd = d
  <2>1. CASE d >= 0 BY <2>1, <1>8, <1>4, <1>5
  <2>2. CASE d < 0
    <3>1. up = m + d BY <2>2, <1>9
    <3> HIDE DEF up
    <3>2. up > SoftHalf BY <3>1, <1>4, <1>5
    <3>3. QED BY <3>1, <3>2, <1>4, <1>5
  <2>3. QED BY <2>1, <2>2, <1>5
<1>11. l + d = s - (t - l) /\ s - (t - l) \in Nat BY <1>5, <1>2, <1>1
<1>12. Soft!Max({l + dd, 0}) = s - (t - l)
  <2>1. Soft!Max({s - (t - l), 0}) = s - (t - l) BY <1>11, LargerOf
  <2>2. QED BY <1>10, <1>11, <2>1
<1>13. ~(dd > SoftFar) BY <1>10, <1>4, <1>5
<1>14. r.last # Soft!Nothing BY <1>2 DEF Soft!Nothing
<1>15. ((s % SoftMod) - r.last) % SoftMod = up BY <1>2 DEF b
<1> HIDE DEF up
<1>16. Soft!Resolve(s % SoftMod, r) = s - (t - l)
  BY <1>2, <1>12, <1>13, <1>14, <1>15 DEF Soft!Resolve
<1>17. QED BY <1>1, <1>2, <1>11, <1>16 DEF Off

\* The first number is taken as it comes.
LEMMA ResolvesFirst ==
  ASSUME Sizes, NEW r, r.last = Soft!Nothing, NEW s \in Nat
  PROVE  /\ Soft!Resolve(s % SoftMod, r) = s % SoftMod /\ s % SoftMod \in Nat
         /\ \E k \in Int : s - (s % SoftMod) = SoftMod * k
<1>0. SoftMod \in Nat \ {0} BY DEF Sizes
<1> DEFINE a == s \div SoftMod   b == s % SoftMod
<1>1. a \in Int /\ b \in 0 .. SoftMod - 1 /\ s = SoftMod * a + b BY <1>0, Division
<1>3. s % SoftMod \in Nat BY <1>0, <1>1
<1> HIDE DEF a
<1>2. s - (s % SoftMod) = SoftMod * a
  <2> HIDE DEF b
  <2>1. s - b = SoftMod * a BY <1>0, <1>1, Z3
  <2>2. QED BY <2>1 DEF b
<1>4. Soft!Resolve(s % SoftMod, r) = s % SoftMod BY DEF Soft!Resolve
<1>5. QED BY <1>1, <1>2, <1>3, <1>4

\* Whatever is read is a number.
LEMMA ResolvesAny ==
  ASSUME Sizes, NEW r, r.last \in Int, NEW s \in Nat
  PROVE  Soft!Resolve(s % SoftMod, r) \in Int
<1>0. SoftMod \in Nat \ {0} /\ SoftHalf \in Nat BY DEF Sizes
<1>1. s % SoftMod \in Int BY <1>0, Division
<1> DEFINE up == ((s % SoftMod) - r.last) % SoftMod
           d == IF up > SoftHalf THEN up - SoftMod ELSE up
<1>2. up \in Int BY <1>0, <1>1, Division
<1> HIDE DEF up
<1>3. d \in Int BY <1>0, <1>2
<1> HIDE DEF d
<1>4. PICK a \in Int : a = Soft!Max({r.last + d, 0})
  <2>1. r.last + d \in Int /\ 0 \in Int BY <1>3
  <2>2. QED BY <2>1, LargerOf
<1>5. a - SoftMod \in Int BY <1>0
<1>6. QED BY <1>1, <1>4, <1>5 DEF Soft!Resolve, d, up

\* What a step of a frame leaves as it is.
Unmoved(x, r) ==
  /\ x.last = r.last /\ x.newest = r.newest /\ x.follows = r.follows /\ x.turn = r.turn
  /\ x.whole = r.whole

\* NACKs change what is asked for.
LEMMA AskIs ==
  ASSUME NEW r, Holds(r), NEW numbers \in Seq(Int)
  PROVE  LET x == Soft!Ask(r, numbers)
         IN /\ Holds(x) /\ Unmoved(x, r)
            /\ x.delivered = r.delivered /\ x.soft = r.soft /\ x.handed = r.handed
            /\ x.twice = r.twice
<1> DEFINE x == Soft!Ask(r, numbers)
<1>1. x = [r EXCEPT !.nacked = @ \cup Soft!ToSet(numbers), !.sends = @ \o numbers] BY DEF Soft!Ask
<1>2. r.sends \o numbers \in Seq(Int) BY ConcatProperties DEF Holds
<1> HIDE DEF x
<1>3. /\ x.last = r.last /\ x.newest = r.newest /\ x.soft = r.soft /\ x.order = r.order
      /\ x.delivered = r.delivered /\ x.sends = r.sends \o numbers /\ x.follows = r.follows
      /\ x.turn = r.turn /\ x.whole = r.whole /\ x.handed = r.handed /\ x.twice = r.twice
  BY <1>1 DEF Holds
<1>4. x = [last |-> x.last, newest |-> x.newest, nacked |-> x.nacked, soft |-> x.soft,
           order |-> x.order, delivered |-> x.delivered, sends |-> x.sends,
           follows |-> x.follows, turn |-> x.turn, whole |-> x.whole, handed |-> x.handed,
           twice |-> x.twice]
  BY <1>1 DEF Holds
<1>5. Holds(x) BY <1>2, <1>3, <1>4 DEF Holds
<1>6. QED BY <1>3, <1>5 DEF x, Unmoved

\* The numbers asked for are numbers.
LEMMA MissingTyped ==
  ASSUME NEW r, Holds(r), NEW full \in Int
  PROVE  Soft!Missing(r, full) \in Seq(Int)
<1>1. <<>> \in Seq(Int) BY EmptySeq
<1>2. ASSUME full > r.last + 1 PROVE [k \in 1 .. full - r.last - 1 |-> r.last + k] \in Seq(Int)
  <2>1. full - r.last - 1 \in Nat BY <1>2 DEF Holds
  <2>2. \A k \in 1 .. full - r.last - 1 : r.last + k \in Int BY <2>1 DEF Holds
  <2>3. QED BY <2>1, <2>2, IsASeq
<1>3. QED BY <1>1, <1>2 DEF Soft!Missing

\* A number is noted: the newest is kept.
LEMMA NotedIs ==
  ASSUME NEW r, Holds(r), NEW full \in Int, NEW b \in Blocks
  PROVE  LET x == Soft!Noted(r, full, b)
             newer == r.last = Soft!Nothing \/ full > r.last
         IN /\ Holds(x) /\ x.follows = r.follows /\ x.turn = r.turn /\ x.whole = r.whole
            /\ x.delivered = r.delivered /\ x.soft = r.soft /\ x.handed = r.handed
            /\ x.twice = r.twice
            /\ x.last = IF newer THEN full ELSE r.last
            /\ x.newest = IF newer THEN b ELSE r.newest
<1> DEFINE x == Soft!Noted(r, full, b)
           newer == r.last = Soft!Nothing \/ full > r.last
           a == Soft!Ask(r, Soft!Missing(r, full))
<1>1. x = [a EXCEPT !.nacked = @ \ {full}, !.last = IF newer THEN full ELSE @,
                    !.newest = IF newer THEN b ELSE @]
  BY DEF Soft!Noted
<1>2. /\ Holds(a) /\ Unmoved(a, r) /\ a.delivered = r.delivered /\ a.soft = r.soft
      /\ a.handed = r.handed /\ a.twice = r.twice
  BY MissingTyped, AskIs
<1> HIDE DEF x, a, newer
<1>3. /\ x.last = IF newer THEN full ELSE a.last
      /\ x.newest = IF newer THEN b ELSE a.newest
      /\ x.soft = a.soft /\ x.order = a.order /\ x.delivered = a.delivered /\ x.sends = a.sends
      /\ x.follows = a.follows /\ x.turn = a.turn /\ x.whole = a.whole /\ x.handed = a.handed
      /\ x.twice = a.twice
  BY <1>1, <1>2 DEF Holds
<1>4. x = [last |-> x.last, newest |-> x.newest, nacked |-> x.nacked, soft |-> x.soft,
           order |-> x.order, delivered |-> x.delivered, sends |-> x.sends,
           follows |-> x.follows, turn |-> x.turn, whole |-> x.whole, handed |-> x.handed,
           twice |-> x.twice]
  BY <1>1, <1>2 DEF Holds
<1>5. x.last \in Int /\ x.newest \in Blocks BY <1>2, <1>3 DEF Holds
<1>6. Holds(x) BY <1>2, <1>3, <1>4, <1>5 DEF Holds
<1>7. QED BY <1>2, <1>3, <1>6 DEF x, Unmoved, newer

\* A buffer is put in: the others stay or go.
LEMMA InsertedIs ==
  ASSUME NEW r, Holds(r), NEW full \in Int, NEW buffer
  PROVE  LET x == Soft!Inserted(r, full, buffer)
         IN /\ Holds(x) /\ Unmoved(x, r)
            /\ x.delivered = r.delivered /\ x.handed = r.handed /\ x.twice = r.twice
            /\ DOMAIN x.soft \subseteq DOMAIN r.soft \cup {full}
            /\ \A k \in DOMAIN x.soft : x.soft[k] = IF k = full THEN buffer ELSE r.soft[k]
<1> DEFINE x == Soft!Inserted(r, full, buffer)
           held == [k \in DOMAIN r.soft \cup {full} |-> IF k = full THEN buffer ELSE r.soft[k]]
<1>1. PICK kept, gone : x = [r EXCEPT !.order = kept,
                                      !.soft = Soft!Restrict(held, DOMAIN held \ gone)]
  BY DEF Soft!Inserted
<1> HIDE DEF x
<1>2. /\ x.last = r.last /\ x.newest = r.newest /\ x.nacked = r.nacked
      /\ x.soft = [k \in DOMAIN held \ gone |-> held[k]]
      /\ x.delivered = r.delivered /\ x.sends = r.sends /\ x.follows = r.follows
      /\ x.turn = r.turn /\ x.whole = r.whole /\ x.handed = r.handed /\ x.twice = r.twice
  BY <1>1 DEF Holds, Soft!Restrict
<1>3. x = [last |-> x.last, newest |-> x.newest, nacked |-> x.nacked, soft |-> x.soft,
           order |-> x.order, delivered |-> x.delivered, sends |-> x.sends,
           follows |-> x.follows, turn |-> x.turn, whole |-> x.whole, handed |-> x.handed,
           twice |-> x.twice]
  BY <1>1 DEF Holds
<1>4. Holds(x) BY <1>2, <1>3 DEF Holds
<1>5. /\ DOMAIN x.soft \subseteq DOMAIN r.soft \cup {full}
      /\ \A k \in DOMAIN x.soft : x.soft[k] = IF k = full THEN buffer ELSE r.soft[k]
  BY <1>2
<1>6. QED BY <1>2, <1>4, <1>5 DEF x, Unmoved

\* The rest of a sequence.
LEMMA RestIs ==
  ASSUME NEW s \in Seq(Int), NEW m \in Int, m >= 1
  PROVE  LET e == SubSeq(s, m, Len(s))
         IN /\ e \in Seq(Int) /\ Len(e) = IF m <= Len(s) THEN Len(s) - m + 1 ELSE 0
            /\ \A i \in 1 .. Len(s) - m + 1 : e[i] = s[m + i - 1]
<1>1. Len(s) \in Int OBVIOUS
<1>2. \A i \in m .. Len(s) : s[i] \in Int OBVIOUS
<1> DEFINE e == SubSeq(s, m, Len(s))
<1>3. /\ e \in Seq(Int)
      /\ Len(e) = IF m <= Len(s) THEN Len(s) - m + 1 ELSE 0
      /\ \A i \in 1 .. Len(s) - m + 1 : e[i] = s[m + i - 1]
  BY ONLY <1>1, <1>2, SubSeqProperties, m \in Int
<1>4. QED BY <1>3

\* What is remembered after a delivery: the oldest makes room.
LEMMA RememberedIs ==
  ASSUME Sizes, NEW r, Holds(r), Len(r.delivered) <= DELIVERED_CAP, NEW full \in Int, NEW f
  PROVE  LET d == r.delivered   e == Soft!Remembered(r, full, f)
         IN /\ e \in Seq(Int)
            /\ Len(d) < DELIVERED_CAP =>
                 /\ Len(e) = Len(d) + 1
                 /\ \A i \in 1 .. Len(d) + 1 : e[i] = IF i <= Len(d) THEN d[i] ELSE full
            /\ Len(d) = DELIVERED_CAP =>
                 /\ Len(e) = Len(d)
                 /\ \A i \in 1 .. Len(d) : e[i] = IF i < Len(d) THEN d[i + 1] ELSE full
<1> DEFINE d == r.delivered   a == Append(d, full)
<1>0. DELIVERED_CAP \in Nat \ {0} BY DEF Sizes
<1>1. d \in Seq(Int) /\ Len(d) \in Nat BY DEF Holds
<1>2. /\ a \in Seq(Int) /\ Len(a) = Len(d) + 1 /\ a[Len(d) + 1] = full
      /\ \A i \in 1 .. Len(d) : a[i] = d[i]
  BY <1>1, AppendProperties
<1> HIDE DEF a
<1> DEFINE from == Soft!Max({1, Len(a) - DELIVERED_CAP + 1})   e == SubSeq(a, from, Len(a))
<1>3. Soft!Remembered(r, full, f) = e BY DEF Soft!Remembered, a
<1>4. from = IF 1 >= Len(a) - DELIVERED_CAP + 1 THEN 1 ELSE Len(a) - DELIVERED_CAP + 1
  <2>1. 1 \in Int /\ Len(a) - DELIVERED_CAP + 1 \in Int BY <1>0, <1>1, <1>2
  <2>2. QED BY <2>1, LargerOf
<1> HIDE DEF from
<1>5. from \in {1, 2} /\ (Len(d) < DELIVERED_CAP => from = 1)
        /\ (Len(d) = DELIVERED_CAP => from = 2)
  <2>1. PICK k \in Nat : k = Len(d) BY <1>1
  <2>2. k \in Nat /\ k <= DELIVERED_CAP /\ Len(a) = k + 1 BY <2>1, <1>2
  <2>3. from = IF 1 >= k + 1 - DELIVERED_CAP + 1 THEN 1 ELSE k + 1 - DELIVERED_CAP + 1
    BY ONLY <2>2, <1>0, <1>4
  <2>4. from \in {1, 2} /\ (k < DELIVERED_CAP => from = 1) /\ (k = DELIVERED_CAP => from = 2)
    BY ONLY <2>2, <2>3, <1>0
  <2>5. QED BY <2>1, <2>4
<1>6. from \in Int /\ from >= 1 BY <1>5
<1>7. /\ e \in Seq(Int) /\ Len(e) = IF from <= Len(a) THEN Len(a) - from + 1 ELSE 0
      /\ \A i \in 1 .. Len(a) - from + 1 : e[i] = a[from + i - 1]
  BY <1>2, <1>6, RestIs
<1> HIDE DEF e
<1>8. CASE Len(d) < DELIVERED_CAP
  <2>1. from = 1 /\ Len(e) = Len(d) + 1 BY <1>8, <1>1, <1>2, <1>5, <1>7
  <2>2. ASSUME NEW i \in 1 .. Len(d) + 1 PROVE e[i] = IF i <= Len(d) THEN d[i] ELSE full
    <3>1. e[i] = a[i] BY <2>1, <1>1, <1>2, <1>7
    <3>2. CASE i <= Len(d)
      <4>1. i \in 1 .. Len(d) BY <3>2, <1>1
      <4>2. e[i] = d[i] BY <3>1, <4>1, <1>2
      <4>3. QED BY <3>2, <4>2
    <3>3. CASE i = Len(d) + 1
      <4>1. e[i] = full BY <3>1, <3>3, <1>2
      <4>2. ~(i <= Len(d)) BY <3>3, <1>1
      <4>3. QED BY <4>1, <4>2
    <3>4. QED BY <3>2, <3>3, <1>1
  <2>3. QED BY <1>3, <1>7, <1>8, <2>1, <2>2, <1>1
<1>9. CASE Len(d) = DELIVERED_CAP
  <2>1. from = 2 /\ Len(e) = Len(d) BY <1>9, <1>0, <1>1, <1>2, <1>5, <1>7
  <2>2. ASSUME NEW i \in 1 .. Len(d) PROVE e[i] = IF i < Len(d) THEN d[i + 1] ELSE full
    <3>1. e[i] = a[i + 1] BY <2>1, <1>1, <1>2, <1>7
    <3>2. CASE i < Len(d)
      <4>1. i + 1 \in 1 .. Len(d) BY <3>2, <1>1
      <4>2. e[i] = d[i + 1] BY <3>1, <4>1, <1>2
      <4>3. QED BY <3>2, <4>2
    <3>3. CASE i = Len(d)
      <4>1. e[i] = full BY <3>1, <3>3, <1>2
      <4>2. ~(i < Len(d)) BY <3>3, <1>1
      <4>3. QED BY <4>1, <4>2
    <3>4. QED BY <3>2, <3>3, <1>1
  <2>3. QED BY <1>3, <1>7, <1>9, <2>1, <2>2, <1>1
<1>10. QED BY <1>0, <1>1, <1>8, <1>9

\* A block goes to the funnel.
Hands(r, full, f, x) ==
  /\ Holds(x) /\ Unmoved(x, r)
  /\ x.delivered = Soft!Remembered(r, full, f)
  /\ x.soft = [k \in DOMAIN r.soft \ {full} |-> r.soft[k]]
  /\ x.handed = r.handed \cup {Now(r, f.b)}
  /\ x.twice = (r.twice \/ (f.b.life = r.follows /\ Now(r, f.b) \in r.handed))

LEMMA DeliveredIs ==
  ASSUME NEW r, Holds(r), NEW full \in Int, NEW f, Soft!Remembered(r, full, f) \in Seq(Int)
  PROVE  Hands(r, full, f, Soft!Delivered(r, full, f))
<1> DEFINE x == Soft!Delivered(r, full, f)   d == Soft!Remembered(r, full, f)   w == Now(r, f.b)
<1>1. PICK order : Soft!Removed(r, full) = [r EXCEPT !.soft = Soft!Restrict(@, DOMAIN @ \ {full}),
                                                     !.order = order]
  BY DEF Soft!Removed
<1>2. x = [Soft!Removed(r, full) EXCEPT
             !.delivered = d, !.handed = @ \cup {w},
             !.twice = @ \/ (f.b.life = r.follows /\ w \in r.handed)]
  BY DEF Soft!Delivered, Now
<1> DEFINE y == Soft!Removed(r, full)
<1> HIDE DEF x, y, d, w
<1>3. /\ y = [last |-> r.last, newest |-> r.newest, nacked |-> r.nacked,
              soft |-> [k \in DOMAIN r.soft \ {full} |-> r.soft[k]],
              order |-> order, delivered |-> r.delivered, sends |-> r.sends,
              follows |-> r.follows, turn |-> r.turn, whole |-> r.whole, handed |-> r.handed,
              twice |-> r.twice]
  BY <1>1 DEF Holds, Soft!Restrict, y
<1>4. /\ x.last = r.last /\ x.newest = r.newest /\ x.nacked = r.nacked
      /\ x.soft = [k \in DOMAIN r.soft \ {full} |-> r.soft[k]]
      /\ x.delivered = d /\ x.sends = r.sends /\ x.follows = r.follows
      /\ x.turn = r.turn /\ x.whole = r.whole /\ x.handed = r.handed \cup {w}
  BY <1>2, <1>3 DEF y
<1>5. x.twice = (r.twice \/ (f.b.life = r.follows /\ w \in r.handed)) BY <1>2, <1>3 DEF y
<1>6. x = [last |-> x.last, newest |-> x.newest, nacked |-> x.nacked, soft |-> x.soft,
           order |-> x.order, delivered |-> x.delivered, sends |-> x.sends,
           follows |-> x.follows, turn |-> x.turn, whole |-> x.whole, handed |-> x.handed,
           twice |-> x.twice]
  BY <1>2, <1>3 DEF y
<1>7. Holds(x) BY <1>4, <1>6 DEF Holds, d
<1>8. QED BY <1>4, <1>5, <1>7 DEF x, d, w, Unmoved, Hands

\* As many numbers as are remembered, and one more, do not fit within half a turn on either side of
\* the oldest: it is far below the newest.
LEMMA OldestIsFar ==
  ASSUME Sizes, Soft!Trusted, NEW d \in Seq(Int), Len(d) = DELIVERED_CAP,
         NEW top \in Int, Recent(d, top),
         NEW n \in Int, n <= top, top - n < SoftHalf, \A i \in 1 .. Len(d) : d[i] # n
  PROVE  d[1] <= top - SoftHalf
<1>0. DELIVERED_CAP \in Nat \ {0} /\ SoftHalf \in Nat \ {0} BY DEF Sizes
<1> SUFFICES ASSUME d[1] > top - SoftHalf PROVE FALSE
  BY <1>0
<1> DEFINE c == DELIVERED_CAP
           a == [i \in 1 .. c + 1 |-> IF i <= c THEN d[i] ELSE n]
           S == d[1] - SoftHalf + 1 .. d[1] + SoftHalf - 1
<1>1. \A i \in 1 .. c : d[i] \in Int /\ d[i] <= top BY DEF Recent
<1>2. d[1] \in Int /\ d[1] <= top BY <1>0, <1>1
<1>3. \A i, j \in 1 .. c : i < j => d[i] # d[j] /\ d[j] > d[i] - SoftHalf BY DEF Recent
<1>4. \A i \in 1 .. c : d[i] > d[1] - SoftHalf
  <2> TAKE i \in 1 .. c
  <2>1. CASE i = 1 BY <2>1, <1>0, <1>2
  <2>2. CASE i # 1
    <3>1. 1 \in 1 .. c /\ 1 < i BY <2>2, <1>0
    <3>2. QED BY <3>1, <1>3
  <2>3. QED BY <2>1, <2>2
<1>5. ASSUME NEW i \in 1 .. c + 1 PROVE a[i] \in S
  <2>1. CASE i <= c
    <3>1. i \in 1 .. c BY <2>1, <1>0
    <3>2. d[i] > d[1] - SoftHalf /\ d[i] <= top /\ d[i] \in Int BY <3>1, <1>1, <1>4
    <3>3. d[i] \in S BY <3>2, <1>0, <1>2
    <3>4. QED BY <2>1, <3>3
  <2>2. CASE ~(i <= c)
    <3>1. n \in S BY <1>0, <1>2
    <3>2. QED BY <2>2, <3>1
  <2>3. QED BY <2>1, <2>2
<1>6. ASSUME NEW i \in 1 .. c + 1, NEW j \in 1 .. c + 1, i < j PROVE a[i] # a[j]
  <2>1. i \in 1 .. c BY <1>0, <1>6
  <2>2. CASE j <= c
    <3>1. j \in 1 .. c BY <2>2, <1>0
    <3>2. QED BY <2>1, <3>1, <1>3, <1>6
  <2>3. CASE ~(j <= c) BY <2>1, <2>3, <1>0
  <2>4. QED BY <2>2, <2>3
<1>7. a \in [1 .. c + 1 -> S] BY <1>5
<1>8. \A i, j \in 1 .. c + 1 : a[i] = a[j] => i = j
  <2> SUFFICES ASSUME NEW i \in 1 .. c + 1, NEW j \in 1 .. c + 1, i # j PROVE a[i] # a[j]
    OBVIOUS
  <2>1. i < j \/ j < i BY <1>0
  <2>2. QED BY <2>1, <1>6
<1> HIDE DEF a
<1>9. a \in Injection(1 .. c + 1, S)
  BY <1>7, <1>8 DEF Injection, IsInjective
<1>10. IsFiniteSet(S) /\ Cardinality(S) = 2 * SoftHalf - 1
  <2>1. PICK x \in Int, y \in Int : x = d[1] - SoftHalf + 1 /\ y = d[1] + SoftHalf - 1
    BY <1>0, <1>2
  <2>2. y - x + 1 = 2 * SoftHalf - 1 /\ ~(x > y) BY <2>1, <1>0, <1>2
  <2>3. IsFiniteSet(x .. y) /\ Cardinality(x .. y) = IF x > y THEN 0 ELSE y - x + 1
    BY FS_Interval
  <2>4. QED BY <2>1, <2>2, <2>3
<1>11. Cardinality(1 .. c + 1) = c + 1
  <2>1. 1 \in Int /\ c + 1 \in Int BY <1>0
  <2>2. QED BY <2>1, <1>0, FS_Interval
<1>12. Cardinality(1 .. c + 1) <= Cardinality(S) BY <1>9, <1>10, FS_Injection
<1>13. QED BY <1>0, <1>10, <1>11, <1>12 DEF Soft!Trusted

\* What is remembered after the delivery of a new number near the newest.
Remembering(r, full, e) ==
  LET d == r.delivered
  IN /\ e \in Seq(Int) /\ Recent(e, r.last)
     /\ \E i \in 1 .. Len(e) : e[i] = full
     /\ \A i \in 1 .. Len(e) : e[i] = full \/ \E j \in 1 .. Len(d) : e[i] = d[j]
     /\ \A j \in 1 .. Len(d) : d[j] > r.last - SoftHalf => \E i \in 1 .. Len(e) : e[i] = d[j]

LEMMA Remembers ==
  ASSUME Sizes, Soft!Trusted, NEW r, Holds(r), Recent(r.delivered, r.last), NEW full \in Int, NEW f,
         full <= r.last, r.last - full < SoftHalf, full \notin Soft!ToSet(r.delivered)
  PROVE  Remembering(r, full, Soft!Remembered(r, full, f))
<1> DEFINE d == r.delivered   e == Soft!Remembered(r, full, f)   c == DELIVERED_CAP   l == r.last
<1>0. c \in Nat \ {0} /\ SoftHalf \in Nat \ {0} BY DEF Sizes
<1>1. d \in Seq(Int) /\ Len(d) \in Nat /\ Len(d) <= c /\ l \in Int BY DEF Holds, Recent
<1>2. \A i \in 1 .. Len(d) : d[i] # full /\ d[i] \in Int BY <1>1 DEF Soft!ToSet
<1>3. /\ e \in Seq(Int)
      /\ Len(d) < c => /\ Len(e) = Len(d) + 1
                       /\ \A i \in 1 .. Len(d) + 1 : e[i] = IF i <= Len(d) THEN d[i] ELSE full
      /\ Len(d) = c => /\ Len(e) = Len(d)
                       /\ \A i \in 1 .. Len(d) : e[i] = IF i < Len(d) THEN d[i + 1] ELSE full
  <2>1. Len(r.delivered) <= DELIVERED_CAP BY <1>1
  <2>2. e \in Seq(Int) BY <2>1, RememberedIs
  <2>3. Len(d) < c => /\ Len(e) = Len(d) + 1
                       /\ \A i \in 1 .. Len(d) + 1 : e[i] = IF i <= Len(d) THEN d[i] ELSE full
    BY <2>1, RememberedIs
  <2>4. Len(d) = c => /\ Len(e) = Len(d)
                       /\ \A i \in 1 .. Len(d) : e[i] = IF i < Len(d) THEN d[i + 1] ELSE full
    BY <2>1, RememberedIs
  <2>5. QED BY <2>2, <2>3, <2>4
<1>4. /\ \A i \in 1 .. Len(d) : d[i] <= l
      /\ \A i, j \in 1 .. Len(d) : i < j => d[i] # d[j] /\ d[j] > d[i] - SoftHalf
  BY DEF Recent
<1>5. \A i \in 1 .. Len(d) : full > d[i] - SoftHalf
  <2>1. TAKE i \in 1 .. Len(d)
  <2>2. PICK x \in Int : x = d[i] /\ x <= l BY <1>2, <1>4
  <2>3. full > x - SoftHalf BY <2>2, <1>0, <1>1
  <2>4. QED BY <2>2, <2>3
<1>6. Len(d) = c => d[1] <= l - SoftHalf BY <1>1, <1>2, OldestIsFar
<1> HIDE DEF d, e, c, l
<1>7. CASE Len(d) < c
  <2>1. Len(e) = Len(d) + 1 /\ Len(e) <= c BY <1>0, <1>1, <1>3, <1>7
  <2>2. \A i \in 1 .. Len(e) : e[i] = IF i <= Len(d) THEN d[i] ELSE full BY <1>3, <1>7, <2>1
  <2>3. \A i \in 1 .. Len(e) : i <= Len(d) => i \in 1 .. Len(d) BY <1>1, <2>1
  <2>4. \A i \in 1 .. Len(e) : e[i] <= l BY <2>2, <2>3, <1>4 DEF l
  <2>5. ASSUME NEW i \in 1 .. Len(e), NEW j \in 1 .. Len(e), i < j
        PROVE e[i] # e[j] /\ e[j] > e[i] - SoftHalf
    <3>1. i \in 1 .. Len(d) /\ e[i] = d[i] BY <1>1, <2>1, <2>2, <2>5
    <3>2. CASE j <= Len(d)
      <4>1. j \in 1 .. Len(d) /\ e[j] = d[j] BY <3>2, <2>2, <2>3
      <4>2. QED BY <3>1, <4>1, <1>4, <2>5
    <3>3. CASE ~(j <= Len(d))
      <4>1. e[j] = full BY <3>3, <2>2
      <4>2. QED BY <3>1, <4>1, <1>2, <1>5
    <3>4. QED BY <3>2, <3>3
  <2>6. Recent(e, l) BY <2>1, <2>4, <2>5 DEF Recent, c
  <2>7. e[Len(e)] = full /\ Len(e) \in 1 .. Len(e) BY <1>1, <2>1, <2>2
  <2>8. \A j \in 1 .. Len(d) : j \in 1 .. Len(e) /\ e[j] = d[j] BY <1>1, <2>1, <2>2
  <2>9. QED BY <1>3, <2>2, <2>3, <2>6, <2>7, <2>8 DEF d, e, l, Remembering
<1>8. CASE Len(d) = c
  <2>1. Len(e) = Len(d) /\ Len(e) <= c BY <1>0, <1>1, <1>3, <1>8
  <2>2. \A i \in 1 .. Len(e) : e[i] = IF i < Len(d) THEN d[i + 1] ELSE full BY <1>3, <1>8, <2>1
  <2>3. \A i \in 1 .. Len(e) : i < Len(d) => i + 1 \in 1 .. Len(d) BY <1>1, <2>1
  <2>4. \A i \in 1 .. Len(e) : e[i] <= l BY <2>2, <2>3, <1>4 DEF l
  <2>5. ASSUME NEW i \in 1 .. Len(e), NEW j \in 1 .. Len(e), i < j
        PROVE e[i] # e[j] /\ e[j] > e[i] - SoftHalf
    <3>1. i + 1 \in 1 .. Len(d) /\ e[i] = d[i + 1] BY <1>1, <2>1, <2>2, <2>5
    <3>2. CASE j < Len(d)
      <4>1. j + 1 \in 1 .. Len(d) /\ e[j] = d[j + 1] /\ i + 1 < j + 1
        BY <3>2, <2>2, <2>3, <2>5, <1>1
      <4>2. QED BY <3>1, <4>1, <1>4
    <3>3. CASE ~(j < Len(d))
      <4>1. e[j] = full BY <3>3, <2>2
      <4>2. QED BY <3>1, <4>1, <1>2, <1>5
    <3>4. QED BY <3>2, <3>3
  <2>6. Recent(e, l) BY <2>1, <2>4, <2>5 DEF Recent, c
  <2>7. e[Len(e)] = full /\ Len(e) \in 1 .. Len(e) BY <1>0, <1>1, <1>8, <2>1, <2>2
  <2>8. ASSUME NEW j \in 1 .. Len(d), d[j] > l - SoftHalf PROVE \E i \in 1 .. Len(e) : e[i] = d[j]
    <3>1. j # 1
      <4>1. d[j] \in Int /\ l \in Int BY <1>1, <1>2
      <4>2. QED BY <4>1, <1>0, <1>6, <1>8, <2>8
    <3>2. j - 1 \in 1 .. Len(e) /\ j - 1 < Len(d) /\ (j - 1) + 1 = j BY <3>1, <1>1, <2>1
    <3>3. e[j - 1] = d[j] BY <3>2, <2>2
    <3>4. QED BY <3>2, <3>3
  <2>9. QED BY <1>3, <2>2, <2>3, <2>6, <2>7, <2>8 DEF d, e, l, Remembering
<1>9. QED BY <1>0, <1>1, <1>7, <1>8

-----------------------------------------------------------------------------
(* A frame of the numbering that is followed.                              *)

\* Its number is its own, and is noted.
LEMMA NotesOwn ==
  ASSUME Sizes, Soft!Trusted, NEW r, Holds(r), Fine(r), Pure(r), NEW s \in Nat,
         r.last # Soft!Nothing => Near(r, s)
  PROVE  LET full == Soft!Resolve(s % SoftMod, r)
             n == Soft!Noted(r, full, Own(r, s))
         IN /\ Holds(n) /\ Fine(n) /\ Numbered(n)
            /\ n.follows = r.follows /\ n.turn = r.turn /\ n.whole = r.whole
            /\ n.handed = r.handed /\ n.delivered = r.delivered
            /\ full \in Nat /\ full + Off(n) = s /\ full <= n.last /\ n.last - full < SoftHalf
            /\ Off(n) = IF r.last = Soft!Nothing THEN s - (s % SoftMod) ELSE Off(r)
            /\ n.newest.seq = IF r.last = Soft!Nothing \/ s > r.newest.seq THEN s ELSE r.newest.seq
<1> DEFINE full == Soft!Resolve(s % SoftMod, r)   b == Own(r, s)   n == Soft!Noted(r, full, b)
<1>0. SoftHalf \in Nat \ {0} /\ SoftMod \in Nat \ {0} BY DEF Sizes
<1>1. b \in Blocks /\ b.seq = s /\ b.life = r.follows BY DEF Own, Blocks, Holds
<1>2. CASE Blank(r)
  <2>1. r.last = Soft!Nothing BY <1>2 DEF Blank
  <2>2. full = s % SoftMod /\ full \in Nat /\ \E k \in Int : s - full = SoftMod * k
    BY <2>1, ResolvesFirst
  <2>3. PICK k \in Int : s - full = SoftMod * k BY <2>2
  <2> HIDE DEF full, b
  <2>4. /\ Holds(n) /\ n.follows = r.follows /\ n.turn = r.turn /\ n.whole = r.whole
        /\ n.delivered = r.delivered /\ n.soft = r.soft /\ n.handed = r.handed
        /\ n.twice = r.twice /\ n.last = full /\ n.newest = b
    <3>1. full \in Int BY <2>2
    <3>2. QED BY <3>1, <1>1, <2>1, NotedIs
  <2> HIDE DEF n
  <2>5. Off(n) = s - full BY <1>1, <2>4 DEF Off
  <2>6. Len(n.delivered) = 0 /\ n.delivered = <<>> BY <1>2, <2>4 DEF Blank
  <2>7. Recent(n.delivered, n.last)
    BY <2>6 DEF Recent, Sizes
  <2>8. Numbered(n)
    <3>1. n.last \in Nat /\ n.newest.life = n.follows /\ \E q \in Int : Off(n) = SoftMod * q
      BY <1>1, <2>2, <2>3, <2>4, <2>5
    <3>2. DOMAIN n.soft = {} /\ \A h \in n.handed : h.turn # n.turn BY <1>2, <2>4 DEF Blank
    <3>3. 1 .. Len(n.delivered) = {} BY <2>6
    <3>4. QED BY <2>7, <3>1, <3>2, <3>3 DEF Numbered
  <2>9. Fine(n) BY <2>4 DEF Fine
  <2>10. full + Off(n) = s /\ full <= n.last /\ n.last - full < SoftHalf
    BY <1>0, <2>2, <2>4, <2>5
  <2>11. n.newest.seq = s BY <1>1, <2>4
  <2>12. QED BY <2>1, <2>2, <2>4, <2>5, <2>8, <2>9, <2>10, <2>11 DEF n, full, b
<1>3. CASE Numbered(r)
  <2>1. r.last \in Nat /\ r.last # Soft!Nothing BY <1>3 DEF Numbered, Soft!Nothing
  <2>2. full = s - Off(r) /\ full \in Nat BY <1>3, <2>1, ResolvesNear
  <2>3. PICK l \in Nat, t \in Nat : l = r.last /\ t = r.newest.seq BY <2>1 DEF Holds, Blocks
  <2>4. Off(r) = t - l /\ full = s - (t - l) BY <2>2, <2>3 DEF Off
  <2>5. t - s < SoftHalf BY <2>1, <2>3 DEF Near
  <2> HIDE DEF full, b
  <2>6. /\ Holds(n) /\ n.follows = r.follows /\ n.turn = r.turn /\ n.whole = r.whole
        /\ n.delivered = r.delivered /\ n.soft = r.soft /\ n.handed = r.handed
        /\ n.twice = r.twice
        /\ n.last = IF full > r.last THEN full ELSE r.last
        /\ n.newest = IF full > r.last THEN b ELSE r.newest
    <3>1. full \in Int BY <2>2
    <3>2. QED BY <3>1, <1>1, <2>1, NotedIs
  <2> HIDE DEF n
  <2>7. full > l <=> s > t BY <2>2, <2>3, <2>4
  <2>8. n.last = (IF s > t THEN full ELSE l) /\ n.newest.seq = IF s > t THEN s ELSE t
    BY <1>1, <2>3, <2>6, <2>7
  <2>9. Off(n) = Off(r) BY <2>2, <2>3, <2>4, <2>8 DEF Off
  <2>10. n.newest.seq >= t /\ n.newest.seq \in Nat /\ n.last >= l /\ n.last \in Nat
    BY <2>2, <2>3, <2>7, <2>8
  <2>11. Recent(n.delivered, n.last)
    <3>1. \A i \in 1 .. Len(r.delivered) : r.delivered[i] \in Int /\ r.delivered[i] <= l
      BY <1>3, <2>3 DEF Numbered, Recent, Holds
    <3>2. \A i \in 1 .. Len(r.delivered) : r.delivered[i] <= n.last
      BY <3>1, <2>3, <2>10
    <3>3. QED BY <1>3, <2>6, <3>2 DEF Numbered, Recent
  <2>12. Numbered(n)
    <3>1. n.last \in Nat /\ n.newest.life = n.follows BY <1>1, <1>3, <2>6, <2>10 DEF Numbered
    <3>2. \E q \in Int : Off(n) = SoftMod * q BY <1>3, <2>9 DEF Numbered
    <3>3. /\ \A i \in 1 .. Len(n.delivered) : Now(n, Own(n, n.delivered[i] + Off(n))) \in n.handed
          /\ \A m \in DOMAIN n.soft :
               m \in Int /\ n.soft[m] \in Seq([b : {Own(n, m + Off(n))}, q : Soft!Qualities])
      BY <1>3, <2>6, <2>9 DEF Numbered, Now, Own
    <3>4. ASSUME NEW h \in n.handed, h.turn = n.turn, h.b.life = n.follows
          PROVE /\ h.b.seq \in Nat /\ h.b.seq <= n.newest.seq
                /\ h.b.seq > n.newest.seq - SoftHalf
                     => \E i \in 1 .. Len(n.delivered) : h.b.seq = n.delivered[i] + Off(n)
      <4>1. /\ h.b.seq \in Nat /\ h.b.seq <= t
            /\ h.b.seq > t - SoftHalf
                 => \E i \in 1 .. Len(n.delivered) : h.b.seq = n.delivered[i] + Off(n)
        BY <1>3, <2>3, <2>6, <2>9, <3>4 DEF Numbered
      <4>2. PICK y \in Nat, u \in Nat : y = h.b.seq /\ u = n.newest.seq BY <2>10, <4>1
      <4>3. y <= t /\ t <= u BY <2>10, <4>1, <4>2
      <4>4. y <= u /\ (y > u - SoftHalf => y > t - SoftHalf) BY ONLY <4>3, <1>0,
         y \in Nat, u \in Nat, t \in Nat
      <4>5. QED BY <4>1, <4>2, <4>4
    <3>5. QED BY <2>11, <3>1, <3>2, <3>3, <3>4 DEF Numbered
  <2>13. Fine(n) BY <2>6 DEF Fine
  <2>14. full + Off(n) = s /\ full <= n.last /\ n.last - full < SoftHalf
    BY <1>0, <2>2, <2>3, <2>4, <2>5, <2>8, <2>9
  <2>15. QED BY <2>1, <2>2, <2>3, <2>6, <2>8, <2>9, <2>12, <2>13, <2>14 DEF n, full, b
<1>4. QED BY <1>2, <1>3 DEF Pure

\* A new block near the newest is handed to the funnel.
LEMMA HandsOwn ==
  ASSUME Sizes, Soft!Trusted, NEW r, Holds(r), Fine(r), Numbered(r), NEW full \in Nat, NEW f,
         f.b = Own(r, full + Off(r)), full <= r.last, r.last - full < SoftHalf,
         full \notin Soft!ToSet(r.delivered), full + Off(r) \in Nat
  PROVE  LET x == Soft!Delivered(r, full, f)
         IN /\ Holds(x) /\ Fine(x) /\ Numbered(x) /\ Unmoved(x, r)
            /\ x.handed = r.handed \cup {Now(r, f.b)}
<1> DEFINE x == Soft!Delivered(r, full, f)   e == Soft!Remembered(r, full, f)   o == Off(r)
<1>0. SoftHalf \in Nat \ {0} BY DEF Sizes
<1>1. Recent(r.delivered, r.last) BY DEF Numbered
<1>2. /\ e \in Seq(Int) /\ Recent(e, r.last)
      /\ \E i \in 1 .. Len(e) : e[i] = full
      /\ \A i \in 1 .. Len(e) :
            e[i] = full \/ \E j \in 1 .. Len(r.delivered) : e[i] = r.delivered[j]
      /\ \A j \in 1 .. Len(r.delivered) : r.delivered[j] > r.last - SoftHalf
           => \E i \in 1 .. Len(e) : e[i] = r.delivered[j]
  <2>1. full \in Int OBVIOUS
  <2>2. Remembering(r, full, e) BY <1>1, <2>1, Remembers
  <2>3. QED BY <2>2 DEF Remembering
<1>3. /\ Holds(x) /\ Unmoved(x, r) /\ x.delivered = e
      /\ x.soft = [k \in DOMAIN r.soft \ {full} |-> r.soft[k]]
      /\ x.handed = r.handed \cup {Now(r, f.b)}
      /\ x.twice = (r.twice \/ (f.b.life = r.follows /\ Now(r, f.b) \in r.handed))
  <2>1. full \in Int OBVIOUS
  <2>2. Hands(r, full, f, x) BY <1>2, <2>1, DeliveredIs
  <2>3. QED BY <2>2 DEF Hands
<1>4. PICK l \in Nat, t \in Nat : l = r.last /\ t = r.newest.seq BY DEF Holds, Blocks, Numbered
<1>5. o = t - l BY <1>4 DEF Off
<1>6. Off(x) = o /\ x.follows = r.follows /\ x.turn = r.turn /\ x.last = l /\ x.newest = r.newest
  BY <1>3, <1>4 DEF Off, Unmoved
<1>7. f.b.life = r.follows /\ f.b.seq = full + o /\ f.b.seq <= t /\ f.b.seq > t - SoftHalf
  BY <1>0, <1>4, <1>5 DEF Own
<1> HIDE DEF x, e, o
<1>8. Now(r, f.b) \notin r.handed
  <2> SUFFICES ASSUME Now(r, f.b) \in r.handed PROVE FALSE OBVIOUS
  <2>1. Now(r, f.b).turn = r.turn /\ Now(r, f.b).b = f.b BY DEF Now
  <2>2. PICK i \in 1 .. Len(r.delivered) : f.b.seq = r.delivered[i] + o
    BY <1>4, <1>7, <2>1 DEF Numbered, o
  <2>3. r.delivered[i] \in Int /\ r.delivered[i] \in Soft!ToSet(r.delivered)
    BY DEF Soft!ToSet, Holds
  <2>4. r.delivered[i] = full BY <1>5, <1>7, <2>2, <2>3
  <2>5. QED BY <2>3, <2>4
<1>9. Fine(x)
  <2>1. ~x.twice BY <1>3, <1>8 DEF Fine
  <2>2. \A h \in x.handed : h.turn \in Nat /\ h.turn <= x.turn
    BY <1>3, <1>6 DEF Fine, Now, Holds
  <2>3. \A b \in x.whole : \E h \in x.handed : h.b = b BY <1>3 DEF Fine, Unmoved
  <2>4. QED BY <2>1, <2>2, <2>3 DEF Fine
<1>10. Numbered(x)
  <2>1. /\ x.last \in Nat /\ x.newest.life = x.follows /\ \E k \in Int : Off(x) = SoftMod * k
    BY <1>6 DEF Numbered, o
  <2>2. ASSUME NEW i \in 1 .. Len(x.delivered)
        PROVE Now(x, Own(x, x.delivered[i] + Off(x))) \in x.handed
    <3>1. CASE e[i] = full
      <4>1. Own(x, e[i] + Off(x)) = f.b BY <1>6, <3>1 DEF Own, o
      <4>2. QED BY <1>3, <1>6, <4>1 DEF Now
    <3>2. CASE \E j \in 1 .. Len(r.delivered) : e[i] = r.delivered[j]
      <4>1. PICK j \in 1 .. Len(r.delivered) : e[i] = r.delivered[j] BY <3>2
      <4>2. Now(r, Own(r, r.delivered[j] + o)) \in r.handed BY DEF Numbered, o
      <4>3. QED BY <1>3, <1>6, <4>1, <4>2 DEF Now, Own
    <3>3. QED BY <1>2, <1>3, <3>1, <3>2
  <2>3. \A n \in DOMAIN x.soft :
          n \in Int /\ x.soft[n] \in Seq([b : {Own(x, n + Off(x))}, q : Soft!Qualities])
    BY <1>3, <1>6 DEF Numbered, Own, o
  <2>4. ASSUME NEW h \in x.handed, h.turn = x.turn, h.b.life = x.follows
        PROVE /\ h.b.seq \in Nat /\ h.b.seq <= x.newest.seq
              /\ h.b.seq > x.newest.seq - SoftHalf
                   => \E i \in 1 .. Len(x.delivered) : h.b.seq = x.delivered[i] + Off(x)
    <3>1. CASE h = Now(r, f.b)
      <4>1. h.b.seq = full + o BY <1>7, <3>1 DEF Now
      <4>2. h.b.seq \in Nat
        BY <4>1 DEF o
      <4>3. QED BY <1>2, <1>3, <1>4, <1>6, <1>7, <3>1, <4>1, <4>2 DEF Now
    <3>2. CASE h \in r.handed
      <4>1. /\ h.b.seq \in Nat /\ h.b.seq <= t
            /\ h.b.seq > t - SoftHalf
                 => \E j \in 1 .. Len(r.delivered) : h.b.seq = r.delivered[j] + o
        BY <1>4, <1>6, <2>4, <3>2 DEF Numbered, o
      <4>2. ASSUME h.b.seq > t - SoftHalf
            PROVE \E i \in 1 .. Len(e) : h.b.seq = e[i] + o
        <5>1. PICK j \in 1 .. Len(r.delivered) : h.b.seq = r.delivered[j] + o BY <4>1, <4>2
        <5>2. r.delivered[j] \in Int BY DEF Holds
        <5>3. PICK y \in Int, z \in Nat : y = r.delivered[j] /\ z = h.b.seq
          BY <4>1, <5>2
        <5>4. z = y + o BY <5>1, <5>3
        <5>5. y > l - SoftHalf
          <6>1. z = y + (t - l) BY <5>4, <1>5
          <6>2. z > t - SoftHalf BY <4>2, <5>3
          <6>3. QED BY <1>0, <6>1, <6>2
        <5>6. r.delivered[j] > r.last - SoftHalf BY <1>4, <5>3, <5>5
        <5>7. QED BY <1>2, <5>1, <5>6
      <4>3. QED BY <1>3, <1>4, <1>6, <4>1, <4>2
    <3>3. QED BY <1>3, <3>1, <3>2
  <2>5. Recent(x.delivered, x.last) BY <1>2, <1>3, <1>4, <1>6
  <2>6. QED BY <2>1, <2>2, <2>3, <2>4, <2>5 DEF Numbered
<1>11. QED BY <1>3, <1>9, <1>10 DEF x

\* What is asked for, and a buffer of its own block, take nothing from the numbers.
LEMMA StaysNumbered ==
  ASSUME NEW r, Numbered(r), NEW x, x.last = r.last, x.newest = r.newest,
         x.follows = r.follows, x.turn = r.turn, x.delivered = r.delivered, x.handed = r.handed,
         \A n \in DOMAIN x.soft :
           n \in Int /\ x.soft[n] \in Seq([b : {Own(r, n + Off(r))}, q : Soft!Qualities])
  PROVE  Numbered(x)
<1>1. Off(x) = Off(r) /\ x.follows = r.follows /\ x.turn = r.turn BY DEF Off
<1>2. \A n : Own(x, n) = Own(r, n) BY <1>1 DEF Own
<1>3. \A b : Now(x, b) = Now(r, b) BY <1>1 DEF Now
<1>4. x.last = r.last /\ x.newest = r.newest OBVIOUS
<1>5. \A n \in DOMAIN x.soft :
        n \in Int /\ x.soft[n] \in Seq([b : {Own(x, n + Off(x))}, q : Soft!Qualities])
  BY <1>1, <1>2
<1>6. \A i \in 1 .. Len(x.delivered) : Now(x, Own(x, x.delivered[i] + Off(x))) \in x.handed
  BY <1>1, <1>2, <1>3 DEF Numbered
<1>7. \A h \in x.handed : h.turn = x.turn /\ h.b.life = x.follows =>
        /\ h.b.seq \in Nat /\ h.b.seq <= x.newest.seq
        /\ h.b.seq > x.newest.seq - SoftHalf
             => \E i \in 1 .. Len(x.delivered) : h.b.seq = x.delivered[i] + Off(x)
  BY <1>1, <1>4 DEF Numbered
<1>8. /\ x.last \in Nat /\ x.newest.life = x.follows /\ \E k \in Int : Off(x) = SoftMod * k
      /\ Recent(x.delivered, x.last)
  BY <1>1, <1>4 DEF Numbered
<1>9. QED BY <1>5, <1>6, <1>7, <1>8 DEF Numbered

\* What an attempt at a block leaves.
Attempted(r, f, x) ==
  /\ Holds(x) /\ Fine(x) /\ Numbered(x) /\ Unmoved(x, r)
  /\ x.handed = r.handed \/ x.handed = r.handed \cup {Now(r, f.b)}
  /\ f.q \in {"clean", "board"} => Now(r, f.b) \in x.handed

\* An attempt at a new block near the newest: its buffer holds transmissions of its own only, so
\* that a clean one is decoded.
LEMMA AttemptsOwn ==
  ASSUME Sizes, Soft!Trusted, NEW r, Holds(r), Fine(r), Numbered(r), NEW full \in Nat, NEW f,
         f.q \in {"clean", "board", "weak", "unsynced"},
         f.b = Own(r, full + Off(r)), full <= r.last, r.last - full < SoftHalf,
         full \notin Soft!ToSet(r.delivered), full + Off(r) \in Nat
  PROVE  Attempted(r, f, Soft!Attempt(r, full, f))
<1> DEFINE x == Soft!Attempt(r, full, f)
           Own1 == [b : {f.b}, q : Soft!Qualities]
           held == IF full \in DOMAIN r.soft THEN r.soft[full] ELSE <<>>
           sent == [b |-> f.b, q |-> f.q]
           buffer == Append(held, sent)
<1>1. ASSUME x = Soft!Delivered(r, full, f) PROVE Attempted(r, f, x)
  <2>1. /\ Holds(x) /\ Fine(x) /\ Numbered(x) /\ Unmoved(x, r)
        /\ x.handed = r.handed \cup {Now(r, f.b)}
    BY <1>1, HandsOwn
  <2> HIDE DEF x
  <2>2. QED BY <2>1 DEF Attempted
<1>2. held \in Seq(Own1)
  <2>1. <<>> \in Seq(Own1) BY EmptySeq
  <2>2. full \in DOMAIN r.soft => r.soft[full] \in Seq(Own1) BY DEF Numbered
  <2>3. QED BY <2>1, <2>2
<1>3. sent \in Own1 BY DEF Soft!Qualities
<1>4. /\ buffer \in Seq(Own1) /\ Len(buffer) \in Nat /\ Len(buffer) = Len(held) + 1
      /\ buffer[Len(buffer)] = sent
  <2>1. Len(held) \in Nat BY <1>2
  <2> HIDE DEF held, sent, Own1
  <2>2. QED BY <1>2, <1>3, <2>1, AppendProperties
<1>5. f.q = "clean" => Soft!Decodes(buffer)
  <2>1. \A i \in DOMAIN buffer : buffer[i].b = f.b
    <3> HIDE DEF buffer
    <3>1. \A i \in DOMAIN buffer : buffer[i] \in Own1
      <4> HIDE DEF Own1
      <4>1. DOMAIN buffer = 1 .. Len(buffer)
        <5>1. buffer \in Seq(Own1) BY <1>4
        <5>2. QED BY <5>1, LenProperties
      <4>2. QED BY <1>4, <4>1, ElementOfSeq
    <3>2. QED BY <3>1
  <2>2. Len(buffer) \in DOMAIN buffer
    <3>1. Len(held) \in Nat BY <1>2
    <3> HIDE DEF buffer, held
    <3>2. QED BY <1>4, <3>1
  <2>3. buffer[Len(buffer)].q = f.q BY <1>4
  <2> HIDE DEF buffer
  <2>4. QED BY <2>1, <2>2, <2>3 DEF Soft!Decodes
<1>6. CASE f.q = "board"
  <2>1. x = Soft!Delivered(r, full, f) BY <1>6 DEF Soft!Attempt
  <2>2. QED BY <2>1, <1>1
<1>7. <<full>> \in Seq(Int) OBVIOUS
<1>8. ASSUME NEW y, Holds(y), Unmoved(y, r), y.delivered = r.delivered, y.handed = r.handed,
             y.twice = r.twice, Numbered(y), x = Soft!Ask(y, <<full>>),
              f.q \notin {"clean", "board"}
      PROVE  Attempted(r, f, x)
  <2>1. /\ Holds(x) /\ Unmoved(x, y)
        /\ x.delivered = y.delivered /\ x.soft = y.soft /\ x.handed = y.handed
        /\ x.twice = y.twice
    <3>1. Holds(y) /\ x = Soft!Ask(y, <<full>>) BY <1>8
    <3>2. QED BY <3>1, <1>7, AskIs
  <2> HIDE DEF x
  <2>2. \A n \in DOMAIN x.soft :
          n \in Int /\ x.soft[n] \in Seq([b : {Own(y, n + Off(y))}, q : Soft!Qualities])
    BY <1>8, <2>1 DEF Numbered
  <2>3. Numbered(x) BY <1>8, <2>1, <2>2, StaysNumbered DEF Unmoved
  <2>4. Unmoved(x, r) /\ x.handed = r.handed /\ x.twice = r.twice BY <1>8, <2>1 DEF Unmoved
  <2>5. Fine(x) BY <2>4 DEF Fine, Unmoved
  <2>6. QED BY <1>8, <2>1, <2>3, <2>4, <2>5 DEF Attempted
<1>9. CASE f.q = "unsynced"
  <2>1. x = Soft!Ask(r, <<full>>) BY <1>9 DEF Soft!Attempt
  <2>2. Unmoved(r, r) BY DEF Unmoved
  <2>3. QED BY <1>8, <1>9, <2>1, <2>2
<1>10. CASE f.q \in {"clean", "weak"}
  <2>1. x = IF Soft!Decodes(buffer) THEN Soft!Delivered(r, full, f)
            ELSE Soft!Ask(Soft!Inserted(r, full, buffer), <<full>>)
    BY <1>10 DEF Soft!Attempt
  <2>2. CASE Soft!Decodes(buffer) BY <1>1, <2>1, <2>2
  <2>3. CASE ~Soft!Decodes(buffer)
    <3> DEFINE y == Soft!Inserted(r, full, buffer)
    <3>1. x = Soft!Ask(y, <<full>>) /\ f.q \notin {"clean", "board"} BY <1>5, <1>10, <2>1, <2>3
    <3> HIDE DEF buffer
    <3>2. /\ Holds(y) /\ Unmoved(y, r)
          /\ y.delivered = r.delivered /\ y.handed = r.handed /\ y.twice = r.twice
          /\ DOMAIN y.soft \subseteq DOMAIN r.soft \cup {full}
          /\ \A k \in DOMAIN y.soft : y.soft[k] = IF k = full THEN buffer ELSE r.soft[k]
      <4>1. full \in Int OBVIOUS
      <4>2. QED BY <4>1, InsertedIs
    <3> HIDE DEF y, x
    <3>3. \A n \in DOMAIN y.soft :
            n \in Int /\ y.soft[n] \in Seq([b : {Own(r, n + Off(r))}, q : Soft!Qualities])
      <4> TAKE n \in DOMAIN y.soft
      <4>1. CASE n = full BY <1>4, <3>2, <4>1
      <4>2. CASE n # full BY <3>2, <4>2 DEF Numbered
      <4>3. QED BY <4>1, <4>2
    <3>4. Numbered(y) BY <3>2, <3>3, StaysNumbered DEF Unmoved
    <3>5. QED BY <1>8, <3>1, <3>2, <3>4 DEF x
  <2>4. QED BY <2>2, <2>3
<1>11. f.q = "board" \/ f.q = "unsynced" \/ f.q \in {"clean", "weak"} OBVIOUS
<1>12. QED BY <1>6, <1>9, <1>10, <1>11, Zenon

\* What a frame of the numbering followed leaves.
Taken(r, f, x) ==
  /\ Holds(x) /\ Fine(x) /\ Numbered(x) /\ x.follows = r.follows /\ x.turn = r.turn
  /\ x.handed = r.handed \/ x.handed = r.handed \cup {Now(r, f.b)}
  /\ Off(x) = IF r.last = Soft!Nothing THEN f.b.seq - (f.b.seq % SoftMod) ELSE Off(r)
  /\ x.newest.seq = IF r.last = Soft!Nothing \/ f.b.seq > r.newest.seq THEN f.b.seq
                    ELSE r.newest.seq

\* A frame of the numbering followed is handed on, kept or dropped for what it is.
LEMMA TakesOwn ==
  ASSUME Sizes, Soft!Trusted, NEW r, Holds(r), Fine(r), Pure(r), NEW s \in Nat, NEW f,
         f.b = Own(r, s), f.q \in {"clean", "board", "weak", "unsynced", "cut"},
         r.last # Soft!Nothing => Near(r, s)
  PROVE  Taken(r, f, Soft!Frame(r, f))
<1> DEFINE full == Soft!Resolve(s % SoftMod, r)
           n == Soft!Noted(r, full, Own(r, s))
           next == IF full \in Soft!ToSet(r.delivered) \/ f.q = "cut" THEN n
                   ELSE Soft!Attempt(n, full, f)
           came == f.q \in {"clean", "board"} /\ f.b.life = r.follows
           x == IF came THEN [next EXCEPT !.whole = @ \cup {f.b}] ELSE next
<1>1. f.b.seq = s /\ f.b.life = r.follows BY DEF Own
<1>2. Soft!Frame(r, f) = x BY <1>1 DEF Soft!Frame
<1>3. /\ Holds(n) /\ Fine(n) /\ Numbered(n)
      /\ n.follows = r.follows /\ n.turn = r.turn /\ n.whole = r.whole
      /\ n.handed = r.handed /\ n.delivered = r.delivered
      /\ full \in Nat /\ full + Off(n) = s /\ full <= n.last /\ n.last - full < SoftHalf
      /\ Off(n) = IF r.last = Soft!Nothing THEN s - (s % SoftMod) ELSE Off(r)
      /\ n.newest.seq = IF r.last = Soft!Nothing \/ s > r.newest.seq THEN s ELSE r.newest.seq
  BY NotesOwn
<1> HIDE DEF full, n
<1>4. f.b = Own(n, full + Off(n)) /\ full + Off(n) \in Nat BY <1>3 DEF Own
<1>5. \A b : Now(n, b) = Now(r, b) BY <1>3 DEF Now
<1>6. /\ Holds(next) /\ Fine(next) /\ Numbered(next) /\ Unmoved(next, n)
      /\ next.handed = r.handed \/ next.handed = r.handed \cup {Now(r, f.b)}
      /\ f.q \in {"clean", "board"} => Now(r, f.b) \in next.handed
  <2>1. CASE full \in Soft!ToSet(r.delivered)
    <3>1. next = n BY <2>1
    <3>6. n.delivered \in Seq(Int) /\ DOMAIN n.delivered = 1 .. Len(n.delivered)
      BY <1>3 DEF Holds
    <3>2. PICK i \in 1 .. Len(n.delivered) : full = n.delivered[i]
      BY <2>1, <1>3, <3>6 DEF Soft!ToSet
    <3>3. Now(n, f.b) \in n.handed BY <1>3, <1>4, <3>2 DEF Numbered
    <3> HIDE DEF next
    <3>4. Unmoved(next, n) BY <3>1 DEF Unmoved
    <3>5. QED BY <1>3, <1>5, <3>1, <3>3, <3>4
  <2>2. CASE full \notin Soft!ToSet(r.delivered) /\ f.q = "cut"
    <3>1. next = n BY <2>2
    <3> HIDE DEF next
    <3>2. Unmoved(next, n) BY <3>1 DEF Unmoved
    <3>3. QED BY <1>3, <2>2, <3>1, <3>2
  <2>3. CASE full \notin Soft!ToSet(r.delivered) /\ f.q # "cut"
    <3>1. next = Soft!Attempt(n, full, f) BY <2>3
    <3> HIDE DEF next
    <3>2. full \notin Soft!ToSet(n.delivered) /\ f.q \in {"clean", "board", "weak", "unsynced"}
      BY <2>3, <1>3
    <3>3. Attempted(n, f, next) BY <1>3, <1>4, <3>1, <3>2, AttemptsOwn
    <3>4. QED BY <1>3, <1>5, <3>3 DEF Attempted
  <2>4. QED BY <2>1, <2>2, <2>3
<1> HIDE DEF next
<1>7. /\ x.last = next.last /\ x.newest = next.newest /\ x.nacked = next.nacked
      /\ x.soft = next.soft /\ x.order = next.order /\ x.delivered = next.delivered
      /\ x.sends = next.sends /\ x.follows = next.follows /\ x.turn = next.turn
      /\ x.whole = (IF came THEN next.whole \cup {f.b} ELSE next.whole)
      /\ x.handed = next.handed /\ x.twice = next.twice
  BY <1>6 DEF Holds
<1>8. x = [last |-> x.last, newest |-> x.newest, nacked |-> x.nacked, soft |-> x.soft,
           order |-> x.order, delivered |-> x.delivered, sends |-> x.sends,
           follows |-> x.follows, turn |-> x.turn, whole |-> x.whole, handed |-> x.handed,
           twice |-> x.twice]
  BY <1>6 DEF Holds
<1> HIDE DEF x
<1>9. Holds(x) BY <1>6, <1>7, <1>8 DEF Holds
<1>10. Fine(x)
  <2>1. \A h \in x.handed : h.turn \in Nat /\ h.turn <= x.turn BY <1>6, <1>7 DEF Fine
  <2>2. ~x.twice BY <1>6, <1>7 DEF Fine
  <2>3. came => \E h \in x.handed : h.b = f.b BY <1>6, <1>7 DEF Now
  <2>4. \A b \in next.whole : \E h \in x.handed : h.b = b BY <1>6, <1>7 DEF Fine
  <2>5. \A b \in x.whole : \E h \in x.handed : h.b = b BY <1>7, <2>3, <2>4
  <2>6. QED BY <2>1, <2>2, <2>5 DEF Fine
<1>11. Numbered(x)
  <2>1. \A m \in DOMAIN x.soft :
          m \in Int /\ x.soft[m] \in Seq([b : {Own(next, m + Off(next))}, q : Soft!Qualities])
    BY <1>6, <1>7 DEF Numbered
  <2>2. QED BY <1>6, <1>7, <2>1, StaysNumbered
<1>12. QED BY <1>1, <1>2, <1>3, <1>6, <1>7, <1>9, <1>10, <1>11 DEF Taken, Off, Unmoved

-----------------------------------------------------------------------------
(* A frame of another numbering.                                           *)

LEMMA RememberedTyped ==
  ASSUME Sizes, NEW r, Holds(r), NEW full \in Int, NEW f
  PROVE  Soft!Remembered(r, full, f) \in Seq(Int)
<1> DEFINE a == Append(r.delivered, full)
<1>0. DELIVERED_CAP \in Nat \ {0} BY DEF Sizes
<1>1. a \in Seq(Int) BY AppendProperties DEF Holds
<1> HIDE DEF a
<1> DEFINE from == Soft!Max({1, Len(a) - DELIVERED_CAP + 1})
<1>2. Len(a) \in Nat BY <1>1
<1>3. from \in Int /\ from >= 1
  <2>1. 1 \in Int /\ Len(a) - DELIVERED_CAP + 1 \in Int BY <1>0, <1>2
  <2>2. QED BY <2>1, LargerOf
<1> HIDE DEF from
<1>4. SubSeq(a, from, Len(a)) \in Seq(Int) BY <1>1, <1>3, RestIs
<1>5. QED BY <1>4 DEF Soft!Remembered, a, from

\* What a frame of another numbering leaves.
Strayed(r, f, x) ==
  /\ Holds(x) /\ Fine(x) /\ x.follows = r.follows /\ x.turn = r.turn
  /\ x.handed = r.handed \/ x.handed = r.handed \cup {Now(r, f.b)}

\* It leaves the history of the numbering followed.
LEMMA TakesOther ==
  ASSUME Sizes, NEW r, Holds(r), Fine(r), NEW f, f.b \in Blocks, f.b.life # r.follows
  PROVE  Strayed(r, f, Soft!Frame(r, f))
<1> DEFINE full == Soft!Resolve(f.b.seq % SoftMod, r)
           n == Soft!Noted(r, full, f.b)
           next == IF full \in Soft!ToSet(r.delivered) \/ f.q = "cut" THEN n
                   ELSE Soft!Attempt(n, full, f)
<1>1. full \in Int
  <2>1. r.last \in Int /\ f.b.seq \in Nat BY DEF Holds, Blocks
  <2>2. QED BY <2>1, ResolvesAny
<1>2. Soft!Frame(r, f) = next BY DEF Soft!Frame
<1> HIDE DEF full
<1>3. /\ Holds(n) /\ n.follows = r.follows /\ n.turn = r.turn /\ n.whole = r.whole
      /\ n.handed = r.handed /\ n.twice = r.twice
  BY <1>1, NotedIs
<1> HIDE DEF n
<1>4. Now(n, f.b) = Now(r, f.b) BY <1>3 DEF Now
<1>5. ASSUME NEW x, Holds(x), x.follows = n.follows, x.turn = n.turn, x.whole = n.whole,
             x.handed = n.handed \/ x.handed = n.handed \cup {Now(n, f.b)},
             ~x.twice
      PROVE  Strayed(r, f, x)
  <2>1. \A h \in x.handed : h.turn \in Nat /\ h.turn <= x.turn
    BY <1>3, <1>5 DEF Fine, Now, Holds
  <2>2. \A b \in x.whole : \E h \in x.handed : h.b = b BY <1>3, <1>5 DEF Fine
  <2>3. Fine(x) BY <1>5, <2>1, <2>2 DEF Fine
  <2>4. QED BY <1>3, <1>4, <1>5, <2>3 DEF Strayed
<1>6. ~n.twice BY <1>3 DEF Fine
<1>7. Strayed(r, f, n) BY <1>3, <1>5, <1>6
<1>8. <<full>> \in Seq(Int) BY <1>1
<1>9. Strayed(r, f, Soft!Delivered(n, full, f))
  <2> DEFINE x == Soft!Delivered(n, full, f)
  <2>1. Soft!Remembered(n, full, f) \in Seq(Int) BY <1>1, <1>3, RememberedTyped
  <2>2. Hands(n, full, f, x) BY <1>1, <1>3, <2>1, DeliveredIs
  <2> HIDE DEF x
  <2>3. ~x.twice BY <1>3, <1>6, <2>2 DEF Hands
  <2>4. Strayed(r, f, x) BY <1>5, <2>2, <2>3 DEF Hands, Unmoved
  <2>5. QED BY <2>4 DEF x
<1>10. ASSUME NEW y, Holds(y), Unmoved(y, n), y.handed = n.handed, y.twice = n.twice
       PROVE  Strayed(r, f, Soft!Ask(y, <<full>>))
  <2> DEFINE x == Soft!Ask(y, <<full>>)
  <2>1. Holds(x) /\ Unmoved(x, y) /\ x.handed = y.handed /\ x.twice = y.twice BY <1>8, <1>10, AskIs
  <2> HIDE DEF x
  <2>2. Strayed(r, f, x) BY <1>5, <1>6, <1>10, <2>1 DEF Unmoved
  <2>3. QED BY <2>2 DEF x
<1>11. Strayed(r, f, Soft!Ask(n, <<full>>))
  <2>1. Unmoved(n, n) BY DEF Unmoved
  <2>2. QED BY <1>3, <1>10, <2>1
<1>12. ASSUME NEW buffer PROVE Strayed(r, f, Soft!Ask(Soft!Inserted(n, full, buffer), <<full>>))
  <2> DEFINE y == Soft!Inserted(n, full, buffer)
  <2>1. Holds(y) /\ Unmoved(y, n) /\ y.handed = n.handed /\ y.twice = n.twice
    BY <1>1, <1>3, InsertedIs
  <2> HIDE DEF y
  <2>2. Strayed(r, f, Soft!Ask(y, <<full>>)) BY <1>10, <2>1
  <2>3. QED BY <2>2 DEF y
<1>13. Strayed(r, f, Soft!Attempt(n, full, f))
  <2>1. CASE f.q = "board" BY <2>1, <1>9 DEF Soft!Attempt
  <2>2. CASE f.q = "unsynced" BY <2>2, <1>11 DEF Soft!Attempt
  <2>3. CASE f.q # "board" /\ f.q # "unsynced"
    <3>1. PICK buffer : Soft!Attempt(n, full, f) =
                          IF Soft!Decodes(buffer) THEN Soft!Delivered(n, full, f)
                          ELSE Soft!Ask(Soft!Inserted(n, full, buffer), <<full>>)
      BY <2>3 DEF Soft!Attempt
    <3>2. QED BY <3>1, <1>9, <1>12
  <2>4. QED BY <2>1, <2>2, <2>3
<1>14. QED BY <1>2, <1>7, <1>13

-----------------------------------------------------------------------------
(* The frames of a capture.                                                *)

Frames == [b : Blocks, q : Soft!Qualities]

\* What demod_loop keeps after each frame of a capture.
Runs(r, read, f) ==
  f = [n \in 0 .. Len(read) |-> IF n = 0 THEN r ELSE Soft!Frame(f[n - 1], read[n])]

\* The recursion of Turn defines a function ...
LEMMA RunsExist ==
  ASSUME NEW r, NEW read, Len(read) \in Nat
  PROVE  \E f : Runs(r, read, f)
<1> DEFINE Good(m, f) == /\ DOMAIN f = 0 .. m /\ f[0] = r
                         /\ \A n \in 1 .. m : f[n] = Soft!Frame(f[n - 1], read[n])
           Bad == {m \in 0 .. Len(read) : ~\E f : Good(m, f)}
<1>1. Bad = {}
  <2> SUFFICES ASSUME Bad # {} PROVE FALSE OBVIOUS
  <2>1. Bad \in SUBSET Nat OBVIOUS
  <2>2. PICK m \in Bad : \A y \in Bad : m <= y BY <2>1, Smallest
  <2>3. m \in Nat /\ m <= Len(read) OBVIOUS
  <2>4. CASE m = 0
    <3> DEFINE g == [n \in 0 .. 0 |-> r]
    <3>1. Good(0, g) OBVIOUS
    <3>2. QED BY <2>4, <3>1
  <2>5. CASE m # 0
    <3>1. m - 1 \in 0 .. Len(read) /\ ~(m <= m - 1) /\ m \in 1 .. Len(read) BY <2>3, <2>5
    <3>2. m - 1 \notin Bad BY <2>2, <3>1
    <3>3. PICK f : Good(m - 1, f) BY <3>1, <3>2
    <3> DEFINE g == [n \in 0 .. m |-> IF n = m THEN Soft!Frame(f[m - 1], read[m]) ELSE f[n]]
    <3>4. g[0] = r
      <4>1. 0 \in 0 .. m BY <2>3
      <4>2. QED BY <4>1, <2>5, <3>3
    <3>5. ASSUME NEW n \in 1 .. m PROVE g[n] = Soft!Frame(g[n - 1], read[n])
      <4>1. n \in 0 .. m /\ n - 1 \in 0 .. m /\ n - 1 # m BY <2>3
      <4>2. g[n - 1] = f[n - 1] BY <4>1
      <4>3. CASE n = m BY <4>1, <4>2, <4>3
      <4>4. CASE n # m
        <5>1. n \in 1 .. m - 1 BY <4>4, <2>3
        <5>2. f[n] = Soft!Frame(f[n - 1], read[n]) BY <5>1, <3>3
        <5>3. g[n] = f[n] BY <4>1, <4>4
        <5>4. QED BY <4>2, <5>2, <5>3
      <4>5. QED BY <4>3, <4>4
    <3>6. DOMAIN g = 0 .. m OBVIOUS
    <3> HIDE DEF g
    <3>7. Good(m, g) BY <3>4, <3>5, <3>6
    <3>8. QED BY <3>7
  <2>6. QED BY <2>4, <2>5
<1>2. Len(read) \in 0 .. Len(read) OBVIOUS
<1>3. PICK f : Good(Len(read), f) BY <1>1, <1>2
<1> DEFINE h == [n \in 0 .. Len(read) |-> IF n = 0 THEN r ELSE Soft!Frame(f[n - 1], read[n])]
<1>4. ASSUME NEW n \in 0 .. Len(read) PROVE h[n] = f[n]
  <2>1. CASE n = 0 BY <2>1, <1>3
  <2>2. CASE n # 0
    <3>1. n \in 1 .. Len(read) BY <2>2
    <3>2. QED BY <2>2, <3>1, <1>3
  <2>3. QED BY <2>1, <2>2
<1>5. ASSUME NEW n \in 0 .. Len(read)
      PROVE h[n] = IF n = 0 THEN r ELSE Soft!Frame(h[n - 1], read[n])
  <2>1. CASE n = 0 BY <2>1
  <2>2. CASE n # 0
    <3>1. n - 1 \in 0 .. Len(read) BY <2>2
    <3>2. h[n - 1] = f[n - 1] BY <3>1, <1>4
    <3>3. QED BY <2>2, <3>2
  <2>3. QED BY <2>1, <2>2
<1>6. h = [n \in 0 .. Len(read) |-> IF n = 0 THEN r ELSE Soft!Frame(h[n - 1], read[n])]
  <2>1. h = [n \in 0 .. Len(read) |-> h[n]] OBVIOUS
  <2> HIDE DEF h
  <2>2. QED BY <1>5, <2>1
<1> HIDE DEF h
<1>7. QED BY <1>6 DEF Runs

\* ... which takes them one by one.
LEMMA RunsAre ==
  ASSUME NEW r, NEW read, Len(read) \in Nat, NEW f, Runs(r, read, f)
  PROVE  /\ f[0] = r
         /\ \A n \in 1 .. Len(read) : f[n] = Soft!Frame(f[n - 1], read[n])
<1>1. f = [n \in 0 .. Len(read) |-> IF n = 0 THEN r ELSE Soft!Frame(f[n - 1], read[n])]
  BY DEF Runs
<1>2. 0 \in 0 .. Len(read) OBVIOUS
<1>3. f[0] = r BY <1>1, <1>2
<1>4. ASSUME NEW n \in 1 .. Len(read) PROVE f[n] = Soft!Frame(f[n - 1], read[n])
  <2>1. n \in 0 .. Len(read) /\ n # 0 OBVIOUS
  <2>2. QED BY <1>1, <2>1
<1>5. QED BY <1>3, <1>4

-----------------------------------------------------------------------------
(* What holds of the transmitter, the air and the receiver.                *)

SoftTyped ==
  /\ copies \in Nat /\ life \in Nat /\ softSeq \in Nat
  /\ softCache \in Seq([seq : Nat, retx : Nat])
  /\ air \in Seq(Blocks) /\ softAsks \in Seq(Int) /\ Holds(rx)

\* The air carries the numberings one after the other, from the one that is followed on.
OneByOne ==
  /\ rx.follows <= life
  /\ \A i \in 1 .. Len(air) : rx.follows <= air[i].life /\ air[i].life <= life
  /\ \A i, j \in 1 .. Len(air) : i < j => air[i].life <= air[j].life

\* Blocks of the numbering followed may come.
Current == life = rx.follows \/ \E i \in 1 .. Len(air) : air[i].life = rx.follows

SoftInv == SoftTyped /\ OneByOne /\ Fine(rx) /\ (Current => Pure(rx))

\* Where the numbering begins, the blocks that were had before and among n frames, and a receiver
\* that had them.
Start == IF rx.last = Soft!Nothing THEN air[1].seq - (air[1].seq % SoftMod) ELSE Off(rx)
Had(n) ==
  {air[j].seq : j \in 1 .. n} \cup (IF rx.last = Soft!Nothing THEN {} ELSE {rx.newest.seq})
Stands(n, s) ==
  /\ Numbered(s) /\ Off(s) = Start
  /\ s.newest.seq \in Had(n) /\ \A h \in Had(n) : h <= s.newest.seq

\* What is kept after n frames.
Ran(n, s) ==
  /\ Holds(s) /\ Fine(s) /\ s.follows = rx.follows /\ s.turn = rx.turn
  /\ \A h \in s.handed : h \in rx.handed \/ \E i \in 1 .. n : h = Now(rx, air[i])
  /\ n # 0 /\ (\A i \in 1 .. n : air[i].life = rx.follows) => Stands(n, s)

\* A frame that is on time finds the receiver near its number.
LEMMA OnTimeIsNear ==
  ASSUME Sizes, SoftInv, Soft!OnTime, NEW n \in 1 .. Len(air), air[n].life = rx.follows,
         NEW s, Stands(n - 1, s)
  PROVE  Near(s, air[n].seq)
<1>0. SoftHalf \in Nat \ {0} /\ SoftFar \in Nat \ {0} BY DEF Sizes
<1>1. n \in DOMAIN air /\ air[n] \in Blocks BY DEF SoftInv, SoftTyped
<1>2. /\ \A h \in Had(n - 1) : h - air[n].seq < SoftHalf
      /\ Had(n - 1) # {} => \E h \in Had(n - 1) : air[n].seq - h <= SoftFar
      /\ air[n].seq >= Start
  BY <1>1 DEF Soft!OnTime, Had, Start, Off
<1>3. \A h \in Had(n - 1) : h \in Nat
  <2>1. \A j \in 1 .. n - 1 : air[j] \in Blocks BY DEF SoftInv, SoftTyped
  <2>2. rx.newest \in Blocks BY DEF SoftInv, SoftTyped, Holds
  <2>3. QED BY <2>1, <2>2 DEF Had, Blocks
<1>4. s.newest.seq \in Had(n - 1) /\ Off(s) = Start /\ \A h \in Had(n - 1) : h <= s.newest.seq
  BY DEF Stands
<1>5. PICK t \in Nat : t = s.newest.seq BY <1>3, <1>4
<1>6. PICK a \in Nat : a = air[n].seq BY <1>1 DEF Blocks
<1>7. PICK h \in Had(n - 1) : a - h <= SoftFar BY <1>2, <1>4, <1>6
<1>8. h \in Nat /\ h <= t BY <1>3, <1>4, <1>5, <1>7
<1>9. a - t <= SoftFar BY <1>0, <1>7, <1>8
<1>10. t - a < SoftHalf BY <1>2, <1>4, <1>5, <1>6
<1>11. QED BY <1>2, <1>4, <1>5, <1>6, <1>9, <1>10 DEF Near

\* One frame more.
LEMMA RunsOn ==
  ASSUME Sizes, Soft!Trusted, SoftInv, Soft!OnTime, NEW n \in 1 .. Len(air), NEW s,
         Ran(n - 1, s), n = 1 => s = rx,
         NEW q \in {"clean", "board", "weak", "unsynced", "cut"}
  PROVE  Ran(n, Soft!Frame(s, [b |-> air[n], q |-> q]))
<1> DEFINE f == [b |-> air[n], q |-> q]   x == Soft!Frame(s, f)
<1>1. air[n] \in Blocks /\ f.b = air[n] /\ f.q = q BY DEF SoftInv, SoftTyped
<1>2. n \in Nat /\ n - 1 \in Nat /\ n # 0 OBVIOUS
<1>3. /\ Holds(s) /\ Fine(s) /\ s.follows = rx.follows /\ s.turn = rx.turn
      /\ \A h \in s.handed : h \in rx.handed \/ \E i \in 1 .. n - 1 : h = Now(rx, air[i])
  BY DEF Ran
<1>4. ASSUME x.handed = s.handed \/ x.handed = s.handed \cup {Now(s, air[n])}
      PROVE  \A h \in x.handed : h \in rx.handed \/ \E i \in 1 .. n : h = Now(rx, air[i])
  <2>1. Now(s, air[n]) = Now(rx, air[n]) BY <1>3 DEF Now
  <2>2. \A i \in 1 .. n - 1 : i \in 1 .. n OBVIOUS
  <2>3. n \in 1 .. n OBVIOUS
  <2> HIDE DEF x
  <2>4. QED BY <1>3, <1>4, <2>1, <2>2, <2>3
<1>5. CASE air[n].life # rx.follows
  <2>1. Strayed(s, f, x) BY <1>1, <1>3, <1>5, TakesOther
  <2> HIDE DEF f, x
  <2>2. n \in 1 .. n OBVIOUS
  <2>3. QED BY <1>1, <1>3, <1>4, <1>5, <2>1, <2>2 DEF Ran, Strayed, f, x
<1>6. CASE air[n].life = rx.follows
  <2>1. \A i \in 1 .. n - 1 : air[i].life = rx.follows
    <3> TAKE i \in 1 .. n - 1
    <3>1. i \in 1 .. Len(air) /\ i < n OBVIOUS
    <3>2. rx.follows <= air[i].life /\ air[i].life <= rx.follows
      BY <1>6, <3>1 DEF SoftInv, OneByOne
    <3>5. air \in Seq(Blocks) /\ rx.follows \in Nat BY DEF SoftInv, SoftTyped, Holds
    <3>6. air[i] \in Blocks BY <3>1, <3>5
    <3>3. air[i].life \in Nat BY <3>6 DEF Blocks
    <3>4. QED BY <3>2, <3>3, <3>5
  <2>2. Pure(rx) BY <1>6 DEF SoftInv, Current
  <2>3. (n = 1 /\ rx.last = Soft!Nothing) \/ Stands(n - 1, s)
    <3>1. CASE n # 1
      <4>1. n - 1 # 0 BY <3>1
      <4>2. QED BY <2>1, <4>1 DEF Ran
    <3>2. CASE n = 1 /\ rx.last # Soft!Nothing
      <4>1. s = rx BY <3>2
      <4>2. Numbered(rx) BY <2>2, <3>2 DEF Pure, Blank
      <4>3. Had(n - 1) = {rx.newest.seq} BY <3>2 DEF Had
      <4>4. rx.newest.seq \in Nat BY DEF SoftInv, SoftTyped, Holds, Blocks
      <4>5. QED BY <3>2, <4>1, <4>2, <4>3, <4>4 DEF Stands, Start
    <3>3. QED BY <3>1, <3>2
  <2>4. Pure(s) BY <2>2, <2>3 DEF Stands, Pure
  <2>5. s.last # Soft!Nothing => Near(s, air[n].seq) BY <1>6, <2>3, OnTimeIsNear
  <2>6. f.b = Own(s, air[n].seq) /\ air[n].seq \in Nat BY <1>1, <1>3, <1>6 DEF Own, Blocks
  <2>7. Taken(s, f, x)
    <3> HIDE DEF f
    <3>1. QED BY <1>1, <1>3, <2>4, <2>5, <2>6, TakesOwn
  <2> HIDE DEF f, x
  <2>8. Stands(n, x)
    <3>1. Numbered(x) BY <2>7 DEF Taken
    <3>2. s.last = Soft!Nothing <=> n = 1 /\ rx.last = Soft!Nothing
      BY <2>3 DEF Stands, Numbered, Soft!Nothing
    <3>3. Had(n) = Had(n - 1) \cup {air[n].seq} BY DEF Had
    <3>4. Off(x) = Start
      <4>1. CASE s.last = Soft!Nothing BY <1>1, <2>7, <3>2, <4>1 DEF Taken, Start
      <4>2. CASE s.last # Soft!Nothing BY <2>3, <2>7, <3>2, <4>2 DEF Taken, Stands
      <4>3. QED BY <4>1, <4>2
    <3>5. CASE s.last = Soft!Nothing
      <4>1. Had(n) = {air[n].seq} BY <3>2, <3>3, <3>5 DEF Had
      <4>2. x.newest.seq = air[n].seq BY <1>1, <2>7, <3>5 DEF Taken
      <4>3. QED BY <2>6, <3>1, <3>4, <4>1, <4>2 DEF Stands
    <3>6. CASE s.last # Soft!Nothing
      <4>1. s.newest.seq \in Had(n - 1) /\ \A h \in Had(n - 1) : h <= s.newest.seq
        BY <2>3, <3>2, <3>6 DEF Stands
      <4>2. x.newest.seq = IF air[n].seq > s.newest.seq THEN air[n].seq ELSE s.newest.seq
        BY <1>1, <2>7, <3>6 DEF Taken
      <4>3. s.newest.seq \in Nat BY <1>3 DEF Holds, Blocks
      <4>4. \A h \in Had(n - 1) : h \in Nat
        <5>1. \A j \in 1 .. n - 1 : air[j] \in Blocks BY DEF SoftInv, SoftTyped
        <5>2. rx.newest \in Blocks BY DEF SoftInv, SoftTyped, Holds
        <5>3. QED BY <5>1, <5>2 DEF Had, Blocks
      <4>5. x.newest.seq \in Had(n) BY <3>3, <4>1, <4>2
      <4>6. ASSUME NEW h \in Had(n) PROVE h <= x.newest.seq
        <5>1. PICK t \in Nat, a \in Nat : t = s.newest.seq /\ a = air[n].seq BY <2>6, <4>3
        <5>2. h = a \/ (h \in Nat /\ h <= t) BY <3>3, <4>1, <4>4, <5>1
        <5>3. x.newest.seq = IF a > t THEN a ELSE t BY <4>2, <5>1
        <5>4. QED BY <5>2, <5>3
      <4>7. QED BY <3>1, <3>4, <4>5, <4>6 DEF Stands
    <3>7. QED BY <3>5, <3>6
  <2>9. QED BY <1>1, <1>3, <1>4, <2>7, <2>8 DEF Ran, Taken, f, x
<1>7. QED BY <1>5, <1>6

\* All frames of a capture.
LEMMA RunsThrough ==
  ASSUME Sizes, Soft!Trusted, SoftInv, Soft!OnTime, NEW k \in 0 .. Len(air),
         NEW read, Len(read) = k,
         \A n \in 1 .. k : \E q \in {"clean", "board", "weak", "unsynced", "cut"} :
           read[n] = [b |-> air[n], q |-> q],
         NEW f, Runs(rx, read, f)
  PROVE  Ran(k, f[k]) /\ (k = 0 => f[k] = rx)
<1>1. k \in Nat OBVIOUS
<1>2. /\ f[0] = rx
      /\ \A n \in 1 .. k : f[n] = Soft!Frame(f[n - 1], read[n])
  BY <1>1, RunsAre
<1>3. Ran(0, rx) BY DEF Ran, SoftInv, SoftTyped
<1> DEFINE Bad == {n \in 0 .. k : ~Ran(n, f[n])}
<1>4. Bad = {}
  <2> SUFFICES ASSUME Bad # {} PROVE FALSE OBVIOUS
  <2>1. Bad \in SUBSET Nat BY <1>1
  <2>2. PICK m \in Bad : \A y \in Bad : m <= y BY <2>1, Smallest
  <2>3. m \in Nat /\ m <= k /\ m # 0 BY <1>2, <1>3
  <2>4. m \in 1 .. k /\ m - 1 \in 0 .. k /\ ~(m <= m - 1) /\ m \in 1 .. Len(air)
    <3>1. Len(air) \in Nat BY DEF SoftInv, SoftTyped
    <3>2. QED BY <1>1, <2>3, <3>1
  <2>5. Ran(m - 1, f[m - 1]) BY <2>2, <2>4
  <2>6. m = 1 => f[m - 1] = rx BY <1>2
  <2>7. PICK q \in {"clean", "board", "weak", "unsynced", "cut"} :
          read[m] = [b |-> air[m], q |-> q]
    BY <2>4
  <2>8. Ran(m, f[m])
    <3>1. f[m] = Soft!Frame(f[m - 1], [b |-> air[m], q |-> q]) BY <1>2, <2>4, <2>7
    <3>2. QED BY <2>4, <2>5, <2>6, <3>1, RunsOn
  <2>9. QED BY <2>8
<1>5. k \in 0 .. k BY <1>1
<1>6. QED BY <1>2, <1>4, <1>5

\* What a capture leaves: the receiver after the frames that can be read, or one that follows
\* the numbering of a picture they completed.
Turned(m, s, r) ==
  /\ Ran(m, s)
  /\ m = 0 => s = rx
  /\ \/ r = s
     \/ \E l \in 0 .. life : /\ l # s.follows /\ Soft!Completes(s, l) /\ ~Soft!Completes(rx, l)
                             /\ r = Soft!Followed(s, l)

LEMMA TurnIs ==
  ASSUME Sizes, Soft!Trusted, SoftInv, Soft!OnTime, NEW k \in 1 .. Len(air),
         NEW q \in [1 .. k -> Soft!Qualities], \A i \in 1 .. k : q[i] = "junk" => i = k
  PROVE  \E m \in {k - 1, k} : \E s :
           Turned(m, s, Soft!Turn(rx, [i \in 1 .. k |-> [b |-> air[i], q |-> q[i]]]))
<1> DEFINE frames == [i \in 1 .. k |-> [b |-> air[i], q |-> q[i]]]
           junk == {i \in DOMAIN frames : frames[i].q = "junk"}
           read == IF junk = {} THEN frames ELSE SubSeq(frames, 1, Soft!Min(junk) - 1)
           after == CHOOSE f : Runs(rx, read, f)
           s == after[Len(read)]
           others == {l \in 0 .. life : /\ l # s.follows /\ Soft!Completes(s, l)
                                        /\ ~Soft!Completes(rx, l)}
           r == IF others = {} THEN s ELSE Soft!Followed(s, CHOOSE l \in others : TRUE)
<1>1. Soft!Turn(rx, frames) = r BY DEF Soft!Turn, Runs
<1>2. k \in Nat /\ k >= 1 /\ k <= Len(air) /\ Len(air) \in Nat BY DEF SoftInv, SoftTyped
<1>3. \A i \in 1 .. k : air[i] \in Blocks
  <2>1. \A i \in 1 .. k : i \in 1 .. Len(air) BY <1>2
  <2>2. QED BY <2>1 DEF SoftInv, SoftTyped
<1>4. frames \in Seq(Frames) /\ Len(frames) = k
  <2>1. \A i \in 1 .. k : [b |-> air[i], q |-> q[i]] \in Frames BY <1>3 DEF Frames
  <2>2. frames \in Seq(Frames) BY <1>2, <2>1, IsASeq
  <2>3. DOMAIN frames = 1 .. k OBVIOUS
  <2> HIDE DEF frames
  <2>4. QED BY <1>2, <2>2, <2>3, LenProperties
<1>5. /\ Len(read) \in {k - 1, k}
      /\ \A n \in 1 .. Len(read) :
           \E p \in {"clean", "board", "weak", "unsynced", "cut"} :
             read[n] = [b |-> air[n], q |-> p]
  <2>1. CASE junk = {}
    <3>1. read = frames BY <2>1
    <3>2. Len(read) = k BY <1>4, <3>1
    <3>3. \A n \in 1 .. k : q[n] \in {"clean", "board", "weak", "unsynced", "cut"}
      <4> TAKE n \in 1 .. k
      <4>1. q[n] # "junk" BY <2>1
      <4>2. q[n] \in Soft!Qualities OBVIOUS
      <4>3. QED BY <4>1, <4>2 DEF Soft!Qualities
    <3>4. \A n \in 1 .. k : read[n] = [b |-> air[n], q |-> q[n]] BY <3>1
    <3> HIDE DEF read
    <3>5. QED BY <3>2, <3>3, <3>4
  <2>2. CASE junk # {}
    <3>1. junk = {k} BY <2>2, <1>2
    <3>2. Soft!Min(junk) = k
      <4>1. k \in Int BY <1>2
      <4>2. Soft!Min({k, k}) = k BY <4>1, SmallerOf
      <4>3. {k, k} = {k} OBVIOUS
      <4> HIDE DEF junk
      <4>4. QED BY <3>1, <4>2, <4>3
    <3>3. read = SubSeq(frames, 1, k - 1) BY <2>2, <3>2
    <3>4. \A i \in 1 .. k - 1 : i \in 1 .. k BY <1>2
    <3>5. \A i \in 1 .. k - 1 : frames[i] \in Frames
      <4> HIDE DEF frames
      <4>1. QED BY <1>4, <3>4
    <3>6. 1 \in Int /\ k - 1 \in Int BY <1>2
    <3>7. /\ Len(SubSeq(frames, 1, k - 1)) = IF 1 <= k - 1 THEN (k - 1) - 1 + 1 ELSE 0
          /\ \A i \in 1 .. (k - 1) - 1 + 1 : SubSeq(frames, 1, k - 1)[i] = frames[1 + i - 1]
      <4> HIDE DEF frames
      <4>1. QED BY <3>5, <3>6, SubSeqProperties
    <3> HIDE DEF read
    <3>8. Len(read) = k - 1 BY <1>2, <3>3, <3>7
    <3>9. ASSUME NEW n \in 1 .. k - 1 PROVE read[n] = [b |-> air[n], q |-> q[n]]
      <4>1. n \in 1 .. (k - 1) - 1 + 1 /\ 1 + n - 1 = n /\ n \in 1 .. k BY <1>2
      <4>2. read[n] = frames[n] BY <3>3, <3>7, <4>1
      <4>3. QED BY <4>1, <4>2
    <3>10. \A n \in 1 .. k - 1 : q[n] \in {"clean", "board", "weak", "unsynced", "cut"}
      <4> TAKE n \in 1 .. k - 1
      <4>1. n \in 1 .. k /\ n # k BY <1>2
      <4>2. q[n] # "junk" /\ q[n] \in Soft!Qualities BY <4>1
      <4>3. QED BY <4>2 DEF Soft!Qualities
    <3>11. QED BY <3>8, <3>9, <3>10
  <2>3. QED BY <2>1, <2>2
<1> HIDE DEF read
<1>6. Len(read) \in 0 .. Len(air) /\ Len(read) \in Nat BY <1>2, <1>5
<1>7. Runs(rx, read, after) BY <1>6, RunsExist
<1> HIDE DEF after
<1>8. Ran(Len(read), s) /\ (Len(read) = 0 => s = rx)
  <2>1. PICK m \in 0 .. Len(air) : m = Len(read) BY <1>6
  <2>2. \A n \in 1 .. m :
          \E p \in {"clean", "board", "weak", "unsynced", "cut"} : read[n] = [b |-> air[n], q |-> p]
    BY <1>5, <2>1
  <2>3. Ran(m, after[m]) /\ (m = 0 => after[m] = rx) BY <1>7, <2>1, <2>2, RunsThrough
  <2>4. QED BY <2>1, <2>3
<1> HIDE DEF s
<1>9. r = s \/ \E l \in 0 .. life : /\ l # s.follows /\ Soft!Completes(s, l)
                                    /\ ~Soft!Completes(rx, l) /\ r = Soft!Followed(s, l)
  <2>1. CASE others = {} BY <2>1
  <2>2. CASE others # {}
    <3>1. (CHOOSE l \in others : TRUE) \in others BY <2>2
    <3>2. r = Soft!Followed(s, CHOOSE l \in others : TRUE) BY <2>2
    <3>3. PICK l \in others : r = Soft!Followed(s, l) BY <3>1, <3>2
    <3>4. QED BY <3>3
  <2>3. QED BY <2>1, <2>2
<1> HIDE DEF r
<1>10. Turned(Len(read), s, r) BY <1>8, <1>9 DEF Turned
<1>11. QED BY <1>1, <1>5, <1>10

\* A receiver that follows another numbering has had none of its blocks.
LEMMA FollowedIs ==
  ASSUME NEW s, Holds(s), Fine(s), NEW l \in Nat
  PROVE  LET r == Soft!Followed(s, l)
         IN Holds(r) /\ Fine(r) /\ Blank(r) /\ r.follows = l /\ r.handed = s.handed
<1> DEFINE r == Soft!Followed(s, l)
<1> DEFINE e == Soft!Empty
<1>0. e = [last |-> Soft!Nothing, newest |-> [life |-> 0, seq |-> 0], nacked |-> {},
           soft |-> <<>>, order |-> <<>>, delivered |-> <<>>, sends |-> <<>>, follows |-> 0,
           turn |-> 0, whole |-> {}, handed |-> {}, twice |-> FALSE]
  BY DEF Soft!Empty
<1>9. r = [e EXCEPT !.follows = l, !.turn = s.turn + 1, !.handed = s.handed, !.twice = s.twice,
                    !.whole = s.whole, !.sends = s.sends]
  BY DEF Soft!Followed
<1> HIDE DEF e
<1> HIDE DEF r
<1>1. /\ r = [last |-> r.last, newest |-> r.newest, nacked |-> r.nacked, soft |-> r.soft,
              order |-> r.order, delivered |-> r.delivered, sends |-> r.sends,
              follows |-> r.follows, turn |-> r.turn, whole |-> r.whole, handed |-> r.handed,
              twice |-> r.twice]
      /\ r.last = Soft!Nothing /\ r.newest = [life |-> 0, seq |-> 0] /\ r.soft = <<>>
      /\ r.delivered = <<>> /\ r.sends = s.sends /\ r.follows = l /\ r.turn = s.turn + 1
      /\ r.whole = s.whole /\ r.handed = s.handed /\ r.twice = s.twice
  BY <1>0, <1>9
<1>2. <<>> \in Seq(Int) /\ DOMAIN <<>> = {} BY EmptySeq
<1>3. Holds(r) BY <1>1, <1>2 DEF Holds, Blocks, Soft!Nothing
<1>4. s.turn \in Nat BY DEF Holds
<1>5. \A h \in s.handed : h.turn \in Nat /\ h.turn <= s.turn /\ h.turn # s.turn + 1
  BY <1>4 DEF Fine
<1>6. Fine(r) BY <1>1, <1>4, <1>5 DEF Fine
<1>7. Blank(r) BY <1>1, <1>2, <1>5 DEF Blank
<1>8. QED BY <1>1, <1>3, <1>6, <1>7 DEF r

-----------------------------------------------------------------------------
(* The steps.                                                              *)

LEMMA SoftInitial == ASSUME Soft!Init PROVE SoftInv
<1>1. /\ copies \in Nat /\ life = 0 /\ softSeq = 0 /\ softCache = <<>> /\ air = <<>>
      /\ softAsks = <<>> /\ rx = Soft!Empty
  BY DEF Soft!Init, Soft!Copies
<1>2. /\ rx = [last |-> rx.last, newest |-> rx.newest, nacked |-> rx.nacked, soft |-> rx.soft,
               order |-> rx.order, delivered |-> rx.delivered, sends |-> rx.sends,
               follows |-> rx.follows, turn |-> rx.turn, whole |-> rx.whole,
               handed |-> rx.handed, twice |-> rx.twice]
      /\ rx.last = -1 /\ rx.newest = [life |-> 0, seq |-> 0] /\ rx.soft = <<>>
      /\ rx.delivered = <<>> /\ rx.sends = <<>> /\ rx.follows = 0 /\ rx.turn = 0
      /\ rx.whole = {} /\ rx.handed = {} /\ rx.twice = FALSE
  BY <1>1 DEF Soft!Empty, Soft!Nothing
<1>3. <<>> \in Seq(Int) /\ <<>> \in Seq(Blocks) /\ <<>> \in Seq([seq : Nat, retx : Nat])
      /\ Len(<<>>) = 0 /\ DOMAIN <<>> = {}
  BY EmptySeq
<1>4. Holds(rx) BY <1>2, <1>3 DEF Holds, Blocks
<1>5. SoftTyped BY <1>1, <1>3, <1>4 DEF SoftTyped
<1>6. OneByOne BY <1>1, <1>2, <1>3 DEF OneByOne
<1>7. Fine(rx) BY <1>2 DEF Fine
<1>8. Pure(rx) BY <1>2, <1>3 DEF Pure, Blank, Soft!Nothing
<1>9. QED BY <1>5, <1>6, <1>7, <1>8 DEF SoftInv

\* The NACKs of a turn are gone.
LEMMA SentIs ==
  ASSUME NEW r, Holds(r), Fine(r), NEW x, x = [r EXCEPT !.sends = <<>>]
  PROVE  /\ Holds(x) /\ Fine(x) /\ x.follows = r.follows /\ x.turn = r.turn
         /\ Pure(r) => Pure(x)
<1>1. /\ x = [last |-> x.last, newest |-> x.newest, nacked |-> x.nacked, soft |-> x.soft,
              order |-> x.order, delivered |-> x.delivered, sends |-> x.sends,
              follows |-> x.follows, turn |-> x.turn, whole |-> x.whole, handed |-> x.handed,
              twice |-> x.twice]
      /\ x.last = r.last /\ x.newest = r.newest /\ x.soft = r.soft
      /\ x.delivered = r.delivered /\ x.sends = <<>> /\ x.follows = r.follows
      /\ x.turn = r.turn /\ x.whole = r.whole /\ x.handed = r.handed /\ x.twice = r.twice
  BY DEF Holds
<1>2. <<>> \in Seq(Int) BY EmptySeq
<1>3. Holds(x) BY <1>1, <1>2 DEF Holds
<1>4. Fine(x) BY <1>1 DEF Fine
<1>5. Blank(r) => Blank(x) BY <1>1 DEF Blank
<1>6. ASSUME Numbered(r) PROVE Numbered(x)
  <2>1. \A n \in DOMAIN x.soft :
          n \in Int /\ x.soft[n] \in Seq([b : {Own(r, n + Off(r))}, q : Soft!Qualities])
    BY <1>1, <1>6 DEF Numbered
  <2>2. QED BY <1>1, <1>6, <2>1, StaysNumbered
<1>7. QED BY <1>1, <1>3, <1>4, <1>5, <1>6 DEF Pure

LEMMA CaptureKeeps ==
  ASSUME Sizes, Soft!Trusted, SoftInv, Soft!OnTime, Soft!Capture
  PROVE  SoftInv'
<1>0. SUBFRAMES \in Nat \ {0} /\ Len(air) \in Nat /\ air \in Seq(Blocks)
  BY DEF Sizes, SoftInv, SoftTyped
<1>1. Soft!Min({SUBFRAMES, Len(air)}) = IF SUBFRAMES <= Len(air) THEN SUBFRAMES ELSE Len(air)
  BY <1>0, SmallerOf
<1>2. PICK top \in Nat : top = Soft!Min({SUBFRAMES, Len(air)}) /\ top <= Len(air) BY <1>0, <1>1
<1> DEFINE Caught(n) ==
      \E k \in 1 .. n : \E q \in [1 .. k -> Soft!Qualities] :
        LET r == Soft!Turn(rx, [i \in 1 .. k |-> [b |-> air[i], q |-> q[i]]])
            rest == CASE q[k] = "cut" -> {k, k + 1}
                      [] q[k] = "junk" -> (k + 1) .. n + 1
                      [] OTHER -> {k + 1}
        IN /\ \A i \in 1 .. k : q[i] = "junk" => i = k
           /\ \E next \in rest : air' = SubSeq(air, next, Len(air))
           /\ rx' = [r EXCEPT !.sends = <<>>] /\ softAsks' = softAsks \o r.sends
<1>2a. Caught(top)
  <2>1. Caught(Soft!Min({SUBFRAMES, Len(air)})) BY DEF Soft!Capture
  <2> HIDE DEF Caught
  <2>2. QED BY <2>1, <1>2
<1>3. PICK k \in 1 .. top : \E q \in [1 .. k -> Soft!Qualities] :
        LET r == Soft!Turn(rx, [i \in 1 .. k |-> [b |-> air[i], q |-> q[i]]])
            rest == CASE q[k] = "cut" -> {k, k + 1}
                      [] q[k] = "junk" -> (k + 1) .. top + 1
                      [] OTHER -> {k + 1}
        IN /\ \A i \in 1 .. k : q[i] = "junk" => i = k
           /\ \E next \in rest : air' = SubSeq(air, next, Len(air))
           /\ rx' = [r EXCEPT !.sends = <<>>] /\ softAsks' = softAsks \o r.sends
  BY <1>2a
<1>4. PICK q \in [1 .. k -> Soft!Qualities] :
        LET r == Soft!Turn(rx, [i \in 1 .. k |-> [b |-> air[i], q |-> q[i]]])
            rest == CASE q[k] = "cut" -> {k, k + 1}
                      [] q[k] = "junk" -> (k + 1) .. top + 1
                      [] OTHER -> {k + 1}
        IN /\ \A i \in 1 .. k : q[i] = "junk" => i = k
           /\ \E next \in rest : air' = SubSeq(air, next, Len(air))
           /\ rx' = [r EXCEPT !.sends = <<>>] /\ softAsks' = softAsks \o r.sends
  BY <1>3
<1> DEFINE rest == CASE q[k] = "cut" -> {k, k + 1}
                     [] q[k] = "junk" -> (k + 1) .. top + 1
                     [] OTHER -> {k + 1}
           r == Soft!Turn(rx, [i \in 1 .. k |-> [b |-> air[i], q |-> q[i]]])
<1>5. PICK next \in rest : air' = SubSeq(air, next, Len(air)) BY <1>4
<1>6. rx' = [r EXCEPT !.sends = <<>>] /\ softAsks' = softAsks \o r.sends BY <1>4
<1>7. \A i \in 1 .. k : q[i] = "junk" => i = k BY <1>4
<1>8. k \in 1 .. Len(air) /\ next >= k /\ next <= Len(air) + 1 /\ next \in Nat
  BY <1>0, <1>2, <1>5
<1>9. \E m \in {k - 1, k} : \E s : Turned(m, s, r) BY <1>7, <1>8, TurnIs
<1> HIDE DEF r, rest
<1>10. PICK m \in {k - 1, k} : \E s : Turned(m, s, r) BY <1>9
<1>11. PICK s : Turned(m, s, r) BY <1>10
<1>12. /\ Ran(m, s) /\ (m = 0 => s = rx)
       /\ \/ r = s
          \/ \E l \in 0 .. life : /\ l # s.follows /\ Soft!Completes(s, l)
                                  /\ ~Soft!Completes(rx, l) /\ r = Soft!Followed(s, l)
  BY <1>11 DEF Turned
<1>13. m \in Nat /\ m <= k BY <1>8
<1>14. /\ Holds(s) /\ Fine(s) /\ s.follows = rx.follows /\ s.turn = rx.turn
       /\ \A h \in s.handed : h \in rx.handed \/ \E i \in 1 .. m : h = Now(rx, air[i])
       /\ m # 0 /\ (\A i \in 1 .. m : air[i].life = rx.follows) => Numbered(s)
  BY <1>12 DEF Ran, Stands
<1>15. /\ air' \in Seq(Blocks) /\ Len(air') \in Nat
       /\ \A j \in 1 .. Len(air') : next + j - 1 \in k .. Len(air) /\ air'[j] = air[next + j - 1]
  <2>1. \A i \in next .. Len(air) : air[i] \in Blocks BY <1>0, <1>8
  <2>2. /\ air' \in Seq(Blocks)
        /\ Len(air') = IF next <= Len(air) THEN Len(air) - next + 1 ELSE 0
        /\ \A i \in 1 .. Len(air) - next + 1 : air'[i] = air[next + i - 1]
    BY <1>0, <1>5, <1>8, <2>1, SubSeqProperties
  <2>3. PICK n \in Nat : n = Len(air') BY <2>2
  <2>4. n = IF next <= Len(air) THEN Len(air) - next + 1 ELSE 0 BY <2>2, <2>3
  <2>5. \A j \in 1 .. n : next + j - 1 \in k .. Len(air) /\ j \in 1 .. Len(air) - next + 1
    BY <1>0, <1>8, <2>4
  <2>6. QED BY <2>2, <2>3, <2>5
<1>16. UNCHANGED <<copies, life, softSeq, softCache>> BY DEF Soft!Capture
<1>17. \A i, j \in 1 .. Len(air) : i <= j => air[i].life <= air[j].life
  <2>1. \A i \in 1 .. Len(air) : air[i] \in Blocks BY <1>0
  <2>2. \A i \in 1 .. Len(air) : air[i].life \in Nat BY <2>1 DEF Blocks
  <2>3. QED BY <1>0, <2>2 DEF SoftInv, OneByOne
<1>18. \A i \in 1 .. Len(air) : /\ air[i].life \in Nat /\ rx.follows <= air[i].life
                                /\ air[i].life <= life
  <2>1. \A i \in 1 .. Len(air) : air[i] \in Blocks BY <1>0
  <2>2. QED BY <2>1 DEF SoftInv, OneByOne, Blocks
<1>19. rx.follows \in Nat /\ life \in Nat /\ rx.follows <= life
  BY DEF SoftInv, SoftTyped, OneByOne, Holds
<1>20. \A i, j \in 1 .. Len(air') : i < j => air'[i].life <= air'[j].life
  <2> TAKE i, j \in 1 .. Len(air')
  <2> HAVE i < j
  <2> DEFINE a == next + i - 1   c == next + j - 1
  <2>1. air'[i] = air[a] /\ air'[j] = air[c] /\ a \in k .. Len(air) /\ c \in k .. Len(air)
    BY <1>15
  <2>2. PICK n \in Nat : n = Len(air') BY <1>15
  <2>3. i \in 1 .. n /\ j \in 1 .. n BY <2>2
  <2>4. a \in 1 .. Len(air) /\ c \in 1 .. Len(air) /\ a <= c BY <1>8, <2>1, <2>3
  <2>5. QED BY <1>17, <2>1, <2>4
<1>21. ASSUME Holds(r), Fine(r), r.follows <= life,
              \A j \in 1 .. Len(air') : r.follows <= air'[j].life,
              life = r.follows \/ (\E j \in 1 .. Len(air') : air'[j].life = r.follows) => Pure(r)
       PROVE  SoftInv'
  <2>1. /\ Holds(rx') /\ Fine(rx') /\ rx'.follows = r.follows
        /\ Pure(r) => Pure(rx')
    BY <1>6, <1>21, SentIs
  <2>2. softAsks' \in Seq(Int)
    <3>1. softAsks \in Seq(Int) /\ r.sends \in Seq(Int) BY <1>21 DEF SoftInv, SoftTyped, Holds
    <3>2. QED BY <1>6, <3>1, ConcatProperties
  <2>3. SoftTyped' BY <1>15, <1>16, <2>1, <2>2 DEF SoftInv, SoftTyped
  <2>4. \A j \in 1 .. Len(air') : air'[j].life <= life BY <1>8, <1>15, <1>18
  <2>5. OneByOne' BY <1>16, <1>20, <1>21, <2>1, <2>4 DEF OneByOne
  <2>6. Current' => Pure(rx') BY <1>16, <1>21, <2>1 DEF Current
  <2>7. QED BY <2>1, <2>3, <2>5, <2>6 DEF SoftInv
<1>22. CASE r = s
  <2>1. Holds(r) /\ Fine(r) /\ r.follows = rx.follows /\ r.follows <= life BY <1>14, <1>19, <1>22
  <2>2. \A j \in 1 .. Len(air') : r.follows <= air'[j].life BY <1>8, <1>15, <1>18, <2>1
  <2>3. ASSUME life = r.follows \/ (\E j \in 1 .. Len(air') : air'[j].life = r.follows)
        PROVE  Pure(r)
    <3>1. \A i \in 1 .. k : i \in 1 .. Len(air) BY <1>8
    <3>2. \A i \in 1 .. k : air[i].life = rx.follows
      <4>1. CASE life = r.follows
        <5> TAKE i \in 1 .. k
        <5>1. air[i].life \in Nat /\ rx.follows <= air[i].life /\ air[i].life <= rx.follows
          BY <1>18, <2>1, <3>1, <4>1
        <5>2. QED BY <5>1, <1>19
      <4>2. CASE \E j \in 1 .. Len(air') : air'[j].life = r.follows
        <5> TAKE i \in 1 .. k
        <5>1. PICK j \in 1 .. Len(air') : air'[j].life = rx.follows BY <2>1, <4>2
        <5>2. PICK c \in k .. Len(air) : air'[j] = air[c] BY <1>15
        <5>3. c \in 1 .. Len(air) /\ i <= c /\ i \in 1 .. Len(air) BY <1>8, <3>1
        <5>4. air[i].life \in Nat /\ rx.follows <= air[i].life /\ air[i].life <= rx.follows
          BY <1>17, <1>18, <5>1, <5>2, <5>3
        <5>5. QED BY <5>4, <1>19
      <4>3. QED BY <2>3, <4>1, <4>2
    <3>3. CASE m = 0
      <4>1. 1 \in 1 .. k BY <1>8
      <4>2. Current BY <3>1, <3>2, <4>1 DEF Current
      <4>3. QED BY <1>12, <1>22, <3>3, <4>2 DEF SoftInv
    <3>4. CASE m # 0
      <4>1. \A i \in 1 .. m : i \in 1 .. k BY <1>8, <1>13
      <4>2. Numbered(s) BY <1>14, <3>2, <3>4, <4>1
      <4>3. QED BY <1>22, <4>2 DEF Pure
    <3>5. QED BY <3>3, <3>4
  <2>4. QED BY <1>21, <2>1, <2>2, <2>3
<1>23. CASE \E l \in 0 .. life : /\ l # s.follows /\ Soft!Completes(s, l)
                                 /\ ~Soft!Completes(rx, l) /\ r = Soft!Followed(s, l)
  <2>1. PICK l \in 0 .. life : /\ Soft!Completes(s, l) /\ ~Soft!Completes(rx, l)
                               /\ r = Soft!Followed(s, l)
    BY <1>23
  <2>2. l \in Nat /\ l <= life BY <1>19
  <2>3. Holds(r) /\ Fine(r) /\ Blank(r) /\ r.follows = l BY <1>14, <2>1, <2>2, FollowedIs
  <2>4. \E i \in 1 .. m : air[i].life = l
    <3>1. PICK p \in 1 .. MaxBlocks : \A n \in (p - 1) * FRAME + 1 .. p * FRAME :
            [b |-> [life |-> l, seq |-> n], turn |-> s.turn] \in s.handed
      BY <2>1 DEF Soft!Completes
    <3>2. PICK n \in (p - 1) * FRAME + 1 .. p * FRAME :
            [b |-> [life |-> l, seq |-> n], turn |-> rx.turn] \notin rx.handed
      BY <2>1 DEF Soft!Completes
    <3> DEFINE w == [b |-> [life |-> l, seq |-> n], turn |-> rx.turn]
    <3>3. w \in s.handed /\ w \notin rx.handed BY <1>14, <3>1, <3>2
    <3>4. PICK i \in 1 .. m : w = Now(rx, air[i])
      <4> HIDE DEF w
      <4>1. QED BY <1>14, <3>3
    <3>5. w.b = air[i] BY <3>4 DEF Now
    <3>6. air[i].life = l BY <3>5
    <3>7. QED BY <3>6
  <2>5. PICK i \in 1 .. m : air[i].life = l BY <2>4
  <2>6. i \in 1 .. Len(air) /\ i <= k BY <1>8, <1>13
  <2>7. \A j \in 1 .. Len(air') : r.follows <= air'[j].life
    <3> TAKE j \in 1 .. Len(air')
    <3>1. PICK c \in k .. Len(air) : air'[j] = air[c] BY <1>15
    <3>2. c \in 1 .. Len(air) /\ i <= c BY <1>8, <2>6
    <3>3. QED BY <1>17, <2>3, <2>5, <2>6, <3>1, <3>2
  <2>8. QED BY <1>21, <2>2, <2>3, <2>7 DEF Pure
<1>24. QED BY <1>12, <1>22, <1>23

\* The transmitter only puts transmissions of its own numbering behind what is on the air.
Entries == [seq : Nat, retx : Nat]
Grown(a) ==
  /\ a \in Seq(Blocks) /\ Len(a) >= Len(air)
  /\ \A i \in 1 .. Len(air) : a[i] = air[i]
  /\ \A i \in Len(air) + 1 .. Len(a) : a[i].life = life

LEMMA GrownKeeps ==
  ASSUME SoftInv, Grown(air'), UNCHANGED <<copies, life, rx>>, softSeq' \in Nat,
         softCache' \in Seq(Entries), softAsks' \in Seq(Int)
  PROVE  SoftInv'
<1>0. /\ air \in Seq(Blocks) /\ Len(air) \in Nat /\ Holds(rx) /\ life \in Nat
      /\ rx.follows \in Nat /\ rx.follows <= life
  BY DEF SoftInv, SoftTyped, OneByOne, Holds
<1>1. PICK a \in Seq(Blocks) : a = air' BY DEF Grown
<1>2. PICK m \in Nat, n \in Nat : m = Len(air) /\ n = Len(a) /\ m <= n
  BY <1>0, <1>1 DEF Grown
<1>3. /\ \A i \in 1 .. m : a[i] = air[i]
      /\ \A i \in m + 1 .. n : a[i].life = life
  BY <1>1, <1>2 DEF Grown
<1>4. \A i \in 1 .. n : i \in 1 .. m \/ i \in m + 1 .. n BY <1>2
<1>5. \A i \in 1 .. m : /\ rx.follows <= air[i].life /\ air[i].life <= life
                        /\ \A j \in 1 .. m : i < j => air[i].life <= air[j].life
  BY <1>2 DEF SoftInv, OneByOne
<1>6. \A i \in 1 .. n : rx.follows <= a[i].life /\ a[i].life <= life
  <2>1. \A i \in 1 .. m : rx.follows <= a[i].life /\ a[i].life <= life BY <1>3, <1>5
  <2>2. \A i \in m + 1 .. n : rx.follows <= a[i].life /\ a[i].life <= life BY <1>0, <1>3
  <2>3. QED BY <1>4, <2>1, <2>2
<1>7. ASSUME NEW i \in 1 .. n, NEW j \in 1 .. n, i < j PROVE a[i].life <= a[j].life
  <2>1. CASE j \in 1 .. m
    <3>1. i \in 1 .. m BY <1>7, <2>1
    <3>2. QED BY <1>3, <1>5, <1>7, <2>1, <3>1
  <2>2. CASE j \in m + 1 .. n BY <1>3, <1>6, <2>2
  <2>3. QED BY <1>4, <2>1, <2>2
<1>8. SoftTyped' BY <1>0, <1>1 DEF SoftInv, SoftTyped, Entries
<1>9. OneByOne' BY <1>0, <1>1, <1>2, <1>6, <1>7 DEF OneByOne
<1>10. Current' => Current
  <2> SUFFICES ASSUME Current' PROVE Current OBVIOUS
  <2>1. CASE life = rx.follows BY <2>1 DEF Current
  <2>2. CASE \E i \in 1 .. n : a[i].life = rx.follows
    <3>1. PICK i \in 1 .. n : a[i].life = rx.follows BY <2>2
    <3>2. CASE i \in 1 .. m BY <1>2, <1>3, <3>1, <3>2 DEF Current
    <3>3. CASE i \in m + 1 .. n BY <1>3, <3>1, <3>3 DEF Current
    <3>4. QED BY <1>4, <3>2, <3>3
  <2>3. QED BY <1>1, <1>2, <2>1, <2>2 DEF Current
<1>11. QED BY <1>8, <1>9, <1>10 DEF SoftInv

LEMMA SendsKeep ==
  ASSUME Sizes, SoftInv, Soft!Send
  PROVE  SoftInv'
<1>0. /\ copies \in Nat /\ life \in Nat /\ softSeq \in Nat /\ softCache \in Seq(Entries)
      /\ air \in Seq(Blocks) /\ Len(air) \in Nat /\ softAsks \in Seq(Int)
      /\ SoftCache \in Nat \ {0}
  BY DEF SoftInv, SoftTyped, Entries, Sizes
<1> DEFINE new(n, c) == [i \in 1 .. n * c |-> [life |-> life, seq |-> softSeq + 1 + ((i - 1) % n)]]
           kept(n) == softCache \o [i \in 1 .. n |-> [seq |-> softSeq + i, retx |-> 0]]
           from(n) == Soft!Max({1, Len(kept(n)) - SoftCache + 1})
<1>1. PICK n \in {1, 2} :
        /\ softSeq' = softSeq + n
        /\ \/ /\ \E c \in 1 .. copies : air' = air \o new(n, c)
              /\ softCache' = SubSeq(kept(n), from(n), Len(kept(n)))
           \/ UNCHANGED <<air, softCache>>
  BY DEF Soft!Send
<1>2. UNCHANGED <<copies, life, softAsks, rx>> BY DEF Soft!Send
<1>3. softSeq' \in Nat BY <1>0, <1>1
<1>4. Grown(air) BY <1>0 DEF Grown
<1>5. CASE UNCHANGED <<air, softCache>>
  <2>1. Grown(air') BY <1>4, <1>5
  <2>2. QED BY <1>0, <1>2, <1>3, <1>5, <2>1, GrownKeeps
<1>6. ASSUME NEW c \in 1 .. copies, air' = air \o new(n, c),
             softCache' = SubSeq(kept(n), from(n), Len(kept(n)))
      PROVE  SoftInv'
  <2>1. n * c \in Nat BY <1>0, <1>1
  <2>2. \A i \in 1 .. n * c : [life |-> life, seq |-> softSeq + 1 + ((i - 1) % n)] \in Blocks
    <3> TAKE i \in 1 .. n * c
    <3>1. (i - 1) % n \in Nat BY <1>1, <2>1
    <3>2. QED BY <1>0, <3>1 DEF Blocks
  <2>3. new(n, c) \in Seq(Blocks) BY <2>1, <2>2, IsASeq
  <2>4. \A i \in 1 .. n * c : new(n, c)[i].life = life OBVIOUS
  <2>5. PICK w \in Seq(Blocks) : air' = air \o w /\ \A i \in 1 .. Len(w) : w[i].life = life
    <3>1. DOMAIN new(n, c) = 1 .. n * c OBVIOUS
    <3> HIDE DEF new
    <3>2. Len(new(n, c)) = n * c BY <2>1, <2>3, <3>1, LenProperties
    <3>3. QED BY <1>6, <2>3, <2>4, <3>2
  <2>6. Grown(air')
    <3>1. Len(w) \in Nat OBVIOUS
    <3>2. /\ air \o w \in Seq(Blocks) /\ Len(air \o w) = Len(air) + Len(w)
          /\ \A i \in 1 .. Len(air) + Len(w) :
               (air \o w)[i] = IF i <= Len(air) THEN air[i] ELSE w[i - Len(air)]
      BY <1>0, ConcatProperties
    <3>3. \A i \in 1 .. Len(air) : (air \o w)[i] = air[i] BY <1>0, <3>1, <3>2
    <3>4. ASSUME NEW i \in Len(air) + 1 .. Len(air) + Len(w) PROVE (air \o w)[i].life = life
      <4>1. i - Len(air) \in 1 .. Len(w) /\ (air \o w)[i] = w[i - Len(air)]
        BY <1>0, <3>1, <3>2
      <4>2. QED BY <2>5, <4>1
    <3>5. QED BY <1>0, <2>5, <3>1, <3>2, <3>3, <3>4 DEF Grown
  <2>7. softCache' \in Seq(Entries)
    <3>1. \A i \in 1 .. n : [seq |-> softSeq + i, retx |-> 0] \in Entries
      BY <1>0, <1>1 DEF Entries
    <3>2. n \in Nat BY <1>1
    <3>3. [i \in 1 .. n |-> [seq |-> softSeq + i, retx |-> 0]] \in Seq(Entries)
      BY <3>1, <3>2, IsASeq
    <3>4. PICK k \in Seq(Entries) : k = kept(n) BY <1>0, <3>3, ConcatProperties
    <3>5. PICK l \in Nat : l = Len(k) BY <3>4
    <3>6. PICK m \in Int : m = from(n) /\ m >= 1
      <4>1. 1 \in Int /\ l - SoftCache + 1 \in Int BY <1>0, <3>5
      <4>2. Soft!Max({1, l - SoftCache + 1}) = IF 1 >= l - SoftCache + 1 THEN 1
                                               ELSE l - SoftCache + 1
        BY <4>1, LargerOf
      <4>3. from(n) = Soft!Max({1, l - SoftCache + 1}) BY <3>4, <3>5
      <4> HIDE DEF from
      <4>4. QED BY <4>1, <4>2, <4>3
    <3>7. ASSUME NEW i \in m .. l PROVE k[i] \in Entries
      <4> HIDE DEF kept, from
      <4>1. i \in 1 .. Len(k) BY <3>5, <3>6
      <4>2. QED BY <4>1, ElementOfSeq
    <3>8. SubSeq(k, m, l) \in Seq(Entries)
      <4>1. l \in Int OBVIOUS
      <4> HIDE DEF kept, from
      <4>2. QED BY <4>1, <3>7, SubSeqProperties
    <3> HIDE DEF kept, from
    <3>9. QED BY <1>6, <3>4, <3>5, <3>6, <3>8
  <2>8. QED BY <1>0, <1>2, <1>3, <2>6, <2>7, GrownKeeps
<1>7. QED BY <1>1, <1>5, <1>6

LEMMA StartsAgain ==
  ASSUME SoftInv, Soft!Restart
  PROVE  SoftInv'
<1>1. /\ life' = life + 1 /\ softSeq' = 0 /\ softCache' = <<>>
      /\ UNCHANGED <<copies, air, softAsks, rx>>
  BY DEF Soft!Restart
<1>2. /\ air \in Seq(Blocks) /\ Len(air) \in Nat /\ Holds(rx) /\ life \in Nat
      /\ rx.follows \in Nat /\ rx.follows <= life
  BY DEF SoftInv, SoftTyped, OneByOne, Holds
<1>3. <<>> \in Seq([seq : Nat, retx : Nat]) BY EmptySeq
<1>4. SoftTyped' BY <1>1, <1>2, <1>3 DEF SoftInv, SoftTyped
<1>5. \A i \in 1 .. Len(air) : air[i].life \in Nat
  <2>1. \A i \in 1 .. Len(air) : air[i] \in Blocks BY <1>2
  <2>2. QED BY <2>1 DEF Blocks
<1>6. OneByOne' BY <1>1, <1>2, <1>5 DEF SoftInv, OneByOne
<1>7. Current' => Current BY <1>1, <1>2 DEF Current
<1>8. QED BY <1>1, <1>4, <1>6, <1>7 DEF SoftInv

\* What the worker has after each of the NACKs it answers.
Answers(f) ==
  f = [k \in 0 .. Len(softAsks) |->
         IF k = 0 THEN [cache |-> softCache, air |-> air] ELSE Soft!Retry(f[k - 1], softAsks[k])]

\* The recursion of Answer defines a function.
LEMMA AnswersExist ==
  ASSUME Len(softAsks) \in Nat
  PROVE  \E f : Answers(f)
<1> DEFINE t == [cache |-> softCache, air |-> air]   L == Len(softAsks)
           Good(m, f) == /\ DOMAIN f = 0 .. m /\ f[0] = t
                         /\ \A n \in 1 .. m : f[n] = Soft!Retry(f[n - 1], softAsks[n])
           Bad == {m \in 0 .. L : ~\E f : Good(m, f)}
<1> HIDE DEF t
<1>1. Bad = {}
  <2> SUFFICES ASSUME Bad # {} PROVE FALSE OBVIOUS
  <2>1. Bad \in SUBSET Nat OBVIOUS
  <2>2. PICK m \in Bad : \A y \in Bad : m <= y BY <2>1, Smallest
  <2>3. m \in Nat /\ m <= L OBVIOUS
  <2>4. CASE m = 0
    <3> DEFINE g == [n \in 0 .. 0 |-> t]
    <3>1. Good(0, g) OBVIOUS
    <3>2. QED BY <2>4, <3>1
  <2>5. CASE m # 0
    <3>1. m - 1 \in 0 .. L /\ ~(m <= m - 1) /\ m \in 1 .. L BY <2>3, <2>5
    <3>2. m - 1 \notin Bad BY <2>2, <3>1
    <3>3. PICK f : Good(m - 1, f) BY <3>1, <3>2
    <3> DEFINE g == [n \in 0 .. m |-> IF n = m THEN Soft!Retry(f[m - 1], softAsks[m]) ELSE f[n]]
    <3>4. g[0] = t
      <4>1. 0 \in 0 .. m BY <2>3
      <4>2. QED BY <4>1, <2>5, <3>3
    <3>5. ASSUME NEW n \in 1 .. m PROVE g[n] = Soft!Retry(g[n - 1], softAsks[n])
      <4>1. n \in 0 .. m /\ n - 1 \in 0 .. m /\ n - 1 # m BY <2>3
      <4>2. g[n - 1] = f[n - 1] BY <4>1
      <4>3. CASE n = m BY <4>1, <4>2, <4>3
      <4>4. CASE n # m
        <5>1. n \in 1 .. m - 1 BY <4>4, <2>3
        <5>2. f[n] = Soft!Retry(f[n - 1], softAsks[n]) BY <5>1, <3>3
        <5>3. g[n] = f[n] BY <4>1, <4>4
        <5>4. QED BY <4>2, <5>2, <5>3
      <4>5. QED BY <4>3, <4>4
    <3>6. DOMAIN g = 0 .. m OBVIOUS
    <3> HIDE DEF g
    <3>7. Good(m, g) BY <3>4, <3>5, <3>6
    <3>8. QED BY <3>7
  <2>6. QED BY <2>4, <2>5
<1>2. L \in 0 .. L OBVIOUS
<1>3. PICK f : Good(L, f) BY <1>1, <1>2
<1> DEFINE h == [n \in 0 .. L |-> IF n = 0 THEN t ELSE Soft!Retry(f[n - 1], softAsks[n])]
<1>4. ASSUME NEW n \in 0 .. L PROVE h[n] = f[n]
  <2>1. CASE n = 0 BY <2>1, <1>3
  <2>2. CASE n # 0
    <3>1. n \in 1 .. L BY <2>2
    <3>2. QED BY <2>2, <3>1, <1>3
  <2>3. QED BY <2>1, <2>2
<1>5. ASSUME NEW n \in 0 .. L
      PROVE h[n] = IF n = 0 THEN t ELSE Soft!Retry(h[n - 1], softAsks[n])
  <2>1. CASE n = 0 BY <2>1
  <2>2. CASE n # 0
    <3>1. n - 1 \in 0 .. L BY <2>2
    <3>2. h[n - 1] = f[n - 1] BY <3>1, <1>4
    <3>3. QED BY <2>2, <3>2
  <2>3. QED BY <2>1, <2>2
<1>6. h = [n \in 0 .. L |-> IF n = 0 THEN t ELSE Soft!Retry(h[n - 1], softAsks[n])]
  <2>1. h = [n \in 0 .. L |-> h[n]] OBVIOUS
  <2> HIDE DEF h
  <2>2. QED BY <1>5, <2>1
<1> HIDE DEF h
<1>7. QED BY <1>6 DEF Answers, t

\* A retry goes behind what is on the air, with the number of a block the worker keeps.
LEMMA RetryGrows ==
  ASSUME SoftInv, NEW t, t.cache \in Seq(Entries), Grown(t.air), NEW nseq
  PROVE  LET u == Soft!Retry(t, nseq) IN u.cache \in Seq(Entries) /\ Grown(u.air)
<1> DEFINE u == Soft!Retry(t, nseq)
<1>1. u = t \/ \E i \in DOMAIN t.cache :
                 u = [cache |-> [t.cache EXCEPT ![i].retx = @ + 1],
                      air |-> Append(t.air, [life |-> life, seq |-> t.cache[i].seq])]
  <2> DEFINE alike == {i \in DOMAIN t.cache :
                         t.cache[i].seq % SoftMod = nseq % SoftMod /\ Len(t.air) < MaxOnAir}
             newest == {i \in alike : (\A j \in alike : j <= i) /\ t.cache[i].retx < SoftRetx}
  <2>1. CASE newest = {} BY <2>1 DEF Soft!Retry
  <2>2. CASE newest # {}
    <3>1. (CHOOSE i \in newest : TRUE) \in newest BY <2>2
    <3>2. PICK i \in newest : i = CHOOSE k \in newest : TRUE BY <3>1
    <3>3. u = [cache |-> [t.cache EXCEPT ![i].retx = @ + 1],
               air |-> Append(t.air, [life |-> life, seq |-> t.cache[i].seq])]
      BY <2>2, <3>2 DEF Soft!Retry
    <3>4. i \in DOMAIN t.cache OBVIOUS
    <3>5. QED BY <3>3, <3>4
  <2>3. QED BY <2>1, <2>2
<1>2. life \in Nat /\ Len(air) \in Nat /\ air \in Seq(Blocks) BY DEF SoftInv, SoftTyped
<1> HIDE DEF u
<1>3. ASSUME NEW i \in DOMAIN t.cache,
             u = [cache |-> [t.cache EXCEPT ![i].retx = @ + 1],
                  air |-> Append(t.air, [life |-> life, seq |-> t.cache[i].seq])]
      PROVE  u.cache \in Seq(Entries) /\ Grown(u.air)
  <2>1. i \in 1 .. Len(t.cache) /\ t.cache[i] \in Entries
    <3>1. DOMAIN t.cache = 1 .. Len(t.cache) BY LenProperties
    <3>2. QED BY <3>1, ElementOfSeq
  <2>2. u.cache \in Seq(Entries)
    <3> DEFINE e == [t.cache[i] EXCEPT !.retx = @ + 1]
    <3>1. e \in Entries BY <2>1 DEF Entries
    <3>2. u.cache = [t.cache EXCEPT ![i] = e] BY <1>3
    <3> HIDE DEF e
    <3>3. QED BY <2>1, <3>1, <3>2, ExceptSeq
  <2> DEFINE b == [life |-> life, seq |-> t.cache[i].seq]
  <2>3. b \in Blocks /\ b.life = life BY <1>2, <2>1 DEF Blocks, Entries
  <2>4. u.air = Append(t.air, b) BY <1>3
  <2> HIDE DEF b
  <2>5. PICK a \in Seq(Blocks) : a = t.air BY DEF Grown
  <2>6. PICK n \in Nat, m \in Nat : n = Len(a) /\ m = Len(air) /\ n >= m
    BY <1>2, <2>5 DEF Grown
  <2>7. /\ u.air \in Seq(Blocks) /\ Len(u.air) = n + 1 /\ u.air[n + 1] = b
        /\ \A j \in 1 .. n : u.air[j] = a[j]
    BY <2>3, <2>4, <2>5, <2>6, AppendProperties
  <2>8. \A j \in 1 .. m : u.air[j] = air[j]
    <3>1. \A j \in 1 .. m : j \in 1 .. n /\ a[j] = air[j] BY <2>5, <2>6 DEF Grown
    <3>2. QED BY <2>7, <3>1
  <2>9. ASSUME NEW j \in m + 1 .. n + 1 PROVE u.air[j].life = life
    <3>1. CASE j = n + 1 BY <2>3, <2>7, <3>1
    <3>2. CASE j # n + 1
      <4>1. j \in m + 1 .. n /\ j \in 1 .. n BY <2>6, <3>2
      <4>2. QED BY <2>5, <2>6, <2>7, <4>1 DEF Grown
    <3>3. QED BY <3>1, <3>2
  <2>10. Grown(u.air) BY <2>6, <2>7, <2>8, <2>9 DEF Grown
  <2>11. QED BY <2>2, <2>10
<1>4. QED BY <1>1, <1>3 DEF u

LEMMA AnswersKeep ==
  ASSUME SoftInv, Soft!Answer
  PROVE  SoftInv'
<1> DEFINE f == CHOOSE g : Answers(g)   L == Len(softAsks)
<1>1. /\ softCache' = f[L].cache /\ air' = f[L].air /\ softAsks' = <<>>
      /\ UNCHANGED <<copies, life, softSeq, rx>>
  BY DEF Soft!Answer, Answers
<1>2. L \in Nat /\ softSeq \in Nat /\ softCache \in Seq(Entries) /\ air \in Seq(Blocks)
  BY DEF SoftInv, SoftTyped, Entries
<1>3. Answers(f) BY <1>2, AnswersExist
<1> HIDE DEF f
<1>4. f = [k \in 0 .. L |-> IF k = 0 THEN [cache |-> softCache, air |-> air]
                            ELSE Soft!Retry(f[k - 1], softAsks[k])]
  BY <1>3 DEF Answers
<1>5. f[0] = [cache |-> softCache, air |-> air]
  <2>1. 0 \in 0 .. L BY <1>2
  <2>2. QED BY <1>4, <2>1
<1>6. \A k \in 1 .. L : f[k] = Soft!Retry(f[k - 1], softAsks[k])
  <2>1. \A k \in 1 .. L : k \in 0 .. L /\ k # 0 BY <1>2
  <2>2. QED BY <1>4, <2>1
<1> DEFINE Bad == {k \in 0 .. L : ~(f[k].cache \in Seq(Entries) /\ Grown(f[k].air))}
<1>7. Bad = {}
  <2> SUFFICES ASSUME Bad # {} PROVE FALSE OBVIOUS
  <2>1. Bad \in SUBSET Nat BY <1>2
  <2>2. PICK m \in Bad : \A y \in Bad : m <= y BY <2>1, Smallest
  <2>3. Len(air) \in Nat BY <1>2
  <2>4. Grown(air) BY <1>2, <2>3 DEF Grown
  <2>5. m # 0 BY <1>2, <1>5, <2>4
  <2>6. m \in 1 .. L /\ m - 1 \in 0 .. L /\ ~(m <= m - 1) BY <1>2, <2>5
  <2>7. f[m - 1].cache \in Seq(Entries) /\ Grown(f[m - 1].air) BY <2>2, <2>6
  <2>8. f[m] = Soft!Retry(f[m - 1], softAsks[m]) BY <1>6, <2>6
  <2>9. f[m].cache \in Seq(Entries) /\ Grown(f[m].air) BY <2>7, <2>8, RetryGrows
  <2>10. QED BY <2>9
<1>8. L \in 0 .. L BY <1>2
<1>9. softCache' \in Seq(Entries) /\ Grown(air') BY <1>1, <1>7, <1>8
<1>10. softAsks' \in Seq(Int) /\ softSeq' \in Nat BY <1>1, <1>2, EmptySeq
<1>11. QED BY <1>1, <1>9, <1>10, GrownKeeps

\* Every step keeps the invariant, if what is on the air is on time.
LEMMA SoftNextKeeps ==
  ASSUME Sizes, Soft!Trusted, SoftInv, Soft!OnTime, [Soft!Next]_(Soft!vars)
  PROVE  SoftInv'
<1>1. CASE Soft!Next
  BY <1>1, SendsKeep, AnswersKeep, StartsAgain, CaptureKeeps DEF Soft!Next
<1>2. CASE UNCHANGED Soft!vars
  BY <1>2 DEF Soft!vars, SoftInv, SoftTyped, OneByOne, Current
<1>3. QED BY <1>1, <1>2
-----------------------------------------------------------------------------

\* Every block that comes clean, by itself or from the board, is handed to the funnel, and none a
\* second time under the numbering that is followed (demod_loop, HarqCache, delivered_seqs), as
\* long as what comes is on time.
THEOREM AlwaysHandedOn ==
  ASSUME Sizes, Soft!Trusted
  PROVE  Soft!Init /\ [][Soft!Next]_(Soft!vars) /\ []Soft!OnTime
           => [](Soft!CleanGoesThrough /\ Soft!HandedOnce)
<1>1. Soft!Init => SoftInv BY SoftInitial
<1>2. SoftInv /\ Soft!OnTime /\ [Soft!Next]_(Soft!vars) => SoftInv' BY SoftNextKeeps
<1>3. SoftInv => Soft!CleanGoesThrough /\ Soft!HandedOnce
  BY DEF SoftInv, Fine, Soft!CleanGoesThrough, Soft!HandedOnce
<1>4. QED BY <1>1, <1>2, <1>3, PTL

=============================================================================

------------------------ MODULE PacketNumberProofs ------------------------
(***************************************************************************)
(* Packet numbers of any size: their inference from the bytes on the wire, *)
(* and the list of intervals that stands for the set of those received.    *)
(***************************************************************************)
EXTENDS ReceivedPacketHistory, Wire, FiniteSetTheorems, SequenceTheorems, WellFoundedInduction,
        TLAPS

(***************************************************************************)
(* A number has one remainder, in the range of the modulus.                *)
(***************************************************************************)
LEMMA ModFacts ==
    ASSUME NEW n \in Int, NEW e \in Nat \ {0}
    PROVE  /\ n % e \in 0 .. e - 1
           /\ n - (n % e) = e * (n \div e)
           /\ n \div e \in Int
  OBVIOUS

(***************************************************************************)
(* A value within a word is not changed by the word's arithmetic; a value  *)
(* below zero by less than a word becomes one at the end of the word.      *)
(***************************************************************************)
LEMMA WordFacts ==
    ASSUME NEW word \in Nat \ {0}, NEW n \in Int
    PROVE  /\ 0 <= n /\ n < word => n % word = n
           /\ n < 0 /\ n + word >= 0 => n % word = n + word
  OBVIOUS

(***************************************************************************)
(* A multiple of e that is less than 2e away from 0 is -e, 0 or e.         *)
(***************************************************************************)
LEMMA NearMultiple ==
    ASSUME NEW e \in Nat \ {0}, NEW k \in Int, e * k < 2 * e, e * k > -(2 * e)
    PROVE  k \in {-1, 0, 1}
  OBVIOUS

(***************************************************************************)
(* Of three candidates closestTo, applied twice as in InferPacketNumber,   *)
(* finds the one that is nearer to the target than the other two.          *)
(***************************************************************************)
LEMMA NearestIsFound ==
    ASSUME NEW target \in Int, NEW a \in Int, NEW b \in Int, NEW c \in Int,
           NEW n \in {a, b, c},
           \A x \in {a, b, c} : x # n => delta(target, n) < delta(target, x)
    PROVE  closestTo(target, a, closestTo(target, b, c)) = n
  BY DEF closestTo, delta

(***************************************************************************)
(* The receiver infers the number a packet was sent with                   *)
(* (protocol.InferPacketNumber), for every packet number length (which     *)
(* tells epochDelta numbers apart) and every state of the receiver, when   *)
(* the number is less than half of epochDelta away from the next expected  *)
(* one.  The numbers are two epochs away from the end of the word, so that *)
(* the unsigned arithmetic on the next epoch does not wrap around; that of *)
(* the previous epoch may.                                                 *)
(***************************************************************************)
THEOREM InferredNumberIsRight ==
    ASSUME NEW word \in Nat \ {0}, NEW epochDelta \in Nat \ {0},
           NEW lastPacketNumber \in Nat, NEW packetNumber \in Nat,
           lastPacketNumber + 2 * epochDelta < word,
           2 * delta(packetNumber, lastPacketNumber + 1) < epochDelta
    PROVE  InferPacketNumber(word, epochDelta, lastPacketNumber, packetNumber % epochDelta)
              = packetNumber
<1> DEFINE low == packetNumber % epochDelta
           epoch == lastPacketNumber - (lastPacketNumber % epochDelta)
           target == lastPacketNumber + 1
           In(begin) == (begin + low) % word
           k == (packetNumber \div epochDelta) - (lastPacketNumber \div epochDelta)
<1>0. packetNumber \in Int /\ lastPacketNumber \in Int
  OBVIOUS
<1>1. /\ low \in 0 .. epochDelta - 1
      /\ packetNumber - low = epochDelta * (packetNumber \div epochDelta)
      /\ packetNumber \div epochDelta \in Int
  BY <1>0, ModFacts, Zenon
<1>2. /\ lastPacketNumber % epochDelta \in 0 .. epochDelta - 1
      /\ epoch = epochDelta * (lastPacketNumber \div epochDelta)
      /\ lastPacketNumber \div epochDelta \in Int
  BY <1>0, ModFacts, Zenon
<1>3. /\ 2 * (packetNumber - target) < epochDelta
      /\ 2 * (target - packetNumber) < epochDelta
  BY DEF delta
<1> HIDE DEF low
<1>4. k \in Int /\ packetNumber - low - epoch = epochDelta * k
  BY <1>1, <1>2
<1>5. epochDelta * k < 2 * epochDelta /\ epochDelta * k > -(2 * epochDelta)
  BY <1>1, <1>2, <1>3, <1>4
<1>6. k \in {-1, 0, 1}
  <2> HIDE DEF k
  <2> QED  BY <1>4, <1>5, NearMultiple
<1>7. packetNumber \in {epoch - epochDelta + low, epoch + low, epoch + epochDelta + low}
  <2> HIDE DEF k, epoch
  <2> QED  BY <1>4, <1>6, <1>1, <1>2
<1>8. /\ epoch \in 0 .. lastPacketNumber
      /\ epoch + epochDelta > lastPacketNumber
  BY <1>2
<1> HIDE DEF epoch
<1>9. In(epoch) = epoch + low /\ In(epoch + epochDelta) = epoch + epochDelta + low
  <2>1. \A n \in {epoch + low, epoch + epochDelta + low} : n \in Int /\ 0 <= n /\ n < word
    BY <1>1, <1>8
  <2> QED  BY <2>1, WordFacts, Zenon
<1>10. \/ In(epoch - epochDelta) = epoch - epochDelta + low
       \/ /\ epoch - epochDelta + low < 0
          /\ In(epoch - epochDelta) = epoch - epochDelta + low + word
  <2> DEFINE n == epoch - epochDelta + low
  <2>1. n \in Int /\ ((0 <= n /\ n < word) \/ (n < 0 /\ n + word >= 0))
    BY <1>1, <1>8
  <2> QED  BY <2>1, WordFacts, Zenon
<1> HIDE DEF In
<1>11. /\ In(epoch) \in Int /\ In(epoch - epochDelta) \in Int /\ In(epoch + epochDelta) \in Int
       /\ packetNumber \in {In(epoch), In(epoch - epochDelta), In(epoch + epochDelta)}
  BY <1>1, <1>7, <1>8, <1>9, <1>10
<1>12. \A x \in {In(epoch), In(epoch - epochDelta), In(epoch + epochDelta)} :
          x # packetNumber => delta(target, packetNumber) < delta(target, x)
  BY <1>1, <1>3, <1>7, <1>8, <1>9, <1>10 DEF delta
<1>13. closestTo(target, In(epoch), closestTo(target, In(epoch - epochDelta),
                                               In(epoch + epochDelta))) = packetNumber
  BY <1>11, <1>12, NearestIsFound
<1> QED  BY <1>13 DEF InferPacketNumber, In, epoch, low

(***************************************************************************)
(* The length that GetPacketNumberLengthForPublicHeader chooses is enough, *)
(* for bytes of every size: a packet that is ahead of all that the         *)
(* receiver has is inferred with it, however many packets between them are *)
(* late, when the receiver has a packet that is not before the one below   *)
(* leastUnacked of the sender.  The code has no check for the longest      *)
(* length, and the last assumption takes its place.                        *)
(***************************************************************************)
THEOREM ChosenLengthIsEnough ==
    ASSUME MaxByte \in Nat, NEW word \in Nat \ {0},
           NEW lastPacketNumber \in Nat, NEW packetNumber \in Nat, NEW leastUnacked \in Nat,
           NEW len, len = GetPacketNumberLengthForPublicHeader(packetNumber, leastUnacked),
           lastPacketNumber + 2 * Byte ^ len < word,
           packetNumber > lastPacketNumber,
           leastUnacked <= lastPacketNumber + 1,
           packetNumber - leastUnacked < HalfEpoch(6)
    PROVE  InferPacketNumber(word, Byte ^ len, lastPacketNumber, packetNumber % (Byte ^ len))
              = packetNumber
<1> DEFINE epochDelta == Byte ^ len
<1>1. len \in {2, 4, 6} /\ packetNumber - leastUnacked < HalfEpoch(len)
  BY DEF GetPacketNumberLengthForPublicHeader
<1>2. epochDelta \in Int /\ packetNumber - leastUnacked < epochDelta \div 2
  BY <1>1 DEF HalfEpoch, Byte
<1> HIDE DEF epochDelta
<1>3. epochDelta > 0
  BY <1>2
<1>4. 2 * delta(packetNumber, lastPacketNumber + 1) < epochDelta
  BY <1>2, <1>3 DEF delta
<1>5. epochDelta \in Nat \ {0} /\ lastPacketNumber + 2 * epochDelta < word
  BY <1>2, <1>3 DEF epochDelta
<1> QED  BY <1>4, <1>5, InferredNumberIsRight, Zenon DEF epochDelta

-----------------------------------------------------------------------------
(***************************************************************************)
(* The list of intervals of a path's received packets. Intervals at the    *)
(* first n places of a list that are in ascending order, with a number     *)
(* missing between any two; the numbers they cover; a list of that form;   *)
(* and the numbers that a list stands for.                                 *)
(***************************************************************************)
Interval == [Start : Nat, End : Nat]
Gapped(rs, n) ==
    /\ \A i \in 1 .. n : rs[i].Start \in Nat /\ rs[i].End \in Nat /\ rs[i].Start <= rs[i].End
    /\ \A i, j \in 1 .. n : i < j => rs[i].End + 1 < rs[j].Start
Covers(rs, n, x) == \E i \in 1 .. n : rs[i].Start <= x /\ x <= rs[i].End
Ascending(rs) == rs \in Seq(Interval) /\ Gapped(rs, Len(rs))
NumbersOf(rs) == UNION {rs[i].Start .. rs[i].End : i \in DOMAIN rs}

(***************************************************************************)
(* A set of numbers has a least element, and below a bound a greatest one. *)
(***************************************************************************)
LEMMA LeastOf == ASSUME NEW T \in SUBSET Nat, T # {} PROVE \E x \in T : \A y \in T : x <= y
<1> DEFINE R == OpToRel(<, Nat)
<1>1. IsWellFoundedOn(R, Nat)
  BY NatLessThanWellFounded, Zenon
<1>2. PICK x \in T : \A y \in T : ~ (<<y, x>> \in R)
  <2> HIDE DEF R
  <2> QED
    BY <1>1, WFMin, Zenon
<1>3. \A y \in T : <<y, x>> \in Nat \X Nat /\ ~(y < x)
  BY <1>2 DEF OpToRel
<1>4. \A y \in T : x <= y
  <2> TAKE y \in T
  <2>1. x \in Nat /\ y \in Nat /\ ~(y < x)
    BY <1>3, Zenon
  <2> QED
    BY <2>1
<1> QED
  BY <1>4

LEMMA GreatestOf ==
    ASSUME NEW n \in Nat, NEW T \in SUBSET (1 .. n), T # {} PROVE \E x \in T : \A y \in T : x >= y
<1> DEFINE U == {n - x : x \in T}
<1>1. U \in SUBSET Nat /\ U # {}
  <2>1. \A x \in T : n - x \in Nat
    OBVIOUS
  <2> QED
    BY <2>1, Zenon
<1>2. PICK u \in U : \A v \in U : u <= v
  <2> HIDE DEF U
  <2> QED
    BY <1>1, LeastOf, Zenon
<1>3. PICK x \in T : u = n - x
  BY Zenon
<1>4. \A y \in T : n - x <= n - y
  BY <1>2, <1>3, Zenon
<1> QED
  BY <1>4

(***************************************************************************)
(* The places where the loop of ReceivedPacket ends, and the one that it   *)
(* meets first, coming from the back.                                      *)
(***************************************************************************)
LoopEnds(rs, p) == {j \in 1 .. Len(rs) : EndsLoop(rs[j], p)}
LastEnd(rs, p) == IF LoopEnds(rs, p) # {} THEN Max(LoopEnds(rs, p)) ELSE 0

(***************************************************************************)
(* What a list of intervals is made of.                                    *)
(***************************************************************************)
LEMMA StartsAndEnds ==
    ASSUME NEW rs \in Seq(Interval)
    PROVE  /\ Len(rs) \in Nat /\ DOMAIN rs = 1 .. Len(rs)
           /\ \A j \in 1 .. Len(rs) : rs[j] \in Interval /\ rs[j].Start \in Nat /\ rs[j].End \in Nat
<1>1. Len(rs) \in Nat /\ DOMAIN rs = 1 .. Len(rs)
  OBVIOUS
<1>2. \A j \in 1 .. Len(rs) : rs[j] \in Interval
  OBVIOUS
<1>3. \A r \in Interval : r.Start \in Nat /\ r.End \in Nat
  BY DEF Interval
<1> QED
  BY <1>1, <1>2, <1>3

(***************************************************************************)
(* The loop ends at an interval that p is not before by more than one, and *)
(* p is before all that come after it by more than one.                    *)
(***************************************************************************)
LEMMA LastSelected ==
    ASSUME NEW rs \in Seq(Interval), NEW p \in Nat
    PROVE  /\ LastEnd(rs, p) \in 0 .. Len(rs)
           /\ LastEnd(rs, p) # 0 => p >= rs[LastEnd(rs, p)].Start - 1
           /\ \A j \in 1 .. Len(rs) : j > LastEnd(rs, p) => p < rs[j].Start - 1
<1> DEFINE I == LoopEnds(rs, p)
           i == LastEnd(rs, p)
<1>1. i = IF I # {} THEN Max(I) ELSE 0
  BY DEF LastEnd
<1>2. Len(rs) \in Nat /\ I \in SUBSET (1 .. Len(rs))
  BY DEF LoopEnds
<1>3. \A j \in 1 .. Len(rs) : rs[j].Start \in Nat
  BY StartsAndEnds
<1>4. \A j \in 1 .. Len(rs) : j \in I <=> p >= rs[j].Start - 1
  BY DEF LoopEnds, EndsLoop
<1> HIDE DEF I, i
<1>5. CASE I = {}
  BY <1>1, <1>2, <1>3, <1>4, <1>5 DEF i
<1>6. CASE I # {}
  <2>1. \E x \in I : \A y \in I : x >= y
    BY <1>2, <1>6, GreatestOf, Zenon
  <2>2. i \in I /\ \A y \in I : i >= y
    BY <1>1, <1>6, <2>1 DEF Max
  <2>3. i \in 1 .. Len(rs) /\ p >= rs[i].Start - 1
    BY <2>2, <1>2, <1>4
  <2>4. ASSUME NEW j \in 1 .. Len(rs), j > i PROVE p < rs[j].Start - 1
    <3>1. j \notin I
      BY <2>2, <2>3, <2>4, <1>2
    <3> QED
      BY <3>1, <1>3, <1>4
  <2> QED
    BY <2>3, <2>4, <1>2 DEF i
<1> QED
  BY <1>5, <1>6

(***************************************************************************)
(* What ReceivedPacket makes of the place it finds.                        *)
(***************************************************************************)
LEMMA AddNumberUnfolds ==
    ASSUME NEW rs, NEW p
    PROVE  AddNumber(rs, p) = IF LastEnd(rs, p) = 0 THEN <<[Start |-> p, End |-> p]>> \o rs
                              ELSE ExtendOrInsertAt(rs, LastEnd(rs, p), p)
  BY DEF AddNumber, SelectLastInSeq, LastEnd, LoopEnds

(***************************************************************************)
(* The numbers of a list are those that its intervals cover.               *)
(***************************************************************************)
LEMMA InNumbers ==
    ASSUME NEW rs \in Seq(Interval), NEW n
    PROVE  n \in NumbersOf(rs) <=> n \in Int /\ Covers(rs, Len(rs), n)
<1>1. n \in NumbersOf(rs) <=> \E i \in 1 .. Len(rs) : n \in rs[i].Start .. rs[i].End
  BY DEF NumbersOf
<1>2. \A i \in 1 .. Len(rs) : rs[i].Start \in Nat /\ rs[i].End \in Nat
  BY StartsAndEnds
<1>3. \A a, b \in Nat : n \in a .. b <=> n \in Int /\ a <= n /\ n <= b
  OBVIOUS
<1>4. \A i \in 1 .. Len(rs) : n \in rs[i].Start .. rs[i].End <=>
                                n \in Int /\ rs[i].Start <= n /\ n <= rs[i].End
  BY <1>2, <1>3
<1> QED
  BY <1>1, <1>4 DEF Covers

(***************************************************************************)
(* q is the list with p as an interval of its own at place k, away from    *)
(* its neighbours: order and gaps remain, and p is the only number more.   *)
(***************************************************************************)
IsInserted(q, rs, n, k, p) ==
    /\ \A j \in 1 .. n : j < k => q[j] = rs[j] /\ rs[j].End + 1 < p
    /\ \A j \in 1 .. n : j >= k => q[j + 1] = rs[j] /\ p + 1 < rs[j].Start
    /\ q[k] = [Start |-> p, End |-> p]

LEMMA Inserted ==
    ASSUME NEW rs, NEW n \in Nat, Gapped(rs, n), NEW q, NEW k \in 1 .. n + 1, NEW p \in Nat,
           IsInserted(q, rs, n, k, p)
    PROVE  /\ Gapped(q, n + 1)
           /\ \A x \in Int : Covers(q, n + 1, x) <=> Covers(rs, n, x) \/ x = p
<1> USE DEF IsInserted
<1> DEFINE old(j) == IF j < k THEN j ELSE j - 1
<1>1. q[k].Start = p /\ q[k].End = p /\ k \in 1 .. n + 1
  OBVIOUS
<1>2. \A j \in 1 .. n + 1 : j # k => old(j) \in 1 .. n /\ q[j] = rs[old(j)]
  <2> TAKE j \in 1 .. n + 1
  <2>1. CASE j < k
    <3>1. j \in 1 .. n
      BY <2>1
    <3> QED
      BY <2>1, <3>1
  <2>2. CASE j > k
    <3>1. j - 1 \in 1 .. n /\ j - 1 >= k /\ (j - 1) + 1 = j
      BY <2>2
    <3>2. q[(j - 1) + 1] = rs[j - 1]
      BY <3>1
    <3> QED
      BY <2>2, <3>1, <3>2
  <2> QED
    BY <2>1, <2>2
<1>3. Gapped(q, n + 1)
  <2>1. ASSUME NEW j \in 1 .. n + 1
        PROVE  q[j].Start \in Nat /\ q[j].End \in Nat /\ q[j].Start <= q[j].End
    <3>1. CASE j = k
      BY <1>1, <3>1
    <3>2. CASE j # k
      <4> HIDE DEF old
      <4> QED
        BY <1>2, <3>2 DEF Gapped
    <3> QED
      BY <3>1, <3>2
  <2>2. ASSUME NEW a \in 1 .. n + 1, NEW b \in 1 .. n + 1, a < b PROVE q[a].End + 1 < q[b].Start
    <3>1. CASE a = k
      <4>1. b - 1 \in 1 .. n /\ b - 1 >= k /\ q[b] = rs[b - 1]
        BY <1>2, <2>2, <3>1
      <4> QED
        BY <4>1, <3>1, <1>1
    <3>2. CASE b = k
      <4>1. a \in 1 .. n /\ a < k /\ q[a] = rs[a]
        BY <2>2, <3>2
      <4> QED
        BY <4>1, <3>2, <1>1
    <3>3. CASE a # k /\ b # k
      <4>1. old(a) < old(b)
        BY <2>2, <3>3
      <4>2. old(a) \in 1 .. n /\ q[a] = rs[old(a)] /\ old(b) \in 1 .. n /\ q[b] = rs[old(b)]
        BY <1>2, <3>3
      <4> HIDE DEF old
      <4> QED
        BY <4>1, <4>2 DEF Gapped
    <3> QED
      BY <3>1, <3>2, <3>3
  <2> QED
    BY <2>1, <2>2 DEF Gapped
<1>4. ASSUME NEW x \in Int PROVE Covers(q, n + 1, x) <=> Covers(rs, n, x) \/ x = p
  <2>1. ASSUME NEW j \in 1 .. n + 1, q[j].Start <= x, x <= q[j].End PROVE Covers(rs, n, x) \/ x = p
    <3>1. CASE j = k
      BY <1>1, <2>1, <3>1
    <3>2. CASE j # k
      <4> HIDE DEF old
      <4> QED
        BY <1>2, <2>1, <3>2 DEF Covers
    <3> QED
      BY <3>1, <3>2
  <2>2. ASSUME NEW j \in 1 .. n, rs[j].Start <= x, x <= rs[j].End PROVE Covers(q, n + 1, x)
    <3>1. PICK i \in 1 .. n + 1 : q[i] = rs[j]
      <4>1. CASE j < k
        BY <4>1
      <4>2. CASE j >= k
        <5>1. j + 1 \in 1 .. n + 1
          OBVIOUS
        <5> QED
          BY <4>2, <5>1
      <4> QED
        BY <4>1, <4>2
    <3> QED
      BY <2>2, <3>1 DEF Covers
  <2>3. x = p => Covers(q, n + 1, x)
    BY <1>1 DEF Covers
  <2> QED
    BY <2>1, <2>2, <2>3 DEF Covers
<1> QED
  BY <1>3, <1>4

(***************************************************************************)
(* q is the list with p at the begin or the end of interval k, and away    *)
(* from its neighbours.                                                    *)
(***************************************************************************)
IsExtended(q, rs, n, k, p) ==
    /\ \A j \in 1 .. n : j # k => q[j] = rs[j]
    /\ \/ q[k].Start = rs[k].Start /\ q[k].End = p /\ rs[k].End + 1 = p
       \/ q[k].Start = p /\ q[k].End = rs[k].End /\ p + 1 = rs[k].Start
    /\ \A j \in 1 .. n : j < k => rs[j].End + 1 < p
    /\ \A j \in 1 .. n : j > k => p + 1 < rs[j].Start

LEMMA Extended ==
    ASSUME NEW rs, NEW n \in Nat, Gapped(rs, n), NEW q, NEW k \in 1 .. n, NEW p \in Nat,
           IsExtended(q, rs, n, k, p)
    PROVE  /\ Gapped(q, n)
           /\ \A x \in Int : Covers(q, n, x) <=> Covers(rs, n, x) \/ x = p
<1> USE DEF IsExtended
<1>1. /\ rs[k].Start \in Nat /\ rs[k].End \in Nat /\ rs[k].Start <= rs[k].End
      /\ q[k].Start \in Nat /\ q[k].End \in Nat /\ q[k].Start <= q[k].End
  BY DEF Gapped
<1>2. \A x \in Int : q[k].Start <= x /\ x <= q[k].End <=>
                       (rs[k].Start <= x /\ x <= rs[k].End) \/ x = p
  BY <1>1
<1>3. Gapped(q, n)
  <2>1. ASSUME NEW j \in 1 .. n
        PROVE  q[j].Start \in Nat /\ q[j].End \in Nat /\ q[j].Start <= q[j].End
    BY <1>1 DEF Gapped
  <2>2. ASSUME NEW a \in 1 .. n, NEW b \in 1 .. n, a < b PROVE q[a].End + 1 < q[b].Start
    <3>1. CASE a = k
      <4>1. q[b] = rs[b] /\ p + 1 < rs[b].Start /\ rs[k].End + 1 < rs[b].Start
        BY <2>2, <3>1 DEF Gapped
      <4> QED
        BY <4>1, <3>1, <1>1
    <3>2. CASE b = k
      <4>1. q[a] = rs[a] /\ rs[a].End + 1 < p /\ rs[a].End + 1 < rs[k].Start
        BY <2>2, <3>2 DEF Gapped
      <4> QED
        BY <4>1, <3>2, <1>1
    <3>3. CASE a # k /\ b # k
      BY <2>2, <3>3 DEF Gapped
    <3> QED
      BY <3>1, <3>2, <3>3
  <2> QED
    BY <2>1, <2>2 DEF Gapped
<1>4. ASSUME NEW x \in Int PROVE Covers(q, n, x) <=> Covers(rs, n, x) \/ x = p
  <2>1. ASSUME NEW j \in 1 .. n, q[j].Start <= x, x <= q[j].End PROVE Covers(rs, n, x) \/ x = p
    BY <1>2, <2>1 DEF Covers
  <2>2. ASSUME NEW j \in 1 .. n, rs[j].Start <= x, x <= rs[j].End PROVE Covers(q, n, x)
    <3>1. q[j].Start <= x /\ x <= q[j].End
      BY <1>2, <2>2
    <3> QED
      BY <3>1 DEF Covers
  <2>3. x = p => Covers(q, n, x)
    BY <1>2 DEF Covers
  <2> QED
    BY <2>1, <2>2, <2>3 DEF Covers
<1> QED
  BY <1>3, <1>4

(***************************************************************************)
(* q is the list with the intervals k and k + 1 as one, which p joins.     *)
(***************************************************************************)
IsMerged(q, rs, n, k, p) ==
    /\ \A j \in 1 .. n - 1 : j < k => q[j] = rs[j]
    /\ \A j \in 1 .. n - 1 : j > k => q[j] = rs[j + 1]
    /\ q[k].Start = rs[k].Start /\ q[k].End = rs[k + 1].End
    /\ rs[k].End + 1 = p /\ p + 1 = rs[k + 1].Start

LEMMA Merged ==
    ASSUME NEW rs, NEW n \in Nat, Gapped(rs, n), NEW q, NEW k \in 1 .. n - 1, NEW p \in Nat,
           IsMerged(q, rs, n, k, p)
    PROVE  /\ Gapped(q, n - 1)
           /\ \A x \in Int : Covers(q, n - 1, x) <=> Covers(rs, n, x) \/ x = p
<1> USE DEF IsMerged
<1> DEFINE old(j) == IF j < k THEN j ELSE j + 1
<1>1. /\ k \in 1 .. n /\ k + 1 \in 1 .. n
      /\ rs[k].Start \in Nat /\ rs[k].End \in Nat /\ rs[k].Start <= rs[k].End
      /\ rs[k + 1].Start \in Nat /\ rs[k + 1].End \in Nat /\ rs[k + 1].Start <= rs[k + 1].End
  <2>1. k \in 1 .. n /\ k + 1 \in 1 .. n
    OBVIOUS
  <2> QED
    BY <2>1 DEF Gapped
<1>2. \A x \in Int : q[k].Start <= x /\ x <= q[k].End <=>
                       \/ rs[k].Start <= x /\ x <= rs[k].End
                       \/ rs[k + 1].Start <= x /\ x <= rs[k + 1].End
                       \/ x = p
  BY <1>1
<1>3. \A j \in 1 .. n - 1 : j # k => old(j) \in 1 .. n /\ q[j] = rs[old(j)] /\ old(j) # k
                                       /\ old(j) # k + 1
  OBVIOUS
<1>4. Gapped(q, n - 1)
  <2>1. ASSUME NEW j \in 1 .. n - 1
        PROVE  q[j].Start \in Nat /\ q[j].End \in Nat /\ q[j].Start <= q[j].End
    <3>1. CASE j = k
      BY <1>1, <3>1
    <3>2. CASE j # k
      <4> HIDE DEF old
      <4> QED
        BY <1>3, <3>2 DEF Gapped
    <3> QED
      BY <3>1, <3>2
  <2>2. ASSUME NEW a \in 1 .. n - 1, NEW b \in 1 .. n - 1, a < b PROVE q[a].End + 1 < q[b].Start
    <3>1. CASE a = k
      <4>1. b + 1 \in 1 .. n /\ k + 1 < b + 1 /\ q[b] = rs[b + 1]
        BY <2>2, <3>1
      <4> QED
        BY <4>1, <3>1, <1>1 DEF Gapped
    <3>2. CASE b = k
      <4>1. a \in 1 .. n /\ a < k /\ q[a] = rs[a]
        BY <2>2, <3>2
      <4> QED
        BY <4>1, <3>2, <1>1 DEF Gapped
    <3>3. CASE a # k /\ b # k
      <4>1. old(a) < old(b)
        BY <2>2, <3>3
      <4>2. old(a) \in 1 .. n /\ q[a] = rs[old(a)] /\ old(b) \in 1 .. n /\ q[b] = rs[old(b)]
        BY <1>3, <3>3
      <4> HIDE DEF old
      <4> QED
        BY <4>1, <4>2 DEF Gapped
    <3> QED
      BY <3>1, <3>2, <3>3
  <2>3. n - 1 \in Int
    OBVIOUS
  <2> QED
    BY <2>1, <2>2 DEF Gapped
<1>5. ASSUME NEW x \in Int PROVE Covers(q, n - 1, x) <=> Covers(rs, n, x) \/ x = p
  <2>1. ASSUME NEW j \in 1 .. n - 1, q[j].Start <= x, x <= q[j].End
        PROVE  Covers(rs, n, x) \/ x = p
    <3>1. CASE j = k
      BY <1>1, <1>2, <2>1, <3>1 DEF Covers
    <3>2. CASE j # k
      <4> HIDE DEF old
      <4> QED
        BY <1>3, <2>1, <3>2 DEF Covers
    <3> QED
      BY <3>1, <3>2
  <2>2. ASSUME NEW j \in 1 .. n, rs[j].Start <= x, x <= rs[j].End PROVE Covers(q, n - 1, x)
    <3>1. CASE j \in {k, k + 1}
      BY <1>2, <2>2, <3>1 DEF Covers
    <3>2. CASE j \notin {k, k + 1}
      <4>1. PICK i \in 1 .. n - 1 : q[i] = rs[j]
        <5>1. CASE j < k
          BY <5>1
        <5>2. CASE j > k + 1
          <6>1. j - 1 \in 1 .. n - 1 /\ j - 1 > k /\ (j - 1) + 1 = j
            BY <5>2
          <6>2. q[j - 1] = rs[(j - 1) + 1]
            BY <6>1
          <6> QED
            BY <6>1, <6>2
        <5> QED
          BY <3>2, <5>1, <5>2
      <4> QED
        BY <2>2, <4>1 DEF Covers
    <3> QED
      BY <3>1, <3>2
  <2>3. x = p => Covers(q, n - 1, x)
    BY <1>2 DEF Covers
  <2> QED
    BY <2>1, <2>2, <2>3 DEF Covers
<1> QED
  BY <1>4, <1>5

(***************************************************************************)
(* q is the list from interval f on, without the numbers up to p.          *)
(***************************************************************************)
IsCut(q, rs, n, f, p) ==
    /\ \A j \in 1 .. n : j < f => rs[j].End <= p
    /\ rs[f].End > p
    /\ \A j \in 1 .. n - f + 1 : j # 1 => q[j] = rs[f + j - 1]
    /\ q[1].End = rs[f].End
    /\ q[1].Start = IF p >= rs[f].Start THEN p + 1 ELSE rs[f].Start

LEMMA Cut ==
    ASSUME NEW rs, NEW n \in Nat, Gapped(rs, n), NEW q, NEW f \in 1 .. n, NEW p \in Nat,
           IsCut(q, rs, n, f, p)
    PROVE  /\ Gapped(q, n - f + 1)
           /\ \A x \in Int : Covers(q, n - f + 1, x) <=> Covers(rs, n, x) /\ x > p
<1> USE DEF IsCut
<1> DEFINE m == n - f + 1
<1>1. /\ rs[f].Start \in Nat /\ rs[f].End \in Nat /\ rs[f].Start <= rs[f].End
      /\ m \in Nat /\ 1 \in 1 .. m
  BY DEF Gapped
<1>2. \A x \in Int : q[1].Start <= x /\ x <= q[1].End <=>
                       rs[f].Start <= x /\ x <= rs[f].End /\ x > p
  BY <1>1
<1>3. \A j \in 1 .. m : j # 1 => /\ f + j - 1 \in 1 .. n /\ f < f + j - 1
                                 /\ q[j] = rs[f + j - 1]
  OBVIOUS
<1>4. \A j \in 1 .. n : j > f => rs[f].End + 1 < rs[j].Start
  BY DEF Gapped
<1>5. \A j \in 1 .. n : rs[j].Start \in Nat /\ rs[j].End \in Nat /\ rs[j].Start <= rs[j].End
  BY DEF Gapped
<1> HIDE DEF m
<1>6. Gapped(q, m)
  <2>1. ASSUME NEW j \in 1 .. m
        PROVE  q[j].Start \in Nat /\ q[j].End \in Nat /\ q[j].Start <= q[j].End
    <3>1. CASE j = 1
      BY <1>1, <3>1
    <3>2. CASE j # 1
      BY <1>3, <1>5, <3>2
    <3> QED
      BY <3>1, <3>2
  <2>2. ASSUME NEW a \in 1 .. m, NEW b \in 1 .. m, a < b PROVE q[a].End + 1 < q[b].Start
    <3>1. b # 1 /\ f + b - 1 \in 1 .. n /\ f < f + b - 1 /\ q[b] = rs[f + b - 1]
      BY <1>1, <1>3, <2>2
    <3>2. CASE a = 1
      BY <1>1, <1>4, <3>1, <3>2
    <3>3. CASE a # 1
      <4>1. f + a - 1 \in 1 .. n /\ q[a] = rs[f + a - 1]
        BY <1>3, <3>3
      <4>2. f + a - 1 < f + b - 1
        BY <1>1, <2>2
      <4> QED
        BY <3>1, <4>1, <4>2 DEF Gapped
    <3> QED
      BY <3>2, <3>3
  <2> QED
    BY <2>1, <2>2 DEF Gapped
<1>7. ASSUME NEW x \in Int PROVE Covers(q, m, x) <=> Covers(rs, n, x) /\ x > p
  <2>1. ASSUME NEW j \in 1 .. m, q[j].Start <= x, x <= q[j].End PROVE Covers(rs, n, x) /\ x > p
    <3>1. CASE j = 1
      BY <1>2, <2>1, <3>1 DEF Covers
    <3>2. CASE j # 1
      <4>1. f + j - 1 \in 1 .. n /\ f < f + j - 1 /\ q[j] = rs[f + j - 1]
        BY <1>3, <3>2
      <4>2. x > p
        BY <1>1, <1>4, <1>5, <2>1, <4>1
      <4> QED
        BY <2>1, <4>1, <4>2 DEF Covers
    <3> QED
      BY <3>1, <3>2
  <2>2. ASSUME NEW j \in 1 .. n, rs[j].Start <= x, x <= rs[j].End, x > p PROVE Covers(q, m, x)
    <3>1. j >= f
      BY <1>5, <2>2
    <3>2. CASE j = f
      <4>1. q[1].Start <= x /\ x <= q[1].End
        BY <1>2, <2>2, <3>2
      <4> QED
        BY <1>1, <4>1 DEF Covers
    <3>3. CASE j > f
      <4>1. j - f + 1 \in 1 .. m /\ j - f + 1 # 1 /\ f + (j - f + 1) - 1 = j
        BY <3>3 DEF m
      <4>2. q[j - f + 1] = rs[j]
        BY <1>3, <4>1
      <4> QED
        BY <2>2, <4>1, <4>2 DEF Covers
    <3> QED
      BY <3>1, <3>2, <3>3
  <2> QED
    BY <2>1, <2>2 DEF Covers
<1> QED
  BY <1>6, <1>7 DEF m

(***************************************************************************)
(* SubSeq, InsertAt, RemoveAt and the updates of one interval, place by    *)
(* place.                                                                  *)
(***************************************************************************)
LEMMA PartIs ==
    ASSUME NEW rs \in Seq(Interval), NEW m \in 1 .. Len(rs) + 1, NEW n \in 0 .. Len(rs), m <= n + 1
    PROVE  /\ SubSeq(rs, m, n) \in Seq(Interval)
           /\ Len(SubSeq(rs, m, n)) = n - m + 1
           /\ \A i \in 1 .. n - m + 1 : SubSeq(rs, m, n)[i] = rs[m + i - 1]
<1>1. Len(rs) \in Nat /\ \A j \in 1 .. Len(rs) : rs[j] \in Interval
  BY StartsAndEnds
<1>2. m \in Int /\ n \in Int /\ \A j \in m .. n : rs[j] \in Interval
  BY <1>1
<1>3. /\ SubSeq(rs, m, n) \in Seq(Interval)
      /\ Len(SubSeq(rs, m, n)) = IF m <= n THEN n - m + 1 ELSE 0
      /\ \A i \in 1 .. n - m + 1 : SubSeq(rs, m, n)[i] = rs[m + i - 1]
  BY <1>2, SubSeqProperties
<1>4. (IF m <= n THEN n - m + 1 ELSE 0) = n - m + 1
  BY <1>2
<1> QED
  BY <1>3, <1>4

LEMMA InsertAtIs ==
    ASSUME NEW rs \in Seq(Interval), NEW k \in 1 .. Len(rs) + 1, NEW r \in Interval
    PROVE  /\ InsertAt(rs, k, r) \in Seq(Interval)
           /\ Len(InsertAt(rs, k, r)) = Len(rs) + 1
           /\ \A j \in 1 .. Len(rs) : j < k => InsertAt(rs, k, r)[j] = rs[j]
           /\ \A j \in 1 .. Len(rs) : j >= k => InsertAt(rs, k, r)[j + 1] = rs[j]
           /\ InsertAt(rs, k, r)[k] = r
<1> DEFINE a == SubSeq(rs, 1, k - 1)
           b == SubSeq(rs, k, Len(rs))
<1>1. Len(rs) \in Nat /\ \A j \in 1 .. Len(rs) : rs[j] \in Interval
  BY StartsAndEnds
<1>2. a \in Seq(Interval) /\ Len(a) = k - 1 /\ \A j \in 1 .. k - 1 : a[j] = rs[j]
  <2>1. 1 \in 1 .. Len(rs) + 1 /\ k - 1 \in 0 .. Len(rs) /\ 1 <= (k - 1) + 1
    BY <1>1
  <2>2. /\ a \in Seq(Interval)
        /\ Len(a) = (k - 1) - 1 + 1
        /\ \A i \in 1 .. (k - 1) - 1 + 1 : a[i] = rs[1 + i - 1]
    BY <2>1, PartIs, Zenon
  <2> HIDE DEF a
  <2> QED
    BY <2>2
<1>3. /\ b \in Seq(Interval) /\ Len(b) = Len(rs) - k + 1
      /\ \A j \in 1 .. Len(rs) - k + 1 : b[j] = rs[k + j - 1]
  <2>1. Len(rs) \in 0 .. Len(rs) /\ k <= Len(rs) + 1
    BY <1>1
  <2> QED
    BY <2>1, PartIs, Zenon
<1>4. <<r>> \in Seq(Interval) /\ Len(<<r>>) = 1 /\ <<r>>[1] = r
  OBVIOUS
<1>5. InsertAt(rs, k, r) = a \o <<r>> \o b
  BY DEF InsertAt
<1> HIDE DEF a, b
<1> DEFINE ar == a \o <<r>>
<1>6. ar \in Seq(Interval) /\ Len(ar) = k /\ (\A j \in 1 .. k - 1 : ar[j] = rs[j]) /\ ar[k] = r
  BY <1>2, <1>4
<1> HIDE DEF ar
<1> DEFINE q == ar \o b
<1>7. /\ q \in Seq(Interval) /\ Len(q) = Len(ar) + Len(b)
      /\ \A j \in 1 .. Len(ar) + Len(b) :
            q[j] = IF j <= Len(ar) THEN ar[j] ELSE b[j - Len(ar)]
  BY <1>3, <1>6, ConcatProperties, Zenon
<1> HIDE DEF q
<1>8. \A j \in 1 .. Len(rs) : j < k => q[j] = rs[j]
  BY <1>1, <1>3, <1>6, <1>7
<1>9. ASSUME NEW j \in 1 .. Len(rs), j >= k PROVE q[j + 1] = rs[j]
  <2>1. j + 1 \in 1 .. Len(ar) + Len(b) /\ ~(j + 1 <= Len(ar))
    BY <1>1, <1>3, <1>6, <1>9
  <2>2. q[j + 1] = b[(j + 1) - k]
    BY <1>6, <1>7, <2>1
  <2>3. (j + 1) - k \in 1 .. Len(rs) - k + 1 /\ k + ((j + 1) - k) - 1 = j
    BY <1>1, <1>9
  <2> QED
    BY <1>3, <2>2, <2>3, Zenon
<1>10. Len(q) = Len(rs) + 1 /\ q[k] = r
  BY <1>1, <1>3, <1>6, <1>7
<1>11. InsertAt(rs, k, r) = q
  BY <1>5 DEF q, ar
<1> QED
  BY <1>7, <1>8, <1>9, <1>10, <1>11

LEMMA FirstInsertedIs ==
    ASSUME NEW rs \in Seq(Interval), NEW r \in Interval
    PROVE  /\ <<r>> \o rs \in Seq(Interval)
           /\ Len(<<r>> \o rs) = Len(rs) + 1
           /\ \A j \in 1 .. Len(rs) : (<<r>> \o rs)[j + 1] = rs[j]
           /\ (<<r>> \o rs)[1] = r
  OBVIOUS

LEMMA RemoveAtIs ==
    ASSUME NEW rs \in Seq(Interval), NEW k \in 1 .. Len(rs)
    PROVE  /\ RemoveAt(rs, k) \in Seq(Interval)
           /\ Len(RemoveAt(rs, k)) = Len(rs) - 1
           /\ \A j \in 1 .. Len(rs) - 1 : RemoveAt(rs, k)[j] = IF j < k THEN rs[j] ELSE rs[j + 1]
<1> DEFINE a == SubSeq(rs, 1, k - 1)
           b == SubSeq(rs, k + 1, Len(rs))
<1>1. Len(rs) \in Nat /\ \A j \in 1 .. Len(rs) : rs[j] \in Interval
  BY StartsAndEnds
<1>2. a \in Seq(Interval) /\ Len(a) = k - 1 /\ \A j \in 1 .. k - 1 : a[j] = rs[j]
  <2>1. 1 \in 1 .. Len(rs) + 1 /\ k - 1 \in 0 .. Len(rs) /\ 1 <= (k - 1) + 1
    BY <1>1
  <2>2. /\ a \in Seq(Interval)
        /\ Len(a) = (k - 1) - 1 + 1
        /\ \A i \in 1 .. (k - 1) - 1 + 1 : a[i] = rs[1 + i - 1]
    BY <2>1, PartIs, Zenon
  <2> HIDE DEF a
  <2> QED
    BY <2>2
<1>3. /\ b \in Seq(Interval) /\ Len(b) = Len(rs) - k
      /\ \A j \in 1 .. Len(rs) - k : b[j] = rs[k + j]
  <2>1. k + 1 \in 1 .. Len(rs) + 1 /\ Len(rs) \in 0 .. Len(rs) /\ k + 1 <= Len(rs) + 1
    BY <1>1
  <2>2. /\ b \in Seq(Interval)
        /\ Len(b) = Len(rs) - (k + 1) + 1
        /\ \A i \in 1 .. Len(rs) - (k + 1) + 1 : b[i] = rs[(k + 1) + i - 1]
    BY <2>1, PartIs, Zenon
  <2> HIDE DEF b
  <2> QED
    BY <1>1, <2>2
<1>4. RemoveAt(rs, k) = a \o b
  BY DEF RemoveAt
<1> HIDE DEF a, b
<1> DEFINE q == a \o b
<1>5. /\ q \in Seq(Interval) /\ Len(q) = Len(a) + Len(b)
      /\ \A j \in 1 .. Len(a) + Len(b) : q[j] = IF j <= Len(a) THEN a[j] ELSE b[j - Len(a)]
  BY <1>2, <1>3, ConcatProperties, Zenon
<1> HIDE DEF q
<1>6. ASSUME NEW j \in 1 .. Len(rs) - 1 PROVE q[j] = IF j < k THEN rs[j] ELSE rs[j + 1]
  <2>1. j \in 1 .. Len(a) + Len(b)
    BY <1>1, <1>2, <1>3
  <2>2. CASE j < k
    BY <1>2, <1>5, <2>1, <2>2
  <2>3. CASE j >= k
    <3>1. q[j] = b[j - (k - 1)]
      BY <1>2, <1>5, <2>1, <2>3
    <3>2. j - (k - 1) \in 1 .. Len(rs) - k /\ k + (j - (k - 1)) = j + 1
      BY <1>1, <2>3
    <3> QED
      BY <1>3, <2>3, <3>1, <3>2
  <2> QED
    BY <2>2, <2>3
<1>7. RemoveAt(rs, k) = q
  BY <1>4 DEF q
<1>8. Len(q) = Len(rs) - 1
  BY <1>1, <1>2, <1>3, <1>5
<1> QED
  BY <1>5, <1>6, <1>7, <1>8

WithEnd(rs, i, e) == [rs EXCEPT ![i].End = e]
WithStart(rs, i, e) == [rs EXCEPT ![i].Start = e]

LEMMA EndSet ==
    ASSUME NEW rs \in Seq(Interval), NEW i \in 1 .. Len(rs), NEW e \in Nat
    PROVE  /\ WithEnd(rs, i, e) \in Seq(Interval)
           /\ Len(WithEnd(rs, i, e)) = Len(rs)
           /\ \A j \in 1 .. Len(rs) : j # i => WithEnd(rs, i, e)[j] = rs[j]
           /\ WithEnd(rs, i, e)[i].Start = rs[i].Start
           /\ WithEnd(rs, i, e)[i].End = e
<1> DEFINE r == [rs[i] EXCEPT !.End = e]
<1>1. rs[i] \in Interval
  BY StartsAndEnds
<1>2. r \in Interval /\ r.Start = rs[i].Start /\ r.End = e
  BY <1>1 DEF Interval
<1>3. WithEnd(rs, i, e) = [rs EXCEPT ![i] = r]
  BY DEF WithEnd
<1> HIDE DEF r
<1> QED
  BY <1>2, <1>3

LEMMA StartSet ==
    ASSUME NEW rs \in Seq(Interval), NEW i \in 1 .. Len(rs), NEW e \in Nat
    PROVE  /\ WithStart(rs, i, e) \in Seq(Interval)
           /\ Len(WithStart(rs, i, e)) = Len(rs)
           /\ \A j \in 1 .. Len(rs) : j # i => WithStart(rs, i, e)[j] = rs[j]
           /\ WithStart(rs, i, e)[i].End = rs[i].End
           /\ WithStart(rs, i, e)[i].Start = e
<1> DEFINE r == [rs[i] EXCEPT !.Start = e]
<1>1. rs[i] \in Interval
  BY StartsAndEnds
<1>2. r \in Interval /\ r.End = rs[i].End /\ r.Start = e
  BY <1>1 DEF Interval
<1>3. WithStart(rs, i, e) = [rs EXCEPT ![i] = r]
  BY DEF WithStart
<1> HIDE DEF r
<1> QED
  BY <1>2, <1>3

(***************************************************************************)
(* A list that covers one number more stands for one number more.          *)
(***************************************************************************)
LEMMA AddedNumbers ==
    ASSUME NEW rs, NEW q \in Seq(Interval), NEW p \in Nat, rs \in Seq(Interval),
           \A x \in Int : Covers(q, Len(q), x) <=> Covers(rs, Len(rs), x) \/ x = p
    PROVE  NumbersOf(q) = NumbersOf(rs) \cup {p}
<1>1. \A n : n \in NumbersOf(q) <=> n \in NumbersOf(rs) \cup {p}
  BY InNumbers
<1> QED
  BY <1>1

(***************************************************************************)
(* ReceivedPacket registers the number and nothing else, and keeps the     *)
(* list in order with its gaps, whether the number is known, extends an    *)
(* interval, joins two or comes between them.                              *)
(***************************************************************************)
LEMMA AddNumberAdds ==
    ASSUME NEW rs, Ascending(rs), NEW p \in Nat
    PROVE  Ascending(AddNumber(rs, p)) /\ NumbersOf(AddNumber(rs, p)) = NumbersOf(rs) \cup {p}
<1> DEFINE n == Len(rs)
           i == LastEnd(rs, p)
           one == [Start |-> p, End |-> p]
<1> SUFFICES ASSUME NEW q, q = AddNumber(rs, p)
             PROVE  /\ q \in Seq(Interval)
                    /\ Gapped(q, Len(q))
                    /\ \A x \in Int : Covers(q, Len(q), x) <=> Covers(rs, n, x) \/ x = p
  BY AddedNumbers DEF Ascending
<1>1. /\ rs \in Seq(Interval) /\ n \in Nat /\ Gapped(rs, n)
      /\ \A j \in 1 .. n : rs[j].Start \in Nat /\ rs[j].End \in Nat
  BY StartsAndEnds DEF Ascending
<1>2. /\ i \in 0 .. n
      /\ i # 0 => p >= rs[i].Start - 1
      /\ \A j \in 1 .. n : j > i => p < rs[j].Start - 1
  BY <1>1, LastSelected
<1>3. one \in Interval
  BY DEF Interval
<1>4. q = IF i = 0 THEN <<one>> \o rs ELSE ExtendOrInsertAt(rs, i, p)
  BY AddNumberUnfolds
<1> HIDE DEF i, n
<1>5. CASE i = 0
  <2>1. q = <<one>> \o rs
    BY <1>4, <1>5
  <2>2. /\ q \in Seq(Interval)
        /\ Len(q) = n + 1
        /\ \A j \in 1 .. n : q[j + 1] = rs[j]
        /\ q[1] = one
    BY <1>1, <1>3, <2>1, FirstInsertedIs DEF n
  <2>3. \A j \in 1 .. n : p + 1 < rs[j].Start
    BY <1>1, <1>2, <1>5
  <2>4. 1 \in 1 .. n + 1 /\ \A j \in 1 .. n : j >= 1 /\ ~(j < 1)
    BY <1>1
  <2>5. /\ Gapped(q, n + 1)
        /\ \A x \in Int : Covers(q, n + 1, x) <=> Covers(rs, n, x) \/ x = p
    <3>1. IsInserted(q, rs, n, 1, p)
      BY <2>2, <2>3, <2>4 DEF IsInserted
    <3> QED
      BY <1>1, <2>4, <3>1, Inserted, Zenon
  <2> QED
    BY <2>2, <2>5
<1>6. CASE i # 0
  <2>1. /\ i \in 1 .. n /\ rs[i].Start \in Nat /\ rs[i].End \in Nat /\ rs[i].Start <= rs[i].End
        /\ p >= rs[i].Start - 1
    BY <1>1, <1>2, <1>6 DEF Gapped
  <2>2. \A j \in 1 .. n : j > i => p + 1 < rs[j].Start
    BY <1>1, <1>2, <2>1
  <2>3. \A j \in 1 .. n : j < i => rs[j].End + 1 < rs[i].Start
    BY <1>1, <2>1 DEF Gapped
  <2>4. q = ExtendOrInsertAt(rs, i, p)
    BY <1>4, <1>6
  <2>5. CASE p >= rs[i].Start /\ p <= rs[i].End
    <3>1. q = rs
      BY <2>4, <2>5 DEF ExtendOrInsertAt
    <3>2. Covers(rs, n, p)
      BY <2>1, <2>5 DEF Covers
    <3> QED
      BY <1>1, <3>1, <3>2 DEF n
  <2>6. CASE ~(p >= rs[i].Start /\ p <= rs[i].End) /\ rs[i].End = p - 1
    <3> DEFINE e == WithEnd(rs, i, p)
    <3>1. q = MergeWithPrevious(e, i)
      BY <2>4, <2>6 DEF ExtendOrInsertAt, WithEnd
    <3>2. /\ e \in Seq(Interval) /\ Len(e) = n
          /\ \A j \in 1 .. n : j # i => e[j] = rs[j]
          /\ e[i].Start = rs[i].Start /\ e[i].End = p
      BY <1>1, <2>1, EndSet, Zenon DEF n
    <3> HIDE DEF e
    <3>3. ~(i > 1 /\ e[i - 1].End + 1 = e[i].Start)
      <4> SUFFICES ASSUME i > 1 PROVE e[i - 1].End + 1 # e[i].Start
        OBVIOUS
      <4>1. i - 1 \in 1 .. n /\ i - 1 < i /\ i - 1 # i
        BY <1>1, <2>1
      <4>2. e[i - 1] = rs[i - 1] /\ rs[i - 1].End + 1 < rs[i].Start /\ rs[i - 1].End \in Nat
        BY <1>1, <2>3, <3>2, <4>1
      <4> QED
        BY <2>1, <3>2, <4>2
    <3>4. q = e
      BY <3>1, <3>3 DEF MergeWithPrevious
    <3>5. \A j \in 1 .. n : j < i => rs[j].End + 1 < p
      BY <1>1, <2>1, <2>3, <2>6
    <3>6. e[i].Start = rs[i].Start /\ e[i].End = p /\ rs[i].End + 1 = p
      BY <2>1, <2>6, <3>2
    <3>7. /\ Gapped(e, n)
          /\ \A x \in Int : Covers(e, n, x) <=> Covers(rs, n, x) \/ x = p
      <4>1. IsExtended(e, rs, n, i, p)
        BY <2>2, <3>2, <3>5, <3>6, Zenon DEF IsExtended
      <4> QED
        BY <1>1, <2>1, <4>1, Extended, Zenon
    <3> QED
      BY <3>2, <3>4, <3>7
  <2>7. CASE ~(p >= rs[i].Start /\ p <= rs[i].End) /\ rs[i].End # p - 1 /\ rs[i].Start = p + 1
    <3> DEFINE s == WithStart(rs, i, p)
    <3>1. q = MergeWithPrevious(s, i)
      BY <2>4, <2>7 DEF ExtendOrInsertAt, WithStart
    <3>2. /\ s \in Seq(Interval) /\ Len(s) = n
          /\ \A j \in 1 .. n : j # i => s[j] = rs[j]
          /\ s[i].End = rs[i].End /\ s[i].Start = p
      BY <1>1, <2>1, StartSet, Zenon DEF n
    <3> HIDE DEF s
    <3>3. CASE ~(i > 1 /\ s[i - 1].End + 1 = s[i].Start)
      <4>1. q = s
        BY <3>1, <3>3 DEF MergeWithPrevious
      <4>2. ASSUME NEW j \in 1 .. n, j < i PROVE rs[j].End + 1 < p
        <5>1. i - 1 \in 1 .. n /\ i > 1 /\ i - 1 # i /\ i - 1 < i
          BY <1>1, <2>1, <4>2
        <5>2. rs[i - 1].End + 1 < rs[i].Start /\ rs[i - 1].End + 1 # p
          BY <2>3, <3>2, <3>3, <5>1
        <5>3. rs[i - 1].End + 1 < p
          BY <1>1, <2>1, <2>7, <5>1, <5>2
        <5>4. CASE j = i - 1
          BY <5>3, <5>4
        <5>5. CASE j # i - 1
          <6>1. rs[j].End + 1 < rs[i - 1].Start /\ rs[i - 1].Start <= rs[i - 1].End
            BY <1>1, <2>1, <4>2, <5>1, <5>5 DEF Gapped
          <6>2. rs[j].End \in Nat /\ rs[i - 1].Start \in Nat /\ rs[i - 1].End \in Nat
            BY <1>1, <5>1, Zenon
          <6> QED
            BY <5>3, <6>1, <6>2
        <5> QED
          BY <5>4, <5>5
      <4>3. s[i].Start = p /\ s[i].End = rs[i].End /\ p + 1 = rs[i].Start
        BY <2>1, <2>7, <3>2
      <4>4. /\ Gapped(s, n)
            /\ \A x \in Int : Covers(s, n, x) <=> Covers(rs, n, x) \/ x = p
        <5>1. IsExtended(s, rs, n, i, p)
          BY <2>2, <3>2, <4>2, <4>3, Zenon DEF IsExtended
        <5> QED
          BY <1>1, <2>1, <5>1, Extended, Zenon
      <4> QED
        BY <3>2, <4>1, <4>4
    <3>4. CASE i > 1 /\ s[i - 1].End + 1 = s[i].Start
      <4> DEFINE m == WithEnd(s, i - 1, s[i].End)
                 k == i - 1
      <4>1. q = RemoveAt(m, i)
        BY <3>1, <3>4 DEF MergeWithPrevious, WithEnd
      <4>2. k \in 1 .. n /\ k \in 1 .. n - 1 /\ k + 1 = i /\ k # i
        BY <1>1, <2>1, <3>4
      <4>3. /\ m \in Seq(Interval) /\ Len(m) = n
            /\ \A j \in 1 .. n : j # k => m[j] = s[j]
            /\ m[k].Start = s[k].Start /\ m[k].End = rs[i].End
        <5>1. s[i].End \in Nat /\ k \in 1 .. Len(s)
          BY <2>1, <3>2, <4>2
        <5>2. /\ m \in Seq(Interval) /\ Len(m) = Len(s)
              /\ \A j \in 1 .. Len(s) : j # k => m[j] = s[j]
              /\ m[k].Start = s[k].Start /\ m[k].End = s[i].End
          BY <3>2, <5>1, EndSet, ZenonT(60)
        <5> HIDE DEF m, k
        <5> QED
          BY <3>2, <5>2, Zenon
      <4> HIDE DEF m
      <4>4. /\ q \in Seq(Interval) /\ Len(q) = n - 1
            /\ \A j \in 1 .. n - 1 : q[j] = IF j < i THEN m[j] ELSE m[j + 1]
        BY <2>1, <4>1, <4>3, RemoveAtIs, Zenon
      <4> HIDE DEF k
      <4>5. \A j \in 1 .. n - 1 : j < k => q[j] = rs[j]
        BY <1>1, <3>2, <4>2, <4>3, <4>4
      <4>6. ASSUME NEW j \in 1 .. n - 1, j > k PROVE q[j] = rs[j + 1]
        <5>1. j + 1 \in 1 .. n /\ ~(j < i) /\ j + 1 # k /\ j + 1 # i
          BY <1>1, <4>2, <4>6
        <5> QED
          BY <3>2, <4>3, <4>4, <5>1
      <4>7. q[k].Start = rs[k].Start /\ q[k].End = rs[k + 1].End
        <5>1. k < i /\ q[k] = m[k] /\ s[k] = rs[k]
          BY <1>1, <3>2, <4>2, <4>4
        <5> QED
          BY <4>2, <4>3, <5>1
      <4>8. rs[k].End + 1 = p /\ p + 1 = rs[k + 1].Start
        BY <2>7, <3>2, <3>4, <4>2 DEF k
      <4>9. /\ Gapped(q, n - 1)
            /\ \A x \in Int : Covers(q, n - 1, x) <=> Covers(rs, n, x) \/ x = p
        <5>1. IsMerged(q, rs, n, k, p)
          BY <4>5, <4>6, <4>7, <4>8, Zenon DEF IsMerged
        <5> QED
          BY <1>1, <4>2, <5>1, Merged, Zenon
      <4> QED
        BY <4>4, <4>9
    <3> QED
      BY <3>3, <3>4
  <2>8. CASE ~(p >= rs[i].Start /\ p <= rs[i].End) /\ rs[i].End # p - 1 /\ rs[i].Start # p + 1
    <3> DEFINE k == i + 1
    <3>1. q = InsertAt(rs, k, one)
      BY <2>4, <2>8 DEF ExtendOrInsertAt
    <3>2. k \in 1 .. n + 1 /\ k \in Nat
      BY <1>1, <2>1
    <3>3. /\ q \in Seq(Interval) /\ Len(q) = n + 1
          /\ \A j \in 1 .. n : j < k => q[j] = rs[j]
          /\ \A j \in 1 .. n : j >= k => q[j + 1] = rs[j]
          /\ q[k] = one
      <4> HIDE DEF k, one
      <4> QED
        BY <1>1, <1>3, <3>1, <3>2, InsertAtIs DEF n
    <3>4. rs[i].End + 1 < p
      BY <2>1, <2>8
    <3>5. ASSUME NEW j \in 1 .. n, j < k PROVE rs[j].End + 1 < p
      <4>1. CASE j = i
        BY <3>4, <4>1
      <4>2. CASE j # i
        <5>1. rs[j].End + 1 < rs[i].Start
          BY <1>1, <2>1, <2>3, <3>5, <4>2
        <5>2. rs[j].End \in Nat /\ rs[i].Start \in Nat /\ rs[i].End \in Nat
          BY <1>1, <2>1, Zenon
        <5>3. rs[i].Start <= rs[i].End
          BY <2>1, Zenon
        <5> QED
          BY <3>4, <5>1, <5>2, <5>3
      <4> QED
        BY <4>1, <4>2
    <3>6. \A j \in 1 .. n : j >= k => p + 1 < rs[j].Start
      BY <1>1, <2>1, <2>2
    <3> HIDE DEF k
    <3>7. /\ Gapped(q, n + 1)
          /\ \A x \in Int : Covers(q, n + 1, x) <=> Covers(rs, n, x) \/ x = p
      <4>1. IsInserted(q, rs, n, k, p)
        BY <3>3, <3>5, <3>6, Zenon DEF IsInserted
      <4> QED
        BY <1>1, <3>2, <4>1, Inserted, Zenon
    <3> QED
      BY <3>3, <3>7
  <2> QED
    BY <2>5, <2>6, <2>7, <2>8
<1> QED
  BY <1>5, <1>6

(***************************************************************************)
(* A list that covers the numbers above p stands for those numbers.        *)
(***************************************************************************)
LEMMA DeletedNumbers ==
    ASSUME NEW rs, NEW q \in Seq(Interval), NEW p \in Nat, rs \in Seq(Interval),
           \A x \in Int : Covers(q, Len(q), x) <=> Covers(rs, Len(rs), x) /\ x > p
    PROVE  NumbersOf(q) = {n \in NumbersOf(rs) : n > p}
<1>1. \A n : n \in NumbersOf(q) <=> n \in NumbersOf(rs) /\ n > p
  BY InNumbers
<1> QED
  BY <1>1

(***************************************************************************)
(* DeleteUpTo deletes the numbers up to its argument and no other.         *)
(***************************************************************************)
LEMMA RemainingAfterDeletes ==
    ASSUME NEW rs, Ascending(rs), NEW p \in Nat
    PROVE  /\ Ascending(RemainingAfter(rs, p))
           /\ NumbersOf(RemainingAfter(rs, p)) = {n \in NumbersOf(rs) : n > p}
<1> DEFINE n == Len(rs)
           keep == {i \in DOMAIN rs : rs[i].End > p}
           f == IF keep = {} THEN Len(rs) + 1 ELSE CHOOSE i \in keep : \A j \in keep : i <= j
           rest == SubSeq(rs, f, Len(rs))
<1> SUFFICES ASSUME NEW q, q = RemainingAfter(rs, p)
             PROVE  /\ q \in Seq(Interval)
                    /\ Gapped(q, Len(q))
                    /\ \A x \in Int : Covers(q, Len(q), x) <=> Covers(rs, n, x) /\ x > p
  BY DeletedNumbers DEF Ascending
<1>1. /\ rs \in Seq(Interval) /\ n \in Nat /\ Gapped(rs, n) /\ DOMAIN rs = 1 .. n
      /\ \A j \in 1 .. n : rs[j].Start \in Nat /\ rs[j].End \in Nat
  BY StartsAndEnds DEF Ascending
<1>2. q = IF rest # << >> /\ p >= rest[1].Start THEN [rest EXCEPT ![1].Start = p + 1] ELSE rest
  BY DEF RemainingAfter
<1>3. \A j \in 1 .. n : j \in keep <=> rs[j].End > p
  BY <1>1
<1>4. CASE keep = {}
  <2>1. f = n + 1
    BY <1>4
  <2>2. rest = << >>
    <3>1. rest = SubSeq(rs, n + 1, n)
      BY <2>1, Zenon
    <3>2. n + 1 \in 1 .. n + 1 /\ n \in 0 .. n /\ n + 1 <= n + 1
      BY <1>1
    <3>3. SubSeq(rs, n + 1, n) \in Seq(Interval) /\ Len(SubSeq(rs, n + 1, n)) = n - (n + 1) + 1
      BY <1>1, <3>2, PartIs, Zenon
    <3> HIDE DEF n, rest
    <3> QED
      BY <1>1, <3>1, <3>3
  <2> HIDE DEF rest, keep, f
  <2>3. q = << >>
    BY <1>2, <2>2
  <2>4. q \in Seq(Interval) /\ Len(q) = 0 /\ 1 .. 0 = {}
    BY <2>3
  <2>5. Gapped(q, 0) /\ \A x \in Int : ~Covers(q, 0, x)
    BY <2>4, Zenon DEF Gapped, Covers
  <2>6. ASSUME NEW x \in Int, Covers(rs, n, x), x > p PROVE FALSE
    <3>1. PICK i \in 1 .. n : x <= rs[i].End
      BY <2>6 DEF Covers
    <3>2. rs[i].End > p
      BY <1>1, <2>6, <3>1
    <3> QED
      BY <1>3, <1>4, <3>2
  <2> QED
    BY <2>4, <2>5, <2>6
<1>5. CASE keep # {}
  <2>1. f \in keep /\ \A j \in keep : f <= j
    <3>1. keep \in SUBSET Nat
      BY <1>1
    <3>2. \E i \in keep : \A j \in keep : i <= j
      <4> HIDE DEF keep
      <4> QED
        BY <1>5, <3>1, LeastOf
    <3>3. f = CHOOSE i \in keep : \A j \in keep : i <= j
      BY <1>5
    <3> HIDE DEF keep, f
    <3> QED
      BY <3>2, <3>3
  <2>2. f \in 1 .. n /\ rs[f].End > p /\ rs[f].End \in Nat /\ rs[f].Start \in Nat
    <3>1. f \in 1 .. n
      BY <1>1, <2>1
    <3> QED
      BY <1>1, <1>3, <2>1, <3>1, Zenon
  <2>3. \A j \in 1 .. n : j < f => rs[j].End <= p
    <3> TAKE j \in 1 .. n
    <3> HAVE j < f
    <3>1. j \notin keep
      <4> HIDE DEF keep, f, n
      <4> QED
        BY <1>1, <2>1, <2>2
    <3> QED
      BY <1>1, <1>3, <3>1
  <2>4. /\ rest \in Seq(Interval) /\ Len(rest) = n - f + 1
        /\ \A j \in 1 .. n - f + 1 : rest[j] = rs[f + j - 1]
    <3>1. f \in 1 .. Len(rs) + 1 /\ Len(rs) \in 0 .. Len(rs) /\ f <= Len(rs) + 1
      <4> HIDE DEF f, keep
      <4> QED
        BY <1>1, <2>2
    <3> HIDE DEF f, keep
    <3> QED
      BY <1>1, <3>1, PartIs, Zenon
  <2> HIDE DEF rest, f, keep, n
  <2>5. 1 \in 1 .. Len(rest) /\ rest[1] = rs[f] /\ rest # << >>
    <3>1. 1 \in 1 .. n - f + 1 /\ f + 1 - 1 = f /\ n - f + 1 # 0
      BY <1>1, <2>2
    <3>2. rest[1] = rs[f]
      BY <2>4, <3>1
    <3> QED
      BY <2>4, <3>1, <3>2
  <2>6. q = IF p >= rs[f].Start THEN [rest EXCEPT ![1].Start = p + 1] ELSE rest
    BY <1>2, <2>5
  <2>7. /\ q \in Seq(Interval) /\ Len(q) = n - f + 1
        /\ \A j \in 1 .. n - f + 1 : j # 1 => q[j] = rs[f + j - 1]
        /\ q[1].End = rs[f].End
        /\ q[1].Start = IF p >= rs[f].Start THEN p + 1 ELSE rs[f].Start
    <3>1. CASE p >= rs[f].Start
      <4> DEFINE c == WithStart(rest, 1, p + 1)
      <4>1. p + 1 \in Nat
        OBVIOUS
      <4>2. /\ c \in Seq(Interval) /\ Len(c) = Len(rest)
            /\ \A j \in 1 .. Len(rest) : j # 1 => c[j] = rest[j]
            /\ c[1].End = rest[1].End /\ c[1].Start = p + 1
        BY <2>4, <2>5, <4>1, StartSet, ZenonT(60)
      <4>3. q = c
        BY <2>6, <3>1 DEF WithStart
      <4> HIDE DEF c
      <4> QED
        BY <2>4, <2>5, <3>1, <4>2, <4>3, Zenon
    <3>2. CASE ~(p >= rs[f].Start)
      <4>1. q = rest
        BY <2>6, <3>2
      <4> QED
        BY <2>4, <2>5, <3>2, <4>1, Zenon
    <3> QED
      BY <3>1, <3>2
  <2>8. IsCut(q, rs, n, f, p)
    BY <2>2, <2>3, <2>7, Zenon DEF IsCut
  <2>9. /\ Gapped(q, n - f + 1)
        /\ \A x \in Int : Covers(q, n - f + 1, x) <=> Covers(rs, n, x) /\ x > p
    BY <1>1, <2>2, <2>8, Cut, Zenon
  <2> QED
    BY <2>7, <2>9
<1> QED
  BY <1>4, <1>5

(***************************************************************************)
(* numbers are those of the list, before and after a step.                 *)
(***************************************************************************)
LEMMA NumbersAre == numbers = NumbersOf(ranges) /\ numbers' = NumbersOf(ranges)'
  BY DEF numbers, NumbersOf

(***************************************************************************)
(* A new history is an empty set.                                          *)
(***************************************************************************)
LEMMA InitAscending == ASSUME Init PROVE Ascending(ranges) /\ Abstract!Init
<1>1. ranges = << >>
  BY DEF Init, newReceivedPacketHistory
<1>2. ranges \in Seq(Interval) /\ Len(ranges) = 0 /\ DOMAIN ranges = {} /\ 1 .. 0 = {}
  BY <1>1
<1>3. Ascending(ranges)
  BY <1>2, Zenon DEF Ascending, Gapped
<1>4. numbers = {}
  BY <1>2, Zenon DEF numbers
<1> QED
  BY <1>3, <1>4 DEF Abstract!Init

(***************************************************************************)
(* A call of DeleteUpTo is a deletion from the set.                        *)
(***************************************************************************)
LEMMA DeleteUpToDeletes ==
    ASSUME Ascending(ranges), NEW p \in Nat, DeleteUpTo(p)
    PROVE  Ascending(ranges)' /\ Abstract!Delete(p)
<1>1. ranges' = RemainingAfter(ranges, p)
  BY DEF DeleteUpTo
<1>2. Ascending(ranges') /\ NumbersOf(ranges') = {n \in NumbersOf(ranges) : n > p}
  BY <1>1, RemainingAfterDeletes
<1> QED
  BY <1>2, NumbersAre DEF Abstract!Delete, Ascending, NumbersOf

(***************************************************************************)
(* Every call preserves the order of the list, and is one of the set or a  *)
(* stutter.                                                                *)
(***************************************************************************)
LEMMA NextAscending ==
    ASSUME HistoryAssumption, Ascending(ranges), [Next]_ranges
    PROVE  Ascending(ranges)' /\ [Abstract!Next]_numbers
<1>1. ASSUME NEW p \in PacketNumber, ReceivedPacket(p)
      PROVE  Ascending(ranges)' /\ Abstract!Next
  <2>1. ranges' = AddNumber(ranges, p) /\ p \in Nat /\ p \in 0 .. MaxPacketNumber /\ p > 0
    BY <1>1 DEF ReceivedPacket, PacketNumber, HistoryAssumption
  <2>2. Ascending(ranges') /\ NumbersOf(ranges') = NumbersOf(ranges) \cup {p}
    BY <2>1, AddNumberAdds
  <2>3. Abstract!Add(p)
    BY <2>2, NumbersAre DEF Abstract!Add, NumbersOf
  <2> QED
    BY <2>1, <2>2, <2>3 DEF Abstract!Next
<1>2. ASSUME NEW p \in 0 .. MaxPacketNumber, DeleteUpTo(p) PROVE Ascending(ranges)' /\ Abstract!Next
  BY <1>2, DeleteUpToDeletes DEF Abstract!Next, HistoryAssumption
<1>3. CASE UNCHANGED ranges
  BY <1>3 DEF Ascending, numbers
<1> QED
  BY <1>1, <1>2, <1>3 DEF Next, ReceivedPacketTooMany

(***************************************************************************)
(* As in ReceivedPacketHandler: the numbers that begin a range of a set.   *)
(* For a list in order they are the begins of its intervals.               *)
(***************************************************************************)
RangeStarts(S) == {n \in S : n - 1 \notin S}

LEMMA StartsOfNumbers ==
    ASSUME NEW rs, Ascending(rs)
    PROVE  RangeStarts(NumbersOf(rs)) = {rs[i].Start : i \in 1 .. Len(rs)}
<1> DEFINE n == Len(rs)
<1>1. rs \in Seq(Interval) /\ n \in Nat /\ Gapped(rs, n)
  BY DEF Ascending
<1>2. \A x : x \in NumbersOf(rs) <=> x \in Int /\ Covers(rs, n, x)
  BY <1>1, InNumbers
<1> HIDE DEF n
<1>3. ASSUME NEW i \in 1 .. n PROVE rs[i].Start \in RangeStarts(NumbersOf(rs))
  <2>1. /\ rs[i].Start \in Int /\ Covers(rs, n, rs[i].Start)
    BY <1>1 DEF Gapped, Covers
  <2>2. ASSUME NEW j \in 1 .. n, rs[j].Start <= rs[i].Start - 1, rs[i].Start - 1 <= rs[j].End
        PROVE  FALSE
    <3>1. j \in Int /\ i \in Int /\ n \in Int
      BY <1>1
    <3>2. /\ rs[i].Start \in Nat /\ rs[i].End \in Nat /\ rs[i].Start <= rs[i].End
          /\ rs[j].Start \in Nat /\ rs[j].End \in Nat /\ rs[j].Start <= rs[j].End
          /\ i < j => rs[i].End + 1 < rs[j].Start
          /\ j < i => rs[j].End + 1 < rs[i].Start
      BY <1>1 DEF Gapped
    <3>3. CASE i < j
      BY <2>2, <3>2, <3>3
    <3>4. CASE j < i
      BY <2>2, <3>2, <3>4
    <3>5. CASE i = j
      BY <2>2, <3>2, <3>5
    <3> QED
      BY <3>1, <3>3, <3>4, <3>5
  <2>3. ~Covers(rs, n, rs[i].Start - 1)
    BY <2>2 DEF Covers
  <2> QED
    BY <1>2, <2>1, <2>3 DEF RangeStarts
<1>4. ASSUME NEW x \in RangeStarts(NumbersOf(rs)) PROVE \E i \in 1 .. n : x = rs[i].Start
  <2>1. x \in Int /\ Covers(rs, n, x) /\ ~Covers(rs, n, x - 1)
    BY <1>2 DEF RangeStarts
  <2>2. PICK i \in 1 .. n : rs[i].Start <= x /\ x <= rs[i].End
    BY <2>1 DEF Covers
  <2>3. rs[i].Start \in Nat /\ rs[i].End \in Nat /\ ~(rs[i].Start <= x - 1 /\ x - 1 <= rs[i].End)
    BY <1>1, <2>1 DEF Covers, Gapped
  <2> QED
    BY <2>1, <2>2, <2>3
<1> QED
  BY <1>3, <1>4 DEF n

(***************************************************************************)
(* The list has an interval for each range of its numbers.                 *)
(***************************************************************************)
LEMMA RangesAreCounted ==
    ASSUME NEW rs, Ascending(rs)
    PROVE  Cardinality(RangeStarts(NumbersOf(rs))) = Len(rs)
<1> DEFINE n == Len(rs)
           T == {rs[i].Start : i \in 1 .. n}
           g == [i \in 1 .. n |-> rs[i].Start]
<1>1. n \in Nat /\ Gapped(rs, n)
  BY DEF Ascending
<1>2. \A i, j \in 1 .. n : rs[i].Start = rs[j].Start => i = j
  <2> TAKE i, j \in 1 .. n
  <2> HAVE rs[i].Start = rs[j].Start
  <2>1. /\ i \in Int /\ j \in Int
        /\ rs[i].Start \in Nat /\ rs[i].End \in Nat /\ rs[i].Start <= rs[i].End
        /\ rs[j].Start \in Nat /\ rs[j].End \in Nat /\ rs[j].Start <= rs[j].End
        /\ i < j => rs[i].End + 1 < rs[j].Start
        /\ j < i => rs[j].End + 1 < rs[i].Start
    BY <1>1 DEF Gapped
  <2> QED
    BY <2>1
<1>3. IsFiniteSet(1 .. n) /\ Cardinality(1 .. n) = n
  <2>1. 1 \in Int /\ n \in Int /\ (IF 1 > n THEN 0 ELSE n - 1 + 1) = n
    BY <1>1
  <2> QED
    BY <2>1, FS_Interval
<1> HIDE DEF n
<1>4. g \in Bijection(1 .. n, T)
  BY <1>2, Zenon DEF Bijection, Injection, Surjection, IsInjective
<1>5. ExistsBijection(1 .. n, T)
  BY <1>4, Zenon DEF ExistsBijection
<1>6. Cardinality(T) = n
  BY <1>3, <1>5, FS_Bijection
<1> QED
  BY <1>6, StartsOfNumbers, Zenon DEF n

-----------------------------------------------------------------------------
(***************************************************************************)
(* The history satisfies the invariant, for every number of packets and    *)
(* every bound on the intervals.                                           *)
(***************************************************************************)
THEOREM AscendingTheorem == ASSUME HistoryAssumption PROVE Spec => []Ascending(ranges)
<1>1. Init => Ascending(ranges)
  BY InitAscending
<1>2. Ascending(ranges) /\ [Next]_ranges => Ascending(ranges)'
  BY NextAscending
<1> QED
  BY <1>1, <1>2, PTL DEF Spec

(***************************************************************************)
(* The list of receivedPacketHistory implements the set of the numbers     *)
(* that were registered with ReceivedPacket and not deleted with           *)
(* DeleteUpTo since: in whatever order packets come, again or late.        *)
(***************************************************************************)
THEOREM HistoryTheorem == ASSUME HistoryAssumption PROVE Spec => Abstract!Spec
<1>1. Init => Abstract!Init
  BY InitAscending
<1>2. Ascending(ranges) /\ [Next]_ranges => [Abstract!Next]_numbers
  BY NextAscending
<1> QED
  BY <1>1, <1>2, AscendingTheorem, PTL DEF Spec, Abstract!Spec

(***************************************************************************)
(* DeleteUpTo cuts the list exactly at its argument, also inside an        *)
(* interval.                                                               *)
(***************************************************************************)
THEOREM DeletionTheorem ==
    ASSUME HistoryAssumption
    PROVE  Spec => [][\A p \in Nat : DeleteUpTo(p) => Abstract!Delete(p)]_ranges
<1>1. Ascending(ranges) => \A p \in Nat : DeleteUpTo(p) => Abstract!Delete(p)
  BY DeleteUpToDeletes
<1> QED
  BY <1>1, AscendingTheorem, PTL

(***************************************************************************)
(* GetAckRanges gives the numbers of the history, as ranges in descending  *)
(* order with a gap between any two, which is what the writer of an ACK    *)
(* frame needs; and the list is as long as its numbers have ranges, so     *)
(* that the check against MaxTrackedReceivedAckRanges counts ranges, as    *)
(* ReceivedPacketHandler says.                                             *)
(***************************************************************************)
RangesAreExact ==
    /\ Covered(GetAckRanges) = numbers
    /\ \A i, j \in 1 .. Len(ranges) :
          i < j => GetAckRanges[j].Last + 1 < GetAckRanges[i].First
    /\ Len(ranges) = Cardinality(RangeStarts(numbers))

(***************************************************************************)
(* What receivedPacketHistory.GetAckRanges returns is always right.        *)
(***************************************************************************)
THEOREM RangesTheorem == ASSUME HistoryAssumption PROVE Spec => []RangesAreExact
<1>1. Ascending(ranges) => RangesAreExact
  <2> SUFFICES ASSUME Ascending(ranges) PROVE RangesAreExact
    OBVIOUS
  <2> DEFINE n == Len(ranges)
             g == GetAckRanges
  <2>1. ranges \in Seq(Interval) /\ n \in Nat /\ Gapped(ranges, n) /\ DOMAIN ranges = 1 .. n
    BY StartsAndEnds DEF Ascending
  <2>2. g = [i \in 1 .. n |-> [First |-> ranges[(n - i) + 1].Start,
                               Last |-> ranges[(n - i) + 1].End]]
    <3> DEFINE s == [i \in 1 .. n |-> [First |-> ranges[i].Start, Last |-> ranges[i].End]]
    <3>1. g = Reverse(s)
      BY <2>1 DEF GetAckRanges
    <3>2. Len(s) = n
      BY <2>1
    <3>3. \A i \in 1 .. n : (n - i) + 1 \in 1 .. n
      BY <2>1
    <3>4. g = [i \in 1 .. n |-> s[(n - i) + 1]]
      BY <3>1, <3>2 DEF Reverse
    <3> QED
      BY <3>3, <3>4
  <2> HIDE DEF n, g
  <2>3. \A i \in 1 .. n : /\ (n - i) + 1 \in 1 .. n
                          /\ g[i].First = ranges[(n - i) + 1].Start
                          /\ g[i].Last = ranges[(n - i) + 1].End
    BY <2>1, <2>2
  <2>4. \A i, j \in 1 .. n : i < j => g[j].Last + 1 < g[i].First
    <3> TAKE i, j \in 1 .. n
    <3> HAVE i < j
    <3>1. (n - j) + 1 < (n - i) + 1
      BY <2>1
    <3>2. /\ (n - j) + 1 \in 1 .. n /\ g[j].Last = ranges[(n - j) + 1].End
          /\ (n - i) + 1 \in 1 .. n /\ g[i].First = ranges[(n - i) + 1].Start
      BY <2>3, Zenon
    <3> QED
      BY <2>1, <3>1, <3>2, Zenon DEF Gapped
  <2>5. Covered(g) = numbers
    <3>1. DOMAIN g = 1 .. n
      BY <2>2
    <3>2. \A i \in 1 .. n : \E j \in 1 .. n :
             g[i].First .. g[i].Last = ranges[j].Start .. ranges[j].End
      BY <2>3
    <3>3. ASSUME NEW j \in 1 .. n
          PROVE  \E i \in 1 .. n : g[i].First .. g[i].Last = ranges[j].Start .. ranges[j].End
      <4>1. (n - j) + 1 \in 1 .. n /\ (n - ((n - j) + 1)) + 1 = j
        BY <2>1
      <4> QED
        BY <2>3, <4>1
    <3>4. \A x : x \in Covered(g) <=> \E i \in 1 .. n : x \in g[i].First .. g[i].Last
      BY <3>1, Zenon DEF Covered
    <3>5. \A x : x \in numbers <=> \E i \in 1 .. n : x \in ranges[i].Start .. ranges[i].End
      BY <2>1, Zenon DEF numbers
    <3> QED
      BY <3>2, <3>3, <3>4, <3>5, Zenon
  <2>6. n = Cardinality(RangeStarts(numbers))
    BY RangesAreCounted, NumbersAre DEF n
  <2> QED
    BY <2>4, <2>5, <2>6 DEF RangesAreExact, n, g
<1> QED
  BY <1>1, AscendingTheorem, PTL
============================================================================

--------------------------- MODULE SnowflakeProofs ---------------------------
(***************************************************************************)
(* Uniqueness and order of the IDs of Snowflake, for every number of       *)
(* instances and every width of the node ID and of the sequence.           *)
(***************************************************************************)
EXTENDS Snowflake, TLAPS

-----------------------------------------------------------------------------
(* Arithmetic of the packed form. *)

\* A number in radix K with last digit y.
Comp(a, K, y) == a * K + y

LEMMA CompType ==
    ASSUME NEW K \in Nat, NEW a \in Nat, NEW y \in Nat
    PROVE  Comp(a, K, y) \in Nat
BY DEF Comp

\* A lower digit cannot make up for a smaller upper part.
LEMMA DigitOrder ==
    ASSUME NEW K \in Nat \ {0}, NEW a \in Nat, NEW b \in Nat,
           NEW y \in 0..(K - 1), NEW z \in Nat, a < b
    PROVE  Comp(a, K, y) < Comp(b, K, z)
<1>1. PICK d \in Nat : b = a + 1 + d
  <2>1. b - a - 1 \in Nat /\ b = a + 1 + (b - a - 1)
    OBVIOUS
  <2>2. QED
    BY <2>1
<1>2. b * K = a * K + K + d * K
  BY <1>1
<1>3. d * K \in Nat /\ a * K \in Nat
  BY <1>1
<1>4. QED
  BY <1>2, <1>3 DEF Comp

\* Mixed-radix composition is injective.
LEMMA DigitsUnique ==
    ASSUME NEW K \in Nat \ {0}, NEW a \in Nat, NEW b \in Nat,
           NEW y \in 0..(K - 1), NEW z \in 0..(K - 1), Comp(a, K, y) = Comp(b, K, z)
    PROVE  a = b /\ y = z
<1>1. Comp(a, K, y) \in Nat /\ Comp(b, K, z) \in Nat
  BY CompType
<1>2. ~(a < b)
  BY <1>1, DigitOrder
<1>3. ~(b < a)
  BY <1>1, DigitOrder
<1>4. a = b
  BY <1>2, <1>3
<1>5. a * K \in Nat
  OBVIOUS
<1>6. QED
  BY <1>4, <1>5 DEF Comp

\* The radixes are positive.
LEMMA Radixes ==
    /\ maxNodeID + 1 \in Nat \ {0} /\ maxNodeID = (maxNodeID + 1) - 1
    /\ maxSequence + 1 \in Nat \ {0} /\ maxSequence = (maxSequence + 1) - 1
BY NodeAssumption

\* Pack composes timestamp, node and sequence in two radixes.
LEMMA PackParts ==
    ASSUME NEW x \in ID
    PROVE  /\ x.ts \in Nat /\ x.node \in 0..maxNodeID /\ x.node \in Nat
           /\ x.seq \in 0..maxSequence /\ x.seq \in Nat
           /\ Comp(x.ts, maxNodeID + 1, x.node) \in Nat
           /\ Pack(x) = Comp(Comp(x.ts, maxNodeID + 1, x.node), maxSequence + 1, x.seq)
<1>1. x.ts \in Nat /\ x.node \in 0..maxNodeID /\ x.seq \in 0..maxSequence
  BY DEF ID
<1>2. x.node \in Nat /\ x.seq \in Nat
  BY <1>1, NodeAssumption
<1>3. Comp(x.ts, maxNodeID + 1, x.node) \in Nat
  BY <1>1, <1>2, Radixes, CompType
<1>4. Pack(x) = Comp(Comp(x.ts, maxNodeID + 1, x.node), maxSequence + 1, x.seq)
  BY Zenon DEF Pack, Comp
<1>5. QED
  BY <1>1, <1>2, <1>3, <1>4

\* The two steps of an ID's number, each in one radix.
LEMMA UpperUnique ==
    ASSUME NEW a \in Nat, NEW b \in Nat, NEW y \in 0..maxSequence, NEW z \in 0..maxSequence,
           Comp(a, maxSequence + 1, y) = Comp(b, maxSequence + 1, z)
    PROVE  a = b /\ y = z
<1> DEFINE K == maxSequence + 1
<1>1. K \in Nat \ {0} /\ y \in 0..(K - 1) /\ z \in 0..(K - 1) /\ Comp(a, K, y) = Comp(b, K, z)
  BY Radixes
<1> HIDE DEF K
<1>2. QED
  BY <1>1, DigitsUnique

LEMMA NodeUnique ==
    ASSUME NEW a \in Nat, NEW b \in Nat, NEW y \in 0..maxNodeID, NEW z \in 0..maxNodeID,
           Comp(a, maxNodeID + 1, y) = Comp(b, maxNodeID + 1, z)
    PROVE  a = b /\ y = z
<1> DEFINE K == maxNodeID + 1
<1>1. K \in Nat \ {0} /\ y \in 0..(K - 1) /\ z \in 0..(K - 1) /\ Comp(a, K, y) = Comp(b, K, z)
  BY Radixes
<1> HIDE DEF K
<1>2. QED
  BY <1>1, DigitsUnique

\* The parts of an ID can be read off its number.
LEMMA PackInjective ==
    ASSUME NEW x \in ID, NEW y \in ID, Pack(x) = Pack(y)
    PROVE  x.ts = y.ts /\ x.node = y.node /\ x.seq = y.seq
<1> DEFINE u == Comp(x.ts, maxNodeID + 1, x.node)
           v == Comp(y.ts, maxNodeID + 1, y.node)
<1>1. u \in Nat /\ v \in Nat /\ Comp(u, maxSequence + 1, x.seq) = Comp(v, maxSequence + 1, y.seq)
  BY PackParts
<1>2. u = v /\ x.seq = y.seq
  <2> HIDE DEF u, v
  <2>1. QED
    BY <1>1, PackParts, UpperUnique
<1>3. x.ts = y.ts /\ x.node = y.node
  BY <1>2, PackParts, NodeUnique
<1>4. QED
  BY <1>2, <1>3

Before(x, y) == x.ts < y.ts \/ (x.ts = y.ts /\ x.seq < y.seq)

\* On one node, numbers are ordered as timestamp and sequence are.
LEMMA PackMonotone ==
    ASSUME NEW x \in ID, NEW y \in ID, x.node = y.node, Before(x, y)
    PROVE  Pack(x) < Pack(y)
<1> DEFINE K == maxNodeID + 1
           L == maxSequence + 1
           u == Comp(x.ts, K, x.node)
           v == Comp(y.ts, K, y.node)
<1>1. /\ K \in Nat \ {0} /\ L \in Nat \ {0}
      /\ x.node \in 0..(K - 1) /\ x.seq \in 0..(L - 1)
  BY Radixes, PackParts
<1>2. u \in Nat /\ v \in Nat /\ Pack(x) = Comp(u, L, x.seq) /\ Pack(y) = Comp(v, L, y.seq)
  BY PackParts
<1> HIDE DEF K, L
<1>3. CASE x.ts < y.ts
  <2>1. u < v
    BY <1>1, <1>3, PackParts, DigitOrder
  <2> HIDE DEF u, v
  <2>2. QED
    BY <1>1, <1>2, <2>1, PackParts, DigitOrder
<1>4. CASE x.ts = y.ts /\ x.seq < y.seq
  <2>1. u = v
    BY <1>4
  <2> HIDE DEF u, v
  <2>2. u * L \in Nat
    BY <1>1, <1>2
  <2>3. QED
    BY <1>2, <1>4, <2>1, <2>2, PackParts DEF Comp
<1>5. QED
  BY <1>3, <1>4 DEF Before
-----------------------------------------------------------------------------
(* Type correctness. *)

\* What the three ways out of Generate have in common: an ID that comes after
\* everything this generator has issued.
Fresh(i, now, seq) ==
    /\ now \in Nat /\ seq \in 0..maxSequence
    /\ \/ now > timestamp[i]
       \/ now = timestamp[i] /\ i \notin waiting /\ seq > sequence[i]
    /\ Issue(i, now, seq)
    /\ waiting' = waiting \ {i}
    /\ UNCHANGED <<wallClock, life>>

LEMMA IncrementInRange ==
    ASSUME NEW s \in 0..maxSequence, (s + 1) % (maxSequence + 1) # 0
    PROVE  s + 1 \in 0..maxSequence /\ s + 1 > s
<1>1. maxSequence \in Nat
  BY NodeAssumption
<1>2. CASE s = maxSequence
  <2> DEFINE K == maxSequence + 1
  <2>1. K \in Nat \ {0}
    BY <1>1
  <2> HIDE DEF K
  <2>2. K % K = 0
    BY <2>1
  <2>3. (s + 1) % (maxSequence + 1) = 0
    BY <1>2, <2>2 DEF K
  <2>4. QED
    BY <2>3
<1>3. CASE s # maxSequence
  BY <1>1, <1>3
<1>4. QED
  BY <1>2, <1>3

LEMMA GenerateIsFresh ==
    ASSUME SnowflakeTypeOK, NEW i \in Instances,
           GenerateNewMillis(i) \/ GenerateSameMillis(i) \/ WaitNextMillis(i)
    PROVE  \E now, seq : Fresh(i, now, seq)
<1>1. /\ wallClock[i] \in Nat /\ timestamp[i] \in Nat /\ sequence[i] \in 0..maxSequence
      /\ 0 \in 0..maxSequence
  BY NodeAssumption DEF SnowflakeTypeOK
<1>2. CASE GenerateNewMillis(i)
  <2>1. Fresh(i, wallClock[i], 0)
    BY <1>1, <1>2 DEF GenerateNewMillis, CanGenerate, Fresh
  <2>2. QED
    BY <2>1
<1>3. CASE GenerateSameMillis(i)
  <2>1. sequence[i] + 1 \in 0..maxSequence /\ sequence[i] + 1 > sequence[i]
    BY <1>1, <1>3, IncrementInRange DEF GenerateSameMillis
  <2>2. Fresh(i, wallClock[i], sequence[i] + 1)
    BY <1>1, <1>3, <2>1 DEF GenerateSameMillis, CanGenerate, Fresh
  <2>3. QED
    BY <2>2
<1>4. CASE WaitNextMillis(i)
  <2>1. Fresh(i, wallClock[i], 0)
    BY <1>1, <1>4 DEF WaitNextMillis, Fresh
  <2>2. QED
    BY <2>1
<1>5. QED
  BY <1>2, <1>3, <1>4

NewID(i, now, seq) ==
    [inst |-> i, life |-> life[i], ts |-> now, node |-> NodeID[i], seq |-> seq]

LEMMA NewIDType ==
    ASSUME SnowflakeTypeOK, NEW i \in Instances, NEW now \in Nat, NEW seq \in 0..maxSequence
    PROVE  NewID(i, now, seq) \in ID
BY NodeAssumption DEF SnowflakeTypeOK, NewID, ID

LEMMA TypePreserved ==
    ASSUME SnowflakeTypeOK, [SnowflakeNext]_snowflakeVars
    PROVE  SnowflakeTypeOK'
<1>1. ASSUME NEW i \in Instances, NEW now, NEW seq, Fresh(i, now, seq)
      PROVE  SnowflakeTypeOK'
  <2>1. NewID(i, now, seq) \in ID
    BY <1>1, NewIDType DEF Fresh
  <2>2. issued' = Append(issued, NewID(i, now, seq))
    BY <1>1 DEF Fresh, Issue, NewID
  <2>3. issued' \in Seq(ID)
    BY <2>1, <2>2 DEF SnowflakeTypeOK
  <2>4. QED
    BY <1>1, <2>3 DEF SnowflakeTypeOK, Fresh, Issue
<1>2. ASSUME NEW i \in Instances,
             GenerateNewMillis(i) \/ GenerateSameMillis(i) \/ WaitNextMillis(i)
      PROVE  SnowflakeTypeOK'
  BY <1>1, <1>2, GenerateIsFresh
<1>3. ASSUME NEW i \in Instances, GenerateOverflow(i)
      PROVE  SnowflakeTypeOK'
  BY <1>3, NodeAssumption DEF SnowflakeTypeOK, GenerateOverflow
<1>4. ASSUME NEW i \in Instances, SetClock(i)
      PROVE  SnowflakeTypeOK'
  BY <1>4, NodeAssumption DEF SnowflakeTypeOK, SetClock
<1>5. ASSUME NEW i \in Instances, Restart(i)
      PROVE  SnowflakeTypeOK'
  BY <1>5, NodeAssumption DEF SnowflakeTypeOK, Restart
<1>6. CASE UNCHANGED snowflakeVars
  BY <1>6 DEF SnowflakeTypeOK, snowflakeVars
<1>7. QED
  BY <1>2, <1>3, <1>4, <1>5, <1>6 DEF SnowflakeNext

LEMMA TypeInit == SnowflakeInit => SnowflakeTypeOK
<1> SUFFICES ASSUME SnowflakeInit PROVE SnowflakeTypeOK
  OBVIOUS
<1>1. wallClock \in [Instances -> Nat]
  BY NodeAssumption DEF SnowflakeInit
<1>2. QED
  BY <1>1, NodeAssumption DEF SnowflakeInit, SnowflakeTypeOK

\* Every behaviour of the generators keeps its types: in particular no sequence
\* number of Generate ever needs more bits than the ID reserves for it.
THEOREM TypeCorrect == SnowflakeSpec => []SnowflakeTypeOK
BY TypeInit, TypePreserved, PTL DEF SnowflakeSpec
-----------------------------------------------------------------------------
(* The inductive invariant. *)

\* An ID lies behind the generator that issued it: it carries the instance's
\* node, and the generator's timestamp and sequence have not fallen below it.
\* While Generate waits the sequence is already zero, so only the timestamp counts.
Behind(x, lf, t, s, w) ==
    /\ x.node = NodeID[x.inst]
    /\ x.life <= lf[x.inst]
    /\ x.life = lf[x.inst] => x.ts <= t[x.inst]
    /\ x.life = lf[x.inst] /\ x.ts = t[x.inst] /\ x.inst \notin w => x.seq <= s[x.inst]

AllBehind ==
    \A k \in 1..Len(issued) : Behind(issued[k], life, timestamp, sequence, waiting)

\* The IDs of one generator were issued in the order of timestamp and sequence.
InOrder ==
    \A j, k \in 1..Len(issued) :
        j < k /\ SameGenerator(issued[j], issued[k]) => Before(issued[j], issued[k])

GInv == SnowflakeTypeOK /\ AllBehind /\ InOrder

LEMMA IssuedAreIDs ==
    ASSUME SnowflakeTypeOK, NEW k \in 1..Len(issued)
    PROVE  issued[k] \in ID
BY DEF SnowflakeTypeOK

\* The step that issues: old IDs stay behind, the new one is behind and in order.
LEMMA FreshKeeps ==
    ASSUME GInv, NEW i \in Instances, NEW now, NEW seq, Fresh(i, now, seq)
    PROVE  AllBehind' /\ InOrder'
<1> DEFINE new == NewID(i, now, seq)
           n == Len(issued)
<1>1. SnowflakeTypeOK /\ now \in Nat /\ seq \in 0..maxSequence /\ seq \in Nat
  BY NodeAssumption DEF GInv, Fresh
<1>2. new \in ID
  BY <1>1, NewIDType
<1>3. issued' = Append(issued, new)
  BY DEF Fresh, Issue, NewID
<1>4. n \in Nat /\ Len(issued') = n + 1 /\ issued'[n + 1] = new
      /\ \A k \in 1..n : issued'[k] = issued[k]
  BY <1>1, <1>2, <1>3 DEF SnowflakeTypeOK
<1>5. /\ life' = life /\ waiting' = waiting \ {i}
      /\ timestamp' = [timestamp EXCEPT ![i] = now]
      /\ sequence' = [sequence EXCEPT ![i] = seq]
  BY DEF Fresh, Issue
<1>6. now > timestamp[i] \/ (now = timestamp[i] /\ i \notin waiting /\ seq > sequence[i])
  BY DEF Fresh
<1>7. /\ new.inst = i /\ new.life = life[i] /\ new.ts = now /\ new.node = NodeID[i]
      /\ new.seq = seq
  BY DEF NewID
<1> HIDE DEF new, n
<1>8. ASSUME NEW x \in ID, Behind(x, life, timestamp, sequence, waiting)
      PROVE  Behind(x, life', timestamp', sequence', waiting') /\ (SameGenerator(x, new) => Before(x, new))
  <2>1. /\ x.inst \in Instances /\ x.life \in Nat /\ x.ts \in Nat /\ x.seq \in 0..maxSequence
        /\ x.seq \in Nat
    BY <1>8, NodeAssumption DEF ID
  <2>2. timestamp[x.inst] \in Nat /\ sequence[x.inst] \in Nat /\ life[x.inst] \in Nat
    BY <1>1, <2>1, NodeAssumption DEF SnowflakeTypeOK
  <2>3. CASE x.inst = i
    <3>1. timestamp'[x.inst] = now /\ sequence'[x.inst] = seq
      BY <1>1, <1>5, <2>3 DEF SnowflakeTypeOK
    <3>2. x.life = life[i] => x.ts < now \/ (x.ts = now /\ x.seq < seq)
      BY <1>1, <1>6, <1>8, <2>1, <2>2, <2>3 DEF Behind
    <3>3. Behind(x, life', timestamp', sequence', waiting')
      BY <1>1, <1>5, <1>8, <2>1, <2>2, <2>3, <3>1, <3>2 DEF Behind
    <3>4. QED
      BY <1>7, <2>3, <3>2, <3>3 DEF SameGenerator, Before
  <2>4. CASE x.inst # i
    <3>1. /\ timestamp'[x.inst] = timestamp[x.inst] /\ sequence'[x.inst] = sequence[x.inst]
          /\ (x.inst \in waiting' <=> x.inst \in waiting)
      BY <1>1, <1>5, <2>1, <2>4 DEF SnowflakeTypeOK
    <3>2. QED
      BY <1>5, <1>7, <1>8, <2>4, <3>1 DEF Behind, SameGenerator
  <2>5. QED
    BY <2>3, <2>4
<1>9. Behind(new, life', timestamp', sequence', waiting')
  <2>1. timestamp'[i] = now /\ sequence'[i] = seq /\ life'[i] = life[i] /\ life[i] \in Nat
    BY <1>1, <1>5 DEF SnowflakeTypeOK
  <2>2. QED
    BY <1>1, <1>7, <2>1 DEF Behind, new, NewID
<1>10. \A k \in 1..n : issued[k] \in ID /\ Behind(issued[k], life, timestamp, sequence, waiting)
  BY <1>1, IssuedAreIDs DEF GInv, AllBehind, n
<1>11. AllBehind'
  <2>1. \A k \in 1..n : Behind(issued'[k], life', timestamp', sequence', waiting')
    BY <1>4, <1>8, <1>10
  <2>2. \A k \in 1..(n + 1) : k \in 1..n \/ k = n + 1
    BY <1>4
  <2>3. QED
    BY <1>4, <1>9, <2>1, <2>2 DEF AllBehind
<1>12. ASSUME NEW j \in 1..(n + 1), NEW k \in 1..(n + 1), j < k,
              SameGenerator(issued'[j], issued'[k])
       PROVE  Before(issued'[j], issued'[k])
  <2>1. CASE k \in 1..n
    <3>1. j \in 1..n /\ SameGenerator(issued[j], issued[k])
      BY <1>4, <1>12, <2>1
    <3>2. QED
      BY <1>4, <1>12, <2>1, <3>1 DEF GInv, InOrder, n
  <2>2. CASE k = n + 1
    <3>1. j \in 1..n
      BY <1>4, <1>12, <2>2
    <3>2. QED
      BY <1>4, <1>8, <1>10, <1>12, <2>2, <3>1
  <2>3. QED
    BY <1>4, <2>1, <2>2
<1>13. InOrder'
  BY <1>4, <1>12 DEF InOrder
<1>14. QED
  BY <1>11, <1>13

LEMMA GInvPreserved ==
    ASSUME GInv, [SnowflakeNext]_snowflakeVars
    PROVE  GInv'
<1>1. SnowflakeTypeOK' /\ SnowflakeTypeOK
  BY TypePreserved DEF GInv
<1>2. ASSUME NEW i \in Instances,
             GenerateNewMillis(i) \/ GenerateSameMillis(i) \/ WaitNextMillis(i)
      PROVE  AllBehind' /\ InOrder'
  BY <1>1, <1>2, GenerateIsFresh, FreshKeeps
<1>3. ASSUME issued' = issued,
             \A x \in ID : Behind(x, life, timestamp, sequence, waiting) =>
                           Behind(x, life', timestamp', sequence', waiting')
      PROVE  AllBehind' /\ InOrder'
  <2>1. InOrder'
    BY <1>3 DEF GInv, InOrder
  <2>2. AllBehind'
    BY <1>1, <1>3, IssuedAreIDs DEF GInv, AllBehind
  <2>3. QED
    BY <2>1, <2>2
<1>4. ASSUME NEW i \in Instances, GenerateOverflow(i)
      PROVE  AllBehind' /\ InOrder'
  <2>1. ASSUME NEW x \in ID, Behind(x, life, timestamp, sequence, waiting)
        PROVE  Behind(x, life', timestamp', sequence', waiting')
    <3>1. x.inst # i => sequence'[x.inst] = sequence[x.inst]
      BY <1>1, <1>4, <2>1 DEF GenerateOverflow, ID, SnowflakeTypeOK
    <3>2. life' = life /\ timestamp' = timestamp /\ waiting' = waiting \cup {i}
      BY <1>4 DEF GenerateOverflow
    <3>3. QED
      BY <2>1, <3>1, <3>2 DEF Behind
  <2>2. issued' = issued
    BY <1>4 DEF GenerateOverflow
  <2>3. QED
    BY <1>3, <2>1, <2>2
<1>5. ASSUME NEW i \in Instances, SetClock(i)
      PROVE  AllBehind' /\ InOrder'
  BY <1>3, <1>5 DEF SetClock
<1>6. ASSUME NEW i \in Instances, Restart(i)
      PROVE  AllBehind' /\ InOrder'
  <2>1. ASSUME NEW x \in ID, Behind(x, life, timestamp, sequence, waiting)
        PROVE  Behind(x, life', timestamp', sequence', waiting')
    <3>1. x.inst \in Instances /\ x.life \in Nat /\ life[x.inst] \in Nat
      BY <1>1, <2>1 DEF ID, SnowflakeTypeOK
    <3>2. CASE x.inst = i
      <4>1. life'[x.inst] = life[x.inst] + 1
        BY <1>1, <1>6, <3>1, <3>2 DEF Restart, SnowflakeTypeOK
      <4>2. QED
        BY <2>1, <3>1, <4>1 DEF Behind
    <3>3. CASE x.inst # i
      <4>1. /\ life'[x.inst] = life[x.inst] /\ timestamp'[x.inst] = timestamp[x.inst]
            /\ sequence'[x.inst] = sequence[x.inst]
            /\ (x.inst \in waiting' <=> x.inst \in waiting)
        BY <1>1, <1>6, <3>1, <3>3 DEF Restart, SnowflakeTypeOK
      <4>2. QED
        BY <2>1, <4>1 DEF Behind
    <3>4. QED
      BY <3>2, <3>3
  <2>2. issued' = issued
    BY <1>6 DEF Restart
  <2>3. QED
    BY <1>3, <2>1, <2>2
<1>7. CASE UNCHANGED snowflakeVars
  <2>1. AllBehind' /\ InOrder'
    BY <1>3, <1>7 DEF snowflakeVars
  <2>2. QED
    BY <1>1, <2>1 DEF GInv
<1>8. CASE SnowflakeNext
  <2>1. AllBehind' /\ InOrder'
    BY <1>2, <1>4, <1>5, <1>6, <1>8 DEF SnowflakeNext
  <2>2. QED
    BY <1>1, <2>1 DEF GInv
<1>9. QED
  BY <1>7, <1>8

LEMMA GInvInit == SnowflakeInit => GInv
<1> SUFFICES ASSUME SnowflakeInit PROVE GInv
  OBVIOUS
<1>1. issued = <<>> /\ Len(issued) = 0
  BY DEF SnowflakeInit
<1>2. AllBehind /\ InOrder
  BY <1>1 DEF AllBehind, InOrder
<1>3. QED
  BY <1>2, TypeInit DEF GInv

LEMMA GInvHolds == SnowflakeSpec => []GInv
BY GInvInit, GInvPreserved, PTL DEF SnowflakeSpec

-----------------------------------------------------------------------------
(* What the invariant says of the numbers Generate returns. *)

LEMMA GInvIncreasing == GInv => Increasing
<1> SUFFICES ASSUME GInv, NEW j \in 1..Len(issued), NEW k \in 1..Len(issued),
                    j < k, SameGenerator(issued[j], issued[k])
             PROVE  Pack(issued[j]) < Pack(issued[k])
  BY DEF Increasing
<1>1. issued[j] \in ID /\ issued[k] \in ID
  BY IssuedAreIDs DEF GInv
<1>2. issued[j].node = issued[k].node
  BY DEF GInv, AllBehind, Behind, SameGenerator
<1>3. Before(issued[j], issued[k])
  BY DEF GInv, InOrder
<1>4. QED
  BY <1>1, <1>2, <1>3, PackMonotone

LEMMA GInvUnique == GInv => Unique
<1> SUFFICES ASSUME GInv, NEW j \in 1..Len(issued), NEW k \in 1..Len(issued),
                    j < k, Pack(issued[j]) = Pack(issued[k])
             PROVE  issued[j].inst = issued[k].inst /\ issued[j].life # issued[k].life
  BY DEF Unique
<1>1. issued[j] \in ID /\ issued[k] \in ID
  BY IssuedAreIDs DEF GInv
<1>2. /\ issued[j].ts = issued[k].ts /\ issued[j].node = issued[k].node
      /\ issued[j].seq = issued[k].seq
  BY <1>1, PackInjective
<1>3. issued[j].node = NodeID[issued[j].inst] /\ issued[k].node = NodeID[issued[k].inst]
  BY DEF GInv, AllBehind, Behind
<1>4. issued[j].inst = issued[k].inst
  BY <1>1, <1>2, <1>3, NodeAssumption DEF ID
<1>5. ~Before(issued[j], issued[k])
  <2>1. issued[j].ts \in Nat /\ issued[j].seq \in Nat
    BY <1>1, PackParts
  <2>2. QED
    BY <1>2, <2>1 DEF Before
<1>6. QED
  BY <1>4, <1>5 DEF GInv, InOrder, SameGenerator

\* Generators with distinct node IDs never return the same number twice within
\* a life of an instance, whatever their clocks do and however wide node ID and
\* sequence are.
THEOREM IDsUnique == SnowflakeSpec => []Unique
BY GInvHolds, GInvUnique, PTL

\* The numbers one generator returns increase, through clock set-backs and
\* sequence overflows.
THEOREM IDsIncrease == SnowflakeSpec => []Increasing
BY GInvHolds, GInvIncreasing, PTL

-----------------------------------------------------------------------------
(* Parse is the inverse of the composition in Generate. *)

LEMMA DivMod ==
    ASSUME NEW K \in Nat \ {0}, NEW n \in Nat
    PROVE  n \div K \in Nat /\ n % K \in 0..(K - 1) /\ n = Comp(n \div K, K, n % K)
BY DEF Comp

LEMMA SplitComp ==
    ASSUME NEW K \in Nat \ {0}, NEW a \in Nat, NEW y \in 0..(K - 1)
    PROVE  Comp(a, K, y) \div K = a /\ Comp(a, K, y) % K = y
<1> DEFINE n == Comp(a, K, y)
<1>1. n \in Nat
  BY CompType
<1>2. n = Comp(a, K, y)
  OBVIOUS
<1> HIDE DEF n
<1>3. n \div K \in Nat /\ n % K \in 0..(K - 1) /\ n = Comp(n \div K, K, n % K)
  BY <1>1, DivMod
<1> DEFINE q == n \div K
           r == n % K
<1>4. q \in Nat /\ r \in 0..(K - 1) /\ Comp(a, K, y) = Comp(q, K, r)
  BY <1>2, <1>3
<1> HIDE DEF q, r
<1>5. a = q /\ y = r
  BY <1>4, DigitsUnique
<1>6. QED
  BY <1>2, <1>5 DEF q, r

\* The two lower digits taken together are one digit of the product radix.
LEMMA Regroup ==
    ASSUME NEW K \in Nat \ {0}, NEW L \in Nat \ {0}, NEW a \in Nat,
           NEW b \in 0..(K - 1), NEW c \in 0..(L - 1)
    PROVE  /\ L * K \in Nat \ {0}
           /\ Comp(b, L, c) \in 0..(L * K - 1)
           /\ Comp(Comp(a, K, b), L, c) = Comp(a, L * K, Comp(b, L, c))
<1>1. PICK d \in Nat : K = b + 1 + d
  <2>1. K - b - 1 \in Nat /\ K = b + 1 + (K - b - 1)
    OBVIOUS
  <2>2. QED
    BY <2>1
<1>2. L * K = b * L + L + d * L /\ b * L \in Nat /\ d * L \in Nat
  BY <1>1
<1>3. L * K \in Nat \ {0}
  BY <1>2
<1>4. Comp(b, L, c) \in 0..(L * K - 1)
  BY <1>2 DEF Comp
<1>5. (a * K + b) * L + c = a * (L * K) + (b * L + c)
  OBVIOUS
<1>6. QED
  BY <1>3, <1>4, <1>5 DEF Comp

LEMMA ParsePack ==
    ASSUME NEW x \in ID
    PROVE  ParseID(Pack(x)) = [ts |-> x.ts, node |-> x.node, seq |-> x.seq]
<1> DEFINE K == maxNodeID + 1
           L == maxSequence + 1
           n == Pack(x)
           a == x.ts
           b == x.node
           c == x.seq
<1>1. /\ K \in Nat \ {0} /\ L \in Nat \ {0} /\ a \in Nat
      /\ b \in 0..(K - 1) /\ c \in 0..(L - 1)
      /\ Comp(a, K, b) \in Nat /\ n = Comp(Comp(a, K, b), L, c)
  BY Radixes, PackParts
<1>2. ParseID(n) = [ts |-> n \div (L * K), node |-> (n \div L) % K, seq |-> n % L]
  BY DEF ParseID
<1> HIDE DEF K, L, n, a, b, c
<1>3. n \div L = Comp(a, K, b) /\ n % L = c
  BY <1>1, SplitComp
<1>4. (n \div L) % K = b
  BY <1>1, <1>3, SplitComp
<1>5. n \div (L * K) = a
  <2> DEFINE M == L * K
             y == Comp(b, L, c)
  <2>1. M \in Nat \ {0} /\ y \in 0..(M - 1) /\ n = Comp(a, M, y)
    BY <1>1, Regroup
  <2> HIDE DEF M, y
  <2>2. n \div M = a
    BY <1>1, <2>1, SplitComp
  <2>3. QED
    BY <2>2 DEF M
<1>6. QED
  BY <1>2, <1>3, <1>4, <1>5 DEF n, a, b, c

\* Parse returns the timestamp, node ID and sequence of every ID Generate
\* composed, for every width of the parts: no part spills into its neighbour.
THEOREM IDsParse == SnowflakeSpec => []ParseInvertsGenerate
<1>1. SnowflakeTypeOK => ParseInvertsGenerate
  BY IssuedAreIDs, ParsePack DEF ParseInvertsGenerate
<1>2. QED
  BY <1>1, TypeCorrect, PTL
=============================================================================

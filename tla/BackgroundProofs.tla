-------------------------- MODULE BackgroundProofs --------------------------
(***************************************************************************)
(* What holds of the long-lived goroutines in the composition Background,  *)
(* with or without its fairness: of the log writer for every buffer and    *)
(* batch size, of the server for every number of requests and hooks, and   *)
(* of the registry for every number of instances, calls and faults.        *)
(***************************************************************************)
EXTENDS Background, FiniteSetTheorems, TLAPS

----------------------------------------------------------------------------
(* The log writer *)

Members(s) == {s[i] : i \in DOMAIN s}

Increasing(s) == \A i, j \in DOMAIN s : i < j => s[i] < s[j]

Before(S, T) == \A x \in S, y \in T : x < y

InWriter == Members(sending) \union Members(logBatch) \union Members(buffer)

\* Log entries reach the server in the order in which the buffer took them and
\* none twice: what is stored comes before what run is sending or collecting,
\* and that before what is in the buffer; no place exceeds its size; an entry
\* whose Publish failed is in none of them.  A list or a queue has every entry
\* that was accepted, but for those that failed, or the writer has it still, and
\* when Close has returned only its buffer: what Close loses, sendBatch has never
\* seen.
LogsInOrder ==
    /\ Increasing(stored) /\ Increasing(sending) /\ Increasing(logBatch) /\ Increasing(buffer)
    /\ Before(Members(stored), InWriter)
    /\ Before(Members(sending) \union Members(logBatch), Members(buffer))
    /\ sending = <<>> \/ logBatch = <<>>
    /\ Len(buffer) <= BufferSize /\ Len(logBatch) < BatchSize /\ Len(sending) <= BatchSize
    /\ failed \intersect (Members(stored) \union InWriter) = {}
    /\ producer \in {"list", "queue"} => 1..accepted = failed \union Members(stored) \union InWriter
    /\ closing = "closed" => sending = <<>> /\ logBatch = <<>>

Arrived(s) == s \in Seq(Nat) /\ Members(s) \subseteq 1..accepted

LogTypes ==
    /\ producer \in ProducerKinds /\ accepted \in Nat
    /\ Arrived(stored) /\ Arrived(sending) /\ Arrived(logBatch) /\ Arrived(buffer)
    /\ failed \subseteq 1..accepted

\* Where run is says which of its two batches may hold entries.
SenderSteps ==
    /\ sender \in {"select", "send", "last", "done"}
    /\ sender \in {"select", "done"} => sending = <<>>
    /\ sender # "select" => logBatch = <<>>
    /\ closing = "closed" => sender = "done"

LogInv == LogTypes /\ SenderSteps /\ LogsInOrder

\* What Append does to the members and the order of a sequence.
LEMMA Appended ==
    ASSUME NEW s \in Seq(Nat), NEW x \in Nat
    PROVE  /\ Append(s, x) \in Seq(Nat) /\ Len(Append(s, x)) = Len(s) + 1
           /\ Members(Append(s, x)) = Members(s) \union {x}
           /\ Increasing(s) /\ Before(Members(s), {x}) => Increasing(Append(s, x))
<1> DEFINE t == Append(s, x)
<1>1. /\ t \in Seq(Nat) /\ Len(t) = Len(s) + 1 /\ Len(s) \in Nat
      /\ DOMAIN s = 1..Len(s) /\ DOMAIN t = 1..(Len(s) + 1)
      /\ t[Len(s) + 1] = x /\ \A i \in 1..Len(s) : t[i] = s[i] /\ s[i] \in Nat
  OBVIOUS
<1> HIDE DEF t
<1>2. Members(t) = Members(s) \union {x}
  <2>1. ASSUME NEW y \in Members(t) PROVE y \in Members(s) \union {x}
    <3>1. PICK i \in 1..(Len(s) + 1) : y = t[i]
      BY <1>1 DEF Members
    <3>2. i \in 1..Len(s) \/ i = Len(s) + 1
      BY <1>1, <3>1
    <3> QED  BY <1>1, <3>1, <3>2 DEF Members
  <2>2. ASSUME NEW y \in Members(s) PROVE y \in Members(t)
    <3>1. PICK i \in 1..Len(s) : y = s[i]
      BY <1>1 DEF Members
    <3>2. i \in 1..(Len(s) + 1)
      BY <1>1, <3>1
    <3> QED  BY <1>1, <3>1, <3>2 DEF Members
  <2>3. x \in Members(t)
    <3>1. Len(s) + 1 \in DOMAIN t
      BY <1>1
    <3> QED  BY <1>1, <3>1 DEF Members
  <2> QED  BY <2>1, <2>2, <2>3
<1>3. ASSUME Increasing(s), Before(Members(s), {x}) PROVE Increasing(t)
  <2> SUFFICES ASSUME NEW i \in 1..(Len(s) + 1), NEW j \in 1..(Len(s) + 1), i < j PROVE t[i] < t[j]
    BY <1>1 DEF Increasing
  <2>1. i \in 1..Len(s) /\ t[i] = s[i]
    <3> DEFINE n == Len(s)
    <3>1. n \in Nat /\ i \in 1..(n + 1) /\ j \in 1..(n + 1) /\ i < j
      BY <1>1
    <3> HIDE DEF n
    <3>2. i \in 1..n
      BY <3>1
    <3>3. i \in 1..Len(s)
      BY <3>2 DEF n
    <3> QED  BY <1>1, <3>3
  <2>2. CASE j = Len(s) + 1
    <3>1. s[i] \in Members(s)
      BY <1>1, <2>1 DEF Members
    <3> QED  BY <1>1, <1>3, <2>1, <2>2, <3>1 DEF Before
  <2>3. CASE j # Len(s) + 1
    <3>1. j \in 1..Len(s)
      <4> DEFINE n == Len(s)
      <4>1. n \in Nat /\ j \in 1..(n + 1) /\ j # n + 1
        BY <1>1, <2>3
      <4> HIDE DEF n
      <4>2. j \in 1..n
        BY <4>1
      <4> QED  BY <4>2 DEF n
    <3>2. t[j] = s[j]
      BY <1>1, <3>1
    <3> QED  BY <1>1, <1>3, <2>1, <3>1, <3>2 DEF Increasing
  <2> QED  BY <2>2, <2>3
<1> QED  BY <1>1, <1>2, <1>3 DEF t

\* What is left when the first m - 1 elements are cut off.
LEMMA CutOff ==
    ASSUME NEW s \in Seq(Nat), NEW t \in Seq(Nat), NEW m \in Nat \ {0}, m <= Len(s) + 1,
           Len(t) = Len(s) + 1 - m, \A i \in 1..Len(t) : t[i] = s[i + m - 1]
    PROVE  Members(t) \subseteq Members(s) /\ (Increasing(s) => Increasing(t))
<1>1. Len(s) \in Nat /\ Len(t) \in Nat /\ DOMAIN s = 1..Len(s) /\ DOMAIN t = 1..Len(t)
  OBVIOUS
<1>2. \A i \in 1..Len(t) : i + m - 1 \in 1..Len(s)
  <2> DEFINE a == Len(s)
             b == Len(t)
  <2>1. a \in Nat /\ b \in Nat /\ b = a + 1 - m
    BY <1>1
  <2> HIDE DEF a, b
  <2>2. \A i \in 1..b : i + m - 1 \in 1..a
    BY <2>1
  <2> QED  BY <2>2 DEF a, b
<1>3. Members(t) \subseteq Members(s)
  BY <1>1, <1>2 DEF Members
<1>4. ASSUME Increasing(s), NEW i \in 1..Len(t), NEW j \in 1..Len(t), i < j PROVE t[i] < t[j]
  <2>1. s[i + m - 1] < s[j + m - 1]
    <3>1. i + m - 1 \in DOMAIN s /\ j + m - 1 \in DOMAIN s /\ i + m - 1 < j + m - 1
      BY <1>1, <1>2, <1>4
    <3> QED  BY <1>4, <3>1 DEF Increasing
  <2> QED  BY <2>1
<1> QED  BY <1>1, <1>3, <1>4 DEF Increasing

\* Taking the first element of a sequence.
LEMMA Taken ==
    ASSUME NEW s \in Seq(Nat), s # <<>>
    PROVE  /\ Head(s) \in Nat /\ Tail(s) \in Seq(Nat) /\ Len(Tail(s)) = Len(s) - 1
           /\ Members(s) = {Head(s)} \union Members(Tail(s))
           /\ Increasing(s) => Increasing(Tail(s)) /\ Before({Head(s)}, Members(Tail(s)))
<1> DEFINE t == Tail(s)
<1>1. /\ Len(s) \in Nat \ {0} /\ t \in Seq(Nat) /\ Len(t) = Len(s) - 1 /\ Head(s) = s[1] /\ s[1] \in Nat
      /\ DOMAIN s = 1..Len(s) /\ DOMAIN t = 1..(Len(s) - 1)
      /\ \A i \in 1..(Len(s) - 1) : t[i] = s[i + 1]
  OBVIOUS
<1> HIDE DEF t
<1>2. Members(t) \subseteq Members(s) /\ (Increasing(s) => Increasing(t))
  <2>1. ASSUME NEW i \in 1..Len(t) PROVE t[i] = s[i + 2 - 1]
    <3>1. i + 2 - 1 = i + 1
      OBVIOUS
    <3>2. i \in 1..(Len(s) - 1)
      BY <1>1
    <3> QED  BY <1>1, <3>1, <3>2
  <2>2. 2 \in Nat \ {0} /\ 2 <= Len(s) + 1 /\ Len(t) = Len(s) + 1 - 2
    BY <1>1
  <2> QED  BY <1>1, <2>1, <2>2, CutOff
<1>3. Members(s) \subseteq {s[1]} \union Members(t)
  <2> SUFFICES ASSUME NEW x \in Members(s) PROVE x \in {s[1]} \union Members(t)
    OBVIOUS
  <2>0. PICK i \in 1..Len(s) : x = s[i]
    BY <1>1 DEF Members
  <2>1. i = 1 \/ i - 1 \in 1..(Len(s) - 1)
    BY <1>1
  <2>2. CASE i - 1 \in 1..(Len(s) - 1)
    <3>1. t[i - 1] = s[i]
      <4>1. t[i - 1] = s[(i - 1) + 1]
        BY <1>1, <2>2
      <4>2. (i - 1) + 1 = i
        OBVIOUS
      <4> QED  BY <4>1, <4>2
    <3> QED  BY <1>1, <2>0, <2>2, <3>1 DEF Members
  <2> QED  BY <2>0, <2>1, <2>2
<1>4. s[1] \in Members(s)
  <2>1. 1 \in DOMAIN s
    BY <1>1
  <2> QED  BY <2>1 DEF Members
<1>5. Increasing(s) => Before({s[1]}, Members(t))
  <2> SUFFICES ASSUME Increasing(s), NEW i \in 1..(Len(s) - 1) PROVE s[1] < s[i + 1]
    BY <1>1 DEF Members, Before
  <2>1. 1 \in DOMAIN s /\ i + 1 \in DOMAIN s /\ 1 < i + 1
    BY <1>1
  <2> QED  BY <2>1 DEF Increasing
<1> QED  BY <1>1, <1>2, <1>3, <1>4, <1>5 DEF t

\* The empty sequence.
LEMMA NoMembers == Members(<<>>) = {} /\ Increasing(<<>>) /\ Len(<<>>) = 0 /\ <<>> \in Seq(Nat)
BY DEF Members, Increasing

\* The writer starts empty.
LEMMA LogStarts == LogInit => LogInv
<1> SUFFICES ASSUME LogInit PROVE LogInv
  OBVIOUS
<1>1. /\ producer \in ProducerKinds /\ accepted = 0 /\ failed = {} /\ sender = "select" /\ closing = "no"
      /\ buffer = <<>> /\ logBatch = <<>> /\ sending = <<>> /\ stored = <<>>
  BY DEF LogInit
<1>2. Members(stored) = {} /\ InWriter = {}
  BY <1>1, NoMembers DEF InWriter
<1>3. LogTypes /\ SenderSteps
  BY <1>1, NoMembers DEF LogTypes, SenderSteps, Arrived
<1>4. LogsInOrder
  <2>1. 1..accepted = {}
    BY <1>1
  <2>2. Before(Members(stored), InWriter) /\ Before(Members(sending) \union Members(logBatch), Members(buffer))
    BY <1>1, <1>2, NoMembers DEF Before
  <2>3. Len(buffer) <= BufferSize /\ Len(logBatch) < BatchSize /\ Len(sending) <= BatchSize
    BY <1>1, NoMembers, LogAssumption
  <2> QED  BY <1>1, <1>2, <2>1, <2>2, <2>3, NoMembers DEF LogsInOrder
<1> QED  BY <1>3, <1>4 DEF LogInv

\* WriteLog puts the latest entry behind all others.
LEMMA WriteLogKeeps == ASSUME LogInv, NEW c \in LogCallers, WriteLog(c) PROVE LogInv'
<1> USE DEF LogInv
<1>0. /\ UNCHANGED <<producer, logBatch, sending, sender, closing, stored, failed>>
      /\ accepted \in Nat /\ buffer \in Seq(Nat)
  BY DEF WriteLog, LogTypes, Arrived
<1>1. CASE UNCHANGED <<buffer, accepted>>
  BY <1>0, <1>1 DEF LogTypes, SenderSteps, LogsInOrder, InWriter, Arrived
<1>2. CASE Len(buffer) < BufferSize /\ buffer' = Append(buffer, accepted + 1) /\ accepted' = accepted + 1
  <2> DEFINE x == accepted + 1
  <2>1. x \in Nat /\ 1..accepted' = 1..accepted \union {x} /\ x \notin 1..accepted /\ \A m \in 1..accepted : m < x
    BY <1>0, <1>2
  <2>2. /\ buffer' \in Seq(Nat) /\ Len(buffer') = Len(buffer) + 1 /\ Members(buffer') = Members(buffer) \union {x}
        /\ Increasing(buffer) /\ Before(Members(buffer), {x}) => Increasing(buffer')
    BY <1>0, <1>2, <2>1, Appended
  <2> HIDE DEF x
  <2>3. /\ Members(stored) \subseteq 1..accepted /\ Members(sending) \subseteq 1..accepted
        /\ Members(logBatch) \subseteq 1..accepted /\ Members(buffer) \subseteq 1..accepted /\ failed \subseteq 1..accepted
    BY DEF LogTypes, Arrived
  <2>4. InWriter' = InWriter \union {x}
    BY <1>0, <2>2 DEF InWriter
  <2>5. LogTypes'
    <3>1. accepted' \in Nat
      BY <1>0, <1>2
    <3>2. \A S : S \subseteq 1..accepted => S \subseteq 1..accepted'
      BY <2>1
    <3>3. Members(buffer') \subseteq 1..accepted'
      BY <2>1, <2>2, <2>3
    <3>4. /\ Members(stored') \subseteq 1..accepted' /\ Members(sending') \subseteq 1..accepted'
          /\ Members(logBatch') \subseteq 1..accepted' /\ failed' \subseteq 1..accepted'
      BY <1>0, <2>3, <3>2
    <3> QED  BY <1>0, <2>2, <3>1, <3>3, <3>4 DEF LogTypes, Arrived
  <2>6. SenderSteps'
    BY <1>0 DEF SenderSteps
  <2>7. Increasing(buffer')
    BY <2>1, <2>2, <2>3 DEF LogsInOrder, Before
  <2>8. Before(Members(stored)', InWriter') /\ Before((Members(sending) \union Members(logBatch))', Members(buffer)')
    BY <1>0, <2>1, <2>2, <2>3, <2>4 DEF LogsInOrder, Before
  <2>9. Len(buffer') <= BufferSize
    <3> DEFINE n == Len(buffer)
    <3>1. Len(buffer') = n + 1 /\ n < BufferSize /\ n \in Nat
      BY <1>0, <1>2, <2>2
    <3> HIDE DEF n
    <3> QED  BY <3>1, LogAssumption
  <2>10. failed' \intersect (Members(stored) \union InWriter)' = {}
    BY <1>0, <2>1, <2>3, <2>4 DEF LogsInOrder
  <2>11. producer' \in {"list", "queue"} => 1..accepted' = failed' \union Members(stored)' \union InWriter'
    BY <1>0, <2>1, <2>4 DEF LogsInOrder
  <2> QED  BY <1>0, <2>5, <2>6, <2>7, <2>8, <2>9, <2>10, <2>11 DEF LogsInOrder
<1> QED  BY <1>1, <1>2 DEF WriteLog

\* run takes an entry from the buffer into the batch, which may be full with it.
LEMMA RunReceiveKeeps == ASSUME LogInv, RunReceive PROVE LogInv'
<1> USE DEF LogInv
<1> DEFINE x == Head(buffer)
           batch == Append(logBatch, x)
<1>0. /\ UNCHANGED <<producer, accepted, closing, stored, failed>> /\ sender = "select" /\ buffer' = Tail(buffer)
      /\ sending = <<>> /\ buffer # <<>>
      /\ buffer \in Seq(Nat) /\ logBatch \in Seq(Nat) /\ accepted \in Nat
      /\ closing # "closed"
  BY DEF RunReceive, LogTypes, Arrived, SenderSteps
<1>1. /\ x \in Nat /\ buffer' \in Seq(Nat) /\ Len(buffer') = Len(buffer) - 1 /\ Members(buffer) = {x} \union Members(buffer')
      /\ Increasing(buffer') /\ Before({x}, Members(buffer'))
  BY <1>0, Taken DEF LogsInOrder
<1>2. /\ batch \in Seq(Nat) /\ Len(batch) = Len(logBatch) + 1 /\ Members(batch) = Members(logBatch) \union {x}
      /\ Increasing(logBatch) /\ Before(Members(logBatch), {x}) => Increasing(batch)
  <2> HIDE DEF x
  <2> QED  BY <1>0, <1>1, Appended
<1>3. \/ Len(batch) >= BatchSize /\ sending' = batch /\ logBatch' = <<>> /\ sender' = "send"
      \/ ~(Len(batch) >= BatchSize) /\ logBatch' = batch /\ sending' = sending /\ sender' = sender
  BY DEF RunReceive
<1> HIDE DEF x, batch
<1>4. Increasing(batch)
  <2>1. Before(Members(logBatch), Members(buffer))
    BY DEF LogsInOrder, Before
  <2>2. Before(Members(logBatch), {x})
    BY <1>1, <2>1 DEF Before
  <2> QED  BY <1>2, <2>2 DEF LogsInOrder
<1>5. /\ Members(sending)' \union Members(logBatch)' = Members(batch)
      /\ Members(sending) \union Members(logBatch) = Members(logBatch)
      /\ sending' \in Seq(Nat) /\ logBatch' \in Seq(Nat) /\ Increasing(sending') /\ Increasing(logBatch')
      /\ sending' = <<>> \/ logBatch' = <<>>
  BY <1>0, <1>2, <1>3, <1>4, NoMembers
<1>6. InWriter' = InWriter
  BY <1>1, <1>2, <1>5 DEF InWriter
<1>7. LogTypes'
  <2>1. Members(sending') \subseteq InWriter' /\ Members(logBatch') \subseteq InWriter' /\ Members(buffer') \subseteq InWriter'
    BY DEF InWriter
  <2>2. InWriter \subseteq 1..accepted
    BY DEF LogTypes, Arrived, InWriter
  <2> QED  BY <1>0, <1>1, <1>5, <1>6, <2>1, <2>2 DEF LogTypes, Arrived
<1>8. SenderSteps'
  BY <1>0, <1>3 DEF SenderSteps
<1>9. Before((Members(sending) \union Members(logBatch))', Members(buffer)')
  BY <1>1, <1>2, <1>5 DEF LogsInOrder, Before
<1>10. Len(buffer') <= BufferSize /\ Len(logBatch') < BatchSize /\ Len(sending') <= BatchSize
  <2>1. Len(buffer) <= BufferSize /\ Len(logBatch) < BatchSize /\ Len(buffer) \in Nat /\ Len(logBatch) \in Nat
    BY <1>0 DEF LogsInOrder
  <2>2. Len(buffer') <= BufferSize
    BY <1>1, <2>1, LogAssumption
  <2>3. Len(batch) <= BatchSize
    BY <1>2, <2>1, LogAssumption
  <2>4. CASE Len(batch) >= BatchSize /\ sending' = batch /\ logBatch' = <<>>
    BY <2>2, <2>3, <2>4, NoMembers, LogAssumption
  <2>5. CASE ~(Len(batch) >= BatchSize) /\ logBatch' = batch /\ sending' = sending
    BY <1>0, <1>2, <2>1, <2>2, <2>5, NoMembers, LogAssumption
  <2> QED  BY <1>3, <2>4, <2>5
<1> QED  BY <1>0, <1>1, <1>5, <1>6, <1>7, <1>8, <1>9, <1>10 DEF LogsInOrder

\* The batch becomes what sendBatch sends.
LEMMA FlushKeeps == ASSUME LogInv, RunDone \/ RunFlush PROVE LogInv'
<1> USE DEF LogInv
<1>0. /\ UNCHANGED <<producer, accepted, buffer, closing, stored, failed>> /\ sending' = logBatch /\ logBatch' = <<>>
      /\ sender = "select" /\ sending = <<>> /\ closing # "closed" /\ logBatch \in Seq(Nat)
      /\ sender' \in {"select", "send", "last"} /\ (sender' = "select" => logBatch = <<>>)
  BY DEF RunDone, RunFlush, LogTypes, Arrived, SenderSteps
<1>1. Members(sending') = Members(logBatch) /\ Members(logBatch') = {} /\ Members(sending) = {}
  BY <1>0, NoMembers
<1>2. InWriter' = InWriter
  BY <1>0, <1>1 DEF InWriter
<1>3. LogTypes' /\ SenderSteps'
  BY <1>0, <1>1, NoMembers DEF LogTypes, Arrived, SenderSteps
<1>4. Before((Members(sending) \union Members(logBatch))', Members(buffer)')
  BY <1>0, <1>1 DEF LogsInOrder, Before
<1>5. Len(buffer') <= BufferSize /\ Len(logBatch') < BatchSize /\ Len(sending') <= BatchSize
  <2>1. Len(logBatch) < BatchSize /\ Len(logBatch) \in Nat
    BY <1>0 DEF LogsInOrder
  <2> QED  BY <1>0, <2>1, NoMembers, LogAssumption DEF LogsInOrder
<1> QED  BY <1>0, <1>2, <1>3, <1>4, <1>5, NoMembers DEF LogsInOrder

\* Publish keeps the order of what the server holds, and a list or queue keeps all.
LEMMA Published ==
    ASSUME NEW s \in Seq(Nat), NEW x \in Nat, NEW t \in Publish(s, x), Increasing(s), Before(Members(s), {x})
    PROVE  /\ t \in Seq(Nat) /\ Increasing(t) /\ Members(t) \subseteq Members(s) \union {x}
           /\ producer \in {"list", "queue"} => Members(t) = Members(s) \union {x}
<1> DEFINE a == Append(s, x)
<1>1. a \in Seq(Nat) /\ Len(a) = Len(s) + 1 /\ Members(a) = Members(s) \union {x} /\ Increasing(a) /\ Len(s) \in Nat
  BY Appended
<1>2. CASE producer = "stream"
  <2>1. PICK i \in {1} \union {j \in 1..Len(s) : Len(s) + 2 - j >= StreamMaxLen} : t = SubSeq(a, i, Len(s) + 1)
    BY <1>2 DEF Publish
  <2> HIDE DEF a
  <2>2. i \in 1..(Len(s) + 1) /\ i \in Nat \ {0}
    BY <1>1, <2>1
  <2>3. t \in Seq(Nat) /\ Len(t) = Len(a) + 1 - i /\ \A k \in 1..Len(t) : t[k] = a[k + i - 1]
    BY <1>1, <2>1, <2>2, SMTT(30)
  <2>4. i <= Len(a) + 1
    BY <1>1, <2>2
  <2>5. Members(t) \subseteq Members(a) /\ Increasing(t)
    BY <1>1, <2>2, <2>3, <2>4, CutOff
  <2> QED  BY <1>1, <1>2, <2>3, <2>5
<1>3. CASE producer = "stub"
  BY <1>3 DEF Publish
<1>4. CASE producer \notin {"stream", "stub"}
  <2>1. t = a
    BY <1>4 DEF Publish
  <2> HIDE DEF a
  <2> QED  BY <1>1, <2>1
<1> QED  BY <1>2, <1>3, <1>4

\* sendBatch publishes the entries of a batch one after the other.
LEMMA SendOneKeeps == ASSUME LogInv, SendOne PROVE LogInv'
<1> USE DEF LogInv
<1> DEFINE x == Head(sending)
<1>0. /\ UNCHANGED <<producer, accepted, buffer, logBatch, sender, closing>>
      /\ sender \in {"send", "last"} /\ sending # <<>> /\ sending' = Tail(sending) /\ logBatch = <<>>
      /\ sending \in Seq(Nat) /\ stored \in Seq(Nat) /\ closing # "closed"
      /\ failed \subseteq 1..accepted
  BY DEF SendOne, LogTypes, Arrived, SenderSteps
<1>1. /\ x \in Nat /\ sending' \in Seq(Nat) /\ Len(sending') = Len(sending) - 1
      /\ Members(sending) = {x} \union Members(sending')
      /\ Increasing(sending') /\ Before({x}, Members(sending'))
  BY <1>0, Taken DEF LogsInOrder
<1>2. \/ stored' \in Publish(stored, x) /\ failed' = failed
      \/ failed' = failed \union {x} /\ stored' = stored
  BY DEF SendOne
<1> HIDE DEF x
<1>3. /\ x \in InWriter /\ x \in 1..accepted /\ InWriter = {x} \union InWriter' /\ Members(stored) \subseteq 1..accepted
      /\ InWriter \subseteq 1..accepted /\ Before(Members(stored), {x}) /\ Before({x}, InWriter')
  <2>1. x \in InWriter /\ InWriter = {x} \union InWriter' /\ InWriter' = Members(sending') \union Members(buffer)
    BY <1>0, <1>1, NoMembers DEF InWriter
  <2>2. InWriter \subseteq 1..accepted /\ Members(stored) \subseteq 1..accepted
    BY DEF LogTypes, Arrived, InWriter
  <2>3. Before({x}, Members(buffer)) /\ Before(Members(stored), {x})
    BY <1>1, <2>1 DEF LogsInOrder, Before
  <2> QED  BY <1>1, <2>1, <2>2, <2>3 DEF Before
<1>4. x \notin InWriter'
  <2> SUFFICES ASSUME x \in InWriter' PROVE FALSE
    OBVIOUS
  <2>1. x < x
    BY <1>3 DEF Before
  <2> QED  BY <1>1, <2>1
<1>5. x \notin Members(stored) /\ x \notin failed
  <2>1. x \notin failed
    BY <1>3 DEF LogsInOrder
  <2>2. ASSUME x \in Members(stored) PROVE FALSE
    <3>1. x < x
      BY <1>3, <2>2 DEF Before
    <3> QED  BY <1>1, <3>1
  <2> QED  BY <2>1, <2>2
<1>6. /\ stored' \in Seq(Nat) /\ Increasing(stored') /\ Members(stored') \subseteq Members(stored) \union {x}
      /\ failed' \subseteq failed \union {x} /\ (x \in failed' => Members(stored') = Members(stored))
      /\ producer \in {"list", "queue"} => failed' \union Members(stored') = failed \union Members(stored) \union {x}
  <2>1. CASE stored' \in Publish(stored, x) /\ failed' = failed
    <3>1. /\ stored' \in Seq(Nat) /\ Increasing(stored') /\ Members(stored') \subseteq Members(stored) \union {x}
          /\ producer \in {"list", "queue"} => Members(stored') = Members(stored) \union {x}
      BY <1>0, <1>1, <1>3, <2>1, Published DEF LogsInOrder
    <3> QED  BY <1>5, <2>1, <3>1
  <2>2. CASE failed' = failed \union {x} /\ stored' = stored
    BY <1>0, <2>2 DEF LogsInOrder
  <2> QED  BY <1>2, <2>1, <2>2
<1>7. LogTypes'
  <2>1. Members(sending') \subseteq 1..accepted
    BY <1>1, <1>3 DEF InWriter
  <2> QED  BY <1>0, <1>1, <1>3, <1>6, <2>1 DEF LogTypes, Arrived
<1>8. SenderSteps'
  BY <1>0 DEF SenderSteps
<1>9. /\ Before(Members(stored)', InWriter')
      /\ Before((Members(sending) \union Members(logBatch))', Members(buffer)')
  <2>1. Before(Members(stored), InWriter) /\ Before(Members(sending) \union Members(logBatch), Members(buffer))
    BY DEF LogsInOrder
  <2> QED  BY <1>0, <1>1, <1>3, <1>6, <2>1 DEF Before
<1>10. failed' \intersect (Members(stored) \union InWriter)' = {}
  <2>1. failed \intersect (Members(stored) \union InWriter) = {}
    BY DEF LogsInOrder
  <2> QED  BY <1>3, <1>4, <1>5, <1>6, <2>1
<1>11. producer' \in {"list", "queue"} => 1..accepted' = failed' \union Members(stored)' \union InWriter'
  <2>1. producer \in {"list", "queue"} => 1..accepted = failed \union Members(stored) \union InWriter
    BY DEF LogsInOrder
  <2> QED  BY <1>0, <1>3, <1>6, <2>1
<1>12. Len(sending') <= BatchSize /\ Len(buffer') <= BufferSize /\ Len(logBatch') < BatchSize
  <2>1. Len(sending) <= BatchSize /\ Len(sending) \in Nat
    BY <1>0 DEF LogsInOrder
  <2>2. Len(sending') <= BatchSize
    BY <1>1, <2>1, LogAssumption
  <2> QED  BY <1>0, <2>2 DEF LogsInOrder
<1> QED  BY <1>0, <1>1, <1>6, <1>7, <1>8, <1>9, <1>10, <1>11, <1>12 DEF LogsInOrder

\* Every step of the writer and of the goroutines that log keeps the order.
LEMMA LogStepKeeps == ASSUME LogInv, [LogNext]_logVars PROVE LogInv'
<1> USE DEF LogInv
<1> DEFINE places == <<producer, accepted, buffer, logBatch, sending, stored, failed>>
<1>1. ASSUME UNCHANGED places, SenderSteps', closing' = "closed" => sender' = "done" PROVE LogInv'
  <2>1. InWriter' = InWriter
    BY <1>1 DEF InWriter
  <2>2. LogTypes'
    BY <1>1 DEF LogTypes, Arrived
  <2>3. LogsInOrder'
    <3>1. closing' = "closed" => sending' = <<>> /\ logBatch' = <<>>
      BY <1>1 DEF SenderSteps
    <3> QED  BY <1>1, <2>1, <3>1 DEF LogsInOrder
  <2> QED  BY <1>1, <2>2, <2>3
<1>2. ASSUME NEW on \in BOOLEAN, SetDBLogWriter(on) PROVE LogInv'
  BY <1>1, <1>2 DEF SetDBLogWriter, SenderSteps
<1>3. ASSUME NEW c \in LogCallers, ShouldWriteToDB(c) \/ WriteNil(c) PROVE LogInv'
  BY <1>1, <1>3 DEF ShouldWriteToDB, WriteNil, SenderSteps
<1>4. CASE TimerFires
  BY <1>1, <1>4 DEF TimerFires, SenderSteps
<1>5. CASE SendBatchEnds
  BY <1>1, <1>5 DEF SendBatchEnds, SenderSteps
<1>6. CASE LogClose
  BY <1>1, <1>6 DEF LogClose, SenderSteps
<1>7. CASE LogCloseReturns
  BY <1>1, <1>7 DEF LogCloseReturns, SenderSteps
<1>8. CASE UNCHANGED logVars
  BY <1>1, <1>8 DEF logVars, SenderSteps
<1> QED  BY <1>2, <1>3, <1>4, <1>5, <1>6, <1>7, <1>8, WriteLogKeeps, RunReceiveKeeps, FlushKeeps, SendOneKeeps DEF LogNext, LogSender

\* A step of the composition is one of the log writer or leaves it as it is.
LEMMA LogPart == ASSUME [BackgroundNext]_backgroundVars PROVE [LogNext]_logVars
BY DEF BackgroundNext, backgroundVars

\* For every buffer, batch and stream size and any number of goroutines that log,
\* entries reach the server in order and once, and only those in the buffer are
\* lost by Close.
THEOREM LogEntriesInOrder == BackgroundSpec => []LogsInOrder
<1>1. BackgroundInit => LogInv
  BY LogStarts DEF BackgroundInit
<1>2. LogInv /\ [BackgroundNext]_backgroundVars => LogInv'
  BY LogPart, LogStepKeeps
<1>3. LogInv => LogsInOrder
  BY DEF LogInv
<1> QED  BY <1>1, <1>2, <1>3, PTL DEF BackgroundSpec

----------------------------------------------------------------------------
(* The server *)

\* Run and Wait do nothing before a signal, and after it the server accepts no
\* request any more: when Run has reported success none is in flight, then or
\* later, and it reports an error only after its timeout.  Wait returns when
\* every hook has run, also those behind a hook that failed or behind the end of
\* their context, and no hook fails that did not run.
ShutdownDrains ==
    /\ run # "quit" => signalled /\ serve = "closed"
    /\ run = "ok" => Drained
    /\ run = "error" => runTimeout
    /\ wait.at # "quit" => signalled
    /\ wait.at = "quit" => wait.done = 0
    /\ wait.at = "returned" => wait.done = Hooks
    /\ hookErrs \subseteq 1..wait.done

ServerInv ==
    /\ request \in [Requests -> {"none", "flight", "done", "refused"}]
    /\ wait \in [at : {"quit", "hooks", "returned"}, done : Nat]
    /\ ShutdownDrains

\* Every step of Run, Wait and the requests keeps ShutdownDrains.
LEMMA ServerStepKeeps == ASSUME ServerInv, [ServerNext]_serverVars PROVE ServerInv'
<1> USE DEF ServerInv
<1>1. CASE Listen
  BY <1>1 DEF Listen, ShutdownDrains, Drained
<1>2. CASE Signal
  BY <1>2 DEF Signal, ShutdownDrains, Drained
<1>3. CASE RunShutdown
  BY <1>3 DEF RunShutdown, ShutdownDrains, Drained
<1>4. CASE RunExpires
  BY <1>4 DEF RunExpires, ShutdownDrains, Drained
<1>5. CASE RunReturns
  BY <1>5 DEF RunReturns, ShutdownDrains, Drained
<1>6. CASE WaitSignal
  BY <1>6 DEF WaitSignal, ShutdownDrains, Drained
<1>7. CASE HooksExpire
  BY <1>7 DEF HooksExpire, ShutdownDrains, Drained
<1>8. CASE WaitReturns
  BY <1>8 DEF WaitReturns, ShutdownDrains, Drained
<1>9. ASSUME NEW r \in Requests, Arrive(r) \/ Serve(r) PROVE ServerInv'
  BY <1>9 DEF Arrive, Serve, ShutdownDrains, Drained
<1>10. ASSUME NEW ok \in BOOLEAN, RunHook(ok) PROVE ServerInv'
  <2> DEFINE n == wait.done
  <2>1. /\ n \in Nat /\ wait'.done = n + 1 /\ wait'.at = "hooks" /\ wait' \in [at : {"quit", "hooks", "returned"}, done : Nat]
        /\ hookErrs \subseteq 1..n /\ hookErrs' \subseteq hookErrs \union {n + 1}
        /\ UNCHANGED <<serve, signalled, run, request, runTimeout>> /\ signalled
    BY <1>10 DEF RunHook, ShutdownDrains
  <2> HIDE DEF n
  <2>2. hookErrs' \subseteq 1..(n + 1)
    BY <2>1
  <2> QED  BY <2>1, <2>2 DEF ShutdownDrains, Drained
<1>11. CASE UNCHANGED serverVars
  BY <1>11 DEF serverVars, ShutdownDrains, Drained
<1> QED  BY <1>1, <1>2, <1>3, <1>4, <1>5, <1>6, <1>7, <1>8, <1>9, <1>10, <1>11 DEF ServerNext

\* For every number of requests and hooks: a server that reports a clean
\* shutdown has answered all it accepted, and every hook runs once the signal is
\* there.
THEOREM ShutdownIsClean == BackgroundSpec => []ShutdownDrains
<1>1. BackgroundInit => ServerInv
  BY DEF BackgroundInit, ServerInit, ServerInv, ShutdownDrains
<1>2. ServerInv /\ [BackgroundNext]_backgroundVars => ServerInv'
  <2>1. [BackgroundNext]_backgroundVars => [ServerNext]_serverVars
    BY DEF BackgroundNext, backgroundVars
  <2> QED  BY <2>1, ServerStepKeeps
<1>3. ServerInv => ShutdownDrains
  BY DEF ServerInv
<1> QED  BY <1>1, <1>2, <1>3, PTL DEF BackgroundSpec

----------------------------------------------------------------------------
(* The registry *)

KeeperSteps == {"unborn", "wait", "grant", "put", "undo", "record", "gone"}
CallSteps == {"idle", "put", "undo", "record", "revoke", "delete"}
Hosts == Instances \union {CHOOSE i \in Instances : TRUE}

KeeperStates == [at : KeeperSteps, inst : Hosts, lease : Nat, new : Nat]

\* The lease l stands for the instance i somewhere: in etcd, in the map of the
\* registry, in the call under way or in a keepAlive goroutine.
UsedFor(i, l) ==
    \/ key[i] = l \/ leases[i] = l
    \/ op.inst = i /\ op.lease = l
    \/ \E g \in Keepers : keeper[g].inst = i /\ (keeper[g].lease = l \/ keeper[g].new = l)

KeysLive == \A i \in Instances : key[i] # 0 => key[i] \in live

OneOwner == \A l \in 1..granted : \A i, j \in Instances : UsedFor(i, l) /\ UsedFor(j, l) => i = j

\* Close begins between two calls, and ends when no keepAlive is left.
ClosedQuiet ==
    /\ phase # "open" => op = NoOp
    /\ phase = "closed" => \A l \in live : ~Kept(l)

RegistryTypes ==
    /\ granted \in Nat /\ live \subseteq 1..granted
    /\ key \in [Instances -> Nat] /\ leases \in [Instances -> Nat]
    /\ op \in [at : CallSteps, inst : Hosts, lease : Nat]
    /\ op.at = "idle" => op = NoOp
    /\ op.at # "idle" => op.inst \in Instances
    /\ op.at \in {"put", "undo", "record"} => op.lease # 0
    /\ keeper \in [Keepers -> KeeperStates]
    /\ phase \in {"open", "cancelled", "revoked", "closed"}

KeeperRules ==
    \A g \in Keepers :
        /\ keeper[g].at # "unborn" => keeper[g].inst \in Instances
        /\ keeper[g].at \in {"put", "undo", "record"} <=> keeper[g].new # 0

Granted ==
    /\ \A i \in Instances : key[i] <= granted /\ leases[i] <= granted
    /\ op.lease <= granted
    /\ \A g \in Keepers : keeper[g].lease <= granted /\ keeper[g].new <= granted

\* No two goroutines have the same lease, nor a goroutine and a Register under way.
OwnLeases ==
    /\ \A g, h \in Keepers :
        /\ g # h /\ keeper[g].lease # 0 => keeper[g].lease # keeper[h].lease
        /\ keeper[g].new # 0 => keeper[g].new # keeper[h].lease
        /\ g # h /\ keeper[g].new # 0 => keeper[g].new # keeper[h].new
    /\ op.at \in {"put", "undo", "record"} => \A g \in Keepers : op.lease # keeper[g].lease /\ op.lease # keeper[g].new

\* A lease has no key before its Put.
NotPutYet ==
    \A i \in Instances :
        /\ op.at = "put" => key[i] # op.lease
        /\ \A g \in Keepers : keeper[g].at = "put" => key[i] # keeper[g].new

KeepersGone == phase = "closed" => \A g \in Keepers : keeper[g].at \in {"unborn", "gone"}

RegistryInv ==
    /\ RegistryTypes /\ KeeperRules /\ Granted /\ OwnLeases /\ NotPutYet
    /\ KeysLive /\ OneOwner /\ ClosedQuiet /\ KeepersGone

\* The fields of a keepAlive goroutine.
LEMMA KeeperFields ==
    ASSUME RegistryTypes, NEW g \in Keepers
    PROVE  /\ keeper[g] \in KeeperStates /\ keeper[g].at \in KeeperSteps /\ keeper[g].inst \in Hosts
           /\ keeper[g].lease \in Nat /\ keeper[g].new \in Nat
BY DEF RegistryTypes, KeeperStates

\* The fields of the call under way.
LEMMA CallFields ==
    ASSUME RegistryTypes
    PROVE  op.at \in CallSteps /\ op.inst \in Hosts /\ op.lease \in Nat
BY DEF RegistryTypes

\* Between two calls there is no lease to use.
LEMMA NoCall == NoOp.at = "idle" /\ NoOp.lease = 0 /\ NoOp \in [at : CallSteps, inst : Hosts, lease : Nat]
BY DEF NoOp, CallSteps, Hosts

\* A step that gives no lease to an instance but one that it had, or the one that
\* etcd grants in this step.
LEMMA OwnerKept ==
    ASSUME RegistryTypes, Granted, OneOwner, NEW x,
           granted' \in {granted, granted + 1},
           \A i \in Instances, l \in Nat \ {0} : UsedFor(i, l)' => UsedFor(i, l) \/ (l = granted + 1 /\ i = x)
    PROVE  OneOwner'
<1> SUFFICES ASSUME NEW l \in 1..granted', NEW i \in Instances, NEW j \in Instances, UsedFor(i, l)', UsedFor(j, l)' PROVE i = j
  BY DEF OneOwner
<1>0. l \in Nat \ {0} /\ granted \in Nat /\ (l \in 1..granted \/ l = granted + 1)
  BY DEF RegistryTypes
<1>1. ASSUME NEW y \in Instances, UsedFor(y, granted + 1) PROVE FALSE
  <2>0. key[y] <= granted /\ leases[y] <= granted /\ op.lease <= granted /\ key[y] \in Nat /\ leases[y] \in Nat /\ op.lease \in Nat
    BY CallFields DEF Granted, RegistryTypes
  <2>1. \A g \in Keepers : keeper[g].lease <= granted /\ keeper[g].new <= granted /\ keeper[g].lease \in Nat /\ keeper[g].new \in Nat
    BY KeeperFields DEF Granted
  <2> QED  BY <1>0, <1>1, <2>0, <2>1 DEF UsedFor
<1>2. CASE l = granted + 1
  <2>1. ~UsedFor(i, l) /\ ~UsedFor(j, l)
    BY <1>1, <1>2
  <2> HIDE <1>1
  <2> QED  BY <1>0, <2>1
<1>3. CASE l \in 1..granted
  <2>1. l # granted + 1
    BY <1>0, <1>3
  <2>2. UsedFor(i, l) /\ UsedFor(j, l)
    BY <1>0, <2>1
  <2> QED  BY <1>3, <2>2 DEF OneOwner
<1> QED  BY <1>0, <1>2, <1>3

\* The registry starts without leases.
LEMMA RegistryStarts == DiscoveryInit => RegistryInv
<1> SUFFICES ASSUME DiscoveryInit PROVE RegistryInv
  OBVIOUS
<1>1. \A g \in Keepers : keeper[g] = Unborn
  BY DEF DiscoveryInit
<1>2. Unborn \in KeeperStates /\ Unborn.at = "unborn" /\ Unborn.lease = 0 /\ Unborn.new = 0
  BY DEF Unborn, KeeperStates, KeeperSteps, Hosts
<1>3. RegistryTypes
  BY <1>2, NoCall DEF DiscoveryInit, RegistryTypes
<1>4. KeeperRules /\ OwnLeases /\ NotPutYet /\ KeepersGone
  BY <1>1, <1>2, NoCall DEF DiscoveryInit, KeeperRules, OwnLeases, NotPutYet, KeepersGone
<1>5. Granted /\ KeysLive /\ ClosedQuiet
  BY <1>1, <1>2, NoCall DEF DiscoveryInit, Granted, KeysLive, ClosedQuiet
<1>6. OneOwner
  <2>1. 1..granted = {}
    BY DEF DiscoveryInit
  <2> QED  BY <2>1 DEF OneOwner
<1> QED  BY <1>3, <1>4, <1>5, <1>6 DEF RegistryInv

\* A lease is lost: by itself, or revoked.  The keys attached to it go with it.
LEMMA LeasesLost ==
    ASSUME RegistryInv, NEW ls, live' = live \ ls, key' = Without(ls),
           UNCHANGED <<granted, leases, op, keeper, phase>>
    PROVE  RegistryInv'
<1> USE DEF RegistryInv
<1>0. \A i \in Instances : key'[i] \in {0, key[i]} /\ (key'[i] # 0 => key'[i] = key[i] /\ key[i] \notin ls)
  BY DEF Without
<1>1. key' \in [Instances -> Nat]
  BY DEF RegistryTypes, Without
<1>2. RegistryTypes' /\ KeeperRules' /\ OwnLeases' /\ KeepersGone'
  <2>1. RegistryTypes'
    BY <1>1 DEF RegistryTypes
  <2> QED  BY <2>1 DEF KeeperRules, OwnLeases, KeepersGone
<1>3. Granted'
  <2>1. 0 <= granted
    BY DEF RegistryTypes
  <2>2. ASSUME NEW i \in Instances PROVE key'[i] <= granted
    <3>1. key'[i] = 0 \/ key'[i] = key[i]
      BY <1>0
    <3> QED  BY <2>1, <3>1 DEF Granted
  <2> QED  BY <2>2 DEF Granted
<1>4. NotPutYet'
  <2>1. ASSUME NEW i \in Instances, op.at = "put" PROVE key'[i] # op.lease
    BY <1>0, <2>1 DEF NotPutYet, RegistryTypes
  <2>2. ASSUME NEW i \in Instances, NEW g \in Keepers, keeper[g].at = "put" PROVE key'[i] # keeper[g].new
    BY <1>0, <2>2 DEF NotPutYet, KeeperRules
  <2> QED  BY <2>1, <2>2 DEF NotPutYet
<1>5. KeysLive'
  BY <1>0 DEF KeysLive
<1>6. OneOwner'
  <2>1. \A i \in Instances, l \in Nat \ {0} : UsedFor(i, l)' => UsedFor(i, l)
    BY <1>0 DEF UsedFor
  <2> QED  BY <2>1, OwnerKept
<1>7. ClosedQuiet'
  BY DEF ClosedQuiet, Kept
<1> QED  BY <1>2, <1>3, <1>4, <1>5, <1>6, <1>7

\* Nothing of the registry changes.
LEMMA RegistryRests ==
    ASSUME RegistryInv, UNCHANGED <<live, granted, key, leases, op, keeper, phase>>
    PROVE  RegistryInv'
BY DEF RegistryInv, RegistryTypes, KeeperRules, Granted, OwnLeases, NotPutYet, KeysLive, OneOwner, UsedFor, ClosedQuiet, KeepersGone, Kept

\* Register asks for a lease, which nobody else has.
LEMMA RegisterGrantKeeps == ASSUME RegistryInv, NEW x \in Instances, RegisterGrant(x) PROVE RegistryInv'
<1> USE DEF RegistryInv
<1>1. CASE UNCHANGED <<op, live, granted>>
  BY <1>1, RegistryRests DEF RegisterGrant
<1>2. CASE Grant /\ op' = [at |-> "put", inst |-> x, lease |-> granted + 1]
  <2>0. /\ UNCHANGED <<key, leases, keeper, phase>> /\ phase = "open"
        /\ granted \in Nat /\ granted' = granted + 1 /\ live' = live \union {granted + 1}
        /\ op'.at = "put" /\ op'.inst = x /\ op'.lease = granted + 1
        /\ op' \in [at : CallSteps, inst : Hosts, lease : Nat]
    BY <1>2 DEF RegisterGrant, Grant, RegistryTypes, CallSteps, Hosts
  <2>1. RegistryTypes'
    <3>1. live \subseteq 1..granted
      BY DEF RegistryTypes
    <3>2. live' \subseteq 1..granted'
      BY <2>0, <3>1
    <3> QED  BY <2>0, <3>2 DEF RegistryTypes
  <2>2. KeeperRules' /\ ClosedQuiet' /\ KeepersGone' /\ KeysLive'
    BY <2>0 DEF KeeperRules, ClosedQuiet, KeepersGone, KeysLive
  <2>3. \A g \in Keepers : keeper[g].lease < granted + 1 /\ keeper[g].new < granted + 1
    BY <2>0, KeeperFields DEF Granted
  <2>4. \A i \in Instances : key[i] < granted + 1 /\ leases[i] < granted + 1
    BY <2>0 DEF Granted, RegistryTypes
  <2>5. Granted'
    BY <2>0, <2>3, <2>4, KeeperFields DEF Granted, RegistryTypes
  <2>6. OwnLeases'
    BY <2>0, <2>3, KeeperFields DEF OwnLeases
  <2>7. NotPutYet'
    BY <2>0, <2>4 DEF NotPutYet, RegistryTypes
  <2>8. OneOwner'
    <3>1. \A i \in Instances, l \in Nat \ {0} : UsedFor(i, l)' => UsedFor(i, l) \/ (l = granted + 1 /\ i = x)
      BY <2>0 DEF UsedFor
    <3> QED  BY <2>0, <3>1, OwnerKept
  <2> QED  BY <2>1, <2>2, <2>5, <2>6, <2>7, <2>8
<1> QED  BY <1>1, <1>2 DEF RegisterGrant

\* The key is written, or not, and the call moves on with its lease; a written
\* key is attached to that lease, which is alive.
LEMMA CallPuts ==
    ASSUME RegistryInv, op.at = "put",
           key' = key \/ (op.lease \in live /\ key' = [key EXCEPT ![op.inst] = op.lease]),
           NEW a \in {"record", "undo"}, op' = [op EXCEPT !.at = a], UNCHANGED <<live, granted, leases, keeper, phase>>
    PROVE  RegistryInv'
<1> USE DEF RegistryInv
<1>0. /\ op'.at = a /\ op'.inst = op.inst /\ op'.lease = op.lease /\ op.inst \in Instances /\ op.lease \in Nat \ {0}
      /\ op' \in [at : CallSteps, inst : Hosts, lease : Nat] /\ granted \in Nat /\ op.lease <= granted
  BY CallFields DEF RegistryTypes, CallSteps, Granted
<1>1. key' \in [Instances -> Nat] /\ \A i \in Instances : key'[i] = key[i] \/ (i = op.inst /\ key'[i] = op.lease)
  <2>1. key \in [Instances -> Nat] /\ (key' = key \/ key' = [key EXCEPT ![op.inst] = op.lease])
    BY DEF RegistryTypes
  <2> DEFINE x == op.inst
             l == op.lease
  <2>2. x \in Instances /\ l \in Nat /\ (key' = key \/ key' = [key EXCEPT ![x] = l])
    BY <1>0, <2>1
  <2> HIDE DEF x, l
  <2>3. key' \in [Instances -> Nat] /\ \A i \in Instances : key'[i] = key[i] \/ (i = x /\ key'[i] = l)
    BY <2>1, <2>2
  <2> QED  BY <2>3 DEF x, l
<1>2. phase = "open"
  BY NoCall DEF ClosedQuiet
<1>3. RegistryTypes' /\ KeeperRules' /\ KeepersGone' /\ ClosedQuiet'
  <2>1. RegistryTypes'
    BY <1>0, <1>1 DEF RegistryTypes
  <2> QED  BY <1>2, <2>1 DEF KeeperRules, KeepersGone, ClosedQuiet
<1>4. Granted' /\ OwnLeases'
  BY <1>0, <1>1 DEF Granted, OwnLeases
<1>5. NotPutYet'
  <2> SUFFICES ASSUME NEW i \in Instances, NEW g \in Keepers, keeper[g].at = "put" PROVE key'[i] # keeper[g].new
    BY <1>0 DEF NotPutYet
  <2>1. op.lease # keeper[g].new /\ key[i] # keeper[g].new
    BY DEF OwnLeases, NotPutYet
  <2> QED  BY <1>1, <2>1
<1>6. KeysLive'
  <2>1. key' = key \/ op.lease \in live
    OBVIOUS
  <2> QED  BY <1>1, <2>1 DEF KeysLive
<1>7. OneOwner'
  <2>1. \A i \in Instances, l \in Nat \ {0} : UsedFor(i, l)' => UsedFor(i, l)
    BY <1>0, <1>1 DEF UsedFor
  <2> QED  BY <2>1, OwnerKept
<1> QED  BY <1>3, <1>4, <1>5, <1>6, <1>7

\* The call ends, or goes on with fewer keys and leases.
LEMMA CallDrops ==
    ASSUME RegistryInv, NEW o \in [at : CallSteps, inst : Hosts, lease : Nat], op' = o,
           o = NoOp \/ (o.at = "delete" /\ o.inst \in Instances /\ o.inst = op.inst /\ o.lease = 0 /\ op.at # "idle"),
           key' \in [Instances -> Nat], \A i \in Instances : key'[i] \in {0, key[i]} /\ (key'[i] # 0 => key'[i] \in live'),
           live' \subseteq live, UNCHANGED <<granted, leases, keeper, phase>>
    PROVE  RegistryInv'
<1> USE DEF RegistryInv
<1>0. o.at \in {"idle", "delete"} /\ o.lease = 0 /\ granted \in Nat
  BY NoCall DEF RegistryTypes
<1>1. RegistryTypes' /\ KeeperRules'
  <2>1. (op.at = "idle" => op = NoOp)' /\ (op.at # "idle" => op.inst \in Instances)'
    BY NoCall
  <2>2. RegistryTypes'
    BY <1>0, <2>1 DEF RegistryTypes
  <2> QED  BY <2>2 DEF KeeperRules
<1>2. Granted'
  BY <1>0 DEF Granted
<1>3. OwnLeases'
  BY <1>0 DEF OwnLeases
<1>4. NotPutYet'
  BY <1>0 DEF NotPutYet, KeeperRules
<1>5. KeysLive'
  BY DEF KeysLive
<1>6. OneOwner'
  <2>1. \A i \in Instances, l \in Nat \ {0} : UsedFor(i, l)' => UsedFor(i, l)
    BY <1>0 DEF UsedFor
  <2> QED  BY <2>1, OwnerKept
<1>7. ClosedQuiet' /\ KeepersGone'
  <2>1. phase = "open" \/ op = NoOp
    BY DEF ClosedQuiet
  <2>2. phase # "open" => o = NoOp
    BY <2>1, NoCall DEF ClosedQuiet
  <2> QED  BY <2>2 DEF ClosedQuiet, KeepersGone, Kept
<1> QED  BY <1>1, <1>2, <1>3, <1>4, <1>5, <1>6, <1>7

\* Register writes the key, or does not know that it did.
LEMMA RegisterPutKeeps == ASSUME RegistryInv, RegisterPut PROVE RegistryInv'
<1>1. op.at = "put" /\ UNCHANGED <<live, granted, leases, keeper, phase>>
  BY DEF RegisterPut
<1>2. PICK a \in {"record", "undo"} : op' = [op EXCEPT !.at = a]
  BY DEF RegisterPut
<1>3. key' = key \/ (op.lease \in live /\ key' = [key EXCEPT ![op.inst] = op.lease])
  BY DEF RegisterPut, Change
<1> QED  BY <1>1, <1>2, <1>3, CallPuts

\* Register gives its lease back, or fails to.
LEMMA RegisterUndoKeeps == ASSUME RegistryInv, RegisterUndo PROVE RegistryInv'
<1> USE DEF RegistryInv
<1>0. UNCHANGED <<granted, leases, keeper, phase>> /\ op' = NoOp
  BY DEF RegisterUndo
<1>1. (live' = live \ {op.lease} /\ key' = Without({op.lease})) \/ UNCHANGED <<live, key>>
  BY DEF RegisterUndo, Change
<1>2. key' \in [Instances -> Nat]
  BY <1>1 DEF RegistryTypes, Without
<1>3. ASSUME NEW i \in Instances PROVE key'[i] \in {0, key[i]} /\ (key'[i] # 0 => key'[i] \in live')
  BY <1>1 DEF Without, KeysLive
<1>4. live' \subseteq live
  BY <1>1
<1> QED  BY <1>0, <1>2, <1>3, <1>4, NoCall, CallDrops

\* Deregister revokes the lease it took, or fails to.
LEMMA DeregisterRevokeKeeps == ASSUME RegistryInv, DeregisterRevoke PROVE RegistryInv'
<1> USE DEF RegistryInv
<1> DEFINE o == [op EXCEPT !.at = "delete", !.lease = 0]
<1>0. op.at = "revoke" /\ UNCHANGED <<granted, leases, keeper, phase>> /\ op' = o
  BY DEF DeregisterRevoke
<1>1. o \in [at : CallSteps, inst : Hosts, lease : Nat] /\ o.at = "delete" /\ o.inst = op.inst /\ o.lease = 0 /\ o.inst \in Instances
  BY <1>0 DEF RegistryTypes, CallSteps
<1> HIDE DEF o
<1>2. CASE live' = live \ {op.lease} /\ Change(Without({op.lease} \ {0}))
  <2>1. key' = Without({op.lease} \ {0})
    BY <1>2 DEF Change
  <2>2. key' \in [Instances -> Nat]
    BY <2>1 DEF RegistryTypes, Without
  <2>3. ASSUME NEW i \in Instances PROVE key'[i] \in {0, key[i]} /\ (key'[i] # 0 => key'[i] \in live')
    BY <1>2, <2>1 DEF Without, KeysLive
  <2> QED  BY <1>0, <1>1, <1>2, <2>2, <2>3, CallDrops
<1>3. CASE UNCHANGED <<live, key>>
  <2>1. key' \in [Instances -> Nat]
    BY <1>3 DEF RegistryTypes
  <2>2. ASSUME NEW i \in Instances PROVE key'[i] \in {0, key[i]} /\ (key'[i] # 0 => key'[i] \in live')
    BY <1>3 DEF KeysLive
  <2> QED  BY <1>0, <1>1, <1>3, <2>1, <2>2, CallDrops
<1> QED  BY <1>2, <1>3 DEF DeregisterRevoke

\* Deregister deletes the key of its own instance.
LEMMA DeregisterDeleteKeeps == ASSUME RegistryInv, DeregisterDelete PROVE RegistryInv'
<1> USE DEF RegistryInv
<1>0. UNCHANGED <<live, granted, leases, keeper, phase>> /\ op' = NoOp
  BY DEF DeregisterDelete
<1>1. key' = [key EXCEPT ![op.inst] = 0] \/ key' = key
  BY DEF DeregisterDelete, Change
<1>2. key' \in [Instances -> Nat] /\ \A i \in Instances : key'[i] \in {0, key[i]}
  <2>1. key \in [Instances -> Nat]
    BY DEF RegistryTypes
  <2> QED  BY <1>1, <2>1
<1>3. ASSUME NEW i \in Instances PROVE key'[i] \in {0, key[i]} /\ (key'[i] # 0 => key'[i] \in live')
  BY <1>0, <1>2 DEF KeysLive
<1> QED  BY <1>0, <1>2, <1>3, NoCall, CallDrops

\* Deregister takes the lease of its instance out of the map.
LEMMA DeregisterTakeKeeps == ASSUME RegistryInv, NEW x \in Instances, DeregisterTake(x) PROVE RegistryInv'
<1> USE DEF RegistryInv
<1> DEFINE o == [at |-> "revoke", inst |-> x, lease |-> leases[x]]
<1>0. UNCHANGED <<live, granted, key, keeper, phase>> /\ op' = o /\ phase = "open" /\ leases' = [leases EXCEPT ![x] = 0]
  BY DEF DeregisterTake
<1>1. leases \in [Instances -> Nat] /\ leases[x] \in Nat /\ leases[x] <= granted /\ 0 <= granted
  BY DEF RegistryTypes, Granted
<1>2. o \in [at : CallSteps, inst : Hosts, lease : Nat] /\ o.at = "revoke" /\ o.inst = x /\ o.lease = leases[x]
  BY <1>1 DEF CallSteps, Hosts
<1> HIDE DEF o
<1>3. leases' \in [Instances -> Nat] /\ \A i \in Instances : leases'[i] \in {0, leases[i]}
  BY <1>0, <1>1
<1>4. RegistryTypes'
  BY <1>0, <1>2, <1>3 DEF RegistryTypes
<1>5. KeeperRules' /\ KeysLive' /\ ClosedQuiet' /\ KeepersGone'
  BY <1>0 DEF KeeperRules, KeysLive, ClosedQuiet, KeepersGone
<1>6. Granted'
  <2>1. ASSUME NEW i \in Instances PROVE leases'[i] <= granted
    <3>1. leases'[i] = 0 \/ leases'[i] = leases[i]
      BY <1>3
    <3> QED  BY <1>1, <3>1 DEF Granted
  <2> QED  BY <1>0, <1>1, <1>2, <2>1 DEF Granted
<1>7. OwnLeases' /\ NotPutYet'
  BY <1>0, <1>2 DEF OwnLeases, NotPutYet
<1>8. OneOwner'
  <2>1. \A i \in Instances, l \in Nat \ {0} : UsedFor(i, l)' => UsedFor(i, l)
    BY <1>0, <1>2, <1>3 DEF UsedFor
  <2> QED  BY <1>0, <2>1, OwnerKept
<1> QED  BY <1>4, <1>5, <1>6, <1>7, <1>8

\* Register hands its lease to the map and to a new goroutine.
LEMMA RegisterRecordKeeps == ASSUME RegistryInv, RegisterRecord PROVE RegistryInv'
<1> USE DEF RegistryInv
<1> DEFINE x == op.inst
           m == op.lease
           n == spawned + 1
           k == [at |-> "wait", inst |-> x, lease |-> m, new |-> 0]
<1>0. /\ UNCHANGED <<live, granted, key, phase>> /\ op' = NoOp /\ op.at = "record"
      /\ leases' = [leases EXCEPT ![x] = m] /\ keeper' = [keeper EXCEPT ![n] = k]
  BY DEF RegisterRecord
<1>1. x \in Instances /\ m \in Nat \ {0} /\ m <= granted /\ op.inst = x /\ op.lease = m
      /\ \A g \in Keepers : m # keeper[g].lease /\ m # keeper[g].new
  BY <1>0, CallFields DEF RegistryTypes, Granted, OwnLeases
<1> HIDE DEF x, m, n
<1>2. k \in KeeperStates /\ k.at = "wait" /\ k.inst = x /\ k.lease = m /\ k.new = 0
  BY <1>1 DEF KeeperStates, KeeperSteps, Hosts
<1> HIDE DEF k
<1>3. /\ leases' \in [Instances -> Nat] /\ \A i \in Instances : leases'[i] = IF i = x THEN m ELSE leases[i]
      /\ keeper' \in [Keepers -> KeeperStates] /\ \A g \in Keepers : keeper'[g] = IF g = n THEN k ELSE keeper[g]
  <2>1. leases \in [Instances -> Nat] /\ keeper \in [Keepers -> KeeperStates]
    BY DEF RegistryTypes
  <2> QED  BY <1>0, <1>1, <1>2, <2>1
<1>4. phase = "open"
  BY <1>0, NoCall DEF ClosedQuiet
<1>5. RegistryTypes'
  BY <1>0, <1>3, NoCall DEF RegistryTypes
<1>6. KeeperRules' /\ KeysLive' /\ ClosedQuiet' /\ KeepersGone'
  BY <1>0, <1>1, <1>2, <1>3, <1>4 DEF KeeperRules, KeysLive, ClosedQuiet, KeepersGone
<1>7. Granted'
  <2>1. 0 <= granted
    BY DEF RegistryTypes
  <2> QED  BY <1>0, <1>1, <1>2, <1>3, <2>1, NoCall DEF Granted
<1>8. OwnLeases'
  <2>1. op'.at = "idle"
    BY <1>0, NoCall
  <2> QED  BY <1>1, <1>2, <1>3, <2>1 DEF OwnLeases
<1>9. NotPutYet'
  BY <1>0, <1>2, <1>3, NoCall DEF NotPutYet
<1>10. OneOwner'
  <2>1. \A i \in Instances, l \in Nat \ {0} : UsedFor(i, l)' => UsedFor(i, l)
    BY <1>0, <1>1, <1>2, <1>3, NoCall DEF UsedFor
  <2> QED  BY <1>0, <2>1, OwnerKept
<1> QED  BY <1>5, <1>6, <1>7, <1>8, <1>9, <1>10

\* A goroutine waits, looks again or ends, without the lease it was about to use;
\* a lease that is revoked takes its keys with it.
LEMMA KeeperDrops ==
    ASSUME RegistryInv, NEW g \in Keepers, NEW k \in KeeperStates, keeper' = [keeper EXCEPT ![g] = k],
           keeper[g].at \in {"wait", "grant", "undo"}, k.at \in {"wait", "grant", "gone"},
           k.inst = keeper[g].inst, k.lease = keeper[g].lease, k.new = 0,
           live' \subseteq live, key' \in [Instances -> Nat],
           \A i \in Instances : key'[i] \in {0, key[i]} /\ (key'[i] # 0 => key'[i] \in live'),
           UNCHANGED <<granted, leases, op, phase>>
    PROVE  RegistryInv'
<1> USE DEF RegistryInv
<1>1. keeper' \in [Keepers -> KeeperStates] /\ \A h \in Keepers : keeper'[h] = IF h = g THEN k ELSE keeper[h]
  BY DEF RegistryTypes
<1>2. RegistryTypes' /\ KeysLive'
  BY <1>1 DEF RegistryTypes, KeysLive
<1>3. KeeperRules'
  BY <1>1 DEF KeeperRules
<1>4. phase # "closed"
  BY DEF KeepersGone
<1>5. ClosedQuiet' /\ KeepersGone'
  BY <1>4 DEF ClosedQuiet, KeepersGone
<1>6. Granted'
  <2>1. 0 <= granted
    BY DEF RegistryTypes
  <2>2. ASSUME NEW i \in Instances PROVE key'[i] <= granted
    BY <2>1 DEF Granted
  <2> QED  BY <1>1, <2>1, <2>2 DEF Granted
<1>7. OwnLeases'
  <2>1. op.at \in {"put", "undo", "record"} => op.lease # 0
    BY DEF RegistryTypes
  <2> QED  BY <1>1, <2>1 DEF OwnLeases
<1>8. NotPutYet'
  <2>1. op.at = "put" => op.lease # 0
    BY DEF RegistryTypes
  <2> QED  BY <1>1, <2>1 DEF NotPutYet, KeeperRules
<1>9. OneOwner'
  <2>1. \A i \in Instances, l \in Nat \ {0} : UsedFor(i, l)' => UsedFor(i, l)
    BY <1>1 DEF UsedFor
  <2> QED  BY <2>1, OwnerKept
<1> QED  BY <1>2, <1>3, <1>5, <1>6, <1>7, <1>8, <1>9

\* A goroutine that could not renew its lease, or ends.
LEMMA KeeperTickKeeps == ASSUME RegistryInv, NEW g \in Keepers, KeeperTick(g) \/ KeeperDone(g) PROVE RegistryInv'
<1> USE DEF RegistryInv
<1>0. keeper[g] \in KeeperStates /\ keeper[g].at = "wait" /\ keeper[g].new = 0
  BY KeeperFields DEF KeeperTick, KeeperDone, KeeperRules
<1>1. PICK a \in {"grant", "gone"} : keeper' = [keeper EXCEPT ![g] = [keeper[g] EXCEPT !.at = a]]
  BY DEF KeeperTick, KeeperDone
<1> DEFINE k == [keeper[g] EXCEPT !.at = a]
<1>2. k \in KeeperStates /\ k.at = a /\ k.inst = keeper[g].inst /\ k.lease = keeper[g].lease /\ k.new = 0
  BY <1>0, <1>1 DEF KeeperStates, KeeperSteps
<1>3. UNCHANGED <<live, granted, key, leases, op, phase>>
  BY DEF KeeperTick, KeeperDone
<1>4. keeper' = [keeper EXCEPT ![g] = k]
  BY <1>1
<1> HIDE DEF k
<1>5. key' \in [Instances -> Nat] /\ \A i \in Instances : key'[i] \in {0, key[i]} /\ (key'[i] # 0 => key'[i] \in live')
  BY <1>3 DEF KeysLive, RegistryTypes
<1> QED  BY <1>0, <1>1, <1>2, <1>3, <1>4, <1>5, KeeperDrops

\* A goroutine asks for a new lease.
LEMMA KeeperGrantKeeps == ASSUME RegistryInv, NEW g \in Keepers, KeeperGrant(g) PROVE RegistryInv'
<1> USE DEF RegistryInv
<1>0. /\ keeper[g] \in KeeperStates /\ keeper[g].at = "grant" /\ keeper[g].new = 0 /\ keeper[g].inst \in Instances
      /\ UNCHANGED <<key, leases, op, phase>>
  BY KeeperFields DEF KeeperGrant, KeeperRules
<1>1. CASE keeper' = [keeper EXCEPT ![g].at = "wait"] /\ UNCHANGED <<live, granted>>
  <2> DEFINE k == [keeper[g] EXCEPT !.at = "wait"]
  <2>1. k \in KeeperStates /\ k.at = "wait" /\ k.inst = keeper[g].inst /\ k.lease = keeper[g].lease /\ k.new = 0
    BY <1>0 DEF KeeperStates, KeeperSteps
  <2>2. keeper' = [keeper EXCEPT ![g] = k]
    BY <1>1
  <2> HIDE DEF k
  <2>3. key' \in [Instances -> Nat] /\ \A i \in Instances : key'[i] \in {0, key[i]} /\ (key'[i] # 0 => key'[i] \in live')
    BY <1>0, <1>1 DEF KeysLive, RegistryTypes
  <2> QED  BY <1>0, <1>1, <2>1, <2>2, <2>3, KeeperDrops
<1>2. CASE phase = "open" /\ Grant /\ keeper' = [keeper EXCEPT ![g].at = "put", ![g].new = granted + 1]
  <2> DEFINE m == granted + 1
             k == [keeper[g] EXCEPT !.at = "put", !.new = m]
  <2>0. granted \in Nat /\ granted' = granted + 1 /\ live' = live \union {granted + 1}
    BY <1>2 DEF Grant, RegistryTypes
  <2>1. k \in KeeperStates /\ k.at = "put" /\ k.inst = keeper[g].inst /\ k.lease = keeper[g].lease /\ k.new = granted + 1
    <3>1. m \in Nat
      BY <2>0
    <3> HIDE DEF m
    <3>2. k \in KeeperStates /\ k.at = "put" /\ k.inst = keeper[g].inst /\ k.lease = keeper[g].lease /\ k.new = m
      BY <1>0, <3>1 DEF KeeperStates, KeeperSteps
    <3> QED  BY <3>2 DEF m
  <2>2. keeper' = [keeper EXCEPT ![g] = k]
    BY <1>2
  <2> HIDE DEF k, m
  <2>3. keeper' \in [Keepers -> KeeperStates] /\ \A h \in Keepers : keeper'[h] = IF h = g THEN k ELSE keeper[h]
    BY <2>1, <2>2 DEF RegistryTypes
  <2>4. \A h \in Keepers : keeper[h].lease < granted + 1 /\ keeper[h].new < granted + 1
    BY <2>0, KeeperFields DEF Granted
  <2>5. /\ \A i \in Instances : key[i] < granted + 1 /\ leases[i] < granted + 1
        /\ op.lease < granted + 1 /\ op.lease \in Nat
    BY <2>0, CallFields DEF Granted, RegistryTypes
  <2>6. RegistryTypes'
    <3>1. live \subseteq 1..granted
      BY DEF RegistryTypes
    <3>2. live' \subseteq 1..granted'
      BY <2>0, <3>1
    <3> QED  BY <1>0, <2>0, <2>3, <3>2 DEF RegistryTypes
  <2>7. KeeperRules' /\ KeysLive' /\ ClosedQuiet' /\ KeepersGone'
    BY <1>0, <1>2, <2>0, <2>1, <2>3 DEF KeeperRules, KeysLive, ClosedQuiet, KeepersGone
  <2>8. Granted'
    <3>1. \A h \in Keepers : keeper'[h].lease <= granted' /\ keeper'[h].new <= granted'
      BY <2>0, <2>1, <2>3, <2>4, KeeperFields
    <3>2. \A i \in Instances : key'[i] <= granted' /\ leases'[i] <= granted'
      BY <1>0, <2>0, <2>5 DEF RegistryTypes
    <3>3. op'.lease <= granted'
      BY <1>0, <2>0, <2>5
    <3> QED  BY <3>1, <3>2, <3>3 DEF Granted
  <2>9. OwnLeases'
    <3>1. \A h \in Keepers : keeper[h].lease # granted + 1 /\ keeper[h].new # granted + 1
      BY <2>0, <2>4, KeeperFields
    <3>2. op.lease # granted + 1
      BY <2>0, <2>5
    <3> QED  BY <1>0, <2>1, <2>3, <3>1, <3>2 DEF OwnLeases
  <2>10. NotPutYet'
    <3>1. \A i \in Instances : key[i] # granted + 1
      BY <2>0, <2>5 DEF RegistryTypes
    <3> QED  BY <1>0, <2>1, <2>3, <3>1 DEF NotPutYet
  <2>11. OneOwner'
    <3>1. \A i \in Instances, l \in Nat \ {0} : UsedFor(i, l)' => UsedFor(i, l) \/ (l = granted + 1 /\ i = keeper[g].inst)
      BY <1>0, <2>1, <2>3 DEF UsedFor
    <3> QED  BY <2>0, <3>1, OwnerKept
  <2> QED  BY <2>6, <2>7, <2>8, <2>9, <2>10, <2>11
<1> QED  BY <1>1, <1>2 DEF KeeperGrant

\* A goroutine writes the key of its instance again, or does not know that it did.
LEMMA KeeperPutKeeps == ASSUME RegistryInv, NEW g \in Keepers, KeeperPut(g) PROVE RegistryInv'
<1> USE DEF RegistryInv
<1> DEFINE x == keeper[g].inst
           m == keeper[g].new
<1>0. /\ keeper[g] \in KeeperStates /\ keeper[g].at = "put" /\ m \in Nat \ {0} /\ x \in Instances
      /\ UNCHANGED <<live, granted, leases, op, phase>>
  BY KeeperFields DEF KeeperPut, KeeperRules
<1>1. PICK a \in {"record", "undo"} : keeper' = [keeper EXCEPT ![g] = [keeper[g] EXCEPT !.at = a]]
  BY DEF KeeperPut
<1> DEFINE k == [keeper[g] EXCEPT !.at = a]
<1>2. k \in KeeperStates /\ k.at = a /\ k.inst = x /\ k.lease = keeper[g].lease /\ k.new = m
  BY <1>0, <1>1 DEF KeeperStates, KeeperSteps
<1>3. keeper' = [keeper EXCEPT ![g] = k] /\ (key' = key \/ (m \in live /\ key' = [key EXCEPT ![x] = m]))
  BY <1>1 DEF KeeperPut, Change
<1>4. m <= granted /\ keeper[g].inst = x /\ keeper[g].new = m /\ phase # "closed" /\ a \in {"record", "undo"}
  BY <1>0, <1>1 DEF Granted, KeepersGone
<1> HIDE DEF k, x, m
<1>5. keeper' \in [Keepers -> KeeperStates] /\ \A h \in Keepers : keeper'[h] = IF h = g THEN k ELSE keeper[h]
  BY <1>2, <1>3 DEF RegistryTypes
<1>6. key' \in [Instances -> Nat] /\ \A i \in Instances : key'[i] = key[i] \/ (i = x /\ key'[i] = m /\ m \in live)
  <2>1. key \in [Instances -> Nat]
    BY DEF RegistryTypes
  <2> QED  BY <1>0, <1>3, <2>1
<1>7. RegistryTypes' /\ KeeperRules'
  <2>1. RegistryTypes'
    BY <1>0, <1>5, <1>6 DEF RegistryTypes
  <2> QED  BY <1>0, <1>2, <1>4, <1>5, <2>1 DEF KeeperRules
<1>8. KeysLive' /\ ClosedQuiet' /\ KeepersGone'
  BY <1>0, <1>4, <1>6 DEF KeysLive, ClosedQuiet, KeepersGone
<1>9. Granted'
  BY <1>0, <1>2, <1>4, <1>5, <1>6 DEF Granted
<1>10. OwnLeases'
  BY <1>0, <1>2, <1>4, <1>5 DEF OwnLeases
<1>11. NotPutYet'
  <2>1. ASSUME NEW h \in Keepers, keeper'[h].at = "put" PROVE keeper'[h] = keeper[h] /\ keeper[h].new # m /\ keeper[h].at = "put"
    BY <1>0, <1>2, <1>4, <1>5, <2>1 DEF OwnLeases
  <2>2. op.at = "put" => op.lease # m
    BY <1>0, <1>4 DEF OwnLeases
  <2> QED  BY <1>0, <1>6, <2>1, <2>2 DEF NotPutYet
<1>12. OneOwner'
  <2>1. \A i \in Instances, l \in Nat \ {0} : UsedFor(i, l)' => UsedFor(i, l)
    BY <1>0, <1>2, <1>4, <1>5, <1>6 DEF UsedFor
  <2> QED  BY <1>0, <2>1, OwnerKept
<1> QED  BY <1>7, <1>8, <1>9, <1>10, <1>11, <1>12

\* A goroutine gives the new lease back, or fails to.
LEMMA KeeperUndoKeeps == ASSUME RegistryInv, NEW g \in Keepers, KeeperUndo(g) PROVE RegistryInv'
<1> USE DEF RegistryInv
<1> DEFINE k == [keeper[g] EXCEPT !.at = "wait", !.new = 0]
<1>0. /\ keeper[g] \in KeeperStates /\ keeper[g].at = "undo" /\ UNCHANGED <<granted, leases, op, phase>>
      /\ keeper' = [keeper EXCEPT ![g] = k]
  BY KeeperFields DEF KeeperUndo
<1>1. k \in KeeperStates /\ k.at = "wait" /\ k.inst = keeper[g].inst /\ k.lease = keeper[g].lease /\ k.new = 0
  BY <1>0 DEF KeeperStates, KeeperSteps
<1> HIDE DEF k
<1>2. (live' = live \ {keeper[g].new} /\ key' = Without({keeper[g].new})) \/ UNCHANGED <<live, key>>
  BY DEF KeeperUndo, Change
<1>3. key' \in [Instances -> Nat]
  BY <1>2 DEF RegistryTypes, Without
<1>4. \A i \in Instances : key'[i] \in {0, key[i]} /\ (key'[i] # 0 => key'[i] \in live')
  BY <1>2 DEF Without, KeysLive
<1>5. live' \subseteq live
  BY <1>2
<1> QED  BY <1>0, <1>1, <1>3, <1>4, <1>5, KeeperDrops

\* A goroutine records the new lease and forgets the old one.
LEMMA KeeperRecordKeeps == ASSUME RegistryInv, NEW g \in Keepers, KeeperRecord(g) PROVE RegistryInv'
<1> USE DEF RegistryInv
<1> DEFINE x == keeper[g].inst
           m == keeper[g].new
           k == [keeper[g] EXCEPT !.at = "wait", !.lease = m, !.new = 0]
<1>0. /\ keeper[g] \in KeeperStates /\ keeper[g].at = "record" /\ m \in Nat \ {0} /\ x \in Instances
      /\ UNCHANGED <<live, granted, key, op, phase>>
      /\ keeper' = [keeper EXCEPT ![g] = k] /\ leases' = [leases EXCEPT ![x] = m]
  BY KeeperFields DEF KeeperRecord, KeeperRules
<1>1. k \in KeeperStates /\ k.at = "wait" /\ k.inst = x /\ k.lease = m /\ k.new = 0
  BY <1>0 DEF KeeperStates, KeeperSteps
<1>2. m <= granted /\ keeper[g].inst = x /\ keeper[g].new = m /\ phase # "closed"
  BY <1>0 DEF Granted, KeepersGone
<1> HIDE DEF k, x, m
<1>3. keeper' \in [Keepers -> KeeperStates] /\ \A h \in Keepers : keeper'[h] = IF h = g THEN k ELSE keeper[h]
  BY <1>0, <1>1 DEF RegistryTypes
<1>4. leases' \in [Instances -> Nat] /\ \A i \in Instances : leases'[i] = IF i = x THEN m ELSE leases[i]
  <2>1. leases \in [Instances -> Nat]
    BY DEF RegistryTypes
  <2> QED  BY <1>0, <2>1
<1>5. RegistryTypes' /\ KeeperRules'
  BY <1>0, <1>1, <1>3, <1>4 DEF RegistryTypes, KeeperRules
<1>6. KeysLive' /\ ClosedQuiet' /\ KeepersGone'
  BY <1>0, <1>2 DEF KeysLive, ClosedQuiet, KeepersGone
<1>7. Granted'
  <2>1. 0 <= granted
    BY DEF RegistryTypes
  <2> QED  BY <1>0, <1>1, <1>2, <1>3, <1>4, <2>1 DEF Granted
<1>8. OwnLeases'
  <2>1. op.at \in {"put", "undo", "record"} => op.lease # 0
    BY DEF RegistryTypes
  <2> QED  BY <1>0, <1>1, <1>2, <1>3, <2>1 DEF OwnLeases
<1>9. NotPutYet'
  BY <1>0, <1>1, <1>3 DEF NotPutYet
<1>10. OneOwner'
  <2>1. \A i \in Instances, l \in Nat \ {0} : UsedFor(i, l)' => UsedFor(i, l)
    BY <1>0, <1>1, <1>2, <1>3, <1>4 DEF UsedFor
  <2> QED  BY <1>0, <2>1, OwnerKept
<1> QED  BY <1>5, <1>6, <1>7, <1>8, <1>9, <1>10

\* Close begins between two calls, drops the leases it knows and waits for the goroutines.
LEMMA CloseKeeps == ASSUME RegistryInv, CloseCancel \/ CloseRevoke \/ CloseReturns PROVE RegistryInv'
<1> USE DEF RegistryInv
<1>1. ASSUME NEW p \in {"cancelled", "revoked", "closed"}, phase' = p, op = NoOp,
             p = "closed" => \A g \in Keepers : keeper[g].at \in {"unborn", "gone"},
             UNCHANGED <<live, granted, key, leases, op, keeper>>
      PROVE  RegistryInv'
  <2>1. RegistryTypes' /\ KeeperRules' /\ Granted' /\ OwnLeases' /\ NotPutYet' /\ KeysLive'
    BY <1>1 DEF RegistryTypes, KeeperRules, Granted, OwnLeases, NotPutYet, KeysLive
  <2>2. OneOwner'
    BY <1>1 DEF OneOwner, UsedFor
  <2>3. ClosedQuiet' /\ KeepersGone'
    BY <1>1 DEF ClosedQuiet, KeepersGone, Kept
  <2> QED  BY <2>1, <2>2, <2>3
<1>2. CASE CloseCancel
  BY <1>1, <1>2 DEF CloseCancel, etcdVars
<1>3. CASE CloseReturns
  <2>1. op = NoOp
    BY <1>3 DEF CloseReturns, ClosedQuiet
  <2> QED  BY <1>1, <1>3, <2>1 DEF CloseReturns, etcdVars
<1>4. CASE CloseRevoke
  <2> DEFINE known == {leases[i] : i \in Instances} \ {0}
  <2>1. /\ phase = "cancelled" /\ phase' = "revoked" /\ UNCHANGED <<granted, leases, op, keeper>> /\ op = NoOp
        /\ \/ live' = live \ known /\ key' = Without(known)
           \/ UNCHANGED <<live, key>>
    BY <1>4 DEF CloseRevoke, ClosedQuiet, Change
  <2>2. CASE UNCHANGED <<live, key>>
    BY <1>1, <2>1, <2>2
  <2>3. CASE live' = live \ known /\ key' = Without(known)
    <3> HIDE DEF known
    <3>1. \A i \in Instances : key'[i] \in {0, key[i]} /\ (key'[i] # 0 => key'[i] = key[i] /\ key[i] \notin known)
      BY <2>3 DEF Without
    <3>2. key' \in [Instances -> Nat]
      BY <2>3 DEF RegistryTypes, Without
    <3>3. RegistryTypes'
      BY <2>1, <2>3, <3>2 DEF RegistryTypes
    <3>4. KeeperRules' /\ OwnLeases' /\ ClosedQuiet' /\ KeepersGone'
      BY <2>1 DEF KeeperRules, OwnLeases, ClosedQuiet, KeepersGone
    <3>5. Granted'
      <4>1. 0 <= granted
        BY DEF RegistryTypes
      <4>2. ASSUME NEW i \in Instances PROVE key'[i] <= granted
        <5>1. key'[i] = 0 \/ key'[i] = key[i]
          BY <3>1
        <5> QED  BY <4>1, <5>1 DEF Granted
      <4> QED  BY <2>1, <4>2 DEF Granted
    <3>6. NotPutYet'
      BY <2>1, <3>1, NoCall DEF NotPutYet, KeeperRules
    <3>7. KeysLive'
      BY <2>3, <3>1 DEF KeysLive
    <3>8. OneOwner'
      <4>1. \A i \in Instances, l \in Nat \ {0} : UsedFor(i, l)' => UsedFor(i, l)
        BY <2>1, <3>1 DEF UsedFor
      <4> QED  BY <2>1, <4>1, OwnerKept
    <3> QED  BY <3>3, <3>4, <3>5, <3>6, <3>7, <3>8
  <2> QED  BY <2>1, <2>2, <2>3
<1> QED  BY <1>2, <1>3, <1>4

\* Every step of the registry.
LEMMA RegistryStepKeeps == ASSUME RegistryInv, [DiscoveryNext]_discoveryVars PROVE RegistryInv'
<1>1. ASSUME NEW l \in Leases, LeaseExpires(l) PROVE RegistryInv'
  <2>1. live' = live \ {l} /\ key' = Without({l}) /\ UNCHANGED <<granted, leases, op, keeper, phase>>
    BY <1>1 DEF LeaseExpires, Change
  <2> QED  BY <2>1, LeasesLost
<1>2. ASSUME NEW i \in Instances, RegisterGrant(i) \/ DeregisterTake(i) PROVE RegistryInv'
  BY <1>2, RegisterGrantKeeps, DeregisterTakeKeeps
<1>3. ASSUME NEW i \in Instances, MemoryRegister(i) \/ MemoryDeregister(i) \/ Heartbeat(i) PROVE RegistryInv'
  BY <1>3, RegistryRests DEF MemoryRegister, MemoryDeregister, Heartbeat, etcdVars
<1>4. CASE RegisterPut \/ RegisterUndo \/ RegisterRecord \/ DeregisterRevoke \/ DeregisterDelete
  BY <1>4, RegisterPutKeeps, RegisterUndoKeeps, RegisterRecordKeeps, DeregisterRevokeKeeps, DeregisterDeleteKeeps
<1>5. ASSUME NEW g \in Keepers,
             KeeperTick(g) \/ KeeperGrant(g) \/ KeeperPut(g) \/ KeeperUndo(g) \/ KeeperRecord(g) \/ KeeperDone(g)
      PROVE  RegistryInv'
  BY <1>5, KeeperTickKeeps, KeeperGrantKeeps, KeeperPutKeeps, KeeperUndoKeeps, KeeperRecordKeeps
<1>6. CASE CloseCancel \/ CloseRevoke \/ CloseReturns
  BY <1>6, CloseKeeps
<1>7. CASE MemoryTick \/ WatchStart \/ WatchOpen \/ WatchEvent \/ WatchRefresh \/ WatchRead \/ WatchCancelled
  BY <1>7, RegistryRests DEF MemoryTick, WatchStart, WatchOpen, WatchEvent, WatchRefresh, WatchRead, WatchCancelled, etcdVars
<1>8. CASE UNCHANGED discoveryVars
  BY <1>8, RegistryRests DEF discoveryVars, etcdVars
<1> QED  BY <1>1, <1>2, <1>3, <1>4, <1>5, <1>6, <1>7, <1>8 DEF DiscoveryNext

\* The invariant of the registry.
LEMMA RegistryHolds == BackgroundSpec => []RegistryInv
<1>1. BackgroundInit => RegistryInv
  BY RegistryStarts DEF BackgroundInit
<1>2. RegistryInv /\ [BackgroundNext]_backgroundVars => RegistryInv'
  <2>1. [BackgroundNext]_backgroundVars => [DiscoveryNext]_discoveryVars
    BY DEF BackgroundNext, backgroundVars
  <2> QED  BY <2>1, RegistryStepKeeps
<1> QED  BY <1>1, <1>2, PTL DEF BackgroundSpec

\* Deregister takes no other instance out of etcd: the lease it revokes, which
\* it found in the map, carries no key but its own.
DeregisterLeavesOthers ==
    [][DeregisterRevoke \/ DeregisterDelete => \A i \in Instances \ {op.inst} : key'[i] = key[i]]_backgroundVars

\* For every number of instances, calls and faults.
THEOREM DeregisterIsLocal == BackgroundSpec => DeregisterLeavesOthers
<1>1. ASSUME RegistryInv, DeregisterRevoke \/ DeregisterDelete, NEW i \in Instances \ {op.inst} PROVE key'[i] = key[i]
  <2>0. key \in [Instances -> Nat] /\ op.lease \in Nat /\ op.lease <= granted /\ granted \in Nat
    BY <1>1, CallFields DEF RegistryInv, RegistryTypes, Granted
  <2>1. CASE DeregisterDelete
    <3>1. key' = [key EXCEPT ![op.inst] = 0] \/ key' = key
      BY <2>1 DEF DeregisterDelete, Change
    <3> QED  BY <2>0, <3>1
  <2>2. CASE DeregisterRevoke
    <3>1. key' = Without({op.lease} \ {0}) \/ key' = key
      BY <2>2 DEF DeregisterRevoke, Change
    <3>2. op.inst \in Instances
      BY <1>1, <2>2 DEF RegistryInv, RegistryTypes, DeregisterRevoke
    <3>3. ASSUME op.lease # 0, key[i] = op.lease PROVE FALSE
      <4>1. op.lease \in 1..granted
        BY <2>0, <3>3
      <4>2. UsedFor(i, op.lease) /\ UsedFor(op.inst, op.lease)
        BY <3>3 DEF UsedFor
      <4> QED  BY <1>1, <3>2, <4>1, <4>2 DEF RegistryInv, OneOwner
    <3> QED  BY <2>0, <3>1, <3>3 DEF Without
  <2> QED  BY <1>1, <2>1, <2>2
<1>2. RegistryInv /\ [BackgroundNext]_backgroundVars
        => [DeregisterRevoke \/ DeregisterDelete => \A i \in Instances \ {op.inst} : key'[i] = key[i]]_backgroundVars
  BY <1>1
<1> QED  BY <1>2, RegistryHolds, PTL DEF BackgroundSpec, DeregisterLeavesOthers

----------------------------------------------------------------------------
(* How many leases the registry asks for *)

\* The goroutine is about to ask for a lease, or may find that it has to.
Unserved ==
    {g \in Keepers :
        \/ keeper[g].at = "wait" /\ keeper[g].lease \notin live
        \/ keeper[g].at \in {"grant", "undo"}
        \/ keeper[g].at \in {"put", "record"} /\ keeper[g].new \notin live}

\* The call under way may yet cost a goroutine its lease, or has one that is lost.
Owed == IF op.at = "revoke" \/ (op.at = "record" /\ op.lease \notin live) THEN 1 ELSE 0

LeaseCount ==
    /\ ops \in Nat /\ faults \in Nat /\ granted <= ops + faults
    /\ phase = "open" => granted + Cardinality(Unserved) + Owed <= ops + faults

\* Sets of goroutines are finite.
LEMMA KeeperSets ==
    ASSUME NEW S, S \subseteq Keepers
    PROVE  IsFiniteSet(S) /\ Cardinality(S) \in Nat
<1>1. IsFiniteSet(Keepers)
  BY DiscoveryAssumption, FS_Interval DEF Keepers
<1> QED  BY <1>1, FS_Subset, FS_CardinalityType

\* Counting: a subset,
LEMMA SmallerSet ==
    ASSUME NEW S, NEW T, S \subseteq Keepers, T \subseteq S
    PROVE  Cardinality(T) <= Cardinality(S)
BY KeeperSets, FS_Subset

\* one element more,
LEMMA OneMore ==
    ASSUME NEW S, NEW T, NEW x, S \subseteq Keepers, T \subseteq Keepers, T \subseteq S \union {x}
    PROVE  Cardinality(T) <= Cardinality(S) + 1
<1>1. IsFiniteSet(S) /\ Cardinality(S) \in Nat /\ Cardinality(T) \in Nat
  BY KeeperSets
<1>2. IsFiniteSet(S \union {x}) /\ (Cardinality(S \union {x}) = Cardinality(S) \/ Cardinality(S \union {x}) = Cardinality(S) + 1)
  BY <1>1, FS_AddElement
<1>3. Cardinality(T) <= Cardinality(S \union {x})
  BY <1>2, FS_Subset
<1> QED  BY <1>1, <1>2, <1>3

\* and one less.
LEMMA OneLess ==
    ASSUME NEW S, NEW T, NEW x \in S, S \subseteq Keepers, T \subseteq S \ {x}
    PROVE  Cardinality(T) + 1 <= Cardinality(S)
<1>1. IsFiniteSet(S) /\ Cardinality(S) \in Nat /\ Cardinality(T) \in Nat
  BY KeeperSets
<1>2. IsFiniteSet(S \ {x}) /\ Cardinality(S \ {x}) = Cardinality(S) - 1
  BY <1>1, FS_RemoveElement
<1>3. Cardinality(T) <= Cardinality(S \ {x})
  BY <1>2, FS_Subset
<1> QED  BY <1>1, <1>2, <1>3

\* A step pays for what it adds to the count.
LEMMA Paid ==
    ASSUME LeaseCount, granted \in Nat, granted' \in Nat, NEW d \in Nat, ops' + faults' = ops + faults + d, ops' \in Nat, faults' \in Nat,
           phase' = "open" => phase = "open",
           phase # "open" => granted' = granted,
           phase = "open" => granted' + Cardinality(Unserved') + Owed' <= granted + Cardinality(Unserved) + Owed + d
    PROVE  LeaseCount'
<1>1. Cardinality(Unserved) \in Nat /\ Cardinality(Unserved') \in Nat /\ Owed \in Nat /\ Owed' \in Nat
  <2>1. Unserved \subseteq Keepers /\ Unserved' \subseteq Keepers
    BY DEF Unserved
  <2> QED  BY <2>1, KeeperSets DEF Owed
<1>2. ops \in Nat /\ faults \in Nat /\ granted <= ops + faults
      /\ (phase = "open" => granted + Cardinality(Unserved) + Owed <= ops + faults)
  BY DEF LeaseCount
<1>3. ops + faults \in Nat /\ ops' + faults' \in Nat
  <2>1. ops \in Nat /\ faults \in Nat
    BY <1>2
  <2>2. ops + faults \in Nat
    BY <2>1
  <2>3. ops + faults + d \in Nat
    BY <2>2
  <2> QED  BY <2>2, <2>3
<1>4. CASE phase = "open"
  <2> DEFINE u == Cardinality(Unserved)
             v == Cardinality(Unserved')
             o == Owed
             q == Owed'
             a == granted
             b == granted'
             m == ops + faults
             n == ops' + faults'
  <2>1. u \in Nat /\ v \in Nat /\ o \in Nat /\ q \in Nat /\ a \in Nat /\ b \in Nat /\ m \in Nat /\ n \in Nat /\ d \in Nat
    BY <1>1, <1>3
  <2>2. a + u + o <= m /\ b + v + q <= a + u + o + d /\ n = m + d
    BY <1>2, <1>4
  <2> HIDE DEF u, v, o, q, a, b, m, n
  <2>3. b + v + q <= n /\ b <= n
    BY <2>1, <2>2
  <2>4. granted' + Cardinality(Unserved') + Owed' <= ops' + faults' /\ granted' <= ops' + faults'
    BY <2>3 DEF v, q, b, n
  <2> QED  BY <2>4 DEF LeaseCount
<1>5. CASE phase # "open"
  <2>1. granted' <= ops' + faults'
    <3> DEFINE a == granted
               m == ops + faults
               n == ops' + faults'
    <3>1. a \in Nat /\ m \in Nat /\ n \in Nat /\ a <= m /\ n = m + d /\ d \in Nat /\ granted' = a
      BY <1>2, <1>5, <1>3
    <3> HIDE DEF a, m, n
    <3>2. a <= n
      BY <3>1
    <3> QED  BY <3>1, <3>2 DEF n
  <2> QED  BY <1>5, <2>1 DEF LeaseCount
<1> QED  BY <1>4, <1>5

\* Losing one lease concerns one goroutine at most, and none if none keeps it.
LEMMA OneUnserved ==
    ASSUME RegistryInv, NEW l \in Nat, live' = live \ {l}, keeper' = keeper
    PROVE  /\ \E x : Unserved' \subseteq Unserved \union {x}
           /\ ~Kept(l) => Unserved' \subseteq Unserved
<1>0. /\ \A g \in Keepers : keeper[g].lease \in Nat /\ keeper[g].new \in Nat
      /\ 0 \notin live
  <2>1. RegistryTypes
    BY DEF RegistryInv
  <2> QED  BY <2>1, KeeperFields DEF RegistryTypes
<1>1. ASSUME NEW g \in Unserved', g \notin Unserved
      PROVE  l # 0 /\ g \in Keepers /\ keeper[g].at \notin {"unborn", "gone"} /\ (keeper[g].lease = l \/ keeper[g].new = l)
  BY <1>0, <1>1 DEF Unserved
<1>2. ASSUME NEW g \in Unserved' \ Unserved, NEW h \in Unserved' \ Unserved PROVE g = h
  <2>1. /\ l # 0 /\ g \in Keepers /\ (keeper[g].lease = l \/ keeper[g].new = l)
        /\ h \in Keepers /\ (keeper[h].lease = l \/ keeper[h].new = l)
    BY <1>1
  <2> QED  BY <2>1 DEF RegistryInv, OwnLeases
<1>3. \E x : Unserved' \subseteq Unserved \union {x}
  <2>1. CASE Unserved' \subseteq Unserved
    BY <2>1
  <2>2. CASE ~(Unserved' \subseteq Unserved)
    <3>1. PICK x : x \in Unserved' \ Unserved
      BY <2>2
    <3>2. Unserved' \subseteq Unserved \union {x}
      BY <1>2, <3>1
    <3> QED  BY <3>2
  <2> QED  BY <2>1, <2>2
<1>4. ~Kept(l) => Unserved' \subseteq Unserved
  BY <1>1 DEF Kept
<1> QED  BY <1>3, <1>4

\* The parts of the count are numbers.
LEMMA CountTypes ==
    /\ Cardinality(Unserved) \in Nat /\ Cardinality(Unserved') \in Nat /\ Owed \in {0, 1} /\ Owed' \in {0, 1}
    /\ Unserved \subseteq Keepers /\ Unserved' \subseteq Keepers
<1>1. Unserved \subseteq Keepers /\ Unserved' \subseteq Keepers
  BY DEF Unserved
<1> QED  BY <1>1, KeeperSets DEF Owed

\* A step of a call: it adds at most what it pays.
LEMMA CallPays ==
    ASSUME RegistryInv, LeaseCount, NEW d \in Nat, ops' \in Nat, faults' \in Nat, ops' + faults' = ops + faults + d,
           UNCHANGED <<granted, phase>>,
           phase = "open" =>
              \/ Unserved' \subseteq Unserved /\ Owed' <= Owed + d
              \/ (\E x : Unserved' \subseteq Unserved \union {x}) /\ Owed' + 1 <= Owed + d
    PROVE  LeaseCount'
<1>0. granted \in Nat
  BY DEF RegistryInv, RegistryTypes
<1>1. ASSUME phase = "open"
      PROVE  granted' + Cardinality(Unserved') + Owed' <= granted + Cardinality(Unserved) + Owed + d
  <2> DEFINE u == Cardinality(Unserved)
             v == Cardinality(Unserved')
             o == Owed
             q == Owed'
  <2>1. u \in Nat /\ v \in Nat /\ o \in Nat /\ q \in Nat
    BY CountTypes
  <2>2. (v <= u /\ q <= o + d) \/ (v <= u + 1 /\ q + 1 <= o + d)
    <3>1. CASE Unserved' \subseteq Unserved /\ Owed' <= Owed + d
      BY <3>1, CountTypes, SmallerSet
    <3>2. CASE (\E x : Unserved' \subseteq Unserved \union {x}) /\ Owed' + 1 <= Owed + d
      <4>1. PICK x : Unserved' \subseteq Unserved \union {x}
        BY <3>2
      <4>2. v <= u + 1
        BY <4>1, CountTypes, OneMore
      <4> QED  BY <3>2, <4>2
    <3> QED  BY <1>1, <3>1, <3>2
  <2> HIDE DEF u, v, o, q
  <2>3. granted + v + q <= granted + u + o + d
    BY <1>0, <2>1, <2>2
  <2>4. granted' = granted
    OBVIOUS
  <2> QED  BY <2>3, <2>4 DEF u, v, o, q
<1> QED  BY <1>0, <1>1, Paid

\* So are the calls and faults.
LEMMA CountTypesHold == ASSUME LeaseCount PROVE ops \in Nat /\ faults \in Nat
BY DEF LeaseCount

\* What a fault costs.
LEMMA FaultPays ==
    ASSUME LeaseCount, Fault, UNCHANGED ops
    PROVE  ops' \in Nat /\ faults' \in Nat /\ ops' + faults' = ops + faults + 1
BY DEF LeaseCount, Fault

\* A lease that somebody keeps is lost only by a fault.
LEMMA ExpiryCounted == ASSUME RegistryInv, LeaseCount, NEW l \in Leases, LeaseExpires(l) PROVE LeaseCount'
<1>0. /\ live' = live \ {l} /\ UNCHANGED <<granted, keeper, op, ops, phase>> /\ l \in Nat
      /\ IF Kept(l) \/ op.lease = l THEN Fault ELSE UNCHANGED faults
  BY DEF LeaseExpires, Leases
<1>1. (\E x : Unserved' \subseteq Unserved \union {x}) /\ (~Kept(l) => Unserved' \subseteq Unserved)
  BY <1>0, OneUnserved
<1>2. op.lease # l \/ op.at # "record" => Owed' = Owed
  BY <1>0 DEF Owed
<1>3. CASE ~(Kept(l) \/ op.lease = l)
  <2>1. Owed' <= Owed + 0 /\ ops + faults = ops + faults + 0
    BY <1>2, <1>3, CountTypes, CountTypesHold
  <2> QED  BY <1>0, <1>1, <1>3, <2>1, CountTypesHold, CallPays
<1>4. CASE Kept(l) \/ op.lease = l
  <2>1. ops' \in Nat /\ faults' \in Nat /\ ops' + faults' = ops + faults + 1
    BY <1>0, <1>4, FaultPays
  <2>2. CASE op.at = "record" /\ op.lease = l
    <3>1. ~Kept(l)
      BY <2>2 DEF Kept, RegistryInv, OwnLeases
    <3>2. Owed' <= Owed + 1
      BY CountTypes
    <3> QED  BY <1>0, <1>1, <2>1, <3>1, <3>2, CallPays
  <2>3. CASE ~(op.at = "record" /\ op.lease = l)
    <3>1. Owed' = Owed /\ (Owed = 0 \/ Owed = 1)
      BY <1>2, <2>3, CountTypes
    <3>2. Owed' + 1 <= Owed + 1
      BY <3>1
    <3> QED  BY <1>0, <1>1, <2>1, <3>2, CallPays
  <2> QED  BY <2>2, <2>3
<1> QED  BY <1>3, <1>4

\* Register and Deregister pay for the leases they take away or lose.
LEMMA CallsCounted ==
    ASSUME RegistryInv, LeaseCount,
           \/ \E i \in Instances : DeregisterTake(i)
           \/ RegisterPut \/ RegisterUndo \/ RegisterRecord \/ DeregisterRevoke \/ DeregisterDelete
    PROVE  LeaseCount'
<1>0. ops \in Nat /\ faults \in Nat /\ ops + 0 = ops /\ op.lease \in Nat /\ ops + faults = ops + faults + 0
  BY CountTypesHold, CallFields DEF RegistryInv
<1>1. ASSUME NEW i \in Instances, DeregisterTake(i) PROVE LeaseCount'
  <2>1. UNCHANGED <<granted, phase, live, keeper, faults>> /\ ops' = ops + 1
    BY <1>1 DEF DeregisterTake
  <2>2. ops' \in Nat /\ ops' + faults' = ops + faults + 1
    BY <1>0, <2>1
  <2>3. Unserved' \subseteq Unserved /\ Owed' <= Owed + 1
    BY <2>1, CountTypes DEF Unserved
  <2> QED  BY <1>0, <2>1, <2>2, <2>3, CallPays
<1>2. CASE RegisterPut
  <2>0. op.at = "put" /\ UNCHANGED <<granted, phase, keeper, ops, live>>
    BY <1>2 DEF RegisterPut
  <2>1. PICK a \in {"record", "undo"} : op' = [op EXCEPT !.at = a] /\ (a = "record" => op.lease \in live)
    BY <1>2 DEF RegisterPut
  <2>2. op'.at = a /\ op'.lease = op.lease
    BY <2>1 DEF RegistryInv, RegistryTypes
  <2>3. Owed' = 0 /\ Unserved' \subseteq Unserved
    BY <2>0, <2>1, <2>2 DEF Owed, Unserved
  <2>4. Owed' <= Owed + 0 /\ Owed' <= Owed + 1
    BY <2>3, CountTypes
  <2>5. Fault \/ UNCHANGED faults
    BY <1>2 DEF RegisterPut
  <2>6. CASE Fault
    BY <2>0, <2>3, <2>4, <2>6, FaultPays, CallPays
  <2>7. CASE UNCHANGED faults
    BY <1>0, <2>0, <2>3, <2>4, <2>7, CallPays
  <2> QED  BY <2>5, <2>6, <2>7
<1>6. CASE RegisterUndo
  <2>0. op.at = "undo" /\ UNCHANGED <<granted, phase, keeper, ops>> /\ op' = NoOp /\ (Fault \/ UNCHANGED faults)
    BY <1>6 DEF RegisterUndo
  <2>1. Unserved' \subseteq Unserved
    <3>1. CASE UNCHANGED live
      BY <2>0, <3>1 DEF Unserved
    <3>2. CASE live' = live \ {op.lease}
      <4>1. ~Kept(op.lease)
        BY <2>0 DEF Kept, RegistryInv, OwnLeases
      <4> QED  BY <1>0, <2>0, <3>2, <4>1, OneUnserved
    <3> QED  BY <1>6, <3>1, <3>2 DEF RegisterUndo
  <2>2. Owed' = 0
    BY <2>0, NoCall DEF Owed
  <2>3. Owed' <= Owed + 0 /\ Owed' <= Owed + 1
    BY <2>2, CountTypes
  <2>4. CASE Fault
    BY <2>0, <2>1, <2>3, <2>4, FaultPays, CallPays
  <2>5. CASE UNCHANGED faults
    BY <1>0, <2>0, <2>1, <2>3, <2>5, CallPays
  <2> QED  BY <2>0, <2>4, <2>5
<1>3. CASE RegisterRecord
  <2> DEFINE n == spawned + 1
             k == [at |-> "wait", inst |-> op.inst, lease |-> op.lease, new |-> 0]
  <2>0. /\ op.at = "record" /\ UNCHANGED <<granted, phase, live, ops, faults>> /\ op' = NoOp
        /\ keeper' = [keeper EXCEPT ![n] = k] /\ keeper \in [Keepers -> KeeperStates]
    BY <1>3 DEF RegisterRecord, RegistryInv, RegistryTypes
  <2>1. k.at = "wait" /\ k.lease = op.lease
    OBVIOUS
  <2> HIDE DEF n, k
  <2>2. Unserved' \subseteq Unserved \union {n} /\ (op.lease \in live => Unserved' \subseteq Unserved)
    <3>1. \A h \in Keepers : keeper'[h] = IF h = n THEN k ELSE keeper[h]
      BY <2>0
    <3> QED  BY <2>0, <2>1, <3>1 DEF Unserved
  <2>3. Owed' = 0
    BY <2>0, NoCall DEF Owed
  <2>4. CASE op.lease \in live
    <3>1. Owed' <= Owed + 0
      BY <2>3, CountTypes
    <3> QED  BY <1>0, <2>0, <2>2, <2>4, <3>1, CallPays
  <2>5. CASE op.lease \notin live
    <3>1. Owed = 1
      BY <2>0, <2>5 DEF Owed
    <3>2. Owed' + 1 <= Owed + 0
      BY <2>3, <3>1
    <3> QED  BY <1>0, <2>0, <2>2, <3>2, CallPays
  <2> QED  BY <2>4, <2>5
<1>4. CASE DeregisterRevoke
  <2>0. op.at = "revoke" /\ UNCHANGED <<granted, phase, keeper, ops>> /\ op' = [op EXCEPT !.at = "delete", !.lease = 0]
    BY <1>4 DEF DeregisterRevoke
  <2>1. op'.at = "delete"
    BY <2>0 DEF RegistryInv, RegistryTypes
  <2>2. Owed = 1 /\ Owed' = 0
    BY <2>0, <2>1 DEF Owed
  <2>3. CASE live' = live \ {op.lease} /\ UNCHANGED faults
    <3>1. \E x : Unserved' \subseteq Unserved \union {x}
      BY <1>0, <2>0, <2>3, OneUnserved
    <3>2. Owed' + 1 <= Owed + 0
      BY <2>2
    <3> QED  BY <1>0, <2>0, <2>3, <3>1, <3>2, CallPays
  <2>4. CASE Fault /\ UNCHANGED live
    <3>1. Unserved' \subseteq Unserved
      BY <2>0, <2>4 DEF Unserved
    <3>2. Owed' <= Owed + 1
      BY <2>2
    <3> QED  BY <2>0, <2>4, <3>1, <3>2, FaultPays, CallPays
  <2> QED  BY <1>4, <2>3, <2>4 DEF DeregisterRevoke
<1>5. CASE DeregisterDelete
  <2>0. UNCHANGED <<granted, phase, keeper, live, ops>> /\ op' = NoOp /\ (Fault \/ UNCHANGED faults)
    BY <1>5 DEF DeregisterDelete
  <2>1. Unserved' \subseteq Unserved /\ Owed' = 0
    BY <2>0, NoCall DEF Unserved, Owed
  <2>2. Owed' <= Owed + 0 /\ Owed' <= Owed + 1
    BY <2>1, CountTypes
  <2>3. CASE Fault
    BY <2>0, <2>1, <2>2, <2>3, FaultPays, CallPays
  <2>4. CASE UNCHANGED faults
    BY <1>0, <2>0, <2>1, <2>2, <2>4, CallPays
  <2> QED  BY <2>0, <2>3, <2>4
<1> QED  BY <1>1, <1>2, <1>3, <1>4, <1>5, <1>6

\* The goroutine g has no lease, or lost it, only when it or the step has paid.
LEMMA KeepersCounted ==
    ASSUME RegistryInv, LeaseCount, NEW g \in Keepers,
           KeeperTick(g) \/ KeeperGrant(g) \/ KeeperPut(g) \/ KeeperUndo(g) \/ KeeperRecord(g)
    PROVE  LeaseCount'
<1>0. /\ ops \in Nat /\ faults \in Nat /\ ops + faults = ops + faults + 0 /\ granted \in Nat
      /\ keeper \in [Keepers -> KeeperStates] /\ keeper[g] \in KeeperStates
      /\ UNCHANGED <<op, ops, phase>>
  BY CountTypesHold DEF RegistryInv, RegistryTypes, KeeperTick, KeeperGrant, KeeperPut, KeeperUndo, KeeperRecord
<1>1. Owed \in Nat /\ (Owed' = Owed => Owed' <= Owed + 0 /\ Owed' + 1 <= Owed + 1)
  <2>1. Owed \in Nat
    BY CountTypes
  <2> QED  BY <2>1
<1>2. CASE KeeperTick(g)
  <2>0. PICK a \in {"grant", "gone"} : keeper' = [keeper EXCEPT ![g] = [keeper[g] EXCEPT !.at = a]]
    BY <1>2 DEF KeeperTick
  <2>1. UNCHANGED <<live, granted>> /\ keeper[g].at = "wait" /\ \A h \in Keepers : h # g => keeper'[h] = keeper[h]
    BY <1>0, <1>2, <2>0 DEF KeeperTick
  <2>2. Owed' = Owed
    BY <1>0, <2>1 DEF Owed
  <2>3. Unserved' \subseteq Unserved \union {g}
    BY <2>1 DEF Unserved
  <2>4. CASE keeper[g].lease \in live /\ phase = "open"
    <3>1. Fault
      BY <1>2, <2>4 DEF KeeperTick
    <3> QED  BY <1>0, <1>1, <2>1, <2>2, <2>3, <3>1, FaultPays, CallPays
  <2>5. CASE ~(keeper[g].lease \in live /\ phase = "open")
    <3>1. UNCHANGED faults
      BY <1>2, <2>5 DEF KeeperTick
    <3>2. phase = "open" => Unserved' \subseteq Unserved
      BY <2>1, <2>3, <2>5 DEF Unserved
    <3> QED  BY <1>0, <1>1, <2>1, <2>2, <3>1, <3>2, CallPays
  <2> QED  BY <2>4, <2>5
<1>3. CASE KeeperGrant(g)
  <2>0. keeper[g].at = "grant" /\ g \in Unserved
    BY <1>3 DEF KeeperGrant, Unserved
  <2>1. CASE phase = "open" /\ Grant /\ UNCHANGED faults /\ keeper' = [keeper EXCEPT ![g].at = "put", ![g].new = granted + 1]
    <3>0. granted' = granted + 1 /\ live' = live \union {granted + 1}
      BY <2>1 DEF Grant
    <3>1. /\ keeper'[g].at = "put" /\ keeper'[g].new = granted + 1
          /\ \A h \in Keepers : h # g => keeper'[h] = keeper[h]
      BY <1>0, <2>1 DEF KeeperStates
    <3>2. Unserved' \subseteq Unserved \ {g}
      BY <3>0, <3>1 DEF Unserved
    <3>3. Cardinality(Unserved') + 1 <= Cardinality(Unserved)
      BY <2>0, <3>2, CountTypes, OneLess
    <3>4. Owed' <= Owed
      <4>1. Owed' = 1 => Owed = 1
        BY <1>0, <3>0 DEF Owed
      <4> QED  BY <4>1, CountTypes
    <3>5. granted' + Cardinality(Unserved') + Owed' <= granted + Cardinality(Unserved) + Owed + 0
      <4> DEFINE u == Cardinality(Unserved)
                 v == Cardinality(Unserved')
                 o == Owed
                 q == Owed'
      <4>1. u \in Nat /\ v \in Nat /\ o \in Nat /\ q \in Nat /\ v + 1 <= u /\ q <= o
        BY <3>3, <3>4, CountTypes
      <4> HIDE DEF u, v, o, q
      <4>2. granted + 1 + v + q <= granted + u + o + 0
        BY <1>0, <4>1
      <4> QED  BY <3>0, <4>2 DEF u, v, o, q
    <3>6. granted' \in Nat
      BY <1>0, <3>0
    <3> QED  BY <1>0, <2>1, <3>5, <3>6, Paid
  <2>2. CASE (IF phase = "open" THEN Fault ELSE UNCHANGED faults) /\ keeper' = [keeper EXCEPT ![g].at = "wait"] /\ UNCHANGED <<live, granted>>
    <3>1. \A h \in Keepers : h # g => keeper'[h] = keeper[h]
      BY <1>0, <2>2
    <3>2. Unserved' \subseteq Unserved
      BY <2>0, <2>2, <3>1 DEF Unserved
    <3>3. Owed' = Owed
      BY <1>0, <2>2 DEF Owed
    <3>4. Owed' <= Owed + 1 /\ Owed' <= Owed + 0
      BY <1>1, <3>3
    <3>5. CASE Fault
      BY <1>0, <2>2, <3>2, <3>4, <3>5, FaultPays, CallPays
    <3>6. CASE UNCHANGED faults
      BY <1>0, <2>2, <3>2, <3>4, <3>6, CallPays
    <3> QED  BY <2>2, <3>5, <3>6
  <2> QED  BY <1>3, <2>1, <2>2 DEF KeeperGrant
<1>4. CASE KeeperPut(g)
  <2> DEFINE m == keeper[g].new
  <2>0. keeper[g].at = "put" /\ UNCHANGED <<live, granted>>
    BY <1>4 DEF KeeperPut
  <2>1. PICK a \in {"record", "undo"} : keeper' = [keeper EXCEPT ![g] = [keeper[g] EXCEPT !.at = a]]
    BY <1>4 DEF KeeperPut
  <2>2. /\ keeper'[g].at = a /\ keeper'[g].new = m
        /\ \A h \in Keepers : h # g => keeper'[h] = keeper[h]
    BY <1>0, <2>1 DEF KeeperStates
  <2>3. Unserved' \subseteq Unserved \union {g}
    BY <2>0, <2>2 DEF Unserved
  <2>4. Owed' = Owed
    BY <1>0, <2>0 DEF Owed
  <2>5. CASE Fault
    BY <1>0, <1>1, <2>0, <2>3, <2>4, <2>5, FaultPays, CallPays
  <2>6. CASE UNCHANGED faults
    <3>1. phase = "open" => a = "record" \/ m \notin live
      <4>1. a = "undo" => keeper'[g].at # "record" /\ keeper' # [keeper EXCEPT ![g].at = "record"]
        BY <1>0, <2>2 DEF KeeperStates
      <4>2. ~Fault
        BY <1>0, <2>6 DEF Fault
      <4> QED  BY <1>4, <2>1, <4>1, <4>2 DEF KeeperPut
    <3>2. phase = "open" => Unserved' \subseteq Unserved
      BY <2>0, <2>2, <2>3, <3>1 DEF Unserved
    <3> QED  BY <1>0, <1>1, <2>0, <2>4, <2>6, <3>2, CallPays
  <2> QED  BY <1>4, <2>5, <2>6 DEF KeeperPut
<1>6. CASE KeeperUndo(g)
  <2> DEFINE m == keeper[g].new
  <2>0. /\ keeper[g].at = "undo" /\ granted' = granted /\ g \in Unserved
        /\ keeper' = [keeper EXCEPT ![g].at = "wait", ![g].new = 0]
        /\ (live' = live \ {m} /\ UNCHANGED faults) \/ (UNCHANGED live /\ Fault)
    BY <1>6 DEF KeeperUndo, Unserved
  <2>1. /\ op.at = "record" => op.lease # m
        /\ \A h \in Keepers : h # g => keeper[h].lease # m /\ keeper[h].new # m
    BY <2>0 DEF RegistryInv, KeeperRules, OwnLeases
  <2>2. \A h \in Keepers : h # g => keeper'[h] = keeper[h]
    BY <1>0, <2>0
  <2> HIDE DEF m
  <2>3. Unserved' \subseteq Unserved
    <3> SUFFICES ASSUME NEW h \in Unserved', h # g PROVE h \in Unserved
      BY <2>0
    <3>1. h \in Keepers
      BY DEF Unserved
    <3>2. keeper'[h] = keeper[h] /\ (keeper[h].lease \notin live' => keeper[h].lease \notin live) /\ (keeper[h].new \notin live' => keeper[h].new \notin live)
      BY <2>0, <2>1, <2>2, <3>1
    <3> QED  BY <3>1, <3>2 DEF Unserved
  <2>4. Owed' = Owed
    <3>1. op.at = "record" => (op.lease \in live <=> op.lease \in live')
      BY <2>0, <2>1
    <3> QED  BY <1>0, <3>1 DEF Owed
  <2>5. Owed' <= Owed + 0 /\ Owed' <= Owed + 1
    BY <2>4, CountTypes
  <2>6. CASE Fault
    BY <1>0, <2>0, <2>3, <2>5, <2>6, FaultPays, CallPays
  <2>7. CASE UNCHANGED faults
    BY <1>0, <2>0, <2>3, <2>5, <2>7, CallPays
  <2> QED  BY <2>0, <2>6, <2>7
<1>5. CASE KeeperRecord(g)
  <2> DEFINE m == keeper[g].new
             k == [keeper[g] EXCEPT !.at = "wait", !.lease = m, !.new = 0]
  <2>0. keeper[g].at = "record" /\ UNCHANGED <<live, granted, faults>> /\ keeper' = [keeper EXCEPT ![g] = k]
    BY <1>5 DEF KeeperRecord
  <2>1. k.at = "wait" /\ k.lease = m
    BY <1>0 DEF KeeperStates
  <2> HIDE DEF k
  <2>2. keeper'[g] = k /\ \A h \in Keepers : h # g => keeper'[h] = keeper[h]
    BY <1>0, <2>0
  <2>3. Unserved' \subseteq Unserved
    BY <2>0, <2>1, <2>2 DEF Unserved
  <2>4. Owed' = Owed
    BY <1>0, <2>0 DEF Owed
  <2> QED  BY <1>0, <1>1, <2>0, <2>3, <2>4, CallPays
<1> QED  BY <1>2, <1>3, <1>4, <1>5, <1>6

\* Every step of the registry pays for the leases it asks for.
LEMMA CountKept == ASSUME RegistryInv, LeaseCount, [DiscoveryNext]_discoveryVars PROVE LeaseCount'
<1>0. ops \in Nat /\ faults \in Nat /\ ops + faults = ops + faults + 0 /\ granted \in Nat
  BY CountTypesHold DEF RegistryInv, RegistryTypes
<1>1. ASSUME NEW d \in Nat, UNCHANGED <<live, granted, op, keeper, phase>>, ops' \in Nat, faults' \in Nat, ops' + faults' = ops + faults + d
      PROVE  LeaseCount'
  <2>1. Unserved' \subseteq Unserved /\ Owed' = Owed
    BY <1>1 DEF Unserved, Owed
  <2>2. Owed' <= Owed + d
    <3>1. Owed = 0 \/ Owed = 1
      BY CountTypes
    <3> QED  BY <1>1, <2>1, <3>1
  <2> QED  BY <1>1, <2>1, <2>2, CallPays
<1>2. ASSUME UNCHANGED <<live, granted, op, keeper, phase, ops, faults>> PROVE LeaseCount'
  BY <1>0, <1>1, <1>2
<1>3. ASSUME UNCHANGED <<live, granted, op, keeper, phase, faults>>, ops' = ops + 1 PROVE LeaseCount'
  <2>1. ops' \in Nat /\ ops' + faults' = ops + faults + 1
    BY <1>0, <1>3
  <2> QED  BY <1>0, <1>1, <1>3, <2>1
<1>4. ASSUME UNCHANGED <<live, granted, op, keeper, phase, ops>>, Fault PROVE LeaseCount'
  BY <1>1, <1>4, FaultPays
<1>5. ASSUME phase' # "open", UNCHANGED <<granted, ops>>, Fault \/ UNCHANGED faults PROVE LeaseCount'
  <2>1. CASE UNCHANGED faults
    BY <1>0, <1>5, <2>1 DEF LeaseCount
  <2>2. CASE Fault
    <3>1. ops' \in Nat /\ faults' \in Nat /\ ops' + faults' = ops + faults + 1 /\ granted <= ops + faults
      BY <1>5, <2>2, FaultPays DEF LeaseCount
    <3>2. granted' <= ops' + faults'
      <4> DEFINE a == ops + faults
                 b == ops' + faults'
      <4>0. a \in Nat
        BY <1>0
      <4>1. b = a + 1 /\ granted <= a /\ granted' = granted
        BY <1>5, <3>1
      <4> HIDE DEF a, b
      <4>2. granted' <= b
        BY <1>0, <4>0, <4>1
      <4> QED  BY <4>2 DEF b
    <3> QED  BY <1>5, <3>1, <3>2 DEF LeaseCount
  <2> QED  BY <1>5, <2>1, <2>2
<1>6. ASSUME NEW l \in Leases, LeaseExpires(l) PROVE LeaseCount'
  BY <1>6, ExpiryCounted
<1>7. ASSUME NEW x \in Instances, RegisterGrant(x) PROVE LeaseCount'
  <2>0. ops' = ops + 1 /\ UNCHANGED <<keeper, phase>> /\ phase = "open" /\ op = NoOp
    BY <1>7 DEF RegisterGrant
  <2>1. CASE Grant /\ op' = [at |-> "put", inst |-> x, lease |-> granted + 1] /\ UNCHANGED faults
    <3>0. granted' = granted + 1 /\ live' = live \union {granted + 1}
      BY <2>1 DEF Grant
    <3>1. Unserved' \subseteq Unserved /\ Owed' = 0
      BY <2>0, <2>1, <3>0 DEF Unserved, Owed
    <3>2. Cardinality(Unserved') <= Cardinality(Unserved)
      BY <3>1, CountTypes, SmallerSet
    <3>3. granted' + Cardinality(Unserved') + Owed' <= granted + Cardinality(Unserved) + Owed + 1
      <4> DEFINE u == Cardinality(Unserved)
                 v == Cardinality(Unserved')
                 o == Owed
                 q == Owed'
      <4>1. u \in Nat /\ v \in Nat /\ o \in Nat /\ q \in Nat /\ v <= u /\ q = 0
        BY <3>1, <3>2, CountTypes
      <4> HIDE DEF u, v, o, q
      <4>2. granted + 1 + v + q <= granted + u + o + 1
        BY <1>0, <4>1
      <4> QED  BY <3>0, <4>2 DEF u, v, o, q
    <3>4. granted' \in Nat /\ ops' \in Nat /\ faults' \in Nat /\ ops' + faults' = ops + faults + 1
      BY <1>0, <2>0, <2>1, <3>0
    <3> QED  BY <1>0, <2>0, <3>3, <3>4, Paid
  <2>2. CASE Fault /\ UNCHANGED <<op, live, granted>>
    <3>1. ops' \in Nat /\ faults' \in Nat /\ ops' + faults' = ops + faults + 2
      BY <1>0, <2>0, <2>2 DEF Fault
    <3> QED  BY <1>1, <2>0, <2>2, <3>1
  <2> QED  BY <1>7, <2>1, <2>2 DEF RegisterGrant
<1>8. ASSUME NEW i \in Instances, DeregisterTake(i) PROVE LeaseCount'
  BY <1>8, CallsCounted
<1>9. ASSUME NEW i \in Instances, MemoryRegister(i) \/ MemoryDeregister(i) PROVE LeaseCount'
  BY <1>3, <1>9 DEF MemoryRegister, MemoryDeregister, etcdVars
<1>10. ASSUME NEW i \in Instances, Heartbeat(i) PROVE LeaseCount'
  BY <1>2, <1>10 DEF Heartbeat, etcdVars
<1>11. CASE RegisterPut \/ RegisterUndo \/ RegisterRecord \/ DeregisterRevoke \/ DeregisterDelete
  BY <1>11, CallsCounted
<1>12. ASSUME NEW g \in Keepers, KeeperTick(g) \/ KeeperGrant(g) \/ KeeperPut(g) \/ KeeperUndo(g) \/ KeeperRecord(g) PROVE LeaseCount'
  BY <1>12, KeepersCounted
<1>13. ASSUME NEW g \in Keepers, KeeperDone(g) PROVE LeaseCount'
  BY <1>5, <1>13 DEF KeeperDone
<1>14. CASE CloseCancel \/ CloseReturns
  BY <1>5, <1>14 DEF CloseCancel, CloseReturns, etcdVars
<1>15. CASE CloseRevoke
  BY <1>5, <1>15 DEF CloseRevoke
<1>16. CASE WatchEvent
  BY <1>2, <1>4, <1>16 DEF WatchEvent
<1>17. CASE MemoryTick \/ WatchStart \/ WatchOpen \/ WatchRefresh \/ WatchRead \/ WatchCancelled
  BY <1>2, <1>17 DEF MemoryTick, WatchStart, WatchOpen, WatchRefresh, WatchRead, WatchCancelled, etcdVars
<1>18. CASE UNCHANGED discoveryVars
  BY <1>2, <1>18 DEF discoveryVars, etcdVars
<1> QED
  BY <1>6, <1>7, <1>8, <1>9, <1>10, <1>11, <1>12, <1>13, <1>14, <1>15, <1>16, <1>17, <1>18 DEF DiscoveryNext

\* An instance is in etcd only under a lease that is alive, and no lease stands
\* for two instances.  The registry asks etcd for no more leases than there were
\* calls and faults: keepAlive does not pile them up, whichever of its steps
\* fails and however often it tries again.  Close begins between two calls, and
\* when it has returned nobody renews any lease.
RegistrySound ==
    /\ KeysLive /\ OneOwner
    /\ granted <= ops + faults
    /\ ClosedQuiet

\* For every number of instances, calls and faults.
THEOREM RegistryStaysSound == BackgroundSpec => []RegistrySound
<1>1. BackgroundInit => RegistryInv /\ LeaseCount
  <2> SUFFICES ASSUME BackgroundInit PROVE LeaseCount
    BY RegistryStarts DEF BackgroundInit
  <2>1. DiscoveryInit
    BY DEF BackgroundInit
  <2>2. Unserved = {} /\ Owed = 0
    BY <2>1, NoCall DEF DiscoveryInit, Unserved, Owed, Unborn
  <2>3. Cardinality(Unserved) = 0
    BY <2>2, FS_EmptySet
  <2> QED  BY <2>1, <2>2, <2>3 DEF DiscoveryInit, LeaseCount
<1>2. RegistryInv /\ LeaseCount /\ [BackgroundNext]_backgroundVars => RegistryInv' /\ LeaseCount'
  <2>1. [BackgroundNext]_backgroundVars => [DiscoveryNext]_discoveryVars
    BY DEF BackgroundNext, backgroundVars
  <2> QED  BY <2>1, RegistryStepKeeps, CountKept
<1>3. RegistryInv /\ LeaseCount => RegistrySound
  BY DEF RegistryInv, LeaseCount, RegistrySound
<1> QED  BY <1>1, <1>2, <1>3, PTL DEF BackgroundSpec

----------------------------------------------------------------------------
(* The watcher *)

\* The list a reader has after it has read what is in the channel.
Latest == IF channel = <<>> THEN seen ELSE channel[Len(channel)]

\* A watcher of the etcd registry whom no change escaped and who has handled
\* every event has the current list, also when the channel was full and dropped
\* older ones; and the channel never holds more than it has room for.
WatcherCurrent ==
    /\ registry = "etcd" /\ watch \in {"starting", "watching"} /\ ~missed /\ events = 0 => Latest = GetInstances
    /\ Len(channel) <= WatchBuffer

WatchInv ==
    /\ channel \in Seq(SUBSET Instances) /\ events \in Nat
    /\ WatcherCurrent

\* The keys are as before.
LEMMA WatchRests ==
    ASSUME WatchInv, UNCHANGED <<registry, key, events, missed, watch, channel, seen>>
    PROVE  WatchInv'
BY DEF WatchInv, WatcherCurrent, Latest, GetInstances

\* A change is an event for a watcher whose watch is open, and escapes one that
\* has not opened it yet.
LEMMA ChangeNoticed ==
    ASSUME WatchInv, NEW k, Change(k), UNCHANGED <<registry, watch, channel, seen>>
    PROVE  WatchInv'
<1> DEFINE differ == {i \in Instances : key[i] # k[i]}
<1>1. /\ key' = k
      /\ events' = IF watch = "watching" THEN events + Cardinality(differ) ELSE events
      /\ missed => missed'
      /\ watch = "starting" /\ Cardinality(differ) > 0 => missed'
  <2>1. key' = k
    BY DEF Change
  <2>2. events' = IF watch = "watching" THEN events + Cardinality(differ) ELSE events
    BY Zenon DEF Change
  <2>3. missed' = (missed \/ (watch = "starting" /\ Cardinality(differ) > 0))
    BY Zenon DEF Change
  <2>4. missed => missed'
    BY <2>3, Zenon
  <2>5. watch = "starting" /\ Cardinality(differ) > 0 => missed'
    BY <2>3, Zenon
  <2> QED  BY <2>1, <2>2, <2>4, <2>5, Zenon
<1>2. IsFiniteSet(differ) /\ Cardinality(differ) \in Nat
  <2>1. differ \subseteq Instances
    OBVIOUS
  <2>2. IsFiniteSet(Instances)
    BY DiscoveryAssumption
  <2> HIDE DEF differ
  <2> QED  BY <2>1, <2>2, FS_Subset, FS_CardinalityType
<1>3. Cardinality(differ) = 0 => differ = {}
  BY <1>2, FS_EmptySet
<1> DEFINE n == Cardinality(differ)
<1>4. n = 0 => \A i \in Instances : key'[i] = key[i]
  BY <1>1, <1>3
<1>5. n \in Nat /\ (watch = "watching" => events' = events + n) /\ (watch # "watching" => events' = events)
      /\ (watch = "starting" /\ n > 0 => missed') /\ (missed => missed') /\ events \in Nat
  BY <1>1, <1>2 DEF WatchInv
<1> HIDE DEF n, differ
<1>6. events' \in Nat
  BY <1>5
<1>7. WatcherCurrent'
  <2>1. Len(channel') <= WatchBuffer
    BY DEF WatchInv, WatcherCurrent
  <2> SUFFICES ASSUME registry = "etcd", watch \in {"starting", "watching"}, ~missed', events' = 0
               PROVE  Latest' = GetInstances'
    BY <2>1 DEF WatcherCurrent
  <2>2. n = 0 /\ ~missed /\ events = 0
    BY <1>5
  <2>3. Latest = GetInstances
    BY <2>2 DEF WatchInv, WatcherCurrent
  <2>4. GetInstances' = GetInstances
    BY <1>4, <2>2 DEF GetInstances
  <2> QED  BY <2>3, <2>4 DEF Latest
<1> QED  BY <1>6, <1>7 DEF WatchInv

\* What is pushed last is what the reader has in the end.
LEMMA PushedLast ==
    ASSUME NEW c \in Seq(SUBSET Instances), NEW x \in SUBSET Instances
    PROVE  /\ Append(c, x) \in Seq(SUBSET Instances) /\ Append(c, x) # <<>> /\ Len(Append(c, x)) = Len(c) + 1
           /\ Append(c, x)[Len(Append(c, x))] = x
OBVIOUS

\* A list holds instances.
LEMMA InstanceLists == GetInstances \in SUBSET Instances
BY DEF GetInstances, Healthy

\* The steps of Watch and of its reader.
LEMMA WatchStepKeeps ==
    ASSUME WatchInv, WatchStart \/ WatchOpen \/ WatchEvent \/ WatchRefresh \/ WatchRead \/ WatchCancelled
    PROVE  WatchInv'
<1>0. channel \in Seq(SUBSET Instances) /\ events \in Nat /\ Len(channel) <= WatchBuffer /\ Len(channel) \in Nat
  BY DEF WatchInv, WatcherCurrent
<1>1. CASE WatchStart
  <2>0. UNCHANGED <<registry, key, events, missed>>
    BY <1>1 DEF WatchStart, etcdVars
  <2>1. channel' = <<>> \/ channel' = <<GetInstances>>
    BY <1>1 DEF WatchStart
  <2>2. channel' \in Seq(SUBSET Instances) /\ Len(channel') <= WatchBuffer
    <3> DEFINE x == GetInstances
    <3>1. x \in SUBSET Instances /\ 1 <= WatchBuffer /\ 0 <= WatchBuffer
      BY InstanceLists, DiscoveryAssumption
    <3>2. channel' = <<>> \/ channel' = <<x>>
      BY <2>1
    <3> HIDE DEF x
    <3>3. CASE channel' = <<>>
      BY <3>1, <3>3
    <3>4. CASE channel' = <<x>>
      BY <3>1, <3>4
    <3> QED  BY <3>2, <3>3, <3>4
  <2>3. registry' = "etcd" => Latest' = GetInstances'
    <3> SUFFICES ASSUME registry = "etcd" PROVE Latest' = GetInstances'
      BY <2>0
    <3>1. channel' = <<GetInstances>>
      BY <1>1 DEF WatchStart
    <3>2. Latest' = GetInstances
      BY <3>1 DEF Latest
    <3>3. GetInstances' = GetInstances
      BY <2>0 DEF GetInstances
    <3> QED  BY <3>2, <3>3
  <2> QED  BY <1>0, <2>0, <2>2, <2>3 DEF WatchInv, WatcherCurrent
<1>2. CASE WatchOpen
  BY <1>2 DEF WatchOpen, etcdVars, WatchInv, WatcherCurrent, Latest, GetInstances
<1>3. CASE WatchEvent
  <2>0. UNCHANGED <<registry, key, watch, seen>> /\ events' = events - 1 /\ events' \in Nat
    BY <1>0, <1>3 DEF WatchEvent
  <2>1. CASE channel' = Pushed(GetInstances)
    <3> DEFINE c == IF Len(channel) < WatchBuffer THEN channel ELSE Tail(channel)
    <3>1. channel' = Append(c, GetInstances)
      BY <2>1 DEF Pushed
    <3>2. c \in Seq(SUBSET Instances) /\ Len(c) + 1 <= WatchBuffer
      <4>1. CASE Len(channel) < WatchBuffer
        BY <1>0, <4>1, DiscoveryAssumption
      <4>2. CASE ~(Len(channel) < WatchBuffer)
        <5>1. Len(channel) = WatchBuffer /\ channel # <<>>
          BY <1>0, <4>2, DiscoveryAssumption
        <5>2. Tail(channel) \in Seq(SUBSET Instances) /\ Len(Tail(channel)) = Len(channel) - 1
          BY <1>0, <5>1
        <5> QED  BY <1>0, <4>2, <5>1, <5>2
      <4> QED  BY <4>1, <4>2
    <3> HIDE DEF c
    <3>3. /\ channel' \in Seq(SUBSET Instances) /\ channel' # <<>> /\ Len(channel') <= WatchBuffer
          /\ channel'[Len(channel')] = GetInstances
      BY <3>1, <3>2, InstanceLists, PushedLast
    <3>4. registry = "etcd" => GetInstances' = GetInstances
      BY <2>0 DEF GetInstances
    <3> QED  BY <2>0, <3>3, <3>4 DEF WatchInv, WatcherCurrent, Latest
  <2>2. CASE missed' = TRUE /\ UNCHANGED channel
    BY <1>0, <2>0, <2>2 DEF WatchInv, WatcherCurrent
  <2> QED  BY <1>3, <2>1, <2>2 DEF WatchEvent
<1>4. CASE WatchRefresh
  <2>0. registry = "memory" /\ UNCHANGED <<registry, events>> /\ Len(channel) < WatchBuffer /\ channel' = Append(channel, GetInstances)
    BY <1>4 DEF WatchRefresh, etcdVars
  <2>1. channel' \in Seq(SUBSET Instances) /\ Len(channel') = Len(channel) + 1
    BY <1>0, <2>0, InstanceLists, PushedLast
  <2>2. Len(channel') <= WatchBuffer
    BY <1>0, <2>0, <2>1, DiscoveryAssumption
  <2> QED  BY <1>0, <2>0, <2>1, <2>2 DEF WatchInv, WatcherCurrent
<1>5. CASE WatchRead
  <2>0. /\ UNCHANGED <<registry, key, events, missed, watch>> /\ channel # <<>>
        /\ seen' = Head(channel) /\ channel' = Tail(channel)
    BY <1>5 DEF WatchRead, etcdVars
  <2>1. channel' \in Seq(SUBSET Instances) /\ Len(channel') = Len(channel) - 1
    BY <1>0, <2>0
  <2>2. Latest' = Latest
    <3>1. CASE Len(channel) = 1
      <4>1. channel' = <<>>
        BY <1>0, <2>0, <3>1
      <4> QED  BY <1>0, <2>0, <3>1, <4>1 DEF Latest
    <3>2. CASE Len(channel) # 1
      <4>1. Len(channel) > 1 /\ Len(channel') \in 1..(Len(channel) - 1) /\ channel' # <<>>
        BY <1>0, <2>0, <2>1, <3>2
      <4>2. \A j \in 1..(Len(channel) - 1) : channel'[j] = channel[j + 1]
        BY <1>0, <2>0
      <4>3. channel'[Len(channel')] = channel[Len(channel') + 1]
        BY <4>1, <4>2
      <4>4. Len(channel') + 1 = Len(channel)
        BY <1>0, <2>1
      <4> QED  BY <2>0, <4>1, <4>3, <4>4 DEF Latest
    <3> QED  BY <3>1, <3>2
  <2>3. registry = "etcd" => GetInstances' = GetInstances
    BY <2>0 DEF GetInstances
  <2>4. Len(channel') <= WatchBuffer
    BY <1>0, <2>1, DiscoveryAssumption
  <2> QED  BY <1>0, <2>0, <2>1, <2>2, <2>3, <2>4 DEF WatchInv, WatcherCurrent
<1>6. CASE WatchCancelled
  BY <1>6 DEF WatchCancelled, etcdVars, WatchInv, WatcherCurrent
<1> QED  BY <1>1, <1>2, <1>3, <1>4, <1>5, <1>6

\* Every step of the registry.
LEMMA WatchKept == ASSUME WatchInv, [DiscoveryNext]_discoveryVars PROVE WatchInv'
<1> USE DEF watchVars
<1>1. ASSUME NEW l \in Leases, LeaseExpires(l) PROVE WatchInv'
  BY <1>1, ChangeNoticed DEF LeaseExpires
<1>2. ASSUME NEW i \in Instances, RegisterGrant(i) \/ DeregisterTake(i) PROVE WatchInv'
  BY <1>2, WatchRests DEF RegisterGrant, DeregisterTake
<1>3. ASSUME NEW i \in Instances, MemoryRegister(i) \/ MemoryDeregister(i) \/ Heartbeat(i) PROVE WatchInv'
  <2>1. registry = "memory" /\ UNCHANGED <<registry, events, channel>>
    BY <1>3 DEF MemoryRegister, MemoryDeregister, Heartbeat, etcdVars
  <2> QED  BY <2>1 DEF WatchInv, WatcherCurrent
<1>4. CASE RegisterPut
  <2>1. UNCHANGED <<registry, watch, channel, seen>>
    BY <1>4 DEF RegisterPut
  <2>2. CASE Change([key EXCEPT ![op.inst] = op.lease])
    BY <2>1, <2>2, ChangeNoticed
  <2>3. CASE UNCHANGED <<key, events, missed>>
    BY <2>1, <2>3, WatchRests
  <2> QED  BY <1>4, <2>2, <2>3 DEF RegisterPut
<1>15. CASE RegisterUndo
  <2>1. UNCHANGED <<registry, watch, channel, seen>>
    BY <1>15 DEF RegisterUndo
  <2>2. CASE Change(Without({op.lease}))
    BY <2>1, <2>2, ChangeNoticed
  <2>3. CASE UNCHANGED <<key, events, missed>>
    BY <2>1, <2>3, WatchRests
  <2> QED  BY <1>15, <2>2, <2>3 DEF RegisterUndo
<1>5. CASE RegisterRecord
  BY <1>5, WatchRests DEF RegisterRecord
<1>6. CASE DeregisterRevoke
  <2>1. UNCHANGED <<registry, watch, channel, seen>>
    BY <1>6 DEF DeregisterRevoke
  <2>2. CASE Change(Without({op.lease} \ {0}))
    BY <2>1, <2>2, ChangeNoticed
  <2>3. CASE UNCHANGED <<key, events, missed>>
    BY <2>1, <2>3, WatchRests
  <2> QED  BY <1>6, <2>2, <2>3 DEF DeregisterRevoke
<1>7. CASE DeregisterDelete
  <2>1. UNCHANGED <<registry, watch, channel, seen>>
    BY <1>7 DEF DeregisterDelete
  <2>2. CASE Change([key EXCEPT ![op.inst] = 0])
    BY <2>1, <2>2, ChangeNoticed
  <2>3. CASE UNCHANGED <<key, events, missed>>
    BY <2>1, <2>3, WatchRests
  <2> QED  BY <1>7, <2>2, <2>3 DEF DeregisterDelete
<1>8. ASSUME NEW g \in Keepers, KeeperTick(g) \/ KeeperGrant(g) \/ KeeperRecord(g) \/ KeeperDone(g) PROVE WatchInv'
  BY <1>8, WatchRests DEF KeeperTick, KeeperGrant, KeeperRecord, KeeperDone
<1>9. ASSUME NEW g \in Keepers, KeeperPut(g) PROVE WatchInv'
  <2>1. UNCHANGED <<registry, watch, channel, seen>>
    BY <1>9 DEF KeeperPut
  <2>2. CASE Change([key EXCEPT ![keeper[g].inst] = keeper[g].new])
    BY <2>1, <2>2, ChangeNoticed
  <2>3. CASE UNCHANGED <<key, events, missed>>
    BY <2>1, <2>3, WatchRests
  <2> QED  BY <1>9, <2>2, <2>3 DEF KeeperPut
<1>16. ASSUME NEW g \in Keepers, KeeperUndo(g) PROVE WatchInv'
  <2>1. UNCHANGED <<registry, watch, channel, seen>>
    BY <1>16 DEF KeeperUndo
  <2>2. CASE Change(Without({keeper[g].new}))
    BY <2>1, <2>2, ChangeNoticed
  <2>3. CASE UNCHANGED <<key, events, missed>>
    BY <2>1, <2>3, WatchRests
  <2> QED  BY <1>16, <2>2, <2>3 DEF KeeperUndo
<1>10. CASE CloseCancel \/ CloseReturns
  BY <1>10, WatchRests DEF CloseCancel, CloseReturns, etcdVars
<1>11. CASE CloseRevoke
  <2>1. UNCHANGED <<registry, watch, channel, seen>>
    BY <1>11 DEF CloseRevoke
  <2>2. ASSUME NEW known, Change(Without(known)) PROVE WatchInv'
    BY <2>1, <2>2, ChangeNoticed
  <2>3. CASE UNCHANGED <<key, events, missed>>
    BY <2>1, <2>3, WatchRests
  <2> QED  BY <1>11, <2>2, <2>3 DEF CloseRevoke
<1>12. CASE MemoryTick
  <2>1. registry = "memory" /\ UNCHANGED <<registry, events, channel>>
    BY <1>12 DEF MemoryTick, etcdVars
  <2> QED  BY <2>1 DEF WatchInv, WatcherCurrent
<1>13. CASE WatchStart \/ WatchOpen \/ WatchEvent \/ WatchRefresh \/ WatchRead \/ WatchCancelled
  BY <1>13, WatchStepKeeps
<1>14. CASE UNCHANGED discoveryVars
  BY <1>14, WatchRests DEF discoveryVars, etcdVars
<1> QED
  BY <1>1, <1>2, <1>3, <1>4, <1>5, <1>6, <1>7, <1>8, <1>9, <1>10, <1>11, <1>12, <1>13, <1>14, <1>15, <1>16 DEF DiscoveryNext

\* For every number of instances, every room in the channel and however many
\* calls and faults.
THEOREM WatcherIsCurrent == BackgroundSpec => []WatcherCurrent
<1>1. BackgroundInit => WatchInv
  <2> SUFFICES ASSUME DiscoveryInit PROVE WatchInv
    BY DEF BackgroundInit
  <2>1. channel = <<>> /\ events = 0 /\ watch = "none"
    BY DEF DiscoveryInit
  <2> QED  BY <2>1, DiscoveryAssumption DEF WatchInv, WatcherCurrent
<1>2. WatchInv /\ [BackgroundNext]_backgroundVars => WatchInv'
  <2>1. [BackgroundNext]_backgroundVars => [DiscoveryNext]_discoveryVars
    BY DEF BackgroundNext, backgroundVars
  <2> QED  BY <2>1, WatchKept
<1>3. WatchInv => WatcherCurrent
  BY DEF WatchInv
<1> QED  BY <1>1, <1>2, <1>3, PTL DEF BackgroundSpec
=============================================================================

------------------------- MODULE LogTransport_proofs -------------------------
(***************************************************************************)
(* Theorems about LogTransport for any buffer, any batch size and any      *)
(* number of lines and failed sends: order and completeness of what is     *)
(* still to be sent, the bound on the memory it takes, and that the        *)
(* transport is a LossyQueue.                                              *)
(*                                                                         *)
(* The last part is about ManagerDirectory, for any number of managers,    *)
(* employees and requests. The two specifications share no variable and    *)
(* are not composed: each theorem is about one of them.                    *)
(***************************************************************************)
EXTENDS LogTransport, ManagerDirectory, SequenceTheorems, TLAPS

-----------------------------------------------------------------------------
(* Sequences of lines. *)

Increasing(s) == \A i, j \in DOMAIN s : i < j => s[i] < s[j]

\* A sequence that is cut: both parts, their elements and the whole they make.
LEMMA Cut ==
    ASSUME NEW S, NEW s \in Seq(S), NEW k \in 0 .. Len(s)
    PROVE  LET left == SubSeq(s, 1, k)
               right == SubSeq(s, k + 1, Len(s))
           IN  /\ left \in Seq(S) /\ right \in Seq(S)
               /\ Len(left) = k /\ Len(right) = Len(s) - k
               /\ \A i \in 1 .. k : left[i] = s[i]
               /\ \A i \in 1 .. Len(s) - k : right[i] = s[k + i]
               /\ left \o right = s
               /\ Lines(left) \cup Lines(right) = Lines(s)
<1> DEFINE left == SubSeq(s, 1, k)
           right == SubSeq(s, k + 1, Len(s))
<1>1. Len(s) \in Nat /\ DOMAIN s = 1 .. Len(s) /\ \A i \in 1 .. Len(s) : s[i] \in S
  BY LenProperties
<1>2. /\ left \in Seq(S) /\ Len(left) = k
      /\ \A i \in 1 .. k : left[i] = s[i]
  <2>1. \A i \in 1 .. k : s[i] \in S
    BY <1>1
  <2>2. /\ left \in Seq(S) /\ Len(left) = IF 1 <= k THEN k - 1 + 1 ELSE 0
        /\ \A i \in 1 .. k - 1 + 1 : left[i] = s[1 + i - 1]
    BY <2>1, SubSeqProperties
  <2>3. QED
    BY <1>1, <2>2
<1>3. /\ right \in Seq(S) /\ Len(right) = Len(s) - k
      /\ \A i \in 1 .. Len(s) - k : right[i] = s[k + i]
  <2>1. \A i \in k + 1 .. Len(s) : s[i] \in S
    BY <1>1
  <2>2. /\ right \in Seq(S)
        /\ Len(right) = IF k + 1 <= Len(s) THEN Len(s) - (k + 1) + 1 ELSE 0
        /\ \A i \in 1 .. Len(s) - (k + 1) + 1 : right[i] = s[k + 1 + i - 1]
    BY <1>1, <2>1, SubSeqProperties
  <2> HIDE DEF right
  <2> DEFINE n == Len(s)
  <2> HIDE DEF n
  <2>3. n \in Nat /\ k \in 0 .. n
    BY <1>1 DEF n
  <2>4. /\ n - (k + 1) + 1 = n - k
        /\ k + 1 <= n \/ n - k = 0
        /\ \A i \in 1 .. n - k : k + 1 + i - 1 = k + i
    BY <2>3
  <2>5. QED
    BY <2>2, <2>3, <2>4 DEF n
<1>4. left \o right = s
  <2>1. 1 \in 1 .. Len(s) + 1 /\ k \in 1 - 1 .. Len(s) /\ Len(s) \in k .. Len(s)
    BY <1>1
  <2>2. left \o right = SubSeq(s, 1, Len(s))
    BY <2>1, ConcatAdjacentSubSeq, Zenon
  <2>3. SubSeq(s, 1, Len(s)) = s
    BY SubSeqFull, Zenon
  <2>4. QED
    BY <2>2, <2>3, Zenon
<1>5. Lines(left) \cup Lines(right) = Lines(s)
  <2> HIDE DEF left, right
  <2>1. DOMAIN left = 1 .. k /\ DOMAIN right = 1 .. Len(s) - k
    BY <1>2, <1>3, LenProperties
  <2>2. ASSUME NEW i \in 1 .. Len(s) PROVE s[i] \in Lines(left) \cup Lines(right)
    <3>1. CASE i <= k
      BY <1>1, <1>2, <2>1, <3>1 DEF Lines
    <3>2. CASE i > k
      <4>1. i - k \in 1 .. Len(s) - k /\ right[i - k] = s[i]
        BY <1>1, <1>3, <3>2
      <4>2. QED
        BY <2>1, <4>1 DEF Lines
    <3>3. QED
      BY <1>1, <3>1, <3>2
  <2>3. \A i \in 1 .. Len(s) - k : k + i \in 1 .. Len(s)
    BY <1>1
  <2>4. \A i \in 1 .. k : i \in 1 .. Len(s)
    BY <1>1
  <2>5. Lines(left) \subseteq Lines(s)
    BY <1>1, <1>2, <2>1, <2>4 DEF Lines
  <2>6. Lines(right) \subseteq Lines(s)
    BY <1>1, <1>3, <2>1, <2>3 DEF Lines
  <2>7. Lines(s) \subseteq Lines(left) \cup Lines(right)
    BY <1>1, <2>2 DEF Lines
  <2>8. QED
    BY <2>5, <2>6, <2>7
<1>6. QED
  BY <1>2, <1>3, <1>4, <1>5

\* What two sequences put together hold.
LEMMA LinesOfConcat ==
    ASSUME NEW S, NEW s \in Seq(S), NEW t \in Seq(S)
    PROVE  Lines(s \o t) = Lines(s) \cup Lines(t)
<1>1. /\ Len(s) \in Nat /\ DOMAIN s = 1 .. Len(s)
      /\ Len(t) \in Nat /\ DOMAIN t = 1 .. Len(t)
  BY LenProperties
<1>2. /\ s \o t \in Seq(S) /\ Len(s \o t) = Len(s) + Len(t)
      /\ \A i \in 1 .. Len(s) + Len(t) :
            (s \o t)[i] = IF i <= Len(s) THEN s[i] ELSE t[i - Len(s)]
  BY ConcatProperties
<1>3. DOMAIN (s \o t) = 1 .. Len(s) + Len(t)
  BY <1>2, LenProperties
<1>4. Lines(s \o t) \subseteq Lines(s) \cup Lines(t)
  BY <1>1, <1>2, <1>3 DEF Lines
<1>5. Lines(s) \subseteq Lines(s \o t)
  BY <1>1, <1>2, <1>3 DEF Lines
<1>6. ASSUME NEW i \in 1 .. Len(t) PROVE t[i] \in Lines(s \o t)
  <2>1. Len(s) + i \in 1 .. Len(s) + Len(t) /\ (s \o t)[Len(s) + i] = t[i]
    BY <1>1, <1>2
  <2>2. QED
    BY <1>3, <2>1 DEF Lines
<1>7. QED
  BY <1>1, <1>4, <1>5, <1>6 DEF Lines

\* A new line at the end.
LEMMA LinesOfAppend ==
    ASSUME NEW S, NEW s \in Seq(S), NEW x \in S
    PROVE  Lines(Append(s, x)) = Lines(s) \cup {x}
<1>1. Append(s, x) = s \o <<x>> /\ <<x>> \in Seq(S)
  BY AppendIsConcat
<1>2. Lines(<<x>>) = {x}
  BY DEF Lines
<1>3. Lines(s \o <<x>>) = Lines(s) \cup Lines(<<x>>)
  BY <1>1, LinesOfConcat
<1>4. QED
  BY <1>1, <1>2, <1>3

\* Lines that are dropped from the second of two sequences leave the rest in order.
LEMMA DroppingKeepsOrder ==
    ASSUME NEW s \in Seq(Nat), NEW t \in Seq(Nat), NEW k \in 0 .. Len(t), Increasing(s \o t)
    PROVE  Increasing(s \o SubSeq(t, k + 1, Len(t)))
<1> DEFINE rest == SubSeq(t, k + 1, Len(t))
<1>1. Len(s) \in Nat /\ Len(t) \in Nat
  BY LenProperties
<1>2. /\ rest \in Seq(Nat) /\ Len(rest) = Len(t) - k
      /\ \A i \in 1 .. Len(t) - k : rest[i] = t[k + i]
  BY Cut
<1>3. /\ s \o t \in Seq(Nat) /\ Len(s \o t) = Len(s) + Len(t)
      /\ \A i \in 1 .. Len(s) + Len(t) :
            (s \o t)[i] = IF i <= Len(s) THEN s[i] ELSE t[i - Len(s)]
  BY ConcatProperties
<1>4. /\ s \o rest \in Seq(Nat) /\ Len(s \o rest) = Len(s) + Len(rest)
      /\ \A i \in 1 .. Len(s) + Len(rest) :
            (s \o rest)[i] = IF i <= Len(s) THEN s[i] ELSE rest[i - Len(s)]
  BY <1>2, ConcatProperties
<1>5. DOMAIN (s \o t) = 1 .. Len(s) + Len(t) /\ DOMAIN (s \o rest) = 1 .. Len(s) + Len(t) - k
  BY <1>1, <1>2, <1>3, <1>4, LenProperties
<1> DEFINE from(i) == IF i <= Len(s) THEN i ELSE i + k
<1>6. ASSUME NEW i \in 1 .. Len(s) + Len(t) - k
      PROVE  /\ from(i) \in 1 .. Len(s) + Len(t)
             /\ (s \o rest)[i] = (s \o t)[from(i)]
  <2>1. CASE i <= Len(s)
    BY <1>1, <1>2, <1>3, <1>4, <2>1
  <2>2. CASE i > Len(s)
    <3>1. i - Len(s) \in 1 .. Len(t) - k /\ i + k \in 1 .. Len(s) + Len(t) /\ ~(i + k <= Len(s))
      BY <1>1, <2>2
    <3>2. (s \o rest)[i] = t[k + (i - Len(s))]
      BY <1>1, <1>2, <1>4, <2>2, <3>1
    <3>3. (s \o t)[i + k] = t[i + k - Len(s)]
      BY <1>3, <3>1
    <3>4. i + k - Len(s) = k + (i - Len(s))
      BY <1>1
    <3>5. QED
      BY <1>1, <2>2, <3>1, <3>2, <3>3, <3>4
  <2>3. QED
    BY <1>1, <2>1, <2>2
<1>7. \A i, j \in 1 .. Len(s) + Len(t) - k : i < j => from(i) < from(j)
  BY <1>1
<1> HIDE DEF rest, from
<1>8. Increasing(s \o rest)
  BY <1>5, <1>6, <1>7 DEF Increasing
<1>9. QED
  BY <1>8 DEF rest

\* A line with a higher number goes last.
LEMMA AppendingKeepsOrder ==
    ASSUME NEW s \in Seq(Nat), NEW x \in Nat, Increasing(s), \A i \in DOMAIN s : s[i] < x
    PROVE  Increasing(Append(s, x))
<1>1. Len(s) \in Nat /\ DOMAIN s = 1 .. Len(s)
  BY LenProperties
<1>2. /\ Append(s, x) \in Seq(Nat) /\ Len(Append(s, x)) = Len(s) + 1
      /\ \A i \in 1 .. Len(s) : Append(s, x)[i] = s[i]
      /\ Append(s, x)[Len(s) + 1] = x
  BY AppendProperties
<1>3. DOMAIN Append(s, x) = 1 .. Len(s) + 1
  BY <1>2, LenProperties
<1>4. QED
  BY <1>1, <1>2, <1>3 DEF Increasing

-----------------------------------------------------------------------------
(* What the actions are made of. *)

\* takeBatch splits the queue; nothing is lost and the batch is not empty.
LEMMA TakesSplits ==
    ASSUME NEW S, NEW s \in Seq(S), NEW who, Takes(who, s)
    PROVE  /\ batch' \in Seq(S) /\ queue' \in Seq(S)
           /\ batch' # <<>> /\ sender' = who
           /\ batch' \o queue' = s
           /\ Lines(batch') \cup Lines(queue') = Lines(s)
           /\ Len(batch') <= MaxBatch /\ Len(queue') <= Len(s)
<1>1. PICK k \in 1 .. MaxBatch : /\ k <= Len(s) /\ sender' = who
                                 /\ batch' = SubSeq(s, 1, k)
                                 /\ queue' = SubSeq(s, k + 1, Len(s))
  BY DEF Takes
<1>2. k \in 0 .. Len(s) /\ k \in 1 .. MaxBatch /\ MaxBatch \in Nat /\ Len(s) \in Nat
  BY <1>1, TransportAssumption, LenProperties
<1>3. /\ batch' \in Seq(S) /\ queue' \in Seq(S)
      /\ Len(batch') = k /\ Len(queue') = Len(s) - k
      /\ batch' \o queue' = s
      /\ Lines(batch') \cup Lines(queue') = Lines(s)
  BY <1>1, <1>2, Cut
<1>4. batch' # <<>>
  BY <1>2, <1>3, EmptySeq
<1>5. Len(batch') <= MaxBatch /\ Len(queue') <= Len(s)
  BY <1>2, <1>3
<1>6. QED
  BY <1>1, <1>3, <1>4, <1>5, Zenon

\* Trimming keeps what fits and says what it drops.
LEMMA TrimmedSplits ==
    ASSUME NEW S, NEW s \in Seq(S)
    PROVE  /\ Overflow(s) \in 0 .. Len(s)
           /\ Trimmed(s) \in Seq(S)
           /\ Len(Trimmed(s)) <= MaxBuffer
           /\ Excess(s) \cup Lines(Trimmed(s)) = Lines(s)
<1>1. Len(s) \in Nat /\ MaxBuffer \in Nat
  BY TransportAssumption, LenProperties
<1>2. Overflow(s) \in 0 .. Len(s) /\ Len(s) - Overflow(s) <= MaxBuffer
  BY <1>1 DEF Overflow
<1>3. /\ Trimmed(s) \in Seq(S) /\ Len(Trimmed(s)) = Len(s) - Overflow(s)
      /\ Excess(s) \cup Lines(Trimmed(s)) = Lines(s)
  BY <1>2, Cut DEF Trimmed, Excess
<1>4. QED
  BY <1>2, <1>3

\* Also behind a batch that is on its way.
LEMMA TrimmingKeepsOrder ==
    ASSUME NEW s \in Seq(Nat), NEW t \in Seq(Nat), Increasing(s \o t)
    PROVE  Increasing(s \o Trimmed(t))
BY TrimmedSplits, DroppingKeepsOrder DEF Trimmed

-----------------------------------------------------------------------------
(* The invariant: types, order, completeness, and the bound on memory. *)

Control ==
    /\ backoff \in BOOLEAN
    /\ shutdown \in {"no", "closing", "flushing", "flushed", "late", "exited"}
    /\ outages \in 0 .. MaxOutages

Contents ==
    /\ logged \in 0 .. MaxLines
    /\ queue \in Seq(Line) /\ batch \in Seq(Line)
    /\ sender \in {"nobody", "drain", "flush"}
    /\ sender = "nobody" <=> batch = <<>>
    /\ stored \subseteq Line /\ discarded \subseteq Line

\* MAX_BUFFER_ROWS and BATCH_ROWS bound what is kept in memory, retries included.
MemoryBounded == Len(queue) <= MaxBuffer /\ Len(batch) <= MaxBatch

\* At-least-once: a line is waiting, being sent, stored, or was discarded on purpose.
NothingVanishes ==
    Line \subseteq Lines(queue) \cup Lines(batch) \cup stored \cup discarded

PendingInv ==
    /\ Contents
    /\ Increasing(batch \o queue)
    /\ NothingVanishes
    /\ MemoryBounded

\* The control variables, which no other part of the invariant depends on.
LEMMA ControlStep ==
    ASSUME Control, [Next]_vars
    PROVE  Control'
<1>1. /\ Outage => outages' \in 0 .. MaxOutages
      /\ Settled => outages' = outages
  BY TransportAssumption DEF Outage, Settled, Control
<1>2. CASE DrainGoesOn
  BY <1>1, <1>2 DEF DrainGoesOn, Control
<1>3. CASE FlushGoesOn
  BY <1>1, <1>3 DEF FlushGoesOn, Control
<1>4. QED
  BY <1>2, <1>3
     DEF Control, Next, vars, Log, Tick, BackoffEnds, Shutdown, FlushBegins, FlushLoops,
         FlushFindsNothing, FlushRunsLate, Exit

\* Lines are natural numbers, and more of them when another is logged.
LEMMA LinesAreNumbers ==
    ASSUME Contents
    PROVE  /\ logged \in Nat
           /\ Line \subseteq Nat /\ Line \subseteq 1 .. logged + 1
           /\ queue \in Seq(Nat) /\ batch \in Seq(Nat)
           /\ batch \o queue \in Seq(Line)
           /\ Len(queue) \in Nat /\ Len(batch) \in Nat
           /\ Lines(queue) \subseteq Line /\ Lines(batch) \subseteq Line
<1>1. logged \in Nat /\ queue \in Seq(Line) /\ batch \in Seq(Line)
  BY TransportAssumption DEF Contents
<1>2. Line \subseteq Nat /\ Line \subseteq 1 .. logged + 1
  BY <1>1 DEF Line
<1>3. queue \in Seq(Nat) /\ batch \in Seq(Nat)
  BY <1>1, <1>2, SeqMonotonic
<1>4. batch \o queue \in Seq(Line)
  BY <1>1, ConcatProperties
<1>5. Lines(queue) \subseteq Line /\ Lines(batch) \subseteq Line
  BY <1>1, LenProperties DEF Lines
<1>6. QED
  BY <1>1, <1>2, <1>3, <1>4, <1>5, LenProperties

\* A sender takes a batch when nobody is sending.
LEMMA StartStep ==
    ASSUME PendingInv, sender = "nobody", NEW who \in {"drain", "flush"}, Takes(who, queue),
           UNCHANGED <<logged, stored, discarded>>
    PROVE  PendingInv'
<1>1. Contents /\ batch = <<>> /\ queue \in Seq(Line) /\ Line' = Line
  BY DEF PendingInv, Contents, Line
<1>2. /\ batch' \in Seq(Line) /\ queue' \in Seq(Line)
      /\ batch' # <<>> /\ sender' = who
      /\ batch' \o queue' = queue
      /\ Lines(batch') \cup Lines(queue') = Lines(queue)
      /\ Len(batch') <= MaxBatch /\ Len(queue') <= Len(queue)
  BY <1>1, TakesSplits
<1>3. Contents'
  BY <1>1, <1>2 DEF Contents
<1>4. batch \o queue = queue
  BY <1>1, ConcatEmptySeq
<1>5. Increasing(batch' \o queue')
  BY <1>2, <1>4 DEF PendingInv
<1>6. NothingVanishes'
  <2>1. Lines(batch) = {}
    BY <1>1 DEF Lines
  <2>2. QED
    BY <1>1, <1>2, <2>1 DEF PendingInv, NothingVanishes
<1>7. MemoryBounded'
  <2>1. Len(queue) \in Nat /\ Len(queue') \in Nat /\ MaxBuffer \in Nat
    BY <1>1, <1>2, LenProperties, TransportAssumption
  <2>2. QED
    BY <1>2, <2>1 DEF PendingInv, MemoryBounded
<1>8. QED
  BY <1>3, <1>5, <1>6, <1>7 DEF PendingInv

\* A batch has arrived or is dropped; the sender takes the next one or rests.
LEMMA SettleStep ==
    ASSUME PendingInv, NEW who \in {"drain", "flush"}, Settled,
           Takes(who, queue) \/ Rests(queue), UNCHANGED logged
    PROVE  PendingInv'
<1>1. Contents /\ queue \in Seq(Line) /\ batch \in Seq(Line) /\ Line' = Line
  BY DEF PendingInv, Contents, Line
<1>2. /\ batch' \in Seq(Line) /\ queue' \in Seq(Line)
      /\ sender' \in {"nobody", "drain", "flush"}
      /\ sender' = "nobody" <=> batch' = <<>>
      /\ batch' \o queue' = queue
      /\ Lines(batch') \cup Lines(queue') = Lines(queue)
      /\ Len(batch') <= MaxBatch /\ Len(queue') <= Len(queue)
  <2>1. CASE Takes(who, queue)
    BY <1>1, <2>1, TakesSplits
  <2>2. CASE Rests(queue)
    <3>1. batch' = <<>> /\ queue' = queue /\ sender' = "nobody"
      BY <2>2 DEF Rests
    <3>2. /\ <<>> \in Seq(Line) /\ Len(<<>>) = 0 /\ <<>> \o queue = queue
          /\ Lines(<<>>) = {} /\ Len(queue) \in Nat /\ MaxBatch \in Nat
      BY <1>1, EmptySeq, ConcatEmptySeq, LenProperties, TransportAssumption DEF Lines
    <3>3. QED
      BY <1>1, <3>1, <3>2
  <2>3. QED
    BY <2>1, <2>2
<1>3. /\ stored \subseteq stored' /\ discarded \subseteq discarded'
      /\ Lines(batch) \subseteq stored' \cup discarded'
      /\ stored' \subseteq stored \cup Lines(batch)
      /\ discarded' \subseteq discarded \cup Lines(batch)
  BY DEF Settled
<1>4. Contents'
  BY <1>1, <1>2, <1>3, LinesAreNumbers DEF Contents
<1>5. Increasing(batch' \o queue')
  <2>1. batch \in Seq(Nat) /\ queue \in Seq(Nat) /\ Increasing(batch \o queue)
    BY <1>1, LinesAreNumbers DEF PendingInv
  <2>2. Increasing(queue)
    <3>1. /\ Len(batch) \in Nat /\ Len(queue) \in Nat /\ DOMAIN queue = 1 .. Len(queue)
          /\ DOMAIN (batch \o queue) = 1 .. Len(batch) + Len(queue)
      BY <2>1, LenProperties, ConcatProperties
    <3>2. \A i \in 1 .. Len(batch) + Len(queue) :
             (batch \o queue)[i] = IF i <= Len(batch) THEN batch[i] ELSE queue[i - Len(batch)]
      BY <2>1, ConcatProperties
    <3>3. \A i \in 1 .. Len(queue) : /\ i + Len(batch) \in 1 .. Len(batch) + Len(queue)
                                     /\ queue[i] = (batch \o queue)[i + Len(batch)]
      BY <3>1, <3>2
    <3>4. \A i, j \in 1 .. Len(queue) : i < j => i + Len(batch) < j + Len(batch)
      BY <3>1
    <3>5. QED
      BY <2>1, <3>1, <3>3, <3>4 DEF Increasing
  <2>3. QED
    BY <1>2, <2>2
<1>6. NothingVanishes'
  BY <1>1, <1>2, <1>3 DEF PendingInv, NothingVanishes
<1>7. MemoryBounded'
  <2>1. Len(queue) \in Nat /\ Len(queue') \in Nat /\ MaxBuffer \in Nat
    BY <1>1, <1>2, LenProperties, TransportAssumption
  <2>2. QED
    BY <1>2, <2>1 DEF PendingInv, MemoryBounded
<1>8. QED
  BY <1>4, <1>5, <1>6, <1>7 DEF PendingInv

\* A failed batch goes back in front, and what does not fit is dropped.
LEMMA RequeueStep ==
    ASSUME PendingInv, Outage, Requeue, UNCHANGED logged
    PROVE  PendingInv'
<1>1. Contents /\ queue \in Seq(Line) /\ batch \in Seq(Line) /\ Line' = Line
  BY DEF PendingInv, Contents, Line
<1> DEFINE s == Requeued
<1>2. s = batch \o queue /\ s \in Seq(Line) /\ s \in Seq(Nat)
  <2>1. s = batch \o queue /\ s \in Seq(Line) /\ Line \subseteq Nat
    BY <1>1, LinesAreNumbers DEF Requeued
  <2>2. QED
    BY <2>1, SeqMonotonic
<1>3. Lines(s) = Lines(batch) \cup Lines(queue)
  BY <1>1, <1>2, LinesOfConcat
<1>4. /\ Trimmed(s) \in Seq(Line) /\ Len(Trimmed(s)) <= MaxBuffer
      /\ Excess(s) \cup Lines(Trimmed(s)) = Lines(s)
  BY <1>2, TrimmedSplits
<1>5. /\ batch' = <<>> /\ sender' = "nobody" /\ queue' = Trimmed(s)
      /\ discarded' = discarded \cup Excess(s)
  BY DEF Requeue, Rests
<1>6. stored \subseteq stored' /\ stored' \subseteq stored \cup Lines(batch)
  BY DEF Outage
<1> HIDE DEF s
<1>7. Contents'
  <2>1. Lines(batch) \subseteq Line /\ Lines(queue) \subseteq Line
    BY <1>1, LinesAreNumbers
  <2>2. batch' \in Seq(Line)
    BY <1>5, EmptySeq
  <2>3. QED
    BY <1>1, <1>3, <1>4, <1>5, <1>6, <2>1, <2>2 DEF Contents
<1>8. Increasing(batch' \o queue')
  <2>1. <<>> \o s = s /\ <<>> \in Seq(Nat) /\ <<>> \o Trimmed(s) = batch' \o queue'
    BY <1>2, <1>5, ConcatEmptySeq, EmptySeq
  <2>2. Increasing(s)
    BY <1>2 DEF PendingInv
  <2>3. Increasing(<<>> \o s)
    BY <2>1, <2>2
  <2>4. Increasing(<<>> \o Trimmed(s))
    BY <1>2, <2>1, <2>3, TrimmingKeepsOrder
  <2>5. QED
    BY <2>1, <2>4
<1>9. NothingVanishes'
  BY <1>1, <1>3, <1>4, <1>5, <1>6 DEF PendingInv, NothingVanishes
<1>10. MemoryBounded'
  <2>1. Len(batch') = 0 /\ MaxBatch \in Nat
    BY <1>5, EmptySeq, TransportAssumption
  <2>2. QED
    BY <1>4, <1>5, <2>1 DEF MemoryBounded
<1>11. QED
  BY <1>7, <1>8, <1>9, <1>10 DEF PendingInv

\* A line is logged: it goes last, perhaps a batch is taken at once.
LEMMA LogStep ==
    ASSUME PendingInv, Log
    PROVE  PendingInv'
<1>1. Contents /\ logged \in 0 .. MaxLines /\ queue \in Seq(Line) /\ batch \in Seq(Line)
  BY DEF PendingInv, Contents
<1> DEFINE line == logged + 1
           q == Append(queue, line)
<1>2. logged' = line /\ line \in 1 .. MaxLines /\ Line' = Line \cup {line} /\ line \in Nat
  <2>1. logged' = line /\ logged < MaxLines /\ logged \in Nat /\ MaxLines \in Nat
    BY <1>1, TransportAssumption DEF Log
  <2>2. QED
    BY <2>1 DEF Line
<1>3. /\ queue \in Seq(Line') /\ batch \in Seq(Line')
      /\ q \in Seq(Line') /\ q \in Seq(Nat) /\ Line' \subseteq Nat
      /\ Lines(q) = Lines(queue) \cup {line}
  <2>1. Line \subseteq Nat /\ queue \in Seq(Nat)
    BY <1>1, LinesAreNumbers
  <2>2. Line \subseteq Line' /\ line \in Line' /\ Line' \subseteq Nat
    BY <1>2, <2>1
  <2>3. queue \in Seq(Line') /\ batch \in Seq(Line')
    BY <1>1, <2>2, SeqMonotonic
  <2>4. QED
    BY <1>2, <2>1, <2>2, <2>3, AppendProperties, LinesOfAppend
<1> DEFINE kept == Trimmed(q)
<1>4. /\ kept \in Seq(Line') /\ kept \in Seq(Nat) /\ Len(kept) <= MaxBuffer
      /\ Excess(q) \cup Lines(kept) = Lines(q)
  BY <1>3, TrimmedSplits
<1>5. /\ stored' = stored /\ discarded' = discarded \cup Excess(q)
      /\ \/ sender = "nobody" /\ Takes("drain", kept)
         \/ queue' = kept /\ sender' = sender /\ batch' = batch
  BY DEF Log
<1>6. Increasing(batch \o kept)
  <2>1. /\ batch \in Seq(Nat) /\ queue \in Seq(Nat) /\ batch \o queue \in Seq(Line)
        /\ batch \o queue \in Seq(Nat) /\ Increasing(batch \o queue)
    BY <1>1, LinesAreNumbers, SeqMonotonic DEF PendingInv
  <2>2. \A i \in DOMAIN (batch \o queue) : (batch \o queue)[i] < line
    <3>1. \A i \in DOMAIN (batch \o queue) : (batch \o queue)[i] \in Line
      BY <2>1, LenProperties
    <3>2. \A n \in Line : n < line
      BY <1>1, LinesAreNumbers DEF Line
    <3>3. QED
      BY <3>1, <3>2
  <2>3. Increasing(Append(batch \o queue, line))
    BY <1>2, <2>1, <2>2, AppendingKeepsOrder
  <2>4. Append(batch \o queue, line) = batch \o q
    <3>1. <<line>> \in Seq(Nat)
      BY <1>2
    <3>2. /\ Append(batch \o queue, line) = (batch \o queue) \o <<line>>
          /\ q = queue \o <<line>>
      BY <1>2, <2>1, AppendIsConcat
    <3>3. (batch \o queue) \o <<line>> = batch \o (queue \o <<line>>)
      BY <2>1, <3>1, ConcatAssociative
    <3>4. QED
      BY <3>2, <3>3
  <2>5. QED
    BY <1>3, <2>1, <2>3, <2>4, TrimmingKeepsOrder
<1> HIDE DEF q, kept, line
<1>7. /\ queue' \in Seq(Line') /\ batch' \in Seq(Line')
      /\ sender' \in {"nobody", "drain", "flush"}
      /\ sender' = "nobody" <=> batch' = <<>>
      /\ batch' \o queue' = batch \o kept
      /\ Lines(batch) \cup Lines(kept) \subseteq Lines(batch') \cup Lines(queue')
      /\ Len(batch') <= MaxBatch /\ Len(queue') <= MaxBuffer
  <2>1. CASE queue' = kept /\ sender' = sender /\ batch' = batch
    BY <1>1, <1>3, <1>4, <2>1 DEF Contents, PendingInv, MemoryBounded
  <2>2. CASE sender = "nobody" /\ Takes("drain", kept)
    <3>1. /\ batch' \in Seq(Line') /\ queue' \in Seq(Line')
          /\ batch' # <<>> /\ sender' = "drain"
          /\ batch' \o queue' = kept
          /\ Lines(batch') \cup Lines(queue') = Lines(kept)
          /\ Len(batch') <= MaxBatch /\ Len(queue') <= Len(kept)
      BY <1>4, <2>2, TakesSplits
    <3>2. batch = <<>> /\ Lines(batch) = {} /\ batch \o kept = kept
      BY <1>1, <1>4, <2>2, ConcatEmptySeq DEF Contents, Lines
    <3>3. Len(queue') <= MaxBuffer
      BY <1>4, <3>1, LenProperties, TransportAssumption
    <3>4. QED
      BY <3>1, <3>2, <3>3
  <2>3. QED
    BY <1>5, <2>1, <2>2
<1>8. Contents'
  <2>1. Lines(queue) \subseteq Line
    BY <1>1, LinesAreNumbers
  <2>2. Excess(q) \subseteq Line' /\ stored \subseteq Line' /\ discarded \subseteq Line'
    BY <1>1, <1>2, <1>3, <1>4, <2>1 DEF Contents
  <2>3. stored' \subseteq Line' /\ discarded' \subseteq Line'
    BY <1>5, <2>2
  <2>4. logged' \in 0 .. MaxLines
    BY <1>2, TransportAssumption
  <2>5. QED
    BY <1>7, <2>3, <2>4 DEF Contents
<1>9. NothingVanishes'
  BY <1>2, <1>3, <1>4, <1>5, <1>7 DEF PendingInv, NothingVanishes
<1>10. QED
  BY <1>6, <1>7, <1>8, <1>9 DEF PendingInv, MemoryBounded

\* Nothing about the pending lines changes.
LEMMA QuietStep ==
    ASSUME PendingInv, UNCHANGED <<logged, queue, batch, sender, stored, discarded>>
    PROVE  PendingInv'
BY DEF PendingInv, Contents, Increasing, NothingVanishes, MemoryBounded, Line, Lines

\* One step of the logger, of a drain or of the shutdown.
LEMMA PendingStep ==
    ASSUME PendingInv, [Next]_vars
    PROVE  PendingInv'
<1>1. CASE Log
  BY <1>1, LogStep
<1>2. CASE Tick
  BY <1>2, StartStep DEF Tick
<1>3. CASE DrainGoesOn
  BY <1>3, SettleStep, RequeueStep DEF DrainGoesOn
<1>4. CASE FlushLoops
  BY <1>4, StartStep, QuietStep DEF FlushLoops
<1>5. CASE FlushGoesOn
  BY <1>5, SettleStep, RequeueStep DEF FlushGoesOn
<1>6. CASE BackoffEnds \/ Shutdown \/ FlushBegins \/ FlushFindsNothing \/ FlushRunsLate
             \/ Exit \/ UNCHANGED vars
  BY <1>6, QuietStep
     DEF BackoffEnds, Shutdown, FlushBegins, FlushFindsNothing, FlushRunsLate, Exit, vars
<1>7. QED
  BY <1>1, <1>2, <1>3, <1>4, <1>5, <1>6 DEF Next

\* The two parts of the invariant hold of every behaviour.
THEOREM Invariance == Spec => [](Control /\ PendingInv)
<1>1. Init => Control /\ PendingInv
  <2> SUFFICES ASSUME Init PROVE Control /\ PendingInv
    OBVIOUS
  <2>1. Control
    <3>1. 0 \in 0 .. MaxOutages
      BY TransportAssumption
    <3>2. QED
      BY <3>1, Zenon DEF Init, Control
  <2>2. logged = 0 /\ queue = <<>> /\ batch = <<>> /\ Line = {}
    BY DEF Init, Line
  <2>3. <<>> \in Seq(Line) /\ Len(<<>>) = 0 /\ <<>> \o <<>> = <<>> /\ MaxBuffer \in Nat
    BY EmptySeq, ConcatEmptySeq, TransportAssumption
  <2>4. Contents
    BY <2>2, <2>3, TransportAssumption DEF Init, Contents
  <2>5. Increasing(batch \o queue)
    BY <2>2, <2>3 DEF Increasing
  <2>6. NothingVanishes /\ MemoryBounded
    BY <2>2, <2>3, TransportAssumption DEF NothingVanishes, MemoryBounded
  <2>7. QED
    BY <2>1, <2>4, <2>5, <2>6 DEF PendingInv
<1>2. Control /\ PendingInv /\ [Next]_vars => (Control /\ PendingInv)'
  BY ControlStep, PendingStep
<1>3. QED
  BY <1>1, <1>2, PTL DEF Spec

\* Queue, batch, counters and states of the shutdown keep their types, and the sender's
\* lock is held exactly while a batch is on its way.
THEOREM TypeCorrect == Spec => []TypeOK
<1>1. Control /\ PendingInv => TypeOK
  BY DEF Control, PendingInv, Contents, TypeOK
<1>2. QED
  BY <1>1, Invariance, PTL

\* What waits behind the batch on its way was logged after it, in the order of the
\* calls, through any number of requeued batches (enqueue, requeue, takeBatch).
THEOREM OrderedLines == Spec => []LinesKeepTheirOrder
<1>1. PendingInv => LinesKeepTheirOrder
  BY DEF PendingInv, Increasing, LinesKeepTheirOrder
<1>2. QED
  BY <1>1, Invariance, PTL

\* Every line is waiting, on its way, stored, or was discarded by an overflow or a 4xx.
THEOREM CompleteLines == Spec => []NothingVanishes
<1>1. PendingInv => NothingVanishes
  BY DEF PendingInv
<1>2. QED
  BY <1>1, Invariance, PTL

\* No outage makes the transport keep more than MAX_BUFFER_ROWS and one batch.
THEOREM BoundedMemory == Spec => []MemoryBounded
<1>1. PendingInv => MemoryBounded
  BY DEF PendingInv
<1>2. QED
  BY <1>1, Invariance, PTL

-----------------------------------------------------------------------------
(* Refinement: every step is one of LossyQueue or leaves its state alone.  *)
(* What waits is the batch on its way and the queue behind it; an overflow *)
(* of the queue cuts a stretch out of it behind the batch, and a batch     *)
(* that is put back is cut in front.                                       *)

\* A stretch of a sequence that is put behind another one.
LEMMA CutBehind ==
    ASSUME NEW S, NEW s \in Seq(S), NEW t \in Seq(S), NEW k \in 0 .. Len(t)
    PROVE  LET w == s \o t
               a == Len(s)
           IN  /\ w \in Seq(S) /\ a \in Nat /\ Len(t) \in Nat /\ Len(w) = a + Len(t)
               /\ SubSeq(w, 1, a) = s
               /\ SubSeq(w, a + k + 1, Len(w)) = SubSeq(t, k + 1, Len(t))
               /\ Contract!Among(w, a + 1, a + k) = Lines(SubSeq(t, 1, k))
<1> DEFINE w == s \o t
           a == Len(s)
           n == Len(t)
<1>1. /\ a \in Nat /\ n \in Nat
      /\ \A i \in 1 .. a : s[i] \in S
      /\ \A i \in 1 .. n : t[i] \in S
  BY LenProperties
<1>2. /\ w \in Seq(S) /\ Len(w) = a + n
      /\ \A i \in 1 .. a + n : w[i] = IF i <= a THEN s[i] ELSE t[i - a]
  BY ConcatProperties
<1>3. \A i \in 1 .. a + n : w[i] \in S
  BY <1>2, LenProperties
<1>4. /\ SubSeq(t, 1, k) \in Seq(S) /\ SubSeq(t, k + 1, n) \in Seq(S)
      /\ Len(SubSeq(t, 1, k)) = k /\ Len(SubSeq(t, k + 1, n)) = n - k
      /\ \A i \in 1 .. k : SubSeq(t, 1, k)[i] = t[i]
      /\ \A i \in 1 .. n - k : SubSeq(t, k + 1, n)[i] = t[k + i]
  BY Cut
<1> HIDE DEF w, a, n
<1>5. k \in 0 .. n
  BY DEF n
<1>6. SubSeq(w, 1, a) = s
  <2>1. /\ SubSeq(w, 1, a) \in Seq(S)
        /\ Len(SubSeq(w, 1, a)) = a
        /\ \A i \in 1 .. a : SubSeq(w, 1, a)[i] = w[i]
    BY <1>1, <1>2, Cut
  <2>2. \A i \in 1 .. a : SubSeq(w, 1, a)[i] = s[i]
    BY <1>1, <1>2, <2>1
  <2>3. QED
    BY <2>1, <2>2, SeqEqual DEF a
<1>7. SubSeq(w, a + k + 1, a + n) = SubSeq(t, k + 1, n)
  <2> DEFINE m == a + k
  <2>1. m \in 0 .. Len(w) /\ Len(w) - m = n - k /\ m \in Nat
    BY <1>1, <1>2, <1>5
  <2>2. /\ SubSeq(w, m + 1, Len(w)) \in Seq(S)
        /\ Len(SubSeq(w, m + 1, Len(w))) = Len(w) - m
        /\ \A i \in 1 .. Len(w) - m : SubSeq(w, m + 1, Len(w))[i] = w[m + i]
    BY <1>2, <2>1, Cut
  <2>3. \A i \in 1 .. n - k : w[m + i] = t[k + i]
    BY <1>1, <1>2, <1>5
  <2>4. QED
    BY <1>2, <1>4, <2>1, <2>2, <2>3, SeqEqual
<1>8. Contract!Among(w, a + 1, a + k) = Lines(SubSeq(t, 1, k))
  <2>1. Lines(SubSeq(t, 1, k)) = {t[i] : i \in 1 .. k}
    BY <1>4, LenProperties DEF Lines
  <2>2. \A i \in a + 1 .. a + k : i - a \in 1 .. k /\ w[i] = t[i - a]
    BY <1>1, <1>2, <1>5
  <2>3. \A i \in 1 .. k : a + i \in a + 1 .. a + k /\ w[a + i] = t[i]
    BY <1>1, <1>2, <1>5
  <2>4. Contract!Among(w, a + 1, a + k) = {w[i] : i \in a + 1 .. a + k}
    BY DEF Contract!Among
  <2>5. ASSUME NEW x, x \in {w[i] : i \in a + 1 .. a + k} PROVE x \in {t[i] : i \in 1 .. k}
    BY <2>2, <2>5
  <2>6. ASSUME NEW x, x \in {t[i] : i \in 1 .. k} PROVE x \in {w[i] : i \in a + 1 .. a + k}
    BY <2>3, <2>6
  <2>7. QED
    BY <2>1, <2>4, <2>5, <2>6
<1>9. QED
  BY <1>1, <1>2, <1>6, <1>7, <1>8 DEF w, a, n

\* A stretch at its beginning.
LEMMA CutInFront ==
    ASSUME NEW S, NEW s \in Seq(S), NEW k \in 0 .. Len(s)
    PROVE  Contract!Among(s, 1, k) = Lines(SubSeq(s, 1, k))
<1> DEFINE left == SubSeq(s, 1, k)
<1>1. left \in Seq(S) /\ Len(left) = k /\ \A i \in 1 .. k : left[i] = s[i]
  BY Cut
<1> HIDE DEF left
<1>2. DOMAIN left = 1 .. k
  BY <1>1, LenProperties
<1>3. QED
  BY <1>1, <1>2 DEF Lines, Contract!Among, left

\* Trimming what waits behind a batch drops none of the MAX_BUFFER_ROWS lines logged last.
LEMMA TrimsBehind ==
    ASSUME NEW S, NEW s \in Seq(S), NEW t \in Seq(S),
           batch' \o queue' = s \o Trimmed(t), discarded' = discarded \cup Excess(t)
    PROVE  Contract!Trims(s \o t)
<1> DEFINE w == s \o t
           a == Len(s)
           k == Overflow(t)
<1>1. k \in 0 .. Len(t) /\ (k = 0 \/ k + MaxBuffer = Len(t))
  <2>1. Len(t) \in Nat /\ MaxBuffer \in Nat
    BY LenProperties, TransportAssumption
  <2>2. QED
    BY <2>1 DEF Overflow
<1> HIDE DEF k
<1>2. /\ w \in Seq(S) /\ a \in Nat /\ Len(t) \in Nat /\ Len(w) = a + Len(t)
      /\ SubSeq(w, 1, a) = s
      /\ SubSeq(w, a + k + 1, Len(w)) = SubSeq(t, k + 1, Len(t))
      /\ Contract!Among(w, a + 1, a + k) = Lines(SubSeq(t, 1, k))
  BY <1>1, CutBehind
<1> HIDE DEF w, a
<1> DEFINE j == a + k
<1>3. j \in 0 .. Len(w) /\ a \in 0 .. j
  BY <1>1, <1>2
<1>4. a = j \/ j + MaxBuffer <= Len(w)
  <2>1. MaxBuffer \in Nat
    BY TransportAssumption
  <2>2. QED
    BY <1>1, <1>2, <2>1
<1>5. batch' \o queue' = SubSeq(w, 1, a) \o SubSeq(w, j + 1, Len(w))
  BY <1>2 DEF Trimmed, w, k
<1>6. discarded' = discarded \cup Contract!Among(w, a + 1, j)
  BY <1>2 DEF Excess, k
<1> HIDE DEF j
<1>7. Contract!Trims(w)
  BY <1>3, <1>4, <1>5, <1>6 DEF Contract!Trims
<1>8. QED
  BY <1>7 DEF w

\* enqueue: the new line waits behind all others.
LEMMA LogImplementsAccept ==
    ASSUME PendingInv, Log
    PROVE  Contract!Accept
<1> DEFINE line == logged + 1
           q == Append(queue, line)
<1>1. logged \in Nat /\ queue \in Seq(Nat) /\ batch \in Seq(Nat) /\ line \in Nat
  BY LinesAreNumbers DEF PendingInv
<1>2. /\ q \in Seq(Nat) /\ Append(batch \o queue, line) = batch \o q
  <2>1. <<line>> \in Seq(Nat) /\ batch \o queue \in Seq(Nat)
    BY <1>1, ConcatProperties
  <2>2. /\ Append(batch \o queue, line) = (batch \o queue) \o <<line>>
        /\ q = queue \o <<line>>
    BY <1>1, <2>1, AppendIsConcat
  <2>3. (batch \o queue) \o <<line>> = batch \o (queue \o <<line>>)
    BY <1>1, <2>1, ConcatAssociative
  <2>4. QED
    BY <1>1, <2>2, <2>3, AppendProperties
<1>3. batch' \o queue' = batch \o Trimmed(q)
  <2>1. CASE queue' = Trimmed(q) /\ batch' = batch
    BY <2>1
  <2>2. CASE sender = "nobody" /\ Takes("drain", Trimmed(q))
    <3>1. Trimmed(q) \in Seq(Nat)
      BY <1>2, TrimmedSplits
    <3>2. batch' \o queue' = Trimmed(q)
      BY <2>2, <3>1, TakesSplits
    <3>3. batch = <<>> /\ <<>> \o Trimmed(q) = Trimmed(q)
      BY <2>2, <3>1, ConcatEmptySeq DEF PendingInv, Contents
    <3>4. QED
      BY <3>2, <3>3
  <2>3. QED
    BY <2>1, <2>2 DEF Log
<1>4. discarded' = discarded \cup Excess(q) /\ logged' = line /\ stored' = stored
  BY DEF Log
<1> HIDE DEF q
<1>5. Contract!Trims(batch \o q)
  BY <1>1, <1>2, <1>3, <1>4, TrimsBehind
<1>6. QED
  BY <1>2, <1>4, <1>5 DEF Contract!Accept

\* A sender takes a batch, when nobody is sending: the same lines wait.
LEMMA StartIsStutter ==
    ASSUME PendingInv, sender = "nobody", NEW who, Takes(who, queue),
           UNCHANGED <<logged, stored, discarded>>
    PROVE  UNCHANGED Contract!vars
<1>1. batch = <<>> /\ queue \in Seq(Line)
  BY DEF PendingInv, Contents
<1>2. batch' \o queue' = queue /\ <<>> \o queue = queue
  BY <1>1, TakesSplits, ConcatEmptySeq
<1>3. QED
  BY <1>1, <1>2 DEF Contract!vars

\* The batch on its way: the oldest lines, and not more than BATCH_ROWS.
LEMMA BatchIsFirst ==
    ASSUME PendingInv, sender # "nobody"
    PROVE  LET w == batch \o queue
               k == Len(batch)
           IN  /\ k \in 1 .. MaxBatch /\ k <= Len(w)
               /\ SubSeq(w, k + 1, Len(w)) = queue
               /\ Contract!First(k) = Lines(batch)
<1> DEFINE w == batch \o queue
           k == Len(batch)
<1>1. /\ batch \in Seq(Line) /\ queue \in Seq(Line) /\ batch # <<>>
      /\ k <= MaxBatch /\ MaxBatch \in Nat
  BY TransportAssumption DEF PendingInv, Contents, MemoryBounded
<1>2. k \in Nat \ {0} /\ Len(queue) \in Nat
  BY <1>1, EmptySeq, LenProperties
<1>3. 0 \in 0 .. Len(queue)
  BY <1>2
<1>4. /\ w \in Seq(Line) /\ Len(w) = k + Len(queue)
      /\ SubSeq(w, 1, k) = batch
      /\ SubSeq(w, k + 0 + 1, Len(w)) = SubSeq(queue, 0 + 1, Len(queue))
  BY <1>1, <1>3, CutBehind
<1>5. SubSeq(queue, 1, Len(queue)) = queue
  BY <1>1, SubSeqFull
<1>6. k \in 0 .. Len(w) /\ k + 0 + 1 = k + 1
  BY <1>2, <1>4
<1>7. Contract!Among(w, 1, k) = Lines(batch)
  BY <1>4, <1>6, CutInFront
<1>8. k \in 1 .. MaxBatch /\ k <= Len(w)
  BY <1>1, <1>2, <1>4
<1>9. QED
  BY <1>4, <1>5, <1>6, <1>7, <1>8 DEF Contract!First

\* A batch is settled, and the next one is taken or not.
LEMMA SettledImplements ==
    ASSUME PendingInv, sender # "nobody", NEW who, Settled,
           Takes(who, queue) \/ Rests(queue), UNCHANGED logged
    PROVE  Contract!Next
<1> DEFINE w == batch \o queue
           k == Len(batch)
<1>1. /\ k \in 1 .. MaxBatch /\ k <= Len(w)
      /\ SubSeq(w, k + 1, Len(w)) = queue
      /\ Contract!First(k) = Lines(batch)
  BY BatchIsFirst
<1>2. batch' \o queue' = queue
  <2>1. queue \in Seq(Line)
    BY DEF PendingInv, Contents
  <2>2. CASE Takes(who, queue)
    BY <2>1, <2>2, TakesSplits
  <2>3. CASE Rests(queue)
    BY <2>1, <2>3, ConcatEmptySeq DEF Rests
  <2>4. QED
    BY <2>2, <2>3
<1> HIDE DEF k
<1>3. Contract!Leave(k)
  BY <1>1, <1>2 DEF Contract!Leave
<1>4. Contract!Store(k) \/ Contract!Refuse(k)
  BY <1>1, <1>3 DEF Settled, Contract!Store, Contract!Refuse
<1>5. QED
  BY <1>1, <1>4 DEF Contract!Next

\* A batch that failed waits again, in front; it may be stored all the same.
LEMMA RequeueImplements ==
    ASSUME PendingInv, sender # "nobody", Outage, Requeue, UNCHANGED logged
    PROVE  Contract!Next
<1> DEFINE w == batch \o queue
           k == Len(batch)
<1>1. k \in 1 .. MaxBatch /\ k <= Len(w) /\ Contract!First(k) = Lines(batch)
  BY BatchIsFirst
<1>2. w \in Seq(Line) /\ <<>> \in Seq(Line) /\ <<>> \o w = w
  <2>1. w \in Seq(Line)
    BY LinesAreNumbers DEF PendingInv
  <2>2. QED
    BY <2>1, EmptySeq, ConcatEmptySeq
<1>3. batch' = <<>> /\ queue' = Trimmed(w) /\ discarded' = discarded \cup Excess(w)
  BY DEF Requeue, Rests, Requeued
<1> HIDE DEF w
<1>4. batch' \o queue' = <<>> \o Trimmed(w)
  BY <1>3
<1>5. Contract!Trims(<<>> \o w)
  BY <1>2, <1>3, <1>4, TrimsBehind
<1> HIDE DEF k
<1>6. stored' \in {stored, stored \cup Contract!First(k)}
  BY <1>1 DEF Outage
<1>7. Contract!Retry(k)
  BY <1>2, <1>5, <1>6 DEF Contract!Retry, w
<1>8. QED
  BY <1>1, <1>7 DEF Contract!Next, w

\* Logger, drain, flush and shutdown, however they interleave, promise what LossyQueue
\* says: lines leave oldest first, at least once, and go only when they must.
THEOREM Refinement == Spec => ImplementsLossyQueue
<1>1. Init => Contract!Init
  <2>1. <<>> \o <<>> = <<>>
    BY EmptySeq, ConcatEmptySeq
  <2>2. QED
    BY <2>1 DEF Init, Contract!Init
<1>2. Control /\ PendingInv /\ [Next]_vars => [Contract!Next]_Contract!vars
  <2> SUFFICES ASSUME PendingInv, [Next]_vars PROVE [Contract!Next]_Contract!vars
    OBVIOUS
  <2>1. CASE Log
    BY <2>1, LogImplementsAccept DEF Contract!Next
  <2>2. CASE Tick
    BY <2>2, StartIsStutter DEF Tick
  <2>3. CASE DrainGoesOn
    BY <2>3, SettledImplements, RequeueImplements DEF DrainGoesOn
  <2>4. CASE FlushLoops
    <3>1. CASE UNCHANGED <<logged, queue, batch, stored, discarded>>
      BY <3>1 DEF Contract!vars
    <3>2. QED
      BY <2>4, <3>1, StartIsStutter DEF FlushLoops
  <2>5. CASE FlushGoesOn
    BY <2>5, SettledImplements, RequeueImplements DEF FlushGoesOn
  <2>6. CASE BackoffEnds \/ Shutdown \/ FlushBegins \/ FlushFindsNothing \/ FlushRunsLate
               \/ Exit \/ UNCHANGED vars
    BY <2>6 DEF BackoffEnds, Shutdown, FlushBegins, FlushFindsNothing, FlushRunsLate, Exit,
                vars, Contract!vars
  <2>7. QED
    BY <2>1, <2>2, <2>3, <2>4, <2>5, <2>6 DEF Next
<1>3. QED
  BY <1>1, <1>2, Invariance, PTL DEF Spec, ImplementsLossyQueue, Contract!Spec

-----------------------------------------------------------------------------
(* Who may act for whom: the directory of managers.                        *)

\* A handler at work is one of the two kinds, which its phase tells apart.
LEMMA HandlerKinds ==
    ASSUME DirectoryTypeOK, NEW r \in Request
    PROVE  /\ req[r].phase \in {"token", "fetch", "match", "reassign", "invalidate", "sync",
                                "allowed"}
                => req[r] \in ListHandler
           /\ req[r].phase \in {"me", "read", "keep"} => req[r] \in VisitHandler
           /\ req[r].phase = "idle" => req[r] = Idle
BY DEF DirectoryTypeOK, Idle, ListHandler, VisitHandler

\* A new handler has the shape of its kind.
LEMMA NewHandlers ==
    ASSUME NEW m \in Manager, NEW op \in {"queue", "check"}, NEW e \in Employee \cup {None},
           NEW phase \in {"token", "fetch", "match", "reassign", "invalidate", "sync", "allowed"},
           NEW reports \in SUBSET Employee
    PROVE  Handler(m, op, e, phase, reports) \in ListHandler
BY DEF Handler, ListHandler

\* An idle slot is filled, or a handler ends: the handlers and what is noted of
\* them keep their types.
LEMMA BeginsType ==
    ASSUME DirectoryTypeOK, NEW r \in Request, NEW h \in ListHandler \cup VisitHandler,
           Begins(r, h)
    PROVE  DirectoryTypeOK'
BY DEF DirectoryTypeOK, Begins, copies, ReportsOf

LEMMA EndsType ==
    ASSUME DirectoryTypeOK, NEW r \in Request, Ends(r)
    PROVE  /\ req' \in [Request -> {Idle} \cup ListHandler \cup VisitHandler]
           /\ during' \in [Request -> SUBSET Employee]
BY DEF DirectoryTypeOK, Ends

\* A slot is given another handler of either kind.
LEMMA UpdateType ==
    ASSUME DirectoryTypeOK, NEW r \in Request, NEW h \in ListHandler \cup VisitHandler,
           req' = [req EXCEPT ![r] = h]
    PROVE  req' \in [Request -> {Idle} \cup ListHandler \cup VisitHandler]
BY DEF DirectoryTypeOK

LEMMA ContinuesType ==
    ASSUME DirectoryTypeOK, NEW r \in Request, NEW phase,
           \/ /\ req[r] \in ListHandler
              /\ phase \in {"token", "fetch", "match", "reassign", "invalidate", "sync", "allowed"}
           \/ req[r] \in VisitHandler /\ phase \in {"me", "read", "keep"},
           Continues(r, phase)
    PROVE  /\ req' \in [Request -> {Idle} \cup ListHandler \cup VisitHandler]
           /\ during' \in [Request -> SUBSET Employee]
<1>1. req' = [req EXCEPT ![r] = [req[r] EXCEPT !.phase = phase]] /\ during' = during
  BY DEF Continues
<1>2. [req[r] EXCEPT !.phase = phase] \in ListHandler \cup VisitHandler
  <2>1. CASE req[r] \in VisitHandler /\ phase \in {"me", "read", "keep"}
    BY <2>1 DEF VisitHandler
  <2>2. CASE /\ req[r] \in ListHandler
             /\ phase \in {"token", "fetch", "match", "reassign", "invalidate", "sync", "allowed"}
    BY <2>2 DEF ListHandler
  <2>3. QED
    BY <2>1, <2>2
<1>3. QED
  BY <1>1, <1>2, UpdateType DEF DirectoryTypeOK

LEMMA ThenSyncType ==
    ASSUME DirectoryTypeOK, NEW r \in Request, req[r] \in ListHandler, ThenSync(r)
    PROVE  /\ req' \in [Request -> {Idle} \cup ListHandler \cup VisitHandler]
           /\ during' \in [Request -> SUBSET Employee]
<1>1. [Handler(req[r].who, "queue", None, "sync", {}) EXCEPT !.unread = req[r].reports]
         \in ListHandler
  BY DEF Handler, ListHandler
<1>2. QED
  BY <1>1 DEF DirectoryTypeOK, ThenSync

-----------------------------------------------------------------------------
(* Types. *)

\* A request begins.
LEMMA StartSteps ==
    ASSUME DirectoryTypeOK, NEW r \in Request,
           \/ \E m \in Manager : StartQueue(r, m) \/ \E e \in Employee : StartCheck(r, m, e)
           \/ \E e \in Employee : StartVisit(r, e)
    PROVE  DirectoryTypeOK'
<1>1. ASSUME NEW m \in Manager, StartQueue(r, m) PROVE DirectoryTypeOK'
  <2>1. /\ Handler(m, "queue", None, "token", {}) \in ListHandler
        /\ Handler(m, "queue", None, "match", cache[m].list) \in ListHandler
    BY NewHandlers DEF DirectoryTypeOK
  <2>2. QED
    BY <1>1, <2>1, BeginsType DEF StartQueue
<1>2. ASSUME NEW m \in Manager, NEW e \in Employee, StartCheck(r, m, e) PROVE DirectoryTypeOK'
  <2>1. Handler(m, "check", e, "token", {}) \in ListHandler
    BY NewHandlers
  <2>2. QED
    BY <1>2, <2>1, BeginsType DEF StartCheck
<1>3. ASSUME NEW e \in Employee, StartVisit(r, e) PROVE DirectoryTypeOK'
  <2>1. /\ Visitor(e, "me", {}) \in VisitHandler
        /\ Visitor(e, "keep", profile[e]) \in VisitHandler
    BY DEF Visitor, VisitHandler, DirectoryTypeOK
  <2>2. QED
    BY <1>3, <2>1, BeginsType DEF StartVisit
<1>4. QED
  BY <1>1, <1>2, <1>3

\* A list is fetched, or the fetch is given up.
LEMMA FetchSteps ==
    ASSUME DirectoryTypeOK, NEW r \in Request,
           \/ \E e \in Employee : ReadPage(r, e)
           \/ GetToken(r) \/ FetchDone(r) \/ FallBack(r) \/ FailClosed(r) \/ Act(r)
    PROVE  DirectoryTypeOK'
<1>1. ASSUME NEW e \in Employee, ReadPage(r, e) PROVE DirectoryTypeOK'
  <2>1. req[r] \in ListHandler
    BY <1>1, HandlerKinds DEF ReadPage, At
  <2> DEFINE page == [req[r] EXCEPT !.unread = @ \ {e},
                                    !.reports = IF graph[e] = req[r].who THEN @ \cup {e} ELSE @]
  <2>2. page \in ListHandler
    BY <2>1 DEF ListHandler
  <2>3. req' = [req EXCEPT ![r] = page]
    BY <1>1 DEF ReadPage
  <2>4. req' \in [Request -> {Idle} \cup ListHandler \cup VisitHandler]
    BY <2>2, <2>3, UpdateType
  <2>5. QED
    BY <1>1, <2>4 DEF ReadPage, DirectoryTypeOK, copies
<1>2. CASE GetToken(r)
  <2>1. req[r] \in ListHandler
    BY <1>2, HandlerKinds DEF GetToken, At
  <2>2. [req[r] EXCEPT !.phase = "fetch"] \in ListHandler
    BY <2>1 DEF ListHandler
  <2>3. req' = [req EXCEPT ![r] = [req[r] EXCEPT !.phase = "fetch"]]
    BY <1>2 DEF GetToken
  <2>4. req' \in [Request -> {Idle} \cup ListHandler \cup VisitHandler]
    BY <2>2, <2>3, UpdateType
  <2>5. QED
    BY <1>2, <2>4 DEF GetToken, DirectoryTypeOK, copies
<1>3. CASE FetchDone(r)
  <2>1. req[r] \in ListHandler
    BY <1>3, HandlerKinds DEF FetchDone, At
  <2>2. /\ req' \in [Request -> {Idle} \cup ListHandler \cup VisitHandler]
        /\ during' \in [Request -> SUBSET Employee]
    BY <1>3, <2>1, EndsType, ContinuesType DEF FetchDone
  <2>3. cache' \in [Manager -> [held : BOOLEAN, list : SUBSET Employee]]
    <3>1. /\ Entry(req[r].reports) \in [held : BOOLEAN, list : SUBSET Employee]
          /\ req[r].who \in Manager
      BY <2>1 DEF ListHandler, Entry
    <3>2. \/ cache' = [cache EXCEPT ![req[r].who] = Entry(req[r].reports)]
          \/ cache' = cache
      BY <1>3 DEF FetchDone
    <3>3. QED
      BY <3>1, <3>2 DEF DirectoryTypeOK
  <2>4. QED
    BY <1>3, <2>2, <2>3 DEF FetchDone, DirectoryTypeOK
<1>4. CASE FallBack(r) \/ FailClosed(r) \/ Act(r)
  BY <1>4, EndsType DEF FallBack, FailClosed, Act, DirectoryTypeOK, copies
<1>5. QED
  BY <1>1, <1>2, <1>3, <1>4

\* The rows are reconciled with a list.
LEMMA ReconcileSteps ==
    ASSUME DirectoryTypeOK, NEW r \in Request,
           \/ Match(r) \/ Reassign(r) \/ Invalidate(r)
           \/ \E e \in Employee : Sync(r, e)
    PROVE  DirectoryTypeOK'
<1>1. CASE Match(r)
  <2>1. req[r] \in ListHandler
    BY <1>1, HandlerKinds DEF Match, At
  <2>2. [req[r] EXCEPT !.phase = "reassign", !.seen = column] \in ListHandler
    BY <2>1 DEF ListHandler, DirectoryTypeOK
  <2>3. req' = [req EXCEPT ![r] = [req[r] EXCEPT !.phase = "reassign", !.seen = column]]
    BY <1>1 DEF Match
  <2>4. req' \in [Request -> {Idle} \cup ListHandler \cup VisitHandler]
    BY <2>2, <2>3, UpdateType
  <2>5. QED
    BY <1>1, <2>4 DEF Match, DirectoryTypeOK, copies
<1>2. CASE Reassign(r)
  <2>1. req[r] \in ListHandler
    BY <1>2, HandlerKinds DEF Reassign, At
  <2>2. /\ req' \in [Request -> {Idle} \cup ListHandler \cup VisitHandler]
        /\ during' \in [Request -> SUBSET Employee]
    BY <1>2, <2>1, EndsType, ContinuesType, ThenSyncType DEF Reassign
  <2>3. column' \in [Employee -> Manager \cup {None}]
    BY <1>2, <2>1 DEF Reassign, Reassigned, DirectoryTypeOK, ListHandler
  <2>4. QED
    BY <1>2, <2>2, <2>3 DEF Reassign, DirectoryTypeOK
<1>3. CASE Invalidate(r)
  <2>1. req[r] \in ListHandler
    BY <1>3, HandlerKinds DEF Invalidate, At
  <2>2. /\ req' \in [Request -> {Idle} \cup ListHandler \cup VisitHandler]
        /\ during' \in [Request -> SUBSET Employee]
    BY <1>3, <2>1, EndsType, ThenSyncType DEF Invalidate
  <2>3. /\ cache' \in [Manager -> [held : BOOLEAN, list : SUBSET Employee]]
        /\ profile' \in [Employee -> SUBSET (Manager \cup {None})]
    BY <1>3 DEF Invalidate, DirectoryTypeOK, Absent
  <2>4. QED
    BY <1>3, <2>2, <2>3 DEF Invalidate, DirectoryTypeOK
<1>4. ASSUME NEW e \in Employee, Sync(r, e) PROVE DirectoryTypeOK'
  <2>1. req[r] \in ListHandler
    BY <1>4, HandlerKinds DEF Sync, At
  <2>2. attrs' \in [Employee -> Manager \cup {None}]
    BY <1>4, <2>1 DEF Sync, DirectoryTypeOK, ListHandler
  <2>3. /\ req' \in [Request -> {Idle} \cup ListHandler \cup VisitHandler]
        /\ during' \in [Request -> SUBSET Employee]
    <3>1. CASE req[r].unread = {e}
      BY <1>4, <3>1, EndsType DEF Sync
    <3>2. CASE req[r].unread # {e}
      <4>1. [req[r] EXCEPT !.unread = @ \ {e}] \in ListHandler
        BY <2>1 DEF ListHandler
      <4>2. /\ req' = [req EXCEPT ![r] = [req[r] EXCEPT !.unread = @ \ {e}]]
            /\ during' = during
        BY <1>4, <3>2 DEF Sync
      <4>3. QED
        BY <4>1, <4>2, UpdateType DEF DirectoryTypeOK
    <3>3. QED
      BY <3>1, <3>2
  <2>4. QED
    BY <1>4, <2>2, <2>3 DEF Sync, DirectoryTypeOK
<1>5. QED
  BY <1>1, <1>2, <1>3, <1>4

\* A visit goes on.
LEMMA VisitSteps ==
    ASSUME DirectoryTypeOK, NEW r \in Request,
           ReadMe(r) \/ MeArrives(r) \/ MeFails(r) \/ Keep(r)
    PROVE  DirectoryTypeOK'
<1>1. CASE ReadMe(r)
  <2>1. req[r] \in VisitHandler
    BY <1>1, HandlerKinds DEF ReadMe, At
  <2>2. graph[req[r].who] \in Manager \cup {None}
    BY <2>1 DEF VisitHandler, DirectoryTypeOK
  <2>3. [req[r] EXCEPT !.phase = "read", !.says = {graph[req[r].who]}] \in VisitHandler
    BY <2>1, <2>2 DEF VisitHandler
  <2>4. req' = [req EXCEPT ![r] = [req[r] EXCEPT !.phase = "read",
                                                 !.says = {graph[req[r].who]}]]
    BY <1>1 DEF ReadMe
  <2>5. QED
    BY <1>1, <2>3, <2>4 DEF ReadMe, DirectoryTypeOK, copies
<1>2. CASE MeArrives(r)
  <2>1. req[r] \in VisitHandler
    BY <1>2, HandlerKinds DEF MeArrives, At
  <2>2. /\ req' \in [Request -> {Idle} \cup ListHandler \cup VisitHandler]
        /\ during' \in [Request -> SUBSET Employee]
    BY <1>2, <2>1, EndsType, ContinuesType DEF MeArrives
  <2>3. profile' \in [Employee -> SUBSET (Manager \cup {None})]
    BY <1>2, <2>1 DEF MeArrives, DirectoryTypeOK, VisitHandler
  <2>4. QED
    BY <1>2, <2>2, <2>3 DEF MeArrives, DirectoryTypeOK
<1>3. CASE MeFails(r)
  BY <1>3, EndsType DEF MeFails, DirectoryTypeOK, copies
<1>4. CASE Keep(r)
  <2>1. req[r] \in VisitHandler
    BY <1>4, HandlerKinds DEF Keep, At
  <2>2. attrs' \in [Employee -> Manager \cup {None}]
    BY <1>4, <2>1 DEF Keep, DirectoryTypeOK, VisitHandler
  <2>3. QED
    BY <1>4, <2>2, EndsType DEF Keep, DirectoryTypeOK
<1>5. QED
  BY <1>1, <1>2, <1>3, <1>4

\* What happens outside.
LEMMA OutsideSteps ==
    ASSUME DirectoryTypeOK,
           \/ \E e \in Employee, m \in Manager \cup {None} : Move(e, m)
           \/ \E m \in Manager : Expire(m)
           \/ \E e \in Employee : ExpireProfile(e)
    PROVE  DirectoryTypeOK'
<1>1. ASSUME NEW e \in Employee, NEW m \in Manager \cup {None}, Move(e, m) PROVE DirectoryTypeOK'
  <2>1. graph' \in [Employee -> Manager \cup {None}]
    BY <1>1 DEF Move, DirectoryTypeOK
  <2>2. during' \in [Request -> SUBSET Employee]
    BY <1>1 DEF Move, DirectoryTypeOK
  <2>3. moves' \in 0 .. MaxMoves
    BY <1>1, DirectoryAssumption DEF Move, DirectoryTypeOK
  <2>4. QED
    BY <1>1, <2>1, <2>2, <2>3 DEF Move, DirectoryTypeOK, copies
<1>2. ASSUME NEW m \in Manager, Expire(m) PROVE DirectoryTypeOK'
  BY <1>2 DEF Expire, DirectoryTypeOK, Absent
<1>3. ASSUME NEW e \in Employee, ExpireProfile(e) PROVE DirectoryTypeOK'
  BY <1>3 DEF ExpireProfile, DirectoryTypeOK
<1>4. QED
  BY <1>1, <1>2, <1>3

\* The state always has the types of its tables, caches and handlers.
THEOREM DirectoryTypes == DirectorySpec => []DirectoryTypeOK
<1>1. DirectoryInit => DirectoryTypeOK
  BY DirectoryAssumption DEF DirectoryInit, DirectoryTypeOK, Absent
<1>2. DirectoryTypeOK /\ [DirectoryNext]_directoryVars => DirectoryTypeOK'
  <2> SUFFICES ASSUME DirectoryTypeOK, [DirectoryNext]_directoryVars
               PROVE  DirectoryTypeOK'
    OBVIOUS
  <2>1. CASE UNCHANGED directoryVars
    BY <2>1 DEF directoryVars, DirectoryTypeOK
  <2>2. CASE DirectoryNext
    BY <2>2, StartSteps, FetchSteps, ReconcileSteps, VisitSteps, OutsideSteps DEF DirectoryNext
  <2>3. QED
    BY <2>1, <2>2
<1>3. QED
  BY <1>1, <1>2, PTL DEF DirectorySpec

-----------------------------------------------------------------------------
(***************************************************************************)
(* Decisions.  A check is let through on a list of its own making.  The    *)
(* invariant says what that list is worth at every page: all of it, and    *)
(* everybody who reports to the manager now, did so at some moment of the  *)
(* check.  Cached lists do not occur in it.                                *)
(***************************************************************************)

LiveCheck(r) ==
    /\ ReportsOf(req[r].who) \subseteq during[r]
    /\ req[r].reports \subseteq during[r]
    /\ At(r, "allowed") => req[r].target \in req[r].reports

LiveInv ==
    \A r \in Request : /\ IsCheck(req[r]) => LiveCheck(r)
                       /\ At(r, "allowed") => IsCheck(req[r])

\* Steps of one handler leave the others alone, and the directory as it is: it is
\* enough to look at that handler.
LEMMA OneHandler ==
    ASSUME DirectoryTypeOK, LiveInv, NEW r \in Request, graph' = graph,
           \A q \in Request \ {r} : req'[q] = req[q] /\ during'[q] = during[q],
           IsCheck(req'[r]) => LiveCheck(r)',
           At(r, "allowed")' => IsCheck(req'[r])
    PROVE  LiveInv'
BY DEF LiveInv, LiveCheck, ReportsOf, At

\* Of a handler that has ended, or is neither a check nor allowed, nothing is req.
LEMMA NotACheck ==
    ASSUME DirectoryTypeOK, LiveInv, NEW r \in Request, graph' = graph,
           \A q \in Request \ {r} : req'[q] = req[q] /\ during'[q] = during[q],
           ~IsCheck(req'[r]), ~At(r, "allowed")'
    PROVE  LiveInv'
BY OneHandler

LEMMA EndsLive ==
    ASSUME DirectoryTypeOK, LiveInv, NEW r \in Request, graph' = graph, Ends(r)
    PROVE  LiveInv'
BY NotACheck DEF Ends, DirectoryTypeOK, IsCheck, At, Idle

LEMMA BeginsLive ==
    ASSUME DirectoryTypeOK, LiveInv, NEW r \in Request, NEW h \in ListHandler \cup VisitHandler,
           Begins(r, h), h.op = "check" => h.reports = {}, h.phase # "allowed"
    PROVE  LiveInv'
<1>1. /\ graph' = graph
      /\ \A q \in Request \ {r} : req'[q] = req[q] /\ during'[q] = during[q]
      /\ req'[r] = h
      /\ during'[r] = IF IsCheck(h) THEN ReportsOf(h.who) ELSE {}
  BY DEF Begins, DirectoryTypeOK
<1>2. IsCheck(h) => LiveCheck(r)'
  BY <1>1 DEF IsCheck, LiveCheck, ReportsOf, At
<1>3. QED
  BY <1>1, <1>2, OneHandler DEF At

\* A handler that goes on with the same list, and is not let through by this step.
LEMMA GoesOnLive ==
    ASSUME DirectoryTypeOK, LiveInv, NEW r \in Request, graph' = graph, during' = during,
           req[r] \in ListHandler \cup VisitHandler,
           NEW h \in ListHandler \cup VisitHandler,
           req' = [req EXCEPT ![r] = h], h.op = req[r].op, h.who = req[r].who,
           h.op = "check" => h.reports = req[r].reports, h.phase # "allowed"
    PROVE  LiveInv'
<1>1. /\ \A q \in Request \ {r} : req'[q] = req[q] /\ during'[q] = during[q]
      /\ req'[r] = h
  BY DEF DirectoryTypeOK
<1>2. IsCheck(h) => IsCheck(req[r])
  BY DEF IsCheck, Idle, ListHandler, VisitHandler
<1>3. IsCheck(req'[r]) => LiveCheck(r)'
  BY <1>1, <1>2 DEF LiveInv, LiveCheck, ReportsOf, At, IsCheck
<1>4. QED
  BY <1>1, <1>3, OneHandler DEF At

LEMMA ContinuesLive ==
    ASSUME DirectoryTypeOK, LiveInv, NEW r \in Request, graph' = graph, NEW phase,
           \/ req[r] \in ListHandler /\ phase \in {"match", "reassign", "invalidate"}
           \/ req[r] \in VisitHandler /\ phase \in {"me", "read", "keep"},
           Continues(r, phase)
    PROVE  LiveInv'
<1> DEFINE h == [req[r] EXCEPT !.phase = phase]
<1>1. /\ h \in ListHandler \cup VisitHandler
      /\ h.op = req[r].op /\ h.who = req[r].who /\ h.phase # "allowed"
      /\ h.op = "check" => h.reports = req[r].reports
  BY DEF ListHandler, VisitHandler
<1>2. req' = [req EXCEPT ![r] = h] /\ during' = during
  BY DEF Continues
<1> HIDE DEF h
<1>3. QED
  BY <1>1, <1>2, GoesOnLive

LEMMA ThenSyncLive ==
    ASSUME DirectoryTypeOK, LiveInv, NEW r \in Request, graph' = graph, req[r] \in ListHandler,
           ThenSync(r)
    PROVE  LiveInv'
<1>1. /\ \A q \in Request \ {r} : req'[q] = req[q] /\ during'[q] = during[q]
      /\ req'[r].op = "queue" /\ req'[r].phase = "sync"
  BY DEF ThenSync, Handler, DirectoryTypeOK
<1>2. QED
  BY <1>1, NotACheck DEF IsCheck, At

\* Begins and ends aside, only the pages of a list and its completion concern a check.
LEMMA LivePreserved ==
    ASSUME DirectoryTypeOK, LiveInv, [DirectoryNext]_directoryVars
    PROVE  LiveInv'
<1>1. ASSUME NEW e \in Employee, NEW m \in Manager \cup {None}, Move(e, m) PROVE LiveInv'
  <2>1. ASSUME NEW r \in Request, IsCheck(req'[r]) PROVE LiveCheck(r)'
    <3>1. /\ req' = req
          /\ graph' = [graph EXCEPT ![e] = m]
          /\ during'[r] = IF req[r].who = m THEN during[r] \cup {e} ELSE during[r]
      BY <1>1, <2>1 DEF Move, DirectoryTypeOK
    <3>2. LiveCheck(r)
      BY <2>1, <3>1 DEF LiveInv
    <3>3. ReportsOf(req[r].who)' \subseteq during'[r]
      BY <3>1, <3>2 DEF LiveCheck, ReportsOf, DirectoryTypeOK
    <3>4. QED
      BY <3>1, <3>2, <3>3 DEF LiveCheck, At, ReportsOf
  <2>2. QED
    BY <1>1, <2>1 DEF LiveInv, Move, At
<1>2. ASSUME NEW m \in Manager, Expire(m) PROVE LiveInv'
  BY <1>2 DEF Expire, LiveInv, LiveCheck, ReportsOf, At
<1>3. ASSUME NEW e \in Employee, ExpireProfile(e) PROVE LiveInv'
  BY <1>3 DEF ExpireProfile, LiveInv, LiveCheck, ReportsOf, At
<1>4. ASSUME NEW r \in Request, NEW m \in Manager, StartQueue(r, m) PROVE LiveInv'
  <2>1. /\ Handler(m, "queue", None, "token", {}) \in ListHandler
        /\ Handler(m, "queue", None, "match", cache[m].list) \in ListHandler
    BY NewHandlers DEF DirectoryTypeOK
  <2>2. QED
    BY <1>4, <2>1, BeginsLive DEF StartQueue, Handler
<1>5. ASSUME NEW r \in Request, NEW m \in Manager, NEW e \in Employee, StartCheck(r, m, e)
      PROVE  LiveInv'
  <2>1. Handler(m, "check", e, "token", {}) \in ListHandler
    BY NewHandlers
  <2>2. QED
    BY <1>5, <2>1, BeginsLive DEF StartCheck, Handler
<1>6. ASSUME NEW r \in Request, NEW e \in Employee, StartVisit(r, e) PROVE LiveInv'
  <2>1. /\ Visitor(e, "me", {}) \in VisitHandler
        /\ Visitor(e, "keep", profile[e]) \in VisitHandler
    BY DEF Visitor, VisitHandler, DirectoryTypeOK
  <2>2. QED
    BY <1>6, <2>1, BeginsLive DEF StartVisit, Visitor
<1>7. ASSUME NEW r \in Request, NEW e \in Employee, ReadPage(r, e) PROVE LiveInv'
  <2>1. req[r] \in ListHandler
    BY <1>7, HandlerKinds DEF ReadPage, At
  <2>2. /\ graph' = graph /\ during' = during
        /\ \A q \in Request \ {r} : req'[q] = req[q]
        /\ req'[r].phase = "fetch" /\ req'[r].op = req[r].op /\ req'[r].who = req[r].who
        /\ req'[r].reports = IF graph[e] = req[r].who THEN req[r].reports \cup {e}
                           ELSE req[r].reports
    BY <1>7, <2>1 DEF ReadPage, At, DirectoryTypeOK, ListHandler, copies
  <2>3. ASSUME IsCheck(req'[r]) PROVE LiveCheck(r)'
    <3>1. LiveCheck(r)
      <4>1. req[r].op = "check"
        BY <2>2, <2>3 DEF IsCheck
      <4>2. req[r] # Idle
        BY <1>7 DEF ReadPage, At, Idle
      <4>3. QED
        BY <4>1, <4>2 DEF LiveInv, IsCheck
    <3>2. graph[e] = req[r].who => e \in during[r]
      BY <3>1 DEF LiveCheck, ReportsOf
    <3>3. ReportsOf(req[r].who)' = ReportsOf(req[r].who)
      BY <2>2 DEF ReportsOf
    <3>4. /\ ReportsOf(req[r].who) \subseteq during'[r]
          /\ req'[r].reports \subseteq during'[r]
      BY <2>2, <3>1, <3>2 DEF LiveCheck
    <3>5. QED
      BY <2>2, <3>3, <3>4 DEF LiveCheck, At, ReportsOf
  <2>4. QED
    BY <2>2, <2>3, OneHandler DEF At
<1>8. ASSUME NEW r \in Request, GetToken(r) PROVE LiveInv'
  <2> DEFINE h == [req[r] EXCEPT !.phase = "fetch"]
  <2>1. req[r] \in ListHandler
    BY <1>8, HandlerKinds DEF GetToken, At
  <2>2. /\ h \in ListHandler /\ h.phase = "fetch"
        /\ h.op = req[r].op /\ h.who = req[r].who /\ h.reports = req[r].reports
    BY <2>1 DEF ListHandler
  <2>3. req' = [req EXCEPT ![r] = h] /\ during' = during /\ graph' = graph
    BY <1>8 DEF GetToken
  <2> HIDE DEF h
  <2>4. QED
    BY <2>1, <2>2, <2>3, GoesOnLive
<1>9. ASSUME NEW r \in Request, FetchDone(r) PROVE LiveInv'
  <2>1. req[r] \in ListHandler /\ graph' = graph
    BY <1>9, HandlerKinds DEF FetchDone, At
  <2>2. CASE Ends(r)
    BY <2>1, <2>2, EndsLive
  <2>3. CASE req[r].op = "queue" /\ Continues(r, "match")
    BY <2>1, <2>3, NotACheck DEF Continues, DirectoryTypeOK, ListHandler, IsCheck, At
  <2>4. CASE /\ req[r].op = "check" /\ req[r].target \in req[r].reports
             /\ Continues(r, "allowed")
    <3>1. /\ during' = during
          /\ \A q \in Request \ {r} : req'[q] = req[q]
          /\ req'[r].op = "check" /\ req'[r].who = req[r].who /\ req'[r].phase = "allowed"
          /\ req'[r].reports = req[r].reports /\ req'[r].target = req[r].target
      BY <2>1, <2>4 DEF Continues, DirectoryTypeOK, ListHandler
    <3>2. LiveCheck(r)' /\ IsCheck(req'[r])
      BY <2>1, <2>4, <3>1
         DEF LiveInv, IsCheck, LiveCheck, ReportsOf, At, Idle, ListHandler
    <3>3. QED
      BY <2>1, <3>1, <3>2, OneHandler
  <2>5. QED
    BY <1>9, <2>2, <2>3, <2>4 DEF FetchDone
<1>10. ASSUME NEW r \in Request,
              \/ FallBack(r) \/ FailClosed(r) \/ Act(r) \/ MeFails(r) \/ Keep(r)
       PROVE  LiveInv'
  BY <1>10, EndsLive DEF FallBack, FailClosed, Act, MeFails, Keep
<1>11. ASSUME NEW r \in Request, Match(r) PROVE LiveInv'
  <2> DEFINE h == [req[r] EXCEPT !.phase = "reassign", !.seen = column]
  <2>1. req[r] \in ListHandler
    BY <1>11, HandlerKinds DEF Match, At
  <2>2. /\ h \in ListHandler /\ h.phase = "reassign"
        /\ h.op = req[r].op /\ h.who = req[r].who /\ h.reports = req[r].reports
    BY <2>1 DEF ListHandler, DirectoryTypeOK
  <2>3. req' = [req EXCEPT ![r] = h] /\ during' = during /\ graph' = graph
    BY <1>11 DEF Match
  <2> HIDE DEF h
  <2>4. QED
    BY <2>1, <2>2, <2>3, GoesOnLive
<1>12. ASSUME NEW r \in Request, Reassign(r) \/ Invalidate(r) PROVE LiveInv'
  <2>1. req[r] \in ListHandler /\ graph' = graph
    BY <1>12, HandlerKinds DEF Reassign, Invalidate, At
  <2>2. Ends(r) \/ Continues(r, "invalidate") \/ ThenSync(r)
    BY <1>12 DEF Reassign, Invalidate
  <2>3. QED
    BY <2>1, <2>2, EndsLive, ContinuesLive, ThenSyncLive
<1>13. ASSUME NEW r \in Request, NEW e \in Employee, Sync(r, e) PROVE LiveInv'
  <2> DEFINE h == [req[r] EXCEPT !.unread = @ \ {e}]
  <2>1. req[r] \in ListHandler /\ req[r].phase = "sync" /\ graph' = graph
    BY <1>13, HandlerKinds DEF Sync, At
  <2>2. CASE Ends(r)
    BY <2>1, <2>2, EndsLive
  <2>3. CASE req' = [req EXCEPT ![r] = h] /\ during' = during
    <3>1. /\ h \in ListHandler /\ h.phase = "sync"
          /\ h.op = req[r].op /\ h.who = req[r].who /\ h.reports = req[r].reports
      BY <2>1 DEF ListHandler
    <3> HIDE DEF h
    <3>2. QED
      BY <2>1, <2>3, <3>1, GoesOnLive
  <2>4. QED
    BY <1>13, <2>2, <2>3 DEF Sync
<1>14. ASSUME NEW r \in Request, ReadMe(r) PROVE LiveInv'
  <2> DEFINE h == [req[r] EXCEPT !.phase = "read", !.says = {graph[req[r].who]}]
  <2>1. req[r] \in VisitHandler
    BY <1>14, HandlerKinds DEF ReadMe, At
  <2>2. graph[req[r].who] \in Manager \cup {None}
    BY <2>1 DEF VisitHandler, DirectoryTypeOK
  <2>3. /\ h \in VisitHandler /\ h.phase = "read"
        /\ h.op = "visit" /\ req[r].op = "visit" /\ h.who = req[r].who
    BY <2>1, <2>2 DEF VisitHandler
  <2>4. req' = [req EXCEPT ![r] = h] /\ during' = during /\ graph' = graph
    BY <1>14 DEF ReadMe
  <2> HIDE DEF h
  <2>5. QED
    BY <2>1, <2>3, <2>4, GoesOnLive
<1>15. ASSUME NEW r \in Request, MeArrives(r) PROVE LiveInv'
  <2>1. req[r] \in VisitHandler /\ graph' = graph
    BY <1>15, HandlerKinds DEF MeArrives, At
  <2>2. Continues(r, "keep") \/ Ends(r)
    BY <1>15 DEF MeArrives
  <2>3. QED
    BY <2>1, <2>2, EndsLive, ContinuesLive
<1>16. CASE UNCHANGED directoryVars
  BY <1>16 DEF directoryVars, LiveInv, LiveCheck, ReportsOf, At
<1>17. QED
  BY <1>1, <1>2, <1>3, <1>4, <1>5, <1>6, <1>7, <1>8, <1>9, <1>10, <1>11, <1>12, <1>13,
     <1>14, <1>15, <1>16 DEF DirectoryNext

\* A decision, or a look at somebody's expense, is only let through for whoever was the
\* manager at some moment of this request, however large the organization.
THEOREM LiveDecisions == DirectorySpec => []DecisionsAreLive
<1>1. DirectoryInit => LiveInv
  BY DEF DirectoryInit, LiveInv, IsCheck, At, Idle
<1>2. DirectoryTypeOK /\ LiveInv /\ [DirectoryNext]_directoryVars => LiveInv'
  BY LivePreserved
<1>3. LiveInv => DecisionsAreLive
  BY DEF LiveInv, LiveCheck, DecisionsAreLive
<1>4. QED
  BY <1>1, <1>2, <1>3, DirectoryTypes, PTL DEF DirectorySpec
=============================================================================

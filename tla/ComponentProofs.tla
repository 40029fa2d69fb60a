-------------------------- MODULE ComponentProofs --------------------------
(***************************************************************************)
(* Theorems about parts that stand by themselves, for every size of the    *)
(* rings and any number of entries, restarts, tasks and ids: the ring of   *)
(* messages is a bounded first-in first-out queue (MessageQueue), the      *)
(* audit log and the trace keep the newest entries and the keyboard buffer *)
(* every key that found room (Rings), the terminal shows the line that is  *)
(* executed (LineEditor), the watchdog recovers its service (Watchdog) and *)
(* a restore keeps tasks and capability ids consistent (Checkpoint).       *)
(***************************************************************************)
EXTENDS MessageQueue, Rings, LineEditor, Watchdog, Checkpoint, TLAPS

-----------------------------------------------------------------------------
(* Sequences *)

\* Two sequences are the same when they have the same entries.
LEMMA ListsEqual ==
    ASSUME NEW S, NEW s \in Seq(S), NEW t \in Seq(S), Len(s) = Len(t),
           \A i \in 1 .. Len(s) : s[i] = t[i]
    PROVE  s = t
OBVIOUS

\* What Append, Tail, SubSeq and \o have at each position.
LEMMA AppendList ==
    ASSUME NEW S, NEW s \in Seq(S), NEW e \in S
    PROVE  /\ Append(s, e) \in Seq(S) /\ Len(Append(s, e)) = Len(s) + 1
           /\ \A i \in 1 .. Len(s) : Append(s, e)[i] = s[i]
           /\ Append(s, e)[Len(s) + 1] = e
OBVIOUS

\* The same of Tail.
LEMMA TailList ==
    ASSUME NEW S, NEW s \in Seq(S), s # << >>
    PROVE  /\ Tail(s) \in Seq(S) /\ Len(Tail(s)) = Len(s) - 1
           /\ \A i \in 1 .. Len(s) - 1 : Tail(s)[i] = s[i + 1]
OBVIOUS

\* The same of SubSeq.
LEMMA SubList ==
    ASSUME NEW S, NEW s \in Seq(S), NEW a \in 1 .. Len(s) + 1, NEW b \in a - 1 .. Len(s)
    PROVE  /\ SubSeq(s, a, b) \in Seq(S) /\ Len(SubSeq(s, a, b)) = b - a + 1
           /\ \A i \in 1 .. b - a + 1 : SubSeq(s, a, b)[i] = s[a + i - 1]
OBVIOUS

\* What is known of \o.
Joins(S, s, t) ==
    /\ s \o t \in Seq(S) /\ Len(s \o t) = Len(s) + Len(t)
    /\ \A i \in 1 .. Len(s) : (s \o t)[i] = s[i]
    /\ \A i \in 1 .. Len(t) : (s \o t)[Len(s) + i] = t[i]

\* Two sequences joined are both, one after the other.
LEMMA JoinedList ==
    ASSUME NEW S, NEW s \in Seq(S), NEW t \in Seq(S)
    PROVE  Joins(S, s, t)
  BY DEF Joins

-----------------------------------------------------------------------------
(* The ring of messages *)

\* The n-th cell from cell h on, without the remainder.
At(h, n) ==
    IF h + n - 1 < MSG_QUEUE_CAPACITY THEN h + n - 1 ELSE h + n - 1 - MSG_QUEUE_CAPACITY

\* An index below two turns of the ring, reduced by % MSG_QUEUE_CAPACITY.
LEMMA Wrap ==
    ASSUME NEW i \in 0 .. (2 * MSG_QUEUE_CAPACITY - 1)
    PROVE  i % MSG_QUEUE_CAPACITY =
               IF i < MSG_QUEUE_CAPACITY THEN i ELSE i - MSG_QUEUE_CAPACITY
BY QueueConstants

\* The index computations of the ring agree with At.
LEMMA WrapAt ==
    ASSUME NEW h \in Cells, NEW n \in 1 .. MSG_QUEUE_CAPACITY
    PROVE  (h + n - 1) % MSG_QUEUE_CAPACITY = At(h, n) /\ At(h, n) \in Cells
<1> DEFINE i == h + n - 1
<1>1. i \in 0 .. (2 * MSG_QUEUE_CAPACITY - 1)
  BY QueueConstants DEF Cells
<1>2. At(h, n) = IF i < MSG_QUEUE_CAPACITY THEN i ELSE i - MSG_QUEUE_CAPACITY
  BY QueueConstants DEF At, Cells
<1> HIDE DEF i
<1>3. i % MSG_QUEUE_CAPACITY = IF i < MSG_QUEUE_CAPACITY THEN i ELSE i - MSG_QUEUE_CAPACITY
  BY <1>1, Wrap, Zenon
<1>4. At(h, n) \in Cells
  BY <1>1, <1>2, QueueConstants DEF Cells
<1> QED
  BY <1>2, <1>3, <1>4, Zenon DEF i

\* The cell after h, where head and tail move to.
LEMMA NextCell ==
    ASSUME NEW h \in Cells
    PROVE  (h + 1) % MSG_QUEUE_CAPACITY = IF h = MSG_QUEUE_CAPACITY - 1 THEN 0 ELSE h + 1
BY QueueConstants DEF Cells

\* A new ring is empty and in range.
LEMMA InitInv == Init => RingInv
BY QueueConstants DEF Init, RingInv, TypeOK, Cells, DequeueFindsMessage

Values == Messages \cup {NoMessage}

\* The contents of a ring in range are a sequence of count values, read with At.
LEMMA ContentsAt ==
    ASSUME TypeOK
    PROVE  /\ Contents \in Seq(Values) /\ Len(Contents) = count
           /\ \A n \in 1 .. count : Contents[n] = buffer[At(head, n)]
           /\ DequeueFindsMessage <=> \A n \in 1 .. count : buffer[At(head, n)] # NoMessage
<1>1. \A n \in 1 .. count : CellOf(n) = At(head, n) /\ At(head, n) \in Cells
  BY WrapAt, QueueConstants DEF TypeOK, CellOf
<1>2. count \in Nat /\ \A n \in 1 .. count : buffer[At(head, n)] \in Values
  BY <1>1, QueueConstants DEF TypeOK, Values
<1>3. Contents = [n \in 1 .. count |-> buffer[At(head, n)]]
  BY <1>1, Zenon DEF Contents
<1> QED
  BY <1>1, <1>2, <1>3 DEF DequeueFindsMessage

\* The same after a step.
LEMMA ContentsAtNext ==
    ASSUME TypeOK'
    PROVE  /\ Contents' \in Seq(Values) /\ Len(Contents') = count'
           /\ \A n \in 1 .. count' : Contents'[n] = buffer'[At(head', n)]
           /\ DequeueFindsMessage' <=> \A n \in 1 .. count' : buffer'[At(head', n)] # NoMessage
<1>1. \A n \in 1 .. count' :
          (head' + n - 1) % MSG_QUEUE_CAPACITY = At(head', n) /\ At(head', n) \in Cells
  BY WrapAt, QueueConstants DEF TypeOK
<1>2. count' \in Nat /\ \A n \in 1 .. count' : buffer'[At(head', n)] \in Values
  BY <1>1, QueueConstants DEF TypeOK, Values
<1>3. Contents' = [n \in 1 .. count' |-> buffer'[At(head', n)]]
  BY <1>1, Zenon DEF Contents, CellOf
<1>4. DequeueFindsMessage' <=>
          \A n \in 1 .. count' : buffer'[(head' + n - 1) % MSG_QUEUE_CAPACITY] # NoMessage
  BY Zenon DEF DequeueFindsMessage, CellOf
<1>5. Contents' \in Seq(Values) /\ Len(Contents') = count'
  BY <1>2, <1>3
<1> QED
  BY <1>1, <1>3, <1>4, <1>5, ZenonT(60)

\* enqueue adds at the end and moves no other message.
LEMMA EnqueueStep ==
    ASSUME RingInv, NEW m \in Messages, Enqueue(m)
    PROVE  RingInv' /\ Contents' = Append(Contents, m) /\ Len(Contents) < MSG_QUEUE_CAPACITY
<1> DEFINE N == MSG_QUEUE_CAPACITY
<1>a. /\ N \in Nat \ {0} /\ head \in 0 .. (N - 1) /\ tail \in 0 .. (N - 1) /\ count \in 0 .. (N - 1)
      /\ buffer \in [Cells -> Messages \cup {NoMessage}] /\ tail \in Cells
      /\ tail = IF head + count < N THEN head + count ELSE head + count - N
  BY QueueConstants DEF RingInv, TypeOK, Cells, Enqueue, IsFull
<1>b. /\ buffer' = [buffer EXCEPT ![tail] = m] /\ tail' = (tail + 1) % N
      /\ head' = head /\ count' = count + 1 /\ out' = NoMessage
  BY Zenon DEF Enqueue
<1>1. tail' = IF tail = N - 1 THEN 0 ELSE tail + 1
  BY <1>a, <1>b, NextCell, Zenon
<1>2. TypeOK'
  <2>1. ok' \in BOOLEAN
    BY ZenonT(60) DEF Enqueue
  <2>2. buffer' \in [Cells -> Messages \cup {NoMessage}]
    BY <1>a, <1>b, Zenon
  <2>3. count' \in 0 .. N /\ tail' \in Cells /\ head' \in Cells
    BY <1>a, <1>b, <1>1 DEF Cells
  <2> QED
    BY <1>b, <2>1, <2>2, <2>3, Zenon DEF TypeOK
<1>3. \A n \in 1 .. count : At(head, n) # tail /\ At(head, n) \in Cells
  BY <1>a DEF At, Cells
<1>4. At(head, count + 1) = tail
  BY <1>a DEF At
<1>5. \A n \in 1 .. count' : buffer'[At(head', n)] = IF n = count + 1 THEN m ELSE buffer[At(head, n)]
  BY <1>a, <1>b, <1>3, <1>4
<1>6. \A n \in 1 .. count' : n = count + 1 \/ n \in 1 .. count
  BY <1>a, <1>b
<1>7. DequeueFindsMessage'
  BY <1>2, <1>5, <1>6, ContentsAt, ContentsAtNext, QueueConstants, Zenon DEF RingInv
<1>8. Contents' = Append(Contents, m) /\ Len(Contents) = count
  <2>1. /\ Contents \in Seq(Values) /\ Len(Contents) = count /\ m \in Values
        /\ \A n \in 1 .. count : Contents[n] = buffer[At(head, n)]
    BY ContentsAt, Zenon DEF RingInv, Values
  <2>2. /\ Append(Contents, m) \in Seq(Values) /\ Len(Append(Contents, m)) = count + 1
        /\ \A n \in 1 .. count : Append(Contents, m)[n] = Contents[n]
        /\ Append(Contents, m)[count + 1] = m
    BY <2>1, AppendList
  <2>3. /\ Contents' \in Seq(Values) /\ Len(Contents') = count + 1
        /\ \A n \in 1 .. (count + 1) : Contents'[n] = IF n = count + 1 THEN m ELSE buffer[At(head, n)]
    BY <1>b, <1>2, <1>5, ContentsAtNext
  <2>4. \A n \in 1 .. (count + 1) : Contents'[n] = Append(Contents, m)[n]
    BY <1>b, <1>6, <2>1, <2>2, <2>3, ZenonT(30)
  <2> QED
    BY <2>1, <2>2, <2>3, <2>4, ListsEqual, Zenon
<1>9. tail' = IF head' + count' < N THEN head' + count' ELSE head' + count' - N
  BY <1>a, <1>b, <1>1
<1> QED
  BY <1>a, <1>2, <1>7, <1>8, <1>9 DEF RingInv

\* dequeue returns the oldest message and moves no other.
LEMMA DequeueStep ==
    ASSUME RingInv, Dequeue
    PROVE  RingInv' /\ Contents # << >> /\ out' = Head(Contents) /\ Contents' = Tail(Contents)
<1> DEFINE N == MSG_QUEUE_CAPACITY
<1>a. /\ N \in Nat \ {0} /\ head \in 0 .. (N - 1) /\ count \in 1 .. N
      /\ buffer \in [Cells -> Messages \cup {NoMessage}] /\ tail \in Cells /\ head \in Cells
      /\ tail = IF head + count < N THEN head + count ELSE head + count - N
  BY QueueConstants DEF RingInv, TypeOK, Cells, Dequeue, IsEmpty
<1>b. /\ buffer' = [buffer EXCEPT ![head] = NoMessage] /\ head' = (head + 1) % N
      /\ tail' = tail /\ count' = count - 1 /\ out' = buffer[head]
  BY Zenon DEF Dequeue
<1>1. head' = IF head = N - 1 THEN 0 ELSE head + 1
  BY <1>a, <1>b, NextCell, Zenon
<1>2. TypeOK'
  <2>1. ok' \in BOOLEAN
    BY ZenonT(60) DEF Dequeue
  <2>2. buffer' \in [Cells -> Messages \cup {NoMessage}] /\ out' \in Messages \cup {NoMessage}
    BY <1>a, <1>b, Zenon
  <2>3. count' \in 0 .. N /\ tail' \in Cells /\ head' \in Cells
    BY <1>a, <1>b, <1>1 DEF Cells
  <2> QED
    BY <2>1, <2>2, <2>3, Zenon DEF TypeOK
<1>3. \A n \in 1 .. count' :
          /\ n + 1 \in 1 .. count
          /\ At(head', n) = At(head, n + 1) /\ At(head', n) # head /\ At(head', n) \in Cells
  BY <1>a, <1>b, <1>1, SMTT(30) DEF At, Cells
<1>4. \A n \in 1 .. count' : buffer'[At(head', n)] = buffer[At(head, n + 1)]
  BY <1>a, <1>b, <1>3, Zenon
<1>5. At(head, 1) = head
  BY <1>a DEF At
<1>6. /\ Contents \in Seq(Values) /\ Len(Contents) = count
      /\ \A n \in 1 .. count : Contents[n] = buffer[At(head, n)]
      /\ \A n \in 1 .. count : buffer[At(head, n)] # NoMessage
  BY ContentsAt, Zenon DEF RingInv
<1>7. DequeueFindsMessage'
  BY <1>2, <1>3, <1>4, <1>6, ContentsAtNext
<1>8. Contents # << >> /\ out' = Head(Contents)
  BY <1>a, <1>b, <1>5, <1>6
<1>9. Contents' = Tail(Contents)
  <2>1. /\ Tail(Contents) \in Seq(Values) /\ Len(Tail(Contents)) = count - 1
        /\ \A n \in 1 .. (count - 1) : Tail(Contents)[n] = Contents[n + 1]
    BY <1>6, <1>8, TailList, Zenon
  <2>2. /\ Contents' \in Seq(Values) /\ Len(Contents') = count - 1
        /\ \A n \in 1 .. (count - 1) : Contents'[n] = buffer[At(head, n + 1)]
    BY <1>b, <1>2, <1>4, ContentsAtNext, Zenon
  <2>3. \A n \in 1 .. (count - 1) : Contents'[n] = Tail(Contents)[n]
    BY <1>b, <1>3, <1>6, <2>1, <2>2, ZenonT(30)
  <2> QED
    BY <2>1, <2>2, <2>3, ListsEqual, Zenon
<1>10. tail' = IF head' + count' < N THEN head' + count' ELSE head' + count' - N
  BY <1>a, <1>b, <1>1
<1> QED
  BY <1>2, <1>7, <1>8, <1>9, <1>10, Zenon DEF RingInv

\* A refused call leaves the ring alone.
LEMMA RefusedStep ==
    ASSUME RingInv, EnqueueRefused \/ DequeueRefused \/ UNCHANGED vars
    PROVE  RingInv' /\ Contents' = Contents
<1>1. UNCHANGED <<buffer, head, tail, count>>
  BY Zenon DEF EnqueueRefused, DequeueRefused, vars
<1>2. ok' \in BOOLEAN /\ out' \in Messages \cup {NoMessage}
  BY ZenonT(60) DEF EnqueueRefused, DequeueRefused, vars, RingInv, TypeOK
<1> QED
  BY <1>1, <1>2, Zenon DEF RingInv, TypeOK, DequeueFindsMessage, Contents, CellOf

-----------------------------------------------------------------------------
(* The theorems *)

\* The ring stays in range and its occupied cells contiguous.
THEOREM Invariance == Spec => []RingInv
<1>1. RingInv /\ [Next]_vars => RingInv'
  BY EnqueueStep, DequeueStep, RefusedStep, Zenon DEF Next
<1> QED
  BY <1>1, InitInv, PTL DEF Spec

\* Type correctness of the ring.
THEOREM TypeCorrect == Spec => []TypeOK
BY Invariance, PTL DEF RingInv

\* dequeue never takes an empty cell from a ring that is not empty.
THEOREM HeadIsOccupied == Spec => []DequeueFindsMessage
BY Invariance, PTL DEF RingInv

\* The ring implements the bounded first-in first-out queue.
THEOREM RingIsFifo == Spec => Implements
<1>1. Init => Fifo!Init
  BY DEF Init, Fifo!Init, Contents
<1>2. ASSUME RingInv, [Next]_vars
      PROVE  [Fifo!Next]_(Fifo!vars)
  <2>a. Len(Contents) = count /\ count \in Nat /\ Contents \in Seq(Values)
    BY <1>2, ContentsAt, QueueConstants DEF RingInv, TypeOK
  <2>1. ASSUME NEW m \in Messages, Enqueue(m) PROVE Fifo!Enqueue(m)
    BY <1>2, <2>1, EnqueueStep, ZenonT(60) DEF Fifo!Enqueue, Enqueue
  <2>2. CASE EnqueueRefused
    <3>1. 1 \in 1 .. count /\ Len(Contents) = MSG_QUEUE_CAPACITY
      BY <2>2, <2>a, QueueConstants DEF EnqueueRefused, IsFull
    <3>2. PICK m \in Messages : TRUE
      <4>1. buffer[CellOf(1)] # NoMessage
        BY <1>2, <3>1, Zenon DEF RingInv, DequeueFindsMessage
      <4>2. buffer[CellOf(1)] \in Messages \cup {NoMessage}
        BY <1>2, <3>1, WrapAt, QueueConstants DEF RingInv, TypeOK, CellOf
      <4> QED
        BY <4>1, <4>2, Zenon
    <3>3. Fifo!Enqueue(m)
      BY <1>2, <2>2, <3>1, RefusedStep, ZenonT(60) DEF Fifo!Enqueue, EnqueueRefused
    <3> QED
      BY <3>2, <3>3, Zenon DEF Fifo!Next
  <2>3. CASE Dequeue
    BY <1>2, <2>3, DequeueStep, Zenon DEF Fifo!Dequeue, Fifo!Next, Dequeue
  <2>4. CASE DequeueRefused
    <3>1. Contents = << >>
      BY <2>4, <2>a DEF DequeueRefused, IsEmpty
    <3> QED
      BY <1>2, <2>4, <3>1, RefusedStep, ZenonT(60) DEF Fifo!Dequeue, Fifo!Next, DequeueRefused
  <2>5. CASE UNCHANGED vars
    BY <1>2, <2>5, RefusedStep, Zenon DEF vars, Fifo!vars
  <2> QED
    BY <1>2, <2>1, <2>2, <2>3, <2>4, <2>5, Zenon DEF Next, Fifo!Next
<1> QED
  BY <1>1, <1>2, Invariance, PTL DEF Spec, Implements, Fifo!Spec

-----------------------------------------------------------------------------
(* Rings that overwrite the oldest entry *)

\* The cell j before the next one to be written.
Behind(size, next, j) == IF j <= next THEN next - j ELSE next - j + size

\* The ring holds the newest of all entries, and is filled from its first cell.
KeepsNewest(buffer_, size, next, all) ==
    /\ next \in 0 .. size - 1
    /\ Len(all) < size => next = Len(all)
    /\ Len(all) = size => next = 0
    /\ \A j \in 1 .. size : j <= Len(all) =>
          buffer_[Behind(size, next, j)] = all[Len(all) + 1 - j]

\* Where the next entry goes after one more.
After(size, next) == IF next = size - 1 THEN 0 ELSE next + 1

\* So it does after one more entry.
LEMMA NewestStep ==
    ASSUME NEW V, NEW size \in Nat \ {0}, NEW b \in [0 .. size - 1 -> V], NEW next,
           NEW all \in Seq(V), NEW e \in V, KeepsNewest(b, size, next, all)
    PROVE  KeepsNewest([b EXCEPT ![next] = e], size, After(size, next), Append(all, e))
<1>1. /\ Append(all, e) \in Seq(V) /\ Len(Append(all, e)) = Len(all) + 1 /\ Len(all) \in Nat
      /\ \A i \in 1 .. Len(all) : Append(all, e)[i] = all[i]
      /\ Append(all, e)[Len(all) + 1] = e
  BY AppendList
<1>2. PICK n \in Nat : n = Len(all)
  BY <1>1, Zenon
<1>3. /\ next \in 0 .. size - 1 /\ (n < size => next = n) /\ (n = size => next = 0)
      /\ \A j \in 1 .. size : j <= n => b[Behind(size, next, j)] = all[n + 1 - j]
  BY <1>2, Zenon DEF KeepsNewest
<1>4. /\ After(size, next) \in 0 .. size - 1
      /\ n + 1 < size => After(size, next) = n + 1
      /\ n + 1 = size => After(size, next) = 0
  BY <1>3 DEF After
<1>5. ASSUME NEW j \in 1 .. size, j <= n + 1
      PROVE  [b EXCEPT ![next] = e][Behind(size, After(size, next), j)] = Append(all, e)[n + 2 - j]
  <2>1. CASE j = 1
    <3>1. Behind(size, After(size, next), 1) = next
      BY <1>3 DEF Behind, After
    <3> QED
      BY <1>1, <1>2, <1>3, <2>1, <3>1
  <2>2. CASE j # 1
    <3>1. /\ j - 1 \in 1 .. size /\ j - 1 <= n /\ n + 1 - (j - 1) \in 1 .. n
          /\ n + 1 - (j - 1) = n + 2 - j
      BY <1>5, <2>2
    <3>2. /\ Behind(size, After(size, next), j) = Behind(size, next, j - 1)
          /\ Behind(size, next, j - 1) # next /\ Behind(size, next, j - 1) \in 0 .. size - 1
      BY <1>3, <1>5, <2>2 DEF Behind, After
    <3>3. b[Behind(size, next, j - 1)] = all[n + 2 - j]
      BY <1>3, <3>1, Zenon
    <3>4. Append(all, e)[n + 2 - j] = all[n + 2 - j]
      BY <1>1, <1>2, <3>1, Zenon
    <3> QED
      BY <3>2, <3>3, <3>4, Zenon
  <2> QED
    BY <2>1, <2>2, Zenon
<1>6. Len(Append(all, e)) + 1 = n + 2
  BY <1>1, <1>2
<1>7. \A j \in 1 .. size : j <= Len(Append(all, e)) =>
          [b EXCEPT ![next] = e][Behind(size, After(size, next), j)]
              = Append(all, e)[Len(Append(all, e)) + 1 - j]
  BY <1>1, <1>2, <1>5, <1>6
<1> QED
  BY <1>1, <1>2, <1>4, <1>7, Zenon DEF KeepsNewest

\* The newest entries of a sequence over V are its last n.
LastOnes(V, all, size, n) ==
    /\ Newest(all, size) \in Seq(V) /\ Len(Newest(all, size)) = n
    /\ \A i \in 1 .. n : Newest(all, size)[i] = all[Len(all) - n + i]

\* Newest keeps the last ones, as many as there are or as there is room for.
LEMMA NewestAt ==
    ASSUME NEW V, NEW size \in Nat, NEW all \in Seq(V), NEW n \in Nat,
           n <= Len(all), n <= size, n = Len(all) \/ n = size
    PROVE  LastOnes(V, all, size, n)
<1>1. PICK l \in Nat : l = Len(all)
  OBVIOUS
<1>2. n \in Nat /\ n <= l /\ n <= size /\ (l > size => n = size) /\ (l <= size => n = l)
  BY <1>1
<1>3. Newest(all, size) = SubSeq(all, l - n + 1, l)
  <2>1. (IF l > size THEN l - size + 1 ELSE 1) = l - n + 1
    BY <1>2
  <2> QED
    BY <1>1, <2>1, Zenon DEF Newest
<1>4. l - n + 1 \in 1 .. Len(all) + 1 /\ l \in (l - n + 1) - 1 .. Len(all)
  BY <1>1, <1>2
<1>5. /\ SubSeq(all, l - n + 1, l) \in Seq(V)
      /\ Len(SubSeq(all, l - n + 1, l)) = l - (l - n + 1) + 1
      /\ \A i \in 1 .. l - (l - n + 1) + 1 :
            SubSeq(all, l - n + 1, l)[i] = all[(l - n + 1) + i - 1]
  BY <1>4, SubList, ZenonT(30)
<1>6. l - (l - n + 1) + 1 = n /\ \A i \in 1 .. n : (l - n + 1) + i - 1 = l - n + i
  BY <1>2
<1> QED
  BY <1>1, <1>3, <1>5, <1>6, ZenonT(30) DEF LastOnes

\* Read from its oldest entry on, it is the newest entries in order.
LEMMA NewestRead ==
    ASSUME NEW V, NEW size \in Nat \ {0}, NEW b, NEW next, NEW all \in Seq(V),
           KeepsNewest(b, size, next, all), NEW from, NEW n,
           Len(all) > size => from = next, Len(all) <= size => from = 0,
           Len(all) < size => n = Len(all), Len(all) >= size => n = size
    PROVE  /\ FromIndex(b, size, from, n) = Newest(all, size)
           /\ Len(FromIndex(b, size, from, n)) = n
<1>1. PICK l \in Nat : l = Len(all)
  OBVIOUS
<1>2. /\ next \in 0 .. size - 1 /\ (l < size => next = l) /\ (l = size => next = 0)
      /\ \A j \in 1 .. size : j <= l => b[Behind(size, next, j)] = all[l + 1 - j]
  BY <1>1, Zenon DEF KeepsNewest
<1>3. /\ n \in Nat /\ n <= l /\ n <= size /\ from \in 0 .. size - 1
      /\ l > size => from = next /\ n = size
      /\ l = size => from = 0 /\ n = size
      /\ l < size => from = 0 /\ n = l
  BY <1>1, <1>2
<1>4. ASSUME NEW i \in 1 .. n
      PROVE  b[(from + i - 1) % size] = all[l - n + i]
  <2>1. PICK k \in 0 .. 2 * size - 1 : k = from + i - 1
    BY <1>3
  <2>2. k % size = IF k < size THEN k ELSE k - size
    BY <2>1, SMTT(30)
  <2>3. n + 1 - i \in 1 .. size /\ n + 1 - i <= l /\ l + 1 - (n + 1 - i) = l - n + i
    BY <1>3
  <2>4. (IF k < size THEN k ELSE k - size) = Behind(size, next, n + 1 - i)
    <3>1. i \in Int /\ n \in Int /\ 1 <= i /\ i <= n /\ k \in Int /\ next \in Int
      BY <1>2, <1>3, <2>1
    <3> QED
      BY <1>2, <1>3, <2>1, <3>1 DEF Behind
  <2> QED
    BY <1>2, <2>1, <2>2, <2>3, <2>4, Zenon
<1>5. /\ Newest(all, size) \in Seq(V) /\ Len(Newest(all, size)) = n
      /\ \A i \in 1 .. n : Newest(all, size)[i] = all[l - n + i]
  <2>1. /\ Newest(all, size) \in Seq(V) /\ Len(Newest(all, size)) = n
        /\ \A i \in 1 .. n : Newest(all, size)[i] = all[Len(all) - n + i]
    <3>1. /\ n \in Nat /\ n <= Len(all) /\ n <= size /\ (n = Len(all) \/ n = size)
          /\ size \in Nat /\ all \in Seq(V)
      BY <1>1, <1>3
    <3>2. LastOnes(V, all, size, n)
      BY <3>1, NewestAt, ZenonT(30)
    <3> QED
      BY <3>2, Zenon DEF LastOnes
  <2> QED
    BY <1>1, <2>1, Zenon
<1>6. /\ FromIndex(b, size, from, n) \in Seq(V) /\ Len(FromIndex(b, size, from, n)) = n
      /\ \A i \in 1 .. n : FromIndex(b, size, from, n)[i] = all[l - n + i]
  <2>1. \A i \in 1 .. n : all[l - n + i] \in V
    <3>1. \A i \in 1 .. n : l - n + i \in 1 .. Len(all)
      BY <1>1, <1>3
    <3> QED
      BY <3>1
  <2>2. FromIndex(b, size, from, n) = [i \in 1 .. n |-> all[l - n + i]]
    BY <1>4, Zenon DEF FromIndex
  <2> QED
    BY <1>3, <2>1, <2>2
<1> DEFINE read == FromIndex(b, size, from, n)
           kept == Newest(all, size)
<1> HIDE DEF read, kept
<1>7. /\ read \in Seq(V) /\ kept \in Seq(V) /\ Len(read) = n /\ Len(read) = Len(kept)
      /\ \A i \in 1 .. Len(read) : read[i] = kept[i]
  BY <1>5, <1>6, Zenon DEF read, kept
<1>8. read = kept
  BY <1>7, ListsEqual, Zenon
<1> QED
  BY <1>7, <1>8, Zenon DEF read, kept

\* The index computations of such rings.
LEMMA NextIndex ==
    ASSUME NEW size \in Nat \ {0}, NEW next \in 0 .. size - 1
    PROVE  (next + 1) % size = After(size, next) /\ After(size, next) \in 0 .. size - 1
<1>1. PICK k \in 1 .. size : k = next + 1
  OBVIOUS
<1>2. k % size = IF k = size THEN 0 ELSE k
  BY <1>1
<1> QED
  BY <1>1, <1>2 DEF After

\* The index of the cell j places behind next, without a remainder.
LEMMA BackIndex ==
    ASSUME NEW size \in Nat \ {0}, NEW next \in 0 .. size - 1, NEW j \in 1 .. size
    PROVE  /\ (next + size - j) % size = Behind(size, next, j)
           /\ Behind(size, next, j) \in 0 .. size - 1
<1>1. PICK k \in 0 .. 2 * size - 1 : k = next + size - j
  OBVIOUS
<1>2. k % size = IF k < size THEN k ELSE k - size
  BY <1>1
<1> QED
  BY <1>1, <1>2 DEF Behind

-----------------------------------------------------------------------------
(* The line editor *)

Lines == Seq(Keys)

EditorInv ==
    /\ history \in [buffer : [0 .. HISTORY_SIZE - 1 -> Lines], head : 0 .. HISTORY_SIZE - 1,
                    count : 0 .. HISTORY_SIZE]
    /\ line \in Lines /\ draft \in Lines /\ screen = line
    /\ back \in 0 .. history.count
    /\ entered \in Seq(Lines)
    /\ history.count = IF Len(entered) < HISTORY_SIZE THEN Len(entered) ELSE HISTORY_SIZE
    /\ KeepsNewest(history.buffer, HISTORY_SIZE, history.head, entered)

\* History::get returns a line that was entered.
LEMMA RecallEntered ==
    ASSUME EditorInv, NEW i \in 1 .. history.count
    PROVE  Recall(i) = entered[Len(entered) + 1 - i] /\ Recall(i) \in Lines
<1>1. /\ HISTORY_SIZE \in Nat \ {0} /\ history.head \in 0 .. HISTORY_SIZE - 1
      /\ i \in 1 .. HISTORY_SIZE /\ Len(entered) \in Nat /\ i <= Len(entered)
      /\ history.buffer \in [0 .. HISTORY_SIZE - 1 -> Lines]
  BY EditorConstants DEF EditorInv
<1>2. Recall(i) = history.buffer[Behind(HISTORY_SIZE, history.head, i)]
  BY <1>1, BackIndex, Zenon DEF Recall
<1>3. Behind(HISTORY_SIZE, history.head, i) \in 0 .. HISTORY_SIZE - 1
  BY <1>1, BackIndex, Zenon
<1> QED
  BY <1>1, <1>2, <1>3 DEF EditorInv, KeepsNewest

\* The property that the run checks.
LEMMA EditorShows == EditorInv => EditorShowsTheLine
BY RecallEntered, Zenon DEF EditorInv, EditorShowsTheLine

\* The editor starts with an empty line and no history.
LEMMA EditorStarts == EditorInit => EditorInv
<1> SUFFICES ASSUME EditorInit PROVE EditorInv
  BY Zenon
<1>1. << >> \in Lines /\ << >> \in Seq(Lines) /\ Len(entered) = 0
  BY DEF EditorInit, Lines
<1>2. KeepsNewest(history.buffer, HISTORY_SIZE, history.head, entered)
  BY <1>1, EditorConstants DEF EditorInit, KeepsNewest
<1> QED
  BY <1>1, <1>2, EditorConstants DEF EditorInit, EditorInv

\* A line that erasing and typing again puts on the screen.
LEMMA Retyped ==
    ASSUME EditorInv, NEW l \in Lines
    PROVE  Erased(Len(line)) \o l = l
<1>1. line \in Lines /\ screen = line
  BY Zenon DEF EditorInv
<1>2. Erased(Len(line)) = << >>
  BY <1>1 DEF Erased, Lines
<1> QED
  BY <1>2 DEF Lines

\* Keys that change the line and leave the history alone.
LEMMA KeyStep ==
    ASSUME EditorInv, Backspace \/ Up \/ Down \/ \E k \in Keys : Type(k)
    PROVE  EditorInv'
<1>1. /\ line \in Lines /\ draft \in Lines /\ screen = line /\ history.count \in Nat
      /\ back \in 0 .. history.count
  BY EditorConstants DEF EditorInv
<1>2. SUFFICES /\ line' \in Lines /\ draft' \in Lines /\ screen' = line'
               /\ UNCHANGED <<history, entered>> /\ back' \in 0 .. history.count
  BY Zenon DEF EditorInv
<1>3. ASSUME NEW k \in Keys, Type(k)
      PROVE  screen' = line' /\ line' \in Lines /\ back' \in 0 .. history.count
  <2>1. Append(line, k) \in Lines /\ 0 \in 0 .. history.count
    BY <1>1, AppendList DEF Lines
  <2> QED
    BY <1>1, <1>3, <2>1, Zenon DEF Type
<1>4. CASE Backspace
  <2>1. line # << >> /\ line' = SubSeq(line, 1, Len(line) - 1) /\ screen' = line'
    BY <1>1, <1>4, Zenon DEF Backspace, Erased
  <2>2. line' \in Lines
    BY <1>1, <2>1 DEF Lines
  <2> QED
    BY <1>1, <1>4, <2>1, <2>2, Zenon DEF Backspace
<1>5. CASE Up
  <2>1. back + 1 \in 1 .. history.count /\ line' = Recall(back + 1) /\ back' = back + 1
    BY <1>1, <1>5 DEF Up
  <2>2. line' \in Lines /\ screen' = line'
    BY <1>5, <2>1, RecallEntered, Retyped, Zenon DEF Up
  <2> QED
    BY <1>1, <1>5, <2>1, <2>2, SMTT(30) DEF Up
<1>6. CASE Down
  <2>1. back > 0 /\ back' = back - 1 /\ (back # 1 => back - 1 \in 1 .. history.count)
    BY <1>1, <1>6 DEF Down
  <2>2. line' \in Lines
    BY <1>1, <1>6, <2>1, RecallEntered, Zenon DEF Down
  <2>3. screen' = line'
    BY <1>6, <2>2, Retyped, Zenon DEF Down
  <2> QED
    BY <1>1, <1>6, <2>1, <2>2, <2>3, SMTT(30) DEF Down
<1> QED
  BY <1>1, <1>3, <1>4, <1>5, <1>6, Zenon DEF Type, Backspace, Up, Down

\* Return stores the line, unless it is the newest entry already.
LEMMA ReturnStep ==
    ASSUME EditorInv, Return
    PROVE  EditorInv'
<1>1. /\ line' = << >> /\ screen' = << >> /\ back' = 0 /\ draft' = << >> /\ << >> \in Lines
  BY DEF Return, Lines
<1>2. CASE UNCHANGED <<history, entered>>
  BY <1>1, <1>2, EditorConstants, SMTT(30) DEF EditorInv
<1>3. CASE ~UNCHANGED <<history, entered>>
  <2> DEFINE h == HISTORY_SIZE
             b == history.buffer
  <2>1. /\ h \in Nat \ {0} /\ b \in [0 .. h - 1 -> Lines] /\ history.head \in 0 .. h - 1
        /\ history.count \in 0 .. h /\ line \in Lines /\ entered \in Seq(Lines)
        /\ history.count = IF Len(entered) < h THEN Len(entered) ELSE h
        /\ KeepsNewest(b, h, history.head, entered)
    BY EditorConstants, Zenon DEF EditorInv
  <2>2. /\ history' = [buffer |-> [b EXCEPT ![history.head] = line],
                       head   |-> (history.head + 1) % h,
                       count  |-> IF history.count < h THEN history.count + 1 ELSE history.count]
        /\ entered' = Append(entered, line)
    BY <1>3, Zenon DEF Return, PushHistory
  <2>3. (history.head + 1) % h = After(h, history.head) /\ After(h, history.head) \in 0 .. h - 1
    BY <2>1, NextIndex, Zenon
  <2>4. KeepsNewest([b EXCEPT ![history.head] = line], h, After(h, history.head),
                    Append(entered, line))
    BY <2>1, NewestStep, Zenon
  <2>5. entered' \in Seq(Lines) /\ Len(entered') = Len(entered) + 1 /\ Len(entered) \in Nat
    BY <2>1, <2>2, AppendList, SMTT(30)
  <2>6. /\ history' \in [buffer : [0 .. h - 1 -> Lines], head : 0 .. h - 1, count : 0 .. h]
        /\ history'.count = IF Len(entered') < h THEN Len(entered') ELSE h
        /\ history'.buffer = [b EXCEPT ![history.head] = line]
        /\ history'.head = After(h, history.head)
    BY <2>1, <2>2, <2>3, <2>5, SMTT(30)
  <2> QED
    BY <1>1, <2>1, <2>2, <2>4, <2>5, <2>6 DEF EditorInv
<1> QED
  BY <1>2, <1>3, Zenon

\* What the terminal shows is the line, and the history offers the last lines
\* entered, newest first, for lines and histories of any length.
THEOREM ShownIsEntered == EditorSpec => []EditorShowsTheLine
<1>1. EditorInv /\ [EditorNext]_editorVars => EditorInv'
  <2> SUFFICES ASSUME EditorInv, [EditorNext]_editorVars PROVE EditorInv'
    BY Zenon
  <2>1. CASE UNCHANGED editorVars
    BY <2>1, Zenon DEF editorVars, EditorInv
  <2> QED
    BY <2>1, KeyStep, ReturnStep, Zenon DEF EditorNext
<1> QED
  BY <1>1, EditorStarts, EditorShows, PTL DEF EditorSpec

-----------------------------------------------------------------------------
(* The audit log *)

Entry == Events \cup {NoEvent}

\* The newest entries are in the ring, and an entry of it is lost when its cell
\* is written again.
AuditInv ==
    /\ happened \in Seq(Events)
    /\ audit \in [buffer : [0 .. AUDIT_CAPACITY - 1 -> Entry], next : 0 .. AUDIT_CAPACITY - 1,
                  total : Nat, dropped : Nat]
    /\ audit.total = Len(happened)
    /\ audit.dropped = IF Len(happened) > AUDIT_CAPACITY THEN Len(happened) - AUDIT_CAPACITY ELSE 0
    /\ KeepsNewest(audit.buffer, AUDIT_CAPACITY, audit.next, happened)
    /\ \A i \in 0 .. AUDIT_CAPACITY - 1 : i >= Len(happened) => audit.buffer[i] = NoEvent

\* The next cell is free until the ring is full, and never again.
LEMMA AuditCell ==
    ASSUME AuditInv
    PROVE  audit.buffer[audit.next] = NoEvent <=> Len(happened) < AUDIT_CAPACITY
<1> DEFINE c == AUDIT_CAPACITY
<1>1. PICK n \in Nat : n = Len(happened)
  BY Zenon DEF AuditInv
<1>2. c \in Nat \ {0} /\ audit.next \in 0 .. c - 1 /\ happened \in Seq(Events)
  BY RingConstants, Zenon DEF AuditInv
<1>3. CASE n < c
  BY <1>1, <1>2, <1>3 DEF AuditInv, KeepsNewest
<1>4. CASE n >= c
  <2>1. c \in 1 .. c /\ c <= n /\ n + 1 - c \in 1 .. n /\ Behind(c, audit.next, c) = audit.next
    BY <1>2, <1>4 DEF Behind
  <2>2. audit.buffer[audit.next] = happened[n + 1 - c]
    BY <1>1, <2>1, Zenon DEF AuditInv, KeepsNewest
  <2>3. happened[n + 1 - c] \in Events
    BY <1>1, <1>2, <2>1
  <2> QED
    BY <1>1, <1>2, <1>4, <2>2, <2>3, RingConstants
<1> QED
  BY <1>2, <1>3, <1>4

\* push into the audit log keeps the invariant.
LEMMA AuditStep ==
    ASSUME AuditInv, NEW e \in Events, AuditRecord(e)
    PROVE  AuditInv'
<1> DEFINE c == AUDIT_CAPACITY
           b == audit.buffer
<1>1. /\ c \in Nat \ {0} /\ b \in [0 .. c - 1 -> Entry] /\ audit.next \in 0 .. c - 1
      /\ happened \in Seq(Events) /\ e \in Entry /\ audit.total \in Nat /\ audit.dropped \in Nat
      /\ happened \in Seq(Entry)
  BY RingConstants DEF AuditInv, Entry
<1>2. PICK n \in Nat : n = Len(happened)
  BY <1>1
<1>3. /\ audit.total = n /\ audit.dropped = (IF n > c THEN n - c ELSE 0)
      /\ b[audit.next] = NoEvent <=> n < c
      /\ \A i \in 0 .. c - 1 : i >= n => b[i] = NoEvent
      /\ n < c => audit.next = n
  BY <1>2, AuditCell, Zenon DEF AuditInv, KeepsNewest
<1>4. /\ audit' = [buffer  |-> [b EXCEPT ![audit.next] = e],
                   next    |-> (audit.next + 1) % c,
                   total   |-> audit.total + 1,
                   dropped |-> audit.dropped + (IF b[audit.next] # NoEvent THEN 1 ELSE 0)]
      /\ happened' = Append(happened, e)
  BY Zenon DEF AuditRecord
<1>5. (audit.next + 1) % c = After(c, audit.next) /\ After(c, audit.next) \in 0 .. c - 1
  BY <1>1, NextIndex, Zenon
<1>6. KeepsNewest([b EXCEPT ![audit.next] = e], c, After(c, audit.next), Append(happened, e))
  BY <1>1, NewestStep, Zenon DEF AuditInv
<1>7. happened' \in Seq(Events) /\ Len(happened') = n + 1
  BY <1>1, <1>2, <1>4, AppendList
<1>8. /\ audit'.buffer = [b EXCEPT ![audit.next] = e] /\ audit'.next = After(c, audit.next)
      /\ audit'.total = n + 1 /\ audit'.buffer \in [0 .. c - 1 -> Entry]
  BY <1>1, <1>3, <1>4, <1>5, Zenon
<1>9. audit'.dropped = (IF n + 1 > c THEN n + 1 - c ELSE 0) /\ audit'.dropped \in Nat
  <2>1. audit'.dropped = audit.dropped + (IF n < c THEN 0 ELSE 1)
    BY <1>3, <1>4, Zenon
  <2> QED
    BY <1>1, <1>3, <2>1
<1>10. \A i \in 0 .. c - 1 : i >= n + 1 => audit'.buffer[i] = NoEvent
  BY <1>1, <1>3, <1>8, SMTT(30)
<1>11. audit' \in [buffer : [0 .. c - 1 -> Entry], next : 0 .. c - 1, total : Nat, dropped : Nat]
  BY <1>4, <1>5, <1>8, <1>9
<1>12. KeepsNewest(audit'.buffer, c, audit'.next, happened')
  BY <1>4, <1>6, <1>8, Zenon
<1>13. /\ audit'.total = Len(happened')
       /\ audit'.dropped = IF Len(happened') > c THEN Len(happened') - c ELSE 0
       /\ \A i \in 0 .. c - 1 : i >= Len(happened') => audit'.buffer[i] = NoEvent
  <2>1. PICK k \in Nat : k = Len(happened') /\ k = n + 1
    BY <1>7
  <2>2. /\ audit'.total = k /\ audit'.dropped = (IF k > c THEN k - c ELSE 0)
        /\ \A i \in 0 .. c - 1 : i >= k => audit'.buffer[i] = NoEvent
    BY <1>1, <1>8, <1>9, <1>10, <2>1
  <2> QED
    BY <2>1, <2>2, Zenon
<1> QED
  BY <1>7, <1>11, <1>12, <1>13, Zenon DEF AuditInv

\* What audit dump prints.
LEMMA AuditPrints ==
    ASSUME AuditInv
    PROVE  /\ AuditDump = Newest(happened, AUDIT_CAPACITY)
           /\ audit.dropped + Len(AuditDump) = Len(happened)
<1> DEFINE c == AUDIT_CAPACITY
           from == AuditStart
           m == IF audit.total > c THEN c ELSE audit.total
<1>1. PICK n \in Nat : n = Len(happened)
  BY Zenon DEF AuditInv
<1>2. /\ c \in Nat \ {0} /\ happened \in Seq(Events) /\ audit.total = n
      /\ audit.dropped = (IF n > c THEN n - c ELSE 0)
      /\ KeepsNewest(audit.buffer, c, audit.next, happened)
  BY <1>1, RingConstants, Zenon DEF AuditInv
<1>3. /\ n > c => from = audit.next /\ m = c
      /\ n <= c => from = 0 /\ m = n
  BY <1>1, <1>2 DEF AuditStart
<1> HIDE DEF from, m
<1>4. /\ FromIndex(audit.buffer, c, from, m) = Newest(happened, c)
      /\ Len(FromIndex(audit.buffer, c, from, m)) = m
  BY <1>1, <1>2, <1>3, NewestRead
<1>5. AuditDump = FromIndex(audit.buffer, c, from, m)
  BY Zenon DEF AuditDump, from, m
<1>6. audit.dropped + m = n
  BY <1>2, <1>3
<1> QED
  BY <1>1, <1>4, <1>5, <1>6, Zenon

-----------------------------------------------------------------------------
(* The trace *)

\* Remainders of an index that is never reset by a turn of the ring.
LEMMA Divided ==
    ASSUME NEW n \in Nat, NEW s \in Nat \ {0}
    PROVE  n = (s * (n \div s)) + (n % s) /\ n % s \in 0 .. s - 1 /\ n \div s \in Nat
OBVIOUS

\* Facts on products, for the remainders below.
LEMMA Multiple ==
    ASSUME NEW k \in Int, NEW s \in Nat \ {0}
    PROVE  s * k \in Int /\ (k >= 1 => s * k >= s) /\ (k <= -1 => s * k <= -s)
OBVIOUS

\* Multiplication distributes over the difference.
LEMMA Difference ==
    ASSUME NEW a \in Int, NEW b \in Int, NEW s \in Int
    PROVE  s * (a - b) = s * a - s * b
OBVIOUS

\* The remainder of whole turns and r more is r.
LEMMA Remainder ==
    ASSUME NEW s \in Nat \ {0}, NEW a \in Nat, NEW r \in 0 .. s - 1
    PROVE  ((s * a) + r) % s = r
<1>1. PICK m \in Nat : m = (s * a) + r
  OBVIOUS
<1>2. PICK b \in Nat, z \in 0 .. s - 1 : m = (s * b) + z /\ z = m % s
  BY Divided, Zenon
<1>3. PICK k \in Int : k = a - b
  OBVIOUS
<1>4. s * k = z - r
  <2>1. PICK x \in Int, y \in Int : x = s * a /\ y = s * b
    OBVIOUS
  <2>2. s * k = x - y
    BY <1>3, <2>1, Difference
  <2>3. m = x + r /\ m = y + z
    BY <1>1, <1>2, <2>1, Zenon
  <2> QED
    BY <2>1, <2>2, <2>3
<1>5. (k >= 1 => z - r >= s) /\ (k <= -1 => z - r <= -s)
  BY <1>4, Multiple, Zenon
<1>6. k = 0
  BY <1>5
<1>7. z = r
  BY <1>4, <1>6
<1> QED
  BY <1>1, <1>2, <1>7, Zenon

\* NEXT_IDX may grow past the size: the walk of the summary starts at the cell of
\* the oldest index in the ring and meets the indices in order.
LEMMA Turned ==
    ASSUME NEW s \in Nat \ {0}, NEW n \in Nat, n >= s, NEW j \in 0 .. s - 1
    PROVE  ((n % s) + j) % s = (n - s + j) % s
<1>1. PICK a \in Nat, r \in 0 .. s - 1 : n = (s * a) + r /\ r = n % s
  BY Divided, Zenon
<1>2. a # 0
  <2>1. a = 0 => s * a = 0
    OBVIOUS
  <2> QED
    BY <1>1, <2>1
<1>3. PICK c \in Nat : c = a - 1
  BY <1>2
<1>4. PICK x \in Int, y \in Int : x = s * a /\ y = s * c /\ x = y + s
  BY <1>3
<1>5. n = x + r
  BY <1>1, <1>4, Zenon
<1>6. CASE r + j < s
  <2>1. r + j \in 0 .. s - 1 /\ n - s + j = y + (r + j)
    BY <1>4, <1>5, <1>6
  <2>2. (y + (r + j)) % s = r + j
    BY <1>4, <2>1, Remainder, Zenon
  <2>3. (r + j) % s = r + j
    BY <2>1
  <2> QED
    BY <1>1, <2>1, <2>2, <2>3, Zenon
<1>7. CASE r + j >= s
  <2>1. PICK k \in 0 .. s - 1 : k = r + j - s
    BY <1>7
  <2>2. n - s + j = x + k
    BY <1>4, <1>5, <2>1
  <2>3. (x + k) % s = k
    BY <1>4, Remainder, Zenon
  <2>4. r + j = (s * 1) + k
    BY <2>1
  <2>5. ((s * 1) + k) % s = k
    BY Remainder
  <2> QED
    BY <1>1, <2>2, <2>3, <2>4, <2>5, Zenon
<1> QED
  BY <1>6, <1>7

TracerStates == [at : {"out", "in", "claimed"}, event : Entry, idx : Nat, mine : BOOLEAN]

\* The caller has claimed an index of the present trace.
Claims(t, n) == tracer[t].at = "claimed" /\ tracer[t].mine /\ tracer[t].idx = n

\* The cell of an index holds its event, or the index is unsettled.
Kept(n) == trace.buffer[n % TRACE_BUFFER_SIZE] = happened[n + 1] \/ Unsettled(n)

\* A claim has the event of its number; the ring holds the newest events since
\* the last `trace`, as far as they are settled.
TraceInv ==
    /\ happened \in Seq(Events)
    /\ trace \in [buffer : [0 .. TRACE_BUFFER_SIZE - 1 -> Entry], next_idx : Nat,
                  active : BOOLEAN]
    /\ trace.next_idx = Len(happened)
    /\ tracer \in [Tracers -> TracerStates]
    /\ \A t \in Tracers : tracer[t].at # "out" => tracer[t].event \in Events
    /\ \A t \in Tracers, n \in Nat :
          Claims(t, n) => n < Len(happened) /\ happened[n + 1] = tracer[t].event
    /\ \A n \in TraceWindow : Kept(n)

\* What Unsettled says of the callers.
LEMMA UnsettledBy ==
    ASSUME NEW n
    PROVE  /\ Unsettled(n) <=> n \in overrun \/ \E t \in Tracers : Claims(t, n)
           /\ Unsettled(n)' <=> n \in overrun' \/ \E t \in Tracers : Claims(t, n)'
  BY Zenon DEF Unsettled, Claims

\* The indices of the ring are those of the newest events.
LEMMA WindowIs ==
    ASSUME trace.next_idx \in Nat
    PROVE  \A n : n \in TraceWindow <=>
                 /\ n \in Nat /\ n < trace.next_idx /\ n + TRACE_BUFFER_SIZE >= trace.next_idx
  BY RingConstants DEF TraceWindow

\* `trace` starts with an empty window, whoever is still in log_trace.
LEMMA BeginStep == ASSUME TraceInv, TraceBegin PROVE TraceInv'
<1>1. /\ trace' = [trace EXCEPT !.next_idx = 0, !.active = TRUE] /\ happened' = << >>
      /\ tracer' = [t \in Tracers |-> [tracer[t] EXCEPT !.mine = FALSE]]
  BY Zenon DEF TraceBegin
<1>2. /\ trace' \in [buffer : [0 .. TRACE_BUFFER_SIZE - 1 -> Entry], next_idx : Nat,
                     active : BOOLEAN]
      /\ trace'.next_idx = 0
  BY <1>1, Zenon DEF TraceInv
<1>3. Len(happened') = 0 /\ happened' \in Seq(Events)
  BY <1>1
<1>4. /\ tracer' \in [Tracers -> TracerStates]
      /\ \A t \in Tracers : /\ tracer'[t].at = tracer[t].at /\ tracer'[t].event = tracer[t].event
                            /\ tracer'[t].mine = FALSE
  BY <1>1, ZenonT(30) DEF TraceInv, TracerStates
<1>5. \A n : n \notin TraceWindow'
  BY <1>2, RingConstants DEF TraceWindow
<1>6. \A t \in Tracers, n \in Nat : ~Claims(t, n)'
  BY <1>4, Zenon DEF Claims
<1>7. \A t \in Tracers : tracer'[t].at # "out" => tracer'[t].event \in Events
  BY <1>4, Zenon DEF TraceInv
<1> QED
  BY <1>2, <1>3, <1>4, <1>5, <1>6, <1>7, ZenonT(30) DEF TraceInv

\* Reading TRACING_ACTIVE, and clearing it, changes no claim and no cell.
LEMMA FlagStep ==
    ASSUME TraceInv, TraceEnd \/ \E t \in Tracers, e \in Events : TraceEnter(t, e)
    PROVE  TraceInv'
<1>1. happened' = happened /\ overrun' = overrun
  BY Zenon DEF TraceEnd, TraceEnter
<1>2. /\ trace' \in [buffer : [0 .. TRACE_BUFFER_SIZE - 1 -> Entry], next_idx : Nat,
                     active : BOOLEAN]
      /\ trace'.next_idx = trace.next_idx /\ trace'.buffer = trace.buffer
  BY Zenon DEF TraceEnd, TraceEnter, TraceInv
<1> DEFINE Moved ==
      /\ tracer' \in [Tracers -> TracerStates]
      /\ \A t \in Tracers : tracer'[t].at # "out" => tracer'[t].event \in Events
      /\ \A t \in Tracers : \/ tracer'[t] = tracer[t]
                            \/ tracer'[t].at = "in" /\ tracer[t].at = "out"
<1>3. Moved
  <2>1. CASE TraceEnd
    BY <2>1, Zenon DEF TraceEnd, TraceInv
  <2>2. ASSUME NEW t \in Tracers, NEW e \in Events, TraceEnter(t, e) PROVE Moved
    <3> DEFINE new == [tracer[t] EXCEPT !.at = "in", !.event = e]
    <3>1. tracer[t].at = "out" /\ tracer[t] \in TracerStates /\ tracer \in [Tracers -> TracerStates]
      BY <2>2, Zenon DEF TraceEnter, TraceInv
    <3>2. new \in TracerStates /\ new.at = "in" /\ new.event = e
      BY <3>1, Zenon DEF TracerStates, Entry
    <3>3. tracer' = [tracer EXCEPT ![t] = new]
      BY <2>2, <3>1, Zenon DEF TraceEnter
    <3> HIDE DEF new
    <3>4. /\ tracer' \in [Tracers -> TracerStates] /\ tracer'[t] = new
          /\ \A u \in Tracers : u # t => tracer'[u] = tracer[u]
      BY <3>1, <3>2, <3>3, ZenonT(30)
    <3> QED
      BY <3>1, <3>2, <3>4, ZenonT(30) DEF TraceInv
  <2> QED
    BY <2>1, <2>2, Zenon
<1>4. \A t \in Tracers, n \in Nat : Claims(t, n)' <=> Claims(t, n)
  BY <1>3, ZenonT(30) DEF Claims
<1>5. TraceWindow' = TraceWindow
  BY <1>2, Zenon DEF TraceWindow
<1>6. \A n \in TraceWindow : Kept(n)'
  <2> SUFFICES ASSUME NEW n \in TraceWindow PROVE Kept(n)'
    BY Zenon
  <2>1. Kept(n) /\ n \in Nat
    BY WindowIs, Zenon DEF TraceInv
  <2>2. Unsettled(n) => Unsettled(n)'
    BY <1>1, <1>4, <2>1, UnsettledBy, Zenon
  <2> QED
    BY <1>1, <1>2, <2>1, <2>2, Zenon DEF Kept
<1>7. \A t \in Tracers, n \in Nat :
         Claims(t, n)' => n < Len(happened') /\ happened'[n + 1] = tracer'[t].event
  <2> SUFFICES ASSUME NEW t \in Tracers, NEW n \in Nat, Claims(t, n)'
               PROVE  n < Len(happened') /\ happened'[n + 1] = tracer'[t].event
    BY Zenon
  <2>1. Claims(t, n)
    BY <1>4, Zenon
  <2>2. tracer'[t] = tracer[t]
    BY <1>3, <2>1, Zenon DEF Claims
  <2>3. n < Len(happened) /\ happened[n + 1] = tracer[t].event
    BY <2>1, Zenon DEF TraceInv
  <2> QED
    BY <1>1, <2>2, <2>3, Zenon
<1> QED
  BY <1>1, <1>2, <1>3, <1>5, <1>6, <1>7, ZenonT(30) DEF TraceInv

\* The index fetch_add gives out is unsettled until its cell is written; the
\* others keep their cells.
LEMMA ClaimStep == ASSUME TraceInv, NEW t \in Tracers, TraceClaim(t) PROVE TraceInv'
<1>0. PICK N \in Nat : N = trace.next_idx
  BY Zenon DEF TraceInv
<1> DEFINE e == tracer[t].event
           new == [tracer[t] EXCEPT !.at = "claimed", !.idx = N, !.mine = TRUE]
<1>1. /\ tracer[t].at = "in" /\ e \in Events /\ N = trace.next_idx /\ N = Len(happened)
      /\ tracer[t] \in TracerStates /\ tracer \in [Tracers -> TracerStates]
      /\ happened \in Seq(Events)
  BY <1>0, Zenon DEF TraceClaim, TraceInv
<1>2. /\ trace' \in [buffer : [0 .. TRACE_BUFFER_SIZE - 1 -> Entry], next_idx : Nat,
                     active : BOOLEAN]
      /\ trace'.next_idx = N + 1 /\ trace'.buffer = trace.buffer
  <2>1. trace' = [trace EXCEPT !.next_idx = N + 1] /\ N + 1 \in Nat
    BY <1>1, SMTT(30) DEF TraceClaim, TraceInv
  <2> QED
    BY <2>1, Zenon DEF TraceInv
<1>3. /\ happened' = Append(happened, e) /\ overrun' = overrun
      /\ tracer' = [tracer EXCEPT ![t] = new]
  BY <1>1, Zenon DEF TraceClaim
<1>4. new \in TracerStates /\ new.at = "claimed" /\ new.idx = N /\ new.mine /\ new.event = e
  BY <1>1, Zenon DEF TracerStates
<1>5. /\ tracer' \in [Tracers -> TracerStates] /\ tracer'[t] = new
      /\ \A u \in Tracers : u # t => tracer'[u] = tracer[u]
  <2> HIDE DEF new
  <2> QED
    BY <1>1, <1>3, <1>4, ZenonT(30)
<1>6. /\ happened' \in Seq(Events) /\ Len(happened') = N + 1 /\ happened'[N + 1] = e
      /\ \A i \in 1 .. N : happened'[i] = happened[i]
  BY <1>1, <1>3
<1>7. /\ Claims(t, N)' /\ \A n \in Nat : Claims(t, n)' => n = N
      /\ \A n \in Nat : ~Claims(t, n)
      /\ \A u \in Tracers, n \in Nat : u # t => (Claims(u, n)' <=> Claims(u, n))
  <2>1. /\ tracer'[t].at = "claimed" /\ tracer'[t].idx = N /\ tracer'[t].mine
        /\ tracer[t].at # "claimed"
    BY <1>1, <1>4, <1>5, Zenon
  <2>2. Claims(t, N)' /\ \A n \in Nat : (Claims(t, n)' => n = N) /\ ~Claims(t, n)
    BY <2>1, Zenon DEF Claims
  <2>3. \A u \in Tracers, n \in Nat : u # t => (Claims(u, n)' <=> Claims(u, n))
    BY <1>5, Zenon DEF Claims
  <2> QED
    BY <2>2, <2>3, Zenon
<1>8. \A n \in TraceWindow' : Kept(n)'
  <2> SUFFICES ASSUME NEW n \in TraceWindow' PROVE Kept(n)'
    BY Zenon
  <2>1. n \in Nat /\ (n = N \/ n \in TraceWindow)
    <3>1. n \in Nat /\ n < N + 1 /\ n + TRACE_BUFFER_SIZE >= N + 1
      BY <1>1, <1>2, RingConstants, SMTT(30) DEF TraceWindow
    <3>2. n = N \/ (n < N /\ n + TRACE_BUFFER_SIZE >= N)
      BY <1>1, <3>1, RingConstants
    <3> QED
      BY <1>1, <3>1, <3>2, RingConstants, SMTT(30) DEF TraceWindow
  <2>2. CASE n = N
    BY <1>1, <1>7, <2>1, <2>2, UnsettledBy, Zenon DEF Kept
  <2>3. CASE n \in TraceWindow
    <3>1. Kept(n)
      BY <2>3, Zenon DEF TraceInv
    <3>2. Unsettled(n) => Unsettled(n)'
      BY <1>3, <1>7, <2>1, UnsettledBy, ZenonT(30)
    <3>3. n < N
      BY <1>1, <2>3, WindowIs, Zenon
    <3>4. happened'[n + 1] = happened[n + 1]
      BY <1>1, <1>6, <2>1, <3>3
    <3> QED
      BY <1>2, <3>1, <3>2, <3>4, Zenon DEF Kept
  <2> QED
    BY <2>1, <2>2, <2>3, Zenon
<1>9. ASSUME NEW u \in Tracers, NEW n \in Nat, Claims(u, n)'
      PROVE  n < Len(happened') /\ happened'[n + 1] = tracer'[u].event
  <2>1. CASE u = t
    <3>1. n = N /\ tracer'[u].event = e
      BY <1>4, <1>5, <1>7, <1>9, <2>1, Zenon
    <3> QED
      BY <1>1, <1>6, <3>1
  <2>2. CASE u # t
    <3>1. Claims(u, n) /\ tracer'[u] = tracer[u]
      BY <1>5, <1>7, <1>9, <2>2, Zenon
    <3>2. n < N /\ happened[n + 1] = tracer[u].event
      BY <1>1, <3>1, Zenon DEF TraceInv
    <3> QED
      BY <1>1, <1>6, <3>1, <3>2
  <2> QED
    BY <2>1, <2>2, Zenon
<1>10. \A u \in Tracers : tracer'[u].at # "out" => tracer'[u].event \in Events
  BY <1>1, <1>4, <1>5, ZenonT(30) DEF TraceInv
<1> HIDE DEF new
<1> QED
  BY <1>2, <1>5, <1>6, <1>8, <1>9, <1>10, ZenonT(30) DEF TraceInv

\* A write takes its cell from every index in the ring but its own.
LEMMA WriteStep == ASSUME TraceInv, NEW t \in Tracers, TraceWrite(t) PROVE TraceInv'
<1>1. PICK i \in Nat, e \in Entry : i = tracer[t].idx /\ e = tracer[t].event
  BY Zenon DEF TraceInv, TracerStates
<1>2. PICK cell \in 0 .. TRACE_BUFFER_SIZE - 1 : cell = i % TRACE_BUFFER_SIZE
  BY <1>1, Divided, RingConstants, Zenon
<1>3. /\ tracer[t].at = "claimed" /\ happened' = happened
      /\ trace' = [trace EXCEPT !.buffer[cell] = e]
      /\ overrun' = (overrun \cup {n \in TraceWindow : n % TRACE_BUFFER_SIZE = cell})
                       \ (IF tracer[t].mine THEN {i} ELSE {})
      /\ tracer' = [tracer EXCEPT ![t] = Outside]
  BY <1>1, <1>2, Zenon DEF TraceWrite
<1>4. /\ trace' \in [buffer : [0 .. TRACE_BUFFER_SIZE - 1 -> Entry], next_idx : Nat,
                     active : BOOLEAN]
      /\ trace'.next_idx = trace.next_idx
      /\ trace'.buffer = [trace.buffer EXCEPT ![cell] = e]
  BY <1>1, <1>2, <1>3, ZenonT(30) DEF TraceInv
<1>5. trace.buffer \in [0 .. TRACE_BUFFER_SIZE - 1 -> Entry] /\ trace.next_idx \in Nat
  BY Zenon DEF TraceInv
<1>6. /\ trace'.buffer[cell] = e
      /\ \A c \in 0 .. TRACE_BUFFER_SIZE - 1 : c # cell => trace'.buffer[c] = trace.buffer[c]
  BY <1>4, <1>5, Zenon
<1>7. Outside \in TracerStates /\ Outside.at = "out"
  BY DEF Outside, TracerStates, Entry
<1>8. /\ tracer' \in [Tracers -> TracerStates] /\ tracer'[t] = Outside
      /\ \A u \in Tracers : u # t => tracer'[u] = tracer[u]
  BY <1>3, <1>7, ZenonT(30) DEF TraceInv
<1>9. TraceWindow' = TraceWindow
  BY <1>4, Zenon DEF TraceWindow
<1>10. /\ \A n \in Nat : ~Claims(t, n)' /\ (Claims(t, n) => n = i /\ tracer[t].mine)
       /\ \A u \in Tracers, n \in Nat : u # t => (Claims(u, n)' <=> Claims(u, n))
  BY <1>1, <1>7, <1>8, ZenonT(30) DEF Claims
<1>11. ASSUME NEW n \in TraceWindow PROVE Kept(n)'
  <2>1. n \in Nat /\ Kept(n)
    BY <1>5, WindowIs, Zenon DEF TraceInv
  <2>2. PICK c \in 0 .. TRACE_BUFFER_SIZE - 1 : c = n % TRACE_BUFFER_SIZE
    BY <2>1, Divided, RingConstants
  <2>3. CASE c # cell
    <3>1. n # i
      BY <1>2, <2>2, <2>3, Zenon
    <3>2. n \in overrun => n \in overrun'
      BY <1>3, <3>1, Zenon
    <3>3. \A u \in Tracers : Claims(u, n) => Claims(u, n)'
      BY <1>10, <2>1, <3>1, Zenon
    <3>4. Unsettled(n) => Unsettled(n)'
      BY <3>2, <3>3, UnsettledBy, Zenon
    <3> QED
      BY <1>3, <1>6, <2>1, <2>2, <2>3, <3>4, Zenon DEF Kept
  <2>4. CASE c = cell /\ tracer[t].mine /\ n = i
    <3>1. Claims(t, n)
      BY <1>1, <1>3, <2>4, Zenon DEF Claims
    <3>2. happened[n + 1] = e
      BY <1>1, <2>1, <3>1, Zenon DEF TraceInv
    <3> QED
      BY <1>3, <1>6, <2>2, <2>4, <3>2, Zenon DEF Kept
  <2>5. CASE c = cell /\ ~(tracer[t].mine /\ n = i)
    <3>1. n \in overrun'
      BY <1>3, <1>11, <2>2, <2>5, Zenon
    <3> QED
      BY <3>1, UnsettledBy, Zenon DEF Kept
  <2> QED
    BY <2>3, <2>4, <2>5, Zenon
<1>12. \A u \in Tracers, n \in Nat :
          Claims(u, n)' => n < Len(happened') /\ happened'[n + 1] = tracer'[u].event
  BY <1>3, <1>8, <1>10, ZenonT(30) DEF TraceInv
<1>13. \A u \in Tracers : tracer'[u].at # "out" => tracer'[u].event \in Events
  BY <1>7, <1>8, ZenonT(30) DEF TraceInv
<1> QED
  BY <1>3, <1>4, <1>8, <1>9, <1>11, <1>12, <1>13, ZenonT(30) DEF TraceInv

\* Every step of the trace and its callers keeps the invariant.
LEMMA TraceStep == ASSUME TraceInv, TraceNext PROVE TraceInv'
  BY BeginStep, FlagStep, ClaimStep, WriteStep, ZenonT(30) DEF TraceNext

\* What the summary prints in a place is what the cell of that place's index holds.
LEMMA TraceReads ==
    ASSUME TraceInv
    PROVE  LET newest == Newest(happened, TRACE_BUFFER_SIZE)
           IN  /\ Len(TraceSummary) = Len(newest)
               /\ \A i \in 1 .. Len(newest) :
                      TraceSummary[i] = newest[i] \/ Unsettled(Len(happened) - Len(newest) + i - 1)
               /\ (\A n \in TraceWindow : ~Unsettled(n)) => MatchedEvents = Matching(newest)
<1> DEFINE newest == Newest(happened, TRACE_BUFFER_SIZE)
<1>1. PICK s \in Nat \ {0}, N \in Nat :
         s = TRACE_BUFFER_SIZE /\ N = trace.next_idx /\ N = Len(happened)
  BY RingConstants, Zenon DEF TraceInv
<1>2. PICK from \in Nat, m \in Nat :
         /\ from = (IF N > s THEN N % s ELSE 0) /\ m = (IF N < s THEN N ELSE s)
  BY Divided
<1>3. /\ m <= N /\ m <= s /\ (N > s => m = s /\ from = N % s)
      /\ (N <= s => m = N /\ from = 0)
  BY <1>2
<1>4. /\ newest \in Seq(Events) /\ Len(newest) = m
      /\ \A i \in 1 .. m : newest[i] = happened[N - m + i]
  <2>1. happened \in Seq(Events) /\ s = TRACE_BUFFER_SIZE
    BY <1>1, Zenon DEF TraceInv
  <2>2. m <= N /\ m <= s /\ (m = N \/ m = s) /\ s \in Nat
    BY <1>3
  <2>3. /\ m <= Len(happened) /\ m <= TRACE_BUFFER_SIZE
        /\ (m = Len(happened) \/ m = TRACE_BUFFER_SIZE)
        /\ TRACE_BUFFER_SIZE \in Nat /\ m \in Nat
    BY <1>1, <2>2, Zenon
  <2>4. /\ newest \in Seq(Events) /\ Len(newest) = m
        /\ \A i \in 1 .. m : newest[i] = happened[Len(happened) - m + i]
    <3>1. LastOnes(Events, happened, TRACE_BUFFER_SIZE, m)
      BY <2>1, <2>3, NewestAt, ZenonT(30)
    <3> QED
      BY <3>1, Zenon DEF LastOnes
  <2> QED
    BY <1>1, <2>4, Zenon
<1>5. TraceSummary = [i \in 1 .. m |-> trace.buffer[(from + i - 1) % s]]
  BY <1>1, <1>2, Zenon DEF TraceSummary, FromIndex
<1>6. ASSUME NEW i \in 1 .. m
      PROVE  /\ (from + i - 1) % s = (N - m + i - 1) % s
             /\ N - m + i - 1 \in TraceWindow /\ N - m + i - 1 \in Nat
             /\ (N - m + i - 1) + 1 = N - m + i
             /\ (from + i - 1) % s \in 0 .. s - 1
  <2>1. (from + i - 1) % s = (N - m + i - 1) % s
    <3>1. CASE N > s
      <4>1. PICK j \in 0 .. s - 1 : j = i - 1
        BY <1>3
      <4>2. ((N % s) + j) % s = (N - s + j) % s
        <5>1. N >= s
          BY <3>1
        <5> QED
          BY <5>1, Turned, Zenon
      <4>3. from + i - 1 = from + j /\ N - m + i - 1 = N - m + j
        BY <4>1
      <4> QED
        BY <1>3, <3>1, <4>2, <4>3, Zenon
    <3>2. CASE N <= s
      BY <1>3, <3>2
    <3> QED
      BY <3>1, <3>2
  <2>2. PICK n \in Nat : n = N - m + i - 1
    BY <1>3
  <2>3. n < N /\ n + s >= N /\ n + 1 = N - m + i
    BY <1>3, <2>2
  <2>4. n \in TraceWindow
    BY <1>1, <2>3, WindowIs, Zenon
  <2>5. n % s \in 0 .. s - 1
    BY Divided
  <2> QED
    BY <2>1, <2>2, <2>3, <2>4, <2>5, Zenon
<1>7. ASSUME NEW i \in 1 .. m
      PROVE  /\ TraceSummary[i] = newest[i] \/ Unsettled(N - m + i - 1)
             /\ TraceSummary[i] \in Entry
  <2>1. PICK n \in TraceWindow : n = N - m + i - 1 /\ n + 1 = N - m + i
    BY <1>6, Zenon
  <2>2. TraceSummary[i] = trace.buffer[n % s] /\ n % s \in 0 .. s - 1
    BY <1>5, <1>6, <2>1, Zenon
  <2>3. Kept(n)
    BY Zenon DEF TraceInv
  <2>4. newest[i] = happened[n + 1]
    BY <1>4, <2>1, Zenon
  <2>5. trace.buffer \in [0 .. s - 1 -> Entry]
    BY <1>1, Zenon DEF TraceInv
  <2> QED
    BY <1>1, <2>1, <2>2, <2>3, <2>4, <2>5, Zenon DEF Kept
<1>8. TraceSummary \in Seq(Entry) /\ Len(TraceSummary) = m
  <2>1. TraceSummary \in [1 .. m -> Entry]
    BY <1>5, <1>7, Zenon
  <2> QED
    BY <2>1
<1>9. ASSUME \A n \in TraceWindow : ~Unsettled(n)
      PROVE  TraceSummary = newest
  <2>1. \A i \in 1 .. m : TraceSummary[i] = newest[i]
    BY <1>6, <1>7, <1>9, Zenon
  <2>2. newest \in Seq(Entry)
    BY <1>4 DEF Entry
  <2> HIDE DEF newest
  <2> QED
    BY <1>4, <1>8, <2>1, <2>2, ListsEqual, Zenon
<1> QED
  BY <1>1, <1>4, <1>7, <1>8, <1>9, ZenonT(30) DEF MatchedEvents

-----------------------------------------------------------------------------
(* The keyboard and the device service *)

\* The cell n after another.
Ahead(size, h, n) == IF h + n < size THEN h + n ELSE h + n - size

\* The index of the cell n places ahead of h, without a remainder.
LEMMA AheadIndex ==
    ASSUME NEW size \in Nat \ {0}, NEW h \in 0 .. size - 1, NEW n \in 0 .. size
    PROVE  (h + n) % size = Ahead(size, h, n) /\ Ahead(size, h, n) \in 0 .. size - 1
<1>1. PICK k \in 0 .. 2 * size - 1 : k = h + n
  OBVIOUS
<1>2. k % size = IF k < size THEN k ELSE k - size
  BY <1>1, SMTT(30)
<1> QED
  BY <1>1, <1>2 DEF Ahead

\* The keys accepted are those delivered and then those in the buffer.
Buffered(size, data, h, t, n, all, got) ==
    /\ data \in [0 .. size - 1 -> Entry] /\ h \in 0 .. size - 1 /\ n \in 0 .. size
    /\ t = Ahead(size, h, n)
    /\ all \in Seq(Events) /\ got \in Seq(Events) /\ Len(all) = Len(got) + n
    /\ \A i \in 1 .. Len(got) : got[i] = all[i]
    /\ \A i \in 0 .. n - 1 : data[Ahead(size, h, i)] = all[Len(got) + i + 1]

\* The oldest m keys of the buffer, as pops return them.
LEMMA Popped ==
    ASSUME NEW c \in Nat \ {0}, NEW d, NEW h, NEW t, NEW n, NEW all, NEW got,
           Buffered(c, d, h, t, n, all, got), NEW m \in 0 .. n
    PROVE  /\ FromIndex(d, c, h, m) \in Seq(Events) /\ Len(FromIndex(d, c, h, m)) = m
           /\ \A i \in 1 .. m : FromIndex(d, c, h, m)[i] = all[Len(got) + i]
<1>1. h \in 0 .. c - 1 /\ n \in 0 .. c /\ all \in Seq(Events) /\ m \in Nat /\ m <= n
  BY DEF Buffered
<1>2. PICK l \in Nat : l = Len(got) /\ Len(all) = l + n
  BY DEF Buffered
<1>3. ASSUME NEW i \in 1 .. m
      PROVE  d[(h + i - 1) % c] = all[l + i] /\ all[l + i] \in Events
  <2>1. PICK k \in 0 .. n - 1 : k = i - 1
    BY <1>1
  <2>2. /\ k \in 0 .. c /\ h + i - 1 = h + k /\ l + k + 1 = l + i
        /\ l + i \in 1 .. Len(all)
    BY <1>1, <1>2, <2>1
  <2>3. (h + k) % c = Ahead(c, h, k)
    BY <1>1, <2>2, AheadIndex, Zenon
  <2>4. d[Ahead(c, h, k)] = all[l + k + 1]
    BY <1>2, <2>1, Zenon DEF Buffered
  <2>5. all[l + i] \in Events
    BY <1>1, <2>2
  <2> QED
    BY <2>2, <2>3, <2>4, <2>5, Zenon
<1>4. FromIndex(d, c, h, m) = [i \in 1 .. m |-> all[l + i]]
  BY <1>3, Zenon DEF FromIndex
<1> QED
  BY <1>1, <1>2, <1>3, <1>4, SMTT(30)

\* The keys delivered, with what a reply adds to them.
LEMMA Delivered ==
    ASSUME NEW c \in Nat \ {0}, NEW d, NEW h, NEW t, NEW n, NEW all, NEW got,
           Buffered(c, d, h, t, n, all, got), NEW m \in 0 .. n
    PROVE  /\ got \o FromIndex(d, c, h, m) \in Seq(Events)
           /\ Len(got \o FromIndex(d, c, h, m)) = Len(got) + m
           /\ \A i \in 1 .. Len(got) + m : (got \o FromIndex(d, c, h, m))[i] = all[i]
<1> DEFINE f == FromIndex(d, c, h, m)
           joined == got \o f
<1>1. f \in Seq(Events) /\ Len(f) = m /\ \A i \in 1 .. m : f[i] = all[Len(got) + i]
  BY Popped
<1>2. got \in Seq(Events) /\ \A i \in 1 .. Len(got) : got[i] = all[i]
  BY Zenon DEF Buffered
<1>3. m \in Nat
  BY SMTT(30) DEF Buffered
<1> HIDE DEF f
<1>4. /\ joined \in Seq(Events) /\ Len(joined) = Len(got) + Len(f)
      /\ \A i \in 1 .. Len(got) : joined[i] = got[i]
      /\ \A i \in 1 .. Len(f) : joined[Len(got) + i] = f[i]
  <2>1. got \in Seq(Events) /\ f \in Seq(Events)
    BY <1>1, <1>2, Zenon
  <2>2. Joins(Events, got, f)
    BY <2>1, JoinedList, ZenonT(30)
  <2> QED
    BY <2>2, Zenon DEF Joins, joined
<1> HIDE DEF joined
<1>5. PICK l \in Nat : l = Len(got)
  BY <1>2
<1>6. /\ Len(joined) = l + m
      /\ \A i \in 1 .. l : joined[i] = all[i]
      /\ \A i \in 1 .. m : joined[l + i] = all[l + i]
  BY <1>1, <1>2, <1>4, <1>5, ZenonT(30)
<1>7. ASSUME NEW i \in 1 .. l + m PROVE joined[i] = all[i]
  <2>1. CASE i <= l
    BY <1>3, <1>6, <2>1
  <2>2. CASE i > l
    <3>1. i - l \in 1 .. m /\ l + (i - l) = i
      BY <1>3, <2>2
    <3> QED
      BY <1>6, <3>1, Zenon
  <2> QED
    BY <1>3, <2>1, <2>2
<1>8. joined \in Seq(Events) /\ Len(joined) = Len(got) + m
      /\ \A i \in 1 .. Len(got) + m : joined[i] = all[i]
  BY <1>4, <1>5, <1>6, <1>7, Zenon
<1> QED
  BY <1>8, ZenonT(60) DEF joined, f

\* A key that finds room goes behind the others.
LEMMA PushedBehind ==
    ASSUME NEW c \in Nat \ {0}, NEW d, NEW h, NEW t, NEW n, NEW all, NEW got,
           Buffered(c, d, h, t, n, all, got), n < c, NEW e \in Events
    PROVE  Buffered(c, [d EXCEPT ![t] = e], h, (t + 1) % c, n + 1, Append(all, e), got)
<1>1. /\ d \in [0 .. c - 1 -> Entry] /\ h \in 0 .. c - 1 /\ n \in 0 .. c - 1
      /\ t = Ahead(c, h, n) /\ t \in 0 .. c - 1
      /\ all \in Seq(Events) /\ got \in Seq(Events) /\ e \in Entry
  BY SMTT(30) DEF Buffered, Ahead, Entry
<1>2. PICK l \in Nat : l = Len(got) /\ Len(all) = l + n
  BY DEF Buffered
<1>3. (t + 1) % c = After(c, t)
  BY <1>1, NextIndex, Zenon
<1>4. After(c, t) = Ahead(c, h, n + 1)
  BY <1>1 DEF After, Ahead
<1> DEFINE data == [d EXCEPT ![t] = e]
           more == Append(all, e)
<1>5. /\ more \in Seq(Events) /\ Len(more) = l + (n + 1)
      /\ \A i \in 1 .. l + n : more[i] = all[i]
      /\ more[l + n + 1] = e
  <2>1. /\ more \in Seq(Events) /\ Len(more) = Len(all) + 1
        /\ \A i \in 1 .. Len(all) : more[i] = all[i]
        /\ more[Len(all) + 1] = e
    <3>1. all \in Seq(Events) /\ e \in Events
      BY <1>1, Zenon
    <3> QED
      BY <3>1, AppendList, ZenonT(30)
  <2>2. l + n + 1 = l + (n + 1) /\ l + n \in Nat
    BY <1>1
  <2> HIDE DEF more
  <2> QED
    BY <1>1, <1>2, <2>1, <2>2, Zenon
<1>6. \A i \in 1 .. l : got[i] = more[i]
  <2>1. \A i \in 1 .. l : got[i] = all[i] /\ i \in 1 .. l + n
    BY <1>1, <1>2 DEF Buffered
  <2> QED
    BY <1>5, <2>1, Zenon
<1>7. ASSUME NEW i \in 0 .. n
      PROVE  data[Ahead(c, h, i)] = more[l + i + 1]
  <2>1. CASE i = n
    BY <1>1, <1>5, <2>1, Zenon
  <2>2. CASE i # n
    <3>1. /\ Ahead(c, h, i) # Ahead(c, h, n) /\ Ahead(c, h, i) \in 0 .. c - 1
          /\ i \in 0 .. n - 1 /\ l + i + 1 \in 1 .. l + n
      BY <1>1, <2>2 DEF Ahead
    <3>2. d[Ahead(c, h, i)] = all[l + i + 1]
      BY <1>2, <3>1, Zenon DEF Buffered
    <3> QED
      BY <1>1, <1>5, <3>1, <3>2, Zenon
  <2> QED
    BY <2>1, <2>2, Zenon
<1>8. /\ data \in [0 .. c - 1 -> Entry] /\ n + 1 \in 0 .. c
      /\ n + 1 - 1 = n
  BY <1>1, SMTT(30)
<1> HIDE DEF data, more
<1>9. Buffered(c, data, h, Ahead(c, h, n + 1), n + 1, more, got)
  BY <1>1, <1>2, <1>5, <1>6, <1>7, <1>8 DEF Buffered
<1> QED
  BY <1>3, <1>4, <1>9, Zenon DEF data, more

\* A reply takes the oldest keys.
LEMMA PoppedInOrder ==
    ASSUME NEW c \in Nat \ {0}, NEW d, NEW h, NEW t, NEW n, NEW all, NEW got,
           Buffered(c, d, h, t, n, all, got), NEW m \in 0 .. n
    PROVE  Buffered(c, d, (h + m) % c, t, n - m, all, got \o FromIndex(d, c, h, m))
<1> DEFINE new == got \o FromIndex(d, c, h, m)
<1>1. /\ d \in [0 .. c - 1 -> Entry] /\ h \in 0 .. c - 1 /\ n \in 0 .. c /\ m \in 0 .. c
      /\ t = Ahead(c, h, n) /\ all \in Seq(Events) /\ m <= n
  BY SMTT(30) DEF Buffered
<1>2. PICK l \in Nat : l = Len(got) /\ Len(all) = l + n
  BY DEF Buffered
<1>3. new \in Seq(Events) /\ Len(new) = l + m /\ \A i \in 1 .. l + m : new[i] = all[i]
  <2>1. /\ new \in Seq(Events) /\ Len(new) = Len(got) + m
        /\ \A i \in 1 .. Len(got) + m : new[i] = all[i]
    BY Delivered, SMTT(30)
  <2> QED
    BY <1>2, <2>1, ZenonT(60)
<1> HIDE DEF new
<1>4. PICK g \in 0 .. c - 1 : g = (h + m) % c /\ g = Ahead(c, h, m)
  BY <1>1, AheadIndex, Zenon
<1>5. t = Ahead(c, g, n - m)
  BY <1>1, <1>4, SMTT(30) DEF Ahead
<1>6. ASSUME NEW i \in 0 .. n - m - 1
      PROVE  d[Ahead(c, g, i)] = all[l + m + i + 1]
  <2>1. PICK k \in 0 .. n - 1 : k = m + i
    BY <1>1
  <2>2. Ahead(c, g, i) = Ahead(c, h, k)
    BY <1>1, <1>4, <2>1, SMTT(30) DEF Ahead
  <2>3. d[Ahead(c, h, k)] = all[l + k + 1] /\ l + k + 1 = l + m + i + 1
    BY <1>1, <1>2, <2>1 DEF Buffered
  <2> QED
    BY <2>2, <2>3, Zenon
<1>7. Len(all) = (l + m) + (n - m) /\ n - m \in 0 .. c
  BY <1>1, <1>2
<1>8. Buffered(c, d, g, t, n - m, all, new)
  BY <1>1, <1>3, <1>5, <1>6, <1>7, Zenon DEF Buffered
<1> QED
  BY <1>4, <1>8, Zenon DEF new

KbdInv ==
    /\ kbd = [data |-> kbd.data, head |-> kbd.head, tail |-> kbd.tail, count |-> kbd.count]
    /\ Buffered(KBD_CAPACITY, kbd.data, kbd.head, kbd.tail, kbd.count, accepted, returned)

\* Key presses, device requests and reads keep the invariant.
LEMMA DeviceStep ==
    ASSUME KbdInv, DeviceNext
    PROVE  KbdInv'
<1> DEFINE c == KBD_CAPACITY
<1>1. /\ c \in Nat \ {0} /\ ReadLimit \in Nat \ {0} /\ kbd.count \in 0 .. c
      /\ kbd = [data |-> kbd.data, head |-> kbd.head, tail |-> kbd.tail, count |-> kbd.count]
      /\ Buffered(c, kbd.data, kbd.head, kbd.tail, kbd.count, accepted, returned)
  BY RingConstants, Zenon DEF KbdInv, Buffered
<1>2. CASE UNCHANGED <<kbd, accepted, returned>>
  BY <1>2, Zenon DEF KbdInv
<1>3. ASSUME NEW e \in Events, KeyPress(e), kbd.count < c PROVE KbdInv'
  <2>1. /\ kbd' = [data |-> [kbd.data EXCEPT ![kbd.tail] = e], head |-> kbd.head,
                   tail |-> (kbd.tail + 1) % c, count |-> kbd.count + 1]
        /\ accepted' = Append(accepted, e) /\ returned' = returned
    BY <1>1, <1>3, Zenon DEF KeyPress, Pushed
  <2>2. Buffered(c, [kbd.data EXCEPT ![kbd.tail] = e], kbd.head, (kbd.tail + 1) % c,
                 kbd.count + 1, Append(accepted, e), returned)
    BY <1>1, <1>3, PushedBehind, Zenon
  <2> QED
    BY <2>1, <2>2, Zenon DEF KbdInv
<1>4. CASE ReadKeyboard
  <2>1. Taken \in 0 .. kbd.count
    BY <1>1 DEF Taken
  <2>2. /\ kbd' = [data |-> kbd.data, head |-> (kbd.head + Taken) % c, tail |-> kbd.tail,
                   count |-> kbd.count - Taken]
        /\ returned' = returned \o FromIndex(kbd.data, c, kbd.head, Taken)
        /\ accepted' = accepted
    BY <1>1, <1>4, Zenon DEF ReadKeyboard
  <2>3. Buffered(c, kbd.data, (kbd.head + Taken) % c, kbd.tail, kbd.count - Taken, accepted,
                 returned \o FromIndex(kbd.data, c, kbd.head, Taken))
    BY <1>1, <2>1, PoppedInOrder, Zenon
  <2> QED
    BY <2>2, <2>3, Zenon DEF KbdInv
<1> QED
  BY <1>1, <1>2, <1>3, <1>4, Zenon DEF DeviceNext, KeyPress, ReadSerial, RefuseDevice, WriteDevice,
     RevokeDevice

\* With all that the buffer still holds, every key has been delivered.
LEMMA DeliveredAll ==
    ASSUME NEW c \in Nat \ {0}, NEW d, NEW h, NEW t, NEW n, NEW all, NEW got,
           Buffered(c, d, h, t, n, all, got)
    PROVE  got \o FromIndex(d, c, h, n) = all
<1>1. n \in 0 .. n /\ n \in Nat /\ all \in Seq(Events) /\ Len(all) = Len(got) + n
  BY DEF Buffered
<1>2. PICK m \in 0 .. n : m = n
  BY <1>1, ZenonT(60)
<1> DEFINE joined == got \o FromIndex(d, c, h, m)
<1>3. /\ joined \in Seq(Events) /\ Len(joined) = Len(got) + m
      /\ \A i \in 1 .. Len(got) + m : joined[i] = all[i]
  BY Delivered
<1> HIDE DEF joined
<1>4. joined = all
  BY <1>1, <1>2, <1>3, ListsEqual, Zenon
<1> QED
  BY <1>2, <1>4, Zenon DEF joined

\* What was returned and what is buffered are what was accepted.
LEMMA KbdKeeps ==
    ASSUME KbdInv
    PROVE  returned \o FromIndex(kbd.data, KBD_CAPACITY, kbd.head, kbd.count) = accepted
  BY DeliveredAll, RingConstants, Zenon DEF KbdInv

-----------------------------------------------------------------------------
(* The rings, each in use by itself *)

\* The rings start empty.
LEMMA RingsStart ==
    ASSUME RingInit
    PROVE  AuditInv /\ TraceInv /\ KbdInv
<1>1. /\ happened = << >> /\ accepted = << >> /\ returned = << >>
      /\ happened \in Seq(Events) /\ Len(happened) = 0
      /\ accepted \in Seq(Events) /\ Len(accepted) = 0 /\ returned \in Seq(Events)
  BY DEF RingInit
<1>2. \A size \in Nat \ {0} : /\ Empty(size) \in [0 .. size - 1 -> Entry]
                              /\ \A i \in 0 .. size - 1 : Empty(size)[i] = NoEvent
                              /\ KeepsNewest(Empty(size), size, 0, happened)
  BY <1>1, SMTT(30) DEF Empty, Entry, KeepsNewest
<1>3. AuditInv
  BY <1>1, <1>2, RingConstants DEF RingInit, AuditInv
<1>4. TraceInv
  <2>1. /\ trace = [buffer |-> Empty(TRACE_BUFFER_SIZE), next_idx |-> 0, active |-> FALSE]
        /\ tracer = [t \in Tracers |-> Outside]
    BY Zenon DEF RingInit
  <2>2. Outside \in TracerStates /\ Outside.at = "out"
    BY SMTT(30) DEF Outside, TracerStates, Entry
  <2>3. Empty(TRACE_BUFFER_SIZE) \in [0 .. TRACE_BUFFER_SIZE - 1 -> Entry]
    BY <1>2, RingConstants
  <2>4. /\ trace \in [buffer : [0 .. TRACE_BUFFER_SIZE - 1 -> Entry], next_idx : Nat,
                      active : BOOLEAN]
        /\ trace.next_idx = 0
    BY <2>1, <2>3, SMTT(30)
  <2>5. /\ tracer \in [Tracers -> TracerStates]
        /\ \A t \in Tracers : tracer[t].at = "out"
    BY <2>1, <2>2, Zenon
  <2>6. \A n : n \notin TraceWindow
    BY <2>4, RingConstants, SMTT(30) DEF TraceWindow
  <2> QED
    BY <1>1, <2>4, <2>5, <2>6, ZenonT(30) DEF TraceInv, Claims
<1>5. KbdInv
  BY <1>1, <1>2, RingConstants DEF RingInit, KbdInv, Buffered, Ahead
<1> QED
  BY <1>3, <1>4, <1>5, Zenon

\* The audit log prints the newest entries in order and counts every one it has
\* lost, for a log of any size and any number of entries.
THEOREM AuditInOrder == AuditSpec => []RingsKeepOrder
<1> DEFINE I == AuditInv /\ KbdInv /\ trace.next_idx = 0
<1>1. RingInit => I
  BY RingsStart DEF RingInit
<1>2. I /\ [AuditNext]_ringVars => I'
  <2> SUFFICES ASSUME I, [AuditNext]_ringVars PROVE I'
    BY Zenon
  <2>1. CASE UNCHANGED ringVars
    BY <2>1, Zenon DEF ringVars, devVars, traceVars, AuditInv, KbdInv
  <2>2. ASSUME NEW e \in Events, AuditRecord(e) PROVE I'
    <3>1. AuditInv'
      BY <2>2, AuditStep, Zenon
    <3> QED
      BY <2>2, <3>1, Zenon DEF AuditRecord, devVars, traceVars, KbdInv
  <2> QED
    BY <2>1, <2>2, Zenon DEF AuditNext
<1>3. I => RingsKeepOrder
  <2>1. trace.next_idx = 0 => ~(trace.next_idx > 0)
    OBVIOUS
  <2> QED
    BY <2>1, AuditPrints, KbdKeeps, Zenon DEF RingsKeepOrder
<1> QED
  BY <1>1, <1>2, <1>3, PTL DEF AuditSpec

\* Whoever is preempted in log_trace, and at which of its steps: each event of the
\* summary that is settled stands in its place among the newest since the last
\* `trace`, and when all are, the simulators get just those, for a trace of any
\* size and any set of callers, also when commands are nested.
THEOREM TraceInOrder == TraceSpec => []RingsKeepOrder
<1> DEFINE I == TraceInv /\ KbdInv /\ audit.total = 0
<1>1. RingInit => I
  BY RingsStart DEF RingInit
<1>2. I /\ [TraceNext]_ringVars => I'
  <2> SUFFICES ASSUME I, [TraceNext]_ringVars PROVE I'
    BY Zenon
  <2>1. CASE UNCHANGED ringVars
    <3>1. /\ happened' = happened /\ trace' = trace /\ tracer' = tracer /\ overrun' = overrun
          /\ UNCHANGED <<audit, kbd, accepted, returned>>
      BY <2>1, Zenon DEF ringVars, devVars, traceVars
    <3>2. TraceWindow' = TraceWindow
      BY <3>1, Zenon DEF TraceWindow
    <3>3. \A n : Kept(n)' <=> Kept(n)
      BY <3>1, Zenon DEF Kept, Unsettled
    <3>4. \A t, n : Claims(t, n)' <=> Claims(t, n)
      BY <3>1, Zenon DEF Claims
    <3>5. TraceInv'
      BY <3>1, <3>2, <3>3, <3>4, ZenonT(30) DEF TraceInv
    <3> QED
      BY <3>1, <3>5, Zenon DEF KbdInv
  <2>2. CASE TraceNext
    <3>1. TraceInv'
      BY <2>2, TraceStep, Zenon
    <3>2. UNCHANGED <<audit, kbd, accepted, returned>>
      BY <2>2, Zenon 
         DEF TraceNext, TraceBegin, TraceEnd, TraceEnter, TraceClaim, TraceWrite, devVars
    <3> QED
      BY <3>1, <3>2, Zenon DEF KbdInv
  <2> QED
    BY <2>1, <2>2, Zenon
<1>3. I => RingsKeepOrder
  <2>1. audit.total = 0 => ~(audit.total > 0)
    OBVIOUS
  <2> QED
    BY <2>1, TraceReads, KbdKeeps, Zenon DEF RingsKeepOrder
<1> QED
  BY <1>1, <1>2, <1>3, PTL DEF TraceSpec

\* Device replies deliver every key that found room once and in order, for a
\* buffer and a reply of any size.
THEOREM KeysInOrder == DeviceSpec => []RingsKeepOrder
<1> DEFINE I == KbdInv /\ audit.total = 0 /\ trace.next_idx = 0
<1>1. RingInit => I
  BY RingsStart DEF RingInit
<1>2. I /\ [DeviceNext]_ringVars => I'
  <2> SUFFICES ASSUME I, [DeviceNext]_ringVars PROVE I'
    BY Zenon
  <2>1. CASE UNCHANGED ringVars
    BY <2>1, Zenon DEF ringVars, devVars, traceVars, KbdInv
  <2>2. CASE DeviceNext
    <3>1. KbdInv'
      BY <2>2, DeviceStep, Zenon
    <3>2. UNCHANGED <<audit, trace>>
      BY <2>2, Zenon DEF DeviceNext, KeyPress, traceVars
    <3> QED
      BY <3>1, <3>2, Zenon
  <2> QED
    BY <2>1, <2>2, Zenon
<1>3. I => RingsKeepOrder
  <2>1. /\ audit.total = 0 => ~(audit.total > 0)
        /\ trace.next_idx = 0 => ~(trace.next_idx > 0)
    OBVIOUS
  <2> QED
    BY <2>1, KbdKeeps, Zenon DEF RingsKeepOrder
<1> QED
  BY <1>1, <1>2, <1>3, PTL DEF DeviceSpec

-----------------------------------------------------------------------------
(* The watchdog *)

WatchdogSpec == WatchdogInit /\ [][WatchdogNext]_watchdogVars

WatchdogTypes ==
    /\ turn \in {"driver", "service", "watchdog"}
    /\ service \in {"fresh", "started", "stable", "Terminated"}
    /\ incarnation \in Nat /\ starts \in Nat /\ restarts \in Nat
    /\ watchdog \in {"watching", "recovered", "gaveUp"}
    /\ observed \in {"nothing", "terminated", "alive"}
    /\ driverTurns \in 0 .. ArmAfter

\* While the watchdog watches, every crash was answered by one restart, the
\* service never outlives a round of the watchdog unnoticed, and the driver has
\* counted exactly the rounds this took, two for each crash.
Watching ==
    /\ restarts <= MAX_RESTARTS
    /\ observed # "nothing" =>
          turn = "watchdog" /\ (observed = "terminated" <=> service = "Terminated")
    /\ service = "fresh" => starts = restarts /\ turn # "watchdog"
    /\ service = "started" => starts = restarts + 1 /\ incarnation = restarts
    /\ service = "Terminated" =>
          /\ starts = restarts + 1 /\ incarnation = restarts
          /\ restarts < MAX_RESTARTS /\ turn = "watchdog"
    /\ service = "started" /\ restarts = MAX_RESTARTS => turn = "watchdog"
    /\ service # "stable"
    /\ service = "fresh" /\ turn = "driver" => driverTurns = 2 * restarts
    /\ service = "fresh" /\ turn = "service" => driverTurns = 2 * restarts + 1
    /\ service = "started" /\ turn # "service" => driverTurns = 2 * restarts + 1
    /\ service = "started" /\ turn = "service" => driverTurns = 2 * restarts + 2
    /\ service = "Terminated" => driverTurns = 2 * restarts + 2

Recovered ==
    /\ service \in {"started", "stable"} /\ observed = "nothing"
    /\ incarnation = MAX_RESTARTS /\ restarts = MAX_RESTARTS

WatchdogInv ==
    /\ WatchdogTypes
    /\ watchdog # "gaveUp"
    /\ watchdog = "watching" => Watching
    /\ watchdog = "recovered" => Recovered

\* The watchdog recovers the service before preemption is armed, for any number
\* of restarts, if the driver waits for more than two turns for each restart and
\* one (task_preempt_demo waits for 40, and MAX_RESTARTS is 2).
THEOREM Recovery ==
    ASSUME ArmAfter > 2 * MAX_RESTARTS + 1
    PROVE  WatchdogSpec => []WatchdogRecovers
<1>0. MAX_RESTARTS \in Nat /\ ArmAfter \in Nat /\ ArmAfter > 2 * MAX_RESTARTS + 1
  BY WatchdogConstants, Zenon
<1>1. WatchdogInit => WatchdogInv
  BY <1>0 DEF WatchdogInit, WatchdogInv, WatchdogTypes, Watching
<1>2. WatchdogInv /\ [WatchdogNext]_watchdogVars => WatchdogInv'
  <2> SUFFICES ASSUME WatchdogInv, [WatchdogNext]_watchdogVars
               PROVE  WatchdogInv'
    BY Zenon
  <2>1. CASE DriverTurn
    BY <1>0, <2>1, SMTT(30) DEF DriverTurn, PreemptionArmed, NextTurn, WatchdogInv, WatchdogTypes,
                                Watching, Recovered
  <2>2. CASE ServiceTurn
    BY <1>0, <2>2, SMTT(30) DEF ServiceTurn, WatchdogInv, WatchdogTypes, Watching, Recovered
  <2>3. CASE WatchdogCheck
    BY <1>0, <2>3, SMTT(30) DEF WatchdogCheck, WatchdogInv, WatchdogTypes, Watching
  <2>5. CASE WatchdogActs
    BY <1>0, <2>5, SMTT(30) DEF WatchdogActs, Restart, GiveUp, DeclareRecovered, StillStarting,
                                HasRecovered, WatchdogInv, WatchdogTypes, Watching, Recovered
  <2>6. CASE WatchdogGone
    BY <1>0, <2>6, SMTT(30) DEF WatchdogGone, WatchdogInv, WatchdogTypes, Watching, Recovered
  <2>7. CASE Tick
    <3>1. watchdog = "recovered"
      BY <1>0, <2>7 DEF Tick, PreemptionArmed, WatchdogInv, WatchdogTypes, Watching
    <3> QED
      BY <2>7, <3>1, SMTT(30) DEF Tick, NextTurn, WatchdogInv, WatchdogTypes, Recovered
  <2>4. CASE UNCHANGED watchdogVars
    BY <2>4, Zenon DEF watchdogVars, WatchdogInv, WatchdogTypes, Watching, Recovered
  <2> QED
    BY <2>1, <2>2, <2>3, <2>4, <2>5, <2>6, <2>7, Zenon DEF WatchdogNext
<1>3. WatchdogInv => WatchdogRecovers
  BY <1>0 DEF WatchdogInv, WatchdogTypes, Watching, Recovered, WatchdogRecovers,
              PreemptionArmed
<1> QED
  BY <1>1, <1>2, <1>3, PTL DEF WatchdogSpec

-----------------------------------------------------------------------------
(* Checkpoint and restore *)

CheckpointSpec == CheckpointInit /\ [][CheckpointNext]_checkpointVars

\* A table of tasks whose states and inboxes agree and whose capability ids were
\* all issued.
GoodTable(table, limit) ==
    /\ table \in [Slots -> TaskRecords \cup {NoTask}]
    /\ table[TheShell] # NoTask
    /\ \A t \in Slots : table[t] # NoTask =>
          /\ table[t].state = "Running" <=> t = TheShell
          /\ table[t].state = "BlockedOnReceive" =>
                table[t].ipc_buffer = NoTask /\ table[t].msg_queue = 0
          /\ table[t].state = "BlockedOnSend" => table[t].ipc_buffer # NoTask
          /\ \A c \in table[t].cap_table : c.id < limit

\* No id names two capabilities, be they in one of the tables or both.
NoClash(a, b) ==
    \A s, t \in Slots :
        a[s] # NoTask /\ b[t] # NoTask =>
            \A c \in a[s].cap_table, d \in b[t].cap_table : c.id = d.id => c = d

SnapshotInv ==
    snapshot # NoTask =>
        /\ snapshot = Captured(snapshot.tasks)
        /\ GoodTable(snapshot.tasks, next_id)
        /\ NoClash(snapshot.tasks, snapshot.tasks)

CheckpointInv ==
    /\ next_id \in Nat /\ verdict # "FAIL"
    /\ GoodTable(tasks, next_id) /\ NoClash(tasks, tasks)
    /\ SnapshotInv
    /\ snapshot # NoTask => NoClash(tasks, snapshot.tasks)

\* What is known of the snapshot depends on it and on the counter alone.
LEMMA SnapshotStays ==
    ASSUME SnapshotInv, snapshot' = snapshot, next_id' = next_id
    PROVE  SnapshotInv'
<1>1. (snapshot # NoTask => snapshot = Captured(snapshot.tasks))'
  BY ZenonT(60) DEF SnapshotInv, Captured, Checksum
<1>2. (snapshot # NoTask => GoodTable(snapshot.tasks, next_id))'
  BY ZenonT(30) DEF SnapshotInv, GoodTable
<1>3. (snapshot # NoTask => NoClash(snapshot.tasks, snapshot.tasks))'
  BY ZenonT(30) DEF SnapshotInv, NoClash
<1> QED
  BY <1>1, <1>2, <1>3, Zenon DEF SnapshotInv

\* The states and inboxes of a task that agree.
Agrees(t, r) ==
    /\ r.state = "Running" <=> t = TheShell
    /\ r.state = "BlockedOnReceive" => r.ipc_buffer = NoTask /\ r.msg_queue = 0
    /\ r.state = "BlockedOnSend" => r.ipc_buffer # NoTask

\* A change of tasks that mints no id.
LEMMA QuietChanges ==
    ASSUME CheckpointInv, tasks' \in [Slots -> TaskRecords \cup {NoTask}],
           \A t \in Slots : /\ tasks'[t] = NoTask <=> tasks[t] = NoTask
                            /\ tasks'[t] # NoTask =>
                                  /\ tasks'[t].cap_table \subseteq tasks[t].cap_table
                                  /\ Agrees(t, tasks'[t]),
           UNCHANGED <<snapshot, next_id, verdict>>
    PROVE  CheckpointInv'
<1>1. GoodTable(tasks, next_id)'
  <2>1. tasks'[TheShell] # NoTask
    BY Zenon DEF CheckpointInv, GoodTable, Slots
  <2>2. \A u \in Slots : tasks'[u] # NoTask =>
            /\ Agrees(u, tasks'[u])
            /\ \A c \in tasks'[u].cap_table : c.id < next_id
    BY ZenonT(60) DEF CheckpointInv, GoodTable
  <2> QED
    BY <2>1, <2>2, Zenon DEF GoodTable, Agrees
<1>k. ASSUME NEW s \in Slots, tasks'[s] # NoTask, NEW c \in tasks'[s].cap_table
      PROVE  tasks[s] # NoTask /\ c \in tasks[s].cap_table
  BY <1>k, Zenon
<1>2. NoClash(tasks, tasks)'
  <2> SUFFICES ASSUME NEW s \in Slots, NEW u \in Slots, tasks'[s] # NoTask, tasks'[u] # NoTask,
                      NEW c \in tasks'[s].cap_table, NEW d \in tasks'[u].cap_table, c.id = d.id
               PROVE  c = d
    BY Zenon DEF NoClash
  <2>1. /\ tasks[s] # NoTask /\ c \in tasks[s].cap_table
        /\ tasks[u] # NoTask /\ d \in tasks[u].cap_table
    BY <1>k, Zenon
  <2>2. \A x \in tasks[s].cap_table, y \in tasks[u].cap_table : x.id = y.id => x = y
    BY <2>1, ZenonT(60) DEF CheckpointInv, NoClash
  <2> QED
    BY <2>1, <2>2, Zenon
<1>3. (snapshot # NoTask => NoClash(tasks, snapshot.tasks))'
  <2> SUFFICES ASSUME snapshot # NoTask, NEW s \in Slots, NEW u \in Slots,
                      tasks'[s] # NoTask, snapshot.tasks[u] # NoTask,
                      NEW c \in tasks'[s].cap_table, NEW d \in snapshot.tasks[u].cap_table,
                      c.id = d.id
               PROVE  c = d
    BY Zenon DEF NoClash
  <2>1. tasks[s] # NoTask /\ c \in tasks[s].cap_table
    BY <1>k, Zenon
  <2>2. NoClash(tasks, snapshot.tasks)
    BY Zenon DEF CheckpointInv
  <2>3. \A x \in tasks[s].cap_table, y \in snapshot.tasks[u].cap_table : x.id = y.id => x = y
    BY <2>1, <2>2, ZenonT(60) DEF NoClash
  <2> QED
    BY <2>1, <2>3, Zenon
<1>4. SnapshotInv'
  BY SnapshotStays, Zenon DEF CheckpointInv
<1>5. (next_id \in Nat /\ verdict # "FAIL")'
  BY Zenon DEF CheckpointInv
<1> QED
  BY <1>1, <1>2, <1>3, <1>4, <1>5, Zenon DEF CheckpointInv

\* A change of one task that mints no id.
LEMMA QuietChange ==
    ASSUME CheckpointInv, NEW t \in Slots, NEW r \in TaskRecords,
           tasks[t] # NoTask, r.cap_table \subseteq tasks[t].cap_table, Agrees(t, r),
           tasks' = [tasks EXCEPT ![t] = r], UNCHANGED <<snapshot, next_id, verdict>>
    PROVE  CheckpointInv'
<1>1. tasks \in [Slots -> TaskRecords \cup {NoTask}] /\ r # NoTask
  BY CheckpointConstants, Zenon DEF CheckpointInv, GoodTable
<1>2. tasks' \in [Slots -> TaskRecords \cup {NoTask}] /\ tasks'[t] = r
  BY <1>1, Zenon
<1>3. \A u \in Slots : u # t => tasks'[u] = tasks[u]
  BY <1>1, Zenon
<1>4. \A u \in Slots : tasks[u] # NoTask => Agrees(u, tasks[u])
  BY Zenon DEF CheckpointInv, GoodTable, Agrees
<1>5. \A u \in Slots : /\ tasks'[u] = NoTask <=> tasks[u] = NoTask
                       /\ tasks'[u] # NoTask =>
                             /\ tasks'[u].cap_table \subseteq tasks[u].cap_table
                             /\ Agrees(u, tasks'[u])
  BY <1>1, <1>2, <1>3, <1>4, ZenonT(30)
<1> QED
  BY <1>2, <1>5, QuietChanges, Zenon

\* A change of one task that may install a capability with the next id.
LEMMA MintingChange ==
    ASSUME CheckpointInv, NEW t \in Slots, NEW r \in TaskRecords, NEW o \in Nat \cup {NoTask},
           NEW old \in SUBSET Capabilities,
           old = {} \/ (tasks[t] # NoTask /\ old = tasks[t].cap_table),
           r.cap_table = old \cup {[id |-> next_id, origin |-> o]},
           Agrees(t, r), tasks' = [tasks EXCEPT ![t] = r], next_id' = next_id + 1,
           UNCHANGED <<snapshot, verdict>>
    PROVE  CheckpointInv'
<1> DEFINE new == [id |-> next_id, origin |-> o]
<1>a. \A c \in old : c.id < next_id
  BY Zenon DEF CheckpointInv, GoodTable
<1>1. GoodTable(tasks, next_id)'
  <2>1. tasks' \in [Slots -> TaskRecords \cup {NoTask}]
    BY Zenon DEF CheckpointInv, GoodTable
  <2>2. tasks'[TheShell] # NoTask
    BY CheckpointConstants, Zenon DEF CheckpointInv, GoodTable, Slots
  <2>3. ASSUME NEW u \in Slots, tasks'[u] # NoTask
        PROVE  Agrees(u, tasks'[u])
    BY <2>3, Zenon DEF CheckpointInv, GoodTable, Agrees
  <2>4. ASSUME NEW u \in Slots, tasks'[u] # NoTask, NEW c \in tasks'[u].cap_table
        PROVE  c.id < next_id'
    <3>1. CASE u = t
      <4>1. c \in old \/ c = new
        BY <3>1, Zenon DEF CheckpointInv, GoodTable
      <4>2. c \in old => c.id \in Nat
        BY Zenon DEF Capabilities
      <4> QED
        BY <4>1, <4>2, <1>a DEF CheckpointInv
    <3>2. CASE u # t
      <4>1. tasks'[u] = tasks[u] /\ tasks[u] \in TaskRecords
        BY <2>4, <3>2, Zenon DEF CheckpointInv, GoodTable
      <4>2. c.id \in Nat /\ c.id < next_id
        BY <2>4, <4>1, Zenon DEF CheckpointInv, GoodTable, TaskRecords, Capabilities
      <4> QED
        BY <4>2 DEF CheckpointInv
    <3> QED
      BY <3>1, <3>2, Zenon
  <2> QED
    BY <2>1, <2>2, <2>3, <2>4, Zenon DEF GoodTable, Agrees
<1>b. ASSUME NEW table, GoodTable(table, next_id), NEW s \in Slots, table[s] # NoTask,
             NEW c \in table[s].cap_table
      PROVE  c.id \in Nat /\ c.id < next_id /\ c.id # new.id
  <2>1. table[s] \in TaskRecords /\ c.id < next_id
    BY <1>b, Zenon DEF GoodTable
  <2>2. c \in Capabilities
    BY <2>1, Zenon DEF TaskRecords
  <2> QED
    BY <2>1, <2>2 DEF CheckpointInv, Capabilities
<1>c. ASSUME NEW s \in Slots, tasks'[s] # NoTask, NEW c \in tasks'[s].cap_table, c # new
      PROVE  tasks[s] # NoTask /\ c \in tasks[s].cap_table
  BY <1>c, Zenon DEF CheckpointInv, GoodTable
<1>2. NoClash(tasks, tasks)'
  <2> SUFFICES ASSUME NEW s \in Slots, NEW u \in Slots, tasks'[s] # NoTask, tasks'[u] # NoTask,
                      NEW c \in tasks'[s].cap_table, NEW d \in tasks'[u].cap_table, c.id = d.id
               PROVE  c = d
    BY Zenon DEF NoClash
  <2>1. CASE c = new \/ d = new
    BY <2>1, <1>b, <1>c, ZenonT(60) DEF CheckpointInv
  <2>2. CASE c # new /\ d # new
    <3>1. /\ tasks[s] # NoTask /\ c \in tasks[s].cap_table
          /\ tasks[u] # NoTask /\ d \in tasks[u].cap_table
      BY <2>2, <1>c, Zenon
    <3>2. \A x \in tasks[s].cap_table, y \in tasks[u].cap_table : x.id = y.id => x = y
      BY <3>1, ZenonT(60) DEF CheckpointInv, NoClash
    <3> QED
      BY <3>1, <3>2, Zenon
  <2> QED
    BY <2>1, <2>2, Zenon
<1>3. (snapshot # NoTask => NoClash(tasks, snapshot.tasks))'
  <2> SUFFICES ASSUME snapshot # NoTask, NEW s \in Slots, NEW u \in Slots,
                      tasks'[s] # NoTask, snapshot.tasks[u] # NoTask,
                      NEW c \in tasks'[s].cap_table, NEW d \in snapshot.tasks[u].cap_table,
                      c.id = d.id
               PROVE  c = d
    BY DEF NoClash
  <2>1. c # new
    BY <1>b, ZenonT(30) DEF CheckpointInv, SnapshotInv
  <2> QED
    <3>1. tasks[s] # NoTask /\ c \in tasks[s].cap_table
      BY <2>1, <1>c, Zenon
    <3>2. NoClash(tasks, snapshot.tasks)
      BY Zenon DEF CheckpointInv
    <3>3. \A x \in tasks[s].cap_table, y \in snapshot.tasks[u].cap_table : x.id = y.id => x = y
      BY <3>1, <3>2, ZenonT(60) DEF NoClash
    <3> QED
      BY <3>1, <3>3, Zenon
<1>4. SnapshotInv'
  <2> SUFFICES ASSUME snapshot # NoTask PROVE SnapshotInv'
    BY Zenon DEF SnapshotInv
  <2>1. GoodTable(snapshot.tasks, next_id + 1)
    <3>1. \A s \in Slots : snapshot.tasks[s] # NoTask =>
              \A c \in snapshot.tasks[s].cap_table : c.id < next_id + 1
      BY <1>b, SMTT(30) DEF CheckpointInv, SnapshotInv
    <3> QED
      BY <3>1, ZenonT(30) DEF CheckpointInv, SnapshotInv, GoodTable
  <2>2. (snapshot = Captured(snapshot.tasks))'
    BY ZenonT(60) DEF CheckpointInv, SnapshotInv, Captured, Checksum
  <2>3. GoodTable(snapshot.tasks, next_id)'
    BY <2>1, ZenonT(60) DEF GoodTable
  <2>4. NoClash(snapshot.tasks, snapshot.tasks)'
    <3>1. NoClash(snapshot.tasks, snapshot.tasks) /\ snapshot' = snapshot
      BY Zenon DEF CheckpointInv, SnapshotInv
    <3> QED
      BY <3>1, ZenonT(60) DEF NoClash
  <2> QED
    BY <2>2, <2>3, <2>4, Zenon DEF SnapshotInv
<1>5. (next_id \in Nat /\ verdict # "FAIL")'
  BY DEF CheckpointInv
<1> QED
  BY <1>1, <1>2, <1>3, <1>4, <1>5, Zenon DEF CheckpointInv

\* What restore makes of the tables is put together from the two it has.
LEMMA RestoredTable ==
    ASSUME NEW now, NEW snap, NEW limit,
           GoodTable(now, limit), GoodTable(snap.tasks, limit)
    PROVE  /\ GoodTable(Restored(now, snap), limit)
           /\ \A t \in Slots : Restored(now, snap)[t] \in {now[t], snap.tasks[t]}
<1> DEFINE res == Restored(now, snap)
<1>1. res = [t \in Slots |-> IF now[t] # NoTask /\ snap.tasks[t] # NoTask
                             THEN snap.tasks[t] ELSE now[t]]
  BY Zenon DEF Restored, RolledBack
<1> HIDE DEF res
<1>2. \A t \in Slots : res[t] \in {now[t], snap.tasks[t]}
  BY <1>1, Zenon
<1>3. GoodTable(res, limit)
  BY <1>1, Zenon DEF GoodTable, Slots
<1> QED
  BY <1>2, <1>3, Zenon DEF res

\* restore puts back a table that was good when captured (snapshot.rs restore).
LEMMA RestoreStep == CheckpointInv /\ Restore => CheckpointInv'
<1> SUFFICES ASSUME CheckpointInv, Restore PROVE CheckpointInv'
  BY Zenon
<1>1. /\ snapshot # NoTask /\ tasks' = Restored(tasks, snapshot)
      /\ UNCHANGED <<snapshot, next_id, verdict>>
  BY Zenon DEF Restore, IdAfterRestore
<1>2. /\ GoodTable(tasks', next_id)
      /\ \A t \in Slots : tasks'[t] \in {tasks[t], snapshot.tasks[t]}
  BY <1>1, RestoredTable, ZenonT(30) DEF CheckpointInv, SnapshotInv
<1>3. NoClash(tasks', tasks') /\ NoClash(tasks', snapshot.tasks)
  BY <1>1, <1>2 DEF CheckpointInv, SnapshotInv, NoClash
<1>4. GoodTable(tasks, next_id)'
  BY <1>1, <1>2, ZenonT(30) DEF GoodTable
<1>5. NoClash(tasks, tasks)' /\ (snapshot # NoTask => NoClash(tasks, snapshot.tasks))'
  BY <1>1, <1>3, ZenonT(60) DEF NoClash
<1>6. SnapshotInv'
  BY <1>1, SnapshotStays, Zenon DEF CheckpointInv
<1> QED
  BY <1>1, <1>4, <1>5, <1>6, Zenon DEF CheckpointInv

\* capture copies the good table of the moment (snapshot.rs capture).
LEMMA CaptureStep ==
    ASSUME CheckpointInv, tasks' = tasks, next_id' = next_id, verdict' # "FAIL",
           snapshot' = Captured(tasks)
    PROVE  CheckpointInv'
<1>1. snapshot'.tasks = tasks' /\ snapshot' = Captured(snapshot'.tasks)
  BY Zenon DEF Captured
<1>2. (GoodTable(tasks, next_id) /\ NoClash(tasks, tasks))'
  BY ZenonT(30) DEF CheckpointInv, GoodTable, NoClash
<1>3. SnapshotInv'
  <2>1. (snapshot = Captured(snapshot.tasks))'
    BY <1>1, ZenonT(30) DEF Captured, Checksum
  <2>2. GoodTable(snapshot.tasks, next_id)'
    BY <1>1, <1>2, ZenonT(30) DEF GoodTable
  <2>3. NoClash(snapshot.tasks, snapshot.tasks)'
    BY <1>1, <1>2, ZenonT(30) DEF NoClash
  <2> QED
    BY <2>1, <2>2, <2>3, Zenon DEF SnapshotInv
<1> QED
  BY <1>1, <1>2, <1>3, Zenon DEF CheckpointInv, NoClash

\* The demonstration ends with the tables it began with.
LEMMA DemoStep == ASSUME CheckpointInv, NEW v \in Others, Demo(v) PROVE CheckpointInv'
<1> DEFINE wiped == IF tasks[v] = NoTask THEN tasks ELSE [tasks EXCEPT ![v].cap_table = {}]
           after == Restored(wiped, Captured(tasks))
<1>1. tasks \in [Slots -> TaskRecords \cup {NoTask}] /\ v \in Slots
  BY Zenon DEF CheckpointInv, GoodTable, Slots
<1>2. wiped \in [Slots -> TaskRecords \cup {NoTask}]
  BY <1>1, ZenonT(60) DEF TaskRecords
<1>3. \A t \in Slots : wiped[t] = NoTask <=> tasks[t] = NoTask
  BY <1>1, CheckpointConstants, Zenon DEF TaskRecords
<1>4. \A t \in Slots : t # v => wiped[t] = tasks[t]
  BY <1>1, Zenon
<1> HIDE DEF wiped
<1>5. after = [t \in Slots |-> IF wiped[t] # NoTask /\ tasks[t] # NoTask
                               THEN tasks[t] ELSE wiped[t]]
  BY Zenon DEF Restored, RolledBack, Captured
<1>6. after = tasks
  BY <1>1, <1>3, <1>4, <1>5, Zenon
<1>7. /\ tasks' = after /\ snapshot' = Captured(after) /\ next_id' = next_id
      /\ verdict' = IF (tasks[v] # NoTask => after[v].cap_table = tasks[v].cap_table)
                       /\ Checksum(after) = Captured(tasks).checksum
                    THEN "PASS" ELSE "FAIL"
  BY Zenon DEF Demo, wiped
<1> HIDE DEF after
<1>8. verdict' # "FAIL"
  BY <1>6, <1>7, Zenon DEF Captured
<1> QED
  BY <1>6, <1>7, <1>8, CaptureStep, Zenon

\* A new task holds one capability with a fresh id.
LEMMA SpawnStep == ASSUME CheckpointInv, NEW t \in Others, Spawn(t) PROVE CheckpointInv'
<1> DEFINE r == NewTask({NewCap(NoTask)})
<1>1. next_id \in Nat /\ t \in Slots /\ t # TheShell
  BY CheckpointConstants, ZenonT(60) DEF CheckpointInv, Slots
<1>2. r \in TaskRecords /\ r.state = "Ready"
  BY <1>1 DEF NewTask, NewCap, TaskRecords, Capabilities
<1>3. r.cap_table = {} \cup {[id |-> next_id, origin |-> NoTask]}
  BY Zenon DEF NewTask, NewCap
<1>4. tasks' = [tasks EXCEPT ![t] = r] /\ next_id' = next_id + 1 /\ UNCHANGED <<snapshot, verdict>>
  BY Zenon DEF Spawn
<1> HIDE DEF r
<1>5. {} \in SUBSET Capabilities /\ NoTask \in Nat \cup {NoTask} /\ Agrees(t, r)
  BY <1>1, <1>2, Zenon DEF Agrees
<1> QED
  BY <1>1, <1>2, <1>3, <1>4, <1>5, MintingChange, ZenonT(60)

\* cap grant adds a capability with a fresh id to one table.
LEMMA GrantStep == ASSUME CheckpointInv, NEW t \in Slots, Grant(t) PROVE CheckpointInv'
<1>1. PICK donor \in tasks[TheShell].cap_table :
          tasks' = [tasks EXCEPT ![t].cap_table = @ \cup {NewCap(donor.id)}]
  BY ZenonT(60) DEF Grant
<1>2. /\ tasks[t] # NoTask /\ tasks[t] \in TaskRecords
      /\ tasks[TheShell] \in TaskRecords /\ tasks \in [Slots -> TaskRecords \cup {NoTask}]
  BY Zenon DEF Grant, CheckpointInv, GoodTable, Slots
<1>3. donor.id \in Nat /\ next_id \in Nat
  BY <1>2, Zenon DEF TaskRecords, Capabilities, CheckpointInv
<1> DEFINE r == [tasks[t] EXCEPT !.cap_table = @ \cup {NewCap(donor.id)}]
<1>4. /\ r \in TaskRecords /\ r.state = tasks[t].state /\ r.ipc_buffer = tasks[t].ipc_buffer
      /\ r.msg_queue = tasks[t].msg_queue
      /\ r.cap_table = tasks[t].cap_table \cup {[id |-> next_id, origin |-> donor.id]}
      /\ tasks[t].cap_table \in SUBSET Capabilities
  BY <1>2, <1>3 DEF TaskRecords, NewCap, Capabilities
<1>5. tasks' = [tasks EXCEPT ![t] = r]
  BY <1>1, <1>2, Zenon
<1>6. next_id' = next_id + 1 /\ UNCHANGED <<snapshot, verdict>>
  BY Zenon DEF Grant
<1> HIDE DEF r
<1>7. Agrees(t, r)
  BY <1>2, <1>4, Zenon DEF CheckpointInv, GoodTable, Agrees
<1> QED
  BY <1>2, <1>3, <1>4, <1>5, <1>6, <1>7, MintingChange, ZenonT(60)

\* kernel_revoke takes a capability out of one table.
LEMMA RevokeStep == ASSUME CheckpointInv, NEW t \in Slots, Revoke(t) PROVE CheckpointInv'
<1>1. PICK cap \in tasks[t].cap_table : tasks' = [tasks EXCEPT ![t].cap_table = @ \ {cap}]
  BY ZenonT(60) DEF Revoke
<1>2. /\ tasks[t] # NoTask /\ tasks[t] \in TaskRecords
      /\ tasks \in [Slots -> TaskRecords \cup {NoTask}]
  BY Zenon DEF Revoke, CheckpointInv, GoodTable
<1> DEFINE r == [tasks[t] EXCEPT !.cap_table = @ \ {cap}]
<1>3. /\ r \in TaskRecords /\ r.state = tasks[t].state /\ r.ipc_buffer = tasks[t].ipc_buffer
      /\ r.msg_queue = tasks[t].msg_queue /\ r.cap_table \subseteq tasks[t].cap_table
  BY <1>2, Zenon DEF TaskRecords
<1>4. tasks' = [tasks EXCEPT ![t] = r] /\ UNCHANGED <<snapshot, next_id, verdict>>
  BY <1>1, <1>2, ZenonT(60) DEF Revoke
<1> HIDE DEF r
<1>5. Agrees(t, r)
  BY <1>2, <1>3, Zenon DEF CheckpointInv, GoodTable, Agrees
<1> QED
  BY <1>2, <1>3, <1>4, <1>5, QuietChange, ZenonT(60)

\* A task that dies wakes those that wait to send to it.
LEMMA DeathStep ==
    ASSUME CheckpointInv, NEW t \in Others, tasks[t] # NoTask, Dies(t),
           UNCHANGED <<snapshot, next_id, verdict>>
    PROVE  CheckpointInv'
<1>1. /\ t \in Slots /\ t # TheShell /\ tasks \in [Slots -> TaskRecords \cup {NoTask}]
      /\ NoTask \notin TaskRecords
  BY CheckpointConstants, Zenon DEF CheckpointInv, GoodTable, Slots
<1>2. ASSUME NEW u \in Slots
      PROVE  /\ tasks'[u] \in TaskRecords \cup {NoTask}
             /\ tasks'[u] = NoTask <=> tasks[u] = NoTask
             /\ tasks'[u] # NoTask =>
                   /\ tasks'[u].cap_table \subseteq tasks[u].cap_table
                   /\ Agrees(u, tasks'[u])
  <2>1. CASE u = t
    <3> DEFINE r == [tasks[t] EXCEPT !.state = "Terminated"]
    <3>1. tasks[t] \in TaskRecords /\ tasks'[u] = r
      BY <1>1, <2>1, Zenon DEF Dies
    <3>2. r \in TaskRecords /\ r.cap_table = tasks[t].cap_table /\ r.state = "Terminated"
      BY <3>1, Zenon DEF TaskRecords
    <3> HIDE DEF r
    <3>3. Agrees(u, r)
      BY <1>1, <2>1, <3>2, Zenon DEF Agrees
    <3> QED
      BY <1>1, <2>1, <3>1, <3>2, <3>3, Zenon
  <2>2. CASE u # t /\ tasks[u] # NoTask /\ tasks[u].state = "BlockedOnSend" /\ tasks[u].to = t
    <3> DEFINE r == [tasks[u] EXCEPT !.state = "Ready", !.to = NoTask]
    <3>1. tasks[u] \in TaskRecords /\ tasks'[u] = r
      BY <1>1, <2>2, Zenon DEF Dies
    <3>2. r \in TaskRecords /\ r.cap_table = tasks[u].cap_table /\ r.state = "Ready"
      BY <3>1, Zenon DEF TaskRecords
    <3>3. u # TheShell
      BY <2>2, Zenon DEF CheckpointInv, GoodTable
    <3> HIDE DEF r
    <3>4. Agrees(u, r)
      BY <3>2, <3>3, Zenon DEF Agrees
    <3> QED
      BY <1>1, <2>2, <3>1, <3>2, <3>4, Zenon
  <2>3. CASE u # t /\ ~(tasks[u] # NoTask /\ tasks[u].state = "BlockedOnSend" /\ tasks[u].to = t)
    <3>1. tasks'[u] = tasks[u] /\ tasks[u] \in TaskRecords \cup {NoTask}
      BY <1>1, <2>3, Zenon DEF Dies
    <3>2. tasks[u] # NoTask => Agrees(u, tasks[u])
      BY Zenon DEF CheckpointInv, GoodTable, Agrees
    <3> QED
      BY <3>1, <3>2, Zenon
  <2> QED
    BY <2>1, <2>2, <2>3, Zenon
<1>3. tasks' \in [Slots -> TaskRecords \cup {NoTask}]
  <2>1. DOMAIN tasks' = Slots /\ tasks' = [u \in Slots |-> tasks'[u]]
    BY Zenon DEF Dies
  <2> QED
    BY <1>2, <2>1, Zenon
<1> QED
  BY <1>2, <1>3, QuietChanges, Zenon

\* A receive that takes a waiting sender's message wakes the sender.
LEMMA TakeStep ==
    ASSUME CheckpointInv, NEW t \in Slots, NEW u \in Others, TakeFrom(t, u),
           UNCHANGED <<snapshot, next_id, verdict>>
    PROVE  CheckpointInv'
<1> DEFINE r == [tasks[u] EXCEPT !.state = "Ready", !.to = NoTask, !.ipc_buffer = NoTask]
<1>1. /\ u \in Slots /\ u # TheShell /\ tasks[u] # NoTask /\ tasks[u] \in TaskRecords
      /\ tasks' = [tasks EXCEPT ![u] = r]
  BY CheckpointConstants, Zenon DEF TakeFrom, CheckpointInv, GoodTable, Slots
<1>2. r \in TaskRecords /\ r.cap_table = tasks[u].cap_table /\ r.state = "Ready"
  BY <1>1, Zenon DEF TaskRecords
<1> HIDE DEF r
<1>3. Agrees(u, r)
  BY <1>1, <1>2, Zenon DEF Agrees
<1> QED
  BY <1>1, <1>2, <1>3, QuietChange, ZenonT(30)

\* What the other steps make of a task that takes part in them.
InboxStep(t, r) ==
    \/ /\ tasks[t].state \in {"Ready", "BlockedOnSend"}
       /\ \E q \in {0, 1} : r = [tasks[t] EXCEPT !.msg_queue = q]
    \/ tasks[t].state = "Ready" /\ r = [tasks[t] EXCEPT !.ipc_buffer = NoTask]
    \/ InboxEmpty(t) /\ r = [tasks[t] EXCEPT !.state = "BlockedOnReceive"]
    \/ \E u \in Slots :
          r = [tasks[t] EXCEPT !.state = "BlockedOnSend", !.to = u, !.ipc_buffer = "message"]
    \/ r = [tasks[t] EXCEPT !.state = "Ready", !.ipc_buffer = "message"]

\* These steps change the state or the inbox of one task.
LEMMA OneTaskStep ==
    ASSUME CheckpointInv, NEW t \in Others, tasks[t] # NoTask, NEW r,
           tasks' = [tasks EXCEPT ![t] = r], UNCHANGED <<snapshot, next_id, verdict>>,
           InboxStep(t, r)
    PROVE  CheckpointInv'
<1>1. /\ tasks[t] \in TaskRecords /\ t \in Slots /\ t # TheShell /\ Agrees(t, tasks[t])
      /\ NoTask # "message"
  BY CheckpointConstants, Zenon DEF CheckpointInv, GoodTable, Slots, Agrees
<1> DEFINE Fine == r \in TaskRecords /\ r.cap_table = tasks[t].cap_table /\ Agrees(t, r)
<1>2. ASSUME NEW q \in {0, 1}, tasks[t].state \in {"Ready", "BlockedOnSend"},
             r = [tasks[t] EXCEPT !.msg_queue = q]
      PROVE  Fine
  <2>1. /\ r \in TaskRecords /\ r.cap_table = tasks[t].cap_table
        /\ r.state = tasks[t].state /\ r.ipc_buffer = tasks[t].ipc_buffer
    BY <1>1, <1>2, Zenon DEF TaskRecords
  <2> QED
    BY <1>1, <1>2, <2>1, Zenon DEF Agrees
<1>3. ASSUME tasks[t].state = "Ready", r = [tasks[t] EXCEPT !.ipc_buffer = NoTask]
      PROVE  Fine
  <2>1. r \in TaskRecords /\ r.cap_table = tasks[t].cap_table /\ r.state = "Ready"
    BY <1>1, <1>3, Zenon DEF TaskRecords
  <2> QED
    BY <1>1, <2>1, Zenon DEF Agrees
<1>4. ASSUME InboxEmpty(t), r = [tasks[t] EXCEPT !.state = "BlockedOnReceive"]
      PROVE  Fine
  <2>1. /\ r \in TaskRecords /\ r.cap_table = tasks[t].cap_table
        /\ r.state = "BlockedOnReceive" /\ r.ipc_buffer = NoTask /\ r.msg_queue = 0
    BY <1>1, <1>4, Zenon DEF TaskRecords, InboxEmpty
  <2> QED
    BY <1>1, <2>1, Zenon DEF Agrees
<1>5. ASSUME NEW u \in Slots,
             r = [tasks[t] EXCEPT !.state = "BlockedOnSend", !.to = u, !.ipc_buffer = "message"]
      PROVE  Fine
  <2>1. /\ r \in TaskRecords /\ r.cap_table = tasks[t].cap_table
        /\ r.state = "BlockedOnSend" /\ r.ipc_buffer = "message"
    BY <1>1, <1>5, ZenonT(30) DEF TaskRecords
  <2> QED
    BY <1>1, <2>1, Zenon DEF Agrees
<1>6. ASSUME r = [tasks[t] EXCEPT !.state = "Ready", !.ipc_buffer = "message"]
      PROVE  Fine
  <2>1. r \in TaskRecords /\ r.cap_table = tasks[t].cap_table /\ r.state = "Ready"
    BY <1>1, <1>6, ZenonT(30) DEF TaskRecords
  <2> QED
    BY <1>1, <2>1, Zenon DEF Agrees
<1>7. Fine
  BY <1>2, <1>3, <1>4, <1>5, <1>6, Zenon DEF InboxStep
<1> QED
  BY <1>1, <1>7, QuietChange, ZenonT(30)

\* The steps of the other tasks change states and inboxes only.
LEMMA OtherTaskStep ==
    ASSUME CheckpointInv, NEW t \in Others, TaskRuns(t) \/ SendTo(t) PROVE CheckpointInv'
<1>1. tasks[t] # NoTask /\ t \in Slots /\ UNCHANGED <<snapshot, next_id, verdict>>
  BY Zenon DEF TaskRuns, SendTo, Slots
<1>2. CASE TaskRuns(t)
  <2>1. tasks[t].state = "Ready" /\ (Dies(t) \/ Receive(t) \/ \E u \in Slots : BlockOnSend(t, u))
    BY <1>2, Zenon DEF TaskRuns
  <2>2. CASE tasks[t].msg_queue > 0
             /\ tasks' = [tasks EXCEPT ![t].msg_queue = @ - 1]
    <3>1. tasks[t].msg_queue \in {0, 1}
      BY <1>1, Zenon DEF CheckpointInv, GoodTable, TaskRecords
    <3>2. tasks[t].msg_queue - 1 \in {0, 1}
      BY <2>2, <3>1
    <3>3. tasks' = [tasks EXCEPT ![t] = [tasks[t] EXCEPT !.msg_queue = tasks[t].msg_queue - 1]]
      BY <2>2, Zenon
    <3> QED
      BY <1>1, <2>1, <3>2, <3>3, OneTaskStep, ZenonT(30) DEF InboxStep
  <2>3. CASE tasks' = [tasks EXCEPT ![t] = [@ EXCEPT !.ipc_buffer = NoTask]]
    BY <1>1, <2>1, <2>3, OneTaskStep, ZenonT(30) DEF InboxStep
  <2>4. CASE InboxEmpty(t) /\ tasks' = [tasks EXCEPT ![t] = [@ EXCEPT !.state = "BlockedOnReceive"]]
    BY <1>1, <2>4, OneTaskStep, ZenonT(30) DEF InboxStep
  <2>5. CASE \E u \in Slots : BlockOnSend(t, u)
    BY <1>1, <2>5, OneTaskStep, ZenonT(30) DEF BlockOnSend, InboxStep
  <2>6. CASE \E u \in Others : TakeFrom(t, u)
    BY <1>1, <2>6, TakeStep, Zenon
  <2>7. CASE Dies(t)
    BY <1>1, <2>7, DeathStep, Zenon
  <2> QED
    BY <2>1, <2>2, <2>3, <2>4, <2>5, <2>6, <2>7, Zenon DEF Receive
<1>3. CASE SendTo(t)
  <2>1. CASE tasks' = [tasks EXCEPT ![t] = [@ EXCEPT !.state = "Ready", !.ipc_buffer = "message"]]
    BY <1>1, <2>1, OneTaskStep, ZenonT(30) DEF InboxStep
  <2>2. CASE tasks[t].state \in {"Ready", "BlockedOnSend"}
             /\ tasks' = [tasks EXCEPT ![t] = [@ EXCEPT !.msg_queue = 1]]
    BY <1>1, <2>2, OneTaskStep, ZenonT(30) DEF InboxStep
  <2> QED
    BY <1>3, <2>1, <2>2, Zenon DEF SendTo
<1> QED
  BY <1>2, <1>3, Zenon

\* Emptying a slot takes capabilities away and adds none.
LEMMA ClearStep == ASSUME CheckpointInv, NEW t \in Others, ClearSlot(t) PROVE CheckpointInv'
<1>1. /\ tasks' = [tasks EXCEPT ![t] = NoTask] /\ UNCHANGED <<snapshot, next_id, verdict>>
      /\ t # TheShell
  BY CheckpointConstants, Zenon DEF ClearSlot
<1>2. GoodTable(tasks, next_id)'
  BY <1>1, ZenonT(30) DEF CheckpointInv, GoodTable, Slots
<1>3. NoClash(tasks, tasks)' /\ (snapshot # NoTask => NoClash(tasks, snapshot.tasks))'
  <2>1. \A u \in Slots : tasks'[u] # NoTask => tasks'[u] = tasks[u]
    BY <1>1, Zenon DEF CheckpointInv, GoodTable
  <2>2. NoClash(tasks, tasks)'
    BY <2>1, ZenonT(60) DEF CheckpointInv, NoClash
  <2>3. (snapshot # NoTask => NoClash(tasks, snapshot.tasks))'
    BY <1>1, <2>1, ZenonT(60) DEF CheckpointInv, NoClash
  <2> QED
    BY <2>2, <2>3, Zenon
<1>4. SnapshotInv'
  BY <1>1, SnapshotStays, Zenon DEF CheckpointInv
<1> QED
  BY <1>1, <1>2, <1>3, <1>4, Zenon DEF CheckpointInv

\* The invariant holds initially and every command and task step keeps it.
LEMMA CheckpointInvariance == CheckpointSpec => []CheckpointInv
<1>1. CheckpointInit => CheckpointInv
  <2> SUFFICES ASSUME CheckpointInit PROVE CheckpointInv
    BY Zenon
  <2> DEFINE boot == [NewTask({[id |-> 1, origin |-> NoTask]}) EXCEPT !.state = "Running"]
  <2>1. boot \in TaskRecords /\ boot.state = "Running" /\ boot.cap_table = {[id |-> 1, origin |-> NoTask]}
    BY DEF NewTask, TaskRecords, Capabilities
  <2>2. tasks = [t \in Slots |-> IF t = TheShell THEN boot ELSE NoTask] /\ next_id = 2
    BY Zenon DEF CheckpointInit
  <2> HIDE DEF boot
  <2>3. GoodTable(tasks, next_id)
    BY <2>1, <2>2, CheckpointConstants DEF GoodTable, Slots
  <2>4. NoClash(tasks, tasks)
    BY <2>1, <2>2, Zenon DEF NoClash
  <2> QED
    BY <2>2, <2>3, <2>4 DEF CheckpointInit, CheckpointInv, SnapshotInv
<1>2. CheckpointInv /\ [CheckpointNext]_checkpointVars => CheckpointInv'
  <2> SUFFICES ASSUME CheckpointInv, [CheckpointNext]_checkpointVars
               PROVE  CheckpointInv'
    BY Zenon
  <2>0. TheShell \in Slots /\ \A t \in Others : t \in Slots
    BY Zenon DEF Slots
  <2>1. CASE Capture
    BY <2>1, CaptureStep, Zenon DEF Capture, CheckpointInv
  <2>2. CASE Restore
    BY <2>2, RestoreStep, Zenon
  <2>3. CASE Revoke(TheShell) \/ Grant(TheShell)
    BY <2>0, <2>3, RevokeStep, GrantStep, Zenon
  <2>4. ASSUME NEW t \in Others, Demo(t) PROVE CheckpointInv'
    BY <2>4, DemoStep, Zenon
  <2>5. ASSUME NEW t \in Others, Spawn(t) PROVE CheckpointInv'
    BY <2>5, SpawnStep, Zenon
  <2>6. ASSUME NEW t \in Others, ClearSlot(t) PROVE CheckpointInv'
    BY <2>6, ClearStep, Zenon
  <2>7. ASSUME NEW t \in Others, Grant(t) \/ Revoke(t) PROVE CheckpointInv'
    BY <2>0, <2>7, RevokeStep, GrantStep, Zenon
  <2>8. ASSUME NEW t \in Others, TaskRuns(t) \/ SendTo(t) PROVE CheckpointInv'
    BY <2>8, OtherTaskStep, ZenonT(60)
  <2>10. CASE ShellReceives
    BY <2>0, <2>10, TakeStep, Zenon DEF ShellReceives
  <2>9. CASE UNCHANGED checkpointVars
    <3>1. SnapshotInv'
      BY <2>9, SnapshotStays, Zenon DEF checkpointVars, CheckpointInv
    <3>2. GoodTable(tasks, next_id)'
      BY <2>9, ZenonT(60) DEF checkpointVars, CheckpointInv, GoodTable
    <3>3. NoClash(tasks, tasks)' /\ (snapshot # NoTask => NoClash(tasks, snapshot.tasks))'
      BY <2>9, ZenonT(60) DEF checkpointVars, CheckpointInv, NoClash
    <3> QED
      BY <2>9, <3>1, <3>2, <3>3, Zenon DEF checkpointVars, CheckpointInv
  <2> QED
    BY <2>1, <2>2, <2>3, <2>4, <2>5, <2>6, <2>7, <2>8, <2>9, <2>10, Zenon DEF CheckpointNext
<1> QED
  BY <1>1, <1>2, PTL DEF CheckpointSpec

\* A restore at any moment leaves states and inboxes of all tasks consistent
\* (snapshot.rs restore), for any number of tasks and capabilities.
THEOREM ConsistentRestore == CheckpointSpec => []RestoreKeepsTasksConsistent
<1>1. CheckpointInv => RestoreKeepsTasksConsistent
  BY Zenon DEF CheckpointInv, GoodTable, RestoreKeepsTasksConsistent
<1> QED
  BY <1>1, CheckpointInvariance, PTL

\* Although a restore brings capabilities back, no id ever names two of them, and
\* the persistence demonstration always passes (snapshot.rs restore and demo).
THEOREM DistinctIds == CheckpointSpec => []RestoreKeepsIdsDistinct
<1>1. CheckpointInv => RestoreKeepsIdsDistinct
  <2> SUFFICES ASSUME CheckpointInv PROVE RestoreKeepsIdsDistinct
    BY Zenon
  <2> DEFINE held(table) == UNION {table[t].cap_table : t \in {u \in Slots : table[u] # NoTask}}
             all == held(tasks) \cup (IF snapshot = NoTask THEN {} ELSE held(snapshot.tasks))
  <2>1. ASSUME NEW c \in all
        PROVE  \/ \E s \in Slots : tasks[s] # NoTask /\ c \in tasks[s].cap_table
               \/ /\ snapshot # NoTask
                  /\ \E s \in Slots : snapshot.tasks[s] # NoTask /\ c \in snapshot.tasks[s].cap_table
    BY ZenonT(60)
  <2> HIDE DEF all
  <2>2. \A c, d \in all : c.id = d.id => c = d
    BY <2>1 DEF CheckpointInv, SnapshotInv, NoClash
  <2> QED
    BY <2>2, Zenon DEF RestoreKeepsIdsDistinct, CheckpointInv, all
<1> QED
  BY <1>1, CheckpointInvariance, PTL

=============================================================================

---------------------------- MODULE MessageQueue ----------------------------
(***************************************************************************)
(* MessageQueue of kernel/process/ipc.rs: a ring of MSG_QUEUE_CAPACITY     *)
(* cells with a head, a tail and a count.  It implements BoundedFifo, the  *)
(* sequence that IpcKernel uses in its place.                              *)
(***************************************************************************)
EXTENDS Integers, Sequences

CONSTANTS MSG_QUEUE_CAPACITY, Messages, NoMessage

ASSUME QueueConstants == MSG_QUEUE_CAPACITY \in Nat \ {0} /\ NoMessage \notin Messages

VARIABLES
    buffer,  \* the cells; NoMessage: empty
    head,    \* the cell with the oldest message
    tail,    \* the cell the next message goes to
    count,   \* how many messages there are
    ok,      \* the last call succeeded
    out      \* the message it returned

vars == <<buffer, head, tail, count, ok, out>>

Cells == 0 .. (MSG_QUEUE_CAPACITY - 1)

IsEmpty == count = 0

IsFull == count = MSG_QUEUE_CAPACITY

Init ==
    /\ buffer = [i \in Cells |-> NoMessage]
    /\ head = 0 /\ tail = 0 /\ count = 0
    /\ ok = TRUE /\ out = NoMessage

\* Mutant: the tail moves on before the message is written.
EnqueueAfterAdvance(m) ==
    /\ ~IsFull
    /\ buffer' = [buffer EXCEPT ![(tail + 1) % MSG_QUEUE_CAPACITY] = m]
    /\ tail' = (tail + 1) % MSG_QUEUE_CAPACITY
    /\ count' = count + 1
    /\ ok' = TRUE /\ out' = NoMessage
    /\ UNCHANGED head

Enqueue(m) ==
    /\ ~IsFull
    /\ buffer' = [buffer EXCEPT ![tail] = m]
    /\ tail' = (tail + 1) % MSG_QUEUE_CAPACITY
    /\ count' = count + 1
    /\ ok' = TRUE /\ out' = NoMessage
    /\ UNCHANGED head

EnqueueRefused ==
    /\ IsFull
    /\ ok' = FALSE /\ out' = NoMessage
    /\ UNCHANGED <<buffer, head, tail, count>>

\* Mutant: the newest message is taken instead of the oldest.
DequeueNewest ==
    LET last == (tail + MSG_QUEUE_CAPACITY - 1) % MSG_QUEUE_CAPACITY
    IN  /\ ~IsEmpty
        /\ out' = buffer[last]
        /\ buffer' = [buffer EXCEPT ![last] = NoMessage]
        /\ tail' = last
        /\ count' = count - 1
        /\ ok' = TRUE
        /\ UNCHANGED head

Dequeue ==
    /\ ~IsEmpty
    /\ out' = buffer[head]
    /\ buffer' = [buffer EXCEPT ![head] = NoMessage]
    /\ head' = (head + 1) % MSG_QUEUE_CAPACITY
    /\ count' = count - 1
    /\ ok' = TRUE
    /\ UNCHANGED tail

DequeueRefused ==
    /\ IsEmpty
    /\ ok' = FALSE /\ out' = NoMessage
    /\ UNCHANGED <<buffer, head, tail, count>>

Next ==
    \/ \E m \in Messages : Enqueue(m)
    \/ EnqueueRefused
    \/ Dequeue
    \/ DequeueRefused

Spec == Init /\ [][Next]_vars

-----------------------------------------------------------------------------
(* Properties *)

\* Type invariant: indices and count stay in range through every wrap-around.
TypeOK ==
    /\ buffer \in [Cells -> Messages \cup {NoMessage}]
    /\ head \in Cells /\ tail \in Cells
    /\ count \in 0 .. MSG_QUEUE_CAPACITY
    /\ ok \in BOOLEAN /\ out \in Messages \cup {NoMessage}

\* The cell that holds the n-th oldest message.
CellOf(n) == (head + n - 1) % MSG_QUEUE_CAPACITY

\* The messages in the ring, oldest first.
Contents == [n \in 1 .. count |-> buffer[CellOf(n)]]

\* take() of the head cell never comes up empty while count is positive: the
\* occupied cells are the count cells from head on, across any number of turns
\* of the ring (dequeue returns the Option it takes).
DequeueFindsMessage == \A n \in 1 .. count : buffer[CellOf(n)] # NoMessage

Fifo == INSTANCE BoundedFifo WITH Capacity <- MSG_QUEUE_CAPACITY, queue <- Contents

\* The ring is a bounded first-in first-out queue: no message is lost, doubled
\* or reordered, a full ring refuses and an empty one returns nothing.
Implements == Fifo!Spec

-----------------------------------------------------------------------------
(* The inductive strengthening behind StructureProofs *)

\* The tail is count cells after the head, and exactly the cells in between
\* are occupied.
RingInv ==
    /\ TypeOK
    /\ tail = IF head + count < MSG_QUEUE_CAPACITY
              THEN head + count ELSE head + count - MSG_QUEUE_CAPACITY
    /\ DequeueFindsMessage
=============================================================================

---------------------------- MODULE BoundedFifo ----------------------------
(***************************************************************************)
(* What a task's asynchronous queue promises, and what IpcKernel takes its *)
(* msg_queue for: a sequence of messages, oldest first, that refuses one   *)
(* more when it holds Capacity of them.                                    *)
(***************************************************************************)
EXTENDS Naturals, Sequences

CONSTANTS
    Capacity,  \* messages the queue holds at most
    Messages,  \* the messages
    NoMessage  \* no message

VARIABLES
    queue,  \* what the queue holds
    ok,     \* the last call succeeded
    out     \* the message it returned, NoMessage for an enqueue or a failure

vars == <<queue, ok, out>>

Init == queue = << >> /\ ok = TRUE /\ out = NoMessage

Enqueue(m) ==
    /\ \/ Len(queue) < Capacity /\ queue' = Append(queue, m) /\ ok' = TRUE
       \/ Len(queue) = Capacity /\ queue' = queue /\ ok' = FALSE
    /\ out' = NoMessage

Dequeue ==
    \/ queue # << >> /\ queue' = Tail(queue) /\ ok' = TRUE /\ out' = Head(queue)
    \/ queue = << >> /\ queue' = queue /\ ok' = FALSE /\ out' = NoMessage

Next == (\E m \in Messages : Enqueue(m)) \/ Dequeue

Spec == Init /\ [][Next]_vars
=============================================================================

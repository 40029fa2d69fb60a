----------------------------- MODULE Semaphore -----------------------------
(***************************************************************************)
(* What one object of the synchronization service promises: permits that   *)
(* are taken one by one and, when there are none, are handed on in the     *)
(* order in which the tasks asked.  A release needs no earlier acquire; on *)
(* a mutex it leaves at most one permit behind.                            *)
(***************************************************************************)
EXTENDS Integers, Sequences

CONSTANTS
    Clients,  \* the tasks
    None      \* no task

VARIABLES
    made,     \* the object was created
    mutex,    \* as a mutex
    permits,  \* permits nobody holds
    waiting,  \* tasks that asked for one, in order
    turn      \* the task that was given a permit last

vars == <<made, mutex, permits, waiting, turn>>

Init ==
    /\ made = FALSE /\ mutex = FALSE /\ permits = 0
    /\ waiting = << >> /\ turn = None

Create ==
    /\ ~made
    /\ made' = TRUE /\ mutex' \in BOOLEAN /\ permits' \in Nat
    /\ UNCHANGED <<waiting, turn>>

Take(c) ==
    /\ made /\ permits > 0
    /\ permits' = permits - 1 /\ turn' = c
    /\ UNCHANGED <<made, mutex, waiting>>

Wait(c) ==
    /\ made /\ permits = 0
    /\ waiting' = Append(waiting, c)
    /\ UNCHANGED <<made, mutex, permits, turn>>

HandOn ==
    /\ waiting # << >>
    /\ turn' = Head(waiting) /\ waiting' = Tail(waiting)
    /\ UNCHANGED <<made, mutex, permits>>

PutBack ==
    /\ made /\ waiting = << >>
    /\ permits' = IF mutex THEN 1 ELSE permits + 1
    /\ UNCHANGED <<made, mutex, waiting, turn>>

Next == Create \/ (\E c \in Clients : Take(c) \/ Wait(c)) \/ HandOn \/ PutBack

Spec == Init /\ [][Next]_vars
=============================================================================

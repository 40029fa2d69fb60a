---------------------------- MODULE MCCapSystem ----------------------------
(* Small instances of the two builds of CapSystem: task 0 is the shell of the *)
(* one, task 1 is init of the other.                                          *)
EXTENDS CapSystem

CONSTANTS Serial, Mutex, Kv, Log

\* init holds the serial port with the grant right.
InitBootTable ==
    [t \in Tasks |-> [s \in Slots |->
        IF t = 1 /\ s = 0 THEN [Root(Serial, TRUE, 1) EXCEPT !.read = FALSE] ELSE NoCap]]

\* The shell holds a write-only KVEntry and a read-only LogChannel, both with
\* the grant right.
ShellBootTable ==
    [t \in Tasks |-> [s \in Slots |->
        CASE t = 0 /\ s = 0 -> [Root(Kv, TRUE, 1) EXCEPT !.read = FALSE]
          [] t = 0 /\ s = 1 -> [Root(Log, TRUE, 2) EXCEPT !.write = FALSE]
          [] OTHER -> NoCap]]

\* Everything, and writing and passing on only.
TwoMasks ==
    {[read |-> TRUE, write |-> TRUE, grant |-> TRUE],
     [read |-> FALSE, write |-> TRUE, grant |-> TRUE]}
=============================================================================

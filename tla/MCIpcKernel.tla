---------------------------- MODULE MCIpcKernel ----------------------------
(* Instances of IpcKernel for TLC. *)
EXTENDS IpcKernel

\* Every task holds a channel to the next one in its only slot.
RingOfChannels == [t \in 0 .. 2 |-> [s \in 0 .. 0 |-> (t + 1) % 3]]

\* As above, but the last task has an empty slot, for a channel to be inserted.
OpenChainOfChannels == [RingOfChannels EXCEPT ![2][0] = NoTask]
=============================================================================

-------------------------------- MODULE Rings --------------------------------
(***************************************************************************)
(* The kernel's other ring buffers: the capability audit log               *)
(* (kernel/process/audit.rs), the trace of the shell (kernel/shell/mod.rs),*)
(* which both overwrite the oldest entry, and the keyboard buffer          *)
(* (kernel/drivers/keyboard.rs), which drops the newest and which the      *)
(* device service drains for `dev read 1`.                                 *)
(***************************************************************************)
EXTENDS Integers, Sequences

CONSTANTS
    AUDIT_CAPACITY, TRACE_BUFFER_SIZE, KBD_CAPACITY,
    ReadLimit,   \* bytes one device reply has room for
    Events,      \* what is recorded, traced or typed
    Traced,      \* the events the searched-for trace name matches
    Tracers,     \* the tasks and handlers that call log_trace
    MaxEvents,   \* bound: events recorded or typed
    MaxTraced,   \* bound: events of one trace
    NoEvent

ASSUME RingConstants ==
    /\ {AUDIT_CAPACITY, TRACE_BUFFER_SIZE, KBD_CAPACITY, ReadLimit} \subseteq Nat \ {0}
    /\ NoEvent \notin Events /\ Traced \subseteq Events

VARIABLES
    audit,     \* AUDIT_LOG: [buffer, next, total, dropped]
    trace,     \* TRACE_BUFFER, NEXT_IDX, TRACING_ACTIVE: [buffer, next_idx, active]
    tracer,    \* each caller's place in log_trace: [at, event, idx, mine]
    kbd,       \* KBD_BUFFER: [data, head, tail, count]
    happened,  \* history: entries since boot (audit), claims since the trace began
    overrun,   \* history: indices whose cell a writer with an older claim took
    accepted,  \* history: keys that found room
    returned,  \* history: keys device replies have delivered
    devRights, \* rights of the shell's Device capability, by device id
    devStatus  \* status of the last device reply

devVars == <<kbd, accepted, returned, devRights, devStatus>>
traceVars == <<trace, tracer, overrun>>
ringVars == <<audit, happened, traceVars, devVars>>

Empty(size) == [i \in 0 .. size - 1 |-> NoEvent]

\* A caller that is not in log_trace.
Outside == [at |-> "out", event |-> NoEvent, idx |-> 0, mine |-> FALSE]

RingInit ==
    /\ audit = [buffer |-> Empty(AUDIT_CAPACITY), next |-> 0, total |-> 0, dropped |-> 0]
    /\ trace = [buffer |-> Empty(TRACE_BUFFER_SIZE), next_idx |-> 0, active |-> FALSE]
    /\ tracer = [t \in Tracers |-> Outside] /\ overrun = {}
    /\ kbd = [data |-> Empty(KBD_CAPACITY), head |-> 0, tail |-> 0, count |-> 0]
    /\ happened = << >> /\ accepted = << >> /\ returned = << >>
    /\ devRights = [id \in {0, 1} |-> {"read", "write"}] /\ devStatus = 0

\* The entries of a ring from one index on.
FromIndex(buffer, size, start, n) == [i \in 1 .. n |-> buffer[(start + i - 1) % size]]

-----------------------------------------------------------------------------
(* The audit log.                                                          *)

AuditRecord(e) ==
    /\ Len(happened) < MaxEvents
    /\ audit' = [buffer  |-> [audit.buffer EXCEPT ![audit.next] = e],
                 next    |-> (audit.next + 1) % AUDIT_CAPACITY,
                 total   |-> audit.total + 1,
                 dropped |-> audit.dropped
                             + (IF audit.buffer[audit.next] # NoEvent THEN 1 ELSE 0)]
    /\ happened' = Append(happened, e)
    /\ UNCHANGED <<traceVars, devVars>>

\* Mutant: the walk over a wrapped ring starts at its first cell.
AuditStartAtZero == 0

\* Where the walk of dump starts.
AuditStart == IF audit.total > AUDIT_CAPACITY THEN audit.next ELSE 0

AuditDump ==
    FromIndex(audit.buffer, AUDIT_CAPACITY, AuditStart,
              IF audit.total > AUDIT_CAPACITY THEN AUDIT_CAPACITY ELSE audit.total)

AuditNext == \E e \in Events : AuditRecord(e)

-----------------------------------------------------------------------------
(* The trace.  The command under it may be another `trace`, which starts   *)
(* over, and whose end stops the outer one too.  The callers of log_trace  *)
(* hold no common lock (ipc.rs and the services call it with interrupts    *)
(* on), and a command under `trace` may arm preemption: a tick can leave a *)
(* caller between any two of the three steps below.                        *)

TraceBegin ==
    /\ trace' = [trace EXCEPT !.next_idx = 0, !.active = TRUE]
    /\ tracer' = [t \in Tracers |-> [tracer[t] EXCEPT !.mine = FALSE]]
    /\ happened' = << >> /\ overrun' = {}
    /\ UNCHANGED <<audit, devVars>>

\* log_trace of e, first: TRACING_ACTIVE is read, and nothing more happens if it
\* is not set.
TraceEnter(t, e) ==
    /\ tracer[t].at = "out" /\ trace.active
    /\ tracer' = [tracer EXCEPT ![t] = [@ EXCEPT !.at = "in", !.event = e]]
    /\ UNCHANGED <<audit, trace, happened, overrun, devVars>>

\* Then fetch_add of NEXT_IDX gives the event its number.
TraceClaim(t) ==
    /\ tracer[t].at = "in" /\ Len(happened) < MaxTraced
    /\ tracer' = [tracer EXCEPT ![t] = [@ EXCEPT !.at = "claimed", !.idx = trace.next_idx,
                                                 !.mine = TRUE]]
    /\ trace' = [trace EXCEPT !.next_idx = @ + 1]
    /\ happened' = Append(happened, tracer[t].event)
    /\ UNCHANGED <<audit, overrun, devVars>>

\* The indices the ring has room for.
TraceWindow ==
    (IF trace.next_idx > TRACE_BUFFER_SIZE THEN trace.next_idx - TRACE_BUFFER_SIZE ELSE 0)
        .. trace.next_idx - 1

\* At last the cell is written, whoever has claimed it since.
TraceWrite(t) ==
    /\ tracer[t].at = "claimed"
    /\ LET i == tracer[t].idx
           cell == i % TRACE_BUFFER_SIZE
       IN  /\ trace' = [trace EXCEPT !.buffer[cell] = tracer[t].event]
           /\ overrun' = (overrun \cup {n \in TraceWindow : n % TRACE_BUFFER_SIZE = cell})
                            \ (IF tracer[t].mine THEN {i} ELSE {})
    /\ tracer' = [tracer EXCEPT ![t] = Outside]
    /\ UNCHANGED <<audit, happened, devVars>>

TraceEnd ==
    /\ trace.active
    /\ trace' = [trace EXCEPT !.active = FALSE]
    /\ UNCHANGED <<audit, tracer, happened, overrun, devVars>>

\* print_trace_summary and the selection of events for the simulators.
TraceSummary ==
    FromIndex(trace.buffer, TRACE_BUFFER_SIZE,
              IF trace.next_idx > TRACE_BUFFER_SIZE
              THEN trace.next_idx % TRACE_BUFFER_SIZE ELSE 0,
              IF trace.next_idx < TRACE_BUFFER_SIZE
              THEN trace.next_idx ELSE TRACE_BUFFER_SIZE)

Matching(events) == SelectSeq(events, LAMBDA e : e \in Traced)

MatchedEvents == Matching(TraceSummary)

TraceNext ==
    \/ TraceBegin \/ TraceEnd
    \/ \E t \in Tracers : TraceClaim(t) \/ TraceWrite(t) \/ \E e \in Events : TraceEnter(t, e)

-----------------------------------------------------------------------------
(* The keyboard and the device service: 0 is the serial port, 1 the        *)
(* keyboard.                                                               *)

\* KbdBuffer::push.
Pushed(b, k) ==
    [b EXCEPT !.data[b.tail] = k, !.tail = (b.tail + 1) % KBD_CAPACITY, !.count = b.count + 1]

\* keyboard_isr with a scancode that has a character.
KeyPress(k) ==
    /\ Len(accepted) < MaxEvents
    /\ IF kbd.count < KBD_CAPACITY
       THEN kbd' = Pushed(kbd, k) /\ accepted' = Append(accepted, k)
       ELSE UNCHANGED <<kbd, accepted>>
    /\ UNCHANGED <<audit, happened, traceVars, returned, devRights, devStatus>>

\* What one request for a read takes: the loop of pops ends when the reply is
\* full or the buffer is empty.
Taken == IF kbd.count < ReadLimit THEN kbd.count ELSE ReadLimit

\* dev read 1.  The pops are one step: a key that arrives between two of them is
\* one that arrives after the last, but that it may still go into this reply.
ReadKeyboard ==
    /\ "read" \in devRights[1]
    /\ returned' = returned \o FromIndex(kbd.data, KBD_CAPACITY, kbd.head, Taken)
    /\ kbd' = [kbd EXCEPT !.head = (@ + Taken) % KBD_CAPACITY, !.count = @ - Taken]
    /\ devStatus' = IF kbd.count = 0 THEN 2 ELSE 0
    /\ UNCHANGED <<accepted, devRights>>

\* dev read 0: the port's own queue is not modelled, it has bytes or not.
ReadSerial ==
    /\ "read" \in devRights[0]
    /\ devStatus' \in {0, 2}
    /\ UNCHANGED <<kbd, accepted, returned, devRights>>

\* dev write: the keyboard takes none.
WriteDevice(id) ==
    /\ "write" \in devRights[id]
    /\ devStatus' = IF id = 0 THEN 0 ELSE 3
    /\ UNCHANGED <<kbd, accepted, returned, devRights>>

\* No such device, or no right to it.
RefuseDevice ==
    /\ devStatus' \in {3} \cup (IF \E id \in {0, 1} : devRights[id] # {"read", "write"}
                              THEN {1} ELSE {})
    /\ UNCHANGED <<kbd, accepted, returned, devRights>>

\* cap revoke of the shell's capability.
RevokeDevice(id) ==
    /\ devRights' = [devRights EXCEPT ![id] = {}]
    /\ UNCHANGED <<kbd, accepted, returned, devStatus>>

DeviceNext ==
    \/ \E k \in Events : KeyPress(k)
    \/ /\ \/ ReadKeyboard \/ ReadSerial \/ RefuseDevice
          \/ \E id \in {0, 1} : WriteDevice(id) \/ RevokeDevice(id)
       /\ UNCHANGED <<audit, happened, traceVars>>

-----------------------------------------------------------------------------

\* Each ring in use by itself.
AuditSpec == RingInit /\ [][AuditNext]_ringVars
TraceSpec == RingInit /\ [][TraceNext]_ringVars
DeviceSpec == RingInit /\ [][DeviceNext]_ringVars

Newest(s, n) == SubSeq(s, IF Len(s) > n THEN Len(s) - n + 1 ELSE 1, Len(s))

\* The event of an index has not reached its cell, or has lost it to an older
\* one: its writer is still between fetch_add and the write, or another writer
\* has been there so long that the ring (or a later trace) came round to its cell.
Unsettled(n) ==
    n \in overrun \/ \E t \in Tracers : tracer[t].at = "claimed" /\ tracer[t].mine /\ tracer[t].idx = n

\* After any number of turns of the rings, the audit log prints the newest
\* entries in order and counts every one it has lost; device replies deliver each
\* key that found room once and in order; and of the newest events since the last
\* `trace`, the summary and the simulators get each in its place, other than those
\* that callers of log_trace leave unsettled when they are preempted in it.
RingsKeepOrder ==
    /\ audit.total > 0 =>
          /\ AuditDump = Newest(happened, AUDIT_CAPACITY)
          /\ audit.dropped + Len(AuditDump) = Len(happened)
    /\ trace.next_idx > 0 =>
          LET newest == Newest(happened, TRACE_BUFFER_SIZE)
          IN  /\ Len(TraceSummary) = Len(newest)
              /\ \A i \in 1 .. Len(newest) :
                     TraceSummary[i] = newest[i] \/ Unsettled(Len(happened) - Len(newest) + i - 1)
              /\ (\A n \in TraceWindow : ~Unsettled(n)) => MatchedEvents = Matching(newest)
    /\ returned \o FromIndex(kbd.data, KBD_CAPACITY, kbd.head, kbd.count) = accepted

=============================================================================

----------------------------- MODULE IpcKernel -----------------------------
(***************************************************************************)
(* The scheduler (kernel/scheduler/mod.rs) and the message passing calls   *)
(* (kernel/process/ipc.rs) of RunixOS on its one scheduling core.          *)
(*                                                                         *)
(* A step is one critical section of the global SCHEDULER spinlock.  Only  *)
(* the task named by current_task_id executes; it loses the processor in   *)
(* yield_cpu, by terminating, or to the timer (preempt_reschedule), and    *)
(* the timer can do that between any two critical sections of a kernel     *)
(* task.  A ring-3 task enters the kernel through an interrupt gate, so it *)
(* is never preempted inside a call.                                       *)
(*                                                                         *)
(* Capabilities are projected to what a send reads of them: the task an    *)
(* IpcChannel capability in a slot names.  Messages carry their sender, a  *)
(* per-sender number and the call that sent them; the payload is opaque.   *)
(***************************************************************************)
EXTENDS Integers, Sequences, FiniteSets

CONSTANTS
    MAX_TASKS,           \* number of task slots
    MSG_QUEUE_CAPACITY,  \* capacity of a task's asynchronous queue
    MAX_CAPS,            \* slots of a capability table
    KernelTasks,         \* tasks that run in ring 0 with interrupts enabled
    BootTasks,           \* tasks installed before the scheduler starts
    BootChan,            \* BootChan[t][s]: task named by slot s of t's table
    MaxSends,            \* bound: messages a task sends
    MaxSlotOps,          \* bound: task slots filled or emptied after boot
    MaxCapOps,           \* bound: capability table changes after boot
    NoTask,              \* None, for a task id
    NoMsg                \* None, for a message

Tasks == 0 .. (MAX_TASKS - 1)
Slots == 0 .. (MAX_CAPS - 1)
ChanTable == [Slots -> Tasks \cup {NoTask}]
Message == [src : Tasks, seq : 0 .. MaxSends, kind : {"sync", "async"}]

ASSUME ConstantsAssumption ==
    /\ MAX_TASKS \in Nat \ {0} /\ MSG_QUEUE_CAPACITY \in Nat \ {0}
    /\ MAX_CAPS \in Nat \ {0}
    /\ MaxSends \in Nat /\ MaxSlotOps \in Nat /\ MaxCapOps \in Nat
    /\ KernelTasks \subseteq Tasks /\ BootTasks \subseteq Tasks
    /\ BootChan \in [Tasks -> ChanTable]
    /\ NoTask \notin Tasks /\ NoMsg \notin Message

VARIABLES
    state,       \* Task::state without BlockedOnSend's argument; "none": empty slot
    waitFor,     \* the argument of BlockedOnSend, NoTask in the other states
    ipc_buffer,  \* Task::ipc_buffer
    msg_queue,   \* Task::msg_queue, oldest first
    chan,        \* Task::cap_table, as the task each slot's IpcChannel names
    current,     \* Scheduler::current_task_id
    pc,          \* where a task is in its present system call
    slot,        \* cap_idx argument of the synchronous send in progress
    sent,        \* number of messages a task has built so far
    delivered,   \* messages counted by IPC_DELIVERIES
    acked,       \* messages whose send returned Ok
    failed,      \* messages whose send returned Err
    received,    \* received[t]: what t's receive calls returned, in order
    slotOps,     \* slots filled or emptied after boot
    capOps       \* capability table changes after boot

vars == <<state, waitFor, ipc_buffer, msg_queue, chan, current, pc, slot, sent,
          delivered, acked, failed, received, slotOps, capOps>>

TaskStates ==
    {"none", "Ready", "Running", "BlockedOnReceive", "BlockedOnSend", "Terminated"}

\* user: in the task's own code.  sendYield, sendCheck, sendRetry, sendGone:
\* the four places between critical sections of sys_send_typed.  recvYield,
\* recvRetry: the same of sys_receive_typed.  dead: never resumed.
ProgramPoints ==
    {"user", "sendYield", "sendCheck", "sendRetry", "sendGone",
     "recvYield", "recvRetry", "dead"}

-----------------------------------------------------------------------------
(* Scheduling *)

\* Mutant: a task that terminated still counts as alive.
AliveIfPresent(t) == state[t] # "none"

Alive(t) == state[t] \notin {"none", "Terminated"}

\* Mutant: the search starts at slot 0 every time.
DistanceFromZero(t, i) == i

\* The distance of slot i from the slot after t, walking the table round.
RoundRobinDistance(t, i) == (i - t - 1 + MAX_TASKS) % MAX_TASKS

\* n is the first Ready task after t in the st table.
NextReady(st, t, n) ==
    /\ st[n] = "Ready"
    /\ \A i \in Tasks :
           st[i] = "Ready" => RoundRobinDistance(t, n) <= RoundRobinDistance(t, i)

\* Mutant: the task that gives the processor away is not demoted.
SwitchWithoutDemotion(t, n) ==
    /\ state' = [state EXCEPT ![n] = "Running"]
    /\ current' = n

\* The processor passes from t to n.
SwitchTo(t, n) ==
    /\ state' = [state EXCEPT ![t] = IF @ = "Running" THEN "Ready" ELSE @,
                              ![n] = "Running"]
    /\ current' = n

\* yield_cpu by the current task: with no other task Ready it returns at
\* once and leaves every state as it is, a blocked caller's included.
YieldCpu(t) ==
    \/ \E n \in Tasks \ {t} : NextReady(state, t, n) /\ SwitchTo(t, n)
    \/ /\ \A n \in Tasks \ {t} : state[n] # "Ready"
       /\ UNCHANGED <<state, current>>

\* _start's call of yield_cpu: no task is current, the first Ready one starts.
Boot ==
    /\ current = NoTask
    /\ \E n \in Tasks :
           /\ NextReady(state, MAX_TASKS - 1, n)
           /\ state' = [state EXCEPT ![n] = "Running"]
           /\ current' = n
    /\ UNCHANGED <<waitFor, ipc_buffer, msg_queue, chan, pc, slot, sent,
                   delivered, acked, failed, received, slotOps, capOps>>

\* A voluntary yield from the task's own code.
Yield(t) ==
    /\ current = t /\ pc[t] = "user"
    /\ YieldCpu(t)
    /\ UNCHANGED <<waitFor, ipc_buffer, msg_queue, chan, pc, slot, sent,
                   delivered, acked, failed, received, slotOps, capOps>>

\* The timer interrupt switches tasks, when it is armed and lands between two
\* critical sections.
Preempt(t) ==
    /\ current = t /\ pc[t] # "dead"
    /\ t \in KernelTasks \/ pc[t] = "user"
    /\ \E n \in Tasks \ {t} : NextReady(state, t, n) /\ SwitchTo(t, n)
    /\ UNCHANGED <<waitFor, ipc_buffer, msg_queue, chan, pc, slot, sent,
                   delivered, acked, failed, received, slotOps, capOps>>

\* Mutant: the senders parked on the dead task are not woken.
StateAfterSilentDeath(t) == [state EXCEPT ![t] = "Terminated"]

\* States after the current task t died: senders parked on it are Ready.
StateAfterDeath(t) ==
    [u \in Tasks |->
        IF u = t THEN "Terminated"
        ELSE IF state[u] = "BlockedOnSend" /\ waitFor[u] = t THEN "Ready"
        ELSE state[u]]

WaitForAfterDeath(t) ==
    [u \in Tasks |-> IF waitFor[u] = t THEN NoTask ELSE waitFor[u]]

\* terminate_current_task, on a clean exit or a contained fault.  With no
\* Ready task left the core halts with interrupts off and t stays current.
TerminateCurrentTask(t) ==
    /\ current = t /\ pc[t] = "user"
    /\ LET st == StateAfterDeath(t)
       IN  \/ \E n \in Tasks :
                  /\ NextReady(st, t, n)
                  /\ state' = [st EXCEPT ![n] = "Running"]
                  /\ current' = n
           \/ /\ \A n \in Tasks : st[n] # "Ready"
              /\ state' = st
              /\ UNCHANGED current
    /\ waitFor' = WaitForAfterDeath(t)
    /\ pc' = [pc EXCEPT ![t] = "dead"]
    /\ UNCHANGED <<ipc_buffer, msg_queue, chan, slot, sent,
                   delivered, acked, failed, received, slotOps, capOps>>

\* The hlt loop at the end of terminate_current_task.
Halted(t) ==
    /\ current = t /\ pc[t] = "dead"
    /\ UNCHANGED vars

\* The current task installs a fresh Task in slot u, empty or holding a dead
\* task: the service spawns of the shell and the restarts of the watchdog.
Spawn(t, u) ==
    /\ current = t /\ pc[t] = "user"
    /\ ~Alive(u) /\ u # t
    /\ slotOps < MaxSlotOps
    /\ state' = [state EXCEPT ![u] = "Ready"]
    /\ ipc_buffer' = [ipc_buffer EXCEPT ![u] = NoMsg]
    /\ msg_queue' = [msg_queue EXCEPT ![u] = << >>]
    /\ chan' = [chan EXCEPT ![u] = BootChan[u]]
    /\ pc' = [pc EXCEPT ![u] = "user"]
    /\ slotOps' = slotOps + 1
    /\ UNCHANGED <<waitFor, current, slot, sent,
                   delivered, acked, failed, received, capOps>>

\* The current task empties the slot of another task: service restart and
\* migrate, and the clean-up of the shell's stress and preemption commands.
\* Nobody is woken.
ClearSlot(t, u) ==
    /\ current = t /\ pc[t] = "user"
    /\ state[u] # "none" /\ u # t
    /\ slotOps < MaxSlotOps
    /\ state' = [state EXCEPT ![u] = "none"]
    /\ waitFor' = [waitFor EXCEPT ![u] = NoTask]
    /\ ipc_buffer' = [ipc_buffer EXCEPT ![u] = NoMsg]
    /\ msg_queue' = [msg_queue EXCEPT ![u] = << >>]
    /\ pc' = [pc EXCEPT ![u] = "dead"]
    /\ slotOps' = slotOps + 1
    /\ UNCHANGED <<chan, current, slot, sent,
                   delivered, acked, failed, received, capOps>>

-----------------------------------------------------------------------------
(* Capability table changes, as far as message passing sees them *)

\* kernel_revoke(s) on the table of task u, by the current task.
KernelRevoke(t, u, s) ==
    /\ current = t /\ pc[t] = "user"
    /\ Alive(u) /\ chan[u][s] # NoTask
    /\ capOps < MaxCapOps
    /\ chan' = [chan EXCEPT ![u][s] = NoTask]
    /\ capOps' = capOps + 1
    /\ UNCHANGED <<state, waitFor, ipc_buffer, msg_queue, current, pc, slot, sent,
                   delivered, acked, failed, received, slotOps>>

\* insert of a channel to v into the first free slot of u's table.
CapInsert(t, u, v) ==
    /\ current = t /\ pc[t] = "user"
    /\ Alive(u)
    /\ capOps < MaxCapOps
    /\ \E s \in Slots :
           /\ chan[u][s] = NoTask
           /\ \A r \in Slots : r < s => chan[u][r] # NoTask
           /\ chan' = [chan EXCEPT ![u][s] = v]
    /\ capOps' = capOps + 1
    /\ UNCHANGED <<state, waitFor, ipc_buffer, msg_queue, current, pc, slot, sent,
                   delivered, acked, failed, received, slotOps>>

-----------------------------------------------------------------------------
(* sys_send_typed *)

Msg(t, n, k) == [src |-> t, seq |-> n, kind |-> k]

\* The message of the synchronous send t is in.
OwnMsg(t) == Msg(t, sent[t], "sync")

\* The capability is gone: drop what ipc_buffer holds, return NoCapability.
RefuseSend(t, m) ==
    /\ ipc_buffer' = [ipc_buffer EXCEPT ![t] = NoMsg]
    /\ failed' = failed \cup {m}
    /\ pc' = [pc EXCEPT ![t] = "user"]
    /\ UNCHANGED <<state, waitFor, delivered, acked>>

\* SendStep::Gone
FindTargetGone(t, target) ==
    /\ ~Alive(target)
    /\ pc' = [pc EXCEPT ![t] = "sendGone"]
    /\ UNCHANGED <<state, waitFor, ipc_buffer, delivered, acked, failed>>

\* Mutant: a half-delivery, deposited but the receiver not marked Ready.
DepositWithoutWake(t, target, m) ==
    /\ state[target] = "BlockedOnReceive"
    /\ ipc_buffer' = [ipc_buffer EXCEPT ![target] = m]
    /\ delivered' = delivered \cup {m}
    /\ acked' = acked \cup {m}
    /\ pc' = [pc EXCEPT ![t] = "user"]
    /\ UNCHANGED <<state, waitFor, failed>>

\* SendStep::Delivered; the sender's own ipc_buffer stays as it is.
Deposit(t, target, m) ==
    /\ state[target] = "BlockedOnReceive"
    /\ ipc_buffer' = [ipc_buffer EXCEPT ![target] = m]
    /\ state' = [state EXCEPT ![target] = "Ready"]
    /\ delivered' = delivered \cup {m}
    /\ acked' = acked \cup {m}
    /\ pc' = [pc EXCEPT ![t] = "user"]
    /\ UNCHANGED <<waitFor, failed>>

\* SendStep::Blocked
Park(t, target, m) ==
    /\ Alive(target) /\ state[target] # "BlockedOnReceive"
    /\ state' = [state EXCEPT ![t] = "BlockedOnSend"]
    /\ waitFor' = [waitFor EXCEPT ![t] = target]
    /\ ipc_buffer' = [ipc_buffer EXCEPT ![t] = m]
    /\ pc' = [pc EXCEPT ![t] = "sendYield"]
    /\ UNCHANGED <<delivered, acked, failed>>

\* One pass of the validate-and-use region, for message m through slot s.
ValidateAndUse(t, s, m) ==
    \/ chan[t][s] = NoTask /\ RefuseSend(t, m)
    \/ /\ chan[t][s] # NoTask
       /\ \/ FindTargetGone(t, chan[t][s])
          \/ Deposit(t, chan[t][s], m)
          \/ Park(t, chan[t][s], m)

SendTyped(t, s) ==
    /\ current = t /\ pc[t] = "user"
    /\ sent[t] < MaxSends
    /\ sent' = [sent EXCEPT ![t] = @ + 1]
    /\ slot' = [slot EXCEPT ![t] = s]
    /\ ValidateAndUse(t, s, Msg(t, sent[t] + 1, "sync"))
    /\ UNCHANGED <<msg_queue, chan, current, received, slotOps, capOps>>

\* A parked send whose yield returned with the message still parked tries again.
SendRetry(t) ==
    /\ current = t /\ pc[t] = "sendRetry"
    /\ ValidateAndUse(t, slot[t], OwnMsg(t))
    /\ UNCHANGED <<msg_queue, chan, current, slot, sent, received, slotOps, capOps>>

\* The target was dead: drop what ipc_buffer holds and return TargetGone.
SendGone(t) ==
    /\ current = t /\ pc[t] = "sendGone"
    /\ ipc_buffer' = [ipc_buffer EXCEPT ![t] = NoMsg]
    /\ failed' = failed \cup {OwnMsg(t)}
    /\ pc' = [pc EXCEPT ![t] = "user"]
    /\ UNCHANGED <<state, waitFor, msg_queue, chan, current, slot, sent,
                   delivered, acked, received, slotOps, capOps>>

SendYield(t) ==
    /\ current = t /\ pc[t] = "sendYield"
    /\ YieldCpu(t)
    /\ pc' = [pc EXCEPT ![t] = "sendCheck"]
    /\ UNCHANGED <<waitFor, ipc_buffer, msg_queue, chan, slot, sent,
                   delivered, acked, failed, received, slotOps, capOps>>

\* Mutant: any return from the yield counts as a delivery.
SendCheckAnyWake(t) ==
    /\ current = t /\ pc[t] = "sendCheck"
    /\ acked' = acked \cup {OwnMsg(t)}
    /\ pc' = [pc EXCEPT ![t] = "user"]
    /\ UNCHANGED <<state, waitFor, ipc_buffer, msg_queue, chan, current, slot, sent,
                   delivered, failed, received, slotOps, capOps>>

\* Back from the yield: an empty ipc_buffer means a receiver took the message.
SendCheck(t) ==
    /\ current = t /\ pc[t] = "sendCheck"
    /\ \/ /\ ipc_buffer[t] = NoMsg
          /\ acked' = acked \cup {OwnMsg(t)}
          /\ pc' = [pc EXCEPT ![t] = "user"]
       \/ /\ ipc_buffer[t] # NoMsg
          /\ pc' = [pc EXCEPT ![t] = "sendRetry"]
          /\ UNCHANGED acked
    /\ UNCHANGED <<state, waitFor, ipc_buffer, msg_queue, chan, current, slot, sent,
                   delivered, failed, received, slotOps, capOps>>

-----------------------------------------------------------------------------
(* sys_receive_typed and sys_receive_async *)

\* The call returns m; a rendezvous that found no message returns TargetGone.
Returns(t, m) ==
    /\ received' = [received EXCEPT ![t] = IF m = NoMsg THEN @ ELSE Append(@, m)]
    /\ pc' = [pc EXCEPT ![t] = "user"]

Parked(t) == {u \in Tasks : state[u] = "BlockedOnSend" /\ waitFor[u] = t}

\* The sources of a message, in the order both receive calls try them.
TakeQueued(t) ==
    /\ msg_queue[t] # << >>
    /\ msg_queue' = [msg_queue EXCEPT ![t] = Tail(@)]
    /\ Returns(t, Head(msg_queue[t]))
    /\ UNCHANGED <<state, waitFor, ipc_buffer, delivered>>

TakeDeposited(t) ==
    /\ msg_queue[t] = << >> /\ ipc_buffer[t] # NoMsg
    /\ ipc_buffer' = [ipc_buffer EXCEPT ![t] = NoMsg]
    /\ Returns(t, ipc_buffer[t])
    /\ UNCHANGED <<state, waitFor, msg_queue, delivered>>

\* Mutant: the sender stays BlockedOnSend.
RendezvousWithoutWake(t, u) ==
    /\ ipc_buffer' = [ipc_buffer EXCEPT ![u] = NoMsg]
    /\ state' = [state EXCEPT ![t] = "Running"]
    /\ delivered' = delivered \cup ({ipc_buffer[u]} \ {NoMsg})
    /\ Returns(t, ipc_buffer[u])
    /\ UNCHANGED waitFor

\* Mutant: the message is copied out of the sender's ipc_buffer, not taken.
RendezvousByCopy(t, u) ==
    /\ state' = [state EXCEPT ![u] = "Ready", ![t] = "Running"]
    /\ waitFor' = [waitFor EXCEPT ![u] = NoTask]
    /\ delivered' = delivered \cup ({ipc_buffer[u]} \ {NoMsg})
    /\ Returns(t, ipc_buffer[u])
    /\ UNCHANGED ipc_buffer

\* The receiver t takes the message parked by the sender u and wakes it.
Rendezvous(t, u) ==
    /\ ipc_buffer' = [ipc_buffer EXCEPT ![u] = NoMsg]
    /\ state' = [state EXCEPT ![u] = "Ready", ![t] = "Running"]
    /\ waitFor' = [waitFor EXCEPT ![u] = NoTask]
    /\ delivered' = delivered \cup ({ipc_buffer[u]} \ {NoMsg})
    /\ Returns(t, ipc_buffer[u])

\* Mutant: a parked sender is served before the queue is drained.
TakeParkedFirst(t) ==
    /\ \E u \in Parked(t) : (\A v \in Parked(t) : u <= v) /\ Rendezvous(t, u)
    /\ UNCHANGED msg_queue

\* Rendezvous with the parked sender in the lowest slot.
TakeParked(t) ==
    /\ msg_queue[t] = << >> /\ ipc_buffer[t] = NoMsg
    /\ \E u \in Parked(t) : (\A v \in Parked(t) : u <= v) /\ Rendezvous(t, u)
    /\ UNCHANGED msg_queue

NothingToReceive(t) ==
    msg_queue[t] = << >> /\ ipc_buffer[t] = NoMsg /\ Parked(t) = {}

\* One pass of the loop of sys_receive_typed.
ReceiveTyped(t) ==
    /\ current = t /\ pc[t] \in {"user", "recvRetry"}
    /\ \/ TakeQueued(t)
       \/ TakeDeposited(t)
       \/ TakeParked(t)
       \/ /\ NothingToReceive(t)
          /\ state' = [state EXCEPT ![t] = "BlockedOnReceive"]
          /\ pc' = [pc EXCEPT ![t] = "recvYield"]
          /\ UNCHANGED <<waitFor, ipc_buffer, msg_queue, delivered, received>>
    /\ UNCHANGED <<chan, current, slot, sent, acked, failed, slotOps, capOps>>

ReceiveYield(t) ==
    /\ current = t /\ pc[t] = "recvYield"
    /\ YieldCpu(t)
    /\ pc' = [pc EXCEPT ![t] = "recvRetry"]
    /\ UNCHANGED <<waitFor, ipc_buffer, msg_queue, chan, slot, sent,
                   delivered, acked, failed, received, slotOps, capOps>>

\* With nothing to receive the call returns NoMessage and changes nothing.
ReceiveAsync(t) ==
    /\ current = t /\ pc[t] = "user"
    /\ \/ TakeQueued(t)
       \/ TakeDeposited(t)
       \/ TakeParked(t)
    /\ UNCHANGED <<chan, current, slot, sent, acked, failed, slotOps, capOps>>

-----------------------------------------------------------------------------
(* sys_send_async *)

\* Mutant: the queue is full one message too late.
QueueOverfull(t) == Len(msg_queue[t]) > MSG_QUEUE_CAPACITY

QueueFull(t) == Len(msg_queue[t]) = MSG_QUEUE_CAPACITY

SendAsync(t, s) ==
    LET m == Msg(t, sent[t] + 1, "async")
        target == chan[t][s]
    IN  /\ current = t /\ pc[t] = "user"
        /\ sent[t] < MaxSends
        /\ sent' = [sent EXCEPT ![t] = @ + 1]
        /\ \/ /\ target # NoTask /\ Alive(target)
              /\ ~QueueFull(target)
              /\ msg_queue' = [msg_queue EXCEPT ![target] = Append(@, m)]
              /\ state' = [state EXCEPT ![target] =
                               IF @ = "BlockedOnReceive" THEN "Ready" ELSE @]
              /\ delivered' = delivered \cup {m}
              /\ acked' = acked \cup {m}
              /\ UNCHANGED failed
           \/ /\ \/ target = NoTask                          \* NoCapability
                 \/ target # NoTask /\ ~Alive(target)        \* TargetGone
                 \/ /\ target # NoTask /\ Alive(target)
                    /\ QueueFull(target)
              /\ failed' = failed \cup {m}
              /\ UNCHANGED <<state, msg_queue, delivered, acked>>
        /\ UNCHANGED <<waitFor, ipc_buffer, chan, current, pc, slot, received,
                       slotOps, capOps>>

-----------------------------------------------------------------------------
Init ==
    /\ state = [t \in Tasks |-> IF t \in BootTasks THEN "Ready" ELSE "none"]
    /\ waitFor = [t \in Tasks |-> NoTask]
    /\ ipc_buffer = [t \in Tasks |-> NoMsg]
    /\ msg_queue = [t \in Tasks |-> << >>]
    /\ chan = BootChan
    /\ current = NoTask
    /\ pc = [t \in Tasks |-> "user"]
    /\ slot = [t \in Tasks |-> 0]
    /\ sent = [t \in Tasks |-> 0]
    /\ delivered = {} /\ acked = {} /\ failed = {}
    /\ received = [t \in Tasks |-> << >>]
    /\ slotOps = 0 /\ capOps = 0

\* What the code of task t can do when the processor executes it.
Step(t) ==
    \/ Yield(t) \/ TerminateCurrentTask(t) \/ Halted(t)
    \/ \E s \in Slots : SendTyped(t, s) \/ SendAsync(t, s)
    \/ SendRetry(t) \/ SendGone(t) \/ SendYield(t) \/ SendCheck(t)
    \/ ReceiveTyped(t) \/ ReceiveYield(t) \/ ReceiveAsync(t)
    \/ \E u \in Tasks : Spawn(t, u) \/ ClearSlot(t, u)
    \/ \E u \in Tasks, s \in Slots : KernelRevoke(t, u, s)
    \/ \E u, v \in Tasks : CapInsert(t, u, v)

Next == Boot \/ \E t \in Tasks : Step(t) \/ Preempt(t)

Spec == Init /\ [][Next]_vars

\* The processor keeps executing the current task; a task that stays in its
\* own code while others are Ready is time-sliced out (the timer is armed); and
\* a time slice is longer than a critical section, so a task that is inside a
\* call and gets the processor again and again gets on with the call.
Fairness ==
    /\ WF_vars(Boot)
    /\ WF_vars(\E t \in Tasks : Step(t))
    /\ WF_vars(\E t \in Tasks : Preempt(t))
    /\ \A t \in Tasks : SF_vars(pc[t] # "user" /\ Step(t))

FairSpec == Spec /\ Fairness

-----------------------------------------------------------------------------
(* Properties *)

\* Type invariant: every variable has the shape of the Scheduler and Task
\* fields it stands for, and no queue exceeds MSG_QUEUE_CAPACITY.
TypeOK ==
    /\ state \in [Tasks -> TaskStates]
    /\ waitFor \in [Tasks -> Tasks \cup {NoTask}]
    /\ ipc_buffer \in [Tasks -> Message \cup {NoMsg}]
    /\ msg_queue \in [Tasks -> Seq(Message)]
    /\ \A t \in Tasks : Len(msg_queue[t]) <= MSG_QUEUE_CAPACITY
    /\ chan \in [Tasks -> ChanTable]
    /\ current \in Tasks \cup {NoTask}
    /\ pc \in [Tasks -> ProgramPoints]
    /\ slot \in [Tasks -> Slots]
    /\ sent \in [Tasks -> 0 .. MaxSends]
    /\ delivered \subseteq Message /\ acked \subseteq Message /\ failed \subseteq Message
    /\ received \in [Tasks -> Seq(Message)]
    /\ slotOps \in 0 .. MaxSlotOps /\ capOps \in 0 .. MaxCapOps

\* At most one task is Running and it is the current one; whenever the current
\* task executes its own code, rather than a send or receive that is about to
\* give the processor away, it is Running, however it was blocked, woken,
\* preempted or left spinning before (yield_cpu, preempt_reschedule,
\* terminate_current_task and the state writes of the ipc calls together).
ActiveTaskIsRunning ==
    /\ \A t \in Tasks : state[t] = "Running" => current = t
    /\ current # NoTask =>
           state[current] \in CASE pc[current] \in {"user", "sendGone"} -> {"Running"}
                                [] pc[current] \in {"sendYield", "sendCheck", "sendRetry"} ->
                                       {"Running", "BlockedOnSend"}
                                [] pc[current] \in {"recvYield", "recvRetry"} ->
                                       {"Running", "BlockedOnReceive"}
                                [] pc[current] = "dead" -> {"Terminated"}

\* No wakeup is lost: a task that is BlockedOnReceive has nothing it could
\* receive, in its queue, in its ipc_buffer or from a parked sender, even when
\* the timer takes the processor between its decision to block and its yield
\* (sys_receive_typed 349-396 against both sends).
NoLostWakeup ==
    \A t \in Tasks : state[t] = "BlockedOnReceive" => NothingToReceive(t)

\* A task that is BlockedOnSend has its message parked and nobody was given it
\* yet, so a rendezvous always finds a message (ipc.rs 377, 386) and hands each
\* message over once.
ParkedMessageIsPending ==
    \A t \in Tasks :
        state[t] = "BlockedOnSend" =>
            ipc_buffer[t] = OwnMsg(t) /\ OwnMsg(t) \notin delivered

\* Nobody stays parked on a task that terminated: terminate_current_task 84-95
\* wakes them, and no send parks on a dead task.
NobodyWaitsForTheDead ==
    \A t \in Tasks :
        state[t] = "BlockedOnSend" => state[waitFor[t]] # "Terminated"

\* The result of a send is the truth about its message: Ok means that the
\* message was handed over, an error that it never was and never will be,
\* across every retry, revocation and death in between (sys_send_typed 312-337).
SendResultIsTruthful ==
    acked \subseteq delivered /\ failed \cap delivered = {}

\* No message is received twice by anybody but its own sender.
ReceivedAtMostOnce ==
    \A t, u \in Tasks : \A i \in DOMAIN received[t], j \in DOMAIN received[u] :
        /\ received[t][i] = received[u][j]
        /\ received[t][i].src \notin {t, u}
        => t = u /\ i = j

\* Two messages of one sender are received in the order they were sent, but
\* for an asynchronous message that overtakes an earlier synchronous one:
\* the queue is drained before ipc_buffer is looked at (ipc.rs 352-360).
FifoButForOvertaking ==
    \A t \in Tasks : \A i, j \in DOMAIN received[t] :
        LET a == received[t][i]
            b == received[t][j]
        IN  i < j /\ a.src = b.src /\ a.src # t
              => a.seq < b.seq \/ (a.kind = "async" /\ b.kind = "sync")

\* The target a synchronous send of t is addressed to at present.
TargetOf(t) == chan[t][slot[t]]

\* Liveness: every Ready task gets the processor; the round-robin search of
\* yield_cpu, preempt_reschedule and terminate_current_task starves nobody.
ReadyTaskRuns ==
    \A t \in Tasks : state[t] = "Ready" ~> state[t] # "Ready"

\* Liveness: a send whose target has terminated returns, unless the slot of
\* the target is filled again first (terminate_current_task 84-95 and the
\* TargetGone path of sys_send_typed).
SendToTheDeadReturns ==
    \A t \in Tasks :
        pc[t] \in {"sendYield", "sendCheck"} /\ TargetOf(t) # NoTask
          /\ state[TargetOf(t)] = "Terminated"
        ~> pc[t] \in {"user", "dead"} \/ (TargetOf(t) # NoTask => Alive(TargetOf(t)))

\* "a delivered message implies the capability was valid at the instant of
\* delivery" (ipc.rs 250): when a synchronous message is handed over, the slot
\* it was sent through still holds a capability.
DeliveryUnderCapability ==
    [][\A m \in delivered' \ delivered :
           m.kind = "sync" => chan[m.src][slot'[m.src]] # NoTask]_vars

\* "... and the receiver will observe it" (ipc.rs 251): a message deposited in
\* the ipc_buffer of a task that lives on leaves it only by being received.
DepositIsObserved ==
    [][\A t \in Tasks :
           /\ ipc_buffer[t] # NoMsg /\ ipc_buffer[t].src # t
           /\ ipc_buffer'[t] # ipc_buffer[t]
           /\ Alive(t) /\ Alive(t)'
           => received'[t] = Append(received[t], ipc_buffer[t])]_vars

-----------------------------------------------------------------------------
(* The inductive strengthening behind the theorems of IpcKernelProofs *)

\* How a task's state, its place in a call and the processor hang together.
SchedInvOf(t) ==
    /\ state[t] = "Ready" => t # current /\ pc[t] # "dead"
    /\ state[t] = "Running" => t = current /\ pc[t] # "dead"
    /\ state[t] = "BlockedOnReceive" => pc[t] \in {"recvYield", "recvRetry"}
    /\ state[t] = "BlockedOnSend" =>
           pc[t] \in {"sendYield", "sendCheck", "sendRetry"} /\ waitFor[t] \in Tasks
    /\ state[t] # "BlockedOnSend" => waitFor[t] = NoTask
    /\ state[t] = "Terminated" => pc[t] = "dead"

SchedInv ==
    /\ \A t \in Tasks : SchedInvOf(t)
    /\ current # NoTask => state[current] # "none"

\* A blocked task executes past its yield only when no task at all is Ready,
\* and then nothing it decided on has changed.
SpinInvOf(t) ==
    /\ state[t] \in {"BlockedOnSend", "BlockedOnReceive"} /\ current = t
       /\ pc[t] \in {"sendCheck", "sendRetry", "recvRetry"}
       => \A u \in Tasks : state[u] # "Ready"
    /\ state[t] = "BlockedOnSend" /\ pc[t] = "sendRetry" => current = t
    /\ current = t /\ state[t] = "BlockedOnSend"
       => chan[t][slot[t]] = waitFor[t] /\ Alive(waitFor[t])

SpinInv == \A t \in Tasks : SpinInvOf(t)

\* What is known of the message of a synchronous send at each program point.
SendInv ==
    \A t \in Tasks :
        /\ pc[t] \in {"sendYield", "sendCheck", "sendRetry", "sendGone"} =>
               sent[t] > 0 /\ OwnMsg(t) \notin failed
        /\ pc[t] \in {"sendRetry", "sendGone"} => OwnMsg(t) \notin delivered
        /\ pc[t] = "sendRetry" => ipc_buffer[t] = OwnMsg(t)
        /\ pc[t] \in {"sendYield", "sendCheck"} =>
               \/ ipc_buffer[t] = OwnMsg(t) /\ OwnMsg(t) \notin delivered
               \/ /\ ipc_buffer[t] = NoMsg /\ OwnMsg(t) \in delivered
                  /\ state[t] # "BlockedOnSend"

\* Messages not built yet are in no record.
LedgerInv ==
    \A m \in delivered \cup failed \cup acked : m.seq <= sent[m.src]

IndInv ==
    /\ TypeOK /\ SchedInv /\ SpinInv /\ NoLostWakeup /\ NobodyWaitsForTheDead
    /\ SendInv /\ LedgerInv /\ SendResultIsTruthful

-----------------------------------------------------------------------------
(* The inductive strengthening behind the theorems on the order of messages *)

\* A message lies in ipc_buffer that somebody else put there.
Deposited(t) == ipc_buffer[t] # NoMsg /\ ipc_buffer[t].src # t

\* Whatever was received, queued or deposited was counted as delivered; the
\* one message that was not is the one a task has parked in its own
\* ipc_buffer.  The queues hold asynchronous messages, ipc_buffer the others.
PlacesInv ==
    \A t \in Tasks :
        /\ \A i \in DOMAIN received[t] : received[t][i] \in delivered
        /\ \A i \in DOMAIN msg_queue[t] :
               msg_queue[t][i] \in delivered /\ msg_queue[t][i].kind = "async"
        /\ ipc_buffer[t] # NoMsg =>
               /\ ipc_buffer[t].kind = "sync"
               /\ \/ ipc_buffer[t] \in delivered
                  \/ /\ ipc_buffer[t] = OwnMsg(t)
                     /\ pc[t] \in {"sendYield", "sendCheck", "sendRetry", "sendGone"}

\* A message is in one place: received, queued or deposited.  The exception is
\* the copy that a retry which delivers leaves in the sender's ipc_buffer, and
\* that only the sender can receive.
OncePlaced ==
    /\ ReceivedAtMostOnce
    /\ \A t, u \in Tasks : \A i \in DOMAIN msg_queue[t] :
           /\ \A j \in DOMAIN msg_queue[u] :
                  msg_queue[t][i] = msg_queue[u][j] => t = u /\ i = j
           /\ \A j \in DOMAIN received[u] : msg_queue[t][i] # received[u][j]
    /\ \A t, u \in Tasks : Deposited(t) =>
           /\ Deposited(u) /\ ipc_buffer[t] = ipc_buffer[u] => t = u
           /\ \A j \in DOMAIN received[u] :
                  received[u][j] = ipc_buffer[t] => ipc_buffer[t].src = u

\* What waits to be received is in order with what was.
WaitsInOrder ==
    /\ FifoButForOvertaking
    /\ \A t \in Tasks : \A j \in DOMAIN msg_queue[t] :
           /\ \A i \in DOMAIN msg_queue[t] :
                  i < j /\ msg_queue[t][i].src = msg_queue[t][j].src
                    => msg_queue[t][i].seq < msg_queue[t][j].seq
           /\ \A i \in DOMAIN received[t] :
                  received[t][i].src = msg_queue[t][j].src
                    => received[t][i].seq < msg_queue[t][j].seq
    /\ \A t \in Tasks : Deposited(t) =>
           \A i \in DOMAIN received[t] :
               received[t][i].src = ipc_buffer[t].src
                 => received[t][i].seq < ipc_buffer[t].seq \/ received[t][i].kind = "async"

OrderInv == PlacesInv /\ OncePlaced /\ WaitsInOrder
=============================================================================

-------------------------- MODULE IpcKernelProofs --------------------------
(***************************************************************************)
(* Proofs, for every number of tasks, slots, sends and faults, of the      *)
(* safety properties of IpcKernel.  IndInv is inductive; one lemma for     *)
(* each kind of step shows that the step preserves it: first the types,    *)
(* the scheduling steps and the changes of slots and capabilities, then    *)
(* the message passing calls.  OrderInv, inductive together with IndInv,   *)
(* says where messages are: no message is handed over twice, and those of  *)
(* a sender keep their order but for the overtaking the receive calls      *)
(* allow.                                                                  *)
(***************************************************************************)
EXTENDS IpcKernel, TLAPS

-----------------------------------------------------------------------------
(* Types and scheduling *)

\* The Message that sys_send_typed and sys_send_async build is well-formed.
LEMMA MsgType ==
    ASSUME NEW t \in Tasks, NEW n \in 0 .. MaxSends, NEW k \in {"sync", "async"}
    PROVE  Msg(t, n, k) \in Message
BY Zenon DEF Msg, Message

\* The types of what a pass of the validate-and-use region assigns.
ValidatedTypes ==
    /\ state' \in [Tasks -> TaskStates]
    /\ waitFor' \in [Tasks -> Tasks \cup {NoTask}]
    /\ ipc_buffer' \in [Tasks -> Message \cup {NoMsg}]
    /\ pc' \in [Tasks -> ProgramPoints]
    /\ delivered' \subseteq Message
    /\ acked' \subseteq Message
    /\ failed' \subseteq Message

\* One pass of the validate-and-use region of sys_send_typed, whichever way it
\* ends, writes values of the right type.
LEMMA ValidateAndUseType ==
    ASSUME TypeOK, NEW t \in Tasks, NEW s \in Slots, NEW m \in Message,
           ValidateAndUse(t, s, m)
    PROVE  ValidatedTypes
<1>1. CASE RefuseSend(t, m)
  BY <1>1, Zenon DEF TypeOK, RefuseSend, ProgramPoints, ValidatedTypes
<1>2. ASSUME NEW target \in Tasks, FindTargetGone(t, target) PROVE ValidatedTypes
  BY <1>2, Zenon DEF TypeOK, FindTargetGone, ProgramPoints, ValidatedTypes
<1>3. ASSUME NEW target \in Tasks, Deposit(t, target, m) PROVE ValidatedTypes
  BY <1>3, Zenon DEF TypeOK, Deposit, ProgramPoints, TaskStates, ValidatedTypes
<1>4. ASSUME NEW target \in Tasks, Park(t, target, m) PROVE ValidatedTypes
  BY <1>4, Zenon DEF TypeOK, Park, ProgramPoints, TaskStates, ValidatedTypes
<1> QED
  <2>1. chan[t][s] \in Tasks \cup {NoTask}
    BY DEF TypeOK, ChanTable
  <2> QED
    BY <1>1, <1>2, <1>3, <1>4, <2>1, Zenon DEF ValidateAndUse

\* Every critical section of the scheduler and of the message passing calls
\* preserves the types; the queue bound rests on the is_full test of enqueue.
LEMMA TypeStep ==
    ASSUME TypeOK, [Next]_vars
    PROVE  TypeOK'
<1> USE ConstantsAssumption
<1>1. CASE UNCHANGED vars
  BY <1>1, Zenon DEF TypeOK, vars
<1>2. CASE Boot
  BY <1>2, Zenon DEF TypeOK, Boot, TaskStates
<1>3. ASSUME NEW t \in Tasks, YieldCpu(t)
      PROVE  state' \in [Tasks -> TaskStates] /\ current' \in Tasks \cup {NoTask}
  BY <1>3, ZenonT(60) DEF TypeOK, YieldCpu, SwitchTo, TaskStates
<1>4. ASSUME NEW t \in Tasks, Yield(t) PROVE TypeOK'
  BY <1>3, <1>4, Zenon DEF TypeOK, Yield
<1>5. ASSUME NEW t \in Tasks, Preempt(t) PROVE TypeOK'
  BY <1>5, ZenonT(60) DEF TypeOK, Preempt, SwitchTo, TaskStates
<1>6. ASSUME NEW t \in Tasks, TerminateCurrentTask(t) PROVE TypeOK'
  <2>1. StateAfterDeath(t) \in [Tasks -> TaskStates]
    BY Zenon DEF TypeOK, StateAfterDeath, TaskStates
  <2>2. WaitForAfterDeath(t) \in [Tasks -> Tasks \cup {NoTask}]
    BY Zenon DEF TypeOK, WaitForAfterDeath
  <2>3. state' \in [Tasks -> TaskStates] /\ current' \in Tasks \cup {NoTask}
    BY <1>6, <2>1, ZenonT(60) DEF TypeOK, TerminateCurrentTask, TaskStates
  <2>4. pc' \in [Tasks -> ProgramPoints]
    BY <1>6, Zenon DEF TypeOK, TerminateCurrentTask, ProgramPoints
  <2> QED
    BY <1>6, <2>2, <2>3, <2>4, Zenon DEF TypeOK, TerminateCurrentTask
<1>7. ASSUME NEW t \in Tasks, Halted(t) PROVE TypeOK'
  BY <1>7, Zenon DEF TypeOK, Halted, vars
<1>8. ASSUME NEW t \in Tasks, NEW s \in Slots, SendTyped(t, s) PROVE TypeOK'
  <2>1. Msg(t, sent[t] + 1, "sync") \in Message
    BY <1>8, MsgType DEF SendTyped, TypeOK
  <2>2. ValidateAndUse(t, s, Msg(t, sent[t] + 1, "sync"))
    BY <1>8, Zenon DEF SendTyped
  <2> QED
    BY <1>8, <2>1, <2>2, ValidateAndUseType, SMTT(30) DEF TypeOK, SendTyped, ValidatedTypes
<1>9. ASSUME NEW t \in Tasks, NEW s \in Slots, SendAsync(t, s) PROVE TypeOK'
  <2> DEFINE m == Msg(t, sent[t] + 1, "async")
             target == chan[t][s]
  <2>1. m \in Message
    BY <1>9, MsgType, SMTT(30) DEF SendAsync, TypeOK
  <2>2. target \in Tasks \cup {NoTask}
    BY DEF TypeOK, ChanTable
  <2>3. sent' \in [Tasks -> 0 .. MaxSends]
    BY <1>9 DEF SendAsync, TypeOK
  <2>4. CASE /\ target \in Tasks
             /\ Len(msg_queue[target]) < MSG_QUEUE_CAPACITY
             /\ msg_queue' = [msg_queue EXCEPT ![target] = Append(@, m)]
             /\ state' = [state EXCEPT ![target] =
                              IF @ = "BlockedOnReceive" THEN "Ready" ELSE @]
             /\ delivered' = delivered \cup {m}
             /\ acked' = acked \cup {m}
             /\ UNCHANGED failed
    <3>1. /\ msg_queue' \in [Tasks -> Seq(Message)]
          /\ \A u \in Tasks : Len(msg_queue'[u]) <= MSG_QUEUE_CAPACITY
      <4> HIDE DEF m, target
      <4>1. /\ Append(msg_queue[target], m) \in Seq(Message)
            /\ Len(Append(msg_queue[target], m)) <= MSG_QUEUE_CAPACITY
        <5>1. msg_queue[target] \in Seq(Message) /\ Len(msg_queue[target]) < MSG_QUEUE_CAPACITY
          BY <2>4, Zenon DEF TypeOK
        <5> HIDE DEF TypeOK
        <5> QED
          BY <5>1, <2>1, ConstantsAssumption
      <4>2. msg_queue \in [Tasks -> Seq(Message)]
        BY Zenon DEF TypeOK
      <4>3. msg_queue' = [msg_queue EXCEPT ![target] = Append(msg_queue[target], m)]
        BY <2>4, Zenon
      <4>4. /\ msg_queue'[target] = Append(msg_queue[target], m)
            /\ \A u \in Tasks \ {target} : msg_queue'[u] = msg_queue[u]
        BY <4>2, <4>3, <2>4, Zenon
      <4>5. msg_queue' \in [Tasks -> Seq(Message)]
        BY <4>1, <4>2, <4>3, <2>4, Zenon
      <4>6. \A u \in Tasks : Len(msg_queue[u]) <= MSG_QUEUE_CAPACITY
        BY Zenon DEF TypeOK
      <4> QED
        BY <4>1, <4>4, <4>5, <4>6, ZenonT(60)
    <3>2. state' \in [Tasks -> TaskStates]
      BY <2>4, Zenon DEF TypeOK, TaskStates
    <3> QED
      BY <1>9, <2>1, <2>3, <2>4, <3>1, <3>2, ZenonT(60) DEF TypeOK, SendAsync
  <2>5. CASE failed' = failed \cup {m} /\ UNCHANGED <<state, msg_queue, delivered, acked>>
    BY <1>9, <2>1, <2>3, <2>5, Zenon DEF TypeOK, SendAsync
  <2>6. \A u \in Tasks : ~QueueFull(u) => Len(msg_queue[u]) < MSG_QUEUE_CAPACITY
    BY ConstantsAssumption DEF TypeOK, QueueFull
  <2> QED
    BY <1>9, <2>2, <2>4, <2>5, <2>6, Zenon DEF SendAsync
<1>10. ASSUME NEW t \in Tasks, SendRetry(t) PROVE TypeOK'
  <2>1. OwnMsg(t) \in Message
    BY MsgType, Zenon DEF TypeOK, OwnMsg
  <2>2. slot[t] \in Slots /\ ValidateAndUse(t, slot[t], OwnMsg(t))
    BY <1>10, Zenon DEF SendRetry, TypeOK
  <2> QED
    BY <1>10, <2>1, <2>2, ValidateAndUseType, Zenon DEF TypeOK, SendRetry, ValidatedTypes
<1>11. ASSUME NEW t \in Tasks, SendGone(t) PROVE TypeOK'
  BY <1>11, MsgType, Zenon DEF TypeOK, SendGone, OwnMsg, ProgramPoints
<1>12. ASSUME NEW t \in Tasks, SendYield(t) PROVE TypeOK'
  BY <1>3, <1>12, Zenon DEF TypeOK, SendYield, ProgramPoints
<1>13. ASSUME NEW t \in Tasks, SendCheck(t) PROVE TypeOK'
  <2>1. OwnMsg(t) \in Message
    BY MsgType, Zenon DEF TypeOK, OwnMsg
  <2> QED
    BY <1>13, <2>1, ZenonT(60) DEF TypeOK, SendCheck, ProgramPoints
<1>14. ASSUME NEW t \in Tasks, TakeQueued(t) \/ TakeDeposited(t) \/ TakeParked(t)
       PROVE  /\ state' \in [Tasks -> TaskStates]
              /\ waitFor' \in [Tasks -> Tasks \cup {NoTask}]
              /\ ipc_buffer' \in [Tasks -> Message \cup {NoMsg}]
              /\ msg_queue' \in [Tasks -> Seq(Message)]
              /\ \A u \in Tasks : Len(msg_queue'[u]) <= MSG_QUEUE_CAPACITY
              /\ pc' \in [Tasks -> ProgramPoints]
              /\ delivered' \subseteq Message
              /\ received' \in [Tasks -> Seq(Message)]
  <2>1. CASE TakeQueued(t)
    <3>1. Head(msg_queue[t]) \in Message
      BY <2>1 DEF TakeQueued, TypeOK
    <3>2. Tail(msg_queue[t]) \in Seq(Message)
          /\ Len(Tail(msg_queue[t])) <= MSG_QUEUE_CAPACITY
      BY <2>1 DEF TakeQueued, TypeOK
    <3> QED
      BY <2>1, <3>1, <3>2, SMTT(30) DEF TakeQueued, Returns, TypeOK, ProgramPoints
  <2>2. CASE TakeDeposited(t)
    BY <2>2 DEF TakeDeposited, Returns, TypeOK, ProgramPoints
  <2>3. CASE TakeParked(t)
    <3> PICK u \in Parked(t) :
            /\ ipc_buffer' = [ipc_buffer EXCEPT ![u] = NoMsg]
            /\ state' = [state EXCEPT ![u] = "Ready", ![t] = "Running"]
            /\ waitFor' = [waitFor EXCEPT ![u] = NoTask]
            /\ delivered' = delivered \cup ({ipc_buffer[u]} \ {NoMsg})
            /\ Returns(t, ipc_buffer[u])
      BY <2>3, ZenonT(60) DEF TakeParked, Rendezvous
    <3>1. u \in Tasks /\ state[u] = "BlockedOnSend"
      BY Zenon DEF Parked
    <3>2. ipc_buffer[u] \in Message \cup {NoMsg}
      BY <3>1, Zenon DEF TypeOK
    <3>3. received' \in [Tasks -> Seq(Message)] /\ pc' \in [Tasks -> ProgramPoints]
      BY <3>2 DEF Returns, TypeOK, ProgramPoints
    <3> QED
      BY <2>3, <3>1, <3>2, <3>3, ZenonT(60) DEF TakeParked, Rendezvous, TypeOK, TaskStates
  <2> QED
    BY <1>14, <2>1, <2>2, <2>3, Zenon
<1>15. ASSUME NEW t \in Tasks, ReceiveTyped(t) PROVE TypeOK'
  <2>1. CASE TakeQueued(t) \/ TakeDeposited(t) \/ TakeParked(t)
    BY <1>14, <1>15, <2>1, Zenon DEF TypeOK, ReceiveTyped
  <2>2. CASE /\ state' = [state EXCEPT ![t] = "BlockedOnReceive"]
             /\ pc' = [pc EXCEPT ![t] = "recvYield"]
             /\ UNCHANGED <<waitFor, ipc_buffer, msg_queue, delivered, received>>
    <3>1. state' \in [Tasks -> TaskStates] /\ pc' \in [Tasks -> ProgramPoints]
      BY <2>2, Zenon DEF TypeOK, TaskStates, ProgramPoints
    <3> QED
      BY <1>15, <2>2, <3>1, Zenon DEF TypeOK, ReceiveTyped
  <2> QED
    BY <1>15, <2>1, <2>2, Zenon DEF ReceiveTyped
<1>16. ASSUME NEW t \in Tasks, ReceiveYield(t) PROVE TypeOK'
  BY <1>3, <1>16, Zenon DEF TypeOK, ReceiveYield, ProgramPoints
<1>17. ASSUME NEW t \in Tasks, ReceiveAsync(t) PROVE TypeOK'
  BY <1>14, <1>17, Zenon DEF TypeOK, ReceiveAsync
<1>18. ASSUME NEW t \in Tasks, NEW u \in Tasks, Spawn(t, u) PROVE TypeOK'
  BY <1>18 DEF TypeOK, Spawn, TaskStates, ProgramPoints
<1>19. ASSUME NEW t \in Tasks, NEW u \in Tasks, ClearSlot(t, u) PROVE TypeOK'
  BY <1>19 DEF TypeOK, ClearSlot, TaskStates, ProgramPoints
<1>20. ASSUME NEW t \in Tasks, NEW u \in Tasks, NEW s \in Slots, KernelRevoke(t, u, s)
       PROVE  TypeOK'
  BY <1>20, SMTT(30) DEF TypeOK, KernelRevoke, ChanTable
<1>21. ASSUME NEW t \in Tasks, NEW u \in Tasks, NEW v \in Tasks, CapInsert(t, u, v)
       PROVE  TypeOK'
  BY <1>21, SMTT(30) DEF TypeOK, CapInsert, ChanTable
<1> QED
  BY <1>1, <1>2, <1>4, <1>5, <1>6, <1>7, <1>8, <1>9, <1>10, <1>11, <1>12, <1>13,
     <1>15, <1>16, <1>17, <1>18, <1>19, <1>20, <1>21, Zenon DEF Next, Step

\* The tables as _start leaves them are well-typed.
LEMMA InitType == Init => TypeOK
BY ConstantsAssumption DEF Init, TypeOK, TaskStates, ProgramPoints, Tasks, Slots

\* Every variable keeps its type and no queue grows past MSG_QUEUE_CAPACITY,
\* for any number of tasks, slots, sends and faults.
THEOREM TypeCorrect == Spec => []TypeOK
BY InitType, TypeStep, PTL DEF Spec

-----------------------------------------------------------------------------
(* Consequences of the inductive invariant *)

\* A task's own message is a message, so ipc_buffer tells it from None.
LEMMA OwnMsgType ==
    ASSUME TypeOK, NEW t \in Tasks
    PROVE  OwnMsg(t) \in Message /\ OwnMsg(t) # NoMsg
BY MsgType, ConstantsAssumption, Zenon DEF TypeOK, OwnMsg

\* The state of the current task follows from its program point.
LEMMA IndInvActive == IndInv => ActiveTaskIsRunning
BY ConstantsAssumption, SMTT(30)
   DEF IndInv, TypeOK, SchedInv, SchedInvOf, ActiveTaskIsRunning, TaskStates, ProgramPoints

\* A sender that is parked still owns the message in its ipc_buffer.
LEMMA IndInvParked == IndInv => ParkedMessageIsPending
BY Zenon DEF IndInv, SchedInv, SchedInvOf, SendInv, ParkedMessageIsPending

-----------------------------------------------------------------------------
(* Steps of the scheduler *)

\* Passing the processor on only exchanges Ready and Running.
LEMMA SwitchKeepsBlocked ==
    ASSUME TypeOK, NEW t \in Tasks, YieldCpu(t)
    PROVE  \A u \in Tasks :
               \/ state'[u] = state[u]
               \/ state[u] \in {"Ready", "Running"} /\ state'[u] \in {"Ready", "Running"}
BY ZenonT(60) DEF TypeOK, YieldCpu, SwitchTo, NextReady

\* The parts of the invariant that a switch from t leaves alone, for a step
\* that moves t to program point p and touches no message.
LEMMA SwitchInv ==
    ASSUME IndInv, TypeOK', NEW t \in Tasks, NEW p \in ProgramPoints,
           current = t, YieldCpu(t), pc' = [pc EXCEPT ![t] = p],
           \/ p = pc[t]
           \/ pc[t] = "sendYield" /\ p = "sendCheck"
           \/ pc[t] = "recvYield" /\ p = "recvRetry",
           pc[t] \in {"user", "sendYield", "recvYield"} \/ current' # t,
           UNCHANGED <<waitFor, ipc_buffer, msg_queue, chan, slot, sent,
                       delivered, acked, failed>>
    PROVE  IndInv'
<1> USE DEF IndInv
<1>1. \A u \in Tasks :
          \/ state'[u] = state[u]
          \/ state[u] \in {"Ready", "Running"} /\ state'[u] \in {"Ready", "Running"}
  BY SwitchKeepsBlocked, Zenon
<1>2. state[t] # "none" /\ state[t] # "Ready" /\ t # NoTask
  BY ConstantsAssumption, Zenon DEF SchedInv, SchedInvOf
<1>3. ASSUME \E n \in Tasks \ {t} : NextReady(state, t, n) /\ SwitchTo(t, n)
      PROVE  SchedInv' /\ SpinInv'
  <2> PICK n \in Tasks \ {t} : state[n] = "Ready" /\ SwitchTo(t, n)
    BY <1>3, Zenon DEF NextReady
  <2>1. /\ current' = n /\ state'[n] = "Running" /\ n # NoTask
        /\ state'[t] = IF state[t] = "Running" THEN "Ready" ELSE state[t]
        /\ \A u \in Tasks \ {t, n} : state'[u] = state[u]
    BY ConstantsAssumption, SMTT(30) DEF SwitchTo, TypeOK
  <2>2. SchedInv'
    BY <1>2, <2>1, ZenonT(60) DEF SchedInv, SchedInvOf, TypeOK
  <2>3. SpinInv'
    BY <2>1, ZenonT(60) DEF SpinInv, SpinInvOf, SchedInv, SchedInvOf, TypeOK
  <2> QED
    BY <2>2, <2>3, Zenon
<1>4. ASSUME (\A n \in Tasks \ {t} : state[n] # "Ready") /\ UNCHANGED <<state, current>>
      PROVE  SchedInv' /\ SpinInv'
  <2>1. SchedInv'
    BY <1>4, SMTT(30) DEF SchedInv, SchedInvOf, TypeOK
  <2>2. SpinInv'
    BY <1>2, <1>4, Zenon DEF SpinInv, SpinInvOf, SchedInv, SchedInvOf, Alive, TypeOK
  <2> QED
    BY <2>1, <2>2, Zenon
<1>5. SchedInv' /\ SpinInv'
  BY <1>3, <1>4, Zenon DEF YieldCpu
<1>6. NoLostWakeup'
  BY <1>1 DEF NoLostWakeup, NothingToReceive, Parked
<1>7. NobodyWaitsForTheDead'
  BY <1>1 DEF NobodyWaitsForTheDead, SchedInv, SchedInvOf
<1>8. SendInv'
  BY <1>1, ZenonT(60) DEF SendInv, OwnMsg, TypeOK
<1>9. LedgerInv' /\ SendResultIsTruthful'
  BY Zenon DEF LedgerInv, SendResultIsTruthful
<1> QED
  BY <1>5, <1>6, <1>7, <1>8, <1>9, Zenon

\* Every path through yield_cpu and preempt_reschedule preserves the invariant:
\* a voluntary yield, the yields inside send and receive, and the timer's.
LEMMA YieldInv ==
    ASSUME IndInv, TypeOK', NEW t \in Tasks,
           Yield(t) \/ SendYield(t) \/ ReceiveYield(t) \/ Preempt(t)
    PROVE  IndInv'
<1> USE DEF IndInv
<1>1. CASE Yield(t)
  <2>1. "user" \in ProgramPoints /\ pc' = [pc EXCEPT ![t] = "user"]
    BY <1>1, Zenon DEF Yield, TypeOK, ProgramPoints
  <2> QED
    BY <1>1, <2>1, SwitchInv, ZenonT(60) DEF Yield
<1>2. CASE SendYield(t)
  <2>1. "sendCheck" \in ProgramPoints
    BY Zenon DEF ProgramPoints
  <2> QED
    BY <1>2, <2>1, SwitchInv, ZenonT(60) DEF SendYield
<1>3. CASE ReceiveYield(t)
  <2>1. "recvRetry" \in ProgramPoints
    BY Zenon DEF ProgramPoints
  <2> QED
    BY <1>3, <2>1, SwitchInv, ZenonT(60) DEF ReceiveYield
<1>4. CASE Preempt(t)
  <2>1. pc[t] \in ProgramPoints /\ pc' = [pc EXCEPT ![t] = pc[t]]
    BY <1>4, Zenon DEF Preempt, TypeOK
  <2>2. YieldCpu(t) /\ current' # t /\ current = t
    BY <1>4, ZenonT(60) DEF Preempt, YieldCpu, SwitchTo
  <2> QED
    BY <1>4, <2>1, <2>2, SwitchInv, ZenonT(60) DEF Preempt
<1> QED
  BY <1>1, <1>2, <1>3, <1>4, Zenon

\* The switch to the first task from _start preserves the invariant.
LEMMA BootInv ==
    ASSUME IndInv, TypeOK', Boot
    PROVE  IndInv'
<1> USE DEF IndInv
<1> PICK n \in Tasks : state[n] = "Ready" /\ current' = n
                        /\ state' = [state EXCEPT ![n] = "Running"]
  BY ZenonT(60) DEF Boot, NextReady
<1>0. /\ state'[n] = "Running" /\ \A u \in Tasks \ {n} : state'[u] = state[u]
      /\ current = NoTask /\ NoTask \notin Tasks
      /\ UNCHANGED <<waitFor, ipc_buffer, msg_queue, chan, pc, slot, sent,
                     delivered, acked, failed>>
  BY ConstantsAssumption DEF TypeOK, Boot
<1>1. SchedInv'
  BY <1>0, ZenonT(60) DEF SchedInv, SchedInvOf
<1>2. SpinInv'
  BY <1>0, ZenonT(60) DEF SpinInv, SpinInvOf, SchedInv, SchedInvOf, Alive
<1>3. NoLostWakeup'
  <2> SUFFICES ASSUME NEW u \in Tasks, state'[u] = "BlockedOnReceive"
               PROVE  NothingToReceive(u)'
    BY ZenonT(60) DEF NoLostWakeup
  <2>1. NothingToReceive(u)
    BY <1>0, ZenonT(60) DEF NoLostWakeup
  <2>2. Parked(u)' \subseteq Parked(u)
    BY <1>0, ZenonT(60) DEF Parked
  <2> QED
    BY <1>0, <2>1, <2>2, ZenonT(60) DEF NothingToReceive
<1>4. NobodyWaitsForTheDead'
  <2> SUFFICES ASSUME NEW u \in Tasks, state'[u] = "BlockedOnSend"
               PROVE  state'[waitFor'[u]] # "Terminated"
    BY ZenonT(60) DEF NobodyWaitsForTheDead
  <2>1. waitFor[u] \in Tasks /\ state[waitFor[u]] # "Terminated"
    BY <1>0, ZenonT(60) DEF NobodyWaitsForTheDead, SchedInv, SchedInvOf
  <2> QED
    BY <1>0, <2>1, ZenonT(60)
<1>5. SendInv'
  BY <1>0, ZenonT(60) DEF SendInv, OwnMsg
<1>6. LedgerInv' /\ SendResultIsTruthful'
  BY <1>0, ZenonT(60) DEF LedgerInv, SendResultIsTruthful
<1> QED
  BY <1>1, <1>2, <1>3, <1>4, <1>5, <1>6, ZenonT(60)

\* Dying: senders parked on t become Ready, everybody else who is blocked or
\* dead stays so.
LEMMA TerminateInv ==
    ASSUME IndInv, TypeOK', NEW t \in Tasks, TerminateCurrentTask(t)
    PROVE  IndInv'
<1> DEFINE st == StateAfterDeath(t)
<1> USE DEF IndInv
<1>1. /\ current = t /\ t # NoTask /\ state[t] = "Running"
      /\ pc' = [pc EXCEPT ![t] = "dead"]
      /\ UNCHANGED <<ipc_buffer, msg_queue, chan, slot, sent, delivered, acked, failed>>
  BY IndInvActive, ConstantsAssumption, SMTT(30) DEF TerminateCurrentTask, ActiveTaskIsRunning
<1>2. /\ st[t] = "Terminated"
      /\ \A u \in Tasks \ {t} :
             /\ waitFor[u] = t => state[u] = "BlockedOnSend" /\ st[u] = "Ready"
             /\ waitFor[u] # t => st[u] = state[u]
  <2>1. \A u \in Tasks : waitFor[u] = t => state[u] = "BlockedOnSend"
    BY <1>1, ZenonT(60) DEF SchedInv, SchedInvOf
  <2>2. \A u \in Tasks :
            st[u] = IF u = t THEN "Terminated"
                    ELSE IF state[u] = "BlockedOnSend" /\ waitFor[u] = t THEN "Ready"
                    ELSE state[u]
    BY ZenonT(60) DEF StateAfterDeath
  <2> HIDE DEF st, IndInv
  <2> QED
    BY <2>1, <2>2, ZenonT(60)
<1>3. /\ waitFor'[t] = NoTask
      /\ \A u \in Tasks \ {t} :
             waitFor'[u] = IF waitFor[u] = t THEN NoTask ELSE waitFor[u]
  BY <1>1, Zenon DEF TerminateCurrentTask, WaitForAfterDeath, SchedInv, SchedInvOf
<1>4. \/ \E n \in Tasks : st[n] = "Ready" /\ state' = [st EXCEPT ![n] = "Running"]
                          /\ current' = n
      \/ (\A n \in Tasks : st[n] # "Ready") /\ state' = st /\ current' = t
  BY <1>1, Zenon DEF TerminateCurrentTask, NextReady
<1>5. \A u \in Tasks :
          \/ state'[u] = st[u]
          \/ st[u] = "Ready" /\ state'[u] = "Running" /\ current' = u
  BY <1>4, ZenonT(60) DEF StateAfterDeath
<1>6. SchedInv'
  <2>9. pc'[t] = "dead" /\ \A u \in Tasks \ {t} : pc'[u] = pc[u]
    BY <1>1, Zenon DEF TypeOK
  <2>1. \A u \in Tasks : st[u] = "Ready" => pc'[u] # "dead" /\ u # t
    BY <1>1, <1>2, ZenonT(60) DEF SchedInv, SchedInvOf, TypeOK
  <2>2. CASE \E n \in Tasks : st[n] = "Ready" /\ state' = [st EXCEPT ![n] = "Running"]
                              /\ current' = n
    <3> PICK n \in Tasks : st[n] = "Ready" /\ state' = [st EXCEPT ![n] = "Running"]
                              /\ current' = n
      BY <2>2, ZenonT(60)
    <3>1. state'[n] = "Running" /\ \A u \in Tasks \ {n} : state'[u] = st[u]
      BY Zenon DEF StateAfterDeath
    <3> HIDE DEF st
    <3>2. ASSUME NEW u \in Tasks \ {t, n} PROVE SchedInvOf(u)'
      <4>1. SchedInvOf(u) /\ state'[u] = st[u] /\ current' # u /\ pc'[u] = pc[u]
        BY <1>1, <2>9, <3>1, ZenonT(60) DEF SchedInv
      <4>2. CASE state[u] = "BlockedOnSend" /\ waitFor[u] = t
        BY <1>2, <1>3, <4>1, <4>2, ZenonT(60) DEF SchedInvOf
      <4>3. CASE ~(state[u] = "BlockedOnSend" /\ waitFor[u] = t)
        <5>1. st[u] = state[u] /\ waitFor'[u] = waitFor[u] /\ u # current
          BY <1>1, <1>2, <1>3, <4>1, <4>3, ZenonT(60) DEF SchedInvOf
        <5> QED
          BY <4>1, <5>1, ZenonT(60) DEF SchedInvOf
      <4> QED
        BY <4>2, <4>3, ZenonT(60)
    <3>3. SchedInvOf(t)'
      BY <1>1, <1>2, <1>3, <2>9, <2>1, <3>1, ZenonT(60) DEF SchedInvOf
    <3>4. SchedInvOf(n)'
      BY <1>1, <1>2, <1>3, <2>9, <2>1, <3>1, ZenonT(60) DEF SchedInv, SchedInvOf
    <3> QED
      BY <3>1, <3>2, <3>3, <3>4, ZenonT(60) DEF SchedInv
  <2>3. CASE (\A n \in Tasks : st[n] # "Ready") /\ state' = st /\ current' = t
    <3> HIDE DEF st
    <3> QED
      BY <1>1, <1>2, <1>3, <2>9, <2>3 DEF SchedInv, SchedInvOf
  <2> QED
    BY <1>4, <2>2, <2>3, Zenon
<1> HIDE DEF st
<1>7. SpinInv'
  <2>1. \A u \in Tasks : state'[u] \in {"BlockedOnSend", "BlockedOnReceive"} => u # current'
    BY <1>1, <1>2, <1>4, <1>5, SMTT(30) DEF TypeOK
  <2>2. \A u \in Tasks : state'[u] = "BlockedOnSend" => u # t /\ state[u] = "BlockedOnSend"
    BY <1>2, <1>5, Zenon
  <2> QED
    BY <1>1, <2>1, <2>2, ZenonT(60) DEF SpinInv, SpinInvOf, TypeOK
<1>8. NoLostWakeup'
  BY <1>1, <1>2, <1>3, <1>5 DEF NoLostWakeup, NothingToReceive, Parked
<1>9. NobodyWaitsForTheDead'
  BY <1>1, <1>2, <1>3, <1>5 DEF NobodyWaitsForTheDead, SchedInv, SchedInvOf
<1>10. SendInv'
  BY <1>1, <1>2, <1>5, ZenonT(60) DEF SendInv, OwnMsg, TypeOK
<1>11. LedgerInv' /\ SendResultIsTruthful'
  BY <1>1, Zenon DEF LedgerInv, SendResultIsTruthful
<1> QED
  BY <1>6, <1>7, <1>8, <1>9, <1>10, <1>11, Zenon

\* A fresh Task in a free slot preserves the invariant: it holds no message and
\* nobody can be parked on a slot whose task is dead.
LEMMA SpawnInv ==
    ASSUME IndInv, TypeOK', NEW t \in Tasks, NEW u \in Tasks, Spawn(t, u)
    PROVE  IndInv'
<1> USE DEF IndInv, TypeOK, Spawn
<1>1. state[t] = "Running" /\ t # NoTask
  BY IndInvActive, ConstantsAssumption, ZenonT(60) DEF ActiveTaskIsRunning
<1>2. SchedInv'
  BY <1>1, ZenonT(30) DEF SchedInv, SchedInvOf, Alive
<1>3. SpinInv'
  BY <1>1, ZenonT(60) DEF SpinInv, SpinInvOf, SchedInv, SchedInvOf, Alive
<1>4. NoLostWakeup'
  BY DEF NoLostWakeup, NothingToReceive, Parked
<1>5. NobodyWaitsForTheDead'
  BY ZenonT(60) DEF NobodyWaitsForTheDead, SchedInv, SchedInvOf
<1>6. SendInv'
  BY ZenonT(60) DEF SendInv, OwnMsg
<1>7. LedgerInv' /\ SendResultIsTruthful'
  BY ZenonT(60) DEF LedgerInv, SendResultIsTruthful
<1> QED
  BY <1>2, <1>3, <1>4, <1>5, <1>6, <1>7, Zenon

\* Emptying a slot preserves the invariant although nobody is woken: the
\* senders parked on it now wait for an empty slot, not for a Terminated task.
LEMMA ClearSlotInv ==
    ASSUME IndInv, TypeOK', NEW t \in Tasks, NEW u \in Tasks, ClearSlot(t, u)
    PROVE  IndInv'
<1> USE DEF IndInv, TypeOK, ClearSlot
<1>1. state[t] = "Running" /\ t # NoTask
  BY IndInvActive, ConstantsAssumption, ZenonT(60) DEF ActiveTaskIsRunning
<1>2. SchedInv'
  BY <1>1, Zenon DEF SchedInv, SchedInvOf, Alive
<1>3. SpinInv'
  BY <1>1, ZenonT(60) DEF SpinInv, SpinInvOf, SchedInv, SchedInvOf, Alive
<1>4. NoLostWakeup'
  BY DEF NoLostWakeup, NothingToReceive, Parked
<1>5. NobodyWaitsForTheDead'
  BY ZenonT(60) DEF NobodyWaitsForTheDead, SchedInv, SchedInvOf
<1>6. SendInv'
  BY Zenon DEF SendInv, OwnMsg
<1>7. LedgerInv' /\ SendResultIsTruthful'
  BY ZenonT(60) DEF LedgerInv, SendResultIsTruthful
<1> QED
  BY <1>2, <1>3, <1>4, <1>5, <1>6, <1>7, Zenon

\* kernel_revoke and insert preserve the invariant: they run in another task's
\* time, so no parked sender executes between them and its re-validation.
LEMMA CapOpInv ==
    ASSUME IndInv, TypeOK', NEW t \in Tasks, NEW u \in Tasks,
           \/ \E s \in Slots : KernelRevoke(t, u, s)
           \/ \E v \in Tasks : CapInsert(t, u, v)
    PROVE  IndInv'
<1> USE DEF IndInv, TypeOK
<1>1. /\ current = t /\ pc[t] = "user"
      /\ UNCHANGED <<state, waitFor, ipc_buffer, msg_queue, current, pc, slot, sent,
                     delivered, acked, failed>>
  BY Zenon DEF KernelRevoke, CapInsert
<1>2. state[t] = "Running"
  BY <1>1, IndInvActive, ConstantsAssumption, ZenonT(60) DEF ActiveTaskIsRunning
<1>3. SpinInv'
  BY <1>1, <1>2, ZenonT(60) DEF SpinInv, SpinInvOf, Alive
<1>4. (SchedInv /\ NoLostWakeup /\ NobodyWaitsForTheDead)'
  BY <1>1, ZenonT(60) DEF SchedInv, SchedInvOf, NoLostWakeup, NothingToReceive, Parked, NobodyWaitsForTheDead
<1>5. (SendInv /\ LedgerInv /\ SendResultIsTruthful)'
  BY <1>1, ZenonT(60) DEF SendInv, OwnMsg, LedgerInv, SendResultIsTruthful
<1> QED
  BY <1>3, <1>4, <1>5, ZenonT(60)

-----------------------------------------------------------------------------
(* Steps of the message passing calls *)

\* Returning TargetGone preserves the invariant: the message was not delivered.
LEMMA SendGoneInv ==
    ASSUME IndInv, TypeOK', NEW t \in Tasks, SendGone(t)
    PROVE  IndInv'
<1> USE DEF IndInv, SendGone
<1>1. state[t] = "Running" /\ t # NoTask
  BY IndInvActive, ConstantsAssumption, Zenon DEF ActiveTaskIsRunning
<1>2. (SchedInv /\ SpinInv)'
  BY <1>1, SMTT(30) DEF SchedInv, SchedInvOf, SpinInv, SpinInvOf, Alive, TypeOK
<1>3. NoLostWakeup' /\ NobodyWaitsForTheDead'
  BY <1>1, SMTT(30) DEF NoLostWakeup, NothingToReceive, Parked, NobodyWaitsForTheDead, TypeOK
<1>4. SendInv'
  <2>1. \A u \in Tasks \ {t} : OwnMsg(u) # OwnMsg(t)
    BY Zenon DEF OwnMsg, Msg
  <2> QED
    BY <2>1, SMTT(30) DEF SendInv, OwnMsg, TypeOK
<1>5. LedgerInv'
  <2>1. OwnMsg(t).seq <= sent[OwnMsg(t).src]
    BY DEF OwnMsg, Msg, TypeOK
  <2> QED
    BY <2>1, SMTT(30) DEF LedgerInv, TypeOK
<1>6. SendResultIsTruthful'
  BY Zenon DEF SendInv, SendResultIsTruthful
<1> QED
  BY <1>2, <1>3, <1>4, <1>5, <1>6, Zenon

\* The test after the yield of a parked send is sound: ipc_buffer is empty
\* exactly when a receiver took the message.
LEMMA SendCheckInv ==
    ASSUME IndInv, TypeOK', NEW t \in Tasks, SendCheck(t)
    PROVE  IndInv'
<1> USE DEF IndInv, SendCheck
<1>1. /\ state[t] \in {"Running", "BlockedOnSend"} /\ t # NoTask
      /\ ipc_buffer[t] = NoMsg => state[t] = "Running" /\ OwnMsg(t) \in delivered
      /\ ipc_buffer[t] # NoMsg => ipc_buffer[t] = OwnMsg(t) /\ OwnMsg(t) \notin delivered
  BY IndInvActive, OwnMsgType, ConstantsAssumption, SMTT(30) DEF ActiveTaskIsRunning, SendInv
<1>2. SchedInv'
  BY <1>1, SMTT(30) DEF SchedInv, SchedInvOf, TypeOK
<1>3. SpinInv'
  BY <1>1, SMTT(30) DEF SpinInv, SpinInvOf, SchedInv, SchedInvOf, Alive, TypeOK
<1>4. NoLostWakeup' /\ NobodyWaitsForTheDead'
  BY ZenonT(30) DEF NoLostWakeup, NothingToReceive, Parked, NobodyWaitsForTheDead
<1>5. SendInv'
  BY <1>1 DEF SendInv, OwnMsg, TypeOK
<1>6. LedgerInv'
  <2>1. OwnMsg(t).seq <= sent[OwnMsg(t).src]
    BY SMTT(30) DEF OwnMsg, Msg, TypeOK
  <2> QED
    BY <2>1, SMTT(30) DEF LedgerInv, TypeOK
<1>7. SendResultIsTruthful'
  BY <1>1, SMTT(30) DEF SendResultIsTruthful
<1> QED
  BY <1>2, <1>3, <1>4, <1>5, <1>6, <1>7, Zenon

\* A pass of the validate-and-use region, in the first attempt and in a retry:
\* the message is the task's own and new to the records, and a sender that is
\* still parked finds its target as it left it and parks again.
LEMMA UseInv ==
    ASSUME IndInv, TypeOK', NEW t \in Tasks, NEW s \in Slots, NEW m \in Message,
           current = t, pc[t] \in {"user", "sendRetry"}, ValidateAndUse(t, s, m),
           m = OwnMsg(t)', sent'[t] > 0, sent'[t] >= sent[t],
           \A u \in Tasks \ {t} : sent'[u] = sent[u],
           m \notin delivered, m \notin failed,
           slot' = [slot EXCEPT ![t] = s],
           pc[t] = "sendRetry" => s = slot[t],
           UNCHANGED <<msg_queue, chan, current>>
    PROVE  IndInv'
<1> DEFINE target == chan[t][s]
<1> USE DEF IndInv
<1>1. t # NoTask /\ target \in Tasks \cup {NoTask}
  BY ConstantsAssumption, SMTT(30) DEF TypeOK, ChanTable
<1>2. \/ state[t] = "Running"
      \/ /\ state[t] = "BlockedOnSend" /\ target = waitFor[t] /\ Alive(target)
         /\ target \in Tasks /\ state[target] # "BlockedOnReceive"
  <2>1. state[t] = "Running" \/ (state[t] = "BlockedOnSend" /\ pc[t] = "sendRetry")
    BY <1>1, IndInvActive, SMTT(30) DEF ActiveTaskIsRunning
  <2>2. CASE state[t] = "BlockedOnSend" /\ pc[t] = "sendRetry"
    <3>1. target = waitFor[t] /\ Alive(target) /\ target \in Tasks
      BY <2>2, SMTT(30) DEF SpinInv, SpinInvOf, SchedInv, SchedInvOf
    <3>2. t \in Parked(target)
      BY <2>2, <3>1, SMTT(30) DEF Parked
    <3> QED
      BY <2>2, <3>1, <3>2, SMTT(30) DEF NoLostWakeup, NothingToReceive
  <2> QED
    BY <2>1, <2>2, Zenon
<1>3. \A u \in Tasks \ {t} : OwnMsg(u)' = OwnMsg(u) /\ OwnMsg(u) # m
  BY ZenonT(30) DEF OwnMsg, Msg
<1>4. LedgerInv' /\ SendResultIsTruthful'
  <2>1. m.seq <= sent'[m.src] /\ m.src = t
    BY DEF OwnMsg, Msg, TypeOK
  <2>2. \A x \in delivered \cup failed \cup acked : x \in Message /\ x.seq <= sent'[x.src]
    <3> TAKE x \in delivered \cup failed \cup acked
    <3>0. x \in Message /\ x.seq <= sent[x.src]
      BY ZenonT(60) DEF LedgerInv, TypeOK
    <3>1. x \in Message /\ x.src \in Tasks /\ x.seq \in Int /\ x.seq <= sent[x.src]
      <4> HIDE DEF IndInv
      <4> QED
        BY <3>0, ConstantsAssumption, SMTT(30) DEF Message
    <3>2. sent[x.src] \in Int /\ sent'[x.src] \in Int
      <4>1. sent[x.src] \in 0 .. MaxSends /\ sent'[x.src] \in 0 .. MaxSends
        BY <3>1, ZenonT(60) DEF TypeOK
      <4> HIDE DEF IndInv
      <4> QED
        BY <4>1, ConstantsAssumption
    <3>3. sent'[x.src] >= sent[x.src]
      BY <3>1, <3>2, SMTT(30)
    <3> QED
      BY <3>1, <3>2, <3>3
  <2>3. /\ \/ failed' = failed /\ delivered' = delivered /\ acked' = acked
           \/ failed' = failed \cup {m} /\ delivered' = delivered /\ acked' = acked
           \/ failed' = failed /\ delivered' = delivered \cup {m} /\ acked' = acked \cup {m}
    BY Zenon DEF ValidateAndUse, RefuseSend, FindTargetGone, Deposit, Park
  <2> QED
    BY <2>1, <2>2, <2>3, SMTT(30) DEF LedgerInv, SendResultIsTruthful
<1> HIDE DEF target
<1>5. CASE state[t] = "Running" /\ RefuseSend(t, m)
  <2> USE DEF RefuseSend
  <2>0. /\ state' = state /\ waitFor' = waitFor /\ msg_queue' = msg_queue
        /\ \A u \in Tasks \ {t} : ipc_buffer'[u] = ipc_buffer[u]
        /\ pc'[t] = "user" /\ \A u \in Tasks \ {t} : pc'[u] = pc[u]
        /\ delivered' = delivered /\ failed' = failed \cup {m}
    BY <1>5, ZenonT(30) DEF TypeOK
  <2>1. (SchedInv /\ SpinInv)'
    BY <1>1, <1>5, ZenonT(60) DEF SchedInv, SchedInvOf, SpinInv, SpinInvOf, Alive, TypeOK
  <2>2. (NoLostWakeup /\ NobodyWaitsForTheDead)'
    <3>1. \A u \in Tasks : Parked(u)' = Parked(u)
      BY <2>0, Zenon DEF Parked
    <3>2. NoLostWakeup'
      BY <1>5, <2>0, <3>1, SMTT(30) DEF NoLostWakeup, NothingToReceive
    <3>3. NobodyWaitsForTheDead'
      BY <2>0, ZenonT(30) DEF NobodyWaitsForTheDead
    <3> QED
      BY <3>2, <3>3, Zenon
  <2>3. SendInv'
    <3>1. \A u \in Tasks \ {t} :
              /\ OwnMsg(u) \in failed' <=> OwnMsg(u) \in failed
              /\ OwnMsg(u)' = OwnMsg(u) /\ sent'[u] = sent[u]
      BY <1>3, <2>0, ZenonT(60)
    <3> QED
      BY <2>0, <3>1, ZenonT(60) DEF SendInv
  <2> QED
    BY <1>4, <2>1, <2>2, <2>3, Zenon
<1>6. CASE state[t] = "Running" /\ FindTargetGone(t, target)
  <2> USE DEF FindTargetGone
  <2>0. /\ state' = state /\ waitFor' = waitFor /\ msg_queue' = msg_queue
        /\ ipc_buffer' = ipc_buffer
        /\ pc'[t] = "sendGone" /\ \A u \in Tasks \ {t} : pc'[u] = pc[u]
        /\ delivered' = delivered /\ failed' = failed
    BY <1>6, ZenonT(60) DEF TypeOK
  <2>1. (SchedInv /\ SpinInv)'
    BY <1>1, <1>6, ZenonT(60) DEF SchedInv, SchedInvOf, SpinInv, SpinInvOf, Alive, TypeOK
  <2>2. (NoLostWakeup /\ NobodyWaitsForTheDead)'
    <3>1. \A u \in Tasks : Parked(u)' = Parked(u)
      BY <2>0, Zenon DEF Parked
    <3>2. NoLostWakeup'
      BY <1>6, <2>0, <3>1, SMTT(30) DEF NoLostWakeup, NothingToReceive
    <3>3. NobodyWaitsForTheDead'
      BY <2>0, ZenonT(30) DEF NobodyWaitsForTheDead
    <3> QED
      BY <3>2, <3>3, Zenon
  <2>3. SendInv'
    <3>1. \A u \in Tasks \ {t} : OwnMsg(u)' = OwnMsg(u) /\ sent'[u] = sent[u]
      BY <1>3, SMTT(30)
    <3>2. OwnMsg(t)' = m /\ sent'[t] > 0
      BY Zenon
    <3> QED
      BY <2>0, <3>1, <3>2, ZenonT(30) DEF SendInv
  <2> QED
    BY <1>4, <2>1, <2>2, <2>3, Zenon
<1>7. CASE state[t] = "Running" /\ target \in Tasks /\ Deposit(t, target, m)
  <2>1. /\ target # t /\ state[target] = "BlockedOnReceive"
        /\ pc[target] \in {"recvYield", "recvRetry"}
        /\ state'[target] = "Ready" /\ \A u \in Tasks \ {target} : state'[u] = state[u]
        /\ \A u \in Tasks \ {target} : ipc_buffer'[u] = ipc_buffer[u]
        /\ pc'[t] = "user" /\ \A u \in Tasks \ {t} : pc'[u] = pc[u]
        /\ delivered' = delivered \cup {m} /\ failed' = failed /\ waitFor' = waitFor
    <3>1. /\ target # t /\ state[target] = "BlockedOnReceive"
          /\ pc[target] \in {"recvYield", "recvRetry"}
          /\ delivered' = delivered \cup {m} /\ failed' = failed /\ waitFor' = waitFor
      BY <1>7, ZenonT(60) DEF Deposit, SchedInv, SchedInvOf
    <3>2. DOMAIN state = Tasks /\ DOMAIN ipc_buffer = Tasks /\ DOMAIN pc = Tasks
      BY ZenonT(60) DEF TypeOK
    <3> HIDE DEF IndInv
    <3> QED
      BY <1>7, <3>1, <3>2, Zenon DEF Deposit
  <2>2. SchedInv'
    <3>1. \A u \in Tasks \ {t, target} : SchedInvOf(u)'
      BY <1>1, <1>7, <2>1, ZenonT(60) DEF SchedInv, SchedInvOf
    <3>2. \A u \in {t, target} : SchedInvOf(u)'
      BY <1>1, <1>7, <2>1, ZenonT(60) DEF SchedInv, SchedInvOf
    <3> QED
      BY <1>1, <1>7, <2>1, <3>1, <3>2, ZenonT(60) DEF SchedInv
  <2>3. SpinInv'
    BY <1>7, <2>1, ZenonT(30) DEF SpinInv, SpinInvOf
  <2>4. NoLostWakeup'
    BY <1>7, <2>1, SMTT(30) DEF NoLostWakeup, NothingToReceive, Parked
  <2>5. NobodyWaitsForTheDead'
    BY <2>1, ZenonT(60) DEF NobodyWaitsForTheDead, SchedInv, SchedInvOf
  <2>6. SendInv'
    BY <1>3, <2>1, SMTT(30) DEF SendInv
  <2> QED
    BY <1>4, <2>2, <2>3, <2>4, <2>5, <2>6, ZenonT(60)
<1>8. CASE target \in Tasks /\ Park(t, target, m)
  <2>1. /\ Alive(target) /\ state[target] # "BlockedOnReceive"
        /\ state'[t] = "BlockedOnSend" /\ \A u \in Tasks \ {t} : state'[u] = state[u]
        /\ waitFor'[t] = target /\ \A u \in Tasks \ {t} : waitFor'[u] = waitFor[u]
        /\ ipc_buffer'[t] = m /\ \A u \in Tasks \ {t} : ipc_buffer'[u] = ipc_buffer[u]
        /\ pc'[t] = "sendYield" /\ \A u \in Tasks \ {t} : pc'[u] = pc[u]
        /\ delivered' = delivered /\ failed' = failed
    BY <1>8, SMTT(30) DEF Park, TypeOK
  <2>2. SchedInv'
    BY <1>1, <1>8, <2>1, SMTT(30) DEF SchedInv, SchedInvOf
  <2>3. SpinInv'
    <3>1. chan'[t][slot'[t]] = target
      BY ZenonT(60) DEF target, TypeOK
    <3>2. state'[target] \notin {"none", "Terminated"}
      BY <1>8, <2>1, ZenonT(60) DEF Alive
    <3> QED
      BY <2>1, <3>1, <3>2, ZenonT(30) DEF SpinInv, SpinInvOf, Alive
  <2>4. NoLostWakeup'
    <3> SUFFICES ASSUME NEW u \in Tasks, state'[u] = "BlockedOnReceive"
                 PROVE  NothingToReceive(u)'
      BY ZenonT(60) DEF NoLostWakeup
    <3>1. u # t /\ u # target /\ NothingToReceive(u)
      BY <1>8, <2>1, ZenonT(60) DEF NoLostWakeup
    <3>2. Parked(u)' = Parked(u)
      BY <1>8, <2>1, <3>1, ZenonT(60) DEF Parked, NothingToReceive
    <3> QED
      BY <2>1, <3>1, <3>2, ZenonT(60) DEF NothingToReceive
  <2>5. NobodyWaitsForTheDead'
    <3> SUFFICES ASSUME NEW u \in Tasks, state'[u] = "BlockedOnSend"
                 PROVE  state'[waitFor'[u]] # "Terminated"
      BY ZenonT(60) DEF NobodyWaitsForTheDead
    <3>1. \A v \in Tasks : state'[v] = "Terminated" => state[v] = "Terminated"
      BY <2>1, ZenonT(60)
    <3>2. waitFor'[u] \in Tasks /\ state[waitFor'[u]] # "Terminated"
      <4>1. CASE u = t
        BY <1>8, <2>1, <4>1, ZenonT(60) DEF Alive
      <4>2. CASE u # t
        BY <2>1, <4>2, ZenonT(60) DEF NobodyWaitsForTheDead, SchedInv, SchedInvOf
      <4> QED
        BY <4>1, <4>2, ZenonT(60)
    <3> QED
      BY <3>1, <3>2, ZenonT(60)
  <2>6. SendInv'
    BY <1>3, <2>1 DEF SendInv
  <2> QED
    BY <1>4, <2>2, <2>3, <2>4, <2>5, <2>6, ZenonT(60)
<1> QED
  <2>1. CASE state[t] = "Running"
    BY <1>1, <1>5, <1>6, <1>7, <1>8, <2>1, SMTT(30) DEF ValidateAndUse, target
  <2>2. CASE target \in Tasks /\ Alive(target) /\ state[target] # "BlockedOnReceive"
    BY <1>1, <1>8, <2>2, ConstantsAssumption, ZenonT(30)
       DEF ValidateAndUse, FindTargetGone, Deposit, target
  <2> QED
    BY <1>2, <2>1, <2>2, SMTT(30)

\* The first pass of sys_send_typed preserves the invariant.
LEMMA SendTypedInv ==
    ASSUME IndInv, TypeOK', NEW t \in Tasks, NEW s \in Slots, SendTyped(t, s)
    PROVE  IndInv'
<1> DEFINE m == Msg(t, sent[t] + 1, "sync")
<1> USE DEF IndInv
<1>1. m \in Message /\ m.seq = sent[t] + 1 /\ m.src = t /\ sent[t] \in Nat
  <2>1. sent[t] \in Nat /\ sent[t] + 1 \in 0 .. MaxSends
    BY ConstantsAssumption, SMTT(30) DEF SendTyped, TypeOK
  <2> QED
    BY <2>1, MsgType, ZenonT(60) DEF Msg
<1>2. m \notin delivered /\ m \notin failed
  <2> HIDE DEF m
  <2> QED
    BY <1>1 DEF LedgerInv
<1>3. sent'[t] = sent[t] + 1 /\ \A u \in Tasks \ {t} : sent'[u] = sent[u]
  BY ZenonT(30) DEF SendTyped, TypeOK
<1>4. m = OwnMsg(t)' /\ sent'[t] > 0 /\ sent'[t] >= sent[t]
  BY <1>1, <1>3 DEF OwnMsg
<1> QED
  BY <1>1, <1>2, <1>3, <1>4, UseInv, ZenonT(60) DEF SendTyped

\* A repeated pass, after a wake without a rendezvous, preserves the invariant.
LEMMA SendRetryInv ==
    ASSUME IndInv, TypeOK', NEW t \in Tasks, SendRetry(t)
    PROVE  IndInv'
<1> USE DEF IndInv
<1>1. OwnMsg(t) \in Message /\ slot[t] \in Slots /\ OwnMsg(t)' = OwnMsg(t)
  BY OwnMsgType, SMTT(30) DEF SendRetry, TypeOK, OwnMsg
<1>2. OwnMsg(t) \notin delivered /\ OwnMsg(t) \notin failed /\ sent[t] > 0
  BY ZenonT(30) DEF SendInv, SendRetry
<1>3. slot' = [slot EXCEPT ![t] = slot[t]] /\ sent' = sent /\ sent'[t] >= sent[t]
  BY DEF SendRetry, TypeOK
<1> QED
  BY <1>1, <1>2, <1>3, UseInv, ZenonT(60) DEF SendRetry

\* sys_send_async preserves the invariant: it wakes a receiver that was blocked,
\* and it is the only one to write a queue that others read.
LEMMA SendAsyncInv ==
    ASSUME IndInv, TypeOK', NEW t \in Tasks, NEW s \in Slots, SendAsync(t, s)
    PROVE  IndInv'
<1> DEFINE m == Msg(t, sent[t] + 1, "async")
           target == chan[t][s]
<1> USE DEF IndInv
<1>1. /\ current = t /\ pc[t] = "user" /\ state[t] = "Running"
      /\ UNCHANGED <<waitFor, ipc_buffer, chan, current, pc, slot>>
  BY IndInvActive, ConstantsAssumption, SMTT(30) DEF ActiveTaskIsRunning, SendAsync
<1>2. m.seq = sent[t] + 1 /\ m.src = t /\ sent[t] \in Nat /\ m.kind = "async"
  BY ConstantsAssumption DEF TypeOK, Msg
<1>3. sent'[t] = sent[t] + 1 /\ \A u \in Tasks \ {t} : sent'[u] = sent[u]
  BY ZenonT(60) DEF SendAsync, TypeOK
<1>4. \/ /\ target \in Tasks /\ msg_queue' = [msg_queue EXCEPT ![target] = Append(@, m)]
         /\ state' = [state EXCEPT ![target] =
                          IF @ = "BlockedOnReceive" THEN "Ready" ELSE @]
         /\ delivered' = delivered \cup {m} /\ acked' = acked \cup {m} /\ failed' = failed
      \/ /\ failed' = failed \cup {m}
         /\ UNCHANGED <<state, msg_queue, delivered, acked>>
  <2>1. target \in Tasks \cup {NoTask}
    BY SMTT(30) DEF TypeOK, ChanTable
  <2> QED
    BY <2>1, ZenonT(30) DEF SendAsync
<1>5. m \notin delivered /\ m \notin failed
  <2> HIDE DEF m
  <2> QED
    BY <1>2, SMTT(30) DEF LedgerInv
<1>6. \A u \in Tasks :
          pc[u] \in {"sendYield", "sendCheck", "sendRetry", "sendGone"} =>
              OwnMsg(u)' = OwnMsg(u) /\ OwnMsg(u) # m
  BY <1>1, <1>3, Zenon DEF OwnMsg, Msg
<1> HIDE DEF m, target
<1>7. LedgerInv' /\ SendResultIsTruthful'
  <2>1. \A x \in delivered \cup failed \cup acked : x.seq <= sent'[x.src]
    <3> TAKE x \in delivered \cup failed \cup acked
    <3>1. x.src \in Tasks /\ x.seq \in Int /\ x.seq <= sent[x.src]
      BY DEF LedgerInv, TypeOK, Message
    <3>2. sent[x.src] \in Int
      BY <3>1, SMTT(30) DEF TypeOK
    <3> QED
      BY <1>3, <3>1, <3>2, SMTT(30)
  <2>2. m.seq <= sent'[m.src]
    BY <1>2, <1>3, SMTT(30)
  <2>3. LedgerInv'
    BY <1>4, <2>1, <2>2, ZenonT(60) DEF LedgerInv
  <2>4. SendResultIsTruthful'
    BY <1>4, <1>5, Zenon DEF SendResultIsTruthful, LedgerInv
  <2> QED
    BY <2>3, <2>4, SMTT(30)
<1>8. \A u \in Tasks :
          \/ state'[u] = state[u] /\ (state[u] = "BlockedOnReceive" => msg_queue'[u] = msg_queue[u])
          \/ state[u] = "BlockedOnReceive" /\ state'[u] = "Ready"
  BY <1>4, ZenonT(60) DEF TypeOK
<1>9. SchedInv'
  BY <1>1, <1>8, ZenonT(60) DEF SchedInv, SchedInvOf, TypeOK
<1>10. SpinInv'
  BY <1>1, <1>8, ZenonT(60) DEF SpinInv, SpinInvOf
<1>11. NoLostWakeup' /\ NobodyWaitsForTheDead'
  <2>1. \A u \in Tasks : state[u] = "BlockedOnSend" <=> state'[u] = "BlockedOnSend"
    BY <1>8, Zenon
  <2>2. \A u \in Tasks : Parked(u)' = Parked(u)
    BY <1>1, <2>1, Zenon DEF Parked
  <2>3. ASSUME NEW u \in Tasks, state'[u] = "BlockedOnReceive"
        PROVE  NothingToReceive(u)'
    <3>1. state[u] = "BlockedOnReceive" /\ msg_queue'[u] = msg_queue[u]
      BY <1>8, <2>3, Zenon
    <3> QED
      BY <1>1, <2>2, <3>1, Zenon DEF NoLostWakeup, NothingToReceive
  <2>4. ASSUME NEW u \in Tasks, state'[u] = "BlockedOnSend"
        PROVE  state'[waitFor'[u]] # "Terminated"
    <3>1. state[u] = "BlockedOnSend" /\ waitFor'[u] = waitFor[u] /\ waitFor[u] \in Tasks
      BY <1>1, <2>1, <2>4, Zenon DEF SchedInv, SchedInvOf
    <3>2. state[waitFor[u]] # "Terminated"
      BY <3>1, Zenon DEF NobodyWaitsForTheDead
    <3> QED
      BY <1>8, <3>1, <3>2, Zenon
  <2> QED
    BY <2>3, <2>4, Zenon DEF NoLostWakeup, NobodyWaitsForTheDead
<1>12. SendInv'
  <2>1. \A u \in Tasks :
            pc[u] \in {"sendYield", "sendCheck", "sendRetry", "sendGone"} =>
                /\ u # t /\ sent'[u] = sent[u]
                /\ OwnMsg(u) \in delivered' <=> OwnMsg(u) \in delivered
                /\ OwnMsg(u) \in failed' <=> OwnMsg(u) \in failed
    BY <1>1, <1>3, <1>4, <1>6, Zenon
  <2> QED
    BY <1>1, <1>6, <1>8, <2>1, ZenonT(60) DEF SendInv
<1> QED
  BY <1>7, <1>9, <1>10, <1>11, <1>12, Zenon

\* Receiving: a queued or deposited message disturbs nobody else; a rendezvous
\* moves its sender from parked to Ready and marks its message delivered.
LEMMA TakeInv ==
    ASSUME IndInv, TypeOK', NEW t \in Tasks, current = t, pc[t] \in {"user", "recvRetry"},
           TakeQueued(t) \/ TakeDeposited(t) \/ TakeParked(t),
           UNCHANGED <<chan, current, slot, sent, acked, failed>>
    PROVE  IndInv'
<1> USE DEF IndInv
<1>1. /\ t # NoTask /\ state[t] = "Running"
      /\ pc'[t] = "user" /\ \A u \in Tasks \ {t} : pc'[u] = pc[u]
  <2>1. state[t] \in {"Running", "BlockedOnReceive"}
    BY IndInvActive, ConstantsAssumption, Zenon DEF ActiveTaskIsRunning
  <2>2. ~NothingToReceive(t)
    BY Zenon DEF TakeQueued, TakeDeposited, TakeParked, Rendezvous, NothingToReceive
  <2>3. pc' = [pc EXCEPT ![t] = "user"]
    BY Zenon DEF TakeQueued, TakeDeposited, TakeParked, Rendezvous, Returns
  <2> QED
    BY <2>1, <2>2, <2>3, ConstantsAssumption, ZenonT(30) DEF NoLostWakeup, TypeOK
<1>2. \A u \in Tasks : OwnMsg(u)' = OwnMsg(u)
  BY Zenon DEF OwnMsg
<1>3. CASE TakeQueued(t) \/ TakeDeposited(t)
  <2>1. /\ UNCHANGED <<state, waitFor, delivered>>
        /\ \A u \in Tasks \ {t} : msg_queue'[u] = msg_queue[u] /\ ipc_buffer'[u] = ipc_buffer[u]
    <3>1. /\ UNCHANGED <<state, waitFor, delivered>>
          /\ \/ UNCHANGED msg_queue
             \/ msg_queue' = [msg_queue EXCEPT ![t] = Tail(@)]
          /\ \/ UNCHANGED ipc_buffer
             \/ ipc_buffer' = [ipc_buffer EXCEPT ![t] = NoMsg]
      BY <1>3, ZenonT(60) DEF TakeQueued, TakeDeposited
    <3>2. DOMAIN msg_queue = Tasks /\ DOMAIN ipc_buffer = Tasks
      BY ZenonT(60) DEF TypeOK
    <3> HIDE DEF IndInv
    <3> QED
      BY <3>1, <3>2, Zenon
  <2>2. (SchedInv /\ SpinInv)'
    BY <1>1, <2>1, ZenonT(60) DEF SchedInv, SchedInvOf, SpinInv, SpinInvOf, Alive
  <2>3. (NoLostWakeup /\ NobodyWaitsForTheDead)'
    BY <1>1, <2>1, ZenonT(60) DEF NoLostWakeup, NothingToReceive, Parked, NobodyWaitsForTheDead
  <2>4. (SendInv /\ LedgerInv /\ SendResultIsTruthful)'
    BY <1>1, <1>2, <2>1, ZenonT(30) DEF SendInv, LedgerInv, SendResultIsTruthful
  <2> QED
    BY <2>2, <2>3, <2>4, Zenon
<1>4. CASE TakeParked(t)
  <2>0. PICK w \in Parked(t) :
          /\ ipc_buffer' = [ipc_buffer EXCEPT ![w] = NoMsg]
          /\ state' = [state EXCEPT ![w] = "Ready", ![t] = "Running"]
          /\ waitFor' = [waitFor EXCEPT ![w] = NoTask]
          /\ delivered' = delivered \cup ({ipc_buffer[w]} \ {NoMsg})
    BY <1>4, ZenonT(60) DEF TakeParked, Rendezvous
  <2>1. w \in Tasks /\ w # t /\ state[w] = "BlockedOnSend"
    BY <1>1, SMTT(30) DEF Parked
  <2>2. /\ pc[w] \in {"sendYield", "sendCheck"}
        /\ ipc_buffer[w] = OwnMsg(w) /\ OwnMsg(w) # NoMsg
        /\ OwnMsg(w) \notin failed /\ sent[w] > 0
    BY <2>1, IndInvParked, OwnMsgType, ZenonT(60)
       DEF SchedInv, SchedInvOf, SpinInv, SpinInvOf, SendInv, ParkedMessageIsPending
  <2>3. /\ state'[w] = "Ready" /\ state'[t] = "Running"
        /\ \A u \in Tasks \ {w, t} : state'[u] = state[u]
        /\ ipc_buffer'[w] = NoMsg /\ \A u \in Tasks \ {w} : ipc_buffer'[u] = ipc_buffer[u]
        /\ waitFor'[w] = NoTask /\ \A u \in Tasks \ {w} : waitFor'[u] = waitFor[u]
        /\ delivered' = delivered \cup {OwnMsg(w)} /\ msg_queue' = msg_queue
    <3>1. msg_queue' = msg_queue
      BY <1>4, ZenonT(60) DEF TakeParked
    <3>2. /\ state \in [Tasks -> TaskStates] /\ waitFor \in [Tasks -> Tasks \cup {NoTask}]
          /\ ipc_buffer \in [Tasks -> Message \cup {NoMsg}]
      BY Zenon DEF TypeOK
    <3>3. delivered' = delivered \cup {OwnMsg(w)}
      BY <2>0, <2>2, ZenonT(60)
    <3> QED
      BY <2>0, <2>1, <3>1, <3>2, <3>3, SMTT(30)
  <2>a. /\ current' = t /\ t \in Tasks /\ w # current
        /\ pc'[t] = "user" /\ pc'[w] = pc[w] /\ pc[w] # "dead"
    BY <1>1, <2>1, <2>2, ZenonT(60)
  <2>b. \A u \in Tasks \ {w, t} :
            /\ state'[u] = state[u] /\ pc'[u] = pc[u] /\ waitFor'[u] = waitFor[u]
            /\ ipc_buffer'[u] = ipc_buffer[u] /\ u # current
    BY <1>1, <2>3, ZenonT(60)
  <2>c. waitFor'[t] = NoTask /\ ipc_buffer'[t] = NoMsg
    BY <1>1, <1>4, <2>1, <2>3, ZenonT(60) DEF SchedInv, SchedInvOf, TakeParked, Rendezvous
  <2>4. SchedInv'
    <3>1. \A u \in Tasks \ {w, t} : SchedInvOf(u)'
      BY <2>a, <2>b, ZenonT(60) DEF SchedInv, SchedInvOf
    <3>2. SchedInvOf(t)'
      BY <2>a, <2>c, <2>3, ZenonT(60) DEF SchedInvOf
    <3>3. SchedInvOf(w)'
      BY <2>a, <2>1, <2>3, ZenonT(60) DEF SchedInvOf
    <3>4. state'[current'] # "none"
      BY <2>a, <2>3, Zenon
    <3> QED
      BY <3>1, <3>2, <3>3, <3>4, ZenonT(60) DEF SchedInv, SchedInvOf
  <2>d. SpinInv'
    <3>1. \A u \in Tasks \ {w, t} :
              ~(state[u] = "BlockedOnSend" /\ pc[u] = "sendRetry")
      BY <2>b, Zenon DEF SpinInv, SpinInvOf
    <3>2. \A u \in Tasks \ {w, t} : SpinInvOf(u)'
      BY <3>1, <2>a, <2>b, ZenonT(60) DEF SpinInvOf
    <3>3. SpinInvOf(t)' /\ SpinInvOf(w)'
      BY <2>a, <2>1, <2>3, ZenonT(60) DEF SpinInvOf
    <3> QED
      BY <3>2, <3>3, ZenonT(60) DEF SpinInv, SpinInvOf
  <2>5. (NoLostWakeup /\ NobodyWaitsForTheDead)'
    <3>1. \A u \in Tasks : Parked(u)' \subseteq Parked(u)
      BY <2>a, <2>b, <2>3, ZenonT(60) DEF Parked
    <3>2. NoLostWakeup'
      BY <3>1, <2>a, <2>b, <2>3, ZenonT(60) DEF NoLostWakeup, NothingToReceive
    <3>4. NobodyWaitsForTheDead'
      <4> SUFFICES ASSUME NEW u \in Tasks, state'[u] = "BlockedOnSend"
                   PROVE  state'[waitFor'[u]] # "Terminated"
        BY ZenonT(60) DEF NobodyWaitsForTheDead
      <4>1. u \in Tasks \ {w, t}
        BY <2>3, Zenon
      <4>2. state[u] = "BlockedOnSend" /\ waitFor'[u] = waitFor[u] /\ waitFor[u] \in Tasks
        BY <4>1, <2>b, ZenonT(60) DEF SchedInv, SchedInvOf
      <4>3. state[waitFor[u]] # "Terminated"
        BY <4>2, Zenon DEF NobodyWaitsForTheDead
      <4>4. \A v \in Tasks : state[v] # "Terminated" => state'[v] # "Terminated"
        BY <2>b, <2>3, ZenonT(60)
      <4> QED
        BY <4>2, <4>3, <4>4, ZenonT(60)
    <3> QED
      BY <3>2, <3>4, Zenon
  <2>6. SendInv'
    <3>1. \A u \in Tasks \ {w} : OwnMsg(u) # OwnMsg(w)
      BY Zenon DEF OwnMsg, Msg
    <3>2. \A u \in Tasks \ {w, t} :
              /\ OwnMsg(u) \in delivered' <=> OwnMsg(u) \in delivered
              /\ sent'[u] = sent[u] /\ failed' = failed
      BY <2>3, <3>1, ZenonT(60)
    <3>3. sent'[w] = sent[w] /\ failed' = failed /\ OwnMsg(w)' = OwnMsg(w)
          /\ OwnMsg(w) \in delivered'
      BY <1>2, <2>1, <2>3, Zenon
    <3> SUFFICES ASSUME NEW u \in Tasks
                 PROVE  /\ pc'[u] \in {"sendYield", "sendCheck", "sendRetry", "sendGone"} =>
                               sent'[u] > 0 /\ OwnMsg(u)' \notin failed'
                        /\ pc'[u] \in {"sendRetry", "sendGone"} => OwnMsg(u)' \notin delivered'
                        /\ pc'[u] = "sendRetry" => ipc_buffer'[u] = OwnMsg(u)'
                        /\ pc'[u] \in {"sendYield", "sendCheck"} =>
                               \/ ipc_buffer'[u] = OwnMsg(u)' /\ OwnMsg(u)' \notin delivered'
                               \/ /\ ipc_buffer'[u] = NoMsg /\ OwnMsg(u)' \in delivered'
                                  /\ state'[u] # "BlockedOnSend"
      BY ZenonT(60) DEF SendInv
    <3>4. CASE u = t
      BY <2>a, <3>4, SMTT(30)
    <3>5. CASE u = w
      BY <2>a, <2>2, <2>3, <3>3, <3>5, ZenonT(60)
    <3>6. CASE u \in Tasks \ {w, t}
      BY <1>2, <2>b, <3>2, <3>6, ZenonT(60) DEF SendInv
    <3> QED
      BY <3>4, <3>5, <3>6, ZenonT(60)
  <2>7. LedgerInv' /\ SendResultIsTruthful'
    <3>1. OwnMsg(w).seq <= sent[OwnMsg(w).src]
      BY <2>1, SMTT(30) DEF OwnMsg, Msg, TypeOK
    <3>2. /\ delivered' = delivered \cup {OwnMsg(w)} /\ OwnMsg(w) \notin failed
          /\ acked' = acked /\ failed' = failed /\ sent' = sent
      BY <2>2, <2>3, ZenonT(60)
    <3>3. LedgerInv'
      BY <3>1, <3>2, Zenon DEF LedgerInv
    <3>4. SendResultIsTruthful'
      BY <3>2, Zenon DEF SendResultIsTruthful
    <3> QED
      BY <3>3, <3>4, SMTT(30)
  <2> QED
    BY <2>4, <2>d, <2>5, <2>6, <2>7, Zenon
<1> QED
  BY <1>3, <1>4, ZenonT(60)

\* Both receive calls preserve the invariant; a receiver blocks only after all
\* three sources of a message were found empty under one lock.
LEMMA ReceiveInv ==
    ASSUME IndInv, TypeOK', NEW t \in Tasks, ReceiveTyped(t) \/ ReceiveAsync(t)
    PROVE  IndInv'
<1> USE DEF IndInv
<1>1. CASE TakeQueued(t) \/ TakeDeposited(t) \/ TakeParked(t)
  BY <1>1, TakeInv, Zenon DEF ReceiveTyped, ReceiveAsync
<1>2. CASE /\ current = t /\ pc[t] \in {"user", "recvRetry"} /\ NothingToReceive(t)
           /\ state' = [state EXCEPT ![t] = "BlockedOnReceive"]
           /\ pc' = [pc EXCEPT ![t] = "recvYield"]
           /\ UNCHANGED <<waitFor, ipc_buffer, msg_queue, chan, current, slot, sent,
                          delivered, acked, failed>>
  <2>1. /\ t # NoTask /\ state[t] \in {"Running", "BlockedOnReceive"}
        /\ state'[t] = "BlockedOnReceive" /\ \A u \in Tasks \ {t} : state'[u] = state[u]
        /\ pc'[t] = "recvYield" /\ \A u \in Tasks \ {t} : pc'[u] = pc[u]
    BY <1>2, IndInvActive, ConstantsAssumption, ZenonT(60) DEF ActiveTaskIsRunning, TypeOK
  <2>2. SchedInv'
    BY <1>2, <2>1 DEF SchedInv, SchedInvOf
  <2>5. SpinInv'
    <3>1. \A u \in Tasks : Alive(u)' = Alive(u)
      BY <2>1, ZenonT(60) DEF Alive
    <3>2. \A u \in Tasks \ {t} : SpinInvOf(u)'
      BY <1>2, <2>1, ZenonT(60) DEF SpinInv, SpinInvOf
    <3>3. SpinInvOf(t)'
      BY <1>2, <2>1, Zenon DEF SpinInvOf
    <3> QED
      BY <3>2, <3>3, ZenonT(60) DEF SpinInv, SpinInvOf
  <2>3. (NoLostWakeup /\ NobodyWaitsForTheDead)'
    <3>1. \A u \in Tasks : Parked(u)' \subseteq Parked(u)
      BY <1>2, <2>1, ZenonT(30) DEF Parked
    <3>2. \A u \in Tasks : NothingToReceive(u) => NothingToReceive(u)'
      BY <1>2, <3>1, Zenon DEF NothingToReceive
    <3>3. NoLostWakeup'
      BY <1>2, <2>1, <3>2, ZenonT(60) DEF NoLostWakeup
    <3>4. NobodyWaitsForTheDead'
      <4> SUFFICES ASSUME NEW u \in Tasks, state'[u] = "BlockedOnSend"
                   PROVE  state'[waitFor'[u]] # "Terminated"
        BY ZenonT(60) DEF NobodyWaitsForTheDead
      <4>1. waitFor[u] \in Tasks /\ state[waitFor[u]] # "Terminated" /\ waitFor' = waitFor
        BY <1>2, <2>1, ZenonT(60) DEF NobodyWaitsForTheDead, SchedInv, SchedInvOf
      <4>2. \A v \in Tasks : state'[v] = "Terminated" => state[v] = "Terminated"
        BY <2>1, ZenonT(60)
      <4> QED
        BY <4>1, <4>2, ZenonT(60)
    <3> QED
      BY <3>3, <3>4, ZenonT(60)
  <2>4. (SendInv /\ LedgerInv /\ SendResultIsTruthful)'
    BY <1>2, <2>1, ZenonT(30) DEF SendInv, OwnMsg, LedgerInv, SendResultIsTruthful
  <2> QED
    BY <2>2, <2>3, <2>4, <2>5, Zenon
<1> QED
  BY <1>1, <1>2, Zenon DEF ReceiveTyped, ReceiveAsync

-----------------------------------------------------------------------------
\* The invariant holds when the scheduler starts.
LEMMA IndInvInit == Init => IndInv
<1> SUFFICES ASSUME Init PROVE IndInv
  BY Zenon
<1>1. TypeOK
  BY InitType, ZenonT(60)
<1>2. SchedInv /\ SpinInv /\ NoLostWakeup /\ NobodyWaitsForTheDead
  BY ConstantsAssumption, Zenon
     DEF Init, SchedInv, SchedInvOf, SpinInv, SpinInvOf, NoLostWakeup, NobodyWaitsForTheDead
<1>3. SendInv /\ LedgerInv /\ SendResultIsTruthful
  BY Zenon DEF Init, SendInv, LedgerInv, SendResultIsTruthful
<1> QED
  BY <1>1, <1>2, <1>3, Zenon DEF IndInv

\* Every step of the kernel preserves the invariant.
LEMMA IndInvStep ==
    ASSUME IndInv, [Next]_vars
    PROVE  IndInv'
<1>1. TypeOK'
  BY TypeStep, Zenon DEF IndInv
<1>2. CASE UNCHANGED vars
  <2> USE <1>2 DEF vars, IndInv
  <2>1. SchedInv' /\ NobodyWaitsForTheDead'
    BY ZenonT(60) DEF SchedInv, SchedInvOf, NobodyWaitsForTheDead
  <2>2. SpinInv'
    BY ZenonT(60) DEF SpinInv, SpinInvOf, Alive
  <2>3. NoLostWakeup'
    BY ZenonT(60) DEF NoLostWakeup, NothingToReceive, Parked
  <2>4. SendInv' /\ LedgerInv' /\ SendResultIsTruthful'
    BY Zenon DEF SendInv, OwnMsg, LedgerInv, SendResultIsTruthful
  <2> QED
    BY <1>1, <2>1, <2>2, <2>3, <2>4, ZenonT(60)
<1>3. ASSUME NEW t \in Tasks, Halted(t) PROVE IndInv'
  BY <1>2, <1>3, Zenon DEF Halted
<1> QED
  BY <1>1, <1>2, <1>3, BootInv, YieldInv, TerminateInv, SpawnInv, ClearSlotInv, CapOpInv,
     SendGoneInv, SendCheckInv, SendTypedInv, SendRetryInv, SendAsyncInv, ReceiveInv, Zenon
     DEF Next, Step

\* The conjunction of everything the steps rely on is an invariant.
THEOREM Invariance == Spec => []IndInv
BY IndInvInit, IndInvStep, PTL DEF Spec

\* The active task corresponds to the scheduler's running state: yield_cpu,
\* preempt_reschedule, terminate_current_task and the ipc calls never leave two
\* tasks Running, nor a task in its own code that is not.
THEOREM ActiveTask == Spec => []ActiveTaskIsRunning
BY Invariance, IndInvActive, PTL

\* A receiver that sys_receive_typed blocked has nothing to receive, wherever
\* the timer interrupted the receiver or the senders.
THEOREM LostWakeupFreedom == Spec => []NoLostWakeup
<1>1. IndInv => NoLostWakeup
  BY Zenon DEF IndInv
<1> QED
  BY <1>1, Invariance, PTL

\* A rendezvous always finds the message it was announced, once.
THEOREM RendezvousFindsMessage == Spec => []ParkedMessageIsPending
BY Invariance, IndInvParked, PTL

\* terminate_current_task leaves no sender parked on the task it ends.
THEOREM DeathWakesSenders == Spec => []NobodyWaitsForTheDead
<1>1. IndInv => NobodyWaitsForTheDead
  BY Zenon DEF IndInv
<1> QED
  BY <1>1, Invariance, PTL

\* sys_send_typed and sys_send_async return Ok only for a message that was
\* delivered and an error only for one that was not.
THEOREM TruthfulSends == Spec => []SendResultIsTruthful
<1>1. IndInv => SendResultIsTruthful
  BY Zenon DEF IndInv
<1> QED
  BY <1>1, Invariance, PTL

-----------------------------------------------------------------------------
(* The order of messages *)

\* The places of a synchronous send between its critical sections.
SendPoints == {"sendYield", "sendCheck", "sendRetry", "sendGone"}

\* Append, by positions.
LEMMA AppendAt ==
    ASSUME NEW s \in Seq(Message), NEW m \in Message
    PROVE  /\ DOMAIN s \subseteq Int /\ Len(s) + 1 \in Int /\ Len(s) + 1 \notin DOMAIN s
           /\ DOMAIN Append(s, m) = DOMAIN s \cup {Len(s) + 1}
           /\ \A i \in DOMAIN s : Append(s, m)[i] = s[i] /\ i < Len(s) + 1
           /\ Append(s, m)[Len(s) + 1] = m
OBVIOUS

\* Head and Tail, by positions.
LEMMA TailAt ==
    ASSUME NEW s \in Seq(Message), s # << >>
    PROVE  /\ DOMAIN s \subseteq Int /\ DOMAIN Tail(s) \subseteq Int
           /\ 1 \in DOMAIN s /\ Head(s) = s[1]
           /\ \A i \in DOMAIN Tail(s) : i + 1 \in DOMAIN s /\ Tail(s)[i] = s[i + 1] /\ 1 < i + 1
           /\ \A i, j \in DOMAIN Tail(s) : i + 1 = j + 1 => i = j
           /\ \A i, j \in DOMAIN Tail(s) : i < j => i + 1 < j + 1
OBVIOUS

\* A step that hands nothing over, but may empty a queue or an ipc_buffer or
\* park the task's own message, leaves the order as it is.
LEMMA QuietOrder ==
    ASSUME OrderInv, received' = received, delivered' = delivered,
           \A t \in Tasks : msg_queue'[t] = msg_queue[t] \/ msg_queue'[t] = << >>,
           \A t \in Tasks :
               \/ ipc_buffer'[t] = NoMsg
               \/ /\ ipc_buffer'[t] = ipc_buffer[t]
                  /\ \/ ipc_buffer[t] \in delivered
                     \/ OwnMsg(t)' = OwnMsg(t) /\ pc'[t] \in SendPoints
               \/ ipc_buffer'[t] = OwnMsg(t)' /\ pc'[t] \in SendPoints
    PROVE  OrderInv'
<1>0. \A t \in Tasks : OwnMsg(t)'.src = t /\ OwnMsg(t)'.kind = "sync"
  BY Zenon DEF OwnMsg, Msg
<1>1. \A t \in Tasks : Deposited(t)' => Deposited(t) /\ ipc_buffer'[t] = ipc_buffer[t]
  BY <1>0, ZenonT(60) DEF Deposited
<1>2. \A t \in Tasks : \A i \in DOMAIN msg_queue'[t] :
          i \in DOMAIN msg_queue[t] /\ msg_queue'[t] = msg_queue[t]
  OBVIOUS
<1>3. PlacesInv'
  <2> SUFFICES ASSUME NEW t \in Tasks
               PROVE  /\ \A i \in DOMAIN received'[t] : received'[t][i] \in delivered'
                      /\ \A i \in DOMAIN msg_queue'[t] :
                             msg_queue'[t][i] \in delivered' /\ msg_queue'[t][i].kind = "async"
                      /\ ipc_buffer'[t] # NoMsg =>
                             /\ ipc_buffer'[t].kind = "sync"
                             /\ \/ ipc_buffer'[t] \in delivered'
                                \/ ipc_buffer'[t] = OwnMsg(t)' /\ pc'[t] \in SendPoints
    BY ZenonT(60) DEF PlacesInv, SendPoints
  <2>1. ipc_buffer'[t] # NoMsg =>
            /\ ipc_buffer'[t].kind = "sync"
            /\ \/ ipc_buffer'[t] \in delivered'
               \/ ipc_buffer'[t] = OwnMsg(t)' /\ pc'[t] \in SendPoints
    BY <1>0, SMTT(30) DEF OrderInv, PlacesInv, SendPoints
  <2>2. \A i \in DOMAIN msg_queue'[t] :
            msg_queue'[t][i] \in delivered' /\ msg_queue'[t][i].kind = "async"
    BY <1>2 DEF OrderInv, PlacesInv
  <2>3. \A i \in DOMAIN received'[t] : received'[t][i] \in delivered'
    BY Zenon DEF OrderInv, PlacesInv
  <2> QED
    BY <2>1, <2>2, <2>3, Zenon
<1>4. OncePlaced'
  <2>1. ReceivedAtMostOnce'
    BY SMTT(30) DEF OrderInv, OncePlaced, ReceivedAtMostOnce
  <2>2. \A t, u \in Tasks : \A i \in DOMAIN msg_queue'[t] :
           /\ \A j \in DOMAIN msg_queue'[u] :
                  msg_queue'[t][i] = msg_queue'[u][j] => t = u /\ i = j
           /\ \A j \in DOMAIN received'[u] : msg_queue'[t][i] # received'[u][j]
    BY <1>2 DEF OrderInv, OncePlaced
  <2>3. \A t, u \in Tasks : Deposited(t)' =>
           /\ Deposited(u)' /\ ipc_buffer'[t] = ipc_buffer'[u] => t = u
           /\ \A j \in DOMAIN received'[u] :
                  received'[u][j] = ipc_buffer'[t] => ipc_buffer'[t].src = u
    BY <1>1, ZenonT(60) DEF OrderInv, OncePlaced
  <2> QED
    BY <2>1, <2>2, <2>3, ZenonT(60) DEF OncePlaced
<1>5. WaitsInOrder'
  <2>1. FifoButForOvertaking'
    BY ZenonT(60) DEF OrderInv, WaitsInOrder, FifoButForOvertaking
  <2>2. \A t \in Tasks : \A j \in DOMAIN msg_queue'[t] :
           /\ \A i \in DOMAIN msg_queue'[t] :
                  i < j /\ msg_queue'[t][i].src = msg_queue'[t][j].src
                    => msg_queue'[t][i].seq < msg_queue'[t][j].seq
           /\ \A i \in DOMAIN received'[t] :
                  received'[t][i].src = msg_queue'[t][j].src
                    => received'[t][i].seq < msg_queue'[t][j].seq
    BY <1>2, ZenonT(60) DEF OrderInv, WaitsInOrder
  <2>3. \A t \in Tasks : Deposited(t)' =>
           \A i \in DOMAIN received'[t] :
               received'[t][i].src = ipc_buffer'[t].src
                 => received'[t][i].seq < ipc_buffer'[t].seq \/ received'[t][i].kind = "async"
    BY <1>1, ZenonT(60) DEF OrderInv, WaitsInOrder
  <2> QED
    BY <2>1, <2>2, <2>3, ZenonT(60) DEF WaitsInOrder
<1> QED
  BY <1>3, <1>4, <1>5, Zenon DEF OrderInv

\* A message put into the ipc_buffer of a receiver by Deposit is new there and
\* anywhere else, and not older than what its sender had delivered before.
LEMMA DepositOrder ==
    ASSUME OrderInv, NEW t \in Tasks, NEW u \in Tasks, NEW m \in Message,
           u # t, m.src = t, m.kind = "sync", m \notin delivered,
           \A x \in delivered : x.src = t => x.seq < m.seq \/ x.kind = "async",
           ipc_buffer'[u] = m, \A v \in Tasks \ {u} : ipc_buffer'[v] = ipc_buffer[v],
           delivered' = delivered \cup {m},
           received' = received, msg_queue' = msg_queue,
           \A v \in Tasks \ {t} : pc'[v] = pc[v] /\ OwnMsg(v)' = OwnMsg(v),
           ipc_buffer[t] \in delivered \cup {NoMsg, m}
    PROVE  OrderInv'
<1>1. \A v \in Tasks \ {u} :
          Deposited(v)' => /\ Deposited(v) /\ ipc_buffer'[v] = ipc_buffer[v]
                           /\ ipc_buffer[v] # m /\ ipc_buffer[v] \in delivered
  <2>1. \A v \in Tasks : OwnMsg(v).src = v
    BY Zenon DEF OwnMsg, Msg
  <2> QED
    BY <2>1 DEF Deposited, OrderInv, PlacesInv
<1>2. \A v \in Tasks : \A i \in DOMAIN received[v] :
          received[v][i] # m /\ received[v][i] \in delivered
  BY SMTT(30) DEF OrderInv, PlacesInv
<1>3. PlacesInv'
  <2> SUFFICES ASSUME NEW v \in Tasks
               PROVE  /\ \A i \in DOMAIN received'[v] : received'[v][i] \in delivered'
                      /\ \A i \in DOMAIN msg_queue'[v] :
                             msg_queue'[v][i] \in delivered' /\ msg_queue'[v][i].kind = "async"
                      /\ ipc_buffer'[v] # NoMsg =>
                             /\ ipc_buffer'[v].kind = "sync"
                             /\ \/ ipc_buffer'[v] \in delivered'
                                \/ ipc_buffer'[v] = OwnMsg(v)' /\ pc'[v] \in SendPoints
    BY ZenonT(60) DEF PlacesInv, SendPoints
  <2>1. ipc_buffer'[v] # NoMsg =>
            /\ ipc_buffer'[v].kind = "sync"
            /\ \/ ipc_buffer'[v] \in delivered'
               \/ ipc_buffer'[v] = OwnMsg(v)' /\ pc'[v] \in SendPoints
    BY DEF OrderInv, PlacesInv, SendPoints
  <2> QED
    BY <2>1 DEF OrderInv, PlacesInv
<1>4. OncePlaced'
  <2>1. ReceivedAtMostOnce'
    BY SMTT(30) DEF OrderInv, OncePlaced, ReceivedAtMostOnce
  <2>2. \A v, w \in Tasks : \A i \in DOMAIN msg_queue'[v] :
           /\ \A j \in DOMAIN msg_queue'[w] :
                  msg_queue'[v][i] = msg_queue'[w][j] => v = w /\ i = j
           /\ \A j \in DOMAIN received'[w] : msg_queue'[v][i] # received'[w][j]
    BY DEF OrderInv, OncePlaced
  <2>3. \A v, w \in Tasks : Deposited(v)' =>
           /\ Deposited(w)' /\ ipc_buffer'[v] = ipc_buffer'[w] => v = w
           /\ \A j \in DOMAIN received'[w] :
                  received'[w][j] = ipc_buffer'[v] => ipc_buffer'[v].src = w
    <3> SUFFICES ASSUME NEW v \in Tasks, NEW w \in Tasks, Deposited(v)'
                 PROVE  /\ Deposited(w)' /\ ipc_buffer'[v] = ipc_buffer'[w] => v = w
                        /\ \A j \in DOMAIN received'[w] :
                               received'[w][j] = ipc_buffer'[v] => ipc_buffer'[v].src = w
      BY Zenon
    <3>1. CASE v = u
      BY <1>1, <1>2, <3>1, ZenonT(60)
    <3>2. CASE v # u
      BY <1>1, <3>2 DEF OrderInv, OncePlaced
    <3> QED
      BY <3>1, <3>2, Zenon
  <2> QED
    BY <2>1, <2>2, <2>3, ZenonT(60) DEF OncePlaced
<1>5. WaitsInOrder'
  <2>1. FifoButForOvertaking'
    BY DEF OrderInv, WaitsInOrder, FifoButForOvertaking
  <2>2. \A v \in Tasks : \A j \in DOMAIN msg_queue'[v] :
           /\ \A i \in DOMAIN msg_queue'[v] :
                  i < j /\ msg_queue'[v][i].src = msg_queue'[v][j].src
                    => msg_queue'[v][i].seq < msg_queue'[v][j].seq
           /\ \A i \in DOMAIN received'[v] :
                  received'[v][i].src = msg_queue'[v][j].src
                    => received'[v][i].seq < msg_queue'[v][j].seq
    BY Zenon DEF OrderInv, WaitsInOrder
  <2>3. \A v \in Tasks : Deposited(v)' =>
           \A i \in DOMAIN received'[v] :
               received'[v][i].src = ipc_buffer'[v].src
                 => received'[v][i].seq < ipc_buffer'[v].seq \/ received'[v][i].kind = "async"
    <3> SUFFICES ASSUME NEW v \in Tasks, Deposited(v)', NEW i \in DOMAIN received[v],
                        received[v][i].src = ipc_buffer'[v].src
                 PROVE  received[v][i].seq < ipc_buffer'[v].seq \/ received[v][i].kind = "async"
      BY ZenonT(60)
    <3>1. CASE v = u
      BY <1>2, <3>1, ZenonT(60)
    <3>2. CASE v # u
      BY <1>1, <3>2, SMTT(30) DEF OrderInv, WaitsInOrder
    <3> QED
      BY <3>1, <3>2, Zenon
  <2> QED
    BY <2>1, <2>2, <2>3, ZenonT(60) DEF WaitsInOrder
<1> QED
  BY <1>3, <1>4, <1>5, Zenon DEF OrderInv

\* What OrderInv says of two places.
LEMMA QueuedOnce ==
    ASSUME OrderInv, NEW t \in Tasks, NEW u \in Tasks, NEW i \in DOMAIN msg_queue[t]
    PROVE  /\ \A j \in DOMAIN msg_queue[u] : msg_queue[t][i] = msg_queue[u][j] => t = u /\ i = j
           /\ \A j \in DOMAIN received[u] : msg_queue[t][i] # received[u][j]
BY DEF OrderInv, OncePlaced

\* sys_send_async appends m to u's queue and leaves what lies elsewhere.
Appended(u, m) ==
    /\ msg_queue'[u] = Append(msg_queue[u], m)
    /\ \A v \in Tasks \ {u} : msg_queue'[v] = msg_queue[v]
    /\ delivered' = delivered \cup {m}
    /\ received' = received /\ ipc_buffer' = ipc_buffer /\ pc' = pc
    /\ \A v \in Tasks : pc[v] \in SendPoints => OwnMsg(v)' = OwnMsg(v)

\* m is asynchronous and newer than what its sender had delivered before.
Newer(m) ==
    /\ m.kind = "async" /\ m \notin delivered
    /\ \A x \in delivered : x.src = m.src => x.seq < m.seq

\* A message that sys_send_async appends to a queue is newer than everything
\* its sender had delivered before.
LEMMA AppendOrder ==
    ASSUME TypeOK, OrderInv, NEW u \in Tasks, NEW m \in Message, Newer(m), Appended(u, m)
    PROVE  OrderInv'
<1>1. PICK k : /\ DOMAIN msg_queue'[u] = DOMAIN msg_queue[u] \cup {k}
               /\ k \notin DOMAIN msg_queue[u]
               /\ \A i \in DOMAIN msg_queue[u] :
                      msg_queue'[u][i] = msg_queue[u][i] /\ i < k /\ ~(k < i)
               /\ msg_queue'[u][k] = m /\ ~(k < k)
  <2>1. msg_queue[u] \in Seq(Message) /\ msg_queue'[u] = Append(msg_queue[u], m)
    BY Zenon DEF TypeOK, Appended
  <2> DEFINE k == Len(msg_queue[u]) + 1
  <2>2. /\ DOMAIN msg_queue'[u] = DOMAIN msg_queue[u] \cup {k}
        /\ k \notin DOMAIN msg_queue[u] /\ k \in Int /\ DOMAIN msg_queue[u] \subseteq Int
        /\ \A i \in DOMAIN msg_queue[u] : msg_queue'[u][i] = msg_queue[u][i] /\ i < k
        /\ msg_queue'[u][k] = m
    BY <2>1, AppendAt
  <2> HIDE DEF k
  <2> QED
    BY <2>2
<1>2. /\ \A v \in Tasks : \A i \in DOMAIN received[v] :
             received[v][i] # m /\ received[v][i] \in delivered
      /\ \A v \in Tasks : \A i \in DOMAIN msg_queue[v] :
             msg_queue[v][i] # m /\ msg_queue[v][i] \in delivered
  <2>1. m \notin delivered
    BY Zenon DEF Newer
  <2>2. \A v \in Tasks : \A i \in DOMAIN received[v] : received[v][i] \in delivered
    BY Zenon DEF OrderInv, PlacesInv
  <2>3. \A v \in Tasks : \A i \in DOMAIN msg_queue[v] : msg_queue[v][i] \in delivered
    BY Zenon DEF OrderInv, PlacesInv
  <2> QED
    BY <2>1, <2>2, <2>3, Zenon
<1>a. /\ delivered' = delivered \cup {m} /\ received' = received /\ ipc_buffer' = ipc_buffer
      /\ pc' = pc /\ \A v \in Tasks : pc[v] \in SendPoints => OwnMsg(v)' = OwnMsg(v)
  BY Zenon DEF Appended
<1>b. \A v \in Tasks : \A i \in DOMAIN msg_queue'[v] :
          \/ i \in DOMAIN msg_queue[v] /\ msg_queue'[v][i] = msg_queue[v][i]
          \/ v = u /\ i = k /\ msg_queue'[v][i] = m
  <2>1. \A v \in Tasks \ {u} : msg_queue'[v] = msg_queue[v]
    BY Zenon DEF Appended
  <2> QED
    BY <1>1, <2>1, ZenonT(30)
<1>c. m.kind = "async" /\ \A x \in delivered : x.src = m.src => x.seq < m.seq
  BY Zenon DEF Newer
<1>3. PlacesInv'
  <2> SUFFICES ASSUME NEW v \in Tasks
               PROVE  /\ \A i \in DOMAIN received'[v] : received'[v][i] \in delivered'
                      /\ \A i \in DOMAIN msg_queue'[v] :
                             msg_queue'[v][i] \in delivered' /\ msg_queue'[v][i].kind = "async"
                      /\ ipc_buffer'[v] # NoMsg =>
                             /\ ipc_buffer'[v].kind = "sync"
                             /\ \/ ipc_buffer'[v] \in delivered'
                                \/ ipc_buffer'[v] = OwnMsg(v)' /\ pc'[v] \in SendPoints
    BY ZenonT(60) DEF PlacesInv, SendPoints
  <2>1. ipc_buffer'[v] # NoMsg =>
            /\ ipc_buffer'[v].kind = "sync"
            /\ \/ ipc_buffer'[v] \in delivered'
               \/ ipc_buffer'[v] = OwnMsg(v)' /\ pc'[v] \in SendPoints
    BY <1>a, ZenonT(60) DEF OrderInv, PlacesInv, SendPoints
  <2>2. \A i \in DOMAIN msg_queue'[v] :
             msg_queue'[v][i] \in delivered' /\ msg_queue'[v][i].kind = "async"
    <3> SUFFICES ASSUME NEW i \in DOMAIN msg_queue'[v]
                 PROVE  msg_queue'[v][i] \in delivered' /\ msg_queue'[v][i].kind = "async"
      BY Zenon
    <3>1. CASE msg_queue'[v][i] = m
      BY <1>a, <1>c, <3>1, Zenon
    <3>2. CASE i \in DOMAIN msg_queue[v] /\ msg_queue'[v][i] = msg_queue[v][i]
      <4>1. msg_queue[v][i] \in delivered /\ msg_queue[v][i].kind = "async"
        BY <3>2, Zenon DEF OrderInv, PlacesInv
      <4> QED
        BY <1>a, <3>2, <4>1, Zenon
    <3> QED
      BY <1>b, <3>1, <3>2, Zenon
  <2>3. \A i \in DOMAIN received'[v] : received'[v][i] \in delivered'
    BY <1>a, Zenon DEF OrderInv, PlacesInv
  <2> QED
    BY <2>1, <2>2, <2>3, Zenon
<1>4. OncePlaced'
  <2>1. ReceivedAtMostOnce'
    <3>1. ReceivedAtMostOnce
      BY Zenon DEF OrderInv, OncePlaced
    <3> QED
      BY <1>a, <3>1 DEF ReceivedAtMostOnce
  <2>2. \A v, w \in Tasks : \A i \in DOMAIN msg_queue'[v], j \in DOMAIN msg_queue'[w] :
            msg_queue'[v][i] = msg_queue'[w][j] => v = w /\ i = j
    <3> SUFFICES ASSUME NEW v \in Tasks, NEW w \in Tasks, NEW i \in DOMAIN msg_queue'[v],
                        NEW j \in DOMAIN msg_queue'[w], msg_queue'[v][i] = msg_queue'[w][j]
                 PROVE  v = w /\ i = j
      BY ZenonT(60)
    <3>1. CASE /\ i \in DOMAIN msg_queue[v] /\ msg_queue'[v][i] = msg_queue[v][i]
               /\ j \in DOMAIN msg_queue[w] /\ msg_queue'[w][j] = msg_queue[w][j]
      <4>1. msg_queue[v][i] = msg_queue[w][j]
        BY <3>1, Zenon
      <4> QED
        BY <3>1, <4>1, QueuedOnce
    <3>2. CASE v = u /\ i = k /\ w = u /\ j = k
      BY <3>2, Zenon
    <3>3. ~(i \in DOMAIN msg_queue[v] /\ msg_queue'[v][i] = msg_queue[v][i] /\ msg_queue'[w][j] = m)
      BY <1>2, Zenon
    <3>4. ~(j \in DOMAIN msg_queue[w] /\ msg_queue'[w][j] = msg_queue[w][j] /\ msg_queue'[v][i] = m)
      BY <1>2, Zenon
    <3> QED
      BY <1>b, <3>1, <3>2, <3>3, <3>4, Zenon
  <2>3. \A v, w \in Tasks : \A i \in DOMAIN msg_queue'[v], j \in DOMAIN received'[w] :
            msg_queue'[v][i] # received'[w][j]
    <3> SUFFICES ASSUME NEW v \in Tasks, NEW w \in Tasks, NEW i \in DOMAIN msg_queue'[v],
                        NEW j \in DOMAIN received'[w]
                 PROVE  msg_queue'[v][i] # received'[w][j]
      BY Zenon
    <3>a. j \in DOMAIN received[w] /\ received'[w][j] = received[w][j]
      BY <1>a, Zenon
    <3>1. CASE msg_queue'[v][i] = m
      BY <1>2, <3>a, <3>1, Zenon
    <3>2. CASE i \in DOMAIN msg_queue[v] /\ msg_queue'[v][i] = msg_queue[v][i]
      <4>1. msg_queue[v][i] # received[w][j]
        BY <3>2, <3>a, QueuedOnce
      <4> QED
        BY <3>2, <3>a, <4>1, ZenonT(60)
    <3> QED
      BY <1>b, <3>1, <3>2, Zenon
  <2>4. \A v, w \in Tasks : Deposited(v)' =>
           /\ Deposited(w)' /\ ipc_buffer'[v] = ipc_buffer'[w] => v = w
           /\ \A j \in DOMAIN received'[w] :
                  received'[w][j] = ipc_buffer'[v] => ipc_buffer'[v].src = w
    BY <1>a, ZenonT(30) DEF OrderInv, OncePlaced, Deposited
  <2>5. \A a, b \in Tasks : \A i \in DOMAIN msg_queue'[a] :
           /\ \A j \in DOMAIN msg_queue'[b] :
                  msg_queue'[a][i] = msg_queue'[b][j] => a = b /\ i = j
           /\ \A j \in DOMAIN received'[b] : msg_queue'[a][i] # received'[b][j]
    BY <2>2, <2>3
  <2> QED
    BY <2>1, <2>4, <2>5, ZenonT(30) DEF OncePlaced
<1>5. WaitsInOrder'
  <2>1. FifoButForOvertaking'
    <3>1. FifoButForOvertaking
      BY Zenon DEF OrderInv, WaitsInOrder
    <3> QED
      BY <1>a, <3>1 DEF FifoButForOvertaking
  <2>2. \A v \in Tasks : \A j \in DOMAIN msg_queue'[v], i \in DOMAIN msg_queue'[v] :
            i < j /\ msg_queue'[v][i].src = msg_queue'[v][j].src
              => msg_queue'[v][i].seq < msg_queue'[v][j].seq
    <3> SUFFICES ASSUME NEW v \in Tasks, NEW j \in DOMAIN msg_queue'[v],
                        NEW i \in DOMAIN msg_queue'[v], i < j,
                        msg_queue'[v][i].src = msg_queue'[v][j].src
                 PROVE  msg_queue'[v][i].seq < msg_queue'[v][j].seq
      BY Zenon
    <3>1. CASE v = u /\ j = k
      <4>1. i \in DOMAIN msg_queue[v] /\ msg_queue'[v][i] = msg_queue[v][i]
        BY <1>1, <3>1, Zenon
      <4> QED
        BY <1>1, <1>2, <1>c, <3>1, <4>1, Zenon
    <3>2. CASE ~(v = u /\ j = k)
      <4>1. /\ j \in DOMAIN msg_queue[v] /\ msg_queue'[v][j] = msg_queue[v][j]
            /\ i \in DOMAIN msg_queue[v] /\ msg_queue'[v][i] = msg_queue[v][i]
        <5>1. j \in DOMAIN msg_queue[v] /\ msg_queue'[v][j] = msg_queue[v][j]
          BY <1>b, <3>2, Zenon
        <5>2. v = u => ~(i = k)
          BY <1>1, <5>1, Zenon
        <5> QED
          BY <1>b, <5>1, <5>2, Zenon
      <4>2. msg_queue[v][i].src = msg_queue[v][j].src
        BY <4>1, Zenon
      <4>3. msg_queue[v][i].seq < msg_queue[v][j].seq
        BY <4>1, <4>2, Zenon DEF OrderInv, WaitsInOrder
      <4> QED
        BY <4>1, <4>3, Zenon
    <3> QED
      BY <3>1, <3>2, Zenon
  <2>3. \A v \in Tasks : \A j \in DOMAIN msg_queue'[v], i \in DOMAIN received'[v] :
            received'[v][i].src = msg_queue'[v][j].src
              => received'[v][i].seq < msg_queue'[v][j].seq
    <3> SUFFICES ASSUME NEW v \in Tasks, NEW j \in DOMAIN msg_queue'[v], NEW i \in DOMAIN received[v],
                        received[v][i].src = msg_queue'[v][j].src
                 PROVE  received[v][i].seq < msg_queue'[v][j].seq
      BY <1>a, Zenon
    <3>1. CASE msg_queue'[v][j] = m
      BY <1>2, <1>c, <3>1, Zenon
    <3>2. CASE j \in DOMAIN msg_queue[v] /\ msg_queue'[v][j] = msg_queue[v][j]
      <4>1. received[v][i].src = msg_queue[v][j].src
        BY <3>2, Zenon
      <4>2. received[v][i].seq < msg_queue[v][j].seq
        BY <3>2, <4>1, Zenon DEF OrderInv, WaitsInOrder
      <4> QED
        BY <3>2, <4>2, Zenon
    <3> QED
      BY <1>b, <3>1, <3>2, Zenon
  <2>4. \A v \in Tasks : Deposited(v)' =>
           \A i \in DOMAIN received'[v] :
               received'[v][i].src = ipc_buffer'[v].src
                 => received'[v][i].seq < ipc_buffer'[v].seq \/ received'[v][i].kind = "async"
    BY <1>a, Zenon DEF OrderInv, WaitsInOrder, Deposited
  <2> QED
    BY <2>1, <2>2, <2>3, <2>4, ZenonT(60) DEF WaitsInOrder
<1> QED
  BY <1>3, <1>4, <1>5, ZenonT(60) DEF OrderInv

\* m is new to everybody but its sender, and later than what t has of it.
LaterThanReceived(t, m) ==
    m.src # t =>
        /\ \A u \in Tasks : \A j \in DOMAIN received[u] :
               received[u][j] = m => m.src = u
        /\ \A i \in DOMAIN received[t] :
               received[t][i].src = m.src =>
                   \/ received[t][i].seq < m.seq
                   \/ received[t][i].kind = "async" /\ m.kind = "sync"

\* The step takes m from the front of t's queue or finds the queue empty, and
\* m is in no other queue.
FromTheFront(t, m) ==
    /\ \A u \in Tasks \ {t} : msg_queue'[u] = msg_queue[u]
    /\ \A u \in Tasks \ {t} : \A i \in DOMAIN msg_queue[u] : msg_queue[u][i] # m
    /\ \/ /\ msg_queue[t] # << >> /\ msg_queue'[t] = Tail(msg_queue[t])
          /\ m = Head(msg_queue[t])
       \/ msg_queue[t] = << >> /\ msg_queue'[t] = << >>

\* The step leaves m deposited nowhere, unless m is the copy that t kept of a
\* message of its own, and overtakes a deposit only with an asynchronous one.
LeftNowhere(t, m) ==
    /\ \A u \in Tasks : ipc_buffer'[u] = NoMsg \/ ipc_buffer'[u] = ipc_buffer[u]
    /\ \A u \in Tasks : Deposited(u)' => ipc_buffer[u] # m \/ m.src = t
    /\ Deposited(t)' => m.kind = "async"

\* The conditions under which a receive call that returns m to t keeps the order.
Hands(t, m) ==
    /\ received' = [received EXCEPT ![t] = Append(received[t], m)]
    /\ delivered' = delivered \cup {m}
    /\ LaterThanReceived(t, m) /\ FromTheFront(t, m) /\ LeftNowhere(t, m)
    /\ \A u \in Tasks \ {t} : pc'[u] = pc[u]
    /\ sent' = sent

\* A receive call that returns m to t under these conditions keeps the order.
LEMMA ReceiveOrder ==
    ASSUME TypeOK, OrderInv, NEW t \in Tasks, NEW m \in Message, Hands(t, m),
           ipc_buffer[t] \in delivered \cup {NoMsg}
    PROVE  OrderInv'
<1>0. \A u \in Tasks : OwnMsg(u)' = OwnMsg(u)
  BY Zenon DEF OwnMsg, Hands
<1>a. delivered' = delivered \cup {m} /\ \A u \in Tasks \ {t} : pc'[u] = pc[u]
  BY ZenonT(60) DEF Hands
<1>1. PICK k : /\ DOMAIN received'[t] = DOMAIN received[t] \cup {k}
               /\ k \notin DOMAIN received[t]
               /\ \A i \in DOMAIN received[t] :
                      received'[t][i] = received[t][i] /\ i < k /\ ~(k < i)
               /\ received'[t][k] = m /\ ~(k < k)
  <2>1. received[t] \in Seq(Message) /\ received'[t] = Append(received[t], m)
    BY Zenon DEF TypeOK, Hands
  <2> DEFINE k == Len(received[t]) + 1
  <2>2. /\ DOMAIN received'[t] = DOMAIN received[t] \cup {k}
        /\ k \notin DOMAIN received[t] /\ k \in Int /\ DOMAIN received[t] \subseteq Int
        /\ \A i \in DOMAIN received[t] : received'[t][i] = received[t][i] /\ i < k
        /\ received'[t][k] = m
    BY <2>1, AppendAt
  <2> HIDE DEF k
  <2> QED
    BY <2>2
<1>2. \A u \in Tasks : \A i \in DOMAIN received'[u] :
          \/ i \in DOMAIN received[u] /\ received'[u][i] = received[u][i]
          \/ u = t /\ i = k /\ received'[u][i] = m
  <2>1. \A u \in Tasks \ {t} : received'[u] = received[u]
    BY Zenon DEF TypeOK, Hands
  <2> QED
    BY <1>1, <2>1, ZenonT(30)
<1>3. \A u \in Tasks : \A i \in DOMAIN msg_queue'[u] :
          /\ msg_queue'[u][i] # m
          /\ \E a \in DOMAIN msg_queue[u] :
                /\ msg_queue'[u][i] = msg_queue[u][a]
                /\ u = t => a = i + 1 /\ m = msg_queue[t][1]
                            /\ 1 \in DOMAIN msg_queue[t] /\ 1 < a /\ i \in Int
                /\ u # t => a = i
  <2>a. \A u \in Tasks \ {t} :
          msg_queue'[u] = msg_queue[u] /\ \A i \in DOMAIN msg_queue[u] : msg_queue[u][i] # m
    BY Zenon DEF Hands, FromTheFront
  <2> SUFFICES ASSUME NEW i \in DOMAIN msg_queue'[t]
               PROVE  /\ msg_queue'[t][i] # m
                      /\ i + 1 \in DOMAIN msg_queue[t]
                      /\ msg_queue'[t][i] = msg_queue[t][i + 1]
                      /\ m = msg_queue[t][1] /\ 1 \in DOMAIN msg_queue[t]
                      /\ 1 < i + 1 /\ i \in Int
    BY <2>a
  <2>1. /\ msg_queue[t] # << >> /\ msg_queue'[t] = Tail(msg_queue[t])
        /\ m = Head(msg_queue[t]) /\ msg_queue[t] \in Seq(Message)
    <3>1. msg_queue[t] \in Seq(Message)
      BY ZenonT(60) DEF TypeOK
    <3>2. DOMAIN << >> = {}
      OBVIOUS
    <3>3. msg_queue'[t] # << >>
      BY <3>2, ZenonT(60)
    <3> QED
      BY <3>1, <3>3, Zenon DEF Hands, FromTheFront
  <2>2. /\ i + 1 \in DOMAIN msg_queue[t] /\ msg_queue'[t][i] = msg_queue[t][i + 1]
        /\ m = msg_queue[t][1] /\ 1 \in DOMAIN msg_queue[t] /\ 1 < i + 1 /\ i \in Int
    BY <2>1, TailAt, SMTT(30)
  <2>3. msg_queue[t][i + 1] # msg_queue[t][1]
    <3>1. i + 1 # 1
      BY <2>2
    <3> QED
      BY <2>2, <3>1, QueuedOnce, ZenonT(60)
  <2> QED
    BY <2>2, <2>3, Zenon
<1>4. \A u \in Tasks : Deposited(u)' =>
          /\ Deposited(u) /\ ipc_buffer'[u] = ipc_buffer[u]
          /\ ipc_buffer[u] # m \/ m.src = t
  BY Zenon DEF Deposited, Hands, LeftNowhere
<1>5. PlacesInv'
  <2> SUFFICES ASSUME NEW v \in Tasks
               PROVE  /\ \A i \in DOMAIN received'[v] : received'[v][i] \in delivered'
                      /\ \A i \in DOMAIN msg_queue'[v] :
                             msg_queue'[v][i] \in delivered' /\ msg_queue'[v][i].kind = "async"
                      /\ ipc_buffer'[v] # NoMsg =>
                             /\ ipc_buffer'[v].kind = "sync"
                             /\ \/ ipc_buffer'[v] \in delivered'
                                \/ ipc_buffer'[v] = OwnMsg(v)' /\ pc'[v] \in SendPoints
    BY ZenonT(60) DEF PlacesInv, SendPoints
  <2>1. ipc_buffer'[v] # NoMsg =>
            /\ ipc_buffer'[v].kind = "sync"
            /\ \/ ipc_buffer'[v] \in delivered'
               \/ ipc_buffer'[v] = OwnMsg(v)' /\ pc'[v] \in SendPoints
    <3> SUFFICES ASSUME ipc_buffer'[v] # NoMsg
                 PROVE  /\ ipc_buffer'[v].kind = "sync"
                        /\ \/ ipc_buffer'[v] \in delivered'
                           \/ ipc_buffer'[v] = OwnMsg(v)' /\ pc'[v] \in SendPoints
      BY Zenon
    <3>1. ipc_buffer'[v] = ipc_buffer[v] /\ ipc_buffer[v] # NoMsg
      BY Zenon DEF Hands, LeftNowhere
    <3>2. /\ ipc_buffer[v].kind = "sync"
          /\ ipc_buffer[v] \in delivered \/ (ipc_buffer[v] = OwnMsg(v) /\ pc[v] \in SendPoints)
      BY <3>1, Zenon DEF OrderInv, PlacesInv, SendPoints
    <3>3. v # t \/ ipc_buffer[v] \in delivered
      BY <3>1, Zenon
    <3> QED
      BY <1>0, <1>a, <3>1, <3>2, <3>3, Zenon
  <2>2. \A i \in DOMAIN msg_queue'[v] :
            msg_queue'[v][i] \in delivered' /\ msg_queue'[v][i].kind = "async"
    <3> SUFFICES ASSUME NEW i \in DOMAIN msg_queue'[v]
                 PROVE  msg_queue'[v][i] \in delivered' /\ msg_queue'[v][i].kind = "async"
      BY Zenon
    <3>1. PICK a \in DOMAIN msg_queue[v] : msg_queue'[v][i] = msg_queue[v][a]
      BY <1>3, Zenon
    <3>2. msg_queue[v][a] \in delivered /\ msg_queue[v][a].kind = "async"
      BY <3>1, Zenon DEF OrderInv, PlacesInv
    <3> QED
      BY <1>a, <3>1, <3>2, Zenon
  <2>3. \A i \in DOMAIN received'[v] : received'[v][i] \in delivered'
    <3> SUFFICES ASSUME NEW i \in DOMAIN received'[v] PROVE received'[v][i] \in delivered'
      BY Zenon
    <3>1. i \in DOMAIN received[v] => received[v][i] \in delivered
      BY Zenon DEF OrderInv, PlacesInv
    <3> QED
      BY <1>2, <1>a, <3>1, Zenon
  <2> QED
    BY <2>1, <2>2, <2>3, Zenon
<1>6. OncePlaced'
  <2>1. ReceivedAtMostOnce'
    <3> SUFFICES ASSUME NEW u \in Tasks, NEW v \in Tasks,
                        NEW i \in DOMAIN received'[u], NEW j \in DOMAIN received'[v],
                        received'[u][i] = received'[v][j], received'[u][i].src \notin {u, v}
                 PROVE  u = v /\ i = j
      BY Zenon DEF ReceivedAtMostOnce
    <3>1. CASE /\ i \in DOMAIN received[u] /\ received'[u][i] = received[u][i]
               /\ j \in DOMAIN received[v] /\ received'[v][j] = received[v][j]
      <4>1. ReceivedAtMostOnce
        BY Zenon DEF OrderInv, OncePlaced
      <4>2. /\ i \in DOMAIN received[u] /\ j \in DOMAIN received[v]
            /\ received[u][i] = received[v][j] /\ received[u][i].src \notin {u, v}
        BY <3>1, Zenon
      <4> QED
        BY <4>1, <4>2, ZenonT(30) DEF ReceivedAtMostOnce
    <3>2. m.src # t => \A w \in Tasks : \A l \in DOMAIN received[w] : received[w][l] = m => m.src = w
      BY Zenon DEF Hands, LaterThanReceived
    <3>3. ~(u = t /\ received'[u][i] = m /\ j \in DOMAIN received[v] /\ received'[v][j] = received[v][j])
      BY <3>2, Zenon
    <3>4. ~(v = t /\ received'[v][j] = m /\ i \in DOMAIN received[u] /\ received'[u][i] = received[u][i])
      BY <3>2, Zenon
    <3> QED
      BY <1>2, <3>1, <3>3, <3>4
  <2>2. \A u, v \in Tasks : \A i \in DOMAIN msg_queue'[u], j \in DOMAIN msg_queue'[v] :
            msg_queue'[u][i] = msg_queue'[v][j] => u = v /\ i = j
    <3> SUFFICES ASSUME NEW u \in Tasks, NEW v \in Tasks, NEW i \in DOMAIN msg_queue'[u],
                        NEW j \in DOMAIN msg_queue'[v], msg_queue'[u][i] = msg_queue'[v][j]
                 PROVE  u = v /\ i = j
      BY Zenon
    <3>1. PICK a \in DOMAIN msg_queue[u] :
             msg_queue'[u][i] = msg_queue[u][a] /\ (u = t => a = i + 1 /\ i \in Int) /\ (u # t => a = i)
      BY <1>3, ZenonT(60)
    <3>2. PICK b \in DOMAIN msg_queue[v] :
             msg_queue'[v][j] = msg_queue[v][b] /\ (v = t => b = j + 1 /\ j \in Int) /\ (v # t => b = j)
      BY <1>3, ZenonT(60)
    <3>3. msg_queue[u][a] = msg_queue[v][b]
      BY <3>1, <3>2, Zenon
    <3>4. u = v /\ a = b
      BY <3>3, QueuedOnce, SMTT(30)
    <3>5. \A x, y \in Int : x + 1 = y + 1 => x = y
      OBVIOUS
    <3> QED
      BY <3>1, <3>2, <3>4, <3>5, Zenon
  <2>3. \A u, v \in Tasks : \A i \in DOMAIN msg_queue'[u], j \in DOMAIN received'[v] :
            msg_queue'[u][i] # received'[v][j]
    <3> SUFFICES ASSUME NEW u \in Tasks, NEW v \in Tasks, NEW i \in DOMAIN msg_queue'[u],
                        NEW j \in DOMAIN received'[v]
                 PROVE  msg_queue'[u][i] # received'[v][j]
      BY Zenon
    <3>1. PICK a \in DOMAIN msg_queue[u] : msg_queue'[u][i] = msg_queue[u][a]
      BY <1>3, ZenonT(60)
    <3>2. j \in DOMAIN received[v] => msg_queue[u][a] # received[v][j]
      BY QueuedOnce
    <3>3. msg_queue'[u][i] # m
      BY <1>3, Zenon
    <3> QED
      BY <1>2, <3>1, <3>2, <3>3, Zenon
  <2>4. \A u, v \in Tasks : Deposited(u)' =>
           /\ Deposited(v)' /\ ipc_buffer'[u] = ipc_buffer'[v] => u = v
           /\ \A j \in DOMAIN received'[v] :
                  received'[v][j] = ipc_buffer'[u] => ipc_buffer'[u].src = v
    <3> SUFFICES ASSUME NEW u \in Tasks, NEW v \in Tasks, Deposited(u)'
                 PROVE  /\ Deposited(v)' /\ ipc_buffer'[u] = ipc_buffer'[v] => u = v
                        /\ \A j \in DOMAIN received'[v] :
                               received'[v][j] = ipc_buffer'[u] => ipc_buffer'[u].src = v
      BY Zenon
    <3>1. Deposited(u) /\ ipc_buffer'[u] = ipc_buffer[u] /\ (ipc_buffer[u] # m \/ m.src = t)
      BY <1>4, Zenon
    <3>2. Deposited(v)' => Deposited(v) /\ ipc_buffer'[v] = ipc_buffer[v]
      BY <1>4, Zenon
    <3>3. /\ Deposited(v) /\ ipc_buffer[u] = ipc_buffer[v] => u = v
          /\ \A j \in DOMAIN received[v] : received[v][j] = ipc_buffer[u] => ipc_buffer[u].src = v
      BY <3>1, Zenon DEF OrderInv, OncePlaced
    <3>4. ASSUME NEW j \in DOMAIN received'[v], received'[v][j] = ipc_buffer'[u]
          PROVE  ipc_buffer'[u].src = v
      <4>1. CASE j \in DOMAIN received[v] /\ received'[v][j] = received[v][j]
        BY <3>1, <3>3, <3>4, <4>1, Zenon
      <4>2. CASE v = t /\ received'[v][j] = m
        BY <3>1, <3>4, <4>2, ZenonT(60)
      <4> QED
        BY <1>2, <4>1, <4>2, Zenon
    <3> QED
      BY <3>1, <3>2, <3>3, <3>4, Zenon
  <2>5. \A a, b \in Tasks : \A i \in DOMAIN msg_queue'[a] :
           /\ \A j \in DOMAIN msg_queue'[b] :
                  msg_queue'[a][i] = msg_queue'[b][j] => a = b /\ i = j
           /\ \A j \in DOMAIN received'[b] : msg_queue'[a][i] # received'[b][j]
    BY <2>2, <2>3
  <2> QED
    BY <2>1, <2>4, <2>5, ZenonT(30) DEF OncePlaced
<1>7. WaitsInOrder'
  <2>1. FifoButForOvertaking'
    <3> SUFFICES ASSUME NEW u \in Tasks,
                        NEW i \in DOMAIN received'[u], NEW j \in DOMAIN received'[u], i < j,
                        received'[u][i].src = received'[u][j].src, received'[u][i].src # u
                 PROVE  \/ received'[u][i].seq < received'[u][j].seq
                        \/ received'[u][i].kind = "async" /\ received'[u][j].kind = "sync"
      BY ZenonT(30) DEF FifoButForOvertaking
    <3>1. CASE /\ i \in DOMAIN received[u] /\ received'[u][i] = received[u][i]
               /\ j \in DOMAIN received[u] /\ received'[u][j] = received[u][j]
      <4>1. FifoButForOvertaking
        BY Zenon DEF OrderInv, WaitsInOrder
      <4>2. /\ i \in DOMAIN received[u] /\ j \in DOMAIN received[u] /\ i < j
            /\ received[u][i].src = received[u][j].src /\ received[u][i].src # u
        BY <3>1, Zenon
      <4>3. \/ received[u][i].seq < received[u][j].seq
            \/ received[u][i].kind = "async" /\ received[u][j].kind = "sync"
        BY <4>1, <4>2, Zenon DEF FifoButForOvertaking
      <4> QED
        BY <3>1, <4>3, Zenon
    <3>2. CASE u = t /\ j = k
      <4>1. i \in DOMAIN received[t] /\ received'[t][i] = received[t][i] /\ received'[t][k] = m
        BY <1>1, <1>2, <3>2, Zenon
      <4>2. received[t][i].src = m.src /\ m.src # t
        BY <3>2, <4>1, Zenon
      <4>3. received[t][i].seq < m.seq \/ (received[t][i].kind = "async" /\ m.kind = "sync")
        BY <4>1, <4>2, Zenon DEF Hands, LaterThanReceived
      <4> QED
        BY <3>2, <4>1, <4>3, Zenon
    <3>3. CASE u = t /\ i = k
      BY <1>1, <3>3, ZenonT(30)
    <3> QED
      BY <1>2, <3>1, <3>2, <3>3, ZenonT(30)
  <2>2. \A u \in Tasks : \A j \in DOMAIN msg_queue'[u], i \in DOMAIN msg_queue'[u] :
            i < j /\ msg_queue'[u][i].src = msg_queue'[u][j].src
              => msg_queue'[u][i].seq < msg_queue'[u][j].seq
    <3> SUFFICES ASSUME NEW u \in Tasks, NEW j \in DOMAIN msg_queue'[u],
                        NEW i \in DOMAIN msg_queue'[u], i < j,
                        msg_queue'[u][i].src = msg_queue'[u][j].src
                 PROVE  msg_queue'[u][i].seq < msg_queue'[u][j].seq
      BY Zenon
    <3>1. PICK a \in DOMAIN msg_queue[u] :
             msg_queue'[u][i] = msg_queue[u][a] /\ (u = t => a = i + 1 /\ i \in Int) /\ (u # t => a = i)
      BY <1>3, Zenon
    <3>2. PICK b \in DOMAIN msg_queue[u] :
             msg_queue'[u][j] = msg_queue[u][b] /\ (u = t => b = j + 1 /\ j \in Int) /\ (u # t => b = j)
      BY <1>3, ZenonT(60)
    <3>3. \A x, y \in Int : x < y => x + 1 < y + 1
      OBVIOUS
    <3>4. a < b
      BY <3>1, <3>2, <3>3, Zenon
    <3>5. msg_queue[u][a].src = msg_queue[u][b].src
      BY <3>1, <3>2, Zenon
    <3>6. msg_queue[u][a].seq < msg_queue[u][b].seq
      BY <3>4, <3>5, Zenon DEF OrderInv, WaitsInOrder
    <3> QED
      BY <3>1, <3>2, <3>6, Zenon
  <2>3. \A u \in Tasks : \A j \in DOMAIN msg_queue'[u], i \in DOMAIN received'[u] :
            received'[u][i].src = msg_queue'[u][j].src
              => received'[u][i].seq < msg_queue'[u][j].seq
    <3> SUFFICES ASSUME NEW u \in Tasks, NEW j \in DOMAIN msg_queue'[u],
                        NEW i \in DOMAIN received'[u],
                        received'[u][i].src = msg_queue'[u][j].src
                 PROVE  received'[u][i].seq < msg_queue'[u][j].seq
      BY Zenon
    <3>1. PICK a \in DOMAIN msg_queue[u] :
              /\ msg_queue'[u][j] = msg_queue[u][a]
              /\ u = t => m = msg_queue[t][1] /\ 1 \in DOMAIN msg_queue[t] /\ 1 < a
      BY <1>3, ZenonT(60)
    <3>2. CASE i \in DOMAIN received[u] /\ received'[u][i] = received[u][i]
      <4>1. received[u][i].src = msg_queue[u][a].src
        BY <3>1, <3>2, Zenon
      <4>2. received[u][i].seq < msg_queue[u][a].seq
        BY <3>2, <4>1, Zenon DEF OrderInv, WaitsInOrder
      <4> QED
        BY <3>1, <3>2, <4>2, Zenon
    <3>3. CASE u = t /\ received'[u][i] = m
      <4>1. 1 \in DOMAIN msg_queue[t] /\ 1 < a /\ msg_queue[t][1].src = msg_queue[t][a].src /\ m = msg_queue[t][1]
        BY <3>1, <3>3, Zenon
      <4>2. msg_queue[t][1].seq < msg_queue[t][a].seq
        BY <3>1, <3>3, <4>1, Zenon DEF OrderInv, WaitsInOrder
      <4> QED
        BY <3>1, <3>3, <4>1, <4>2, Zenon
    <3> QED
      BY <1>2, <3>2, <3>3, ZenonT(60)
  <2>4. \A u \in Tasks : Deposited(u)' =>
           \A i \in DOMAIN received'[u] :
               received'[u][i].src = ipc_buffer'[u].src
                 => received'[u][i].seq < ipc_buffer'[u].seq \/ received'[u][i].kind = "async"
    <3> SUFFICES ASSUME NEW u \in Tasks, Deposited(u)', NEW i \in DOMAIN received'[u],
                        received'[u][i].src = ipc_buffer'[u].src
                 PROVE  received'[u][i].seq < ipc_buffer'[u].seq \/ received'[u][i].kind = "async"
      BY Zenon
    <3>1. Deposited(u) /\ ipc_buffer'[u] = ipc_buffer[u]
      BY <1>4, Zenon
    <3>2. CASE i \in DOMAIN received[u] /\ received'[u][i] = received[u][i]
      <4>1. received[u][i].src = ipc_buffer[u].src
        BY <3>1, <3>2, Zenon
      <4>2. received[u][i].seq < ipc_buffer[u].seq \/ received[u][i].kind = "async"
        BY <3>1, <3>2, <4>1, Zenon DEF OrderInv, WaitsInOrder
      <4> QED
        BY <3>1, <3>2, <4>2, Zenon
    <3>3. CASE u = t /\ received'[u][i] = m
      <4>1. m.kind = "async"
        BY <3>3, Zenon DEF Hands, LeftNowhere
      <4> QED
        BY <3>3, <4>1, Zenon
    <3> QED
      BY <1>2, <3>2, <3>3, Zenon
  <2> QED
    BY <2>1, <2>2, <2>3, <2>4, ZenonT(60) DEF WaitsInOrder
<1> QED
  BY <1>5, <1>6, <1>7, Zenon DEF OrderInv

-----------------------------------------------------------------------------
(* Steps and the order of messages *)

\* Outside a synchronous send, what lies in ipc_buffer has been delivered; and
\* wherever a task is, what somebody else deposited has.
LEMMA BufferDelivered ==
    ASSUME OrderInv, NEW t \in Tasks
    PROVE  /\ pc[t] \notin SendPoints => ipc_buffer[t] \in delivered \cup {NoMsg}
           /\ Deposited(t) => ipc_buffer[t] \in delivered /\ ipc_buffer[t].kind = "sync"
<1>1. OwnMsg(t).src = t
  BY Zenon DEF OwnMsg, Msg
<1> QED
  BY <1>1, Zenon DEF OrderInv, PlacesInv, SendPoints, Deposited

\* No delivered message of a sender is newer than the one it is sending, and
\* none of the same number is synchronous.
LEMMA NotOlder ==
    ASSUME IndInv, NEW t \in Tasks, OwnMsg(t) \notin delivered,
           NEW x \in delivered, x.src = t
    PROVE  x.seq < OwnMsg(t).seq \/ x.kind = "async"
<1>1. x \in Message /\ x.seq <= sent[t] /\ sent[t] \in 0 .. MaxSends
  BY ZenonT(60) DEF IndInv, LedgerInv, TypeOK
<1>2. OwnMsg(t) = [src |-> t, seq |-> sent[t], kind |-> "sync"]
  BY Zenon DEF OwnMsg, Msg
<1>3. CASE x.kind = "sync" /\ x.seq = sent[t]
  <2>1. x = OwnMsg(t)
    BY <1>1, <1>2, <1>3, SMTT(30) DEF Message
  <2> QED
    BY <2>1, ZenonT(60)
<1> QED
  BY <1>1, <1>2, <1>3, ConstantsAssumption DEF Message

\* A message taken from the queue.
LEMMA TakeQueuedOrder ==
    ASSUME IndInv, OrderInv, NEW t \in Tasks, TakeQueued(t), sent' = sent,
           pc[t] \notin SendPoints
    PROVE  OrderInv'
<1> DEFINE m == Head(msg_queue[t])
<1>1. TypeOK /\ msg_queue[t] \in Seq(Message) /\ msg_queue[t] # << >>
  BY ZenonT(60) DEF IndInv, TypeOK, TakeQueued
<1>2. m \in Message /\ 1 \in DOMAIN msg_queue[t] /\ m = msg_queue[t][1] /\ m # NoMsg
  BY <1>1, TailAt, ConstantsAssumption
<1>3. /\ received' = [received EXCEPT ![t] = Append(received[t], m)]
      /\ pc' = [pc EXCEPT ![t] = "user"]
      /\ msg_queue' = [msg_queue EXCEPT ![t] = Tail(@)]
      /\ ipc_buffer' = ipc_buffer /\ delivered' = delivered
  BY <1>2, ZenonT(60) DEF TakeQueued, Returns
<1>4. m \in delivered /\ m.kind = "async"
  BY <1>2, SMTT(30) DEF OrderInv, PlacesInv
<1>5. \A u \in Tasks : \A j \in DOMAIN received[u] : received[u][j] # m
  BY <1>2 DEF OrderInv, OncePlaced
<1>6. \A i \in DOMAIN received[t] : received[t][i].src = m.src => received[t][i].seq < m.seq
  BY <1>2, ZenonT(60) DEF OrderInv, WaitsInOrder
<1>7. \A u \in Tasks \ {t} : \A i \in DOMAIN msg_queue[u] : msg_queue[u][i] # m
  BY <1>2 DEF OrderInv, OncePlaced
<1>8. \A u \in Tasks : Deposited(u)' => ipc_buffer[u] # m
  <2>1. \A u \in Tasks : Deposited(u)' => Deposited(u)
    BY <1>3, Zenon DEF Deposited
  <2>2. \A u \in Tasks : Deposited(u) => ipc_buffer[u].kind = "sync"
    BY BufferDelivered, Zenon
  <2> QED
    BY <1>4, <2>1, <2>2, ZenonT(60)
<1>9. /\ \A u \in Tasks \ {t} : msg_queue'[u] = msg_queue[u]
      /\ \A u \in Tasks \ {t} : pc'[u] = pc[u]
      /\ msg_queue'[t] = Tail(msg_queue[t])
  BY <1>1, <1>3, Zenon DEF TypeOK
<1>10. ipc_buffer[t] \in delivered \cup {NoMsg}
  BY BufferDelivered, Zenon
<1>11. delivered' = delivered \cup {m}
  BY <1>3, <1>4, SMTT(30)
<1>12. LaterThanReceived(t, m) /\ FromTheFront(t, m) /\ LeftNowhere(t, m)
  BY <1>1, <1>3, <1>4, <1>5, <1>6, <1>7, <1>8, <1>9, ZenonT(30)
     DEF LaterThanReceived, FromTheFront, LeftNowhere
<1> HIDE DEF m
<1>13. Hands(t, m)
  BY <1>3, <1>9, <1>11, <1>12, ZenonT(60) DEF Hands
<1> QED
  BY <1>1, <1>2, <1>10, <1>13, ReceiveOrder, SMTT(30)

\* A message taken from ipc_buffer.
LEMMA TakeDepositedOrder ==
    ASSUME IndInv, OrderInv, NEW t \in Tasks, TakeDeposited(t), sent' = sent,
           pc[t] \notin SendPoints
    PROVE  OrderInv'
<1> DEFINE m == ipc_buffer[t]
<1>1. TypeOK /\ msg_queue[t] = << >> /\ m # NoMsg
  BY Zenon DEF IndInv, TakeDeposited
<1>2. m \in Message
  BY <1>1, Zenon DEF TypeOK
<1>3. /\ received' = [received EXCEPT ![t] = Append(received[t], m)]
      /\ pc' = [pc EXCEPT ![t] = "user"]
      /\ ipc_buffer' = [ipc_buffer EXCEPT ![t] = NoMsg]
      /\ msg_queue' = msg_queue /\ delivered' = delivered
  BY <1>1, Zenon DEF TakeDeposited, Returns
<1>4. m \in delivered /\ m.kind = "sync"
  BY <1>1, BufferDelivered, Zenon DEF OrderInv, PlacesInv
<1>5. m.src # t => Deposited(t)
  BY <1>1, ZenonT(60) DEF Deposited
<1>6. m.src # t =>
          /\ \A u \in Tasks : \A j \in DOMAIN received[u] : received[u][j] = m => m.src = u
          /\ \A i \in DOMAIN received[t] :
                 received[t][i].src = m.src =>
                     received[t][i].seq < m.seq \/ received[t][i].kind = "async"
          /\ \A u \in Tasks : Deposited(u) /\ ipc_buffer[u] = m => u = t
  BY <1>5, ZenonT(60) DEF OrderInv, OncePlaced, WaitsInOrder
<1>7. \A u \in Tasks : \A i \in DOMAIN msg_queue[u] : msg_queue[u][i] # m
  BY <1>4, Zenon DEF OrderInv, PlacesInv
<1>8. /\ ipc_buffer'[t] = NoMsg /\ \A u \in Tasks \ {t} : ipc_buffer'[u] = ipc_buffer[u]
      /\ \A u \in Tasks \ {t} : pc'[u] = pc[u]
  BY <1>1, <1>3, Zenon DEF TypeOK
<1>9. \A u \in Tasks : Deposited(u)' => u # t /\ (ipc_buffer[u] # m \/ m.src = t)
  <2>1. \A u \in Tasks : Deposited(u)' => u # t /\ Deposited(u)
    BY <1>8, Zenon DEF Deposited
  <2> QED
    BY <1>6, <2>1, ZenonT(60)
<1>10. delivered' = delivered \cup {m}
  BY <1>3, <1>4, SMTT(30)
<1>11. LaterThanReceived(t, m) /\ FromTheFront(t, m) /\ LeftNowhere(t, m)
  BY <1>1, <1>3, <1>4, <1>6, <1>7, <1>8, <1>9, ZenonT(30)
     DEF LaterThanReceived, FromTheFront, LeftNowhere
<1>12. m \in delivered \cup {NoMsg}
  BY <1>4, Zenon
<1>13. Hands(t, m)
  BY <1>3, <1>8, <1>10, <1>11, ZenonT(60) DEF Hands
<1> QED
  BY <1>1, <1>2, <1>12, <1>13, ReceiveOrder, Zenon

\* A message taken from a parked sender.
LEMMA TakeParkedOrder ==
    ASSUME IndInv, OrderInv, NEW t \in Tasks, TakeParked(t), sent' = sent,
           pc[t] \notin SendPoints, state[t] = "Running"
    PROVE  OrderInv'
<1>1. PICK w \in Parked(t) : Rendezvous(t, w)
  BY Zenon DEF TakeParked
<1> DEFINE m == ipc_buffer[w]
<1>2. /\ TypeOK /\ w \in Tasks /\ w # t /\ state[w] = "BlockedOnSend"
      /\ msg_queue[t] = << >> /\ ipc_buffer[t] = NoMsg /\ msg_queue' = msg_queue
  BY ZenonT(30) DEF IndInv, Parked, TakeParked
<1>3. m = OwnMsg(w) /\ m \notin delivered
  BY <1>2, IndInvParked, SMTT(30) DEF ParkedMessageIsPending
<1>4. m \in Message /\ m # NoMsg /\ m.src = w /\ m.kind = "sync"
  <2>1. OwnMsg(w).src = w /\ OwnMsg(w).kind = "sync"
    BY Zenon DEF OwnMsg, Msg
  <2> QED
    BY <1>2, <1>3, <2>1, OwnMsgType, SMTT(30)
<1>5. /\ received' = [received EXCEPT ![t] = Append(received[t], m)]
      /\ pc' = [pc EXCEPT ![t] = "user"]
      /\ ipc_buffer' = [ipc_buffer EXCEPT ![w] = NoMsg]
      /\ delivered' = delivered \cup {m}
  BY <1>1, <1>4, SMTT(30) DEF Rendezvous, Returns
<1>6. \A u \in Tasks : \A j \in DOMAIN received[u] :
          received[u][j] \in delivered /\ received[u][j] # m
  BY <1>3, SMTT(30) DEF OrderInv, PlacesInv
<1>7. \A i \in DOMAIN received[t] :
          received[t][i].src = m.src =>
              received[t][i].seq < m.seq \/ received[t][i].kind = "async"
  BY <1>2, <1>3, <1>4, <1>6, NotOlder, ZenonT(60)
<1>8. \A u \in Tasks : \A i \in DOMAIN msg_queue[u] : msg_queue[u][i] # m
  BY <1>3, SMTT(30) DEF OrderInv, PlacesInv
<1>9. /\ ipc_buffer'[w] = NoMsg /\ \A u \in Tasks \ {w} : ipc_buffer'[u] = ipc_buffer[u]
      /\ \A u \in Tasks \ {t} : pc'[u] = pc[u]
  BY <1>2, <1>5, Zenon DEF TypeOK
<1>10. \A u \in Tasks : Deposited(u)' => u # t /\ ipc_buffer[u] # m
  <2>1. \A u \in Tasks : Deposited(u)' => u # t /\ Deposited(u)
    BY <1>2, <1>9, ZenonT(30) DEF Deposited
  <2>2. \A u \in Tasks : Deposited(u) => ipc_buffer[u] \in delivered
    BY BufferDelivered, SMTT(30)
  <2> QED
    BY <1>3, <2>1, <2>2, ZenonT(60)
<1>11. LaterThanReceived(t, m) /\ FromTheFront(t, m) /\ LeftNowhere(t, m)
  BY <1>2, <1>4, <1>6, <1>7, <1>8, <1>9, <1>10, ZenonT(30)
     DEF LaterThanReceived, FromTheFront, LeftNowhere
<1>12. ipc_buffer[t] \in delivered \cup {NoMsg}
  BY <1>2, Zenon
<1> HIDE DEF m
<1>13. Hands(t, m)
  BY <1>5, <1>9, <1>11, ZenonT(60) DEF Hands
<1> QED
  BY <1>2, <1>4, <1>12, <1>13, ReceiveOrder, SMTT(30)

\* A step that neither receives nor delivers, moves no task out of a
\* synchronous send that still has its message parked, and builds a message
\* only outside one.
LEMMA StillOrder ==
    ASSUME OrderInv, received' = received, delivered' = delivered,
           \A u \in Tasks : msg_queue'[u] = msg_queue[u] \/ msg_queue'[u] = << >>,
           \A u \in Tasks : ipc_buffer'[u] = NoMsg \/ ipc_buffer'[u] = ipc_buffer[u],
           \A u \in Tasks :
               pc[u] \in SendPoints =>
                   \/ ipc_buffer'[u] = NoMsg
                   \/ pc'[u] \in SendPoints /\ sent'[u] = sent[u]
    PROVE  OrderInv'
<1>1. \A u \in Tasks : sent'[u] = sent[u] => OwnMsg(u)' = OwnMsg(u)
  BY Zenon DEF OwnMsg
<1>2. \A u \in Tasks :
          \/ ipc_buffer'[u] = NoMsg
          \/ /\ ipc_buffer'[u] = ipc_buffer[u]
             /\ \/ ipc_buffer[u] \in delivered
                \/ OwnMsg(u)' = OwnMsg(u) /\ pc'[u] \in SendPoints
  BY <1>1, BufferDelivered, ZenonT(60)
<1> QED
  BY <1>2, QuietOrder, ZenonT(30)

\* Boot, the yields, preemption, termination and the capability changes.
LEMMA SchedulingOrder ==
    ASSUME IndInv, OrderInv,
           \/ Boot
           \/ \E t \in Tasks :
                 \/ Yield(t) \/ SendYield(t) \/ ReceiveYield(t) \/ Preempt(t)
                 \/ TerminateCurrentTask(t)
                 \/ \E u \in Tasks : \/ \E s \in Slots : KernelRevoke(t, u, s)
                                    \/ \E v \in Tasks : CapInsert(t, u, v)
    PROVE  OrderInv'
<1>1. UNCHANGED <<received, delivered, msg_queue, ipc_buffer, sent>>
  BY ZenonT(30) DEF Boot, Yield, SendYield, ReceiveYield, Preempt, TerminateCurrentTask,
         KernelRevoke, CapInsert
<1>2. \/ pc' = pc
      \/ \E t \in Tasks, p \in ProgramPoints :
            /\ pc' = [pc EXCEPT ![t] = p] /\ (pc[t] \in SendPoints => p \in SendPoints)
  BY ZenonT(30) DEF Boot, Yield, SendYield, ReceiveYield, Preempt, TerminateCurrentTask,
         KernelRevoke, CapInsert, SendPoints, ProgramPoints
<1>3. \A u \in Tasks : pc[u] \in SendPoints => pc'[u] \in SendPoints
  BY <1>2, ZenonT(30) DEF IndInv, TypeOK
<1> QED
  BY <1>1, <1>3, StillOrder, SMTT(30)

\* The steps that fill or empty a task slot, which drop what lay there, and
\* the ends of a synchronous send.
LEMMA DropOrder ==
    ASSUME IndInv, OrderInv, NEW t \in Tasks, NEW u \in Tasks,
           Spawn(t, u) \/ ClearSlot(t, u) \/ SendGone(t) \/ SendCheck(t)
    PROVE  OrderInv'
<1>1. /\ UNCHANGED <<received, delivered, sent>>
      /\ msg_queue' = msg_queue \/ msg_queue' = [msg_queue EXCEPT ![u] = << >>]
  BY ZenonT(30) DEF Spawn, ClearSlot, SendGone, SendCheck
<1>2. \E v \in Tasks, p \in ProgramPoints :
          /\ pc' = [pc EXCEPT ![v] = p]
          /\ \/ ipc_buffer' = [ipc_buffer EXCEPT ![v] = NoMsg]
             \/ ipc_buffer' = ipc_buffer /\ (ipc_buffer[v] = NoMsg \/ p \in SendPoints)
  BY Zenon DEF Spawn, ClearSlot, SendGone, SendCheck, SendPoints, ProgramPoints
<1>3. TypeOK
  BY Zenon DEF IndInv
<1>4. \A v \in Tasks : msg_queue'[v] = msg_queue[v] \/ msg_queue'[v] = << >>
  BY <1>1, <1>3, ZenonT(60) DEF TypeOK
<1>5. \A v \in Tasks : ipc_buffer'[v] = NoMsg \/ ipc_buffer'[v] = ipc_buffer[v]
  BY <1>2, <1>3, Zenon DEF TypeOK
<1>6. \A v \in Tasks : pc[v] \in SendPoints => ipc_buffer'[v] = NoMsg \/ pc'[v] \in SendPoints
  BY <1>2, <1>3, ZenonT(60) DEF TypeOK
<1> QED
  BY <1>1, <1>4, <1>5, <1>6, StillOrder, Zenon

\* A pass of the validate-and-use region: it drops, parks or delivers m.
LEMMA UseOrder ==
    ASSUME IndInv, OrderInv, NEW t \in Tasks, NEW s \in Slots, NEW m \in Message,
           ValidateAndUse(t, s, m), UNCHANGED <<msg_queue, received>>,
           m = OwnMsg(t)', m \notin delivered,
           \A x \in delivered : x.src = t => x.seq < m.seq \/ x.kind = "async",
           \A u \in Tasks \ {t} : sent'[u] = sent[u],
           state[t] # "BlockedOnReceive",
           \/ ipc_buffer[t] \in delivered \cup {NoMsg}
           \/ ipc_buffer[t] = m /\ sent'[t] = sent[t]
    PROVE  OrderInv'
<1>1. TypeOK /\ chan[t][s] \in Tasks \cup {NoTask}
  BY SMTT(30) DEF IndInv, TypeOK, ChanTable
<1>2. m.src = t /\ m.kind = "sync" /\ \A u \in Tasks \ {t} : OwnMsg(u)' = OwnMsg(u)
  BY ZenonT(30) DEF OwnMsg, Msg
<1>3. CASE RefuseSend(t, m)
  <2>1. /\ ipc_buffer'[t] = NoMsg /\ delivered' = delivered
        /\ \A u \in Tasks \ {t} : ipc_buffer'[u] = ipc_buffer[u] /\ pc'[u] = pc[u]
    BY <1>1, <1>3, ZenonT(30) DEF RefuseSend, TypeOK
  <2> QED
    BY <2>1, StillOrder, ZenonT(60)
<1>4. CASE \E u \in Tasks : FindTargetGone(t, u)
  <2>1. /\ ipc_buffer' = ipc_buffer /\ delivered' = delivered
        /\ pc'[t] \in SendPoints /\ \A u \in Tasks \ {t} : pc'[u] = pc[u]
    BY <1>1, <1>4, ZenonT(30) DEF FindTargetGone, TypeOK, SendPoints
  <2>2. ASSUME NEW u \in Tasks
        PROVE  \/ ipc_buffer'[u] = NoMsg
               \/ /\ ipc_buffer'[u] = ipc_buffer[u]
                  /\ \/ ipc_buffer[u] \in delivered
                     \/ OwnMsg(u)' = OwnMsg(u) /\ pc'[u] \in SendPoints
               \/ ipc_buffer'[u] = OwnMsg(u)' /\ pc'[u] \in SendPoints
    BY <1>2, <2>1, BufferDelivered, SMTT(30)
  <2> QED
    BY <2>1, <2>2, QuietOrder, SMTT(30)
<1>5. CASE \E u \in Tasks : Park(t, u, m)
  <2>1. /\ ipc_buffer'[t] = m /\ delivered' = delivered
        /\ pc'[t] \in SendPoints
        /\ \A u \in Tasks \ {t} : ipc_buffer'[u] = ipc_buffer[u] /\ pc'[u] = pc[u]
    BY <1>1, <1>5, ZenonT(30) DEF Park, TypeOK, SendPoints
  <2>2. ASSUME NEW u \in Tasks
        PROVE  \/ ipc_buffer'[u] = NoMsg
               \/ /\ ipc_buffer'[u] = ipc_buffer[u]
                  /\ \/ ipc_buffer[u] \in delivered
                     \/ OwnMsg(u)' = OwnMsg(u) /\ pc'[u] \in SendPoints
               \/ ipc_buffer'[u] = OwnMsg(u)' /\ pc'[u] \in SendPoints
    BY <1>2, <2>1, BufferDelivered, ZenonT(30)
  <2> QED
    BY <2>1, <2>2, QuietOrder, ZenonT(30)
<1>6. ASSUME NEW u \in Tasks, Deposit(t, u, m) PROVE OrderInv'
  <2>1. /\ u # t /\ ipc_buffer'[u] = m /\ delivered' = delivered \cup {m}
        /\ \A v \in Tasks \ {u} : ipc_buffer'[v] = ipc_buffer[v]
        /\ \A v \in Tasks \ {t} : pc'[v] = pc[v] /\ OwnMsg(v)' = OwnMsg(v)
    BY <1>1, <1>2, <1>6, Zenon DEF Deposit, TypeOK
  <2> QED
    BY <1>2, <2>1, DepositOrder, SMTT(30)
<1> QED
  BY <1>1, <1>3, <1>4, <1>5, <1>6, ZenonT(60) DEF ValidateAndUse

\* The first pass of sys_send_typed.
LEMMA SendTypedOrder ==
    ASSUME IndInv, OrderInv, NEW t \in Tasks, NEW s \in Slots, SendTyped(t, s)
    PROVE  OrderInv'
<1> DEFINE m == Msg(t, sent[t] + 1, "sync")
<1>1. /\ TypeOK /\ LedgerInv /\ sent[t] \in Nat /\ sent[t] + 1 \in 0 .. MaxSends
      /\ delivered \subseteq Message
  BY ConstantsAssumption DEF IndInv, TypeOK, SendTyped
<1>2. m \in Message /\ m.seq = sent[t] + 1 /\ m.src = t
  BY <1>1, MsgType, ZenonT(60) DEF Msg
<1>3. sent'[t] = sent[t] + 1 /\ \A u \in Tasks \ {t} : sent'[u] = sent[u]
  BY <1>1, ZenonT(60) DEF SendTyped, TypeOK
<1>4. m = OwnMsg(t)'
  BY <1>3, SMTT(30) DEF OwnMsg
<1>5. pc[t] \notin SendPoints /\ state[t] # "BlockedOnReceive"
  BY Zenon DEF SendTyped, SendPoints, IndInv, SchedInv, SchedInvOf
<1>6. ipc_buffer[t] \in delivered \cup {NoMsg}
  BY <1>5, BufferDelivered, Zenon
<1> HIDE DEF m
<1>7. \A x \in delivered : x.src = t => x.seq < m.seq
  BY <1>1, <1>2, SMTT(30) DEF LedgerInv, Message
<1>8. m \notin delivered
  BY <1>1, <1>2, <1>7, SMTT(30)
<1> QED
  BY <1>2, <1>3, <1>4, <1>5, <1>6, <1>7, <1>8, UseOrder, ZenonT(30) DEF SendTyped, m

\* A repeated pass.
LEMMA SendRetryOrder ==
    ASSUME IndInv, OrderInv, NEW t \in Tasks, SendRetry(t)
    PROVE  OrderInv'
<1> DEFINE m == OwnMsg(t)
<1>1. TypeOK /\ m \in Message /\ slot[t] \in Slots /\ sent' = sent
  BY OwnMsgType, ZenonT(60) DEF IndInv, TypeOK, SendRetry
<1>2. m = OwnMsg(t)'
  BY <1>1, SMTT(30) DEF OwnMsg
<1>3. m \notin delivered /\ ipc_buffer[t] = m /\ state[t] # "BlockedOnReceive"
  BY ZenonT(30) DEF SendRetry, IndInv, SendInv, SchedInv, SchedInvOf
<1>4. \A x \in delivered : x.src = t => x.seq < m.seq \/ x.kind = "async"
  BY <1>3, NotOlder, Zenon
<1>5. ValidateAndUse(t, slot[t], m) /\ UNCHANGED <<msg_queue, received>>
  BY Zenon DEF SendRetry
<1> HIDE DEF m
<1> QED
  BY <1>1, <1>2, <1>3, <1>4, <1>5, UseOrder, ZenonT(60)

\* A number of an earlier message is below the next one.
LEMMA BelowNext == ASSUME NEW a \in Nat, NEW b \in Nat, a <= b PROVE a < b + 1
  OBVIOUS

\* sys_send_async appends a message with a new number, or changes nothing here.
LEMMA SendAsyncOrder ==
    ASSUME IndInv, OrderInv, NEW t \in Tasks, NEW s \in Slots, SendAsync(t, s)
    PROVE  OrderInv'
<1> DEFINE m == Msg(t, sent[t] + 1, "async")
<1>1. /\ TypeOK /\ LedgerInv /\ sent[t] \in Nat /\ sent[t] + 1 \in 0 .. MaxSends
      /\ delivered \subseteq Message
  BY ConstantsAssumption DEF IndInv, TypeOK, SendAsync
<1>2. m \in Message /\ m.seq = sent[t] + 1 /\ m.src = t /\ m.kind = "async"
  BY <1>1, MsgType, ZenonT(60) DEF Msg
<1>3. \A u \in Tasks \ {t} : sent'[u] = sent[u]
  BY <1>1, SMTT(30) DEF SendAsync, TypeOK
<1>4. UNCHANGED <<received, ipc_buffer, pc>> /\ pc[t] \notin SendPoints
  BY ZenonT(30) DEF SendAsync, SendPoints
<1>5. \/ \E u \in Tasks : /\ msg_queue' = [msg_queue EXCEPT ![u] = Append(msg_queue[u], m)]
                        /\ delivered' = delivered \cup {m}
      \/ UNCHANGED <<msg_queue, delivered>>
  <2>1. chan \in [Tasks -> [Slots -> Tasks \cup {NoTask}]]
    BY <1>1, Zenon DEF TypeOK, ChanTable
  <2>2. PICK u : u = chan[t][s]
    OBVIOUS
  <2>3. u # NoTask => u \in Tasks
    BY <2>1, <2>2
  <2>4. \/ /\ u # NoTask /\ delivered' = delivered \cup {m}
           /\ msg_queue' = [msg_queue EXCEPT ![u] = Append(@, m)]
        \/ UNCHANGED <<msg_queue, delivered>>
    BY <2>2, Zenon DEF SendAsync
  <2> QED
    BY <2>3, <2>4, Zenon
<1> HIDE DEF m
<1>6. \A x \in delivered : x.src = m.src => x.seq < m.seq
  <2> SUFFICES ASSUME NEW x \in delivered, x.src = t PROVE x.seq < sent[t] + 1
    BY <1>2, Zenon
  <2>1. x.seq <= sent[t]
    BY <1>1, Zenon DEF LedgerInv
  <2>2. x.seq \in Nat
    BY <1>1, ConstantsAssumption DEF Message
  <2> QED
    BY <1>1, <2>1, <2>2, BelowNext, Zenon
<1>7. m \notin delivered
  <2>1. ~(m.seq < m.seq)
    BY <1>1, <1>2, SMTT(30)
  <2> QED
    BY <1>6, <2>1, Zenon
<1>8. ASSUME NEW u \in Tasks, msg_queue' = [msg_queue EXCEPT ![u] = Append(msg_queue[u], m)],
             delivered' = delivered \cup {m}
      PROVE  OrderInv'
  <2>1. /\ msg_queue'[u] = Append(msg_queue[u], m)
        /\ \A v \in Tasks \ {u} : msg_queue'[v] = msg_queue[v]
    BY <1>1, <1>8, SMTT(30) DEF TypeOK
  <2>2. \A v \in Tasks : pc[v] \in SendPoints => OwnMsg(v)' = OwnMsg(v)
    BY <1>3, <1>4, ZenonT(30) DEF OwnMsg
  <2>3. Newer(m)
    BY <1>2, <1>6, <1>7, Zenon DEF Newer
  <2>4. Appended(u, m)
    BY <1>1, <1>4, <1>8, <2>1, <2>2, Zenon DEF Appended
  <2> QED
    BY <1>1, <1>2, <2>3, <2>4, AppendOrder, ZenonT(60)
<1>9. CASE UNCHANGED <<msg_queue, delivered>>
  BY <1>3, <1>4, <1>9, StillOrder, Zenon
<1> QED
  BY <1>5, <1>8, <1>9, ZenonT(60)

\* Both receive calls.
LEMMA ReceiveCallOrder ==
    ASSUME IndInv, OrderInv, NEW t \in Tasks, ReceiveTyped(t) \/ ReceiveAsync(t)
    PROVE  OrderInv'
<1>1. pc[t] \notin SendPoints /\ sent' = sent /\ t # NoTask
  BY ConstantsAssumption, Zenon DEF ReceiveTyped, ReceiveAsync, SendPoints
<1>2. CASE TakeQueued(t)
  BY <1>1, <1>2, TakeQueuedOrder, Zenon
<1>3. CASE TakeDeposited(t)
  BY <1>1, <1>3, TakeDepositedOrder, Zenon
<1>4. CASE TakeParked(t)
  <2>1. state[t] \in {"Running", "BlockedOnReceive"}
    BY <1>1, IndInvActive, Zenon DEF ActiveTaskIsRunning, ReceiveTyped, ReceiveAsync
  <2>2. ~NothingToReceive(t)
    BY <1>4, Zenon DEF TakeParked, NothingToReceive
  <2>3. state[t] = "Running"
    BY <2>1, <2>2, Zenon DEF IndInv, NoLostWakeup
  <2> QED
    BY <1>1, <1>4, <2>3, TakeParkedOrder, Zenon
<1>5. CASE /\ pc' = [pc EXCEPT ![t] = "recvYield"]
           /\ UNCHANGED <<ipc_buffer, msg_queue, delivered, received>>
  <2>1. \A u \in Tasks : pc[u] \in SendPoints => pc'[u] \in SendPoints
    BY <1>1, <1>5, ZenonT(60) DEF IndInv, TypeOK
  <2> QED
    BY <1>1, <1>5, <2>1, StillOrder, ZenonT(30)
<1> QED
  BY <1>2, <1>3, <1>4, <1>5, Zenon DEF ReceiveTyped, ReceiveAsync

\* When the scheduler starts no message is anywhere.
LEMMA OrderInvInit == Init => OrderInv
<1> SUFFICES ASSUME Init PROVE OrderInv
  BY Zenon
<1>1. /\ \A t \in Tasks : received[t] = << >> /\ msg_queue[t] = << >> /\ ipc_buffer[t] = NoMsg
  BY Zenon DEF Init
<1>2. \A t \in Tasks : DOMAIN received[t] = {} /\ DOMAIN msg_queue[t] = {} /\ ~Deposited(t)
  BY <1>1, SMTT(30) DEF Deposited
<1> QED
  BY <1>1, <1>2, ZenonT(30) DEF OrderInv, PlacesInv, OncePlaced, ReceivedAtMostOnce, WaitsInOrder,
                    FifoButForOvertaking

\* Every step of the kernel keeps the order.
LEMMA OrderInvStep ==
    ASSUME IndInv, OrderInv, [Next]_vars
    PROVE  OrderInv'
<1>1. CASE UNCHANGED vars
  BY <1>1, StillOrder, Zenon DEF vars
<1>2. ASSUME NEW t \in Tasks, Halted(t) PROVE OrderInv'
  BY <1>1, <1>2, Zenon DEF Halted
<1> QED
  BY <1>1, <1>2, SchedulingOrder, DropOrder, SendTypedOrder, SendRetryOrder, SendAsyncOrder,
     ReceiveCallOrder, SMTT(30) DEF Next, Step

\* Where every message is, at any time.
THEOREM Order == Spec => []OrderInv
BY Invariance, OrderInvInit, OrderInvStep, PTL DEF Spec

\* sys_receive_typed and sys_receive_async never return a message twice, except
\* to its own sender, through retries, preemptions, deaths and restarts.
THEOREM AtMostOnce == Spec => []ReceivedAtMostOnce
<1>1. OrderInv => ReceivedAtMostOnce
  BY Zenon DEF OrderInv, OncePlaced
<1> QED
  BY <1>1, Order, PTL

\* The messages of one sender are received in the order they were sent, but for
\* asynchronous ones that overtake a synchronous one.
THEOREM FifoOrder == Spec => []FifoButForOvertaking
<1>1. OrderInv => FifoButForOvertaking
  BY Zenon DEF OrderInv, WaitsInOrder
<1> QED
  BY <1>1, Order, PTL
=============================================================================

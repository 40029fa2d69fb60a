----------------------------- MODULE Checkpoint -----------------------------
(***************************************************************************)
(* Checkpoint and restore (kernel/process/snapshot.rs).  The shell, which  *)
(* holds the processor whenever it executes a command, captures every task *)
(* into the one snapshot slot and restores it later.  In between, commands *)
(* mint, derive and remove capabilities and create and clear task slots,   *)
(* and the other tasks block, receive, wake and die.  A restore rolls back *)
(* what TaskCheckpoint holds of the tasks that still exist; the counter of *)
(* capability ids is not part of it.                                       *)
(***************************************************************************)
EXTENDS Naturals, FiniteSets

CONSTANTS
    TheShell,   \* the task that runs the commands
    Others,     \* the other slots
    NoTask,     \* an empty slot, an empty buffer, no snapshot, no origin
    MaxIds      \* bound: capability ids

Capabilities == [id : Nat, origin : Nat \cup {NoTask}]

Slots == Others \cup {TheShell}

\* The fields of a task that TaskCheckpoint holds; `to` is the task that
\* BlockedOnSend names.
TaskRecords ==
    [state : {"Ready", "Running", "BlockedOnReceive", "BlockedOnSend", "Terminated"},
     to : Slots \cup {NoTask}, cap_table : SUBSET Capabilities,
     ipc_buffer : {NoTask, "message"}, msg_queue : {0, 1}]

ASSUME CheckpointConstants ==
    /\ TheShell \notin Others /\ MaxIds \in Nat \ {0}
    /\ NoTask \notin TaskRecords /\ NoTask # "message"

VARIABLES
    tasks,      \* slot -> NoTask or one of TaskRecords
    snapshot,   \* SYSTEM_SNAPSHOT: NoTask until valid, else [tasks, checksum]
    next_id,    \* NEXT_CAP_ID
    verdict     \* of the last persistence demonstration

checkpointVars == <<tasks, snapshot, next_id, verdict>>

\* Resources are told apart by nothing but the id's origin.
NewCap(origin) == [id |-> next_id, origin |-> origin]

NewTask(caps) ==
    [state |-> "Ready", to |-> NoTask, cap_table |-> caps, ipc_buffer |-> NoTask, msg_queue |-> 0]

CheckpointInit ==
    /\ tasks = [t \in Slots |->
                  IF t = TheShell
                  THEN [NewTask({[id |-> 1, origin |-> NoTask]}) EXCEPT !.state = "Running"]
                  ELSE NoTask]
    /\ snapshot = NoTask /\ next_id = 2 /\ verdict = "none"

-----------------------------------------------------------------------------
(* capture, restore and the demonstration.                                 *)

\* The fields checksum mixes in: of a buffer that there is one, of a queue
\* how long it is.  FNV-1a is taken to tell these apart.
Checksum(table) ==
    [t \in Slots |->
       IF table[t] = NoTask THEN NoTask
       ELSE <<table[t].state, table[t].to, table[t].cap_table, table[t].ipc_buffer # NoTask,
              table[t].msg_queue>>]

Captured(table) == [tasks |-> table, checksum |-> Checksum(table)]

\* Mutant: the message queue is left as it is.
RolledBackButQueue(now, cp) == [cp EXCEPT !.msg_queue = now.msg_queue]

\* What restore assigns to a task that still has its slot.
RolledBack(now, cp) == cp

Restored(table, snap) ==
    [t \in Slots |->
       IF table[t] # NoTask /\ snap.tasks[t] # NoTask
       THEN RolledBack(table[t], snap.tasks[t]) ELSE table[t]]

Capture ==
    /\ snapshot' = Captured(tasks)
    /\ UNCHANGED <<tasks, next_id, verdict>>

\* Mutant: the id counter is rolled back with the tables.
IdAfterRestoreRewound ==
    1 + Cardinality(UNION {snapshot.tasks[t].cap_table :
                             t \in {u \in Slots : snapshot.tasks[u] # NoTask}})

\* NEXT_CAP_ID, which restore does not touch.
IdAfterRestore == next_id

Restore ==
    /\ snapshot # NoTask /\ Checksum(snapshot.tasks) = snapshot.checksum
    /\ tasks' = Restored(tasks, snapshot)
    /\ next_id' = IdAfterRestore
    /\ UNCHANGED <<snapshot, verdict>>

\* demo: capture, wipe the victim's table, restore, compare, capture again.
Demo(victim) ==
    LET before == Captured(tasks)
        wiped == IF tasks[victim] = NoTask THEN tasks
                 ELSE [tasks EXCEPT ![victim].cap_table = {}]
        after == Restored(wiped, before)
    IN  /\ tasks' = after
        /\ snapshot' = Captured(after)
        /\ verdict' = IF (tasks[victim] # NoTask =>
                             after[victim].cap_table = tasks[victim].cap_table)
                         /\ Checksum(after) = before.checksum
                      THEN "PASS" ELSE "FAIL"
        /\ UNCHANGED next_id

-----------------------------------------------------------------------------
(* What else the shell and the other tasks do between two commands.        *)

\* The commands that create a task.
Spawn(t) ==
    /\ next_id <= MaxIds
    /\ tasks' = [tasks EXCEPT ![t] = NewTask({NewCap(NoTask)})]
    /\ next_id' = next_id + 1
    /\ UNCHANGED <<snapshot, verdict>>

\* service restart and migrate empty a slot.
ClearSlot(t) ==
    /\ tasks[t] # NoTask
    /\ tasks' = [tasks EXCEPT ![t] = NoTask]
    /\ UNCHANGED <<snapshot, next_id, verdict>>

\* cap grant, from the shell's table.
Grant(t) ==
    /\ tasks[t] # NoTask /\ next_id <= MaxIds
    /\ \E donor \in tasks[TheShell].cap_table :
         tasks' = [tasks EXCEPT ![t].cap_table = @ \cup {NewCap(donor.id)}]
    /\ next_id' = next_id + 1
    /\ UNCHANGED <<snapshot, verdict>>

\* kernel_revoke of one slot of one table.
Revoke(t) ==
    /\ tasks[t] # NoTask
    /\ \E cap \in tasks[t].cap_table :
         tasks' = [tasks EXCEPT ![t].cap_table = @ \ {cap}]
    /\ UNCHANGED <<snapshot, next_id, verdict>>

\* The task's turn ends in a fault or exit: who is blocked sending to it wakes.
Dies(t) ==
    tasks' = [u \in Slots |->
                IF u = t THEN [tasks[t] EXCEPT !.state = "Terminated"]
                ELSE IF tasks[u] # NoTask /\ tasks[u].state = "BlockedOnSend" /\ tasks[u].to = t
                THEN [tasks[u] EXCEPT !.state = "Ready", !.to = NoTask]
                ELSE tasks[u]]

\* Nothing has been sent to the task that it could receive by itself.
InboxEmpty(t) == tasks[t].msg_queue = 0 /\ tasks[t].ipc_buffer = NoTask

\* A receive finds a sender that waits, takes its message and wakes it.
TakeFrom(t, u) ==
    /\ InboxEmpty(t)
    /\ tasks[u] # NoTask /\ tasks[u].state = "BlockedOnSend" /\ tasks[u].to = t
    /\ tasks' = [tasks EXCEPT ![u] = [@ EXCEPT !.state = "Ready", !.to = NoTask,
                                               !.ipc_buffer = NoTask]]

\* A receive: from the queue, from the buffer, from a sender, or it blocks.
Receive(t) ==
    \/ /\ tasks[t].msg_queue > 0
       /\ tasks' = [tasks EXCEPT ![t].msg_queue = @ - 1]
    \/ /\ tasks[t].msg_queue = 0 /\ tasks[t].ipc_buffer # NoTask
       /\ tasks' = [tasks EXCEPT ![t] = [@ EXCEPT !.ipc_buffer = NoTask]]
    \/ \E u \in Others : TakeFrom(t, u)
    \/ /\ InboxEmpty(t)
       /\ \A u \in Others : ~(tasks[u] # NoTask /\ tasks[u].state = "BlockedOnSend"
                               /\ tasks[u].to = t)
       /\ tasks' = [tasks EXCEPT ![t] = [@ EXCEPT !.state = "BlockedOnReceive"]]

\* A send that does not find its target waiting parks the message in the
\* sender's own buffer.
BlockOnSend(t, u) ==
    /\ tasks[u] # NoTask /\ tasks[u].state \notin {"BlockedOnReceive", "Terminated"}
    /\ tasks' = [tasks EXCEPT ![t] = [@ EXCEPT !.state = "BlockedOnSend", !.to = u,
                                               !.ipc_buffer = "message"]]

\* The task gets its turn.
TaskRuns(t) ==
    /\ tasks[t] # NoTask /\ tasks[t].state = "Ready"
    /\ Dies(t) \/ Receive(t) \/ \E u \in Slots : BlockOnSend(t, u)
    /\ UNCHANGED <<snapshot, next_id, verdict>>

\* A command of the shell receives what a task waits to send to it.
ShellReceives ==
    /\ \E u \in Others : TakeFrom(TheShell, u)
    /\ UNCHANGED <<snapshot, next_id, verdict>>

\* A send to the task: into the hands of a blocked receiver, else queued.
SendTo(t) ==
    /\ tasks[t] # NoTask
    /\ \/ /\ tasks[t].state = "BlockedOnReceive"
          /\ tasks' = [tasks EXCEPT ![t] = [@ EXCEPT !.state = "Ready",
                                                     !.ipc_buffer = "message"]]
       \/ /\ tasks[t].state \in {"Ready", "BlockedOnSend"} /\ tasks[t].msg_queue = 0
          /\ tasks' = [tasks EXCEPT ![t] = [@ EXCEPT !.msg_queue = 1]]
    /\ UNCHANGED <<snapshot, next_id, verdict>>

CheckpointNext ==
    \/ Capture \/ Restore \/ Revoke(TheShell) \/ Grant(TheShell) \/ ShellReceives
    \/ \E t \in Others :
         \/ Demo(t) \/ Spawn(t) \/ ClearSlot(t) \/ Grant(t) \/ Revoke(t)
         \/ TaskRuns(t) \/ SendTo(t)

-----------------------------------------------------------------------------

\* A restore at any later moment leaves the scheduler and IPC consistent: the
\* shell is the one Running task, a task that a restore puts back into
\* BlockedOnReceive has no message waiting that nobody would wake it for, and one
\* put back into BlockedOnSend has the message it waits to hand over.
RestoreKeepsTasksConsistent ==
    \A t \in Slots : tasks[t] # NoTask =>
       /\ tasks[t].state = "Running" <=> t = TheShell
       /\ tasks[t].state = "BlockedOnReceive" =>
             tasks[t].ipc_buffer = NoTask /\ tasks[t].msg_queue = 0
       /\ tasks[t].state = "BlockedOnSend" => tasks[t].ipc_buffer # NoTask

\* Capabilities that a restore brings back, revoked ones among them, never
\* share an id with a different capability minted since, in the tables or in
\* the snapshot; and the demonstration finds its victim as it was.
RestoreKeepsIdsDistinct ==
    LET held(table) == UNION {table[t].cap_table : t \in {u \in Slots : table[u] # NoTask}}
        all == held(tasks) \cup (IF snapshot = NoTask THEN {} ELSE held(snapshot.tasks))
    IN  /\ \A c, d \in all : c.id = d.id => c = d
        /\ verdict # "FAIL"

=============================================================================

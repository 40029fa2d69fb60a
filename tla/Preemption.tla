----------------------------- MODULE Preemption -----------------------------
(***************************************************************************)
(* Spinlocks, non-preemptible regions and interrupts on the scheduling     *)
(* core, one instruction at a time: kernel/preempt/mod.rs, the handlers of *)
(* kernel/interrupts/mod.rs and kernel/drivers/keyboard.rs, the locks of   *)
(* kernel/drivers/serial.rs, and the shell's `sched timeslice` and         *)
(* `sched preempt-race` (kernel/boot/main.rs has the same two              *)
(* demonstrations).  IpcKernel takes a critical section for one step; this *)
(* module is why it may.                                                   *)
(*                                                                         *)
(* Every task has the list of instructions it still has to execute.  The   *)
(* driver is the shell, the busy tasks never yield, the clients print,     *)
(* pass messages and read the keyboard, and yield after each call.         *)
(* Handlers run with interrupts off, through interrupt gates, and yield_cpu*)
(* clears the flag itself: each is one step.  A handler that meets a held  *)
(* lock spins for good, because the holder cannot run.                     *)
(***************************************************************************)
EXTENDS Naturals, Sequences

CONSTANTS
    NumBusy,     \* compute tasks of sched timeslice
    NumClients,  \* other kernel tasks
    Budget,      \* ticks a compute task runs for
    None         \* no holder, no handler

Driver == 1
Busy == 2 .. (1 + NumBusy)
Clients == (2 + NumBusy) .. (1 + NumBusy + NumClients)
Tasks == {Driver} \cup Busy \cup Clients
Locks == {"SCHEDULER", "SERIAL1", "REDIRECT_TARGET", "KBD_BUFFER"}

\* Bound of a tick count: the shell gives up on the compute tasks after
\* twice their budget.
Limit == 2 * Budget

ASSUME PreemptionConstants ==
    /\ NumBusy \in Nat \ {0} /\ NumClients \in Nat /\ Budget \in Nat \ {0}
    /\ None \notin Tasks

VARIABLES
    current,      \* the task that executes
    state,        \* "none", "Ready", "Running" or "Terminated"
    code,         \* instructions a task still has to execute
    holder,       \* the task that holds a lock
    preemptCount, \* PREEMPT_COUNT
    armed,        \* ARMED
    inWindow,     \* IN_IPC_WINDOW
    windowTicks,  \* WINDOW_TICKS > 0
    pending,      \* PENDING_REVOKE is set
    fired,        \* REVOKE_FIRED_IN_WINDOW
    capThere,     \* the capability under test is in the victim's table
    elapsed,      \* ticks since a task read the tick count, up to Limit
    stage,        \* what the driver is doing
    ownTick,      \* a tick landed in the driver's own window
    verdict,      \* what the last stage of preempt-race found
    stuck         \* the handler that spins

race == <<inWindow, windowTicks, pending, fired, capThere, ownTick, verdict>>
preemptVars == <<current, state, code, holder, preemptCount, armed, elapsed, stage,
          stuck, race>>

-----------------------------------------------------------------------------
(* The code of the tasks, as far as locks, regions and windows go *)

Section(l) == << <<"lock", l>>, <<"unlock", l>> >>

\* Mutant: serial output outside the non-preemptible region.
PrintUnprotected ==
    Section("REDIRECT_TARGET") \o Section("SERIAL1") \o << <<"yield">> >>

\* _print, to the port.
PrintCode ==
    << <<"enter">> >> \o Section("REDIRECT_TARGET") \o Section("SERIAL1")
    \o << <<"exit">>, <<"yield">> >>

\* _print while watch redirects the output.
RedirectedCode ==
    << <<"enter">> >> \o Section("REDIRECT_TARGET") \o << <<"exit">>, <<"yield">> >>

\* The validate-and-use region of sys_send_typed: a CriticalWindow, and in it
\* the critical section.
SendCode ==
    << <<"enter">>, <<"open">> >> \o Section("SCHEDULER")
    \o << <<"close">>, <<"exit">>, <<"yield">> >>

SendAsyncCode ==
    << <<"enter">> >> \o Section("SCHEDULER") \o << <<"exit">>, <<"yield">> >>

\* A receive, or any other critical section of the scheduler.
ReceiveCode == Section("SCHEDULER") \o << <<"yield">> >>

\* keyboard::try_read, by the device service.
TryReadCode == Section("KBD_BUFFER") \o << <<"yield">> >>

\* serial::read_byte and watch's poll for a key, at the prompt.
ReadByteCode == Section("SERIAL1") \o << <<"yield">> >>

\* watch sets and clears the target of its redirection.
RedirectCode == Section("REDIRECT_TARGET")

BusyCode == << <<"start">>, <<"compute">> >>

\* One round of the loop that waits for the compute tasks.
WaitCode == Section("SCHEDULER") \o << <<"done">>, <<"yield">> >>

PrepareCode == << <<"install">>, <<"arm_adversary">>, <<"reset">> >>

\* The first stage of preempt-race: the window is preemptible.
VulnerableCode ==
    PrepareCode \o << <<"open">>, <<"spin">>, <<"close">>, <<"use">> >>

\* Mutant: the region is left before the window is closed.
GuardedTooShort ==
    PrepareCode
    \o << <<"enter">>, <<"open">>, <<"exit">>, <<"spin">>, <<"close">>, <<"use">> >>

\* The second stage: the same window inside a non-preemptible region.  The
\* shell looks at the capability after the region, the boot demonstration
\* inside it.
GuardedCode ==
    PrepareCode
    \o << <<"enter">>, <<"open">>, <<"spin">>, <<"close">>, <<"exit">>, <<"use">> >>

BootGuardedCode ==
    PrepareCode
    \o << <<"enter">>, <<"open">>, <<"spin">>, <<"close">>, <<"use">>, <<"exit">> >>

-----------------------------------------------------------------------------
(* The scheduler *)

Distance(t, i) == (i - t - 1 + Len(code)) % Len(code)

NextReady(st, t, n) ==
    /\ st[n] = "Ready"
    /\ \A i \in Tasks : st[i] = "Ready" => Distance(t, n) <= Distance(t, i)

\* Mutant: the task that loses the processor is not marked Ready.
SwitchWithoutDemotion(st, n) ==
    /\ state' = [st EXCEPT ![n] = "Running"]
    /\ current' = n

\* The processor passes to n; the task that had it becomes Ready.
SwitchTo(st, n) ==
    /\ state' = [st EXCEPT ![current] = IF @ = "Running" THEN "Ready" ELSE @,
                           ![n] = "Running"]
    /\ current' = n

\* yield_cpu, preempt_reschedule and terminate_current_task pick alike.
Reschedule(st) ==
    \/ \E n \in Tasks \ {current} : NextReady(st, current, n) /\ SwitchTo(st, n)
    \/ /\ \A n \in Tasks \ {current} : st[n] # "Ready"
       /\ state' = st
       /\ UNCHANGED current

-----------------------------------------------------------------------------
(* Interrupts *)

\* Mutant: the tick does not look at the preempt count.
MaySwitchAnywhere == armed

\* on_tick_should_switch
MaySwitch == armed /\ preemptCount = 0

\* maybe_fire_adversary
Fires == inWindow /\ pending /\ holder["SCHEDULER"] = None

InOwnWindow ==
    /\ stage \in {"vulnerable", "guarded"} /\ current = Driver
    /\ code[Driver] # << >> /\ Head(code[Driver])[1] \in {"spin", "close"}

\* timer_isr: count the tick, then perhaps let the revoker run and switch.
\* preempt_reschedule only tries the scheduler's lock.
Tick ==
    /\ stuck = None
    /\ elapsed' = [t \in Tasks |-> IF elapsed[t] < Limit THEN elapsed[t] + 1 ELSE Limit]
    /\ windowTicks' = (windowTicks \/ inWindow)
    /\ ownTick' = (ownTick \/ InOwnWindow)
    /\ IF MaySwitch /\ Fires
       THEN capThere' = FALSE /\ fired' = TRUE /\ pending' = FALSE
       ELSE UNCHANGED <<capThere, fired, pending>>
    /\ IF MaySwitch /\ holder["SCHEDULER"] = None
       THEN Reschedule(state)
       ELSE UNCHANGED <<state, current>>
    /\ UNCHANGED <<code, holder, preemptCount, armed, inWindow, stage, verdict, stuck>>

\* keyboard_isr: a key that maps to a character is pushed under the lock.
Key ==
    /\ stuck = None
    /\ stuck' = IF holder["KBD_BUFFER"] = None THEN None ELSE "keyboard_isr"
    /\ UNCHANGED <<current, state, code, holder, preemptCount, armed, elapsed, stage, race>>

\* exception_dispatch: a client faults in its own code; the handler saves the
\* registers, prints them, and terminates the client.
Fault ==
    /\ stuck = None /\ current \in Clients /\ code[current] = << >>
    /\ IF \A l \in {"SCHEDULER", "REDIRECT_TARGET", "SERIAL1"} : holder[l] = None
       THEN Reschedule([state EXCEPT ![current] = "Terminated"]) /\ UNCHANGED stuck
       ELSE stuck' = "exception_dispatch" /\ UNCHANGED <<state, current>>
    /\ UNCHANGED <<code, holder, preemptCount, armed, elapsed, stage, race>>

-----------------------------------------------------------------------------
(* Instructions of the current task *)

At(op) ==
    /\ stuck = None
    /\ code[current] # << >> /\ Head(code[current])[1] = op
    /\ code' = [code EXCEPT ![current] = Tail(@)]

Lock ==
    /\ At("lock")
    /\ LET l == Head(code[current])[2]
       IN  holder[l] = None /\ holder' = [holder EXCEPT ![l] = current]
    /\ UNCHANGED <<current, state, preemptCount, armed, elapsed, stage, stuck, race>>

Unlock ==
    /\ At("unlock")
    /\ holder' = [holder EXCEPT ![Head(code[current])[2]] = None]
    /\ UNCHANGED <<current, state, preemptCount, armed, elapsed, stage, stuck, race>>

EnterCritical ==
    /\ At("enter")
    /\ preemptCount' = preemptCount + 1
    /\ UNCHANGED <<current, state, holder, armed, elapsed, stage, stuck, race>>

ExitCritical ==
    /\ At("exit")
    /\ preemptCount' = preemptCount - 1
    /\ UNCHANGED <<current, state, holder, armed, elapsed, stage, stuck, race>>

\* enter_ipc_window and exit_ipc_window
Window ==
    /\ \/ At("open") /\ inWindow' = TRUE
       \/ At("close") /\ inWindow' = FALSE
    /\ UNCHANGED <<current, state, holder, preemptCount, armed, elapsed, stage,
                   stuck, windowTicks, pending, fired, capThere, ownTick, verdict>>

YieldCpu ==
    /\ At("yield")
    /\ Reschedule(state)
    /\ UNCHANGED <<holder, preemptCount, armed, elapsed, stage, stuck, race>>

\* A compute task reads the tick count.
Start ==
    /\ At("start")
    /\ elapsed' = [elapsed EXCEPT ![current] = 0]
    /\ UNCHANGED <<current, state, holder, preemptCount, armed, stage, stuck, race>>

\* It loops until the count is Budget higher, and exits.
Compute ==
    /\ At("compute") /\ elapsed[current] >= Budget
    /\ Reschedule([state EXCEPT ![current] = "Terminated"])
    /\ UNCHANGED <<holder, preemptCount, armed, elapsed, stage, stuck, race>>

\* arm_adversary, reset_window_ticks and a fresh capability in the victim's
\* table, which is a critical section of its own.
Prepare ==
    /\ \/ At("install") /\ capThere' = TRUE /\ UNCHANGED <<pending, fired, windowTicks>>
       \/ /\ At("arm_adversary") /\ pending' = TRUE /\ fired' = FALSE
          /\ UNCHANGED <<capThere, windowTicks>>
       \/ At("reset") /\ windowTicks' = FALSE /\ UNCHANGED <<capThere, pending, fired>>
    /\ ownTick' = FALSE
    /\ UNCHANGED <<current, state, holder, preemptCount, armed, elapsed, stage,
                   stuck, inWindow, verdict>>

\* The spin for a tick in the window ends when there was one, or at its bound.
Spin ==
    /\ At("spin")
    /\ UNCHANGED <<current, state, holder, preemptCount, armed, elapsed, stage, stuck, race>>

\* The capability is looked up again, and whether the revoker fired.
Use ==
    /\ At("use")
    /\ verdict' = [stage |-> stage, gone |-> ~capThere, fired |-> fired, tick |-> ownTick]
    /\ UNCHANGED <<current, state, holder, preemptCount, armed, elapsed, stage,
                   stuck, inWindow, windowTicks, pending, fired, capThere, ownTick>>

\* The wait for the compute tasks ends when both are gone, or at the limit.
Done ==
    /\ At("done")
    /\ LET over == elapsed[Driver] >= Limit \/ \A b \in Busy : state[b] = "Terminated"
       IN  /\ stage' = IF over THEN "prompt" ELSE stage
           /\ armed' = (armed /\ ~over)
    /\ UNCHANGED <<current, state, holder, preemptCount, elapsed, stuck, race>>

-----------------------------------------------------------------------------
(* What a task does when it has nothing left to execute *)

Idle(t) == stuck = None /\ current = t /\ code[t] = << >>

\* A client makes a call.  The device service only reads the keyboard for a
\* shell that waits for it at the prompt.
Call ==
    /\ current \in Clients /\ Idle(current)
    /\ \E c \in {PrintCode, SendCode, SendAsyncCode, ReceiveCode}
                \cup (IF stage = "prompt" THEN {TryReadCode, RedirectedCode} ELSE {}) :
           code' = [code EXCEPT ![current] = c]
    /\ UNCHANGED <<current, state, holder, preemptCount, armed, elapsed, stage, stuck, race>>

\* The shell at the prompt.
Prompt ==
    /\ Idle(Driver) /\ stage = "prompt"
    /\ \E c \in {ReadByteCode, PrintCode, RedirectCode} : code' = [code EXCEPT ![Driver] = c]
    /\ UNCHANGED <<current, state, holder, preemptCount, armed, elapsed, stage, stuck, race>>

\* sched timeslice, which overwrites the two slots whatever is left in them.
Timeslice ==
    /\ Idle(Driver) /\ stage = "prompt"
    /\ state' = [t \in Tasks |-> IF t \in Busy THEN "Ready" ELSE state[t]]
    /\ code' = [t \in Tasks |-> IF t \in Busy THEN BusyCode ELSE code[t]]
    /\ elapsed' = [elapsed EXCEPT ![Driver] = 0]
    /\ armed' = TRUE /\ stage' = "slicing"
    /\ UNCHANGED <<current, holder, preemptCount, stuck, race>>

Wait ==
    /\ Idle(Driver) /\ stage = "slicing"
    /\ code' = [code EXCEPT ![Driver] = WaitCode]
    /\ UNCHANGED <<current, state, holder, preemptCount, armed, elapsed, stage, stuck, race>>

\* sched preempt-race: the vulnerable stage, the guarded one, and the end of
\* both: disarm_adversary and set_armed(false).
PreemptRace ==
    /\ Idle(Driver)
    /\ \/ /\ stage = "prompt" /\ stage' = "vulnerable" /\ armed' = TRUE
          /\ code' = [code EXCEPT ![Driver] = VulnerableCode]
          /\ UNCHANGED pending
       \/ /\ stage = "vulnerable" /\ stage' = "guarded"
          /\ \E c \in {GuardedCode, BootGuardedCode} : code' = [code EXCEPT ![Driver] = c]
          /\ UNCHANGED <<armed, pending>>
       \/ /\ stage = "guarded" /\ stage' = "prompt" /\ armed' = FALSE
          /\ pending' = FALSE
          /\ UNCHANGED code
    /\ UNCHANGED <<current, state, holder, preemptCount, elapsed, stuck,
                   inWindow, windowTicks, fired, capThere, ownTick, verdict>>

-----------------------------------------------------------------------------

PreemptInit ==
    /\ current = Driver
    /\ state = [t \in Tasks |-> IF t = Driver THEN "Running"
                                ELSE IF t \in Busy THEN "none" ELSE "Ready"]
    /\ code = [t \in Tasks |-> << >>]
    /\ holder = [l \in Locks |-> None]
    /\ preemptCount = 0
    /\ armed = FALSE /\ inWindow = FALSE /\ windowTicks = FALSE
    /\ pending = FALSE /\ fired = FALSE /\ capThere = FALSE
    /\ elapsed = [t \in Tasks |-> 0]
    /\ stage = "prompt" /\ ownTick = FALSE
    /\ verdict = [stage |-> "prompt", gone |-> FALSE, fired |-> FALSE, tick |-> FALSE]
    /\ stuck = None

TaskStep ==
    \/ Lock \/ Unlock \/ EnterCritical \/ ExitCritical \/ Window \/ YieldCpu
    \/ Start \/ Compute \/ Prepare \/ Spin \/ Use \/ Done
    \/ Call \/ Prompt \/ Timeslice \/ Wait \/ PreemptRace

PreemptNext == TaskStep \/ Tick \/ Key \/ Fault

PreemptSpec == PreemptInit /\ [][PreemptNext]_preemptVars

\* The timer keeps ticking, at 100 Hz: far from often enough to keep a task
\* that has the processor again and again from ever executing an instruction.
PreemptFairSpec ==
    /\ PreemptSpec
    /\ WF_preemptVars(Tick)
    /\ \A t \in Tasks : SF_preemptVars(current = t /\ TaskStep)

-----------------------------------------------------------------------------
(* Properties *)

\* Nobody ever spins on a lock: the task that executes finds every lock it
\* takes free, because no task is switched out while it holds one (_print and
\* the sends raise the preempt count, preempt_reschedule gives up when the
\* scheduler's lock is taken).  No handler spins either, but for one case: a
\* key that arrives while try_read holds KBD_BUFFER, whose handler takes the
\* lock with lock().
NobodySpins ==
    /\ code[current] # << >> /\ Head(code[current])[1] = "lock"
          => holder[Head(code[current])[2]] = None
    /\ stuck # None => stuck = "keyboard_isr" /\ holder["KBD_BUFFER"] = current

\* The processor changes hands only outside every non-preemptible region and
\* every critical section, so that a preempt count never leaks to another
\* task and a validate-and-use region is never split.
SwitchesOutsideRegions ==
    [][current' # current => preemptCount = 0 /\ \A l \in Locks : holder[l] = None]_preemptVars

\* What preempt-race reports.  In the preemptible window the revoker runs
\* exactly when a tick lands there, and then the capability is gone at its
\* use.  In the non-preemptible one ticks may land as they please: it never
\* runs and the capability is intact.
RaceVerdicts ==
    /\ verdict.stage = "guarded" => ~verdict.gone /\ ~verdict.fired
    /\ verdict.stage = "vulnerable" =>
          /\ verdict.gone <=> verdict.tick
          /\ verdict.fired <=> verdict.tick

\* The compute tasks of `sched timeslice` never yield, and yet each of them
\* runs to its end: the timer shares the processor out while it is armed.
ComputeTasksEnd ==
    \A b \in Busy : state[b] = "Ready" ~> (state[b] = "Terminated" \/ stuck # None)

-----------------------------------------------------------------------------
(* The inductive strengthening behind the theorems of PreemptionProofs *)

\* From position i of the code c on, op a comes before op b.
Inside(c, i, a, b) == \E j \in i .. Len(c) : c[j][1] = a /\ \A k \in i .. j : c[k][1] # b

\* A task that has come to position i of its code is in a non-preemptible
\* region; between enter_ipc_window and exit_ipc_window.
InRegion(c, i) == Inside(c, i, "exit", "enter")
InWindow(c, i) == Inside(c, i, "close", "open")

\* It has a lock, and which; the lock is released by the next instruction.
Holds(c) == c # << >> /\ c[1][1] = "unlock"

\* The discipline of the code: a lock is released at once, regions and windows
\* are left in the order opposite to that of their entry, and a task yields
\* and exits outside of both.
Disciplined(c) ==
    \A i \in 1 .. Len(c) :
        /\ c[i][1] \in {"lock", "unlock"} => c[i][2] \in Locks
        /\ c[i][1] = "lock" => i < Len(c) /\ c[i + 1][1] = "unlock" /\ c[i + 1][2] = c[i][2]
        /\ i < Len(c) /\ c[i + 1][1] = "unlock" => c[i][1] = "lock"
        /\ c[i][1] = "enter" => InRegion(c, i + 1)
        /\ c[i][1] = "exit" => ~InRegion(c, i + 1) /\ ~InWindow(c, i)
        /\ c[i][1] = "open" => InWindow(c, i + 1)
        /\ c[i][1] \in {"yield", "compute"} => i = Len(c)

\* Windows are inside regions, as in sys_send_typed.
WindowsInRegions(c) == \A i \in 1 .. Len(c) : c[i][1] = "open" => InRegion(c, i)

\* A tick may come anywhere: outside the regions there is only the scheduler's
\* lock, which preempt_reschedule looks at.
Preemptible(c) ==
    \A i \in 1 .. Len(c) :
        c[i][1] \in {"lock", "unlock"} => InRegion(c, i) \/ c[i][2] = "SCHEDULER"

\* The driver alone runs the demonstrations.
NoDemonstration(c) ==
    \A i \in 1 .. Len(c) :
        c[i][1] \notin {"install", "arm_adversary", "reset", "use", "done"}

Instructions ==
    {<<op>> : op \in {"enter", "exit", "open", "close", "yield", "start", "compute", "install",
                     "arm_adversary", "reset", "spin", "use", "done"}}
    \cup {<<op, l>> : op \in {"lock", "unlock"}, l \in Locks}

\* Type invariant, as far as the properties need it.
PreemptTypeOK ==
    /\ current \in Tasks
    /\ code \in [Tasks -> Seq(Instructions)]
    /\ holder \in [Locks -> Tasks \cup {None}]
    /\ preemptCount \in {0, 1}
    /\ stage \in {"prompt", "slicing", "vulnerable", "guarded"}
    /\ {armed, inWindow, pending, fired, capThere, ownTick} \subseteq BOOLEAN

\* Only the task that executes is in a region or has a lock.
LockInv ==
    /\ \A t \in Tasks : Disciplined(code[t])
    /\ \A t \in Tasks \ {current} : ~InRegion(code[t], 1) /\ ~Holds(code[t])
    /\ \A l \in Locks :
          holder[l] = IF Holds(code[current]) /\ code[current][1][2] = l THEN current ELSE None
    /\ preemptCount = IF InRegion(code[current], 1) THEN 1 ELSE 0
    /\ armed <=> stage # "prompt"
    /\ \A t \in Tasks : Preemptible(code[t]) \/ (t = current /\ ~armed)
    /\ stuck # None => stuck = "keyboard_isr" /\ holder["KBD_BUFFER"] = current

\* IN_IPC_WINDOW is set for the task that executes, inside its region, or for
\* the driver in the preemptible window of the first stage.
WindowInv ==
    /\ \A t \in Tasks : WindowsInRegions(code[t]) \/ (t = Driver /\ stage = "vulnerable")
    /\ inWindow => \/ InWindow(code[current], 1) /\ InRegion(code[current], 1)
                   \/ stage = "vulnerable" /\ InWindow(code[Driver], 1)

\* c is what is left of the program p.
RestOf(c, p) ==
    Len(c) <= Len(p) /\ \A i \in 1 .. Len(c) : c[i] = p[Len(p) - Len(c) + i]

\* How far the driver has come in preempt-race, and what has been done to the
\* capability by then: in the first stage the revoker has struck if and only if
\* a tick landed in the window, in the second it has not.
RaceInv ==
    LET left == Len(code[Driver])
    IN  /\ \A t \in Tasks \ {Driver} : NoDemonstration(code[t])
        /\ stage = "vulnerable" =>
              /\ RestOf(code[Driver], VulnerableCode)
              /\ left \in 4 .. 6 => capThere /\ ~ownTick
              /\ left \in 4 .. 5 => pending /\ ~fired
              /\ left \in 1 .. 3 => /\ capThere <=> ~ownTick
                                    /\ fired <=> ownTick
                                    /\ pending <=> ~ownTick
              /\ left \in 2 .. 3 /\ ~ownTick => inWindow /\ current = Driver
        /\ stage = "guarded" =>
              /\ RestOf(code[Driver], GuardedCode) \/ RestOf(code[Driver], BootGuardedCode)
              /\ left <= 8 => capThere
              /\ left <= 7 => pending /\ ~fired
        /\ RaceVerdicts

PreemptInv == PreemptTypeOK /\ LockInv /\ WindowInv /\ RaceInv

=============================================================================

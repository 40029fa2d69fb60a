---------------------------- MODULE SyncService ----------------------------
(***************************************************************************)
(* The synchronization service of kernel/shell/mod.rs (task 86), the shell *)
(* as its client (sync create, acquire, release) and the two jobs of tasks *)
(* that contend for an object: sync demo and bench contend.                *)
(*                                                                         *)
(* The service keeps eight objects that do not interact; the model has     *)
(* one.  A client sends a request synchronously and then receives: its     *)
(* request stands in request from the send on until the service takes it,  *)
(* its answers in replies.                                                 *)
(***************************************************************************)
EXTENDS Integers, Sequences, FiniteSets

CONSTANTS
    MaxWorkers,     \* tasks bench contend may start
    Shell,          \* task 64
    SYNC_MAX_WAIT,  \* cells of the wait ring
    Rounds,         \* rounds of a worker: 100 or BENCH_CONTEND_ITERS
    MaxPermits,     \* bound on the count that sync create asks for
    MaxCommands,    \* bound on the commands typed
    None

ASSUME SyncConstants ==
    /\ MaxWorkers \in Nat /\ MaxWorkers >= 2
    /\ Shell \notin Nat /\ None \notin Nat /\ Shell # None
    \* bench contend starts at most 16 tasks, and the ring has 16 cells
    /\ SYNC_MAX_WAIT \in Nat /\ MaxWorkers <= SYNC_MAX_WAIT
    /\ Rounds \in Nat \ {0} /\ MaxPermits \in Nat \ {0} /\ MaxCommands \in Nat

VARIABLES
    \* the object
    used, is_mutex, count, waiters, wait_head, wait_tail, wait_len,
    \* the service
    svc,       \* where it is in its loop, and the request it serves
    \* its clients
    request, replies,
    pc,        \* where a client is
    round,     \* rounds a worker has done
    val,       \* its copy of the counter
    counter,   \* BENCH_SYNC_COUNTER
    job,       \* what the workers are running
    shellCap,  \* the shell holds a SyncObj capability for the object
    ncmd,      \* commands typed so far
    granted    \* history: the client that got a permit last

objectVars == <<used, is_mutex, count, waiters, wait_head, wait_tail, wait_len, granted>>
workVars == <<round, val, counter>>
vars == <<objectVars, svc, request, replies, pc, workVars, job, shellCap, ncmd>>

\* Tasks 90 .. 105 of bench contend; sync demo has two of its own, the first two
\* here: the jobs never run at the same time.
Workers == 1 .. MaxWorkers

Clients == Workers \cup {Shell}

Status == {0, 1, 2, 4}

Requests == [op : {"create"}, mutex : BOOLEAN, n : 0 .. MaxPermits]
                \cup [op : {"acquire", "release"}]

Cells == 0 .. (SYNC_MAX_WAIT - 1)

\* None is no request either.
ASSUME NoRequest == None \notin Requests

Idle == [at |-> "receive", from |-> None, req |-> None, status |-> 0, waiter |-> None]

Init ==
    /\ used = FALSE /\ is_mutex = FALSE /\ count = 0
    /\ waiters = [i \in Cells |-> None]
    /\ wait_head = 0 /\ wait_tail = 0 /\ wait_len = 0
    /\ svc = Idle
    /\ request = [c \in Clients |-> None]
    /\ replies = [c \in Clients |-> << >>]
    /\ pc = [c \in Clients |-> IF c = Shell THEN "prompt" ELSE "none"]
    /\ round = [w \in Workers |-> 0] /\ val = [w \in Workers |-> 0]
    /\ counter = 0
    /\ job = "none"
    /\ shellCap = FALSE
    /\ ncmd = 0
    /\ granted = None

-----------------------------------------------------------------------------
(* The service *)

\* sync_check_cap: the workers' tables hold the capability from their creation.
HasCap(c) == c \in Workers \/ shellCap

\* sys_receive_typed hands over one of the requests that were sent.
Receive(c) ==
    /\ svc.at = "receive" /\ request[c] # None
    /\ svc' = [Idle EXCEPT !.at = "apply", !.from = c, !.req = request[c]]
    /\ request' = [request EXCEPT ![c] = None]
    /\ UNCHANGED <<objectVars, replies, pc, workVars, job, shellCap, ncmd>>

\* The service goes on to answer the sender, a waiter before it if there is one.
AnswerWith(status) == svc' = [svc EXCEPT !.at = "answer", !.status = status]

Create ==
    /\ svc.req.op = "create"
    /\ IF used
       THEN /\ AnswerWith(2)
            /\ UNCHANGED objectVars
       ELSE /\ used' = TRUE /\ is_mutex' = svc.req.mutex /\ count' = svc.req.n
            /\ wait_head' = 0 /\ wait_tail' = 0 /\ wait_len' = 0
            /\ AnswerWith(0)
            /\ UNCHANGED <<waiters, granted>>

\* A request on the object without the capability (1), or before it exists (2).
Refusal == IF ~HasCap(svc.from) THEN 1 ELSE 2

Refuse ==
    /\ svc.req.op # "create"
    /\ ~HasCap(svc.from) \/ ~used
    /\ AnswerWith(Refusal)
    /\ UNCHANGED objectVars

HasRoom == wait_len < SYNC_MAX_WAIT

\* Mutant: the waiter that comes last goes first.
EnqueueInFront(c) ==
    LET cell == (wait_head + SYNC_MAX_WAIT - 1) % SYNC_MAX_WAIT
    IN  /\ waiters' = [waiters EXCEPT ![cell] = c]
        /\ wait_head' = cell
        /\ wait_len' = wait_len + 1
        /\ UNCHANGED wait_tail

Enqueue(c) ==
    /\ waiters' = [waiters EXCEPT ![wait_tail] = c]
    /\ wait_tail' = (wait_tail + 1) % SYNC_MAX_WAIT
    /\ wait_len' = wait_len + 1
    /\ UNCHANGED wait_head

PermitLeft == count > 0

\* Mutant: a task that waits is answered all the same.
AnswerAtOnce == AnswerWith(0)

PutOffReply == svc' = Idle

\* acquire: a permit if there is one; else the reply is put off.
Acquire ==
    /\ svc.req.op = "acquire" /\ HasCap(svc.from) /\ used
    /\ \/ /\ PermitLeft
          /\ count' = count - 1 /\ granted' = svc.from
          /\ AnswerWith(0)
          /\ UNCHANGED <<used, is_mutex, waiters, wait_head, wait_tail, wait_len>>
       \/ /\ ~PermitLeft
          /\ IF HasRoom
             THEN /\ Enqueue(svc.from) /\ PutOffReply
                  /\ UNCHANGED <<used, is_mutex, count, granted>>
             ELSE AnswerWith(4) /\ UNCHANGED objectVars

\* Mutant: the permit is put back although it is handed on.
DequeueAndPutBack ==
    /\ wait_len > 0
    /\ wait_head' = (wait_head + 1) % SYNC_MAX_WAIT
    /\ wait_len' = wait_len - 1
    /\ count' = 1

Dequeue ==
    /\ wait_len > 0
    /\ wait_head' = (wait_head + 1) % SYNC_MAX_WAIT
    /\ wait_len' = wait_len - 1
    /\ UNCHANGED count

\* Mutant: a mutex counts its releases too.
CountWithoutLimit == count + 1

CountAfterRelease == IF is_mutex THEN 1 ELSE count + 1

\* release: the oldest waiter gets the permit, or the object takes it back.
Release ==
    /\ svc.req.op = "release" /\ HasCap(svc.from) /\ used
    /\ \/ /\ Dequeue
          /\ granted' = waiters[wait_head]
          /\ svc' = [svc EXCEPT !.at = "wake", !.waiter = waiters[wait_head]]
          /\ UNCHANGED <<used, is_mutex, waiters, wait_tail>>
       \/ /\ wait_len = 0
          /\ count' = CountAfterRelease
          /\ AnswerWith(0)
          /\ UNCHANGED <<used, is_mutex, waiters, wait_head, wait_tail, wait_len, granted>>

Apply ==
    /\ svc.at = "apply"
    /\ Create \/ Refuse \/ Acquire \/ Release
    /\ UNCHANGED <<request, replies, pc, workVars, job, shellCap, ncmd>>

\* Mutant: the waiter's reply is forgotten.
WakeNobody ==
    /\ svc.at = "wake"
    /\ svc' = [svc EXCEPT !.at = "answer", !.status = 0]
    /\ UNCHANGED <<objectVars, request, replies, pc, workVars, job, shellCap, ncmd>>

\* The deferred reply, through slot 1, to the task that waited.
WakeWaiter ==
    /\ svc.at = "wake"
    /\ replies' = [replies EXCEPT ![svc.waiter] = Append(@, 0)]
    /\ svc' = [svc EXCEPT !.at = "answer", !.status = 0]
    /\ UNCHANGED <<objectVars, request, pc, workVars, job, shellCap, ncmd>>

\* The reply, through slot 1, to the sender.
Answer ==
    /\ svc.at = "answer"
    /\ replies' = [replies EXCEPT ![svc.from] = Append(@, svc.status)]
    /\ svc' = Idle
    /\ UNCHANGED <<objectVars, request, pc, workVars, job, shellCap, ncmd>>

Service == (\E c \in Clients : Receive(c)) \/ Apply \/ WakeWaiter \/ Answer

-----------------------------------------------------------------------------
(* The workers *)

Send(c, req, next) ==
    /\ request' = [request EXCEPT ![c] = req]
    /\ pc' = [pc EXCEPT ![c] = next]

\* The first message in the queue; its status is not looked at.
TakeReply(c) == replies[c] # << >> /\ replies' = [replies EXCEPT ![c] = Tail(@)]

AcquireSend(w) ==
    /\ pc[w] = "acquire"
    /\ Send(w, [op |-> "acquire"], "acquiring")
    /\ UNCHANGED <<objectVars, svc, replies, workVars, job, shellCap, ncmd>>

AcquireReturns(w) ==
    /\ pc[w] = "acquiring" /\ TakeReply(w)
    /\ pc' = [pc EXCEPT ![w] = IF job = "bench" THEN "release" ELSE "load"]
    /\ UNCHANGED <<objectVars, svc, request, workVars, job, shellCap, ncmd>>

\* The counter is read, and written after a delay in which others may run.
Load(w) ==
    /\ pc[w] = "load"
    /\ val' = [val EXCEPT ![w] = counter]
    /\ pc' = [pc EXCEPT ![w] = "store"]
    /\ UNCHANGED <<objectVars, svc, request, replies, round, counter, job, shellCap, ncmd>>

\* The next round of a worker, or its end.
NextRound(w, again) ==
    /\ round' = [round EXCEPT ![w] = @ + 1]
    /\ pc' = [pc EXCEPT ![w] = IF round[w] + 1 < Rounds THEN again ELSE "terminated"]

Store(w) ==
    /\ pc[w] = "store"
    /\ counter' = val[w] + 1
    /\ IF job = "unguarded"
       THEN NextRound(w, "load")
       ELSE pc' = [pc EXCEPT ![w] = "release"] /\ UNCHANGED round
    /\ UNCHANGED <<objectVars, svc, request, replies, val, job, shellCap, ncmd>>

ReleaseSend(w) ==
    /\ pc[w] = "release"
    /\ Send(w, [op |-> "release"], "releasing")
    /\ UNCHANGED <<objectVars, svc, replies, workVars, job, shellCap, ncmd>>

ReleaseReturns(w) ==
    /\ pc[w] = "releasing" /\ TakeReply(w)
    /\ NextRound(w, "acquire")
    /\ UNCHANGED <<objectVars, svc, request, val, counter, job, shellCap, ncmd>>

Worker(w) ==
    \/ AcquireSend(w) \/ AcquireReturns(w) \/ Load(w) \/ Store(w)
    \/ ReleaseSend(w) \/ ReleaseReturns(w)

-----------------------------------------------------------------------------
(* The shell *)

\* A command is read; req goes to the service and the shell waits at next.
Command(req, next) ==
    /\ pc[Shell] = "prompt" /\ ncmd < MaxCommands
    /\ ncmd' = ncmd + 1
    /\ Send(Shell, req, next)
    /\ UNCHANGED <<objectVars, svc, replies, round, val, job, shellCap>>

\* A mutex is created with one permit, a semaphore with a number of them.
SyncCreate ==
    /\ \E m \in BOOLEAN, n \in 0 .. MaxPermits :
          /\ m => n = 1
          /\ Command([op |-> "create", mutex |-> m, n |-> n], "creating")
    /\ UNCHANGED counter

SyncAcquire == shellCap /\ Command([op |-> "acquire"], "waiting") /\ UNCHANGED counter

SyncRelease == shellCap /\ Command([op |-> "release"], "waiting") /\ UNCHANGED counter

\* cap revoke of the slot with the object's capability.
CapRevoke ==
    /\ pc[Shell] = "prompt" /\ ncmd < MaxCommands /\ shellCap
    /\ ncmd' = ncmd + 1
    /\ shellCap' = FALSE
    /\ UNCHANGED <<objectVars, svc, request, replies, pc, workVars, job>>

ShellCreateReturns ==
    /\ pc[Shell] = "creating" /\ TakeReply(Shell)
    \* the insertion is lost if the table is full
    /\ shellCap' \in IF Head(replies[Shell]) = 0 THEN {shellCap, TRUE} ELSE {shellCap}
    /\ pc' = [pc EXCEPT ![Shell] = "prompt"]
    /\ UNCHANGED <<objectVars, svc, request, workVars, job, ncmd>>

ShellWaitReturns ==
    /\ pc[Shell] = "waiting" /\ TakeReply(Shell)
    /\ pc' = [pc EXCEPT ![Shell] = "prompt"]
    /\ UNCHANGED <<objectVars, svc, request, workVars, job, shellCap, ncmd>>

\* Both jobs begin with the creation of a mutex, whose status is not looked at.
NewMutex == [op |-> "create", mutex |-> TRUE, n |-> 1]

RunSyncDemo == Command(NewMutex, "demo") /\ counter' = 0

RunBenchContend == Command(NewMutex, "bench") /\ UNCHANGED counter

\* The tasks of a job are put into their slots.
StartWorkers(ws, first) ==
    /\ round' = [w \in Workers |-> 0] /\ val' = [w \in Workers |-> 0]
    /\ pc' = [c \in Clients |-> IF c = Shell THEN "polling"
                                ELSE IF c \in ws THEN first ELSE "none"]

SpawnGuarded ==
    /\ pc[Shell] = "demo" /\ TakeReply(Shell)
    /\ StartWorkers(1 .. 2, "acquire")
    /\ job' = "guarded"
    /\ UNCHANGED <<objectVars, svc, request, counter, shellCap, ncmd>>

SpawnContenders ==
    /\ pc[Shell] = "bench" /\ TakeReply(Shell)
    /\ \E n \in 1 .. MaxWorkers : StartWorkers(1 .. n, "acquire")
    /\ job' = "bench"
    /\ UNCHANGED <<objectVars, svc, request, counter, shellCap, ncmd>>

\* The shell polls the states of the tasks it started.
AllOver == \A w \in Workers : pc[w] \in {"none", "terminated"}

\* The second half of sync demo does the same work without the mutex.
SpawnUnguarded ==
    /\ pc[Shell] = "polling" /\ job = "guarded" /\ AllOver
    /\ counter' = 0
    /\ StartWorkers(1 .. 2, "load")
    /\ job' = "unguarded"
    /\ UNCHANGED <<objectVars, svc, request, replies, shellCap, ncmd>>

JobOver ==
    /\ pc[Shell] = "polling" /\ job # "guarded" /\ AllOver
    /\ pc' = [c \in Clients |-> IF c = Shell THEN "prompt" ELSE "none"]
    /\ job' = "none"
    /\ round' = [w \in Workers |-> 0] /\ val' = [w \in Workers |-> 0]
    /\ UNCHANGED <<objectVars, svc, request, replies, counter, shellCap, ncmd>>

ShellCommands ==
    SyncCreate \/ SyncAcquire \/ SyncRelease \/ CapRevoke \/ RunSyncDemo \/ RunBenchContend

ShellGoesOn ==
    \/ ShellCreateReturns \/ ShellWaitReturns
    \/ SpawnGuarded \/ SpawnContenders \/ SpawnUnguarded \/ JobOver

Next == Service \/ (\E w \in Workers : Worker(w)) \/ ShellCommands \/ ShellGoesOn

Spec == Init /\ [][Next]_vars

\* The service and the workers are scheduled round-robin; commands need not be
\* typed.
FairSpec ==
    /\ Spec
    /\ WF_vars(Service) /\ WF_vars(ShellGoesOn)
    /\ \A w \in Workers : WF_vars(Worker(w))

-----------------------------------------------------------------------------
(* Properties *)

Tokens == {"none", "acquire", "acquiring", "load", "store", "release", "releasing",
           "terminated"}

ShellTokens == {"prompt", "creating", "waiting", "demo", "bench", "polling"}

ServiceStates ==
    [at : {"receive", "apply", "wake", "answer"}, from : Clients \cup {None},
     req : Requests \cup {None}, status : Status, waiter : Clients \cup {None}]

TypeOK ==
    /\ used \in BOOLEAN /\ is_mutex \in BOOLEAN /\ count \in Nat
    /\ waiters \in [Cells -> Clients \cup {None}]
    /\ wait_head \in Cells /\ wait_tail \in Cells /\ wait_len \in 0 .. SYNC_MAX_WAIT
    /\ svc \in ServiceStates
    /\ request \in [Clients -> Requests \cup {None}]
    /\ replies \in [Clients -> Seq(Status)]
    /\ pc \in [Clients -> Tokens \cup ShellTokens]
    /\ round \in [Workers -> 0 .. Rounds] /\ val \in [Workers -> Nat] /\ counter \in Nat
    /\ job \in {"none", "guarded", "unguarded", "bench"}
    /\ shellCap \in BOOLEAN /\ ncmd \in 0 .. MaxCommands
    /\ granted \in Clients \cup {None}

\* The tasks in the ring, the oldest first.
WaitList == [i \in 1 .. wait_len |-> waiters[(wait_head + i - 1) % SYNC_MAX_WAIT]]

InService(c) == svc.at # "receive" /\ svc.from = c

InRing(c) == \E i \in 1 .. wait_len : WaitList[i] = c

\* Where the conversation of a client that waits for an answer can stand.
Stations == {"sent", "served", "ring", "woken", "answered"}

Places(c) ==
    {p \in Stations :
        \/ p = "sent" /\ request[c] # None
        \/ p = "served" /\ InService(c)
        \/ p = "ring" /\ InRing(c)
        \/ p = "woken" /\ svc.at = "wake" /\ svc.waiter = c
        \/ p = "answered" /\ replies[c] # << >>}

WaitTokens == {"acquiring", "releasing", "creating", "waiting", "demo", "bench"}

Awaits(c) == pc[c] \in WaitTokens

(***************************************************************************)
(* Every request is answered once: a client that waits has exactly one     *)
(* conversation under way - its request, its service, its cell of the      *)
(* ring, its wake-up or its answer -, and a client that does not wait has  *)
(* no request, no cell and no answer left over that its next receive would *)
(* take for another.  About the deferred reply of acquire and the two      *)
(* replies of release (sync_service_main).                                 *)
(***************************************************************************)
OneAnswerPerRequest ==
    \A c \in Clients :
        /\ IF Awaits(c) THEN \E p \in Stations : Places(c) = {p} ELSE Places(c) = {}
        /\ Len(replies[c]) <= 1
        /\ \A i, j \in 1 .. wait_len : WaitList[i] = c /\ WaitList[j] = c => i = j

InCriticalSection(w) == pc[w] \in {"load", "store", "release"} /\ job # "unguarded"

(***************************************************************************)
(* Two tasks of sync demo or bench contend are never both between their    *)
(* acquire and their release if the object is a mutex, whatever the shell  *)
(* did with it before, although they do not look at the status of a reply. *)
(***************************************************************************)
MutualExclusion ==
    is_mutex => \A v, w \in Workers :
                    InCriticalSection(v) /\ InCriticalSection(w) => v = w

(***************************************************************************)
(* "Guarded run final counter: {} (Expected: 200)": when the guarded tasks *)
(* are over no increment was lost.                                         *)
(***************************************************************************)
GuardedCounterIsExact ==
    is_mutex /\ job = "guarded" /\ AllOver => counter = 2 * Rounds

Sem == INSTANCE Semaphore WITH
    made <- used, mutex <- is_mutex, permits <- count, waiting <- WaitList, turn <- granted

\* The object, its ring included, is a semaphore that hands permits on in the
\* order of the requests (SyncObject and sync_service_main).
Implements == Sem!Spec

\* A permit is free, or with a worker or on its way to it or back.
PermitExists ==
    \/ count > 0
    \/ \E w \in Workers :
        \/ pc[w] \in {"load", "store", "release"}
        \/ pc[w] = "releasing" /\ request[w] # None
        \/ pc[w] = "releasing" /\ svc.at = "apply" /\ svc.from = w
        \/ pc[w] = "acquiring" /\ replies[w] # << >>
        \/ pc[w] = "acquiring" /\ svc.at = "answer" /\ svc.from = w
        \/ pc[w] = "acquiring" /\ svc.at = "wake" /\ svc.waiter = w

(***************************************************************************)
(* The loops in which run_sync_demo and run_bench_contend poll their tasks *)
(* end as long as the object has a permit to pass round.  (If the shell    *)
(* holds the mutex itself, or created a semaphore of 0, they do not.)      *)
(***************************************************************************)
JobEnds == pc[Shell] = "polling" /\ PermitExists ~> pc[Shell] = "prompt"
=============================================================================

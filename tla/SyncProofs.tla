----------------------------- MODULE SyncProofs -----------------------------
(***************************************************************************)
(* Proofs about SyncService for any number of workers, cells of the ring,  *)
(* rounds and commands.  SyncInv is inductive: one lemma for each step of  *)
(* the service, of the workers and of the shell.  From it: a mutex         *)
(* excludes, the guarded counter is exact, every request gets one answer,  *)
(* and the object implements Semaphore.                                    *)
(***************************************************************************)
EXTENDS SyncService, TLAPS

\* The tasks in the ring, and the one about to be woken, as sets.
Ring == {WaitList[i] : i \in 1 .. wait_len}

Woken == IF svc.at = "wake" THEN {svc.waiter} ELSE {}

RingDistinct == \A i, j \in 1 .. wait_len : WaitList[i] = WaitList[j] => i = j

RingInv ==
    /\ waiters \in [Cells -> Clients \cup {None}] /\ wait_head \in Cells /\ wait_tail \in Cells
    /\ wait_len \in 0 .. SYNC_MAX_WAIT
    /\ wait_tail = IF wait_head + wait_len < SYNC_MAX_WAIT THEN wait_head + wait_len
                   ELSE wait_head + wait_len - SYNC_MAX_WAIT
    /\ Ring \subseteq Clients
    /\ RingDistinct

\* A client's request fits the place where it waits.
Asks(c, r) ==
    /\ pc[c] = "acquiring" => r.op = "acquire"
    /\ pc[c] = "releasing" => r.op = "release"
    /\ pc[c] \in {"creating", "demo", "bench"} => r.op = "create" /\ (r.mutex => r.n = 1)
    /\ pc[c] = "waiting" => r.op # "create"

\* One conversation for a client that waits, none for the others.
Conversation(c) ==
    /\ Awaits(c) <=> \/ request[c] # None \/ InService(c) \/ c \in Ring \/ c \in Woken
                     \/ replies[c] # << >>
    /\ request[c] # None =>
          ~InService(c) /\ c \notin Ring /\ c \notin Woken /\ replies[c] = << >>
    /\ InService(c) => c \notin Ring /\ c \notin Woken /\ replies[c] = << >>
    /\ c \in Ring => c \notin Woken /\ replies[c] = << >>
    /\ c \in Woken => replies[c] = << >>
    /\ Len(replies[c]) <= 1
    /\ request[c] # None => Asks(c, request[c])
    /\ InService(c) => Asks(c, svc.req)
    /\ c \in Ring \/ c \in Woken => pc[c] \in {"acquiring", "waiting"}

Talk == \A c \in Clients : Conversation(c)

Serving ==
    /\ svc.at # "receive" => svc.from \in Clients /\ svc.req \in Requests
    /\ svc.at = "wake" => svc.waiter \in Clients /\ svc.req.op = "release"

\* The workers run while the shell polls; the object exists by then.
Phases ==
    /\ pc[Shell] \in ShellTokens
    /\ \A w \in Workers : pc[w] \in Tokens
    /\ \A w \in Workers : pc[w] \notin {"terminated", "none"} => round[w] < Rounds
    /\ pc[Shell] = "polling" <=> job # "none"
    /\ job = "none" => \A w \in Workers : pc[w] = "none"
    /\ job = "unguarded" =>
          \A w \in Workers : pc[w] \in {"none", "load", "store", "terminated"}
    /\ job = "bench" => \A w \in Workers : pc[w] \notin {"load", "store"}
    /\ job # "none" => used
    /\ pc[Shell] = "demo" => counter = 0
    /\ pc[Shell] \in {"demo", "bench"} =>
          (replies[Shell] # << >> \/ (svc.at = "answer" /\ svc.from = Shell) => used)

\* The workers that have the permit, or have it on its way to them or back.
Holders ==
    {w \in Workers :
        \/ job # "unguarded" /\ pc[w] \in {"load", "store", "release"}
        \/ pc[w] = "releasing" /\ request[w] # None
        \/ pc[w] = "releasing" /\ svc.at = "apply" /\ svc.from = w
        \/ pc[w] = "acquiring" /\ replies[w] # << >>
        \/ pc[w] = "acquiring" /\ svc.at = "answer" /\ svc.from = w
        \/ pc[w] = "acquiring" /\ svc.at = "wake" /\ svc.waiter = w}

OnePermit ==
    is_mutex =>
        /\ count \in {0, 1}
        /\ count = 1 => Holders = {}
        /\ \A v, w \in Holders : v = w

\* The increments a worker has made.
Made(w) == round[w] + (IF pc[w] \in {"release", "releasing"} THEN 1 ELSE 0)

Counting ==
    is_mutex /\ job = "guarded" =>
        /\ counter = Made(1) + Made(2)
        /\ \A w \in Workers :
              /\ pc[w] = "store" => val[w] = counter
              /\ pc[w] = "none" <=> w \notin 1 .. 2
              /\ pc[w] = "terminated" => round[w] = Rounds

SyncInv ==
    TypeOK /\ RingInv /\ Talk /\ Serving /\ Phases /\ OnePermit /\ Counting

-----------------------------------------------------------------------------
(* The ring *)

\* The i-th cell from cell h on, without the remainder.
At(h, i) == IF h + i - 1 < SYNC_MAX_WAIT THEN h + i - 1 ELSE h + i - 1 - SYNC_MAX_WAIT

\* An index below two turns of the ring, reduced by % SYNC_MAX_WAIT.
LEMMA Wrap ==
    ASSUME NEW i \in 0 .. (2 * SYNC_MAX_WAIT - 1)
    PROVE  i % SYNC_MAX_WAIT = IF i < SYNC_MAX_WAIT THEN i ELSE i - SYNC_MAX_WAIT
BY SyncConstants

\* The index computations of the ring agree with At.
LEMMA WrapAt ==
    ASSUME NEW h \in Cells, NEW i \in 1 .. SYNC_MAX_WAIT
    PROVE  (h + i - 1) % SYNC_MAX_WAIT = At(h, i) /\ At(h, i) \in Cells
<1> DEFINE k == h + i - 1
<1>1. k \in 0 .. (2 * SYNC_MAX_WAIT - 1)
  BY SyncConstants DEF Cells
<1>2. At(h, i) = IF k < SYNC_MAX_WAIT THEN k ELSE k - SYNC_MAX_WAIT
  BY SyncConstants DEF At, Cells
<1> HIDE DEF k
<1>3. k % SYNC_MAX_WAIT = IF k < SYNC_MAX_WAIT THEN k ELSE k - SYNC_MAX_WAIT
  BY <1>1, Wrap, Zenon
<1>4. At(h, i) \in Cells
  BY <1>1, <1>2, SyncConstants DEF Cells
<1> QED
  BY <1>2, <1>3, <1>4, Zenon DEF k

\* The cell after h, where wait_head and wait_tail move to.
LEMMA NextCell ==
    ASSUME NEW h \in Cells
    PROVE  (h + 1) % SYNC_MAX_WAIT = IF h = SYNC_MAX_WAIT - 1 THEN 0 ELSE h + 1
BY SyncConstants DEF Cells

\* The wait list, read with At.
LEMMA ListAt ==
    ASSUME RingInv
    PROVE  \A i \in 1 .. wait_len : WaitList[i] = waiters[At(wait_head, i)]
<1>1. \A i \in 1 .. wait_len : (wait_head + i - 1) % SYNC_MAX_WAIT = At(wait_head, i)
  BY WrapAt, SyncConstants DEF RingInv
<1> QED
  BY <1>1, Zenon DEF WaitList

\* The ring and its list are the same when its variables are.
LEMMA RingSame ==
    ASSUME RingInv, UNCHANGED <<waiters, wait_head, wait_tail, wait_len>>
    PROVE  RingInv' /\ Ring' = Ring /\ WaitList' = WaitList
BY DEF RingInv, Ring, RingDistinct, WaitList

\* A task that is not in the ring is put at its end.
LEMMA RingEnqueue ==
    ASSUME RingInv, NEW c \in Clients, c \notin Ring, HasRoom, Enqueue(c)
    PROVE  /\ RingInv' /\ Ring' = Ring \cup {c} /\ wait_len' = wait_len + 1
           /\ \A i \in 1 .. wait_len' :
                 WaitList'[i] = IF i = wait_len + 1 THEN c ELSE WaitList[i]
<1> DEFINE N == SYNC_MAX_WAIT
<1>a. /\ N \in Nat \ {0} /\ wait_head \in 0 .. (N - 1) /\ wait_tail \in 0 .. (N - 1)
      /\ wait_len \in 0 .. (N - 1) /\ wait_head \in Cells /\ wait_tail \in Cells
      /\ waiters \in [Cells -> Clients \cup {None}]
      /\ wait_tail = IF wait_head + wait_len < N THEN wait_head + wait_len
                     ELSE wait_head + wait_len - N
  BY SyncConstants DEF RingInv, HasRoom, Cells
<1>b. /\ waiters' = [waiters EXCEPT ![wait_tail] = c] /\ wait_tail' = (wait_tail + 1) % N
      /\ wait_head' = wait_head /\ wait_len' = wait_len + 1
  BY Zenon DEF Enqueue
<1>1. wait_tail' = IF wait_tail = N - 1 THEN 0 ELSE wait_tail + 1
  BY <1>a, <1>b, NextCell, Zenon
<1>2. /\ waiters' \in [Cells -> Clients \cup {None}] /\ wait_tail' \in Cells
      /\ wait_len' \in 1 .. N
      /\ wait_tail' = IF wait_head' + wait_len' < N THEN wait_head' + wait_len'
                      ELSE wait_head' + wait_len' - N
  BY <1>a, <1>b, <1>1 DEF Cells
<1>3. \A i \in 1 .. wait_len : At(wait_head, i) # wait_tail /\ At(wait_head, i) \in Cells
  BY <1>a DEF At, Cells
<1>4. At(wait_head, wait_len + 1) = wait_tail
  BY <1>a DEF At
<1>5. \A i \in 1 .. wait_len' : (wait_head' + i - 1) % N = At(wait_head, i)
  BY <1>a, <1>b, <1>2, WrapAt
<1>6. WaitList' = [i \in 1 .. wait_len' |-> waiters'[At(wait_head, i)]]
  BY <1>5, Zenon DEF WaitList
<1>7. \A i \in 1 .. wait_len : WaitList[i] = waiters[At(wait_head, i)]
  BY ListAt, Zenon
<1>8. \A i \in 1 .. wait_len' : WaitList'[i] = IF i = wait_len + 1 THEN c ELSE WaitList[i]
  <2> SUFFICES ASSUME NEW i \in 1 .. wait_len'
               PROVE  WaitList'[i] = IF i = wait_len + 1 THEN c ELSE WaitList[i]
    BY Zenon
  <2>1. WaitList'[i] = waiters'[At(wait_head, i)]
    BY <1>6, Zenon
  <2>2. CASE i = wait_len + 1
    BY <1>a, <1>b, <1>4, <2>1, <2>2, Zenon
  <2>3. CASE i # wait_len + 1
    <3>1. i \in 1 .. wait_len
      BY <1>a, <1>b, <2>3
    <3> QED
      BY <1>a, <1>b, <1>3, <1>7, <2>1, <2>3, <3>1, Zenon
  <2> QED
    BY <2>2, <2>3, Zenon
<1>9. Ring' = Ring \cup {c}
  <2>1. Ring' = {WaitList'[i] : i \in 1 .. wait_len'}
    BY Zenon DEF Ring
  <2>2. \A i \in 1 .. wait_len' : i = wait_len + 1 \/ i \in 1 .. wait_len
    BY <1>a, <1>b
  <2>3. /\ wait_len + 1 \in 1 .. wait_len'
        /\ \A i \in 1 .. wait_len : i \in 1 .. wait_len' /\ i # wait_len + 1
    BY <1>a, <1>b
  <2> QED
    BY <1>8, <2>1, <2>2, <2>3, Zenon DEF Ring
<1>10. RingDistinct'
  <2>1. \A i \in 1 .. wait_len : WaitList[i] # c
    BY Zenon DEF Ring
  <2>2. \A i \in 1 .. wait_len' : i = wait_len + 1 \/ i \in 1 .. wait_len
    BY <1>a, <1>b
  <2> QED
    BY <1>8, <2>1, <2>2, Zenon DEF RingInv, RingDistinct
<1> QED
  BY <1>a, <1>b, <1>2, <1>8, <1>9, <1>10 DEF RingInv

\* The oldest waiter is taken out.
LEMMA RingDequeue ==
    ASSUME RingInv, wait_len > 0, UNCHANGED <<waiters, wait_tail>>,
           wait_head' = (wait_head + 1) % SYNC_MAX_WAIT, wait_len' = wait_len - 1
    PROVE  /\ RingInv' /\ waiters[wait_head] \in Ring /\ Ring' = Ring \ {waiters[wait_head]}
           /\ waiters[wait_head] = WaitList[1]
           /\ \A i \in 1 .. wait_len' : WaitList'[i] = WaitList[i + 1]
<1> DEFINE N == SYNC_MAX_WAIT
<1>a. /\ N \in Nat \ {0} /\ wait_head \in 0 .. (N - 1) /\ wait_len \in 1 .. N
      /\ wait_head \in Cells
      /\ wait_tail = IF wait_head + wait_len < N THEN wait_head + wait_len
                     ELSE wait_head + wait_len - N
  BY SyncConstants DEF RingInv, Cells
<1>1. wait_head' = IF wait_head = N - 1 THEN 0 ELSE wait_head + 1
  BY <1>a, NextCell, Zenon
<1>2. /\ wait_head' \in Cells /\ wait_len' \in 0 .. N
      /\ wait_tail' = IF wait_head' + wait_len' < N THEN wait_head' + wait_len'
                      ELSE wait_head' + wait_len' - N
  BY <1>a, <1>1 DEF Cells
<1>3. \A i \in 1 .. wait_len' :
          i + 1 \in 1 .. wait_len /\ i + 1 # 1 /\ At(wait_head', i) = At(wait_head, i + 1)
  BY <1>a, <1>1 DEF At
<1>4. \A i \in 1 .. wait_len' : (wait_head' + i - 1) % N = At(wait_head', i)
  BY <1>2, WrapAt, SyncConstants
<1>5. WaitList' = [i \in 1 .. wait_len' |-> waiters[At(wait_head', i)]]
  BY <1>4, Zenon DEF WaitList
<1>6. \A i \in 1 .. wait_len : WaitList[i] = waiters[At(wait_head, i)]
  BY ListAt, Zenon
<1>7. \A i \in 1 .. wait_len' : WaitList'[i] = WaitList[i + 1]
  BY <1>3, <1>5, <1>6, Zenon
<1>8. waiters[wait_head] = WaitList[1]
  <2>1. At(wait_head, 1) = wait_head /\ 1 \in 1 .. wait_len
    BY <1>a DEF At
  <2> QED
    BY <1>6, <2>1, Zenon
<1>9. \A i \in 1 .. wait_len : i = 1 \/ (i - 1 \in 1 .. wait_len' /\ (i - 1) + 1 = i)
  BY <1>a
<1>10. Ring' = Ring \ {waiters[wait_head]} /\ waiters[wait_head] \in Ring
  <2>1. 1 \in 1 .. wait_len
    BY <1>a
  <2>2. waiters[wait_head] \in Ring
    BY <1>8, <2>1, Zenon DEF Ring
  <2>3. Ring' = {WaitList'[i] : i \in 1 .. wait_len'}
    BY Zenon DEF Ring
  <2>4. ASSUME NEW c \in Ring' PROVE c \in Ring /\ c # WaitList[1]
    <3>1. PICK i \in 1 .. wait_len' : c = WaitList[i + 1]
      BY <1>7, <2>3, Zenon
    <3> QED
      BY <1>3, <2>1, <3>1, Zenon DEF Ring, RingInv, RingDistinct
  <2>5. ASSUME NEW c \in Ring, c # WaitList[1] PROVE c \in Ring'
    <3>1. PICK i \in 1 .. wait_len : c = WaitList[i]
      BY Zenon DEF Ring
    <3>2. i - 1 \in 1 .. wait_len' /\ (i - 1) + 1 = i
      BY <1>9, <2>5, <3>1, Zenon
    <3>3. WaitList'[i - 1] = c
      BY <1>7, <3>1, <3>2, Zenon
    <3> QED
      BY <2>3, <3>2, <3>3, Zenon
  <2> QED
    BY <1>8, <2>2, <2>4, <2>5, Zenon
<1>11. RingDistinct'
  <2> SUFFICES ASSUME NEW i \in 1 .. wait_len', NEW j \in 1 .. wait_len',
                      WaitList'[i] = WaitList'[j]
               PROVE  i = j
    BY Zenon DEF RingDistinct
  <2>1. i + 1 = j + 1
    BY <1>3, <1>7 DEF RingInv, RingDistinct
  <2> QED
    BY <1>2, <2>1
<1> QED
  BY <1>2, <1>7, <1>8, <1>10, <1>11, Zenon DEF RingInv

\* A new object has an empty ring.
LEMMA RingReset ==
    ASSUME waiters' \in [Cells -> Clients \cup {None}],
           wait_head' = 0, wait_tail' = 0, wait_len' = 0
    PROVE  RingInv' /\ Ring' = {}
<1>1. 1 .. wait_len' = {} /\ SYNC_MAX_WAIT \in Nat \ {0} /\ 0 \in Cells
  BY SyncConstants DEF Cells
<1>2. Ring' = {} /\ RingDistinct'
  BY <1>1, Zenon DEF Ring, RingDistinct
<1> QED
  BY <1>1, <1>2 DEF RingInv

\* The ring is empty when wait_len says so.
LEMMA RingEmpty ==
    ASSUME RingInv
    PROVE  wait_len = 0 <=> Ring = {}
<1>1. /\ wait_len \in Nat /\ (wait_len # 0 => 1 \in 1 .. wait_len)
      /\ wait_len = 0 => 1 .. wait_len = {}
  BY SyncConstants DEF RingInv
<1> QED
  BY <1>1, Zenon DEF Ring

\* A worker that asks for the permit finds room in the ring as long as only other
\* workers wait; Room proves it from the numbers of workers and cells.
RoomForWorkers == \A w \in Workers : Ring \subseteq Workers \ {w} => HasRoom

-----------------------------------------------------------------------------
(* The conversations *)

\* The shell is no worker and None no client.
LEMMA Distinct ==
    /\ Shell \notin Workers /\ None \notin Clients
    /\ Shell \in Clients /\ Workers \subseteq Clients
BY SyncConstants DEF Workers, Clients

\* The variables that are functions.
LEMMA Functions ==
    ASSUME SyncInv
    PROVE  /\ pc \in [Clients -> Tokens \cup ShellTokens]
           /\ request \in [Clients -> Requests \cup {None}]
           /\ replies \in [Clients -> Seq(Status)]
           /\ round \in [Workers -> 0 .. Rounds] /\ val \in [Workers -> Nat]
BY Zenon DEF SyncInv, TypeOK

\* A client whose conversation a step does not touch.
SameTalk(d) ==
    /\ pc'[d] = pc[d] /\ request'[d] = request[d] /\ replies'[d] = replies[d]
    /\ InService(d)' <=> InService(d)
    /\ InService(d) => svc'.req = svc.req
    /\ d \in Ring' <=> d \in Ring
    /\ d \in Woken' <=> d \in Woken

\* Such a client's conversation stands as it did.
LEMMA TalkSame == ASSUME SyncInv, NEW d \in Clients, SameTalk(d) PROVE Conversation(d)'
<1>1. Conversation(d)
  BY Zenon DEF SyncInv, Talk
<1> DEFINE a == InService(d)
           b == InService(d)'
<1>2. (Awaits(d)' <=> Awaits(d)) /\ (b <=> a) /\ (a => svc'.req = svc.req)
  BY Zenon DEF SameTalk, Awaits
<1>3. \A r : Asks(d, r)' <=> Asks(d, r)
  BY Zenon DEF SameTalk, Asks
<1> QED
  BY <1>1, <1>2, <1>3, Zenon DEF SameTalk, Conversation

\* A step that touches the conversation of one client.
LEMMA TalkFrame ==
    ASSUME SyncInv, NEW c \in Clients, \A d \in Clients : d # c => SameTalk(d), Conversation(c)'
    PROVE  Talk'
<1> SUFFICES ASSUME NEW d \in Clients PROVE Conversation(d)'
  BY Zenon DEF Talk
<1>1. CASE d = c
  BY <1>1, Zenon
<1>2. CASE d # c
  BY <1>2, TalkSame, Zenon
<1> QED
  BY <1>1, <1>2, Zenon

\* A client that does not wait has no conversation.
LEMMA Silent ==
    ASSUME SyncInv, NEW c \in Clients, ~Awaits(c)
    PROVE  /\ request[c] = None /\ ~InService(c) /\ c \notin Ring /\ c \notin Woken
           /\ replies[c] = << >>
BY Zenon DEF SyncInv, Talk, Conversation

\* A client that waits stands in one place, one that does not wait in none.
LEMMA OnePlace ==
    ASSUME SyncInv, NEW c \in Clients
    PROVE  /\ IF Awaits(c) THEN \E p \in Stations : Places(c) = {p} ELSE Places(c) = {}
           /\ Len(replies[c]) <= 1
           /\ \A i, j \in 1 .. wait_len : WaitList[i] = c /\ WaitList[j] = c => i = j
<1>1. InRing(c) <=> c \in Ring
  BY Zenon DEF InRing, Ring
<1>2. (svc.at = "wake" /\ svc.waiter = c) <=> c \in Woken
  BY Zenon DEF Woken
<1>3. Places(c) = {p \in Stations :
          \/ p = "sent" /\ request[c] # None
          \/ p = "served" /\ InService(c)
          \/ p = "ring" /\ c \in Ring
          \/ p = "woken" /\ c \in Woken
          \/ p = "answered" /\ replies[c] # << >>}
  BY <1>1, <1>2, Zenon DEF Places
<1>4. Conversation(c)
  BY Zenon DEF SyncInv, Talk
<1>5. ASSUME ~Awaits(c) PROVE Places(c) = {}
  BY <1>3, <1>4, <1>5, Zenon DEF Conversation
<1>6. ASSUME Awaits(c) PROVE \E p \in Stations : Places(c) = {p}
  <2>1. CASE request[c] # None
    <3>1. Places(c) = {"sent"}
      BY <1>3, <1>4, <2>1, Zenon DEF Conversation, Stations
    <3> QED
      BY <3>1, Zenon DEF Stations
  <2>2. CASE InService(c)
    <3>1. Places(c) = {"served"}
      BY <1>3, <1>4, <2>2, Zenon DEF Conversation, Stations
    <3> QED
      BY <3>1, Zenon DEF Stations
  <2>3. CASE c \in Ring
    <3>1. Places(c) = {"ring"}
      BY <1>3, <1>4, <2>3, Zenon DEF Conversation, Stations
    <3> QED
      BY <3>1, Zenon DEF Stations
  <2>4. CASE c \in Woken
    <3>1. Places(c) = {"woken"}
      BY <1>3, <1>4, <2>4, Zenon DEF Conversation, Stations
    <3> QED
      BY <3>1, Zenon DEF Stations
  <2>5. CASE replies[c] # << >>
    <3>1. Places(c) = {"answered"}
      BY <1>3, <1>4, <2>5, Zenon DEF Conversation, Stations
    <3> QED
      BY <3>1, Zenon DEF Stations
  <2> QED
    BY <1>4, <1>6, <2>1, <2>2, <2>3, <2>4, <2>5, Zenon DEF Conversation
<1>7. Len(replies[c]) <= 1
  BY <1>4, Zenon DEF Conversation
<1>8. \A i, j \in 1 .. wait_len : WaitList[i] = c /\ WaitList[j] = c => i = j
  BY Zenon DEF SyncInv, RingInv, RingDistinct
<1> QED
  BY <1>5, <1>6, <1>7, <1>8, Zenon

\* One answer is no more than one.
LEMMA Single == \A st : Len(<<st>>) <= 1 /\ <<st>> # << >>
OBVIOUS

\* The client that is served does not wait in the ring.
LEMMA ServedIsNotInRing ==
    ASSUME SyncInv, svc.at = "apply", svc.from \in Clients
    PROVE  svc.from \notin Ring /\ InService(svc.from) /\ Conversation(svc.from)
<1>1. InService(svc.from) /\ Conversation(svc.from)
  BY Zenon DEF SyncInv, Talk, InService
<1> QED
  BY <1>1, Zenon DEF Conversation

-----------------------------------------------------------------------------
(* The invariant: the steps of the service *)

\* The service takes a request that was sent.
LEMMA ReceiveStep == ASSUME SyncInv, NEW c \in Clients, Receive(c) PROVE SyncInv'
<1>1. /\ svc.at = "receive" /\ request[c] # None
      /\ svc' = [Idle EXCEPT !.at = "apply", !.from = c, !.req = request[c]]
      /\ request' = [request EXCEPT ![c] = None]
      /\ UNCHANGED <<replies, pc, round, val, counter, job, shellCap, ncmd>>
      /\ UNCHANGED <<used, is_mutex, count, waiters, wait_head, wait_tail, wait_len, granted>>
  BY Zenon DEF Receive, objectVars, workVars
<1>2. RingInv' /\ Ring' = Ring
  BY <1>1, RingSame, Zenon DEF SyncInv
<1>3. svc'.at = "apply" /\ svc'.from = c /\ svc'.req = request[c]
  BY <1>1, Zenon DEF Idle
<1>4. /\ request[c] \in Requests /\ request'[c] = None
      /\ request' \in [Clients -> Requests \cup {None}]
      /\ \A d \in Clients : d # c => request'[d] = request[d]
  BY <1>1, Functions, Zenon
<1>5. TypeOK'
  <2>1. svc' \in ServiceStates
    BY <1>1, <1>4, ZenonT(30) DEF ServiceStates, Idle, Status
  <2> QED
    BY <1>1, <1>4, <2>1, Zenon DEF SyncInv, TypeOK
<1>6. Woken = {} /\ Woken' = {}
  BY <1>1, <1>3, Zenon DEF Woken
<1>7. Talk'
  <2>1. Conversation(c) /\ ~InService(c)
    BY <1>1, Zenon DEF SyncInv, Talk, InService
  <2>2. Conversation(c)'
    BY <1>1, <1>2, <1>3, <1>4, <1>6, <2>1, Zenon DEF Conversation, Awaits, InService, Asks
  <2>3. ASSUME NEW d \in Clients, d # c PROVE SameTalk(d)
    BY <1>1, <1>2, <1>3, <1>4, <1>6, <2>3, Zenon DEF SameTalk, InService
  <2> QED
    BY <2>2, <2>3, TalkFrame, Zenon
<1>8. Serving'
  BY <1>3, <1>4, Zenon DEF Serving
<1>9. Phases'
  BY <1>1, <1>3, Zenon DEF SyncInv, Phases
<1>10. Holders' = Holders
  BY <1>1, <1>3, <1>4, Distinct DEF Holders
<1>11. OnePermit' /\ Counting'
  BY <1>1, <1>10, Zenon DEF SyncInv, OnePermit, Counting, Made
<1> QED
  BY <1>2, <1>5, <1>7, <1>8, <1>9, <1>11, Zenon DEF SyncInv

\* What the cases of Apply have in common.
Applied ==
    /\ svc.at = "apply" /\ svc.from \in Clients /\ svc.req \in Requests
    /\ Asks(svc.from, svc.req) /\ Awaits(svc.from)
    /\ UNCHANGED <<request, replies, pc, round, val, counter, job, shellCap, ncmd>>

\* Apply serves a client whose request fits the place where it waits.
LEMMA ApplyIsApplied == ASSUME SyncInv, Apply PROVE Applied
<1>1. svc.at = "apply" /\ svc.from \in Clients /\ svc.req \in Requests
  BY Zenon DEF Apply, SyncInv, Serving
<1>2. Conversation(svc.from) /\ InService(svc.from)
  BY <1>1, Zenon DEF SyncInv, Talk, InService
<1> QED
  BY <1>1, <1>2, Zenon DEF Apply, Conversation, Applied, workVars

\* An answer to the sender does not disturb its conversation.
LEMMA AnswerTalk ==
    ASSUME SyncInv, Applied, NEW st \in Status,
           svc' = [svc EXCEPT !.at = "answer", !.status = st], Ring' = Ring
    PROVE  /\ Talk' /\ Serving' /\ svc' \in ServiceStates
           /\ svc'.at = "answer" /\ svc'.from = svc.from
<1>1. svc \in ServiceStates
  BY Zenon DEF SyncInv, TypeOK
<1>2. /\ svc'.at = "answer" /\ svc'.from = svc.from /\ svc'.req = svc.req
      /\ svc' \in ServiceStates
  BY <1>1, ZenonT(30) DEF ServiceStates
<1>3. Woken = {} /\ Woken' = {}
  BY <1>2, Zenon DEF Woken, Applied
<1>4. ASSUME NEW d \in Clients PROVE SameTalk(d)
  BY <1>2, <1>3, Zenon DEF SameTalk, InService, Applied
<1>5. Talk'
  BY <1>4, TalkSame, Zenon DEF Talk
<1> QED
  BY <1>2, <1>5, Zenon DEF Serving, Applied

\* An object is created at the shell's request, when no worker runs or waits.
LEMMA CreateAlone ==
    ASSUME SyncInv, Applied, Create
    PROVE  /\ svc.from = Shell /\ pc[Shell] \in {"creating", "demo", "bench"} /\ job = "none"
           /\ \A w \in Workers : pc[w] = "none"
           /\ Ring = {}
<1>1. svc.from = Shell /\ pc[Shell] \in {"creating", "demo", "bench"} /\ job = "none"
  BY Distinct, Zenon DEF SyncInv, Applied, Create, Asks, Awaits, WaitTokens,
     Phases, Tokens, ShellTokens, Clients
<1>2. \A w \in Workers : pc[w] = "none"
  BY <1>1, Zenon DEF SyncInv, Phases
<1>3. ASSUME NEW c \in Ring PROVE FALSE
  <2>1. c \in Clients /\ Conversation(c)
    BY <1>3, Zenon DEF SyncInv, RingInv, Talk
  <2>2. pc[c] \in {"acquiring", "waiting"}
    BY <1>3, <2>1, Zenon DEF Conversation
  <2> QED
    BY <1>1, <1>2, <2>1, <2>2, Zenon DEF Clients
<1> QED
  BY <1>1, <1>2, <1>3, Zenon

\* It comes into being.
LEMMA CreateStep == ASSUME SyncInv, Applied, Create PROVE SyncInv'
<1>1. svc.from = Shell /\ pc[Shell] \in {"creating", "demo", "bench"} /\ job = "none"
  BY CreateAlone, Zenon
<1>2. \A w \in Workers : pc[w] = "none"
  BY CreateAlone, Zenon
<1>3. Ring = {}
  BY CreateAlone, Zenon
<1>4. RingInv' /\ Ring' = {}
  <2>1. CASE used
    BY <1>3, <2>1, RingSame, Zenon DEF SyncInv, Create, objectVars
  <2>2. CASE ~used
    BY <1>3, <2>2, RingReset, Zenon DEF SyncInv, Create, RingInv
  <2> QED
    BY <2>1, <2>2, Zenon
<1>5. PICK st \in Status : svc' = [svc EXCEPT !.at = "answer", !.status = st]
  BY ZenonT(30) DEF Create, AnswerWith, Status
<1>6. Talk' /\ Serving' /\ svc' \in ServiceStates /\ svc'.at = "answer" /\ svc'.from = svc.from
  BY <1>3, <1>4, <1>5, AnswerTalk, ZenonT(30)
<1>7. used' /\ (is_mutex' => count' = 1 \/ (is_mutex /\ count' = count))
  BY <1>1, Zenon DEF Create, objectVars, Applied, Asks
<1>8. TypeOK'
  <2>1. svc.req.mutex \in BOOLEAN /\ svc.req.n \in Nat
    BY SyncConstants DEF Applied, Create, Requests
  <2>2. is_mutex' \in BOOLEAN /\ count' \in Nat /\ granted' = granted /\ waiters' = waiters
    BY <2>1, ZenonT(30) DEF SyncInv, TypeOK, Create, objectVars
  <2> QED
    BY <1>4, <1>6, <1>7, <2>2, Zenon DEF SyncInv, TypeOK, Applied, RingInv
<1>9. Phases'
  BY <1>1, <1>2, <1>6, <1>7, Zenon DEF SyncInv, Phases, Applied
<1>10. Holders' = {}
  BY <1>2, Zenon DEF Holders, Applied
<1>11. OnePermit' /\ Counting'
  BY <1>1, <1>7, <1>10, ZenonT(30) DEF SyncInv, OnePermit, Counting, Applied
<1> QED
  BY <1>4, <1>6, <1>8, <1>9, <1>11, Zenon DEF SyncInv

\* Only the shell is refused: the workers have the capability, and the object
\* exists before they do.
LEMMA RefuseStep == ASSUME SyncInv, Applied, Refuse PROVE SyncInv'
<1>1. svc.from = Shell /\ pc[Shell] = "waiting" /\ job = "none"
  BY Distinct, Zenon DEF SyncInv, Applied, Refuse, HasCap, Asks, Awaits, WaitTokens,
     Phases, Tokens, ShellTokens, Clients
<1>2. \A w \in Workers : pc[w] = "none"
  BY <1>1, Zenon DEF SyncInv, Phases
<1>3. PICK st \in Status : svc' = [svc EXCEPT !.at = "answer", !.status = st]
  BY ZenonT(30) DEF Refuse, Refusal, AnswerWith, Status
<1>4. RingInv' /\ Ring' = Ring /\ UNCHANGED <<used, is_mutex, count, waiters, granted>>
  BY RingSame, ZenonT(30) DEF SyncInv, Refuse, objectVars
<1>5. Talk' /\ Serving' /\ svc' \in ServiceStates /\ svc'.at = "answer" /\ svc'.from = svc.from
  BY <1>3, <1>4, AnswerTalk, ZenonT(30)
<1>6. TypeOK'
  BY <1>4, <1>5, Zenon DEF SyncInv, TypeOK, Applied, RingInv
<1>7. Phases'
  BY <1>1, <1>4, Zenon DEF SyncInv, Phases, Applied
<1>8. Holders' = {}
  BY <1>2, Zenon DEF Holders, Applied
<1>9. OnePermit' /\ Counting'
  BY <1>1, <1>4, <1>8, Zenon DEF SyncInv, OnePermit, Counting, Applied
<1> QED
  BY <1>4, <1>5, <1>6, <1>7, <1>9, ZenonT(30) DEF SyncInv

\* acquire: the sender takes the permit or joins the ring; a worker finds room.
LEMMA AcquireStep == ASSUME SyncInv, RoomForWorkers, Applied, Acquire PROVE SyncInv'
<1>1. /\ used /\ used' = used /\ is_mutex' = is_mutex
      /\ svc.from \in Workers =>
            pc[svc.from] = "acquiring" /\ job # "none" /\ pc[Shell] = "polling"
      /\ svc.from \notin Workers =>
            svc.from = Shell /\ job = "none" /\ \A w \in Workers : pc[w] = "none"
  <2>1. used /\ used' = used /\ is_mutex' = is_mutex
    BY ZenonT(30) DEF Acquire, objectVars
  <2>2. ASSUME svc.from \in Workers
        PROVE  pc[svc.from] = "acquiring" /\ job # "none" /\ pc[Shell] = "polling"
    BY <2>2, ZenonT(30) DEF SyncInv, Applied, Acquire, Asks, Awaits, WaitTokens, Phases, Tokens
  <2>3. ASSUME svc.from \notin Workers
        PROVE  svc.from = Shell /\ job = "none" /\ \A w \in Workers : pc[w] = "none"
    BY <2>3, Zenon DEF SyncInv, Applied, Awaits, WaitTokens, Phases, ShellTokens, Clients
  <2> QED
    BY <2>1, <2>2, <2>3, Zenon
<1>2. Phases' /\ Counting'
  BY <1>1, Zenon DEF SyncInv, Phases, Counting, Made, Applied
<1>3. CASE PermitLeft /\ count' = count - 1 /\ granted' = svc.from /\ AnswerWith(0)
           /\ UNCHANGED <<waiters, wait_head, wait_tail, wait_len>>
  <2>1. RingInv' /\ Ring' = Ring
    BY <1>3, RingSame, Zenon DEF SyncInv
  <2>2. Talk' /\ Serving' /\ svc' \in ServiceStates /\ svc'.at = "answer" /\ svc'.from = svc.from
    BY <1>3, <2>1, AnswerTalk, Zenon DEF AnswerWith, Status
  <2>3. count \in Nat /\ count > 0 /\ count' \in Nat
    <3>1. count \in Nat
      BY ZenonT(30) DEF SyncInv, TypeOK
    <3> QED
      BY <1>3, <3>1 DEF PermitLeft
  <2>4. TypeOK'
    BY <1>1, <1>3, <2>2, <2>3, ZenonT(30) DEF SyncInv, TypeOK, Applied
  <2>5. Holders' \subseteq Holders \cup {svc.from}
    BY <2>2, ZenonT(30) DEF Holders, Applied
  <2>6. OnePermit'
    BY <1>1, <1>3, <2>3, <2>5 DEF SyncInv, OnePermit
  <2> QED
    BY <1>2, <2>1, <2>2, <2>4, <2>6, Zenon DEF SyncInv
<1>4. CASE HasRoom /\ Enqueue(svc.from) /\ PutOffReply /\ UNCHANGED <<count, granted>>
  <2>1. svc.from \notin Ring /\ InService(svc.from) /\ Conversation(svc.from)
    BY ServedIsNotInRing, Zenon DEF Applied
  <2>2. RingInv' /\ Ring' = Ring \cup {svc.from}
    BY <1>4, <2>1, RingEnqueue, Zenon DEF SyncInv, Applied
  <2>3. svc' = Idle /\ svc'.at = "receive"
    BY <1>4, ZenonT(30) DEF PutOffReply, Idle
  <2>4. TypeOK'
    <3>1. svc' \in ServiceStates
      BY <2>3, Zenon DEF ServiceStates, Idle, Status
    <3> QED
      BY <1>1, <1>4, <2>2, <3>1, Zenon DEF SyncInv, TypeOK, Applied, RingInv
  <2>5. Woken = {} /\ Woken' = {}
    BY <2>3, ZenonT(30) DEF Woken, Applied
  <2>6. pc[svc.from] \in {"acquiring", "waiting"}
    BY ZenonT(30) DEF Applied, Acquire, Asks, Awaits, WaitTokens
  <2>7. Talk'
    <3>1. PICK c \in Clients : c = svc.from
      BY Zenon DEF Applied
    <3>2. Conversation(c)'
      BY <2>1, <2>2, <2>3, <2>5, <2>6, <3>1, ZenonT(30) DEF Conversation, Awaits, InService, Applied
    <3>3. ASSUME NEW d \in Clients, d # c PROVE SameTalk(d)
      BY <2>2, <2>3, <2>5, <3>1, <3>3, Zenon DEF SameTalk, InService, Applied
    <3> QED
      BY <3>2, <3>3, TalkFrame, Zenon
  <2>8. Serving'
    BY <2>3, ZenonT(30) DEF Serving
  <2>9. Holders' \subseteq Holders
    BY <2>3, Zenon DEF Holders, Applied
  <2>10. OnePermit'
    BY <1>1, <1>4, <2>9, Zenon DEF SyncInv, OnePermit
  <2> QED
    BY <1>2, <2>2, <2>4, <2>7, <2>8, <2>10, ZenonT(30) DEF SyncInv
<1>5. CASE ~HasRoom /\ AnswerWith(4) /\ UNCHANGED objectVars
  <2>1. svc.from \notin Workers
    <3> SUFFICES ASSUME svc.from \in Workers PROVE HasRoom
      BY <1>5, Zenon
    <3>1. Ring \subseteq Workers \ {svc.from}
      <4>1. ASSUME NEW c \in Ring PROVE c \in Workers /\ c # svc.from
        <5>1. c \in Clients /\ Conversation(c)
          BY <4>1, Zenon DEF SyncInv, RingInv, Talk
        <5>2. pc[c] \in {"acquiring", "waiting"} /\ ~InService(c)
          BY <4>1, <5>1, Zenon DEF Conversation
        <5> QED
          BY <1>1, <5>1, <5>2, Zenon DEF Applied, InService, Clients
      <4> QED
        BY <4>1, Zenon
    <3> QED
      BY <3>1, Zenon DEF RoomForWorkers
  <2>2. RingInv' /\ Ring' = Ring /\ UNCHANGED <<count, waiters, granted>>
    BY <1>5, RingSame, Zenon DEF SyncInv, objectVars
  <2>3. Talk' /\ Serving' /\ svc' \in ServiceStates /\ svc'.at = "answer" /\ svc'.from = svc.from
    BY <1>5, <2>2, AnswerTalk, ZenonT(30) DEF AnswerWith, Status
  <2>4. TypeOK'
    BY <1>1, <2>2, <2>3, ZenonT(30) DEF SyncInv, TypeOK, Applied, RingInv
  <2>5. Holders' = {}
    BY <1>1, <2>1, Zenon DEF Holders, Applied
  <2>6. OnePermit'
    BY <1>1, <2>2, <2>5, Zenon DEF SyncInv, OnePermit
  <2> QED
    BY <1>2, <2>2, <2>3, <2>4, <2>6, Zenon DEF SyncInv
<1> QED
  BY <1>3, <1>4, <1>5, ZenonT(30) DEF Acquire

\* release: the permit goes to the oldest waiter or back to the object.
LEMMA ReleaseStep == ASSUME SyncInv, Applied, Release PROVE SyncInv'
<1>1. /\ used /\ used' = used /\ is_mutex' = is_mutex /\ svc.req.op = "release"
      /\ svc.from \in Workers => pc[svc.from] = "releasing" /\ svc.from \in Holders
      /\ svc.from \notin Workers => job = "none" /\ Holders = {}
  <2>1. used /\ used' = used /\ is_mutex' = is_mutex /\ svc.req.op = "release"
    BY ZenonT(30) DEF Release
  <2>2. ASSUME svc.from \in Workers PROVE pc[svc.from] = "releasing" /\ svc.from \in Holders
    BY <2>1, <2>2, Zenon DEF SyncInv, Applied, Asks, Awaits, WaitTokens, Phases, Tokens, Holders
  <2>3. ASSUME svc.from \notin Workers PROVE job = "none" /\ Holders = {}
    BY <2>3, Zenon DEF SyncInv, Applied, Awaits, WaitTokens, Phases, ShellTokens, Clients, Holders
  <2> QED
    BY <2>1, <2>2, <2>3, Zenon
<1>2. Phases' /\ Counting'
  BY <1>1, Zenon DEF SyncInv, Phases, Counting, Made, Applied, Release, AnswerWith
<1>3. CASE /\ Dequeue /\ granted' = waiters[wait_head] /\ UNCHANGED <<waiters, wait_tail>>
           /\ svc' = [svc EXCEPT !.at = "wake", !.waiter = waiters[wait_head]]
  <2>0. PICK c \in Clients :
           /\ c = waiters[wait_head] /\ RingInv' /\ c \in Ring /\ Ring' = Ring \ {c}
    BY <1>3, RingDequeue, Zenon DEF SyncInv, Dequeue, RingInv
  <2>1. RingInv' /\ c \in Ring /\ Ring' = Ring \ {c} /\ count' = count
    BY <1>3, <2>0, Zenon DEF Dequeue
  <2>2. svc'.at = "wake" /\ svc'.from = svc.from /\ svc'.req = svc.req /\ svc'.waiter = c
    BY <1>3, <2>0, Zenon DEF SyncInv, TypeOK, ServiceStates
  <2>3. svc' \in ServiceStates
    BY <1>3, <2>0, ZenonT(30) DEF SyncInv, TypeOK, ServiceStates
  <2>c. granted' = c
    BY <1>3, <2>0, ZenonT(30)
  <2>4. TypeOK'
    BY <1>1, <2>1, <2>3, <2>c, Zenon DEF SyncInv, TypeOK, Applied, RingInv
  <2>5. Woken = {} /\ Woken' = {c}
    BY <2>2, Zenon DEF Woken, Applied
  <2>6. Talk'
    <3>1. Conversation(c) /\ ~InService(c)
      BY <2>1, ZenonT(30) DEF SyncInv, Talk, Conversation
    <3>2. Conversation(c)'
      BY <2>1, <2>2, <2>5, <3>1, ZenonT(30) DEF Conversation, Awaits, InService, Asks, Applied
    <3>3. ASSUME NEW d \in Clients, d # c PROVE SameTalk(d)
      BY <2>1, <2>2, <2>5, <3>3, Zenon DEF SameTalk, InService, Applied
    <3> QED
      BY <2>1, <3>2, <3>3, TalkFrame, ZenonT(30)
  <2>7. Serving'
    BY <1>1, <2>1, <2>2, ZenonT(30) DEF Serving, Applied
  <2>8. svc.from \notin Holders'
    <3>1. Conversation(svc.from) /\ InService(svc.from)
      BY Zenon DEF SyncInv, Talk, Applied, InService
    <3>2. request[svc.from] = None /\ svc.from # c
      BY <2>1, <3>1, Zenon DEF Conversation
    <3> QED
      BY <1>1, <2>2, <3>2, ZenonT(30) DEF Holders, Applied
  <2>9. Holders' \subseteq (Holders \ {svc.from}) \cup {c}
    BY <2>2, <2>8, ZenonT(30) DEF Holders, Applied
  <2>10. c \in Workers => svc.from \in Workers
    <3> SUFFICES ASSUME c \in Workers, svc.from \notin Workers PROVE FALSE
      BY Zenon
    <3>1. pc[c] = "none"
      BY <1>1, Zenon DEF SyncInv, Phases
    <3>2. Conversation(c)
      BY <2>1, ZenonT(30) DEF SyncInv, Talk
    <3> QED
      BY <2>1, <3>1, <3>2, Zenon DEF Conversation
  <2>11. OnePermit'
    BY <1>1, <2>1, <2>9, <2>10, ZenonT(30) DEF SyncInv, OnePermit, Holders
  <2> QED
    BY <1>2, <2>1, <2>4, <2>6, <2>7, <2>11, Zenon DEF SyncInv
<1>4. CASE /\ count' = CountAfterRelease /\ AnswerWith(0)
           /\ UNCHANGED <<waiters, wait_head, wait_tail, wait_len, granted>>
  <2>1. RingInv' /\ Ring' = Ring
    BY <1>4, RingSame, Zenon DEF SyncInv
  <2>2. Talk' /\ Serving' /\ svc' \in ServiceStates /\ svc'.at = "answer" /\ svc'.from = svc.from
    BY <1>4, <2>1, AnswerTalk, Zenon DEF AnswerWith, Status
  <2>3. count' \in Nat /\ (is_mutex => count' = 1)
    <3>1. count \in Nat
      BY ZenonT(30) DEF SyncInv, TypeOK
    <3> QED
      BY <1>4, <3>1 DEF CountAfterRelease
  <2>4. TypeOK'
    BY <1>1, <1>4, <2>2, <2>3, Zenon DEF SyncInv, TypeOK, Applied
  <2>5. svc.from \notin Holders'
    <3>1. Conversation(svc.from) /\ InService(svc.from)
      BY ZenonT(30) DEF SyncInv, Talk, Applied, InService
    <3>2. request[svc.from] = None
      BY <3>1, ZenonT(30) DEF Conversation
    <3> QED
      BY <1>1, <2>2, <3>2, ZenonT(30) DEF Holders, Applied
  <2>6. Holders' \subseteq Holders \ {svc.from}
    BY <2>2, <2>5, Zenon DEF Holders, Applied
  <2>7. OnePermit'
    BY <1>1, <2>3, <2>6, Zenon DEF SyncInv, OnePermit
  <2> QED
    BY <1>2, <2>1, <2>2, <2>4, <2>7, Zenon DEF SyncInv
<1> QED
  BY <1>3, <1>4, ZenonT(30) DEF Release

\* The deferred reply reaches the task that waited.
LEMMA WakeStep == ASSUME SyncInv, WakeWaiter PROVE SyncInv'
<1>0. PICK c \in Clients : c = svc.waiter
  BY Zenon DEF SyncInv, Serving, WakeWaiter
<1>1. /\ svc.at = "wake" /\ Woken = {c} /\ svc.req.op = "release"
      /\ svc.from \in Clients
      /\ replies' = [replies EXCEPT ![c] = Append(@, 0)]
      /\ svc' = [svc EXCEPT !.at = "answer", !.status = 0]
      /\ UNCHANGED <<request, pc, round, val, counter, job, shellCap, ncmd>>
      /\ UNCHANGED <<used, is_mutex, count, waiters, wait_head, wait_tail, wait_len, granted>>
  BY <1>0, Zenon DEF WakeWaiter, objectVars, workVars, SyncInv, Serving, Woken
<1>2. RingInv' /\ Ring' = Ring
  BY <1>1, RingSame, Zenon DEF SyncInv
<1>3. /\ svc'.at = "answer" /\ svc'.from = svc.from /\ svc'.req = svc.req /\ Woken' = {}
      /\ svc' \in ServiceStates
  <2>1. svc \in ServiceStates
    BY Zenon DEF SyncInv, TypeOK
  <2>2. /\ svc'.at = "answer" /\ svc'.from = svc.from /\ svc'.req = svc.req
        /\ svc' \in ServiceStates
    BY <1>1, <2>1, ZenonT(30) DEF ServiceStates, Status
  <2> QED
    BY <2>2, Zenon DEF Woken
<1>4. Conversation(c) /\ replies[c] = << >> /\ ~InService(c) /\ c # svc.from
  BY <1>1, Zenon DEF SyncInv, Talk, Conversation, InService
<1>5. /\ replies'[c] = <<0>> /\ \A d \in Clients : d # c => replies'[d] = replies[d]
      /\ replies' \in [Clients -> Seq(Status)]
  <2>1. replies \in [Clients -> Seq(Status)] /\ 0 \in Status
    BY Functions, Zenon DEF Status
  <2> QED
    BY <1>1, <1>4, <2>1
<1>6. TypeOK'
  BY <1>1, <1>3, <1>5, Zenon DEF SyncInv, TypeOK
<1>7. Talk'
  <2>1. Conversation(c)'
    BY <1>1, <1>2, <1>3, <1>4, <1>5 DEF Conversation, Awaits, InService, Asks
  <2>2. ASSUME NEW d \in Clients, d # c PROVE SameTalk(d)
    BY <1>1, <1>2, <1>3, <1>5, <2>2, Zenon DEF SameTalk, InService
  <2> QED
    BY <1>1, <2>1, <2>2, TalkFrame, Zenon
<1>8. Serving'
  BY <1>1, <1>3, Zenon DEF Serving, SyncInv
<1>9. Phases'
  <2>1. pc[Shell] \in {"demo", "bench"} => svc.from # Shell /\ c # Shell
    <3> SUFFICES ASSUME pc[Shell] \in {"demo", "bench"} PROVE svc.from # Shell /\ c # Shell
      BY Zenon
    <3>1. Conversation(Shell)
      BY Distinct, Zenon DEF SyncInv, Talk
    <3>2. Shell \notin Woken
      BY <3>1, Zenon DEF Conversation
    <3>3. ~InService(Shell)
      BY <1>1, <3>1, Zenon DEF Conversation, Asks
    <3> QED
      BY <1>1, <3>2, <3>3, Zenon DEF InService
  <2> QED
    BY <1>1, <1>3, <1>5, <2>1, Distinct, Zenon DEF SyncInv, Phases
<1>10. Holders' \subseteq Holders
  <2>1. pc[svc.from] # "acquiring"
    <3>1. Conversation(svc.from) /\ InService(svc.from)
      BY <1>1, Zenon DEF SyncInv, Talk, InService
    <3> QED
      BY <1>1, <3>1, Zenon DEF Conversation, Asks
  <2> QED
    BY <1>0, <1>1, <1>3, <1>5, <2>1, Distinct, Zenon DEF Holders
<1>11. OnePermit' /\ Counting'
  BY <1>1, <1>10, Zenon DEF SyncInv, OnePermit, Counting, Made
<1> QED
  BY <1>2, <1>6, <1>7, <1>8, <1>9, <1>11, Zenon DEF SyncInv

\* The reply reaches the sender.
LEMMA AnswerStep == ASSUME SyncInv, Answer PROVE SyncInv'
<1>0. PICK c \in Clients : c = svc.from
  BY Zenon DEF SyncInv, Serving, Answer
<1>1. /\ svc.at = "answer" /\ Woken = {}
      /\ replies' = [replies EXCEPT ![c] = Append(@, svc.status)] /\ svc' = Idle
      /\ UNCHANGED <<request, pc, round, val, counter, job, shellCap, ncmd>>
      /\ UNCHANGED <<used, is_mutex, count, waiters, wait_head, wait_tail, wait_len, granted>>
  BY <1>0, Zenon DEF Answer, objectVars, workVars, Woken
<1>2. RingInv' /\ Ring' = Ring
  BY <1>1, RingSame, Zenon DEF SyncInv
<1>3. svc'.at = "receive" /\ Woken' = {} /\ svc' \in ServiceStates
  BY <1>1, ZenonT(30) DEF Idle, Woken, ServiceStates, Status
<1>4. Conversation(c) /\ replies[c] = << >> /\ InService(c)
  BY <1>0, <1>1, Zenon DEF SyncInv, Talk, Conversation, InService
<1>5. /\ replies'[c] = <<svc.status>> /\ \A d \in Clients : d # c => replies'[d] = replies[d]
      /\ replies' \in [Clients -> Seq(Status)]
  <2>1. replies \in [Clients -> Seq(Status)] /\ svc.status \in Status
    BY Functions, Zenon DEF SyncInv, TypeOK, ServiceStates
  <2> QED
    BY <1>1, <1>4, <2>1
<1>6. TypeOK'
  BY <1>1, <1>3, <1>5, Zenon DEF SyncInv, TypeOK
<1>7. Talk'
  <2>1. Len(replies'[c]) <= 1 /\ replies'[c] # << >>
    BY <1>5, Single, ZenonT(30)
  <2>2. Awaits(c) /\ request[c] = None /\ c \notin Ring
    BY <1>4, ZenonT(30) DEF Conversation
  <2>3. Conversation(c)'
    <3>1. Awaits(c)' /\ request'[c] = None
      BY <1>1, <2>2, ZenonT(30) DEF Awaits
    <3>2. c \notin Ring' /\ c \notin Woken' /\ ~InService(c)'
      BY <1>2, <1>3, <2>2, ZenonT(30) DEF InService
    <3> QED
      BY <2>1, <3>1, <3>2, ZenonT(30) DEF Conversation
  <2>4. ASSUME NEW d \in Clients, d # c PROVE SameTalk(d)
    BY <1>0, <1>1, <1>2, <1>3, <1>5, <2>4, ZenonT(30) DEF SameTalk, InService
  <2> QED
    BY <1>1, <2>3, <2>4, TalkFrame, ZenonT(30)
<1>8. Serving'
  BY <1>3, Zenon DEF Serving
<1>9. Phases'
  BY <1>0, <1>1, <1>3, <1>5, Distinct, ZenonT(30) DEF SyncInv, Phases
<1>10. Holders' \subseteq Holders
  BY <1>0, <1>1, <1>3, <1>5, Distinct, ZenonT(30) DEF Holders
<1>11. OnePermit' /\ Counting'
  BY <1>1, <1>10, Zenon DEF SyncInv, OnePermit, Counting, Made
<1> QED
  BY <1>2, <1>6, <1>7, <1>8, <1>9, <1>11, Zenon DEF SyncInv

-----------------------------------------------------------------------------
(* The invariant: the steps of the workers *)

\* A step of a client leaves the object, the service and the others alone.
ByClient ==
    /\ UNCHANGED <<used, is_mutex, count, waiters, wait_head, wait_tail, wait_len, granted>>
    /\ svc' = svc

StepOf(c) ==
    /\ ByClient
    /\ \A d \in Clients : d # c =>
          pc'[d] = pc[d] /\ request'[d] = request[d] /\ replies'[d] = replies[d]

\* So the ring, the wake-up and the service stand as they did.
LEMMA ClientSide ==
    ASSUME SyncInv, ByClient
    PROVE  RingInv' /\ Ring' = Ring /\ Woken' = Woken /\ Serving'
<1>1. RingInv' /\ Ring' = Ring
  BY RingSame, Zenon DEF ByClient, SyncInv
<1> QED
  BY <1>1, Zenon DEF ByClient, SyncInv, Woken, Serving

\* And so do the conversations of the others.
LEMMA ClientTalk ==
    ASSUME SyncInv, NEW c \in Clients, StepOf(c), Conversation(c)'
    PROVE  Talk'
<1>1. Ring' = Ring /\ Woken' = Woken
  BY ClientSide, Zenon DEF StepOf
<1>2. ASSUME NEW d \in Clients, d # c PROVE SameTalk(d)
  BY <1>1, <1>2, SMTT(30) DEF SameTalk, StepOf, ByClient, InService
<1> QED
  BY <1>2, TalkFrame, Zenon

\* A client that did not wait has sent a request.
LEMMA ClientSends ==
    ASSUME SyncInv, NEW c \in Clients, StepOf(c), ~Awaits(c), replies' = replies,
           pc'[c] \in WaitTokens, request'[c] # None, Asks(c, request[c])'
    PROVE  Conversation(c)'
<1>1. /\ request[c] = None /\ ~InService(c) /\ c \notin Ring /\ c \notin Woken
      /\ replies[c] = << >>
  BY Silent, Zenon
<1>2. /\ ~InService(c)' /\ c \notin Ring' /\ c \notin Woken' /\ replies'[c] = << >>
      /\ Len(replies'[c]) = 0
  BY <1>1, ClientSide, SMTT(30) DEF StepOf, ByClient, InService
<1> QED
  BY <1>2 DEF Conversation, Awaits

\* A client that is answered, or did not wait, has no conversation.
LEMMA ClientSilent ==
    ASSUME SyncInv, NEW c \in Clients, StepOf(c), ~Awaits(c) \/ replies[c] # << >>,
           pc'[c] \notin WaitTokens, request' = request, replies'[c] = << >>
    PROVE  Conversation(c)'
<1>1. request[c] = None /\ ~InService(c) /\ c \notin Ring /\ c \notin Woken
  BY Zenon DEF SyncInv, Talk, Conversation
<1>2. /\ ~InService(c)' /\ c \notin Ring' /\ c \notin Woken' /\ request'[c] = None
      /\ Len(replies'[c]) = 0
  BY <1>1, ClientSide, Zenon DEF StepOf, ByClient, InService
<1> QED
  BY <1>2, SMTT(30) DEF Conversation, Awaits

\* The parts of the invariant make up the whole.
LEMMA Together ==
    ASSUME TypeOK', RingInv', Talk', Serving', Phases', OnePermit', Counting'
    PROVE  SyncInv'
BY Zenon DEF SyncInv

\* What a step of a client leaves to be shown of the types.
LEMMA ClientTypes ==
    ASSUME SyncInv, ByClient,
           pc' \in [Clients -> Tokens \cup ShellTokens],
           request' \in [Clients -> Requests \cup {None}], replies' \in [Clients -> Seq(Status)],
           round' \in [Workers -> 0 .. Rounds], val' \in [Workers -> Nat], counter' \in Nat,
           job' \in {"none", "guarded", "unguarded", "bench"},
           shellCap' \in BOOLEAN, ncmd' \in 0 .. MaxCommands
    PROVE  TypeOK'
BY Zenon DEF SyncInv, TypeOK, ByClient

\* What a step of a worker leaves to be shown.
LEMMA WorkerStep ==
    ASSUME SyncInv, NEW w \in Workers, StepOf(w), UNCHANGED <<job, shellCap, ncmd>>,
           pc[w] # "none", pc' \in [Clients -> Tokens \cup ShellTokens],
           request' \in [Clients -> Requests \cup {None}], replies' \in [Clients -> Seq(Status)],
           round' \in [Workers -> 0 .. Rounds], val' \in [Workers -> Nat], counter' \in Nat,
           \A v \in Workers : v # w => round'[v] = round[v],
           Conversation(w)',
           pc'[w] \in Tokens, pc'[w] \notin {"terminated", "none"} => round'[w] < Rounds,
           job = "unguarded" => pc'[w] \in {"none", "load", "store", "terminated"},
           job = "bench" => pc'[w] \notin {"load", "store"},
           w \in Holders' => w \in Holders,
           Counting'
    PROVE  SyncInv'
<1>1. ByClient /\ w \in Clients /\ w # Shell
  BY Distinct, SMTT(30) DEF StepOf
<1>2. RingInv' /\ Serving'
  BY <1>1, ClientSide, SMTT(30)
<1>3. TypeOK'
  <2>1. /\ job' \in {"none", "guarded", "unguarded", "bench"} /\ shellCap' \in BOOLEAN
        /\ ncmd' \in 0 .. MaxCommands
    BY Zenon DEF SyncInv, TypeOK
  <2> QED
    BY <1>1, <2>1, ClientTypes, Zenon
<1>4. Talk'
  BY <1>1, ClientTalk, Zenon
<1>5. Phases'
  <2>1. job # "none" /\ pc[Shell] = "polling" /\ pc'[Shell] = "polling"
    BY <1>1, Distinct, SMTT(30) DEF SyncInv, Phases, StepOf
  <2>2. \A v \in Workers : v # w => pc'[v] = pc[v] /\ round'[v] = round[v]
    BY Distinct, SMTT(30) DEF StepOf
  <2> QED
    BY <1>1, <2>1, <2>2, ZenonT(30) DEF SyncInv, Phases, ByClient, ShellTokens
<1>6. Holders' \subseteq Holders
  <2> SUFFICES ASSUME NEW v \in Holders' PROVE v \in Holders
    BY Zenon
  <2>1. CASE v = w
    BY <2>1, SMTT(30)
  <2>2. CASE v # w
    <3>1. /\ v \in Workers /\ pc'[v] = pc[v] /\ request'[v] = request[v]
          /\ replies'[v] = replies[v]
      BY <2>2, Distinct, ZenonT(30) DEF Holders, StepOf
    <3> QED
      BY <1>1, <3>1, ZenonT(30) DEF Holders, ByClient
  <2> QED
    BY <2>1, <2>2, SMTT(30)
<1>7. OnePermit'
  BY <1>1, <1>6, ZenonT(30) DEF SyncInv, OnePermit, ByClient
<1> QED
  BY <1>2, <1>3, <1>4, <1>5, <1>7, SMTT(30) DEF SyncInv

\* A worker that makes no increment leaves the count as it is.
LEMMA SameCount ==
    ASSUME SyncInv, NEW w \in Workers, UNCHANGED <<is_mutex, job, counter>>,
           \A v \in Workers : v # w =>
              pc'[v] = pc[v] /\ round'[v] = round[v] /\ val'[v] = val[v],
           pc[w] # "none", pc'[w] # "none",
           job = "guarded" => Made(w)' = Made(w), pc'[w] = "store" => val'[w] = counter,
           pc'[w] = "terminated" => round'[w] = Rounds
    PROVE  Counting'
<1> SUFFICES ASSUME is_mutex, job = "guarded" PROVE Counting'
  BY Zenon DEF Counting
<1>1. \A v \in Workers : Made(v)' = Made(v)
  BY Zenon DEF Made
<1>2. Made(1)' = Made(1) /\ Made(2)' = Made(2)
  BY <1>1, SyncConstants DEF Workers
<1>3. Counting
  BY Zenon DEF SyncInv
<1>4. ASSUME NEW v \in Workers
      PROVE  /\ pc'[v] = "store" => val'[v] = counter
             /\ pc'[v] = "none" <=> v \notin 1 .. 2
             /\ pc'[v] = "terminated" => round'[v] = Rounds
  <2>1. CASE v = w
    BY <1>3, <2>1, Zenon DEF Counting
  <2>2. CASE v # w
    BY <1>3, <2>2, Zenon DEF Counting
  <2> QED
    BY <2>1, <2>2, Zenon
<1> QED
  BY <1>2, <1>3, <1>4, SMTT(30) DEF Counting

\* The requests of the workers.
LEMMA WorkerRequests ==
    ASSUME NEW op \in {"acquire", "release"}
    PROVE  [op |-> op] \in Requests /\ [op |-> op] # None
BY NoRequest DEF Requests

\* A worker asks for the permit, or gives it back.
LEMMA WorkerSends ==
    ASSUME SyncInv, NEW w \in Workers, AcquireSend(w) \/ ReleaseSend(w)
    PROVE  SyncInv'
<1>1. PICK op \in {"acquire", "release"} :
         /\ pc[w] = op /\ request' = [request EXCEPT ![w] = [op |-> op]]
         /\ pc' = [pc EXCEPT ![w] = IF op = "acquire" THEN "acquiring" ELSE "releasing"]
  BY Zenon DEF AcquireSend, ReleaseSend, Send
<1>2. ByClient /\ UNCHANGED <<replies, round, val, counter, job, shellCap, ncmd>> /\ w \in Clients
  BY Distinct, Zenon DEF AcquireSend, ReleaseSend, objectVars, workVars, ByClient
<1>3. [op |-> op] \in Requests /\ [op |-> op] # None
  BY WorkerRequests, Zenon
<1>4. /\ pc' \in [Clients -> Tokens \cup ShellTokens]
      /\ request' \in [Clients -> Requests \cup {None}] /\ request'[w] = [op |-> op]
      /\ pc'[w] = IF op = "acquire" THEN "acquiring" ELSE "releasing"
      /\ \A d \in Clients : d # w => pc'[d] = pc[d] /\ request'[d] = request[d]
  BY <1>1, <1>2, <1>3, Functions, Zenon DEF Tokens
<1>5. StepOf(w) /\ ~Awaits(w)
  BY <1>1, <1>2, <1>4, SMTT(30) DEF StepOf, Awaits, WaitTokens
<1>6. Conversation(w)'
  <2>1. Asks(w, request[w])' /\ pc'[w] \in WaitTokens
    BY <1>4 DEF Asks, WaitTokens
  <2> QED
    BY <1>2, <1>3, <1>4, <1>5, <2>1, ClientSends, SMTT(30)
<1>7. round[w] < Rounds /\ job \notin {"none", "unguarded"}
  BY <1>1, SMTT(30) DEF SyncInv, Phases
<1>8. w \in Holders' => w \in Holders
  <2>1. replies[w] = << >> /\ ~InService(w) /\ w \notin Woken
    BY <1>2, <1>5, Silent, ZenonT(30)
  <2> QED
    BY <1>1, <1>2, <1>4, <1>7, <2>1, Zenon DEF Holders, InService, Woken, ByClient
<1>9. Counting'
  <2>1. Made(w)' = Made(w)
    BY <1>1, <1>2, <1>4, SMTT(30) DEF Made
  <2> QED
    BY <1>1, <1>2, <1>4, <2>1, SameCount, Distinct, ZenonT(30) DEF ByClient
<1>10. /\ pc'[w] \in Tokens \ {"none", "load", "store", "terminated"} /\ counter' \in Nat
       /\ \A v \in Workers : round'[v] = round[v]
  BY <1>2, <1>4, Zenon DEF Tokens, SyncInv, TypeOK
<1> QED
  BY <1>1, <1>2, <1>4, <1>5, <1>6, <1>7, <1>8, <1>9, <1>10, Functions, WorkerStep, ZenonT(30)

\* Taking the reply of a client leaves it none.
LEMMA ReplyTaken ==
    ASSUME SyncInv, NEW c \in Clients, TakeReply(c)
    PROVE  /\ replies[c] # << >> /\ replies'[c] = << >>
           /\ \A d \in Clients : d # c => replies'[d] = replies[d]
           /\ replies' \in [Clients -> Seq(Status)]
<1>1. /\ replies[c] \in Seq(Status) /\ Len(replies[c]) <= 1 /\ replies[c] # << >>
      /\ replies' = [replies EXCEPT ![c] = Tail(@)]
  BY Functions, Zenon DEF SyncInv, Talk, Conversation, TakeReply
<1>2. Len(replies[c]) = 1
  <2> DEFINE n == Len(replies[c])
  <2>1. n \in Nat \ {0} /\ n <= 1
    BY <1>1
  <2> HIDE DEF n
  <2>2. n = 1
    BY <2>1
  <2> QED
    BY <2>2, Zenon DEF n
<1>3. Tail(replies[c]) \in Seq(Status) /\ Len(Tail(replies[c])) = 0
  <2>1. Tail(replies[c]) \in Seq(Status) /\ Len(Tail(replies[c])) = Len(replies[c]) - 1
    BY <1>1
  <2> QED
    BY <1>2, <2>1
<1>4. Tail(replies[c]) = << >>
  <2> DEFINE rest == Tail(replies[c])
  <2>1. rest \in Seq(Status) /\ Len(rest) = 0
    BY <1>3, Zenon
  <2> HIDE DEF rest
  <2>2. rest = << >>
    BY <2>1
  <2> QED
    BY <2>2, Zenon DEF rest
<1> QED
  BY <1>1, <1>3, <1>4, Functions, SMTT(30)

\* A worker has the permit.
LEMMA AcquireReturnsStep == ASSUME SyncInv, NEW w \in Workers, AcquireReturns(w) PROVE SyncInv'
<1>1. /\ pc[w] = "acquiring" /\ w \in Clients /\ TakeReply(w) /\ ByClient
      /\ pc' = [pc EXCEPT ![w] = IF job = "bench" THEN "release" ELSE "load"]
      /\ UNCHANGED <<request, round, val, counter, job, shellCap, ncmd>>
  BY Distinct, SMTT(30) DEF AcquireReturns, objectVars, workVars, ByClient
<1>2. /\ replies[w] # << >> /\ replies'[w] = << >>
      /\ \A d \in Clients : d # w => replies'[d] = replies[d]
      /\ replies' \in [Clients -> Seq(Status)]
  BY <1>1, ReplyTaken, Zenon
<1>3. job \in {"guarded", "bench"} /\ round[w] < Rounds
  BY <1>1, ZenonT(30) DEF SyncInv, TypeOK, Phases
<1>4. /\ pc' \in [Clients -> Tokens \cup ShellTokens]
      /\ pc'[w] = IF job = "bench" THEN "release" ELSE "load"
      /\ \A d \in Clients : d # w => pc'[d] = pc[d]
  BY <1>1, Functions, SMTT(30) DEF Tokens
<1>5. StepOf(w)
  BY <1>1, <1>2, <1>4, SMTT(30) DEF StepOf
<1>6. Conversation(w)'
  BY <1>1, <1>2, <1>4, <1>5, ClientSilent, SMTT(30) DEF WaitTokens
<1>7. w \in Holders
  BY <1>1, <1>2, SMTT(30) DEF Holders
<1>8. Counting'
  <2>1. job = "guarded" => Made(w)' = Made(w)
    BY <1>1, <1>4, SMTT(30) DEF Made
  <2> QED
    BY <1>1, <1>4, <2>1, SameCount, Distinct, Zenon DEF ByClient
<1>9. /\ pc'[w] \in Tokens \ {"terminated", "none"} /\ counter' \in Nat
      /\ \A v \in Workers : round'[v] = round[v]
  BY <1>1, <1>4, Zenon DEF Tokens, SyncInv, TypeOK
<1> QED
  BY <1>1, <1>2, <1>3, <1>4, <1>5, <1>6, <1>7, <1>8, <1>9, Functions, WorkerStep, ZenonT(30)

\* A worker reads the counter.
LEMMA LoadStep == ASSUME SyncInv, NEW w \in Workers, Load(w) PROVE SyncInv'
<1>1. /\ pc[w] = "load" /\ pc' = [pc EXCEPT ![w] = "store"] /\ w \in Clients
      /\ val' = [val EXCEPT ![w] = counter] /\ ByClient
      /\ UNCHANGED <<request, replies, round, counter, job, shellCap, ncmd>>
  BY Distinct, SMTT(30) DEF Load, objectVars, ByClient
<1>2. counter \in Nat /\ round[w] < Rounds /\ job # "bench"
  BY <1>1, Zenon DEF SyncInv, TypeOK, Phases
<1>3. /\ pc' \in [Clients -> Tokens \cup ShellTokens] /\ pc'[w] = "store"
      /\ \A d \in Clients : d # w => pc'[d] = pc[d]
      /\ val' \in [Workers -> Nat] /\ val'[w] = counter
      /\ \A v \in Workers : v # w => val'[v] = val[v]
  BY <1>1, <1>2, Functions, SMTT(30) DEF Tokens
<1>4. StepOf(w) /\ ~Awaits(w)
  BY <1>1, <1>3, SMTT(30) DEF StepOf, Awaits, WaitTokens
<1>5. Conversation(w)'
  <2>1. replies'[w] = << >>
    BY <1>1, <1>4, Silent, ZenonT(30)
  <2> QED
    BY <1>1, <1>3, <1>4, <2>1, ClientSilent, ZenonT(30) DEF WaitTokens
<1>6. w \in Holders' => w \in Holders
  BY <1>1, <1>3, SMTT(30) DEF Holders
<1>7. Counting'
  <2>1. Made(w)' = Made(w)
    BY <1>1, <1>3, Zenon DEF Made
  <2> QED
    BY <1>1, <1>3, <2>1, SameCount, Distinct, Zenon DEF ByClient
<1>8. pc'[w] \in Tokens /\ \A v \in Workers : round'[v] = round[v]
  BY <1>1, <1>3, Zenon DEF Tokens
<1> QED
  BY <1>1, <1>2, <1>3, <1>4, <1>5, <1>6, <1>7, <1>8, Functions, WorkerStep, ZenonT(30)

\* A worker writes the counter: nobody else has read it since, if guarded.
LEMMA StoreStep == ASSUME SyncInv, NEW w \in Workers, Store(w) PROVE SyncInv'
<1>1. /\ pc[w] = "store" /\ w \in Clients /\ counter' = val[w] + 1 /\ ByClient
      /\ UNCHANGED <<request, replies, val, job, shellCap, ncmd>>
  BY Distinct, SMTT(30) DEF Store, objectVars, ByClient
<1>2. job \in {"guarded", "unguarded"} /\ round[w] < Rounds
  BY <1>1, SMTT(30) DEF SyncInv, TypeOK, Phases
<1>3. /\ pc' \in [Clients -> Tokens \cup ShellTokens]
      /\ pc'[w] \in {"load", "terminated", "release"}
      /\ \A d \in Clients : d # w => pc'[d] = pc[d]
      /\ round' \in [Workers -> 0 .. Rounds] /\ \A v \in Workers : v # w => round'[v] = round[v]
      /\ pc'[w] # "terminated" => round'[w] < Rounds
      /\ job = "unguarded" => pc'[w] # "release"
      /\ job # "unguarded" => pc'[w] = "release" /\ round' = round
  <2>0. /\ pc \in [Clients -> Tokens \cup ShellTokens] /\ round \in [Workers -> 0 .. Rounds]
        /\ {"load", "terminated", "release"} \subseteq Tokens /\ Rounds \in Nat
    BY SyncConstants, Functions, SMTT(30) DEF Tokens
  <2>1. CASE job = "unguarded"
    <3>1. /\ round' = [round EXCEPT ![w] = @ + 1]
          /\ pc' = [pc EXCEPT ![w] = IF round[w] + 1 < Rounds THEN "load" ELSE "terminated"]
      BY <2>1, Zenon DEF Store, NextRound
    <3>2. round' \in [Workers -> 0 .. Rounds] /\ round'[w] = round[w] + 1
      BY <1>2, <2>0, <3>1, SMTT(30)
    <3> QED
      BY <1>1, <2>0, <2>1, <3>1, <3>2, SMTT(30)
  <2>2. CASE job # "unguarded"
    <3>1. pc' = [pc EXCEPT ![w] = "release"] /\ round' = round
      BY <2>2, SMTT(30) DEF Store
    <3> QED
      BY <1>1, <1>2, <2>0, <2>2, <3>1, Zenon
  <2> QED
    BY <2>1, <2>2, Zenon
<1>4. StepOf(w) /\ ~Awaits(w)
  BY <1>1, <1>3, SMTT(30) DEF StepOf, Awaits, WaitTokens
<1>5. Conversation(w)'
  <2>1. replies'[w] = << >>
    BY <1>1, <1>4, Silent, SMTT(30)
  <2> QED
    BY <1>1, <1>3, <1>4, <2>1, ClientSilent, SMTT(30) DEF WaitTokens
<1>6. w \in Holders' => w \in Holders
  BY <1>1, <1>3, Zenon DEF Holders
<1>7. Counting'
  <2> SUFFICES ASSUME is_mutex, job = "guarded" PROVE Counting'
    BY <1>1, Zenon DEF Counting, ByClient
  <2>1. /\ pc'[w] = "release" /\ round' = round /\ val' = val
        /\ \A v \in Workers : v # w => pc'[v] = pc[v]
    BY <1>1, <1>3, Distinct, ZenonT(30)
  <2>2. \A v \in Workers : pc[v] = "store" => v = w
    BY <1>1, SMTT(30) DEF SyncInv, OnePermit, Holders
  <2>3. Counting /\ w \in 1 .. 2 /\ 1 \in Workers /\ 2 \in Workers /\ counter' = counter + 1
    BY <1>1, SyncConstants, SMTT(30) DEF SyncInv, Counting, Workers
  <2>4. \A v \in Workers : Made(v) \in Nat /\ round[v] \in Nat
    BY Functions, SyncConstants, SMTT(30) DEF Made
  <2>5. Made(w)' = Made(w) + 1
    BY <1>1, <2>1, <2>4, SMTT(30) DEF Made
  <2>6. \A v \in Workers : v # w => Made(v)' = Made(v)
    BY <2>1, Zenon DEF Made
  <2>7. counter' = Made(1)' + Made(2)'
    <3>1. counter = Made(1) + Made(2)
      BY <2>3, Zenon DEF Counting
    <3>2. Made(1) \in Nat /\ Made(2) \in Nat
      BY <2>3, <2>4, Zenon
    <3>3. CASE w = 1
      <4>1. Made(1)' = Made(1) + 1 /\ Made(2)' = Made(2)
        BY <2>3, <2>5, <2>6, <3>3
      <4> QED
        BY <2>3, <3>1, <3>2, <4>1
    <3>4. CASE w = 2
      <4>1. Made(1)' = Made(1) /\ Made(2)' = Made(2) + 1
        BY <2>3, <2>5, <2>6, <3>4, SMTT(30)
      <4> QED
        BY <2>3, <3>1, <3>2, <4>1
    <3> QED
      BY <2>3, <3>3, <3>4, SMTT(30)
  <2>8. ASSUME NEW v \in Workers
        PROVE  /\ pc'[v] # "store"
               /\ pc'[v] = "none" <=> v \notin 1 .. 2
               /\ pc'[v] = "terminated" => round'[v] = Rounds
    BY <1>1, <2>1, <2>2, <2>3, SMTT(30) DEF Counting
  <2> QED
    BY <2>7, <2>8, Zenon DEF Counting
<1>8. pc'[w] \in Tokens \ {"none"} /\ counter' \in Nat
  BY <1>1, <1>3, Functions DEF Tokens
<1> QED
  BY <1>1, <1>2, <1>3, <1>4, <1>5, <1>6, <1>7, <1>8, Functions, WorkerStep, ZenonT(30)

\* A worker is done with a round.
LEMMA ReleaseReturnsStep == ASSUME SyncInv, NEW w \in Workers, ReleaseReturns(w) PROVE SyncInv'
<1>1. /\ pc[w] = "releasing" /\ w \in Clients /\ TakeReply(w) /\ ByClient
      /\ round' = [round EXCEPT ![w] = @ + 1]
      /\ pc' = [pc EXCEPT ![w] = IF round[w] + 1 < Rounds THEN "acquire" ELSE "terminated"]
      /\ UNCHANGED <<request, val, counter, job, shellCap, ncmd>>
  BY Distinct, SMTT(30) DEF ReleaseReturns, NextRound, objectVars, ByClient
<1>2. /\ replies[w] # << >> /\ replies'[w] = << >>
      /\ \A d \in Clients : d # w => replies'[d] = replies[d]
      /\ replies' \in [Clients -> Seq(Status)]
  BY <1>1, ReplyTaken, Zenon
<1>3. job \in {"guarded", "bench"} /\ round[w] < Rounds
  BY <1>1, ZenonT(30) DEF SyncInv, TypeOK, Phases
<1>4. round[w] \in Nat /\ Rounds \in Nat
  BY SyncConstants, Functions
<1>5. /\ round' \in [Workers -> 0 .. Rounds] /\ round'[w] = round[w] + 1
      /\ \A v \in Workers : v # w => round'[v] = round[v]
      /\ round'[w] < Rounds \/ round'[w] = Rounds
  BY <1>1, <1>3, <1>4, Functions
<1>6. /\ pc' \in [Clients -> Tokens \cup ShellTokens]
      /\ pc'[w] = IF round'[w] < Rounds THEN "acquire" ELSE "terminated"
      /\ \A d \in Clients : d # w => pc'[d] = pc[d]
  BY <1>1, <1>5, Functions, Zenon DEF Tokens
<1>7. StepOf(w)
  BY <1>1, <1>2, <1>6, ZenonT(30) DEF StepOf
<1>8. Conversation(w)'
  BY <1>1, <1>2, <1>6, <1>7, ClientSilent, SMTT(30) DEF WaitTokens
<1>9. w \notin Holders'
  BY <1>6, SMTT(30) DEF Holders
<1>10. Counting'
  <2>1. Made(w)' = Made(w)
    BY <1>1, <1>4, <1>5, <1>6, SMTT(30) DEF Made
  <2> QED
    BY <1>1, <1>5, <1>6, <2>1, SameCount, Distinct, SMTT(30) DEF ByClient
<1>11. pc'[w] \in Tokens \ {"none", "load", "store"} /\ counter' \in Nat
  BY <1>1, <1>6, Zenon DEF Tokens, SyncInv, TypeOK
<1> QED
  BY <1>1, <1>2, <1>3, <1>5, <1>6, <1>7, <1>8, <1>9, <1>10, <1>11, Functions, WorkerStep,
     ZenonT(30)

-----------------------------------------------------------------------------
(* The invariant: the steps of the shell *)

\* What a step of the shell leaves to be shown when no job runs.
LEMMA ShellStep ==
    ASSUME SyncInv, StepOf(Shell), job = "none", UNCHANGED <<round, val, job>>,
           pc' \in [Clients -> Tokens \cup ShellTokens],
           request' \in [Clients -> Requests \cup {None}], replies' \in [Clients -> Seq(Status)],
           counter' \in Nat, shellCap' \in BOOLEAN, ncmd' \in 0 .. MaxCommands,
           Conversation(Shell)', pc'[Shell] \in ShellTokens \ {"polling"},
           pc'[Shell] = "demo" => counter' = 0,
           pc'[Shell] \in {"demo", "bench"} => replies'[Shell] = << >> /\ ~InService(Shell)
    PROVE  SyncInv'
<1>1. ByClient /\ \A w \in Workers : pc[w] = "none" /\ pc'[w] = "none"
  BY Distinct, ZenonT(30) DEF SyncInv, Phases, StepOf
<1>2. RingInv' /\ Serving'
  BY <1>1, ClientSide, SMTT(30)
<1>3. TypeOK'
  BY <1>1, Functions, ClientTypes, Zenon
<1>4. Talk'
  BY ClientTalk, Distinct, Zenon
<1>5. Phases'
  BY <1>1, ZenonT(30) DEF Phases, ByClient, InService, Tokens
<1>6. Holders' = {}
  BY <1>1, SMTT(30) DEF Holders
<1>7. OnePermit' /\ Counting'
  BY <1>1, <1>6, SMTT(30) DEF SyncInv, OnePermit, Counting, ByClient
<1> QED
  BY <1>2, <1>3, <1>4, <1>5, <1>7, Together, ZenonT(30)

\* A command sends its request when no conversation of the shell is left over.
LEMMA CommandStep ==
    ASSUME SyncInv, NEW req \in Requests,
           NEW next \in {"creating", "waiting", "demo", "bench"},
           next = "waiting" => req.op # "create",
           next # "waiting" => req.op = "create" /\ (req.mutex => req.n = 1),
           Command(req, next), counter' \in {counter, 0}, next = "demo" => counter' = 0
    PROVE  SyncInv'
<1>1. /\ pc[Shell] = "prompt" /\ ncmd < MaxCommands /\ ncmd' = ncmd + 1
      /\ request' = [request EXCEPT ![Shell] = req] /\ pc' = [pc EXCEPT ![Shell] = next]
      /\ UNCHANGED <<replies, round, val, job, shellCap>> /\ ByClient /\ Shell \in Clients
  BY Distinct, Zenon DEF Command, Send, objectVars, ByClient
<1>2. /\ pc' \in [Clients -> Tokens \cup ShellTokens]
      /\ request' \in [Clients -> Requests \cup {None}]
      /\ pc'[Shell] = next /\ request'[Shell] = req
      /\ \A c \in Clients : c # Shell => pc'[c] = pc[c] /\ request'[c] = request[c]
  BY <1>1, Functions, SMTT(30) DEF ShellTokens
<1>3. StepOf(Shell) /\ ~Awaits(Shell) /\ pc'[Shell] \in WaitTokens
  BY <1>1, <1>2, SMTT(30) DEF StepOf, Awaits, WaitTokens
<1>4. job = "none" /\ shellCap \in BOOLEAN /\ counter' \in Nat
  BY <1>1 DEF SyncInv, TypeOK, Phases
<1>5. ncmd' \in 0 .. MaxCommands
  <2>1. ncmd \in 0 .. MaxCommands /\ MaxCommands \in Nat
    BY SyncConstants, SMTT(30) DEF SyncInv, TypeOK
  <2> QED
    BY <1>1, <2>1, SMTT(30)
<1>6. replies[Shell] = << >> /\ ~InService(Shell)
  BY <1>1, <1>3, Silent, SMTT(30)
<1>7. Conversation(Shell)'
  <2>1. Asks(Shell, request[Shell])' /\ request'[Shell] # None
    BY <1>2, NoRequest, SMTT(30) DEF Asks
  <2> QED
    BY <1>1, <1>3, <2>1, ClientSends, SMTT(30)
<1>8. pc'[Shell] \in ShellTokens \ {"polling"}
  BY <1>2, Zenon DEF ShellTokens
<1> QED
  BY <1>1, <1>2, <1>3, <1>4, <1>5, <1>6, <1>7, <1>8, Functions, ShellStep, SMTT(30)

\* The commands of the shell.
LEMMA ShellCommandsStep == ASSUME SyncInv, ShellCommands PROVE SyncInv'
<1>1. CASE SyncCreate
  <2>1. PICK m \in BOOLEAN, n \in 0 .. MaxPermits :
           (m => n = 1) /\ Command([op |-> "create", mutex |-> m, n |-> n], "creating")
    BY <1>1, SMTT(30) DEF SyncCreate
  <2> DEFINE r == [op |-> "create", mutex |-> m, n |-> n]
  <2>2. r \in Requests /\ r.op = "create" /\ (r.mutex => r.n = 1) /\ Command(r, "creating")
    BY <2>1, Zenon DEF Requests
  <2>3. counter' = counter
    BY <1>1, Zenon DEF SyncCreate
  <2> HIDE DEF r
  <2> QED
    BY <2>2, <2>3, CommandStep, Zenon
<1>2. CASE SyncAcquire \/ SyncRelease
  <2>1. PICK op \in {"acquire", "release"} : Command([op |-> op], "waiting") /\ counter' = counter
    BY <1>2, Zenon DEF SyncAcquire, SyncRelease
  <2> DEFINE r == [op |-> op]
  <2>2. r \in Requests /\ r.op # "create" /\ Command(r, "waiting")
    BY <2>1, WorkerRequests, Zenon
  <2> HIDE DEF r
  <2> QED
    BY <2>1, <2>2, CommandStep, Zenon
<1>3. CASE RunSyncDemo \/ RunBenchContend
  <2>1. NewMutex \in Requests /\ NewMutex.op = "create" /\ NewMutex.n = 1
    BY SyncConstants DEF NewMutex, Requests
  <2>2. \/ Command(NewMutex, "demo") /\ counter' = 0
        \/ Command(NewMutex, "bench") /\ counter' = counter
    BY <1>3, Zenon DEF RunSyncDemo, RunBenchContend
  <2> QED
    BY <2>1, <2>2, CommandStep, Zenon
<1>4. CASE CapRevoke
  <2>1. /\ ByClient /\ UNCHANGED <<request, replies, pc, round, val, counter, job>>
        /\ pc[Shell] = "prompt" /\ shellCap' \in BOOLEAN /\ ncmd < MaxCommands /\ ncmd' = ncmd + 1
    BY <1>4, ZenonT(30) DEF CapRevoke, objectVars, workVars, ByClient
  <2>2. StepOf(Shell) /\ ~Awaits(Shell) /\ pc'[Shell] \notin WaitTokens
    BY <2>1, SMTT(30) DEF StepOf, Awaits, WaitTokens
  <2>3. job = "none" /\ counter' \in Nat
    BY <2>1, Zenon DEF SyncInv, TypeOK, Phases
  <2>4. ncmd' \in 0 .. MaxCommands
    <3>1. ncmd \in 0 .. MaxCommands /\ MaxCommands \in Nat
      BY SyncConstants, SMTT(30) DEF SyncInv, TypeOK
    <3> QED
      BY <2>1, <3>1, SMTT(30)
  <2>5. Conversation(Shell)'
    <3>1. Shell \in Clients /\ replies'[Shell] = << >>
      BY <2>1, <2>2, Silent, Distinct, Zenon
    <3> QED
      BY <2>1, <2>2, <3>1, ClientSilent, SMTT(30)
  <2>6. pc'[Shell] \in ShellTokens \ {"polling", "demo", "bench"}
    BY <2>1, SMTT(30) DEF ShellTokens
  <2> QED
    BY <2>1, <2>2, <2>3, <2>4, <2>5, <2>6, Functions, ShellStep, Zenon
<1> QED
  BY <1>1, <1>2, <1>3, <1>4, Zenon DEF ShellCommands

\* The shell is back at its prompt.
LEMMA ShellReturnsStep == ASSUME SyncInv, ShellCreateReturns \/ ShellWaitReturns PROVE SyncInv'
<1>1. /\ pc[Shell] \in {"creating", "waiting"} /\ TakeReply(Shell) /\ ByClient
      /\ pc' = [pc EXCEPT ![Shell] = "prompt"] /\ Shell \in Clients
      /\ UNCHANGED <<request, round, val, counter, job, ncmd>>
  BY Distinct, ZenonT(30) DEF ShellCreateReturns, ShellWaitReturns, objectVars, workVars, ByClient
<1>2. /\ replies[Shell] # << >> /\ replies'[Shell] = << >>
      /\ \A d \in Clients : d # Shell => replies'[d] = replies[d]
      /\ replies' \in [Clients -> Seq(Status)]
  BY <1>1, ReplyTaken, SMTT(30)
<1>3. /\ pc' \in [Clients -> Tokens \cup ShellTokens] /\ pc'[Shell] = "prompt"
      /\ \A c \in Clients : c # Shell => pc'[c] = pc[c]
  BY <1>1, Functions, Zenon DEF ShellTokens
<1>4. shellCap' \in BOOLEAN
  BY ZenonT(30) DEF ShellCreateReturns, ShellWaitReturns, SyncInv, TypeOK
<1>5. job = "none" /\ counter' \in Nat /\ ncmd' \in 0 .. MaxCommands
  BY <1>1, SMTT(30) DEF SyncInv, TypeOK, Phases
<1>6. StepOf(Shell)
  BY <1>1, <1>2, <1>3, SMTT(30) DEF StepOf
<1>7. Conversation(Shell)'
  BY <1>1, <1>2, <1>3, <1>6, ClientSilent, Zenon DEF WaitTokens
<1>8. pc'[Shell] \in ShellTokens \ {"polling", "demo", "bench"}
  BY <1>3, SMTT(30) DEF ShellTokens
<1> QED
  BY <1>1, <1>2, <1>3, <1>4, <1>5, <1>6, <1>7, <1>8, Functions, ShellStep, ZenonT(60)

\* No client has a conversation once the shell has taken its answer.
NobodyTalks ==
    \A c \in Clients :
        /\ request[c] = None /\ ~InService(c) /\ c \notin Ring /\ c \notin Woken
        /\ replies'[c] = << >>

\* So none has one if none waits.
LEMMA AllSilent ==
    ASSUME SyncInv, ByClient, NobodyTalks, UNCHANGED request,
           \A c \in Clients : pc'[c] \notin WaitTokens
    PROVE  Talk'
<1> SUFFICES ASSUME NEW c \in Clients PROVE Conversation(c)'
  BY ZenonT(30) DEF Talk
<1>1. /\ ~InService(c)' /\ c \notin Ring' /\ c \notin Woken' /\ request'[c] = None
      /\ replies'[c] = << >> /\ Len(replies'[c]) = 0
  BY ClientSide DEF NobodyTalks, ByClient, InService
<1> QED
  BY <1>1 DEF Conversation, Awaits

\* The workers of a job are put into their slots: none of them has a
\* conversation or the permit.
LEMMA StartStep ==
    ASSUME SyncInv, ByClient, used,
           NEW ws \in SUBSET Workers, NEW first \in {"acquire", "load"}, StartWorkers(ws, first),
           NEW nj \in {"guarded", "unguarded", "bench"}, job' = nj,
           nj = "unguarded" <=> first = "load",
           nj = "guarded" => ws = 1 .. 2 /\ counter' = 0,
           counter' \in Nat, UNCHANGED <<request, shellCap, ncmd>>,
           replies' \in [Clients -> Seq(Status)], NobodyTalks
    PROVE  SyncInv'
<1>1. /\ round' = [w \in Workers |-> 0] /\ val' = [w \in Workers |-> 0]
      /\ pc' = [c \in Clients |-> IF c = Shell THEN "polling"
                                  ELSE IF c \in ws THEN first ELSE "none"]
  BY Zenon DEF StartWorkers
<1>2. RingInv' /\ Ring' = Ring /\ Woken' = Woken /\ Serving'
  BY ClientSide, Zenon
<1>3. /\ pc' \in [Clients -> Tokens \cup ShellTokens] /\ pc'[Shell] = "polling"
      /\ \A w \in Workers : pc'[w] = IF w \in ws THEN first ELSE "none"
      /\ \A c \in Clients : pc'[c] \in {"polling", "acquire", "load", "none"}
  BY <1>1, Distinct, Zenon DEF Tokens, ShellTokens
<1>4. TypeOK'
  <2>1. round' \in [Workers -> 0 .. Rounds] /\ val' \in [Workers -> Nat]
    BY <1>1, SyncConstants
  <2>2. shellCap' \in BOOLEAN /\ ncmd' \in 0 .. MaxCommands
    BY Zenon DEF SyncInv, TypeOK
  <2> QED
    BY <1>3, <2>1, <2>2, Functions, ClientTypes, Zenon
<1>5. Talk'
  BY <1>3, AllSilent, ZenonT(30) DEF WaitTokens
<1>6. Phases'
  BY <1>1, <1>3, SyncConstants, Distinct DEF Phases, ByClient, ShellTokens, Tokens
<1>7. Holders' = {}
  BY <1>3, Distinct, Zenon DEF Holders
<1>8. OnePermit'
  BY <1>7, Zenon DEF SyncInv, OnePermit, ByClient
<1>9. Counting'
  <2> SUFFICES ASSUME nj = "guarded" PROVE Counting'
    BY Zenon DEF Counting
  <2>0. 1 \in Workers /\ 2 \in Workers
    BY SyncConstants DEF Workers
  <2>1. Made(1)' = 0 /\ Made(2)' = 0
    <3>1. round'[1] = 0 /\ round'[2] = 0
      BY <1>1, <2>0, Zenon
    <3>2. pc'[1] \in {"acquire", "load", "none"} /\ pc'[2] \in {"acquire", "load", "none"}
      BY <1>3, <2>0, Zenon
    <3> QED
      BY <3>1, <3>2 DEF Made
  <2> QED
    BY <1>3, <2>1 DEF Counting
<1> QED
  BY <1>2, <1>4, <1>5, <1>6, <1>8, <1>9, Zenon DEF SyncInv

\* Both jobs start when the answer to the creation is there.
LEMMA SpawnStep == ASSUME SyncInv, SpawnGuarded \/ SpawnContenders PROVE SyncInv'
<1>1. /\ pc[Shell] \in {"demo", "bench"} /\ TakeReply(Shell) /\ ByClient
      /\ UNCHANGED <<request, counter, shellCap, ncmd>>
  BY Zenon DEF SpawnGuarded, SpawnContenders, objectVars, ByClient
<1>2. /\ replies[Shell] # << >> /\ replies'[Shell] = << >>
      /\ \A d \in Clients : d # Shell => replies'[d] = replies[d]
      /\ replies' \in [Clients -> Seq(Status)]
  BY <1>1, ReplyTaken, Distinct, SMTT(30)
<1>3. used /\ \A w \in Workers : pc[w] = "none"
  BY <1>1, <1>2, Zenon DEF SyncInv, Phases
<1>4. NobodyTalks
  <2> SUFFICES ASSUME NEW c \in Clients
               PROVE  /\ request[c] = None /\ ~InService(c) /\ c \notin Ring /\ c \notin Woken
                      /\ replies'[c] = << >>
    BY Zenon DEF NobodyTalks
  <2>1. CASE c = Shell
    BY <1>2, <2>1, SMTT(30) DEF SyncInv, Talk, Conversation
  <2>2. CASE c # Shell
    <3>1. ~Awaits(c)
      BY <1>3, <2>2, Zenon DEF Awaits, WaitTokens, Clients
    <3> QED
      BY <1>2, <2>2, <3>1, Silent, Zenon
  <2> QED
    BY <2>1, <2>2, ZenonT(30)
<1>5. counter' \in Nat
  BY <1>1, Zenon DEF SyncInv, TypeOK
<1>6. CASE SpawnGuarded
  <2>1. StartWorkers(1 .. 2, "acquire") /\ job' = "guarded" /\ counter' = 0
    BY <1>1, <1>6, ZenonT(30) DEF SpawnGuarded, SyncInv, Phases
  <2>2. 1 .. 2 \in SUBSET Workers
    BY SyncConstants, SMTT(30) DEF Workers
  <2> QED
    BY <1>1, <1>2, <1>3, <1>4, <1>5, <2>1, <2>2, StartStep, ZenonT(30)
<1>7. CASE SpawnContenders
  <2>1. PICK n \in 1 .. MaxWorkers : StartWorkers(1 .. n, "acquire")
    BY <1>7, Zenon DEF SpawnContenders
  <2>2. 1 .. n \in SUBSET Workers /\ job' = "bench"
    BY <1>7, SyncConstants, SMTT(30) DEF Workers, SpawnContenders
  <2> QED
    BY <1>1, <1>2, <1>3, <1>4, <1>5, <2>1, <2>2, StartStep, SMTT(30)
<1> QED
  BY <1>6, <1>7, Zenon

\* When all the workers are over, the second half of sync demo starts or the
\* shell is back at its prompt.
LEMMA JobStep == ASSUME SyncInv, SpawnUnguarded \/ JobOver PROVE SyncInv'
<1>1. /\ pc[Shell] = "polling" /\ AllOver /\ ByClient
      /\ UNCHANGED <<request, replies, shellCap, ncmd>>
  BY Zenon DEF SpawnUnguarded, JobOver, objectVars, ByClient
<1>2. used /\ \A c \in Clients : ~Awaits(c)
  BY <1>1, Zenon DEF SyncInv, Phases, AllOver, Awaits, WaitTokens, Clients
<1>3. NobodyTalks /\ replies' \in [Clients -> Seq(Status)]
  BY <1>1, <1>2, Silent, Functions, Zenon DEF NobodyTalks
<1>4. CASE SpawnUnguarded
  <2>1. StartWorkers(1 .. 2, "load") /\ job' = "unguarded" /\ counter' = 0
    BY <1>4, Zenon DEF SpawnUnguarded
  <2>2. 1 .. 2 \in SUBSET Workers
    BY SyncConstants DEF Workers
  <2> QED
    BY <1>1, <1>2, <1>3, <2>1, <2>2, StartStep, Zenon
<1>5. CASE JobOver
  <2>1. /\ pc' = [c \in Clients |-> IF c = Shell THEN "prompt" ELSE "none"] /\ job' = "none"
        /\ round' = [w \in Workers |-> 0] /\ val' = [w \in Workers |-> 0] /\ counter' = counter
    BY <1>5, Zenon DEF JobOver
  <2>2. RingInv' /\ Ring' = Ring /\ Woken' = Woken /\ Serving'
    BY <1>1, ClientSide, Zenon
  <2>3. /\ pc' \in [Clients -> Tokens \cup ShellTokens] /\ pc'[Shell] = "prompt"
        /\ \A w \in Workers : pc'[w] = "none"
        /\ \A c \in Clients : pc'[c] \in {"prompt", "none"}
    BY <2>1, Distinct, Zenon DEF Tokens, ShellTokens
  <2>4. round' \in [Workers -> 0 .. Rounds] /\ val' \in [Workers -> Nat]
    BY <2>1, SyncConstants, SMTT(30)
  <2>5. TypeOK'
    <3>1. shellCap' \in BOOLEAN /\ ncmd' \in 0 .. MaxCommands /\ counter' \in Nat
      BY <1>1, <2>1, Zenon DEF SyncInv, TypeOK
    <3> QED
      BY <1>1, <1>3, <2>1, <2>3, <2>4, <3>1, Functions, ClientTypes, SMTT(30)
  <2>6. Talk'
    BY <1>1, <1>3, <2>3, AllSilent, SMTT(30) DEF WaitTokens
  <2>7. Phases'
    BY <2>1, <2>3, SMTT(30) DEF Phases, ShellTokens, Tokens
  <2>8. Holders' = {}
    BY <2>3, SMTT(30) DEF Holders
  <2>9. OnePermit' /\ Counting'
    BY <1>1, <2>1, <2>8, Zenon DEF SyncInv, OnePermit, Counting, ByClient
  <2> QED
    BY <2>2, <2>5, <2>6, <2>7, <2>9, Zenon DEF SyncInv
<1> QED
  BY <1>4, <1>5, Zenon

-----------------------------------------------------------------------------
(* The invariant *)

\* At the start the ring is empty and nobody waits.
LEMMA InitInv == Init => SyncInv
<1> SUFFICES ASSUME Init PROVE SyncInv
  BY Zenon
<1>1. /\ 1 .. wait_len = {} /\ SYNC_MAX_WAIT \in Nat \ {0} /\ 0 \in Cells
      /\ svc.at = "receive" /\ pc[Shell] = "prompt" /\ \A w \in Workers : pc[w] = "none"
      /\ \A c \in Clients : pc[c] \in {"prompt", "none"}
  BY SyncConstants, Distinct DEF Init, Cells, Idle
<1>2. Ring = {} /\ RingDistinct /\ Woken = {}
  BY <1>1, Zenon DEF Ring, RingDistinct, Woken
<1>3. waiters \in [Cells -> Clients \cup {None}]
  BY Zenon DEF Init
<1>4. RingInv
  BY <1>1, <1>2, <1>3 DEF RingInv, Init
<1>5. TypeOK
  <2>1. svc \in ServiceStates
    BY Zenon DEF Init, Idle, Status, ServiceStates
  <2>2. replies \in [Clients -> Seq(Status)] /\ request \in [Clients -> Requests \cup {None}]
    BY DEF Init
  <2>3. pc \in [Clients -> Tokens \cup ShellTokens]
    BY Zenon DEF Init, Tokens, ShellTokens
  <2>4. round \in [Workers -> 0 .. Rounds] /\ val \in [Workers -> Nat] /\ ncmd \in 0 .. MaxCommands
    BY SyncConstants, SMTT(30) DEF Init
  <2> QED
    BY <1>3, <1>4, <2>1, <2>2, <2>3, <2>4, ZenonT(30) DEF TypeOK, Init, RingInv
<1>6. Talk
  <2>1. \A c \in Clients : request[c] = None /\ replies[c] = << >> /\ Len(replies[c]) = 0
    BY ZenonT(30) DEF Init
  <2> QED
    BY <1>1, <1>2, <2>1 DEF Talk, Conversation, Awaits, WaitTokens, InService
<1>7. Serving /\ Phases
  BY <1>1, Distinct, SMTT(30) DEF Init, Serving, Phases, Tokens, ShellTokens
<1>8. OnePermit /\ Counting
  BY Zenon DEF Init, OnePermit, Counting
<1> QED
  BY <1>4, <1>5, <1>6, <1>7, <1>8, Zenon DEF SyncInv

\* Every step keeps the invariant.
LEMMA InvStep == ASSUME SyncInv, RoomForWorkers, [Next]_vars PROVE SyncInv'
<1>1. CASE \E c \in Clients : Receive(c)
  BY <1>1, ReceiveStep, Zenon
<1>2. CASE Apply
  BY <1>2, ApplyIsApplied, CreateStep, RefuseStep, AcquireStep, ReleaseStep, Zenon DEF Apply
<1>3. CASE WakeWaiter
  BY <1>3, WakeStep, Zenon
<1>4. CASE Answer
  BY <1>4, AnswerStep, Zenon
<1>5. CASE \E w \in Workers : Worker(w)
  BY <1>5, WorkerSends, AcquireReturnsStep, LoadStep, StoreStep, ReleaseReturnsStep, ZenonT(60) DEF Worker
<1>6. CASE ShellCommands
  BY <1>6, ShellCommandsStep, Zenon
<1>7. CASE ShellGoesOn
  BY <1>7, ShellReturnsStep, SpawnStep, JobStep, ZenonT(30) DEF ShellGoesOn
<1>8. CASE UNCHANGED vars
  <2>1. /\ UNCHANGED <<used, is_mutex, count, waiters, wait_head, wait_tail, wait_len, granted>>
        /\ UNCHANGED <<svc, request, replies, pc, round, val, counter, job, shellCap, ncmd>>
    BY <1>8, SMTT(30) DEF vars, objectVars, workVars
  <2>2. RingInv' /\ Ring' = Ring /\ Woken' = Woken /\ Serving'
    BY <2>1, ClientSide, Zenon DEF ByClient
  <2>3. TypeOK'
    BY <2>1, ZenonT(30) DEF SyncInv, TypeOK
  <2>4. Talk'
    <3>1. \A c \in Clients : SameTalk(c)
      BY <2>1, <2>2, Zenon DEF SameTalk, InService
    <3> QED
      BY <3>1, TalkSame, SMTT(30) DEF Talk
  <2>5. Phases'
    BY <2>1, ZenonT(30) DEF SyncInv, Phases
  <2>6. Holders' = Holders
    BY <2>1, ZenonT(30) DEF Holders
  <2>7. OnePermit' /\ Counting'
    BY <2>1, <2>6, Zenon DEF SyncInv, OnePermit, Counting, Made
  <2> QED
    BY <2>2, <2>3, <2>4, <2>5, <2>7, SMTT(30) DEF SyncInv
<1> QED
  BY <1>1, <1>2, <1>3, <1>4, <1>5, <1>6, <1>7, <1>8, Zenon DEF Next, Service

-----------------------------------------------------------------------------
(* What the invariant establishes *)

\* Sequences with the same elements at the same positions are equal.
LEMMA ListsEqual ==
    ASSUME NEW S, NEW s \in Seq(S), NEW t \in Seq(S), Len(s) = Len(t),
           \A i \in 1 .. Len(s) : s[i] = t[i]
    PROVE  s = t
OBVIOUS

\* The sequence of length zero is the empty one.
LEMMA EmptyList ==
    ASSUME NEW S, NEW s \in Seq(S)
    PROVE  Len(s) = 0 <=> s = << >>
OBVIOUS

\* What Append and Tail have at each position.
LEMMA AppendList ==
    ASSUME NEW S, NEW s \in Seq(S), NEW e \in S
    PROVE  /\ Append(s, e) \in Seq(S) /\ Len(Append(s, e)) = Len(s) + 1
           /\ \A i \in 1 .. Len(s) : Append(s, e)[i] = s[i]
           /\ Append(s, e)[Len(s) + 1] = e
OBVIOUS

\* The same of Tail.
LEMMA TailList ==
    ASSUME NEW S, NEW s \in Seq(S), s # << >>
    PROVE  /\ Tail(s) \in Seq(S) /\ Len(Tail(s)) = Len(s) - 1
           /\ \A i \in 1 .. Len(s) - 1 : Tail(s)[i] = s[i + 1]
OBVIOUS

\* The wait list is a sequence of wait_len tasks.
LEMMA ListIsSeq ==
    ASSUME RingInv
    PROVE  /\ WaitList \in Seq(Clients) /\ Len(WaitList) = wait_len
           /\ wait_len = 0 => WaitList = << >>
<1>1. wait_len \in Nat /\ \A i \in 1 .. wait_len : WaitList[i] \in Clients
  BY SyncConstants DEF RingInv, Ring
<1>2. WaitList = [i \in 1 .. wait_len |-> WaitList[i]]
  BY Zenon DEF WaitList
<1>3. WaitList \in Seq(Clients) /\ Len(WaitList) = wait_len
  BY <1>1, <1>2
<1> QED
  BY <1>3, EmptyList, Zenon

\* The same after a step.
LEMMA ListIsSeqNext ==
    ASSUME RingInv'
    PROVE  /\ WaitList' \in Seq(Clients) /\ Len(WaitList') = wait_len'
           /\ wait_len' = 0 => WaitList' = << >>
<1>1. wait_len' \in Nat /\ \A i \in 1 .. wait_len' : WaitList'[i] \in Clients
  BY SyncConstants DEF RingInv, Ring
<1>2. WaitList' = [i \in 1 .. wait_len' |-> WaitList'[i]]
  BY Zenon DEF WaitList
<1>3. WaitList' \in Seq(Clients) /\ Len(WaitList') = wait_len'
  BY <1>1, <1>2
<1> QED
  BY <1>3, EmptyList, SMTT(30)

\* Putting a task into the ring appends it to the list.
LEMMA ListEnqueue ==
    ASSUME RingInv, NEW c \in Clients, c \notin Ring, HasRoom, Enqueue(c)
    PROVE  WaitList' = Append(WaitList, c)
<1>1. /\ RingInv' /\ wait_len' = wait_len + 1 /\ wait_len \in Nat
      /\ \A i \in 1 .. wait_len' : WaitList'[i] = IF i = wait_len + 1 THEN c ELSE WaitList[i]
  BY RingEnqueue, SyncConstants DEF RingInv
<1>2. WaitList \in Seq(Clients) /\ Len(WaitList) = wait_len
  BY ListIsSeq, Zenon
<1>3. WaitList' \in Seq(Clients) /\ Len(WaitList') = wait_len'
  BY <1>1, ListIsSeqNext, SMTT(30)
<1>4. /\ Append(WaitList, c) \in Seq(Clients) /\ Len(Append(WaitList, c)) = wait_len + 1
      /\ \A i \in 1 .. wait_len : Append(WaitList, c)[i] = WaitList[i]
      /\ Append(WaitList, c)[wait_len + 1] = c
  BY <1>2, AppendList, SMTT(30)
<1>5. \A i \in 1 .. wait_len + 1 : WaitList'[i] = Append(WaitList, c)[i]
  BY <1>1, <1>4
<1> QED
  BY <1>1, <1>3, <1>4, <1>5, ListsEqual, ZenonT(30)

\* Taking the oldest waiter out of the ring takes the first of the list.
LEMMA ListDequeue ==
    ASSUME RingInv, wait_len > 0, UNCHANGED <<waiters, wait_tail>>,
           wait_head' = (wait_head + 1) % SYNC_MAX_WAIT, wait_len' = wait_len - 1
    PROVE  /\ WaitList # << >> /\ waiters[wait_head] = Head(WaitList)
           /\ WaitList' = Tail(WaitList)
<1>1. /\ RingInv' /\ wait_len \in Nat /\ waiters[wait_head] = WaitList[1]
      /\ \A i \in 1 .. wait_len' : WaitList'[i] = WaitList[i + 1]
  BY RingDequeue, SyncConstants DEF RingInv
<1>2. WaitList \in Seq(Clients) /\ Len(WaitList) = wait_len
  BY ListIsSeq, Zenon
<1>3. WaitList' \in Seq(Clients) /\ Len(WaitList') = wait_len - 1
  BY <1>1, ListIsSeqNext, Zenon
<1>4. WaitList # << >> /\ Head(WaitList) = WaitList[1]
  BY <1>2, EmptyList
<1>5. /\ Tail(WaitList) \in Seq(Clients) /\ Len(Tail(WaitList)) = wait_len - 1
      /\ \A i \in 1 .. wait_len - 1 : Tail(WaitList)[i] = WaitList[i + 1]
  BY <1>2, <1>4, TailList, SMTT(30)
<1>6. WaitList' = Tail(WaitList)
  BY <1>1, <1>3, <1>5, ListsEqual, SMTT(30)
<1> QED
  BY <1>1, <1>4, <1>6, SMTT(30)

\* The object starts as a semaphore does.
LEMMA InitImplements == Init => Sem!Init
<1> SUFFICES ASSUME Init PROVE Sem!Init
  BY Zenon
<1>1. WaitList = << >>
  <2>1. RingInv /\ wait_len = 0
    BY InitInv, Zenon DEF SyncInv, Init
  <2> QED
    BY <2>1, ListIsSeq, SMTT(30)
<1> QED
  BY <1>1, Zenon DEF Init, Sem!Init

\* Every step is a step of the semaphore or leaves it alone.
LEMMA StepImplements == SyncInv /\ [Next]_vars => [Sem!Next]_(Sem!vars)
<1> SUFFICES ASSUME SyncInv, [Next]_vars PROVE Sem!Next \/ UNCHANGED Sem!vars
  BY Zenon
<1>0. ASSUME UNCHANGED objectVars PROVE UNCHANGED Sem!vars
  BY <1>0, RingSame, Zenon DEF objectVars, Sem!vars, SyncInv
<1>1. CASE Apply
  <2>0. Applied
    BY <1>1, ApplyIsApplied, Zenon
  <2>1. CASE Create
    <3>1. CASE used
      BY <1>0, <2>1, <3>1, Zenon DEF Create
    <3>2. CASE ~used
      <4>1. used' = TRUE /\ is_mutex' \in BOOLEAN /\ count' \in Nat /\ granted' = granted
        <5>1. svc.req.mutex \in BOOLEAN /\ svc.req.n \in Nat
          BY <2>0, <2>1, SyncConstants, SMTT(30) DEF Create, Applied, Requests
        <5> QED
          BY <2>1, <3>2, <5>1, ZenonT(30) DEF Create
      <4>2. Ring = {}
        BY <2>0, <2>1, CreateAlone, Zenon
      <4>3. WaitList = << >>
        <5>1. wait_len = 0
          BY <4>2, RingEmpty, ZenonT(30) DEF SyncInv
        <5> QED
          BY <5>1, ListIsSeq, Zenon DEF SyncInv
      <4>4. WaitList' = << >>
        BY <2>1, <3>2, RingReset, ListIsSeqNext, ZenonT(30) DEF Create, SyncInv, RingInv
      <4> QED
        BY <3>2, <4>1, <4>3, <4>4, ZenonT(30) DEF Sem!Next, Sem!Create
    <3> QED
      BY <3>1, <3>2, SMTT(30)
  <2>2. CASE Refuse
    BY <1>0, <2>2, Zenon DEF Refuse
  <2>3. CASE Acquire
    <3>1. CASE /\ PermitLeft /\ count' = count - 1 /\ granted' = svc.from
               /\ UNCHANGED <<used, is_mutex, waiters, wait_head, wait_tail, wait_len>>
      <4>1. WaitList' = WaitList
        BY <3>1, RingSame, ZenonT(30) DEF SyncInv
      <4> QED
        BY <2>0, <2>3, <3>1, <4>1, ZenonT(30)
           DEF Acquire, Applied, PermitLeft, Sem!Next, Sem!Take
    <3>2. CASE /\ ~PermitLeft /\ HasRoom /\ Enqueue(svc.from)
               /\ UNCHANGED <<used, is_mutex, count, granted>>
      <4>1. WaitList' = Append(WaitList, svc.from)
        BY <2>0, <3>2, ListEnqueue, ServedIsNotInRing, ZenonT(30) DEF SyncInv, Applied
      <4>2. count = 0
        <5>1. count \in Nat
          BY Zenon DEF SyncInv, TypeOK
        <5> QED
          BY <3>2, <5>1, SMTT(30) DEF PermitLeft
      <4> QED
        BY <2>0, <2>3, <3>2, <4>1, <4>2, ZenonT(30) DEF Acquire, Applied, Sem!Next, Sem!Wait
    <3> QED
      BY <1>0, <2>3, <3>1, <3>2, ZenonT(30) DEF Acquire
  <2>4. CASE Release
    <3>1. CASE /\ Dequeue /\ granted' = waiters[wait_head]
               /\ UNCHANGED <<used, is_mutex, waiters, wait_tail>>
      <4>1. /\ WaitList # << >> /\ waiters[wait_head] = Head(WaitList)
            /\ WaitList' = Tail(WaitList)
        BY <3>1, ListDequeue, Zenon DEF SyncInv, Dequeue
      <4> QED
        BY <3>1, <4>1, SMTT(30) DEF Dequeue, Sem!Next, Sem!HandOn
    <3>2. CASE /\ wait_len = 0 /\ count' = CountAfterRelease
               /\ UNCHANGED <<used, is_mutex, waiters, wait_head, wait_tail, wait_len, granted>>
      <4>1. WaitList' = WaitList /\ WaitList = << >>
        BY <3>2, RingSame, ListIsSeq, ZenonT(30) DEF SyncInv
      <4> QED
        BY <2>4, <3>2, <4>1, ZenonT(30) DEF Release, CountAfterRelease, Sem!Next, Sem!PutBack
    <3> QED
      BY <2>4, <3>1, <3>2, ZenonT(30) DEF Release
  <2> QED
    BY <1>1, <2>1, <2>2, <2>3, <2>4, ZenonT(30) DEF Apply
<1>2. CASE ~Apply
  <2>1. UNCHANGED objectVars
    BY <1>2, ZenonT(30)
       DEF Next, Service, Receive, WakeWaiter, Answer, Worker, AcquireSend, AcquireReturns,
           Load, Store, ReleaseSend, ReleaseReturns, ShellCommands, SyncCreate, SyncAcquire,
           SyncRelease, CapRevoke, RunSyncDemo, RunBenchContend, Command, ShellGoesOn,
           ShellCreateReturns, ShellWaitReturns, SpawnGuarded, SpawnContenders,
           SpawnUnguarded, JobOver, vars
  <2> QED
    BY <1>0, <2>1, ZenonT(30)
<1> QED
  BY <1>1, <1>2, Zenon

-----------------------------------------------------------------------------
(* What holds in every reachable state *)

LOCAL INSTANCE FiniteSetTheorems

\* There is a cell for a worker as long as only other workers wait: bench contend
\* starts at most 16 tasks and the ring has 16 cells.
LEMMA Room ==
    ASSUME RingInv, NEW w \in Workers, Ring \subseteq Workers \ {w}
    PROVE  HasRoom
<1>1. /\ IsFiniteSet(Workers) /\ Cardinality(Workers) = MaxWorkers /\ MaxWorkers \in Nat
      /\ SYNC_MAX_WAIT \in Nat
  BY FS_Interval, SyncConstants, SMTT(30) DEF Workers
<1>2. IsFiniteSet(Workers \ {w}) /\ Cardinality(Workers \ {w}) = MaxWorkers - 1
  BY <1>1, FS_RemoveElement, SMTT(30)
<1>3. wait_len \in Nat /\ IsFiniteSet(1 .. wait_len) /\ Cardinality(1 .. wait_len) = wait_len
  BY <1>1, FS_Interval, SMTT(30) DEF RingInv
<1>4. WaitList \in [1 .. wait_len -> Workers \ {w}]
  BY Zenon DEF WaitList, Ring
<1>5. ~(MaxWorkers - 1 < wait_len)
  BY <1>2, <1>3, <1>4, FS_PigeonHole, SMTT(30) DEF RingInv, RingDistinct
<1> QED
  BY <1>1, <1>3, <1>5, SyncConstants, SMTT(30) DEF HasRoom

\* The invariant holds in every reachable state.
LEMMA Invariance == Spec => []SyncInv
<1>1. SyncInv => RoomForWorkers
  BY Room, ZenonT(30) DEF SyncInv, RoomForWorkers
<1>2. SyncInv /\ [Next]_vars => SyncInv'
  BY <1>1, InvStep, Zenon
<1> QED
  BY <1>2, InitInv, PTL DEF Spec

\* A worker in its critical section is alone there if the object is a mutex, for
\* any number of workers up to the cells of the ring (sync_service_main and the
\* workers of run_bench_contend).
THEOREM Exclusion == Spec => []MutualExclusion
<1>1. SyncInv => MutualExclusion
  BY ZenonT(30) DEF SyncInv, OnePermit, Holders, MutualExclusion, InCriticalSection
<1> QED
  BY <1>1, Invariance, PTL

\* No increment of the guarded run is lost, for any number of rounds
\* (run_sync_demo and its worker).
THEOREM ExactCounter == Spec => []GuardedCounterIsExact
<1>1. SyncInv => GuardedCounterIsExact
  <2> SUFFICES ASSUME SyncInv, is_mutex, job = "guarded", AllOver PROVE counter = 2 * Rounds
    BY Zenon DEF GuardedCounterIsExact
  <2>1. 1 \in Workers /\ 2 \in Workers /\ 1 \in 1 .. 2 /\ 2 \in 1 .. 2
    BY SyncConstants DEF Workers
  <2>2. pc[1] = "terminated" /\ pc[2] = "terminated"
    BY <2>1, Zenon DEF SyncInv, Counting, AllOver
  <2>3. round[1] = Rounds /\ round[2] = Rounds /\ counter = Made(1) + Made(2)
    BY <2>1, <2>2, ZenonT(30) DEF SyncInv, Counting
  <2> QED
    BY <2>2, <2>3, SyncConstants, SMTT(30) DEF Made
<1> QED
  BY <1>1, Invariance, PTL

\* Every request has one answer, put off or not, for any number of clients
\* (sync_service_main).
THEOREM OneAnswer == Spec => []OneAnswerPerRequest
<1>1. SyncInv => OneAnswerPerRequest
  BY OnePlace, Zenon DEF OneAnswerPerRequest
<1> QED
  BY <1>1, Invariance, PTL

\* The object with its ring is a semaphore that hands permits on in the order of
\* the requests (SyncObject and sync_service_main), for any size of the ring.
THEOREM Refinement == Spec => Implements
BY InitImplements, StepImplements, Invariance, PTL DEF Spec, Implements, Sem!Spec

=============================================================================

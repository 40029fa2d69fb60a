---------------------------- MODULE Distribution ----------------------------
(***************************************************************************)
(* The distribution substrate (kernel/process/dist.rs) as its only caller, *)
(* the demonstration, uses it: the shell's `migrate 1 1` (and, once, the   *)
(* boot) spawns a backing and a replica task and runs demo over them.  The *)
(* calls run one after the other, without a yield; the route table and the *)
(* remote node live on from one run of the command to the next.            *)
(***************************************************************************)
EXTENDS Naturals, Sequences, FiniteSets, FiniteSetsExt

CONSTANTS
    MAX_SERVICES,  \* entries of the route table and of the remote node
    QueueLimit,    \* MSG_QUEUE_CAPACITY
    MaxRuns,       \* bound: runs of the command
    Nowhere        \* no task in a slot, no route

Service == 1
Remote == <<"Remote", 1>>
Local(t) == <<"Local", t>>
Locations == {Remote, Local("backing"), Local("replica")}

DemoMessages == Nat \X {"alpha", "beta", "gamma", "delta", "epsilon"}

\* A task as a checkpoint takes it: its capabilities and its queue.
TaskStates ==
    [caps : SUBSET ({"cap"} \X Nat \X {1, 2}), queue : Seq(DemoMessages)]

\* The demonstration queues at most three messages in one place.
ASSUME DistributionConstants ==
    /\ MAX_SERVICES \in Nat \ {0} /\ QueueLimit \in Nat \ {0, 1, 2} /\ MaxRuns \in Nat
    /\ Nowhere \notin Locations /\ Nowhere \notin TaskStates

VARIABLES
    registry,   \* REGISTRY: sequence of [svc, loc]
    hosted,     \* REMOTE.services: sequence of [svc, cp]
    inbox,      \* REMOTE.inbox
    slot,       \* the task slots: "backing" and "replica"
    runs,       \* runs of the command so far
    script,     \* calls the present run still has to make
    carried,    \* the capabilities migrated and those found on the node
    report,     \* lines the present run has printed
    lastBorn    \* history: the checkpoint of the last migration

distVars == <<registry, hosted, inbox, slot, runs, script, carried, report, lastBorn>>

\* The calls of demo, in order.  A message is named by its run and its text.
DemoScript ==
    << <<"register">>, <<"send", "alpha">>, <<"send", "beta">>, <<"migrate">>,
       <<"send", "gamma">>, <<"send", "delta">>, <<"pump">>, <<"failover">>,
       <<"send", "epsilon">> >>

DistInit ==
    /\ registry = << >> /\ hosted = << >> /\ inbox = << >>
    /\ slot = [t \in {"backing", "replica"} |-> Nowhere]
    /\ runs = 0 /\ script = << >> /\ report = << >>
    /\ carried = [migrated |-> {}, caps |-> {}]
    /\ lastBorn = Nowhere

\* The entries of a table for the service; the first one is the one found.
Entries(table) == {i \in DOMAIN table : table[i].svc = Service}

Resolve == IF Entries(registry) = {} THEN Nowhere ELSE registry[Min(Entries(registry))].loc

\* Mutant: the new route always takes a free entry.
SetRouteAfresh(loc) ==
    IF Len(registry) < MAX_SERVICES THEN Append(registry, [svc |-> Service, loc |-> loc])
    ELSE registry

\* ServiceRegistry::set: replace the entry, else take a free one, if any.
SetRoute(loc) ==
    IF Entries(registry) # {} THEN [registry EXCEPT ![Min(Entries(registry))].loc = loc]
    ELSE IF Len(registry) < MAX_SERVICES
         THEN Append(registry, [svc |-> Service, loc |-> loc])
         ELSE registry

\* RemoteNode::host: the first free entry, or nothing.
Host(cp) ==
    IF Len(hosted) < MAX_SERVICES THEN Append(hosted, [svc |-> Service, cp |-> cp])
    ELSE hosted

\* MessageQueue::enqueue with its result ignored.
Enqueued(q, m) == IF Len(q) < QueueLimit THEN Append(q, m) ELSE q

Call(op) ==
    /\ script # << >> /\ Head(script)[1] = op
    /\ script' = Tail(script)

\* The command: fresh tasks, the backing one with two new capabilities.
Migrate1 ==
    /\ script = << >> /\ runs < MaxRuns
    /\ slot' = [t \in {"backing", "replica"} |->
                   [caps |-> IF t = "backing" THEN {<<"cap", runs, 1>>, <<"cap", runs, 2>>} ELSE {},
                    queue |-> << >>]]
    /\ runs' = runs + 1 /\ script' = DemoScript /\ report' = << >>
    /\ UNCHANGED <<registry, hosted, inbox, carried, lastBorn>>

Register ==
    /\ Call("register")
    /\ registry' = SetRoute(Local("backing"))
    /\ UNCHANGED <<hosted, inbox, slot, runs, carried, report, lastBorn>>

\* route_send under the client's capability; only the last one is judged.
RouteSend ==
    /\ Call("send")
    /\ LET m == <<runs, Head(script)[2]>>
           loc == Resolve
           t == loc[2]
       IN  /\ slot' = IF loc # Nowhere /\ loc[1] = "Local" /\ slot[t] # Nowhere
                      THEN [slot EXCEPT ![t].queue = Enqueued(@, m)] ELSE slot
           /\ inbox' = IF loc = Remote THEN Enqueued(inbox, m) ELSE inbox
           /\ report' = IF m[2] = "epsilon"
                        THEN Append(report, IF loc # Nowhere /\ loc[1] = "Local"
                                            THEN "PASS" ELSE "FAIL")
                        ELSE report
    /\ UNCHANGED <<registry, hosted, runs, carried, lastBorn>>

\* migrate: checkpoint, host, re-route, clear the slot.  Anything but a local
\* service is an error, and ends the run.
Migrate ==
    /\ script # << >> /\ Head(script)[1] = "migrate"
    /\ IF Resolve = Local("backing") /\ slot["backing"] # Nowhere
       THEN LET cp == slot["backing"]
            IN  /\ hosted' = Host(cp)
                /\ registry' = SetRoute(Remote)
                /\ slot' = [slot EXCEPT !["backing"] = Nowhere]
                /\ carried' = [migrated |-> cp.caps,
                            caps |-> Host(cp)[Min(Entries(Host(cp)))].cp.caps]
                /\ lastBorn' = cp
                /\ script' = Tail(script)
                /\ UNCHANGED report
       ELSE /\ script' = << >> /\ report' = Append(report, "FAIL")
            /\ UNCHANGED <<hosted, registry, slot, carried, lastBorn>>
    /\ UNCHANGED <<inbox, runs>>

Pumped == Len(inbox)

\* pump_remote drains the inbox, and demo compares the capability counts.
PumpRemote ==
    /\ Call("pump")
    /\ inbox' = SubSeq(inbox, Pumped + 1, Len(inbox))
    /\ report' = Append(report,
                        IF Cardinality(carried.migrated) = Cardinality(carried.caps) /\ Pumped = 2
                        THEN "PASS" ELSE "FAIL")
    /\ UNCHANGED <<registry, hosted, slot, runs, carried, lastBorn>>

\* The checkpoint failover restores: the first entry of the service.
HeldCheckpoint == hosted[Min(Entries(hosted))].cp

Failover ==
    /\ script # << >> /\ Head(script)[1] = "failover"
    /\ IF Entries(hosted) # {} /\ slot["replica"] # Nowhere
       THEN /\ slot' = [slot EXCEPT !["replica"] = HeldCheckpoint]
            /\ registry' = SetRoute(Local("replica"))
            /\ script' = Tail(script)
            /\ UNCHANGED report
       ELSE /\ script' = << >> /\ report' = Append(report, "FAIL")
            /\ UNCHANGED <<slot, registry>>
    /\ UNCHANGED <<hosted, inbox, runs, carried, lastBorn>>

DistNext == Migrate1 \/ Register \/ RouteSend \/ Migrate \/ PumpRemote \/ Failover

DistSpec == DistInit /\ [][DistNext]_distVars

-----------------------------------------------------------------------------
(* Properties *)

StartsWith(t, s) == Len(s) <= Len(t) /\ SubSeq(t, 1, Len(s)) = s

\* However often the demonstration is run, also once the remote node has no entry
\* left, the client's capability goes on reaching the service: no line of the
\* report is a FAIL; from the registration on the route leads to the remote node or
\* to a task that exists, never to the slot that migrate has emptied ("no client
\* ever observes a window where the capability resolves to neither", PAPER.typ:313);
\* and the message that follows the failover is in the replica's queue when the run ends.
ServiceStaysReachable ==
    /\ \A i \in DOMAIN report : report[i] # "FAIL"
    /\ runs > 0 /\ script # DemoScript =>
          \/ Resolve = Remote
          \/ \E t \in DOMAIN slot : Resolve = Local(t) /\ slot[t] # Nowhere
    /\ runs > 0 /\ script = << >> =>
          \E i \in DOMAIN slot["replica"].queue : slot["replica"].queue[i] = <<runs, "epsilon">>

\* "Recover the last checkpoint held for this service on the (failed) node"
\* (dist.rs:271): after a failover the replica has the capabilities, and first of
\* all the messages, of the service as it was last migrated.  host never replaces
\* an entry and failover takes the first, so that it is true of one run only.
FailoverRestoresTheLast ==
    Resolve = Local("replica") /\ script # DemoScript =>
        /\ slot["replica"].caps = lastBorn.caps
        /\ StartsWith(slot["replica"].queue, lastBorn.queue)

=============================================================================

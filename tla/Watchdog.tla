------------------------------ MODULE Watchdog ------------------------------
(***************************************************************************)
(* The watchdog of kernel/boot/main.rs, the service it restarts, and the   *)
(* driver of the preemption demonstration that runs beside them.  The      *)
(* three take turns in slot order, each until it yields; a contained fault *)
(* (exception_dispatch) takes the service out of the turn.  The driver     *)
(* arms preemption after a fixed number of turns; the watchdog reads the   *)
(* service's state in one critical section and restarts it in another, and *)
(* its comment says that this is safe only before that.                    *)
(***************************************************************************)
EXTENDS Naturals

CONSTANTS
    MAX_RESTARTS,  \* restarts the watchdog tries, crashes of the service
    ArmAfter       \* turns the driver waits before it arms preemption

ASSUME WatchdogConstants == MAX_RESTARTS \in Nat /\ ArmAfter \in Nat

VARIABLES
    turn,         \* the task that has the processor
    service,      \* "fresh", "started", "stable" or "Terminated"
    incarnation,  \* the number the running service drew
    starts,       \* FRAGILE_INCARNATION
    restarts,     \* the watchdog's count
    watchdog,     \* "watching", "recovered" or "gaveUp"
    observed,     \* what the watchdog has read of the service and not acted on yet
    driverTurns   \* turns the driver has waited; ArmAfter: preemption is armed

watchdogVars ==
    <<turn, service, incarnation, starts, restarts, watchdog, observed, driverTurns>>

WatchdogInit ==
    /\ turn = "driver" /\ service = "fresh" /\ incarnation = 0 /\ starts = 0
    /\ restarts = 0 /\ watchdog = "watching" /\ observed = "nothing"
    /\ driverTurns = 0

PreemptionArmed == driverTurns = ArmAfter

\* The next task in slot order that can run.
NextTurn(t) ==
    CASE t = "driver" -> IF service = "Terminated" THEN "watchdog" ELSE "service"
      [] t = "service" -> "watchdog"
      [] t = "watchdog" -> "driver"

\* The first loop of task_preempt_demo.
DriverTurn ==
    /\ turn = "driver"
    /\ driverTurns' = IF PreemptionArmed THEN ArmAfter ELSE driverTurns + 1
    /\ turn' = NextTurn(turn)
    /\ UNCHANGED <<service, incarnation, starts, restarts, watchdog, observed>>

\* task_fragile_service up to its first yield, and after it: the first
\* MAX_RESTARTS incarnations fault, the next one serves for ever.
ServiceTurn ==
    /\ turn = "service" /\ turn' = "watchdog"
    /\ \/ /\ service = "fresh" /\ service' = "started"
          /\ incarnation' = starts /\ starts' = starts + 1
       \/ /\ service \in {"started", "stable"}
          /\ service' = IF incarnation < MAX_RESTARTS THEN "Terminated" ELSE "stable"
          /\ UNCHANGED <<incarnation, starts>>
    /\ UNCHANGED <<restarts, watchdog, observed, driverTurns>>

\* One round of task_watchdog, first: the state of the service, read under the
\* lock.
WatchdogCheck ==
    /\ turn = "watchdog" /\ watchdog = "watching" /\ observed = "nothing"
    /\ observed' = IF service = "Terminated" THEN "terminated" ELSE "alive"
    /\ UNCHANGED <<turn, service, incarnation, starts, restarts, watchdog, driverTurns>>

Restart ==
    /\ observed = "terminated" /\ restarts < MAX_RESTARTS
    /\ service' = "fresh" /\ restarts' = restarts + 1
    /\ UNCHANGED watchdog

GiveUp ==
    /\ observed = "terminated" /\ restarts >= MAX_RESTARTS
    /\ watchdog' = "gaveUp"
    /\ UNCHANGED <<service, restarts>>

\* Mutant: off by one, the last crashing incarnation counts as stable.
HasRecoveredEarly == observed = "alive" /\ starts >= MAX_RESTARTS

HasRecovered == observed = "alive" /\ starts > MAX_RESTARTS

DeclareRecovered ==
    /\ HasRecovered
    /\ watchdog' = "recovered"
    /\ UNCHANGED <<service, restarts>>

StillStarting ==
    /\ observed = "alive" /\ ~HasRecovered
    /\ UNCHANGED <<service, restarts, watchdog>>

\* Then, with the lock taken anew: what follows from what was read.
WatchdogActs ==
    /\ turn = "watchdog" /\ turn' = "driver"
    /\ observed # "nothing" /\ observed' = "nothing"
    /\ Restart \/ GiveUp \/ DeclareRecovered \/ StillStarting
    /\ UNCHANGED <<incarnation, starts, driverTurns>>

\* The watchdog exits once it has given a verdict: its turns pass.
WatchdogGone ==
    /\ turn = "watchdog" /\ watchdog # "watching" /\ turn' = "driver"
    /\ UNCHANGED <<service, incarnation, starts, restarts, watchdog, observed, driverTurns>>

\* Once preemption is armed a tick takes the processor from any of the three,
\* from the watchdog also between its check and its restart.
Tick ==
    /\ PreemptionArmed
    /\ turn' = NextTurn(turn)
    /\ UNCHANGED <<service, incarnation, starts, restarts, watchdog, observed, driverTurns>>

WatchdogNext ==
    DriverTurn \/ ServiceTurn \/ WatchdogCheck \/ WatchdogActs \/ WatchdogGone \/ Tick

-----------------------------------------------------------------------------

\* The watchdog never gives up on the service; what it acts on is still so when it
\* acts, since it is done by the time preemption is armed; and when it declares
\* recovery the incarnation that runs is the one that never faults, after as many
\* restarts as there were crashes.
WatchdogRecovers ==
    /\ watchdog # "gaveUp"
    /\ observed # "nothing" => (observed = "terminated" <=> service = "Terminated")
    /\ watchdog = "recovered" =>
          service \in {"started", "stable"} /\ incarnation = MAX_RESTARTS
          /\ restarts = MAX_RESTARTS
    /\ PreemptionArmed => watchdog = "recovered"

=============================================================================

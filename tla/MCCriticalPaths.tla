--------------------------- MODULE MCCriticalPaths ---------------------------
(***************************************************************************)
(* Model checking of what the timer may and may not interrupt: the tasks   *)
(* of the preemption demonstrations, instruction by instruction, and the   *)
(* cascade of a revocation, which keeps the scheduler's lock to its end.   *)
(* In each behaviour one of the two is observed.                           *)
(***************************************************************************)
EXTENDS Preemption, RevocationFixpoint

VARIABLE focus  \* which of the two is observed

MCvars == <<preemptVars, vars, focus>>

\* The tables vary for the cascade only.
MCInit ==
    /\ focus \in {"preemption", "revocation"}
    /\ PreemptInit /\ Init
    /\ focus = "revocation" \/ \A c \in Cells : table[c] = NoCap

MCNext ==
    /\ \/ focus = "preemption" /\ PreemptNext /\ UNCHANGED vars
       \/ focus = "revocation" /\ Next /\ UNCHANGED preemptVars
    /\ UNCHANGED focus

\* The fairness of PreemptFairSpec and FairSpec.
MCSpec ==
    /\ MCInit /\ [][MCNext]_MCvars
    /\ WF_preemptVars(focus = "preemption" /\ Tick)
    /\ \A t \in Tasks : SF_preemptVars(focus = "preemption" /\ current = t /\ TaskStep)
    /\ WF_vars(focus = "revocation" /\ (Visit \/ NextPass \/ Finish))
=============================================================================

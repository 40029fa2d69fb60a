------------------------- MODULE RevocationFixpoint -------------------------
(***************************************************************************)
(* SYS_CAP_REVOKE as the kernel computes it under the scheduler lock:      *)
(* kernel_revoke of one slot, then the passes of propagate_revocation over *)
(* every table, with the fixed array REVOKED_IDS as its set of ids         *)
(* (kernel/syscall/mod.rs).  A step is the visit of one cell.              *)
(*                                                                         *)
(* It implements Revocation: between the passes nobody else runs, so other *)
(* tasks see the tables as they were before until the last pass is over.   *)
(***************************************************************************)
EXTENDS Lineage, Sequences, FiniteSets

VARIABLES
    table,    \* the capability tables
    before,   \* the tables when the call took the lock
    running,  \* the call holds the lock
    revoked,  \* REVOKED_IDS[..count]
    pos,      \* the cell that the present pass visits next
    changed   \* this pass has revoked something

vars == <<table, before, running, revoked, pos, changed>>

R == INSTANCE Revocation WITH table <- IF running THEN before ELSE table

\* Room for every cell and for the root, which is in none any more.
REVOKED_IDS_CAP == NCells + 1

IsRevoked(i) == \E n \in 1 .. Len(revoked) : revoked[n] = i

Init ==
    /\ table \in Tables /\ WellFormed(table)
    /\ before = table
    /\ running = FALSE
    /\ revoked = << >> /\ pos = 0 /\ changed = FALSE

\* kernel_revoke removed the capability in cell c; its id seeds the set.
Begin(c) ==
    /\ ~running /\ table[c] # NoCap
    /\ running' = TRUE
    /\ before' = table
    /\ table' = [table EXCEPT ![c] = NoCap]
    /\ revoked' = <<table[c].id>>
    /\ pos' = 0 /\ changed' = FALSE

\* Mutant: the id is recorded and the capability stays in its slot.
VisitWithoutRemoval ==
    /\ running /\ pos < NCells
    /\ IF /\ table[pos] # NoCap /\ table[pos].origin # 0
          /\ IsRevoked(table[pos].origin) /\ Len(revoked) < REVOKED_IDS_CAP
       THEN /\ revoked' = Append(revoked, table[pos].id)
            /\ changed' = TRUE
       ELSE UNCHANGED <<revoked, changed>>
    /\ pos' = pos + 1
    /\ UNCHANGED <<table, before, running>>

\* The body of the inner loop.
Visit ==
    /\ running /\ pos < NCells
    /\ IF /\ table[pos] # NoCap /\ table[pos].origin # 0
          /\ IsRevoked(table[pos].origin) /\ Len(revoked) < REVOKED_IDS_CAP
       THEN /\ table' = [table EXCEPT ![pos] = NoCap]
            /\ revoked' = Append(revoked, table[pos].id)
            /\ changed' = TRUE
       ELSE UNCHANGED <<table, revoked, changed>>
    /\ pos' = pos + 1
    /\ UNCHANGED <<before, running>>

\* Mutant: changed is declared outside the loop and never reset.
NextPassWithoutReset ==
    /\ running /\ pos = NCells /\ changed
    /\ pos' = 0
    /\ UNCHANGED <<table, before, running, revoked, changed>>

NextPass ==
    /\ running /\ pos = NCells /\ changed
    /\ pos' = 0 /\ changed' = FALSE
    /\ UNCHANGED <<table, before, running, revoked>>

\* Mutant: one pass, whether or not it changed anything.
FinishAfterOnePass ==
    /\ running /\ pos = NCells
    /\ running' = FALSE
    /\ UNCHANGED <<table, before, revoked, pos, changed>>

Finish ==
    /\ running /\ pos = NCells /\ ~changed
    /\ running' = FALSE
    /\ UNCHANGED <<table, before, revoked, pos, changed>>

Next == (\E c \in Cells : Begin(c)) \/ Visit \/ NextPass \/ Finish

Spec == Init /\ [][Next]_vars

\* The call runs to its end: it neither blocks nor yields.
FairSpec == Spec /\ WF_vars(Visit \/ NextPass \/ Finish)

-----------------------------------------------------------------------------
(* Properties *)

\* Type invariant: the tables, the cursor and REVOKED_IDS have their types.
TypeOK ==
    /\ table \in Tables /\ before \in Tables
    /\ running \in BOOLEAN /\ changed \in BOOLEAN
    /\ revoked \in Seq(Ids) /\ Len(revoked) <= REVOKED_IDS_CAP
    /\ pos \in 0 .. NCells

\* "the cascade is never truncated": each cell is revoked at most once over all
\* passes, so a visit never meets a full REVOKED_IDS and never skips a derived
\* capability for lack of room (propagate_revocation's count < revoked.len()).
NeverTruncated == Len(revoked) < REVOKED_IDS_CAP

\* The passes compute exactly the transitive revocation, whatever the order in
\* which parents and children lie in the tables: to everybody outside the lock
\* the call is the one atomic step of Revocation.
Implements == R!Spec

\* Liveness: the passes reach a fixpoint and the lock is released.
CascadeEnds == running ~> ~running

-----------------------------------------------------------------------------
(* The inductive strengthening behind the theorems on propagate_revocation *)

Removed(c) == {d \in Cells : d # c /\ before[d] # NoCap /\ table[d] = NoCap}

\* A call that removed the capability in cell c, some way into its passes: what
\* is gone was rightly removed and has its id in REVOKED_IDS, every id there
\* descends from the root, and a pass that changed nothing yet has nothing left
\* to remove behind it.
Cascade(c) ==
    /\ before[c] # NoCap /\ table[c] = NoCap /\ IsRevoked(before[c].id)
    /\ \A d \in Cells : table[d] = before[d] \/ table[d] = NoCap
    /\ \A d \in Removed(c) : IsRevoked(before[d].origin) /\ IsRevoked(before[d].id)
    /\ \A S \in SUBSET Ids :
           before[c].id \in S /\ ClosedUnderLineage(before, S) =>
               \A n \in 1 .. Len(revoked) : revoked[n] \in S
    /\ Len(revoked) = 1 + Cardinality(Removed(c))
    /\ ~changed => \A d \in 0 .. (pos - 1) : table[d] # NoCap => ~IsRevoked(table[d].origin)

IndInv == TypeOK /\ NeverTruncated /\ (running => \E c \in Cells : Cascade(c))
=============================================================================

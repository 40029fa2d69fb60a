----------------------------- MODULE Revocation -----------------------------
(***************************************************************************)
(* What SYS_CAP_REVOKE promises, seen from outside the scheduler lock: in  *)
(* one step a capability and everything derived from it, through any       *)
(* number of grants, leave the capability tables, and nothing else does.   *)
(***************************************************************************)
EXTENDS Lineage

VARIABLE table  \* the capability tables of all tasks

Init == table \in Tables /\ WellFormed(table)

Revoke(c) ==
    /\ table[c] # NoCap
    /\ table' = Wiped(table, c, RevokedIds(table, table[c].id))

Next == \E c \in Cells : Revoke(c)

Spec == Init /\ [][Next]_table
=============================================================================

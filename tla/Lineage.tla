------------------------------ MODULE Lineage ------------------------------
(***************************************************************************)
(* Capability lineage: which capabilities derive from which.  The tables   *)
(* of all tasks are one array of cells, in the order in which              *)
(* propagate_revocation (kernel/syscall/mod.rs) scans them.                *)
(***************************************************************************)
EXTENDS Integers

CONSTANTS
    NCells,  \* MAX_TASKS * MAX_CAPS
    MaxId,   \* the largest capability id
    NoCap    \* an empty cell

Cells == 0 .. (NCells - 1)
Ids == 1 .. MaxId
Cap == [id : Ids, origin : Ids \cup {0}]
Tables == [Cells -> Cap \cup {NoCap}]

ASSUME RevocationConstants ==
    NCells \in Nat \ {0} /\ MaxId \in Nat /\ NoCap \notin Cap

\* Tables that CapSystem reaches (IdNamesOneCapability, NoAmplification): ids
\* grow along a lineage and only root capabilities share one.
WellFormed(tab) ==
    /\ \A c \in Cells : tab[c] # NoCap => tab[c].origin < tab[c].id
    /\ \A c, d \in Cells :
           c # d /\ tab[c] # NoCap /\ tab[d] # NoCap /\ tab[c].id = tab[d].id =>
               tab[c].origin = 0 /\ tab[d].origin = 0

\* S has the id of every capability in tab that derives from a member of S.
ClosedUnderLineage(tab, S) ==
    \A c \in Cells : tab[c] # NoCap /\ tab[c].origin \in S => tab[c].id \in S

\* The least closed set with root in it.
RevokedIds(tab, root) ==
    {i \in Ids : \A S \in SUBSET Ids : root \in S /\ ClosedUnderLineage(tab, S) => i \in S}

\* tab without cell c and without what derives from the ids in gone.
Wiped(tab, c, gone) ==
    [d \in Cells |->
        IF d = c \/ (tab[d] # NoCap /\ tab[d].origin \in gone) THEN NoCap ELSE tab[d]]
=============================================================================

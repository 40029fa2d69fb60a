---------------------------- MODULE ServiceCaps ----------------------------
(***************************************************************************)
(* The capability tables as the services of kernel/shell/mod.rs read them: *)
(* whether the sender of a request holds a capability for the resource it  *)
(* names, and how the shell passes such capabilities on or drops them.     *)
(*                                                                         *)
(* A client sends a request and waits for the reply, and a service serves  *)
(* one request at a time, so a request, its handling and its reply are one *)
(* step.  In the present builds the shell is the only task with channels   *)
(* to the services; the services themselves serve any task, and so do the  *)
(* modules that extend this one.                                           *)
(***************************************************************************)
EXTENDS Integers, Sequences, FiniteSets, FiniteSetsExt

CONSTANTS
    Clients,   \* tasks that send requests
    Shell,     \* task 64
    MAX_CAPS,  \* slots of a table
    MaxHeld,   \* bound on the capabilities in all tables
    None       \* an empty slot

ASSUME CapConstants == Shell \in Clients /\ MAX_CAPS \in Nat \ {0} /\ MaxHeld \in Nat

VARIABLE caps  \* the tables

CapSlots == 1 .. MAX_CAPS

\* res: the resource; the flags of the resource and of the capability agree in
\* every capability the program makes.
Cap(res, read, write) == [res |-> res, read |-> read, write |-> write]

SlotsFor(c, res) == {s \in CapSlots : caps[c][s] # None /\ caps[c][s].res = res}

MayRead(c, res) == \E s \in SlotsFor(c, res) : caps[c][s].read

MayWrite(c, res) == \E s \in SlotsFor(c, res) : caps[c][s].write

FreeSlots(c) == {s \in CapSlots : caps[c][s] = None}

\* The bound on grants: so many capabilities in all tables.
MayGrant == Cardinality({p \in Clients \X CapSlots : caps[p[1]][p[2]] # None}) < MaxHeld

\* insert(...).unwrap(): the commands stop the kernel if the table is full.
InsertCap(c, cap) ==
    /\ FreeSlots(c) # {} /\ MayGrant
    /\ caps' = [caps EXCEPT ![c][Min(FreeSlots(c))] = cap]

\* The shell's first capability for the resource is the donor.
Donor(res) == caps[Shell][Min(SlotsFor(Shell, res))]

\* ... and the one that a revoke command empties.
RevokeFirst(res) ==
    /\ SlotsFor(Shell, res) # {}
    /\ caps' = [caps EXCEPT ![Shell][Min(SlotsFor(Shell, res))] = None]

\* cap revoke names a slot.
RevokeSlot(s) ==
    /\ caps[Shell][s] # None
    /\ caps' = [caps EXCEPT ![Shell][s] = None]

\* root_caps: the shell's capabilities at the start, its channels left out.
RootCaps ==
    << Cap(<<"kv", 0>>, TRUE, TRUE), Cap(<<"kv", 1>>, TRUE, FALSE), Cap(<<"kv", 2>>, FALSE, TRUE),
       Cap(<<"log", 0>>, TRUE, TRUE), Cap(<<"log", 1>>, TRUE, FALSE),
       Cap(<<"fs", 0>>, TRUE, TRUE),
       Cap(<<"dev", 0>>, TRUE, TRUE), Cap(<<"dev", 1>>, TRUE, TRUE) >>

CapsInit ==
    caps = [c \in Clients |->
               [s \in CapSlots |-> IF c = Shell /\ s <= Len(RootCaps) THEN RootCaps[s] ELSE None]]

=============================================================================

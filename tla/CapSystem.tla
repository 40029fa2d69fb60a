----------------------------- MODULE CapSystem -----------------------------
(***************************************************************************)
(* Capability tables, delegation and revocation: kernel/process/           *)
(* capability.rs, the SYS_CAP_GRANT, SYS_CAP_REVOKE and SYS_SPAWN_TASK     *)
(* requests of kernel/syscall/mod.rs, and the commands of the shell that   *)
(* change capability tables directly.                                      *)
(*                                                                         *)
(* SHELL_MODE selects one of two systems at build time: the shell and the *)
(* kernel tasks it starts, or init and the ring-3 tasks it spawns.  A      *)
(* ring-3 task enters the kernel with interrupts off, so each request is   *)
(* one step although dispatch_cap_grant takes the scheduler lock twice.    *)
(* The shell's commands that delegate are two critical sections, between   *)
(* which other tasks run.                                                  *)
(*                                                                         *)
(* Left to other modules: tables that a snapshot or a migration puts back, *)
(* and the reply channels with fixed ids of the services.                  *)
(***************************************************************************)
EXTENDS Integers, FiniteSets

CONSTANTS
    SHELL_MODE,   \* the build with the shell, not the one with init
    MAX_TASKS,    \* number of task slots
    MAX_CAPS,     \* slots of a capability table
    InitTask,     \* the task that may spawn (task 1)
    FirstSpawn,   \* lowest slot SYS_SPAWN_TASK considers (2)
    Shell,        \* the shell's task (64)
    GrantSink,    \* the task that the shell's cap grant creates (66)
    SyncService,  \* the synchronization service (86)
    Masks,        \* the rights that grant requests ask for
    Objects,      \* resources other than channels: Serial, Service, ...
    KvEntries,    \* those of them that are KVEntry
    LogChannels,  \* those of them that are LogChannel
    SyncObjects,  \* those of them that are SyncObj
    BootTasks,    \* tasks present at boot
    BootTable,    \* their capability tables
    BootNextId,   \* NEXT_CAP_ID once these tables are filled
    MaxId,        \* bound: NEXT_CAP_ID stays at or below it
    NoCap         \* None, for a capability

Tasks == 0 .. (MAX_TASKS - 1)
Slots == 0 .. (MAX_CAPS - 1)

\* A task number as a resource stands for IpcChannel to that task.
Resource == Tasks \cup Objects

\* The resources that kv grant and log grant delegate.
Entries == KvEntries \cup LogChannels

RightsMask == [read : BOOLEAN, write : BOOLEAN, grant : BOOLEAN]

\* origin 0 is None: 0 is the id of no installed capability.
Capability ==
    [res : Resource, read : BOOLEAN, write : BOOLEAN, grant : BOOLEAN,
     sealed : BOOLEAN, id : 1 .. MaxId, origin : 0 .. MaxId]

CapTable == [Slots -> Capability \cup {NoCap}]

\* The boot tables hold root capabilities with distinct ids below BootNextId;
\* a task that is not there has no table.
ASSUME CapConstants ==
    /\ SHELL_MODE \in BOOLEAN
    /\ MAX_TASKS \in Nat \ {0} /\ MAX_CAPS \in Nat \ {0, 1}
    /\ InitTask \in Tasks /\ Shell \in Tasks /\ GrantSink \in Tasks /\ FirstSpawn \in Tasks
    /\ SyncService \in Tasks
    /\ GrantSink # Shell
    /\ MaxId \in Nat /\ BootNextId \in 1 .. MaxId
    /\ Entries \subseteq Objects /\ SyncObjects \subseteq Objects
    /\ KvEntries \cap LogChannels = {}
    /\ NoCap \notin Capability /\ Masks \subseteq RightsMask
    /\ BootTasks \subseteq Tasks /\ (SHELL_MODE => Shell \in BootTasks)
    /\ BootTable \in [Tasks -> CapTable]

ASSUME BootTablesAssumption ==
    /\ \A t \in Tasks, s \in Slots :
           BootTable[t][s] # NoCap =>
               /\ t \in BootTasks
               /\ BootTable[t][s].id < BootNextId
               /\ BootTable[t][s].origin = 0
    /\ \A t, u \in Tasks, r, s \in Slots :
           /\ BootTable[t][r] # NoCap /\ BootTable[u][s] # NoCap
           /\ BootTable[t][r].id = BootTable[u][s].id
           => t = u /\ r = s

VARIABLES
    present,  \* tasks whose slot holds a Task
    dead,     \* those of them that are Terminated
    caps,     \* Task::cap_table, empty for an empty slot
    nextId,   \* NEXT_CAP_ID
    donor,    \* the shell's copy of the capability its command delegates
    command,  \* that command: "cap" grant, or "entry" for kv grant and log grant
    minted,   \* every capability ever installed, as it was installed
    revoked,  \* ids that SYS_CAP_REVOKE removed, directly or by propagation
    built     \* ids of capabilities that kv grant and log grant built

vars == <<present, dead, caps, nextId, donor, command, minted, revoked, built>>

-----------------------------------------------------------------------------
(* capability.rs *)

Holds(t, s) == caps[t][s] # NoCap

\* A capability the kernel mints: insert stamps the id.
Root(res, grant, id) ==
    [res |-> res, read |-> TRUE, write |-> TRUE, grant |-> grant,
     sealed |-> FALSE, id |-> id, origin |-> 0]

\* Mutant: the rights are those of the request instead of the common ones.
AttenuateToRequest(cap, mask, id) ==
    [res |-> cap.res, read |-> mask.read, write |-> mask.write, grant |-> mask.grant,
     sealed |-> FALSE, id |-> id, origin |-> cap.id]

\* attenuate, with the id and the lineage its callers stamp.
Attenuate(cap, mask, id) ==
    [res |-> cap.res,
     read |-> cap.read /\ mask.read,
     write |-> cap.write /\ mask.write,
     grant |-> cap.grant /\ mask.grant,
     sealed |-> FALSE, id |-> id, origin |-> cap.id]

IsFirstFree(table, s) ==
    table[s] = NoCap /\ \A r \in Slots : r < s => table[r] # NoCap

Full(table) == \A s \in Slots : table[s] # NoCap

\* Mutant: NEXT_CAP_ID is read and not advanced.
InsertWithoutAdvance(u, cap) ==
    /\ \/ \E s \in Slots :
              /\ IsFirstFree(caps[u], s)
              /\ caps' = [caps EXCEPT ![u][s] = cap]
              /\ minted' = minted \cup {cap}
       \/ Full(caps[u]) /\ UNCHANGED <<caps, minted>>
    /\ UNCHANGED nextId

\* insert of cap into the table of u: the id is spent even when it is full.
Insert(u, cap) ==
    /\ \/ \E s \in Slots :
              /\ IsFirstFree(caps[u], s)
              /\ caps' = [caps EXCEPT ![u][s] = cap]
              /\ minted' = minted \cup {cap}
       \/ Full(caps[u]) /\ UNCHANGED <<caps, minted>>
    /\ nextId' = nextId + 1

-----------------------------------------------------------------------------
(* Requests of ring-3 tasks *)

Ring3(t) == ~SHELL_MODE /\ t \in present \ dead

\* SYS_CAP_GRANT; every other outcome of the request changes nothing.
CapGrant(t, s, u, mask) ==
    /\ Ring3(t) /\ u \in present
    /\ Holds(t, s) /\ caps[t][s].grant
    /\ nextId < MaxId
    /\ Insert(u, Attenuate(caps[t][s], mask, nextId))
    /\ UNCHANGED <<present, dead, donor, command, revoked, built>>

\* S has every held capability that derives from a member of S.
ClosedUnderLineage(S) ==
    \A t \in Tasks, s \in Slots :
        Holds(t, s) /\ caps[t][s].origin \in S => caps[t][s].id \in S

HeldIds == {i \in 1 .. MaxId : \E t \in Tasks, s \in Slots : Holds(t, s) /\ caps[t][s].id = i}

\* What propagate_revocation collects in REVOKED_IDS: the least set with root
\* that is closed (RevocationFixpoint has the passes that compute it).
RevokedIds(root) ==
    LET closed == {S \in SUBSET HeldIds : root \in S /\ ClosedUnderLineage(S)}
    IN  {i \in HeldIds : \A S \in closed : i \in S}

\* current_has_grant_cap_to
HasGrantCapTo(t, u) ==
    \E s \in Slots : Holds(t, s) /\ caps[t][s].grant /\ caps[t][s].res = u

\* Mutant: only what derives from the slot's own capability goes, one level deep.
WipedOneLevel(u, s, gone) ==
    [v \in Tasks |-> [r \in Slots |->
        IF (v = u /\ r = s) \/ (Holds(v, r) /\ caps[v][r].origin = caps[u][s].id)
        THEN NoCap ELSE caps[v][r]]]

\* The tables without slot s of u and without what derives from the ids in gone.
Wiped(u, s, gone) ==
    [v \in Tasks |-> [r \in Slots |->
        IF (v = u /\ r = s) \/ (Holds(v, r) /\ caps[v][r].origin \in gone)
        THEN NoCap ELSE caps[v][r]]]

\* SYS_CAP_REVOKE: kernel_revoke of slot s of u, then propagate_revocation.
CapRevoke(t, u, s) ==
    /\ Ring3(t) /\ u \in present
    /\ HasGrantCapTo(t, u)
    /\ Holds(u, s)
    /\ \E gone \in {RevokedIds(caps[u][s].id)} :
           caps' = Wiped(u, s, gone) /\ revoked' = revoked \cup gone
    /\ UNCHANGED <<present, dead, nextId, donor, command, minted, built>>

\* SYS_SPAWN_TASK: a task in the first free slot, its channel in init's table;
\* with that table full the task is taken back.
SpawnTask(u) ==
    /\ Ring3(InitTask)
    /\ u \in FirstSpawn .. (MAX_TASKS - 1) /\ u \notin present
    /\ \A v \in FirstSpawn .. (u - 1) : v \in present
    /\ nextId < MaxId
    /\ Insert(InitTask, Root(u, TRUE, nextId))
    /\ present' = IF Full(caps[InitTask]) THEN present ELSE present \cup {u}
    /\ UNCHANGED <<dead, donor, command, revoked, built>>

\* terminate_current_task leaves the capability table where it is.
Terminate(t) ==
    /\ t \in present \ dead
    /\ SHELL_MODE => t # Shell
    /\ dead' = dead \cup {t}
    /\ UNCHANGED <<present, caps, nextId, donor, command, minted, revoked, built>>

-----------------------------------------------------------------------------
(* Commands of the shell *)

\* Mutant: a command is read before the one before it has finished.
AtAnyTime == SHELL_MODE

\* shell_main reads the next command when dispatch has returned.
AtPrompt == SHELL_MODE /\ donor = NoCap

\* cap grant, first half: the donor is copied out and attenuate accepts it.
ShellGrantRead(s) ==
    /\ AtPrompt
    /\ Holds(Shell, s) /\ caps[Shell][s].grant
    /\ nextId < MaxId
    /\ donor' = caps[Shell][s]
    /\ command' = "cap"
    /\ UNCHANGED <<present, dead, caps, nextId, minted, revoked, built>>

ReadWrite == [read |-> TRUE, write |-> TRUE, grant |-> FALSE]

\* cap grant, second half: a new task with only the derived capability.
ShellGrantInstall ==
    /\ donor # NoCap /\ command = "cap"
    /\ nextId < MaxId
    /\ LET cap == Attenuate(donor, ReadWrite, nextId)
       IN  /\ caps' = [caps EXCEPT ![GrantSink] =
                          [s \in Slots |-> IF s = 0 THEN cap ELSE NoCap]]
           /\ minted' = minted \cup {cap}
    /\ nextId' = nextId + 1
    /\ present' = present \cup {GrantSink}
    /\ dead' = dead \ {GrantSink}
    /\ donor' = NoCap
    /\ UNCHANGED <<command, revoked, built>>

\* kv grant and log grant, first half: the donor is the first capability of the
\* shell for the entry; its grant right is not looked at.
ShellEntryRead(s) ==
    /\ AtPrompt
    /\ Holds(Shell, s) /\ caps[Shell][s].res \in Entries
    /\ \A r \in Slots :
           r < s /\ Holds(Shell, r) => caps[Shell][r].res # caps[Shell][s].res
    /\ nextId < MaxId
    /\ donor' = caps[Shell][s]
    /\ command' = "entry"
    /\ UNCHANGED <<present, dead, caps, nextId, minted, revoked, built>>

\* Mutant: log grant gives the rights that were asked for.
EntryCapAsAsked(cap, mask, id) ==
    [res |-> cap.res, read |-> mask.read, write |-> mask.write,
     grant |-> FALSE, sealed |-> FALSE, id |-> id, origin |-> cap.id]

\* What the second half builds: read-only for a KVEntry, whatever the donor may
\* do; the common rights for a LogChannel.
EntryCap(cap, mask, id) ==
    [res |-> cap.res,
     read |-> cap.res \in KvEntries \/ (cap.read /\ mask.read),
     write |-> cap.res \in LogChannels /\ cap.write /\ mask.write,
     grant |-> FALSE, sealed |-> FALSE, id |-> id, origin |-> cap.id]

\* kv grant and log grant, second half: insert into the table of u, a new task
\* if the slot is empty.  With that table full the kernel panics: no step.
ShellEntryInstall(u, mask) ==
    /\ donor # NoCap /\ command = "entry"
    /\ nextId < MaxId
    /\ ~Full(caps[u])
    /\ Insert(u, EntryCap(donor, mask, nextId))
    /\ built' = built \cup {nextId}
    /\ present' = present \cup {u}
    /\ donor' = NoCap /\ command' = "cap"
    /\ UNCHANGED <<dead, revoked>>

\* cap revoke, kv revoke, log revoke: kernel_revoke and nothing more.
ShellRevoke(s) ==
    /\ AtPrompt
    /\ Holds(Shell, s)
    /\ caps' = [caps EXCEPT ![Shell][s] = NoCap]
    /\ UNCHANGED <<present, dead, nextId, donor, command, minted, revoked, built>>

\* cap seal: the slot is sealed, and the remove that follows fails for it.
ShellSeal(s) ==
    /\ AtPrompt
    /\ Holds(Shell, s)
    /\ caps' = [caps EXCEPT ![Shell][s].sealed = TRUE]
    /\ UNCHANGED <<present, dead, nextId, donor, command, minted, revoked, built>>

\* sync create: the shell gets a capability for the new object.
ShellMint(res) ==
    /\ AtPrompt
    /\ nextId < MaxId
    /\ Insert(Shell, Root(res, TRUE, nextId))
    /\ UNCHANGED <<present, dead, donor, command, revoked, built>>

\* The start of a service in an empty slot, with a channel to the shell.
ShellSpawnService(u) ==
    /\ AtPrompt
    /\ u \notin present
    /\ nextId < MaxId
    /\ Insert(u, Root(Shell, FALSE, nextId))
    /\ present' = present \cup {u}
    /\ UNCHANGED <<dead, donor, command, revoked, built>>

\* sync demo, and bench contend with two tasks: both get copies of one table,
\* an object and the channel to its service.
ShellSpawnCopies(u, v, res) ==
    /\ AtPrompt
    /\ u # v /\ Shell \notin {u, v}
    /\ nextId + 1 < MaxId
    /\ LET object == Root(res, FALSE, nextId)
           channel == Root(SyncService, FALSE, nextId + 1)
           table == [s \in Slots |-> CASE s = 0 -> object [] s = 1 -> channel [] OTHER -> NoCap]
       IN  /\ caps' = [caps EXCEPT ![u] = table, ![v] = table]
           /\ minted' = minted \cup {object, channel}
    /\ nextId' = nextId + 2
    /\ present' = present \cup {u, v}
    /\ dead' = dead \ {u, v}
    /\ UNCHANGED <<donor, command, revoked, built>>

\* Slot clearing by service restart, migrate and the stress commands.
ShellClearSlot(u) ==
    /\ AtPrompt
    /\ u \in present \ {Shell}
    /\ present' = present \ {u}
    /\ dead' = dead \ {u}
    /\ caps' = [caps EXCEPT ![u] = [s \in Slots |-> NoCap]]
    /\ UNCHANGED <<nextId, donor, command, minted, revoked, built>>

-----------------------------------------------------------------------------
Init ==
    /\ present = BootTasks /\ dead = {}
    /\ caps = BootTable
    /\ nextId = BootNextId
    /\ donor = NoCap
    /\ minted = {BootTable[t][s] : t \in Tasks, s \in Slots} \ {NoCap}
    /\ command = "cap"
    /\ revoked = {} /\ built = {}

Next ==
    \/ \E t, u \in Tasks, s \in Slots, mask \in Masks : CapGrant(t, s, u, mask)
    \/ \E t, u \in Tasks, s \in Slots : CapRevoke(t, u, s)
    \/ \E t \in Tasks : SpawnTask(t) \/ Terminate(t) \/ ShellSpawnService(t) \/ ShellClearSlot(t)
    \/ \E s \in Slots :
           ShellGrantRead(s) \/ ShellEntryRead(s) \/ ShellRevoke(s) \/ ShellSeal(s)
    \/ ShellGrantInstall
    \/ \E u \in Tasks, mask \in Masks : ShellEntryInstall(u, mask)
    \/ \E res \in SyncObjects : ShellMint(res)
    \/ \E u, v \in Tasks, res \in SyncObjects : ShellSpawnCopies(u, v, res)

Spec == Init /\ [][Next]_vars

-----------------------------------------------------------------------------
(* Properties *)

\* Type invariant: tables, ids and the shell's copy have their types, an empty
\* task slot has an empty table, and the shell of its build is there.
TypeOK ==
    /\ present \subseteq Tasks /\ dead \subseteq present /\ (SHELL_MODE => Shell \in present \ dead)
    /\ caps \in [Tasks -> CapTable]
    /\ \A t \in Tasks \ present, s \in Slots : ~Holds(t, s)
    /\ nextId \in 1 .. MaxId
    /\ donor \in Capability \cup {NoCap} /\ command \in {"cap", "entry"}
    /\ minted \subseteq Capability
    /\ revoked \subseteq 1 .. MaxId /\ built \subseteq 1 .. MaxId

\* An id stands for one capability wherever it is held: slots with the same id
\* hold the same authority and lineage, and a capability that can be delegated
\* or was derived is held in one slot only.  Propagation by id relies on it
\* ("Capability IDs are globally unique", ARCHITECTURE.md 74, but for the copies
\* that the shell makes: insert and next_cap_id against sync demo and bench contend).
IdNamesOneCapability ==
    \A t, u \in Tasks, r, s \in Slots :
        Holds(t, r) /\ Holds(u, s) /\ caps[t][r].id = caps[u][s].id =>
            \/ t = u /\ r = s
            \/ /\ caps[t][r].res = caps[u][s].res
               /\ ~caps[t][r].grant /\ ~caps[u][s].grant
               /\ caps[t][r].origin = 0 /\ caps[u][s].origin = 0

\* Delegation never amplifies: each derived capability ever installed has its
\* parent among the installed ones, for the same resource, with the grant right
\* and with every right the child has; so authority only shrinks along a chain
\* of grants, however many holders have removed, lost or passed on their links
\* (attenuate and dispatch_cap_grant: the build without the shell).
NoAmplification ==
    \A c \in minted :
        c.origin # 0 =>
            \E p \in minted :
                /\ p.id = c.origin /\ p.id < c.id /\ p.res = c.res
                /\ p.grant /\ (c.read => p.read) /\ (c.write => p.write)

\* "Attenuated capabilities can only possess a subset of their parent rights"
\* (ARCHITECTURE.md 74), of everything that names a parent: a capability with an
\* origin has no right that the capability of that id was not installed with.
\* kv grant, which builds its child without attenuate, does not keep to it.
SubsetOfParent ==
    \A c, p \in minted :
        c.origin = p.id => (c.read => p.read) /\ (c.write => p.write) /\ (c.grant => p.grant)

\* How far the shell's own grants go: a child that cap grant derives is attenuated
\* as above; one that kv grant or log grant builds needs no grant right of its
\* parent, never has it, never writes more than its parent and never reads more,
\* but for the right to read that kv grant makes up.
OnlyKvGrantAmplifies ==
    \A c \in minted :
        c.origin # 0 =>
            \E p \in minted :
                /\ p.id = c.origin /\ p.id < c.id /\ p.res = c.res
                /\ p.grant \/ (c.id \in built /\ ~c.grant)
                /\ c.read => p.read \/ (c.id \in built /\ c.res \in KvEntries)
                /\ c.write => p.write

\* Revocation reaches everything that descends from the revoked capability
\* through held ones and stays effective: no capability in any table derives
\* from a revoked id, now or later, whoever grants what it still holds
\* (dispatch_cap_revoke and propagate_revocation against dispatch_cap_grant).
RevokedLineageIsGone ==
    \A t \in Tasks, s \in Slots : Holds(t, s) => caps[t][s].origin \notin revoked

\* The authority behind a grant is there when it takes effect: whenever a derived
\* capability is installed, the one it derives from is held, although the shell
\* reads the donor and installs the child in separate critical sections and
\* dispatch_cap_grant gives the scheduler lock up in between.
DonorHeldAtGrant ==
    [][\A c \in minted' \ minted :
           c.origin # 0 => \E t \in Tasks, s \in Slots : Holds(t, s) /\ caps[t][s].id = c.origin]_vars

-----------------------------------------------------------------------------
(* The inductive strengthening behind the theorems of CapSystemProofs *)

\* Equal in everything but the seal.
SameAuthority(a, b) ==
    /\ a.res = b.res /\ a.read = b.read /\ a.write = b.write /\ a.grant = b.grant
    /\ a.id = b.id /\ a.origin = b.origin

\* What is held was installed, ids come from NEXT_CAP_ID and are not reissued.
MintInv ==
    /\ \A t \in Tasks, s \in Slots :
           Holds(t, s) => \E m \in minted : SameAuthority(caps[t][s], m)
    /\ \A m \in minted : m.id < nextId
    /\ \A a, b \in minted : a.id = b.id => a = b
    /\ \A i \in revoked : i < nextId

\* What can still be delegated has not been revoked.
GrantableInv ==
    \A t \in Tasks, s \in Slots :
        Holds(t, s) /\ caps[t][s].grant => caps[t][s].id \notin revoked

\* The shell's copy is of a capability it holds, and the two builds differ.
ShellInv ==
    /\ donor # NoCap =>
           /\ IF command = "cap" THEN donor.grant ELSE donor.res \in Entries
           /\ \E s \in Slots : caps[Shell][s] = donor
    /\ SHELL_MODE => revoked = {}
    /\ ~SHELL_MODE => donor = NoCap /\ built = {}

IndInv ==
    /\ TypeOK /\ MintInv /\ GrantableInv /\ ShellInv
    /\ IdNamesOneCapability /\ OnlyKvGrantAmplifies /\ RevokedLineageIsGone
=============================================================================

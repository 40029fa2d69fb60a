------------------------------- MODULE Paging -------------------------------
(***************************************************************************)
(* Physical frames and user address spaces (kernel/memory/mod.rs) as       *)
(* spawn_user (kernel/userspace/mod.rs) uses them, and the check that the  *)
(* system calls make of every user pointer.  Page tables have four levels  *)
(* and Fanout entries (512 in the code), a page has PAGE_SIZE bytes (4096  *)
(* in the code); physical addresses are frame numbers.                     *)
(***************************************************************************)
EXTENDS Integers, Sequences, FiniteSets, FiniteSetsExt

CONSTANTS
    Fanout, PAGE_SIZE,
    USIZE,                 \* addresses below this one fit a usize
    CodePage, StackPage,   \* USER_CODE_VADDR and USER_STACK_VADDR, in pages
    MemoryMaps,            \* sequences of usable regions <<first, last + 1>>
    KernelFrame            \* the boot address space's root

PagesPerRoot == Fanout * Fanout * Fanout * Fanout
UserPages == 0 .. (PagesPerRoot \div 2) - 1  \* the lower half of the root's entries

USER_SPACE_UPPER_BOUND == (PagesPerRoot \div 2) * PAGE_SIZE - 1

\* The boot loader's tables are not in memory that its map calls usable.
ASSUME PagingConstants ==
    /\ Fanout \in Nat \ {0} /\ Fanout % 2 = 0 /\ PAGE_SIZE \in Nat \ {0}
    /\ USIZE \in Nat /\ USER_SPACE_UPPER_BOUND + 1 < USIZE
    /\ CodePage \in UserPages /\ StackPage \in UserPages /\ CodePage # StackPage
    /\ KernelFrame \in Nat /\ MemoryMaps \subseteq Seq(Nat \X Nat)
    /\ \A map \in MemoryMaps : \A r \in 1 .. Len(map) :
          KernelFrame \notin map[r][1] .. map[r][2] - 1

VARIABLES
    memmap,     \* the memory map of this machine
    next_free,  \* FRAME_ALLOCATOR.next_free_paddr
    usable_end, \* FRAME_ALLOCATOR.usable_end
    table,      \* frame -> its entries, for frames that are page tables
    spaces,     \* address spaces of user tasks: [cr3, code, stack]
    panicked    \* an expect of spawn_user failed

pagingVars == <<memmap, next_free, usable_end, table, spaces, panicked>>

Absent == [present |-> FALSE, writeable |-> FALSE, user |-> FALSE, frame |-> 0]
KernelEntry == [present |-> TRUE, writeable |-> TRUE, user |-> FALSE, frame |-> KernelFrame]
EmptyTable == [i \in 0 .. Fanout - 1 |-> Absent]

\* FrameAllocator::init takes a region that is larger than what it has.
LargestRegion(map) ==
    LET pick[n \in 0 .. Len(map)] ==
          IF n = 0 THEN <<0, 0>>
          ELSE IF map[n][2] - map[n][1] > pick[n - 1][2] - pick[n - 1][1]
               THEN map[n] ELSE pick[n - 1]
    IN  pick[Len(map)]

PagingInit ==
    /\ memmap \in MemoryMaps
    /\ next_free = LargestRegion(memmap)[1] /\ usable_end = LargestRegion(memmap)[2]
    /\ table = [f \in {KernelFrame} |->
                  [i \in 0 .. Fanout - 1 |-> IF i >= Fanout \div 2 THEN KernelEntry ELSE Absent]]
    /\ spaces = << >> /\ panicked = FALSE

-----------------------------------------------------------------------------
(* A memory state is what the functions below pass on: the allocator, the  *)
(* tables and whether a step has failed.                                   *)

Memory == [free |-> next_free, table |-> table, failed |-> FALSE]

NoFrame(m) == m.free + 1 > usable_end

\* allocate_frame, whose result is m.free.
Allocated(m) == IF NoFrame(m) THEN [m EXCEPT !.failed = TRUE] ELSE [m EXCEPT !.free = @ + 1]

WithTable(m, f, entries) ==
    [m EXCEPT !.table = [g \in DOMAIN m.table \cup {f} |->
                           IF g = f THEN entries ELSE m.table[g]]]

\* The entries of a page in the tables of the four levels.
pml4_idx(page) == (page \div (Fanout * Fanout * Fanout)) % Fanout
pdpt_idx(page) == (page \div (Fanout * Fanout)) % Fanout
pd_idx(page) == (page \div Fanout) % Fanout
pt_idx(page) == page % Fanout

\* What ring 3 may read and write.
UserEntry(f) == [present |-> TRUE, writeable |-> TRUE, user |-> TRUE, frame |-> f]

\* get_or_create_table_user.
GetOrCreate(m, f, i) ==
    IF m.failed THEN m
    ELSE IF m.table[f][i].present
    THEN [m EXCEPT !.table[f][i].user = TRUE]
    ELSE IF NoFrame(m) THEN Allocated(m)
    ELSE [WithTable(Allocated(m), m.free, EmptyTable) EXCEPT !.table[f][i] = UserEntry(m.free)]

\* map_page_user_into: three levels of tables, then the page's own entry.  A
\* level that fails passes the failure on.
MapPageUser(m, cr3, page, frame) ==
    LET m1 == GetOrCreate(m, cr3, pml4_idx(page))
        pdpt == m1.table[cr3][pml4_idx(page)].frame
        m2 == GetOrCreate(m1, pdpt, pdpt_idx(page))
        pd == m2.table[pdpt][pdpt_idx(page)].frame
        m3 == GetOrCreate(m2, pd, pd_idx(page))
        pt == m3.table[pd][pd_idx(page)].frame
    IN  IF m3.failed THEN m3 ELSE [m3 EXCEPT !.table[pt][pt_idx(page)] = UserEntry(frame)]

\* new_address_space: a root with the kernel's upper half.
NewAddressSpace(m) ==
    IF NoFrame(m) THEN Allocated(m)
    ELSE WithTable(Allocated(m), m.free,
                   [i \in 0 .. Fanout - 1 |->
                      IF i >= Fanout \div 2 THEN m.table[KernelFrame][i] ELSE Absent])

\* spawn_user: every expect that fails is a panic, which halts the kernel.
SpawnUser ==
    /\ ~panicked
    /\ LET cr3 == next_free
           code == next_free + 1
           stack == next_free + 2
           framed == Allocated(Allocated(NewAddressSpace(Memory)))
           coded == IF framed.failed THEN framed ELSE MapPageUser(framed, cr3, CodePage, code)
           done == IF coded.failed THEN coded ELSE MapPageUser(coded, cr3, StackPage, stack)
       IN  /\ next_free' = done.free /\ table' = done.table /\ panicked' = done.failed
           /\ spaces' = IF done.failed THEN spaces
                        ELSE Append(spaces, [cr3 |-> cr3, code |-> code, stack |-> stack])
    /\ UNCHANGED <<memmap, usable_end>>

PagingNext == SpawnUser

PagingSpec == PagingInit /\ [][PagingNext]_pagingVars

-----------------------------------------------------------------------------
(* validate_user_range.                                                    *)

\* Every level of the walk is present, accessible to ring 3, and writeable.
PageAllows(cr3, page, writeable) ==
    LET allows(e) == e.present /\ e.user /\ (writeable => e.writeable)
        pml4_entry == table[cr3][pml4_idx(page)]
        pdpt_entry == table[pml4_entry.frame][pdpt_idx(page)]
        pd_entry == table[pdpt_entry.frame][pd_idx(page)]
        pt_entry == table[pd_entry.frame][pt_idx(page)]
    IN  allows(pml4_entry) /\ allows(pdpt_entry) /\ allows(pd_entry) /\ allows(pt_entry)

\* Mutant: a range that ends with a page needs the next page too.
LastPageRoundedUp(end) == end \div PAGE_SIZE

\* The page of the last byte.
LastPage(end) == (end - 1) \div PAGE_SIZE

ValidateUserRange(cr3, start, len, writeable) ==
    \/ len = 0
    \/ LET end == start + len
       IN  /\ end < USIZE  \* checked_add
           /\ end <= USER_SPACE_UPPER_BOUND + 1
           /\ \A page \in start \div PAGE_SIZE .. LastPage(end) :
                PageAllows(cr3, page, writeable)

-----------------------------------------------------------------------------

\* The tables that the walk of a user page goes through.
TablesOf(cr3, page) ==
    LET pdpt == table[cr3][pml4_idx(page)].frame
        pd == table[pdpt][pdpt_idx(page)].frame
        pt == table[pd][pd_idx(page)].frame
    IN  {cr3, pdpt, pd, pt}

\* A system call accepts a user's buffer exactly when every byte of it lies
\* in the caller's code or stack page: a range that leaves them, reaches into
\* the kernel's half or wraps around is refused, one that ends with a page is
\* not.  And no frame is used twice: each address space has its root, its
\* pages and its tables to itself, all inside the largest usable region.
UserRangesAreOwnPages ==
    /\ \A s \in DOMAIN spaces : \A start \in 0 .. USIZE - 1, len \in 0 .. 2 * PAGE_SIZE + 1,
          writeable \in BOOLEAN :
         ValidateUserRange(spaces[s].cr3, start, len, writeable) <=>
            \A byte \in start .. start + len - 1 : byte \div PAGE_SIZE \in {CodePage, StackPage}
    /\ LET own(s) == {spaces[s].code, spaces[s].stack}
                       \cup TablesOf(spaces[s].cr3, CodePage) \cup TablesOf(spaces[s].cr3, StackPage)
           leaves == UNION {{spaces[s].code, spaces[s].stack} : s \in DOMAIN spaces}
       IN  /\ \A s, t \in DOMAIN spaces : s # t => own(s) \cap own(t) = {}
           /\ leaves \cap DOMAIN table = {}
           /\ \A f \in leaves \cup (DOMAIN table \ {KernelFrame}) :
                LargestRegion(memmap)[1] <= f /\ f < usable_end
           /\ \A r \in 1 .. Len(memmap) :
                memmap[r][2] - memmap[r][1]
                   <= LargestRegion(memmap)[2] - LargestRegion(memmap)[1]

=============================================================================

----------------------------- MODULE LogService -----------------------------
(***************************************************************************)
(* The event log of kernel/shell/mod.rs (task 83): a ring of LOG_CAPACITY  *)
(* entries that overwrites the oldest, a cursor per task, and the shell's  *)
(* commands log publish, read, grant, revoke and tail.                     *)
(*                                                                         *)
(* A task has one cursor for all kinds: a read of one kind moves it over   *)
(* the entries of the others.                                              *)
(***************************************************************************)
EXTENDS ServiceCaps

CONSTANTS
    LOG_CAPACITY,  \* entries of the ring
    Kinds,         \* kinds of events, 0 .. 15 in the source
    MaxEntries     \* bound on the entries published

ASSUME LogConstants ==
    LOG_CAPACITY \in Nat \ {0} /\ Kinds \subseteq 0 .. 15 /\ MaxEntries \in Nat

VARIABLES
    log_ring,   \* the ring
    write_pos,  \* entries written so far
    cursors,    \* of each task
    log_tail,   \* the kind that log tail reads next; None when it is not running
    tailKinds,  \* the kinds log tail found readable when it was started
    \* history
    published,  \* every entry, in order
    seen,       \* what each task was shown, in order: numbers of entries
    asked,      \* the kinds each task has read
    missed      \* entries that were overwritten before the task got to them

logVars == <<log_ring, write_pos, cursors, log_tail, tailKinds, published, seen, asked, missed>>

LogKind(k) == <<"log", k>>

LogInit ==
    /\ log_ring = [i \in 0 .. LOG_CAPACITY - 1 |-> None]
    /\ write_pos = 0
    /\ cursors = [c \in Clients |-> 0]
    /\ log_tail = None /\ tailKinds = {}
    /\ published = << >>
    /\ seen = [c \in Clients |-> << >>]
    /\ asked = [c \in Clients |-> {}]
    /\ missed = [c \in Clients |-> {}]

-----------------------------------------------------------------------------
\* An entry; no two are the same, as its number tells them apart.
Entry(c, k) == [producer |-> c, kind |-> k, n |-> write_pos]

Push(entry) ==
    /\ log_ring' = [log_ring EXCEPT ![write_pos % LOG_CAPACITY] = entry]
    /\ write_pos' = write_pos + 1

\* A request without the capability is answered 1 and changes nothing.
LogPublish(c, k) ==
    /\ write_pos < MaxEntries
    /\ MayWrite(c, LogKind(k))
    /\ Push(Entry(c, k))
    /\ published' = Append(published, Entry(c, k))
    /\ UNCHANGED <<caps, cursors, log_tail, tailKinds, seen, asked, missed>>

\* Mutant: the ring is taken to hold one entry more than it does.
OldestValidButOne == IF write_pos > LOG_CAPACITY + 1 THEN write_pos - LOG_CAPACITY - 1 ELSE 0

OldestValid == IF write_pos > LOG_CAPACITY THEN write_pos - LOG_CAPACITY ELSE 0

\* A cursor that fell behind is moved up to the oldest entry in the ring.
Cursor(c) == Max({cursors[c], OldestValid})

\* The positions of the entries of kind k from the cursor on.
Unread(c, k) ==
    {i \in Cursor(c) .. write_pos - 1 : log_ring[i % LOG_CAPACITY].kind = k}

\* Mutant: a read finds the latest entry.
NextUnreadLatest(c, k) == Max(Unread(c, k))

NextUnread(c, k) == Min(Unread(c, k))

\* LogRead of a task that may: the next entry of the kind, or "empty".
LogReadAllowed(c, k) ==
    /\ asked' = [asked EXCEPT ![c] = @ \cup {k}]
    /\ missed' = [missed EXCEPT ![c] = @ \cup (cursors[c] .. Cursor(c) - 1)]
    /\ \/ /\ Unread(c, k) # {}
          /\ cursors' = [cursors EXCEPT ![c] = NextUnread(c, k) + 1]
          /\ seen' = [seen EXCEPT ![c] = Append(@, log_ring[NextUnread(c, k) % LOG_CAPACITY].n)]
       \/ /\ Unread(c, k) = {}
          /\ cursors' = [cursors EXCEPT ![c] = write_pos]
          /\ UNCHANGED seen
    /\ UNCHANGED <<caps, log_ring, write_pos, published>>

LogRead(c, k) ==
    /\ log_tail = None \/ c # Shell
    /\ MayRead(c, LogKind(k))
    /\ LogReadAllowed(c, k)
    /\ UNCHANGED <<log_tail, tailKinds>>

\* log grant: the requested rights, as far as the donor has them.
LogGrant(k, c, read, write) ==
    /\ log_tail = None
    /\ SlotsFor(Shell, LogKind(k)) # {}
    /\ InsertCap(c, Cap(LogKind(k), Donor(LogKind(k)).read /\ read, Donor(LogKind(k)).write /\ write))
    /\ UNCHANGED logVars

LogRevoke(k) ==
    /\ log_tail = None
    /\ RevokeFirst(LogKind(k))
    /\ UNCHANGED logVars

\* log tail looks for the readable kinds once, and then again and again shows
\* for one kind after the other what a read of it returns, until q is typed.
LogTail ==
    /\ log_tail = None
    /\ tailKinds' = {k \in Kinds : MayRead(Shell, LogKind(k))}
    /\ tailKinds' # {}
    /\ log_tail' = Min(tailKinds')
    /\ UNCHANGED <<caps, log_ring, write_pos, cursors, published, seen, asked, missed>>

Later(k) == {j \in tailKinds : j > k}

TailStep ==
    /\ log_tail # None
    /\ LogReadAllowed(Shell, log_tail)
    /\ log_tail' = IF Unread(Shell, log_tail) # {} THEN log_tail
               ELSE IF Later(log_tail) # {} THEN Min(Later(log_tail)) ELSE None
    /\ UNCHANGED tailKinds

LogNext ==
    \/ \E c \in Clients, k \in Kinds : LogPublish(c, k) \/ LogRead(c, k)
    \/ \E c \in Clients, k \in Kinds, r, w \in BOOLEAN : LogGrant(k, c, r, w)
    \/ \E k \in Kinds : LogRevoke(k)
    \/ LogTail \/ TailStep

LogSpec == CapsInit /\ LogInit /\ [][LogNext]_<<caps, logVars>>

-----------------------------------------------------------------------------
(* Properties *)

(***************************************************************************)
(* A reader is shown the entries in the order of their publication, none   *)
(* twice, and none that was overwritten in the ring by a later one: what   *)
(* it gets at a position is what was published there.                      *)
(***************************************************************************)
LogReadsInOrder ==
    \A c \in Clients :
        /\ \A i, j \in 1 .. Len(seen[c]) : i < j => seen[c][i] < seen[c][j]
        /\ \A i \in 1 .. Len(seen[c]) :
              seen[c][i] < cursors[c] /\ published[seen[c][i] + 1].kind \in asked[c]

(***************************************************************************)
(* "log read: read next unread event of given kind" is what a task gets    *)
(* that reads only one kind: whatever of that kind lies before its cursor  *)
(* was shown to it or had left the ring before it asked.  (A task that     *)
(* reads two kinds loses entries of the one to the reads of the other.)    *)
(***************************************************************************)
OneKindReaderMissesNothing ==
    \A c \in Clients :
        Cardinality(asked[c]) = 1 =>
            \A p \in 0 .. cursors[c] - 1 :
                published[p + 1].kind \in asked[c] =>
                    p \in missed[c] \/ \E i \in 1 .. Len(seen[c]) : seen[c][i] = p
=============================================================================

------------------------------ MODULE Stores ------------------------------
(***************************************************************************)
(* What the key-value and the file service promise: registers that keep    *)
(* what was written last, and a map from paths to files and directories    *)
(* that holds a bounded number of them.  Any request may be denied.        *)
(***************************************************************************)
EXTENDS Integers, Sequences, FiniteSets

CONSTANTS
    KvSlots, KvValues,     \* registers and what is stored in them
    Paths, Contents,       \* names and what is stored in files
    FileLimit,             \* files and directories at most
    Empty                  \* a register before the first write

VARIABLES
    registers,  \* [KvSlots -> KvValues \cup {Empty}]
    files,      \* function from the paths that exist to [dir, data]
    answer      \* the last answer: its status, kind and data

vars == <<registers, files, answer>>

\* An answer that is a status and nothing else.
Plain(status) == <<status, "", << >> >>

Init ==
    /\ registers = [s \in KvSlots |-> Empty]
    /\ files = << >>
    /\ answer = Plain(0)

Exists(p) == p \in DOMAIN files

With(p, node) == [q \in DOMAIN files \cup {p} |-> IF q = p THEN node ELSE files[q]]

Without(p) == [q \in DOMAIN files \ {p} |-> files[q]]

HasRoomFor(p) == Exists(p) \/ Cardinality(DOMAIN files) < FileLimit

Denied == answer' = Plain(1) /\ UNCHANGED <<registers, files>>

Set(s, v) ==
    /\ registers' = [registers EXCEPT ![s] = v]
    /\ answer' = Plain(0)
    /\ UNCHANGED files

Get(s) == answer' = <<0, "value", registers[s]>> /\ UNCHANGED <<registers, files>>

Mkdir(p) ==
    /\ \/ Exists(p) /\ answer' = Plain(4) /\ UNCHANGED files
       \/ ~HasRoomFor(p) /\ answer' = Plain(3) /\ UNCHANGED files
       \/ /\ ~Exists(p) /\ HasRoomFor(p)
          /\ files' = With(p, [dir |-> TRUE, data |-> << >>])
          /\ answer' = Plain(0)
    /\ UNCHANGED registers

Write(p, d) ==
    /\ \/ Exists(p) /\ files[p].dir /\ answer' = Plain(4) /\ UNCHANGED files
       \/ ~HasRoomFor(p) /\ answer' = Plain(3) /\ UNCHANGED files
       \/ /\ HasRoomFor(p) /\ (Exists(p) => ~files[p].dir)
          /\ files' = With(p, [dir |-> FALSE, data |-> d])
          /\ answer' = Plain(0)
    /\ UNCHANGED registers

Read(p) ==
    /\ answer' = IF Exists(p) /\ ~files[p].dir THEN <<0, "value", files[p].data>> ELSE Plain(2)
    /\ UNCHANGED <<registers, files>>

\* The names directly under p; p itself need not exist.
Ls(p) ==
    /\ answer' = <<0, "names", {q \in DOMAIN files : Len(q) = Len(p) + 1 /\ SubSeq(q, 1, Len(p)) = p}>>
    /\ UNCHANGED <<registers, files>>

\* A directory goes without what is in it.
Delete(p) ==
    /\ files' = Without(p)
    /\ answer' = Plain(IF Exists(p) THEN 0 ELSE 2)
    /\ UNCHANGED registers

Stat(p) ==
    /\ answer' = IF Exists(p) THEN <<0, "stat", <<files[p].dir, Len(files[p].data)>> >>
                 ELSE Plain(2)
    /\ UNCHANGED <<registers, files>>

Next ==
    \/ Denied
    \/ \E s \in KvSlots : Get(s) \/ \E v \in KvValues : Set(s, v)
    \/ \E p \in Paths :
          \/ Mkdir(p) \/ Read(p) \/ Ls(p) \/ Delete(p) \/ Stat(p)
          \/ \E d \in Contents : Write(p, d)

Spec == Init /\ [][Next]_vars
=============================================================================

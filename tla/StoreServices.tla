--------------------------- MODULE StoreServices ---------------------------
(***************************************************************************)
(* The key-value service (task 82) and the file service (task 84) of       *)
(* kernel/shell/mod.rs with the shell's commands for them.  Keys, values   *)
(* and contents are sequences of characters that are cut where the source  *)
(* cuts them; a path is the sequence of its components.                    *)
(***************************************************************************)
EXTENDS ServiceCaps

CONSTANTS
    KvTyped,       \* values that are typed
    KV_VALUE_LEN,  \* characters that a slot keeps
    FsTyped,       \* paths that are typed
    FS_NAME_LEN,   \* components that a name keeps
    FsData,        \* contents that are typed
    FS_DATA_LEN,   \* characters that a file keeps
    FS_MAX_NODES   \* nodes of the file system

ASSUME StoreConstants ==
    /\ KV_VALUE_LEN \in Nat /\ FS_NAME_LEN \in Nat /\ FS_DATA_LEN \in Nat
    /\ FS_MAX_NODES \in Nat \ {0}

VARIABLES
    kv,     \* the slots of KV_STORE
    nodes,  \* the nodes of FS_STORE
    reply   \* the last reply of either service

storeVars == <<kv, nodes, reply>>

KvSlots == 0 .. 2

Nodes == 1 .. FS_MAX_NODES

Unused == [used |-> FALSE, is_dir |-> FALSE, mount |-> 0, name |-> << >>, data |-> << >>]

StoreInit ==
    /\ kv = [s \in KvSlots |-> << >>]
    /\ nodes = [i \in Nodes |-> Unused]
    /\ reply = <<0, "", << >> >>

Cut(s, n) == SubSeq(s, 1, IF Len(s) < n THEN Len(s) ELSE n)

\* A reply: its status and, of kind "value", "names" or "stat", what it carries.
Answer(status, kind, data) == reply' = <<status, kind, data>>

Status(n) == Answer(n, "", << >>)

-----------------------------------------------------------------------------
(* Keys and values *)

KvSet(c, s, v) ==
    /\ IF MayWrite(c, <<"kv", s>>)
       THEN kv' = [kv EXCEPT ![s] = Cut(v, KV_VALUE_LEN)] /\ Status(0)
       ELSE Status(1) /\ UNCHANGED kv
    /\ UNCHANGED <<caps, nodes>>

KvGet(c, s) ==
    /\ IF MayRead(c, <<"kv", s>>) THEN Answer(0, "value", kv[s]) ELSE Status(1)
    /\ UNCHANGED <<caps, kv, nodes>>

\* kv grant passes on the right to read, whatever the rights of the donor.
KvGrant(s, c) ==
    /\ SlotsFor(Shell, <<"kv", s>>) # {}
    /\ InsertCap(c, Cap(<<"kv", s>>, TRUE, FALSE))
    /\ UNCHANGED storeVars

KvRevoke(s) == RevokeFirst(<<"kv", s>>) /\ UNCHANGED storeVars

-----------------------------------------------------------------------------
(* Files: the shell names mount 0 in every request. *)

Fs == <<"fs", 0>>

\* Mutant: a deleted node is found.
FindNodeDeleted(p) == {i \in Nodes : nodes[i].mount = 0 /\ nodes[i].name = p}

FindNode(p) == {i \in Nodes : nodes[i].used /\ nodes[i].mount = 0 /\ nodes[i].name = p}

FreeNodes == {i \in Nodes : ~nodes[i].used}

Put(i, dir, p, d) ==
    nodes' = [nodes EXCEPT ![i] = [used |-> TRUE, is_dir |-> dir, mount |-> 0, name |-> p, data |-> d]]

FsMkdir(p) ==
    \/ FindNode(p) # {} /\ Status(4) /\ UNCHANGED nodes
    \/ FindNode(p) = {} /\ FreeNodes = {} /\ Status(3) /\ UNCHANGED nodes
    \/ /\ FindNode(p) = {} /\ FreeNodes # {}
       /\ Put(Min(FreeNodes), TRUE, p, << >>) /\ Status(0)

FsWrite(p, d) ==
    \/ /\ FindNode(p) # {}
       /\ IF nodes[Min(FindNode(p))].is_dir
          THEN Status(4) /\ UNCHANGED nodes
          ELSE Put(Min(FindNode(p)), FALSE, p, d) /\ Status(0)
    \/ FindNode(p) = {} /\ FreeNodes = {} /\ Status(3) /\ UNCHANGED nodes
    \/ /\ FindNode(p) = {} /\ FreeNodes # {}
       /\ Put(Min(FreeNodes), FALSE, p, d) /\ Status(0)

FsRead(p) ==
    /\ IF FindNode(p) = {} \/ nodes[Min(FindNode(p))].is_dir
       THEN Status(2)
       ELSE Answer(0, "value", nodes[Min(FindNode(p))].data)
    /\ UNCHANGED nodes

\* The names that start with the path and a slash and have no slash after that;
\* the list is cut off where the reply is full, which the bounds do not reach.
FsLs(p) ==
    /\ Answer(0, "names", {nodes[i].name : i \in
                    {j \in Nodes : /\ nodes[j].used /\ nodes[j].mount = 0
                                   /\ Len(nodes[j].name) = Len(p) + 1
                                   /\ SubSeq(nodes[j].name, 1, Len(p)) = p}})
    /\ UNCHANGED nodes

FsDelete(p) ==
    \/ /\ FindNode(p) # {}
       /\ nodes' = [nodes EXCEPT ![Min(FindNode(p))].used = FALSE]
       /\ Status(0)
    \/ FindNode(p) = {} /\ Status(2) /\ UNCHANGED nodes

FsStat(p) ==
    /\ IF FindNode(p) = {} THEN Status(2)
       ELSE Answer(0, "stat", <<nodes[Min(FindNode(p))].is_dir, Len(nodes[Min(FindNode(p))].data)>>)
    /\ UNCHANGED nodes

FsDenied == Status(1) /\ UNCHANGED nodes

\* send_fs_msg cuts the path and the data; fs_service_main looks for the right
\* that the operation needs and serves it.
FsRequest(c, typed, data) ==
    LET p == Cut(typed, FS_NAME_LEN)
    IN  /\ \/ /\ MayWrite(c, Fs)
              /\ FsMkdir(p) \/ FsWrite(p, Cut(data, FS_DATA_LEN)) \/ FsDelete(p)
           \/ MayRead(c, Fs) /\ (FsRead(p) \/ FsLs(p) \/ FsStat(p))
           \/ (~MayRead(c, Fs) \/ ~MayWrite(c, Fs)) /\ FsDenied
        /\ UNCHANGED <<caps, kv>>

\* cap revoke of the shell's capability.
FsRevoke == (\E s \in SlotsFor(Shell, Fs) : RevokeSlot(s)) /\ UNCHANGED storeVars

KvNext ==
    \/ \E c \in Clients, s \in KvSlots : KvGet(c, s) \/ \E v \in KvTyped : KvSet(c, s, v)
    \/ \E s \in KvSlots : KvRevoke(s) \/ \E c \in Clients : KvGrant(s, c)

FsNext ==
    \/ \E c \in Clients, p \in FsTyped, d \in FsData : FsRequest(c, p, d)
    \/ FsRevoke

StoreSpec ==
    CapsInit /\ StoreInit /\ [][KvNext \/ FsNext]_<<caps, storeVars>>

-----------------------------------------------------------------------------
(* Properties *)

\* The paths that exist, each with the node that FindNode returns for it.
FileMap ==
    [p \in {nodes[i].name : i \in {j \in Nodes : nodes[j].used}} |->
        LET node == CHOOSE i \in Nodes : nodes[i].used /\ nodes[i].name = p
        IN  [dir |-> nodes[node].is_dir, data |-> nodes[node].data]]

Abstract == INSTANCE Stores WITH
    KvValues <- {Cut(v, KV_VALUE_LEN) : v \in KvTyped},
    Paths <- {Cut(p, FS_NAME_LEN) : p \in FsTyped},
    Contents <- {Cut(d, FS_DATA_LEN) : d \in FsData},
    FileLimit <- FS_MAX_NODES, Empty <- << >>,
    registers <- kv, files <- FileMap, answer <- reply

(***************************************************************************)
(* The array of nodes, with its first-free allocation, reuse of deleted    *)
(* nodes and linear search, is a map from paths to contents, and KV_STORE  *)
(* a set of registers: every reply of kv_service_main and fs_service_main  *)
(* is the one the map and the registers give.                              *)
(***************************************************************************)
StoresImplement == Abstract!Spec
=============================================================================

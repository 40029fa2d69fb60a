---------------------------- MODULE MCComponents ----------------------------
(***************************************************************************)
(* Model checking of the parts that are at work one at a time: the         *)
(* kernel's data structures and pure algorithms, and the subsystems that   *)
(* no other task uses while a command or a demonstration drives them.      *)
(* They share no state but the services' capability tables: in each        *)
(* behaviour one of them is in use.                                        *)
(***************************************************************************)
EXTENDS MessageQueue, Rings, LineEditor, Paging, ArchSim,
        StoreServices, LogService, Distribution, Checkpoint, Watchdog

VARIABLE focus  \* the part in use

simVars == <<cacheVars, pipeVars>>
structureVars == <<vars, ringVars, editorVars, pagingVars, simVars>>
serviceVars == <<caps, storeVars, logVars>>
recoveryVars == <<distVars, checkpointVars, watchdogVars>>
MCvars == <<structureVars, serviceVars, recoveryVars, focus>>

OneCache == cfg = [assoc |-> 1, num_lines |-> 1] /\ addrs = Cycled(<<0>>)
OneProgram == prog = Cycled(<<Instr(1, 0, 0), Instr(2, 1, 0), Instr(0, 2, 0)>>)
OneMap == memmap = CHOOSE m \in MemoryMaps : TRUE

\* The inputs vary for the part in use only.
MCInit ==
    /\ focus \in {"queue", "audit", "trace", "devices", "editor", "paging", "cache", "pipeline",
                  "kv", "fs", "log", "dist", "checkpoint", "watchdog"}
    /\ Init /\ RingInit /\ EditorInit
    /\ PagingInit /\ (focus = "paging" \/ OneMap)
    /\ CacheInit /\ (focus = "cache" \/ OneCache)
    /\ PipeInit /\ (focus = "pipeline" \/ OneProgram)
    /\ CapsInit /\ StoreInit /\ LogInit /\ DistInit /\ CheckpointInit /\ WatchdogInit

StructureNext ==
    \/ focus = "queue" /\ Next /\ UNCHANGED <<ringVars, editorVars, pagingVars, simVars>>
    \/ /\ \/ focus = "audit" /\ AuditNext
          \/ focus = "trace" /\ TraceNext
          \/ focus = "devices" /\ DeviceNext
       /\ UNCHANGED <<vars, editorVars, pagingVars, simVars>>
    \/ focus = "editor" /\ EditorNext /\ UNCHANGED <<vars, ringVars, pagingVars, simVars>>
    \/ focus = "paging" /\ PagingNext /\ UNCHANGED <<vars, ringVars, editorVars, simVars>>
    \/ /\ \/ focus = "cache" /\ Access /\ UNCHANGED pipeVars
          \/ focus = "pipeline" /\ Cycle /\ UNCHANGED cacheVars
       /\ UNCHANGED <<vars, ringVars, editorVars, pagingVars>>

ServiceNext ==
    \/ focus = "kv" /\ KvNext /\ UNCHANGED logVars
    \/ focus = "fs" /\ FsNext /\ UNCHANGED logVars
    \/ focus = "log" /\ LogNext /\ UNCHANGED storeVars

RecoveryNext ==
    \/ focus = "dist" /\ DistNext /\ UNCHANGED <<checkpointVars, watchdogVars>>
    \/ focus = "checkpoint" /\ CheckpointNext /\ UNCHANGED <<distVars, watchdogVars>>
    \/ focus = "watchdog" /\ WatchdogNext /\ UNCHANGED <<distVars, checkpointVars>>

MCNext ==
    /\ \/ StructureNext /\ UNCHANGED <<serviceVars, recoveryVars>>
       \/ ServiceNext /\ UNCHANGED <<structureVars, recoveryVars>>
       \/ RecoveryNext /\ UNCHANGED <<structureVars, serviceVars>>
    /\ UNCHANGED focus

MCSpec == MCInit /\ [][MCNext]_MCvars

\* Room for two, for one and for no user task; the largest region first or last.
MCMemoryMaps ==
    { << <<1, 4>>, <<6, 21>> >>, << <<3, 12>>, <<20, 22>> >>, << <<2, 5>> >> }

\* One word and one that is cut; three paths, one of them too long.
MCText == {<<"x">>, <<"x", "y", "z">>}
MCPaths == {<< >>, <<"a">>, <<"a", "b">>, <<"a", "b", "c">>}

=============================================================================

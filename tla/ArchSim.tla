------------------------------- MODULE ArchSim -------------------------------
(***************************************************************************)
(* The simulators of kernel/arch_sim/mod.rs and the workloads that `arch   *)
(* cache-sim` and `arch pipeline-sim` feed them (kernel/shell/mod.rs): a   *)
(* set-associative cache, one access per step, and an in-order pipeline,   *)
(* one cycle per step, each against a definition of what it computes.      *)
(***************************************************************************)
EXTENDS Integers, Sequences, FiniteSets, FiniteSetsExt

CONSTANTS
    SimLength,    \* length of a workload (128 in the code)
    SimLines,     \* cache lines of the working set (12 in the code)
    MaxLines,     \* bound: lines of the cache (1024 in the code)
    MaxMatched,   \* bound: trace events that match
    Registers     \* registers that events are hashed to

ASSUME SimConstants ==
    /\ SimLength \in Nat \ {0} /\ SimLines \in Nat \ {0} /\ 0 \notin Registers
    /\ MaxLines \in 0 .. 1024 /\ MaxMatched \in Nat

VARIABLES
    cfg,       \* [assoc, num_lines]
    addrs,     \* line addresses (addr / line_bytes)
    cache,     \* index -> [valid, tag, lru]
    accesses,  \* addresses done; also lru_counter
    stats,     \* [hits, misses, evictions]
    prog,      \* the instructions
    stage,     \* [if, id, ex, mem]: an instruction's number in prog, 0: none
    pc,        \* instructions fetched
    pipe       \* [instrs, cycles, stalls]

cacheVars == <<cfg, addrs, cache, accesses, stats>>
pipeVars == <<prog, stage, pc, pipe>>

\* The events that match, over and over (get_sim_addresses, get_sim_instrs).
Cycled(matched) == [i \in 1 .. SimLength |-> matched[((i - 1) % Len(matched)) + 1]]

\* The pattern used when no event matches, shifted by a hash of the name.
FallbackLines == <<0, 4, 0, 4, 1, 5, 1, 5, 2, 6, 2, 6, 3, 7, 3, 7>>

Addresses ==
    {Cycled(m) : m \in UNION {[1 .. n -> 0 .. SimLines - 1] : n \in 1 .. MaxMatched}}
    \cup {Cycled([i \in 1 .. 16 |-> (FallbackLines[i] + seed) % SimLines]) :
            seed \in 0 .. SimLines - 1}

Instr(rd, rs1, rs2) == [rd |-> rd, rs1 |-> rs1, rs2 |-> rs2]

Programs ==
    {Cycled(m) : m \in UNION {[1 .. n -> {Instr(d, s, t) : d, s, t \in Registers}] :
                                n \in 1 .. MaxMatched}}
    \cup {Cycled(<<Instr(1, 0, 0), Instr(2, 1, 0), Instr(0, 2, 0)>>)}

-----------------------------------------------------------------------------
(* simulate_cache.                                                         *)

CacheRuns == cfg.assoc > 0 /\ cfg.num_lines > 0 /\ cfg.assoc <= cfg.num_lines

num_sets == cfg.num_lines \div cfg.assoc

CacheInit ==
    /\ cfg \in [assoc : 0 .. MaxLines, num_lines : 0 .. MaxLines]
    /\ addrs \in Addresses
    /\ cache = [i \in 0 .. cfg.num_lines - 1 |-> [valid |-> FALSE, tag |-> 0, lru |-> 0]]
    /\ accesses = 0 /\ stats = [hits |-> 0, misses |-> 0, evictions |-> 0]

\* The lines an address may be in.
SetOf(addr) ==
    LET set_start == (addr % num_sets) * cfg.assoc
    IN  set_start .. set_start + cfg.assoc - 1

\* Mutant: the line used last is the victim.
VictimNewest(set) == CHOOSE i \in set : \A j \in set : cache[j].lru <= cache[i].lru

\* The first line of the set that is not valid, else the one used least lately.
Victim(set) ==
    IF \E i \in set : ~cache[i].valid THEN Min({i \in set : ~cache[i].valid})
    ELSE CHOOSE i \in set : \A j \in set : cache[i].lru <= cache[j].lru

Access ==
    /\ CacheRuns /\ accesses < SimLength
    /\ LET addr == addrs[accesses + 1]
           tag == addr \div num_sets
           used == [valid |-> TRUE, tag |-> tag, lru |-> accesses + 1]
           hit == {i \in SetOf(addr) : cache[i].valid /\ cache[i].tag = tag}
           v == Victim(SetOf(addr))
       IN  \/ /\ hit # {}
              /\ cache' = [cache EXCEPT ![Min(hit)] = used]
              /\ stats' = [stats EXCEPT !.hits = @ + 1]
           \/ /\ hit = {}
              /\ cache' = [cache EXCEPT ![v] = used]
              /\ stats' = [stats EXCEPT !.misses = @ + 1,
                                        !.evictions = IF cache[v].valid THEN @ + 1 ELSE @]
    /\ accesses' = accesses + 1
    /\ UNCHANGED <<cfg, addrs>>

\* An access hits when fewer than assoc other lines of its set have been used
\* since the last access to its line.
Hits(n) ==
    LET same == {i \in 1 .. n - 1 : addrs[i] = addrs[n]}
        between == {addrs[i] : i \in {j \in Max(same) + 1 .. n - 1 :
                                        addrs[j] % num_sets = addrs[n] % num_sets}}
    IN  same # {} /\ Cardinality(between) < cfg.assoc

-----------------------------------------------------------------------------
(* simulate_pipeline.                                                      *)

Stages == {"if", "id", "ex", "mem"}

PipeInit ==
    /\ prog \in Programs
    /\ stage = [s \in Stages |-> 0] /\ pc = 0
    /\ pipe = [instrs |-> 0, cycles |-> 0, stalls |-> 0]

PipeBusy == pc < SimLength \/ \E s \in Stages : stage[s] # 0

\* Instruction i reads what j writes.
Reads(i, j) == prog[j].rd # 0 /\ prog[j].rd \in {prog[i].rs1, prog[i].rs2}

\* One turn of the loop.  ex_stage is emptied before the hazard is looked for,
\* so that only the instruction now in mem_stage can cause one.
Cycle ==
    /\ PipeBusy
    /\ LET mem == stage["ex"]
           hazard == stage["id"] # 0 /\ mem # 0 /\ Reads(stage["id"], mem)
           fetch == pc < SimLength
       IN  /\ stage' = [s \in Stages |->
                          CASE s = "mem" -> mem
                            [] s = "ex"  -> IF hazard THEN 0 ELSE stage["id"]
                            [] s = "id"  -> IF hazard THEN stage["id"] ELSE stage["if"]
                            [] s = "if"  -> IF hazard THEN stage["if"]
                                            ELSE IF fetch THEN pc + 1 ELSE 0]
           /\ pc' = IF ~hazard /\ fetch THEN pc + 1 ELSE pc
           /\ pipe' = [instrs |-> pipe.instrs + (IF stage["mem"] # 0 THEN 1 ELSE 0),
                       cycles |-> pipe.cycles + 1,
                       stalls |-> pipe.stalls + (IF hazard THEN 1 ELSE 0)]
    /\ UNCHANGED prog

\* The instructions that depend on the one before.
Dependent ==
    {i \in 2 .. SimLength : prog[i - 1].rd \in {prog[i].rs1, prog[i].rs2} \ {0}}

\* `arch` runs one simulator or the other.
SimNext ==
    \/ Access /\ UNCHANGED pipeVars
    \/ Cycle /\ UNCHANGED cacheVars

SimSpec == CacheInit /\ PipeInit /\ [][SimNext]_<<cacheVars, pipeVars>>

-----------------------------------------------------------------------------

\* The statistics `arch` prints are those of the machines they stand for: the
\* hits of a least-recently-used cache and an eviction for every miss in a
\* full set; one stall for each instruction that reads its predecessor's
\* result, and four cycles to fill and drain the pipeline.
SimulatorsAreExact ==
    /\ LET hits == {n \in 1 .. accesses : Hits(n)}
       IN  CacheRuns =>
             /\ stats.hits = Cardinality(hits)
             /\ stats.misses = accesses - Cardinality(hits)
             /\ stats.evictions =
                  stats.misses - Cardinality({i \in DOMAIN cache : cache[i].valid})
    /\ pc > 0 /\ ~PipeBusy =>
          pipe = [instrs |-> SimLength, stalls |-> Cardinality(Dependent),
                  cycles |-> SimLength + Cardinality(Dependent) + 4]

=============================================================================

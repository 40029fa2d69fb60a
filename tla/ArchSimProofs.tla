--------------------------- MODULE ArchSimProofs ---------------------------
(***************************************************************************)
(* Proof, for every cache, address sequence and program, that the          *)
(* simulators of `arch` count what the machines they stand for would       *)
(* (ArchSim).  PipeInv says which instruction is in which stage, from the  *)
(* number of cycles that were no stalls; CacheInv says which lines the     *)
(* cells hold and that what was used is held until its whole set was used  *)
(* after it.                                                               *)
(***************************************************************************)
EXTENDS ArchSim, FiniteSetTheorems, TLAPS

-----------------------------------------------------------------------------
(* The pipeline.  Its turns, the cycles that are no stalls, say where every *)
(* instruction is: past the end of the program it fetches nothing.         *)

Turns == pipe.cycles - pipe.stalls
Fetched(k) == IF k \in 1 .. SimLength THEN k ELSE 0
UpTo(k) == {i \in Dependent : i <= k}

\* The last cycle was no stall; the stall before it may have left a bubble.
Flowing ==
    /\ stage["ex"] = Fetched(Turns - 2)
    /\ \/ stage["mem"] = Fetched(Turns - 3)
       \/ stage["mem"] = 0 /\ Turns \in 4 .. SimLength + 2
    /\ pipe.stalls = Cardinality(UpTo(Turns - 2))
    /\ pipe.instrs + (IF stage["mem"] = 0 THEN 0 ELSE 1) =
         IF Turns < 3 THEN 0 ELSE IF Turns - 3 < SimLength THEN Turns - 3 ELSE SimLength

\* The last cycle was a stall, for the instruction in id_stage.
Stalled ==
    /\ Turns \in 3 .. SimLength + 1 /\ Turns - 1 \in Dependent
    /\ stage["ex"] = 0 /\ stage["mem"] = Turns - 2
    /\ pipe.stalls = Cardinality(UpTo(Turns - 1))
    /\ pipe.instrs = Turns - 3

PipeInv ==
    /\ stage \in [Stages -> 0 .. SimLength] /\ pipe \in [instrs : Nat, cycles : Nat, stalls : Nat]
    /\ Turns \in 0 .. SimLength + 4
    /\ pc = IF Turns < SimLength THEN Turns ELSE SimLength
    /\ stage["if"] = Fetched(Turns) /\ stage["id"] = Fetched(Turns - 1)
    /\ Flowing \/ Stalled

-----------------------------------------------------------------------------
(* The cache.                                                              *)

\* The address whose line a valid cell holds: the one it was last used for.
Held(i) == addrs[cache[i].lru]

CacheType ==
    /\ cfg \in [assoc : Nat, num_lines : Nat]
    /\ addrs \in [1 .. SimLength -> Nat]
    /\ accesses \in 0 .. SimLength
    /\ cache \in [0 .. cfg.num_lines - 1 -> [valid : BOOLEAN, tag : Nat, lru : Nat]]
    /\ stats \in [hits : Nat, misses : Nat, evictions : Nat]

\* A valid cell is of the set of what it holds, which was not used since.
CellsAreTrue ==
    \A i \in DOMAIN cache : cache[i].valid =>
       /\ cache[i].lru \in 1 .. accesses
       /\ i \in SetOf(Held(i)) /\ cache[i].tag = Held(i) \div num_sets
       /\ \A j \in cache[i].lru + 1 .. accesses : addrs[j] # Held(i)

\* No line is held twice.
CellsDiffer ==
    \A i, k \in DOMAIN cache :
       cache[i].valid /\ cache[k].valid /\ Held(i) = Held(k) => i = k

\* What was used is held, unless all of its set was used since.
UsedIsHeld ==
    \A j \in 1 .. accesses :
       \/ \E i \in SetOf(addrs[j]) : cache[i].valid /\ Held(i) = addrs[j]
       \/ \A i \in SetOf(addrs[j]) : cache[i].valid /\ cache[i].lru > j

HitsUpTo(n) == {k \in 1 .. n : Hits(k)}
ValidCells == {i \in DOMAIN cache : cache[i].valid}

Counted ==
    /\ stats.hits = Cardinality(HitsUpTo(accesses))
    /\ stats.misses = accesses - Cardinality(HitsUpTo(accesses))
    /\ stats.evictions = stats.misses - Cardinality(ValidCells)

CacheInv ==
    /\ CacheType
    /\ CacheRuns => CellsAreTrue /\ CellsDiffer /\ UsedIsHeld /\ Counted

-----------------------------------------------------------------------------
(* The pipeline keeps its invariant *)

\* The dependent instructions up to a place, and one place further.
LEMMA UpToCount ==
    ASSUME NEW k \in Int
    PROVE  /\ IsFiniteSet(UpTo(k)) /\ Cardinality(UpTo(k)) \in Nat
           /\ k + 1 \in Dependent => Cardinality(UpTo(k + 1)) = Cardinality(UpTo(k)) + 1
           /\ k + 1 \notin Dependent => UpTo(k + 1) = UpTo(k)
           /\ k < 2 => UpTo(k) = {}
           /\ k >= SimLength => UpTo(k) = Dependent
<1>0. SimLength \in Nat
  BY SimConstants
<1>1. Dependent \subseteq 2 .. SimLength
  BY DEF Dependent
<1> HIDE DEF Dependent
<1>a. \A i \in Dependent : i \in Int /\ 2 <= i /\ i <= SimLength
  BY <1>0, <1>1
<1>2. IsFiniteSet(2 .. SimLength)
  BY <1>0, FS_Interval
<1>3. UpTo(k) \subseteq 2 .. SimLength
  BY <1>1, Zenon DEF UpTo
<1>4. IsFiniteSet(UpTo(k)) /\ Cardinality(UpTo(k)) \in Nat
  BY <1>2, <1>3, FS_Subset, FS_CardinalityType, Zenon
<1>5. ASSUME k + 1 \in Dependent PROVE Cardinality(UpTo(k + 1)) = Cardinality(UpTo(k)) + 1
  <2>1. \A i \in Dependent : i <= k + 1 <=> i <= k \/ i = k + 1
    BY <1>a
  <2>2. UpTo(k + 1) = UpTo(k) \cup {k + 1}
    BY <1>5, <2>1, ZenonT(30) DEF UpTo
  <2>3. k + 1 \notin UpTo(k)
    BY DEF UpTo
  <2> QED
    BY <1>4, <2>2, <2>3, FS_AddElement, Zenon
<1>6. ASSUME k + 1 \notin Dependent PROVE UpTo(k + 1) = UpTo(k)
  <2>1. \A i \in Dependent : i <= k + 1 <=> i <= k
    BY <1>a, <1>6
  <2> QED
    BY <2>1, Zenon DEF UpTo
<1>7. (k < 2 => UpTo(k) = {}) /\ (k >= SimLength => UpTo(k) = Dependent)
  <2>1. \A i \in Dependent : (k < 2 => ~(i <= k)) /\ (k >= SimLength => i <= k)
    BY <1>0, <1>a
  <2> QED
    BY <2>1, Zenon DEF UpTo
<1> QED
  BY <1>4, <1>5, <1>6, <1>7, Zenon

\* A read of the instruction before is what makes an instruction dependent.
LEMMA ReadsBefore ==
    ASSUME NEW i \in 2 .. SimLength
    PROVE  Reads(i, i - 1) <=> i \in Dependent
BY DEF Reads, Dependent

\* The pipeline starts empty.
LEMMA PipeInitInv ==
    ASSUME PipeInit
    PROVE  PipeInv
<1>0. SimLength \in Nat \ {0}
  BY SimConstants
<1>1. stage = [s \in Stages |-> 0] /\ pc = 0 /\ pipe = [instrs |-> 0, cycles |-> 0, stalls |-> 0]
  BY DEF PipeInit
<1>2. Turns = 0
  BY <1>1 DEF Turns
<1>3. Cardinality(UpTo(0 - 2)) = 0
  BY UpToCount, FS_EmptySet
<1>4. Fetched(0) = 0 /\ Fetched(0 - 1) = 0 /\ Fetched(0 - 2) = 0 /\ Fetched(0 - 3) = 0
  BY <1>0 DEF Fetched
<1>5. "if" \in Stages /\ "id" \in Stages /\ "ex" \in Stages /\ "mem" \in Stages
  BY DEF Stages
<1>6. /\ stage["if"] = 0 /\ stage["id"] = 0 /\ stage["ex"] = 0 /\ stage["mem"] = 0
      /\ pipe.stalls = 0 /\ pipe.instrs = 0
  BY <1>1, <1>5
<1>7. Flowing
  BY <1>2, <1>3, <1>4, <1>6 DEF Flowing
<1>8. stage \in [Stages -> 0 .. SimLength] /\ pipe \in [instrs : Nat, cycles : Nat, stalls : Nat]
  BY <1>0, <1>1
<1> QED
  BY <1>0, <1>1, <1>2, <1>4, <1>6, <1>7, <1>8, SMTT(30) DEF PipeInv

\* What a cycle does to the four stages, by name.
LEMMA CycleParts ==
    ASSUME Cycle, PipeInv
    PROVE  LET hazard == stage["id"] # 0 /\ stage["ex"] # 0 /\ Reads(stage["id"], stage["ex"])
           IN  /\ stage' \in [Stages -> 0 .. SimLength]
               /\ pipe' \in [instrs : Nat, cycles : Nat, stalls : Nat]
               /\ stage'["mem"] = stage["ex"]
               /\ pipe'.cycles = pipe.cycles + 1
               /\ pipe'.instrs = pipe.instrs + (IF stage["mem"] = 0 THEN 0 ELSE 1)
               /\ hazard => /\ stage'["ex"] = 0 /\ stage'["id"] = stage["id"]
                            /\ stage'["if"] = stage["if"] /\ pc' = pc
                            /\ pipe'.stalls = pipe.stalls + 1
               /\ ~hazard => /\ stage'["ex"] = stage["id"] /\ stage'["id"] = stage["if"]
                             /\ stage'["if"] = IF pc < SimLength THEN pc + 1 ELSE 0
                             /\ pc' = IF pc < SimLength THEN pc + 1 ELSE pc
                             /\ pipe'.stalls = pipe.stalls
<1> DEFINE hazard == stage["id"] # 0 /\ stage["ex"] # 0 /\ Reads(stage["id"], stage["ex"])
<1>0. SimLength \in Nat \ {0} /\ pc \in 0 .. SimLength
  BY SimConstants DEF PipeInv
<1>1. /\ stage' = [s \in Stages |->
                     CASE s = "mem" -> stage["ex"]
                       [] s = "ex"  -> IF hazard THEN 0 ELSE stage["id"]
                       [] s = "id"  -> IF hazard THEN stage["id"] ELSE stage["if"]
                       [] s = "if"  -> IF hazard THEN stage["if"]
                                       ELSE IF pc < SimLength THEN pc + 1 ELSE 0]
      /\ pc' = IF ~hazard /\ pc < SimLength THEN pc + 1 ELSE pc
      /\ pipe' = [instrs |-> pipe.instrs + (IF stage["mem"] # 0 THEN 1 ELSE 0),
                  cycles |-> pipe.cycles + 1,
                  stalls |-> pipe.stalls + (IF hazard THEN 1 ELSE 0)]
  BY DEF Cycle
<1> HIDE DEF hazard
<1>2. Stages = {"if", "id", "ex", "mem"}
  BY DEF Stages
<1>3. stage \in [Stages -> 0 .. SimLength] /\ pipe \in [instrs : Nat, cycles : Nat, stalls : Nat]
  BY DEF PipeInv
<1>4. /\ stage'["mem"] = stage["ex"]
      /\ stage'["ex"] = IF hazard THEN 0 ELSE stage["id"]
      /\ stage'["id"] = IF hazard THEN stage["id"] ELSE stage["if"]
      /\ stage'["if"] = IF hazard THEN stage["if"] ELSE IF pc < SimLength THEN pc + 1 ELSE 0
      /\ stage' = [s \in Stages |-> stage'[s]]
  BY <1>1, <1>2
<1>5. stage["if"] \in 0 .. SimLength /\ stage["id"] \in 0 .. SimLength /\ stage["ex"] \in 0 .. SimLength
  BY <1>2, <1>3
<1>6. /\ stage'["if"] \in 0 .. SimLength /\ stage'["id"] \in 0 .. SimLength
      /\ stage'["ex"] \in 0 .. SimLength /\ stage'["mem"] \in 0 .. SimLength
  BY <1>0, <1>4, <1>5
<1>7. stage' \in [Stages -> 0 .. SimLength]
  BY <1>2, <1>4, <1>6
<1>8. /\ pipe' \in [instrs : Nat, cycles : Nat, stalls : Nat] /\ pipe'.cycles = pipe.cycles + 1
      /\ pipe'.instrs = pipe.instrs + (IF stage["mem"] = 0 THEN 0 ELSE 1)
      /\ pipe'.stalls = pipe.stalls + (IF hazard THEN 1 ELSE 0)
  BY <1>1, <1>3
<1>9. pipe.stalls \in Nat
  BY <1>3
<1>10. CASE hazard
  BY <1>0, <1>1, <1>4, <1>7, <1>8, <1>9, <1>10, Zenon DEF hazard
<1>11. CASE ~hazard
  <2>1. /\ stage'["ex"] = stage["id"] /\ stage'["id"] = stage["if"]
        /\ stage'["if"] = IF pc < SimLength THEN pc + 1 ELSE 0
    BY <1>4, <1>11, Zenon
  <2>2. pc' = IF pc < SimLength THEN pc + 1 ELSE pc
    BY <1>1, <1>11, Zenon
  <2>3. pipe'.stalls = pipe.stalls
    BY <1>8, <1>9, <1>11
  <2> QED
    BY <1>4, <1>7, <1>8, <1>11, <2>1, <2>2, <2>3, Zenon DEF hazard
<1> QED
  BY <1>10, <1>11, Zenon

\* A cycle keeps every instruction where the turns say it is: only an
\* instruction that reads its predecessor's result waits, and only once.
LEMMA CycleInv ==
    ASSUME PipeInv, Cycle
    PROVE  PipeInv'
<1> DEFINE hazard == stage["id"] # 0 /\ stage["ex"] # 0 /\ Reads(stage["id"], stage["ex"])
<1> DEFINE v == Turns
<1>0. SimLength \in Nat \ {0} /\ v \in 0 .. SimLength + 4
  BY SimConstants DEF PipeInv
<1>1. /\ stage' \in [Stages -> 0 .. SimLength]
      /\ pipe' \in [instrs : Nat, cycles : Nat, stalls : Nat]
      /\ stage'["mem"] = stage["ex"]
      /\ pipe'.cycles = pipe.cycles + 1
      /\ pipe'.instrs = pipe.instrs + (IF stage["mem"] = 0 THEN 0 ELSE 1)
  BY CycleParts, Zenon
<1>2. hazard => /\ stage'["ex"] = 0 /\ stage'["id"] = stage["id"]
                /\ stage'["if"] = stage["if"] /\ pc' = pc
                /\ pipe'.stalls = pipe.stalls + 1
  BY CycleParts, Zenon
<1>3. ~hazard => /\ stage'["ex"] = stage["id"] /\ stage'["id"] = stage["if"]
                 /\ stage'["if"] = IF pc < SimLength THEN pc + 1 ELSE 0
                 /\ pc' = IF pc < SimLength THEN pc + 1 ELSE pc
                 /\ pipe'.stalls = pipe.stalls
  BY CycleParts, Zenon
<1>4. /\ pipe.instrs \in Nat /\ pipe.cycles \in Nat /\ pipe.stalls \in Nat
      /\ pc = IF v < SimLength THEN v ELSE SimLength
      /\ stage["if"] = Fetched(v) /\ stage["id"] = Fetched(v - 1) /\ (Flowing \/ Stalled)
  BY DEF PipeInv
<1>5. UNCHANGED prog /\ Dependent' = Dependent
  BY DEF Cycle, Dependent
<1>6. \A k : UpTo(k)' = UpTo(k) /\ Fetched(k)' = Fetched(k)
  BY <1>5 DEF UpTo, Fetched
<1>7. Turns' = pipe'.cycles - pipe'.stalls /\ v = pipe.cycles - pipe.stalls
  BY DEF Turns
<1>8. CASE hazard
  <2>1. Turns' = v
    BY <1>1, <1>2, <1>4, <1>7, <1>8
  <2>2. Flowing /\ v - 2 \in 1 .. SimLength /\ v - 1 \in 1 .. SimLength
    BY <1>0, <1>4, <1>8 DEF Flowing, Stalled, Fetched
  <2>3. stage["ex"] = v - 2 /\ stage["id"] = v - 1 /\ v \in 3 .. SimLength + 1
    BY <1>0, <1>4, <2>2 DEF Flowing, Fetched
  <2>4. v - 1 \in 2 .. SimLength /\ v - 2 = (v - 1) - 1 /\ v - 1 = (v - 2) + 1 /\ v - 2 \in Int
    BY <1>0, <2>3
  <2>5. v - 1 \in Dependent
    BY <1>8, <2>3, <2>4, ReadsBefore, Zenon
  <2>6. Cardinality(UpTo(v - 1)) = Cardinality(UpTo(v - 2)) + 1
    BY <2>4, <2>5, UpToCount, Zenon
  <2>7. pipe'.stalls = Cardinality(UpTo(v - 1))
    BY <1>2, <1>8, <2>2, <2>6 DEF Flowing
  <2>8. pipe'.instrs = v - 3
    BY <1>0, <1>1, <2>2, <2>3 DEF Flowing
  <2>9. Stalled'
    BY <1>1, <1>2, <1>5, <1>6, <1>8, <2>1, <2>3, <2>5, <2>7, <2>8, Zenon DEF Stalled
  <2> QED
    BY <1>0, <1>1, <1>2, <1>4, <1>6, <1>8, <2>1, <2>9, Zenon DEF PipeInv
<1>9. CASE ~hazard
  <2>1. Turns' = v + 1
    BY <1>1, <1>3, <1>4, <1>7, <1>9
  <2>2. v + 1 \in 0 .. SimLength + 4
    <3>1. SUFFICES ASSUME v = SimLength + 4 PROVE FALSE
      BY <1>0
    <3>2. ~Stalled
      BY <1>0, <3>1 DEF Stalled
    <3>3. pc = SimLength /\ stage["if"] = 0 /\ stage["id"] = 0 /\ stage["ex"] = 0 /\ stage["mem"] = 0
      BY <1>0, <1>4, <3>1, <3>2 DEF Flowing, Fetched
    <3> QED
      BY <1>0, <3>3 DEF Cycle, PipeBusy, Stages
  <2>3. /\ pc' = IF v + 1 < SimLength THEN v + 1 ELSE SimLength
        /\ stage'["if"] = Fetched(v + 1) /\ stage'["id"] = Fetched((v + 1) - 1) /\ stage'["ex"] = Fetched((v + 1) - 2)
    <3>1. (v + 1) - 1 = v /\ (v + 1) - 2 = v - 1
      BY <1>0
    <3>2. pc' = (IF v + 1 < SimLength THEN v + 1 ELSE SimLength) /\ stage'["if"] = Fetched(v + 1)
      BY <1>0, <1>3, <1>4, <1>9 DEF Fetched
    <3> QED
      BY <1>3, <1>4, <1>9, <3>1, <3>2, Zenon
  <2>4. Flowing'
    <3> DEFINE w == v + 1
    <3>0. w \in Int /\ w - 2 = v - 1 /\ w - 3 = v - 2
      BY <1>0
    <3>1. CASE Stalled
      <4>1. /\ v \in 3 .. SimLength + 1 /\ stage["ex"] = 0 /\ stage["mem"] = v - 2 /\ pipe.instrs = v - 3
            /\ pipe.stalls = Cardinality(UpTo(v - 1))
        BY <3>1 DEF Stalled
      <4>2. stage'["mem"] = 0 /\ w \in 4 .. SimLength + 2 /\ pipe'.stalls = Cardinality(UpTo(w - 2))
        BY <1>0, <1>1, <1>3, <1>9, <3>0, <4>1
      <4>3. pipe'.instrs + (IF stage'["mem"] = 0 THEN 0 ELSE 1) =
              IF w < 3 THEN 0 ELSE IF w - 3 < SimLength THEN w - 3 ELSE SimLength
        BY <1>0, <1>1, <4>1, <4>2
      <4> QED
        BY <1>6, <2>1, <2>3, <4>2, <4>3, Zenon DEF Flowing
    <3>2. CASE Flowing
      <4>1. /\ stage["ex"] = Fetched(v - 2) /\ pipe.stalls = Cardinality(UpTo(v - 2))
            /\ pipe.instrs + (IF stage["mem"] = 0 THEN 0 ELSE 1) =
                 IF v < 3 THEN 0 ELSE IF v - 3 < SimLength THEN v - 3 ELSE SimLength
        BY <3>2 DEF Flowing
      <4>2. v - 1 \notin Dependent
        <5>1. SUFFICES ASSUME v - 1 \in Dependent PROVE FALSE
          OBVIOUS
        <5>2. v - 1 \in 2 .. SimLength
          BY <5>1 DEF Dependent
        <5>3. stage["id"] = v - 1 /\ stage["ex"] = v - 2 /\ v - 1 # 0 /\ v - 2 # 0 /\ v - 2 = (v - 1) - 1
          BY <1>0, <1>4, <4>1, <5>2 DEF Fetched
        <5> QED
          BY <1>9, <5>1, <5>2, <5>3, ReadsBefore, Zenon
      <4>3. UpTo(v - 1) = UpTo(v - 2)
        <5>1. v - 1 = (v - 2) + 1 /\ v - 2 \in Int
          BY <1>0
        <5> QED
          BY <4>2, <5>1, UpToCount, Zenon
      <4>4. pipe'.stalls = Cardinality(UpTo(w - 2)) /\ stage'["mem"] = Fetched(w - 3)
        BY <1>1, <1>3, <1>9, <3>0, <4>1, <4>3, Zenon
      <4>5. pipe'.instrs + (IF stage'["mem"] = 0 THEN 0 ELSE 1) =
              IF w < 3 THEN 0 ELSE IF w - 3 < SimLength THEN w - 3 ELSE SimLength
        BY <1>0, <1>1, <4>1 DEF Fetched
      <4> QED
        BY <1>6, <2>1, <2>3, <4>4, <4>5, Zenon DEF Flowing
    <3> QED
      BY <1>4, <3>1, <3>2, Zenon
  <2> QED
    BY <1>1, <1>6, <2>1, <2>2, <2>3, <2>4, Zenon DEF PipeInv
<1> QED
  BY <1>8, <1>9, Zenon

\* When the pipeline is done its statistics are those of the program.
LEMMA PipeInvExact ==
    ASSUME PipeInv, ~PipeBusy
    PROVE  pipe = [instrs |-> SimLength, stalls |-> Cardinality(Dependent),
                   cycles |-> SimLength + Cardinality(Dependent) + 4]
<1> DEFINE v == Turns
<1>0. SimLength \in Nat \ {0} /\ v \in 0 .. SimLength + 4
  BY SimConstants DEF PipeInv
<1>1. /\ ~(pc < SimLength)
      /\ stage["if"] = 0 /\ stage["id"] = 0 /\ stage["ex"] = 0 /\ stage["mem"] = 0
  BY DEF PipeBusy, Stages
<1>2. /\ pipe \in [instrs : Nat, cycles : Nat, stalls : Nat]
      /\ pc = IF v < SimLength THEN v ELSE SimLength
      /\ stage["if"] = Fetched(v) /\ stage["id"] = Fetched(v - 1) /\ (Flowing \/ Stalled)
  BY DEF PipeInv
<1>3. Flowing
  BY <1>0, <1>1, <1>2 DEF Stalled
<1>4. v = SimLength + 4
  BY <1>0, <1>1, <1>2, <1>3 DEF Flowing, Fetched
<1>5. UpTo(v - 2) = Dependent
  <2>1. v - 2 \in Int /\ v - 2 >= SimLength
    BY <1>0, <1>4
  <2> QED
    BY <2>1, UpToCount, Zenon
<1>6. pipe.stalls = Cardinality(Dependent)
  BY <1>3, <1>5, Zenon DEF Flowing
<1>7. pipe.instrs = SimLength
  BY <1>0, <1>1, <1>2, <1>3, <1>4 DEF Flowing
<1>8. pipe.cycles = SimLength + Cardinality(Dependent) + 4
  BY <1>0, <1>2, <1>4, <1>6 DEF Turns
<1> QED
  BY <1>2, <1>6, <1>7, <1>8

-----------------------------------------------------------------------------
(* Numbers and the sets of the cache *)

\* A set of numbers that is not empty has a least one.
LEMMA LeastNat ==
    ASSUME NEW T, T \subseteq Nat, T # {}
    PROVE  Min(T) \in T /\ \A y \in T : Min(T) <= y
<1>1. IsWellFoundedOn(OpToRel(<, Nat), Nat)
  BY NatLessThanWellFounded, Zenon
<1>2. PICK x \in T : \A y \in T : <<y, x>> \notin OpToRel(<, Nat)
  BY <1>1, WFMin, Zenon
<1>3. \A y \in T : x <= y
  <2> SUFFICES ASSUME NEW y \in T PROVE x <= y
    BY Zenon
  <2>1. x \in Nat /\ y \in Nat
    BY Zenon
  <2>2. ~(y < x)
    BY <1>2, <2>1, Zenon DEF OpToRel
  <2> QED
    BY <2>1, <2>2
<1> QED
  BY <1>3, Zenon DEF Min

\* A set of numbers that is not empty and has a bound has a greatest one.
LEMMA GreatestNat ==
    ASSUME NEW T, NEW n \in Nat, T \subseteq 0 .. n, T # {}
    PROVE  Max(T) \in T /\ \A y \in T : y <= Max(T)
<1> DEFINE B == {b \in Nat : \A y \in T : y <= b}
<1>1. n \in B
  BY DEF B
<1>2. Min(B) \in B /\ \A b \in B : Min(B) <= b
  BY <1>1, LeastNat, Zenon
<1> DEFINE m == Min(B)
<1>3. m \in Nat /\ \A y \in T : y <= m
  BY <1>2, Zenon
<1>4. m \in T
  <2> SUFFICES ASSUME m \notin T PROVE FALSE
    OBVIOUS
  <2>1. \A y \in T : y \in Nat /\ y < m
    BY <1>3
  <2>2. m # 0
    <3>1. PICK y \in T : TRUE
      BY Zenon
    <3> QED
      BY <2>1, <3>1
  <2>3. m - 1 \in B
    BY <1>3, <2>1, <2>2
  <2>4. m <= m - 1
    BY <1>2, <2>3, Zenon
  <2> QED
    BY <1>3, <2>4
<1> HIDE DEF m
<1>5. \A y \in T : m >= y
  BY <1>3
<1>6. Max(T) \in T /\ \A y \in T : Max(T) >= y
  BY <1>4, <1>5, Zenon DEF Max
<1> QED
  BY <1>6

\* Dividing by a number that is not zero.
LEMMA Divided ==
    ASSUME NEW n \in Nat, NEW s \in Nat \ {0}
    PROVE  n = (s * (n \div s)) + (n % s) /\ n % s \in 0 .. s - 1 /\ n \div s \in Nat
OBVIOUS

\* Products grow with their factors.
LEMMA Product ==
    ASSUME NEW r \in Nat, NEW q \in Nat, NEW s \in Nat, r <= q
    PROVE  r * s \in Nat /\ q * s \in Nat /\ r * s <= q * s
  OBVIOUS

\* One factor more is one term more.
LEMMA ProductNext ==
    ASSUME NEW r \in Nat, NEW s \in Nat
    PROVE  (r + 1) * s = (r * s) + s
  OBVIOUS

-----------------------------------------------------------------------------

\* The sets of the cache lie within it, and no line is of two sets: only
\* addresses with the same remainder share one.
LEMMA SetsApart ==
    ASSUME CacheType, CacheRuns
    PROVE  /\ num_sets \in Nat \ {0}
           /\ \A a \in Nat : /\ SetOf(a) \subseteq DOMAIN cache /\ a % num_sets \in Nat
                             /\ IsFiniteSet(SetOf(a)) /\ Cardinality(SetOf(a)) = cfg.assoc
                             /\ SetOf(a) # {} /\ SetOf(a) \subseteq Nat
           /\ \A a, b \in Nat : (SetOf(a) \cap SetOf(b) # {} => a % num_sets = b % num_sets)
           /\ \A a, b \in Nat : (a % num_sets = b % num_sets => SetOf(a) = SetOf(b))
           /\ \A a, b \in Nat : a % num_sets = b % num_sets /\ a \div num_sets = b \div num_sets => a = b
<1> DEFINE A == cfg.assoc
           L == cfg.num_lines
           S == num_sets
<1>0. A \in Nat \ {0} /\ L \in Nat \ {0} /\ A <= L /\ DOMAIN cache = 0 .. L - 1
  BY DEF CacheType, CacheRuns
<1>a. S = L \div A
  BY DEF num_sets
<1>d. \A a : SetOf(a) = ((a % S) * A) .. (((a % S) * A) + A - 1)
  BY DEF SetOf
<1> HIDE DEF A, L, S
<1>1. S \in Nat /\ L = (A * S) + (L % A) /\ L % A \in 0 .. A - 1
  BY <1>0, <1>a, Divided, Zenon
<1>2. S # 0
  <2> SUFFICES ASSUME S = 0 PROVE FALSE
    OBVIOUS
  <2>1. A * S = 0
    BY <1>0
  <2> QED
    BY <1>0, <1>1, <2>1
<1>b. 0 .. S - 1 \subseteq Nat
  BY <1>1
<1>3. S * A \in Nat /\ S * A <= L
  BY <1>0, <1>1
<1>4. ASSUME NEW a \in Nat
      PROVE  /\ a % S \in 0 .. S - 1 /\ (a % S) * A \in Nat /\ ((a % S) * A) + A <= L
             /\ a = (S * (a \div S)) + (a % S)
  <2>1. a % S \in 0 .. S - 1 /\ a = (S * (a \div S)) + (a % S)
    BY <1>1, <1>2, Divided
  <2> DEFINE r == a % S
  <2>2. r \in Nat /\ r + 1 \in Nat /\ r + 1 <= S
    BY <1>1, <2>1
  <2> HIDE DEF r
  <2>3. (r + 1) * A <= S * A /\ (r + 1) * A = (r * A) + A /\ r * A \in Nat
    BY <1>0, <1>1, <2>2, Product, ProductNext
  <2> QED
    BY <1>0, <1>3, <2>1, <2>3 DEF r
<1>5. ASSUME NEW a \in Nat
      PROVE  /\ SetOf(a) \subseteq DOMAIN cache /\ a % S \in Nat
             /\ IsFiniteSet(SetOf(a)) /\ Cardinality(SetOf(a)) = A /\ SetOf(a) # {}
             /\ SetOf(a) \subseteq Nat
  <2> DEFINE f == (a % S) * A
  <2>1. f \in Nat /\ f + A <= L /\ SetOf(a) = f .. (f + A - 1)
    BY <1>4, <1>d, Zenon
  <2>a. a % S \in Nat
    BY <1>b, <1>4, Zenon
  <2> HIDE DEF f
  <2>2. SetOf(a) \subseteq DOMAIN cache /\ SetOf(a) # {} /\ SetOf(a) \subseteq Nat
    <3>1. f .. (f + A - 1) \subseteq 0 .. L - 1 /\ f .. (f + A - 1) \subseteq Nat
      BY <1>0, <2>1
    <3>2. f \in f .. (f + A - 1)
      BY <1>0, <2>1
    <3> QED
      BY <1>0, <2>1, <3>1, <3>2, Zenon
  <2>3. IsFiniteSet(f .. (f + A - 1)) /\ Cardinality(f .. (f + A - 1)) = A
    BY <1>0, <2>1, FS_Interval
  <2> QED
    BY <2>1, <2>a, <2>2, <2>3, Zenon
<1>6. ASSUME NEW r \in Nat, NEW q \in Nat, r < q
      PROVE  (r * A) + A <= q * A
  <2>1. r + 1 <= q /\ r + 1 \in Nat
    BY <1>6
  <2> QED
    BY <1>0, <2>1, Product, ProductNext
<1>7. ASSUME NEW a \in Nat, NEW b \in Nat, SetOf(a) \cap SetOf(b) # {}
      PROVE  a % S = b % S
  <2> DEFINE r == a % S
             q == b % S
  <2>1. r \in Nat /\ q \in Nat /\ r * A \in Nat /\ q * A \in Nat
    BY <1>b, <1>4, Zenon
  <2>2. PICK i \in SetOf(a) : i \in SetOf(b)
    BY <1>7
  <2>3. i \in (r * A) .. ((r * A) + A - 1) /\ i \in (q * A) .. ((q * A) + A - 1)
    BY <1>d, <2>2, Zenon
  <2> HIDE DEF r, q
  <2>4. ~(r < q)
    BY <1>0, <1>6, <2>1, <2>3
  <2>5. ~(q < r)
    BY <1>0, <1>6, <2>1, <2>3
  <2> QED
    BY <2>1, <2>4, <2>5 DEF r, q
<1>8. ASSUME NEW a \in Nat, NEW b \in Nat, a % S = b % S, a \div S = b \div S
      PROVE  a = b
  BY <1>4, <1>8, Zenon
<1>9. \A a, b \in Nat : (a % S = b % S => SetOf(a) = SetOf(b))
  BY <1>d, Zenon
<1> QED
  BY <1>1, <1>2, <1>5, <1>7, <1>8, <1>9, Zenon DEF A, S

\* The addresses of a workload are natural numbers.
LEMMA AddressType ==
    ASSUME NEW a \in Addresses
    PROVE  a \in [1 .. SimLength -> Nat]
<1>0. SimLength \in Nat /\ SimLines \in Nat \ {0}
  BY SimConstants
<1>1. ASSUME NEW n \in Nat \ {0}, NEW m \in [1 .. n -> Nat]
      PROVE  Cycled(m) \in [1 .. SimLength -> Nat]
  <2>1. Len(m) = n
    OBVIOUS
  <2>2. ASSUME NEW i \in 1 .. SimLength PROVE m[((i - 1) % n) + 1] \in Nat
    <3>1. i - 1 \in Nat
      BY <1>0
    <3>2. (i - 1) % n \in 0 .. n - 1
      BY <3>1, Divided, Zenon
    <3>3. ((i - 1) % n) + 1 \in 1 .. n
      BY <3>2
    <3> QED
      BY <3>3, Zenon
  <2> QED
    BY <2>1, <2>2, Zenon DEF Cycled
<1>2. CASE a \in {Cycled(m) : m \in UNION {[1 .. n -> 0 .. SimLines - 1] : n \in 1 .. MaxMatched}}
  <2>1. PICK n \in 1 .. MaxMatched : \E m \in [1 .. n -> 0 .. SimLines - 1] : a = Cycled(m)
    BY <1>2, Zenon
  <2>a. PICK m \in [1 .. n -> 0 .. SimLines - 1] : a = Cycled(m)
    BY <2>1, Zenon
  <2>2. n \in Nat \ {0} /\ 0 .. SimLines - 1 \subseteq Nat
    BY <1>0, SimConstants
  <2>3. m \in [1 .. n -> Nat]
    BY <2>2, Zenon
  <2> QED
    BY <1>1, <2>a, <2>2, <2>3, Zenon
<1>3. CASE a \in {Cycled([i \in 1 .. 16 |-> (FallbackLines[i] + seed) % SimLines]) :
                    seed \in 0 .. SimLines - 1}
  <2>1. PICK seed \in 0 .. SimLines - 1 :
               a = Cycled([i \in 1 .. 16 |-> (FallbackLines[i] + seed) % SimLines])
    BY <1>3, Zenon
  <2>2. ASSUME NEW i \in 1 .. 16 PROVE (FallbackLines[i] + seed) % SimLines \in Nat
    <3>1. FallbackLines[i] \in Nat
      BY DEF FallbackLines
    <3>2. FallbackLines[i] + seed \in Nat
      BY <1>0, <3>1
    <3> QED
      BY <1>0, <3>2, Divided
  <2>3. [i \in 1 .. 16 |-> (FallbackLines[i] + seed) % SimLines] \in [1 .. 16 -> Nat]
    BY <2>2, Zenon
  <2>4. 16 \in Nat \ {0}
    OBVIOUS
  <2> QED
    BY <1>1, <2>1, <2>3, <2>4, Zenon
<1> QED
  BY <1>2, <1>3, Zenon DEF Addresses

\* The cache starts empty.
LEMMA CacheInitInv ==
    ASSUME CacheInit
    PROVE  CacheInv
<1>0. SimLength \in Nat /\ MaxLines \in Nat
  BY SimConstants
<1>1. /\ cfg \in [assoc : 0 .. MaxLines, num_lines : 0 .. MaxLines] /\ addrs \in Addresses
      /\ cache = [i \in 0 .. cfg.num_lines - 1 |-> [valid |-> FALSE, tag |-> 0, lru |-> 0]]
      /\ accesses = 0 /\ stats = [hits |-> 0, misses |-> 0, evictions |-> 0]
  BY DEF CacheInit
<1>2. \A i \in DOMAIN cache : ~cache[i].valid
  BY <1>1
<1>3. addrs \in [1 .. SimLength -> Nat]
  BY <1>1, AddressType, Zenon
<1>4. cfg \in [assoc : Nat, num_lines : Nat]
  BY <1>0, <1>1
<1>5. CacheType
  BY <1>0, <1>1, <1>3, <1>4 DEF CacheType
<1>6. CellsAreTrue /\ CellsDiffer
  BY <1>2, Zenon DEF CellsAreTrue, CellsDiffer
<1>7. 1 .. accesses = {}
  BY <1>1
<1>8. UsedIsHeld /\ HitsUpTo(accesses) = {}
  BY <1>7, Zenon DEF UsedIsHeld, HitsUpTo
<1>9. ValidCells = {}
  BY <1>2, Zenon DEF ValidCells
<1>10. Counted
  <2>1. Cardinality(HitsUpTo(accesses)) = 0 /\ Cardinality(ValidCells) = 0
    BY <1>8, <1>9, FS_EmptySet, Zenon
  <2> QED
    BY <1>1, <2>1 DEF Counted
<1> QED
  BY <1>5, <1>6, <1>8, <1>10, Zenon DEF CacheInv

-----------------------------------------------------------------------------
(* What an access finds *)

\* The cells in which an access to an address hits.
Found(a) == {i \in SetOf(a) : cache[i].valid /\ cache[i].tag = a \div num_sets}

\* An access finds its line exactly in the cell that holds the address.
LEMMA FoundIsHeld ==
    ASSUME CacheType, CacheRuns, CellsAreTrue, NEW a \in Nat
    PROVE  \A i : i \in Found(a) <=> i \in DOMAIN cache /\ cache[i].valid /\ Held(i) = a
<1>1. /\ \A b \in Nat : SetOf(b) \subseteq DOMAIN cache
      /\ \A b, c \in Nat : (SetOf(b) \cap SetOf(c) # {} => b % num_sets = c % num_sets)
      /\ \A b, c \in Nat : b % num_sets = c % num_sets /\ b \div num_sets = c \div num_sets => b = c
  BY SetsApart, Zenon
<1>2. ASSUME NEW i \in DOMAIN cache, cache[i].valid
      PROVE  /\ Held(i) \in Nat /\ i \in SetOf(Held(i)) /\ cache[i].tag = Held(i) \div num_sets
  <2>1. cache[i].lru \in 1 .. accesses /\ i \in SetOf(Held(i)) /\ cache[i].tag = Held(i) \div num_sets
    BY <1>2, Zenon DEF CellsAreTrue
  <2>2. cache[i].lru \in 1 .. SimLength
    BY <2>1, SimConstants, SMTT(30) DEF CacheType
  <2>3. Held(i) \in Nat
    BY <2>2, Zenon DEF Held, CacheType
  <2> QED
    BY <2>1, <2>3, Zenon
<1>3. ASSUME NEW i \in Found(a) PROVE i \in DOMAIN cache /\ cache[i].valid /\ Held(i) = a
  <2>1. i \in SetOf(a) /\ i \in DOMAIN cache /\ cache[i].valid /\ cache[i].tag = a \div num_sets
    BY <1>1, Zenon DEF Found
  <2>2. Held(i) \in Nat /\ i \in SetOf(Held(i)) /\ cache[i].tag = Held(i) \div num_sets
    BY <1>2, <2>1, Zenon
  <2>3. SetOf(Held(i)) \cap SetOf(a) # {}
    BY <2>1, <2>2, Zenon
  <2>4. Held(i) % num_sets = a % num_sets
    BY <1>1, <2>2, <2>3, Zenon
  <2>5. Held(i) = a
    BY <1>1, <2>1, <2>2, <2>4, Zenon
  <2> QED
    BY <2>1, <2>5, Zenon
<1>4. ASSUME NEW i \in DOMAIN cache, cache[i].valid, Held(i) = a PROVE i \in Found(a)
  BY <1>2, <1>4, Zenon DEF Found
<1> QED
  BY <1>3, <1>4, Zenon

\* A mapping onto a set bounds it; a mapping one to one is bounded by it.
LEMMA Onto ==
    ASSUME NEW S, NEW T, IsFiniteSet(S), NEW f \in [S -> T], \A t \in T : \E s \in S : f[s] = t
    PROVE  IsFiniteSet(T) /\ Cardinality(T) <= Cardinality(S)
<1>1. f \in Surjection(S, T)
  BY Zenon DEF Surjection
<1> QED
  BY <1>1, FS_Surjection, Zenon

\* The other half: as many values as arguments at least.
LEMMA OneToOne ==
    ASSUME NEW S, NEW T, IsFiniteSet(T), NEW f \in [S -> T], \A s, t \in S : f[s] = f[t] => s = t
    PROVE  Cardinality(S) <= Cardinality(T)
<1>1. IsInjective(f)
  BY DEF IsInjective
<1>2. f \in Injection(S, T)
  BY <1>1, Zenon DEF Injection
<1> QED
  BY <1>2, FS_Injection, Zenon

\* The other addresses of n's set used since its last use.
Between(n, last) ==
    {addrs[i] : i \in {j \in last + 1 .. n - 1 : addrs[j] % num_sets = addrs[n] % num_sets}}

\* What Hits says, by the last use of the line.
LEMMA HitsByLast ==
    ASSUME CacheType, NEW n \in 1 .. SimLength
    PROVE  /\ \A last \in 1 .. n - 1 :
                 addrs[last] = addrs[n] /\ (\A j \in last + 1 .. n - 1 : addrs[j] # addrs[n]) =>
                 (Hits(n) <=> Cardinality(Between(n, last)) < cfg.assoc)
           /\ (\A j \in 1 .. n - 1 : addrs[j] # addrs[n]) => ~Hits(n)
           /\ \/ \A j \in 1 .. n - 1 : addrs[j] # addrs[n]
              \/ \E last \in 1 .. n - 1 :
                   addrs[last] = addrs[n] /\ (\A j \in last + 1 .. n - 1 : addrs[j] # addrs[n])
<1> DEFINE same == {i \in 1 .. n - 1 : addrs[i] = addrs[n]}
<1>1. Hits(n) <=> same # {} /\ Cardinality(Between(n, Max(same))) < cfg.assoc
  BY Zenon DEF Hits, Between
<1>2. ASSUME same # {} PROVE Max(same) \in same /\ \A y \in same : y <= Max(same)
  <2>1. same \subseteq 0 .. n /\ n \in Nat
    BY SimConstants
  <2> QED
    BY <1>2, <2>1, GreatestNat, Zenon
<1>3. ASSUME NEW last \in 1 .. n - 1, addrs[last] = addrs[n],
             \A j \in last + 1 .. n - 1 : addrs[j] # addrs[n]
      PROVE  Hits(n) <=> Cardinality(Between(n, last)) < cfg.assoc
  <2>1. last \in same
    BY <1>3, Zenon
  <2>2. Max(same) \in same /\ last <= Max(same)
    BY <1>2, <2>1, Zenon
  <2>3. Max(same) \in 1 .. n - 1 /\ addrs[Max(same)] = addrs[n]
    BY <2>2, Zenon
  <2>4. Max(same) \notin last + 1 .. n - 1
    BY <1>3, <2>3, Zenon
  <2> HIDE DEF same
  <2>5. Max(same) = last
    BY <2>2, <2>3, <2>4
  <2> QED
    BY <1>1, <2>1, <2>5, Zenon
<1>4. (\A j \in 1 .. n - 1 : addrs[j] # addrs[n]) => ~Hits(n)
  BY <1>1, Zenon
<1>5. ASSUME NEW k \in 1 .. n - 1, addrs[k] = addrs[n]
      PROVE  \E last \in 1 .. n - 1 :
                addrs[last] = addrs[n] /\ (\A j \in last + 1 .. n - 1 : addrs[j] # addrs[n])
  <2>1. Max(same) \in same /\ \A y \in same : y <= Max(same)
    BY <1>2, <1>5, Zenon
  <2> DEFINE m == Max(same)
  <2>2. m \in 1 .. n - 1 /\ addrs[m] = addrs[n] /\ \A y \in 1 .. n - 1 : addrs[y] = addrs[n] => y <= m
    BY <2>1, Zenon
  <2> HIDE DEF m
  <2>3. ASSUME NEW j \in m + 1 .. n - 1 PROVE addrs[j] # addrs[n]
    <3>1. j \in 1 .. n - 1 /\ ~(j <= m)
      BY <2>2
    <3> QED
      BY <2>2, <3>1, Zenon
  <2> QED
    BY <2>2, <2>3, Zenon
<1> QED
  BY <1>3, <1>4, <1>5, Zenon

\* An access hits in the simulated cache exactly when the definition says so:
\* what was used since the last use of a line is held by the other cells of
\* the set, and where the line is gone they all hold something used since.
LEMMA FoundIffHits ==
    ASSUME CacheType, CacheRuns, CellsAreTrue, CellsDiffer, UsedIsHeld, accesses < SimLength
    PROVE  Found(addrs[accesses + 1]) # {} <=> Hits(accesses + 1)
<1> DEFINE n == accesses + 1
           a == addrs[n]
<1>0. accesses \in Nat /\ SimLength \in Nat /\ n \in 1 .. SimLength /\ n - 1 = accesses
  BY SimConstants DEF CacheType
<1>1. addrs \in [1 .. SimLength -> Nat] /\ cfg.assoc \in Nat \ {0}
  BY DEF CacheType, CacheRuns
<1>2. /\ num_sets \in Nat \ {0}
      /\ \A b \in Nat : /\ SetOf(b) \subseteq DOMAIN cache
                        /\ IsFiniteSet(SetOf(b)) /\ Cardinality(SetOf(b)) = cfg.assoc
      /\ \A b, c \in Nat : (SetOf(b) \cap SetOf(c) # {} => b % num_sets = c % num_sets)
      /\ \A b, c \in Nat : (b % num_sets = c % num_sets => SetOf(b) = SetOf(c))
  BY SetsApart, Zenon
<1>3. a \in Nat
  BY <1>0, <1>1, Zenon
<1>4. \A i : i \in Found(a) <=> i \in DOMAIN cache /\ cache[i].valid /\ Held(i) = a
  BY <1>3, FoundIsHeld, Zenon
<1>5. ASSUME NEW j \in 1 .. accesses PROVE addrs[j] \in Nat /\ j \in Nat
  <2>1. j \in 1 .. SimLength /\ j \in Nat
    BY <1>0
  <2> QED
    BY <1>1, <2>1, Zenon
<1>6. ASSUME NEW last \in 1 .. accesses
      PROVE  /\ \A x : x \in Between(n, last) <=>
                   \E j \in last + 1 .. accesses : x = addrs[j] /\ addrs[j] % num_sets = a % num_sets
             /\ IsFiniteSet(Between(n, last)) /\ Cardinality(Between(n, last)) \in Nat
  <2>1. \A x : x \in Between(n, last) <=>
                \E j \in last + 1 .. accesses : x = addrs[j] /\ addrs[j] % num_sets = a % num_sets
    BY <1>0, Zenon DEF Between
  <2> DEFINE J == {j \in last + 1 .. accesses : addrs[j] % num_sets = a % num_sets}
             f == [j \in J |-> addrs[j]]
  <2>2. last + 1 \in Int /\ accesses \in Int
    BY <1>0
  <2>3. IsFiniteSet(last + 1 .. accesses)
    BY <2>2, FS_Interval, Zenon
  <2>4. IsFiniteSet(J)
    <3>1. J \in SUBSET (last + 1 .. accesses)
      BY Zenon
    <3> QED
      BY <2>3, <3>1, FS_Subset, Zenon
  <2>5. f \in [J -> Between(n, last)] /\ \A x \in Between(n, last) : \E j \in J : f[j] = x
    BY <2>1, Zenon
  <2> HIDE DEF f, J
  <2>6. IsFiniteSet(Between(n, last))
    BY <2>4, <2>5, Onto, Zenon
  <2> QED
    BY <2>1, <2>6, FS_CardinalityType, Zenon
<1> HIDE DEF n, a
<1>7. ASSUME NEW i \in Found(a) PROVE Hits(n)
  <2>1. i \in SetOf(a) /\ i \in DOMAIN cache /\ cache[i].valid /\ Held(i) = a
    BY <1>4, Zenon DEF Found
  <2> DEFINE last == cache[i].lru
  <2>2. last \in 1 .. accesses /\ addrs[last] = a /\ \A j \in last + 1 .. accesses : addrs[j] # a
    BY <2>1, Zenon DEF CellsAreTrue, Held
  <2>3. Hits(n) <=> Cardinality(Between(n, last)) < cfg.assoc
    <3>1. n \in 1 .. SimLength /\ n - 1 = accesses /\ a = addrs[n]
      BY <1>0, Zenon DEF a
    <3> QED
      BY <2>2, <3>1, HitsByLast, Zenon
  <2> DEFINE B == Between(n, last)
             O == {k \in SetOf(a) \ {i} : cache[k].valid /\ Held(k) \in B}
             f == [k \in O |-> Held(k)]
  <2>4. ASSUME NEW x \in B PROVE \E k \in O : Held(k) = x
    <3>1. PICK j \in last + 1 .. accesses : x = addrs[j] /\ addrs[j] % num_sets = a % num_sets
      BY <1>6, <2>2, ZenonT(60)
    <3>2. j \in 1 .. accesses /\ j > last
      BY <1>0, <2>2
    <3>3. x # a /\ x \in Nat
      BY <1>5, <2>2, <3>1, <3>2, Zenon
    <3>4. SetOf(addrs[j]) = SetOf(a)
      BY <1>2, <1>3, <3>1, <3>3, Zenon
    <3>5. ~(last > j)
      BY <1>0, <2>2, <3>2
    <3>6. PICK k \in SetOf(a) : cache[k].valid /\ Held(k) = addrs[j]
      BY <2>1, <3>2, <3>4, <3>5, Zenon DEF UsedIsHeld
    <3>7. k # i
      BY <2>1, <3>1, <3>3, <3>6, Zenon
    <3> QED
      BY <3>1, <3>6, <3>7, Zenon
  <2>5. IsFiniteSet(SetOf(a) \ {i}) /\ Cardinality(SetOf(a) \ {i}) = cfg.assoc - 1
    BY <1>2, <1>3, <2>1, FS_RemoveElement, ZenonT(60)
  <2>6. O \in SUBSET (SetOf(a) \ {i})
    BY Zenon
  <2>7. f \in [O -> B] /\ \A x \in B : \E k \in O : f[k] = x
    BY <2>4, Zenon
  <2> HIDE DEF O, f
  <2>8. IsFiniteSet(O) /\ Cardinality(O) <= cfg.assoc - 1
    <3> DEFINE S == SetOf(a) \ {i}
    <3>1. IsFiniteSet(S) /\ O \in SUBSET S /\ Cardinality(S) = cfg.assoc - 1
      BY <2>5, <2>6, Zenon
    <3> HIDE DEF S
    <3>2. IsFiniteSet(O) /\ Cardinality(O) <= Cardinality(S)
      BY <3>1, FS_Subset, Zenon
    <3> QED
      BY <3>1, <3>2, Zenon
  <2>9. Cardinality(B) <= Cardinality(O) /\ Cardinality(O) \in Nat
    BY <2>7, <2>8, Onto, FS_CardinalityType, Zenon
  <2>10. Cardinality(B) \in Nat
    BY <1>6, <2>2, Zenon
  <2>11. Cardinality(B) < cfg.assoc
    BY <1>1, <2>8, <2>9, <2>10
  <2> QED
    BY <2>3, <2>11, Zenon
<1>8. ASSUME Found(a) = {} PROVE ~Hits(n)
  <2>0. n \in 1 .. SimLength /\ n - 1 = accesses /\ a = addrs[n]
    BY <1>0, Zenon DEF a
  <2>1. CASE \A j \in 1 .. n - 1 : addrs[j] # addrs[n]
    BY <2>0, <2>1, HitsByLast, Zenon
  <2>2. CASE \E last \in 1 .. n - 1 :
               addrs[last] = addrs[n] /\ (\A j \in last + 1 .. n - 1 : addrs[j] # addrs[n])
    <3>1. PICK last \in 1 .. n - 1 :
                 addrs[last] = addrs[n] /\ (\A j \in last + 1 .. n - 1 : addrs[j] # addrs[n])
      BY <2>2, Zenon
    <3>2. Hits(n) <=> Cardinality(Between(n, last)) < cfg.assoc
      BY <2>0, <3>1, HitsByLast, Zenon
    <3>3. last \in 1 .. accesses /\ addrs[last] = a
      BY <2>0, <3>1, Zenon
    <3>4. SetOf(a) \subseteq DOMAIN cache
      BY <1>2, <1>3, Zenon
    <3>5. \A i \in SetOf(a) : cache[i].valid /\ cache[i].lru > last
      BY <1>4, <1>8, <3>3, <3>4, Zenon DEF UsedIsHeld
    <3> DEFINE B == Between(n, last)
               f == [i \in SetOf(a) |-> Held(i)]
    <3>6. ASSUME NEW i \in SetOf(a) PROVE Held(i) \in B
      <4>1. i \in DOMAIN cache /\ cache[i].valid /\ cache[i].lru > last
        BY <3>4, <3>5, Zenon
      <4>2. cache[i].lru \in 1 .. accesses /\ i \in SetOf(Held(i))
        BY <4>1, Zenon DEF CellsAreTrue
      <4>3. cache[i].lru \in last + 1 .. accesses
        BY <1>0, <3>3, <4>1, <4>2
      <4>4. Held(i) = addrs[cache[i].lru] /\ Held(i) \in Nat
        BY <1>5, <4>2, Zenon DEF Held
      <4>5. Held(i) % num_sets = a % num_sets
        <5>1. SetOf(Held(i)) \cap SetOf(a) # {}
          BY <4>2, Zenon
        <5> QED
          BY <1>2, <1>3, <4>4, <5>1, Zenon
      <4> QED
        BY <1>6, <3>3, <4>3, <4>4, <4>5, ZenonT(60)
    <3>7. f \in [SetOf(a) -> B]
      BY <3>6, Zenon
    <3>8. \A i, k \in SetOf(a) : f[i] = f[k] => i = k
      <4>1. \A i \in SetOf(a) : f[i] = Held(i) /\ cache[i].valid /\ i \in DOMAIN cache
        BY <3>4, <3>5, Zenon
      <4> HIDE DEF f
      <4> QED
        BY <4>1, Zenon DEF CellsDiffer
    <3> HIDE DEF f
    <3>9. IsFiniteSet(B) /\ Cardinality(B) \in Nat
      BY <1>6, <3>3, Zenon
    <3>10. Cardinality(SetOf(a)) <= Cardinality(B)
      BY <3>7, <3>8, <3>9, OneToOne, Zenon
    <3>11. Cardinality(SetOf(a)) = cfg.assoc
      BY <1>2, <1>3, Zenon
    <3>12. ~(Cardinality(B) < cfg.assoc)
      BY <1>1, <3>9, <3>10, <3>11
    <3> QED
      BY <3>2, <3>12, Zenon
  <2> QED
    BY <2>0, <2>1, <2>2, HitsByLast, Zenon
<1> QED
  BY <1>7, <1>8, Zenon DEF n, a

-----------------------------------------------------------------------------
(* What an access replaces *)

\* The victim is a cell of the set: one that is free, or none is and it is
\* the one used least lately.
LEMMA VictimIsOldest ==
    ASSUME CacheType, NEW set, set \subseteq DOMAIN cache, set \subseteq Nat, set # {}
    PROVE  /\ Victim(set) \in set
           /\ cache[Victim(set)].valid =>
                \A k \in set : cache[k].valid /\ cache[Victim(set)].lru <= cache[k].lru
<1>1. CASE \E i \in set : ~cache[i].valid
  <2> DEFINE free == {i \in set : ~cache[i].valid}
  <2>1. free \subseteq Nat /\ free # {}
    BY <1>1, Zenon
  <2>2. Min(free) \in free
    BY <2>1, LeastNat, Zenon
  <2>3. Victim(set) = Min(free)
    BY <1>1, Zenon DEF Victim
  <2> QED
    BY <2>2, <2>3, Zenon
<1>2. CASE ~(\E i \in set : ~cache[i].valid)
  <2> DEFINE uses == {cache[i].lru : i \in set}
  <2>1. \A i \in set : cache[i].lru \in Nat
    BY SMTT(30) DEF CacheType
  <2>2. uses \subseteq Nat /\ uses # {}
    BY <2>1, Zenon
  <2>3. Min(uses) \in uses /\ \A y \in uses : Min(uses) <= y
    BY <2>2, LeastNat, Zenon
  <2>4. PICK i \in set : cache[i].lru = Min(uses)
    BY <2>3, Zenon
  <2>5. \A j \in set : cache[i].lru <= cache[j].lru
    BY <2>3, <2>4, Zenon
  <2>6. Victim(set) = CHOOSE k \in set : \A j \in set : cache[k].lru <= cache[j].lru
    BY <1>2, Zenon DEF Victim
  <2>7. Victim(set) \in set /\ \A j \in set : cache[Victim(set)].lru <= cache[j].lru
    BY <2>5, <2>6, Zenon
  <2> QED
    BY <1>2, <2>7, Zenon
<1> QED
  BY <1>1, <1>2, Zenon

\* The access puts its line into a cell of its set: the one that holds it, or
\* one that is free, or the one used least lately.
PutIn(i) ==
    LET a == addrs[accesses + 1]
    IN  /\ i \in SetOf(a)
        /\ cache' = [cache EXCEPT ![i] = [valid |-> TRUE, tag |-> a \div num_sets, lru |-> accesses + 1]]
        /\ \A k \in DOMAIN cache : cache[k].valid /\ Held(k) = a => k = i
        /\ cache[i].valid /\ Held(i) # a =>
             \A k \in SetOf(a) : cache[k].valid /\ cache[i].lru <= cache[k].lru

\* It keeps what the cells say true.
LEMMA PutInKeeps ==
    ASSUME CacheType, CacheRuns, CellsAreTrue, CellsDiffer, UsedIsHeld, accesses < SimLength,
           accesses' = accesses + 1, UNCHANGED <<cfg, addrs>>, NEW i, PutIn(i)
    PROVE  /\ cache' \in [0 .. cfg.num_lines - 1 -> [valid : BOOLEAN, tag : Nat, lru : Nat]]
           /\ ValidCells' = ValidCells \cup {i}
           /\ CellsAreTrue' /\ CellsDiffer' /\ UsedIsHeld'
<1> DEFINE n == accesses + 1
           a == addrs[n]
<1>0. accesses \in Nat /\ SimLength \in Nat /\ n \in 1 .. SimLength /\ n \in Nat
  BY SimConstants DEF CacheType
<1>1. /\ addrs \in [1 .. SimLength -> Nat]
      /\ cache \in [0 .. cfg.num_lines - 1 -> [valid : BOOLEAN, tag : Nat, lru : Nat]]
  BY DEF CacheType
<1>2. /\ num_sets \in Nat \ {0}
      /\ \A b \in Nat : SetOf(b) \subseteq DOMAIN cache
      /\ \A b, c \in Nat : (SetOf(b) \cap SetOf(c) # {} => b % num_sets = c % num_sets)
      /\ \A b, c \in Nat : (b % num_sets = c % num_sets => SetOf(b) = SetOf(c))
  BY SetsApart, Zenon
<1>3. a \in Nat /\ a \div num_sets \in Nat
  <2>1. a \in Nat
    BY <1>0, <1>1, Zenon
  <2> QED
    BY <1>2, <2>1, Divided
<1>4. /\ i \in SetOf(a) /\ i \in DOMAIN cache
      /\ cache' = [cache EXCEPT ![i] = [valid |-> TRUE, tag |-> a \div num_sets, lru |-> n]]
      /\ \A k \in DOMAIN cache : cache[k].valid /\ Held(k) = a => k = i
      /\ cache[i].valid /\ Held(i) # a =>
           \A k \in SetOf(a) : cache[k].valid /\ cache[i].lru <= cache[k].lru
  BY <1>2, <1>3, Zenon DEF PutIn
<1> HIDE DEF a, n
<1>5. /\ cache' \in [0 .. cfg.num_lines - 1 -> [valid : BOOLEAN, tag : Nat, lru : Nat]]
      /\ DOMAIN cache' = DOMAIN cache
      /\ cache'[i].valid /\ cache'[i].tag = a \div num_sets /\ cache'[i].lru = n
      /\ \A k \in DOMAIN cache : k # i => cache'[k] = cache[k]
  BY <1>0, <1>1, <1>3, <1>4
<1>6. addrs' = addrs /\ cfg' = cfg /\ accesses' = n
  BY DEF n
<1>7. num_sets' = num_sets /\ \A b : SetOf(b)' = SetOf(b)
  BY <1>6 DEF num_sets, SetOf
<1>8. Held(i)' = a /\ \A k \in DOMAIN cache : k # i => Held(k)' = Held(k)
  <2>1. Held(i)' = addrs[n]
    BY <1>5, <1>6, Zenon DEF Held
  <2> QED
    BY <1>5, <1>6, <2>1, Zenon DEF Held, a
<1>9. 1 .. accesses \subseteq 1 .. n /\ n \notin 1 .. accesses /\ \A j \in 1 .. n : j \in 1 .. accesses \/ j = n
  BY <1>0 DEF n
<1>10. ASSUME NEW k \in DOMAIN cache, k # i, cache[k].valid
       PROVE  /\ Held(k) # a /\ Held(k) \in Nat /\ cache[k].lru \in 1 .. accesses
              /\ k \in SetOf(Held(k)) /\ cache[k].tag = Held(k) \div num_sets
              /\ \A j \in cache[k].lru + 1 .. accesses : addrs[j] # Held(k)
  <2>1. /\ cache[k].lru \in 1 .. accesses
        /\ k \in SetOf(Held(k)) /\ cache[k].tag = Held(k) \div num_sets
        /\ \A j \in cache[k].lru + 1 .. accesses : addrs[j] # Held(k)
    BY <1>10, Zenon DEF CellsAreTrue
  <2>2. cache[k].lru \in 1 .. SimLength
    BY <1>0, <2>1
  <2>3. Held(k) \in Nat
    BY <1>1, <2>2, Zenon DEF Held
  <2> QED
    BY <1>4, <1>10, <2>1, <2>3, Zenon
<1>11. ValidCells' = ValidCells \cup {i}
  BY <1>4, <1>5, ZenonT(30) DEF ValidCells
<1>12. CellsAreTrue'
  <2>1. SUFFICES ASSUME NEW k \in DOMAIN cache, cache'[k].valid
                 PROVE  /\ cache'[k].lru \in 1 .. n
                        /\ k \in SetOf(Held(k)') /\ cache'[k].tag = Held(k)' \div num_sets
                        /\ \A j \in cache'[k].lru + 1 .. n : addrs[j] # Held(k)'
    BY <1>5, <1>6, <1>7, ZenonT(60) DEF CellsAreTrue
  <2>2. CASE k = i
    <3>1. n \in 1 .. n /\ n + 1 .. n = {}
      BY <1>0 DEF n
    <3> QED
      BY <1>4, <1>5, <1>8, <2>2, <3>1, Zenon
  <2>3. CASE k # i
    <3>1. cache'[k] = cache[k] /\ Held(k)' = Held(k)
      BY <1>5, <1>8, <2>3, Zenon
    <3>2. /\ Held(k) # a /\ cache[k].lru \in 1 .. accesses
          /\ k \in SetOf(Held(k)) /\ cache[k].tag = Held(k) \div num_sets
          /\ \A j \in cache[k].lru + 1 .. accesses : addrs[j] # Held(k)
      BY <1>10, <2>1, <2>3, <3>1, Zenon
    <3>3. \A j \in cache[k].lru + 1 .. n : j \in cache[k].lru + 1 .. accesses \/ j = n
      BY <1>0, <3>2 DEF n
    <3>4. \A j \in cache[k].lru + 1 .. n : addrs[j] # Held(k)
      BY <3>2, <3>3, Zenon DEF a
    <3> QED
      BY <1>9, <3>1, <3>2, <3>4, Zenon
  <2> QED
    BY <2>2, <2>3, Zenon
<1>13. CellsDiffer'
  <2>1. SUFFICES ASSUME NEW j \in DOMAIN cache, NEW k \in DOMAIN cache,
                        cache'[j].valid, cache'[k].valid, Held(j)' = Held(k)'
                 PROVE  j = k
    BY <1>5, Zenon DEF CellsDiffer
  <2>2. CASE j # i /\ k # i
    BY <1>5, <1>8, <2>1, <2>2, Zenon DEF CellsDiffer
  <2>3. CASE j = i /\ k # i
    BY <1>5, <1>8, <1>10, <2>1, <2>3, Zenon
  <2>4. CASE j # i /\ k = i
    BY <1>5, <1>8, <1>10, <2>1, <2>4, Zenon
  <2> QED
    BY <2>2, <2>3, <2>4, Zenon
<1>14. UsedIsHeld'
  <2>1. SUFFICES ASSUME NEW j \in 1 .. n
                 PROVE  \/ \E k \in SetOf(addrs[j]) : cache'[k].valid /\ Held(k)' = addrs[j]
                        \/ \A k \in SetOf(addrs[j]) : cache'[k].valid /\ cache'[k].lru > j
    BY <1>6, <1>7, Zenon DEF UsedIsHeld
  <2>2. CASE addrs[j] = a
    BY <1>4, <1>5, <1>8, <2>2, Zenon
  <2>3. CASE addrs[j] # a
    <3>1. j \in 1 .. accesses
      BY <1>9, <2>3, Zenon DEF a
    <3>2. addrs[j] \in Nat /\ j \in Nat /\ n > j
      <4>1. j \in 1 .. SimLength /\ j \in Nat /\ n > j
        BY <1>0, <3>1 DEF n
      <4> QED
        BY <1>1, <4>1, Zenon
    <3>3. SetOf(addrs[j]) \subseteq DOMAIN cache
      BY <1>2, <3>2, Zenon
    <3>4. CASE \A k \in SetOf(addrs[j]) : cache[k].valid /\ cache[k].lru > j
      BY <1>5, <3>2, <3>3, <3>4, Zenon
    <3>5. CASE \E k \in SetOf(addrs[j]) : cache[k].valid /\ Held(k) = addrs[j]
      <4>1. PICK k \in SetOf(addrs[j]) : cache[k].valid /\ Held(k) = addrs[j]
        BY <3>5, Zenon
      <4>2. CASE k # i
        BY <1>5, <1>8, <3>3, <4>1, <4>2, Zenon
      <4>3. CASE k = i
        <5>1. cache[i].valid /\ Held(i) = addrs[j] /\ i \in SetOf(addrs[j])
          BY <4>1, <4>3, Zenon
        <5>2. SetOf(addrs[j]) = SetOf(a)
          <6>1. SetOf(addrs[j]) \cap SetOf(a) # {}
            BY <1>4, <5>1, Zenon
          <6> QED
            BY <1>2, <1>3, <3>2, <6>1, Zenon
        <5>3. \A m \in SetOf(a) : cache[m].valid /\ cache[i].lru <= cache[m].lru
          BY <1>4, <2>3, <5>1, Zenon
        <5>4. cache[i].lru \in 1 .. accesses /\ \A m \in cache[i].lru + 1 .. accesses : addrs[m] # Held(i)
          BY <1>4, <5>1, Zenon DEF CellsAreTrue
        <5>5. j \notin cache[i].lru + 1 .. accesses
          BY <5>1, <5>4, Zenon
        <5>6. j <= cache[i].lru
          BY <1>0, <3>1, <5>4, <5>5
        <5>7. ASSUME NEW m \in SetOf(a), m # i PROVE cache'[m].valid /\ cache'[m].lru > j
          <6>1. m \in DOMAIN cache /\ cache[m].valid /\ cache'[m] = cache[m] /\ cache[i].lru <= cache[m].lru
            BY <1>5, <3>3, <5>2, <5>3, <5>7, Zenon
          <6>2. cache[m].lru # cache[i].lru
            <7> SUFFICES ASSUME cache[m].lru = cache[i].lru PROVE FALSE
              OBVIOUS
            <7>1. Held(m) = Held(i)
              BY Zenon DEF Held
            <7> QED
              BY <1>4, <5>1, <5>7, <6>1, <7>1, Zenon DEF CellsDiffer
          <6>3. cache[m].lru \in 1 .. accesses
            BY <1>10, <5>7, <6>1, Zenon
          <6>4. cache[m].lru > j
            BY <1>0, <3>2, <5>4, <5>6, <6>1, <6>2, <6>3, SMTT(30)
          <6> QED
            BY <6>1, <6>4, Zenon
        <5> QED
          BY <1>5, <3>2, <5>2, <5>7, Zenon
      <4> QED
        BY <4>2, <4>3, Zenon
    <3> QED
      BY <3>1, <3>4, <3>5, Zenon DEF UsedIsHeld
  <2> QED
    BY <2>2, <2>3, Zenon
<1> QED
  BY <1>5, <1>11, <1>12, <1>13, <1>14, Zenon

\* One access more: what hits up to it.
LEMMA HitsNext ==
    ASSUME NEW n \in Nat
    PROVE  /\ IsFiniteSet(HitsUpTo(n)) /\ Cardinality(HitsUpTo(n)) \in Nat
           /\ Cardinality(HitsUpTo(n + 1)) = Cardinality(HitsUpTo(n)) + (IF Hits(n + 1) THEN 1 ELSE 0)
<1>1. IsFiniteSet(1 .. n)
  BY FS_Interval
<1>2. HitsUpTo(n) \in SUBSET (1 .. n)
  BY Zenon DEF HitsUpTo
<1>3. IsFiniteSet(HitsUpTo(n)) /\ Cardinality(HitsUpTo(n)) \in Nat
  BY <1>1, <1>2, FS_Subset, FS_CardinalityType, Zenon
<1>4. 1 .. n + 1 = (1 .. n) \cup {n + 1} /\ n + 1 \notin 1 .. n
  OBVIOUS
<1>5. CASE Hits(n + 1)
  <2>1. HitsUpTo(n + 1) = HitsUpTo(n) \cup {n + 1} /\ n + 1 \notin HitsUpTo(n)
    BY <1>4, <1>5, ZenonT(30) DEF HitsUpTo
  <2>2. Cardinality(HitsUpTo(n + 1)) = Cardinality(HitsUpTo(n)) + 1
    BY <1>3, <2>1, FS_AddElement, Zenon
  <2> QED
    BY <1>3, <1>5, <2>2, Zenon
<1>6. CASE ~Hits(n + 1)
  <2>1. HitsUpTo(n + 1) = HitsUpTo(n)
    BY <1>4, <1>6, ZenonT(30) DEF HitsUpTo
  <2>2. Cardinality(HitsUpTo(n)) = Cardinality(HitsUpTo(n)) + 0
    BY <1>3
  <2> QED
    BY <1>3, <1>6, <2>1, <2>2, Zenon
<1> QED
  BY <1>5, <1>6, Zenon

\* An access keeps the invariant of the cache.
LEMMA AccessInv ==
    ASSUME CacheInv, Access
    PROVE  CacheInv'
<1> DEFINE n == accesses + 1
           a == addrs[n]
           used == [valid |-> TRUE, tag |-> a \div num_sets, lru |-> n]
<1>0. CacheType /\ CacheRuns /\ CellsAreTrue /\ CellsDiffer /\ UsedIsHeld /\ Counted /\ accesses < SimLength
  BY Zenon DEF CacheInv, Access
<1>1. /\ accesses \in Nat /\ n \in 1 .. SimLength /\ n \in Nat /\ n \in 0 .. SimLength
      /\ addrs \in [1 .. SimLength -> Nat] /\ stats \in [hits : Nat, misses : Nat, evictions : Nat]
  BY <1>0, SimConstants DEF CacheType
<1>2. a \in Nat
  BY <1>1, Zenon
<1>3. \/ /\ Found(a) # {}
         /\ cache' = [cache EXCEPT ![Min(Found(a))] = used]
         /\ stats' = [stats EXCEPT !.hits = @ + 1]
      \/ /\ Found(a) = {}
         /\ cache' = [cache EXCEPT ![Victim(SetOf(a))] = used]
         /\ stats' = [stats EXCEPT !.misses = @ + 1,
                                   !.evictions = IF cache[Victim(SetOf(a))].valid THEN @ + 1 ELSE @]
  BY Zenon DEF Access, Found
<1>4. accesses' = n /\ UNCHANGED <<cfg, addrs>>
  BY Zenon DEF Access
<1>5. SetOf(a) \subseteq DOMAIN cache /\ SetOf(a) # {} /\ SetOf(a) \subseteq Nat
  BY <1>0, <1>2, SetsApart, Zenon
<1>6. \A i : i \in Found(a) <=> i \in DOMAIN cache /\ cache[i].valid /\ Held(i) = a
  BY <1>0, <1>2, FoundIsHeld, Zenon
<1>7. Found(a) # {} <=> Hits(n)
  BY <1>0, FoundIffHits, Zenon
<1>8. \A k : Hits(k)' = Hits(k)
  BY <1>4 DEF Hits, num_sets
<1>9. HitsUpTo(accesses)' = HitsUpTo(n)
  BY <1>4, <1>8, Zenon DEF HitsUpTo
<1>10. /\ Cardinality(HitsUpTo(accesses)) \in Nat
       /\ Cardinality(HitsUpTo(n)) = Cardinality(HitsUpTo(accesses)) + (IF Hits(n) THEN 1 ELSE 0)
  BY <1>1, HitsNext, Zenon
<1>11. IsFiniteSet(ValidCells) /\ Cardinality(ValidCells) \in Nat
  <2>1. DOMAIN cache = 0 .. cfg.num_lines - 1 /\ 0 \in Int /\ cfg.num_lines - 1 \in Int
    BY <1>0 DEF CacheType
  <2>2. IsFiniteSet(DOMAIN cache)
    BY <2>1, FS_Interval, Zenon
  <2>3. ValidCells \in SUBSET DOMAIN cache
    BY Zenon DEF ValidCells
  <2> QED
    BY <2>2, <2>3, FS_Subset, FS_CardinalityType, Zenon
<1>12. ASSUME NEW i, PutIn(i)
       PROVE  /\ cache' \in [0 .. cfg.num_lines - 1 -> [valid : BOOLEAN, tag : Nat, lru : Nat]]
              /\ ValidCells' = ValidCells \cup {i}
              /\ CellsAreTrue' /\ CellsDiffer' /\ UsedIsHeld'
  BY <1>0, <1>4, <1>12, PutInKeeps, Zenon
<1>13. ASSUME NEW i, PutIn(i), stats' \in [hits : Nat, misses : Nat, evictions : Nat], Counted'
       PROVE  CacheInv'
  <2>1. cfg' = cfg /\ addrs' = addrs
    BY <1>4
  <2>2. CacheType'
    BY <1>0, <1>1, <1>4, <1>12, <1>13, <2>1, Zenon DEF CacheType
  <2> QED
    BY <1>12, <1>13, <2>2, Zenon DEF CacheInv
<1>14. CASE Found(a) # {}
  <2> DEFINE i == Min(Found(a))
  <2>1. i \in Found(a) /\ Found(a) \subseteq SetOf(a)
    <3>1. Found(a) \subseteq SetOf(a)
      BY Zenon DEF Found
    <3>2. Found(a) \subseteq Nat
      BY <1>5, <3>1, Zenon
    <3> QED
      BY <1>14, <3>1, <3>2, LeastNat, Zenon
  <2>2. cache' = [cache EXCEPT ![i] = used] /\ stats' = [stats EXCEPT !.hits = @ + 1]
    BY <1>3, <1>14, Zenon
  <2> HIDE DEF i
  <2>3. i \in SetOf(a) /\ i \in DOMAIN cache /\ cache[i].valid /\ Held(i) = a
    BY <1>6, <2>1, Zenon
  <2>4. \A k \in DOMAIN cache : cache[k].valid /\ Held(k) = a => k = i
    BY <1>0, <2>3, Zenon DEF CellsDiffer
  <2>5. PutIn(i)
    BY <2>2, <2>3, <2>4, Zenon DEF PutIn
  <2>6. ValidCells' = ValidCells
    <3>1. i \in ValidCells
      BY <2>3, Zenon DEF ValidCells
    <3> QED
      BY <1>12, <2>5, <3>1, Zenon
  <2>7. /\ stats' \in [hits : Nat, misses : Nat, evictions : Nat] /\ stats'.hits = stats.hits + 1
        /\ stats'.misses = stats.misses /\ stats'.evictions = stats.evictions
    BY <1>1, <2>2
  <2>8. Cardinality(HitsUpTo(n)) = Cardinality(HitsUpTo(accesses)) + 1
    BY <1>7, <1>10, <1>14, Zenon
  <2>9. /\ stats'.hits = Cardinality(HitsUpTo(n)) /\ stats'.misses = n - Cardinality(HitsUpTo(n))
        /\ stats'.evictions = stats'.misses - Cardinality(ValidCells)
    BY <1>0, <1>1, <1>10, <1>11, <2>7, <2>8, SMTT(30) DEF Counted
  <2>10. Counted'
    BY <1>4, <1>9, <2>6, <2>9, Zenon DEF Counted
  <2> QED
    BY <1>13, <2>5, <2>7, <2>10, Zenon
<1>15. CASE Found(a) = {}
  <2> DEFINE i == Victim(SetOf(a))
  <2>1. i \in SetOf(a) /\ (cache[i].valid => \A k \in SetOf(a) : cache[k].valid /\ cache[i].lru <= cache[k].lru)
    BY <1>0, <1>5, VictimIsOldest, Zenon
  <2>2. /\ cache' = [cache EXCEPT ![i] = used]
        /\ stats' = [stats EXCEPT !.misses = @ + 1, !.evictions = IF cache[i].valid THEN @ + 1 ELSE @]
    BY <1>3, <1>15, Zenon
  <2> HIDE DEF i
  <2>3. \A k \in DOMAIN cache : ~(cache[k].valid /\ Held(k) = a)
    BY <1>6, <1>15, Zenon
  <2>4. PutIn(i)
    BY <2>1, <2>2, <2>3, Zenon DEF PutIn
  <2>5. i \in DOMAIN cache
    BY <1>5, <2>1, Zenon
  <2>6. Cardinality(HitsUpTo(n)) = Cardinality(HitsUpTo(accesses))
    BY <1>7, <1>10, <1>15
  <2>7. /\ stats' \in [hits : Nat, misses : Nat, evictions : Nat] /\ stats'.hits = stats.hits
        /\ stats'.misses = stats.misses + 1
        /\ stats'.evictions = IF cache[i].valid THEN stats.evictions + 1 ELSE stats.evictions
    <3>1. CASE cache[i].valid
      <4>1. stats' = [stats EXCEPT !.misses = @ + 1, !.evictions = @ + 1]
        BY <2>2, <3>1, Zenon
      <4>2. /\ stats' \in [hits : Nat, misses : Nat, evictions : Nat] /\ stats'.hits = stats.hits
            /\ stats'.misses = stats.misses + 1 /\ stats'.evictions = stats.evictions + 1
        <5>1. stats' = [hits |-> stats.hits, misses |-> stats.misses + 1, evictions |-> stats.evictions + 1]
          BY <1>1, <4>1, Zenon
        <5> QED
          BY <1>1, <5>1
      <4> QED
        BY <3>1, <4>2, Zenon
    <3>2. CASE ~cache[i].valid
      <4>1. stats' = [stats EXCEPT !.misses = @ + 1, !.evictions = @]
        BY <2>2, <3>2, Zenon
      <4>2. /\ stats' \in [hits : Nat, misses : Nat, evictions : Nat] /\ stats'.hits = stats.hits
            /\ stats'.misses = stats.misses + 1 /\ stats'.evictions = stats.evictions
        <5>1. stats' = [hits |-> stats.hits, misses |-> stats.misses + 1, evictions |-> stats.evictions]
          BY <1>1, <4>1, Zenon
        <5> QED
          BY <1>1, <5>1
      <4> QED
        BY <3>2, <4>2, Zenon
    <3> QED
      BY <3>1, <3>2, Zenon
  <2>8. Cardinality(ValidCells') =
          IF cache[i].valid THEN Cardinality(ValidCells) ELSE Cardinality(ValidCells) + 1
    <3>1. ValidCells' = ValidCells \cup {i} /\ (i \in ValidCells <=> cache[i].valid)
      BY <1>12, <2>4, <2>5, Zenon DEF ValidCells
    <3> QED
      BY <1>11, <3>1, FS_AddElement, Zenon
  <2>9. /\ stats'.hits = Cardinality(HitsUpTo(n)) /\ stats'.misses = n - Cardinality(HitsUpTo(n))
        /\ stats'.evictions = stats'.misses - Cardinality(ValidCells')
    <3>1. /\ stats.hits = Cardinality(HitsUpTo(accesses))
          /\ stats.misses = accesses - Cardinality(HitsUpTo(accesses))
          /\ stats.evictions = stats.misses - Cardinality(ValidCells)
      BY <1>0, Zenon DEF Counted
    <3>2. CASE cache[i].valid
      BY <1>1, <1>10, <1>11, <2>6, <2>7, <2>8, <3>1, <3>2, SMTT(30)
    <3>3. CASE ~cache[i].valid
      BY <1>1, <1>10, <1>11, <2>6, <2>7, <2>8, <3>1, <3>3, SMTT(30)
    <3> QED
      BY <3>2, <3>3, Zenon
  <2>10. Counted'
    BY <1>4, <1>9, <2>9, Zenon DEF Counted
  <2> QED
    BY <1>13, <2>4, <2>7, <2>10, Zenon
<1> QED
  BY <1>14, <1>15, Zenon

\* The statistics of `arch cache-sim` and `arch pipeline-sim` are those of the
\* machines they stand for, for every cache and every program: hits as a
\* least-recently-used cache has them, an eviction for every miss in a full
\* set, one stall per instruction that reads its predecessor's result.
THEOREM SimExact == SimSpec => []SimulatorsAreExact
<1> DEFINE Inv == PipeInv /\ CacheInv
<1>1. CacheInit /\ PipeInit => Inv
  BY CacheInitInv, PipeInitInv, Zenon
<1>2. Inv /\ [SimNext]_<<cacheVars, pipeVars>> => Inv'
  <2> SUFFICES ASSUME Inv, [SimNext]_<<cacheVars, pipeVars>> PROVE Inv'
    BY SMTT(30)
  <2>1. ASSUME UNCHANGED pipeVars PROVE PipeInv'
    <3>1. prog' = prog /\ stage' = stage /\ pc' = pc /\ pipe' = pipe
      BY <2>1, ZenonT(60) DEF pipeVars
    <3> QED
      BY <3>1 DEF PipeInv, Flowing, Stalled, Turns, Fetched, UpTo, Dependent
  <2>2. ASSUME UNCHANGED cacheVars PROVE CacheInv'
    <3>1. cfg' = cfg /\ addrs' = addrs /\ cache' = cache /\ accesses' = accesses /\ stats' = stats
      BY <2>2, Zenon DEF cacheVars
    <3> QED
      BY <3>1 DEF CacheInv, CacheType, CacheRuns, CellsAreTrue, CellsDiffer, UsedIsHeld, Counted, Held,
                  HitsUpTo, ValidCells, Hits, SetOf, num_sets
  <2>3. CASE Access /\ UNCHANGED pipeVars
    BY <2>1, <2>3, AccessInv, Zenon
  <2>4. CASE Cycle /\ UNCHANGED cacheVars
    BY <2>2, <2>4, CycleInv, Zenon
  <2>5. CASE UNCHANGED <<cacheVars, pipeVars>>
    BY <2>1, <2>2, <2>5, Zenon
  <2> QED
    BY <2>3, <2>4, <2>5, Zenon DEF SimNext
<1>3. Inv => SimulatorsAreExact
  <2> SUFFICES ASSUME Inv PROVE SimulatorsAreExact
    OBVIOUS
  <2>1. CacheRuns => Counted
    BY Zenon DEF CacheInv
  <2>2. ~PipeBusy => pipe = [instrs |-> SimLength, stalls |-> Cardinality(Dependent),
                             cycles |-> SimLength + Cardinality(Dependent) + 4]
    BY PipeInvExact, Zenon
  <2> QED
    BY <2>1, <2>2, Zenon DEF SimulatorsAreExact, Counted, HitsUpTo, ValidCells
<1> QED
  BY <1>1, <1>2, <1>3, PTL DEF SimSpec

=============================================================================

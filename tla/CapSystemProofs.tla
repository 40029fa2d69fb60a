-------------------------- MODULE CapSystemProofs --------------------------
(***************************************************************************)
(* Proofs, for any tables, resources and number of ids, of the safety      *)
(* properties of CapSystem.  Every step but SYS_CAP_REVOKE only installs   *)
(* fresh capabilities or drops held ones (GrowInv); revocation needs that  *)
(* the set it collects is the least closed one (RevokedIdsLeast).          *)
(***************************************************************************)
EXTENDS CapSystem, TLAPS

\* insert and attenuate build well-formed capabilities from an id in range.
LEMMA CapabilityType ==
    ASSUME NEW id \in 1 .. MaxId
    PROVE  /\ \A res \in Resource, g \in BOOLEAN : Root(res, g, id) \in Capability
           /\ \A cap \in Capability, mask \in RightsMask :
                  Attenuate(cap, mask, id) \in Capability /\ EntryCap(cap, mask, id) \in Capability
<1>1. \A i \in 1 .. MaxId : i \in 0 .. MaxId
  BY CapConstants
<1> QED
  BY <1>1, CapConstants DEF Root, Attenuate, EntryCap, Capability, RightsMask

\* insert into any table, full or not, keeps the types.
LEMMA InsertType ==
    ASSUME TypeOK, NEW u \in Tasks, NEW cap \in Capability, nextId < MaxId, Insert(u, cap)
    PROVE  /\ caps' \in [Tasks -> CapTable]
           /\ minted' \subseteq Capability
           /\ nextId' \in 1 .. MaxId
           /\ \A t \in Tasks \ (present \cup {u}), s \in Slots : caps'[t][s] = NoCap
<1>1. u \in Tasks /\ caps[u] \in CapTable
  BY Zenon DEF TypeOK
<1>2. nextId' \in 1 .. MaxId
  BY CapConstants DEF TypeOK, Insert
<1>3. ASSUME NEW s \in Slots, caps' = [caps EXCEPT ![u][s] = cap]
      PROVE  /\ caps' \in [Tasks -> CapTable]
             /\ \A t \in Tasks \ {u} : caps'[t] = caps[t]
  <2>1. [caps[u] EXCEPT ![s] = cap] \in CapTable
    BY <1>1, Zenon DEF CapTable
  <2>2. caps' = [caps EXCEPT ![u] = [caps[u] EXCEPT ![s] = cap]]
    BY <1>1, <1>3, Zenon DEF TypeOK
  <2> QED
    BY <1>1, <2>1, <2>2, Zenon DEF TypeOK
<1> QED
  BY <1>1, <1>2, <1>3, Zenon DEF TypeOK, Insert, Holds

\* The tables as boot leaves them have their types.
LEMMA InitType == Init => TypeOK
BY CapConstants, BootTablesAssumption DEF Init, TypeOK, CapTable, Holds

\* Every request and every shell command preserves the types.
LEMMA TypeStep ==
    ASSUME TypeOK, [Next]_vars
    PROVE  TypeOK'
<1>a. nextId \in Nat /\ MaxId \in Nat /\ nextId \in 1 .. MaxId
  BY CapConstants DEF TypeOK
<1>1. ASSUME NEW t \in Tasks, NEW u \in Tasks, NEW s \in Slots, NEW mask \in Masks,
             CapGrant(t, s, u, mask)
      PROVE  TypeOK'
  <2>1. caps[t][s] \in Capability
    BY <1>1, Zenon DEF TypeOK, CapTable, CapGrant, Holds
  <2>2. Attenuate(caps[t][s], mask, nextId) \in Capability
    BY <1>a, <2>1, CapabilityType, CapConstants, Zenon
  <2> QED
    BY <1>1, <2>2, InsertType, Zenon DEF CapGrant, TypeOK, Holds
<1>2. ASSUME NEW t \in Tasks, NEW u \in Tasks, NEW s \in Slots, CapRevoke(t, u, s)
      PROVE  TypeOK'
  <2> DEFINE gone == RevokedIds(caps[u][s].id)
  <2>1. gone \subseteq 1 .. MaxId
    BY Zenon DEF RevokedIds, HeldIds
  <2>a. caps' = Wiped(u, s, gone) /\ revoked' = revoked \cup gone
    BY <1>2, Zenon DEF CapRevoke
  <2> HIDE DEF gone
  <2>2. /\ caps' = [v \in Tasks |-> [r \in Slots |->
                       IF (v = u /\ r = s) \/ (Holds(v, r) /\ caps[v][r].origin \in gone)
                       THEN NoCap ELSE caps[v][r]]]
        /\ revoked' = revoked \cup gone
    BY <2>a, Zenon DEF Wiped
  <2>3. caps' \in [Tasks -> CapTable]
    <3>1. \A v \in Tasks, r \in Slots : caps[v][r] \in Capability \cup {NoCap}
      BY Zenon DEF TypeOK, CapTable
    <3>2. \A v \in Tasks :
              [r \in Slots |-> IF (v = u /\ r = s) \/ (Holds(v, r) /\ caps[v][r].origin \in gone)
                               THEN NoCap ELSE caps[v][r]] \in CapTable
      BY <3>1, Zenon DEF CapTable
    <3> QED
      BY <2>2, <3>2, Zenon
  <2>4. \A v \in Tasks \ present, r \in Slots : caps'[v][r] = NoCap
    BY <2>2, Zenon DEF TypeOK, Holds
  <2> QED
    BY <1>2, <2>1, <2>2, <2>3, <2>4, ZenonT(60) DEF CapRevoke, TypeOK, Holds
<1>3. ASSUME NEW u \in Tasks, SpawnTask(u) PROVE TypeOK'
  <2>1. Root(u, TRUE, nextId) \in Capability
    BY <1>a, CapabilityType, ZenonT(60) DEF Resource
  <2>2. /\ InitTask \in present /\ InitTask \in Tasks /\ nextId < MaxId
        /\ Insert(InitTask, Root(u, TRUE, nextId))
        /\ present' = present \/ present' = present \cup {u}
        /\ UNCHANGED <<dead, donor, command, revoked, built>>
    BY <1>3, CapConstants, ZenonT(60) DEF SpawnTask, Ring3
  <2>3. /\ caps' \in [Tasks -> CapTable] /\ minted' \subseteq Capability
        /\ nextId' \in 1 .. MaxId
        /\ \A t \in Tasks \ present', s \in Slots : caps'[t][s] = NoCap
    BY <2>1, <2>2, InsertType, ZenonT(60)
  <2> QED
    BY <2>2, <2>3, Zenon DEF TypeOK, Holds
<1>4. ASSUME NEW t \in Tasks, Terminate(t) PROVE TypeOK'
  BY <1>4, Zenon DEF Terminate, TypeOK, Holds
<1>5. ASSUME NEW u \in Tasks, ShellClearSlot(u) PROVE TypeOK'
  BY <1>5, Zenon DEF ShellClearSlot, TypeOK, CapTable, Holds
<1>6. ASSUME NEW s \in Slots, ShellGrantRead(s) PROVE TypeOK'
  BY <1>6, CapConstants DEF ShellGrantRead, TypeOK, CapTable, Holds
<1>7. ASSUME NEW s \in Slots, ShellRevoke(s) PROVE TypeOK'
  BY <1>7, CapConstants, Zenon DEF ShellRevoke, TypeOK, CapTable, Holds
<1>8. ASSUME NEW s \in Slots, ShellSeal(s) PROVE TypeOK'
  <2>1. [caps[Shell][s] EXCEPT !.sealed = TRUE] \in Capability
    <3>1. caps[Shell][s] \in Capability
      BY <1>8, CapConstants DEF ShellSeal, TypeOK, CapTable, Holds
    <3>2. \A c \in Capability : [c EXCEPT !.sealed = TRUE] \in Capability
      BY ZenonT(60) DEF Capability
    <3> QED
      BY <3>1, <3>2, Zenon
  <2>2. caps' = [caps EXCEPT ![Shell] =
                    [caps[Shell] EXCEPT ![s] = [caps[Shell][s] EXCEPT !.sealed = TRUE]]]
    BY <1>8, CapConstants, Zenon DEF ShellSeal, TypeOK, CapTable
  <2>3. caps' \in [Tasks -> CapTable]
    BY <2>1, <2>2, CapConstants, Zenon DEF TypeOK, CapTable
  <2>4. \A v \in Tasks \ present : caps'[v] = caps[v]
    BY <1>8, <2>2, CapConstants, Zenon DEF ShellSeal, AtPrompt, TypeOK
  <2> QED
    BY <1>8, <2>3, <2>4 DEF ShellSeal, TypeOK, Holds
<1>9. ASSUME ShellGrantInstall PROVE TypeOK'
  <2> DEFINE cap == Attenuate(donor, ReadWrite, nextId)
  <2>1. cap \in Capability
    BY <1>9, <1>a, CapabilityType, ZenonT(60) DEF ShellGrantInstall, TypeOK, ReadWrite, RightsMask
  <2> HIDE DEF cap
  <2>2. caps' \in [Tasks -> CapTable] /\ minted' \subseteq Capability
    BY <1>9, <2>1, ZenonT(60) DEF ShellGrantInstall, TypeOK, CapTable, cap
  <2>3. \A t \in Tasks \ {GrantSink} : caps'[t] = caps[t]
    BY <1>9, Zenon DEF ShellGrantInstall, TypeOK
  <2>4. /\ present' = present \cup {GrantSink} /\ dead' = dead \ {GrantSink}
        /\ nextId < MaxId /\ nextId' = nextId + 1
        /\ donor' = NoCap /\ UNCHANGED <<command, revoked, built>>
    BY <1>9, Zenon DEF ShellGrantInstall
  <2>5. \A t \in Tasks \ present', s \in Slots : caps'[t][s] = NoCap
    BY <2>3, <2>4, Zenon DEF TypeOK, Holds
  <2> QED
    BY <1>a, <2>2, <2>4, <2>5, CapConstants DEF TypeOK, Holds
<1>10. ASSUME NEW res \in SyncObjects, ShellMint(res) PROVE TypeOK'
  <2>1. Root(res, TRUE, nextId) \in Capability
    BY <1>a, CapabilityType, CapConstants, ZenonT(60) DEF Resource
  <2>2. /\ Shell \in Tasks /\ Shell \in present /\ nextId < MaxId
        /\ Insert(Shell, Root(res, TRUE, nextId))
        /\ UNCHANGED <<present, dead, donor, command, revoked, built>>
    BY <1>10, CapConstants, ZenonT(60) DEF ShellMint, AtPrompt, TypeOK
  <2>3. /\ caps' \in [Tasks -> CapTable] /\ minted' \subseteq Capability
        /\ nextId' \in 1 .. MaxId
        /\ \A t \in Tasks \ present', s \in Slots : caps'[t][s] = NoCap
    BY <2>1, <2>2, InsertType, ZenonT(60)
  <2> QED
    BY <2>2, <2>3, Zenon DEF TypeOK, Holds
<1>11. ASSUME NEW u \in Tasks, NEW v \in Tasks, NEW res \in SyncObjects, ShellSpawnCopies(u, v, res)
       PROVE  TypeOK'
  <2> DEFINE object == Root(res, FALSE, nextId)
             channel == Root(SyncService, FALSE, nextId + 1)
             table == [s \in Slots |-> CASE s = 0 -> object [] s = 1 -> channel [] OTHER -> NoCap]
  <2>1. nextId + 1 \in 1 .. MaxId /\ nextId + 2 \in 1 .. MaxId
    BY <1>11, <1>a DEF ShellSpawnCopies
  <2>2. object \in Capability /\ channel \in Capability
    BY <1>a, <2>1, CapabilityType, CapConstants, ZenonT(60) DEF Resource
  <2> HIDE DEF object, channel
  <2>3. table \in CapTable
    BY <2>2, Zenon DEF CapTable
  <2>4. caps' = [caps EXCEPT ![u] = table, ![v] = table] /\ minted' = minted \cup {object, channel}
    BY <1>11, Zenon DEF ShellSpawnCopies, object, channel
  <2> HIDE DEF table
  <2>5. caps' \in [Tasks -> CapTable] /\ \A w \in Tasks \ {u, v} : caps'[w] = caps[w]
    BY <2>3, <2>4, Zenon DEF TypeOK
  <2>6. /\ present' = present \cup {u, v} /\ dead' = dead \ {u, v} /\ nextId' = nextId + 2
        /\ UNCHANGED <<donor, command, revoked, built>> /\ Shell \notin {u, v}
    BY <1>11, Zenon DEF ShellSpawnCopies
  <2>7. minted' \subseteq Capability
    BY <2>2, <2>4, Zenon DEF TypeOK
  <2>8. \A w \in Tasks \ present', s \in Slots : caps'[w][s] = NoCap
    BY <2>5, <2>6, Zenon DEF TypeOK, Holds
  <2> QED
    BY <2>1, <2>5, <2>6, <2>7, <2>8, Zenon DEF TypeOK, Holds
<1>12. ASSUME NEW s \in Slots, ShellEntryRead(s) PROVE TypeOK'
  BY <1>12, CapConstants DEF ShellEntryRead, TypeOK, CapTable, Holds
<1>13. ASSUME NEW u \in Tasks, NEW mask \in Masks, ShellEntryInstall(u, mask) PROVE TypeOK'
  <2> DEFINE cap == EntryCap(donor, mask, nextId)
  <2>1. cap \in Capability
    BY <1>13, <1>a, CapabilityType, CapConstants, Zenon DEF ShellEntryInstall, TypeOK
  <2>2. /\ Insert(u, cap) /\ nextId < MaxId
        /\ present' = present \cup {u} /\ built' = built \cup {nextId}
        /\ donor' = NoCap /\ command' = "cap" /\ UNCHANGED <<dead, revoked>>
    BY <1>13, Zenon DEF ShellEntryInstall
  <2> HIDE DEF cap
  <2> QED
    BY <1>a, <2>1, <2>2, InsertType, Zenon DEF TypeOK, Holds
<1>14. ASSUME NEW u \in Tasks, ShellSpawnService(u) PROVE TypeOK'
  <2>1. Root(Shell, FALSE, nextId) \in Capability
    BY <1>a, CapabilityType, CapConstants, ZenonT(60) DEF Resource
  <2> QED
    BY <1>14, <2>1, InsertType, ZenonT(60) DEF ShellSpawnService, TypeOK, Holds
<1>15. CASE UNCHANGED vars
  BY <1>15, Zenon DEF vars, TypeOK, Holds
<1> QED
  BY <1>1, <1>2, <1>3, <1>4, <1>5, <1>6, <1>7, <1>8, <1>9, <1>10, <1>11, <1>12, <1>13, <1>14,
     <1>15, Zenon DEF Next

\* Type correctness of the capability system.
THEOREM TypeCorrect == Spec => []TypeOK
BY InitType, TypeStep, PTL DEF Spec

-----------------------------------------------------------------------------
(* Steps that install fresh capabilities or drop held ones *)

\* A capability c newly installed in the place of its kind: it is a root, or it
\* is an attenuated child of one that was installed before.
WellDerived(c) ==
    c.origin # 0 =>
        \E p \in minted :
            /\ p.id = c.origin /\ p.id < c.id /\ p.res = c.res
            /\ p.grant \/ (c.id \in built' /\ ~c.grant)
            /\ c.read => p.read \/ (c.id \in built' /\ c.res \in KvEntries)
            /\ c.write => p.write

\* The effect of a step that revokes nothing: each slot is emptied, keeps its
\* authority or gets one of the fresh capabilities N.
Grows(N) ==
    /\ minted' = minted \cup N /\ N \subseteq Capability
    /\ nextId <= nextId' /\ revoked' = revoked /\ built \subseteq built'
    /\ \A v \in Tasks, r \in Slots :
           \/ caps'[v][r] = NoCap
           \/ Holds(v, r) /\ SameAuthority(caps'[v][r], caps[v][r])
           \/ caps'[v][r] \in N
    /\ \A c \in N :
           /\ nextId <= c.id /\ c.id < nextId'
           /\ WellDerived(c)
           /\ c.origin \notin revoked
    /\ \A c, d \in N : c.id = d.id => c = d
    /\ \A v, w \in Tasks, r, q \in Slots :
           caps'[v][r] \in N /\ caps'[w][q] = caps'[v][r] =>
               (v = w /\ r = q) \/ (~caps'[v][r].grant /\ caps'[v][r].origin = 0)

\* Such a step preserves the invariant: fresh ids cannot collide with held or
\* revoked ones.
LEMMA GrowInv ==
    ASSUME IndInv, TypeOK', ShellInv', NEW N, Grows(N)
    PROVE  IndInv'
<1> USE DEF IndInv
<1>a. /\ nextId \in Int /\ nextId' \in Int /\ nextId <= nextId'
      /\ \A c \in Capability : c.id \in Int
  BY CapConstants DEF TypeOK, Grows, Capability
<1>b. \A v \in Tasks, r \in Slots :
          Holds(v, r) => caps[v][r] \in Capability /\ caps[v][r].id < nextId
  BY DEF TypeOK, CapTable, Holds, MintInv, SameAuthority
<1>c. /\ minted' = minted \cup N /\ N \subseteq Capability /\ minted \subseteq Capability
      /\ \A c \in N : nextId <= c.id /\ c.id < nextId' /\ WellDerived(c)
      /\ \A c, d \in N : c.id = d.id => c = d
  BY Zenon DEF Grows, TypeOK
<1>d. \A v \in Tasks, r \in Slots :
          caps'[v][r] # NoCap =>
              \/ Holds(v, r) /\ SameAuthority(caps'[v][r], caps[v][r])
              \/ caps'[v][r] \in N
  BY Zenon DEF Grows
<1>1. MintInv'
  <2>1. \A v \in Tasks, r \in Slots :
            caps'[v][r] # NoCap => \E m \in minted' : SameAuthority(caps'[v][r], m)
    BY <1>c, <1>d DEF MintInv, SameAuthority
  <2>3. \A m \in minted' : m.id < nextId'
    BY <1>a, <1>c DEF MintInv
  <2>4. \A a, b \in minted' : a.id = b.id => a = b
    BY <1>a, <1>c DEF MintInv
  <2>5. \A i \in revoked' : i < nextId'
    BY <1>a DEF MintInv, TypeOK, Grows
  <2> QED
    BY <2>1, <2>3, <2>4, <2>5, Zenon DEF MintInv, Holds, SameAuthority
<1>2. GrantableInv'
  <2>1. \A c \in N : c.id \notin revoked
    BY <1>a, <1>c DEF MintInv, TypeOK
  <2> QED
    BY <1>d, <2>1, Zenon DEF GrantableInv, Holds, SameAuthority, Grows
<1>3. IdNamesOneCapability'
  <2> SUFFICES ASSUME NEW v \in Tasks, NEW w \in Tasks, NEW r \in Slots, NEW q \in Slots,
                      caps'[v][r] # NoCap, caps'[w][q] # NoCap,
                      caps'[v][r].id = caps'[w][q].id
               PROVE  \/ v = w /\ r = q
                      \/ /\ caps'[v][r].res = caps'[w][q].res
                         /\ ~caps'[v][r].grant /\ ~caps'[w][q].grant
                         /\ caps'[v][r].origin = 0 /\ caps'[w][q].origin = 0
    BY DEF IdNamesOneCapability, Holds
  <2>1. CASE caps'[v][r] \in N /\ caps'[w][q] \in N
    <3>1. caps'[v][r] = caps'[w][q]
      BY <1>c, <2>1, Zenon
    <3> QED
      BY <2>1, <3>1 DEF Grows
  <2>2. ASSUME caps'[v][r] \in N, caps'[w][q] \notin N PROVE FALSE
    BY <1>a, <1>b, <1>c, <1>d, <2>2 DEF SameAuthority
  <2>3. ASSUME caps'[v][r] \notin N, caps'[w][q] \in N PROVE FALSE
    BY <1>a, <1>b, <1>c, <1>d, <2>3 DEF SameAuthority
  <2>4. CASE caps'[v][r] \notin N /\ caps'[w][q] \notin N
    BY <1>d, <2>4 DEF SameAuthority, IdNamesOneCapability
  <2> QED
    BY <2>1, <2>2, <2>3, <2>4, Zenon
<1>4. OnlyKvGrantAmplifies'
  BY <1>c, Zenon DEF OnlyKvGrantAmplifies, WellDerived, Grows
<1>5. RevokedLineageIsGone'
  <2> SUFFICES ASSUME NEW v \in Tasks, NEW r \in Slots,
                      caps'[v][r] # NoCap
               PROVE  caps'[v][r].origin \notin revoked
    BY Zenon DEF RevokedLineageIsGone, Holds, Grows
  <2>1. CASE caps'[v][r] \in N
    BY <2>1, Zenon DEF Grows
  <2>2. CASE Holds(v, r) /\ SameAuthority(caps'[v][r], caps[v][r])
    BY <2>2, SMTT(30) DEF RevokedLineageIsGone, SameAuthority, Grows
  <2> QED
    BY <1>d, <2>1, <2>2, Zenon
<1> QED
  BY <1>1, <1>2, <1>3, <1>4, <1>5, Zenon

\* A child that attenuate derives from a capability with the grant right is
\* well derived, whoever holds the parent by then.
LEMMA AttenuateDerives ==
    ASSUME IndInv, NEW cap \in Capability, cap.grant, NEW mask,
           \E m \in minted : SameAuthority(cap, m)
    PROVE  WellDerived(Attenuate(cap, mask, nextId))
<1> PICK m \in minted : SameAuthority(cap, m)
  BY Zenon
<1>1. m.id < nextId
  BY Zenon DEF IndInv, MintInv
<1> QED
  BY <1>1, ZenonT(60) DEF WellDerived, Attenuate, SameAuthority

\* insert of a fresh, well-derived capability is a step of that kind.
LEMMA InsertGrows ==
    ASSUME IndInv, NEW u \in Tasks, NEW cap \in Capability, Insert(u, cap),
           cap.id = nextId, WellDerived(cap), cap.origin \notin revoked,
           revoked' = revoked, built \subseteq built'
    PROVE  \E N : Grows(N)
<1>a. nextId \in Int
  BY CapConstants DEF IndInv, TypeOK
<1>b. \A x : SameAuthority(x, x)
  BY Zenon DEF SameAuthority
<1>1. ASSUME NEW s \in Slots, caps' = [caps EXCEPT ![u][s] = cap], minted' = minted \cup {cap}
      PROVE  Grows({cap})
  <2>1. /\ caps'[u][s] = cap
        /\ \A v \in Tasks, r \in Slots : v # u \/ r # s => caps'[v][r] = caps[v][r]
    BY <1>1, Zenon DEF IndInv, TypeOK, CapTable
  <2>2. \A v \in Tasks, r \in Slots : caps[v][r] # cap
    <3>1. \A v \in Tasks, r \in Slots : Holds(v, r) => caps[v][r].id < nextId
      BY ZenonT(30) DEF IndInv, MintInv, SameAuthority
    <3>2. cap # NoCap
      BY CapConstants, Zenon
    <3> QED
      BY <1>a, <3>1, <3>2 DEF Holds
  <2> QED
    BY <1>a, <1>b, <1>1, <2>1, <2>2 DEF Grows, Insert, Holds
<1>2. ASSUME UNCHANGED <<caps, minted>> PROVE Grows({})
  BY <1>a, <1>b, <1>2 DEF Grows, Insert, Holds
<1> QED
  BY <1>1, <1>2, Zenon DEF Insert

\* A step that only removes capabilities from tables is of that kind too.
LEMMA DropGrows ==
    ASSUME IndInv, UNCHANGED <<nextId, minted, revoked, built>>,
           \A v \in Tasks, r \in Slots :
               \/ caps'[v][r] = NoCap
               \/ Holds(v, r) /\ SameAuthority(caps'[v][r], caps[v][r])
    PROVE  Grows({})
BY CapConstants DEF Grows, IndInv, TypeOK

-----------------------------------------------------------------------------
(* Revocation *)

\* The set that propagate_revocation collects has the root, is closed under
\* lineage, and has nothing else than the root and what derives from it.
LEMMA RevokedIdsLeast ==
    ASSUME TypeOK, NEW root \in HeldIds
    PROVE  /\ root \in RevokedIds(root)
           /\ ClosedUnderLineage(RevokedIds(root))
           /\ \A i \in RevokedIds(root) \ {root} :
                  \E v \in Tasks, r \in Slots :
                      Holds(v, r) /\ caps[v][r].id = i /\ caps[v][r].origin \in RevokedIds(root)
<1> DEFINE gone == RevokedIds(root)
           closed == {S \in SUBSET HeldIds : root \in S /\ ClosedUnderLineage(S)}
<1>1. gone = {i \in HeldIds : \A S \in closed : i \in S}
  BY Zenon DEF RevokedIds
<1>2. root \in gone
  BY <1>1, Zenon
<1>3. ClosedUnderLineage(gone)
  <2> SUFFICES ASSUME NEW v \in Tasks, NEW r \in Slots, Holds(v, r), caps[v][r].origin \in gone
               PROVE  caps[v][r].id \in gone
    BY Zenon DEF ClosedUnderLineage
  <2>1. caps[v][r].id \in HeldIds
    BY DEF TypeOK, CapTable, Capability, Holds, HeldIds
  <2>2. \A S \in closed : caps[v][r].origin \in S
    BY <1>1, Zenon
  <2>3. \A S \in closed : caps[v][r].id \in S
    BY <2>2, Zenon DEF ClosedUnderLineage
  <2> QED
    BY <1>1, <2>1, <2>3, Zenon
<1>4. ASSUME NEW i \in gone, i # root,
             \A v \in Tasks, r \in Slots :
                 Holds(v, r) /\ caps[v][r].id = i => caps[v][r].origin \notin gone
      PROVE  FALSE
  <2>1. gone \ {i} \in SUBSET HeldIds /\ root \in gone \ {i}
    BY <1>1, <1>2, <1>4, Zenon
  <2>2. ClosedUnderLineage(gone \ {i})
    <3> HIDE DEF gone
    <3> QED
      BY <1>3, <1>4, Zenon DEF ClosedUnderLineage
  <2>3. i \in gone \ {i}
    BY <1>1, <2>1, <2>2, Zenon
  <2> QED
    BY <2>3, Zenon
<1> QED
  BY <1>2, <1>3, <1>4, Zenon

\* SYS_CAP_REVOKE preserves the invariant.  What survives does not derive from
\* a collected id; and if it can be delegated its own id is not collected
\* either, for an id other than the root is collected because of a capability
\* that is removed, and ids name one capability.
LEMMA RevokeInv ==
    ASSUME IndInv, TypeOK', ShellInv', NEW t \in Tasks, NEW u \in Tasks, NEW s \in Slots,
           CapRevoke(t, u, s)
    PROVE  IndInv'
<1> DEFINE root == caps[u][s].id
           gone == RevokedIds(root)
<1> USE DEF IndInv
<1>a. Holds(u, s) /\ root \in HeldIds
  BY DEF CapRevoke, TypeOK, CapTable, Capability, Holds, HeldIds
<1>b. /\ root \in gone
      /\ ClosedUnderLineage(gone)
      /\ \A i \in gone \ {root} :
             \E v \in Tasks, r \in Slots :
                 Holds(v, r) /\ caps[v][r].id = i /\ caps[v][r].origin \in gone
  BY <1>a, RevokedIdsLeast, Zenon
<1>c. gone \subseteq HeldIds
  BY Zenon DEF RevokedIds
<1>d. /\ caps' = Wiped(u, s, gone) /\ revoked' = revoked \cup gone
      /\ UNCHANGED <<present, dead, nextId, donor, command, minted, built>>
  BY Zenon DEF CapRevoke
<1> HIDE DEF gone
<1>1. \A v \in Tasks, r \in Slots :
          caps'[v][r] # NoCap =>
              /\ Holds(v, r) /\ caps'[v][r] = caps[v][r]
              /\ ~(v = u /\ r = s) /\ caps[v][r].origin \notin gone
  <2>1. \A v \in Tasks, r \in Slots :
            caps'[v][r] = IF (v = u /\ r = s) \/ (Holds(v, r) /\ caps[v][r].origin \in gone)
                          THEN NoCap ELSE caps[v][r]
    BY <1>d, Zenon DEF Wiped
  <2> SUFFICES ASSUME NEW v \in Tasks, NEW r \in Slots, caps'[v][r] # NoCap
               PROVE  /\ Holds(v, r) /\ caps'[v][r] = caps[v][r]
                      /\ ~(v = u /\ r = s) /\ caps[v][r].origin \notin gone
    BY Zenon
  <2>2. ~((v = u /\ r = s) \/ (Holds(v, r) /\ caps[v][r].origin \in gone))
    BY <2>1, Zenon
  <2>3. caps'[v][r] = caps[v][r]
    BY <2>1, <2>2, Zenon
  <2>4. Holds(v, r)
    BY <2>3, ZenonT(60) DEF Holds
  <2> QED
    BY <2>2, <2>3, <2>4, Zenon
<1>2. MintInv'
  <2>1. \A i \in gone : i < nextId
    <3>1. \A v \in Tasks, r \in Slots : Holds(v, r) => caps[v][r].id < nextId
      BY Zenon DEF MintInv, SameAuthority
    <3> QED
      BY <1>c, <3>1, Zenon DEF HeldIds
  <2>2. \A v \in Tasks, r \in Slots :
            caps'[v][r] # NoCap => \E m \in minted : SameAuthority(caps'[v][r], m)
    BY <1>1, Zenon DEF MintInv
  <2> QED
    BY <1>d, <2>1, <2>2 DEF MintInv, Holds, SameAuthority
<1>3. GrantableInv'
  <2> SUFFICES ASSUME NEW v \in Tasks, NEW r \in Slots, caps'[v][r] # NoCap, caps'[v][r].grant
               PROVE  caps'[v][r].id \notin revoked'
    BY Zenon DEF GrantableInv, Holds
  <2>1. Holds(v, r) /\ caps[v][r].grant /\ caps'[v][r] = caps[v][r]
    BY <1>1, Zenon
  <2>2. caps[v][r].id \notin revoked
    BY <2>1, Zenon DEF GrantableInv
  <2>3. \A w \in Tasks, q \in Slots :
            Holds(w, q) /\ caps[w][q].id = caps[v][r].id => w = v /\ q = r
    BY <2>1, Zenon DEF IdNamesOneCapability
  <2>4. caps[v][r].id # root
    BY <1>a, <1>1, <2>3
  <2>5. caps[v][r].id \notin gone
    BY <1>b, <1>1, <2>3, <2>4
  <2> QED
    BY <1>d, <2>1, <2>2, <2>5, Zenon
<1>4. IdNamesOneCapability'
  BY <1>1 DEF IdNamesOneCapability, Holds
<1>5. OnlyKvGrantAmplifies'
  BY <1>d, Zenon DEF OnlyKvGrantAmplifies
<1>6. RevokedLineageIsGone'
  BY <1>1, <1>d, Zenon DEF RevokedLineageIsGone, Holds
<1> QED
  BY <1>2, <1>3, <1>4, <1>5, <1>6, Zenon

-----------------------------------------------------------------------------
(* The other requests and commands *)

\* SYS_CAP_GRANT: the donor is held and can be delegated, so it is not revoked.
LEMMA GrantInv ==
    ASSUME IndInv, TypeOK', ShellInv', NEW t \in Tasks, NEW u \in Tasks, NEW s \in Slots,
           NEW mask \in Masks, CapGrant(t, s, u, mask)
    PROVE  IndInv'
<1> DEFINE cap == Attenuate(caps[t][s], mask, nextId)
<1>1. caps[t][s] \in Capability /\ caps[t][s].grant /\ nextId \in 1 .. MaxId
  BY ZenonT(30) DEF IndInv, TypeOK, CapTable, CapGrant, Holds
<1>2. cap \in Capability
  BY <1>1, CapabilityType, CapConstants, Zenon
<1>3. WellDerived(cap)
  <2>1. \E m \in minted : SameAuthority(caps[t][s], m)
    BY Zenon DEF IndInv, MintInv, CapGrant
  <2> QED
    BY <1>1, <2>1, AttenuateDerives, Zenon
<1>4. cap.id = nextId /\ cap.origin \notin revoked
  BY Zenon DEF Attenuate, IndInv, GrantableInv, CapGrant
<1>5. Insert(u, cap) /\ UNCHANGED <<donor, command, revoked, built>>
  BY Zenon DEF CapGrant
<1> HIDE DEF cap
<1> QED
  BY <1>2, <1>3, <1>4, <1>5, InsertGrows, GrowInv, Zenon

\* SYS_SPAWN_TASK, sync create and the start of a service insert a root capability.
LEMMA RootInv ==
    ASSUME IndInv, TypeOK', ShellInv', NEW u \in Tasks, NEW res \in Resource, NEW g \in BOOLEAN,
           Insert(u, Root(res, g, nextId)), UNCHANGED <<donor, command, revoked, built>>
    PROVE  IndInv'
<1> DEFINE cap == Root(res, g, nextId)
<1>1. cap \in Capability
  BY CapabilityType, Zenon DEF IndInv, TypeOK
<1>2. cap.id = nextId /\ cap.origin = 0
  BY Zenon DEF Root
<1>3. 0 \notin revoked
  <2>1. \A i \in revoked : i \in 1 .. MaxId
    BY ZenonT(60) DEF IndInv, TypeOK
  <2> QED
    BY <2>1, CapConstants
<1>4. Insert(u, cap)
  BY ZenonT(60)
<1> HIDE DEF cap
<1>5. WellDerived(cap) /\ cap.origin \notin revoked
  BY <1>2, <1>3, ZenonT(60) DEF WellDerived
<1> QED
  BY <1>1, <1>2, <1>4, <1>5, InsertGrows, GrowInv, Zenon

\* The commands and requests that install nothing.
LEMMA DropInv ==
    ASSUME IndInv, TypeOK', ShellInv',
           \/ \E t \in Tasks : Terminate(t) \/ ShellClearSlot(t)
           \/ \E s \in Slots :
                  ShellGrantRead(s) \/ ShellEntryRead(s) \/ ShellRevoke(s) \/ ShellSeal(s)
           \/ UNCHANGED vars
    PROVE  IndInv'
<1>a. \A x : SameAuthority(x, x)
  BY Zenon DEF SameAuthority
<1>b. caps \in [Tasks -> [Slots -> Capability \cup {NoCap}]] /\ Shell \in Tasks
  BY CapConstants, Zenon DEF IndInv, TypeOK, CapTable
<1>1. UNCHANGED <<nextId, minted, revoked, built>>
  BY ZenonT(60) DEF Terminate, ShellClearSlot, ShellGrantRead, ShellEntryRead, ShellRevoke, ShellSeal, vars
<1>2. \A v \in Tasks, r \in Slots :
          \/ caps'[v][r] = NoCap
          \/ Holds(v, r) /\ SameAuthority(caps'[v][r], caps[v][r])
  <2>1. CASE UNCHANGED caps
    BY <1>a, <2>1, Zenon DEF Holds
  <2>2. ASSUME NEW t \in Tasks, ShellClearSlot(t)
        PROVE  \A v \in Tasks, r \in Slots : caps'[v][r] = NoCap \/ caps'[v][r] = caps[v][r]
    BY <1>b, <2>2, Zenon DEF ShellClearSlot
  <2>3. ASSUME NEW s \in Slots, ShellRevoke(s)
        PROVE  \A v \in Tasks, r \in Slots : caps'[v][r] = NoCap \/ caps'[v][r] = caps[v][r]
    BY <1>b, <2>3, Zenon DEF ShellRevoke
  <2>4. ASSUME NEW s \in Slots, ShellSeal(s)
        PROVE  \A v \in Tasks, r \in Slots :
                   \/ caps'[v][r] = caps[v][r]
                   \/ Holds(v, r) /\ SameAuthority(caps'[v][r], caps[v][r])
    <3>1. Holds(Shell, s) /\ caps[Shell][s] \in Capability
      BY <1>b, <2>4, Zenon DEF ShellSeal, Holds
    <3>2. \A c \in Capability : SameAuthority([c EXCEPT !.sealed = TRUE], c)
      BY Zenon DEF SameAuthority, Capability
    <3>3. \A v \in Tasks, r \in Slots :
              caps'[v][r] = IF v = Shell /\ r = s THEN [caps[v][r] EXCEPT !.sealed = TRUE]
                                                  ELSE caps[v][r]
      BY <1>b, <2>4, ZenonT(60) DEF ShellSeal
    <3> QED
      BY <3>1, <3>2, <3>3, ZenonT(60)
  <2> QED
    BY <1>a, <2>1, <2>2, <2>3, <2>4, Zenon DEF Terminate, ShellGrantRead, ShellEntryRead, vars, Holds
<1> QED
  BY <1>1, <1>2, DropGrows, GrowInv, Zenon

\* The shell's copy was installed at some time and nothing is ever revoked in
\* the build with the shell.
LEMMA DonorFacts ==
    ASSUME IndInv, donor # NoCap
    PROVE  /\ donor \in Capability /\ donor.id \notin revoked
           /\ IF command = "cap" THEN donor.grant ELSE donor.res \in Entries
           /\ \E m \in minted : SameAuthority(donor, m)
           /\ \E s \in Slots : Holds(Shell, s) /\ caps[Shell][s] = donor
<1>1. revoked = {}
  BY CapConstants, Zenon DEF IndInv, ShellInv
<1>2. PICK s \in Slots : caps[Shell][s] = donor
  BY Zenon DEF IndInv, ShellInv
<1>3. \E m \in minted : SameAuthority(donor, m)
  BY <1>2, CapConstants, Zenon DEF IndInv, MintInv, Holds
<1> QED
  BY <1>1, <1>2, <1>3, Zenon DEF IndInv, TypeOK, ShellInv, Holds

\* The second half of the shell's cap grant: the donor was installed at some
\* time and has the grant right.
LEMMA InstallInv ==
    ASSUME IndInv, TypeOK', ShellInv', ShellGrantInstall
    PROVE  IndInv'
<1> DEFINE cap == Attenuate(donor, ReadWrite, nextId)
<1>a. /\ donor \in Capability /\ nextId \in Int /\ nextId \in 1 .. MaxId
      /\ caps \in [Tasks -> [Slots -> Capability \cup {NoCap}]] /\ Shell \in Tasks
  BY CapConstants DEF IndInv, TypeOK, CapTable, ShellGrantInstall
<1>b. donor.grant /\ donor.id \notin revoked /\ \E m \in minted : SameAuthority(donor, m)
  BY DonorFacts, Zenon DEF ShellGrantInstall
<1>1. cap \in Capability
  BY <1>a, CapabilityType, ZenonT(60) DEF ReadWrite, RightsMask
<1>2. WellDerived(cap)
  BY <1>a, <1>b, AttenuateDerives, Zenon
<1>3. cap.id = nextId /\ cap.origin = donor.id /\ cap # NoCap
  BY <1>1, CapConstants, ZenonT(60) DEF Attenuate
<1>4. /\ minted' = minted \cup {cap} /\ nextId' = nextId + 1
      /\ revoked' = revoked /\ donor' = NoCap
      /\ caps' = [caps EXCEPT ![GrantSink] = [s \in Slots |-> IF s = 0 THEN cap ELSE NoCap]]
  BY Zenon DEF ShellGrantInstall
<1>6. built' = built
  BY Zenon DEF ShellGrantInstall
<1> HIDE DEF cap
<1>7. \A v \in Tasks, r \in Slots :
          \/ caps'[v][r] = NoCap
          \/ v # GrantSink /\ caps'[v][r] = caps[v][r]
          \/ v = GrantSink /\ r = 0 /\ caps'[v][r] = cap
  BY <1>a, <1>4, ZenonT(60)
<1>8. \A v \in Tasks, r \in Slots : Holds(v, r) => caps[v][r] # cap
  BY <1>a, <1>3 DEF IndInv, MintInv, SameAuthority
<1>9. \A x : SameAuthority(x, x)
  BY Zenon DEF SameAuthority
<1>10. \A v \in Tasks, r \in Slots :
           \/ caps'[v][r] = NoCap
           \/ Holds(v, r) /\ SameAuthority(caps'[v][r], caps[v][r])
           \/ caps'[v][r] \in {cap}
  BY <1>7, <1>9, Zenon DEF Holds
<1>11. \A v \in Tasks, r \in Slots : caps'[v][r] = cap => v = GrantSink /\ r = 0
  BY <1>3, <1>7, <1>8, ZenonT(30) DEF Holds
<1>12. Grows({cap})
  BY <1>a, <1>b, <1>1, <1>2, <1>3, <1>4, <1>6, <1>10, <1>11, SMTT(30) DEF Grows
<1> QED
  BY <1>12, GrowInv, ZenonT(60)

\* The second half of kv grant and log grant: the child has no grant right and
\* never writes more than its parent.
LEMMA EntryInv ==
    ASSUME IndInv, TypeOK', ShellInv', NEW u \in Tasks, NEW mask \in Masks,
           ShellEntryInstall(u, mask)
    PROVE  IndInv'
<1> DEFINE cap == EntryCap(donor, mask, nextId)
<1>a. donor \in Capability /\ nextId \in Int /\ nextId \in 1 .. MaxId
  BY CapConstants DEF IndInv, TypeOK, ShellEntryInstall
<1>1. cap \in Capability
  BY <1>a, CapabilityType, CapConstants, Zenon
<1>2. PICK m \in minted : SameAuthority(donor, m)
  BY DonorFacts, Zenon DEF ShellEntryInstall
<1>3. donor.id \notin revoked
  BY DonorFacts, Zenon DEF ShellEntryInstall
<1>4. Insert(u, cap) /\ built' = built \cup {nextId} /\ revoked' = revoked
  BY Zenon DEF ShellEntryInstall
<1>5. /\ cap.id = nextId /\ cap.origin = donor.id /\ cap.res = donor.res /\ cap.grant = FALSE
      /\ cap.read => donor.read \/ donor.res \in KvEntries
      /\ cap.write => donor.write
  BY ZenonT(60) DEF EntryCap
<1> HIDE DEF cap
<1>6. WellDerived(cap)
  <2>1. m.id < nextId
    BY Zenon DEF IndInv, MintInv
  <2>2. cap.id \in built'
    BY <1>4, <1>5, Zenon
  <2>3. /\ m.id = donor.id /\ m.res = donor.res
        /\ m.read = donor.read /\ m.write = donor.write
    BY <1>2, Zenon DEF SameAuthority
  <2> QED
    BY <1>5, <2>1, <2>2, <2>3, Zenon DEF WellDerived
<1>7. cap.origin \notin revoked /\ built \subseteq built'
  BY <1>3, <1>4, <1>5, Zenon
<1> QED
  BY <1>1, <1>4, <1>5, <1>6, <1>7, InsertGrows, GrowInv, ZenonT(60)

\* The benchmarks' tasks share an object and a channel that cannot be delegated.
LEMMA CopiesInv ==
    ASSUME IndInv, TypeOK', ShellInv', NEW u \in Tasks, NEW w \in Tasks, NEW res \in SyncObjects,
           ShellSpawnCopies(u, w, res)
    PROVE  IndInv'
<1> DEFINE object == Root(res, FALSE, nextId)
           channel == Root(SyncService, FALSE, nextId + 1)
           table == [s \in Slots |-> CASE s = 0 -> object [] s = 1 -> channel [] OTHER -> NoCap]
<1>a. /\ nextId \in Int /\ nextId \in 1 .. MaxId /\ nextId + 1 \in 1 .. MaxId
      /\ caps \in [Tasks -> [Slots -> Capability \cup {NoCap}]]
      /\ 0 \notin revoked
  BY CapConstants DEF IndInv, TypeOK, CapTable, ShellSpawnCopies
<1>1. object \in Capability /\ channel \in Capability
  BY <1>a, CapabilityType, CapConstants, ZenonT(60) DEF Resource
<1>2. /\ object.id = nextId /\ channel.id = nextId + 1
      /\ object.origin = 0 /\ channel.origin = 0 /\ ~object.grant /\ ~channel.grant
  BY Zenon DEF Root
<1>3. /\ minted' = minted \cup {object, channel} /\ nextId' = nextId + 2
      /\ caps' = [caps EXCEPT ![u] = table, ![w] = table]
      /\ UNCHANGED <<donor, command, revoked, built>>
  BY Zenon DEF ShellSpawnCopies
<1> HIDE DEF object, channel
<1>4. \A s \in Slots : table[s] = NoCap \/ table[s] \in {object, channel}
  BY Zenon
<1> HIDE DEF table
<1>5. \A v \in Tasks : caps'[v] = caps[v] \/ caps'[v] = table
  BY <1>a, <1>3, Zenon
<1>6. \A x : SameAuthority(x, x)
  BY Zenon DEF SameAuthority
<1>7. \A v \in Tasks, r \in Slots :
          \/ caps'[v][r] = NoCap
          \/ Holds(v, r) /\ SameAuthority(caps'[v][r], caps[v][r])
          \/ caps'[v][r] \in {object, channel}
  BY <1>4, <1>5, <1>6, Zenon DEF Holds
<1>8. \A c \in {object, channel} : WellDerived(c)
  BY <1>2, Zenon DEF WellDerived
<1>9. Grows({object, channel})
  BY <1>a, <1>1, <1>2, <1>3, <1>7, <1>8 DEF Grows
<1> QED
  BY <1>9, GrowInv, Zenon

-----------------------------------------------------------------------------
(* The theorems *)

\* The boot tables satisfy the invariant.
LEMMA InitInv == Init => IndInv
<1> SUFFICES ASSUME Init PROVE IndInv
  BY Zenon
<1>1. TypeOK
  BY InitType, Zenon
<1>2. \A c : c \in minted <=> c # NoCap /\ \E v \in Tasks, r \in Slots : c = BootTable[v][r]
  BY DEF Init
<1>3. caps = BootTable /\ donor = NoCap /\ nextId = BootNextId /\ revoked = {} /\ built = {}
  BY Zenon DEF Init
<1>4. MintInv
  <2>1. \A v \in Tasks, r \in Slots :
            Holds(v, r) => \E m \in minted : SameAuthority(caps[v][r], m)
    BY <1>2, <1>3, Zenon DEF SameAuthority, Holds
  <2>2. \A m \in minted : m.id < nextId
    BY <1>2, <1>3, BootTablesAssumption
  <2>3. \A a, b \in minted : a.id = b.id => a = b
    BY <1>2, BootTablesAssumption
  <2> QED
    BY <1>3, <2>1, <2>2, <2>3, Zenon DEF MintInv
<1>5. IdNamesOneCapability
  BY <1>3, BootTablesAssumption DEF IdNamesOneCapability, Holds
<1>6. OnlyKvGrantAmplifies
  BY <1>2, BootTablesAssumption DEF OnlyKvGrantAmplifies
<1>7. GrantableInv /\ RevokedLineageIsGone /\ ShellInv
  BY <1>3, Zenon DEF GrantableInv, RevokedLineageIsGone, ShellInv
<1> QED
  BY <1>1, <1>4, <1>5, <1>6, <1>7, Zenon DEF IndInv

\* The shell's copy stays in step with its table: between the two halves of a
\* command nothing else changes that table.
LEMMA ShellStep ==
    ASSUME IndInv, [Next]_vars
    PROVE  ShellInv'
<1> USE DEF ShellInv
<1>1. CASE ~SHELL_MODE
  <2>1. UNCHANGED donor /\ UNCHANGED built
    BY <1>1, ZenonT(60) DEF IndInv, Next, vars, CapGrant, CapRevoke, SpawnTask, Terminate, AtPrompt,
                ShellSpawnService, ShellClearSlot, ShellGrantRead, ShellEntryRead, ShellRevoke,
                ShellSeal, ShellGrantInstall, ShellEntryInstall, ShellMint, ShellSpawnCopies
  <2> QED
    BY <1>1, <2>1, Zenon DEF IndInv
<1>2. CASE SHELL_MODE
  <2>1. UNCHANGED revoked
    BY <1>2, ZenonT(60) DEF Next, vars, CapGrant, CapRevoke, SpawnTask, Terminate, Ring3,
                ShellSpawnService, ShellClearSlot, ShellGrantRead, ShellEntryRead, ShellRevoke,
                ShellSeal, ShellGrantInstall, ShellEntryInstall, ShellMint, ShellSpawnCopies
  <2>2. \/ donor' = NoCap
        \/ UNCHANGED <<donor, command, caps>>
        \/ /\ UNCHANGED caps
           /\ IF command' = "cap" THEN donor'.grant ELSE donor'.res \in Entries
           /\ \E s \in Slots : caps[Shell][s] = donor'
    BY <1>2, ZenonT(60) DEF Next, vars, CapGrant, CapRevoke, SpawnTask, Terminate, Ring3, AtPrompt,
                ShellSpawnService, ShellClearSlot, ShellGrantRead, ShellEntryRead, ShellRevoke,
                ShellSeal, ShellGrantInstall, ShellEntryInstall, ShellMint, ShellSpawnCopies
  <2> QED
    BY <1>2, <2>1, <2>2, Zenon DEF IndInv
<1> QED
  BY <1>1, <1>2, CapConstants, ZenonT(60)

\* Every request and every command preserves the invariant.
LEMMA StepInv ==
    ASSUME IndInv, [Next]_vars
    PROVE  IndInv'
<1>a. TypeOK' /\ ShellInv'
  BY TypeStep, ShellStep, Zenon DEF IndInv
<1>1. ASSUME NEW u \in Tasks, SpawnTask(u) PROVE IndInv'
  BY <1>a, <1>1, RootInv, CapConstants, ZenonT(60) DEF SpawnTask, Resource
<1>2. ASSUME NEW res \in SyncObjects, ShellMint(res) PROVE IndInv'
  BY <1>a, <1>2, RootInv, CapConstants, ZenonT(60) DEF ShellMint, Resource
<1>3. ASSUME NEW u \in Tasks, ShellSpawnService(u) PROVE IndInv'
  BY <1>a, <1>3, RootInv, CapConstants, ZenonT(60) DEF ShellSpawnService, Resource
<1> QED
  BY <1>a, <1>1, <1>2, <1>3, GrantInv, RevokeInv, DropInv, InstallInv, EntryInv, CopiesInv, Zenon DEF Next

\* IndInv holds in every reachable state of the capability system.
THEOREM Invariance == Spec => []IndInv
BY InitInv, StepInv, PTL DEF Spec

\* An id stands for one capability: insert's NEXT_CAP_ID and the shell's copied
\* tables never let two delegable or derived capabilities share one.
THEOREM CapabilityNames == Spec => []IdNamesOneCapability
BY Invariance, PTL DEF IndInv

\* attenuate never amplifies, along any chain of grants that ring-3 tasks make.
THEOREM Attenuation == Spec => [](~SHELL_MODE => NoAmplification)
<1>1. IndInv => (~SHELL_MODE => NoAmplification)
  BY Zenon DEF IndInv, ShellInv, OnlyKvGrantAmplifies, NoAmplification
<1> QED
  BY <1>1, Invariance, PTL

\* The shell's kv grant and log grant amplify nothing but the right to read of a
\* KVEntry, in either build and along any chain of grants.
THEOREM ShellAttenuation == Spec => []OnlyKvGrantAmplifies
BY Invariance, PTL DEF IndInv

\* SYS_CAP_REVOKE is complete and stays so: no grant that follows, by anyone,
\* derives a capability from a revoked one.
THEOREM RevocationComplete == Spec => []RevokedLineageIsGone
BY Invariance, PTL DEF IndInv

\* A step that adds nothing but roots to the installed capabilities, or one child
\* of a held capability, respects the donor.
LEMMA DonorStep ==
    ASSUME IndInv, [Next]_vars, NEW c \in minted' \ minted, c.origin # 0
    PROVE  \E t \in Tasks, s \in Slots : Holds(t, s) /\ caps[t][s].id = c.origin
<1>1. ASSUME NEW t \in Tasks, NEW u \in Tasks, NEW s \in Slots, NEW mask \in Masks,
             CapGrant(t, s, u, mask)
      PROVE  Holds(t, s) /\ caps[t][s].id = c.origin
  BY <1>1 DEF CapGrant, Insert, Attenuate
<1>2. CASE ShellGrantInstall
  <2>a. c = Attenuate(donor, ReadWrite, nextId)
    BY <1>2, Zenon DEF ShellGrantInstall
  <2>1. c.origin = donor.id
    BY <2>a, Zenon DEF Attenuate
  <2>2. PICK s \in Slots : Holds(Shell, s) /\ caps[Shell][s] = donor
    BY <1>2, DonorFacts, ZenonT(60) DEF ShellGrantInstall
  <2> QED
    BY <2>1, <2>2, CapConstants, Zenon
<1>3. ASSUME NEW u \in Tasks, NEW mask \in Masks, ShellEntryInstall(u, mask)
      PROVE  \E t \in Tasks, s \in Slots : Holds(t, s) /\ caps[t][s].id = c.origin
  <2>a. c = EntryCap(donor, mask, nextId)
    BY <1>3, Zenon DEF ShellEntryInstall, Insert
  <2>1. c.origin = donor.id
    BY <2>a, Zenon DEF EntryCap
  <2>2. PICK s \in Slots : Holds(Shell, s) /\ caps[Shell][s] = donor
    BY <1>3, DonorFacts, Zenon DEF ShellEntryInstall
  <2> QED
    BY <2>1, <2>2, CapConstants, Zenon
<1>4. ASSUME NEW u \in Tasks, NEW cap, Insert(u, cap), cap.origin = 0 PROVE FALSE
  BY <1>4, Zenon DEF Insert
<1>5. \A res, g, id : Root(res, g, id).origin = 0
  BY Zenon DEF Root
<1>6. ASSUME NEW u \in Tasks, SpawnTask(u) \/ ShellSpawnService(u) PROVE FALSE
  BY <1>4, <1>5, <1>6, CapConstants, ZenonT(60) DEF SpawnTask, ShellSpawnService
<1>7. ASSUME NEW res \in SyncObjects, ShellMint(res) PROVE FALSE
  BY <1>4, <1>5, <1>7, CapConstants, ZenonT(60) DEF ShellMint
<1>8. ASSUME NEW u \in Tasks, NEW v \in Tasks, NEW res \in SyncObjects, ShellSpawnCopies(u, v, res)
      PROVE  FALSE
  BY <1>5, <1>8, ZenonT(60) DEF ShellSpawnCopies
<1>9. ~UNCHANGED minted
  BY Zenon
<1> QED
  BY <1>1, <1>2, <1>3, <1>6, <1>7, <1>8, <1>9, ZenonT(60)
  DEF Next, vars, CapRevoke, Terminate, ShellClearSlot, ShellGrantRead, ShellEntryRead,
      ShellRevoke, ShellSeal

\* Every grant takes effect while its donor is held, in both builds.
THEOREM GrantUnderAuthority == Spec => DonorHeldAtGrant
<1>1. ASSUME IndInv, [Next]_vars
      PROVE  [\A c \in minted' \ minted :
                  c.origin # 0 =>
                      \E t \in Tasks, s \in Slots : Holds(t, s) /\ caps[t][s].id = c.origin]_vars
  BY <1>1, DonorStep, Zenon
<1> QED
  BY <1>1, Invariance, PTL DEF Spec, DonorHeldAtGrant
=============================================================================

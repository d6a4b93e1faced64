---------------------------- MODULE WinMemoryProofs ----------------------------
(***************************************************************************)
(* Proof of the memory-access invariant that holds: allocateMemory        *)
(* commits a page with every right asked for and nothing but read besides. *)
(***************************************************************************)
EXTENDS WinMemory, TLAPS

\* What PAGE_* constant allocateMemory picks grants the rights asked for
\* and at most read besides, for each of the eight protections.
LEMMA AllocProtectionSound ==
    ASSUME NEW p \in SUBSET Rights
    PROVE  /\ p \subseteq AllocProtection(p)
           /\ AllocProtection(p) \ p \subseteq {"r"}
<1>1. CASE "x" \in p /\ "w" \in p
  BY <1>1 DEF AllocProtection, Rights
<1>2. CASE "x" \in p /\ "w" \notin p /\ "r" \in p
  BY <1>2 DEF AllocProtection, Rights
<1>3. CASE "x" \in p /\ "w" \notin p /\ "r" \notin p
  BY <1>3 DEF AllocProtection, Rights
<1>4. CASE "x" \notin p /\ "w" \in p
  BY <1>4 DEF AllocProtection, Rights
<1>5. CASE "x" \notin p /\ "w" \notin p /\ "r" \in p
  BY <1>5 DEF AllocProtection, Rights
<1>6. CASE "x" \notin p /\ "w" \notin p /\ "r" \notin p
  BY <1>6 DEF AllocProtection, Rights
<1>7. QED
  BY <1>1, <1>2, <1>3, <1>4, <1>5, <1>6

\* The property only speaks of the call just made, so it holds after any
\* step whatever the state before it.
LEMMA AllocStep == [Next]_vars /\ AllocationGrantsRequested =>
                   AllocationGrantsRequested'
<1> SUFFICES ASSUME [Next]_vars, AllocationGrantsRequested
             PROVE  AllocationGrantsRequested'
  OBVIOUS
<1>1. ASSUME NEW p \in SUBSET Rights, NEW ok \in BOOLEAN, AllocateMemory(p, ok)
      PROVE  AllocationGrantsRequested'
  BY <1>1, AllocProtectionSound DEF AllocateMemory, AllocationGrantsRequested
<1>2. ASSUME NEW v \in BOOLEAN, NEW len \in 1..MaxLen, NEW k \in 0..MaxLen,
             NEW e \in LastErrors,
             ReadMemoryBuffer(v, len, k, e) \/ WriteMemoryBuffer(v, len, k, e)
      PROVE  AllocationGrantsRequested'
  BY <1>2 DEF ReadMemoryBuffer, WriteMemoryBuffer, AllocationGrantsRequested
<1>3. CASE UNCHANGED vars
  BY <1>3 DEF vars, AllocationGrantsRequested
<1>4. ASSUME NEW ok \in BOOLEAN, DeallocateMemory(ok)
      PROVE  AllocationGrantsRequested'
  BY <1>4 DEF DeallocateMemory, AllocationGrantsRequested
<1>5. ASSUME NEW mods \in ModuleLists, NEW fail \in 0..(MaxModules + 2),
             EnumerateSharedLibraries(mods, fail)
      PROVE  AllocationGrantsRequested'
  BY <1>5 DEF EnumerateSharedLibraries, AllocationGrantsRequested
<1>6. QED
  BY <1>1, <1>2, <1>3, <1>4, <1>5 DEF Next

\* Every page allocateMemory commits, for every combination of
\* kProtectionRead, kProtectionWrite and kProtectionExecute, grants what
\* was asked and nothing but read besides.
THEOREM AllocationSound == Spec => []AllocationGrantsRequested
<1>1. Init => AllocationGrantsRequested
  BY DEF Init, AllocationGrantsRequested
<1>2. QED
  BY <1>1, AllocStep, PTL DEF Spec

=============================================================================

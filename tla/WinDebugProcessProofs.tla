----------------------- MODULE WinDebugProcessProofs -----------------------
(* Proofs about WinDebugProcess that hold for every value of its constants. *)
EXTENDS WinDebugProcess, TLAPS

(* The type invariant split into its Boolean part, which Zenon proves, and *)
(* the rest, which SMT proves.                                              *)
TypeBool ==
    /\ osAlive \in BOOLEAN
    /\ terminated \in BOOLEAN
    /\ attached \in BOOLEAN
    /\ bpEnabled \in BOOLEAN

TypeData ==
    /\ osThreads \subseteq Tids
    /\ osUsed \subseteq Tids
    /\ pending \in Tids \cup {NoTid}
    /\ breakReq \in Nat
    /\ breakIns \subseteq Tids
    /\ mem \in [Addrs -> Bytes]
    /\ threads \in [Tids -> ThreadStates]
    /\ current \in Tids \cup {NoTid}
    /\ phase \in Phases
    /\ refs \in [Addrs -> 0..MaxRef]
    /\ patched \subseteq Addrs
    /\ saved \in [Addrs -> Bytes]

LEMMA TypeSplit == TypeOK <=> TypeBool /\ TypeData
BY Zenon DEF TypeOK, TypeBool, TypeData

\* The breakpoint-manager helpers keep the manager's state well typed.
LEMMA PatchSitesType ==
    ASSUME TypeData, NEW S \in SUBSET Addrs, PatchSites(S)
    PROVE  /\ mem' \in [Addrs -> Bytes]
           /\ saved' \in [Addrs -> Bytes]
           /\ patched' \subseteq Addrs
BY DEF TypeData, PatchSites, Bytes

LEMMA RestoreSitesType ==
    ASSUME TypeData, NEW S \in SUBSET Addrs, RestoreSites(S)
    PROVE  /\ mem' \in [Addrs -> Bytes]
           /\ saved' \in [Addrs -> Bytes]
           /\ patched' \subseteq Addrs
BY DEF TypeData, RestoreSites, Bytes

\* Process::resume leaves a well-typed thread table and event.
LEMMA ResumeType ==
    ASSUME NEW th \in [Tids -> ThreadStates],
           NEW ev \in Tids \cup {NoTid}
    PROVE  /\ ResumeStopped(th, ev) \in [Tids -> ThreadStates]
           /\ PendingAfterResume(th, ev) \in Tids \cup {NoTid}
BY DEF ResumeStopped, ContinueOK, PendingAfterResume, ThreadStates

\* ProcessBase::insert leaves a well-typed table in which t is present and
\* every other entry is as it was.
LEMMA InsertThreadFacts ==
    ASSUME NEW th \in [Tids -> ThreadStates], NEW t \in Tids
    PROVE  /\ InsertThread(th, t) \in [Tids -> ThreadStates]
           /\ InsertThread(th, t)[t] # "absent"
           /\ InsertThread(th, t)[t] = "kStopped" \/ InsertThread(th, t)[t] = th[t]
           /\ \A u \in Tids \ {t} : InsertThread(th, t)[u] = th[u]
BY DEF InsertThread, ThreadStates

\* Process::resume changes no thread between absent and present.
LEMMA ResumeKeepsKnown ==
    ASSUME NEW th \in [Tids -> ThreadStates], NEW ev, NEW t \in Tids
    PROVE  ResumeStopped(th, ev)[t] = "absent" <=> th[t] = "absent"
BY DEF ResumeStopped, ContinueOK

\* The initial state is well typed.
LEMMA TypeInit == Init => TypeOK
<1> SUFFICES ASSUME Init PROVE TypeBool /\ TypeData
  BY TypeSplit
<1>1. TypeBool
  BY Zenon DEF Init, TypeBool
<1>2. MaxRef \in Nat /\ MainTid \in Tids
  BY ConstantsAssumption
<1>3. TypeData
  BY <1>2 DEF Init, TypeData, Bytes, ThreadStates, Phases
<1>4. QED
  BY <1>1, <1>3

\* Every step of Next keeps the state well typed.
LEMMA TypeStep == TypeOK /\ [Next]_vars => TypeOK'
<1> SUFFICES ASSUME TypeOK, [Next]_vars PROVE TypeBool' /\ TypeData'
  BY Zenon DEF TypeOK, TypeBool, TypeData
<1>1. TypeBool'
  <2> USE DEF TypeOK, TypeBool
  <2>1. ASSUME NEW a \in Addrs, InsertBreakpoint(a) \/ RemoveBreakpoint(a)
        PROVE TypeBool'
    BY <2>1, Zenon DEF InsertBreakpoint, RemoveBreakpoint, ds2Vars
  <2>2. CASE BeforeResume \/ AfterResume
    BY <2>2, Zenon DEF BeforeResume, EnableAll, AfterResume, DisableAll
  <2>3. CASE Resume
    BY <2>3, Zenon DEF Resume, bpVars
  <2>4. ASSUME NEW t \in Tids, NEW b \in BOOLEAN,
               OnCreateThread(t, b) \/ OnExitThread(t) \/ OnStopEvent(t)
        PROVE TypeBool'
    BY <2>4, Zenon DEF OnCreateThread, OnExitThread, OnStopEvent, UpdateState, bpVars
  <2>5. CASE OnExitProcess \/ Detach \/ Terminate
    BY <2>5, Zenon DEF OnExitProcess, bpVars, Detach, Terminate, ClearAll
  <2>6. CASE Disconnect \/ Interrupt \/ Closed \/ UNCHANGED vars
    BY <2>6, Zenon DEF Disconnect, Interrupt, Closed, vars, osVars,
       ds2Vars, bpVars
  <2>7. QED
    BY <2>1, <2>2, <2>3, <2>4, <2>5, <2>6 DEF Next
<1> SUFFICES TypeData'
  BY <1>1
<1>0. TypeData
  BY TypeSplit
<1>2. ASSUME NEW a \in Addrs, InsertBreakpoint(a) PROVE TypeData'
  <2>1. refs' = [refs EXCEPT ![a] = @ + 1] /\ refs[a] < MaxRef
    BY <1>2, Zenon DEF InsertBreakpoint
  <2>2. refs' \in [Addrs -> 0..MaxRef]
    <3>1. refs \in [Addrs -> 0..MaxRef]
      BY <1>0 DEF TypeData
    <3>2. QED
      BY <3>1, <2>1, ConstantsAssumption
  <2>3. /\ mem' \in [Addrs -> Bytes]
        /\ saved' \in [Addrs -> Bytes]
        /\ patched' \subseteq Addrs
    <3>1. CASE refs[a] = 0 /\ bpEnabled
      <4>1. PatchSites({a})
        BY <1>2, <3>1, Zenon DEF InsertBreakpoint
      <4>2. QED
        BY <1>0, <4>1, PatchSitesType
    <3>2. CASE ~(refs[a] = 0 /\ bpEnabled)
      <4>1. UNCHANGED <<mem, saved, patched>>
        BY <1>2, <3>2, Zenon DEF InsertBreakpoint
      <4>2. QED
        BY <1>0, <4>1 DEF TypeData
    <3>3. QED
      BY <3>1, <3>2
  <2>4. UNCHANGED <<osThreads, osUsed, pending, breakReq, breakIns,
                    threads, current, phase>>
    BY <1>2, Zenon DEF InsertBreakpoint, ds2Vars
  <2>5. QED
    BY <1>0, <2>2, <2>3, <2>4 DEF TypeData
<1>3. ASSUME NEW a \in Addrs, RemoveBreakpoint(a) PROVE TypeData'
  <2>1. refs' = [refs EXCEPT ![a] = @ - 1] /\ refs[a] > 0
    BY <1>3, Zenon DEF RemoveBreakpoint
  <2>2. refs' \in [Addrs -> 0..MaxRef]
    <3>1. refs \in [Addrs -> 0..MaxRef]
      BY <1>0 DEF TypeData
    <3>2. QED
      BY <3>1, <2>1, ConstantsAssumption
  <2>3. /\ mem' \in [Addrs -> Bytes]
        /\ saved' \in [Addrs -> Bytes]
        /\ patched' \subseteq Addrs
    <3>1. CASE refs[a] = 1 /\ a \in patched
      <4>1. RestoreSites({a})
        BY <1>3, <3>1, Zenon DEF RemoveBreakpoint
      <4>2. QED
        BY <1>0, <4>1, RestoreSitesType
    <3>2. CASE ~(refs[a] = 1 /\ a \in patched)
      <4>1. UNCHANGED <<mem, saved, patched>>
        BY <1>3, <3>2, Zenon DEF RemoveBreakpoint
      <4>2. QED
        BY <1>0, <4>1 DEF TypeData
    <3>3. QED
      BY <3>1, <3>2
  <2>4. UNCHANGED <<osThreads, osUsed, pending, breakReq, breakIns,
                    threads, current, phase>>
    BY <1>3, Zenon DEF RemoveBreakpoint, ds2Vars
  <2>5. QED
    BY <1>0, <2>2, <2>3, <2>4 DEF TypeData
<1>4. CASE BeforeResume
  <2>1. /\ mem' \in [Addrs -> Bytes]
        /\ saved' \in [Addrs -> Bytes]
        /\ patched' \subseteq Addrs
    BY <1>0, <1>4, PatchSitesType DEF BeforeResume, EnableAll, Sites
  <2>2. QED
    BY <1>0, <1>4, <2>1 DEF BeforeResume, EnableAll, TypeData, Phases
<1>5. CASE Resume
  BY <1>0, <1>5, ResumeType DEF Resume, TypeData, Phases, bpVars
<1>6. ASSUME NEW t \in Tids, NEW b \in BOOLEAN, OnCreateThread(t, b)
      PROVE TypeData'
  <2> DEFINE th == InsertThread(threads, t)
  <2>1. th \in [Tids -> ThreadStates]
    BY <1>0 DEF TypeData, ThreadStates, InsertThread
  <2>2. /\ threads' \in [Tids -> ThreadStates]
        /\ pending' \in Tids \cup {NoTid}
    BY <1>6, <2>1, ResumeType DEF OnCreateThread
  <2>3. breakReq' \in Nat
    BY <1>0, <1>6 DEF OnCreateThread, TypeData
  <2>4. QED
    BY <1>0, <1>6, <2>2, <2>3 DEF OnCreateThread, TypeData, bpVars
<1>7. ASSUME NEW t \in Tids, OnExitThread(t) PROVE TypeData'
  BY <1>0, <1>7 DEF OnExitThread, RemoveThread, TypeData, ThreadStates, bpVars
<1>8. ASSUME NEW t \in Tids, OnStopEvent(t) PROVE TypeData'
  BY <1>0, <1>8 DEF OnStopEvent, UpdateState, TypeData, ThreadStates, Phases, bpVars
<1>9. CASE OnExitProcess
  BY <1>0, <1>9 DEF OnExitProcess, TypeData, Phases, bpVars
<1>10. CASE AfterResume
  <2>1. phase' = "idle" /\ UNCHANGED <<osThreads, osUsed, pending, breakReq,
                                       breakIns, threads, current, refs>>
    BY <1>10, Zenon DEF AfterResume
  <2>2. /\ mem' \in [Addrs -> Bytes]
        /\ saved' \in [Addrs -> Bytes]
        /\ patched' \subseteq Addrs
    <3>1. CASE terminated
      <4>1. UNCHANGED <<mem, saved, patched>>
        BY <1>10, <3>1, Zenon DEF AfterResume
      <4>2. QED
        BY <1>0, <4>1 DEF TypeData
    <3>2. CASE ~terminated
      <4>1. RestoreSites(patched)
        BY <1>10, <3>2, Zenon DEF AfterResume, DisableAll
      <4>2. QED
        BY <1>0, <4>1, RestoreSitesType DEF TypeData
    <3>3. QED
      BY <3>1, <3>2
  <2>3. QED
    BY <1>0, <2>1, <2>2 DEF TypeData, Phases
<1>11. ASSUME Detach \/ Terminate PROVE TypeData'
  <2>1. RestoreSites(patched) /\ refs' = [a \in Addrs |-> 0]
    BY <1>11, Zenon DEF Detach, Terminate, ClearAll
  <2>2. /\ mem' \in [Addrs -> Bytes]
        /\ saved' \in [Addrs -> Bytes]
        /\ patched' \subseteq Addrs
    BY <1>0, <2>1, RestoreSitesType DEF TypeData
  <2>3. refs' \in [Addrs -> 0..MaxRef]
    BY <2>1, ConstantsAssumption
  <2>4. /\ threads' \in [Tids -> ThreadStates]
        /\ current' \in Tids \cup {NoTid}
        /\ pending' \in Tids \cup {NoTid}
    <3>1. \/ /\ threads' = [t \in Tids |-> "absent"]
             /\ current' = NoTid /\ pending' = NoTid
          \/ UNCHANGED <<threads, current, pending>>
      BY <1>11, Zenon DEF Detach, Terminate, Cleanup
    <3>2. QED
      BY <1>0, <3>1 DEF TypeData, ThreadStates
  <2>5. /\ osThreads' \subseteq Tids
        /\ breakIns' \subseteq Tids
        /\ breakReq' \in Nat
        /\ UNCHANGED <<osUsed, phase>>
    <3>1. \/ UNCHANGED <<osThreads, breakIns, breakReq, osUsed, phase>>
          \/ /\ osThreads' = {} /\ breakIns' = {} /\ breakReq' = 0
             /\ UNCHANGED <<osUsed, phase>>
      BY <1>11, Zenon DEF Detach, Terminate, Cleanup
    <3>2. QED
      BY <1>0, <3>1 DEF TypeData
  <2>6. QED
    BY <1>0, <2>2, <2>3, <2>4, <2>5 DEF TypeData
<1>13. CASE Disconnect
  BY <1>0, <1>13 DEF Disconnect, TypeData, Phases, osVars, bpVars
<1>14. CASE Interrupt
  BY <1>0, <1>14 DEF Interrupt, TypeData, osVars, ds2Vars, bpVars
<1>15. CASE Closed
  BY <1>0, <1>15 DEF Closed, TypeData, vars, osVars, ds2Vars, bpVars
<1>16. CASE UNCHANGED vars
  BY <1>0, <1>16 DEF TypeData, vars, osVars, ds2Vars, bpVars
<1>17. QED
  BY <1>2, <1>3, <1>4, <1>5, <1>6, <1>7, <1>8, <1>9, <1>10, <1>11,
     <1>13, <1>14, <1>15, <1>16 DEF Next

\* Every reachable state of the model is well typed.
THEOREM TypeCorrect == Spec => []TypeOK
BY TypeInit, TypeStep, PTL DEF Spec

-----------------------------------------------------------------------------
(***************************************************************************)
(* The breakpoint invariant: trap bytes exactly at the patched sites.  It *)
(* is not inductive alone:                                                 *)
(* an idle InsertBreakpoint with bpEnabled set would patch a site the      *)
(* debugger then sees, and EnableAll relies on the bytes of unpatched      *)
(* sites being the original ones.  The strengthening records that every    *)
(* unpatched byte is original and that an idle ds2 has disabled the        *)
(* manager (afterResume ran disable(), or nothing was ever enabled).       *)
(***************************************************************************)
BreakpointInv ==
    ~terminated =>
        /\ \A a \in Addrs : mem[a] = IF a \in patched THEN "trap" ELSE "orig"
        /\ \A a \in patched : saved[a] = "orig"
        /\ patched \subseteq Sites
        /\ phase = "idle" => patched = {} /\ ~bpEnabled

BpIInv == TypeOK /\ BreakpointInv

LEMMA BpInit == Init => BpIInv
<1> SUFFICES ASSUME Init PROVE BpIInv
  OBVIOUS
<1>1. BreakpointInv
  BY DEF Init, BreakpointInv, Sites
<1>2. QED
  BY <1>1, TypeInit DEF BpIInv

\* A step that leaves the manager, the memory, terminated and phase alone
\* keeps the breakpoint invariant.
LEMMA BpUnchanged ==
    ASSUME BreakpointInv, UNCHANGED <<mem, terminated, phase, bpVars>>
    PROVE  BreakpointInv'
BY DEF BreakpointInv, Sites, bpVars

\* Every step of Next keeps the breakpoint invariant.
LEMMA BpStep == BpIInv /\ [Next]_vars => BpIInv'
<1> SUFFICES ASSUME TypeOK, BreakpointInv, [Next]_vars
             PROVE  BreakpointInv'
  BY TypeStep DEF BpIInv
<1>1. ASSUME NEW a \in Addrs, InsertBreakpoint(a) PROVE BreakpointInv'
  BY <1>1 DEF InsertBreakpoint, BreakpointInv, TypeOK, Sites, bpVars
<1>2. ASSUME NEW a \in Addrs, RemoveBreakpoint(a) PROVE BreakpointInv'
  BY <1>2 DEF RemoveBreakpoint, BreakpointInv, TypeOK, Sites, bpVars
<1>3. CASE BeforeResume
  BY <1>3 DEF BeforeResume, EnableAll, PatchSites, BreakpointInv, TypeOK, Sites
<1>4. CASE Resume
  BY <1>4 DEF Resume, BreakpointInv, Sites, bpVars
<1>5. ASSUME NEW t \in Tids, NEW b \in BOOLEAN, OnCreateThread(t, b)
      PROVE BreakpointInv'
  BY <1>5, BpUnchanged DEF OnCreateThread
<1>6. ASSUME NEW t \in Tids, OnExitThread(t) PROVE BreakpointInv'
  BY <1>6, BpUnchanged DEF OnExitThread
<1>7. ASSUME NEW t \in Tids, OnStopEvent(t) PROVE BreakpointInv'
  BY <1>7 DEF OnStopEvent, BreakpointInv, Sites, bpVars
<1>8. CASE OnExitProcess \/ Terminate
  BY <1>8 DEF OnExitProcess, Terminate, BreakpointInv
<1>9. CASE AfterResume
  BY <1>9 DEF AfterResume, DisableAll, RestoreSites, BreakpointInv, TypeOK, Sites
<1>10. CASE Detach
  BY <1>10 DEF Detach, ClearAll, RestoreSites, BreakpointInv, TypeOK, Sites
<1>11. CASE Disconnect
  BY <1>11 DEF Disconnect, BreakpointInv, Sites, osVars, bpVars
<1>12. CASE Interrupt \/ Closed \/ UNCHANGED vars
  BY <1>12, BpUnchanged DEF Interrupt, Closed, vars, osVars, ds2Vars
<1>13. QED
  BY <1>1, <1>2, <1>3, <1>4, <1>5, <1>6, <1>7, <1>8, <1>9, <1>10, <1>11,
     <1>12 DEF Next

\* Scenario C: a memory read the debugger issues while ds2 is idle on a
\* live target (between afterResume's disable() and the next
\* beforeResume) returns no trap opcode at any breakpoint address.
THEOREM NoTrapWhenStopped == Spec => []NoTrapVisibleWhenStopped
<1>1. BpIInv => NoTrapVisibleWhenStopped
  BY DEF BpIInv, BreakpointInv, NoTrapVisibleWhenStopped, TypeOK, Bytes
<1>2. QED
  BY <1>1, BpInit, BpStep, PTL DEF Spec

-----------------------------------------------------------------------------
(***************************************************************************)
(* The debug-event invariant.  NoWaitOnFrozenTarget needs to know that the *)
(* outstanding event belongs to a thread ds2 holds as kStopped: then the   *)
(* resume() that precedes wait() is sure to continue it.                   *)
(***************************************************************************)
\* Every id in ds2's table, and every live thread, is one the OS has used,
\* so the fresh id of a CREATE_THREAD event finds no entry that
\* ProcessBase::insert would keep.
KnownUsed == Known \subseteq osUsed /\ osThreads \subseteq osUsed

KuIInv == TypeOK /\ KnownUsed

LEMMA KuInit == Init => KuIInv
BY TypeInit DEF Init, KuIInv, KnownUsed, Known

LEMMA KuStep == KuIInv /\ [Next]_vars => KuIInv'
<1> SUFFICES ASSUME TypeOK, KnownUsed, [Next]_vars
             PROVE  KnownUsed'
  BY TypeStep DEF KuIInv
<1> USE DEF KnownUsed, Known
<1>1. ASSUME NEW a \in Addrs, InsertBreakpoint(a) \/ RemoveBreakpoint(a)
      PROVE KnownUsed'
  BY <1>1 DEF InsertBreakpoint, RemoveBreakpoint, ds2Vars, osVars
<1>2. CASE BeforeResume \/ AfterResume \/ OnExitProcess
  BY <1>2 DEF BeforeResume, AfterResume, OnExitProcess
<1>3. CASE Resume
  BY <1>3, ResumeKeepsKnown DEF Resume, TypeOK
<1>4. ASSUME NEW t \in Tids, NEW b \in BOOLEAN, OnCreateThread(t, b)
      PROVE KnownUsed'
  <2> DEFINE th == InsertThread(threads, t)
  <2>1. th \in [Tids -> ThreadStates]
        /\ \A u \in Tids \ {t} : th[u] = threads[u]
    BY InsertThreadFacts DEF TypeOK
  <2>2. /\ threads' = ResumeStopped(th, t)
        /\ osUsed' = osUsed \cup {t} /\ osThreads' = osThreads \cup {t}
    BY <1>4 DEF OnCreateThread
  <2>3. QED
    BY <2>1, <2>2, ResumeKeepsKnown
<1>5. ASSUME NEW t \in Tids, OnExitThread(t) PROVE KnownUsed'
  BY <1>5 DEF OnExitThread, RemoveThread, TypeOK
<1>6. ASSUME NEW t \in Tids, OnStopEvent(t) PROVE KnownUsed'
  BY <1>6 DEF OnStopEvent, UpdateState, TypeOK
<1>7. CASE Detach \/ Terminate
  BY <1>7 DEF Detach, Terminate, Cleanup
<1>8. CASE Disconnect \/ Interrupt \/ Closed \/ UNCHANGED vars
  BY <1>8 DEF Disconnect, Interrupt, Closed, vars, osVars, ds2Vars
<1>9. QED
  BY <1>1, <1>2, <1>3, <1>4, <1>5, <1>6, <1>7, <1>8 DEF Next

EventInv ==
    /\ pending # NoTid => threads[pending] = "kStopped"
    /\ NoWaitOnFrozenTarget

EvIInv == KuIInv /\ EventInv

LEMMA EvInit == Init => EvIInv
BY KuInit, ConstantsAssumption
   DEF Init, EvIInv, EventInv, NoWaitOnFrozenTarget

\* Every step of Next keeps the debug-event invariant.
LEMMA EvStep == EvIInv /\ [Next]_vars => EvIInv'
<1> SUFFICES ASSUME TypeOK, KnownUsed, EventInv, [Next]_vars
             PROVE  EventInv'
  BY KuStep DEF EvIInv, KuIInv
<1> USE DEF EventInv, NoWaitOnFrozenTarget
<1>1. ASSUME NEW a \in Addrs, InsertBreakpoint(a) \/ RemoveBreakpoint(a)
      PROVE EventInv'
  BY <1>1 DEF InsertBreakpoint, RemoveBreakpoint, ds2Vars
<1>2. CASE BeforeResume
  BY <1>2 DEF BeforeResume
<1>3. CASE Resume
  BY <1>3, ConstantsAssumption
     DEF Resume, ResumeStopped, PendingAfterResume, ContinueOK, TypeOK
<1>4. ASSUME NEW t \in Tids, NEW b \in BOOLEAN, OnCreateThread(t, b)
      PROVE EventInv'
  <2>1. threads[t] = "absent"
    BY <1>4 DEF OnCreateThread, KnownUsed, Known, TypeOK
  <2>2. InsertThread(threads, t) = [threads EXCEPT ![t] = "kStopped"]
    BY <2>1 DEF InsertThread
  <2>3. QED
    BY <1>4, <2>2, ConstantsAssumption
       DEF OnCreateThread, ResumeStopped, PendingAfterResume, ContinueOK,
           TypeOK
<1>5. ASSUME NEW t \in Tids, OnExitThread(t) \/ OnStopEvent(t)
      PROVE EventInv'
  BY <1>5, ConstantsAssumption DEF OnExitThread, RemoveThread, OnStopEvent, UpdateState, TypeOK
<1>6. CASE OnExitProcess \/ AfterResume
  BY <1>6 DEF OnExitProcess, AfterResume
<1>7. CASE Detach \/ Terminate
  BY <1>7, ConstantsAssumption DEF Detach, Terminate, Cleanup
<1>8. CASE Disconnect \/ Interrupt \/ Closed \/ UNCHANGED vars
  BY <1>8 DEF Disconnect, Interrupt, Closed, vars, osVars, ds2Vars
<1>9. QED
  BY <1>1, <1>2, <1>3, <1>4, <1>5, <1>6, <1>7, <1>8 DEF Next

\* wait() never blocks in WaitForDebugEvent(INFINITE) while a debug event
\* is outstanding: the resume() before it continued that event, whatever
\* threads were created, exited or stopped before.
THEOREM NoFrozenWait == Spec => []NoWaitOnFrozenTarget
<1>1. EvIInv => NoWaitOnFrozenTarget
  BY DEF EvIInv, EventInv
<1>2. QED
  BY <1>1, EvInit, EvStep, PTL DEF Spec

-----------------------------------------------------------------------------
(***************************************************************************)
(* The thread-table invariant.  A CREATE_THREAD event brings a thread id   *)
(* the OS never used; that it is absent from ds2's table follows from the  *)
(* table matching the OS only once the used ids are known to cover the     *)
(* live threads.                                                           *)
(***************************************************************************)
TableInv ==
    /\ osThreads \subseteq osUsed
    /\ ThreadTableMatchesOS

TbIInv == TypeOK /\ TableInv


LEMMA TbInit == Init => TbIInv
BY TypeInit, ConstantsAssumption
   DEF Init, TbIInv, TableInv, ThreadTableMatchesOS, Known

\* Every step of Next keeps the thread-table invariant.
LEMMA TbStep == TbIInv /\ [Next]_vars => TbIInv'
<1> SUFFICES ASSUME TypeOK, TableInv, [Next]_vars
             PROVE  TableInv'
  BY TypeStep DEF TbIInv
<1> USE DEF TableInv, ThreadTableMatchesOS
<1>1. ASSUME NEW a \in Addrs, InsertBreakpoint(a) \/ RemoveBreakpoint(a)
      PROVE TableInv'
  BY <1>1 DEF InsertBreakpoint, RemoveBreakpoint, ds2Vars, Known
<1>2. CASE BeforeResume \/ AfterResume \/ OnExitProcess \/ Terminate
  BY <1>2 DEF BeforeResume, AfterResume, OnExitProcess, Terminate, Known
<1>3. CASE Resume
  <2>1. Known' = Known
    BY <1>3, ResumeKeepsKnown DEF Resume, TypeOK, Known
  <2>2. QED
    BY <1>3, <2>1 DEF Resume
<1>4. ASSUME NEW t \in Tids, NEW b \in BOOLEAN, OnCreateThread(t, b)
      PROVE TableInv'
  <2> DEFINE th == InsertThread(threads, t)
  <2>1. /\ th \in [Tids -> ThreadStates]
        /\ th[t] # "absent"
        /\ \A u \in Tids \ {t} : th[u] = threads[u]
    BY InsertThreadFacts DEF TypeOK
  <2>2. threads' = ResumeStopped(th, t) /\ osThreads' = osThreads \cup {t}
        /\ osUsed' = osUsed \cup {t} /\ t \notin osUsed
        /\ UNCHANGED <<attached, terminated>>
    BY <1>4 DEF OnCreateThread
  <2>3. Known' = Known \cup {t}
    BY <2>1, <2>2, ResumeKeepsKnown DEF Known
  <2>4. QED
    BY <2>2, <2>3
<1>5. ASSUME NEW t \in Tids, OnExitThread(t) PROVE TableInv'
  BY <1>5 DEF OnExitThread, RemoveThread, Known, TypeOK
<1>6. ASSUME NEW t \in Tids, OnStopEvent(t) PROVE TableInv'
  BY <1>6 DEF OnStopEvent, UpdateState, Known, TypeOK
<1>7. CASE Detach
  BY <1>7 DEF Detach, Known
<1>8. CASE Disconnect \/ Interrupt \/ Closed \/ UNCHANGED vars
  BY <1>8 DEF Disconnect, Interrupt, Closed, vars, osVars, ds2Vars, Known
<1>9. QED
  BY <1>1, <1>2, <1>3, <1>4, <1>5, <1>6, <1>7, <1>8 DEF Next

\* Spec 3: while ds2 is attached to a live process, its thread table holds
\* exactly the threads the OS has, across every interleaving of thread
\* creation (with the resume() that follows), exit and stop events.
THEOREM TableMatchesOS == Spec => []ThreadTableMatchesOS
<1>1. TbIInv => ThreadTableMatchesOS
  BY DEF TbIInv, TableInv
<1>2. QED
  BY <1>1, TbInit, TbStep, PTL DEF Spec
====

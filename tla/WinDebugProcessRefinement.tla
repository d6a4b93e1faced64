--------------------- MODULE WinDebugProcessRefinement ---------------------
(***************************************************************************)
(* Proof that the Windows backend implements ExecControl under the        *)
(* mapping of WinDebugProcess: run from the phase, _terminated and         *)
(* attached; the threads from _threads; the breakpoints from the sites;    *)
(* the reported thread from the outstanding debug event.                   *)
(***************************************************************************)
EXTENDS WinDebugProcessProofs

(***************************************************************************)
(* The phase of the main context and what it says of the process: inside  *)
(* onResume ds2 is attached, and before the stop the target has not       *)
(* exited; whenever the debugger could be told of a stop, the thread of    *)
(* the outstanding event is in the thread table.                           *)
(***************************************************************************)
PhaseInv ==
    /\ phase \in {"resume", "wait", "after"} => attached
    /\ phase \in {"resume", "wait"} => ~terminated
    /\ phase \in {"idle", "after"} /\ attached /\ ~terminated =>
           pending \in Known

RfIInv == KuIInv /\ TableInv /\ PhaseInv

LEMMA RfInit == Init => RfIInv
BY KuInit, TbInit, ConstantsAssumption
   DEF Init, RfIInv, TbIInv, PhaseInv, Known

\* Every step of Next keeps the phase invariant.
LEMMA PhStep == RfIInv /\ [Next]_vars => PhaseInv'
<1> SUFFICES ASSUME TypeOK, KnownUsed, TableInv, PhaseInv, [Next]_vars
             PROVE  PhaseInv'
  BY DEF RfIInv, KuIInv
<1> USE DEF PhaseInv
<1>1. ASSUME NEW a \in Addrs, InsertBreakpoint(a) \/ RemoveBreakpoint(a)
      PROVE PhaseInv'
  BY <1>1 DEF InsertBreakpoint, RemoveBreakpoint, ds2Vars, Known
<1>2. CASE BeforeResume \/ Resume
  BY <1>2 DEF BeforeResume, Resume
<1>3. ASSUME NEW t \in Tids, NEW b \in BOOLEAN, OnCreateThread(t, b)
      PROVE PhaseInv'
  BY <1>3 DEF OnCreateThread
<1>4. ASSUME NEW t \in Tids, OnExitThread(t) PROVE PhaseInv'
  BY <1>4 DEF OnExitThread
<1>5. ASSUME NEW t \in Tids, OnStopEvent(t) PROVE PhaseInv'
  BY <1>5 DEF OnStopEvent, UpdateState, Known, TypeOK
<1>6. CASE OnExitProcess \/ AfterResume
  BY <1>6 DEF OnExitProcess, AfterResume, Known
<1>7. CASE Detach \/ Terminate
  BY <1>7 DEF Detach, Terminate, Cleanup, ClearAll, RestoreSites, Known
<1>8. CASE Disconnect \/ Interrupt \/ Closed \/ UNCHANGED vars
  BY <1>8 DEF Disconnect, Interrupt, Closed, vars, osVars, ds2Vars, Known
<1>9. QED
  BY <1>1, <1>2, <1>3, <1>4, <1>5, <1>6, <1>7, <1>8 DEF Next

LEMMA RfStep == RfIInv /\ [Next]_vars => RfIInv'
BY KuStep, TbStep, PhStep DEF RfIInv, TbIInv, KuIInv

-----------------------------------------------------------------------------
(***************************************************************************)
(* The mapping.  A step that leaves the phase, the flags, the outstanding *)
(* event, the table and the sites alone is a stutter of ExecControl.       *)
(***************************************************************************)
LEMMA ViewUnchanged ==
    ASSUME UNCHANGED <<phase, terminated, attached, pending, threads, refs>>
    PROVE  UNCHANGED Exec!vars
BY DEF Exec!vars, ExecRun, ExecReported, Known, Sites

LEMMA MapInit == Init => Exec!Init
BY ConstantsAssumption
   DEF Init, Exec!Init, ExecRun, ExecReported, Known, Sites

\* Each step of the backend is a step of ExecControl or leaves its view
\* unchanged.
LEMMA MapStep == RfIInv /\ [Next]_vars => [Exec!Next]_(Exec!vars)
<1> SUFFICES ASSUME TypeOK, KnownUsed, TableInv, PhaseInv, [Next]_vars
             PROVE  [Exec!Next]_(Exec!vars)
  BY DEF RfIInv, KuIInv
<1>1. ASSUME NEW a \in Addrs, InsertBreakpoint(a)
      PROVE Exec!SetBreakpoint(a)
  BY <1>1 DEF InsertBreakpoint, ds2Vars, Exec!SetBreakpoint, ExecRun,
              ExecReported, Known, Sites, TypeOK
<1>2. ASSUME NEW a \in Addrs, RemoveBreakpoint(a)
      PROVE [Exec!Next]_(Exec!vars)
  <2>1. CASE refs[a] = 1
    <3>1. Exec!ClearBreakpoint(a)
      BY <1>2, <2>1 DEF RemoveBreakpoint, ds2Vars, Exec!ClearBreakpoint,
                        ExecRun, ExecReported, Known, Sites, TypeOK
    <3>2. QED
      BY <3>1 DEF Exec!Next
  <2>2. CASE refs[a] # 1
    <3>1. Sites' = Sites
      BY <1>2, <2>2 DEF RemoveBreakpoint, Sites, TypeOK
    <3>2. QED
      BY <1>2, <3>1 DEF RemoveBreakpoint, ds2Vars, Exec!vars, ExecRun,
                        ExecReported, Known
  <2>3. QED
    BY <2>1, <2>2
<1>3. CASE BeforeResume
  BY <1>3 DEF BeforeResume, EnableAll, PatchSites, Exec!Next, Exec!Resume,
              ExecRun, ExecReported, Known, Sites
<1>4. ASSUME Resume PROVE UNCHANGED Exec!vars
  <2>1. Known' = Known
    BY <1>4, ResumeKeepsKnown DEF Resume, TypeOK, Known
  <2>2. QED
    BY <1>4, <2>1 DEF Resume, bpVars, PhaseInv, Exec!vars, ExecRun, ExecReported,
                      Sites
<1>5. ASSUME NEW t \in Tids, NEW b \in BOOLEAN, OnCreateThread(t, b)
      PROVE Exec!ThreadStarted(t)
  <2> DEFINE th == InsertThread(threads, t)
  <2>1. /\ th \in [Tids -> ThreadStates]
        /\ th[t] # "absent"
        /\ \A u \in Tids \ {t} : th[u] = threads[u]
    BY InsertThreadFacts DEF TypeOK
  <2>2. Known' = Known \cup {t}
    BY <1>5, <2>1, ResumeKeepsKnown DEF OnCreateThread, Known
  <2>3. t \notin Known
    BY <1>5 DEF OnCreateThread, KnownUsed
  <2>4. QED
    BY <1>5, <2>2, <2>3 DEF OnCreateThread, bpVars, PhaseInv, Exec!ThreadStarted,
                            ExecRun, ExecReported, Sites
<1>6. ASSUME NEW t \in Tids, OnExitThread(t)
      PROVE Exec!ThreadExited(t)
  <2>1. t \in Known
    BY <1>6 DEF OnExitThread, PhaseInv, TableInv, ThreadTableMatchesOS
  <2>2. Known' = Known \ {t}
    BY <1>6 DEF OnExitThread, RemoveThread, Known, TypeOK
  <2>3. QED
    BY <1>6, <2>1, <2>2 DEF OnExitThread, bpVars, PhaseInv, Exec!ThreadExited,
                            ExecRun, ExecReported, Sites
<1>7. ASSUME NEW t \in Tids, OnStopEvent(t)
      PROVE UNCHANGED Exec!vars
  <2>1. t \in Known
    BY <1>7 DEF OnStopEvent, PhaseInv, TableInv, ThreadTableMatchesOS
  <2>2. Known' = Known
    BY <1>7, <2>1 DEF OnStopEvent, UpdateState, Known, TypeOK
  <2>3. QED
    BY <1>7, <2>2 DEF OnStopEvent, bpVars, PhaseInv, Exec!vars, ExecRun,
                      ExecReported, Sites
<1>8. ASSUME OnExitProcess PROVE Exec!Exited
  BY <1>8 DEF OnExitProcess, bpVars, PhaseInv, Exec!Exited, ExecRun, ExecReported,
              Known, Sites
<1>9. CASE AfterResume
  <2>1. CASE terminated
    BY <1>9, <2>1 DEF AfterResume, DisableAll, RestoreSites, Exec!vars,
                      ExecRun, ExecReported, Known, Sites
  <2>2. CASE ~terminated
    <3>1. Exec!Stopped(pending)
      BY <1>9, <2>2 DEF AfterResume, DisableAll, RestoreSites, PhaseInv,
                        Exec!Stopped, ExecRun, ExecReported, Known, Sites
    <3>2. pending \in Tids
      BY <1>9, <2>2 DEF AfterResume, PhaseInv, Known
    <3>3. QED
      BY <3>1, <3>2 DEF Exec!Next
  <2>3. QED
    BY <2>1, <2>2
<1>10. CASE Detach
  <2>1. Sites' = {}
    BY <1>10 DEF Detach, ClearAll, Sites
  <2>2. QED
    BY <1>10, <2>1 DEF Detach, ClearAll, RestoreSites, Cleanup, Exec!Next,
                       Exec!Detach, ExecRun, ExecReported, Known
<1>11. CASE Terminate
  <2>1. Sites' = {}
    BY <1>11 DEF Terminate, ClearAll, Sites
  <2>2. QED
    BY <1>11, <2>1 DEF Terminate, ClearAll, RestoreSites, Cleanup,
                       Exec!Next, Exec!Terminate, ExecRun, ExecReported,
                       Known
<1>12. ASSUME Disconnect PROVE Exec!Close
  BY <1>12 DEF Disconnect, bpVars, Exec!Close, ExecRun, ExecReported,
               Known, Sites
<1>13. CASE Interrupt \/ Closed \/ UNCHANGED vars
  BY <1>13, ViewUnchanged DEF Interrupt, Closed, vars, osVars, ds2Vars,
                              bpVars
<1>14. QED
  BY <1>1, <1>2, <1>3, <1>4, <1>5, <1>6, <1>7, <1>8, <1>9, <1>10, <1>11,
     <1>12, <1>13 DEF Next, Exec!Next

\* Process::Create followed by any series of debugger requests, debug
\* events and interrupts behaves, seen by the session, as ExecControl
\* allows: see ImplementsExecControl.
THEOREM Refinement == Spec => ImplementsExecControl
BY RfInit, RfStep, MapInit, MapStep, PTL
   DEF Spec, ImplementsExecControl, Exec!Spec, RfIInv

\* Every stop ds2 reports to the debugger (the thread of the outstanding
\* debug event, which the stop reply names) is a thread of _threads: the
\* debugger can select it and read its registers.
THEOREM StopAtKnownThread == Spec => [](Exec!StopAtLiveThread)
<1>1. RfIInv => Exec!StopAtLiveThread
  BY DEF RfIInv, PhaseInv, Exec!StopAtLiveThread, ExecRun, ExecReported
<1>2. QED
  BY <1>1, RfInit, RfStep, PTL DEF Spec

-----------------------------------------------------------------------------
(***************************************************************************)
(* Breakpoints are armed whenever a thread is continued.  From             *)
(* beforeResume until afterResume every registered site is patched:       *)
(* enable() patched the sites that were not, and nothing adds a site or    *)
(* restores one while the target runs.  With BreakpointInv a patched site  *)
(* of a live target holds the trap, and PhaseInv says the target is live   *)
(* in those phases.                                                        *)
(***************************************************************************)
ArmedInv ==
    ~terminated /\ phase \in {"resume", "wait"} => Sites \subseteq patched

ArIInv == BpIInv /\ RfIInv /\ ArmedInv

LEMMA ArInit == Init => ArIInv
BY BpInit, RfInit DEF Init, ArIInv, ArmedInv

LEMMA ArmedStep == TypeOK /\ ArmedInv /\ [Next]_vars => ArmedInv'
<1> SUFFICES ASSUME TypeOK, ArmedInv, [Next]_vars PROVE ArmedInv'
  OBVIOUS
<1> USE DEF ArmedInv
<1>1. ASSUME NEW a \in Addrs, InsertBreakpoint(a) \/ RemoveBreakpoint(a)
      PROVE ArmedInv'
  BY <1>1 DEF InsertBreakpoint, RemoveBreakpoint, ds2Vars
<1>2. CASE BeforeResume
  BY <1>2 DEF BeforeResume, EnableAll, PatchSites, Sites
<1>3. CASE Resume
  BY <1>3 DEF Resume, bpVars, Sites
<1>4. ASSUME NEW t \in Tids, NEW b \in BOOLEAN, OnCreateThread(t, b)
      PROVE ArmedInv'
  BY <1>4 DEF OnCreateThread, bpVars, Sites
<1>5. ASSUME NEW t \in Tids, OnExitThread(t) \/ OnStopEvent(t)
      PROVE ArmedInv'
  BY <1>5 DEF OnExitThread, OnStopEvent, bpVars, Sites
<1>6. CASE OnExitProcess \/ AfterResume \/ Disconnect
  BY <1>6 DEF OnExitProcess, AfterResume, Disconnect
<1>7. CASE Detach \/ Terminate
  BY <1>7 DEF Detach, Terminate
<1>8. CASE Interrupt \/ Closed \/ UNCHANGED vars
  BY <1>8 DEF Interrupt, Closed, vars, ds2Vars, bpVars, Sites
<1>9. QED
  BY <1>1, <1>2, <1>3, <1>4, <1>5, <1>6, <1>7, <1>8 DEF Next

LEMMA ArStep == ArIInv /\ [Next]_vars => ArIInv'
BY BpStep, RfStep, ArmedStep DEF ArIInv, BpIInv, RfIInv, KuIInv

\* Only the main context's phases resume and wait continue threads: every
\* other step leaves the table alone, marks a thread kStopped, or empties
\* the table (cleanup on detach or kill).
LEMMA ContinueInResume ==
    ASSUME TypeOK, [Next]_vars, NEW t \in Tids,
           threads[t] = "kStopped", threads'[t] = "kRunning"
    PROVE  phase \in {"resume", "wait"}
<1>1. CASE Detach \/ Terminate
  BY <1>1 DEF Detach, Terminate, Cleanup
<1>2. ASSUME NEW a \in Addrs, InsertBreakpoint(a) \/ RemoveBreakpoint(a)
      PROVE FALSE
  BY <1>2 DEF InsertBreakpoint, RemoveBreakpoint, ds2Vars
<1>3. CASE BeforeResume \/ OnExitProcess \/ AfterResume \/ Disconnect
           \/ Interrupt \/ Closed \/ UNCHANGED vars
  BY <1>3 DEF BeforeResume, OnExitProcess, AfterResume, Disconnect,
              Interrupt, Closed, vars, ds2Vars
<1>4. CASE Resume
  BY <1>4 DEF Resume
<1>5. ASSUME NEW u \in Tids, NEW b \in BOOLEAN,
             OnCreateThread(u, b) \/ OnExitThread(u) \/ OnStopEvent(u)
      PROVE phase \in {"resume", "wait"}
  BY <1>5 DEF OnCreateThread, OnExitThread, OnStopEvent
<1>6. QED
  BY <1>1, <1>2, <1>3, <1>4, <1>5 DEF Next

\* Spec 5: no thread of the target is continued (Thread::resume's
\* ContinueDebugEvent succeeds) before enable() has written the trap at
\* every registered breakpoint; see ContinueOnlyArmed.
THEOREM ArmedWhenContinued == Spec => ContinueOnlyArmed
<1>1. ArIInv /\ [Next]_vars =>
          [(\E t \in Tids : threads[t] = "kStopped" /\ threads'[t] = "kRunning")
             => \A a \in Sites : mem[a] = "trap"]_vars
  <2> SUFFICES ASSUME ArIInv, [Next]_vars, NEW t \in Tids,
                      threads[t] = "kStopped", threads'[t] = "kRunning"
               PROVE  \A a \in Sites : mem[a] = "trap"
    OBVIOUS
  <2>1. TypeOK
    BY DEF ArIInv, BpIInv
  <2>2. phase \in {"resume", "wait"}
    BY <2>1, ContinueInResume
  <2>3. ~terminated
    BY <2>2 DEF ArIInv, RfIInv, PhaseInv
  <2>4. Sites \subseteq patched
    BY <2>2, <2>3 DEF ArIInv, ArmedInv
  <2>5. QED
    BY <2>3, <2>4 DEF ArIInv, BpIInv, BreakpointInv, Sites
<1>2. QED
  BY <1>1, ArInit, ArStep, PTL DEF Spec, ContinueOnlyArmed

-----------------------------------------------------------------------------
(***************************************************************************)
(* The breakpoint manager implements BreakpointContract.  The mapping      *)
(* hides patched and saved; what makes it sound is that this bookkeeping  *)
(* is exact: while enabled every site, and only the sites, are patched,    *)
(* none while disabled; memory holds the trap exactly at patched sites;    *)
(* and the bytes saved for a patched site are the original code, because  *)
(* enable() and add() save only at sites not patched yet.  This holds in   *)
(* every state, a terminated target included (nothing touches the manager *)
(* once the target has exited).                                            *)
(***************************************************************************)
ManagerInv ==
    /\ patched = IF bpEnabled THEN Sites ELSE {}
    /\ mem = [a \in Addrs |-> IF a \in patched THEN "trap" ELSE "orig"]
    /\ \A a \in patched : saved[a] = "orig"

MgIInv == TypeOK /\ ManagerInv

LEMMA MgInit == Init => MgIInv
<1> SUFFICES ASSUME Init PROVE MgIInv
  OBVIOUS
<1>1. ManagerInv
  BY DEF Init, ManagerInv, Sites
<1>2. QED
  BY <1>1, TypeInit DEF MgIInv

\* A step that leaves the manager and the memory alone keeps ManagerInv.
LEMMA MgUnchanged ==
    ASSUME ManagerInv, UNCHANGED <<mem, bpVars>>
    PROVE  ManagerInv'
BY DEF ManagerInv, Sites, bpVars

\* Every step of Next keeps ManagerInv.
LEMMA MgStep == MgIInv /\ [Next]_vars => MgIInv'
<1> SUFFICES ASSUME TypeOK, ManagerInv, [Next]_vars
             PROVE  ManagerInv'
  BY TypeStep DEF MgIInv
<1>1. ASSUME NEW a \in Addrs, InsertBreakpoint(a) PROVE ManagerInv'
  BY <1>1 DEF InsertBreakpoint, PatchSites, ManagerInv, TypeOK, Sites, bpVars
<1>2. ASSUME NEW a \in Addrs, RemoveBreakpoint(a) PROVE ManagerInv'
  BY <1>2 DEF RemoveBreakpoint, RestoreSites, ManagerInv, TypeOK, Sites, bpVars
<1>3. CASE BeforeResume
  BY <1>3 DEF BeforeResume, EnableAll, PatchSites, ManagerInv, TypeOK, Sites
<1>4. CASE AfterResume
  BY <1>4 DEF AfterResume, DisableAll, RestoreSites, ManagerInv, TypeOK, Sites
<1>5. CASE Detach \/ Terminate
  BY <1>5 DEF Detach, Terminate, ClearAll, RestoreSites, ManagerInv, TypeOK,
              Sites
<1>6. CASE Resume \/ OnExitProcess \/ Disconnect \/ Interrupt \/ Closed
           \/ UNCHANGED vars
  BY <1>6, MgUnchanged DEF Resume, OnExitProcess, Disconnect, Interrupt,
                           Closed, vars, osVars, ds2Vars
<1>7. ASSUME NEW t \in Tids, NEW b \in BOOLEAN,
             OnCreateThread(t, b) \/ OnExitThread(t) \/ OnStopEvent(t)
      PROVE ManagerInv'
  BY <1>7, MgUnchanged DEF OnCreateThread, OnExitThread, OnStopEvent
<1>8. QED
  BY <1>1, <1>2, <1>3, <1>4, <1>5, <1>6, <1>7 DEF Next

\* Under ManagerInv the target's bytes are the code the contract prescribes.
LEMMA MemIsCode ==
    ASSUME TypeOK, ManagerInv
    PROVE  mem = Bpm!CodeOf(refs, bpEnabled)
BY DEF ManagerInv, Bpm!CodeOf, Sites, TypeOK

LEMMA BpmInit == Init => Bpm!Init
BY DEF Init, Bpm!Init, Bpm!CodeOf

\* Each step of the backend is a step of the contract or leaves the
\* manager's counts, its flag and the memory alone.
LEMMA BpmStep ==
    MgIInv /\ MgIInv' /\ [Next]_vars => [Bpm!Next]_(Bpm!vars)
<1> SUFFICES ASSUME TypeOK, ManagerInv, TypeOK', ManagerInv', [Next]_vars
             PROVE  [Bpm!Next]_(Bpm!vars)
  BY DEF MgIInv
<1>0. mem' = Bpm!CodeOf(refs', bpEnabled')
  BY MemIsCode DEF ManagerInv, Bpm!CodeOf, Sites, TypeOK
<1>1. ASSUME NEW a \in Addrs, InsertBreakpoint(a) PROVE Bpm!Add(a)
  BY <1>0, <1>1 DEF InsertBreakpoint, Bpm!Add
<1>2. ASSUME NEW a \in Addrs, RemoveBreakpoint(a) PROVE Bpm!Remove(a)
  BY <1>0, <1>2 DEF RemoveBreakpoint, Bpm!Remove
<1>3. CASE BeforeResume \/ AfterResume
  <2>1. CASE BeforeResume \/ (AfterResume /\ ~terminated)
    <3>1. Bpm!SetEnabled(bpEnabled')
      BY <1>0, <2>1 DEF BeforeResume, AfterResume, EnableAll, DisableAll,
                        Bpm!SetEnabled
    <3>2. QED
      BY <3>1, <1>0 DEF Bpm!Next, TypeOK
  <2>2. CASE AfterResume /\ terminated
    BY <2>2 DEF AfterResume, Bpm!vars
  <2>3. QED
    BY <1>3, <2>1, <2>2
<1>4. CASE Detach \/ Terminate
  <2>1. Bpm!Clear
    BY <1>0, <1>4 DEF Detach, Terminate, ClearAll, Bpm!Clear
  <2>2. QED
    BY <2>1 DEF Bpm!Next
<1>5. CASE Resume \/ OnExitProcess \/ Disconnect \/ Interrupt \/ Closed
           \/ UNCHANGED vars
  BY <1>5 DEF Resume, OnExitProcess, Disconnect, Interrupt, Closed, vars,
              osVars, bpVars, Bpm!vars
<1>6. ASSUME NEW t \in Tids, NEW b \in BOOLEAN,
             OnCreateThread(t, b) \/ OnExitThread(t) \/ OnStopEvent(t)
      PROVE UNCHANGED Bpm!vars
  BY <1>6 DEF OnCreateThread, OnExitThread, OnStopEvent, bpVars, Bpm!vars
<1>7. QED
  BY <1>1, <1>2, <1>3, <1>4, <1>5, <1>6 DEF Next, Bpm!Next

\* Spec 3, 4.1 and 8: through any series of breakpoint requests, resume
\* cycles, detach and kill, the manager's saved bytes and its record of
\* patched sites keep the target's memory what the contract prescribes:
\* see ImplementsBreakpointContract.
THEOREM ManagerRefinement == Spec => ImplementsBreakpointContract
<1>1. MgIInv /\ [Next]_vars => [Bpm!Next]_(Bpm!vars)
  BY MgStep, BpmStep
<1>2. QED
  BY <1>1, MgInit, MgStep, BpmInit, PTL
     DEF Spec, ImplementsBreakpointContract, Bpm!Spec

=============================================================================

-------------------------- MODULE WinDebugProcess --------------------------
(***************************************************************************)
(* The Windows process-control backend of ds2 (Target/Windows/Process.cpp, *)
(* Target/Windows/Thread.cpp, Target/ProcessBase.cpp) together with the    *)
(* software breakpoint manager it drives at the resume/stop boundary, and  *)
(* the debugger-facing session that calls it.                              *)
(*                                                                         *)
(* The target process is modelled by what the Windows debug API lets ds2   *)
(* observe of it: the set of live threads, whether the process is alive,   *)
(* the one debug event that has been reported and not yet continued        *)
(* (while it is outstanding the whole target is frozen), the break-in      *)
(* requests made with DebugBreakProcess, and the bytes at the breakpoint   *)
(* addresses (the original instruction or the trap opcode).                *)
(*                                                                         *)
(* ds2's own state: the thread table _threads with each thread's _state,   *)
(* _currentThread, _terminated, whether it is still attached, the phase of *)
(* the debugger's current request (idle, or inside onResume: before the    *)
(* resume, in wait(), after the stop) and the breakpoint manager's sites.  *)
(***************************************************************************)
EXTENDS Naturals, FiniteSets

CONSTANTS
    Tids,       \* thread ids the target may ever use
    MainTid,    \* the thread the spawner created with the process
    NoTid,      \* "no thread": no debug event outstanding, no current thread
    Addrs,      \* addresses the debugger may set software breakpoints at
    MaxRef      \* bound on a site's reference count (model bound)

ASSUME ConstantsAssumption ==
    /\ MainTid \in Tids
    /\ NoTid \notin Tids
    /\ MaxRef \in Nat \ {0}

VARIABLES
    \* --- the target as the OS shows it ---
    osThreads,  \* threads alive in the target
    osUsed,     \* thread ids the target has used so far (ids are not reused)
    osAlive,    \* the target has not exited
    pending,    \* thread of the reported, not yet continued debug event
    breakReq,   \* DebugBreakProcess requests whose thread is not yet created
    breakIns,   \* break-in threads that have not yet raised their exception
    mem,        \* bytes at each breakpoint address: "orig" or "trap"
    \* --- ds2 ---
    threads,    \* _threads and each Thread::_state ("absent" = not in table)
    current,    \* _currentThread
    terminated, \* Process::_terminated
    attached,   \* still debugging (detach not yet done)
    phase,      \* where the session's main context is
    \* --- the software breakpoint manager ---
    refs,       \* reference count of the site at each address (0 = no site)
    patched,    \* sites whose trap opcode is written in memory
    saved,      \* _insns: the bytes saved when a site was patched
    bpEnabled   \* breakpoints globally enabled (between enable and disable)

osVars  == <<osThreads, osUsed, osAlive, pending, breakReq, breakIns, mem>>
ds2Vars == <<threads, current, terminated, attached, phase>>
bpVars  == <<refs, patched, saved, bpEnabled>>
vars    == <<osVars, ds2Vars, bpVars>>

ThreadStates == {"absent", "kStopped", "kRunning"}
Bytes        == {"orig", "trap"}
Phases       == {"idle", "resume", "wait", "after", "closed"}

\* The thread ids in ds2's table.
Known == {t \in Tids : threads[t] # "absent"}

\* Addresses that have a breakpoint site.
Sites == {a \in Addrs : refs[a] > 0}

TypeOK ==
    /\ osThreads \subseteq Tids
    /\ osUsed \subseteq Tids
    /\ osAlive \in BOOLEAN
    /\ pending \in Tids \cup {NoTid}
    /\ breakReq \in Nat
    /\ breakIns \subseteq Tids
    /\ mem \in [Addrs -> Bytes]
    /\ threads \in [Tids -> ThreadStates]
    /\ current \in Tids \cup {NoTid}
    /\ terminated \in BOOLEAN
    /\ attached \in BOOLEAN
    /\ phase \in Phases
    /\ refs \in [Addrs -> 0..MaxRef]
    /\ patched \subseteq Addrs
    /\ saved \in [Addrs -> Bytes]
    /\ bpEnabled \in BOOLEAN

-----------------------------------------------------------------------------
(***************************************************************************)
(* Software breakpoint manager (BreakpointManager.cpp and                  *)
(* SoftwareBreakpointManager.cpp are not in this repository: these         *)
(* operators follow the contract of spec section 4.1).                     *)
(***************************************************************************)

\* Mutant: the trap is written before the bytes are read, so the trap is
\* what is saved.
PatchSitesAfterWrite(S) ==
    /\ mem' = [a \in Addrs |-> IF a \in S THEN "trap" ELSE mem[a]]
    /\ saved' = [a \in Addrs |-> IF a \in S THEN mem'[a] ELSE saved[a]]
    /\ patched' = patched \cup S

\* enableLocation on every site in S: save the original bytes, write the trap.
PatchSites(S) ==
    /\ saved' = [a \in Addrs |-> IF a \in S THEN mem[a] ELSE saved[a]]
    /\ mem' = [a \in Addrs |-> IF a \in S THEN "trap" ELSE mem[a]]
    /\ patched' = patched \cup S

\* disableLocation on every site in S: write back the saved bytes.
RestoreSites(S) ==
    /\ mem' = [a \in Addrs |-> IF a \in S THEN saved[a] ELSE mem[a]]
    /\ patched' = patched \ S
    /\ UNCHANGED saved

\* enable(): patch every registered site that is not patched yet.
EnableAll ==
    /\ PatchSites(Sites \ patched)
    /\ bpEnabled' = TRUE
    /\ UNCHANGED refs

\* disable(): restore every patched site.
DisableAll ==
    /\ RestoreSites(patched)
    /\ bpEnabled' = FALSE
    /\ UNCHANGED refs

\* clear(): restore every patched site and erase every site.
ClearAll ==
    /\ RestoreSites(patched)
    /\ refs' = [a \in Addrs |-> 0]
    /\ UNCHANGED bpEnabled

-----------------------------------------------------------------------------
(***************************************************************************)
(* Thread resumption.  Process::resume walks the thread table and calls    *)
(* Thread::resume on every thread in state kStopped; that calls            *)
(* ContinueDebugEvent, which Windows accepts only for the thread of the    *)
(* outstanding debug event.  A refused call is logged and the thread keeps *)
(* its state.                                                              *)
(***************************************************************************)

\* Thread::resume(t) succeeds when ev is the thread of the outstanding event.
ContinueOK(th, ev, t) == th[t] = "kStopped" /\ t = ev

\* The thread table after Process::resume on table th.
ResumeStopped(th, ev) ==
    [t \in Tids |-> IF ContinueOK(th, ev, t) THEN "kRunning" ELSE th[t]]

\* The outstanding event after Process::resume on table th.
PendingAfterResume(th, ev) ==
    IF ev # NoTid /\ th[ev] = "kStopped" THEN NoTid ELSE ev

\* ProcessBase::insert of a new Thread (created kStopped): an entry already
\* in _threads for that id is kept.
InsertThread(th, t) ==
    IF th[t] = "absent" THEN [th EXCEPT ![t] = "kStopped"] ELSE th

\* Mutant: the exited thread is kept in the table, marked kTerminated.
RemoveThreadMarksTerminated(th, t) == [th EXCEPT ![t] = "kTerminated"]

\* ProcessBase::removeThread: erase the entry and delete the Thread.
RemoveThread(th, t) == [th EXCEPT ![t] = "absent"]

\* Thread::updateState(de) for an EXCEPTION, LOAD_DLL, UNLOAD_DLL or
\* OUTPUT_DEBUG_STRING event: the thread is kStopped (the stop reason it
\* records is not modelled).
UpdateState(th, t) == [th EXCEPT ![t] = "kStopped"]

\* Mutant: cleanup() resets _currentThread but leaves the table as it was.
CleanupKeepsThreads ==
    /\ UNCHANGED threads
    /\ current' = NoTid

\* ProcessBase::cleanup: remove every thread, reset _currentThread.
Cleanup ==
    /\ threads' = [t \in Tids |-> "absent"]
    /\ current' = NoTid

-----------------------------------------------------------------------------
(***************************************************************************)
(* Initial state: Process::Create has run the spawner and initialize():    *)
(* wait() consumed the CREATE_PROCESS event of the main thread (left       *)
(* uncontinued), _pid is set and the main thread, created kStopped, is the *)
(* current thread.                                                         *)
(***************************************************************************)
Init ==
    /\ osThreads = {MainTid}
    /\ osUsed = {MainTid}
    /\ osAlive = TRUE
    /\ pending = MainTid
    /\ breakReq = 0
    /\ breakIns = {}
    /\ mem = [a \in Addrs |-> "orig"]
    /\ threads = [t \in Tids |-> IF t = MainTid THEN "kStopped" ELSE "absent"]
    /\ current = MainTid
    /\ terminated = FALSE
    /\ attached = TRUE
    /\ phase = "idle"
    /\ refs = [a \in Addrs |-> 0]
    /\ patched = {}
    /\ saved = [a \in Addrs |-> "orig"]
    /\ bpEnabled = FALSE

-----------------------------------------------------------------------------
(* Debugger requests served by the main context while it is idle.          *)

\* Z0 insert: BreakpointManager::add.  A new site is patched at once only
\* while breakpoints are globally enabled.
InsertBreakpoint(a) ==
    /\ phase = "idle" /\ attached /\ ~terminated
    /\ refs[a] < MaxRef
    /\ refs' = [refs EXCEPT ![a] = @ + 1]
    /\ IF refs[a] = 0 /\ bpEnabled
         THEN PatchSites({a})
         ELSE UNCHANGED <<mem, saved, patched>>
    /\ UNCHANGED <<osThreads, osUsed, osAlive, pending, breakReq, breakIns,
                   ds2Vars, bpEnabled>>

\* z0 remove: BreakpointManager::remove.  The last reference restores.
RemoveBreakpoint(a) ==
    /\ phase = "idle" /\ attached /\ ~terminated
    /\ refs[a] > 0
    /\ refs' = [refs EXCEPT ![a] = @ - 1]
    /\ IF refs[a] = 1 /\ a \in patched
         THEN RestoreSites({a})
         ELSE UNCHANGED <<mem, saved, patched>>
    /\ UNCHANGED <<osThreads, osUsed, osAlive, pending, breakReq, breakIns,
                   ds2Vars, bpEnabled>>

\* Mutant: beforeResume returns kSuccess without calling bpm->enable().
BeforeResumeNoEnable ==
    /\ phase = "idle" /\ attached /\ ~terminated
    /\ phase' = "resume"
    /\ UNCHANGED <<osThreads, osUsed, osAlive, pending, breakReq, breakIns,
                   threads, current, terminated, attached, bpVars, mem>>

\* ProcessBase::beforeResume: refuse a dead process, else enable breakpoints.
BeforeResume ==
    /\ phase = "idle" /\ attached /\ ~terminated
    /\ EnableAll
    /\ phase' = "resume"
    /\ UNCHANGED <<osThreads, osUsed, osAlive, pending, breakReq, breakIns,
                   threads, current, terminated, attached>>

\* Process::resume(0, {}): continue every thread ds2 believes stopped.
Resume ==
    /\ phase = "resume"
    /\ threads' = ResumeStopped(threads, pending)
    /\ pending' = PendingAfterResume(threads, pending)
    /\ phase' = "wait"
    /\ UNCHANGED <<osThreads, osUsed, osAlive, breakReq, breakIns, mem,
                   current, terminated, attached, bpVars>>

-----------------------------------------------------------------------------
(***************************************************************************)
(* Process::wait: WaitForDebugEvent(INFINITE) returns an event only while  *)
(* the target runs (no event outstanding).  Each step below is one turn of *)
(* the loop: the target produces the event and ds2 handles it.             *)
(***************************************************************************)

\* Mutant: the new Thread starts in kRunning, so resume() skips it.
OnCreateThreadStartsRunning(t, isBreakIn) ==
    /\ phase = "wait" /\ pending = NoTid /\ osAlive
    /\ t \notin osUsed
    /\ isBreakIn => breakReq > 0
    /\ ~isBreakIn => breakReq < Cardinality(Tids \ osUsed)
    /\ osThreads' = osThreads \cup {t}
    /\ osUsed' = osUsed \cup {t}
    /\ breakReq' = IF isBreakIn THEN breakReq - 1 ELSE breakReq
    /\ breakIns' = IF isBreakIn THEN breakIns \cup {t} ELSE breakIns
    /\ LET th == [threads EXCEPT ![t] = "kRunning"]
       IN  /\ threads' = ResumeStopped(th, t)
           /\ pending' = PendingAfterResume(th, t)
    /\ UNCHANGED <<osAlive, mem, current, terminated, attached, phase, bpVars>>

\* CREATE_THREAD_DEBUG_EVENT: new Thread (kStopped, inserted in the table),
\* then resume() of the whole process; the loop goes on.  The thread is a
\* break-in thread when it is the one a DebugBreakProcess request creates.
OnCreateThread(t, isBreakIn) ==
    /\ phase = "wait" /\ pending = NoTid /\ osAlive
    /\ t \notin osUsed
    /\ isBreakIn => breakReq > 0
    \* model bound: ids are kept for the break-in threads already requested
    /\ ~isBreakIn => breakReq < Cardinality(Tids \ osUsed)
    /\ osThreads' = osThreads \cup {t}
    /\ osUsed' = osUsed \cup {t}
    /\ breakReq' = IF isBreakIn THEN breakReq - 1 ELSE breakReq
    /\ breakIns' = IF isBreakIn THEN breakIns \cup {t} ELSE breakIns
    /\ LET th == InsertThread(threads, t)
       IN  /\ threads' = ResumeStopped(th, t)
           /\ pending' = PendingAfterResume(th, t)
    /\ UNCHANGED <<osAlive, mem, current, terminated, attached, phase, bpVars>>

\* Mutant: the exited thread is continued but not removed from _threads.
OnExitThreadKeepsEntry(t) ==
    /\ phase = "wait" /\ pending = NoTid /\ osAlive
    /\ t \in osThreads \ breakIns
    /\ \E u \in osThreads : u # t
    /\ osThreads' = osThreads \ {t}
    /\ breakIns' = breakIns \ {t}
    /\ UNCHANGED <<osUsed, osAlive, pending, breakReq, mem,
                   threads, current, terminated, attached, phase, bpVars>>

\* EXIT_THREAD_DEBUG_EVENT (not the last thread: that one is EXIT_PROCESS):
\* ContinueDebugEvent, then removeThread; _currentThread is left as it was.
OnExitThread(t) ==
    /\ phase = "wait" /\ pending = NoTid /\ osAlive
    /\ t \in osThreads \ breakIns
    /\ \E u \in osThreads : u # t
    /\ osThreads' = osThreads \ {t}
    /\ breakIns' = breakIns \ {t}
    /\ threads' = RemoveThread(threads, t)
    /\ UNCHANGED <<osUsed, osAlive, pending, breakReq, mem,
                   current, terminated, attached, phase, bpVars>>

\* Mutant: the break-in thread's exception is continued and the loop goes on.
OnStopEventContinuesBreakIn(t) ==
    /\ phase = "wait" /\ pending = NoTid /\ osAlive
    /\ t \in osThreads
    /\ breakIns' = breakIns \ {t}
    /\ IF t \in breakIns
         THEN UNCHANGED <<pending, threads, phase>>
         ELSE /\ pending' = t
              /\ threads' = UpdateState(threads, t)
              /\ phase' = "after"
    /\ UNCHANGED <<osThreads, osUsed, osAlive, breakReq, mem,
                   current, terminated, attached, bpVars>>

\* EXCEPTION, LOAD_DLL, UNLOAD_DLL and OUTPUT_DEBUG_STRING events:
\* Thread::updateState marks the thread kStopped and wait() returns with
\* the event outstanding.  A break-in thread's event is its breakpoint.
OnStopEvent(t) ==
    /\ phase = "wait" /\ pending = NoTid /\ osAlive
    /\ t \in osThreads
    /\ pending' = t
    /\ breakIns' = breakIns \ {t}
    /\ threads' = UpdateState(threads, t)
    /\ phase' = "after"
    /\ UNCHANGED <<osThreads, osUsed, osAlive, breakReq, mem,
                   current, terminated, attached, bpVars>>

\* EXIT_PROCESS_DEBUG_EVENT: _terminated = true and wait() returns.
OnExitProcess ==
    /\ phase = "wait" /\ pending = NoTid /\ osAlive
    /\ osAlive' = FALSE
    /\ osThreads' = {}
    /\ breakIns' = {}
    /\ breakReq' = 0
    /\ terminated' = TRUE
    /\ phase' = "after"
    /\ UNCHANGED <<osUsed, pending, mem, threads, current, attached, bpVars>>

\* Mutant: afterResume forgets bpm->disable().
AfterResumeNoDisable ==
    /\ phase = "after"
    /\ phase' = "idle"
    /\ UNCHANGED <<osThreads, osUsed, osAlive, pending, breakReq, breakIns,
                   threads, current, terminated, attached, bpVars, mem>>

\* ProcessBase::afterResume: on a live process disable the breakpoints (the
\* hit() test that follows changes no modelled state); onResume returns.
AfterResume ==
    /\ phase = "after"
    /\ IF terminated THEN UNCHANGED <<mem, saved, patched, bpEnabled>>
                     ELSE DisableAll
    /\ phase' = "idle"
    /\ UNCHANGED <<osThreads, osUsed, osAlive, pending, breakReq, breakIns,
                   threads, current, terminated, attached, refs>>

-----------------------------------------------------------------------------
(* Requests that end the debugging of the target.                          *)

\* Process::detach: prepareForDetach (clear the breakpoints), then
\* DebugActiveProcessStop; when that fails the error is returned at once,
\* otherwise cleanup() empties the thread table.
Detach ==
    /\ phase = "idle" /\ attached /\ ~terminated
    /\ ClearAll
    /\ \/ /\ attached' = FALSE
          /\ Cleanup
          /\ pending' = NoTid
       \/ UNCHANGED <<attached, threads, current, pending>>
    /\ UNCHANGED <<osThreads, osUsed, osAlive, breakReq, breakIns,
                   terminated, phase>>

\* Process::terminate: TerminateProcess, _terminated = true, then detach().
Terminate ==
    /\ phase = "idle" /\ attached /\ ~terminated
    /\ osAlive' = FALSE
    /\ osThreads' = {}
    /\ breakIns' = {}
    /\ breakReq' = 0
    /\ terminated' = TRUE
    /\ ClearAll
    /\ \/ /\ attached' = FALSE
          /\ Cleanup
          /\ pending' = NoTid
       \/ UNCHANGED <<attached, threads, current, pending>>
    /\ UNCHANGED <<osUsed, phase>>

\* The debugger closes the connection: Session::receive fails, RunDebugServer
\* returns and the DebugSessionImpl is deleted.
Disconnect ==
    /\ phase = "idle"
    /\ phase' = "closed"
    /\ UNCHANGED <<osVars, threads, current, terminated, attached, bpVars>>

-----------------------------------------------------------------------------
(* The session thread: an out-of-band interrupt at any time.               *)

\* Process::interrupt: DebugBreakProcess asks the target to create a thread
\* that raises a breakpoint (bounded by the thread ids still unused).
Interrupt ==
    /\ phase # "closed" /\ attached /\ osAlive
    /\ breakReq < Cardinality(Tids \ osUsed)
    /\ breakReq' = breakReq + 1
    /\ UNCHANGED <<osThreads, osUsed, osAlive, pending, breakIns, mem,
                   ds2Vars, bpVars>>

\* After the connection is closed nothing more happens.
Closed ==
    /\ phase = "closed"
    /\ UNCHANGED vars

Next ==
    \/ \E a \in Addrs : InsertBreakpoint(a) \/ RemoveBreakpoint(a)
    \/ BeforeResume
    \/ Resume
    \/ \E t \in Tids, b \in BOOLEAN : OnCreateThread(t, b)
    \/ \E t \in Tids : OnExitThread(t) \/ OnStopEvent(t)
    \/ OnExitProcess
    \/ AfterResume
    \/ Detach
    \/ Terminate
    \/ Disconnect
    \/ Interrupt
    \/ Closed

Spec == Init /\ [][Next]_vars

(***************************************************************************)
(* Fairness.  Inside onResume the main context is never descheduled for   *)
(* good: Resume and AfterResume are weakly fair.  A DebugBreakProcess      *)
(* request is carried out by the target: the break-in thread is created    *)
(* and raises its breakpoint.  Nothing else the target does is assumed to *)
(* happen: it may run forever without a debug event.                       *)
(***************************************************************************)
FairSpec ==
    /\ Spec
    /\ WF_vars(Resume)
    /\ WF_vars(AfterResume)
    /\ WF_vars(\E t \in Tids : OnCreateThread(t, TRUE))
    /\ WF_vars(\E t \in breakIns : OnStopEvent(t))

-----------------------------------------------------------------------------
(***************************************************************************)
(* Refinement mapping onto ExecControl, the contract the session relies   *)
(* on: the target is stopped while the main context is idle on a live,    *)
(* attached process, running from beforeResume until afterResume; the      *)
(* threads it lists are _threads, its breakpoints the manager's sites, and *)
(* a stop is reported at the thread of the outstanding debug event.        *)
(***************************************************************************)
ExecRun ==
    IF phase = "closed" THEN "closed"
    ELSE IF terminated THEN "exited"
    ELSE IF ~attached THEN "detached"
    ELSE IF phase = "idle" THEN "stopped"
    ELSE "running"

ExecReported == IF ExecRun = "stopped" THEN pending ELSE NoTid

Exec == INSTANCE ExecControl
        WITH run <- ExecRun, live <- Known, reported <- ExecReported,
             bps <- Sites

\* Refinement mapping onto BreakpointContract: the manager's counts and
\* enabled flag are its state, the target's bytes at the addresses its code;
\* the saved bytes and the record of patched sites are hidden.
Bpm == INSTANCE BreakpointContract WITH enabled <- bpEnabled, code <- mem

-----------------------------------------------------------------------------
(* Properties.                                                              *)

\* Spec 3: the current thread, if set, is a thread of the process's table.
\* Process::wait removes exited threads (removeThread) without looking at
\* _currentThread.
CurrentThreadValid ==
    current = NoTid \/ threads[current] # "absent"

\* While ds2 debugs a live target its thread table holds exactly the
\* target's live threads: every CREATE_THREAD and EXIT_THREAD event handled
\* by Process::wait has been applied to _threads.
ThreadTableMatchesOS ==
    attached /\ ~terminated => Known = osThreads

\* wait() only blocks in WaitForDebugEvent(INFINITE) while the target runs:
\* Process::resume has continued the outstanding debug event.  Otherwise
\* the frozen target can report nothing and the server hangs.
NoWaitOnFrozenTarget ==
    phase = "wait" => pending = NoTid

\* Spec 5 and 8 (scenario C): whenever the debugger can inspect a live
\* target (no resume outstanding), no trap opcode is in its memory.
NoTrapVisibleWhenStopped ==
    phase = "idle" /\ ~terminated => \A a \in Addrs : mem[a] = "orig"

\* Spec 5: enable() completes before any thread resumes.  Whenever a
\* Thread::resume call succeeds (ContinueDebugEvent in Process::resume after
\* beforeResume, or in the resume() wait() makes after a CREATE_THREAD),
\* every breakpoint the debugger has registered holds its trap opcode.
ContinueOnlyArmed ==
    [][(\E t \in Tids : threads[t] = "kStopped" /\ threads'[t] = "kRunning")
         => \A a \in Sites : mem[a] = "trap"]_vars

\* The backend implements ExecControl: seen through _threads, the sites and
\* the event outstanding, every step of Process::wait, resume, detach,
\* terminate and the breakpoint requests is a step the session may expect
\* (threads change only inside onResume, breakpoints only outside it, a
\* stop is reported at a thread of the table) or leaves that view alone.
ImplementsExecControl == Exec!Spec

\* Spec 3, 4.1 and 8: the breakpoint manager keeps its contract through
\* every add, remove, enable() in beforeResume, disable() in afterResume
\* and clear() in detach and terminate: the target holds the trap opcode
\* exactly at the registered sites while enabled and its original code
\* everywhere else, so a disable() after an enable() restores memory byte
\* for byte, however many resume cycles the saved bytes have gone through.
ImplementsBreakpointContract == Bpm!Spec

\* An interrupt sent while onResume waits makes that resume return.
InterruptStopsTarget ==
    (phase = "wait" /\ breakReq > 0) ~> (phase = "idle")

=============================================================================

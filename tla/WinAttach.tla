------------------------------ MODULE WinAttach ------------------------------
(***************************************************************************)
(* Process::Attach (Target/Windows/Process.cpp) followed by the debugging  *)
(* of WinDebugProcess.  DebugActiveProcess makes Windows queue a           *)
(* CREATE_PROCESS event for one thread of the target, a CREATE_THREAD      *)
(* event for each of its other threads, and a break-in thread.  Attach     *)
(* then opens the process, takes the thread GetFirstThreadIdForProcess     *)
(* finds first in a Toolhelp snapshot, and initialize() consumes the       *)
(* CREATE_PROCESS event with wait().  Nothing relates the snapshot's order *)
(* to the thread Windows picks for CREATE_PROCESS, so both are chosen.     *)
(***************************************************************************)
EXTENDS WinDebugProcess

VARIABLES
    apc,           \* where Process::Attach is
    cpThread,      \* the thread of the queued CREATE_PROCESS event
    firstTid,      \* what GetFirstThreadIdForProcess returned
    pidSet,        \* ProcessBase::_pid holds the target's pid
    unreported,    \* threads whose queued CREATE_THREAD event is not handled
    attachResult,  \* what Attach returned: "none" yet, "process", "nullptr"
    targetHeld     \* the OS has the target under ds2's debugging

attachVars == <<apc, cpThread, firstTid, pidSet, unreported, attachResult,
                targetHeld>>

\* Before Attach: a running target with threads S, no Process yet.
AttachInit ==
    \E S \in SUBSET Tids \ {{}} :
        /\ osThreads = S /\ osUsed = S /\ osAlive = TRUE
        /\ pending = NoTid /\ breakReq = 0 /\ breakIns = {}
        /\ mem = [a \in Addrs |-> "orig"]
        /\ threads = [t \in Tids |-> "absent"] /\ current = NoTid
        /\ terminated = FALSE /\ attached = FALSE /\ phase = "attaching"
        /\ refs = [a \in Addrs |-> 0] /\ patched = {}
        /\ saved = [a \in Addrs |-> "orig"] /\ bpEnabled = FALSE
        /\ apc = "DebugActiveProcess" /\ cpThread = NoTid /\ firstTid = NoTid
        /\ pidSet = FALSE /\ unreported = {} /\ attachResult = "none"
        /\ targetHeld = FALSE

\* A goto to the fail labels: the Process is deleted, nullptr returned.
AttachFails ==
    /\ apc' = "returned" /\ attachResult' = "nullptr"
    /\ UNCHANGED <<vars, cpThread, firstTid, pidSet, unreported, targetHeld>>

\* DebugActiveProcess: Windows queues CREATE_PROCESS for one thread p,
\* CREATE_THREAD for the others, and creates a break-in thread.
DebugActiveProcess(ok, p) ==
    /\ apc = "DebugActiveProcess" /\ p \in osThreads
    /\ IF ~ok THEN AttachFails
       ELSE /\ apc' = "OpenProcess" /\ targetHeld' = TRUE
            /\ cpThread' = p /\ unreported' = osThreads \ {p}
            /\ breakReq' = 1
            /\ UNCHANGED <<osThreads, osUsed, osAlive, pending, breakIns, mem,
                           ds2Vars, bpVars, firstTid, pidSet, attachResult>>

\* OpenProcess, then the Toolhelp snapshot (kAnyThreadId when it finds no
\* thread of the pid), then OpenThread on the thread it found.
OpenProcess(ok) ==
    /\ apc = "OpenProcess"
    /\ IF ~ok THEN AttachFails
       ELSE apc' = "Snapshot" /\ UNCHANGED <<vars, cpThread, firstTid, pidSet,
                                            unreported, attachResult,
                                            targetHeld>>

GetFirstThreadIdForProcess(tid) ==
    /\ apc = "Snapshot" /\ tid \in osThreads \cup {NoTid}
    /\ IF tid = NoTid THEN AttachFails
       ELSE /\ apc' = "OpenThread" /\ firstTid' = tid
            /\ UNCHANGED <<vars, cpThread, pidSet, unreported, attachResult,
                           targetHeld>>

OpenThread(ok) ==
    /\ apc = "OpenThread"
    /\ IF ~ok THEN AttachFails
       ELSE apc' = "initialize" /\ UNCHANGED <<vars, cpThread, firstTid,
                                              pidSet, unreported,
                                              attachResult, targetHeld>>

\* Process::wait on the first event after DebugActiveProcess:
\* WaitForDebugEvent returns the queued CREATE_PROCESS event, its handles
\* are closed and wait() returns with the event outstanding.
WaitCreateProcess == pending' = cpThread

\* ProcessBase::initialize: _pid is still kAnyProcessId, so it is set;
\* Process::updateInfo cannot fail on its first call.
SuperInitialize == pidSet' = TRUE

\* initialize(): wait() returns the CREATE_PROCESS event, left outstanding;
\* super::initialize sets _pid; _currentThread = new Thread(firstTid).
\* When WaitForDebugEvent fails, goto init_fail.
Initialize(waitOK) ==
    /\ apc = "initialize"
    /\ IF ~waitOK
         THEN /\ apc' = "init_fail"
              /\ UNCHANGED <<vars, cpThread, firstTid, pidSet, unreported,
                             attachResult, targetHeld>>
         ELSE /\ WaitCreateProcess
              /\ SuperInitialize
              /\ threads' = [t \in Tids |-> IF t = firstTid THEN "kStopped"
                                                            ELSE "absent"]
              /\ current' = firstTid
              /\ attached' = TRUE /\ phase' = "idle"
              /\ apc' = "returned" /\ attachResult' = "process"
              /\ UNCHANGED <<osThreads, osUsed, osAlive, breakReq, breakIns,
                             mem, terminated, bpVars, cpThread, firstTid,
                             unreported, targetHeld>>

\* init_fail: process->detach().  DebugActiveProcessStop(_pid) succeeds
\* only with the target's pid; then the Process is deleted.
InitFailDetach ==
    /\ apc = "init_fail"
    /\ targetHeld' = (targetHeld /\ ~pidSet)
    /\ apc' = "returned" /\ attachResult' = "nullptr"
    /\ UNCHANGED <<vars, cpThread, firstTid, pidSet, unreported>>

\* A queued CREATE_THREAD event of a thread that existed before the attach:
\* Process::wait makes a new Thread (ProcessBase::insert keeps an entry
\* already there) and resumes the process.
ReportExistingThread(t) ==
    /\ phase = "wait" /\ pending = NoTid /\ osAlive
    /\ t \in unreported
    /\ unreported' = unreported \ {t}
    /\ LET th == InsertThread(threads, t)
       IN  /\ threads' = ResumeStopped(th, t)
           /\ pending' = PendingAfterResume(th, t)
    /\ UNCHANGED <<osThreads, osUsed, osAlive, breakReq, breakIns, mem,
                   current, terminated, attached, phase, bpVars,
                   apc, cpThread, firstTid, pidSet, attachResult, targetHeld>>

\* The target's own debug events, which Windows reports only after the
\* queued ones.
TargetEvent ==
    \/ \E t \in Tids, b \in BOOLEAN : OnCreateThread(t, b)
    \/ \E t \in Tids : OnExitThread(t) \/ OnStopEvent(t)
    \/ OnExitProcess

AttachNext ==
    \/ \E ok \in BOOLEAN, p \in Tids : DebugActiveProcess(ok, p)
    \/ \E ok \in BOOLEAN : OpenProcess(ok) \/ OpenThread(ok) \/ Initialize(ok)
    \/ \E tid \in Tids \cup {NoTid} : GetFirstThreadIdForProcess(tid)
    \/ InitFailDetach
    \/ \E t \in Tids : ReportExistingThread(t)
    \/ /\ Next
       /\ ~(unreported # {} /\ TargetEvent)
       /\ UNCHANGED attachVars

AttachSpec == AttachInit /\ [][AttachNext]_<<vars, attachVars>>

\* A failed attach leaves the target as it was: not held under debugging
\* (frozen at its first debug event) by a server that has no Process for it.
AttachFailureReleasesTarget ==
    attachResult = "nullptr" => ~targetHeld
=============================================================================

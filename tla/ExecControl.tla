---------------------------- MODULE ExecControl ----------------------------
(***************************************************************************)
(* What a ds2 process backend promises the debugger session (the contract *)
(* of Target::Process that GDBRemote's session delegate relies on), stated *)
(* without any of the Windows debug API.                                   *)
(*                                                                         *)
(* The debugger sees the target either stopped (it may read the thread    *)
(* list, set and clear breakpoints, resume, detach or kill), running       *)
(* (between a resume and the stop that ends it), exited, detached, or the *)
(* connection closed.  Threads appear and disappear only while the target *)
(* runs; breakpoints are set and cleared only while it is stopped; a stop *)
(* is reported at a thread of the target.                                  *)
(***************************************************************************)
CONSTANTS
    Tids,   \* thread ids
    NoTid,  \* no thread reported
    Addrs   \* breakpoint addresses

VARIABLES
    run,       \* "stopped", "running", "exited", "detached" or "closed"
    live,      \* the target's threads, as the debugger can list them
    reported,  \* the thread the last stop was reported at (NoTid if none)
    bps        \* addresses with a software breakpoint

vars == <<run, live, reported, bps>>

RunStates == {"stopped", "running", "exited", "detached", "closed"}

TypeOK ==
    /\ run \in RunStates
    /\ live \subseteq Tids
    /\ reported \in Tids \cup {NoTid}
    /\ bps \subseteq Addrs

\* The process has been created or attached to and is stopped at one of its
\* threads, with no breakpoint yet.
Init ==
    /\ run = "stopped"
    /\ live \in SUBSET Tids
    /\ reported \in live
    /\ bps = {}

SetBreakpoint(a) ==
    /\ run = "stopped"
    /\ bps' = bps \cup {a}
    /\ UNCHANGED <<run, live, reported>>

ClearBreakpoint(a) ==
    /\ run = "stopped"
    /\ bps' = bps \ {a}
    /\ UNCHANGED <<run, live, reported>>

Resume ==
    /\ run = "stopped"
    /\ run' = "running"
    /\ reported' = NoTid
    /\ UNCHANGED <<live, bps>>

ThreadStarted(t) ==
    /\ run = "running"
    /\ t \notin live
    /\ live' = live \cup {t}
    /\ UNCHANGED <<run, reported, bps>>

ThreadExited(t) ==
    /\ run = "running"
    /\ t \in live
    /\ live' = live \ {t}
    /\ UNCHANGED <<run, reported, bps>>

Stopped(t) ==
    /\ run = "running"
    /\ t \in live
    /\ run' = "stopped"
    /\ reported' = t
    /\ UNCHANGED <<live, bps>>

Exited ==
    /\ run = "running"
    /\ run' = "exited"
    /\ UNCHANGED <<live, reported, bps>>

\* Detaching drops every breakpoint; it either lets the target go, or fails
\* and leaves it stopped.
Detach ==
    /\ run = "stopped"
    /\ bps' = {}
    /\ \/ run' = "detached" /\ live' = {} /\ reported' = NoTid
       \/ UNCHANGED <<run, live, reported>>

\* Killing ends the target whether or not the detach that follows succeeds.
Terminate ==
    /\ run = "stopped"
    /\ run' = "exited"
    /\ reported' = NoTid
    /\ bps' = {}
    /\ live' \in {live, {}}

Close ==
    /\ run \in {"stopped", "exited", "detached"}
    /\ run' = "closed"
    /\ reported' = NoTid
    /\ UNCHANGED <<live, bps>>

Next ==
    \/ \E a \in Addrs : SetBreakpoint(a) \/ ClearBreakpoint(a)
    \/ Resume
    \/ \E t \in Tids : ThreadStarted(t) \/ ThreadExited(t) \/ Stopped(t)
    \/ Exited
    \/ Detach
    \/ Terminate
    \/ Close

Spec == Init /\ [][Next]_vars

\* A stop reply names a thread the debugger can then select and inspect.
StopAtLiveThread ==
    run = "stopped" => reported \in live

=============================================================================

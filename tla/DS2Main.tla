------------------------------- MODULE DS2Main -------------------------------
(***************************************************************************)
(* The entry point, main.cpp (POSIX build): main() selects a run mode from *)
(* the command line, DebugMain / PlatformMain / SlaveMain open the server  *)
(* socket and serve one connection after another (RunDebugServer runs the *)
(* Session receive loop until the client goes away) while --keep-alive    *)
(* holds.  The socket calls, fork and the client are the environment:      *)
(* their outcomes are chosen nondeterministically.  Strings are reduced to *)
(* what the code tells apart: the mode word, and --attach by its atoi.     *)
(***************************************************************************)
EXTENDS Integers

CONSTANTS MaxSessions

ASSUME MaxSessionsAssumption == MaxSessions \in Nat \ {0}

VARIABLES
    pc,          \* where the server process is
    exitCode,    \* its status once it has exited, else NotExited
    exitReason,  \* which exit() ended it
    mode, keepAlive, attachArg, nargs, reverse,  \* main's settings
    impl,        \* the delegate of the live session
    sessions,    \* sessions served so far
    child        \* SlaveMain: the forked child serving the connection

vars == <<pc, exitCode, exitReason, mode, keepAlive, attachArg, nargs,
          reverse, impl, sessions, child>>

NotExited    == -1
EXIT_SUCCESS == 0
EXIT_FAILURE == 1

\* argv[1] words: the ones main() accepts, one it rejects, and a missing one.
ModeWords == {"g", "gdbserver", "p", "platform", "s", "slave", "x", "none"}

\* --attach values, by what atoi() makes of them: absent (-1), a pid, "0",
\* a process name (atoi gives 0) and a negative number.
AttachArgs == {"absent", "pid", "zero", "name", "negative"}
Atoi(a) == CASE a = "absent"   -> -1
             [] a = "pid"      -> 4242
             [] a \in {"zero", "name"} -> 0
             [] a = "negative" -> -7

\* exit(code) from wherever the server process is.
Exit(code, why) ==
    /\ pc' = "exited" /\ exitCode' = code /\ exitReason' = why
    /\ UNCHANGED <<mode, keepAlive, attachArg, nargs, reverse, impl, sessions,
                   child>>

\* argv[1] to the RunMode: a missing or unknown word is a usage error.
RunModeOf(word) ==
    CASE word \in {"g", "gdbserver"} -> "normal"
      [] word \in {"p", "platform"}  -> "platform"
      [] word \in {"s", "slave"}     -> "slave"
      [] OTHER                       -> "bad"

Init ==
    /\ pc = "main" /\ exitCode = NotExited /\ exitReason = "none"
    /\ mode = "none" /\ keepAlive = FALSE /\ attachArg = "absent" /\ nargs = 0
    /\ reverse = FALSE /\ impl = "none" /\ sessions = 0 /\ child = "none"

\* Mutant: platform mode is not forced to keep the server alive.
MainNoPlatformKeepAlive(word, ka, att, compat, n, rev, listProcs, badEnv) ==
    /\ pc = "main"
    /\ LET m == RunModeOf(word)
       IN
       IF m = "bad" THEN Exit(EXIT_FAILURE, "usage")
       ELSE IF listProcs THEN Exit(EXIT_SUCCESS, "listed")
       ELSE IF m = "normal" /\ n = 0 /\ Atoi(att) < 0 /\ compat
         THEN Exit(EXIT_FAILURE, "usage")
       ELSE IF m = "normal" /\ badEnv THEN Exit(EXIT_FAILURE, "fatal")
       ELSE /\ mode' = m
            /\ keepAlive' = ka
            /\ attachArg' = att
            /\ nargs' = n
            /\ reverse' = rev
            /\ pc' = CASE m = "normal" -> "DebugMain"
                       [] m = "platform" -> "PlatformMain"
                       [] m = "slave" -> "SlaveMain"
            /\ UNCHANGED <<exitCode, exitReason, impl, sessions, child>>

\* main(): parse argv, then run the mode's entry point.  usageDie and a
\* DS2LOG(Fatal) on a bad --set-env end the process with a failure.
Main(word, ka, att, compat, n, rev, listProcs, badEnv) ==
    /\ pc = "main"
    /\ LET m == RunModeOf(word)
       IN
       IF m = "bad" THEN Exit(EXIT_FAILURE, "usage")
       ELSE IF listProcs THEN Exit(EXIT_SUCCESS, "listed")
       ELSE IF m = "normal" /\ n = 0 /\ Atoi(att) < 0 /\ compat
         THEN Exit(EXIT_FAILURE, "usage")
       ELSE IF m = "normal" /\ badEnv THEN Exit(EXIT_FAILURE, "fatal")
       ELSE /\ mode' = m
            /\ keepAlive' = (ka \/ m = "platform")
            /\ attachArg' = att
            /\ nargs' = n
            /\ reverse' = rev
            /\ pc' = CASE m = "normal" -> "DebugMain"
                       [] m = "platform" -> "PlatformMain"
                       [] m = "slave" -> "SlaveMain"
            /\ UNCHANGED <<exitCode, exitReason, impl, sessions, child>>

\* DebugMain / PlatformMain: create the socket and, unless reverse, listen;
\* either failure exits with EXIT_FAILURE.
OpenServer(createOK, listenOK) ==
    /\ pc \in {"DebugMain", "PlatformMain"}
    /\ IF ~createOK \/ (~reverse /\ ~listenOK)
         THEN Exit(EXIT_FAILURE, "socket")
         ELSE /\ pc' = "loop"
              /\ UNCHANGED <<exitCode, exitReason, mode, keepAlive, attachArg,
                             nargs, reverse, impl, sessions, child>>

\* The reverse connect at the top of each loop turn (and of RunDebugServer):
\* a failure exits with EXIT_FAILURE, else the session serves.
Connect(connectOK) ==
    IF reverse /\ ~connectOK
      THEN /\ pc' = "exited" /\ exitCode' = EXIT_FAILURE
           /\ exitReason' = "connect"
      ELSE pc' = "serving" /\ UNCHANGED <<exitCode, exitReason>>

\* One turn of PlatformMain's do-while loop: a new Session on the
\* PlatformSessionImpl made once before the loop.
PlatformSession(connectOK) ==
    /\ pc = "loop" /\ mode = "platform" /\ sessions < MaxSessions
    /\ impl' = "platform"
    /\ Connect(connectOK)
    /\ UNCHANGED <<mode, keepAlive, attachArg, nargs, reverse, sessions,
                   child>>

\* One turn of DebugMain's do-while loop: a new DebugSessionImpl (attach
\* when attachPid > 0, launch when there are args, else empty), then
\* RunDebugServer.
DebugSession(connectOK) ==
    /\ pc = "loop" /\ mode = "normal" /\ sessions < MaxSessions
    /\ impl' = CASE Atoi(attachArg) > 0 -> "attach"
                 [] nargs > 0           -> "launch"
                 [] OTHER               -> "empty"
    /\ Connect(connectOK)
    /\ UNCHANGED <<mode, keepAlive, attachArg, nargs, reverse, sessions,
                   child>>

\* session.receive() returns false: the client closed the connection.  The
\* delegate is deleted and the loop goes round while keepAlive; otherwise
\* PlatformMain exits with EXIT_SUCCESS, and DebugMain returns to main(),
\* which ends with exit(EXIT_FAILURE).
Disconnect ==
    /\ pc = "serving"
    /\ sessions' = sessions + 1
    /\ impl' = IF mode = "platform" THEN impl ELSE "none"
    /\ IF keepAlive
         THEN pc' = "loop" /\ UNCHANGED <<exitCode, exitReason>>
         ELSE /\ pc' = "exited"
              /\ exitReason' = "sessionEnded"
              /\ exitCode' = IF mode = "platform" THEN EXIT_SUCCESS
                                                  ELSE EXIT_FAILURE
    /\ UNCHANGED <<mode, keepAlive, attachArg, nargs, reverse, child>>

\* SlaveMain: create, listen on port 0 unless reverse, fork.  The parent
\* prints the port and exits with EXIT_SUCCESS; the child serves one
\* connection with a SlaveSessionImpl.
SlaveMain(createOK, listenOK, forkOK) ==
    /\ pc = "SlaveMain"
    /\ IF ~createOK \/ (~reverse /\ ~listenOK) \/ ~forkOK
         THEN Exit(EXIT_FAILURE, "socket")
         ELSE /\ pc' = "exited" /\ exitCode' = EXIT_SUCCESS
              /\ exitReason' = "forked"
              /\ child' = "serving"
              /\ impl' = "slave"
              /\ UNCHANGED <<mode, keepAlive, attachArg, nargs, reverse,
                             sessions>>

\* The slave child's RunDebugServer returns (or its reverse connect fails)
\* and it exits.
SlaveChildEnds ==
    /\ child = "serving"
    /\ child' = "exited"
    /\ UNCHANGED <<pc, exitCode, exitReason, mode, keepAlive, attachArg,
                   nargs, reverse, impl, sessions>>

Next ==
    \/ \E word \in ModeWords, att \in AttachArgs, n \in 0..1,
          ka, compat, rev, lp, bad \in BOOLEAN :
           Main(word, ka, att, compat, n, rev, lp, bad)
    \/ \E c, l \in BOOLEAN : OpenServer(c, l)
    \/ \E c \in BOOLEAN : PlatformSession(c) \/ DebugSession(c)
    \/ Disconnect
    \/ \E c, l, f \in BOOLEAN : SlaveMain(c, l, f)
    \/ SlaveChildEnds

Spec == Init /\ [][Next]_vars

\* Spec 6 and --keep-alive: the platform server stays up for the next
\* client however many connections end; main() forces gKeepAlive in
\* platform mode before PlatformMain's loop reads it.
PlatformKeepsServing == mode = "platform" => exitReason # "sessionEnded"

\* Spec 6: the process exits with status 0 on a graceful shutdown, here the
\* end of the last session (the client closed the connection).
GracefulExitIsSuccess ==
    exitReason = "sessionEnded" => exitCode = EXIT_SUCCESS

\* The --attach option, "attach to the name or PID specified": a session
\* started with --attach attaches to a process.
AttachHonoured ==
    mode = "normal" /\ impl \notin {"none"} /\ attachArg # "absent" =>
        impl = "attach"
=============================================================================

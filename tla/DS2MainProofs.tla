---------------------------- MODULE DS2MainProofs ----------------------------
(***************************************************************************)
(* Proof about the server process of DS2Main for every bound on the      *)
(* number of connections: the platform server is never ended by a        *)
(* session.                                                               *)
(***************************************************************************)
EXTENDS DS2Main, TLAPS

(***************************************************************************)
(* PlatformKeepsServing is not inductive as it stands.  It needs to know *)
(* that platform mode holds keepAlive, which Disconnect reads; and that   *)
(* main() runs with no exit recorded, since it sets the mode and leaves   *)
(* exitReason alone.                                                      *)
(***************************************************************************)
ServerInv ==
    /\ keepAlive \in BOOLEAN
    /\ pc = "main" => exitReason = "none"
    /\ mode = "platform" => keepAlive = TRUE /\ exitReason # "sessionEnded"

\* exit() never records a session end: its reasons are the startup and
\* socket failures, --list-processes, and the slave parent's fork.
LEMMA ExitReason ==
    ASSUME NEW code, NEW why \in {"usage", "listed", "fatal", "socket"},
           Exit(code, why)
    PROVE  exitReason' # "sessionEnded" /\ pc' = "exited"
           /\ UNCHANGED <<mode, keepAlive>>
BY DEF Exit

LEMMA SvInit == Init => ServerInv
BY DEF Init, ServerInv

LEMMA SvStep == ServerInv /\ [Next]_vars => ServerInv'
<1> SUFFICES ASSUME ServerInv, [Next]_vars PROVE ServerInv'
  OBVIOUS
<1> USE DEF ServerInv
<1>1. CASE \E word \in ModeWords, att \in AttachArgs, n \in 0..1,
                ka, compat, rev, lp, bad \in BOOLEAN :
             Main(word, ka, att, compat, n, rev, lp, bad)
  <2>0. PICK word \in ModeWords, att \in AttachArgs, n \in 0..1,
             ka, compat, rev, lp, bad \in BOOLEAN :
             Main(word, ka, att, compat, n, rev, lp, bad)
    BY <1>1
  <2> DEFINE m == RunModeOf(word)
  <2>1. CASE m = "bad" \/ lp \/ (m = "normal" /\ n = 0 /\ Atoi(att) < 0
                                 /\ compat) \/ (m = "normal" /\ bad)
    BY <2>0, <2>1, ExitReason DEF Main
  <2>2. CASE ~(m = "bad" \/ lp \/ (m = "normal" /\ n = 0 /\ Atoi(att) < 0
                                   /\ compat) \/ (m = "normal" /\ bad))
    <3>1. m \in {"normal", "platform", "slave"}
      BY <2>2 DEF RunModeOf
    <3>2. /\ mode' = m /\ keepAlive' = (ka \/ m = "platform")
          /\ pc' = CASE m = "normal" -> "DebugMain"
                     [] m = "platform" -> "PlatformMain"
                     [] m = "slave" -> "SlaveMain"
          /\ UNCHANGED exitReason
      BY <2>0, <2>2 DEF Main
    <3>3. pc' \in {"DebugMain", "PlatformMain", "SlaveMain"}
      BY <3>1, <3>2
    <3>4. QED
      BY <2>0, <3>2, <3>3 DEF Main
  <2>3. QED
    BY <2>1, <2>2
<1>2. ASSUME NEW c \in BOOLEAN, NEW l \in BOOLEAN, OpenServer(c, l)
      PROVE  ServerInv'
  BY <1>2, ExitReason DEF OpenServer
<1>3. ASSUME NEW c \in BOOLEAN, PlatformSession(c) \/ DebugSession(c)
      PROVE  ServerInv'
  BY <1>3 DEF PlatformSession, DebugSession, Connect
<1>4. CASE Disconnect
  <2>1. CASE keepAlive
    BY <1>4, <2>1 DEF Disconnect
  <2>2. CASE ~keepAlive
    BY <1>4, <2>2 DEF Disconnect
  <2>3. QED
    BY <2>1, <2>2
<1>5. ASSUME NEW c \in BOOLEAN, NEW l \in BOOLEAN, NEW f \in BOOLEAN,
             SlaveMain(c, l, f)
      PROVE  ServerInv'
  BY <1>5, ExitReason DEF SlaveMain
<1>6. CASE SlaveChildEnds \/ UNCHANGED vars
  BY <1>6 DEF SlaveChildEnds, vars
<1>7. CASE \E c, l \in BOOLEAN : OpenServer(c, l)
  BY <1>2, <1>7
<1>8. CASE \E c \in BOOLEAN : PlatformSession(c) \/ DebugSession(c)
  BY <1>3, <1>8
<1>9. CASE \E c, l, f \in BOOLEAN : SlaveMain(c, l, f)
  BY <1>5, <1>9
<1>10. QED
  BY <1>1, <1>4, <1>6, <1>7, <1>8, <1>9 DEF Next

\* Spec 6 and --keep-alive: in platform mode no connection's end ever
\* ends the server (main() forces gKeepAlive before PlatformMain's loop),
\* whatever the command line, socket, connect and client outcomes.
THEOREM PlatformServes == Spec => []PlatformKeepsServing
<1>1. ServerInv => PlatformKeepsServing
  BY DEF ServerInv, PlatformKeepsServing
<1>2. QED
  BY <1>1, SvInit, SvStep, PTL DEF Spec

=============================================================================

------------------------- MODULE BreakpointContract -------------------------
(***************************************************************************)
(* What the software breakpoint manager promises the process that owns it *)
(* (the contract of BreakpointManager in spec sections 3, 4.1 and 8),      *)
(* stated without saved bytes or a record of what is patched.              *)
(*                                                                         *)
(* The manager holds a reference count per address and a global enabled   *)
(* flag.  The code the target would execute at an address is the trap     *)
(* opcode exactly when the manager is enabled and the address has a site; *)
(* everywhere else it is the code the debugger found ("orig").  Hence a    *)
(* disable() after an enable() gives back the original code byte for      *)
(* byte, a remove() restores only when the last reference goes, and       *)
(* clear() leaves the code as it was found.                                *)
(***************************************************************************)
EXTENDS Naturals

CONSTANTS
    Addrs   \* addresses the debugger may set software breakpoints at

VARIABLES
    refs,     \* the reference count of each address (0 = no site)
    enabled,  \* breakpoints globally enabled
    code      \* what the target's memory holds at each address

vars == <<refs, enabled, code>>

\* The memory the manager is to leave: traps at the sites while enabled.
CodeOf(r, e) == [a \in Addrs |-> IF e /\ r[a] > 0 THEN "trap" ELSE "orig"]

Init ==
    /\ refs = [a \in Addrs |-> 0]
    /\ enabled = FALSE
    /\ code = CodeOf(refs, enabled)

\* add(): one more reference; a new site is patched at once if enabled.
Add(a) ==
    /\ refs' = [refs EXCEPT ![a] = @ + 1]
    /\ code' = CodeOf(refs', enabled)
    /\ UNCHANGED enabled

\* remove(): one reference less; the last one restores the original code.
Remove(a) ==
    /\ refs[a] > 0
    /\ refs' = [refs EXCEPT ![a] = @ - 1]
    /\ code' = CodeOf(refs', enabled)
    /\ UNCHANGED enabled

\* enable() / disable(): patch every site, or restore every site.
SetEnabled(e) ==
    /\ enabled' = e
    /\ code' = CodeOf(refs, e)
    /\ UNCHANGED refs

\* clear(): erase every site, leaving the original code everywhere.
Clear ==
    /\ refs' = [a \in Addrs |-> 0]
    /\ code' = CodeOf(refs', enabled)
    /\ UNCHANGED enabled

Next ==
    \/ \E a \in Addrs : Add(a) \/ Remove(a)
    \/ \E e \in BOOLEAN : SetEnabled(e)
    \/ Clear

Spec == Init /\ [][Next]_vars

=============================================================================

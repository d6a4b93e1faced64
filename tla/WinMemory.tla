------------------------------ MODULE WinMemory ------------------------------
(***************************************************************************)
(* Memory access of the Windows backend: ProcessBase::readMemoryBuffer and *)
(* writeMemoryBuffer (Target/ProcessBase.cpp) over Process::readMemory and *)
(* writeMemory, Process::allocateMemory and deallocateMemory, and          *)
(* Process::enumerateSharedLibraries, which reads the target's module list *)
(* (Target/Windows/Process.cpp).                                           *)
(* A behaviour is a series of calls on a region of MaxLen bytes.            *)
(* ReadProcessMemory / WriteProcessMemory copy a prefix of the request:    *)
(* all of it (TRUE), a part (FALSE, GetLastError() = ERROR_PARTIAL_COPY),  *)
(* or nothing (FALSE with another error).  A byte of the region is named   *)
(* by its offset when read, and is "orig" or "new" when written.           *)
(* A module's path is a string over PathChars, where "U" stands for an     *)
(* upper-case letter, "l" for any other letter or character, and ":" and   *)
(* "\\" for themselves: the only distinctions the code makes.              *)
(***************************************************************************)
EXTENDS Naturals, Sequences

CONSTANTS
    MaxLen,      \* longest memory request (model bound)
    MaxPath,     \* MAX_PATH: the WCHARs of nameStr
    PathChars,   \* the characters of module paths
    MaxModules   \* most modules a target has loaded (model bound)

ASSUME MaxLenAssumption == MaxLen \in Nat \ {0}

ASSUME LibsAssumption ==
    /\ MaxPath \in Nat \ {0}
    /\ MaxModules \in Nat \ {0}

VARIABLES
    call,     \* the call made: "none" yet, "read", "write" or "alloc"
    request,  \* its length, or the rights asked of allocateMemory
    status,  \* the ErrorCode the call returned, "none" while it has not
    region,  \* the target's bytes at the address
    buffer,  \* readMemoryBuffer's std::string
    nio,     \* *nread / *nwritten as the OS set it
    granted, \* the rights of the page allocateMemory committed
    libs,    \* the SharedLibraryInfos enumerateSharedLibraries passed to cb
    overflow \* GetModuleFileNameExW wrote past the end of nameStr

vars == <<call, request, status, region, buffer, nio, granted, libs, overflow>>

\* What the OS call reports when it copied k bytes of a request of len.
LastErrors == {"none", "ERROR_PARTIAL_COPY", "other"}
OSOutcome(k, len, err) ==
    \/ k = len /\ err = "none"
    \/ k < len /\ err = "ERROR_PARTIAL_COPY"
    \/ k = 0 /\ err = "other"

\* Process::readMemory and writeMemory: every error but ERROR_PARTIAL_COPY
\* is translated, otherwise kSuccess.
MemoryStatus(err) == IF err = "other" THEN "error" ELSE "kSuccess"

Rights == {"r", "w", "x"}

\* Mutant: kProtectionRead is tested before kProtectionWrite.
AllocProtectionReadFirst(p) ==
    IF "x" \in p
      THEN IF "r" \in p THEN {"x", "r"}
           ELSE IF "w" \in p THEN {"x", "r", "w"}
           ELSE {"x"}
      ELSE IF "r" \in p THEN {"r"}
           ELSE IF "w" \in p THEN {"r", "w"}
           ELSE {}

\* The page rights of the PAGE_* constant allocateMemory picks.
AllocProtection(p) ==
    IF "x" \in p
      THEN IF "w" \in p THEN {"x", "r", "w"}      \* PAGE_EXECUTE_READWRITE
           ELSE IF "r" \in p THEN {"x", "r"}      \* PAGE_EXECUTE_READ
           ELSE {"x"}                             \* PAGE_EXECUTE
      ELSE IF "w" \in p THEN {"r", "w"}           \* PAGE_READWRITE
           ELSE IF "r" \in p THEN {"r"}           \* PAGE_READONLY
           ELSE {}                                \* PAGE_NOACCESS

Init ==
    /\ call = "none"
    /\ request = 0
    /\ status = "none"
    /\ region = [i \in 1..MaxLen |-> "orig"]
    /\ buffer = <<>>
    /\ nio = 0
    /\ granted = {}
    /\ libs = <<>>
    /\ overflow = FALSE

\* readMemoryBuffer: an invalid address is refused; the buffer is resized
\* to length, filled by readMemory, cleared on error, else resized to nread.
ReadMemoryBuffer(valid, len, k, err) ==
    /\ OSOutcome(k, len, err)
    /\ IF ~valid
         THEN status' = "kErrorInvalidArgument" /\ UNCHANGED <<buffer, nio>>
         ELSE /\ status' = MemoryStatus(err)
              /\ nio' = k
              /\ buffer' = IF err = "other" THEN <<>>
                           ELSE [i \in 1..k |-> i]
    /\ call' = "read" /\ request' = len
    /\ UNCHANGED <<region, granted, libs, overflow>>

\* writeMemoryBuffer (either overload; the one with a length writes at most
\* the buffer's length): an invalid address is refused, else writeMemory.
WriteMemoryBuffer(valid, len, k, err) ==
    /\ OSOutcome(k, len, err)
    /\ IF ~valid
         THEN status' = "kErrorInvalidArgument" /\ UNCHANGED <<region, nio>>
         ELSE /\ status' = MemoryStatus(err)
              /\ nio' = k
              /\ region' = [i \in 1..MaxLen |-> IF i <= k THEN "new"
                                                         ELSE region[i]]
    /\ call' = "write" /\ request' = len
    /\ UNCHANGED <<buffer, granted, libs, overflow>>

\* allocateMemory: pick the page protection, VirtualAllocEx.
AllocateMemory(p, ok) ==
    /\ status' = IF ok THEN "kSuccess" ELSE "error"
    /\ granted' = IF ok THEN AllocProtection(p) ELSE {}
    /\ call' = "alloc" /\ request' = p
    /\ UNCHANGED <<region, buffer, nio, libs, overflow>>

\* deallocateMemory: VirtualFreeEx(MEM_RELEASE) of the page.
DeallocateMemory(ok) ==
    /\ status' = IF ok THEN "kSuccess" ELSE "error"
    /\ granted' = IF ok THEN {} ELSE granted
    /\ call' = "dealloc" /\ request' = 0
    /\ UNCHANGED <<region, buffer, nio, libs, overflow>>

-----------------------------------------------------------------------------
(* enumerateSharedLibraries.                                                *)

\* Module paths the target may have loaded: up to one character longer
\* than MAX_PATH (model bound), as Windows allows long paths.
Paths == UNION {[1..n -> PathChars] : n \in 1..(MaxPath + 1)}

\* Lists of loaded modules, the main executable first.
ModuleLists == UNION {[1..n -> Paths] : n \in 1..MaxModules}

\* EnumProcessModules into an empty vector gives bytesNeeded, the vector is
\* resized to it, and the second call fills it with the module handles.
ModulesListed(mods) == mods

\* nSize passed to GetModuleFileNameExW: sizeof(nameStr), in bytes, where
\* the function expects characters.
NameSize == 2 * MaxPath

\* GetModuleFileNameExW copies the name, truncated to nSize - 1 characters,
\* and a terminating null; it returns the characters copied.
NameCopied(p) == IF Len(p) < NameSize THEN Len(p) ELSE NameSize - 1

\* The characters GetModuleFileNameExW writes into nameStr.
NameWritten(p) == NameCopied(p) + 1

\* The two transforms: a leading "X:" with X in 'A'..'Z' is erased, then
\* every '\\' becomes '/'.
ToUnixPath(p) ==
    LET q == IF Len(p) >= 2 /\ p[1] = "U" /\ p[2] = ":"
               THEN SubSeq(p, 3, Len(p)) ELSE p
    IN  [i \in 1..Len(q) |-> IF q[i] = "\\" THEN "/" ELSE q[i]]

\* The SharedLibraryInfo built for the k-th module handle.
LibraryInfo(mods, k) ==
    [path |-> ToUnixPath(SubSeq(mods[k], 1, NameCopied(mods[k]))),
     main |-> k = 1]

\* enumerateSharedLibraries on a target with modules mods.  fail says which
\* call fails: 0 none, 1 or 2 an EnumProcessModules, 2 + k the
\* GetModuleFileNameExW of the k-th module; the libraries before it have
\* already been passed to cb when the error is returned.
EnumerateSharedLibraries(mods, fail) ==
    LET listed == ModulesListed(mods)
        done   == IF fail = 0 THEN Len(listed)
                  ELSE IF fail <= 2 THEN 0 ELSE fail - 3
    IN  /\ fail \in 0..(Len(listed) + 2)
        /\ libs' = [k \in 1..done |-> LibraryInfo(listed, k)]
        /\ overflow' = \E k \in 1..done : NameWritten(listed[k]) > MaxPath
        /\ status' = IF fail = 0 THEN "kSuccess" ELSE "error"
        /\ call' = "libs" /\ request' = Len(mods)
        /\ UNCHANGED <<region, buffer, nio, granted>>

Next ==
    \/ \E v \in BOOLEAN, len \in 1..MaxLen, k \in 0..MaxLen, e \in LastErrors :
         \/ ReadMemoryBuffer(v, len, k, e)
         \/ WriteMemoryBuffer(v, len, k, e)
    \/ \E p \in SUBSET Rights, ok \in BOOLEAN : AllocateMemory(p, ok)
    \/ \E ok \in BOOLEAN : DeallocateMemory(ok)
    \/ \E mods \in ModuleLists, fail \in 0..(MaxModules + 2) :
         EnumerateSharedLibraries(mods, fail)

Spec == Init /\ [][Next]_vars

\* Memory that allocateMemory commits grants every right asked for, and at
\* most read besides (Windows has no write-only or write-execute page).
AllocationGrantsRequested ==
    call = "alloc" /\ status = "kSuccess" =>
        /\ request \subseteq granted
        /\ granted \ request \subseteq {"r"}

\* Spec 4.1 (failure semantics): a partial write is a failure, and a
\* breakpoint is never left half-written: when writeMemory reports success
\* for a write of len bytes, all of them are in memory.
WriteAllOrNothing ==
    call = "write" /\ status = "kSuccess" =>
        \A i \in 1..request : region[i] = "new"
\* GetModuleFileNameExW never writes past the end of nameStr, whatever the
\* length of a module's path.
NameFitsBuffer ==
    ~overflow
=============================================================================

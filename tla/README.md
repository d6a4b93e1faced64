# TLA+ models of ds2's Windows backend, entry point and utilities

ds2 is a remote-debugging stub. A debugger talks to it over the GDB remote
protocol. ds2 drives the target process through a per-OS process-control backend
and patches trap opcodes into the target's memory for software breakpoints. This
directory holds the TLA+ models of the parts of that system that are in this
repository's `src/`:

| Part | Source | Module |
|---|---|---|
| Windows process control: the debug-event loop `wait()`, `resume`, `interrupt`, `detach`, `terminate`, `Create` | `Target/Windows/Process.cpp` | `WinDebugProcess` |
| Windows threads (`Thread::resume`, `Thread::updateState`) | `Target/Windows/Thread.cpp` | `WinDebugProcess` |
| The thread table and the resume/detach hooks (`insert`, `removeThread`, `cleanup`, `beforeResume`, `afterResume`, `prepareForDetach`) | `Target/ProcessBase.cpp` | `WinDebugProcess` |
| The software breakpoint manager, at the interface ProcessBase uses | header only; the behaviour is taken from spec section 4.1 | `WinDebugProcess` (marked `spec_modelled`) |
| `Process::Attach`, `GetFirstThreadIdForProcess`, `initialize` | `Target/Windows/Process.cpp` | `WinAttach` |
| `readMemory` / `writeMemory`, the buffer wrappers, `allocateMemory`, `deallocateMemory`, `enumerateSharedLibraries` | `Process.cpp`, `ProcessBase.cpp` | `WinMemory` |
| What the backend promises the session: run states, threads, breakpoints, stop replies | spec sections 4.2, 5 and 6 (the session engine is not in `src/`) | `ExecControl` (abstract), refined by `WinDebugProcess` |
| What the breakpoint manager promises its process: traps at the sites while enabled, the original code elsewhere | spec sections 3, 4.1 and 8 | `BreakpointContract` (abstract), refined by `WinDebugProcess` |
| `main`, `DebugMain`, `PlatformMain`, `SlaveMain`, `RunDebugServer` | `Sources/main.cpp` | `DS2Main` |
| `FFS` / `PopCount` and their multi-chunk templates | `Utils/Bits.h` | `Bits` |
| `StringToHex` / `HexToString` | `Utils/HexValues.h` | `HexValues` |

`MC_Utils` composes `Bits` and `HexValues` so that one run checks both.

`PROJECT.json` lists every component, including the ones left out. Its `map`
gives, for each definition, the source lines it translates.

## How the parts interact

`main` parses the command line and picks a run mode:

- gdbserver mode runs `DebugMain`.
- platform mode runs `PlatformMain`.
- slave mode runs `SlaveMain`, which forks.

Each of these opens a socket and serves one connection after another. The loop
goes round while `gKeepAlive` holds. Platform mode forces `gKeepAlive` on.

For each connection, `RunDebugServer` starts a session thread that reads
packets. The main context runs `session.receive()`, which calls the delegate,
and the delegate calls the process backend.

The Windows backend has two sides:

- The target, as the debug API shows it: its live threads, the one debug event
  that has been reported and not continued, the `DebugBreakProcess` requests,
  and the bytes at the breakpoint addresses.
- ds2's own bookkeeping: `_threads` with each thread's `_state`,
  `_currentThread`, `_terminated`, and the breakpoint manager's sites.

A resume goes through four steps:

1. `beforeResume` enables the breakpoints (patches the traps).
2. `Process::resume` calls `ContinueDebugEvent` for every thread it believes
   `kStopped`. Windows accepts the call only for the thread of the outstanding
   event.
3. `wait()` loops on `WaitForDebugEvent(INFINITE)`:
   - thread creation inserts a `kStopped` Thread and resumes again;
   - thread exit continues the event and removes the Thread;
   - an exception, DLL or debug-string event stops the thread and returns;
   - process exit sets `_terminated`.
4. `afterResume` disables the breakpoints on a live process.

The session thread can call `interrupt()` at any time. That makes Windows create
a break-in thread, whose breakpoint exception ends the wait.

## The modules

### `WinDebugProcess` (core)

**Constants:** `Tids` (thread ids), `MainTid`, `NoTid`, `Addrs` (breakpoint
addresses) and `MaxRef` (a bound on a site's reference count).

**Variables:**

- `osVars` is what the OS shows: `osThreads`, `osUsed` (ids are never reused),
  `osAlive`, `pending` (the thread of the outstanding debug event), `breakReq`,
  `breakIns` and `mem`.
- `ds2Vars` is ds2's state: `threads` (`_threads` and each `_state`, where
  "absent" means not in the table), `current`, `terminated`, `attached`, and
  `phase`. `phase` says where the main context is: idle, or inside onResume
  (resume, wait, after), or closed.
- `bpVars` is the manager's state: `refs`, `patched`, `saved`, `bpEnabled`.

**Actions.** Each code handler is one action:

- `InsertBreakpoint` and `RemoveBreakpoint` are the Z0/z0 requests.
- `BeforeResume` and `Resume`.
- One action per case of `wait()`: `OnCreateThread`, `OnExitThread`,
  `OnStopEvent` and `OnExitProcess`.
- `AfterResume`.
- `Detach` and `Terminate`. Each has a failure disjunct for
  `DebugActiveProcessStop`.
- `Disconnect`, where `receive()` fails.
- `Interrupt`, taken by the session thread from any phase.

Helpers carry the code's functions:

- `ResumeStopped` and `PendingAfterResume` are `Process::resume` over
  `Thread::resume`.
- `InsertThread` is `ProcessBase::insert`, which keeps an existing entry.
- `RemoveThread` and `Cleanup` are `removeThread` and `cleanup`.
- `UpdateState` is `Thread::updateState`.
- `PatchSites`, `RestoreSites`, `EnableAll`, `DisableAll` and `ClearAll` are the
  breakpoint manager.

**Initial state.** `Init` is the state after `Process::Create`. `initialize()`
has consumed the main thread's `CREATE_PROCESS` event, which stays outstanding,
and has made the main thread current.

### `WinAttach`

`WinAttach` extends `WinDebugProcess` with the steps of `Process::Attach`, one
per system call, each with its `goto`:

- `DebugActiveProcess`. Windows queues a `CREATE_PROCESS` event for a thread
  it chooses, a `CREATE_THREAD` event for every other thread, and a break-in.
- `OpenProcess`.
- `GetFirstThreadIdForProcess`, which takes the first thread of the Toolhelp
  snapshot.
- `OpenThread`.
- `Initialize`: `wait()` on the `CREATE_PROCESS` event, then
  `ProcessBase::initialize`.
- `InitFailDetach`.

After `Initialize`, `ReportExistingThread` delivers the queued `CREATE_THREAD`
events before any new event of the target.

### `WinMemory`

`WinMemory` models a series of `readMemoryBuffer`, `writeMemoryBuffer`,
`allocateMemory`, `deallocateMemory` and `enumerateSharedLibraries` calls. The
OS copy may be full, partial (`ERROR_PARTIAL_COPY`) or nothing.
`AllocProtection` is the `PAGE_*` choice of `allocateMemory`.

`EnumerateSharedLibraries` takes the whole function as one step:

- `ModulesListed` is the two `EnumProcessModules` calls with the `resize`
  between them.
- `fail` chooses where the call stops: 0 for success, 1 or 2 for a failed
  `EnumProcessModules`, and 3 + k for `GetModuleFileNameExW` failing after k
  libraries were reported.
- For each module, `NameCopied` is what `GetModuleFileNameExW` copies when it
  is given `sizeof(nameStr)`, which is `2 * MAX_PATH`.
- `ToUnixPath` is the drive strip and the separator swap.
- `overflow` records whether a copy, with its NUL, went past the
  `MAX_PATH` WCHARs of `nameStr`.

A path is a sequence over `PathChars`: `"U"` stands for an upper-case letter,
`"l"` for any other character, and `":"` and `"\\"` for themselves.

### `DS2Main`

`DS2Main` models the server process. The program counter `pc` takes the values
main, DebugMain, PlatformMain, SlaveMain, loop, serving and exited. The model
also holds the exit code and `main`'s settings.

Strings are reduced to what the code tells apart:

- the mode word;
- `--attach`, by what `atoi` makes of it: absent, a pid, "0", a name, or a
  negative number.

Socket, fork and client outcomes are chosen nondeterministically.

### `ExecControl` and the refinement

`ExecControl` is the abstract contract. Its variables are:

- `run`: stopped, running, exited, detached or closed;
- `live`: the threads;
- `reported`: the thread of the last stop;
- `bps`: the breakpoint addresses.

Breakpoints change only while the target is stopped, threads only while it
runs. A stop names a live thread. Detach and kill drop every breakpoint.

`WinDebugProcess` maps onto it in `ExecRun`, `ExecReported` and `Exec`:

- `run` comes from the phase, `terminated` and `attached`: idle is stopped;
  resume, wait and after are running.
- `live` is `Known`, the ids in `_threads`.
- `reported` is the thread of the outstanding event while stopped.
- `bps` is `Sites`, the addresses with a positive reference count.

`beforeResume` is the abstract `Resume`. `afterResume` on a live target is
`Stopped`, at the outstanding event's thread.

### `BreakpointContract` and the manager's refinement

`BreakpointContract` is the breakpoint manager's contract with no saved
bytes and no record of what is patched. Its variables are:

- `refs`: the reference count per address;
- `enabled`: the global enable flag;
- `code`: the target's bytes at each address.

Every action (`Add`, `Remove`, `SetEnabled` for `enable()`/`disable()`,
`Clear`) leaves `code = CodeOf(refs, enabled)`: the trap at an address with a
site while enabled, the original code everywhere else. So a `disable()` after
an `enable()` restores memory byte for byte (spec section 8), a `remove()`
restores only when the last reference goes (section 3), and `clear()` leaves
the code as it was found (section 4.1).

`WinDebugProcess` maps onto it in `Bpm`: `refs` is `refs`, `enabled` is
`bpEnabled`, `code` is `mem`. `patched` and `saved` are hidden.
`InsertBreakpoint` is `Add`, and `RemoveBreakpoint` is `Remove`.
`BeforeResume` is `SetEnabled(TRUE)`. `AfterResume` on a live target is
`SetEnabled(FALSE)`. `Detach` and `Terminate` are `Clear`. Every other step
leaves the manager and the memory alone.

### `Bits` and `HexValues`

These model the pure algorithms, one loop turn per step, checked against
reference definitions:

- In `Bits`, `RefFFS` and `RefPopCount` count bit by bit. `ChunkBits` stands
  for the width of `unsigned int`.
- In `HexValues`, the reference is the identity of the round trip. Both
  signednesses of `char` are checked.

## Runs

| Run (cfg) | Expect | What it shows |
|---|---|---|
| `windows_backend` (`MC_WinDebugProcess.cfg`) | pass | See the property list below. |
| `current_thread` (`MC_WinDebugProcess_current.cfg`) | violation of `CurrentThreadValid` | `EXIT_THREAD` of the current thread: `removeThread` deletes the Thread and `_currentThread` still points at it. |
| `attach_hang` (`MC_WinAttach_hang.cfg`) | violation of `NoWaitOnFrozenTarget` | When the snapshot's first thread is not the `CREATE_PROCESS` thread, the first resume continues nothing and `wait()` blocks forever. |
| `attach_leak` (`MC_WinAttach_leak.cfg`) | violation of `AttachFailureReleasesTarget` | An attach failing after `DebugActiveProcess` returns nullptr with the target still debugged (`init_fail` detaches with an unset `_pid`). |
| `memory` (`MC_WinMemory.cfg`) | pass | `AllocationGrantsRequested`: a successful `allocateMemory` commits every right asked for and nothing but read besides. Every action of the module, reads, writes and the module enumeration included, fires in this run. |
| `memory_partial_write` (`MC_WinMemory_write.cfg`) | violation of `WriteAllOrNothing` | `writeMemory` reports success for a partial copy, against spec section 4.1. |
| `memory_libs_overflow` (`MC_WinMemory_libs.cfg`) | violation of `NameFitsBuffer` | `GetModuleFileNameExW` is given `sizeof(nameStr)`, a byte count, as a size in WCHARs: a path of `MAX_PATH` characters or more is written past `nameStr` (Process.cpp:415). |
| `utils` (`MC_Utils.cfg`) | pass | `FFSCorrect` for one- and two-chunk types, and `HexRoundTrip`, including negative chars. |
| `bits_popcount` (`MC_Bits_popcount.cfg`) | violation of `PopCountCorrect` | `PopCount<T>` counts `number` instead of `uNumber` (Bits.h:85). |
| `server_loop` (`MC_DS2Main.cfg`) | pass | `PlatformKeepsServing`. |
| `server_exit_code` (`MC_DS2Main_exit.cfg`) | violation of `GracefulExitIsSuccess` | gdbserver mode ends with `exit(EXIT_FAILURE)` after a normal disconnect. |
| `attach_option` (`MC_DS2Main_attach.cfg`) | violation of `AttachHonoured` | `--attach <name>` goes through `atoi` and silently does not attach. |

The `windows_backend` run checks these properties, under every interleaving:

- `TypeOK`.
- `ThreadTableMatchesOS`: the table equals the live threads while attached.
- `NoWaitOnFrozenTarget`: `wait()` never blocks with an uncontinued event.
- `NoTrapVisibleWhenStopped`: an idle live target holds no trap bytes.
- `InterruptStopsTarget`: an interrupt during a wait makes the resume return.
- `ImplementsExecControl`: under the mapping, `Spec` implements `ExecControl`'s `Spec`.
- `ContinueOnlyArmed` (an action property): a step that moves a thread
  from `kStopped` to `kRunning` is taken only while every registered
  breakpoint holds its trap opcode, so `enable()` has finished before any
  `ContinueDebugEvent`.
- `ImplementsBreakpointContract`: under the mapping `Bpm`, `Spec` implements
  `BreakpointContract`'s `Spec`. Every resume cycle, detach and kill leaves
  the memory the contract prescribes. This depends on the bytes that
  `enableLocation` saves: bytes saved after the trap is written break it a
  cycle later.

Each property of a passing run has a mutant in `PROJECT.json`: a plausible bug
in the mapped code under which TLC finds the property violated. The mutants are:

- an exited thread kept in the table as `kTerminated`;
- an exit event that keeps the table entry;
- a new thread started `kRunning`;
- an `afterResume` without `disable()`;
- a `beforeResume` that returns `kSuccess` without `enable()`;
- an `enableLocation` that writes the trap before reading the bytes it saves;
- a break-in exception that is continued;
- a `cleanup` that resets `_currentThread` and keeps the thread table;
- a protection test done in the wrong order;
- a single half-shift in `FFS<T>`;
- `/ 16` in place of `>> 4`;
- platform mode without forced keep-alive.

A further `Bits` result: with `Widths = {6}` (three chunks), `FFS<T>` returns
the chunk width, for example `FFS(16) = 2` where 5 is right. This affects a type
of three or more chunks whose low two chunks are zero, such as
`unsigned __int128`. No such type is used: neither template is called
anywhere in `src/`, and both are written for `unsigned int` and 64-bit
types, which the `utils` run covers.

## Bounds and why they are enough

**`windows_backend`:** three thread ids, two addresses, `MaxRef = 2`. This is
enough for:

- a thread created and a break-in thread alongside the main thread;
- the current thread exiting while another lives;
- two sites, one added while disabled;
- a site referenced twice, so removing one reference must not restore it.

Thread ids are never reused, which bounds each run; `Interrupt` and
`OnCreateThread` keep ids in reserve for the break-in threads already requested.
The run reaches 2,438 distinct states.

**`attach_*`:** three threads, so the `CREATE_PROCESS` thread, the snapshot's
first thread and a third thread can all differ.

**`memory`:** requests of up to two bytes (a Thumb trap), which allows a real
partial copy. `MAX_PATH` is 2 and there are up to two modules, so every outcome
of every call in the enumeration happens. The path alphabet is the one
character `"\\"`; a richer alphabet multiplies the states without changing
any control path of the enumeration.

**`memory_libs_overflow`:** the full path alphabet, with paths up to
`MAX_PATH + 1` characters. One module with a path of two characters is enough
to overrun a two-WCHAR buffer.

**`utils`:** 2-bit chunks, with T of one and two chunks, over every value; and
all 256 values of a one-char string under each signedness. The two share no
state, so the run is their product, 173,794 states.

**`server_loop`:** two connections, enough for keep-alive to go round once.

## Fairness

`FairSpec` assumes weak fairness of four things:

- **`Resume` and `AfterResume`.** The main context runs `onResume` to the end
  without waiting on anything but `WaitForDebugEvent`.
- **The creation of a requested break-in thread.**
- **The break-in thread's breakpoint event.**

Windows guarantees the last two for a successful `DebugBreakProcess`. Nothing
else the target does is assumed: it may run forever without an event. So
`InterruptStopsTarget` relies only on the interrupt. The other runs check safety
only.

## What is proved (TLAPS)

### `WinDebugProcessProofs`

The assumption is `ConstantsAssumption`: `MainTid \in Tids`,
`NoTid \notin Tids`, `MaxRef \in Nat \ {0}`. The theorems hold for every value
of the constants.

- **`TypeCorrect`: `Spec => []TypeOK`.** It rests on a type lemma per helper
  (`PatchSitesType`, `RestoreSitesType`, `ResumeType`, `InsertThreadFacts`) and
  on `TypeStep`, which has one step per action.
- **`NoTrapWhenStopped`: `Spec => []NoTrapVisibleWhenStopped`.**
  The inductive invariant `BreakpointInv` strengthens the property in two ways:
  - each address holds the trap exactly when it is patched;
  - an idle live process has no patched site and the manager disabled.

  The second is what makes `NoTrapVisibleWhenStopped` inductive across `Detach`
  and `Terminate`.
- **`NoFrozenWait`: `Spec => []NoWaitOnFrozenTarget`.** The strengthening says
  that the outstanding event belongs to a thread that ds2 holds as `kStopped`,
  so `Resume` is sure to continue it. That needs `KnownUsed`: every id in the
  table, and every live thread, is an id the OS has used. Then the fresh id of
  a `CREATE_THREAD` event has no entry that `ProcessBase::insert` would keep,
  and the new Thread is `kStopped` and continued.
- **`TableMatchesOS`: `Spec => []ThreadTableMatchesOS`.** The strengthening is
  that live threads are used ids. `ResumeKeepsKnown` shows that `resume` never
  adds or removes an entry.

Each strengthened invariant was first checked with TLC as an invariant of the
`windows_backend` instance.

### `WinDebugProcessRefinement`

- **`Refinement`: `Spec => ImplementsExecControl`.** The inductive invariant is
  `RfIInv`, which is the two invariants above plus `PhaseInv`. `PhaseInv` says:
  - inside `onResume`, ds2 is attached;
  - before the stop, the target has not exited;
  - when the debugger can be told of a stop, the outstanding event's thread is
    in the table.

  `MapInit` shows that `Init` maps to `ExecControl`'s `Init`. `MapStep` has one
  step per action and shows which abstract step, or stutter, each one is. For
  example, `OnCreateThread` is `ThreadStarted`, because the fresh id is not
  yet `Known`, and `RemoveBreakpoint` of the last reference is
  `ClearBreakpoint`.
- **`ArmedWhenContinued`: `Spec => ContinueOnlyArmed`.** The inductive
  invariant `ArIInv` is `RfIInv` plus `ArmedInv`. `ArmedInv` says that while
  the target is live and ds2 is between `beforeResume` and the end of
  `wait()` (phase `resume` or `wait`), every registered site is patched.
  `BreakpointInv` then turns "patched" into "memory holds the trap".
  The lemma `ContinueInResume` shows that only a step in one of those two
  phases moves a thread from `kStopped` to `kRunning`. Those steps are
  `Process::resume` and the continue of a `CREATE_THREAD` event in `wait()`.
- **`StopAtKnownThread`: `Spec => [](Exec!StopAtLiveThread)`.** A stop is
  always reported at a thread of `_threads`. This follows from `PhaseInv`.

- **`ManagerRefinement`: `Spec => ImplementsBreakpointContract`.** The
  inductive invariant is `MgIInv`, which is `TypeOK` plus `ManagerInv`.
  `ManagerInv` says three things:
  - the patched sites are all the sites while enabled, and none while disabled;
  - memory holds the trap exactly at the patched sites;
  - the bytes saved for a patched site are the original ones.

  Unlike `BreakpointInv`, `ManagerInv` holds in every state, including after
  the target exits: nothing touches the manager once the target is gone.
  With `ManagerInv` in the state before and after a step, `mem'` is
  `CodeOf(refs', bpEnabled')`. So `BpmStep` only has to match the change to
  `refs` and `bpEnabled` against an abstract action. `ManagerInv` is needed
  because `disable()` writes back `saved[a]`. That write is the original code
  only if `enable()` saved it from a site that was not already patched.

### `WinMemoryProofs`

- **`AllocationSound`** proves `AllocationGrantsRequested`. It uses the lemma
  `AllocProtectionSound`, which has one case per combination of rights.

The property describes only the call just made, so it is inductive as it
stands.

### `DS2MainProofs`

- **`PlatformServes`: `Spec => []PlatformKeepsServing`.**

It rests on the inductive invariant `ServerInv`, since the property is not
inductive alone. `ServerInv` adds the following:

- `keepAlive` is a Boolean.
- While `main()` still runs, no exit reason is recorded.
- In platform mode, `keepAlive` is `TRUE` and the server has not ended
  because a session ended.

The third fact is forced by `main()` setting `gKeepAlive`
before `PlatformMain`, and it makes the `Disconnect` step go back to the loop
instead of ending.

### `UtilsProofs`

- **`HexRoundTripHolds`: `UtilsSpec => []HexRoundTrip`.** This holds for
  every `MaxLen`, so for strings of any length, and for signed and unsigned
  `char`.

The inductive invariant `HexInv` is the loop invariant of the two loops in
`HexValues.h`:

- after `i - 1` chars, `hex` holds exactly two digits per char, the high
  nibble `(n >> 4)` cast to `uint8_t` and then `n & 0xf`;
- `out` holds one decoded char per pair of digits read, and each one equals
  the char it came from;
- `j = 2 * Len(out) + 1`.

The step lemmas `EncodeStep` and `DecodeStep` prove the two loop bodies. They
rest on these lemmas:

- `NibbleRoundTrip`: `HexToNibble(NibbleToHex(v)) = v % 16`.
- `CharRoundTrip`: a char of either signedness survives `>> 4`, the casts
  and the recombination `% 256`. Floor division and the modulus are what make
  a negative char come back unchanged.
- `NibbleIsInt` and `AppendOne`: the shape of the buffers.

The run checks the same property only with `MaxLen = 1`. The proof covers
every length. It avoids induction over data because `HexInv` is a state
predicate about the loop counters, and the temporal induction of `[]`
does the rest.

### Left to TLC

- **Liveness (`InterruptStopsTarget`).** It needs fairness and `ENABLED`, which
  the prover does not handle.
- **`GracefulExitIsSuccess` and `AttachHonoured`.** They are violated, and
  their counterexamples show it.
- **`FFSCorrect` and `PopCountCorrect`.** `FFS<T>` and `PopCount<T>` shift by
  symbolic powers of two. The SMT backend does not reason about `2^k` for a
  symbolic `k`. Also, `FFSCorrect` holds only for types of at most two chunks
  (see the three-chunk result above). It is checked on bounded widths.
- **The violated properties.** They are shown by their counterexamples.

## What is not modelled

- **The GDB remote session engine and the delegates.** Only the
  `SessionDelegate` interface is in `src/`. Their effect on the backend appears
  as the requests of `WinDebugProcess`.
- **The breakpoint manager's implementation.** Only its header is present.
  `hit()`, conditions and breakpoint kinds are left out.
- **`HardwareBreakpointManager.cpp`.** It holds stubs with a syntax error.
- **`ProcessARM.cpp`.** It lazily creates the manager, which the model assumes
  exists.
- **`updateInfo`, `readString`, `ListProcesses`.** They move data or print,
  and hold no state a property is about.
- **The path text of a library.** Only whether the name fits is checked. A
  lower-case drive letter (`c:`) is not stripped by the code, and no property
  checks for it; it is listed as a hazard.
- **The Stringify, String, File and Platform helpers and `ExtraWrappers.h`.**
  Formatting and API declarations.
- **The POSIX and Darwin headers.** Their implementations are not in the
  repository.

## Next steps

- A proof of `FFSCorrect` for one- and two-chunk types, once the power-of-two
  facts it needs are stated as lemmas about the chunk width.
- A run over library paths with a lower-case drive letter.
- A passing `WinAttach` run with the attach fixed to take the
  `CREATE_PROCESS` thread, checking `ThreadTableMatchesOS` once the queued
  events are reported.

# A verification of ros2_zephyr in TLA+

TLA+ modules of the parts of `ros2_zephyr` that are hard to test: the
fixed-rate controller, the tracked allocator, the patched wait set and
condition variable, the start-up of the static control application, the tools
that turn a deployment manifest into an admitted image, the hardware tests with
the programs at both ends, and the preparation of the sources. TLC checks small
instances; TLAPS proves the main properties for every value of the constants.
`PROJECT.json` holds the exact correspondence between definitions and source
lines, the list of runs, the hazards with the properties that cover them, and
the theorems.

    tlc -config MCControlAny.cfg StaticControl     # model-check one run
    tlapm StaticControlProofs.tla                  # check one proof module

## 1. The system

`ros2_zephyr` builds ROS 2 (rcl, rclc, an RMW) into Zephyr firmware for
boards such as the ESP32-S3 and ESP32-C6. Its parts:

| Part | State | Operations | What is hard |
|---|---|---|---|
| Controller (`samples/static_control/src/control.c`) | release timer, three atomics, command and state snapshots, the thread's locals | start, stop, submit, read, the control cycle | timer, control thread and application interleave; stalls and delays skip releases; counters wrap; restarts |
| Static control application (`main.c`) | rcl objects and their flags, semaphores of the network | start-up, clean-up, telemetry loop, reconnect probe | any call can fail; events arrive that nobody waits for |
| Allocator (`platform/allocator.c`) | per-domain metrics, block headers, two heaps | allocate, deallocate, reallocate, zero_allocate, failure injection | concurrent callers; moves between heaps that fail; size overflow |
| Fixed wait set (`patches/rmw-cyclonedds-c-fixed-waitset.patch`) | saved attachments and count; the DDS wait set | `rmw_wait` | DDS calls fail part-way; a reused list goes stale |
| Condition variable (kernel patch, Cyclone patch, CMake decision) | mutex owner and count, where each thread is | wait, signal, timeout, relock | relocking in neither layer, or in both |
| Deployment compiler (`tools/compile_deployment.py`) | manifest, capabilities, generated files and context | validate, compare, generate; generated init and fini | partial initialisation, order of clean-up, half-written outputs |
| Resource tools (`verify_resources.py`, `admit_esp32c6.py`, `esp32c6_resources.py`) | `.config`, linked image, plan, report and admission | plan, verify, admit | boundary arithmetic over many limits; files that outlive what they describe |
| Wi-Fi baseline (`samples/wifi`: firmware, `peer.py`, case runner) | graph phases, message counts, processes | graph acceptance in two directions, exchange | two sides that poll, loss, timeouts, processes that die |
| Static control evidence (`peer.py`, `capture_esp32.py`, two checkers) | states received, serial line, log | check the topics, capture, judge | resets in the middle, lost and joined lines, cumulative counters |
| Source preparation (`setup.sh`, `prepare_sources.sh`, patch scripts) | checked-out revisions, patched files, environment file | import, verify, patch, build | interruption between two patches or two files |
| Qualification samples (`condvar_`, `thread_tls_`, `ddsrt_native_sync`) | test threads and semaphores | test cases | races inside the test itself |

They interact along three lines. On the board, `main` connects the network,
makes the ROS objects, starts the controller and the reconnect probe
(`StaticMain`); executor and middleware sit on the wait set, the condition
variable and the allocator. On the desktop, a peer or a capture meets the board
through discovery, messages or a serial line (`HardwareTests`). Before either,
sources are prepared and patched (`FirmwareSetup`) and a build directory goes
from manifest to admitted image (`BuildPipeline`).

## 2. Modules and their correspondence to the code

### StaticControl and ControlContract

Each control point of `pc` is a place in `control_entry` between two accesses
to something another thread, the timer or the clock can change: `ControlEntry`
and `ControlArm` are the prologue, `ControlLoop` to `ControlPublish` one
iteration, `ControlExit` and `ControlEnd` the way out. `TimerExpire` is the
kernel's timer interrupt and `Tick` the uptime counter. `static_control_start`,
`static_control_stop` (three steps: flag, kick, join), `CommandCallback` with
`static_control_submit`, and `TestDelayNextCycle` belong to the application.
The plant is floating point; the model keeps only whether an effort may be
non-zero. `k_timer_init` on a timer that a late kick left armed is undefined in
Zephyr and therefore a choice in `static_control_start`. The variables
`stall`, `epoch`, `history` and a few record fields marked history only
observe.

`ControlContract` is the abstract specification: the sentences of
`samples/static_control/README.md` on which report may follow which.
`StaticControl` implements it with `run <- epoch`, `status` and `effort` taken
from the published state.

### Allocator

One step per critical section or heap call of the four allocator functions,
with the header, the pool and the metrics they touch. The heaps are external:
a call returns a free block or fails. Sizes are a `size_t`: the product of
`zero_allocate` is checked by the code, but `sizeof(header) + size` and
`live_bytes` wrap (`Wrapped`, `BlockSize`). `MCAllocator` adds the threshold of each
domain and the symmetry of threads and blocks.

### FixedWaitSet

`rmw_wait` validates and compares; `Detach`, `DetachDone`, `Attach`,
`AttachDone` are the iterations and ends of its two loops; `Return` is the end
of `dds_waitset_wait`. Every DDS call can fail; `DetachMayFail` says whether
the detach of an attached entity can.

### CondVar, SourceSetup and FirmwareSetup

`CondVar`: `k_condvar_wait`, `WaitSignalled`, `WaitTimedOut` are the kernel's
function as patched or not, `WaitReturned` and `Relock` the Cyclone workaround,
`RelockDefined` the CMake condition. The CMake condition covers Zephyr 4.4.0 to
4.4.2; that other kernels relock is assumed from it.

`SourceSetup` is `scripts/setup.sh`: `Task` is its order, `import_group` and
`verify_sources` are `prepare_sources.sh` and `verify_sources.py`, `CheckPatch`
the two `git apply --check` of the patch scripts, `WriteFile` one file of
`git apply`. `Interrupt` stands for a signal and for every command that fails
under `set -e`. `Restore` and `Update` are the developer, who discards a
patched tree or gets new pins. No two patches of one tree change the same file.

`FirmwareSetup` composes the two: `Build_esp32` builds from whatever the
workspace holds, after the checks that `build_esp32.sh` makes, and decides
which layers of `CondVar` are repaired.

### StaticMain, Deployment and WifiReconnect

`Deployment` is the generated `ros2z_deployment_init` and
`ros2z_deployment_fini` with their callers in `main`. One step is one call into
rcl or rclc, and each can fail. `Kind` is the list of endpoints. A deployment
without subscriptions has no executor; the module and the proofs cover it, the
run's deployment has subscriptions, as that of the sample has.

`WifiReconnect` is `connect_network`, the probe's thread and the event
handlers, joined by three binary semaphores. Driver, DHCP and access point are
external: requests are refused, fail or succeed, and the access point may be
lost and found again unasked (`CONFIG_ESP32_WIFI_STA_RECONNECT=y`).

`StaticMain` is `main` with both: connection, deployment, control, probe. It
extends `Deployment` and instantiates `WifiReconnect`, whose `pc` is `thread`.

### DeploymentCompiler, ResourceContract, C6Admission, BuildPipeline and LinkerMap

The first three are the Python tools as operators. `validate_deployment` and
`validate_capabilities` yield the first error in the order of the code;
`ContextFields`, `generate_source` and `generate_config` what is generated.
`build_prelink_plan`, the operators of `measure_linked` and `ReportChecks` are
the two halves of `verify_resources.py`; `inventory_error`, `StackRows` and
`Failures` the admission of an ESP32-C6 image. A manifest is a record with the
fields the tools look at, an identifier the sequence of its words, an image its
sections, regions, stacks and symbols. Byte counts are those of the builds.

`BuildPipeline` is one build directory over time. `Compile` and `WriteOutput`
(one file each), `Kconfig`, `MakePlan`, `Link`, `Verify` and `Admit` are the
steps of `build_c6_app.sh` and the CMake files; `Interrupt` ends a build between
any two of them, `Edit` changes the project under it, and what an earlier build
wrote stays on disk. `LinkerMap` adds `parse_linked_stacks`, which reads the
stacks out of the linker's map file line by line.

### HardwareTests and its parts

`HardwareTests` chooses one of five tests (`role`), as the mains of `peer.py`
and of the firmware do, and gives them one next-state relation.

* `GraphInbound`: the board's `run_graph_node` (`Boot`, `DevicePoll`) and the
  desktop's `run_graph_inbound` with its worker processes, which share only
  discovery and time. `PeerStart`, `PeerReceives`, `PeerGivesUp` and
  `PeerWakes` are the peer at its waits and sleeps, `Ends` its `finally`. The
  first two workers are started before the `try`: if the second start fails
  nobody terminates the first, and Python waits for it until the script ends
  the peer (`stuck`). `ScriptStops` and `ScriptExits` are the signal of
  `run_hardware_case.sh`, which skips the `finally`; the workers then end at
  the closed pipe (`WorkerLeaves`). The
  board's cache (`view`) follows the workers' entities (`graph`) one
  announcement at a time and in any order, also between the four queries of
  one poll. After a mismatch the rest of a poll is left out, as are beta's
  visibility reports, which nobody reads.
* `GraphOutbound`: `run_graph_pubsub` on the board, restarted by
  `run_hardware_case.sh`, and `run_graph_outbound`, which polls a cache that
  can still hold the boot before.
* `WifiExchange`: `run_publisher` and `run_subscriber` of both programs, in
  both directions, for volatile and transient-local, best-effort and reliable
  topics, and without match counts (`--skip-match`).
* `ControlPeer`: the three waits of `samples/static_control/peer.py` against a
  board that keeps `ControlContract` (instantiated for its reports).
* `SerialEvidence`: the report loop of `main`, the serial line cut into pieces,
  `capture_esp32.py` with its trimmed buffer and its reconnection, and the
  verdicts of both checkers on the log, including the percentiles that
  `timing_percentile` computes from its histogram in 32 bits. The values of a
  line are kept in one piece; a number that a disconnection tears in two is not
  covered.

In each, `Tick` waits for whatever is immediate, since both sides poll many
times a second; `fault` remembers what went wrong, so that the `Timely`
properties can speak of runs in which nothing did.

## 3. Runs

| Run | Shows | Bounds |
|---|---|---|
| `control_any` | every expiry is counted once, every miss is a fault, faults latch, effort only from a fresh command of this run, a restart never meets the old thread, stop returns, the contract is implemented | any interleaving, two starts, fair; stall 1 and delay 2 against a period of 1, so releases are skipped; counters modulo 2, so they wrap; time ends after two periods, a bound the proofs of its safety properties (section 4) do not have |
| `control_timely` | no fault, STALE means expired, the age of an effort is bounded | one core, stall of half the deadline: the largest for which it holds |
| `control_late_output` | violation, see section 6 | stall 3 against a deadline of 2 |
| `allocator` | ownership, headers and accounting are exact; a block holds its request; exactly one ROS attempt is made to fail | two threads, three blocks, both heaps, `SIZE_MAX` 8 and a request of that size, so that the product, header + size and `live_bytes` all wrap, injection at the second attempt |
| `fixed_waitset` | the wait covers exactly the request; a fixed set costs no call | capacity 2, requests up to 3, with nulls and duplicates |
| `fixed_waitset_detach` | violation, see section 6 | as above, detach can fail |
| `firmware_setup` | a complete setup is complete; an interrupted one is finished by the next; on what is built the mutex is held exactly once after a wait, and a timed wait returns | two threads; a patch of one file, two of two files; one discarded tree between complete setups (with both gone no layer relocks), one new pin; any number of interruptions |
| `static_main` | clean exit, each object finalised once and after its dependents, the loop only when ready; the probe's success is real without an unasked loss; main settles | four endpoints of mixed kinds, every call can fail, one loss |
| `wifi_drop` | violation, see section 6 | one loss |
| `build_pipeline` | files, plan, image, report and admission belong together; generated fields are distinct but for the known clashes; no QoS, graph requirement or budget is weakened; reserves and stacks fit what was linked; a RAM rejection is final; stack rows are exact | eight projects, each rejected at another step or admitted; images exactly at and one byte beyond each limit; one edit, any number of interruptions; map files of up to two sections |
| `hardware_tests` | what a test reports did happen; what happens in time is accepted; a peer that ends by itself leaves no worker; all sides end, and the workers with them | below |
| `control_peer_again` | violation, see section 6 | a board with sequence 1, the peer with 2 |

Times of the controller are in units of the period: what matters is the order
of release, deadline, expiry, stall and delay, and the runs take each order. A
second start is enough because a start resets all but the flag-cleared command
and the armed timer, both of which the second start meets.

Times of the hardware tests are in units of about five seconds (2.7 s in the
outbound test, where a phase is held for 8 s) and keep the
order of the source's constants: lag < hold < loss hold < phase timeout, and
completion < match timeout < peer timeout. With a hold no longer than the lag
the board can miss the first phase. In the outbound test regular discovery takes
one unit, and a hold of two, which a lag of nearly two ticks fills, is too short. There are fewer recovery samples than
scheduled ones, and history depths below, at and above the number of values
written. The board of the control test has no command, another one, or the
peer's own sequence number, and may be reset once. The capture sees two boots,
three reports, another line and a disconnection; its buffer is cut at two
pieces; a 32-bit word is scaled so that the product of samples and percentile
wraps within the run.

Deadlock is not checked where a system may rest: the application after its last
stop, threads that all wait without a timeout, allocator callers whose bounded
calls are used up.

### Fairness

* `control_any`: weak fairness of the clock, the timer interrupt and the
  control thread (the kernel runs a ready thread of the highest priority), and
  of an application call that has begun. Starting, stopping and submitting are
  never forced.
* `firmware_setup`: strong fairness of taking the mutex, since Zephyr hands a
  mutex to its waiters in order; timeouts expire; a thread does not keep the
  mutex for good. Nothing is owed by a setup or by the developer.
* `static_main`: threads run and `k_sem_take` ends at its limit. The driver
  need not answer.
* `hardware_tests`: processes and the board run, discovery and reliable
  delivery go on, and time passes (strongly fair, since a poll in progress
  interrupts it). No board has to be
  started, nor either side of an exchange.

## 4. Proofs

| Theorem | Statement |
|---|---|
| `StaticControlProofs!TypeInvariant` | all variables keep their types, counters their width |
| `StaticControlProofs!EffortSafety` | `EffortHasFreshCommand` |
| `StaticControlProofs!JoinSafety` | `JoinedBeforeReuse` |
| `StaticControlProofs!FaultIsLatched` | `FaultLatched` |
| `StaticControlProofs!Refinement` | the controller implements `ControlContract` |
| `StaticControlProofs!ReleasesCounted` | `ReleaseAccounting`, for counters of any width |
| `StaticControlProofs!MissesFault` | `MissIsFault` |
| `StaticControlProofs!TrueStatus` | `StatusIsTrue`, on one core without test delays, if `2 * MaxStall <= Deadline` |
| `StaticControlProofs!EffortExpires` | `EffortAgeBounded`, under the same conditions |
| `FixedWaitSetProofs!TypeCorrect` | `TypeOK`, whichever DDS calls fail |
| `FixedWaitSetProofs!WaitCoverage` | `WaitCoversRequest`, if detach succeeds on attached entities |
| `FixedWaitSetProofs!NoChurn` | `FixedSetNoChurn`, whichever DDS calls fail |
| `FirmwareSetupProofs!MutexHeld` | `HeldOnce` of `CondVar` alone, for every build with at least one layer repaired |
| `FirmwareSetupProofs!BoardHoldsMutex` | `HeldOnce` of the composition, if at most one tree is discarded between complete setups |
| `FirmwareSetupProofs!CompleteSetup` | `SetupIsComplete`, for all repositories and patches |
| `FirmwareSetupProofs!ResumedSetup` | `SetupResumes` |
| `StaticMainProofs!TypeCorrect` | `TypeOK`, for any endpoints |
| `StaticMainProofs!ExactlyOnce` | `FinalizedExactlyOnce`, for any endpoints and any failing calls |
| `StaticMainProofs!ReadyToSpin` | `SpinIsReady` |
| `StaticMainProofs!DependentsEndFirst` | `DependentsFirst` |
| `StaticMainProofs!ReconnectIsReal` | `ReconnectedIsReal` |
| `AllocatorProofs!TypeCorrect` | `TypeOK`, for any sizes |
| `AllocatorProofs!Ownership` | `HeapIsOwned`, for any number of threads, blocks and sizes |
| `AllocatorProofs!TrueHeaders` | `HeaderIsTrue`, for any sizes: room for header and size unless their sum exceeds `SIZE_MAX` |
| `AllocatorProofs!ExactAccounting` | `LiveBytesExact`, modulo `SIZE_MAX + 1` |
| `AllocatorProofs!OneInjection` | `InjectedOnce` |
| `BuildPipelineProofs!TypeCorrect` | `TypeOK`, for any projects and images |
| `BuildPipelineProofs!OneCompilation` | `ConsistentBuild` |
| `BuildPipelineProofs!AdmissionIsReal` | `AdmittedBuild` |
| `BuildPipelineProofs!NothingWeakened` | `GeneratedAsDescribed`, for every description the compiler accepts; field names are distinct exactly if there is no suffix clash (section 6) |
| `BuildPipelineProofs!RamVerdicts` | `RamVerdictsRight`, for every image layout |
| `BuildPipelineProofs!AdmittedFits` | `AdmittedImageFits`, for every image layout |

All rest on the named assumptions of the modules and on the conditions given
here only. `FiniteFacts` and `BuildToolsProofs` hold lemmas of the others.

*Controller.* The inductive invariant is `TypeOK` with three strengthenings.
`LifeInv` ties `running` and the application's place to the life of the thread;
it is needed because `running` is cleared before the thread ends. `LatchInv`
says that the thread's `faulted` and the published FAULT agree, so a fault
cannot be lost between two cycles. `CommandInv` says that a valid command, in
the snapshot or copied into the thread's locals, is of the current run.
`EffortHasFreshCommand` follows step by step; the refinement maps every step to
a restart, a report or a stutter.

*Releases.* The accounting adds to this that, until a stop is requested, the
timer expires no earlier than the thread has scheduled (`TimerInv`): each
expiry adds a period on both sides, whether it is unread, taken or accounted
for. The release of a cycle is then no earlier than the thread believes
(`ReleaseInv`), so a deadline that was missed from the true release is missed
from the scheduled one. `AccountInv` counts the expiries up to a multiple of
`CounterMod`, which the counters lose when they wrap. `StopInv` says that the
flag is set before the timer is kicked; without it the kick would pass for a
release.

*Schedulability.* The other side is bounded. `Served` says that an
expiry is served before time goes on and that the thread never sleeps in a
cycle; `Parked` that on one core a stop is requested only while the thread
waits. `Prompt` then bounds the time since the last expiry by the stall of
this cycle, or by two stalls where the loop condition lies in between, and the
timer's lag behind the schedule by the stall of the prologue. Two stalls fit
the deadline, so no cycle finds itself late (`Faultless`) and at most one
expiry is unread. `Received` says that a command cannot arrive between the
start of a cycle and the read, which is what fails on more than one core: a
command that is newer than the start of the cycle counts as expired. `Aging`
relates the published cycle to the expiries since.

*Wait set.* `Agreement` states at each point of `rmw_wait` which part of the
saved array DDS observes; `Distinct` that no entity is saved twice, without
which a detach would remove two positions at once. `Saved` is the part that
needs no success of a detach: the array holds what was waited for last.

*Condition variable.* `OwnerInv` says that where the threads are determines who
owns the mutex, with a count of one; `WaitInv` adds that one layer at least is
repaired, which is what divides the relock between the kernel and the
middleware.

*Source setup.* `Done` says that what the tasks before the current one have
achieved still holds, which is what a "Setup complete" rests on; `Whole` that a
patch is there as a whole or not at all, unless it is being written or
`git apply` was interrupted. The bounds on discarded trees and new pins are
constants, so the theorems hold for any number.

*The composition of both.* `FirmwareInv` joins the two invariants by `Layers`:
where `build_esp32.sh` finds an environment file, a setup was complete, so both
layers were repaired, and each discarded tree takes one of them away until the
next complete setup. With `MaxRestores <= 1` one is left, whatever is
interrupted. The hypothesis is needed: with both trees discarded the script
still builds, and no layer relocks.

*Start-up and clean-up of `main`.* The invariant `Orderly` numbers the objects
from the support up to the executor. `Built` says that at each point of
`ros2z_deployment_init` exactly the objects below the current one are made, and
that the executor was given the subscriptions before the current one.
`Cleaned` says that there is a frontier: what was made above it has been
finalised once, what was made up to it not at all. It is needed because the
`*_initialized` flags are never cleared, so they do not tell what is still to
be finalised; the frontier follows from the control point and
`deployment_initialized` (`Frontier`, `Flagged`).

*The reconnect probe.* `Tokens` says that each of the three binary semaphores
has at most one token, given or in an event that its handler has not seen;
`First`, `Off` and `Back` say what a token stands for before the probe asks for
the disconnection, between its two requests, and after the second, as long as
the access point was not lost unasked (`Phases`, `Probed`).

*Allocator.* `Owned` is `HeapIsOwned` block by block, kept by one lemma about a
thread that moves blocks between the callers, its own call and the heap
(`OwnedTransfer`). `Shape` says which blocks a call has in hand at each point,
`Sound` that a block which a call has in hand has a true header, or the bytes
and the heap that its header is going to state; without it nothing would be
known of a block when a call hands it out.

`Books` is the accounting: `live_bytes` of a domain is the sum over the held
blocks and over the calls in progress, as a `size_t`, a reallocation remembering the size that
is still charged until the new one is (`Charge`). Each step changes one summand
of each sum (`BooksGive`, `BooksTake`, `BooksQuiet`), so it is enough to know
what changing, adding or removing one summand does, and that `Wrapped` of a sum
is that of the wrapped summands (`WrappedSum`). It assumes finitely many
threads; the set of held blocks is proved finite.

*Sums and extrema.* `FiniteFacts` proves what sums, minima and maxima over
finite sets need. The library's induction theorems cannot be instantiated here,
so each induction is stated as a least counterexample: a non-empty set of
natural numbers has a least element, a non-empty family of subsets of a finite
set a minimal one.

*Build directory.* The inductive invariant is `TypeOK /\ Files`. `Files` says
at each step of a build which files are of this build: the outputs before the
one being written, then all six, then `.config`, plan, image and report. The
rest of the directory may be of any earlier or interrupted build. It is needed
because no step looks at more than its own inputs: that the plan and the image
agree is nowhere tested, only a consequence of the order of the script.

*Compiler, verifier and admission.* `BuildToolsProofs` is about the operators.
`AcceptedMeans` takes a verdict "OK" back to the checks that passed, in the
order of the code; `DistinctFields` then compares the words of two field names,
except for the clashes of section 6. For the images, `HighWaterIs` and `SpanIs`
take the measured spans back to the sections; a failed check names its row, so
no failure means that each stack row keeps its margin (`NoFailure`,
`StacksKept`), and the rows cover every stack of the image. `TlsReserve` is
the worst case of the alignment; the theorem has it for each start of the copy.
Assumed of the constants: numbers are numbers, sections are finitely many,
thread-local data have an alignment, and `None` is no content of a file.

Only model-checked, and why:

* liveness (`StopReturns`, `TimedWaitReturns`, `MainSettles`, `BothEnd`), which
  needs fairness and `ENABLED`;
* `StackRowsExact`, and what `SerialEvidence` says of logs: both are about
  folds over sequences of any length;
* the hardware tests (`PassIsReal`, `TimelyPasses`, `NoOrphans`,
  `CaptureIsExact` and their `TypeOK`). `SerialEvidence` counts lines with a
  recursive operator, which keeps the provers from any module that uses it.

## 5. Plan

1. Proofs: `NoOrphans` and the passes of the control peer, with the lines of
   `SerialEvidence` counted by a recursive function.
2. The condition-variable test cases around `CondVar`: a main thread that is
   delayed by more than 30 ms lets the waiter time out first
   (`samples/condvar_qualification/src/main.c:103`).
3. `Allocator` under `SerialEvidence`, so that the counters of a report are
   computed instead of chosen.

## 6. Disagreements between code and documentation

* **Late output without a fault** (`control_late_output`). The deadline is
  tested before `publish_state`; a thread that loses the CPU in between
  publishes late, and neither this nor a later cycle reports it. The README
  says a missed output deadline sets a latched fault.
* **Partial detach** (`fixed_waitset_detach`). If `dds_waitset_detach` fails
  part-way, the saved attachments are kept although some are gone. A later call
  that asks for the saved list matches and waits on an incomplete set.
* **Reconnect probe** (`wifi_drop`). Tokens of an unasked loss and recovery
  stay in the semaphores. The probe then takes them for its own and prints
  `phase=reconnected` without the link having come back.

* **A second control peer** (`control_peer_again`). The README says to use a
  newer `--sequence` on a board that has already accepted a command. The peer
  first waits for DISABLED, which such a board does not report again, and times
  out.

Smaller things the models made visible, without a line they contradict:

* `sizeof(header) + size` is not checked. For a size within a header of
  `SIZE_MAX` the block is smaller than its header says; `HeaderIsTrue` excepts
  these sizes and no others.
* A second worker that cannot be started leaves `run_graph_inbound` waiting for
  the first one, outside its `try`, until the script terminates it.
* Endpoints `x` and `x_initialized` of one kind, or subscriptions `x` and
  `x_message`, are accepted by the compiler and give two fields of the
  generated context the same name (`ContextFieldsDistinct` excepts them).
* `git apply` interrupted between two files leaves a tree that neither applies
  nor reverses; every later setup stops with "does not match" until the tree is
  restored by hand. It never passes for complete.
* `build_esp32.sh` verifies host and target sources, neither Cyclone DDS nor
  the patches. The kernel's patch and the middleware's workaround back each
  other up as long as only one of the trees was discarded.
* `any(...)` over all received states lets the control peer take a STALE that
  was reported before a reset if the same sequence number is used again.
* `samples * percentile` in `timing_percentile` wraps 32 bits after about five
  days at 100 Hz; the percentiles may then come out of order and the timing
  check rejects the log. `TimelyPasses` has the shorter run as a premise.

## 7. Not modelled

The components marked `not_modelled` or `partly` in `PROJECT.json`, each with
its reason. Left out for good: the internals of the external libraries (Zephyr,
Cyclone DDS, Zenoh-Pico, rcl, vcstool, git), which appear only through the
calls the code makes; command lines, Markdown reports and printed text; the
decoding of ELF structures, taken as the sections and symbols it yields; the
optional runtime log of `verify_resources.py`; flashing, the collection of files
and the matrix runner; compiler flags and Kconfig files, but for the range of the
domain id, which every description the compiler accepts keeps. The samples that only
qualify an external primitive (`condvar_qualification`, `ddsrt_native_sync`,
`thread_tls_qualification`) have nothing of their own to be right about. The
loopback and ESP32-C6 publish-subscribe samples are shorter forms of
`WifiExchange` and `connect_network`. Within the modelled parts: the plant's
arithmetic, and the conversion of lateness to microseconds.

---------------------------- MODULE FirmwareSetup ----------------------------
(***************************************************************************)
(* From the workspace to the board: firmware is built (build_esp32.sh of   *)
(* the samples) in whatever state scripts/setup.sh and the developer have  *)
(* left the kernel and Cyclone DDS, and its threads then wait on           *)
(* conditions.                                                             *)
(***************************************************************************)
EXTENDS CondVar, SourceSetup

VARIABLE flashed   \* whether the board has the firmware

ASSUME FirmwareAssumption ==
  /\ "condvar.c" \in File["kernel"]
  /\ "sync.c" \in File["cyclonedds-zephyr-4.4"]

-----------------------------------------------------------------------------
Prepare == ~flashed /\ SetupNext /\ UNCHANGED <<flashed, build, mutex, pc, ret>>

\* build_esp32.sh reads the environment file and verifies the host and the
\* target sources, but neither Cyclone DDS nor any patch.  CMake then runs
\* anew, and what it finds is compiled and flashed.
Build_esp32 ==
  /\ ~flashed /\ step = 0 /\ env
  /\ verify_sources(head, "host") /\ verify_sources(head, "target")
  /\ flashed' = TRUE
  /\ build' = [version |-> kernel, patched |-> "condvar.c" \in patched,
               workaround |-> "sync.c" \in patched]
  /\ UNCHANGED <<mutex, pc, ret, workspace>>

Waits == flashed /\ Next /\ UNCHANGED <<flashed, workspace>>

\* What is on the board before it is flashed does not matter.
FirmwareInit ==
  /\ SetupInit /\ Init /\ flashed = FALSE
  /\ build = [version |-> "other", patched |-> FALSE, workaround |-> FALSE]

FirmwareNext == Prepare \/ Build_esp32 \/ Waits

\* Only the threads of the board owe progress.
FirmwareSpec ==
  FirmwareInit /\ [][FirmwareNext]_<<vars, flashed, workspace>> /\ Fairness

=============================================================================

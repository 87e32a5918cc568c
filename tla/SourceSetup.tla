----------------------------- MODULE SourceSetup -----------------------------
(***************************************************************************)
(* The workspace that firmware is built in: scripts/setup.sh, with         *)
(* prepare_sources.sh, verify_sources.py and the scripts that apply the    *)
(* patches.  A setup patches the kernel, imports and verifies the pinned   *)
(* sources, patches Cyclone DDS, builds idlc, and writes the environment   *)
(* file that every build reads.  It may be interrupted anywhere and be     *)
(* started again; git apply writes one file after the other.  Between      *)
(* setups the developer discards patched trees and updates the pins.       *)
(***************************************************************************)
EXTENDS Integers, Sequences

CONSTANTS
  Repo,         \* a function from the groups to their repositories
  File,         \* a function from the patches to the files they change
  MaxRestores,  \* trees discarded since the last complete setup
  MaxUpdates    \* updates of the pins

VARIABLES
  kernel,    \* the kernel's version, as CondVar tells them apart
  head,      \* what is checked out of each repository
  patched,   \* the files that have the change of their patch
  env,       \* whether there is a complete environment file
  step,      \* the task of the setup, or 0
  applying,  \* whether git apply is writing
  error,     \* how the last setup ended
  torn,      \* history: git apply was interrupted between two files
  restored, updates   \* counts for the bounds

workspace == <<kernel, head, patched, env, step, applying, error, torn,
               restored, updates>>

\* The order of setup.sh.
Task == <<"kernel", "host", "target", "platform", "cyclonedds-zephyr-4.4",
          "cyclonedds-log-buffer", "cyclonedds-partial-magazines", "idlc",
          "env">>

\* The groups of prepare_sources.sh; no file is changed by two patches.
SetupConstants ==
  /\ DOMAIN Repo = {"host", "target", "platform"}
  /\ "cyclonedds" \in Repo["platform"]
  /\ DOMAIN File = {"kernel", "cyclonedds-zephyr-4.4", "cyclonedds-log-buffer",
                    "cyclonedds-partial-magazines"}
  /\ \A p, q \in DOMAIN File : p # q => File[p] \cap File[q] = {}
  /\ {MaxRestores, MaxUpdates} \subseteq Nat

ASSUME SetupAssumption == SetupConstants

Repos == UNION {Repo[g] : g \in DOMAIN Repo}

CycloneFiles == UNION {File[p] : p \in DOMAIN File \ {"kernel"}}

Ends(why) == step' = 0 /\ applying' = FALSE /\ error' = why

GoesOn == step' = step + 1 /\ applying' = FALSE /\ UNCHANGED error

-----------------------------------------------------------------------------
\* The kernel has to be v4.4.0.
Begin ==
  /\ step = 0
  /\ IF kernel = "4.4" THEN step' = 1 /\ error' = "none" /\ UNCHANGED applying
     ELSE Ends("version")
  /\ UNCHANGED <<kernel, head, patched, env, torn, restored, updates>>

\* verify_sources.py compares HEAD, not the files.
verify_sources(heads, group) == \A r \in Repo[group] : heads[r] = "pinned"

\* import_group: vcs import gets all or some of what is missing or old.
import_group ==
  /\ step # 0 /\ Task[step] \in DOMAIN Repo
  /\ IF verify_sources(head, Task[step]) THEN GoesOn /\ UNCHANGED head
     ELSE \E got \in SUBSET Repo[Task[step]] :
            /\ head' = [r \in Repos |-> IF r \in got THEN "pinned" ELSE head[r]]
            /\ IF verify_sources(head', Task[step]) THEN GoesOn
               ELSE Ends("revision")
  /\ UNCHANGED <<kernel, patched, env, torn, restored, updates>>

\* git apply --check
Applies(patch) == File[patch] \cap patched = {}

\* Mutant of Applied: nothing is taken as applied.
AppliedNever(patch) == FALSE

\* Mutant of Applied: only one file is looked at.
AppliedSome(patch) == File[patch] \cap patched # {}

\* git apply --reverse --check
Applied(patch) == File[patch] \subseteq patched

\* The loop of apply_cyclonedds_patches.sh, and apply_zephyr_condvar_patch.sh.
CheckPatch ==
  /\ step # 0 /\ Task[step] \in DOMAIN File /\ ~applying
  /\ CASE Applies(Task[step]) ->
            applying' = TRUE /\ UNCHANGED <<step, error>>
       [] ~Applies(Task[step]) /\ Applied(Task[step]) -> GoesOn
       [] OTHER -> Ends("mismatch")
  /\ UNCHANGED <<kernel, head, patched, env, torn, restored, updates>>

\* git apply
WriteFile ==
  /\ applying
  /\ \E f \in File[Task[step]] \ patched :
       /\ patched' = patched \cup {f}
       /\ IF File[Task[step]] \subseteq patched' THEN GoesOn
          ELSE UNCHANGED <<step, applying, error>>
  /\ UNCHANGED <<kernel, head, env, torn, restored, updates>>

\* The compiler for IDL is built for the host.
BuildIdlc ==
  /\ step # 0 /\ Task[step] = "idlc"
  /\ GoesOn \/ Ends("failed")
  /\ UNCHANGED <<kernel, head, patched, env, torn, restored, updates>>

WriteEnv ==
  /\ step # 0 /\ Task[step] = "env"
  /\ env' = TRUE /\ restored' = 0
  /\ Ends("complete")
  /\ UNCHANGED <<kernel, head, patched, torn, updates>>

\* The environment file is truncated before it is written.
Interrupt ==
  /\ step # 0
  /\ Ends("interrupted")
  /\ env' \in IF Task[step] = "env" THEN {env, FALSE} ELSE {env}
  /\ torn' = (torn \/ (applying /\ ~Applies(Task[step])))
  /\ UNCHANGED <<kernel, head, patched, restored, updates>>

-----------------------------------------------------------------------------
(***************************************************************************)
(* The developer.                                                          *)
(***************************************************************************)

\* Another kernel, or the kernel or Cyclone DDS without their changes.
Restore ==
  /\ step = 0 /\ restored < MaxRestores /\ restored' = restored + 1
  /\ \/ /\ kernel' \in {"4.4", "other"}
        /\ patched' = patched \ File["kernel"]
        /\ UNCHANGED head
     \/ /\ patched' = patched \ CycloneFiles
        /\ head' \in {head, [head EXCEPT !["cyclonedds"] = "missing"]}
        /\ UNCHANGED kernel
  /\ error' = "none"
  /\ UNCHANGED <<env, step, applying, torn, updates>>

\* A new version of this repository has another pin for a repository.
Update ==
  /\ step = 0 /\ updates < MaxUpdates /\ updates' = updates + 1
  /\ \E r \in Repos : head[r] = "pinned" /\ head' = [head EXCEPT ![r] = "old"]
  /\ error' = "none"
  /\ UNCHANGED <<kernel, patched, env, step, applying, torn, restored>>

SetupNext ==
  \/ Begin \/ import_group \/ CheckPatch \/ WriteFile \/ BuildIdlc \/ WriteEnv
  \/ Interrupt \/ Restore \/ Update

SetupInit ==
  /\ kernel = "4.4" /\ head = [r \in Repos |-> "missing"]
  /\ patched = {} /\ env = FALSE
  /\ step = 0 /\ applying = FALSE /\ error = "none" /\ torn = FALSE
  /\ restored = 0 /\ updates = 0

SetupSpec == SetupInit /\ [][SetupNext]_workspace

-----------------------------------------------------------------------------
\* A setup that says "Setup complete" has every repository at its pin and
\* every file of every patch changed, whatever earlier setups left.
SetupIsComplete ==
  error = "complete" =>
    /\ env /\ \A r \in Repos : head[r] = "pinned"
    /\ patched = File["kernel"] \cup CycloneFiles

\* A setup that was interrupted, also between two patches, is finished by the
\* next one: apply_cyclonedds_patches.sh and apply_zephyr_condvar_patch.sh
\* find a patch that does not match only after git apply itself was
\* interrupted.
SetupResumes == error = "mismatch" => torn

=============================================================================

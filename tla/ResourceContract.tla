-------------------------- MODULE ResourceContract --------------------------
(***************************************************************************)
(* tools/verify_resources.py: the resource plan that is made before a      *)
(* build from the deployment plan and .config, and the report that is made *)
(* after it from the linked image.                                         *)
(*                                                                         *)
(* .config is a function from option names to integers; an option that is  *)
(* missing, "n", "y" or no number is None.  An image has the sections of   *)
(* its ELF file, the memory regions of its linker map, and the size of     *)
(* zephyr.bin or None.                                                     *)
(***************************************************************************)
EXTENDS Integers, Sequences, FiniteSets, FiniteSetsExt, Functions

CONSTANT None

\* config.get(key) as an integer, or None.
integer_config(config, key) ==
  IF key \in DOMAIN config THEN config[key] ELSE None

Passed(required, available) == available # None /\ required <= available

make_check(code, required, available) ==
  [code |-> code, passed |-> Passed(required, available)]

Failed(checks) == {i \in DOMAIN checks : ~checks[i].passed}

\* The check that is reported.
first_failed(checks) ==
  IF Failed(checks) = {} THEN None ELSE checks[Min(Failed(checks))].code

-----------------------------------------------------------------------------
(***************************************************************************)
(* Before the build.                                                       *)
(***************************************************************************)

OrZero(n) == IF n = None THEN 0 ELSE n

NonNegative(n) == IF n = None \/ n < 0 THEN 0 ELSE n

\* known_total of configured_reservations: what the configuration is known to
\* place in RAM.  A libc heap of -1 is the rest of the RAM and not known yet.
configured_reservations(config, backend, worker_count) ==
  LET value(key) == OrZero(integer_config(config, key)) IN
  value("MAIN_STACK_SIZE") + value("IDLE_STACK_SIZE")
  + value("SYSTEM_WORKQUEUE_STACK_SIZE")
  + (IF backend = "rmw_cyclonedds_c"
     THEN worker_count * value("CYCLONEDDS_THREAD_STACK_SIZE") ELSE 0)
  + value("HEAP_MEM_POOL_SIZE")
  + NonNegative(integer_config(config, "COMMON_LIBC_MALLOC_ARENA_SIZE"))

\* A bound of zero passes whatever is configured.
RemoteCheck(required, available) ==
  IF required = 0
  THEN [code |-> "E_RESOURCE_GRAPH_CAPACITY", passed |-> TRUE]
  ELSE make_check("E_RESOURCE_GRAPH_CAPACITY", required, available)

\* The number of middleware workers the image will have.
configured_workers(dp, config) ==
  IF dp.backend = "rmw_cyclonedds_c"
  THEN integer_config(config, "CYCLONEDDS_THREAD_COUNT")
  ELSE dp.capability.workers

\* Mutant of PlannedWorkers: room for as many as the deployment allows.
PlannedWorkersMost(dp, config) == dp.deployment.resources.workers

\* configured_workers or minimum_workers: zero counts as missing.
PlannedWorkers(dp, config) ==
  IF configured_workers(dp, config) \in {None, 0} THEN dp.capability.workers
  ELSE configured_workers(dp, config)

known_ram(dp, config) ==
  configured_reservations(config, dp.backend, PlannedWorkers(dp, config))
  + dp.deployment.resources.application

\* The checks of build_prelink_plan in order.
PlanChecks(dp, config, budget) ==
  LET resources == dp.deployment.resources
      workers == configured_workers(dp, config)
      option(key) == integer_config(config, key) IN
  << make_check("E_RESOURCE_ENDPOINT_CAPACITY",
                Len(dp.deployment.endpoints), resources.local_endpoints),
     make_check("E_RESOURCE_GRAPH_CAPACITY",
                1, option("GRAPH_MAX_LOCAL_NODES")),
     make_check("E_RESOURCE_GRAPH_CAPACITY", Len(dp.deployment.endpoints),
                option("GRAPH_MAX_ENDPOINTS_PER_NODE")),
     RemoteCheck(resources.remote.participants,
                 option("GRAPH_CACHE_MAX_PARTICIPANTS")),
     RemoteCheck(resources.remote.nodes, option("GRAPH_CACHE_MAX_NODES")),
     RemoteCheck(resources.remote.endpoints,
                 option("GRAPH_CACHE_MAX_ENDPOINTS")),
     make_check("E_RESOURCE_WORKERS", dp.capability.workers, workers),
     make_check("E_RESOURCE_WORKERS",
                IF workers = None THEN resources.workers + 1 ELSE workers,
                resources.workers),
     make_check("E_RESOURCE_RAM_BUDGET", known_ram(dp, config),
                budget.ram_bytes) >>

\* The target whose budget counts, or None (E_RESOURCE_TARGET).  The board of
\* .config comes first and then the command line; CMake passes the same board
\* in both.
PlanTarget(targets, target) == IF target \in DOMAIN targets THEN target ELSE None

\* build_prelink_plan, for a target that PlanTarget found.
build_prelink_plan(dp, config, target) ==
  LET budget == dp.deployment.resources.targets[target]
      checks == PlanChecks(dp, config, budget) IN
  [passed |-> Failed(checks) = {}, checks |-> checks, budget |-> budget,
   reserve |-> dp.deployment.resources.application]

-----------------------------------------------------------------------------
(***************************************************************************)
(* After the build.                                                        *)
(***************************************************************************)

occupies_flash(s) == s.alloc /\ ~s.nobits /\ ~s.dummy

occupies_ram(s) == s.alloc /\ s.writable /\ ~s.executable /\ ~s.dummy

SumSizes(S) == SumFunction([s \in S |-> s.size])

\* max(ends, default=origin) - origin
HighWater(S, region) ==
  LET ends == {s.address + s.size : s \in S}
  IN IF ends = {} THEN 0 ELSE Max(ends) - region.origin

StartsIn(s, region) ==
  s.address >= region.origin /\ s.address < region.origin + region.length

\* Sections that cross the end of the region are left out.
region_usage(sections, region) ==
  HighWater({s \in sections :
               /\ s.alloc /\ StartsIn(s, region)
               /\ s.address + s.size <= region.origin + region.length},
            region)

\* Mutant of physical_span: code does not count.
physical_span_data(sections, region) ==
  HighWater({s \in sections : s.alloc /\ s.writable /\ StartsIn(s, region)},
            region)

\* The ESP32-C6 spans.
physical_span(sections, region) ==
  HighWater({s \in sections : s.alloc /\ StartsIn(s, region)}, region)

\* static_ram_bytes of measure_linked.
static_ram_bytes(image) ==
  LET regions == image.regions IN
  IF image.hpcore /\ "sram0_0_seg" \in DOMAIN regions
  THEN physical_span(image.sections, regions["sram0_0_seg"])
       + (IF "lp_ram_seg" \in DOMAIN regions
          THEN physical_span(image.sections, regions["lp_ram_seg"]) ELSE 0)
  ELSE IF "dram0_0_seg" \in DOMAIN regions
  THEN region_usage(image.sections, regions["dram0_0_seg"])
  ELSE SumSizes({s \in image.sections : occupies_ram(s)})

\* flash_bytes of measure_linked: zephyr.bin if there is one.
flash_bytes(image) ==
  IF image.bin # None THEN image.bin
  ELSE SumSizes({s \in image.sections : occupies_flash(s)})

RamRegion(regions) ==
  IF "sram0_0_seg" \in DOMAIN regions THEN regions["sram0_0_seg"]
  ELSE IF "dram0_0_seg" \in DOMAIN regions THEN regions["dram0_0_seg"]
  ELSE None

LinkedRam(plan, image) == static_ram_bytes(image) + plan.reserve

\* The checks of build_postlink_report in order, after those of the plan.
ReportChecks(plan, image) ==
  plan.checks
  \o << make_check("E_RESOURCE_FLASH_BUDGET", flash_bytes(image),
                   plan.budget.flash_bytes),
        make_check("E_RESOURCE_RAM_BUDGET", LinkedRam(plan, image),
                   plan.budget.ram_bytes) >>
  \o (IF "FLASH" \in DOMAIN image.regions
      THEN <<make_check("E_RESOURCE_TARGET_CAPACITY", plan.budget.flash_bytes,
                        image.regions["FLASH"].length)>>
      ELSE <<>>)
  \o (IF RamRegion(image.regions) # None
      THEN <<make_check("E_RESOURCE_TARGET_CAPACITY", plan.budget.ram_bytes,
                        RamRegion(image.regions).length)>>
      ELSE <<>>)

\* What stops verify before it has a report, or "OK": no plan, no artifacts
\* or a file that is no ELF file, a plan that failed.
verify_error(plan, image) ==
  CASE plan = None -> "E_RESOURCE_INPUT"
    [] image = None -> "E_RESOURCE_ARTIFACT"
    [] ~image.readable -> "E_RESOURCE_ARTIFACT"
    [] ~plan.passed -> "E_RESOURCE_PLAN"
    [] OTHER -> "OK"

=============================================================================

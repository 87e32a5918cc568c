-------------------------- MODULE MCBuildPipeline ---------------------------
(* Projects that are rejected at different steps and two that can be        *)
(* admitted, with the byte counts of the ESP32-C6 builds.                   *)
EXTENDS LinkerMap

Qos(durability, depth) ==
  [reliability |-> "reliable", durability |-> durability,
   history |-> "keep_last", depth |-> depth]

Endpoint(id, kind, qos) ==
  [malformed |-> {}, id |-> id, kind |-> kind, lifetime |-> "fixed_startup",
   callback |-> kind = "subscription", qos |-> qos]

Description(endpoints, ram, workers) ==
  [malformed |-> {}, schema_version |-> 2, domain_id |-> 42,
   message_profile |-> "fixed_size",
   rmw |-> <<"rmw_cyclonedds_c", "rmw_zenoh_pico">>,
   graph |-> [outbound |-> FALSE, inbound |-> FALSE, api |-> <<>>],
   endpoints |-> endpoints,
   resources |->
     [local_endpoints |-> 3,
      remote |-> [participants |-> 2, nodes |-> 0, endpoints |-> 16],
      workers |-> workers, application |-> 16384,
      targets |-> [esp32c6 |-> [flash_bytes |-> 2097152, ram_bytes |-> ram],
                   esp32s3 |-> [flash_bytes |-> 2097152,
                                ram_bytes |-> 200000]]]]

Cyclone ==
  [schema_version |-> 1, backend |-> "rmw_cyclonedds_c",
   message_profiles |-> {"fixed_size"}, malformed |-> {}, workers |-> 5,
   qos |-> [reliability |-> {"best_effort", "reliable"},
            durability |-> {"volatile", "transient_local"},
            history |-> {"keep_last"}, depth |-> [minimum |-> 1, maximum |-> 32]],
   graph |-> [outbound |-> TRUE, inbound |-> TRUE,
              api |-> {"topics", "nodes"}]]

Zenoh ==
  [Cyclone EXCEPT !.backend = "rmw_zenoh_pico", !.workers = 1,
     !.qos.durability = {"volatile"},
     !.graph = [outbound |-> FALSE, inbound |-> FALSE, api |-> {}]]

Config ==
  [MAIN_STACK_SIZE |-> 11648, IDLE_STACK_SIZE |-> 1024,
   SYSTEM_WORKQUEUE_STACK_SIZE |-> 4096,
   CYCLONEDDS_THREAD_STACK_SIZE |-> 11136, CYCLONEDDS_THREAD_COUNT |-> 5,
   HEAP_MEM_POOL_SIZE |-> 65536, COMMON_LIBC_MALLOC_ARENA_SIZE |-> 119808,
   GRAPH_MAX_LOCAL_NODES |-> 1, GRAPH_MAX_ENDPOINTS_PER_NODE |-> 3,
   GRAPH_CACHE_MAX_PARTICIPANTS |-> 2, GRAPH_CACHE_MAX_NODES |-> 0,
   GRAPH_CACHE_MAX_ENDPOINTS |-> 16]

Speed == Endpoint(<<"speed">>, "subscription", Qos("volatile", 1))
State == Endpoint(<<"state">>, "publisher", Qos("transient_local", 32))

CycloneProject(d) ==
  [deployment |-> d, backend |-> "rmw_cyclonedds_c", capability |-> Cyclone,
   config |-> Config, images |-> {"good"}]

MCProject ==
  [control |->
     [CycloneProject(Description(<<Speed, State>>, 450000, 8)) EXCEPT
        !.images = {"good", "full", "other"}],
   zenoh |->
     [CycloneProject(Description(<<Speed>>, 449887, 5)) EXCEPT
        !.backend = "rmw_zenoh_pico", !.capability = Zenoh,
        !.images = {"zenoh", "zenoh full"}],
   clash |->
     CycloneProject(Description(
       <<Speed, Endpoint(<<"speed", "message">>, "subscription",
                         Qos("volatile", 2)),
         Endpoint(<<"node">>, "publisher", Qos("volatile", 2))>>,
       450000, 8)),
   twice |-> CycloneProject(Description(<<Speed, State, Speed>>, 450000, 8)),
   deep |->
     CycloneProject(Description(
       <<[Speed EXCEPT !.qos.depth = 33], State>>, 450000, 8)),
   tight |-> CycloneProject(Description(<<Speed>>, 274175, 8)),
   roomy |->
     CycloneProject([Description(<<Speed>>, 300000, 8) EXCEPT
                       !.domain_id = 232]),
   far |->
     CycloneProject([Description(<<Speed>>, 450000, 8) EXCEPT
                       !.domain_id = 233]),
   missing |->
     [CycloneProject(Description(<<Speed>>, 450000, 8)) EXCEPT
        !.config.GRAPH_CACHE_MAX_ENDPOINTS = None]]

-----------------------------------------------------------------------------
Section(address, size, writable, executable) ==
  [address |-> address, size |-> size, alloc |-> TRUE, writable |-> writable,
   executable |-> executable, nobits |-> writable, dummy |-> FALSE]

SramOrigin == 1082130432  \* 0x40800000
LpOrigin == 1342177280    \* 0x50000000

\* Code in RAM, a hole, data up to the given end, and a little LP RAM.
Sections(end) ==
  {Section(SramOrigin, 90000, FALSE, TRUE),
   Section(SramOrigin + 90112, end - 90112, TRUE, FALSE),
   Section(LpOrigin, 16, TRUE, FALSE)}

\* The same with data first and code at the end.
CodeLast(end) ==
  {Section(SramOrigin, end - 4096, TRUE, FALSE),
   Section(SramOrigin + end - 4000, 4000, FALSE, TRUE)}

Good ==
  [readable |-> TRUE, hpcore |-> TRUE,
   regions |-> [sram0_0_seg |-> [origin |-> SramOrigin, length |-> 450000],
                lp_ram_seg |-> [origin |-> LpOrigin, length |-> 16384],
                FLASH |-> [origin |-> 0, length |-> 4194048]],
   sections |-> Sections(433488), bin |-> 789776,
   arena |-> 119808, heap_sentry |-> 0, end |-> 0,
   esf |-> 80, sentinel |-> TRUE, tls_size |-> 72, tls_align |-> 8,
   a_profile |-> TRUE, c_profile |-> FALSE,
   wrapped |-> TRUE, wrapper_called |-> TRUE, vendor_known |-> TRUE,
   stacks |-> [z_main_stack |-> 11648, z_idle_stacks |-> 1024,
               sys_work_q_stack |-> 4096, z_interrupt_stacks |-> 2048,
               zephyr_stacks |-> 5 * 11136],
   cyclone_slots |-> 5, cyclone_each |-> 11136,
   nros_slots |-> 0, nros_each |-> 0,
   callers |-> {"z_cstart", "ddsrt_thread_create"}, dynamic_pool |-> 0,
   emutls |-> FALSE]

ZenohImage ==
  [Good EXCEPT !.a_profile = FALSE, !.wrapped = FALSE,
     !.wrapper_called = FALSE, !.stacks = [z_main_stack |-> 11648],
     !.callers = {"z_cstart"}]

MCImage ==
  [x \in {"good", "full", "other", "zenoh", "zenoh full"} |->
     CASE x = "good" -> Good
       [] x = "full" -> [Good EXCEPT !.sections = Sections(433601)]
       [] x = "other" -> [Good EXCEPT !.hpcore = FALSE]
       [] x = "zenoh" -> [ZenohImage EXCEPT !.sections = Sections(430000)]
       [] x = "zenoh full" -> ZenohImage]

\* Variations of the RAM, of the stacks and of the profile.  9138, 8626 and
\* 2048 + 434 are exactly enough for the main stack, a slot of the Cyclone
\* pool and the Wi-Fi task.
MCLayout ==
  {[Good EXCEPT !.sections = s] :
     s \in {Sections(end) : end \in {240000, 257792, 283600, 433616, 449999}}
           \cup {CodeLast(433616), CodeLast(433617), CodeLast(450000)}}
  \cup {[Good EXCEPT !.hpcore = FALSE, !.sections = s,
           !.regions = [dram0_0_seg |-> [origin |-> SramOrigin,
                                         length |-> 450000]]] :
          s \in {CodeLast(433616), Sections(433617)}}
  \cup {[Good EXCEPT !.stacks.z_main_stack = main, !.cyclone_each = each,
           !.stacks.zephyr_stacks = slots * each] :
          main \in {9138, 9137}, each \in {8626, 8625}, slots \in {4, 5}}
  \cup {[Good EXCEPT !.stacks = @ @@ (name :> size)] :
          name \in {"app_stack", "nros_thread_stacks", "logging_stack"},
          size \in {255, 256, 2048}}
  \cup {[Good EXCEPT !.tls_size = tls, !.tls_align = align] :
          tls \in {0, 72, 77}, align \in {8, 64}}
  \cup {[Good EXCEPT !.tls_size = 0, !.tls_align = 0]}
  \cup {[Good EXCEPT !.wrapped = w, !.wrapper_called = c] :
          w \in BOOLEAN, c \in BOOLEAN}
  \cup {[ZenohImage EXCEPT !.c_profile = TRUE, !.nros_slots = 2,
           !.nros_each = each, !.stacks = [z_main_stack |-> 12722,
                                           nros_thread_stacks |-> 2 * each],
           !.tls_size = tls] :
          each \in {6578, 6577}, tls \in {72, 700}}
  \cup {[Good EXCEPT !.arena = -1, !.sections = Sections(300000),
           !.end = SramOrigin + 300000, !.heap_sentry = SramOrigin + sentry] :
          sentry \in {300000, 433600, 450000}}
  \cup {[ZenohImage EXCEPT !.tls_size = tls] : tls \in {662, 663}}

NoinitSection ==
  [noinit : {TRUE}, long : BOOLEAN, bytes : {512}, symbols : {<<>>, <<"a_stack">>}]
  \cup [noinit : {TRUE}, long : {FALSE}, bytes : {1024},
        symbols : {<<"b_stack", "c_stacks">>}]
  \cup [noinit : {FALSE}, long : {FALSE}, bytes : {64},
        symbols : {<<>>, <<"d_stack">>}]

MCNoinit == UNION {[1..n -> NoinitSection] : n \in 0..2}

=============================================================================

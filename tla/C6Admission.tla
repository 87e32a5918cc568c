---------------------------- MODULE C6Admission -----------------------------
(***************************************************************************)
(* tools/esp32c6_resources.py and tools/admit_esp32c6.py: the inventory of *)
(* an ESP32-C6 image and its admission to hardware qualification, with the *)
(* Wi-Fi stack provider of platform/esp32c6_wifi_stack.c that the          *)
(* admission relies on.                                                    *)
(***************************************************************************)
EXTENDS ResourceContract

-----------------------------------------------------------------------------
(***************************************************************************)
(* inventory.                                                              *)
(***************************************************************************)

C6_REGIONS == {"sram0_0_seg", "lp_ram_seg"}

RegionSections(image, name) ==
  {s \in image.sections : s.alloc /\ s.size > 0
                          /\ StartsIn(s, image.regions[name])}

Crosses(s, region) == s.address + s.size > region.origin + region.length

\* The ValueErrors of inventory, or "OK".
inventory_error(image) ==
  CASE ~image.hpcore -> "C6 HP-core only"
    [] ~(C6_REGIONS \subseteq DOMAIN image.regions) ->
         "Unrecognized C6 linker regions"
    [] \E name \in C6_REGIONS : \E s \in RegionSections(image, name) :
         Crosses(s, image.regions[name]) ->
         "Section crosses physical RAM boundary"
    [] OTHER -> "OK"

linked_span_bytes(image, name) ==
  HighWater(RegionSections(image, name), image.regions[name])

\* Mutant of dynamic_tail: never.
dynamic_tail_none(image) == 0

\* With an arena of -1 malloc owns the RAM from _end to _heap_sentry.
dynamic_tail(image) ==
  IF image.arena = -1 /\ image.heap_sentry > image.end
  THEN image.heap_sentry - image.end ELSE 0

ram_committed_bytes(image) ==
  linked_span_bytes(image, "sram0_0_seg")
  + linked_span_bytes(image, "lp_ram_seg") + dynamic_tail(image)

-----------------------------------------------------------------------------
(***************************************************************************)
(* admit.                                                                  *)
(***************************************************************************)

\* The execution budgets of the reviewed stacks.
STATIC ==
  [z_main_stack |-> 6144, z_idle_stacks |-> 512, sys_work_q_stack |-> 3072,
   logging_stack |-> 1024, mgmt_stack |-> 1408, rx_stack |-> 1408,
   work_q_stack |-> 1408, timer_task_stack |-> 3072,
   z_interrupt_stacks |-> 1536]

BASE_CALLERS ==
  {"bg_thread_main", "z_init_cpu", "z_cstart", "z_impl_k_thread_create",
   "k_work_queue_start", "k_sys_work_q_init", "enable_logger",
   "esp_timer_init", "task_create_wrapper",
   "task_create_pinned_to_core_wrapper", "net_mgmt_event_init",
   "net_tc_rx_init", "net_tcp_init"}

Margin == 256

\* arch_esf, alignment of the stack pointer, sentinel.
Overhead(image) == image.esf + 15 + (IF image.sentinel THEN 4 ELSE 0)

\* max(__tdata_align or 1, __tbss_align or 1)
TlsAlign(image) == IF image.tls_align = 0 THEN 1 ELSE image.tls_align

TlsReserve(image) == image.tls_size + TlsAlign(image) - 1

\* status of stack_budget.
stack_budget(image, backing, execution, isr) ==
  backing >= (IF isr THEN 0 ELSE TlsReserve(image))
             + Overhead(image) + execution + Margin

\* The main stack has the budget of its profile.
StaticExecution(image, symbol) ==
  IF symbol # "z_main_stack" THEN STATIC[symbol]
  ELSE IF image.c_profile THEN 12288
  ELSE IF image.a_profile THEN 8704 ELSE STATIC[symbol]

RoundUp16(n) == ((n + 15) \div 16) * 16

\* The smallest stack the vendor library asks for, with the wrapper's
\* allowance where it is linked.
VendorBacking(image) ==
  IF image.a_profile /\ image.wrapped
  THEN RoundUp16(3072 + TlsReserve(image) + 99 + 256) ELSE 3072

\* The execution budgets of the threads of the pools and of the Wi-Fi task.
CycloneExecution == 8192

NrosExecution == 6144

VendorExecution(image) == IF image.a_profile THEN 3072 ELSE 2048

\* The thread stacks of the image: backing, execution budget, interrupt stack.
PoolSlots(image) ==
  (IF image.a_profile /\ image.cyclone_slots > 0
   THEN {<<"zephyr_stacks", image.cyclone_each, CycloneExecution, FALSE>>}
   ELSE {})
  \cup (IF image.c_profile /\ image.nros_slots > 0
        THEN {<<"nros_thread_stacks", image.nros_each, NrosExecution, FALSE>>}
        ELSE {})

StackRows(image) ==
  {<<n, image.stacks[n], StaticExecution(image, n),
     n = "z_interrupt_stacks">> : n \in DOMAIN image.stacks \cap DOMAIN STATIC}
  \cup PoolSlots(image)
  \cup (IF image.vendor_known
        THEN {<<"wifi", VendorBacking(image), VendorExecution(image), FALSE>>}
        ELSE {})

SizeOf(image, symbol) ==
  IF symbol \in DOMAIN image.stacks THEN image.stacks[symbol] ELSE 0

AllowedStacks(image) ==
  DOMAIN STATIC
  \cup (IF image.a_profile THEN {"zephyr_stacks"} ELSE {})
  \cup (IF image.c_profile THEN {"nros_thread_stacks"} ELSE {})

AllowedCallers(image) ==
  BASE_CALLERS
  \cup (IF image.a_profile
        THEN {"ddsrt_thread_create", "pthread_create"} ELSE {})
  \cup (IF image.c_profile
        THEN {"nros_zephyr_task_create_prio", "pthread_create"} ELSE {})

PoolMismatch(image) ==
  \/ /\ image.a_profile
     /\ SizeOf(image, "zephyr_stacks")
          # image.cyclone_slots * image.cyclone_each
  \/ /\ image.c_profile
     /\ SizeOf(image, "nros_thread_stacks")
          # image.nros_slots * image.nros_each

\* image.stacks has the object symbols with "stack" in their names.
UnknownStacks(image) ==
  {n \in DOMAIN image.stacks \ AllowedStacks(image) : image.stacks[n] >= 256}

\* The failures of admit.  plan is the resource plan on disk, which verify is
\* run with again in the Cyclone profile.
Failures(image, plan) ==
  {f \in {"wrapper", "vendor", "resources", "pool", "callers", "stacks",
          "dynamic", "emutls", "budget", "ram", "flash"} :
     CASE f = "wrapper" -> /\ image.vendor_known /\ image.a_profile
                           /\ ~(image.wrapped /\ image.wrapper_called)
       [] f = "vendor" -> ~image.vendor_known
       [] f = "resources" ->
            /\ image.a_profile
            /\ \/ verify_error(plan, image) # "OK"
               \/ Failed(ReportChecks(plan, image)) # {}
       [] f = "pool" -> PoolMismatch(image)
       [] f = "callers" -> ~(image.callers \subseteq AllowedCallers(image))
       [] f = "stacks" -> UnknownStacks(image) # {}
       [] f = "dynamic" -> image.dynamic_pool # 0
       [] f = "emutls" -> image.emutls
       [] f = "budget" -> \E row \in StackRows(image) :
                            ~stack_budget(image, row[2], row[3], row[4])
       [] f = "ram" -> ram_committed_bytes(image) + 16384 > 450000
       [] f = "flash" -> image.bin > 2097152}

-----------------------------------------------------------------------------
(***************************************************************************)
(* __wrap_config_get_wifi_task_stack_size of the firmware, for a size that *)
(* the vendor library asks for.                                            *)
(***************************************************************************)

VENDOR_STACKS == {3072, 3584, 6144, 6656}

\* Mutant of wifi_task_stack_size: without the margin.
wifi_task_stack_size_tight(image, size) ==
  IF image.wrapped
  THEN RoundUp16(size + image.tls_size + image.tls_align - 1 + 99)
  ELSE size

wifi_task_stack_size(image, size) ==
  IF image.wrapped
  THEN RoundUp16(size + image.tls_size + image.tls_align - 1 + 99 + 256)
  ELSE size

-----------------------------------------------------------------------------
(***************************************************************************)
(* What the admission is for.                                              *)
(***************************************************************************)

\* An ELF file has finitely many sections; sizes are natural numbers, and
\* thread-local data have an alignment.
Measurable(img) ==
  /\ IsFiniteSet(img.sections)
  /\ \A s \in img.sections : s.address \in Nat /\ s.size \in Nat
  /\ \A r \in DOMAIN img.regions :
       img.regions[r].origin \in Nat /\ img.regions[r].length \in Nat
  /\ img.arena \in Int /\ img.end \in Nat /\ img.heap_sentry \in Nat
  /\ img.esf \in Nat
  /\ img.tls_size \in Nat /\ img.tls_align \in Nat
  /\ img.tls_align = 0 => img.tls_size = 0
  /\ \A n \in DOMAIN img.stacks : img.stacks[n] \in Nat
  /\ img.cyclone_slots \in Nat /\ img.cyclone_each \in Nat
  /\ img.nros_slots \in Nat /\ img.nros_each \in Nat

\* The bytes of a stack that the thread itself never gets, if the copy of the
\* TLS image starts pad bytes after an aligned address.
Taken(img, pad, isr) ==
  (IF isr THEN 0 ELSE img.tls_size + pad) + Overhead(img) + Margin

\* The reviewed stacks of the image.
StaticStacksFit(img, pad) ==
  \A n \in DOMAIN img.stacks \cap DOMAIN STATIC :
    img.stacks[n] >= Taken(img, pad, n = "z_interrupt_stacks")
                     + StaticExecution(img, n)

\* There is no other stack than those and the pools.
StacksKnown(img) ==
  \A n \in DOMAIN img.stacks :
    img.stacks[n] >= Margin =>
      \/ n \in DOMAIN STATIC
      \/ n = "zephyr_stacks" /\ img.a_profile
      \/ n = "nros_thread_stacks" /\ img.c_profile

\* The slots are inside their pool, and each is large enough.
CycloneSlotsFit(img, pad) ==
  img.a_profile => \A i \in 1..img.cyclone_slots :
    /\ i * img.cyclone_each <= SizeOf(img, "zephyr_stacks")
    /\ img.cyclone_each >= Taken(img, pad, FALSE) + CycloneExecution

NrosSlotsFit(img, pad) ==
  img.c_profile => \A i \in 1..img.nros_slots :
    /\ i * img.nros_each <= SizeOf(img, "nros_thread_stacks")
    /\ img.nros_each >= Taken(img, pad, FALSE) + NrosExecution

\* The Wi-Fi task, with the stack the firmware gives it.
WifiStackFits(img, pad) ==
  \A size \in VENDOR_STACKS :
    wifi_task_stack_size(img, size)
      >= Taken(img, pad, FALSE)
         + (IF img.a_profile THEN size ELSE VendorExecution(img))

\* The budgets of all threads of an image, against the memory they really
\* get, wherever the copy of the TLS image starts.
StacksFit(img) ==
  /\ StacksKnown(img)
  /\ \A pad \in 0..TlsAlign(img) - 1 :
       /\ StaticStacksFit(img, pad)
       /\ CycloneSlotsFit(img, pad) /\ NrosSlotsFit(img, pad)
       /\ WifiStackFits(img, pad)

\* The last 16384 of the 450000 bytes are left to the application, behind the
\* sections and behind the arena of malloc: the whole of it, where malloc owns
\* the memory from the last section to _heap_sentry.
ReserveFree(img) ==
  LET limit == img.regions["sram0_0_seg"].origin + 450000 - 16384
      sram == RegionSections(img, "sram0_0_seg") IN
  /\ \A s \in sram : s.address + s.size <= limit
  /\ /\ img.arena = -1
     /\ \E s \in sram : s.address + s.size >= img.end
     => img.heap_sentry <= limit

=============================================================================

------------------------------ MODULE Allocator ------------------------------
(***************************************************************************)
(* The tracked allocator of platform/allocator.c: a header in front of     *)
(* every block, an internal and an external heap, and byte accounting per  *)
(* domain, used by several threads at once.                                *)
(*                                                                         *)
(* One step is the code up to the next call into a heap or the next        *)
(* section under allocation_metrics_lock.  A heap call is atomic: libc     *)
(* locks its heap and external_heap_mutex guards the external one.         *)
(***************************************************************************)
EXTENDS Integers, FiniteSets, FiniteSetsExt, Functions

CONSTANTS
  Thread,
  Block,        \* identities of heap blocks
  Domain,       \* {"ros", "middleware"}
  Size,         \* requested sizes
  Count,        \* element counts given to ros2_zephyr_zero_allocate
  HeaderSize,   \* sizeof(allocation_header_t)
  Threshold,    \* external_threshold of each domain
  Spiram,       \* CONFIG_ESP_SPIRAM: there is an external heap
  SizeMax,      \* SIZE_MAX
  FailAt,       \* ..._TEST_ROS_ALLOCATION_FAILURE_AT; 0 is a build without it
  MaxCalls      \* bound on the calls that are counted

ASSUME AllocatorAssumption ==
  /\ Domain = {"ros", "middleware"} /\ "none" \notin Block
  /\ IsFiniteSet(Thread)
  /\ SizeMax \in Nat /\ HeaderSize \in Nat
  /\ Size \subseteq 0..SizeMax /\ Count \subseteq 0..SizeMax
  /\ Threshold \in [Domain -> Nat]
  /\ Spiram \in BOOLEAN /\ FailAt \in Nat /\ MaxCalls \in Nat

VARIABLES
  heap,     \* live blocks: header (size, pool), where the memory really
            \*   comes from, how many bytes, the bytes that the caller
            \*   asked for (history) and the domain it is charged to
  metrics,  \* ros2_zephyr_allocation_metrics_t of each domain
  ros_allocation_attempts,
  op,       \* what each thread is doing inside the allocator
  owned,    \* history: the pointers that callers hold
  injected  \* history: injected failures

vars == <<heap, metrics, ros_allocation_attempts, op, owned, injected>>

Pool == {"internal", "external"}

\* Calls and frees are counted without a width: only MaxCalls bounds them.
Metrics == [calls : Nat, frees : Nat, live_bytes : 0..SizeMax,
            high_water_bytes : 0..SizeMax]

None == "none"

Idle == [at |-> "idle", domain |-> None, size |-> 0, asked |-> 0,
         old_size |-> 0, old |-> None, new |-> None]

TypeOK ==
  /\ DOMAIN heap \subseteq Block
  /\ \A b \in DOMAIN heap :
       heap[b] \in [size : Nat, pool : Pool, from : Pool, bytes : Nat,
                    asked : Nat, domain : Domain]
  /\ metrics \in [Domain -> Metrics]
  /\ ros_allocation_attempts \in Nat /\ injected \in Nat
  /\ op \in [Thread -> [at : {"idle", "malloc", "add", "free", "realloc",
                              "move", "reaccount"},
                        domain : Domain \cup {None}, size : Nat,
                        asked : Nat, old_size : Nat, old : Block \cup {None},
                        new : Block \cup {None}]]
  /\ owned \subseteq Block

-----------------------------------------------------------------------------
\* Which heap serves a request.
PoolFor(domain, size) ==
  IF Spiram /\ size >= Threshold[domain] THEN "external" ELSE "internal"

With(b, block) ==
  [c \in DOMAIN heap \cup {b} |-> IF c = b THEN block ELSE heap[c]]

Without(b) == [c \in DOMAIN heap \ {b} |-> heap[c]]

\* Mutant of Wrapped: the bytes are counted in something wider.
WrappedWide(n) == n

\* The arithmetic of size_t.
Wrapped(n) == n % (SizeMax + 1)

\* Mutant of BlockSize: the header is not counted.
BlockSizeBare(size) == Wrapped(size)

\* The bytes asked of a heap for a block: sizeof(header) + size, which
\* nothing checks, so that it wraps for a size within a header of SIZE_MAX.
BlockSize(size) == Wrapped(HeaderSize + size)

\* Mutant of Charged: the old and the new size swapped.
ChargedSwapped(domain, old_size, size) ==
  [metrics EXCEPT ![domain].calls = @ + 1,
                  ![domain].live_bytes = Wrapped(@ + old_size - size)]

\* metrics_add, and the accounting at the end of reallocate.
Charged(domain, old_size, size) ==
  LET m    == metrics[domain]
      live == Wrapped(m.live_bytes - old_size + size)
  IN  [metrics EXCEPT ![domain] =
         [m EXCEPT !.calls = @ + 1, !.live_bytes = live,
                   !.high_water_bytes = IF live > @ THEN live ELSE @]]

\* inject_allocation_failure counts the attempts of the ROS domain.
InjectionCount(domain) ==
  IF FailAt > 0 /\ domain = "ros" THEN ros_allocation_attempts + 1
  ELSE ros_allocation_attempts

\* Mutant of Inject: every attempt from the chosen one on fails.
InjectFrom(domain) ==
  FailAt > 0 /\ domain = "ros" /\ InjectionCount(domain) >= FailAt

Inject(domain) ==
  FailAt > 0 /\ domain = "ros" /\ InjectionCount(domain) = FailAt

\* Calls counted so far and those that may still be.
Calls ==
  ros_allocation_attempts + Cardinality({t \in Thread : op[t] # Idle})
    + MapThenSumSet(LAMBDA d : metrics[d].calls, Domain)

\* A call of a thread that is in no call: the injected failure, or on to
\* `next'.
Enter(t, next) ==
  /\ op[t] = Idle /\ Calls < MaxCalls
  /\ ros_allocation_attempts' = InjectionCount(next.domain)
  /\ IF Inject(next.domain)
     THEN injected' = injected + 1 /\ UNCHANGED op
     ELSE op' = [op EXCEPT ![t] = next] /\ UNCHANGED injected
  /\ UNCHANGED <<heap, metrics>>

-----------------------------------------------------------------------------
Allocate(t, domain, size, asked) ==
  /\ Enter(t, [Idle EXCEPT !.at = "malloc", !.domain = domain,
                           !.size = size, !.asked = asked])
  /\ UNCHANGED owned

ros2_zephyr_allocate(t, domain, size) == Allocate(t, domain, size, size)

\* Mutant of ProductFits: one product too many is let through.
ProductFitsWrapped(count, size) == size # 0 => count <= SizeMax \div size + 1

ProductFits(count, size) == size # 0 => count <= SizeMax \div size

\* ros2_zephyr_zero_allocate: a product that overflows size_t returns NULL.
ros2_zephyr_zero_allocate(t, domain, count, size) ==
  /\ ProductFits(count, size)
  /\ Allocate(t, domain, Wrapped(count * size), count * size)

\* The heap call of allocate, and the header.
AllocateHeap(t) ==
  /\ op[t].at = "malloc"
  /\ \/ op' = [op EXCEPT ![t] = Idle] /\ UNCHANGED heap
     \/ \E b \in Block \ DOMAIN heap :
          LET pool == PoolFor(op[t].domain, op[t].size)
          IN  /\ heap' = With(b, [size |-> op[t].size, pool |-> pool,
                                  from |-> pool,
                                  bytes |-> BlockSize(op[t].size),
                                  asked |-> op[t].asked,
                                  domain |-> op[t].domain])
              /\ op' = [op EXCEPT ![t].at = "add", ![t].new = b]
  /\ UNCHANGED <<metrics, ros_allocation_attempts, owned, injected>>

AllocateAdd(t) ==
  /\ op[t].at = "add"
  /\ metrics' = Charged(op[t].domain, 0, op[t].size)
  /\ owned' = owned \cup {op[t].new}
  /\ op' = [op EXCEPT ![t] = Idle]
  /\ UNCHANGED <<heap, ros_allocation_attempts, injected>>

\* ros2_zephyr_deallocate up to the heap call; NULL changes nothing.
ros2_zephyr_deallocate(t, b) ==
  /\ op[t] = Idle
  /\ LET d == heap[b].domain
     IN  /\ metrics' = [metrics EXCEPT
                          ![d].frees = @ + 1,
                          ![d].live_bytes = Wrapped(@ - heap[b].size)]
         /\ op' = [op EXCEPT ![t] = [Idle EXCEPT !.at = "free", !.domain = d,
                                                 !.old = b]]
  /\ owned' = owned \ {b}
  /\ UNCHANGED <<heap, ros_allocation_attempts, injected>>

DeallocateFree(t) ==
  /\ op[t].at = "free"
  /\ heap' = Without(op[t].old)
  /\ op' = [op EXCEPT ![t] = Idle]
  /\ UNCHANGED <<metrics, ros_allocation_attempts, owned, injected>>

\* ros2_zephyr_reallocate of a block; of NULL it is ros2_zephyr_allocate.
ros2_zephyr_reallocate(t, b, size) ==
  /\ Enter(t, [at |-> "realloc", domain |-> heap[b].domain, size |-> size,
               asked |-> size, old_size |-> heap[b].size, old |-> b, new |-> None])
  /\ owned' = IF Inject(heap[b].domain) THEN owned ELSE owned \ {b}

\* Mutant of RealPool: the heap is chosen by the size the block had.
RealPoolOld(t) == PoolFor(op[t].domain, op[t].old_size)

RealPool(t) == PoolFor(op[t].domain, op[t].size)

\* The heap call of reallocate.  In one heap the block is resized, perhaps
\* elsewhere, with its header; across heaps there is a second block, whose
\* header nothing reads before ReallocateAccount writes it.
ReallocateHeap(t) ==
  /\ op[t].at = "realloc"
  /\ LET old  == op[t].old
         same == heap[old].pool = RealPool(t)
         size == BlockSize(op[t].size)
     IN  \/ /\ op' = [op EXCEPT ![t] = Idle]
            /\ owned' = owned \cup {old}
            /\ UNCHANGED heap
         \/ \E b \in (Block \ DOMAIN heap) \cup {old} :
              /\ same
              /\ heap' = [c \in (DOMAIN heap \ {old}) \cup {b} |->
                            IF c = b THEN [heap[old] EXCEPT !.bytes = size]
                            ELSE heap[c]]
              /\ op' = [op EXCEPT ![t].at = "reaccount", ![t].old = None,
                                  ![t].new = b]
              /\ UNCHANGED owned
         \/ \E b \in Block \ DOMAIN heap :
              /\ ~same
              /\ heap' = With(b, [size |-> 0, pool |-> "internal",
                                  from |-> RealPool(t), bytes |-> size,
                                  asked |-> op[t].asked,
                                  domain |-> op[t].domain])
              /\ op' = [op EXCEPT ![t].at = "move", ![t].new = b]
              /\ UNCHANGED owned
  /\ UNCHANGED <<metrics, ros_allocation_attempts, injected>>

\* Mutant of ReallocateMove: the old block is not freed.
ReallocateMoveLeaks(t) ==
  /\ op[t].at = "move"
  /\ op' = [op EXCEPT ![t].at = "reaccount", ![t].old = None]
  /\ UNCHANGED <<heap, metrics, ros_allocation_attempts, owned, injected>>

\* The contents are copied and the old block is freed.
ReallocateMove(t) ==
  /\ op[t].at = "move"
  /\ heap' = Without(op[t].old)
  /\ op' = [op EXCEPT ![t].at = "reaccount", ![t].old = None]
  /\ UNCHANGED <<metrics, ros_allocation_attempts, owned, injected>>

\* Mutant of SizeReplaced: the size the block had stays charged.
SizeReplacedNone(t) == 0

SizeReplaced(t) == op[t].old_size

\* The accounting of reallocate and the new header.
ReallocateAccount(t) ==
  /\ op[t].at = "reaccount"
  /\ metrics' = Charged(op[t].domain, SizeReplaced(t), op[t].size)
  /\ heap' = [heap EXCEPT ![op[t].new].size = op[t].size,
                          ![op[t].new].asked = op[t].asked,
                          ![op[t].new].pool = RealPool(t)]
  /\ owned' = owned \cup {op[t].new}
  /\ op' = [op EXCEPT ![t] = Idle]
  /\ UNCHANGED <<ros_allocation_attempts, injected>>

\* Callers pass only pointers that they own.
Next ==
  \E t \in Thread :
    \/ \E d \in Domain, n \in Size : ros2_zephyr_allocate(t, d, n)
    \/ \E d \in Domain, c \in Count, n \in Size :
         ros2_zephyr_zero_allocate(t, d, c, n)
    \/ \E b \in owned : ros2_zephyr_deallocate(t, b)
    \/ \E b \in owned, n \in Size : ros2_zephyr_reallocate(t, b, n)
    \/ AllocateHeap(t) \/ AllocateAdd(t) \/ DeallocateFree(t)
    \/ ReallocateHeap(t) \/ ReallocateMove(t) \/ ReallocateAccount(t)

Init ==
  /\ heap = [b \in {} |-> None]
  /\ metrics = [d \in Domain |-> [calls |-> 0, frees |-> 0, live_bytes |-> 0,
                                  high_water_bytes |-> 0]]
  /\ ros_allocation_attempts = 0 /\ injected = 0
  /\ op = [t \in Thread |-> Idle]
  /\ owned = {}

Spec == Init /\ [][Next]_vars

-----------------------------------------------------------------------------
(***************************************************************************)
(* Properties.                                                             *)
(***************************************************************************)

\* live_bytes of a domain is the size of the blocks that its callers hold
\* and of those being reallocated, whatever else is in progress: no update
\* is lost, and as long as these sizes add up to a size_t the unsigned
\* subtraction never wraps.
LiveBytesExact ==
  \A d \in Domain :
    LET held  == [b \in owned |->
                    IF heap[b].domain = d THEN heap[b].size ELSE 0]
        moved == [t \in Thread |->
                    IF op[t].domain = d THEN op[t].old_size ELSE 0]
    IN  metrics[d].live_bytes = Wrapped(SumFunction(held) + SumFunction(moved))

\* Every block of the heaps is held by one caller or by one call in progress:
\* a reallocation that fails keeps the old block, one that moves frees it,
\* and no pointer outlives its block.
HeapIsOwned ==
  LET working(t) == {op[t].old, op[t].new} \ {None}
  IN  /\ DOMAIN heap = owned \cup UNION {working(t) : t \in Thread}
      /\ \A t \in Thread : working(t) \cap owned = {}
      /\ \A t, u \in Thread : t # u => working(t) \cap working(u) = {}

\* The header of a held block names the heap that the block came from, which
\* is the one deallocate gives it back to, and its size as last requested;
\* and the block has room for its header and for what its caller asked for:
\* no product of zero_allocate is handed out wrapped.  The room is missing
\* only where sizeof(header) + size itself wraps, a request that neither
\* allocate nor reallocate refuses.
HeaderIsTrue ==
  \A b \in owned :
    /\ heap[b].pool = heap[b].from
    /\ heap[b].pool = PoolFor(heap[b].domain, heap[b].size)
    /\ heap[b].size >= heap[b].asked
    /\ \/ heap[b].bytes = HeaderSize + heap[b].size
       \/ HeaderSize + heap[b].size > SizeMax

\* The injected failure hits exactly the chosen attempt of the ROS domain,
\* even when two threads count at once.
InjectedOnce ==
  injected = IF FailAt > 0 /\ ros_allocation_attempts >= FailAt THEN 1 ELSE 0

=============================================================================

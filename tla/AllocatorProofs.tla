--------------------------- MODULE AllocatorProofs ---------------------------
(***************************************************************************)
(* Every block of the tracked allocator has one owner, the header of a     *)
(* block that a caller holds is true, and live_bytes is exact, for any     *)
(* number of threads, blocks and sizes.                                    *)
(***************************************************************************)
EXTENDS Allocator, FiniteFacts

-----------------------------------------------------------------------------
(***************************************************************************)
(* Ownership.                                                              *)
(***************************************************************************)

\* The blocks that a call of thread t is working on.
Work(t) == {op[t].old, op[t].new} \ {None}

\* HeapIsOwned block by block.
Owned ==
  /\ \A b : b \in DOMAIN heap <=> b \in owned \/ \E t \in Thread : b \in Work(t)
  /\ \A t \in Thread : \A b \in owned : b \notin Work(t)
  /\ \A t, u \in Thread : \A b : b \in Work(t) /\ b \in Work(u) => t = u

LEMMA OwnedIsProperty == Owned => HeapIsOwned
<1> SUFFICES ASSUME Owned PROVE HeapIsOwned
  OBVIOUS
<1>1. DOMAIN heap = owned \cup UNION {Work(t) : t \in Thread}
  <2>1. ASSUME NEW b
        PROVE  b \in UNION {Work(t) : t \in Thread} <=>
                 \E t \in Thread : b \in Work(t)
    OBVIOUS
  <2>2. \A b : b \in DOMAIN heap <=>
                 b \in owned \cup UNION {Work(t) : t \in Thread}
    BY <2>1 DEF Owned
  <2> QED BY <2>2
<1>2. \A t \in Thread : Work(t) \cap owned = {}
  BY Zenon DEF Owned
<1>3. \A t, u \in Thread : t # u => Work(t) \cap Work(u) = {}
  BY Zenon DEF Owned
<1> QED BY Zenon, <1>1, <1>2, <1>3 DEF HeapIsOwned, Work

\* Thread t alone moves blocks between the callers, its own call and the heap.
\* What it and the callers have afterwards they had before, or it was free.
LEMMA OwnedTransfer ==
  ASSUME Owned, NEW t \in Thread,
         \A u \in Thread \ {t} : Work(u)' = Work(u),
         \A b \in owned' : b \notin Work(t)',
         \A b \in owned' \cup Work(t)' :
           b \in owned \cup Work(t) \/ b \notin DOMAIN heap,
         \A b : b \in DOMAIN heap' <=>
                  \/ b \in owned' \cup Work(t)'
                  \/ b \in DOMAIN heap /\ b \notin owned \cup Work(t)
  PROVE  Owned'
<1>1. \A u \in Thread \ {t} : \A b \in Work(u) :
        b \in DOMAIN heap /\ b \notin owned /\ b \notin Work(t)
  BY Zenon DEF Owned
<1>2. \A u \in Thread \ {t} : \A b \in Work(u) :
        b \notin owned' /\ b \notin Work(t)'
  BY Zenon, <1>1
<1>3. ASSUME NEW b
      PROVE  b \in DOMAIN heap' <=>
               b \in owned' \/ \E u \in Thread : b \in Work(u)'
  <2>1. b \in DOMAIN heap /\ b \notin owned \cup Work(t) <=>
          \E u \in Thread \ {t} : b \in Work(u)
    BY Zenon, <1>1 DEF Owned
  <2> QED BY Zenon, <2>1
<1>4. ASSUME NEW u \in Thread, NEW b \in owned' PROVE b \notin Work(u)'
  BY Zenon, <1>2
<1>5. ASSUME NEW u \in Thread, NEW v \in Thread, NEW b,
             b \in Work(u)', b \in Work(v)'
      PROVE  u = v
  <2>1. CASE u # t /\ v # t
    <3>1. Work(u)' = Work(u) /\ Work(v)' = Work(v)
      BY <2>1
    <3>2. b \in Work(u) /\ b \in Work(v)
      BY Zenon, <1>5, <3>1
    <3> QED BY Zenon, <3>2 DEF Owned
  <2>2. CASE u = t \/ v = t
    BY Zenon, <1>2, <1>5, <2>2
  <2> QED BY <2>1, <2>2
<1> QED BY Zenon, <1>3, <1>4, <1>5 DEF Owned

-----------------------------------------------------------------------------
(***************************************************************************)
(* The arithmetic of size_t.                                               *)
(***************************************************************************)

\* Zero is the only multiple of m between -m and m.
LEMMA NoSmallMultiple ==
  ASSUME NEW m \in Nat \ {0}, NEW d \in Int, m * d < m, m * d > -m
  PROVE  d = 0
<1>1. d >= 1 => m * d >= m
  OBVIOUS
<1>2. d <= -1 => m * d <= -m
  OBVIOUS
<1> QED BY <1>1, <1>2

\* Multiples of the modulus do not count.
LEMMA ModMultiple ==
  ASSUME NEW m \in Nat \ {0}, NEW x \in Int, NEW k \in Int
  PROVE  (x + k * m) % m = x % m
<1> DEFINE y == x + k * m
           q == x \div m
           p == y \div m
           d == p - q - k
<1>0. k * m \in Int
  OBVIOUS
<1>1. y \in Int /\ q \in Int /\ p \in Int /\ d \in Int
  BY <1>0
<1>2. x = m * q + (x % m) /\ x % m \in 0..m - 1
  OBVIOUS
<1>3. y = m * p + (y % m) /\ y % m \in 0..m - 1
  BY <1>1
<1>4. m * d = (x % m) - (y % m)
  <2>1. m * d = m * p - m * q - m * k
    BY <1>1
  <2> QED BY <1>1, <1>2, <1>3, <2>1
<1>5. d = 0
  BY <1>1, <1>2, <1>3, <1>4, NoSmallMultiple
<1> QED BY <1>1, <1>2, <1>3, <1>4, <1>5

LEMMA WrappedIs ==
  ASSUME NEW n \in Int
  PROVE  /\ Wrapped(n) \in 0..SizeMax
         /\ n \in 0..SizeMax => Wrapped(n) = n
BY AllocatorAssumption DEF Wrapped

\* It makes no difference whether a number wraps before something is added.
LEMMA WrappedSum ==
  ASSUME NEW n \in Int, NEW k \in Int
  PROVE  Wrapped(Wrapped(n) + k) = Wrapped(n + k)
<1> DEFINE m == SizeMax + 1
           q == n \div m
<1>1. m \in Nat \ {0}
  BY AllocatorAssumption
<1> HIDE DEF m
<1>2. q \in Int /\ n % m \in Int /\ n = m * q + (n % m)
  BY <1>1
<1>3. n + k = (n % m) + k + q * m
  BY <1>1, <1>2
<1>4. (n % m) + k \in Int
  BY <1>2
<1>5. ((n % m) + k + q * m) % m = ((n % m) + k) % m
  BY ONLY <1>1, <1>2, <1>4, ModMultiple
<1> QED BY <1>3, <1>5 DEF Wrapped, m

\* A request has all its bytes unless sizeof(header) + size wraps.
LEMMA BlockSizeIs ==
  ASSUME NEW n \in Nat
  PROVE  /\ BlockSize(n) \in Nat
         /\ BlockSize(n) = HeaderSize + n \/ HeaderSize + n > SizeMax
<1>1. HeaderSize + n \in Nat /\ SizeMax \in Nat
  BY AllocatorAssumption
<1> QED BY <1>1, WrappedIs DEF BlockSize

-----------------------------------------------------------------------------
(***************************************************************************)
(* The inductive invariant.                                                *)
(***************************************************************************)

Header == [size : Nat, pool : Pool, from : Pool, bytes : Nat, asked : Nat,
           domain : Domain]

Op == [at : {"idle", "malloc", "add", "free", "realloc", "move", "reaccount"},
       domain : Domain \cup {None}, size : Nat, asked : Nat, old_size : Nat,
       old : Block \cup {None}, new : Block \cup {None}]

Typed ==
  /\ DOMAIN heap \subseteq Block /\ heap \in [DOMAIN heap -> Header]
  /\ op \in [Thread -> Op]

\* Which blocks a call has in hand.
Shape(t) ==
  /\ op[t].at \in {"idle", "malloc", "add", "reaccount"} <=> op[t].old = None
  /\ op[t].at \in {"idle", "malloc", "free", "realloc"} <=> op[t].new = None
  /\ op[t].at = "move" => op[t].old # op[t].new
  /\ op[t].at # "idle" => op[t].domain \in Domain

\* The header of block b is true.
True(b) ==
  /\ heap[b].pool = heap[b].from
  /\ heap[b].pool = PoolFor(heap[b].domain, heap[b].size)
  /\ heap[b].bytes = BlockSize(heap[b].size)
  /\ heap[b].size >= heap[b].asked

\* A block that allocate has made, or that reallocate may give back, has a
\* true header; the one that reallocate will return is in the right heap and
\* has the bytes that the header is going to state.
Sound(t) ==
  /\ op[t].at \in {"malloc", "realloc", "move", "reaccount"} =>
       op[t].size >= op[t].asked
  /\ op[t].at = "add" => True(op[t].new)
  /\ op[t].at = "realloc" =>
       True(op[t].old) /\ heap[op[t].old].domain = op[t].domain
  /\ op[t].at \in {"move", "reaccount"} =>
       /\ heap[op[t].new].from = RealPool(t)
       /\ heap[op[t].new].bytes = BlockSize(op[t].size)
       /\ heap[op[t].new].domain = op[t].domain

Inv ==
  /\ Typed /\ Owned
  /\ \A t \in Thread : Shape(t) /\ Sound(t)
  /\ \A b \in owned : True(b)

LEMMA InvIsProperty == ASSUME Inv PROVE HeapIsOwned /\ HeaderIsTrue
<1>1. ASSUME NEW b \in owned
      PROVE  \/ heap[b].bytes = HeaderSize + heap[b].size
             \/ HeaderSize + heap[b].size > SizeMax
  <2>1. heap[b].bytes = BlockSize(heap[b].size) /\ heap[b].size \in Nat
    BY DEF Inv, Owned, Typed, Header, True
  <2> QED BY <2>1, BlockSizeIs
<1> QED BY <1>1, OwnedIsProperty DEF Inv, HeaderIsTrue, True

LEMMA InvInit == Init => Inv
<1> SUFFICES ASSUME Init PROVE Inv
  OBVIOUS
<1>1. \A t \in Thread : op[t] = Idle
  BY DEF Init
<1>2. Typed
  BY DEF Init, Idle, None, Typed, Op, Header
<1>3. Owned
  <2>1. \A t \in Thread : Work(t) = {}
    BY <1>1 DEF Work, Idle
  <2> QED BY <2>1 DEF Init, Owned
<1>4. \A t \in Thread : Shape(t) /\ Sound(t)
  BY <1>1 DEF Idle, Shape, Sound
<1> QED BY <1>2, <1>3, <1>4 DEF Init, Inv

\* A step of t touches only blocks of t: it is enough to look at t.
LEMMA LocalStep ==
  ASSUME Inv, NEW t \in Thread, Typed',
         \A u \in Thread \ {t} : op'[u] = op[u],
         \A b \in DOMAIN heap : b \notin Work(t) => heap'[b] = heap[b],
         Shape(t)', Sound(t)',
         \A b \in owned' : b \in owned \/ True(b)',
         \A b \in owned' : b \notin Work(t)',
         \A b \in owned' \cup Work(t)' :
           b \in owned \cup Work(t) \/ b \notin DOMAIN heap,
         \A b : b \in DOMAIN heap' <=>
                  \/ b \in owned' \cup Work(t)'
                  \/ b \in DOMAIN heap /\ b \notin owned \cup Work(t)
  PROVE  Inv'
<1>1. Owned'
  <2>1. \A u \in Thread \ {t} : Work(u)' = Work(u)
    BY DEF Work
  <2>2. Owned
    BY DEF Inv
  <2> QED BY <2>1, <2>2, OwnedTransfer
<1>2. \A u \in Thread \ {t} : \A b \in Work(u) : heap'[b] = heap[b]
  BY Zenon DEF Inv, Owned
<1>3. ASSUME NEW u \in Thread \ {t} PROVE Shape(u)' /\ Sound(u)'
  <2>1. Shape(u) /\ Sound(u) /\ op'[u] = op[u]
    BY DEF Inv
  <2>2. op[u].old # None => heap'[op[u].old] = heap[op[u].old]
    BY Zenon, <1>2 DEF Work
  <2>3. op[u].new # None => heap'[op[u].new] = heap[op[u].new]
    BY Zenon, <1>2 DEF Work
  <2>4. Shape(u)'
    BY SMTT(60), <2>1 DEF Shape
  <2>5. op[u].at = "add" => True(op[u].new)'
    <3>1. op[u].at = "add" => op[u].new # None /\ True(op[u].new)
      BY <2>1 DEF Shape, Sound
    <3> QED BY Zenon, <2>1, <2>3, <3>1 DEF True, PoolFor
  <2>6. op[u].at = "realloc" =>
          True(op[u].old)' /\ heap'[op[u].old].domain = op[u].domain
    <3>1. op[u].at = "realloc" =>
            /\ op[u].old # None /\ True(op[u].old)
            /\ heap[op[u].old].domain = op[u].domain
      BY <2>1 DEF Shape, Sound
    <3> QED BY Zenon, <2>1, <2>2, <3>1 DEF True, PoolFor
  <2>7. op[u].at \in {"move", "reaccount"} =>
          op[u].new # None /\ heap'[op[u].new] = heap[op[u].new]
    BY <2>1, <2>3 DEF Shape
  <2>8. Sound(u)'
    BY Zenon, <2>1, <2>5, <2>6, <2>7 DEF Sound, RealPool, PoolFor
  <2> QED BY <2>4, <2>8
<1>4. \A b \in owned : heap'[b] = heap[b] /\ True(b)
  BY Zenon DEF Inv, Owned
<1>5. \A b \in owned' : True(b)'
  BY <1>4 DEF True, PoolFor
<1> QED BY <1>1, <1>3, <1>5 DEF Inv

-----------------------------------------------------------------------------
(***************************************************************************)
(* The steps.                                                              *)
(***************************************************************************)

\* The product that ros2_zephyr_zero_allocate lets through does not wrap.
LEMMA ProductIsExact ==
  ASSUME NEW c \in Count, NEW n \in Size, ProductFits(c, n)
  PROVE  c * n \in Nat /\ Wrapped(c * n) = c * n
<1>1. c \in Nat /\ n \in Nat /\ SizeMax \in Nat
  BY AllocatorAssumption
<1>2. c * n <= SizeMax
  <2>1. CASE n = 0
    BY <1>1, <2>1
  <2>2. CASE n # 0
    <3>1. PICK q \in Nat : q = SizeMax \div n
      BY <1>1, <2>2
    <3>2. q * n <= SizeMax
      BY <1>1, <2>2, <3>1
    <3>3. c * n <= q * n
      BY <1>1, <2>2, <3>1 DEF ProductFits
    <3> QED BY <1>1, <3>1, <3>2, <3>3
  <2> QED BY <2>1, <2>2
<1>3. c * n \in Nat
  BY <1>1
<1> QED BY <1>1, <1>2, <1>3, WrappedIs

LEMMA UnchangedStep ==
  ASSUME Inv, UNCHANGED <<heap, op, owned>>
  PROVE  Inv'
<1>1. \A t \in Thread : /\ Work(t)' = Work(t) /\ (Shape(t) => Shape(t)')
                        /\ RealPool(t)' = RealPool(t)
  BY DEF Work, Shape, RealPool
<1>2. \A b : True(b)' <=> True(b)
  BY DEF True, PoolFor
<1>3. \A t \in Thread : Sound(t) => Sound(t)'
  BY Zenon, <1>1, <1>2 DEF Sound
<1>4. Typed' /\ (Owned => Owned')
  BY <1>1 DEF Inv, Typed, Owned
<1> QED BY Zenon, <1>1, <1>2, <1>3, <1>4 DEF Inv

\* Replacing what t does.
LEMMA OpSet ==
  ASSUME Typed, NEW t \in Thread, NEW o \in Op, op' = [op EXCEPT ![t] = o]
  PROVE  /\ op'[t] = o /\ op' \in [Thread -> Op]
         /\ \A u \in Thread \ {t} : op'[u] = op[u]
BY DEF Typed

LEMMA IdleIsOp == Idle \in Op
BY DEF Idle, Op, None

\* A call of allocate or zero_allocate.
LEMMA AllocateStep ==
  ASSUME Inv, NEW t \in Thread, NEW d \in Domain, NEW size \in Nat,
         Allocate(t, d, size, size)
  PROVE  Inv'
<1> DEFINE next == [Idle EXCEPT !.at = "malloc", !.domain = d,
                                !.size = size, !.asked = size]
<1>1. CASE UNCHANGED op
  BY <1>1, UnchangedStep DEF Allocate, Enter
<1>2. CASE op' = [op EXCEPT ![t] = next]
  <2>1. next \in Op
    BY Zenon DEF Idle, Op, None
  <2>2. op[t] = Idle /\ UNCHANGED <<heap, owned>>
    BY DEF Allocate, Enter
  <2>3. Typed
    BY DEF Inv
  <2> HIDE DEF next
  <2>4. /\ op'[t] = next /\ op' \in [Thread -> Op]
        /\ \A u \in Thread \ {t} : op'[u] = op[u]
    BY Zenon, <1>2, <2>1, <2>3, OpSet
  <2>5. Typed'
    BY <2>2, <2>3, <2>4 DEF Typed
  <2>6. /\ next.at = "malloc" /\ next.old = None /\ next.new = None
        /\ next.size = size /\ next.asked = size /\ next.domain = d
    BY DEF next, Idle
  <2>7. Work(t) = {} /\ Work(t)' = {}
    BY <2>2, <2>4, <2>6 DEF Work, Idle
  <2>8. Shape(t)' /\ Sound(t)'
    BY <2>4, <2>6 DEF Shape, Sound
  <2>9. owned \subseteq DOMAIN heap
    BY DEF Inv, Owned
  <2> QED BY <2>2, <2>4, <2>5, <2>7, <2>8, <2>9, LocalStep
<1> QED BY <1>1, <1>2 DEF Allocate, Enter

\* t is idle afterwards, and what it had in hand belongs to its caller, whose
\* header is true, or is gone.
LEMMA IdleStep ==
  ASSUME Inv, NEW t \in Thread, op' = [op EXCEPT ![t] = Idle],
         DOMAIN heap' \subseteq Block, heap' \in [DOMAIN heap' -> Header],
         \A b \in DOMAIN heap : b \notin Work(t) => heap'[b] = heap[b],
         NEW kept \in SUBSET Work(t), owned' = owned \cup kept,
         DOMAIN heap' = DOMAIN heap \ (Work(t) \ kept),
         \A b \in kept : True(b)'
  PROVE  Inv'
<1>1. Typed
  BY DEF Inv
<1>2. /\ op'[t] = Idle /\ op' \in [Thread -> Op]
      /\ \A u \in Thread \ {t} : op'[u] = op[u]
  BY Zenon, <1>1, OpSet, IdleIsOp
<1>3. Typed'
  BY <1>1, <1>2 DEF Typed
<1>4. Work(t)' = {}
  BY <1>2 DEF Work, Idle
<1>5. Shape(t)' /\ Sound(t)'
  BY <1>2 DEF Idle, Shape, Sound
<1>6. /\ \A b \in owned \cup Work(t) : b \in DOMAIN heap
      /\ \A b \in owned : b \notin Work(t)
  BY Zenon DEF Inv, Owned
<1>7. \A b \in owned' : b \in owned \/ True(b)'
  BY Zenon
<1>8. \A b : b \in DOMAIN heap' <=>
               \/ b \in owned' \cup Work(t)'
               \/ b \in DOMAIN heap /\ b \notin owned \cup Work(t)
  BY <1>4, <1>6
<1>9. \A b \in owned' \cup Work(t)' :
        b \in owned \cup Work(t) \/ b \notin DOMAIN heap
  BY <1>4
<1> QED BY <1>2, <1>3, <1>4, <1>5, <1>7, <1>8, <1>9, LocalStep

LEMMA AllocateHeapStep ==
  ASSUME Inv, NEW t \in Thread, AllocateHeap(t)
  PROVE  Inv'
<1>i. Typed /\ Shape(t) /\ Sound(t) /\ op[t].at = "malloc" /\ op[t] \in Op
  BY DEF Inv, AllocateHeap, Typed
<1>w. Work(t) = {}
  BY <1>i DEF Shape, Work
<1>1. CASE op' = [op EXCEPT ![t] = Idle] /\ UNCHANGED heap
  <2>1. owned' = owned \cup {}
    BY DEF AllocateHeap
  <2> QED BY Zenon, <1>1, <1>i, <1>w, <2>1, IdleStep DEF Typed
<1>2. ASSUME NEW b \in Block \ DOMAIN heap, NEW pool, NEW block,
             pool = PoolFor(op[t].domain, op[t].size),
             block = [size |-> op[t].size, pool |-> pool, from |-> pool,
                      bytes |-> BlockSize(op[t].size),
                      asked |-> op[t].asked, domain |-> op[t].domain],
             heap' = With(b, block),
             op' = [op EXCEPT ![t].at = "add", ![t].new = b]
      PROVE  Inv'
  <2> DEFINE o == [op[t] EXCEPT !.at = "add", !.new = b]
  <2>1. o \in Op /\ op' = [op EXCEPT ![t] = o]
    BY ZenonT(60), <1>2, <1>i DEF Op, Typed
  <2>2. o.at = "add" /\ o.old = None /\ o.new = b /\ o.domain = op[t].domain
    BY <1>i DEF Op, Shape
  <2>3. b # None
    BY AllocatorAssumption DEF None
  <2> HIDE DEF o
  <2>4. /\ op'[t] = o /\ op' \in [Thread -> Op]
        /\ \A u \in Thread \ {t} : op'[u] = op[u]
    BY Zenon, <1>i, <2>1, OpSet
  <2>5. block \in Header
    <3>1. BlockSize(op[t].size) \in Nat
      BY <1>i, BlockSizeIs DEF Op
    <3> QED BY <1>2, <1>i, <3>1 DEF Op, Header, Shape, PoolFor, Pool
  <2>6. /\ DOMAIN heap' = DOMAIN heap \cup {b} /\ heap'[b] = block
        /\ \A c \in DOMAIN heap : heap'[c] = heap[c]
        /\ heap' \in [DOMAIN heap' -> Header]
    BY <1>2, <1>i, <2>5 DEF With, Typed
  <2>7. Typed'
    BY <1>i, <2>4, <2>6 DEF Typed
  <2>8. Work(t)' = {b}
    BY <2>2, <2>3, <2>4 DEF Work
  <2>9. True(b)'
    <3>1. /\ heap'[b].size = op[t].size /\ heap'[b].asked = op[t].asked
          /\ heap'[b].pool = pool /\ heap'[b].from = pool
          /\ heap'[b].bytes = BlockSize(op[t].size)
          /\ heap'[b].domain = op[t].domain
      BY <1>2, <2>6
    <3>2. op[t].size >= op[t].asked
      BY <1>i DEF Sound
    <3> QED BY ZenonT(60), <1>2, <3>1, <3>2 DEF True, PoolFor
  <2>10. Shape(t)' /\ Sound(t)'
    BY <1>i, <2>2, <2>3, <2>4, <2>9 DEF Shape, Sound
  <2>11. owned \subseteq DOMAIN heap /\ owned' = owned
    BY DEF Inv, Owned, AllocateHeap
  <2> QED BY <1>w, <2>4, <2>6, <2>7, <2>8, <2>10, <2>11, LocalStep
<1> QED BY <1>1, <1>2 DEF AllocateHeap

LEMMA AllocateAddStep ==
  ASSUME Inv, NEW t \in Thread, AllocateAdd(t)
  PROVE  Inv'
<1>1. Typed /\ Shape(t) /\ Sound(t) /\ op[t].at = "add"
  BY DEF Inv, AllocateAdd
<1>2. Work(t) = {op[t].new}
  BY <1>1 DEF Shape, Work
<1>3. /\ heap' = heap /\ owned' = owned \cup {op[t].new}
      /\ op' = [op EXCEPT ![t] = Idle]
  BY DEF AllocateAdd
<1>4. True(op[t].new)
  BY <1>1 DEF Sound
<1>5. \A b \in Work(t) : True(b)'
  BY Zenon, <1>2, <1>3, <1>4 DEF True, PoolFor
<1> QED BY Zenon, <1>1, <1>2, <1>3, <1>5, IdleStep DEF Typed

LEMMA DeallocateFreeStep ==
  ASSUME Inv, NEW t \in Thread, DeallocateFree(t)
  PROVE  Inv'
<1>1. Typed /\ Shape(t) /\ op[t].at = "free"
  BY DEF Inv, DeallocateFree
<1>2. Work(t) = {op[t].old}
  BY <1>1 DEF Shape, Work
<1>3. /\ heap' = Without(op[t].old) /\ owned' = owned \cup {}
      /\ op' = [op EXCEPT ![t] = Idle]
  BY DEF DeallocateFree
<1>4. /\ DOMAIN heap' = DOMAIN heap \ {op[t].old}
      /\ \A b \in DOMAIN heap' : heap'[b] = heap[b]
      /\ heap' \in [DOMAIN heap' -> Header]
  BY <1>1, <1>3 DEF Without, Typed
<1>5. DOMAIN heap' = DOMAIN heap \ (Work(t) \ {})
  BY <1>2, <1>4
<1>6. \A b \in DOMAIN heap : b \notin Work(t) => heap'[b] = heap[b]
  BY <1>2, <1>4
<1>7. DOMAIN heap' \subseteq Block
  BY <1>1, <1>4 DEF Typed
<1>8. {} \in SUBSET Work(t) /\ \A b \in {} : True(b)'
  OBVIOUS
<1> QED BY Zenon, <1>3, <1>4, <1>5, <1>6, <1>7, <1>8, IdleStep

\* The callers' part of deallocate and reallocate: block b becomes t's.
LEMMA TakeStep ==
  ASSUME Inv, NEW t \in Thread, NEW b \in owned, NEW o \in Op, op[t] = Idle,
         op' = [op EXCEPT ![t] = o], heap' = heap, owned' = owned \ {b},
         o.old = b, o.new = None, o.domain = heap[b].domain,
         \/ o.at = "free"
         \/ o.at = "realloc" /\ o.size >= o.asked
  PROVE  Inv'
<1>1. Typed /\ True(b)
  BY DEF Inv
<1>2. /\ op'[t] = o /\ op' \in [Thread -> Op]
      /\ \A u \in Thread \ {t} : op'[u] = op[u]
  BY Zenon, <1>1, OpSet
<1>3. Typed'
  BY <1>1, <1>2 DEF Typed
<1>4. owned \subseteq DOMAIN heap
  BY DEF Inv, Owned
<1>5. b # None /\ heap[b].domain \in Domain
  BY <1>1, <1>4, AllocatorAssumption DEF None, Typed, Header
<1>6. Work(t) = {} /\ Work(t)' = {b}
  BY <1>2, <1>5 DEF Work, Idle
<1>7. Shape(t)'
  BY <1>2, <1>5 DEF Shape
<1>8. Sound(t)'
  BY Zenon, <1>1, <1>2 DEF Sound, True, PoolFor
<1> QED BY <1>2, <1>3, <1>4, <1>6, <1>7, <1>8, LocalStep

LEMMA DeallocateStep ==
  ASSUME Inv, NEW t \in Thread, NEW b \in owned, ros2_zephyr_deallocate(t, b)
  PROVE  Inv'
<1> DEFINE o == [Idle EXCEPT !.at = "free", !.domain = heap[b].domain,
                             !.old = b]
<1>1. b \in Block /\ heap[b].domain \in Domain
  BY DEF Inv, Owned, Typed, Header
<1>2. o \in Op
  BY Zenon, <1>1 DEF Op, Idle, None
<1>3. o.old = b /\ o.new = None /\ o.domain = heap[b].domain /\ o.at = "free"
  BY DEF Idle
<1>4. /\ op[t] = Idle /\ op' = [op EXCEPT ![t] = o] /\ heap' = heap
      /\ owned' = owned \ {b}
  BY DEF ros2_zephyr_deallocate
<1> HIDE DEF o
<1> QED BY Zenon, <1>2, <1>3, <1>4, TakeStep

LEMMA ReallocateStep ==
  ASSUME Inv, NEW t \in Thread, NEW b \in owned, NEW size \in Size,
         ros2_zephyr_reallocate(t, b, size)
  PROVE  Inv'
<1> DEFINE o == [at |-> "realloc", domain |-> heap[b].domain, size |-> size,
                 asked |-> size, old_size |-> heap[b].size, old |-> b,
                 new |-> None]
<1>1. b \in Block /\ heap[b] \in Header /\ size \in Nat
  BY AllocatorAssumption DEF Inv, Owned, Typed
<1>2. o \in Op
  BY <1>1 DEF Op, Header
<1>3. /\ o.old = b /\ o.new = None /\ o.domain = heap[b].domain
      /\ o.at = "realloc" /\ o.size >= o.asked
  BY <1>1
<1>4. CASE Inject(heap[b].domain)
  BY <1>4, UnchangedStep DEF ros2_zephyr_reallocate, Enter
<1>5. CASE ~Inject(heap[b].domain)
  <2>1. /\ op[t] = Idle /\ op' = [op EXCEPT ![t] = o] /\ heap' = heap
        /\ owned' = owned \ {b}
    BY <1>5 DEF ros2_zephyr_reallocate, Enter
  <2> HIDE DEF o
  <2> QED BY ZenonT(60), <1>2, <1>3, <2>1, TakeStep
<1> QED BY <1>4, <1>5

LEMMA ReallocateHeapStep ==
  ASSUME Inv, NEW t \in Thread, ReallocateHeap(t)
  PROVE  Inv'
<1> DEFINE old  == op[t].old
           size == BlockSize(op[t].size)
<1>i. Typed /\ Shape(t) /\ Sound(t) /\ op[t].at = "realloc" /\ op[t] \in Op
  BY DEF Inv, ReallocateHeap, Typed
<1>w. Work(t) = {old} /\ old \in Block /\ op[t].domain \in Domain
  BY <1>i DEF Shape, Work, Op
<1>h. /\ old \in DOMAIN heap /\ old \notin owned /\ owned \subseteq DOMAIN heap
      /\ heap[old] \in Header
  BY <1>i, <1>w DEF Inv, Owned, Typed
<1>s. /\ True(old) /\ heap[old].domain = op[t].domain
      /\ op[t].size >= op[t].asked /\ size \in Nat
  BY <1>i, BlockSizeIs DEF Sound, Op
<1> HIDE DEF old, size
<1>1. CASE /\ op' = [op EXCEPT ![t] = Idle] /\ owned' = owned \cup {old}
           /\ UNCHANGED heap
  <2>1. \A b \in {old} : True(b)'
    BY ZenonT(60), <1>1, <1>s DEF True, PoolFor
  <2>2. /\ {old} \in SUBSET Work(t)
        /\ DOMAIN heap' = DOMAIN heap \ (Work(t) \ {old})
    BY <1>1, <1>w
  <2>3. DOMAIN heap' \subseteq Block /\ heap' \in [DOMAIN heap' -> Header]
    BY <1>1, <1>i DEF Typed
  <2> QED BY Zenon, <1>1, <2>1, <2>2, <2>3, IdleStep
<1>2. ASSUME NEW b \in (Block \ DOMAIN heap) \cup {old},
             heap[old].pool = RealPool(t),
             heap' = [c \in (DOMAIN heap \ {old}) \cup {b} |->
                        IF c = b THEN [heap[old] EXCEPT !.bytes = size]
                        ELSE heap[c]],
             op' = [op EXCEPT ![t].at = "reaccount", ![t].old = None,
                              ![t].new = b],
             UNCHANGED owned
      PROVE  Inv'
  <2> DEFINE o == [op[t] EXCEPT !.at = "reaccount", !.old = None, !.new = b]
             block == [heap[old] EXCEPT !.bytes = size]
  <2>1. o \in Op /\ op' = [op EXCEPT ![t] = o]
    BY ZenonT(60), <1>2, <1>i, <1>w DEF Op, Typed
  <2>2. /\ o.at = "reaccount" /\ o.old = None /\ o.new = b
        /\ o.domain = op[t].domain /\ o.size = op[t].size
        /\ o.asked = op[t].asked
    BY <1>i DEF Op
  <2>3. b # None /\ b \in Block
    BY <1>w, AllocatorAssumption DEF None
  <2>4. block \in Header /\ block.bytes = size
        /\ block.from = heap[old].from /\ block.domain = heap[old].domain
    BY <1>h, <1>s DEF Header
  <2>5. /\ DOMAIN heap' = (DOMAIN heap \ {old}) \cup {b}
        /\ heap'[b] = block
        /\ \A c \in DOMAIN heap : c # old => heap'[c] = heap[c]
    BY <1>2, <1>h
  <2> HIDE DEF o, block
  <2>6. heap' \in [DOMAIN heap' -> Header]
    BY <1>2, <1>i, <2>4, <2>5 DEF Typed, block
  <2>7. /\ op'[t] = o /\ op' \in [Thread -> Op]
        /\ \A u \in Thread \ {t} : op'[u] = op[u]
    BY ZenonT(60), <1>i, <2>1, OpSet
  <2>8. Typed'
    BY <1>i, <2>3, <2>5, <2>6, <2>7 DEF Typed
  <2>9. Work(t)' = {b}
    BY <2>2, <2>3, <2>7 DEF Work
  <2>10. Shape(t)'
    BY <1>w, <2>2, <2>3, <2>7 DEF Shape
  <2>11. Sound(t)'
    <3>1. heap[old].from = PoolFor(op[t].domain, op[t].size)
      BY <1>2, <1>s DEF True, RealPool
    <3> QED BY <1>s, <2>2, <2>4, <2>5, <2>7, <3>1
            DEF Sound, RealPool, PoolFor, size
  <2> QED BY <1>2, <1>w, <1>h, <2>5, <2>7, <2>8, <2>9, <2>10, <2>11, LocalStep
<1>3. ASSUME NEW b \in Block \ DOMAIN heap,
             heap' = With(b, [size |-> 0, pool |-> "internal",
                              from |-> RealPool(t), bytes |-> size,
                              asked |-> op[t].asked,
                              domain |-> op[t].domain]),
             op' = [op EXCEPT ![t].at = "move", ![t].new = b],
             UNCHANGED owned
      PROVE  Inv'
  <2> DEFINE o == [op[t] EXCEPT !.at = "move", !.new = b]
             block == [size |-> 0, pool |-> "internal",
                       from |-> RealPool(t), bytes |-> size,
                       asked |-> op[t].asked, domain |-> op[t].domain]
  <2>1. o \in Op /\ op' = [op EXCEPT ![t] = o]
    BY ZenonT(60), <1>3, <1>i DEF Op, Typed
  <2>2. /\ o.at = "move" /\ o.old = old /\ o.new = b
        /\ o.domain = op[t].domain /\ o.size = op[t].size
        /\ o.asked = op[t].asked
    BY <1>i DEF Op, old
  <2>3. b # None /\ old # None /\ b # old
    BY <1>w, <1>h, AllocatorAssumption DEF None
  <2>4. /\ block \in Header /\ block.bytes = size
        /\ block.from = PoolFor(op[t].domain, op[t].size)
        /\ block.domain = op[t].domain
    BY <1>i, <1>w, <1>s DEF Header, Op, Pool, RealPool, PoolFor
  <2>5. heap' = With(b, block)
    BY <1>3
  <2> HIDE DEF o, block
  <2>6. /\ DOMAIN heap' = DOMAIN heap \cup {b} /\ heap'[b] = block
        /\ \A c \in DOMAIN heap : heap'[c] = heap[c]
        /\ heap' \in [DOMAIN heap' -> Header]
    BY <1>i, <2>4, <2>5 DEF With, Typed
  <2>7. /\ op'[t] = o /\ op' \in [Thread -> Op]
        /\ \A u \in Thread \ {t} : op'[u] = op[u]
    BY ZenonT(60), <1>i, <2>1, OpSet
  <2>8. Typed'
    BY <1>i, <2>6, <2>7 DEF Typed
  <2>9. Work(t)' = {old, b}
    BY <2>2, <2>3, <2>7 DEF Work
  <2>10. Shape(t)'
    BY <1>w, <2>2, <2>3, <2>7 DEF Shape
  <2>11. Sound(t)'
    BY <1>s, <2>2, <2>4, <2>6, <2>7 DEF Sound, RealPool, PoolFor, size
  <2> QED BY <1>3, <1>w, <1>h, <2>6, <2>7, <2>8, <2>9, <2>10, <2>11, LocalStep
<1> QED BY Zenon, <1>1, <1>2, <1>3 DEF ReallocateHeap, old, size

LEMMA ReallocateMoveStep ==
  ASSUME Inv, NEW t \in Thread, ReallocateMove(t)
  PROVE  Inv'
<1> DEFINE old == op[t].old
           new == op[t].new
           o   == [op[t] EXCEPT !.at = "reaccount", !.old = None]
<1>1. Typed /\ Shape(t) /\ Sound(t) /\ op[t].at = "move" /\ op[t] \in Op
  BY DEF Inv, ReallocateMove, Typed
<1>2. /\ Work(t) = {old, new} /\ old # new /\ new # None
      /\ op[t].domain \in Domain
  BY <1>1 DEF Shape, Work
<1>3. new \in DOMAIN heap /\ owned \subseteq DOMAIN heap
      /\ old \notin owned /\ new \notin owned
  BY <1>2 DEF Inv, Owned
<1>4. o \in Op /\ op' = [op EXCEPT ![t] = o]
  BY Zenon, <1>1 DEF Op, Typed, ReallocateMove
<1>5. /\ o.at = "reaccount" /\ o.old = None /\ o.new = new
      /\ o.domain = op[t].domain /\ o.size = op[t].size
      /\ o.asked = op[t].asked
  BY <1>1 DEF Op
<1>6. heap' = Without(old) /\ owned' = owned
  BY DEF ReallocateMove
<1> HIDE DEF old, new, o
<1>7. /\ op'[t] = o /\ op' \in [Thread -> Op]
      /\ \A u \in Thread \ {t} : op'[u] = op[u]
  BY ZenonT(60), <1>1, <1>4, OpSet
<1>8. /\ DOMAIN heap' = DOMAIN heap \ {old}
      /\ \A b \in DOMAIN heap' : heap'[b] = heap[b]
      /\ heap' \in [DOMAIN heap' -> Header]
  BY <1>1, <1>6 DEF Without, Typed
<1>9. Typed'
  BY <1>1, <1>7, <1>8 DEF Typed
<1>10. Work(t)' = {new}
  BY <1>2, <1>5, <1>7 DEF Work
<1>11. Shape(t)'
  BY <1>2, <1>5, <1>7 DEF Shape
<1>12. Sound(t)'
  <2>1. heap'[new] = heap[new]
    BY SMTT(60), <1>2, <1>3, <1>8
  <2>2. /\ heap[new].from = PoolFor(op[t].domain, op[t].size)
        /\ heap[new].bytes = BlockSize(op[t].size)
        /\ heap[new].domain = op[t].domain /\ op[t].size >= op[t].asked
    BY Zenon, <1>1 DEF Sound, RealPool, new
  <2> QED BY <1>5, <1>7, <2>1, <2>2 DEF Sound, RealPool, PoolFor
<1> QED BY <1>2, <1>3, <1>6, <1>7, <1>8, <1>9, <1>10, <1>11, <1>12, LocalStep

LEMMA ReallocateAccountStep ==
  ASSUME Inv, NEW t \in Thread, ReallocateAccount(t)
  PROVE  Inv'
<1> DEFINE pool == PoolFor(op[t].domain, op[t].size)
<1>n. PICK new : new = op[t].new
  OBVIOUS
<1>1. Typed /\ Shape(t) /\ Sound(t) /\ op[t].at = "reaccount" /\ op[t] \in Op
  BY DEF Inv, ReallocateAccount, Typed
<1>2. Work(t) = {new}
  BY <1>1, <1>n DEF Shape, Work
<1>3. new \in DOMAIN heap /\ heap[new] \in Header
  BY <1>1, <1>2 DEF Inv, Owned, Typed
<1>4. /\ heap' = [heap EXCEPT ![new].size = op[t].size,
                              ![new].asked = op[t].asked,
                              ![new].pool = pool]
      /\ owned' = owned \cup {new} /\ op' = [op EXCEPT ![t] = Idle]
  BY Zenon, <1>n DEF ReallocateAccount, RealPool
<1>5. /\ heap[new].from = pool /\ heap[new].bytes = BlockSize(op[t].size)
      /\ heap[new].domain = op[t].domain /\ op[t].size >= op[t].asked
  BY Zenon, <1>1, <1>n DEF Sound, RealPool
<1>6. op[t].size \in Nat /\ op[t].asked \in Nat /\ pool \in Pool
  BY <1>1 DEF Op, PoolFor, Pool
<1> HIDE DEF pool
<1>7. /\ DOMAIN heap' = DOMAIN heap
      /\ \A b \in DOMAIN heap : b # new => heap'[b] = heap[b]
      /\ heap'[new] = [heap[new] EXCEPT !.size = op[t].size,
                                        !.asked = op[t].asked, !.pool = pool]
  BY <1>1, <1>3, <1>4 DEF Typed, Header
<1>8. heap'[new] \in Header
  BY ZenonT(60), <1>3, <1>6, <1>7 DEF Header
<1>9. heap' \in [DOMAIN heap' -> Header]
  BY ZenonT(60), <1>1, <1>4, <1>7, <1>8 DEF Typed
<1>10. True(new)'
  <2>1. /\ heap'[new].size = op[t].size /\ heap'[new].asked = op[t].asked
        /\ heap'[new].pool = pool /\ heap'[new].from = pool
        /\ heap'[new].bytes = BlockSize(op[t].size)
        /\ heap'[new].domain = op[t].domain
    BY <1>3, <1>5, <1>7 DEF Header
  <2> QED BY <1>5, <2>1 DEF True, PoolFor, pool
<1>11. \A b \in {new} : True(b)'
  BY <1>10
<1>12. /\ {new} \in SUBSET Work(t)
       /\ DOMAIN heap' = DOMAIN heap \ (Work(t) \ {new})
  BY <1>2, <1>7
<1>13. \A b \in DOMAIN heap : b \notin Work(t) => heap'[b] = heap[b]
  BY <1>2, <1>7
<1>14. DOMAIN heap' \subseteq Block
  BY <1>1, <1>7 DEF Typed
<1> QED BY Zenon, <1>4, <1>9, <1>11, <1>12, <1>13, <1>14, IdleStep

LEMMA InvNext == ASSUME Inv, [Next]_vars PROVE Inv'
<1>1. CASE UNCHANGED vars
  BY <1>1, UnchangedStep DEF vars
<1>2. ASSUME NEW t \in Thread, NEW d \in Domain, NEW n \in Size,
             ros2_zephyr_allocate(t, d, n)
      PROVE  Inv'
  BY <1>2, AllocateStep, AllocatorAssumption DEF ros2_zephyr_allocate
<1>3. ASSUME NEW t \in Thread, NEW d \in Domain, NEW c \in Count,
             NEW n \in Size, ros2_zephyr_zero_allocate(t, d, c, n)
      PROVE  Inv'
  BY <1>3, AllocateStep, ProductIsExact DEF ros2_zephyr_zero_allocate
<1> QED
  BY <1>1, <1>2, <1>3, DeallocateStep, ReallocateStep, AllocateHeapStep,
     AllocateAddStep, DeallocateFreeStep, ReallocateHeapStep,
     ReallocateMoveStep, ReallocateAccountStep DEF Next

-----------------------------------------------------------------------------
(***************************************************************************)
(* The accounting.                                                         *)
(***************************************************************************)

\* What a held block, and a call in progress, count for in domain d.
Weight(b, d) == IF heap[b].domain = d THEN heap[b].size ELSE 0

Pending(t, d) == IF op[t].domain = d THEN op[t].old_size ELSE 0

Held(d) == [b \in owned |-> Weight(b, d)]

Moved(d) == [t \in Thread |-> Pending(t, d)]

Total(d) == SumFunction(Held(d)) + SumFunction(Moved(d))

\* A reallocation remembers the size that its block is charged with until the
\* block is charged with the new one; no other call remembers a size.
Charge(t) ==
  /\ op[t].at = "realloc" => heap[op[t].old].size = op[t].old_size
  /\ op[t].at \in {"idle", "malloc", "add", "free"} => op[t].old_size = 0
  /\ op[t].at = "add" => /\ heap[op[t].new].size = op[t].size
                         /\ heap[op[t].new].domain = op[t].domain

Books ==
  /\ metrics \in [Domain -> Metrics]
  /\ IsFiniteSet(owned)
  /\ \A t \in Thread : Charge(t)
  /\ \A d \in Domain : metrics[d].live_bytes = Wrapped(Total(d))

LEMMA BooksAreExact == Books => LiveBytesExact
BY DEF Books, LiveBytesExact, Total, Held, Moved, Weight, Pending

LEMMA LiveIsInt ==
  ASSUME metrics \in [Domain -> Metrics], NEW d \in Domain
  PROVE  metrics[d].live_bytes \in 0..SizeMax /\ metrics[d].live_bytes \in Int
BY AllocatorAssumption DEF Metrics

LEMMA SameLive ==
  ASSUME metrics \in [Domain -> Metrics], NEW d \in Domain
  PROVE  metrics[d].live_bytes = Wrapped(metrics[d].live_bytes + 0)
<1>1. metrics[d].live_bytes + 0 = metrics[d].live_bytes
  BY LiveIsInt
<1> QED BY Zenon, <1>1, LiveIsInt, WrappedIs

\* The functions that are summed.
LEMMA HeldType ==
  ASSUME Inv, NEW d
  PROVE  DOMAIN Held(d) = owned /\ Held(d) \in [DOMAIN Held(d) -> Nat]
<1>1. \A b \in owned : heap[b] \in Header
  BY DEF Inv, Owned, Typed
<1>2. \A b \in owned : Weight(b, d) \in Nat
  BY <1>1 DEF Weight, Header
<1> QED BY <1>2 DEF Held

LEMMA MovedType ==
  ASSUME Inv, NEW d
  PROVE  /\ DOMAIN Moved(d) = Thread /\ Moved(d) \in [DOMAIN Moved(d) -> Nat]
         /\ IsFiniteSet(DOMAIN Moved(d))
<1>1. \A t \in Thread : op[t] \in Op
  BY DEF Inv, Typed
<1>2. \A t \in Thread : Pending(t, d) \in Nat
  BY <1>1 DEF Pending, Op
<1>3. IsFiniteSet(Thread)
  BY AllocatorAssumption
<1> QED BY <1>2, <1>3 DEF Moved

\* A step of t changes the part of t in the sum over the calls.
LEMMA MovedStep ==
  ASSUME Inv, Inv', NEW t \in Thread, NEW d,
         \A u \in Thread \ {t} : op'[u] = op[u]
  PROVE  SumFunction(Moved(d)') =
           SumFunction(Moved(d)) - Pending(t, d) + Pending(t, d)'
<1>1. \A u \in Thread : u # t => Moved(d)'[u] = Moved(d)[u]
  BY DEF Moved, Pending
<1>2. Moved(d)[t] = Pending(t, d) /\ Moved(d)'[t] = Pending(t, d)'
  BY DEF Moved
<1>3. /\ DOMAIN Moved(d) = Thread /\ Moved(d) \in [DOMAIN Moved(d) -> Int]
      /\ IsFiniteSet(DOMAIN Moved(d))
  BY MovedType
<1>4. DOMAIN Moved(d)' = Thread /\ Moved(d)' \in [DOMAIN Moved(d)' -> Int]
  BY DEF Inv, Typed, Moved, Pending, Op
<1> QED BY <1>1, <1>2, <1>3, <1>4, SumChange

LEMMA HeldSame ==
  ASSUME owned' = owned, \A b \in owned : heap'[b] = heap[b], NEW d
  PROVE  Held(d)' = Held(d)
BY DEF Held, Weight

\* A caller gives up a block, or receives one.
LEMMA HeldLoses ==
  ASSUME Inv, Inv', IsFiniteSet(owned), NEW b \in owned, NEW d,
         owned' = owned \ {b}, \A c \in owned' : heap'[c] = heap[c]
  PROVE  /\ IsFiniteSet(owned')
         /\ SumFunction(Held(d)') = SumFunction(Held(d)) - Weight(b, d)
<1>1. DOMAIN Held(d) = owned /\ Held(d) \in [DOMAIN Held(d) -> Int]
  BY HeldType
<1>2. Held(d)' = [c \in owned \ {b} |-> Held(d)[c]] /\ Held(d)[b] = Weight(b, d)
  BY DEF Held, Weight
<1>3. /\ DOMAIN Held(d)' = owned \ {b}
      /\ Held(d)' \in [DOMAIN Held(d)' -> Int]
      /\ \A c \in DOMAIN Held(d)' : Held(d)'[c] = Held(d)[c]
  BY <1>1, <1>2
<1>4. IsFiniteSet(owned')
  BY FS_Subset
<1>5. SumFunction(Held(d)) = Held(d)[b] + SumFunction(Held(d)')
  BY <1>1, <1>3, SumRemove
<1>6. SumFunction(Held(d)') \in Int /\ Held(d)[b] \in Int
  BY <1>1, <1>3, <1>4, SumType
<1> QED BY <1>2, <1>4, <1>5, <1>6

LEMMA HeldGains ==
  ASSUME Inv, Inv', IsFiniteSet(owned), NEW b, b \notin owned, NEW d,
         owned' = owned \cup {b}, \A c \in owned : heap'[c] = heap[c]
  PROVE  /\ IsFiniteSet(owned')
         /\ SumFunction(Held(d)') = SumFunction(Held(d)) + Weight(b, d)'
<1>1. DOMAIN Held(d) = owned /\ Held(d) \in [DOMAIN Held(d) -> Int]
  BY HeldType
<1>2. heap'[b] \in Header
  BY DEF Inv, Owned, Typed
<1>3. Weight(b, d)' \in Int
  BY <1>2 DEF Weight, Header
<1>4. /\ DOMAIN Held(d)' = owned \cup {b}
      /\ Held(d)'[b] = Weight(b, d)'
      /\ \A c \in owned : Held(d)'[c] = Held(d)[c]
  BY DEF Held, Weight
<1>5. Held(d)' \in [DOMAIN Held(d)' -> Int]
  <2>1. Held(d)' = [c \in owned' |-> Weight(c, d)']
    BY DEF Held
  <2>2. \A c \in owned' : Weight(c, d)' \in Int
    <3>1. \A c \in owned : Weight(c, d)' = Held(d)[c]
      BY DEF Held, Weight
    <3> QED BY <1>1, <1>3, <3>1
  <2> QED BY <2>1, <2>2
<1>6. IsFiniteSet(owned')
  BY FS_AddElement
<1>7. SumFunction(Held(d)') = Held(d)'[b] + SumFunction(Held(d))
  <2>1. DOMAIN Held(d) = DOMAIN Held(d)' \ {b} /\ b \in DOMAIN Held(d)'
    BY <1>1, <1>4
  <2>2. IsFiniteSet(DOMAIN Held(d)')
    BY <1>4, <1>6
  <2> QED BY <1>1, <1>4, <1>5, <2>1, <2>2, SumRemove
<1>8. SumFunction(Held(d)) \in Int
  BY <1>1, SumType
<1> QED BY <1>3, <1>4, <1>6, <1>7, <1>8

\* What metrics_add and the end of reallocate write.
LEMMA ChargedIs ==
  ASSUME metrics \in [Domain -> Metrics], NEW e \in Domain, NEW old \in Nat,
         NEW size \in Nat
  PROVE  /\ Charged(e, old, size) \in [Domain -> Metrics]
         /\ \A d \in Domain :
              Charged(e, old, size)[d].live_bytes =
                Wrapped(metrics[d].live_bytes + (IF d = e THEN size - old ELSE 0))
<1> DEFINE m == metrics[e]
           live == Wrapped(m.live_bytes - old + size)
           n == [m EXCEPT !.calls = @ + 1, !.live_bytes = live,
                          !.high_water_bytes = IF live > @ THEN live ELSE @]
<1>1. \A d \in Domain : metrics[d] \in Metrics
  OBVIOUS
<1>2. m \in Metrics /\ m.live_bytes \in Int
  BY <1>1, LiveIsInt
<1>3. live \in 0..SizeMax /\ live = Wrapped(m.live_bytes + (size - old))
  <2>1. /\ m.live_bytes - old + size \in Int
        /\ m.live_bytes - old + size = m.live_bytes + (size - old)
    BY <1>2
  <2> QED BY Zenon, <2>1, WrappedIs
<1>4. n \in Metrics /\ n.live_bytes = live
  <2> DEFINE calls == m.calls + 1
             high  == IF live > m.high_water_bytes THEN live
                      ELSE m.high_water_bytes
  <2>1. calls \in Nat
    BY <1>2 DEF Metrics
  <2>2. high \in 0..SizeMax
    BY Zenon, <1>2, <1>3 DEF Metrics
  <2>3. n = [m EXCEPT !.calls = calls, !.live_bytes = live,
                      !.high_water_bytes = high]
    BY Zenon
  <2> HIDE DEF n, m, live, calls, high
  <2> QED BY ZenonT(60), <1>2, <1>3, <2>1, <2>2, <2>3 DEF Metrics
<1>5. Charged(e, old, size) = [metrics EXCEPT ![e] = n]
  BY DEF Charged
<1> HIDE DEF n, live
<1>6. \A d \in Domain : Charged(e, old, size)[d] = IF d = e THEN n ELSE metrics[d]
  BY <1>5
<1>7. Charged(e, old, size) \in [Domain -> Metrics]
  BY <1>4, <1>5
<1>8. ASSUME NEW d \in Domain
      PROVE  Charged(e, old, size)[d].live_bytes =
               Wrapped(metrics[d].live_bytes + (IF d = e THEN size - old ELSE 0))
  <2>1. CASE d = e
    BY Zenon, <1>3, <1>4, <1>6, <2>1
  <2>2. CASE d # e
    <3>1. Charged(e, old, size)[d] = metrics[d]
      BY Zenon, <1>6, <2>2
    <3> QED BY Zenon, <2>2, <3>1, SameLive
  <2> QED BY <2>1, <2>2
<1> QED BY <1>7, <1>8

\* A step of t keeps the books when it changes live_bytes as it changes what
\* the callers and t hold.
LEMMA BooksStep ==
  ASSUME Inv, Inv', Books, NEW t \in Thread,
         \A u \in Thread \ {t} : op'[u] = op[u],
         \A b \in DOMAIN heap : b \notin Work(t) => heap'[b] = heap[b],
         Charge(t)', metrics' \in [Domain -> Metrics], IsFiniteSet(owned'),
         \A d \in Domain :
           metrics'[d].live_bytes =
             Wrapped(metrics[d].live_bytes +
               (SumFunction(Held(d)') - SumFunction(Held(d))
                  + Pending(t, d)' - Pending(t, d)))
  PROVE  Books'
<1>1. ASSUME NEW u \in Thread PROVE Charge(u)'
  <2>1. CASE u = t
    BY <2>1
  <2>2. CASE u # t
    <3>1. Charge(u) /\ Shape(u) /\ op'[u] = op[u]
      BY Zenon, <2>2 DEF Books, Inv
    <3>2. \A b \in Work(u) : heap'[b] = heap[b]
      BY Zenon, <2>2 DEF Inv, Owned
    <3>3. op[u].old # None => heap'[op[u].old] = heap[op[u].old]
      BY Zenon, <3>2 DEF Work
    <3>4. op[u].new # None => heap'[op[u].new] = heap[op[u].new]
      BY ZenonT(60), <3>2 DEF Work
    <3> QED BY Zenon, <3>1, <3>3, <3>4 DEF Charge, Shape
  <2> QED BY <2>1, <2>2
<1>2. ASSUME NEW d \in Domain PROVE metrics'[d].live_bytes = Wrapped(Total(d)')
  <2>1. SumFunction(Moved(d)') =
          SumFunction(Moved(d)) - Pending(t, d) + Pending(t, d)'
    BY Zenon, MovedStep
  <2>2. SumFunction(Held(d)) \in Int /\ SumFunction(Held(d)') \in Int
    <3>1. IsFiniteSet(owned)
      BY Zenon DEF Books
    <3>2. DOMAIN Held(d)' = owned' /\ Held(d)' \in [DOMAIN Held(d)' -> Int]
      BY DEF Inv, Owned, Typed, Held, Weight, Header
    <3>3. DOMAIN Held(d) = owned /\ Held(d) \in [DOMAIN Held(d) -> Int]
      BY HeldType
    <3> QED BY SMTT(30), <3>1, <3>2, <3>3, SumType
  <2>3. SumFunction(Moved(d)) \in Int
    BY MovedType, SumType
  <2>4. Pending(t, d) \in Int /\ Pending(t, d)' \in Int
    BY DEF Inv, Typed, Pending, Op
  <2> DEFINE change == SumFunction(Held(d)') - SumFunction(Held(d))
                         + Pending(t, d)' - Pending(t, d)
  <2>5. /\ Total(d) \in Int /\ change \in Int
        /\ Total(d)' = Total(d) + change
    <3>1. /\ Total(d) = SumFunction(Held(d)) + SumFunction(Moved(d))
          /\ Total(d)' = SumFunction(Held(d)') + SumFunction(Moved(d)')
      BY Zenon DEF Total
    <3> QED BY ONLY <2>1, <2>2, <2>3, <2>4, <3>1
  <2>6. /\ metrics[d].live_bytes = Wrapped(Total(d))
        /\ metrics'[d].live_bytes = Wrapped(metrics[d].live_bytes + change)
    BY Zenon DEF Books
  <2> HIDE DEF change
  <2>7. Wrapped(Wrapped(Total(d)) + change) = Wrapped(Total(d) + change)
    BY Zenon, <2>5, WrappedSum
  <2> QED BY Zenon, <2>5, <2>6, <2>7
<1> QED BY <1>1, <1>2 DEF Books

LEMMA BooksInit == ASSUME Init PROVE Books
<1>1. Inv
  BY InvInit
<1>2. metrics \in [Domain -> Metrics]
      /\ \A d \in Domain : metrics[d].live_bytes = 0
  BY AllocatorAssumption DEF Init, Metrics
<1>3. owned = {} /\ IsFiniteSet(owned)
  BY FS_EmptySet DEF Init
<1>4. \A t \in Thread : op[t] = Idle
  BY DEF Init
<1>5. \A t \in Thread : Charge(t)
  BY <1>4 DEF Charge, Idle
<1>6. ASSUME NEW d \in Domain PROVE Total(d) = 0
  <2>1. SumFunction(Held(d)) = 0
    BY <1>1, <1>3, HeldType, SumEmpty
  <2>2. \A t \in Thread : Moved(d)[t] = 0
    BY <1>4 DEF Moved, Pending, Idle
  <2>3. SumFunction(Moved(d)) = 0
    BY <1>1, <2>2, MovedType, SumZero
  <2> QED BY <2>1, <2>3 DEF Total
<1>7. Wrapped(0) = 0
  BY WrappedIs, AllocatorAssumption
<1> QED BY <1>2, <1>3, <1>5, <1>6, <1>7 DEF Books

\* A step of t that moves no block to or from a caller and charges nothing.
LEMMA BooksQuiet ==
  ASSUME Inv, Inv', Books, NEW t \in Thread, NEW o, op' = [op EXCEPT ![t] = o],
         \A b \in DOMAIN heap : b \notin Work(t) => heap'[b] = heap[b],
         Charge(t)', metrics' = metrics, owned' = owned,
         o.old_size = op[t].old_size,
         o.domain = op[t].domain \/ op[t].old_size = 0
  PROVE  Books'
<1>1. op'[t] = o /\ \A u \in Thread \ {t} : op'[u] = op[u]
  BY DEF Inv, Typed
<1>2. \A d : Pending(t, d)' = Pending(t, d)
  BY <1>1 DEF Pending
<1>3. \A b \in owned : b \in DOMAIN heap /\ b \notin Work(t)
  BY Zenon DEF Inv, Owned
<1>4. \A d : Held(d)' = Held(d)
  BY Zenon, <1>3, HeldSame
<1>5. ASSUME NEW d \in Domain
      PROVE  metrics'[d].live_bytes =
               Wrapped(metrics[d].live_bytes +
                 (SumFunction(Held(d)') - SumFunction(Held(d))
                    + Pending(t, d)' - Pending(t, d)))
  <2>1. SumFunction(Held(d)) \in Int
    BY HeldType, SumType DEF Books
  <2>2. Pending(t, d) \in Int
    BY DEF Inv, Typed, Pending, Op
  <2>3. SumFunction(Held(d)') - SumFunction(Held(d))
          + Pending(t, d)' - Pending(t, d) = 0
    BY <1>2, <1>4, <2>1, <2>2
  <2> QED BY Zenon, <2>3, SameLive DEF Books
<1> QED BY Zenon, <1>1, <1>5, BooksStep DEF Books

LEMMA BooksSame ==
  ASSUME Books, UNCHANGED <<heap, metrics, op, owned>> PROVE Books'
BY Zenon DEF Books, Charge, Total, Held, Moved, Weight, Pending

LEMMA AllocateBooks ==
  ASSUME Inv, Inv', Books, NEW t \in Thread, NEW d, NEW size,
         Allocate(t, d, size, size)
  PROVE  Books'
<1> DEFINE o == [Idle EXCEPT !.at = "malloc", !.domain = d,
                             !.size = size, !.asked = size]
<1>1. CASE UNCHANGED op
  BY <1>1, BooksSame DEF Allocate, Enter
<1>2. CASE op' = [op EXCEPT ![t] = o]
  <2>1. op[t] = Idle /\ UNCHANGED <<heap, owned, metrics>>
    BY DEF Allocate, Enter
  <2>2. o.at = "malloc" /\ o.old_size = 0
    BY DEF Idle
  <2> HIDE DEF o
  <2>3. op'[t] = o
    BY <1>2 DEF Inv, Typed
  <2>4. Charge(t)'
    BY <2>2, <2>3 DEF Charge
  <2>5. op[t].old_size = 0
    BY <2>1 DEF Idle
  <2> QED BY ZenonT(60), <1>2, <2>1, <2>2, <2>4, <2>5, BooksQuiet
<1> QED BY <1>1, <1>2 DEF Allocate, Enter

LEMMA AllocateHeapBooks ==
  ASSUME Inv, Inv', Books, NEW t \in Thread, AllocateHeap(t)
  PROVE  Books'
<1>1. /\ op[t].at = "malloc" /\ op[t].old_size = 0 /\ op[t] \in Op
      /\ metrics' = metrics /\ owned' = owned
  BY DEF Inv, Typed, Books, Charge, AllocateHeap
<1>2. CASE op' = [op EXCEPT ![t] = Idle] /\ UNCHANGED heap
  <2>1. op'[t] = Idle /\ Idle.at = "idle" /\ Idle.old_size = 0
    BY <1>2 DEF Inv, Typed, Idle
  <2>2. Charge(t)'
    BY <2>1 DEF Charge
  <2> QED BY ZenonT(60), <1>1, <1>2, <2>1, <2>2, BooksQuiet
<1>3. ASSUME NEW b \in Block \ DOMAIN heap, NEW block,
             block.size = op[t].size, block.domain = op[t].domain,
             heap' = With(b, block),
             op' = [op EXCEPT ![t].at = "add", ![t].new = b]
      PROVE  Books'
  <2> DEFINE o == [op[t] EXCEPT !.at = "add", !.new = b]
  <2>1. op' = [op EXCEPT ![t] = o] /\ op'[t] = o
    BY Zenon, <1>3 DEF Inv, Typed
  <2>2. /\ o.at = "add" /\ o.new = b /\ o.old_size = 0
        /\ o.domain = op[t].domain /\ o.size = op[t].size
    BY <1>1 DEF Op
  <2> HIDE DEF o
  <2>3. heap'[b] = block /\ \A c \in DOMAIN heap : heap'[c] = heap[c]
    BY <1>3 DEF With
  <2>4. Charge(t)'
    BY ZenonT(60), <1>3, <2>1, <2>2, <2>3 DEF Charge
  <2> QED BY ZenonT(60), <1>1, <2>1, <2>2, <2>3, <2>4, BooksQuiet
<1>4. ASSUME NEW b \in Block \ DOMAIN heap, NEW pool,
             heap' = With(b, [size |-> op[t].size, pool |-> pool,
                              from |-> pool, bytes |-> BlockSize(op[t].size),
                              asked |-> op[t].asked, domain |-> op[t].domain]),
             op' = [op EXCEPT ![t].at = "add", ![t].new = b]
      PROVE  Books'
  <2> DEFINE block == [size |-> op[t].size, pool |-> pool,
                       from |-> pool, bytes |-> BlockSize(op[t].size),
                       asked |-> op[t].asked, domain |-> op[t].domain]
  <2>1. block.size = op[t].size /\ block.domain = op[t].domain
    OBVIOUS
  <2>2. heap' = With(b, block)
    BY Zenon, <1>4
  <2> HIDE DEF block
  <2> QED BY Zenon, <1>3, <1>4, <2>1, <2>2
<1> QED BY Zenon, <1>2, <1>4 DEF AllocateHeap

\* The call of t ends and hands block b to its caller.
LEMMA BooksGive ==
  ASSUME Inv, Inv', Books, NEW t \in Thread, NEW b \in Work(t),
         op' = [op EXCEPT ![t] = Idle], owned' = owned \cup {b},
         \A c \in DOMAIN heap : c \notin Work(t) => heap'[c] = heap[c],
         heap'[b].domain = op[t].domain,
         metrics' \in [Domain -> Metrics],
         \A d \in Domain :
           metrics'[d].live_bytes = Wrapped(metrics[d].live_bytes +
             (IF d = op[t].domain THEN heap'[b].size - op[t].old_size ELSE 0))
  PROVE  Books'
<1>1. op'[t] = Idle /\ \A u \in Thread \ {t} : op'[u] = op[u]
  BY DEF Inv, Typed
<1>2. Charge(t)'
  BY <1>1 DEF Charge, Idle
<1>3. \A c \in owned : c \in DOMAIN heap /\ c \notin Work(t)
  BY Zenon DEF Inv, Owned
<1>4. b \notin owned /\ \A c \in owned : heap'[c] = heap[c]
  BY Zenon, <1>3
<1>5. IsFiniteSet(owned)
  BY DEF Books
<1>6. \A d : /\ IsFiniteSet(owned')
             /\ SumFunction(Held(d)') = SumFunction(Held(d)) + Weight(b, d)'
  BY Zenon, <1>4, <1>5, HeldGains
<1>7. heap'[b] \in Header /\ op[t] \in Op
  BY DEF Inv, Owned, Typed
<1>8. ASSUME NEW d \in Domain
      PROVE  metrics'[d].live_bytes =
               Wrapped(metrics[d].live_bytes +
                 (SumFunction(Held(d)') - SumFunction(Held(d))
                    + Pending(t, d)' - Pending(t, d)))
  <2>1. SumFunction(Held(d)) \in Int
    BY <1>5, HeldType, SumType DEF Books
  <2>2. Pending(t, d)' = 0
    BY <1>1 DEF Pending, Idle
  <2>3. Pending(t, d) = (IF d = op[t].domain THEN op[t].old_size ELSE 0)
    BY DEF Pending
  <2>4. Weight(b, d)' = (IF d = op[t].domain THEN heap'[b].size ELSE 0)
    BY DEF Weight
  <2>5. heap'[b].size \in Int /\ op[t].old_size \in Int
    BY <1>7 DEF Header, Op
  <2>6. metrics'[d].live_bytes = Wrapped(metrics[d].live_bytes +
          (IF d = op[t].domain THEN heap'[b].size - op[t].old_size ELSE 0))
    BY Zenon
  <2>7. SumFunction(Held(d)') = SumFunction(Held(d)) + Weight(b, d)'
    BY Zenon, <1>6
  <2>8. (IF d = op[t].domain THEN heap'[b].size - op[t].old_size ELSE 0) =
          SumFunction(Held(d)') - SumFunction(Held(d))
            + Pending(t, d)' - Pending(t, d)
    BY ONLY <2>1, <2>2, <2>3, <2>4, <2>5, <2>7
  <2> QED BY Zenon, <2>6, <2>8
<1>9. IsFiniteSet(owned')
  BY Zenon, <1>6
<1> QED BY ZenonT(60), <1>1, <1>2, <1>8, <1>9, BooksStep

\* A call of t begins and takes block b from its caller.
LEMMA BooksTake ==
  ASSUME Inv, Inv', Books, NEW t \in Thread, NEW b \in owned, NEW o,
         op[t] = Idle, op' = [op EXCEPT ![t] = o], owned' = owned \ {b},
         heap' = heap, o.domain = heap[b].domain, o.old_size \in Nat,
         Charge(t)', metrics' \in [Domain -> Metrics],
         \A d \in Domain :
           metrics'[d].live_bytes = Wrapped(metrics[d].live_bytes +
             (IF d = heap[b].domain THEN o.old_size - heap[b].size ELSE 0))
  PROVE  Books'
<1>1. op'[t] = o /\ \A u \in Thread \ {t} : op'[u] = op[u]
  BY DEF Inv, Typed
<1>2. IsFiniteSet(owned)
  BY Zenon DEF Books
<1>3. \A d : /\ IsFiniteSet(owned')
             /\ SumFunction(Held(d)') = SumFunction(Held(d)) - Weight(b, d)
  BY Zenon, <1>2, HeldLoses
<1>4. heap[b] \in Header
  BY DEF Inv, Owned, Typed
<1>5. ASSUME NEW d \in Domain
      PROVE  metrics'[d].live_bytes =
               Wrapped(metrics[d].live_bytes +
                 (SumFunction(Held(d)') - SumFunction(Held(d))
                    + Pending(t, d)' - Pending(t, d)))
  <2>1. SumFunction(Held(d)) \in Int
    BY SMTT(30), <1>2, HeldType, SumType DEF Books
  <2>2. Pending(t, d) = 0
    <3>1. op[t].old_size = 0
      BY ONLY op[t] = Idle DEF Idle
    <3> QED BY Zenon, <3>1 DEF Pending
  <2>3. Pending(t, d)' = (IF d = heap[b].domain THEN o.old_size ELSE 0)
    BY <1>1 DEF Pending
  <2>4. Weight(b, d) = (IF d = heap[b].domain THEN heap[b].size ELSE 0)
    BY DEF Weight
  <2>5. heap[b].size \in Int
    BY <1>4 DEF Header
  <2>6. metrics'[d].live_bytes = Wrapped(metrics[d].live_bytes +
          (IF d = heap[b].domain THEN o.old_size - heap[b].size ELSE 0))
    BY Zenon
  <2>7. SumFunction(Held(d)') = SumFunction(Held(d)) - Weight(b, d)
    BY Zenon, <1>3
  <2>8. o.old_size \in Nat
    OBVIOUS
  <2>9. (IF d = heap[b].domain THEN o.old_size - heap[b].size ELSE 0) =
          SumFunction(Held(d)') - SumFunction(Held(d))
            + Pending(t, d)' - Pending(t, d)
    BY ONLY <2>1, <2>2, <2>3, <2>4, <2>5, <2>7, <2>8
  <2> QED BY Zenon, <2>6, <2>9
<1>6. IsFiniteSet(owned')
  BY Zenon, <1>3
<1> QED BY ZenonT(60), <1>1, <1>5, <1>6, BooksStep

LEMMA AllocateAddBooks ==
  ASSUME Inv, Inv', Books, NEW t \in Thread, AllocateAdd(t)
  PROVE  Books'
<1>1. op[t].at = "add" /\ op[t] \in Op /\ Shape(t) /\ Charge(t)
  BY DEF Inv, Typed, Books, AllocateAdd
<1>2. /\ op[t].new \in Work(t) /\ op[t].domain \in Domain
      /\ op[t].size \in Nat /\ op[t].old_size = 0
      /\ heap[op[t].new].size = op[t].size
      /\ heap[op[t].new].domain = op[t].domain
  BY Zenon, <1>1 DEF Shape, Charge, Work, Op
<1>3. /\ metrics' = Charged(op[t].domain, 0, op[t].size) /\ heap' = heap
      /\ owned' = owned \cup {op[t].new} /\ op' = [op EXCEPT ![t] = Idle]
  BY DEF AllocateAdd
<1> DEFINE after == Charged(op[t].domain, op[t].old_size, op[t].size)
<1>4. metrics' = after
  BY Zenon, <1>2, <1>3
<1>5. /\ after \in [Domain -> Metrics]
      /\ \A d \in Domain :
           after[d].live_bytes = Wrapped(metrics[d].live_bytes +
             (IF d = op[t].domain THEN op[t].size - op[t].old_size ELSE 0))
  <2>1. metrics \in [Domain -> Metrics]
    BY Zenon DEF Books
  <2>2. op[t].old_size \in Nat
    BY ONLY <1>2
  <2>3. PICK e \in Domain, old \in Nat, size \in Nat :
          e = op[t].domain /\ old = op[t].old_size /\ size = op[t].size
    BY Zenon, <1>2, <2>2
  <2>4. /\ Charged(e, old, size) \in [Domain -> Metrics]
        /\ \A d \in Domain :
             Charged(e, old, size)[d].live_bytes =
               Wrapped(metrics[d].live_bytes + (IF d = e THEN size - old ELSE 0))
    BY ONLY SMTT(30), <2>1, ChargedIs, e \in Domain, old \in Nat, size \in Nat
  <2> QED BY ZenonT(60), <2>3, <2>4
<1> HIDE DEF after
<1>6. /\ metrics' \in [Domain -> Metrics]
      /\ \A d \in Domain :
           metrics'[d].live_bytes = Wrapped(metrics[d].live_bytes +
             (IF d = op[t].domain THEN heap'[op[t].new].size - op[t].old_size
              ELSE 0))
  BY Zenon, <1>2, <1>3, <1>4, <1>5
<1> QED BY Zenon, <1>2, <1>3, <1>6, BooksGive

LEMMA DeallocateBooks ==
  ASSUME Inv, Inv', Books, NEW t \in Thread, NEW b \in owned,
         ros2_zephyr_deallocate(t, b)
  PROVE  Books'
<1> DEFINE e == heap[b].domain
           o == [Idle EXCEPT !.at = "free", !.domain = e, !.old = b]
<1>1. /\ op[t] = Idle /\ op' = [op EXCEPT ![t] = o] /\ heap' = heap
      /\ owned' = owned \ {b}
  BY DEF ros2_zephyr_deallocate
<1>2. metrics' = [metrics EXCEPT ![e].frees = @ + 1,
                                 ![e].live_bytes = Wrapped(@ - heap[b].size)]
  BY DEF ros2_zephyr_deallocate
<1>3. o.domain = e /\ o.old_size = 0 /\ o.at = "free"
  BY DEF Idle
<1>4. e \in Domain /\ heap[b].size \in Nat
  BY DEF Inv, Owned, Typed, Header
<1>5. metrics \in [Domain -> Metrics]
  BY DEF Books
<1> HIDE DEF o, e
<1>6. op'[t] = o
  BY <1>1 DEF Inv, Typed
<1>7. Charge(t)'
  BY <1>3, <1>6 DEF Charge
<1>8. /\ metrics' \in [Domain -> Metrics]
      /\ \A d \in Domain :
           metrics'[d].live_bytes = Wrapped(metrics[d].live_bytes +
             (IF d = e THEN 0 - heap[b].size ELSE 0))
  <2> DEFINE frees == metrics[e].frees + 1
             live  == Wrapped(metrics[e].live_bytes - heap[b].size)
             n     == [metrics[e] EXCEPT !.frees = frees, !.live_bytes = live]
  <2>1. metrics[e] \in Metrics /\ metrics[e].live_bytes \in Int
    BY <1>4, <1>5, LiveIsInt
  <2>2. /\ frees \in Nat /\ live \in 0..SizeMax
        /\ live = Wrapped(metrics[e].live_bytes + (0 - heap[b].size))
    <3>1. frees \in Nat
      BY <2>1 DEF Metrics
    <3>2. /\ metrics[e].live_bytes - heap[b].size \in Int
          /\ metrics[e].live_bytes - heap[b].size =
               metrics[e].live_bytes + (0 - heap[b].size)
      BY <1>4, <2>1
    <3> QED BY Zenon, <3>1, <3>2, WrappedIs
  <2>3. metrics' = [metrics EXCEPT ![e] = n]
    BY ZenonT(60), <1>2, <1>4, <1>5
  <2> HIDE DEF frees, live
  <2>4. n \in Metrics /\ n.live_bytes = live
    BY ZenonT(60), <2>1, <2>2 DEF Metrics
  <2> HIDE DEF n
  <2>5. metrics' \in [Domain -> Metrics]
    BY ZenonT(60), <1>5, <2>3, <2>4
  <2>6. \A d \in Domain : metrics'[d] = IF d = e THEN n ELSE metrics[d]
    BY <1>5, <2>3
  <2>7. ASSUME NEW d \in Domain, d # e
        PROVE  metrics[d].live_bytes = Wrapped(metrics[d].live_bytes + 0)
    BY Zenon, <1>5, SameLive
  <2> QED BY Zenon, <2>2, <2>4, <2>5, <2>6, <2>7
<1>9. \A d \in Domain :
        metrics'[d].live_bytes = Wrapped(metrics[d].live_bytes +
          (IF d = heap[b].domain THEN o.old_size - heap[b].size ELSE 0))
  BY Zenon, <1>3, <1>8 DEF e
<1>10. o.domain = heap[b].domain /\ o.old_size \in Nat
  BY <1>3 DEF e
<1> QED BY Zenon, <1>1, <1>7, <1>8, <1>9, <1>10, BooksTake

LEMMA DeallocateFreeBooks ==
  ASSUME Inv, Inv', Books, NEW t \in Thread, DeallocateFree(t)
  PROVE  Books'
<1>1. op[t].at = "free" /\ Shape(t) /\ op[t].old_size = 0
  BY Zenon DEF Inv, Books, Charge, DeallocateFree
<1>2. /\ heap' = Without(op[t].old) /\ op' = [op EXCEPT ![t] = Idle]
      /\ metrics' = metrics /\ owned' = owned
  BY DEF DeallocateFree
<1>3. op[t].old \in Work(t)
  BY <1>1 DEF Shape, Work
<1>4. \A b \in DOMAIN heap : b \notin Work(t) => heap'[b] = heap[b]
  BY <1>2, <1>3 DEF Without
<1>5. op'[t] = Idle /\ Idle.at = "idle" /\ Idle.old_size = 0
  BY <1>2 DEF Inv, Typed, Idle
<1>6. Charge(t)'
  BY <1>5 DEF Charge
<1> QED BY ZenonT(60), <1>1, <1>2, <1>4, <1>5, <1>6, BooksQuiet

LEMMA ReallocateBooks ==
  ASSUME Inv, Inv', Books, NEW t \in Thread, NEW b \in owned, NEW size,
         ros2_zephyr_reallocate(t, b, size)
  PROVE  Books'
<1> DEFINE o == [at |-> "realloc", domain |-> heap[b].domain, size |-> size,
                 asked |-> size, old_size |-> heap[b].size, old |-> b,
                 new |-> None]
<1>1. CASE Inject(heap[b].domain)
  BY <1>1, BooksSame DEF ros2_zephyr_reallocate, Enter
<1>2. CASE ~Inject(heap[b].domain)
  <2>1. /\ op[t] = Idle /\ op' = [op EXCEPT ![t] = o] /\ heap' = heap
        /\ owned' = owned \ {b} /\ metrics' = metrics
    BY Zenon, <1>2 DEF ros2_zephyr_reallocate, Enter
  <2>2. /\ o.at = "realloc" /\ o.old = b /\ o.old_size = heap[b].size
        /\ o.domain = heap[b].domain
    BY Zenon
  <2> HIDE DEF o
  <2>3. heap[b].size \in Nat /\ metrics' \in [Domain -> Metrics]
    BY <2>1 DEF Inv, Owned, Typed, Header, Books
  <2>4. op'[t] = o
    BY <2>1 DEF Inv, Typed
  <2>5. Charge(t)'
    BY <2>1, <2>2, <2>4 DEF Charge
  <2>6. \A d \in Domain :
          metrics'[d].live_bytes = Wrapped(metrics[d].live_bytes +
            (IF d = heap[b].domain THEN o.old_size - heap[b].size ELSE 0))
    BY <2>1, <2>2, <2>3, SameLive DEF Books
  <2>7. o.old_size \in Nat
    BY <2>2, <2>3
  <2> QED BY ZenonT(60), <2>1, <2>2, <2>3, <2>5, <2>6, <2>7, BooksTake
<1> QED BY <1>1, <1>2

\* Between the heap call and the accounting of a reallocation.
LEMMA HalfwayBooks ==
  ASSUME Inv, Inv', Books, NEW t \in Thread, NEW o,
         op' = [op EXCEPT ![t] = o], o.at \in {"move", "reaccount"},
         o.old_size = op[t].old_size, o.domain = op[t].domain,
         metrics' = metrics, owned' = owned,
         \A b \in DOMAIN heap : b \notin Work(t) => heap'[b] = heap[b]
  PROVE  Books'
<1>1. op'[t] = o
  BY DEF Inv, Typed
<1>2. Charge(t)'
  BY <1>1 DEF Charge
<1> QED BY Zenon, <1>2, BooksQuiet

LEMMA ReallocateHeapBooks ==
  ASSUME Inv, Inv', Books, NEW t \in Thread, ReallocateHeap(t)
  PROVE  Books'
<1>1. /\ op[t].at = "realloc" /\ Shape(t) /\ Sound(t) /\ Charge(t)
      /\ op[t] \in Op /\ metrics' = metrics
  BY DEF Inv, Typed, Books, ReallocateHeap
<1>o. PICK old : old = op[t].old
  BY SMTT(30)
<1>2. /\ old \in Work(t) /\ heap[old].domain = op[t].domain
      /\ heap[old].size = op[t].old_size
  BY Zenon, <1>1, <1>o DEF Shape, Sound, Charge, Work
<1>3. CASE /\ op' = [op EXCEPT ![t] = Idle] /\ owned' = owned \cup {old}
           /\ UNCHANGED heap
  <2>1. metrics' \in [Domain -> Metrics] /\ op[t].old_size \in Int
    <3>1. metrics' \in [Domain -> Metrics]
      BY Zenon, <1>1 DEF Books
    <3>2. op[t].old_size \in Int
      BY ONLY <1>1 DEF Op
    <3> QED BY Zenon, <3>1, <3>2
  <2>2. \A d \in Domain :
          metrics'[d].live_bytes = Wrapped(metrics[d].live_bytes +
            (IF d = op[t].domain THEN heap'[old].size - op[t].old_size ELSE 0))
    BY <1>1, <1>2, <1>3, <2>1, SameLive DEF Books
  <2> QED BY ZenonT(60), <1>2, <1>3, <2>1, <2>2, BooksGive
<1>4. ASSUME NEW b, NEW block,
             heap' = [c \in (DOMAIN heap \ {old}) \cup {b} |->
                        IF c = b THEN block ELSE heap[c]],
             b \notin DOMAIN heap \/ b = old,
             op' = [op EXCEPT ![t].at = "reaccount", ![t].old = None,
                              ![t].new = b],
             UNCHANGED owned
      PROVE  Books'
  <2> DEFINE o == [op[t] EXCEPT !.at = "reaccount", !.old = None, !.new = b]
  <2>1. op' = [op EXCEPT ![t] = o]
    BY Zenon, <1>4 DEF Inv, Typed
  <2>2. /\ o.at = "reaccount" /\ o.old_size = op[t].old_size
        /\ o.domain = op[t].domain
    BY <1>1 DEF Op
  <2>3. \A c \in DOMAIN heap : c \notin Work(t) => heap'[c] = heap[c]
    BY <1>2, <1>4
  <2> HIDE DEF o
  <2> QED BY ZenonT(60), <1>1, <1>4, <2>1, <2>2, <2>3, HalfwayBooks
<1>5. ASSUME NEW b, b \notin DOMAIN heap, NEW block, heap' = With(b, block),
             op' = [op EXCEPT ![t].at = "move", ![t].new = b],
             UNCHANGED owned
      PROVE  Books'
  <2> DEFINE o == [op[t] EXCEPT !.at = "move", !.new = b]
  <2>1. op' = [op EXCEPT ![t] = o]
    BY Zenon, <1>5 DEF Inv, Typed
  <2>2. /\ o.at = "move" /\ o.old_size = op[t].old_size
        /\ o.domain = op[t].domain
    BY <1>1 DEF Op
  <2>3. \A c \in DOMAIN heap : heap'[c] = heap[c]
    BY <1>5 DEF With
  <2>4. metrics' = metrics /\ owned' = owned
    BY <1>1, <1>5
  <2> HIDE DEF o
  <2> QED BY Zenon, <2>1, <2>2, <2>3, <2>4, HalfwayBooks
<1> QED BY Zenon, <1>o, <1>3, <1>4, <1>5 DEF ReallocateHeap

LEMMA ReallocateMoveBooks ==
  ASSUME Inv, Inv', Books, NEW t \in Thread, ReallocateMove(t)
  PROVE  Books'
<1> DEFINE o == [op[t] EXCEPT !.at = "reaccount", !.old = None]
<1>1. op[t].at = "move" /\ op[t] \in Op /\ op[t].old \in Work(t)
  BY DEF Inv, Typed, Shape, Work, ReallocateMove
<1>2. /\ op' = [op EXCEPT ![t] = o] /\ heap' = Without(op[t].old)
      /\ metrics' = metrics /\ owned' = owned
  BY Zenon DEF Inv, Typed, ReallocateMove
<1>3. /\ o.at = "reaccount" /\ o.old_size = op[t].old_size
      /\ o.domain = op[t].domain
  BY <1>1 DEF Op
<1>4. \A b \in DOMAIN heap : b \notin Work(t) => heap'[b] = heap[b]
  BY <1>1, <1>2 DEF Without
<1> HIDE DEF o
<1> QED BY ZenonT(60), <1>2, <1>3, <1>4, HalfwayBooks

LEMMA ReallocateAccountBooks ==
  ASSUME Inv, Inv', Books, NEW t \in Thread, ReallocateAccount(t)
  PROVE  Books'
<1>n. PICK new : new = op[t].new
  OBVIOUS
<1>1. op[t].at = "reaccount" /\ Shape(t) /\ Sound(t) /\ op[t] \in Op
  BY SMTT(30) DEF Inv, Typed, ReallocateAccount
<1>2. /\ new \in Work(t) /\ op[t].domain \in Domain /\ op[t].size \in Nat
      /\ op[t].old_size \in Nat /\ heap[new].domain = op[t].domain
  BY Zenon, <1>1, <1>n DEF Shape, Sound, Work, Op
<1>3. new \in DOMAIN heap /\ heap[new] \in Header
  BY <1>2 DEF Inv, Owned, Typed
<1>4. /\ metrics' = Charged(op[t].domain, op[t].old_size, op[t].size)
      /\ owned' = owned \cup {new} /\ op' = [op EXCEPT ![t] = Idle]
      /\ heap' = [heap EXCEPT ![new].size = op[t].size,
                              ![new].asked = op[t].asked,
                              ![new].pool = RealPool(t)]
  BY Zenon, <1>n DEF ReallocateAccount, SizeReplaced
<1>5. /\ \A b \in DOMAIN heap : b # new => heap'[b] = heap[b]
      /\ heap'[new].size = op[t].size
      /\ heap'[new].domain = heap[new].domain
  BY <1>3, <1>4 DEF Inv, Typed, Header
<1>6. \A b \in DOMAIN heap : b \notin Work(t) => heap'[b] = heap[b]
  BY <1>2, <1>5
<1>7. /\ metrics' \in [Domain -> Metrics]
      /\ \A d \in Domain :
           metrics'[d].live_bytes = Wrapped(metrics[d].live_bytes +
             (IF d = op[t].domain THEN heap'[new].size - op[t].old_size ELSE 0))
  BY SMTT(30), <1>2, <1>4, <1>5, ChargedIs DEF Books
<1>8. heap'[new].domain = op[t].domain
  BY <1>2, <1>5
<1> QED BY ZenonT(60), <1>2, <1>4, <1>6, <1>7, <1>8, BooksGive

LEMMA BooksNext == ASSUME Inv, Books, [Next]_vars PROVE Books'
<1>i. Inv'
  BY InvNext
<1>1. CASE UNCHANGED vars
  BY <1>1, BooksSame DEF vars
<1>2. ASSUME NEW t \in Thread, NEW d \in Domain, NEW n \in Size,
             ros2_zephyr_allocate(t, d, n)
      PROVE  Books'
  BY <1>i, <1>2, AllocateBooks DEF ros2_zephyr_allocate
<1>3. ASSUME NEW t \in Thread, NEW d \in Domain, NEW c \in Count,
             NEW n \in Size, ros2_zephyr_zero_allocate(t, d, c, n)
      PROVE  Books'
  <2>1. Allocate(t, d, c * n, c * n)
    BY <1>3, ProductIsExact DEF ros2_zephyr_zero_allocate
  <2> QED BY Zenon, <1>i, <2>1, AllocateBooks
<1> QED
  BY Zenon, <1>i, <1>1, <1>2, <1>3, DeallocateBooks, ReallocateBooks,
     AllocateHeapBooks, AllocateAddBooks, DeallocateFreeBooks,
     ReallocateHeapBooks, ReallocateMoveBooks, ReallocateAccountBooks DEF Next

-----------------------------------------------------------------------------
\* Every block has one owner, a caller or a call in progress, whatever heap
\* calls fail and however the calls of the threads interleave: nothing leaks
\* and nothing is freed under its holder.
THEOREM Ownership == Spec => []HeapIsOwned
<1>1. Inv => HeapIsOwned
  BY InvIsProperty
<1> QED BY <1>1, InvInit, InvNext, PTL DEF Spec

\* The header of a block that a caller holds states its heap and its size,
\* through every move between the heaps, and the block has room for header and
\* request, for every size_t but those whose sum with the header wraps.
THEOREM TrueHeaders == Spec => []HeaderIsTrue
<1>1. Inv => HeaderIsTrue
  BY InvIsProperty
<1> QED BY <1>1, InvInit, InvNext, PTL DEF Spec

\* Counting the attempts and comparing with the chosen one is a single step
\* of inject_allocation_failure: one attempt fails, and no other.
THEOREM OneInjection == Spec => []InjectedOnce
<1> DEFINE Counted == ros_allocation_attempts \in Nat /\ InjectedOnce
<1>1. Init => Counted
  BY SMTT(60), AllocatorAssumption DEF Init, InjectedOnce
<1>2. ASSUME Counted, [Next]_vars PROVE Counted'
  <2>1. ASSUME NEW t, NEW next, Enter(t, next) PROVE Counted'
    BY <1>2, <2>1, AllocatorAssumption
       DEF Enter, Inject, InjectionCount, InjectedOnce
  <2>2. ASSUME UNCHANGED <<ros_allocation_attempts, injected>>
        PROVE  Counted'
    BY <1>2, <2>2 DEF InjectedOnce
  <2>3. CASE UNCHANGED vars
    BY SMTT(60), <2>2, <2>3 DEF vars
  <2> HIDE DEF Counted
  <2>4. ASSUME NEW t \in Thread,
               \/ \E b \in owned : ros2_zephyr_deallocate(t, b)
               \/ AllocateHeap(t) \/ AllocateAdd(t) \/ DeallocateFree(t)
               \/ ReallocateHeap(t) \/ ReallocateMove(t)
               \/ ReallocateAccount(t)
        PROVE  Counted'
    BY Zenon, <2>2, <2>4 DEF ros2_zephyr_deallocate, AllocateHeap, AllocateAdd,
         DeallocateFree, ReallocateHeap, ReallocateMove, ReallocateAccount
  <2> QED
    BY ZenonT(60), <1>2, <2>1, <2>3, <2>4
       DEF Next, ros2_zephyr_allocate, ros2_zephyr_zero_allocate, Allocate,
           ros2_zephyr_reallocate
<1> QED BY <1>1, <1>2, PTL DEF Spec

\* live_bytes of a domain is exactly what its callers hold and what is being
\* reallocated, whatever the threads are in the middle of, for any number of
\* threads, blocks and sizes; a sum that is no size_t counts modulo 2^w.
THEOREM ExactAccounting == Spec => []LiveBytesExact
<1>1. Init => Inv /\ Books
  BY InvInit, BooksInit
<1>2. Inv /\ Books /\ [Next]_vars => Inv' /\ Books'
  BY InvNext, BooksNext
<1>3. Books => LiveBytesExact
  BY BooksAreExact
<1> QED BY <1>1, <1>2, <1>3, PTL DEF Spec

\* Every field stays in its range, the byte counters in that of size_t.
THEOREM TypeCorrect == Spec => []TypeOK
<1> DEFINE Counters == ros_allocation_attempts \in Nat /\ injected \in Nat
           All == Inv /\ Books /\ Counters
<1>1. Init => All
  BY InvInit, BooksInit DEF Init
<1>2. ASSUME Counters, [Next]_vars PROVE Counters'
  <2>1. ASSUME NEW t, NEW next, Enter(t, next) PROVE Counters'
    BY <1>2, <2>1 DEF Enter, InjectionCount
  <2>2. ASSUME UNCHANGED <<ros_allocation_attempts, injected>>
        PROVE  Counters'
    BY <1>2, <2>2
  <2>3. CASE UNCHANGED vars
    BY SMTT(60), <2>2, <2>3 DEF vars
  <2> HIDE DEF Counters
  <2>4. ASSUME NEW t \in Thread,
               \/ \E b \in owned : ros2_zephyr_deallocate(t, b)
               \/ AllocateHeap(t) \/ AllocateAdd(t) \/ DeallocateFree(t)
               \/ ReallocateHeap(t) \/ ReallocateMove(t)
               \/ ReallocateAccount(t)
        PROVE  Counters'
    BY Zenon, <2>2, <2>4 DEF ros2_zephyr_deallocate, AllocateHeap, AllocateAdd,
         DeallocateFree, ReallocateHeap, ReallocateMove, ReallocateAccount
  <2> QED
    BY ZenonT(60), <1>2, <2>1, <2>3, <2>4
       DEF Next, ros2_zephyr_allocate, ros2_zephyr_zero_allocate, Allocate,
           ros2_zephyr_reallocate
<1>3. All /\ [Next]_vars => All'
  BY <1>2, InvNext, BooksNext
<1>4. ASSUME All PROVE TypeOK
  <2>1. /\ DOMAIN heap \subseteq Block /\ owned \subseteq Block
        /\ \A b \in DOMAIN heap : heap[b] \in Header
        /\ op \in [Thread -> Op]
    BY <1>4 DEF Inv, Typed, Owned
  <2>2. metrics \in [Domain -> Metrics]
    BY <1>4 DEF Books
  <2> QED BY <1>4, <2>1, <2>2 DEF TypeOK, Header, Op
<1> HIDE DEF All
<1> QED BY <1>1, <1>3, <1>4, PTL DEF Spec

=============================================================================

----------------------------- MODULE MCAllocator -----------------------------
(* Allocator with two threads and a few blocks for TLC.                    *)
EXTENDS Allocator, TLC

\* external_threshold: 4096 and 8192 bytes in the code, 2 and 3 here.
MCThreshold == [d \in {"ros", "middleware"} |-> IF d = "ros" THEN 2 ELSE 3]

Symmetry == Permutations(Thread) \cup Permutations(Block)

=============================================================================

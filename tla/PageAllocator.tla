--------------------------- MODULE PageAllocator ---------------------------
(***************************************************************************)
(* What a pmm_manager promises its callers, whatever its policy and its    *)
(* data structures: memory is registered with init_memmap, alloc(k) hands  *)
(* out k contiguous registered pages nobody owns and fails only when there *)
(* are none, free() takes pages back from their owner.                     *)
(***************************************************************************)
EXTENDS Integers

CONSTANTS Pages, Sizes, Null

VARIABLES managed,      \* the registered pages
          held,         \* the pages callers own
          ret           \* the last operation and its result

avars == <<managed, held, ret>>

ARun(a, k) == a .. a + k - 1

Available(a, k) == ARun(a, k) \subseteq managed \ held

AInit ==
    /\ managed = {}
    /\ held = {}
    /\ ret = [op |-> "none", n |-> 0, page |-> Null]

AAddMemory ==
    /\ \E a \in Pages, b \in Pages :
          /\ (a .. b) \cap managed = {}
          /\ managed' = managed \cup (a .. b)
    /\ UNCHANGED <<held, ret>>

AAlloc(k) ==
    /\ \/ \E a \in Pages :
             /\ Available(a, k)
             /\ held' = held \cup ARun(a, k)
             /\ ret' = [op |-> "alloc", n |-> k, page |-> a]
       \/ /\ \A a \in Pages : ~Available(a, k)
          /\ ret' = [op |-> "alloc", n |-> k, page |-> Null]
          /\ UNCHANGED held
    /\ UNCHANGED managed

AFree(a, k) ==
    /\ ARun(a, k) \subseteq held
    /\ held' = held \ ARun(a, k)
    /\ ret' = [op |-> "free", n |-> k, page |-> a]
    /\ UNCHANGED managed

ANext ==
    \/ AAddMemory
    \/ \E k \in Sizes : AAlloc(k)
    \/ \E a \in Pages, k \in Sizes : AFree(a, k)

ASpec == AInit /\ [][ANext]_avars
=============================================================================

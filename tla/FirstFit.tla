------------------------------ MODULE FirstFit ------------------------------
(***************************************************************************)
(* The first-fit physical page manager, kern/mm/pmm_firstfit.c, with the   *)
(* part of kern/mm/pmm.c that feeds it (page_init) and calls it under      *)
(* disabled interrupts (alloc_pages, pages_free).                          *)
(*                                                                         *)
(* A page descriptor is named by its index in the array `pages`.  The      *)
(* free list is the sequence of the heads of the free blocks in list       *)
(* order, the list header being the position before the first element.     *)
(* alloc() is one step.  The merging loop of free() is one step per        *)
(* iteration, so that the loop's own invariant can be stated; no other     *)
(* operation runs between these steps, because pages_free() holds          *)
(* interrupts off and the machine has one processor.                       *)
(***************************************************************************)
EXTENDS Integers, Sequences, FiniteSets, SequencesExt

CONSTANTS NPages,       \* npage: the number of page descriptors
          Regions,      \* the RAM regions page_init() registers, in e820 order
          Sizes,        \* the numbers of pages callers ask for and give back
          Junk,         \* what `property` may hold before init_memmap()
          Null          \* PMM_INVALID_PTR

Pages == 0 .. NPages - 1

Run(a, k) == a .. a + k - 1

ASSUME NPagesAssumption == NPages \in Nat

(***************************************************************************)
(* page_init() clips every region to the descriptor array, and an e820 map *)
(* lists disjoint regions.                                                 *)
(***************************************************************************)
ASSUME RegionsAssumption ==
    /\ Regions \in Seq([base : Nat, n : Nat \ {0}])
    /\ \A i \in 1 .. Len(Regions) :
          Run(Regions[i].base, Regions[i].n) \subseteq Pages
    /\ \A i, j \in 1 .. Len(Regions) : i # j =>
          \/ Regions[i].base + Regions[i].n < Regions[j].base
          \/ Regions[j].base + Regions[j].n < Regions[i].base

ASSUME SizesAssumption == Sizes \subseteq Nat \ {0}

ASSUME JunkAssumption == Junk \subseteq Nat

ASSUME NullAssumption == Null \notin Nat

VARIABLES free_list,    \* _free.free_list: block heads in list order
          nr_free,      \* _free.nr_free
          property,     \* PageDesc.property of every page
          reserved,     \* the PG_RESERVED bit of PageDesc.flags
          region,       \* how many regions page_init() has registered
          pc,           \* "idle", or "scan" inside the loop of free()
          base, n, prev,\* free()'s variables; prev is a list position
          held,         \* the pages callers own (not in the code)
          ret           \* the last operation and its result

vars == <<free_list, nr_free, property, reserved, region, pc, base, n, prev,
          held, ret>>

locals == <<pc, base, n, prev>>

(***************************************************************************)
(* The free block that starts at page p, and the blocks on the list.       *)
(***************************************************************************)
Block(p) == Run(p, property[p])

Heads == {free_list[i] : i \in 1 .. Len(free_list)}

FreePages == UNION {Block(p) : p \in Heads}

(***************************************************************************)
(* The pages init_memmap() has been given so far.                          *)
(***************************************************************************)
Managed == {p \in Pages : \E i \in 1 .. region :
                p \in Run(Regions[i].base, Regions[i].n)}

Booted == region = Len(Regions)

-----------------------------------------------------------------------------
(***************************************************************************)
(* init() empties the list; page_init() sets PG_RESERVED on every page of  *)
(* a descriptor array that nothing has cleared.                            *)
(***************************************************************************)
Init ==
    /\ free_list = <<>>
    /\ nr_free = 0
    /\ property \in [Pages -> Junk]
    /\ reserved = [p \in Pages |-> TRUE]
    /\ region = 0
    /\ pc = "idle"
    /\ base = 0 /\ n = 0 /\ prev = 0
    /\ held = {}
    /\ ret = [op |-> "none", n |-> 0, page |-> Null]

(***************************************************************************)
(* init_memmap(): clear the region's descriptors, make its first page the  *)
(* head of one block, list_add_before(header) = append.                    *)
(***************************************************************************)
InitMemmap ==
    /\ pc = "idle"
    /\ region < Len(Regions)
    /\ LET r   == Regions[region + 1]
           run == Run(r.base, r.n)
       IN /\ property' = [p \in Pages |->
                             IF p = r.base THEN r.n
                             ELSE IF p \in run THEN 0 ELSE property[p]]
          /\ reserved' = [p \in Pages |->
                             IF p \in run THEN p = r.base ELSE reserved[p]]
          /\ nr_free' = nr_free + r.n
          /\ free_list' = Append(free_list, r.base)
    /\ region' = region + 1
    /\ UNCHANGED <<locals, held, ret>>

-----------------------------------------------------------------------------
Fits(i, k) == property[free_list[i]] >= k

(***************************************************************************)
(* The search loop of alloc() stops at the first block that is big enough. *)
(***************************************************************************)
FirstFitAt(i, k) == Fits(i, k) /\ \A j \in 1 .. i - 1 : ~Fits(j, k)

AllocResult(k, page) == ret' = [op |-> "alloc", n |-> k, page |-> page]

(* Mutant: the nr_free test refuses the last page. *)
AllocFailOffByOne(k) ==
    /\ pc = "idle" /\ Booted
    /\ k >= nr_free \/ \A i \in 1 .. Len(free_list) : ~Fits(i, k)
    /\ AllocResult(k, Null)
    /\ UNCHANGED <<free_list, nr_free, property, reserved, region, locals, held>>

AllocFail(k) ==
    /\ pc = "idle" /\ Booted
    /\ k > nr_free \/ \A i \in 1 .. Len(free_list) : ~Fits(i, k)
    /\ AllocResult(k, Null)
    /\ UNCHANGED <<free_list, nr_free, property, reserved, region, locals, held>>

AllocExact(k) ==
    /\ pc = "idle" /\ Booted
    /\ k <= nr_free
    /\ \E i \in 1 .. Len(free_list) :
          LET page == free_list[i] IN
          /\ FirstFitAt(i, k)
          /\ property[page] = k
          /\ free_list' = RemoveAt(free_list, i)
          /\ reserved' = [reserved EXCEPT ![page] = FALSE]
          /\ held' = held \cup Run(page, k)
          /\ AllocResult(k, page)
    /\ nr_free' = nr_free - k
    /\ UNCHANGED <<property, region, locals>>

(* Mutant: the remainder keeps the size of the block it was split from. *)
AllocSplitWholeSize(k) ==
    /\ pc = "idle" /\ Booted
    /\ k <= nr_free
    /\ \E i \in 1 .. Len(free_list) :
          LET page == free_list[i]
              remaining == page + k
          IN /\ FirstFitAt(i, k)
             /\ property[page] > k
             /\ property' = [property EXCEPT ![remaining] = property[page]]
             /\ reserved' = [reserved EXCEPT ![remaining] = TRUE, ![page] = FALSE]
             /\ free_list' = [free_list EXCEPT ![i] = remaining]
             /\ held' = held \cup Run(page, k)
             /\ AllocResult(k, page)
    /\ nr_free' = nr_free - k
    /\ UNCHANGED <<region, locals>>

(***************************************************************************)
(* The remainder is linked behind the block, which is then unlinked: it    *)
(* takes the block's place in the list.                                    *)
(***************************************************************************)
AllocSplit(k) ==
    /\ pc = "idle" /\ Booted
    /\ k <= nr_free
    /\ \E i \in 1 .. Len(free_list) :
          LET page == free_list[i]
              remaining == page + k
          IN /\ FirstFitAt(i, k)
             /\ property[page] > k
             /\ property' = [property EXCEPT ![remaining] = property[page] - k]
             /\ reserved' = [reserved EXCEPT ![remaining] = TRUE, ![page] = FALSE]
             /\ free_list' = [free_list EXCEPT ![i] = remaining]
             /\ held' = held \cup Run(page, k)
             /\ AllocResult(k, page)
    /\ nr_free' = nr_free - k
    /\ UNCHANGED <<region, locals>>

Alloc(k) == AllocFail(k) \/ AllocExact(k) \/ AllocSplit(k)

-----------------------------------------------------------------------------
(***************************************************************************)
(* pages_free(a, k) by a caller that owns these k pages: the part of       *)
(* free() before its loop.                                                 *)
(***************************************************************************)
FreeStart(a, k) ==
    /\ pc = "idle" /\ Booted
    /\ Run(a, k) \subseteq held
    /\ reserved' = [p \in Pages |-> IF p \in Run(a, k) THEN p = a ELSE reserved[p]]
    /\ property' = [property EXCEPT ![a] = k]
    /\ pc' = "scan" /\ base' = a /\ n' = k /\ prev' = 0
    /\ held' = held \ Run(a, k)
    /\ ret' = [op |-> "free", n |-> k, page |-> a]
    /\ UNCHANGED <<free_list, nr_free, region>>

Scanning == pc = "scan" /\ prev < Len(free_list)

ScanPage == free_list[prev + 1]

(* Mutants of the loop: it steps past the element it unlinked; it stops at *)
(* the first merge; the merged block keeps its old size; the merged head   *)
(* keeps its flag; it starts again from the header; it counts the merged   *)
(* block instead of the freed pages.                                       *)
MergeNextAdvance ==
    /\ Scanning
    /\ base + property[base] = ScanPage
    /\ property' = [property EXCEPT ![base] = @ + property[ScanPage]]
    /\ reserved' = [reserved EXCEPT ![ScanPage] = FALSE]
    /\ free_list' = RemoveAt(free_list, prev + 1)
    /\ prev' = prev + 1
    /\ UNCHANGED <<nr_free, region, pc, base, n, held, ret>>

MergeNextBreak ==
    /\ Scanning
    /\ base + property[base] = ScanPage
    /\ property' = [property EXCEPT ![base] = @ + property[ScanPage]]
    /\ reserved' = [reserved EXCEPT ![ScanPage] = FALSE]
    /\ free_list' = RemoveAt(free_list, prev + 1)
    /\ prev' = Len(free_list) - 1
    /\ UNCHANGED <<nr_free, region, pc, base, n, held, ret>>

MergePrevOldSize ==
    /\ Scanning
    /\ base + property[base] # ScanPage
    /\ ScanPage + property[ScanPage] = base
    /\ reserved' = [reserved EXCEPT ![base] = FALSE]
    /\ base' = ScanPage
    /\ free_list' = RemoveAt(free_list, prev + 1)
    /\ UNCHANGED <<property, nr_free, region, pc, n, prev, held, ret>>

MergePrevFlagKept ==
    /\ Scanning
    /\ base + property[base] # ScanPage
    /\ ScanPage + property[ScanPage] = base
    /\ property' = [property EXCEPT ![ScanPage] = @ + property[base]]
    /\ base' = ScanPage
    /\ free_list' = RemoveAt(free_list, prev + 1)
    /\ UNCHANGED <<reserved, nr_free, region, pc, n, prev, held, ret>>

KeepRestart ==
    /\ Scanning
    /\ base + property[base] # ScanPage
    /\ ScanPage + property[ScanPage] # base
    /\ prev' = 0
    /\ UNCHANGED <<free_list, nr_free, property, reserved, region, pc, base, n,
                   held, ret>>

FreeDoneMergedSize ==
    /\ pc = "scan" /\ prev = Len(free_list)
    /\ nr_free' = nr_free + property[base]
    /\ free_list' = InsertAt(free_list, prev + 1, base)
    /\ pc' = "idle" /\ base' = 0 /\ n' = 0 /\ prev' = 0
    /\ UNCHANGED <<property, reserved, region, held, ret>>

(***************************************************************************)
(* The loop's three branches.  list_del() leaves the links of the removed  *)
(* element alone, so list_next() then yields what is now behind prev.      *)
(***************************************************************************)
MergeNext ==
    /\ Scanning
    /\ base + property[base] = ScanPage
    /\ property' = [property EXCEPT ![base] = @ + property[ScanPage]]
    /\ reserved' = [reserved EXCEPT ![ScanPage] = FALSE]
    /\ free_list' = RemoveAt(free_list, prev + 1)
    /\ UNCHANGED <<nr_free, region, locals, held, ret>>

MergePrev ==
    /\ Scanning
    /\ base + property[base] # ScanPage
    /\ ScanPage + property[ScanPage] = base
    /\ property' = [property EXCEPT ![ScanPage] = @ + property[base]]
    /\ reserved' = [reserved EXCEPT ![base] = FALSE]
    /\ base' = ScanPage
    /\ free_list' = RemoveAt(free_list, prev + 1)
    /\ UNCHANGED <<nr_free, region, pc, n, prev, held, ret>>

Keep ==
    /\ Scanning
    /\ base + property[base] # ScanPage
    /\ ScanPage + property[ScanPage] # base
    /\ prev' = prev + 1
    /\ UNCHANGED <<free_list, nr_free, property, reserved, region, pc, base, n,
                   held, ret>>

FreeDone ==
    /\ pc = "scan" /\ prev = Len(free_list)
    /\ nr_free' = nr_free + n
    /\ free_list' = InsertAt(free_list, prev + 1, base)
    /\ pc' = "idle" /\ base' = 0 /\ n' = 0 /\ prev' = 0
    /\ UNCHANGED <<property, reserved, region, held, ret>>

Scan == MergeNext \/ MergePrev \/ Keep \/ FreeDone

Next ==
    \/ InitMemmap
    \/ \E k \in Sizes : Alloc(k)
    \/ \E a \in Pages, k \in Sizes : FreeStart(a, k)
    \/ Scan

(***************************************************************************)
(* A call of free() runs to its end; nothing obliges callers to call.      *)
(***************************************************************************)
Spec == Init /\ [][Next]_vars /\ WF_vars(Scan)

-----------------------------------------------------------------------------
(***************************************************************************)
(* Type correctness of the manager's state.                                *)
(***************************************************************************)
TypeOK ==
    /\ free_list \in Seq(Pages)
    /\ nr_free \in Nat
    /\ property \in [Pages -> Nat]
    /\ reserved \in [Pages -> BOOLEAN]
    /\ region \in 0 .. Len(Regions)
    /\ pc \in {"idle", "scan"}
    /\ base \in Nat /\ n \in Nat /\ prev \in 0 .. Len(free_list)
    /\ held \subseteq Managed
    /\ ret \in [op : {"none", "alloc", "free"}, n : Nat, page : Nat \cup {Null}]

(***************************************************************************)
(* The pages on their way back to the list inside free().                  *)
(***************************************************************************)
InFlight == IF pc = "scan" THEN Block(base) ELSE {}

BlocksDisjoint ==
    \A i, j \in 1 .. Len(free_list) : i # j =>
        Block(free_list[i]) \cap Block(free_list[j]) = {}

(***************************************************************************)
(* Every registered page is in exactly one place: owned by a caller, in    *)
(* exactly one block of the free list, or in the block free() is merging.  *)
(* No page is lost, none is handed out while it is free.                   *)
(***************************************************************************)
Partition ==
    /\ held \cup FreePages \cup InFlight = Managed
    /\ held \cap FreePages = {}
    /\ InFlight \cap (held \cup FreePages) = {}
    /\ BlocksDisjoint

(***************************************************************************)
(* nr_free, which alloc() trusts before it searches, counts the pages no   *)
(* caller owns (free() adds its n only after the loop).                    *)
(***************************************************************************)
FreeCount ==
    Cardinality(Managed \ held) = nr_free + n

(***************************************************************************)
(* PG_RESERVED of a registered page means "head of a free block", what     *)
(* check() asserts of the list and of a page just allocated.               *)
(***************************************************************************)
ReservedMarksHeads ==
    \A p \in Managed :
        reserved[p] <=> (p \in Heads \/ (pc = "scan" /\ p = base))

(***************************************************************************)
(* The single pass of free() leaves no two adjacent free blocks, in        *)
(* whatever order the list holds them; the blocks it has passed do not     *)
(* touch the block in flight.                                              *)
(***************************************************************************)
Coalesced ==
    /\ \A i, j \in 1 .. Len(free_list) :
          free_list[i] + property[free_list[i]] # free_list[j]
    /\ pc = "scan" => \A i \in 1 .. prev :
          /\ free_list[i] + property[free_list[i]] # base
          /\ base + property[base] # free_list[i]

(***************************************************************************)
(* alloc() returns NULL only when no k contiguous pages are free: neither  *)
(* the nr_free test nor the search over blocks rejects a request that the  *)
(* memory could satisfy.                                                   *)
(***************************************************************************)
FailsOnlyWhenFull ==
    (ret.op = "alloc" /\ ret.page = Null) =>
        \A a \in Pages : ~(Run(a, ret.n) \subseteq Managed \ held)

(***************************************************************************)
(* The manager keeps the promise of a page allocator: the caller-visible   *)
(* effect of free() is its first step, the loop only reorganises the list. *)
(***************************************************************************)
Abstract == INSTANCE PageAllocator WITH managed <- Managed

ImplementsPageAllocator == Abstract!ASpec

(***************************************************************************)
(* The loop of free() ends although it unlinks the elements it stands on.  *)
(***************************************************************************)
FreeTerminates == pc = "scan" ~> pc = "idle"
=============================================================================

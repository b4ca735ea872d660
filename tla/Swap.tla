-------------------------------- MODULE Swap --------------------------------
(***************************************************************************)
(* Virtual memory: demand paging and swapping, kern/mm/vmm.c,              *)
(* kern/mm/swap.c, kern/mm/swap_fifo.c and the page-table half of          *)
(* kern/mm/pmm.c (get_pte, page_insert, pgdir_alloc_page, tlb_invl).       *)
(*                                                                         *)
(* There is one address space, init_mm, after swap_init_mm().  Addresses   *)
(* 0 .. NUser - 1 are the user pages; address NUser + f is the place of    *)
(* frame f in the kernel's direct map, which vmm_init() has filled in.     *)
(* The page allocator is the abstract one of module PageAllocator, asked   *)
(* for single pages: `free` is the set of frames it may hand out.  The     *)
(* frames of the kernel's own page tables are not among them.              *)
(*                                                                         *)
(* A page fault is one step; swap_out() is one step per iteration of its   *)
(* loop.  Both run to their end before the process continues.              *)
(***************************************************************************)
EXTENDS Integers, Sequences, FiniteSets, SequencesExt

CONSTANTS NUser,                \* user pages
          PerTable,             \* user pages that share a page table
          NFrames,              \* frames
          Values,               \* what a page may contain
          max_swap_offset,      \* computed by swap_init() from the disk's size
          MaxBatch,             \* bound: pages asked for in one swap_out()
          MaxOuts,              \* bound: pages ever swapped out
          Null

ASSUME SwapAssumption ==
    /\ NUser \in Nat \ {0} /\ PerTable \in Nat \ {0} /\ NFrames \in Nat
    /\ max_swap_offset \in Nat /\ max_swap_offset > 1
    /\ max_swap_offset <= 2^24        \* the offset field of a swap entry
    /\ MaxBatch \in Nat /\ MaxOuts \in Nat
    /\ Null \notin Nat /\ Null \notin Values

Frames == 0 .. NFrames - 1

User == 0 .. NUser - 1

KAddr(f) == NUser + f

Addrs == User \cup {KAddr(f) : f \in Frames}

Dir(a) == a \div PerTable

Dirs == {Dir(a) : a \in User}

Slots == 1 .. max_swap_offset - 1

(***************************************************************************)
(* A page-table entry is present with a frame, or holds a swap entry; an   *)
(* empty entry is the word 0, which no swap entry is (offsets start at 1). *)
(***************************************************************************)
Present(f) == [p |-> TRUE, n |-> f]

Entry(offset) == [p |-> FALSE, n |-> offset]

Empty == Entry(0)

VARIABLES free,         \* the frames the page allocator may hand out
          pde,          \* the frame of each user page table, or Null
          pte,          \* the page-table entry of every address
          tlb,          \* the frame the processor has cached per user page
          ref,          \* PageDesc.ref of every frame
          fifo,         \* pra_list_head, oldest first
          mem, disk,    \* contents of frames and of swap slots
          swap_offset,  \* swap_out()'s static counter
          call,         \* the running or last call of swap_out()
          outs,         \* pages swapped out so far (bounds the model)
          written,      \* what each user page should contain (not in the code)
          misfreed      \* frames given back while on the FIFO (not in the code)

vars == <<free, pde, pte, tlb, ref, fifo, mem, disk, swap_offset, call, outs,
          written, misfreed>>

Init ==
    /\ free = Frames
    /\ pde = [d \in Dirs |-> Null]
    /\ pte = [a \in Addrs |-> IF a \in User THEN Empty ELSE Present(a - NUser)]
    /\ tlb = [a \in User |-> Null]
    /\ ref = [f \in Frames |-> 0]
    /\ fifo = <<>>
    /\ mem \in [Frames -> Values]
    /\ disk \in [Slots -> Values]
    /\ swap_offset = 1
    /\ call = [active |-> FALSE, n |-> 0, i |-> 0]
    /\ outs = 0
    /\ written = [a \in User |-> Null]
    /\ misfreed = {}

-----------------------------------------------------------------------------
(***************************************************************************)
(* swapfs_read() and swapfs_write(): a slot holds one page.  A write uses  *)
(* the slot that swap_offset names.                                        *)
(***************************************************************************)
SwapfsRead(entry) == disk[entry.n]

SwapfsWrite(v) == disk' = [disk EXCEPT ![swap_offset] = v]

(***************************************************************************)
(* page_insert(): with the table in place it cannot fail.  It counts the   *)
(* mapping, writes the entry and drops the cached translation.             *)
(***************************************************************************)
PageInsert(a, f) ==
    /\ pte' = [pte EXCEPT ![a] = Present(f)]
    /\ tlb' = [tlb EXCEPT ![a] = Null]

(***************************************************************************)
(* The free list and the FIFO share no page.  Once they do, alloc(),       *)
(* free() and the FIFO's operations store into each other's lists through  *)
(* the page's page_link, and the model does not follow them any further    *)
(* (module Links shows the stores); the processor goes on.                 *)
(***************************************************************************)
ListsApart == misfreed = {}

(***************************************************************************)
(* An access to user page a misses the TLB and its entry is not present:   *)
(* the processor calls vmm_pg_fault().                                     *)
(***************************************************************************)
Faulting(a) == ListsApart /\ ~call.active /\ tlb[a] = Null /\ ~pte[a].p

(***************************************************************************)
(* An empty entry: get_pte(.., 1) supplies the page table, with ref 1,     *)
(* pgdir_alloc_page() the page, whose contents are what the frame held.    *)
(***************************************************************************)
FaultDemand(a) ==
    /\ Faulting(a) /\ pte[a] = Empty
    /\ \E t \in IF pde[Dir(a)] = Null THEN free ELSE {pde[Dir(a)]} :
       \E f \in free \ {t} :
          /\ pde' = [pde EXCEPT ![Dir(a)] = t]
          /\ free' = free \ {t, f}
          /\ PageInsert(a, f)
          /\ ref' = [ref EXCEPT ![t] = IF t \in free THEN 1 ELSE @,
                                ![f] = @ + 1]
          /\ written' = [written EXCEPT ![a] = mem[f]]
    /\ UNCHANGED <<fifo, mem, disk, swap_offset, call, outs, misfreed>>

(***************************************************************************)
(* The last frame becomes the page table; the fault handler ignores that   *)
(* there is none for the page, and the access faults again.  With no frame *)
(* at all, or none for the page, the handler changes nothing: the access   *)
(* faults for ever, a stuttering step.                                     *)
(***************************************************************************)
FaultTableOnly(a) ==
    /\ Faulting(a) /\ pte[a] = Empty /\ pde[Dir(a)] = Null
    /\ \E t \in free :
          /\ free = {t}
          /\ pde' = [pde EXCEPT ![Dir(a)] = t]
          /\ free' = {}
          /\ ref' = [ref EXCEPT ![t] = 1]
    /\ UNCHANGED <<pte, tlb, fifo, mem, disk, swap_offset, call, outs, written,
                   misfreed>>

(***************************************************************************)
(* swap_in(): allocate, read the slot, map, append to the FIFO.            *)
(***************************************************************************)
FaultSwapIn(a) ==
    /\ Faulting(a) /\ pte[a] # Empty
    /\ \E f \in free :
          /\ free' = free \ {f}
          /\ mem' = [mem EXCEPT ![f] = SwapfsRead(pte[a])]
          /\ PageInsert(a, f)
          /\ ref' = [ref EXCEPT ![f] = @ + 1]
          /\ fifo' = Append(fifo, f)
    /\ UNCHANGED <<pde, disk, swap_offset, call, outs, written, misfreed>>

(* Mutant: the error path keeps the frame. *)
FaultReadErrorLeak(a) ==
    /\ Faulting(a) /\ pte[a] # Empty
    /\ \E f \in free, v \in Values :
          mem' = [mem EXCEPT ![f] = v] /\ free' = free \ {f}
    /\ UNCHANGED <<pde, pte, tlb, ref, fifo, disk, swap_offset, call, outs,
                   written, misfreed>>

(***************************************************************************)
(* The read fails half-way: the frame goes back, its contents changed; the *)
(* handler ignores the failure and the access faults again.                *)
(***************************************************************************)
FaultReadError(a) ==
    /\ Faulting(a) /\ pte[a] # Empty
    /\ \E f \in free, v \in Values : mem' = [mem EXCEPT ![f] = v]
    /\ UNCHANGED <<free, pde, pte, tlb, ref, fifo, disk, swap_offset, call, outs,
                   written, misfreed>>

-----------------------------------------------------------------------------
(***************************************************************************)
(* The processor walks the tables and caches the translation; a process    *)
(* writes through a cached translation; an entry is evicted at any time.   *)
(* The kernel runs with CR0.WP clear, so a page mapped without PTE_W is    *)
(* written all the same.                                                   *)
(***************************************************************************)
Walk(a) ==
    /\ ~call.active /\ tlb[a] = Null /\ pte[a].p
    /\ tlb' = [tlb EXCEPT ![a] = pte[a].n]
    /\ UNCHANGED <<free, pde, pte, ref, fifo, mem, disk, swap_offset, call, outs,
                   written, misfreed>>

Write(a, v) ==
    /\ ~call.active /\ tlb[a] # Null
    /\ mem' = [mem EXCEPT ![tlb[a]] = v]
    /\ written' = [written EXCEPT ![a] = v]
    /\ UNCHANGED <<free, pde, pte, tlb, ref, fifo, disk, swap_offset, call, outs,
                   misfreed>>

Evict(a) ==
    /\ tlb[a] # Null
    /\ tlb' = [tlb EXCEPT ![a] = Null]
    /\ UNCHANGED <<free, pde, pte, ref, fifo, mem, disk, swap_offset, call, outs,
                   written, misfreed>>

(***************************************************************************)
(* The clients inside the kernel are the tests that the shell command      *)
(* swaptest runs.  Each begins with swap_init_mm(), which empties the      *)
(* FIFO; the pages that were on it stay mapped.                            *)
(***************************************************************************)
SwapInitMm ==
    /\ ListsApart /\ ~call.active
    /\ fifo # <<>>
    /\ fifo' = <<>>
    /\ UNCHANGED <<free, pde, pte, tlb, ref, mem, disk, swap_offset, call, outs,
                   written, misfreed>>

(***************************************************************************)
(* A test fills a page through the direct map, maps it at an unused        *)
(* address, where get_pte() supplies the page table, and makes it          *)
(* swappable.  (A page that vmm_pg_fault() maps on demand is never made    *)
(* swappable.)  Left out: page_insert() finds no frame for the table, and  *)
(* the test, which does not look at its result, makes the page swappable   *)
(* without having mapped it.                                               *)
(***************************************************************************)
MapPage(a, v) ==
    /\ ListsApart /\ ~call.active
    /\ pte[a] = Empty
    /\ \E f \in free :
       \E t \in IF pde[Dir(a)] = Null THEN free \ {f} ELSE {pde[Dir(a)]} :
          /\ pde' = [pde EXCEPT ![Dir(a)] = t]
          /\ free' = free \ {t, f}
          /\ mem' = [mem EXCEPT ![f] = v]
          /\ PageInsert(a, f)
          /\ ref' = [ref EXCEPT ![t] = IF t \in free THEN 1 ELSE @,
                                ![f] = @ + 1]
          /\ fifo' = Append(fifo, f)
    /\ written' = [written EXCEPT ![a] = v]
    /\ UNCHANGED <<disk, swap_offset, call, outs, misfreed>>

(***************************************************************************)
(* A test ends by pages_free() of the page that swap_in() has mapped and   *)
(* put on the FIFO: it is neither unmapped nor taken off the FIFO.         *)
(***************************************************************************)
FreeSwappedIn(a) ==
    /\ ListsApart /\ ~call.active
    /\ pte[a].p /\ pte[a].n \in ToSet(fifo)
    /\ free' = free \cup {pte[a].n}
    /\ misfreed' = {pte[a].n}
    /\ UNCHANGED <<pde, pte, tlb, ref, fifo, mem, disk, swap_offset, call, outs,
                   written>>

-----------------------------------------------------------------------------
(***************************************************************************)
(* find_vaddr_for_page(): the lowest address that maps frame f, the direct *)
(* map included; 0 also says that there is none.                           *)
(***************************************************************************)
FindVaddr(f) ==
    LET found == {a \in Addrs : pte[a] = Present(f)}
    IN IF found = {} THEN 0 ELSE CHOOSE a \in found : \A b \in found : a <= b

SwapOutCall(n) ==
    /\ ListsApart /\ ~call.active
    /\ outs + n <= MaxOuts
    /\ call' = [active |-> TRUE, n |-> n, i |-> 0]
    /\ UNCHANGED <<free, pde, pte, tlb, ref, fifo, mem, disk, swap_offset, outs,
                   written, misfreed>>

(* Mutant: the victim stays on the list. *)
TakeVictimLinked ==
    /\ call.active /\ call.i < call.n
    /\ fifo # <<>>
    /\ UNCHANGED fifo

(***************************************************************************)
(* swap_out_victim() takes the oldest page off the list.                   *)
(***************************************************************************)
TakeVictim ==
    /\ call.active /\ call.i < call.n
    /\ fifo # <<>>
    /\ fifo' = Tail(fifo)

Victim == Head(fifo)

(***************************************************************************)
(* `continue`: the page was not found, or the disk failed in the middle of *)
(* the slot.  The victim stays mapped, off the list, and the loop counts.  *)
(***************************************************************************)
SwapOutLost ==
    /\ TakeVictim
    /\ \/ FindVaddr(Victim) = 0 /\ UNCHANGED disk
       \/ /\ FindVaddr(Victim) # 0
          /\ \E v \in Values : SwapfsWrite(v)
    /\ call' = [call EXCEPT !.i = @ + 1]
    /\ UNCHANGED <<free, pde, pte, tlb, ref, mem, swap_offset, outs, written,
                   misfreed>>

(* Mutants: the counter wraps one slot too late; it never advances. *)
NextOffsetLate == IF swap_offset + 1 > max_swap_offset THEN 1 ELSE swap_offset + 1

NextOffsetSame == swap_offset

NextOffset == IF swap_offset + 1 >= max_swap_offset THEN 1 ELSE swap_offset + 1

(* Mutant: no tlb_invl() after the entry changes. *)
SwapOutPageCached ==
    /\ TakeVictim
    /\ LET addr == FindVaddr(Victim) IN
       /\ addr # 0
       /\ SwapfsWrite(mem[Victim])
       /\ pte' = [pte EXCEPT ![addr] = Entry(swap_offset)]
    /\ free' = free \cup {Victim}
    /\ swap_offset' = NextOffset
    /\ call' = [call EXCEPT !.i = @ + 1]
    /\ outs' = outs + 1
    /\ UNCHANGED <<pde, tlb, ref, mem, written, misfreed>>

SwapOutPage ==
    /\ TakeVictim
    /\ LET addr == FindVaddr(Victim) IN
       /\ addr # 0
       /\ SwapfsWrite(mem[Victim])
       /\ pte' = [pte EXCEPT ![addr] = Entry(swap_offset)]
       /\ tlb' = IF addr \in User THEN [tlb EXCEPT ![addr] = Null] ELSE tlb
    /\ free' = free \cup {Victim}
    /\ swap_offset' = NextOffset
    /\ call' = [call EXCEPT !.i = @ + 1]
    /\ outs' = outs + 1
    /\ UNCHANGED <<pde, ref, mem, written, misfreed>>

(***************************************************************************)
(* The loop ends, or breaks because the list is empty; i is returned.      *)
(***************************************************************************)
SwapOutReturn ==
    /\ call.active
    /\ call.i = call.n \/ fifo = <<>>
    /\ call' = [call EXCEPT !.active = FALSE]
    /\ UNCHANGED <<free, pde, pte, tlb, ref, fifo, mem, disk, swap_offset, outs,
                   written, misfreed>>

Next ==
    \/ \E a \in User :
          \/ FaultDemand(a) \/ FaultTableOnly(a)
          \/ FaultSwapIn(a) \/ FaultReadError(a)
          \/ Walk(a) \/ Evict(a)
          \/ FreeSwappedIn(a)
          \/ \E v \in Values : Write(a, v) \/ MapPage(a, v)
    \/ SwapInitMm
    \/ \E n \in 1 .. MaxBatch : SwapOutCall(n)
    \/ SwapOutLost \/ SwapOutPage \/ SwapOutReturn

Spec == Init /\ [][Next]_vars

-----------------------------------------------------------------------------
(***************************************************************************)
(* Type correctness of the paging state.                                   *)
(***************************************************************************)
TypeOK ==
    /\ free \subseteq Frames
    /\ pde \in [Dirs -> Frames \cup {Null}]
    /\ pte \in [Addrs -> [p : BOOLEAN, n : Nat]]
    /\ \A a \in Addrs : IF pte[a].p THEN pte[a].n \in Frames
                        ELSE pte[a].n \in 0 .. max_swap_offset - 1
    /\ tlb \in [User -> Frames \cup {Null}]
    /\ ref \in [Frames -> Nat]
    /\ fifo \in Seq(Frames)
    /\ mem \in [Frames -> Values] /\ disk \in [Slots -> Values]
    /\ swap_offset \in 1 .. max_swap_offset - 1
    /\ call \in [active : BOOLEAN, n : Nat, i : Nat]
    /\ call.i <= call.n
    /\ outs \in 0 .. MaxOuts
    /\ written \in [User -> Values \cup {Null}]
    /\ misfreed \subseteq Frames

Mapping(f) == {a \in User : pte[a] = Present(f)}

Tables == {pde[d] : d \in Dirs} \ {Null}

(***************************************************************************)
(* Every frame is free, one page table, or mapped at exactly one user page *)
(* (through faults, failed reads, swap-outs and their reuse): none leaks   *)
(* and none is shared, but for the frame that a test has freed while it    *)
(* was on the FIFO, which is free and still mapped once.  The direct map   *)
(* always shows every frame at its place: no swap_out() takes a page away  *)
(* from the kernel.                                                        *)
(***************************************************************************)
FramesAccounted ==
    \A f \in Frames :
        /\ f \in free \ misfreed => Mapping(f) = {} /\ f \notin Tables
        /\ f \in Tables => Mapping(f) = {}
                           /\ Cardinality({d \in Dirs : pde[d] = f}) = 1
        /\ f \notin (free \ misfreed) \cup Tables => Cardinality(Mapping(f)) = 1
        /\ pte[KAddr(f)] = Present(f)

(***************************************************************************)
(* page_link belongs to one list at a time: a page waiting in the FIFO is  *)
(* there once, mapped, and not with the allocator, which uses the same     *)
(* link.  No fault and no swap_out() breaks this, with or without errors;  *)
(* the one page on both lists is the one that a test has freed without     *)
(* taking it off the FIFO.                                                 *)
(***************************************************************************)
FifoOwnsLinks ==
    /\ Cardinality(ToSet(fifo)) = Len(fifo)
    /\ \A f \in ToSet(fifo) : Mapping(f) # {}
    /\ ToSet(fifo) \cap free = misfreed

(***************************************************************************)
(* The processor never uses a translation that the tables no longer hold:  *)
(* a page that was swapped out is not reachable through its old frame.     *)
(***************************************************************************)
TlbCoherent ==
    \A a \in User : tlb[a] # Null => pte[a] = Present(tlb[a])

(***************************************************************************)
(* A page keeps what was written to it, wherever it is: in its frame while *)
(* it is mapped, in its slot while it is swapped out, through failed reads *)
(* and writes.  This is what the tests of swapping assert; swap_out()      *)
(* breaks it once its slot counter has wrapped.                            *)
(***************************************************************************)
DataIntact ==
    \A a \in User :
        IF pte[a].p THEN mem[pte[a].n] = written[a]
        ELSE pte[a] # Empty => disk[pte[a].n] = written[a]

(***************************************************************************)
(* Until the counter has gone through the last slot, no page loses its     *)
(* contents: a slot is never shared, a victim's frame is not reused before *)
(* its contents are on disk.                                               *)
(***************************************************************************)
DataIntactUntilWrap == outs < max_swap_offset - 1 => DataIntact

-----------------------------------------------------------------------------
(***************************************************************************)
(* What the process reads at each user page: through the translation that  *)
(* the processor has cached, else through the tables, else after the fault *)
(* that brings the page in.                                                *)
(***************************************************************************)
Contents ==
    [a \in User |-> IF tlb[a] # Null THEN mem[tlb[a]]
                    ELSE IF pte[a].p THEN mem[pte[a].n]
                    ELSE IF pte[a] = Empty THEN Null
                    ELSE disk[pte[a].n]]

Resident == {a \in User : pte[a].p}

Memory == INSTANCE VirtualMemory
            WITH Pages <- User, Capacity <- max_swap_offset - 1,
                 contents <- Contents, stored <- written,
                 resident <- Resident

(***************************************************************************)
(* Faults, swap_in(), swap_out() and their error paths, the processor's    *)
(* cached translations: none of it shows to a process, each page reads     *)
(* what was stored there, until swap_out() has gone through the slots;     *)
(* from then on a page that is swapped out can change, but one that is     *)
(* mapped still cannot.                                                    *)
(***************************************************************************)
ImplementsMemory == Memory!VSpec
=============================================================================

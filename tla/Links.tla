------------------------------- MODULE Links -------------------------------
(***************************************************************************)
(* The intrusive lists of kern/include/list.h, as pointers, under their    *)
(* two users in memory management: the free list of                        *)
(* kern/mm/pmm_firstfit.c and the list of resident pages of a replacement  *)
(* algorithm, kern/mm/swap_fifo.c or one of kern/mm/archived/swap_lru.c    *)
(* and swap_clock.c.  Both link a page through the same field, page_link.  *)
(*                                                                         *)
(* Module FirstFit takes the free list for a sequence and prev for a       *)
(* position in it.  Here every operation of FirstFit is taken together     *)
(* with the stores it makes to next and prev pointers, computed from the   *)
(* pointers alone, the stale links that list_del() leaves behind included. *)
(***************************************************************************)
EXTENDS FirstFit

CONSTANTS FreeHead,     \* _free.free_list
          SwapHead      \* pra_list_head

Nodes == Pages \cup {FreeHead, SwapHead}

ASSUME LinksAssumption ==
    /\ FreeHead \notin Nat /\ SwapHead \notin Nat /\ FreeHead # SwapHead
    /\ Null \notin {FreeHead, SwapHead}

VARIABLES links,        \* next and prev of every list_entry_t
          le, prev_le,  \* the pointers le and prev of free()'s loop
          mgr,          \* swap_mgr: which algorithm is in use
          clock_ptr,    \* swap_clock.c's hand
          queue,        \* the swappable pages in their order (not in the code)
          torn          \* the lists have been mixed up (not in the code)

swapvars == <<mgr, clock_ptr, queue, torn>>

lvars == <<vars, links, le, prev_le, swapvars>>

-----------------------------------------------------------------------------
(***************************************************************************)
(* list.h.  The arguments are read before the first store.                 *)
(***************************************************************************)
InsertBetween(L, elm, before, after) ==         \* __list_add()
    [next |-> [L.next EXCEPT ![before] = elm, ![elm] = after],
     prev |-> [L.prev EXCEPT ![after] = elm, ![elm] = before]]

list_init(L, l) ==
    [next |-> [L.next EXCEPT ![l] = l], prev |-> [L.prev EXCEPT ![l] = l]]

list_add_before(L, l, elm) == InsertBetween(L, elm, L.prev[l], l)

list_add_after(L, l, elm) == InsertBetween(L, elm, l, L.next[l])

(* Mutant: the removed element is made a list of its own. *)
list_del_init(L, l) ==
    [next |-> [L.next EXCEPT ![L.prev[l]] = L.next[l], ![l] = l],
     prev |-> [L.prev EXCEPT ![L.next[l]] = L.prev[l], ![l] = l]]

(* Both neighbours forget l; l's own links stay. *)
list_del(L, l) ==
    [next |-> [L.next EXCEPT ![L.prev[l]] = L.next[l]],
     prev |-> [L.prev EXCEPT ![L.next[l]] = L.prev[l]]]

-----------------------------------------------------------------------------
(***************************************************************************)
(* init() and init_mm() make the two lists empty.  Null stands for the     *)
(* links of a page that has never been in a list, which nobody sets.       *)
(***************************************************************************)
LInit ==
    /\ Init
    /\ LET none == [p \in Nodes |-> Null]
       IN links = list_init(list_init([next |-> none, prev |-> none], FreeHead),
                            SwapHead)
    /\ le = FreeHead /\ prev_le = FreeHead
    /\ mgr \in {"fifo", "lru", "clock"}
    /\ clock_ptr = SwapHead
    /\ queue = <<>>
    /\ torn = FALSE

LInitMemmap ==
    /\ ~torn
    /\ InitMemmap
    /\ links' = list_add_before(links, FreeHead, Regions[region + 1].base)
    /\ UNCHANGED <<le, prev_le, swapvars>>

(***************************************************************************)
(* alloc() links the remainder behind the block and then unlinks the block *)
(* it has found.                                                           *)
(***************************************************************************)
LAllocFail(k) ==
    /\ ~torn
    /\ AllocFail(k)
    /\ UNCHANGED <<links, le, prev_le, swapvars>>

LAllocExact(k) ==
    /\ ~torn
    /\ AllocExact(k)
    /\ links' = list_del(links, ret'.page)
    /\ UNCHANGED <<le, prev_le, swapvars>>

LAllocSplit(k) ==
    /\ ~torn
    /\ AllocSplit(k)
    /\ links' = list_del(list_add_after(links, ret'.page, ret'.page + k), ret'.page)
    /\ UNCHANGED <<le, prev_le, swapvars>>

(***************************************************************************)
(* A caller gives back pages it owns.  swap_out() frees a victim after it  *)
(* has left the replacement list, but nobody asks: the tests of swapping   *)
(* free pages that are still on it.                                        *)
(***************************************************************************)
LFreeStart(a, k) ==
    /\ ~torn
    /\ FreeStart(a, k)
    /\ le' = FreeHead /\ prev_le' = FreeHead
    /\ UNCHANGED <<links, swapvars>>

(***************************************************************************)
(* The loop of free(): le moves first, perhaps from an element that the    *)
(* iteration before unlinked.                                              *)
(***************************************************************************)
LMerge ==
    /\ MergeNext \/ MergePrev
    /\ le' = links.next[le]
    /\ links' = list_del(links, links.next[le])
    /\ UNCHANGED <<prev_le, swapvars>>

LKeep ==
    /\ Keep
    /\ le' = links.next[le]
    /\ prev_le' = links.next[le]
    /\ UNCHANGED <<links, swapvars>>

(***************************************************************************)
(* The block is linked.  If a page of the replacement list is in it, the   *)
(* two lists are mixed up: at once when that page is the block's head, and *)
(* with its next owner otherwise.                                          *)
(***************************************************************************)
LFreeDone ==
    /\ FreeDone
    /\ links' = list_add_after(links, prev_le, base)
    /\ le' = FreeHead /\ prev_le' = FreeHead
    /\ torn' = (Block(base) \cap ToSet(queue) # {})
    /\ UNCHANGED <<mgr, clock_ptr, queue>>

-----------------------------------------------------------------------------
(***************************************************************************)
(* map_swappable() of the three algorithms puts a page its caller owns at  *)
(* the end of the list.  swap_lru.c may be told of a page again when it is *)
(* used, and takes a page with links for a page that is in the list; what  *)
(* it finds in a page that was never linked is what the memory held.       *)
(***************************************************************************)
map_swappable(p) ==
    /\ pc = "idle" /\ Booted /\ ~torn /\ mgr \in {"fifo", "clock"}
    /\ p \in held \ ToSet(queue)
    /\ links' = list_add_before(links, SwapHead, p)
    /\ queue' = Append(queue, p)
    /\ UNCHANGED <<clock_ptr, torn>>

swap_lru_map_swappable(p) ==
    /\ pc = "idle" /\ Booted /\ ~torn /\ mgr = "lru"
    /\ p \in held
    /\ LET fresh == links.next[p] = Null
           L == IF fresh THEN links ELSE list_del(links, p)
       IN \E wild \in IF fresh THEN BOOLEAN ELSE {FALSE} :
             /\ links' = list_add_before(L, SwapHead, p)
             /\ torn' = (wild \/ (p \notin ToSet(queue) /\ L # links))
    /\ queue' = Append(RemoveFirst(queue, p), p)
    /\ UNCHANGED clock_ptr

(***************************************************************************)
(* swap_out_victim(): the first element, found through the header or, in   *)
(* swap_clock.c, by the hand (whose loop leaves in its first round).       *)
(***************************************************************************)
swap_out_victim ==
    /\ pc = "idle" /\ Booted /\ ~torn /\ mgr \in {"fifo", "lru"}
    /\ links.next[SwapHead] # SwapHead
    /\ links' = list_del(links, links.next[SwapHead])
    /\ queue' = RemoveAt(queue, 1)
    /\ UNCHANGED <<clock_ptr, torn>>

Hand == IF clock_ptr = SwapHead THEN links.next[SwapHead] ELSE clock_ptr

(* Mutant: the hand stays on the page it has removed. *)
ClockHandStays ==
    /\ pc = "idle" /\ Booted /\ ~torn /\ mgr = "clock"
    /\ clock_ptr' = Hand
    /\ Hand # SwapHead
    /\ links' = list_del(links, Hand)
    /\ queue' = RemoveAt(queue, 1)
    /\ UNCHANGED torn

swap_clock_swap_out_victim ==
    /\ pc = "idle" /\ Booted /\ ~torn /\ mgr = "clock"
    /\ Hand # SwapHead
    /\ clock_ptr' = links.next[Hand]
    /\ links' = list_del(links, Hand)
    /\ queue' = RemoveAt(queue, 1)
    /\ UNCHANGED torn

Replacement ==
    /\ \/ \E p \in Pages : map_swappable(p) \/ swap_lru_map_swappable(p)
       \/ swap_out_victim
       \/ swap_clock_swap_out_victim
    /\ UNCHANGED <<vars, le, prev_le, mgr>>

LNext ==
    \/ LInitMemmap
    \/ \E k \in Sizes : LAllocFail(k) \/ LAllocExact(k) \/ LAllocSplit(k)
    \/ \E a \in Pages, k \in Sizes : LFreeStart(a, k)
    \/ LMerge
    \/ LKeep
    \/ LFreeDone
    \/ Replacement

LSpec == LInit /\ [][LNext]_lvars

-----------------------------------------------------------------------------
(***************************************************************************)
(* From the header h, next visits the elements of s and returns to h, and  *)
(* prev visits them backwards.                                             *)
(***************************************************************************)
Represents(h, s) ==
    LET at(i) == IF i \in 1 .. Len(s) THEN s[i] ELSE h
    IN \A i \in 0 .. Len(s) : /\ links.next[at(i)] = at(i + 1)
                              /\ links.prev[at(i + 1)] = at(i)

(***************************************************************************)
(* Whatever list_del() leaves in the links of removed pages, both lists    *)
(* are what the sequences say although they share page_link: the free list *)
(* is FirstFit's, and the list of a replacement algorithm holds exactly    *)
(* the pages it was given, oldest (for LRU: longest unused) first, which   *)
(* is where each algorithm looks for its victim, the clock's hand          *)
(* included.  It holds until a call of free() that was given a page of the *)
(* replacement list ends, which the code does not prevent and the tests of *)
(* swapping do; with swap_lru.c, until it unlinks a page by stale links.   *)
(***************************************************************************)
RingsSound ==
    ~torn =>
        /\ Represents(FreeHead, free_list)
        /\ Represents(SwapHead, queue)
        /\ IsInjective(free_list \o queue)
        /\ mgr = "clock" => Hand = links.next[SwapHead]

(***************************************************************************)
(* free() may follow the links of an element it has just unlinked:         *)
(* list_next(le) is always the element behind prev, and the header when    *)
(* there is none, so no block is skipped and none is met twice.            *)
(***************************************************************************)
IterationInStep ==
    pc = "scan" =>
        /\ prev_le = IF prev = 0 THEN FreeHead ELSE free_list[prev]
        /\ links.next[le] = IF prev < Len(free_list) THEN free_list[prev + 1]
                                                     ELSE FreeHead
=============================================================================

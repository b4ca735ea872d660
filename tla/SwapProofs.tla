----------------------------- MODULE SwapProofs -----------------------------
(***************************************************************************)
(* Proofs about paging and swapping, for every number of user pages and    *)
(* frames, every size of the swap area and every batch.                    *)
(***************************************************************************)
EXTENDS Swap, FiniteSetTheorems, SequenceTheorems, TLAPS

-----------------------------------------------------------------------------
(***************************************************************************)
(* The inductive invariant.  Its parts are stated on entries, not on sets  *)
(* of addresses, so that a step changes one instance of each.              *)
(*                                                                         *)
(* CallInv: what is left of a swap_out() still fits the bound.             *)
(* MapInv: a mapped frame is not free, unless a test has freed it, and is  *)
(* mapped at one user page.                                                *)
(* TableInv: a page table's frame is not free, not mapped, not shared.     *)
(* CoverInv: every frame is free, a page table or mapped.                  *)
(* DirectMap: the kernel's direct map is never touched.                    *)
(* FifoInv: the FIFO names mapped frames, each once.                       *)
(* FreedInv: a frame that a test has freed is on both lists; no call runs. *)
(* SlotInv: before the wrap the slot counter is ahead of every slot in use.*)
(***************************************************************************)
CallInv == call.active => outs + (call.n - call.i) <= MaxOuts

Maps(a, f) == pte[a].p /\ pte[a].n = f

MapInv ==
    /\ \A a \in User : pte[a].p /\ pte[a].n \in free => pte[a].n \in misfreed
    /\ \A a, b \in User : pte[a].p /\ Maps(b, pte[a].n) => a = b

TableInv ==
    /\ \A d \in Dirs : pde[d] \notin free
    /\ \A d \in Dirs, a \in User : ~Maps(a, pde[d])
    /\ \A d, e \in Dirs : pde[d] # Null /\ pde[d] = pde[e] => d = e

CoverInv ==
    \A f \in Frames :
        \/ f \in free
        \/ \E d \in Dirs : pde[d] = f
        \/ \E a \in User : Maps(a, f)

DirectMap == \A f \in Frames : pte[KAddr(f)] = Present(f)

Distinct(s) == \A i, j \in 1 .. Len(s) : s[i] = s[j] => i = j

FifoInv ==
    /\ Distinct(fifo)
    /\ \A i \in 1 .. Len(fifo) : \E a \in User : Maps(a, fifo[i])

FreedInv ==
    /\ misfreed \subseteq free
    /\ \A f \in misfreed : \E i \in 1 .. Len(fifo) : fifo[i] = f
    /\ call.active => misfreed = {}

SlotInv ==
    outs < max_swap_offset - 1 =>
        /\ swap_offset = outs + 1
        /\ \A a \in User : ~pte[a].p => pte[a].n <= outs

IInv ==
    /\ TypeOK
    /\ CallInv
    /\ MapInv
    /\ TableInv
    /\ CoverInv
    /\ DirectMap
    /\ FifoInv
    /\ FreedInv
    /\ TlbCoherent
    /\ SlotInv
    /\ DataIntactUntilWrap

-----------------------------------------------------------------------------
(***************************************************************************)
(* What the proofs use of the constants.                                   *)
(***************************************************************************)
LEMMA ConstantFacts ==
    /\ NUser \in Nat \ {0} /\ NFrames \in Nat /\ PerTable \in Nat \ {0}
    /\ max_swap_offset \in Nat /\ max_swap_offset > 1
    /\ MaxOuts \in Nat /\ MaxBatch \in Nat
    /\ Null \notin Nat
    /\ Frames \subseteq Nat /\ Null \notin Frames
    /\ User \subseteq Nat /\ User \subseteq Addrs
    /\ \A f \in Frames : KAddr(f) \in Addrs /\ KAddr(f) \in Nat
                         /\ KAddr(f) \notin User
    /\ \A a \in Addrs : a \in User \/ \E f \in Frames : a = KAddr(f)
    /\ \A a \in User, f \in Frames : a < KAddr(f)
    /\ \A a \in User : Dir(a) \in Dirs
<1>1. /\ NUser \in Nat \ {0} /\ NFrames \in Nat /\ PerTable \in Nat \ {0}
      /\ max_swap_offset \in Nat /\ max_swap_offset > 1
      /\ MaxOuts \in Nat /\ MaxBatch \in Nat
      /\ Null \notin Nat
  BY SwapAssumption
<1> QED
  BY <1>1 DEF Frames, User, KAddr, Addrs, Dirs

(***************************************************************************)
(* An entry is a record: present with a frame, or not, with a slot number. *)
(***************************************************************************)
LEMMA EntryFacts ==
    /\ \A f : Present(f).p = TRUE /\ Present(f).n = f
    /\ \A k : Entry(k).p = FALSE /\ Entry(k).n = k
    /\ \A f \in Frames : Present(f) \in [p : BOOLEAN, n : Nat]
    /\ \A k \in Nat : Entry(k) \in [p : BOOLEAN, n : Nat]
    /\ \A e \in [p : BOOLEAN, n : Nat] :
          /\ \A f : e = Present(f) <=> e.p /\ e.n = f
          /\ \A k : e = Entry(k) <=> ~e.p /\ e.n = k
<1> USE ConstantFacts
<1>1. \A e \in [p : BOOLEAN, n : Nat] : \A f : e.p /\ e.n = f => e = Present(f)
  BY DEF Present
<1>2. \A e \in [p : BOOLEAN, n : Nat] : \A k : ~e.p /\ e.n = k => e = Entry(k)
  BY DEF Entry
<1> QED
  BY <1>1, <1>2 DEF Present, Entry

(***************************************************************************)
(* The types of the tables, one fact each.                                 *)
(***************************************************************************)
LEMMA TypeFacts ==
    ASSUME TypeOK
    PROVE  /\ free \subseteq Frames
           /\ \A d \in Dirs : pde[d] \in Frames \cup {Null}
           /\ \A a \in Addrs : /\ pte[a] \in [p : BOOLEAN, n : Nat]
                               /\ pte[a].p \in BOOLEAN
                               /\ pte[a].n \in Nat
                               /\ pte[a].p => pte[a].n \in Frames
                               /\ ~pte[a].p => pte[a].n \in 0 .. max_swap_offset - 1
           /\ \A a \in User : tlb[a] \in Frames \cup {Null}
           /\ \A f \in Frames : mem[f] \in Values
           /\ \A s \in Slots : disk[s] \in Values
           /\ call.n \in Nat /\ call.i \in Nat /\ call.i <= call.n
           /\ outs \in Nat /\ outs <= MaxOuts
           /\ swap_offset \in Nat /\ swap_offset >= 1
           /\ swap_offset <= max_swap_offset - 1
<1>1. \A a \in Addrs : pte[a] \in [p : BOOLEAN, n : Nat]
  BY DEF TypeOK
<1>2. \A a \in Addrs : pte[a].p \in BOOLEAN /\ pte[a].n \in Nat
  BY <1>1
<1>3. \A a \in Addrs : /\ pte[a].p => pte[a].n \in Frames
                       /\ ~pte[a].p => pte[a].n \in 0 .. max_swap_offset - 1
  BY DEF TypeOK
<1>4. call \in [active : BOOLEAN, n : Nat, i : Nat] /\ call.i <= call.n
  BY DEF TypeOK
<1>5. call.n \in Nat /\ call.i \in Nat /\ call.i <= call.n
  BY <1>4
<1>6. /\ outs \in Nat /\ outs <= MaxOuts
      /\ swap_offset \in Nat /\ swap_offset >= 1
      /\ swap_offset <= max_swap_offset - 1
  BY ConstantFacts DEF TypeOK
<1>7. /\ free \subseteq Frames
      /\ \A d \in Dirs : pde[d] \in Frames \cup {Null}
      /\ \A a \in User : tlb[a] \in Frames \cup {Null}
      /\ \A f \in Frames : mem[f] \in Values
      /\ \A s \in Slots : disk[s] \in Values
  BY DEF TypeOK
<1> QED
  BY <1>1, <1>2, <1>3, <1>5, <1>6, <1>7

(***************************************************************************)
(* A swapped-out page names a slot other than 0.                           *)
(***************************************************************************)
LEMMA NotEmptyFacts ==
    ASSUME TypeOK, NEW a \in User, ~pte[a].p, pte[a] # Empty
    PROVE  pte[a].n # 0 /\ pte[a].n \in 0 .. max_swap_offset - 1
<1>1. a \in Addrs
  BY ConstantFacts
<1>2. pte[a] \in [p : BOOLEAN, n : Nat]
      /\ pte[a].n \in 0 .. max_swap_offset - 1
  BY <1>1, TypeFacts
<1> QED
  BY <1>2, EntryFacts DEF Empty

(***************************************************************************)
(* The user pages that map a frame, by the fields of their entries.        *)
(***************************************************************************)
LEMMA MappingFacts ==
    ASSUME TypeOK, NEW f
    PROVE  Mapping(f) = {a \in User : Maps(a, f)}
<1>1. \A a \in User : pte[a] \in [p : BOOLEAN, n : Nat]
  BY ConstantFacts, TypeFacts
<1>2. \A a \in User : pte[a] = Present(f) <=> Maps(a, f)
  BY <1>1, EntryFacts DEF Maps
<1> QED
  BY <1>2 DEF Mapping

(***************************************************************************)
(* The state swap_init_mm() leaves satisfies the invariant.                *)
(***************************************************************************)
LEMMA InitIInv == Init => IInv
<1> SUFFICES ASSUME Init PROVE IInv
  OBVIOUS
<1> USE ConstantFacts
<1>1. \A a \in User : pte[a] = Empty
  BY DEF Init
<1>2. \A f \in Frames : pte[KAddr(f)] = Present(f)
  BY DEF Init, KAddr
<1>3. \A a \in User : pte[a].p = FALSE /\ pte[a].n = 0
  BY <1>1, EntryFacts DEF Empty
<1>4. TypeOK
  <2>1. \A a \in Addrs : pte[a] \in [p : BOOLEAN, n : Nat]
    BY <1>1, <1>2, EntryFacts DEF Empty
  <2>2. pte \in [Addrs -> [p : BOOLEAN, n : Nat]]
    BY <2>1 DEF Init
  <2>3. \A a \in Addrs : IF pte[a].p THEN pte[a].n \in Frames
                         ELSE pte[a].n \in 0 .. max_swap_offset - 1
    BY <1>2, <1>3, EntryFacts
  <2>4. call \in [active : BOOLEAN, n : Nat, i : Nat] /\ call.i <= call.n
    BY DEF Init
  <2>5. fifo \in Seq(Frames)
    BY DEF Init
  <2>6. ref \in [Frames -> Nat] /\ tlb \in [User -> Frames \cup {Null}]
        /\ pde \in [Dirs -> Frames \cup {Null}]
        /\ written \in [User -> Values \cup {Null}]
    BY DEF Init
  <2>7. swap_offset \in 1 .. max_swap_offset - 1 /\ outs \in 0 .. MaxOuts
    BY DEF Init
  <2> QED
    BY <2>2, <2>3, <2>4, <2>5, <2>6, <2>7 DEF Init, TypeOK
<1>5. CallInv
  BY DEF Init, CallInv
<1>6. MapInv /\ CoverInv /\ DirectMap
  BY <1>2, <1>3 DEF Init, MapInv, CoverInv, DirectMap, Maps
<1>7. TableInv
  BY <1>3 DEF Init, TableInv, Maps
<1>8. FifoInv /\ FreedInv /\ TlbCoherent
  BY DEF Init, FifoInv, FreedInv, TlbCoherent, Distinct
<1>9. SlotInv
  <2>1. swap_offset = 1 /\ outs = 0
    BY DEF Init
  <2> QED
    BY <1>3, <2>1 DEF SlotInv
<1>10. DataIntactUntilWrap
  BY <1>1, <1>3 DEF DataIntactUntilWrap, DataIntact
<1> QED
  BY <1>4, <1>5, <1>6, <1>7, <1>8, <1>9, <1>10 DEF IInv

-----------------------------------------------------------------------------
(***************************************************************************)
(* page_insert() of a free frame at a page that is not present: the parts  *)
(* of the invariant that do not depend on what else the caller does.       *)
(***************************************************************************)
LEMMA InsertFacts ==
    ASSUME IInv, NEW a \in User, ~pte[a].p, NEW f \in free, PageInsert(a, f),
           free' \subseteq free \ {f}, UNCHANGED <<swap_offset, outs>>,
           misfreed = {}
    PROVE  /\ pte'[a].p /\ pte'[a].n = f
           /\ \A b \in Addrs \ {a} : pte'[b] = pte[b]
           /\ pte' \in [Addrs -> [p : BOOLEAN, n : Nat]]
           /\ \A b \in Addrs : IF pte'[b].p THEN pte'[b].n \in Frames
                               ELSE pte'[b].n \in 0 .. max_swap_offset - 1
           /\ tlb' \in [User -> Frames \cup {Null}]
           /\ MapInv' /\ DirectMap' /\ TlbCoherent' /\ SlotInv'
<1>0. TypeOK /\ f \in Frames /\ a \in Addrs
  BY ConstantFacts, TypeFacts DEF IInv
<1>1. pte' = [pte EXCEPT ![a] = Present(f)] /\ tlb' = [tlb EXCEPT ![a] = Null]
  BY DEF PageInsert
<1>2. pte'[a] = Present(f) /\ \A b \in Addrs \ {a} : pte'[b] = pte[b]
  BY <1>0, <1>1 DEF TypeOK
<1>3. pte'[a].p /\ pte'[a].n = f
  BY <1>2, EntryFacts
<1>4. pte' \in [Addrs -> [p : BOOLEAN, n : Nat]]
  BY <1>0, <1>1, EntryFacts DEF TypeOK
<1>5. \A b \in Addrs : IF pte'[b].p THEN pte'[b].n \in Frames
                       ELSE pte'[b].n \in 0 .. max_swap_offset - 1
  BY <1>0, <1>2, <1>3 DEF TypeOK
<1>6. tlb' \in [User -> Frames \cup {Null}]
  BY <1>0, <1>1 DEF TypeOK
<1>7. \A b \in User \ {a} : pte'[b] = pte[b]
  BY ConstantFacts, <1>2
<1>8. MapInv'
  BY <1>3, <1>7 DEF IInv, MapInv, Maps
<1>9. DirectMap'
  BY ConstantFacts, <1>2 DEF IInv, DirectMap
<1>10. TlbCoherent'
  <2>1. tlb'[a] = Null /\ \A b \in User \ {a} : tlb'[b] = tlb[b]
    BY <1>0, <1>1 DEF TypeOK
  <2> QED
    BY <1>7, <2>1 DEF IInv, TlbCoherent
<1>11. SlotInv'
  BY <1>3, <1>7 DEF IInv, SlotInv
<1> QED
  BY <1>2, <1>3, <1>4, <1>5, <1>6, <1>8, <1>9, <1>10, <1>11

(***************************************************************************)
(* get_pte(.., 1) and page_insert(): a page table t, new or there already, *)
(* and a page f, both taken from the allocator.                            *)
(***************************************************************************)
LEMMA InsertWithTable ==
    ASSUME IInv, NEW a \in User, ~pte[a].p, misfreed = {},
           NEW f \in free,
           NEW t \in Frames, t # f, t \in free \/ pde[Dir(a)] = t,
           pde[Dir(a)] # Null => pde[Dir(a)] = t,
           pde' = [pde EXCEPT ![Dir(a)] = t], free' = free \ {t, f},
           pte'[a].p, pte'[a].n = f, \A b \in User \ {a} : pte'[b] = pte[b],
           ref' = [ref EXCEPT ![t] = IF t \in free THEN 1 ELSE @, ![f] = @ + 1]
    PROVE  /\ pde' \in [Dirs -> Frames \cup {Null}]
           /\ ref' \in [Frames -> Nat]
           /\ free' \subseteq free \ {f}
           /\ TableInv' /\ CoverInv'
<1>1. TypeOK /\ Dir(a) \in Dirs
  BY ConstantFacts DEF IInv
<1>2. f \in Frames
  BY <1>1, TypeFacts
<1>3. /\ pde'[Dir(a)] = t /\ \A d \in Dirs \ {Dir(a)} : pde'[d] = pde[d]
      /\ pde' \in [Dirs -> Frames \cup {Null}]
  BY <1>1, <1>2 DEF TypeOK
<1>4. ref' \in [Frames -> Nat]
  <2> DEFINE x == IF t \in free THEN 1 ELSE ref[t]
  <2>1. ref \in [Frames -> Nat] /\ x \in Nat
    BY <1>1, <1>2 DEF TypeOK
  <2>2. ref' = [ref EXCEPT ![t] = x, ![f] = @ + 1]
    OBVIOUS
  <2> HIDE DEF x
  <2> QED
    BY <2>1, <2>2, <1>2
<1>5. TableInv'
  <2>1. \A d \in Dirs : pde'[d] \notin free'
    BY <1>3 DEF IInv, TableInv
  <2>2. \A d \in Dirs, b \in User : ~(pte'[b].p /\ pte'[b].n = pde'[d])
    <3>1. \A d \in Dirs : pde'[d] # f
      BY <1>2, <1>3 DEF IInv, TableInv
    <3>2. \A b \in User : ~(pte[b].p /\ pte[b].n = t)
      BY <1>1, <1>2 DEF IInv, TableInv, MapInv, Maps
    <3>3. \A d \in Dirs, b \in User : ~(pte[b].p /\ pte[b].n = pde[d])
      BY DEF IInv, TableInv, Maps
    <3> QED
      BY <1>3, <3>1, <3>2, <3>3
  <2>3. \A d, e \in Dirs : pde'[d] # Null /\ pde'[d] = pde'[e] => d = e
    <3>1. \A d \in Dirs \ {Dir(a)} : pde[d] # t
      BY <1>1, <1>2, ConstantFacts DEF IInv, TableInv
    <3> QED
      BY <1>3, <3>1 DEF IInv, TableInv
  <2> QED
    BY <2>1, <2>2, <2>3 DEF TableInv, Maps
<1>6. CoverInv'
  <2> SUFFICES ASSUME NEW g \in Frames
               PROVE  (g \in free \/ (\E d \in Dirs : pde[d] = g)
                       \/ \E b \in User : Maps(b, g))'
    BY DEF CoverInv
  <2>1. CASE g = f
    BY <2>1 DEF Maps
  <2>2. CASE g = t
    BY <1>1, <1>3, <2>2
  <2>3. CASE \E b \in User : Maps(b, g)
    BY <2>3 DEF Maps
  <2>4. CASE \E d \in Dirs : pde[d] = g
    BY ConstantFacts, <1>2, <1>3, <2>2, <2>4
  <2>5. CASE g # f /\ g # t /\ g \in free
    BY <2>5
  <2> QED
    BY <2>1, <2>2, <2>3, <2>4, <2>5 DEF IInv, CoverInv
<1> QED
  BY <1>3, <1>4, <1>5, <1>6

(***************************************************************************)
(* page_insert() where the page table is there.                            *)
(***************************************************************************)
LEMMA InsertInTable ==
    ASSUME IInv, NEW a \in User, NEW f \in free, free' = free \ {f}, pde' = pde,
           ~pte[a].p, pte'[a].p, pte'[a].n = f,
           \A b \in User \ {a} : pte'[b] = pte[b]
    PROVE  TableInv' /\ CoverInv'
<1>1. TableInv'
  BY DEF IInv, TableInv, Maps
<1>2. CoverInv'
  <2> SUFFICES ASSUME NEW g \in Frames
               PROVE  (g \in free \/ (\E d \in Dirs : pde[d] = g)
                       \/ \E b \in User : Maps(b, g))'
    BY DEF CoverInv
  <2>1. CASE g = f
    BY <2>1 DEF Maps
  <2>2. CASE \E b \in User : Maps(b, g)
    BY <2>2 DEF Maps
  <2>3. CASE g # f /\ (g \in free \/ \E d \in Dirs : pde[d] = g)
    BY <2>3
  <2> QED
    BY <2>1, <2>2, <2>3 DEF IInv, CoverInv
<1> QED
  BY <1>1, <1>2

(***************************************************************************)
(* A page that is mapped and linked at the end of the FIFO: swap_in() and  *)
(* the kernel's own mappings.                                              *)
(***************************************************************************)
LEMMA InsertLinked ==
    ASSUME IInv, NEW a \in User, ~pte[a].p, NEW f \in free,
           free' \subseteq free \ {f}, PageInsert(a, f),
           fifo' = Append(fifo, f),
           UNCHANGED <<swap_offset, outs, call>>, misfreed = {}
    PROVE  FifoInv' /\ CallInv' /\ fifo' \in Seq(Frames)
<1>1. /\ pte'[a].p /\ pte'[a].n = f
      /\ \A b \in User \ {a} : pte'[b] = pte[b]
  BY ConstantFacts, InsertFacts
<1>2. TypeOK /\ f \in Frames
  BY TypeFacts DEF IInv
<1>3. /\ fifo' \in Seq(Frames) /\ Len(fifo) \in Nat /\ Len(fifo') = Len(fifo) + 1
      /\ \A i \in 1 .. Len(fifo) : fifo'[i] = fifo[i]
      /\ fifo'[Len(fifo) + 1] = f
  <2>1. fifo \in Seq(Frames)
    BY <1>2 DEF TypeOK
  <2> QED
    BY <1>2, <2>1, AppendProperties, LenProperties
<1>4. \A i \in 1 .. Len(fifo) : fifo[i] # f /\ \E b \in User \ {a} : Maps(b, fifo[i])
  BY DEF IInv, FifoInv, MapInv, Maps
<1>5. \A i \in 1 .. Len(fifo') : i \in 1 .. Len(fifo) \/ i = Len(fifo) + 1
  BY <1>3
<1>6. \A i \in 1 .. Len(fifo') : \E b \in User : pte'[b].p /\ pte'[b].n = fifo'[i]
  <2> TAKE i \in 1 .. Len(fifo')
  <2>1. CASE i \in 1 .. Len(fifo)
    <3>1. PICK b \in User \ {a} : pte[b].p /\ pte[b].n = fifo[i]
      BY <1>4, <2>1 DEF Maps
    <3>2. pte'[b] = pte[b] /\ fifo'[i] = fifo[i]
      BY <1>1, <1>3, <2>1
    <3> QED
      BY <3>1, <3>2
  <2>2. CASE i = Len(fifo) + 1
    BY <1>1, <1>3, <2>2
  <2> QED
    BY <1>5, <2>1, <2>2
<1>7. Distinct(fifo)'
  BY <1>3, <1>4, <1>5 DEF IInv, FifoInv, Distinct
<1>8. FifoInv'
  BY <1>6, <1>7 DEF FifoInv, Maps
<1> QED
  BY <1>3, <1>8 DEF IInv, CallInv

(***************************************************************************)
(* A fault on a page that was never mapped.                                *)
(***************************************************************************)
LEMMA FaultDemandStep ==
    ASSUME IInv, NEW a \in User, FaultDemand(a) PROVE IInv'
<1>1. TypeOK /\ a \in Addrs /\ Dir(a) \in Dirs
  BY ConstantFacts DEF IInv
<1>2. ~pte[a].p /\ pte[a].n = 0
  BY EntryFacts DEF FaultDemand, Empty
<1>3. PICK t \in IF pde[Dir(a)] = Null THEN free ELSE {pde[Dir(a)]} :
      \E f \in free \ {t} :
          /\ pde' = [pde EXCEPT ![Dir(a)] = t]
          /\ free' = free \ {t, f}
          /\ PageInsert(a, f)
          /\ ref' = [ref EXCEPT ![t] = IF t \in free THEN 1 ELSE @,
                                ![f] = @ + 1]
          /\ written' = [written EXCEPT ![a] = mem[f]]
  BY DEF FaultDemand
<1>4. PICK f \in free \ {t} :
          /\ pde' = [pde EXCEPT ![Dir(a)] = t]
          /\ free' = free \ {t, f}
          /\ PageInsert(a, f)
          /\ ref' = [ref EXCEPT ![t] = IF t \in free THEN 1 ELSE @,
                                ![f] = @ + 1]
          /\ written' = [written EXCEPT ![a] = mem[f]]
  BY <1>3
<1>5. UNCHANGED <<fifo, mem, disk, swap_offset, call, outs, misfreed>> /\ misfreed = {}
  BY DEF FaultDemand, Faulting, ListsApart
<1>6. f \in Frames /\ f \in free /\ f # t /\ t \in Frames
      /\ (t \in free \/ pde[Dir(a)] = t)
      /\ (pde[Dir(a)] # Null => pde[Dir(a)] = t)
  BY <1>1, TypeFacts
<1>7. /\ pte'[a].p /\ pte'[a].n = f
      /\ \A b \in Addrs \ {a} : pte'[b] = pte[b]
      /\ pte' \in [Addrs -> [p : BOOLEAN, n : Nat]]
      /\ \A b \in Addrs : IF pte'[b].p THEN pte'[b].n \in Frames
                          ELSE pte'[b].n \in 0 .. max_swap_offset - 1
      /\ tlb' \in [User -> Frames \cup {Null}]
      /\ MapInv' /\ DirectMap' /\ TlbCoherent' /\ SlotInv'
  <2>1. free' \subseteq free \ {f}
    BY <1>4
  <2> QED
    BY <1>2, <1>4, <1>5, <1>6, <2>1, InsertFacts
<1>8. \A b \in User \ {a} : pte'[b] = pte[b]
  BY ConstantFacts, <1>7
<1>9. /\ pde' \in [Dirs -> Frames \cup {Null}] /\ ref' \in [Frames -> Nat]
      /\ TableInv' /\ CoverInv'
  BY <1>2, <1>4, <1>5, <1>6, <1>7, <1>8, InsertWithTable
<1>10. TypeOK'
  <2>1. written' \in [User -> Values \cup {Null}]
    BY <1>1, <1>4, <1>6 DEF TypeOK
  <2>2. free' \subseteq Frames /\ misfreed' \subseteq Frames
    BY <1>1, <1>4, <1>5 DEF TypeOK
  <2>3. /\ fifo' \in Seq(Frames)
        /\ mem' \in [Frames -> Values] /\ disk' \in [Slots -> Values]
        /\ swap_offset' \in 1 .. max_swap_offset - 1
        /\ call' \in [active : BOOLEAN, n : Nat, i : Nat]
        /\ call'.i <= call'.n
        /\ outs' \in 0 .. MaxOuts
    BY <1>1, <1>5 DEF TypeOK
  <2> QED
    BY <1>7, <1>9, <2>1, <2>2, <2>3 DEF TypeOK
<1>11. FifoInv'
  <2>1. \A i \in 1 .. Len(fifo) : \E b \in User \ {a} : Maps(b, fifo[i])
    BY <1>2 DEF IInv, FifoInv, Maps
  <2>2. \A i \in 1 .. Len(fifo) : \E b \in User : pte'[b].p /\ pte'[b].n = fifo[i]
    BY <1>8, <2>1 DEF Maps
  <2> QED
    BY <1>5, <2>2 DEF IInv, FifoInv, Maps, Distinct
<1>12. DataIntactUntilWrap'
  <2>1. /\ written'[a] = mem[f] /\ mem' = mem /\ disk' = disk
        /\ \A b \in User \ {a} : written'[b] = written[b]
    BY <1>1, <1>4, <1>5 DEF TypeOK
  <2>2. DataIntact => DataIntact'
    BY <1>7, <1>8, <2>1 DEF DataIntact
  <2> QED
    BY <1>5, <2>2 DEF IInv, DataIntactUntilWrap
<1>13. CallInv' /\ FreedInv'
  BY <1>5 DEF IInv, CallInv, FreedInv
<1> QED
  BY <1>7, <1>9, <1>10, <1>11, <1>12, <1>13 DEF IInv

(***************************************************************************)
(* A fault for which only the page table could be allocated.               *)
(***************************************************************************)
LEMMA FaultTableOnlyStep ==
    ASSUME IInv, NEW a \in User, FaultTableOnly(a) PROVE IInv'
<1>1. TypeOK /\ Dir(a) \in Dirs /\ pde[Dir(a)] = Null
  BY ConstantFacts DEF IInv, FaultTableOnly
<1>2. PICK t \in free :
          /\ free = {t}
          /\ pde' = [pde EXCEPT ![Dir(a)] = t]
          /\ free' = {}
          /\ ref' = [ref EXCEPT ![t] = 1]
  BY DEF FaultTableOnly
<1>3. UNCHANGED <<pte, tlb, fifo, mem, disk, swap_offset, call, outs, written, misfreed>>
      /\ misfreed = {}
  BY DEF FaultTableOnly, Faulting, ListsApart
<1>4. t \in Frames
  BY <1>1, TypeFacts
<1>5. /\ pde'[Dir(a)] = t /\ \A d \in Dirs \ {Dir(a)} : pde'[d] = pde[d]
      /\ pde' \in [Dirs -> Frames \cup {Null}]
  BY <1>1, <1>2, <1>4 DEF TypeOK
<1>6. TypeOK'
  BY <1>1, <1>2, <1>3, <1>4, <1>5 DEF TypeOK
<1>7. /\ MapInv' /\ DirectMap' /\ FifoInv' /\ FreedInv' /\ TlbCoherent' /\ SlotInv'
      /\ CallInv'
  BY <1>2, <1>3
     DEF IInv, MapInv, DirectMap, FifoInv, FreedInv, TlbCoherent, SlotInv, CallInv,
         Maps, Distinct
<1>8. DataIntactUntilWrap'
  BY <1>3 DEF IInv, DataIntactUntilWrap, DataIntact
<1>9. TableInv'
  <2>1. \A b \in User : ~(pte[b].p /\ pte[b].n = t)
    BY <1>2, <1>3 DEF IInv, MapInv
  <2>2. \A d \in Dirs : pde[d] # t
    BY <1>2 DEF IInv, TableInv
  <2> QED
    BY <1>2, <1>3, <1>5, <2>1, <2>2 DEF IInv, TableInv, Maps
<1>10. CoverInv'
  <2> SUFFICES ASSUME NEW g \in Frames
               PROVE  (\E d \in Dirs : pde'[d] = g)
                      \/ \E b \in User : pte[b].p /\ pte[b].n = g
    BY <1>3 DEF CoverInv, Maps
  <2>1. CASE g = t
    BY <1>1, <1>5, <2>1
  <2>2. CASE \E d \in Dirs : pde[d] = g
    BY ConstantFacts, <1>1, <1>5, <2>2
  <2> QED
    BY <1>2, <2>1, <2>2 DEF IInv, CoverInv, Maps
<1> QED
  BY <1>6, <1>7, <1>8, <1>9, <1>10 DEF IInv

(***************************************************************************)
(* A page in, with contents v: what swap_in() and a kernel mapping share.  *)
(***************************************************************************)
LEMMA PageInStep ==
    ASSUME IInv, NEW a \in User, ~pte[a].p, NEW f \in free, NEW v \in Values,
           free' \subseteq free \ {f}, mem' = [mem EXCEPT ![f] = v],
           PageInsert(a, f), fifo' = Append(fifo, f),
           pde' \in [Dirs -> Frames \cup {Null}], ref' \in [Frames -> Nat],
           TableInv', CoverInv',
           UNCHANGED <<disk, swap_offset, call, outs, misfreed>>, misfreed = {},
           written' \in [User -> Values \cup {Null}],
           \A b \in User \ {a} : written'[b] = written[b],
           DataIntactUntilWrap /\ outs < max_swap_offset - 1 => written'[a] = v
    PROVE  IInv'
<1>1. TypeOK /\ f \in Frames /\ a \in Addrs
  BY ConstantFacts, TypeFacts DEF IInv
<1>2. /\ pte'[a].p /\ pte'[a].n = f
      /\ \A b \in Addrs \ {a} : pte'[b] = pte[b]
      /\ pte' \in [Addrs -> [p : BOOLEAN, n : Nat]]
      /\ \A b \in Addrs : IF pte'[b].p THEN pte'[b].n \in Frames
                          ELSE pte'[b].n \in 0 .. max_swap_offset - 1
      /\ tlb' \in [User -> Frames \cup {Null}]
      /\ MapInv' /\ DirectMap' /\ TlbCoherent' /\ SlotInv'
  BY InsertFacts
<1>3. FifoInv' /\ CallInv' /\ fifo' \in Seq(Frames)
  BY InsertLinked
<1>4. /\ mem' \in [Frames -> Values] /\ mem'[f] = v
      /\ \A g \in Frames \ {f} : mem'[g] = mem[g]
  BY <1>1 DEF TypeOK
<1>5. TypeOK'
  <2>1. free' \subseteq Frames /\ disk' \in [Slots -> Values] /\ misfreed' \subseteq Frames
        /\ swap_offset' \in 1 .. max_swap_offset - 1
        /\ call' \in [active : BOOLEAN, n : Nat, i : Nat]
        /\ call'.i <= call'.n
        /\ outs' \in 0 .. MaxOuts
    BY <1>1 DEF TypeOK
  <2> QED
    BY <1>2, <1>3, <1>4, <2>1 DEF TypeOK
<1>6. DataIntactUntilWrap'
  <2> SUFFICES ASSUME outs < max_swap_offset - 1 PROVE DataIntact'
    BY DEF DataIntactUntilWrap
  <2>1. DataIntact /\ written'[a] = v
    BY DEF IInv, DataIntactUntilWrap
  <2>2. \A b \in User \ {a} : /\ pte'[b] = pte[b]
                              /\ pte[b].p => pte[b].n \in Frames \ {f}
    BY ConstantFacts, <1>1, <1>2, TypeFacts DEF IInv, MapInv
  <2>3. \A b \in User \ {a} :
           IF pte'[b].p THEN mem'[pte'[b].n] = written'[b]
           ELSE pte'[b] # Empty => disk'[pte'[b].n] = written'[b]
    BY <1>4, <2>1, <2>2 DEF DataIntact
  <2>4. mem'[pte'[a].n] = written'[a]
    BY <1>2, <1>4, <2>1
  <2> QED
    BY <1>2, <2>3, <2>4 DEF DataIntact, Empty, Entry
<1>7. FreedInv'
  BY DEF FreedInv
<1> QED
  BY <1>2, <1>3, <1>5, <1>6, <1>7 DEF IInv

(***************************************************************************)
(* swap_in() on a fault: the slot holds what the page should contain.      *)
(***************************************************************************)
LEMMA FaultSwapInStep ==
    ASSUME IInv, NEW a \in User, FaultSwapIn(a) PROVE IInv'
<1>1. PICK f \in free :
          /\ free' = free \ {f}
          /\ mem' = [mem EXCEPT ![f] = SwapfsRead(pte[a])]
          /\ PageInsert(a, f)
          /\ ref' = [ref EXCEPT ![f] = @ + 1]
          /\ fifo' = Append(fifo, f)
  BY DEF FaultSwapIn
<1>2. ~pte[a].p /\ pte[a] # Empty /\ misfreed = {}
      /\ UNCHANGED <<pde, disk, swap_offset, call, outs, written, misfreed>>
  BY DEF FaultSwapIn, Faulting, ListsApart
<1>3. TypeOK /\ a \in Addrs
  BY ConstantFacts DEF IInv
<1>4. pte[a].n \in Slots
  <2>1. pte[a].n # 0 /\ pte[a].n \in 0 .. max_swap_offset - 1
    BY <1>2, <1>3, NotEmptyFacts
  <2> QED
    BY <2>1 DEF Slots
<1> DEFINE v == disk[pte[a].n]
<1>5. v \in Values
  BY <1>3, <1>4 DEF TypeOK
<1>6. DataIntactUntilWrap /\ outs < max_swap_offset - 1 => written[a] = v
  BY <1>2 DEF DataIntactUntilWrap, DataIntact
<1>7. mem' = [mem EXCEPT ![f] = v]
  BY <1>1 DEF SwapfsRead
<1>8. written' \in [User -> Values \cup {Null}]
      /\ (\A b \in User \ {a} : written'[b] = written[b])
      /\ (DataIntactUntilWrap /\ outs < max_swap_offset - 1 => written'[a] = v)
  BY <1>2, <1>3, <1>6 DEF TypeOK
<1>9. UNCHANGED <<disk, swap_offset, call, outs, misfreed>>
      /\ free' \subseteq free \ {f}
  BY <1>1, <1>2
<1>10. /\ pte'[a].p /\ pte'[a].n = f
       /\ \A b \in User \ {a} : pte'[b] = pte[b]
  BY <1>1, <1>2, <1>9, ConstantFacts, InsertFacts
<1>11. TableInv' /\ CoverInv'
  BY <1>1, <1>2, <1>10, InsertInTable
<1>12. pde' \in [Dirs -> Frames \cup {Null}] /\ ref' \in [Frames -> Nat]
  BY <1>1, <1>2, <1>3, TypeFacts DEF TypeOK
<1> HIDE DEF v
<1> QED
  BY <1>1, <1>2, <1>5, <1>7, <1>8, <1>9, <1>11, <1>12, PageInStep

(***************************************************************************)
(* A kernel caller maps a page it has filled.                              *)
(***************************************************************************)
LEMMA MapPageStep ==
    ASSUME IInv, NEW a \in User, NEW v \in Values, MapPage(a, v) PROVE IInv'
<1> DEFINE Taken(f, t) ==
          /\ pde' = [pde EXCEPT ![Dir(a)] = t]
          /\ free' = free \ {t, f}
          /\ mem' = [mem EXCEPT ![f] = v]
          /\ PageInsert(a, f)
          /\ ref' = [ref EXCEPT ![t] = IF t \in free THEN 1 ELSE @,
                                ![f] = @ + 1]
          /\ fifo' = Append(fifo, f)
<1>1. PICK f \in free :
         \E t \in IF pde[Dir(a)] = Null THEN free \ {f} ELSE {pde[Dir(a)]} : Taken(f, t)
  BY DEF MapPage
<1>2. PICK t \in IF pde[Dir(a)] = Null THEN free \ {f} ELSE {pde[Dir(a)]} : Taken(f, t)
  BY <1>1
<1>3. ~pte[a].p
  BY EntryFacts DEF MapPage, Empty
<1>4. TypeOK /\ written' = [written EXCEPT ![a] = v] /\ misfreed = {}
      /\ UNCHANGED <<disk, swap_offset, call, outs, misfreed>>
  BY DEF IInv, MapPage, ListsApart
<1>5. written' \in [User -> Values \cup {Null}]
      /\ (\A b \in User \ {a} : written'[b] = written[b])
      /\ written'[a] = v
  BY <1>4 DEF TypeOK
<1>6. /\ free' \subseteq free \ {f}
      /\ pte'[a].p /\ pte'[a].n = f
      /\ \A b \in User \ {a} : pte'[b] = pte[b]
  BY <1>2, <1>3, <1>4, ConstantFacts, InsertFacts
<1>7. /\ pde' \in [Dirs -> Frames \cup {Null}] /\ ref' \in [Frames -> Nat]
      /\ TableInv' /\ CoverInv'
  <2>1. /\ pde' = [pde EXCEPT ![Dir(a)] = t] /\ free' = free \ {t, f}
        /\ ref' = [ref EXCEPT ![t] = IF t \in free THEN 1 ELSE @, ![f] = @ + 1]
    BY <1>2
  <2>2. t \in Frames /\ t # f /\ (t \in free \/ pde[Dir(a)] = t)
        /\ (pde[Dir(a)] # Null => pde[Dir(a)] = t)
    BY <1>4, ConstantFacts, TypeFacts DEF IInv, TableInv
  <2> HIDE DEF Taken
  <2> QED
    BY <1>3, <1>4, <1>6, <2>1, <2>2, InsertWithTable
<1>8. mem' = [mem EXCEPT ![f] = v] /\ PageInsert(a, f) /\ fifo' = Append(fifo, f)
  BY <1>2
<1>9. DataIntactUntilWrap /\ outs < max_swap_offset - 1 => written'[a] = v
  BY <1>5
<1> HIDE DEF Taken
<1> QED
  BY <1>3, <1>4, <1>5, <1>6, <1>7, <1>8, <1>9, PageInStep

(***************************************************************************)
(* A failed read spoils a free frame and nothing else.                     *)
(***************************************************************************)
LEMMA FaultReadErrorStep ==
    ASSUME IInv, NEW a \in User, FaultReadError(a) PROVE IInv'
<1>1. PICK f \in free, v \in Values : mem' = [mem EXCEPT ![f] = v]
  BY DEF FaultReadError
<1>2. UNCHANGED <<free, pde, pte, tlb, ref, fifo, disk, swap_offset, call, outs,
                  written, misfreed>> /\ misfreed = {}
  BY DEF FaultReadError, Faulting, ListsApart
<1>3. TypeOK /\ f \in Frames
  BY TypeFacts DEF IInv
<1>4. /\ mem' \in [Frames -> Values]
      /\ \A g \in Frames \ {f} : mem'[g] = mem[g]
  BY <1>1, <1>3 DEF TypeOK
<1>5. TypeOK'
  BY <1>2, <1>3, <1>4 DEF TypeOK
<1>6. /\ MapInv' /\ TableInv' /\ CoverInv' /\ DirectMap' /\ FifoInv'
      /\ TlbCoherent' /\ SlotInv' /\ CallInv' /\ FreedInv'
  BY <1>2
     DEF IInv, MapInv, TableInv, CoverInv, DirectMap, FifoInv, FreedInv, TlbCoherent,
         SlotInv, CallInv, Maps, Distinct
<1>7. \A b \in User : pte[b].p => pte[b].n \in Frames \ {f}
  BY ConstantFacts, <1>2, <1>3, TypeFacts DEF IInv, MapInv
<1>8. DataIntactUntilWrap'
  BY <1>2, <1>4, <1>7 DEF IInv, DataIntactUntilWrap, DataIntact
<1> QED
  BY <1>5, <1>6, <1>8 DEF IInv

(***************************************************************************)
(* The processor caches a translation, or drops one.                       *)
(***************************************************************************)
LEMMA TlbStep ==
    ASSUME IInv, NEW a \in User, Walk(a) \/ Evict(a) PROVE IInv'
<1>1. UNCHANGED <<free, pde, pte, ref, fifo, mem, disk, swap_offset, call, outs,
                  written, misfreed>>
  BY DEF Walk, Evict
<1>2. TypeOK /\ a \in Addrs
  BY ConstantFacts DEF IInv
<1>3. PICK x \in Frames \cup {Null} :
         /\ tlb' = [tlb EXCEPT ![a] = x]
         /\ x # Null => pte[a] = Present(x)
  <2>1. CASE Walk(a)
    <3>1. tlb' = [tlb EXCEPT ![a] = pte[a].n] /\ pte[a].p
      BY <2>1 DEF Walk
    <3>2. pte[a].n \in Frames \cup {Null} /\ pte[a] = Present(pte[a].n)
      BY <1>2, <3>1, TypeFacts, EntryFacts
    <3> QED
      BY <3>1, <3>2
  <2>2. CASE Evict(a)
    BY <2>2 DEF Evict
  <2> QED
    BY <2>1, <2>2
<1>4. /\ tlb' \in [User -> Frames \cup {Null}] /\ tlb'[a] = x
      /\ \A b \in User \ {a} : tlb'[b] = tlb[b]
  BY <1>2, <1>3 DEF TypeOK
<1>5. TypeOK'
  BY <1>1, <1>2, <1>4 DEF TypeOK
<1>6. /\ MapInv' /\ TableInv' /\ CoverInv' /\ DirectMap' /\ FifoInv'
      /\ SlotInv' /\ CallInv' /\ FreedInv'
  BY <1>1
     DEF IInv, MapInv, TableInv, CoverInv, DirectMap, FifoInv, FreedInv,
         SlotInv, CallInv, Maps, Distinct
<1>7. DataIntactUntilWrap'
  BY <1>1 DEF IInv, DataIntactUntilWrap, DataIntact
<1>8. TlbCoherent'
  BY <1>1, <1>3, <1>4 DEF IInv, TlbCoherent
<1> QED
  BY <1>5, <1>6, <1>7, <1>8 DEF IInv

(***************************************************************************)
(* A process writes through a cached translation: into its own frame.      *)
(***************************************************************************)
LEMMA WriteStep ==
    ASSUME IInv, NEW a \in User, NEW v \in Values, Write(a, v) PROVE IInv'
<1>1. UNCHANGED <<free, pde, pte, tlb, ref, fifo, disk, swap_offset, call, outs,
                  misfreed>>
  BY DEF Write
<1>2. TypeOK /\ a \in Addrs /\ tlb[a] # Null
  BY ConstantFacts DEF IInv, Write
<1>3. tlb[a] \in Frames /\ pte[a].p /\ pte[a].n = tlb[a]
  BY <1>2, TypeFacts, EntryFacts DEF IInv, TlbCoherent
<1>4. mem' = [mem EXCEPT ![tlb[a]] = v] /\ written' = [written EXCEPT ![a] = v]
  BY DEF Write
<1>5. /\ mem' \in [Frames -> Values] /\ mem'[tlb[a]] = v
      /\ \A g \in Frames \ {tlb[a]} : mem'[g] = mem[g]
      /\ written' \in [User -> Values \cup {Null}] /\ written'[a] = v
      /\ \A b \in User \ {a} : written'[b] = written[b]
  BY <1>2, <1>3, <1>4 DEF TypeOK
<1>6. TypeOK'
  BY <1>1, <1>2, <1>5 DEF TypeOK
<1>7. /\ MapInv' /\ TableInv' /\ CoverInv' /\ DirectMap' /\ FifoInv'
      /\ TlbCoherent' /\ SlotInv' /\ CallInv' /\ FreedInv'
  BY <1>1
     DEF IInv, MapInv, TableInv, CoverInv, DirectMap, FifoInv, FreedInv, TlbCoherent,
         SlotInv, CallInv, Maps, Distinct
<1>8. \A b \in User \ {a} : pte[b].p => pte[b].n \in Frames \ {tlb[a]}
  BY ConstantFacts, <1>2, <1>3, TypeFacts DEF IInv, MapInv, Maps
<1>9. DataIntactUntilWrap'
  <2>1. DataIntact => DataIntact'
    BY <1>1, <1>3, <1>5, <1>8 DEF DataIntact
  <2> QED
    BY <1>1, <2>1 DEF IInv, DataIntactUntilWrap
<1> QED
  BY <1>6, <1>7, <1>9 DEF IInv

(***************************************************************************)
(* swap_init_mm() empties the FIFO.                                        *)
(***************************************************************************)
LEMMA SwapInitMmStep ==
    ASSUME IInv, SwapInitMm PROVE IInv'
<1>1. UNCHANGED <<free, pde, pte, tlb, ref, mem, disk, swap_offset, call, outs,
                  written, misfreed>>
      /\ misfreed = {} /\ fifo' = << >>
  BY DEF SwapInitMm, ListsApart
<1>2. TypeOK'
  BY <1>1 DEF IInv, TypeOK
<1>3. FifoInv'
  BY <1>1 DEF FifoInv, Distinct
<1>4. /\ MapInv' /\ TableInv' /\ CoverInv' /\ DirectMap'
      /\ TlbCoherent' /\ SlotInv' /\ CallInv' /\ FreedInv'
  BY <1>1
     DEF IInv, MapInv, TableInv, CoverInv, DirectMap, FreedInv, TlbCoherent,
         SlotInv, CallInv, Maps
<1>5. DataIntactUntilWrap'
  BY <1>1 DEF IInv, DataIntactUntilWrap, DataIntact
<1> QED
  BY <1>2, <1>3, <1>4, <1>5 DEF IInv

(***************************************************************************)
(* A test frees a page that is mapped and on the FIFO.                     *)
(***************************************************************************)
LEMMA FreeSwappedInStep ==
    ASSUME IInv, NEW a \in User, FreeSwappedIn(a) PROVE IInv'
<1>1. UNCHANGED <<pde, pte, tlb, ref, fifo, mem, disk, swap_offset, call, outs,
                  written>>
      /\ misfreed = {} /\ ~call.active /\ pte[a].p
  BY DEF FreeSwappedIn, ListsApart
<1>2. PICK f \in Frames : f = pte[a].n
  BY <1>1, ConstantFacts, TypeFacts DEF IInv
<1>3. free' = free \cup {f} /\ misfreed' = {f} /\ f \in ToSet(fifo)
  BY <1>2 DEF FreeSwappedIn
<1>4. TypeOK'
  BY <1>1, <1>2, <1>3 DEF IInv, TypeOK
<1>5. FreedInv'
  <2>1. fifo \in Seq(Frames)
    BY DEF IInv, TypeOK
  <2> QED
    BY <1>1, <1>3, <2>1 DEF FreedInv, ToSet
<1>6. MapInv'
  BY <1>1, <1>2, <1>3 DEF IInv, MapInv, Maps
<1>7. TableInv'
  BY <1>1, <1>2, <1>3 DEF IInv, TableInv, Maps
<1>8. /\ CoverInv' /\ DirectMap' /\ FifoInv'
      /\ TlbCoherent' /\ SlotInv' /\ CallInv'
  BY <1>1, <1>3
     DEF IInv, CoverInv, DirectMap, FifoInv, TlbCoherent,
         SlotInv, CallInv, Maps, Distinct
<1>9. DataIntactUntilWrap'
  BY <1>1 DEF IInv, DataIntactUntilWrap, DataIntact
<1> QED
  BY <1>4, <1>5, <1>6, <1>7, <1>8, <1>9 DEF IInv

-----------------------------------------------------------------------------
(***************************************************************************)
(* find_vaddr_for_page() of a page in the FIFO finds the user page that    *)
(* maps it, not the direct map: user addresses are lower.                  *)
(***************************************************************************)
LEMMA VictimFacts ==
    ASSUME IInv, fifo # << >>, misfreed = {}
    PROVE  /\ Victim \in Frames /\ Victim \notin free
           /\ FindVaddr(Victim) \in User
           /\ Maps(FindVaddr(Victim), Victim)
           /\ fifo' = Tail(fifo) =>
                /\ fifo' \in Seq(Frames)
                /\ Distinct(fifo')
                /\ \A i \in 1 .. Len(fifo') :
                      /\ fifo'[i] # Victim
                      /\ \E b \in User : Maps(b, fifo'[i])
<1>1. TypeOK /\ fifo \in Seq(Frames)
  BY DEF IInv, TypeOK
<1>2. /\ Len(fifo) \in Nat /\ Len(fifo) >= 1 /\ Victim = fifo[1]
      /\ Tail(fifo) \in Seq(Frames) /\ Len(Tail(fifo)) = Len(fifo) - 1
      /\ \A i \in 1 .. Len(fifo) - 1 : Tail(fifo)[i] = fifo[i + 1]
  BY <1>1 DEF Victim
<1>3. 1 \in 1 .. Len(fifo) /\ fifo[1] \in Frames
  BY <1>1, <1>2
<1>4. PICK a \in User : pte[a].p /\ pte[a].n = Victim
  BY <1>2, <1>3 DEF IInv, FifoInv, Maps
<1> DEFINE found == {b \in Addrs : pte[b] = Present(Victim)}
<1>5. a \in found
  BY ConstantFacts, <1>1, <1>4, TypeFacts, EntryFacts
<1>6. \A b \in found \cap User : b = a
  <2>1. \A b \in found \cap User : Maps(b, pte[a].n)
    BY <1>4, EntryFacts DEF Maps
  <2> QED
    BY <1>4, <2>1 DEF IInv, MapInv
<1>7. \A b \in found : b \in Nat /\ a <= b
  <2> TAKE b \in found
  <2>1. CASE b \in User
    BY ConstantFacts, <1>6, <2>1
  <2>2. CASE \E f \in Frames : b = KAddr(f)
    BY ConstantFacts, <2>2
  <2> QED
    BY ConstantFacts, <2>1, <2>2
<1>8. FindVaddr(Victim) = CHOOSE b \in found : \A c \in found : b <= c
  BY <1>5 DEF FindVaddr
<1>9. \A b \in found : (\A c \in found : b <= c) => b = a
  <2> SUFFICES ASSUME NEW b \in found, b <= a PROVE b = a
    BY <1>5
  <2> QED
    BY ConstantFacts, <1>7
<1> HIDE DEF found
<1>10. FindVaddr(Victim) = a
  BY <1>5, <1>7, <1>8, <1>9
<1>11. ASSUME fifo' = Tail(fifo)
       PROVE  /\ fifo' \in Seq(Frames)
              /\ Distinct(fifo')
              /\ \A i \in 1 .. Len(fifo') :
                      /\ fifo'[i] # Victim
                      /\ \E b \in User : Maps(b, fifo'[i])
  <2>1. /\ fifo' \in Seq(Frames) /\ Len(fifo') = Len(fifo) - 1
        /\ \A i \in 1 .. Len(fifo') : /\ i + 1 \in 1 .. Len(fifo)
                                      /\ fifo'[i] = fifo[i + 1]
    BY <1>2, <1>11
  <2>2. Distinct(fifo')
    BY <1>2, <2>1 DEF IInv, FifoInv, Distinct
  <2>3. \A i \in 1 .. Len(fifo') : fifo'[i] # Victim
    <3>1. \A i, j \in 1 .. Len(fifo) : fifo[i] = fifo[j] => i = j
      BY DEF IInv, FifoInv, Distinct
    <3>2. \A i \in 1 .. Len(fifo') : i + 1 # 1
      BY <1>2, <2>1
    <3> QED
      BY <1>2, <1>3, <2>1, <3>1, <3>2
  <2>4. \A i \in 1 .. Len(fifo') : \E b \in User : Maps(b, fifo'[i])
    BY <2>1 DEF IInv, FifoInv
  <2> QED
    BY <2>1, <2>2, <2>3, <2>4
<1>12. Victim \in Frames /\ Victim \notin free
  BY <1>2, <1>3, <1>4 DEF IInv, MapInv
<1> QED
  BY <1>4, <1>10, <1>11, <1>12 DEF Maps

(***************************************************************************)
(* The start of a swap_out() and its return.                               *)
(***************************************************************************)
LEMMA CallStep ==
    ASSUME IInv, (\E n \in 1 .. MaxBatch : SwapOutCall(n)) \/ SwapOutReturn
    PROVE  IInv'
<1>1. UNCHANGED <<free, pde, pte, tlb, ref, fifo, mem, disk, swap_offset, outs,
                  written, misfreed>>
  BY DEF SwapOutCall, SwapOutReturn
<1>2. TypeOK
  BY DEF IInv
<1>3. /\ call' \in [active : BOOLEAN, n : Nat, i : Nat]
      /\ call'.i <= call'.n
      /\ CallInv'
  <2>1. ASSUME NEW k \in 1 .. MaxBatch, SwapOutCall(k)
        PROVE  /\ call' \in [active : BOOLEAN, n : Nat, i : Nat]
               /\ call'.i <= call'.n
               /\ CallInv'
    <3>1. call' = [active |-> TRUE, n |-> k, i |-> 0] /\ outs + k <= MaxOuts
      BY <2>1 DEF SwapOutCall
    <3>2. outs \in Nat /\ outs' = outs
      BY <1>1, <1>2, TypeFacts
    <3> QED
      BY <3>1, <3>2 DEF CallInv
  <2>2. CASE SwapOutReturn
    BY <1>2, <2>2 DEF SwapOutReturn, TypeOK, CallInv
  <2> QED
    BY <2>1, <2>2
<1>4. TypeOK'
  BY <1>1, <1>2, <1>3 DEF TypeOK
<1>5. /\ MapInv' /\ TableInv' /\ CoverInv' /\ DirectMap' /\ FifoInv'
      /\ TlbCoherent' /\ SlotInv'
  BY <1>1
     DEF IInv, MapInv, TableInv, CoverInv, DirectMap, FifoInv, TlbCoherent,
         SlotInv, Maps, Distinct
<1>6. DataIntactUntilWrap'
  BY <1>1 DEF IInv, DataIntactUntilWrap, DataIntact
<1>7. FreedInv'
  <2>1. misfreed = {}
    BY DEF IInv, FreedInv, SwapOutCall, SwapOutReturn, ListsApart
  <2> QED
    BY <1>1, <2>1 DEF FreedInv
<1> QED
  BY <1>3, <1>4, <1>5, <1>6, <1>7 DEF IInv

(***************************************************************************)
(* One turn of swap_out()'s loop counts i up, and i stays within n.        *)
(***************************************************************************)
LEMMA CountTurn ==
    ASSUME TypeOK, CallInv, TakeVictim, call' = [call EXCEPT !.i = @ + 1]
    PROVE  /\ call' \in [active : BOOLEAN, n : Nat, i : Nat]
           /\ call'.i <= call'.n
           /\ outs + 1 <= MaxOuts
           /\ outs' \in {outs, outs + 1} => CallInv'
<1>1. /\ call \in [active : BOOLEAN, n : Nat, i : Nat] /\ outs \in Nat
      /\ call.active /\ call.i < call.n
  BY TypeFacts DEF TypeOK, TakeVictim
<1>2. /\ call' \in [active : BOOLEAN, n : Nat, i : Nat]
      /\ call'.i = call.i + 1 /\ call'.n = call.n /\ call.i \in Nat /\ call.n \in Nat
  BY <1>1
<1> QED
  BY ConstantFacts, <1>1, <1>2 DEF CallInv

(***************************************************************************)
(* A victim that is not swapped out: it leaves the FIFO, and a failed      *)
(* write spoils the slot that swap_offset names, which no page uses.       *)
(***************************************************************************)
LEMMA SwapOutLostStep ==
    ASSUME IInv, SwapOutLost PROVE IInv'
<1>1. UNCHANGED <<free, pde, pte, tlb, ref, mem, swap_offset, outs, written, misfreed>>
      /\ misfreed = {}
  BY DEF SwapOutLost, TakeVictim, IInv, FreedInv
<1>2. TypeOK /\ TakeVictim /\ fifo # << >> /\ fifo' = Tail(fifo)
      /\ call' = [call EXCEPT !.i = @ + 1]
  BY DEF IInv, SwapOutLost, TakeVictim
<1>3. /\ disk' \in [Slots -> Values]
      /\ \A s \in Slots \ {swap_offset} : disk'[s] = disk[s]
  <2>1. CASE UNCHANGED disk
    BY <1>2, <2>1 DEF TypeOK
  <2>2. CASE \E v \in Values : SwapfsWrite(v)
    BY <1>2, <2>2 DEF TypeOK, SwapfsWrite
  <2> QED
    BY <2>1, <2>2 DEF SwapOutLost
<1>4. /\ fifo' \in Seq(Frames)
      /\ Distinct(fifo')
      /\ \A i \in 1 .. Len(fifo') : \E b \in User : Maps(b, fifo'[i])
  BY <1>1, <1>2, VictimFacts
<1>5. /\ call' \in [active : BOOLEAN, n : Nat, i : Nat]
      /\ call'.i <= call'.n
      /\ CallInv'
  BY <1>1, <1>2, CountTurn DEF IInv
<1>6. TypeOK'
  BY <1>1, <1>2, <1>3, <1>4, <1>5 DEF TypeOK
<1>7. /\ MapInv' /\ TableInv' /\ CoverInv' /\ DirectMap'
      /\ TlbCoherent' /\ SlotInv' /\ FreedInv'
  BY <1>1
     DEF IInv, MapInv, TableInv, CoverInv, DirectMap, FreedInv, TlbCoherent,
         SlotInv, Maps
<1>8. FifoInv'
  BY <1>1, <1>4 DEF FifoInv, Maps, Distinct
<1>9. DataIntactUntilWrap'
  <2> SUFFICES ASSUME outs < max_swap_offset - 1 PROVE DataIntact'
    BY <1>1 DEF DataIntactUntilWrap
  <2>1. \A b \in User : ~pte[b].p /\ pte[b] # Empty =>
                           pte[b].n \in Slots \ {swap_offset}
    <3> SUFFICES ASSUME NEW b \in User, ~pte[b].p, pte[b] # Empty
                 PROVE  pte[b].n \in Slots \ {swap_offset}
      OBVIOUS
    <3>1. pte[b].n # 0 /\ pte[b].n \in 0 .. max_swap_offset - 1
      BY <1>2, NotEmptyFacts
    <3>2. pte[b].n <= outs /\ swap_offset = outs + 1 /\ outs \in Nat
      BY <1>2, TypeFacts DEF IInv, SlotInv
    <3> QED
      BY <3>1, <3>2 DEF Slots
  <2> QED
    BY <1>1, <1>3, <2>1 DEF IInv, DataIntactUntilWrap, DataIntact
<1> QED
  BY <1>5, <1>6, <1>7, <1>8, <1>9 DEF IInv

(***************************************************************************)
(* A victim swapped out: its contents are in a slot no other page uses     *)
(* before its frame is free, and no cached translation leads to the frame. *)
(***************************************************************************)
LEMMA SwapOutPageStep ==
    ASSUME IInv, SwapOutPage PROVE IInv'
<1>1. UNCHANGED <<pde, ref, mem, written, misfreed>> /\ misfreed = {}
  BY DEF SwapOutPage, TakeVictim, IInv, FreedInv
<1>2. TypeOK /\ TakeVictim /\ fifo # << >> /\ fifo' = Tail(fifo)
      /\ call' = [call EXCEPT !.i = @ + 1]
      /\ outs' = outs + 1
  BY DEF IInv, SwapOutPage, TakeVictim
<1>3. PICK a \in User : /\ a = FindVaddr(Victim) /\ Maps(a, Victim)
                        /\ Victim \in Frames /\ Victim \notin free
  BY <1>1, <1>2, VictimFacts
<1>4. PICK w \in Frames : w = Victim
  BY <1>3
<1>5. PICK off \in Slots : off = swap_offset
  BY <1>2 DEF TypeOK, Slots
<1>6. /\ disk' = [disk EXCEPT ![off] = mem[w]]
      /\ pte' = [pte EXCEPT ![a] = Entry(off)]
      /\ tlb' = [tlb EXCEPT ![a] = Null]
      /\ free' = free \cup {w}
      /\ swap_offset' = NextOffset
  BY <1>3, <1>4, <1>5 DEF SwapOutPage, SwapfsWrite
<1>7. pte[a].p /\ pte[a].n = w /\ w \notin free /\ a \in Addrs
  BY ConstantFacts, <1>3, <1>4 DEF Maps
<1>8. /\ pte' \in [Addrs -> [p : BOOLEAN, n : Nat]]
      /\ pte'[a] = Entry(off) /\ ~pte'[a].p /\ pte'[a].n = off
      /\ \A b \in Addrs \ {a} : pte'[b] = pte[b]
  <2>1. off \in Nat /\ pte \in [Addrs -> [p : BOOLEAN, n : Nat]]
    <3>1. off \in Nat
      BY <1>2, <1>5, TypeFacts
    <3> QED
      BY <1>2, <3>1 DEF TypeOK
  <2>2. /\ Entry(off) \in [p : BOOLEAN, n : Nat]
        /\ ~Entry(off).p /\ Entry(off).n = off
    BY <2>1, EntryFacts
  <2> QED
    <3>1. /\ pte' \in [Addrs -> [p : BOOLEAN, n : Nat]] /\ pte'[a] = Entry(off)
          /\ \A b \in Addrs \ {a} : pte'[b] = pte[b]
      BY <1>6, <1>7, <2>1, <2>2
    <3> QED
      BY <2>2, <3>1
<1>9. \A b \in User \ {a} : pte'[b] = pte[b]
  BY ConstantFacts, <1>8
<1>10. /\ disk' \in [Slots -> Values] /\ disk'[off] = mem[w]
       /\ \A s \in Slots \ {off} : disk'[s] = disk[s]
  BY <1>2, <1>4, <1>5, <1>6 DEF TypeOK
<1>11. /\ tlb' \in [User -> Frames \cup {Null}] /\ tlb'[a] = Null
       /\ \A b \in User \ {a} : tlb'[b] = tlb[b]
  BY <1>2, <1>6 DEF TypeOK
<1>12. /\ fifo' \in Seq(Frames)
       /\ Distinct(fifo')
       /\ \A i \in 1 .. Len(fifo') : fifo'[i] # w /\ \E b \in User : Maps(b, fifo'[i])
  BY <1>1, <1>2, <1>4, VictimFacts
<1>13. /\ call' \in [active : BOOLEAN, n : Nat, i : Nat]
       /\ call'.i <= call'.n
       /\ CallInv' /\ outs + 1 <= MaxOuts
  BY <1>1, <1>2, CountTurn DEF IInv
<1>14. \A b \in User \ {a} : pte[b].p => pte[b].n # w
  BY <1>7 DEF IInv, MapInv, Maps
<1>15. /\ outs \in Nat
       /\ swap_offset \in Nat /\ 1 <= swap_offset /\ swap_offset <= max_swap_offset - 1
       /\ off \in Nat /\ off <= max_swap_offset - 1
  BY <1>2, <1>5, TypeFacts
<1>16. TypeOK'
  <2>1. swap_offset' \in 1 .. max_swap_offset - 1
    BY ConstantFacts, <1>6, <1>15 DEF NextOffset
  <2>2. outs' \in 0 .. MaxOuts
    BY <1>2, <1>13, <1>15
  <2>3. \A b \in Addrs : IF pte'[b].p THEN pte'[b].n \in Frames
                         ELSE pte'[b].n \in 0 .. max_swap_offset - 1
    <3>1. IF pte'[a].p THEN pte'[a].n \in Frames
          ELSE pte'[a].n \in 0 .. max_swap_offset - 1
      BY <1>8, <1>15
    <3> QED
      BY <1>2, <1>8, <3>1 DEF TypeOK
  <2>4. /\ free' \subseteq Frames /\ misfreed' \subseteq Frames
        /\ pde' \in [Dirs -> Frames \cup {Null}]
        /\ ref' \in [Frames -> Nat] /\ mem' \in [Frames -> Values]
        /\ written' \in [User -> Values \cup {Null}]
    BY <1>1, <1>2, <1>4, <1>6 DEF TypeOK
  <2> QED
    BY <1>8, <1>10, <1>11, <1>12, <1>13, <2>1, <2>2, <2>3, <2>4 DEF TypeOK
<1>17. MapInv'
  <2>1. \A b \in User : pte'[b].p => pte'[b].n \notin free'
    BY <1>1, <1>6, <1>8, <1>9, <1>14 DEF IInv, MapInv
  <2>2. \A b, c \in User : pte'[b].p /\ pte'[c].p /\ pte'[c].n = pte'[b].n => b = c
    BY <1>8, <1>9 DEF IInv, MapInv, Maps
  <2> QED
    BY <2>1, <2>2 DEF MapInv, Maps
<1>18. TableInv'
  <2>1. \A d \in Dirs : pde[d] # w
    BY <1>7 DEF IInv, TableInv, Maps
  <2> QED
    BY <1>1, <1>6, <1>8, <1>9, <2>1 DEF IInv, TableInv, Maps
<1>19. CoverInv'
  <2> SUFFICES ASSUME NEW g \in Frames
               PROVE  (g \in free \/ (\E d \in Dirs : pde[d] = g)
                       \/ \E b \in User : Maps(b, g))'
    BY DEF CoverInv
  <2>1. CASE g = w
    BY <1>6, <2>1
  <2>2. CASE g # w /\ \E b \in User : Maps(b, g)
    BY <1>7, <1>9, <2>2 DEF Maps
  <2>3. CASE g \in free \/ \E d \in Dirs : pde[d] = g
    BY <1>1, <1>6, <2>3
  <2> QED
    BY <2>1, <2>2, <2>3 DEF IInv, CoverInv
<1>20. DirectMap'
  <2>1. \A f \in Frames : KAddr(f) \in Addrs \ {a}
    BY ConstantFacts
  <2> QED
    BY <1>8, <2>1 DEF IInv, DirectMap
<1>21. FifoInv'
  <2>1. \A i \in 1 .. Len(fifo') : \E b \in User : pte'[b].p /\ pte'[b].n = fifo'[i]
    BY <1>7, <1>9, <1>12 DEF Maps
  <2> QED
    BY <1>12, <2>1 DEF FifoInv, Maps, Distinct
<1>22. TlbCoherent'
  BY <1>9, <1>11 DEF IInv, TlbCoherent
<1>23. SlotInv'
  <2> SUFFICES ASSUME outs + 1 < max_swap_offset - 1
               PROVE  /\ swap_offset' = outs + 2
                      /\ \A b \in User : ~pte'[b].p => pte'[b].n <= outs + 1
    BY <1>2, <1>15 DEF SlotInv
  <2>1. outs \in Nat /\ swap_offset = outs + 1
    BY ConstantFacts, <1>15 DEF IInv, SlotInv
  <2>2. swap_offset' = outs + 2
    BY ConstantFacts, <1>6, <2>1 DEF NextOffset
  <2>3. \A b \in User \ {a} : ~pte[b].p => pte[b].n \in Nat /\ pte[b].n <= outs
    <3>1. \A b \in User : pte[b].n \in Nat
      BY ConstantFacts, <1>2, TypeFacts
    <3> QED
      BY ConstantFacts, <2>1, <3>1 DEF IInv, SlotInv
  <2> QED
    BY <1>5, <1>8, <1>9, <2>1, <2>2, <2>3
<1>24. DataIntactUntilWrap'
  <2> SUFFICES ASSUME outs + 1 < max_swap_offset - 1 PROVE DataIntact'
    BY <1>2 DEF DataIntactUntilWrap
  <2>1. outs \in Nat /\ off = outs + 1 /\ DataIntact
        /\ \A b \in User : ~pte[b].p => pte[b].n <= outs
    <3>1. outs \in Nat /\ outs < max_swap_offset - 1
      BY ConstantFacts, <1>15
    <3>2. DataIntact
      BY <3>1 DEF IInv, DataIntactUntilWrap
    <3>3. swap_offset = outs + 1 /\ \A b \in User : ~pte[b].p => pte[b].n <= outs
      BY <3>1 DEF IInv, SlotInv
    <3> QED
      BY <1>5, <3>1, <3>2, <3>3
  <2>2. \A b \in User : ~pte[b].p /\ pte[b] # Empty => pte[b].n \in Slots \ {off}
    <3> SUFFICES ASSUME NEW b \in User, ~pte[b].p, pte[b] # Empty
                 PROVE  pte[b].n \in Slots \ {off}
      OBVIOUS
    <3>1. pte[b].n # 0 /\ pte[b].n \in 0 .. max_swap_offset - 1
      BY <1>2, NotEmptyFacts
    <3> QED
      BY <2>1, <3>1 DEF Slots
  <2>3. disk'[pte'[a].n] = written'[a] /\ ~pte'[a].p
    BY <1>1, <1>7, <1>8, <1>10, <2>1 DEF DataIntact
  <2>4. \A b \in User \ {a} :
           IF pte'[b].p THEN mem'[pte'[b].n] = written'[b]
           ELSE pte'[b] # Empty => disk'[pte'[b].n] = written'[b]
    <3> TAKE b \in User \ {a}
    <3>1. pte'[b] = pte[b] /\ mem' = mem /\ written' = written
      BY <1>1, <1>9
    <3>2. IF pte[b].p THEN mem[pte[b].n] = written[b]
          ELSE pte[b] # Empty => disk[pte[b].n] = written[b]
      BY <2>1 DEF DataIntact
    <3>3. ~pte[b].p /\ pte[b] # Empty => disk'[pte[b].n] = disk[pte[b].n]
      BY <1>10, <2>2
    <3> QED
      BY <3>1, <3>2, <3>3
  <2> QED
    BY <2>3, <2>4 DEF DataIntact, Empty, Entry
<1>25. FreedInv'
  BY <1>1 DEF FreedInv
<1> QED
  BY <1>13, <1>16, <1>17, <1>18, <1>19, <1>20, <1>21, <1>22, <1>23, <1>24, <1>25 DEF IInv

(***************************************************************************)
(* Every step preserves the invariant.                                     *)
(***************************************************************************)
LEMMA NextIInv == IInv /\ [Next]_vars => IInv'
<1> SUFFICES ASSUME IInv, [Next]_vars PROVE IInv'
  OBVIOUS
<1>1. ASSUME NEW a \in User, FaultDemand(a) PROVE IInv'
  BY <1>1, FaultDemandStep
<1>2. ASSUME NEW a \in User, FaultTableOnly(a) PROVE IInv'
  BY <1>2, FaultTableOnlyStep
<1>3. ASSUME NEW a \in User, FaultSwapIn(a) PROVE IInv'
  BY <1>3, FaultSwapInStep
<1>4. ASSUME NEW a \in User, FaultReadError(a) PROVE IInv'
  BY <1>4, FaultReadErrorStep
<1>5. ASSUME NEW a \in User, Walk(a) \/ Evict(a) PROVE IInv'
  BY <1>5, TlbStep
<1>6. ASSUME NEW a \in User, NEW v \in Values, Write(a, v) PROVE IInv'
  BY <1>6, WriteStep
<1>7. ASSUME NEW a \in User, NEW v \in Values, MapPage(a, v) PROVE IInv'
  BY <1>7, MapPageStep
<1>8. ASSUME (\E n \in 1 .. MaxBatch : SwapOutCall(n)) \/ SwapOutReturn PROVE IInv'
  BY <1>8, CallStep
<1>9. CASE SwapOutLost
  BY <1>9, SwapOutLostStep
<1>10. CASE SwapOutPage
  BY <1>10, SwapOutPageStep
<1>11. CASE UNCHANGED vars
  <2>1. UNCHANGED <<free, pde, pte, tlb, ref, fifo, mem, disk, swap_offset, call,
                    outs, written, misfreed>>
    BY <1>11 DEF vars
  <2>2. TypeOK'
    BY <2>1 DEF IInv, TypeOK
  <2>3. DataIntactUntilWrap'
    BY <2>1 DEF IInv, DataIntactUntilWrap, DataIntact
  <2> QED
    BY <2>1, <2>2, <2>3
       DEF IInv, MapInv, TableInv, CoverInv, DirectMap, FifoInv, FreedInv, TlbCoherent,
           SlotInv, CallInv, Maps, Distinct
<1>12. CASE SwapInitMm
  BY <1>12, SwapInitMmStep
<1>13. ASSUME NEW a \in User, FreeSwappedIn(a) PROVE IInv'
  BY <1>13, FreeSwappedInStep
<1> QED
  BY <1>1, <1>2, <1>3, <1>4, <1>5, <1>6, <1>7, <1>8, <1>9, <1>10, <1>11, <1>12, <1>13
     DEF Next

-----------------------------------------------------------------------------
(***************************************************************************)
(* The invariant holds in every state: for every number of user pages and  *)
(* frames and every size of the swap area of kern/mm/swap.c.               *)
(***************************************************************************)
THEOREM Invariance == Spec => []IInv
<1> QED
  BY InitIInv, NextIInv, PTL DEF Spec

(***************************************************************************)
(* Page-table entries, slot numbers and the FIFO stay within their ranges. *)
(* In particular swap_offset, which wraps in swap_out(), always names a    *)
(* slot of the swap area.                                                  *)
(***************************************************************************)
THEOREM TypeCorrect == Spec => []TypeOK
<1>1. IInv => TypeOK
  BY DEF IInv
<1> QED
  BY <1>1, Invariance, PTL

(***************************************************************************)
(* No frame leaks and none is shared, through faults, failed reads,        *)
(* swap-outs and the reuse of their frames; the one frame that is free and *)
(* mapped is the one a test freed while it was on the FIFO.                *)
(***************************************************************************)
THEOREM FramesAccountedAlways == Spec => []FramesAccounted
<1>1. IInv => FramesAccounted
  <2> SUFFICES ASSUME IInv, NEW f \in Frames
               PROVE  /\ f \in free \ misfreed => Mapping(f) = {} /\ f \notin Tables
                      /\ f \in Tables => Mapping(f) = {}
                           /\ Cardinality({d \in Dirs : pde[d] = f}) = 1
                      /\ f \notin (free \ misfreed) \cup Tables =>
                            Cardinality(Mapping(f)) = 1
                      /\ pte[KAddr(f)] = Present(f)
    BY DEF FramesAccounted
  <2>1. Mapping(f) = {a \in User : pte[a].p /\ pte[a].n = f}
    BY MappingFacts DEF IInv, Maps
  <2>2. f \in Tables <=> \E d \in Dirs : pde[d] = f
    BY ConstantFacts DEF Tables
  <2>3. f \in free \ misfreed => Mapping(f) = {} /\ f \notin Tables
    <3>1. f \in free \ misfreed => \A a \in User : ~(pte[a].p /\ pte[a].n = f)
      BY DEF IInv, MapInv
    <3>2. f \in free => \A d \in Dirs : pde[d] # f
      BY DEF IInv, TableInv
    <3> QED
      BY <2>1, <2>2, <3>1, <3>2
  <2>4. f \in Tables => Mapping(f) = {}
    BY <2>1, <2>2 DEF IInv, TableInv, Maps
  <2>5. ASSUME f \in Tables PROVE Cardinality({d \in Dirs : pde[d] = f}) = 1
    <3>1. PICK d \in Dirs : pde[d] = f
      BY <2>2, <2>5
    <3>2. {e \in Dirs : pde[e] = f} = {d}
      BY ConstantFacts, <3>1 DEF IInv, TableInv
    <3> QED
      BY <3>2, FS_Singleton
  <2>6. ASSUME f \notin (free \ misfreed) \cup Tables PROVE Cardinality(Mapping(f)) = 1
    <3>1. PICK a \in User : pte[a].p /\ pte[a].n = f
      <4>1. CASE f \in misfreed
        BY <4>1 DEF IInv, FreedInv, FifoInv, Maps
      <4>2. CASE f \notin free
        BY <2>2, <2>6, <4>2 DEF IInv, CoverInv, Maps
      <4> QED
        BY <2>6, <4>1, <4>2
    <3>2. Mapping(f) = {a}
      BY <2>1, <3>1 DEF IInv, MapInv, Maps
    <3> QED
      BY <3>2, FS_Singleton
  <2>7. pte[KAddr(f)] = Present(f)
    BY DEF IInv, DirectMap
  <2> QED
    BY <2>3, <2>4, <2>5, <2>6, <2>7
<1> QED
  BY <1>1, Invariance, PTL

(***************************************************************************)
(* A sequence without repetition has as many members as places.            *)
(***************************************************************************)
LEMMA DistinctCount ==
    ASSUME NEW S, NEW s \in Seq(S), Distinct(s)
    PROVE  Cardinality(ToSet(s)) = Len(s)
<1>1. Len(s) \in Nat /\ DOMAIN s = 1 .. Len(s)
  OBVIOUS
<1>2. IsFiniteSet(1 .. Len(s)) /\ Cardinality(1 .. Len(s)) = Len(s)
  BY <1>1, FS_Interval
<1>3. ExistsBijection(1 .. Len(s), ToSet(s))
  <2> DEFINE f == [i \in 1 .. Len(s) |-> s[i]]
  <2>1. f \in [1 .. Len(s) -> ToSet(s)]
    BY <1>1 DEF ToSet
  <2>2. \A i, j \in 1 .. Len(s) : f[i] = f[j] => i = j
    BY DEF Distinct
  <2>3. \A e \in ToSet(s) : \E i \in 1 .. Len(s) : f[i] = e
    BY <1>1 DEF ToSet
  <2> HIDE DEF f
  <2>4. f \in Bijection(1 .. Len(s), ToSet(s))
    BY <2>1, <2>2, <2>3 DEF Bijection, Injection, Surjection, IsInjective
  <2> QED
    BY <2>4 DEF ExistsBijection
<1> QED
  BY <1>2, <1>3, FS_Bijection

(***************************************************************************)
(* A page waiting in swap_fifo.c's list is there once, mapped, and not     *)
(* with the page allocator, which uses the same page_link, unless it is    *)
(* the page that a test of swapping has freed without taking it off.       *)
(***************************************************************************)
THEOREM FifoOwnsLinksAlways == Spec => []FifoOwnsLinks
<1>1. IInv => FifoOwnsLinks
  <2> SUFFICES ASSUME IInv PROVE FifoOwnsLinks
    OBVIOUS
  <2>1. fifo \in Seq(Frames) /\ Distinct(fifo)
    BY DEF IInv, TypeOK, FifoInv
  <2>2. Cardinality(ToSet(fifo)) = Len(fifo)
    BY <2>1, DistinctCount
  <2>3. ASSUME NEW f \in ToSet(fifo)
        PROVE  Mapping(f) # {} /\ (f \in free => f \in misfreed)
    <3>1. PICK i \in 1 .. Len(fifo) : f = fifo[i]
      BY <2>1 DEF ToSet
    <3>2. PICK a \in User : pte[a].p /\ pte[a].n = f
      BY <3>1 DEF IInv, FifoInv, Maps
    <3>3. pte[a] = Present(f)
      BY ConstantFacts, <3>2, TypeFacts, EntryFacts DEF IInv
    <3> QED
      BY <3>2, <3>3 DEF IInv, MapInv, Mapping
  <2>4. misfreed \subseteq ToSet(fifo) \cap free
    BY <2>1 DEF IInv, FreedInv, ToSet
  <2> QED
    BY <2>2, <2>3, <2>4 DEF FifoOwnsLinks
<1> QED
  BY <1>1, Invariance, PTL

(***************************************************************************)
(* tlb_invl() is called wherever it has to be: no cached translation       *)
(* outlives its page-table entry.                                          *)
(***************************************************************************)
THEOREM TlbCoherentAlways == Spec => []TlbCoherent
<1>1. IInv => TlbCoherent
  BY DEF IInv
<1> QED
  BY <1>1, Invariance, PTL

(***************************************************************************)
(* Until swap_out()'s counter has gone through the last slot, every page   *)
(* keeps what was written to it, in memory and on disk.                    *)
(***************************************************************************)
THEOREM DataIntactBeforeWrap == Spec => []DataIntactUntilWrap
<1>1. IInv => DataIntactUntilWrap
  BY DEF IInv
<1> QED
  BY <1>1, Invariance, PTL

-----------------------------------------------------------------------------
(***************************************************************************)
(* The refinement of VirtualMemory.                                        *)
(*                                                                         *)
(* What a process reads at a page, without the processor's translations:   *)
(* they agree with the tables.                                             *)
(***************************************************************************)
ReadsInv ==
    /\ Contents \in [User -> Values \cup {Null}]
    /\ \A a \in User :
          /\ pte[a].p => Contents[a] = mem[pte[a].n] /\ Contents[a] \in Values
          /\ ~pte[a].p /\ pte[a].n = 0 => Contents[a] = Null
          /\ ~pte[a].p /\ pte[a].n # 0 => /\ pte[a].n \in Slots
                                          /\ Contents[a] = disk[pte[a].n]
                                          /\ Contents[a] \in Values

(***************************************************************************)
(* TlbCoherent and the types of entries make the reading of a page simple: *)
(* a cached translation adds nothing to the tables.                        *)
(***************************************************************************)
LEMMA ReadsLemma == IInv => ReadsInv
<1> SUFFICES ASSUME IInv PROVE ReadsInv
  OBVIOUS
<1>1. TypeOK
  BY DEF IInv
<1>2. ASSUME NEW a \in User
      PROVE  Contents[a] = IF pte[a].p THEN mem[pte[a].n]
                           ELSE IF pte[a].n = 0 THEN Null ELSE disk[pte[a].n]
  <2>1. a \in Addrs /\ pte[a] \in [p : BOOLEAN, n : Nat]
    BY ConstantFacts, <1>1, TypeFacts
  <2>2. tlb[a] # Null => pte[a].p /\ pte[a].n = tlb[a]
    BY EntryFacts DEF IInv, TlbCoherent
  <2>3. ~pte[a].p => (pte[a] = Empty <=> pte[a].n = 0)
    BY <2>1, EntryFacts DEF Empty
  <2>4. Contents[a] = IF tlb[a] # Null THEN mem[tlb[a]]
                      ELSE IF pte[a].p THEN mem[pte[a].n]
                      ELSE IF pte[a] = Empty THEN Null
                      ELSE disk[pte[a].n]
    BY DEF Contents
  <2> QED
    BY <2>2, <2>3, <2>4
<1>3. ASSUME NEW a \in User
      PROVE  /\ pte[a].p => mem[pte[a].n] \in Values
             /\ ~pte[a].p /\ pte[a].n # 0 => /\ pte[a].n \in Slots
                                             /\ disk[pte[a].n] \in Values
  <2>1. /\ pte[a].p => pte[a].n \in Frames
        /\ ~pte[a].p => pte[a].n \in 0 .. max_swap_offset - 1
    BY ConstantFacts, <1>1, TypeFacts
  <2>2. ~pte[a].p /\ pte[a].n # 0 => pte[a].n \in Slots
    BY <2>1 DEF Slots
  <2> QED
    BY <1>1, <2>1, <2>2 DEF TypeOK
<1>4. \A a \in User : Contents[a] \in Values \cup {Null}
  BY <1>2, <1>3
<1>5. Contents \in [User -> Values \cup {Null}]
  BY <1>4 DEF Contents
<1> QED
  BY <1>2, <1>3, <1>5 DEF ReadsInv

(***************************************************************************)
(* A page reads the same after a step that changes neither its entry nor   *)
(* the place the entry names.                                              *)
(***************************************************************************)
LEMMA SameReads ==
    ASSUME ReadsInv, ReadsInv', NEW b \in User, pte'[b] = pte[b],
           pte[b].p => mem'[pte[b].n] = mem[pte[b].n],
           ~pte[b].p /\ pte[b].n # 0 => disk'[pte[b].n] = disk[pte[b].n]
    PROVE  Contents'[b] = Contents[b]
<1>1. CASE pte[b].p
  BY <1>1 DEF ReadsInv
<1>2. CASE ~pte[b].p /\ pte[b].n = 0
  BY <1>2 DEF ReadsInv
<1>3. CASE ~pte[b].p /\ pte[b].n # 0
  BY <1>3 DEF ReadsInv
<1> QED
  BY <1>1, <1>2, <1>3

(***************************************************************************)
(* A step that changes what one page reads, or what none reads.            *)
(***************************************************************************)
LEMMA OtherReads ==
    ASSUME ReadsInv, ReadsInv', NEW a \in User,
           \A b \in User \ {a} : Contents'[b] = Contents[b]
    PROVE  /\ Contents' = [Contents EXCEPT ![a] = Contents'[a]]
           /\ Contents'[a] = Contents[a] => Contents' = Contents
<1>1. PICK c : c = Contents /\ c \in [User -> Values \cup {Null}]
  BY DEF ReadsInv
<1>2. PICK d : d = Contents' /\ d \in [User -> Values \cup {Null}]
  BY DEF ReadsInv
<1>3. \A b \in User \ {a} : d[b] = c[b]
  BY <1>1, <1>2
<1>4. d = [c EXCEPT ![a] = d[a]] /\ (d[a] = c[a] => d = c)
  BY <1>1, <1>2, <1>3
<1> QED
  BY <1>1, <1>2, <1>4

(***************************************************************************)
(* A free frame mapped at a page that is not present: only that page can   *)
(* read differently, and it reads what the frame holds.                    *)
(***************************************************************************)
LEMMA InsertReads ==
    ASSUME IInv, ReadsInv, ReadsInv', NEW a \in User, ~pte[a].p, NEW f \in free,
           PageInsert(a, f), free' \subseteq free \ {f},
           \A g \in Frames \ {f} : mem'[g] = mem[g],
           UNCHANGED <<disk, swap_offset, outs>>, misfreed = {}
    PROVE  /\ Contents' = [Contents EXCEPT ![a] = mem'[f]]
           /\ Contents[a] = mem'[f] => Contents' = Contents
           /\ Resident' = Resident \cup {a}
           /\ mem'[f] \in Values
<1>1. /\ pte'[a].p /\ pte'[a].n = f
      /\ \A b \in User \ {a} : pte'[b] = pte[b]
  BY ConstantFacts, InsertFacts
<1>2. Contents'[a] = mem'[f] /\ mem'[f] \in Values
  BY <1>1 DEF ReadsInv
<1>3. ASSUME NEW b \in User \ {a} PROVE Contents'[b] = Contents[b]
  <2>1. pte[b].p => pte[b].n \in Frames \ {f}
    BY ConstantFacts, TypeFacts DEF IInv, MapInv
  <2> QED
    BY <1>1, <2>1, SameReads
<1>4. Resident' = Resident \cup {a}
  BY <1>1 DEF Resident
<1> QED
  BY <1>2, <1>3, <1>4, OtherReads

(***************************************************************************)
(* vmm_pg_fault() on an empty entry, and a mapping by the kernel: a page   *)
(* appears.                                                                *)
(***************************************************************************)
LEMMA AppearSimulation ==
    ASSUME IInv, ReadsInv, ReadsInv', NEW a \in User,
           FaultDemand(a) \/ \E v \in Values : MapPage(a, v)
    PROVE  Memory!Appear(a)
<1>1. ~pte[a].p /\ pte[a].n = 0
  BY EntryFacts DEF FaultDemand, MapPage, Empty
<1>2. UNCHANGED <<disk, swap_offset, outs>> /\ misfreed = {}
  BY DEF FaultDemand, MapPage, Faulting, ListsApart
<1>3. TypeOK
  BY DEF IInv
<1>4. PICK f \in free : /\ PageInsert(a, f) /\ free' \subseteq free \ {f}
                        /\ \A g \in Frames \ {f} : mem'[g] = mem[g]
                        /\ written' = [written EXCEPT ![a] = mem'[f]]
  <2>1. CASE FaultDemand(a)
    <3>1. \E t \in IF pde[Dir(a)] = Null THEN free ELSE {pde[Dir(a)]} :
            \E f \in free \ {t} :
               /\ free' = free \ {t, f}
               /\ PageInsert(a, f)
               /\ written' = [written EXCEPT ![a] = mem[f]]
      BY <2>1 DEF FaultDemand
    <3>2. mem' = mem
      BY <2>1 DEF FaultDemand
    <3> QED
      BY <3>1, <3>2
  <2>2. ASSUME NEW v \in Values, MapPage(a, v)
        PROVE  \E f \in free : /\ PageInsert(a, f) /\ free' \subseteq free \ {f}
                               /\ \A g \in Frames \ {f} : mem'[g] = mem[g]
                               /\ written' = [written EXCEPT ![a] = mem'[f]]
    <3>1. PICK f \in free : /\ PageInsert(a, f) /\ free' \subseteq free \ {f}
                            /\ mem' = [mem EXCEPT ![f] = v]
      <4>1. \E f \in free :
            \E t \in IF pde[Dir(a)] = Null THEN free \ {f} ELSE {pde[Dir(a)]} :
               /\ PageInsert(a, f) /\ free' = free \ {t, f}
               /\ mem' = [mem EXCEPT ![f] = v]
        BY <2>2 DEF MapPage
      <4> QED
        BY <4>1
    <3>2. written' = [written EXCEPT ![a] = v]
      BY <2>2 DEF MapPage
    <3>3. mem \in [Frames -> Values] /\ f \in Frames
      BY <1>3 DEF TypeOK
    <3>4. mem'[f] = v /\ \A g \in Frames \ {f} : mem'[g] = mem[g]
      BY <3>1, <3>3
    <3> QED
      BY <3>1, <3>2, <3>4
  <2> QED
    BY <2>1, <2>2
<1>5. /\ Contents' = [Contents EXCEPT ![a] = mem'[f]]
      /\ Resident' = Resident \cup {a} /\ mem'[f] \in Values
  BY <1>1, <1>2, <1>4, InsertReads
<1>6. Contents[a] = Null
  BY <1>1 DEF ReadsInv
<1>7. Memory!VPut(a, mem'[f])
  BY <1>2, <1>4, <1>5 DEF Memory!VPut
<1> QED
  BY <1>5, <1>6, <1>7 DEF Memory!Appear

(***************************************************************************)
(* swap_in(): the frame gets what the page's slot holds.                   *)
(***************************************************************************)
LEMMA MoveInSimulation ==
    ASSUME IInv, ReadsInv, ReadsInv', NEW a \in User, FaultSwapIn(a)
    PROVE  Memory!MoveIn(a)
<1>1. PICK f \in free : /\ free' = free \ {f}
                        /\ mem' = [mem EXCEPT ![f] = disk[pte[a].n]]
                        /\ PageInsert(a, f)
  BY DEF FaultSwapIn, SwapfsRead
<1>2. ~pte[a].p /\ pte[a] # Empty /\ misfreed = {}
      /\ UNCHANGED <<disk, swap_offset, outs, written>>
  BY DEF FaultSwapIn, Faulting, ListsApart
<1>3. TypeOK
  BY DEF IInv
<1>4. pte[a].n # 0
  BY <1>2, <1>3, NotEmptyFacts
<1>5. mem \in [Frames -> Values] /\ f \in Frames
  BY <1>3 DEF TypeOK
<1>6. mem'[f] = disk[pte[a].n] /\ \A g \in Frames \ {f} : mem'[g] = mem[g]
  BY <1>1, <1>5
<1>7. Contents[a] = mem'[f] /\ Contents[a] # Null
  BY <1>2, <1>4, <1>6, SwapAssumption DEF ReadsInv
<1>8. free' \subseteq free \ {f} /\ UNCHANGED <<disk, swap_offset, outs>>
  BY <1>1, <1>2
<1>9. Contents' = Contents /\ Resident' = Resident \cup {a}
  BY <1>1, <1>2, <1>6, <1>7, <1>8, InsertReads
<1>10. a \notin Resident
  BY <1>2 DEF Resident
<1> QED
  BY <1>2, <1>7, <1>9, <1>10 DEF Memory!MoveIn

(***************************************************************************)
(* A process stores through a cached translation: into its own page.       *)
(***************************************************************************)
LEMMA StoreSimulation ==
    ASSUME IInv, ReadsInv, ReadsInv', NEW a \in User, NEW v \in Values, Write(a, v)
    PROVE  Memory!Store(a)
<1>1. /\ UNCHANGED <<pte, disk, outs>>
      /\ mem' = [mem EXCEPT ![tlb[a]] = v] /\ written' = [written EXCEPT ![a] = v]
      /\ tlb[a] # Null
  BY DEF Write
<1>2. TypeOK
  BY DEF IInv
<1>3. tlb[a] \in Frames /\ pte[a].p /\ pte[a].n = tlb[a]
  BY <1>1, <1>2, TypeFacts, EntryFacts DEF IInv, TlbCoherent
<1>4. mem'[tlb[a]] = v /\ \A g \in Frames \ {tlb[a]} : mem'[g] = mem[g]
  BY <1>1, <1>2, <1>3 DEF TypeOK
<1>5. Contents'[a] = v
  BY <1>1, <1>3, <1>4 DEF ReadsInv
<1>6. ASSUME NEW b \in User \ {a} PROVE Contents'[b] = Contents[b]
  <2>1. pte[b].p => pte[b].n \in Frames \ {tlb[a]}
    BY ConstantFacts, <1>2, <1>3, TypeFacts DEF IInv, MapInv, Maps
  <2> QED
    BY <1>1, <1>4, <2>1, SameReads
<1>7. Contents' = [Contents EXCEPT ![a] = v]
  BY <1>5, <1>6, OtherReads
<1>8. Memory!VPut(a, v)
  BY <1>1, <1>7 DEF Memory!VPut
<1>9. a \in Resident /\ Resident' = Resident
  BY <1>1, <1>3 DEF Resident
<1> QED
  BY <1>8, <1>9 DEF Memory!Store

(***************************************************************************)
(* Steps that no process notices: a fault that only brings a page table, a *)
(* read that fails, the processor's translations, the start and the return *)
(* of swap_out(), what the tests do to the lists.                          *)
(***************************************************************************)
LEMMA QuietSimulation ==
    ASSUME IInv, ReadsInv, ReadsInv',
           \/ \E a \in User : \/ FaultTableOnly(a) \/ FaultReadError(a)
                              \/ Walk(a) \/ Evict(a) \/ FreeSwappedIn(a)
           \/ SwapInitMm
           \/ \E n \in 1 .. MaxBatch : SwapOutCall(n)
           \/ SwapOutReturn
    PROVE  UNCHANGED <<Contents, written, Resident, outs>>
<1>1. UNCHANGED <<pte, disk, written, outs>>
  BY DEF FaultTableOnly, FaultReadError, Walk, Evict, SwapOutCall, SwapOutReturn,
         FreeSwappedIn, SwapInitMm
<1>2. \/ UNCHANGED mem
      \/ misfreed = {} /\ \E f \in free, v \in Values : mem' = [mem EXCEPT ![f] = v]
  BY DEF FaultTableOnly, FaultReadError, Walk, Evict, SwapOutCall, SwapOutReturn,
         FreeSwappedIn, SwapInitMm, Faulting, ListsApart
<1>3. \A g \in Frames \ (free \ misfreed) : mem'[g] = mem[g]
  <2>1. mem \in [Frames -> Values]
    BY DEF IInv, TypeOK
  <2> QED
    BY <1>2, <2>1
<1>4. ASSUME NEW b \in User PROVE Contents'[b] = Contents[b]
  <2>1. pte[b].p => pte[b].n \in Frames \ (free \ misfreed)
    BY ConstantFacts, TypeFacts DEF IInv, MapInv
  <2> QED
    BY <1>1, <1>3, <2>1, SameReads
<1>5. 0 \in User
  BY ConstantFacts DEF User
<1>6. Contents' = Contents
  BY <1>4, <1>5, OtherReads
<1>7. Resident' = Resident
  BY <1>1 DEF Resident
<1> QED
  BY <1>1, <1>6, <1>7

(***************************************************************************)
(* A write to the slot that swap_offset names.  Before the wrap no page is *)
(* in that slot; after it a page that is swapped out may be.               *)
(***************************************************************************)
LEMMA SwapWriteSimulation ==
    ASSUME IInv, ReadsInv, ReadsInv', NEW moved \in SUBSET Resident,
           \A b \in User \ moved : pte'[b] = pte[b],
           \A b \in moved : Contents'[b] = Contents[b],
           \A s \in Slots \ {swap_offset} : disk'[s] = disk[s],
           UNCHANGED <<mem, written>>
    PROVE  Memory!SwapWrite(Resident)
<1>1. TypeOK
  BY DEF IInv
<1>2. Contents' \in [User -> Values \cup {Null}]
  BY DEF ReadsInv
<1>3. ASSUME NEW b \in User, Contents'[b] # Contents[b]
      PROVE  /\ outs >= max_swap_offset - 1 /\ b \notin Resident
             /\ Contents[b] # Null /\ Contents'[b] # Null
  <2>1. pte'[b] = pte[b]
    BY <1>3
  <2>2. ~pte[b].p /\ pte[b].n # 0 /\ disk'[pte[b].n] # disk[pte[b].n]
    BY <1>3, <2>1, SameReads
  <2>3. Contents[b] # Null /\ Contents'[b] # Null
    BY <2>1, <2>2, SwapAssumption DEF ReadsInv
  <2>4. pte[b].n = swap_offset
    BY <2>2 DEF ReadsInv
  <2>5. outs >= max_swap_offset - 1
    <3>1. outs \in Nat /\ max_swap_offset \in Nat
      BY <1>1, TypeFacts, ConstantFacts
    <3>2. ~(outs < max_swap_offset - 1)
      BY <2>2, <2>4, <3>1 DEF IInv, SlotInv
    <3> QED
      BY <3>1, <3>2
  <2>6. b \notin Resident
    BY <2>2 DEF Resident
  <2> QED
    BY <2>3, <2>5, <2>6
<1> QED
  BY <1>2, <1>3 DEF Memory!SwapWrite

(***************************************************************************)
(* An iteration of swap_out() that gives up its victim.                    *)
(***************************************************************************)
LEMMA MoveOutFailsSimulation ==
    ASSUME IInv, ReadsInv, ReadsInv', SwapOutLost
    PROVE  Memory!MoveOutFails
<1>1. UNCHANGED <<pte, mem, written, outs>>
  BY DEF SwapOutLost
<1>2. \A s \in Slots \ {swap_offset} : disk'[s] = disk[s]
  <2>1. disk \in [Slots -> Values]
    BY DEF IInv, TypeOK
  <2> QED
    BY <2>1 DEF SwapOutLost, SwapfsWrite
<1>3. Memory!SwapWrite(Resident)
  <2>1. {} \in SUBSET Resident /\ \A b \in User \ {} : pte'[b] = pte[b]
    BY <1>1
  <2> QED
    BY <1>1, <1>2, <2>1, SwapWriteSimulation
<1>4. Resident' = Resident
  BY <1>1 DEF Resident
<1> QED
  BY <1>1, <1>3, <1>4 DEF Memory!MoveOutFails

(***************************************************************************)
(* A victim swapped out: the slot gets what its frame holds.               *)
(***************************************************************************)
LEMMA MoveOutSimulation ==
    ASSUME IInv, ReadsInv, ReadsInv', SwapOutPage
    PROVE  \E a \in User : Memory!MoveOut(a)
<1>1. UNCHANGED <<mem, written>> /\ outs' = outs + 1
  BY DEF SwapOutPage
<1>2. TypeOK /\ fifo # << >> /\ misfreed = {}
  BY DEF IInv, SwapOutPage, TakeVictim, FreedInv
<1>3. PICK a \in User : a = FindVaddr(Victim) /\ pte[a].p /\ pte[a].n = Victim
  BY <1>2, VictimFacts DEF Maps
<1>4. PICK off \in Slots : off = swap_offset
  BY <1>2 DEF TypeOK, Slots
<1>5. /\ disk' = [disk EXCEPT ![off] = mem[pte[a].n]]
      /\ pte' = [pte EXCEPT ![a] = Entry(off)]
  BY <1>3, <1>4 DEF SwapOutPage, SwapfsWrite
<1>6. /\ disk'[off] = mem[pte[a].n]
      /\ \A s \in Slots \ {off} : disk'[s] = disk[s]
  BY <1>2, <1>4, <1>5 DEF TypeOK
<1>7. /\ pte'[a].p = FALSE /\ pte'[a].n = off
      /\ \A b \in User \ {a} : pte'[b] = pte[b]
  <2>1. pte'[a] = Entry(off) /\ \A b \in User \ {a} : pte'[b] = pte[b]
    BY ConstantFacts, <1>2, <1>5 DEF TypeOK
  <2> QED
    BY <2>1, EntryFacts
<1>8. off # 0
  BY ConstantFacts DEF Slots
<1>9. Contents'[a] = Contents[a]
  BY <1>3, <1>6, <1>7, <1>8 DEF ReadsInv
<1>10. a \in Resident /\ Resident' = Resident \ {a}
  BY <1>3, <1>7 DEF Resident
<1>11. Memory!SwapWrite(Resident)
  <2>1. {a} \in SUBSET Resident
    BY <1>10
  <2>2. \A b \in {a} : Contents'[b] = Contents[b]
    BY <1>9
  <2> QED
    BY <1>1, <1>4, <1>6, <1>7, <2>1, <2>2, SwapWriteSimulation
<1> QED
  BY <1>1, <1>10, <1>11 DEF Memory!MoveOut

(***************************************************************************)
(* Every step is a step of the abstract memory or shows nothing.           *)
(***************************************************************************)
LEMMA StepSimulation ==
    ASSUME IInv, ReadsInv, ReadsInv', [Next]_vars
    PROVE  Memory!VNext \/ UNCHANGED <<Contents, written, Resident, outs>>
<1>1. ASSUME NEW a \in User, FaultDemand(a) \/ \E v \in Values : MapPage(a, v)
      PROVE  Memory!VNext
  BY <1>1, AppearSimulation DEF Memory!VNext
<1>2. ASSUME NEW a \in User, FaultSwapIn(a) PROVE Memory!VNext
  BY <1>2, MoveInSimulation DEF Memory!VNext
<1>3. ASSUME NEW a \in User, NEW v \in Values, Write(a, v) PROVE Memory!VNext
  BY <1>3, StoreSimulation DEF Memory!VNext
<1>4. CASE SwapOutLost
  BY <1>4, MoveOutFailsSimulation DEF Memory!VNext
<1>5. CASE SwapOutPage
  BY <1>5, MoveOutSimulation DEF Memory!VNext
<1>6. CASE \/ \E a \in User : \/ FaultTableOnly(a) \/ FaultReadError(a)
                              \/ Walk(a) \/ Evict(a) \/ FreeSwappedIn(a)
           \/ SwapInitMm
           \/ \E n \in 1 .. MaxBatch : SwapOutCall(n)
           \/ SwapOutReturn
  BY <1>6, QuietSimulation
<1>7. CASE UNCHANGED vars
  BY <1>7 DEF vars, Contents, Resident
<1> QED
  BY <1>1, <1>2, <1>3, <1>4, <1>5, <1>6, <1>7 DEF Next

(***************************************************************************)
(* vmm.c, swap.c and swap_fifo.c implement a memory in which each page     *)
(* reads what was stored to it; past the wrap of the slot counter a page   *)
(* that is swapped out may change, one that is mapped never does.          *)
(***************************************************************************)
THEOREM Refinement == Spec => ImplementsMemory
<1>1. Init => Memory!VInit
  <2> SUFFICES ASSUME Init PROVE Memory!VInit
    OBVIOUS
  <2>1. \A a \in User : tlb[a] = Null /\ pte[a] = Empty /\ a \in Addrs
    BY ConstantFacts DEF Init
  <2>2. \A a \in User : pte[a].p = FALSE
    BY <2>1, EntryFacts DEF Empty
  <2>3. Contents = [a \in User |-> Null]
    BY <2>1, <2>2 DEF Contents
  <2>4. Resident = {}
    BY <2>2 DEF Resident
  <2> QED
    BY <2>3, <2>4 DEF Init, Memory!VInit
<1>2. IInv /\ ReadsInv /\ ReadsInv' /\ [Next]_vars => [Memory!VNext]_(Memory!vvars)
  BY StepSimulation DEF Memory!vvars
<1>3. IInv => ReadsInv
  BY ReadsLemma
<1> QED
  BY <1>1, <1>2, <1>3, Invariance, PTL DEF Spec, ImplementsMemory, Memory!VSpec
=============================================================================

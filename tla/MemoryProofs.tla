---------------------------- MODULE MemoryProofs ----------------------------
(***************************************************************************)
(* Proofs about the memory manager, for every number of pages, every map   *)
(* of disjoint, non-adjacent regions and all request sizes: first fit on   *)
(* sequences (module FirstFit), and the same operations as stores to the   *)
(* pointers of two lists that share the pages' links (module Links), under *)
(* each of the three replacement algorithms.                               *)
(***************************************************************************)
EXTENDS Links, FiniteSetTheorems, SequenceTheorems, TLAPS

-----------------------------------------------------------------------------
(***************************************************************************)
(* The inductive invariant.  Partition and Coalesced are not inductive     *)
(* apart: a block that MergeNext or MergePrev builds stays away from the   *)
(* blocks already passed only because no two listed blocks touched.  Both  *)
(* are replaced by one relation on blocks, Apart (a gap of at least one    *)
(* page) or Clear (no overlap), stated with < on page numbers.             *)
(***************************************************************************)
End(p) == p + property[p]

InBlock(q, p) == p <= q /\ q < End(p)

Apart(p, q) == End(p) < q \/ End(q) < p

Clear(p, q) == End(p) <= q \/ End(q) <= p

WellPlaced(p) ==
    /\ p \in Pages
    /\ property[p] >= 1
    /\ \A q \in Nat : InBlock(q, p) => q \in Managed /\ q \notin held

(***************************************************************************)
(* The first m elements of a list, and lists without repetition.           *)
(***************************************************************************)
Elems(s, m) == {s[i] : i \in 1 .. m}

Injective(s) == \A i, j \in 1 .. Len(s) : s[i] = s[j] => i = j

ListInv ==
    /\ Injective(free_list)
    /\ \A p \in Heads : WellPlaced(p)
    /\ \A p, q \in Heads : p # q => Apart(p, q)

ScanInv ==
    /\ pc = "idle" => n = 0 /\ prev = 0
    /\ pc = "scan" =>
          /\ Booted
          /\ WellPlaced(base)
          /\ \A p \in Heads : Clear(p, base)
          /\ \A p \in Elems(free_list, prev) : Apart(p, base)

BootInv == ~Booted => ret.op = "none"

CoverInv ==
    \A q \in Managed :
        \/ q \in held
        \/ \E p \in Heads : InBlock(q, p)
        \/ pc = "scan" /\ InBlock(q, base)

IInv ==
    /\ TypeOK
    /\ ListInv
    /\ ScanInv
    /\ BootInv
    /\ CoverInv
    /\ ReservedMarksHeads
    /\ FreeCount
    /\ FailsOnlyWhenFull

-----------------------------------------------------------------------------
(***************************************************************************)
(* Unlinking the i-th element of a list keeps the others in their order.   *)
(***************************************************************************)
LEMMA RemoveAtFacts ==
    ASSUME NEW S, NEW s \in Seq(S), NEW i \in 1 .. Len(s)
    PROVE  /\ RemoveAt(s, i) \in Seq(S)
           /\ Len(RemoveAt(s, i)) = Len(s) - 1
           /\ \A j \in 1 .. Len(s) - 1 :
                 RemoveAt(s, i)[j] = IF j < i THEN s[j] ELSE s[j + 1]
<1> DEFINE a == SubSeq(s, 1, i - 1)
           b == SubSeq(s, i + 1, Len(s))
<1>1. a \in Seq(S) /\ Len(a) = i - 1 /\ \A j \in 1 .. i - 1 : a[j] = s[j]
  OBVIOUS
<1>2. b \in Seq(S) /\ Len(b) = Len(s) - i
      /\ \A j \in 1 .. Len(s) - i : b[j] = s[j + i]
  OBVIOUS
<1>3. RemoveAt(s, i) = a \o b
  BY DEF RemoveAt
<1> HIDE DEF a, b
<1>4. a \o b \in Seq(S) /\ Len(a \o b) = Len(s) - 1
  <2>1. a \o b \in Seq(S) /\ Len(a \o b) = Len(a) + Len(b)
    BY <1>1, <1>2, ConcatProperties
  <2>2. Len(a) + Len(b) = Len(s) - 1
    BY <1>1, <1>2
  <2> QED
    BY <2>1, <2>2
<1>5. \A j \in 1 .. Len(s) - 1 : (a \o b)[j] = IF j < i THEN s[j] ELSE s[j + 1]
  BY <1>1, <1>2
<1> QED
  BY <1>3, <1>4, <1>5

(***************************************************************************)
(* The elements of a list without repetition after one is unlinked, after  *)
(* one is replaced and after one is linked at the end.                     *)
(***************************************************************************)
LEMMA RemovedElems ==
    ASSUME NEW S, NEW s \in Seq(S), Injective(s), NEW i \in 1 .. Len(s)
    PROVE  LET r == RemoveAt(s, i) IN
           /\ r \in Seq(S)
           /\ Len(r) = Len(s) - 1
           /\ Injective(r)
           /\ Elems(r, Len(r)) = Elems(s, Len(s)) \ {s[i]}
           /\ Elems(r, i - 1) = Elems(s, i - 1)
<1> DEFINE r == RemoveAt(s, i)
<1>1. /\ r \in Seq(S)
      /\ Len(r) = Len(s) - 1
      /\ \A j \in 1 .. Len(s) - 1 : r[j] = IF j < i THEN s[j] ELSE s[j + 1]
  BY RemoveAtFacts
<1> HIDE DEF r
<1>2. Len(s) \in Nat
  OBVIOUS
<1>3. Injective(r)
  BY <1>1, <1>2 DEF Injective
<1>4. Elems(r, i - 1) = Elems(s, i - 1)
  BY <1>1, <1>2 DEF Elems
<1>5. \A j \in 1 .. Len(r) : r[j] \in Elems(s, Len(s)) /\ r[j] # s[i]
  BY <1>1, <1>2 DEF Injective, Elems
<1>6. \A m \in 1 .. Len(s) : m # i => s[m] \in Elems(r, Len(r))
  <2> SUFFICES ASSUME NEW m \in 1 .. Len(s), m # i
               PROVE  \E j \in 1 .. Len(r) : s[m] = r[j]
    BY DEF Elems
  <2>1. CASE m < i
    BY <1>1, <1>2, <2>1
  <2>2. CASE m > i
    <3>1. m - 1 \in 1 .. Len(r) /\ r[m - 1] = s[m]
      BY <1>1, <1>2, <2>2
    <3> QED
      BY <3>1
  <2> QED
    BY <2>1, <2>2
<1>7. Elems(r, Len(r)) = Elems(s, Len(s)) \ {s[i]}
  BY <1>5, <1>6 DEF Elems
<1> QED
  BY <1>1, <1>3, <1>4, <1>7 DEF r

(***************************************************************************)
(* The same for a list whose i-th element is replaced: the new one takes   *)
(* the place of the old one, as alloc() does with the remainder of a split *)
(* block.                                                                  *)
(***************************************************************************)
LEMMA ReplacedElems ==
    ASSUME NEW S, NEW s \in Seq(S), Injective(s), NEW i \in 1 .. Len(s),
           NEW e \in S, e \notin Elems(s, Len(s)),
           NEW r \in Seq(S), Len(r) = Len(s),
           \A j \in 1 .. Len(s) : r[j] = IF j = i THEN e ELSE s[j]
    PROVE  /\ Injective(r)
           /\ Elems(r, Len(r)) = (Elems(s, Len(s)) \ {s[i]}) \cup {e}
<1>2. Injective(r)
  BY DEF Injective, Elems
<1>3. \A j \in 1 .. Len(r) : r[j] = e \/ (r[j] \in Elems(s, Len(s)) /\ r[j] # s[i])
  BY DEF Injective, Elems
<1>4. \A m \in 1 .. Len(s) : m # i => s[m] \in Elems(r, Len(r))
  BY DEF Elems
<1>5. e \in Elems(r, Len(r))
  BY DEF Elems
<1>6. Elems(r, Len(r)) = (Elems(s, Len(s)) \ {s[i]}) \cup {e}
  BY <1>3, <1>4, <1>5 DEF Elems
<1> QED
  BY <1>2, <1>6

(***************************************************************************)
(* The same for a list to whose end an element is linked, as init_memmap() *)
(* and free() do.                                                          *)
(***************************************************************************)
LEMMA AppendedElems ==
    ASSUME NEW S, NEW s \in Seq(S), Injective(s),
           NEW e \in S, e \notin Elems(s, Len(s))
    PROVE  LET r == Append(s, e) IN
           /\ r \in Seq(S)
           /\ Len(r) = Len(s) + 1
           /\ Injective(r)
           /\ Elems(r, Len(r)) = Elems(s, Len(s)) \cup {e}
<1> DEFINE r == Append(s, e)
<1>1. /\ r \in Seq(S)
      /\ Len(s) \in Nat
      /\ Len(r) = Len(s) + 1
      /\ \A j \in 1 .. Len(s) + 1 : r[j] = IF j <= Len(s) THEN s[j] ELSE e
  OBVIOUS
<1> HIDE DEF r
<1>2. Injective(r)
  BY <1>1 DEF Injective, Elems
<1>3. \A j \in 1 .. Len(r) : r[j] = e \/ r[j] \in Elems(s, Len(s))
  BY <1>1 DEF Elems
<1>4. \A m \in 1 .. Len(s) : s[m] \in Elems(r, Len(r))
  <2>1. \A m \in 1 .. Len(s) : m \in 1 .. Len(r) /\ r[m] = s[m]
    BY <1>1
  <2> QED
    BY <2>1 DEF Elems
<1>5. e \in Elems(r, Len(r))
  <2>1. Len(r) \in 1 .. Len(r) /\ r[Len(r)] = e
    BY <1>1
  <2> QED
    BY <2>1 DEF Elems
<1>6. Elems(r, Len(r)) = Elems(s, Len(s)) \cup {e}
  BY <1>3, <1>4, <1>5 DEF Elems
<1> QED
  BY <1>1, <1>2, <1>6 DEF r

(***************************************************************************)
(* Linking an element behind the last one appends it.                      *)
(***************************************************************************)
LEMMA InsertAtEndFacts ==
    ASSUME NEW S, NEW s \in Seq(S), NEW e \in S
    PROVE  InsertAt(s, Len(s) + 1, e) = Append(s, e)
<1>1. SubSeq(s, 1, Len(s)) = s
  OBVIOUS
<1>2. SubSeq(s, Len(s) + 1, Len(s)) = << >>
  OBVIOUS
<1> DEFINE m == Len(s) + 1
<1>3. m - 1 = Len(s) /\ SubSeq(s, m, Len(s)) = << >>
  BY <1>2
<1> HIDE DEF m
<1>4. InsertAt(s, m, e) = (s \o <<e>>) \o << >>
  BY <1>1, <1>3 DEF InsertAt
<1>5. (s \o <<e>>) \o << >> = Append(s, e)
  OBVIOUS
<1> QED
  BY <1>4, <1>5 DEF m

(***************************************************************************)
(* The registered pages are descriptors, and finitely many.                *)
(***************************************************************************)
LEMMA ManagedFinite == Managed \subseteq Pages /\ IsFiniteSet(Managed)
<1>1. Managed \subseteq Pages
  BY DEF Managed
<1>2. IsFiniteSet(Pages)
  BY FS_Interval, NPagesAssumption DEF Pages
<1> QED
  BY <1>1, <1>2, FS_Subset

(***************************************************************************)
(* Taking a run out of a finite set of pages, and putting one in, changes  *)
(* its size by the length of the run.                                      *)
(***************************************************************************)
LEMMA TakeRun ==
    ASSUME NEW F, IsFiniteSet(F), NEW a \in Nat, NEW k \in Nat \ {0},
           Run(a, k) \subseteq F
    PROVE  Cardinality(F \ Run(a, k)) = Cardinality(F) - k
<1>1. IsFiniteSet(Run(a, k)) /\ Cardinality(Run(a, k)) = k
  BY FS_Interval DEF Run
<1>2. F \cap Run(a, k) = Run(a, k)
  OBVIOUS
<1> QED
  BY <1>1, <1>2, FS_Difference

(***************************************************************************)
(* Returning a run of pages to a set that has none of them makes it larger *)
(* by the length of the run.                                               *)
(***************************************************************************)
LEMMA PutRun ==
    ASSUME NEW F, IsFiniteSet(F), NEW a \in Nat, NEW k \in Nat \ {0},
           Run(a, k) \cap F = {}
    PROVE  Cardinality(F \cup Run(a, k)) = Cardinality(F) + k
<1>1. IsFiniteSet(Run(a, k)) /\ Cardinality(Run(a, k)) = k
  BY FS_Interval DEF Run
<1>2. F \cap Run(a, k) = {}
  OBVIOUS
<1>3. Cardinality(F \cap Run(a, k)) = 0
  BY <1>2, FS_EmptySet
<1>4. Cardinality(F) \in Nat
  BY FS_CardinalityType
<1>5. Cardinality(F \cup Run(a, k))
        = Cardinality(F) + Cardinality(Run(a, k)) - Cardinality(F \cap Run(a, k))
  BY <1>1, FS_Union, Zenon
<1> QED
  BY <1>1, <1>3, <1>4, <1>5

(***************************************************************************)
(* List elements are page numbers with a block size.                       *)
(***************************************************************************)
LEMMA HeadFacts ==
    ASSUME TypeOK, NEW p \in Heads
    PROVE  p \in Pages /\ p \in Nat /\ property[p] \in Nat
<1>1. p \in Pages
  BY DEF TypeOK, Heads
<1>2. property[p] \in Nat
  BY <1>1 DEF TypeOK
<1> QED
  BY <1>1, <1>2 DEF Pages

-----------------------------------------------------------------------------
(***************************************************************************)
(* The state page_init() starts from satisfies the invariant.              *)
(***************************************************************************)
LEMMA InitIInv == Init => IInv
<1> SUFFICES ASSUME Init PROVE IInv
  OBVIOUS
<1>1. Managed = {}
  BY DEF Init, Managed
<1>2. TypeOK
  <2>1. property \in [Pages -> Nat]
    BY JunkAssumption DEF Init
  <2>2. Len(Regions) \in Nat
    BY RegionsAssumption
  <2>3. ret \in [op : {"none", "alloc", "free"}, n : Nat, page : Nat \cup {Null}]
    BY DEF Init
  <2>4. reserved \in [Pages -> BOOLEAN]
    BY DEF Init
  <2> QED
    BY <1>1, <2>1, <2>2, <2>3, <2>4 DEF Init, TypeOK
<1>3. FreeCount
  BY <1>1, FS_EmptySet DEF Init, FreeCount
<1> QED
  BY <1>1, <1>2, <1>3
     DEF Init, IInv, ListInv, ScanInv, BootInv, CoverInv, ReservedMarksHeads,
         FailsOnlyWhenFull, Injective, Heads

(***************************************************************************)
(* A request that fits no block, or exceeds nr_free, fits nowhere: a run   *)
(* of free pages lies inside one block, because blocks are apart.          *)
(***************************************************************************)
LEMMA NoRun ==
    ASSUME IInv, pc = "idle", NEW k \in Nat \ {0},
           k > nr_free \/ \A i \in 1 .. Len(free_list) : ~Fits(i, k),
           NEW a \in Pages, Run(a, k) \subseteq Managed \ held
    PROVE  FALSE
<1> USE DEF Pages
<1>1. CASE k > nr_free
  <2>1. IsFiniteSet(Managed \ held)
    BY ManagedFinite, FS_Subset
  <2>2. Cardinality(Run(a, k)) = k
    BY FS_Interval DEF Run
  <2>3. k <= Cardinality(Managed \ held)
    BY <2>1, <2>2, FS_Subset
  <2>4. nr_free \in Nat /\ n = 0 /\ Cardinality(Managed \ held) = nr_free + n
    BY DEF IInv, TypeOK, ScanInv, FreeCount
  <2> QED
    BY <1>1, <2>3, <2>4
<1>2. CASE \A i \in 1 .. Len(free_list) : ~Fits(i, k)
  <2>1. TypeOK
    BY DEF IInv
  <2>2. a \in Run(a, k)
    BY DEF Run
  <2>3. PICK p \in Heads : InBlock(a, p)
    BY <2>2 DEF IInv, CoverInv
  <2>4. p \in Nat /\ property[p] \in Nat
    BY <2>1, HeadFacts
  <2>5. property[p] < k
    BY <1>2, <2>4 DEF Fits, Heads
  <2>6. End(p) \in Run(a, k)
    BY <2>3, <2>4, <2>5 DEF InBlock, End, Run
  <2>7. PICK q \in Heads : InBlock(End(p), q)
    BY <2>6 DEF IInv, CoverInv
  <2>8. q \in Nat /\ property[q] \in Nat
    BY <2>1, HeadFacts
  <2>9. p # q
    BY <2>4, <2>7 DEF InBlock, End
  <2>10. Apart(p, q)
    BY <2>9 DEF IInv, ListInv
  <2> QED
    BY <2>4, <2>7, <2>8, <2>10 DEF Apart, InBlock, End
<1> QED
  BY <1>1, <1>2

(***************************************************************************)
(* alloc() returning NULL keeps the invariant, and was right to.           *)
(***************************************************************************)
LEMMA AllocFailIInv ==
    ASSUME IInv, NEW k \in Sizes, AllocFail(k)
    PROVE  IInv'
<1>1. k \in Nat \ {0}
  BY SizesAssumption
<1>2. /\ UNCHANGED <<free_list, nr_free, property, reserved, region, pc, base, n, prev, held>>
      /\ ret' = [op |-> "alloc", n |-> k, page |-> Null]
      /\ pc = "idle"
  BY DEF AllocFail, AllocResult, locals
<1>3. Managed' = Managed
  BY <1>2 DEF Managed
<1>4. TypeOK'
  BY <1>1, <1>2, <1>3 DEF IInv, TypeOK
<1>5. /\ ListInv' /\ ScanInv' /\ CoverInv' /\ ReservedMarksHeads' /\ FreeCount'
      /\ BootInv'
  BY <1>2, <1>3
     DEF AllocFail, IInv, ListInv, ScanInv, BootInv, CoverInv, ReservedMarksHeads, FreeCount, WellPlaced,
         InBlock, Apart, Clear, End, Booted, Heads
<1>6. FailsOnlyWhenFull'
  <2>1. \A a \in Pages : ~(Run(a, k) \subseteq Managed \ held)
    BY <1>1, <1>2, NoRun DEF AllocFail
  <2> QED
    BY <1>2, <1>3, <2>1 DEF FailsOnlyWhenFull
<1> QED
  BY <1>4, <1>5, <1>6 DEF IInv

(***************************************************************************)
(* The pages of a listed block are registered and not owned, and belong to *)
(* no other listed block.                                                  *)
(***************************************************************************)
LEMMA HeadBlock ==
    ASSUME IInv, NEW p \in Heads
    PROVE  /\ Run(p, property[p]) \subseteq Managed \ held
           /\ \A q \in Heads : q # p =>
                 \A x \in Nat : InBlock(x, q) => x \notin Run(p, property[p])
           /\ property[p] >= 1
<1>1. TypeOK /\ WellPlaced(p)
  BY DEF IInv, ListInv
<1>2. p \in Nat /\ property[p] \in Nat
  BY <1>1, HeadFacts
<1>3. \A x \in Run(p, property[p]) : x \in Nat /\ InBlock(x, p)
  BY <1>2 DEF Run, InBlock, End
<1>4. ASSUME NEW q \in Heads, q # p, NEW x \in Nat, InBlock(x, q),
             x \in Run(p, property[p])
      PROVE  FALSE
  <2>1. Apart(q, p)
    BY <1>4 DEF IInv, ListInv
  <2>2. q \in Nat /\ property[q] \in Nat
    BY <1>1, HeadFacts
  <2> QED
    BY <1>2, <1>3, <1>4, <2>1, <2>2 DEF Apart, InBlock, End
<1> QED
  BY <1>1, <1>3, <1>4 DEF WellPlaced

(***************************************************************************)
(* alloc() of a whole block keeps the invariant: the block leaves the list *)
(* and its pages become the caller's.                                      *)
(***************************************************************************)
LEMMA AllocExactIInv ==
    ASSUME IInv, NEW k \in Sizes, AllocExact(k)
    PROVE  IInv'
<1>1. k \in Nat \ {0}
  BY SizesAssumption
<1>2. PICK i \in 1 .. Len(free_list) :
         /\ property[free_list[i]] = k
         /\ free_list' = RemoveAt(free_list, i)
         /\ reserved' = [reserved EXCEPT ![free_list[i]] = FALSE]
         /\ held' = held \cup Run(free_list[i], k)
         /\ ret' = [op |-> "alloc", n |-> k, page |-> free_list[i]]
  BY DEF AllocExact, AllocResult
<1>3. /\ UNCHANGED <<property, region, pc, base, n, prev>>
      /\ nr_free' = nr_free - k
      /\ k <= nr_free
      /\ pc = "idle" /\ prev = 0 /\ n = 0
  BY DEF AllocExact, locals, IInv, ScanInv
<1> DEFINE page == free_list[i]
<1>4. Managed' = Managed
  BY <1>3 DEF Managed
<1>5. TypeOK /\ free_list \in Seq(Pages) /\ Injective(free_list)
  BY DEF IInv, TypeOK, ListInv
<1>6. page \in Heads
  BY DEF Heads
<1> HIDE DEF page
<1>7. page \in Pages /\ page \in Nat /\ property[page] = k
  BY <1>2, <1>5, <1>6, HeadFacts DEF page
<1>8. /\ Run(page, k) \subseteq Managed \ held
      /\ \A q \in Heads : q # page =>
            \A x \in Nat : InBlock(x, q) => x \notin Run(page, k)
  BY <1>6, <1>7, HeadBlock
<1>9. /\ free_list' \in Seq(Pages)
      /\ Injective(free_list')
      /\ Heads' = Heads \ {page}
  <2>1. /\ free_list' \in Seq(Pages)
        /\ Injective(free_list')
        /\ Elems(free_list', Len(free_list')) =
              Elems(free_list, Len(free_list)) \ {page}
    BY <1>2, <1>5, RemovedElems DEF page
  <2> QED
    BY <2>1 DEF Heads, Elems
<1>10. TypeOK'
  <2>1. held' \subseteq Managed'
    BY <1>2, <1>4, <1>8, <1>5 DEF TypeOK, page
  <2>2. reserved' \in [Pages -> BOOLEAN]
    BY <1>2, <1>5 DEF TypeOK
  <2>3. nr_free' \in Nat
    BY <1>1, <1>3, <1>5 DEF TypeOK
  <2>4. ret' \in [op : {"none", "alloc", "free"}, n : Nat, page : Nat \cup {Null}]
    BY <1>1, <1>2, <1>7 DEF page
  <2>5. prev' \in 0 .. Len(free_list')
    BY <1>3, <1>9
  <2> QED
    BY <1>3, <1>5, <1>9, <2>1, <2>2, <2>3, <2>4, <2>5 DEF TypeOK
<1>11. ListInv'
  <2>1. ASSUME NEW p \in Heads' PROVE WellPlaced(p)'
    <3>1. p \in Heads /\ p # page /\ WellPlaced(p)
      BY <1>9, <2>1 DEF IInv, ListInv
    <3> QED
      BY <3>1, <1>2, <1>3, <1>4, <1>8 DEF WellPlaced, InBlock, End, page
  <2>2. \A p, q \in Heads' : p # q => Apart(p, q)'
    BY <1>3, <1>9 DEF IInv, ListInv, Apart, End
  <2> QED
    BY <1>9, <2>1, <2>2 DEF ListInv
<1>12. ScanInv' /\ BootInv'
  BY <1>3 DEF ScanInv, BootInv, Booted, AllocExact
<1>13. CoverInv'
  <2> SUFFICES ASSUME NEW q \in Managed, q \notin held'
               PROVE  \E p \in Heads' : InBlock(q, p)'
    BY <1>4 DEF CoverInv
  <2>1. q \in Nat
    BY DEF Managed, Pages
  <2>2. q \notin held /\ ~InBlock(q, page)
    BY <1>1, <1>2, <1>7, <2>1 DEF InBlock, End, Run, page
  <2> QED
    BY <2>2, <1>9, <1>3 DEF InBlock, End, IInv, CoverInv
<1>14. ReservedMarksHeads'
  <2> SUFFICES ASSUME NEW q \in Managed
               PROVE  reserved'[q] <=> q \in Heads'
    BY <1>3, <1>4 DEF ReservedMarksHeads
  <2>1. q \in Pages
    BY DEF Managed
  <2>2. reserved[q] <=> q \in Heads
    BY <1>3 DEF IInv, ReservedMarksHeads
  <2>3. reserved'[q] = IF q = page THEN FALSE ELSE reserved[q]
    BY <2>1, <1>2, <1>5 DEF TypeOK, page
  <2> QED
    BY <2>2, <2>3, <1>9
<1>15. FreeCount'
  <2>1. IsFiniteSet(Managed \ held)
    BY ManagedFinite, FS_Subset
  <2>2. Managed' \ held' = (Managed \ held) \ Run(page, k)
    BY <1>2, <1>4 DEF page
  <2>3. Cardinality(Managed' \ held') = Cardinality(Managed \ held) - k
    BY <2>1, <2>2, <1>1, <1>7, <1>8, TakeRun
  <2> QED
    BY <2>3, <1>1, <1>3, <1>5 DEF IInv, FreeCount, TypeOK
<1>16. FailsOnlyWhenFull'
  BY <1>2, <1>7, NullAssumption DEF FailsOnlyWhenFull, page
<1> QED
  BY <1>10, <1>11, <1>12, <1>13, <1>14, <1>15, <1>16 DEF IInv

(***************************************************************************)
(* alloc() of part of a block keeps the invariant: the remainder is a      *)
(* block of its own, apart from the others, in the place of the old one.   *)
(***************************************************************************)
LEMMA AllocSplitIInv ==
    ASSUME IInv, NEW k \in Sizes, AllocSplit(k)
    PROVE  IInv'
<1>1. k \in Nat \ {0}
  BY SizesAssumption
<1>2. PICK i \in 1 .. Len(free_list) :
         /\ property[free_list[i]] > k
         /\ property' = [property EXCEPT
                            ![free_list[i] + k] = property[free_list[i]] - k]
         /\ reserved' = [reserved EXCEPT ![free_list[i] + k] = TRUE,
                                         ![free_list[i]] = FALSE]
         /\ free_list' = [free_list EXCEPT ![i] = free_list[i] + k]
         /\ held' = held \cup Run(free_list[i], k)
         /\ ret' = [op |-> "alloc", n |-> k, page |-> free_list[i]]
  BY DEF AllocSplit, AllocResult
<1>3. /\ UNCHANGED <<region, pc, base, n, prev>>
      /\ nr_free' = nr_free - k
      /\ k <= nr_free
      /\ pc = "idle" /\ prev = 0 /\ n = 0
  BY DEF AllocSplit, locals, IInv, ScanInv
<1>0. PICK page, rest, size :
         page = free_list[i] /\ rest = page + k /\ size = property[page]
  OBVIOUS
<1>4. Managed' = Managed
  BY <1>3 DEF Managed
<1>5. TypeOK /\ free_list \in Seq(Pages) /\ Injective(free_list)
  BY DEF IInv, TypeOK, ListInv
<1>6. page \in Heads
  BY <1>0 DEF Heads
<1>7. page \in Pages /\ page \in Nat /\ size \in Nat /\ size > k
  BY <1>0, <1>2, <1>5, <1>6, HeadFacts
<1>8. /\ Run(page, size) \subseteq Managed \ held
      /\ \A q \in Heads : q # page =>
            \A x \in Nat : InBlock(x, q) => x \notin Run(page, size)
  BY <1>0, <1>6, HeadBlock
<1>9. rest \in Nat /\ rest # page /\ rest \in Run(page, size)
  BY <1>0, <1>1, <1>7 DEF Run
<1>10. rest \in Managed /\ rest \notin held /\ rest \in Pages
  BY <1>8, <1>9, ManagedFinite
<1>11. rest \notin Heads
  <2>1. ASSUME NEW q \in Heads PROVE q \in Nat /\ InBlock(q, q)
    <3>1. q \in Nat /\ property[q] \in Nat /\ property[q] >= 1
      BY <1>5, HeadFacts, HeadBlock
    <3> QED
      BY <3>1 DEF InBlock, End
  <2> QED
    BY <2>1, <1>8, <1>9
<1>12. /\ free_list' \in Seq(Pages)
       /\ Len(free_list') = Len(free_list)
       /\ Injective(free_list')
       /\ Heads' = (Heads \ {page}) \cup {rest}
  <2>1. rest \notin Elems(free_list, Len(free_list))
    BY <1>11 DEF Heads, Elems
  <2>2. /\ free_list' \in Seq(Pages)
        /\ Len(free_list') = Len(free_list)
        /\ Injective(free_list')
        /\ Elems(free_list', Len(free_list')) =
              (Elems(free_list, Len(free_list)) \ {page}) \cup {rest}
    <3>1. /\ free_list' \in Seq(Pages)
          /\ Len(free_list') = Len(free_list)
          /\ \A j \in 1 .. Len(free_list) :
                free_list'[j] = IF j = i THEN rest ELSE free_list[j]
      BY <1>0, <1>2, <1>5, <1>10
    <3> QED
      BY <3>1, <1>0, <1>5, <1>10, <2>1, ReplacedElems
  <2> QED
    BY <2>2 DEF Heads, Elems
<1>13. /\ property'[rest] = size - k
       /\ \A q \in Pages : q # rest => property'[q] = property[q]
       /\ held' = held \cup Run(page, k)
       /\ ret'.page = page /\ ret'.op = "alloc"
       /\ ret' \in [op : {"none", "alloc", "free"}, n : Nat, page : Nat \cup {Null}]
  BY <1>0, <1>1, <1>2, <1>5, <1>7, <1>10 DEF TypeOK
<1>14. property' \in [Pages -> Nat]
  <2>1. size - k \in Nat
    BY <1>1, <1>7
  <2> QED
    BY <2>1, <1>0, <1>2, <1>5 DEF TypeOK
<1>15. \A q \in Pages : reserved'[q] = IF q = page THEN FALSE
                                      ELSE IF q = rest THEN TRUE ELSE reserved[q]
  BY <1>0, <1>2, <1>5, <1>9, <1>10, <1>7 DEF TypeOK
<1>16. reserved' \in [Pages -> BOOLEAN]
  BY <1>2, <1>5 DEF TypeOK
<1>17. Run(page, k) \subseteq Run(page, size)
  BY <1>1, <1>7 DEF Run
<1>18. TypeOK'
  <2>1. held' \subseteq Managed'
    BY <1>13, <1>17, <1>4, <1>8, <1>5 DEF TypeOK
  <2>2. nr_free' \in Nat
    BY <1>1, <1>3, <1>5 DEF TypeOK
  <2>3. prev' \in 0 .. Len(free_list')
    BY <1>3, <1>12
  <2> QED
    BY <1>3, <1>5, <1>12, <1>13, <1>14, <1>16, <2>1, <2>2, <2>3 DEF TypeOK
<1>ends. End(rest)' = page + size /\ End(page) = page + size
  <2>1. property'[rest] = size - k
    BY <1>13
  <2>2. rest + (size - k) = page + size
    BY <1>0, <1>1, <1>7
  <2> QED
    BY <1>0, <2>1, <2>2 DEF End
<1>19. \A x \in Nat : InBlock(x, rest)' => InBlock(x, page) /\ x \notin Run(page, k)
                                           /\ x \in Run(page, size)
  BY <1>0, <1>1, <1>7, <1>ends DEF InBlock, Run
<1>20. \A q \in Heads : q # page =>
          q \in Pages /\ q # rest /\ property'[q] = property[q]
  BY <1>5, <1>11, <1>13, HeadFacts
<1>21. ListInv'
  <2>1. ASSUME NEW p \in Heads' PROVE WellPlaced(p)'
    <3>1. CASE p = rest
      <4>1. (property[rest] >= 1)'
        BY <1>1, <1>7, <1>13
      <4>2. \A x \in Nat : InBlock(x, rest)' => x \in Managed' /\ x \notin held'
        BY <1>4, <1>8, <1>13, <1>19
      <4> QED
        BY <3>1, <4>1, <4>2, <1>10 DEF WellPlaced
    <3>2. CASE p \in Heads /\ p # page
      <4>1. WellPlaced(p)
        BY <3>2 DEF IInv, ListInv
      <4>2. property'[p] = property[p]
        BY <3>2, <1>20
      <4>3. \A x \in Nat : InBlock(x, p) => x \notin Run(page, k)
        BY <3>2, <1>8, <1>17
      <4> QED
        BY <4>1, <4>2, <4>3, <1>4, <1>13 DEF WellPlaced, InBlock, End
    <3> QED
      BY <2>1, <3>1, <3>2, <1>12
  <2>2. ASSUME NEW p \in Heads, p # page PROVE Apart(p, rest)'
    <3>1. Apart(p, page)
      BY <2>2, <1>6 DEF IInv, ListInv
    <3>2. p \in Nat /\ property[p] \in Nat
      BY <1>5, HeadFacts
    <3>3. property'[p] = property[p]
      BY <2>2, <1>20
    <3>4. End(p)' = End(p) /\ End(p) \in Nat
      BY <3>2, <3>3 DEF End
    <3> QED
      BY <3>1, <3>2, <3>3, <3>4, <1>0, <1>1, <1>7, <1>ends DEF Apart
  <2>3. ASSUME NEW p \in Heads, p # page, NEW q \in Heads, q # page, p # q
        PROVE  Apart(p, q)'
    <3>1. Apart(p, q)
      BY <2>3 DEF IInv, ListInv
    <3> QED
      BY <3>1, <2>3, <1>20 DEF Apart, End
  <2>4. \A p, q \in Heads' : p # q => Apart(p, q)'
    BY <2>2, <2>3, <1>12 DEF Apart
  <2> QED
    BY <1>12, <2>1, <2>4 DEF ListInv
<1>22. ScanInv' /\ BootInv'
  BY <1>3 DEF ScanInv, BootInv, Booted, AllocSplit
<1>23. CoverInv'
  <2> SUFFICES ASSUME NEW q \in Managed, q \notin held'
               PROVE  \E p \in Heads' : InBlock(q, p)'
    BY <1>4 DEF CoverInv
  <2>1. q \in Nat
    BY DEF Managed, Pages
  <2>2. PICK p \in Heads : InBlock(q, p)
    BY <1>3, <1>13 DEF IInv, CoverInv
  <2>3. CASE p = page
    <3>1. InBlock(q, rest)'
      <4>1. q \notin Run(page, k)
        BY <1>13
      <4> QED
        BY <2>1, <2>2, <2>3, <4>1, <1>0, <1>1, <1>7, <1>ends DEF InBlock, Run
    <3> QED
      BY <3>1, <1>12
  <2>4. CASE p # page
    BY <2>2, <2>4, <1>12, <1>20 DEF InBlock, End
  <2> QED
    BY <2>3, <2>4
<1>24. ReservedMarksHeads'
  <2> SUFFICES ASSUME NEW q \in Managed
               PROVE  reserved'[q] <=> q \in Heads'
    BY <1>3, <1>4 DEF ReservedMarksHeads
  <2>1. q \in Pages
    BY DEF Managed
  <2>2. reserved[q] <=> q \in Heads
    BY <1>3 DEF IInv, ReservedMarksHeads
  <2> QED
    BY <2>1, <2>2, <1>9, <1>12, <1>15
<1>25. FreeCount'
  <2>1. IsFiniteSet(Managed \ held)
    BY ManagedFinite, FS_Subset
  <2>2. Managed' \ held' = (Managed \ held) \ Run(page, k)
    BY <1>13, <1>4
  <2>3. Cardinality(Managed' \ held') = Cardinality(Managed \ held) - k
    BY <2>1, <2>2, <1>1, <1>7, <1>8, <1>17, TakeRun
  <2> QED
    BY <2>3, <1>1, <1>3, <1>5 DEF IInv, FreeCount, TypeOK
<1>26. FailsOnlyWhenFull'
  BY <1>13, <1>7, NullAssumption DEF FailsOnlyWhenFull
<1> QED
  BY <1>18, <1>21, <1>22, <1>23, <1>24, <1>25, <1>26 DEF IInv

-----------------------------------------------------------------------------
(***************************************************************************)
(* The part of free() before its loop keeps the invariant: the pages given *)
(* back become the block in flight.                                        *)
(***************************************************************************)
LEMMA FreeStartIInv ==
    ASSUME IInv, NEW a \in Pages, NEW k \in Sizes, FreeStart(a, k)
    PROVE  IInv'
<1>1. k \in Nat \ {0} /\ a \in Nat
  BY SizesAssumption DEF Pages
<1>2. /\ UNCHANGED <<free_list, nr_free, region>>
      /\ pc = "idle" /\ n = 0 /\ Booted
      /\ pc' = "scan" /\ base' = a /\ n' = k /\ prev' = 0
      /\ held' = held \ Run(a, k)
      /\ Run(a, k) \subseteq held
      /\ ret' = [op |-> "free", n |-> k, page |-> a]
      /\ property' = [property EXCEPT ![a] = k]
      /\ reserved' = [p \in Pages |-> IF p \in Run(a, k) THEN p = a ELSE reserved[p]]
  BY DEF FreeStart, IInv, ScanInv
<1>3. Managed' = Managed /\ Heads' = Heads
  BY <1>2 DEF Managed, Heads
<1>4. TypeOK /\ held \subseteq Managed
  BY DEF IInv, TypeOK
<1>5. \A q \in Pages : property'[q] = IF q = a THEN k ELSE property[q]
  BY <1>2, <1>4 DEF TypeOK
<1>6. a \in Run(a, k)
  BY <1>1 DEF Run
<1>7. ASSUME NEW p \in Heads
      PROVE  /\ p \in Nat /\ p \in Pages /\ property[p] \in Nat /\ property[p] >= 1
             /\ p # a /\ property'[p] = property[p]
             /\ End(p) <= a \/ a + k <= p
  <2>1. p \in Nat /\ p \in Pages /\ property[p] \in Nat /\ property[p] >= 1
    BY <1>4, HeadFacts, HeadBlock
  <2>2. Run(p, property[p]) \cap Run(a, k) = {}
    BY <1>2, HeadBlock
  <2>3. p \in Run(p, property[p])
    BY <2>1 DEF Run
  <2>4. p # a
    BY <1>6, <2>2, <2>3
  <2>5. End(p) <= a \/ a + k <= p
    <3> SUFFICES ASSUME End(p) > a, a + k > p PROVE FALSE
      BY <2>1, <1>1 DEF End
    <3>1. CASE p <= a
      <4>1. a \in Run(p, property[p])
        BY <3>1, <2>1, <1>1 DEF Run, End
      <4> QED
        BY <4>1, <2>2, <1>6
    <3>2. CASE a <= p
      <4>1. p \in Run(a, k)
        BY <3>2, <2>1, <1>1 DEF Run
      <4> QED
        BY <4>1, <2>2, <2>3
    <3> QED
      BY <3>1, <3>2, <2>1, <1>1
  <2> QED
    BY <2>1, <2>4, <2>5, <1>5
<1>8. TypeOK'
  <2>1. property' \in [Pages -> Nat]
    BY <1>1, <1>2, <1>4 DEF TypeOK
  <2>2. reserved' \in [Pages -> BOOLEAN]
    BY <1>2, <1>4 DEF TypeOK
  <2>3. ret' \in [op : {"none", "alloc", "free"}, n : Nat, page : Nat \cup {Null}]
    BY <1>1, <1>2
  <2>4. held' \subseteq Managed'
    BY <1>2, <1>3, <1>4
  <2>5. free_list' \in Seq(Pages) /\ prev' \in 0 .. Len(free_list')
    BY <1>2, <1>4 DEF TypeOK
  <2> QED
    BY <1>1, <1>2, <1>4, <2>1, <2>2, <2>3, <2>4, <2>5 DEF TypeOK
<1>9. \A q \in Nat : InBlock(q, a)' <=> q \in Run(a, k)
  BY <1>1, <1>5 DEF InBlock, End, Run
<1>10. ListInv'
  <2>1. ASSUME NEW p \in Heads PROVE WellPlaced(p)'
    <3>1. WellPlaced(p)
      BY DEF IInv, ListInv
    <3> QED
      BY <3>1, <1>2, <1>3, <1>7 DEF WellPlaced, InBlock, End
  <2>2. ASSUME NEW p \in Heads, NEW q \in Heads, p # q PROVE Apart(p, q)'
    <3>1. Apart(p, q)
      BY <2>2 DEF IInv, ListInv
    <3> QED
      BY <3>1, <1>7 DEF Apart, End
  <2>3. Injective(free_list')
    BY <1>2 DEF IInv, ListInv
  <2> QED
    BY <2>1, <2>2, <2>3, <1>3 DEF ListInv
<1>11. ScanInv' /\ BootInv'
  <2>1. WellPlaced(a)'
    BY <1>1, <1>2, <1>3, <1>4, <1>5, <1>9 DEF WellPlaced
  <2>2. ASSUME NEW p \in Heads PROVE Clear(p, a)'
    BY <1>1, <1>5, <1>7 DEF Clear, End
  <2>3. Elems(free_list', prev') = {}
    BY <1>2 DEF Elems
  <2>4. WellPlaced(base)' /\ \A p \in Heads' : Clear(p, base)'
    BY <2>1, <2>2, <1>2, <1>3 DEF WellPlaced, Clear, InBlock, End
  <2> QED
    BY <2>3, <2>4, <1>2 DEF ScanInv, BootInv, Booted
<1>12. CoverInv'
  <2> SUFFICES ASSUME NEW q \in Managed, q \notin held', ~InBlock(q, base)'
               PROVE  \E p \in Heads' : InBlock(q, p)'
    BY <1>2, <1>3 DEF CoverInv
  <2>1. q \in Nat
    BY DEF Managed, Pages
  <2>2. q \notin Run(a, k)
    BY <1>2, <1>9, <2>1 DEF InBlock, End
  <2>3. PICK p \in Heads : InBlock(q, p)
    BY <1>2, <2>2 DEF IInv, CoverInv
  <2> QED
    BY <2>3, <1>3, <1>7 DEF InBlock, End
<1>13. ReservedMarksHeads'
  <2> SUFFICES ASSUME NEW q \in Managed
               PROVE  reserved'[q] <=> (q \in Heads \/ q = a)
    BY <1>2, <1>3 DEF ReservedMarksHeads
  <2>1. q \in Pages
    BY DEF Managed
  <2>2. reserved[q] <=> q \in Heads
    BY <1>2 DEF IInv, ReservedMarksHeads
  <2>3. reserved'[q] = IF q \in Run(a, k) THEN q = a ELSE reserved[q]
    BY <2>1, <1>2
  <2>4. q \in Run(a, k) => q \notin Heads
    <3>1. ASSUME q \in Heads, q \in Run(a, k) PROVE FALSE
      BY <3>1, <1>7, <1>1 DEF Run, End
    <3> QED
      BY <3>1
  <2> QED
    BY <2>2, <2>3, <2>4, <1>6
<1>14. FreeCount'
  <2>1. IsFiniteSet(Managed \ held)
    BY ManagedFinite, FS_Subset
  <2>2. Managed' \ held' = (Managed \ held) \cup Run(a, k)
    BY <1>2, <1>3, <1>4
  <2>3. Cardinality(Managed' \ held') = Cardinality(Managed \ held) + k
    BY <2>1, <2>2, <1>1, <1>2, PutRun
  <2> QED
    BY <2>3, <1>1, <1>2, <1>4 DEF IInv, FreeCount, TypeOK
<1>15. FailsOnlyWhenFull'
  BY <1>2 DEF FailsOnlyWhenFull
<1> QED
  BY <1>8, <1>10, <1>11, <1>12, <1>13, <1>14, <1>15 DEF IInv

(***************************************************************************)
(* What the loop of free() finds at its position: a listed block that does *)
(* not overlap the block in flight and is not among the blocks passed.     *)
(***************************************************************************)
LEMMA ScanFacts ==
    ASSUME IInv, Scanning, NEW p, p = ScanPage
    PROVE  /\ TypeOK /\ free_list \in Seq(Pages) /\ Injective(free_list)
           /\ prev + 1 \in 1 .. Len(free_list)
           /\ p = free_list[prev + 1]
           /\ p \in Heads /\ p \in Pages /\ p \in Nat /\ property[p] \in Nat
           /\ property[p] >= 1
           /\ base \in Pages /\ base \in Nat /\ property[base] \in Nat
           /\ property[base] >= 1
           /\ Clear(p, base) /\ p # base
           /\ WellPlaced(p) /\ WellPlaced(base)
           /\ p \notin Elems(free_list, prev)
           /\ Elems(free_list, prev) \subseteq Heads
           /\ base \notin Heads
<1>1. TypeOK /\ free_list \in Seq(Pages) /\ Injective(free_list)
  BY DEF IInv, TypeOK, ListInv
<1>2. prev + 1 \in 1 .. Len(free_list) /\ prev \in 0 .. Len(free_list)
  BY <1>1 DEF TypeOK, Scanning
<1>3. p = free_list[prev + 1] /\ p \in Heads
  BY <1>2 DEF ScanPage, Heads
<1>4. p \in Pages /\ p \in Nat /\ property[p] \in Nat /\ property[p] >= 1
  BY <1>1, <1>3, HeadFacts, HeadBlock
<1>5. WellPlaced(base) /\ Clear(p, base) /\ WellPlaced(p)
  BY <1>3 DEF Scanning, IInv, ScanInv, ListInv
<1>6. base \in Pages /\ base \in Nat
  BY <1>5 DEF WellPlaced, Pages
<1>7. property[base] \in Nat /\ property[base] >= 1
  BY <1>1, <1>5, <1>6 DEF WellPlaced, TypeOK
<1>8. p # base
  BY <1>4, <1>5, <1>6, <1>7 DEF Clear, End
<1>9. p \notin Elems(free_list, prev) /\ Elems(free_list, prev) \subseteq Heads
  BY <1>1, <1>2, <1>3 DEF Elems, Injective, Heads
<1>10. base \notin Heads
  <2> SUFFICES ASSUME base \in Heads PROVE FALSE
    OBVIOUS
  <2>1. Clear(base, base)
    BY DEF Scanning, IInv, ScanInv
  <2> QED
    BY <2>1, <1>6, <1>7 DEF Clear, End
<1> QED
  BY <1>1, <1>2, <1>3, <1>4, <1>5, <1>6, <1>7, <1>8, <1>9, <1>10

(***************************************************************************)
(* Unlinking the element at the loop's position.                           *)
(***************************************************************************)
LEMMA ScanUnlink ==
    ASSUME IInv, Scanning, NEW p, p = ScanPage,
           free_list' = RemoveAt(free_list, prev + 1), prev' = prev
    PROVE  /\ free_list' \in Seq(Pages)
           /\ prev' \in 0 .. Len(free_list')
           /\ Injective(free_list')
           /\ Heads' = Heads \ {p}
           /\ Elems(free_list', prev') = Elems(free_list, prev)
<1>1. /\ free_list \in Seq(Pages) /\ Injective(free_list)
      /\ prev + 1 \in 1 .. Len(free_list) /\ p = free_list[prev + 1]
      /\ prev \in 0 .. Len(free_list)
  BY ScanFacts DEF TypeOK
<1> PICK i : i = prev + 1
  OBVIOUS
<1>2. /\ free_list' \in Seq(Pages)
      /\ Len(free_list') = Len(free_list) - 1
      /\ Injective(free_list')
      /\ Elems(free_list', Len(free_list')) = Elems(free_list, Len(free_list)) \ {p}
      /\ Elems(free_list', i - 1) = Elems(free_list, i - 1)
  <2>1. i \in 1 .. Len(free_list) /\ p = free_list[i] /\ free_list' = RemoveAt(free_list, i)
    BY <1>1
  <2>2. /\ free_list' \in Seq(Pages)
        /\ Len(free_list') = Len(free_list) - 1
        /\ Injective(free_list')
    BY <2>1, <1>1, RemovedElems, SMTT(60)
  <2>3. Elems(free_list', Len(free_list')) = Elems(free_list, Len(free_list)) \ {p}
    <3>1. LET r == RemoveAt(free_list, i)
          IN  Elems(r, Len(r)) = Elems(free_list, Len(free_list)) \ {free_list[i]}
      BY <2>1, <1>1, RemovedElems, SMTT(60)
    <3> QED
      BY <2>1, <3>1
  <2>4. Elems(free_list', i - 1) = Elems(free_list, i - 1)
    BY <2>1, <1>1, RemovedElems
  <2> QED
    BY <2>2, <2>3, <2>4
<1>3. i - 1 = prev
  BY <1>1
<1>4. Heads' = Heads \ {p}
  BY <1>2 DEF Heads, Elems
<1>5. prev' \in 0 .. Len(free_list')
  BY <1>1, <1>2
<1> QED
  BY <1>2, <1>3, <1>4, <1>5

(***************************************************************************)
(* Both merging branches: q, the block at the lower address, takes in the  *)
(* block at the higher address h, and becomes the block in flight.         *)
(***************************************************************************)
LEMMA MergeIInv ==
    ASSUME IInv, Scanning, NEW p, p = ScanPage, NEW q, NEW h,
           (q = base /\ h = p) \/ (q = p /\ h = base),
           End(q) = h,
           property' = [property EXCEPT ![q] = property[q] + property[h]],
           reserved' = [reserved EXCEPT ![h] = FALSE],
           base' = q,
           free_list' = RemoveAt(free_list, prev + 1),
           UNCHANGED <<nr_free, region, pc, n, prev, held, ret>>
    PROVE  IInv'
<1>1. /\ TypeOK
      /\ p \in Heads /\ p # base
      /\ q \in Pages /\ q \in Nat /\ property[q] \in Nat /\ property[q] >= 1
      /\ h \in Pages /\ h \in Nat /\ property[h] \in Nat /\ property[h] >= 1
      /\ WellPlaced(q) /\ WellPlaced(h)
      /\ p \notin Elems(free_list, prev) /\ Elems(free_list, prev) \subseteq Heads
      /\ base \notin Heads
      /\ q # h
  BY ScanFacts
<1>2. /\ free_list' \in Seq(Pages)
      /\ prev' \in 0 .. Len(free_list')
      /\ Injective(free_list')
      /\ Heads' = Heads \ {p}
      /\ Elems(free_list', prev') = Elems(free_list, prev)
  BY ScanUnlink
<1>3. Managed' = Managed /\ pc = "scan"
  BY DEF Managed, Scanning
<1>4. /\ property'[q] = property[q] + property[h]
      /\ \A x \in Pages : x # q => property'[x] = property[x]
      /\ property' \in [Pages -> Nat]
  BY <1>1 DEF TypeOK
<1>5. /\ \A x \in Pages : reserved'[x] = IF x = h THEN FALSE ELSE reserved[x]
      /\ reserved' \in [Pages -> BOOLEAN]
  BY <1>1 DEF TypeOK
<1>6. End(q)' = End(h) /\ End(q) = h /\ End(q) = q + property[q]
  BY <1>1, <1>4 DEF End
<1>7. \A x \in Nat : InBlock(x, q)' <=> (InBlock(x, q) \/ InBlock(x, h))
  BY <1>1, <1>6 DEF InBlock, End
<1>8. ASSUME NEW x \in Heads, x # p
      PROVE  /\ x \in Pages /\ x \in Nat /\ property[x] \in Nat
             /\ property[x] >= 1
             /\ property'[x] = property[x] /\ End(x)' = End(x)
             /\ Clear(x, base) /\ Apart(x, p)
  <2>1. x \in Pages /\ x \in Nat /\ property[x] \in Nat /\ property[x] >= 1
    BY <1>1, HeadFacts, HeadBlock
  <2>2. x # q
    BY <1>1, <1>8
  <2>3. Clear(x, base) /\ Apart(x, p)
    BY <1>1, <1>3, <1>8 DEF IInv, ScanInv, ListInv
  <2> QED
    BY <2>1, <2>2, <2>3, <1>4 DEF End
<1>9. TypeOK'
  BY <1>1, <1>2, <1>3, <1>4, <1>5 DEF TypeOK
<1>10. ListInv'
  <2>1. ASSUME NEW x \in Heads, x # p PROVE WellPlaced(x)'
    <3>1. WellPlaced(x)
      BY <2>1 DEF IInv, ListInv
    <3> QED
      BY <3>1, <1>3, <1>8, <2>1 DEF WellPlaced, InBlock
  <2>2. ASSUME NEW x \in Heads, x # p, NEW y \in Heads, y # p, x # y
        PROVE  Apart(x, y)'
    <3>1. Apart(x, y)
      BY <2>2 DEF IInv, ListInv
    <3> QED
      BY <3>1, <1>8, <2>2 DEF Apart
  <2> QED
    BY <2>1, <2>2, <1>2 DEF ListInv
<1>11. ScanInv' /\ BootInv'
  <2>1. WellPlaced(q)'
    <3>1. property'[q] >= 1
      BY <1>1, <1>4
    <3> QED
      BY <3>1, <1>1, <1>3, <1>7 DEF WellPlaced
  <2>2. ASSUME NEW x \in Heads, x # p PROVE Clear(x, q)'
    <3>1. /\ x \in Nat /\ property[x] \in Nat /\ property[x] >= 1
          /\ End(x)' = End(x)
          /\ Clear(x, base) /\ Apart(x, p)
      BY <1>8, <2>2
    <3> QED
      BY <3>1, <1>1, <1>6 DEF Clear, Apart, End
  <2>3. ASSUME NEW x \in Elems(free_list, prev) PROVE Apart(x, q)'
    <3>1. x \in Heads /\ x # p
      BY <1>1
    <3>2. /\ x \in Nat /\ property[x] \in Nat /\ property[x] >= 1
          /\ End(x)' = End(x)
          /\ Apart(x, p)
      BY <1>8, <3>1
    <3>3. Apart(x, base)
      BY <1>3 DEF IInv, ScanInv
    <3> QED
      BY <3>2, <3>3, <1>1, <1>6 DEF Apart, End
  <2>4. /\ WellPlaced(base)'
        /\ \A x \in Heads' : Clear(x, base)'
        /\ \A x \in Elems(free_list', prev') : Apart(x, base)'
    BY <2>1, <2>2, <2>3, <1>2 DEF WellPlaced, Clear, Apart, InBlock, End
  <2> QED
    BY <2>4, <1>3 DEF IInv, ScanInv, BootInv, Booted
<1>12. CoverInv'
  <2> SUFFICES ASSUME NEW x \in Managed, x \notin held, ~InBlock(x, q)'
               PROVE  \E y \in Heads' : InBlock(x, y)'
    BY <1>3 DEF CoverInv, InBlock, End
  <2>1. x \in Nat
    BY DEF Managed, Pages
  <2>2. ~InBlock(x, base) /\ ~InBlock(x, p)
    BY <2>1, <1>7
  <2>3. PICK y \in Heads : InBlock(x, y)
    BY <2>2 DEF IInv, CoverInv
  <2>4. y # p /\ y \in Heads'
    BY <2>2, <2>3, <1>2
  <2> QED
    BY <2>3, <2>4, <1>8 DEF InBlock
<1>13. ReservedMarksHeads'
  <2> SUFFICES ASSUME NEW x \in Managed
               PROVE  reserved'[x] <=> (x \in Heads' \/ x = q)
    BY <1>3 DEF ReservedMarksHeads
  <2>1. x \in Pages
    BY DEF Managed
  <2>2. reserved[x] <=> (x \in Heads \/ x = base)
    BY <1>3 DEF IInv, ReservedMarksHeads
  <2>3. reserved'[x] = IF x = h THEN FALSE ELSE reserved[x]
    BY <2>1, <1>5
  <2> QED
    BY <2>2, <2>3, <1>1, <1>2
<1>14. FreeCount' /\ FailsOnlyWhenFull'
  BY <1>3 DEF IInv, FreeCount, FailsOnlyWhenFull
<1> QED
  BY <1>9, <1>10, <1>11, <1>12, <1>13, <1>14 DEF IInv

(***************************************************************************)
(* The branch of free()'s loop that merges with a block behind base is a   *)
(* merge of the block in flight with the listed one.                       *)
(***************************************************************************)
LEMMA MergeNextIInv == ASSUME IInv, MergeNext PROVE IInv'
<1>1. PICK p, b : p = ScanPage /\ b = base
  OBVIOUS
<1>2. /\ Scanning /\ End(b) = p
      /\ property' = [property EXCEPT ![b] = property[b] + property[p]]
      /\ reserved' = [reserved EXCEPT ![p] = FALSE]
      /\ free_list' = RemoveAt(free_list, prev + 1)
      /\ base' = b
      /\ UNCHANGED <<nr_free, region, pc, n, prev, held, ret>>
  BY <1>1 DEF MergeNext, End, locals
<1> QED
  BY <1>1, <1>2, MergeIInv

(***************************************************************************)
(* The branch that merges with a block before base is the same merge with  *)
(* the roles exchanged.                                                    *)
(***************************************************************************)
LEMMA MergePrevIInv == ASSUME IInv, MergePrev PROVE IInv'
<1>1. PICK p, b : p = ScanPage /\ b = base
  OBVIOUS
<1>2. /\ Scanning /\ End(p) = b
      /\ property' = [property EXCEPT ![p] = property[p] + property[b]]
      /\ reserved' = [reserved EXCEPT ![b] = FALSE]
      /\ free_list' = RemoveAt(free_list, prev + 1)
      /\ base' = p
      /\ UNCHANGED <<nr_free, region, pc, n, prev, held, ret>>
  BY <1>1 DEF MergePrev, End
<1> QED
  BY <1>1, <1>2, MergeIInv

(***************************************************************************)
(* The branch of free()'s loop that merges nothing keeps the invariant:    *)
(* the block passed is apart from the block in flight.                     *)
(***************************************************************************)
LEMMA KeepIInv == ASSUME IInv, Keep PROVE IInv'
<1>1. PICK p : p = ScanPage
  OBVIOUS
<1>2. /\ Scanning /\ pc = "scan"
      /\ End(base) # p /\ End(p) # base
      /\ prev' = prev + 1
      /\ UNCHANGED <<free_list, nr_free, property, reserved, region, pc, base, n,
                     held, ret>>
  BY <1>1 DEF Keep, End, Scanning
<1>3. /\ TypeOK
      /\ prev + 1 \in 1 .. Len(free_list) /\ p = free_list[prev + 1]
      /\ p \in Nat /\ property[p] \in Nat
      /\ base \in Nat /\ property[base] \in Nat
      /\ Clear(p, base)
  BY <1>1, <1>2, ScanFacts
<1>4. Managed' = Managed /\ Heads' = Heads
  BY <1>2 DEF Managed, Heads
<1>5. Apart(p, base)
  BY <1>2, <1>3 DEF Apart, Clear, End
<1>6. Elems(free_list, prev + 1) = Elems(free_list, prev) \cup {p}
  <2>1. prev \in Nat
    BY <1>3 DEF TypeOK
  <2>2. 1 .. prev + 1 = (1 .. prev) \cup {prev + 1}
    BY <2>1
  <2> QED
    BY <2>2, <1>3 DEF Elems
<1>7. TypeOK'
  BY <1>2, <1>3, <1>4 DEF TypeOK
<1>8. ScanInv'
  <2>1. \A x \in Elems(free_list, prev + 1) : Apart(x, base)
    BY <1>2, <1>5, <1>6 DEF IInv, ScanInv
  <2> QED
    BY <2>1, <1>2, <1>4
       DEF IInv, ScanInv, WellPlaced, Clear, Apart, InBlock, End, Booted
<1>9. /\ ListInv' /\ BootInv' /\ CoverInv' /\ ReservedMarksHeads'
      /\ FreeCount' /\ FailsOnlyWhenFull'
  BY <1>2, <1>4
     DEF IInv, ListInv, BootInv, CoverInv, ReservedMarksHeads, FreeCount,
         FailsOnlyWhenFull, WellPlaced, Apart, InBlock, End, Booted
<1> QED
  BY <1>7, <1>8, <1>9 DEF IInv

(***************************************************************************)
(* The end of free() keeps the invariant: every listed block has been      *)
(* passed, so the block in flight is apart from all of them when it is     *)
(* linked.                                                                 *)
(***************************************************************************)
LEMMA FreeDoneIInv == ASSUME IInv, FreeDone PROVE IInv'
<1>1. /\ pc = "scan" /\ prev = Len(free_list)
      /\ nr_free' = nr_free + n
      /\ free_list' = InsertAt(free_list, prev + 1, base)
      /\ pc' = "idle" /\ base' = 0 /\ n' = 0 /\ prev' = 0
      /\ UNCHANGED <<property, reserved, region, held, ret>>
  BY DEF FreeDone
<1>2. PICK b : b = base
  OBVIOUS
<1>3. /\ TypeOK /\ free_list \in Seq(Pages) /\ Injective(free_list)
      /\ WellPlaced(b) /\ \A p \in Heads : Apart(p, b)
  BY <1>1, <1>2 DEF IInv, TypeOK, ListInv, ScanInv, Heads, Elems
<1>4. b \in Pages /\ b \in Nat /\ property[b] \in Nat /\ property[b] >= 1
  BY <1>3 DEF WellPlaced, Pages, TypeOK
<1>5. b \notin Heads
  BY <1>3, <1>4 DEF Apart, End
<1>6. free_list' = Append(free_list, b)
  BY <1>1, <1>2, <1>3, <1>4, InsertAtEndFacts
<1>7. /\ free_list' \in Seq(Pages)
      /\ Injective(free_list')
      /\ Heads' = Heads \cup {b}
  <2>1. b \notin Elems(free_list, Len(free_list))
    BY <1>5 DEF Heads, Elems
  <2>2. free_list' \in Seq(Pages) /\ Injective(free_list')
    BY <2>1, <1>3, <1>4, <1>6, AppendedElems
  <2>3. Elems(free_list', Len(free_list')) = Elems(free_list, Len(free_list)) \cup {b}
    BY <2>1, <1>3, <1>4, <1>6, AppendedElems
  <2> QED
    BY <2>2, <2>3 DEF Heads, Elems
<1>8. Managed' = Managed
  BY <1>1 DEF Managed
<1>9. TypeOK'
  <2>1. nr_free' \in Nat /\ prev' \in 0 .. Len(free_list')
    BY <1>1, <1>3, <1>7 DEF TypeOK
  <2> QED
    BY <2>1, <1>1, <1>3, <1>7, <1>8 DEF TypeOK
<1>10. ListInv'
  <2>1. \A p \in Heads' : WellPlaced(p)'
    BY <1>1, <1>3, <1>7, <1>8 DEF IInv, ListInv, WellPlaced, InBlock, End
  <2>2. \A p, q \in Heads' : p # q => Apart(p, q)
    BY <1>3, <1>7 DEF IInv, ListInv, Apart
  <2> QED
    BY <2>1, <2>2, <1>1, <1>7 DEF ListInv, Apart, End
<1>11. ScanInv' /\ BootInv'
  BY <1>1 DEF IInv, ScanInv, BootInv, Booted
<1>12. CoverInv'
  BY <1>1, <1>2, <1>7, <1>8 DEF IInv, CoverInv, InBlock, End
<1>13. ReservedMarksHeads'
  BY <1>1, <1>2, <1>7, <1>8 DEF IInv, ReservedMarksHeads
<1>14. FreeCount'
  BY <1>1, <1>3, <1>8 DEF IInv, FreeCount, TypeOK
<1>15. FailsOnlyWhenFull'
  BY <1>1, <1>8 DEF IInv, FailsOnlyWhenFull
<1> QED
  BY <1>9, <1>10, <1>11, <1>12, <1>13, <1>14, <1>15 DEF IInv

-----------------------------------------------------------------------------
(***************************************************************************)
(* What the assumption on the memory map says of the region that           *)
(* page_init() registers next: its pages are new.                          *)
(***************************************************************************)
LEMMA RegionFacts ==
    ASSUME NEW i \in 1 .. Len(Regions)
    PROVE  /\ Regions[i].base \in Nat
           /\ Regions[i].n \in Nat \ {0}
           /\ Run(Regions[i].base, Regions[i].n) \subseteq Pages
<1> DEFINE R == [base : Nat, n : Nat \ {0}]
<1>1. Regions \in Seq(R)
  BY RegionsAssumption
<1> HIDE DEF R
<1>2. Regions[i] \in R
  BY <1>1
<1>3. Run(Regions[i].base, Regions[i].n) \subseteq Pages
  BY RegionsAssumption
<1> QED
  BY <1>2, <1>3 DEF R

(***************************************************************************)
(* init_memmap() of the next region keeps the invariant.                   *)
(***************************************************************************)
LEMMA InitMemmapIInv == ASSUME IInv, InitMemmap PROVE IInv'
<1>1. region + 1 \in 1 .. Len(Regions) /\ region \in Nat /\ TypeOK
  <2>1. Len(Regions) \in Nat
    BY RegionsAssumption
  <2>2. region < Len(Regions) /\ region \in 0 .. Len(Regions) /\ TypeOK
    BY DEF InitMemmap, IInv, TypeOK
  <2> QED
    BY <2>1, <2>2
<1>2. PICK a, k : a = Regions[region + 1].base /\ k = Regions[region + 1].n
  OBVIOUS
<1>3. a \in Nat /\ k \in Nat \ {0} /\ Run(a, k) \subseteq Pages
  BY <1>1, <1>2, RegionFacts
<1>4. /\ pc = "idle" /\ ~Booted
      /\ property' = [p \in Pages |->
                         IF p = a THEN k
                         ELSE IF p \in Run(a, k) THEN 0 ELSE property[p]]
      /\ reserved' = [p \in Pages |->
                         IF p \in Run(a, k) THEN p = a ELSE reserved[p]]
      /\ nr_free' = nr_free + k
      /\ free_list' = Append(free_list, a)
      /\ region' = region + 1
      /\ UNCHANGED <<pc, base, n, prev, held, ret>>
  BY <1>1, <1>2 DEF InitMemmap, locals, Booted
<1>5. a \in Run(a, k) /\ a \in Pages
  BY <1>3 DEF Run
<1>6. Managed' = Managed \cup Run(a, k)
  <2>1. \A i \in 1 .. region + 1 : i = region + 1 \/ i \in 1 .. region
    BY <1>1
  <2>2. 1 .. region \subseteq 1 .. region + 1 /\ region + 1 \in 1 .. region + 1
    BY <1>1
  <2> QED
    BY <2>1, <2>2, <1>2, <1>3, <1>4 DEF Managed
<1>7. ASSUME NEW x \in Managed PROVE x < a - 1 \/ a + k < x
  <2>1. PICK i \in 1 .. region : x \in Run(Regions[i].base, Regions[i].n)
    BY DEF Managed
  <2>2. i \in 1 .. Len(Regions) /\ i # region + 1
    BY <1>1
  <2>3. Regions[i].base \in Nat /\ Regions[i].n \in Nat
    BY <2>2, RegionFacts
  <2>4. \/ Regions[i].base + Regions[i].n < a
        \/ a + k < Regions[i].base
    BY <1>1, <1>2, <2>2, RegionsAssumption
  <2> QED
    BY <1>3, <2>1, <2>3, <2>4 DEF Run
<1>8. Managed \cap Run(a, k) = {}
  <2>1. \A x \in Run(a, k) : a <= x /\ x < a + k /\ x \in Nat
    BY <1>3 DEF Run
  <2> QED
    BY <2>1, <1>3, <1>7
<1>9. /\ property' \in [Pages -> Nat]
      /\ property'[a] = k
      /\ \A p \in Pages : p \notin Run(a, k) => property'[p] = property[p]
  BY <1>1, <1>3, <1>4, <1>5 DEF TypeOK
<1>10. ASSUME NEW p \in Heads
       PROVE  /\ p \in Nat /\ property[p] \in Nat
              /\ property'[p] = property[p] /\ End(p)' = End(p)
              /\ End(p) < a \/ a + k < p
  <2>1. p \in Pages /\ p \in Nat /\ property[p] \in Nat /\ property[p] >= 1
    BY <1>1, HeadFacts, HeadBlock
  <2>2. \A x \in Nat : InBlock(x, p) => x \in Managed
    BY DEF IInv, ListInv, WellPlaced
  <2>3. InBlock(p, p) /\ p \in Managed
    BY <2>1, <2>2 DEF InBlock, End
  <2>4. property'[p] = property[p] /\ End(p)' = End(p)
    BY <1>8, <1>9, <2>1, <2>3 DEF End
  <2>5. End(p) < a \/ a + k < p
    <3> SUFFICES ASSUME ~(a + k < p) PROVE End(p) < a
      OBVIOUS
    <3>1. p < a - 1 /\ a - 1 \in Nat
      BY <1>3, <1>7, <2>1, <2>3
    <3>2. a - 1 \notin Managed
      BY <1>3, <1>7
    <3>3. ~InBlock(a - 1, p)
      BY <3>1, <3>2, <2>2
    <3> QED
      BY <3>1, <3>3, <2>1, <1>3 DEF InBlock, End
  <2> QED
    BY <2>1, <2>4, <2>5
<1>11. a \notin Heads
  <2> SUFFICES ASSUME a \in Heads PROVE FALSE
    OBVIOUS
  <2> QED
    BY <1>3, <1>10 DEF End
<1>12. /\ free_list' \in Seq(Pages)
       /\ Injective(free_list')
       /\ Heads' = Heads \cup {a}
  <2>1. free_list \in Seq(Pages) /\ Injective(free_list)
    BY DEF IInv, TypeOK, ListInv
  <2>2. a \notin Elems(free_list, Len(free_list))
    BY <1>11 DEF Heads, Elems
  <2>3. free_list' \in Seq(Pages) /\ Injective(free_list')
    BY <2>1, <2>2, <1>4, <1>5, AppendedElems
  <2>4. Elems(free_list', Len(free_list')) = Elems(free_list, Len(free_list)) \cup {a}
    BY <2>1, <2>2, <1>4, <1>5, AppendedElems
  <2> QED
    BY <2>3, <2>4 DEF Heads, Elems
<1>13. held \subseteq Managed /\ prev = 0 /\ n = 0
  BY <1>4 DEF IInv, TypeOK, ScanInv
<1>14. \A x \in Nat : InBlock(x, a)' <=> x \in Run(a, k)
  BY <1>3, <1>9 DEF InBlock, End, Run
<1>15. TypeOK'
  <2>1. nr_free' \in Nat /\ region' \in 0 .. Len(Regions)
        /\ prev' \in 0 .. Len(free_list')
    BY <1>1, <1>3, <1>4, <1>12, <1>13, RegionsAssumption DEF TypeOK
  <2>2. reserved' \in [Pages -> BOOLEAN]
    BY <1>1, <1>4 DEF TypeOK
  <2>3. held' \subseteq Managed'
    BY <1>4, <1>6, <1>13
  <2> QED
    BY <2>1, <2>2, <2>3, <1>1, <1>4, <1>9, <1>12 DEF TypeOK
<1>16. ListInv'
  <2>1. WellPlaced(a)'
    BY <1>3, <1>4, <1>5, <1>6, <1>8, <1>9, <1>13, <1>14 DEF WellPlaced
  <2>2. ASSUME NEW p \in Heads PROVE WellPlaced(p)'
    <3>1. WellPlaced(p)
      BY DEF IInv, ListInv
    <3> QED
      BY <3>1, <1>4, <1>6, <1>10 DEF WellPlaced, InBlock
  <2>3. ASSUME NEW p \in Heads PROVE Apart(p, a)'
    BY <1>3, <1>9, <1>10 DEF Apart, End
  <2>4. ASSUME NEW p \in Heads, NEW q \in Heads, p # q PROVE Apart(p, q)'
    <3>1. Apart(p, q)
      BY <2>4 DEF IInv, ListInv
    <3> QED
      BY <3>1, <1>10 DEF Apart
  <2>5. \A p, q \in Heads' : p # q => Apart(p, q)'
    BY <2>3, <2>4, <1>12 DEF Apart
  <2> QED
    BY <2>1, <2>2, <2>5, <1>12 DEF ListInv
<1>17. ScanInv' /\ BootInv'
  BY <1>4 DEF IInv, ScanInv, BootInv
<1>18. CoverInv'
  <2> SUFFICES ASSUME NEW x \in Managed', x \notin held'
               PROVE  \E p \in Heads' : InBlock(x, p)'
    BY DEF CoverInv
  <2>1. x \in Nat
    BY DEF Managed, Pages
  <2>2. CASE x \in Run(a, k)
    BY <2>1, <2>2, <1>12, <1>14
  <2>3. CASE x \in Managed
    <3>1. PICK p \in Heads : InBlock(x, p)
      BY <2>3, <1>4 DEF IInv, CoverInv
    <3> QED
      BY <3>1, <1>10, <1>12 DEF InBlock
  <2> QED
    BY <2>2, <2>3, <1>6
<1>19. ReservedMarksHeads'
  <2> SUFFICES ASSUME NEW x \in Managed'
               PROVE  reserved'[x] <=> x \in Heads'
    BY <1>4 DEF ReservedMarksHeads
  <2>1. x \in Pages
    BY DEF Managed
  <2>2. reserved'[x] = IF x \in Run(a, k) THEN x = a ELSE reserved[x]
    BY <2>1, <1>4
  <2>3. CASE x \in Run(a, k)
    <3>1. x \notin Heads
      <4> SUFFICES ASSUME x \in Heads PROVE FALSE
        OBVIOUS
      <4>1. End(x) < a \/ a + k < x
        BY <1>10
      <4>2. x \in Nat /\ property[x] \in Nat
        BY <1>10
      <4> QED
        BY <4>1, <4>2, <2>3, <1>3 DEF Run, End
    <3> QED
      BY <3>1, <2>2, <2>3, <1>12
  <2>4. CASE x \notin Run(a, k)
    <3>1. reserved[x] <=> x \in Heads
      BY <2>4, <1>4, <1>6 DEF IInv, ReservedMarksHeads
    <3> QED
      BY <3>1, <2>2, <2>4, <1>5, <1>12
  <2> QED
    BY <2>3, <2>4
<1>20. FreeCount'
  <2>1. IsFiniteSet(Managed \ held)
    BY ManagedFinite, FS_Subset
  <2>2. Managed' \ held' = (Managed \ held) \cup Run(a, k)
    BY <1>4, <1>6, <1>8, <1>13
  <2>3. Cardinality(Managed' \ held') = Cardinality(Managed \ held) + k
    BY <2>1, <2>2, <1>3, <1>8, PutRun
  <2> QED
    BY <2>3, <1>1, <1>3, <1>4, <1>13 DEF IInv, FreeCount, TypeOK
<1>21. FailsOnlyWhenFull'
  BY <1>4 DEF IInv, BootInv, FailsOnlyWhenFull
<1> QED
  BY <1>15, <1>16, <1>17, <1>18, <1>19, <1>20, <1>21 DEF IInv

-----------------------------------------------------------------------------
(***************************************************************************)
(* Every step of the manager preserves the invariant.                      *)
(***************************************************************************)
LEMMA NextIInv == ASSUME IInv, [Next]_vars PROVE IInv'
<1>1. CASE InitMemmap
  BY <1>1, InitMemmapIInv
<1>2. ASSUME NEW k \in Sizes, Alloc(k) PROVE IInv'
  BY <1>2, AllocFailIInv, AllocExactIInv, AllocSplitIInv DEF Alloc
<1>3. ASSUME NEW a \in Pages, NEW k \in Sizes, FreeStart(a, k) PROVE IInv'
  BY <1>3, FreeStartIInv
<1>4. CASE Scan
  BY <1>4, MergeNextIInv, MergePrevIInv, KeepIInv, FreeDoneIInv DEF Scan
<1>5. CASE UNCHANGED vars
  <2>1. Managed' = Managed /\ Heads' = Heads
    BY <1>5 DEF vars, Managed, Heads
  <2> QED
    BY <1>5, <2>1
       DEF vars, IInv, TypeOK, ListInv, ScanInv, BootInv, CoverInv,
           ReservedMarksHeads, FreeCount, FailsOnlyWhenFull, WellPlaced, Apart,
           Clear, InBlock, End, Booted, Elems
<1> QED
  BY <1>1, <1>2, <1>3, <1>4, <1>5 DEF Next

(***************************************************************************)
(* The inductive invariant holds in every state of the first-fit manager.  *)
(***************************************************************************)
THEOREM Invariance == Spec => []IInv
<1>1. Init => IInv
  BY InitIInv
<1>2. IInv /\ [Next]_vars => IInv'
  BY NextIInv
<1> QED
  BY <1>1, <1>2, PTL DEF Spec

(***************************************************************************)
(* The manager's state is always well typed.                               *)
(***************************************************************************)
THEOREM TypeCorrect == Spec => []TypeOK
<1>1. IInv => TypeOK
  BY DEF IInv
<1> QED
  BY <1>1, Invariance, PTL

(***************************************************************************)
(* No page is lost, in two blocks, or both free and owned.                 *)
(***************************************************************************)
THEOREM PartitionHolds == Spec => []Partition
<1>1. ASSUME IInv PROVE Partition
  <2>1. TypeOK /\ held \subseteq Managed
    BY <1>1 DEF IInv, TypeOK
  <2>2. ASSUME NEW p \in Pages, WellPlaced(p)
        PROVE  /\ Block(p) \subseteq Managed \ held
               /\ \A x \in Nat : x \in Block(p) <=> InBlock(x, p)
    <3>1. p \in Nat /\ property[p] \in Nat
      BY <2>1 DEF Pages, TypeOK
    <3>2. \A x \in Nat : x \in Block(p) <=> InBlock(x, p)
      BY <3>1 DEF Block, Run, InBlock, End
    <3>3. Block(p) \subseteq Nat
      BY <3>1 DEF Block, Run
    <3> QED
      BY <2>2, <3>2, <3>3 DEF WellPlaced
  <2>3. \A p \in Heads : p \in Pages /\ WellPlaced(p)
    BY <1>1 DEF IInv, ListInv, WellPlaced
  <2>4. pc = "scan" => base \in Pages /\ WellPlaced(base)
    BY <1>1 DEF IInv, ScanInv, WellPlaced
  <2>5. Managed \subseteq Nat
    BY DEF Managed, Pages
  <2>6. held \cup FreePages \cup InFlight = Managed
    <3>1. FreePages \cup InFlight \subseteq Managed
      BY <2>2, <2>3, <2>4 DEF FreePages, InFlight
    <3>2. ASSUME NEW x \in Managed, x \notin held
          PROVE  x \in FreePages \cup InFlight
      BY <1>1, <2>2, <2>3, <2>4, <2>5, <3>2
         DEF IInv, CoverInv, FreePages, InFlight
    <3> QED
      BY <3>1, <3>2, <2>1
  <2>7. held \cap FreePages = {} /\ held \cap InFlight = {}
    BY <2>2, <2>3, <2>4 DEF FreePages, InFlight
  <2>8. ASSUME NEW p \in Heads, NEW q \in Heads, p # q
        PROVE  Block(p) \cap Block(q) = {}
    <3>1. p \in Nat /\ property[p] \in Nat /\ q \in Nat /\ property[q] \in Nat
      BY <2>1, HeadFacts
    <3>2. Apart(p, q)
      BY <1>1, <2>8 DEF IInv, ListInv
    <3> QED
      BY <3>1, <3>2 DEF Apart, End, Block, Run
  <2>9. BlocksDisjoint
    BY <1>1, <2>8 DEF BlocksDisjoint, IInv, ListInv, Injective, Heads
  <2>10. InFlight \cap FreePages = {}
    <3> SUFFICES ASSUME pc = "scan", NEW p \in Heads
                 PROVE  Block(base) \cap Block(p) = {}
      BY DEF InFlight, FreePages
    <3>1. p \in Nat /\ property[p] \in Nat
      BY <2>1, HeadFacts
    <3>2. base \in Nat /\ property[base] \in Nat
      BY <2>1, <2>4 DEF Pages, TypeOK
    <3>3. Clear(p, base)
      BY <1>1 DEF IInv, ScanInv
    <3> QED
      BY <3>1, <3>2, <3>3 DEF Clear, End, Block, Run
  <2> QED
    BY <2>6, <2>7, <2>9, <2>10 DEF Partition
<1>2. IInv => Partition
  BY <1>1
<1> QED
  BY <1>2, Invariance, PTL

(***************************************************************************)
(* nr_free is always the number of pages nobody owns.                      *)
(***************************************************************************)
THEOREM FreeCountHolds == Spec => []FreeCount
<1>1. IInv => FreeCount
  BY DEF IInv
<1> QED
  BY <1>1, Invariance, PTL

(***************************************************************************)
(* PG_RESERVED marks the heads of free blocks, whatever was merged.        *)
(***************************************************************************)
THEOREM ReservedHolds == Spec => []ReservedMarksHeads
<1>1. IInv => ReservedMarksHeads
  BY DEF IInv
<1> QED
  BY <1>1, Invariance, PTL

(***************************************************************************)
(* One pass over an unsorted list is enough to coalesce.                   *)
(***************************************************************************)
THEOREM CoalescedHolds == Spec => []Coalesced
<1>1. ASSUME IInv PROVE Coalesced
  <2>1. TypeOK
    BY <1>1 DEF IInv
  <2>2. ASSUME NEW p \in Heads, NEW q \in Heads
        PROVE  p + property[p] # q
    <3>1. /\ p \in Nat /\ property[p] \in Nat /\ q \in Nat /\ property[q] \in Nat
          /\ property[p] >= 1
      BY <1>1, <2>1, HeadFacts, HeadBlock
    <3>2. p # q => Apart(p, q)
      BY <1>1 DEF IInv, ListInv
    <3> QED
      BY <3>1, <3>2 DEF Apart, End
  <2>3. ASSUME pc = "scan", NEW i \in 1 .. prev
        PROVE  /\ free_list[i] + property[free_list[i]] # base
               /\ base + property[base] # free_list[i]
    <3>1. PICK p : p = free_list[i]
      OBVIOUS
    <3>2. p \in Elems(free_list, prev) /\ p \in Heads
      BY <2>1, <3>1 DEF Elems, Heads, TypeOK
    <3>3. p \in Nat /\ property[p] \in Nat
      BY <2>1, <3>2, HeadFacts
    <3>4. Apart(p, base) /\ base \in Nat /\ property[base] \in Nat
      BY <1>1, <2>1, <2>3, <3>2 DEF IInv, ScanInv, WellPlaced, TypeOK
    <3> QED
      BY <3>1, <3>3, <3>4 DEF Apart, End
  <2> QED
    BY <2>2, <2>3 DEF Coalesced, Heads
<1>2. IInv => Coalesced
  BY <1>1
<1> QED
  BY <1>2, Invariance, PTL

(***************************************************************************)
(* alloc() never refuses a request that contiguous free pages could serve. *)
(***************************************************************************)
THEOREM NoFalseFailure == Spec => []FailsOnlyWhenFull
<1>1. IInv => FailsOnlyWhenFull
  BY DEF IInv
<1> QED
  BY <1>1, Invariance, PTL

-----------------------------------------------------------------------------
(***************************************************************************)
(* Every step of the manager is a step of the page allocator it promises   *)
(* to be, or leaves what callers see alone.                                *)
(***************************************************************************)
LEMMA StepSimulation ==
    ASSUME IInv, [Next]_vars
    PROVE  Abstract!ANext \/ UNCHANGED <<Managed, held, ret>>
<1>0. TypeOK
  BY DEF IInv
<1>1. CASE InitMemmap
  <2>1. region + 1 \in 1 .. Len(Regions) /\ region \in Nat
    <3>1. Len(Regions) \in Nat
      BY RegionsAssumption
    <3> QED
      BY <1>0, <1>1, <3>1 DEF InitMemmap, TypeOK
  <2>2. PICK a, k : a = Regions[region + 1].base /\ k = Regions[region + 1].n
    OBVIOUS
  <2>3. a \in Nat /\ k \in Nat \ {0} /\ Run(a, k) \subseteq Pages
    BY <2>1, <2>2, RegionFacts
  <2>4. a \in Pages /\ a + k - 1 \in Pages /\ Run(a, k) = a .. a + k - 1
    BY <2>3 DEF Run
  <2>5. Managed' = Managed \cup Run(a, k)
    <3>1. \A i \in 1 .. region + 1 : i = region + 1 \/ i \in 1 .. region
      BY <2>1
    <3>2. 1 .. region \subseteq 1 .. region + 1 /\ region + 1 \in 1 .. region + 1
      BY <2>1
    <3>3. region' = region + 1
      BY <1>1 DEF InitMemmap
    <3> QED
      BY <3>1, <3>2, <3>3, <2>2, <2>3 DEF Managed
  <2>6. Run(a, k) \cap Managed = {}
    <3> SUFFICES ASSUME NEW x \in Managed, x \in Run(a, k) PROVE FALSE
      OBVIOUS
    <3>1. PICK i \in 1 .. region : x \in Run(Regions[i].base, Regions[i].n)
      BY DEF Managed
    <3>2. i \in 1 .. Len(Regions) /\ i # region + 1
      BY <2>1
    <3>3. Regions[i].base \in Nat /\ Regions[i].n \in Nat
      BY <3>2, RegionFacts
    <3>4. \/ Regions[i].base + Regions[i].n < a
          \/ a + k < Regions[i].base
      BY <2>1, <2>2, <3>2, RegionsAssumption
    <3> QED
      BY <2>3, <3>1, <3>3, <3>4 DEF Run
  <2>7. UNCHANGED <<held, ret>>
    BY <1>1 DEF InitMemmap
  <2>8. Abstract!AAddMemory
    BY <2>4, <2>5, <2>6, <2>7 DEF Abstract!AAddMemory
  <2> QED
    BY <2>8 DEF Abstract!ANext
<1>2. ASSUME NEW k \in Sizes, Alloc(k) PROVE Abstract!ANext
  <2>0. k \in Nat \ {0}
    BY SizesAssumption
  <2>1. Managed' = Managed
    BY <1>2 DEF Alloc, AllocFail, AllocExact, AllocSplit, Managed
  <2>2. CASE AllocFail(k)
    <3>1. \A a \in Pages : ~(Run(a, k) \subseteq Managed \ held)
      BY <2>0, <2>2, NoRun DEF AllocFail
    <3>2. ret' = [op |-> "alloc", n |-> k, page |-> Null] /\ held' = held
      BY <2>2 DEF AllocFail, AllocResult
    <3>3. Abstract!AAlloc(k)
      BY <3>1, <3>2, <2>1
         DEF Abstract!AAlloc, Abstract!Available, Abstract!ARun, Run
    <3> QED
      BY <3>3 DEF Abstract!ANext
  <2>3. CASE AllocExact(k) \/ AllocSplit(k)
    <3>1. PICK page \in Heads :
             /\ property[page] >= k
             /\ held' = held \cup Run(page, k)
             /\ ret' = [op |-> "alloc", n |-> k, page |-> page]
      BY <2>3 DEF AllocExact, AllocSplit, AllocResult, FirstFitAt, Fits, Heads
    <3>2. page \in Pages /\ page \in Nat /\ property[page] \in Nat
      BY <1>0, HeadFacts
    <3>3. Run(page, k) \subseteq Run(page, property[page])
      BY <2>0, <3>1, <3>2 DEF Run
    <3>4. Run(page, k) \subseteq Managed \ held
      BY <3>3, HeadBlock
    <3>5. Abstract!AAlloc(k)
      BY <3>1, <3>2, <3>4, <2>1
         DEF Abstract!AAlloc, Abstract!Available, Abstract!ARun, Run
    <3> QED
      BY <3>5 DEF Abstract!ANext
  <2> QED
    BY <1>2, <2>2, <2>3 DEF Alloc
<1>3. ASSUME NEW a \in Pages, NEW k \in Sizes, FreeStart(a, k)
      PROVE  Abstract!ANext
  <2>1. Abstract!AFree(a, k)
    BY <1>3 DEF FreeStart, Abstract!AFree, Abstract!ARun, Run, Managed
  <2> QED
    BY <2>1 DEF Abstract!ANext
<1>4. CASE Scan
  BY <1>4 DEF Scan, MergeNext, MergePrev, Keep, FreeDone, Managed
<1>5. CASE UNCHANGED vars
  BY <1>5 DEF vars, Managed
<1> QED
  BY <1>1, <1>2, <1>3, <1>4, <1>5 DEF Next

(***************************************************************************)
(* The first-fit manager implements the abstract page allocator.           *)
(***************************************************************************)
THEOREM Refinement == Spec => ImplementsPageAllocator
<1>1. Init => Abstract!AInit
  <2>1. Init => Managed = {}
    BY DEF Init, Managed
  <2> QED
    BY <2>1 DEF Init, Abstract!AInit
<1>2. IInv /\ [Next]_vars => [Abstract!ANext]_(Abstract!avars)
  BY StepSimulation DEF Abstract!avars
<1> QED
  BY <1>1, <1>2, Invariance, PTL
     DEF Spec, ImplementsPageAllocator, Abstract!ASpec

-----------------------------------------------------------------------------
(***************************************************************************)
(* Pointers.                                                               *)
(*                                                                         *)
(* The i-th stop on the ring with header h and elements s; stop 0 and stop *)
(* Len(s) + 1 are the header.                                              *)
(***************************************************************************)
At(h, s, i) == IF i \in 1 .. Len(s) THEN s[i] ELSE h

Ring(L, h, s) ==
    \A i \in 0 .. Len(s) : /\ L.next[At(h, s, i)] = At(h, s, i + 1)
                           /\ L.prev[At(h, s, i + 1)] = At(h, s, i)

(* A header and elements that can form a ring. *)
Proper(h, s) ==
    /\ s \in Seq(Pages) /\ Injective(s)
    /\ h \in {FreeHead, SwapHead}

Linkage == [next : [Nodes -> Nodes \cup {Null}], prev : [Nodes -> Nodes \cup {Null}]]

(* The nodes of a ring. *)
Live(h, s) == {h} \cup Elems(s, Len(s))

-----------------------------------------------------------------------------
(***************************************************************************)
(* The inductive invariant, on top of FirstFit's.                          *)
(*                                                                         *)
(* RingInv: as long as nothing is torn, the links of each list's nodes are *)
(* a ring; nothing is said of the links of other pages.                    *)
(* QueueInv: the pages of a replacement algorithm are owned by callers, or *)
(* are being freed, so the two rings share no page.                        *)
(* HandInv: the clock's hand is on the header or on the oldest page.       *)
(* LoopInv: where free()'s pointers stand.                                 *)
(***************************************************************************)
LTypeInv ==
    /\ links \in Linkage
    /\ torn \in BOOLEAN
    /\ queue \in Seq(Pages)
    /\ mgr \in {"fifo", "lru", "clock"}

RingInv == Ring(links, FreeHead, free_list) /\ Ring(links, SwapHead, queue)

Owned == held \cup {q \in Pages : pc = "scan" /\ InBlock(q, base)}

QueueInv == Injective(queue) /\ Elems(queue, Len(queue)) \subseteq Owned

HandInv == mgr = "clock" => clock_ptr \in {SwapHead, At(SwapHead, queue, 1)}

LoopInv ==
    pc = "scan" =>
        /\ ~torn
        /\ prev_le = At(FreeHead, free_list, prev)
        /\ links.next[le] = At(FreeHead, free_list, prev + 1)

LInv ==
    /\ LTypeInv
    /\ ~torn => RingInv /\ QueueInv /\ HandInv
    /\ LoopInv

-----------------------------------------------------------------------------
(***************************************************************************)
(* Headers are not pages, and no node is Null.                             *)
(***************************************************************************)
LEMMA NodeFacts ==
    /\ FreeHead \notin Pages /\ SwapHead \notin Pages /\ FreeHead # SwapHead
    /\ FreeHead \in Nodes /\ SwapHead \in Nodes /\ Pages \subseteq Nodes
    /\ Null \notin Nodes
<1>1. \A p \in Pages : p \in Nat
  BY DEF Pages
<1> QED
  BY <1>1, LinksAssumption, NullAssumption DEF Nodes

(***************************************************************************)
(* The stops of a ring differ, but for the header at both ends.            *)
(***************************************************************************)
LEMMA Stops ==
    ASSUME NEW h, NEW s, Proper(h, s)
    PROVE  /\ Len(s) \in Nat
           /\ \A i \in 0 .. Len(s) + 1 : At(h, s, i) \in Live(h, s) /\ At(h, s, i) \in Nodes
           /\ \A i \in 1 .. Len(s) : At(h, s, i) = s[i] /\ s[i] \in Pages /\ s[i] # h
           /\ At(h, s, 0) = h /\ At(h, s, Len(s) + 1) = h
           /\ \A i, j \in 0 .. Len(s) : At(h, s, i) = At(h, s, j) => i = j
           /\ \A i, j \in 1 .. Len(s) + 1 : At(h, s, i) = At(h, s, j) => i = j
<1>1. Len(s) \in Nat /\ s \in Seq(Pages) /\ Injective(s) /\ h \in Nodes /\ h \notin Pages
  BY NodeFacts DEF Proper
<1>2. \A i \in 1 .. Len(s) : At(h, s, i) = s[i] /\ s[i] \in Pages /\ s[i] # h
  BY <1>1 DEF At
<1>3. At(h, s, 0) = h /\ At(h, s, Len(s) + 1) = h
  BY <1>1 DEF At
<1>4. \A i \in 0 .. Len(s) + 1 : i \in 1 .. Len(s) \/ At(h, s, i) = h
  BY <1>1, <1>3
<1>5. \A i \in 1 .. Len(s) : s[i] \in Live(h, s)
  BY DEF Live, Elems
<1>6. h \in Live(h, s) /\ Pages \subseteq Nodes
  BY NodeFacts DEF Live
<1>7. \A i \in 0 .. Len(s) + 1 : At(h, s, i) \in Live(h, s) /\ At(h, s, i) \in Nodes
  BY <1>1, <1>2, <1>4, <1>5, <1>6
<1>8. \A i, j \in 1 .. Len(s) : s[i] = s[j] => i = j
  BY <1>1 DEF Injective
<1>9. ASSUME NEW i \in 0 .. Len(s), NEW j \in 0 .. Len(s), At(h, s, i) = At(h, s, j)
      PROVE  i = j
  <2>1. CASE i = 0 \/ j = 0
    BY <1>1, <1>2, <1>3, <1>9, <2>1
  <2>2. CASE i \in 1 .. Len(s) /\ j \in 1 .. Len(s)
    BY <1>2, <1>8, <1>9, <2>2
  <2> QED
    BY <1>1, <2>1, <2>2
<1>10. ASSUME NEW i \in 1 .. Len(s) + 1, NEW j \in 1 .. Len(s) + 1,
              At(h, s, i) = At(h, s, j)
       PROVE  i = j
  <2>1. CASE i = Len(s) + 1 \/ j = Len(s) + 1
    BY <1>1, <1>2, <1>3, <1>10, <2>1
  <2>2. CASE i \in 1 .. Len(s) /\ j \in 1 .. Len(s)
    BY <1>2, <1>8, <1>10, <2>2
  <2> QED
    BY <1>1, <2>1, <2>2
<1> QED
  BY <1>1, <1>2, <1>3, <1>7, <1>9, <1>10

(***************************************************************************)
(* A ring is made by the links of its own nodes.                           *)
(***************************************************************************)
LEMMA RingFrame ==
    ASSUME NEW h, NEW s, Proper(h, s), NEW L, NEW M, Ring(L, h, s),
           \A x \in Live(h, s) : M.next[x] = L.next[x] /\ M.prev[x] = L.prev[x]
    PROVE  Ring(M, h, s)
<1>1. \A i \in 0 .. Len(s) : At(h, s, i) \in Live(h, s) /\ At(h, s, i + 1) \in Live(h, s)
  BY Stops
<1> QED
  BY <1>1 DEF Ring

(***************************************************************************)
(* The neighbours on a ring.                                               *)
(***************************************************************************)
LEMMA Neighbours ==
    ASSUME NEW h, NEW s, Proper(h, s), NEW L, Ring(L, h, s)
    PROVE  /\ L.prev[h] = At(h, s, Len(s))
           /\ L.next[h] = At(h, s, 1)
           /\ L.next[At(h, s, Len(s))] = h
           /\ \A i \in 1 .. Len(s) : /\ L.next[s[i]] = At(h, s, i + 1)
                                     /\ L.prev[s[i]] = At(h, s, i - 1)
<1>1. /\ Len(s) \in Nat /\ At(h, s, 0) = h /\ At(h, s, Len(s) + 1) = h
      /\ \A i \in 1 .. Len(s) : At(h, s, i) = s[i]
  BY Stops
<1>2. Len(s) \in 0 .. Len(s) /\ 0 \in 0 .. Len(s)
  BY <1>1
<1>3. /\ L.next[At(h, s, Len(s))] = h /\ L.prev[h] = At(h, s, Len(s))
      /\ L.next[h] = At(h, s, 0 + 1)
  BY <1>1, <1>2 DEF Ring
<1>4. ASSUME NEW i \in 1 .. Len(s)
      PROVE  L.next[s[i]] = At(h, s, i + 1) /\ L.prev[s[i]] = At(h, s, i - 1)
  <2>1. i \in 0 .. Len(s) /\ i - 1 \in 0 .. Len(s) /\ (i - 1) + 1 = i
    BY <1>1
  <2>2. L.next[At(h, s, i)] = At(h, s, i + 1)
    BY <2>1 DEF Ring
  <2>3. L.prev[At(h, s, (i - 1) + 1)] = At(h, s, i - 1)
    BY <2>1 DEF Ring
  <2> QED
    BY <1>1, <2>1, <2>2, <2>3
<1> QED
  BY <1>3, <1>4

-----------------------------------------------------------------------------
(***************************************************************************)
(* The stores of the list operations.                                      *)
(***************************************************************************)
LEMMA InsertStores ==
    ASSUME NEW L \in Linkage, NEW e \in Nodes, NEW b \in Nodes, NEW a \in Nodes
    PROVE  LET M == InsertBetween(L, e, b, a) IN
           /\ M \in Linkage
           /\ \A x \in Nodes :
                 /\ M.next[x] = IF x = e THEN a ELSE IF x = b THEN e ELSE L.next[x]
                 /\ M.prev[x] = IF x = e THEN b ELSE IF x = a THEN e ELSE L.prev[x]
BY DEF InsertBetween, Linkage

(***************************************************************************)
(* list_del() writes to the two neighbours.                                *)
(***************************************************************************)
LEMMA DeleteStores ==
    ASSUME NEW L \in Linkage, NEW l \in Nodes, L.prev[l] \in Nodes, L.next[l] \in Nodes
    PROVE  LET M == list_del(L, l) IN
           /\ M \in Linkage
           /\ \A x \in Nodes :
                 /\ M.next[x] = IF x = L.prev[l] THEN L.next[l] ELSE L.next[x]
                 /\ M.prev[x] = IF x = L.next[l] THEN L.prev[l] ELSE L.prev[x]
BY DEF list_del, Linkage

(***************************************************************************)
(* An element put between the last stop and the header is the new end.     *)
(***************************************************************************)
LEMMA RingAppend ==
    ASSUME NEW h, NEW s, Proper(h, s), NEW L \in Linkage, Ring(L, h, s),
           NEW e \in Pages, e \notin Elems(s, Len(s))
    PROVE  LET M == InsertBetween(L, e, At(h, s, Len(s)), h) IN
           /\ M \in Linkage
           /\ Proper(h, Append(s, e))
           /\ Ring(M, h, Append(s, e))
           /\ \A x \in Nodes \ (Live(h, s) \cup {e}) :
                 M.next[x] = L.next[x] /\ M.prev[x] = L.prev[x]
           /\ M.next[h] = IF s = << >> THEN e ELSE L.next[h]
<1> DEFINE r == Append(s, e)
           m == Len(s)
           b == At(h, s, m)
           M == InsertBetween(L, e, b, h)
<1>1. /\ m \in Nat /\ s \in Seq(Pages) /\ h \in Nodes /\ e \in Nodes /\ e # h
      /\ Injective(s)
  BY NodeFacts, Stops DEF Proper
<1>2. /\ \A i \in 0 .. m + 1 : At(h, s, i) \in Live(h, s) /\ At(h, s, i) \in Nodes
      /\ \A i, j \in 0 .. m : At(h, s, i) = At(h, s, j) => i = j
      /\ \A i, j \in 1 .. m + 1 : At(h, s, i) = At(h, s, j) => i = j
      /\ At(h, s, 0) = h /\ At(h, s, m + 1) = h
  BY Stops
<1>3. e \notin Live(h, s)
  BY <1>1 DEF Live
<1>4. b \in Nodes /\ b \in Live(h, s)
  BY <1>1, <1>2
<1>5. /\ M \in Linkage
      /\ \A x \in Nodes :
            /\ M.next[x] = IF x = e THEN h ELSE IF x = b THEN e ELSE L.next[x]
            /\ M.prev[x] = IF x = e THEN b ELSE IF x = h THEN e ELSE L.prev[x]
  <2> HIDE DEF b
  <2> QED
    BY <1>1, <1>4, InsertStores
<1>6. r \in Seq(Pages) /\ Len(r) = m + 1 /\ Injective(r)
  BY <1>1, AppendedElems
<1>7. /\ \A i \in 0 .. m : At(h, r, i) = At(h, s, i)
      /\ At(h, r, m + 1) = e /\ At(h, r, m + 2) = h
  BY <1>1, <1>6 DEF At
<1> HIDE DEF M
<1>8. ASSUME NEW i \in 0 .. m + 1
      PROVE  M.next[At(h, r, i)] = At(h, r, i + 1) /\ M.prev[At(h, r, i + 1)] = At(h, r, i)
  <2>1. CASE i < m
    <3>1. i \in 0 .. m /\ i + 1 \in 0 .. m /\ i # m /\ m \in 0 .. m
      BY <1>1, <2>1
    <3>2. At(h, s, i) # b /\ At(h, s, i) # e /\ At(h, s, i) \in Nodes
      BY <1>1, <1>2, <1>3, <3>1
    <3>3. At(h, s, i + 1) # h /\ At(h, s, i + 1) # e /\ At(h, s, i + 1) \in Nodes
      <4>1. 0 \in 0 .. m /\ i + 1 # 0
        BY <1>1, <3>1
      <4> QED
        BY <1>1, <1>2, <1>3, <3>1, <4>1
    <3>4. L.next[At(h, s, i)] = At(h, s, i + 1) /\ L.prev[At(h, s, i + 1)] = At(h, s, i)
      BY <3>1 DEF Ring
    <3>5. M.next[At(h, s, i)] = At(h, s, i + 1)
      BY <1>5, <3>2, <3>4
    <3>6. M.prev[At(h, s, i + 1)] = At(h, s, i)
      BY <1>5, <3>3, <3>4
    <3> QED
      BY <1>7, <3>1, <3>5, <3>6
  <2>2. CASE i = m
    <3>1. At(h, r, i) = b /\ At(h, r, i + 1) = e
      BY <1>1, <1>7, <2>2
    <3>2. b # e
      BY <1>3, <1>4
    <3> QED
      BY <1>1, <1>4, <1>5, <3>1, <3>2
  <2>3. CASE i = m + 1
    <3>1. i + 1 = m + 2
      BY <1>1, <2>3
    <3>2. At(h, r, i) = e /\ At(h, r, i + 1) = h
      BY <1>7, <2>3, <3>1
    <3> QED
      BY <1>1, <1>5, <3>2
  <2> QED
    BY <1>1, <2>1, <2>2, <2>3
<1>9. Ring(M, h, r)
  BY <1>6, <1>8 DEF Ring
<1>10. Proper(h, r)
  BY <1>6 DEF Proper
<1>11. \A x \in Nodes \ (Live(h, s) \cup {e}) :
          M.next[x] = L.next[x] /\ M.prev[x] = L.prev[x]
  <2>1. h \in Live(h, s)
    BY DEF Live
  <2> HIDE DEF b
  <2> QED
    BY <1>4, <1>5, <2>1
<1>12. M.next[h] = IF s = << >> THEN e ELSE L.next[h]
  <2>1. CASE s = << >>
    <3>1. b = h
      BY <2>1 DEF At
    <3> QED
      BY <1>1, <1>5, <2>1, <3>1
  <2>2. CASE s # << >>
    <3>1. m \in 0 .. m /\ 0 \in 0 .. m /\ m # 0
      BY <1>1, <2>2
    <3>2. b # h
      BY <1>2, <3>1
    <3> QED
      BY <1>1, <1>5, <2>2, <3>2
  <2> QED
    BY <2>1, <2>2
<1> QED
  BY <1>5, <1>9, <1>10, <1>11, <1>12 DEF M

(***************************************************************************)
(* list_del() closes the ring around an element, whose own links stay.     *)
(***************************************************************************)
LEMMA RingDelete ==
    ASSUME NEW h, NEW s, Proper(h, s), NEW L \in Linkage, Ring(L, h, s),
           NEW j \in 1 .. Len(s)
    PROVE  LET M == list_del(L, s[j]) IN
           /\ M \in Linkage
           /\ Proper(h, RemoveAt(s, j))
           /\ Ring(M, h, RemoveAt(s, j))
           /\ M.next[s[j]] = L.next[s[j]]
           /\ \A x \in Nodes \ Live(h, s) : M.next[x] = L.next[x] /\ M.prev[x] = L.prev[x]
<1> DEFINE r == RemoveAt(s, j)
           m == Len(s)
           M == list_del(L, s[j])
<1>1. m \in Nat /\ s \in Seq(Pages) /\ h \in Nodes /\ Injective(s)
  BY NodeFacts, Stops DEF Proper
<1>2. /\ \A i \in 0 .. m + 1 : At(h, s, i) \in Live(h, s) /\ At(h, s, i) \in Nodes
      /\ \A i, k \in 0 .. m : At(h, s, i) = At(h, s, k) => i = k
      /\ \A i, k \in 1 .. m + 1 : At(h, s, i) = At(h, s, k) => i = k
      /\ At(h, s, 0) = h /\ At(h, s, m + 1) = h /\ At(h, s, j) = s[j]
  BY Stops
<1>3. L.next[s[j]] = At(h, s, j + 1) /\ L.prev[s[j]] = At(h, s, j - 1)
  BY Neighbours
<1>4. j \in 0 .. m /\ j - 1 \in 0 .. m /\ j + 1 \in 1 .. m + 1 /\ j - 1 \in 0 .. m + 1
      /\ j + 1 \in 0 .. m + 1 /\ j \in 0 .. m + 1
  BY <1>1
<1>5. s[j] \in Nodes /\ L.next[s[j]] \in Nodes /\ L.prev[s[j]] \in Nodes
  BY <1>2, <1>3, <1>4
<1>6. /\ M \in Linkage
      /\ \A x \in Nodes :
            /\ M.next[x] = IF x = At(h, s, j - 1) THEN At(h, s, j + 1) ELSE L.next[x]
            /\ M.prev[x] = IF x = At(h, s, j + 1) THEN At(h, s, j - 1) ELSE L.prev[x]
  BY <1>3, <1>5, DeleteStores
<1>7. r \in Seq(Pages) /\ Len(r) = m - 1 /\ Injective(r)
  BY <1>1, RemovedElems
<1>8. \A i \in 0 .. m : At(h, r, i) = IF i < j THEN At(h, s, i) ELSE At(h, s, i + 1)
  <2>1. \A i \in 1 .. m - 1 : r[i] = IF i < j THEN s[i] ELSE s[i + 1]
    BY <1>1, RemoveAtFacts
  <2> HIDE DEF r
  <2>2. ASSUME NEW i \in 0 .. m
        PROVE  At(h, r, i) = IF i < j THEN At(h, s, i) ELSE At(h, s, i + 1)
    <3>1. CASE i \in 1 .. m - 1
      <4>1. At(h, r, i) = r[i]
        BY <1>7, <3>1 DEF At
      <4>2. i < j => At(h, s, i) = s[i]
        BY <1>1, <3>1 DEF At
      <4>3. ~(i < j) => At(h, s, i + 1) = s[i + 1]
        BY <1>1, <3>1 DEF At
      <4> QED
        BY <2>1, <3>1, <4>1, <4>2, <4>3
    <3>2. CASE i = 0
      <4>1. At(h, r, i) = h /\ i < j
        BY <1>1, <3>2 DEF At
      <4> QED
        BY <1>2, <3>2, <4>1
    <3>3. CASE i = m
      <4>1. At(h, r, i) = h /\ ~(i < j)
        BY <1>1, <1>7, <3>3 DEF At
      <4> QED
        BY <1>2, <3>3, <4>1
    <3> QED
      BY <1>1, <3>1, <3>2, <3>3
  <2> QED
    BY <2>2
<1> HIDE DEF M, r
<1>9. ASSUME NEW i \in 0 .. m - 1
      PROVE  M.next[At(h, r, i)] = At(h, r, i + 1) /\ M.prev[At(h, r, i + 1)] = At(h, r, i)
  <2>1. i \in 0 .. m /\ i + 1 \in 0 .. m /\ i + 1 \in 1 .. m + 1 /\ (i + 1) + 1 = i + 2
        /\ i + 2 \in 1 .. m + 1
    BY <1>1
  <2>2. CASE i < j - 1
    <3>1. i < j /\ i + 1 < j /\ i # j - 1 /\ i + 1 # j + 1
      BY <2>2
    <3>2. At(h, r, i) = At(h, s, i) /\ At(h, r, i + 1) = At(h, s, i + 1)
      BY <1>8, <2>1, <3>1
    <3>3. At(h, s, i) # At(h, s, j - 1) /\ At(h, s, i + 1) # At(h, s, j + 1)
      BY <1>2, <1>4, <2>1, <3>1
    <3>4. L.next[At(h, s, i)] = At(h, s, i + 1) /\ L.prev[At(h, s, i + 1)] = At(h, s, i)
      BY <2>1 DEF Ring
    <3>5. At(h, s, i) \in Nodes /\ At(h, s, i + 1) \in Nodes
      BY <1>1, <1>2, <2>1
    <3> QED
      BY <1>6, <3>2, <3>3, <3>4, <3>5
  <2>3. CASE i = j - 1
    <3>1. i < j /\ ~(i + 1 < j) /\ (i + 1) + 1 = j + 1
      BY <2>3
    <3>2. At(h, r, i) = At(h, s, j - 1) /\ At(h, r, i + 1) = At(h, s, j + 1)
      BY <1>8, <2>1, <2>3, <3>1
    <3>3. At(h, s, j - 1) \in Nodes /\ At(h, s, j + 1) \in Nodes
      BY <1>2, <1>4
    <3> QED
      BY <1>6, <3>2, <3>3
  <2>4. CASE i > j - 1
    <3>1. ~(i < j) /\ ~(i + 1 < j) /\ i + 1 # j - 1 /\ i + 2 # j + 1
      BY <1>1, <2>4
    <3>2. At(h, r, i) = At(h, s, i + 1) /\ At(h, r, i + 1) = At(h, s, i + 2)
      BY <1>8, <2>1, <3>1
    <3>3. At(h, s, i + 1) # At(h, s, j - 1) /\ At(h, s, i + 2) # At(h, s, j + 1)
      BY <1>2, <1>4, <2>1, <3>1
    <3>4. L.next[At(h, s, i + 1)] = At(h, s, i + 2) /\ L.prev[At(h, s, i + 2)] = At(h, s, i + 1)
      BY <2>1 DEF Ring
    <3>5. At(h, s, i + 1) \in Nodes /\ At(h, s, i + 2) \in Nodes
      <4>1. i + 1 \in 0 .. m + 1 /\ i + 2 \in 0 .. m + 1
        BY <1>1
      <4> QED
        BY <1>2, <4>1
    <3> QED
      BY <1>6, <3>2, <3>3, <3>4, <3>5
  <2> QED
    BY <2>2, <2>3, <2>4
<1>10. Ring(M, h, r)
  <2>1. 0 .. Len(r) = 0 .. m - 1
    BY <1>7
  <2> QED
    BY <1>9, <2>1 DEF Ring
<1>11. Proper(h, r)
  BY <1>7 DEF Proper
<1>12. M.next[s[j]] = L.next[s[j]]
  <2>1. j # j - 1
    OBVIOUS
  <2>2. s[j] # At(h, s, j - 1)
    BY <1>2, <1>4, <2>1
  <2> QED
    BY <1>5, <1>6, <2>2
<1>13. \A x \in Nodes \ Live(h, s) : M.next[x] = L.next[x] /\ M.prev[x] = L.prev[x]
  BY <1>2, <1>4, <1>6
<1> QED
  BY <1>6, <1>10, <1>11, <1>12, <1>13 DEF M, r

(***************************************************************************)
(* An element linked behind another, which is then unlinked, has taken its *)
(* place.                                                                  *)
(***************************************************************************)
LEMMA RingReplace ==
    ASSUME NEW h, NEW s, Proper(h, s), NEW L \in Linkage, Ring(L, h, s),
           NEW j \in 1 .. Len(s), NEW e \in Pages, e \notin Elems(s, Len(s))
    PROVE  LET M == list_del(list_add_after(L, s[j], e), s[j])
               r == [s EXCEPT ![j] = e]
           IN /\ M \in Linkage
              /\ Proper(h, r)
              /\ Ring(M, h, r)
              /\ \A x \in Nodes \ (Live(h, s) \cup {e}) :
                    M.next[x] = L.next[x] /\ M.prev[x] = L.prev[x]
<1> DEFINE r == [s EXCEPT ![j] = e]
           m == Len(s)
           K == list_add_after(L, s[j], e)
           M == list_del(K, s[j])
<1>1. m \in Nat /\ s \in Seq(Pages) /\ h \in Nodes /\ Injective(s) /\ e \in Nodes /\ e # h
  BY NodeFacts, Stops DEF Proper
<1>2. /\ \A i \in 0 .. m + 1 : At(h, s, i) \in Live(h, s) /\ At(h, s, i) \in Nodes
      /\ \A i, k \in 0 .. m : At(h, s, i) = At(h, s, k) => i = k
      /\ \A i, k \in 1 .. m + 1 : At(h, s, i) = At(h, s, k) => i = k
      /\ At(h, s, j) = s[j]
  BY Stops
<1>3. L.next[s[j]] = At(h, s, j + 1) /\ L.prev[s[j]] = At(h, s, j - 1)
  BY Neighbours
<1>4. /\ j \in 0 .. m /\ j \in 1 .. m + 1 /\ j \in 0 .. m + 1
      /\ j - 1 \in 0 .. m /\ j - 1 \in 0 .. m + 1
      /\ j + 1 \in 1 .. m + 1 /\ j + 1 \in 0 .. m + 1 /\ j # j - 1 /\ j # j + 1
  BY <1>1
<1>5. PICK b \in Nodes, a \in Nodes : b = At(h, s, j - 1) /\ a = At(h, s, j + 1)
  BY <1>2, <1>4
<1>6. b # s[j] /\ a # s[j] /\ s[j] \in Nodes /\ a \in Live(h, s) /\ b \in Live(h, s)
      /\ s[j] \in Live(h, s)
  BY <1>2, <1>4, <1>5
<1>7. e \notin Live(h, s) /\ e # b /\ e # a /\ e # s[j]
  BY <1>1, <1>6 DEF Live
<1>8. /\ K \in Linkage
      /\ \A x \in Nodes :
            /\ K.next[x] = IF x = e THEN a ELSE IF x = s[j] THEN e ELSE L.next[x]
            /\ K.prev[x] = IF x = e THEN s[j] ELSE IF x = a THEN e ELSE L.prev[x]
  <2>1. K = InsertBetween(L, e, s[j], a)
    BY <1>3, <1>5 DEF list_add_after
  <2>2. PICK c \in Nodes : c = s[j]
    BY <1>6
  <2>3. LET I == InsertBetween(L, e, c, a) IN
        /\ I \in Linkage
        /\ \A x \in Nodes :
              /\ I.next[x] = IF x = e THEN a ELSE IF x = c THEN e ELSE L.next[x]
              /\ I.prev[x] = IF x = e THEN c ELSE IF x = a THEN e ELSE L.prev[x]
    BY <1>1, InsertStores
  <2> HIDE DEF K
  <2> QED
    BY <2>1, <2>2, <2>3
<1> HIDE DEF K
<1>9. K.prev[s[j]] = b /\ K.next[s[j]] = e
  BY <1>3, <1>5, <1>6, <1>7, <1>8
<1>10. /\ M \in Linkage
       /\ \A x \in Nodes :
             /\ M.next[x] = IF x = b THEN e ELSE K.next[x]
             /\ M.prev[x] = IF x = e THEN b ELSE K.prev[x]
  BY <1>1, <1>6, <1>8, <1>9, DeleteStores
<1> HIDE DEF M
<1>11. /\ M.next[b] = e /\ M.next[e] = a /\ M.prev[e] = b /\ M.prev[a] = e
       /\ \A x \in Nodes : x # b /\ x # e /\ x # s[j] => M.next[x] = L.next[x]
       /\ \A x \in Nodes : x # a /\ x # e => M.prev[x] = L.prev[x]
  BY <1>1, <1>6, <1>7, <1>8, <1>10
<1>12. /\ r \in Seq(Pages) /\ Len(r) = m
       /\ \A i \in 1 .. m : r[i] = IF i = j THEN e ELSE s[i]
  BY <1>1
<1> HIDE DEF r
<1>13. Injective(r)
  BY <1>1, <1>12, ReplacedElems
<1>14. \A i \in 0 .. m + 1 : At(h, r, i) = IF i = j THEN e ELSE At(h, s, i)
  BY <1>1, <1>12 DEF At
<1>15. ASSUME NEW i \in 0 .. m
       PROVE  M.next[At(h, r, i)] = At(h, r, i + 1) /\ M.prev[At(h, r, i + 1)] = At(h, r, i)
  <2>1. i \in 0 .. m + 1 /\ i + 1 \in 0 .. m + 1 /\ i + 1 \in 1 .. m + 1
    BY <1>1
  <2>2. CASE i = j - 1
    <3>1. i # j /\ i + 1 = j
      BY <2>2
    <3>2. At(h, r, i) = b /\ At(h, r, i + 1) = e
      BY <1>4, <1>5, <1>14, <2>1, <2>2, <3>1
    <3> QED
      BY <1>11, <3>2
  <2>3. CASE i = j
    <3>1. i + 1 # j
      BY <2>3
    <3>2. At(h, r, i) = e /\ At(h, r, i + 1) = a
      BY <1>4, <1>5, <1>14, <2>1, <2>3, <3>1
    <3> QED
      BY <1>11, <3>2
  <2>4. CASE i # j /\ i # j - 1
    <3>1. i + 1 # j /\ i + 1 # j + 1
      BY <2>4
    <3>2. At(h, r, i) = At(h, s, i) /\ At(h, r, i + 1) = At(h, s, i + 1)
      BY <1>14, <2>1, <2>4, <3>1
    <3>3. At(h, s, i) # b /\ At(h, s, i) # s[j] /\ At(h, s, i + 1) # a
      BY <1>2, <1>4, <1>5, <2>1, <2>4, <3>1
    <3>4. /\ At(h, s, i) # e /\ At(h, s, i + 1) # e
          /\ At(h, s, i) \in Nodes /\ At(h, s, i + 1) \in Nodes
      BY <1>2, <1>7, <2>1
    <3>5. L.next[At(h, s, i)] = At(h, s, i + 1) /\ L.prev[At(h, s, i + 1)] = At(h, s, i)
      BY DEF Ring
    <3> QED
      BY <1>11, <3>2, <3>3, <3>4, <3>5
  <2> QED
    BY <2>2, <2>3, <2>4
<1>16. Ring(M, h, r)
  BY <1>12, <1>15 DEF Ring
<1>17. Proper(h, r)
  BY <1>12, <1>13 DEF Proper
<1>18. \A x \in Nodes \ (Live(h, s) \cup {e}) :
          M.next[x] = L.next[x] /\ M.prev[x] = L.prev[x]
  BY <1>6, <1>11
<1> QED
  BY <1>10, <1>16, <1>17, <1>18 DEF M, K, r

-----------------------------------------------------------------------------
(***************************************************************************)
(* No free block's head is a page of a caller's.                           *)
(***************************************************************************)
HeadsFree ==
    /\ free_list \in Seq(Pages) /\ Injective(free_list)
    /\ \A p \in Elems(free_list, Len(free_list)) : p \notin Owned

(***************************************************************************)
(* FirstFit's invariant keeps the free list and the callers apart.         *)
(***************************************************************************)
LEMMA HeadsNotHeld == IInv => HeadsFree
<1> SUFFICES ASSUME IInv PROVE HeadsFree
  OBVIOUS
<1>1. ASSUME NEW p \in Elems(free_list, Len(free_list)) PROVE p \notin Owned
  <2>1. p \in Heads
    BY DEF Elems, Heads
  <2>2. p \in Nat /\ property[p] \in Nat /\ WellPlaced(p)
    BY <2>1, HeadFacts DEF IInv, ListInv
  <2>3. InBlock(p, p)
    <3>1. property[p] >= 1
      BY <2>2 DEF WellPlaced
    <3> QED
      BY <2>2, <3>1 DEF InBlock, End
  <2>4. p \notin held
    BY <2>2, <2>3 DEF WellPlaced
  <2>5. ASSUME pc = "scan" PROVE ~InBlock(p, base)
    <3>1. Clear(p, base) /\ WellPlaced(base)
      BY <2>1, <2>5 DEF IInv, ScanInv
    <3>2. base \in Nat /\ property[base] \in Nat /\ property[p] >= 1
      BY <2>2, <3>1 DEF WellPlaced, Pages, IInv, TypeOK
    <3> QED
      BY <2>2, <3>1, <3>2 DEF Clear, InBlock, End
  <2> QED
    BY <2>4, <2>5 DEF Owned
<1>2. free_list \in Seq(Pages) /\ Injective(free_list)
  BY DEF IInv, TypeOK, ListInv
<1> QED
  BY <1>1, <1>2 DEF HeadsFree

(***************************************************************************)
(* The same after a step.                                                  *)
(***************************************************************************)
LEMMA HeadsNotHeldAfter == IInv' => HeadsFree'
BY HeadsNotHeld, PTL

(***************************************************************************)
(* The two rings share no node.                                            *)
(***************************************************************************)
LEMMA RingsApart ==
    ASSUME IInv, LInv, ~torn
    PROVE  /\ Proper(FreeHead, free_list) /\ Proper(SwapHead, queue)
           /\ Ring(links, FreeHead, free_list) /\ Ring(links, SwapHead, queue)
           /\ Live(FreeHead, free_list) \cap Live(SwapHead, queue) = {}
           /\ Live(FreeHead, free_list) \subseteq Nodes /\ Live(SwapHead, queue) \subseteq Nodes
           /\ links \in Linkage
<1>1. /\ free_list \in Seq(Pages) /\ Injective(free_list) /\ queue \in Seq(Pages)
      /\ Injective(queue) /\ links \in Linkage /\ RingInv
  BY DEF IInv, TypeOK, ListInv, LInv, LTypeInv, QueueInv
<1>2. Proper(FreeHead, free_list) /\ Proper(SwapHead, queue)
  BY <1>1 DEF Proper
<1>3. Elems(free_list, Len(free_list)) \subseteq Pages /\ Elems(queue, Len(queue)) \subseteq Pages
  BY <1>1 DEF Elems
<1>4. \A p \in Elems(free_list, Len(free_list)) : p \notin Owned
  BY HeadsNotHeld DEF HeadsFree
<1>5. Elems(queue, Len(queue)) \subseteq Owned
  BY DEF LInv, QueueInv
<1> QED
  BY <1>1, <1>2, <1>3, <1>4, <1>5, NodeFacts DEF Live, RingInv

(***************************************************************************)
(* A step that works on the free list, on it and one more page e, leaves   *)
(* the other list alone.                                                   *)
(***************************************************************************)
LEMMA FreeSide ==
    ASSUME IInv, LInv, ~torn, UNCHANGED swapvars, links' \in Linkage,
           Ring(links', FreeHead, free_list'),
           NEW e, e \notin Live(SwapHead, queue),
           \A x \in Nodes \ (Live(FreeHead, free_list) \cup {e}) :
              links'.next[x] = links.next[x] /\ links'.prev[x] = links.prev[x],
           Elems(queue, Len(queue)) \subseteq Owned', LoopInv'
    PROVE  LInv'
<1>1. UNCHANGED <<mgr, clock_ptr, queue, torn>>
  BY DEF swapvars
<1>2. LTypeInv'
  BY <1>1 DEF LInv, LTypeInv
<1>3. \A x \in Live(SwapHead, queue) :
         links'.next[x] = links.next[x] /\ links'.prev[x] = links.prev[x]
  BY RingsApart
<1>4. Ring(links', SwapHead, queue)
  BY <1>3, RingsApart, RingFrame
<1>5. RingInv'
  BY <1>1, <1>4 DEF RingInv, Ring
<1>6. QueueInv' /\ HandInv'
  BY <1>1 DEF LInv, QueueInv, HandInv, At
<1> QED
  BY <1>2, <1>5, <1>6 DEF LInv

(***************************************************************************)
(* A step of a replacement algorithm, on its list and a page of a caller's,*)
(* leaves the free list alone.                                             *)
(***************************************************************************)
LEMMA SwapSide ==
    ASSUME IInv, LInv, ~torn, torn' = FALSE, pc = "idle", UNCHANGED <<vars, mgr>>,
           links' \in Linkage, Proper(SwapHead, queue'), Ring(links', SwapHead, queue'),
           NEW e \in held,
           \A x \in Nodes \ (Live(SwapHead, queue) \cup {e}) :
              links'.next[x] = links.next[x] /\ links'.prev[x] = links.prev[x],
           Elems(queue', Len(queue')) \subseteq held, HandInv'
    PROVE  LInv'
<1>1. UNCHANGED <<pc, free_list, held, mgr>>
  BY DEF vars, locals
<1>2. LTypeInv'
  BY <1>1 DEF LInv, LTypeInv, Proper
<1>3. e \notin Live(FreeHead, free_list)
  <2>1. e \notin Elems(free_list, Len(free_list))
    BY HeadsNotHeld DEF HeadsFree, Owned
  <2>2. e \in Pages
    BY DEF IInv, TypeOK, Managed
  <2> QED
    BY <2>1, <2>2, NodeFacts DEF Live
<1>4. \A x \in Live(FreeHead, free_list) :
         links'.next[x] = links.next[x] /\ links'.prev[x] = links.prev[x]
  BY <1>3, RingsApart
<1>5. Ring(links', FreeHead, free_list)
  BY <1>4, RingsApart, RingFrame
<1>6. RingInv'
  BY <1>1, <1>5 DEF RingInv, Ring
<1>7. QueueInv'
  BY <1>1 DEF QueueInv, Proper, Owned
<1>8. LoopInv'
  BY <1>1 DEF LoopInv
<1> QED
  BY <1>2, <1>6, <1>7, <1>8 DEF LInv

-----------------------------------------------------------------------------
(***************************************************************************)
(* Both lists are empty.                                                   *)
(***************************************************************************)
LEMMA LInitInv == LInit => LInv
<1> SUFFICES ASSUME LInit PROVE LInv
  OBVIOUS
<1> DEFINE none == [p \in Nodes |-> Null]
           L    == [next |-> none, prev |-> none]
<1>1. /\ Init /\ queue = << >> /\ torn = FALSE /\ mgr \in {"fifo", "lru", "clock"}
      /\ clock_ptr = SwapHead /\ links = list_init(list_init(L, FreeHead), SwapHead)
  BY DEF LInit
<1>2. free_list = << >> /\ pc = "idle"
  BY <1>1 DEF Init
<1>3. L \in Linkage
  BY DEF Linkage
<1>4. /\ links \in Linkage
      /\ links.next[FreeHead] = FreeHead /\ links.prev[FreeHead] = FreeHead
      /\ links.next[SwapHead] = SwapHead /\ links.prev[SwapHead] = SwapHead
  <2> HIDE DEF L
  <2> QED
    BY <1>1, <1>3, NodeFacts DEF list_init, Linkage
<1>5. RingInv
  BY <1>1, <1>2, <1>4 DEF RingInv, Ring, At
<1>6. QueueInv /\ HandInv
  BY <1>1 DEF QueueInv, HandInv, Injective, Elems
<1>7. LTypeInv
  <2> HIDE DEF L
  <2>1. torn \in BOOLEAN
    BY <1>1, Zenon
  <2>2. queue = << >>
    BY <1>1, Zenon
  <2>3. queue \in Seq(Pages)
    BY <2>2
  <2> QED
    BY <1>1, <1>4, <2>1, <2>3 DEF LTypeInv
<1>8. LoopInv
  BY <1>2 DEF LoopInv
<1> QED
  BY <1>5, <1>6, <1>7, <1>8 DEF LInv

(***************************************************************************)
(* init_memmap() links a new block in front of the header.                 *)
(***************************************************************************)
LEMMA InitMemmapLInv ==
    ASSUME IInv, IInv', LInv, LInitMemmap
    PROVE  LInv'
<1>1. PICK e : e = Regions[region + 1].base
  OBVIOUS
<1>2. /\ ~torn /\ pc = "idle" /\ free_list' = Append(free_list, e)
      /\ links' = list_add_before(links, FreeHead, e)
      /\ UNCHANGED <<pc, held>> /\ UNCHANGED swapvars
  BY <1>1 DEF LInitMemmap, InitMemmap, locals
<1>3. HeadsFree /\ HeadsFree'
  BY HeadsNotHeld, HeadsNotHeldAfter
<1>4. /\ free_list \in Seq(Pages) /\ free_list' \in Seq(Pages) /\ Injective(free_list')
      /\ Len(free_list) \in Nat /\ Len(free_list') = Len(free_list) + 1
      /\ free_list'[Len(free_list) + 1] = e
      /\ \A i \in 1 .. Len(free_list) : free_list'[i] = free_list[i]
  BY <1>2, <1>3 DEF HeadsFree
<1>5. e \in Pages /\ e \notin held
  <2>1. Len(free_list) + 1 \in 1 .. Len(free_list')
    BY <1>4
  <2>2. e \in Elems(free_list', Len(free_list'))
    BY <1>4, <2>1 DEF Elems
  <2> QED
    BY <1>2, <1>3, <1>4, <2>1, <2>2 DEF HeadsFree, Owned
<1>6. e \notin Elems(free_list, Len(free_list))
  <2>1. ASSUME NEW i \in 1 .. Len(free_list), e = free_list[i] PROVE FALSE
    <3>1. i \in 1 .. Len(free_list') /\ Len(free_list) + 1 \in 1 .. Len(free_list')
          /\ i # Len(free_list) + 1
      BY <1>4
    <3> QED
      BY <1>4, <2>1, <3>1 DEF Injective
  <2> QED
    BY <2>1 DEF Elems
<1>7. links' = InsertBetween(links, e, At(FreeHead, free_list, Len(free_list)), FreeHead)
  <2>1. links.prev[FreeHead] = At(FreeHead, free_list, Len(free_list))
    BY <1>2, RingsApart, Neighbours
  <2> QED
    BY <1>2, <2>1 DEF list_add_before
<1>8. /\ links' \in Linkage /\ Ring(links', FreeHead, Append(free_list, e))
      /\ \A x \in Nodes \ (Live(FreeHead, free_list) \cup {e}) :
            links'.next[x] = links.next[x] /\ links'.prev[x] = links.prev[x]
  BY <1>2, <1>5, <1>6, <1>7, RingsApart, RingAppend
<1>9. e \notin Live(SwapHead, queue)
  BY <1>2, <1>5, NodeFacts DEF Live, LInv, QueueInv, Owned
<1>10. LoopInv'
  BY <1>2 DEF LoopInv
<1>11. Elems(queue, Len(queue)) \subseteq Owned'
  BY <1>2 DEF LInv, QueueInv, Owned
<1> QED
  BY <1>2, <1>8, <1>9, <1>10, <1>11, FreeSide

(***************************************************************************)
(* alloc() unlinks a block it takes as a whole.                            *)
(***************************************************************************)
LEMMA AllocExactLInv ==
    ASSUME IInv, LInv, NEW k \in Sizes, LAllocExact(k)
    PROVE  LInv'
<1>1. /\ ~torn /\ pc = "idle" /\ links' = list_del(links, ret'.page)
      /\ UNCHANGED swapvars /\ AllocExact(k)
  BY DEF LAllocExact, AllocExact
<1>2. PICK i \in 1 .. Len(free_list) :
         /\ free_list' = RemoveAt(free_list, i) /\ ret'.page = free_list[i]
         /\ held' = held \cup Run(free_list[i], k) /\ pc' = pc
  BY <1>1 DEF AllocExact, AllocResult, locals
<1>3. links' = list_del(links, free_list[i])
  BY <1>1, <1>2
<1>4. /\ links' \in Linkage /\ Ring(links', FreeHead, RemoveAt(free_list, i))
      /\ \A x \in Nodes \ Live(FreeHead, free_list) :
            links'.next[x] = links.next[x] /\ links'.prev[x] = links.prev[x]
  BY <1>1, <1>3, RingsApart, RingDelete
<1>5. FreeHead \notin Live(SwapHead, queue)
  BY <1>1, RingsApart DEF Live
<1>6. LoopInv'
  BY <1>1, <1>2 DEF LoopInv
<1>7. Elems(queue, Len(queue)) \subseteq Owned'
  BY <1>1, <1>2 DEF LInv, QueueInv, Owned
<1> QED
  BY <1>1, <1>2, <1>4, <1>5, <1>6, <1>7, FreeSide

(***************************************************************************)
(* alloc() puts the remainder of a block in its place.                     *)
(***************************************************************************)
LEMMA AllocSplitLInv ==
    ASSUME IInv, IInv', LInv, NEW k \in Sizes, LAllocSplit(k)
    PROVE  LInv'
<1>1. /\ ~torn /\ pc = "idle" /\ UNCHANGED swapvars /\ AllocSplit(k)
      /\ links' = list_del(list_add_after(links, ret'.page, ret'.page + k), ret'.page)
  BY DEF LAllocSplit, AllocSplit
<1>2. PICK i \in 1 .. Len(free_list) :
         /\ free_list' = [free_list EXCEPT ![i] = free_list[i] + k]
         /\ ret'.page = free_list[i]
         /\ held' = held \cup Run(free_list[i], k) /\ pc' = pc
  <2>1. PICK i \in 1 .. Len(free_list) :
           /\ free_list' = [free_list EXCEPT ![i] = free_list[i] + k]
           /\ ret' = [op |-> "alloc", n |-> k, page |-> free_list[i]]
           /\ held' = held \cup Run(free_list[i], k)
    BY <1>1, Zenon DEF AllocSplit, AllocResult
  <2>2. pc' = pc
    BY <1>1 DEF AllocSplit, locals
  <2>3. ret'.page = free_list[i]
    BY <2>1
  <2> QED
    BY <2>1, <2>2, <2>3
<1>3. PICK e : e = free_list[i] + k
  OBVIOUS
<1>4. HeadsFree /\ HeadsFree'
  BY HeadsNotHeld, HeadsNotHeldAfter
<1>5. /\ free_list \in Seq(Pages) /\ free_list' \in Seq(Pages) /\ Injective(free_list')
      /\ Len(free_list') = Len(free_list) /\ free_list'[i] = e
      /\ \A j \in 1 .. Len(free_list) : j # i => free_list'[j] = free_list[j]
  BY <1>2, <1>3, <1>4 DEF HeadsFree
<1>6. e \in Pages /\ e \notin held
  <2>1. e \in Elems(free_list', Len(free_list'))
    BY <1>5 DEF Elems
  <2>2. e \notin held'
    BY <1>4, <2>1 DEF HeadsFree, Owned
  <2>3. e \in Pages
    BY <1>5
  <2> QED
    BY <1>2, <2>2, <2>3
<1>7. e \notin Elems(free_list, Len(free_list))
  <2>1. ASSUME NEW j \in 1 .. Len(free_list), e = free_list[j] PROVE FALSE
    <3>1. CASE j = i
      <4>1. free_list[i] \in Nat
        <5>1. free_list \in Seq(Pages)
          BY <1>5
        <5> QED
          <6>1. free_list[i] \in Pages
            BY <5>1
          <6> QED
            BY <6>1 DEF Pages
      <4>2. k \in Nat \ {0}
        BY SizesAssumption
      <4> QED
        BY <1>3, <2>1, <3>1, <4>1, <4>2
    <3>2. CASE j # i
      BY <1>5, <2>1, <3>2 DEF Injective
    <3> QED
      BY <3>1, <3>2
  <2> QED
    BY <2>1 DEF Elems
<1>8. links' = list_del(list_add_after(links, free_list[i], e), free_list[i])
  BY <1>1, <1>2, <1>3
<1>9. /\ links' \in Linkage /\ Ring(links', FreeHead, [free_list EXCEPT ![i] = e])
      /\ \A x \in Nodes \ (Live(FreeHead, free_list) \cup {e}) :
            links'.next[x] = links.next[x] /\ links'.prev[x] = links.prev[x]
  BY <1>1, <1>6, <1>7, <1>8, RingsApart, RingReplace
<1>10. e \notin Live(SwapHead, queue)
  BY <1>1, <1>6, NodeFacts DEF Live, LInv, QueueInv, Owned
<1>11. LoopInv'
  BY <1>1, <1>2 DEF LoopInv
<1>12. Elems(queue, Len(queue)) \subseteq Owned'
  BY <1>1, <1>2 DEF LInv, QueueInv, Owned
<1>13. Ring(links', FreeHead, free_list')
  BY <1>2, <1>3, <1>9
<1> QED
  BY <1>1, <1>9, <1>10, <1>11, <1>12, <1>13, FreeSide

-----------------------------------------------------------------------------
(***************************************************************************)
(* free() starts its loop at the header.                                   *)
(***************************************************************************)
LEMMA FreeStartLInv ==
    ASSUME IInv, LInv, NEW a \in Pages, NEW k \in Sizes, LFreeStart(a, k)
    PROVE  LInv'
<1>1. /\ ~torn /\ pc = "idle" /\ base' = a
      /\ property' = [property EXCEPT ![a] = k]
      /\ pc' = "scan" /\ prev' = 0 /\ held' = held \ Run(a, k)
      /\ UNCHANGED <<free_list, links>> /\ UNCHANGED swapvars
      /\ le' = FreeHead /\ prev_le' = FreeHead
  BY DEF LFreeStart, FreeStart
<1>2. Elems(queue, Len(queue)) \subseteq Owned'
  <2>1. Elems(queue, Len(queue)) \subseteq held /\ held \subseteq Pages
    BY <1>1 DEF LInv, QueueInv, Owned, IInv, TypeOK, Managed
  <2>2. ASSUME NEW q \in Pages, q \in Run(a, k) PROVE InBlock(q, base)'
    <3>1. property'[a] = k
      BY <1>1 DEF IInv, TypeOK
    <3>2. k \in Nat /\ a \in Nat /\ q \in Nat
      BY SizesAssumption DEF Pages
    <3> QED
      BY <1>1, <2>2, <3>1, <3>2 DEF InBlock, End, Run
  <2> QED
    BY <1>1, <2>1, <2>2 DEF Owned
<1>3. LoopInv'
  <2>1. links.next[FreeHead] = At(FreeHead, free_list, 1) /\ At(FreeHead, free_list, 0) = FreeHead
    BY <1>1, RingsApart, Neighbours, Stops
  <2>2. torn' = torn /\ 0 + 1 = 1
    BY <1>1 DEF swapvars
  <2>3. prev' + 1 = 1
    BY <1>1
  <2> QED
    BY <1>1, <2>1, <2>2, <2>3 DEF LoopInv, At
<1>4. links' \in Linkage /\ Ring(links', FreeHead, free_list')
  BY <1>1, RingsApart
<1>5. FreeHead \notin Live(SwapHead, queue)
  BY <1>1, RingsApart DEF Live
<1> QED
  BY <1>1, <1>2, <1>3, <1>4, <1>5, FreeSide

(***************************************************************************)
(* The stop the loop reaches next.                                         *)
(***************************************************************************)
LEMMA LoopFacts ==
    ASSUME IInv, LInv, pc = "scan"
    PROVE  /\ ~torn /\ prev \in 0 .. Len(free_list) /\ Len(free_list) \in Nat
           /\ prev_le = At(FreeHead, free_list, prev)
           /\ links.next[le] = At(FreeHead, free_list, prev + 1)
           /\ prev < Len(free_list) =>
                 /\ prev + 1 \in 1 .. Len(free_list)
                 /\ links.next[le] = free_list[prev + 1]
                 /\ links.next[free_list[prev + 1]] = At(FreeHead, free_list, prev + 2)
<1>1. /\ ~torn /\ prev \in 0 .. Len(free_list) /\ free_list \in Seq(Pages)
      /\ prev_le = At(FreeHead, free_list, prev)
      /\ links.next[le] = At(FreeHead, free_list, prev + 1)
  BY DEF IInv, TypeOK, LInv, LoopInv
<1>2. Len(free_list) \in Nat
  BY <1>1
<1>3. ASSUME prev < Len(free_list)
      PROVE  /\ prev + 1 \in 1 .. Len(free_list)
             /\ links.next[le] = free_list[prev + 1]
             /\ links.next[free_list[prev + 1]] = At(FreeHead, free_list, prev + 2)
  <2>1. PICK j \in 1 .. Len(free_list) : j = prev + 1
    BY <1>1, <1>2, <1>3
  <2>2. j + 1 = prev + 2
    BY <1>1, <1>2, <2>1
  <2>3. At(FreeHead, free_list, j) = free_list[j]
    BY DEF At
  <2>4. links.next[free_list[j]] = At(FreeHead, free_list, j + 1)
    BY <1>1, RingsApart, Neighbours
  <2> QED
    BY <1>1, <2>1, <2>2, <2>3, <2>4
<1> QED
  BY <1>1, <1>2, <1>3

(***************************************************************************)
(* A merge unlinks the element the loop has come to; its own link still    *)
(* leads to the element behind prev.                                       *)
(***************************************************************************)
LEMMA MergeLInv ==
    ASSUME IInv, LInv, LMerge
    PROVE  LInv'
<1>1. /\ pc = "scan" /\ prev < Len(free_list)
      /\ free_list' = RemoveAt(free_list, prev + 1)
      /\ UNCHANGED <<pc, prev, held, prev_le>> /\ UNCHANGED swapvars
      /\ le' = links.next[le] /\ links' = list_del(links, links.next[le])
  BY DEF LMerge, MergeNext, MergePrev, Scanning, locals
<1>2. PICK j \in 1 .. Len(free_list) :
         /\ j = prev + 1 /\ le' = free_list[j]
         /\ links' = list_del(links, free_list[j])
         /\ links.next[free_list[j]] = At(FreeHead, free_list, j + 1)
  <2>1. /\ prev + 1 \in 1 .. Len(free_list) /\ links.next[le] = free_list[prev + 1]
        /\ links.next[free_list[prev + 1]] = At(FreeHead, free_list, prev + 2)
        /\ prev \in Int
    BY <1>1, LoopFacts
  <2>2. (prev + 1) + 1 = prev + 2
    BY <2>1
  <2> QED
    BY <1>1, <2>1, <2>2
<1>3. ~torn /\ prev \in 0 .. Len(free_list) /\ Len(free_list) \in Nat
      /\ prev_le = At(FreeHead, free_list, prev)
  BY <1>1, LoopFacts
<1>4. /\ links' \in Linkage /\ Ring(links', FreeHead, RemoveAt(free_list, j))
      /\ links'.next[free_list[j]] = links.next[free_list[j]]
      /\ \A x \in Nodes \ Live(FreeHead, free_list) :
            links'.next[x] = links.next[x] /\ links'.prev[x] = links.prev[x]
  BY <1>2, <1>3, RingsApart, RingDelete
<1>5. /\ Len(RemoveAt(free_list, j)) = Len(free_list) - 1
      /\ \A i \in 1 .. Len(free_list) - 1 :
            RemoveAt(free_list, j)[i] = IF i < j THEN free_list[i] ELSE free_list[i + 1]
  <2>1. free_list \in Seq(Pages)
    BY DEF IInv, TypeOK
  <2> QED
    BY <2>1, RemoveAtFacts
<1>6. PICK r : r = RemoveAt(free_list, j) /\ free_list' = r
  BY <1>1, <1>2
<1>7. At(FreeHead, r, prev) = At(FreeHead, free_list, prev)
  BY <1>2, <1>3, <1>5, <1>6 DEF At
<1>8. At(FreeHead, r, prev + 1) = At(FreeHead, free_list, j + 1)
  BY <1>2, <1>3, <1>5, <1>6 DEF At
<1>9. LoopInv'
  <2>1. torn' = torn
    BY <1>1 DEF swapvars
  <2>2. links'.next[le'] = At(FreeHead, r, prev + 1)
    BY <1>2, <1>4, <1>8
  <2>3. prev_le' = At(FreeHead, r, prev)
    BY <1>1, <1>3, <1>7
  <2>4. At(FreeHead, free_list, prev)' = At(FreeHead, r, prev)
    BY <1>1, <1>6 DEF At
  <2>5. At(FreeHead, free_list, prev + 1)' = At(FreeHead, r, prev + 1)
    BY <1>1, <1>6 DEF At
  <2> QED
    BY <1>3, <2>1, <2>2, <2>3, <2>4, <2>5 DEF LoopInv
<1>10. FreeHead \notin Live(SwapHead, queue)
  BY <1>3, RingsApart DEF Live
<1>11. Elems(queue, Len(queue)) \subseteq Owned'
  <2>1. Elems(queue, Len(queue)) \subseteq Owned
    BY <1>3 DEF LInv, QueueInv
  <2>2. ASSUME NEW q \in Pages, InBlock(q, base) PROVE InBlock(q, base)'
    <3>1. PICK p : p = ScanPage
      OBVIOUS
    <3>2. /\ p \in Pages /\ p \in Nat /\ property[p] \in Nat /\ property[p] >= 1
          /\ base \in Pages /\ base \in Nat /\ property[base] \in Nat /\ p # base
      BY <1>1, <3>1, ScanFacts DEF Scanning
    <3>3. property \in [Pages -> Nat] /\ q \in Nat
      BY DEF IInv, TypeOK, Pages
    <3>4. CASE MergeNext
      <4>1. base' = base /\ property'[base] = property[base] + property[p]
        BY <3>1, <3>2, <3>3, <3>4 DEF MergeNext, locals
      <4> QED
        BY <2>2, <3>2, <3>3, <4>1 DEF InBlock, End
    <3>5. CASE MergePrev
      <4>1. /\ base' = p /\ p + property[p] = base
            /\ property'[p] = property[p] + property[base]
        BY <3>1, <3>2, <3>3, <3>5 DEF MergePrev
      <4> QED
        BY <2>2, <3>2, <3>3, <4>1 DEF InBlock, End
    <3> QED
      BY <3>4, <3>5 DEF LMerge
  <2> QED
    BY <1>1, <2>1, <2>2 DEF Owned
<1>12. Ring(links', FreeHead, free_list')
  BY <1>4, <1>6
<1> QED
  BY <1>1, <1>3, <1>4, <1>9, <1>10, <1>11, <1>12, FreeSide

(***************************************************************************)
(* The loop moves on.                                                      *)
(***************************************************************************)
LEMMA KeepLInv ==
    ASSUME IInv, LInv, LKeep
    PROVE  LInv'
<1>1. /\ pc = "scan" /\ prev < Len(free_list) /\ prev' = prev + 1
      /\ UNCHANGED <<pc, free_list, held, links>> /\ UNCHANGED swapvars
      /\ le' = links.next[le] /\ prev_le' = links.next[le]
  BY DEF LKeep, Keep, Scanning
<1>2. /\ ~torn /\ prev \in 0 .. Len(free_list) /\ Len(free_list) \in Nat
      /\ links.next[le] = At(FreeHead, free_list, prev + 1)
      /\ links.next[le] = free_list[prev + 1]
      /\ links.next[free_list[prev + 1]] = At(FreeHead, free_list, prev + 2)
  BY <1>1, LoopFacts
<1>3. LoopInv'
  <2>1. torn' = torn
    BY <1>1 DEF swapvars
  <2>2. At(FreeHead, free_list, prev)' = At(FreeHead, free_list, prev + 1)
    BY <1>1 DEF At
  <2>3. At(FreeHead, free_list, prev + 1)' = At(FreeHead, free_list, prev + 2)
    <3>1. prev' + 1 = prev + 2
      BY <1>1, <1>2
    <3> QED
      BY <1>1, <3>1 DEF At
  <2>4. prev_le' = At(FreeHead, free_list, prev + 1)
    BY <1>1, <1>2
  <2>5. links'.next[le'] = At(FreeHead, free_list, prev + 2)
    BY <1>1, <1>2
  <2> QED
    BY <1>2, <2>1, <2>2, <2>3, <2>4, <2>5 DEF LoopInv
<1>4. links' \in Linkage /\ Ring(links', FreeHead, free_list')
  BY <1>1, <1>2, RingsApart
<1>5. FreeHead \notin Live(SwapHead, queue)
  BY <1>2, RingsApart DEF Live
<1>6. Elems(queue, Len(queue)) \subseteq Owned'
  <2>1. UNCHANGED <<base, property>>
    BY DEF LKeep, Keep
  <2> QED
    BY <1>1, <1>2, <2>1 DEF LInv, QueueInv, Owned, InBlock, End
<1> QED
  BY <1>1, <1>2, <1>3, <1>4, <1>5, <1>6, FreeSide

(***************************************************************************)
(* The freed block is linked behind prev, the last element; unless a page  *)
(* of the replacement list is in it.                                       *)
(***************************************************************************)
LEMMA FreeDoneLInv ==
    ASSUME IInv, IInv', LInv, LFreeDone
    PROVE  LInv'
<1>1. PICK e : e = base
  OBVIOUS
<1>2. /\ pc = "scan" /\ prev = Len(free_list) /\ pc' = "idle" /\ held' = held
      /\ free_list' = InsertAt(free_list, Len(free_list) + 1, e)
      /\ links' = list_add_after(links, prev_le, e) /\ UNCHANGED <<mgr, clock_ptr, queue>>
      /\ torn' = (Block(base) \cap ToSet(queue) # {})
  BY <1>1 DEF LFreeDone, FreeDone
<1>3. ~torn /\ prev_le = At(FreeHead, free_list, Len(free_list))
  BY <1>2, LoopFacts
<1>4. HeadsFree /\ HeadsFree'
  BY HeadsNotHeld, HeadsNotHeldAfter
<1>5. free_list \in Seq(Pages) /\ e \in Pages
  BY <1>1, <1>2 DEF IInv, TypeOK, ScanInv, WellPlaced
<1>6. free_list' = Append(free_list, e)
  BY <1>2, <1>5, InsertAtEndFacts
<1>7. /\ Injective(free_list') /\ Len(free_list) \in Nat
      /\ Len(free_list') = Len(free_list) + 1 /\ free_list'[Len(free_list) + 1] = e
      /\ \A i \in 1 .. Len(free_list) : free_list'[i] = free_list[i]
  BY <1>4, <1>5, <1>6 DEF HeadsFree
<1>8. e \notin held
  <2>1. Len(free_list) + 1 \in 1 .. Len(free_list')
    BY <1>7
  <2>2. e \in Elems(free_list', Len(free_list'))
    BY <1>7, <2>1 DEF Elems
  <2> QED
    BY <1>2, <1>4, <2>2 DEF HeadsFree, Owned
<1>9. e \notin Elems(free_list, Len(free_list))
  <2>1. ASSUME NEW i \in 1 .. Len(free_list), e = free_list[i] PROVE FALSE
    <3>1. i \in 1 .. Len(free_list') /\ Len(free_list) + 1 \in 1 .. Len(free_list')
          /\ i # Len(free_list) + 1
      BY <1>7
    <3> QED
      BY <1>7, <2>1, <3>1 DEF Injective
  <2> QED
    BY <2>1 DEF Elems
<1>10. links' = InsertBetween(links, e, At(FreeHead, free_list, Len(free_list)), FreeHead)
  <2>1. links.next[At(FreeHead, free_list, Len(free_list))] = FreeHead
    BY <1>3, RingsApart, Neighbours
  <2> QED
    BY <1>2, <1>3, <2>1 DEF list_add_after
<1>11. /\ links' \in Linkage /\ Ring(links', FreeHead, Append(free_list, e))
       /\ \A x \in Nodes \ (Live(FreeHead, free_list) \cup {e}) :
             links'.next[x] = links.next[x] /\ links'.prev[x] = links.prev[x]
  BY <1>3, <1>5, <1>9, <1>10, RingsApart, RingAppend
<1>12. LoopInv'
  BY <1>2 DEF LoopInv
<1>13. CASE torn'
  <2>1. LTypeInv'
    BY <1>2, <1>11, <1>13 DEF LInv, LTypeInv
  <2> QED
    BY <1>12, <1>13, <2>1 DEF LInv
<1>14. CASE ~torn'
  <2>1. Elems(queue, Len(queue)) \subseteq held
    <3>1. queue \in Seq(Pages) /\ Elems(queue, Len(queue)) \subseteq Owned
      BY <1>3 DEF LInv, LTypeInv, QueueInv
    <3>2. Elems(queue, Len(queue)) \subseteq ToSet(queue)
      BY <3>1 DEF Elems, ToSet
    <3>3. ASSUME NEW q \in Pages, InBlock(q, base) PROVE q \in Block(base)
      <4>1. q \in Nat /\ base \in Nat /\ property[base] \in Nat
        <5>1. base \in Pages /\ property \in [Pages -> Nat]
          BY <1>1, <1>5 DEF IInv, TypeOK
        <5> QED
          BY <5>1 DEF Pages
      <4> QED
        BY <3>3, <4>1 DEF InBlock, End, Block, Run
    <3> QED
      BY <1>2, <1>14, <3>1, <3>2, <3>3 DEF Owned
  <2>2. e \notin Live(SwapHead, queue)
    BY <1>5, <1>8, <2>1, NodeFacts DEF Live
  <2>3. Elems(queue, Len(queue)) \subseteq Owned'
    BY <1>2, <2>1 DEF Owned
  <2>4. UNCHANGED swapvars
    BY <1>2, <1>3, <1>14 DEF swapvars, LInv, LTypeInv
  <2> QED
    BY <1>3, <1>6, <1>11, <1>12, <2>2, <2>3, <2>4, FreeSide
<1> QED
  BY <1>13, <1>14

-----------------------------------------------------------------------------
(***************************************************************************)
(* A page of a caller's goes to the end of the replacement list.           *)
(***************************************************************************)
LEMMA QueueAppend ==
    ASSUME IInv, LInv, ~torn, NEW L \in Linkage, NEW s, Proper(SwapHead, s),
           Ring(L, SwapHead, s), Elems(s, Len(s)) \subseteq held,
           NEW p \in held, p \notin Elems(s, Len(s))
    PROVE  LET M == list_add_before(L, SwapHead, p) IN
           /\ M \in Linkage
           /\ Proper(SwapHead, Append(s, p))
           /\ Ring(M, SwapHead, Append(s, p))
           /\ Elems(Append(s, p), Len(Append(s, p))) \subseteq held
           /\ \A x \in Nodes \ (Live(SwapHead, s) \cup {p}) :
                 M.next[x] = L.next[x] /\ M.prev[x] = L.prev[x]
<1>1. p \in Pages
  BY DEF IInv, TypeOK, Managed
<1>2. L.prev[SwapHead] = At(SwapHead, s, Len(s))
  BY Neighbours
<1>3. list_add_before(L, SwapHead, p) =
         InsertBetween(L, p, At(SwapHead, s, Len(s)), SwapHead)
  BY <1>2 DEF list_add_before
<1>4. Elems(Append(s, p), Len(Append(s, p))) = Elems(s, Len(s)) \cup {p}
  BY <1>1, AppendedElems DEF Proper
<1> QED
  BY <1>1, <1>3, <1>4, RingAppend

(***************************************************************************)
(* map_swappable() of the FIFO and the clock.                              *)
(***************************************************************************)
LEMMA MapLInv ==
    ASSUME IInv, LInv, NEW p \in Pages, map_swappable(p),
           UNCHANGED <<vars, le, prev_le, mgr>>
    PROVE  LInv'
<1>1. /\ pc = "idle" /\ ~torn /\ p \in held /\ p \notin ToSet(queue)
      /\ links' = list_add_before(links, SwapHead, p) /\ queue' = Append(queue, p)
      /\ UNCHANGED <<clock_ptr, torn>>
  BY DEF map_swappable
<1>2. queue \in Seq(Pages) /\ Elems(queue, Len(queue)) \subseteq held /\ HandInv
      /\ torn \in BOOLEAN
  BY <1>1 DEF LInv, LTypeInv, QueueInv, Owned
<1>3. p \notin Elems(queue, Len(queue))
  BY <1>1, <1>2 DEF Elems, ToSet
<1>4. /\ links' \in Linkage /\ Proper(SwapHead, queue') /\ Ring(links', SwapHead, queue')
      /\ Elems(queue', Len(queue')) \subseteq held
      /\ \A x \in Nodes \ (Live(SwapHead, queue) \cup {p}) :
            links'.next[x] = links.next[x] /\ links'.prev[x] = links.prev[x]
  BY <1>1, <1>2, <1>3, RingsApart, QueueAppend
<1>5. HandInv'
  <2>1. At(SwapHead, queue, 1) = SwapHead
        \/ At(SwapHead, Append(queue, p), 1) = At(SwapHead, queue, 1)
    <3>1. CASE queue = << >>
      BY <3>1 DEF At
    <3>2. CASE queue # << >>
      <4>1. /\ 1 \in 1 .. Len(queue) /\ 1 \in 1 .. Len(Append(queue, p))
            /\ Append(queue, p)[1] = queue[1]
        <5>1. Len(queue) \in Nat /\ Len(queue) # 0
          BY <1>2, <3>2
        <5>2. p \in Pages
          OBVIOUS
        <5> QED
          BY <1>2, <5>1, <5>2
      <4> QED
        BY <4>1 DEF At
    <3> QED
      BY <3>1, <3>2
  <2>2. mgr' = mgr /\ clock_ptr' = clock_ptr
    BY <1>1
  <2>3. At(SwapHead, queue, 1)' = At(SwapHead, Append(queue, p), 1)
    BY <1>1 DEF At
  <2> QED
    BY <1>2, <2>1, <2>2, <2>3 DEF HandInv
<1>6. torn' = FALSE
  BY <1>1, <1>2
<1> QED
  BY <1>1, <1>4, <1>5, <1>6, SwapSide

(***************************************************************************)
(* RemoveFirst on a list without repetition.                               *)
(***************************************************************************)
LEMMA RemoveFirstFacts ==
    ASSUME NEW s \in Seq(Pages), Injective(s), NEW j \in 1 .. Len(s)
    PROVE  RemoveFirst(s, s[j]) = RemoveAt(s, j)
<1> DEFINE I == {i \in 1 .. Len(s) : s[i] = s[j]}
<1>1. I = {j}
  BY DEF Injective
<1>2. Min(I) = j
  <2>1. j \in I /\ \A x \in I : j <= x
    BY <1>1
  <2>2. \A x \in I : x = j
    BY <1>1
  <2> HIDE DEF I
  <2> QED
    BY <2>1, <2>2 DEF Min
<1>3. SelectInSeq(s, LAMBDA v : v = s[j]) = j
  BY <1>1, <1>2 DEF SelectInSeq
<1> QED
  BY <1>3 DEF RemoveFirst

(***************************************************************************)
(* The stores of the list operations keep the links typed, wherever the    *)
(* links that they follow lead.                                            *)
(***************************************************************************)
LEMMA AnyStores ==
    ASSUME NEW L \in Linkage, NEW p \in Nodes
    PROVE  list_del(L, p) \in Linkage /\ list_add_before(L, SwapHead, p) \in Linkage
<1>1. L.next \in [Nodes -> Nodes \cup {Null}] /\ L.prev \in [Nodes -> Nodes \cup {Null}]
  BY DEF Linkage
<1>2. SwapHead \in Nodes
  BY NodeFacts
<1>3. PICK nx, pv : nx = L.next /\ pv = L.prev
  OBVIOUS
<1>4. /\ nx \in [Nodes -> Nodes \cup {Null}] /\ pv \in [Nodes -> Nodes \cup {Null}]
      /\ nx[p] \in Nodes \cup {Null} /\ pv[p] \in Nodes \cup {Null}
      /\ pv[SwapHead] \in Nodes \cup {Null}
  BY <1>1, <1>2, <1>3
<1>5. /\ [nx EXCEPT ![pv[p]] = nx[p]] \in [Nodes -> Nodes \cup {Null}]
      /\ [pv EXCEPT ![nx[p]] = pv[p]] \in [Nodes -> Nodes \cup {Null}]
  BY <1>4
<1>6. /\ [nx EXCEPT ![pv[SwapHead]] = p, ![p] = SwapHead] \in [Nodes -> Nodes \cup {Null}]
      /\ [pv EXCEPT ![SwapHead] = p, ![p] = pv[SwapHead]] \in [Nodes -> Nodes \cup {Null}]
  BY <1>2, <1>4
<1>7. list_del(L, p) \in Linkage
  BY <1>3, <1>5 DEF list_del, Linkage
<1>8. list_add_before(L, SwapHead, p) \in Linkage
  BY <1>3, <1>6 DEF list_add_before, InsertBetween, Linkage
<1> QED
  BY <1>7, <1>8

(***************************************************************************)
(* map_swappable() of LRU.  It unlinks a page that has links; unless that  *)
(* tore something, the page was in the list, or its links were those of no *)
(* neighbour and the stores changed nothing.                               *)
(***************************************************************************)
LEMMA LruLInv ==
    ASSUME IInv, LInv, NEW p \in Pages, swap_lru_map_swappable(p),
           UNCHANGED <<vars, le, prev_le, mgr>>
    PROVE  LInv'
<1> DEFINE fresh == links.next[p] = Null
           L     == IF fresh THEN links ELSE list_del(links, p)
           rest  == RemoveFirst(queue, p)
<1>1. /\ pc = "idle" /\ ~torn /\ mgr = "lru" /\ p \in held
      /\ links' = list_add_before(L, SwapHead, p) /\ queue' = Append(rest, p)
      /\ UNCHANGED clock_ptr
  BY DEF swap_lru_map_swappable
<1>2. /\ torn' \in BOOLEAN
      /\ ~torn' => p \in ToSet(queue) \/ L = links
  <2>1. PICK wild \in BOOLEAN : torn' = (wild \/ (p \notin ToSet(queue) /\ L # links))
    BY DEF swap_lru_map_swappable
  <2> QED
    BY <2>1
<1>3. /\ queue \in Seq(Pages) /\ Injective(queue)
      /\ Elems(queue, Len(queue)) \subseteq held
  BY <1>1 DEF LInv, LTypeInv, QueueInv, Owned
<1>4. links \in Linkage /\ p \in Nodes /\ UNCHANGED <<pc, mgr>>
  BY <1>1, NodeFacts, RingsApart DEF vars
<1>5. L \in Linkage /\ links' \in Linkage
  BY <1>1, <1>4, AnyStores
<1>6. CASE p \in ToSet(queue)
  <2>1. PICK j \in 1 .. Len(queue) : p = queue[j]
    BY <1>3, <1>6 DEF ToSet
  <2>2. rest = RemoveAt(queue, j)
    BY <1>3, <2>1, RemoveFirstFacts
  <2>3. ~fresh
    <3>1. links.next[queue[j]] = At(SwapHead, queue, j + 1)
      BY <1>1, RingsApart, Neighbours
    <3>2. j + 1 \in 0 .. Len(queue) + 1
      BY <1>3
    <3>3. At(SwapHead, queue, j + 1) \in Nodes
      BY <1>1, <3>2, RingsApart, Stops
    <3> QED
      BY <2>1, <3>1, <3>3, NodeFacts
  <2>4. L = list_del(links, queue[j])
    BY <2>1, <2>3
  <2>5. /\ L \in Linkage /\ Proper(SwapHead, rest) /\ Ring(L, SwapHead, rest)
        /\ \A x \in Nodes \ Live(SwapHead, queue) :
              L.next[x] = links.next[x] /\ L.prev[x] = links.prev[x]
    <3> HIDE DEF L, rest
    <3> QED
      BY <1>1, <2>2, <2>4, RingsApart, RingDelete
  <2>6. Elems(rest, Len(rest)) = Elems(queue, Len(queue)) \ {p}
    <3> HIDE DEF rest
    <3> QED
      BY <1>3, <2>1, <2>2, RemovedElems
  <2> HIDE DEF L, rest
  <2>7. /\ links' \in Linkage /\ Proper(SwapHead, queue') /\ Ring(links', SwapHead, queue')
        /\ Elems(queue', Len(queue')) \subseteq held
        /\ \A x \in Nodes \ (Live(SwapHead, rest) \cup {p}) :
              links'.next[x] = L.next[x] /\ links'.prev[x] = L.prev[x]
    BY <1>1, <1>3, <2>5, <2>6, QueueAppend
  <2>8. Live(SwapHead, rest) \subseteq Live(SwapHead, queue)
    BY <2>6 DEF Live
  <2>9. \A x \in Nodes \ (Live(SwapHead, queue) \cup {p}) :
           links'.next[x] = links.next[x] /\ links'.prev[x] = links.prev[x]
    BY <2>5, <2>7, <2>8
  <2>10. HandInv'
    BY <1>1, <1>4 DEF HandInv
  <2>11. CASE torn' = FALSE
    BY <1>1, <2>7, <2>9, <2>10, <2>11, SwapSide
  <2>12. CASE torn' = TRUE
    BY <1>1, <1>4, <2>7, <2>12 DEF LInv, LTypeInv, LoopInv, Proper
  <2> QED
    BY <1>2, <2>11, <2>12
<1>7. CASE p \notin ToSet(queue)
  <2>1. \A i \in 1 .. Len(queue) : queue[i] # p
    BY <1>3, <1>7 DEF ToSet
  <2>2. rest = queue
    BY <2>1 DEF RemoveFirst
  <2>3. p \notin Elems(queue, Len(queue))
    BY <2>1 DEF Elems
  <2>4. queue' = Append(queue, p) /\ queue' \in Seq(Pages)
    BY <1>1, <1>3, <2>2
  <2> HIDE DEF L, rest
  <2>5. CASE torn' = FALSE
    <3>1. L = links
      BY <1>2, <1>7, <2>5
    <3>2. /\ links' \in Linkage /\ Proper(SwapHead, queue') /\ Ring(links', SwapHead, queue')
          /\ Elems(queue', Len(queue')) \subseteq held
          /\ \A x \in Nodes \ (Live(SwapHead, queue) \cup {p}) :
                links'.next[x] = links.next[x] /\ links'.prev[x] = links.prev[x]
      BY <1>1, <1>3, <2>3, <2>4, <3>1, RingsApart, QueueAppend
    <3>3. HandInv'
      BY <1>1, <1>4 DEF HandInv
    <3> QED
      BY <1>1, <2>5, <3>2, <3>3, SwapSide
  <2>6. CASE torn' = TRUE
    BY <1>1, <1>4, <1>5, <2>4, <2>6 DEF LInv, LTypeInv, LoopInv
  <2> QED
    BY <1>2, <2>5, <2>6
<1> QED
  BY <1>6, <1>7

(***************************************************************************)
(* A victim leaves the list, which is not empty.                           *)
(***************************************************************************)
LEMMA VictimLInv ==
    ASSUME IInv, LInv, ~torn, torn' = torn, pc = "idle", UNCHANGED <<vars, mgr>>,
           links.next[SwapHead] # SwapHead,
           links' = list_del(links, links.next[SwapHead]), queue' = RemoveAt(queue, 1),
           mgr = "clock" => clock_ptr' = links.next[links.next[SwapHead]]
    PROVE  LInv'
<1>1. /\ queue \in Seq(Pages) /\ Injective(queue)
      /\ Elems(queue, Len(queue)) \subseteq held /\ torn \in BOOLEAN
  BY DEF LInv, LTypeInv, QueueInv, Owned
<1>2. links.next[SwapHead] = At(SwapHead, queue, 1)
  BY RingsApart, Neighbours
<1>3. 1 \in 1 .. Len(queue) /\ links.next[SwapHead] = queue[1] /\ Len(queue) \in Nat
  BY <1>1, <1>2 DEF At
<1>4. /\ links' \in Linkage /\ Proper(SwapHead, queue') /\ Ring(links', SwapHead, queue')
      /\ \A x \in Nodes \ Live(SwapHead, queue) :
            links'.next[x] = links.next[x] /\ links'.prev[x] = links.prev[x]
  BY <1>3, RingsApart, RingDelete
<1>5. Elems(queue', Len(queue')) = Elems(queue, Len(queue)) \ {queue[1]}
  BY <1>1, <1>3, RemovedElems
<1>6. queue[1] \in held
  BY <1>1, <1>3 DEF Elems
<1>7. HandInv'
  <2>1. links.next[queue[1]] = At(SwapHead, queue, 1 + 1)
    BY <1>3, RingsApart, Neighbours
  <2>2. /\ Len(queue') = Len(queue) - 1
        /\ \A i \in 1 .. Len(queue) - 1 : queue'[i] = queue[i + 1]
    BY <1>1, <1>3, RemoveAtFacts
  <2>3. At(SwapHead, queue, 1)' = At(SwapHead, queue, 2)
    <3>1. CASE Len(queue) = 1
      BY <2>2, <3>1 DEF At
    <3>2. CASE Len(queue) > 1
      <4>1. queue'[1] = queue[1 + 1] /\ 1 \in 1 .. Len(queue') /\ 2 \in 1 .. Len(queue)
        BY <1>3, <2>2, <3>2
      <4> QED
        BY <4>1 DEF At
    <3>3. Len(queue) = 1 \/ Len(queue) > 1
      <4>1. PICK m \in Nat : m = Len(queue) /\ 1 \in 1 .. m
        BY <1>3
      <4>2. m = 1 \/ m > 1
        BY <4>1
      <4> QED
        BY <4>1, <4>2
    <3> QED
      BY <3>1, <3>2, <3>3
  <2> QED
    BY <1>3, <2>1, <2>3 DEF HandInv
<1>8. torn' = FALSE
  BY <1>1
<1> QED
  BY <1>1, <1>4, <1>5, <1>6, <1>7, <1>8, SwapSide

(***************************************************************************)
(* Every step of a replacement algorithm.                                  *)
(***************************************************************************)
LEMMA ReplacementLInv ==
    ASSUME IInv, LInv, Replacement
    PROVE  LInv'
<1>1. UNCHANGED <<vars, le, prev_le, mgr>>
  BY DEF Replacement
<1>2. ASSUME NEW p \in Pages, map_swappable(p) PROVE LInv'
  BY <1>1, <1>2, MapLInv
<1>3. ASSUME NEW p \in Pages, swap_lru_map_swappable(p) PROVE LInv'
  BY <1>1, <1>3, LruLInv
<1>4. CASE swap_out_victim
  <2>1. /\ ~torn /\ torn' = torn /\ pc = "idle" /\ mgr # "clock"
        /\ links.next[SwapHead] # SwapHead
        /\ links' = list_del(links, links.next[SwapHead]) /\ queue' = RemoveAt(queue, 1)
    BY <1>4 DEF swap_out_victim
  <2> QED
    BY <1>1, <2>1, VictimLInv
<1>5. CASE swap_clock_swap_out_victim
  <2>1. /\ ~torn /\ torn' = torn /\ pc = "idle" /\ mgr = "clock"
        /\ Hand # SwapHead /\ clock_ptr' = links.next[Hand]
        /\ links' = list_del(links, Hand) /\ queue' = RemoveAt(queue, 1)
    BY <1>5 DEF swap_clock_swap_out_victim
  <2>2. Hand = links.next[SwapHead]
    <3>1. links.next[SwapHead] = At(SwapHead, queue, 1)
      BY <2>1, RingsApart, Neighbours
    <3> QED
      BY <2>1, <3>1 DEF Hand, LInv, HandInv
  <2> QED
    BY <1>1, <2>1, <2>2, VictimLInv
<1> QED
  BY <1>2, <1>3, <1>4, <1>5 DEF Replacement

-----------------------------------------------------------------------------
(***************************************************************************)
(* A step with pointers is a step of FirstFit, or none.                    *)
(***************************************************************************)
LEMMA StepOfFirstFit == ASSUME [LNext]_lvars PROVE [Next]_vars
BY DEF LNext, lvars, LInitMemmap, LAllocFail, LAllocExact, LAllocSplit, LFreeStart,
       LMerge, LKeep, LFreeDone, Replacement, Next, Alloc, Scan

(***************************************************************************)
(* Every step keeps both invariants.                                       *)
(***************************************************************************)
LEMMA LNextInv == ASSUME IInv, LInv, [LNext]_lvars PROVE IInv' /\ LInv'
<1>1. IInv'
  BY StepOfFirstFit, NextIInv
<1>2. CASE LInitMemmap
  BY <1>1, <1>2, InitMemmapLInv
<1>3. ASSUME NEW k \in Sizes, LAllocFail(k) PROVE LInv'
  <2>1. UNCHANGED <<free_list, pc, prev, held, links, le, prev_le, mgr, clock_ptr, queue, torn, base, property>>
    BY <1>3 DEF LAllocFail, AllocFail, locals, swapvars
  <2> QED
    BY <2>1 DEF LInv, LTypeInv, RingInv, QueueInv, HandInv, LoopInv, Ring, At, Owned, InBlock, End
<1>4. ASSUME NEW k \in Sizes, LAllocExact(k) PROVE LInv'
  BY <1>4, AllocExactLInv
<1>5. ASSUME NEW k \in Sizes, LAllocSplit(k) PROVE LInv'
  BY <1>1, <1>5, AllocSplitLInv
<1>6. ASSUME NEW a \in Pages, NEW k \in Sizes, LFreeStart(a, k) PROVE LInv'
  BY <1>6, FreeStartLInv
<1>7. CASE LMerge
  BY <1>1, <1>7, MergeLInv
<1>8. CASE LKeep
  BY <1>1, <1>8, KeepLInv
<1>9. CASE LFreeDone
  BY <1>1, <1>9, FreeDoneLInv
<1>10. CASE Replacement
  BY <1>1, <1>10, ReplacementLInv
<1>11. CASE UNCHANGED lvars
  <2>1. UNCHANGED <<free_list, pc, prev, held, links, le, prev_le, mgr, clock_ptr, queue, torn, base, property>>
    BY <1>11 DEF lvars, vars, swapvars, locals
  <2> QED
    BY <1>1, <2>1 DEF LInv, LTypeInv, RingInv, QueueInv, HandInv, LoopInv, Ring, At, Owned, InBlock, End
<1> QED
  BY <1>1, <1>2, <1>3, <1>4, <1>5, <1>6, <1>7, <1>8, <1>9, <1>10, <1>11 DEF LNext

(***************************************************************************)
(* The pointers always carry the two lists.                                *)
(***************************************************************************)
THEOREM LInvariance == LSpec => [](IInv /\ LInv)
<1>1. LInit => IInv /\ LInv
  BY LInitInv, InitIInv DEF LInit
<1>2. IInv /\ LInv /\ [LNext]_lvars => IInv' /\ LInv'
  BY LNextInv
<1> QED
  BY <1>1, <1>2, PTL DEF LSpec

(***************************************************************************)
(* Both intrusive lists are what the sequences say, whatever list_del()    *)
(* left in the links of the pages they share, and every replacement        *)
(* algorithm finds its victim at the front; until a call of free() that    *)
(* was given a page of the replacement list ends, or LRU unlinks a page by *)
(* stale links.                                                            *)
(***************************************************************************)
THEOREM RingsAlwaysSound == LSpec => []RingsSound
<1>1. ASSUME IInv, LInv PROVE RingsSound
  <2>1. SUFFICES ASSUME ~torn
                 PROVE  /\ Represents(FreeHead, free_list) /\ Represents(SwapHead, queue)
                        /\ IsInjective(free_list \o queue)
                        /\ mgr = "clock" => Hand = links.next[SwapHead]
    BY DEF RingsSound
  <2>2. Represents(FreeHead, free_list) /\ Represents(SwapHead, queue)
    BY <1>1, <2>1 DEF LInv, RingInv, Ring, Represents, At
  <2>3. IsInjective(free_list \o queue)
    <3>1. /\ free_list \in Seq(Pages) /\ queue \in Seq(Pages)
          /\ Injective(free_list) /\ Injective(queue)
      BY <1>1, <2>1, RingsApart DEF Proper
    <3>2. \A i \in 1 .. Len(free_list), j \in 1 .. Len(queue) : free_list[i] # queue[j]
      BY <1>1, <2>1, RingsApart DEF Live, Elems
    <3>3. PICK a \in Nat, b \in Nat : a = Len(free_list) /\ b = Len(queue)
      BY <3>1
    <3>4. /\ DOMAIN (free_list \o queue) = 1 .. a + b
          /\ \A i \in 1 .. a : (free_list \o queue)[i] = free_list[i]
          /\ \A i \in a + 1 .. a + b : /\ (free_list \o queue)[i] = queue[i - a]
                                       /\ i - a \in 1 .. b
      BY <3>1, <3>3
    <3>5. PICK c : c = free_list \o queue
      OBVIOUS
    <3>6. ASSUME NEW i \in 1 .. a + b, NEW j \in 1 .. a + b, c[i] = c[j] PROVE i = j
      <4>1. CASE i \in 1 .. a /\ j \in 1 .. a
        BY <3>1, <3>3, <3>4, <3>5, <3>6, <4>1 DEF Injective
      <4>2. CASE i \in 1 .. a /\ j \in a + 1 .. a + b
        BY <3>2, <3>3, <3>4, <3>5, <3>6, <4>2
      <4>3. CASE j \in 1 .. a /\ i \in a + 1 .. a + b
        BY <3>2, <3>3, <3>4, <3>5, <3>6, <4>3
      <4>4. CASE i \in a + 1 .. a + b /\ j \in a + 1 .. a + b
        <5>1. queue[i - a] = queue[j - a] /\ i - a \in 1 .. b /\ j - a \in 1 .. b
          BY <3>4, <3>5, <3>6, <4>4
        <5>2. i - a = j - a
          BY <3>1, <3>3, <5>1 DEF Injective
        <5> QED
          BY <5>2
      <4> QED
        BY <4>1, <4>2, <4>3, <4>4
    <3> QED
      BY <3>4, <3>5, <3>6 DEF IsInjective
  <2>4. mgr = "clock" => Hand = links.next[SwapHead]
    <3>1. links.next[SwapHead] = At(SwapHead, queue, 1)
      BY <1>1, <2>1, RingsApart, Neighbours
    <3> QED
      BY <1>1, <2>1, <3>1 DEF Hand, LInv, HandInv
  <2> QED
    BY <2>2, <2>3, <2>4
<1> QED
  BY <1>1, LInvariance, PTL

(***************************************************************************)
(* free()'s loop goes through the whole list although it follows the links *)
(* of elements it has unlinked.                                            *)
(***************************************************************************)
THEOREM IterationAlwaysInStep == LSpec => []IterationInStep
<1>1. ASSUME IInv, LInv PROVE IterationInStep
  <2>1. SUFFICES ASSUME pc = "scan"
                 PROVE  /\ prev_le = IF prev = 0 THEN FreeHead ELSE free_list[prev]
                        /\ links.next[le] = IF prev < Len(free_list)
                                            THEN free_list[prev + 1] ELSE FreeHead
    BY DEF IterationInStep
  <2>2. /\ prev \in 0 .. Len(free_list) /\ Len(free_list) \in Nat
        /\ prev_le = At(FreeHead, free_list, prev)
        /\ links.next[le] = At(FreeHead, free_list, prev + 1)
    BY <1>1, <2>1, LoopFacts
  <2> QED
    BY <2>2 DEF At
<1> QED
  BY <1>1, LInvariance, PTL
=============================================================================

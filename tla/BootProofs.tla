----------------------------- MODULE BootProofs -----------------------------
(***************************************************************************)
(* Proofs about loading the kernel and setting up its memory map, for      *)
(* every kernel the linker may make, every memory map and all sizes of     *)
(* sectors, pages and memory.                                              *)
(***************************************************************************)
EXTENDS Boot, NaturalsInduction, WellFoundedInduction, TLAPS

-----------------------------------------------------------------------------
(***************************************************************************)
(* What the linker's promise on neighbours comes to for any two segments:  *)
(* s ends before t begins, and they share a page only if they are as far   *)
(* apart in the file as in memory.  LoadInv extends it from neighbours to  *)
(* all segments read so far, one segment at a time.                        *)
(***************************************************************************)
Before(s, t) ==
    /\ s.va + s.memsz <= t.va
    /\ \/ t.va - t.offset = s.va - s.offset
       \/ t.va \div PG_SIZE > (s.va + s.memsz - 1) \div PG_SIZE

(* The cells of segment s below address x hold the segment's file part. *)
LoadedTo(s, x) ==
    \A k \in 0 .. s.filesz - 1 :
        s.va + k < x => mem[s.va + k] = FileCell(s.offset + k)

Loaded(s) ==
    \A k \in 0 .. s.filesz - 1 : mem[s.va + k] = FileCell(s.offset + k)

Booting == pc \in {"probe", "header", "sectors"}

InKernel == pc \in {"head", "pages", "regions", "done"}

TypeInv ==
    /\ segs \in Layouts /\ bootable \in BOOLEAN
    /\ mem \in [Cells -> Int]
    /\ ph \in 0 .. Len(segs)
    /\ va \in Int /\ end_va \in Int /\ secno \in Int

(***************************************************************************)
(* Where the loader stands.  The sector it reads next is the one that      *)
(* belongs at va: the distance of file and memory is that of the segment.  *)
(***************************************************************************)
ReadInv ==
    LET s == segs[ph] IN
    /\ end_va = s.va + s.memsz
    /\ va >= s.va - (s.offset % SECT_SIZE)
    /\ (secno - 1) * SECT_SIZE = va - (s.va - s.offset)
    /\ LoadedTo(s, va)
    /\ \A j \in 1 .. ph - 1 : Loaded(segs[j])

LoadInv ==
    /\ pc \in {"probe", "header"} => ph = 0
    /\ Booting /\ ~bootable => ph = 0 /\ mem = [c \in Cells |-> Junk]
    /\ \A j \in 1 .. ph - 1 : Before(segs[j], segs[ph])
    /\ pc = "sectors" /\ ph > 0 => ReadInv
    /\ InKernel => ph = Len(segs)
    /\ pc = "head" => \A j \in 1 .. Len(segs) : Loaded(segs[j])

(***************************************************************************)
(* The BIOS's map, and how far page_init() has come with it.               *)
(***************************************************************************)
MapInv ==
    /\ e820map \in Seq(Entries)
    /\ Booting \/ InKernel => nr_map = Len(e820map)
    /\ \A i, j \in DOMAIN e820map :
          i # j => Cover(e820map[i]) \cap Cover(e820map[j]) = {}
    /\ index \in Nat
    /\ Booting \/ InKernel => index <= Len(e820map)
    /\ Booting \/ pc \in {"head", "pages"} => index = 0 /\ regions = <<>>
    /\ pc = "done" => index = Len(e820map)

Run(i) == regions[i].base .. regions[i].base + regions[i].n - 1

(* The usable pages that lie in entry e. *)
Inside(e) == {p \in Usable : e.addr <= p * PG_SIZE /\ (p + 1) * PG_SIZE <= Limit(e)}

CountInv ==
    /\ npage \in Nat /\ valid_mem \in 0 .. W - 1
    /\ \A e \in Ram : Limit(e) \div PG_SIZE <= npage

(***************************************************************************)
(* The regions registered so far are the usable pages of the RAM entries   *)
(* that were visited, a region for an entry.                               *)
(***************************************************************************)
RegionInv ==
    /\ regions \in Seq([base : Nat, n : Nat])
    /\ \A i \in DOMAIN regions :
          /\ Run(i) # {}
          /\ \E j \in 1 .. index : e820map[j].ram /\ Run(i) = Inside(e820map[j])
    /\ \A i, j \in DOMAIN regions : i # j => Run(i) \cap Run(j) = {}
    /\ \A j \in 1 .. index :
          e820map[j].ram /\ Inside(e820map[j]) # {} =>
              \E i \in DOMAIN regions : Run(i) = Inside(e820map[j])

Below == \A e \in Ram : Limit(e) < W

IInv ==
    /\ TypeInv
    /\ LoadInv
    /\ KernelIntact
    /\ MapInv
    /\ pc \in {"regions", "done"} /\ Below => CountInv
    /\ pc \in {"regions", "done"} /\ Handled => RegionInv

-----------------------------------------------------------------------------
(***************************************************************************)
(* Quotient and remainder.                                                 *)
(***************************************************************************)
LEMMA DivMod ==
    ASSUME NEW a \in Int, NEW b \in Nat \ {0}
    PROVE  /\ a \div b \in Int /\ a % b \in 0 .. b - 1
           /\ a = b * (a \div b) + (a % b)
OBVIOUS

(***************************************************************************)
(* The quotient is the greatest number of times b fits in a.               *)
(***************************************************************************)
LEMMA DivLeast ==
    ASSUME NEW a \in Int, NEW b \in Nat \ {0}, NEW q \in Int
    PROVE  q <= a \div b <=> b * q <= a
<1>1. PICK d \in Int, r \in 0 .. b - 1 : d = a \div b /\ a = b * d + r
  BY DivMod
<1>2. ASSUME q <= d PROVE b * q <= a
  <2>1. b * q <= b * d
    BY <1>2
  <2> QED
    BY <1>1, <2>1
<1>3. ASSUME q > d PROVE b * q > a
  <2>1. b * (d + 1) <= b * q
    BY <1>3
  <2>2. b * (d + 1) = b * d + b
    OBVIOUS
  <2> QED
    BY <1>1, <2>1, <2>2
<1> QED
  BY <1>1, <1>2, <1>3

(***************************************************************************)
(* A number below w is its own remainder.                                  *)
(***************************************************************************)
LEMMA ModSmall ==
    ASSUME NEW w \in Nat \ {0}, NEW a \in 0 .. w - 1
    PROVE  a % w = a
OBVIOUS

(***************************************************************************)
(* The remainder for a divisor, against that for a multiple of it.         *)
(***************************************************************************)
LEMMA Remainders ==
    ASSUME NEW s \in Nat \ {0}, NEW k \in Int, NEW d \in Int, NEW e \in Int,
           NEW r \in Nat, NEW t \in 0 .. s - 1,
           (s * k) * d + r = s * e + t
    PROVE  t <= r
<1>1. SUFFICES ASSUME t > r PROVE FALSE
  OBVIOUS
<1>2. PICK n \in Int : n = k * d
  OBVIOUS
<1>3. (s * k) * d = s * n
  BY <1>2
<1>4. s * n = s * e + (t - r)
  BY <1>3
<1>5. PICK m \in Int : m = n - e
  OBVIOUS
<1>6. s * m = s * n - s * e
  BY <1>5
<1>7. s * m = t - r /\ t - r > 0 /\ t - r < s
  BY <1>1, <1>4, <1>6
<1>8. CASE m <= 0
  <2>1. s * m <= 0
    BY <1>8
  <2> QED
    BY <1>7, <2>1
<1>9. CASE m >= 1
  <2>1. s * m >= s
    BY <1>9
  <2> QED
    BY <1>7, <2>1
<1> QED
  BY <1>8, <1>9

(***************************************************************************)
(* If sectors divide pages, the offset in a sector is at most the offset   *)
(* in a page.                                                              *)
(***************************************************************************)
LEMMA ModOfMultiple ==
    ASSUME NEW s \in Nat \ {0}, NEW p \in Nat \ {0}, NEW a \in Nat
    PROVE  p % s = 0 => a % s <= a % p
<1>1. /\ p \div s \in Int /\ p % s \in Int
      /\ p = s * (p \div s) + (p % s)
  BY DivMod
<1>2. a \div p \in Int /\ a % p \in 0 .. p - 1 /\ a = p * (a \div p) + (a % p)
  BY DivMod
<1>3. a \div s \in Int /\ a % s \in 0 .. s - 1 /\ a = s * (a \div s) + (a % s)
  BY DivMod
<1>4. PICK k \in Int : k = p \div s
  BY <1>1
<1>5. PICK d \in Int, r \in Nat : d = a \div p /\ r = a % p
  BY <1>2
<1>6. PICK e \in Int, t \in 0 .. s - 1 : e = a \div s /\ t = a % s
  BY <1>3
<1>7. HAVE p % s = 0
<1>8. p = s * k
  BY <1>1, <1>4, <1>7
<1>9. p * d + r = s * e + t
  BY <1>2, <1>3, <1>5, <1>6
<1>10. (s * k) * d + r = s * e + t
  BY <1>8, <1>9
<1>11. t <= r
  BY <1>10, Remainders
<1> QED
  BY <1>5, <1>6, <1>11

(***************************************************************************)
(* Multiples of b divide without remainder.                                *)
(***************************************************************************)
LEMMA DivExact ==
    ASSUME NEW b \in Nat \ {0}, NEW q \in Int
    PROVE  (b * q) \div b = q
<1>1. PICK a \in Int : a = b * q
  OBVIOUS
<1>2. PICK d \in Int : d = a \div b
  BY DivMod
<1>3. q <= d
  BY <1>1, <1>2, DivLeast
<1>4. d <= q
  <2>1. b * d <= b * q
    BY <1>1, <1>2, DivLeast
  <2>2. ASSUME d > q PROVE FALSE
    <3>1. b * d >= b * (q + 1)
      BY <2>2
    <3>2. b * (q + 1) = b * q + b
      OBVIOUS
    <3> QED
      BY <2>1, <3>1, <3>2
  <2> QED
    BY <2>2
<1> QED
  BY <1>1, <1>2, <1>3, <1>4

(***************************************************************************)
(* The pages from the first boundary at or above a to the last at or below *)
(* l are those that lie in the interval.                                   *)
(***************************************************************************)
LEMMA PageRange ==
    ASSUME NEW b \in Nat \ {0}, NEW a \in Nat, NEW l \in Nat, NEW p \in Int
    PROVE  p \in ((a + b - 1) \div b) .. ((l \div b) - 1)
              <=> a <= p * b /\ (p + 1) * b <= l
<1>1. PICK f \in Int : f = (a + b - 1) \div b
  <2>1. a + b - 1 \in Int
    OBVIOUS
  <2> QED
    BY <2>1, DivMod
<1>2. PICK g \in Int : g = l \div b
  BY DivMod
<1>3. b * (p + 1) = b * p + b /\ (p + 1) * b = b * p + b /\ p * b = b * p
  OBVIOUS
<1>4. PICK m \in Int : m = b * p
  OBVIOUS
<1>5. p + 1 <= g <=> m + b <= l
  BY <1>2, <1>3, <1>4, DivLeast
<1>6. p + 1 <= f <=> m + b <= a + b - 1
  <2>1. a + b - 1 \in Int /\ p + 1 \in Int
    OBVIOUS
  <2>2. p + 1 <= (a + b - 1) \div b <=> b * (p + 1) <= a + b - 1
    BY <2>1, DivLeast
  <2> QED
    BY <1>1, <1>3, <1>4, <2>2
<1>7. p \in f .. g - 1 <=> f <= p /\ p + 1 <= g
  OBVIOUS
<1>8. f <= p <=> a <= m
  BY <1>6
<1> QED
  BY <1>1, <1>2, <1>3, <1>4, <1>5, <1>7, <1>8

(***************************************************************************)
(* Below the 32-bit limit the rounding macros do what their names say.     *)
(***************************************************************************)
LEMMA RoundDown ==
    ASSUME NEW a \in 0 .. W - 1
    PROVE  ROUND_DOWN(a) = PG_SIZE * (a \div PG_SIZE)
<1>1. PG_SIZE \in Nat \ {0} /\ W \in Nat \ {0} /\ a \in Int
  BY BootAssumption
<1>2. a % W = a
  BY <1>1, ModSmall
<1>3. ROUND_DOWN(a) = a - (a % PG_SIZE)
  BY <1>2 DEF ROUND_DOWN
<1>4. PICK q \in Int, r \in Int : /\ q = a \div PG_SIZE /\ r = a % PG_SIZE
                                 /\ a = PG_SIZE * q + r
  BY <1>1, DivMod
<1>5. PICK m \in Int : m = PG_SIZE * q
  BY <1>1
<1>6. a - r = m
  <2>1. PG_SIZE * q + r = a
    BY <1>4
  <2>2. m + r = a
    BY <1>5, <2>1
  <2> QED
    BY <2>2
<1> QED
  BY <1>3, <1>4, <1>5, <1>6

(***************************************************************************)
(* Rounding up, where a page more is still below the limit.                *)
(***************************************************************************)
LEMMA RoundUp ==
    ASSUME NEW a \in Nat, a + PG_SIZE <= W
    PROVE  ROUND_UP(a) = PG_SIZE * ((a + PG_SIZE - 1) \div PG_SIZE)
<1>1. PG_SIZE \in Nat \ {0} /\ W \in Nat \ {0}
  BY BootAssumption
<1>2. PICK x \in 0 .. W - 1 : x = a + PG_SIZE - 1
  BY <1>1
<1>3. a % W = a
  <2>1. a \in 0 .. W - 1
    BY <1>1
  <2> QED
    BY <1>1, <2>1, ModSmall
<1>4. x % W = x
  BY <1>1, ModSmall
<1>5. ROUND_UP(a) = ROUND_DOWN(x)
  BY <1>2, <1>3, <1>4 DEF ROUND_UP
<1> QED
  BY <1>2, <1>5, RoundDown

(***************************************************************************)
(* The region Register computes from a clipped address a and a limit l     *)
(* that have a page between them: no 32-bit number wraps, and its pages    *)
(* are those between a and l.                                              *)
(***************************************************************************)
LEMMA RegionPages ==
    ASSUME NEW a \in Nat, NEW l \in Nat, l < W, NEW p \in Nat,
           a <= p * PG_SIZE, (p + 1) * PG_SIZE <= l
    PROVE  LET base == PAG_NUM(ROUND_UP(a))
               n    == PAG_NUM((ROUND_DOWN(l) - ROUND_UP(a)) % (W * W)) % W
           IN /\ base \in Nat /\ n \in Nat
              /\ \A q \in Int : q \in base .. base + n - 1 <=>
                                a <= q * PG_SIZE /\ (q + 1) * PG_SIZE <= l
<1>1. PG_SIZE \in Nat \ {0} /\ W \in Nat \ {0}
  BY BootAssumption
<1>2. PICK m \in Int : m = p * PG_SIZE
  BY <1>1
<1>3. (p + 1) * PG_SIZE = m + PG_SIZE
  BY <1>1, <1>2
<1>4. a <= m /\ m + PG_SIZE <= l /\ a + PG_SIZE <= W
  BY <1>1, <1>2, <1>3
<1>5. PICK x \in Nat : x = a + PG_SIZE - 1
  BY <1>1
<1>6. PICK f \in Int : f = x \div PG_SIZE
  BY <1>1, DivMod
<1>7. PICK g \in Int : g = l \div PG_SIZE
  BY <1>1, DivMod
<1>8. f <= p /\ p + 1 <= g
  <2>1. p \in f .. g - 1
    BY <1>1, <1>5, <1>6, <1>7, PageRange
  <2> QED
    BY <2>1
<1>9. f >= 0
  <2>1. 0 <= x \div PG_SIZE <=> PG_SIZE * 0 <= x
    BY <1>1, DivLeast
  <2>2. PG_SIZE * 0 = 0
    BY <1>1
  <2> QED
    BY <1>6, <2>1, <2>2
<1>10. g < W
  <2>1. PG_SIZE * g <= l
    BY <1>1, <1>7, DivLeast
  <2>2. g >= 0
    BY <1>8, <1>9
  <2>3. g <= PG_SIZE * g
    BY <1>1, <2>2
  <2> QED
    BY <1>1, <2>1, <2>3
<1>11. ROUND_UP(a) = PG_SIZE * f
  BY <1>4, <1>5, <1>6, RoundUp
<1>12. ROUND_DOWN(l) = PG_SIZE * g
  <2>1. l \in 0 .. W - 1
    BY <1>1
  <2> QED
    BY <1>7, <2>1, RoundDown
<1>13. PICK n \in Nat : n = g - f
  BY <1>8
<1>14. PG_SIZE * g - PG_SIZE * f = PG_SIZE * n
  BY <1>1, <1>13
<1>15. PG_SIZE * n \in 0 .. (W * W) - 1 /\ W * W \in Nat \ {0}
  <2>1. PG_SIZE * n <= PG_SIZE * g
    BY <1>1, <1>9, <1>13
  <2>2. PG_SIZE * g <= l
    BY <1>1, <1>7, DivLeast
  <2>3. PG_SIZE * n >= 0
    BY <1>1
  <2>4. W * W >= W
    BY <1>1
  <2>5. PG_SIZE * n \in Int /\ PG_SIZE * g \in Int /\ W * W \in Int
    BY <1>1
  <2> QED
    BY <1>1, <2>1, <2>2, <2>3, <2>4, <2>5
<1>16. (PG_SIZE * n) % (W * W) = PG_SIZE * n
  <2>1. PICK y \in Int, z \in Int : y = PG_SIZE * n /\ z = W * W
    BY <1>1
  <2>2. z \in Nat \ {0} /\ y \in 0 .. z - 1
    BY <1>15, <2>1
  <2>3. y % z = y
    BY <2>2, ModSmall
  <2> QED
    BY <2>1, <2>3
<1>17. PAG_NUM(ROUND_UP(a)) = f
  BY <1>1, <1>11, DivExact DEF PAG_NUM
<1>18. PAG_NUM((ROUND_DOWN(l) - ROUND_UP(a)) % (W * W)) = n
  <2>1. (PG_SIZE * n) \div PG_SIZE = n
    BY <1>1, DivExact
  <2> QED
    BY <1>11, <1>12, <1>14, <1>16, <2>1 DEF PAG_NUM
<1>19. n % W = n
  <2>1. n \in 0 .. W - 1
    BY <1>1, <1>9, <1>10, <1>13
  <2> QED
    BY <1>1, <2>1, ModSmall
<1>20. \A q \in Int : q \in f .. g - 1 <=> a <= q * PG_SIZE /\ (q + 1) * PG_SIZE <= l
  BY <1>1, <1>5, <1>6, <1>7, PageRange
<1>21. f + n - 1 = g - 1
  BY <1>13
<1>22. f \in Nat
  BY <1>9
<1> QED
  BY <1>17, <1>18, <1>19, <1>20, <1>21, <1>22

-----------------------------------------------------------------------------
Segment == [va : Nat, offset : Nat, filesz : Nat, memsz : Nat]

(***************************************************************************)
(* The linker's promise in the words of the invariant.                     *)
(***************************************************************************)
LEMMA Linker ==
    ASSUME NEW g \in Layouts
    PROVE  /\ Len(g) \in Nat \ {0}
           /\ \A i \in 1 .. Len(g) :
                 /\ g[i] \in Segment
                 /\ g[i].va % PG_SIZE = g[i].offset % PG_SIZE
                 /\ g[i].memsz >= g[i].filesz
                 /\ g[i].memsz > g[i].filesz => i = Len(g)
                 /\ g[i].va + g[i].memsz <= MemSize
                 /\ g[i].va + g[i].memsz + PG_SIZE <= W
           /\ \A i \in 1 .. Len(g) - 1 : Before(g[i], g[i + 1])
<1>1. /\ g \in Seq(Segment) /\ g # <<>>
      /\ \A i \in DOMAIN g :
            /\ g[i].va % PG_SIZE = g[i].offset % PG_SIZE
            /\ g[i].memsz >= g[i].filesz
            /\ g[i].memsz > g[i].filesz => i = Len(g)
            /\ g[i].va + g[i].memsz <= MemSize
            /\ g[i].va + g[i].memsz + PG_SIZE <= W
  BY LinkerAssumption DEF Segment
<1>2. \A i \in 1 .. Len(g) - 1 : Before(g[i], g[i + 1])
  BY LinkerAssumption DEF Before
<1>3. DOMAIN g = 1 .. Len(g) /\ Len(g) \in Nat /\ Len(g) # 0
  BY <1>1
<1>4. \A i \in 1 .. Len(g) : g[i] \in Segment
  BY <1>1
<1> QED
  BY <1>1, <1>2, <1>3, <1>4

(***************************************************************************)
(* Sharing a page with an earlier segment passes from segment to segment.  *)
(***************************************************************************)
LEMMA BeforeTransitive ==
    ASSUME NEW s \in Segment, NEW t \in Segment, NEW u \in Segment,
           Before(s, t), Before(t, u)
    PROVE  Before(s, u)
<1>1. PICK a \in Nat, b \in Nat, c \in Nat : a = s.va /\ b = s.offset /\ c = s.memsz
  BY DEF Segment
<1>2. PICK d \in Nat, e \in Nat, f \in Nat : d = t.va /\ e = t.offset /\ f = t.memsz
  BY DEF Segment
<1>3. PICK x \in Nat, y \in Nat : x = u.va /\ y = u.offset
  BY DEF Segment
<1>4. PG_SIZE \in Nat \ {0}
  BY BootAssumption
<1>5. PICK p \in Int : p = (a + c - 1) \div PG_SIZE
  <2>1. a + c - 1 \in Int
    OBVIOUS
  <2> QED
    BY <1>4, <2>1, DivMod
<1>6. PICK q \in Int : q = (d + f - 1) \div PG_SIZE
  <2>1. d + f - 1 \in Int
    OBVIOUS
  <2> QED
    BY <1>4, <2>1, DivMod
<1>7. PICK m \in Int, n \in Int : m = d \div PG_SIZE /\ n = x \div PG_SIZE
  <2>1. d \in Int /\ x \in Int
    OBVIOUS
  <2>2. d \div PG_SIZE \in Int /\ x \div PG_SIZE \in Int
    BY <1>4, <2>1, DivMod, Zenon
  <2> QED
    BY <2>2
<1>8. a + c <= d /\ (d - e = a - b \/ m > p)
  BY <1>1, <1>2, <1>5, <1>7 DEF Before
<1>9. d + f <= x /\ (x - y = d - e \/ n > q)
  BY <1>2, <1>3, <1>6, <1>7 DEF Before
<1>10. m <= n
  <2>1. PG_SIZE * m <= d
    BY <1>4, <1>7, DivLeast
  <2>2. PG_SIZE * m \in Int
    BY <1>4
  <2>3. PG_SIZE * m <= x
    BY <1>9, <2>1, <2>2
  <2> QED
    BY <1>4, <1>7, <2>3, DivLeast
<1>11. p <= q
  <2>1. PICK v \in Int, w \in Int : v = a + c - 1 /\ w = d + f - 1
    OBVIOUS
  <2>2. PG_SIZE * p <= v
    BY <1>4, <1>5, <2>1, DivLeast
  <2>3. PG_SIZE * p \in Int
    BY <1>4
  <2>4. PG_SIZE * p <= w
    BY <1>8, <2>1, <2>2, <2>3
  <2> QED
    BY <1>4, <1>6, <2>1, <2>4, DivLeast
<1>12. a + c <= x
  BY <1>8, <1>9
<1>13. x - y = a - b \/ n > p
  BY <1>8, <1>9, <1>10, <1>11
<1> QED
  BY <1>1, <1>3, <1>5, <1>7, <1>12, <1>13 DEF Before

(***************************************************************************)
(* Where the first sector of segment t reaches down into an earlier        *)
(* segment s, both come from the same stretch of the file.                 *)
(***************************************************************************)
LEMMA SameStretch ==
    ASSUME NEW s \in Segment, NEW t \in Segment, Before(s, t),
           t.va % PG_SIZE = t.offset % PG_SIZE,
           NEW c \in Int, c < s.va + s.memsz, c >= t.va - (t.offset % SECT_SIZE)
    PROVE  t.va - t.offset = s.va - s.offset
<1>1. PG_SIZE \in Nat \ {0} /\ SECT_SIZE \in Nat \ {0}
  BY BootAssumption
<1>a. PG_SIZE % SECT_SIZE = 0
  BY BootAssumption
<1>2. PICK x \in Nat, y \in Nat : x = t.va /\ y = t.offset
  BY DEF Segment
<1>b. x \in Int /\ y \in Int
  OBVIOUS
<1>3. PICK e \in Int : e = s.va + s.memsz - 1
  BY DEF Segment
<1>4. c <= e
  <2>1. PICK a \in Nat, b \in Nat : a = s.va /\ b = s.memsz
    BY DEF Segment
  <2>2. c < a + b /\ e = a + b - 1
    BY <1>3, <2>1
  <2> QED
    BY <2>2
<1>5. PICK r \in Int : r = y % SECT_SIZE
  <2>1. y % SECT_SIZE \in 0 .. SECT_SIZE - 1
    BY <1>1, <1>b, DivMod, Zenon
  <2> QED
    BY <2>1
<1>6. PICK q \in Int, k \in Int : /\ q = x \div PG_SIZE /\ k = x % PG_SIZE
                                 /\ x = PG_SIZE * q + k
  <2>1. /\ x \div PG_SIZE \in Int /\ x % PG_SIZE \in 0 .. PG_SIZE - 1
        /\ x = PG_SIZE * (x \div PG_SIZE) + (x % PG_SIZE)
    BY <1>1, <1>b, DivMod, Zenon
  <2> QED
    BY <2>1
<1>7. r <= k
  <2>1. y % SECT_SIZE <= y % PG_SIZE
    BY <1>1, <1>a, ModOfMultiple
  <2>2. k = y % PG_SIZE
    BY <1>2, <1>6
  <2> QED
    BY <1>5, <2>1, <2>2
<1>8. PG_SIZE * q <= e
  <2>1. PICK m \in Int : m = PG_SIZE * q
    BY <1>1
  <2>2. x = PG_SIZE * q + k
    BY <1>6
  <2>3. x = m + k
    BY <2>1, <2>2
  <2>4. c >= x - r
    BY <1>2, <1>5
  <2>5. m <= e
    BY <1>4, <1>7, <2>3, <2>4
  <2> QED
    BY <2>1, <2>5
<1>9. q <= e \div PG_SIZE
  BY <1>1, <1>8, DivLeast
<1>10. PICK f \in Int : f = e \div PG_SIZE
  BY <1>1, DivMod
<1>11. ~(q > f)
  BY <1>9, <1>10
<1>12. x \div PG_SIZE = q /\ (s.va + s.memsz - 1) \div PG_SIZE = f
  BY <1>3, <1>6, <1>10
<1> QED
  BY <1>2, <1>11, <1>12 DEF Before

-----------------------------------------------------------------------------
(***************************************************************************)
(* Before anything is read.                                                *)
(***************************************************************************)
LEMMA InitInv == Init => IInv
<1>1. SUFFICES ASSUME Init PROVE IInv
  OBVIOUS
<1>2. TypeInv
  <2>1. Len(segs) \in Nat \ {0}
    BY <1>1, Linker DEF Init
  <2>2. mem \in [Cells -> Int]
    BY <1>1 DEF Init, Junk
  <2> QED
    BY <1>1, <2>1, <2>2 DEF Init, TypeInv
<1>3. LoadInv
  BY <1>1 DEF Init, LoadInv, Booting, InKernel
<1>4. MapInv
  BY <1>1 DEF Init, MapInv, Booting, InKernel
<1> QED
  BY <1>1, <1>2, <1>3, <1>4 DEF Init, IInv, KernelIntact

(***************************************************************************)
(* The BIOS's entries keep apart.                                          *)
(***************************************************************************)
LEMMA ProbeInv ==
    ASSUME IInv, NEW e \in Entries, NEW last \in BOOLEAN, Probe(e, last)
    PROVE  IInv'
<1>1. /\ pc = "probe" /\ pc' \in {"probe", "header"}
      /\ e820map' = Append(e820map, e) /\ nr_map' = nr_map + 1
      /\ UNCHANGED <<segs, bootable, mem, ph, va, end_va, secno, index, regions>>
      /\ \A i \in DOMAIN e820map : Cover(e) \cap Cover(e820map[i]) = {}
  BY DEF Probe, loader, pageinit
<1>2. TypeInv' /\ LoadInv'
  <2>1. TypeInv'
    BY <1>1 DEF IInv, TypeInv
  <2>2. LoadInv'
    BY <1>1 DEF IInv, LoadInv, Booting, InKernel
  <2> QED
    BY <2>1, <2>2
<1>3. MapInv'
  <2>1. MapInv /\ nr_map = Len(e820map) /\ index = 0 /\ regions = << >>
    BY <1>1 DEF IInv, MapInv, Booting
  <2>2. e820map \in Seq(Entries)
    BY <2>1 DEF MapInv
  <2>3. /\ e820map' \in Seq(Entries) /\ Len(e820map') = Len(e820map) + 1
        /\ \A i \in 1 .. Len(e820map) : e820map'[i] = e820map[i]
        /\ e820map'[Len(e820map) + 1] = e
        /\ DOMAIN e820map = 1 .. Len(e820map)
        /\ DOMAIN e820map' = 1 .. Len(e820map) + 1
    BY <1>1, <2>2
  <2>4. ASSUME NEW i \in DOMAIN e820map', NEW j \in DOMAIN e820map', i # j
        PROVE  Cover(e820map'[i]) \cap Cover(e820map'[j]) = {}
    <3>1. CASE i \in 1 .. Len(e820map) /\ j \in 1 .. Len(e820map)
      BY <2>1, <2>3, <2>4, <3>1 DEF MapInv
    <3>2. CASE i = Len(e820map) + 1 /\ j \in 1 .. Len(e820map)
      BY <1>1, <2>3, <3>2
    <3>3. CASE j = Len(e820map) + 1 /\ i \in 1 .. Len(e820map)
      BY <1>1, <2>3, <3>3
    <3> QED
      BY <2>2, <2>3, <2>4, <3>1, <3>2, <3>3
  <2>5. nr_map' = Len(e820map') /\ index' = 0 /\ index' <= Len(e820map')
    BY <1>1, <2>1, <2>2, <2>3
  <2> QED
    BY <1>1, <2>1, <2>3, <2>4, <2>5 DEF MapInv, Booting
<1> QED
  BY <1>1, <1>2, <1>3 DEF IInv, KernelIntact

(***************************************************************************)
(* The steps that only move on, or give up.                                *)
(***************************************************************************)
LEMMA MoveInv ==
    ASSUME IInv, ProbeError \/ ReadHeader \/ BadMagic
    PROVE  IInv'
<1>1. /\ UNCHANGED <<segs, bootable, mem, ph, e820map, index, regions>>
      /\ \/ pc' \in {"lost", "spin"} /\ UNCHANGED <<va, end_va, secno>>
         \/ /\ pc = "header" /\ pc' = "sectors" /\ UNCHANGED nr_map
            /\ readseg(KERNEL_HEADER, SECT_SIZE * HEADER_SECTS, 0)
  BY DEF ProbeError, ReadHeader, BadMagic, loader, pageinit
<1>2. TypeInv'
  <2>1. TypeInv
    BY DEF IInv
  <2>2. CASE UNCHANGED <<va, end_va, secno>>
    BY <1>1, <2>1, <2>2 DEF TypeInv
  <2>3. CASE readseg(KERNEL_HEADER, SECT_SIZE * HEADER_SECTS, 0)
    <3>1. SECT_SIZE \in Nat \ {0} /\ HEADER_SECTS \in Nat /\ KERNEL_HEADER \in Int
      BY BootAssumption
    <3>2. 0 % SECT_SIZE \in Int /\ 0 \div SECT_SIZE \in Int
      BY <3>1, DivMod
    <3>3. va' \in Int /\ end_va' \in Int /\ secno' \in Int
      BY <2>3, <3>1, <3>2 DEF readseg
    <3> QED
      BY <1>1, <2>1, <3>3 DEF TypeInv
  <2> QED
    BY <1>1, <2>2, <2>3
<1>3. LoadInv'
  BY <1>1 DEF IInv, LoadInv, Booting, InKernel
<1>4. MapInv'
  BY <1>1 DEF IInv, MapInv, Booting, InKernel
<1> QED
  BY <1>1, <1>2, <1>3, <1>4 DEF IInv, KernelIntact

-----------------------------------------------------------------------------
(***************************************************************************)
(* What a sector brings to a cell of a segment, of the one being read or   *)
(* of an earlier one, is what belongs there.                               *)
(***************************************************************************)
LEMMA SectorFits ==
    ASSUME IInv, pc = "sectors", ph > 0, NEW j \in 1 .. ph,
           NEW k \in 0 .. segs[j].filesz - 1,
           segs[j].va + k \in va .. va + SECT_SIZE - 1
    PROVE  (secno - 1) * SECT_SIZE + (segs[j].va + k) - va = segs[j].offset + k
<1>1. /\ segs \in Layouts /\ ph \in 0 .. Len(segs) /\ va \in Int /\ secno \in Int
      /\ ReadInv /\ Len(segs) \in Nat
  BY Linker DEF IInv, TypeInv, LoadInv
<1>2. segs[j] \in Segment /\ segs[ph] \in Segment /\ segs[j].memsz >= segs[j].filesz
  BY <1>1, Linker
<1>3. PICK a \in Nat, b \in Nat : a = segs[j].va /\ b = segs[j].offset
  BY <1>2 DEF Segment
<1>4. PICK x \in Nat, y \in Nat : x = segs[ph].va /\ y = segs[ph].offset
  BY <1>2 DEF Segment
<1>5. SECT_SIZE \in Nat \ {0}
  BY BootAssumption
<1>6. PICK m \in Int : m = (secno - 1) * SECT_SIZE
  BY <1>1, <1>5
<1>7. m = va - (x - y)
  BY <1>1, <1>4, <1>6 DEF ReadInv
<1>8. x - y = a - b
  <2>1. CASE j = ph
    BY <1>3, <1>4, <2>1
  <2>2. CASE j # ph
    <3>1. Before(segs[j], segs[ph])
      <4>1. j \in 1 .. ph - 1
        BY <1>1, <2>2
      <4> QED
        BY <4>1 DEF IInv, LoadInv
    <3>2. segs[ph].va % PG_SIZE = segs[ph].offset % PG_SIZE
      BY <1>1, Linker
    <3>3. PICK c \in Int : c = a + k
      OBVIOUS
    <3>4. c < segs[j].va + segs[j].memsz
      <4>1. PICK f \in Nat, g \in Nat : f = segs[j].filesz /\ g = segs[j].memsz
        BY <1>2 DEF Segment
      <4>2. k < f /\ f <= g
        BY <1>2, <4>1
      <4> QED
        BY <1>3, <3>3, <4>1, <4>2
    <3>5. c >= segs[ph].va - (segs[ph].offset % SECT_SIZE)
      <4>1. va >= segs[ph].va - (segs[ph].offset % SECT_SIZE)
        BY <1>1 DEF ReadInv
      <4>2. PICK r \in Int : r = segs[ph].offset % SECT_SIZE
        <5>1. y \in Int
          OBVIOUS
        <5>2. y % SECT_SIZE \in 0 .. SECT_SIZE - 1
          BY <1>5, <5>1, DivMod, Zenon
        <5> QED
          BY <1>4, <5>2
      <4>3. va >= x - r /\ c >= va
        BY <1>1, <1>3, <1>4, <3>3, <4>1, <4>2
      <4>4. c >= x - r
        BY <1>1, <4>3
      <4> QED
        BY <1>4, <4>2, <4>4
    <3>6. segs[ph].va - segs[ph].offset = segs[j].va - segs[j].offset
      BY <1>2, <3>1, <3>2, <3>4, <3>5, SameStretch
    <3> QED
      BY <1>3, <1>4, <3>6
  <2> QED
    BY <2>1, <2>2
<1>9. m + (a + k) - va = b + k
  BY <1>1, <1>7, <1>8
<1> QED
  BY <1>3, <1>6, <1>9

(***************************************************************************)
(* Reading a sector keeps what was loaded and loads a sector more.         *)
(***************************************************************************)
LEMMA ReadsectInv ==
    ASSUME IInv, readsect
    PROVE  IInv'
<1>1. /\ pc = "sectors" /\ va < end_va
      /\ mem' = [c \in Cells |->
                    IF c \notin va .. va + SECT_SIZE - 1 THEN mem[c]
                    ELSE IF bootable THEN FileCell((secno - 1) * SECT_SIZE + c - va)
                    ELSE Junk]
      /\ va' = va + SECT_SIZE /\ secno' = secno + 1
      /\ UNCHANGED <<pc, e820map, nr_map, segs, bootable, ph, end_va, index, regions>>
  BY DEF readsect, pageinit
<1>2. /\ segs \in Layouts /\ ph \in 0 .. Len(segs) /\ Len(segs) \in Nat
      /\ va \in Int /\ secno \in Int /\ end_va \in Int /\ mem \in [Cells -> Int]
      /\ bootable \in BOOLEAN
  BY Linker DEF IInv, TypeInv
<1>3. SECT_SIZE \in Nat \ {0} /\ MemSize \in Nat /\ FileSize \in Nat
  BY BootAssumption
<1>4. PICK m \in Int : m = (secno - 1) * SECT_SIZE
  BY <1>2, <1>3
<1>5. TypeInv'
  <2>1. \A c \in Cells : FileCell(m + c - va) \in Int
    BY <1>2, <1>3 DEF FileCell, Cells
  <2>2. mem' \in [Cells -> Int]
    BY <1>1, <1>2, <1>4, <2>1 DEF Junk
  <2>3. va' \in Int /\ secno' \in Int
    BY <1>1, <1>2, <1>3
  <2> QED
    BY <1>1, <1>2, <2>2, <2>3 DEF TypeInv
<1>6. LoadInv'
  <2>1. ASSUME ~bootable PROVE ph = 0 /\ mem' = [c \in Cells |-> Junk]
    <3>1. ph = 0 /\ mem = [c \in Cells |-> Junk]
      BY <1>1, <2>1 DEF IInv, LoadInv, Booting
    <3> QED
      BY <1>1, <2>1, <3>1
  <2>2. ASSUME ph > 0 PROVE ReadInv'
    <3>1. ReadInv /\ bootable
      BY <1>1, <2>1, <2>2 DEF IInv, LoadInv
    <3>2. ASSUME NEW j \in 1 .. ph, NEW k \in 0 .. segs[j].filesz - 1
          PROVE  LET c == segs[j].va + k IN
                 /\ c \in Cells
                 /\ c \in va .. va + SECT_SIZE - 1 => mem'[c] = FileCell(segs[j].offset + k)
                 /\ c \notin va .. va + SECT_SIZE - 1 => mem'[c] = mem[c]
      <4>1. PICK a \in Nat, f \in Nat, g \in Nat :
               a = segs[j].va /\ f = segs[j].filesz /\ g = segs[j].memsz
        <5>1. segs[j] \in Segment
          BY <1>2, Linker
        <5> QED
          BY <5>1 DEF Segment
      <4>2. f <= g /\ a + g <= MemSize
        BY <1>2, <4>1, Linker
      <4>3. k < f /\ k >= 0
        BY <4>1
      <4>4. a + k \in Cells
        BY <1>3, <4>2, <4>3 DEF Cells
      <4>5. a + k \notin va .. va + SECT_SIZE - 1 => mem'[a + k] = mem[a + k]
        BY <1>1, <4>4
      <4>6. ASSUME a + k \in va .. va + SECT_SIZE - 1
            PROVE  mem'[a + k] = FileCell(segs[j].offset + k)
        <5>1. (secno - 1) * SECT_SIZE + (segs[j].va + k) - va = segs[j].offset + k
          BY <1>1, <2>2, <4>1, <4>6, SectorFits
        <5>2. mem'[a + k] = FileCell((secno - 1) * SECT_SIZE + (a + k) - va)
          BY <1>1, <3>1, <4>4, <4>6
        <5> QED
          BY <4>1, <5>1, <5>2
      <4> QED
        BY <4>1, <4>4, <4>5, <4>6
    <3>3. \A j \in 1 .. ph - 1 : Loaded(segs[j])'
      <4>1. SUFFICES ASSUME NEW j \in 1 .. ph - 1, NEW k \in 0 .. segs[j].filesz - 1
                     PROVE  mem'[segs[j].va + k] = FileCell(segs[j].offset + k)
        BY <1>1 DEF Loaded
      <4>2. mem[segs[j].va + k] = FileCell(segs[j].offset + k)
        BY <3>1 DEF ReadInv, Loaded
      <4>3. j \in 1 .. ph
        BY <1>2
      <4> QED
        BY <3>2, <4>2, <4>3
    <3>4. LoadedTo(segs[ph], va)'
      <4>1. SUFFICES ASSUME NEW k \in 0 .. segs[ph].filesz - 1,
                            segs[ph].va + k < va + SECT_SIZE
                     PROVE  mem'[segs[ph].va + k] = FileCell(segs[ph].offset + k)
        BY <1>1 DEF LoadedTo
      <4>2. ph \in 1 .. ph
        BY <1>2, <2>2
      <4>3. CASE segs[ph].va + k < va
        <5>1. mem[segs[ph].va + k] = FileCell(segs[ph].offset + k)
          BY <3>1, <4>3 DEF ReadInv, LoadedTo
        <5> QED
          BY <3>2, <4>2, <5>1
      <4>4. CASE ~(segs[ph].va + k < va)
        <5>1. PICK c \in Int : c = segs[ph].va + k
          <6>1. segs[ph].va \in Nat
            BY <1>2, <4>2, Linker DEF Segment
          <6> QED
            BY <6>1
        <5>2. c \in va .. va + SECT_SIZE - 1
          BY <1>2, <1>3, <4>1, <4>4, <5>1
        <5> QED
          BY <3>2, <4>2, <5>1, <5>2
      <4> QED
        BY <4>3, <4>4
    <3>5. /\ va' >= segs[ph].va - (segs[ph].offset % SECT_SIZE)
          /\ (secno' - 1) * SECT_SIZE = va' - (segs[ph].va - segs[ph].offset)
      <4>1. PICK x \in Nat, y \in Nat : x = segs[ph].va /\ y = segs[ph].offset
        BY <1>2, <2>2, Linker DEF Segment
      <4>2. PICK r \in Int : r = segs[ph].offset % SECT_SIZE
        <5>1. y \in Int
          OBVIOUS
        <5>2. y % SECT_SIZE \in 0 .. SECT_SIZE - 1
          BY <1>3, <5>1, DivMod, Zenon
        <5> QED
          BY <4>1, <5>2
      <4>3. va >= x - r
        BY <3>1, <4>1, <4>2 DEF ReadInv
      <4>4. va' >= x - r
        BY <1>1, <1>2, <1>3, <4>3
      <4>5. m = va - (x - y)
        BY <1>4, <3>1, <4>1 DEF ReadInv
      <4>6. (secno' - 1) * SECT_SIZE = m + SECT_SIZE
        <5>1. secno' - 1 = (secno - 1) + 1
          BY <1>1, <1>2
        <5>2. ((secno - 1) + 1) * SECT_SIZE = (secno - 1) * SECT_SIZE + SECT_SIZE
          BY <1>2, <1>3
        <5> QED
          BY <1>4, <5>1, <5>2
      <4>7. m + SECT_SIZE = va' - (x - y)
        BY <1>1, <1>2, <1>3, <4>5
      <4> QED
        BY <4>1, <4>2, <4>4, <4>6, <4>7
    <3>6. end_va' = segs[ph].va + segs[ph].memsz
      BY <1>1, <3>1 DEF ReadInv
    <3> QED
      BY <1>1, <3>3, <3>4, <3>5, <3>6 DEF ReadInv
  <2> QED
    BY <1>1, <2>1, <2>2 DEF IInv, LoadInv, Booting, InKernel
<1>7. MapInv'
  BY <1>1 DEF IInv, MapInv, Booting, InKernel
<1> QED
  BY <1>1, <1>5, <1>6, <1>7 DEF IInv, KernelIntact

(***************************************************************************)
(* The loop goes on to the next segment: a kernel is on the disk, and the  *)
(* segment read last is complete.                                          *)
(***************************************************************************)
LEMMA SegmentComplete ==
    ASSUME IInv, pc = "sectors", va >= end_va, NEW j \in 1 .. ph
    PROVE  Loaded(segs[j])
<1>1. /\ segs \in Layouts /\ ph \in 0 .. Len(segs) /\ Len(segs) \in Nat
      /\ va \in Int /\ end_va \in Int
  BY Linker DEF IInv, TypeInv
<1>2. ph > 0
  BY <1>1
<1>3. ReadInv
  BY <1>2 DEF IInv, LoadInv
<1>4. CASE j # ph
  <2>1. j \in 1 .. ph - 1
    BY <1>1, <1>4
  <2> QED
    BY <1>3, <2>1 DEF ReadInv
<1>5. CASE j = ph
  <2>1. ASSUME NEW k \in 0 .. segs[ph].filesz - 1 PROVE segs[ph].va + k < va
    <3>1. segs[ph] \in Segment /\ segs[ph].memsz >= segs[ph].filesz
      BY <1>1, <1>2, Linker
    <3>2. PICK a \in Nat, f \in Nat, g \in Nat :
             a = segs[ph].va /\ f = segs[ph].filesz /\ g = segs[ph].memsz
      BY <3>1 DEF Segment
    <3>3. g >= f /\ k < f /\ k \in Nat /\ end_va = a + g
      BY <1>3, <3>1, <3>2 DEF ReadInv
    <3>4. a + k < va
      BY <1>1, <3>3
    <3> QED
      BY <3>2, <3>4
  <2>2. LoadedTo(segs[ph], va)
    BY <1>3 DEF ReadInv
  <2> QED
    BY <1>5, <2>1, <2>2 DEF Loaded, LoadedTo
<1> QED
  BY <1>4, <1>5

(***************************************************************************)
(* readseg() for the next program header.                                  *)
(***************************************************************************)
LEMMA ReadSegmentInv ==
    ASSUME IInv, ReadSegment
    PROVE  IInv'
<1> DEFINE s == segs[ph + 1]
<1>1. /\ pc = "sectors" /\ va >= end_va
      /\ ph = 0 => mem[KERNEL_HEADER] = FileCell(0)
      /\ ph < Len(segs) /\ ph' = ph + 1
      /\ readseg(s.va, s.memsz, s.offset)
      /\ UNCHANGED <<pc, e820map, nr_map, segs, bootable, mem, index, regions>>
  BY DEF ReadSegment, pageinit
<1>2. /\ segs \in Layouts /\ ph \in 0 .. Len(segs) /\ Len(segs) \in Nat
      /\ bootable \in BOOLEAN /\ mem \in [Cells -> Int]
  BY Linker DEF IInv, TypeInv
<1>3. SECT_SIZE \in Nat \ {0} /\ FileSize \in Nat \ {0} /\ KERNEL_HEADER \in Cells
  BY BootAssumption DEF Cells
<1>4. ph + 1 \in 1 .. Len(segs) /\ ph' \in 1 .. Len(segs)
  BY <1>1, <1>2
<1>5. bootable
  <2>1. ASSUME ~bootable PROVE FALSE
    <3>1. ph = 0 /\ mem = [c \in Cells |-> Junk]
      BY <1>1, <2>1 DEF IInv, LoadInv, Booting
    <3>2. mem[KERNEL_HEADER] = -1
      BY <1>3, <3>1 DEF Junk
    <3>3. FileCell(0) = 1
      BY <1>3 DEF FileCell
    <3> QED
      BY <1>1, <3>1, <3>2, <3>3
  <2> QED
    BY <2>1
<1>6. s \in Segment
  BY <1>2, <1>4, Linker
<1>7. PICK x \in Nat, y \in Nat, g \in Nat : x = s.va /\ y = s.offset /\ g = s.memsz
  BY <1>6 DEF Segment
<1>8. PICK r \in Int, q \in Int : /\ r = y % SECT_SIZE /\ q = y \div SECT_SIZE
                                 /\ y = SECT_SIZE * q + r
  <2>1. y \in Int
    OBVIOUS
  <2>2. /\ y \div SECT_SIZE \in Int /\ y % SECT_SIZE \in 0 .. SECT_SIZE - 1
        /\ y = SECT_SIZE * (y \div SECT_SIZE) + (y % SECT_SIZE)
    BY <1>3, <2>1, DivMod, Zenon
  <2> QED
    BY <2>2
<1>9. end_va' = x + g /\ va' = x - r /\ secno' = q + 1
  BY <1>1, <1>7, <1>8 DEF readseg
<1>10. TypeInv'
  <2>1. end_va' \in Int /\ va' \in Int /\ secno' \in Int
    BY <1>9
  <2> QED
    BY <1>1, <1>2, <1>4, <2>1 DEF TypeInv
<1>11. (secno' - 1) * SECT_SIZE = va' - (x - y)
  <2>1. secno' - 1 = q
    BY <1>9
  <2>2. PICK m \in Int : m = SECT_SIZE * q
    BY <1>3
  <2>3. q * SECT_SIZE = m
    BY <1>3, <2>2
  <2>4. SECT_SIZE * q + r = y
    BY <1>8
  <2>5. m + r = y
    BY <2>2, <2>4
  <2>6. m = (x - r) - (x - y)
    BY <2>5
  <2> QED
    BY <1>9, <2>1, <2>3, <2>6
<1>12. \A j \in 1 .. ph : Loaded(segs[j])
  BY <1>1, SegmentComplete
<1>13. \A j \in 1 .. ph : Loaded(segs[j])'
  BY <1>1, <1>12 DEF Loaded
<1>14. \A j \in 1 .. ph : Before(segs[j], s)
  <2>1. SUFFICES ASSUME NEW j \in 1 .. ph PROVE Before(segs[j], s)
    OBVIOUS
  <2>2. ph \in 1 .. Len(segs) - 1 /\ j \in 1 .. Len(segs)
    BY <1>1, <1>2
  <2>3. Before(segs[ph], s)
    BY <1>2, <2>2, Linker
  <2>4. CASE j = ph
    BY <2>3, <2>4
  <2>5. CASE j # ph
    <3>1. j \in 1 .. ph - 1
      BY <1>2, <2>5
    <3>2. Before(segs[j], segs[ph])
      BY <3>1 DEF IInv, LoadInv
    <3>3. segs[j] \in Segment /\ segs[ph] \in Segment
      BY <1>2, <2>2, Linker
    <3> QED
      BY <1>6, <2>3, <3>2, <3>3, BeforeTransitive
  <2> QED
    BY <2>4, <2>5
<1>15. ASSUME NEW k \in 0 .. s.filesz - 1 PROVE ~(s.va + k < va')
  <2>1. r >= 0
    <3>1. y \in Int
      OBVIOUS
    <3>2. y % SECT_SIZE \in 0 .. SECT_SIZE - 1
      BY <1>3, <3>1, DivMod, Zenon
    <3> QED
      BY <1>3, <1>8, <3>2
  <2>2. s.filesz \in Nat
    BY <1>6 DEF Segment
  <2>3. ~(x + k < va')
    BY <1>9, <2>1, <2>2
  <2> QED
    BY <1>7, <2>3
<1>16. segs'[ph'] = s
  BY <1>1
<1>17. ReadInv'
  <2>1. LoadedTo(segs[ph], va)'
    BY <1>15, <1>16 DEF LoadedTo
  <2>2. /\ end_va' = s.va + s.memsz
        /\ va' >= s.va - (s.offset % SECT_SIZE)
        /\ (secno' - 1) * SECT_SIZE = va' - (s.va - s.offset)
    <3>1. va' >= x - r
      BY <1>9
    <3> QED
      BY <1>7, <1>8, <1>9, <1>11, <3>1
  <2>3. 1 .. ph' - 1 = 1 .. ph
    BY <1>1, <1>2
  <2>4. \A j \in 1 .. ph' - 1 : Loaded(segs[j])'
    BY <1>13, <2>3
  <2> HIDE DEF s
  <2> QED
    BY <1>1, <1>16, <2>1, <2>2, <2>4 DEF ReadInv
<1>18. LoadInv'
  <2>1. \A j \in 1 .. ph' - 1 : Before(segs'[j], segs'[ph'])
    <3>1. 1 .. ph' - 1 = 1 .. ph
      BY <1>1, <1>2
    <3> QED
      BY <1>1, <1>14, <1>16, <3>1
  <2>2. \A j \in 1 .. ph' - 1 : Before(segs[j], segs[ph])'
    BY <2>1 DEF Before
  <2> HIDE DEF s
  <2> QED
    BY <1>1, <1>5, <1>17, <2>2 DEF LoadInv, Booting, InKernel
<1>19. MapInv'
  BY <1>1 DEF IInv, MapInv, Booting, InKernel
<1> QED
  BY <1>1, <1>10, <1>18, <1>19 DEF IInv, KernelIntact

(***************************************************************************)
(* The jump to the kernel: all segments are loaded.                        *)
(***************************************************************************)
LEMMA JumpInv ==
    ASSUME IInv, JumpToEntry
    PROVE  IInv'
<1>1. /\ pc = "sectors" /\ va >= end_va /\ ph = Len(segs) /\ pc' = "head"
      /\ UNCHANGED <<e820map, nr_map, segs, bootable, mem, index, regions,
                     ph, va, end_va, secno>>
  BY DEF JumpToEntry, loader, pageinit
<1>2. TypeInv'
  BY <1>1 DEF IInv, TypeInv
<1>3. LoadInv'
  <2>1. \A j \in 1 .. Len(segs) : Loaded(segs[j])
    BY <1>1, SegmentComplete
  <2>2. \A j \in 1 .. Len(segs) : Loaded(segs[j])'
    BY <1>1, <2>1 DEF Loaded
  <2>3. \A j \in 1 .. ph - 1 : Before(segs[j], segs[ph])'
    BY <1>1 DEF IInv, LoadInv, Before
  <2> QED
    BY <1>1, <2>2, <2>3 DEF LoadInv, Booting, InKernel
<1>4. MapInv'
  BY <1>1 DEF IInv, MapInv, Booting, InKernel
<1> QED
  BY <1>1, <1>2, <1>3, <1>4 DEF IInv, KernelIntact

(***************************************************************************)
(* Every segment ends at or below the end of the kernel, and all but the   *)
(* last below its beginning.                                               *)
(***************************************************************************)
LEMMA SegmentsEnd ==
    ASSUME IInv, InKernel, NEW j \in 1 .. Len(segs)
    PROVE  /\ segs[j] \in Segment /\ Image \in Segment
           /\ segs[j].va + segs[j].memsz <= KERNEL_END
           /\ j # Len(segs) => segs[j].va + segs[j].memsz <= Image.va
           /\ j # Len(segs) => segs[j].memsz = segs[j].filesz
           /\ KERNEL_END \in Nat /\ KERNEL_END + PG_SIZE <= W
<1>1. segs \in Layouts /\ Len(segs) \in Nat \ {0} /\ ph = Len(segs)
  BY Linker DEF IInv, TypeInv, LoadInv
<1>2. Len(segs) \in 1 .. Len(segs)
  BY <1>1
<1>3. /\ segs[j] \in Segment /\ Image \in Segment
      /\ Image.va + Image.memsz + PG_SIZE <= W
      /\ segs[j].memsz >= segs[j].filesz
      /\ segs[j].memsz > segs[j].filesz => j = Len(segs)
  BY <1>1, <1>2, Linker DEF Image
<1>4. PICK a \in Nat, f \in Nat, g \in Nat :
         a = segs[j].va /\ f = segs[j].filesz /\ g = segs[j].memsz
  BY <1>3 DEF Segment
<1>5. PICK x \in Nat, m \in Nat : x = Image.va /\ m = Image.memsz
  BY <1>3 DEF Segment
<1>6. j # Len(segs) => a + g <= x
  <2>1. ASSUME j # Len(segs) PROVE Before(segs[j], segs[ph])
    <3>1. j \in 1 .. ph - 1
      BY <1>1, <2>1
    <3> QED
      BY <3>1 DEF IInv, LoadInv
  <2> QED
    BY <1>1, <1>4, <1>5, <2>1 DEF Before, Image
<1>7. j = Len(segs) => a + g = x + m
  BY <1>4, <1>5 DEF Image
<1>8. a + g <= x + m
  BY <1>6, <1>7
<1>9. j # Len(segs) => g = f
  BY <1>3, <1>4
<1>10. KERNEL_END = x + m
  BY <1>5 DEF KERNEL_END
<1>11. x + m + PG_SIZE <= W
  BY <1>3, <1>5
<1> QED
  BY <1>3, <1>4, <1>5, <1>6, <1>8, <1>9, <1>10, <1>11

(***************************************************************************)
(* head.S clears the bss and nothing else.                                 *)
(***************************************************************************)
LEMMA ClearBssInv ==
    ASSUME IInv, ClearBss
    PROVE  IInv'
<1>1. /\ pc = "head" /\ pc' = "pages"
      /\ mem' = [c \in Cells |->
                    IF c \in Image.va + Image.filesz .. KERNEL_END - 1 THEN Zero
                                                                       ELSE mem[c]]
      /\ UNCHANGED <<e820map, nr_map, segs, bootable, index, regions,
                     ph, va, end_va, secno>>
  BY DEF ClearBss, loader, pageinit
<1>2. segs \in Layouts /\ mem \in [Cells -> Int] /\ Len(segs) \in Nat \ {0}
  BY Linker DEF IInv, TypeInv
<1>3. TypeInv'
  <2>1. mem' \in [Cells -> Int]
    BY <1>1, <1>2 DEF Zero
  <2> QED
    BY <1>1, <2>1 DEF IInv, TypeInv
<1>4. LoadInv'
  BY <1>1 DEF IInv, LoadInv, Booting, InKernel, Before
<1>5. MapInv'
  BY <1>1 DEF IInv, MapInv, Booting, InKernel
<1>6. ASSUME NEW i \in 1 .. Len(segs), NEW k \in 0 .. segs[i].memsz - 1
      PROVE  mem'[segs[i].va + k] =
                IF k < segs[i].filesz THEN FileCell(segs[i].offset + k) ELSE Zero
  <2>1. /\ segs[i] \in Segment /\ Image \in Segment
        /\ i # Len(segs) => segs[i].va + segs[i].memsz <= Image.va
        /\ i # Len(segs) => segs[i].memsz = segs[i].filesz
    BY <1>1, SegmentsEnd DEF InKernel
  <2>2. PICK a \in Nat, f \in Nat, g \in Nat :
           a = segs[i].va /\ f = segs[i].filesz /\ g = segs[i].memsz
    BY <2>1 DEF Segment
  <2>3. PICK x \in Nat, h \in Nat, m \in Nat :
           x = Image.va /\ h = Image.filesz /\ m = Image.memsz
    BY <2>1 DEF Segment
  <2>4. KERNEL_END = x + m /\ a + g <= MemSize
    BY <1>2, <2>2, <2>3, Linker DEF KERNEL_END
  <2>5. k \in Nat /\ k < g
    BY <2>2
  <2>6. a + k \in Cells
    BY <2>4, <2>5, BootAssumption DEF Cells
  <2>7. mem'[a + k] = IF a + k \in x + h .. x + m - 1 THEN Zero ELSE mem[a + k]
    BY <1>1, <2>3, <2>4, <2>6
  <2>8. k < f => mem[a + k] = FileCell(segs[i].offset + k)
    <3>1. Loaded(segs[i])
      BY <1>1 DEF IInv, LoadInv
    <3> QED
      BY <2>2, <2>5, <3>1 DEF Loaded
  <2>9. CASE i = Len(segs)
    <3>1. a = x /\ f = h /\ g = m
      BY <2>2, <2>3, <2>9 DEF Image
    <3>2. a + k \in x + h .. x + m - 1 <=> ~(k < f)
      BY <2>5, <3>1
    <3> QED
      BY <2>2, <2>7, <2>8, <3>2
  <2>10. CASE i # Len(segs)
    <3>1. a + g <= x /\ g = f
      BY <2>1, <2>2, <2>3, <2>10
    <3>2. a + k \notin x + h .. x + m - 1 /\ k < f
      BY <2>5, <3>1
    <3> QED
      BY <2>2, <2>7, <2>8, <3>2
  <2> QED
    BY <2>9, <2>10
<1>7. KernelIntact'
  <2>1. DOMAIN segs' = 1 .. Len(segs)
    <3>1. segs \in Seq(Segment)
      BY <1>2, LinkerAssumption DEF Segment
    <3> QED
      BY <1>1, <3>1
  <2> QED
    BY <1>1, <1>6, <2>1 DEF KernelIntact
<1> QED
  BY <1>1, <1>3, <1>4, <1>5, <1>7 DEF IInv

-----------------------------------------------------------------------------
(***************************************************************************)
(* A set of naturals that is not empty has a least element.                *)
(***************************************************************************)
LEMMA NatMin ==
    ASSUME NEW T \in SUBSET Nat, T # {}
    PROVE  \E x \in T : \A y \in T : x <= y
<1> DEFINE R == OpToRel(<, Nat)
<1>1. IsWellFoundedOn(R, Nat)
  BY NatLessThanWellFounded
<1>2. \A x, y \in Nat : <<x, y>> \in R <=> x < y
  BY DEF OpToRel
<1> HIDE DEF R
<1>3. PICK x \in T : \A y \in T : ~(<<y, x>> \in R)
  BY <1>1, WFMin
<1>4. \A y \in T : x \in Nat /\ y \in Nat /\ ~(y < x)
  BY <1>2, <1>3
<1> QED
  BY <1>4

(***************************************************************************)
(* A set of naturals below a bound, 0 among them, has a greatest element.  *)
(***************************************************************************)
LEMMA MaxBelow ==
    ASSUME NEW w \in Nat, NEW S, 0 \in S, \A y \in S : y \in 0 .. w - 1
    PROVE  Max(S) \in S /\ \A y \in S : y <= Max(S)
<1> DEFINE U == {u \in Nat : \A y \in S : y <= u}
<1>1. w \in U
  OBVIOUS
<1>2. PICK u \in U : \A v \in U : u <= v
  <2>1. U \in SUBSET Nat /\ U # {}
    BY <1>1
  <2> HIDE DEF U
  <2> QED
    BY <2>1, NatMin
<1>3. u \in S
  <2>1. SUFFICES ASSUME u \notin S PROVE FALSE
    OBVIOUS
  <2>2. u \in Nat /\ \A y \in S : y \in Nat /\ y < u
    BY <2>1
  <2>3. u - 1 \in U
    BY <2>2
  <2> QED
    BY <1>2, <2>2, <2>3
<1>4. u \in S /\ \A y \in S : u >= y
  BY <1>3
<1>5. Max(S) \in S /\ \A y \in S : Max(S) >= y
  <2> HIDE DEF U
  <2> QED
    BY <1>4 DEF Max
<1> QED
  BY <1>5

(***************************************************************************)
(* Entries of the map are typed, and their limits are naturals.            *)
(***************************************************************************)
LEMMA EntryType ==
    ASSUME MapInv, NEW i \in 1 .. Len(e820map)
    PROVE  /\ e820map[i].addr \in Nat /\ e820map[i].size \in Nat \ {0}
           /\ e820map[i].ram \in BOOLEAN /\ Limit(e820map[i]) \in Nat
           /\ DOMAIN e820map = 1 .. Len(e820map) /\ Len(e820map) \in Nat
<1>1. e820map \in Seq(Entries)
  BY DEF MapInv
<1>2. e820map[i] \in [addr : Nat, size : Nat \ {0}, ram : BOOLEAN]
  BY <1>1, BootAssumption
<1> QED
  BY <1>1, <1>2 DEF Limit

(***************************************************************************)
(* A RAM entry is a typed entry of the map.                                *)
(***************************************************************************)
LEMMA RamType ==
    ASSUME MapInv, NEW e \in Ram
    PROVE  e.addr \in Nat /\ e.size \in Nat \ {0} /\ Limit(e) \in Nat
<1>1. e820map \in Seq(Entries)
  BY DEF MapInv
<1>2. PICK i \in DOMAIN e820map : e = e820map[i]
  BY DEF Ram
<1>3. i \in 1 .. Len(e820map)
  BY <1>1
<1> QED
  BY <1>2, <1>3, EntryType

(***************************************************************************)
(* The descriptors lie behind the kernel.                                  *)
(***************************************************************************)
LEMMA CountPagesInv ==
    ASSUME IInv, CountPages
    PROVE  IInv'
<1> DEFINE n == PAG_NUM(Max({0} \cup {Limit(e) : e \in Ram})) % W
<1>1. /\ pc = "pages" /\ npage' = n /\ pc' \in {"regions", "lost"}
      /\ valid_mem' = (ROUND_UP(KERNEL_END) + n) % W
      /\ mem' = [c \in Cells |-> IF c \in Descriptors(n) THEN Junk ELSE mem[c]]
      /\ UNCHANGED <<e820map, nr_map, segs, bootable, index, regions,
                     ph, va, end_va, secno>>
  BY DEF CountPages, loader
<1>2. segs \in Layouts /\ mem \in [Cells -> Int] /\ Len(segs) \in Nat \ {0} /\ MapInv
  BY Linker DEF IInv, TypeInv
<1>3. PG_SIZE \in Nat \ {0} /\ W \in Nat \ {0}
  BY BootAssumption
<1>4. KERNEL_END \in Nat /\ KERNEL_END + PG_SIZE <= W
  <2>1. 1 \in 1 .. Len(segs)
    BY <1>2
  <2> QED
    BY <1>1, <2>1, SegmentsEnd DEF InKernel
<1>5. PICK up \in Int : up = ROUND_UP(KERNEL_END) /\ KERNEL_END <= up
  <2>1. PICK x \in Int : x = KERNEL_END + PG_SIZE - 1
    BY <1>3, <1>4
  <2>2. ROUND_UP(KERNEL_END) = PG_SIZE * (x \div PG_SIZE)
    BY <1>4, <2>1, RoundUp
  <2>3. PICK q \in Int, r \in 0 .. PG_SIZE - 1 : q = x \div PG_SIZE /\ x = PG_SIZE * q + r
    <3>1. /\ x \div PG_SIZE \in Int /\ x % PG_SIZE \in 0 .. PG_SIZE - 1
          /\ x = PG_SIZE * (x \div PG_SIZE) + (x % PG_SIZE)
      BY <1>3, DivMod, Zenon
    <3> QED
      BY <3>1
  <2>4. PICK m \in Int : m = PG_SIZE * q
    BY <1>3
  <2>5. PG_SIZE * q + r = x
    BY <2>3
  <2>6. m + r = x
    BY <2>4, <2>5
  <2>7. KERNEL_END <= m
    BY <1>3, <1>4, <2>1, <2>6
  <2> QED
    BY <2>2, <2>3, <2>4, <2>7
<1> HIDE DEF n
<1>6. TypeInv'
  <2>1. mem' \in [Cells -> Int]
    BY <1>1, <1>2 DEF Junk
  <2> QED
    BY <1>1, <2>1 DEF IInv, TypeInv
<1>7. LoadInv'
  BY <1>1 DEF IInv, LoadInv, Booting, InKernel, Before
<1>8. MapInv'
  BY <1>1 DEF IInv, MapInv, Booting, InKernel
<1>9. KernelIntact'
  <2>1. ASSUME NEW i \in 1 .. Len(segs), NEW k \in 0 .. segs[i].memsz - 1
        PROVE  mem'[segs[i].va + k] = mem[segs[i].va + k]
    <3>1. segs[i] \in Segment /\ segs[i].va + segs[i].memsz <= KERNEL_END
      BY <1>1, SegmentsEnd DEF InKernel
    <3>2. PICK a \in Nat, g \in Nat : a = segs[i].va /\ g = segs[i].memsz
      BY <3>1 DEF Segment
    <3>3. a + g <= MemSize /\ MemSize \in Nat
      BY <1>2, <3>2, Linker, BootAssumption
    <3>a. k \in Nat /\ k < g /\ a + g <= KERNEL_END
      BY <3>1, <3>2
    <3>4. a + k \in Cells
      BY <3>3, <3>a DEF Cells
    <3>5. a + k < up
      BY <1>4, <1>5, <3>a
    <3>6. a + k \notin Descriptors(n)
      BY <1>5, <3>5 DEF Descriptors
    <3> QED
      BY <1>1, <3>2, <3>4, <3>6
  <2>2. DOMAIN segs = 1 .. Len(segs)
    <3>1. segs \in Seq(Segment)
      BY <1>2, LinkerAssumption DEF Segment
    <3> QED
      BY <3>1
  <2>3. KernelIntact
    BY DEF IInv
  <2> QED
    BY <1>1, <2>1, <2>2, <2>3 DEF KernelIntact
<1>10. Below' => CountInv'
  <2>1. SUFFICES ASSUME Below PROVE CountInv'
    BY <1>1 DEF Below, Ram
  <2> DEFINE S == {0} \cup {Limit(e) : e \in Ram}
  <2>2. 0 \in S /\ \A y \in S : y \in 0 .. W - 1
    BY <1>2, <1>3, <2>1, RamType DEF Below
  <2>3. Max(S) \in S /\ \A y \in S : y <= Max(S)
    <3> HIDE DEF S
    <3> QED
      BY <1>3, <2>2, MaxBelow
  <2>4. PICK m \in 0 .. W - 1 : m = Max(S)
    BY <2>2, <2>3
  <2>5. PICK q \in Int : q = m \div PG_SIZE
    <3>1. m \in Int
      OBVIOUS
    <3>2. m \div PG_SIZE \in Int
      BY <1>3, <3>1, DivMod, Zenon
    <3> QED
      BY <3>2
  <2>6. q \in 0 .. W - 1
    <3>1. PG_SIZE * q <= m
      BY <1>3, <2>5, DivLeast
    <3>2. 0 <= m \div PG_SIZE <=> PG_SIZE * 0 <= m
      BY <1>3, DivLeast
    <3>3. PG_SIZE * 0 = 0
      BY <1>3
    <3>4. q >= 0
      BY <1>3, <2>5, <3>2, <3>3
    <3>5. q <= PG_SIZE * q
      BY <1>3, <3>4
    <3>6. PG_SIZE * q \in Int
      BY <1>3
    <3>7. q < W
      BY <1>3, <3>1, <3>5, <3>6
    <3> QED
      BY <1>3, <3>4, <3>7
  <2>7. n = q
    <3>1. n = q % W
      BY <2>4, <2>5 DEF n, PAG_NUM
    <3> QED
      BY <1>3, <2>6, <3>1, ModSmall
  <2>8. ASSUME NEW e \in Ram PROVE Limit(e) \div PG_SIZE <= q
    <3>1. PICK l \in Nat : l = Limit(e)
      BY <1>2, RamType
    <3>2. l <= m
      BY <2>3, <2>4, <3>1
    <3>3. PICK d \in Int : d = l \div PG_SIZE
      <4>1. l \in Int
        OBVIOUS
      <4>2. l \div PG_SIZE \in Int
        BY <1>3, <4>1, DivMod, Zenon
      <4> QED
        BY <4>2
    <3>4. PG_SIZE * d <= l
      BY <1>3, <3>3, DivLeast
    <3>5. PG_SIZE * d \in Int
      BY <1>3
    <3>6. PG_SIZE * d <= m
      BY <1>3, <3>2, <3>4, <3>5
    <3>7. d <= m \div PG_SIZE
      BY <1>3, <3>6, DivLeast
    <3> QED
      BY <2>5, <3>1, <3>3, <3>7
  <2>9. valid_mem' \in 0 .. W - 1
    <3>1. up + q \in Int
      BY <2>6
    <3>2. (up + q) % W \in 0 .. W - 1
      BY <1>3, <3>1, DivMod, Zenon
    <3> QED
      BY <1>1, <1>5, <2>7, <3>2
  <2>10. npage' \in Nat
    BY <1>1, <2>6, <2>7
  <2>11. \A e \in Ram : Limit(e) \div PG_SIZE <= npage'
    BY <1>1, <2>7, <2>8
  <2>12. Ram' = Ram
    BY <1>1 DEF Ram
  <2> HIDE DEF S
  <2> QED
    BY <2>9, <2>10, <2>11, <2>12 DEF CountInv, Limit
<1>11. RegionInv'
  <2>1. index' = 0 /\ regions' = << >>
    BY <1>1, <1>2 DEF MapInv
  <2>2. 1 .. index' = {} /\ DOMAIN regions' = {} /\ regions' \in Seq([base : Nat, n : Nat])
    BY <2>1
  <2> QED
    BY <2>2 DEF RegionInv
<1> QED
  BY <1>6, <1>7, <1>8, <1>9, <1>10, <1>11 DEF IInv

-----------------------------------------------------------------------------
(***************************************************************************)
(* Two entries have no page in common, as they have no cell in common.     *)
(***************************************************************************)
LEMMA InsideDisjoint ==
    ASSUME MapInv, CountInv, NEW i \in 1 .. Len(e820map), NEW j \in 1 .. Len(e820map),
           i # j
    PROVE  Inside(e820map[i]) \cap Inside(e820map[j]) = {}
<1>1. SUFFICES ASSUME NEW p \in Usable,
                      p \in Inside(e820map[i]), p \in Inside(e820map[j])
               PROVE  FALSE
  BY DEF Inside
<1>2. PG_SIZE \in Nat \ {0}
  BY BootAssumption
<1>3. p \in Int
  BY DEF Usable, CountInv
<1>4. PICK c \in Int : c = p * PG_SIZE
  BY <1>2, <1>3
<1>5. (p + 1) * PG_SIZE = c + PG_SIZE
  BY <1>2, <1>3, <1>4
<1>6. ASSUME NEW k \in 1 .. Len(e820map), p \in Inside(e820map[k])
      PROVE  c \in Cover(e820map[k])
  <2>1. PICK a \in Nat, s \in Nat : a = e820map[k].addr /\ s = e820map[k].size
    BY EntryType
  <2>2. a <= c /\ c + PG_SIZE <= a + s
    BY <1>4, <1>5, <1>6, <2>1 DEF Inside, Limit
  <2>3. c \in a .. a + s - 1
    BY <1>2, <2>2
  <2> QED
    BY <2>1, <2>3 DEF Cover
<1>7. c \in Cover(e820map[i]) /\ c \in Cover(e820map[j])
  BY <1>1, <1>6
<1>8. i \in DOMAIN e820map /\ j \in DOMAIN e820map
  BY EntryType
<1> QED
  BY <1>7, <1>8 DEF MapInv

(***************************************************************************)
(* The region made of an entry that reaches beyond the descriptors is the  *)
(* entry's usable pages; any other entry has none.                         *)
(***************************************************************************)
LEMMA EntryRegion ==
    ASSUME MapInv, CountInv, Handled, NEW j \in 1 .. Len(e820map), e820map[j].ram
    PROVE  LET e    == e820map[j]
               addr == Clip(e.addr)
               base == PAG_NUM(ROUND_UP(addr))
               n    == PAG_NUM((ROUND_DOWN(Limit(e)) - ROUND_UP(addr)) % (W * W)) % W
           IN IF addr < Limit(e)
              THEN /\ base \in Nat /\ n \in Nat
                   /\ base .. base + n - 1 = Inside(e) /\ Inside(e) # {}
              ELSE Inside(e) = {}
<1> DEFINE e == e820map[j]
<1>1. PG_SIZE \in Nat \ {0} /\ W \in Nat \ {0}
  BY BootAssumption
<1>2. PICK v \in Nat : v = valid_mem
  BY <1>1 DEF CountInv
<1>3. PICK x \in Nat, l \in Nat : x = e.addr /\ l = Limit(e)
  BY EntryType
<1>4. PICK a \in Nat : a = Clip(e.addr)
  BY <1>2, <1>3 DEF Clip
<1>5. \A m \in Int : a <= m <=> x <= m /\ v <= m
  BY <1>2, <1>3, <1>4 DEF Clip
<1>6. e \in Ram
  <2>1. j \in DOMAIN e820map
    BY EntryType
  <2> QED
    BY <2>1 DEF Ram
<1>7. l < W /\ l \div PG_SIZE <= npage /\ npage \in Nat
  BY <1>3, <1>6 DEF Handled, CountInv
<1>8. ASSUME NEW q \in Nat, a <= q * PG_SIZE, (q + 1) * PG_SIZE <= l
      PROVE  q \in Inside(e)
  <2>1. PICK m \in Int : m = q * PG_SIZE
    BY <1>1
  <2>2. x <= m /\ v <= m
    BY <1>5, <1>8, <2>1
  <2>3. q + 1 <= l \div PG_SIZE
    <3>1. PG_SIZE * (q + 1) <= l
      BY <1>1, <1>8
    <3>2. q + 1 \in Int
      OBVIOUS
    <3> QED
      BY <1>1, <3>1, <3>2, DivLeast
  <2>4. PICK d \in Int : d = l \div PG_SIZE
    <3>1. l \in Int
      OBVIOUS
    <3>2. l \div PG_SIZE \in Int
      BY <1>1, <3>1, DivMod, Zenon
    <3> QED
      BY <3>2
  <2>5. q \in 0 .. npage - 1
    BY <1>7, <2>3, <2>4
  <2>6. q * PG_SIZE >= valid_mem /\ e.addr <= q * PG_SIZE /\ (q + 1) * PG_SIZE <= Limit(e)
    BY <1>2, <1>3, <1>8, <2>1, <2>2
  <2>7. q \in Usable
    BY <1>6, <2>5, <2>6 DEF Usable
  <2> QED
    BY <2>6, <2>7 DEF Inside
<1>9. ASSUME NEW q \in Inside(e)
      PROVE  q \in Nat /\ a <= q * PG_SIZE /\ (q + 1) * PG_SIZE <= l /\ a < l
  <2>1. q \in Nat /\ q * PG_SIZE >= valid_mem
    BY <1>7 DEF Inside, Usable
  <2>2. e.addr <= q * PG_SIZE /\ (q + 1) * PG_SIZE <= Limit(e)
    BY DEF Inside
  <2>3. PICK m \in Int : m = q * PG_SIZE
    BY <1>1, <2>1
  <2>4. (q + 1) * PG_SIZE = m + PG_SIZE
    BY <1>1, <2>1, <2>3
  <2>5. x <= m /\ v <= m /\ m + PG_SIZE <= l
    BY <1>2, <1>3, <2>1, <2>2, <2>3, <2>4
  <2>6. a <= m
    BY <1>5, <2>5
  <2>7. a < l
    BY <1>1, <2>5, <2>6
  <2> QED
    BY <2>1, <2>3, <2>4, <2>5, <2>6, <2>7
<1>10. CASE a < l
  <2>1. l > v
    <3>1. a >= v
      BY <1>5
    <3> QED
      BY <1>10, <3>1
  <2>2. PICK p \in Usable : e.addr <= p * PG_SIZE /\ (p + 1) * PG_SIZE <= Limit(e)
    BY <1>2, <1>3, <1>6, <2>1 DEF Handled
  <2>3. p \in Inside(e)
    BY <2>2 DEF Inside
  <2>4. p \in Nat /\ a <= p * PG_SIZE /\ (p + 1) * PG_SIZE <= l
    BY <1>9, <2>3
  <2> DEFINE base == PAG_NUM(ROUND_UP(a))
             n    == PAG_NUM((ROUND_DOWN(l) - ROUND_UP(a)) % (W * W)) % W
  <2>5. /\ base \in Nat /\ n \in Nat
        /\ \A q \in Int : q \in base .. base + n - 1 <=>
                          a <= q * PG_SIZE /\ (q + 1) * PG_SIZE <= l
    BY <1>7, <2>4, RegionPages
  <2> HIDE DEF base, n
  <2>6. base .. base + n - 1 = Inside(e)
    <3>1. \A q \in base .. base + n - 1 : q \in Nat
      BY <2>5
    <3>2. \A q \in base .. base + n - 1 : q \in Inside(e)
      BY <1>8, <2>5, <3>1
    <3>3. \A q \in Inside(e) : q \in base .. base + n - 1
      BY <1>9, <2>5
    <3> HIDE DEF e
    <3> QED
      BY <3>2, <3>3
  <2> QED
    BY <1>3, <1>4, <1>10, <2>3, <2>5, <2>6 DEF base, n
<1>11. CASE ~(a < l)
  <2>1. Inside(e) = {}
    BY <1>9, <1>11
  <2> QED
    BY <1>3, <1>4, <1>11, <2>1
<1> QED
  BY <1>10, <1>11

(***************************************************************************)
(* One entry of the map becomes a region, or none.                         *)
(***************************************************************************)
LEMMA RegisterInv ==
    ASSUME IInv, Register
    PROVE  IInv'
<1> DEFINE e    == e820map[index + 1]
           addr == Clip(e.addr)
           new  == [base |-> PAG_NUM(ROUND_UP(addr)),
                    n |-> PAG_NUM((ROUND_DOWN(Limit(e)) - ROUND_UP(addr)) % (W * W)) % W]
<1>1. /\ pc = "regions" /\ index < nr_map /\ index' = index + 1
      /\ regions' = IF e.ram /\ addr < Limit(e) THEN Append(regions, new) ELSE regions
      /\ UNCHANGED <<pc, e820map, nr_map, segs, bootable, mem, ph, va, end_va, secno,
                     npage, valid_mem>>
  BY DEF Register, loader
<1>2. MapInv /\ nr_map = Len(e820map) /\ index \in Nat /\ Len(e820map) \in Nat
  BY <1>1 DEF IInv, MapInv, InKernel
<1>3. index + 1 \in 1 .. Len(e820map)
  BY <1>1, <1>2
<1> HIDE DEF new, addr, e
<1>4. TypeInv'
  BY <1>1 DEF IInv, TypeInv
<1>5. LoadInv'
  BY <1>1 DEF IInv, LoadInv, Booting, InKernel, Before
<1>6. KernelIntact'
  BY <1>1 DEF IInv, KernelIntact
<1>7. MapInv'
  BY <1>1, <1>2, <1>3 DEF MapInv, Booting, InKernel
<1>8. Ram' = Ram /\ Usable' = Usable
  <2>1. Ram' = Ram
    BY <1>1 DEF Ram
  <2> QED
    BY <1>1, <2>1 DEF Usable, Limit
<1>9. Below' => CountInv'
  BY <1>1, <1>8 DEF IInv, Below, CountInv, Limit
<1>10. Handled' => RegionInv'
  <2>1. Handled' => Handled
    BY <1>1, <1>8 DEF Handled, Limit
  <2>2. SUFFICES ASSUME Handled PROVE RegionInv'
    BY <2>1
  <2>3. CountInv /\ RegionInv
    BY <1>1, <2>2 DEF IInv, Handled, Below
  <2>4. regions \in Seq([base : Nat, n : Nat])
    BY <2>3 DEF RegionInv
  <2>5. \A j \in 1 .. Len(e820map) : Inside(e820map[j])' = Inside(e820map[j])
    BY <1>1, <1>8 DEF Inside, Limit
  <2>6. \A j \in 1 .. index : j \in 1 .. Len(e820map) /\ j # index + 1
    BY <1>2, <1>3
  <2>7. 1 .. index' = (1 .. index) \cup {index + 1}
    BY <1>1, <1>2
  <2>8. CASE e.ram /\ addr < Limit(e)
    <3>1. /\ new \in [base : Nat, n : Nat]
          /\ new.base .. new.base + new.n - 1 = Inside(e)
          /\ Inside(e) # {}
      <4>1. e820map[index + 1].ram /\ Clip(e820map[index + 1].addr) < Limit(e820map[index + 1])
        BY <2>8 DEF addr, e
      <4>2. /\ PAG_NUM(ROUND_UP(addr)) \in Nat
            /\ PAG_NUM((ROUND_DOWN(Limit(e)) - ROUND_UP(addr)) % (W * W)) % W \in Nat
            /\ PAG_NUM(ROUND_UP(addr)) ..
                  PAG_NUM(ROUND_UP(addr))
                  + (PAG_NUM((ROUND_DOWN(Limit(e)) - ROUND_UP(addr)) % (W * W)) % W) - 1
                  = Inside(e)
            /\ Inside(e) # {}
        BY <1>2, <1>3, <2>2, <2>3, <4>1, EntryRegion DEF addr, e
      <4> QED
        BY <4>2 DEF new
    <3>2. regions' = Append(regions, new)
      BY <1>1, <2>8
    <3>3. PICK l \in Nat : l = Len(regions) /\ DOMAIN regions = 1 .. l
      BY <2>4
    <3>4. /\ regions' \in Seq([base : Nat, n : Nat])
          /\ DOMAIN regions' = (1 .. l) \cup {l + 1}
          /\ \A i \in 1 .. l : regions'[i] = regions[i]
          /\ regions'[l + 1] = new
      BY <2>4, <3>1, <3>2, <3>3
    <3>5. /\ \A i \in 1 .. l : Run(i)' = Run(i) /\ i # l + 1
          /\ Run(l + 1)' = Inside(e)
      BY <3>1, <3>4 DEF Run
    <3>6. \A i \in 1 .. l : /\ Run(i) # {}
                            /\ \E j \in 1 .. index :
                                  e820map[j].ram /\ Run(i) = Inside(e820map[j])
      BY <2>3, <3>3 DEF RegionInv
    <3>7. \A i \in 1 .. l : Run(i) \cap Inside(e) = {}
      <4>1. SUFFICES ASSUME NEW i \in 1 .. l PROVE Run(i) \cap Inside(e) = {}
        OBVIOUS
      <4>2. PICK j \in 1 .. index : Run(i) = Inside(e820map[j])
        BY <3>6
      <4>3. Inside(e820map[j]) \cap Inside(e820map[index + 1]) = {}
        BY <1>2, <1>3, <2>3, <2>6, InsideDisjoint
      <4> QED
        BY <4>2, <4>3 DEF e
    <3>8. ASSUME NEW i \in DOMAIN regions'
          PROVE  /\ Run(i)' # {}
                 /\ \E j \in 1 .. index' :
                       e820map'[j].ram /\ Run(i)' = Inside(e820map[j])'
      <4>1. CASE i \in 1 .. l
        <5>1. PICK j \in 1 .. index : e820map[j].ram /\ Run(i) = Inside(e820map[j])
          BY <3>6, <4>1
        <5>2. j \in 1 .. index' /\ e820map'[j].ram /\ Run(i)' = Inside(e820map[j])'
          BY <1>1, <2>5, <2>6, <2>7, <3>5, <4>1, <5>1
        <5> QED
          BY <3>5, <3>6, <4>1, <5>2
      <4>2. CASE i = l + 1
        <5>1. /\ index + 1 \in 1 .. index' /\ e820map'[index + 1].ram
              /\ Run(l + 1)' = Inside(e820map[index + 1])
          BY <1>1, <2>7, <2>8, <3>5 DEF e
        <5>2. Inside(e820map[index + 1]) =
                 {p \in Usable' : /\ e820map'[index + 1].addr <= p * PG_SIZE
                                  /\ (p + 1) * PG_SIZE <= Limit(e820map'[index + 1])}
          BY <1>1, <1>8 DEF Inside
        <5> QED
          BY <3>1, <3>5, <4>2, <5>1, <5>2 DEF Inside, Limit
      <4> QED
        BY <3>4, <4>1, <4>2
    <3>9. ASSUME NEW i \in DOMAIN regions', NEW j \in DOMAIN regions', i # j
          PROVE  Run(i)' \cap Run(j)' = {}
      <4>1. CASE i \in 1 .. l /\ j \in 1 .. l
        <5>1. Run(i) \cap Run(j) = {}
          BY <2>3, <3>3, <3>9, <4>1 DEF RegionInv
        <5> QED
          BY <3>5, <4>1, <5>1
      <4>2. CASE i = l + 1 /\ j \in 1 .. l
        BY <3>5, <3>7, <4>2
      <4>3. CASE j = l + 1 /\ i \in 1 .. l
        BY <3>5, <3>7, <4>3
      <4> QED
        BY <3>4, <3>9, <4>1, <4>2, <4>3
    <3>10. ASSUME NEW j \in 1 .. index', e820map'[j].ram, Inside(e820map[j])' # {}
           PROVE  \E i \in DOMAIN regions' : Run(i)' = Inside(e820map[j])'
      <4>1. CASE j \in 1 .. index
        <5>1. e820map[j].ram /\ Inside(e820map[j]) # {}
          BY <1>1, <2>5, <2>6, <3>10, <4>1
        <5>2. PICK i \in 1 .. l : Run(i) = Inside(e820map[j])
          BY <2>3, <3>3, <4>1, <5>1 DEF RegionInv
        <5> QED
          BY <2>5, <2>6, <3>4, <3>5, <4>1, <5>2
      <4>2. CASE j = index + 1
        <5>1. Inside(e820map[j])' = Inside(e820map[j])
          BY <1>3, <2>5, <4>2
        <5>2. Run(l + 1)' = Inside(e820map[j])
          BY <3>5, <4>2 DEF e
        <5>3. l + 1 \in DOMAIN regions'
          BY <3>4
        <5> QED
          BY <5>1, <5>2, <5>3
      <4> QED
        BY <2>7, <4>1, <4>2
    <3> QED
      BY <3>4, <3>8, <3>9, <3>10 DEF RegionInv
  <2>9. CASE ~(e.ram /\ addr < Limit(e))
    <3>1. regions' = regions
      BY <1>1, <2>9
    <3>2. \A i \in DOMAIN regions : Run(i)' = Run(i)
      BY <3>1 DEF Run
    <3>3. e.ram => Inside(e) = {}
      <4>1. ASSUME e820map[index + 1].ram,
                   ~(Clip(e820map[index + 1].addr) < Limit(e820map[index + 1]))
            PROVE  Inside(e820map[index + 1]) = {}
        BY <1>2, <1>3, <2>2, <2>3, <4>1, EntryRegion
      <4> QED
        BY <2>9, <4>1 DEF addr, e
    <3>4. ASSUME NEW i \in DOMAIN regions
          PROVE  /\ Run(i)' # {}
                 /\ \E j \in 1 .. index' :
                       e820map'[j].ram /\ Run(i)' = Inside(e820map[j])'
      <4>1. PICK j \in 1 .. index : e820map[j].ram /\ Run(i) = Inside(e820map[j])
        BY <2>3 DEF RegionInv
      <4>2. j \in 1 .. index' /\ e820map'[j].ram /\ Run(i)' = Inside(e820map[j])'
        BY <1>1, <2>5, <2>6, <2>7, <3>2, <4>1
      <4>3. Run(i)' # {}
        BY <2>3, <3>2 DEF RegionInv
      <4> QED
        BY <4>2, <4>3
    <3>5. ASSUME NEW j \in 1 .. index', e820map'[j].ram, Inside(e820map[j])' # {}
          PROVE  \E i \in DOMAIN regions : Run(i)' = Inside(e820map[j])'
      <4>1. j \in 1 .. Len(e820map)
        BY <1>3, <2>6, <2>7
      <4>2. Inside(e820map[j])' = Inside(e820map[j])
        BY <2>5, <4>1
      <4>3. j # index + 1
        BY <1>1, <3>3, <3>5, <4>2 DEF e
      <4>4. j \in 1 .. index /\ e820map[j].ram /\ Inside(e820map[j]) # {}
        BY <1>1, <2>7, <3>5, <4>2, <4>3
      <4>5. PICK i \in DOMAIN regions : Run(i) = Inside(e820map[j])
        BY <2>3, <4>4 DEF RegionInv
      <4> QED
        BY <3>2, <4>2, <4>5
    <3>6. \A i, j \in DOMAIN regions : i # j => Run(i)' \cap Run(j)' = {}
      BY <2>3, <3>2 DEF RegionInv
    <3> QED
      BY <2>4, <3>1, <3>4, <3>5, <3>6 DEF RegionInv
  <2> QED
    BY <2>8, <2>9
<1> QED
  BY <1>4, <1>5, <1>6, <1>7, <1>9, <1>10 DEF IInv

(***************************************************************************)
(* The end of page_init(), and a step that changes nothing.                *)
(***************************************************************************)
LEMMA DoneInv ==
    ASSUME IInv, Done \/ UNCHANGED vars
    PROVE  IInv'
<1>1. /\ \/ pc = "regions" /\ pc' = "done" /\ index >= nr_map
         \/ pc' = pc
      /\ UNCHANGED <<e820map, nr_map, segs, bootable, mem, ph, va, end_va, secno,
                     npage, valid_mem, index, regions>>
  BY DEF Done, vars, loader, pageinit
<1>2. TypeInv'
  BY <1>1 DEF IInv, TypeInv
<1>3. LoadInv'
  <2>1. ReadInv => ReadInv'
    BY <1>1 DEF ReadInv, LoadedTo, Loaded
  <2>2. \A j \in 1 .. Len(segs) : Loaded(segs[j]) => Loaded(segs[j])'
    BY <1>1 DEF Loaded
  <2>3. \A j \in 1 .. ph - 1 : Before(segs[j], segs[ph])'
    BY <1>1 DEF IInv, LoadInv, Before
  <2> QED
    BY <1>1, <2>1, <2>2, <2>3 DEF IInv, LoadInv, Booting, InKernel
<1>4. KernelIntact'
  BY <1>1 DEF IInv, KernelIntact
<1>5. MapInv'
  <2>1. Len(e820map) \in Nat
    BY DEF IInv, MapInv
  <2> QED
    BY <1>1, <2>1 DEF IInv, MapInv, Booting, InKernel
<1>6. Ram' = Ram
  BY <1>1 DEF Ram
<1>7. Usable' = Usable
  BY <1>1, <1>6 DEF Usable, Limit
<1>8. CountInv => CountInv'
  BY <1>1, <1>6 DEF CountInv, Limit
<1>9. RegionInv => RegionInv'
  <2>1. \A j : Inside(e820map[j])' = Inside(e820map[j])
    BY <1>1, <1>7 DEF Inside, Limit
  <2>2. \A i : Run(i)' = Run(i)
    BY <1>1 DEF Run
  <2> QED
    BY <1>1, <2>1, <2>2 DEF RegionInv
<1>10. (Below' => Below) /\ (Handled' => Handled)
  BY <1>1, <1>6, <1>7 DEF Below, Handled, Limit
<1> QED
  BY <1>1, <1>2, <1>3, <1>4, <1>5, <1>8, <1>9, <1>10 DEF IInv

(***************************************************************************)
(* The inductive invariant holds from power-on to the first free page.     *)
(***************************************************************************)
THEOREM Invariance == Spec => []IInv
<1>1. Init => IInv
  BY InitInv
<1>2. IInv /\ [Next]_vars => IInv'
  BY ProbeInv, MoveInv, ReadsectInv, ReadSegmentInv, JumpInv, ClearBssInv,
     CountPagesInv, RegisterInv, DoneInv DEF Next
<1> QED
  BY <1>1, <1>2, PTL DEF Spec

(***************************************************************************)
(* When the kernel's C code runs, its text and data are what the linker    *)
(* made and its bss is zero, for every layout the linker may choose:       *)
(* reading whole sectors over the ends of segments, clearing the bss and   *)
(* putting the descriptors behind it spoil nothing.                        *)
(***************************************************************************)
THEOREM KernelAlwaysIntact == Spec => []KernelIntact
<1>1. IInv => KernelIntact
  BY DEF IInv
<1> QED
  BY <1>1, Invariance, PTL

(***************************************************************************)
(* For the maps page_init() is made for, whatever their order, number and  *)
(* alignment, the regions registered are disjoint and together exactly the *)
(* pages of RAM behind the descriptors.                                    *)
(***************************************************************************)
THEOREM RegionsAlwaysSound == Spec => []RegionsSound
<1>1. ASSUME IInv PROVE RegionsSound
  <2>1. SUFFICES ASSUME pc \in {"regions", "done"}, Handled
                 PROVE  /\ \A i, j \in DOMAIN regions : i # j => Run(i) \cap Run(j) = {}
                        /\ \A i \in DOMAIN regions : Run(i) # {} /\ Run(i) \subseteq Usable
                        /\ pc = "done" => UNION {Run(i) : i \in DOMAIN regions} = Usable
    BY DEF RegionsSound, Run
  <2>2. RegionInv /\ MapInv
    BY <1>1, <2>1 DEF IInv
  <2>3. \A i \in DOMAIN regions : Run(i) # {} /\ Run(i) \subseteq Usable
    BY <2>2 DEF RegionInv, Inside
  <2>4. ASSUME pc = "done", NEW p \in Usable
        PROVE  \E i \in DOMAIN regions : p \in Run(i)
    <3>1. PICK e \in Ram : e.addr <= p * PG_SIZE /\ (p + 1) * PG_SIZE <= Limit(e)
      BY DEF Usable
    <3>2. PICK j \in DOMAIN e820map : e = e820map[j] /\ e820map[j].ram
      BY DEF Ram
    <3>3. index = Len(e820map) /\ e820map \in Seq(Entries)
      BY <2>2, <2>4 DEF MapInv
    <3>4. j \in 1 .. index
      BY <3>3
    <3>5. p \in Inside(e820map[j])
      BY <3>1, <3>2 DEF Inside
    <3>6. PICK i \in DOMAIN regions : Run(i) = Inside(e820map[j])
      BY <2>2, <3>2, <3>4, <3>5 DEF RegionInv
    <3> QED
      BY <3>5, <3>6
  <2>5. pc = "done" => UNION {Run(i) : i \in DOMAIN regions} = Usable
    BY <2>3, <2>4
  <2> QED
    BY <2>2, <2>3, <2>5 DEF RegionInv
<1> QED
  BY <1>1, Invariance, PTL
=============================================================================

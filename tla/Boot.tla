-------------------------------- MODULE Boot --------------------------------
(***************************************************************************)
(* From the boot sector to the first free page: the e820 probe of          *)
(* boot/bootasm.S, the ELF loader boot/bootload.c, the entry code          *)
(* init/head.S, kern/arch/x86/e820.c and page_init() of kern/mm/pmm.c,     *)
(* which turns the BIOS's memory map into the regions of module FirstFit.  *)
(*                                                                         *)
(* Memory is a row of cells, addressed physically.  A sector and a page    *)
(* are a few cells, and W cells stand for the 4 GiB that a 32-bit number   *)
(* addresses; addresses in the memory map are wider.                       *)
(***************************************************************************)
EXTENDS Integers, Sequences, FiniteSets, FiniteSetsExt

CONSTANTS SECT_SIZE, PG_SIZE,
          W,            \* 2^32 in cells
          HEADER_SECTS, \* sectors read for the ELF header
          KERNEL_HEADER,\* where they go
          Layouts,      \* the program headers a kernel may have
          FileSize,     \* cells of the kernel file
          MemSize,      \* cells of memory the model keeps the contents of
          Mapped,       \* cells the boot page table maps
          Entries,      \* what the BIOS may report: address, size, RAM or not
          MaxEntries    \* bound: how many of them

ASSUME BootAssumption ==
    /\ SECT_SIZE \in Nat \ {0} /\ PG_SIZE \in Nat \ {0} /\ W \in Nat \ {0}
    /\ PG_SIZE % SECT_SIZE = 0 /\ W % PG_SIZE = 0
    /\ HEADER_SECTS \in Nat \ {0} /\ FileSize \in Nat \ {0} /\ MemSize \in Nat
    /\ KERNEL_HEADER \in 0 .. MemSize - 1
    /\ Entries \subseteq [addr : Nat, size : Nat \ {0}, ram : BOOLEAN]

(***************************************************************************)
(* What the linker promises (tools/kernel.ld): segments ascend, above the  *)
(* header; address and offset agree within a page; two segments share a    *)
(* page only if they are as far apart in the file as in memory; only the   *)
(* last one ends with bss.  The kernel lies in the memory the model keeps, *)
(* a page or more below the 32-bit limit.                                  *)
(***************************************************************************)
ASSUME LinkerAssumption ==
    \A segs \in Layouts :
        /\ segs \in Seq([va : Nat, offset : Nat, filesz : Nat, memsz : Nat])
        /\ segs # <<>>
        /\ \A i \in DOMAIN segs :
              LET s == segs[i] IN
              /\ s.va + s.memsz <= MemSize /\ s.va + s.memsz + PG_SIZE <= W
              /\ s.va % PG_SIZE = s.offset % PG_SIZE
              /\ s.va >= KERNEL_HEADER + SECT_SIZE * (HEADER_SECTS + 1)
              /\ s.offset + s.filesz <= FileSize
              /\ s.memsz >= s.filesz
              /\ s.memsz > s.filesz => i = Len(segs)
        /\ \A i \in 1 .. Len(segs) - 1 :
              LET s == segs[i]
                  t == segs[i + 1]
              IN /\ s.va + s.memsz <= t.va /\ s.offset + s.filesz <= t.offset
                 /\ \/ t.va - t.offset = s.va - s.offset
                    \/ t.va \div PG_SIZE > (s.va + s.memsz - 1) \div PG_SIZE

Cells == 0 .. MemSize - 1

(* The contents of a cell: of the file, zero, or anything else. *)
FileCell(offset) == IF offset \in 0 .. FileSize - 1 THEN offset + 1 ELSE -1

Zero == 0

Junk == -1

VARIABLES pc,
          e820map,      \* the entries the BIOS has stored, and
          nr_map,       \* their number at E820_MEM_BASE
          segs,         \* the program headers of the kernel on the disk
          bootable,     \* whether there is a kernel on the disk
          mem,          \* the contents of memory
          ph,           \* bootmain()'s loop over them; 0 for the header
          va, end_va, secno,    \* readseg()'s variables
          npage, valid_mem, index,      \* page_init()'s
          regions       \* what it has passed to init_memmap()

loader == <<ph, va, end_va, secno>>

pageinit == <<npage, valid_mem, index, regions>>

vars == <<pc, e820map, nr_map, segs, bootable, mem, loader, pageinit>>

Init ==
    /\ pc = "probe"
    /\ e820map = <<>> /\ nr_map = 0
    /\ segs \in Layouts /\ bootable \in BOOLEAN
    /\ mem = [c \in Cells |-> Junk]
    /\ ph = 0 /\ va = 0 /\ end_va = 0 /\ secno = 0
    /\ npage = 0 /\ valid_mem = 0 /\ index = 0
    /\ regions = <<>>

-----------------------------------------------------------------------------
Cover(e) == e.addr .. e.addr + e.size - 1

(***************************************************************************)
(* INT 15h, E820 (external): an entry per call, ebx = 0 with the last one. *)
(* The entries do not overlap, and come in any order.  A call that fails   *)
(* leaves the error code where the number of entries should be, and        *)
(* page_init() then takes what lies behind the map for entries.            *)
(***************************************************************************)
Probe(e, last) ==
    /\ pc = "probe"
    /\ nr_map < MaxEntries
    /\ \A i \in DOMAIN e820map : Cover(e) \cap Cover(e820map[i]) = {}
    /\ e820map' = Append(e820map, e)
    /\ nr_map' = nr_map + 1
    /\ pc' = IF last THEN "header" ELSE "probe"
    /\ UNCHANGED <<segs, bootable, mem, loader, pageinit>>

INT_ESI_ERROR_CODE == 65535

ProbeError ==
    /\ pc = "probe"
    /\ nr_map' = INT_ESI_ERROR_CODE
    /\ pc' = "lost"
    /\ UNCHANGED <<e820map, segs, bootable, mem, loader, pageinit>>

-----------------------------------------------------------------------------
(* Mutant: the first sector is not put in front of the segment. *)
readsegAtVa(start, count, offset) ==
    /\ end_va' = start + count
    /\ va' = start
    /\ secno' = (offset \div SECT_SIZE) + 1

(***************************************************************************)
(* readseg() reads whole sectors, from the one in which the segment        *)
(* begins; the kernel file starts behind the boot sector.                  *)
(***************************************************************************)
readseg(start, count, offset) ==
    /\ end_va' = start + count
    /\ va' = start - (offset % SECT_SIZE)
    /\ secno' = (offset \div SECT_SIZE) + 1

ReadHeader ==
    /\ pc = "header"
    /\ readseg(KERNEL_HEADER, SECT_SIZE * HEADER_SECTS, 0)
    /\ pc' = "sectors"
    /\ UNCHANGED <<e820map, nr_map, segs, bootable, mem, ph, pageinit>>

readsect ==
    /\ pc = "sectors" /\ va < end_va
    /\ mem' = [c \in Cells |->
                  IF c \notin va .. va + SECT_SIZE - 1 THEN mem[c]
                  ELSE IF bootable THEN FileCell((secno - 1) * SECT_SIZE + c - va)
                  ELSE Junk]
    /\ va' = va + SECT_SIZE
    /\ secno' = secno + 1
    /\ UNCHANGED <<pc, e820map, nr_map, segs, bootable, ph, end_va, pageinit>>

(* bootmain() spins if the header does not begin with the magic number. *)
BadMagic ==
    /\ pc = "sectors" /\ va >= end_va
    /\ ph = 0 /\ mem[KERNEL_HEADER] # FileCell(0)
    /\ pc' = "spin"
    /\ UNCHANGED <<e820map, nr_map, segs, bootable, mem, loader, pageinit>>

ReadSegment ==
    /\ pc = "sectors" /\ va >= end_va
    /\ ph = 0 => mem[KERNEL_HEADER] = FileCell(0)
    /\ ph < Len(segs)
    /\ LET s == segs[ph + 1] IN readseg(s.va, s.memsz, s.offset)
    /\ ph' = ph + 1
    /\ UNCHANGED <<pc, e820map, nr_map, segs, bootable, mem, pageinit>>

JumpToEntry ==
    /\ pc = "sectors" /\ va >= end_va /\ ph = Len(segs)
    /\ pc' = "head"
    /\ UNCHANGED <<e820map, nr_map, segs, bootable, mem, loader, pageinit>>

Image == segs[Len(segs)]

KERNEL_END == Image.va + Image.memsz

(* head.S clears the bss, which readseg() filled with what it met. *)
ClearBss ==
    /\ pc = "head"
    /\ mem' = [c \in Cells |->
                  IF c \in Image.va + Image.filesz .. KERNEL_END - 1 THEN Zero
                                                                     ELSE mem[c]]
    /\ pc' = "pages"
    /\ UNCHANGED <<e820map, nr_map, segs, bootable, loader, pageinit>>

-----------------------------------------------------------------------------
(* math.h: both macros compute in 32 bits. *)
ROUND_DOWN(a) == (a % W) - ((a % W) % PG_SIZE)

ROUND_UP(a) == ROUND_DOWN(((a % W) + PG_SIZE - 1) % W)

PAG_NUM(a) == a \div PG_SIZE

Limit(e) == e.addr + e.size

Ram == {e820map[i] : i \in {j \in DOMAIN e820map : e820map[j].ram}}

Descriptors(n) == ROUND_UP(KERNEL_END) .. ROUND_UP(KERNEL_END) + n - 1

(***************************************************************************)
(* page_init(), first half: one descriptor (here: a cell) for every page   *)
(* up to the end of RAM, behind the kernel.  Only the memory the boot page *)
(* table maps can be written.                                              *)
(***************************************************************************)
CountPages ==
    /\ pc = "pages"
    /\ LET n == PAG_NUM(Max({0} \cup {Limit(e) : e \in Ram})) % W IN
       /\ npage' = n
       /\ valid_mem' = (ROUND_UP(KERNEL_END) + n) % W
       /\ mem' = [c \in Cells |-> IF c \in Descriptors(n) THEN Junk ELSE mem[c]]
       /\ pc' = IF \A c \in Descriptors(n) : c < Mapped THEN "regions" ELSE "lost"
    /\ UNCHANGED <<e820map, nr_map, segs, bootable, loader, index, regions>>

(* Mutant: the kernel and the descriptors are not kept out. *)
ClipNothing(addr) == addr

Clip(addr) == IF addr < valid_mem THEN valid_mem ELSE addr

(***************************************************************************)
(* Second half: one entry of the map, clipped, rounded inwards and handed  *)
(* to init_memmap().  The difference is a 64-bit number, the count a       *)
(* 32-bit one.                                                             *)
(***************************************************************************)
Register ==
    /\ pc = "regions" /\ index < nr_map
    /\ LET e     == e820map[index + 1]
           addr  == Clip(e.addr)
           first == ROUND_UP(addr)
           last  == ROUND_DOWN(Limit(e))
       IN regions' = IF e.ram /\ addr < Limit(e)
                     THEN Append(regions, [base |-> PAG_NUM(first),
                                           n |-> PAG_NUM((last - first) % (W * W)) % W])
                     ELSE regions
    /\ index' = index + 1
    /\ UNCHANGED <<pc, e820map, nr_map, segs, bootable, mem, loader, npage, valid_mem>>

Done ==
    /\ pc = "regions" /\ index >= nr_map
    /\ pc' = "done"
    /\ UNCHANGED <<e820map, nr_map, segs, bootable, mem, loader, pageinit>>

Next ==
    \/ \E e \in Entries, last \in BOOLEAN : Probe(e, last)
    \/ ProbeError
    \/ ReadHeader \/ readsect \/ BadMagic \/ ReadSegment \/ JumpToEntry
    \/ ClearBss
    \/ CountPages \/ Register \/ Done

Spec == Init /\ [][Next]_vars

-----------------------------------------------------------------------------
(***************************************************************************)
(* When the kernel's C code runs, every segment is in memory as the linker *)
(* made it and the bss is zero, although whole sectors were read over the  *)
(* ends of segments and the bss was filled with whatever follows in the    *)
(* file; the page descriptors then leave all of it alone.                  *)
(***************************************************************************)
KernelIntact ==
    pc \in {"pages", "regions", "done"} =>
        \A i \in DOMAIN segs :
            LET s == segs[i] IN
            \A k \in 0 .. s.memsz - 1 :
                mem[s.va + k] = IF k < s.filesz THEN FileCell(s.offset + k) ELSE Zero

(***************************************************************************)
(* The pages that lie in RAM and behind the descriptors.                   *)
(***************************************************************************)
Usable == {p \in 0 .. npage - 1 :
              /\ p * PG_SIZE >= valid_mem
              /\ \E e \in Ram : e.addr <= p * PG_SIZE /\ (p + 1) * PG_SIZE <= Limit(e)}

(***************************************************************************)
(* The maps page_init() is made for: RAM ends below 4 GiB, and an entry    *)
(* that reaches beyond the descriptors has a whole page there.             *)
(***************************************************************************)
Handled ==
    \A e \in Ram :
        /\ Limit(e) < W
        /\ Limit(e) > valid_mem =>
              \E p \in Usable : e.addr <= p * PG_SIZE /\ (p + 1) * PG_SIZE <= Limit(e)

(***************************************************************************)
(* For such maps, page_init() registers every page that is RAM and clear   *)
(* of the kernel and the descriptors, each once, and no other page,        *)
(* whatever the alignment and the order of the entries: module FirstFit's  *)
(* assumption on Regions, up to the space between neighbours.              *)
(***************************************************************************)
RegionsSound ==
    (pc \in {"regions", "done"} /\ Handled) =>
        LET run(i) == regions[i].base .. regions[i].base + regions[i].n - 1
        IN /\ \A i, j \in DOMAIN regions : i # j => run(i) \cap run(j) = {}
           /\ \A i \in DOMAIN regions : run(i) # {} /\ run(i) \subseteq Usable
           /\ pc = "done" => UNION {run(i) : i \in DOMAIN regions} = Usable
=============================================================================

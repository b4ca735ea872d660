------------------------------- MODULE MCBoot -------------------------------
(***************************************************************************)
(* Kernels of one or two segments, the second page-aligned, in the page of *)
(* the first, or at an odd offset in a page of its own, with and without   *)
(* data and bss; memory maps made of the intervals between a few cuts,     *)
(* some of them within a page, one at and one beyond the 32-bit limit.     *)
(***************************************************************************)
EXTENDS Boot

Text == [va |-> 8, offset |-> 4, filesz |-> 5, memsz |-> 5]

Data == {[va |-> v, offset |-> o, filesz |-> f, memsz |-> f + b] :
            v \in {13, 15, 16, 17}, o \in 9 .. 13, f \in {0, 3}, b \in {0, 3}}

Linked(d) == /\ d.va % PG_SIZE = d.offset % PG_SIZE
             /\ d.va - d.offset = 4 \/ d.va >= 16
             /\ d.memsz > 0

MCLayouts == {<<[Text EXCEPT !.memsz = 5 + b]>> : b \in {0, 3}}
             \cup {<<Text, d>> : d \in {x \in Data : Linked(x)}}

Cuts == {0, 8, 22, 26, 31, 36, 41, 63, 64, 70}

MCEntries == {[addr |-> c[1], size |-> c[2] - c[1], ram |-> r] :
                 c \in {x \in Cuts \X Cuts : x[1] < x[2]}, r \in BOOLEAN}
=============================================================================

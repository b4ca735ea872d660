---------------------------- MODULE VirtualMemory ----------------------------
(***************************************************************************)
(* What paging promises a program: a page reads what was last stored to    *)
(* it.  Pages come and go between memory and the swap area, and that shows *)
(* nowhere, with one exception.  The swap area's Capacity slots are handed *)
(* out in turn and never given back: once they have all been used, a page  *)
(* in the swap area may be overwritten.  A page in memory never is.        *)
(***************************************************************************)
EXTENDS Integers

CONSTANTS Pages, Values, Capacity, Null

VARIABLES contents,     \* what a program reads in each page, Null for none yet
          stored,       \* what was last stored in it
          resident,     \* the pages in memory
          outs          \* pages moved to the swap area so far

vvars == <<contents, stored, resident, outs>>

VInit ==
    /\ contents = [a \in Pages |-> Null]
    /\ stored = [a \in Pages |-> Null]
    /\ resident = {}
    /\ outs = 0

VPut(a, v) ==
    /\ contents' = [contents EXCEPT ![a] = v]
    /\ stored' = [stored EXCEPT ![a] = v]
    /\ UNCHANGED outs

(***************************************************************************)
(* A page comes into being with some contents.                             *)
(***************************************************************************)
Appear(a) ==
    /\ contents[a] = Null
    /\ \E v \in Values : VPut(a, v)
    /\ resident' = resident \cup {a}

Store(a) ==
    /\ a \in resident
    /\ \E v \in Values : VPut(a, v)
    /\ UNCHANGED resident

MoveIn(a) ==
    /\ a \notin resident /\ contents[a] # Null
    /\ resident' = resident \cup {a}
    /\ UNCHANGED <<contents, stored, outs>>

(***************************************************************************)
(* What a write to the swap area may do to the pages `safe` is not about.  *)
(***************************************************************************)
SwapWrite(safe) ==
    /\ contents' \in [Pages -> Values \cup {Null}]
    /\ \A a \in Pages :
          contents'[a] # contents[a] => /\ outs >= Capacity
                                        /\ a \notin safe
                                        /\ contents[a] # Null /\ contents'[a] # Null
    /\ UNCHANGED stored

MoveOut(a) ==
    /\ a \in resident
    /\ resident' = resident \ {a}
    /\ outs' = outs + 1
    /\ SwapWrite(resident)

(***************************************************************************)
(* A page stays in memory although the swap area was written.              *)
(***************************************************************************)
MoveOutFails == SwapWrite(resident) /\ UNCHANGED <<resident, outs>>

VNext ==
    \/ \E a \in Pages : Appear(a) \/ Store(a) \/ MoveIn(a) \/ MoveOut(a)
    \/ MoveOutFails

VSpec == VInit /\ [][VNext]_vvars
=============================================================================

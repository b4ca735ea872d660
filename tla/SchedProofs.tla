---------------------------- MODULE SchedProofs ----------------------------
(***************************************************************************)
(* Proofs about processes, for every number of PIDs and of pages.          *)
(***************************************************************************)
EXTENDS Sched, FiniteSetTheorems, WellFoundedInduction, TLAPS

-----------------------------------------------------------------------------
(***************************************************************************)
(* The inductive invariant.                                                *)
(*                                                                         *)
(* TableInv: PIDs are given out in order, and the list, the hash table and *)
(* the two counters all hold exactly the PIDs below next_pid.              *)
(***************************************************************************)
Distinct(s) == \A i, j \in 1 .. Len(s) : s[i] = s[j] => i = j

TableInv ==
    /\ hashed = 0 .. next_pid - 1
    /\ Linked = hashed
    /\ nr_process = next_pid
    /\ Len(proc_list) = next_pid
    /\ Distinct(proc_list)

(***************************************************************************)
(* PlaceInv: the current process is in its own code, in do_fork() or in    *)
(* do_exit(); every other one is inside switch_to() or has never run.      *)
(***************************************************************************)
Busy == {"run", "stack", "link", "wake", "found", "exit", "reparent", "leave"}

Parked == {"absent", "forkret", "switched", "gone"}

Exiting == {"exit", "reparent", "leave", "gone"}

PlaceInv ==
    /\ current < next_pid
    /\ pc[current] \in Busy
    /\ \A t \in Tasks : t # current => pc[t] \in Parked
    /\ \A t \in Tasks : t < next_pid => pc[t] # "absent"

(***************************************************************************)
(* StateInv: what a process's state says of where it is.                   *)
(***************************************************************************)
StateInv ==
    /\ \A t \in Tasks : state[t] = "ZOMBIE" <=> pc[t] \in Exiting
    /\ \A t \in Tasks : state[t] = "RUNNING" => t = current
    /\ \A t \in Tasks : state[t] = "UNINIT" <=>
                           t >= next_pid \/ (pc[current] = "wake" /\ t = child)

(***************************************************************************)
(* ForkInv: do_fork()'s child is the next PID until set_links(), then the  *)
(* newest one, and has never run.                                          *)
(***************************************************************************)
ForkInv ==
    /\ pc[current] \in {"stack", "link"} =>
          child = next_pid /\ next_pid <= MaxPid /\ parent[child] = current
    /\ pc[current] = "link" => pc[child] = "forkret"
    /\ pc[current] \in {"wake", "found"} =>
          /\ child = next_pid - 1 /\ child # current /\ child > 0
          /\ pc[child] = "forkret"

(***************************************************************************)
(* BootInv: idle and init never exit, and idle alone runs before init.     *)
(***************************************************************************)
BootInv ==
    /\ pc[idle_proc] \in Busy \cup {"switched"}
    /\ pc[idle_proc] \notin Exiting
    /\ init_proc = None => current = idle_proc
    /\ pc[current] = "found" => init_proc = None
    /\ init_proc # None =>
          /\ init_proc > 0 /\ init_proc < next_pid
          /\ pc[init_proc] \notin Exiting

(***************************************************************************)
(* IntrInv: interrupts are off in do_exit()'s loop only, and every         *)
(* process that is in switch_to() will turn them on.                       *)
(***************************************************************************)
IntrInv ==
    /\ InterruptsRestored
    /\ pc[current] = "reparent" => ~intr /\ saved[current]
    /\ \A t \in Tasks : pc[t] = "switched" => saved[t]

(***************************************************************************)
(* FamilyInv: for every p there is a sequence of p's children that the     *)
(* pointers lay out.  FamilyTree is not inductive: in do_exit()'s loop the *)
(* child at the head has a stale yptr, until it is moved itself.           *)
(***************************************************************************)
LaidOut(s, first, older, younger) ==
    /\ first = IF s = << >> THEN None ELSE s[1]
    /\ \A i \in 1 .. Len(s) :
          /\ older[s[i]] = IF i = Len(s) THEN None ELSE s[i + 1]
          /\ i > 1 => younger[s[i]] = s[i - 1]

Family(p, s) ==
    /\ Distinct(s)
    /\ ToSet(s) = {t \in hashed : parent[t] = p}
    /\ LaidOut(s, cptr[p], optr, yptr)
    /\ s # << >> /\ ~(p = current /\ pc[current] = "reparent") => yptr[s[1]] = None

FamilyInv == \A p \in Tasks : \E s \in Seq(Tasks) : Family(p, s)

ParentInv ==
    /\ parent[idle_proc] = None
    /\ \A t \in hashed \ {idle_proc} :
          parent[t] \in hashed /\ pc[parent[t]] \notin {"leave", "gone"}

IInv ==
    /\ TypeOK
    /\ TableInv
    /\ PlaceInv
    /\ StateInv
    /\ ForkInv
    /\ BootInv
    /\ IntrInv
    /\ FamilyInv
    /\ ParentInv

-----------------------------------------------------------------------------
(***************************************************************************)
(* A set of naturals that is not empty has a least element.                *)
(***************************************************************************)
LEMMA NatMin ==
    ASSUME NEW T \in SUBSET Nat, T # {}
    PROVE  \E x \in T : \A y \in T : x <= y
<1> DEFINE R == OpToRel(<, Nat)
<1>1. IsWellFoundedOn(R, Nat)
  BY NatLessThanWellFounded
<1>2. \A x, y \in Nat : <<x, y>> \in R <=> x < y
  BY DEF OpToRel
<1> HIDE DEF R
<1>3. PICK x \in T : \A y \in T : ~(<<y, x>> \in R)
  BY <1>1, WFMin
<1>4. \A y \in T : x \in Nat /\ y \in Nat /\ ~(y < x)
  BY <1>2, <1>3
<1>5. \A y \in T : x <= y
  BY <1>4
<1> QED
  BY <1>5

(***************************************************************************)
(* A sequence and the set of its elements when one element is put in front *)
(* of it, as list_add() does with the list of processes and set_links()    *)
(* with the chain of siblings.                                             *)
(***************************************************************************)
LEMMA ConsFacts ==
    ASSUME NEW S, NEW s \in Seq(S), NEW e \in S
    PROVE  LET r == Cons(e, s) IN
           /\ r \in Seq(S) /\ Len(s) \in Nat /\ Len(r) = Len(s) + 1
           /\ r[1] = e
           /\ \A i \in 1 .. Len(s) : r[i + 1] = s[i]
           /\ ToSet(r) = ToSet(s) \cup {e}
           /\ Distinct(s) /\ e \notin ToSet(s) => Distinct(r)
<1> DEFINE r == Cons(e, s)
<1>1. r \in Seq(S) /\ Len(s) \in Nat /\ Len(r) = Len(s) + 1
      /\ r[1] = e /\ \A i \in 1 .. Len(s) : r[i + 1] = s[i]
  BY DEF Cons
<1> HIDE DEF r
<1>2. \A i \in 1 .. Len(r) : i = 1 \/ (i - 1 \in 1 .. Len(s) /\ r[i] = s[i - 1])
  <2> TAKE i \in 1 .. Len(r)
  <2>1. ASSUME i # 1 PROVE i - 1 \in 1 .. Len(s) /\ r[i] = s[i - 1]
    <3>1. i - 1 \in 1 .. Len(s) /\ (i - 1) + 1 = i
      BY <1>1, <2>1
    <3> QED
      BY <1>1, <3>1
  <2> QED
    BY <2>1
<1>3. DOMAIN r = 1 .. Len(r) /\ DOMAIN s = 1 .. Len(s)
  BY <1>1
<1>4. \A i \in 1 .. Len(s) : i + 1 \in 1 .. Len(r)
  BY <1>1
<1>5. 1 \in 1 .. Len(r)
  BY <1>1
<1>6. ToSet(r) = ToSet(s) \cup {e}
  <2>1. \A x \in ToSet(r) : x \in ToSet(s) \cup {e}
    BY <1>1, <1>2, <1>3 DEF ToSet
  <2>2. \A x \in ToSet(s) : x \in ToSet(r)
    BY <1>1, <1>3, <1>4 DEF ToSet
  <2>3. e \in ToSet(r)
    BY <1>1, <1>3, <1>5 DEF ToSet
  <2> QED
    BY <2>1, <2>2, <2>3
<1>7. ASSUME Distinct(s), e \notin ToSet(s) PROVE Distinct(r)
  <2> SUFFICES ASSUME NEW i \in 1 .. Len(r), NEW j \in 1 .. Len(r), r[i] = r[j]
               PROVE  i = j
    BY DEF Distinct
  <2>1. \A k \in 1 .. Len(s) : s[k] # e
    BY <1>3, <1>7 DEF ToSet
  <2>2. CASE i = 1 \/ j = 1
    BY <1>1, <1>2, <2>1, <2>2
  <2>3. CASE i # 1 /\ j # 1
    <3>1. i - 1 = j - 1
      BY <1>2, <1>7, <2>3 DEF Distinct
    <3> QED
      BY <3>1
  <2> QED
    BY <2>2, <2>3
<1> QED
  BY <1>1, <1>2, <1>6, <1>7 DEF r

(***************************************************************************)
(* The same for a sequence that loses its first element.                   *)
(***************************************************************************)
LEMMA TailFacts ==
    ASSUME NEW S, NEW s \in Seq(S), s # << >>, Distinct(s)
    PROVE  /\ Tail(s) \in Seq(S) /\ Len(s) \in Nat /\ Len(s) >= 1
           /\ Len(Tail(s)) = Len(s) - 1
           /\ \A i \in 1 .. Len(Tail(s)) : /\ i + 1 \in 1 .. Len(s)
                                           /\ Tail(s)[i] = s[i + 1]
           /\ s[1] \in S
           /\ ToSet(Tail(s)) = ToSet(s) \ {s[1]}
           /\ Distinct(Tail(s))
<1> DEFINE r == Tail(s)
<1>1. r \in Seq(S) /\ Len(s) \in Nat /\ Len(s) >= 1 /\ Len(r) = Len(s) - 1
      /\ s[1] \in S /\ \A i \in 1 .. Len(s) - 1 : r[i] = s[i + 1]
  OBVIOUS
<1> HIDE DEF r
<1>2. \A i \in 1 .. Len(r) : i + 1 \in 1 .. Len(s) /\ r[i] = s[i + 1]
  BY <1>1
<1>3. \A i \in 1 .. Len(s) : i = 1 \/ (i - 1 \in 1 .. Len(r) /\ s[i] = r[i - 1])
  <2> TAKE i \in 1 .. Len(s)
  <2>1. ASSUME i # 1 PROVE i - 1 \in 1 .. Len(r) /\ s[i] = r[i - 1]
    <3>1. i - 1 \in 1 .. Len(r) /\ (i - 1) + 1 = i
      BY <1>1, <2>1
    <3> QED
      BY <1>2, <3>1
  <2> QED
    BY <2>1
<1>4. DOMAIN r = 1 .. Len(r) /\ DOMAIN s = 1 .. Len(s) /\ 1 \in 1 .. Len(s)
  BY <1>1
<1>5. \A i \in 1 .. Len(r) : r[i] # s[1]
  <2> TAKE i \in 1 .. Len(r)
  <2>1. i + 1 # 1
    BY <1>1
  <2> QED
    BY <1>2, <1>4, <2>1 DEF Distinct
<1>6. ToSet(r) = ToSet(s) \ {s[1]}
  <2>1. \A x \in ToSet(r) : x \in ToSet(s) /\ x # s[1]
    BY <1>2, <1>4, <1>5 DEF ToSet
  <2>2. \A x \in ToSet(s) : x # s[1] => x \in ToSet(r)
    BY <1>3, <1>4 DEF ToSet
  <2> QED
    BY <2>1, <2>2
<1>7. Distinct(r)
  <2> SUFFICES ASSUME NEW i \in 1 .. Len(r), NEW j \in 1 .. Len(r), r[i] = r[j]
               PROVE  i = j
    BY DEF Distinct
  <2>1. i + 1 = j + 1
    BY <1>2 DEF Distinct
  <2> QED
    BY <2>1
<1> QED
  BY <1>1, <1>2, <1>6, <1>7 DEF r

(***************************************************************************)
(* A sequence without repetition has as many members as places.            *)
(***************************************************************************)
LEMMA DistinctCount ==
    ASSUME NEW S, NEW s \in Seq(S), Distinct(s)
    PROVE  Cardinality(ToSet(s)) = Len(s)
<1>1. Len(s) \in Nat /\ DOMAIN s = 1 .. Len(s)
  OBVIOUS
<1>2. IsFiniteSet(1 .. Len(s)) /\ Cardinality(1 .. Len(s)) = Len(s)
  BY <1>1, FS_Interval
<1>3. ExistsBijection(1 .. Len(s), ToSet(s))
  <2> DEFINE f == [i \in 1 .. Len(s) |-> s[i]]
  <2>1. f \in [1 .. Len(s) -> ToSet(s)]
    BY <1>1 DEF ToSet
  <2>2. \A i, j \in 1 .. Len(s) : f[i] = f[j] => i = j
    BY DEF Distinct
  <2>3. \A e \in ToSet(s) : \E i \in 1 .. Len(s) : f[i] = e
    BY <1>1 DEF ToSet
  <2> HIDE DEF f
  <2>4. f \in Bijection(1 .. Len(s), ToSet(s))
    BY <2>1, <2>2, <2>3 DEF Bijection, Injection, Surjection, IsInjective
  <2> QED
    BY <2>4 DEF ExistsBijection
<1> QED
  BY <1>2, <1>3, FS_Bijection

(***************************************************************************)
(* What set_links() makes of a chain of siblings: a new first child, which *)
(* the old one knows as its younger sibling.                               *)
(***************************************************************************)
LEMMA LaidOutCons ==
    ASSUME NEW s \in Seq(Tasks), Distinct(s), NEW e \in Tasks, e \notin ToSet(s),
           NEW c, NEW o, NEW y, NEW o2, NEW y2,
           LaidOut(s, c, o, y),
           o2[e] = c,
           \A t \in ToSet(s) : o2[t] = o[t],
           \A t \in ToSet(s) : t = c => y2[t] = e,
           \A t \in ToSet(s) : t # c => y2[t] = y[t]
    PROVE  LaidOut(Cons(e, s), e, o2, y2)
<1> DEFINE r == Cons(e, s)
<1>1. /\ r \in Seq(Tasks) /\ Len(s) \in Nat /\ Len(r) = Len(s) + 1
      /\ r[1] = e
      /\ \A i \in 1 .. Len(s) : r[i + 1] = s[i]
      /\ \A i \in 1 .. Len(r) : i = 1 \/ (i - 1 \in 1 .. Len(s) /\ r[i] = s[i - 1])
  <2>1. /\ r \in Seq(Tasks) /\ Len(s) \in Nat /\ Len(r) = Len(s) + 1
        /\ r[1] = e
        /\ \A i \in 1 .. Len(s) : r[i + 1] = s[i]
    BY ConsFacts
  <2> HIDE DEF r
  <2>2. \A i \in 1 .. Len(r) : i = 1 \/ i - 1 \in 1 .. Len(s)
    BY <2>1
  <2>3. \A i \in 1 .. Len(r) : (i - 1) + 1 = i
    BY <2>1
  <2>4. \A i \in 1 .. Len(r) : i = 1 \/ r[i] = s[i - 1]
    BY <2>1, <2>2, <2>3
  <2> QED
    BY <2>1, <2>2, <2>4
<1> HIDE DEF r
<1>2. \A i \in 1 .. Len(s) : s[i] \in ToSet(s) /\ s[i] \in Tasks
  BY DEF ToSet
<1>3. s = << >> <=> Len(s) = 0
  OBVIOUS
<1>4. r # << >>
  BY <1>1
<1>5. o2[r[1]] = IF 1 = Len(r) THEN None ELSE r[2]
  <2>1. CASE Len(s) = 0
    BY <1>1, <1>3, <2>1 DEF LaidOut
  <2>2. CASE Len(s) # 0
    <3>1. c = s[1] /\ r[2] = s[1] /\ 1 # Len(r)
      BY <1>1, <1>3, <2>2 DEF LaidOut
    <3> QED
      BY <1>1, <3>1
  <2> QED
    BY <2>1, <2>2
<1>6. ASSUME NEW i \in 1 .. Len(r), i # 1
      PROVE  /\ o2[r[i]] = IF i = Len(r) THEN None ELSE r[i + 1]
             /\ y2[r[i]] = r[i - 1]
  <2> DEFINE j == i - 1
  <2>1. j \in 1 .. Len(s) /\ r[i] = s[j] /\ i = j + 1
    BY <1>1, <1>6
  <2> HIDE DEF j
  <2>2. o2[s[j]] = o[s[j]] /\ y2[s[j]] = IF s[j] = c THEN e ELSE y[s[j]]
    BY <1>2, <2>1
  <2>3. o[s[j]] = IF j = Len(s) THEN None ELSE s[j + 1]
    BY <2>1 DEF LaidOut
  <2>4. j # Len(s) => r[i + 1] = s[j + 1]
    <3>1. j # Len(s) => j + 1 \in 1 .. Len(s)
      BY <1>1, <2>1
    <3> QED
      BY <1>1, <2>1, <3>1
  <2>5. o2[r[i]] = IF i = Len(r) THEN None ELSE r[i + 1]
    BY <1>1, <2>1, <2>2, <2>3, <2>4
  <2>6. c = s[1] /\ 1 \in 1 .. Len(s)
    BY <1>1, <1>3, <2>1 DEF LaidOut
  <2>7. CASE j = 1
    <3>1. i - 1 = 1 /\ r[i] = c
      BY <2>1, <2>6, <2>7
    <3>2. y2[c] = e
      BY <2>2, <2>6, <2>7
    <3> QED
      BY <1>1, <2>5, <3>1, <3>2
  <2>8. CASE j > 1
    <3>1. s[j] # c
      BY <2>1, <2>6, <2>8 DEF Distinct
    <3>2. y[s[j]] = s[j - 1]
      BY <2>1, <2>8 DEF LaidOut
    <3>3. j - 1 \in 1 .. Len(s) /\ (j - 1) + 1 = j /\ i - 1 = j
      BY <1>1, <2>1, <2>8
    <3>4. r[j] = s[j - 1]
      BY <1>1, <3>3
    <3> QED
      BY <2>1, <2>2, <2>5, <3>1, <3>2, <3>3, <3>4
  <2> QED
    BY <1>1, <2>1, <2>5, <2>7, <2>8
<1>7. ASSUME NEW i \in 1 .. Len(r)
      PROVE  /\ o2[r[i]] = IF i = Len(r) THEN None ELSE r[i + 1]
             /\ i > 1 => y2[r[i]] = r[i - 1]
  BY <1>1, <1>5, <1>6
<1> QED
  BY <1>1, <1>4, <1>7 DEF LaidOut, r

(***************************************************************************)
(* What do_exit()'s loop leaves of the chain it takes a child from.        *)
(***************************************************************************)
LEMMA LaidOutTail ==
    ASSUME NEW s \in Seq(Tasks), Distinct(s), s # << >>,
           NEW c, NEW o, NEW y, NEW o2, NEW y2,
           LaidOut(s, c, o, y),
           \A t \in ToSet(Tail(s)) : o2[t] = o[t] /\ y2[t] = y[t]
    PROVE  LaidOut(Tail(s), o[c], o2, y2)
<1> DEFINE r == Tail(s)
<1>1. /\ r \in Seq(Tasks) /\ Len(s) \in Nat /\ Len(s) >= 1 /\ Len(r) = Len(s) - 1
      /\ \A i \in 1 .. Len(r) : i + 1 \in 1 .. Len(s) /\ r[i] = s[i + 1]
  BY TailFacts
<1> HIDE DEF r
<1>2. \A i \in 1 .. Len(r) : r[i] \in ToSet(r)
  BY <1>1 DEF ToSet
<1>3. r = << >> <=> Len(r) = 0
  BY <1>1
<1>4. c = s[1] /\ 1 \in 1 .. Len(s)
  BY <1>1 DEF LaidOut
<1>5. o[c] = IF r = << >> THEN None ELSE r[1]
  <2>1. o[s[1]] = IF 1 = Len(s) THEN None ELSE s[2]
    <3>1. o[s[1]] = IF 1 = Len(s) THEN None ELSE s[1 + 1]
      BY <1>4 DEF LaidOut
    <3> QED
      BY <3>1
  <2>2. Len(r) # 0 => r[1] = s[2]
    BY <1>1
  <2> QED
    BY <1>1, <1>3, <1>4, <2>1, <2>2
<1>6. ASSUME NEW i \in 1 .. Len(r)
      PROVE  /\ o2[r[i]] = IF i = Len(r) THEN None ELSE r[i + 1]
             /\ i > 1 => y2[r[i]] = r[i - 1]
  <2>1. o2[r[i]] = o[s[i + 1]] /\ y2[r[i]] = y[s[i + 1]]
    BY <1>1, <1>2 DEF r
  <2>2. /\ o[s[i + 1]] = IF i + 1 = Len(s) THEN None ELSE s[(i + 1) + 1]
        /\ i + 1 > 1 => y[s[i + 1]] = s[(i + 1) - 1]
    BY <1>1 DEF LaidOut
  <2>3. i # Len(r) => i + 1 \in 1 .. Len(r)
    BY <1>1
  <2>4. i > 1 => i - 1 \in 1 .. Len(r) /\ (i - 1) + 1 = i
    BY <1>1
  <2>5. i > 1 => r[i - 1] = s[i]
    BY <1>1, <2>4
  <2>6. i # Len(r) => r[i + 1] = s[(i + 1) + 1]
    BY <1>1, <2>3
  <2>7. (i + 1) - 1 = i /\ i + 1 > 1 /\ (i + 1 = Len(s) <=> i = Len(r))
    BY <1>1
  <2> QED
    BY <2>1, <2>2, <2>5, <2>6, <2>7
<1> QED
  BY <1>5, <1>6 DEF LaidOut, r

(***************************************************************************)
(* A chain none of whose members changes its pointers.                     *)
(***************************************************************************)
LEMMA LaidOutSame ==
    ASSUME NEW s \in Seq(Tasks), NEW c, NEW o, NEW y, NEW o2, NEW y2,
           LaidOut(s, c, o, y),
           \A t \in ToSet(s) : o2[t] = o[t] /\ y2[t] = y[t]
    PROVE  LaidOut(s, c, o2, y2)
<1>1. \A i \in 1 .. Len(s) : s[i] \in ToSet(s)
  BY DEF ToSet
<1> QED
  BY <1>1 DEF LaidOut

-----------------------------------------------------------------------------
(***************************************************************************)
(* What the proofs use of the constants.                                   *)
(***************************************************************************)
LEMMA ConstantFacts ==
    /\ MaxPid \in Nat /\ MaxPid >= 1 /\ KPages \in Nat
    /\ Tasks \subseteq Nat /\ idle_proc \in Tasks /\ idle_proc = 0
    /\ None \notin Tasks
    /\ \A t : t \in Tasks <=> t \in Nat /\ t <= MaxPid
BY MaxPidAssumption, KPagesAssumption, NoneAssumption DEF Tasks, idle_proc

(***************************************************************************)
(* The state sched_init() starts from satisfies the invariant.             *)
(***************************************************************************)
LEMMA InitIInv == Init => IInv
<1> SUFFICES ASSUME Init PROVE IInv
  OBVIOUS
<1> USE ConstantFacts
<1>1. TypeOK
  <2>1. /\ proc_list \in Seq(Tasks) /\ hashed \subseteq Tasks /\ nr_process \in Nat
        /\ next_pid \in 1 .. MaxPid + 1 /\ current \in Tasks /\ pages \in Nat
        /\ init_proc \in Tasks \cup {None} /\ child \in Tasks \cup {None}
    BY DEF Init
  <2>2. state \in [Tasks -> States] /\ pc \in [Tasks -> Places]
    BY DEF Init, States, Places
  <2>3. parent \in [Tasks -> Tasks \cup {None}] /\ cptr \in [Tasks -> Tasks \cup {None}]
        /\ yptr \in [Tasks -> Tasks \cup {None}] /\ optr \in [Tasks -> Tasks \cup {None}]
    BY DEF Init
  <2>4. intr \in BOOLEAN /\ saved \in [Tasks -> BOOLEAN] /\ calls \in {0, 1}
        /\ hung \in BOOLEAN
    BY DEF Init
  <2> QED
    BY <2>1, <2>2, <2>3, <2>4 DEF TypeOK
<1>2. ToSet(proc_list) = {idle_proc} /\ Len(proc_list) = 1 /\ Distinct(proc_list)
  BY DEF Init, ToSet, Distinct
<1>3. 0 .. 1 - 1 = {idle_proc}
  OBVIOUS
<1>4. TableInv
  BY <1>2, <1>3 DEF Init, TableInv, Linked
<1>5. PlaceInv
  BY DEF Init, PlaceInv, Busy, Parked
<1>6. StateInv
  BY DEF Init, StateInv, Exiting
<1>7. ForkInv /\ BootInv
  BY DEF Init, ForkInv, BootInv, Busy, Exiting
<1>8. IntrInv
  BY DEF Init, IntrInv, InterruptsRestored
<1>9. FamilyInv
  <2>0. << >> \in Seq(Tasks)
    OBVIOUS
  <2> SUFFICES ASSUME NEW p \in Tasks PROVE Family(p, << >>)
    BY <2>0 DEF FamilyInv
  <2>1. ToSet(<< >>) = {}
    BY DEF ToSet
  <2>2. {t \in hashed : parent[t] = p} = {}
    BY DEF Init
  <2>3. Len(<< >>) = 0
    OBVIOUS
  <2> QED
    BY <2>1, <2>2, <2>3 DEF Family, Distinct, LaidOut, Init
<1>10. ParentInv
  BY DEF Init, ParentInv
<1> QED
  BY <1>1, <1>4, <1>5, <1>6, <1>7, <1>8, <1>9, <1>10 DEF IInv

(***************************************************************************)
(* A step that does not touch the family pointers of listed processes      *)
(* keeps the chains, if it does not end do_exit()'s loop too early.        *)
(***************************************************************************)
LEMMA FamilySame ==
    ASSUME FamilyInv, UNCHANGED <<hashed, cptr, optr, yptr>>,
           \A t \in hashed : parent'[t] = parent[t],
           pc[current] = "reparent" /\ cptr[current] # None =>
               current' = current /\ pc'[current] = "reparent"
    PROVE  FamilyInv'
<1> SUFFICES ASSUME NEW p \in Tasks
             PROVE  (\E s \in Seq(Tasks) : Family(p, s))'
  BY DEF FamilyInv
<1>1. PICK s \in Seq(Tasks) : Family(p, s)
  BY DEF FamilyInv
<1>2. {t \in hashed' : parent'[t] = p} = {t \in hashed : parent[t] = p}
  OBVIOUS
<1>3. /\ Distinct(s) /\ ToSet(s) = {t \in hashed : parent[t] = p}
      /\ LaidOut(s, cptr[p], optr, yptr)
      /\ s # << >> /\ ~(p = current /\ pc[current] = "reparent") =>
            yptr[s[1]] = None
  BY <1>1 DEF Family
<1>4. s # << >> => cptr[p] # None
  <2>1. s # << >> => s[1] \in Tasks
    OBVIOUS
  <2> QED
    BY <1>3, <2>1, ConstantFacts DEF LaidOut
<1>5. s # << >> /\ ~(p = current' /\ pc'[current'] = "reparent") =>
         yptr'[s[1]] = None
  BY <1>3, <1>4
<1>6. LaidOut(s, cptr'[p], optr', yptr')
  BY <1>3
<1>7. Family(p, s)'
  BY <1>2, <1>3, <1>5, <1>6 DEF Family
<1> QED
  BY <1>7

(***************************************************************************)
(* The current process moves on; the others stay where they are.           *)
(***************************************************************************)
LEMMA GotoFacts ==
    ASSUME TypeOK, NEW x \in Places, Goto(x)
    PROVE  /\ pc' \in [Tasks -> Places]
           /\ pc'[current] = x
           /\ \A t \in Tasks : t # current => pc'[t] = pc[t]
BY DEF TypeOK, Goto

(***************************************************************************)
(* Facts about the current process that most steps need.                   *)
(***************************************************************************)
LEMMA CurrentFacts ==
    ASSUME IInv
    PROVE  /\ TypeOK
           /\ next_pid \in Nat /\ 1 <= next_pid /\ next_pid <= MaxPid + 1
           /\ current \in Tasks /\ current \in Nat /\ current < next_pid
           /\ current \in hashed
           /\ hashed = 0 .. next_pid - 1
           /\ \A t \in Tasks : t \in hashed <=> t < next_pid
           /\ \A t \in hashed : t \in Tasks /\ t \in Nat
           /\ pc[current] \in Exiting => init_proc # None /\ current # init_proc
<1> USE ConstantFacts
<1>1. TypeOK /\ next_pid \in 1 .. MaxPid + 1 /\ current \in Tasks
      /\ current < next_pid /\ hashed = 0 .. next_pid - 1
  BY DEF IInv, TypeOK, PlaceInv, TableInv
<1>2. pc[current] \in Exiting => init_proc # None /\ current # init_proc
  BY DEF IInv, BootInv
<1> QED
  BY <1>1, <1>2

-----------------------------------------------------------------------------
(***************************************************************************)
(* do_fork() up to the assignment of parent.                               *)
(***************************************************************************)
LEMMA ForkAllocStep ==
    ASSUME IInv, ForkAlloc, ~OutOfMemory PROVE IInv'
<1>1. /\ TypeOK /\ pc[current] = "run" /\ next_pid <= MaxPid
      /\ pages > 0 /\ pages' = pages - 1 /\ child' = next_pid
      /\ parent' = [parent EXCEPT ![next_pid] = current] /\ Goto("stack")
      /\ UNCHANGED <<proc_list, hashed, nr_process, next_pid, cptr, yptr, optr,
                     current, init_proc, state, intr, saved, calls, hung>>
  BY DEF IInv, ForkAlloc, At
<1>2. /\ next_pid \in Nat /\ 1 <= next_pid /\ next_pid \in Tasks
      /\ current \in Tasks /\ current < next_pid /\ current \in hashed
      /\ next_pid \notin hashed /\ next_pid # current
      /\ \A t \in hashed : t \in Tasks
  BY <1>1, CurrentFacts, ConstantFacts
<1>3. /\ pc' \in [Tasks -> Places] /\ pc'[current] = "stack"
      /\ \A t \in Tasks : t # current => pc'[t] = pc[t]
  BY <1>1, GotoFacts DEF Places
<1>4. /\ parent' \in [Tasks -> Tasks \cup {None}] /\ parent'[next_pid] = current
      /\ \A t \in Tasks : t # next_pid => parent'[t] = parent[t]
  BY <1>1, <1>2 DEF TypeOK
<1>5. TypeOK'
  <2>1. pages' \in Nat
    BY <1>1 DEF TypeOK
  <2>2. child' \in Tasks \cup {None}
    BY <1>1, <1>2
  <2> QED
    BY <1>1, <1>3, <1>4, <2>1, <2>2 DEF TypeOK
<1>6. TableInv'
  BY <1>1 DEF IInv, TableInv, Linked, Distinct
<1>7. PlaceInv'
  BY <1>1, <1>3 DEF IInv, PlaceInv, Busy, Parked
<1>8. StateInv'
  BY <1>1, <1>3 DEF IInv, StateInv, Exiting
<1>9. ForkInv'
  BY <1>1, <1>3, <1>4 DEF ForkInv
<1>10. BootInv'
  BY <1>1, <1>3, ConstantFacts DEF IInv, BootInv, Busy, Exiting, TypeOK
<1>11. IntrInv'
  BY <1>1, <1>3 DEF IInv, IntrInv, InterruptsRestored
<1>12. FamilyInv'
  BY <1>1, <1>2, <1>4, FamilySame DEF IInv
<1>13. ParentInv'
  <2>1. idle_proc \in Tasks /\ idle_proc # next_pid
    BY <1>2, ConstantFacts
  <2>2. \A t \in hashed : parent'[t] = parent[t]
    BY <1>2, <1>4
  <2>3. \A t \in hashed : pc'[t] = pc[t] \/ pc'[t] = "stack"
    BY <1>2, <1>3
  <2>4. \A t \in hashed \ {idle_proc} :
           parent[t] \in hashed /\ pc[parent[t]] \notin {"leave", "gone"}
    BY DEF IInv, ParentInv
  <2>5. \A t \in hashed \ {idle_proc} :
           parent'[t] \in hashed' /\ pc'[parent'[t]] \notin {"leave", "gone"}
    BY <1>1, <2>2, <2>3, <2>4
  <2>6. parent'[idle_proc] = None
    BY <1>4, <2>1 DEF IInv, ParentInv
  <2> QED
    BY <1>1, <2>5, <2>6 DEF ParentInv
<1> QED
  BY <1>5, <1>6, <1>7, <1>8, <1>9, <1>10, <1>11, <1>12, <1>13 DEF IInv

(***************************************************************************)
(* do_fork() gives the child its stack and its first frame.                *)
(***************************************************************************)
LEMMA ForkStackStep ==
    ASSUME IInv, ForkStack, ~OutOfMemory PROVE IInv'
<1>1. /\ TypeOK /\ pc[current] = "stack"
      /\ pages > 0 /\ pages' = pages - 1
      /\ pc' = [pc EXCEPT ![current] = "link", ![child] = "forkret"]
      /\ UNCHANGED <<table, current, init_proc, state, intr, saved, child, calls,
                     hung>>
  BY DEF IInv, ForkStack, At
<1>2. UNCHANGED <<proc_list, hashed, nr_process, next_pid, parent, cptr, yptr, optr>>
  BY <1>1 DEF table
<1>3. /\ child = next_pid /\ next_pid <= MaxPid /\ parent[child] = current
      /\ next_pid \in Nat /\ 1 <= next_pid /\ child \in Tasks
      /\ current \in Tasks /\ current < next_pid /\ current \in hashed
      /\ child \notin hashed /\ child # current /\ child # idle_proc
      /\ \A t \in hashed : t \in Tasks
  BY <1>1, CurrentFacts, ConstantFacts DEF IInv, ForkInv
<1>4. /\ pc' \in [Tasks -> Places] /\ pc'[current] = "link" /\ pc'[child] = "forkret"
      /\ \A t \in Tasks : t # current /\ t # child => pc'[t] = pc[t]
  BY <1>1, <1>3 DEF TypeOK, Places
<1>5. TypeOK'
  <2>1. pages' \in Nat
    BY <1>1 DEF TypeOK
  <2> QED
    BY <1>1, <1>2, <1>4, <2>1 DEF TypeOK
<1>6. TableInv'
  BY <1>2 DEF IInv, TableInv, Linked, Distinct
<1>7. PlaceInv'
  BY <1>1, <1>2, <1>4 DEF IInv, PlaceInv, Busy, Parked
<1>8. StateInv'
  <2>1. state[child] # "ZOMBIE"
    BY <1>3 DEF IInv, StateInv
  <2> QED
    BY <1>1, <1>2, <1>4, <2>1 DEF IInv, StateInv, Exiting
<1>9. ForkInv'
  BY <1>1, <1>2, <1>3, <1>4 DEF ForkInv
<1>10. BootInv'
  <2>1. init_proc # None => init_proc \in Tasks /\ init_proc # child
    BY <1>1, <1>3 DEF IInv, BootInv, TypeOK
  <2> QED
    BY <1>1, <1>2, <1>3, <1>4, <2>1, ConstantFacts DEF IInv, BootInv, Busy, Exiting
<1>11. IntrInv'
  BY <1>1, <1>4 DEF IInv, IntrInv, InterruptsRestored
<1>12. FamilyInv'
  BY <1>1, <1>2, FamilySame DEF IInv
<1>13. ParentInv'
  BY <1>2, <1>3, <1>4, ConstantFacts DEF IInv, ParentInv
<1> QED
  BY <1>5, <1>6, <1>7, <1>8, <1>9, <1>10, <1>11, <1>12, <1>13 DEF IInv

(***************************************************************************)
(* wakeup_proc() and the return of do_fork().                              *)
(***************************************************************************)
LEMMA ForkWakeStep ==
    ASSUME IInv, ForkWake PROVE IInv'
<1> DEFINE x == IF init_proc = None THEN "found" ELSE "run"
<1>1. /\ TypeOK /\ pc[current] = "wake"
      /\ state' = [state EXCEPT ![child] = "RUNNABLE"]
      /\ Goto(x)
      /\ child' = IF init_proc = None THEN child ELSE None
      /\ UNCHANGED <<table, current, init_proc, pages, intr, saved, calls, hung>>
  BY DEF IInv, ForkWake, At
<1>2. UNCHANGED <<proc_list, hashed, nr_process, next_pid, parent, cptr, yptr, optr>>
  BY <1>1 DEF table
<1>3. /\ child = next_pid - 1 /\ child # current /\ child > 0 /\ child \in Tasks
      /\ pc[child] = "forkret" /\ current \in Tasks
      /\ next_pid \in Nat
      /\ \A t \in hashed : t \in Tasks
  BY <1>1, CurrentFacts, ConstantFacts DEF IInv, ForkInv
<1>4. /\ pc' \in [Tasks -> Places] /\ pc'[current] = x
      /\ \A t \in Tasks : t # current => pc'[t] = pc[t]
  BY <1>1, GotoFacts DEF Places
<1>5. /\ state' \in [Tasks -> States] /\ state'[child] = "RUNNABLE"
      /\ \A t \in Tasks : t # child => state'[t] = state[t]
  BY <1>1, <1>3 DEF TypeOK, States
<1>6. TypeOK'
  BY <1>1, <1>2, <1>4, <1>5 DEF TypeOK
<1>7. TableInv'
  BY <1>2 DEF IInv, TableInv, Linked, Distinct
<1>8. PlaceInv'
  BY <1>1, <1>2, <1>4 DEF IInv, PlaceInv, Busy, Parked
<1>9. StateInv'
  <2>1. \A t \in Tasks : state'[t] = "ZOMBIE" <=> pc'[t] \in Exiting
    BY <1>1, <1>3, <1>4, <1>5 DEF IInv, StateInv, Exiting
  <2>2. \A t \in Tasks : state'[t] = "RUNNING" => t = current
    BY <1>5 DEF IInv, StateInv
  <2>3. \A t \in Tasks : state'[t] = "UNINIT" <=> t >= next_pid
    BY <1>1, <1>3, <1>5 DEF IInv, StateInv
  <2> QED
    BY <1>1, <1>2, <1>4, <2>1, <2>2, <2>3 DEF StateInv
<1>10. ForkInv'
  BY <1>1, <1>2, <1>3, <1>4 DEF ForkInv
<1>11. BootInv'
  BY <1>1, <1>2, <1>4, ConstantFacts DEF IInv, BootInv, Busy, Exiting, TypeOK
<1>12. IntrInv'
  BY <1>1, <1>4 DEF IInv, IntrInv, InterruptsRestored
<1>13. FamilyInv'
  BY <1>1, <1>2, FamilySame DEF IInv
<1>14. ParentInv'
  BY <1>2, <1>3, <1>4, ConstantFacts DEF IInv, ParentInv
<1> QED
  BY <1>6, <1>7, <1>8, <1>9, <1>10, <1>11, <1>12, <1>13, <1>14 DEF IInv

(***************************************************************************)
(* init_proc_init() finds the process it has forked, whose PID is not 0.   *)
(***************************************************************************)
LEMMA InitProcFoundStep ==
    ASSUME IInv, InitProcFound PROVE IInv'
<1>1. /\ TypeOK /\ pc[current] = "found"
      /\ init_proc' = IF child \in hashed /\ child > 0 THEN child ELSE None
      /\ child' = None /\ intr' = TRUE /\ Goto("run")
      /\ UNCHANGED <<table, current, state, pages, saved, calls, hung>>
  BY DEF IInv, InitProcFound, At
<1>2. UNCHANGED <<proc_list, hashed, nr_process, next_pid, parent, cptr, yptr, optr>>
  BY <1>1 DEF table
<1>3. /\ child = next_pid - 1 /\ child # current /\ child > 0 /\ child \in Tasks
      /\ pc[child] = "forkret" /\ current \in Tasks
      /\ next_pid \in Nat /\ child \in hashed /\ child < next_pid
      /\ current = idle_proc
      /\ \A t \in hashed : t \in Tasks
  BY <1>1, CurrentFacts, ConstantFacts DEF IInv, ForkInv, BootInv
<1>4. /\ pc' \in [Tasks -> Places] /\ pc'[current] = "run"
      /\ \A t \in Tasks : t # current => pc'[t] = pc[t]
  BY <1>1, GotoFacts DEF Places
<1>5. init_proc' = child /\ child # None
  BY <1>1, <1>3, ConstantFacts
<1>6. TypeOK'
  BY <1>1, <1>2, <1>3, <1>4, <1>5 DEF TypeOK
<1>7. TableInv'
  BY <1>2 DEF IInv, TableInv, Linked, Distinct
<1>8. PlaceInv'
  BY <1>1, <1>2, <1>4 DEF IInv, PlaceInv, Busy, Parked
<1>9. StateInv'
  BY <1>1, <1>2, <1>4 DEF IInv, StateInv, Exiting
<1>10. ForkInv'
  BY <1>1, <1>4 DEF ForkInv
<1>11. BootInv'
  BY <1>1, <1>2, <1>3, <1>4, <1>5, ConstantFacts DEF IInv, BootInv, Busy, Exiting
<1>12. IntrInv'
  BY <1>1, <1>4 DEF IInv, IntrInv, InterruptsRestored
<1>13. FamilyInv'
  BY <1>1, <1>2, FamilySame DEF IInv
<1>14. ParentInv'
  BY <1>2, <1>3, <1>4, ConstantFacts DEF IInv, ParentInv
<1> QED
  BY <1>6, <1>7, <1>8, <1>9, <1>10, <1>11, <1>12, <1>13, <1>14 DEF IInv

(***************************************************************************)
(* get_pid(), hash_proc() and set_links(): the new process is the first in *)
(* the list and the first of its parent's children.                        *)
(***************************************************************************)
LEMMA ForkLinkStep ==
    ASSUME IInv, ForkLink PROVE IInv'
<1>1. /\ TypeOK /\ pc[current] = "link"
      /\ proc_list' = Cons(child, proc_list)
      /\ hashed' = hashed \cup {child}
      /\ nr_process' = nr_process + 1 /\ next_pid' = next_pid + 1
      /\ Goto("wake")
      /\ UNCHANGED <<parent, current, init_proc, state, pages, intr, saved, child,
                     calls, hung>>
  BY DEF IInv, ForkLink, At, Cons
<1>2. /\ child = next_pid /\ next_pid <= MaxPid /\ parent[child] = current
      /\ next_pid \in Nat /\ 1 <= next_pid /\ child \in Tasks
      /\ current \in Tasks /\ current \in Nat /\ current < next_pid
      /\ current \in hashed /\ hashed = 0 .. next_pid - 1
      /\ child \notin hashed /\ child # current /\ child # idle_proc
      /\ pc[child] = "forkret"
      /\ \A t \in hashed : t \in Tasks
  BY <1>1, CurrentFacts, ConstantFacts DEF IInv, ForkInv
<1>3. /\ pc' \in [Tasks -> Places] /\ pc'[current] = "wake"
      /\ \A t \in Tasks : t # current => pc'[t] = pc[t]
  BY <1>1, GotoFacts DEF Places
<1>4. PICK elder : elder = cptr[current]
  OBVIOUS
<1>5. /\ optr' = [optr EXCEPT ![child] = elder]
      /\ yptr' = [t \in Tasks |-> IF t = child THEN None
                                  ELSE IF t = elder THEN child ELSE yptr[t]]
      /\ cptr' = [cptr EXCEPT ![current] = child]
  BY <1>2, <1>4 DEF ForkLink
<1>6. elder \in Tasks \cup {None}
  BY <1>1, <1>2, <1>4 DEF TypeOK
<1>7. /\ optr' \in [Tasks -> Tasks \cup {None}] /\ optr'[child] = elder
      /\ \A t \in Tasks : t # child => optr'[t] = optr[t]
      /\ cptr' \in [Tasks -> Tasks \cup {None}] /\ cptr'[current] = child
      /\ \A t \in Tasks : t # current => cptr'[t] = cptr[t]
  BY <1>1, <1>2, <1>5, <1>6 DEF TypeOK
<1>8. /\ yptr' \in [Tasks -> Tasks \cup {None}] /\ yptr'[child] = None
      /\ \A t \in Tasks : t # child => yptr'[t] = IF t = elder THEN child ELSE yptr[t]
  BY <1>1, <1>2, <1>5 DEF TypeOK
<1>9. /\ proc_list \in Seq(Tasks) /\ Linked = hashed /\ Distinct(proc_list)
      /\ Len(proc_list) = next_pid /\ nr_process = next_pid
  BY <1>1 DEF IInv, TypeOK, TableInv
<1>10. /\ proc_list' \in Seq(Tasks) /\ Len(proc_list') = next_pid + 1
       /\ Linked' = hashed \cup {child}
       /\ Distinct(proc_list)'
  <2>1. child \notin ToSet(proc_list)
    BY <1>2, <1>9 DEF Linked
  <2>2. LET r == Cons(child, proc_list) IN
        /\ r \in Seq(Tasks) /\ Len(r) = Len(proc_list) + 1
        /\ ToSet(r) = ToSet(proc_list) \cup {child}
        /\ Distinct(r)
    BY <1>2, <1>9, <2>1, ConsFacts
  <2> QED
    BY <1>1, <1>9, <2>2 DEF Linked
<1>11. TypeOK'
  <2>1. /\ nr_process' \in Nat /\ next_pid' \in 1 .. MaxPid + 1
        /\ hashed' \subseteq Tasks
    BY <1>1, <1>2, ConstantFacts DEF TypeOK
  <2> QED
    BY <1>1, <1>3, <1>7, <1>8, <1>10, <2>1 DEF TypeOK
<1>12. TableInv'
  <2>1. 0 .. (next_pid + 1) - 1 = hashed \cup {child}
    BY <1>2
  <2> QED
    BY <1>1, <1>9, <1>10, <2>1 DEF TableInv
<1>13. PlaceInv'
  <2>1. \A t \in Tasks : t < next_pid + 1 => t < next_pid \/ t = child
    BY <1>2, ConstantFacts
  <2>2. current < next_pid + 1
    BY <1>2
  <2> QED
    BY <1>1, <1>2, <1>3, <2>1, <2>2 DEF IInv, PlaceInv, Busy, Parked
<1>14. StateInv'
  <2>1. \A t \in Tasks : t >= next_pid <=> t >= next_pid + 1 \/ t = child
    BY <1>2, ConstantFacts
  <2> QED
    BY <1>1, <1>3, <2>1 DEF IInv, StateInv, Exiting
<1>15. ForkInv'
  <2>1. child = (next_pid + 1) - 1 /\ child > 0
    BY <1>2
  <2> QED
    BY <1>1, <1>2, <1>3, <2>1 DEF ForkInv
<1>16. BootInv'
  <2>1. init_proc # None => init_proc \in Tasks /\ init_proc < next_pid + 1
    BY <1>1, <1>2, ConstantFacts DEF IInv, BootInv, TypeOK
  <2> QED
    BY <1>1, <1>2, <1>3, <2>1, ConstantFacts DEF IInv, BootInv, Busy, Exiting
<1>17. IntrInv'
  BY <1>1, <1>3 DEF IInv, IntrInv, InterruptsRestored
<1>18. ParentInv'
  <2>1. \A t \in hashed : pc'[t] = pc[t] \/ pc'[t] = "wake"
    BY <1>2, <1>3
  <2>2. \A t \in hashed \ {idle_proc} :
           parent[t] \in hashed /\ pc[parent[t]] \notin {"leave", "gone"}
    BY DEF IInv, ParentInv
  <2>3. \A t \in hashed \ {idle_proc} :
           parent[t] \in hashed' /\ pc'[parent[t]] \notin {"leave", "gone"}
    BY <1>1, <2>1, <2>2
  <2>4. parent[child] \in hashed' /\ pc'[parent[child]] \notin {"leave", "gone"}
    BY <1>1, <1>2, <1>3
  <2> QED
    BY <1>1, <2>3, <2>4 DEF IInv, ParentInv
<1>19. FamilyInv'
  <2> SUFFICES ASSUME NEW p \in Tasks
               PROVE  (\E s \in Seq(Tasks) : Family(p, s))'
    BY DEF FamilyInv
  <2>1. PICK s \in Seq(Tasks) : Family(p, s)
    BY DEF IInv, FamilyInv
  <2>2. PICK z \in Seq(Tasks) : Family(current, z)
    BY <1>2 DEF IInv, FamilyInv
  <2>3. /\ Distinct(z) /\ ToSet(z) = {t \in hashed : parent[t] = current}
        /\ LaidOut(z, elder, optr, yptr)
    BY <1>1, <1>4, <2>2 DEF Family
  <2>4. elder = None \/ elder \in ToSet(z)
    <3>1. z # << >> => z[1] \in ToSet(z)
      BY DEF ToSet
    <3> QED
      BY <2>3, <3>1 DEF LaidOut
  <2>5. CASE p = current
    <3>1. child \notin ToSet(z)
      BY <1>2, <2>3
    <3>2. /\ \A t \in ToSet(z) : optr'[t] = optr[t]
          /\ \A t \in ToSet(z) : t = elder => yptr'[t] = child
          /\ \A t \in ToSet(z) : t # elder => yptr'[t] = yptr[t]
      BY <1>2, <1>7, <1>8, <2>3
    <3>3. optr'[child] = elder
      BY <1>7
    <3>4. LaidOut(Cons(child, z), child, optr', yptr')
      BY <1>2, <2>3, <3>1, <3>2, <3>3, LaidOutCons
    <3>5. LET r == Cons(child, z) IN
          /\ r \in Seq(Tasks) /\ Distinct(r) /\ r[1] = child
          /\ ToSet(r) = ToSet(z) \cup {child}
      <4>1. child \in Tasks /\ Distinct(z)
        BY <1>2, <2>3
      <4> QED
        BY <3>1, <4>1, ConsFacts
    <3>6. PICK r \in Seq(Tasks) :
             /\ Distinct(r) /\ r[1] = child
             /\ ToSet(r) = ToSet(z) \cup {child}
             /\ LaidOut(r, child, optr', yptr')
      BY <3>4, <3>5
    <3>7. ToSet(r) = {t \in hashed' : parent'[t] = p}
      BY <1>1, <1>2, <2>3, <2>5, <3>6
    <3>8. Family(p, r)'
      BY <1>1, <1>7, <1>8, <2>5, <3>6, <3>7 DEF Family
    <3> QED
      BY <3>6, <3>8
  <2>6. CASE p # current
    <3>1. /\ Distinct(s) /\ ToSet(s) = {t \in hashed : parent[t] = p}
          /\ LaidOut(s, cptr[p], optr, yptr)
          /\ s # << >> => yptr[s[1]] = None
      BY <2>1, <2>6 DEF Family
    <3>2. \A t \in ToSet(s) : t \in Tasks /\ t # child /\ t # elder
      BY <1>2, <2>3, <2>4, <2>6, <3>1, ConstantFacts
    <3>3. \A t \in ToSet(s) : optr'[t] = optr[t] /\ yptr'[t] = yptr[t]
      BY <1>7, <1>8, <3>2
    <3>4. LaidOut(s, cptr[p], optr', yptr')
      BY <3>1, <3>3, LaidOutSame
    <3>5. ToSet(s) = {t \in hashed' : parent'[t] = p}
      BY <1>1, <1>2, <2>6, <3>1
    <3>6. cptr'[p] = cptr[p]
      BY <1>7, <2>6
    <3>7. s # << >> => s[1] \in ToSet(s)
      BY DEF ToSet
    <3>8. Family(p, s)'
      BY <1>1, <2>6, <3>1, <3>3, <3>4, <3>5, <3>6, <3>7 DEF Family
    <3> QED
      BY <3>8
  <2> QED
    BY <2>5, <2>6
<1> QED
  BY <1>11, <1>12, <1>13, <1>14, <1>15, <1>16, <1>17, <1>18, <1>19 DEF IInv

-----------------------------------------------------------------------------
(***************************************************************************)
(* schedule() always finds a RUNNABLE process: the idle process is one,    *)
(* unless it is the caller, which has just been made RUNNABLE.             *)
(***************************************************************************)
LEMMA NextProcFacts ==
    ASSUME IInv, pc[current] \in {"run", "leave"}
    PROVE  /\ NextProc \in hashed
           /\ Demoted[NextProc] = "RUNNABLE"
<1>1. /\ TypeOK /\ current \in Tasks /\ idle_proc \in Tasks
      /\ next_pid \in Nat /\ 1 <= next_pid /\ idle_proc \in hashed
      /\ idle_proc < next_pid
  BY CurrentFacts, ConstantFacts
<1>2. /\ Demoted[current] = IF state[current] = "RUNNING" THEN "RUNNABLE"
                            ELSE state[current]
      /\ \A t \in Tasks : t # current => Demoted[t] = state[t]
  BY <1>1 DEF TypeOK, Demoted
<1>3. Demoted[idle_proc] = "RUNNABLE"
  <2>1. state[idle_proc] \in States
    BY <1>1 DEF TypeOK
  <2>2. state[idle_proc] # "ZOMBIE"
    BY <1>1 DEF IInv, StateInv, BootInv
  <2>3. state[idle_proc] # "UNINIT"
    BY <1>1, ConstantFacts DEF IInv, StateInv
  <2>4. idle_proc # current => state[idle_proc] # "RUNNING"
    BY <1>1 DEF IInv, StateInv
  <2> QED
    BY <1>1, <1>2, <2>1, <2>2, <2>3, <2>4 DEF States
<1>4. proc_list \in Seq(Tasks) /\ ToSet(proc_list) = hashed
  BY <1>1 DEF TypeOK, IInv, TableInv, Linked
<1>5. Len(proc_list) \in Nat /\ DOMAIN proc_list = 1 .. Len(proc_list)
  BY <1>4
<1> DEFINE I == {i \in 1 .. Len(proc_list) : Demoted[proc_list[i]] = "RUNNABLE"}
<1>6. I # {}
  BY <1>1, <1>3, <1>4, <1>5 DEF ToSet
<1>7. I \in SUBSET Nat
  BY <1>5
<1>8. PICK x \in I : \A y \in I : x <= y
  BY <1>6, <1>7, NatMin
<1>9. Min(I) \in I
  BY <1>8 DEF Min
<1>10. 0 \notin I
  BY <1>5
<1>11. SelectInSeq(proc_list, LAMBDA t : Demoted[t] = "RUNNABLE") = Min(I)
  BY <1>6 DEF SelectInSeq
<1>12. NextProc = proc_list[Min(I)]
  BY <1>9, <1>10, <1>11 DEF NextProc
<1> QED
  BY <1>4, <1>5, <1>9, <1>12 DEF ToSet

(***************************************************************************)
(* schedule() finds its caller: the caller goes on.                        *)
(***************************************************************************)
LEMMA ScheduleStayStep ==
    ASSUME IInv, ScheduleStay PROVE IInv'
<1>1. /\ TypeOK /\ pc[current] \in {"run", "leave"} /\ NextProc = current
      /\ state' = Demoted /\ calls' = 1 - calls
      /\ Goto(IF pc[current] = "leave" THEN "panic" ELSE "run")
      /\ UNCHANGED <<table, current, init_proc, pages, intr, saved, child, hung>>
  BY DEF IInv, ScheduleStay, Scheduling
<1>2. UNCHANGED <<proc_list, hashed, nr_process, next_pid, parent, cptr, yptr, optr>>
  BY <1>1 DEF table
<1>3. current \in Tasks /\ Demoted[current] = "RUNNABLE"
  BY <1>1, CurrentFacts, NextProcFacts
<1>4. /\ state' \in [Tasks -> States] /\ state'[current] = "RUNNABLE"
      /\ state[current] \in {"RUNNING", "RUNNABLE"}
      /\ \A t \in Tasks : t # current => state'[t] = state[t]
  BY <1>1, <1>3 DEF TypeOK, Demoted, States
<1>5. pc[current] = "run"
  BY <1>1, <1>3, <1>4 DEF IInv, StateInv, Exiting
<1>6. /\ pc' \in [Tasks -> Places] /\ pc'[current] = "run"
      /\ \A t \in Tasks : t # current => pc'[t] = pc[t]
  BY <1>1, <1>5, GotoFacts DEF Places
<1>7. \A t \in Tasks : pc'[t] = pc[t]
  BY <1>5, <1>6
<1>8. TypeOK'
  <2>1. calls' \in {0, 1}
    BY <1>1 DEF TypeOK
  <2> QED
    BY <1>1, <1>2, <1>4, <1>6, <2>1 DEF TypeOK
<1>9. TableInv'
  BY <1>2 DEF IInv, TableInv, Linked, Distinct
<1>10. PlaceInv'
  BY <1>1, <1>2, <1>3, <1>7 DEF IInv, PlaceInv
<1>11. StateInv'
  BY <1>1, <1>2, <1>3, <1>4, <1>5, <1>7 DEF IInv, StateInv, Exiting
<1>12. ForkInv'
  BY <1>1, <1>6 DEF ForkInv
<1>13. BootInv'
  BY <1>1, <1>2, <1>3, <1>7, ConstantFacts DEF IInv, BootInv, TypeOK
<1>14. IntrInv'
  BY <1>1, <1>3, <1>7 DEF IInv, IntrInv, InterruptsRestored
<1>15. FamilyInv'
  BY <1>1, <1>2, FamilySame DEF IInv
<1>16. ParentInv'
  <2>1. \A t \in hashed : t \in Tasks
    BY CurrentFacts
  <2> QED
    BY <1>2, <1>7, <2>1 DEF IInv, ParentInv
<1> QED
  BY <1>8, <1>9, <1>10, <1>11, <1>12, <1>13, <1>14, <1>15, <1>16 DEF IInv

(***************************************************************************)
(* What a switch does: the chosen process was inside switch_to() or had    *)
(* never run, and it runs with interrupts on.                              *)
(***************************************************************************)
LEMMA SwitchFacts ==
    ASSUME IInv, ScheduleSwitch
    PROVE  \E n \in Tasks :
           /\ n # current /\ n \in hashed /\ n < next_pid
           /\ state[n] = "RUNNABLE" /\ pc[n] \in {"forkret", "switched"}
           /\ current' = n /\ intr' = TRUE
           /\ pc' \in [Tasks -> Places] /\ pc'[n] = "run"
           /\ pc'[current] = IF pc[current] = "leave" THEN "gone" ELSE "switched"
           /\ \A t \in Tasks : t # n /\ t # current => pc'[t] = pc[t]
           /\ state' \in [Tasks -> States] /\ state'[n] = "RUNNING"
           /\ state'[current] = IF state[current] = "RUNNING" THEN "RUNNABLE"
                                ELSE state[current]
           /\ \A t \in Tasks : t # n /\ t # current => state'[t] = state[t]
           /\ saved' \in [Tasks -> BOOLEAN] /\ saved'[current] = TRUE
           /\ \A t \in Tasks : t # current => saved'[t] = saved[t]
<1>1. /\ TypeOK /\ pc[current] \in {"run", "leave"} /\ NextProc # current
      /\ init_proc # None
      /\ saved' = [saved EXCEPT ![current] = intr]
  BY DEF IInv, ScheduleSwitch, Scheduling
<1>2. PICK n : n = NextProc
  OBVIOUS
<1>3. /\ current' = n
      /\ state' = [Demoted EXCEPT ![n] = "RUNNING"]
      /\ intr' = IF pc[n] = "forkret" THEN TRUE ELSE saved[n]
      /\ pc' = [pc EXCEPT
                    ![current] = IF @ = "leave" THEN "gone" ELSE "switched",
                    ![n] = IF @ = "gone" THEN "panic" ELSE "run"]
  BY <1>2 DEF ScheduleSwitch, Resume
<1>4. n \in hashed /\ Demoted[n] = "RUNNABLE" /\ n # current
  BY <1>1, <1>2, NextProcFacts
<1>5. n \in Tasks /\ n < next_pid /\ current \in Tasks
  BY <1>4, CurrentFacts
<1>6. /\ Demoted \in [Tasks -> States]
      /\ Demoted[current] = IF state[current] = "RUNNING" THEN "RUNNABLE"
                            ELSE state[current]
      /\ \A t \in Tasks : t # current => Demoted[t] = state[t]
  BY <1>1, <1>5 DEF TypeOK, Demoted, States
<1>7. state[n] = "RUNNABLE"
  BY <1>4, <1>5, <1>6
<1>8. pc[n] \in {"forkret", "switched"}
  BY <1>4, <1>5, <1>7 DEF IInv, PlaceInv, StateInv, Parked, Exiting
<1>9. intr' = TRUE
  BY <1>3, <1>5, <1>8 DEF IInv, IntrInv
<1>10. intr = TRUE
  BY <1>1 DEF IInv, IntrInv, InterruptsRestored, TypeOK
<1>11. /\ saved' \in [Tasks -> BOOLEAN] /\ saved'[current] = TRUE
       /\ \A t \in Tasks : t # current => saved'[t] = saved[t]
  BY <1>1, <1>5, <1>10 DEF TypeOK
<1>12. /\ pc' \in [Tasks -> Places] /\ pc'[n] = "run"
       /\ pc'[current] = IF pc[current] = "leave" THEN "gone" ELSE "switched"
       /\ \A t \in Tasks : t # n /\ t # current => pc'[t] = pc[t]
  BY <1>1, <1>3, <1>4, <1>5, <1>8 DEF TypeOK, Places
<1>13. /\ state' \in [Tasks -> States] /\ state'[n] = "RUNNING"
       /\ state'[current] = Demoted[current]
       /\ \A t \in Tasks : t # n /\ t # current => state'[t] = state[t]
  BY <1>3, <1>4, <1>5, <1>6 DEF States
<1> QED
  BY <1>3, <1>4, <1>5, <1>6, <1>7, <1>8, <1>9, <1>11, <1>12, <1>13

(***************************************************************************)
(* schedule() switches to another process.                                 *)
(***************************************************************************)
LEMMA ScheduleSwitchStep ==
    ASSUME IInv, ScheduleSwitch PROVE IInv'
<1>1. /\ TypeOK /\ pc[current] \in {"run", "leave"} /\ init_proc # None
      /\ calls' = 1 - calls
      /\ UNCHANGED <<table, init_proc, pages, child, hung>>
  BY DEF IInv, ScheduleSwitch, Scheduling
<1>2. UNCHANGED <<proc_list, hashed, nr_process, next_pid, parent, cptr, yptr, optr>>
  BY <1>1 DEF table
<1>3. PICK n \in Tasks :
           /\ n # current /\ n \in hashed /\ n < next_pid
           /\ state[n] = "RUNNABLE" /\ pc[n] \in {"forkret", "switched"}
           /\ current' = n /\ intr' = TRUE
           /\ pc' \in [Tasks -> Places] /\ pc'[n] = "run"
           /\ pc'[current] = IF pc[current] = "leave" THEN "gone" ELSE "switched"
           /\ \A t \in Tasks : t # n /\ t # current => pc'[t] = pc[t]
           /\ state' \in [Tasks -> States] /\ state'[n] = "RUNNING"
           /\ state'[current] = IF state[current] = "RUNNING" THEN "RUNNABLE"
                                ELSE state[current]
           /\ \A t \in Tasks : t # n /\ t # current => state'[t] = state[t]
           /\ saved' \in [Tasks -> BOOLEAN] /\ saved'[current] = TRUE
           /\ \A t \in Tasks : t # current => saved'[t] = saved[t]
  BY SwitchFacts
<1>4. current \in Tasks /\ current < next_pid /\ \A t \in hashed : t \in Tasks
  BY CurrentFacts
<1>5. TypeOK'
  <2>1. calls' \in {0, 1}
    BY <1>1 DEF TypeOK
  <2> QED
    BY <1>1, <1>2, <1>3, <2>1 DEF TypeOK
<1>6. TableInv'
  BY <1>2 DEF IInv, TableInv, Linked, Distinct
<1>7. PlaceInv'
  BY <1>2, <1>3, <1>4 DEF IInv, PlaceInv, Busy, Parked
<1>8. StateInv'
  <2>1. \A t \in Tasks : state'[t] = "ZOMBIE" <=> pc'[t] \in Exiting
    <3>1. state'[n] # "ZOMBIE" /\ pc'[n] \notin Exiting
      BY <1>3 DEF Exiting
    <3>2. state'[current] = "ZOMBIE" <=> pc'[current] \in Exiting
      BY <1>1, <1>3, <1>4 DEF IInv, StateInv, Exiting
    <3> QED
      BY <1>3, <3>1, <3>2 DEF IInv, StateInv
  <2>2. \A t \in Tasks : state'[t] = "RUNNING" => t = n
    BY <1>3, <1>4 DEF IInv, StateInv
  <2>3. \A t \in Tasks : state'[t] = "UNINIT" <=> t >= next_pid
    <3>1. \A t \in Tasks : state[t] = "UNINIT" <=> t >= next_pid
      BY <1>1 DEF IInv, StateInv
    <3> QED
      BY <1>3, <1>4, <3>1
  <2> QED
    BY <1>2, <1>3, <2>1, <2>2, <2>3 DEF StateInv
<1>9. ForkInv'
  BY <1>3 DEF ForkInv
<1>10. BootInv'
  <2>1. init_proc \in Tasks /\ idle_proc \in Tasks
    BY <1>1, ConstantFacts DEF TypeOK
  <2>2. pc'[idle_proc] \in Busy \cup {"switched"} /\ pc'[idle_proc] \notin Exiting
    BY <1>1, <1>3, <2>1 DEF IInv, BootInv, Busy, Exiting
  <2>3. pc'[init_proc] \notin Exiting
    BY <1>1, <1>3, <2>1 DEF IInv, BootInv, Exiting
  <2> QED
    BY <1>1, <1>2, <1>3, <2>2, <2>3 DEF IInv, BootInv
<1>11. IntrInv'
  <2>1. \A t \in Tasks : pc'[t] = "switched" => saved'[t]
    BY <1>3 DEF IInv, IntrInv
  <2> QED
    BY <1>3, <2>1 DEF IntrInv, InterruptsRestored
<1>12. FamilyInv'
  BY <1>1, <1>2, FamilySame DEF IInv
<1>13. ParentInv'
  <2>1. \A t \in hashed : pc[t] \notin {"leave", "gone"} => pc'[t] \notin {"leave", "gone"}
    BY <1>3, <1>4
  <2> QED
    BY <1>2, <2>1 DEF IInv, ParentInv
<1> QED
  BY <1>5, <1>6, <1>7, <1>8, <1>9, <1>10, <1>11, <1>12, <1>13 DEF IInv

-----------------------------------------------------------------------------
(***************************************************************************)
(* do_exit() makes its caller a zombie; idle and init never call it.       *)
(***************************************************************************)
LEMMA ExitStartStep ==
    ASSUME IInv, ExitStart PROVE IInv'
<1>1. /\ TypeOK /\ pc[current] = "run" /\ init_proc # None
      /\ current # idle_proc /\ current # init_proc
      /\ state' = [state EXCEPT ![current] = "ZOMBIE"] /\ Goto("exit")
      /\ UNCHANGED <<table, current, init_proc, pages, intr, saved, child, calls,
                     hung>>
  BY DEF IInv, ExitStart, At
<1>2. UNCHANGED <<proc_list, hashed, nr_process, next_pid, parent, cptr, yptr, optr>>
  BY <1>1 DEF table
<1>3. /\ current \in Tasks /\ current < next_pid /\ current \in Nat
      /\ next_pid \in Nat /\ \A t \in hashed : t \in Tasks
  BY CurrentFacts
<1>4. /\ pc' \in [Tasks -> Places] /\ pc'[current] = "exit"
      /\ \A t \in Tasks : t # current => pc'[t] = pc[t]
  BY <1>1, GotoFacts DEF Places
<1>5. /\ state' \in [Tasks -> States] /\ state'[current] = "ZOMBIE"
      /\ \A t \in Tasks : t # current => state'[t] = state[t]
  BY <1>1, <1>3 DEF TypeOK, States
<1>6. TypeOK'
  BY <1>1, <1>2, <1>4, <1>5 DEF TypeOK
<1>7. TableInv'
  BY <1>2 DEF IInv, TableInv, Linked, Distinct
<1>8. PlaceInv'
  BY <1>1, <1>2, <1>4 DEF IInv, PlaceInv, Busy, Parked
<1>9. StateInv'
  <2>1. \A t \in Tasks : state'[t] = "ZOMBIE" <=> pc'[t] \in Exiting
    BY <1>4, <1>5 DEF IInv, StateInv, Exiting
  <2>2. \A t \in Tasks : state'[t] = "RUNNING" => t = current
    BY <1>5 DEF IInv, StateInv
  <2>3. \A t \in Tasks : state'[t] = "UNINIT" <=> t >= next_pid
    <3>1. ~(current >= next_pid)
      BY <1>3
    <3>2. \A t \in Tasks : state[t] = "UNINIT" <=> t >= next_pid
      BY <1>1 DEF IInv, StateInv
    <3> QED
      BY <1>5, <3>1, <3>2
  <2> QED
    BY <1>1, <1>2, <1>4, <2>1, <2>2, <2>3 DEF StateInv
<1>10. ForkInv'
  BY <1>1, <1>4 DEF ForkInv
<1>11. BootInv'
  BY <1>1, <1>2, <1>4, ConstantFacts DEF IInv, BootInv, TypeOK
<1>12. IntrInv'
  BY <1>1, <1>4 DEF IInv, IntrInv, InterruptsRestored
<1>13. FamilyInv'
  BY <1>1, <1>2, FamilySame DEF IInv
<1>14. ParentInv'
  <2>1. \A t \in hashed : pc'[t] = pc[t] \/ pc'[t] = "exit"
    BY <1>3, <1>4
  <2> QED
    BY <1>2, <2>1 DEF IInv, ParentInv
<1> QED
  BY <1>6, <1>7, <1>8, <1>9, <1>10, <1>11, <1>12, <1>13, <1>14 DEF IInv

(***************************************************************************)
(* do_exit() turns interrupts off, which were on.                          *)
(***************************************************************************)
LEMMA ExitLockStep ==
    ASSUME IInv, ExitLock PROVE IInv'
<1>1. /\ TypeOK /\ pc[current] = "exit" /\ Goto("reparent")
      /\ saved' = [saved EXCEPT ![current] = intr] /\ intr' = FALSE
      /\ UNCHANGED <<table, current, init_proc, state, pages, child, calls, hung>>
  BY DEF IInv, ExitLock, At, IntrSave
<1>2. UNCHANGED <<proc_list, hashed, nr_process, next_pid, parent, cptr, yptr, optr>>
  BY <1>1 DEF table
<1>3. /\ current \in Tasks /\ init_proc # None /\ current # init_proc
      /\ current # idle_proc /\ \A t \in hashed : t \in Tasks
  BY <1>1, CurrentFacts DEF Exiting, IInv, BootInv
<1>4. /\ pc' \in [Tasks -> Places] /\ pc'[current] = "reparent"
      /\ \A t \in Tasks : t # current => pc'[t] = pc[t]
  BY <1>1, GotoFacts DEF Places
<1>5. intr = TRUE
  BY <1>1, <1>3 DEF IInv, IntrInv, InterruptsRestored, TypeOK
<1>6. /\ saved' \in [Tasks -> BOOLEAN] /\ saved'[current] = TRUE
      /\ \A t \in Tasks : t # current => saved'[t] = saved[t]
  BY <1>1, <1>3, <1>5 DEF TypeOK
<1>7. TypeOK'
  BY <1>1, <1>2, <1>4, <1>6 DEF TypeOK
<1>8. TableInv'
  BY <1>2 DEF IInv, TableInv, Linked, Distinct
<1>9. PlaceInv'
  BY <1>1, <1>2, <1>4 DEF IInv, PlaceInv, Busy, Parked
<1>10. StateInv'
  BY <1>1, <1>2, <1>4 DEF IInv, StateInv, Exiting
<1>11. ForkInv'
  BY <1>1, <1>4 DEF ForkInv
<1>12. BootInv'
  BY <1>1, <1>2, <1>3, <1>4, ConstantFacts DEF IInv, BootInv, TypeOK
<1>13. IntrInv'
  BY <1>1, <1>4, <1>6 DEF IInv, IntrInv, InterruptsRestored
<1>14. FamilyInv'
  BY <1>1, <1>2, FamilySame DEF IInv
<1>15. ParentInv'
  <2>1. \A t \in hashed : pc'[t] = pc[t] \/ pc'[t] = "reparent"
    BY <1>3, <1>4
  <2> QED
    BY <1>2, <2>1 DEF IInv, ParentInv
<1> QED
  BY <1>7, <1>8, <1>9, <1>10, <1>11, <1>12, <1>13, <1>14, <1>15 DEF IInv

(***************************************************************************)
(* do_exit() turns interrupts on again when it has no child left: an empty *)
(* pointer to the first child means that no process has it as parent.      *)
(***************************************************************************)
LEMMA ExitUnlockStep ==
    ASSUME IInv, ExitUnlock PROVE IInv'
<1>1. /\ TypeOK /\ pc[current] = "reparent" /\ cptr[current] = None /\ Goto("leave")
      /\ intr' = (intr \/ saved[current])
      /\ UNCHANGED <<table, current, init_proc, state, pages, saved, child, calls,
                     hung>>
  BY DEF IInv, ExitUnlock, At, IntrRestore
<1>2. UNCHANGED <<proc_list, hashed, nr_process, next_pid, parent, cptr, yptr, optr>>
  BY <1>1 DEF table
<1>3. /\ current \in Tasks /\ init_proc # None /\ current # init_proc
      /\ current # idle_proc /\ \A t \in hashed : t \in Tasks
  BY <1>1, CurrentFacts DEF Exiting, IInv, BootInv
<1>4. /\ pc' \in [Tasks -> Places] /\ pc'[current] = "leave"
      /\ \A t \in Tasks : t # current => pc'[t] = pc[t]
  BY <1>1, GotoFacts DEF Places
<1>5. intr' = TRUE
  BY <1>1 DEF IInv, IntrInv
<1>6. TypeOK'
  BY <1>1, <1>2, <1>4, <1>5 DEF TypeOK
<1>7. TableInv'
  BY <1>2 DEF IInv, TableInv, Linked, Distinct
<1>8. PlaceInv'
  BY <1>1, <1>2, <1>4 DEF IInv, PlaceInv, Busy, Parked
<1>9. StateInv'
  BY <1>1, <1>2, <1>4 DEF IInv, StateInv, Exiting
<1>10. ForkInv'
  BY <1>1, <1>4 DEF ForkInv
<1>11. BootInv'
  BY <1>1, <1>2, <1>3, <1>4, ConstantFacts DEF IInv, BootInv, TypeOK
<1>12. IntrInv'
  BY <1>1, <1>4, <1>5 DEF IInv, IntrInv, InterruptsRestored
<1>13. FamilyInv'
  BY <1>1, <1>2, FamilySame DEF IInv
<1>14. ParentInv'
  <2>1. PICK s \in Seq(Tasks) : Family(current, s)
    BY <1>3 DEF IInv, FamilyInv
  <2>2. s # << >> => s[1] \in Tasks
    OBVIOUS
  <2>3. s = << >>
    BY <1>1, <2>1, <2>2, ConstantFacts DEF Family, LaidOut
  <2>4. ToSet(s) = {}
    BY <2>3 DEF ToSet
  <2>5. \A t \in hashed : parent[t] # current
    BY <2>1, <2>4 DEF Family
  <2>6. \A t \in hashed : t # current => pc'[t] = pc[t]
    BY <1>3, <1>4
  <2> QED
    BY <1>2, <2>5, <2>6 DEF IInv, ParentInv
<1> QED
  BY <1>6, <1>7, <1>8, <1>9, <1>10, <1>11, <1>12, <1>13, <1>14 DEF IInv

(***************************************************************************)
(* One turn of do_exit()'s loop moves the first child to the front of      *)
(* init's children.                                                        *)
(***************************************************************************)
LEMMA ExitReparentStep ==
    ASSUME IInv, ExitReparent PROVE IInv'
<1>1. /\ TypeOK /\ pc[current] = "reparent" /\ cptr[current] # None
      /\ UNCHANGED <<proc_list, hashed, nr_process, next_pid, current, init_proc,
                     state, pages, intr, saved, pc, child, calls, hung>>
  BY DEF IInv, ExitReparent, At
<1>2. /\ current \in Tasks /\ init_proc # None /\ current # init_proc
      /\ init_proc \in Tasks /\ init_proc \in hashed /\ current # idle_proc
      /\ pc[init_proc] \notin Exiting
      /\ \A t \in hashed : t \in Tasks
  <2>1. init_proc # None /\ current # init_proc /\ current # idle_proc
    BY <1>1, CurrentFacts DEF Exiting, IInv, BootInv
  <2>2. init_proc \in Tasks
    BY <1>1, <2>1 DEF TypeOK
  <2> QED
    BY <2>1, <2>2, CurrentFacts DEF IInv, BootInv
<1>3. PICK proc, elder : proc = cptr[current] /\ elder = cptr[init_proc]
  OBVIOUS
<1>4. /\ cptr' = [cptr EXCEPT ![current] = optr[proc], ![init_proc] = proc]
      /\ optr' = [optr EXCEPT ![proc] = elder]
      /\ yptr' = [t \in Tasks |-> IF t = elder THEN proc
                                  ELSE IF t = proc THEN None ELSE yptr[t]]
      /\ parent' = [parent EXCEPT ![proc] = init_proc]
  BY <1>3 DEF ExitReparent
<1>5. PICK s \in Seq(Tasks) : Family(current, s)
  BY <1>2 DEF IInv, FamilyInv
<1>6. PICK z \in Seq(Tasks) : Family(init_proc, z)
  BY <1>2 DEF IInv, FamilyInv
<1>7. /\ Distinct(s) /\ LaidOut(s, proc, optr, yptr) /\ s # << >> /\ s[1] = proc
      /\ ToSet(s) = {t \in hashed : parent[t] = current}
  BY <1>1, <1>3, <1>5 DEF Family, LaidOut
<1>8. /\ Distinct(z) /\ LaidOut(z, elder, optr, yptr)
      /\ ToSet(z) = {t \in hashed : parent[t] = init_proc}
      /\ z # << >> => yptr[z[1]] = None
  BY <1>2, <1>3, <1>6 DEF Family
<1>9. /\ proc \in Tasks /\ proc \in ToSet(s) /\ proc \in hashed
      /\ parent[proc] = current /\ proc \notin ToSet(z)
  <2>1. proc \in ToSet(s)
    BY <1>7 DEF ToSet
  <2> QED
    BY <1>2, <1>7, <1>8, <2>1
<1>10. elder = None \/ (elder \in ToSet(z) /\ elder \in Tasks)
  <2>1. z # << >> => z[1] \in ToSet(z) /\ z[1] \in Tasks
    BY DEF ToSet
  <2> QED
    BY <1>8, <2>1 DEF LaidOut
<1>11. elder # proc
  BY <1>9, <1>10, ConstantFacts
<1>12. optr[proc] \in Tasks \cup {None}
  BY <1>1, <1>9 DEF TypeOK
<1>13. /\ cptr' \in [Tasks -> Tasks \cup {None}]
       /\ cptr'[current] = optr[proc] /\ cptr'[init_proc] = proc
       /\ \A t \in Tasks : t # current /\ t # init_proc => cptr'[t] = cptr[t]
  BY <1>1, <1>2, <1>4, <1>9, <1>12 DEF TypeOK
<1>14. /\ optr' \in [Tasks -> Tasks \cup {None}] /\ optr'[proc] = elder
       /\ \A t \in Tasks : t # proc => optr'[t] = optr[t]
  BY <1>1, <1>4, <1>9, <1>10 DEF TypeOK
<1>15. /\ yptr' \in [Tasks -> Tasks \cup {None}] /\ yptr'[proc] = None
       /\ \A t \in Tasks : t = elder => yptr'[t] = proc
       /\ \A t \in Tasks : t # elder /\ t # proc => yptr'[t] = yptr[t]
  BY <1>1, <1>4, <1>9, <1>11 DEF TypeOK
<1>16. /\ parent' \in [Tasks -> Tasks \cup {None}] /\ parent'[proc] = init_proc
       /\ \A t \in Tasks : t # proc => parent'[t] = parent[t]
  BY <1>1, <1>2, <1>4, <1>9 DEF TypeOK
<1>17. TypeOK'
  BY <1>1, <1>13, <1>14, <1>15, <1>16 DEF TypeOK
<1>18. TableInv' /\ PlaceInv' /\ StateInv'
  BY <1>1 DEF IInv, TableInv, Linked, Distinct, PlaceInv, StateInv
<1>19. ForkInv'
  BY <1>1 DEF ForkInv
<1>20. BootInv' /\ IntrInv'
  BY <1>1 DEF IInv, BootInv, IntrInv, InterruptsRestored
<1>21. ParentInv'
  <2>1. proc # idle_proc
    BY <1>2, <1>9, ConstantFacts DEF IInv, ParentInv
  <2>2. parent'[idle_proc] = None
    BY <1>16, <2>1, ConstantFacts DEF IInv, ParentInv
  <2>3. pc[init_proc] \notin {"leave", "gone"}
    BY <1>2 DEF Exiting
  <2>4. \A t \in hashed \ {idle_proc} :
           parent'[t] \in hashed /\ pc[parent'[t]] \notin {"leave", "gone"}
    BY <1>2, <1>16, <2>3 DEF IInv, ParentInv
  <2> QED
    BY <1>1, <2>2, <2>4 DEF ParentInv
<1>22. FamilyInv'
  <2> SUFFICES ASSUME NEW p \in Tasks
               PROVE  (\E r \in Seq(Tasks) : Family(p, r))'
    BY DEF FamilyInv
  <2>1. CASE p = current
    <3>1. /\ Tail(s) \in Seq(Tasks) /\ Distinct(Tail(s))
          /\ ToSet(Tail(s)) = ToSet(s) \ {proc}
      BY <1>7, TailFacts
    <3>2. \A t \in ToSet(Tail(s)) : t \in Tasks /\ t # proc /\ t # elder
      BY <1>2, <1>7, <1>8, <1>10, <3>1, ConstantFacts
    <3>3. \A t \in ToSet(Tail(s)) : optr'[t] = optr[t] /\ yptr'[t] = yptr[t]
      BY <1>14, <1>15, <3>2
    <3>4. LaidOut(Tail(s), optr[proc], optr', yptr')
      BY <1>7, <3>3, LaidOutTail
    <3>5. PICK r \in Seq(Tasks) :
             /\ Distinct(r) /\ ToSet(r) = ToSet(s) \ {proc}
             /\ LaidOut(r, optr[proc], optr', yptr')
      BY <3>1, <3>4
    <3>6. ToSet(r) = {t \in hashed' : parent'[t] = p}
      BY <1>1, <1>2, <1>7, <1>16, <2>1, <3>5
    <3>7. Family(p, r)'
      BY <1>1, <1>13, <2>1, <3>5, <3>6 DEF Family
    <3> QED
      BY <3>7
  <2>2. CASE p = init_proc
    <3>1. /\ \A t \in ToSet(z) : optr'[t] = optr[t]
          /\ \A t \in ToSet(z) : t = elder => yptr'[t] = proc
          /\ \A t \in ToSet(z) : t # elder => yptr'[t] = yptr[t]
      BY <1>2, <1>8, <1>9, <1>14, <1>15
    <3>2. optr'[proc] = elder
      BY <1>14
    <3>3. LaidOut(Cons(proc, z), proc, optr', yptr')
      BY <1>8, <1>9, <3>1, <3>2, LaidOutCons
    <3>4. LET r == Cons(proc, z) IN
          /\ r \in Seq(Tasks) /\ Distinct(r) /\ r[1] = proc
          /\ ToSet(r) = ToSet(z) \cup {proc}
      <4>1. proc \in Tasks /\ Distinct(z) /\ proc \notin ToSet(z)
        BY <1>8, <1>9
      <4> QED
        BY <4>1, ConsFacts
    <3>5. PICK r \in Seq(Tasks) :
             /\ Distinct(r) /\ r[1] = proc /\ ToSet(r) = ToSet(z) \cup {proc}
             /\ LaidOut(r, proc, optr', yptr')
      BY <3>3, <3>4
    <3>6. ToSet(r) = {t \in hashed' : parent'[t] = p}
      BY <1>1, <1>2, <1>8, <1>9, <1>16, <2>2, <3>5
    <3>7. Family(p, r)'
      BY <1>13, <1>15, <2>2, <3>5, <3>6 DEF Family
    <3> QED
      BY <3>7
  <2>3. CASE p # current /\ p # init_proc
    <3>1. PICK r \in Seq(Tasks) : Family(p, r)
      BY DEF IInv, FamilyInv
    <3>2. /\ Distinct(r) /\ ToSet(r) = {t \in hashed : parent[t] = p}
          /\ LaidOut(r, cptr[p], optr, yptr)
          /\ r # << >> => yptr[r[1]] = None
      BY <2>3, <3>1 DEF Family
    <3>3. \A t \in ToSet(r) : t \in Tasks /\ t # proc /\ t # elder
      BY <1>2, <1>8, <1>9, <1>10, <2>3, <3>2, ConstantFacts
    <3>4. \A t \in ToSet(r) : optr'[t] = optr[t] /\ yptr'[t] = yptr[t]
      BY <1>14, <1>15, <3>3
    <3>5. LaidOut(r, cptr[p], optr', yptr')
      BY <3>2, <3>4, LaidOutSame
    <3>6. ToSet(r) = {t \in hashed' : parent'[t] = p}
      BY <1>1, <1>2, <1>9, <1>16, <2>3, <3>2
    <3>7. cptr'[p] = cptr[p]
      BY <1>13, <2>3
    <3>8. r # << >> => r[1] \in ToSet(r)
      BY DEF ToSet
    <3>9. Family(p, r)'
      BY <1>1, <2>3, <3>2, <3>4, <3>5, <3>6, <3>7, <3>8 DEF Family
    <3> QED
      BY <3>9
  <2> QED
    BY <2>1, <2>2, <2>3
<1> QED
  BY <1>17, <1>18, <1>19, <1>20, <1>21, <1>22 DEF IInv
-----------------------------------------------------------------------------
(***************************************************************************)
(* A step that changes neither the tasks nor where they are: no step at    *)
(* all, or the fault of a do_fork() that found no page.                    *)
(***************************************************************************)
LEMMA SameStep ==
    ASSUME IInv, hung' \in BOOLEAN,
           UNCHANGED <<table, current, init_proc, state, pages, intr, saved, pc,
                       child, calls>>
    PROVE  IInv'
<1>1. UNCHANGED <<proc_list, hashed, nr_process, next_pid, parent, cptr, yptr,
                  optr, current, init_proc, state, pages, intr, saved, pc,
                  child, calls>>
  BY DEF table
<1>2. TypeOK'
  BY <1>1 DEF IInv, TypeOK
<1>3. TableInv'
  BY <1>1 DEF IInv, TableInv, Linked, Distinct
<1>4. PlaceInv'
  BY <1>1 DEF IInv, PlaceInv
<1>5. StateInv'
  BY <1>1 DEF IInv, StateInv
<1>6. ForkInv'
  BY <1>1 DEF IInv, ForkInv
<1>7. BootInv'
  BY <1>1 DEF IInv, BootInv
<1>8. IntrInv'
  BY <1>1 DEF IInv, IntrInv, InterruptsRestored
<1>9. FamilyInv'
  BY <1>1, FamilySame DEF IInv
<1>10. ParentInv'
  BY <1>1 DEF IInv, ParentInv
<1> QED
  BY <1>2, <1>3, <1>4, <1>5, <1>6, <1>7, <1>8, <1>9, <1>10 DEF IInv

(***************************************************************************)
(* Every step of the kernel keeps the invariant.                           *)
(***************************************************************************)
LEMMA NextIInv ==
    ASSUME IInv, [Next]_vars PROVE IInv'
<1>1. CASE OutOfMemory
  BY <1>1, SameStep DEF OutOfMemory
<1>2. CASE UNCHANGED vars
  <2>1. hung' \in BOOLEAN
    BY <1>2 DEF vars, IInv, TypeOK
  <2> QED
    BY <1>2, <2>1, SameStep DEF vars
<1>3. CASE Next /\ ~OutOfMemory
  <2>1. CASE ForkAlloc
    BY <1>3, <2>1, ForkAllocStep
  <2>2. CASE ExitStart
    BY <2>2, ExitStartStep
  <2>3. CASE Schedule
    BY <2>3, ScheduleStayStep, ScheduleSwitchStep DEF Schedule
  <2>4. CASE InCall
    BY <1>3, <2>4, ForkStackStep, ForkLinkStep, ForkWakeStep, InitProcFoundStep,
       ExitLockStep, ExitReparentStep, ExitUnlockStep DEF InCall
  <2> QED
    BY <1>3, <2>1, <2>2, <2>3, <2>4 DEF Next
<1> QED
  BY <1>1, <1>2, <1>3

(***************************************************************************)
(* The process table, the places of the processes, the interrupt flag and  *)
(* the family pointers stay together in every behaviour of the scheduler.  *)
(***************************************************************************)
THEOREM Invariance == Spec => []IInv
<1>1. Init => IInv
  BY InitIInv
<1>2. IInv /\ [Next]_vars => IInv'
  BY NextIInv
<1> QED
  BY <1>1, <1>2, PTL DEF Spec

(***************************************************************************)
(* The variables keep their types for every number of PIDs and pages.      *)
(***************************************************************************)
THEOREM TypeCorrect == Spec => []TypeOK
<1>1. IInv => TypeOK
  BY DEF IInv
<1> QED
  BY <1>1, Invariance, PTL

(***************************************************************************)
(* ps and find_proc() see the same processes, each once, and nr_process    *)
(* counts them.                                                            *)
(***************************************************************************)
THEOREM TableAlwaysConsistent == Spec => []TableConsistent
<1>1. IInv => TableConsistent
  <2> SUFFICES ASSUME IInv PROVE TableConsistent
    OBVIOUS
  <2>1. proc_list \in Seq(Tasks) /\ Distinct(proc_list)
    BY DEF IInv, TypeOK, TableInv
  <2>2. Cardinality(Linked) = Len(proc_list)
    BY <2>1, DistinctCount DEF Linked
  <2> QED
    BY <2>2 DEF IInv, TableInv, TableConsistent
<1> QED
  BY <1>1, Invariance, PTL

(***************************************************************************)
(* Only the current process is RUNNING, and schedule() can switch to every *)
(* RUNNABLE one.                                                           *)
(***************************************************************************)
THEOREM RunningIsAlwaysCurrent == Spec => []RunningIsCurrent
<1>1. IInv => RunningIsCurrent
  <2> SUFFICES ASSUME IInv, NEW t \in Linked
               PROVE  /\ state[t] = "RUNNING" => t = current
                      /\ t # current /\ state[t] = "RUNNABLE" =>
                            pc[t] \in {"switched", "forkret"}
    BY DEF RunningIsCurrent
  <2>1. t \in hashed
    BY DEF IInv, TableInv
  <2>2. t \in Tasks /\ t < next_pid
    BY <2>1, CurrentFacts
  <2> QED
    BY <2>2 DEF IInv, StateInv, PlaceInv, Parked, Exiting
<1> QED
  BY <1>1, Invariance, PTL

(***************************************************************************)
(* Interrupts are on whenever a process computes after the boot.           *)
(***************************************************************************)
THEOREM InterruptsAlwaysRestored == Spec => []InterruptsRestored
<1>1. IInv => InterruptsRestored
  BY DEF IInv, IntrInv
<1> QED
  BY <1>1, Invariance, PTL

(***************************************************************************)
(* do_exit() leaves no child behind.                                       *)
(***************************************************************************)
THEOREM NeverOrphans == Spec => []NoOrphans
<1>1. IInv => NoOrphans
  BY DEF IInv, TableInv, ParentInv, NoOrphans
<1> QED
  BY <1>1, Invariance, PTL

(***************************************************************************)
(* The panic behind schedule() in do_exit() is never reached.              *)
(***************************************************************************)
THEOREM ExitNeverPanics == Spec => []ExitNeverReturns
<1>1. IInv => ExitNeverReturns
  BY DEF IInv, PlaceInv, Busy, Parked, ExitNeverReturns
<1> QED
  BY <1>1, Invariance, PTL

-----------------------------------------------------------------------------
(***************************************************************************)
(* A zombie is neither woken nor chosen.                                   *)
(***************************************************************************)
LEMMA ZombieStep ==
    ASSUME IInv, [Next]_vars, NEW t \in Tasks, state[t] = "ZOMBIE"
    PROVE  state'[t] = "ZOMBIE" /\ (current # t => current' # t)
<1>1. /\ TypeOK /\ current \in Tasks /\ state \in [Tasks -> States]
      /\ child \in Tasks \cup {None}
  BY DEF IInv, TypeOK
<1>2. CASE UNCHANGED <<state, current>>
  BY <1>2
<1>3. CASE ScheduleStay
  <2>1. UNCHANGED current /\ state' = Demoted
    BY <1>3 DEF ScheduleStay
  <2> QED
    BY <1>1, <2>1 DEF Demoted
<1>4. CASE ScheduleSwitch
  <2>1. PICK n \in Tasks :
          /\ state[n] = "RUNNABLE" /\ current' = n
          /\ state'[current] = IF state[current] = "RUNNING" THEN "RUNNABLE"
                               ELSE state[current]
          /\ \A u \in Tasks : u # n /\ u # current => state'[u] = state[u]
    BY <1>4, SwitchFacts
  <2> QED
    BY <2>1
<1>5. CASE ForkWake
  <2>1. state[child] # "ZOMBIE" /\ UNCHANGED current
        /\ state' = [state EXCEPT ![child] = "RUNNABLE"]
    BY <1>5 DEF ForkWake
  <2> QED
    BY <1>1, <2>1
<1>6. CASE ExitStart
  <2>1. UNCHANGED current /\ state' = [state EXCEPT ![current] = "ZOMBIE"]
    BY <1>6 DEF ExitStart
  <2> QED
    BY <1>1, <2>1
<1>7. \/ UNCHANGED <<state, current>>
      \/ ScheduleStay \/ ScheduleSwitch \/ ForkWake \/ ExitStart
  BY DEF Next, Schedule, InCall, ForkAlloc, OutOfMemory, ForkStack, ForkLink,
         InitProcFound, ExitLock, ExitReparent, ExitUnlock, vars
<1> QED
  BY <1>2, <1>3, <1>4, <1>5, <1>6, <1>7

(***************************************************************************)
(* Once a zombie, always a zombie, and the processor never returns to it.  *)
(***************************************************************************)
THEOREM ZombiesAlwaysDead == Spec => ZombiesStayDead
<1>1. IInv /\ [Next]_vars =>
         \A t \in Tasks : state[t] = "ZOMBIE" =>
             /\ state'[t] = "ZOMBIE"
             /\ current # t => current' # t
  BY ZombieStep
<1>2. IInv /\ [Next]_vars /\ ExitNeverReturns' =>
         [/\ \A t \in Tasks : state[t] = "ZOMBIE" =>
                /\ state'[t] = "ZOMBIE"
                /\ current # t => current' # t
          /\ ExitNeverReturns']_vars
  BY <1>1
<1> QED
  BY <1>2, Invariance, ExitNeverPanics, PTL DEF Spec, ZombiesStayDead

-----------------------------------------------------------------------------
(***************************************************************************)
(* What the recursive walk of Chain computes when the pointers lay out s:  *)
(* the members of s, then None.  The walk is unique because the least      *)
(* place where two walks differed would have a predecessor where they do.  *)
(***************************************************************************)
Walk(s) == [k \in 0 .. MaxPid |-> IF k < Len(s) THEN s[k + 1] ELSE None]

WalkStep(p, g) ==
    [k \in 0 .. MaxPid |->
        IF k = 0 THEN cptr[p]
        ELSE IF g[k - 1] = None THEN None ELSE optr[g[k - 1]]]

(***************************************************************************)
(* The walk of the chain, as a function of the number of steps.            *)
(***************************************************************************)
LEMMA ChainIsWalk ==
    ASSUME NEW p \in Tasks, NEW s \in Seq(Tasks),
           LaidOut(s, cptr[p], optr, yptr)
    PROVE  Chain(p) = Walk(s)
<1>1. /\ MaxPid \in Nat /\ Len(s) \in Nat /\ (s = << >> <=> Len(s) = 0)
      /\ \A i \in 1 .. Len(s) : s[i] # None
  BY ConstantFacts
<1>2. /\ cptr[p] = IF Len(s) = 0 THEN None ELSE s[1]
      /\ \A i \in 1 .. Len(s) :
            optr[s[i]] = IF i = Len(s) THEN None ELSE s[i + 1]
  BY <1>1 DEF LaidOut
<1>3. \A k \in 0 .. MaxPid : Walk(s)[k] = WalkStep(p, Walk(s))[k]
  <2> TAKE k \in 0 .. MaxPid
  <2>1. Walk(s)[k] = IF k < Len(s) THEN s[k + 1] ELSE None
    BY DEF Walk
  <2>2. CASE k = 0
    <3>1. WalkStep(p, Walk(s))[k] = cptr[p]
      BY <2>2 DEF WalkStep
    <3>2. 0 + 1 = 1
      OBVIOUS
    <3> QED
      BY <1>1, <1>2, <2>1, <2>2, <3>1, <3>2
  <2>3. CASE k # 0
    <3>1. k - 1 \in 0 .. MaxPid /\ (k - 1) + 1 = k /\ k \in Nat
      BY <1>1, <2>3
    <3>2. Walk(s)[k - 1] = IF k - 1 < Len(s) THEN s[k] ELSE None
      BY <3>1 DEF Walk
    <3>3. WalkStep(p, Walk(s))[k] =
             IF Walk(s)[k - 1] = None THEN None ELSE optr[Walk(s)[k - 1]]
      BY <2>3 DEF WalkStep
    <3>4. CASE k - 1 < Len(s)
      <4>1. k \in 1 .. Len(s)
        BY <1>1, <2>3, <3>1, <3>4
      <4>2. WalkStep(p, Walk(s))[k] = optr[s[k]]
        BY <1>1, <3>2, <3>3, <3>4, <4>1
      <4>3. k < Len(s) <=> k # Len(s)
        BY <1>1, <4>1
      <4> QED
        BY <1>2, <2>1, <4>1, <4>2, <4>3
    <3>5. CASE ~(k - 1 < Len(s))
      <4>1. ~(k < Len(s))
        BY <1>1, <3>1, <3>5
      <4> QED
        BY <2>1, <3>2, <3>3, <3>5, <4>1
    <3> QED
      BY <3>4, <3>5
  <2> QED
    BY <2>2, <2>3
<1>4. Walk(s) = WalkStep(p, Walk(s))
  BY <1>3 DEF Walk, WalkStep
<1>5. Chain(p) = CHOOSE g : g = WalkStep(p, g)
  BY DEF Chain, WalkStep
<1>6. PICK c : c = Chain(p) /\ c = WalkStep(p, c)
  BY <1>4, <1>5
<1>7. \A k \in 0 .. MaxPid : c[k] = Walk(s)[k]
  <2> DEFINE D == {k \in 0 .. MaxPid : c[k] # Walk(s)[k]}
  <2>1. ASSUME D # {} PROVE FALSE
    <3>a. D \in SUBSET Nat
      BY <1>1
    <3> HIDE DEF D
    <3>b. PICK k \in D : \A j \in D : k <= j
      BY <2>1, <3>a, NatMin
    <3>1. /\ k \in 0 .. MaxPid /\ c[k] # Walk(s)[k]
          /\ \A j \in 0 .. MaxPid : c[j] # Walk(s)[j] => k <= j
      BY <3>b DEF D
    <3>2. CASE k = 0
      <4>1. WalkStep(p, c)[0] = cptr[p] /\ WalkStep(p, Walk(s))[0] = cptr[p]
        BY <1>1 DEF WalkStep
      <4> QED
        <5>1. c[0] = cptr[p]
          BY <1>6, <4>1
        <5>2. Walk(s)[0] = cptr[p]
          BY <1>4, <4>1
        <5> QED
          BY <3>1, <3>2, <5>1, <5>2
    <3>3. CASE k # 0
      <4>1. k - 1 \in 0 .. MaxPid /\ ~(k <= k - 1)
        BY <1>1, <3>1, <3>3
      <4>2. c[k - 1] = Walk(s)[k - 1]
        BY <3>1, <4>1
      <4>3. WalkStep(p, c)[k] = WalkStep(p, Walk(s))[k]
        BY <3>1, <3>3, <4>2 DEF WalkStep
      <4>4. c[k] = WalkStep(p, c)[k]
        BY <1>6
      <4>5. Walk(s)[k] = WalkStep(p, Walk(s))[k]
        BY <1>4
      <4> QED
        BY <3>1, <4>3, <4>4, <4>5
    <3> QED
      BY <3>2, <3>3
  <2> QED
    BY <2>1
<1>8. c = Walk(s)
  <2>1. c = [k \in 0 .. MaxPid |-> c[k]]
    BY <1>6 DEF WalkStep
  <2> QED
    BY <1>7, <2>1 DEF Walk
<1> QED
  BY <1>6, <1>8

(***************************************************************************)
(* No process has more children than there are places in a walk.           *)
(***************************************************************************)
LEMMA FewChildren ==
    ASSUME NEW s \in Seq(Tasks), Distinct(s)
    PROVE  Len(s) <= MaxPid + 1
<1>1. Cardinality(ToSet(s)) = Len(s)
  BY DistinctCount
<1>2. ToSet(s) \subseteq Tasks
  BY DEF ToSet
<1>3. IsFiniteSet(Tasks) /\ Cardinality(Tasks) = MaxPid + 1
  BY FS_Interval, MaxPidAssumption DEF Tasks
<1> QED
  BY <1>1, <1>2, <1>3, FS_Subset

(***************************************************************************)
(* When interrupts are on, the chain that starts at cptr is exactly the    *)
(* list of the children, in both directions.                               *)
(***************************************************************************)
LEMMA FamilyTreeFollows ==
    ASSUME IInv, intr PROVE FamilyTree
<1> SUFFICES ASSUME NEW p \in Tasks
             PROVE  LET c    == Chain(p)
                        kids == {t \in Linked : parent[t] = p}
                    IN /\ {c[k] : k \in DOMAIN c} \ {None} = kids
                       /\ \A k \in DOMAIN c : c[k] # None =>
                             yptr[c[k]] = IF k = 0 THEN None ELSE c[k - 1]
                       /\ \A j, k \in DOMAIN c : c[j] = c[k] /\ j # k => c[j] = None
  BY DEF FamilyTree
<1>1. PICK s \in Seq(Tasks) : Family(p, s)
  BY DEF IInv, FamilyInv
<1>2. pc[current] # "reparent"
  BY DEF IInv, IntrInv
<1>3. /\ Distinct(s) /\ ToSet(s) = {t \in Linked : parent[t] = p}
      /\ LaidOut(s, cptr[p], optr, yptr)
      /\ s # << >> => yptr[s[1]] = None
  BY <1>1, <1>2 DEF Family, IInv, TableInv
<1>4. PICK c : c = Chain(p) /\ c = Walk(s)
  BY <1>3, ChainIsWalk
<1>5. /\ MaxPid \in Nat /\ Len(s) \in Nat /\ Len(s) <= MaxPid + 1
      /\ \A i \in 1 .. Len(s) : s[i] # None
  BY <1>3, FewChildren, ConstantFacts
<1>6. /\ DOMAIN c = 0 .. MaxPid
      /\ \A k \in 0 .. MaxPid : c[k] = IF k < Len(s) THEN s[k + 1] ELSE None
  BY <1>4 DEF Walk
<1>7. \A k \in 0 .. MaxPid : c[k] # None =>
         k < Len(s) /\ k + 1 \in 1 .. Len(s) /\ c[k] = s[k + 1]
  BY <1>5, <1>6
<1>8. {c[k] : k \in DOMAIN c} \ {None} = ToSet(s)
  <2>1. \A k \in DOMAIN c : c[k] # None => c[k] \in ToSet(s)
    BY <1>6, <1>7 DEF ToSet
  <2>2. ASSUME NEW x \in ToSet(s) PROVE x # None /\ \E k \in DOMAIN c : x = c[k]
    <3>1. PICK i \in 1 .. Len(s) : x = s[i]
      BY <2>2 DEF ToSet
    <3>2. i - 1 \in 0 .. MaxPid /\ i - 1 < Len(s) /\ (i - 1) + 1 = i
      BY <1>5
    <3> QED
      BY <1>5, <1>6, <3>1, <3>2
  <2> QED
    BY <2>1, <2>2
<1>9. ASSUME NEW k \in 0 .. MaxPid, c[k] # None
      PROVE  yptr[c[k]] = IF k = 0 THEN None ELSE c[k - 1]
  <2>1. k < Len(s) /\ k + 1 \in 1 .. Len(s) /\ c[k] = s[k + 1]
    BY <1>7, <1>9
  <2>2. CASE k = 0
    <3>1. k + 1 = 1 /\ s # << >>
      BY <1>5, <2>1, <2>2
    <3> QED
      BY <1>3, <2>1, <2>2, <3>1
  <2>3. CASE k # 0
    <3>1. /\ k + 1 > 1 /\ (k + 1) - 1 = k /\ k - 1 \in 0 .. MaxPid
          /\ k - 1 < Len(s) /\ (k - 1) + 1 = k
      BY <1>5, <2>1, <2>3
    <3>2. yptr[s[k + 1]] = s[k]
      BY <1>3, <2>1, <3>1 DEF LaidOut
    <3>3. c[k - 1] = s[k]
      BY <1>6, <3>1
    <3> QED
      BY <2>1, <2>3, <3>2, <3>3
  <2> QED
    BY <2>2, <2>3
<1>10. ASSUME NEW j \in 0 .. MaxPid, NEW k \in 0 .. MaxPid, c[j] = c[k],
              c[j] # None
       PROVE  j = k
  <2>1. j + 1 = k + 1
    BY <1>3, <1>7, <1>10 DEF Distinct
  <2> QED
    BY <2>1
<1> QED
  BY <1>3, <1>4, <1>6, <1>8, <1>9, <1>10

(***************************************************************************)
(* Whenever an interrupt handler can look, the family tree is sound.       *)
(***************************************************************************)
THEOREM FamilyTreeAlways == Spec => []FamilyTree
<1>1. IInv => FamilyTree
  BY FamilyTreeFollows DEF FamilyTree
<1> QED
  BY <1>1, Invariance, PTL

=============================================================================

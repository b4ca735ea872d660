------------------------------- MODULE Sched -------------------------------
(***************************************************************************)
(* Processes: kern/sched/sched.c, switch.S and the interrupt-flag          *)
(* discipline of kern/drivers/intr.h.                                      *)
(*                                                                         *)
(* The kernel is not preemptive: the current process alone takes steps,    *)
(* and gives the processor away only in schedule().  Interrupt handlers    *)
(* (the shell's ps command runs in one) may look at the process table      *)
(* whenever the interrupt flag is set, so the stretches of do_fork() and   *)
(* do_exit() between two such points are separate steps, and the table     *)
(* must be consistent in every state where the flag is set.                *)
(*                                                                         *)
(* A task is named by its PID.  Task structures are never freed, so names  *)
(* are never reused.  wait_state is 0 from alloc_proc() on (nothing writes *)
(* it), so the two wake-ups in do_exit() that test it never happen, and    *)
(* all tasks share init_mm, so a switch never reloads CR3.                 *)
(***************************************************************************)
EXTENDS Integers, Sequences, FiniteSets, SequencesExt

CONSTANTS MaxPid,       \* bound: PIDs given out, the idle process being 0
          KPages,       \* pages the allocator still has when sched_init() runs
          None          \* NULL

ASSUME MaxPidAssumption == MaxPid \in Nat \ {0}

ASSUME KPagesAssumption == KPages \in Nat

ASSUME NoneAssumption == None \notin Nat

Tasks == 0 .. MaxPid

idle_proc == 0

States == {"UNINIT", "RUNNABLE", "RUNNING", "ZOMBIE"}

VARIABLES proc_list,    \* all processes, the newest first
          hashed,       \* the processes find_proc() can find
          nr_process,
          next_pid,     \* get_pid()'s counter
          current,
          init_proc,
          state, parent, cptr, yptr, optr,      \* task_struct
          pages,        \* free pages
          intr,         \* EFLAGS.IF
          saved,        \* __intr_flag of a process in schedule() or do_exit()
          pc,           \* where each process is
          child,        \* do_fork()'s proc
          calls,        \* parity of the calls of schedule() (not in the code)
          hung          \* the kernel faults for ever (see OutOfMemory)

table == <<proc_list, hashed, nr_process, next_pid, parent, cptr, yptr, optr>>

vars == <<table, current, init_proc, state, pages, intr, saved, pc, child,
          calls, hung>>

(***************************************************************************)
(* Where a process is:                                                     *)
(*   absent    no task structure         forkret    never run              *)
(*   run       its own code              link, wake inside do_fork()       *)
(*   stack     do_fork() before setup_kstack()                             *)
(*   found     init_proc_init() after do_fork()                            *)
(*   exit      do_exit() before intr_save()                                *)
(*   reparent  do_exit()'s loop          leave      do_exit()'s schedule() *)
(*   switched  inside switch_to()        gone       the same, in do_exit() *)
(*   panic     do_exit() returned from schedule()                          *)
(***************************************************************************)
Places == {"absent", "forkret", "run", "stack", "link", "wake", "found", "exit",
           "reparent", "leave", "switched", "gone", "panic"}

At(place) == ~hung /\ pc[current] = place

Goto(place) == pc' = [pc EXCEPT ![current] = place]

(***************************************************************************)
(* intr_save() and intr_restore() of the current process.                  *)
(***************************************************************************)
IntrSave == saved' = [saved EXCEPT ![current] = intr] /\ intr' = FALSE

IntrRestore == intr' = (intr \/ saved[current])

-----------------------------------------------------------------------------
(***************************************************************************)
(* sched_init() up to the do_fork() of init_proc_init(): the idle process  *)
(* is the boot code itself.  Interrupts are off until kern_init() turns    *)
(* them on.                                                                *)
(***************************************************************************)
Init ==
    /\ proc_list = <<idle_proc>>
    /\ hashed = {idle_proc}
    /\ nr_process = 1
    /\ next_pid = 1
    /\ current = idle_proc
    /\ init_proc = None
    /\ state = [t \in Tasks |-> IF t = idle_proc THEN "RUNNABLE" ELSE "UNINIT"]
    /\ parent = [t \in Tasks |-> None]
    /\ cptr = [t \in Tasks |-> None]
    /\ yptr = [t \in Tasks |-> None]
    /\ optr = [t \in Tasks |-> None]
    /\ pages = KPages
    /\ intr = FALSE
    /\ saved = [t \in Tasks |-> FALSE]
    /\ pc = [t \in Tasks |-> IF t = idle_proc THEN "run" ELSE "absent"]
    /\ child = None
    /\ calls = 0
    /\ hung = FALSE

(***************************************************************************)
(* do_fork() uses what kmalloc() and alloc_page() return without a test.   *)
(* Address 0 is not mapped, and the page fault that the access raises      *)
(* needs a page itself: the machine faults for ever.                       *)
(***************************************************************************)
OutOfMemory ==
    /\ pages = 0
    /\ hung' = TRUE
    /\ UNCHANGED <<table, current, init_proc, state, pages, intr, saved, pc,
                   child, calls>>

(***************************************************************************)
(* The callers of do_fork(): the boot code, once, then any process but the *)
(* idle process, which only calls schedule().                              *)
(***************************************************************************)
MayFork == init_proc = None \/ current # idle_proc

(***************************************************************************)
(* alloc_proc() and the assignment of parent.                              *)
(***************************************************************************)
ForkAlloc ==
    /\ At("run") /\ MayFork
    /\ next_pid <= MaxPid
    /\ \/ OutOfMemory
       \/ /\ pages > 0
          /\ pages' = pages - 1
          /\ child' = next_pid
          /\ parent' = [parent EXCEPT ![next_pid] = current]
          /\ Goto("stack")
          /\ UNCHANGED <<proc_list, hashed, nr_process, next_pid, cptr, yptr,
                         optr, current, init_proc, state, intr, saved, calls, hung>>

(* Mutant: a page is taken that the allocator does not have. *)
ForkStackUnchecked ==
    /\ At("stack")
    /\ \/ OutOfMemory
       \/ /\ pages >= 0
          /\ pages' = pages - 1
          /\ pc' = [pc EXCEPT ![current] = "link", ![child] = "forkret"]
          /\ UNCHANGED <<table, current, init_proc, state, intr, saved, child,
                         calls, hung>>

(***************************************************************************)
(* setup_kstack(), copy_mm(), copy_thread(): the child's first instruction *)
(* is forkret's, on a trap frame whose flags have IF set.                  *)
(***************************************************************************)
ForkStack ==
    /\ At("stack")
    /\ \/ OutOfMemory
       \/ /\ pages > 0
          /\ pages' = pages - 1
          /\ pc' = [pc EXCEPT ![current] = "link", ![child] = "forkret"]
          /\ UNCHANGED <<table, current, init_proc, state, intr, saved, child,
                         calls, hung>>

(* Mutant: no hash_proc(). *)
ForkLinkUnhashed ==
    /\ At("link")
    /\ LET elder == cptr[parent[child]] IN
       /\ proc_list' = <<child>> \o proc_list
       /\ optr' = [optr EXCEPT ![child] = elder]
       /\ yptr' = [t \in Tasks |-> IF t = child THEN None
                                   ELSE IF t = elder THEN child ELSE yptr[t]]
       /\ cptr' = [cptr EXCEPT ![parent[child]] = child]
    /\ UNCHANGED hashed
    /\ nr_process' = nr_process + 1
    /\ next_pid' = next_pid + 1
    /\ Goto("wake")
    /\ UNCHANGED <<parent, current, init_proc, state, pages, intr, saved, child,
                   calls, hung>>

(***************************************************************************)
(* get_pid(), hash_proc() and set_links(), with interrupts off.            *)
(***************************************************************************)
ForkLink ==
    /\ At("link")
    /\ LET elder == cptr[parent[child]] IN
       /\ proc_list' = <<child>> \o proc_list
       /\ optr' = [optr EXCEPT ![child] = elder]
       /\ yptr' = [t \in Tasks |-> IF t = child THEN None
                                   ELSE IF t = elder THEN child ELSE yptr[t]]
       /\ cptr' = [cptr EXCEPT ![parent[child]] = child]
    /\ hashed' = hashed \cup {child}
    /\ nr_process' = nr_process + 1
    /\ next_pid' = next_pid + 1
    /\ Goto("wake")
    /\ UNCHANGED <<parent, current, init_proc, state, pages, intr, saved, child,
                   calls, hung>>

(***************************************************************************)
(* wakeup_proc() and the return of do_fork().                              *)
(***************************************************************************)
ForkWake ==
    /\ At("wake")
    /\ state[child] # "ZOMBIE"
    /\ state' = [state EXCEPT ![child] = "RUNNABLE"]
    /\ Goto(IF init_proc = None THEN "found" ELSE "run")
    /\ child' = IF init_proc = None THEN child ELSE None
    /\ UNCHANGED <<table, current, init_proc, pages, intr, saved, calls, hung>>

(***************************************************************************)
(* init_proc_init() looks its child up, kern_init() enables interrupts.    *)
(***************************************************************************)
InitProcFound ==
    /\ At("found")
    /\ init_proc' = IF child \in hashed /\ child > 0 THEN child ELSE None
    /\ child' = None
    /\ intr' = TRUE
    /\ Goto("run")
    /\ UNCHANGED <<table, current, state, pages, saved, calls, hung>>

-----------------------------------------------------------------------------
(* Mutants: a process keeps RUNNING when it is switched out; a zombie is     *)
(* made RUNNABLE too.                                                        *)
DemotedNever == state

DemotedAlways == [state EXCEPT ![current] = "RUNNABLE"]

(***************************************************************************)
(* What schedule() chooses: it first makes a RUNNING caller RUNNABLE, then *)
(* takes the first RUNNABLE process from the head of the list, or idle.    *)
(***************************************************************************)
Demoted == [state EXCEPT ![current] = IF @ = "RUNNING" THEN "RUNNABLE" ELSE @]

NextProc ==
    LET i == SelectInSeq(proc_list, LAMBDA t : Demoted[t] = "RUNNABLE")
    IN IF i = 0 THEN idle_proc ELSE proc_list[i]

Scheduling ==
    /\ ~hung
    /\ init_proc # None
    /\ pc[current] \in {"run", "leave"}
    /\ calls' = 1 - calls

(***************************************************************************)
(* schedule() returns to its caller at once; do_exit() would then panic.   *)
(***************************************************************************)
ScheduleStay ==
    /\ Scheduling
    /\ NextProc = current
    /\ state' = Demoted
    /\ Goto(IF pc[current] = "leave" THEN "panic" ELSE "run")
    /\ UNCHANGED <<table, current, init_proc, pages, intr, saved, child, hung>>

(* Mutant: copy_thread() leaves IF out of the first trap frame. *)
ResumeNoIF(t) == intr' = saved[t]

(***************************************************************************)
(* schedule() and proc_run() turn interrupts off, switch_to() changes      *)
(* stacks.  A new process leaves through forkret's iret, which loads the   *)
(* flags; one that was switched out goes through the intr_restore() of its *)
(* own frames of proc_run() (saved with interrupts off, so no change) and  *)
(* of schedule().                                                          *)
(***************************************************************************)
Resume(t) ==
    intr' = IF pc[t] = "forkret" THEN TRUE ELSE saved[t]

ScheduleSwitch ==
    /\ Scheduling
    /\ NextProc # current
    /\ LET next == NextProc IN
       /\ current' = next
       /\ state' = [Demoted EXCEPT ![next] = "RUNNING"]
       /\ saved' = [saved EXCEPT ![current] = intr]
       /\ Resume(next)
       /\ pc' = [pc EXCEPT
                    ![current] = IF @ = "leave" THEN "gone" ELSE "switched",
                    ![next] = IF @ = "gone" THEN "panic" ELSE "run"]
    /\ UNCHANGED <<table, init_proc, pages, child, hung>>

Schedule == ScheduleStay \/ ScheduleSwitch

-----------------------------------------------------------------------------
(***************************************************************************)
(* do_exit() by any process but idle and init, whose code never returns.   *)
(***************************************************************************)
ExitStart ==
    /\ At("run")
    /\ init_proc # None
    /\ current \notin {idle_proc, init_proc}
    /\ state' = [state EXCEPT ![current] = "ZOMBIE"]
    /\ Goto("exit")
    /\ UNCHANGED <<table, current, init_proc, pages, intr, saved, child, calls, hung>>

ExitLock ==
    /\ At("exit")
    /\ IntrSave
    /\ Goto("reparent")
    /\ UNCHANGED <<table, current, init_proc, state, pages, child, calls, hung>>

(* Mutants: the child that moves keeps its younger sibling; the parent's    *)
(* pointer does not advance.                                                *)
ExitReparentYounger ==
    /\ At("reparent")
    /\ cptr[current] # None
    /\ LET proc  == cptr[current]
           elder == cptr[init_proc]
       IN /\ cptr' = [cptr EXCEPT ![current] = optr[proc], ![init_proc] = proc]
          /\ optr' = [optr EXCEPT ![proc] = elder]
          /\ yptr' = [t \in Tasks |-> IF t = elder THEN proc ELSE yptr[t]]
          /\ parent' = [parent EXCEPT ![proc] = init_proc]
    /\ UNCHANGED <<proc_list, hashed, nr_process, next_pid, current, init_proc,
                   state, pages, intr, saved, pc, child, calls, hung>>

ExitReparentStuck ==
    /\ At("reparent")
    /\ cptr[current] # None
    /\ LET proc  == cptr[current]
           elder == cptr[init_proc]
       IN /\ cptr' = [cptr EXCEPT ![init_proc] = proc]
          /\ optr' = [optr EXCEPT ![proc] = elder]
          /\ yptr' = [t \in Tasks |-> IF t = elder THEN proc
                                      ELSE IF t = proc THEN None ELSE yptr[t]]
          /\ parent' = [parent EXCEPT ![proc] = init_proc]
    /\ UNCHANGED <<proc_list, hashed, nr_process, next_pid, current, init_proc,
                   state, pages, intr, saved, pc, child, calls, hung>>

(***************************************************************************)
(* One child is moved to the front of init's children.                     *)
(***************************************************************************)
ExitReparent ==
    /\ At("reparent")
    /\ cptr[current] # None
    /\ LET proc  == cptr[current]
           elder == cptr[init_proc]
       IN /\ cptr' = [cptr EXCEPT ![current] = optr[proc], ![init_proc] = proc]
          /\ optr' = [optr EXCEPT ![proc] = elder]
          /\ yptr' = [t \in Tasks |-> IF t = elder THEN proc
                                      ELSE IF t = proc THEN None ELSE yptr[t]]
          /\ parent' = [parent EXCEPT ![proc] = init_proc]
    /\ UNCHANGED <<proc_list, hashed, nr_process, next_pid, current, init_proc,
                   state, pages, intr, saved, pc, child, calls, hung>>

(* Mutant: the loop is left with children to hand over. *)
ExitUnlockEarly ==
    /\ At("reparent")
    /\ IntrRestore
    /\ Goto("leave")
    /\ UNCHANGED <<table, current, init_proc, state, pages, saved, child, calls, hung>>

ExitUnlock ==
    /\ At("reparent")
    /\ cptr[current] = None
    /\ IntrRestore
    /\ Goto("leave")
    /\ UNCHANGED <<table, current, init_proc, state, pages, saved, child, calls, hung>>

InCall ==
    \/ ForkStack \/ ForkLink \/ ForkWake \/ InitProcFound
    \/ ExitLock \/ ExitReparent \/ ExitUnlock

Next == ForkAlloc \/ ExitStart \/ Schedule \/ InCall

(***************************************************************************)
(* The processor goes on: calls of do_fork() and do_exit() run to their    *)
(* end, the boot code forks init, and processes keep calling schedule(),   *)
(* as the loops of idle and init do.  Nothing obliges a process to fork or *)
(* to exit.                                                                *)
(***************************************************************************)
Spec ==
    /\ Init /\ [][Next]_vars
    /\ WF_vars(InCall)
    /\ WF_vars(Schedule)
    /\ WF_vars(init_proc = None /\ ForkAlloc)

-----------------------------------------------------------------------------
(***************************************************************************)
(* Type correctness of the process table.                                  *)
(***************************************************************************)
TypeOK ==
    /\ proc_list \in Seq(Tasks)
    /\ hashed \subseteq Tasks
    /\ nr_process \in Nat
    /\ next_pid \in 1 .. MaxPid + 1
    /\ current \in Tasks
    /\ init_proc \in Tasks \cup {None}
    /\ state \in [Tasks -> States]
    /\ parent \in [Tasks -> Tasks \cup {None}]
    /\ cptr \in [Tasks -> Tasks \cup {None}]
    /\ yptr \in [Tasks -> Tasks \cup {None}]
    /\ optr \in [Tasks -> Tasks \cup {None}]
    /\ pages \in Nat
    /\ intr \in BOOLEAN
    /\ saved \in [Tasks -> BOOLEAN]
    /\ pc \in [Tasks -> Places]
    /\ child \in Tasks \cup {None}
    /\ calls \in {0, 1}
    /\ hung \in BOOLEAN

Linked == ToSet(proc_list)

(***************************************************************************)
(* The children of p in the order of the sibling chain: p's cptr, then     *)
(* optr of optr, at most one per task.                                     *)
(***************************************************************************)
Chain(p) ==
    LET nth[k \in 0 .. MaxPid] ==
            IF k = 0 THEN cptr[p]
            ELSE IF nth[k - 1] = None THEN None ELSE optr[nth[k - 1]]
    IN nth

(***************************************************************************)
(* Whenever an interrupt handler can look, the family tree is sound: the   *)
(* sibling chain of p holds exactly p's children, once each, and the       *)
(* younger-sibling pointers run it backwards.  This spans set_links() and  *)
(* the re-parenting of do_exit(), in any order of forks and exits.         *)
(***************************************************************************)
FamilyTree ==
    intr => \A p \in Tasks :
        LET c    == Chain(p)
            kids == {t \in Linked : parent[t] = p}
        IN /\ {c[k] : k \in DOMAIN c} \ {None} = kids
           /\ \A k \in DOMAIN c : c[k] # None =>
                 yptr[c[k]] = IF k = 0 THEN None ELSE c[k - 1]
           /\ \A j, k \in DOMAIN c : c[j] = c[k] /\ j # k => c[j] = None

(***************************************************************************)
(* The list ps walks has no process twice, agrees with the hash table that *)
(* find_proc() searches and has the length that nr_process reports.        *)
(***************************************************************************)
TableConsistent ==
    /\ Cardinality(Linked) = Len(proc_list)
    /\ Len(proc_list) = nr_process
    /\ Linked = hashed

(***************************************************************************)
(* A process in state RUNNING has the processor, and a process that waits  *)
(* for it is in switch_to() or has never run: schedule() can switch to     *)
(* every RUNNABLE process.                                                 *)
(***************************************************************************)
RunningIsCurrent ==
    \A t \in Linked :
        /\ state[t] = "RUNNING" => t = current
        /\ t # current /\ state[t] = "RUNNABLE" =>
              pc[t] \in {"switched", "forkret"}

(***************************************************************************)
(* A process computes with interrupts enabled once the kernel has booted:  *)
(* no path through the nested intr_save()/intr_restore() pairs of          *)
(* schedule() and proc_run() across switch_to() leaves them off.           *)
(***************************************************************************)
InterruptsRestored ==
    (init_proc # None /\ pc[current] # "reparent") => intr

(***************************************************************************)
(* No process is left the child of a zombie that has given up the          *)
(* processor: do_exit() hands every child over, zombies included.          *)
(***************************************************************************)
NoOrphans ==
    \A t \in Linked \ {idle_proc} :
        /\ parent[t] \in Linked
        /\ pc[parent[t]] \notin {"leave", "gone"}

(***************************************************************************)
(* do_exit() never reaches its panic.                                      *)
(***************************************************************************)
ExitNeverReturns == \A t \in Tasks : pc[t] # "panic"

(***************************************************************************)
(* A zombie stays one, and the processor never goes back to it: neither is *)
(* it switched to, nor does schedule() return to it.                       *)
(***************************************************************************)
ZombiesStayDead ==
    [][/\ \A t \in Tasks : state[t] = "ZOMBIE" =>
             /\ state'[t] = "ZOMBIE"
             /\ current # t => current' # t
       /\ ExitNeverReturns']_vars

(***************************************************************************)
(* A process that exits gives the processor up for good.                   *)
(***************************************************************************)
ExitLeaves ==
    \A t \in Tasks : state[t] = "ZOMBIE" ~> [](current # t)

(***************************************************************************)
(* Round robin: a runnable process (other than idle) gets its turn.        *)
(***************************************************************************)
RoundRobin ==
    \A t \in Tasks \ {idle_proc} :
        (t \in Linked /\ state[t] = "RUNNABLE") ~> (current = t \/ hung)
=============================================================================

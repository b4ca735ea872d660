-------------------------------- MODULE Trap --------------------------------
(***************************************************************************)
(* Traps and interrupts at the level of the stack: the stubs of            *)
(* kern/trap/vectors.S, _trap_entry (kern/trap/trapentry.S), trap() and    *)
(* its handlers (kern/trap/trap.c), the gates of kern/arch/x86/idt.c, the  *)
(* interrupt mask of kern/drivers/pic.c, and the way a new process starts, *)
(* copy_thread() (kern/sched/sched.c) and forkret (kern/sched/switch.S).   *)
(*                                                                         *)
(* Each instruction that moves the stack pointer is a step.  A word is a   *)
(* pair of what was meant by it and a number; an instruction takes the     *)
(* word it finds, whatever was meant.  All gates are trap gates, which     *)
(* leave IF alone, and the interrupt controllers end interrupts by         *)
(* themselves, so a handler is interrupted at any instruction, by its own  *)
(* line too.                                                               *)
(***************************************************************************)
EXTENDS Integers, Sequences, FiniteSets, SequencesExt

CONSTANTS Exceptions,   \* vectors the processor raises, page faults apart
          Lines,        \* interrupt lines of which a device may make use
          Addrs,        \* addresses whose access may fault
          Errs,         \* error codes other than 0
          MaxDepth,     \* bound: handlers on the stack
          MaxTraps      \* bound: traps ever taken

T_PGFLT == 14

T_SYSCALL == 128

IRQ_OFFSET == 32

IRQ_TIMER == 0

IRQ_KBD == 1

IRQ_SLAVE == 2

(* The vectors for which the processor pushes an error code. *)
ErrorCodeVectors == {8, 17} \cup 10 .. 14

ASSUME TrapAssumption ==
    /\ Exceptions \subseteq (0 .. 31) \ {T_PGFLT} /\ Lines \subseteq 0 .. 15
    /\ Addrs \subseteq Nat /\ Errs \subseteq Nat
    /\ MaxDepth \in Nat /\ MaxTraps \in Nat

VARIABLES stack,        \* the words on the kernel stack, the top one last
          eip,          \* the next instruction: a label and a number
          gpr,          \* the general registers, which pushal saves together
          FL_IF,        \* EFLAGS.IF
          cr2,          \* the address of the last page fault
          ticks,        \* pit.c's counter
          irq_mask,     \* the lines the controllers hold back
          booted,       \* how far kern_init() has come
          saved,        \* the traps under way and what they interrupted
          timers,       \* timer interrupts taken
          overlap,      \* one came inside another's ticks++
          traps         \* traps taken (saved to traps are not in the code)

cpu == <<stack, eip, gpr, FL_IF>>

ghosts == <<saved, timers, overlap, traps>>

vars == <<cpu, cr2, ticks, irq_mask, booted, ghosts>>

Flag(b) == IF b THEN 1 ELSE 0

Pop(k) == SubSeq(stack, 1, Len(stack) - k)

Go(label) == eip' = <<label, 0>>

At(label) == eip[1] = label

(* The order in which kern_init() comes to call pic_enable(). *)
Enables == <<IRQ_KBD, IRQ_SLAVE, 14, 15, IRQ_TIMER>>

Running == booted = Len(Enables) + 1

-----------------------------------------------------------------------------
Init ==
    /\ stack = <<>>
    /\ eip = <<"main", 0>>
    /\ gpr = 0 /\ FL_IF = FALSE /\ cr2 = 0 /\ ticks = 0
    /\ irq_mask = 0 .. 15
    /\ booted = 0
    /\ saved = <<>> /\ timers = 0 /\ overlap = FALSE /\ traps = 0

(***************************************************************************)
(* kern_init(): each driver opens its lines, and interrupts are allowed    *)
(* once idt_init() has filled all gates.                                   *)
(***************************************************************************)
pic_enable ==
    /\ booted < Len(Enables)
    /\ irq_mask' = irq_mask \ {Enables[booted + 1]}
    /\ booted' = booted + 1
    /\ UNCHANGED <<cpu, cr2, ticks, ghosts>>

intr_enable ==
    /\ booted = Len(Enables)
    /\ booted' = booted + 1
    /\ FL_IF' = TRUE
    /\ UNCHANGED <<stack, eip, gpr, cr2, ticks, irq_mask, ghosts>>

(***************************************************************************)
(* Kernel code outside handlers: it computes, and opens and closes         *)
(* intr_save() sections.                                                   *)
(***************************************************************************)
Main ==
    /\ Running /\ At("main")
    /\ eip' = <<"main", 1 - eip[2]>>
    /\ gpr' \in {0, 1}
    /\ FL_IF' \in BOOLEAN
    /\ UNCHANGED <<stack, cr2, ticks, irq_mask, booted, ghosts>>

(***************************************************************************)
(* schedule() switches to a process that do_fork() has just made.          *)
(* copy_thread() put a frame with eax = 0 and IF set on its stack, esp and *)
(* ss included, and made forkret its next instruction.                     *)
(***************************************************************************)
Context(v, err, addr) ==
    [gpr |-> gpr, eip |-> eip, flag |-> FL_IF, sp |-> Len(stack),
     v |-> v, err |-> err, addr |-> addr, crossed |-> FALSE]

FirstRun ==
    /\ Running /\ At("main") /\ saved = <<>>
    /\ LET start == <<"main", 1>>
           regs == 0
       IN /\ stack' = <<<<"ss", 0>>, <<"esp", 0>>, <<"eflags", Flag(TRUE)>>,
                        <<"cs", 8>>, start, <<"err", 0>>, <<"trapno", 0>>,
                        <<"regs", regs>>>>
          /\ saved' = <<[Context(0, 0, 0) EXCEPT !.eip = start, !.gpr = regs,
                                                 !.flag = TRUE, !.sp = 2]>>
    /\ Go("popal")
    /\ FL_IF' = FALSE
    /\ UNCHANGED <<gpr, cr2, ticks, irq_mask, booted, timers, overlap, traps>>

-----------------------------------------------------------------------------
(***************************************************************************)
(* The processor takes a trap through its gate (external): it pushes       *)
(* eflags, cs, eip and, for some vectors, an error code, and continues in  *)
(* the stub the gate names.                                                *)
(***************************************************************************)
Enter(v, err) ==
    /\ Running
    /\ Len(saved) < MaxDepth /\ traps < MaxTraps
    /\ stack' = stack \o <<<<"eflags", Flag(FL_IF)>>, <<"cs", 8>>, eip>>
                      \o (IF v \in ErrorCodeVectors THEN <<<<"err", err>>>> ELSE <<>>)
    /\ eip' = <<"vector", v>>
    /\ traps' = traps + 1
    /\ UNCHANGED <<gpr, FL_IF, ticks, irq_mask, booted>>

Remember(v, err) == saved' = Append(saved, Context(v, err, 0))

(* Code that may raise exceptions: the main code and shell commands. *)
MayFault == At("main") \/ At("irq_kbd")

Exception(v, err) ==
    /\ MayFault
    /\ err = 0 \/ v \in ErrorCodeVectors
    /\ Enter(v, err)
    /\ Remember(v, err)
    /\ UNCHANGED <<cr2, timers, overlap>>

PageFault(err, a) ==
    /\ MayFault
    /\ Enter(T_PGFLT, err)
    /\ cr2' = a
    /\ saved' = Append([i \in DOMAIN saved |-> [saved[i] EXCEPT !.crossed = TRUE]],
                       Context(T_PGFLT, err, a))
    /\ UNCHANGED <<timers, overlap>>

Syscall ==
    /\ At("main")
    /\ Enter(T_SYSCALL, 0)
    /\ Remember(T_SYSCALL, 0)
    /\ UNCHANGED <<cr2, timers, overlap>>

(* A line of the second controller comes through IRQ_SLAVE of the first. *)
Interrupt(l) ==
    /\ FL_IF
    /\ l \notin irq_mask /\ (l >= 8 => IRQ_SLAVE \notin irq_mask)
    /\ Enter(IRQ_OFFSET + l, 0)
    /\ Remember(IRQ_OFFSET + l, 0)
    /\ timers' = IF l = IRQ_TIMER THEN timers + 1 ELSE timers
    /\ overlap' = (overlap \/ /\ l = IRQ_TIMER
                              /\ \E x \in ToSet(saved') : x.eip[1] = "ticks_inc")
    /\ UNCHANGED cr2

-----------------------------------------------------------------------------
(* Mutant: the stub of the alignment check pads as well. *)
PaddedAll17(v) == v \notin ({8} \cup 10 .. 14)

(***************************************************************************)
(* vectors.S: the stub pushes a 0 in place of a missing error code, then   *)
(* its number.                                                             *)
(***************************************************************************)
Padded(v) == v \notin ({8, 17} \cup 10 .. 14)

Stub ==
    /\ At("vector")
    /\ stack' = stack \o (IF Padded(eip[2]) THEN <<<<"err", 0>>>> ELSE <<>>)
                      \o <<<<"trapno", eip[2]>>>>
    /\ Go("pushal")
    /\ UNCHANGED <<gpr, FL_IF, cr2, ticks, irq_mask, booted, ghosts>>

Pushal ==
    /\ At("pushal")
    /\ stack' = Append(stack, <<"regs", gpr>>)
    /\ Go("pushl_esp")
    /\ UNCHANGED <<gpr, FL_IF, cr2, ticks, irq_mask, booted, ghosts>>

(* The value pushed is the stack pointer before the push. *)
PushlEsp ==
    /\ At("pushl_esp")
    /\ stack' = Append(stack, <<"tf", Len(stack)>>)
    /\ Go("call")
    /\ UNCHANGED <<gpr, FL_IF, cr2, ticks, irq_mask, booted, ghosts>>

Call ==
    /\ At("call")
    /\ stack' = Append(stack, <<"popl_esp", 0>>)
    /\ Go("trap")
    /\ UNCHANGED <<gpr, FL_IF, cr2, ticks, irq_mask, booted, ghosts>>

(***************************************************************************)
(* trap_frame, found through trap()'s argument, which lies below its       *)
(* return address.                                                         *)
(***************************************************************************)
tf == stack[Len(stack) - 1][2]

tf_trapno == stack[tf - 1][2]

tf_err == stack[tf - 2][2]

tf_eip == stack[tf - 3]

(***************************************************************************)
(* The switch of trap().  irq_timer() loads ticks into registers; the      *)
(* shell runs in irq_kbd(); pg_fault() prints the frame before it reads    *)
(* cr2; every other case does nothing.                                     *)
(***************************************************************************)
Dispatch ==
    /\ At("trap")
    /\ Go(CASE tf_trapno = T_PGFLT -> "pg_fault"
            [] tf_trapno = IRQ_OFFSET + IRQ_TIMER -> "ticks_inc"
            [] tf_trapno = IRQ_OFFSET + IRQ_KBD -> "irq_kbd"
            [] OTHER -> "ret")
    /\ gpr' = IF tf_trapno = IRQ_OFFSET + IRQ_TIMER THEN ticks ELSE tf_trapno
    /\ UNCHANGED <<stack, FL_IF, cr2, ticks, irq_mask, booted, ghosts>>

irq_timer ==
    /\ At("ticks_inc")
    /\ ticks' = gpr + 1
    /\ Go("ret")
    /\ UNCHANGED <<stack, gpr, FL_IF, cr2, irq_mask, booted, ghosts>>

irq_kbd ==
    /\ At("irq_kbd")
    /\ Go("ret")
    /\ UNCHANGED <<stack, gpr, FL_IF, cr2, ticks, irq_mask, booted, ghosts>>

(* CR2 is read twice, by print_pgfault() and for vmm_pg_fault(): the second counts. *)
pg_fault ==
    /\ At("pg_fault")
    /\ gpr' = cr2
    /\ Go("ret")
    /\ UNCHANGED <<stack, FL_IF, cr2, ticks, irq_mask, booted, ghosts>>

(* pic_send_eoi() finds no interrupt in service, and trap() returns. *)
Return ==
    /\ At("ret")
    /\ eip' = Last(stack)
    /\ stack' = Pop(1)
    /\ UNCHANGED <<gpr, FL_IF, cr2, ticks, irq_mask, booted, ghosts>>

(* popl %esp: the stack is what it was when tf was pushed. *)
PoplEsp ==
    /\ At("popl_esp")
    /\ stack' = SubSeq(stack, 1, Last(stack)[2])
    /\ Go("popal")
    /\ UNCHANGED <<gpr, FL_IF, cr2, ticks, irq_mask, booted, ghosts>>

(* Mutant: the saved registers are dropped, not loaded. *)
PopalDropped ==
    /\ At("popal")
    /\ stack' = Pop(1)
    /\ Go("addl")
    /\ UNCHANGED <<gpr, FL_IF, cr2, ticks, irq_mask, booted, ghosts>>

(* The rest of _trap_entry is also forkret (switch.S). *)
Popal ==
    /\ At("popal")
    /\ gpr' = Last(stack)[2]
    /\ stack' = Pop(1)
    /\ Go("addl")
    /\ UNCHANGED <<FL_IF, cr2, ticks, irq_mask, booted, ghosts>>

(* Mutant: only the number is dropped. *)
AddlOne ==
    /\ At("addl")
    /\ stack' = Pop(1)
    /\ Go("iret")
    /\ UNCHANGED <<gpr, FL_IF, cr2, ticks, irq_mask, booted, ghosts>>

Addl ==
    /\ At("addl")
    /\ stack' = Pop(2)
    /\ Go("iret")
    /\ UNCHANGED <<gpr, FL_IF, cr2, ticks, irq_mask, booted, ghosts>>

Iret ==
    /\ At("iret")
    /\ eip' = Last(stack)
    /\ FL_IF' = (stack[Len(stack) - 2][2] = 1)
    /\ stack' = Pop(3)
    /\ saved' = Front(saved)
    /\ UNCHANGED <<gpr, cr2, ticks, irq_mask, booted, timers, overlap, traps>>

Handler ==
    \/ Stub \/ Pushal \/ PushlEsp \/ Call
    \/ Dispatch \/ irq_timer \/ irq_kbd \/ pg_fault
    \/ Return \/ PoplEsp \/ Popal \/ Addl \/ Iret

Next ==
    \/ pic_enable \/ intr_enable \/ Main \/ FirstRun
    \/ \E v \in Exceptions, err \in Errs \cup {0} : Exception(v, err)
    \/ \E err \in Errs, a \in Addrs : PageFault(err, a)
    \/ Syscall
    \/ \E l \in Lines : Interrupt(l)
    \/ Handler

Spec == Init /\ [][Next]_vars

-----------------------------------------------------------------------------
(***************************************************************************)
(* Whatever nests in a handler, iret gives the interrupted code back its   *)
(* instruction, registers, interrupt flag and stack; a new process starts  *)
(* at its function with eax = 0 and interrupts on.                         *)
(***************************************************************************)
ContextRestored ==
    [][Len(saved') < Len(saved) =>
         LET x == Last(saved) IN /\ eip' = x.eip /\ gpr' = x.gpr /\ FL_IF' = x.flag
                                 /\ Len(stack') = x.sp]_vars

(***************************************************************************)
(* For every vector, with and without an error code, trap() finds in its   *)
(* frame the number, the error code and the place of the trap it is called *)
(* for.  pg_fault() reads its address from cr2, which no frame saves: it   *)
(* is the right one unless another fault was taken in between.             *)
(***************************************************************************)
HandlerSeesCause ==
    LET x == Last(saved) IN
    /\ At("trap") => tf_trapno = x.v /\ tf_err = x.err /\ tf_eip = x.eip
    /\ At("pg_fault") => cr2 = x.addr \/ x.crossed

(***************************************************************************)
(* No timer interrupt is counted twice, and none is lost unless it comes   *)
(* between the load and the store of another's ticks++.                    *)
(***************************************************************************)
TicksExact ==
    /\ ticks <= timers
    /\ (saved = <<>> /\ ~overlap) => ticks = timers
=============================================================================

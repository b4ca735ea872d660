---------------------------- MODULE TrapProofs -----------------------------
(***************************************************************************)
(* Proofs about traps and interrupts, for every set of vectors, lines and  *)
(* addresses and every depth of nesting.                                   *)
(***************************************************************************)
EXTENDS Trap, FiniteSetTheorems, SequenceTheorems, TLAPS

-----------------------------------------------------------------------------
(***************************************************************************)
(* The inductive invariant.                                                *)
(***************************************************************************)
Labels ==
    {"main", "vector", "pushal", "pushl_esp", "call", "trap", "pg_fault",
     "ticks_inc", "irq_kbd", "ret", "popl_esp", "popal", "addl", "iret"}

Tags == Labels \cup {"ss", "esp", "eflags", "cs", "err", "trapno", "regs", "tf"}

Word == Tags \X Int

Contexts ==
    [gpr : Int, eip : Word, flag : BOOLEAN, sp : Nat, v : Int, err : Int,
     addr : Int, crossed : BOOLEAN]

TypeInv ==
    /\ stack \in Seq(Word) /\ eip \in Word /\ gpr \in Int /\ FL_IF \in BOOLEAN
    /\ cr2 \in Int /\ ticks \in Int /\ timers \in Int /\ overlap \in BOOLEAN
    /\ saved \in Seq(Contexts)

(***************************************************************************)
(* The code at level i is what handles trap i: level 0 is the main code,   *)
(* the highest level is running, and every other one was interrupted and   *)
(* is described by the context that the next trap saved.                   *)
(***************************************************************************)
EipAt(i) == IF i < Len(saved) THEN saved[i + 1].eip ELSE eip

GprAt(i) == IF i < Len(saved) THEN saved[i + 1].gpr ELSE gpr

SpAt(i) == IF i < Len(saved) THEN saved[i + 1].sp ELSE Len(stack)

(***************************************************************************)
(* How many words of its frame the handler of trap x has on the stack at   *)
(* each instruction e, up to top, and when the registers g are still or    *)
(* again the interrupted code's.                                           *)
(***************************************************************************)
Extent(x, e, g, top) ==
    \/ /\ e[1] = "vector" /\ e[2] = x.v /\ g = x.gpr
       /\ x.v \in ErrorCodeVectors => top = x.sp + 4
       /\ x.v \notin ErrorCodeVectors => top = x.sp + 3
    \/ e[1] \in {"pushal", "addl"} /\ top = x.sp + 5 /\ g = x.gpr
    \/ e[1] \in {"pushl_esp", "popal"} /\ top = x.sp + 6
    \/ e[1] \in {"call", "popl_esp"} /\ top = x.sp + 7
    \/ e[1] \in {"trap", "irq_kbd", "ret"} /\ top = x.sp + 8
    \/ e[1] = "pg_fault" /\ top = x.sp + 8 /\ x.v = T_PGFLT
    \/ e[1] = "ticks_inc" /\ top = x.sp + 8 /\ x.v = IRQ_OFFSET + IRQ_TIMER
    \/ e[1] = "iret" /\ top = x.sp + 3 /\ g = x.gpr

(***************************************************************************)
(* What the words of the frame are, as far as they are on the stack st.    *)
(***************************************************************************)
Contents(st, x, top) ==
    /\ st[x.sp + 1][2] = Flag(x.flag)
    /\ st[x.sp + 3] = x.eip
    /\ x.sp + 4 <= top => st[x.sp + 4][2] = x.err
    /\ x.sp + 5 <= top => st[x.sp + 5][2] = x.v
    /\ x.sp + 6 <= top => st[x.sp + 6][2] = x.gpr
    /\ x.sp + 7 <= top => st[x.sp + 7][2] = x.sp + 6
    /\ x.sp + 8 <= top => st[x.sp + 8] = <<"popl_esp", 0>>

Frame(st, x, e, g, top) == Extent(x, e, g, top) /\ Contents(st, x, top)

StackInv ==
    /\ EipAt(0)[1] = "main"
    /\ \A i \in 1 .. Len(saved) : 
          Frame(stack, saved[i], EipAt(i), GprAt(i), SpAt(i))
    /\ \A i, j \in 1 .. Len(saved) : i < j => saved[i].sp < saved[j].sp

(***************************************************************************)
(* CauseInv: what is saved of a trap fits its vector, and cr2 is the       *)
(* address of every page fault under way that no later one has crossed.    *)
(***************************************************************************)
CauseInv ==
    \A i \in 1 .. Len(saved) :
        /\ saved[i].v \notin ErrorCodeVectors => saved[i].err = 0
        /\ saved[i].v = T_PGFLT => cr2 = saved[i].addr \/ saved[i].crossed

(***************************************************************************)
(* TickInv: the timer interrupts that have yet to store ticks are counted  *)
(* in timers already; one that has loaded ticks stores the value of that   *)
(* time, which is still right if no other came in between.                 *)
(***************************************************************************)
Uncounted == {"vector", "pushal", "pushl_esp", "call", "trap", "ticks_inc"}

Timer(i) == saved[i].v = IRQ_OFFSET + IRQ_TIMER

Pending(n) == {i \in 1 .. n : Timer(i) /\ EipAt(i)[1] \in Uncounted}

Loaded == {i \in 1 .. Len(saved) : EipAt(i)[1] = "ticks_inc"}

TickInv ==
    /\ ticks + Cardinality(Pending(Len(saved))) <= timers
    /\ \A i \in Loaded : GprAt(i) + Cardinality(Pending(i)) <= timers
    /\ ~overlap =>
          /\ ticks + Cardinality(Pending(Len(saved))) = timers
          /\ \A i \in Loaded : GprAt(i) = ticks
          /\ \A i \in Loaded, j \in 1 .. Len(saved) : i < j => ~Timer(j)

IInv == TypeInv /\ StackInv /\ CauseInv /\ TickInv

-----------------------------------------------------------------------------
(***************************************************************************)
(* What trap gates and stubs agree on: the stubs pad exactly the vectors   *)
(* for which the processor pushes nothing.                                 *)
(***************************************************************************)
LEMMA VectorFacts ==
    /\ \A v : Padded(v) <=> v \notin ErrorCodeVectors
    /\ 0 \notin ErrorCodeVectors /\ T_SYSCALL \notin ErrorCodeVectors
    /\ \A l \in Lines : IRQ_OFFSET + l \notin ErrorCodeVectors
    /\ \A l \in Lines : IRQ_OFFSET + l \in Int /\ IRQ_OFFSET + l # T_PGFLT
    /\ \A l \in Lines : IRQ_OFFSET + l = IRQ_OFFSET + IRQ_TIMER <=> l = IRQ_TIMER
    /\ \A v \in Exceptions :
          v \in Int /\ v # T_PGFLT /\ v # IRQ_OFFSET + IRQ_TIMER
    /\ T_SYSCALL # T_PGFLT /\ T_SYSCALL # IRQ_OFFSET + IRQ_TIMER
    /\ T_PGFLT # IRQ_OFFSET + IRQ_TIMER /\ 0 # IRQ_OFFSET + IRQ_TIMER
    /\ T_PGFLT \in ErrorCodeVectors /\ T_PGFLT \in Int /\ T_SYSCALL \in Int
BY TrapAssumption DEF Padded, ErrorCodeVectors, T_SYSCALL, T_PGFLT, IRQ_OFFSET,
                      IRQ_TIMER

(***************************************************************************)
(* Words are pairs of a tag and a number.                                  *)
(***************************************************************************)
LEMMA WordFacts ==
    /\ \A t \in Tags, n \in Int : <<t, n>> \in Word
    /\ \A w \in Word : w[1] \in Tags /\ w[2] \in Int
    /\ {"ss", "esp", "eflags", "cs", "err", "trapno", "regs", "tf"} \subseteq Tags
    /\ {"main", "vector", "pushal", "pushl_esp", "call", "trap", "pg_fault",
        "ticks_inc", "irq_kbd", "ret", "popl_esp", "popal", "addl", "iret"}
          \subseteq Tags
BY DEF Word, Tags, Labels

(***************************************************************************)
(* The first m elements of a sequence.                                     *)
(***************************************************************************)
LEMMA PrefixFacts ==
    ASSUME NEW S, NEW s \in Seq(S), NEW m \in Nat, m <= Len(s)
    PROVE  /\ SubSeq(s, 1, m) \in Seq(S)
           /\ Len(SubSeq(s, 1, m)) = m
           /\ \A i \in 1 .. m : SubSeq(s, 1, m)[i] = s[i]
<1>1. Len(s) \in Nat /\ \A i \in 1 .. Len(s) : s[i] \in S
  OBVIOUS
<1>2. \A i \in 1 .. m : s[i] \in S
  BY <1>1
<1>3. /\ SubSeq(s, 1, m) \in Seq(S)
      /\ Len(SubSeq(s, 1, m)) = IF 1 <= m THEN m - 1 + 1 ELSE 0
      /\ \A i \in 1 .. m - 1 + 1 : SubSeq(s, 1, m)[i] = s[1 + i - 1]
  BY <1>2, SubSeqProperties
<1>4. m - 1 + 1 = m /\ \A i \in 1 .. m : 1 + i - 1 = i
  OBVIOUS
<1> QED
  BY <1>3, <1>4

(***************************************************************************)
(* Front and Last of a sequence that is not empty.                         *)
(***************************************************************************)
LEMMA FrontFacts ==
    ASSUME NEW S, NEW s \in Seq(S), Len(s) > 0
    PROVE  /\ Len(s) \in Nat /\ Len(s) - 1 \in Nat
           /\ Front(s) \in Seq(S) /\ Len(Front(s)) = Len(s) - 1
           /\ \A i \in 1 .. Len(s) - 1 : Front(s)[i] = s[i]
           /\ Last(s) = s[Len(s)]
<1>1. Len(s) \in Nat /\ Len(s) - 1 \in Nat /\ Len(s) - 1 <= Len(s)
  OBVIOUS
<1>2. Front(s) = SubSeq(s, 1, Len(s) - 1) /\ Last(s) = s[Len(s)]
  BY DEF Front, Last
<1>3. PICK m : m = Len(s) - 1
  OBVIOUS
<1>4. m \in Nat /\ m <= Len(s)
  BY <1>1, <1>3
<1>5. /\ SubSeq(s, 1, m) \in Seq(S) /\ Len(SubSeq(s, 1, m)) = m
      /\ \A i \in 1 .. m : SubSeq(s, 1, m)[i] = s[i]
  BY <1>4, PrefixFacts
<1> QED
  BY <1>1, <1>2, <1>3, <1>5

(***************************************************************************)
(* A handler has at least the processor's three words on the stack.        *)
(***************************************************************************)
LEMMA ExtentBound ==
    ASSUME NEW x, NEW e, NEW g, NEW top \in Nat, x.sp \in Nat,
           Extent(x, e, g, top)
    PROVE  x.sp + 3 <= top
BY DEF Extent

(***************************************************************************)
(* A frame stays a frame while the stack under top keeps its words.        *)
(***************************************************************************)
LEMMA FrameKept ==
    ASSUME NEW st, NEW st2, NEW x \in Contexts, NEW x2 \in Contexts, NEW e, NEW g,
           NEW top \in Nat, Frame(st, x, e, g, top),
           x2.eip = x.eip, x2.gpr = x.gpr, x2.sp = x.sp, x2.v = x.v,
           x2.err = x.err, x2.flag = x.flag,
           \A k \in 1 .. top : st2[k] = st[k]
    PROVE  Frame(st2, x2, e, g, top)
<1>0. x.sp \in Nat
  BY DEF Contexts
<1>1. x.sp + 3 <= top
  BY <1>0 DEF Frame, Extent
<1>2. Extent(x2, e, g, top)
  BY DEF Frame, Extent
<1>3. Contents(st2, x2, top)
  <2>1. \A k \in 1 .. 3 : st2[x.sp + k] = st[x.sp + k]
    BY <1>0, <1>1
  <2>2. \A k \in 4 .. 8 : x.sp + k <= top => st2[x.sp + k] = st[x.sp + k]
    BY <1>0, <1>1
  <2>3. Flag(x2.flag) = Flag(x.flag)
    BY DEF Flag
  <2> QED
    BY <2>1, <2>2, <2>3 DEF Frame, Contents
<1> QED
  BY <1>2, <1>3 DEF Frame

(***************************************************************************)
(* What the invariant says of the running level.                           *)
(***************************************************************************)
LEMMA TopFacts ==
    ASSUME TypeInv, StackInv, ~(eip[1] = "main")
    PROVE  \E x \in Contexts :
           /\ Len(saved) \in Nat /\ Len(saved) > 0 /\ Len(stack) \in Nat
           /\ x = saved[Len(saved)] /\ x = Last(saved)
           /\ x.sp \in Nat /\ x.sp + 3 <= Len(stack)
           /\ Frame(stack, x, eip, gpr, Len(stack))
<1>1. Len(saved) \in Nat /\ Len(stack) \in Nat
  BY DEF TypeInv
<1>2. Len(saved) > 0
  BY <1>1 DEF StackInv, EipAt
<1>3. PICK x \in Contexts : x = saved[Len(saved)]
  BY <1>1, <1>2 DEF TypeInv
<1>4. x = Last(saved)
  BY <1>3 DEF Last
<1>5. Frame(stack, x, eip, gpr, Len(stack))
  <2>1. Len(saved) \in 1 .. Len(saved) /\ ~(Len(saved) < Len(saved))
    BY <1>1, <1>2
  <2> QED
    BY <1>3, <2>1 DEF StackInv, EipAt, GprAt, SpAt
<1>6. x.sp \in Nat
  BY DEF Contexts
<1>7. x.sp + 3 <= Len(stack)
  BY <1>1, <1>5, <1>6, ExtentBound DEF Frame
<1> QED
  BY <1>1, <1>2, <1>3, <1>4, <1>5, <1>6, <1>7

(***************************************************************************)
(* Main code runs only when no trap is under way.                          *)
(***************************************************************************)
LEMMA MainFacts ==
    ASSUME TypeInv, StackInv, eip[1] = "main"
    PROVE  saved = << >> /\ Len(saved) = 0
<1>1. Len(saved) \in Nat /\ (Len(saved) = 0 => saved = << >>)
  BY DEF TypeInv
<1>2. ASSUME Len(saved) > 0 PROVE FALSE
  <2>1. Len(saved) \in 1 .. Len(saved) /\ ~(Len(saved) < Len(saved))
    BY <1>1, <1>2
  <2>2. Frame(stack, saved[Len(saved)], eip, gpr, Len(stack))
    BY <2>1 DEF StackInv, EipAt, GprAt, SpAt
  <2> QED
    BY <2>2 DEF Frame, Extent
<1> QED
  BY <1>1, <1>2

(***************************************************************************)
(* Every level lies above the ones it interrupted.                         *)
(***************************************************************************)
LEMMA LevelFacts ==
    ASSUME TypeInv, StackInv
    PROVE  /\ Len(saved) \in Nat /\ Len(stack) \in Nat
           /\ \A i \in 1 .. Len(saved) :
                 /\ saved[i] \in Contexts /\ saved[i].sp \in Nat
                 /\ SpAt(i) \in Nat /\ saved[i].sp + 3 <= SpAt(i)
                 /\ SpAt(i) <= Len(stack)
                 /\ i < Len(saved) => SpAt(i) <= saved[Len(saved)].sp
<1>1. Len(saved) \in Nat /\ Len(stack) \in Nat
      /\ \A i \in 1 .. Len(saved) : saved[i] \in Contexts
  BY DEF TypeInv
<1>2. \A i \in 1 .. Len(saved) : saved[i].sp \in Nat
  BY <1>1 DEF Contexts
<1>3. \A i \in 1 .. Len(saved) : SpAt(i) \in Nat
  BY <1>1, <1>2 DEF SpAt
<1>4. \A i \in 1 .. Len(saved) : saved[i].sp + 3 <= SpAt(i)
  <2> TAKE i \in 1 .. Len(saved)
  <2>1. Extent(saved[i], EipAt(i), GprAt(i), SpAt(i))
    BY DEF StackInv, Frame
  <2>2. saved[i].sp \in Nat /\ SpAt(i) \in Nat
    BY <1>2, <1>3
  <2> QED
    BY <2>1, <2>2, ExtentBound
<1>5. \A i \in 1 .. Len(saved) : i < Len(saved) => SpAt(i) <= saved[Len(saved)].sp
  <2> TAKE i \in 1 .. Len(saved)
  <2> HAVE i < Len(saved)
  <2>1. i + 1 \in 1 .. Len(saved) /\ Len(saved) \in 1 .. Len(saved)
    BY <1>1
  <2>2. SpAt(i) = saved[i + 1].sp
    BY DEF SpAt
  <2>3. i + 1 = Len(saved) \/ saved[i + 1].sp < saved[Len(saved)].sp
    BY <1>1, <2>1 DEF StackInv
  <2> QED
    BY <1>2, <2>1, <2>2, <2>3
<1>6. \A i \in 1 .. Len(saved) : SpAt(i) <= Len(stack)
  <2> TAKE i \in 1 .. Len(saved)
  <2>1. Len(saved) \in 1 .. Len(saved) /\ SpAt(Len(saved)) = Len(stack)
    BY <1>1 DEF SpAt
  <2>2. saved[Len(saved)].sp <= Len(stack)
    BY <1>1, <1>2, <1>4, <2>1
  <2>3. CASE i < Len(saved)
    BY <1>1, <1>2, <1>3, <1>5, <2>1, <2>2, <2>3
  <2>4. CASE ~(i < Len(saved))
    <3>1. i = Len(saved)
      BY <1>1, <2>4
    <3> QED
      BY <1>1, <2>1, <3>1
  <2> QED
    BY <2>3, <2>4
<1> QED
  BY <1>1, <1>2, <1>3, <1>4, <1>5, <1>6

(***************************************************************************)
(* A step of a handler changes the stack above its frame's base only.      *)
(***************************************************************************)
LEMMA HandlerStack ==
    ASSUME TypeInv, StackInv, UNCHANGED saved, Len(saved) > 0,
           NEW x \in Contexts, x = saved[Len(saved)],
           \A k \in 1 .. x.sp : stack'[k] = stack[k],
           Frame(stack', x, eip', gpr', Len(stack'))
    PROVE  StackInv'
<1>1. Len(saved) \in Nat /\ Len(saved) \in 1 .. Len(saved)
  BY DEF TypeInv
<1>2. EipAt(0)' = EipAt(0)
  BY DEF EipAt
<1>3. ASSUME NEW i \in 1 .. Len(saved)
      PROVE  Frame(stack', saved'[i], EipAt(i)', GprAt(i)', SpAt(i)')
  <2>1. CASE i < Len(saved)
    <3>1. EipAt(i)' = EipAt(i) /\ GprAt(i)' = GprAt(i) /\ SpAt(i)' = SpAt(i)
      BY <2>1 DEF EipAt, GprAt, SpAt
    <3>2. Frame(stack, saved[i], EipAt(i), GprAt(i), SpAt(i))
      BY DEF StackInv
    <3>3. saved[i] \in Contexts /\ SpAt(i) \in Nat /\ SpAt(i) <= x.sp /\ x.sp \in Nat
      BY <1>1, <2>1, LevelFacts
    <3>4. \A k \in 1 .. SpAt(i) : stack'[k] = stack[k]
      BY <3>3
    <3>5. Frame(stack', saved[i], EipAt(i), GprAt(i), SpAt(i))
      BY <3>2, <3>3, <3>4, FrameKept
    <3> QED
      BY <3>1, <3>5
  <2>2. CASE i = Len(saved)
    <3>1. EipAt(i)' = eip' /\ GprAt(i)' = gpr' /\ SpAt(i)' = Len(stack')
      BY <1>1, <2>2 DEF EipAt, GprAt, SpAt
    <3> QED
      BY <2>2, <3>1
  <2> QED
    BY <1>1, <2>1, <2>2
<1> QED
  BY <1>2, <1>3 DEF StackInv

(***************************************************************************)
(* A trap: the new frame lies on top of everything that was there.         *)
(***************************************************************************)
LEMMA EnterStack ==
    ASSUME TypeInv, StackInv, Len(saved') = Len(saved) + 1,
           \A i \in 1 .. Len(saved) :
              /\ saved'[i] \in Contexts /\ saved'[i].eip = saved[i].eip
              /\ saved'[i].gpr = saved[i].gpr /\ saved'[i].sp = saved[i].sp
              /\ saved'[i].v = saved[i].v /\ saved'[i].err = saved[i].err
              /\ saved'[i].flag = saved[i].flag,
           NEW x \in Contexts, x = saved'[Len(saved) + 1],
           x.eip = eip, x.gpr = gpr, x.sp = Len(stack),
           \A k \in 1 .. Len(stack) : stack'[k] = stack[k],
           Frame(stack', x, eip', gpr', Len(stack'))
    PROVE  /\ StackInv'
           /\ \A i \in 0 .. Len(saved) :
                 EipAt(i)' = EipAt(i) /\ GprAt(i)' = GprAt(i)
           /\ EipAt(Len(saved))' = eip'
<1>1. Len(saved) \in Nat /\ Len(stack) \in Nat
  BY LevelFacts
<1>2. \A i \in 0 .. Len(saved) : EipAt(i)' = EipAt(i) /\ GprAt(i)' = GprAt(i)
                                 /\ SpAt(i)' = SpAt(i)
  <2> TAKE i \in 0 .. Len(saved)
  <2>1. i < Len(saved)'
    BY <1>1
  <2>2. CASE i < Len(saved)
    <3>1. i + 1 \in 1 .. Len(saved)
      BY <1>1, <2>2
    <3> QED
      BY <2>1, <2>2, <3>1 DEF EipAt, GprAt, SpAt
  <2>3. CASE i = Len(saved)
    <3>1. ~(Len(saved) < Len(saved))
      BY <1>1
    <3> QED
      BY <2>1, <2>3, <3>1 DEF EipAt, GprAt, SpAt
  <2> QED
    BY <1>1, <2>2, <2>3
<1>3. EipAt(Len(saved))' = eip'
  <2>1. ~(Len(saved) < Len(saved))'
    BY <1>1
  <2> QED
    BY <2>1 DEF EipAt
<1>4. (EipAt(0)[1] = "main")'
  BY <1>1, <1>2 DEF StackInv
<1>5. \A i \in 1 .. Len(saved)' : i = Len(saved) + 1 \/ i \in 1 .. Len(saved)
  BY <1>1
<1>6. ASSUME NEW i \in 1 .. Len(saved)'
      PROVE  Frame(stack', saved'[i], EipAt(i)', GprAt(i)', SpAt(i)')
  <2>1. CASE i = Len(saved) + 1
    <3>1. ~(i < Len(saved'))
      BY <1>1, <2>1
    <3>2. EipAt(i)' = eip' /\ GprAt(i)' = gpr' /\ SpAt(i)' = Len(stack')
      BY <3>1 DEF EipAt, GprAt, SpAt
    <3>3. saved'[i] = x
      BY <2>1
    <3> QED
      BY <3>2, <3>3
  <2>2. CASE i \in 1 .. Len(saved)
    <3>1. Frame(stack, saved[i], EipAt(i), GprAt(i), SpAt(i))
      BY <2>2 DEF StackInv
    <3>2. saved[i] \in Contexts /\ SpAt(i) \in Nat /\ SpAt(i) <= Len(stack)
      BY <2>2, LevelFacts
    <3>3. \A k \in 1 .. SpAt(i) : stack'[k] = stack[k]
      BY <1>1, <3>2
    <3>4. Frame(stack', saved'[i], EipAt(i), GprAt(i), SpAt(i))
      <4>1. /\ saved'[i] \in Contexts /\ saved'[i].eip = saved[i].eip
            /\ saved'[i].gpr = saved[i].gpr /\ saved'[i].sp = saved[i].sp
            /\ saved'[i].v = saved[i].v /\ saved'[i].err = saved[i].err
            /\ saved'[i].flag = saved[i].flag
        BY <2>2
      <4>2. PICK y \in Contexts : y = saved'[i]
        BY <4>1
      <4>3. PICK z \in Contexts : z = saved[i]
        BY <3>2
      <4>4. PICK e, g, t : e = EipAt(i) /\ g = GprAt(i) /\ t = SpAt(i)
        OBVIOUS
      <4>5. /\ y.eip = z.eip /\ y.gpr = z.gpr /\ y.sp = z.sp /\ y.v = z.v
            /\ y.err = z.err /\ y.flag = z.flag
        BY <4>1, <4>2, <4>3
      <4>6. Frame(stack, z, e, g, t) /\ t \in Nat /\ \A k \in 1 .. t : stack'[k] = stack[k]
        BY <3>1, <3>2, <3>3, <4>3, <4>4
      <4>7. Frame(stack', y, e, g, t)
        BY <4>5, <4>6, FrameKept
      <4> QED
        BY <4>2, <4>4, <4>7
    <3>5. i \in 0 .. Len(saved)
      BY <1>1, <2>2
    <3> QED
      BY <1>2, <3>4, <3>5
  <2> QED
    BY <1>5, <2>1, <2>2
<1>7. ASSUME NEW i \in 1 .. Len(saved)', NEW j \in 1 .. Len(saved)', i < j
      PROVE  saved'[i].sp < saved'[j].sp
  <2>1. i \in 1 .. Len(saved)
    BY <1>1, <1>7
  <2>2. saved[i].sp < Len(stack)
    BY <1>1, <2>1, LevelFacts
  <2>3. CASE j = Len(saved) + 1
    BY <2>1, <2>2, <2>3
  <2>4. CASE j \in 1 .. Len(saved)
    BY <1>7, <2>1, <2>4 DEF StackInv
  <2> QED
    BY <1>5, <2>3, <2>4
<1> QED
  BY <1>2, <1>3, <1>4, <1>6, <1>7 DEF StackInv

(***************************************************************************)
(* The return from a trap: the level below is running again.               *)
(***************************************************************************)
LEMMA IretStack ==
    ASSUME TypeInv, StackInv, Len(saved) > 0, saved' = Front(saved),
           NEW x \in Contexts, x = saved[Len(saved)],
           eip' = x.eip, gpr' = x.gpr, Len(stack') = x.sp,
           \A k \in 1 .. x.sp : stack'[k] = stack[k]
    PROVE  /\ StackInv'
           /\ Len(saved') = Len(saved) - 1
           /\ \A i \in 1 .. Len(saved) - 1 : saved'[i] = saved[i]
           /\ \A i \in 0 .. Len(saved) - 1 :
                 EipAt(i)' = EipAt(i) /\ GprAt(i)' = GprAt(i)
<1>1. /\ Len(saved) \in Nat /\ Len(saved') = Len(saved) - 1
      /\ Len(saved) - 1 \in Nat
      /\ \A i \in 1 .. Len(saved) - 1 : saved'[i] = saved[i]
  BY FrontFacts DEF TypeInv
<1>2. \A i \in 0 .. Len(saved) - 1 : EipAt(i)' = EipAt(i) /\ GprAt(i)' = GprAt(i)
                                     /\ SpAt(i)' = SpAt(i)
  <2> TAKE i \in 0 .. Len(saved) - 1
  <2>1. i < Len(saved)
    BY <1>1
  <2>2. CASE i < Len(saved')
    <3>1. i + 1 \in 1 .. Len(saved) - 1
      BY <1>1, <2>2
    <3> QED
      BY <1>1, <2>1, <2>2, <3>1 DEF EipAt, GprAt, SpAt
  <2>3. CASE ~(i < Len(saved'))
    <3>1. i + 1 = Len(saved)
      BY <1>1, <2>3
    <3> QED
      BY <2>1, <2>3, <3>1 DEF EipAt, GprAt, SpAt
  <2> QED
    BY <2>2, <2>3
<1>3. (EipAt(0)[1] = "main")'
  BY <1>1, <1>2 DEF StackInv
<1>4. ASSUME NEW i \in 1 .. Len(saved)'
      PROVE  Frame(stack', saved'[i], EipAt(i)', GprAt(i)', SpAt(i)')
  <2>1. i \in 1 .. Len(saved) - 1 /\ i \in 1 .. Len(saved) /\ i < Len(saved)
        /\ i \in 0 .. Len(saved) - 1
    BY <1>1
  <2>2. Frame(stack, saved[i], EipAt(i), GprAt(i), SpAt(i))
    BY <2>1 DEF StackInv
  <2>3. saved[i] \in Contexts /\ SpAt(i) \in Nat /\ SpAt(i) <= x.sp /\ x.sp \in Nat
    BY <1>1, <2>1, LevelFacts
  <2>4. \A k \in 1 .. SpAt(i) : stack'[k] = stack[k]
    BY <2>3
  <2>5. Frame(stack', saved[i], EipAt(i), GprAt(i), SpAt(i))
    BY <2>2, <2>3, <2>4, FrameKept
  <2> QED
    BY <1>1, <1>2, <2>1, <2>5
<1>5. ASSUME NEW i \in 1 .. Len(saved)', NEW j \in 1 .. Len(saved)', i < j
      PROVE  saved'[i].sp < saved'[j].sp
  <2>1. /\ i \in 1 .. Len(saved) - 1 /\ j \in 1 .. Len(saved) - 1
        /\ i \in 1 .. Len(saved) /\ j \in 1 .. Len(saved)
    BY <1>1
  <2> QED
    BY <1>1, <1>5, <2>1 DEF StackInv
<1> QED
  BY <1>1, <1>2, <1>3, <1>4, <1>5 DEF StackInv

-----------------------------------------------------------------------------
(***************************************************************************)
(* Sets of levels are finite.                                              *)
(***************************************************************************)
LEMMA LevelsFinite ==
    ASSUME NEW n \in Nat, NEW T \in SUBSET (1 .. n)
    PROVE  IsFiniteSet(T) /\ Cardinality(T) \in Nat
<1>1. IsFiniteSet(1 .. n)
  BY FS_Interval
<1>2. IsFiniteSet(T)
  BY <1>1, FS_Subset
<1> QED
  BY <1>2, FS_CardinalityType

(***************************************************************************)
(* The code of a handler around its work leaves the count of ticks alone.  *)
(***************************************************************************)
LEMMA TickSame ==
    ASSUME TypeInv, TickInv, UNCHANGED <<saved, ticks, timers, overlap>>,
           eip[1] # "ticks_inc", eip'[1] # "ticks_inc",
           Len(saved) > 0 /\ Timer(Len(saved)) =>
               (eip[1] \in Uncounted <=> eip'[1] \in Uncounted)
    PROVE  TickInv'
<1>1. Len(saved) \in Nat
  BY DEF TypeInv
<1>2. \A i \in 1 .. Len(saved) : Timer(i)' <=> Timer(i)
  BY DEF Timer
<1>3. \A i \in 1 .. Len(saved) :
         i < Len(saved) => EipAt(i)' = EipAt(i) /\ GprAt(i)' = GprAt(i)
  BY DEF EipAt, GprAt
<1>4. \A i \in 1 .. Len(saved) :
         i = Len(saved) => EipAt(i)' = eip' /\ EipAt(i) = eip
  BY <1>1 DEF EipAt
<1>5. \A i \in 1 .. Len(saved) : i = Len(saved) \/ i < Len(saved)
  BY <1>1
<1>6. \A i \in 1 .. Len(saved) :
         (Timer(i) /\ EipAt(i)[1] \in Uncounted)'
         <=> (Timer(i) /\ EipAt(i)[1] \in Uncounted)
  <2> TAKE i \in 1 .. Len(saved)
  <2>1. CASE i < Len(saved)
    BY <1>2, <1>3, <2>1 DEF Uncounted
  <2>2. CASE i = Len(saved)
    <3>1. Len(saved) > 0
      BY <1>1, <2>2
    <3> QED
      BY <1>2, <1>4, <2>2, <3>1 DEF Uncounted
  <2> QED
    BY <1>5, <2>1, <2>2
<1>7. \A n \in 0 .. Len(saved) : Pending(n)' = Pending(n)
  <2> TAKE n \in 0 .. Len(saved)
  <2>1. \A i \in 1 .. n : i \in 1 .. Len(saved)
    BY <1>1
  <2> QED
    BY <1>6, <2>1 DEF Pending
<1>8. Loaded' = Loaded /\ \A i \in Loaded : GprAt(i)' = GprAt(i)
                                            /\ i \in 1 .. Len(saved)
  <2>1. \A i \in 1 .. Len(saved) :
           EipAt(i)'[1] = "ticks_inc" <=> EipAt(i)[1] = "ticks_inc"
    BY <1>3, <1>4, <1>5
  <2>2. Loaded' = Loaded
    BY <2>1 DEF Loaded
  <2>3. \A i \in Loaded : i \in 1 .. Len(saved) /\ i < Len(saved)
    BY <1>4, <1>5 DEF Loaded
  <2> QED
    BY <1>3, <2>2, <2>3
<1>9. Pending(Len(saved))' = Pending(Len(saved))
  BY <1>1, <1>7
<1>10. \A i \in Loaded : Pending(i)' = Pending(i)
  BY <1>1, <1>7, <1>8
<1>11. (ticks + Cardinality(Pending(Len(saved))) <= timers)'
  BY <1>9 DEF TickInv
<1>12. (\A i \in Loaded : GprAt(i) + Cardinality(Pending(i)) <= timers)'
  BY <1>8, <1>10 DEF TickInv
<1>13. ASSUME ~overlap
       PROVE  /\ (ticks + Cardinality(Pending(Len(saved))) = timers)'
              /\ (\A i \in Loaded : GprAt(i) = ticks)'
              /\ (\A i \in Loaded, j \in 1 .. Len(saved) : i < j => ~Timer(j))'
  BY <1>2, <1>8, <1>9, <1>13 DEF TickInv
<1> QED
  BY <1>11, <1>12, <1>13 DEF TickInv

(***************************************************************************)
(* irq_timer() loads ticks.                                                *)
(***************************************************************************)
LEMMA TickLoad ==
    ASSUME TypeInv, TickInv, UNCHANGED <<saved, ticks, timers, overlap>>,
           Len(saved) > 0, eip[1] = "trap", eip'[1] = "ticks_inc", gpr' = ticks
    PROVE  TickInv'
<1>1. Len(saved) \in Nat /\ Len(saved) \in 1 .. Len(saved)
  BY DEF TypeInv
<1>2. \A i \in 1 .. Len(saved) : Timer(i)' <=> Timer(i)
  BY DEF Timer
<1>3. \A i \in 1 .. Len(saved) :
         i < Len(saved) => EipAt(i)' = EipAt(i) /\ GprAt(i)' = GprAt(i)
  BY DEF EipAt, GprAt
<1>4. /\ EipAt(Len(saved))' = eip' /\ EipAt(Len(saved)) = eip
      /\ GprAt(Len(saved))' = ticks
  BY <1>1 DEF EipAt, GprAt
<1>5. \A i \in 1 .. Len(saved) : i = Len(saved) \/ i < Len(saved)
  BY <1>1
<1>6. \A i \in 1 .. Len(saved) :
         (Timer(i) /\ EipAt(i)[1] \in Uncounted)'
         <=> (Timer(i) /\ EipAt(i)[1] \in Uncounted)
  BY <1>2, <1>3, <1>4, <1>5 DEF Uncounted
<1>7. \A n \in 0 .. Len(saved) : Pending(n)' = Pending(n)
  <2> TAKE n \in 0 .. Len(saved)
  <2>1. \A i \in 1 .. n : i \in 1 .. Len(saved)
    BY <1>1
  <2> QED
    BY <1>6, <2>1 DEF Pending
<1>8. \A i \in Loaded' : i \in 1 .. Len(saved) /\ Pending(i)' = Pending(i)
  BY <1>1, <1>7 DEF Loaded
<1>9. \A i \in Loaded' : i # Len(saved) => i \in Loaded /\ GprAt(i)' = GprAt(i)
  BY <1>3, <1>5 DEF Loaded
<1>10. Pending(Len(saved))' = Pending(Len(saved))
  BY <1>1, <1>7
<1>11. (ticks + Cardinality(Pending(Len(saved))) <= timers)'
  BY <1>10 DEF TickInv
<1>12. \A i \in Loaded' : GprAt(i)' + Cardinality(Pending(i)') <= timers'
  <2> TAKE i \in Loaded'
  <2>1. CASE i = Len(saved)
    BY <1>4, <1>10, <2>1 DEF TickInv
  <2>2. CASE i # Len(saved)
    BY <1>8, <1>9, <2>2 DEF TickInv
  <2> QED
    BY <2>1, <2>2
<1>13. ASSUME ~overlap
       PROVE  /\ (ticks + Cardinality(Pending(Len(saved))) = timers)'
              /\ \A i \in Loaded' : GprAt(i)' = ticks'
              /\ \A i \in Loaded', j \in 1 .. Len(saved)' : i < j => ~Timer(j)'
  <2>1. (ticks + Cardinality(Pending(Len(saved))) = timers)'
    BY <1>10, <1>13 DEF TickInv
  <2>2. ASSUME NEW i \in Loaded' PROVE GprAt(i)' = ticks'
    BY <1>4, <1>9, <1>13 DEF TickInv
  <2>3. ASSUME NEW i \in Loaded', NEW j \in 1 .. Len(saved)', i < j
        PROVE  ~Timer(j)'
    <3>1. i # Len(saved)
      BY <1>1, <2>3
    <3>2. i \in Loaded /\ j \in 1 .. Len(saved)
      BY <1>9, <3>1
    <3> QED
      BY <1>2, <1>13, <2>3, <3>2 DEF TickInv
  <2> QED
    BY <2>1, <2>2, <2>3
<1> QED
  BY <1>11, <1>12, <1>13 DEF TickInv

(***************************************************************************)
(* irq_timer() stores the value it loaded, plus one.                       *)
(***************************************************************************)
LEMMA TickStore ==
    ASSUME TypeInv, TickInv, UNCHANGED <<saved, timers, overlap, gpr>>,
           Len(saved) > 0, Timer(Len(saved)),
           eip[1] = "ticks_inc", eip'[1] = "ret", ticks' = gpr + 1
    PROVE  TickInv'
<1>1. /\ Len(saved) \in Nat /\ Len(saved) \in 1 .. Len(saved)
      /\ gpr \in Int /\ ticks \in Int /\ timers \in Int
  BY DEF TypeInv
<1>2. \A i \in 1 .. Len(saved) : Timer(i)' <=> Timer(i)
  BY DEF Timer
<1>3. \A i \in 1 .. Len(saved) :
         i < Len(saved) => EipAt(i)' = EipAt(i) /\ GprAt(i)' = GprAt(i)
  BY DEF EipAt, GprAt
<1>4. /\ EipAt(Len(saved))' = eip' /\ EipAt(Len(saved)) = eip
      /\ GprAt(Len(saved)) = gpr
  BY <1>1 DEF EipAt, GprAt
<1>5. \A i \in 1 .. Len(saved) : i = Len(saved) \/ i < Len(saved)
  BY <1>1
<1>6. \A i \in Loaded' : i \in 1 .. Len(saved) /\ i # Len(saved) /\ i \in Loaded
                         /\ i < Len(saved) /\ GprAt(i)' = GprAt(i)
  BY <1>3, <1>4, <1>5 DEF Loaded
<1>7. Len(saved) \in Loaded
  BY <1>1, <1>4 DEF Loaded
<1>8. \A i \in Loaded' : Pending(i)' = Pending(i)
  <2> TAKE i \in Loaded'
  <2>1. \A k \in 1 .. i : k \in 1 .. Len(saved) /\ k < Len(saved)
    BY <1>1, <1>6
  <2> QED
    BY <1>2, <1>3, <2>1 DEF Pending, Uncounted
<1>9. PICK P : P = Pending(Len(saved))
  OBVIOUS
<1>10. Pending(Len(saved))' = P \ {Len(saved)}
  BY <1>2, <1>3, <1>4, <1>5, <1>9 DEF Pending, Uncounted
<1>11. IsFiniteSet(P) /\ Cardinality(P) \in Nat /\ Len(saved) \in P
  <2>1. P \in SUBSET (1 .. Len(saved))
    BY <1>9 DEF Pending
  <2>2. Len(saved) \in P
    BY <1>1, <1>4, <1>9 DEF Pending, Uncounted
  <2> QED
    BY <1>1, <2>1, <2>2, LevelsFinite
<1>12. Cardinality(P \ {Len(saved)}) = Cardinality(P) - 1
  BY <1>11, FS_RemoveElement
<1>13. gpr + Cardinality(P) <= timers
  BY <1>4, <1>7, <1>9 DEF TickInv
<1>14. ticks' + Cardinality(Pending(Len(saved)))' <= timers'
  BY <1>1, <1>10, <1>11, <1>12, <1>13
<1>15. \A i \in Loaded' : GprAt(i)' + Cardinality(Pending(i)') <= timers'
  BY <1>6, <1>8 DEF TickInv
<1>16. ASSUME ~overlap
       PROVE  /\ ticks' + Cardinality(Pending(Len(saved)))' = timers'
              /\ Loaded' = {}
  <2>1. gpr = ticks /\ ticks + Cardinality(P) = timers
    BY <1>4, <1>7, <1>9, <1>16 DEF TickInv
  <2>2. ticks' + Cardinality(Pending(Len(saved)))' = timers'
    BY <1>1, <1>10, <1>11, <1>12, <2>1
  <2>3. ASSUME NEW i \in Loaded' PROVE FALSE
    BY <1>1, <1>6, <1>16, <2>3 DEF TickInv
  <2> QED
    BY <2>2, <2>3
<1> QED
  BY <1>14, <1>15, <1>16 DEF TickInv

(***************************************************************************)
(* A trap is taken: a timer interrupt is pending from its first word on.   *)
(***************************************************************************)
LEMMA TickEnter ==
    ASSUME TypeInv, TickInv, Len(saved') = Len(saved) + 1, UNCHANGED ticks,
           \A i \in 1 .. Len(saved) : saved'[i].v = saved[i].v,
           \A i \in 0 .. Len(saved) : EipAt(i)' = EipAt(i) /\ GprAt(i)' = GprAt(i),
           EipAt(Len(saved))'[1] = "vector",
           Timer(Len(saved))' =>
              timers' = timers + 1 /\ (~overlap' => Loaded = {}),
           ~Timer(Len(saved))' => timers' = timers,
           ~overlap' => ~overlap
    PROVE  TickInv'
<1>1. Len(saved) \in Nat /\ ticks \in Int /\ timers \in Int
  BY DEF TypeInv
<1>2. \A i \in 1 .. Len(saved) : Timer(i)' <=> Timer(i)
  BY DEF Timer
<1>a. PICK m : m = Len(saved) + 1
  OBVIOUS
<1>b. m = Len(saved') /\ m \in 1 .. Len(saved)' /\ EipAt(m)'[1] = "vector"
      /\ (Timer(m)' <=> Timer(Len(saved))')
  BY <1>1, <1>a
<1>3. \A i \in 1 .. Len(saved)' : i = m \/ i \in 1 .. Len(saved)
  BY <1>1, <1>a
<1>4. \A i \in 1 .. Len(saved) :
         i \in 0 .. Len(saved) /\ i \in 1 .. Len(saved)' /\ i # m
  BY <1>1, <1>a
<1>5. \A n \in 0 .. Len(saved) : Pending(n)' = Pending(n)
  <2> TAKE n \in 0 .. Len(saved)
  <2>1. \A i \in 1 .. n : i \in 1 .. Len(saved)
    BY <1>1
  <2> QED
    BY <1>2, <1>4, <2>1 DEF Pending, Uncounted
<1>6. Loaded' = Loaded /\ \A i \in Loaded : i \in 1 .. Len(saved)
  <2>1. \A i \in Loaded' : i \in 1 .. Len(saved)
    BY <1>3, <1>b DEF Loaded
  <2> QED
    BY <1>4, <2>1 DEF Loaded
<1>7. \A i \in Loaded : GprAt(i)' = GprAt(i) /\ Pending(i)' = Pending(i)
  BY <1>4, <1>5, <1>6
<1>8. PICK P, Q : P = Pending(Len(saved)) /\ Q = Pending(Len(saved))'
  OBVIOUS
<1>9. /\ Timer(m)' => Q = P \cup {m}
      /\ ~Timer(m)' => Q = P
  <2>1. \A i \in 1 .. Len(saved) : i \in Q <=> i \in P
    BY <1>2, <1>4, <1>8 DEF Pending, Uncounted
  <2>2. \A i \in Q : i = m \/ i \in 1 .. Len(saved)
    BY <1>3, <1>8 DEF Pending
  <2>3. \A i \in P : i \in 1 .. Len(saved)
    BY <1>8 DEF Pending
  <2>4. m \in Q <=> Timer(m)'
    <3>1. Pending(Len(saved))' = {i \in 1 .. Len(saved)' :
                                   Timer(i)' /\ EipAt(i)'[1] \in Uncounted}
      BY DEF Pending, Uncounted
    <3>2. EipAt(m)'[1] \in Uncounted
      BY <1>b DEF Uncounted
    <3> QED
      BY <1>8, <1>b, <3>1, <3>2
  <2> QED
    BY <2>1, <2>2, <2>3, <2>4
<1>10. IsFiniteSet(P) /\ Cardinality(P) \in Nat /\ m \notin P
  <2>1. P \in SUBSET (1 .. Len(saved)) /\ m \notin 1 .. Len(saved)
    BY <1>1, <1>8, <1>a DEF Pending
  <2> QED
    BY <1>1, <2>1, LevelsFinite
<1>11. Cardinality(P \cup {m}) = Cardinality(P) + 1
  BY <1>10, FS_AddElement
<1>12. timers' - timers = Cardinality(Q) - Cardinality(P) /\ timers <= timers'
       /\ Cardinality(Q) \in Nat /\ timers' \in Int
  <2>1. CASE Timer(m)'
    <3>1. timers' = timers + 1
      BY <1>b, <2>1
    <3> QED
      <4>1. Cardinality(Q) = Cardinality(P) + 1
        BY <1>9, <1>11, <2>1
      <4>2. Cardinality(P) \in Nat
        BY <1>10
      <4> QED
        BY <1>1, <3>1, <4>1, <4>2
  <2>2. CASE ~Timer(m)'
    <3>1. timers' = timers
      BY <1>b, <2>2
    <3> QED
      BY <1>1, <1>9, <1>10, <2>2, <3>1
  <2> QED
    BY <2>1, <2>2
<1>13. ticks' + Cardinality(Q) <= timers'
  BY <1>1, <1>8, <1>10, <1>12 DEF TickInv
<1>14. \A i \in Loaded : GprAt(i) + Cardinality(Pending(i)) <= timers'
  <2> TAKE i \in Loaded
  <2>1. GprAt(i) \in Int
    <3>1. \A k \in 1 .. Len(saved) : saved[k].gpr \in Int
      <4>1. \A k \in 1 .. Len(saved) : saved[k] \in Contexts
        BY DEF TypeInv
      <4> QED
        BY <4>1 DEF Contexts
    <3>2. i \in 1 .. Len(saved)
      BY <1>6
    <3>3. i < Len(saved) => i + 1 \in 1 .. Len(saved)
      BY <1>1, <3>2
    <3> QED
      BY <3>1, <3>3 DEF GprAt, TypeInv
  <2>2. Cardinality(Pending(i)) \in Nat
    <3>1. i \in Nat /\ Pending(i) \in SUBSET (1 .. i)
      BY <1>6 DEF Pending
    <3> QED
      BY <3>1, LevelsFinite
  <2>3. GprAt(i) + Cardinality(Pending(i)) <= timers
    BY DEF TickInv
  <2> QED
    BY <1>1, <1>12, <2>1, <2>2, <2>3
<1>15. \A i \in Loaded' : GprAt(i)' + Cardinality(Pending(i)') <= timers'
  BY <1>6, <1>7, <1>14
<1>16. ASSUME ~overlap'
       PROVE  /\ ticks' + Cardinality(Q) = timers'
              /\ \A i \in Loaded' : GprAt(i)' = ticks'
              /\ \A i \in Loaded', j \in 1 .. Len(saved)' : i < j => ~Timer(j)'
  <2>1. ticks' + Cardinality(Q) = timers'
    <3>1. ticks' = ticks /\ ticks + Cardinality(P) = timers
      BY <1>8, <1>16 DEF TickInv
    <3>2. Cardinality(P) \in Nat /\ ticks \in Int /\ timers \in Int
      BY <1>1, <1>10
    <3> QED
      BY <1>12, <3>1, <3>2
  <2>2. \A i \in Loaded' : GprAt(i)' = ticks'
    BY <1>6, <1>7, <1>16 DEF TickInv
  <2>3. ASSUME NEW i \in Loaded', NEW j \in 1 .. Len(saved)', i < j
        PROVE  ~Timer(j)'
    <3>1. CASE j = m
      BY <1>6, <1>16, <1>b, <3>1
    <3>2. CASE j \in 1 .. Len(saved)
      BY <1>2, <1>6, <1>16, <2>3, <3>2 DEF TickInv
    <3> QED
      BY <1>3, <3>1, <3>2
  <2> QED
    BY <2>1, <2>2, <2>3
<1> QED
  BY <1>8, <1>13, <1>15, <1>16 DEF TickInv

(***************************************************************************)
(* A trap ends: at iret its tick has been counted.                         *)
(***************************************************************************)
LEMMA TickIret ==
    ASSUME TypeInv, TickInv, UNCHANGED <<ticks, timers, overlap>>,
           Len(saved) > 0, eip[1] = "iret", Len(saved') = Len(saved) - 1,
           \A i \in 1 .. Len(saved) - 1 : saved'[i] = saved[i],
           \A i \in 0 .. Len(saved) - 1 :
              EipAt(i)' = EipAt(i) /\ GprAt(i)' = GprAt(i)
    PROVE  TickInv'
<1>1. Len(saved) \in Nat /\ Len(saved) - 1 \in Nat
  BY DEF TypeInv
<1>2. \A i \in 1 .. Len(saved) - 1 :
         (Timer(i)' <=> Timer(i)) /\ i \in 0 .. Len(saved) - 1 /\ i \in 1 .. Len(saved)
  BY <1>1 DEF Timer
<1>3. \A i \in 1 .. Len(saved) : i = Len(saved) \/ i \in 1 .. Len(saved) - 1
  BY <1>1
<1>4. EipAt(Len(saved)) = eip
  BY <1>1 DEF EipAt
<1>5. \A n \in 0 .. Len(saved) - 1 : Pending(n)' = Pending(n)
  <2> TAKE n \in 0 .. Len(saved) - 1
  <2>1. \A i \in 1 .. n : i \in 1 .. Len(saved) - 1
    BY <1>1
  <2> QED
    BY <1>2, <2>1 DEF Pending, Uncounted
<1>6. Loaded' = Loaded
  BY <1>2, <1>3, <1>4 DEF Loaded
<1>7. \A i \in Loaded : i \in 0 .. Len(saved) - 1 /\ i \in 1 .. Len(saved)
  BY <1>2, <1>6 DEF Loaded
<1>8. Pending(Len(saved))' = Pending(Len(saved))
  <2>0. PICK n : n = Len(saved) - 1
    OBVIOUS
  <2>1. Pending(Len(saved))' = Pending(Len(saved) - 1)
    <3>1. n \in 0 .. Len(saved) - 1
      BY <1>1, <2>0
    <3>2. Pending(Len(saved))' = Pending(n)'
      BY <2>0
    <3> QED
      BY <1>5, <2>0, <3>1, <3>2
  <2>2. Pending(Len(saved) - 1) = Pending(Len(saved))
    BY <1>2, <1>3, <1>4 DEF Pending, Uncounted
  <2> QED
    BY <2>1, <2>2
<1>9. \A i \in Loaded : GprAt(i)' = GprAt(i) /\ Pending(i)' = Pending(i)
  BY <1>5, <1>7
<1>10. (ticks + Cardinality(Pending(Len(saved))) <= timers)'
  BY <1>8 DEF TickInv
<1>11. (\A i \in Loaded : GprAt(i) + Cardinality(Pending(i)) <= timers)'
  BY <1>6, <1>9 DEF TickInv
<1>12. ASSUME ~overlap
       PROVE  /\ (ticks + Cardinality(Pending(Len(saved))) = timers)'
              /\ \A i \in Loaded' : GprAt(i)' = ticks'
              /\ \A i \in Loaded', j \in 1 .. Len(saved)' : i < j => ~Timer(j)'
  <2>1. (ticks + Cardinality(Pending(Len(saved))) = timers)'
    BY <1>8, <1>12 DEF TickInv
  <2>2. \A i \in Loaded' : GprAt(i)' = ticks'
    BY <1>6, <1>9, <1>12 DEF TickInv
  <2>3. \A i \in Loaded', j \in 1 .. Len(saved)' : i < j => ~Timer(j)'
    BY <1>2, <1>6, <1>12 DEF TickInv
  <2> QED
    BY <2>1, <2>2, <2>3
<1> QED
  BY <1>10, <1>11, <1>12 DEF TickInv

-----------------------------------------------------------------------------
(***************************************************************************)
(* The invariant holds at the start.                                       *)
(***************************************************************************)
LEMMA InitIInv == Init => IInv
<1> SUFFICES ASSUME Init PROVE IInv
  OBVIOUS
<1>1. saved = << >> /\ Len(saved) = 0 /\ 1 .. Len(saved) = {}
  BY DEF Init
<1>2. TypeInv
  <2>1. <<"main", 0>> \in Word
    BY WordFacts
  <2>2. stack \in Seq(Word) /\ saved \in Seq(Contexts)
    BY DEF Init
  <2>3. FL_IF \in BOOLEAN /\ overlap \in BOOLEAN
    BY DEF Init
  <2>4. eip \in Word
    BY <2>1 DEF Init
  <2>5. gpr \in Int /\ cr2 \in Int /\ ticks \in Int /\ timers \in Int
    BY DEF Init
  <2> QED
    BY <2>2, <2>3, <2>4, <2>5 DEF TypeInv
<1>3. StackInv
  BY <1>1 DEF Init, StackInv, EipAt
<1>4. CauseInv
  BY <1>1 DEF CauseInv
<1>5. TickInv
  <2>1. Pending(Len(saved)) = {} /\ Loaded = {}
    BY <1>1 DEF Pending, Loaded
  <2>2. Cardinality({}) = 0
    BY FS_EmptySet
  <2>3. ticks = 0 /\ timers = 0
    BY DEF Init
  <2> QED
    BY <2>1, <2>2, <2>3 DEF TickInv
<1> QED
  BY <1>2, <1>3, <1>4, <1>5 DEF IInv

(***************************************************************************)
(* The main code, and the boot before it, have nothing on the stack of     *)
(* traps.                                                                  *)
(***************************************************************************)
LEMMA QuietStep ==
    ASSUME IInv, TypeInv', UNCHANGED <<stack, saved, cr2, ticks, timers, overlap>>,
           \/ UNCHANGED <<eip, gpr>>
           \/ eip[1] = "main" /\ eip'[1] = "main"
    PROVE  IInv'
<1>1. TypeInv /\ StackInv /\ CauseInv /\ TickInv
  BY DEF IInv
<1>2. CauseInv'
  BY <1>1 DEF CauseInv
<1>3. CASE UNCHANGED <<eip, gpr>>
  <2>1. StackInv'
    BY <1>1, <1>3 DEF StackInv, EipAt, GprAt, SpAt
  <2>2. TickInv'
    BY <1>1, <1>3 DEF TickInv, Pending, Loaded, Timer, EipAt, GprAt
  <2> QED
    BY <1>2, <2>1, <2>2 DEF IInv
<1>4. CASE eip[1] = "main" /\ eip'[1] = "main"
  <2>1. saved = << >> /\ Len(saved) = 0 /\ 1 .. Len(saved) = {}
    BY <1>1, <1>4, MainFacts
  <2>2. StackInv'
    BY <1>4, <2>1 DEF StackInv, EipAt
  <2>3. TickInv'
    BY <1>1, <1>4, <2>1, TickSame
  <2> QED
    BY <1>2, <2>2, <2>3 DEF IInv
<1> QED
  BY <1>3, <1>4

(***************************************************************************)
(* pic_enable(), intr_enable() and the main code.                          *)
(***************************************************************************)
LEMMA MainSteps ==
    ASSUME IInv, pic_enable \/ intr_enable \/ Main \/ UNCHANGED vars
    PROVE  IInv'
<1>1. UNCHANGED <<stack, saved, cr2, ticks, timers, overlap>>
  BY DEF pic_enable, intr_enable, Main, vars, cpu, ghosts
<1>2. \/ UNCHANGED <<eip, gpr>>
      \/ eip[1] = "main" /\ eip'[1] = "main"
  BY DEF pic_enable, intr_enable, Main, vars, cpu, ghosts, At
<1>3. eip' \in Word /\ gpr' \in Int /\ FL_IF' \in BOOLEAN
  <2>1. eip \in Word /\ gpr \in Int /\ FL_IF \in BOOLEAN /\ eip[2] \in Int
    BY WordFacts DEF IInv, TypeInv
  <2>2. CASE pic_enable \/ intr_enable \/ UNCHANGED vars
    BY <2>1, <2>2 DEF pic_enable, intr_enable, vars, cpu
  <2>3. CASE Main
    BY <2>1, <2>3, WordFacts DEF Main
  <2> QED
    BY <2>2, <2>3
<1>4. TypeInv'
  BY <1>1, <1>3 DEF IInv, TypeInv
<1> QED
  BY <1>1, <1>2, <1>4, QuietStep

-----------------------------------------------------------------------------
(***************************************************************************)
(* Words pushed on the stack.                                              *)
(***************************************************************************)
LEMMA PushFacts ==
    ASSUME NEW S, NEW s \in Seq(S), NEW e \in S
    PROVE  /\ s \o <<e>> = Append(s, e) /\ s \o << >> = s
           /\ Append(s, e) \in Seq(S) /\ Len(s) \in Nat
           /\ Len(Append(s, e)) = Len(s) + 1
           /\ \A i \in 1 .. Len(s) : Append(s, e)[i] = s[i]
           /\ Append(s, e)[Len(s) + 1] = e
<1>1. s \o <<e>> = Append(s, e)
  BY AppendIsConcat
<1>2. s \o << >> = s
  BY ConcatEmptySeq
<1> QED
  BY <1>1, <1>2, AppendProperties

(***************************************************************************)
(* The frame grows by a word, which is the one that belongs there.         *)
(***************************************************************************)
Belongs(w, x, top) ==
    /\ top = x.sp + 4 => w[2] = x.err
    /\ top = x.sp + 5 => w[2] = x.v
    /\ top = x.sp + 6 => w[2] = x.gpr
    /\ top = x.sp + 7 => w[2] = x.sp + 6
    /\ top = x.sp + 8 => w = <<"popl_esp", 0>>

(***************************************************************************)
(* Pushing the next word of a frame.                                       *)
(***************************************************************************)
LEMMA ContentsPush ==
    ASSUME NEW st, NEW st2, NEW x, x.sp \in Nat, NEW top \in Nat, NEW top2 \in Nat,
           x.sp + 3 <= top, top2 = top + 1, Contents(st, x, top),
           \A k \in 1 .. top : st2[k] = st[k],
           Belongs(st2[top2], x, top2)
    PROVE  Contents(st2, x, top2)
<1>1. \A k \in 1 .. 8 : x.sp + k <= top => st2[x.sp + k] = st[x.sp + k]
  OBVIOUS
<1>2. st2[x.sp + 1] = st[x.sp + 1] /\ st2[x.sp + 3] = st[x.sp + 3]
  BY <1>1
<1>3. \A k \in 4 .. 8 : x.sp + k <= top2 => x.sp + k <= top \/ top2 = x.sp + k
  OBVIOUS
<1>4. x.sp + 4 <= top2 => st2[x.sp + 4][2] = x.err
  BY <1>1, <1>3 DEF Contents, Belongs
<1>5. x.sp + 5 <= top2 => st2[x.sp + 5][2] = x.v
  BY <1>1, <1>3 DEF Contents, Belongs
<1>6. x.sp + 6 <= top2 => st2[x.sp + 6][2] = x.gpr
  BY <1>1, <1>3 DEF Contents, Belongs
<1>7. x.sp + 7 <= top2 => st2[x.sp + 7][2] = x.sp + 6
  BY <1>1, <1>3 DEF Contents, Belongs
<1>8. x.sp + 8 <= top2 => st2[x.sp + 8] = <<"popl_esp", 0>>
  BY <1>1, <1>3 DEF Contents, Belongs
<1> QED
  BY <1>2, <1>4, <1>5, <1>6, <1>7, <1>8 DEF Contents

(***************************************************************************)
(* The frame shrinks.                                                      *)
(***************************************************************************)
LEMMA ContentsPop ==
    ASSUME NEW st, NEW st2, NEW x, x.sp \in Nat, NEW top \in Nat, NEW top2 \in Nat,
           x.sp + 3 <= top2, top2 <= top, Contents(st, x, top),
           \A k \in 1 .. top2 : st2[k] = st[k]
    PROVE  Contents(st2, x, top2)
<1>1. \A k \in 1 .. 8 : x.sp + k <= top2 => st2[x.sp + k] = st[x.sp + k]
                                            /\ x.sp + k <= top
  OBVIOUS
<1>2. st2[x.sp + 1] = st[x.sp + 1] /\ st2[x.sp + 3] = st[x.sp + 3]
  BY <1>1
<1> QED
  BY <1>1, <1>2 DEF Contents

(***************************************************************************)
(* A step inside a handler keeps the invariant if it keeps the types, its  *)
(* own frame and the count of ticks, and leaves what lies below alone.     *)
(***************************************************************************)
LEMMA HandlerStep ==
    ASSUME IInv, TypeInv', TickInv', UNCHANGED <<saved, cr2>>, eip[1] # "main",
           NEW x \in Contexts, x = saved[Len(saved)],
           \A k \in 1 .. x.sp : stack'[k] = stack[k],
           Frame(stack', x, eip', gpr', Len(stack'))
    PROVE  IInv'
<1>1. TypeInv /\ StackInv /\ CauseInv
  BY DEF IInv
<1>2. CauseInv'
  BY <1>1 DEF CauseInv
<1>3. Len(saved) > 0
  BY <1>1, TopFacts
<1>4. StackInv'
  BY <1>1, <1>3, HandlerStack
<1> QED
  BY <1>2, <1>4 DEF IInv

(***************************************************************************)
(* The step changes registers only.                                        *)
(***************************************************************************)
LEMMA StillStack ==
    ASSUME IInv, UNCHANGED <<stack, saved, FL_IF, cr2, timers, overlap>>, TickInv',
           eip'[1] \in Tags, eip'[2] \in Int, eip' \in Word, gpr' \in Int,
           ticks' \in Int, eip[1] # "main",
           NEW x \in Contexts, x = saved[Len(saved)],
           Extent(x, eip', gpr', Len(stack))
    PROVE  IInv'
<1>1. TypeInv /\ StackInv
  BY DEF IInv
<1>2. TypeInv'
  BY <1>1 DEF TypeInv
<1>3. Contents(stack, x, Len(stack))
  BY <1>1, TopFacts DEF Frame
<1>4. Frame(stack', x, eip', gpr', Len(stack'))
  BY <1>3 DEF Frame
<1> QED
  BY <1>2, <1>4, HandlerStep

(***************************************************************************)
(* A word is pushed before trap() runs.                                    *)
(***************************************************************************)
LEMMA PushStep ==
    ASSUME IInv, UNCHANGED <<gpr, FL_IF, cr2, ticks, saved, timers, overlap>>,
           NEW w \in Word, stack' = Append(stack, w), eip' \in Word,
           eip[1] \in Uncounted \ {"ticks_inc"}, eip'[1] \in Uncounted \ {"ticks_inc"},
           NEW x \in Contexts, x = saved[Len(saved)],
           Extent(x, eip', gpr, Len(stack) + 1),
           Belongs(w, x, Len(stack) + 1)
    PROVE  IInv'
<1>1. TypeInv /\ StackInv /\ TickInv /\ eip[1] # "main"
  BY DEF IInv, Uncounted
<1>2. /\ stack \in Seq(Word) /\ Len(stack) \in Nat /\ x.sp \in Nat
      /\ x.sp + 3 <= Len(stack) /\ Contents(stack, x, Len(stack))
  BY <1>1, TopFacts DEF TypeInv, Frame
<1>3. /\ stack' \in Seq(Word) /\ Len(stack') = Len(stack) + 1
      /\ \A k \in 1 .. Len(stack) : stack'[k] = stack[k]
      /\ stack'[Len(stack) + 1] = w
  BY <1>2, PushFacts
<1>4. TypeInv'
  BY <1>1, <1>3 DEF TypeInv
<1>5. Contents(stack', x, Len(stack'))
  <2>1. PICK st, st2, n, m : st = stack /\ st2 = stack' /\ n = Len(stack)
                             /\ m = Len(stack')
    OBVIOUS
  <2>2. /\ n \in Nat /\ m \in Nat /\ x.sp \in Nat /\ x.sp + 3 <= n /\ m = n + 1
        /\ Contents(st, x, n) /\ \A k \in 1 .. n : st2[k] = st[k]
    BY <1>2, <1>3, <2>1
  <2>3. Belongs(st2[m], x, m)
    BY <1>3, <2>1
  <2>4. Contents(st2, x, m)
    BY <2>2, <2>3, ContentsPush
  <2> QED
    BY <2>1, <2>4
<1>6. Frame(stack', x, eip', gpr', Len(stack'))
  BY <1>3, <1>5 DEF Frame
<1>7. \A k \in 1 .. x.sp : stack'[k] = stack[k]
  BY <1>2, <1>3
<1>8. TickInv'
  BY <1>1, TickSame
<1> QED
  BY <1>1, <1>4, <1>6, <1>7, <1>8, HandlerStep

(***************************************************************************)
(* Words are dropped after trap() has returned.                            *)
(***************************************************************************)
LEMMA PopStep ==
    ASSUME IInv, UNCHANGED <<FL_IF, cr2, ticks, saved, timers, overlap>>,
           NEW m \in Nat, m <= Len(stack), stack' = SubSeq(stack, 1, m),
           eip' \in Word, gpr' \in Int, eip[1] # "main",
           eip[1] \notin Uncounted, eip'[1] \notin Uncounted,
           NEW x \in Contexts, x = saved[Len(saved)], x.sp + 3 <= m,
           Extent(x, eip', gpr', m)
    PROVE  IInv'
<1>1. TypeInv /\ StackInv /\ TickInv
  BY DEF IInv
<1>2. /\ stack \in Seq(Word) /\ Len(stack) \in Nat /\ x.sp \in Nat
      /\ Contents(stack, x, Len(stack))
  BY <1>1, TopFacts DEF TypeInv, Frame
<1>3. /\ stack' \in Seq(Word) /\ Len(stack') = m
      /\ \A k \in 1 .. m : stack'[k] = stack[k]
  BY <1>2, PrefixFacts
<1>4. TypeInv'
  BY <1>1, <1>3 DEF TypeInv
<1>5. Contents(stack', x, m)
  <2>1. PICK st, st2, n : st = stack /\ st2 = stack' /\ n = Len(stack)
    OBVIOUS
  <2>2. /\ n \in Nat /\ x.sp \in Nat /\ x.sp + 3 <= m /\ m <= n
        /\ Contents(st, x, n) /\ \A k \in 1 .. m : st2[k] = st[k]
    BY <1>2, <1>3, <2>1
  <2>3. Contents(st2, x, m)
    BY <2>2, ContentsPop
  <2> QED
    BY <2>1, <2>3
<1>6. Frame(stack', x, eip', gpr', Len(stack'))
  BY <1>3, <1>5 DEF Frame
<1>7. \A k \in 1 .. x.sp : stack'[k] = stack[k]
  BY <1>2, <1>3
<1>8. TickInv'
  BY <1>1, TickSame DEF Uncounted
<1> QED
  BY <1>4, <1>6, <1>7, <1>8, HandlerStep

(***************************************************************************)
(* The pushes of _trap_entry.                                              *)
(***************************************************************************)
LEMMA EntrySteps ==
    ASSUME IInv, Pushal \/ PushlEsp \/ Call PROVE IInv'
<1>1. TypeInv /\ StackInv /\ eip \in Word /\ gpr \in Int
  BY DEF IInv, TypeInv
<1>2. UNCHANGED <<gpr, FL_IF, cr2, ticks, saved, timers, overlap>>
  BY DEF Pushal, PushlEsp, Call, ghosts
<1>3. eip[1] \in {"pushal", "pushl_esp", "call"}
  BY DEF Pushal, PushlEsp, Call, At
<1>4. PICK x \in Contexts :
        /\ x = saved[Len(saved)] /\ x.sp \in Nat /\ Len(stack) \in Nat
        /\ Extent(x, eip, gpr, Len(stack))
  BY <1>1, <1>3, TopFacts DEF Frame
<1>a. PICK b : b = x.sp
  OBVIOUS
<1>b. b \in Nat /\ Len(stack) \in Nat
  BY <1>4, <1>a
<1>5. CASE Pushal
  <2>1. eip[1] = "pushal" /\ eip' = <<"pushl_esp", 0>>
        /\ stack' = Append(stack, <<"regs", gpr>>)
    BY <1>5 DEF Pushal, At, Go
  <2>2. Len(stack) = x.sp + 5 /\ gpr = x.gpr
    BY <1>4, <2>1 DEF Extent
  <2>3. <<"regs", gpr>> \in Word /\ eip' \in Word /\ eip'[1] = "pushl_esp"
    BY <1>1, <2>1, WordFacts
  <2>a. Len(stack) = b + 5
    BY <1>a, <2>2
  <2>4. Len(stack) + 1 = x.sp + 6
    <3>1. Len(stack) + 1 = b + 6
      BY <1>b, <2>a
    <3> QED
      BY <1>a, <3>1
  <2>5. Extent(x, eip', gpr, Len(stack) + 1)
    BY <2>3, <2>4 DEF Extent
  <2>6. eip[1] \in Uncounted \ {"ticks_inc"} /\ eip'[1] \in Uncounted \ {"ticks_inc"}
    BY <2>1, <2>3 DEF Uncounted
  <2>7. Belongs(<<"regs", gpr>>, x, Len(stack) + 1)
    <3>1. \A k \in {4, 5, 7, 8} : Len(stack) + 1 # x.sp + k
      <4>1. \A k \in {4, 5, 7, 8} : Len(stack) + 1 # b + k
        BY <1>b, <2>a
      <4> QED
        BY <1>a, <4>1
    <3>2. <<"regs", gpr>>[2] = x.gpr
      BY <2>2
    <3> QED
      BY <3>1, <3>2 DEF Belongs
  <2> QED
    BY <1>2, <1>4, <2>1, <2>3, <2>5, <2>6, <2>7, PushStep
<1>6. CASE PushlEsp
  <2>1. eip[1] = "pushl_esp" /\ eip' = <<"call", 0>>
        /\ stack' = Append(stack, <<"tf", Len(stack)>>)
    BY <1>6 DEF PushlEsp, At, Go
  <2>2. Len(stack) = x.sp + 6
    BY <1>4, <2>1 DEF Extent
  <2>3. <<"tf", Len(stack)>> \in Word /\ eip' \in Word /\ eip'[1] = "call"
    BY <1>4, <2>1, WordFacts
  <2>a. Len(stack) = b + 6
    BY <1>a, <2>2
  <2>4. Len(stack) + 1 = x.sp + 7
    <3>1. Len(stack) + 1 = b + 7
      BY <1>b, <2>a
    <3> QED
      BY <1>a, <3>1
  <2>5. Extent(x, eip', gpr, Len(stack) + 1)
    BY <2>3, <2>4 DEF Extent
  <2>6. eip[1] \in Uncounted \ {"ticks_inc"} /\ eip'[1] \in Uncounted \ {"ticks_inc"}
    BY <2>1, <2>3 DEF Uncounted
  <2>7. Belongs(<<"tf", Len(stack)>>, x, Len(stack) + 1)
    <3>1. \A k \in {4, 5, 6, 8} : Len(stack) + 1 # x.sp + k
      <4>1. \A k \in {4, 5, 6, 8} : Len(stack) + 1 # b + k
        BY <1>b, <2>a
      <4> QED
        BY <1>a, <4>1
    <3>2. <<"tf", Len(stack)>>[2] = x.sp + 6
      BY <2>2
    <3> QED
      BY <3>1, <3>2 DEF Belongs
  <2> QED
    BY <1>2, <1>4, <2>1, <2>3, <2>5, <2>6, <2>7, PushStep
<1>7. CASE Call
  <2>1. eip[1] = "call" /\ eip' = <<"trap", 0>>
        /\ stack' = Append(stack, <<"popl_esp", 0>>)
    BY <1>7 DEF Call, At, Go
  <2>2. Len(stack) = x.sp + 7
    BY <1>4, <2>1 DEF Extent
  <2>3. <<"popl_esp", 0>> \in Word /\ eip' \in Word /\ eip'[1] = "trap"
    BY <2>1, WordFacts
  <2>a. Len(stack) = b + 7
    BY <1>a, <2>2
  <2>4. Len(stack) + 1 = x.sp + 8
    <3>1. Len(stack) + 1 = b + 8
      BY <1>b, <2>a
    <3> QED
      BY <1>a, <3>1
  <2>5. Extent(x, eip', gpr, Len(stack) + 1)
    BY <2>3, <2>4 DEF Extent
  <2>6. eip[1] \in Uncounted \ {"ticks_inc"} /\ eip'[1] \in Uncounted \ {"ticks_inc"}
    BY <2>1, <2>3 DEF Uncounted
  <2>7. Belongs(<<"popl_esp", 0>>, x, Len(stack) + 1)
    <3>1. \A k \in {4, 5, 6, 7} : Len(stack) + 1 # x.sp + k
      <4>1. \A k \in {4, 5, 6, 7} : Len(stack) + 1 # b + k
        BY <1>b, <2>a
      <4> QED
        BY <1>a, <4>1
    <3> QED
      BY <3>1 DEF Belongs
  <2> QED
    BY <1>2, <1>4, <2>1, <2>3, <2>5, <2>6, <2>7, PushStep
<1> QED
  BY <1>5, <1>6, <1>7

(***************************************************************************)
(* The stub: with the 0 it pushes for some vectors, the number lies at the *)
(* same place of every frame.                                              *)
(***************************************************************************)
LEMMA StubStep ==
    ASSUME IInv, Stub PROVE IInv'
<1>1. TypeInv /\ StackInv /\ CauseInv /\ TickInv /\ stack \in Seq(Word)
      /\ Len(saved) \in Nat
  BY DEF IInv, TypeInv
<1>2. /\ eip[1] = "vector" /\ eip' = <<"pushal", 0>>
      /\ UNCHANGED <<gpr, FL_IF, cr2, ticks, saved, timers, overlap>>
      /\ stack' = stack \o (IF Padded(eip[2]) THEN <<<<"err", 0>>>> ELSE <<>>)
                        \o <<<<"trapno", eip[2]>>>>
  BY DEF Stub, At, Go, ghosts
<1>3. PICK x \in Contexts :
        /\ x = saved[Len(saved)] /\ x.sp \in Nat /\ Len(stack) \in Nat
        /\ Len(saved) > 0
        /\ Extent(x, eip, gpr, Len(stack)) /\ Contents(stack, x, Len(stack))
  BY <1>1, <1>2, TopFacts DEF Frame
<1>4. PICK v : v = x.v
  OBVIOUS
<1>5. /\ eip[2] = v /\ gpr = x.gpr /\ v \in Int
      /\ v \in ErrorCodeVectors => Len(stack) = x.sp + 4
      /\ v \notin ErrorCodeVectors => Len(stack) = x.sp + 3
  <2>1. x.v \in Int
    BY DEF Contexts
  <2> QED
    BY <1>2, <1>3, <1>4, <2>1 DEF Extent
<1>a. PICK b : b = x.sp
  OBVIOUS
<1>b. /\ b \in Nat /\ Len(stack) \in Nat
      /\ v \in ErrorCodeVectors => Len(stack) = b + 4
      /\ v \notin ErrorCodeVectors => Len(stack) = b + 3
  BY <1>3, <1>5, <1>a
<1>6. v \notin ErrorCodeVectors => x.err = 0
  <2>1. Len(saved) \in 1 .. Len(saved)
    BY <1>1, <1>3
  <2> QED
    BY <1>1, <1>3, <1>4, <2>1 DEF CauseInv
<1>7. /\ <<"err", 0>> \in Word /\ <<"trapno", v>> \in Word /\ eip' \in Word
      /\ eip'[1] = "pushal"
  BY <1>2, <1>5, WordFacts
<1>8. Padded(v) <=> v \notin ErrorCodeVectors
  BY VectorFacts
<1>9. eip[1] \in Uncounted \ {"ticks_inc"} /\ eip'[1] \in Uncounted \ {"ticks_inc"}
  BY <1>2, <1>7 DEF Uncounted
<1>10. CASE v \in ErrorCodeVectors
  <2>1. Len(stack) + 1 = x.sp + 5
    <3>1. Len(stack) + 1 = b + 5
      BY <1>b, <1>10
    <3> QED
      BY <1>a, <3>1
  <2>2. stack' = Append(stack, <<"trapno", v>>)
    <3>1. stack' = stack \o << >> \o <<<<"trapno", v>>>>
      BY <1>2, <1>5, <1>8, <1>10
    <3> QED
      BY <1>1, <1>7, <3>1, PushFacts
  <2>3. Extent(x, eip', gpr, Len(stack) + 1)
    BY <1>5, <1>7, <2>1 DEF Extent
  <2>4. Belongs(<<"trapno", v>>, x, Len(stack) + 1)
    <3>1. \A k \in {4, 6, 7, 8} : Len(stack) + 1 # x.sp + k
      <4>1. \A k \in {4, 6, 7, 8} : Len(stack) + 1 # b + k
        BY <1>b, <1>10
      <4> QED
        BY <1>a, <4>1
    <3>2. <<"trapno", v>>[2] = x.v
      BY <1>4
    <3> QED
      BY <3>1, <3>2 DEF Belongs
  <2> QED
    BY <1>2, <1>3, <1>7, <1>9, <2>2, <2>3, <2>4, PushStep
<1>11. CASE v \notin ErrorCodeVectors
  <2>1. PICK st, mid, st2, n : /\ st = stack /\ mid = Append(stack, <<"err", 0>>)
                               /\ st2 = stack' /\ n = b + 3
    OBVIOUS
  <2>2. n \in Nat /\ Len(st) = n /\ x.sp + 3 <= n /\ Contents(st, x, n)
        /\ st \in Seq(Word) /\ n + 1 \in Nat /\ n + 2 \in Nat
    <3>1. n \in Nat /\ Len(st) = n /\ b + 3 <= n /\ n + 1 \in Nat /\ n + 2 \in Nat
      BY <1>b, <1>11, <2>1
    <3>2. Contents(st, x, n) /\ st \in Seq(Word)
      BY <1>1, <1>3, <2>1, <3>1
    <3> QED
      BY <1>a, <3>1, <3>2
  <2>3. /\ mid \in Seq(Word) /\ Len(mid) = n + 1
        /\ \A k \in 1 .. n : mid[k] = st[k]
        /\ mid[n + 1] = <<"err", 0>>
    BY <1>7, <2>1, <2>2, PushFacts
  <2>4. st2 = Append(mid, <<"trapno", v>>)
    <3>1. stack' = stack \o <<<<"err", 0>>>> \o <<<<"trapno", v>>>>
      BY <1>2, <1>5, <1>8, <1>11
    <3>2. stack \o <<<<"err", 0>>>> = mid
      BY <1>1, <1>7, <2>1, PushFacts
    <3>3. mid \o <<<<"trapno", v>>>> = Append(mid, <<"trapno", v>>)
      BY <1>7, <2>3, PushFacts
    <3> QED
      BY <2>1, <3>1, <3>2, <3>3
  <2>5. /\ st2 \in Seq(Word) /\ Len(st2) = n + 2
        /\ \A k \in 1 .. n + 1 : st2[k] = mid[k]
        /\ st2[n + 2] = <<"trapno", v>>
    <3>1. (n + 1) + 1 = n + 2
      BY <2>2
    <3> QED
      BY <1>7, <2>3, <2>4, <3>1, PushFacts
  <2>6. Contents(mid, x, n + 1)
    <3>1. PICK t : t = n + 1
      OBVIOUS
    <3>2. Belongs(mid[t], x, t)
      <4>1. \A k \in {5, 6, 7, 8} : t # x.sp + k
        <5>1. \A k \in {5, 6, 7, 8} : t # b + k
          BY <1>b, <2>1, <3>1
        <5> QED
          BY <1>a, <5>1
      <4>2. mid[t][2] = x.err
        BY <1>6, <1>11, <2>3, <3>1
      <4> QED
        BY <4>1, <4>2 DEF Belongs
    <3>3. Contents(mid, x, t)
      BY <1>3, <2>2, <2>3, <3>1, <3>2, ContentsPush
    <3> QED
      BY <3>1, <3>3
  <2>7. Contents(st2, x, n + 2)
    <3>1. PICK t, u : t = n + 1 /\ u = n + 2
      OBVIOUS
    <3>2. t \in Nat /\ u \in Nat /\ x.sp + 3 <= t /\ u = t + 1 /\ u = b + 5
      <4>1. t \in Nat /\ u \in Nat /\ b + 3 <= t /\ u = t + 1 /\ u = b + 5
        BY <1>b, <2>1, <3>1
      <4> QED
        BY <1>a, <4>1
    <3>3. Belongs(st2[u], x, u)
      <4>1. \A k \in {4, 6, 7, 8} : u # x.sp + k
        <5>1. \A k \in {4, 6, 7, 8} : u # b + k
          BY <1>b, <3>2
        <5> QED
          BY <1>a, <5>1
      <4>2. st2[u][2] = x.v
        BY <1>4, <2>5, <3>1
      <4> QED
        BY <4>1, <4>2 DEF Belongs
    <3>4. Contents(mid, x, t) /\ \A k \in 1 .. t : st2[k] = mid[k]
      BY <2>5, <2>6, <3>1
    <3>5. Contents(st2, x, u)
      BY <1>3, <3>2, <3>3, <3>4, ContentsPush
    <3> QED
      BY <3>1, <3>5
  <2>8. n + 2 = x.sp + 5
    <3>1. n + 2 = b + 5
      BY <1>b, <2>1
    <3> QED
      BY <1>a, <3>1
  <2>9. Frame(stack', x, eip', gpr', Len(stack'))
    <3>1. Extent(x, eip', gpr', n + 2)
      BY <1>2, <1>5, <1>7, <2>8 DEF Extent
    <3> QED
      BY <2>1, <2>5, <2>7, <3>1 DEF Frame
  <2>10. \A k \in 1 .. x.sp : stack'[k] = stack[k]
    <3>1. \A k \in 1 .. x.sp : k \in 1 .. n /\ k \in 1 .. n + 1
      <4>1. \A k \in 1 .. b : k \in 1 .. n /\ k \in 1 .. n + 1
        BY <1>b, <2>1
      <4> QED
        BY <1>a, <4>1
    <3> QED
      BY <2>1, <2>3, <2>5, <3>1
  <2>11. TypeInv'
    BY <1>1, <1>2, <1>7, <2>1, <2>5 DEF TypeInv
  <2>12. TickInv'
    BY <1>1, <1>2, <1>9, TickSame
  <2>13. eip[1] # "main"
    BY <1>2
  <2> QED
    BY <1>2, <1>3, <2>9, <2>10, <2>11, <2>12, <2>13, HandlerStep
<1> QED
  BY <1>10, <1>11

(***************************************************************************)
(* Where trap() finds its frame.                                           *)
(***************************************************************************)
LEMMA FrameFound ==
    ASSUME IInv, eip[1] = "trap"
    PROVE  \E x \in Contexts :
           /\ x = saved[Len(saved)] /\ x = Last(saved)
           /\ Len(saved) \in Nat /\ Len(saved) > 0
           /\ tf_trapno = x.v /\ tf_err = x.err /\ tf_eip = x.eip
           /\ Len(stack) = x.sp + 8 /\ x.v \in Int
<1>1. TypeInv /\ StackInv
  BY DEF IInv
<1>2. PICK x \in Contexts :
        /\ x = saved[Len(saved)] /\ x = Last(saved) /\ x.sp \in Nat
        /\ Len(saved) \in Nat /\ Len(saved) > 0
        /\ Len(stack) \in Nat
        /\ Extent(x, eip, gpr, Len(stack)) /\ Contents(stack, x, Len(stack))
  BY <1>1, TopFacts DEF Frame
<1>3. Len(stack) = x.sp + 8
  BY <1>2 DEF Extent
<1>4. PICK b : b = x.sp
  OBVIOUS
<1>5. /\ b \in Nat /\ Len(stack) = b + 8 /\ Len(stack) - 1 = b + 7
      /\ (b + 6) - 1 = b + 5 /\ (b + 6) - 2 = b + 4 /\ (b + 6) - 3 = b + 3
  BY <1>2, <1>3, <1>4
<1>6. /\ stack[b + 7][2] = b + 6 /\ stack[b + 5][2] = x.v
      /\ stack[b + 4][2] = x.err /\ stack[b + 3] = x.eip
  <2>1. b + 4 <= Len(stack) /\ b + 5 <= Len(stack) /\ b + 7 <= Len(stack)
    BY <1>5
  <2> QED
    BY <1>2, <1>4, <2>1 DEF Contents
<1>7. tf = b + 6
  BY <1>5, <1>6 DEF tf
<1>8. tf_trapno = x.v /\ tf_err = x.err /\ tf_eip = x.eip
  BY <1>5, <1>6, <1>7 DEF tf_trapno, tf_err, tf_eip
<1>9. x.v \in Int
  BY DEF Contexts
<1> QED
  BY <1>2, <1>3, <1>8, <1>9

(***************************************************************************)
(* trap() calls the handler of the trap it is called for.                  *)
(***************************************************************************)
LEMMA DispatchStep ==
    ASSUME IInv, Dispatch PROVE IInv'
<1>1. TypeInv /\ StackInv /\ TickInv /\ ticks \in Int
  BY DEF IInv, TypeInv
<1>2. eip[1] = "trap" /\ UNCHANGED <<stack, saved, FL_IF, cr2, ticks, timers, overlap>>
  BY DEF Dispatch, At, ghosts
<1>3. PICK x \in Contexts :
        /\ x = saved[Len(saved)] /\ Len(saved) \in Nat /\ Len(saved) > 0
        /\ tf_trapno = x.v /\ Len(stack) = x.sp + 8 /\ x.v \in Int
  BY <1>2, FrameFound
<1>4. Timer(Len(saved)) <=> x.v = IRQ_OFFSET + IRQ_TIMER
  BY <1>3 DEF Timer
<1>5. CASE x.v = IRQ_OFFSET + IRQ_TIMER
  <2>1. eip' = <<"ticks_inc", 0>> /\ gpr' = ticks
    BY <1>3, <1>5 DEF Dispatch, Go, T_PGFLT, IRQ_OFFSET, IRQ_TIMER, IRQ_KBD
  <2>2. eip' \in Word /\ eip'[1] = "ticks_inc" /\ eip'[1] \in Tags /\ eip'[2] \in Int
    BY <2>1, WordFacts
  <2>3. Extent(x, eip', gpr', Len(stack))
    BY <1>3, <1>5, <2>2 DEF Extent
  <2>4. TickInv'
    BY <1>1, <1>2, <1>3, <2>1, <2>2, TickLoad
  <2>5. eip[1] # "main" /\ gpr' \in Int /\ ticks' \in Int
    BY <1>1, <1>2, <2>1
  <2> QED
    BY <1>2, <1>3, <2>2, <2>3, <2>4, <2>5, StillStack
<1>6. CASE x.v # IRQ_OFFSET + IRQ_TIMER
  <2>1. PICK l \in {"pg_fault", "irq_kbd", "ret"} :
           eip' = <<l, 0>> /\ (l = "pg_fault" => x.v = T_PGFLT)
    <3>1. CASE x.v = T_PGFLT
      <4>1. eip' = <<"pg_fault", 0>>
        BY <1>3, <3>1 DEF Dispatch, Go, T_PGFLT, IRQ_OFFSET, IRQ_TIMER, IRQ_KBD
      <4> QED
        BY <3>1, <4>1
    <3>2. CASE x.v # T_PGFLT /\ x.v = IRQ_OFFSET + IRQ_KBD
      <4>1. eip' = <<"irq_kbd", 0>>
        BY <1>3, <3>2 DEF Dispatch, Go, T_PGFLT, IRQ_OFFSET, IRQ_TIMER, IRQ_KBD
      <4> QED
        BY <4>1
    <3>3. CASE x.v # T_PGFLT /\ x.v # IRQ_OFFSET + IRQ_KBD
      <4>1. eip' = <<"ret", 0>>
        BY <1>3, <1>6, <3>3 DEF Dispatch, Go
      <4> QED
        BY <4>1
    <3> QED
      BY <3>1, <3>2, <3>3
  <2>2. gpr' = x.v
    BY <1>3, <1>6 DEF Dispatch
  <2>3. eip' \in Word /\ eip'[1] = l /\ eip'[1] \in Tags /\ eip'[2] \in Int
    <3>1. l \in Tags
      BY <2>1, WordFacts
    <3> QED
      BY <2>1, <3>1, WordFacts
  <2>4. Extent(x, eip', gpr', Len(stack))
    BY <1>3, <2>1, <2>3 DEF Extent
  <2>5. eip[1] # "ticks_inc" /\ eip'[1] # "ticks_inc"
    BY <1>2, <2>1, <2>3
  <2>6. TickInv'
    BY <1>1, <1>2, <1>4, <1>6, <2>5, TickSame
  <2>7. eip[1] # "main" /\ gpr' \in Int /\ ticks' \in Int
    BY <1>1, <1>2, <1>3, <2>2
  <2> QED
    BY <1>2, <1>3, <2>3, <2>4, <2>6, <2>7, StillStack
<1> QED
  BY <1>5, <1>6

(***************************************************************************)
(* irq_timer(), irq_kbd() and pg_fault().                                  *)
(***************************************************************************)
LEMMA WorkSteps ==
    ASSUME IInv, irq_timer \/ irq_kbd \/ pg_fault PROVE IInv'
<1>1. TypeInv /\ StackInv /\ TickInv /\ ticks \in Int /\ gpr \in Int /\ cr2 \in Int
  BY DEF IInv, TypeInv
<1>2. /\ eip[1] \in {"ticks_inc", "irq_kbd", "pg_fault"} /\ eip' = <<"ret", 0>>
      /\ UNCHANGED <<stack, saved, FL_IF, cr2, timers, overlap>>
  BY DEF irq_timer, irq_kbd, pg_fault, At, Go, ghosts
<1>3. PICK x \in Contexts :
        /\ x = saved[Len(saved)] /\ x.sp \in Nat /\ Len(stack) \in Nat
        /\ Len(saved) > 0 /\ Extent(x, eip, gpr, Len(stack))
  BY <1>1, <1>2, TopFacts DEF Frame
<1>4. Len(stack) = x.sp + 8
  BY <1>2, <1>3 DEF Extent
<1>5. eip' \in Word /\ eip'[1] = "ret" /\ eip'[1] \in Tags /\ eip'[2] \in Int
  BY <1>2, WordFacts
<1>6. Extent(x, eip', gpr', Len(stack))
  BY <1>4, <1>5 DEF Extent
<1>7. gpr' \in Int /\ ticks' \in Int
  BY <1>1 DEF irq_timer, irq_kbd, pg_fault
<1>8. TickInv'
  <2>1. CASE irq_timer
    <3>1. eip[1] = "ticks_inc" /\ ticks' = gpr + 1 /\ UNCHANGED gpr
      BY <2>1 DEF irq_timer, At
    <3>2. Timer(Len(saved))
      BY <1>3, <3>1 DEF Extent, Timer
    <3> QED
      BY <1>1, <1>2, <1>3, <1>5, <3>1, <3>2, TickStore
  <2>2. CASE irq_kbd \/ pg_fault
    <3>1. eip[1] \in {"irq_kbd", "pg_fault"} /\ UNCHANGED ticks
      BY <2>2 DEF irq_kbd, pg_fault, At
    <3>2. eip[1] \notin Uncounted /\ eip'[1] \notin Uncounted
      BY <1>5, <3>1 DEF Uncounted
    <3>3. eip[1] # "ticks_inc" /\ eip'[1] # "ticks_inc"
      BY <1>5, <3>1
    <3> QED
      BY <1>1, <1>2, <3>1, <3>2, <3>3, TickSame
  <2> QED
    BY <2>1, <2>2
<1>9. eip[1] # "main"
  BY <1>2
<1> QED
  BY <1>2, <1>3, <1>5, <1>6, <1>7, <1>8, <1>9, StillStack

(***************************************************************************)
(* The way out of a handler, up to iret.                                   *)
(***************************************************************************)
LEMMA ExitSteps ==
    ASSUME IInv, Return \/ PoplEsp \/ Popal \/ Addl PROVE IInv'
<1>1. TypeInv /\ StackInv /\ gpr \in Int
  BY DEF IInv, TypeInv
<1>2. /\ eip[1] \in {"ret", "popl_esp", "popal", "addl"}
      /\ UNCHANGED <<saved, FL_IF, cr2, ticks, timers, overlap>>
  BY DEF Return, PoplEsp, Popal, Addl, At, ghosts
<1>3. PICK x \in Contexts :
        /\ x = saved[Len(saved)] /\ x.sp \in Nat /\ Len(stack) \in Nat
        /\ Extent(x, eip, gpr, Len(stack)) /\ Contents(stack, x, Len(stack))
  BY <1>1, <1>2, TopFacts DEF Frame
<1>4. PICK b : b = x.sp
  OBVIOUS
<1>5. eip[1] # "main" /\ eip[1] \notin Uncounted
  BY <1>2 DEF Uncounted
<1>6. CASE Return
  <2>1. eip[1] = "ret" /\ eip' = Last(stack) /\ stack' = Pop(1) /\ UNCHANGED gpr
    BY <1>6 DEF Return, At
  <2>2. Len(stack) = b + 8 /\ b \in Nat
    BY <1>3, <1>4, <2>1 DEF Extent
  <2>3. eip' = <<"popl_esp", 0>>
    <3>1. stack[b + 8] = <<"popl_esp", 0>>
      <4>1. b + 8 <= Len(stack)
        BY <2>2
      <4> QED
        BY <1>3, <1>4, <4>1 DEF Contents
    <3> QED
      BY <2>1, <2>2, <3>1 DEF Last
  <2>4. b + 7 \in Nat /\ b + 7 <= Len(stack) /\ b + 3 <= b + 7 /\ Len(stack) - 1 = b + 7
    BY <2>2
  <2>5. stack' = SubSeq(stack, 1, b + 7)
    BY <2>1, <2>4 DEF Pop
  <2>6. eip' \in Word /\ eip'[1] = "popl_esp"
    BY <2>3, WordFacts
  <2>7. eip'[1] \notin Uncounted
    BY <2>6 DEF Uncounted
  <2>8. Extent(x, eip', gpr', b + 7)
    BY <1>4, <2>6 DEF Extent
  <2>9. gpr' \in Int
    BY <1>1, <2>1
  <2> QED
    BY <1>2, <1>3, <1>4, <1>5, <2>4, <2>5, <2>6, <2>7, <2>8, <2>9, PopStep
<1>7. CASE PoplEsp
  <2>1. eip[1] = "popl_esp" /\ eip' = <<"popal", 0>> /\ UNCHANGED gpr
        /\ stack' = SubSeq(stack, 1, Last(stack)[2])
    BY <1>7 DEF PoplEsp, At, Go
  <2>2. Len(stack) = b + 7 /\ b \in Nat
    BY <1>3, <1>4, <2>1 DEF Extent
  <2>3. Last(stack)[2] = b + 6
    <3>1. stack[b + 7][2] = b + 6
      <4>1. b + 7 <= Len(stack)
        BY <2>2
      <4> QED
        BY <1>3, <1>4, <4>1 DEF Contents
    <3> QED
      BY <2>2, <3>1 DEF Last
  <2>4. b + 6 \in Nat /\ b + 6 <= Len(stack) /\ b + 3 <= b + 6
    BY <2>2
  <2>5. stack' = SubSeq(stack, 1, b + 6)
    BY <2>1, <2>3
  <2>6. eip' \in Word /\ eip'[1] = "popal"
    BY <2>1, WordFacts
  <2>7. eip'[1] \notin Uncounted
    BY <2>6 DEF Uncounted
  <2>8. Extent(x, eip', gpr', b + 6)
    BY <1>4, <2>6 DEF Extent
  <2>9. gpr' \in Int
    BY <1>1, <2>1
  <2> QED
    BY <1>2, <1>3, <1>4, <1>5, <2>4, <2>5, <2>6, <2>7, <2>8, <2>9, PopStep
<1>8. CASE Popal
  <2>1. eip[1] = "popal" /\ eip' = <<"addl", 0>> /\ gpr' = Last(stack)[2]
        /\ stack' = Pop(1)
    BY <1>8 DEF Popal, At, Go
  <2>2. Len(stack) = b + 6 /\ b \in Nat
    BY <1>3, <1>4, <2>1 DEF Extent
  <2>3. gpr' = x.gpr
    <3>1. stack[b + 6][2] = x.gpr
      <4>1. b + 6 <= Len(stack)
        BY <2>2
      <4> QED
        BY <1>3, <1>4, <4>1 DEF Contents
    <3> QED
      BY <2>1, <2>2, <3>1 DEF Last
  <2>4. b + 5 \in Nat /\ b + 5 <= Len(stack) /\ b + 3 <= b + 5 /\ Len(stack) - 1 = b + 5
    BY <2>2
  <2>5. stack' = SubSeq(stack, 1, b + 5)
    BY <2>1, <2>4 DEF Pop
  <2>6. eip' \in Word /\ eip'[1] = "addl"
    BY <2>1, WordFacts
  <2>7. eip'[1] \notin Uncounted
    BY <2>6 DEF Uncounted
  <2>8. Extent(x, eip', gpr', b + 5)
    BY <1>4, <2>3, <2>6 DEF Extent
  <2>9. gpr' \in Int
    <3>1. x.gpr \in Int
      BY DEF Contexts
    <3> QED
      BY <2>3, <3>1
  <2> QED
    BY <1>2, <1>3, <1>4, <1>5, <2>4, <2>5, <2>6, <2>7, <2>8, <2>9, PopStep
<1>9. CASE Addl
  <2>1. eip[1] = "addl" /\ eip' = <<"iret", 0>> /\ UNCHANGED gpr /\ stack' = Pop(2)
    BY <1>9 DEF Addl, At, Go
  <2>2. Len(stack) = b + 5 /\ b \in Nat /\ gpr = x.gpr
    BY <1>3, <1>4, <2>1 DEF Extent
  <2>4. b + 3 \in Nat /\ b + 3 <= Len(stack) /\ b + 3 <= b + 3 /\ Len(stack) - 2 = b + 3
    BY <2>2
  <2>5. stack' = SubSeq(stack, 1, b + 3)
    BY <2>1, <2>4 DEF Pop
  <2>6. eip' \in Word /\ eip'[1] = "iret"
    BY <2>1, WordFacts
  <2>7. eip'[1] \notin Uncounted
    BY <2>6 DEF Uncounted
  <2>8. Extent(x, eip', gpr', b + 3)
    BY <1>4, <2>1, <2>2, <2>6 DEF Extent
  <2>9. gpr' \in Int
    BY <1>1, <2>1
  <2> QED
    BY <1>2, <1>3, <1>4, <1>5, <2>4, <2>5, <2>6, <2>7, <2>8, <2>9, PopStep
<1> QED
  BY <1>6, <1>7, <1>8, <1>9

(***************************************************************************)
(* What iret loads is what the trap saved.                                 *)
(***************************************************************************)
LEMMA IretFacts ==
    ASSUME IInv, Iret
    PROVE  \E x \in Contexts :
           /\ x = saved[Len(saved)] /\ x = Last(saved) /\ Len(saved) > 0
           /\ eip' = x.eip /\ gpr' = x.gpr /\ FL_IF' = x.flag
           /\ stack' \in Seq(Word) /\ Len(stack') = x.sp
           /\ \A k \in 1 .. x.sp : stack'[k] = stack[k]
<1>1. TypeInv /\ StackInv /\ stack \in Seq(Word)
  BY DEF IInv, TypeInv
<1>2. /\ eip[1] = "iret" /\ eip' = Last(stack) /\ UNCHANGED gpr /\ stack' = Pop(3)
      /\ FL_IF' = (stack[Len(stack) - 2][2] = 1)
  BY DEF Iret, At
<1>3. PICK x \in Contexts :
        /\ x = saved[Len(saved)] /\ x = Last(saved) /\ Len(saved) > 0
        /\ x.sp \in Nat /\ Len(stack) \in Nat
        /\ Extent(x, eip, gpr, Len(stack)) /\ Contents(stack, x, Len(stack))
  BY <1>1, <1>2, TopFacts DEF Frame
<1>4. PICK b : b = x.sp
  OBVIOUS
<1>5. Len(stack) = b + 3 /\ gpr = x.gpr
  BY <1>2, <1>3, <1>4 DEF Extent
<1>6. b \in Nat /\ b <= Len(stack) /\ Len(stack) - 2 = b + 1 /\ Len(stack) - 3 = b
  BY <1>3, <1>4, <1>5
<1>7. stack[b + 1][2] = Flag(x.flag) /\ stack[b + 3] = x.eip
  BY <1>3, <1>4 DEF Contents
<1>8. eip' = x.eip
  BY <1>2, <1>5, <1>7 DEF Last
<1>9. FL_IF' = x.flag
  <2>1. FL_IF' = (Flag(x.flag) = 1)
    BY <1>2, <1>6, <1>7
  <2>2. x.flag \in BOOLEAN
    BY DEF Contexts
  <2>3. CASE x.flag = TRUE
    BY <2>1, <2>3 DEF Flag
  <2>4. CASE x.flag = FALSE
    <3>1. Flag(x.flag) # 1
      BY <2>4 DEF Flag
    <3> QED
      BY <2>1, <2>4, <3>1
  <2> QED
    BY <2>2, <2>3, <2>4
<1>10. stack' = SubSeq(stack, 1, b)
  BY <1>2, <1>6 DEF Pop
<1>11. /\ stack' \in Seq(Word) /\ Len(stack') = b
       /\ \A k \in 1 .. b : stack'[k] = stack[k]
  BY <1>1, <1>6, <1>10, PrefixFacts
<1> QED
  BY <1>2, <1>3, <1>4, <1>5, <1>8, <1>9, <1>11

(***************************************************************************)
(* iret.                                                                   *)
(***************************************************************************)
LEMMA IretStep ==
    ASSUME IInv, Iret PROVE IInv'
<1>1. TypeInv /\ StackInv /\ CauseInv /\ TickInv /\ saved \in Seq(Contexts)
  BY DEF IInv, TypeInv
<1>2. /\ eip[1] = "iret" /\ saved' = Front(saved)
      /\ UNCHANGED <<cr2, ticks, timers, overlap>>
  BY DEF Iret, At
<1>3. PICK x \in Contexts :
        /\ x = saved[Len(saved)] /\ Len(saved) > 0
        /\ eip' = x.eip /\ gpr' = x.gpr /\ FL_IF' = x.flag
        /\ stack' \in Seq(Word) /\ Len(stack') = x.sp
        /\ \A k \in 1 .. x.sp : stack'[k] = stack[k]
  BY IretFacts
<1>4. /\ StackInv' /\ Len(saved') = Len(saved) - 1
      /\ \A i \in 1 .. Len(saved) - 1 : saved'[i] = saved[i]
      /\ \A i \in 0 .. Len(saved) - 1 : EipAt(i)' = EipAt(i) /\ GprAt(i)' = GprAt(i)
  BY <1>1, <1>2, <1>3, IretStack
<1>5. TickInv'
  BY <1>1, <1>2, <1>3, <1>4, TickIret
<1>6. saved' \in Seq(Contexts) /\ Len(saved) \in Nat
  BY <1>1, <1>2, <1>3, FrontFacts
<1>7. TypeInv'
  <2>1. x.eip \in Word /\ x.gpr \in Int
    BY DEF Contexts
  <2>2. x.flag \in BOOLEAN
    BY DEF Contexts
  <2>3. FL_IF' \in BOOLEAN
    BY <1>3, <2>2
  <2>4. eip' \in Word /\ gpr' \in Int /\ stack' \in Seq(Word)
    BY <1>3, <2>1
  <2> QED
    BY <1>1, <1>2, <1>6, <2>3, <2>4 DEF TypeInv
<1>8. CauseInv'
  <2>1. \A i \in 1 .. Len(saved') : i \in 1 .. Len(saved) /\ saved'[i] = saved[i]
    BY <1>4, <1>6
  <2> QED
    BY <1>1, <1>2, <2>1 DEF CauseInv
<1> QED
  BY <1>4, <1>5, <1>7, <1>8 DEF IInv

-----------------------------------------------------------------------------
(***************************************************************************)
(* What a trap saves.                                                      *)
(***************************************************************************)
LEMMA ContextFacts ==
    ASSUME TypeInv, NEW v \in Int, NEW err \in Int, NEW a \in Int
    PROVE  \E x \in Contexts :
           /\ x = Context(v, err, a)
           /\ x.eip = eip /\ x.gpr = gpr /\ x.sp = Len(stack) /\ x.flag = FL_IF
           /\ x.v = v /\ x.err = err /\ x.addr = a
<1>1. PICK x : x = Context(v, err, a)
  OBVIOUS
<1>2. x \in Contexts
  BY <1>1 DEF Context, Contexts, TypeInv
<1>3. /\ x.eip = eip /\ x.gpr = gpr /\ x.sp = Len(stack)
      /\ x.v = v /\ x.err = err /\ x.addr = a
  BY <1>1 DEF Context
<1>4. x.flag = FL_IF
  BY <1>1 DEF Context
<1> QED
  BY <1>1, <1>2, <1>3, <1>4

(***************************************************************************)
(* What the processor pushes: three words, and an error code for some      *)
(* vectors.                                                                *)
(***************************************************************************)
LEMMA EnterFacts ==
    ASSUME TypeInv, NEW v \in Int, NEW err \in Int, Enter(v, err)
    PROVE  /\ stack' \in Seq(Word)
           /\ Len(stack') = Len(stack) + (IF v \in ErrorCodeVectors THEN 4 ELSE 3)
           /\ \A k \in 1 .. Len(stack) : stack'[k] = stack[k]
           /\ stack'[Len(stack) + 1][2] = Flag(FL_IF)
           /\ stack'[Len(stack) + 3] = eip
           /\ v \in ErrorCodeVectors => stack'[Len(stack) + 4][2] = err
<1>1. stack \in Seq(Word) /\ Len(stack) \in Nat /\ eip \in Word
  BY DEF TypeInv
<1>2. PICK f : f = Flag(FL_IF)
  OBVIOUS
<1>3. f \in Int
  BY <1>2 DEF Flag
<1>4. PICK a, b, c : a = <<"eflags", f>> /\ b = <<"cs", 8>> /\ c = eip
  OBVIOUS
<1>5. a \in Word /\ b \in Word /\ c \in Word /\ a[2] = f
  BY <1>1, <1>3, <1>4, WordFacts
<1>6. PICK t, s3 : t = <<a, b, c>> /\ s3 = stack \o t
  OBVIOUS
<1>7. /\ s3 \in Seq(Word) /\ Len(s3) = Len(stack) + 3
      /\ \A k \in 1 .. Len(stack) : s3[k] = stack[k]
      /\ s3[Len(stack) + 1] = a /\ s3[Len(stack) + 3] = c
  <2>1. t \in Seq(Word) /\ Len(t) = 3 /\ t[1] = a /\ t[3] = c
    BY <1>5, <1>6
  <2>2. PICK n : n = Len(stack)
    OBVIOUS
  <2>3. /\ s3 \in Seq(Word) /\ Len(s3) = n + 3
        /\ \A i \in 1 .. n + 3 : s3[i] = IF i <= n THEN stack[i] ELSE t[i - n]
    BY <1>1, <1>6, <2>1, <2>2, ConcatProperties
  <2>4. /\ n + 1 \in 1 .. n + 3 /\ ~(n + 1 <= n) /\ (n + 1) - n = 1
        /\ n + 3 \in 1 .. n + 3 /\ ~(n + 3 <= n) /\ (n + 3) - n = 3
        /\ \A k \in 1 .. n : k \in 1 .. n + 3 /\ k <= n
    BY <1>1, <2>2
  <2>5. s3[n + 1] = a /\ s3[n + 3] = c
    BY <2>1, <2>3, <2>4
  <2> QED
    BY <2>2, <2>3, <2>4, <2>5
<1>8. stack \o <<a, b, c>> = s3
  BY <1>6
<1>9. stack' = s3 \o (IF v \in ErrorCodeVectors THEN <<<<"err", err>>>> ELSE <<>>)
  BY <1>2, <1>4, <1>8 DEF Enter
<1>10. CASE v \in ErrorCodeVectors
  <2>1. <<"err", err>> \in Word
    BY WordFacts
  <2>2. stack' = Append(s3, <<"err", err>>)
    <3>1. stack' = s3 \o <<<<"err", err>>>>
      BY <1>9, <1>10
    <3> QED
      BY <1>7, <2>1, <3>1, PushFacts
  <2>3. PICK n : n = Len(stack)
    OBVIOUS
  <2>4. n \in Nat /\ (n + 3) + 1 = n + 4
    BY <1>1, <2>3
  <2>5. /\ stack' \in Seq(Word) /\ Len(stack') = n + 4
        /\ \A k \in 1 .. n + 3 : stack'[k] = s3[k]
        /\ stack'[n + 4] = <<"err", err>>
    BY <1>7, <2>1, <2>2, <2>3, <2>4, PushFacts
  <2>6. \A k \in 1 .. n : k \in 1 .. n + 3
    BY <2>4
  <2>7. n + 1 \in 1 .. n + 3 /\ n + 3 \in 1 .. n + 3
    BY <2>4
  <2>8. stack'[n + 1][2] = f /\ stack'[n + 3] = eip /\ stack'[n + 4][2] = err
    <3>1. stack'[n + 1] = s3[n + 1] /\ stack'[n + 3] = s3[n + 3]
      BY <2>5, <2>7
    <3> QED
      BY <1>4, <1>5, <1>7, <2>3, <2>5, <3>1
  <2>9. \A k \in 1 .. n : stack'[k] = stack[k]
    BY <1>7, <2>3, <2>5, <2>6
  <2> QED
    BY <1>2, <1>10, <2>3, <2>5, <2>8, <2>9
<1>11. CASE v \notin ErrorCodeVectors
  <2>1. stack' = s3
    <3>1. stack' = s3 \o << >>
      BY <1>9, <1>11
    <3> QED
      BY <1>7, <3>1, ConcatEmptySeq
  <2> QED
    BY <1>2, <1>4, <1>5, <1>7, <1>11, <2>1
<1> QED
  BY <1>10, <1>11

(***************************************************************************)
(* Every trap builds a frame that its handler understands.                 *)
(***************************************************************************)
LEMMA EnterStep ==
    ASSUME IInv, NEW v \in Int, NEW err \in Int, Enter(v, err),
           NEW x \in Contexts, x.eip = eip, x.gpr = gpr, x.sp = Len(stack),
           x.flag = FL_IF, x.v = v, x.err = err,
           saved' \in Seq(Contexts), Len(saved') = Len(saved) + 1,
           saved'[Len(saved) + 1] = x,
           \A i \in 1 .. Len(saved) :
              /\ saved'[i].eip = saved[i].eip
              /\ saved'[i].gpr = saved[i].gpr /\ saved'[i].sp = saved[i].sp
              /\ saved'[i].v = saved[i].v /\ saved'[i].err = saved[i].err
              /\ saved'[i].flag = saved[i].flag,
           CauseInv', cr2' \in Int, overlap' \in BOOLEAN, ~overlap' => ~overlap,
           v = IRQ_OFFSET + IRQ_TIMER =>
              timers' = timers + 1 /\ (~overlap' => Loaded = {}),
           v # IRQ_OFFSET + IRQ_TIMER => timers' = timers
    PROVE  IInv'
<1>1. TypeInv /\ StackInv /\ TickInv /\ Len(saved) \in Nat /\ Len(stack) \in Nat
  BY DEF IInv, TypeInv
<1>2. eip' = <<"vector", v>> /\ UNCHANGED <<gpr, FL_IF, ticks>>
  BY DEF Enter
<1>3. eip' \in Word /\ eip'[1] = "vector" /\ eip'[2] = v
  BY <1>2, WordFacts
<1>4. /\ stack' \in Seq(Word)
      /\ Len(stack') = Len(stack) + (IF v \in ErrorCodeVectors THEN 4 ELSE 3)
      /\ \A k \in 1 .. Len(stack) : stack'[k] = stack[k]
      /\ stack'[Len(stack) + 1][2] = Flag(FL_IF)
      /\ stack'[Len(stack) + 3] = eip
      /\ v \in ErrorCodeVectors => stack'[Len(stack) + 4][2] = err
  BY <1>1, EnterFacts
<1>5. TypeInv'
  <2>1. timers \in Int /\ timers' \in Int
    BY <1>1 DEF TypeInv
  <2> QED
    BY <1>1, <1>2, <1>3, <1>4, <2>1 DEF TypeInv
<1>6. Frame(stack', x, eip', gpr', Len(stack'))
  <2>1. PICK b, t : b = x.sp /\ t = Len(stack')
    OBVIOUS
  <2>2. b \in Nat /\ b = Len(stack)
    BY <1>1, <2>1
  <2>3. /\ v \in ErrorCodeVectors => t = b + 4
        /\ v \notin ErrorCodeVectors => t = b + 3
    BY <1>4, <2>1
  <2>4. Extent(x, eip', gpr', t)
    BY <1>2, <1>3, <2>1, <2>3 DEF Extent
  <2>5. Contents(stack', x, t)
    <3>1. Flag(x.flag) = Flag(FL_IF)
      OBVIOUS
    <3>2. stack'[b + 1][2] = Flag(x.flag) /\ stack'[b + 3] = x.eip
      BY <1>4, <2>2, <3>1
    <3>3. b + 4 <= t => stack'[b + 4][2] = x.err
      BY <1>4, <2>2, <2>3
    <3>4. ~(b + 5 <= t) /\ ~(b + 6 <= t) /\ ~(b + 7 <= t) /\ ~(b + 8 <= t)
      BY <2>2, <2>3
    <3> QED
      BY <2>1, <3>2, <3>3, <3>4 DEF Contents
  <2> QED
    BY <2>1, <2>4, <2>5 DEF Frame
<1>7. \A i \in 1 .. Len(saved) : saved'[i] \in Contexts
  <2>1. \A i \in 1 .. Len(saved') : saved'[i] \in Contexts
    OBVIOUS
  <2>2. \A i \in 1 .. Len(saved) : i \in 1 .. Len(saved')
    BY <1>1
  <2> QED
    BY <2>1, <2>2
<1>8. /\ StackInv'
      /\ \A i \in 0 .. Len(saved) : EipAt(i)' = EipAt(i) /\ GprAt(i)' = GprAt(i)
      /\ EipAt(Len(saved))' = eip'
  BY <1>1, <1>4, <1>6, <1>7, EnterStack
<1>9. Timer(Len(saved))' <=> v = IRQ_OFFSET + IRQ_TIMER
  <2>1. saved'[Len(saved')].v = v
    OBVIOUS
  <2> QED
    BY <2>1 DEF Timer
<1>10. TickInv'
  <2>1. EipAt(Len(saved))'[1] = "vector"
    BY <1>3, <1>8
  <2> QED
    BY <1>1, <1>2, <1>8, <1>9, <2>1, TickEnter
<1> QED
  BY <1>5, <1>8, <1>10 DEF IInv

(***************************************************************************)
(* Exceptions, system calls and interrupts, which leave the saved contexts *)
(* as they are.                                                            *)
(***************************************************************************)
LEMMA RememberStep ==
    ASSUME IInv, NEW v \in Int, NEW err \in Int, Enter(v, err), Remember(v, err),
           UNCHANGED cr2, v \notin ErrorCodeVectors => err = 0, v # T_PGFLT,
           overlap' \in BOOLEAN, ~overlap' => ~overlap,
           v = IRQ_OFFSET + IRQ_TIMER =>
              timers' = timers + 1 /\ (~overlap' => Loaded = {}),
           v # IRQ_OFFSET + IRQ_TIMER => timers' = timers
    PROVE  IInv'
<1>1. TypeInv /\ CauseInv /\ saved \in Seq(Contexts) /\ Len(saved) \in Nat /\ cr2 \in Int
  BY DEF IInv, TypeInv
<1>2. PICK x \in Contexts :
        /\ x = Context(v, err, 0)
        /\ x.eip = eip /\ x.gpr = gpr /\ x.sp = Len(stack) /\ x.flag = FL_IF
        /\ x.v = v /\ x.err = err
  BY <1>1, ContextFacts
<1>3. saved' = Append(saved, x)
  BY <1>2 DEF Remember
<1>4. /\ saved' \in Seq(Contexts) /\ Len(saved') = Len(saved) + 1
      /\ \A i \in 1 .. Len(saved) : saved'[i] = saved[i]
      /\ saved'[Len(saved) + 1] = x
  BY <1>1, <1>3, PushFacts
<1>5. CauseInv'
  <2>1. \A i \in 1 .. Len(saved') : i \in 1 .. Len(saved) \/ i = Len(saved) + 1
    BY <1>1, <1>4
  <2>2. ASSUME NEW i \in 1 .. Len(saved')
        PROVE  /\ saved'[i].v \notin ErrorCodeVectors => saved'[i].err = 0
               /\ saved'[i].v = T_PGFLT => cr2' = saved'[i].addr \/ saved'[i].crossed
    <3>1. CASE i \in 1 .. Len(saved)
      BY <1>1, <1>4, <3>1 DEF CauseInv
    <3>2. CASE i = Len(saved) + 1
      BY <1>2, <1>4, <3>2
    <3> QED
      BY <2>1, <3>1, <3>2
  <2> QED
    BY <2>2 DEF CauseInv
<1>6. cr2' \in Int
  BY <1>1
<1>7. \A i \in 1 .. Len(saved) :
              /\ saved'[i].eip = saved[i].eip
              /\ saved'[i].gpr = saved[i].gpr /\ saved'[i].sp = saved[i].sp
              /\ saved'[i].v = saved[i].v /\ saved'[i].err = saved[i].err
              /\ saved'[i].flag = saved[i].flag
  BY <1>4
<1> QED
  BY <1>2, <1>4, <1>5, <1>6, <1>7, EnterStep

(***************************************************************************)
(* An exception other than a page fault.                                   *)
(***************************************************************************)
LEMMA ExceptionStep ==
    ASSUME IInv, NEW v \in Exceptions, NEW err \in Errs \cup {0}, Exception(v, err)
    PROVE  IInv'
<1>1. v \in Int /\ v # T_PGFLT /\ v # IRQ_OFFSET + IRQ_TIMER /\ err \in Int
  BY VectorFacts, TrapAssumption
<1>2. /\ Enter(v, err) /\ Remember(v, err) /\ UNCHANGED <<cr2, timers, overlap>>
      /\ v \notin ErrorCodeVectors => err = 0
  BY DEF Exception
<1>3. overlap' \in BOOLEAN /\ (~overlap' => ~overlap)
  BY <1>2 DEF IInv, TypeInv
<1> QED
  BY <1>1, <1>2, <1>3, RememberStep

(***************************************************************************)
(* A system call.                                                          *)
(***************************************************************************)
LEMMA SyscallStep ==
    ASSUME IInv, Syscall PROVE IInv'
<1>1. /\ T_SYSCALL \in Int /\ T_SYSCALL # T_PGFLT /\ T_SYSCALL # IRQ_OFFSET + IRQ_TIMER
      /\ 0 \in Int
  BY VectorFacts
<1>2. /\ Enter(T_SYSCALL, 0) /\ Remember(T_SYSCALL, 0)
      /\ UNCHANGED <<cr2, timers, overlap>>
  BY DEF Syscall
<1>3. overlap' \in BOOLEAN /\ (~overlap' => ~overlap)
  BY <1>2 DEF IInv, TypeInv
<1> QED
  BY <1>1, <1>2, <1>3, RememberStep

(***************************************************************************)
(* An interrupt: overlap notices a timer interrupt that comes while        *)
(* another one has loaded ticks.                                           *)
(***************************************************************************)
LEMMA InterruptStep ==
    ASSUME IInv, NEW l \in Lines, Interrupt(l) PROVE IInv'
<1>1. PICK v : v = IRQ_OFFSET + l
  OBVIOUS
<1>2. /\ v \in Int /\ v # T_PGFLT /\ v \notin ErrorCodeVectors
      /\ v = IRQ_OFFSET + IRQ_TIMER <=> l = IRQ_TIMER
  BY <1>1, VectorFacts
<1>3. /\ Enter(v, 0) /\ Remember(v, 0) /\ UNCHANGED cr2
      /\ timers' = (IF l = IRQ_TIMER THEN timers + 1 ELSE timers)
      /\ overlap' = (overlap \/ /\ l = IRQ_TIMER
                                /\ \E x \in ToSet(saved') : x.eip[1] = "ticks_inc")
  BY <1>1 DEF Interrupt
<1>4. overlap' \in BOOLEAN /\ (~overlap' => ~overlap)
  BY <1>3 DEF IInv, TypeInv
<1>5. TypeInv /\ saved \in Seq(Contexts) /\ Len(saved) \in Nat
  BY DEF IInv, TypeInv
<1>6. ASSUME l = IRQ_TIMER, ~overlap' PROVE Loaded = {}
  <2>1. PICK c \in Contexts : c = Context(v, 0, 0) /\ c.eip = eip
    BY <1>2, <1>5, ContextFacts
  <2>2. saved' = Append(saved, c)
    BY <1>3, <2>1 DEF Remember
  <2>3. /\ saved' \in Seq(Contexts) /\ Len(saved') = Len(saved) + 1
        /\ \A i \in 1 .. Len(saved) : saved'[i] = saved[i]
        /\ saved'[Len(saved) + 1] = c
    BY <1>5, <2>2, PushFacts
  <2>4. \A k \in 1 .. Len(saved') : saved'[k].eip[1] # "ticks_inc"
    <3>1. \A x \in ToSet(saved') : x.eip[1] # "ticks_inc"
      BY <1>3, <1>6
    <3>2. DOMAIN saved' = 1 .. Len(saved')
      BY <2>3
    <3> QED
      BY <3>1, <3>2 DEF ToSet
  <2>5. ASSUME NEW i \in 1 .. Len(saved) PROVE EipAt(i)[1] # "ticks_inc"
    <3>1. CASE i < Len(saved)
      <4>1. i + 1 \in 1 .. Len(saved) /\ i + 1 \in 1 .. Len(saved')
        BY <1>5, <2>3, <3>1
      <4>2. EipAt(i) = saved'[i + 1].eip
        BY <2>3, <3>1, <4>1 DEF EipAt
      <4> QED
        BY <2>4, <4>1, <4>2
    <3>2. CASE ~(i < Len(saved))
      <4>1. Len(saved) + 1 \in 1 .. Len(saved')
        BY <1>5, <2>3
      <4>2. EipAt(i) = saved'[Len(saved) + 1].eip
        BY <2>1, <2>3, <3>2 DEF EipAt
      <4> QED
        BY <2>4, <4>1, <4>2
    <3> QED
      BY <3>1, <3>2
  <2> QED
    BY <2>5 DEF Loaded
<1>7. /\ v = IRQ_OFFSET + IRQ_TIMER =>
            timers' = timers + 1 /\ (~overlap' => Loaded = {})
      /\ v # IRQ_OFFSET + IRQ_TIMER => timers' = timers
  BY <1>2, <1>3, <1>6
<1> QED
  BY <1>2, <1>3, <1>4, <1>7, RememberStep

(***************************************************************************)
(* A page fault: cr2 is its address, and every fault under way is crossed. *)
(***************************************************************************)
LEMMA PageFaultStep ==
    ASSUME IInv, NEW err \in Errs, NEW a \in Addrs, PageFault(err, a) PROVE IInv'
<1>1. /\ TypeInv /\ CauseInv /\ saved \in Seq(Contexts) /\ Len(saved) \in Nat
      /\ DOMAIN saved = 1 .. Len(saved)
      /\ \A i \in 1 .. Len(saved) : saved[i] \in Contexts
  BY DEF IInv, TypeInv
<1>2. err \in Int /\ a \in Int /\ T_PGFLT \in Int /\ T_PGFLT \in ErrorCodeVectors
      /\ T_PGFLT # IRQ_OFFSET + IRQ_TIMER
  BY TrapAssumption, VectorFacts
<1>3. PICK s : s = [i \in DOMAIN saved |-> [saved[i] EXCEPT !.crossed = TRUE]]
  OBVIOUS
<1>4. /\ Enter(T_PGFLT, err) /\ cr2' = a /\ UNCHANGED <<timers, overlap>>
      /\ saved' = Append(s, Context(T_PGFLT, err, a))
  BY <1>3 DEF PageFault
<1>5. PICK x \in Contexts :
        /\ x = Context(T_PGFLT, err, a)
        /\ x.eip = eip /\ x.gpr = gpr /\ x.sp = Len(stack) /\ x.flag = FL_IF
        /\ x.v = T_PGFLT /\ x.err = err /\ x.addr = a
  BY <1>1, <1>2, ContextFacts
<1>6. ASSUME NEW i \in 1 .. Len(saved)
      PROVE  /\ s[i] \in Contexts
             /\ s[i].eip = saved[i].eip
             /\ s[i].gpr = saved[i].gpr /\ s[i].sp = saved[i].sp
             /\ s[i].v = saved[i].v /\ s[i].err = saved[i].err
             /\ s[i].flag = saved[i].flag
             /\ s[i].crossed = TRUE
  <2>1. PICK y \in Contexts : y = saved[i]
    BY <1>1
  <2>2. s[i] = [y EXCEPT !.crossed = TRUE]
    BY <1>1, <1>3, <2>1
  <2>3. PICK z : z = [y EXCEPT !.crossed = TRUE]
    OBVIOUS
  <2>4. z \in Contexts
    BY <2>3 DEF Contexts
  <2>5. z.eip = y.eip /\ z.gpr = y.gpr /\ z.sp = y.sp /\ z.v = y.v /\ z.err = y.err
    BY <2>3 DEF Contexts
  <2>6. z.flag = y.flag
    BY <2>3 DEF Contexts
  <2>7. z.crossed = TRUE
    BY <2>3 DEF Contexts
  <2> QED
    BY <2>1, <2>2, <2>3, <2>4, <2>5, <2>6, <2>7
<1>7. s \in Seq(Contexts) /\ Len(s) = Len(saved)
  <2>1. s = [i \in 1 .. Len(saved) |-> s[i]]
    BY <1>1, <1>3
  <2>2. s \in [1 .. Len(saved) -> Contexts]
    BY <1>6, <2>1
  <2> QED
    BY <1>1, <2>2
<1>8. /\ saved' \in Seq(Contexts) /\ Len(saved') = Len(saved) + 1
      /\ \A i \in 1 .. Len(saved) : saved'[i] = s[i]
      /\ saved'[Len(saved) + 1] = x
  BY <1>4, <1>5, <1>7, PushFacts
<1>9. CauseInv'
  <2>1. \A i \in 1 .. Len(saved') : i \in 1 .. Len(saved) \/ i = Len(saved) + 1
    BY <1>1, <1>8
  <2>2. ASSUME NEW i \in 1 .. Len(saved')
        PROVE  /\ saved'[i].v \notin ErrorCodeVectors => saved'[i].err = 0
               /\ saved'[i].v = T_PGFLT => cr2' = saved'[i].addr \/ saved'[i].crossed
    <3>1. CASE i \in 1 .. Len(saved)
      <4>1. saved'[i].v = saved[i].v /\ saved'[i].err = saved[i].err
        BY <1>6, <1>8, <3>1
      <4>2. saved'[i].crossed = TRUE
        BY <1>6, <1>8, <3>1
      <4>3. saved[i].v \notin ErrorCodeVectors => saved[i].err = 0
        BY <1>1, <3>1 DEF CauseInv
      <4> QED
        BY <4>1, <4>2, <4>3
    <3>2. CASE i = Len(saved) + 1
      BY <1>2, <1>4, <1>5, <1>8, <3>2
    <3> QED
      BY <2>1, <3>1, <3>2
  <2> QED
    BY <2>2 DEF CauseInv
<1>10. cr2' \in Int
  BY <1>2, <1>4
<1>11. overlap' \in BOOLEAN /\ (~overlap' => ~overlap)
  BY <1>1, <1>4 DEF TypeInv
<1>12. \A i \in 1 .. Len(saved) :
              /\ saved'[i].eip = saved[i].eip
              /\ saved'[i].gpr = saved[i].gpr /\ saved'[i].sp = saved[i].sp
              /\ saved'[i].v = saved[i].v /\ saved'[i].err = saved[i].err
              /\ saved'[i].flag = saved[i].flag
  BY <1>6, <1>8
<1> QED
  BY <1>2, <1>4, <1>5, <1>8, <1>9, <1>10, <1>11, <1>12, EnterStep

(***************************************************************************)
(* A new process finds on its stack the frame that copy_thread() made, as  *)
(* if a trap with vector 0 had interrupted its first instruction.          *)
(***************************************************************************)
LEMMA FirstRunStep ==
    ASSUME IInv, FirstRun PROVE IInv'
<1>1. TypeInv /\ StackInv /\ TickInv /\ eip[1] = "main"
  BY DEF IInv, FirstRun, At
<1>2. saved = << >> /\ Len(saved) = 0
  BY <1>1, MainFacts
<1>3. PICK start : start = <<"main", 1>>
  OBVIOUS
<1>4. PICK c \in Contexts : c = Context(0, 0, 0) /\ c.v = 0 /\ c.err = 0
  BY <1>1, ContextFacts
<1>5. PICK w1, w2, w3, w4, w6, w7, w8 :
        /\ w1 = <<"ss", 0>> /\ w2 = <<"esp", 0>> /\ w3 = <<"eflags", 1>>
        /\ w4 = <<"cs", 8>> /\ w6 = <<"err", 0>> /\ w7 = <<"trapno", 0>>
        /\ w8 = <<"regs", 0>>
  OBVIOUS
<1>6. /\ stack' = <<w1, w2, w3, w4, start, w6, w7, w8>>
      /\ saved' = <<[c EXCEPT !.eip = start, !.gpr = 0, !.flag = TRUE, !.sp = 2]>>
      /\ eip' = <<"popal", 0>> /\ FL_IF' = FALSE
      /\ UNCHANGED <<gpr, cr2, ticks, timers, overlap>>
  BY <1>3, <1>4, <1>5 DEF FirstRun, Go, Flag
<1>7. PICK x : x = [c EXCEPT !.eip = start, !.gpr = 0, !.flag = TRUE, !.sp = 2]
  OBVIOUS
<1>8. saved' = <<x>>
  BY <1>6, <1>7
<1>10. /\ start \in Word /\ w1 \in Word /\ w2 \in Word /\ w3 \in Word /\ w4 \in Word
       /\ w6 \in Word /\ w7 \in Word /\ w8 \in Word
  <2>1. /\ <<"main", 1>> \in Word /\ <<"ss", 0>> \in Word /\ <<"esp", 0>> \in Word
    BY WordFacts
  <2>2. <<"eflags", 1>> \in Word /\ <<"cs", 8>> \in Word
    BY WordFacts
  <2>3. <<"err", 0>> \in Word /\ <<"trapno", 0>> \in Word /\ <<"regs", 0>> \in Word
    BY WordFacts
  <2> QED
    BY <1>3, <1>5, <2>1, <2>2, <2>3
<1>11. x \in Contexts
  <2>1. start \in Word /\ 0 \in Int /\ TRUE \in BOOLEAN /\ 2 \in Nat
    BY <1>10
  <2> QED
    BY <1>7, <2>1 DEF Contexts
<1>12. /\ x.gpr = 0 /\ x.eip = start /\ x.sp = 2 /\ x.v = 0 /\ x.err = 0
  BY <1>4, <1>7 DEF Contexts
<1>13. x.flag = TRUE
  BY <1>7 DEF Contexts
<1>14. /\ saved' \in Seq(Contexts) /\ Len(saved') = 1 /\ saved'[1] = x
  BY <1>8, <1>11
<1>15. /\ stack' \in Seq(Word) /\ Len(stack') = 8
       /\ stack'[3] = w3 /\ stack'[5] = start /\ stack'[6] = w6
       /\ stack'[7] = w7 /\ stack'[8] = w8
  BY <1>6, <1>10
<1>16. eip' \in Word /\ eip'[1] = "popal"
  BY <1>6, WordFacts
<1>17. TypeInv'
  <2>1. FL_IF' \in BOOLEAN
    BY <1>6
  <2> QED
    BY <1>1, <1>6, <1>14, <1>15, <1>16, <2>1 DEF TypeInv
<1>18. Frame(stack', x, eip', gpr', 8)
  <2>1. Extent(x, eip', gpr', 8)
    BY <1>12, <1>16 DEF Extent
  <2>2. Contents(stack', x, 8)
    <3>1. Flag(x.flag) = 1
      BY <1>13 DEF Flag
    <3>2. w3[2] = 1 /\ w6[2] = 0 /\ w7[2] = 0 /\ w8[2] = 0
      BY <1>5
    <3>3. /\ stack'[2 + 1][2] = 1 /\ stack'[2 + 3] = x.eip
          /\ stack'[2 + 4][2] = x.err /\ stack'[2 + 5][2] = x.v
          /\ stack'[2 + 6][2] = x.gpr
      BY <1>12, <1>15, <3>2
    <3> QED
      BY <1>12, <3>1, <3>3 DEF Contents
  <2> QED
    BY <2>1, <2>2 DEF Frame
<1>19. /\ 1 .. Len(saved') = {1}
       /\ saved'[0 + 1].eip[1] = "main"
  BY <1>3, <1>12, <1>14
<1>20. StackInv'
  <2>1. EipAt(0)'[1] = "main"
    BY <1>14, <1>19 DEF EipAt
  <2>2. ASSUME NEW i \in 1 .. Len(saved')
        PROVE  Frame(stack', saved'[i], EipAt(i)', GprAt(i)', SpAt(i)')
    <3>1. i = 1 /\ ~(i < Len(saved'))
      BY <1>14
    <3>2. EipAt(i)' = eip' /\ GprAt(i)' = gpr' /\ SpAt(i)' = 8 /\ saved'[i] = x
      BY <1>14, <1>15, <3>1 DEF EipAt, GprAt, SpAt
    <3> QED
      BY <1>18, <3>2
  <2>3. \A i, j \in 1 .. Len(saved') : ~(i < j)
    BY <1>14
  <2> QED
    BY <2>1, <2>2, <2>3 DEF StackInv
<1>21. CauseInv'
  <2>1. \A i \in 1 .. Len(saved') : saved'[i] = x
    BY <1>14
  <2>2. x.v # T_PGFLT
    BY <1>12 DEF T_PGFLT
  <2> QED
    BY <1>12, <2>1, <2>2 DEF CauseInv
<1>22. TickInv'
  <2>1. Pending(Len(saved)) = {}
    BY <1>2 DEF Pending
  <2>2. \A i \in 1 .. Len(saved') : saved'[i].v # IRQ_OFFSET + IRQ_TIMER
    BY <1>12, <1>14 DEF IRQ_OFFSET, IRQ_TIMER
  <2>3. Pending(Len(saved))' = {}
    BY <2>2 DEF Pending, Timer
  <2>4. Loaded' = {}
    <3>1. \A i \in 1 .. Len(saved') : ~(i < Len(saved'))
      BY <1>14
    <3>2. \A i \in 1 .. Len(saved') : EipAt(i)'[1] # "ticks_inc"
      BY <1>16, <3>1 DEF EipAt
    <3> QED
      BY <3>2 DEF Loaded
  <2>5. Cardinality({}) = 0
    BY FS_EmptySet
  <2>6. /\ ticks + 0 <= timers
        /\ ~overlap => ticks + 0 = timers
    BY <1>1, <2>1, <2>5 DEF TickInv
  <2> QED
    BY <1>6, <2>3, <2>4, <2>5, <2>6 DEF TickInv
<1> QED
  BY <1>17, <1>20, <1>21, <1>22 DEF IInv

-----------------------------------------------------------------------------
(***************************************************************************)
(* Every step preserves the invariant.                                     *)
(***************************************************************************)
LEMMA NextIInv ==
    ASSUME IInv, [Next]_vars PROVE IInv'
<1>1. CASE pic_enable \/ intr_enable \/ Main \/ UNCHANGED vars
  BY <1>1, MainSteps
<1>2. CASE FirstRun
  BY <1>2, FirstRunStep
<1>3. CASE \E v \in Exceptions, err \in Errs \cup {0} : Exception(v, err)
  BY <1>3, ExceptionStep
<1>4. CASE \E err \in Errs, a \in Addrs : PageFault(err, a)
  BY <1>4, PageFaultStep
<1>5. CASE Syscall
  BY <1>5, SyscallStep
<1>6. CASE \E l \in Lines : Interrupt(l)
  BY <1>6, InterruptStep
<1>7. CASE Handler
  <2>1. CASE Stub
    BY <2>1, StubStep
  <2>2. CASE Pushal \/ PushlEsp \/ Call
    BY <2>2, EntrySteps
  <2>3. CASE Dispatch
    BY <2>3, DispatchStep
  <2>4. CASE irq_timer \/ irq_kbd \/ pg_fault
    BY <2>4, WorkSteps
  <2>5. CASE Return \/ PoplEsp \/ Popal \/ Addl
    BY <2>5, ExitSteps
  <2>6. CASE Iret
    BY <2>6, IretStep
  <2> QED
    BY <1>7, <2>1, <2>2, <2>3, <2>4, <2>5, <2>6 DEF Handler
<1> QED
  BY <1>1, <1>2, <1>3, <1>4, <1>5, <1>6, <1>7 DEF Next

(***************************************************************************)
(* The invariant holds in every reachable state.                           *)
(***************************************************************************)
THEOREM Invariance == Spec => []IInv
<1>1. IInv /\ [Next]_vars => IInv'
  BY NextIInv
<1> QED
  BY InitIInv, <1>1, PTL DEF Spec

(***************************************************************************)
(* However deep traps nest and whichever vector is taken, trap() finds in  *)
(* its frame the number, the error code and the place of its own trap, and *)
(* pg_fault() its own address unless another fault came in between.        *)
(***************************************************************************)
THEOREM HandlerSeesCauseAlways == Spec => []HandlerSeesCause
<1>1. IInv => HandlerSeesCause
  <2> SUFFICES ASSUME IInv PROVE HandlerSeesCause
    OBVIOUS
  <2>1. ASSUME eip[1] = "trap"
        PROVE  /\ tf_trapno = Last(saved).v /\ tf_err = Last(saved).err
               /\ tf_eip = Last(saved).eip
    BY <2>1, FrameFound
  <2>2. ASSUME eip[1] = "pg_fault"
        PROVE  cr2 = Last(saved).addr \/ Last(saved).crossed
    <3>1. TypeInv /\ StackInv /\ CauseInv
      BY DEF IInv
    <3>2. PICK x \in Contexts :
            /\ Len(saved) \in Nat /\ Len(saved) > 0
            /\ x = saved[Len(saved)] /\ x = Last(saved)
            /\ Extent(x, eip, gpr, Len(stack))
      BY <2>2, <3>1, TopFacts DEF Frame
    <3>3. x.v = T_PGFLT
      BY <2>2, <3>2 DEF Extent
    <3>4. Len(saved) \in 1 .. Len(saved)
      BY <3>2
    <3> QED
      BY <3>1, <3>2, <3>3, <3>4 DEF CauseInv
  <2> QED
    BY <2>1, <2>2 DEF HandlerSeesCause, At
<1> QED
  BY <1>1, Invariance, PTL

(***************************************************************************)
(* No timer interrupt is counted twice in ticks, and once no handler is    *)
(* under way none is missing unless two overlapped.                        *)
(***************************************************************************)
THEOREM TicksExactAlways == Spec => []TicksExact
<1>1. IInv => TicksExact
  <2> SUFFICES ASSUME IInv PROVE TicksExact
    OBVIOUS
  <2>1. TickInv /\ Len(saved) \in Nat /\ ticks \in Int /\ timers \in Int
    BY DEF IInv, TypeInv
  <2>2. PICK n, P : n = Len(saved) /\ P = Pending(n)
    OBVIOUS
  <2>3. P \in SUBSET (1 .. n) /\ n \in Nat
    BY <2>1, <2>2 DEF Pending
  <2>4. Cardinality(P) \in Nat
    BY <2>3, LevelsFinite
  <2>5. ticks <= timers
    BY <2>1, <2>2, <2>4 DEF TickInv
  <2>6. ASSUME saved = << >>, ~overlap PROVE ticks = timers
    <3>1. n = 0 /\ P = {}
      BY <2>2, <2>3, <2>6
    <3>2. Cardinality(P) = 0
      BY <3>1, FS_EmptySet
    <3> QED
      BY <2>1, <2>2, <2>6, <3>2 DEF TickInv
  <2> QED
    BY <2>5, <2>6 DEF TicksExact
<1> QED
  BY <1>1, Invariance, PTL

(***************************************************************************)
(* A step that ends a trap gives the code that it interrupted its          *)
(* instruction, registers, interrupt flag and stack back; and so does the  *)
(* first step of a new process out of forkret.                             *)
(***************************************************************************)
THEOREM ContextAlwaysRestored == Spec => ContextRestored
<1>1. ASSUME IInv, [Next]_vars
      PROVE  [Len(saved') < Len(saved) =>
                LET x == Last(saved) IN /\ eip' = x.eip /\ gpr' = x.gpr
                                        /\ FL_IF' = x.flag
                                        /\ Len(stack') = x.sp]_vars
  <2>1. TypeInv /\ StackInv /\ Len(saved) \in Nat /\ saved \in Seq(Contexts)
        /\ DOMAIN saved = 1 .. Len(saved)
    BY <1>1 DEF IInv, TypeInv
  <2>2. CASE Iret
    <3>1. PICK x \in Contexts :
            /\ x = Last(saved)
            /\ eip' = x.eip /\ gpr' = x.gpr /\ FL_IF' = x.flag /\ Len(stack') = x.sp
      BY <1>1, <2>2, IretFacts
    <3> QED
      BY <3>1
  <2>3. CASE UNCHANGED saved
    BY <2>1, <2>3
  <2>4. CASE FirstRun
    <3>1. Len(saved) = 0 /\ \E y : saved' = <<y>>
      BY <2>4 DEF FirstRun
    <3> QED
      BY <3>1
  <2>5. CASE \E v, err : Remember(v, err)
    <3>1. Len(saved') = Len(saved) + 1
      BY <2>1, <2>5 DEF Remember
    <3> QED
      BY <2>1, <3>1
  <2>6. CASE \E err, a : PageFault(err, a)
    <3>1. PICK s : s = [i \in DOMAIN saved |-> [saved[i] EXCEPT !.crossed = TRUE]]
      OBVIOUS
    <3>2. s = [i \in 1 .. Len(saved) |-> s[i]]
      BY <2>1, <3>1
    <3>3. PICK S : S = {s[i] : i \in 1 .. Len(saved)}
      OBVIOUS
    <3>4. PICK y : saved' = Append(s, y)
      BY <2>6, <3>1 DEF PageFault
    <3>5. Len(saved') = Len(saved) + 1
      <4>1. PICK S2 : S2 = S \cup {y}
        OBVIOUS
      <4>2. s \in [1 .. Len(saved) -> S2]
        BY <3>2, <3>3, <4>1
      <4>3. s \in Seq(S2) /\ Len(s) = Len(saved) /\ y \in S2
        BY <2>1, <4>1, <4>2
      <4> QED
        BY <3>4, <4>3
    <3> QED
      BY <2>1, <3>5
  <2>7. CASE UNCHANGED vars
    BY <2>7
  <2>8. Next => \/ Iret \/ UNCHANGED saved \/ FirstRun
                \/ \E v, err : Remember(v, err)
                \/ \E err, a : PageFault(err, a)
    BY DEF Next, pic_enable, intr_enable, Main, Exception, Syscall, Interrupt,
           Handler, Stub, Pushal, PushlEsp, Call, Dispatch, irq_timer, irq_kbd,
           pg_fault, Return, PoplEsp, Popal, Addl, ghosts
  <2> QED
    BY <1>1, <2>2, <2>3, <2>4, <2>5, <2>6, <2>7, <2>8
<1> QED
  BY <1>1, Invariance, PTL DEF Spec, ContextRestored

=============================================================================

----------------------------- MODULE DiskProofs ------------------------------
(***************************************************************************)
(* Proofs about the disk driver, for any number of drives, sectors and     *)
(* data, and drives that answer late, fail or never answer.  All but the   *)
(* types are about calls that do not nest, MaxNest = 1: a call from the    *)
(* keyboard interrupt that comes in the middle of another breaks what they *)
(* state.                                                                  *)
(***************************************************************************)
EXTENDS Disk, FiniteSetTheorems, SequenceTheorems, TLAPS

-----------------------------------------------------------------------------
(***************************************************************************)
(* The inductive invariant.                                                *)
(***************************************************************************)
Cells == Data \cup {Old}

Cmds == [op : Ops \cup {"identify", Null}, lba : Sectors, data : Data \cup {Null}]

Calls == [op : Ops, dev : Drives, secno : Sectors, buf : Seq(Cells \cup {Null}),
          i : Nat, pc : Places]

BootType ==
    /\ fitted \subseteq Drives /\ present \subseteq fitted /\ probe \in 0 .. NDrives
    /\ registered = Null \/ registered \subseteq present

HwType ==
    /\ sel \in [Chans -> Drives] /\ \A c \in Chans : Chan(sel[c]) = c
    /\ reg \in [Chans -> Sectors]
    /\ status \in [Drives -> Statuses]
    /\ cmd \in [Drives -> Cmds]
    /\ media \in [Drives -> [Sectors -> Cells]]
    /\ failed \subseteq Drives \X Sectors

TypeInv ==
    /\ BootType /\ HwType
    /\ stack \in Seq(Calls) /\ Len(stack) <= 1
    /\ ret \in {0, -1}
    /\ asked \subseteq Drives \X Sectors \X Data

(***************************************************************************)
(* BootInv: no call before blk_init(), and until then no drive that was    *)
(* found or is yet to be asked is busy, and none has data.                 *)
(***************************************************************************)
BootInv ==
    /\ registered # Null => probe = NDrives
    /\ registered = Null => /\ stack = <<>>
                            /\ \A d \in present : status[d] # "busy"
                            /\ \A d \in Drives : cmd[d].data = Null
                            /\ \A d \in Drives :
                                  d >= probe => d \notin present /\ status[d] # "busy"

(***************************************************************************)
(* DriveInv: a drive that has data is storing them, and was asked to store *)
(* them where it does, by this call or by one that gave up; and a drive    *)
(* that is busy is the selected one of its channel, unless hd_init() gave  *)
(* up on it.                                                               *)
(***************************************************************************)
DriveInv ==
    \A d \in Drives :
        /\ cmd[d].data # Null => status[d] = "busy" /\ cmd[d].op = "write"
        /\ cmd[d].data # Null => <<d, cmd[d].lba, cmd[d].data>> \in asked
        /\ d \in present /\ sel[Chan(d)] # d => status[d] # "busy"

(***************************************************************************)
(* What the call t may rely on: its sectors exist, those of a write were   *)
(* asked for, and its data are data.                                       *)
(***************************************************************************)
LbaOf(t, j) == t.secno + j - 1

CallInv(t) ==
    /\ t.dev \in present
    /\ t.i \in 1 .. Len(t.buf) /\ t.secno + Len(t.buf) <= NSectors
    /\ t.op = "write" => \A j \in 1 .. Len(t.buf) :
            /\ t.buf[j] \in Data
            /\ <<t.dev, LbaOf(t, j), t.buf[j]>> \in asked

(***************************************************************************)
(* Where the call and its drive stand to each other.                       *)
(***************************************************************************)
Commanded(t) ==
    /\ cmd[t.dev].op = t.op /\ cmd[t.dev].lba = LbaOf(t, t.i)

Stored(t, j) ==
    \/ media[t.dev][LbaOf(t, j)] = t.buf[j]
    \/ t.op = "write" /\ <<t.dev, LbaOf(t, j)>> \in failed

PhaseInv(t) ==
    /\ t.pc = "ready" /\ t.i > 1 => status[t.dev] # "busy"
    /\ t.pc \in {"lba", "select"} => status[sel[Chan(t.dev)]] # "busy"
    /\ t.pc \in {"select", "command"} => reg[Chan(t.dev)] = LbaOf(t, t.i)
    /\ t.pc \in {"command", "wait", "transfer", "complete", "next"} =>
          sel[Chan(t.dev)] = t.dev
    /\ t.pc \in {"command", "next"} => status[t.dev] # "busy"
    /\ t.pc \in {"wait", "transfer"} => Commanded(t) /\ cmd[t.dev].data = Null
    /\ t.pc = "transfer" => status[t.dev] = "drq"
    /\ t.pc = "complete" =>
          /\ t.op = "write"
          /\ \/ status[t.dev] # "busy" /\ Stored(t, t.i)
             \/ status[t.dev] = "busy" /\ Commanded(t) /\ cmd[t.dev].data = t.buf[t.i]

(***************************************************************************)
(* DoneInv: the sectors behind the call are where they should be.          *)
(***************************************************************************)
Behind(t, j) == j < t.i \/ (j = t.i /\ t.pc = "next")

DoneInv(t) == \A j \in 1 .. Len(t.buf) : Behind(t, j) => Stored(t, j)

TopInv == stack # <<>> => CallInv(Top) /\ PhaseInv(Top) /\ DoneInv(Top)

IInv == TypeInv /\ BootInv /\ DriveInv /\ TopInv

-----------------------------------------------------------------------------
(***************************************************************************)
(* A drive has a channel, and the first drive of a channel is on it.       *)
(***************************************************************************)
LEMMA ChanFacts ==
    /\ \A d \in Drives : Chan(d) \in Chans
    /\ \A c \in Chans : 2 * c \in Drives /\ Chan(2 * c) = c
<1>1. \A d \in Drives : Chan(d) \in Chans
  BY DEF Chans
<1>2. ASSUME NEW d \in Drives
      PROVE  2 * Chan(d) \in Drives /\ Chan(2 * Chan(d)) = Chan(d)
  BY DiskAssumption DEF Drives, Chan
<1> QED
  BY <1>1, <1>2 DEF Chans

(***************************************************************************)
(* What a record of type Calls is made of.                                 *)
(***************************************************************************)
LEMMA CallFields ==
    ASSUME NEW t \in Calls
    PROVE  /\ t.op \in Ops /\ t.dev \in Drives /\ t.secno \in Nat /\ t.i \in Nat
           /\ t.pc \in Places /\ t.buf \in Seq(Cells \cup {Null}) /\ Len(t.buf) \in Nat
           /\ Chan(t.dev) \in Chans
<1>1. /\ t.op \in Ops /\ t.dev \in Drives /\ t.secno \in Sectors /\ t.i \in Nat
      /\ t.pc \in Places /\ t.buf \in Seq(Cells \cup {Null})
  BY DEF Calls
<1>2. t.secno \in Nat
  BY <1>1 DEF Sectors
<1>3. Len(t.buf) \in Nat
  BY <1>1
<1> QED
  BY <1>1, <1>2, <1>3, ChanFacts

(***************************************************************************)
(* The sectors of a call exist and are all different.                      *)
(***************************************************************************)
LEMMA LbaFacts ==
    ASSUME NEW t \in Calls, CallInv(t)
    PROVE  /\ t.i \in 1 .. Len(t.buf)
           /\ \A j \in 1 .. Len(t.buf) : LbaOf(t, j) \in Sectors
           /\ \A j, k \in 1 .. Len(t.buf) : j # k => LbaOf(t, j) # LbaOf(t, k)
<1>1. PICK s, n : s = t.secno /\ n = Len(t.buf)
  OBVIOUS
<1>2. s \in Nat /\ n \in Nat
  BY <1>1, CallFields
<1>3. t.i \in 1 .. n /\ s + n <= NSectors
  BY <1>1 DEF CallInv
<1>4. /\ \A j \in 1 .. n : s + j - 1 \in Sectors
      /\ \A j, k \in 1 .. n : j # k => s + j - 1 # s + k - 1
  BY <1>2, <1>3, DiskAssumption DEF Sectors
<1> QED
  BY <1>1, <1>3, <1>4 DEF LbaOf

(***************************************************************************)
(* The call that runs, if there is one, is the only one.                   *)
(***************************************************************************)
LEMMA TopFacts ==
    ASSUME IInv, stack # << >>
    PROVE  \E t \in Calls :
           /\ t = Top /\ Len(stack) = 1
           /\ CallInv(t) /\ PhaseInv(t) /\ DoneInv(t)
           /\ registered # Null
<1>1. stack \in Seq(Calls) /\ Len(stack) <= 1 /\ Len(stack) \in Nat
  BY DEF IInv, TypeInv
<1>2. Len(stack) = 1
  <2>1. Len(stack) = 0 => stack = << >>
    BY <1>1
  <2>2. Len(stack) # 0
    BY <2>1, Zenon
  <2>3. \A n \in Nat : n <= 1 /\ n # 0 => n = 1
    OBVIOUS
  <2> QED
    BY <1>1, <2>2, <2>3, Zenon
<1>3. Top \in Calls
  BY <1>1, <1>2 DEF Top
<1>4. registered # Null
  BY DEF IInv, BootInv
<1> QED
  BY <1>2, <1>3, <1>4 DEF IInv, TopInv

(***************************************************************************)
(* The running call becomes another one.                                   *)
(***************************************************************************)
LEMMA SetTopFacts ==
    ASSUME IInv, stack # << >>, NEW c \in Calls, SetTop(c)
    PROVE  stack' \in Seq(Calls) /\ Len(stack') = 1 /\ stack' # << >> /\ Top' = c
<1>1. stack \in Seq(Calls) /\ Len(stack) = 1
  BY TopFacts DEF IInv, TypeInv
<1>2. stack' = [stack EXCEPT ![1] = c]
  BY <1>1 DEF SetTop
<1>3. stack' \in Seq(Calls) /\ Len(stack') = 1 /\ stack'[1] = c
  <2>1. 1 \in 1 .. Len(stack)
    BY <1>1
  <2> QED
    BY <1>1, <1>2, <2>1, ExceptSeq
<1>4. stack' # << >>
  <2>1. Len(<< >>) = 0 /\ 0 # 1
    OBVIOUS
  <2> QED
    BY <1>3, <2>1, Zenon
<1> QED
  BY <1>3, <1>4 DEF Top

(***************************************************************************)
(* It ends.                                                                *)
(***************************************************************************)
LEMMA ReturnFacts ==
    ASSUME IInv, stack # << >>, NEW r, Return(r)
    PROVE  stack' = << >> /\ stack' \in Seq(Calls) /\ Len(stack') <= 1 /\ ret' = r
<1>1. stack \in Seq(Calls) /\ Len(stack) = 1
  BY TopFacts DEF IInv, TypeInv
<1>2. stack' = SubSeq(stack, 1, 0) /\ ret' = r
  BY <1>1 DEF Return, Front
<1>3. stack' = << >>
  BY <1>1, <1>2
<1> QED
  BY <1>2, <1>3

(***************************************************************************)
(* The record of a call that moves on to another place.                    *)
(***************************************************************************)
LEMMA AdvanceFacts ==
    ASSUME IInv, stack # << >>, NEW pc \in Places, Advance(pc),
           NEW t \in Calls, t = Top
    PROVE  \E u \in Calls :
           /\ Top' = u /\ stack' \in Seq(Calls) /\ Len(stack') = 1 /\ stack' # << >>
           /\ u.op = t.op /\ u.dev = t.dev /\ u.secno = t.secno /\ u.buf = t.buf
           /\ u.i = t.i /\ u.pc = pc
<1>1. PICK u : u = [t EXCEPT !.pc = pc]
  OBVIOUS
<1>2. u \in Calls
  BY <1>1 DEF Calls
<1>3. /\ u.op = t.op /\ u.dev = t.dev /\ u.secno = t.secno /\ u.buf = t.buf
      /\ u.i = t.i /\ u.pc = pc
  BY <1>1 DEF Calls
<1>4. SetTop(u)
  BY <1>1 DEF Advance
<1> QED
  BY <1>2, <1>3, <1>4, SetTopFacts

-----------------------------------------------------------------------------
(***************************************************************************)
(* A step of a call keeps the invariant when the drives keep theirs and    *)
(* the call, at its new place, has what it relies on.                      *)
(***************************************************************************)
LEMMA Conclude ==
    ASSUME IInv, stack # << >>, UNCHANGED <<boot, asked, ret>>, HwType', DriveInv',
           NEW t \in Calls, t = Top, NEW u \in Calls, u = Top',
           stack' \in Seq(Calls), Len(stack') = 1,
           u.op = t.op, u.dev = t.dev, u.secno = t.secno,
           Len(u.buf) = Len(t.buf), t.op = "write" => u.buf = t.buf,
           u.i \in 1 .. Len(t.buf),
           PhaseInv(u)', DoneInv(u)'
    PROVE  IInv'
<1>1. CallInv(t) /\ registered # Null
  BY TopFacts
<1>2. TypeInv /\ BootInv
  BY DEF IInv
<1>3. UNCHANGED <<fitted, probe, present, registered, asked>>
  BY DEF boot
<1>4. TypeInv'
  BY <1>2, <1>3 DEF TypeInv, BootType
<1>5. BootInv'
  BY <1>1, <1>2, <1>3 DEF BootInv
<1>6. CallInv(u)'
  BY <1>1, <1>3 DEF CallInv, LbaOf
<1> QED
  BY <1>4, <1>5, <1>6 DEF IInv, TopInv

(***************************************************************************)
(* The drives do not notice what the processor only reads.                 *)
(***************************************************************************)
LEMMA HwSame ==
    ASSUME IInv, UNCHANGED <<boot, hw, ghosts>>
    PROVE  HwType' /\ DriveInv'
<1>1. /\ UNCHANGED <<sel, reg, status, cmd, media, present, asked, failed>>
      /\ HwType /\ DriveInv
  BY DEF hw, ghosts, boot, IInv, TypeInv
<1> QED
  BY <1>1 DEF HwType, DriveInv

(***************************************************************************)
(* What is behind a call stays there.                                      *)
(***************************************************************************)
LEMMA DoneSame ==
    ASSUME NEW t \in Calls, NEW u \in Calls, DoneInv(t),
           u.op = t.op, u.dev = t.dev, u.secno = t.secno, u.buf = t.buf,
           UNCHANGED <<media, failed>>,
           \A j \in 1 .. Len(t.buf) :
              Behind(u, j) => Behind(t, j) \/ (j = t.i /\ Stored(t, t.i))
    PROVE  DoneInv(u)'
<1>1. ASSUME NEW j \in 1 .. Len(u.buf), Behind(u, j) PROVE Stored(u, j)'
  <2>1. Stored(t, j)
    BY <1>1 DEF DoneInv
  <2> QED
    BY <2>1 DEF Stored, LbaOf
<1>2. \A j : Behind(u, j)' <=> Behind(u, j)
  BY DEF Behind
<1> QED
  BY <1>1, <1>2 DEF DoneInv

(***************************************************************************)
(* A call ends.                                                            *)
(***************************************************************************)
LEMMA ReturnStep ==
    ASSUME IInv, stack # << >>, NEW r \in {0, -1}, Return(r),
           UNCHANGED <<boot, hw, ghosts>>
    PROVE  IInv'
<1>1. stack' = << >> /\ stack' \in Seq(Calls) /\ Len(stack') <= 1 /\ ret' = r
  BY ReturnFacts
<1>2. HwType' /\ DriveInv'
  BY HwSame
<1>3. TypeInv /\ BootInv /\ registered # Null
  BY TopFacts DEF IInv
<1>4. UNCHANGED <<fitted, probe, present, registered, asked>>
  BY DEF boot, ghosts
<1>5. TypeInv'
  BY <1>1, <1>2, <1>3, <1>4 DEF TypeInv, BootType
<1>6. BootInv'
  BY <1>3, <1>4 DEF BootInv
<1> QED
  BY <1>1, <1>2, <1>5, <1>6 DEF IInv, TopInv

(***************************************************************************)
(* The end of an iteration.                                                *)
(***************************************************************************)
LEMMA NextSectorStep ==
    ASSUME IInv, NextSector PROVE IInv'
<1>1. stack # << >> /\ Top.pc = "next" /\ UNCHANGED <<boot, hw, ghosts>>
  BY DEF NextSector, Running
<1>2. PICK t \in Calls : /\ t = Top /\ CallInv(t) /\ PhaseInv(t) /\ DoneInv(t)
  BY <1>1, TopFacts
<1>3. t.i \in Nat /\ Len(t.buf) \in Nat /\ t.i \in 1 .. Len(t.buf)
  BY <1>2, CallFields, LbaFacts
<1>4. CASE t.i < Len(t.buf)
  <2>1. PICK u : u = [t EXCEPT !.i = t.i + 1, !.pc = "ready"]
    OBVIOUS
  <2>2. SetTop(u) /\ UNCHANGED ret
    BY <1>2, <1>4, <2>1 DEF NextSector
  <2>3. u \in Calls
    <3>1. t.i + 1 \in Nat /\ "ready" \in Places
      BY <1>3 DEF Places
    <3> QED
      BY <2>1, <3>1 DEF Calls
  <2>4. /\ u.op = t.op /\ u.dev = t.dev /\ u.secno = t.secno /\ u.buf = t.buf
        /\ u.i = t.i + 1 /\ u.pc = "ready"
    BY <2>1 DEF Calls
  <2>5. stack' \in Seq(Calls) /\ Len(stack') = 1 /\ Top' = u
    BY <1>1, <2>2, <2>3, SetTopFacts
  <2>6. u.i \in 1 .. Len(t.buf)
    BY <1>3, <1>4, <2>4
  <2>7. PhaseInv(u)'
    <3>1. status[t.dev] # "busy" /\ UNCHANGED status
      BY <1>1, <1>2 DEF PhaseInv, hw
    <3> QED
      BY <2>4, <3>1 DEF PhaseInv
  <2>8. DoneInv(u)'
    <3>1. \A j \in 1 .. Len(t.buf) : Behind(u, j) => Behind(t, j)
      <4>1. \A j \in 1 .. Len(t.buf) : j < t.i + 1 => j < t.i \/ j = t.i
        BY <1>3
      <4> QED
        BY <1>1, <1>2, <2>4, <4>1 DEF Behind
    <3>2. UNCHANGED <<media, failed>>
      BY <1>1 DEF hw, ghosts
    <3> QED
      BY <1>2, <2>3, <2>4, <3>1, <3>2, DoneSame
  <2>9. HwType' /\ DriveInv' /\ UNCHANGED <<boot, asked, ret>>
    BY <1>1, <2>2, HwSame DEF ghosts
  <2> QED
    BY <1>1, <1>2, <2>3, <2>4, <2>5, <2>6, <2>7, <2>8, <2>9, Conclude
<1>5. CASE ~(t.i < Len(t.buf))
  <2>1. Return(0)
    BY <1>2, <1>5 DEF NextSector
  <2> QED
    BY <1>1, <2>1, ReturnStep
<1> QED
  BY <1>4, <1>5

(***************************************************************************)
(* A step that moves the call on and touches no register.                  *)
(***************************************************************************)
LEMMA AdvanceStep ==
    ASSUME IInv, stack # << >>, NEW pc \in Places, Advance(pc),
           UNCHANGED <<boot, hw, ghosts, ret>>,
           NEW t \in Calls, t = Top,
           pc = "next" => Stored(t, t.i),
           \A u \in Calls :
              /\ u.op = t.op /\ u.dev = t.dev /\ u.secno = t.secno /\ u.buf = t.buf
              /\ u.i = t.i /\ u.pc = pc
              => PhaseInv(u)'
    PROVE  IInv'
<1>1. PICK u \in Calls :
        /\ Top' = u /\ stack' \in Seq(Calls) /\ Len(stack') = 1
        /\ u.op = t.op /\ u.dev = t.dev /\ u.secno = t.secno /\ u.buf = t.buf
        /\ u.i = t.i /\ u.pc = pc
  BY AdvanceFacts
<1>2. CallInv(t) /\ DoneInv(t) /\ t.i \in 1 .. Len(t.buf)
  BY TopFacts, LbaFacts
<1>3. DoneInv(u)'
  <2>1. UNCHANGED <<media, failed>>
    BY DEF hw, ghosts
  <2>2. \A j \in 1 .. Len(t.buf) :
           Behind(u, j) => Behind(t, j) \/ (j = t.i /\ Stored(t, t.i))
    BY <1>1 DEF Behind
  <2> QED
    BY <1>1, <1>2, <2>1, <2>2, DoneSame
<1>4. PhaseInv(u)'
  BY <1>1
<1>5. HwType' /\ DriveInv' /\ UNCHANGED <<boot, asked, ret>>
  BY HwSame DEF ghosts
<1> QED
  BY <1>1, <1>2, <1>3, <1>4, <1>5, Conclude

(***************************************************************************)
(* The polls: each leaves the loop with a fact about the selected drive.   *)
(***************************************************************************)
LEMMA WaitSteps ==
    ASSUME IInv, WaitReady \/ WaitComplete \/ WaitData PROVE IInv'
<1>1. stack # << >> /\ UNCHANGED <<boot, hw, ghosts, ret>>
  BY DEF WaitReady, WaitComplete, WaitData, Running
<1>2. PICK t \in Calls : t = Top /\ CallInv(t) /\ PhaseInv(t) /\ DoneInv(t)
  BY <1>1, TopFacts
<1>3. Selected = sel[Chan(t.dev)] /\ UNCHANGED <<sel, reg, status, cmd, media>>
  BY <1>1, <1>2 DEF Selected, C, hw
<1>4. {"lba", "next", "transfer"} \subseteq Places
  BY DEF Places
<1>5. CASE WaitReady
  <2>1. t.pc = "ready" /\ Advance("lba") /\ status[sel[Chan(t.dev)]] # "busy"
    BY <1>2, <1>3, <1>5 DEF WaitReady, Running, NotReady
  <2>2. \A u \in Calls : u.dev = t.dev /\ u.pc = "lba" => PhaseInv(u)'
    BY <1>3, <2>1 DEF PhaseInv
  <2> QED
    BY <1>1, <1>2, <1>4, <2>1, <2>2, AdvanceStep
<1>6. CASE WaitComplete
  <2>1. t.pc = "complete" /\ Advance("next") /\ status[sel[Chan(t.dev)]] # "busy"
    BY <1>2, <1>3, <1>6 DEF WaitComplete, Running, NotReady
  <2>2. sel[Chan(t.dev)] = t.dev
    BY <1>2, <2>1 DEF PhaseInv
  <2>3. Stored(t, t.i)
    BY <1>2, <2>1, <2>2 DEF PhaseInv
  <2>4. \A u \in Calls : u.dev = t.dev /\ u.pc = "next" => PhaseInv(u)'
    BY <1>3, <2>1, <2>2 DEF PhaseInv
  <2> QED
    BY <1>1, <1>2, <1>4, <2>1, <2>3, <2>4, AdvanceStep
<1>7. CASE WaitData
  <2>1. t.pc = "wait" /\ Advance("transfer") /\ status[sel[Chan(t.dev)]] = "drq"
    BY <1>2, <1>3, <1>7 DEF WaitData, Running
  <2>2. /\ sel[Chan(t.dev)] = t.dev /\ Commanded(t) /\ cmd[t.dev].data = Null
    BY <1>2, <2>1 DEF PhaseInv
  <2>3. ASSUME NEW u \in Calls, u.op = t.op, u.dev = t.dev, u.secno = t.secno,
               u.i = t.i, u.pc = "transfer"
        PROVE  PhaseInv(u)'
    <3>1. Commanded(u)'
      BY <1>3, <2>2, <2>3 DEF Commanded, LbaOf
    <3> QED
      BY <1>3, <2>1, <2>2, <2>3, <3>1 DEF PhaseInv
  <2> QED
    BY <1>1, <1>2, <1>4, <2>1, <2>3, AdvanceStep
<1> QED
  BY <1>5, <1>6, <1>7

(***************************************************************************)
(* The timeouts.                                                           *)
(***************************************************************************)
LEMMA TimeoutSteps ==
    ASSUME IInv, ReadyTimeout \/ WaitDataFails PROVE IInv'
<1>1. stack # << >> /\ Return(-1) /\ UNCHANGED <<boot, hw, ghosts>>
  BY DEF ReadyTimeout, WaitDataFails, Running
<1>2. -1 \in {0, -1}
  OBVIOUS
<1> QED
  BY <1>1, <1>2, ReturnStep

(***************************************************************************)
(* The LBA registers.                                                      *)
(***************************************************************************)
LEMMA SetLbaStep ==
    ASSUME IInv, SetLba PROVE IInv'
<1>1. /\ stack # << >> /\ Advance("select")
      /\ UNCHANGED <<boot, sel, status, cmd, media, ret, ghosts>>
  BY DEF SetLba, Running
<1>2. PICK t \in Calls : t = Top /\ CallInv(t) /\ PhaseInv(t) /\ DoneInv(t)
  BY <1>1, TopFacts
<1>3. /\ t.pc = "lba"
      /\ reg' = [reg EXCEPT ![Chan(t.dev)] = LbaOf(t, t.i)]
  BY <1>2 DEF SetLba, Running, C, Lba, LbaOf
<1>4. /\ HwType /\ DriveInv
      /\ Chan(t.dev) \in Chans /\ t.i \in 1 .. Len(t.buf) /\ LbaOf(t, t.i) \in Sectors
  BY <1>2, CallFields, LbaFacts DEF IInv, TypeInv
<1>5. reg' \in [Chans -> Sectors] /\ reg'[Chan(t.dev)] = LbaOf(t, t.i)
  BY <1>3, <1>4 DEF HwType
<1>6. UNCHANGED <<present, asked, failed>>
  BY <1>1 DEF boot, ghosts
<1>7. HwType' /\ DriveInv'
  BY <1>1, <1>4, <1>5, <1>6 DEF HwType, DriveInv
<1>8. "select" \in Places
  BY DEF Places
<1>9. PICK u \in Calls :
        /\ Top' = u /\ stack' \in Seq(Calls) /\ Len(stack') = 1
        /\ u.op = t.op /\ u.dev = t.dev /\ u.secno = t.secno /\ u.buf = t.buf
        /\ u.i = t.i /\ u.pc = "select"
  BY <1>1, <1>2, <1>8, AdvanceFacts
<1>10. DoneInv(u)'
  <2>1. \A j \in 1 .. Len(t.buf) : Behind(u, j) => Behind(t, j)
    BY <1>9 DEF Behind
  <2> QED
    BY <1>1, <1>2, <1>6, <1>9, <2>1, DoneSame
<1>11. PhaseInv(u)'
  <2>1. status[sel[Chan(t.dev)]] # "busy"
    BY <1>2, <1>3 DEF PhaseInv
  <2>2. LbaOf(u, u.i) = LbaOf(t, t.i)
    BY <1>9 DEF LbaOf
  <2> QED
    BY <1>1, <1>5, <1>9, <2>1, <2>2 DEF PhaseInv
<1> QED
  BY <1>1, <1>2, <1>4, <1>6, <1>7, <1>9, <1>10, <1>11, Conclude

(***************************************************************************)
(* Another drive of the channel is selected: the one selected so far is    *)
(* not busy, and neither is the new one.                                   *)
(***************************************************************************)
LEMMA SelectDriveStep ==
    ASSUME IInv, SelectDrive PROVE IInv'
<1>1. /\ stack # << >> /\ Advance("command")
      /\ UNCHANGED <<boot, reg, status, cmd, media, ret, ghosts>>
  BY DEF SelectDrive, Running
<1>2. PICK t \in Calls : t = Top /\ CallInv(t) /\ PhaseInv(t) /\ DoneInv(t)
  BY <1>1, TopFacts
<1>3. t.pc = "select" /\ sel' = [sel EXCEPT ![Chan(t.dev)] = t.dev]
  BY <1>2 DEF SelectDrive, Running, C
<1>4. /\ HwType /\ DriveInv /\ t.dev \in Drives /\ t.dev \in present
      /\ Chan(t.dev) \in Chans /\ t.i \in 1 .. Len(t.buf)
      /\ \A d \in Drives : Chan(d) \in Chans
  BY <1>2, CallFields, LbaFacts, ChanFacts DEF IInv, TypeInv, CallInv
<1>5. /\ sel' \in [Chans -> Drives] /\ sel'[Chan(t.dev)] = t.dev
      /\ \A c \in Chans : c # Chan(t.dev) => sel'[c] = sel[c]
      /\ \A c \in Chans : Chan(sel'[c]) = c
  BY <1>3, <1>4 DEF HwType
<1>6. UNCHANGED <<present, asked, failed>>
  BY <1>1 DEF boot, ghosts
<1>7. status[sel[Chan(t.dev)]] # "busy" /\ reg[Chan(t.dev)] = LbaOf(t, t.i)
  BY <1>2, <1>3 DEF PhaseInv
<1>8. status[t.dev] # "busy"
  BY <1>4, <1>7 DEF DriveInv
<1>9. HwType'
  BY <1>1, <1>4, <1>5, <1>6 DEF HwType
<1>10. DriveInv'
  <2>1. ASSUME NEW d \in Drives, d \in present, sel'[Chan(d)] # d
        PROVE  status[d] # "busy"
    <3>1. CASE Chan(d) = Chan(t.dev) /\ sel[Chan(d)] = d
      BY <1>7, <3>1
    <3>2. CASE sel[Chan(d)] # d
      BY <1>4, <2>1, <3>2 DEF DriveInv
    <3>3. CASE Chan(d) # Chan(t.dev)
      BY <1>4, <1>5, <2>1, <3>2, <3>3
    <3> QED
      BY <3>1, <3>2, <3>3
  <2> QED
    BY <1>1, <1>4, <1>6, <2>1 DEF DriveInv
<1>11. "command" \in Places
  BY DEF Places
<1>12. PICK u \in Calls :
        /\ Top' = u /\ stack' \in Seq(Calls) /\ Len(stack') = 1
        /\ u.op = t.op /\ u.dev = t.dev /\ u.secno = t.secno /\ u.buf = t.buf
        /\ u.i = t.i /\ u.pc = "command"
  BY <1>1, <1>2, <1>11, AdvanceFacts
<1>13. DoneInv(u)'
  <2>1. \A j \in 1 .. Len(t.buf) : Behind(u, j) => Behind(t, j)
    BY <1>12 DEF Behind
  <2> QED
    BY <1>1, <1>2, <1>6, <1>12, <2>1, DoneSame
<1>14. PhaseInv(u)'
  <2>1. LbaOf(u, u.i) = LbaOf(t, t.i)
    BY <1>12 DEF LbaOf
  <2> QED
    BY <1>1, <1>5, <1>7, <1>8, <1>12, <2>1 DEF PhaseInv
<1> QED
  BY <1>1, <1>2, <1>4, <1>6, <1>9, <1>10, <1>12, <1>13, <1>14, Conclude

(***************************************************************************)
(* The command: the drive hears it, and a write was asked for.             *)
(***************************************************************************)
LEMMA SendCommandStep ==
    ASSUME IInv, SendCommand PROVE IInv'
<1>1. /\ stack # << >> /\ Advance("wait")
      /\ UNCHANGED <<boot, sel, reg, media, ret, ghosts>>
  BY DEF SendCommand, Running
<1>2. PICK t \in Calls : t = Top /\ CallInv(t) /\ PhaseInv(t) /\ DoneInv(t)
  BY <1>1, TopFacts
<1>3. t.pc = "command"
  BY <1>2 DEF SendCommand, Running
<1>4. /\ sel[Chan(t.dev)] = t.dev /\ reg[Chan(t.dev)] = LbaOf(t, t.i)
      /\ status[t.dev] # "busy"
  BY <1>2, <1>3 DEF PhaseInv
<1>5. PICK k : k = [op |-> t.op, lba |-> LbaOf(t, t.i), data |-> Null]
  OBVIOUS
<1>6. /\ status' = [status EXCEPT ![t.dev] = "busy"]
      /\ cmd' = [cmd EXCEPT ![t.dev] = k]
  BY <1>2, <1>4, <1>5 DEF SendCommand, Selected, C
<1>7. /\ HwType /\ DriveInv /\ t.dev \in Drives /\ t.op \in Ops
      /\ t.i \in 1 .. Len(t.buf) /\ LbaOf(t, t.i) \in Sectors
  BY <1>2, CallFields, LbaFacts DEF IInv, TypeInv
<1>8. k \in Cmds /\ k.op = t.op /\ k.lba = LbaOf(t, t.i) /\ k.data = Null
  BY <1>5, <1>7 DEF Cmds
<1>9. /\ status' \in [Drives -> Statuses] /\ cmd' \in [Drives -> Cmds]
      /\ status'[t.dev] = "busy" /\ cmd'[t.dev] = k
      /\ \A d \in Drives : d # t.dev => status'[d] = status[d] /\ cmd'[d] = cmd[d]
  BY <1>6, <1>7, <1>8 DEF HwType, Statuses
<1>10. UNCHANGED <<present, asked, failed>>
  BY <1>1 DEF boot, ghosts
<1>11. HwType'
  BY <1>1, <1>7, <1>9, <1>10 DEF HwType
<1>12. DriveInv'
  <2>1. ASSUME NEW d \in Drives
        PROVE  /\ cmd'[d].data # Null => status'[d] = "busy" /\ cmd'[d].op = "write"
               /\ cmd'[d].data # Null =>
                     <<d, cmd'[d].lba, cmd'[d].data>> \in asked
               /\ d \in present /\ sel[Chan(d)] # d => status'[d] # "busy"
    <3>1. CASE d = t.dev
      BY <1>4, <1>8, <1>9, <3>1
    <3>2. CASE d # t.dev
      BY <1>7, <1>9, <3>2 DEF DriveInv
    <3> QED
      BY <3>1, <3>2
  <2> QED
    BY <1>1, <1>10, <2>1 DEF DriveInv
<1>13. "wait" \in Places
  BY DEF Places
<1>14. PICK u \in Calls :
        /\ Top' = u /\ stack' \in Seq(Calls) /\ Len(stack') = 1
        /\ u.op = t.op /\ u.dev = t.dev /\ u.secno = t.secno /\ u.buf = t.buf
        /\ u.i = t.i /\ u.pc = "wait"
  BY <1>1, <1>2, <1>13, AdvanceFacts
<1>15. DoneInv(u)'
  <2>1. \A j \in 1 .. Len(t.buf) : Behind(u, j) => Behind(t, j)
    BY <1>14 DEF Behind
  <2> QED
    BY <1>1, <1>2, <1>10, <1>14, <2>1, DoneSame
<1>16. PhaseInv(u)'
  <2>1. LbaOf(u, u.i) = LbaOf(t, t.i)
    BY <1>14 DEF LbaOf
  <2>2. Commanded(u)' /\ cmd'[u.dev].data = Null
    BY <1>8, <1>9, <1>14, <2>1 DEF Commanded, LbaOf
  <2> QED
    BY <1>1, <1>4, <1>14, <2>2 DEF PhaseInv
<1> QED
  BY <1>1, <1>2, <1>7, <1>10, <1>11, <1>12, <1>14, <1>15, <1>16, Conclude

(***************************************************************************)
(* insw(): the drive answers with the sector that the call is at.          *)
(***************************************************************************)
LEMMA ReadSectorStep ==
    ASSUME IInv, ReadSector PROVE IInv'
<1>1. stack # << >> /\ UNCHANGED <<boot, sel, reg, media, ret, ghosts>>
  BY DEF ReadSector, Running
<1>2. PICK t \in Calls : t = Top /\ CallInv(t) /\ PhaseInv(t) /\ DoneInv(t)
  BY <1>1, TopFacts
<1>3. t.pc = "transfer" /\ t.op = "read"
  BY <1>2 DEF ReadSector, Running
<1>4. /\ sel[Chan(t.dev)] = t.dev /\ status[t.dev] = "drq"
      /\ cmd[t.dev].op = "read" /\ cmd[t.dev].lba = LbaOf(t, t.i)
  BY <1>2, <1>3 DEF PhaseInv, Commanded
<1>5. PICK x : x = media[t.dev][LbaOf(t, t.i)]
  OBVIOUS
<1>6. PICK u : u = [t EXCEPT !.pc = "next", !.buf[t.i] = x]
  OBVIOUS
<1>7. /\ SetTop(u)
      /\ status' = [status EXCEPT ![t.dev] = "ready"]
      /\ cmd' = [cmd EXCEPT ![t.dev] = NoCmd]
  BY <1>2, <1>4, <1>5, <1>6 DEF ReadSector, Selected, C
<1>8. /\ HwType /\ DriveInv /\ t.dev \in Drives
      /\ t.i \in 1 .. Len(t.buf) /\ LbaOf(t, t.i) \in Sectors
      /\ t.buf \in Seq(Cells \cup {Null})
  BY <1>2, CallFields, LbaFacts DEF IInv, TypeInv
<1>9. x \in Cells \cup {Null}
  BY <1>5, <1>8 DEF HwType
<1>10. PICK b : b = [t.buf EXCEPT ![t.i] = x]
  OBVIOUS
<1>11. /\ b \in Seq(Cells \cup {Null}) /\ Len(b) = Len(t.buf)
       /\ \A j \in 1 .. Len(t.buf) : b[j] = IF j = t.i THEN x ELSE t.buf[j]
  BY <1>8, <1>9, <1>10, ExceptSeq
<1>12. u = [t EXCEPT !.pc = "next", !.buf = b]
  BY <1>6, <1>10 DEF Calls
<1>13. u \in Calls
  <2>1. "next" \in Places
    BY DEF Places
  <2> QED
    BY <1>11, <1>12, <2>1 DEF Calls
<1>14. /\ u.op = t.op /\ u.dev = t.dev /\ u.secno = t.secno /\ u.buf = b
       /\ u.i = t.i /\ u.pc = "next"
  BY <1>12 DEF Calls
<1>15. stack' \in Seq(Calls) /\ Len(stack') = 1 /\ Top' = u
  BY <1>1, <1>7, <1>13, SetTopFacts
<1>16. NoCmd \in Cmds /\ NoCmd.data = Null
  <2>1. 0 \in Sectors
    BY DiskAssumption DEF Sectors
  <2> QED
    BY <2>1 DEF NoCmd, Cmds
<1>17. /\ status' \in [Drives -> Statuses] /\ cmd' \in [Drives -> Cmds]
       /\ status'[t.dev] = "ready" /\ cmd'[t.dev] = NoCmd
       /\ \A d \in Drives : d # t.dev => status'[d] = status[d] /\ cmd'[d] = cmd[d]
  BY <1>7, <1>8, <1>16 DEF HwType, Statuses
<1>18. UNCHANGED <<present, asked, failed>>
  BY <1>1 DEF boot, ghosts
<1>19. HwType'
  BY <1>1, <1>8, <1>17, <1>18 DEF HwType
<1>20. DriveInv'
  <2>1. ASSUME NEW d \in Drives
        PROVE  /\ cmd'[d].data # Null => status'[d] = "busy" /\ cmd'[d].op = "write"
               /\ cmd'[d].data # Null =>
                     <<d, cmd'[d].lba, cmd'[d].data>> \in asked
               /\ d \in present /\ sel[Chan(d)] # d => status'[d] # "busy"
    <3>1. CASE d = t.dev
      BY <1>16, <1>17, <3>1
    <3>2. CASE d # t.dev
      BY <1>8, <1>17, <3>2 DEF DriveInv
    <3> QED
      BY <3>1, <3>2
  <2> QED
    BY <1>1, <1>18, <2>1 DEF DriveInv
<1>21. PhaseInv(u)'
  BY <1>1, <1>4, <1>14, <1>17 DEF PhaseInv
<1>22. DoneInv(u)'
  <2>1. ASSUME NEW j \in 1 .. Len(u.buf), Behind(u, j) PROVE Stored(u, j)'
    <3>1. j \in 1 .. Len(t.buf)
      BY <1>11, <1>14
    <3>2. LbaOf(u, j) = LbaOf(t, j)
      BY <1>14 DEF LbaOf
    <3>3. CASE j = t.i
      <4>1. u.buf[j] = x
        BY <1>11, <1>14, <3>1, <3>3
      <4> QED
        BY <1>1, <1>5, <1>14, <3>2, <3>3, <4>1 DEF Stored, LbaOf
    <3>4. CASE j # t.i
      <4>1. u.buf[j] = t.buf[j]
        BY <1>11, <1>14, <3>1, <3>4
      <4>2. Behind(t, j)
        BY <1>14, <2>1, <3>4 DEF Behind
      <4>3. media[t.dev][LbaOf(t, j)] = t.buf[j]
        BY <1>2, <1>3, <3>1, <4>2 DEF DoneInv, Stored
      <4> QED
        BY <1>1, <1>14, <3>2, <4>1, <4>3 DEF Stored, LbaOf
    <3> QED
      BY <3>3, <3>4
  <2>2. \A j : Behind(u, j)' <=> Behind(u, j)
    BY DEF Behind
  <2> QED
    BY <2>1, <2>2 DEF DoneInv
<1>23. UNCHANGED <<boot, asked, ret>> /\ t.op # "write" /\ Len(u.buf) = Len(t.buf)
       /\ u.i \in 1 .. Len(t.buf)
  BY <1>1, <1>3, <1>8, <1>11, <1>14, <1>18
<1> QED
  BY <1>1, <1>2, <1>13, <1>14, <1>15, <1>19, <1>20, <1>21, <1>22, <1>23, Conclude

(***************************************************************************)
(* outsw(): the drive has the data of the sector that the call is at.      *)
(***************************************************************************)
LEMMA WriteSectorStep ==
    ASSUME IInv, WriteSector PROVE IInv'
<1>1. /\ stack # << >> /\ Advance("complete")
      /\ UNCHANGED <<boot, sel, reg, media, ret, ghosts>>
  BY DEF WriteSector, Running
<1>2. PICK t \in Calls : t = Top /\ CallInv(t) /\ PhaseInv(t) /\ DoneInv(t)
  BY <1>1, TopFacts
<1>3. t.pc = "transfer" /\ t.op = "write"
  BY <1>2 DEF WriteSector, Running
<1>4. /\ sel[Chan(t.dev)] = t.dev /\ status[t.dev] = "drq"
      /\ cmd[t.dev].op = "write" /\ cmd[t.dev].lba = LbaOf(t, t.i)
  BY <1>2, <1>3 DEF PhaseInv, Commanded
<1>5. /\ status' = [status EXCEPT ![t.dev] = "busy"]
      /\ cmd' = [cmd EXCEPT ![t.dev].data = t.buf[t.i]]
  BY <1>2, <1>4 DEF WriteSector, Selected, C
<1>6. /\ HwType /\ DriveInv /\ t.dev \in Drives /\ t.i \in 1 .. Len(t.buf)
  BY <1>2, CallFields, LbaFacts DEF IInv, TypeInv
<1>7. t.buf[t.i] \in Data /\ <<t.dev, LbaOf(t, t.i), t.buf[t.i]>> \in asked
  BY <1>2, <1>3, <1>6 DEF CallInv
<1>8. PICK k : k = [cmd[t.dev] EXCEPT !.data = t.buf[t.i]]
  OBVIOUS
<1>9. /\ k \in Cmds /\ k.op = "write" /\ k.lba = LbaOf(t, t.i)
      /\ k.data = t.buf[t.i]
  <2>1. PICK y \in Cmds : y = cmd[t.dev]
    BY <1>6 DEF HwType
  <2> QED
    BY <1>4, <1>7, <1>8, <2>1 DEF Cmds
<1>10. cmd' = [cmd EXCEPT ![t.dev] = k]
  BY <1>5, <1>6, <1>8 DEF HwType
<1>11. /\ status' \in [Drives -> Statuses] /\ cmd' \in [Drives -> Cmds]
       /\ status'[t.dev] = "busy" /\ cmd'[t.dev] = k
       /\ \A d \in Drives : d # t.dev => status'[d] = status[d] /\ cmd'[d] = cmd[d]
  BY <1>5, <1>6, <1>9, <1>10 DEF HwType, Statuses
<1>12. UNCHANGED <<present, asked, failed>>
  BY <1>1 DEF boot, ghosts
<1>13. HwType'
  BY <1>1, <1>6, <1>11, <1>12 DEF HwType
<1>14. DriveInv'
  <2>1. ASSUME NEW d \in Drives
        PROVE  /\ cmd'[d].data # Null => status'[d] = "busy" /\ cmd'[d].op = "write"
               /\ cmd'[d].data # Null =>
                     <<d, cmd'[d].lba, cmd'[d].data>> \in asked
               /\ d \in present /\ sel[Chan(d)] # d => status'[d] # "busy"
    <3>1. CASE d = t.dev
      BY <1>4, <1>7, <1>9, <1>11, <3>1
    <3>2. CASE d # t.dev
      BY <1>6, <1>11, <3>2 DEF DriveInv
    <3> QED
      BY <3>1, <3>2
  <2> QED
    BY <1>1, <1>12, <2>1 DEF DriveInv
<1>15. "complete" \in Places
  BY DEF Places
<1>16. PICK u \in Calls :
        /\ Top' = u /\ stack' \in Seq(Calls) /\ Len(stack') = 1
        /\ u.op = t.op /\ u.dev = t.dev /\ u.secno = t.secno /\ u.buf = t.buf
        /\ u.i = t.i /\ u.pc = "complete"
  BY <1>1, <1>2, <1>15, AdvanceFacts
<1>17. DoneInv(u)'
  <2>1. \A j \in 1 .. Len(t.buf) : Behind(u, j) => Behind(t, j)
    BY <1>16 DEF Behind
  <2> QED
    BY <1>1, <1>2, <1>12, <1>16, <2>1, DoneSame
<1>18. PhaseInv(u)'
  <2>1. LbaOf(u, u.i) = LbaOf(t, t.i)
    BY <1>16 DEF LbaOf
  <2>2. Commanded(u)' /\ cmd'[u.dev].data = u.buf[u.i]
    BY <1>3, <1>9, <1>11, <1>16, <2>1 DEF Commanded, LbaOf
  <2> QED
    BY <1>1, <1>3, <1>4, <1>11, <1>16, <2>2 DEF PhaseInv
<1> QED
  BY <1>1, <1>2, <1>6, <1>12, <1>13, <1>14, <1>16, <1>17, <1>18, Conclude

-----------------------------------------------------------------------------
(***************************************************************************)
(* A step of a drive, which can only stop being busy.                      *)
(***************************************************************************)
LEMMA DriveStep ==
    ASSUME IInv, UNCHANGED <<boot, sel, reg, stack, ret, asked>>, HwType',
           NEW d \in Drives, status[d] = "busy", status'[d] # "busy",
           cmd'[d] = cmd[d] \/ cmd'[d] = NoCmd,
           status'[d] = "drq" => cmd'[d] = cmd[d],
           cmd[d].data # Null => cmd'[d] = NoCmd,
           \A e \in Drives : e # d => status'[e] = status[e] /\ cmd'[e] = cmd[e],
           \A t \in Calls : t = Top /\ CallInv(t) /\ PhaseInv(t) /\ DoneInv(t) =>
                            PhaseInv(t)' /\ DoneInv(t)'
    PROVE  IInv'
<1>1. /\ TypeInv /\ BootInv /\ DriveInv
      /\ UNCHANGED <<fitted, probe, present, registered, sel, stack, asked>>
  BY DEF IInv, boot
<1>2. TypeInv'
  BY <1>1 DEF TypeInv, BootType
<1>3. NoCmd.data = Null
  BY DEF NoCmd
<1>4. cmd'[d].data = Null
  BY <1>3
<1>5. BootInv'
  <2>1. \A e \in present : e \in Drives
    BY <1>1 DEF TypeInv, BootType
  <2>2. \A e \in Drives : status[e] # "busy" => status'[e] # "busy"
    OBVIOUS
  <2>3. \A e \in Drives : cmd[e].data = Null => cmd'[e].data = Null
    BY <1>4
  <2> QED
    BY <1>1, <2>1, <2>2, <2>3 DEF BootInv
<1>6. DriveInv'
  <2>1. ASSUME NEW e \in Drives
        PROVE  /\ cmd'[e].data # Null => status'[e] = "busy" /\ cmd'[e].op = "write"
               /\ cmd'[e].data # Null =>
                     <<e, cmd'[e].lba, cmd'[e].data>> \in asked
               /\ e \in present /\ sel[Chan(e)] # e => status'[e] # "busy"
    <3>1. CASE e = d
      BY <1>1, <1>4, <3>1 DEF DriveInv
    <3>2. CASE e # d
      BY <1>1, <3>2 DEF DriveInv
    <3> QED
      BY <3>1, <3>2
  <2>2. UNCHANGED <<present, sel, asked>>
    BY <1>1
  <2> QED
    BY <2>1, <2>2 DEF DriveInv
<1>7. TopInv'
  <2>1. CASE stack = << >>
    BY <1>1, <2>1 DEF TopInv
  <2>2. CASE stack # << >>
    <3>1. PICK t \in Calls : t = Top /\ CallInv(t) /\ PhaseInv(t) /\ DoneInv(t)
      BY <2>2, TopFacts
    <3>2. PhaseInv(t)' /\ DoneInv(t)' /\ Top' = t
      BY <1>1, <3>1 DEF Top
    <3>3. CallInv(t)'
      BY <1>1, <3>1 DEF CallInv
    <3> QED
      BY <3>2, <3>3 DEF TopInv
  <2> QED
    BY <2>1, <2>2
<1> QED
  BY <1>2, <1>5, <1>6, <1>7 DEF IInv

(***************************************************************************)
(* A drive asks for the data phase, or fails.                              *)
(***************************************************************************)
LEMMA DriveDataStep ==
    ASSUME IInv, NEW d \in Drives, DriveData(d) PROVE IInv'
<1>1. /\ UNCHANGED <<boot, sel, reg, cmd, media, stack, ret, ghosts>>
      /\ status[d] = "busy" /\ cmd[d].data = Null
  BY DEF DriveData
<1>2. PICK s \in {"drq", "err"} : status' = [status EXCEPT ![d] = s]
  BY DEF DriveData
<1>3. /\ HwType /\ UNCHANGED <<asked, failed>> /\ s # "busy" /\ s \in Statuses
  BY <1>1 DEF IInv, TypeInv, ghosts, Statuses
<1>4. /\ status' \in [Drives -> Statuses] /\ status'[d] = s
      /\ \A e \in Drives : e # d => status'[e] = status[e]
  BY <1>2, <1>3 DEF HwType
<1>5. HwType'
  BY <1>1, <1>3, <1>4 DEF HwType
<1>6. ASSUME NEW t \in Calls, CallInv(t), PhaseInv(t), DoneInv(t)
      PROVE  PhaseInv(t)' /\ DoneInv(t)'
  <2>1. /\ t.dev \in Drives /\ Chan(t.dev) \in Chans /\ sel[Chan(t.dev)] \in Drives
        /\ t.i \in 1 .. Len(t.buf)
    BY <1>3, <1>6, CallFields, LbaFacts DEF HwType
  <2>2. \A e \in Drives : status[e] # "busy" => status'[e] = status[e]
    BY <1>1, <1>4
  <2>3. DoneInv(t)'
    BY <1>1, <1>3, <1>6, DoneSame
  <2>4. /\ Commanded(t)' <=> Commanded(t)
        /\ Stored(t, t.i)' <=> Stored(t, t.i)
    BY <1>1, <1>3 DEF Commanded, Stored
  <2>5. t.pc = "complete" /\ status[t.dev] = "busy" => t.dev # d
    <3>1. SUFFICES ASSUME t.pc = "complete", status[t.dev] = "busy" PROVE t.dev # d
      OBVIOUS
    <3>2. t.op = "write" /\ cmd[t.dev].data = t.buf[t.i]
      BY <1>6, <3>1 DEF PhaseInv
    <3>3. t.buf[t.i] \in Data
      BY <1>6, <2>1, <3>2 DEF CallInv
    <3> QED
      BY <1>1, <3>2, <3>3, DiskAssumption
  <2>6. t.pc = "transfer" => t.dev # d
    BY <1>1, <1>6 DEF PhaseInv
  <2>7. PhaseInv(t)'
    BY <1>1, <1>4, <1>6, <2>1, <2>2, <2>4, <2>5, <2>6 DEF PhaseInv
  <2> QED
    BY <2>3, <2>7
<1> QED
  BY <1>1, <1>3, <1>4, <1>5, <1>6, DriveStep

(***************************************************************************)
(* A drive stores the data it was given, or fails to.  They are those of   *)
(* the running call, or of an earlier one that gave up on the drive; then  *)
(* the running one is still polling it, before its first sector.           *)
(***************************************************************************)
LEMMA DriveStoreStep ==
    ASSUME IInv, NEW d \in Drives, DriveStore(d) PROVE IInv'
<1>1. /\ UNCHANGED <<boot, sel, reg, stack, ret, asked>>
      /\ status[d] = "busy" /\ cmd[d].data # Null
      /\ cmd' = [cmd EXCEPT ![d] = NoCmd]
  BY DEF DriveStore
<1>2. PICK l, x : l = cmd[d].lba /\ x = cmd[d].data
  OBVIOUS
<1>3. PICK s : /\ s \in {"ready", "err"} /\ status' = [status EXCEPT ![d] = s]
               /\ \/ /\ media' = [media EXCEPT ![d][l] = x]
                     /\ failed' = failed \ {<<d, l>>}
                  \/ failed' = failed \cup {<<d, l>>} /\ UNCHANGED media
  BY <1>2 DEF DriveStore
<1>4. HwType /\ DriveInv /\ s # "busy" /\ s # "drq" /\ s \in Statuses
  BY <1>3 DEF IInv, TypeInv, Statuses
<1>5. l \in Sectors /\ x \in Data /\ <<d, l, x>> \in asked /\ cmd[d].op = "write"
  <2>1. PICK k \in Cmds : k = cmd[d]
    BY <1>4 DEF HwType
  <2>2. l \in Sectors /\ x \in Data
    BY <1>1, <1>2, <2>1 DEF Cmds
  <2> QED
    BY <1>1, <1>2, <1>4, <2>2 DEF DriveInv
<1>6. NoCmd \in Cmds /\ NoCmd.data = Null
  <2>1. 0 \in Sectors
    BY DiskAssumption DEF Sectors
  <2> QED
    BY <2>1 DEF NoCmd, Cmds
<1>7. /\ status' \in [Drives -> Statuses] /\ cmd' \in [Drives -> Cmds]
      /\ status'[d] = s /\ cmd'[d] = NoCmd
      /\ \A e \in Drives : e # d => status'[e] = status[e] /\ cmd'[e] = cmd[e]
  BY <1>1, <1>3, <1>4, <1>6 DEF HwType
<1>8. /\ media' \in [Drives -> [Sectors -> Cells]] /\ failed' \subseteq Drives \X Sectors
      /\ media'[d][l] = x \/ <<d, l>> \in failed'
      /\ \A e \in Drives, n \in Sectors : e # d \/ n # l =>
            /\ media'[e][n] = media[e][n]
            /\ <<e, n>> \in failed' <=> <<e, n>> \in failed
  <2>1. media \in [Drives -> [Sectors -> Cells]] /\ x \in Cells
        /\ failed \subseteq Drives \X Sectors
    BY <1>4, <1>5 DEF HwType, Cells
  <2>2. CASE media' = [media EXCEPT ![d][l] = x] /\ failed' = failed \ {<<d, l>>}
    BY <1>5, <2>1, <2>2
  <2>3. CASE failed' = failed \cup {<<d, l>>} /\ UNCHANGED media
    BY <1>5, <2>1, <2>3
  <2> QED
    BY <1>3, <2>2, <2>3
<1>9. HwType'
  BY <1>1, <1>4, <1>7, <1>8 DEF HwType
<1>10. ASSUME NEW t \in Calls, CallInv(t), PhaseInv(t), DoneInv(t)
       PROVE  PhaseInv(t)' /\ DoneInv(t)'
  <2>1. /\ t.dev \in Drives /\ Chan(t.dev) \in Chans /\ sel[Chan(t.dev)] \in Drives
        /\ t.i \in 1 .. Len(t.buf) /\ t.i \in Nat
        /\ \A j \in 1 .. Len(t.buf) : LbaOf(t, j) \in Sectors
        /\ \A j \in 1 .. Len(t.buf) : j # t.i => LbaOf(t, j) # LbaOf(t, t.i)
    BY <1>4, <1>10, CallFields, LbaFacts DEF HwType
  <2>2. \A e \in Drives : status[e] # "busy" => status'[e] = status[e] /\ cmd'[e] = cmd[e]
    BY <1>1, <1>7
  <2>3. CASE t.dev # d
    <3>1. /\ Commanded(t)' <=> Commanded(t)
          /\ cmd'[t.dev] = cmd[t.dev] /\ status'[t.dev] = status[t.dev]
      BY <1>7, <2>1, <2>3 DEF Commanded
    <3>2. \A j \in 1 .. Len(t.buf) : Stored(t, j)' <=> Stored(t, j)
      BY <1>8, <2>1, <2>3 DEF Stored
    <3>3. DoneInv(t)'
      BY <1>10, <3>2 DEF DoneInv, Behind
    <3>4. PhaseInv(t)'
      BY <1>1, <1>10, <2>1, <2>2, <3>1, <3>2 DEF PhaseInv
    <3> QED
      BY <3>3, <3>4
  <2>4. CASE t.dev = d /\ t.pc = "complete"
    <3>1. /\ t.op = "write" /\ sel[Chan(t.dev)] = t.dev
          /\ l = LbaOf(t, t.i) /\ x = t.buf[t.i]
      BY <1>1, <1>2, <1>10, <2>4 DEF PhaseInv, Commanded
    <3>2. Stored(t, t.i)'
      BY <1>8, <2>4, <3>1 DEF Stored, LbaOf
    <3>3. \A j \in 1 .. Len(t.buf) : j # t.i => (Stored(t, j)' <=> Stored(t, j))
      BY <1>8, <2>1, <2>4, <3>1 DEF Stored, LbaOf
    <3>4. DoneInv(t)'
      BY <1>10, <2>1, <2>4, <3>3 DEF DoneInv, Behind
    <3>5. PhaseInv(t)'
      BY <1>1, <1>4, <1>7, <2>4, <3>1, <3>2 DEF PhaseInv
    <3> QED
      BY <3>4, <3>5
  <2>5. CASE t.dev = d /\ t.pc # "complete"
    <3>1. t.pc = "ready" /\ ~(t.i > 1)
      <4>1. t.dev \in present
        BY <1>10 DEF CallInv
      <4>2. t.pc \in Places
        BY CallFields
      <4>3. t.pc \notin {"lba", "select"}
        BY <1>1, <1>4, <1>10, <2>1, <2>5, <4>1 DEF PhaseInv, DriveInv
      <4>4. t.pc \notin {"command", "next", "wait", "transfer"}
        BY <1>1, <1>10, <2>5 DEF PhaseInv
      <4> QED
        BY <1>1, <1>10, <2>5, <4>2, <4>3, <4>4 DEF PhaseInv, Places
    <3>2. DoneInv(t)'
      <4>1. \A j \in 1 .. Len(t.buf) : ~(j < t.i)
        BY <2>1, <3>1
      <4> QED
        BY <3>1, <4>1 DEF DoneInv, Behind
    <3>3. PhaseInv(t)'
      BY <3>1 DEF PhaseInv
    <3> QED
      BY <3>2, <3>3
  <2> QED
    BY <2>3, <2>4, <2>5
<1> QED
  BY <1>1, <1>4, <1>7, <1>9, <1>10, DriveStep

-----------------------------------------------------------------------------
(***************************************************************************)
(* hd_init() meets no busy drive but those it gave up on.                  *)
(***************************************************************************)
LEMMA ProbeSteps ==
    ASSUME IInv, DetectPresent \/ DetectFails PROVE IInv'
<1>1. /\ probe < NDrives /\ sel' = [sel EXCEPT ![Chan(probe)] = probe]
      /\ probe' = probe + 1
      /\ UNCHANGED <<fitted, registered, reg, media, stack, ret, asked, failed>>
  BY DEF DetectPresent, DetectFails, Probe, ghosts
<1>2. /\ TypeInv /\ BootType /\ HwType /\ BootInv /\ DriveInv
  BY DEF IInv, TypeInv
<1>3. probe \in Drives /\ probe' \in 0 .. NDrives
  BY <1>1, <1>2, DiskAssumption DEF BootType, Drives
<1>4. /\ registered = Null /\ stack = << >>
      /\ \A d \in present : status[d] # "busy"
      /\ \A d \in Drives : cmd[d].data = Null
      /\ \A d \in Drives : d >= probe => d \notin present /\ status[d] # "busy"
  <2>1. registered = Null
    <3>1. probe # NDrives
      BY <1>1, <1>2, DiskAssumption DEF BootType
    <3> QED
      BY <1>2, <3>1 DEF BootInv
  <2> QED
    BY <1>2, <2>1 DEF BootInv
<1>5. /\ sel' \in [Chans -> Drives] /\ \A c \in Chans : Chan(sel'[c]) = c
  BY <1>1, <1>2, <1>3, ChanFacts DEF HwType
<1>6. probe \notin present /\ status[probe] # "busy"
  <2>1. probe >= probe
    BY <1>3 DEF Drives
  <2> QED
    BY <1>3, <1>4, <2>1
<1>7. /\ present' \subseteq fitted /\ present \subseteq present'
      /\ present' \subseteq present \cup {probe}
      /\ status' \in [Drives -> Statuses] /\ cmd' \in [Drives -> Cmds]
      /\ \A d \in Drives : d # probe => status'[d] = status[d]
      /\ \A d \in present' : status'[d] # "busy"
      /\ \A d \in Drives : cmd'[d].data = Null
      /\ \A d \in Drives : cmd'[d].data # Null =>
                              <<d, cmd'[d].lba, cmd'[d].data>> \in asked
  <2>1. CASE UNCHANGED <<status, cmd>>
    <3>1. \/ probe \in fitted /\ present' = present \cup {probe}
          \/ UNCHANGED present
      BY DEF DetectPresent, DetectFails
    <3> QED
      BY <1>2, <1>4, <1>6, <2>1, <3>1 DEF BootType, HwType, DriveInv
  <2>2. CASE DetectFails /\ probe \in fitted
    <3>1. PICK s \in {"busy", "err"} : status' = [status EXCEPT ![probe] = s]
      BY <2>2 DEF DetectFails
    <3>2. cmd' = [cmd EXCEPT ![probe].op = "identify"] /\ UNCHANGED present
      BY <2>2 DEF DetectFails
    <3>3. PICK k \in Cmds : k = cmd[probe] /\ k.data = Null
      BY <1>2, <1>3, <1>4 DEF HwType
    <3>4. PICK m : m = [k EXCEPT !.op = "identify"]
      OBVIOUS
    <3>5. m \in Cmds /\ m.data = Null /\ m.op = "identify"
      BY <3>3, <3>4 DEF Cmds
    <3>6. cmd' = [cmd EXCEPT ![probe] = m]
      BY <1>2, <1>3, <3>2, <3>3, <3>4 DEF HwType
    <3>7. /\ cmd' \in [Drives -> Cmds] /\ cmd'[probe] = m
          /\ \A d \in Drives : d # probe => cmd'[d] = cmd[d]
      BY <1>2, <1>3, <3>5, <3>6 DEF HwType
    <3>8. /\ status' \in [Drives -> Statuses]
          /\ \A d \in Drives : d # probe => status'[d] = status[d]
      BY <1>2, <1>3, <3>1 DEF HwType, Statuses
    <3>9. \A d \in present : d \in Drives /\ d # probe
      BY <1>2, <1>6 DEF BootType
    <3> QED
      BY <1>2, <1>4, <3>2, <3>5, <3>7, <3>8, <3>9 DEF BootType, DriveInv
  <2> QED
    BY <2>1, <2>2 DEF DetectPresent, DetectFails
<1>8. TypeInv' /\ HwType'
  BY <1>1, <1>2, <1>3, <1>4, <1>5, <1>7 DEF TypeInv, BootType, HwType
<1>9. BootInv'
  <2>1. ASSUME NEW d \in Drives, d >= probe'
        PROVE  d \notin present' /\ status'[d] # "busy"
    <3>1. d >= probe /\ d # probe
      BY <1>1, <1>3, <2>1 DEF Drives
    <3> QED
      BY <1>4, <1>7, <3>1
  <2> QED
    BY <1>1, <1>4, <1>7, <2>1 DEF BootInv
<1>10. DriveInv'
  BY <1>1, <1>7 DEF DriveInv
<1> QED
  BY <1>1, <1>4, <1>8, <1>9, <1>10 DEF IInv, TopInv

(***************************************************************************)
(* blk_init().                                                             *)
(***************************************************************************)
LEMMA BlkInitStep ==
    ASSUME IInv, BlkInit PROVE IInv'
<1>1. /\ probe = NDrives /\ registered = Null /\ registered' \subseteq present
      /\ UNCHANGED <<fitted, probe, present, hw, stack, ret, ghosts>>
  BY DEF BlkInit
<1>2. UNCHANGED <<sel, reg, status, cmd, media, asked, failed>>
  BY <1>1 DEF hw, ghosts
<1>3. TypeInv /\ BootInv /\ DriveInv /\ stack = << >>
  BY <1>1 DEF IInv, BootInv
<1>4. TypeInv'
  BY <1>1, <1>2, <1>3 DEF TypeInv, BootType, HwType
<1>5. BootInv'
  BY <1>1, <1>2, <1>3 DEF BootInv
<1>6. DriveInv'
  BY <1>1, <1>2, <1>3 DEF DriveInv
<1> QED
  BY <1>1, <1>3, <1>4, <1>5, <1>6 DEF IInv, TopInv

(***************************************************************************)
(* The range check.                                                        *)
(***************************************************************************)
LEMMA RejectCallStep ==
    ASSUME IInv, NEW op, NEW dev, NEW secno, NEW k, RejectCall(op, dev, secno, k)
    PROVE  IInv'
<1>1. UNCHANGED <<boot, hw, stack, ghosts>> /\ ret' = -1
  BY DEF RejectCall
<1>2. UNCHANGED <<fitted, probe, present, registered, sel, reg, status, cmd, media,
                  stack, asked, failed>>
  BY <1>1 DEF boot, hw, ghosts
<1>3. TypeInv /\ BootInv /\ DriveInv /\ TopInv
  BY DEF IInv
<1>4. TypeInv'
  BY <1>1, <1>2, <1>3 DEF TypeInv, BootType, HwType
<1>5. BootInv' /\ DriveInv'
  BY <1>2, <1>3 DEF BootInv, DriveInv
<1>6. TopInv'
  BY <1>2, <1>3 DEF TopInv, Top, CallInv, PhaseInv, DoneInv, Commanded, Stored, LbaOf,
                    Behind
<1> QED
  BY <1>4, <1>5, <1>6 DEF IInv

(***************************************************************************)
(* A call begins, on a drive that may still be busy with what an earlier   *)
(* one gave up on.                                                         *)
(***************************************************************************)
LEMMA StartCallStep ==
    ASSUME IInv, MaxNest = 1, NEW op \in Ops, NEW dev \in Drives, NEW secno \in Sectors,
           NEW k \in 1 .. MaxSecs, StartCall(op, dev, secno, k)
    PROVE  IInv'
<1>1. TypeInv /\ BootInv /\ DriveInv /\ k \in Nat \ {0} /\ secno \in Nat
  BY DiskAssumption DEF IInv, Sectors
<1>2. stack = << >>
  <2>1. Len(stack) < 1 /\ stack \in Seq(Calls) /\ Len(stack) \in Nat
    BY <1>1 DEF StartCall, TypeInv
  <2>2. Len(stack) = 0
    BY <2>1
  <2> QED
    BY <2>1, <2>2
<1>3. /\ registered # Null /\ secno + k <= NSectors /\ UNCHANGED <<boot, hw>>
      /\ Callers(dev, secno, k) /\ ret' = 0
      /\ failed' = {}
  BY <1>2 DEF StartCall
<1>4. UNCHANGED <<fitted, probe, present, registered, sel, reg, status, cmd, media>>
  BY <1>3 DEF boot, hw
<1>5. dev \in present
  BY <1>1, <1>3 DEF Callers, TypeInv, BootType
<1>6. PICK buf \in Bufs(op, k) :
        /\ stack' = Append(stack, Call(op, dev, secno, buf))
        /\ asked' = (IF op = "write"
                     THEN asked \cup {<<dev, secno + i - 1, buf[i]>> : i \in 1 .. k}
                     ELSE asked)
  BY DEF StartCall
<1>7. /\ buf \in [1 .. k -> Cells \cup {Null}]
      /\ op = "write" => \A j \in 1 .. k : buf[j] \in Data
  BY <1>6 DEF Bufs, Cells
<1>8. buf \in Seq(Cells \cup {Null}) /\ Len(buf) = k
  BY <1>1, <1>7
<1>9. PICK u : u = Call(op, dev, secno, buf)
  OBVIOUS
<1>10. u \in Calls
  BY <1>8, <1>9 DEF Call, Calls, Places
<1>11. /\ u.op = op /\ u.dev = dev /\ u.secno = secno /\ u.buf = buf /\ u.i = 1
       /\ u.pc = "ready"
  BY <1>9 DEF Call
<1>12. stack' \in Seq(Calls) /\ Len(stack') = 1 /\ stack'[1] = u
  BY <1>2, <1>6, <1>9, <1>10
<1>13. Top' = u
  BY <1>12 DEF Top
<1>14. /\ asked \subseteq asked' /\ asked' \subseteq Drives \X Sectors \X Data
       /\ op = "write" => \A j \in 1 .. k : <<dev, secno + j - 1, buf[j]>> \in asked'
  <2>1. \A j \in 1 .. k : secno + j - 1 \in Sectors
    BY <1>1, <1>3, DiskAssumption DEF Sectors
  <2>2. asked \subseteq Drives \X Sectors \X Data
    BY <1>1 DEF TypeInv
  <2> QED
    BY <1>6, <1>7, <2>1, <2>2
<1>15. TypeInv'
  <2>1. HwType'
    BY <1>1, <1>3, <1>4 DEF TypeInv, HwType
  <2> QED
    BY <1>1, <1>3, <1>4, <1>12, <1>14, <2>1 DEF TypeInv, BootType
<1>16. BootInv'
  BY <1>1, <1>3, <1>4 DEF BootInv
<1>17. DriveInv'
  BY <1>1, <1>4, <1>14 DEF DriveInv
<1>18. CallInv(u)'
  <2>1. 1 \in 1 .. k
    BY <1>1
  <2> QED
    BY <1>3, <1>4, <1>5, <1>7, <1>8, <1>11, <1>14, <2>1 DEF CallInv, LbaOf
<1>19. PhaseInv(u)'
  BY <1>11 DEF PhaseInv
<1>20. DoneInv(u)'
  <2>1. \A j \in 1 .. Len(buf) : ~(j < 1)
    BY <1>1, <1>8
  <2> QED
    BY <1>11, <2>1 DEF DoneInv, Behind
<1> QED
  BY <1>13, <1>15, <1>16, <1>17, <1>18, <1>19, <1>20 DEF IInv, TopInv

-----------------------------------------------------------------------------
(***************************************************************************)
(* The invariant holds at first.                                           *)
(***************************************************************************)
LEMMA InitIInv == Init => IInv
<1> SUFFICES ASSUME Init PROVE IInv
  OBVIOUS
<1>1. 0 \in Sectors /\ 0 \in 0 .. NDrives
  BY DiskAssumption DEF Sectors
<1>2. NoCmd \in Cmds /\ NoCmd.data = Null
  BY <1>1 DEF NoCmd, Cmds
<1>3. status \in [Drives -> Statuses] /\ \A d \in Drives : status[d] \notin {"busy", "drq"}
  BY DEF Init, Statuses
<1>4. /\ cmd \in [Drives -> Cmds] /\ \A d \in Drives : cmd[d].data = Null
  BY <1>2 DEF Init
<1>5. sel \in [Chans -> Drives] /\ \A c \in Chans : Chan(sel[c]) = c
  BY ChanFacts DEF Init
<1>6. reg \in [Chans -> Sectors] /\ media \in [Drives -> [Sectors -> Cells]]
  BY <1>1 DEF Init, Cells
<1>7. TypeInv
  <2>1. HwType
    BY <1>3, <1>4, <1>5, <1>6 DEF HwType, Init
  <2>2. BootType
    BY <1>1 DEF BootType, Init
  <2>3. stack \in Seq(Calls) /\ Len(stack) <= 1
    BY DEF Init
  <2> QED
    BY <2>1, <2>2, <2>3 DEF TypeInv, Init
<1>8. BootInv
  BY <1>3, <1>4 DEF BootInv, Init
<1>9. DriveInv
  BY <1>3, <1>4 DEF DriveInv
<1>10. TopInv
  BY DEF Init, TopInv
<1> QED
  BY <1>7, <1>8, <1>9, <1>10 DEF IInv

(***************************************************************************)
(* Nothing changes.                                                        *)
(***************************************************************************)
LEMMA StutterStep ==
    ASSUME IInv, UNCHANGED vars PROVE IInv'
<1>1. UNCHANGED <<fitted, probe, present, registered, sel, reg, status, cmd, media,
                  stack, ret, asked, failed>>
  BY DEF vars, boot, hw, ghosts
<1> QED
  BY <1>1 DEF IInv, TypeInv, BootType, HwType, BootInv, DriveInv, TopInv, Top, CallInv,
              PhaseInv, DoneInv, Commanded, Stored, LbaOf, Behind

(***************************************************************************)
(* Every step preserves the invariant when calls do not nest.              *)
(***************************************************************************)
LEMMA NextIInv ==
    ASSUME MaxNest = 1, IInv, [Next]_vars PROVE IInv'
<1>1. CASE DetectPresent \/ DetectFails
  BY <1>1, ProbeSteps
<1>2. CASE BlkInit
  BY <1>2, BlkInitStep
<1>3. CASE \E op \in Ops, dev \in Drives, secno \in Sectors, k \in 1 .. MaxSecs :
              StartCall(op, dev, secno, k)
  BY <1>3, StartCallStep
<1>4. CASE \E op \in Ops, dev \in Drives, secno \in Sectors, k \in 1 .. MaxSecs :
              RejectCall(op, dev, secno, k)
  BY <1>4, RejectCallStep
<1>5. CASE Driver
  <2>1. CASE NextSector
    BY <2>1, NextSectorStep
  <2>2. CASE WaitReady \/ WaitComplete \/ WaitData
    BY <2>2, WaitSteps
  <2>3. CASE ReadyTimeout \/ WaitDataFails
    BY <2>3, TimeoutSteps
  <2>4. CASE SetLba
    BY <2>4, SetLbaStep
  <2>5. CASE SelectDrive
    BY <2>5, SelectDriveStep
  <2>6. CASE SendCommand
    BY <2>6, SendCommandStep
  <2>7. CASE ReadSector
    BY <2>7, ReadSectorStep
  <2>8. CASE WriteSector
    BY <2>8, WriteSectorStep
  <2> QED
    BY <1>5, <2>1, <2>2, <2>3, <2>4, <2>5, <2>6, <2>7, <2>8 DEF Driver
<1>6. CASE \E d \in Drives : DriveData(d)
  BY <1>6, DriveDataStep
<1>7. CASE \E d \in Drives : DriveStore(d)
  BY <1>7, DriveStoreStep
<1>8. CASE UNCHANGED vars
  BY <1>8, StutterStep
<1> QED
  BY <1>1, <1>2, <1>3, <1>4, <1>5, <1>6, <1>7, <1>8 DEF Next

(***************************************************************************)
(* The invariant holds in every reachable state.                           *)
(***************************************************************************)
THEOREM Invariance == ASSUME MaxNest = 1 PROVE Spec => []IInv
<1>1. IInv /\ [Next]_vars => IInv'
  BY NextIInv
<1> QED
  BY InitIInv, <1>1, PTL DEF Spec

(***************************************************************************)
(* However late the drives answer and whatever fails, no command goes to a *)
(* busy drive, and a drive that was found is busy only while selected.     *)
(***************************************************************************)
THEOREM CommandsAlwaysHeard == ASSUME MaxNest = 1 PROVE Spec => []CommandsAreHeard
<1>1. IInv => CommandsAreHeard
  <2> SUFFICES ASSUME IInv PROVE CommandsAreHeard
    OBVIOUS
  <2>1. ASSUME stack # << >>, Top.pc = "command" PROVE status[Selected] # "busy"
    BY <2>1, TopFacts DEF PhaseInv, Selected, C
  <2>2. \A d \in present : sel[Chan(d)] # d => status[d] # "busy"
    BY DEF IInv, TypeInv, BootType, DriveInv
  <2> QED
    BY <2>1, <2>2 DEF CommandsAreHeard, Running
<1> QED
  BY <1>1, Invariance, PTL

(***************************************************************************)
(* Only a drive that stores its data changes a sector, and nothing takes   *)
(* back what callers asked for.                                            *)
(***************************************************************************)
LEMMA MediaSteps ==
    ASSUME Next
    PROVE  \/ UNCHANGED media /\ asked \subseteq asked'
           \/ \E d \in Drives : DriveStore(d)
<1>1. CASE DetectPresent \/ DetectFails
  BY <1>1 DEF DetectPresent, DetectFails, Probe, ghosts
<1>2. CASE BlkInit
  BY <1>2 DEF BlkInit, hw, ghosts
<1>3. CASE \E op, dev, secno, k : StartCall(op, dev, secno, k)
  BY <1>3 DEF StartCall, hw
<1>4. CASE \E op, dev, secno, k : RejectCall(op, dev, secno, k)
  BY <1>4 DEF RejectCall, hw, ghosts
<1>5. CASE Driver
  BY <1>5 DEF Driver, NextSector, WaitReady, WaitComplete, ReadyTimeout, SetLba,
              SelectDrive, SendCommand, WaitData, WaitDataFails, ReadSector,
              WriteSector, hw, ghosts
<1>6. CASE \E d \in Drives : DriveData(d)
  BY <1>6 DEF DriveData, ghosts
<1> QED
  BY <1>1, <1>2, <1>3, <1>4, <1>5, <1>6 DEF Next

(***************************************************************************)
(* A sector that nobody asked to write keeps its contents, and one that    *)
(* changes gets what somebody asked to write there, whatever times out,    *)
(* fails or answers late.                                                  *)
(***************************************************************************)
THEOREM OnlyAskedSectorsAlways == ASSUME MaxNest = 1 PROVE Spec => []OnlyAskedSectors
<1>1. Init => OnlyAskedSectors
  BY DEF Init, OnlyAskedSectors
<1>2. IInv /\ OnlyAskedSectors /\ [Next]_vars => OnlyAskedSectors'
  <2> SUFFICES ASSUME IInv, OnlyAskedSectors, [Next]_vars PROVE OnlyAskedSectors'
    OBVIOUS
  <2>1. CASE UNCHANGED media /\ asked \subseteq asked'
    BY <2>1 DEF OnlyAskedSectors
  <2>2. CASE UNCHANGED vars
    BY <2>2 DEF OnlyAskedSectors, vars, hw, ghosts
  <2>3. ASSUME NEW d \in Drives, DriveStore(d) PROVE OnlyAskedSectors'
    <3>1. PICK l, x : l = cmd[d].lba /\ x = cmd[d].data
      OBVIOUS
    <3>2. /\ UNCHANGED asked /\ status[d] = "busy" /\ cmd[d].data # Null
          /\ media' = [media EXCEPT ![d][l] = x] \/ UNCHANGED media
      BY <2>3, <3>1 DEF DriveStore
    <3>3. HwType /\ DriveInv
      BY DEF IInv, TypeInv
    <3>4. <<d, l, x>> \in asked
      BY <3>1, <3>2, <3>3 DEF DriveInv
    <3>5. \A e \in Drives, n \in Sectors : \/ media'[e][n] = media[e][n]
                                           \/ e = d /\ n = l /\ media'[e][n] = x
      BY <3>2, <3>3 DEF HwType
    <3> QED
      BY <3>2, <3>4, <3>5 DEF OnlyAskedSectors
  <2> QED
    BY <2>1, <2>2, <2>3, MediaSteps
<1> QED
  BY <1>1, <1>2, Invariance, PTL DEF Spec

(***************************************************************************)
(* A call that ends with success has been through all its sectors.         *)
(***************************************************************************)
LEMMA SuccessIsEnd ==
    ASSUME MaxNest = 1, IInv, [Next]_vars, Len(stack') < Len(stack), ret' = 0
    PROVE  \E t \in Calls : /\ t = Top /\ DoneInv(t) /\ Len(t.buf) \in Nat
                            /\ t.pc = "next" /\ t.i = Len(t.buf)
<1>1. stack \in Seq(Calls) /\ Len(stack) \in Nat
  BY DEF IInv, TypeInv
<1>2. ~UNCHANGED stack
  BY <1>1
<1>3. CASE Driver
  <2>1. stack # << >>
    BY <1>3 DEF Driver, NextSector, WaitReady, WaitComplete, ReadyTimeout, SetLba,
                SelectDrive, SendCommand, WaitData, WaitDataFails, ReadSector,
                WriteSector, Running
  <2>2. PICK t \in Calls : t = Top /\ CallInv(t) /\ DoneInv(t) /\ Len(stack) = 1
    BY <2>1, TopFacts
  <2>3. ~(\E c : SetTop(c))
    <3>1. ASSUME NEW c, SetTop(c) PROVE Len(stack') = Len(stack)
      <4>1. stack' = [stack EXCEPT ![1] = c]
        BY <2>2, <3>1 DEF SetTop
      <4>2. DOMAIN stack' = DOMAIN stack /\ DOMAIN stack = 1 .. 1
        BY <1>1, <2>2, <4>1
      <4>3. stack' = <<c>>
        BY <1>1, <2>2, <4>1
      <4> QED
        BY <2>2, <4>3
    <3> QED
      BY <1>1, <3>1
  <2>4. NextSector
    <3>1. -1 # 0
      OBVIOUS
    <3> QED
      BY <1>3, <2>3, <3>1
         DEF Driver, WaitReady, WaitComplete, ReadyTimeout, SetLba, SelectDrive,
             SendCommand, WaitData, WaitDataFails, ReadSector, WriteSector, Advance,
             Return
  <2>5. t.pc = "next" /\ ~(t.i < Len(t.buf))
    BY <2>2, <2>3, <2>4 DEF NextSector, Running
  <2>6. t.i \in 1 .. Len(t.buf) /\ Len(t.buf) \in Nat
    BY <2>2, CallFields, LbaFacts
  <2>7. t.i = Len(t.buf)
    BY <2>5, <2>6
  <2> QED
    BY <2>2, <2>5, <2>6, <2>7
<1>4. CASE \E op, dev, secno, k : StartCall(op, dev, secno, k)
  <2>1. Len(stack) < 1
    BY <1>4 DEF StartCall
  <2>2. PICK y : stack' = Append(stack, y)
    BY <1>4 DEF StartCall
  <2>3. Len(stack') = Len(stack) + 1
    BY <1>1, <2>2
  <2> QED
    BY <1>1, <2>3
<1>5. Next /\ ~Driver => UNCHANGED stack \/ \E op, dev, secno, k : StartCall(op, dev, secno, k)
  BY DEF Next, DetectPresent, DetectFails, Probe, BlkInit, RejectCall, DriveData, DriveStore
<1> QED
  BY <1>2, <1>3, <1>4, <1>5 DEF vars

(***************************************************************************)
(* hd_read_device() returns 0 only with the contents of all its sectors in *)
(* the buffer, for any number of sectors.                                  *)
(***************************************************************************)
THEOREM ReadAlwaysDelivers == ASSUME MaxNest = 1 PROVE Spec => ReadDelivers
<1>1. IInv /\ [Next]_vars =>
         [Succeeds("read") => \A i \in 1 .. Len(Top.buf) : Holds(i)]_vars
  <2> SUFFICES ASSUME IInv, [Next]_vars, Succeeds("read")
               PROVE  \A i \in 1 .. Len(Top.buf) : Holds(i)
    OBVIOUS
  <2>1. PICK t \in Calls : /\ t = Top /\ DoneInv(t) /\ Len(t.buf) \in Nat
                          /\ t.pc = "next" /\ t.i = Len(t.buf) /\ t.op = "read"
    BY SuccessIsEnd DEF Succeeds
  <2>2. \A i \in 1 .. Len(t.buf) : Behind(t, i)
    BY <2>1 DEF Behind
  <2> QED
    BY <2>1, <2>2 DEF DoneInv, Stored, Holds, LbaOf
<1> QED
  BY <1>1, Invariance, PTL DEF Spec, ReadDelivers

(***************************************************************************)
(* hd_write_device() returns 0 only when each of its sectors holds the     *)
(* data or the drive has reported that it could not store them.            *)
(***************************************************************************)
THEOREM WriteAlwaysLands == ASSUME MaxNest = 1 PROVE Spec => WriteLands
<1>1. IInv /\ [Next]_vars =>
         [Succeeds("write") => \A i \in 1 .. Len(Top.buf) :
             Holds(i) \/ <<Top.dev, Top.secno + i - 1>> \in failed]_vars
  <2> SUFFICES ASSUME IInv, [Next]_vars, Succeeds("write")
               PROVE  \A i \in 1 .. Len(Top.buf) :
                         Holds(i) \/ <<Top.dev, Top.secno + i - 1>> \in failed
    OBVIOUS
  <2>1. PICK t \in Calls : /\ t = Top /\ DoneInv(t) /\ Len(t.buf) \in Nat
                          /\ t.pc = "next" /\ t.i = Len(t.buf)
    BY SuccessIsEnd DEF Succeeds
  <2>2. \A i \in 1 .. Len(t.buf) : Behind(t, i)
    BY <2>1 DEF Behind
  <2> QED
    BY <2>1, <2>2 DEF DoneInv, Stored, Holds, LbaOf
<1> QED
  BY <1>1, Invariance, PTL DEF Spec, WriteLands

-----------------------------------------------------------------------------
(***************************************************************************)
(* The refinement.  The request of the running call.                       *)
(***************************************************************************)
RequestOf(t) == [op |-> t.op, dev |-> t.dev, secno |-> t.secno, buf |-> t.buf]

(***************************************************************************)
(* While a call runs there is a request, and it is the call's.             *)
(***************************************************************************)
LEMMA RequestFacts ==
    ASSUME IInv, stack # << >>, NEW t \in Calls, t = Top
    PROVE  /\ Request = RequestOf(t)
           /\ Request.op = t.op /\ Request.dev = t.dev /\ Request.secno = t.secno
           /\ Request.buf = t.buf
           /\ Request # Device!Idle
<1>1. Request = RequestOf(t)
  BY DEF Request, RequestOf
<1>2. /\ Request.op = t.op /\ Request.dev = t.dev /\ Request.secno = t.secno
      /\ Request.buf = t.buf
  BY <1>1 DEF RequestOf
<1>3. Device!Idle.op = "none" /\ "none" \notin Ops
  BY DEF Device!Idle, Ops
<1>4. t.op \in Ops
  BY CallFields
<1> QED
  BY <1>1, <1>2, <1>3, <1>4

(***************************************************************************)
(* When no call runs there is none.                                        *)
(***************************************************************************)
LEMMA NoRequest ==
    ASSUME stack = << >> PROVE Request = Device!Idle
BY DEF Request, Device!Idle

(***************************************************************************)
(* A call that only moves on keeps its request.                            *)
(***************************************************************************)
LEMMA AdvanceRequest ==
    ASSUME IInv, stack # << >>, NEW pc \in Places, Advance(pc)
    PROVE  Request' = Request
<1>1. PICK t \in Calls : t = Top
  BY TopFacts
<1>2. PICK u \in Calls :
        /\ Top' = u /\ stack' # << >>
        /\ u.op = t.op /\ u.dev = t.dev /\ u.secno = t.secno /\ u.buf = t.buf
  BY <1>1, AdvanceFacts
<1>3. Request' = RequestOf(u)
  BY <1>2 DEF Request, RequestOf
<1>4. Request = RequestOf(t)
  BY <1>1, RequestFacts
<1> QED
  BY <1>2, <1>3, <1>4 DEF RequestOf

(***************************************************************************)
(* Polling, the registers and the drives' answers are invisible.           *)
(***************************************************************************)
LEMMA QuietSimulation ==
    ASSUME IInv,
           \/ DetectPresent \/ DetectFails \/ BlkInit
           \/ WaitReady \/ WaitComplete \/ WaitData
           \/ SetLba \/ SelectDrive \/ SendCommand \/ WriteSector
           \/ \E d \in Drives : DriveData(d)
    PROVE  UNCHANGED <<media, asked, failed, Request, ret>>
<1>1. {"lba", "select", "command", "wait", "transfer", "complete", "next"} \subseteq Places
  BY DEF Places
<1>2. CASE \/ WaitReady \/ WaitComplete \/ WaitData
           \/ SetLba \/ SelectDrive \/ SendCommand \/ WriteSector
  <2>1. stack # << >>
    BY <1>2 DEF WaitReady, WaitComplete, WaitData, SetLba, SelectDrive, SendCommand,
                WriteSector, Running
  <2>2. UNCHANGED <<media, asked, failed, ret>>
    BY <1>2 DEF WaitReady, WaitComplete, WaitData, SetLba, SelectDrive, SendCommand,
                WriteSector, hw, ghosts
  <2>3. \E pc \in Places : Advance(pc)
    BY <1>1, <1>2 DEF WaitReady, WaitComplete, WaitData, SetLba, SelectDrive,
                      SendCommand, WriteSector
  <2>4. Request' = Request
    BY <2>1, <2>3, AdvanceRequest
  <2> QED
    BY <2>2, <2>4
<1>3. CASE \/ DetectPresent \/ DetectFails \/ BlkInit
           \/ \E d \in Drives : DriveData(d)
  <2>1. UNCHANGED <<media, stack, asked, failed, ret>>
    BY <1>3 DEF DetectPresent, DetectFails, Probe, BlkInit, DriveData, hw, ghosts
  <2> QED
    BY <2>1 DEF Request, Top
<1> QED
  BY <1>2, <1>3

(***************************************************************************)
(* A call is a request.                                                    *)
(***************************************************************************)
LEMMA StartSimulation ==
    ASSUME IInv, MaxNest = 1, NEW op \in Ops, NEW dev \in Drives, NEW secno \in Sectors,
           NEW k \in 1 .. MaxSecs, StartCall(op, dev, secno, k)
    PROVE  Device!Begin(op, dev, secno, k)
<1>1. stack \in Seq(Calls) /\ Len(stack) < 1 /\ k \in Nat
  BY DEF IInv, TypeInv, StartCall
<1>2. stack = << >>
  BY <1>1
<1>3. PICK buf \in Bufs(op, k) :
        /\ stack' = Append(stack, Call(op, dev, secno, buf))
        /\ asked' = IF op = "write"
                    THEN asked \cup {<<dev, secno + i - 1, buf[i]>> : i \in 1 .. k}
                    ELSE asked
  BY DEF StartCall
<1>4. PICK u : u = Call(op, dev, secno, buf)
  OBVIOUS
<1>5. stack' = <<u>>
  BY <1>2, <1>3, <1>4
<1>6. stack' # << >> /\ Top' = u
  BY <1>5 DEF Top
<1>7. /\ u.op = op /\ u.dev = dev /\ u.secno = secno /\ u.buf = buf
  BY <1>4 DEF Call
<1>8. Request' = [op |-> op, dev |-> dev, secno |-> secno, buf |-> buf]
  BY <1>6, <1>7 DEF Request
<1>9. buf \in [1 .. k -> IF op = "write" THEN Data ELSE {Null}]
  BY <1>3 DEF Bufs
<1>10. Request = Device!Idle
  BY <1>2, NoRequest
<1>11. /\ secno + k <= NSectors /\ failed' = {} /\ ret' = 0 /\ UNCHANGED media
  BY <1>2 DEF StartCall, hw
<1> QED
  BY <1>3, <1>8, <1>9, <1>10, <1>11 DEF Device!Begin

(***************************************************************************)
(* One that is out of range is refused.                                    *)
(***************************************************************************)
LEMMA RejectSimulation ==
    ASSUME IInv, MaxNest = 1, NEW op, NEW dev, NEW secno, NEW k,
           RejectCall(op, dev, secno, k)
    PROVE  Device!Refuse
<1>1. stack \in Seq(Calls) /\ Len(stack) < 1
  BY DEF IInv, TypeInv, RejectCall
<1>2. stack = << >> /\ stack' = stack
  BY <1>1 DEF RejectCall
<1>3. Request = Device!Idle /\ Request' = Request
  BY <1>2, NoRequest DEF Request, Top
<1>4. ret' = -1 /\ UNCHANGED <<media, asked, failed>>
  BY DEF RejectCall, hw, ghosts
<1> QED
  BY <1>3, <1>4 DEF Device!Refuse

(***************************************************************************)
(* A call that gives up is a request that failed.                          *)
(***************************************************************************)
LEMMA TimeoutSimulation ==
    ASSUME IInv, ReadyTimeout \/ WaitDataFails PROVE Device!Fail
<1>1. stack # << >> /\ Return(-1) /\ UNCHANGED <<media, asked, failed>>
  BY DEF ReadyTimeout, WaitDataFails, Running, hw, ghosts
<1>2. stack' = << >> /\ ret' = -1
  BY <1>1, ReturnFacts
<1>3. Request' = Device!Idle
  BY <1>2 DEF Request, Device!Idle
<1>4. PICK t \in Calls : t = Top
  BY <1>1, TopFacts
<1>5. Request # Device!Idle
  BY <1>1, <1>4, RequestFacts
<1> QED
  BY <1>1, <1>2, <1>3, <1>5 DEF Device!Fail

(***************************************************************************)
(* A call that is through its last sector is a request that succeeds: all  *)
(* its sectors are where DoneInv says.                                     *)
(***************************************************************************)
LEMMA NextSectorSimulation ==
    ASSUME IInv, NextSector
    PROVE  Device!Succeed \/ UNCHANGED <<media, asked, failed, Request, ret>>
<1>1. stack # << >> /\ Top.pc = "next" /\ UNCHANGED <<media, asked, failed>>
  BY DEF NextSector, Running, hw, ghosts
<1>2. PICK t \in Calls : t = Top /\ CallInv(t) /\ DoneInv(t)
  BY <1>1, TopFacts
<1>3. t.i \in Nat /\ Len(t.buf) \in Nat /\ t.i \in 1 .. Len(t.buf)
  BY <1>2, CallFields, LbaFacts
<1>4. /\ Request = RequestOf(t) /\ Request # Device!Idle
      /\ Request.op = t.op /\ Request.dev = t.dev /\ Request.secno = t.secno
      /\ Request.buf = t.buf
  BY <1>1, <1>2, RequestFacts
<1>5. CASE t.i < Len(t.buf)
  <2>1. PICK u : u = [t EXCEPT !.i = t.i + 1, !.pc = "ready"]
    OBVIOUS
  <2>2. SetTop(u) /\ UNCHANGED ret
    BY <1>2, <1>5, <2>1 DEF NextSector
  <2>3. u \in Calls
    <3>1. t.i + 1 \in Nat /\ "ready" \in Places
      BY <1>3 DEF Places
    <3> QED
      BY <2>1, <3>1 DEF Calls
  <2>4. u.op = t.op /\ u.dev = t.dev /\ u.secno = t.secno /\ u.buf = t.buf
    BY <2>1 DEF Calls
  <2>5. stack' # << >> /\ Top' = u
    BY <1>1, <2>2, <2>3, SetTopFacts
  <2>6. Request' = RequestOf(u)
    BY <2>5 DEF Request, RequestOf
  <2>7. Request' = Request
    BY <1>4, <2>4, <2>6 DEF RequestOf
  <2> QED
    BY <1>1, <2>2, <2>7
<1>6. CASE ~(t.i < Len(t.buf))
  <2>1. Return(0)
    BY <1>2, <1>6 DEF NextSector
  <2>2. stack' = << >> /\ ret' = 0
    BY <1>1, <2>1, ReturnFacts
  <2>3. Request' = Device!Idle
    BY <2>2 DEF Request, Device!Idle
  <2>4. t.i = Len(t.buf)
    BY <1>3, <1>6
  <2>5. \A j \in 1 .. Len(t.buf) : Stored(t, j)
    <3>1. \A j \in 1 .. Len(t.buf) : j < t.i \/ j = t.i
      BY <1>3, <2>4
    <3> QED
      BY <1>1, <1>2, <3>1 DEF DoneInv, Behind
  <2>6. \A j \in 1 .. Len(Request.buf) : Device!InPlace(j)
    <3>1. ASSUME NEW j \in 1 .. Len(t.buf) PROVE Device!InPlace(j)
      BY <1>4, <2>5, <3>1 DEF Device!InPlace, Device!Target, Stored, LbaOf
    <3> QED
      BY <1>4, <3>1
  <2>7. Device!Succeed
    BY <1>1, <1>4, <2>2, <2>3, <2>6 DEF Device!Succeed
  <2> QED
    BY <2>7
<1> QED
  BY <1>5, <1>6

(***************************************************************************)
(* insw() fills one sector of the buffer.                                  *)
(***************************************************************************)
LEMMA ReadSectorSimulation ==
    ASSUME IInv, ReadSector PROVE Device!Fill
<1>1. stack # << >> /\ UNCHANGED <<media, asked, failed, ret>>
  BY DEF ReadSector, Running, ghosts
<1>2. PICK t \in Calls : t = Top /\ CallInv(t) /\ PhaseInv(t)
  BY <1>1, TopFacts
<1>3. t.pc = "transfer" /\ t.op = "read"
  BY <1>2 DEF ReadSector, Running
<1>4. /\ sel[Chan(t.dev)] = t.dev /\ status[t.dev] = "drq"
      /\ cmd[t.dev].op = "read" /\ cmd[t.dev].lba = LbaOf(t, t.i)
  BY <1>2, <1>3 DEF PhaseInv, Commanded
<1>5. PICK x : x = media[t.dev][LbaOf(t, t.i)]
  OBVIOUS
<1>6. PICK b : b = [t.buf EXCEPT ![t.i] = x]
  OBVIOUS
<1>7. PICK u : u = [t EXCEPT !.pc = "next", !.buf = b]
  OBVIOUS
<1>8. SetTop(u)
  <2>1. SetTop([t EXCEPT !.pc = "next", !.buf[t.i] = x])
    BY <1>2, <1>4, <1>5 DEF ReadSector, Selected, C
  <2>2. u = [t EXCEPT !.pc = "next", !.buf[t.i] = x]
    BY <1>6, <1>7 DEF Calls
  <2> QED
    BY <2>1, <2>2
<1>9. /\ HwType /\ t.dev \in Drives
      /\ t.i \in 1 .. Len(t.buf) /\ LbaOf(t, t.i) \in Sectors
      /\ t.buf \in Seq(Cells \cup {Null})
  BY <1>2, CallFields, LbaFacts DEF IInv, TypeInv
<1>10. x \in Data \cup {Old, Null} /\ x \in Cells \cup {Null}
  BY <1>5, <1>9 DEF HwType, Cells
<1>11. b \in Seq(Cells \cup {Null})
  BY <1>6, <1>9, <1>10, ExceptSeq
<1>12. u \in Calls
  <2>1. "next" \in Places
    BY DEF Places
  <2> QED
    BY <1>7, <1>11, <2>1 DEF Calls
<1>13. u.op = t.op /\ u.dev = t.dev /\ u.secno = t.secno /\ u.buf = b
  BY <1>7 DEF Calls
<1>14. stack' # << >> /\ Top' = u
  BY <1>1, <1>8, <1>12, SetTopFacts
<1>15. /\ Request = RequestOf(t) /\ Request.op = "read" /\ Request.buf = t.buf
  BY <1>1, <1>2, <1>3, RequestFacts
<1>16. Request' = [op |-> t.op, dev |-> t.dev, secno |-> t.secno, buf |-> b]
  BY <1>13, <1>14 DEF Request
<1>17. Request' = [Request EXCEPT !.buf = b]
  BY <1>15, <1>16 DEF RequestOf
<1>18. Request' = [Request EXCEPT !.buf[t.i] = x]
  BY <1>6, <1>15, <1>17 DEF RequestOf
<1> QED
  BY <1>1, <1>9, <1>10, <1>15, <1>18 DEF Device!Fill

(***************************************************************************)
(* A drive stores what some request asked to write there, or fails to.     *)
(***************************************************************************)
LEMMA StoreSimulation ==
    ASSUME IInv, NEW d \in Drives, DriveStore(d)
    PROVE  \E s \in Sectors : Device!Settle(d, s)
<1>1. PICK l, x : l = cmd[d].lba /\ x = cmd[d].data
  OBVIOUS
<1>2. /\ cmd[d].data # Null /\ UNCHANGED <<stack, ret, asked>>
      /\ \/ media' = [media EXCEPT ![d][l] = x] /\ failed' = failed \ {<<d, l>>}
         \/ UNCHANGED media /\ failed' = failed \cup {<<d, l>>}
  BY <1>1 DEF DriveStore
<1>3. HwType /\ DriveInv
  BY DEF IInv, TypeInv
<1>4. <<d, l, x>> \in asked
  BY <1>1, <1>2, <1>3 DEF DriveInv
<1>5. l \in Sectors /\ x \in Data
  BY <1>1, <1>2, <1>3 DEF HwType, Cmds
<1>6. Request' = Request
  BY <1>2 DEF Request, Top
<1> QED
  BY <1>2, <1>4, <1>5, <1>6 DEF Device!Settle

(***************************************************************************)
(* Every step of the disks is one of the abstract device, or invisible.    *)
(***************************************************************************)
LEMMA StepSimulation ==
    ASSUME MaxNest = 1, IInv, [Next]_vars
    PROVE  Device!BNext \/ UNCHANGED <<media, asked, failed, Request, ret>>
<1>1. ASSUME NEW op \in Ops, NEW dev \in Drives, NEW secno \in Sectors,
             NEW k \in 1 .. MaxSecs, StartCall(op, dev, secno, k)
      PROVE  Device!BNext
  BY <1>1, StartSimulation DEF Device!BNext, Device!BSectors, Sectors, Ops
<1>2. ASSUME NEW op \in Ops, NEW dev \in Drives, NEW secno \in Sectors,
             NEW k \in 1 .. MaxSecs, RejectCall(op, dev, secno, k)
      PROVE  Device!BNext
  BY <1>2, RejectSimulation DEF Device!BNext
<1>3. CASE ReadyTimeout \/ WaitDataFails
  BY <1>3, TimeoutSimulation DEF Device!BNext
<1>4. CASE NextSector
  BY <1>4, NextSectorSimulation DEF Device!BNext
<1>5. CASE ReadSector
  BY <1>5, ReadSectorSimulation DEF Device!BNext
<1>6. ASSUME NEW d \in Drives, DriveStore(d) PROVE Device!BNext
  BY <1>6, StoreSimulation DEF Device!BNext, Device!BSectors, Sectors
<1>7. CASE \/ DetectPresent \/ DetectFails \/ BlkInit
           \/ WaitReady \/ WaitComplete \/ WaitData
           \/ SetLba \/ SelectDrive \/ SendCommand \/ WriteSector
           \/ \E d \in Drives : DriveData(d)
  BY <1>7, QuietSimulation
<1>8. CASE UNCHANGED vars
  BY <1>8 DEF vars, hw, ghosts, Request, Top
<1> QED
  BY <1>1, <1>2, <1>3, <1>4, <1>5, <1>6, <1>7, <1>8 DEF Next, Driver

(***************************************************************************)
(* hd.c and blk.c over their drives implement a device that serves one     *)
(* request after the other: a read that succeeds has the contents of its   *)
(* sectors, and a sector only ever becomes what was asked for it.          *)
(***************************************************************************)
THEOREM Refinement == ASSUME MaxNest = 1 PROVE Spec => ImplementsBlockDevice
<1>1. Init => Device!BInit
  BY NoRequest DEF Init, Device!BInit, Device!BSectors, Sectors
<1>2. IInv /\ [Next]_vars => [Device!BNext]_(Device!bvars)
  BY StepSimulation DEF Device!bvars
<1> QED
  BY <1>1, <1>2, Invariance, PTL DEF Spec, ImplementsBlockDevice, Device!BSpec

-----------------------------------------------------------------------------
(***************************************************************************)
(* However deep calls nest.  What a call keeps to itself: its place in its *)
(* buffer, its sectors, and the data of a write.                           *)
(***************************************************************************)
InBounds(t) ==
    /\ t.i \in 1 .. Len(t.buf) /\ t.secno + Len(t.buf) <= NSectors
    /\ t.op = "write" => \A j \in 1 .. Len(t.buf) : t.buf[j] \in Data

NestedInv ==
    /\ BootType /\ HwType
    /\ stack \in Seq(Calls) /\ Len(stack) <= MaxNest
    /\ \A j \in 1 .. Len(stack) : InBounds(stack[j])
    /\ ret \in {0, -1}
    /\ asked \subseteq Drives \X Sectors \X Data

(***************************************************************************)
(* The sector that a call is at exists, and a write has data for it.       *)
(***************************************************************************)
LEMMA InBoundsFacts ==
    ASSUME NEW t \in Calls, InBounds(t)
    PROVE  /\ t.i \in 1 .. Len(t.buf) /\ t.i \in Nat /\ Len(t.buf) \in Nat
           /\ t.secno + t.i - 1 \in Sectors
           /\ t.op = "write" => t.buf[t.i] \in Data
<1>1. PICK s, n : s = t.secno /\ n = Len(t.buf)
  OBVIOUS
<1>2. s \in Nat /\ n \in Nat /\ t.i \in Nat
  BY <1>1, CallFields
<1>3. t.i \in 1 .. n /\ s + n <= NSectors
  BY <1>1 DEF InBounds
<1>4. s + t.i - 1 \in Sectors
  BY <1>2, <1>3, DiskAssumption DEF Sectors
<1> QED
  BY <1>1, <1>2, <1>3, <1>4 DEF InBounds

(***************************************************************************)
(* The running call is one of the calls.                                   *)
(***************************************************************************)
LEMMA NestedTop ==
    ASSUME NestedInv, stack # << >>
    PROVE  /\ Len(stack) \in 1 .. MaxNest /\ Len(stack) \in 1 .. Len(stack)
           /\ Top \in Calls /\ InBounds(Top)
<1>1. stack \in Seq(Calls) /\ Len(stack) \in Nat /\ Len(stack) <= MaxNest
  BY DEF NestedInv
<1>2. Len(stack) # 0
  <2>1. Len(stack) = 0 => stack = << >>
    BY <1>1
  <2> QED
    BY <2>1, Zenon
<1>3. Len(stack) \in 1 .. Len(stack) /\ Len(stack) \in 1 .. MaxNest
  BY <1>1, <1>2, DiskAssumption
<1>4. Top \in Calls
  BY <1>1, <1>3, ElementOfSeq DEF Top
<1> QED
  BY <1>3, <1>4 DEF NestedInv, Top

(***************************************************************************)
(* The running call moves on: the calls below it wait where they are.      *)
(***************************************************************************)
LEMMA NestedSetTop ==
    ASSUME NestedInv, stack # << >>, NEW u \in Calls, InBounds(u), SetTop(u),
           UNCHANGED <<boot, ret, asked>>, HwType'
    PROVE  NestedInv'
<1>1. /\ stack \in Seq(Calls) /\ Len(stack) <= MaxNest /\ Len(stack) \in 1 .. Len(stack)
      /\ \A j \in 1 .. Len(stack) : InBounds(stack[j])
  BY NestedTop DEF NestedInv
<1>2. /\ stack' \in Seq(Calls) /\ Len(stack') = Len(stack)
      /\ \A j \in 1 .. Len(stack) : stack'[j] = IF j = Len(stack) THEN u ELSE stack[j]
  BY <1>1, ExceptSeq DEF SetTop
<1>3. \A j \in 1 .. Len(stack) : InBounds(stack'[j])
  BY <1>1, <1>2
<1>4. UNCHANGED <<fitted, probe, present, registered>>
  BY DEF boot
<1> QED
  BY <1>1, <1>2, <1>3, <1>4 DEF NestedInv, BootType, InBounds

(***************************************************************************)
(* It moves on without leaving its sector.                                 *)
(***************************************************************************)
LEMMA NestedAdvance ==
    ASSUME NestedInv, stack # << >>, NEW pc \in Places, Advance(pc),
           UNCHANGED <<boot, ret, asked>>, HwType'
    PROVE  NestedInv'
<1>1. PICK t : t = Top
  OBVIOUS
<1>2. t \in Calls /\ InBounds(t)
  BY <1>1, NestedTop
<1>3. PICK u : u = [t EXCEPT !.pc = pc]
  OBVIOUS
<1>4. u \in Calls
  BY <1>2, <1>3 DEF Calls
<1>5. u.op = t.op /\ u.secno = t.secno /\ u.buf = t.buf /\ u.i = t.i
  BY <1>2, <1>3 DEF Calls
<1>6. InBounds(u)
  BY <1>2, <1>5 DEF InBounds
<1>7. SetTop(u)
  BY <1>1, <1>3 DEF Advance
<1> QED
  BY <1>4, <1>6, <1>7, NestedSetTop

(***************************************************************************)
(* It ends, and the call it interrupted goes on.                           *)
(***************************************************************************)
LEMMA NestedReturn ==
    ASSUME NestedInv, stack # << >>, NEW r \in {0, -1}, Return(r),
           UNCHANGED <<boot, asked>>, HwType'
    PROVE  NestedInv'
<1>1. /\ stack \in Seq(Calls) /\ Len(stack) <= MaxNest /\ Len(stack) \in 1 .. Len(stack)
      /\ Len(stack) \in Nat /\ \A j \in 1 .. Len(stack) : InBounds(stack[j])
  BY NestedTop DEF NestedInv
<1>2. PICK n \in Nat : n = Len(stack) - 1
  BY <1>1
<1>3. stack' = SubSeq(stack, 1, n) /\ ret' = r
  BY <1>2 DEF Return, Front
<1>4. \A j \in 1 .. n : j \in 1 .. Len(stack) /\ stack[j] \in Calls
  BY <1>1, <1>2
<1>5. /\ SubSeq(stack, 1, n) \in Seq(Calls)
      /\ Len(SubSeq(stack, 1, n)) = IF 1 <= n THEN n - 1 + 1 ELSE 0
      /\ \A j \in 1 .. n - 1 + 1 : SubSeq(stack, 1, n)[j] = stack[1 + j - 1]
  BY <1>4, SubSeqProperties
<1>6. /\ stack' \in Seq(Calls) /\ Len(stack') = n
      /\ \A j \in 1 .. n : stack'[j] = stack[j]
  BY <1>2, <1>3, <1>5
<1>7. Len(stack') <= MaxNest
  BY <1>1, <1>2, <1>6, DiskAssumption
<1>8. \A j \in 1 .. n : InBounds(stack'[j])
  BY <1>1, <1>4, <1>6
<1>9. UNCHANGED <<fitted, probe, present, registered>>
  BY DEF boot
<1> QED
  BY <1>3, <1>6, <1>7, <1>8, <1>9 DEF NestedInv, BootType, InBounds

(***************************************************************************)
(* A call begins, on top of those under way.                               *)
(***************************************************************************)
LEMMA NestedStart ==
    ASSUME NestedInv, NEW op \in Ops, NEW dev \in Drives, NEW secno \in Sectors,
           NEW k \in 1 .. MaxSecs, StartCall(op, dev, secno, k)
    PROVE  NestedInv'
<1>1. /\ stack \in Seq(Calls) /\ Len(stack) \in Nat /\ Len(stack) < MaxNest
      /\ k \in Nat \ {0} /\ secno \in Nat /\ secno + k <= NSectors
  BY DiskAssumption DEF NestedInv, StartCall, Sectors
<1>2. PICK buf \in Bufs(op, k) :
        /\ stack' = Append(stack, Call(op, dev, secno, buf))
        /\ asked' = (IF op = "write"
                     THEN asked \cup {<<dev, secno + i - 1, buf[i]>> : i \in 1 .. k}
                     ELSE asked)
  BY DEF StartCall
<1>3. /\ buf \in [1 .. k -> Cells \cup {Null}]
      /\ op = "write" => \A j \in 1 .. k : buf[j] \in Data
  BY <1>2 DEF Bufs, Cells
<1>4. buf \in Seq(Cells \cup {Null}) /\ Len(buf) = k
  BY <1>1, <1>3
<1>5. PICK u : u = Call(op, dev, secno, buf)
  OBVIOUS
<1>6. u \in Calls
  BY <1>4, <1>5 DEF Call, Calls, Places
<1>7. /\ u.op = op /\ u.secno = secno /\ u.buf = buf /\ u.i = 1
  BY <1>5 DEF Call
<1>8. InBounds(u)
  <2>1. 1 \in 1 .. k
    BY <1>1
  <2> QED
    BY <1>1, <1>3, <1>4, <1>7, <2>1 DEF InBounds
<1>9. /\ stack' \in Seq(Calls) /\ Len(stack') = Len(stack) + 1
      /\ \A j \in 1 .. Len(stack) : stack'[j] = stack[j]
      /\ stack'[Len(stack) + 1] = u
  BY <1>1, <1>2, <1>5, <1>6, AppendProperties
<1>10. \A j \in 1 .. Len(stack') : InBounds(stack'[j])
  <2>1. \A j \in 1 .. Len(stack) : InBounds(stack'[j])
    BY <1>9 DEF NestedInv
  <2>2. \A j \in 1 .. Len(stack') : j \in 1 .. Len(stack) \/ j = Len(stack) + 1
    BY <1>1, <1>9
  <2> QED
    BY <1>8, <1>9, <2>1, <2>2
<1>11. Len(stack') <= MaxNest
  BY <1>1, <1>9, DiskAssumption
<1>12. asked' \subseteq Drives \X Sectors \X Data
  <2>1. \A j \in 1 .. k : secno + j - 1 \in Sectors
    BY <1>1, DiskAssumption DEF Sectors
  <2>2. asked \subseteq Drives \X Sectors \X Data
    BY DEF NestedInv
  <2> QED
    BY <1>2, <1>3, <2>1, <2>2
<1>13. UNCHANGED <<fitted, probe, present, registered, sel, reg, status, cmd, media>>
       /\ (failed' = {} \/ failed' = failed) /\ ret' = 0
  BY DEF StartCall, boot, hw
<1>14. HwType'
  BY <1>13 DEF NestedInv, HwType
<1> QED
  BY <1>9, <1>10, <1>11, <1>12, <1>13, <1>14 DEF NestedInv, BootType, InBounds

(***************************************************************************)
(* Steps that only poll, give up, or go to the next sector.                *)
(***************************************************************************)
LEMMA NestedSoftware ==
    ASSUME NestedInv,
           \/ WaitReady \/ WaitComplete \/ WaitData
           \/ ReadyTimeout \/ WaitDataFails \/ NextSector
    PROVE  NestedInv'
<1>1. stack # << >> /\ UNCHANGED <<boot, hw, ghosts>>
  BY DEF WaitReady, WaitComplete, WaitData, ReadyTimeout, WaitDataFails, NextSector,
         Running
<1>2. UNCHANGED <<sel, reg, status, cmd, media, asked, failed>>
  BY <1>1 DEF hw, ghosts
<1>3. HwType'
  BY <1>2 DEF NestedInv, HwType
<1>4. {"lba", "next", "transfer"} \subseteq Places /\ 0 \in {0, -1} /\ -1 \in {0, -1}
  BY DEF Places
<1>5. CASE WaitReady \/ WaitComplete \/ WaitData
  <2>1. UNCHANGED ret /\ \E pc \in Places : Advance(pc)
    BY <1>4, <1>5 DEF WaitReady, WaitComplete, WaitData
  <2> QED
    BY <1>1, <1>2, <1>3, <2>1, NestedAdvance
<1>6. CASE ReadyTimeout \/ WaitDataFails
  <2>1. Return(-1)
    BY <1>6 DEF ReadyTimeout, WaitDataFails
  <2> QED
    BY <1>1, <1>2, <1>3, <1>4, <2>1, NestedReturn
<1>7. CASE NextSector
  <2>1. PICK t : t = Top
    OBVIOUS
  <2>2. t \in Calls /\ InBounds(t)
    BY <1>1, <2>1, NestedTop
  <2>3. t.i \in 1 .. Len(t.buf) /\ t.i \in Nat /\ Len(t.buf) \in Nat
    BY <2>2, InBoundsFacts
  <2>4. CASE t.i < Len(t.buf)
    <3>1. PICK u : u = [t EXCEPT !.i = t.i + 1, !.pc = "ready"]
      OBVIOUS
    <3>2. SetTop(u) /\ UNCHANGED ret
      BY <1>7, <2>1, <2>4, <3>1 DEF NextSector
    <3>3. t.i + 1 \in 1 .. Len(t.buf) /\ t.i + 1 \in Nat /\ "ready" \in Places
      BY <2>3, <2>4 DEF Places
    <3>4. u \in Calls
      BY <2>2, <3>1, <3>3 DEF Calls
    <3>5. u.op = t.op /\ u.secno = t.secno /\ u.buf = t.buf /\ u.i = t.i + 1
      BY <2>2, <3>1 DEF Calls
    <3>6. InBounds(u)
      BY <2>2, <3>3, <3>5 DEF InBounds
    <3> QED
      BY <1>1, <1>2, <1>3, <3>2, <3>4, <3>6, NestedSetTop
  <2>5. CASE ~(t.i < Len(t.buf))
    <3>1. Return(0)
      BY <1>7, <2>1, <2>5 DEF NextSector
    <3> QED
      BY <1>1, <1>2, <1>3, <1>4, <3>1, NestedReturn
  <2> QED
    BY <2>4, <2>5
<1> QED
  BY <1>5, <1>6, <1>7

(***************************************************************************)
(* One drive's status and command change, or none.                         *)
(***************************************************************************)
LEMMA DriveTypes ==
    ASSUME HwType, NEW d \in Drives, NEW s \in Statuses, NEW m \in Cmds,
           \/ UNCHANGED <<status, cmd>>
           \/ status' = [status EXCEPT ![d] = s] /\ cmd' = [cmd EXCEPT ![d] = m]
    PROVE  status' \in [Drives -> Statuses] /\ cmd' \in [Drives -> Cmds]
<1>1. status \in [Drives -> Statuses] /\ cmd \in [Drives -> Cmds]
  BY DEF HwType
<1>2. CASE UNCHANGED <<status, cmd>>
  BY <1>1, <1>2
<1>3. CASE status' = [status EXCEPT ![d] = s] /\ cmd' = [cmd EXCEPT ![d] = m]
  BY <1>1, <1>3
<1> QED
  BY <1>2, <1>3

(***************************************************************************)
(* Steps that write the registers of a channel or send a command: what     *)
(* they leave there for an interrupted call is a sector and a drive too.   *)
(***************************************************************************)
LEMMA NestedRegisters ==
    ASSUME NestedInv, SetLba \/ SelectDrive \/ SendCommand \/ WriteSector
    PROVE  NestedInv'
<1>1. stack # << >>
  BY DEF SetLba, SelectDrive, SendCommand, WriteSector, Running
<1>2. PICK t : t = Top
  OBVIOUS
<1>3. t \in Calls /\ InBounds(t)
  BY <1>1, <1>2, NestedTop
<1>4. /\ t.op \in Ops /\ t.dev \in Drives /\ Chan(t.dev) \in Chans
      /\ t.secno + t.i - 1 \in Sectors /\ (t.op = "write" => t.buf[t.i] \in Data)
  BY <1>3, CallFields, InBoundsFacts
<1>5. HwType /\ C = Chan(t.dev) /\ Lba = t.secno + t.i - 1 /\ Selected \in Drives
  BY <1>2, <1>4 DEF NestedInv, HwType, C, Lba, Selected
<1>6. UNCHANGED <<boot, ret, asked, failed, media>>
  BY DEF SetLba, SelectDrive, SendCommand, WriteSector, ghosts
<1>7. \E pc \in Places : Advance(pc)
  BY DEF SetLba, SelectDrive, SendCommand, WriteSector, Places
<1>8. HwType'
  <2>1. CASE SetLba
    <3>1. reg' = [reg EXCEPT ![Chan(t.dev)] = t.secno + t.i - 1]
          /\ UNCHANGED <<sel, status, cmd>>
      BY <1>5, <2>1 DEF SetLba
    <3>2. reg' \in [Chans -> Sectors]
      BY <1>4, <1>5, <3>1 DEF HwType
    <3> QED
      BY <1>5, <1>6, <3>1, <3>2 DEF HwType
  <2>2. CASE SelectDrive
    <3>1. sel' = [sel EXCEPT ![Chan(t.dev)] = t.dev] /\ UNCHANGED <<reg, status, cmd>>
      BY <1>2, <1>5, <2>2 DEF SelectDrive
    <3>2. sel' \in [Chans -> Drives] /\ \A c \in Chans : Chan(sel'[c]) = c
      BY <1>4, <1>5, <3>1 DEF HwType
    <3> QED
      BY <1>5, <1>6, <3>1, <3>2 DEF HwType
  <2>3. CASE SendCommand
    <3>1. PICK d \in Drives : d = Selected
      BY <1>5
    <3>2. reg[C] \in Sectors
      BY <1>4, <1>5 DEF HwType
    <3>3. PICK m : m = [op |-> t.op, lba |-> reg[C], data |-> Null]
      OBVIOUS
    <3>4. m \in Cmds
      BY <1>4, <3>2, <3>3 DEF Cmds
    <3>5. \/ UNCHANGED <<status, cmd>>
          \/ status' = [status EXCEPT ![d] = "busy"] /\ cmd' = [cmd EXCEPT ![d] = m]
      BY <1>2, <2>3, <3>1, <3>3 DEF SendCommand
    <3>6. status' \in [Drives -> Statuses] /\ cmd' \in [Drives -> Cmds]
      <4>1. "busy" \in Statuses
        BY DEF Statuses
      <4> QED
        BY <1>5, <3>4, <3>5, <4>1, DriveTypes
    <3> QED
      BY <1>5, <1>6, <2>3, <3>6 DEF HwType, SendCommand
  <2>4. CASE WriteSector
    <3>1. PICK d \in Drives : d = Selected
      BY <1>5
    <3>2. PICK m \in Cmds : m = cmd[d]
      BY <1>5 DEF HwType
    <3>3. t.buf[t.i] \in Data
      BY <1>2, <1>4, <2>4 DEF WriteSector
    <3>4. PICK n : n = [m EXCEPT !.data = t.buf[t.i]]
      OBVIOUS
    <3>5. n \in Cmds
      BY <3>3, <3>4 DEF Cmds
    <3>6. \/ UNCHANGED <<status, cmd>>
          \/ status' = [status EXCEPT ![d] = "busy"] /\ cmd' = [cmd EXCEPT ![d] = n]
      BY <1>2, <1>5, <2>4, <3>1, <3>2, <3>4 DEF WriteSector, HwType
    <3>7. status' \in [Drives -> Statuses] /\ cmd' \in [Drives -> Cmds]
      <4>1. "busy" \in Statuses
        BY DEF Statuses
      <4> QED
        BY <1>5, <3>5, <3>6, <4>1, DriveTypes
    <3> QED
      BY <1>5, <1>6, <2>4, <3>7 DEF HwType, WriteSector
  <2> QED
    BY <2>1, <2>2, <2>3, <2>4
<1> QED
  BY <1>1, <1>6, <1>7, <1>8, NestedAdvance

(***************************************************************************)
(* insw() from whichever drive is selected.                                *)
(***************************************************************************)
LEMMA NestedReadSector ==
    ASSUME NestedInv, ReadSector
    PROVE  NestedInv'
<1>1. stack # << >> /\ UNCHANGED <<boot, sel, reg, media, ret, asked, failed>>
  BY DEF ReadSector, Running, ghosts
<1>2. PICK t : t = Top
  OBVIOUS
<1>3. t \in Calls /\ InBounds(t) /\ t.op = "read"
  BY <1>1, <1>2, NestedTop DEF ReadSector
<1>4. t.dev \in Drives /\ Chan(t.dev) \in Chans /\ t.i \in 1 .. Len(t.buf)
      /\ t.buf \in Seq(Cells \cup {Null})
  BY <1>3, CallFields, InBoundsFacts
<1>5. HwType /\ Selected \in Drives
  BY <1>2, <1>4 DEF NestedInv, HwType, C, Selected
<1>6. PICK d \in Drives : d = Selected
  BY <1>5
<1>7. PICK x : x = IF status[d] = "drq" /\ cmd[d].op = "read"
                   THEN media[d][cmd[d].lba] ELSE Null
  OBVIOUS
<1>8. x \in Cells \cup {Null}
  <2>1. cmd[d].lba \in Sectors
    BY <1>5 DEF HwType, Cmds
  <2> QED
    BY <1>5, <1>7, <2>1 DEF HwType
<1>9. PICK b : b = [t.buf EXCEPT ![t.i] = x]
  OBVIOUS
<1>10. b \in Seq(Cells \cup {Null}) /\ Len(b) = Len(t.buf)
  BY <1>4, <1>8, <1>9, ExceptSeq
<1>11. PICK u : u = [t EXCEPT !.pc = "next", !.buf = b]
  OBVIOUS
<1>12. SetTop(u)
  <2>1. SetTop([t EXCEPT !.pc = "next", !.buf[t.i] = x])
    BY <1>2, <1>6, <1>7 DEF ReadSector
  <2>2. u = [t EXCEPT !.pc = "next", !.buf[t.i] = x]
    BY <1>3, <1>9, <1>11 DEF Calls
  <2> QED
    BY <2>1, <2>2
<1>13. u \in Calls
  <2>1. "next" \in Places
    BY DEF Places
  <2> QED
    BY <1>3, <1>10, <1>11, <2>1 DEF Calls
<1>14. u.op = t.op /\ u.secno = t.secno /\ u.buf = b /\ u.i = t.i
  BY <1>3, <1>11 DEF Calls
<1>15. InBounds(u)
  BY <1>3, <1>10, <1>14 DEF InBounds
<1>16. HwType'
  <2>1. 0 \in Sectors
    BY DiskAssumption DEF Sectors
  <2>2. NoCmd \in Cmds
    BY <2>1 DEF NoCmd, Cmds
  <2>3. \/ UNCHANGED <<status, cmd>>
        \/ status' = [status EXCEPT ![d] = "ready"] /\ cmd' = [cmd EXCEPT ![d] = NoCmd]
    BY <1>6 DEF ReadSector
  <2>4. status' \in [Drives -> Statuses] /\ cmd' \in [Drives -> Cmds]
    <3>1. "ready" \in Statuses
      BY DEF Statuses
    <3> QED
      BY <1>5, <2>2, <2>3, <3>1, DriveTypes
  <2> QED
    BY <1>1, <1>5, <2>4 DEF HwType
<1> QED
  BY <1>1, <1>12, <1>13, <1>15, <1>16, NestedSetTop

(***************************************************************************)
(* hd_init(), blk_init(), a refused call and the drives: no call moves.    *)
(***************************************************************************)
LEMMA NestedHardware ==
    ASSUME NestedInv,
           \/ DetectPresent \/ DetectFails \/ BlkInit
           \/ \E op, dev, secno, k : RejectCall(op, dev, secno, k)
           \/ \E d \in Drives : DriveData(d) \/ DriveStore(d)
    PROVE  NestedInv'
<1>1. UNCHANGED <<stack, asked, fitted>> /\ (UNCHANGED ret \/ ret' = -1)
  BY DEF DetectPresent, DetectFails, Probe, BlkInit, RejectCall, DriveData, DriveStore,
         ghosts, boot
<1>2. BootType /\ HwType
  BY DEF NestedInv
<1>3. 0 \in Sectors
  BY DiskAssumption DEF Sectors
<1>4. NoCmd \in Cmds
  BY <1>3 DEF NoCmd, Cmds
<1>5. BootType' /\ HwType'
  <2>1. CASE DetectPresent \/ DetectFails
    <3>1. /\ probe < NDrives /\ sel' = [sel EXCEPT ![Chan(probe)] = probe]
          /\ probe' = probe + 1
          /\ UNCHANGED <<registered, reg, media, failed>>
      BY <2>1 DEF DetectPresent, DetectFails, Probe, ghosts
    <3>2. probe \in Drives /\ probe' \in 0 .. NDrives
      BY <1>2, <3>1, DiskAssumption DEF BootType, Drives
    <3>3. /\ sel' \in [Chans -> Drives] /\ \A c \in Chans : Chan(sel'[c]) = c
      BY <1>2, <3>1, <3>2, ChanFacts DEF HwType
    <3>4. CASE UNCHANGED <<status, cmd>>
      <4>1. \/ present' = present \cup {probe} /\ probe \in fitted
            \/ UNCHANGED present
        BY <2>1 DEF DetectPresent, DetectFails
      <4> QED
        BY <1>1, <1>2, <3>1, <3>2, <3>3, <3>4, <4>1 DEF BootType, HwType
    <3>5. CASE DetectFails /\ ~UNCHANGED <<status, cmd>>
      <4>1. PICK s \in {"busy", "err"} : status' = [status EXCEPT ![probe] = s]
        BY <3>5 DEF DetectFails
      <4>2. cmd' = [cmd EXCEPT ![probe].op = "identify"] /\ UNCHANGED present
        BY <3>5 DEF DetectFails
      <4>3. PICK k \in Cmds : k = cmd[probe]
        BY <1>2, <3>2 DEF HwType
      <4>4. PICK m : m = [k EXCEPT !.op = "identify"]
        OBVIOUS
      <4>5. m \in Cmds
        BY <4>3, <4>4 DEF Cmds
      <4>6. cmd' = [cmd EXCEPT ![probe] = m]
        BY <1>2, <3>2, <4>2, <4>3, <4>4 DEF HwType
      <4>7. cmd' \in [Drives -> Cmds] /\ status' \in [Drives -> Statuses]
        BY <1>2, <3>2, <4>1, <4>5, <4>6 DEF HwType, Statuses
      <4> QED
        BY <1>1, <1>2, <3>1, <3>2, <3>3, <4>2, <4>7 DEF BootType, HwType
    <3> QED
      BY <2>1, <3>4, <3>5 DEF DetectPresent
  <2>2. CASE BlkInit
    <3>1. registered' \subseteq present
      BY <2>2 DEF BlkInit
    <3>2. UNCHANGED <<probe, present, sel, reg, status, cmd, media, failed>>
      BY <2>2 DEF BlkInit, hw, ghosts
    <3> QED
      BY <1>1, <1>2, <3>1, <3>2 DEF BootType, HwType
  <2>3. CASE \E op, dev, secno, k : RejectCall(op, dev, secno, k)
    <3>1. UNCHANGED <<probe, present, registered, sel, reg, status, cmd, media, failed>>
      BY <2>3 DEF RejectCall, boot, hw, ghosts
    <3> QED
      BY <1>1, <1>2, <3>1 DEF BootType, HwType
  <2>4. ASSUME NEW d \in Drives, DriveData(d) PROVE BootType' /\ HwType'
    <3>1. PICK s \in {"drq", "err"} : status' = [status EXCEPT ![d] = s]
      BY <2>4 DEF DriveData
    <3>2. UNCHANGED <<probe, present, registered, sel, reg, cmd, media, failed>>
      BY <2>4 DEF DriveData, boot, ghosts
    <3>3. status' \in [Drives -> Statuses]
      BY <1>2, <3>1 DEF HwType, Statuses
    <3> QED
      BY <1>1, <1>2, <3>2, <3>3 DEF BootType, HwType
  <2>5. ASSUME NEW d \in Drives, DriveStore(d) PROVE BootType' /\ HwType'
    <3>1. PICK l, x : l = cmd[d].lba /\ x = cmd[d].data
      OBVIOUS
    <3>2. PICK s : /\ s \in {"ready", "err"} /\ status' = [status EXCEPT ![d] = s]
                   /\ \/ /\ media' = [media EXCEPT ![d][l] = x]
                         /\ failed' = failed \ {<<d, l>>}
                      \/ failed' = failed \cup {<<d, l>>} /\ UNCHANGED media
      BY <2>5, <3>1 DEF DriveStore
    <3>3. /\ cmd' = [cmd EXCEPT ![d] = NoCmd] /\ cmd[d].data # Null
          /\ UNCHANGED <<probe, present, registered, sel, reg>>
      BY <2>5 DEF DriveStore, boot
    <3>4. l \in Sectors /\ x \in Data
      BY <1>2, <3>1, <3>3 DEF HwType, Cmds
    <3>5. status' \in [Drives -> Statuses] /\ cmd' \in [Drives -> Cmds]
      BY <1>2, <1>4, <3>2, <3>3 DEF HwType, Statuses
    <3>6. media' \in [Drives -> [Sectors -> Cells]]
      BY <1>2, <3>2, <3>4 DEF HwType, Cells
    <3>7. failed' \subseteq Drives \X Sectors
      BY <1>2, <3>2, <3>4 DEF HwType
    <3> QED
      BY <1>1, <1>2, <3>3, <3>5, <3>6, <3>7 DEF BootType, HwType
  <2> QED
    BY <2>1, <2>2, <2>3, <2>4, <2>5
<1> QED
  BY <1>1, <1>5 DEF NestedInv, InBounds

(***************************************************************************)
(* Every step, at any depth.                                               *)
(***************************************************************************)
LEMMA NestedNext == ASSUME NestedInv, [Next]_vars PROVE NestedInv'
<1>1. CASE \E op \in Ops, dev \in Drives, secno \in Sectors, k \in 1 .. MaxSecs :
              StartCall(op, dev, secno, k)
  BY <1>1, NestedStart
<1>2. CASE \/ DetectPresent \/ DetectFails \/ BlkInit
           \/ \E op, dev, secno, k : RejectCall(op, dev, secno, k)
           \/ \E d \in Drives : DriveData(d) \/ DriveStore(d)
  BY <1>2, NestedHardware
<1>3. CASE Driver
  <2>1. CASE \/ WaitReady \/ WaitComplete \/ WaitData
             \/ ReadyTimeout \/ WaitDataFails \/ NextSector
    BY <2>1, NestedSoftware
  <2>2. CASE SetLba \/ SelectDrive \/ SendCommand \/ WriteSector
    BY <2>2, NestedRegisters
  <2>3. CASE ReadSector
    BY <2>3, NestedReadSector
  <2> QED
    BY <1>3, <2>1, <2>2, <2>3 DEF Driver
<1>4. CASE UNCHANGED vars
  <2>1. UNCHANGED <<fitted, probe, present, registered, sel, reg, status, cmd, media,
                    stack, ret, asked, failed>>
    BY <1>4 DEF vars, boot, hw, ghosts
  <2> QED
    BY <2>1 DEF NestedInv, BootType, HwType, InBounds
<1> QED
  BY <1>1, <1>2, <1>3, <1>4 DEF Next

(***************************************************************************)
(* The driver's variables keep their types, also when calls interrupt      *)
(* calls: the LBA registers hold sectors of the drive, transfers stay      *)
(* inside the caller's buffer, and only drives that were found are         *)
(* registered.                                                             *)
(***************************************************************************)
THEOREM TypeCorrect == Spec => []TypeOK
<1>1. Init => NestedInv
  <2> SUFFICES ASSUME Init PROVE NestedInv
    OBVIOUS
  <2>1. IInv /\ stack = << >>
    BY InitIInv DEF Init
  <2>2. 0 <= MaxNest
    BY DiskAssumption
  <2> QED
    BY <2>1, <2>2 DEF NestedInv, IInv, TypeInv
<1>2. NestedInv => TypeOK
  <2> SUFFICES ASSUME NestedInv PROVE TypeOK
    OBVIOUS
  <2>1. BootType /\ HwType
    BY DEF NestedInv
  <2>2. \A d \in Drives : /\ cmd[d].op \in Ops \cup {"identify", Null}
                          /\ cmd[d].lba \in Sectors
                          /\ cmd[d].data \in Data \cup {Null}
    BY <2>1 DEF HwType, Cmds
  <2>3. \A j \in 1 .. Len(stack) : /\ stack[j].op \in Ops /\ stack[j].pc \in Places
                                   /\ stack[j].i \in 1 .. Len(stack[j].buf)
    <3>1. ASSUME NEW j \in 1 .. Len(stack)
          PROVE  /\ stack[j].op \in Ops /\ stack[j].pc \in Places
                 /\ stack[j].i \in 1 .. Len(stack[j].buf)
      <4>1. PICK t : t = stack[j]
        OBVIOUS
      <4>2. t \in Calls /\ InBounds(t)
        BY <4>1, ElementOfSeq DEF NestedInv
      <4> QED
        BY <4>1, <4>2, CallFields DEF InBounds
    <3> QED
      BY <3>1
  <2>4. /\ \A c \in Chans : sel[c] \in Drives /\ Chan(sel[c]) = c
        /\ reg \in [Chans -> Sectors] /\ status \in [Drives -> Statuses]
        /\ failed \subseteq Drives \X Sectors
    BY <2>1 DEF HwType
  <2>5. media \in [Drives -> [Sectors -> Data \cup {Old}]]
    BY <2>1 DEF HwType, Cells
  <2>6. /\ fitted \subseteq Drives /\ present \subseteq fitted /\ probe \in 0 .. NDrives
        /\ registered = Null \/ registered \subseteq present
    BY <2>1 DEF BootType
  <2>7. /\ Len(stack) <= MaxNest /\ ret \in {0, -1}
        /\ asked \subseteq Drives \X Sectors \X Data
    BY DEF NestedInv
  <2> QED
    BY <2>2, <2>3, <2>4, <2>5, <2>6, <2>7 DEF TypeOK
<1> QED
  BY <1>1, <1>2, NestedNext, PTL DEF Spec
=============================================================================

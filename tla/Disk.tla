-------------------------------- MODULE Disk --------------------------------
(***************************************************************************)
(* Disks: the polling IDE driver kern/drivers/hd.c, the block layer        *)
(* kern/drivers/blk.c above it and the ATA drives below it.                *)
(*                                                                         *)
(* Two drives share a channel, that is one set of registers; a drive       *)
(* answers when it likes, and the driver gives up when it has polled long  *)
(* enough.  The driver runs with interrupts enabled, and a shell command   *)
(* runs inside the keyboard interrupt, so a call may start while another   *)
(* one is anywhere in its course; the new one runs to its end first.  The  *)
(* calls form a stack.                                                     *)
(***************************************************************************)
EXTENDS Integers, Sequences, FiniteSets, SequencesExt

CONSTANTS NDrives,      \* MAX_IDE_DEVICES
          NSectors,     \* the size of every drive
          MaxSecs,      \* bound: sectors in one call
          Data,         \* what callers write into a sector
          Old,          \* what every sector holds at the start
          MaxNest,      \* bound: calls under way at the same time
          TestSector,   \* the sector hd_test() uses
          MediaErrors,  \* can a drive fail to store a sector it was given?
          Null

ASSUME DiskAssumption ==
    /\ NDrives \in Nat \ {0} /\ NSectors \in Nat \ {0} /\ MaxSecs \in Nat \ {0}
    /\ Old \notin Data /\ Null \notin Data \cup {Old}
    /\ MaxNest \in Nat \ {0} /\ TestSector \in 0 .. NSectors - 1
    /\ MediaErrors \in BOOLEAN

Drives == 0 .. NDrives - 1

Sectors == 0 .. NSectors - 1

Chan(d) == d \div 2

Chans == {Chan(d) : d \in Drives}

Ops == {"read", "write"}

(***************************************************************************)
(* BSY set; DRQ; ERR; none of them (these three have DRDY set); or 0 or    *)
(* 0xFF, what hd_detect_device() expects to read where there is no drive.  *)
(***************************************************************************)
Statuses == {"busy", "drq", "err", "ready", "none"}

NotReady == {"busy", "none"}

(***************************************************************************)
(* Where a call is: polling until the drive is ready, writing the LBA and  *)
(* the device register, sending the command, polling for data, moving a    *)
(* sector, polling for the end of a write, at the end of an iteration.     *)
(***************************************************************************)
Places == {"ready", "lba", "select", "command", "wait", "transfer", "complete",
           "next"}

VARIABLES fitted,       \* the drives that are really there
          probe,        \* hd_init()'s loop counter
          present,      \* ide_devices[].present
          registered,   \* the drives in block_devices, or Null before blk_init
          sel, reg,     \* per channel: the selected drive, the LBA registers
          status, cmd,  \* per drive: its status, the command it works on
          media,        \* the sectors
          stack,        \* the calls under way, the running one last
          ret,          \* what the last call returned; 0 when one begins
          asked,        \* what callers asked to write and where, and the
          failed        \* stores that failed since the outer call began (neither
                        \* is in the code)

hw == <<sel, reg, status, cmd, media>>

boot == <<fitted, probe, present, registered>>

ghosts == <<asked, failed>>

vars == <<boot, hw, stack, ret, ghosts>>

NoCmd == [op |-> Null, lba |-> 0, data |-> Null]

Call(op, dev, secno, buf) ==
    [op |-> op, dev |-> dev, secno |-> secno, buf |-> buf, i |-> 1, pc |-> "ready"]

(***************************************************************************)
(* An absent drive reads as "none", or as idle (Bochs keeps registers for  *)
(* it), but never does anything.                                           *)
(***************************************************************************)
Init ==
    /\ fitted \in SUBSET Drives
    /\ probe = 0
    /\ present = {}
    /\ registered = Null
    /\ sel = [c \in Chans |-> 2 * c]
    /\ reg = [c \in Chans |-> 0]
    /\ status \in {s \in [Drives -> {"ready", "none"}] :
                     \A d \in fitted : s[d] = "ready"}
    /\ cmd = [d \in Drives |-> NoCmd]
    /\ media = [d \in Drives |-> [s \in Sectors |-> Old]]
    /\ stack = <<>>
    /\ ret = 0
    /\ asked = {} /\ failed = {}

-----------------------------------------------------------------------------
(***************************************************************************)
(* hd_init(): every drive is selected and asked to identify itself.  One   *)
(* that answers is present; one that fails, or is still at it when the     *)
(* timeout ends, is not; where there is none, the selection is all that    *)
(* remains.                                                                *)
(***************************************************************************)
Probe ==
    /\ probe < NDrives
    /\ sel' = [sel EXCEPT ![Chan(probe)] = probe]
    /\ probe' = probe + 1
    /\ UNCHANGED <<fitted, registered, reg, media, stack, ret, ghosts>>

DetectPresent ==
    /\ Probe
    /\ probe \in fitted
    /\ present' = present \cup {probe}
    /\ UNCHANGED <<status, cmd>>

DetectFails ==
    /\ Probe
    /\ \/ probe \notin fitted /\ UNCHANGED <<status, cmd>>
       \/ /\ probe \in fitted
          /\ \E s \in {"busy", "err"} : status' = [status EXCEPT ![probe] = s]
          /\ cmd' = [cmd EXCEPT ![probe].op = "identify"]
    /\ UNCHANGED present

(***************************************************************************)
(* blk_init(): the drives below the number of drives found are registered. *)
(***************************************************************************)
BlkInit ==
    /\ probe = NDrives /\ registered = Null
    /\ LET num_hd == Cardinality(present)
       IN registered' = {i \in present : i < num_hd}
    /\ UNCHANGED <<fitted, probe, present, hw, stack, ret, ghosts>>

-----------------------------------------------------------------------------
Bufs(op, k) == IF op = "write" THEN [1 .. k -> Data] ELSE [1 .. k -> {Null}]

(***************************************************************************)
(* hd_read_device() and hd_write_device(), for the block layer's clients   *)
(* and for hd_test(), which is the one that may interrupt another call.    *)
(***************************************************************************)
Callers(dev, secno, k) ==
    \/ stack = <<>> /\ dev \in registered
    \/ dev \in present /\ secno = TestSector /\ k = 1

StartCall(op, dev, secno, k) ==
    /\ registered # Null
    /\ Len(stack) < MaxNest
    /\ Callers(dev, secno, k)
    /\ secno + k <= NSectors
    /\ \E buf \in Bufs(op, k) :
          /\ stack' = Append(stack, Call(op, dev, secno, buf))
          /\ asked' = IF op = "write"
                      THEN asked \cup {<<dev, secno + i - 1, buf[i]>> : i \in 1 .. k}
                      ELSE asked
    /\ failed' = IF stack = <<>> THEN {} ELSE failed
    /\ ret' = 0
    /\ UNCHANGED <<boot, hw>>

(***************************************************************************)
(* The range check, before anything else happens.                          *)
(***************************************************************************)
RejectCall(op, dev, secno, k) ==
    /\ registered # Null
    /\ Len(stack) < MaxNest
    /\ Callers(dev, secno, k)
    /\ secno + k > NSectors
    /\ ret' = -1
    /\ UNCHANGED <<boot, hw, stack, ghosts>>

-----------------------------------------------------------------------------
Top == stack[Len(stack)]

Running(pc) == stack # <<>> /\ Top.pc = pc

SetTop(call) == stack' = [stack EXCEPT ![Len(stack)] = call]

Advance(pc) == SetTop([Top EXCEPT !.pc = pc])

Return(r) == stack' = Front(stack) /\ ret' = r

(* Mutant: the LBA counts from the start of the drive. *)
LbaFromStart == Top.i - 1

(***************************************************************************)
(* The channel of the running call, the drive that answers on it (which    *)
(* is the selected one, whichever the call is for), and the sector.        *)
(***************************************************************************)
C == Chan(Top.dev)

Selected == sel[C]

Lba == Top.secno + Top.i - 1

(* Mutant: one sector too many. *)
NextSectorExtra ==
    /\ Running("next")
    /\ IF Top.i <= Len(Top.buf)
       THEN /\ SetTop([Top EXCEPT !.i = @ + 1, !.pc = "ready"])
            /\ UNCHANGED ret
       ELSE Return(0)
    /\ UNCHANGED <<boot, hw, ghosts>>

(***************************************************************************)
(* The end of a loop iteration: the next sector, or return 0.              *)
(***************************************************************************)
NextSector ==
    /\ Running("next")
    /\ IF Top.i < Len(Top.buf)
       THEN /\ SetTop([Top EXCEPT !.i = @ + 1, !.pc = "ready"])
            /\ UNCHANGED ret
       ELSE Return(0)
    /\ UNCHANGED <<boot, hw, ghosts>>

(* Mutants: no test of BSY; a loop without a timeout. *)
WaitReadyUntested ==
    /\ Running("ready")
    /\ Advance("lba")
    /\ UNCHANGED <<boot, hw, ret, ghosts>>

ReadyTimeoutNever ==
    /\ Running("ready") \/ Running("complete")
    /\ FALSE
    /\ Return(-1)
    /\ UNCHANGED <<boot, hw, ghosts>>

(***************************************************************************)
(* hd_wait_ready_on_base(): BSY clear and DRDY set, whatever else; its two *)
(* uses, and the timeout of either.                                        *)
(***************************************************************************)
WaitReady ==
    /\ Running("ready")
    /\ status[Selected] \notin NotReady
    /\ Advance("lba")
    /\ UNCHANGED <<boot, hw, ret, ghosts>>

WaitComplete ==
    /\ Running("complete")
    /\ status[Selected] \notin NotReady
    /\ Advance("next")
    /\ UNCHANGED <<boot, hw, ret, ghosts>>

ReadyTimeout ==
    /\ Running("ready") \/ Running("complete")
    /\ status[Selected] \in NotReady
    /\ Return(-1)
    /\ UNCHANGED <<boot, hw, ghosts>>

SetLba ==
    /\ Running("lba")
    /\ reg' = [reg EXCEPT ![C] = Lba]
    /\ Advance("select")
    /\ UNCHANGED <<boot, sel, status, cmd, media, ret, ghosts>>

(* Mutant: the master is always selected. *)
SelectDriveMaster ==
    /\ Running("select")
    /\ sel' = [sel EXCEPT ![C] = 2 * C]
    /\ Advance("command")
    /\ UNCHANGED <<boot, reg, status, cmd, media, ret, ghosts>>

SelectDrive ==
    /\ Running("select")
    /\ sel' = [sel EXCEPT ![C] = Top.dev]
    /\ Advance("command")
    /\ UNCHANGED <<boot, reg, status, cmd, media, ret, ghosts>>

(***************************************************************************)
(* A drive that is busy ignores the command; otherwise it drops what it    *)
(* was doing.                                                              *)
(***************************************************************************)
SendCommand ==
    /\ Running("command")
    /\ LET d == Selected IN
       IF status[d] = "busy"
       THEN UNCHANGED <<status, cmd>>
       ELSE /\ status' = [status EXCEPT ![d] = "busy"]
            /\ cmd' = [cmd EXCEPT ![d] =
                          [op |-> Top.op, lba |-> reg[C], data |-> Null]]
    /\ Advance("wait")
    /\ UNCHANGED <<boot, sel, reg, media, ret, ghosts>>

(***************************************************************************)
(* hd_wait_data_on_base(): DRQ; ERR; or neither until the timeout.         *)
(***************************************************************************)
WaitData ==
    /\ Running("wait")
    /\ status[Selected] = "drq"
    /\ Advance("transfer")
    /\ UNCHANGED <<boot, hw, ret, ghosts>>

WaitDataFails ==
    /\ Running("wait")
    /\ status[Selected] # "drq"
    /\ Return(-1)
    /\ UNCHANGED <<boot, hw, ghosts>>

(***************************************************************************)
(* insw(): the data register of the selected drive.  A drive that is not   *)
(* in the data phase of a read supplies nothing meaningful.                *)
(***************************************************************************)
ReadSector ==
    /\ Running("transfer") /\ Top.op = "read"
    /\ LET d == Selected
           answers == status[d] = "drq" /\ cmd[d].op = "read"
       IN /\ SetTop([Top EXCEPT !.pc = "next", !.buf[Top.i] =
                        IF answers THEN media[d][cmd[d].lba] ELSE Null])
          /\ IF answers
             THEN /\ status' = [status EXCEPT ![d] = "ready"]
                  /\ cmd' = [cmd EXCEPT ![d] = NoCmd]
             ELSE UNCHANGED <<status, cmd>>
    /\ UNCHANGED <<boot, sel, reg, media, ret, ghosts>>

(* Mutant: no wait for the end of the write. *)
WriteSectorUnwaited ==
    /\ Running("transfer") /\ Top.op = "write"
    /\ LET d == Selected IN
       IF status[d] = "drq" /\ cmd[d].op = "write"
       THEN /\ status' = [status EXCEPT ![d] = "busy"]
            /\ cmd' = [cmd EXCEPT ![d].data = Top.buf[Top.i]]
       ELSE UNCHANGED <<status, cmd>>
    /\ Advance("next")
    /\ UNCHANGED <<boot, sel, reg, media, ret, ghosts>>

(***************************************************************************)
(* outsw(), likewise.                                                      *)
(***************************************************************************)
WriteSector ==
    /\ Running("transfer") /\ Top.op = "write"
    /\ LET d == Selected IN
       IF status[d] = "drq" /\ cmd[d].op = "write"
       THEN /\ status' = [status EXCEPT ![d] = "busy"]
            /\ cmd' = [cmd EXCEPT ![d].data = Top.buf[Top.i]]
       ELSE UNCHANGED <<status, cmd>>
    /\ Advance("complete")
    /\ UNCHANGED <<boot, sel, reg, media, ret, ghosts>>

Driver ==
    \/ NextSector \/ WaitReady \/ WaitComplete \/ ReadyTimeout
    \/ SetLba \/ SelectDrive \/ SendCommand \/ WaitData \/ WaitDataFails \/ ReadSector \/ WriteSector

-----------------------------------------------------------------------------
(***************************************************************************)
(* The drives.  A busy drive asks for the data phase of its command, or    *)
(* fails; once it has the data of a write it stores them, or fails if      *)
(* MediaErrors.                                                            *)
(***************************************************************************)
DriveData(d) ==
    /\ status[d] = "busy" /\ cmd[d].data = Null
    /\ \E s \in {"drq", "err"} : status' = [status EXCEPT ![d] = s]
    /\ UNCHANGED <<boot, sel, reg, cmd, media, stack, ret, ghosts>>

DriveStore(d) ==
    /\ status[d] = "busy" /\ cmd[d].data # Null
    /\ LET place == <<d, cmd[d].lba>> IN
       \/ /\ media' = [media EXCEPT ![d][cmd[d].lba] = cmd[d].data]
          /\ status' = [status EXCEPT ![d] = "ready"]
          /\ failed' = failed \ {place}
       \/ /\ MediaErrors
          /\ status' = [status EXCEPT ![d] = "err"]
          /\ failed' = failed \cup {place}
          /\ UNCHANGED media
    /\ cmd' = [cmd EXCEPT ![d] = NoCmd]
    /\ UNCHANGED <<boot, sel, reg, stack, ret, asked>>

Next ==
    \/ DetectPresent \/ DetectFails
    \/ BlkInit
    \/ \E op \in Ops, dev \in Drives, secno \in Sectors, k \in 1 .. MaxSecs :
          StartCall(op, dev, secno, k) \/ RejectCall(op, dev, secno, k)
    \/ Driver
    \/ \E d \in Drives : DriveData(d) \/ DriveStore(d)

(***************************************************************************)
(* The processor runs; a drive may stay busy for ever.                     *)
(***************************************************************************)
Spec == Init /\ [][Next]_vars /\ WF_vars(Driver)

-----------------------------------------------------------------------------
(***************************************************************************)
(* Type correctness of the disk subsystem.                                 *)
(***************************************************************************)
TypeOK ==
    /\ fitted \subseteq Drives /\ present \subseteq fitted
    /\ probe \in 0 .. NDrives
    /\ registered = Null \/ registered \subseteq present
    /\ \A c \in Chans : sel[c] \in Drives /\ Chan(sel[c]) = c
    /\ reg \in [Chans -> Sectors]
    /\ status \in [Drives -> Statuses]
    /\ \A d \in Drives : /\ cmd[d].op \in Ops \cup {"identify", Null}
                         /\ cmd[d].lba \in Sectors
                         /\ cmd[d].data \in Data \cup {Null}
    /\ media \in [Drives -> [Sectors -> Data \cup {Old}]]
    /\ Len(stack) <= MaxNest
    /\ \A j \in 1 .. Len(stack) : /\ stack[j].op \in Ops /\ stack[j].pc \in Places
                                  /\ stack[j].i \in 1 .. Len(stack[j].buf)
    /\ ret \in {0, -1}
    /\ asked \subseteq Drives \X Sectors \X Data
    /\ failed \subseteq Drives \X Sectors

(***************************************************************************)
(* A command never goes to a busy drive, which would ignore it, and a      *)
(* present drive that is not selected is never busy: the driver polls the  *)
(* drive it used last before it selects another, so a write that outlived  *)
(* its timeout is over by then.                                            *)
(***************************************************************************)
CommandsAreHeard ==
    /\ Running("command") => status[Selected] # "busy"
    /\ \A d \in present : sel[Chan(d)] # d => status[d] # "busy"

(***************************************************************************)
(* Only sectors that a caller asked to write ever change, and only to what *)
(* a caller asked to write there, whatever times out, fails or answers     *)
(* late.                                                                   *)
(***************************************************************************)
OnlyAskedSectors ==
    \A d \in Drives, s \in Sectors :
        media[d][s] # Old => <<d, s, media[d][s]>> \in asked

(***************************************************************************)
(* The running call ends and reports success.                              *)
(***************************************************************************)
Succeeds(op) == Len(stack') < Len(stack) /\ ret' = 0 /\ Top.op = op

Holds(i) == media[Top.dev][Top.secno + i - 1] = Top.buf[i]

(***************************************************************************)
(* hd_read_device() returns 0 only with the contents of all its sectors.   *)
(***************************************************************************)
ReadDelivers == [][Succeeds("read") => \A i \in 1 .. Len(Top.buf) : Holds(i)]_vars

(***************************************************************************)
(* hd_write_device() returns 0 only when each of its sectors holds the     *)
(* data or the drive has answered the store with ERR, which the wait after *)
(* a write does not look at.                                               *)
(***************************************************************************)
WriteLands ==
    [][Succeeds("write") => \A i \in 1 .. Len(Top.buf) :
          Holds(i) \/ <<Top.dev, Top.secno + i - 1>> \in failed]_vars

(***************************************************************************)
(* Every call ends, even when the drive never answers.                     *)
(***************************************************************************)
CallsEnd == Len(stack) = 1 ~> stack = <<>>

-----------------------------------------------------------------------------
(***************************************************************************)
(* The request a client waits for, while calls do not nest.                *)
(***************************************************************************)
Request ==
    IF stack = <<>> THEN [op |-> "none"]
    ELSE [op |-> Top.op, dev |-> Top.dev, secno |-> Top.secno, buf |-> Top.buf]

Device == INSTANCE BlockDevice
            WITH Devices <- Drives, Blank <- Null, sectors <- media,
                 offered <- asked, failures <- failed, request <- Request,
                 result <- ret

(***************************************************************************)
(* Polling, timeouts, two drives on one set of registers and drives that   *)
(* answer late are hidden from the block layer's clients: they see a       *)
(* device that serves one request after the other.                         *)
(***************************************************************************)
ImplementsBlockDevice == Device!BSpec
=============================================================================

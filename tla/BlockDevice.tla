----------------------------- MODULE BlockDevice -----------------------------
(***************************************************************************)
(* What the clients of a disk may rely on.  One request at a time is       *)
(* served.  A read succeeds with the contents of its sectors, a write only *)
(* when its data are stored or the device has failed to store them.  A     *)
(* request may fail at any time, and then parts of it may have happened;   *)
(* data of a write that failed may even be stored later, but never others, *)
(* and never elsewhere.                                                    *)
(***************************************************************************)
EXTENDS Integers, Sequences

CONSTANTS Devices, NSectors, MaxSecs, Data, Old, Blank

VARIABLES sectors,      \* the contents of every sector
          offered,      \* <<device, sector, data>> that writes have asked for
          failures,     \* <<device, sector>> of the stores that failed
          request,      \* the request being served and its buffer, or Idle
          result        \* of the last request

bvars == <<sectors, offered, failures, request, result>>

BSectors == 0 .. NSectors - 1

Idle == [op |-> "none"]

BInit ==
    /\ sectors = [d \in Devices |-> [s \in BSectors |-> Old]]
    /\ offered = {} /\ failures = {}
    /\ request = Idle
    /\ result = 0

Target(d, secno, i) == <<d, secno + i - 1>>

Begin(op, d, secno, k) ==
    /\ request = Idle
    /\ secno + k <= NSectors
    /\ \E buf \in [1 .. k -> IF op = "write" THEN Data ELSE {Blank}] :
          /\ request' = [op |-> op, dev |-> d, secno |-> secno, buf |-> buf]
          /\ offered' = IF op = "write"
                        THEN offered \cup {<<d, secno + i - 1, buf[i]>> : i \in 1 .. k}
                        ELSE offered
    /\ failures' = {}
    /\ result' = 0
    /\ UNCHANGED sectors

(***************************************************************************)
(* A request that goes beyond the last sector.                             *)
(***************************************************************************)
Refuse ==
    /\ request = Idle
    /\ result' = -1
    /\ UNCHANGED <<sectors, offered, failures, request>>

(***************************************************************************)
(* A read fills its buffer, with anything as long as it has not succeeded. *)
(***************************************************************************)
Fill ==
    /\ request.op = "read"
    /\ \E i \in 1 .. Len(request.buf), v \in Data \cup {Old, Blank} :
          request' = [request EXCEPT !.buf[i] = v]
    /\ UNCHANGED <<sectors, offered, failures, result>>

(***************************************************************************)
(* The device stores a sector, or fails to.                                *)
(***************************************************************************)
Settle(d, s) ==
    /\ \E v \in Data :
          /\ <<d, s, v>> \in offered
          /\ \/ /\ sectors' = [sectors EXCEPT ![d][s] = v]
                /\ failures' = failures \ {<<d, s>>}
             \/ /\ failures' = failures \cup {<<d, s>>}
                /\ UNCHANGED sectors
    /\ UNCHANGED <<offered, request, result>>

InPlace(i) ==
    \/ sectors[request.dev][request.secno + i - 1] = request.buf[i]
    \/ request.op = "write" /\ Target(request.dev, request.secno, i) \in failures

Succeed ==
    /\ request # Idle
    /\ \A i \in 1 .. Len(request.buf) : InPlace(i)
    /\ request' = Idle /\ result' = 0
    /\ UNCHANGED <<sectors, offered, failures>>

Fail ==
    /\ request # Idle
    /\ request' = Idle /\ result' = -1
    /\ UNCHANGED <<sectors, offered, failures>>

BNext ==
    \/ \E op \in {"read", "write"}, d \in Devices, secno \in BSectors,
          k \in 1 .. MaxSecs : Begin(op, d, secno, k)
    \/ Refuse \/ Fill \/ Succeed \/ Fail
    \/ \E d \in Devices, s \in BSectors : Settle(d, s)

BSpec == BInit /\ [][BNext]_bvars
=============================================================================

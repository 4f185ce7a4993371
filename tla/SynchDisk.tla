----------------------------- MODULE SynchDisk -----------------------------
(***************************************************************************)
(* The synchronous disk (filesys/synchdisk.cc) with the contents of the    *)
(* disk.  The device transfers the sector when the request is made and     *)
(* interrupts later (machine/disk.cc).                                     *)
(***************************************************************************)
EXTENDS Driver

CONSTANTS Sectors, Data, Blank

ASSUME SynchDiskAssumption == Blank \in Data /\ Sectors # {}

VARIABLES
    disk,   \* the contents of every sector
    op      \* per thread, the call it is in: a write of some data or a read,
            \* with the data read once the request has been made

diskVars == <<driverVars, disk, op>>

Ops == [kind : {"read", "write"}, sector : Sectors, data : Data]

DiskInit ==
    /\ DriverInit
    /\ disk = [s \in Sectors |-> Blank]
    /\ op = [t \in Threads |-> CHOOSE o \in Ops : o.data = Blank]

(* A thread calls ReadSector or WriteSector.                               *)
CallSector(t) ==
    /\ Call(t)
    /\ \E o \in Ops : /\ o.kind = "read" => o.data = Blank
                      /\ op' = [op EXCEPT ![t] = o]
    /\ UNCHANGED disk

(* SynchDisk::ReadSector and SynchDisk::WriteSector, up to P.              *)
ReadSector(t) ==
    /\ op[t].kind = "read"
    /\ Request(t)
    /\ op' = [op EXCEPT ![t].data = disk[op[t].sector]]
    /\ UNCHANGED disk

WriteSector(t) ==
    /\ op[t].kind = "write"
    /\ Request(t)
    /\ disk' = [disk EXCEPT ![op[t].sector] = op[t].data]
    /\ UNCHANGED op

(* Mutant: the lock is not taken.                                          *)
TransferWithoutLock(t) ==
    /\ \/ Advance(t, "acquire", "request")
          /\ UNCHANGED <<holders, semaphore, blocked, active, scheduled>>
       \/ WaitAgain(t)
       \/ Advance(t, "done", "idle")
          /\ UNCHANGED <<holders, semaphore, blocked, active, scheduled>>
    /\ UNCHANGED <<disk, op>>

(* The rest of both: Acquire before, the wake-up and Release after.        *)
Transfer(t) ==
    /\ AcquireDevice(t) \/ WaitAgain(t) \/ ReleaseDevice(t)
    /\ UNCHANGED <<disk, op>>

DiskInterrupt == CallBack /\ UNCHANGED <<disk, op>>

DiskNext ==
    \/ DiskInterrupt
    \/ \E t \in Threads :
          CallSector(t) \/ ReadSector(t) \/ WriteSector(t) \/ Transfer(t)

DiskSafety == DiskInit /\ [][DiskNext]_diskVars

----------------------------------------------------------------------------
(* Every variable has its type.                                            *)
TypeOK ==
    /\ DriverTypeOK
    /\ disk \in [Sectors -> Data]
    /\ op \in [Threads -> Ops]

(* "Return only after the data has been read" (written): when P has        *)
(* returned, the caller's data is what the sector holds.                   *)
SectorTransferred ==
    \A t \in Threads : stage[t] = "done" => op[t].data = disk[op[t].sector]

=============================================================================

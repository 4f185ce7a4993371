------------------------------- MODULE Memory -------------------------------
(***************************************************************************)
(* The memory of the simulated machine: Translate, ReadMem and WriteMem of *)
(* machine/translate.cc, with a page table (the build has no TLB), and     *)
(* AddrSpace::Translate of userprog/addrspace.cc.                          *)
(*                                                                         *)
(* A byte has ByteBits bits and a word four bytes, so that a machine with  *)
(* bytes of one or two bits can be explored completely.  Machine::         *)
(* Translate is the hardware: the kernel may give it any page table.       *)
(***************************************************************************)
EXTENDS Integers, FiniteSets

CONSTANTS
    ByteBits,
    PageSize, NumPhysPages

WordBits == 4 * ByteBits
HalfBits == 2 * ByteBits
MemorySize == NumPhysPages * PageSize

ASSUME MemoryAssumption ==
    /\ ByteBits \in Nat \ {0} /\ NumPhysPages \in Nat \ {0}
    /\ PageSize \in Nat \ {0} /\ PageSize % 4 = 0

Words == 0..(2 ^ WordBits - 1)
ToWord(n) == n % 2 ^ WordBits
Signed(w) == IF w >= 2 ^ (WordBits - 1) THEN w - 2 ^ WordBits ELSE w

VARIABLES
    pageTable,      \* entries 0 to pageTableSize - 1
    mainMemory      \* bytes 0 to MemorySize - 1

Entries == [physicalPage : Nat, valid : BOOLEAN, readOnly : BOOLEAN,
            use : BOOLEAN, dirty : BOOLEAN]

----------------------------------------------------------------------------
(* Mutant: a read after a write clears the dirty bit.                      *)
TouchedLast(entry, writing) ==
    [entry EXCEPT !.use = TRUE, !.dirty = writing]

(* The entry of a page after an access.                                    *)
Touched(entry, writing) ==
    [entry EXCEPT !.use = TRUE, !.dirty = @ \/ writing]

Fault(exception) == [exception |-> exception]

(* Machine::Translate: the exception, or the physical address and the page *)
(* table with the use and dirty bits set.                                  *)
Translate(virtAddr, size, writing) ==
    LET vpn == virtAddr \div PageSize
    IN IF virtAddr % size # 0 THEN Fault("AddressError")
       ELSE IF vpn \notin DOMAIN pageTable THEN Fault("AddressError")
       ELSE IF ~ pageTable[vpn].valid THEN Fault("PageFault")
       ELSE IF pageTable[vpn].readOnly /\ writing THEN Fault("ReadOnly")
       ELSE IF pageTable[vpn].physicalPage >= NumPhysPages THEN Fault("BusError")
       ELSE [exception |-> "None",
             physAddr |-> pageTable[vpn].physicalPage * PageSize + (virtAddr % PageSize),
             table |-> [pageTable EXCEPT ![vpn] = Touched(@, writing)]]

(* AddrSpace::Translate: it looks at neither the alignment nor the valid   *)
(* bit.                                                                    *)
SpaceTranslate(vaddr, isReadWrite) ==
    LET vpn == vaddr \div PageSize
    IN IF vpn \notin DOMAIN pageTable THEN Fault("AddressError")
       ELSE IF isReadWrite /\ pageTable[vpn].readOnly THEN Fault("ReadOnly")
       ELSE IF pageTable[vpn].physicalPage >= NumPhysPages THEN Fault("BusError")
       ELSE [exception |-> "None",
             physAddr |-> pageTable[vpn].physicalPage * PageSize + (vaddr % PageSize),
             table |-> [pageTable EXCEPT ![vpn] = Touched(@, isReadWrite)]]

(* The number that size bytes of the machine stand for, the least          *)
(* significant first, and the bytes of a number.                           *)
Assembled(physAddr, size) ==
    LET from[k \in 0..size] ==
            IF k = size THEN 0
            ELSE mainMemory[physAddr + k] + 2 ^ ByteBits * from[k + 1]
    IN from[0]

ByteOf(value, k) == (value \div 2 ^ (ByteBits * k)) % 2 ^ ByteBits

(* Machine::ReadMem and Machine::WriteMem after a translation without      *)
(* exception.                                                              *)
ReadMem(at, size) == Assembled(at.physAddr, size)

WriteMem(at, size, value) ==
    [a \in DOMAIN mainMemory |->
        IF a \in at.physAddr..(at.physAddr + size - 1)
        THEN ByteOf(value, a - at.physAddr) ELSE mainMemory[a]]

=============================================================================

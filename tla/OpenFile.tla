------------------------------ MODULE OpenFile ------------------------------
(***************************************************************************)
(* Reading and writing at any place in a file of the Nachos file system    *)
(* (filesys/openfile.cc), although the disk knows whole sectors only.  The *)
(* file has been allocated with its length, and is used by one OpenFile.   *)
(***************************************************************************)
EXTENDS Integers, Sequences, SequencesExt

CONSTANTS
    SectorSize,
    Lengths,            \* lengths of the file
    Bytes, MaxRequest,  \* bytes, and how many are read or written at once
    MaxPosition,        \* the largest position for Seek
    Junk                \* a byte of memory or disk that nobody wrote

OpenFileAssumption ==
    /\ SectorSize \in Nat \ {0} /\ Lengths \subseteq Nat
    /\ MaxRequest \in Nat /\ MaxPosition \in Nat /\ Junk \notin Bytes

VARIABLES
    fileLength,         \* hdr->FileLength()
    sectors,            \* the data sectors of the file, in its order
    seekPosition,
    into,               \* the bytes that the last Read returned
    call                \* the last call, with the number of bytes asked for

vars == <<fileLength, sectors, seekPosition, into, call>>

FileSectors == (fileLength + SectorSize - 1) \div SectorSize
ByteToSector(offset) == offset \div SectorSize

----------------------------------------------------------------------------
(* The checks at the beginning of ReadAt and WriteAt.                      *)
Granted(numBytes, position) ==
    IF numBytes <= 0 \/ position >= fileLength THEN 0
    ELSE IF position + numBytes > fileLength THEN fileLength - position
    ELSE numBytes

ReadAt(numBytes, position) ==
    LET n == Granted(numBytes, position)
        firstSector == position \div SectorSize
        lastSector == (position + n - 1) \div SectorSize
        buf == [k \in 0..((1 + lastSector - firstSector) * SectorSize - 1) |->
                   sectors[firstSector + k \div SectorSize][k % SectorSize]]
    IN [i \in 1..n |-> buf[position - firstSector * SectorSize + i - 1]]

(* bcopy of a sequence of bytes into a buffer.                             *)
Bcopy(from, buf, at) ==
    [k \in DOMAIN buf |-> IF k \in at..(at + Len(from) - 1) THEN from[k - at + 1]
                          ELSE buf[k]]

(* Mutant: the last sector is read only if it is not the first one too.    *)
ReadsLastApart(firstSector, lastSector, firstAligned, lastAligned) ==
    ~ lastAligned /\ firstSector # lastSector

(* "read in first and last sector, if they are to be partially modified"   *)
ReadsLast(firstSector, lastSector, firstAligned, lastAligned) ==
    ~ lastAligned /\ (firstSector # lastSector \/ firstAligned)

(* WriteAt: the sectors of the file afterwards.                            *)
WriteAt(from, position) ==
    LET n == Granted(Len(from), position)
        firstSector == position \div SectorSize
        lastSector == (position + n - 1) \div SectorSize
        firstAligned == position = firstSector * SectorSize
        lastAligned == position + n = (lastSector + 1) * SectorSize
        new == [k \in 0..((1 + lastSector - firstSector) * SectorSize - 1) |-> Junk]
        first == IF firstAligned THEN new
                 ELSE Bcopy(ReadAt(SectorSize, firstSector * SectorSize), new, 0)
        both == IF ReadsLast(firstSector, lastSector, firstAligned, lastAligned)
                THEN Bcopy(ReadAt(SectorSize, lastSector * SectorSize), first,
                           (lastSector - firstSector) * SectorSize)
                ELSE first
        buf == Bcopy(SubSeq(from, 1, n), both, position - firstSector * SectorSize)
    IN IF n = 0 THEN sectors
       ELSE [s \in DOMAIN sectors |->
                IF s \in firstSector..lastSector
                THEN [b \in 0..(SectorSize - 1) |->
                         buf[(s - firstSector) * SectorSize + b]]
                ELSE sectors[s]]

----------------------------------------------------------------------------
Init ==
    /\ fileLength \in Lengths
    /\ sectors = [s \in 0..(FileSectors - 1) |-> [b \in 0..(SectorSize - 1) |-> Junk]]
    /\ seekPosition = 0
    /\ into = <<>>
    /\ call = <<"open", 0>>

Read(numBytes) ==
    /\ call' = <<"read", numBytes>>
    /\ into' = ReadAt(numBytes, seekPosition)
    /\ seekPosition' = seekPosition + Granted(numBytes, seekPosition)
    /\ UNCHANGED <<fileLength, sectors>>

Write(from) ==
    /\ call' = <<"write", Len(from)>>
    /\ sectors' = WriteAt(from, seekPosition)
    /\ seekPosition' = seekPosition + Granted(Len(from), seekPosition)
    /\ into' = <<>>
    /\ UNCHANGED fileLength

Seek(position) ==
    /\ call' = <<"seek", 0>>
    /\ seekPosition' = position
    /\ into' = <<>>
    /\ UNCHANGED <<fileLength, sectors>>

Positions == 0..MaxPosition

Next ==
    \/ \E numBytes \in 0..MaxRequest : Read(numBytes)
    \/ \E from \in SeqOf(Bytes, MaxRequest) : Write(from)
    \/ \E position \in Positions : Seek(position)

Spec == Init /\ [][Next]_vars

----------------------------------------------------------------------------
(* What the open file is: the sequence of the bytes in its sectors.        *)
TheFile == INSTANCE ByteFile WITH
    Requests <- 0..MaxRequest,
    Texts <- SeqOf(Bytes, MaxRequest),
    contents <- [i \in 1..fileLength |->
                    sectors[ByteToSector(i - 1)][(i - 1) % SectorSize]],
    position <- seekPosition,
    answer <- into

=============================================================================

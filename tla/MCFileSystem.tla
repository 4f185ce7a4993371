---------------------------- MODULE MCFileSystem ----------------------------
(***************************************************************************)
(* The file system for TLC, and what is above and below it: the bytes of   *)
(* one open file, and the time that the disk takes.  They share no state,  *)
(* so that one of them is explored at a time, and the properties of the    *)
(* others are not evaluated then.                                          *)
(***************************************************************************)
EXTENDS FileSystem

CONSTANTS
    Long1, Long2, LongPrefix,
    FileLengths, Bytes, MaxRequest, MaxPosition, Junk,      \* of OpenFile
    SectorsPerTrack, NumTracks, RotationTime, SeekTime,     \* of DiskLatency
    Pauses, MaxTicks

VARIABLES
    part,       \* what is explored
    fileLength, sectors, seekPosition, into, fileCall,
    totalTicks, lastSector, bufferInit, arrived, request

(* Two of the names have the same first nine characters.                   *)
MCStored(name) == IF name \in {Long1, Long2} THEN LongPrefix ELSE name

O == INSTANCE OpenFile WITH Lengths <- FileLengths, call <- fileCall
D == INSTANCE DiskLatency

ASSUME O!OpenFileAssumption /\ D!DiskAssumption

fileVars == <<fileLength, sectors, seekPosition, into, fileCall>>
latencyVars == <<totalTicks, lastSector, bufferInit, arrived, request>>

MCInit ==
    /\ part \in {"system", "file", "latency"}
    /\ Init /\ O!Init /\ D!Init
    /\ part # "file" => fileLength = 0

SystemNext == part = "system" /\ Next /\ UNCHANGED <<part, fileVars, latencyVars>>

FileNext == part = "file" /\ O!Next /\ UNCHANGED <<part, vars, latencyVars>>

LatencyNext == part = "latency" /\ D!Next /\ UNCHANGED <<part, vars, fileVars>>

(* The last request has been made.                                         *)
LatencyStops ==
    part = "latency" /\ UNCHANGED <<part, vars, fileVars, latencyVars>>

MCSpec ==
    MCInit /\ [][SystemNext \/ FileNext \/ LatencyNext \/ LatencyStops]_
                  <<part, vars, fileVars, latencyVars>>

----------------------------------------------------------------------------
(* The file system is the catalog TheCatalog: Create returns TRUE exactly  *)
(* when the name is not in the directory and there are a free entry, a     *)
(* sector for the header and sectors for the data ("Create fails if: file  *)
(* is already in directory, no free space for file header, no free entry   *)
(* for file in directory, no free space for data blocks"); each file has   *)
(* the length and the data that were copied into it until it is removed,   *)
(* and all of its space can then be used again.                            *)
ImplementsCatalog ==
    /\ TheCatalog!CatalogInit
    /\ [][part = "system" => TheCatalog!CatalogNext]_(TheCatalog!catalogVars)

(* The open file is the sequence of bytes TheFile of OpenFile: a read      *)
(* returns what was last written at those places, and a write changes the  *)
(* places it is asked to change and no other byte of the file, whichever   *)
(* of its ends fall inside a sector ("so that we don't overwrite the       *)
(* unmodified portion").                                                   *)
ImplementsByteFile ==
    [][part = "file" => O!TheFile!ByteFileNext]_(O!TheFile!byteFileVars)

(* The latency of a request is the time until its sector has passed under  *)
(* the head (DoneWithSector of DiskLatency).                               *)
DoneWithSector == part = "latency" => D!DoneWithSector

=============================================================================

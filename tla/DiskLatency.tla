---------------------------- MODULE DiskLatency ----------------------------
(***************************************************************************)
(* How long the simulated disk takes (machine/disk.cc): seek, rotation,    *)
(* transfer, and the track buffer, for a sequence of requests, each made   *)
(* some time after the one before it was done.                             *)
(*                                                                         *)
(* The head passes over one sector per RotationTime: in the slot k, which  *)
(* is from k * RotationTime to (k + 1) * RotationTime, it is over the      *)
(* sector with offset k % SectorsPerTrack of its track.                    *)
(***************************************************************************)
EXTENDS Integers

CONSTANTS
    SectorsPerTrack, NumTracks, RotationTime, SeekTime,
    Pauses,     \* the times that pass between two requests
    MaxTicks    \* bound: no request is made after this time

DiskAssumption ==
    /\ {SectorsPerTrack, NumTracks, RotationTime, SeekTime} \subseteq Nat \ {0}
    /\ Pauses \subseteq Nat /\ MaxTicks \in Nat

VARIABLES
    totalTicks,   \* Statistics::totalTicks
    lastSector,   \* Disk::lastSector
    bufferInit,   \* Disk::bufferInit
    arrived,      \* history: when the head came to the current track
    request       \* history: the last request, with its time and latency

vars == <<totalTicks, lastSector, bufferInit, arrived, request>>

DiskSectors == SectorsPerTrack * NumTracks
Sectors == 0..(DiskSectors - 1)

----------------------------------------------------------------------------
(* Disk::TimeToSeek: the time of the seek, and the time from there to the  *)
(* next sector boundary.                                                   *)
Seek(newSector) ==
    LET tracks == (newSector \div SectorsPerTrack)
                     - (lastSector \div SectorsPerTrack)
    IN  (IF tracks < 0 THEN -tracks ELSE tracks) * SeekTime

Rotation(newSector) ==
    LET over == (totalTicks + Seek(newSector)) % RotationTime
    IN  IF over > 0 THEN RotationTime - over ELSE 0

(* Mutant: the difference the other way round.                             *)
ModuloDiffSwapped(to, from) ==
    ((from % SectorsPerTrack) - (to % SectorsPerTrack) + SectorsPerTrack)
        % SectorsPerTrack

(* Disk::ModuloDiff *)
ModuloDiff(to, from) ==
    ((to % SectorsPerTrack) - (from % SectorsPerTrack) + SectorsPerTrack)
        % SectorsPerTrack

(* When the head is at a sector boundary of the new track.                 *)
TimeAfter(newSector) == totalTicks + Seek(newSector) + Rotation(newSector)

(* Disk::ComputeLatency *)
InTrackBuffer(newSector, writing) ==
    /\ ~writing /\ Seek(newSector) = 0
    /\ (TimeAfter(newSector) - bufferInit) \div RotationTime
          > ModuloDiff(newSector, bufferInit \div RotationTime)

ComputeLatency(newSector, writing) ==
    IF InTrackBuffer(newSector, writing) THEN RotationTime
    ELSE Seek(newSector) + Rotation(newSector)
            + (ModuloDiff(newSector, TimeAfter(newSector) \div RotationTime)
                * RotationTime)
            + RotationTime

(* Disk::UpdateLast *)
UpdateLast(newSector) ==
    /\ bufferInit' = IF Seek(newSector) # 0 THEN TimeAfter(newSector)
                     ELSE bufferInit
    /\ lastSector' = newSector

----------------------------------------------------------------------------
(* Disk::Disk, at time 0 *)
Init ==
    /\ totalTicks = 0 /\ lastSector = 0 /\ bufferInit = 0 /\ arrived = 0
    /\ request = [sector |-> 0, writing |-> TRUE, start |-> 0, seek |-> 0,
                  since |-> 0, latency |-> RotationTime]

(* Disk::ReadRequest or Disk::WriteRequest, its interrupt, and the time    *)
(* until the next one.                                                     *)
Request(newSector, writing) ==
    LET latency == ComputeLatency(newSector, writing)
        since == IF Seek(newSector) = 0 THEN arrived
                 ELSE totalTicks + Seek(newSector)
    IN  /\ totalTicks <= MaxTicks
        /\ UpdateLast(newSector)
        /\ arrived' = since
        /\ request' = [sector |-> newSector, writing |-> writing,
                       start |-> totalTicks, seek |-> Seek(newSector),
                       since |-> since, latency |-> latency]
        /\ \E pause \in Pauses : totalTicks' = totalTicks + latency + pause

Next == \E s \in Sectors, writing \in BOOLEAN : Request(s, writing)

Spec == Init /\ [][Next]_vars

----------------------------------------------------------------------------
Done == request.start + request.latency

(* The slots in which the sector of the request passes under the head,     *)
(* between two times.                                                      *)
Passes(from, to) ==
    {k \in (from \div RotationTime)..(to \div RotationTime) :
        /\ from <= k * RotationTime /\ (k + 1) * RotationTime <= to
        /\ k % SectorsPerTrack = request.sector % SectorsPerTrack}

(* "seek time + rotational latency + transfer time" (ComputeLatency): a    *)
(* write, and a read on another track, is done when the sector has passed  *)
(* completely under the head for the first time after the seek.  No read   *)
(* is done before its sector has passed under the head since the head came *)
(* to the track: the track buffer holds nothing that was not read, and     *)
(* nothing of the track before.  And a sector that has passed under the    *)
(* head by then takes no longer than its transfer ("read requests to the   *)
(* current track [are] satisfied more quickly").                           *)
DoneWithSector ==
    /\ request.writing \/ request.seek # 0 =>
          LET ready == request.start + request.seek
          IN  /\ Done % RotationTime = 0
              /\ Passes(ready, Done) = {(Done \div RotationTime) - 1}
    /\ ~request.writing => Passes(request.since, Done) # {}
    /\ (/\ ~request.writing /\ request.seek = 0
        /\ Passes(request.since, request.start) # {})
          => request.latency = RotationTime

=============================================================================

----------------------------- MODULE MCDevices -----------------------------
(***************************************************************************)
(* The two users of Driver for TLC: the synchronous disk, and the console  *)
(* with its drivers.  Each has a driver of its own, so that one of them is *)
(* explored at a time.                                                     *)
(***************************************************************************)
EXTENDS SynchDisk, Console

VARIABLE part    \* what is explored

MCInit == part \in {"disk", "console"} /\ DiskInit /\ ConsoleInit

DiskStep == part = "disk" /\ DiskNext /\ UNCHANGED <<part, inVars, ch, written>>

ConsoleStep == part = "console" /\ ConsoleNext /\ UNCHANGED <<part, disk, op>>

(* Everything is typed and echoed.                                         *)
ConsoleStops == part = "console" /\ UNCHANGED <<part, diskVars, consoleVars>>

MCSpec ==
    /\ MCInit
    /\ [][DiskStep \/ ConsoleStep \/ ConsoleStops]_<<part, diskVars, consoleVars>>
    /\ part = "console" => ConsoleFairness

MCKeys == <<"key", "key", "key">>
MCBytes == <<"key", "0xFF", "key">>

----------------------------------------------------------------------------
(* Every key that is typed is written (TypedIsEchoed of Console).          *)
KeysAreEchoed == part = "console" => TypedIsEchoed

=============================================================================

--------------------------- MODULE MCSystemCalls ---------------------------
(***************************************************************************)
(* The system calls for TLC: a run is about one of                         *)
(*   "files"    the calls on files, with two files open at a time;         *)
(*   "calls"    all calls, with the registers they return with, and at     *)
(*              most MaxOpen UNIX descriptors in use;                      *)
(*   "console"  numbers and strings on the console.                        *)
(* The variables of the others keep their initial values.                  *)
(***************************************************************************)
EXTENDS SystemCalls, FiniteSets, TLC

CONSTANTS MaxOpen, Width, Chars, MaxTyped, MAX_SIZE, Letters, MaxText

VARIABLES part, step, typed, printed, beyond, num, again, memory, from

C == INSTANCE ConsoleCalls

ASSUME C!ConsoleAssumption

callVars == <<call, pcs>>
consoleVars == <<step, typed, printed, beyond, num, again, memory, from>>

ConsoleIdle ==
    /\ step = "idle" /\ typed = <<>> /\ printed = <<>> /\ beyond = <<>>
    /\ num = C!NotYet /\ again = C!NotYet /\ memory = C!NoMemory /\ from = 1

MCInit ==
    /\ SysInit
    /\ \/ part \in {"files", "calls"} /\ ConsoleIdle
       \/ part = "console" /\ C!Init

MCNext ==
    /\ UNCHANGED part
    /\ \/ part = "files" /\ FileCall /\ UNCHANGED <<callVars, consoleVars>>
       \/ /\ part = "calls" /\ SysNext /\ UNCHANGED consoleVars
          /\ Cardinality(DOMAIN unix') <= MaxOpen
       \/ part = "console" /\ C!Next /\ UNCHANGED <<vars, callVars>>

MCSpec == MCInit /\ [][MCNext]_<<part, vars, callVars, consoleVars>>

(* The names of files are treated alike.                                   *)
NameSymmetry == Permutations(Names)

----------------------------------------------------------------------------
(* NumbersKept of ConsoleCalls: SysReadNum takes exactly the numbers that  *)
(* an int can hold, and reads what SysPrintNum prints as the same number.  *)
NumbersKept == C!NumbersKept

(* StringPrintedWhole of ConsoleCalls: SystemCallPrintString prints the    *)
(* string at its address, however it is cut into pieces.                   *)
StringPrintedWhole == C!StringPrintedWhole

=============================================================================

------------------------------ MODULE Console ------------------------------
(***************************************************************************)
(* The console (machine/console.cc) and its synchronous drivers            *)
(* (userprog/synchconsole.cc), used by threads that echo what they read,   *)
(* as Kernel::ConsoleTest does.  The output side is a Driver.              *)
(*                                                                         *)
(* A character is named by its position in what is typed.  The input       *)
(* device keeps it in a variable of type char, whose value EOF means that  *)
(* there is none; where char is signed, the character 0xFF has that value. *)
(***************************************************************************)
EXTENDS Driver, Sequences, FiniteSets

CONSTANT Typed    \* the input file: a sequence of "key" and "0xFF"

ASSUME TypedAssumption == Typed \in Seq({"key", "0xFF"})

EOF == 0

VARIABLES
    position,    \* the next character of the input file
    incoming,    \* ConsoleInput::incoming
    polling,     \* an interrupt of the input device is pending
    readers,     \* who holds SynchConsoleInput::lock
    available,   \* value of the semaphore SynchConsoleInput::waitFor
    sleepers,    \* the threads asleep in its P
    at,          \* per thread, in GetChar: "out", "acquire", "P", "get"
    ch,          \* per thread, the character it has read and not written
    written      \* the output file

inVars == <<position, incoming, polling, readers, available, sleepers, at>>
consoleVars == <<driverVars, inVars, ch, written>>

InLock == INSTANCE Mutex WITH holders <- readers

ConsoleInit ==
    /\ DriverInit
    /\ InLock!MutexInit
    /\ position = 1 /\ incoming = EOF /\ polling = TRUE
    /\ available = 0 /\ sleepers = {}
    /\ at = [t \in Threads |-> "out"]
    /\ ch = [t \in Threads |-> EOF]
    /\ written = <<>>

Moves(t, from, to) == at[t] = from /\ at' = [at EXCEPT ![t] = to]

----------------------------------------------------------------------------
(* What the device makes of the next character.                            *)
AsChar(p) == IF Typed[p] = "0xFF" THEN EOF ELSE p

(* SynchConsoleInput::CallBack: waitFor->V().                              *)
VWaitFor ==
    /\ available' = available + 1
    /\ IF sleepers = {} THEN UNCHANGED sleepers
       ELSE \E t \in sleepers : sleepers' = sleepers \ {t}

(* ConsoleInput::CallBack once PollFile says that there is something: a    *)
(* character, or the end of the file.  (When there is nothing the device   *)
(* polls again later.)                                                     *)
InputCallBack ==
    /\ polling
    /\ polling' = FALSE
    /\ IF position <= Len(Typed)
       THEN incoming' = AsChar(position) /\ position' = position + 1
       ELSE UNCHANGED <<incoming, position>>
    /\ VWaitFor
    /\ UNCHANGED <<driverVars, readers, at, ch, written>>

(* SynchConsoleInput::GetChar is called, and takes the lock.               *)
CallGetChar(t) ==
    /\ stage[t] = "idle" /\ ch[t] = EOF
    /\ Moves(t, "out", "acquire")
    /\ UNCHANGED <<driverVars, position, incoming, polling, readers, available,
                   sleepers, ch, written>>

AcquireInput(t) ==
    /\ Moves(t, "acquire", "P")
    /\ InLock!Enter(t)
    /\ UNCHANGED <<driverVars, position, incoming, polling, available, sleepers,
                   ch, written>>

(* waitFor->P()                                                            *)
WaitForChar(t) ==
    /\ t \notin sleepers
    /\ \/ /\ available = 0 /\ at[t] = "P"
          /\ sleepers' = sleepers \cup {t}
          /\ UNCHANGED <<available, at>>
       \/ /\ available > 0
          /\ available' = available - 1
          /\ Moves(t, "P", "get")
          /\ UNCHANGED sleepers
    /\ UNCHANGED <<driverVars, position, incoming, polling, readers, ch,
                   written>>

(* Mutant: ConsoleInput::GetChar leaves the character in the buffer.       *)
GetCharKeeps(t) ==
    /\ Moves(t, "get", "out")
    /\ ch' = [ch EXCEPT ![t] = incoming]
    /\ polling' = (polling \/ incoming # EOF)
    /\ InLock!Leave(t)
    /\ UNCHANGED <<driverVars, position, incoming, available, sleepers, written>>

(* Mutant: ConsoleInput::GetChar does not schedule the next poll.          *)
GetCharStops(t) ==
    /\ Moves(t, "get", "out")
    /\ ch' = [ch EXCEPT ![t] = incoming]
    /\ incoming' = EOF
    /\ InLock!Leave(t)
    /\ UNCHANGED <<driverVars, position, polling, available, sleepers, written>>

(* ConsoleInput::GetChar, then lock->Release().                            *)
GetChar(t) ==
    /\ Moves(t, "get", "out")
    /\ ch' = [ch EXCEPT ![t] = incoming]
    /\ polling' = (polling \/ incoming # EOF)
    /\ incoming' = EOF
    /\ InLock!Leave(t)
    /\ UNCHANGED <<driverVars, position, available, sleepers, written>>

----------------------------------------------------------------------------
(* SynchConsoleOutput::PutChar of a character that is not EOF: the call,   *)
(* the lock, the device with the first test of P, and the rest.            *)
PutChar(t) ==
    /\ ch[t] # EOF
    /\ \/ at[t] = "out" /\ (Call(t) \/ AcquireDevice(t) \/ WaitAgain(t))
          /\ UNCHANGED <<ch, written>>
       \/ /\ Request(t)
          /\ written' = Append(written, ch[t])
          /\ UNCHANGED ch
       \/ /\ ReleaseDevice(t)
          /\ ch' = [ch EXCEPT ![t] = EOF]
          /\ UNCHANGED written
    /\ UNCHANGED inVars

OutputCallBack == CallBack /\ UNCHANGED <<inVars, ch, written>>

ConsoleNext ==
    \/ InputCallBack \/ OutputCallBack
    \/ \E t \in Threads :
          \/ CallGetChar(t) \/ AcquireInput(t) \/ WaitForChar(t) \/ GetChar(t)
          \/ PutChar(t)

(* The user goes on typing, interrupts are delivered, a thread that is not *)
(* asleep goes on and calls GetChar again; a wanted lock is taken by some  *)
(* thread.                                                                 *)
ConsoleFairness ==
    /\ WF_consoleVars(InputCallBack) /\ WF_consoleVars(OutputCallBack)
    /\ WF_consoleVars(\E t \in Threads : AcquireInput(t))
    /\ WF_consoleVars(\E t \in Threads : AcquireDevice(t) /\ PutChar(t))
    /\ \A t \in Threads :
          /\ WF_consoleVars(CallGetChar(t))
          /\ WF_consoleVars(WaitForChar(t))
          /\ WF_consoleVars(GetChar(t))
          /\ WF_consoleVars(stage[t] # "acquire" /\ PutChar(t))

ConsoleSafety == ConsoleInit /\ [][ConsoleNext]_consoleVars
ConsoleSpec == ConsoleSafety /\ ConsoleFairness

----------------------------------------------------------------------------
(* Where the character p is.                                               *)
Places(p) ==
    ({"device"} \X ({incoming} \cap {p}))
        \cup ({"thread"} \X {t \in Threads :
                               ch[t] = p /\ stage[t] \notin {"wait", "done"}})
        \cup ({"written"} \X {i \in DOMAIN written : written[i] = p})

(* No character is lost or doubled between the input file and the output   *)
(* file, with any number of threads: one that has been read from the file  *)
(* is in exactly one place, in the device, with a thread, or written.      *)
CharsKept ==
    \A p \in 1..(position - 1) : AsChar(p) # EOF => Cardinality(Places(p)) = 1

(* "Typed characters will be echoed, until ^D is typed" (ConsoleTest), and *)
(* callWhenAvail "is called whenever there is a char to be gotten"         *)
(* (console.h): every key that is typed is written.                        *)
TypedIsEchoed ==
    \A p \in {q \in 1..Len(Typed) : Typed[q] = "key"} :
        <>(\E i \in DOMAIN written : written[i] = p)

=============================================================================

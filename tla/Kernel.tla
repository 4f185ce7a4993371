------------------------------- MODULE Kernel -------------------------------
(***************************************************************************)
(* Starting and stopping Nachos: main and Cleanup of threads/main.cc, and  *)
(* the constructor, Initialize and the destructor of threads/kernel.cc.    *)
(*                                                                         *)
(* The words of the command line are scanned twice, by main and by         *)
(* Kernel::Kernel, each with its own options.  Then the objects of the     *)
(* kernel are made, what was asked for is done, and they are deleted.  An  *)
(* object is its name, and a step of the kernel is the objects that it     *)
(* uses, the one that it makes and the handlers that it has called from    *)
(* then on.  Handlers run while the kernel waits, in Initialize too.       *)
(***************************************************************************)
EXTENDS Integers, Sequences, SequencesExt

CONSTANTS
    Builds,         \* set of values of FILESYS_STUB
    Groups,         \* options with their parameters
    MaxGroups       \* bound on their number in a command line

ASSUME KernelAssumption == Builds \subseteq BOOLEAN /\ MaxGroups \in Nat

VARIABLES
    stub,           \* compiled with FILESYS_STUB
    request,        \* the groups of the command line
    argv,           \* its words
    flags, settings,\* options found by main and by Kernel::Kernel
    todo,           \* the steps ahead
    made, deleted,  \* objects
    armed,          \* the handlers that an interrupt may call
    used,           \* the objects used by the last step or handler
    performed,      \* the commands performed
    state           \* "scan", "run", "cleanup" (after ctl-C), "aborted", "exit"

input == <<stub, request, argv>>
kernelVars == <<input, flags, settings, todo, made, deleted, armed, used, performed, state>>

Words(groups) ==
    FlattenSeq([i \in DOMAIN groups |-> <<groups[i].option>> \o groups[i].params])

----------------------------------------------------------------------------
(* The options with the number of words that each takes.                   *)
FileOptions == ("-cp" :> 2) @@ ("-p" :> 1) @@ ("-r" :> 1) @@ ("-l" :> 0) @@ ("-D" :> 0)

MainOptions ==
    ("-d" :> 1) @@ ("-z" :> 0) @@ ("-x" :> 1) @@ ("-K" :> 0) @@ ("-C" :> 0)
        @@ ("-N" :> 0) @@ ("-u" :> 0) @@ (IF stub THEN <<>> ELSE FileOptions)

KernelOptions ==
    ("-rs" :> 1) @@ ("-s" :> 0) @@ ("-ci" :> 1) @@ ("-co" :> 1) @@ ("-n" :> 1)
        @@ ("-m" :> 1) @@ ("-u" :> 0) @@ (IF stub THEN <<>> ELSE "-f" :> 0)

(* The indices at which the loop compares a word with the options.         *)
(* Mutant: only one of the words that belong to an option is skipped.      *)
ComparedSkipOne(options) ==
    LET takes(i) == IF argv[i] \in DOMAIN options /\ options[argv[i]] > 0 THEN 1 ELSE 0
        from[i \in 1..(Len(argv) + 3)] ==
            IF i > Len(argv) THEN {} ELSE {i} \cup from[i + 1 + takes(i)]
    IN from[1]

Compared(options) ==
    LET takes(i) == IF argv[i] \in DOMAIN options THEN options[argv[i]] ELSE 0
        from[i \in 1..(Len(argv) + 3)] ==
            IF i > Len(argv) THEN {} ELSE {i} \cup from[i + 1 + takes(i)]
    IN from[1]

(* What the scan sets: the words behind the last occurrence of an option.  *)
(* An option without its words fails an ASSERT.                            *)
Scan(options) ==
    LET found == {i \in Compared(options) : argv[i] \in DOMAIN options}
        complete == \A i \in found : i + options[argv[i]] <= Len(argv)
    IN [ok |-> complete,
        set |-> [o \in {argv[i] : i \in IF complete THEN found ELSE {}} |->
                    LET last == Max({i \in found : argv[i] = o})
                    IN SubSeq(argv, last + 1, last + options[o])]]

----------------------------------------------------------------------------
(* The constructors, as steps of Kernel::Initialize.  Interrupt::Schedule  *)
(* needs the statistics for the time.                                      *)
New(object, uses, handlers) ==
    [op |-> "new", of |-> object, uses |-> uses, arms |-> handlers]

Wait(uses, handlers) == [op |-> "wait", of |-> "", uses |-> uses, arms |-> handlers]

Schedules == {"interrupt", "stats"}

NewMainThread == New("currentThread", {}, {})
NewStatistics == New("stats", {}, {})
NewInterrupt == New("interrupt", {}, {})
NewScheduler == New("scheduler", {}, {})
NewTimer(object) == New(object, Schedules, {"timer"})
NewAlarm == NewTimer("alarm")
NewMachine == New("machine", {}, {})
NewConsoleInput(object) == New(object, Schedules, {"console"})
NewSynchConsoleInput == NewConsoleInput("synchConsoleIn")
NewSynchConsoleOutput == New("synchConsoleOut", {}, {})
NewSynchDisk == New("synchDisk", {}, {})
NewPostOfficeInput ==
    New("postOfficeIn", {"scheduler"} \cup Schedules, {"network"})
NewPostOfficeOutput == New("postOfficeOut", {}, {})

(* What a thread uses that waits for a device.                             *)
Waits == {"currentThread", "scheduler"} \cup Schedules

(* Interrupt::Enable advances the time by a tick.                          *)
Enable == Wait(Waits, {})

(* FileSystem::FileSystem reads, or formats, the disk and waits for it.    *)
NewFileSystem ==
    IF stub THEN << New("fileSystem", {}, {}) >>
    ELSE << Wait({"synchDisk"} \cup Waits, {"disk"}),
            New("fileSystem", {"synchDisk"} \cup Waits, {}) >>

(* Mutant: the alarm is made before the interrupts.                        *)
InitializeAlarmFirst ==
    <<NewMainThread, NewStatistics, NewAlarm, NewInterrupt, NewScheduler, NewMachine,
      NewSynchConsoleInput, NewSynchConsoleOutput, NewSynchDisk>>
        \o NewFileSystem \o <<NewPostOfficeInput, NewPostOfficeOutput, Enable>>

Initialize ==
    <<NewMainThread, NewStatistics, NewInterrupt, NewScheduler, NewAlarm, NewMachine,
      NewSynchConsoleInput, NewSynchConsoleOutput, NewSynchDisk>>
        \o NewFileSystem \o <<NewPostOfficeInput, NewPostOfficeOutput, Enable>>

(* What main does for the options, in this order.  The program of -x ends  *)
(* with Halt, as main does.                                                *)
Commands == <<"-K", "-C", "-N", "-r", "-cp", "-D", "-l", "-p", "-x">>

CommandUses(option) ==
    Waits \cup
    CASE option = "-K" -> {}
      [] option = "-C" -> {"synchConsoleIn", "synchConsoleOut"}
      [] option = "-N" -> {"postOfficeIn", "postOfficeOut"}
      [] option = "-x" -> {"fileSystem", "machine"}
      [] OTHER -> {"fileSystem", "synchDisk"}

Command(option) ==
    [op |-> "command", of |-> option, uses |-> CommandUses(option), arms |-> {}]

(* The handlers: Timer, ConsoleInput, Disk and NetworkInput::CallBack and  *)
(* the objects that they call.                                             *)
HandlerUses(handler) ==
    Schedules \cup
    CASE handler = "timer" -> {"alarm"}
      [] handler = "console" -> {"synchConsoleIn", "scheduler"}
      [] handler = "disk" -> {"synchDisk", "scheduler"}
      [] handler = "network" -> {"postOfficeIn", "scheduler"}

(* Kernel::~Kernel, which ends with Exit.                                  *)
Deletions ==
    LET delete(object) == [op |-> "delete", of |-> object, uses |-> {}, arms |-> {}]
    IN  [i \in 1..11 |->
            delete(<<"stats", "interrupt", "scheduler", "alarm", "machine",
                     "synchConsoleIn", "synchConsoleOut", "synchDisk", "fileSystem",
                     "postOfficeIn", "postOfficeOut">>[i])]

----------------------------------------------------------------------------
Requests == UNION {[1..n -> Groups] : n \in 0..MaxGroups}

(* A command line may also lack its last word.                             *)
KernelInit ==
    /\ stub \in Builds /\ request \in Requests
    /\ argv \in {Words(request)} \cup
                {SubSeq(Words(request), 1, n) : n \in {Len(Words(request)) - 1} \cap Nat}
    /\ flags = <<>> /\ settings = <<>>
    /\ todo = <<>>
    /\ made = {} /\ deleted = <<>> /\ armed = {}
    /\ used = {} /\ performed = <<>>
    /\ state = "scan"

(* The loop of main.                                                       *)
ScanArguments ==
    /\ state = "scan"
    /\ flags' = Scan(MainOptions).set
    /\ state' = IF Scan(MainOptions).ok THEN "new Kernel" ELSE "aborted"
    /\ UNCHANGED <<input, settings, todo, made, deleted, armed, used, performed>>

(* Kernel::Kernel, and what main does after it.                            *)
NewKernel ==
    /\ state = "new Kernel"
    /\ settings' = Scan(KernelOptions).set
    /\ state' = IF Scan(KernelOptions).ok THEN "run" ELSE "aborted"
    /\ todo' = Initialize
                 \o [i \in DOMAIN Commands |-> Command(Commands[i])]
                 \o << [op |-> "halt", of |-> "machine", uses |-> {"interrupt", "stats"},
                        arms |-> {}] >>
    /\ UNCHANGED <<input, flags, made, deleted, armed, used, performed>>

Ahead == IF todo = <<>> THEN "end" ELSE Head(todo).op

Takes(step) ==
    /\ todo' = Tail(todo)
    /\ used' = step.uses
    /\ armed' = armed \cup step.arms

Construct ==
    /\ state = "run" /\ Ahead \in {"new", "wait"}
    /\ Takes(Head(todo))
    /\ made' = made \cup (IF Ahead = "new" THEN {Head(todo).of} ELSE {})
    /\ UNCHANGED <<input, flags, settings, deleted, performed, state>>

DoCommand ==
    LET option == Head(todo).of
        asked == option \in DOMAIN flags
    IN  /\ state = "run" /\ Ahead = "command"
        /\ IF asked THEN Takes(Head(todo))
           ELSE todo' = Tail(todo) /\ used' = {} /\ UNCHANGED armed
        /\ performed' = IF asked THEN Append(performed, <<option, flags[option]>>)
                        ELSE performed
        /\ UNCHANGED <<input, flags, settings, made, deleted, state>>

(* Interrupt::Halt: the statistics are printed and the kernel deleted.     *)
Halt ==
    /\ state = "run" /\ Ahead = "halt"
    /\ todo' = Deletions
    /\ used' = Head(todo).uses
    /\ UNCHANGED <<input, flags, settings, made, deleted, armed, performed, state>>

Delete ==
    /\ state \in {"run", "cleanup"} /\ Ahead = "delete"
    /\ Takes(Head(todo))
    /\ deleted' = Append(deleted, Head(todo).of)
    /\ UNCHANGED <<input, flags, settings, made, performed, state>>

Exit ==
    /\ state \in {"run", "cleanup"} /\ Ahead = "end"
    /\ state' = "exit"
    /\ UNCHANGED <<input, flags, settings, todo, made, deleted, armed, used, performed>>

(* An interrupt is handled while the constructor of the file system waits  *)
(* for the disk, and while a command runs.                                 *)
RunHandler(handler) ==
    /\ state = "run" /\ handler \in armed
    /\ Ahead = "command" \/ (Ahead = "new" /\ Head(todo).of = "fileSystem" /\ ~ stub)
    /\ used' = HandlerUses(handler)
    /\ UNCHANGED <<input, flags, settings, todo, made, deleted, armed, performed, state>>

(* ctl-C, once CallOnUserAbort has been called.  The signal is blocked     *)
(* while it is handled.                                                    *)
Cleanup ==
    /\ state = "run" /\ Ahead \in {"command", "halt", "delete", "end"}
    /\ state' = "cleanup"
    /\ todo' = Deletions
    /\ UNCHANGED <<input, flags, settings, made, deleted, armed, used, performed>>

KernelNext ==
    \/ ScanArguments
    \/ NewKernel
    \/ Construct
    \/ DoCommand
    \/ Halt
    \/ Delete
    \/ Exit
    \/ \E handler \in {"timer", "console", "disk", "network"} : RunHandler(handler)
    \/ Cleanup

KernelSpec == KernelInit /\ [][KernelNext]_kernelVars

----------------------------------------------------------------------------
(* The parameters of the last group with an option.                        *)
Asked(option) ==
    LET of == {i \in DOMAIN request : request[i].option = option}
    IN IF of = {} THEN <<>> ELSE << <<option, request[Max(of)].params>> >>

(* The options may come in any order: whatever the groups of the command   *)
(* line, when main calls Halt each command that was asked for has been     *)
(* performed once, with the parameters of its own group, in the order of   *)
(* main, and no other; and the parameters of the kernel are those given.   *)
RequestsPerformed ==
    argv = Words(request) =>
        /\ state # "aborted"
        /\ state = "run" /\ Ahead = "halt" =>
              /\ performed = FlattenSeq([i \in DOMAIN Commands |->
                                IF Commands[i] \in DOMAIN MainOptions
                                THEN Asked(Commands[i]) ELSE <<>>])
              /\ \A o \in DOMAIN KernelOptions :
                    Asked(o) = IF o \in DOMAIN settings THEN << <<o, settings[o]>> >>
                               ELSE <<>>

(* No constructor, command or handler uses an object of the kernel that is *)
(* not made yet or is deleted already, although interrupts are handled     *)
(* while Initialize waits for the disk and the devices poll from the       *)
(* moment they are made.                                                   *)
UsesExisting == used \subseteq made \ ToSet(deleted)

=============================================================================

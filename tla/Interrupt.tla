----------------------------- MODULE Interrupt -----------------------------
(***************************************************************************)
(* The simulated interrupt hardware (machine/interrupt.cc), the timer      *)
(* (machine/timer.cc) and its handler (threads/alarm.cc), with the code of *)
(* threads that drives them: kernel code that disables and enables         *)
(* interrupts, user instructions, traps, blocking and the Idle loop.       *)
(*                                                                         *)
(* Simulated time only matters as the distance to the pending interrupts,  *)
(* so pending holds when - totalTicks.  Which ready thread runs next is    *)
(* left open (module Scheduler has the order).  The timer has its fixed    *)
(* period, as it has without -rs.                                          *)
(*                                                                         *)
(* at[t] says where thread t stands:                                       *)
(*   "code"   interrupts on, in its own code                               *)
(*   "off"    interrupts off, in kernel code                               *)
(*   "fire"   in the CheckIfDue of OneTick                                 *)
(*   "yield"  inside Yield, interrupts off                                 *)
(*   "asleep" inside Sleep, interrupts off                                 *)
(*   "idle"   in the CheckIfDue of Idle                                    *)
(*   "none"   not forked                                                   *)
(*   "new"    forked, not yet begun                                        *)
(* OneTick calls Yield, and the end of Yield calls OneTick again: frames   *)
(* holds the oldStatus of every OneTick a thread is inside of.             *)
(***************************************************************************)
EXTENDS Integers, FiniteSets, SequencesExt

CONSTANTS
    Threads, MainThread, NULL,
    Timer,       \* the timer device
    Pollers,     \* devices that schedule themselves again when they fire
    Shots,       \* devices that interrupt once per request
    UserTick, SystemTick, TimerTicks, PollTicks,
    Delays,      \* the delays with which a request is scheduled
    MaxDepth     \* bound on the nesting of OneTick in one thread

ASSUME InterruptAssumption ==
    /\ MainThread \in Threads /\ NULL \notin Threads
    /\ Timer \notin Pollers \cup Shots /\ Pollers \cap Shots = {}
    /\ IsFiniteSet(Pollers)
    /\ Delays \subseteq Nat \ {0}
    /\ {UserTick, SystemTick, TimerTicks, PollTicks, MaxDepth} \subseteq Nat \ {0}
    /\ UserTick <= SystemTick

VARIABLES
    pending,         \* Interrupt::pending: [who, left], soonest first
    inHandler,       \* Interrupt::inHandler
    yieldOnReturn,   \* Interrupt::yieldOnReturn
    status,          \* Interrupt::status
    current, ready, blocked,
    at, frames,
    mode             \* what a thread is doing: "kernel", "user", "trap"

intVars == <<pending, inHandler, yieldOnReturn, status>>
threadVars == <<current, ready, blocked, at, frames, mode>>
vars == <<intVars, threadVars>>

IsPending(d) == \E i \in DOMAIN pending : pending[i].who = d

----------------------------------------------------------------------------
(* Mutant: Insert puts the new interrupt in front of the first one that is *)
(* not earlier, or at the end: the last element is never looked at.        *)
InsertSkipsLast(p, d, delay) ==
    LET n == Cardinality({i \in 1..(Len(p) - 1) : p[i].left <= delay})
        k == IF n = Len(p) - 1 THEN Len(p) ELSE n
    IN  SubSeq(p, 1, k) \o <<[who |-> d, left |-> delay]>>
            \o SubSeq(p, k + 1, Len(p))

(* Interrupt::Schedule: SortedList::Insert puts the new interrupt behind   *)
(* those that are due no later.                                            *)
Schedule(p, d, delay) ==
    LET k == Cardinality({i \in DOMAIN p : p[i].left <= delay})
    IN  SubSeq(p, 1, k) \o <<[who |-> d, left |-> delay]>>
            \o SubSeq(p, k + 1, Len(p))

Elapse(p, n) == [i \in DOMAIN p |-> [p[i] EXCEPT !.left = @ - n]]

Due(p) == p # <<>> /\ Head(p).left <= 0

(* Interrupt::OneTick up to the call of the first handler, entered with    *)
(* machine status s.                                                       *)
OneTick(s) ==
    LET n == IF s = "SystemMode" THEN SystemTick ELSE UserTick
    IN  /\ pending' = Elapse(pending, n)
        /\ inHandler' = Due(pending')
        /\ status' = s
        /\ at' = [at EXCEPT ![current] = "fire"]
        /\ frames' = [frames EXCEPT ![current] = Append(@, s)]
        /\ UNCHANGED yieldOnReturn

(* The processor goes to next; the old thread is left at "where".          *)
SwitchTo(next, where) ==
    /\ current' = next
    /\ at' = [at EXCEPT ![current] = where]

----------------------------------------------------------------------------
(* Kernel::Initialize, up to interrupt->Enable(): the timer and the polling *)
(* devices are running.                                                    *)
Init ==
    /\ pending \in {Schedule(p, Timer, TimerTicks) :
                       p \in {[i \in 1..Len(s) |->
                                  [who |-> s[i], left |-> PollTicks]] :
                              s \in SetToSeqs(Pollers)}}
    /\ inHandler = FALSE /\ yieldOnReturn = FALSE
    /\ status = "SystemMode"
    /\ current = MainThread
    /\ ready = {}
    /\ blocked = {}
    /\ at = [t \in Threads |-> IF t = MainThread THEN "off" ELSE "none"]
    /\ frames = [t \in Threads |-> <<>>]
    /\ mode = [t \in Threads |-> "kernel"]

InKernel == at[current] = "code" /\ mode[current] # "user"

(* SetLevel(IntOff) *)
Disable ==
    /\ InKernel
    /\ at' = [at EXCEPT ![current] = "off"]
    /\ UNCHANGED <<intVars, current, ready, blocked, frames, mode>>

(* SetLevel(IntOn): by kernel code, at the end of Yield, and in Begin.     *)
Enable ==
    /\ at[current] \in {"off", "yield", "new"}
    /\ OneTick(status)
    /\ UNCHANGED <<current, ready, blocked, mode>>

(* Machine::Run starts a user program.                                     *)
RunUser ==
    /\ InKernel /\ mode[current] = "kernel"
    /\ status' = "UserMode"
    /\ mode' = [mode EXCEPT ![current] = "user"]
    /\ UNCHANGED <<pending, inHandler, yieldOnReturn, current, ready, blocked,
                   at, frames>>

(* One turn of the loop of Machine::Run, no trap.                          *)
UserInstruction ==
    /\ at[current] = "code" /\ mode[current] = "user"
    /\ OneTick(status)
    /\ UNCHANGED <<current, ready, blocked, mode>>

(* Machine::RaiseException, up to ExceptionHandler and after it.           *)
Trap ==
    /\ at[current] = "code" /\ mode[current] = "user"
    /\ status' = "SystemMode"
    /\ mode' = [mode EXCEPT ![current] = "trap"]
    /\ UNCHANGED <<pending, inHandler, yieldOnReturn, current, ready, blocked,
                   at, frames>>

TrapReturns ==
    /\ InKernel /\ mode[current] = "trap"
    /\ mode' = [mode EXCEPT ![current] = "user"]
    /\ OneTick("UserMode")
    /\ UNCHANGED <<current, ready, blocked>>

(* Thread::Fork between its two SetLevels.                                 *)
Fork(t) ==
    /\ at[current] = "off"
    /\ at[t] = "none"
    /\ at' = [at EXCEPT ![t] = "new"]
    /\ ready' = ready \cup {t}
    /\ UNCHANGED <<intVars, current, blocked, frames, mode>>

(* A device driver starts an operation: the device schedules an interrupt. *)
Request(d) ==
    /\ InKernel \/ at[current] = "off"
    /\ ~IsPending(d)
    /\ \E delay \in Delays : pending' = Schedule(pending, d, delay)
    /\ UNCHANGED <<inHandler, yieldOnReturn, status, threadVars>>

----------------------------------------------------------------------------
(* Alarm::CallBack *)
AlarmCallBack == yieldOnReturn' = (yieldOnReturn \/ status # "IdleMode")

(* Mutant: Timer::CallBack does not call SetInterrupt.                     *)
TimerStops(rest) ==
    AlarmCallBack /\ pending' = rest /\ UNCHANGED <<ready, blocked>>

(* Timer::CallBack; "rest" is what is pending besides.                     *)
TimerCallBack(rest) ==
    /\ AlarmCallBack
    /\ pending' = Schedule(rest, Timer, TimerTicks)
    /\ UNCHANGED <<ready, blocked>>

(* The handler of any other device: a poller schedules itself again, and   *)
(* a V may make one thread ready.                                          *)
DeviceCallBack(d, rest) ==
    /\ pending' = IF d \in Pollers THEN Schedule(rest, d, PollTicks) ELSE rest
    /\ \/ \E t \in blocked : ready' = ready \cup {t} /\ blocked' = blocked \ {t}
       \/ UNCHANGED <<ready, blocked>>
    /\ UNCHANGED yieldOnReturn

(* One turn of the loop of Interrupt::CheckIfDue.                          *)
Fire ==
    LET d == Head(pending).who
        rest == Tail(pending)
    IN  /\ inHandler
        /\ \/ d = Timer /\ TimerCallBack(rest)
           \/ d # Timer /\ DeviceCallBack(d, rest)
        /\ inHandler' = Due(pending')
        /\ UNCHANGED <<status, current, at, frames, mode>>

(* OneTick after CheckIfDue, no switch asked for: it returns, and so does  *)
(* every Yield and OneTick around it, the outermost one last.              *)
TickReturns ==
    /\ at[current] = "fire" /\ ~inHandler
    /\ ~yieldOnReturn
    /\ status' = IF Len(frames[current]) > 1 THEN Head(frames[current])
                 ELSE status
    /\ at' = [at EXCEPT ![current] = "code"]
    /\ frames' = [frames EXCEPT ![current] = <<>>]
    /\ UNCHANGED <<pending, inHandler, yieldOnReturn, current, ready, blocked,
                   mode>>

(* Mutant: OneTick calls Yield with the status of the interrupted thread.  *)
TickYieldsInOldMode ==
    /\ at[current] = "fire" /\ ~inHandler
    /\ yieldOnReturn
    /\ yieldOnReturn' = FALSE
    /\ \/ \E next \in ready : /\ SwitchTo(next, "yield")
                              /\ ready' = (ready \cup {current}) \ {next}
       \/ /\ ready = {}
          /\ SwitchTo(current, "yield") /\ UNCHANGED ready
    /\ UNCHANGED <<pending, inHandler, status, blocked, frames, mode>>

(* The same with yieldOnReturn set: Thread::Yield up to SWITCH, or up to   *)
(* its end if nobody is ready.                                             *)
TickYields ==
    /\ at[current] = "fire" /\ ~inHandler
    /\ yieldOnReturn
    /\ yieldOnReturn' = FALSE
    /\ status' = "SystemMode"
    /\ \/ \E next \in ready : /\ SwitchTo(next, "yield")
                              /\ ready' = (ready \cup {current}) \ {next}
       \/ /\ ready = {}
          /\ SwitchTo(current, "yield") /\ UNCHANGED ready
    /\ UNCHANGED <<pending, inHandler, blocked, frames, mode>>

----------------------------------------------------------------------------
(* Bound: a thread that is already nested MaxDepth deep is not run again   *)
(* by Yield or Sleep just before a time slice ends.                        *)
Shallow(t) ==
    \/ at[t] # "yield" \/ Len(frames[t]) < MaxDepth
    \/ \A i \in DOMAIN pending :
          pending[i].who = Timer => pending[i].left > SystemTick

(* Thread::Yield, called by a thread that has interrupts on.               *)
Yield ==
    /\ InKernel
    /\ \E next \in ready : /\ Shallow(next)
                           /\ SwitchTo(next, "yield")
                           /\ ready' = (ready \cup {current}) \ {next}
    /\ UNCHANGED <<intVars, blocked, frames, mode>>

(* Thread::Sleep, called by P with interrupts off.                         *)
Sleep ==
    /\ at[current] = "off"
    /\ \/ \E next \in ready : /\ Shallow(next)
                              /\ SwitchTo(next, "asleep")
                              /\ ready' = ready \ {next}
       \/ /\ ready = {}
          /\ SwitchTo(current, "asleep") /\ UNCHANGED ready
    /\ blocked' = blocked \cup {current}
    /\ UNCHANGED <<intVars, frames, mode>>

Idling == at[current] = "asleep" /\ current \in blocked \cup ready

(* The loop of Sleep finds a thread, possibly the sleeping one.            *)
Dispatch ==
    /\ Idling
    /\ \E next \in ready : SwitchTo(next, "asleep") /\ ready' = ready \ {next}
    /\ UNCHANGED <<intVars, blocked, frames, mode>>

(* Sleep returns to P.                                                     *)
SleepReturns ==
    /\ at[current] = "asleep" /\ ~Idling
    /\ at' = [at EXCEPT ![current] = "off"]
    /\ UNCHANGED <<intVars, current, ready, blocked, frames, mode>>

(* Interrupt::Idle up to the first handler: CheckIfDue(TRUE) moves the     *)
(* clock to the first pending interrupt.  With none pending it halts.      *)
Idle ==
    /\ Idling /\ ready = {}
    /\ pending # <<>>
    /\ status' = "IdleMode"
    /\ pending' = Elapse(pending, Head(pending).left)
    /\ inHandler' = TRUE
    /\ at' = [at EXCEPT ![current] = "idle"]
    /\ UNCHANGED <<yieldOnReturn, current, ready, blocked, frames, mode>>

IdleReturns ==
    /\ at[current] = "idle" /\ ~inHandler
    /\ status' = "SystemMode"
    /\ at' = [at EXCEPT ![current] = "asleep"]
    /\ UNCHANGED <<pending, inHandler, yieldOnReturn, current, ready, blocked,
                   frames, mode>>

----------------------------------------------------------------------------
(* What the processor goes on with; a thread may also fork another one,    *)
(* request an operation and start a user program.                          *)
Proceed ==
    \/ Disable \/ Enable \/ UserInstruction \/ Trap \/ TrapReturns
    \/ Fire \/ TickReturns \/ TickYields
    \/ Yield \/ Sleep \/ Dispatch \/ SleepReturns \/ Idle \/ IdleReturns

Next ==
    \/ Proceed \/ RunUser
    \/ \E t \in Threads : Fork(t)
    \/ \E d \in Shots : Request(d)

(* The processor never stops.  Every way of going on ticks after a few     *)
(* steps.                                                                  *)
Spec == Init /\ [][Next]_vars /\ WF_vars(Proceed)

----------------------------------------------------------------------------
(* A handler is never called early, and less than a SystemTick late; when  *)
(* CheckIfDue is done nothing that is due is left on pending.              *)
HandlersOnTime ==
    /\ inHandler => Due(pending)
    /\ \A i \in DOMAIN pending :
          pending[i].left > IF inHandler THEN -SystemTick ELSE 0

(* Interrupt::status is that of the code which runs, across time slices,   *)
(* nested ticks, traps and idling: UserMode exactly while a thread runs    *)
(* user instructions.                                                      *)
StatusOfCurrent ==
    /\ at[current] = "code" =>
          status = IF mode[current] = "user" THEN "UserMode" ELSE "SystemMode"
    /\ at[current] \in {"off", "yield", "new", "asleep"} =>
          status = "SystemMode"

(* A thread does not keep the processor while another one is ready.        *)
TimeSlices ==
    \A t \in Threads :
        (current = t /\ ready # {}) ~> (current # t \/ ready = {})

=============================================================================

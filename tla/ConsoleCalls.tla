---------------------------- MODULE ConsoleCalls ----------------------------
(***************************************************************************)
(* The system calls that read and print numbers and strings: SysReadNum,   *)
(* SysPrintNum, SysReadString, SysPrintString, User2System, System2User,   *)
(* SystemCallReadString and SystemCallPrintString of userprog/ksyscall.h.  *)
(*                                                                         *)
(* A program either reads a number and prints it, as test/readnum.c does,  *)
(* and what was printed is typed again; or it reads a string to an address *)
(* of its memory and prints the string that it then finds at another.      *)
(*                                                                         *)
(* The width of an int is a constant.  With 8 bits the largest number is   *)
(* 127 and the smallest -128: their last digits are those of 2147483647    *)
(* and -2147483648, which the code tests for.  PrintString takes a string  *)
(* in pieces of MAX_SIZE bytes (1024 in the code), and knows by the last   *)
(* byte of a piece whether there is another.                               *)
(***************************************************************************)
EXTENDS Integers, Sequences, SequencesExt

CONSTANTS
    Width,          \* bits of an int
    Chars,          \* the characters that are typed for a number
    MaxTyped,       \* the longest line typed for a number
    MAX_SIZE,
    Letters,        \* the characters of strings
    MaxText         \* the longest text in memory

INT_MAX == 2 ^ (Width - 1) - 1
INT_MIN == - INT_MAX - 1

Newline == 10
Minus == 45
Zero == 48
Nine == 57
Digits == Zero..Nine

ConsoleAssumption ==
    /\ Width \in Nat \ {0, 1} /\ MaxTyped \in Nat
    /\ Chars \cup Letters \subseteq 1..127 \ {Newline}
    /\ INT_MAX % 10 = 7           \* the digit that the code compares with
    /\ MAX_SIZE \in Nat \ {0} /\ MaxText \in Nat

VARIABLES
    step,       \* what the program does next, or "done" or "halted"
    typed,      \* the line that the console gives next
    printed,    \* what has been printed
    beyond,     \* what lies behind ReadNum's buffer
    num,        \* what ReadNum returned, with what it printed
    again,      \* what ReadNum returned when "printed" was typed
    memory,     \* the program's memory from address 1 on; the rest holds 0
    from        \* where the string to be printed begins

vars == <<step, typed, printed, beyond, num, again, memory, from>>

----------------------------------------------------------------------------
(* SysReadString into a buffer of that length: a line that is shorter is   *)
(* ended by 0, of a longer one the beginning is taken.                     *)
SysReadString(line, length) ==
    IF Len(line) < length THEN Append(line, 0) ELSE SubSeq(line, 1, length)

(* SysPrintString puts out the bytes up to the first 0; strlen counts      *)
(* them.                                                                   *)
UpToZero(buffer) ==
    IF Contains(buffer, 0) THEN SubSeq(buffer, 1, SelectInSeq(buffer, LAMBDA c : c = 0) - 1)
    ELSE buffer

SysPrintString(buffer) == UpToZero(buffer)

(* The characters that a non-negative number has in decimal form.          *)
NumDigits(n) == CHOOSE k \in 1..Width : 10 ^ (k - 1) <= n /\ n < 10 ^ k

(* SysPrintNum: numToStr, up to the 0 that ends it.                        *)
SysPrintNum(number) ==
    LET tmp == IF number < 0 THEN - number ELSE number
        len == NumDigits(tmp)
        digits == [i \in 1..len |-> Zero + ((tmp \div 10 ^ (len - i)) % 10)]
    IN IF number = 0 THEN <<Zero>>
       ELSE IF number < 0 THEN <<Minus>> \o digits ELSE digits

max_len == Len(SysPrintNum(INT_MIN))

MAX_INT_DIV_10 == INT_MAX \div 10

(* Mutant: the last digit is not looked at when the number so far is the   *)
(* largest to which a digit can be added.                                  *)
TakeDigitUnchecked(number, c, negative) ==
    IF number > MAX_INT_DIV_10
    THEN [number |-> 0, end |-> "Overflow"]
    ELSE [number |-> number * 10 + (c - Zero), end |-> ""]

(* One turn of SysReadNum's loop with a digit: the number, and whether the *)
(* function returns it now ("end"), having said what it says.              *)
TakeDigit(number, c, negative) ==
    IF number > MAX_INT_DIV_10 \/ (number = MAX_INT_DIV_10 /\ c > Zero + 7)
    THEN IF number = MAX_INT_DIV_10 /\ c = Zero + 8 /\ negative
         THEN [number |-> INT_MIN, end |-> "Returned"]
         ELSE [number |-> 0, end |-> "Overflow"]
    ELSE [number |-> number * 10 + (c - Zero), end |-> ""]

(* Where the line leaves no room for a 0 the string in the buffer goes on  *)
(* with what the stack happens to hold behind it.                          *)
SysReadNum(line, behind) ==
    LET buffer == UpToZero(SysReadString(line, max_len + 1) \o behind)
        len == Len(buffer)
        negative == len > 0 /\ buffer[1] = Minus
        start == IF negative THEN 1 ELSE 0
        loop[i \in start..len] ==
            IF i = start THEN [number |-> 0, end |-> ""]
            ELSE IF loop[i - 1].end # "" THEN loop[i - 1]
            ELSE IF buffer[i] \notin Digits THEN [number |-> 0, end |-> "Invalid"]
            ELSE TakeDigit(loop[i - 1].number, buffer[i], negative)
    IN IF len = 0 THEN [number |-> INT_MIN, end |-> "Invalid"]
       ELSE IF loop[len].end = "" /\ negative
            THEN [number |-> - loop[len].number, end |-> ""]
            ELSE loop[len]

----------------------------------------------------------------------------
MemSize == MaxText + 1
ByteAt(addr) == IF addr \in DOMAIN memory THEN memory[addr] ELSE 0

(* The first place at or after addr that holds 0.                          *)
EndOf(addr) == CHOOSE e \in addr..(MemSize + addr) :
                   ByteAt(e) = 0 /\ \A k \in addr..(e - 1) : ByteAt(k) # 0

(* System2User: up to and with the first 0, which is the last byte.        *)
System2User(addr, buffer) ==
    [a \in 1..MemSize |->
        IF a \in addr..(addr + Len(buffer) - 1) THEN buffer[a - addr + 1]
        ELSE memory[a]]

(* User2System: limit bytes, all 0 from the first 0 on.                    *)
User2System(addr, limit) ==
    [i \in 1..limit |-> IF addr + i - 1 < EndOf(addr) THEN ByteAt(addr + i - 1) ELSE 0]

(* Mutant: the byte looked at is buffer[MAX_SIZE], the 0 behind the limit. *)
PieceEndsAlways(buffer) == TRUE

PieceEnds(buffer) == buffer[MAX_SIZE] = 0

(* The pieces that SystemCallPrintString prints, from addr on.             *)
Pieces(addr) ==
    LET start(k) == addr + (k - 1) * MAX_SIZE
        piece(k) == User2System(start(k), MAX_SIZE)
        last == CHOOSE k \in 1..(MemSize + 1) :
                    PieceEnds(piece(k)) /\ \A j \in 1..(k - 1) : ~ PieceEnds(piece(j))
    IN [k \in 1..last |-> SysPrintString(piece(k))]

----------------------------------------------------------------------------
NotYet == [number |-> 0, end |-> "not yet"]
NoMemory == [a \in 1..MemSize |-> 0]

(* A program that reads a number, and one that reads a string.             *)
InitNumber ==
    /\ step = "ReadNum"
    /\ typed \in SeqOf(Chars, MaxTyped)
    /\ beyond \in IF Len(typed) > max_len THEN SeqOf(Chars, 1) ELSE {<<>>}
    /\ memory = NoMemory /\ from = 1

InitString ==
    /\ step = "ReadString"
    /\ typed \in SeqOf(Letters, MAX_SIZE)
    /\ \E text \in SeqOf(Letters \cup {0}, MaxText) :
           memory = [a \in 1..MemSize |-> IF a <= Len(text) THEN text[a] ELSE 0]
    /\ from \in 1..2 /\ beyond = <<>>

Init ==
    /\ InitNumber \/ InitString
    /\ num = NotYet /\ printed = <<>> /\ again = NotYet

ReadNum ==
    /\ step = "ReadNum"
    /\ num' = SysReadNum(typed, beyond)
    /\ step' = "PrintNum"
    /\ UNCHANGED <<typed, printed, beyond, again, memory, from>>

PrintNum ==
    /\ step = "PrintNum"
    /\ printed' = SysPrintString(SysPrintNum(num.number))
    /\ step' = "ReadAgain"
    /\ UNCHANGED <<typed, beyond, num, again, memory, from>>

ReadAgain ==
    /\ step = "ReadAgain"
    /\ again' = SysReadNum(printed, <<>>)
    /\ step' = "done"
    /\ UNCHANGED <<typed, printed, beyond, num, memory, from>>

(* SystemCallReadString to address 1.                                      *)
ReadString(length) ==
    /\ step = "ReadString"
    /\ IF length < 0 \/ length >= MAX_SIZE
       THEN step' = "halted" /\ UNCHANGED memory
       ELSE /\ step' = "PrintString"
            /\ memory' = System2User(1, SysReadString(typed, length))
    /\ UNCHANGED <<typed, printed, beyond, num, again, from>>

(* The program prints what its memory held at the beginning.               *)
SkipReading ==
    /\ step = "ReadString"
    /\ step' = "PrintString"
    /\ UNCHANGED <<typed, printed, beyond, num, again, memory, from>>

PrintString ==
    /\ step = "PrintString"
    /\ printed' = FlattenSeq(Pieces(from))
    /\ step' = "stringPrinted"
    /\ UNCHANGED <<typed, beyond, num, again, memory, from>>

Next ==
    \/ ReadNum \/ PrintNum \/ ReadAgain
    \/ \E length \in -1..MAX_SIZE : ReadString(length)
    \/ SkipReading \/ PrintString

Spec == Init /\ [][Next]_vars

----------------------------------------------------------------------------
(* The number that a line stands for.                                      *)
Unsigned(line) ==
    IF line # <<>> /\ line[1] = Minus THEN Tail(line) ELSE line

IsNumber(line) == Unsigned(line) # <<>> /\ Range(Unsigned(line)) \subseteq Digits

ValueOf(line) ==
    LET digits == Unsigned(line)
        value[i \in 0..Len(digits)] ==
            IF i = 0 THEN 0 ELSE 10 * value[i - 1] + digits[i] - Zero
    IN IF line[1] = Minus THEN - value[Len(digits)] ELSE value[Len(digits)]

(* What SysReadNum returns for a line that its buffer has room for: the    *)
(* number if the line is one and an int can hold it, and otherwise 0, with *)
(* "Overflow" exactly if the number is too large and "Invalid" if a        *)
(* character is no digit.  In particular the test against MAX_INT_DIV_10   *)
(* lets every int pass, INT_MIN included, and no other number.  (For the   *)
(* empty line it returns INT_MIN.)                                         *)
ReadNumRight ==
    num # NotYet /\ Len(typed) \in 1..max_len =>
        IF IsNumber(typed)
        THEN IF ValueOf(typed) \in INT_MIN..INT_MAX
             THEN num.number = ValueOf(typed) /\ num.end \in {"", "Returned"}
             ELSE num = [number |-> 0, end |-> "Overflow"]
        ELSE num.number = 0

(* Numbers keep their value on the way in and out: ReadNum is right, and   *)
(* whatever it returned, also for a line longer than its buffer, PrintNum  *)
(* prints so that ReadNum gives the same number again, without a           *)
(* complaint; its twelve characters are room enough, with the zero that    *)
(* SysPrintString looks for.                                               *)
NumbersKept ==
    /\ ReadNumRight
    /\ num # NotYet => Len(printed) <= max_len
    /\ again # NotYet =>
           again.number = num.number /\ again.end \in {"", "Returned"}

(* PrintString prints the string at its address, whole and once: no piece  *)
(* is left out and nothing behind the string is printed, wherever the      *)
(* string ends in relation to the pieces, also when a 0 is the first byte  *)
(* of a piece.                                                             *)
StringPrintedWhole ==
    step = "stringPrinted" =>
        printed = [i \in 1..(EndOf(from) - from) |-> ByteAt(from + i - 1)]

=============================================================================

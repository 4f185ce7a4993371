---------------------------- MODULE Instructions ----------------------------
(***************************************************************************)
(* The instructions of the simulated MIPS processor: Decode, the cases of  *)
(* OneInstruction and Mult of machine/mipssim.cc, with the tables of       *)
(* machine/mipssim.h.                                                      *)
(*                                                                         *)
(* Words are as narrow as in module Memory, so an instruction does not fit *)
(* into one: it is the record of its fields, and the text of a program is  *)
(* kept apart from its data.  A field of half a word is an immediate, and  *)
(* a shift amount is taken modulo the width of a word (& 0x1f in the       *)
(* code).  What an instruction does is a record: either the exception it   *)
(* raises or the registers, the delayed load and the next pc it leaves.    *)
(***************************************************************************)
EXTENDS Memory, Sequences, Bitwise

CONSTANTS
    Gprs,           \* the general purpose registers that programs use
    JumpBits        \* width of the target of a jump (26)

HiReg == 32
LoReg == 33
PCReg == 34
NextPCReg == 35
PrevPCReg == 36
LoadReg == 37
LoadValueReg == 38
BadVAddrReg == 39
R31 == 31

ASSUME InstructionsAssumption ==
    /\ Gprs \subseteq 0..31 /\ {0, R31} \subseteq Gprs
    /\ JumpBits \in Nat /\ JumpBits + 2 <= WordBits

VARIABLE registers

NoInstruction == [opCode |-> "none"]

Registers == Gprs \cup HiReg..BadVAddrReg

----------------------------------------------------------------------------
opTable ==
    <<"SPECIAL", "BCOND", "J", "JAL", "BEQ", "BNE", "BLEZ", "BGTZ",
      "ADDI", "ADDIU", "SLTI", "SLTIU", "ANDI", "ORI", "XORI", "LUI">>
    \o [n \in 1..4 |-> "UNIMP"] \o [n \in 1..12 |-> "RES"] \o
    <<"LB", "LH", "LWL", "LW", "LBU", "LHU", "LWR", "RES",
      "SB", "SH", "SWL", "SW", "RES", "RES", "SWR", "RES">>
    \o [n \in 1..4 |-> "UNIMP"] \o [n \in 1..4 |-> "RES"]
    \o [n \in 1..4 |-> "UNIMP"] \o [n \in 1..4 |-> "RES"]

specialTable ==
    <<"SLL", "RES", "SRL", "SRA", "SLLV", "RES", "SRLV", "SRAV",
      "JR", "JALR", "RES", "RES", "SYSCALL", "UNIMP", "RES", "RES",
      "MFHI", "MTHI", "MFLO", "MTLO", "RES", "RES", "RES", "RES",
      "MULT", "MULTU", "DIV", "DIVU", "RES", "RES", "RES", "RES",
      "ADD", "ADDU", "SUB", "SUBU", "AND", "OR", "XOR", "NOR",
      "RES", "RES", "SLT", "SLTU">> \o [n \in 1..20 |-> "RES"]

SignExtend(value, bits) ==
    ToWord(IF value >= 2 ^ (bits - 1) THEN value - 2 ^ bits ELSE value)

Decode(raw) ==
    LET code == opTable[raw.op + 1]
        bcond == [rt \in 0..31 |-> CASE rt = 0 -> "BLTZ" [] rt = 1 -> "BGEZ"
                                     [] rt = 16 -> "BLTZAL" [] rt = 17 -> "BGEZAL"
                                     [] OTHER -> "UNIMP"]
    IN [opCode |-> CASE code = "SPECIAL" -> specialTable[raw.funct + 1]
                     [] code = "BCOND" -> bcond[raw.rt]
                     [] OTHER -> code,
        rs |-> raw.rs, rt |-> raw.rt, rd |-> raw.rd,
        extra |-> CASE code = "SPECIAL" -> raw.shamt
                    [] code \in {"J", "JAL"} -> raw.target
                    [] OTHER -> SignExtend(raw.imm, HalfBits)]

----------------------------------------------------------------------------
(* What an instruction can come to.  Without a branch the next pc is the   *)
(* one behind NextPCReg; a load is left to DelayedLoad.                    *)
Done(regs) ==
    [exception |-> "None", regs |-> regs, loadReg |-> 0, loadValue |-> 0,
     pcAfter |-> ToWord(registers[NextPCReg] + 4),
     table |-> pageTable, memory |-> mainMemory]

Write(reg, value) == Done([registers EXCEPT ![reg] = value])

Raise(exception, badVAddr) == [exception |-> exception, badVAddr |-> badVAddr]

(* The registers an instruction names, and the signs of a word.            *)
Rs(i) == registers[i.rs]
Rt(i) == registers[i.rt]
Negative(w) == w >= 2 ^ (WordBits - 1)
SameSign(v, w) == Negative(v) = Negative(w)
Truth(b) == IF b THEN 1 ELSE 0

----------------------------------------------------------------------------
(* OP_ADD, OP_ADDI and OP_SUB test the signs of the operands and of the    *)
(* wrapped result for an overflow.                                         *)
Add(i) ==
    LET sum == ToWord(Rs(i) + (IF i.opCode = "ADDI" THEN i.extra ELSE Rt(i)))
    IN IF i.opCode = "ADD"
       THEN IF SameSign(Rs(i), Rt(i)) /\ ~ SameSign(Rs(i), sum)
            THEN Raise("Overflow", 0) ELSE Write(i.rd, sum)
       ELSE IF SameSign(Rs(i), i.extra) /\ ~ SameSign(i.extra, sum)
            THEN Raise("Overflow", 0) ELSE Write(i.rt, sum)

AddUnsigned(i) ==
    IF i.opCode = "ADDIU" THEN Write(i.rt, ToWord(Rs(i) + i.extra))
    ELSE Write(i.rd, ToWord(Rs(i) + Rt(i)))

Sub(i) ==
    LET diff == ToWord(Rs(i) - Rt(i))
    IN IF i.opCode = "SUB" /\ ~ SameSign(Rs(i), Rt(i)) /\ ~ SameSign(Rs(i), diff)
       THEN Raise("Overflow", 0) ELSE Write(i.rd, diff)

(* The bitwise operations; the immediates lose their sign again.           *)
Low(i) == i.extra % 2 ^ HalfBits

BitAnd(i) ==
    IF i.opCode = "AND" THEN Write(i.rd, Rs(i) & Rt(i)) ELSE Write(i.rt, Rs(i) & Low(i))

BitOr(i) ==
    CASE i.opCode = "OR" -> Write(i.rd, Rs(i) | Rt(i))
      [] i.opCode = "ORI" -> Write(i.rt, Rs(i) | Low(i))
      [] i.opCode = "NOR" -> Write(i.rd, 2 ^ WordBits - 1 - (Rs(i) | Rt(i)))

BitXor(i) ==
    IF i.opCode = "XOR" THEN Write(i.rd, Rs(i) ^^ Rt(i)) ELSE Write(i.rt, Rs(i) ^^ Low(i))

LoadUpper(i) == Write(i.rt, ToWord(i.extra * 2 ^ HalfBits))

Compare(i) ==
    CASE i.opCode = "SLT" -> Write(i.rd, Truth(Signed(Rs(i)) < Signed(Rt(i))))
      [] i.opCode = "SLTI" -> Write(i.rt, Truth(Signed(Rs(i)) < Signed(i.extra)))
      [] i.opCode = "SLTIU" -> Write(i.rt, Truth(Rs(i) < i.extra))
      [] i.opCode = "SLTU" -> Write(i.rd, Truth(Rs(i) < Rt(i)))

(* OP_SRL and OP_SRLV shift an int, as OP_SRA and OP_SRAV do.              *)
By(i) == IF i.opCode \in {"SLLV", "SRAV", "SRLV"} THEN Rs(i) % WordBits ELSE i.extra

ShiftLeft(i) == Write(i.rd, ToWord(Rt(i) * 2 ^ By(i)))

ShiftRight(i) == Write(i.rd, ToWord(Signed(Rt(i)) \div 2 ^ By(i)))

----------------------------------------------------------------------------
(* Mutant: the carry out of the low word is forgotten.                     *)
MultRoundNoCarry(m) ==
    LET odd == m.a % 2 = 1
    IN [a |-> ToWord(Signed(m.a) \div 2),
        bLo |-> ToWord(2 * m.bLo),
        bHi |-> ToWord(2 * m.bHi + Truth(Negative(m.bLo))),
        lo |-> IF odd THEN ToWord(m.lo + m.bLo) ELSE m.lo,
        hi |-> IF odd THEN ToWord(m.hi + m.bHi) ELSE m.hi,
        break |-> odd /\ m.a \in {0, 1}]

(* One round of the loop of Mult: the lowest bit of a decides whether the  *)
(* shifted b is added, with the carry out of the low word; the loop ends   *)
(* at the highest bit of a.                                                *)
MultRound(m) ==
    LET odd == m.a % 2 = 1
        lo == IF odd THEN ToWord(m.lo + m.bLo) ELSE m.lo
        carry == Truth(odd /\ lo < m.bLo)
    IN [a |-> ToWord(Signed(m.a) \div 2),
        bLo |-> ToWord(2 * m.bLo),
        bHi |-> ToWord(2 * m.bHi + Truth(Negative(m.bLo))),
        lo |-> lo,
        hi |-> IF odd THEN ToWord(m.hi + carry + m.bHi) ELSE m.hi,
        break |-> odd /\ m.a \in {0, 1}]

(* Mult: both words of the product, computed from the absolute values and  *)
(* negated over both words when the signs differ.                          *)
Mult(a, b, signedArith) ==
    LET negA == signedArith /\ Negative(a)
        negB == signedArith /\ Negative(b)
        start == [a |-> IF negA THEN ToWord(-a) ELSE a,
                  bLo |-> IF negB THEN ToWord(-b) ELSE b,
                  bHi |-> 0, lo |-> 0, hi |-> 0, break |-> FALSE]
        loop[n \in 0..WordBits] ==
            IF n = 0 THEN start
            ELSE LET m == loop[n - 1] IN IF m.break THEN m ELSE MultRound(m)
        m == loop[WordBits]
        lo == ToWord(-m.lo)
    IN IF a = 0 \/ b = 0 THEN [hi |-> 0, lo |-> 0]
       ELSE IF negA = negB THEN [hi |-> m.hi, lo |-> m.lo]
       ELSE [hi |-> ToWord(Truth(lo = 0) - m.hi - 1), lo |-> lo]

WriteHiLo(hi, lo) == Done([registers EXCEPT ![HiReg] = hi, ![LoReg] = lo])

Multiply(i) ==
    LET product == Mult(Rs(i), Rt(i), i.opCode = "MULT")
    IN WriteHiLo(product.hi, product.lo)

(* Division of C rounds towards zero.  OP_DIV of the least integer by -1   *)
(* is undefined: the division instruction of the host traps.               *)
Quotient(m, n) ==
    LET q == (IF m < 0 THEN -m ELSE m) \div (IF n < 0 THEN -n ELSE n)
    IN IF (m < 0) = (n < 0) THEN q ELSE -q

Divide(i) ==
    IF Rt(i) = 0 THEN WriteHiLo(0, 0)
    ELSE IF i.opCode = "DIVU" THEN WriteHiLo(Rs(i) % Rt(i), Rs(i) \div Rt(i))
    ELSE IF Signed(Rs(i)) = - 2 ^ (WordBits - 1) /\ Signed(Rt(i)) = -1
         THEN Raise("HostTrap", 0)
    ELSE LET q == Quotient(Signed(Rs(i)), Signed(Rt(i)))
         IN WriteHiLo(ToWord(Signed(Rs(i)) - q * Signed(Rt(i))), ToWord(q))

HiLo(i) ==
    CASE i.opCode = "MFHI" -> Write(i.rd, registers[HiReg])
      [] i.opCode = "MFLO" -> Write(i.rd, registers[LoReg])
      [] i.opCode = "MTHI" -> Write(HiReg, Rs(i))
      [] i.opCode = "MTLO" -> Write(LoReg, Rs(i))

----------------------------------------------------------------------------
(* The branches are relative to NextPCReg, the instruction in the delay    *)
(* slot.  Those that link write R31 before they test rs.                   *)
Branch(i) ==
    LET links == i.opCode \in {"BGEZAL", "BLTZAL"}
        regs == IF links THEN [registers EXCEPT ![R31] = ToWord(registers[NextPCReg] + 4)]
                ELSE registers
        rs == regs[i.rs]
        taken == CASE i.opCode = "BEQ" -> rs = regs[i.rt]
                   [] i.opCode = "BNE" -> rs # regs[i.rt]
                   [] i.opCode \in {"BGEZ", "BGEZAL"} -> ~ Negative(rs)
                   [] i.opCode \in {"BLTZ", "BLTZAL"} -> Negative(rs)
                   [] i.opCode = "BGTZ" -> Signed(rs) > 0
                   [] i.opCode = "BLEZ" -> Signed(rs) <= 0
    IN IF taken
       THEN [Done(regs) EXCEPT !.pcAfter = ToWord(registers[NextPCReg] + 4 * i.extra)]
       ELSE Done(regs)

(* OP_JALR writes rd before it reads rs.                                   *)
Jump(i) ==
    LET link == CASE i.opCode = "JAL" -> {R31} [] i.opCode = "JALR" -> {i.rd}
                  [] OTHER -> {}
        after == ToWord(registers[NextPCReg] + 4)
        regs == [r \in DOMAIN registers |-> IF r \in link THEN after ELSE registers[r]]
        segment == 2 ^ (JumpBits + 2)
    IN [Done(regs) EXCEPT !.pcAfter =
            IF i.opCode \in {"J", "JAL"}
            THEN segment * (after \div segment) + 4 * i.extra
            ELSE regs[i.rs]]

----------------------------------------------------------------------------
(* Loads leave their value to DelayedLoad; OP_LB and OP_LH extend the      *)
(* sign.                                                                   *)
Address(i) == ToWord(Rs(i) + i.extra)

Loaded(i, size, signed) ==
    LET at == Translate(Address(i), size, FALSE)
    IN IF at.exception # "None" THEN Raise(at.exception, Address(i))
       ELSE [Done(registers) EXCEPT
                !.table = at.table, !.loadReg = i.rt,
                !.loadValue = IF signed THEN SignExtend(ReadMem(at, size), ByteBits * size)
                              ELSE ReadMem(at, size)]

LoadByte(i) == Loaded(i, 1, i.opCode = "LB")

LoadHalf(i) == Loaded(i, 2, i.opCode = "LH")

LoadWord(i) == Loaded(i, 4, FALSE)

(* The value that rt is about to have: a load of the instruction before is *)
(* still on its way.                                                       *)
Forwarded(rt) ==
    IF registers[LoadReg] = rt THEN registers[LoadValueReg] ELSE registers[rt]

(* Mutant: the load of the instruction before is not looked at.            *)
LoadPartNotForwarded(i) ==
    LET byte == Address(i) % 4
        at == Translate(Address(i) - byte, 4, FALSE)
        old == registers[i.rt]
        value == ReadMem(at, 4)
        kept == IF i.opCode = "LWL" THEN 3 - byte ELSE 4 - byte
        unit == 2 ^ (ByteBits * kept)
    IN IF at.exception # "None" THEN Raise(at.exception, Address(i) - byte)
       ELSE [Done(registers) EXCEPT
                !.table = at.table, !.loadReg = i.rt,
                !.loadValue = IF i.opCode = "LWL"
                              THEN (old % unit) + ToWord(value * unit)
                              ELSE old - (old % unit) + (value \div 2 ^ (ByteBits * byte))]

(* OP_LWL and OP_LWR: the bytes of the aligned word up to, or from, the    *)
(* address replace the upper, or lower, bytes of the register.             *)
LoadPart(i) ==
    LET byte == Address(i) % 4
        at == Translate(Address(i) - byte, 4, FALSE)
        old == Forwarded(i.rt)
        value == ReadMem(at, 4)
        kept == IF i.opCode = "LWL" THEN 3 - byte ELSE 4 - byte
        unit == 2 ^ (ByteBits * kept)
    IN IF at.exception # "None" THEN Raise(at.exception, Address(i) - byte)
       ELSE [Done(registers) EXCEPT
                !.table = at.table, !.loadReg = i.rt,
                !.loadValue = IF i.opCode = "LWL"
                              THEN (old % unit) + ToWord(value * unit)
                              ELSE old - (old % unit) + (value \div 2 ^ (ByteBits * byte))]

Put(at, size, value) ==
    [Done(registers) EXCEPT !.table = at.table, !.memory = WriteMem(at, size, value)]

Stored(i, size) ==
    LET at == Translate(Address(i), size, TRUE)
    IN IF at.exception # "None" THEN Raise(at.exception, Address(i))
       ELSE Put(at, size, Rt(i))

StoreNarrow(i) == Stored(i, IF i.opCode = "SB" THEN 1 ELSE 2)

StoreWord(i) == Stored(i, 4)

(* OP_SWL and OP_SWR read the aligned word, replace some of its bytes and  *)
(* write it back.                                                          *)
StorePart(i) ==
    LET byte == Address(i) % 4
        from == Translate(Address(i) - byte, 4, FALSE)
        at == Translate(Address(i) - byte, 4, TRUE)
        value == ReadMem(from, 4)
        upper == 2 ^ (ByteBits * (byte + 1))
        lower == 2 ^ (ByteBits * byte)
    IN IF from.exception # "None" THEN Raise(from.exception, Address(i) - byte)
       ELSE IF at.exception # "None" THEN Raise(at.exception, Address(i) - byte)
       ELSE Put(at, 4, IF i.opCode = "SWL"
                       THEN value - (value % upper)
                            + (Rt(i) \div 2 ^ (ByteBits * (3 - byte)))
                       ELSE (value % lower) + ToWord(Rt(i) * lower))

----------------------------------------------------------------------------
(* The switch of OneInstruction.                                           *)
Execute(i) ==
    CASE i.opCode \in {"ADD", "ADDI"} -> Add(i)
      [] i.opCode \in {"ADDIU", "ADDU"} -> AddUnsigned(i)
      [] i.opCode \in {"SUB", "SUBU"} -> Sub(i)
      [] i.opCode \in {"AND", "ANDI"} -> BitAnd(i)
      [] i.opCode \in {"OR", "ORI", "NOR"} -> BitOr(i)
      [] i.opCode \in {"XOR", "XORI"} -> BitXor(i)
      [] i.opCode = "LUI" -> LoadUpper(i)
      [] i.opCode \in {"SLT", "SLTI", "SLTIU", "SLTU"} -> Compare(i)
      [] i.opCode \in {"SLL", "SLLV"} -> ShiftLeft(i)
      [] i.opCode \in {"SRA", "SRAV", "SRL", "SRLV"} -> ShiftRight(i)
      [] i.opCode \in {"MULT", "MULTU"} -> Multiply(i)
      [] i.opCode \in {"DIV", "DIVU"} -> Divide(i)
      [] i.opCode \in {"MFHI", "MFLO", "MTHI", "MTLO"} -> HiLo(i)
      [] i.opCode \in {"BEQ", "BNE", "BGEZ", "BGEZAL", "BGTZ", "BLEZ",
                       "BLTZ", "BLTZAL"} -> Branch(i)
      [] i.opCode \in {"J", "JAL", "JALR", "JR"} -> Jump(i)
      [] i.opCode \in {"LB", "LBU"} -> LoadByte(i)
      [] i.opCode \in {"LH", "LHU"} -> LoadHalf(i)
      [] i.opCode = "LW" -> LoadWord(i)
      [] i.opCode \in {"LWL", "LWR"} -> LoadPart(i)
      [] i.opCode \in {"SB", "SH"} -> StoreNarrow(i)
      [] i.opCode = "SW" -> StoreWord(i)
      [] i.opCode \in {"SWL", "SWR"} -> StorePart(i)
      [] i.opCode = "SYSCALL" -> Raise("Syscall", 0)
      [] i.opCode \in {"RES", "UNIMP"} -> Raise("IllegalInstr", 0)

=============================================================================

------------------------------ MODULE Execute -------------------------------
(***************************************************************************)
(* One instruction in the RTL, from the decoder through its function unit  *)
(* to what retires: decoder.v, the lane steering of controller.v, adder.v, *)
(* alu.v, shifter.v, imu.v, multiplier.v, divider.v, lsu.v and             *)
(* load_extender.v, compared with the reference model (CInstr) over the    *)
(* operand values a test bench picks from.  The units are combinational:   *)
(* a step of this specification changes one operand and settles.           *)
(***************************************************************************)
EXTENDS CInstr

CONSTANTS
  SHAMT,          \* bits of a shift amount: log2 XLEN (5)
  Instructions,   \* fields of the instructions under test
  Operands,       \* sequence of words on the operand buses
  Pcs             \* program counters

ASSUME ExecuteAssumption ==
  /\ SHAMT \in Nat /\ XLEN = 2^SHAMT
  /\ Instructions \subseteq Instruction
  /\ Operands \in Seq(Word) /\ Operands # <<>>
  /\ Pcs \subseteq Word

VARIABLES f, at, i1, i2

executeVars == <<f, at, i1, i2>>
-----------------------------------------------------------------------------
\* The unit that the decoder steers an instruction to, and the unit's opcode;
\* no unit when the encoding is not supported (or is a jump or a fence).
IntUnit == << <<"adder", "add">>, <<"shifter", "sll">>, <<"adder", "lt">>,
              <<"adder", "ltu">>, <<"alu", "xor">>, <<"shifter", "srl">>,
              <<"alu", "or">>, <<"alu", "and">> >>
MulDivUnit == << <<"multiplier", "mul">>, <<"multiplier", "mulh">>,
                 <<"multiplier", "mulsu">>, <<"multiplier", "mulu">>,
                 <<"divider", "div">>, <<"divider", "divu">>,
                 <<"divider", "rem">>, <<"divider", "remu">> >>
BranchOp == [n \in {0, 1, 4, 5, 6, 7} |->
               CASE n = 0 -> "eq" [] n = 1 -> "ne" [] n = 4 -> "lt"
                 [] n = 5 -> "ge" [] n = 6 -> "ltu" [] n = 7 -> "geu"]
LoadOp == [n \in {0, 1, 2, 4, 5} |->
             CASE n = 0 -> "lb" [] n = 1 -> "lh" [] n = 2 -> "lw"
               [] n = 4 -> "lbu" [] n = 5 -> "lhu"]
StoreOp == [n \in {0, 1, 2} |-> <<"sb", "sh", "sw">>[n + 1]]

supported(i) ==
  CASE i.opcode = "op" -> \/ i.funct7 \in {0, 1}
                          \/ i.funct7 = 32 /\ i.funct3 \in {0, 5}
    [] i.opcode = "op_imm" -> \/ i.funct3 \notin {1, 5}
                              \/ i.funct7 = 0
                              \/ i.funct3 = 5 /\ i.funct7 = 32
    [] i.opcode = "load" -> i.funct3 \in DOMAIN LoadOp
    [] i.opcode = "store" -> i.funct3 \in DOMAIN StoreOp
    [] i.opcode = "branch" -> i.funct3 \in DOMAIN BranchOp
    [] i.opcode \in {"jalr", "misc_mem"} -> i.funct3 = 0
    [] OTHER -> i.opcode \in {"jal", "lui", "auipc"}

NoUnit == <<"none", "none">>
unit(i) ==
  IF ~supported(i) THEN NoUnit ELSE
  CASE i.opcode = "op" ->
         IF i.funct7 = 1 THEN MulDivUnit[i.funct3 + 1]
         ELSE IF i.funct7 = 32 THEN IF i.funct3 = 0 THEN <<"adder", "sub">>
                                                    ELSE <<"shifter", "sra">>
         ELSE IntUnit[i.funct3 + 1]
    [] i.opcode = "op_imm" ->
         IF i.funct3 = 5 /\ i.funct7 # 0 THEN <<"shifter", "sra">>
         ELSE IntUnit[i.funct3 + 1]
    [] i.opcode = "load" -> <<"lsu", LoadOp[i.funct3]>>
    [] i.opcode = "store" -> <<"lsu", StoreOp[i.funct3]>>
    [] i.opcode = "branch" -> <<"adder", BranchOp[i.funct3]>>
    [] i.opcode = "jalr" -> <<"adder", "add">>
    [] i.opcode = "lui" -> <<"imu", "lui">>
    [] i.opcode = "auipc" -> <<"imu", "auipc">>
    [] OTHER -> NoUnit

sel_imm(i) == supported(i) /\ i.opcode \in {"op_imm", "load", "store", "jalr"}
reports_rd(i) ==
  supported(i) /\ i.opcode \in {"op", "op_imm", "load", "jal", "jalr", "lui", "auipc"}
-----------------------------------------------------------------------------
\* adder.v: one sum serves addition, subtraction and every comparison, which
\* read the zero, sign, overflow and carry flags of the difference.
top(v) == v \div SignBit
invert(v) == AllOnes - v
sum(opcode, a, b) == IF opcode = "add" THEN a + b ELSE a + invert(b) + 1
ZF(s) == word(s) = 0
SF(s) == top(word(s)) = 1
\* Mutant of OF: the overflow flag is left out of the signed comparison.
OF_none(a, b, s) == FALSE
OF(a, b, s) == top(a) # top(b) /\ top(word(s)) # top(a)
CF(s) == s >= 2^XLEN

compare(opcode, a, b) ==
  LET s == sum(opcode, a, b)
      less == SF(s) # OF(a, b, s)
  IN CASE opcode = "eq" -> ZF(s)
       [] opcode = "ne" -> ~ZF(s)
       [] opcode = "lt" -> less
       [] opcode = "ge" -> ~less
       [] opcode = "ltu" -> ~CF(s)
       [] opcode = "geu" -> CF(s)
       [] OTHER -> FALSE

addC(opcode, a, b) ==
  CASE opcode \in {"add", "sub"} -> word(sum(opcode, a, b))
    [] opcode \in {"lt", "ltu"} -> flag(compare(opcode, a, b))
    [] OTHER -> 0

aluC(opcode, a, b) ==
  CASE opcode = "or" -> or(a, b)
    [] opcode = "and" -> and(a, b)
    [] opcode = "xor" -> xor(a, b)

\* shifter.v: one stage per bit of the amount, the widest first; an arithmetic
\* stage fills with the sign that the stage before it left.
shift_stage(opcode, v, n) ==
  CASE opcode = "sll" -> word(v * 2^n)
    [] opcode = "srl" -> v \div 2^n
    [] opcode = "sra" -> (v \div 2^n) + (IF top(v) = 1 THEN 2^XLEN - 2^(XLEN - n) ELSE 0)

shfC(opcode, a, b) ==
  LET rst[k \in 0 .. SHAMT] ==
        IF k = SHAMT THEN a
        ELSE IF (b \div 2^k) % 2 = 1 THEN shift_stage(opcode, rst[k + 1], 2^k)
        ELSE rst[k + 1]
  IN rst[0]

imuC(opcode, current_pc, imm) ==
  CASE opcode = "lui" -> imm
    [] opcode = "auipc" -> plus(current_pc, imm)

\* multiplier.v: operands extended by one bit, products of twice the width.
mpyC(opcode, a, b) ==
  CASE opcode = "mul" -> (signed(a) * signed(b)) % 2^XLEN
    [] opcode = "mulh" -> ((signed(a) * signed(b)) \div 2^XLEN) % 2^XLEN
    [] opcode = "mulsu" -> ((signed(a) * b) \div 2^XLEN) % 2^XLEN
    [] opcode = "mulu" -> (a * b) \div 2^XLEN

divC(opcode, a, b) ==
  LET overflows == a = SignBit /\ b = AllOnes
  IN CASE opcode \in {"div", "divu"} /\ b = 0 -> AllOnes
       [] opcode \in {"rem", "remu"} /\ b = 0 -> a
       [] opcode = "divu" /\ b # 0 -> a \div b
       [] opcode = "remu" /\ b # 0 -> a % b
       [] opcode = "div" /\ b # 0 ->
            IF overflows THEN SignBit ELSE word(quotient(signed(a), signed(b)))
       [] opcode = "rem" /\ b # 0 ->
            IF overflows THEN 0 ELSE word(remainder(signed(a), signed(b)))

lsu_strobe(opcode) ==
  CASE opcode \in {"lb", "lbu", "sb"} -> 1
    [] opcode \in {"lh", "lhu", "sh"} -> 3
    [] opcode \in {"lw", "sw"} -> 15

replicate(bit, from) == IF bit = 1 THEN 2^XLEN - 2^from ELSE 0
value_out(opcode, raw) ==
  CASE opcode = "lb" -> (raw % 2^BYTE) + replicate((raw \div 2^(BYTE - 1)) % 2, BYTE)
    [] opcode = "lh" ->
         (raw % 2^(2 * BYTE)) + replicate((raw \div 2^(2 * BYTE - 1)) % 2, 2 * BYTE)
    [] opcode = "lw" -> raw
    [] opcode = "lbu" -> raw % 2^BYTE
    [] opcode = "lhu" -> raw % 2^(2 * BYTE)
-----------------------------------------------------------------------------
\* What instruction i at pc with source values v1 and v2 makes retire; raw is
\* the word a load would receive.
NoAccess == [strobe |-> 0, addr |-> 0, wdata |-> 0]

operand_b(i, v2) == IF sel_imm(i) THEN word(i.imm) ELSE v2

lane_value(i, pc, v1, v2) ==
  LET u == unit(i)
      b == operand_b(i, v2)
  IN IF i.opcode \in {"jal", "jalr"} THEN plus(pc, 4) ELSE
     CASE u[1] = "adder" -> addC(u[2], v1, b)
       [] u[1] = "alu" -> aluC(u[2], v1, b)
       [] u[1] = "shifter" -> shfC(u[2], v1, b)
       [] u[1] = "imu" -> imuC(u[2], pc, word(i.imm))
       [] OTHER -> 0

value(i, pc, v1, v2, raw) ==
  CASE unit(i)[1] = "multiplier" -> mpyC(unit(i)[2], v1, v2)
    [] unit(i)[1] = "divider" -> divC(unit(i)[2], v1, v2)
    [] unit(i)[1] = "lsu" /\ i.opcode = "load" -> value_out(unit(i)[2], raw)
    [] OTHER -> lane_value(i, pc, v1, v2)

target(i, pc, v1, v2) ==
  IF ~supported(i) THEN plus(pc, 4) ELSE
  CASE i.opcode = "branch" /\ compare(unit(i)[2], v1, v2) -> plus(pc, i.imm)
    [] i.opcode = "jal" -> plus(pc, i.imm)
    [] i.opcode = "jalr" -> LET t == addC("add", v1, operand_b(i, v2))
                            IN t - (t % 2)
    [] OTHER -> plus(pc, 4)

access(i, v1, v2) ==
  IF unit(i)[1] # "lsu" THEN NoAccess
  ELSE [strobe |-> lsu_strobe(unit(i)[2]), addr |-> plus(v1, i.imm), wdata |-> v2]

retires(i, pc, v1, v2, raw) ==
  [next |-> target(i, pc, v1, v2),
   commit |-> reports_rd(i),
   data |-> IF reports_rd(i) /\ i.rd # 0 THEN value(i, pc, v1, v2, raw) ELSE 0,
   access |-> access(i, v1, v2)]

\* The same record from the trace of the reference model.
model_retires(i, pc, v1, v2, raw) ==
  LET addr == plus(v1, i.imm)
      t == retire_trace(pc, 0, i, v2, addr, raw, result(i, pc, v1, v2, raw))
  IN [next |-> next_pc(i, pc, v1, v2),
      commit |-> t.commit_valid,
      data |-> IF t.commit_valid THEN t.rd_data ELSE 0,
      access |-> IF t.is_read
                 THEN [strobe |-> IF i.funct3 = 2 THEN 15 ELSE IF i.funct3 \in {1, 5} THEN 3 ELSE 1,
                       addr |-> t.addr, wdata |-> v2]
                 ELSE IF t.is_write
                 THEN [strobe |-> t.wstrb, addr |-> t.addr, wdata |-> t.wdata]
                 ELSE NoAccess]
-----------------------------------------------------------------------------
v1 == Operands[i1]
v2 == Operands[i2]

ExecuteInit == f \in Instructions /\ at \in Pcs /\ i1 = 1 /\ i2 = 1

NextOperand1 == i1' = (i1 % Len(Operands)) + 1 /\ UNCHANGED <<f, at, i2>>
NextOperand2 == i2' = (i2 % Len(Operands)) + 1 /\ UNCHANGED <<f, at, i1>>

ExecuteSpec == ExecuteInit /\ [][NextOperand1 \/ NextOperand2]_executeVars
-----------------------------------------------------------------------------
(***************************************************************************)
(* Whatever the operands, an encoding that the decoder supports retires in *)
(* the RTL exactly what the reference model traces: the next program       *)
(* counter, whether and what it writes, and the memory access with its     *)
(* address, bytes and data.  The flag arithmetic of the adder, the staged  *)
(* shifter and the widened products stand against the C++ operators.       *)
(***************************************************************************)
RetireAgrees ==
  supported(f) => retires(f, at, v1, v2, v2) = model_retires(f, at, v1, v2, v2)

\* Encodings the model executes as the instruction they resemble although the
\* decoder rejects them: an unknown funct7, or a funct3 of jalr.
Lenient(i) ==
  \/ i.opcode = "op" /\ i.funct7 \notin {0, 1, 32}
  \/ i.opcode = "op_imm" /\ i.funct3 \in {1, 5} /\ i.funct7 # 0
  \/ i.opcode = "jalr" /\ i.funct3 # 0

(***************************************************************************)
(* An encoding that the decoder rejects retires with no effect but the     *)
(* next program counter, and so it does in the reference model, except for *)
(* the three families of Lenient: on those a comparison of traces fails    *)
(* although neither side is at fault.                                      *)
(***************************************************************************)
RejectedInert ==
  LET inert == [next |-> plus(at, 4), commit |-> FALSE, data |-> 0, access |-> NoAccess]
  IN ~supported(f) =>
       /\ retires(f, at, v1, v2, v2) = inert
       /\ Lenient(f) \/ model_retires(f, at, v1, v2, v2) = inert

(***************************************************************************)
(* The arithmetic of the reference model is that of the instruction set:   *)
(* dividend = divisor * quotient + remainder modulo the word, the          *)
(* remainder is smaller than the divisor and has the dividend's sign, also *)
(* for the one quotient that overflows; and the four products are one      *)
(* product, whose upper words differ by the operands read as negative.     *)
(***************************************************************************)
DivisionLaw ==
  v2 # 0 =>
    LET r == signed(rem_signed(v1, v2))
    IN /\ word(signed(div_signed(v1, v2)) * signed(v2) + r) = v1
       /\ magnitude(r) < magnitude(signed(v2))
       /\ r = 0 \/ (r < 0) = (signed(v1) < 0)
       /\ div_unsigned(v1, v2) * v2 + rem_unsigned(v1, v2) = v1
       /\ rem_unsigned(v1, v2) < v2

ProductLaw ==
  LET negative(v, other) == IF v >= SignBit THEN other ELSE 0
  IN /\ mulhu(v1, v2) * 2^XLEN + word(v1 * v2) = v1 * v2
     /\ mulhsu(v1, v2) = word(mulhu(v1, v2) - negative(v1, v2))
     /\ mulh(v1, v2) = word(mulhsu(v1, v2) - negative(v2, v1))

ArithmeticLaws == DivisionLaw /\ ProductLaw
=============================================================================

------------------------------- MODULE CInstr -------------------------------
(***************************************************************************)
(* One instruction of the reference model: the switch of mycore::step      *)
(* (src/C_model/model.cpp) over the fields of an instruction word, as      *)
(* functions of the source values v1 and v2, the program counter at and,   *)
(* for a load, the word raw read from memory.                              *)
(***************************************************************************)
EXTENDS SparseMemory

CONSTANT REGS   \* registers (32)

ASSUME RegsAssumption == REGS \in Nat \ {0}

Reg == 0 .. REGS - 1
Opcodes == {"op", "op_imm", "load", "store", "branch", "jal", "jalr", "lui",
            "auipc", "misc_mem", "other"}
Instruction == [opcode : Opcodes, rd : Reg, funct3 : 0 .. 7, rs1 : Reg,
                rs2 : Reg, funct7 : 0 .. 127, imm : Int]
OpImmNop == [opcode |-> "op_imm", rd |-> 0, funct3 |-> 0, rs1 |-> 0, rs2 |-> 0,
             funct7 |-> 0, imm |-> 0]

-----------------------------------------------------------------------------
\* case 0x33.  A funct7 that is neither 0x01 nor 0x20 executes as 0x00.
muldiv(funct3, v1, v2) ==
  CASE funct3 = 0 -> word(v1 * v2)
    [] funct3 = 1 -> mulh(v1, v2)
    [] funct3 = 2 -> mulhsu(v1, v2)
    [] funct3 = 3 -> mulhu(v1, v2)
    [] funct3 = 4 -> div_signed(v1, v2)
    [] funct3 = 5 -> div_unsigned(v1, v2)
    [] funct3 = 6 -> rem_signed(v1, v2)
    [] funct3 = 7 -> rem_unsigned(v1, v2)

integer(funct3, v1, v2) ==
  CASE funct3 = 0 -> plus(v1, v2)
    [] funct3 = 1 -> shl(v1, v2 % XLEN)
    [] funct3 = 2 -> flag(signed(v1) < signed(v2))
    [] funct3 = 3 -> flag(v1 < v2)
    [] funct3 = 4 -> xor(v1, v2)
    [] funct3 = 5 -> shr(v1, v2 % XLEN)
    [] funct3 = 6 -> or(v1, v2)
    [] funct3 = 7 -> and(v1, v2)

op(f, v1, v2) ==
  CASE f.funct7 = 1 -> muldiv(f.funct3, v1, v2)
    [] f.funct7 = 32 /\ f.funct3 = 0 -> word(v1 - v2)
    [] f.funct7 = 32 /\ f.funct3 = 5 -> sar(v1, v2 % XLEN)
    [] f.funct7 = 32 /\ f.funct3 \notin {0, 5} -> 0
    [] OTHER -> integer(f.funct3, v1, v2)

\* case 0x13.  Only SRAI looks at funct7.
op_imm(f, v1) ==
  LET imm == word(f.imm)
  IN IF f.funct3 = 5 /\ f.funct7 = 32 THEN sar(v1, imm % XLEN)
     ELSE integer(f.funct3, v1, imm)

LoadFunct3 == {0, 1, 2, 4, 5}
load(f, raw) ==
  CASE f.funct3 = 0 -> sign_extend(raw % 2^BYTE, BYTE)
    [] f.funct3 = 1 -> sign_extend(raw % 2^(2 * BYTE), 2 * BYTE)
    [] f.funct3 = 2 -> raw
    [] f.funct3 = 4 -> raw % 2^BYTE
    [] f.funct3 = 5 -> raw % 2^(2 * BYTE)
    [] OTHER -> 0

\* Bytes a store writes; 0 for a funct3 that is no store.
store_bytes(f) ==
  CASE f.funct3 = 0 -> 1
    [] f.funct3 = 1 -> 2
    [] f.funct3 = 2 -> 4
    [] OTHER -> 0

taken(f, v1, v2) ==
  CASE f.funct3 = 0 -> v1 = v2
    [] f.funct3 = 1 -> v1 # v2
    [] f.funct3 = 4 -> signed(v1) < signed(v2)
    [] f.funct3 = 5 -> signed(v1) >= signed(v2)
    [] f.funct3 = 6 -> v1 < v2
    [] f.funct3 = 7 -> v1 >= v2
    [] OTHER -> FALSE

next_pc(f, at, v1, v2) ==
  CASE f.opcode = "jal" -> plus(at, f.imm)
    [] f.opcode = "jalr" -> LET target == plus(v1, f.imm) IN target - (target % 2)
    [] f.opcode = "branch" /\ taken(f, v1, v2) -> plus(at, f.imm)
    [] OTHER -> plus(at, 4)

\* Mutant of write_rd: a load of no known width still writes its register.
write_rd_any_load(f) ==
  \/ f.opcode = "op" /\ (f.funct7 # 32 \/ f.funct3 \in {0, 5})
  \/ f.opcode \in {"load", "op_imm", "jal", "jalr", "lui", "auipc"}

write_rd(f) ==
  \/ f.opcode = "op" /\ (f.funct7 # 32 \/ f.funct3 \in {0, 5})
  \/ f.opcode = "load" /\ f.funct3 \in LoadFunct3
  \/ f.opcode \in {"op_imm", "jal", "jalr", "lui", "auipc"}

result(f, at, v1, v2, raw) ==
  CASE f.opcode = "op" -> op(f, v1, v2)
    [] f.opcode = "op_imm" -> op_imm(f, v1)
    [] f.opcode = "load" -> load(f, raw)
    [] f.opcode \in {"jal", "jalr"} -> plus(at, 4)
    [] f.opcode = "lui" -> word(f.imm)
    [] f.opcode = "auipc" -> plus(at, f.imm)
    [] OTHER -> 0
-----------------------------------------------------------------------------
commit(rs, f, value) ==
  [(IF write_rd(f) /\ f.rd # 0 THEN [rs EXCEPT ![f.rd] = value] ELSE rs)
   EXCEPT ![0] = 0]

store(m, f, addr, value) ==
  IF f.opcode = "store" /\ store_bytes(f) # 0
  THEN write(m, addr, value, store_bytes(f)) ELSE m

\* addr, rdata and wdata are filled in even for a funct3 that does nothing.
retire_trace(at, instr, f, v2, addr, raw, value) ==
  [pc |-> at, instr |-> instr,
   commit_valid |-> write_rd(f), rd_addr |-> f.rd,
   rd_data |-> IF f.rd = 0 THEN 0 ELSE value,
   addr |-> IF f.opcode \in {"load", "store"} THEN addr ELSE 0,
   is_read |-> f.opcode = "load" /\ f.funct3 \in LoadFunct3,
   rdata |-> IF f.opcode = "load" THEN raw ELSE 0,
   is_write |-> f.opcode = "store" /\ store_bytes(f) # 0,
   wstrb |-> IF f.opcode = "store" /\ store_bytes(f) # 0
             THEN 2^store_bytes(f) - 1 ELSE 0,
   wdata |-> IF f.opcode = "store" THEN v2 ELSE 0]
=============================================================================

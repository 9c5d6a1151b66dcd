--------------------------------- MODULE RV ---------------------------------
(***************************************************************************)
(* The instruction set, as far as ordering, speculation and memory tell    *)
(* instructions apart: what one instruction does to the architectural      *)
(* state in src/C_model/model.cpp.  Words, addresses and program counters  *)
(* are counted in units of a word and wrap at WORDS (2^32 bytes in the     *)
(* RTL).  One representative stands for each execution class: add and addi *)
(* for the integer lanes, mul for the multiply/divide unit, lw and sw for  *)
(* the memory pipeline, beq, jal and jalr for control, and an encoding     *)
(* that the decoder does not support.                                      *)
(***************************************************************************)
EXTENDS Naturals

CONSTANT WORDS     \* number of word values

ASSUME WordsAssumption == WORDS \in Nat /\ WORDS >= 2

Data == 0 .. WORDS - 1
Op == {"add", "addi", "mul", "lw", "sw", "beq", "jal", "jalr", "fence", "illegal"}
Control == {"beq", "jal", "jalr"}

\* Instructions as they sit in instruction memory.
Ins(op, rd, rs1, rs2, imm) ==
  [op |-> op, rd |-> rd, rs1 |-> rs1, rs2 |-> rs2, imm |-> imm]
Nop == Ins("addi", 0, 0, 0, 0)

plus(a, b) == (a + b) % WORDS
pc_plus_4(pc) == plus(pc, 1)

\* Does the instruction name a destination register?
sel_rd(op) == op \in {"add", "addi", "mul", "lw", "jal", "jalr"}

\* The result of an instruction that writes a register without loading.
Result(i, pc, v1, v2) ==
  CASE i.op = "add" -> plus(v1, v2)
    [] i.op = "addi" -> plus(v1, i.imm)
    [] i.op = "mul" -> (v1 * v2) % WORDS
    [] i.op \in {"jal", "jalr"} -> pc_plus_4(pc)
    [] OTHER -> 0

EffectiveAddr(i, v1) == plus(v1, i.imm)

Target(i, pc, v1, v2) ==
  CASE i.op = "jal" \/ (i.op = "beq" /\ v1 = v2) -> plus(pc, i.imm)
    [] i.op = "jalr" -> plus(v1, i.imm)
    [] OTHER -> pc_plus_4(pc)

(***************************************************************************)
(* One architectural step: mycore::step.                                   *)
(***************************************************************************)
Step(s, prog) ==
  LET i == prog[s.pc]
      v1 == s.regs[i.rs1]
      v2 == s.regs[i.rs2]
      a == EffectiveAddr(i, v1)
      value == IF i.op = "lw" THEN s.mem[a] ELSE Result(i, s.pc, v1, v2)
  IN [pc |-> Target(i, s.pc, v1, v2),
      regs |-> IF sel_rd(i.op) /\ i.rd # 0
               THEN [s.regs EXCEPT ![i.rd] = value] ELSE s.regs,
      mem |-> IF i.op = "sw" THEN [s.mem EXCEPT ![a] = v2] ELSE s.mem]
=============================================================================

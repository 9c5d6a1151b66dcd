------------------------------ MODULE MCDecode -------------------------------
(***************************************************************************)
(* Both halves of decoding in one run: what an instruction does, from its  *)
(* fields (Execute), and which bits of a word its fields are (Encoding).   *)
(* A behaviour varies either operands or bits; the other half rests.       *)
(***************************************************************************)
EXTENDS Execute, Encoding
\* Every opcode with every funct3; every kind of funct7 where one is looked at.
Funct7(opcode) == IF opcode \in {"op", "op_imm"} THEN {0, 1, 2, 32} ELSE {0}
MCInstructions ==
  {[opcode |-> o, rd |-> d, funct3 |-> f3, rs1 |-> 1, rs2 |-> 2, funct7 |-> f7, imm |-> m] :
     o \in Opcodes, d \in {0, 3}, f3 \in 0 .. 7, f7 \in {0, 1, 2, 32}, m \in {-3, 6}}
MCTests == {i \in MCInstructions :
              /\ i.funct7 \in Funct7(i.opcode)
              /\ i.rd = 0 => i.funct3 = 0 /\ i.imm = 6}
\* The corners of an eight-bit word and of its bytes and halves.
MCOperands == <<0, 1, 2, 3, 4, 5, 7, 8, 13, 63, 64, 85, 127, 128,
                129, 170, 200, 247, 253, 254, 255>>
MCPcs == {252}

ExecuteRests == i1 = 1 /\ i2 = 1 /\ f = (CHOOSE i \in Instructions : i.opcode = "op")
EncodingRests == ones = {} /\ format = "I"

MCInit == ExecuteInit /\ EncodingInit /\ (ExecuteRests \/ EncodingRests)
MCNext ==
  \/ EncodingRests /\ (NextOperand1 \/ NextOperand2) /\ UNCHANGED encodingVars
  \/ ExecuteRests /\ SetBit /\ UNCHANGED executeVars
MCSpec == MCInit /\ [][MCNext]_<<executeVars, encodingVars>>
=============================================================================

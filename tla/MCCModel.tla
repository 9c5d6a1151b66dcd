------------------------------ MODULE MCCModel ------------------------------
EXTENDS CModel
\* Words of eight bits, a byte of two: an instruction and an address space of
\* 256 bytes fit a word.
F(opcode, rd, funct3, rs1, rs2, funct7, imm) ==
  [opcode |-> opcode, rd |-> rd, funct3 |-> funct3, rs1 |-> rs1, rs2 |-> rs2,
   funct7 |-> funct7, imm |-> imm]
Table == <<
  F("op", 1, 0, 1, 2, 0, 0),        \* add x1, x1, x2
  F("op", 2, 0, 1, 2, 2, 0),        \* a funct7 of no operation: adds
  OpImmNop,
  F("op", 1, 1, 1, 2, 32, 0),       \* funct7 0x20, no operation: inert
  F("op", 2, 6, 1, 2, 1, 0),        \* rem x2, x1, x2
  F("op_imm", 1, 0, 0, 0, 0, 7),    \* addi x1, x0, 7
  F("op_imm", 0, 0, 1, 0, 0, 1),    \* addi x0, x1, 1
  F("op_imm", 2, 5, 1, 0, 32, 1),   \* srai x2, x1, 1
  F("load", 1, 0, 2, 0, 0, 1),      \* lb x1, 1(x2)
  F("load", 2, 5, 1, 0, 0, -4),     \* lhu x2, -4(x1)
  F("load", 1, 2, 1, 0, 0, 2),      \* lw x1, 2(x1): crosses words
  F("load", 0, 2, 2, 0, 0, 0),      \* lw x0, (x2)
  F("load", 1, 3, 2, 0, 0, 0),      \* no load: inert
  F("store", 0, 0, 0, 2, 0, 8),     \* sb x2, 8(x0): the next words of code
  F("store", 0, 1, 1, 2, 0, 3),     \* sh x2, 3(x1)
  F("store", 0, 2, 0, 2, 0, 4),     \* sw x2, 4(x0)
  F("store", 1, 3, 0, 2, 0, 4),     \* no store: inert
  F("branch", 0, 4, 1, 2, 0, 6),    \* blt x1, x2, 6: into the middle of a word
  F("branch", 0, 2, 1, 2, 0, 8),    \* no branch: not taken
  F("jal", 1, 0, 0, 0, 0, -4),
  F("jalr", 2, 0, 1, 0, 0, 2),
  F("lui", 0, 0, 0, 0, 0, 16),
  F("auipc", 1, 0, 0, 0, 0, -16),
  F("misc_mem", 1, 0, 1, 0, 0, 0),
  F("other", 1, 0, 1, 0, 0, 0) >>
MCFields == [w \in Word |-> IF w + 1 \in DOMAIN Table THEN Table[w + 1] ELSE Table[25]]
MCNop == 2
Code == 0 .. Len(Table) - 1
\* Any instruction first, then one that reads what it did, jumps or is a word
\* that it may just have overwritten.
Then == {0, 4, 6, 8, 10, 13, 15, 17, 19, 20, 22}
MCFiles == {<<a, b>> : a \in Code, b \in Then} \cup {<<15, Unreadable, 1>>, <<13, 0, 1, 18>>, <<>>}
MCCommandLines ==
  {<<>>, << <<"TARGET_COMMITS", NoFile>> >>, << <<"IMAGE_FILE", NoFile>> >>,
   << <<"TARGET_COMMITS", <<>> >>, <<"IMAGE_FILE", <<5, 13, 0>> >>, <<"IMAGE_FILE", <<>> >> >>}
MCAddrs == {0, 4}
MCValues == {15, 250}
=============================================================================

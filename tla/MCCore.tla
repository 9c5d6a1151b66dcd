------------------------------- MODULE MCCore -------------------------------
EXTENDS Core, TLC
Prog(s) == [pc \in Data |-> IF pc < Len(s) THEN s[pc + 1] ELSE Nop]
\* x1 = 1, then any three instructions of the alphabet, then nops: every
\* class, every kind of jump, control flow that loops back through 0.
Alphabet == {
  Ins("add", 1, 1, 2, 0),    \* x1 = x1 + x2
  Ins("addi", 2, 1, 0, 1),   \* x2 = x1 + 1
  Ins("mul", 2, 1, 1, 0),    \* x2 = x1 * x1
  Ins("lw", 1, 1, 0, 0),     \* x1 = mem[x1]
  Ins("sw", 0, 1, 2, 0),     \* mem[x1] = x2
  Ins("beq", 0, 0, 0, 2),    \* always taken
  Ins("beq", 0, 1, 2, 2),    \* taken when x1 = x2
  Ins("jal", 2, 0, 0, 2),
  Ins("jalr", 1, 2, 0, 1),   \* jump to x2 + 1
  Ins("fence", 0, 0, 0, 0),
  Ins("illegal", 1, 0, 0, 0)}
MixedPrograms == {Prog(<<Ins("addi", 1, 0, 0, 1), a, b, c>>) : a, b, c \in Alphabet}

\* Four instructions without control flow: memory dependences, and enough
\* independent results for all four producers to ask for the bus at once.
Busy == {
  Ins("addi", 2, 1, 0, 1), Ins("mul", 2, 1, 1, 0), Ins("lw", 2, 1, 0, 0),
  Ins("sw", 0, 1, 2, 0)}
BusyPrograms == {Prog(<<Ins("addi", 1, 0, 0, 1), a, b, c, d>>) : a, b, c, d \in Busy}

\* All four producers at once; a fence behind a store; a store behind a taken
\* branch; a chain through every unit; a loop.
LivePrograms == {
  Prog(<<Ins("addi", 1, 0, 0, 1), Ins("lw", 2, 1, 0, 0), Ins("mul", 2, 1, 1, 0),
         Ins("addi", 2, 1, 0, 1), Ins("addi", 2, 1, 0, 1)>>),
  Prog(<<Ins("addi", 1, 0, 0, 1), Ins("sw", 0, 1, 1, 0), Ins("fence", 0, 0, 0, 0),
         Ins("lw", 2, 1, 0, 0)>>),
  Prog(<<Ins("mul", 1, 1, 1, 0), Ins("beq", 0, 1, 2, 2), Ins("sw", 0, 1, 1, 0),
         Ins("lw", 2, 1, 0, 0), Ins("illegal", 0, 0, 0, 0)>>),
  Prog(<<Ins("addi", 1, 0, 0, 2), Ins("mul", 1, 1, 1, 0), Ins("sw", 0, 1, 1, 0),
         Ins("lw", 2, 1, 0, 0), Ins("jalr", 2, 2, 0, 4)>>)}
AllPrograms == MixedPrograms \cup BusyPrograms

MCIns == {p[pc] : p \in Programs, pc \in Data}
MCDecoded == {decode(pc, i) : pc \in Data, i \in MCIns}
MCUop == {[decode(pc, i) EXCEPT !.pdst = p, !.old_pdst = q] :
            pc \in Data, i \in MCIns, p, q \in Phys}
MCNop == decode(0, Nop)
=============================================================================

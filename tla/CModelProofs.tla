---------------------------- MODULE CModelProofs -----------------------------
(***************************************************************************)
(* The reference model and the units it is compared with.                  *)
(*   - Its traces are complete, for every word width, register count,      *)
(*     instruction table, program and sequence of calls.                   *)
(*   - Every instruction word has one bit layout for the assembler of the  *)
(*     model's tests, for the decoder and for the model, and one immediate.*)
(*   - With 32-bit words the function units retire what the model retires, *)
(*     for every instruction and operands, and the model's multiplication  *)
(*     and division obey their laws.                                       *)
(***************************************************************************)
EXTENDS CModel, Execute, Encoding, FiniteSetTheorems, TLAPS

\* The registers are a function on Reg whose x0 is zero, and the caller's
\* reconstruction is the machine.
RegsOK == regs = [r \in Reg |-> regs[r]] /\ regs[0] = 0

IInv ==
  /\ RegsOK
  /\ replay = [regs |-> regs, mem |-> mem, imem |-> imem, separate |-> use_separate_imem]

\* Committing an instruction is what its trace says, when x0 is zero: the
\* write of rd, if any, and no write to x0.
LEMMA CommitTraced ==
  ASSUME NEW rs, rs = [r \in Reg |-> rs[r]], rs[0] = 0,
         NEW i, NEW v
  PROVE  commit(rs, i, v) =
           IF write_rd(i) /\ i.rd # 0
           THEN [rs EXCEPT ![i.rd] = IF i.rd = 0 THEN 0 ELSE v] ELSE rs
<1>1. 0 \in Reg
  BY RegsAssumption DEF Reg
<1>2. CASE write_rd(i) /\ i.rd # 0
  BY <1>1, <1>2 DEF commit
<1>3. CASE ~(write_rd(i) /\ i.rd # 0)
  BY <1>1, <1>3 DEF commit
<1> QED
  BY <1>2, <1>3

\* Committing keeps the shape of the registers and x0.
LEMMA CommitShape ==
  ASSUME NEW rs, rs = [r \in Reg |-> rs[r]], NEW i, NEW v
  PROVE  /\ commit(rs, i, v) = [r \in Reg |-> commit(rs, i, v)[r]]
         /\ commit(rs, i, v)[0] = 0
<1>1. 0 \in Reg
  BY RegsAssumption DEF Reg
<1> QED
  BY <1>1 DEF commit

\* A store is what its trace says: the strobe determines the bytes written.
LEMMA StoreTraced ==
  ASSUME NEW m, NEW i, NEW addr, NEW v
  PROVE  store(m, i, addr, v) =
           IF i.opcode = "store" /\ store_bytes(i) # 0
           THEN write(m, addr, v, strobe_bytes(2^store_bytes(i) - 1)) ELSE m
<1>1. store_bytes(i) # 0 => strobe_bytes(2^store_bytes(i) - 1) = store_bytes(i)
  <2>1. 2^1 - 1 = 1 /\ 2^2 - 1 = 3 /\ 2^4 - 1 = 15
    OBVIOUS
  <2> QED
    BY <2>1 DEF store_bytes, strobe_bytes
<1> QED
  BY <1>1 DEF store

LEMMA InitInv == Init => IInv
<1>1. 0 \in Reg
  BY RegsAssumption DEF Reg
<1> QED
  BY <1>1 DEF Init, IInv, RegsOK, zeros

\* A step of the model and the caller's observation of its trace do the same.
LEMMA StepInv == IInv /\ Step => IInv'
<1> SUFFICES ASSUME IInv, Step PROVE IInv'
  OBVIOUS
<1> DEFINE i == Fields[fetch(instruction_memory, pc)]
           u2 == regs[i.rs2]
           addr == plus(regs[i.rs1], i.imm)
           res == result(i, pc, regs[i.rs1], u2, read32(mem, addr))
<1>1. /\ trace' = retire_trace(pc, fetch(instruction_memory, pc), i, u2, addr,
                                read32(mem, addr), res)
      /\ regs' = commit(regs, i, res)
      /\ mem' = store(mem, i, addr, u2)
      /\ replay' = observe(replay, trace')
      /\ UNCHANGED <<imem, use_separate_imem>>
  BY DEF Step
<1> HIDE DEF i, u2, addr, res
<1>2. /\ trace'.commit_valid = write_rd(i)
      /\ trace'.rd_addr = i.rd
      /\ trace'.rd_data = IF i.rd = 0 THEN 0 ELSE res
  BY <1>1 DEF retire_trace
<1>3. /\ trace'.is_write = (i.opcode = "store" /\ store_bytes(i) # 0)
      /\ trace'.is_write => /\ trace'.addr = addr
                            /\ trace'.wdata = u2
                            /\ trace'.wstrb = 2^store_bytes(i) - 1
  BY <1>1 DEF retire_trace
<1>4. regs = [r \in Reg |-> regs[r]] /\ regs[0] = 0
  BY DEF IInv, RegsOK
<1>5. RegsOK'
  BY <1>1, <1>4, CommitShape DEF RegsOK
<1>6. regs' = IF write_rd(i) /\ i.rd # 0
              THEN [regs EXCEPT ![i.rd] = IF i.rd = 0 THEN 0 ELSE res] ELSE regs
  BY <1>1, <1>4, CommitTraced
<1>7. mem' = IF i.opcode = "store" /\ store_bytes(i) # 0
             THEN write(mem, addr, u2, strobe_bytes(2^store_bytes(i) - 1)) ELSE mem
  BY <1>1, StoreTraced
<1>8. replay' =
        [regs |-> IF trace'.commit_valid /\ trace'.rd_addr # 0
                  THEN [regs EXCEPT ![trace'.rd_addr] = trace'.rd_data] ELSE regs,
         mem |-> IF trace'.is_write
                 THEN write(mem, trace'.addr, trace'.wdata, strobe_bytes(trace'.wstrb))
                 ELSE mem,
         imem |-> imem, separate |-> use_separate_imem]
  BY <1>1 DEF observe, IInv
<1>9. replay' = [regs |-> regs', mem |-> mem', imem |-> imem', separate |-> use_separate_imem']
  BY <1>1, <1>2, <1>3, <1>6, <1>7, <1>8
<1> QED
  BY <1>5, <1>9 DEF IInv

LEMMA CallInv ==
  IInv /\ (InitEmpty \/ InitFromFile \/ LoadImage \/ MemWrite32 \/ ImemWrite32
             \/ SetPc \/ SetReg) => IInv'
<1> SUFFICES ASSUME IInv PROVE (InitEmpty \/ InitFromFile \/ LoadImage \/ MemWrite32
                                 \/ ImemWrite32 \/ SetPc \/ SetReg) => IInv'
  OBVIOUS
<1>0. 0 \in Reg
  BY RegsAssumption DEF Reg
<1>1. CASE InitEmpty
  BY <1>0, <1>1 DEF InitEmpty, reset, zeros, IInv, RegsOK
<1>2. CASE InitFromFile
  BY <1>0, <1>2 DEF InitFromFile, reset, zeros, IInv, RegsOK
<1>3. CASE LoadImage
  BY <1>3 DEF LoadImage, IInv, RegsOK
<1>4. CASE MemWrite32
  BY <1>4 DEF MemWrite32, IInv, RegsOK
<1>5. CASE ImemWrite32
  BY <1>5 DEF ImemWrite32, IInv, RegsOK
<1>6. CASE SetPc
  BY <1>6 DEF SetPc, IInv, RegsOK
<1>7. CASE SetReg
  <2>1. PICK idx \in 0 .. REGS, v \in Values :
          /\ regs' = set_reg(regs, idx, v)
          /\ replay' = [replay EXCEPT !.regs = [r \in Reg |->
                          IF r = idx /\ r # 0 THEN v ELSE @[r]]]
          /\ UNCHANGED <<mem, imem, use_separate_imem>>
    BY <1>7 DEF SetReg
  <2>2. set_reg(regs, idx, v) = [r \in Reg |-> IF r = idx /\ r # 0 THEN v ELSE regs[r]]
    BY DEF set_reg, IInv, RegsOK
  <2>3. replay' = [regs |-> [r \in Reg |-> IF r = idx /\ r # 0 THEN v ELSE regs[r]],
                   mem |-> mem, imem |-> imem, separate |-> use_separate_imem]
    BY <2>1 DEF IInv
  <2>4. RegsOK'
    BY <1>0, <2>1, <2>2 DEF RegsOK, IInv
  <2> QED
    BY <2>1, <2>2, <2>3, <2>4 DEF IInv
<1> QED
  BY <1>1, <1>2, <1>3, <1>4, <1>5, <1>6, <1>7

LEMMA NextInv == IInv /\ [Next]_vars => IInv'
<1> SUFFICES ASSUME IInv, [Next]_vars PROVE IInv'
  OBVIOUS
<1>1. CASE Next
  BY <1>1, StepInv, CallInv DEF Next
<1>2. CASE UNCHANGED vars
  BY <1>2 DEF vars, IInv, RegsOK
<1> QED
  BY <1>1, <1>2

(***************************************************************************)
(* Every reachable state of the model is the one its caller reconstructs   *)
(* from the traces of step and its own calls: comparing traces compares    *)
(* the whole architectural state.                                          *)
(***************************************************************************)
THEOREM TracesAreComplete == Spec => []TraceComplete
<1>1. IInv /\ [Next]_vars => IInv'
  BY NextInv
<1>2. IInv => TraceComplete
  BY DEF IInv, TraceComplete
<1> QED
  BY InitInv, <1>1, <1>2, PTL DEF Spec

\* What step fetches or loads is what its caller can read in the written memory.
LEMMA FetchPeeks ==
  ASSUME NEW m, NEW a
  PROVE  /\ fetch(m, a) = IF {plus(a, k) : k \in 0 .. 3} \subseteq DOMAIN m
                          THEN peek32(m, a) ELSE NOP
         /\ {plus(a, k) : k \in 0 .. 3} \subseteq DOMAIN m => read32(m, a) = peek32(m, a)
<1>1. has_word(m, a) <=> {plus(a, k) : k \in 0 .. 3} \subseteq DOMAIN m
  BY DEF has_word
<1>2. ASSUME has_word(m, a) PROVE read32(m, a) = peek32(m, a)
  <2>1. [k \in 0 .. 3 |-> read8(m, plus(a, k))] = [k \in 0 .. 3 |-> peek8(m, plus(a, k))]
    BY <1>2 DEF has_word, read8, peek8
  <2> QED
    BY <2>1 DEF read32, peek32
<1> QED
  BY <1>1, <1>2 DEF fetch

(***************************************************************************)
(* Every traced instruction is the word last written where it was fetched, *)
(* and every traced load reports the word its address holds.               *)
(***************************************************************************)
THEOREM TracesAreHonest == Spec => TraceHonest
<1>1. IInv /\ Step => Honest
  <2> SUFFICES ASSUME IInv, Step PROVE Honest
    OBVIOUS
  <2> DEFINE instr == fetch(instruction_memory, pc)
             i == Fields[instr]
             u2 == regs[i.rs2]
             addr == plus(regs[i.rs1], i.imm)
             raw == read32(mem, addr)
             res == result(i, pc, regs[i.rs1], u2, raw)
  <2>1. trace' = retire_trace(pc, instr, i, u2, addr, raw, res)
    BY DEF Step
  <2>2. instruction_memory = IF replay.separate THEN replay.imem ELSE replay.mem
    BY DEF instruction_memory, IInv
  <2>3. replay.mem = mem
    BY DEF IInv
  <2>4. raw = read32(mem, addr)
    OBVIOUS
  <2>5. instr = fetch(instruction_memory, pc)
    OBVIOUS
  <2> HIDE DEF instr, i, u2, addr, raw, res
  <2>6. trace'.pc = pc /\ trace'.instr = instr
    BY <2>1 DEF retire_trace
  <2>7. trace'.is_read => trace'.addr = addr /\ trace'.rdata = raw
    BY <2>1 DEF retire_trace
  <2> QED
    BY <2>2, <2>3, <2>4, <2>5, <2>6, <2>7, FetchPeeks DEF Honest
<1>2. IInv /\ [Next]_vars => [Step => Honest]_vars
  BY <1>1
<1> QED
  BY InitInv, NextInv, <1>2, PTL DEF Spec, TraceHonest
-----------------------------------------------------------------------------
\* The bits placed at `to' are those taken at `from'.
LEMMA PlacedBits ==
  \A K : \A from, to, n, j \in Int :
    j \in placed(K, from, to, n) <=> j \in to .. to + n - 1 /\ (j - to) + from \in K
<1> SUFFICES ASSUME NEW K, NEW from \in Int, NEW to \in Int, NEW n \in Int, NEW j \in Int
             PROVE  j \in placed(K, from, to, n) <=> j \in to .. to + n - 1 /\ (j - to) + from \in K
  OBVIOUS
<1>1. j \in placed(K, from, to, n) => j \in to .. to + n - 1 /\ (j - to) + from \in K
  <2> SUFFICES ASSUME j \in placed(K, from, to, n)
               PROVE  j \in to .. to + n - 1 /\ (j - to) + from \in K
    OBVIOUS
  <2>1. PICK i \in K \cap from .. from + n - 1 : j = i - from + to
    BY DEF placed
  <2>2. i \in Int /\ i >= from /\ i <= from + n - 1
    OBVIOUS
  <2>3. (j - to) + from = i
    BY <2>1, <2>2
  <2> QED
    BY <2>1, <2>2, <2>3
<1>2. j \in to .. to + n - 1 /\ (j - to) + from \in K => j \in placed(K, from, to, n)
  <2> SUFFICES ASSUME j \in to .. to + n - 1, (j - to) + from \in K
               PROVE  j \in placed(K, from, to, n)
    OBVIOUS
  <2>1. PICK i : i = (j - to) + from
    OBVIOUS
  <2>2. i \in K \cap from .. from + n - 1 /\ j = i - from + to
    BY <2>1
  <2> QED
    BY <2>2 DEF placed
<1> QED
  BY <1>1, <1>2

\* A bit that the decoder's wires take from an immediate position goes back to it.
LEMMA WireBack ==
  ASSUME NEW fmt \in {"I", "S", "B", "U", "J"}, NEW B \in SUBSET (7 .. 31), NEW j \in Int
  PROVE  j \in encode(fmt, decoder_imm(fmt, B)) <=> j \in B /\ j \in ImmBits(fmt)
<1> DEFINE K == decoder_imm(fmt, B)
           full == 0 .. 31
<1>1. K \in SUBSET (0 .. 31) /\ full \in SUBSET (0 .. 31)
  BY DEF decoder_imm
<1>2. \A k \in 0 .. 31 : k \in K <=> wire(fmt, k) \in B
  BY DEF decoder_imm
<1>3. ImmBits(fmt) = encode(fmt, full)
  BY DEF ImmBits
<1>4. \A k : k \in full <=> k \in 0 .. 31
  OBVIOUS
<1> HIDE DEF K, full
<1>5. CASE fmt = "I"
  <2>1. \A L : encode("I", L) = placed(L, 0, 20, 12)
    BY DEF encode
  <2>2. /\ j \in placed(K, 0, 20, 12) <=> j \in 20 .. 31 /\ j \in B
        /\ j \in placed(full, 0, 20, 12) <=> j \in 20 .. 31
    <3>1. /\ j \in placed(K, 0, 20, 12) <=> j \in 20 .. 20 + 12 - 1 /\ wire(fmt, (j - 20) + 0) \in B
          /\ j \in placed(full, 0, 20, 12) <=> j \in 20 .. 20 + 12 - 1
      BY <1>2, <1>4, PlacedBits
    <3>2. j \in 20 .. 31 => wire(fmt, (j - 20) + 0) = j
      BY <1>5 DEF wire
    <3> QED
      BY <3>1, <3>2
  <2> QED
    BY <1>3, <1>5, <2>1, <2>2 DEF K
<1>6. CASE fmt = "S"
  <2>1. \A L : encode("S", L) = placed(L, 5, 25, 7) \cup placed(L, 0, 7, 5)
    BY DEF encode
  <2>2. /\ j \in placed(K, 5, 25, 7) <=> j \in 25 .. 31 /\ j \in B
        /\ j \in placed(full, 5, 25, 7) <=> j \in 25 .. 31
    <3>1. /\ j \in placed(K, 5, 25, 7) <=> j \in 25 .. 25 + 7 - 1 /\ wire(fmt, (j - 25) + 5) \in B
          /\ j \in placed(full, 5, 25, 7) <=> j \in 25 .. 25 + 7 - 1
      BY <1>2, <1>4, PlacedBits
    <3>2. j \in 25 .. 31 => wire(fmt, (j - 25) + 5) = j
      BY <1>6 DEF wire
    <3> QED
      BY <3>1, <3>2
  <2>3. /\ j \in placed(K, 0, 7, 5) <=> j \in 7 .. 11 /\ j \in B
        /\ j \in placed(full, 0, 7, 5) <=> j \in 7 .. 11
    <3>1. /\ j \in placed(K, 0, 7, 5) <=> j \in 7 .. 7 + 5 - 1 /\ wire(fmt, (j - 7) + 0) \in B
          /\ j \in placed(full, 0, 7, 5) <=> j \in 7 .. 7 + 5 - 1
      BY <1>2, <1>4, PlacedBits
    <3>2. j \in 7 .. 11 => wire(fmt, (j - 7) + 0) = j
      BY <1>6 DEF wire
    <3> QED
      BY <3>1, <3>2
  <2> QED
    BY <1>3, <1>6, <2>1, <2>2, <2>3 DEF K
<1>7. CASE fmt = "B"
  <2>1. \A L : encode("B", L) = placed(L, 12, 31, 1) \cup placed(L, 5, 25, 6)
                                  \cup placed(L, 1, 8, 4) \cup placed(L, 11, 7, 1)
    BY DEF encode
  <2>2. /\ j \in placed(K, 12, 31, 1) <=> j = 31 /\ j \in B
        /\ j \in placed(full, 12, 31, 1) <=> j = 31
    <3>1. /\ j \in placed(K, 12, 31, 1) <=> j \in 31 .. 31 + 1 - 1 /\ wire(fmt, (j - 31) + 12) \in B
          /\ j \in placed(full, 12, 31, 1) <=> j \in 31 .. 31 + 1 - 1
      BY <1>2, <1>4, PlacedBits
    <3>2. j = 31 => wire(fmt, (j - 31) + 12) = j
      BY <1>7 DEF wire
    <3> QED
      BY <3>1, <3>2
  <2>3. /\ j \in placed(K, 5, 25, 6) <=> j \in 25 .. 30 /\ j \in B
        /\ j \in placed(full, 5, 25, 6) <=> j \in 25 .. 30
    <3>1. /\ j \in placed(K, 5, 25, 6) <=> j \in 25 .. 25 + 6 - 1 /\ wire(fmt, (j - 25) + 5) \in B
          /\ j \in placed(full, 5, 25, 6) <=> j \in 25 .. 25 + 6 - 1
      BY <1>2, <1>4, PlacedBits
    <3>2. j \in 25 .. 30 => wire(fmt, (j - 25) + 5) = j
      BY <1>7 DEF wire
    <3> QED
      BY <3>1, <3>2
  <2>4. /\ j \in placed(K, 1, 8, 4) <=> j \in 8 .. 11 /\ j \in B
        /\ j \in placed(full, 1, 8, 4) <=> j \in 8 .. 11
    <3>1. /\ j \in placed(K, 1, 8, 4) <=> j \in 8 .. 8 + 4 - 1 /\ wire(fmt, (j - 8) + 1) \in B
          /\ j \in placed(full, 1, 8, 4) <=> j \in 8 .. 8 + 4 - 1
      BY <1>2, <1>4, PlacedBits
    <3>2. j \in 8 .. 11 => wire(fmt, (j - 8) + 1) = j
      BY <1>7 DEF wire
    <3> QED
      BY <3>1, <3>2
  <2>5. /\ j \in placed(K, 11, 7, 1) <=> j = 7 /\ j \in B
        /\ j \in placed(full, 11, 7, 1) <=> j = 7
    <3>1. /\ j \in placed(K, 11, 7, 1) <=> j \in 7 .. 7 + 1 - 1 /\ wire(fmt, (j - 7) + 11) \in B
          /\ j \in placed(full, 11, 7, 1) <=> j \in 7 .. 7 + 1 - 1
      BY <1>2, <1>4, PlacedBits
    <3>2. j = 7 => wire(fmt, (j - 7) + 11) = j
      BY <1>7 DEF wire
    <3> QED
      BY <3>1, <3>2
  <2> QED
    BY <1>3, <1>7, <2>1, <2>2, <2>3, <2>4, <2>5 DEF K
<1>8. CASE fmt = "U"
  <2>1. \A L : encode("U", L) = placed(L, 12, 12, 20)
    BY DEF encode
  <2>2. /\ j \in placed(K, 12, 12, 20) <=> j \in 12 .. 31 /\ j \in B
        /\ j \in placed(full, 12, 12, 20) <=> j \in 12 .. 31
    <3>1. /\ j \in placed(K, 12, 12, 20) <=> j \in 12 .. 12 + 20 - 1 /\ wire(fmt, (j - 12) + 12) \in B
          /\ j \in placed(full, 12, 12, 20) <=> j \in 12 .. 12 + 20 - 1
      BY <1>2, <1>4, PlacedBits
    <3>2. j \in 12 .. 31 => wire(fmt, (j - 12) + 12) = j
      BY <1>8 DEF wire
    <3> QED
      BY <3>1, <3>2
  <2> QED
    BY <1>3, <1>8, <2>1, <2>2 DEF K
<1>9. CASE fmt = "J"
  <2>1. \A L : encode("J", L) = placed(L, 20, 31, 1) \cup placed(L, 1, 21, 10)
                                  \cup placed(L, 11, 20, 1) \cup placed(L, 12, 12, 8)
    BY DEF encode
  <2>2. /\ j \in placed(K, 20, 31, 1) <=> j = 31 /\ j \in B
        /\ j \in placed(full, 20, 31, 1) <=> j = 31
    <3>1. /\ j \in placed(K, 20, 31, 1) <=> j \in 31 .. 31 + 1 - 1 /\ wire(fmt, (j - 31) + 20) \in B
          /\ j \in placed(full, 20, 31, 1) <=> j \in 31 .. 31 + 1 - 1
      BY <1>2, <1>4, PlacedBits
    <3>2. j = 31 => wire(fmt, (j - 31) + 20) = j
      BY <1>9 DEF wire
    <3> QED
      BY <3>1, <3>2
  <2>3. /\ j \in placed(K, 1, 21, 10) <=> j \in 21 .. 30 /\ j \in B
        /\ j \in placed(full, 1, 21, 10) <=> j \in 21 .. 30
    <3>1. /\ j \in placed(K, 1, 21, 10) <=> j \in 21 .. 21 + 10 - 1 /\ wire(fmt, (j - 21) + 1) \in B
          /\ j \in placed(full, 1, 21, 10) <=> j \in 21 .. 21 + 10 - 1
      BY <1>2, <1>4, PlacedBits
    <3>2. j \in 21 .. 30 => wire(fmt, (j - 21) + 1) = j
      BY <1>9 DEF wire
    <3> QED
      BY <3>1, <3>2
  <2>4. /\ j \in placed(K, 11, 20, 1) <=> j = 20 /\ j \in B
        /\ j \in placed(full, 11, 20, 1) <=> j = 20
    <3>1. /\ j \in placed(K, 11, 20, 1) <=> j \in 20 .. 20 + 1 - 1 /\ wire(fmt, (j - 20) + 11) \in B
          /\ j \in placed(full, 11, 20, 1) <=> j \in 20 .. 20 + 1 - 1
      BY <1>2, <1>4, PlacedBits
    <3>2. j = 20 => wire(fmt, (j - 20) + 11) = j
      BY <1>9 DEF wire
    <3> QED
      BY <3>1, <3>2
  <2>5. /\ j \in placed(K, 12, 12, 8) <=> j \in 12 .. 19 /\ j \in B
        /\ j \in placed(full, 12, 12, 8) <=> j \in 12 .. 19
    <3>1. /\ j \in placed(K, 12, 12, 8) <=> j \in 12 .. 12 + 8 - 1 /\ wire(fmt, (j - 12) + 12) \in B
          /\ j \in placed(full, 12, 12, 8) <=> j \in 12 .. 12 + 8 - 1
      BY <1>2, <1>4, PlacedBits
    <3>2. j \in 12 .. 19 => wire(fmt, (j - 12) + 12) = j
      BY <1>9 DEF wire
    <3> QED
      BY <3>1, <3>2
  <2> QED
    BY <1>3, <1>9, <2>1, <2>2, <2>3, <2>4, <2>5 DEF K
<1> QED
  BY <1>5, <1>6, <1>7, <1>8, <1>9

\* The immediate's positions, as sets of bits.
LEMMA ImmPositions ==
  ASSUME NEW j \in Int
  PROVE  /\ j \in ImmBits("I") <=> j \in 20 .. 31
         /\ j \in ImmBits("S") <=> j \in 25 .. 31 \/ j \in 7 .. 11
         /\ j \in ImmBits("B") <=> j \in 25 .. 31 \/ j \in 7 .. 11
         /\ j \in ImmBits("U") <=> j \in 12 .. 31
         /\ j \in ImmBits("J") <=> j \in 12 .. 31
<1> DEFINE full == 0 .. 31
<1>1. \A k : k \in full <=> k \in 0 .. 31
  OBVIOUS
<1>2. \A fmt : ImmBits(fmt) = encode(fmt, full)
  BY DEF ImmBits
<1> HIDE DEF full
<1>3. j \in placed(full, 0, 20, 12) <=> j \in 20 .. 31
  BY <1>1, PlacedBits
<1>4. /\ j \in placed(full, 5, 25, 7) <=> j \in 25 .. 31
      /\ j \in placed(full, 0, 7, 5) <=> j \in 7 .. 11
  BY <1>1, PlacedBits
<1>5. /\ j \in placed(full, 12, 31, 1) <=> j = 31
      /\ j \in placed(full, 5, 25, 6) <=> j \in 25 .. 30
      /\ j \in placed(full, 1, 8, 4) <=> j \in 8 .. 11
      /\ j \in placed(full, 11, 7, 1) <=> j = 7
  BY <1>1, PlacedBits
<1>6. j \in placed(full, 12, 12, 20) <=> j \in 12 .. 31
  BY <1>1, PlacedBits
<1>7. /\ j \in placed(full, 20, 31, 1) <=> j = 31
      /\ j \in placed(full, 1, 21, 10) <=> j \in 21 .. 30
      /\ j \in placed(full, 11, 20, 1) <=> j = 20
      /\ j \in placed(full, 12, 12, 8) <=> j \in 12 .. 19
  BY <1>1, PlacedBits
<1>8. j \in ImmBits("I") <=> j \in 20 .. 31
  BY <1>2, <1>3 DEF encode
<1>9. j \in ImmBits("S") <=> j \in 25 .. 31 \/ j \in 7 .. 11
  BY <1>2, <1>4 DEF encode
<1>10. j \in ImmBits("B") <=> j \in 25 .. 31 \/ j \in 7 .. 11
  BY <1>2, <1>5 DEF encode
<1>11. j \in ImmBits("U") <=> j \in 12 .. 31
  BY <1>2, <1>6 DEF encode
<1>12. j \in ImmBits("J") <=> j \in 12 .. 31
  BY <1>2, <1>7 DEF encode
<1> QED
  BY <1>8, <1>9, <1>10, <1>11, <1>12

\* Every bit an assembler places lies on a bit position.
LEMMA EncodeInt ==
  ASSUME NEW fmt \in {"I", "S", "B", "U", "J"}, NEW B
  PROVE  encode(fmt, decoder_imm(fmt, B)) \subseteq Int
<1> DEFINE K == decoder_imm(fmt, B)
<1>1. K \subseteq Int
  BY DEF decoder_imm
<1> HIDE DEF K
<1>2. \A from, to, n \in Int : placed(K, from, to, n) \subseteq Int
  BY <1>1 DEF placed
<1>3. /\ placed(K, 0, 20, 12) \subseteq Int
      /\ placed(K, 5, 25, 7) \subseteq Int
      /\ placed(K, 0, 7, 5) \subseteq Int
      /\ placed(K, 12, 31, 1) \subseteq Int
      /\ placed(K, 5, 25, 6) \subseteq Int
      /\ placed(K, 1, 8, 4) \subseteq Int
      /\ placed(K, 11, 7, 1) \subseteq Int
      /\ placed(K, 12, 12, 20) \subseteq Int
      /\ placed(K, 20, 31, 1) \subseteq Int
      /\ placed(K, 1, 21, 10) \subseteq Int
      /\ placed(K, 11, 20, 1) \subseteq Int
      /\ placed(K, 12, 12, 8) \subseteq Int
  BY <1>2
<1>4. encode(fmt, K) \subseteq Int
  BY <1>3 DEF encode
<1> QED
  BY <1>4 DEF K

\* Formats of the run and positions outside the opcode.
WordOK == format \in {"I", "S", "B", "U", "J"} /\ ones \in SUBSET (7 .. 31)

LEMMA WordInvariant == EncodingSpec => []WordOK
<1>1. EncodingInit => WordOK
  BY EncodingAssumption DEF EncodingInit, WordOK
<1>2. WordOK /\ [SetBit]_encodingVars => WordOK'
  BY DEF WordOK, SetBit, encodingVars
<1> QED
  BY <1>1, <1>2, PTL DEF EncodingSpec

(***************************************************************************)
(* In every instruction word of every format, assembling the immediate the *)
(* decoder reads gives back the bits it was read from, and the register    *)
(* and function fields hold none of its bits (tests.cpp, decoder.v and     *)
(* mycore::step share one layout).                                         *)
(***************************************************************************)
THEOREM LayoutShared == EncodingSpec => []AssembledBack
<1>1. WordOK => AssembledBack
  <2> SUFFICES ASSUME WordOK PROVE AssembledBack
    OBVIOUS
  <2> DEFINE imm == decoder_imm(format, ones)
             other == step_fields(ones \ ImmBits(format))
             whole == step_fields(ones)
  <2>1. format \in {"I", "S", "B", "U", "J"} /\ ones \in SUBSET (7 .. 31)
    BY DEF WordOK
  <2>2. encode(format, imm) = ones \cap ImmBits(format)
    <3>1. \A j \in Int : j \in encode(format, imm) <=> j \in ones \cap ImmBits(format)
      BY <2>1, WireBack
    <3>2. encode(format, imm) \subseteq Int /\ ones \subseteq Int
      BY <2>1, EncodeInt
    <3> HIDE DEF imm
    <3> QED
      BY <3>1, <3>2
  <2>3. format \in {"I", "U", "J"} => other.rd = whole.rd
    <3> SUFFICES ASSUME format \in {"I", "U", "J"} PROVE other.rd = whole.rd
      OBVIOUS
    <3>1. \A j \in 7 .. 11 : j \notin ImmBits(format)
      BY ImmPositions
    <3>2. field(ones \ ImmBits(format), 11, 7) = field(ones, 11, 7)
      <4>1. (ones \ ImmBits(format)) \cap 7 .. 11 = ones \cap 7 .. 11
        BY <3>1
      <4> QED
        BY <4>1 DEF field
    <3> QED
      BY <3>2 DEF step_fields
  <2>4. format \in {"I", "S", "B"} => other.rs1 = whole.rs1 /\ other.funct3 = whole.funct3
    <3> SUFFICES ASSUME format \in {"I", "S", "B"}
                 PROVE  other.rs1 = whole.rs1 /\ other.funct3 = whole.funct3
      OBVIOUS
    <3>1. \A j \in 12 .. 19 : j \notin ImmBits(format)
      BY ImmPositions
    <3>2. field(ones \ ImmBits(format), 19, 15) = field(ones, 19, 15)
      <4>1. (ones \ ImmBits(format)) \cap 15 .. 19 = ones \cap 15 .. 19
        BY <3>1
      <4> QED
        BY <4>1 DEF field
    <3>3. field(ones \ ImmBits(format), 14, 12) = field(ones, 14, 12)
      <4>1. (ones \ ImmBits(format)) \cap 12 .. 14 = ones \cap 12 .. 14
        BY <3>1
      <4> QED
        BY <4>1 DEF field
    <3> QED
      BY <3>2, <3>3 DEF step_fields
  <2>5. format \in {"S", "B"} => other.rs2 = whole.rs2
    <3> SUFFICES ASSUME format \in {"S", "B"} PROVE other.rs2 = whole.rs2
      OBVIOUS
    <3>1. \A j \in 20 .. 24 : j \notin ImmBits(format)
      BY ImmPositions
    <3>2. field(ones \ ImmBits(format), 24, 20) = field(ones, 24, 20)
      <4>1. (ones \ ImmBits(format)) \cap 20 .. 24 = ones \cap 20 .. 24
        BY <3>1
      <4> QED
        BY <4>1 DEF field
    <3> QED
      BY <3>2 DEF step_fields
  <2> QED
    BY <2>2, <2>3, <2>4, <2>5 DEF AssembledBack
<1> QED
  BY <1>1, WordInvariant, PTL

-----------------------------------------------------------------------------
(***************************************************************************)
(* The function units against the operators of the reference model, at the *)
(* width of the code.  tlapm knows no law of exponents, so that powers of  *)
(* two are numbers here.                                                   *)
(***************************************************************************)

\* The width of the code: 32-bit words, five stages in the shifter.
Rv32 == XLEN = 32 /\ SHAMT = 5

\* The sizes that the width of the code fixes.
LEMMA WordConstants ==
  ASSUME Rv32
  PROVE  /\ 2^XLEN = 4294967296 /\ SignBit = 2147483648 /\ AllOnes = 4294967295
         /\ BYTE = 8
         /\ \A a : a \in Word <=> a \in Int /\ 0 <= a /\ a <= 4294967295
BY DEF Rv32, SignBit, AllOnes, Word, BYTE

\* A number is cut to its lowest 32 bits.
LEMMA WordMod ==
  ASSUME Rv32
  PROVE  \A z \in Int : word(z) = z % 4294967296 /\ word(z) \in Word
BY WordConstants DEF word

\* The signed reading of a word lies in the 32-bit signed range and cuts back to the word.
LEMMA SignedRange ==
  ASSUME Rv32, NEW a \in Word
  PROVE  /\ signed(a) = IF a >= 2147483648 THEN a - 4294967296 ELSE a
         /\ signed(a) \in Int /\ -2147483648 <= signed(a) /\ signed(a) <= 2147483647
         /\ word(signed(a)) = a
BY WordConstants, WordMod DEF signed

\* A number of the signed range survives being cut to a word.
LEMMA SignedWord ==
  ASSUME Rv32, NEW z \in Int, -2147483648 <= z, z <= 2147483647
  PROVE  signed(word(z)) = z
BY WordConstants, WordMod DEF signed

\* An addend may be cut to a word before it is added.
LEMMA PlusWord ==
  ASSUME Rv32, NEW a \in Int, NEW z \in Int
  PROVE  plus(a, word(z)) = plus(a, z)
BY WordMod DEF plus

\* The adder's flags of a - b decide every comparison of branches and slt.
LEMMA AdderCompares ==
  ASSUME Rv32, NEW a \in Word, NEW b \in Word
  PROVE  /\ compare("eq", a, b) <=> a = b
         /\ compare("ne", a, b) <=> a # b
         /\ compare("lt", a, b) <=> signed(a) < signed(b)
         /\ compare("ge", a, b) <=> signed(a) >= signed(b)
         /\ compare("ltu", a, b) <=> a < b
         /\ compare("geu", a, b) <=> a >= b
<1> DEFINE s == a - b + 4294967296
<1>1. \A opcode : opcode # "add" => sum(opcode, a, b) = s
  BY WordConstants DEF sum, invert
<1>2. word(s) = s % 4294967296
  BY WordConstants, WordMod
<1>3. ZF(s) <=> a = b
  BY <1>2, WordConstants DEF ZF
<1>4. CF(s) <=> a >= b
  BY WordConstants DEF CF
<1>5. (SF(s) # OF(a, b, s)) <=> signed(a) < signed(b)
  <2>1. /\ top(a) = IF a >= 2147483648 THEN 1 ELSE 0
        /\ top(b) = IF b >= 2147483648 THEN 1 ELSE 0
        /\ top(word(s)) = IF word(s) >= 2147483648 THEN 1 ELSE 0
    BY <1>2, WordConstants DEF top
  <2>2. /\ signed(a) = IF a >= 2147483648 THEN a - 4294967296 ELSE a
        /\ signed(b) = IF b >= 2147483648 THEN b - 4294967296 ELSE b
    BY SignedRange
  <2> QED
    BY <1>2, <2>1, <2>2, WordConstants DEF SF, OF
<1>6. signed(a) \in Int /\ signed(b) \in Int
  BY SignedRange
<1> HIDE DEF s
<1> QED
  BY <1>1, <1>3, <1>4, <1>5, <1>6, WordConstants DEF compare

\* The adder's results are the model's sum, difference and comparisons.
LEMMA AdderAdds ==
  ASSUME Rv32, NEW a \in Word, NEW b \in Word
  PROVE  /\ addC("add", a, b) = plus(a, b)
         /\ addC("sub", a, b) = word(a - b)
         /\ addC("lt", a, b) = flag(signed(a) < signed(b))
         /\ addC("ltu", a, b) = flag(a < b)
<1>1. addC("add", a, b) = plus(a, b)
  BY WordConstants DEF addC, sum, plus
<1>2. addC("sub", a, b) = word(a - b)
  BY WordConstants, WordMod DEF addC, sum, invert
<1>3. addC("lt", a, b) = flag(signed(a) < signed(b)) /\ addC("ltu", a, b) = flag(a < b)
  BY AdderCompares DEF addC, flag
<1> QED
  BY <1>1, <1>2, <1>3

\* Each power of two up to 2^32 is twice the one before it.
LEMMA PowerStep ==
  ASSUME NEW t \in 0 .. 31
  PROVE  2^(t + 1) = 2 * 2^t /\ 2^t \in Nat \ {0}
<1>1. CASE t = 0 BY <1>1
<1>2. CASE t = 1 BY <1>2
<1>3. CASE t = 2 BY <1>3
<1>4. CASE t = 3 BY <1>4
<1>5. CASE t = 4 BY <1>5
<1>6. CASE t = 5 BY <1>6
<1>7. CASE t = 6 BY <1>7
<1>8. CASE t = 7 BY <1>8
<1>9. CASE t = 8 BY <1>9
<1>10. CASE t = 9 BY <1>10
<1>11. CASE t = 10 BY <1>11
<1>12. CASE t = 11 BY <1>12
<1>13. CASE t = 12 BY <1>13
<1>14. CASE t = 13 BY <1>14
<1>15. CASE t = 14 BY <1>15
<1>16. CASE t = 15 BY <1>16
<1>17. CASE t = 16 BY <1>17
<1>18. CASE t = 17 BY <1>18
<1>19. CASE t = 18 BY <1>19
<1>20. CASE t = 19 BY <1>20
<1>21. CASE t = 20 BY <1>21
<1>22. CASE t = 21 BY <1>22
<1>23. CASE t = 22 BY <1>23
<1>24. CASE t = 23 BY <1>24
<1>25. CASE t = 24 BY <1>25
<1>26. CASE t = 25 BY <1>26
<1>27. CASE t = 26 BY <1>27
<1>28. CASE t = 27 BY <1>28
<1>29. CASE t = 28 BY <1>29
<1>30. CASE t = 29 BY <1>30
<1>31. CASE t = 30 BY <1>31
<1>32. CASE t = 31 BY <1>32
<1> QED
  BY <1>1, <1>2, <1>3, <1>4, <1>5, <1>6, <1>7, <1>8, <1>9, <1>10, <1>11, <1>12, <1>13, <1>14,
     <1>15, <1>16, <1>17, <1>18, <1>19, <1>20, <1>21, <1>22, <1>23, <1>24, <1>25, <1>26,
     <1>27, <1>28, <1>29, <1>30, <1>31, <1>32

\* A stage of n places after the ones before it have shifted by t.
Fits(n, t) == n \in {1, 2, 4, 8, 16} /\ t \in 0 .. 31 /\ t + n <= 31

\* Two shift distances that fit into a word multiply their powers.
LEMMA PowerSum ==
  ASSUME NEW n, NEW t, Fits(n, t)
  PROVE  2^(t + n) = 2^t * 2^n /\ 2^t \in Nat \ {0} /\ 2^n \in Nat \ {0}
<1>0. n \in {1, 2, 4, 8, 16} /\ t \in 0 .. 31 /\ t + n <= 31
  BY DEF Fits
<1> DEFINE pow(e) == 2^e
<1>1. \A e \in 0 .. 31 : pow(e + 1) = 2 * pow(e) /\ pow(e) \in Nat \ {0}
  BY PowerStep
<1>2. pow(t + n) = 2^(t + n) /\ pow(t) = 2^t
  OBVIOUS
<1> HIDE DEF pow
<1>3. \A e \in 0 .. 30 : pow(e + 2) = 4 * pow(e)
  <2> SUFFICES ASSUME NEW e \in 0 .. 30 PROVE pow(e + 2) = 4 * pow(e)
    OBVIOUS
  <2>1. pow((e + 1) + 1) = 2 * pow(e + 1) /\ pow(e + 1) = 2 * pow(e)
    BY <1>1
  <2> QED
    BY <1>1, <2>1
<1>4. \A e \in 0 .. 28 : pow(e + 4) = 16 * pow(e)
  <2> SUFFICES ASSUME NEW e \in 0 .. 28 PROVE pow(e + 4) = 16 * pow(e)
    OBVIOUS
  <2>1. pow((e + 2) + 2) = 4 * pow(e + 2) /\ pow(e + 2) = 4 * pow(e)
    BY <1>3
  <2> QED
    BY <1>1, <2>1
<1>5. \A e \in 0 .. 24 : pow(e + 8) = 256 * pow(e)
  <2> SUFFICES ASSUME NEW e \in 0 .. 24 PROVE pow(e + 8) = 256 * pow(e)
    OBVIOUS
  <2>1. pow((e + 4) + 4) = 16 * pow(e + 4) /\ pow(e + 4) = 16 * pow(e)
    BY <1>4
  <2> QED
    BY <1>1, <2>1
<1>6. \A e \in 0 .. 16 : pow(e + 16) = 65536 * pow(e)
  <2> SUFFICES ASSUME NEW e \in 0 .. 16 PROVE pow(e + 16) = 65536 * pow(e)
    OBVIOUS
  <2>1. pow((e + 8) + 8) = 256 * pow(e + 8) /\ pow(e + 8) = 256 * pow(e)
    BY <1>5
  <2> QED
    BY <1>1, <2>1
<1>7. pow(t) \in Nat \ {0}
  BY <1>0, <1>1
<1>8. CASE n = 1
  BY <1>0, <1>1, <1>2, <1>7, <1>8
<1>9. CASE n = 2
  BY <1>0, <1>2, <1>3, <1>7, <1>9
<1>10. CASE n = 4
  BY <1>0, <1>2, <1>4, <1>7, <1>10
<1>11. CASE n = 8
  BY <1>0, <1>2, <1>5, <1>7, <1>11
<1>12. CASE n = 16
  BY <1>0, <1>2, <1>6, <1>7, <1>12
<1> QED
  BY <1>0, <1>8, <1>9, <1>10, <1>11, <1>12

\* Dividing twice is dividing by the product.
LEMMA QuotientTwice ==
  ASSUME NEW x \in Int, NEW m \in Nat \ {0}, NEW n \in Nat \ {0}
  PROVE  (x \div m) \div n = x \div (m * n)
<1> DEFINE p == x \div m
           q == p \div n
<1>1. p \in Int /\ m * p <= x /\ x <= m * p + m - 1
  OBVIOUS
<1>2. q \in Int /\ n * q <= p /\ p <= n * q + n - 1
  OBVIOUS
<1> HIDE DEF p, q
<1>3. m * (n * q) <= m * p /\ m * p <= m * (n * q + n - 1)
  BY <1>1, <1>2
<1>4. (m * n) * q <= x /\ x <= (m * n) * q + (m * n) - 1
  BY <1>1, <1>2, <1>3
<1>5. m * n \in Nat \ {0}
  OBVIOUS
<1>6. \A d \in Nat \ {0} : d * q <= x /\ x <= d * q + d - 1 => x \div d = q
  BY <1>2
<1>7. x \div (m * n) = q
  BY <1>4, <1>5, <1>6
<1> QED
  BY <1>7 DEF p, q

\* One stage of the shifter, and what the stages together should do.
staged(opcode, v, b, k) ==
  IF (b \div 2^k) % 2 = 1 THEN shift_stage(opcode, v, 2^k) ELSE v
shifted(opcode, a, t) ==
  CASE opcode = "sll" -> shl(a, t)
    [] opcode = "srl" -> shr(a, t)
    [] opcode = "sra" -> sar(a, t)

\* The recursion over the shifter's stages, written out from the widest to the narrowest.
LEMMA FiveStages ==
  ASSUME SHAMT = 5, NEW opcode, NEW a, NEW b
  PROVE  \E s4, s3, s2, s1 :
           /\ s4 = staged(opcode, a, b, 4)
           /\ s3 = staged(opcode, s4, b, 3)
           /\ s2 = staged(opcode, s3, b, 2)
           /\ s1 = staged(opcode, s2, b, 1)
           /\ shfC(opcode, a, b) = staged(opcode, s1, b, 0)
<1> DEFINE stage(r, k) == IF k = SHAMT THEN a
                          ELSE IF (b \div 2^k) % 2 = 1 THEN shift_stage(opcode, r[k + 1], 2^k)
                          ELSE r[k + 1]
           s4 == staged(opcode, a, b, 4)
           s3 == staged(opcode, s4, b, 3)
           s2 == staged(opcode, s3, b, 2)
           s1 == staged(opcode, s2, b, 1)
           s0 == staged(opcode, s1, b, 0)
           g == [k \in 0 .. SHAMT |-> CASE k = 0 -> s0 [] k = 1 -> s1 [] k = 2 -> s2
                                        [] k = 3 -> s3 [] k = 4 -> s4 [] k = 5 -> a]
           rst == CHOOSE r : r = [k \in 0 .. SHAMT |-> stage(r, k)]
<1>1. shfC(opcode, a, b) = rst[0]
  BY DEF shfC
<1>2. g = [k \in 0 .. SHAMT |-> stage(g, k)]
  <2>1. /\ stage(g, 5) = a /\ stage(g, 4) = s4 /\ stage(g, 3) = s3
        /\ stage(g, 2) = s2 /\ stage(g, 1) = s1 /\ stage(g, 0) = s0
    <3> HIDE DEF s4, s3, s2, s1
    <3>1. g[5] = a /\ g[4] = s4 /\ g[3] = s3 /\ g[2] = s2 /\ g[1] = s1
      OBVIOUS
    <3> HIDE DEF g
    <3>2. stage(g, 5) = a
      OBVIOUS
    <3>3. stage(g, 4) = s4
      BY <3>1 DEF s4, staged
    <3>4. stage(g, 3) = s3
      BY <3>1 DEF s3, staged
    <3>5. stage(g, 2) = s2
      BY <3>1 DEF s2, staged
    <3>6. stage(g, 1) = s1
      BY <3>1 DEF s1, staged
    <3>7. stage(g, 0) = s0
      BY <3>1 DEF staged
    <3> QED
      BY <3>2, <3>3, <3>4, <3>5, <3>6, <3>7
  <2> HIDE DEF stage, s4, s3, s2, s1, s0
  <2> QED
    BY <2>1
<1> HIDE DEF g, stage
<1>3. rst = [k \in 0 .. SHAMT |-> stage(rst, k)]
  BY <1>2
<1> HIDE DEF rst
<1>4. rst[5] = a
  BY <1>3 DEF stage
<1>5. rst[4] = s4
  BY <1>3, <1>4 DEF stage, staged
<1> HIDE DEF s4
<1>6. rst[3] = s3
  BY <1>3, <1>5 DEF stage, staged
<1> HIDE DEF s3
<1>7. rst[2] = s2
  BY <1>3, <1>6 DEF stage, staged
<1> HIDE DEF s2
<1>8. rst[1] = s1
  BY <1>3, <1>7 DEF stage, staged
<1> HIDE DEF s1
<1>9. rst[0] = s0
  BY <1>3, <1>8 DEF stage, staged
<1> QED
  BY <1>1, <1>9 DEF s4, s3, s2, s1

\* Multiples of the word size are lost.
LEMMA WordPeriod ==
  ASSUME Rv32, NEW z \in Int, NEW q \in Int
  PROVE  word(z + 4294967296 * q) = word(z)
BY WordMod

\* A word may be cut before or after it is scaled.
LEMMA WordScaled ==
  ASSUME Rv32, NEW z \in Int, NEW N \in Int
  PROVE  word(word(z) * N) = word(z * N)
<1>1. PICK q \in Int : word(z) = z + 4294967296 * q
  <2>1. word(z) = z + 4294967296 * (-(z \div 4294967296)) /\ -(z \div 4294967296) \in Int
    BY WordMod
  <2> QED
    BY <2>1
<1>2. PICK y \in Int : y = z * N
  OBVIOUS
<1>3. PICK r \in Int : r = q * N
  OBVIOUS
<1>4. word(z) * N = y + 4294967296 * r
  BY <1>1, <1>2, <1>3
<1>5. word(y + 4294967296 * r) = word(y)
  BY WordPeriod
<1> QED
  BY <1>2, <1>4, <1>5

\* A stage of the left shifter adds its distance to the one already shifted.
LEMMA StageShiftsLeft ==
  ASSUME Rv32, NEW a \in Word, NEW n, NEW t, Fits(n, t)
  PROVE  shift_stage("sll", shl(a, t), n) = shl(a, t + n)
<1>1. 2^(t + n) = 2^t * 2^n /\ 2^t \in Nat \ {0} /\ 2^n \in Nat \ {0}
  BY PowerSum
<1>2. a \in Int
  BY WordConstants
<1>3. PICK T \in Nat \ {0} : T = 2^t
  BY <1>1
<1>4. PICK N \in Nat \ {0} : N = 2^n
  BY <1>1
<1>5. word(word(a * T) * N) = word((a * T) * N)
  BY <1>2, WordScaled
<1>6. (a * T) * N = a * (T * N)
  BY <1>2
<1> QED
  BY <1>1, <1>3, <1>4, <1>5, <1>6 DEF shift_stage, shl

\* So does a stage of the logical right shifter.
LEMMA StageShiftsRight ==
  ASSUME Rv32, NEW a \in Word, NEW n, NEW t, Fits(n, t)
  PROVE  shift_stage("srl", shr(a, t), n) = shr(a, t + n)
<1>1. 2^(t + n) = 2^t * 2^n /\ 2^t \in Nat \ {0} /\ 2^n \in Nat \ {0}
  BY PowerSum
<1>2. a \in Int
  BY WordConstants
<1>3. (a \div 2^t) \div 2^n = a \div (2^t * 2^n)
  BY <1>1, <1>2, QuotientTwice
<1> QED
  BY <1>1, <1>3 DEF shift_stage, shr

\* An arithmetic stage divides the signed reading of its word.
LEMMA StageDivides ==
  ASSUME Rv32, NEW v \in Word, NEW n, NEW t, Fits(n, t)
  PROVE  /\ shift_stage("sra", v, n) \in Word
         /\ signed(shift_stage("sra", v, n)) = signed(v) \div 2^n
<1>1. top(v) = IF v >= 2147483648 THEN 1 ELSE 0
  BY WordConstants DEF top
<1>2. v \in Int /\ 0 <= v /\ v <= 4294967295
  BY WordConstants
<1>3. signed(v) = IF v >= 2147483648 THEN v - 4294967296 ELSE v
  BY SignedRange
<1>4. shift_stage("sra", v, n) =
        (v \div 2^n) + (IF v >= 2147483648 THEN 4294967296 - 2^(32 - n) ELSE 0)
  BY <1>1, WordConstants DEF shift_stage, Rv32
<1>5. \A s : s \in Word => signed(s) = IF s >= 2147483648 THEN s - 4294967296 ELSE s
  BY SignedRange
<1>6. CASE n = 1
  <2>1. shift_stage("sra", v, 1) =
          (v \div 2) + (IF v >= 2147483648 THEN 4294967296 - 2147483648 ELSE 0)
    BY <1>4, <1>6
  <2> QED
    BY <1>2, <1>3, <1>5, <1>6, <2>1, WordConstants
<1>7. CASE n = 2
  <2>1. shift_stage("sra", v, 2) =
          (v \div 4) + (IF v >= 2147483648 THEN 4294967296 - 1073741824 ELSE 0)
    BY <1>4, <1>7
  <2> QED
    BY <1>2, <1>3, <1>5, <1>7, <2>1, WordConstants
<1>8. CASE n = 4
  <2>1. shift_stage("sra", v, 4) =
          (v \div 16) + (IF v >= 2147483648 THEN 4294967296 - 268435456 ELSE 0)
    BY <1>4, <1>8
  <2> QED
    BY <1>2, <1>3, <1>5, <1>8, <2>1, WordConstants
<1>9. CASE n = 8
  <2>1. shift_stage("sra", v, 8) =
          (v \div 256) + (IF v >= 2147483648 THEN 4294967296 - 16777216 ELSE 0)
    BY <1>4, <1>9
  <2> QED
    BY <1>2, <1>3, <1>5, <1>9, <2>1, WordConstants
<1>10. CASE n = 16
  <2>1. shift_stage("sra", v, 16) =
          (v \div 65536) + (IF v >= 2147483648 THEN 4294967296 - 65536 ELSE 0)
    BY <1>4, <1>10
  <2> QED
    BY <1>2, <1>3, <1>5, <1>10, <2>1, WordConstants
<1> QED
  BY <1>6, <1>7, <1>8, <1>9, <1>10 DEF Fits

\* A signed word divided by a positive number is a signed word.
LEMMA SignedQuotient ==
  ASSUME Rv32, NEW a \in Word, NEW T \in Nat \ {0}
  PROVE  /\ signed(a) \div T \in Int
         /\ -2147483648 <= signed(a) \div T
         /\ signed(a) \div T <= 2147483647
<1>1. signed(a) \in Int /\ -2147483648 <= signed(a) /\ signed(a) <= 2147483647
  BY SignedRange
<1>2. PICK x \in Int : x = signed(a)
  BY <1>1
<1>3. PICK p \in Int : p = x \div T
  OBVIOUS
<1>4. T * p <= x /\ x <= T * p + T - 1
  BY <1>3
<1>5. p >= 0 => p <= T * p
  OBVIOUS
<1>6. p < 0 => T * (p + 1) <= p + 1
  OBVIOUS
<1>7. T * (p + 1) = T * p + T
  OBVIOUS
<1> QED
  BY <1>1, <1>2, <1>3, <1>4, <1>5, <1>6, <1>7

\* So does a stage of the arithmetic right shifter.
LEMMA StageShiftsArithmetic ==
  ASSUME Rv32, NEW a \in Word, NEW n, NEW t, Fits(n, t)
  PROVE  shift_stage("sra", sar(a, t), n) = sar(a, t + n)
<1> DEFINE v == sar(a, t)
           w == shift_stage("sra", v, n)
<1>1. 2^(t + n) = 2^t * 2^n /\ 2^t \in Nat \ {0} /\ 2^n \in Nat \ {0}
  BY PowerSum
<1>2. v = word(signed(a) \div 2^t)
  BY DEF sar
<1>3. v \in Word /\ signed(v) = signed(a) \div 2^t
  <2>1. PICK T \in Nat \ {0} : T = 2^t
    BY <1>1
  <2>2. PICK z \in Int : z = signed(a) \div T /\ -2147483648 <= z /\ z <= 2147483647
    BY SignedQuotient
  <2>3. signed(word(z)) = z /\ word(z) \in Word
    BY <2>2, SignedWord, WordMod
  <2> QED
    BY <1>2, <2>1, <2>2, <2>3
<1> HIDE DEF v
<1>4. w \in Word /\ signed(w) = signed(v) \div 2^n
  BY <1>3, StageDivides
<1>5. signed(a) \in Int
  BY SignedRange
<1>6. (signed(a) \div 2^t) \div 2^n = signed(a) \div (2^t * 2^n)
  BY <1>1, <1>5, QuotientTwice
<1> HIDE DEF w
<1>7. w = word(signed(w))
  BY <1>4, SignedRange
<1>8. w = sar(a, t + n)
  BY <1>1, <1>3, <1>4, <1>6, <1>7 DEF sar
<1> QED
  BY <1>8 DEF w, v

\* The operations of the shifter.
ShiftOp == {"sll", "srl", "sra"}

\* A stage of the shifter adds its distance, whatever the direction.
LEMMA StageShifts ==
  ASSUME Rv32, NEW opcode \in ShiftOp, NEW a \in Word, NEW n, NEW t, Fits(n, t)
  PROVE  shift_stage(opcode, shifted(opcode, a, t), n) = shifted(opcode, a, t + n)
<1>1. CASE opcode = "sll"
  BY <1>1, StageShiftsLeft DEF shifted
<1>2. CASE opcode = "srl"
  BY <1>2, StageShiftsRight DEF shifted
<1>3. CASE opcode = "sra"
  BY <1>3, StageShiftsArithmetic DEF shifted
<1> QED
  BY <1>1, <1>2, <1>3 DEF ShiftOp

\* A shift by nothing leaves the word.
LEMMA ShiftedByNone ==
  ASSUME Rv32, NEW opcode \in ShiftOp, NEW a \in Word
  PROVE  shifted(opcode, a, 0) = a
<1>1. a \in Int /\ 0 <= a /\ a <= 4294967295 /\ 2^0 = 1
  BY WordConstants
<1>2. shl(a, 0) = a /\ shr(a, 0) = a
  BY <1>1, WordMod DEF shl, shr
<1>3. sar(a, 0) = a
  BY <1>1, SignedRange DEF sar
<1> QED
  BY <1>2, <1>3 DEF shifted, ShiftOp

\* The stages read the amount a bit at a time, from the top.
LEMMA AmountStages ==
  ASSUME NEW b \in Nat
  PROVE  /\ b % 32 = (b % 16) + 16 * ((b \div 16) % 2) /\ b % 16 = (b % 8) + 8 * ((b \div 8) % 2)
         /\ b % 8 = (b % 4) + 4 * ((b \div 4) % 2) /\ b % 4 = (b % 2) + 2 * ((b \div 2) % 2)
OBVIOUS

\* The five stages shift by the amount's lowest five bits.
LEMMA ShifterShifts ==
  ASSUME Rv32, NEW opcode \in ShiftOp, NEW a \in Word, NEW b \in Word
  PROVE  shfC(opcode, a, b) = shifted(opcode, a, b % XLEN)
<1>1. b \in Nat
  BY WordConstants
<1> DEFINE place(k) == (b \div 2^k) % 2
<1>2. \A n, t : Fits(n, t) => shift_stage(opcode, shifted(opcode, a, t), n) = shifted(opcode, a, t + n)
  BY StageShifts
<1>3. PICK s4, s3, s2, s1 :
           /\ s4 = staged(opcode, a, b, 4)
           /\ s3 = staged(opcode, s4, b, 3)
           /\ s2 = staged(opcode, s3, b, 2)
           /\ s1 = staged(opcode, s2, b, 1)
           /\ shfC(opcode, a, b) = staged(opcode, s1, b, 0)
  BY FiveStages DEF Rv32
<1>4. PICK t4 \in {0, 16} : t4 = 16 * ((b \div 16) % 2)
  BY <1>1
<1>5. PICK t3 \in {0, 8, 16, 24} : t3 = t4 + 8 * ((b \div 8) % 2)
  BY <1>1, <1>4
<1>6. PICK t2 \in Nat : t2 = t3 + 4 * ((b \div 4) % 2) /\ t2 <= 28
  BY <1>1, <1>5
<1>7. PICK t1 \in Nat : t1 = t2 + 2 * ((b \div 2) % 2) /\ t1 <= 30
  BY <1>1, <1>6
<1>8. s4 = shifted(opcode, a, t4)
  <2>1. a = shifted(opcode, a, 0) /\ Fits(16, 0)
    BY ShiftedByNone DEF Fits
  <2>2. s4 = IF (b \div 16) % 2 = 1 THEN shift_stage(opcode, a, 16) ELSE a
    BY <1>3 DEF staged
  <2>3. shift_stage(opcode, a, 16) = shifted(opcode, a, 0 + 16)
    BY <1>2, <2>1
  <2> QED
    BY <1>1, <1>4, <2>1, <2>2, <2>3
<1>9. s3 = shifted(opcode, a, t3)
  <2>1. Fits(8, t4)
    BY <1>4 DEF Fits
  <2>2. s3 = IF (b \div 8) % 2 = 1 THEN shift_stage(opcode, s4, 8) ELSE s4
    BY <1>3 DEF staged
  <2>3. shift_stage(opcode, s4, 8) = shifted(opcode, a, t4 + 8)
    BY <1>2, <1>8, <2>1
  <2> QED
    BY <1>1, <1>4, <1>5, <1>8, <2>2, <2>3
<1>10. s2 = shifted(opcode, a, t2)
  <2>1. Fits(4, t3)
    BY <1>5 DEF Fits
  <2>2. s2 = IF (b \div 4) % 2 = 1 THEN shift_stage(opcode, s3, 4) ELSE s3
    BY <1>3 DEF staged
  <2>3. shift_stage(opcode, s3, 4) = shifted(opcode, a, t3 + 4)
    BY <1>2, <1>9, <2>1
  <2> QED
    BY <1>1, <1>5, <1>6, <1>9, <2>2, <2>3
<1>11. s1 = shifted(opcode, a, t1)
  <2>1. Fits(2, t2)
    BY <1>6 DEF Fits
  <2>2. s1 = IF (b \div 2) % 2 = 1 THEN shift_stage(opcode, s2, 2) ELSE s2
    BY <1>3 DEF staged
  <2>3. shift_stage(opcode, s2, 2) = shifted(opcode, a, t2 + 2)
    BY <1>2, <1>10, <2>1
  <2> QED
    BY <1>1, <1>6, <1>7, <1>10, <2>2, <2>3
<1>12. shfC(opcode, a, b) = shifted(opcode, a, t1 + (b % 2))
  <2>1. Fits(1, t1)
    BY <1>7 DEF Fits
  <2>2. shfC(opcode, a, b) = IF (b \div 1) % 2 = 1 THEN shift_stage(opcode, s1, 1) ELSE s1
    BY <1>3 DEF staged
  <2>3. shift_stage(opcode, s1, 1) = shifted(opcode, a, t1 + 1)
    BY <1>2, <1>11, <2>1
  <2> QED
    <3>1. (b \div 1) % 2 = b % 2 /\ b % 2 \in {0, 1}
      BY <1>1
    <3>2. CASE b % 2 = 1
      BY <1>7, <2>2, <2>3, <3>1, <3>2
    <3>3. CASE b % 2 = 0
      BY <1>7, <1>11, <2>2, <3>1, <3>3
    <3> QED
      BY <3>1, <3>2, <3>3
<1>13. t1 + (b % 2) = b % 32
  <2>1. /\ b % 32 = (b % 16) + 16 * ((b \div 16) % 2) /\ b % 16 = (b % 8) + 8 * ((b \div 8) % 2)
        /\ b % 8 = (b % 4) + 4 * ((b \div 4) % 2) /\ b % 4 = (b % 2) + 2 * ((b \div 2) % 2)
    BY <1>1, AmountStages
  <2> QED
    BY <1>1, <1>4, <1>5, <1>6, <1>7, <2>1
<1> QED
  BY <1>12, <1>13 DEF Rv32

\* The upper word of a double word, read from the double word or from the product.
LEMMA UpperWord ==
  ASSUME NEW W \in Nat \ {0}, NEW z \in Int
  PROVE  (z % (W * W)) \div W = (z \div W) % W
<1> DEFINE p == z \div W
           q == p \div W
           r == p % W
           s == z % W
<1>1. p \in Int /\ s \in Nat /\ s < W /\ z = W * p + s
  OBVIOUS
<1>2. q \in Int /\ r \in Nat /\ r < W /\ p = W * q + r
  OBVIOUS
<1> HIDE DEF p, q, r, s
<1>3. W * r + s \in Nat /\ W * r + s < W * W
  <2>1. W * r <= W * (W - 1)
    BY <1>2
  <2>2. W * (W - 1) = W * W - W
    OBVIOUS
  <2> QED
    BY <1>1, <1>2, <2>1, <2>2
<1>4. z = (W * W) * q + (W * r + s)
  <2>1. W * p = (W * W) * q + W * r
    BY <1>2
  <2> QED
    BY <1>1, <1>2, <2>1
<1>5. \A V \in Nat \ {0}, y \in Int, k \in Int, e \in Nat : e < V /\ y = V * k + e => y % V = e
  OBVIOUS
<1>6. \A V \in Nat \ {0}, y \in Int, k \in Int, e \in Nat : e < V /\ y = V * k + e => y \div V = k
  OBVIOUS
<1>7. z % (W * W) = W * r + s
  <2>1. W * W \in Nat \ {0}
    OBVIOUS
  <2>2. PICK V \in Nat \ {0} : V = W * W
    BY <2>1
  <2>3. PICK e \in Nat : e = W * r + s
    BY <1>3
  <2> QED
    BY <1>2, <1>3, <1>4, <1>5, <2>2, <2>3
<1>8. (W * r + s) \div W = r
  BY <1>1, <1>2, <1>3, <1>6
<1> QED
  BY <1>7, <1>8 DEF p, r

\* The upper half of a product is its quotient by the word size, cut to a word.
LEMMA HighWord ==
  ASSUME Rv32
  PROVE  \A z \in Int : high(z) = (z \div 2^XLEN) % 2^XLEN
<1>1. 2^XLEN \in Nat \ {0}
  BY WordConstants
<1>2. PICK W \in Nat \ {0} : W = 2^XLEN
  BY <1>1
<1> QED
  BY <1>2, UpperWord DEF high

\* The upper half of a product of two words is a word.
LEMMA ProductBound ==
  ASSUME NEW W \in Nat \ {0}, NEW a \in Nat, NEW b \in Nat, a < W, b < W
  PROVE  (a * b) \div W \in Nat /\ (a * b) \div W < W
<1>1. a * b \in Nat /\ a * b <= (W - 1) * b
  OBVIOUS
<1>2. (W - 1) * b <= (W - 1) * (W - 1)
  OBVIOUS
<1>3. (W - 1) * (W - 1) < W * W
  OBVIOUS
<1>4. a * b < W * W
  BY <1>1, <1>2, <1>3
<1>5. PICK z \in Nat : z = a * b
  BY <1>1
<1>6. PICK p \in Int : p = z \div W
  OBVIOUS
<1>7. W * p <= z /\ z <= W * p + W - 1
  BY <1>6
<1>8. p >= W => W * p >= W * W
  OBVIOUS
<1>9. p < 0 => W * p <= -W
  OBVIOUS
<1> QED
  BY <1>4, <1>5, <1>6, <1>7, <1>8, <1>9

\* Shifting the product by whole words.
LEMMA UpperShifted ==
  ASSUME Rv32, NEW z \in Int, NEW q \in Int
  PROVE  (z + 4294967296 * q) \div 4294967296 = (z \div 4294967296) + q
OBVIOUS

\* The signed reading is the word itself, less one word size when negative.
LEMMA SignedIs ==
  ASSUME Rv32, NEW a \in Word
  PROVE  signed(a) = a + 4294967296 * (IF a >= SignBit THEN -1 ELSE 0)
BY WordConstants, SignedRange

\* The multiplier's four results are the model's products.
LEMMA MultiplierMultiplies ==
  ASSUME Rv32, NEW a \in Word, NEW b \in Word
  PROVE  /\ mpyC("mul", a, b) = word(a * b)
         /\ mpyC("mulh", a, b) = mulh(a, b)
         /\ mpyC("mulsu", a, b) = mulhsu(a, b)
         /\ mpyC("mulu", a, b) = mulhu(a, b)
<1>1. a \in Nat /\ b \in Nat /\ a < 2^XLEN /\ b < 2^XLEN /\ 2^XLEN \in Nat \ {0}
  BY WordConstants
<1>2. signed(a) \in Int /\ signed(b) \in Int
  BY SignedRange
<1>3. mpyC("mulh", a, b) = mulh(a, b) /\ mpyC("mulsu", a, b) = mulhsu(a, b)
  <2>1. signed(a) * signed(b) \in Int /\ signed(a) * b \in Int
    BY <1>1, <1>2
  <2>2. high(signed(a) * signed(b)) = ((signed(a) * signed(b)) \div 2^XLEN) % 2^XLEN
    BY <2>1, HighWord
  <2>3. high(signed(a) * b) = ((signed(a) * b) \div 2^XLEN) % 2^XLEN
    BY <2>1, HighWord
  <2> QED
    BY <2>2, <2>3 DEF mpyC, mulh, mulhsu
<1>4. mpyC("mulu", a, b) = mulhu(a, b)
  <2>1. a * b \in Int
    BY <1>1
  <2>2. high(a * b) = ((a * b) \div 2^XLEN) % 2^XLEN
    BY <2>1, HighWord
  <2>3. (a * b) \div 2^XLEN \in Nat /\ (a * b) \div 2^XLEN < 2^XLEN
    BY <1>1, ProductBound
  <2>4. PICK p \in Nat : p = (a * b) \div 2^XLEN
    BY <2>3
  <2>5. p % 2^XLEN = p
    BY <1>1, <2>3, <2>4, WordConstants
  <2> QED
    BY <2>2, <2>4, <2>5 DEF mpyC, mulhu
<1>5. mpyC("mul", a, b) = word(a * b)
  <2> DEFINE lost(z, q) == word(z + 4294967296 * q) = word(z)
  <2>0. \A z, q \in Int : lost(z, q)
    BY WordMod
  <2>1. PICK n \in Int : signed(a) = a + 4294967296 * n
    BY SignedIs
  <2>2. PICK m \in Int : signed(b) = b + 4294967296 * m
    BY SignedIs
  <2>3. PICK k \in Int : k = a * m + n * b + 4294967296 * (n * m)
    BY <1>1
  <2>4. (a + 4294967296 * n) * (b + 4294967296 * m) = a * b + 4294967296 * k
    BY <1>1, <2>3
  <2>5. word(a * b + 4294967296 * k) = word(a * b)
    <3> HIDE DEF lost
    <3>1. a * b \in Int
      BY <1>1
    <3>2. lost(a * b, k)
      BY <2>0, <3>1
    <3> QED
      BY <3>2 DEF lost
  <2> QED
    BY <2>1, <2>2, <2>4, <2>5 DEF mpyC, word
<1> QED
  BY <1>3, <1>4, <1>5

\* The divider's four results are the model's quotients and remainders.
LEMMA DividerDivides ==
  ASSUME Rv32, NEW a \in Word, NEW b \in Word
  PROVE  /\ divC("div", a, b) = div_signed(a, b)
         /\ divC("divu", a, b) = div_unsigned(a, b)
         /\ divC("rem", a, b) = rem_signed(a, b)
         /\ divC("remu", a, b) = rem_unsigned(a, b)
<1>1. AllOnes # 0
  BY WordConstants
<1> QED
  BY <1>1 DEF divC, div_signed, div_unsigned, rem_signed, rem_unsigned

\* The value extender of the loads extends as the model does.
LEMMA ExtenderExtends ==
  ASSUME Rv32, NEW raw \in Word
  PROVE  /\ value_out("lb", raw) = sign_extend(raw % 2^BYTE, BYTE)
         /\ value_out("lh", raw) = sign_extend(raw % 2^(2 * BYTE), 2 * BYTE)
         /\ value_out("lw", raw) = raw
         /\ value_out("lbu", raw) = raw % 2^BYTE
         /\ value_out("lhu", raw) = raw % 2^(2 * BYTE)
<1>1. raw \in Nat /\ raw <= 4294967295
  BY WordConstants
<1>2. BYTE = 8
  BY WordConstants
<1>3. value_out("lb", raw) = (raw % 256) + (IF (raw \div 128) % 2 = 1 THEN 4294967296 - 256 ELSE 0)
  BY <1>2, WordConstants DEF value_out, replicate
<1>4. sign_extend(raw % 256, 8) = word(IF raw % 256 >= 128 THEN (raw % 256) - 256 ELSE raw % 256)
  BY DEF sign_extend
<1>5. value_out("lb", raw) = sign_extend(raw % 2^BYTE, BYTE)
  BY <1>1, <1>2, <1>3, <1>4, WordMod
<1>6. value_out("lh", raw) = (raw % 65536) + (IF (raw \div 32768) % 2 = 1 THEN 4294967296 - 65536 ELSE 0)
  BY <1>2, WordConstants DEF value_out, replicate
<1>7. sign_extend(raw % 65536, 16) = word(IF raw % 65536 >= 32768 THEN (raw % 65536) - 65536 ELSE raw % 65536)
  BY DEF sign_extend
<1>8. value_out("lh", raw) = sign_extend(raw % 2^(2 * BYTE), 2 * BYTE)
  BY <1>1, <1>2, <1>6, <1>7, WordMod
<1>9. value_out("lw", raw) = raw /\ value_out("lbu", raw) = raw % 2^BYTE /\ value_out("lhu", raw) = raw % 2^(2 * BYTE)
  BY DEF value_out
<1> QED
  BY <1>5, <1>8, <1>9

\* The units of the integer instructions, and the reference model's operators.
unit_value(u, a, b) ==
  CASE u[1] = "adder" -> addC(u[2], a, b)
    [] u[1] = "alu" -> aluC(u[2], a, b)
    [] u[1] = "shifter" -> shfC(u[2], a, b)

\* The unit an integer instruction is sent to computes the model's result.
LEMMA IntegerUnits ==
  ASSUME Rv32, NEW a \in Word, NEW b \in Word, NEW n \in 0 .. 7
  PROVE  unit_value(IntUnit[n + 1], a, b) = integer(n, a, b)
<1>1. /\ addC("add", a, b) = plus(a, b)
      /\ addC("lt", a, b) = flag(signed(a) < signed(b))
      /\ addC("ltu", a, b) = flag(a < b)
  BY AdderAdds
<1>2. shfC("sll", a, b) = shl(a, b % XLEN) /\ shfC("srl", a, b) = shr(a, b % XLEN)
  BY ShifterShifts DEF shifted, ShiftOp
<1>3. aluC("xor", a, b) = xor(a, b) /\ aluC("or", a, b) = or(a, b) /\ aluC("and", a, b) = and(a, b)
  BY DEF aluC
<1>4. CASE n = 0 BY <1>1, <1>4 DEF unit_value, IntUnit, integer
<1>5. CASE n = 1 BY <1>2, <1>5 DEF unit_value, IntUnit, integer
<1>6. CASE n = 2 BY <1>1, <1>6 DEF unit_value, IntUnit, integer
<1>7. CASE n = 3 BY <1>1, <1>7 DEF unit_value, IntUnit, integer
<1>8. CASE n = 4 BY <1>3, <1>8 DEF unit_value, IntUnit, integer
<1>9. CASE n = 5 BY <1>2, <1>9 DEF unit_value, IntUnit, integer
<1>10. CASE n = 6 BY <1>3, <1>10 DEF unit_value, IntUnit, integer
<1>11. CASE n = 7 BY <1>3, <1>11 DEF unit_value, IntUnit, integer
<1> QED
  BY <1>4, <1>5, <1>6, <1>7, <1>8, <1>9, <1>10, <1>11

\* The unit an M instruction is sent to computes the model's result.
LEMMA MulDivUnits ==
  ASSUME Rv32, NEW a \in Word, NEW b \in Word, NEW n \in 0 .. 7
  PROVE  muldiv(n, a, b) = IF MulDivUnit[n + 1][1] = "multiplier"
                           THEN mpyC(MulDivUnit[n + 1][2], a, b)
                           ELSE divC(MulDivUnit[n + 1][2], a, b)
<1>1. /\ mpyC("mul", a, b) = word(a * b)
      /\ mpyC("mulh", a, b) = mulh(a, b)
      /\ mpyC("mulsu", a, b) = mulhsu(a, b)
      /\ mpyC("mulu", a, b) = mulhu(a, b)
  BY MultiplierMultiplies
<1>2. /\ divC("div", a, b) = div_signed(a, b)
      /\ divC("divu", a, b) = div_unsigned(a, b)
      /\ divC("rem", a, b) = rem_signed(a, b)
      /\ divC("remu", a, b) = rem_unsigned(a, b)
  BY DividerDivides
<1>3. CASE n = 0 BY <1>1, <1>3 DEF MulDivUnit, muldiv
<1>4. CASE n = 1 BY <1>1, <1>4 DEF MulDivUnit, muldiv
<1>5. CASE n = 2 BY <1>1, <1>5 DEF MulDivUnit, muldiv
<1>6. CASE n = 3 BY <1>1, <1>6 DEF MulDivUnit, muldiv
<1>7. CASE n = 4 BY <1>2, <1>7 DEF MulDivUnit, muldiv
<1>8. CASE n = 5 BY <1>2, <1>8 DEF MulDivUnit, muldiv
<1>9. CASE n = 6 BY <1>2, <1>9 DEF MulDivUnit, muldiv
<1>10. CASE n = 7 BY <1>2, <1>10 DEF MulDivUnit, muldiv
<1> QED
  BY <1>3, <1>4, <1>5, <1>6, <1>7, <1>8, <1>9, <1>10

\* An instruction that the decoder supports, anywhere, with any source values.
Case32(i, pc0, a, b) ==
  Rv32 /\ i \in Instruction /\ supported(i) /\ pc0 \in Word /\ a \in Word /\ b \in Word

\* Its fields and operands are numbers of the ranges the units expect.
LEMMA CaseFields ==
  ASSUME NEW i, NEW pc0, NEW a, NEW b, Case32(i, pc0, a, b)
  PROVE  /\ i.opcode \in Opcodes /\ i.funct3 \in 0 .. 7 /\ i.imm \in Int
         /\ a \in Int /\ b \in Int /\ pc0 \in Int
BY WordConstants DEF Case32, Instruction

\* Decoder and model agree on which instructions write a register.
LEMMA SameCommit ==
  ASSUME NEW i, NEW pc0, NEW a, NEW b, Case32(i, pc0, a, b)
  PROVE  reports_rd(i) = write_rd(i)
<1>1. supported(i)
  BY DEF Case32
<1>2. reports_rd(i) <=> write_rd(i)
  BY <1>1, CaseFields DEF reports_rd, write_rd, supported, LoadFunct3, LoadOp, Opcodes
<1>3. reports_rd(i) \in BOOLEAN /\ write_rd(i) \in BOOLEAN
  BY DEF reports_rd, write_rd
<1> QED
  BY <1>2, <1>3

\* The branch unit's comparison is the model's.
LEMMA SameBranch ==
  ASSUME NEW i, NEW pc0, NEW a, NEW b, Case32(i, pc0, a, b), i.opcode = "branch"
  PROVE  compare(unit(i)[2], a, b) <=> taken(i, a, b)
<1>1. supported(i) /\ Rv32 /\ a \in Word /\ b \in Word
  BY DEF Case32
<1>2. i.funct3 \in {0, 1, 4, 5, 6, 7}
  BY <1>1 DEF supported, BranchOp
<1>3. unit(i)[2] = BranchOp[i.funct3]
  BY <1>1 DEF unit
<1>4. /\ compare("eq", a, b) <=> a = b
      /\ compare("ne", a, b) <=> a # b
      /\ compare("lt", a, b) <=> signed(a) < signed(b)
      /\ compare("ge", a, b) <=> signed(a) >= signed(b)
      /\ compare("ltu", a, b) <=> a < b
      /\ compare("geu", a, b) <=> a >= b
  BY <1>1, AdderCompares
<1>5. CASE i.funct3 = 0 BY <1>3, <1>4, <1>5 DEF BranchOp, taken
<1>6. CASE i.funct3 = 1 BY <1>3, <1>4, <1>6 DEF BranchOp, taken
<1>7. CASE i.funct3 = 4 BY <1>3, <1>4, <1>7 DEF BranchOp, taken
<1>8. CASE i.funct3 = 5 BY <1>3, <1>4, <1>8 DEF BranchOp, taken
<1>9. CASE i.funct3 = 6 BY <1>3, <1>4, <1>9 DEF BranchOp, taken
<1>10. CASE i.funct3 = 7 BY <1>3, <1>4, <1>10 DEF BranchOp, taken
<1> QED
  BY <1>2, <1>5, <1>6, <1>7, <1>8, <1>9, <1>10

\* The next program counters agree.
LEMMA SameTarget ==
  ASSUME NEW i, NEW pc0, NEW a, NEW b, Case32(i, pc0, a, b)
  PROVE  target(i, pc0, a, b) = next_pc(i, pc0, a, b)
<1>1. supported(i) /\ Rv32 /\ a \in Word /\ b \in Word
  BY DEF Case32
<1>2. CASE i.opcode = "branch"
  BY <1>1, <1>2, SameBranch DEF target, next_pc
<1>3. CASE i.opcode = "jalr"
  <2>1. operand_b(i, b) = word(i.imm)
    BY <1>1, <1>3 DEF operand_b, sel_imm
  <2>2. word(i.imm) \in Word
    BY <1>1, CaseFields, WordMod
  <2>3. addC("add", a, word(i.imm)) = plus(a, word(i.imm))
    BY <1>1, <2>2, AdderAdds
  <2>4. plus(a, word(i.imm)) = plus(a, i.imm)
    BY <1>1, CaseFields, PlusWord
  <2> QED
    BY <1>1, <1>3, <2>1, <2>3, <2>4 DEF target, next_pc
<1>4. CASE i.opcode \notin {"branch", "jalr"}
  BY <1>1, <1>4 DEF target, next_pc
<1> QED
  BY <1>2, <1>3, <1>4

\* What a trace shows.
LEMMA TraceFlags ==
  ASSUME NEW i, NEW pc0, NEW b, NEW addr, NEW raw, NEW x, NEW t,
         t = retire_trace(pc0, 0, i, b, addr, raw, x)
  PROVE  /\ t.is_read <=> i.opcode = "load" /\ i.funct3 \in LoadFunct3
         /\ t.is_write <=> i.opcode = "store" /\ store_bytes(i) # 0
         /\ t.commit_valid = write_rd(i)
         /\ t.rd_data = IF i.rd = 0 THEN 0 ELSE x
         /\ i.opcode \in {"load", "store"} => t.addr = addr
         /\ i.opcode = "store" => t.wdata = b
         /\ i.opcode = "store" /\ store_bytes(i) # 0 => t.wstrb = 2^store_bytes(i) - 1
<1>1. t.is_read <=> i.opcode = "load" /\ i.funct3 \in LoadFunct3
  <2>1. t.is_read = (i.opcode = "load" /\ i.funct3 \in LoadFunct3)
    BY Zenon DEF retire_trace
  <2> QED
    BY <2>1
<1>2. t.is_write <=> i.opcode = "store" /\ store_bytes(i) # 0
  <2>1. t.is_write = (i.opcode = "store" /\ store_bytes(i) # 0)
    BY Zenon DEF retire_trace
  <2> QED
    BY <2>1
<1>3. t.commit_valid = write_rd(i)
  BY DEF retire_trace
<1>4. t.rd_data = IF i.rd = 0 THEN 0 ELSE x
  BY DEF retire_trace
<1>5. i.opcode \in {"load", "store"} => t.addr = addr
  BY DEF retire_trace
<1>6. i.opcode = "store" => t.wdata = b
  BY DEF retire_trace
<1>7. i.opcode = "store" /\ store_bytes(i) # 0 => t.wstrb = 2^store_bytes(i) - 1
  BY DEF retire_trace
<1> QED
  BY <1>1, <1>2, <1>3, <1>4, <1>5, <1>6, <1>7

\* The access in it, as a record like the one of the RTL.
LEMMA ModelAccess ==
  ASSUME NEW i, NEW pc0, NEW a, NEW b, NEW raw
  PROVE  model_retires(i, pc0, a, b, raw).access =
           IF i.opcode = "load" /\ i.funct3 \in LoadFunct3
           THEN [strobe |-> IF i.funct3 = 2 THEN 15 ELSE IF i.funct3 \in {1, 5} THEN 3 ELSE 1,
                 addr |-> plus(a, i.imm), wdata |-> b]
           ELSE IF i.opcode = "store" /\ store_bytes(i) # 0
           THEN [strobe |-> 2^store_bytes(i) - 1, addr |-> plus(a, i.imm), wdata |-> b]
           ELSE NoAccess
<1> DEFINE t == retire_trace(pc0, 0, i, b, plus(a, i.imm), raw, result(i, pc0, a, b, raw))
<1>1. /\ t.is_read <=> i.opcode = "load" /\ i.funct3 \in LoadFunct3
      /\ t.is_write <=> (i.opcode = "store" /\ store_bytes(i) # 0)
      /\ i.opcode \in {"load", "store"} => t.addr = plus(a, i.imm)
      /\ i.opcode = "store" => t.wdata = b
      /\ i.opcode = "store" /\ store_bytes(i) # 0 => t.wstrb = 2^store_bytes(i) - 1
  BY TraceFlags
<1>2. model_retires(i, pc0, a, b, raw).access =
        IF t.is_read
        THEN [strobe |-> IF i.funct3 = 2 THEN 15 ELSE IF i.funct3 \in {1, 5} THEN 3 ELSE 1,
              addr |-> t.addr, wdata |-> b]
        ELSE IF t.is_write
        THEN [strobe |-> t.wstrb, addr |-> t.addr, wdata |-> t.wdata]
        ELSE NoAccess
  BY DEF model_retires
<1> HIDE DEF t
<1> QED
  BY <1>1, <1>2

\* The accesses to data memory agree, strobe, address and data.
LEMMA SameAccess ==
  ASSUME NEW i, NEW pc0, NEW a, NEW b, Case32(i, pc0, a, b)
  PROVE  access(i, a, b) = model_retires(i, pc0, a, b, b).access
<1> DEFINE m == model_retires(i, pc0, a, b, b).access
<1>0. m = IF i.opcode = "load" /\ i.funct3 \in LoadFunct3
          THEN [strobe |-> IF i.funct3 = 2 THEN 15 ELSE IF i.funct3 \in {1, 5} THEN 3 ELSE 1,
                addr |-> plus(a, i.imm), wdata |-> b]
          ELSE IF i.opcode = "store" /\ store_bytes(i) # 0
          THEN [strobe |-> 2^store_bytes(i) - 1, addr |-> plus(a, i.imm), wdata |-> b]
          ELSE NoAccess
  BY ModelAccess
<1> HIDE DEF m
<1>1. supported(i)
  BY DEF Case32
<1>2. ASSUME i.opcode = "load" PROVE access(i, a, b) = m
  <2>1. i.funct3 \in LoadFunct3
    BY <1>1, <1>2 DEF supported, LoadOp, LoadFunct3
  <2>2. unit(i) = <<"lsu", LoadOp[i.funct3]>>
    BY <1>1, <1>2 DEF unit
  <2>3. lsu_strobe(LoadOp[i.funct3]) =
          IF i.funct3 = 2 THEN 15 ELSE IF i.funct3 \in {1, 5} THEN 3 ELSE 1
    BY <2>1 DEF lsu_strobe, LoadOp, LoadFunct3
  <2> QED
    BY <1>0, <1>2, <2>1, <2>2, <2>3 DEF access
<1>3. ASSUME i.opcode = "store" PROVE access(i, a, b) = m
  <2>1. i.funct3 \in {0, 1, 2}
    BY <1>1, <1>3 DEF supported, StoreOp
  <2>2. unit(i) = <<"lsu", StoreOp[i.funct3]>>
    BY <1>1, <1>3 DEF unit
  <2>3. lsu_strobe(StoreOp[i.funct3]) = 2^store_bytes(i) - 1 /\ store_bytes(i) # 0
    <3>1. CASE i.funct3 = 0 BY <3>1 DEF lsu_strobe, StoreOp, store_bytes
    <3>2. CASE i.funct3 = 1 BY <3>2 DEF lsu_strobe, StoreOp, store_bytes
    <3>3. CASE i.funct3 = 2 BY <3>3 DEF lsu_strobe, StoreOp, store_bytes
    <3> QED
      BY <2>1, <3>1, <3>2, <3>3
  <2> QED
    BY <1>0, <1>3, <2>2, <2>3 DEF access
<1>4. ASSUME i.opcode \notin {"load", "store"} PROVE access(i, a, b) = m
  <2>1. unit(i)[1] # "lsu"
    <3>1. CASE i.opcode = "op"
      <4>1. \A n \in 0 .. 7 : IntUnit[n + 1][1] # "lsu" /\ MulDivUnit[n + 1][1] # "lsu"
        BY DEF IntUnit, MulDivUnit
      <4> QED
        BY <1>1, <3>1, <4>1, CaseFields DEF unit
    <3>2. CASE i.opcode = "op_imm"
      <4>1. \A n \in 0 .. 7 : IntUnit[n + 1][1] # "lsu"
        BY DEF IntUnit
      <4> QED
        BY <1>1, <3>2, <4>1, CaseFields DEF unit
    <3> QED
      BY <1>1, <1>4, <3>1, <3>2 DEF unit, NoUnit
  <2> QED
    BY <1>0, <1>4, <2>1 DEF access
<1> QED
  BY <1>2, <1>3, <1>4 DEF m

\* The values written back agree for every instruction that writes one.
LEMMA SameData ==
  ASSUME NEW i, NEW pc0, NEW a, NEW b, Case32(i, pc0, a, b), reports_rd(i)
  PROVE  value(i, pc0, a, b, b) = result(i, pc0, a, b, b)
<1>1. supported(i) /\ Rv32 /\ pc0 \in Word /\ a \in Word /\ b \in Word
  BY DEF Case32
<1>2. i.funct3 \in 0 .. 7 /\ i.imm \in Int /\ pc0 \in Int
  BY CaseFields
<1>3. word(i.imm) \in Word
  BY <1>1, <1>2, WordMod
<1>4. \A n \in 0 .. 7 : IntUnit[n + 1][1] \in {"adder", "alu", "shifter"}
  BY DEF IntUnit
<1>5. \A n \in 0 .. 7 : MulDivUnit[n + 1][1] \in {"multiplier", "divider"}
  BY DEF MulDivUnit
<1>6. ASSUME i.opcode \in {"op", "op_imm"}, unit(i)[1] \in {"adder", "alu", "shifter"}
      PROVE  value(i, pc0, a, b, b) = unit_value(unit(i), a, operand_b(i, b))
  BY <1>6 DEF value, lane_value, unit_value
<1>7. shfC("sra", a, b) = sar(a, b % XLEN) /\ shfC("sra", a, word(i.imm)) = sar(a, word(i.imm) % XLEN)
  BY <1>1, <1>3, ShifterShifts DEF shifted, ShiftOp
<1>8. CASE i.opcode = "op"
  <2>1. operand_b(i, b) = b
    BY <1>8 DEF operand_b, sel_imm
  <2>2. result(i, pc0, a, b, b) = op(i, a, b)
    BY <1>8 DEF result
  <2>3. CASE i.funct7 = 1
    <3>1. unit(i) = MulDivUnit[i.funct3 + 1]
      BY <1>1, <1>8, <2>3 DEF unit
    <3>2. op(i, a, b) = muldiv(i.funct3, a, b)
      BY <2>3 DEF op
    <3>3. value(i, pc0, a, b, b) = IF unit(i)[1] = "multiplier" THEN mpyC(unit(i)[2], a, b)
                                                              ELSE divC(unit(i)[2], a, b)
      BY <1>2, <1>5, <3>1 DEF value
    <3> QED
      BY <1>1, <1>2, <2>2, <3>1, <3>2, <3>3, MulDivUnits
  <2>4. CASE i.funct7 = 32
    <3>1. CASE i.funct3 = 0
      <4>1. unit(i) = <<"adder", "sub">>
        BY <1>1, <1>8, <2>4, <3>1 DEF unit
      <4>2. op(i, a, b) = word(a - b)
        BY <2>4, <3>1 DEF op
      <4>3. value(i, pc0, a, b, b) = addC("sub", a, b)
        BY <1>6, <1>8, <2>1, <4>1 DEF unit_value
      <4> QED
        BY <1>1, <2>2, <4>2, <4>3, AdderAdds
    <3>2. CASE i.funct3 = 5
      <4>1. unit(i) = <<"shifter", "sra">>
        BY <1>1, <1>8, <2>4, <3>2 DEF unit
      <4>2. op(i, a, b) = sar(a, b % XLEN)
        BY <2>4, <3>2 DEF op
      <4>3. value(i, pc0, a, b, b) = shfC("sra", a, b)
        BY <1>6, <1>8, <2>1, <4>1 DEF unit_value
      <4> QED
        BY <1>7, <2>2, <4>2, <4>3
    <3> QED
      BY <1>1, <1>8, <2>4, <3>1, <3>2 DEF supported
  <2>5. CASE i.funct7 = 0
    <3>1. unit(i) = IntUnit[i.funct3 + 1]
      BY <1>1, <1>8, <2>5 DEF unit
    <3>2. op(i, a, b) = integer(i.funct3, a, b)
      BY <2>5 DEF op
    <3>3. value(i, pc0, a, b, b) = unit_value(IntUnit[i.funct3 + 1], a, b)
      BY <1>2, <1>4, <1>6, <1>8, <2>1, <3>1
    <3> QED
      BY <1>1, <1>2, <2>2, <3>2, <3>3, IntegerUnits
  <2> QED
    BY <1>1, <1>8, <2>3, <2>4, <2>5 DEF supported
<1>9. CASE i.opcode = "op_imm"
  <2>1. operand_b(i, b) = word(i.imm)
    BY <1>1, <1>9 DEF operand_b, sel_imm
  <2>2. result(i, pc0, a, b, b) = op_imm(i, a)
    BY <1>9 DEF result
  <2>3. CASE i.funct3 = 5 /\ i.funct7 = 32
    <3>1. unit(i) = <<"shifter", "sra">>
      BY <1>1, <1>9, <2>3 DEF unit
    <3>2. op_imm(i, a) = sar(a, word(i.imm) % XLEN)
      BY <2>3 DEF op_imm
    <3>3. value(i, pc0, a, b, b) = shfC("sra", a, word(i.imm))
      BY <1>6, <1>9, <2>1, <3>1 DEF unit_value
    <3> QED
      BY <1>7, <2>2, <3>2, <3>3
  <2>4. CASE ~(i.funct3 = 5 /\ i.funct7 = 32)
    <3>1. unit(i) = IntUnit[i.funct3 + 1]
      <4>1. ~(i.funct3 = 5 /\ i.funct7 # 0)
        BY <1>1, <1>9, <2>4 DEF supported
      <4> QED
        BY <1>1, <1>9, <4>1 DEF unit
    <3>2. op_imm(i, a) = integer(i.funct3, a, word(i.imm))
      BY <2>4 DEF op_imm
    <3>3. value(i, pc0, a, b, b) = unit_value(IntUnit[i.funct3 + 1], a, word(i.imm))
      BY <1>2, <1>4, <1>6, <1>9, <2>1, <3>1
    <3> QED
      BY <1>1, <1>2, <1>3, <2>2, <3>2, <3>3, IntegerUnits
  <2> QED
    BY <2>3, <2>4
<1>10. CASE i.opcode = "load"
  <2>1. i.funct3 \in {0, 1, 2, 4, 5}
    BY <1>1, <1>10 DEF supported, LoadOp
  <2>2. unit(i) = <<"lsu", LoadOp[i.funct3]>>
    BY <1>1, <1>10 DEF unit
  <2>3. value(i, pc0, a, b, b) = value_out(LoadOp[i.funct3], b)
    BY <1>10, <2>2 DEF value
  <2>4. result(i, pc0, a, b, b) = load(i, b)
    BY <1>10 DEF result
  <2>5. /\ value_out("lb", b) = sign_extend(b % 2^BYTE, BYTE)
        /\ value_out("lh", b) = sign_extend(b % 2^(2 * BYTE), 2 * BYTE)
        /\ value_out("lw", b) = b
        /\ value_out("lbu", b) = b % 2^BYTE
        /\ value_out("lhu", b) = b % 2^(2 * BYTE)
    BY <1>1, ExtenderExtends
  <2>6. value_out(LoadOp[i.funct3], b) = load(i, b)
    <3>1. CASE i.funct3 = 0 BY <2>5, <3>1 DEF LoadOp, load
    <3>2. CASE i.funct3 = 1 BY <2>5, <3>2 DEF LoadOp, load
    <3>3. CASE i.funct3 = 2 BY <2>5, <3>3 DEF LoadOp, load
    <3>4. CASE i.funct3 = 4 BY <2>5, <3>4 DEF LoadOp, load
    <3>5. CASE i.funct3 = 5 BY <2>5, <3>5 DEF LoadOp, load
    <3> QED
      BY <2>1, <3>1, <3>2, <3>3, <3>4, <3>5
  <2> QED
    BY <2>3, <2>4, <2>6
<1>11. CASE i.opcode \in {"jal", "jalr"}
  BY <1>1, <1>11 DEF value, lane_value, result, unit, NoUnit
<1>12. CASE i.opcode = "lui"
  BY <1>1, <1>12 DEF value, lane_value, result, unit, imuC
<1>13. CASE i.opcode = "auipc"
  <2>1. plus(pc0, word(i.imm)) = plus(pc0, i.imm)
    BY <1>1, <1>2, PlusWord
  <2> QED
    BY <1>1, <1>13, <2>1 DEF value, lane_value, result, unit, imuC
<1> QED
  BY <1>8, <1>9, <1>10, <1>11, <1>12, <1>13 DEF reports_rd

\* Fields that a table can hold and operands that a word can.
DecodeOK ==
  f \in Instruction /\ at \in Word /\ i1 \in DOMAIN Operands /\ i2 \in DOMAIN Operands

\* Every state of the specification is an instruction with two operands.
LEMMA DecodeInvariant == ExecuteSpec => []DecodeOK
<1>1. Operands \in Seq(Word) /\ Len(Operands) \in Nat \ {0} /\ DOMAIN Operands = 1 .. Len(Operands)
  BY ExecuteAssumption
<1>2. ExecuteInit => DecodeOK
  BY <1>1, ExecuteAssumption DEF ExecuteInit, DecodeOK
<1>3. DecodeOK /\ [NextOperand1 \/ NextOperand2]_executeVars => DecodeOK'
  <2> SUFFICES ASSUME DecodeOK, [NextOperand1 \/ NextOperand2]_executeVars PROVE DecodeOK'
    OBVIOUS
  <2>1. \A k \in DOMAIN Operands : (k % Len(Operands)) + 1 \in DOMAIN Operands
    BY <1>1
  <2>2. CASE NextOperand1
    BY <2>1, <2>2 DEF DecodeOK, NextOperand1
  <2>3. CASE NextOperand2
    BY <2>1, <2>3 DEF DecodeOK, NextOperand2
  <2>4. CASE UNCHANGED executeVars
    BY <2>4 DEF DecodeOK, executeVars
  <2> QED
    BY <2>2, <2>3, <2>4
<1> QED
  BY <1>2, <1>3, PTL DEF ExecuteSpec

(***************************************************************************)
(* For every word width: an instruction that decoder.v does not support    *)
(* retires with no effect but the next program counter, and so it does in  *)
(* mycore::step, for every encoding that the model does not read leniently.*)
(***************************************************************************)
THEOREM RejectedAlwaysInert == ExecuteSpec => []RejectedInert
<1>1. DecodeOK => RejectedInert
  <2> SUFFICES ASSUME DecodeOK, ~supported(f)
               PROVE  LET inert == [next |-> plus(at, 4), commit |-> FALSE, data |-> 0, access |-> NoAccess]
                      IN /\ retires(f, at, v1, v2, v2) = inert
                         /\ Lenient(f) \/ model_retires(f, at, v1, v2, v2) = inert
    BY DEF RejectedInert
  <2> DEFINE inert == [next |-> plus(at, 4), commit |-> FALSE, data |-> 0, access |-> NoAccess]
  <2>1. unit(f) = <<"none", "none">> /\ reports_rd(f) = FALSE
    BY DEF unit, reports_rd, NoUnit
  <2>2. target(f, at, v1, v2) = plus(at, 4) /\ access(f, v1, v2) = NoAccess
    BY <2>1 DEF target, access
  <2>3. retires(f, at, v1, v2, v2) = inert
    BY <2>1, <2>2 DEF retires
  <2>4. ASSUME ~Lenient(f) PROVE model_retires(f, at, v1, v2, v2) = inert
    <3>1. f.opcode \in Opcodes /\ f.funct3 \in 0 .. 7
      BY DEF DecodeOK, Instruction
    <3>2. \/ f.opcode = "op" /\ f.funct7 = 32 /\ f.funct3 \notin {0, 5}
          \/ f.opcode = "load" /\ f.funct3 \notin LoadFunct3
          \/ f.opcode = "store" /\ store_bytes(f) = 0
          \/ f.opcode = "branch" /\ ~taken(f, v1, v2)
          \/ f.opcode \in {"misc_mem", "other"}
      BY <2>4, <3>1 DEF supported, Lenient, Opcodes, LoadFunct3, LoadOp, StoreOp, BranchOp, store_bytes, taken
    <3>3. write_rd(f) = FALSE /\ next_pc(f, at, v1, v2) = plus(at, 4)
      BY <3>2 DEF write_rd, next_pc
    <3>4. /\ ~(f.opcode = "load" /\ f.funct3 \in LoadFunct3)
          /\ ~(f.opcode = "store" /\ store_bytes(f) # 0)
      BY <3>2
    <3> QED
      BY <3>3, <3>4 DEF model_retires, retire_trace, NoAccess
  <2> QED
    BY <2>3, <2>4
<1> QED
  BY <1>1, DecodeInvariant, PTL

(***************************************************************************)
(* With the code's 32-bit words, for every table of instructions and every *)
(* pair of operands: what the RTL retires for a supported instruction      *)
(* (decoder.v, controller.v and the units of fu/) is what mycore::step     *)
(* traces, in the next program counter, whether and what it writes, and    *)
(* the access to memory.                                                   *)
(***************************************************************************)
THEOREM UnitsRetireTheModel == ASSUME Rv32 PROVE ExecuteSpec => []RetireAgrees
<1>1. DecodeOK => RetireAgrees
  <2> SUFFICES ASSUME DecodeOK, supported(f)
               PROVE  retires(f, at, v1, v2, v2) = model_retires(f, at, v1, v2, v2)
    BY DEF RetireAgrees
  <2> DEFINE m == model_retires(f, at, v1, v2, v2)
  <2>1. v1 \in Word /\ v2 \in Word
    BY ExecuteAssumption DEF DecodeOK, v1, v2
  <2>2. Case32(f, at, v1, v2)
    BY <2>1 DEF Case32, DecodeOK
  <2>3. reports_rd(f) = write_rd(f) /\ reports_rd(f) \in BOOLEAN
    BY <2>2, SameCommit DEF reports_rd
  <2>4. target(f, at, v1, v2) = next_pc(f, at, v1, v2)
    BY <2>2, SameTarget
  <2>5. access(f, v1, v2) = m.access
    BY <2>2, SameAccess
  <2>6. reports_rd(f) => value(f, at, v1, v2, v2) = result(f, at, v1, v2, v2)
    BY <2>2, SameData
  <2>7. m = [next |-> next_pc(f, at, v1, v2), commit |-> write_rd(f),
             data |-> IF write_rd(f) THEN IF f.rd = 0 THEN 0 ELSE result(f, at, v1, v2, v2) ELSE 0,
             access |-> m.access]
    <3> DEFINE t == retire_trace(at, 0, f, v2, plus(v1, f.imm), v2, result(f, at, v1, v2, v2))
    <3>1. t.commit_valid = write_rd(f) /\ t.rd_data = IF f.rd = 0 THEN 0 ELSE result(f, at, v1, v2, v2)
      BY TraceFlags
    <3>2. m = [next |-> next_pc(f, at, v1, v2), commit |-> t.commit_valid,
               data |-> IF t.commit_valid THEN t.rd_data ELSE 0,
               access |-> m.access]
      BY DEF model_retires
    <3> HIDE DEF t, m
    <3> QED
      BY <2>3, <3>1, <3>2
  <2> HIDE DEF m
  <2>8. retires(f, at, v1, v2, v2) = m
    BY <2>3, <2>4, <2>5, <2>6, <2>7 DEF retires
  <2> QED
    BY <2>8 DEF m
<1> QED
  BY <1>1, DecodeInvariant, PTL

\* Division towards zero.
LEMMA TruncatedDivision ==
  ASSUME NEW x \in Int, NEW y \in Int \ {0}
  PROVE  /\ quotient(x, y) \in Int /\ remainder(x, y) \in Int
         /\ x = quotient(x, y) * y + remainder(x, y)
         /\ magnitude(remainder(x, y)) < magnitude(y)
         /\ remainder(x, y) = 0 \/ (remainder(x, y) < 0) = (x < 0)
<1> DEFINE m == magnitude(x)
           n == magnitude(y)
           q == m \div n
           e == m % n
<1>1. m \in Nat /\ n \in Nat \ {0}
  BY DEF magnitude
<1>2. q \in Nat /\ e \in Nat /\ e < n /\ m = n * q + e
  BY <1>1
<1>3. (x < 0 => m = -x) /\ (x >= 0 => m = x) /\ (y < 0 => n = -y) /\ (y >= 0 => n = y)
  BY DEF magnitude
<1>4. quotient(x, y) = IF (x < 0) = (y < 0) THEN q ELSE -q
  BY DEF quotient
<1> HIDE DEF m, n, q, e
<1>5. remainder(x, y) = IF x < 0 THEN -e ELSE e
  <2>1. remainder(x, y) = x - y * quotient(x, y)
    BY DEF remainder
  <2>2. CASE x < 0 /\ y < 0
    <3>1. y * q = -(n * q)
      BY <1>1, <1>2, <1>3, <2>2
    <3> QED
      BY <1>1, <1>2, <1>3, <1>4, <2>1, <2>2, <3>1
  <2>3. CASE x < 0 /\ y >= 0
    <3>1. y * (-q) = -(n * q)
      BY <1>1, <1>2, <1>3, <2>3
    <3> QED
      BY <1>1, <1>2, <1>3, <1>4, <2>1, <2>3, <3>1
  <2>4. CASE x >= 0 /\ y < 0
    <3>1. y * (-q) = n * q
      BY <1>1, <1>2, <1>3, <2>4
    <3> QED
      BY <1>1, <1>2, <1>3, <1>4, <2>1, <2>4, <3>1
  <2>5. CASE x >= 0 /\ y >= 0
    <3>1. y * q = n * q
      BY <1>1, <1>2, <1>3, <2>5
    <3> QED
      BY <1>1, <1>2, <1>3, <1>4, <2>1, <2>5, <3>1
  <2> QED
    BY <2>2, <2>3, <2>4, <2>5
<1>6. quotient(x, y) \in Int /\ remainder(x, y) \in Int
  BY <1>2, <1>4, <1>5
<1>7. x = quotient(x, y) * y + remainder(x, y)
  <2>1. remainder(x, y) = x - y * quotient(x, y)
    BY DEF remainder
  <2>2. PICK k \in Int : k = quotient(x, y)
    BY <1>6
  <2>3. y * k = k * y /\ y * k \in Int
    OBVIOUS
  <2> QED
    BY <2>1, <2>2, <2>3
<1>8. magnitude(remainder(x, y)) = e
  BY <1>2, <1>5 DEF magnitude
<1> QED
  BY <1>2, <1>5, <1>6, <1>7, <1>8 DEF n

\* The word of a product and a remainder does not see a multiple of 2^32 in a factor.
same_word(y, Q, R, k) == word((Q + 4294967296 * k) * y + R) = word(Q * y + R)

\* A quotient that lost a multiple of the modulus still leaves the dividend's word.
LEMMA ReducedQuotient ==
  ASSUME Rv32, NEW y \in Int, NEW Q \in Int, NEW R \in Int, NEW k \in Int
  PROVE  same_word(y, Q, R, k)
<1> DEFINE lost(z, q) == word(z + 4294967296 * q) = word(z)
<1>1. \A z, q \in Int : lost(z, q)
  BY WordMod
<1>2. (Q + 4294967296 * k) * y = Q * y + 4294967296 * (k * y)
  OBVIOUS
<1>3. PICK p \in Int : p = Q * y + R
  OBVIOUS
<1>4. PICK t \in Int : t = k * y
  OBVIOUS
<1>5. (Q + 4294967296 * k) * y + R = p + 4294967296 * t
  BY <1>2, <1>3, <1>4
<1> HIDE DEF lost
<1>6. lost(p, t)
  BY <1>1
<1> QED
  BY <1>3, <1>5, <1>6 DEF lost, same_word

\* Quotient and remainder of the model satisfy the division law, signed and unsigned.
LEMMA DivisionObeysLaw ==
  ASSUME Rv32, NEW a \in Word, NEW b \in Word, b # 0
  PROVE  LET r == signed(rem_signed(a, b))
         IN /\ word(signed(div_signed(a, b)) * signed(b) + r) = a
            /\ magnitude(r) < magnitude(signed(b))
            /\ r = 0 \/ (r < 0) = (signed(a) < 0)
            /\ div_unsigned(a, b) * b + rem_unsigned(a, b) = a
            /\ rem_unsigned(a, b) < b
<1> DEFINE x == signed(a)
           y == signed(b)
           r == signed(rem_signed(a, b))
           d == signed(div_signed(a, b))
<1>1. a \in Nat /\ b \in Nat \ {0} /\ a <= 4294967295 /\ b <= 4294967295
  BY WordConstants
<1>2. /\ x \in Int /\ -2147483648 <= x /\ x <= 2147483647 /\ word(x) = a
      /\ y \in Int /\ -2147483648 <= y /\ y <= 2147483647
  BY SignedRange
<1>3. y # 0
  BY <1>1, SignedRange
<1>4. div_unsigned(a, b) * b + rem_unsigned(a, b) = a /\ rem_unsigned(a, b) < b
  BY <1>1 DEF div_unsigned, rem_unsigned
<1>5. ASSUME a = SignBit, b = AllOnes
      PROVE  word(d * y + r) = a /\ magnitude(r) < magnitude(y) /\ r = 0
  <2>1. a = 2147483648 /\ b = 4294967295
    BY <1>5, WordConstants
  <2>2. div_signed(a, b) = 2147483648 /\ rem_signed(a, b) = 0
    BY <1>5, <2>1 DEF div_signed, rem_signed
  <2>3. d = -2147483648 /\ y = -1 /\ r = 0
    BY <2>1, <2>2, WordConstants DEF signed
  <2>4. d * y + r = 2147483648
    BY <2>3
  <2> QED
    BY <2>1, <2>3, <2>4, WordMod DEF magnitude
<1>6. ASSUME ~(a = SignBit /\ b = AllOnes)
      PROVE  /\ word(d * y + r) = a /\ magnitude(r) < magnitude(y)
             /\ r = 0 \/ (r < 0) = (x < 0)
  <2>1. div_signed(a, b) = word(quotient(x, y)) /\ rem_signed(a, b) = word(remainder(x, y))
    BY <1>1, <1>6 DEF div_signed, rem_signed
  <2>2. PICK Q \in Int, R \in Int : Q = quotient(x, y) /\ R = remainder(x, y)
    <3> HIDE DEF x, y
    <3>1. x \in Int /\ y \in Int \ {0}
      BY <1>2, <1>3
    <3> QED
      BY <3>1, TruncatedDivision
  <2>0. Q * y + R = x /\ magnitude(R) < magnitude(y) /\ (R = 0 \/ (R < 0) = (x < 0))
    <3> HIDE DEF x, y
    <3>1. x \in Int /\ y \in Int \ {0}
      BY <1>2, <1>3
    <3> QED
      BY <2>2, <3>1, TruncatedDivision
  <2> HIDE DEF x, y
  <2>3. -2147483648 <= R /\ R <= 2147483647
    BY <1>2, <2>0 DEF magnitude
  <2>4. r = R
    BY <2>1, <2>2, <2>3, SignedWord
  <2>5. PICK k \in Int : d = Q + 4294967296 * k
    <3>1. word(Q) \in Word /\ word(Q) = Q - 4294967296 * (Q \div 4294967296)
      BY WordMod
    <3>2. \A w \in Word : signed(w) = w \/ signed(w) = w - 4294967296
      BY WordConstants, SignedRange
    <3>3. d = word(Q) \/ d = word(Q) - 4294967296
      BY <2>1, <2>2, <3>1, <3>2
    <3> HIDE DEF d
    <3>4. PICK e \in Int : word(Q) = Q + 4294967296 * e
      BY <3>1
    <3>5. CASE d = word(Q)
      BY <3>4, <3>5
    <3>6. CASE d = word(Q) - 4294967296
      <4>1. PICK k \in Int : k = e - 1
        OBVIOUS
      <4>2. d = Q + 4294967296 * k
        BY <3>4, <3>6, <4>1
      <4> QED
        BY <4>2
    <3> QED
      BY <3>3, <3>5, <3>6
  <2> HIDE DEF d, r
  <2>6. word(d * y + R) = word(x)
    <3>1. y \in Int
      BY <1>2
    <3>2. same_word(y, Q, R, k)
      BY <3>1, ReducedQuotient
    <3>3. word(Q * y + R) = word(x)
      BY <2>0
    <3> QED
      BY <2>5, <3>2, <3>3 DEF same_word
  <2>7. word(d * y + r) = a
    BY <1>2, <2>4, <2>6
  <2>8. magnitude(r) < magnitude(y) /\ (r = 0 \/ (r < 0) = (x < 0))
    BY <2>0, <2>4
  <2> QED
    BY <2>7, <2>8
<1> QED
  BY <1>4, <1>5, <1>6

\* The upper halves of the model's products complete the lower half.
LEMMA ProductObeysLaw ==
  ASSUME Rv32, NEW a \in Word, NEW b \in Word
  PROVE  LET negative(v, other) == IF v >= SignBit THEN other ELSE 0
         IN /\ mulhu(a, b) * 2^XLEN + word(a * b) = a * b
            /\ mulhsu(a, b) = word(mulhu(a, b) - negative(a, b))
            /\ mulh(a, b) = word(mulhsu(a, b) - negative(b, a))
<1> DEFINE negative(v, other) == IF v >= SignBit THEN other ELSE 0
<1>1. a \in Nat /\ b \in Nat /\ a < 2^XLEN /\ b < 2^XLEN /\ 2^XLEN \in Nat \ {0}
  BY WordConstants
<1>2. PICK n \in {0, 1} : signed(a) = a - 4294967296 * n /\ n = IF a >= SignBit THEN 1 ELSE 0
  BY WordConstants, SignedRange
<1>3. PICK m \in {0, 1} : signed(b) = b - 4294967296 * m /\ m = IF b >= SignBit THEN 1 ELSE 0
  BY WordConstants, SignedRange
<1>4. \A z \in Int : high(z) = (z \div 4294967296) % 4294967296
  BY HighWord, WordConstants
<1>5. \A z, q \in Int : (z + 4294967296 * q) \div 4294967296 = (z \div 4294967296) + q
  BY UpperShifted
<1>6. PICK p \in Nat : p = (a * b) \div 4294967296 /\ p < 4294967296
  BY <1>1, ProductBound, WordConstants
<1>7. mulhu(a, b) = p
  <2>1. a * b \in Int
    BY <1>1
  <2>2. high(a * b) = ((a * b) \div 4294967296) % 4294967296
    BY <1>4, <2>1
  <2>3. p % 4294967296 = p
    BY <1>6
  <2> QED
    BY <1>6, <2>2, <2>3 DEF mulhu
<1>8. mulhu(a, b) * 2^XLEN + word(a * b) = a * b
  <2>1. PICK z \in Nat : z = a * b
    BY <1>1
  <2>2. p * 4294967296 + (z % 4294967296) = z
    BY <1>6, <2>1
  <2> QED
    BY <1>7, <2>1, <2>2, WordConstants, WordMod
<1>9. mulhsu(a, b) = word(p - n * b)
  <2>1. signed(a) * b = a * b + 4294967296 * (-(n * b)) /\ a * b \in Int /\ -(n * b) \in Int
    BY <1>1, <1>2
  <2>2. (signed(a) * b) \div 4294967296 = p - n * b /\ signed(a) * b \in Int
    BY <1>1, <1>2, <1>5, <1>6, <2>1
  <2>3. high(signed(a) * b) = ((signed(a) * b) \div 4294967296) % 4294967296
    BY <1>4, <2>2
  <2>4. word(p - n * b) = (p - n * b) % 4294967296
    BY <1>1, WordMod
  <2> QED
    BY <2>2, <2>3, <2>4 DEF mulhsu
<1>10. mulh(a, b) = word(mulhsu(a, b) - m * a)
  <2>1. PICK s \in Int : s = (signed(a) * b) \div 4294967296
    BY <1>1, <1>2
  <2>2. signed(a) * signed(b) = signed(a) * b + 4294967296 * (-(m * signed(a)))
    BY <1>1, <1>2, <1>3
  <2>3. signed(a) * b \in Int /\ -(m * signed(a)) \in Int /\ signed(a) * signed(b) \in Int
    BY <1>1, <1>2, <1>3
  <2>4. (signed(a) * signed(b)) \div 4294967296 = s - m * signed(a)
    BY <1>1, <1>2, <1>5, <2>1, <2>2, <2>3
  <2>5. mulh(a, b) = (s - m * signed(a)) % 4294967296
    BY <1>4, <2>3, <2>4 DEF mulh
  <2>6. mulhsu(a, b) = s % 4294967296
    BY <1>4, <2>1, <2>3 DEF mulhsu
  <2>7. (s - m * signed(a)) % 4294967296 = ((s % 4294967296) - m * a) % 4294967296
    <3>1. CASE m = 0
      BY <1>1, <1>2, <3>1
    <3>2. CASE m = 1
      BY <1>1, <1>2, <3>2
    <3> QED
      BY <3>1, <3>2
  <2>8. word((s % 4294967296) - m * a) = ((s % 4294967296) - m * a) % 4294967296
    BY <1>1, WordMod
  <2> QED
    BY <2>5, <2>6, <2>7, <2>8
<1>11. negative(a, b) = n * b /\ negative(b, a) = m * a
  BY <1>1, <1>2, <1>3
<1> HIDE DEF negative
<1> QED
  BY <1>7, <1>8, <1>9, <1>10, <1>11 DEF negative

(***************************************************************************)
(* With the code's 32-bit words and any operands: the quotients and        *)
(* remainders of mycore::step by a divisor other than 0 satisfy the law of *)
(* division, the one quotient that overflows included, and its four        *)
(* products are the two halves of one product, signed and unsigned.        *)
(***************************************************************************)
THEOREM ModelArithmetic == ASSUME Rv32 PROVE ExecuteSpec => []ArithmeticLaws
<1>1. DecodeOK => ArithmeticLaws
  <2> SUFFICES ASSUME DecodeOK PROVE DivisionLaw /\ ProductLaw
    BY DEF ArithmeticLaws
  <2>1. v1 \in Word /\ v2 \in Word
    BY ExecuteAssumption DEF DecodeOK, v1, v2
  <2>2. DivisionLaw
    BY <2>1, DivisionObeysLaw DEF DivisionLaw
  <2>3. ProductLaw
    BY <2>1, ProductObeysLaw DEF ProductLaw
  <2> QED
    BY <2>2, <2>3
<1> QED
  BY <1>1, DecodeInvariant, PTL

-----------------------------------------------------------------------------
(***************************************************************************)
(* Immediates.  A field is a fold over the positions of its ones, in an    *)
(* order left open; it is the sum of its bits, each with its weight.       *)
(***************************************************************************)

\* The weight a set of positions gives to position i, to four positions, and to all.
part(w, s, i) == IF i \in s THEN w[i] ELSE 0
row(w, s, i) == part(w, s, i) + part(w, s, i + 1) + part(w, s, i + 2) + part(w, s, i + 3)
total(w, s) == row(w, s, 0) + row(w, s, 4) + row(w, s, 8) + row(w, s, 12)
                 + row(w, s, 16) + row(w, s, 20) + row(w, s, 24) + row(w, s, 28)

\* A position of the set can be counted apart.
LEMMA TotalRemove ==
  ASSUME NEW w \in [0 .. 31 -> Int], NEW s \in SUBSET (0 .. 31), NEW x \in s
  PROVE  total(w, s) = w[x] + total(w, s \ {x})
<1> DEFINE t == s \ {x}
<1>1. x \in 0 .. 31 /\ w[x] \in Int
  OBVIOUS
<1>2. \A i \in 0 .. 31 : /\ part(w, t, i) \in Int
                         /\ part(w, s, i) = part(w, t, i) + (IF i = x THEN w[x] ELSE 0)
  BY DEF part
<1> HIDE DEF t
<1>3. ASSUME NEW i \in 0 .. 28
      PROVE  /\ row(w, t, i) \in Int
             /\ row(w, s, i) = row(w, t, i) + (IF i <= x /\ x <= i + 3 THEN w[x] ELSE 0)
  <2>1. i + 1 \in 0 .. 31 /\ i + 2 \in 0 .. 31 /\ i + 3 \in 0 .. 31
    OBVIOUS
  <2> DEFINE u == part(w, t, i)
             u1 == part(w, t, i + 1)
             u2 == part(w, t, i + 2)
             u3 == part(w, t, i + 3)
  <2>2. u \in Int /\ u1 \in Int /\ u2 \in Int /\ u3 \in Int
    BY <1>2, <2>1
  <2>3. /\ part(w, s, i) = u + (IF i = x THEN w[x] ELSE 0)
        /\ part(w, s, i + 1) = u1 + (IF i + 1 = x THEN w[x] ELSE 0)
        /\ part(w, s, i + 2) = u2 + (IF i + 2 = x THEN w[x] ELSE 0)
        /\ part(w, s, i + 3) = u3 + (IF i + 3 = x THEN w[x] ELSE 0)
    BY <1>2, <2>1
  <2>4. row(w, t, i) = u + u1 + u2 + u3
    BY DEF row
  <2> HIDE DEF u, u1, u2, u3
  <2> QED
    BY <1>1, <2>2, <2>3, <2>4 DEF row
<1>4. /\ row(w, t, 0) \in Int /\ row(w, t, 4) \in Int /\ row(w, t, 8) \in Int
      /\ row(w, t, 12) \in Int /\ row(w, t, 16) \in Int /\ row(w, t, 20) \in Int
      /\ row(w, t, 24) \in Int /\ row(w, t, 28) \in Int
  BY <1>3
<1>5. /\ row(w, s, 0) = row(w, t, 0) + (IF 0 <= x /\ x <= 3 THEN w[x] ELSE 0)
      /\ row(w, s, 4) = row(w, t, 4) + (IF 4 <= x /\ x <= 7 THEN w[x] ELSE 0)
      /\ row(w, s, 8) = row(w, t, 8) + (IF 8 <= x /\ x <= 11 THEN w[x] ELSE 0)
      /\ row(w, s, 12) = row(w, t, 12) + (IF 12 <= x /\ x <= 15 THEN w[x] ELSE 0)
      /\ row(w, s, 16) = row(w, t, 16) + (IF 16 <= x /\ x <= 19 THEN w[x] ELSE 0)
      /\ row(w, s, 20) = row(w, t, 20) + (IF 20 <= x /\ x <= 23 THEN w[x] ELSE 0)
      /\ row(w, s, 24) = row(w, t, 24) + (IF 24 <= x /\ x <= 27 THEN w[x] ELSE 0)
      /\ row(w, s, 28) = row(w, t, 28) + (IF 28 <= x /\ x <= 31 THEN w[x] ELSE 0)
  BY <1>3
<1>6. total(w, s) = w[x] + total(w, t)
  BY <1>1, <1>4, <1>5 DEF total
<1> QED
  BY <1>6 DEF t

\* Every fold over a set of positions adds their weights, in whatever order
\* the positions are chosen.
LEMMA FoldIsTotal ==
  ASSUME NEW w \in [0 .. 31 -> Int], NEW S \in SUBSET (0 .. 31), NEW it,
         it = [s \in SUBSET S |-> IF s = {} THEN 0
                 ELSE w[CHOOSE x \in s : TRUE] + it[s \ {CHOOSE x \in s : TRUE}]]
  PROVE  it[S] = total(w, S)
<1> DEFINE holds(n) == \A s \in SUBSET S : Cardinality(s) <= n => it[s] = total(w, s)
<1>1. IsFiniteSet(S) /\ Cardinality(S) <= 32 /\ Cardinality(S) \in Nat
  <2>1. PICK n \in Nat : n = 31
    OBVIOUS
  <2>2. S \in SUBSET Nat /\ \A s \in S : s <= n
    BY <2>1
  <2>3. IsFiniteSet(S) /\ Cardinality(S) <= n + 1
    BY <2>2, FS_BoundedSetOfNaturals
  <2> QED
    BY <2>1, <2>3, FS_CardinalityType
<1>2. \A s \in SUBSET S : IsFiniteSet(s) /\ Cardinality(s) \in Nat
  BY <1>1, FS_Subset, FS_CardinalityType
<1>3. it[{}] = 0 /\ total(w, {}) = 0
  <2>1. it[{}] = 0
    OBVIOUS
  <2>2. \A i \in Int : part(w, {}, i) = 0
    BY DEF part
  <2>3. \A i \in Int : row(w, {}, i) = 0
    BY <2>2 DEF row
  <2> QED
    BY <2>1, <2>3 DEF total
<1>4. holds(0)
  <2> SUFFICES ASSUME NEW s \in SUBSET S, Cardinality(s) <= 0 PROVE s = {}
    BY <1>3
  <2> QED
    BY <1>2, FS_EmptySet
<1>5. ASSUME NEW n \in Nat, holds(n) PROVE holds(n + 1)
  <2> SUFFICES ASSUME NEW s \in SUBSET S, Cardinality(s) <= n + 1
               PROVE  it[s] = total(w, s)
    OBVIOUS
  <2>1. CASE s = {}
    BY <1>3, <2>1
  <2>2. CASE s # {}
    <3> DEFINE x == CHOOSE e \in s : TRUE
    <3>1. x \in s
      BY <2>2
    <3>2. it[s] = w[x] + it[s \ {x}]
      BY <2>2
    <3> HIDE DEF x
    <3>3. Cardinality(s \ {x}) <= n
      BY <1>2, <3>1, FS_RemoveElement
    <3>4. it[s \ {x}] = total(w, s \ {x})
      BY <1>5, <3>3
    <3>5. s \in SUBSET (0 .. 31)
      OBVIOUS
    <3>6. total(w, s) = w[x] + total(w, s \ {x})
      BY <3>1, <3>5, TotalRemove
    <3> QED
      BY <3>2, <3>4, <3>6
  <2> QED
    BY <2>1, <2>2
<1> HIDE DEF holds
<1>6. ASSUME NEW n \in Nat, holds(n) PROVE holds(n + 4)
  <2>1. holds(n + 1)
    BY <1>5, <1>6
  <2>2. holds((n + 1) + 1)
    BY <1>5, <2>1
  <2>3. holds((n + 2) + 1)
    BY <1>5, <2>2
  <2>4. holds((n + 3) + 1)
    BY <1>5, <2>3
  <2> QED
    BY <2>4
<1>7. holds(4)
  BY <1>6, <1>4
<1>8. holds(8)
  BY <1>6, <1>7
<1>9. holds(12)
  BY <1>6, <1>8
<1>10. holds(16)
  BY <1>6, <1>9
<1>11. holds(20)
  BY <1>6, <1>10
<1>12. holds(24)
  BY <1>6, <1>11
<1>13. holds(28)
  BY <1>6, <1>12
<1>14. holds(32)
  BY <1>6, <1>13
<1> QED
  BY <1>1, <1>14 DEF holds

\* Two to the power of a position.
LEMMA PowerNat == \A t \in 0 .. 31 : 2^t \in Nat
  BY PowerStep

\* The fold of a field is the sum of the weights of its bits.
LEMMA FieldTotal ==
  ASSUME NEW B, NEW hi \in Nat, NEW lo \in Nat, hi <= 31, lo <= 31
  PROVE  field(B, hi, lo) =
           total([i \in 0 .. 31 |-> IF i \in lo .. hi THEN 2^(i - lo) ELSE 0], B \cap lo .. hi)
<1> DEFINE w == [i \in 0 .. 31 |-> IF i \in lo .. hi THEN 2^(i - lo) ELSE 0]
           S == B \cap lo .. hi
           body(it, s) == IF s = {} THEN 0
                          ELSE 2^((CHOOSE x \in s : TRUE) - lo) + it[s \ {CHOOSE x \in s : TRUE}]
           it == CHOOSE it : it = [s \in SUBSET S |-> body(it, s)]
           g == [s \in SUBSET S |-> total(w, s)]
<1>1. field(B, hi, lo) = it[S]
  BY DEF field, MapThenSumSet, MapThenFoldSet
<1>2. w \in [0 .. 31 -> Int] /\ S \in SUBSET (0 .. 31)
  BY PowerNat
<1> HIDE DEF w
<1>3. \A x \in S : w[x] = 2^(x - lo)
  BY DEF w
<1>4. g = [s \in SUBSET S |-> body(g, s)]
  <2> SUFFICES ASSUME NEW s \in SUBSET S PROVE total(w, s) = body(g, s)
    BY Zenon
  <2>1. CASE s = {}
    BY <2>1 DEF total, row, part
  <2>2. CASE s # {}
    <3> DEFINE x == CHOOSE e \in s : TRUE
    <3>1. x \in s
      BY <2>2
    <3>2. body(g, s) = 2^(x - lo) + g[s \ {x}]
      BY <2>2
    <3> HIDE DEF x, body
    <3>3. s \in SUBSET (0 .. 31) /\ x \in S /\ g[s \ {x}] = total(w, s \ {x})
      BY <1>2, <3>1
    <3> QED
      BY <1>2, <1>3, <3>1, <3>2, <3>3, TotalRemove
  <2> QED
    BY <2>1, <2>2
<1> HIDE DEF g
<1>5. it = [s \in SUBSET S |-> body(it, s)]
  <2> HIDE DEF body
  <2> QED
    BY <1>4
<1> HIDE DEF it, S
<1>6. it = [s \in SUBSET S |-> IF s = {} THEN 0
               ELSE w[CHOOSE x \in s : TRUE] + it[s \ {CHOOSE x \in s : TRUE}]]
  BY <1>3, <1>5
<1>7. it[S] = total(w, S)
  BY <1>2, <1>6, FoldIsTotal
<1> QED
  BY <1>1, <1>7 DEF w, S

\* A bit of a word as a number, what it adds to a field, and four and all of them.
bit(B, i) == IF i \in B THEN 1 ELSE 0
digit(B, hi, lo, i) == IF lo <= i /\ i <= hi THEN 2^(i - lo) * bit(B, i) ELSE 0
digits(B, hi, lo, i) == digit(B, hi, lo, i) + digit(B, hi, lo, i + 1)
                          + digit(B, hi, lo, i + 2) + digit(B, hi, lo, i + 3)

\* A field is the sum of its bits, each with its weight.
LEMMA FieldDigits ==
  ASSUME NEW B, NEW hi \in Nat, NEW lo \in Nat, hi <= 31, lo <= 31
  PROVE  field(B, hi, lo) =
           digits(B, hi, lo, 0) + digits(B, hi, lo, 4) + digits(B, hi, lo, 8)
             + digits(B, hi, lo, 12) + digits(B, hi, lo, 16) + digits(B, hi, lo, 20)
             + digits(B, hi, lo, 24) + digits(B, hi, lo, 28)
<1> DEFINE w == [i \in 0 .. 31 |-> IF i \in lo .. hi THEN 2^(i - lo) ELSE 0]
           S == B \cap lo .. hi
<1>1. ASSUME NEW i \in 0 .. 31 PROVE part(w, S, i) = digit(B, hi, lo, i)
  <2>1. CASE lo <= i /\ i <= hi
    <3>0. PICK t \in 0 .. 31 : t = i - lo
      BY <2>1
    <3>1. PICK p \in Nat : p = 2^(i - lo)
      BY <3>0, PowerNat
    <3>2. digit(B, hi, lo, i) = p * bit(B, i)
      BY <2>1, <3>1 DEF digit
    <3>3. CASE i \in B
      <4>1. bit(B, i) = 1 /\ i \in S /\ w[i] = p
        BY <2>1, <3>1, <3>3 DEF bit
      <4> QED
        BY <3>2, <4>1 DEF part
    <3>4. CASE i \notin B
      BY <3>2, <3>4 DEF part, bit
    <3> QED
      BY <3>3, <3>4
  <2>2. CASE ~(lo <= i /\ i <= hi)
    BY <2>2 DEF part, digit
  <2> QED
    BY <2>1, <2>2
<1>2. field(B, hi, lo) = total(w, S)
  BY FieldTotal
<1> HIDE DEF w, S
<1>3. \A i \in 0 .. 28 : row(w, S, i) = digits(B, hi, lo, i)
  <2> SUFFICES ASSUME NEW i \in 0 .. 28 PROVE row(w, S, i) = digits(B, hi, lo, i)
    OBVIOUS
  <2>1. i + 1 \in 0 .. 31 /\ i + 2 \in 0 .. 31 /\ i + 3 \in 0 .. 31
    OBVIOUS
  <2> QED
    BY <1>1, <2>1 DEF row, digits
<1>4. /\ row(w, S, 0) = digits(B, hi, lo, 0) /\ row(w, S, 4) = digits(B, hi, lo, 4)
      /\ row(w, S, 8) = digits(B, hi, lo, 8) /\ row(w, S, 12) = digits(B, hi, lo, 12)
      /\ row(w, S, 16) = digits(B, hi, lo, 16) /\ row(w, S, 20) = digits(B, hi, lo, 20)
      /\ row(w, S, 24) = digits(B, hi, lo, 24) /\ row(w, S, 28) = digits(B, hi, lo, 28)
  BY <1>3
<1> QED
  BY <1>2, <1>4 DEF total

\* Four bits, and the three below the sign, as numbers.
nibble(B, i) == bit(B, i) + 2 * bit(B, i + 1) + 4 * bit(B, i + 2) + 8 * bit(B, i + 3)

\* A bit is 0 or 1.
LEMMA BitRange == ASSUME NEW B, NEW i PROVE bit(B, i) \in Int /\ 0 <= bit(B, i) /\ bit(B, i) <= 1
  BY DEF bit

\* Bits 31 to 20 of a word.
LEMMA Field_31_20 ==
  ASSUME NEW B
  PROVE  field(B, 31, 20) =
           bit(B, 20) + 2 * bit(B, 21) + 4 * bit(B, 22) + 8 * bit(B, 23)
             + 16 * bit(B, 24) + 32 * bit(B, 25) + 64 * bit(B, 26) + 128 * bit(B, 27)
             + 256 * bit(B, 28) + 512 * bit(B, 29) + 1024 * bit(B, 30) + 2048 * bit(B, 31)
<1>1. field(B, 31, 20) =
        digits(B, 31, 20, 0) + digits(B, 31, 20, 4) + digits(B, 31, 20, 8)
          + digits(B, 31, 20, 12) + digits(B, 31, 20, 16) + digits(B, 31, 20, 20)
          + digits(B, 31, 20, 24) + digits(B, 31, 20, 28)
  BY FieldDigits
<1> QED
  BY <1>1, BitRange DEF digits, digit

\* Bits 31 to 25 of a word.
LEMMA Field_31_25 ==
  ASSUME NEW B
  PROVE  field(B, 31, 25) =
           bit(B, 25) + 2 * bit(B, 26) + 4 * bit(B, 27) + 8 * bit(B, 28)
             + 16 * bit(B, 29) + 32 * bit(B, 30) + 64 * bit(B, 31)
<1>1. field(B, 31, 25) =
        digits(B, 31, 25, 0) + digits(B, 31, 25, 4) + digits(B, 31, 25, 8)
          + digits(B, 31, 25, 12) + digits(B, 31, 25, 16) + digits(B, 31, 25, 20)
          + digits(B, 31, 25, 24) + digits(B, 31, 25, 28)
  BY FieldDigits
<1> QED
  BY <1>1, BitRange DEF digits, digit

\* Bits 11 to 7 of a word.
LEMMA Field_11_7 ==
  ASSUME NEW B
  PROVE  field(B, 11, 7) =
           bit(B, 7) + 2 * bit(B, 8) + 4 * bit(B, 9) + 8 * bit(B, 10)
             + 16 * bit(B, 11)
<1>1. field(B, 11, 7) =
        digits(B, 11, 7, 0) + digits(B, 11, 7, 4) + digits(B, 11, 7, 8)
          + digits(B, 11, 7, 12) + digits(B, 11, 7, 16) + digits(B, 11, 7, 20)
          + digits(B, 11, 7, 24) + digits(B, 11, 7, 28)
  BY FieldDigits
<1> QED
  BY <1>1, BitRange DEF digits, digit

\* Bit 7 of a word.
LEMMA Field_7_7 ==
  ASSUME NEW B
  PROVE  field(B, 7, 7) =
           bit(B, 7)
<1>1. field(B, 7, 7) =
        digits(B, 7, 7, 0) + digits(B, 7, 7, 4) + digits(B, 7, 7, 8)
          + digits(B, 7, 7, 12) + digits(B, 7, 7, 16) + digits(B, 7, 7, 20)
          + digits(B, 7, 7, 24) + digits(B, 7, 7, 28)
  BY FieldDigits
<1> QED
  BY <1>1, BitRange DEF digits, digit

\* Bit 31 of a word.
LEMMA Field_31_31 ==
  ASSUME NEW B
  PROVE  field(B, 31, 31) =
           bit(B, 31)
<1>1. field(B, 31, 31) =
        digits(B, 31, 31, 0) + digits(B, 31, 31, 4) + digits(B, 31, 31, 8)
          + digits(B, 31, 31, 12) + digits(B, 31, 31, 16) + digits(B, 31, 31, 20)
          + digits(B, 31, 31, 24) + digits(B, 31, 31, 28)
  BY FieldDigits
<1> QED
  BY <1>1, BitRange DEF digits, digit

\* Bits 30 to 25 of a word.
LEMMA Field_30_25 ==
  ASSUME NEW B
  PROVE  field(B, 30, 25) =
           bit(B, 25) + 2 * bit(B, 26) + 4 * bit(B, 27) + 8 * bit(B, 28)
             + 16 * bit(B, 29) + 32 * bit(B, 30)
<1>1. field(B, 30, 25) =
        digits(B, 30, 25, 0) + digits(B, 30, 25, 4) + digits(B, 30, 25, 8)
          + digits(B, 30, 25, 12) + digits(B, 30, 25, 16) + digits(B, 30, 25, 20)
          + digits(B, 30, 25, 24) + digits(B, 30, 25, 28)
  BY FieldDigits
<1> QED
  BY <1>1, BitRange DEF digits, digit

\* Bits 11 to 8 of a word.
LEMMA Field_11_8 ==
  ASSUME NEW B
  PROVE  field(B, 11, 8) =
           bit(B, 8) + 2 * bit(B, 9) + 4 * bit(B, 10) + 8 * bit(B, 11)
<1>1. field(B, 11, 8) =
        digits(B, 11, 8, 0) + digits(B, 11, 8, 4) + digits(B, 11, 8, 8)
          + digits(B, 11, 8, 12) + digits(B, 11, 8, 16) + digits(B, 11, 8, 20)
          + digits(B, 11, 8, 24) + digits(B, 11, 8, 28)
  BY FieldDigits
<1> QED
  BY <1>1, BitRange DEF digits, digit

\* Bits 19 to 12 of a word.
LEMMA Field_19_12 ==
  ASSUME NEW B
  PROVE  field(B, 19, 12) =
           bit(B, 12) + 2 * bit(B, 13) + 4 * bit(B, 14) + 8 * bit(B, 15)
             + 16 * bit(B, 16) + 32 * bit(B, 17) + 64 * bit(B, 18) + 128 * bit(B, 19)
<1>1. field(B, 19, 12) =
        digits(B, 19, 12, 0) + digits(B, 19, 12, 4) + digits(B, 19, 12, 8)
          + digits(B, 19, 12, 12) + digits(B, 19, 12, 16) + digits(B, 19, 12, 20)
          + digits(B, 19, 12, 24) + digits(B, 19, 12, 28)
  BY FieldDigits
<1> QED
  BY <1>1, BitRange DEF digits, digit

\* Bit 20 of a word.
LEMMA Field_20_20 ==
  ASSUME NEW B
  PROVE  field(B, 20, 20) =
           bit(B, 20)
<1>1. field(B, 20, 20) =
        digits(B, 20, 20, 0) + digits(B, 20, 20, 4) + digits(B, 20, 20, 8)
          + digits(B, 20, 20, 12) + digits(B, 20, 20, 16) + digits(B, 20, 20, 20)
          + digits(B, 20, 20, 24) + digits(B, 20, 20, 28)
  BY FieldDigits
<1> QED
  BY <1>1, BitRange DEF digits, digit

\* Bits 30 to 21 of a word.
LEMMA Field_30_21 ==
  ASSUME NEW B
  PROVE  field(B, 30, 21) =
           bit(B, 21) + 2 * bit(B, 22) + 4 * bit(B, 23) + 8 * bit(B, 24)
             + 16 * bit(B, 25) + 32 * bit(B, 26) + 64 * bit(B, 27) + 128 * bit(B, 28)
             + 256 * bit(B, 29) + 512 * bit(B, 30)
<1>1. field(B, 30, 21) =
        digits(B, 30, 21, 0) + digits(B, 30, 21, 4) + digits(B, 30, 21, 8)
          + digits(B, 30, 21, 12) + digits(B, 30, 21, 16) + digits(B, 30, 21, 20)
          + digits(B, 30, 21, 24) + digits(B, 30, 21, 28)
  BY FieldDigits
<1> QED
  BY <1>1, BitRange DEF digits, digit

\* Bits 31 to 12 of a word.
LEMMA Field_31_12 ==
  ASSUME NEW B
  PROVE  field(B, 31, 12) =
           nibble(B, 12)
             + 16 * nibble(B, 16)
             + 256 * nibble(B, 20)
             + 4096 * nibble(B, 24)
             + 65536 * nibble(B, 28)
<1>1. /\ \A i \in 0 .. 31 : bit(B, i) \in Int
      /\ \A i \in 0 .. 28 : nibble(B, i) \in Int
  BY BitRange DEF nibble
<1>2. digits(B, 31, 12, 0) = 0
  BY <1>1 DEF digits, digit, nibble
<1>3. digits(B, 31, 12, 4) = 0
  BY <1>1 DEF digits, digit, nibble
<1>4. digits(B, 31, 12, 8) = 0
  BY <1>1 DEF digits, digit, nibble
<1>5. digits(B, 31, 12, 12) = nibble(B, 12)
  BY <1>1 DEF digits, digit, nibble
<1>6. digits(B, 31, 12, 16) = 16 * nibble(B, 16)
  BY <1>1 DEF digits, digit, nibble
<1>7. digits(B, 31, 12, 20) = 256 * nibble(B, 20)
  BY <1>1 DEF digits, digit, nibble
<1>8. digits(B, 31, 12, 24) = 4096 * nibble(B, 24)
  BY <1>1 DEF digits, digit, nibble
<1>9. digits(B, 31, 12, 28) = 65536 * nibble(B, 28)
  BY <1>1 DEF digits, digit, nibble
<1>10. field(B, 31, 12) =
         digits(B, 31, 12, 0) + digits(B, 31, 12, 4) + digits(B, 31, 12, 8)
           + digits(B, 31, 12, 12) + digits(B, 31, 12, 16) + digits(B, 31, 12, 20)
           + digits(B, 31, 12, 24) + digits(B, 31, 12, 28)
  BY FieldDigits
<1>11. field(B, 31, 12) =
         0 + 0 + 0 + nibble(B, 12) + 16 * nibble(B, 16) + 256 * nibble(B, 20)
           + 4096 * nibble(B, 24) + 65536 * nibble(B, 28)
  BY <1>2, <1>3, <1>4, <1>5, <1>6, <1>7, <1>8, <1>9, <1>10
<1>12. nibble(B, 12) \in Int
  BY <1>1
<1> QED
  BY <1>11, <1>12

\* Bits 30 to 0 of a word.
LEMMA Field_30_0 ==
  ASSUME NEW B
  PROVE  field(B, 30, 0) =
           nibble(B, 0)
             + 16 * nibble(B, 4)
             + 256 * nibble(B, 8)
             + 4096 * nibble(B, 12)
             + 65536 * nibble(B, 16)
             + 1048576 * nibble(B, 20)
             + 16777216 * nibble(B, 24)
             + 268435456 * (bit(B, 28) + 2 * bit(B, 29) + 4 * bit(B, 30))
<1>1. /\ \A i \in 0 .. 31 : bit(B, i) \in Int
      /\ \A i \in 0 .. 28 : nibble(B, i) \in Int
  BY BitRange DEF nibble
<1>2. digits(B, 30, 0, 0) = nibble(B, 0)
  BY <1>1 DEF digits, digit, nibble
<1>3. digits(B, 30, 0, 4) = 16 * nibble(B, 4)
  BY <1>1 DEF digits, digit, nibble
<1>4. digits(B, 30, 0, 8) = 256 * nibble(B, 8)
  BY <1>1 DEF digits, digit, nibble
<1>5. digits(B, 30, 0, 12) = 4096 * nibble(B, 12)
  BY <1>1 DEF digits, digit, nibble
<1>6. digits(B, 30, 0, 16) = 65536 * nibble(B, 16)
  BY <1>1 DEF digits, digit, nibble
<1>7. digits(B, 30, 0, 20) = 1048576 * nibble(B, 20)
  BY <1>1 DEF digits, digit, nibble
<1>8. digits(B, 30, 0, 24) = 16777216 * nibble(B, 24)
  BY <1>1 DEF digits, digit, nibble
<1>9. digits(B, 30, 0, 28) = 268435456 * (bit(B, 28) + 2 * bit(B, 29) + 4 * bit(B, 30))
  BY <1>1 DEF digits, digit, nibble
<1>10. field(B, 30, 0) =
         digits(B, 30, 0, 0) + digits(B, 30, 0, 4) + digits(B, 30, 0, 8)
           + digits(B, 30, 0, 12) + digits(B, 30, 0, 16) + digits(B, 30, 0, 20)
           + digits(B, 30, 0, 24) + digits(B, 30, 0, 28)
  BY FieldDigits
<1> QED
  BY <1>2, <1>3, <1>4, <1>5, <1>6, <1>7, <1>8, <1>9, <1>10

\* Bits of the immediate the decoder reads.
LEMMA DecodedBit ==
  ASSUME NEW fmt, NEW B \in SUBSET Nat, NEW i \in Nat, i <= 31
  PROVE  bit(decoder_imm(fmt, B), i) =
           IF wire(fmt, i) \in Nat THEN bit(B, wire(fmt, i)) ELSE 0
<1>1. i \in decoder_imm(fmt, B) <=> wire(fmt, i) \in B
  BY DEF decoder_imm
<1>2. CASE wire(fmt, i) \in Nat
  BY <1>1, <1>2 DEF bit
<1>3. CASE wire(fmt, i) \notin Nat
  <2>1. wire(fmt, i) \notin B
    BY <1>3, Zenon
  <2> QED
    BY <1>1, <1>3, <2>1 DEF bit
<1> QED
  BY <1>2, <1>3

\* The sign bit of an immediate, as a number.
LEMMA SignedValue ==
  ASSUME NEW K
  PROVE  signed_value(K) =
           (nibble(K, 0) + 16 * nibble(K, 4) + 256 * nibble(K, 8) + 4096 * nibble(K, 12)
             + 65536 * nibble(K, 16) + 1048576 * nibble(K, 20) + 16777216 * nibble(K, 24)
             + 268435456 * (bit(K, 28) + 2 * bit(K, 29) + 4 * bit(K, 30)))
             - 2147483648 * bit(K, 31)
<1>1. /\ \A i \in Nat : bit(K, i) \in Int
      /\ \A i \in Nat : nibble(K, i) \in Int
  BY BitRange DEF nibble
<1>2. field(K, 30, 0) \in Int
  BY <1>1, Field_30_0
<1>3. signed_value(K) = field(K, 30, 0) - 2147483648 * bit(K, 31)
  BY <1>2 DEF signed_value, bit
<1> QED
  BY <1>3, Field_30_0

\* The value of an immediate whose upper bits all repeat its sign.
LEMMA SignFilled ==
  ASSUME NEW K, NEW s \in Int
  PROVE  /\ (\A i \in Nat : 12 <= i /\ i <= 31 => bit(K, i) = s) =>
              signed_value(K) = nibble(K, 0) + 16 * nibble(K, 4) + 256 * nibble(K, 8) + (-4096) * s
         /\ (\A i \in Nat : 20 <= i /\ i <= 31 => bit(K, i) = s) =>
              signed_value(K) = nibble(K, 0) + 16 * nibble(K, 4) + 256 * nibble(K, 8)
                                  + 4096 * nibble(K, 12) + 65536 * nibble(K, 16) + (-1048576) * s
<1>1. \A i \in Nat : nibble(K, i) \in Int
  BY BitRange DEF nibble
<1>2. ASSUME \A i \in Nat : 12 <= i /\ i <= 31 => bit(K, i) = s
      PROVE  signed_value(K) = nibble(K, 0) + 16 * nibble(K, 4) + 256 * nibble(K, 8) + (-4096) * s
  <2>1. /\ nibble(K, 12) = 15 * s /\ nibble(K, 16) = 15 * s /\ nibble(K, 20) = 15 * s
        /\ nibble(K, 24) = 15 * s
    BY <1>2 DEF nibble
  <2>2. bit(K, 28) = s /\ bit(K, 29) = s /\ bit(K, 30) = s /\ bit(K, 31) = s
    BY <1>2
  <2> QED
    BY SignedValue, <1>1, <2>1, <2>2
<1>3. ASSUME \A i \in Nat : 20 <= i /\ i <= 31 => bit(K, i) = s
      PROVE  signed_value(K) = nibble(K, 0) + 16 * nibble(K, 4) + 256 * nibble(K, 8)
                                 + 4096 * nibble(K, 12) + 65536 * nibble(K, 16) + (-1048576) * s
  <2>1. nibble(K, 20) = 15 * s /\ nibble(K, 24) = 15 * s
    BY <1>3 DEF nibble
  <2>2. bit(K, 28) = s /\ bit(K, 29) = s /\ bit(K, 30) = s /\ bit(K, 31) = s
    BY <1>3
  <2> QED
    BY SignedValue, <1>1, <2>1, <2>2
<1> QED
  BY <1>2, <1>3

\* The ranges of four bits, of three, and of one.
LEMMA NibbleRange ==
  ASSUME NEW B, NEW i \in Nat
  PROVE  /\ nibble(B, i) \in Int /\ 0 <= nibble(B, i)
         /\ nibble(B, i) <= 7 + 8 * bit(B, i + 3) /\ 8 * bit(B, i + 3) <= nibble(B, i)
  BY BitRange DEF nibble

\* The decoder and the model read the same I-immediate.
LEMMA ImmI ==
  ASSUME NEW B \in SUBSET Nat
  PROVE  signed_value(decoder_imm("I", B)) = step_imm("I", B)
<1> DEFINE K == decoder_imm("I", B)
           s == bit(B, 31)
<1>1. ASSUME NEW i \in Nat PROVE /\ i <= 11 => bit(K, i) = bit(B, i + 20)
                                 /\ 12 <= i /\ i <= 31 => bit(K, i) = s
  BY <1>1, DecodedBit DEF wire
<1> HIDE DEF K
<1> DEFINE n20 == nibble(B, 20)
           n24 == nibble(B, 24)
           n28 == nibble(B, 28)
<1>2. /\ n20 \in Int /\ 0 <= n20 /\ n20 <= 15
      /\ n24 \in Int /\ 0 <= n24 /\ n24 <= 15
      /\ n28 \in Int /\ 8 * s <= n28 /\ n28 <= 7 + 8 * s
  BY BitRange DEF nibble
<1>3. s \in Int /\ 0 <= s /\ s <= 1
  BY BitRange
<1>4. nibble(K, 0) = n20 /\ nibble(K, 4) = n24 /\ nibble(K, 8) = n28
  BY <1>1 DEF nibble
<1>5. field(B, 31, 20) = n20 + 16 * n24 + 256 * n28
  BY Field_31_20, BitRange DEF nibble
<1> HIDE DEF s, n20, n24, n28
<1>6. signed_value(K) = n20 + 16 * n24 + 256 * n28 + (-4096) * s
  BY <1>1, <1>3, <1>4, SignFilled
<1>7. step_imm("I", B) = n20 + 16 * n24 + 256 * n28 + (-4096) * s
  BY <1>2, <1>3, <1>5 DEF step_imm, imm_i, extended
<1> QED
  BY <1>6, <1>7 DEF K

\* The decoder and the model read the same S-immediate.
LEMMA ImmS ==
  ASSUME NEW B \in SUBSET Nat
  PROVE  signed_value(decoder_imm("S", B)) = step_imm("S", B)
<1> DEFINE K == decoder_imm("S", B)
           s == bit(B, 31)
<1>1. ASSUME NEW i \in Nat PROVE /\ i <= 4 => bit(K, i) = bit(B, i + 7)
                                 /\ 5 <= i /\ i <= 11 => bit(K, i) = bit(B, i + 20)
                                 /\ 12 <= i /\ i <= 31 => bit(K, i) = s
  BY <1>1, DecodedBit DEF wire
<1> HIDE DEF K
<1> DEFINE n7 == nibble(B, 7)
           b11 == bit(B, 11)
           n25 == bit(B, 25) + 2 * bit(B, 26) + 4 * bit(B, 27)
           n28 == nibble(B, 28)
<1>2. /\ n7 \in Int /\ 0 <= n7 /\ n7 <= 15
      /\ b11 \in Int /\ 0 <= b11 /\ b11 <= 1
      /\ n25 \in Int /\ 0 <= n25 /\ n25 <= 7
      /\ n28 \in Int /\ 8 * s <= n28 /\ n28 <= 7 + 8 * s
  BY BitRange DEF nibble
<1>3. s \in Int /\ 0 <= s /\ s <= 1
  BY BitRange
<1>4. /\ nibble(K, 0) = n7 /\ nibble(K, 4) = b11 + 2 * n25 /\ nibble(K, 8) = n28
  BY <1>1, <1>2, BitRange DEF nibble
<1>5. /\ field(B, 31, 25) = n25 + 8 * n28
      /\ field(B, 11, 7) = n7 + 16 * b11
  <2>1. field(B, 31, 25) = n25 + 8 * n28
    BY Field_31_25, BitRange DEF nibble
  <2>2. field(B, 11, 7) = n7 + 16 * b11
    BY Field_11_7, BitRange DEF nibble
  <2> QED
    BY <2>1, <2>2
<1> HIDE DEF s, n7, b11, n25, n28
<1>6. signed_value(K) = n7 + 16 * (b11 + 2 * n25) + 256 * n28 + (-4096) * s
  BY <1>1, <1>3, <1>4, SignFilled
<1>7. step_imm("S", B) = n7 + 16 * (b11 + 2 * n25) + 256 * n28 + (-4096) * s
  BY <1>2, <1>3, <1>5 DEF step_imm, imm_s, extended
<1> QED
  BY <1>6, <1>7 DEF K

\* The decoder and the model read the same B-immediate.
LEMMA ImmB ==
  ASSUME NEW B \in SUBSET Nat
  PROVE  signed_value(decoder_imm("B", B)) = step_imm("B", B)
<1> DEFINE K == decoder_imm("B", B)
           s == bit(B, 31)
<1>1. ASSUME NEW i \in Nat PROVE /\ i = 0 => bit(K, i) = 0
                                 /\ 1 <= i /\ i <= 4 => bit(K, i) = bit(B, i + 7)
                                 /\ 5 <= i /\ i <= 10 => bit(K, i) = bit(B, i + 20)
                                 /\ i = 11 => bit(K, i) = bit(B, 7)
                                 /\ 12 <= i /\ i <= 31 => bit(K, i) = s
  BY <1>1, DecodedBit DEF wire, Ground
<1> HIDE DEF K
<1> DEFINE n8 == bit(B, 8) + 2 * bit(B, 9) + 4 * bit(B, 10)
           n25 == bit(B, 25) + 2 * bit(B, 26) + 4 * bit(B, 27)
           n28 == bit(B, 28) + 2 * bit(B, 29) + 4 * bit(B, 30)
           b7 == bit(B, 7)
           b11 == bit(B, 11)
<1>2. /\ n8 \in Int /\ 0 <= n8 /\ n8 <= 7
      /\ n25 \in Int /\ 0 <= n25 /\ n25 <= 7
      /\ n28 \in Int /\ 0 <= n28 /\ n28 <= 7
      /\ b7 \in Int /\ 0 <= b7 /\ b7 <= 1
      /\ b11 \in Int /\ 0 <= b11 /\ b11 <= 1
  BY BitRange DEF nibble
<1>3. s \in Int /\ 0 <= s /\ s <= 1
  BY BitRange
<1>4. /\ nibble(K, 0) = 2 * n8 /\ nibble(K, 4) = b11 + 2 * n25 /\ nibble(K, 8) = n28 + 8 * b7
  BY <1>1, <1>2, BitRange DEF nibble
<1>5. /\ field(B, 31, 31) = s
      /\ field(B, 7, 7) = b7
      /\ field(B, 30, 25) = n25 + 8 * n28
      /\ field(B, 11, 8) = n8 + 8 * b11
  <2>1. field(B, 31, 31) = s
    BY Field_31_31, BitRange DEF nibble
  <2>2. field(B, 7, 7) = b7
    BY Field_7_7, BitRange DEF nibble
  <2>3. field(B, 30, 25) = n25 + 8 * n28
    BY Field_30_25, BitRange DEF nibble
  <2>4. field(B, 11, 8) = n8 + 8 * b11
    BY Field_11_8, BitRange DEF nibble
  <2> QED
    BY <2>1, <2>2, <2>3, <2>4
<1> HIDE DEF s, n8, n25, n28, b7, b11
<1>6. signed_value(K) = 2 * n8 + 16 * (b11 + 2 * n25) + 256 * (n28 + 8 * b7) + (-4096) * s
  BY <1>1, <1>3, <1>4, SignFilled
<1>7. step_imm("B", B) = 2 * n8 + 16 * (b11 + 2 * n25) + 256 * (n28 + 8 * b7) + (-4096) * s
  <2> DEFINE v == s * 4096 + b7 * 2048 + (n25 + 8 * n28) * 32 + (n8 + 8 * b11) * 2
  <2>1. step_imm("B", B) = imm_b(B)
    BY DEF step_imm
  <2>2. imm_b(B) = extended(v, 13)
    BY <1>2, <1>3, <1>5 DEF imm_b
  <2>3. v \in Int /\ 4096 * s <= v /\ v < 4096 + 4096 * s
    BY <1>2, <1>3, <1>5
  <2> HIDE DEF v
  <2>4. extended(v, 13) = v - 8192 * s
    BY <1>3, <2>3 DEF extended
  <2> QED
    BY <1>2, <1>3, <1>5, <2>1, <2>2, <2>4 DEF v
<1> QED
  BY <1>6, <1>7 DEF K

\* The decoder and the model read the same J-immediate.
LEMMA ImmJ ==
  ASSUME NEW B \in SUBSET Nat
  PROVE  signed_value(decoder_imm("J", B)) = step_imm("J", B)
<1> DEFINE K == decoder_imm("J", B)
           s == bit(B, 31)
<1>1. ASSUME NEW i \in Nat PROVE /\ i = 0 => bit(K, i) = 0
                                 /\ 1 <= i /\ i <= 10 => bit(K, i) = bit(B, i + 20)
                                 /\ i = 11 => bit(K, i) = bit(B, 20)
                                 /\ 12 <= i /\ i <= 19 => bit(K, i) = bit(B, i)
                                 /\ 20 <= i /\ i <= 31 => bit(K, i) = s
  BY <1>1, DecodedBit DEF wire, Ground
<1> HIDE DEF K
<1> DEFINE n12 == nibble(B, 12)
           n16 == nibble(B, 16)
           b20 == bit(B, 20)
           n21 == bit(B, 21) + 2 * bit(B, 22) + 4 * bit(B, 23)
           n24 == nibble(B, 24)
           n28 == bit(B, 28) + 2 * bit(B, 29) + 4 * bit(B, 30)
<1>2. /\ n12 \in Int /\ 0 <= n12 /\ n12 <= 15
      /\ n16 \in Int /\ 0 <= n16 /\ n16 <= 15
      /\ b20 \in Int /\ 0 <= b20 /\ b20 <= 1
      /\ n21 \in Int /\ 0 <= n21 /\ n21 <= 7
      /\ n24 \in Int /\ 0 <= n24 /\ n24 <= 15
      /\ n28 \in Int /\ 0 <= n28 /\ n28 <= 7
  BY BitRange DEF nibble
<1>3. s \in Int /\ 0 <= s /\ s <= 1
  BY BitRange
<1>4. /\ nibble(K, 0) = 2 * n21 /\ nibble(K, 4) = n24 /\ nibble(K, 8) = n28 + 8 * b20
      /\ nibble(K, 12) = n12 /\ nibble(K, 16) = n16
  BY <1>1, <1>2, BitRange DEF nibble
<1>5. /\ field(B, 31, 31) = s
      /\ field(B, 20, 20) = b20
      /\ field(B, 19, 12) = n12 + 16 * n16
      /\ field(B, 30, 21) = n21 + 8 * n24 + 128 * n28
  <2>1. field(B, 31, 31) = s
    BY Field_31_31, BitRange DEF nibble
  <2>2. field(B, 20, 20) = b20
    BY Field_20_20, BitRange DEF nibble
  <2>3. field(B, 19, 12) = n12 + 16 * n16
    BY Field_19_12, BitRange DEF nibble
  <2>4. field(B, 30, 21) = n21 + 8 * n24 + 128 * n28
    BY Field_30_21, BitRange DEF nibble
  <2> QED
    BY <2>1, <2>2, <2>3, <2>4
<1> HIDE DEF s, n12, n16, b20, n21, n24, n28
<1>6. signed_value(K) = 2 * n21 + 16 * n24 + 256 * (n28 + 8 * b20) + 4096 * n12
                          + 65536 * n16 + (-1048576) * s
  BY <1>1, <1>3, <1>4, SignFilled
<1>7. step_imm("J", B) = 2 * n21 + 16 * n24 + 256 * (n28 + 8 * b20) + 4096 * n12
                           + 65536 * n16 + (-1048576) * s
  <2> DEFINE v == s * 1048576 + (n12 + 16 * n16) * 4096 + b20 * 2048 + (n21 + 8 * n24 + 128 * n28) * 2
  <2>1. step_imm("J", B) = imm_j(B)
    BY DEF step_imm
  <2>2. imm_j(B) = extended(v, 21)
    BY <1>2, <1>3, <1>5 DEF imm_j
  <2>3. v \in Int /\ 1048576 * s <= v /\ v < 1048576 + 1048576 * s
    BY <1>2, <1>3, <1>5
  <2> HIDE DEF v
  <2>4. extended(v, 21) = v - 2097152 * s
    BY <1>3, <2>3 DEF extended
  <2> QED
    BY <1>2, <1>3, <1>5, <2>1, <2>2, <2>4 DEF v
<1> QED
  BY <1>6, <1>7 DEF K

\* The decoder and the model read the same U-immediate.
LEMMA ImmU ==
  ASSUME NEW B \in SUBSET Nat
  PROVE  signed_value(decoder_imm("U", B)) = step_imm("U", B)
<1> DEFINE K == decoder_imm("U", B)
           s == bit(B, 31)
<1>1. ASSUME NEW i \in Nat PROVE /\ i <= 11 => bit(K, i) = 0
                                 /\ 12 <= i /\ i <= 31 => bit(K, i) = bit(B, i)
  BY <1>1, DecodedBit DEF wire, Ground
<1> HIDE DEF K
<1> DEFINE n12 == nibble(B, 12)
           n16 == nibble(B, 16)
           n20 == nibble(B, 20)
           n24 == nibble(B, 24)
           n28 == bit(B, 28) + 2 * bit(B, 29) + 4 * bit(B, 30)
<1>2. /\ n12 \in Int /\ 0 <= n12 /\ n12 <= 15
      /\ n16 \in Int /\ 0 <= n16 /\ n16 <= 15
      /\ n20 \in Int /\ 0 <= n20 /\ n20 <= 15
      /\ n24 \in Int /\ 0 <= n24 /\ n24 <= 15
      /\ n28 \in Int /\ 0 <= n28 /\ n28 <= 7
  BY BitRange DEF nibble
<1>3. s \in Int /\ 0 <= s /\ s <= 1
  BY BitRange
<1>4. /\ nibble(K, 0) = 0 /\ nibble(K, 4) = 0 /\ nibble(K, 8) = 0 /\ nibble(K, 12) = n12
      /\ nibble(K, 16) = n16 /\ nibble(K, 20) = n20 /\ nibble(K, 24) = n24
      /\ bit(K, 28) + 2 * bit(K, 29) + 4 * bit(K, 30) = n28 /\ bit(K, 31) = s
  BY <1>1, <1>2, BitRange DEF nibble
<1>5. nibble(B, 28) = n28 + 8 * s
  BY <1>2, BitRange DEF nibble
<1>6. field(B, 31, 12) = n12 + 16 * n16 + 256 * n20 + 4096 * n24 + 65536 * (n28 + 8 * s)
  BY <1>2, <1>3, <1>5, Field_31_12
<1> HIDE DEF s, n12, n16, n20, n24, n28
<1>7. signed_value(K) = 4096 * n12 + 65536 * n16 + 1048576 * n20 + 16777216 * n24
                          + 268435456 * n28 + (-2147483648) * s
  BY <1>2, <1>3, <1>4, SignedValue
<1>8. step_imm("U", B) = 4096 * n12 + 65536 * n16 + 1048576 * n20 + 16777216 * n24
                           + 268435456 * n28 + (-2147483648) * s
  <2> DEFINE v == n12 + 16 * n16 + 256 * n20 + 4096 * n24 + 65536 * (n28 + 8 * s)
  <2>1. step_imm("U", B) = imm_u(B)
    BY DEF step_imm
  <2>2. imm_u(B) = extended(v, 20) * 4096
    BY <1>2, <1>3, <1>6 DEF imm_u
  <2>3. v \in Int /\ 524288 * s <= v /\ v < 524288 + 524288 * s
    BY <1>2, <1>3, <1>6
  <2> HIDE DEF v
  <2>4. extended(v, 20) = v - 1048576 * s
    BY <1>3, <2>3 DEF extended
  <2> QED
    BY <1>2, <1>3, <1>6, <2>1, <2>2, <2>4 DEF v
<1> QED
  BY <1>7, <1>8 DEF K

(***************************************************************************)
(* In every instruction word of every format, the immediate that decoder.v *)
(* concatenates is the one mycore::step shifts, masks and sign-extends.    *)
(***************************************************************************)
THEOREM ImmediatesRead == EncodingSpec => []ImmediatesAgree
<1>1. ASSUME NEW fmt \in {"I", "S", "B", "U", "J"}, NEW B \in SUBSET (7 .. 31)
      PROVE  signed_value(decoder_imm(fmt, B)) = step_imm(fmt, B)
  <2>1. B \in SUBSET Nat
    OBVIOUS
  <2> QED
    BY <2>1, ImmI, ImmS, ImmB, ImmU, ImmJ
<1>2. WordOK => ImmediatesAgree
  BY <1>1 DEF WordOK, ImmediatesAgree
<1> QED
  BY <1>2, WordInvariant, PTL
=============================================================================

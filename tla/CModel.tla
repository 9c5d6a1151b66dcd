------------------------------- MODULE CModel -------------------------------
(***************************************************************************)
(* The C++ reference model (class mycore, src/C_model/model.cpp) behind    *)
(* its DPI entry points (cmodel_dpi.cpp).  The test bench loads a program, *)
(* pokes registers and memory, and then compares the trace of every step   *)
(* with what the core retires.                                             *)
(*                                                                         *)
(* An instruction word is taken apart by the table Fields: the bit layout  *)
(* is module Encoding.                                                     *)
(***************************************************************************)
EXTENDS CInstr

CONSTANTS
  Fields,           \* [Word -> Instruction], what step reads in a word
  Files,            \* image files that exist: sequences of tokens
  NoFile,           \* a file that cannot be opened
  CommandLines,     \* sequences of <<key, image>>, the +key=path arguments
  Addrs, Values,    \* what the caller passes to the write calls
  MaxCalls, MaxSteps   \* bounds of a run: calls between loads, steps

ASSUME CModelAssumption ==
  /\ Fields \in [Word -> Instruction]
  /\ Fields[NOP] = OpImmNop
  /\ \A f \in Files : 4 * Len(f) <= 2^XLEN
  /\ Addrs \subseteq Word /\ Values \subseteq Word

VARIABLES
  pc, regs,            \* struct mycore_state
  mem, imem,           \* class memory, twice
  use_separate_imem,
  trace,               \* what the last step returned
  ok,                  \* what the last DPI call returned
  calls, steps,        \* bounds only
  replay               \* history: the machine as its caller knows it

vars == <<pc, regs, mem, imem, use_separate_imem, trace, ok, calls, steps, replay>>

NoTrace == [pc |-> 0, instr |-> 0, commit_valid |-> FALSE, rd_addr |-> 0,
            rd_data |-> 0, addr |-> 0, is_read |-> FALSE, rdata |-> 0,
            is_write |-> FALSE, wstrb |-> 0, wdata |-> 0]
-----------------------------------------------------------------------------
\* What the caller can know: registers and memory as of its own calls, updated
\* by nothing but the traces of the steps since.
strobe_bytes(wstrb) == CASE wstrb = 1 -> 1 [] wstrb = 3 -> 2 [] wstrb = 15 -> 4
observe(r, t) ==
  [r EXCEPT
     !.regs = IF t.commit_valid /\ t.rd_addr # 0
              THEN [@ EXCEPT ![t.rd_addr] = t.rd_data] ELSE @,
     !.mem = IF t.is_write
             THEN write(@, t.addr, t.wdata, strobe_bytes(t.wstrb)) ELSE @]
-----------------------------------------------------------------------------
zeros == [r \in Reg |-> 0]
reset_image(image) == IF image = NoFile THEN clear ELSE load_image(image)

Init ==
  /\ pc = 0 /\ regs = zeros
  /\ mem = clear /\ imem = clear /\ use_separate_imem = FALSE
  /\ trace = NoTrace /\ ok = 1
  /\ calls = 0 /\ steps = 0
  /\ replay = [regs |-> zeros, mem |-> clear, imem |-> clear, separate |-> FALSE]

call ==
  /\ calls < MaxCalls
  /\ calls' = calls + 1
  /\ UNCHANGED <<trace, steps>>

\* Mutant of reset: the machine stays on its separate instruction memory.
reset_keeps_flag ==
  /\ pc' = 0 /\ regs' = zeros
  /\ imem' = clear
  /\ UNCHANGED use_separate_imem

\* mycore::reset, but for the data memory, which its callers assign.
reset ==
  /\ pc' = 0 /\ regs' = zeros
  /\ imem' = clear
  /\ use_separate_imem' = FALSE

\* cmodel_init_empty, cmodel_init_from_file: a file that cannot be opened is
\* reported after the reset, and leaves an empty machine behind.
InitEmpty ==
  /\ call /\ reset
  /\ mem' = clear
  /\ ok' = 1
  /\ replay' = [regs |-> zeros, mem |-> clear, imem |-> clear, separate |-> FALSE]

InitFromFile ==
  \E image \in Files \cup {NoFile} :
    /\ call /\ reset
    /\ mem' = reset_image(image)
    /\ ok' = flag(image # NoFile)
    /\ replay' = [regs |-> zeros, mem |-> reset_image(image), imem |-> clear,
                  separate |-> FALSE]

\* The first argument with the key counts; without one there is no file.
get_plusarg(args) ==
  LET hits == {k \in DOMAIN args : args[k][1] = "IMAGE_FILE"}
  IN IF hits = {} THEN NoFile ELSE args[Min(hits)][2]

\* mycore::load_image, which the stand-alone main calls on a new machine: the
\* instruction memory is gone before the file is opened, and when it cannot be
\* opened (or the plusarg is missing) the exception leaves the old data memory.
LoadImage ==
  \E args \in CommandLines :
    /\ call
    /\ imem' = clear /\ use_separate_imem' = FALSE
    /\ LET image == get_plusarg(args)
       IN /\ mem' = IF image = NoFile THEN mem ELSE load_image(image)
          /\ ok' = flag(image # NoFile)
          /\ replay' = [replay EXCEPT !.imem = clear, !.separate = FALSE,
                          !.mem = IF image = NoFile THEN @ ELSE load_image(image)]
    /\ UNCHANGED <<pc, regs>>

MemWrite32 ==
  \E a \in Addrs, d \in Values :
    /\ call
    /\ mem' = write(mem, a, d, 4)
    /\ replay' = [replay EXCEPT !.mem = write(@, a, d, 4)]
    /\ UNCHANGED <<pc, regs, imem, use_separate_imem, ok>>

\* The first write to the instruction memory makes it a separate one.
ImemWrite32 ==
  \E a \in Addrs, d \in Values :
    /\ call
    /\ use_separate_imem' = TRUE
    /\ imem' = write(imem, a, d, 4)
    /\ replay' = [replay EXCEPT !.imem = write(@, a, d, 4), !.separate = TRUE]
    /\ UNCHANGED <<pc, regs, mem, ok>>

SetPc ==
  \E a \in Addrs :
    /\ call
    /\ pc' = a
    /\ UNCHANGED <<regs, mem, imem, use_separate_imem, ok, replay>>

set_reg(rs, idx, value) ==
  IF idx \in Reg THEN [rs EXCEPT ![idx] = IF idx = 0 THEN 0 ELSE value] ELSE rs

\* An index out of range is ignored, and so is a value for x0.
SetReg ==
  \E idx \in 0 .. REGS, value \in Values :
    /\ call
    /\ regs' = set_reg(regs, idx, value)
    /\ replay' = [replay EXCEPT !.regs = [r \in Reg |->
                    IF r = idx /\ r # 0 THEN value ELSE @[r]]]
    /\ UNCHANGED <<pc, mem, imem, use_separate_imem, ok>>
-----------------------------------------------------------------------------
\* Mutant of instruction_memory: step always fetches from the data memory.
instruction_memory_shared == mem

instruction_memory == IF use_separate_imem THEN imem ELSE mem

fetch(m, at) == IF has_word(m, at) THEN read32(m, at) ELSE NOP

\* cmodel_step: fetch, execute, commit, in one call.
Step ==
  /\ steps < MaxSteps
  /\ steps' = steps + 1
  /\ LET instr == fetch(instruction_memory, pc)
         f == Fields[instr]
         v1 == regs[f.rs1]
         v2 == regs[f.rs2]
         addr == plus(v1, f.imm)
         raw == read32(mem, addr)
         value == result(f, pc, v1, v2, raw)
     IN /\ trace' = retire_trace(pc, instr, f, v2, addr, raw, value)
        /\ regs' = commit(regs, f, value)
        /\ mem' = store(mem, f, addr, v2)
        /\ pc' = next_pc(f, pc, v1, v2)
  /\ ok' = 1
  /\ replay' = observe(replay, trace')
  /\ UNCHANGED <<imem, use_separate_imem, calls>>

Next ==
  \/ InitEmpty \/ InitFromFile \/ LoadImage
  \/ MemWrite32 \/ ImemWrite32 \/ SetPc \/ SetReg
  \/ Step

Spec == Init /\ [][Next]_vars
-----------------------------------------------------------------------------
(***************************************************************************)
(* The traces are complete: a caller that knows only its own calls and the *)
(* traces of the steps knows every register, every byte of memory and      *)
(* which memory is fetched from.  No write to x0, no store without a       *)
(* trace and no state that survives a reset can hide from the comparison   *)
(* of traces.                                                              *)
(***************************************************************************)
TraceComplete ==
  /\ regs = replay.regs
  /\ mem = replay.mem
  /\ use_separate_imem = replay.separate
  /\ use_separate_imem => imem = replay.imem

Honest ==
  LET code == IF replay.separate THEN replay.imem ELSE replay.mem
      written(m, a) == {plus(a, k) : k \in 0 .. 3} \subseteq DOMAIN m
  IN /\ trace'.instr = IF written(code, trace'.pc)
                       THEN peek32(code, trace'.pc) ELSE NOP
     /\ trace'.is_read =>
          trace'.rdata = IF written(replay.mem, trace'.addr)
                         THEN peek32(replay.mem, trace'.addr)
                         ELSE read32(replay.mem, trace'.addr)

(***************************************************************************)
(* The traces are honest: the instruction of a trace is the word that the  *)
(* writes of the caller and, without a separate instruction memory, the    *)
(* stores of earlier steps left at its address (a nop when some byte of it *)
(* was never written), and a load reports the word that its caller can     *)
(* peek at its address.  Only a load from a word with a byte never written *)
(* is compared with the model's own read, which has that byte from a nop.  *)
(***************************************************************************)
TraceHonest == [][Step => Honest]_vars
=============================================================================

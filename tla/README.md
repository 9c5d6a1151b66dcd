# A TLA+ verification of ysyx-mycore

The repository is a dual-issue out-of-order RV32IM core with caches, an AXI4 fabric and a UVM
environment around it. This directory holds TLA+ modules for the core, its caches, the AXI
fabric behind them and the C++ reference model that the test bench compares the core with;
configurations that check them with TLC on small instances; and machine-checked proofs about
the reorder buffer, register renaming, the composed core, the load/store queue, the instruction
queue, both caches, the memory system, its fault register, the reference model and the function units
it judges, for every value of their constants (the arithmetic of the units: for the code's 32-bit words).
`PROJECT.json` lists components, runs, hazards, mutants, theorems, and for each definition the
source lines it stands for.

    tlc -workers 4 -config MCCore.cfg MCCore     # one run; all are listed below
    tlapm DcacheProofs.tla                       # the proofs of one module

## 1. Inventory of the system

Everything is synchronous Verilog under `src/dut`: one clock, non-blocking assignments,
combinational nets in between. "State" is therefore registers, an "operation" is what the
`always @(posedge clk)` block of a unit does in one cycle under its input nets, and
concurrency is several units acting on each other's nets in the same cycle.

| component (file) | state | operations in a cycle | hard behaviour | what makes it correct |
|---|---|---|---|---|
| Reorder buffer (`reg/rob.v`) | ring of entries, head, tail, count, sequence counter | dispatch 0-2, complete from two bus lanes and from the store pulse, retire 0-2, recover | wrap-around, all of these in one edge, tags reused at once | entries are in program order; retirement in order; a completion is kept |
| Rename tables (`reg/rat.v`) | speculative map, committed map, free list | rename a bundle, commit up to two, restore | two instructions of a bundle on one register; commit in the recovery edge | each physical register in one place; maps name the youngest older writer |
| Physical registers (`reg/reg_R.v`) | values, ready bits | two bus writes, two allocations, bypassed reads | allocation, broadcast and read of one register together | a register is ready exactly if its writer has completed |
| Reservation station (`reg/reservation_station.v`) | 12 entries with two operands each | enter two, wake up from two lanes, select for four lanes, flush | a wake-up is heard once | a waiting operand has a producer to come, a captured one its value |
| Load/store queue (`reg/lsq.v`) | 8 entries, a request, a drop flag, two results | allocate, capture address, choose, send, receive, flush | flush against a request in any stage; loads against stores, branches, fences | program order in memory; nothing speculative; answers paired |
| Multiply/divide (`controller/muldiv_tracker.v`) | one operation, counter, result | start, count, hold until granted, flush | result held for a busy bus | result once |
| CDB arbiter (`controller/cdb_arbiter.v`) | none | pick two of four producers | fixed priority | nobody starves, nobody is served twice |
| Admission (`controller/hazard.v`) | none | how many instructions to dispatch | four resources, one control and one fence | nothing overflows; no deadlock |
| Core (`mycore.v`) | wiring of the above | one clock | the composition | behaves as the sequential machine |
| Decode and function units (`decoder.v`, `controller.v`, `fu/*`) | none (the divider and multiplier are fixed-latency) | classify, compute | encodings, 32-bit edge cases | agree with the C model |
| Instruction queue (`reg/instr_queue.v`) | FIFO of lines, three pointers, fetch address, stale count | request, receive, consume 0-2, redirect | redirect with several responses on the way | the in-order stream, no response misattributed |
| Caches (`mem/Icache.v`, `mem/Dcache.v`, `mem/one_set.v`) | sets, controller state, captured request, write-back buffer | access, refill, write back, flush | miss and eviction order, loads over two lines, errors, flush during a miss | invisible to the CPU; stale data never seen |
| AXI adapters, arbiter, decoder, slaves (`axi/*`, `mem/axi_ram_slave.v`) | burst state, owner, beat counters | channels of four-beat bursts | beats, errors, fairness between I and D | each line access is one atomic transaction |
| System (`mycore_system.v`, `axi/cache_axi_memory_system.v`) | sticky bus fault | wiring | speculative fetches outside RAM | memory as the core sees it |
| C reference model (`C_model/*.cpp`) | registers, pc, two sparse memories, "initialised", the last trace | construct, load an image, write a register or a byte, step | loads that fail half-way, code that is overwritten, memory that was never written | its traces say everything that a step did |

Interaction: the instruction queue offers up to two instructions; admission lets none, one or
both pass; they are renamed, given a ring slot, a station slot and perhaps a queue slot in the same
edge. Lanes read the station; results ask the arbiter for one of two bus lanes; buffer,
register file and station listen to the bus. The buffer retires and commits at its head, and
a mispredicted control instruction there flushes everything and redirects the queue. The
load/store queue talks to the data cache, the instruction queue to the instruction cache, and
both caches to the AXI fabric through adapters. The test bench drives the C model
call by call and compares each retired instruction with the trace of one `step`.

The behaviours that a test hardly reaches are listed with their lines under `hazards` in
`PROJECT.json`.

## 2. Modules

The core:

| module | models | used by |
|---|---|---|
| `Rob` | `rob.v`, with the environment its ports have in `mycore.v` | `Rename`, `Core`, `RenameProofs` |
| `Rat`, `RegFile` | `rat.v`, `reg_R.v` as operators on their registers | `Rename` |
| `Rename` | buffer, maps and register file wired together | `Core`, `RenameProofs`, `CoreProofs` |
| `ReservationStation`, `Lsq`, `MulDiv`, `Cdb` | the unit of that name | `Core`; `Lsq` also `LsqUnit` |
| `RV`, `Isa` | what one instruction of each class does; the sequential machine | `Core`; `Isa` is its abstract specification |
| `Core` | `mycore.v`, `hazard.v`, decode | `CoreProofs` |
| `LsqUnit` | the load/store queue under an environment freer than the core's | `LsqProofs` |
| `FetchStream` | abstract: in-order stream of addresses with redirects | specification of `InstrQueue` |
| `InstrQueue` | `instr_queue.v` and the line fetches in flight | `InstrQueueProofs` |

The caches and what is behind them:

| module | models | used by |
|---|---|---|
| `OneSet` | `one_set.v` | `Dcache`, `Icache` |
| `ByteMemory` | abstract: a memory of bytes serving one access at a time | specification of `Dcache` |
| `Dcache`, `Icache` | the cache controllers, their sets and a line memory | `DcacheProofs`, `IcacheProofs` |
| `AxiDefs` | responses, beats of a line, idle states (`axi_defs.vh`) | the modules below |
| `AxiAdapters` | the two adapters: one operator per handshake | `MemorySystem` |
| `AxiInterconnect`, `AxiSlaves` | read arbiter and address decoder; RAM slave and error slave | `MemorySystem` |
| `LineMemory` | abstract: the memory of lines that the caches have as environment | specification of `MemorySystem` |
| `MemorySystem` | `cache_axi_memory_system.v`: all of the above on one clock | `MemorySystemProofs` |
| `MyCoreSystem` | the fault register of `mycore_system.v` over it | `MemorySystemProofs` |

Instructions and the reference model:

| module | models | used by |
|---|---|---|
| `MachineWord` | words of `XLEN` bits and the C++ operators on them | `SparseMemory` and up |
| `SparseMemory` | `class memory` of `state.cpp` | `CInstr` |
| `CInstr` | the switch of `mycore::step`, instruction by instruction | `CModel`, `Execute` |
| `CModel` | the reference model behind its DPI calls | `CModelProofs` |
| `Execute` | `decoder.v`, `controller.v` and `fu/*` from fields to what retires | `MCDecode`, `CModelProofs` |
| `Encoding` | the bits of an instruction word, as decoder, model and assembler read them | `MCDecode`, `CModelProofs` |

`MC*` give the constants of a run their values (`MCDecode` also joins `Execute` and `Encoding`
in one run); `*Proofs` hold the proofs.

Conventions. A unit has a `...Tick` operator, its clock edge: each register is assigned once,
with the priority of the Verilog (the later non-blocking assignment wins, reset apart). Nets
are operators named like the nets. Compositions conjoin ticks, so one TLA+ step is one clock
cycle of everything in the module. Validity and payload are kept together in records, and the
payload of an invalid entry that nothing reads is dropped or fixed to a default.
Definitions headed "Mutant of" are variants with a plausible bug, used to show that a property can be violated; they
are in no specification.

How the code appears in the modules:

- `Rob`: `rob_q[t]` gathers the arrays of `rob.v`. Priority in an edge is dispatch, then
  retirement, then store completion, then bus lane 1, then lane 0. `uop` is the decoded
  instruction, opaque except for its class. `recovery` at the head replaces all of it.
- `Rat`: allocation takes the lowest free registers, register 0 stands for x0 and is never
  allocated. In `RatRecover` a committing jump's destination enters the committed map first, and
  the speculative map and free list are rebuilt from the result.
- `RegFile`: in one edge, bus writes first and then allocation clears ready bits.
- `Core`: `CoreTick` computes the nets of a cycle (bound variables with a single value) and
  conjoins the ticks. Three inputs are chosen in each cycle: how many instructions the front
  end offers, whether data memory accepts, whether it answers. The data memory performs an
  access when it answers, in the cycle of acceptance or any later one.
- `Lsq`: whole words; byte strobes and sign extension have no part in ordering and are in
  `Execute`.
- `InstrQueue`: bundles carry addresses, not instructions; `inflight` is the sequence of line
  fetches memory owes, answered in order.
- `OneSet`: a `way` holds valid, dirty, tag, age and data; data is a function of the byte
  offset in the data cache and a version number in the instruction cache.
- `Dcache`: `current_state` and the captured request are the registers of the controller;
  `read_port` and `wr_fire` are the registered outputs of the sets; `port` is the request the
  line memory works on, `cpu_resp` the answer of the last cycle. `CrossLine`, `WrittenBack`,
  `LineRead` and the three `Busy...` actions are the branches of the controller in each state.
- `Icache`: `Rewrite` is an environment step: another writer changes a line in memory, as a
  store does behind the instruction cache. Each controller cycle and each rewrite is a step.
- Adapters, arbiter, decoder and slaves are records of registers, and an operator per handshake
  says what the handshake does to them (`read_beat` is the adapter taking one R beat).
  `MemorySystem` writes the valid/ready wires as predicates of the state (`ar_fire`, `r_fire`,
  `aw_fire`, `w_fire`, `b_fire`) and `Clock` applies to each unit the operator of the handshake
  that fires. `Faithful` is a burst whose length and id the RAM reads as they were sent; any other
  element of `Slips` makes the RAM answer another length or id, as a faulty slave would. The slaves of the repository
  never do; the adapters' checks are there for it, and without it nothing would exercise them.
- `MyCoreSystem`: `ic_fault`, `dc_fault` are the one-cycle fault pulses of the caches, `bus_fault`
  the sticky register; `first` remembers the first error answers for the property.
- `CModel`: an action per DPI call, then `Step`. `replay` is the test bench's
  view: a machine rebuilt from the calls made and the traces returned, and nothing else.
- `Execute`: a state is one instruction with its operands; the decoder's control word, the
  lane, the unit and the load extender are operators on it. `Encoding`: a state is an opcode and
  the set of other bits that are 1; immediates are read from it three ways.

Abstractions. Words and program counters of the core are counted in words and wrap at `WORDS`. One or two
instructions stand for each execution class (`add`/`addi`, `mul`, `lw`, `sw`, `beq`, `jal`,
`jalr`, `fence`, an unsupported encoding); all encodings are in `Execute`. The instructions of a program are fixed during a
run of the core. Reset is the initial state. The retire bus is left out, except as
the state it implies. On the AXI side an address is the number of a line, and the checks that an aligned whole-line
burst always passes (size, burst type, lock, 4 KiB) are left out. An idle unit forgets registers
that are written again before they are read (`settled`).

## 3. Runs

| run (module) | instance | properties | what it shows |
|---|---|---|---|
| `rob` (`MCRob`) | depth 4, 6 instructions, one uop per class, 2 result values | `RobTypeOK` `ProgramOrder` `InOrderRetirement` `CompletionKept` | ring in program order; only completed instructions retire, oldest first, and a misprediction discards exactly what is behind it; no completion lost, for any dispatch, completion and retirement the ports allow |
| `rename` (`MCRename`) | depth 3, 3 + 2 registers, 5 instructions | `FreeListPartition` `RenameChain` `ResultsAgree` `PreciseRegisters` | no register leaks or is shared; names are right; registers change only by retirement |
| `core` (`MCCore`) | 1587 programs after `x1 = 1`: the 1331 of three instructions out of 11, and the 256 of four out of the 4 that keep the result bus full and memory busy; depths 4/4/3, latency 2 | `BusHonest` `OperandsSound` `EntriesOwned` `NoSpeculativeAccess` `ImplementsIsa` | the core refines the sequential machine; no wrong-path access |
| `core_live` (`MCCoreLive`) | four programs that make the producers, the fence and the memory pipeline contend | `HeadLeaves` | no deadlock or starvation |
| `lsq_unit` (`LsqUnit`) | 3 entries, 4 in flight, 8 instructions, a flush in any cycle | `ResponsePaired` `NoStaleResult` `MemoryInProgramOrder` `StoreAtHead` | the flush paths of the queue; `performed` is the history of all accesses, so that one repeated at once is seen too |
| `instr_queue` (`InstrQueue`) | 2 lines, 12 addresses, 3 fetches in flight, 3 redirects | `ResponsesOwed` `ImplementsStream` `NeverStarves` | the stream is right under any latency, and fetch recovers after redirects |
| `dcache` (`MCDcache`) | 1 set, 2 ways, 3 lines, 2-byte lines and accesses, 2 stores, failing memory | `FilledInOrder` `CleanMatchesMemory` `ImplementsMemory` `EveryAccessAnswered` | the cache is invisible, also when an access fails |
| `icache` (`Icache`) | 1 set, 2 ways, 3 lines, 2 rewrites per line | `CachedAfterFlush` `FreshAfterFlush` `ReadyAgain` | flush, drain and freshness |
| `system` (`MCMyCoreSystem`) | lines of 2 beats, beat counters modulo 3; 4 lines: in RAM, in its window past its end, behind MMIO, nowhere; slips: other id, early, late, counter wrapped | `PathsAgree` `FirstFaultKept` `ErrorsDeserved` `ImplementsLineMemory` `EveryLineAnswered` | the memory side gives the caches the memory they assume, errors only where deserved, and reports the first fault |
| `cmodel` (`MCCModel`) | 8-bit words, 3 registers, images of every instruction class, 2 calls and 3 steps | `TraceComplete` `TraceHonest` | what the test bench compares is all that a step did; a load from a word with a byte never written is only compared with the model's own read |
| `decode` (`MCDecode`) | every opcode, funct3 and kind of funct7 over the corner values of 8-bit words; words of at most four ones in five formats | `RetireAgrees` `RejectedInert` `ArithmeticLaws` `ImmediatesAgree` `AssembledBack` | RTL and reference model agree on every instruction; the immediates sit where all three readers say |
| `dcache_edge` (`MCDcache`) | 1 set, two existing lines of three | `ExistingBytesReadable` | **violated**: see section 6 |

Deadlock is checked in every run but `cmodel` and `decode`, where the bounds on calls, steps, and bits end a
behaviour.

Refinements. `Core => Isa`: the state of the abstract machine is the register file under the
*committed* map, data memory, and the address of the oldest instruction in flight (its
successor, once a store at the head has been performed but has not retired). A cycle is no step, one
or two steps of the sequential machine. `InstrQueue => FetchStream`: the abstract
program counter is the next address to deliver. `Dcache => ByteMemory`: a byte is the cached copy
where there is one, else the byte in line memory; the pending access is rebuilt from the
controller's registers. `MemorySystem => LineMemory`: a pending access is what its adapter holds, and
a write counts from its request on, since the data cache sees nothing in between. The
instruction port promises less: while a line is being written each of its words may be read old or new.
The other direction matters too: `Icache` and `Dcache` are checked over line memories that may
answer late and fail, as `LineMemory` may.

### Bounds

- `MaxSeq` stops dispatch after so many instructions (6 in `core`, `core_live` and `rob`, 5 in `rename`,
  8 in `lsq_unit`; the program of four in `core` leaves room for two more, fetched past its end). Rings of depth 3 and 4 wrap, tags are reused, and two recoveries fit in.
- `PHYS_REG_COUNT` is 5 for 3 architectural registers in `rename` and 7 in the core. The RTL has
  48 for 32, which leaves 16 spare for 8 instructions in flight; the small counts leave few spare,
  so the list runs low.
- `RS_DEPTH`, `LSQ_DEPTH` 4 and 3 instead of 12 and 8. In the RTL neither binds before the
  buffer, since every entry belongs to an instruction in flight; in the model `LSQ_DEPTH` is
  smaller than the buffer, so the limit does bind and admission is really exercised.
- `FIXED_LATENCY` 2 instead of 12: a multiplication lasts long enough to be overtaken and to
  be caught by a flush.
- `WORDS` 8: addresses and values wrap, addresses collide.
- `WINDOW` of the queue's environment, 4: more instructions in flight than queue entries.
- `MaxInflight` 3 line fetches, above the two lines of the queue, so stale answers pile up
  with new ones; `MaxRedirects` 3 so that redirects overlap them.
- `MaxStores`, `MaxVersion`: writes per behaviour. Two suffice to make two dirty lines and
  for a version to be newer than the last flush.
- Data cache lines of two bytes, accesses of two: only the last offset of a line crosses, which is the
  distinction `req_offset + 3 >= DM_LINE_BYTES` makes.
- `LINE_BEATS` 2: the shortest burst with a first and a last beat. `COUNT` 3 is the modulus of the beat
  counters (256 in the RTL); it is larger than a burst and small enough for a burst
  to run past it, which the length check must not mistake for a whole line.
- `XLEN` 8 in `decode` and `cmodel`: addresses of bytes and halves of words exist, shift amounts, signs, carries and the
  division corner cases exist, and the corner values include the smallest, largest and their neighbours. Widths are
  parameters: nothing but the constants says 8.
- `MaxOnes` 4: two bits are enough to tell any two bit positions apart; four cover the pairs that
  fall into different fields.
- `MaxCalls` 2, `MaxSteps` 3: an image load that fails after one that did not, a write into code
  followed by its execution, and steps on either side.

### Fairness

- The clock ticks: weak fairness of `CoreNext`, `TopNext`, and of the controller actions of the caches that
  depend on nothing but the clock. In `system` it is the only assumption: whether the slaves and
  the arbiter serve a request follows from their code.
- Memory accepts a request that stays presented and answers what it accepted. Weak fairness is enough
  because the requester holds a request until it is taken (`dm_req_*valid`, `mem_req_sent`) and one
  access is served at a time. `EveryLineAnswered` is the same promise from the side of the
  memory system.
- Nothing is assumed of programs, of redirects, or of a flush of the instruction cache:
  `ReadyAgain` holds however often flushes come.

## 4. What is proved

Each theorem is `Spec => []Inv`, `Spec => [][A]_vars` or a refinement, for every value of the constants that the named
assumptions allow; TLC evaluates the assumptions in the runs of their modules. A step of a proof is one action, and under it one
conjunct that the action can disturb.

**Reorder buffer** (first part of `RenameProofs`; any depth from 2, any words, any uops).

- `RobTypeCorrect`, `RobProgramOrder`: the type invariant and program order. The valid entries are exactly the
  `count_q` tags from the head on, the sequence numbers run consecutively up to `next_seq_q - 1`, and
  the tail is `count_q` places behind the head. Together they are inductive. After
  an ordinary edge each entry is new at the tail, gone at the head, or as before
  (`AdvanceEntries`) and its position moves by the number retired (`AdvanceOrder`); after
  a recovery the ring is empty (`RecoverOrder`).
- `RobInOrderRetirement`: what leaves is the oldest instruction, completed (or a fence, whose interlock is outside the
  buffer), alone or with the second oldest, both ordinary, or everything behind a mispredicted head. Program
  order says which sequence numbers live in the ring (`LiveRange`) and which entries are behind which (`RingOrder`);
  `RobNextEdges` keeps what an edge knew of its retirement, and `RetirementLeaves` and `RecoveryLeaves` are the two
  kinds of edge.
- `RobCompletionKept`: the entry of a slot that keeps its sequence number was not dispatched in this edge, and a second
  completion of it is ignored (`ResultStays`).

Assumptions: `RobDepthAssumption` (two slots, so that a pair can be dispatched), `ZeroAssumption`, `MaxSeqAssumption`,
`UopAssumption`. `ROB_DEPTH` need not be a power of two.

**Renaming** (`RenameProofs`; any buffer depth, register counts, words and instructions; any bundle, completion and
recovery its ports allow).

- `RegistersNeverLeak`: each physical register but 0 is free, or named by the committed map, or the destination of one
  waiting instruction, and only one of these.
- `MapsNameProducers`: both maps and each instruction's `old_pdst` name the youngest older writer of their register.
- `ResultsAlwaysAgree`: a register is ready exactly if its writer has completed, and then holds the writer's result.
- `RegistersArePrecise`: the registers under the committed map change only by retirement and as the retired
  instructions say.

They are proved from one inductive invariant, `RenameInv`: types, the buffer's `ProgramOrder`, the chain, the
partition and the agreement of results. The chain is why the partition holds: what a committing writer releases is
its `old_pdst`, and only the chain says that this is the register the committed map is about to forget, so
that nothing is released twice. A recovery rebuilds the free list from the committed map, and the
partition afterwards says that every register is in one of the two (`RecoverKeeps`). The chain is followed through an
edge by position: `AdvanceMoves` says where each entry goes, `WritersAfter` that the writers after an edge are those
that stay and those dispatched, `CommitMoves` and `Allocates` what the maps become. `BusNames` is needed for the
results: the bus writes registers by their number, and a number that a lane names belongs to the
instruction that the lane completes. The lemmas are about one clock edge under `RenameInput`, what the ports promise,
and not about an environment.

Assumptions: those of the reorder buffer, `RegCountAssumption` and `DecodedAssumption` (a decoded instruction's
destination is an architectural register, not `x0` if it writes, and remains a decoded uop whatever registers renaming gives it).

**Core** (`CoreProofs`; any programs, any depth of buffer, station and queue, any register counts, word size and
multiplication latency, any latency of memory).

- `BusAlwaysHonest`: what a producer offers the bus is for an instruction in flight that has not completed, under its
  own register, and no two offers are for the same instruction.
- `EntriesAlwaysOwned`: each station and queue entry has one unfinished instruction in flight, and a queue entry that waits
  for its address still has the station entry that will bring it.
- `NothingSpeculative`: no access is presented or served behind an older control instruction or fence; a
  recovery finds the memory pipeline idle.
- `OperandsAlwaysSound`: a waiting operand has an older unfinished producer, a captured one the value of its register.
- `CoreImplementsIsa`: the refinement of the sequential machine (`ImplementsIsa`), for every program.
- `RenamingHolds`, `CoreIsPrecise`: the invariants of renaming and the precision of registers, with the producers and the
  admission of the core in place of the environment of `Rename`.

All but `CoreImplementsIsa` are proved from one inductive invariant,
`CoreInv == RenameInv /\ CoreTypes /\ UnitsOwned /\ OperandsFollow`.

- `UnitsOwned` says *who answers for an instruction that waits*: where it is (station, queue, request, multiply/divide unit,
  loaded value, store completion) and also where it is no more. A result on offer is the only one for its
  tag because the instruction of a multiplication has no station entry, that of a loaded value no queue entry, and a
  memory instruction whose address is missing is still in the station (`OffersDiffer`). `BusHonest` alone is not
  inductive: it says nothing of the entry that will offer a second result in a later cycle.
- `OperandsFollow` says that an operand is under the name its register had when its instruction was dispatched,
  and is ready exactly if that physical register is. `OperandsSound` follows, but does not imply it: it would let an
  operand wait for the wrong older instruction. Names are those of `RenameChain`. An operand that
  stays keeps its name although the instructions around it commit (`OldOperand`); a new one reads the map, the first
  instruction of its bundle and the bus of this very cycle (`NewNames`, `NewOperand`).
- That nothing speculative is served follows from `RequestOwned`, `LoadOwned` and `MemoryServes`: the request and the loaded
  value have no barrier before them, and dispatch cannot add one, since what it brings is younger (`NoNewBarrier`). When a
  control instruction recovers it is the head, everything else is younger than this barrier, and so neither a request nor a result can
  be there (`RecoveryQuiet`).

A cycle is an ordinary edge or a flush (`CycleIsEdge`, `FlushStep`). `CycleWires` evaluates the nets once and discharges what
`RenameProofs` assumes of its ports: the bus lanes name unfinished instructions by their own registers (`BusIs`), and
admission leaves room in every unit (`Room`, `StationPlaces`, `QueuePlaces`). After that there is one lemma per unit and conjunct
(`StationsStep`, `QueuesStep`, `MulDivStep`, `LoadStep`, `StoreStep`, `RequestStep`, `MemoryStep`, `OperandsStep`, `TypesStep`).

`CoreInv` says who answers for a result, not what the result is. For `CoreImplementsIsa` a second invariant, `ExactInv`, is
proved over it:

- *Values.* `Reads(r, m, v)`: a reader behind the first `m` instructions in flight finds the value `v` in register `r`. `Exact` says of
  a result, wherever it is (buffer, multiply/divide unit, loaded value), that it is computed from operands
  read at the instruction's position, and of a control instruction that its target is too and that `mispredict`
  tells whether that is the next instruction; `Addressed` says the same of addresses and store data in the queue and in the request. As the
  instructions before it retire, a reader moves up and finds the same values (`ReadsKept`), so what is exact stays exact
  (`ExactKept`, `AddressedKept`).
- *Memory.* A loaded value is that of memory *now*, and stays so since no older memory instruction is
  left in the queue (`NoOlder`): a store is performed only at the head, when no load behind it has been answered (`StoreAlone`).
- *Program counters.* The instructions in flight and the fetch address are consecutive (`PcsFollow`).
- *Stores.* Only the store at the head can have left the queue (`StoresQueued`), so a store counts as executed from
  the cycle memory performs it, once (`PerformedAfter`).

At the head nothing is in flight before the reader, so what it reads is the architectural file (`HeadReads`); what the second
retiring instruction reads is that file after the first (`SecondReads`); so each takes the step of the sequential machine
(`StepDone`, `StepStore`). There is then a lemma per kind of cycle: a store is performed
(`StoreStepsOnce`), nothing happens, one retires (`OneRetires`: a step, or none for a store performed before), two retire
(`TwoRetire`), the head recovers (`RecoverySteps`). TLC confirmed `ExactInv`, with `PcsFollow` over the
positions of the buffer, on the instance of `core` before it was proved.

Assumptions: those of renaming, `WordsAssumption`, `RsDepthAssumption`, `LsqDepthAssumption` (two slots, for a pair),
`LatencyAssumption`, `CoreWordsAssumption` (words, addresses and values of the buffer are those of the
instructions) and `ProgramsAssumption` (programs consist of instructions of `RV` over the architectural registers, and
decoding one gives a decoded uop). The front end is an in-order stream, as `QueueIsStream` proves of the
instruction queue, and memory is the one of `DmTick`.

**Load/store queue** (`LsqProofs`; any depth and window, any latency of memory, a flush in any cycle).

- `ResponsesFindRequests`, `ResultsFresh`, `StoresAtHead`, `AccessesInOrder`: the four properties of `lsq_unit`.
  They are proved from one inductive invariant, `IInv`: the window holds consecutive instructions (`WindowOK`); an entry
  belongs to one instruction in flight that has not completed, and comes after everything performed (`EntriesOK`); a
  request keeps its entry, which stays the oldest, and the head of the window if it writes (`RequestOK`); the access memory
  serves lies between those performed and those waiting, also when it was flushed, and the history of those performed is
  increasing (`MemoryOK`, `HistoryGrows`); and the instruction of
  a result has *no entry any more* (`ResultOK`). The last is why it is needed: results find their instruction by tag, and
  a completion must not mark one whose access is still to come. `TagNames` shows that a tag names one instruction as long as
  the window is no longer than the range of tags. `TickIsEdge` evaluates the handshake wires once
  (an answer reaches the request or the flushed access, never both); after that there is a lemma per part of
  `IInv` for an ordinary edge, and `FlushInvariant` for a flush.

Assumptions: `LsqDepthAssumption`, `WindowAssumption`.

**Instruction queue** (`InstrQueueProofs`; any depth, line length, address space and latency, any redirects).

- `ResponsesPaired`: memory owes the stale responses and then those of the waiting lines, in ring order.
- `QueueIsStream`: the refinement of `FetchStream`. The inductive invariant reads the ring by *places*, counted from
  the read pointer: the first `Filled` places hold lines, the first `Held` are requested or filled
  (`PointersOrdered`), each line is followed by the next one of the address space and the last by `fetch_pc_q`
  (`Consecutive`), and the requests under way match places `Filled` to `Held - 1` (`Owed`). Without
  `Consecutive` the words would be lines in some order; without `Owed` a response could fill another line.
  `Places` and `Distances` turn the wrapping pointers into places once and for all; then a cycle adds a place, fills one
  and takes one (`PointerStep`, `SlotStep`, `PlaceStep`), and a redirect empties all (`RedirectStep`). `StreamMoves`
  says where the stream goes on after the words a cycle takes.

Assumption: `QueueAssumption`. The depth need not be a power of two, as the RTL's index slicing has it.

**Instruction cache** (`IcacheProofs`; any sets, ways, tags and number of rewrites).

- `CachedLinesFresh`, `AnswersFresh`: no cached line, and no line given to the CPU, is older than the last flush.
  The inductive invariant `IInv` adds four facts to `CachedAfterFlush`: types; what is *pending* in each controller
  state (`Pending`: which request is captured, whether memory owes an answer, whether it will be drained);
  that a line in the refill register or on the way is not older than the flush *unless it is being drained*
  (`NotStale`); and that the registered hit of the last cycle points at a way that holds the captured
  line (`LookedUp`). `NotStale` is why it is needed: the miss under way when a flush comes does carry an old line, and
  only the drain keeps it from the cache and the CPU. A hit way exists because a nonempty set of ways
  has a least element (`LeastElement`, by well-founded induction on initial segments).

**Data cache** (`DcacheProofs`; any sets, ways, tags, line length and access length, any stores, a memory that answers
late or fails).

- `FilledOldestFirst`: no line is cached twice and the ages of a set order its ways. The ages of `k` valid ways are
  the `k` highest, each once (`Aged`); `OldestExists` counts them, so a full set has a way of age zero and the victim
  is the way filled first (`VictimIs`, `RefillAges`).
- `CleanLinesMatch`: a line that is not dirty equals memory.
- `CacheIsMemory`: the refinement of `ByteMemory`. What an address holds (`held`) is kept by a refill, which may drop
  its victim since memory has the same (`RefillKeeps`), and by a write-back (`WriteBackKeeps`); a store changes the
  bytes it names and no others (`StoreKeeps`, `SpaceStored`). A load returns the bytes of its addresses, also when it runs over
  the end of a line or of the address space (`LoadedIs`, `WordRead`). There is a lemma per action that says which abstract step it is
  (`AcceptServed`, `DoneServed`, `RespondServed`, ...).

All three come from one inductive invariant, `IInv`. `CleanMatchesMemory` is not inductive by itself: `Missing` says that
in `WRMEM` the buffer holds the dirty victim of the missing line, and in `RDMEM` that the victim may be dropped, which is what
makes the refill safe; `Sent` that memory works on that very line; `LookedUp` that a hit is still one when its port
fires a cycle later, and that a store in `BUSY` has fired; `InService` what is known of the captured request, such as that a store
stays in its line; `HalfKept` that the first half of a load over two lines is still what its line holds after the second line
was fetched, for which a dirty victim, perhaps the first line itself, may have been written back.

Assumptions: `WaysAssumption`, `DcacheAssumption` (an access is not longer than a line).

**Memory system** (`MemorySystemProofs`; any burst length, counter width at least as long as a burst, memory map and set of slips).

- `PathsAlwaysAgree`: adapters, arbiter, decoder and slaves agree whose burst is under way and where it goes.
- `ErrorsAlwaysDeserved`: an answer is an error exactly if the line does not exist or its own burst slipped.
  `IInv` is `RegistersOK /\ PathsAgree /\ Routed /\ ReadCounted /\ WriteCounted`. `Routed`: the recorded target
  is that of the address. `ReadCounted`: as long as an adapter has seen nothing wrong, its beat count is that of the RAM,
  whatever length the RAM has read; so a wrong length is noticed at the first beat at which one of them is at its end
  and the other is not. `WriteCounted`: a write's beats are in step in adapter and slave. There is a lemma per unit
  (`IcacheStep`, `ArbiterStep`, `RamReadStep`, ...) and one per conjunct over the units.
  `Handshakes` says that every handshake of this system happens in the cycle in which it can: no unit ever waits for
  another but the arbiter's masters.
- `MemoryIsLines`: `SystemSpec => ImplementsLineMemory`, the line memory that the runs of both caches assume. `IInv` knows
  nothing of data; `LinesInv` adds it. `WriteUnderWay`: the line in RAM is the new one at the beats that have
  arrived and the old one (`before`) at the rest. `InstrReadFresh`: whatever RAM holds of a line being fetched, the fetch may see.
  `ReadUnderWay`: as long as a burst has not slipped, the word the RAM has ready and the words the adapter has
  gathered may all be given to its master; for the data cache that is the line itself, since only its own
  writes change RAM (`RamStep`). `InstrSide` and `DataSide` map each clock to one step of each port.
  The proof found a fault in `LineMemory`: two arms of a `CASE` overlapped for a failed write, which lets an arm be
  chosen that no answer satisfies. TLC takes the first arm and never saw it; the arms are now disjoint.

Assumptions: `BeatsAssumption`, `RamAssumption`, `WindowAssumption`, `MemorySystemAssumption` (the RAM lies in its
window, the windows are disjoint, a faithful burst is possible).

**Fault register** (also `MemorySystemProofs`): `FirstFaultReported`. `FirstFaultKept` is inductive by itself:
it ties the fault register, the pulses of this cycle and the history together, and uses nothing of the memory side.

**Reference model** (`CModelProofs`; any word width, images and calls).

- `TracesAreComplete`: the machine rebuilt from calls and traces *is* the machine. `IInv` adds `RegsOK` (`x0` is zero),
  without which a trace with `write_rd` off could hide a write to `x0`.
  `CommitTraced`, `CommitShape`, `StoreTraced` say it for what one instruction commits.
- `TracesAreHonest`: each trace shows the instruction and the load data that the rebuilt machine has at those
  addresses (`FetchPeeks`).

Assumptions: `XlenAssumption`, `RegsAssumption`, `CModelAssumption`.

**Instruction words** (also `CModelProofs`; any of the five formats, any number of ones, where the run stops at
`MaxOnes`).

- `LayoutShared`: `AssembledBack`. `PlacedBits` says
  where a shifted field of the assembler ends up; `WireBack` joins it with the decoder's wires, field by field, so
  that each bit of an immediate comes back to the position it was wired from and the sign copies go nowhere;
  `ImmPositions` lists the positions of each format, from which the other fields are disjoint.
- `ImmediatesRead`: `ImmediatesAgree`. A field is a fold over the positions of its ones in an order left open.
  `FoldIsTotal` shows that the fold is the explicit sum `total`, whatever the order: removing any position takes its
  weight away (`TotalRemove`), and 32 steps reach every set of positions, so that no induction is needed. The
  lemmas `Field_hi_lo` then spell out the twelve fields, `DecodedBit` the wires, and `ImmI` to `ImmU` compare two
  linear sums, in which `SignFilled` folds the copies of the sign.

Assumption: `EncodingAssumption`.

**Function units** (also `CModelProofs`; any instructions, operands and program counters).

- `RejectedAlwaysInert`: `RejectedInert`, for every word width. Only the two classifications matter.
- `UnitsRetireTheModel`: `RetireAgrees`, for `Rv32` and every supported instruction. One lemma per unit: `AdderCompares` (the flags of `a - b`
  decide all six comparisons, overflow included), `AdderAdds`, `ShifterShifts` (`FiveStages` writes the recursion over
  the stages out, `StageShifts` adds distances), `MultiplierMultiplies` (the upper word of a product of signed readings),
  `DividerDivides`, `ExtenderExtends`; then `SameCommit`, `SameTarget`, `SameAccess` and
  `SameData` for the parts of what retires.
- `ModelArithmetic`: `ArithmeticLaws`, for `Rv32`. `TruncatedDivision` is the law over the integers; `DivisionObeysLaw`
  brings it to words, where only `SignBit / AllOnes` overflows; `ProductObeysLaw` compares the readings of one product.

Assumptions: `ExecuteAssumption`, `XlenAssumption`; `Rv32` (`XLEN = 32`, `SHAMT = 5`, the parameters of the
code) where named, because the prover has no law of exponents and the powers of two must be numbers. The run
`decode` covers 8-bit words, the proof 32-bit ones. The proofs found arms of `CASE` in `Execute` that
overlapped (`unit`, `target`, `lane_value`, `divC`): TLC takes the first that applies, TLA+ leaves the choice open.
They are disjoint now.

## 5. What is only model-checked

Every invariant, action property and refinement of the passing runs is a theorem. Liveness (`HeadLeaves`,
`NeverStarves`, `EveryAccessAnswered`, `ReadyAgain`, `EveryLineAnswered`) stays with TLC: liveness under fairness
and `ENABLED` are out of reach of the prover. So is induction over data, which is why `RetireAgrees` and
`ArithmeticLaws` are proved at the width of the code and not at every width.

Facts worth knowing that the runs show:

- No data request is in flight when the core
  recovers (`NoSpeculativeAccess`), so the drop path of the load/store queue is never taken in
  the composed core, and only `lsq_unit` and `LsqProofs`, where a flush may come at any time, reach it.
- A fence cannot wait for a load that waits for it, because loads younger than the fence are held back
  before they become a request.
- Neither cache can starve the other at the arbiter, but not because priority alternates: an adapter
  needs a cycle between two bursts, in which the other is chosen. The alternation is not observable in the composition.
- The data port of the memory side is exact, the instruction port is not: a fetch while the data cache writes back the
  same line may see some words old and some new. The flush that would matter for it is tied low
  (`mycore_system.v:240`): self-modifying code has no promise here, and no property states one.

## 6. Finding

`Dcache.v:505` decides that a load spans two lines from its offset alone
(`req_offset_now + 3 >= DM_LINE_BYTES`): the size of a load does not reach the cache. A byte or
halfword load at line offset 13-15 therefore also reads the next line. Inside RAM that costs time;
in the last line of RAM the next line does not exist, memory answers with an error, and
the load, naturally aligned and inside the RAM window (README.md:59 and 62), is answered with zero and a
fault. `MCDcacheEdge` makes the last line of the model the one that does not exist and shows it.

Also noticed: a data request of the cache needs an answer *after* the cycle in which it is
accepted, since the acceptance branch comes first (`Dcache.v:519`, `535`); the adapters register
their answers, and `test_bench/cache_uvm` drives them so. Models of the line memory keep that contract.

## 7. Not modelled

- The port of `cache_axi_memory_system.v` that bypasses the caches (`use_cache` = 0), its monitor outputs, and the
  tasks that load an image into the RAM: simulation aids beside the path modelled.
- The slips of a faulty slave cover reads. A write burst that the RAM would find malformed cannot be
  made by the adapter, and its error flags are in `AxiSlaves` but never set by a run.
- The caches over the memory side in one module, and the core over the caches: each is checked against the abstract
  memory that the next one is shown to implement.
- `reg_PC.v`: not instantiated. `csrc`, `scripts`, `test_bench`: workloads, build and tests,
  with no state of the system; the test bench was read for the port contracts. The loop of
  `C_model/main.cpp`, which steps the model and prints.
- Loads and stores that are not naturally aligned and stores over two lines: outside the contract.
- Traps and interrupts: the core has none.
- Type invariants of modules other than `Rob` are conjuncts of the inductive invariants of the
  proofs, where there are proofs, and not runs of their own.

## 8. What could come next

1. A composition of the instruction queue, instruction cache and memory side, for how long a redirect can wait.

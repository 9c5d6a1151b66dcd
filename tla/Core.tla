-------------------------------- MODULE Core --------------------------------
(***************************************************************************)
(* The dual-issue out-of-order core (src/dut/mycore/mycore.v): an in-order *)
(* stream of fetched instructions, two-wide decode and rename, reservation *)
(* station, two integer lanes, multiply/divide unit, load/store queue,     *)
(* two-lane bus, in-order retirement and recovery at the head.             *)
(*                                                                         *)
(* One step is one clock cycle.  What the core does not control is chosen  *)
(* in every cycle: how many instructions the front end has ready, whether  *)
(* the data memory accepts the request and whether it answers.             *)
(***************************************************************************)
EXTENDS RV, Rename, ReservationStation, Lsq, MulDiv, Cdb

CONSTANT Programs     \* programs under test

\* The words of the buffer, the bus and the register file are those of the
\* instruction set.
ASSUME CoreWordsAssumption == Word = Data /\ Addr = Data /\ Value = Data

VARIABLES
  prog,       \* instruction memory
  fetch_pc,   \* program counter of the next instruction to dispatch
  mem,        \* data memory
  dm_q        \* the transaction the data memory is working on

coreVars == <<renameVars, rs_q, lsqVars, md_q, prog, fetch_pc, mem, dm_q>>
----------------------------------------------------------------------------
(***************************************************************************)
(* Decode.                                                                 *)
(***************************************************************************)
ClassOf(op) ==
  CASE op \in {"add", "addi"} -> "alu"
    [] op = "mul" -> "muldiv"
    [] op = "lw" -> "load"
    [] op = "sw" -> "store"
    [] op \in Control -> "control"
    [] op = "fence" -> "fence"
    [] OTHER -> "invalid"

decode(pc, i) ==
  [pc |-> pc, ins |-> i, class |-> ClassOf(i.op), supported |-> i.op # "illegal",
   writes |-> sel_rd(i.op) /\ i.rd # 0, rd |-> i.rd,
   rs1_used |-> i.op \in {"add", "addi", "mul", "lw", "sw", "beq", "jalr"},
   rs2_used |-> i.op \in {"add", "mul", "sw", "beq"},
   pdst |-> 0, old_pdst |-> 0]

\* The one or two instructions at the head of the instruction queue.
slots(avail) ==
  [k \in 1 .. avail |->
     LET pc == plus(fetch_pc, k - 1) IN decode(pc, prog[pc])]

\* Instructions name architectural registers, and decode to what is renamed.
ASSUME ProgramsAssumption ==
  \A p \in Programs, pc \in Data :
    /\ p[pc].op \in Op /\ p[pc].rs1 \in Arch /\ p[pc].rs2 \in Arch /\ p[pc].imm \in Data
    /\ decode(pc, p[pc]) \in Decoded

needs_rs(i) == i.supported /\ i.class # "fence"
needs_lsq(i) == i.class \in {"load", "store"}
Count(s, T(_)) == Cardinality({k \in 1 .. Len(s) : T(s[k])})
----------------------------------------------------------------------------
(***************************************************************************)
(* Admission (hazard.v).                                                   *)
(***************************************************************************)
fits(s) ==
  /\ rob_free_count >= Len(s)
  /\ Cardinality(free_mask) >= phys_need(s)
  /\ Cardinality(rs_free) >= Count(s, needs_rs)
  /\ Cardinality(lsq_free) >= Count(s, needs_lsq)

slot0_can_dispatch(s, recover) ==
  /\ Len(s) >= 1 /\ ~recover
  /\ fits(SubSeq(s, 1, 1))
  /\ ~(s[1].class = "control" /\ any_control)
  /\ ~(s[1].class = "fence" /\ any_fence)

slot1_can_dispatch(s, recover) ==
  /\ slot0_can_dispatch(s, recover)
  /\ Len(s) = 2
  /\ fits(s)
  /\ \A k \in 1 .. 2 : s[k].class \notin {"control", "fence"}

dispatch_count(s, recover) ==
  IF slot1_can_dispatch(s, recover) THEN 2
  ELSE IF slot0_can_dispatch(s, recover) THEN 1 ELSE 0

fence_complete == head_is_fence /\ memory_idle
----------------------------------------------------------------------------
(***************************************************************************)
(* Execution and the bus.                                                  *)
(***************************************************************************)
Only(S) == CHOOSE x \in S : TRUE

BusResult(tag, value, writes, pdst) ==
  [valid |-> TRUE, tag |-> tag, value |-> value, control |-> FALSE, target |-> 0,
   mispredict |-> FALSE, writes |-> writes, pdst |-> pdst]

\* An integer lane (controller.v): the next instruction is always predicted to
\* be the sequential one.
executed(e) ==
  LET v1 == e.src1.value
      v2 == e.src2.value
      target == Target(e.uop.ins, e.uop.pc, v1, v2)
      control == e.uop.class = "control"
  IN [valid |-> TRUE, tag |-> e.rob, value |-> Result(e.uop.ins, e.uop.pc, v1, v2),
      control |-> control, target |-> target,
      mispredict |-> control /\ target # pc_plus_4(e.uop.pc),
      writes |-> e.uop.writes, pdst |-> e.uop.pdst]

\* The four producers in order of priority; none speaks in a recovery cycle.
requests(recover) ==
  <<IF load_q.valid /\ ~recover
    THEN BusResult(load_q.rob, load_q.value, load_q.writes, load_q.pdst) ELSE CdbQuiet,
    IF md_q.result_valid /\ ~recover
    THEN BusResult(md_q.rob, md_q.value, md_q.writes, md_q.pdst) ELSE CdbQuiet,
    IF int0 # {} /\ ~recover THEN executed(rs_q[Only(int0)]) ELSE CdbQuiet,
    IF int1 # {} /\ ~recover THEN executed(rs_q[Only(int1)]) ELSE CdbQuiet>>

\* The multiply/divide operation handed over this cycle.
m_start(recover) ==
  {[value |-> Result(rs_q[i].uop.ins, rs_q[i].uop.pc, rs_q[i].src1.value, rs_q[i].src2.value),
    rob |-> rs_q[i].rob, pdst |-> rs_q[i].uop.pdst, writes |-> rs_q[i].uop.writes] :
     i \in {j \in m_lane : start_ready /\ ~recover}}

\* Address generation captures the oldest ready memory instruction.
agu(recover) ==
  IF lsu_lane = {} \/ recover THEN [valid |-> FALSE]
  ELSE LET e == rs_q[Only(lsu_lane)]
       IN [valid |-> TRUE, index |-> e.lsq,
           addr |-> EffectiveAddr(e.uop.ins, e.src1.value), wdata |-> e.src2.value]

\* Mutant of issued: integer lane 1 stays in the station after its grant.
issued_but_kept(recover, grants) ==
  (IF 3 \in grants THEN int0 ELSE {})
  \cup (IF m_start(recover) # {} THEN m_lane ELSE {})
  \cup (IF recover THEN {} ELSE lsu_lane)

\* Mutant of issued: integer lane 1 leaves although the bus did not take it.
issued_ungranted(recover, grants) ==
  (IF 3 \in grants THEN int0 ELSE {}) \cup (IF recover THEN {} ELSE int1)
  \cup (IF m_start(recover) # {} THEN m_lane ELSE {})
  \cup (IF recover THEN {} ELSE lsu_lane)

\* The reservation-station entries that leave, given which producers the bus
\* takes.
issued(recover, grants) ==
  (IF 3 \in grants THEN int0 ELSE {}) \cup (IF 4 \in grants THEN int1 ELSE {})
  \cup (IF m_start(recover) # {} THEN m_lane ELSE {})
  \cup (IF recover THEN {} ELSE lsu_lane)
----------------------------------------------------------------------------
(***************************************************************************)
(* Dispatch into the reservation station and the load/store queue.  d is   *)
(* the sequence of decoded instructions dispatched this cycle.             *)
(***************************************************************************)
\* Source register r of slot k: the tag it is renamed to, and what the
\* register file says of it.
source(d, k, used, r, cdb0, cdb1) ==
  LET tag == IF k = 1 THEN src0_tag(used, r) ELSE src1_tag(used, r, d[1])
      u == renamed(d)
  IN Operand(used, tag, read_ready(tag, u, cdb0, cdb1), read_data(tag, u, cdb0, cdb1))


\* Mutant of lsq_index: both lanes take the same queue slot.
lsq_index_shared(d, k) == first_free_index

lsq_index(d, k) ==
  IF k = 2 /\ needs_lsq(d[1]) THEN second_free_index ELSE first_free_index

rs_index(d, k) == IF k = 2 /\ needs_rs(d[1]) THEN free_index1 ELSE free_index0

\* The station entry of slot k.
rs_entry(d, k, cdb0, cdb1) ==
  RsEntry(renamed(d)[k], next_seq_q + k - 1, After(tail_q, k - 1), lsq_index(d, k),
          source(d, k, d[k].rs1_used, d[k].ins.rs1, cdb0, cdb1),
          source(d, k, d[k].rs2_used, d[k].ins.rs2, cdb0, cdb1))

rs_new(d, cdb0, cdb1) ==
  LET K == {k \in 1 .. Len(d) : needs_rs(d[k])}
  IN [i \in UNION {rs_index(d, k) : k \in K} |->
        rs_entry(d, CHOOSE k \in K : i \in rs_index(d, k), cdb0, cdb1)]

\* The queue entry of slot k.
lsq_entry(d, k) ==
  LsqEntry(d[k].class = "store", next_seq_q + k - 1, After(tail_q, k - 1),
           renamed(d)[k].pdst, d[k].writes)

lsq_new(d) ==
  LET K == {k \in 1 .. Len(d) : needs_lsq(d[k])}
  IN [i \in {lsq_index(d, k) : k \in K} |->
        lsq_entry(d, CHOOSE k \in K : lsq_index(d, k) = i)]
----------------------------------------------------------------------------
(***************************************************************************)
(* The data memory: one transaction at a time, taking effect when it is    *)
(* answered, in the cycle of the request or any later one.                 *)
(***************************************************************************)
DmIdle == [busy |-> FALSE, write |-> FALSE, addr |-> 0, data |-> 0]
DmRequest == [busy |-> TRUE, write |-> req_q.write, addr |-> req_q.addr,
              data |-> req_q.wdata]

\* The transaction in service, counting a request accepted in this cycle.
serving(accept) == IF accept THEN DmRequest ELSE dm_q

DmIO(accept, answer) ==
  [rready |-> accept, wready |-> accept,
   rresp |-> answer /\ ~serving(accept).write,
   wresp |-> answer /\ serving(accept).write,
   rdata |-> mem[serving(accept).addr]]

DmTick(accept, answer) ==
  /\ dm_q' = IF answer THEN DmIdle ELSE serving(accept)
  /\ mem' = IF answer /\ serving(accept).write
            THEN [mem EXCEPT ![serving(accept).addr] = serving(accept).data]
            ELSE mem
----------------------------------------------------------------------------
(***************************************************************************)
(* One clock cycle.                                                        *)
(***************************************************************************)
\* The bound variables below are the wires of the cycle.
CoreTick(avail, accept, answer) ==
  \E recover \in {recovery(fence_complete)}, s \in {slots(avail)} :
  \E d \in {SubSeq(s, 1, dispatch_count(s, recover))}, req \in {requests(recover)} :
  \E cdb0 \in {lane(req, 1)}, cdb1 \in {lane(req, 2)} :
  \E new \in {rs_new(d, cdb0, cdb1)}, gone \in {issued(recover, granted(req))} :
  /\ RenameTick(d, cdb0, cdb1, IF store_q.valid THEN {store_q.rob} ELSE {}, fence_complete)
  /\ RsTick(new, gone, cdb0, cdb1, recover)
  /\ LsqTick(lsq_new(d), agu(recover), [is_store |-> head_is_store, tag |-> head_q],
             {rob_q[t].seq : t \in InFlight({"control", "fence"})},
             DmIO(accept, answer), 1 \in granted(req), recover)
  /\ MdTick(m_start(recover), 2 \in granted(req), recover)
  /\ DmTick(accept, answer)
  /\ fetch_pc' = IF recover THEN rob_q[head_q].target ELSE plus(fetch_pc, Len(d))
  /\ UNCHANGED prog

\* The front end stops at MaxSeq instructions: a bound of the model.
Cycle(avail, accept, answer) ==
  /\ avail <= MaxSeq - next_seq_q
  /\ accept => ~dm_q.busy /\ (rvalid(recovery(fence_complete)) \/ wvalid(recovery(fence_complete)))
  /\ answer => dm_q.busy \/ accept
  /\ CoreTick(avail, accept, answer)

CoreInit ==
  /\ RenameInit /\ RsInit /\ LsqInit /\ MdInit
  /\ prog \in Programs
  /\ fetch_pc = 0
  /\ mem = [a \in Data |-> 0]
  /\ dm_q = DmIdle

CoreNext == \E avail \in 0 .. 2, accept, answer \in BOOLEAN : Cycle(avail, accept, answer)

CoreSpec == CoreInit /\ [][CoreNext]_coreVars
----------------------------------------------------------------------------
(***************************************************************************)
(* Properties.                                                             *)
(***************************************************************************)
(***************************************************************************)
(* What the core promises: its registers under the committed map, its data *)
(* memory and the program counter of the oldest instruction in flight are  *)
(* the state of the sequential machine.  A store takes effect when memory  *)
(* performs it, before it retires: its queue entry is gone, it is still    *)
(* the head.                                                               *)
(***************************************************************************)
store_performed ==
  head_is_store /\ \A i \in LsqIndex : lsq_q[i].valid => lsq_q[i].rob # head_q

arch_pc ==
  IF ~head_valid THEN fetch_pc
  ELSE IF store_performed THEN pc_plus_4(rob_q[head_q].uop.pc)
  ELSE rob_q[head_q].uop.pc

Sequential == INSTANCE Isa WITH arch <- [pc |-> arch_pc, regs |-> regs, mem |-> mem]
ImplementsIsa == Sequential!IsaSpec

(***************************************************************************)
(* The bus speaks only to instructions that wait: whatever a producer      *)
(* offers names an instruction in flight that has not completed, under the *)
(* register it was renamed to; no two producers name the same one; a store *)
(* completion names the head.  Reorder buffer and register file believe    *)
(* what they hear, so a late result would corrupt a recycled tag.          *)
(***************************************************************************)
BusHonest ==
  LET req == requests(recovery(fence_complete))
  IN /\ \A k \in 1 .. 4 : req[k].valid =>
          LET e == rob_q[req[k].tag]
          IN /\ e.valid /\ ~e.ready
             /\ req[k].writes = e.uop.writes /\ req[k].pdst = e.uop.pdst
             /\ req[k].control <=> e.uop.class = "control"
     /\ \A k, l \in 1 .. 4 : req[k].valid /\ req[l].valid /\ k # l => req[k].tag # req[l].tag
     /\ store_q.valid => head_is_store /\ store_q.rob = head_q /\ ~rob_q[head_q].ready

(***************************************************************************)
(* No wake-up is lost and none is wrong: an operand that waits has an      *)
(* older producer in flight that has not completed, and an operand that    *)
(* was captured holds the value of its register.                           *)
(***************************************************************************)
OperandSound(e, s) ==
  s.used =>
    IF s.ready THEN s.tag # 0 => reg_value[s.tag] = s.value
    ELSE \E t \in Writers : Dst(t) = s.tag /\ ~rob_q[t].ready /\ rob_q[t].seq < e.seq
OperandsSound ==
  \A i \in RsIndex : rs_q[i].valid => /\ OperandSound(rs_q[i], rs_q[i].src1)
                                      /\ OperandSound(rs_q[i], rs_q[i].src2)

(***************************************************************************)
(* Every entry of the reservation station and of the load/store queue      *)
(* belongs to an instruction in flight that has not completed, no two to   *)
(* the same one, and a memory instruction that has not been through        *)
(* address generation is in both.                                          *)
(***************************************************************************)
Owns(e) ==
  /\ rob_q[e.rob].valid /\ ~rob_q[e.rob].ready
  /\ rob_q[e.rob].seq = e.seq
EntriesOwned ==
  /\ \A i \in RsIndex : rs_q[i].valid => Owns(rs_q[i])
  /\ \A i, j \in RsIndex : rs_q[i].valid /\ rs_q[j].valid /\ i # j => rs_q[i].seq # rs_q[j].seq
  /\ \A i \in LsqIndex : lsq_q[i].valid =>
       /\ Owns(lsq_q[i])
       /\ lsq_q[i].is_store <=> rob_q[lsq_q[i].rob].uop.class = "store"
       /\ lsq_q[i].addr_valid
            \/ \E j \in RsIndex : rs_q[j].valid /\ rs_q[j].seq = lsq_q[i].seq /\ rs_q[j].lsq = i
  /\ \A i, j \in LsqIndex : lsq_q[i].valid /\ lsq_q[j].valid /\ i # j => lsq_q[i].seq # lsq_q[j].seq

(***************************************************************************)
(* No speculative access: a request that is presented to or served by the  *)
(* data memory belongs to an instruction in flight with no control or      *)
(* fence before it, a store to the head.  So recovery never meets a        *)
(* transaction, and a fence retires with none in progress.                 *)
(***************************************************************************)
NoSpeculativeAccess ==
  /\ req_q.pending \/ req_q.busy =>
       /\ rob_q[req_q.rob].valid /\ ~rob_q[req_q.rob].ready
       /\ ~BarrierBefore(rob_q[req_q.rob].seq)
       /\ req_q.write => req_q.rob = head_q
  /\ dm_q.busy <=> req_q.busy
  /\ recovery(fence_complete) => memory_idle
  /\ ~drop_q.active

(***************************************************************************)
(* Every instruction that heads the reorder buffer leaves it: producers,   *)
(* bus, memory pipeline and fence interlock never wait on each other, as   *)
(* long as the clock ticks and the memory accepts and answers requests.    *)
(***************************************************************************)
HeadLeaves == \A t \in Tag : count_q # 0 /\ head_q = t ~> head_q # t

Ticking == WF_coreVars(CoreNext)
MemoryAccepts == WF_coreVars(\E avail \in 0 .. 2, answer \in BOOLEAN : Cycle(avail, TRUE, answer))
MemoryAnswers == WF_coreVars(\E avail \in 0 .. 2, accept \in BOOLEAN : Cycle(avail, accept, TRUE))
CoreFairSpec == CoreSpec /\ Ticking /\ MemoryAccepts /\ MemoryAnswers
=============================================================================

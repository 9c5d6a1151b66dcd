----------------------------- MODULE CoreProofs -----------------------------
(***************************************************************************)
(* Proofs about the composed core, for every program and every size of its *)
(* buffer, station, queue and register file.  The edge of the buffer, the  *)
(* maps and the register file is that of RenameProofs; here the producers, *)
(* the bus and the memory pipeline are added, and with them what           *)
(* RenameProofs assumes of the bus.                                        *)
(***************************************************************************)
EXTENDS Core, RenameProofs, SequenceTheorems

----------------------------------------------------------------------------
(***************************************************************************)
(* The inductive invariant.                                                *)
(***************************************************************************)
\* The instruction of entry t waits for its result.
Uncompleted(t) == t \in Tag /\ rob_q[t].valid /\ ~rob_q[t].ready

\* No station entry, no queue entry is for the instruction of tag t.
NoStation(t) == \A i \in RsIndex : rs_q[i].valid => rs_q[i].rob # t
NoQueue(t) == \A i \in LsqIndex : lsq_q[i].valid => lsq_q[i].rob # t

Operands == [used: BOOLEAN, tag: Phys, ready: BOOLEAN, value: Data]
Stations == [valid: {TRUE}, uop: Uop, seq: Nat, rob: Tag, lsq: LsqIndex,
             src1: Operands, src2: Operands]
QueueEntries == [valid: {TRUE}, is_store: BOOLEAN, addr_valid: BOOLEAN, issued: BOOLEAN,
                 seq: Nat, rob: Tag, pdst: Phys, writes: BOOLEAN, addr: Data, wdata: Data]
Requests == [pending: BOOLEAN, busy: BOOLEAN, write: BOOLEAN, index: LsqIndex,
             addr: Data, wdata: Data, rob: Tag, pdst: Phys, writes: BOOLEAN]
Loads == [valid: BOOLEAN, rob: Tag, pdst: Phys, writes: BOOLEAN, value: Data]
Operations == [computing: BOOLEAN, count: Nat, result_valid: BOOLEAN, value: Data,
               rob: Tag, pdst: Phys, writes: BOOLEAN]
Transactions == [busy: BOOLEAN, write: BOOLEAN, addr: Data, data: Data]

\* A uop in flight is an instruction of the program, renamed.
Fetched(u) ==
  u.pc \in Data /\ u = RenamedTo(decode(u.pc, prog[u.pc]), u.pdst, u.old_pdst)

CoreTypes ==
  /\ prog \in Programs /\ fetch_pc \in Data /\ mem \in [Data -> Data]
  /\ reg_value \in [Phys -> Data]
  /\ rs_q \in [RsIndex -> Stations \cup {RsFree}]
  /\ lsq_q \in [LsqIndex -> QueueEntries \cup {LsqFree}]
  /\ req_q \in Requests /\ load_q \in Loads /\ store_q \in [valid: BOOLEAN, rob: Tag]
  /\ md_q \in Operations /\ dm_q \in Transactions
  /\ \A t \in Tag : rob_q[t].valid => Fetched(rob_q[t].uop)

(***************************************************************************)
(* Who answers for an instruction that waits.  A station entry: it has not *)
(* been executed, and a memory instruction is in the queue too, without    *)
(* its address.                                                            *)
(***************************************************************************)
StationOwned(e) ==
  /\ Uncompleted(e.rob) /\ rob_q[e.rob].uop = e.uop /\ rob_q[e.rob].seq = e.seq
  /\ e.uop.supported /\ e.uop.class # "fence"
  /\ e.src1.used = e.uop.rs1_used /\ e.src2.used = e.uop.rs2_used
  /\ needs_lsq(e.uop) => LET q == lsq_q[e.lsq] IN q.valid /\ ~q.addr_valid /\ q.rob = e.rob
StationsOwned ==
  /\ \A i \in RsIndex : rs_q[i].valid => StationOwned(rs_q[i])
  /\ \A i, j \in RsIndex : rs_q[i].valid /\ rs_q[j].valid /\ rs_q[i].rob = rs_q[j].rob => i = j

\* A queue entry: memory has not answered, and the address is known or still
\* comes from the station.
QueueOwned(q) ==
  LET e == rob_q[q.rob]
  IN /\ Uncompleted(q.rob) /\ e.seq = q.seq
     /\ e.uop.class = IF q.is_store THEN "store" ELSE "load"
     /\ e.uop.writes = q.writes /\ e.uop.pdst = q.pdst
     /\ ~q.addr_valid => ~NoStation(q.rob)
QueuesOwned ==
  /\ \A i \in LsqIndex : lsq_q[i].valid => QueueOwned(lsq_q[i])
  /\ \A i, j \in LsqIndex : lsq_q[i].valid /\ lsq_q[j].valid /\ lsq_q[i].rob = lsq_q[j].rob => i = j

\* A result of class c that is under way under tag t.
ResultOwed(t, c, writes, pdst) ==
  LET e == rob_q[t]
  IN /\ Uncompleted(t) /\ e.uop.class = c
     /\ e.uop.writes = writes /\ e.uop.pdst = pdst

\* The multiply/divide unit: the station entry is gone.
MulDivOwned ==
  /\ ~(md_q.computing /\ md_q.result_valid)
  /\ md_q.computing \/ md_q.result_valid =>
       ResultOwed(md_q.rob, "muldiv", md_q.writes, md_q.pdst) /\ NoStation(md_q.rob)

\* A loaded value, a store completion: the queue entry is gone.
LoadOwned ==
  load_q.valid => /\ ResultOwed(load_q.rob, "load", load_q.writes, load_q.pdst)
                  /\ NoQueue(load_q.rob) /\ ~BarrierBefore(rob_q[load_q.rob].seq)
StoreOwned ==
  store_q.valid => /\ Uncompleted(head_q) /\ store_q.rob = head_q /\ NoQueue(head_q)
                   /\ rob_q[head_q].uop.class = "store"

\* A request is that of its queue entry, with nothing speculative before it.
RequestOwned ==
  /\ ~(req_q.pending /\ req_q.busy)
  /\ req_q.pending \/ req_q.busy =>
       LET q == lsq_q[req_q.index]
       IN /\ q.valid /\ q.addr_valid /\ q.rob = req_q.rob /\ q.is_store = req_q.write
          /\ q.pdst = req_q.pdst /\ q.writes = req_q.writes
          /\ ~BarrierBefore(q.seq) /\ (req_q.write => req_q.rob = head_q)
          /\ ~load_q.valid

\* The data memory works on that request, and no flush has left it another.
MemoryServes ==
  /\ drop_q = NoDrop
  /\ dm_q.busy <=> req_q.busy
  /\ dm_q.busy => dm_q = DmRequest

(***************************************************************************)
(* An operand is under the name that the map had when its instruction was  *)
(* dispatched, and has followed that register ever since.                  *)
(***************************************************************************)
OperandFollows(e, r, s) ==
  s.used => /\ Names(r, Position(e.rob), s.tag)
            /\ s.ready <=> reg_ready[s.tag]
            /\ s.ready => s.value = reg_value[s.tag]
OperandsFollow ==
  \A i \in RsIndex : rs_q[i].valid =>
    /\ OperandFollows(rs_q[i], rs_q[i].uop.ins.rs1, rs_q[i].src1)
    /\ OperandFollows(rs_q[i], rs_q[i].uop.ins.rs2, rs_q[i].src2)

UnitsOwned ==
  /\ StationsOwned /\ QueuesOwned /\ MulDivOwned /\ LoadOwned /\ StoreOwned
  /\ RequestOwned /\ MemoryServes
CoreInv == RenameInv /\ CoreTypes /\ UnitsOwned /\ OperandsFollow
----------------------------------------------------------------------------
(***************************************************************************)
(* Words and instructions.                                                 *)
(***************************************************************************)
\* Arithmetic modulo WORDS stays within the words.
LEMMA WordsClosed ==
  ASSUME NEW a \in Data, NEW b \in Data
  PROVE  /\ 0 \in Data /\ plus(a, b) \in Data /\ pc_plus_4(a) \in Data
         /\ (a * b) % WORDS \in Data
<1>1. WORDS \in Nat /\ WORDS >= 2 /\ a \in Nat /\ b \in Nat
  BY WordsAssumption DEF Data
<1>2. \A x \in Nat : x % WORDS \in Data
  BY <1>1, SMT DEF Data
<1>3. a + b \in Nat /\ a + 1 \in Nat
  BY <1>1
<1>4. a * b \in Nat
  BY <1>1, SMT
<1>5. 0 \in Data
  BY <1>1 DEF Data
<1>6. plus(a, b) \in Data /\ pc_plus_4(a) \in Data
  BY <1>2, <1>3 DEF plus, pc_plus_4
<1>7. (a * b) % WORDS \in Data
  BY <1>2, <1>4
<1> QED BY <1>5, <1>6, <1>7

\* What an instruction computes is a word.
LEMMA ResultWord ==
  ASSUME NEW i, i.imm \in Data, NEW pc \in Data, NEW v1 \in Data, NEW v2 \in Data
  PROVE  /\ Result(i, pc, v1, v2) \in Data /\ Target(i, pc, v1, v2) \in Data
         /\ EffectiveAddr(i, v1) \in Data
<1>1. 0 \in Data /\ plus(v1, v2) \in Data /\ (v1 * v2) % WORDS \in Data /\ pc_plus_4(pc) \in Data
  BY WordsClosed
<1>2. plus(v1, i.imm) \in Data /\ plus(pc, i.imm) \in Data
  BY WordsClosed
<1> HIDE DEF Data
<1>3. Result(i, pc, v1, v2) \in Data
  BY <1>1, <1>2 DEF Result
<1>4. Target(i, pc, v1, v2) \in Data
  BY <1>1, <1>2 DEF Target
<1> QED BY <1>2, <1>3, <1>4 DEF EffectiveAddr

\* The fields of an instruction in flight.
LEMMA FetchedFields ==
  ASSUME prog \in Programs, NEW u, Fetched(u)
  PROVE  LET i == prog[u.pc]
         IN /\ u.pc \in Data /\ u.ins = i /\ u.class = ClassOf(i.op) /\ u.class \in Class
            /\ u.supported = (i.op # "illegal")
            /\ u.writes = (sel_rd(i.op) /\ i.rd # 0) /\ u.rd = i.rd
            /\ i.op \in Op /\ i.rs1 \in Arch /\ i.rs2 \in Arch /\ i.imm \in Data
            /\ u.rs1_used = (i.op \in {"add", "addi", "mul", "lw", "sw", "beq", "jalr"})
            /\ u.rs2_used = (i.op \in {"add", "mul", "sw", "beq"})
            /\ u.supported /\ u.class # "fence"
                 => u.class \in {"alu", "muldiv", "load", "store", "control"}
<1> DEFINE i == prog[u.pc]
<1>1. u.pc \in Data /\ u = RenamedTo(decode(u.pc, i), u.pdst, u.old_pdst)
  BY DEF Fetched
<1>2. i.op \in Op /\ i.rs1 \in Arch /\ i.rs2 \in Arch /\ i.imm \in Data
  BY <1>1, ProgramsAssumption
<1>3. \A pc, j, p, q :
        LET v == RenamedTo(decode(pc, j), p, q)
        IN /\ v.ins = j /\ v.class = ClassOf(j.op) /\ v.supported = (j.op # "illegal")
           /\ v.writes = (sel_rd(j.op) /\ j.rd # 0) /\ v.rd = j.rd
           /\ v.rs1_used = (j.op \in {"add", "addi", "mul", "lw", "sw", "beq", "jalr"})
           /\ v.rs2_used = (j.op \in {"add", "mul", "sw", "beq"})
  BY DEF RenamedTo, decode
<1>4. /\ u.ins = i /\ u.class = ClassOf(i.op) /\ u.supported = (i.op # "illegal")
      /\ u.writes = (sel_rd(i.op) /\ i.rd # 0) /\ u.rd = i.rd
      /\ u.rs1_used = (i.op \in {"add", "addi", "mul", "lw", "sw", "beq", "jalr"})
      /\ u.rs2_used = (i.op \in {"add", "mul", "sw", "beq"})
  BY <1>1, <1>3
<1>5. u.class \in Class
  BY <1>4, <1>2 DEF ClassOf, Op, Control, Class
<1>6. u.supported /\ u.class # "fence"
        => u.class \in {"alu", "muldiv", "load", "store", "control"}
  BY <1>4, <1>2 DEF ClassOf, Op, Control
<1> QED BY <1>1, <1>2, <1>4, <1>5, <1>6
----------------------------------------------------------------------------
(***************************************************************************)
(* Program order, seen from the units: sequence numbers name entries.      *)
(***************************************************************************)
LEMMA SeqNames ==
  ASSUME RobTypeOK, ProgramOrder
  PROVE  /\ \A t \in Tag : rob_q[t].valid => /\ rob_q[t].seq \in Nat /\ rob_q[t].seq < next_seq_q
                                             /\ rob_q[head_q].valid
                                             /\ rob_q[head_q].seq <= rob_q[t].seq
         /\ \A t, u \in Tag : rob_q[t].valid /\ rob_q[u].valid =>
              /\ rob_q[t].seq = rob_q[u].seq => t = u
              /\ rob_q[t].seq < rob_q[u].seq <=> Position(t) < Position(u)
<1> HIDE DEF Tag
<1>1. /\ \A t \in Tag : Position(t) \in Nat
      /\ \A t, u \in Tag : Position(t) = Position(u) => t = u
      /\ head_q \in Tag /\ Position(head_q) = 0
  BY Positions
<1>2. count_q \in Nat /\ next_seq_q \in Nat /\ \A t \in Tag : rob_q[t].seq \in Nat
  BY RobDepthAssumption DEF RobTypeOK, Entry
<1>3. \A t \in Tag : /\ rob_q[t].valid <=> Position(t) < count_q
                     /\ rob_q[t].valid => rob_q[t].seq + count_q = next_seq_q + Position(t)
  BY DEF ProgramOrder
<1> HIDE DEF Position
<1>4. ASSUME NEW t \in Tag, rob_q[t].valid
      PROVE  /\ rob_q[t].seq \in Nat /\ rob_q[t].seq < next_seq_q
             /\ rob_q[head_q].valid /\ rob_q[head_q].seq <= rob_q[t].seq
  <2>1. Position(t) \in Nat /\ Position(t) < count_q
    BY <1>1, <1>3, <1>4
  <2>2. rob_q[head_q].valid
    BY <1>1, <1>2, <1>3, <2>1
  <2> QED BY <1>1, <1>2, <1>3, <1>4, <2>1, <2>2
<1>5. ASSUME NEW t \in Tag, NEW u \in Tag, rob_q[t].valid, rob_q[u].valid
      PROVE  /\ rob_q[t].seq = rob_q[u].seq => t = u
             /\ rob_q[t].seq < rob_q[u].seq <=> Position(t) < Position(u)
  <2>1. /\ rob_q[t].seq + count_q = next_seq_q + Position(t)
        /\ rob_q[u].seq + count_q = next_seq_q + Position(u)
        /\ Position(t) \in Nat /\ Position(u) \in Nat
        /\ rob_q[t].seq \in Nat /\ rob_q[u].seq \in Nat
    BY <1>1, <1>2, <1>3, <1>5
  <2>2. rob_q[t].seq = rob_q[u].seq => Position(t) = Position(u)
    BY <2>1, <1>2
  <2>3. rob_q[t].seq < rob_q[u].seq <=> Position(t) < Position(u)
    BY <2>1, <1>2
  <2> QED BY <2>2, <2>3, <1>1
<1> QED BY <1>4, <1>5

\* The oldest of a set of station entries is one of them, and only one.
LEMMA OldestIsOne ==
  ASSUME RobTypeOK, ProgramOrder, CoreTypes, StationsOwned,
         NEW S \in SUBSET RsIndex, \A i \in S : rs_q[i].valid
  PROVE  /\ Oldest(S) \subseteq S
         /\ \A i, j \in Oldest(S) : i = j
         /\ Oldest(S) # {} => Only(Oldest(S)) \in Oldest(S)
<1>1. Oldest(S) \subseteq S
  BY DEF Oldest
<1>2. ASSUME NEW i \in Oldest(S), NEW j \in Oldest(S)
      PROVE  i = j
  <2>1. i \in S /\ j \in S /\ rs_q[i].valid /\ rs_q[j].valid /\ i \in RsIndex /\ j \in RsIndex
    BY <1>1
  <2>2. rs_q[i].seq <= rs_q[j].seq /\ rs_q[j].seq <= rs_q[i].seq
    BY <2>1 DEF Oldest
  <2>3. StationOwned(rs_q[i]) /\ StationOwned(rs_q[j])
    BY <2>1 DEF StationsOwned
  <2>4. /\ rs_q[i].rob \in Tag /\ rob_q[rs_q[i].rob].valid /\ rob_q[rs_q[i].rob].seq = rs_q[i].seq
        /\ rs_q[j].rob \in Tag /\ rob_q[rs_q[j].rob].valid /\ rob_q[rs_q[j].rob].seq = rs_q[j].seq
    BY <2>3 DEF StationOwned, Uncompleted
  <2>5. rs_q[i].seq \in Nat /\ rs_q[j].seq \in Nat
    BY <2>4, SeqNames
  <2>6. rs_q[i].seq = rs_q[j].seq
    BY <2>2, <2>5
  <2>7. rs_q[i].rob = rs_q[j].rob
    BY <2>4, <2>6, SeqNames
  <2> QED BY <2>1, <2>7 DEF StationsOwned
<1>3. Oldest(S) # {} => Only(Oldest(S)) \in Oldest(S)
  BY DEF Only
<1> QED BY <1>1, <1>2, <1>3

\* One issue lane: at most one entry, in the station, of one of the classes.
LaneIs(L, classes) ==
  /\ L \subseteq RsIndex
  /\ \A i \in L : rs_q[i].valid /\ rs_q[i].uop.class \in classes
  /\ \A i, j \in L : i = j
  /\ L # {} => Only(L) \in L

LEMMA IssueLanes ==
  ASSUME RobTypeOK, ProgramOrder, CoreTypes, StationsOwned
  PROVE  /\ LaneIs(int0, {"alu", "control"}) /\ LaneIs(int1, {"alu"})
         /\ LaneIs(m_lane, {"muldiv"}) /\ LaneIs(lsu_lane, {"load", "store"})
         /\ int0 \cap int1 = {}
<1>1. ASSUME NEW C, NEW S \in SUBSET ReadyToIssue(C)
      PROVE  LaneIs(Oldest(S), C)
  <2>1. S \in SUBSET RsIndex /\ \A i \in S : rs_q[i].valid /\ rs_q[i].uop.class \in C
    BY DEF ReadyToIssue
  <2>2. /\ Oldest(S) \subseteq S
        /\ \A i, j \in Oldest(S) : i = j
        /\ Oldest(S) # {} => Only(Oldest(S)) \in Oldest(S)
    BY <2>1, OldestIsOne
  <2> QED BY <2>1, <2>2 DEF LaneIs
<1>2. ReadyToIssue({"alu"}) \ int0 \in SUBSET ReadyToIssue({"alu"})
  OBVIOUS
<1>3. int0 \cap int1 = {}
  BY DEF int1, Oldest
<1>4. LaneIs(int0, {"alu", "control"})
  BY <1>1 DEF int0
<1>5. LaneIs(int1, {"alu"})
  BY <1>1, <1>2 DEF int1
<1>6. LaneIs(m_lane, {"muldiv"})
  BY <1>1 DEF m_lane
<1>7. LaneIs(lsu_lane, {"load", "store"})
  BY <1>1 DEF lsu_lane
<1> QED BY <1>3, <1>4, <1>5, <1>6, <1>7

(***************************************************************************)
(* The producers.                                                          *)
(***************************************************************************)
\* What a producer offers is for an instruction that waits, under its name.
Honest(m) ==
  /\ m.valid => /\ Uncompleted(m.tag)
                /\ m.writes = rob_q[m.tag].uop.writes /\ m.pdst = rob_q[m.tag].uop.pdst
                /\ m.control <=> rob_q[m.tag].uop.class = "control"
                /\ m.value \in Data /\ m.target \in Data
                /\ m.control \in BOOLEAN /\ m.mispredict \in BOOLEAN

\* Producer k offers the result of the instruction of tag t.
Offers(k, t) ==
  \/ k = 1 /\ load_q.valid /\ t = load_q.rob
  \/ k = 2 /\ md_q.result_valid /\ t = md_q.rob
  \/ k = 3 /\ int0 # {} /\ t = rs_q[Only(int0)].rob
  \/ k = 4 /\ int1 # {} /\ t = rs_q[Only(int1)].rob

\* The types of what the station holds.
LEMMA StationTypes ==
  ASSUME CoreTypes, StationsOwned, NEW i \in RsIndex, rs_q[i].valid
  PROVE  /\ rs_q[i] \in Stations /\ rs_q[i].rob \in Tag
         /\ Uncompleted(rs_q[i].rob) /\ rob_q[rs_q[i].rob].uop = rs_q[i].uop
         /\ rob_q[rs_q[i].rob].seq = rs_q[i].seq
         /\ Fetched(rs_q[i].uop)
         /\ rs_q[i].src1.value \in Data /\ rs_q[i].src2.value \in Data
         /\ rs_q[i].uop.pc \in Data /\ rs_q[i].uop.ins.imm \in Data
         /\ rs_q[i].uop.class \in {"alu", "muldiv", "load", "store", "control"}
<1>1. rs_q[i] \in Stations
  BY DEF CoreTypes, RsFree
<1>2. StationOwned(rs_q[i])
  BY DEF StationsOwned
<1>3. /\ Uncompleted(rs_q[i].rob) /\ rob_q[rs_q[i].rob].uop = rs_q[i].uop
      /\ rob_q[rs_q[i].rob].seq = rs_q[i].seq /\ rs_q[i].rob \in Tag
      /\ rs_q[i].uop.supported /\ rs_q[i].uop.class # "fence"
  BY <1>2 DEF StationOwned, Uncompleted
<1>4. Fetched(rs_q[i].uop)
  BY <1>3 DEF CoreTypes, Uncompleted
<1>5. rs_q[i].src1 \in Operands /\ rs_q[i].src2 \in Operands
  BY <1>1 DEF Stations
<1>6. rs_q[i].src1.value \in Data /\ rs_q[i].src2.value \in Data
  BY <1>5 DEF Operands
<1>7. /\ rs_q[i].uop.pc \in Data /\ rs_q[i].uop.ins.imm \in Data
      /\ rs_q[i].uop.class \in {"alu", "muldiv", "load", "store", "control"}
  BY <1>3, <1>4, FetchedFields DEF CoreTypes
<1> QED BY <1>1, <1>3, <1>4, <1>6, <1>7

LEMMA ExecutedHonest ==
  ASSUME CoreTypes, StationsOwned, NEW i \in RsIndex, rs_q[i].valid
  PROVE  /\ Honest(executed(rs_q[i])) /\ executed(rs_q[i]).valid
         /\ executed(rs_q[i]).tag = rs_q[i].rob
<1> DEFINE e == rs_q[i]  m == executed(e)
<1>1. /\ Uncompleted(e.rob) /\ rob_q[e.rob].uop = e.uop /\ e.src1.value \in Data
      /\ e.src2.value \in Data /\ e.uop.pc \in Data /\ e.uop.ins.imm \in Data
  BY StationTypes
<1>2. /\ m.valid = TRUE /\ m.tag = e.rob /\ m.writes = e.uop.writes /\ m.pdst = e.uop.pdst
      /\ m.control \in BOOLEAN /\ (m.control <=> e.uop.class = "control")
      /\ m.value = Result(e.uop.ins, e.uop.pc, e.src1.value, e.src2.value)
      /\ m.target = Target(e.uop.ins, e.uop.pc, e.src1.value, e.src2.value)
      /\ m.mispredict \in BOOLEAN
  BY DEF executed
<1> HIDE DEF e, m
<1>3. m.value \in Data /\ m.target \in Data
  <2>1. /\ Result(e.uop.ins, e.uop.pc, e.src1.value, e.src2.value) \in Data
        /\ Target(e.uop.ins, e.uop.pc, e.src1.value, e.src2.value) \in Data
    BY <1>1, ResultWord
  <2> QED BY <1>2, <2>1
<1>4. m.control \in BOOLEAN /\ (m.control <=> rob_q[m.tag].uop.class = "control")
  <2>1. rob_q[m.tag].uop.class = e.uop.class
    BY <1>1, <1>2
  <2> QED BY <1>2, <2>1
<1>5. Honest(m)
  BY <1>1, <1>2, <1>3, <1>4 DEF Honest
<1> QED BY <1>2, <1>5 DEF m, e

\* Two producers never offer a result for the same instruction.
LEMMA OffersDiffer ==
  ASSUME RobTypeOK, ProgramOrder, CoreTypes, UnitsOwned,
         NEW k \in 1 .. 4, NEW l \in 1 .. 4, NEW t, Offers(k, t), Offers(l, t)
  PROVE  k = l
<1> USE DEF UnitsOwned
<1> DEFINE c == rob_q[t].uop.class
<1>1. /\ LaneIs(int0, {"alu", "control"}) /\ LaneIs(int1, {"alu"}) /\ int0 \cap int1 = {}
  BY IssueLanes
<1>2. load_q.valid /\ t = load_q.rob => c = "load"
  BY DEF LoadOwned, ResultOwed
<1>3. md_q.result_valid /\ t = md_q.rob => c = "muldiv"
  BY DEF MulDivOwned, ResultOwed
<1>4. ASSUME NEW L, NEW C, LaneIs(L, C), L # {}, t = rs_q[Only(L)].rob
      PROVE  c \in C /\ Only(L) \in L /\ Only(L) \in RsIndex /\ rs_q[Only(L)].valid
  <2>1. Only(L) \in L /\ Only(L) \in RsIndex /\ rs_q[Only(L)].valid /\ rs_q[Only(L)].uop.class \in C
    BY <1>4 DEF LaneIs
  <2>2. rob_q[rs_q[Only(L)].rob].uop = rs_q[Only(L)].uop
    BY <2>1, StationTypes
  <2> QED BY <1>4, <2>1, <2>2
<1>5. int0 # {} /\ t = rs_q[Only(int0)].rob =>
        c \in {"alu", "control"} /\ Only(int0) \in int0 /\ Only(int0) \in RsIndex /\ rs_q[Only(int0)].valid
  BY <1>1, <1>4
<1>6. int1 # {} /\ t = rs_q[Only(int1)].rob =>
        c \in {"alu"} /\ Only(int1) \in int1 /\ Only(int1) \in RsIndex /\ rs_q[Only(int1)].valid
  BY <1>1, <1>4
<1>7. ~(/\ int0 # {} /\ t = rs_q[Only(int0)].rob
        /\ int1 # {} /\ t = rs_q[Only(int1)].rob)
  <2> SUFFICES ASSUME int0 # {}, t = rs_q[Only(int0)].rob, int1 # {}, t = rs_q[Only(int1)].rob
               PROVE  FALSE
    OBVIOUS
  <2>1. Only(int0) = Only(int1)
    BY <1>5, <1>6 DEF StationsOwned
  <2> QED BY <2>1, <1>1, <1>5, <1>6
<1> HIDE DEF c
<1> QED BY <1>2, <1>3, <1>5, <1>6, <1>7 DEF Offers

\* The four producers: whatever one offers is honest, and none speaks in a
\* recovery.
LEMMA RequestsAre ==
  ASSUME RobTypeOK, ProgramOrder, CoreTypes, UnitsOwned, NEW recover \in BOOLEAN
  PROVE  LET req == requests(recover)
         IN /\ Len(req) = 4
            /\ \A k \in 1 .. 4 : /\ Honest(req[k]) /\ req[k].valid \in BOOLEAN
                                 /\ req[k].valid => ~recover /\ Offers(k, req[k].tag)
<1> USE DEF UnitsOwned
<1> DEFINE req == requests(recover)
<1>1. CdbQuiet.valid = FALSE /\ Honest(CdbQuiet)
  BY DEF CdbQuiet, Honest
<1>2. Len(req) = 4
  BY DEF requests
<1>3. /\ Honest(req[1]) /\ req[1].valid \in BOOLEAN
      /\ req[1].valid => ~recover /\ Offers(1, req[1].tag)
  <2> DEFINE m == BusResult(load_q.rob, load_q.value, load_q.writes, load_q.pdst)
  <2>1. req[1] = IF load_q.valid /\ ~recover THEN m ELSE CdbQuiet
    BY DEF requests
  <2>2. ASSUME load_q.valid PROVE Honest(m) /\ m.valid = TRUE /\ m.tag = load_q.rob
    <3>1. /\ Uncompleted(load_q.rob) /\ rob_q[load_q.rob].uop.class = "load"
          /\ rob_q[load_q.rob].uop.writes = load_q.writes
          /\ rob_q[load_q.rob].uop.pdst = load_q.pdst
      BY <2>2 DEF LoadOwned, ResultOwed
    <3>2. load_q.value \in Data
      BY DEF CoreTypes, Loads
    <3>3. 0 \in Data
      BY WordsAssumption DEF Data
    <3> QED BY <3>1, <3>2, <3>3 DEF BusResult, Honest
  <2> HIDE DEF m
  <2>3. CASE load_q.valid /\ ~recover
    <3>1. Offers(1, load_q.rob)
      BY <2>3 DEF Offers
    <3> QED BY <2>1, <2>2, <2>3, <3>1
  <2> QED BY <2>1, <2>3, <1>1
<1>4. /\ Honest(req[2]) /\ req[2].valid \in BOOLEAN
      /\ req[2].valid => ~recover /\ Offers(2, req[2].tag)
  <2> DEFINE m == BusResult(md_q.rob, md_q.value, md_q.writes, md_q.pdst)
  <2>1. req[2] = IF md_q.result_valid /\ ~recover THEN m ELSE CdbQuiet
    BY DEF requests
  <2>2. ASSUME md_q.result_valid PROVE Honest(m) /\ m.valid = TRUE /\ m.tag = md_q.rob
    <3>1. /\ Uncompleted(md_q.rob) /\ rob_q[md_q.rob].uop.class = "muldiv"
          /\ rob_q[md_q.rob].uop.writes = md_q.writes
          /\ rob_q[md_q.rob].uop.pdst = md_q.pdst
      BY <2>2 DEF MulDivOwned, ResultOwed
    <3>2. md_q.value \in Data
      BY DEF CoreTypes, Operations
    <3>3. 0 \in Data
      BY WordsAssumption DEF Data
    <3> QED BY <3>1, <3>2, <3>3 DEF BusResult, Honest
  <2> HIDE DEF m
  <2>3. CASE md_q.result_valid /\ ~recover
    <3>1. Offers(2, md_q.rob)
      BY <2>3 DEF Offers
    <3> QED BY <2>1, <2>2, <2>3, <3>1
  <2> QED BY <2>1, <2>3, <1>1
<1>5. ASSUME NEW L, NEW C, LaneIs(L, C), L # {}
      PROVE  LET m == executed(rs_q[Only(L)])
             IN Honest(m) /\ m.valid = TRUE /\ m.tag = rs_q[Only(L)].rob
  <2>1. Only(L) \in RsIndex /\ rs_q[Only(L)].valid
    BY <1>5 DEF LaneIs
  <2>2. /\ Honest(executed(rs_q[Only(L)])) /\ executed(rs_q[Only(L)]).tag = rs_q[Only(L)].rob
    BY <2>1, ExecutedHonest
  <2>3. executed(rs_q[Only(L)]).valid = TRUE
    BY DEF executed
  <2> QED BY <2>2, <2>3
<1>6. /\ Honest(req[3]) /\ req[3].valid \in BOOLEAN
      /\ req[3].valid => ~recover /\ Offers(3, req[3].tag)
  <2>1. req[3] = IF int0 # {} /\ ~recover THEN executed(rs_q[Only(int0)]) ELSE CdbQuiet
    BY DEF requests
  <2>2. CASE int0 # {} /\ ~recover
    <3>1. LET m == executed(rs_q[Only(int0)])
          IN Honest(m) /\ m.valid = TRUE /\ m.tag = rs_q[Only(int0)].rob
      BY <2>2, <1>5, IssueLanes
    <3>2. Offers(3, rs_q[Only(int0)].rob)
      BY <2>2 DEF Offers
    <3> QED BY <2>1, <2>2, <3>1, <3>2
  <2> QED BY <2>1, <2>2, <1>1
<1>7. /\ Honest(req[4]) /\ req[4].valid \in BOOLEAN
      /\ req[4].valid => ~recover /\ Offers(4, req[4].tag)
  <2>1. req[4] = IF int1 # {} /\ ~recover THEN executed(rs_q[Only(int1)]) ELSE CdbQuiet
    BY DEF requests
  <2>2. CASE int1 # {} /\ ~recover
    <3>1. LET m == executed(rs_q[Only(int1)])
          IN Honest(m) /\ m.valid = TRUE /\ m.tag = rs_q[Only(int1)].rob
      BY <2>2, <1>5, IssueLanes
    <3>2. Offers(4, rs_q[Only(int1)].rob)
      BY <2>2 DEF Offers
    <3> QED BY <2>1, <2>2, <3>1, <3>2
  <2> QED BY <2>1, <2>2, <1>1
<1> HIDE DEF req
<1>8. \A k \in 1 .. 4 : k = 1 \/ k = 2 \/ k = 3 \/ k = 4
  OBVIOUS
<1>9. \A k \in 1 .. 4 : /\ Honest(req[k]) /\ req[k].valid \in BOOLEAN
                        /\ req[k].valid => ~recover /\ Offers(k, req[k].tag)
  <2> TAKE k \in 1 .. 4
  <2> QED BY <1>8, <1>3, <1>4, <1>6, <1>7
<1> QED BY <1>2, <1>9 DEF req

(***************************************************************************)
(* The bus.                                                                *)
(***************************************************************************)
LEMMA ForemostIs ==
  ASSUME NEW S \in SUBSET Nat
  PROVE  /\ Foremost(S) \subseteq S
         /\ \A i, j \in Foremost(S) : i = j
         /\ S # {} => Foremost(S) # {}
<1>1. ASSUME NEW i \in Foremost(S), NEW j \in Foremost(S) PROVE i = j
  BY DEF Foremost
<1>2. ASSUME S # {} PROVE Foremost(S) # {}
  BY <1>2, LowestExists DEF Foremost
<1> QED BY <1>1, <1>2 DEF Foremost

\* Who is granted is heard, and who is heard is granted.
LEMMA BusLanes ==
  ASSUME NEW req, Len(req) = 4
  PROVE  /\ \A n \in {1, 2} : \/ lane(req, n) = CdbQuiet
                              \/ \E k \in granted(req) : lane(req, n) = req[k]
         /\ \A k \in granted(req) :
              k \in 1 .. 4 /\ req[k].valid /\ (lane(req, 1) = req[k] \/ lane(req, 2) = req[k])
<1> DEFINE A == asking(req)
<1>1. A \subseteq 1 .. 4 /\ \A k \in A : req[k].valid
  BY DEF asking
<1>2. ASSUME NEW n \in {1, 2}
      PROVE  /\ speaker(req, n) \subseteq A
             /\ \A i, j \in speaker(req, n) : i = j
  <2>1. A \in SUBSET Nat /\ A \ Foremost(A) \in SUBSET Nat
    BY <1>1
  <2>2. speaker(req, n) = Foremost(A) \/ speaker(req, n) = Foremost(A \ Foremost(A))
    BY DEF speaker
  <2> HIDE DEF A
  <2> QED BY <2>1, <2>2, ForemostIs
<1>3. ASSUME NEW n \in {1, 2}, speaker(req, n) # {}
      PROVE  \E k \in speaker(req, n) : lane(req, n) = req[k]
  <2>1. (CHOOSE k \in speaker(req, n) : TRUE) \in speaker(req, n)
    BY <1>3
  <2> QED BY <1>3, <2>1 DEF lane
<1>4. \A n \in {1, 2} : speaker(req, n) = {} => lane(req, n) = CdbQuiet
  BY DEF lane
<1>5. \A k \in speaker(req, 1) : lane(req, 1) = req[k]
  BY <1>2, <1>3
<1>6. \A k \in speaker(req, 2) : lane(req, 2) = req[k]
  BY <1>2, <1>3
<1> HIDE DEF A
<1> QED BY <1>1, <1>2, <1>3, <1>4, <1>5, <1>6 DEF granted

\* A bus lane names the instruction of tag t.
Named(t, cdb0, cdb1) == (cdb0.valid /\ cdb0.tag = t) \/ (cdb1.valid /\ cdb1.tag = t)

LEMMA BusIs ==
  ASSUME RobTypeOK, ProgramOrder, CoreTypes, UnitsOwned, NEW recover \in BOOLEAN,
         NEW req, req = requests(recover),
         NEW cdb0, cdb0 = lane(req, 1), NEW cdb1, cdb1 = lane(req, 2)
  PROVE  /\ BusOK(cdb0) /\ BusOK(cdb1) /\ Honest(cdb0) /\ Honest(cdb1)
         /\ recover => ~cdb0.valid /\ ~cdb1.valid
         /\ \A t : Named(t, cdb0, cdb1) => \E k \in granted(req) : Offers(k, t)
<1>1. /\ Len(req) = 4
      /\ \A k \in 1 .. 4 : /\ Honest(req[k]) /\ req[k].valid \in BOOLEAN
                           /\ req[k].valid => ~recover /\ Offers(k, req[k].tag)
  BY RequestsAre
<1>2. CdbQuiet.valid = FALSE /\ Honest(CdbQuiet)
  BY DEF CdbQuiet, Honest
<1>3. ASSUME NEW m, m = CdbQuiet \/ \E k \in granted(req) : m = req[k]
      PROVE  /\ Honest(m) /\ (recover => ~m.valid)
             /\ m.valid => \E k \in granted(req) : Offers(k, m.tag)
  <2>1. CASE m = CdbQuiet
    BY <2>1, <1>2
  <2>2. CASE \E k \in granted(req) : m = req[k]
    <3>1. PICK k \in granted(req) : m = req[k]
      BY <2>2
    <3>2. k \in 1 .. 4
      BY <1>1, BusLanes
    <3> QED BY <1>1, <3>1, <3>2
  <2> QED BY <1>3, <2>1, <2>2
<1>4. /\ cdb0 = CdbQuiet \/ \E k \in granted(req) : cdb0 = req[k]
      /\ cdb1 = CdbQuiet \/ \E k \in granted(req) : cdb1 = req[k]
  BY <1>1, BusLanes
<1>5. ASSUME NEW m, Honest(m) PROVE BusOK(m)
  BY <1>5, CoreWordsAssumption DEF BusOK, LaneOK, Honest, Uncompleted
<1> QED BY <1>3, <1>4, <1>5 DEF Named

\* The station entries that leave.
Gone(recover) == issued(recover, granted(requests(recover)))

\* Which instructions the bus cannot name: those of the queue, of a station
\* entry that stays, of a memory or multiply/divide instruction in the
\* station, and of a result that is not granted.
LEMMA NotNamed ==
  ASSUME RobTypeOK, ProgramOrder, CoreTypes, UnitsOwned, NEW recover \in BOOLEAN,
         NEW req, req = requests(recover),
         NEW cdb0, cdb0 = lane(req, 1), NEW cdb1, cdb1 = lane(req, 2)
  PROVE  /\ \A i \in LsqIndex : lsq_q[i].valid => ~Named(lsq_q[i].rob, cdb0, cdb1)
         /\ \A i \in RsIndex :
              rs_q[i].valid /\ (i \notin Gone(recover) \/ rs_q[i].uop.class \notin {"alu", "control"})
                => ~Named(rs_q[i].rob, cdb0, cdb1)
         /\ md_q.computing \/ (md_q.result_valid /\ 2 \notin granted(req))
              => ~Named(md_q.rob, cdb0, cdb1)
         /\ load_q.valid /\ 1 \notin granted(req) => ~Named(load_q.rob, cdb0, cdb1)
         /\ store_q.valid => ~Named(store_q.rob, cdb0, cdb1)
<1> USE DEF UnitsOwned
<1>1. \A t : Named(t, cdb0, cdb1) => \E k \in granted(req) : Offers(k, t)
  BY BusIs
<1>2. granted(req) \subseteq 1 .. 4
  BY RequestsAre, BusLanes
<1>3. /\ LaneIs(int0, {"alu", "control"}) /\ LaneIs(int1, {"alu"})
  BY IssueLanes
<1>4. ASSUME NEW k \in 1 .. 4, NEW t, Offers(k, t)
      PROVE  /\ k = 1 => t = load_q.rob /\ load_q.valid /\ rob_q[t].uop.class = "load" /\ NoQueue(t)
             /\ k = 2 => /\ t = md_q.rob /\ md_q.result_valid /\ ~md_q.computing
                         /\ rob_q[t].uop.class = "muldiv" /\ NoStation(t)
             /\ k \in {3, 4} => /\ rob_q[t].uop.class \in {"alu", "control"}
                                /\ \E j \in RsIndex : /\ rs_q[j].valid /\ rs_q[j].rob = t
                                                      /\ k = 3 => j \in int0
                                                      /\ k = 4 => j \in int1
  <2>1. CASE k = 1
    BY <1>4, <2>1 DEF Offers, LoadOwned, ResultOwed
  <2>2. CASE k = 2
    BY <1>4, <2>2 DEF Offers, MulDivOwned, ResultOwed
  <2>3. CASE k = 3
    <3> DEFINE j == Only(int0)
    <3>1. int0 # {} /\ t = rs_q[j].rob
      BY <1>4, <2>3 DEF Offers
    <3>2. j \in int0 /\ j \in RsIndex /\ rs_q[j].valid /\ rs_q[j].uop.class \in {"alu", "control"}
      BY <1>3, <3>1 DEF LaneIs
    <3>3. rob_q[rs_q[j].rob].uop = rs_q[j].uop
      BY <3>2, StationTypes
    <3> HIDE DEF j
    <3> QED BY <2>3, <3>1, <3>2, <3>3
  <2>4. CASE k = 4
    <3> DEFINE j == Only(int1)
    <3>1. int1 # {} /\ t = rs_q[j].rob
      BY <1>4, <2>4 DEF Offers
    <3>2. j \in int1 /\ j \in RsIndex /\ rs_q[j].valid /\ rs_q[j].uop.class \in {"alu"}
      BY <1>3, <3>1 DEF LaneIs
    <3>3. rob_q[rs_q[j].rob].uop = rs_q[j].uop
      BY <3>2, StationTypes
    <3> HIDE DEF j
    <3> QED BY <2>4, <3>1, <3>2, <3>3
  <2> QED BY <2>1, <2>2, <2>3, <2>4
<1>5. ASSUME NEW i \in LsqIndex, lsq_q[i].valid, Named(lsq_q[i].rob, cdb0, cdb1)
      PROVE  FALSE
  <2>1. PICK k \in granted(req) : Offers(k, lsq_q[i].rob)
    BY <1>1, <1>5
  <2>2. rob_q[lsq_q[i].rob].uop.class \in {"load", "store"}
    BY <1>5 DEF QueuesOwned, QueueOwned
  <2>3. k = 1
    BY <1>2, <1>4, <2>1, <2>2
  <2> QED BY <1>4, <1>5, <2>1, <2>3 DEF NoQueue
<1>6. ASSUME NEW i \in RsIndex, rs_q[i].valid, Named(rs_q[i].rob, cdb0, cdb1),
             i \notin Gone(recover) \/ rs_q[i].uop.class \notin {"alu", "control"}
      PROVE  FALSE
  <2>1. PICK k \in granted(req) : Offers(k, rs_q[i].rob)
    BY <1>1, <1>6
  <2>2. /\ rob_q[rs_q[i].rob].uop = rs_q[i].uop /\ StationOwned(rs_q[i])
    BY <1>6 DEF StationsOwned, StationOwned
  <2>3. k # 1
    <3> SUFFICES ASSUME k = 1 PROVE FALSE
      OBVIOUS
    <3>1. rs_q[i].uop.class = "load" /\ NoQueue(rs_q[i].rob)
      BY <1>4, <2>1, <2>2
    <3>2. rs_q[i] \in Stations
      BY <1>6, StationTypes
    <3>3. rs_q[i].lsq \in LsqIndex /\ lsq_q[rs_q[i].lsq].valid /\ lsq_q[rs_q[i].lsq].rob = rs_q[i].rob
      BY <2>2, <3>1, <3>2 DEF StationOwned, needs_lsq, Stations
    <3> QED BY <3>1, <3>3 DEF NoQueue
  <2>4. k # 2
    BY <1>4, <1>6, <2>1 DEF NoStation
  <2>5. k \in {3, 4}
    BY <1>2, <2>1, <2>3, <2>4
  <2>6. PICK j \in RsIndex : /\ rs_q[j].valid /\ rs_q[j].rob = rs_q[i].rob
                             /\ k = 3 => j \in int0
                             /\ k = 4 => j \in int1
    BY <1>4, <2>1, <2>5
  <2>7. j = i
    BY <1>6, <2>6 DEF StationsOwned
  <2>8. i \in Gone(recover)
    BY <2>1, <2>5, <2>6, <2>7 DEF issued, Gone
  <2>9. rs_q[i].uop.class \in {"alu", "control"}
    BY <1>4, <2>1, <2>2, <2>5
  <2> QED BY <1>6, <2>8, <2>9
<1>7. ASSUME md_q.computing \/ (md_q.result_valid /\ 2 \notin granted(req)),
             Named(md_q.rob, cdb0, cdb1)
      PROVE  FALSE
  <2>1. PICK k \in granted(req) : Offers(k, md_q.rob)
    BY <1>1, <1>7
  <2>2. rob_q[md_q.rob].uop.class = "muldiv"
    BY <1>7 DEF MulDivOwned, ResultOwed
  <2>3. k = 2
    BY <1>2, <1>4, <2>1, <2>2
  <2> QED BY <1>4, <1>7, <2>1, <2>3 DEF MulDivOwned
<1>8. ASSUME load_q.valid, 1 \notin granted(req), Named(load_q.rob, cdb0, cdb1)
      PROVE  FALSE
  <2>1. PICK k \in granted(req) : Offers(k, load_q.rob)
    BY <1>1, <1>8
  <2>2. rob_q[load_q.rob].uop.class = "load"
    BY <1>8 DEF LoadOwned, ResultOwed
  <2>3. k = 1
    BY <1>2, <1>4, <2>1, <2>2
  <2> QED BY <1>8, <2>1, <2>3
<1>9. ASSUME store_q.valid, Named(store_q.rob, cdb0, cdb1)
      PROVE  FALSE
  <2>1. PICK k \in granted(req) : Offers(k, store_q.rob)
    BY <1>1, <1>9
  <2>2. rob_q[store_q.rob].uop.class = "store"
    BY <1>9 DEF StoreOwned
  <2> QED BY <1>2, <1>4, <2>1, <2>2
<1> QED BY <1>5, <1>6, <1>7, <1>8, <1>9
----------------------------------------------------------------------------
(***************************************************************************)
(* Admission: what is dispatched is decoded, and there is room for it.     *)
(***************************************************************************)
LEMMA SlotsAre ==
  ASSUME prog \in Programs, fetch_pc \in Data, NEW avail \in 0 .. 2
  PROVE  /\ slots(avail) \in Seq(Decoded) /\ Len(slots(avail)) = avail
         /\ \A k \in 1 .. avail : LET pc == plus(fetch_pc, k - 1)
                                  IN pc \in Data /\ slots(avail)[k] = decode(pc, prog[pc])
<1>1. ASSUME NEW k \in 1 .. avail
      PROVE  LET pc == plus(fetch_pc, k - 1) IN pc \in Data /\ decode(pc, prog[pc]) \in Decoded
  <2>1. k - 1 \in Data
    BY WordsAssumption DEF Data
  <2>2. plus(fetch_pc, k - 1) \in Data
    BY <2>1, WordsClosed
  <2> QED BY <2>2, ProgramsAssumption
<1>2. slots(avail) = [k \in 1 .. avail |-> decode(plus(fetch_pc, k - 1), prog[plus(fetch_pc, k - 1)])]
  BY DEF slots
<1>3. avail \in Nat
  OBVIOUS
<1>4. slots(avail) \in Seq(Decoded) /\ Len(slots(avail)) = avail
  BY <1>1, <1>2, <1>3
<1> QED BY <1>1, <1>2, <1>4

LEMMA Admitted ==
  ASSUME RenameTypes, prog \in Programs, fetch_pc \in Data, NEW avail \in 0 .. 2,
         NEW recover \in BOOLEAN,
         NEW d, d = SubSeq(slots(avail), 1, dispatch_count(slots(avail), recover))
  PROVE  /\ d \in Seq(Decoded) /\ Len(d) \in 0 .. 2 /\ Len(d) <= rob_free_count
         /\ phys_need(d) <= Cardinality(free_mask)
         /\ recover => d = <<>>
         /\ Len(d) >= 1 => fits(d)
         /\ \A k \in 1 .. Len(d) : LET pc == plus(fetch_pc, k - 1)
                                   IN pc \in Data /\ d[k] = decode(pc, prog[pc])
<1> DEFINE s == slots(avail)  n == dispatch_count(s, recover)
<1>1. /\ s \in Seq(Decoded) /\ Len(s) = avail
      /\ \A k \in 1 .. avail : LET pc == plus(fetch_pc, k - 1)
                               IN pc \in Data /\ s[k] = decode(pc, prog[pc])
  BY SlotsAre
<1> HIDE DEF s
<1>2. /\ n \in 0 .. 2 /\ n <= Len(s) /\ (recover => n = 0)
      /\ n = 1 => fits(SubSeq(s, 1, 1))
      /\ n = 2 => fits(s) /\ Len(s) = 2
  BY <1>1 DEF dispatch_count, slot0_can_dispatch, slot1_can_dispatch
<1>3. d = SubSeq(s, 1, n)
  BY DEF s
<1> HIDE DEF n
<1>4. d \in Seq(Decoded) /\ Len(d) = n /\ \A k \in 1 .. n : d[k] = s[k]
  <2>1. \A k \in 1 .. n : s[k] \in Decoded
    BY <1>1, <1>2
  <2>2. /\ SubSeq(s, 1, n) \in Seq(Decoded)
        /\ Len(SubSeq(s, 1, n)) = IF 1 <= n THEN n - 1 + 1 ELSE 0
        /\ \A i \in 1 .. n - 1 + 1 : SubSeq(s, 1, n)[i] = s[1 + i - 1]
    BY <1>2, <2>1, SubSeqProperties
  <2>3. n - 1 + 1 = n /\ \A i \in 1 .. n : 1 + i - 1 = i
    BY <1>2
  <2>4. d \in Seq(Decoded) /\ Len(d) = n
    <3>1. d \in Seq(Decoded) /\ Len(d) = IF 1 <= n THEN n - 1 + 1 ELSE 0
      BY <1>3, <2>2, Zenon
    <3>2. n = 0 \/ n = 1 \/ n = 2
      BY <1>2
    <3> QED BY <3>1, <3>2
  <2>5. ASSUME NEW k \in 1 .. n PROVE d[k] = s[k]
    <3>1. d[k] = s[1 + k - 1] /\ 1 + k - 1 = k
      BY <1>2, <1>3, <2>2, <2>3
    <3> QED BY <3>1
  <2> QED BY <2>4, <2>5
<1>5. n = 2 => d = s
  <2>1. ASSUME n = 2 PROVE d = s
    <3>1. Len(d) = Len(s) /\ \A k \in 1 .. Len(d) : d[k] = s[k]
      BY <1>2, <1>4, <2>1
    <3> QED BY <1>1, <1>4, <3>1, SeqEqual
  <2> QED BY <2>1
<1>6. Len(d) >= 1 => fits(d)
  <2>1. CASE n = 1
    BY <1>2, <1>3, <2>1
  <2>2. CASE n = 2
    BY <1>2, <1>5, <2>2
  <2> QED BY <1>2, <1>4, <2>1, <2>2
<1>7. count_q \in 0 .. ROB_DEPTH /\ ROB_DEPTH \in Nat
  BY RobDepthAssumption DEF RenameTypes, RobTypeOK
<1>8. Len(d) <= rob_free_count
  <2>1. CASE n = 0
    BY <2>1, <1>4, <1>7 DEF rob_free_count
  <2>2. CASE n # 0
    BY <2>2, <1>2, <1>4, <1>6 DEF fits
  <2> QED BY <2>1, <2>2
<1>9. phys_need(d) <= Cardinality(free_mask)
  <2>1. CASE n = 0
    <3>1. phys_need(d) = 0
      <4>1. {k \in 1 .. Len(d) : effective_write(d[k])} = {}
        BY <1>4, <2>1
      <4> QED BY <4>1, FS_EmptySet DEF phys_need
    <3>2. IsFiniteSet(free_mask)
      <4>1. IsFiniteSet(Phys)
        BY FS_Interval, RegCountAssumption DEF Phys
      <4>2. free_mask \subseteq Phys
        BY DEF RenameTypes, RatTypeOK
      <4> QED BY <4>1, <4>2, FS_Subset
    <3>3. Cardinality(free_mask) \in Nat
      BY <3>2, FS_CardinalityType
    <3> QED BY <3>1, <3>3
  <2>2. CASE n # 0
    BY <2>2, <1>2, <1>4, <1>6 DEF fits
  <2> QED BY <2>1, <2>2
<1>10. recover => d = <<>>
  BY <1>2, <1>4, EmptySeq
<1> QED BY <1>1, <1>2, <1>4, <1>6, <1>8, <1>9, <1>10

\* As many free places as instructions that need one: the first finds a place,
\* and the second another.
LEMMA Room ==
  ASSUME NEW S, IsFiniteSet(S), NEW K \in SUBSET (1 .. 2), Cardinality(S) >= Cardinality(K)
  PROVE  /\ K # {} => S # {}
         /\ 1 \in K /\ 2 \in K => \A x : S \ {x} # {}
<1>1. IsFiniteSet(K)
  <2>1. IsFiniteSet(1 .. 2)
    BY FS_Interval, 1 \in Int, 2 \in Int
  <2> QED BY <2>1, FS_Subset
<1>2. Cardinality(S) \in Nat /\ Cardinality(K) \in Nat
  BY <1>1, FS_CardinalityType
<1>3. ASSUME K # {}, S = {} PROVE FALSE
  <2>1. Cardinality(K) # 0
    BY <1>1, <1>3, FS_EmptySet
  <2>2. Cardinality(S) = 0
    BY <1>3, FS_EmptySet
  <2> QED BY <1>2, <2>1, <2>2
<1>4. ASSUME 1 \in K, 2 \in K, NEW x, S \ {x} = {} PROVE FALSE
  <2>1. IsFiniteSet({1}) /\ Cardinality({1}) = 1 /\ IsFiniteSet({x}) /\ Cardinality({x}) = 1
    BY FS_Singleton
  <2>2. Cardinality({1} \cup {2}) = Cardinality({1}) + 1
    <3>1. 2 \notin {1}
      OBVIOUS
    <3> QED BY <2>1, <3>1, FS_AddElement, Zenon
  <2>3. K = {1} \cup {2}
    <3>1. \A k \in 1 .. 2 : k = 1 \/ k = 2
      OBVIOUS
    <3>2. \A k \in K : k = 1 \/ k = 2
      BY <3>1
    <3> QED BY <1>4, <3>2
  <2>4. Cardinality(K) = Cardinality({1}) + 1
    BY <2>2, <2>3, Zenon
  <2>5. S \subseteq {x}
    BY <1>4
  <2>6. Cardinality(S) <= Cardinality({x})
    BY <2>1, <2>5, FS_Subset
  <2>7. 1 + 1 <= Cardinality(S)
    <3>1. Cardinality(K) = 1 + 1
      BY <2>1, <2>4, Zenon
    <3> QED BY <1>2, <3>1
  <2> QED BY <1>2, <2>1, <2>6, <2>7
<1> QED BY <1>3, <1>4

\* The lowest of a set of station slots.
LEMMA FirstIs ==
  ASSUME NEW S \in SUBSET RsIndex, S # {}
  PROVE  \E x \in S : FirstOf(S) = {x}
<1>1. S \subseteq Nat
  BY DEF RsIndex
<1>2. PICK x \in S : \A y \in S : x <= y
  BY <1>1, LowestExists
<1>3. ASSUME NEW y PROVE y \in FirstOf(S) <=> y = x
  <2>1. x \in FirstOf(S)
    BY <1>2 DEF FirstOf
  <2>2. ASSUME y \in FirstOf(S) PROVE y = x
    <3>1. y \in S /\ y <= x /\ x <= y
      BY <1>2, <2>2 DEF FirstOf
    <3> QED BY <1>1, <3>1
  <2> QED BY <2>1, <2>2
<1> QED BY <1>3

\* The slots of the dispatched instructions that need a place in the station,
\* in the queue.
ToStation(d) == {k \in 1 .. Len(d) : needs_rs(d[k])}
ToQueue(d) == {k \in 1 .. Len(d) : needs_lsq(d[k])}

(***************************************************************************)
(* What enters the station and the queue: each instruction that needs a    *)
(* place has one of its own, free before, and nothing else enters.         *)
(***************************************************************************)
LEMMA StationPlaces ==
  ASSUME NEW d, Len(d) \in 0 .. 2, Len(d) >= 1 => fits(d), NEW cdb0, NEW cdb1
  PROVE  LET new == rs_new(d, cdb0, cdb1)
         IN \E at \in [ToStation(d) -> RsIndex] :
              /\ \A k \in ToStation(d) : /\ ~rs_q[at[k]].valid /\ at[k] \in DOMAIN new
                                         /\ new[at[k]] = rs_entry(d, k, cdb0, cdb1)
              /\ \A k, l \in ToStation(d) : at[k] = at[l] => k = l
              /\ \A i \in DOMAIN new : \E k \in ToStation(d) : i = at[k]
<1> DEFINE K == ToStation(d)  new == rs_new(d, cdb0, cdb1)
<1>1. K \in SUBSET (1 .. 2) /\ K \subseteq 1 .. Len(d)
  BY DEF ToStation
<1>2. \A i \in rs_free : i \in RsIndex /\ ~rs_q[i].valid
  BY DEF rs_free
<1>3. /\ K # {} => rs_free # {}
      /\ 1 \in K /\ 2 \in K => \A x : rs_free \ {x} # {}
  <2>1. CASE K = {}
    BY <2>1
  <2>2. CASE K # {}
    <3>1. Len(d) >= 1
      BY <1>1, <2>2
    <3>2. Cardinality(rs_free) >= Cardinality(K)
      BY <3>1 DEF fits, Count, ToStation
    <3>3. IsFiniteSet(rs_free)
      <4>1. IsFiniteSet(RsIndex)
        BY RsDepthAssumption, FS_Interval DEF RsIndex
      <4>2. rs_free \subseteq RsIndex
        BY <1>2
      <4> QED BY <4>1, <4>2, FS_Subset
    <3> HIDE DEF K
    <3> QED BY <1>1, <3>2, <3>3, Room
  <2> QED BY <2>1, <2>2
<1>4. ASSUME K # {}
      PROVE  \E x \in rs_free : free_index0 = {x}
  BY <1>2, <1>3, <1>4, FirstIs DEF free_index0
<1>5. ASSUME 1 \in K, 2 \in K
      PROVE  \E x \in rs_free : free_index1 = {x} /\ x \notin free_index0
  <2>1. PICK x \in rs_free : free_index0 = {x}
    BY <1>4, <1>5
  <2>2. rs_free \ {x} # {} /\ rs_free \ {x} \in SUBSET RsIndex
    BY <1>2, <1>3, <1>5
  <2>3. PICK y \in rs_free \ {x} : FirstOf(rs_free \ {x}) = {y}
    BY <2>2, FirstIs
  <2> QED BY <2>1, <2>3 DEF free_index1
<1>6. ASSUME NEW k \in K PROVE \E x \in rs_free : rs_index(d, k) = {x}
  <2>1. CASE k = 2 /\ needs_rs(d[1])
    <3>1. 1 \in K /\ 2 \in K
      BY <1>1, <2>1 DEF ToStation
    <3> QED BY <2>1, <3>1, <1>5 DEF rs_index
  <2>2. CASE ~(k = 2 /\ needs_rs(d[1]))
    BY <2>2, <1>4 DEF rs_index
  <2> QED BY <2>1, <2>2
<1>7. ASSUME NEW k \in K, NEW l \in K, k # l PROVE rs_index(d, k) \cap rs_index(d, l) = {}
  <2>1. 1 \in K /\ 2 \in K /\ needs_rs(d[1]) /\ {k, l} = {1, 2}
    BY <1>1, <1>7 DEF ToStation
  <2>2. rs_index(d, 2) = free_index1 /\ rs_index(d, 1) = free_index0
    BY <2>1 DEF rs_index
  <2>3. free_index0 \cap free_index1 = {}
    BY <1>5, <2>1
  <2> QED BY <2>1, <2>2, <2>3, <1>1
<1> DEFINE at == [k \in K |-> CHOOSE x \in rs_free : rs_index(d, k) = {x}]
<1>8. ASSUME NEW k \in K PROVE at[k] \in rs_free /\ rs_index(d, k) = {at[k]}
  BY <1>6
<1>9. at \in [K -> RsIndex]
  BY <1>2, <1>8
<1> HIDE DEF at
<1>10. \A k, l \in K : at[k] = at[l] => k = l
  BY <1>7, <1>8
<1>11. /\ DOMAIN new = UNION {rs_index(d, k) : k \in K}
       /\ \A i \in DOMAIN new :
            new[i] = rs_entry(d, CHOOSE k \in K : i \in rs_index(d, k), cdb0, cdb1)
  BY DEF rs_new, ToStation
<1> HIDE DEF new, K
<1>12. ASSUME NEW k \in K
       PROVE  at[k] \in DOMAIN new /\ new[at[k]] = rs_entry(d, k, cdb0, cdb1)
  <2>1. at[k] \in DOMAIN new
    BY <1>8, <1>11
  <2>2. (CHOOSE l \in K : at[k] \in rs_index(d, l)) = k
    BY <1>8, <1>10
  <2> QED BY <2>1, <2>2, <1>11
<1>13. \A i \in DOMAIN new : \E k \in K : i = at[k]
  BY <1>8, <1>11
<1>14. \A k \in K : ~rs_q[at[k]].valid
  BY <1>2, <1>8
<1> QED BY <1>9, <1>10, <1>12, <1>13, <1>14 DEF K, new

\* The lowest of a set of queue slots.
LEMMA MinIs ==
  ASSUME NEW S \in SUBSET LsqIndex
  PROVE  MinOf(S) \in LsqIndex /\ (S # {} => MinOf(S) \in S)
<1>1. S \subseteq Nat
  BY DEF LsqIndex
<1>2. S # {} => MinOf(S) \in S
  BY <1>1, LowestExists DEF MinOf
<1>3. 0 \in LsqIndex
  BY LsqDepthAssumption DEF LsqIndex
<1> QED BY <1>2, <1>3 DEF MinOf

LEMMA QueuePlaces ==
  ASSUME NEW d, Len(d) \in 0 .. 2, Len(d) >= 1 => fits(d)
  PROVE  /\ \A k : lsq_index(d, k) \in LsqIndex
         /\ \A k \in ToQueue(d) : ~lsq_q[lsq_index(d, k)].valid
         /\ \A k, l \in ToQueue(d) : lsq_index(d, k) = lsq_index(d, l) => k = l
         /\ DOMAIN lsq_new(d) = {lsq_index(d, k) : k \in ToQueue(d)}
         /\ \A k \in ToQueue(d) : lsq_new(d)[lsq_index(d, k)] = lsq_entry(d, k)
<1> DEFINE K == ToQueue(d)  new == lsq_new(d)
<1>1. K \in SUBSET (1 .. 2) /\ K \subseteq 1 .. Len(d)
  BY DEF ToQueue
<1>2. \A i \in lsq_free : i \in LsqIndex /\ ~lsq_q[i].valid
  BY DEF lsq_free
<1>3. /\ K # {} => lsq_free # {}
      /\ 1 \in K /\ 2 \in K => \A x : lsq_free \ {x} # {}
  <2>1. CASE K = {}
    BY <2>1
  <2>2. CASE K # {}
    <3>1. Len(d) >= 1
      BY <1>1, <2>2
    <3>2. Cardinality(lsq_free) >= Cardinality(K)
      BY <3>1 DEF fits, Count, ToQueue
    <3>3. IsFiniteSet(lsq_free)
      <4>1. IsFiniteSet(LsqIndex)
        BY LsqDepthAssumption, FS_Interval DEF LsqIndex
      <4>2. lsq_free \subseteq LsqIndex
        BY <1>2
      <4> QED BY <4>1, <4>2, FS_Subset
    <3> HIDE DEF K
    <3> QED BY <1>1, <3>2, <3>3, Room
  <2> QED BY <2>1, <2>2
<1>4. first_free_index \in LsqIndex /\ (K # {} => first_free_index \in lsq_free)
  BY <1>2, <1>3, MinIs DEF first_free_index
<1>5. /\ second_free_index \in LsqIndex
      /\ 1 \in K /\ 2 \in K => second_free_index \in lsq_free \ {first_free_index}
  BY <1>2, <1>3, MinIs DEF second_free_index
<1>6. ASSUME NEW k PROVE lsq_index(d, k) \in LsqIndex
  BY <1>4, <1>5 DEF lsq_index
<1>7. ASSUME NEW k \in K PROVE lsq_index(d, k) \in lsq_free
  <2>1. CASE k = 2 /\ needs_lsq(d[1])
    <3>1. 1 \in K /\ 2 \in K
      BY <1>1, <2>1 DEF ToQueue
    <3> QED BY <2>1, <3>1, <1>5 DEF lsq_index
  <2>2. CASE ~(k = 2 /\ needs_lsq(d[1]))
    BY <2>2, <1>4 DEF lsq_index
  <2> QED BY <2>1, <2>2
<1>8. ASSUME NEW k \in K, NEW l \in K, k # l PROVE lsq_index(d, k) # lsq_index(d, l)
  <2>1. 1 \in K /\ 2 \in K /\ needs_lsq(d[1]) /\ {k, l} = {1, 2}
    BY <1>1, <1>8 DEF ToQueue
  <2>2. lsq_index(d, 2) = second_free_index /\ lsq_index(d, 1) = first_free_index
    BY <2>1 DEF lsq_index
  <2>3. first_free_index # second_free_index
    BY <1>5, <2>1
  <2> QED BY <2>1, <2>2, <2>3, <1>1
<1>9. /\ DOMAIN new = {lsq_index(d, k) : k \in K}
      /\ \A i \in DOMAIN new :
           new[i] = lsq_entry(d, CHOOSE k \in K : lsq_index(d, k) = i)
  BY DEF lsq_new, ToQueue
<1> HIDE DEF new, K
<1>10. ASSUME NEW k \in K PROVE new[lsq_index(d, k)] = lsq_entry(d, k)
  <2>1. (CHOOSE l \in K : lsq_index(d, l) = lsq_index(d, k)) = k
    BY <1>8
  <2> QED BY <2>1, <1>9
<1> QED BY <1>2, <1>6, <1>7, <1>8, <1>9, <1>10 DEF K, new
----------------------------------------------------------------------------
(***************************************************************************)
(* An ordinary edge of the buffer, as the units see it.  d are the renamed *)
(* instructions dispatched.                                                *)
(***************************************************************************)
\* The instruction of tag t is still there and still waits.
Survives(t) ==
  /\ t \in Tag /\ rob_q'[t].valid /\ ~rob_q'[t].ready
  /\ rob_q'[t].uop = rob_q[t].uop /\ rob_q'[t].seq = rob_q[t].seq

LEMMA Survivors ==
  ASSUME RobTypeOK, ProgramOrder, NEW f, NEW d, NEW cdb0, NEW cdb1, NEW done,
         InputOK(d, cdb0, cdb1), Moves(d, retire_count(f), cdb0, cdb1, done),
         NEW t, Uncompleted(t), rob_q[t].uop.class # "fence",
         ~Named(t, cdb0, cdb1), t \notin done \/ rob_q[t].uop.class # "store"
  PROVE  /\ Survives(t)
         /\ retire_count(f) <= Position(t) /\ Position(t) < count_q
         /\ Position(t)' = Position(t) - retire_count(f)
         /\ t = head_q => retire_count(f) = 0
<1> DEFINE n == retire_count(f)
<1> HIDE DEF Tag
<1>1. t \in Tag /\ rob_q[t].valid /\ ~rob_q[t].ready
  BY DEF Uncompleted
<1>2. Position(t) \in Nat /\ Position(t) < count_q
  BY <1>1, Positions DEF ProgramOrder
<1>3. /\ n \in 0 .. 2
      /\ n >= 1 => Ready(rob_q[head_q], f)
      /\ n = 2 => Ready(rob_q[second_tag], f)
      /\ Position(t) = 0 <=> t = head_q
      /\ Position(t) = 1 <=> t = second_tag
  BY <1>1, CommittedAre
<1> HIDE DEF n
<1>4. ~Ready(rob_q[t], f)
  BY <1>1 DEF Ready
<1>5. n <= Position(t) /\ (t = head_q => n = 0)
  BY <1>2, <1>3, <1>4
<1>6. rob_q'[t] = StoreDone(Heard(t, cdb0, cdb1), t, done) /\ Position(t)' = Position(t) - n
  BY <1>1, <1>2, <1>5 DEF Moves, n
<1>7. LaneOK(cdb0) /\ LaneOK(cdb1)
  BY DEF InputOK
<1> DEFINE e == StoreDone(Heard(t, cdb0, cdb1), t, done)
<1>8. /\ e.valid = rob_q[t].valid /\ e.uop = rob_q[t].uop /\ e.seq = rob_q[t].seq
      /\ ~(cdb0.valid /\ cdb0.tag = t) /\ ~(cdb1.valid /\ cdb1.tag = t)
           => (e.ready <=> rob_q[t].ready \/ (/\ t \in done /\ rob_q[t].valid
                                              /\ rob_q[t].uop.class = "store"))
  <2>1. RobTypeOK /\ t \in Tag /\ LaneOK(cdb0) /\ LaneOK(cdb1)
    BY <1>1, <1>7
  <2>0. \A x \in Tag : StoreDone(Heard(x, cdb0, cdb1), x, done).valid = rob_q[x].valid
    BY <2>1, StaysAs
  <2>2. e.valid = rob_q[t].valid
    BY <2>1, <2>0
  <2> QED BY <2>1, StaysAs
<1> HIDE DEF e
<1>9. Survives(t)
  <2>1. rob_q'[t] = e
    BY <1>6 DEF e
  <2>2. ~(cdb0.valid /\ cdb0.tag = t) /\ ~(cdb1.valid /\ cdb1.tag = t)
    BY DEF Named
  <2>3. ~e.ready
    BY <1>1, <1>8, <2>2
  <2> QED BY <1>1, <1>8, <2>1, <2>3 DEF Survives
<1> QED BY <1>2, <1>5, <1>6, <1>9 DEF n

\* The tags behind the tail.
LEMMA TailPlaces ==
  ASSUME RobTypeOK, ProgramOrder, NEW k \in 0 .. 1, count_q + k < ROB_DEPTH
  PROVE  /\ After(tail_q, k) \in Tag /\ Position(After(tail_q, k)) = count_q + k
         /\ After(tail_q, 0) = tail_q
<1>1. /\ head_q \in 0 .. ROB_DEPTH - 1 /\ count_q \in 0 .. ROB_DEPTH
      /\ ROB_DEPTH \in Nat /\ ROB_DEPTH >= 2 /\ tail_q \in 0 .. ROB_DEPTH - 1
  BY RobDepthAssumption DEF RobTypeOK, Tag
<1>2. tail_q = After(head_q, count_q)
  BY DEF ProgramOrder
<1>3. After(tail_q, k) = After(head_q, count_q + k)
  BY <1>1, <1>2 DEF After
<1>4. After(head_q, count_q + k) \in Tag /\ Position(After(head_q, count_q + k)) = count_q + k
  BY <1>1, Positions
<1>5. After(tail_q, 0) = tail_q
  BY <1>1 DEF After
<1> QED BY <1>3, <1>4, <1>5

\* What is dispatched arrives behind the tail and waits, if it is supported.
Arrives(d, k, t) ==
  /\ t \in Tag /\ ~rob_q[t].valid /\ rob_q'[t] = NewEntry(d[k], k - 1)
  /\ rob_q'[t].valid /\ rob_q'[t].uop = d[k] /\ rob_q'[t].seq = next_seq_q + k - 1
  /\ rob_q'[t].ready = ~d[k].supported

LEMMA Arrivals ==
  ASSUME RobTypeOK, ProgramOrder, NEW n \in 0 .. 2, NEW d, NEW cdb0, NEW cdb1, NEW done,
         InputOK(d, cdb0, cdb1), Moves(d, n, cdb0, cdb1, done)
  PROVE  /\ \A k \in 1 .. Len(d) : /\ Arrives(d, k, After(tail_q, k - 1))
                                   /\ Position(After(tail_q, k - 1)) = count_q + k - 1
         /\ After(tail_q, 0) = tail_q
         /\ Len(d) = 2 => After(tail_q, 0) # After(tail_q, 1)
<1>1. /\ Len(d) \in 0 .. 2 /\ Len(d) <= ROB_DEPTH - count_q
      /\ count_q \in 0 .. ROB_DEPTH /\ ROB_DEPTH \in Nat /\ next_seq_q \in Nat
  BY RobDepthAssumption DEF InputOK, rob_free_count, RobTypeOK
<1>2. ASSUME NEW k \in 1 .. Len(d)
      PROVE  /\ After(tail_q, k - 1) \in Tag /\ Position(After(tail_q, k - 1)) = count_q + k - 1
  <2>1. k - 1 \in 0 .. 1 /\ count_q + (k - 1) < ROB_DEPTH
    <3>1. \A L \in 0 .. 2, c \in 0 .. ROB_DEPTH : L <= ROB_DEPTH - c =>
            \A x \in 1 .. L : x - 1 \in 0 .. 1 /\ c + (x - 1) < ROB_DEPTH
      BY <1>1
    <3> QED BY <1>1, <3>1, Zenon
  <2>2. count_q + (k - 1) = count_q + k - 1
    BY <1>1
  <2>3. \A j \in 0 .. 1 : count_q + j < ROB_DEPTH =>
          After(tail_q, j) \in Tag /\ Position(After(tail_q, j)) = count_q + j
    BY TailPlaces, Zenon
  <2>4. After(tail_q, k - 1) \in Tag /\ Position(After(tail_q, k - 1)) = count_q + (k - 1)
    BY <2>1, <2>3, Zenon
  <2> QED BY <2>2, <2>4, Zenon
<1>3. ASSUME NEW k \in 1 .. Len(d), NEW t, t = After(tail_q, k - 1)
      PROVE  Arrives(d, k, t)
  <2>1. t \in Tag /\ Position(t) = count_q + k - 1
    BY <1>2, <1>3
  <2>2. ~rob_q[t].valid
    <3>1. ~(Position(t) < count_q)
      BY <1>1, <2>1
    <3> QED BY <2>1, <3>1 DEF ProgramOrder
  <2>3. rob_q'[t] = NewEntry(d[k], k - 1)
    <3>1. CASE k = 1
      <4>1. Position(t) = count_q /\ Len(d) >= 1
        BY <1>1, <2>1, <3>1
      <4> QED BY <2>1, <3>1, <4>1 DEF Moves
    <3>2. CASE k = 2
      <4>1. Position(t) = count_q + 1 /\ Len(d) = 2
        BY <1>1, <2>1, <3>2
      <4> QED BY <2>1, <3>2, <4>1 DEF Moves
    <3> QED BY <1>1, <3>1, <3>2
  <2>4. next_seq_q + (k - 1) = next_seq_q + k - 1
    BY <1>1
  <2> QED BY <2>1, <2>2, <2>3, <2>4 DEF Arrives, NewEntry
<1>4. After(tail_q, 0) = tail_q
  BY RobDepthAssumption DEF After, RobTypeOK, Tag
<1>5. ASSUME Len(d) = 2 PROVE After(tail_q, 0) # After(tail_q, 1)
  <2>1. Position(After(tail_q, 1 - 1)) = count_q + 1 - 1 /\ Position(After(tail_q, 2 - 1)) = count_q + 2 - 1
    BY <1>2, <1>5
  <2>2. 1 - 1 = 0 /\ 2 - 1 = 1
    OBVIOUS
  <2>3. count_q + 1 - 1 # count_q + 2 - 1
    BY <1>1
  <2> QED BY <2>1, <2>2, <2>3
<1> QED BY <1>2, <1>3, <1>4, <1>5
----------------------------------------------------------------------------
(***************************************************************************)
(* The cycle, taken apart: what is dispatched and what the bus says is     *)
(* what the buffer, the maps and the register file may be given.           *)
(***************************************************************************)
Completing == IF store_q.valid THEN {store_q.rob} ELSE {}
Bundled(d) ==
  /\ Len(d) \in 0 .. 2 /\ (Len(d) >= 1 => fits(d))
  /\ \A k \in 1 .. Len(d) :
       LET pc == plus(fetch_pc, k - 1) IN pc \in Data /\ d[k] = decode(pc, prog[pc])
Spoken(cdb0, cdb1, recover) ==
  /\ cdb0 = lane(requests(recover), 1) /\ cdb1 = lane(requests(recover), 2)
  /\ Honest(cdb0) /\ Honest(cdb1)
UnitsTick(d, cdb0, cdb1, accept, answer, recover) ==
  /\ RsTick(rs_new(d, cdb0, cdb1), Gone(recover), cdb0, cdb1, recover)
  /\ LsqTick(lsq_new(d), agu(recover), [is_store |-> head_is_store, tag |-> head_q],
             {rob_q[t].seq : t \in InFlight({"control", "fence"})},
             DmIO(accept, answer), 1 \in granted(requests(recover)), recover)
  /\ MdTick(m_start(recover), 2 \in granted(requests(recover)), recover)
  /\ DmTick(accept, answer)
  /\ prog' = prog

LEMMA CycleWires ==
  ASSUME CoreInv, NEW avail \in 0 .. 2, NEW accept, NEW answer, CoreTick(avail, accept, answer)
  PROVE  \E d, cdb0, cdb1 :
           LET recover == recovery(fence_complete)
           IN /\ RenameInput(d, cdb0, cdb1, fence_complete)
              /\ RenameTick(d, cdb0, cdb1, Completing, fence_complete)
              /\ Bundled(d) /\ Spoken(cdb0, cdb1, recover)
              /\ UnitsTick(d, cdb0, cdb1, accept, answer, recover)
              /\ fetch_pc' = IF recover THEN rob_q[head_q].target ELSE plus(fetch_pc, Len(d))
<1> DEFINE f == fence_complete  R == recovery(f)
<1>1. /\ RenameTypes /\ RobTypeOK /\ ProgramOrder /\ CoreTypes /\ UnitsOwned
      /\ prog \in Programs /\ fetch_pc \in Data
  BY DEF CoreInv, RenameInv, RenameTypes, CoreTypes
<1>2. R \in BOOLEAN
  BY DEF recovery
<1>3. f => head_is_fence
  BY DEF fence_complete
<1> DEFINE Body(recover, d, req, cdb0, cdb1, new, gone) ==
             /\ RenameTick(d, cdb0, cdb1, Completing, f)
             /\ RsTick(new, gone, cdb0, cdb1, recover)
             /\ LsqTick(lsq_new(d), agu(recover), [is_store |-> head_is_store, tag |-> head_q],
                        {rob_q[t].seq : t \in InFlight({"control", "fence"})},
                        DmIO(accept, answer), 1 \in granted(req), recover)
             /\ MdTick(m_start(recover), 2 \in granted(req), recover)
             /\ DmTick(accept, answer)
             /\ fetch_pc' = IF recover THEN rob_q[head_q].target ELSE plus(fetch_pc, Len(d))
             /\ prog' = prog
<1>4. \E recover \in {R}, s \in {slots(avail)} :
        \E d \in {SubSeq(s, 1, dispatch_count(s, recover))}, req \in {requests(recover)} :
          \E cdb0 \in {lane(req, 1)}, cdb1 \in {lane(req, 2)} :
            \E new \in {rs_new(d, cdb0, cdb1)}, gone \in {issued(recover, granted(req))} :
              Body(recover, d, req, cdb0, cdb1, new, gone)
  BY DEF CoreTick, Completing
<1> HIDE DEF R, f, Body
<1>5. PICK d, req, cdb0, cdb1 :
        /\ d = SubSeq(slots(avail), 1, dispatch_count(slots(avail), R))
        /\ req = requests(R) /\ cdb0 = lane(req, 1) /\ cdb1 = lane(req, 2)
        /\ Body(R, d, req, cdb0, cdb1, rs_new(d, cdb0, cdb1), issued(R, granted(req)))
  BY <1>4
<1>6. /\ RenameTick(d, cdb0, cdb1, Completing, f)
      /\ UnitsTick(d, cdb0, cdb1, accept, answer, R)
      /\ fetch_pc' = IF R THEN rob_q[head_q].target ELSE plus(fetch_pc, Len(d))
  <2>1. Body(R, d, requests(R), cdb0, cdb1, rs_new(d, cdb0, cdb1), Gone(R))
    BY <1>5 DEF Gone
  <2> QED BY <2>1 DEF Body, UnitsTick
<1>7. /\ d = SubSeq(slots(avail), 1, dispatch_count(slots(avail), R))
      /\ req = requests(R) /\ cdb0 = lane(req, 1) /\ cdb1 = lane(req, 2)
  BY <1>5
<1>8. /\ d \in Seq(Decoded) /\ Len(d) \in 0 .. 2 /\ Len(d) <= rob_free_count
      /\ phys_need(d) <= Cardinality(free_mask)
      /\ R => d = <<>>
      /\ Len(d) >= 1 => fits(d)
      /\ \A k \in 1 .. Len(d) : LET pc == plus(fetch_pc, k - 1)
                                IN pc \in Data /\ d[k] = decode(pc, prog[pc])
  BY <1>1, <1>2, <1>7, Admitted
<1>9. Bundled(d)
  BY <1>8 DEF Bundled
<1>10. /\ BusOK(cdb0) /\ BusOK(cdb1) /\ Honest(cdb0) /\ Honest(cdb1)
       /\ R => ~cdb0.valid /\ ~cdb1.valid
  BY <1>1, <1>2, <1>7, BusIs
<1>11. Spoken(cdb0, cdb1, R)
  BY <1>7, <1>10 DEF Spoken
<1>12. RenameInput(d, cdb0, cdb1, f)
  BY <1>3, <1>8, <1>10 DEF RenameInput, R
<1> QED BY <1>6, <1>9, <1>11, <1>12 DEF R, f
----------------------------------------------------------------------------
(***************************************************************************)
(* Nothing of the memory pipeline is under way when the head recovers: it  *)
(* would be for an instruction behind a control instruction.               *)
(***************************************************************************)
LEMMA BehindHead ==
  ASSUME RobTypeOK, ProgramOrder, NEW t \in Tag, rob_q[t].valid, ~BarrierBefore(rob_q[t].seq),
         rob_q[t].uop.class # "control", rob_q[head_q].valid
  PROVE  rob_q[head_q].uop.class # "control"
<1>1. SUFFICES ASSUME rob_q[head_q].uop.class = "control" PROVE FALSE
  OBVIOUS
<1>2. head_q \in Tag /\ t # head_q
  BY <1>1 DEF RobTypeOK
<1>3. /\ rob_q[t].seq \in Nat /\ rob_q[head_q].seq \in Nat
      /\ rob_q[head_q].seq <= rob_q[t].seq /\ rob_q[head_q].seq # rob_q[t].seq
  BY <1>2, SeqNames
<1>4. rob_q[head_q].seq < rob_q[t].seq
  BY <1>3
<1>5. head_q \in InFlight({"control", "fence"})
  BY <1>1, <1>2 DEF InFlight
<1> QED BY <1>4, <1>5 DEF BarrierBefore

LEMMA RecoveryQuiet ==
  ASSUME RobTypeOK, ProgramOrder, QueuesOwned, LoadOwned, StoreOwned, RequestOwned, MemoryServes,
         req_q \in Requests, NEW f, recovery(f)
  PROVE  /\ ~req_q.pending /\ ~req_q.busy /\ ~load_q.valid /\ ~store_q.valid /\ ~dm_q.busy
         /\ memory_idle
         /\ head_q \in Tag /\ rob_q[head_q].valid /\ rob_q[head_q].uop.class = "control"
<1>1. head_q \in Tag /\ rob_q[head_q].valid /\ rob_q[head_q].uop.class = "control"
  BY DEF recovery, retire_count, head_valid, RobTypeOK
<1>2. \A t \in Tag : rob_q[t].valid /\ rob_q[t].uop.class # "control"
                       => BarrierBefore(rob_q[t].seq)
  BY <1>1, BehindHead
<1>3. ~req_q.pending /\ ~req_q.busy
  <2> SUFFICES ASSUME req_q.pending \/ req_q.busy PROVE FALSE
    OBVIOUS
  <2> DEFINE q == lsq_q[req_q.index]
  <2>1. q.valid /\ ~BarrierBefore(q.seq) /\ req_q.index \in LsqIndex
    BY DEF RequestOwned, Requests
  <2>2. QueueOwned(q)
    BY <2>1 DEF QueuesOwned
  <2>3. /\ q.rob \in Tag /\ rob_q[q.rob].valid /\ rob_q[q.rob].seq = q.seq
        /\ rob_q[q.rob].uop.class = IF q.is_store THEN "store" ELSE "load"
    BY <2>2 DEF QueueOwned, Uncompleted
  <2>4. rob_q[q.rob].uop.class # "control"
    BY <2>3
  <2> QED BY <1>2, <2>1, <2>3, <2>4
<1>4. ~load_q.valid
  BY <1>2 DEF LoadOwned, ResultOwed, Uncompleted
<1>5. ~store_q.valid
  BY <1>1 DEF StoreOwned
<1>6. ~dm_q.busy /\ memory_idle
  BY <1>3, <1>4 DEF MemoryServes, memory_idle, NoDrop
<1> QED BY <1>1, <1>3, <1>4, <1>5, <1>6
----------------------------------------------------------------------------
(***************************************************************************)
(* An ordinary edge of the core.                                           *)
(***************************************************************************)
Edge(d, cdb0, cdb1, accept, answer) ==
  /\ RenameInput(d, cdb0, cdb1, fence_complete)
  /\ Bundled(d) /\ Spoken(cdb0, cdb1, FALSE)
  /\ InputOK(renamed(d), cdb0, cdb1)
  /\ Moves(renamed(d), retire_count(fence_complete), cdb0, cdb1, Completing)
  /\ Len(renamed(d)) = Len(d)
  /\ \A k \in 1 .. Len(d) :
       LET u == renamed(d)[k] IN Keeps(u, d[k]) /\ u = RenamedTo(d[k], u.pdst, u.old_pdst)
  /\ head_q' = After(head_q, retire_count(fence_complete))
  /\ next_seq_q' = next_seq_q + Len(d)
  /\ RatAdvance(renamed(d), committed(fence_complete)) /\ RegTick(renamed(d), cdb0, cdb1)
  /\ UnitsTick(d, cdb0, cdb1, accept, answer, FALSE)
  /\ fetch_pc' = plus(fetch_pc, Len(d))
  /\ accept => req_q.pending
  /\ answer => req_q.busy \/ accept
  /\ RenameInv'

LEMMA RenamedSelf ==
  ASSUME NEW a \in Decoded
  PROVE  \A p, q : LET u == RenamedTo(a, p, q) IN u = RenamedTo(a, u.pdst, u.old_pdst)
<1>1. {"class", "supported", "writes", "rd", "pdst", "old_pdst"} \subseteq DOMAIN a
  BY DecodedAssumption
<1> QED BY <1>1 DEF RenamedTo

LEMMA CycleIsEdge ==
  ASSUME CoreInv, NEW avail \in 0 .. 2, NEW accept \in BOOLEAN, NEW answer \in BOOLEAN,
         Cycle(avail, accept, answer), ~recovery(fence_complete)
  PROVE  \E d, cdb0, cdb1 : Edge(d, cdb0, cdb1, accept, answer)
<1> DEFINE f == fence_complete
<1>1. /\ RenameInv /\ RenameTypes /\ RatTypeOK /\ ProgramOrder /\ MemoryServes
  BY DEF CoreInv, RenameInv, RenameTypes, UnitsOwned
<1>2. recovery(f) = FALSE
  BY DEF recovery
<1>3. CoreTick(avail, accept, answer)
  BY DEF Cycle
<1>4. PICK d, cdb0, cdb1 :
        LET recover == recovery(f)
        IN /\ RenameInput(d, cdb0, cdb1, f)
           /\ RenameTick(d, cdb0, cdb1, Completing, f)
           /\ Bundled(d) /\ Spoken(cdb0, cdb1, recover)
           /\ UnitsTick(d, cdb0, cdb1, accept, answer, recover)
           /\ fetch_pc' = IF recover THEN rob_q[head_q].target ELSE plus(fetch_pc, Len(d))
  BY <1>3, CycleWires
<1>5. /\ accept => ~dm_q.busy /\ (rvalid(recovery(f)) \/ wvalid(recovery(f)))
      /\ answer => dm_q.busy \/ accept
  BY DEF Cycle
<1> HIDE DEF f
<1>6. /\ RenameInput(d, cdb0, cdb1, f) /\ RenameTick(d, cdb0, cdb1, Completing, f)
      /\ Bundled(d) /\ Spoken(cdb0, cdb1, FALSE)
      /\ UnitsTick(d, cdb0, cdb1, accept, answer, FALSE)
      /\ fetch_pc' = plus(fetch_pc, Len(d))
  BY <1>2, <1>4
<1>7. /\ Advance(renamed(d), retire_count(f), cdb0, cdb1, Completing)
      /\ RatAdvance(renamed(d), committed(f)) /\ RegTick(renamed(d), cdb0, cdb1)
  BY <1>2, <1>6 DEF RenameTick, RobTick, RatTick
<1>8. InputOK(renamed(d), cdb0, cdb1) /\ Len(renamed(d)) = Len(d)
  BY <1>1, <1>6, BundleFits
<1>9. Moves(renamed(d), retire_count(f), cdb0, cdb1, Completing)
  BY <1>1, <1>6, <1>7, TypesAdvance
<1>10. RenameInv'
  BY <1>1, <1>6, RenameStep
<1>11. ASSUME NEW k \in 1 .. Len(d)
       PROVE  LET u == renamed(d)[k]
              IN Keeps(u, d[k]) /\ u = RenamedTo(d[k], u.pdst, u.old_pdst)
  <2> DEFINE u == renamed(d)[k]
  <2>1. d \in Seq(Decoded) /\ Len(d) \in 0 .. 2 /\ phys_need(d) <= Cardinality(free_mask)
    BY <1>6 DEF RenameInput
  <2>2. \A j \in 1 .. Len(d) : Keeps(renamed(d)[j], d[j])
    BY <1>1, <2>1, RenamedUops
  <2>3. d[k] \in Decoded
    BY <2>1
  <2>4. u = IF k = 1 THEN RenamedTo(d[k], new_pdst0(d[1]), old_pdst0(d[1]))
            ELSE RenamedTo(d[k], new_pdst1(d[1], d[2]), old_pdst1(d[1], d[2]))
    <3>1. k = 1 \/ k = 2
      BY <2>1
    <3> QED BY <3>1 DEF renamed, RenamedTo
  <2> HIDE DEF u
  <2>5. u = RenamedTo(d[k], u.pdst, u.old_pdst)
    BY <2>3, <2>4, RenamedSelf, Zenon
  <2> QED BY <2>2, <2>5 DEF u
<1>12. head_q' = After(head_q, retire_count(f)) /\ next_seq_q' = next_seq_q + Len(d)
  BY <1>7, <1>8 DEF Advance
<1>13. accept => req_q.pending
  BY <1>5 DEF rvalid, wvalid
<1>14. answer => req_q.busy \/ accept
  BY <1>1, <1>5 DEF MemoryServes
<1> QED BY <1>6, <1>7, <1>8, <1>9, <1>10, <1>11, <1>12, <1>13, <1>14 DEF Edge, f

\* What waits, and is neither named on the bus nor a completing store, waits on.
Waits(t, cdb0, cdb1) ==
  /\ Uncompleted(t) /\ rob_q[t].uop.class # "fence" /\ ~Named(t, cdb0, cdb1)
  /\ t \notin Completing \/ rob_q[t].uop.class # "store"

LEMMA EdgeKeeps ==
  ASSUME CoreInv, NEW d, NEW cdb0, NEW cdb1, NEW accept, NEW answer,
         Edge(d, cdb0, cdb1, accept, answer), NEW t, Waits(t, cdb0, cdb1)
  PROVE  /\ Survives(t) /\ Uncompleted(t)'
         /\ retire_count(fence_complete) <= Position(t) /\ Position(t) < count_q
         /\ Position(t)' = Position(t) - retire_count(fence_complete)
         /\ t = head_q => head_q' = head_q
<1> DEFINE f == fence_complete
<1>1. RobTypeOK /\ ProgramOrder
  BY DEF CoreInv, RenameInv, RenameTypes
<1>2. /\ InputOK(renamed(d), cdb0, cdb1)
      /\ Moves(renamed(d), retire_count(f), cdb0, cdb1, Completing)
      /\ head_q' = After(head_q, retire_count(f))
  BY DEF Edge
<1>3. /\ Uncompleted(t) /\ rob_q[t].uop.class # "fence" /\ ~Named(t, cdb0, cdb1)
      /\ t \notin Completing \/ rob_q[t].uop.class # "store"
  BY DEF Waits
<1> HIDE DEF f
<1>4. /\ Survives(t)
      /\ retire_count(f) <= Position(t) /\ Position(t) < count_q
      /\ Position(t)' = Position(t) - retire_count(f)
      /\ t = head_q => retire_count(f) = 0
  BY <1>1, <1>2, <1>3, Survivors
<1>5. t = head_q => head_q' = head_q
  <2>1. head_q \in 0 .. ROB_DEPTH - 1 /\ ROB_DEPTH \in Nat
    BY <1>1, RobDepthAssumption DEF RobTypeOK, Tag
  <2>2. After(head_q, 0) = head_q
    BY <2>1 DEF After
  <2> QED BY <1>2, <1>4, <2>2
<1>6. Uncompleted(t)'
  BY <1>4 DEF Survives, Uncompleted
<1> QED BY <1>4, <1>5, <1>6 DEF f

\* What is dispatched waits under a tag that was free.
Comes(d, k) ==
  LET t == After(tail_q, k - 1)
  IN /\ t \in Tag /\ ~rob_q[t].valid /\ rob_q'[t].valid
     /\ rob_q'[t].uop = renamed(d)[k] /\ rob_q'[t].seq = next_seq_q + k - 1
     /\ rob_q'[t].ready = ~d[k].supported

LEMMA EdgeBrings ==
  ASSUME CoreInv, NEW d, NEW cdb0, NEW cdb1, NEW accept, NEW answer,
         Edge(d, cdb0, cdb1, accept, answer)
  PROVE  /\ Len(d) \in 0 .. 2
         /\ \A k \in 1 .. Len(d) : Comes(d, k) /\ Position(After(tail_q, k - 1)) = count_q + k - 1
         /\ \A k, l \in 1 .. Len(d) : After(tail_q, k - 1) = After(tail_q, l - 1) => k = l
<1> DEFINE n == retire_count(fence_complete)  r == renamed(d)
<1>1. RobTypeOK /\ ProgramOrder
  BY DEF CoreInv, RenameInv, RenameTypes
<1>2. /\ InputOK(r, cdb0, cdb1) /\ Moves(r, n, cdb0, cdb1, Completing)
      /\ Len(r) = Len(d) /\ Len(d) \in 0 .. 2
      /\ \A k \in 1 .. Len(d) : r[k].supported = d[k].supported
  BY DEF Edge, Bundled, Keeps
<1>3. n \in 0 .. 2
  BY <1>1, CommittedAre
<1> HIDE DEF n, r
<1>4. /\ \A k \in 1 .. Len(d) : /\ Arrives(r, k, After(tail_q, k - 1))
                                /\ Position(After(tail_q, k - 1)) = count_q + k - 1
      /\ After(tail_q, 0) = tail_q
      /\ Len(d) = 2 => After(tail_q, 0) # After(tail_q, 1)
  BY <1>1, <1>2, <1>3, Arrivals
<1>5. ASSUME NEW k \in 1 .. Len(d) PROVE Comes(d, k)
  <2>1. Arrives(r, k, After(tail_q, k - 1)) /\ r[k].supported = d[k].supported
    BY <1>2, <1>4
  <2> QED BY <2>1 DEF Arrives, Comes, r
<1>6. ASSUME NEW k \in 1 .. Len(d), NEW l \in 1 .. Len(d),
             After(tail_q, k - 1) = After(tail_q, l - 1)
      PROVE  k = l
  <2>1. \A L \in 0 .. 2 : \A x, y \in 1 .. L :
          x = y \/ (L = 2 /\ ((x - 1 = 0 /\ y - 1 = 1) \/ (x - 1 = 1 /\ y - 1 = 0)))
    OBVIOUS
  <2>2. k = l \/ (Len(d) = 2 /\ ((k - 1 = 0 /\ l - 1 = 1) \/ (k - 1 = 1 /\ l - 1 = 0)))
    BY <1>2, <2>1, Zenon
  <2> QED BY <1>4, <1>6, <2>2
<1> QED BY <1>2, <1>4, <1>5, <1>6

\* No control or fence comes in front of what was in flight before.
LEMMA NoNewBarrier ==
  ASSUME CoreInv, NEW d, NEW cdb0, NEW cdb1, NEW accept, NEW answer,
         Edge(d, cdb0, cdb1, accept, answer),
         NEW s \in Nat, s < next_seq_q, ~BarrierBefore(s)
  PROVE  ~BarrierBefore(s)'
<1> DEFINE n == retire_count(fence_complete)  r == renamed(d)
<1>1. RobTypeOK /\ ProgramOrder
  BY DEF CoreInv, RenameInv, RenameTypes
<1>2. /\ InputOK(r, cdb0, cdb1) /\ Moves(r, n, cdb0, cdb1, Completing) /\ Len(r) = Len(d)
  BY DEF Edge
<1>3. n \in 0 .. 2 /\ n <= count_q
  BY <1>1, CommittedAre
<1>4. /\ Len(d) \in 0 .. 2
      /\ \A k \in 1 .. Len(d) : Comes(d, k) /\ Position(After(tail_q, k - 1)) = count_q + k - 1
  BY EdgeBrings
<1>5. next_seq_q \in Nat /\ count_q \in Nat
  BY <1>1, RobDepthAssumption DEF RobTypeOK
<1> HIDE DEF n, r
<1>6. SUFFICES ASSUME NEW t \in Tag, rob_q'[t].valid,
                      rob_q'[t].uop.class \in {"control", "fence"}, rob_q'[t].seq < s
               PROVE  FALSE
  BY DEF BarrierBefore, InFlight
<1>7. CASE n <= Position(t) /\ Position(t) < count_q
  <2>1. rob_q[t].valid /\ rob_q'[t].uop = rob_q[t].uop /\ rob_q'[t].seq = rob_q[t].seq
    BY <1>1, <1>2, <1>3, <1>7, InFlightAfter
  <2>2. t \in InFlight({"control", "fence"}) /\ rob_q[t].seq < s
    BY <1>6, <2>1 DEF InFlight
  <2> QED BY <2>2 DEF BarrierBefore
<1>8. ASSUME NEW k \in 1 .. Len(d), Position(t) = count_q + k - 1 PROVE FALSE
  <2>1. Comes(d, k) /\ Position(After(tail_q, k - 1)) = count_q + k - 1
    BY <1>4
  <2>2. After(tail_q, k - 1) \in Tag /\ rob_q'[After(tail_q, k - 1)].seq = next_seq_q + k - 1
    BY <2>1 DEF Comes
  <2>3. t = After(tail_q, k - 1)
    BY <1>1, <1>8, <2>1, <2>2, Positions
  <2>4. rob_q'[t].seq = next_seq_q + k - 1
    BY <2>2, <2>3
  <2>5. k \in Nat /\ k >= 1
    BY <1>4
  <2> QED BY <1>5, <1>6, <2>4, <2>5
<1>9. \/ n <= Position(t) /\ Position(t) < count_q
      \/ Len(d) >= 1 /\ Position(t) = count_q
      \/ Len(d) = 2 /\ Position(t) = count_q + 1
  BY <1>1, <1>2, <1>3, <1>6, InFlightAfter
<1>10. CASE Len(d) >= 1 /\ Position(t) = count_q
  <2>1. 1 \in 1 .. Len(d) /\ Position(t) = count_q + 1 - 1
    BY <1>4, <1>5, <1>10
  <2> QED BY <1>8, <2>1
<1>11. CASE Len(d) = 2 /\ Position(t) = count_q + 1
  <2>1. 2 \in 1 .. Len(d) /\ Position(t) = count_q + 2 - 1
    BY <1>4, <1>5, <1>11
  <2> QED BY <1>8, <2>1
<1> QED BY <1>7, <1>9, <1>10, <1>11
----------------------------------------------------------------------------
(***************************************************************************)
(* The station and the memory pipeline over an ordinary edge.              *)
(***************************************************************************)
\* Slot i takes dispatch slot k; slot i keeps its entry.
StationFresh(i, k, d, cdb0, cdb1) ==
  /\ k \in ToStation(d) /\ i \in RsIndex /\ ~rs_q[i].valid
  /\ rs_q'[i] = rs_entry(d, k, cdb0, cdb1)
StationStays(i, cdb0, cdb1) ==
  /\ i \in RsIndex /\ rs_q[i].valid /\ i \notin Gone(FALSE) /\ rs_q'[i].valid
  /\ rs_q'[i].uop = rs_q[i].uop /\ rs_q'[i].seq = rs_q[i].seq
  /\ rs_q'[i].rob = rs_q[i].rob /\ rs_q'[i].lsq = rs_q[i].lsq
  /\ rs_q'[i].src1 = Woken(rs_q[i].src1, cdb0, cdb1)
  /\ rs_q'[i].src2 = Woken(rs_q[i].src2, cdb0, cdb1)
  /\ rs_q'[i] = [rs_q[i] EXCEPT !.src1 = Woken(rs_q[i].src1, cdb0, cdb1),
                                !.src2 = Woken(rs_q[i].src2, cdb0, cdb1)]

LEMMA StationAfter ==
  ASSUME CoreInv, NEW d, NEW cdb0, NEW cdb1, NEW accept, NEW answer,
         Edge(d, cdb0, cdb1, accept, answer)
  PROVE  \E at \in [ToStation(d) -> RsIndex] :
           /\ \A k \in ToStation(d) : StationFresh(at[k], k, d, cdb0, cdb1)
           /\ \A k, l \in ToStation(d) : at[k] = at[l] => k = l
           /\ \A i \in RsIndex : \/ rs_q'[i] = RsFree
                                 \/ StationStays(i, cdb0, cdb1)
                                 \/ \E k \in ToStation(d) : i = at[k]
           /\ \A i \in RsIndex : rs_q[i].valid /\ i \notin Gone(FALSE)
                                   => StationStays(i, cdb0, cdb1)
<1> DEFINE new == rs_new(d, cdb0, cdb1)
<1>1. /\ Bundled(d) /\ RsTick(new, Gone(FALSE), cdb0, cdb1, FALSE)
      /\ Len(d) \in 0 .. 2 /\ (Len(d) >= 1 => fits(d))
  BY DEF Edge, UnitsTick, Bundled
<1>2. PICK at \in [ToStation(d) -> RsIndex] :
        /\ \A k \in ToStation(d) : /\ ~rs_q[at[k]].valid /\ at[k] \in DOMAIN new
                                   /\ new[at[k]] = rs_entry(d, k, cdb0, cdb1)
        /\ \A k, l \in ToStation(d) : at[k] = at[l] => k = l
        /\ \A i \in DOMAIN new : \E k \in ToStation(d) : i = at[k]
  BY <1>1, StationPlaces
<1> HIDE DEF new
<1>3. \A i \in RsIndex :
        rs_q'[i] = IF i \in DOMAIN new THEN new[i]
                   ELSE IF i \in Gone(FALSE) \/ ~rs_q[i].valid THEN RsFree
                   ELSE [rs_q[i] EXCEPT !.src1 = Woken(rs_q[i].src1, cdb0, cdb1),
                                        !.src2 = Woken(rs_q[i].src2, cdb0, cdb1)]
  BY <1>1 DEF RsTick
<1>4. \A i \in DOMAIN new : ~rs_q[i].valid
  BY <1>2
<1>5. ASSUME NEW i \in RsIndex, rs_q[i].valid, i \notin Gone(FALSE)
      PROVE  StationStays(i, cdb0, cdb1)
  <2> DEFINE x == Woken(rs_q[i].src1, cdb0, cdb1)  y == Woken(rs_q[i].src2, cdb0, cdb1)
             e == [rs_q[i] EXCEPT !.src1 = x, !.src2 = y]
  <2>1. rs_q'[i] = e
    BY <1>3, <1>4, <1>5
  <2>2. rs_q[i] \in Stations
    <3>1. CoreTypes /\ StationsOwned
      BY DEF CoreInv, UnitsOwned
    <3> QED BY <1>5, <3>1, StationTypes
  <2> HIDE DEF x, y
  <2>3. /\ e.valid = rs_q[i].valid /\ e.uop = rs_q[i].uop /\ e.seq = rs_q[i].seq
        /\ e.rob = rs_q[i].rob /\ e.lsq = rs_q[i].lsq /\ e.src1 = x /\ e.src2 = y
    BY <2>2 DEF Stations
  <2>4. /\ rs_q'[i].valid = rs_q[i].valid /\ rs_q'[i].uop = rs_q[i].uop
        /\ rs_q'[i].seq = rs_q[i].seq /\ rs_q'[i].rob = rs_q[i].rob
        /\ rs_q'[i].lsq = rs_q[i].lsq /\ rs_q'[i].src1 = x /\ rs_q'[i].src2 = y
        /\ rs_q'[i] = [rs_q[i] EXCEPT !.src1 = x, !.src2 = y]
    BY <2>1, <2>3
  <2>5. rs_q'[i].valid
    BY <1>5, <2>4
  <2> QED BY <1>5, <2>4, <2>5 DEF StationStays, x, y
<1>6. ASSUME NEW k \in ToStation(d) PROVE StationFresh(at[k], k, d, cdb0, cdb1)
  <2>1. /\ at[k] \in RsIndex /\ ~rs_q[at[k]].valid /\ at[k] \in DOMAIN new
        /\ new[at[k]] = rs_entry(d, k, cdb0, cdb1)
    BY <1>2
  <2>2. rs_q'[at[k]] = new[at[k]]
    BY <1>3, <2>1
  <2> QED BY <2>1, <2>2 DEF StationFresh
<1>7. ASSUME NEW i \in RsIndex
      PROVE  \/ rs_q'[i] = RsFree \/ StationStays(i, cdb0, cdb1)
             \/ \E k \in ToStation(d) : i = at[k]
  <2>1. CASE i \in DOMAIN new
    BY <1>2, <2>1
  <2>2. CASE i \notin DOMAIN new /\ (i \in Gone(FALSE) \/ ~rs_q[i].valid)
    BY <1>3, <2>2
  <2>3. CASE i \notin Gone(FALSE) /\ rs_q[i].valid
    BY <1>5, <2>3
  <2> QED BY <2>1, <2>2, <2>3
<1> QED BY <1>2, <1>5, <1>6, <1>7

\* The memory that accepts and answers is one that was asked; it answers what it was asked.
Candidate ==
  candidate([is_store |-> head_is_store, tag |-> head_q],
            {rob_q[t].seq : t \in InFlight({"control", "fence"})}, FALSE)

LsqNext(d, accept, answer) ==
  \A i \in LsqIndex :
    lsq_q'[i] =
      IF answer /\ i = req_q.index THEN LsqFree
      ELSE IF i \in DOMAIN lsq_new(d) THEN lsq_new(d)[i]
      ELSE IF accept /\ i = req_q.index THEN [lsq_q[i] EXCEPT !.issued = TRUE]
      ELSE IF agu(FALSE).valid /\ i = agu(FALSE).index /\ lsq_q[i].valid
           THEN [lsq_q[i] EXCEPT !.addr_valid = TRUE, !.addr = agu(FALSE).addr,
                                 !.wdata = agu(FALSE).wdata]
      ELSE lsq_q[i]

RequestNext(accept, answer) ==
  req_q' =
    IF Candidate # {}
    THEN LET i == CHOOSE j \in Candidate : TRUE
         IN [pending |-> TRUE, busy |-> FALSE, write |-> lsq_q[i].is_store,
             index |-> i, addr |-> lsq_q[i].addr, wdata |-> lsq_q[i].wdata,
             rob |-> lsq_q[i].rob, pdst |-> lsq_q[i].pdst,
             writes |-> lsq_q[i].writes]
    ELSE IF answer THEN NoRequest
    ELSE IF accept THEN [req_q EXCEPT !.pending = FALSE, !.busy = TRUE]
    ELSE req_q

LoadNext(accept, answer) ==
  load_q' =
    IF answer /\ ~req_q.write
    THEN [valid |-> TRUE, rob |-> req_q.rob, pdst |-> req_q.pdst,
          writes |-> req_q.writes, value |-> mem[serving(accept).addr]]
    ELSE IF 1 \in granted(requests(FALSE)) THEN NoLoad ELSE load_q

StoreNext(answer) ==
  store_q' = IF answer /\ req_q.write THEN [valid |-> TRUE, rob |-> req_q.rob] ELSE NoStore

LEMMA LsqEdge ==
  ASSUME CoreInv, NEW d, NEW cdb0, NEW cdb1, NEW accept \in BOOLEAN, NEW answer \in BOOLEAN,
         Edge(d, cdb0, cdb1, accept, answer)
  PROVE  /\ LsqNext(d, accept, answer) /\ RequestNext(accept, answer)
         /\ LoadNext(accept, answer) /\ StoreNext(answer) /\ drop_q' = NoDrop
         /\ Candidate # {} => ~accept /\ ~answer /\ memory_idle
<1> DEFINE io == DmIO(accept, answer)  fire == request_fire(io, FALSE)
           answered == (req_q.busy \/ fire) /\ active_response(io)
           new == lsq_new(d)  a == agu(FALSE)
<1>1. /\ LsqAdvance(new, a, Candidate, io, 1 \in granted(requests(FALSE)))
      /\ accept => req_q.pending
      /\ answer => req_q.busy \/ accept
  BY DEF Edge, UnitsTick, LsqTick, Candidate
<1>2. /\ req_q \in Requests /\ drop_q = NoDrop /\ (dm_q.busy <=> req_q.busy)
      /\ dm_q.busy => dm_q = DmRequest
  BY DEF CoreInv, CoreTypes, UnitsOwned, MemoryServes
<1>3. fire <=> accept
  <2>1. io.rready = accept /\ io.wready = accept
    BY DEF DmIO
  <2>2. req_q.pending \in BOOLEAN /\ req_q.write \in BOOLEAN
    BY <1>2 DEF Requests
  <2> QED BY <1>1, <2>1, <2>2 DEF request_fire, rvalid, wvalid
<1>4. answered <=> answer
  <2>1. answer => serving(accept).write = req_q.write
    <3>1. DmRequest.write = req_q.write
      BY DEF DmRequest
    <3> QED BY <1>1, <1>2, <3>1 DEF serving
  <2>2. io.rresp = (answer /\ ~serving(accept).write) /\ io.wresp = (answer /\ serving(accept).write)
    BY DEF DmIO
  <2>3. req_q.write \in BOOLEAN
    BY <1>2 DEF Requests
  <2> HIDE DEF io, fire
  <2>4. active_response(io) <=> answer
    BY <2>1, <2>2, <2>3 DEF active_response, response_for
  <2> QED BY <1>1, <1>3, <2>4
<1>5. io.rdata = mem[serving(accept).addr]
  BY DEF DmIO
<1>6. Candidate # {} => ~accept /\ ~answer /\ memory_idle
  <2>1. Candidate # {} => memory_idle
    BY DEF Candidate, candidate
  <2> QED BY <1>1, <2>1 DEF memory_idle
<1>7. /\ lsq_q' = [i \in LsqIndex |->
            IF answered /\ i = req_q.index THEN LsqFree
            ELSE IF i \in DOMAIN new THEN new[i]
            ELSE IF fire /\ i = req_q.index THEN [lsq_q[i] EXCEPT !.issued = TRUE]
            ELSE IF a.valid /\ i = a.index /\ lsq_q[i].valid
                 THEN [lsq_q[i] EXCEPT !.addr_valid = TRUE, !.addr = a.addr,
                                       !.wdata = a.wdata]
            ELSE lsq_q[i]]
      /\ req_q' =
            IF Candidate # {}
            THEN LET i == CHOOSE j \in Candidate : TRUE
                 IN [pending |-> TRUE, busy |-> FALSE, write |-> lsq_q[i].is_store,
                     index |-> i, addr |-> lsq_q[i].addr, wdata |-> lsq_q[i].wdata,
                     rob |-> lsq_q[i].rob, pdst |-> lsq_q[i].pdst,
                     writes |-> lsq_q[i].writes]
            ELSE IF answered THEN NoRequest
            ELSE IF fire THEN [req_q EXCEPT !.pending = FALSE, !.busy = TRUE]
            ELSE req_q
      /\ drop_q' = IF drop_q.active /\ response_for(drop_q.write, io) THEN NoDrop ELSE drop_q
      /\ load_q' =
            IF answered /\ ~req_q.write
            THEN [valid |-> TRUE, rob |-> req_q.rob, pdst |-> req_q.pdst,
                  writes |-> req_q.writes, value |-> io.rdata]
            ELSE IF 1 \in granted(requests(FALSE)) THEN NoLoad ELSE load_q
      /\ store_q' =
            IF answered /\ req_q.write THEN [valid |-> TRUE, rob |-> req_q.rob] ELSE NoStore
  BY <1>1 DEF LsqAdvance
<1> HIDE DEF answered, fire, new, a, io
<1>8. \A i \in LsqIndex :
         lsq_q'[i] =
            IF answer /\ i = req_q.index THEN LsqFree
            ELSE IF i \in DOMAIN new THEN new[i]
            ELSE IF accept /\ i = req_q.index THEN [lsq_q[i] EXCEPT !.issued = TRUE]
            ELSE IF a.valid /\ i = a.index /\ lsq_q[i].valid
                 THEN [lsq_q[i] EXCEPT !.addr_valid = TRUE, !.addr = a.addr,
                                       !.wdata = a.wdata]
            ELSE lsq_q[i]
  BY <1>3, <1>4, <1>7
<1>9. drop_q' = NoDrop
  BY <1>2, <1>7 DEF NoDrop
<1>10. LoadNext(accept, answer) /\ StoreNext(answer)
  BY <1>4, <1>5, <1>7 DEF LoadNext, StoreNext
<1>11. RequestNext(accept, answer)
  BY <1>3, <1>4, <1>7 DEF RequestNext
<1>12. LsqNext(d, accept, answer)
  BY <1>8 DEF LsqNext, new, a
<1> QED BY <1>5, <1>6, <1>9, <1>10, <1>11, <1>12

\* Address generation is for the memory instruction that leaves the station.
LEMMA AguIs ==
  ASSUME RobTypeOK, ProgramOrder, CoreTypes, StationsOwned
  PROVE  /\ agu(FALSE).valid =>
              /\ agu(FALSE).addr \in Data /\ agu(FALSE).wdata \in Data
              /\ \E j \in RsIndex : /\ rs_q[j].valid /\ j \in Gone(FALSE) /\ needs_lsq(rs_q[j].uop)
                                    /\ agu(FALSE).index = rs_q[j].lsq
         /\ \A j \in Gone(FALSE) : needs_lsq(rs_q[j].uop) =>
              agu(FALSE).valid /\ agu(FALSE).index = rs_q[j].lsq
<1> DEFINE o == Only(lsu_lane)  g == granted(requests(FALSE))
<1>1. /\ LaneIs(int0, {"alu", "control"}) /\ LaneIs(int1, {"alu"})
      /\ LaneIs(m_lane, {"muldiv"}) /\ LaneIs(lsu_lane, {"load", "store"})
  BY IssueLanes
<1>2. agu(FALSE).valid => lsu_lane # {}
  BY DEF agu
<1>3. lsu_lane # {} =>
        /\ agu(FALSE).valid /\ agu(FALSE).index = rs_q[o].lsq
        /\ agu(FALSE).addr = EffectiveAddr(rs_q[o].uop.ins, rs_q[o].src1.value)
        /\ agu(FALSE).wdata = rs_q[o].src2.value
  BY DEF agu
<1> HIDE DEF o, g
<1>4. lsu_lane # {} => /\ o \in lsu_lane /\ o \in RsIndex /\ rs_q[o].valid
                       /\ needs_lsq(rs_q[o].uop) /\ o \in Gone(FALSE)
  <2>1. lsu_lane # {} => o \in lsu_lane
    BY <1>1 DEF LaneIs, o
  <2>2. o \in lsu_lane => o \in RsIndex /\ rs_q[o].valid /\ rs_q[o].uop.class \in {"load", "store"}
    BY <1>1 DEF LaneIs
  <2>3. o \in lsu_lane => o \in Gone(FALSE)
    BY DEF issued, Gone
  <2> QED BY <2>1, <2>2, <2>3 DEF needs_lsq
<1>5. lsu_lane # {} => agu(FALSE).addr \in Data /\ agu(FALSE).wdata \in Data
  <2> SUFFICES ASSUME lsu_lane # {}
               PROVE  agu(FALSE).addr \in Data /\ agu(FALSE).wdata \in Data
    OBVIOUS
  <2>1. /\ rs_q[o].src1.value \in Data /\ rs_q[o].src2.value \in Data
        /\ rs_q[o].uop.pc \in Data /\ rs_q[o].uop.ins.imm \in Data
    BY <1>4, StationTypes
  <2>2. EffectiveAddr(rs_q[o].uop.ins, rs_q[o].src1.value) \in Data
    BY <2>1, ResultWord
  <2> QED BY <1>3, <2>1, <2>2
<1>6. ASSUME NEW j \in Gone(FALSE), needs_lsq(rs_q[j].uop)
      PROVE  agu(FALSE).valid /\ agu(FALSE).index = rs_q[j].lsq
  <2>1. rs_q[j].uop.class \in {"load", "store"}
    BY <1>6 DEF needs_lsq
  <2>2. j \in int0 \cup int1 \cup m_lane \cup lsu_lane
    BY DEF issued, Gone
  <2>3. j \in lsu_lane
    BY <1>1, <2>1, <2>2 DEF LaneIs
  <2>4. j = o
    BY <1>1, <1>4, <2>3 DEF LaneIs
  <2> QED BY <1>3, <2>3, <2>4
<1> QED BY <1>2, <1>3, <1>4, <1>5, <1>6

\* Slot i of the queue takes dispatch slot k; slot i keeps its entry.
QueueFresh(i, k, d) ==
  /\ k \in ToQueue(d) /\ i \in LsqIndex /\ ~lsq_q[i].valid
  /\ lsq_q'[i] = lsq_entry(d, k)
QueueStays(i) ==
  /\ i \in LsqIndex /\ lsq_q[i].valid /\ lsq_q'[i] \in QueueEntries /\ lsq_q'[i].valid
  /\ lsq_q'[i].is_store = lsq_q[i].is_store /\ lsq_q'[i].seq = lsq_q[i].seq
  /\ lsq_q'[i].rob = lsq_q[i].rob /\ lsq_q'[i].pdst = lsq_q[i].pdst
  /\ lsq_q'[i].writes = lsq_q[i].writes
  /\ lsq_q'[i].addr_valid <=> lsq_q[i].addr_valid \/ (agu(FALSE).valid /\ i = agu(FALSE).index)

\* An entry of the queue with one or another of its fields changed.
LEMMA EntryFields ==
  ASSUME NEW q \in QueueEntries, NEW x \in Data, NEW y \in Data
  PROVE  /\ LET e == [q EXCEPT !.issued = TRUE]
            IN /\ e \in QueueEntries /\ e.valid = q.valid /\ e.is_store = q.is_store
               /\ e.seq = q.seq /\ e.rob = q.rob /\ e.pdst = q.pdst /\ e.writes = q.writes
               /\ e.addr_valid = q.addr_valid
         /\ LET e == [q EXCEPT !.addr_valid = TRUE, !.addr = x, !.wdata = y]
            IN /\ e \in QueueEntries /\ e.valid = q.valid /\ e.is_store = q.is_store
               /\ e.seq = q.seq /\ e.rob = q.rob /\ e.pdst = q.pdst /\ e.writes = q.writes
               /\ e.addr_valid
BY DEF QueueEntries

LEMMA QueueAfter ==
  ASSUME CoreInv, NEW d, NEW cdb0, NEW cdb1, NEW accept \in BOOLEAN, NEW answer \in BOOLEAN,
         Edge(d, cdb0, cdb1, accept, answer)
  PROVE  /\ \A k \in ToQueue(d) : QueueFresh(lsq_index(d, k), k, d)
         /\ \A k, l \in ToQueue(d) : lsq_index(d, k) = lsq_index(d, l) => k = l
         /\ \A i \in LsqIndex : \/ lsq_q'[i] = LsqFree
                                \/ QueueStays(i) /\ ~(answer /\ i = req_q.index)
                                \/ \E k \in ToQueue(d) : i = lsq_index(d, k)
         /\ \A i \in LsqIndex : lsq_q[i].valid /\ ~(answer /\ i = req_q.index) => QueueStays(i)
         /\ answer => lsq_q'[req_q.index] = LsqFree
<1> DEFINE new == lsq_new(d)  a == agu(FALSE)
<1>1. /\ RobTypeOK /\ ProgramOrder /\ CoreTypes /\ StationsOwned /\ RequestOwned
      /\ req_q \in Requests /\ req_q.index \in LsqIndex
  <2>1. RobTypeOK /\ ProgramOrder /\ CoreTypes /\ StationsOwned /\ RequestOwned
    BY DEF CoreInv, RenameInv, RenameTypes, UnitsOwned
  <2>2. req_q \in Requests
    BY <2>1 DEF CoreTypes
  <2> QED BY <2>1, <2>2 DEF Requests
<1>2. Len(d) \in 0 .. 2 /\ (Len(d) >= 1 => fits(d))
  BY DEF Edge, Bundled
<1>3. /\ \A k : lsq_index(d, k) \in LsqIndex
      /\ \A k \in ToQueue(d) : ~lsq_q[lsq_index(d, k)].valid
      /\ \A k, l \in ToQueue(d) : lsq_index(d, k) = lsq_index(d, l) => k = l
      /\ DOMAIN new = {lsq_index(d, k) : k \in ToQueue(d)}
      /\ \A k \in ToQueue(d) : new[lsq_index(d, k)] = lsq_entry(d, k)
  BY <1>2, QueuePlaces
<1>4. a.valid => a.addr \in Data /\ a.wdata \in Data
  BY <1>1, AguIs
<1>5. \A i \in LsqIndex :
        lsq_q'[i] =
          IF answer /\ i = req_q.index THEN LsqFree
          ELSE IF i \in DOMAIN new THEN new[i]
          ELSE IF accept /\ i = req_q.index THEN [lsq_q[i] EXCEPT !.issued = TRUE]
          ELSE IF a.valid /\ i = a.index /\ lsq_q[i].valid
               THEN [lsq_q[i] EXCEPT !.addr_valid = TRUE, !.addr = a.addr, !.wdata = a.wdata]
          ELSE lsq_q[i]
  <2>1. LsqNext(d, accept, answer)
    BY LsqEdge
  <2> QED BY <2>1 DEF LsqNext
<1>6. /\ accept => req_q.pending
      /\ answer => req_q.busy \/ accept
  BY DEF Edge
<1> HIDE DEF new, a
<1>7. accept \/ answer => lsq_q[req_q.index].valid /\ lsq_q[req_q.index].addr_valid
  BY <1>1, <1>6 DEF RequestOwned
<1>8. \A i \in DOMAIN new : ~lsq_q[i].valid
  BY <1>3
<1>9. ASSUME NEW i \in LsqIndex, lsq_q[i].valid, ~(answer /\ i = req_q.index)
      PROVE  QueueStays(i)
  <2>1. lsq_q[i] \in QueueEntries
    <3>1. lsq_q[i] \in QueueEntries \cup {LsqFree}
      BY <1>1 DEF CoreTypes
    <3> QED BY <1>9, <3>1 DEF LsqFree
  <2>2. lsq_q'[i] = IF accept /\ i = req_q.index THEN [lsq_q[i] EXCEPT !.issued = TRUE]
                    ELSE IF a.valid /\ i = a.index
                         THEN [lsq_q[i] EXCEPT !.addr_valid = TRUE, !.addr = a.addr,
                                               !.wdata = a.wdata]
                    ELSE lsq_q[i]
    BY <1>5, <1>8, <1>9
  <2>3. CASE accept /\ i = req_q.index
    <3> DEFINE e == [lsq_q[i] EXCEPT !.issued = TRUE]
    <3>1. lsq_q'[i] = e /\ lsq_q[i].addr_valid
      BY <1>7, <2>2, <2>3
    <3>2. 0 \in Data
      BY WordsAssumption DEF Data
    <3>3. /\ e \in QueueEntries /\ e.valid = lsq_q[i].valid /\ e.is_store = lsq_q[i].is_store
          /\ e.seq = lsq_q[i].seq /\ e.rob = lsq_q[i].rob /\ e.pdst = lsq_q[i].pdst
          /\ e.writes = lsq_q[i].writes /\ e.addr_valid = lsq_q[i].addr_valid
      BY <2>1, <3>2, EntryFields
    <3> HIDE DEF e
    <3>4. lsq_q'[i].valid /\ lsq_q'[i].addr_valid
      BY <1>9, <3>1, <3>3
    <3>5. /\ lsq_q'[i] \in QueueEntries /\ lsq_q'[i].is_store = lsq_q[i].is_store
          /\ lsq_q'[i].seq = lsq_q[i].seq /\ lsq_q'[i].rob = lsq_q[i].rob
          /\ lsq_q'[i].pdst = lsq_q[i].pdst /\ lsq_q'[i].writes = lsq_q[i].writes
      BY <3>1, <3>3
    <3> QED BY <1>9, <3>1, <3>4, <3>5 DEF QueueStays
  <2>4. CASE ~(accept /\ i = req_q.index) /\ a.valid /\ i = a.index
    <3> DEFINE e == [lsq_q[i] EXCEPT !.addr_valid = TRUE, !.addr = a.addr, !.wdata = a.wdata]
    <3>1. lsq_q'[i] = e
      BY <2>2, <2>4
    <3>2. a.addr \in Data /\ a.wdata \in Data
      BY <1>4, <2>4
    <3>3. /\ e \in QueueEntries /\ e.valid = lsq_q[i].valid /\ e.is_store = lsq_q[i].is_store
          /\ e.seq = lsq_q[i].seq /\ e.rob = lsq_q[i].rob /\ e.pdst = lsq_q[i].pdst
          /\ e.writes = lsq_q[i].writes /\ e.addr_valid
      BY <2>1, <3>2 DEF QueueEntries
    <3> HIDE DEF e
    <3>4. lsq_q'[i].valid /\ lsq_q'[i].addr_valid
      BY <1>9, <3>1, <3>3
    <3>5. /\ lsq_q'[i] \in QueueEntries /\ lsq_q'[i].is_store = lsq_q[i].is_store
          /\ lsq_q'[i].seq = lsq_q[i].seq /\ lsq_q'[i].rob = lsq_q[i].rob
          /\ lsq_q'[i].pdst = lsq_q[i].pdst /\ lsq_q'[i].writes = lsq_q[i].writes
      BY <3>1, <3>3
    <3> QED BY <1>9, <2>4, <3>4, <3>5 DEF QueueStays, a
  <2>5. CASE ~(accept /\ i = req_q.index) /\ ~(a.valid /\ i = a.index)
    <3>1. lsq_q'[i] = lsq_q[i]
      BY <2>2, <2>5
    <3> QED BY <1>9, <2>1, <2>5, <3>1 DEF QueueStays, a
  <2> QED BY <2>3, <2>4, <2>5
<1>10. ASSUME NEW k \in ToQueue(d) PROVE QueueFresh(lsq_index(d, k), k, d)
  <2> DEFINE i == lsq_index(d, k)
  <2>1. i \in LsqIndex /\ ~lsq_q[i].valid /\ i \in DOMAIN new /\ new[i] = lsq_entry(d, k)
    BY <1>3
  <2> HIDE DEF i
  <2>2. ~(answer /\ i = req_q.index)
    BY <1>7, <2>1
  <2>3. lsq_q'[i] = new[i]
    BY <1>5, <2>1, <2>2
  <2> QED BY <2>1, <2>3 DEF QueueFresh, i
<1>11. ASSUME NEW i \in LsqIndex
       PROVE  \/ lsq_q'[i] = LsqFree
              \/ QueueStays(i) /\ ~(answer /\ i = req_q.index)
              \/ \E k \in ToQueue(d) : i = lsq_index(d, k)
  <2>1. CASE answer /\ i = req_q.index
    BY <1>5, <2>1
  <2>2. CASE ~(answer /\ i = req_q.index) /\ lsq_q[i].valid
    BY <1>9, <2>2
  <2>3. CASE ~(answer /\ i = req_q.index) /\ ~lsq_q[i].valid /\ i \notin DOMAIN new
    <3>1. ~(accept /\ i = req_q.index)
      BY <1>7, <2>3
    <3>2. lsq_q'[i] = lsq_q[i]
      BY <1>5, <2>3, <3>1
    <3>3. lsq_q[i] \in QueueEntries \cup {LsqFree}
      BY <1>1 DEF CoreTypes
    <3> QED BY <2>3, <3>2, <3>3 DEF QueueEntries
  <2>4. CASE i \in DOMAIN new
    BY <1>3, <2>4
  <2> QED BY <2>1, <2>2, <2>3, <2>4
<1>12. answer => lsq_q'[req_q.index] = LsqFree
  BY <1>1, <1>5
<1> QED BY <1>3, <1>9, <1>10, <1>11, <1>12

\* What the units hold waits on, unless the bus takes it.
LEMMA UnitsWait ==
  ASSUME CoreInv, NEW d, NEW cdb0, NEW cdb1, NEW accept, NEW answer,
         Edge(d, cdb0, cdb1, accept, answer)
  PROVE  /\ \A i \in RsIndex :
              rs_q[i].valid /\ (i \notin Gone(FALSE) \/ rs_q[i].uop.class \notin {"alu", "control"})
                => Waits(rs_q[i].rob, cdb0, cdb1)
         /\ \A i \in LsqIndex : lsq_q[i].valid => Waits(lsq_q[i].rob, cdb0, cdb1)
         /\ md_q.computing \/ (md_q.result_valid /\ 2 \notin granted(requests(FALSE)))
              => Waits(md_q.rob, cdb0, cdb1)
         /\ load_q.valid /\ 1 \notin granted(requests(FALSE)) => Waits(load_q.rob, cdb0, cdb1)
<1> DEFINE req == requests(FALSE)
<1>1. /\ RobTypeOK /\ ProgramOrder /\ CoreTypes /\ UnitsOwned
      /\ StationsOwned /\ QueuesOwned /\ LoadOwned /\ MulDivOwned /\ StoreOwned
  BY DEF CoreInv, RenameInv, RenameTypes, UnitsOwned
<1>2. cdb0 = lane(req, 1) /\ cdb1 = lane(req, 2)
  BY DEF Edge, Spoken
<1>3. /\ \A i \in LsqIndex : lsq_q[i].valid => ~Named(lsq_q[i].rob, cdb0, cdb1)
      /\ \A i \in RsIndex :
           rs_q[i].valid /\ (i \notin Gone(FALSE) \/ rs_q[i].uop.class \notin {"alu", "control"})
             => ~Named(rs_q[i].rob, cdb0, cdb1)
      /\ md_q.computing \/ (md_q.result_valid /\ 2 \notin granted(req))
           => ~Named(md_q.rob, cdb0, cdb1)
      /\ load_q.valid /\ 1 \notin granted(req) => ~Named(load_q.rob, cdb0, cdb1)
  BY <1>1, <1>2, NotNamed
<1> HIDE DEF req
<1>4. \A t \in Completing : t = head_q /\ NoQueue(t)
  BY <1>1 DEF Completing, StoreOwned
<1>5. ASSUME NEW i \in RsIndex, rs_q[i].valid,
             i \notin Gone(FALSE) \/ rs_q[i].uop.class \notin {"alu", "control"}
      PROVE  Waits(rs_q[i].rob, cdb0, cdb1)
  <2> DEFINE e == rs_q[i]
  <2>1. /\ Uncompleted(e.rob) /\ rob_q[e.rob].uop = e.uop /\ e.rob \in Tag
        /\ e.uop.class # "fence"
        /\ needs_lsq(e.uop) => lsq_q[e.lsq].valid /\ lsq_q[e.lsq].rob = e.rob
    BY <1>1, <1>5 DEF StationsOwned, StationOwned, Uncompleted
  <2>2. e.lsq \in LsqIndex
    <3>1. e \in Stations
      BY <1>1, <1>5, StationTypes
    <3> QED BY <3>1 DEF Stations
  <2>3. ~Named(e.rob, cdb0, cdb1)
    BY <1>3, <1>5
  <2> HIDE DEF e
  <2>4. e.rob \notin Completing \/ rob_q[e.rob].uop.class # "store"
    BY <1>4, <2>1, <2>2 DEF NoQueue, needs_lsq
  <2> QED BY <2>1, <2>3, <2>4 DEF Waits, e
<1>6. ASSUME NEW i \in LsqIndex, lsq_q[i].valid PROVE Waits(lsq_q[i].rob, cdb0, cdb1)
  <2> DEFINE q == lsq_q[i]
  <2>1. QueueOwned(q)
    BY <1>1, <1>6 DEF QueuesOwned
  <2>2. Uncompleted(q.rob) /\ rob_q[q.rob].uop.class # "fence"
    BY <2>1 DEF QueueOwned
  <2>3. ~Named(q.rob, cdb0, cdb1)
    BY <1>3, <1>6
  <2>4. q.rob \notin Completing
    BY <1>4, <1>6 DEF NoQueue
  <2> QED BY <2>2, <2>3, <2>4 DEF Waits
<1>7. md_q.computing \/ (md_q.result_valid /\ 2 \notin granted(req)) => Waits(md_q.rob, cdb0, cdb1)
  <2>1. md_q.computing \/ md_q.result_valid =>
          Uncompleted(md_q.rob) /\ rob_q[md_q.rob].uop.class = "muldiv"
    BY <1>1 DEF MulDivOwned, ResultOwed
  <2> QED BY <1>3, <2>1 DEF Waits
<1>8. load_q.valid /\ 1 \notin granted(req) => Waits(load_q.rob, cdb0, cdb1)
  <2>1. load_q.valid => Uncompleted(load_q.rob) /\ rob_q[load_q.rob].uop.class = "load"
    BY <1>1 DEF LoadOwned, ResultOwed
  <2> QED BY <1>3, <2>1 DEF Waits
<1> QED BY <1>5, <1>6, <1>7, <1>8 DEF req

\* The instruction of dispatch slot k, decoded and renamed.
LEMMA NewFields ==
  ASSUME CoreInv, NEW d, NEW cdb0, NEW cdb1, NEW accept, NEW answer,
         Edge(d, cdb0, cdb1, accept, answer), NEW k \in 1 .. Len(d)
  PROVE  LET u == renamed(d)[k]  a == d[k]
         IN /\ u.pc \in Data /\ u = RenamedTo(decode(u.pc, prog[u.pc]), u.pdst, u.old_pdst)
            /\ u \in Uop /\ u.pdst \in Phys /\ u.class = a.class /\ u.supported = a.supported
            /\ u.rs1_used = a.rs1_used /\ u.rs2_used = a.rs2_used /\ u.ins = a.ins
            /\ u.writes = a.writes /\ a.writes \in BOOLEAN
            /\ a.rs1_used \in BOOLEAN /\ a.rs2_used \in BOOLEAN
            /\ a.ins.rs1 \in Arch /\ a.ins.rs2 \in Arch
            /\ needs_lsq(a) => needs_rs(a)
<1> DEFINE u == renamed(d)[k]  a == d[k]
<1>1. prog \in Programs
  BY DEF CoreInv, CoreTypes
<1>2. PICK pc \in Data : a = decode(pc, prog[pc])
  BY DEF Edge, Bundled
<1>3. Keeps(u, a) /\ u = RenamedTo(a, u.pdst, u.old_pdst)
  BY DEF Edge
<1> HIDE DEF u, a
<1> DEFINE i == prog[pc]
<1>4. i.op \in Op /\ i.rs1 \in Arch /\ i.rs2 \in Arch
  BY <1>1, ProgramsAssumption
<1> HIDE DEF i
<1>5. a = decode(pc, i)
  BY <1>2 DEF i
<1>6. /\ a.pc = pc /\ a.ins = i /\ a.class = ClassOf(i.op) /\ a.supported = (i.op # "illegal")
      /\ a.writes \in BOOLEAN /\ a.rs1_used \in BOOLEAN /\ a.rs2_used \in BOOLEAN
  BY <1>5 DEF decode, sel_rd
<1>7. \A j, x, p, q :
        LET b == decode(x, j)  v == RenamedTo(b, p, q)
        IN v.pc = b.pc /\ v.ins = b.ins /\ v.rs1_used = b.rs1_used /\ v.rs2_used = b.rs2_used
  BY DEF decode, RenamedTo
<1>8. u.pc = a.pc /\ u.ins = a.ins /\ u.rs1_used = a.rs1_used /\ u.rs2_used = a.rs2_used
  BY <1>3, <1>5, <1>7
<1>9. u = RenamedTo(decode(u.pc, prog[u.pc]), u.pdst, u.old_pdst) /\ u.pc \in Data
  BY <1>3, <1>5, <1>6, <1>8 DEF i
<1>10. /\ u \in Uop /\ u.pdst \in Phys /\ u.class = a.class /\ u.supported = a.supported
       /\ u.writes = a.writes
  BY <1>3 DEF Keeps, UopOK
<1>11. needs_lsq(a) => needs_rs(a)
  BY <1>4, <1>6 DEF needs_lsq, needs_rs, ClassOf, Op, Control
<1> QED BY <1>4, <1>6, <1>8, <1>9, <1>10, <1>11 DEF u, a

\* The entries of dispatch slot k.
LEMMA FreshEntries ==
  ASSUME CoreInv, NEW d, NEW cdb0, NEW cdb1, NEW accept, NEW answer,
         Edge(d, cdb0, cdb1, accept, answer), NEW i, NEW k
  PROVE  /\ StationFresh(i, k, d, cdb0, cdb1) =>
              /\ k \in 1 .. Len(d) /\ needs_rs(d[k]) /\ i \in RsIndex /\ ~rs_q[i].valid
              /\ rs_q'[i].valid /\ rs_q'[i].uop = renamed(d)[k]
              /\ rs_q'[i].seq = next_seq_q + k - 1 /\ rs_q'[i].rob = After(tail_q, k - 1)
              /\ rs_q'[i].lsq = lsq_index(d, k)
              /\ rs_q'[i].src1 = source(d, k, d[k].rs1_used, d[k].ins.rs1, cdb0, cdb1)
              /\ rs_q'[i].src2 = source(d, k, d[k].rs2_used, d[k].ins.rs2, cdb0, cdb1)
         /\ QueueFresh(i, k, d) =>
              /\ k \in 1 .. Len(d) /\ needs_lsq(d[k]) /\ i \in LsqIndex /\ ~lsq_q[i].valid
              /\ lsq_q'[i].valid /\ ~lsq_q'[i].addr_valid
              /\ lsq_q'[i].is_store = (d[k].class = "store")
              /\ lsq_q'[i].seq = next_seq_q + k - 1 /\ lsq_q'[i].rob = After(tail_q, k - 1)
              /\ lsq_q'[i].pdst = renamed(d)[k].pdst /\ lsq_q'[i].writes = d[k].writes
<1>1. ASSUME StationFresh(i, k, d, cdb0, cdb1)
      PROVE  /\ k \in 1 .. Len(d) /\ needs_rs(d[k]) /\ i \in RsIndex /\ ~rs_q[i].valid
             /\ rs_q'[i].valid /\ rs_q'[i].uop = renamed(d)[k]
             /\ rs_q'[i].seq = next_seq_q + k - 1 /\ rs_q'[i].rob = After(tail_q, k - 1)
             /\ rs_q'[i].lsq = lsq_index(d, k)
             /\ rs_q'[i].src1 = source(d, k, d[k].rs1_used, d[k].ins.rs1, cdb0, cdb1)
             /\ rs_q'[i].src2 = source(d, k, d[k].rs2_used, d[k].ins.rs2, cdb0, cdb1)
  BY <1>1 DEF StationFresh, ToStation, rs_entry, RsEntry
<1>2. ASSUME QueueFresh(i, k, d)
      PROVE  /\ k \in 1 .. Len(d) /\ needs_lsq(d[k]) /\ i \in LsqIndex /\ ~lsq_q[i].valid
             /\ lsq_q'[i].valid /\ ~lsq_q'[i].addr_valid
             /\ lsq_q'[i].is_store = (d[k].class = "store")
             /\ lsq_q'[i].seq = next_seq_q + k - 1 /\ lsq_q'[i].rob = After(tail_q, k - 1)
             /\ lsq_q'[i].pdst = renamed(d)[k].pdst /\ lsq_q'[i].writes = d[k].writes
  BY <1>2 DEF QueueFresh, ToQueue, lsq_entry, LsqEntry
<1> QED BY <1>1, <1>2

\* An operand woken is the same operand.
LEMMA WokenIs ==
  ASSUME NEW s \in Operands, NEW cdb0, NEW cdb1,
         cdb0.valid => cdb0.value \in Data, cdb1.valid => cdb1.value \in Data
  PROVE  LET w == Woken(s, cdb0, cdb1)
         IN /\ w \in Operands /\ w.used = s.used /\ w.tag = s.tag
            /\ w.ready <=> s.ready \/ Hears(s, cdb1) \/ Hears(s, cdb0)
            /\ w.value = IF Hears(s, cdb1) THEN cdb1.value
                         ELSE IF Hears(s, cdb0) THEN cdb0.value ELSE s.value
<1>1. Hears(s, cdb0) => cdb0.value \in Data
  BY DEF Hears
<1>2. Hears(s, cdb1) => cdb1.value \in Data
  BY DEF Hears
<1> QED BY <1>1, <1>2 DEF Woken, Operands

LEMMA StationsStep ==
  ASSUME CoreInv, NEW d, NEW cdb0, NEW cdb1, NEW accept \in BOOLEAN, NEW answer \in BOOLEAN,
         Edge(d, cdb0, cdb1, accept, answer)
  PROVE  StationsOwned'
<1>1. /\ RobTypeOK /\ ProgramOrder /\ CoreTypes /\ StationsOwned /\ RequestOwned
  BY DEF CoreInv, RenameInv, RenameTypes, UnitsOwned
<1>2. PICK at \in [ToStation(d) -> RsIndex] :
        /\ \A k \in ToStation(d) : StationFresh(at[k], k, d, cdb0, cdb1)
        /\ \A k, l \in ToStation(d) : at[k] = at[l] => k = l
        /\ \A i \in RsIndex : \/ rs_q'[i] = RsFree
                              \/ StationStays(i, cdb0, cdb1)
                              \/ \E k \in ToStation(d) : i = at[k]
        /\ \A i \in RsIndex : rs_q[i].valid /\ i \notin Gone(FALSE)
                                => StationStays(i, cdb0, cdb1)
  BY StationAfter
<1>3. ASSUME NEW i \in RsIndex, rs_q'[i].valid
      PROVE  \/ StationStays(i, cdb0, cdb1)
             \/ \E k \in ToStation(d) : i = at[k] /\ StationFresh(i, k, d, cdb0, cdb1)
  <2>1. rs_q'[i] # RsFree
    BY <1>3 DEF RsFree
  <2> QED BY <1>2, <2>1
<1>4. ASSUME NEW i, NEW k \in ToStation(d), StationFresh(i, k, d, cdb0, cdb1)
      PROVE  Comes(d, k) /\ k \in 1 .. Len(d) /\ rs_q'[i].rob = After(tail_q, k - 1)
  <2>1. k \in 1 .. Len(d) /\ rs_q'[i].rob = After(tail_q, k - 1)
    BY <1>4, FreshEntries
  <2> QED BY <2>1, EdgeBrings
<1>5. ASSUME NEW i \in RsIndex, StationStays(i, cdb0, cdb1) PROVE StationOwned(rs_q[i])'
  <2>1. PICK e : e = rs_q[i]
    OBVIOUS
  <2>2. PICK n : n = rs_q'[i]
    OBVIOUS
  <2>3. /\ e.valid /\ i \notin Gone(FALSE) /\ n.uop = e.uop /\ n.seq = e.seq /\ n.rob = e.rob
        /\ n.lsq = e.lsq /\ n.src1 = Woken(e.src1, cdb0, cdb1) /\ n.src2 = Woken(e.src2, cdb0, cdb1)
    BY <1>5, <2>1, <2>2 DEF StationStays
  <2>4. /\ e \in Stations /\ e.src1 \in Operands /\ e.src2 \in Operands /\ e.lsq \in LsqIndex
        /\ e.rob \in Tag
    <3>1. e \in Stations
      BY <1>1, <2>1, <2>3, StationTypes
    <3> QED BY <3>1 DEF Stations
  <2>5. StationOwned(e)
    BY <1>1, <2>1, <2>3 DEF StationsOwned
  <2>6. Waits(e.rob, cdb0, cdb1)
    BY <2>1, <2>3, UnitsWait
  <2>7. Survives(e.rob)
    BY <2>6, EdgeKeeps
  <2>8. n.src1.used = e.src1.used /\ n.src2.used = e.src2.used
    <3>1. /\ cdb0.valid => cdb0.value \in Data
          /\ cdb1.valid => cdb1.value \in Data
      BY DEF Edge, Spoken, Honest
    <3> QED BY <2>3, <2>4, <3>1, WokenIs
  <2>9. ASSUME needs_lsq(e.uop)
        PROVE  LET q == lsq_q'[e.lsq] IN q.valid /\ ~q.addr_valid /\ q.rob = e.rob
    <3>1. PICK j \in LsqIndex : j = e.lsq
      BY <2>4
    <3>2. lsq_q[j].valid /\ ~lsq_q[j].addr_valid /\ lsq_q[j].rob = e.rob
      BY <2>5, <2>9, <3>1 DEF StationOwned
    <3>3. ~(answer /\ j = req_q.index)
      BY <1>1, <3>2 DEF Edge, RequestOwned
    <3>4. QueueStays(j)
      BY <3>2, <3>3, QueueAfter
    <3>5. ~(agu(FALSE).valid /\ j = agu(FALSE).index)
      <4> SUFFICES ASSUME agu(FALSE).valid, j = agu(FALSE).index PROVE FALSE
        OBVIOUS
      <4>1. PICK x \in RsIndex : /\ rs_q[x].valid /\ x \in Gone(FALSE) /\ needs_lsq(rs_q[x].uop)
                                 /\ j = rs_q[x].lsq
        BY <1>1, AguIs
      <4>2. StationOwned(rs_q[x])
        BY <1>1, <4>1 DEF StationsOwned
      <4>3. lsq_q[j].rob = rs_q[x].rob
        BY <4>1, <4>2 DEF StationOwned
      <4>4. x = i
        BY <1>1, <2>1, <2>3, <3>2, <4>1, <4>3 DEF StationsOwned
      <4> QED BY <2>3, <4>1, <4>4
    <3> QED BY <3>1, <3>2, <3>4, <3>5 DEF QueueStays
  <2> QED BY <2>2, <2>3, <2>5, <2>7, <2>8, <2>9 DEF StationOwned, Survives, Uncompleted
<1>6. ASSUME NEW i \in RsIndex, NEW k \in ToStation(d), StationFresh(i, k, d, cdb0, cdb1)
      PROVE  StationOwned(rs_q[i])'
  <2>1. PICK n : n = rs_q'[i]
    OBVIOUS
  <2>2. PICK t : t = After(tail_q, k - 1)
    OBVIOUS
  <2>3. PICK u : u = renamed(d)[k]
    OBVIOUS
  <2>4. /\ k \in 1 .. Len(d) /\ needs_rs(d[k]) /\ n.uop = u /\ n.seq = next_seq_q + k - 1
        /\ n.rob = t /\ n.lsq = lsq_index(d, k)
        /\ n.src1.used = d[k].rs1_used /\ n.src2.used = d[k].rs2_used
    <3>1. /\ k \in 1 .. Len(d) /\ needs_rs(d[k]) /\ n.uop = u /\ n.seq = next_seq_q + k - 1
          /\ n.rob = t /\ n.lsq = lsq_index(d, k)
          /\ n.src1 = source(d, k, d[k].rs1_used, d[k].ins.rs1, cdb0, cdb1)
          /\ n.src2 = source(d, k, d[k].rs2_used, d[k].ins.rs2, cdb0, cdb1)
      BY <1>6, <2>1, <2>2, <2>3, FreshEntries
    <3>2. \A x, r : source(d, k, x, r, cdb0, cdb1).used = x
      BY DEF source, Operand
    <3> QED BY <3>1, <3>2
  <2>5. /\ t \in Tag /\ rob_q'[t].valid /\ rob_q'[t].uop = u
        /\ rob_q'[t].seq = next_seq_q + k - 1 /\ rob_q'[t].ready = ~d[k].supported
    BY <1>4, <1>6, <2>2, <2>3 DEF Comes
  <2>6. /\ u.class = d[k].class /\ u.supported = d[k].supported
        /\ u.rs1_used = d[k].rs1_used /\ u.rs2_used = d[k].rs2_used
    BY <2>3, <2>4, NewFields
  <2>7. d[k].supported /\ d[k].class # "fence"
    BY <2>4 DEF needs_rs
  <2>8. ASSUME needs_lsq(u)
        PROVE  LET q == lsq_q'[n.lsq] IN q.valid /\ ~q.addr_valid /\ q.rob = t
    <3>1. k \in ToQueue(d)
      BY <2>4, <2>6, <2>8 DEF ToQueue, needs_lsq
    <3>2. QueueFresh(lsq_index(d, k), k, d)
      BY <3>1, QueueAfter
    <3>3. PICK j : j = lsq_index(d, k)
      OBVIOUS
    <3>4. lsq_q'[j].valid /\ ~lsq_q'[j].addr_valid /\ lsq_q'[j].rob = t
      BY <2>2, <3>2, <3>3, FreshEntries
    <3> QED BY <2>4, <3>3, <3>4
  <2> QED BY <2>1, <2>4, <2>5, <2>6, <2>7, <2>8 DEF StationOwned, Uncompleted
<1>7. ASSUME NEW i \in RsIndex, NEW j \in RsIndex, StationStays(i, cdb0, cdb1),
             NEW k \in ToStation(d), StationFresh(j, k, d, cdb0, cdb1)
      PROVE  rs_q'[i].rob # rs_q'[j].rob
  <2>1. rs_q'[i].rob = rs_q[i].rob /\ rs_q[i].valid
    BY <1>7 DEF StationStays
  <2>2. rob_q[rs_q[i].rob].valid
    BY <1>1, <2>1 DEF StationsOwned, StationOwned, Uncompleted
  <2>3. rs_q'[j].rob = After(tail_q, k - 1) /\ ~rob_q[After(tail_q, k - 1)].valid
    BY <1>4, <1>7 DEF Comes
  <2> QED BY <2>1, <2>2, <2>3
<1>8. ASSUME NEW i \in RsIndex, NEW j \in RsIndex, rs_q'[i].valid, rs_q'[j].valid,
             rs_q'[i].rob = rs_q'[j].rob
      PROVE  i = j
  <2>1. CASE StationStays(i, cdb0, cdb1) /\ StationStays(j, cdb0, cdb1)
    BY <1>1, <1>8, <2>1 DEF StationStays, StationsOwned
  <2>2. ASSUME NEW k \in ToStation(d), i = at[k], StationFresh(i, k, d, cdb0, cdb1),
               NEW l \in ToStation(d), j = at[l], StationFresh(j, l, d, cdb0, cdb1)
        PROVE  i = j
    <3>1. /\ k \in 1 .. Len(d) /\ l \in 1 .. Len(d)
          /\ After(tail_q, k - 1) = After(tail_q, l - 1)
      BY <1>4, <1>8, <2>2
    <3>2. k = l
      BY <3>1, EdgeBrings
    <3> QED BY <2>2, <3>2
  <2> QED BY <1>3, <1>7, <1>8, <2>1, <2>2
<1>9. \A i \in RsIndex : rs_q'[i].valid => StationOwned(rs_q[i])'
  BY <1>3, <1>5, <1>6
<1> QED BY <1>8, <1>9 DEF StationsOwned

LEMMA QueuesStep ==
  ASSUME CoreInv, NEW d, NEW cdb0, NEW cdb1, NEW accept \in BOOLEAN, NEW answer \in BOOLEAN,
         Edge(d, cdb0, cdb1, accept, answer)
  PROVE  QueuesOwned'
<1>1. /\ RobTypeOK /\ ProgramOrder /\ CoreTypes /\ StationsOwned /\ QueuesOwned
  BY DEF CoreInv, RenameInv, RenameTypes, UnitsOwned
<1>2. /\ \A k \in ToQueue(d) : QueueFresh(lsq_index(d, k), k, d)
      /\ \A k, l \in ToQueue(d) : lsq_index(d, k) = lsq_index(d, l) => k = l
      /\ \A i \in LsqIndex : \/ lsq_q'[i] = LsqFree
                             \/ QueueStays(i)
                             \/ \E k \in ToQueue(d) : i = lsq_index(d, k)
  BY QueueAfter
<1>3. ASSUME NEW i \in LsqIndex, lsq_q'[i].valid
      PROVE  \/ QueueStays(i)
             \/ \E k \in ToQueue(d) : i = lsq_index(d, k) /\ QueueFresh(i, k, d)
  <2>1. lsq_q'[i] # LsqFree
    BY <1>3 DEF LsqFree
  <2> QED BY <1>2, <2>1
<1>4. ASSUME NEW i, NEW k \in ToQueue(d), QueueFresh(i, k, d)
      PROVE  Comes(d, k) /\ k \in 1 .. Len(d) /\ lsq_q'[i].rob = After(tail_q, k - 1)
  <2>1. k \in 1 .. Len(d) /\ lsq_q'[i].rob = After(tail_q, k - 1)
    BY <1>4, FreshEntries
  <2> QED BY <2>1, EdgeBrings
<1>5. ASSUME NEW i \in LsqIndex, QueueStays(i) PROVE QueueOwned(lsq_q[i])'
  <2>1. PICK q : q = lsq_q[i]
    OBVIOUS
  <2>2. PICK n : n = lsq_q'[i]
    OBVIOUS
  <2>3. /\ q.valid /\ n.is_store = q.is_store /\ n.seq = q.seq /\ n.rob = q.rob
        /\ n.pdst = q.pdst /\ n.writes = q.writes
        /\ n.addr_valid <=> q.addr_valid \/ (agu(FALSE).valid /\ i = agu(FALSE).index)
    BY <1>5, <2>1, <2>2 DEF QueueStays
  <2>4. QueueOwned(q)
    BY <1>1, <2>1, <2>3 DEF QueuesOwned
  <2>5. Waits(q.rob, cdb0, cdb1)
    BY <2>1, <2>3, UnitsWait
  <2>6. Survives(q.rob)
    BY <2>5, EdgeKeeps
  <2>7. ASSUME ~n.addr_valid
        PROVE  \E x \in RsIndex : rs_q'[x].valid /\ rs_q'[x].rob = q.rob
    <3>1. PICK x \in RsIndex : rs_q[x].valid /\ rs_q[x].rob = q.rob
      BY <2>3, <2>4, <2>7 DEF QueueOwned, NoStation
    <3>2. StationOwned(rs_q[x]) /\ rs_q[x].lsq \in LsqIndex
      <4>1. rs_q[x] \in Stations
        BY <1>1, <3>1, StationTypes
      <4> QED BY <1>1, <3>1, <4>1 DEF StationsOwned, Stations
    <3>3. needs_lsq(rs_q[x].uop)
      BY <2>4, <3>1, <3>2 DEF StationOwned, QueueOwned, needs_lsq
    <3>4. PICK j \in LsqIndex : j = rs_q[x].lsq
      BY <3>2
    <3>5. lsq_q[j].valid /\ lsq_q[j].rob = q.rob
      BY <3>1, <3>2, <3>3, <3>4 DEF StationOwned
    <3>6. j = i
      BY <1>1, <2>1, <2>3, <3>5 DEF QueuesOwned
    <3>7. x \notin Gone(FALSE)
      <4> SUFFICES ASSUME x \in Gone(FALSE) PROVE FALSE
        OBVIOUS
      <4>1. agu(FALSE).valid /\ agu(FALSE).index = rs_q[x].lsq
        BY <1>1, <3>3, AguIs
      <4> QED BY <2>3, <2>7, <3>4, <3>6, <4>1
    <3>8. StationStays(x, cdb0, cdb1)
      BY <3>1, <3>7, StationAfter
    <3> QED BY <3>1, <3>8 DEF StationStays
  <2> QED BY <2>2, <2>3, <2>4, <2>6, <2>7 DEF QueueOwned, Survives, Uncompleted, NoStation
<1>6. ASSUME NEW i \in LsqIndex, NEW k \in ToQueue(d), QueueFresh(i, k, d)
      PROVE  QueueOwned(lsq_q[i])'
  <2>1. PICK n : n = lsq_q'[i]
    OBVIOUS
  <2>2. PICK t : t = After(tail_q, k - 1)
    OBVIOUS
  <2>3. PICK u : u = renamed(d)[k]
    OBVIOUS
  <2>4. /\ k \in 1 .. Len(d) /\ needs_lsq(d[k])
        /\ n.is_store = (d[k].class = "store")
        /\ n.seq = next_seq_q + k - 1 /\ n.rob = t
        /\ n.pdst = u.pdst /\ n.writes = d[k].writes
    BY <1>6, <2>1, <2>2, <2>3, FreshEntries
  <2>5. /\ t \in Tag /\ rob_q'[t].valid /\ rob_q'[t].uop = u
        /\ rob_q'[t].seq = next_seq_q + k - 1 /\ rob_q'[t].ready = ~d[k].supported
    BY <1>4, <1>6, <2>2, <2>3 DEF Comes
  <2>6. u.class = d[k].class /\ u.writes = d[k].writes /\ needs_rs(d[k])
    BY <2>3, <2>4, NewFields
  <2>7. d[k].supported /\ d[k].class = IF n.is_store THEN "store" ELSE "load"
    BY <2>4, <2>6 DEF needs_rs, needs_lsq
  <2>8. \E x \in RsIndex : rs_q'[x].valid /\ rs_q'[x].rob = t
    <3>1. k \in ToStation(d)
      BY <2>4, <2>6 DEF ToStation
    <3>2. PICK x : StationFresh(x, k, d, cdb0, cdb1)
      BY <3>1, StationAfter
    <3> QED BY <2>2, <3>2, FreshEntries
  <2> QED BY <2>1, <2>4, <2>5, <2>6, <2>7, <2>8 DEF QueueOwned, Uncompleted, NoStation
<1>7. ASSUME NEW i \in LsqIndex, NEW j \in LsqIndex, QueueStays(i),
             NEW k \in ToQueue(d), QueueFresh(j, k, d)
      PROVE  lsq_q'[i].rob # lsq_q'[j].rob
  <2>1. lsq_q'[i].rob = lsq_q[i].rob /\ lsq_q[i].valid
    BY <1>7 DEF QueueStays
  <2>2. rob_q[lsq_q[i].rob].valid
    BY <1>1, <2>1 DEF QueuesOwned, QueueOwned, Uncompleted
  <2>3. lsq_q'[j].rob = After(tail_q, k - 1) /\ ~rob_q[After(tail_q, k - 1)].valid
    BY <1>4, <1>7 DEF Comes
  <2> QED BY <2>1, <2>2, <2>3
<1>8. ASSUME NEW i \in LsqIndex, NEW j \in LsqIndex, lsq_q'[i].valid, lsq_q'[j].valid,
             lsq_q'[i].rob = lsq_q'[j].rob
      PROVE  i = j
  <2>1. CASE QueueStays(i) /\ QueueStays(j)
    BY <1>1, <1>8, <2>1 DEF QueueStays, QueuesOwned
  <2>2. ASSUME NEW k \in ToQueue(d), i = lsq_index(d, k), QueueFresh(i, k, d),
               NEW l \in ToQueue(d), j = lsq_index(d, l), QueueFresh(j, l, d)
        PROVE  i = j
    <3>1. /\ k \in 1 .. Len(d) /\ l \in 1 .. Len(d)
          /\ After(tail_q, k - 1) = After(tail_q, l - 1)
      BY <1>4, <1>8, <2>2
    <3>2. k = l
      BY <3>1, EdgeBrings
    <3> QED BY <2>2, <3>2
  <2> QED BY <1>3, <1>7, <1>8, <2>1, <2>2
<1>9. \A i \in LsqIndex : lsq_q'[i].valid => QueueOwned(lsq_q[i])'
  BY <1>3, <1>5, <1>6
<1> QED BY <1>8, <1>9 DEF QueuesOwned

\* Neither the station nor the queue comes to hold what they did not hold.
LEMMA StillGone ==
  ASSUME CoreInv, NEW d, NEW cdb0, NEW cdb1, NEW accept \in BOOLEAN, NEW answer \in BOOLEAN,
         Edge(d, cdb0, cdb1, accept, answer), NEW t, rob_q[t].valid
  PROVE  /\ (\A i \in RsIndex : rs_q[i].valid /\ i \notin Gone(FALSE) => rs_q[i].rob # t)
              => NoStation(t)'
         /\ (\A i \in LsqIndex : lsq_q[i].valid /\ ~(answer /\ i = req_q.index) => lsq_q[i].rob # t)
              => NoQueue(t)'
<1>0. PICK at \in [ToStation(d) -> RsIndex] :
        /\ \A k \in ToStation(d) : StationFresh(at[k], k, d, cdb0, cdb1)
        /\ \A k, l \in ToStation(d) : at[k] = at[l] => k = l
        /\ \A i \in RsIndex : \/ rs_q'[i] = RsFree
                              \/ StationStays(i, cdb0, cdb1)
                              \/ \E k \in ToStation(d) : i = at[k]
        /\ \A i \in RsIndex : rs_q[i].valid /\ i \notin Gone(FALSE)
                                => StationStays(i, cdb0, cdb1)
  BY StationAfter
<1>1. ASSUME \A i \in RsIndex : rs_q[i].valid /\ i \notin Gone(FALSE) => rs_q[i].rob # t
      PROVE  NoStation(t)'
  <2> SUFFICES ASSUME NEW i \in RsIndex, rs_q'[i].valid PROVE rs_q'[i].rob # t
    BY DEF NoStation
  <2>1. rs_q'[i] # RsFree
    BY DEF RsFree
  <2>2. StationStays(i, cdb0, cdb1) \/ \E k \in ToStation(d) : StationFresh(i, k, d, cdb0, cdb1)
    BY <1>0, <2>1
  <2>3. CASE StationStays(i, cdb0, cdb1)
    BY <1>1, <2>3 DEF StationStays
  <2>4. ASSUME NEW k \in ToStation(d), StationFresh(i, k, d, cdb0, cdb1) PROVE rs_q'[i].rob # t
    <3>1. k \in 1 .. Len(d) /\ rs_q'[i].rob = After(tail_q, k - 1)
      BY <2>4, FreshEntries
    <3>2. Comes(d, k)
      BY <3>1, EdgeBrings
    <3> QED BY <3>1, <3>2 DEF Comes
  <2> QED BY <2>2, <2>3, <2>4
<1>2. ASSUME \A i \in LsqIndex : lsq_q[i].valid /\ ~(answer /\ i = req_q.index) => lsq_q[i].rob # t
      PROVE  NoQueue(t)'
  <2> SUFFICES ASSUME NEW i \in LsqIndex, lsq_q'[i].valid PROVE lsq_q'[i].rob # t
    BY DEF NoQueue
  <2>1. lsq_q'[i] # LsqFree
    BY DEF LsqFree
  <2>2. \/ QueueStays(i) /\ ~(answer /\ i = req_q.index)
        \/ \E k \in ToQueue(d) : QueueFresh(i, k, d)
    BY <2>1, QueueAfter
  <2>3. CASE QueueStays(i) /\ ~(answer /\ i = req_q.index)
    BY <1>2, <2>3 DEF QueueStays
  <2>4. ASSUME NEW k \in ToQueue(d), QueueFresh(i, k, d) PROVE lsq_q'[i].rob # t
    <3>1. k \in 1 .. Len(d) /\ lsq_q'[i].rob = After(tail_q, k - 1)
      BY <2>4, FreshEntries
    <3>2. Comes(d, k)
      BY <3>1, EdgeBrings
    <3> QED BY <3>1, <3>2 DEF Comes
  <2> QED BY <2>2, <2>3, <2>4
<1> QED BY <1>1, <1>2

\* A result under way stays owed.
LEMMA OwedOn ==
  ASSUME CoreInv, NEW d, NEW cdb0, NEW cdb1, NEW accept, NEW answer,
         Edge(d, cdb0, cdb1, accept, answer),
         NEW t, NEW c, NEW w, NEW p, ResultOwed(t, c, w, p), Waits(t, cdb0, cdb1)
  PROVE  ResultOwed(t, c, w, p)'
<1>1. Survives(t)
  BY EdgeKeeps
<1> QED BY <1>1 DEF ResultOwed, Survives, Uncompleted

LEMMA MulDivStep ==
  ASSUME CoreInv, NEW d, NEW cdb0, NEW cdb1, NEW accept \in BOOLEAN, NEW answer \in BOOLEAN,
         Edge(d, cdb0, cdb1, accept, answer)
  PROVE  MulDivOwned' /\ md_q' \in Operations
<1> DEFINE start == m_start(FALSE)  g == 2 \in granted(requests(FALSE))
<1>1. /\ RobTypeOK /\ ProgramOrder /\ CoreTypes /\ StationsOwned /\ MulDivOwned
  BY DEF CoreInv, RenameInv, RenameTypes, UnitsOwned
<1>2. md_q \in Operations
  BY <1>1 DEF CoreTypes
<1>3. MdTick(start, g, FALSE)
  BY DEF Edge, UnitsTick
<1>4. FIXED_LATENCY \in Nat
  BY LatencyAssumption
<1>5. CASE start # {}
  <2>1. LaneIs(m_lane, {"muldiv"})
    BY <1>1, IssueLanes
  <2>2. PICK s : /\ s \in start
                 /\ md_q' = [computing |-> TRUE, count |-> FIXED_LATENCY, result_valid |-> FALSE,
                             value |-> s.value, rob |-> s.rob, pdst |-> s.pdst, writes |-> s.writes]
    BY <1>3, <1>5 DEF MdTick
  <2>3. PICK i \in m_lane :
          s = [value |-> Result(rs_q[i].uop.ins, rs_q[i].uop.pc, rs_q[i].src1.value,
                                rs_q[i].src2.value),
               rob |-> rs_q[i].rob, pdst |-> rs_q[i].uop.pdst, writes |-> rs_q[i].uop.writes]
    BY <2>2 DEF m_start
  <2>4. i \in Gone(FALSE)
    BY <1>5 DEF issued, Gone
  <2>5. i \in RsIndex /\ rs_q[i].valid /\ rs_q[i].uop.class = "muldiv"
    BY <2>1 DEF LaneIs
  <2>6. PICK e : e = rs_q[i]
    OBVIOUS
  <2>7. /\ e.rob \in Tag /\ Uncompleted(e.rob) /\ rob_q[e.rob].uop = e.uop
        /\ e.src1.value \in Data /\ e.src2.value \in Data
        /\ e.uop.pc \in Data /\ e.uop.ins.imm \in Data
    BY <1>1, <2>5, <2>6, StationTypes
  <2>8. PICK v : v = Result(e.uop.ins, e.uop.pc, e.src1.value, e.src2.value)
    OBVIOUS
  <2>9. v \in Data
    BY <2>7, <2>8, ResultWord
  <2>10. md_q' = [computing |-> TRUE, count |-> FIXED_LATENCY, result_valid |-> FALSE,
                  value |-> v, rob |-> e.rob, pdst |-> e.uop.pdst, writes |-> e.uop.writes]
    BY <2>2, <2>3, <2>6, <2>8
  <2>11. ResultOwed(e.rob, "muldiv", e.uop.writes, e.uop.pdst)
    BY <2>5, <2>6, <2>7 DEF ResultOwed
  <2>12. Waits(e.rob, cdb0, cdb1)
    BY <2>5, <2>6, UnitsWait
  <2>13. ResultOwed(e.rob, "muldiv", e.uop.writes, e.uop.pdst)'
    BY <2>11, <2>12, OwedOn
  <2>14. NoStation(e.rob)'
    <3>1. \A j \in RsIndex : rs_q[j].valid /\ j \notin Gone(FALSE) => rs_q[j].rob # e.rob
      BY <1>1, <2>4, <2>5, <2>6 DEF StationsOwned
    <3> QED BY <2>7, <3>1, StillGone DEF Uncompleted
  <2>15. e.uop.writes \in BOOLEAN /\ e.uop.pdst \in Phys
    <3>1. UopOK(rob_q[e.rob].uop)
      BY <2>7 DEF CoreInv, RenameInv, RenameTypes, UopsOK, Uncompleted
    <3> QED BY <2>7, <3>1 DEF UopOK
  <2>16. md_q' \in Operations
    BY <1>4, <2>7, <2>9, <2>10, <2>15 DEF Operations
  <2>17. /\ md_q'.rob = e.rob /\ md_q'.writes = e.uop.writes /\ md_q'.pdst = e.uop.pdst
         /\ ~md_q'.result_valid
    BY <2>10
  <2> QED BY <2>13, <2>14, <2>16, <2>17 DEF MulDivOwned, ResultOwed, NoStation
<1>6. CASE start = {} /\ (md_q.computing \/ (md_q.result_valid /\ ~g))
  <2>1. /\ md_q'.rob = md_q.rob /\ md_q'.writes = md_q.writes /\ md_q'.pdst = md_q.pdst
        /\ ~(md_q'.computing /\ md_q'.result_valid)
        /\ md_q' \in Operations
    <3>1. md_q.computing \in BOOLEAN /\ md_q.result_valid \in BOOLEAN /\ md_q.count \in Nat
      BY <1>2 DEF Operations
    <3>2. ~(md_q.computing /\ md_q.result_valid)
      BY <1>1 DEF MulDivOwned
    <3>3. CASE md_q.computing /\ md_q.count > 1
      <4>0. md_q.count - 1 \in Nat
        BY <3>1, <3>3
      <4>1. md_q' = [md_q EXCEPT !.count = md_q.count - 1]
        BY <1>3, <1>6, <3>3 DEF MdTick
      <4>2. PICK m : m = md_q
        OBVIOUS
      <4>3. PICK c \in Nat : c = md_q.count - 1
        BY <4>0
      <4>4. md_q' = [m EXCEPT !.count = c] /\ m \in Operations /\ ~m.result_valid
        BY <1>2, <3>2, <3>3, <4>1, <4>2, <4>3
      <4>5. /\ [m EXCEPT !.count = c] \in Operations
            /\ [m EXCEPT !.count = c].rob = m.rob /\ [m EXCEPT !.count = c].writes = m.writes
            /\ [m EXCEPT !.count = c].pdst = m.pdst
            /\ [m EXCEPT !.count = c].result_valid = m.result_valid
        BY <4>4 DEF Operations
      <4> QED BY <4>2, <4>4, <4>5
    <3>4. CASE md_q.computing /\ ~(md_q.count > 1)
      <4>1. md_q' = [md_q EXCEPT !.computing = FALSE, !.count = 0, !.result_valid = TRUE]
        BY <1>3, <1>6, <3>4 DEF MdTick
      <4>2. PICK m : m = md_q
        OBVIOUS
      <4>3. PICK n : n = [m EXCEPT !.computing = FALSE, !.count = 0, !.result_valid = TRUE]
        OBVIOUS
      <4>4. m \in Operations
        BY <1>2, <4>2
      <4>5. n \in Operations /\ n.rob = m.rob /\ n.writes = m.writes /\ n.pdst = m.pdst /\ ~n.computing
        BY <4>3, <4>4 DEF Operations
      <4> QED BY <4>1, <4>2, <4>3, <4>5
    <3>5. CASE ~md_q.computing
      <4>1. md_q' = md_q
        BY <1>3, <1>6, <3>5 DEF MdTick
      <4> QED BY <1>2, <3>2, <4>1
    <3> QED BY <3>3, <3>4, <3>5
  <2>2. PICK m : m = md_q
    OBVIOUS
  <2>3. ResultOwed(m.rob, "muldiv", m.writes, m.pdst) /\ NoStation(m.rob)
    BY <1>1, <1>6, <2>2 DEF MulDivOwned
  <2>4. Waits(m.rob, cdb0, cdb1)
    BY <1>6, <2>2, UnitsWait
  <2>5. ResultOwed(m.rob, "muldiv", m.writes, m.pdst)'
    BY <2>3, <2>4, OwedOn
  <2>6. NoStation(m.rob)'
    <3>1. rob_q[m.rob].valid
      BY <2>3 DEF ResultOwed, Uncompleted
    <3> QED BY <2>3, <3>1, StillGone DEF NoStation
  <2> QED BY <2>1, <2>2, <2>5, <2>6 DEF MulDivOwned, ResultOwed, NoStation
<1>7. CASE start = {} /\ ~(md_q.computing \/ (md_q.result_valid /\ ~g))
  <2>1. md_q' = MdIdle \/ (md_q' = md_q /\ ~md_q.result_valid /\ ~md_q.computing)
    BY <1>3, <1>7 DEF MdTick
  <2>2. MdIdle \in Operations
    <3>1. 0 \in Data /\ 0 \in Tag /\ 0 \in Phys
      BY WordsAssumption, RobDepthAssumption, RegCountAssumption DEF Data, Tag, Phys
    <3> QED BY <3>1 DEF MdIdle, Operations
  <2>3. ~md_q'.result_valid /\ ~md_q'.computing
    BY <2>1 DEF MdIdle
  <2> QED BY <1>2, <2>1, <2>2, <2>3 DEF MulDivOwned
<1> QED BY <1>5, <1>6, <1>7
\* A loaded value is announced for the instruction of the request; until the
\* bus takes it, it stays owed.
LEMMA LoadStep ==
  ASSUME CoreInv, NEW d, NEW cdb0, NEW cdb1, NEW accept \in BOOLEAN, NEW answer \in BOOLEAN,
         Edge(d, cdb0, cdb1, accept, answer)
  PROVE  LoadOwned' /\ load_q' \in Loads
<1>1. /\ RobTypeOK /\ ProgramOrder /\ CoreTypes /\ QueuesOwned /\ LoadOwned /\ RequestOwned
      /\ MemoryServes
  BY DEF CoreInv, RenameInv, RenameTypes, UnitsOwned
<1>2. req_q \in Requests /\ load_q \in Loads /\ dm_q \in Transactions /\ mem \in [Data -> Data]
  BY <1>1 DEF CoreTypes
<1>3. load_q' = IF answer /\ ~req_q.write
                THEN [valid |-> TRUE, rob |-> req_q.rob, pdst |-> req_q.pdst,
                      writes |-> req_q.writes, value |-> mem[serving(accept).addr]]
                ELSE IF 1 \in granted(requests(FALSE)) THEN NoLoad ELSE load_q
  BY LsqEdge DEF LoadNext
<1>4. CASE answer /\ ~req_q.write
  <2>1. req_q.pending \/ req_q.busy
    BY <1>4 DEF Edge
  <2>2. PICK i \in LsqIndex : i = req_q.index
    BY <1>2 DEF Requests
  <2>3. PICK t : t = req_q.rob
    OBVIOUS
  <2>4. /\ lsq_q[i].valid /\ lsq_q[i].rob = t /\ ~lsq_q[i].is_store
        /\ lsq_q[i].pdst = req_q.pdst /\ lsq_q[i].writes = req_q.writes
        /\ ~BarrierBefore(lsq_q[i].seq)
    BY <1>1, <1>4, <2>1, <2>2, <2>3 DEF RequestOwned
  <2>5. PICK w, p : w = req_q.writes /\ p = req_q.pdst
    OBVIOUS
  <2>6. ResultOwed(t, "load", w, p) /\ lsq_q[i].seq = rob_q[t].seq
    BY <1>1, <2>4, <2>5 DEF QueuesOwned, QueueOwned, ResultOwed
  <2>7. Waits(t, cdb0, cdb1)
    BY <2>4, UnitsWait
  <2>8. ResultOwed(t, "load", w, p)'
    BY <2>6, <2>7, OwedOn
  <2>9. t \in Tag /\ rob_q[t].valid
    BY <2>6 DEF ResultOwed, Uncompleted
  <2>10. NoQueue(t)'
    <3>1. \A j \in LsqIndex : lsq_q[j].valid /\ ~(answer /\ j = req_q.index) => lsq_q[j].rob # t
      BY <1>1, <1>4, <2>2, <2>4 DEF QueuesOwned
    <3> QED BY <2>9, <3>1, StillGone
  <2>11. PICK s : s = rob_q[t].seq
    OBVIOUS
  <2>12. s \in Nat /\ s < next_seq_q /\ ~BarrierBefore(s)
    BY <1>1, <2>4, <2>6, <2>9, <2>11, SeqNames
  <2>13. ~BarrierBefore(s)'
    BY <2>12, NoNewBarrier
  <2>14. rob_q'[t].seq = s
    BY <2>7, <2>11, EdgeKeeps DEF Survives
  <2>15. ~BarrierBefore(rob_q[t].seq)'
    BY <2>13, <2>14 DEF BarrierBefore
  <2>16. PICK v \in Data : v = mem[serving(accept).addr]
    BY <1>2 DEF serving, DmRequest, Requests, Transactions
  <2>17. load_q' = [valid |-> TRUE, rob |-> t, pdst |-> p, writes |-> w, value |-> v]
    BY <1>3, <1>4, <2>3, <2>5, <2>16
  <2>18. load_q' \in Loads
    BY <1>2, <2>9, <2>5, <2>17 DEF Loads, Requests
  <2>19. load_q'.rob = t /\ load_q'.pdst = p /\ load_q'.writes = w
    BY <2>17
  <2> QED BY <2>8, <2>10, <2>15, <2>18, <2>19 DEF LoadOwned, ResultOwed, NoQueue, BarrierBefore
<1>5. CASE ~(answer /\ ~req_q.write) /\ 1 \in granted(requests(FALSE))
  <2>1. load_q' = NoLoad
    BY <1>3, <1>5
  <2>2. 0 \in Data /\ 0 \in Tag /\ 0 \in Phys
    BY WordsAssumption, RobDepthAssumption, RegCountAssumption DEF Data, Tag, Phys
  <2>3. load_q' \in Loads /\ ~load_q'.valid
    BY <2>1, <2>2 DEF NoLoad, Loads
  <2> QED BY <2>3 DEF LoadOwned
<1>6. CASE ~(answer /\ ~req_q.write) /\ 1 \notin granted(requests(FALSE))
  <2>1. load_q' = load_q
    BY <1>3, <1>6
  <2>2. ASSUME load_q.valid PROVE LoadOwned'
    <3>1. PICK t, w, p : t = load_q.rob /\ w = load_q.writes /\ p = load_q.pdst
      OBVIOUS
    <3>2. ResultOwed(t, "load", w, p) /\ NoQueue(t) /\ ~BarrierBefore(rob_q[t].seq)
      BY <1>1, <2>2, <3>1 DEF LoadOwned
    <3>3. Waits(t, cdb0, cdb1)
      BY <1>6, <2>2, <3>1, UnitsWait
    <3>4. ResultOwed(t, "load", w, p)'
      BY <3>2, <3>3, OwedOn
    <3>5. t \in Tag /\ rob_q[t].valid
      BY <3>2 DEF ResultOwed, Uncompleted
    <3>6. NoQueue(t)'
      BY <3>2, <3>5, StillGone DEF NoQueue
    <3>7. PICK s : s = rob_q[t].seq
      OBVIOUS
    <3>8. s \in Nat /\ s < next_seq_q /\ ~BarrierBefore(s)
      BY <1>1, <3>2, <3>5, <3>7, SeqNames
    <3>9. ~BarrierBefore(s)'
      BY <3>8, NoNewBarrier
    <3>10. rob_q'[t].seq = s
      BY <3>3, <3>7, EdgeKeeps DEF Survives
    <3>11. ~BarrierBefore(rob_q[t].seq)'
      BY <3>9, <3>10 DEF BarrierBefore
    <3>12. load_q'.rob = t /\ load_q'.pdst = p /\ load_q'.writes = w
      BY <2>1, <3>1
    <3> QED BY <3>4, <3>6, <3>11, <3>12 DEF LoadOwned, ResultOwed, NoQueue, BarrierBefore
  <2> QED BY <1>2, <2>1, <2>2 DEF LoadOwned
<1> QED BY <1>4, <1>5, <1>6

\* A store completion names the head, whose queue entry memory has freed.
LEMMA StoreStep ==
  ASSUME CoreInv, NEW d, NEW cdb0, NEW cdb1, NEW accept \in BOOLEAN, NEW answer \in BOOLEAN,
         Edge(d, cdb0, cdb1, accept, answer)
  PROVE  StoreOwned' /\ store_q' \in [valid: BOOLEAN, rob: Tag]
<1>1. /\ RobTypeOK /\ ProgramOrder /\ CoreTypes /\ QueuesOwned /\ RequestOwned
  BY DEF CoreInv, RenameInv, RenameTypes, UnitsOwned
<1>2. req_q \in Requests
  BY <1>1 DEF CoreTypes
<1>3. store_q' = IF answer /\ req_q.write THEN [valid |-> TRUE, rob |-> req_q.rob] ELSE NoStore
  BY LsqEdge DEF StoreNext
<1>4. CASE answer /\ req_q.write
  <2>1. req_q.pending \/ req_q.busy
    BY <1>4 DEF Edge
  <2>2. PICK i \in LsqIndex : i = req_q.index
    BY <1>2 DEF Requests
  <2>3. PICK t : t = req_q.rob
    OBVIOUS
  <2>4. lsq_q[i].valid /\ lsq_q[i].rob = t /\ lsq_q[i].is_store /\ t = head_q
    BY <1>1, <1>2, <1>4, <2>1, <2>2, <2>3 DEF RequestOwned
  <2>5. Uncompleted(t) /\ rob_q[t].uop.class = "store"
    BY <1>1, <2>4 DEF QueuesOwned, QueueOwned
  <2>6. Waits(t, cdb0, cdb1)
    BY <2>4, UnitsWait
  <2>7. Survives(t) /\ Uncompleted(t)' /\ head_q' = t
    BY <2>4, <2>6, EdgeKeeps
  <2>8. t \in Tag /\ rob_q[t].valid
    BY <2>5 DEF Uncompleted
  <2>9. NoQueue(t)'
    <3>1. \A j \in LsqIndex : lsq_q[j].valid /\ ~(answer /\ j = req_q.index) => lsq_q[j].rob # t
      BY <1>1, <1>4, <2>2, <2>4 DEF QueuesOwned
    <3> QED BY <2>8, <3>1, StillGone
  <2>10. store_q' = [valid |-> TRUE, rob |-> t]
    BY <1>3, <1>4, <2>3
  <2>11. rob_q'[t].uop.class = "store"
    BY <2>5, <2>7 DEF Survives
  <2> QED BY <2>7, <2>8, <2>9, <2>10, <2>11 DEF StoreOwned, Uncompleted, NoQueue
<1>5. CASE ~(answer /\ req_q.write)
  <2>1. 0 \in Tag
    BY RobDepthAssumption DEF Tag
  <2>2. store_q' = NoStore
    BY <1>3, <1>5
  <2>3. ~store_q'.valid /\ store_q' \in [valid: BOOLEAN, rob: Tag]
    BY <2>1, <2>2 DEF NoStore
  <2> QED BY <2>3 DEF StoreOwned
<1> QED BY <1>4, <1>5

\* A request is presented for an entry with nothing speculative before it, and
\* goes on being the request of that entry until memory answers.
LEMMA RequestStep ==
  ASSUME CoreInv, NEW d, NEW cdb0, NEW cdb1, NEW accept \in BOOLEAN, NEW answer \in BOOLEAN,
         Edge(d, cdb0, cdb1, accept, answer)
  PROVE  RequestOwned' /\ req_q' \in Requests
<1>1. /\ RobTypeOK /\ ProgramOrder /\ CoreTypes /\ QueuesOwned /\ RequestOwned
  BY DEF CoreInv, RenameInv, RenameTypes, UnitsOwned
<1>2. req_q \in Requests /\ lsq_q \in [LsqIndex -> QueueEntries \cup {LsqFree}]
  BY <1>1 DEF CoreTypes
<1>3. /\ RequestNext(accept, answer) /\ LoadNext(accept, answer)
      /\ Candidate # {} => ~accept /\ ~answer /\ memory_idle
  BY LsqEdge
<1>4. ASSUME NEW i \in LsqIndex, lsq_q[i].valid, lsq_q[i].addr_valid, ~BarrierBefore(lsq_q[i].seq),
             lsq_q[i].is_store => lsq_q[i].rob = head_q, ~answer, ~load_q.valid
      PROVE  /\ lsq_q'[i].valid /\ lsq_q'[i].addr_valid /\ lsq_q'[i].rob = lsq_q[i].rob
             /\ lsq_q'[i].is_store = lsq_q[i].is_store /\ lsq_q'[i].pdst = lsq_q[i].pdst
             /\ lsq_q'[i].writes = lsq_q[i].writes
             /\ ~BarrierBefore(lsq_q[i].seq)' /\ (lsq_q[i].is_store => lsq_q[i].rob = head_q')
             /\ ~load_q'.valid
  <2>1. QueueStays(i)
    BY <1>4, QueueAfter
  <2>2. Waits(lsq_q[i].rob, cdb0, cdb1)
    BY <1>4, UnitsWait
  <2>3. PICK t : t = lsq_q[i].rob
    OBVIOUS
  <2>4. PICK s : s = lsq_q[i].seq
    OBVIOUS
  <2>5. t \in Tag /\ rob_q[t].valid /\ rob_q[t].seq = s
    BY <1>1, <1>4, <2>3, <2>4 DEF QueuesOwned, QueueOwned, Uncompleted
  <2>6. s \in Nat /\ s < next_seq_q
    BY <1>1, <2>5, SeqNames
  <2>7. ~BarrierBefore(s)'
    BY <1>4, <2>4, <2>6, NoNewBarrier
  <2>8. lsq_q'[i].seq = s
    BY <2>1, <2>4 DEF QueueStays
  <2>9. ~BarrierBefore(lsq_q[i].seq)'
    BY <2>7, <2>8 DEF BarrierBefore
  <2>10. t = head_q => head_q' = head_q
    BY <2>2, <2>3, EdgeKeeps
  <2>11. ~load_q'.valid
    BY <1>3, <1>4 DEF LoadNext, NoLoad
  <2> QED BY <1>4, <2>1, <2>3, <2>9, <2>10, <2>11 DEF QueueStays
<1>5. CASE Candidate # {}
  <2>1. PICK i \in Candidate : i = CHOOSE j \in Candidate : TRUE
    BY <1>5
  <2>2. ~answer /\ ~load_q.valid
    BY <1>3, <1>5 DEF memory_idle
  <2>3. /\ i \in LsqIndex /\ lsq_q[i].valid /\ lsq_q[i].addr_valid
        /\ lsq_q[i].is_store => head_is_store /\ lsq_q[i].rob = head_q
        /\ ~lsq_q[i].is_store => \A b \in {rob_q[t].seq : t \in InFlight({"control", "fence"})} :
                                    b >= lsq_q[i].seq
    BY <2>1 DEF Candidate, candidate, Unissued
  <2>4. PICK q : q = lsq_q[i]
    OBVIOUS
  <2>5. q \in QueueEntries
    BY <1>2, <2>3, <2>4 DEF LsqFree
  <2>6. q.rob \in Tag /\ rob_q[q.rob].valid /\ rob_q[q.rob].seq = q.seq
    BY <1>1, <2>3, <2>4 DEF QueuesOwned, QueueOwned, Uncompleted
  <2>7. ~BarrierBefore(q.seq)
    <3> SUFFICES ASSUME NEW t \in InFlight({"control", "fence"}), rob_q[t].seq < q.seq PROVE FALSE
      BY DEF BarrierBefore
    <3>1. t \in Tag /\ rob_q[t].valid
      BY DEF InFlight
    <3>2. rob_q[t].seq \in Nat /\ q.seq \in Nat /\ rob_q[head_q].seq <= rob_q[t].seq
      BY <1>1, <2>6, <3>1, SeqNames
    <3>3. CASE q.is_store
      BY <2>3, <2>4, <2>6, <3>2, <3>3
    <3>4. CASE ~q.is_store
      BY <2>3, <2>4, <3>2, <3>4
    <3> QED BY <3>3, <3>4
  <2>8. /\ lsq_q'[i].valid /\ lsq_q'[i].addr_valid /\ lsq_q'[i].rob = q.rob
        /\ lsq_q'[i].is_store = q.is_store /\ lsq_q'[i].pdst = q.pdst
        /\ lsq_q'[i].writes = q.writes
        /\ ~BarrierBefore(lsq_q[i].seq)' /\ (q.is_store => q.rob = head_q')
        /\ ~load_q'.valid
    BY <1>4, <2>2, <2>3, <2>4, <2>7
  <2>9. req_q' = [pending |-> TRUE, busy |-> FALSE, write |-> q.is_store, index |-> i,
                  addr |-> q.addr, wdata |-> q.wdata, rob |-> q.rob, pdst |-> q.pdst,
                  writes |-> q.writes]
    BY <1>3, <1>5, <2>1, <2>4 DEF RequestNext
  <2>10. req_q' \in Requests
    BY <2>3, <2>5, <2>9 DEF Requests, QueueEntries
  <2>11. /\ req_q'.pending /\ ~req_q'.busy /\ req_q'.write = q.is_store /\ req_q'.index = i
         /\ req_q'.rob = q.rob /\ req_q'.pdst = q.pdst /\ req_q'.writes = q.writes
    BY <2>9
  <2> QED BY <2>8, <2>10, <2>11 DEF RequestOwned, BarrierBefore
<1>6. CASE Candidate = {} /\ answer
  <2>1. req_q' = NoRequest
    BY <1>3, <1>6 DEF RequestNext
  <2>2. 0 \in Data /\ 0 \in Tag /\ 0 \in Phys /\ 0 \in LsqIndex
    BY WordsAssumption, RobDepthAssumption, RegCountAssumption, LsqDepthAssumption
       DEF Data, Tag, Phys, LsqIndex
  <2>3. req_q' \in Requests /\ ~req_q'.pending /\ ~req_q'.busy
    BY <2>1, <2>2 DEF NoRequest, Requests
  <2> QED BY <2>3 DEF RequestOwned
<1>7. CASE Candidate = {} /\ ~answer
  <2>1. PICK r : r = req_q
    OBVIOUS
  <2>2. r \in Requests /\ r.index \in LsqIndex
    BY <1>2, <2>1 DEF Requests
  <2>3. /\ req_q' \in Requests /\ ~(req_q'.pending /\ req_q'.busy)
        /\ req_q'.pending \/ req_q'.busy => r.pending \/ r.busy
        /\ req_q'.write = r.write /\ req_q'.index = r.index
        /\ req_q'.rob = r.rob /\ req_q'.pdst = r.pdst /\ req_q'.writes = r.writes
    <3>1. CASE accept
      <4>1. PICK n : n = [r EXCEPT !.pending = FALSE, !.busy = TRUE]
        OBVIOUS
      <4>2. req_q' = n
        BY <1>3, <1>7, <2>1, <3>1, <4>1 DEF RequestNext
      <4>3. /\ n \in Requests /\ ~n.pending /\ n.write = r.write /\ n.index = r.index
            /\ n.rob = r.rob /\ n.pdst = r.pdst /\ n.writes = r.writes
        BY <2>2, <4>1 DEF Requests
      <4>4. r.pending
        BY <2>1, <3>1 DEF Edge
      <4> QED BY <4>2, <4>3, <4>4
    <3>2. CASE ~accept
      <4>1. req_q' = r
        BY <1>3, <1>7, <2>1, <3>2 DEF RequestNext
      <4> QED BY <1>1, <2>1, <2>2, <4>1 DEF RequestOwned
    <3> QED BY <3>1, <3>2
  <2>4. ASSUME r.pending \/ r.busy PROVE RequestOwned'
    <3>1. PICK i \in LsqIndex : i = r.index
      BY <2>2
    <3>2. /\ lsq_q[i].valid /\ lsq_q[i].addr_valid /\ lsq_q[i].rob = r.rob
          /\ lsq_q[i].is_store = r.write /\ lsq_q[i].pdst = r.pdst /\ lsq_q[i].writes = r.writes
          /\ ~BarrierBefore(lsq_q[i].seq) /\ (r.write => r.rob = head_q) /\ ~load_q.valid
      BY <1>1, <2>1, <2>4, <3>1 DEF RequestOwned
    <3>3. /\ lsq_q'[i].valid /\ lsq_q'[i].addr_valid /\ lsq_q'[i].rob = r.rob
          /\ lsq_q'[i].is_store = r.write /\ lsq_q'[i].pdst = r.pdst
          /\ lsq_q'[i].writes = r.writes
          /\ ~BarrierBefore(lsq_q[i].seq)' /\ (r.write => r.rob = head_q')
          /\ ~load_q'.valid
      BY <1>4, <1>7, <3>2
    <3> QED BY <2>3, <3>1, <3>3 DEF RequestOwned, BarrierBefore
  <2>5. ASSUME ~(r.pending \/ r.busy) PROVE RequestOwned'
    BY <2>3, <2>5 DEF RequestOwned
  <2> QED BY <2>3, <2>4, <2>5
<1> QED BY <1>5, <1>6, <1>7

\* The data memory holds the request it accepted until it answers it.
LEMMA MemoryStep ==
  ASSUME CoreInv, NEW d, NEW cdb0, NEW cdb1, NEW accept \in BOOLEAN, NEW answer \in BOOLEAN,
         Edge(d, cdb0, cdb1, accept, answer)
  PROVE  MemoryServes' /\ dm_q' \in Transactions /\ mem' \in [Data -> Data]
<1>1. CoreTypes /\ RequestOwned /\ MemoryServes
  BY DEF CoreInv, UnitsOwned
<1>2. /\ req_q \in Requests /\ dm_q \in Transactions /\ mem \in [Data -> Data]
      /\ dm_q.busy <=> req_q.busy
      /\ dm_q.busy => dm_q = DmRequest
  BY <1>1 DEF CoreTypes, MemoryServes
<1>3. /\ RequestNext(accept, answer) /\ drop_q' = NoDrop
      /\ Candidate # {} => ~accept /\ ~answer /\ memory_idle
  BY LsqEdge
<1>4. DmTick(accept, answer)
  BY DEF Edge, UnitsTick
<1>5. DmRequest \in Transactions /\ DmRequest.busy
  BY <1>2 DEF DmRequest, Requests, Transactions
<1>6. serving(accept) \in Transactions
  BY <1>2, <1>5 DEF serving
<1>7. DmIdle \in Transactions /\ ~DmIdle.busy
  BY WordsAssumption DEF DmIdle, Transactions, Data
<1>8. dm_q' \in Transactions
  BY <1>4, <1>6, <1>7 DEF DmTick
<1>9. mem' \in [Data -> Data]
  <2>1. PICK s : s = serving(accept)
    OBVIOUS
  <2>2. s.addr \in Data /\ s.data \in Data
    BY <1>6, <2>1 DEF Transactions
  <2>3. mem' = mem \/ mem' = [mem EXCEPT ![s.addr] = s.data]
    BY <1>4, <2>1 DEF DmTick
  <2> QED BY <1>2, <2>2, <2>3
<1>10. (dm_q'.busy <=> req_q'.busy) /\ (dm_q'.busy => dm_q' = DmRequest')
  <2>1. CASE answer
    <3>1. dm_q' = DmIdle /\ req_q' = NoRequest
      BY <1>3, <1>4, <2>1 DEF DmTick, RequestNext
    <3> QED BY <1>7, <3>1 DEF NoRequest
  <2>2. CASE ~answer /\ accept
    <3>1. dm_q' = DmRequest /\ req_q' = [req_q EXCEPT !.pending = FALSE, !.busy = TRUE]
      BY <1>3, <1>4, <2>2 DEF DmTick, RequestNext, serving
    <3>2. PICK r : r = req_q
      OBVIOUS
    <3>3. PICK n : n = [r EXCEPT !.pending = FALSE, !.busy = TRUE]
      OBVIOUS
    <3>4. r \in Requests
      BY <1>2, <3>2
    <3>5. n.write = r.write /\ n.addr = r.addr /\ n.wdata = r.wdata /\ n.busy
      BY <3>3, <3>4 DEF Requests
    <3>6. req_q' = n
      BY <3>1, <3>2, <3>3
    <3>7. DmRequest' = DmRequest
      BY <3>2, <3>5, <3>6 DEF DmRequest
    <3> QED BY <1>5, <3>1, <3>5, <3>6, <3>7
  <2>3. CASE ~answer /\ ~accept /\ Candidate # {}
    <3>1. dm_q' = dm_q /\ ~dm_q.busy
      BY <1>2, <1>3, <1>4, <2>3 DEF DmTick, serving, memory_idle
    <3>2. ~req_q'.busy
      BY <1>3, <2>3 DEF RequestNext
    <3> QED BY <1>2, <3>1, <3>2
  <2>4. CASE ~answer /\ ~accept /\ Candidate = {}
    <3>1. dm_q' = dm_q /\ req_q' = req_q
      BY <1>3, <1>4, <2>4 DEF DmTick, serving, RequestNext
    <3> QED BY <1>2, <3>1 DEF DmRequest
  <2> QED BY <2>1, <2>2, <2>3, <2>4
<1> QED BY <1>3, <1>8, <1>9, <1>10 DEF MemoryServes
----------------------------------------------------------------------------
(***************************************************************************)
(* The operands follow the registers that they name.                       *)
(***************************************************************************)
\* Register 0 is never renamed.
LEMMA ZeroNames ==
  ASSUME NEW m
  PROVE  Names(0, m, amt[0]) /\ Names(0, m, amt[0])'
<1>1. NoneBefore(0, m)
  BY DEF NoneBefore, WritersOf, Writers, effective_write
<1>2. NoneBefore(0, m)'
  BY DEF NoneBefore, WritersOf, Writers, effective_write
<1> QED BY <1>1, <1>2 DEF Names

\* What a reader in the buffer calls a register stays its name while it moves
\* towards the head.
LEMMA EdgeNames ==
  ASSUME CoreInv, NEW d, NEW cdb0, NEW cdb1, NEW accept, NEW answer,
         Edge(d, cdb0, cdb1, accept, answer), NEW r \in Arch
  PROVE  \A j \in Nat : \A p :
           /\ retire_count(fence_complete) + j <= count_q
           /\ Names(r, retire_count(fence_complete) + j, p)
           => Names(r, j, p)'
<1> DEFINE f == fence_complete  n == retire_count(f)
<1>1. RenameTypes /\ RobTypeOK /\ RatTypeOK /\ ProgramOrder
  BY DEF CoreInv, RenameInv, RenameTypes
<1>2. n \in 0 .. 2 /\ n <= count_q
  BY <1>1, CommittedAre
<1>3. /\ InputOK(renamed(d), cdb0, cdb1) /\ Moves(renamed(d), n, cdb0, cdb1, Completing)
      /\ amt' = Written(amt, committed(f))
  BY DEF Edge, RatAdvance
<1>4. Names(r, n, amt'[r])
  <2>1. CASE r = 0
    <3>1. RatTypeOK'
      BY DEF Edge, RenameInv, RenameTypes
    <3>2. amt'[r] = amt[0]
      BY <1>1, <2>1, <3>1 DEF RatTypeOK
    <3> QED BY <2>1, <3>2, ZeroNames
  <2>2. CASE r # 0
    BY <1>1, <1>3, <2>2, CommitNames
  <2> QED BY <2>1, <2>2
<1> HIDE DEF n, f
<1>5. ASSUME NEW j \in Nat, NEW p, n + j <= count_q, Names(r, n + j, p) PROVE Names(r, j, p)'
  BY <1>1, <1>2, <1>3, <1>4, <1>5, NamesKept
<1> QED BY <1>5 DEF n, f

\* A register that a reader names is not free, and the bus writes it only
\* while it waits for its value.
LEMMA NamedRegister ==
  ASSUME RenameTypes, FreeListPartition, ResultsAgree,
         NEW r \in Arch, NEW m, NEW p, Names(r, m, p)
  PROVE  /\ p \in Phys /\ p \notin free_mask /\ (p = 0 => reg_ready[p])
         /\ \A b : BusOK(b) /\ Writes(b, p) /\ p # 0 => ~reg_ready[p]
<1>1. /\ amt[r] \in Phys /\ amt[r] \notin free_mask /\ (amt[r] = 0 <=> r = 0)
      /\ \A t \in Writers : Dst(t) \in Phys /\ Dst(t) # 0 /\ Dst(t) \notin free_mask
  BY PartitionMeans
<1>2. CASE p = amt[r]
  <2>1. reg_ready[p]
    BY <1>2 DEF ResultsAgree
  <2>2. ASSUME NEW b, BusOK(b), Writes(b, p), p # 0 PROVE FALSE
    BY <1>1, <1>2, <2>2, BusNames
  <2> QED BY <1>1, <1>2, <2>1, <2>2
<1>3. CASE \E t \in Tag : Youngest(r, m, t) /\ p = Dst(t)
  <2>1. PICK t \in Tag : Youngest(r, m, t) /\ p = Dst(t)
    BY <1>3
  <2>2. t \in Writers
    BY <2>1 DEF Youngest, WritersOf
  <2>3. reg_ready[p] <=> rob_q[t].ready
    BY <2>1, <2>2 DEF ResultsAgree
  <2>4. ASSUME NEW b, BusOK(b), Writes(b, p) PROVE ~reg_ready[p]
    <3>1. /\ Writes(b, Dst(t)) <=> b.valid /\ b.tag = t
          /\ b.valid /\ b.tag = t => ~rob_q[t].ready
      BY <2>2, <2>4, BusNames
    <3> QED BY <2>1, <2>3, <2>4, <3>1
  <2> QED BY <1>1, <2>1, <2>2, <2>4
<1> QED BY <1>2, <1>3 DEF Names

LEMMA OldOperand ==
  ASSUME CoreInv, NEW d, NEW cdb0, NEW cdb1, NEW accept, NEW answer,
         Edge(d, cdb0, cdb1, accept, answer), NEW t, Waits(t, cdb0, cdb1),
         NEW r \in Arch, NEW s \in Operands, s.used, Names(r, Position(t), s.tag),
         s.ready <=> reg_ready[s.tag], s.ready => s.value = reg_value[s.tag]
  PROVE  LET w == Woken(s, cdb0, cdb1)
         IN /\ Names(r, Position(t), s.tag)' /\ w.tag = s.tag
            /\ w.ready <=> reg_ready'[s.tag]
            /\ w.ready => w.value = reg_value'[s.tag]
<1> DEFINE w == Woken(s, cdb0, cdb1)  n == retire_count(fence_complete)
<1>1. RenameTypes /\ RobTypeOK /\ RatTypeOK /\ ProgramOrder /\ FreeListPartition /\ ResultsAgree
  BY DEF CoreInv, RenameInv, RenameTypes
<1>2. /\ t \in Tag /\ n <= Position(t) /\ Position(t) < count_q
      /\ Position(t)' = Position(t) - n
  BY EdgeKeeps DEF Survives
<1>3. n \in Nat /\ Position(t) \in Nat /\ count_q \in Nat
  BY <1>1, <1>2, CommittedAre, Positions DEF RobTypeOK
<1>4. Names(r, Position(t), s.tag)'
  <2>1. PICK j \in Nat : j = Position(t) - n
    BY <1>2, <1>3
  <2>2. PICK p : p = s.tag
    OBVIOUS
  <2>3. n + j = Position(t) /\ n + j <= count_q
    BY <1>2, <1>3, <2>1
  <2>4. Names(r, n + j, p)
    BY <2>2, <2>3
  <2>5. Names(r, j, p)'
    BY <2>3, <2>4, EdgeNames
  <2> QED BY <1>2, <2>1, <2>2, <2>5
<1> HIDE DEF n
<1>5. /\ cdb0.valid => cdb0.value \in Data
      /\ cdb1.valid => cdb1.value \in Data
      /\ BusOK(cdb0) /\ BusOK(cdb1)
      /\ RegTick(renamed(d), cdb0, cdb1) /\ RenameInput(d, cdb0, cdb1, fence_complete)
  BY DEF Edge, Spoken, Honest, RenameInput
<1>6. /\ w.tag = s.tag /\ (w.ready <=> s.ready \/ Hears(s, cdb1) \/ Hears(s, cdb0))
      /\ w.value = IF Hears(s, cdb1) THEN cdb1.value
                   ELSE IF Hears(s, cdb0) THEN cdb0.value ELSE s.value
  BY <1>5, WokenIs
<1>7. \A m : Hears(s, m) <=> Writes(m, s.tag) /\ ~s.ready
  BY DEF Hears, Writes
<1>8. PICK p : p = s.tag
  OBVIOUS
<1>9. /\ p \in Phys /\ p \notin free_mask /\ (p = 0 => reg_ready[p])
      /\ \A b : BusOK(b) /\ Writes(b, p) /\ p # 0 => ~reg_ready[p]
  BY <1>1, <1>8, NamedRegister
<1>10. p \notin Allocated(renamed(d))
  BY <1>1, <1>5, <1>9, Allocates
<1>11. /\ reg_value'[p] = IF p = 0 THEN 0
                          ELSE IF Writes(cdb1, p) THEN cdb1.value
                          ELSE IF Writes(cdb0, p) THEN cdb0.value ELSE reg_value[p]
       /\ reg_ready'[p] <=> p = 0 \/ Writes(cdb1, p) \/ Writes(cdb0, p) \/ reg_ready[p]
  BY <1>5, <1>9, <1>10, RegTickAt
<1> HIDE DEF w
<1>12. w.ready <=> reg_ready'[p]
  BY <1>6, <1>7, <1>8, <1>9, <1>11
<1>13. reg_value[0] = 0
  BY <1>1 DEF RatTypeOK
<1>14. ASSUME w.ready PROVE w.value = reg_value'[p]
  <2>1. CASE s.ready
    <3>1. w.value = reg_value[p]
      BY <1>6, <1>7, <1>8, <2>1
    <3>2. p # 0 => ~Writes(cdb0, p) /\ ~Writes(cdb1, p)
      BY <1>5, <1>8, <1>9, <2>1
    <3> QED BY <1>11, <1>13, <3>1, <3>2
  <2>2. CASE ~s.ready
    <3>1. p # 0 /\ (Writes(cdb0, p) \/ Writes(cdb1, p))
      BY <1>6, <1>7, <1>8, <1>9, <1>14, <2>2
    <3>2. w.value = IF Writes(cdb1, p) THEN cdb1.value ELSE cdb0.value
      BY <1>6, <1>7, <1>8, <2>2, <3>1
    <3> QED BY <1>11, <3>1, <3>2
  <2> QED BY <2>1, <2>2
<1> QED BY <1>4, <1>6, <1>8, <1>12, <1>14 DEF w

\* What the older lane of a dispatch group reads is what the map said; the
\* younger lane sees the older one's new name.
LEMMA NewNames ==
  ASSUME CoreInv, NEW d, NEW cdb0, NEW cdb1, NEW accept, NEW answer,
         Edge(d, cdb0, cdb1, accept, answer), NEW k \in 1 .. Len(d), NEW r \in Arch,
         NEW t, t = After(tail_q, k - 1), NEW p,
         p = IF k = 1 THEN src0_tag(TRUE, r) ELSE src1_tag(TRUE, r, d[1])
  PROVE  p \in Phys /\ Names(r, Position(t), p)'
<1> DEFINE f == fence_complete  n == retire_count(f)  u == renamed(d)
<1>1. /\ RenameTypes /\ RobTypeOK /\ RatTypeOK /\ ProgramOrder /\ Chain /\ FreeListPartition
  BY DEF CoreInv, RenameInv, RenameTypes
<1>2. n \in 0 .. 2 /\ n <= count_q /\ n \in Nat /\ count_q \in Nat
  BY <1>1, CommittedAre DEF RobTypeOK
<1>3. /\ InputOK(u, cdb0, cdb1) /\ Moves(u, n, cdb0, cdb1, Completing)
      /\ RenameInput(d, cdb0, cdb1, f)
  BY DEF Edge
<1>4. PICK b \in Nat : \E t1, t2 : Lands(u, n, b, t1, t2)
  BY <1>1, <1>2, <1>3, Dispatched
<1>5. PICK t1, t2 : Lands(u, n, b, t1, t2)
  BY <1>4
<1>6. /\ Len(u) = Len(d) /\ Len(d) \in 0 .. 2
      /\ Len(d) >= 1 => u[1].pdst = new_pdst0(d[1]) /\ Keeps(u[1], d[1])
  BY <1>1, <1>3, RenamedUops DEF RenameInput
<1> HIDE DEF u, n
<1>7. /\ n + b = count_q
      /\ t1 \in Tag /\ Position(t1) = count_q /\ rob_q'[t1].valid /\ rob_q'[t1].uop = u[1]
      /\ Position(t1)' = b
      /\ k = 2 => t2 \in Tag /\ Position(t2) = count_q + 1 /\ Position(t2)' = b + 1
      /\ \A v \in Tag : rob_q'[v].valid =>
           \/ n <= Position(v) /\ Position(v) < count_q /\ Position(v)' = Position(v) - n
           \/ v = t1
           \/ Len(u) = 2 /\ v = t2
      /\ Len(u) = 2 => Position(t2)' = b + 1
  BY <1>5, <1>6 DEF Lands
<1>8. /\ t \in Tag /\ Position(t) = count_q + k - 1
  <2>1. Comes(d, k) /\ Position(After(tail_q, k - 1)) = count_q + k - 1
    BY EdgeBrings
  <2>2. After(tail_q, k - 1) \in Tag
    BY <2>1 DEF Comes
  <2> QED BY <2>1, <2>2
<1>9. /\ k = 1 => t = t1
      /\ k = 2 => t = t2
  <2>1. \A v, w \in Tag : Position(v) = Position(w) => v = w
    BY <1>1, Positions
  <2> QED BY <1>2, <1>7, <1>8, <2>1
<1>10. PICK m \in Nat : /\ Position(t)' = m /\ (k = 1 => m = b)
                        /\ (k = 2 => m = b + 1) /\ k \in {1, 2}
  BY <1>6, <1>7, <1>9
<1>11. ASSUME NEW x \in WritersOf(r)'
       PROVE  /\ x \in Tag /\ Position(x)' \in Nat /\ effective_write(rob_q'[x].uop)
              /\ rob_q'[x].uop.rd = r
              /\ Position(x)' < b \/ x = t1 \/ Position(x)' = b + 1
  <2>1. x \in Tag /\ rob_q'[x].valid /\ effective_write(rob_q'[x].uop) /\ rob_q'[x].uop.rd = r
    BY DEF WritersOf, Writers
  <2>2. Position(x) \in Nat
    BY <1>1, <2>1, Positions
  <2> QED BY <1>2, <1>7, <2>1, <2>2
<1>12. ASSUME p = rat_map[r] PROVE p \in Phys /\ Names(r, b, p)'
  <2>1. p \in Phys
    BY <1>1, <1>12 DEF RatTypeOK
  <2>2. Names(r, count_q, p)
    <3>1. CASE r = 0
      BY <1>1, <1>12, <3>1, ZeroNames DEF RatTypeOK
    <3>2. CASE r # 0
      BY <1>1, <1>2, <1>12, <2>1, <3>2 DEF Chain
    <3> QED BY <3>1, <3>2
  <2>3. \A j \in Nat : \A q : n + j <= count_q /\ Names(r, n + j, q) => Names(r, j, q)'
    BY EdgeNames DEF n
  <2>4. n + b <= count_q
    BY <1>2, <1>7
  <2> QED BY <1>7, <2>1, <2>2, <2>3, <2>4
<1>13. CASE k = 1 \/ ~(effective_write(d[1]) /\ r = d[1].rd)
  <2>1. p = rat_map[r]
    BY <1>13 DEF src0_tag, src1_tag
  <2>2. p \in Phys /\ Names(r, b, p)'
    BY <1>12, <2>1
  <2>3. CASE k = 1
    BY <1>10, <2>2, <2>3
  <2>4. CASE k = 2
    <3>1. t1 \notin WritersOf(r)'
      BY <1>6, <1>7, <1>11, <1>13, <2>4 DEF Keeps
    <3>2. \A x \in WritersOf(r)' : Position(x)' \in Nat
      BY <1>11
    <3>3. \A x \in WritersOf(r)' : Position(x)' < m => Position(x)' < b
      BY <1>10, <1>11, <2>4, <3>1
    <3>4. b <= m
      BY <1>10, <2>4
    <3>5. Names(r, m, p)'
      BY <2>2, <3>2, <3>3, <3>4, NamesFurther
    <3> QED BY <1>10, <2>2, <3>5
  <2> QED BY <1>10, <2>3, <2>4
<1>14. CASE k = 2 /\ effective_write(d[1]) /\ r = d[1].rd
  <2>1. p = u[1].pdst
    BY <1>6, <1>14 DEF src1_tag
  <2>2. effective_write(u[1]) /\ u[1].rd = r /\ u[1].pdst \in Phys
    BY <1>6, <1>14 DEF Keeps, UopOK
  <2>3. t1 \in WritersOf(r)' /\ Dst(t1)' = p
    BY <1>7, <2>1, <2>2 DEF WritersOf, Writers, Dst
  <2>4. \A x \in WritersOf(r)' : Position(x)' < m => Position(x)' <= Position(t1)'
    BY <1>7, <1>10, <1>11, <1>14
  <2>5. Position(t1)' < m
    BY <1>7, <1>10, <1>14
  <2>6. Youngest(r, m, t1)'
    BY <2>3, <2>4, <2>5 DEF Youngest
  <2>7. Names(r, m, p)'
    BY <1>7, <2>3, <2>6 DEF Names
  <2> QED BY <1>10, <1>14, <2>1, <2>2, <2>7
<1> QED BY <1>10, <1>13, <1>14

LEMMA NewOperand ==
  ASSUME CoreInv, NEW d, NEW cdb0, NEW cdb1, NEW accept, NEW answer,
         Edge(d, cdb0, cdb1, accept, answer), NEW k \in 1 .. Len(d), NEW r \in Arch,
         NEW t, t = After(tail_q, k - 1), NEW used \in BOOLEAN,
         NEW s, s = source(d, k, used, r, cdb0, cdb1)
  PROVE  /\ s \in Operands /\ s.used = used
         /\ used => /\ Names(r, Position(t), s.tag)'
                    /\ s.ready <=> reg_ready'[s.tag]
                    /\ s.ready => s.value = reg_value'[s.tag]
<1>1. PICK p : p = IF k = 1 THEN src0_tag(used, r) ELSE src1_tag(used, r, d[1])
  OBVIOUS
<1>2. PICK u : u = renamed(d)
  OBVIOUS
<1>3. s = [used |-> used, tag |-> p, ready |-> read_ready(p, u, cdb0, cdb1),
           value |-> read_data(p, u, cdb0, cdb1)]
  BY <1>1, <1>2 DEF source, Operand
<1>4. p \in Phys /\ (used => Names(r, Position(t), p)')
  <2>1. CASE used
    <3>1. p = IF k = 1 THEN src0_tag(TRUE, r) ELSE src1_tag(TRUE, r, d[1])
      BY <1>1, <2>1
    <3> QED BY <3>1, NewNames
  <2>2. CASE ~used
    <3>1. p = 0
      BY <1>1, <2>2 DEF src0_tag, src1_tag
    <3> QED BY <2>2, <3>1, RegCountAssumption DEF Phys
  <2> QED BY <2>1, <2>2
<1>5. /\ cdb0.valid => cdb0.value \in Data
      /\ cdb1.valid => cdb1.value \in Data
      /\ RegTick(u, cdb0, cdb1)
      /\ reg_value \in [Phys -> Data]
  BY <1>2 DEF Edge, Spoken, Honest, CoreInv, CoreTypes
<1>6. /\ reg_value'[p] = IF p = 0 THEN 0
                         ELSE IF Writes(cdb1, p) THEN cdb1.value
                         ELSE IF Writes(cdb0, p) THEN cdb0.value ELSE reg_value[p]
      /\ reg_ready'[p] <=> \/ p = 0
                           \/ /\ p \notin Allocated(u)
                              /\ Writes(cdb1, p) \/ Writes(cdb0, p) \/ reg_ready[p]
  BY <1>4, <1>5, RegTickAt
<1>7. read_ready(p, u, cdb0, cdb1) <=> reg_ready'[p]
  BY <1>6 DEF read_ready
<1>8. read_ready(p, u, cdb0, cdb1) => read_data(p, u, cdb0, cdb1) = reg_value'[p]
  BY <1>6 DEF read_ready, read_data
<1>9. read_data(p, u, cdb0, cdb1) \in Data
  <2>1. 0 \in Data
    BY WordsAssumption DEF Data
  <2> QED BY <1>4, <1>5, <2>1 DEF read_data, Writes
<1>10. read_ready(p, u, cdb0, cdb1) \in BOOLEAN
  BY DEF read_ready
<1>11. PICK y, v : y = read_ready(p, u, cdb0, cdb1) /\ v = read_data(p, u, cdb0, cdb1)
  OBVIOUS
<1>12. s = [used |-> used, tag |-> p, ready |-> y, value |-> v]
  BY <1>3, <1>11
<1>13. s \in Operands /\ s.used = used /\ s.tag = p /\ s.ready = y /\ s.value = v
  BY <1>4, <1>9, <1>10, <1>11, <1>12 DEF Operands
<1> QED BY <1>4, <1>7, <1>8, <1>11, <1>13

\* What the station holds after the edge it held before, or it was dispatched.
LEMMA StationHolds ==
  ASSUME CoreInv, NEW d, NEW cdb0, NEW cdb1, NEW accept, NEW answer,
         Edge(d, cdb0, cdb1, accept, answer), NEW i \in RsIndex, rs_q'[i].valid
  PROVE  \/ StationStays(i, cdb0, cdb1)
         \/ \E k \in 1 .. Len(d) : StationFresh(i, k, d, cdb0, cdb1)
<1>1. PICK at \in [ToStation(d) -> RsIndex] :
        /\ \A k \in ToStation(d) : StationFresh(at[k], k, d, cdb0, cdb1)
        /\ \A k, l \in ToStation(d) : at[k] = at[l] => k = l
        /\ \A j \in RsIndex : \/ rs_q'[j] = RsFree
                              \/ StationStays(j, cdb0, cdb1)
                              \/ \E k \in ToStation(d) : j = at[k]
        /\ \A j \in RsIndex : rs_q[j].valid /\ j \notin Gone(FALSE)
                                => StationStays(j, cdb0, cdb1)
  BY StationAfter
<1>2. rs_q'[i] # RsFree
  BY DEF RsFree
<1> QED BY <1>1, <1>2 DEF ToStation

LEMMA OperandsStep ==
  ASSUME CoreInv, NEW d, NEW cdb0, NEW cdb1, NEW accept \in BOOLEAN, NEW answer \in BOOLEAN,
         Edge(d, cdb0, cdb1, accept, answer)
  PROVE  OperandsFollow'
<1>1. RobTypeOK /\ ProgramOrder /\ CoreTypes /\ StationsOwned /\ OperandsFollow
  BY DEF CoreInv, RenameInv, RenameTypes, UnitsOwned
<1>2. ASSUME NEW i \in RsIndex, StationStays(i, cdb0, cdb1)
      PROVE  /\ OperandFollows(rs_q[i], rs_q[i].uop.ins.rs1, rs_q[i].src1)'
             /\ OperandFollows(rs_q[i], rs_q[i].uop.ins.rs2, rs_q[i].src2)'
  <2>1. PICK e, t, i1, i2, s1, s2 :
          /\ e = rs_q[i] /\ t = e.rob /\ i1 = e.uop.ins.rs1 /\ i2 = e.uop.ins.rs2
          /\ s1 = e.src1 /\ s2 = e.src2
    OBVIOUS
  <2>2. /\ rs_q[i].valid /\ i \notin Gone(FALSE)
        /\ rs_q'[i].uop = e.uop /\ rs_q'[i].rob = t
        /\ rs_q'[i].src1 = Woken(s1, cdb0, cdb1) /\ rs_q'[i].src2 = Woken(s2, cdb0, cdb1)
    BY <1>2, <2>1 DEF StationStays
  <2>3. e \in Stations /\ Fetched(e.uop)
    BY <1>1, <2>1, <2>2, StationTypes
  <2>4. s1 \in Operands /\ s2 \in Operands
    BY <2>1, <2>3 DEF Stations
  <2>5. i1 \in Arch /\ i2 \in Arch
    BY <1>1, <2>1, <2>3, FetchedFields DEF CoreTypes
  <2>6. Waits(t, cdb0, cdb1)
    BY <2>1, <2>2, UnitsWait
  <2>7. OperandFollows(e, i1, s1) /\ OperandFollows(e, i2, s2)
    BY <1>1, <2>1, <2>2 DEF OperandsFollow
  <2>8. ASSUME NEW r \in Arch, NEW s \in Operands, OperandFollows(e, r, s), NEW w,
               w = Woken(s, cdb0, cdb1), w.used
        PROVE  /\ Names(r, Position(t), w.tag)'
               /\ w.ready <=> reg_ready'[w.tag]
               /\ w.ready => w.value = reg_value'[w.tag]
    <3>1. s.used
      <4>1. /\ cdb0.valid => cdb0.value \in Data
            /\ cdb1.valid => cdb1.value \in Data
        BY DEF Edge, Spoken, Honest
      <4> QED BY <2>8, <4>1, WokenIs
    <3>2. /\ Names(r, Position(t), s.tag) /\ (s.ready <=> reg_ready[s.tag])
          /\ s.ready => s.value = reg_value[s.tag]
      BY <2>1, <2>8, <3>1 DEF OperandFollows
    <3>3. /\ Names(r, Position(t), s.tag)' /\ w.tag = s.tag
          /\ w.ready <=> reg_ready'[s.tag]
          /\ w.ready => w.value = reg_value'[s.tag]
      BY <2>6, <2>8, <3>1, <3>2, OldOperand
    <3> QED BY <3>3
  <2>9. PICK w1, w2 : w1 = Woken(s1, cdb0, cdb1) /\ w2 = Woken(s2, cdb0, cdb1)
    OBVIOUS
  <2>10. w1.used => /\ Names(i1, Position(t), w1.tag)'
                    /\ w1.ready <=> reg_ready'[w1.tag]
                    /\ w1.ready => w1.value = reg_value'[w1.tag]
    BY <2>4, <2>5, <2>7, <2>8, <2>9
  <2>11. w2.used => /\ Names(i2, Position(t), w2.tag)'
                    /\ w2.ready <=> reg_ready'[w2.tag]
                    /\ w2.ready => w2.value = reg_value'[w2.tag]
    BY <2>4, <2>5, <2>7, <2>8, <2>9
  <2>12. /\ rs_q'[i].uop.ins.rs1 = i1 /\ rs_q'[i].uop.ins.rs2 = i2
         /\ rs_q'[i].src1 = w1 /\ rs_q'[i].src2 = w2 /\ rs_q'[i].rob = t
    BY <2>1, <2>2, <2>9
  <2> QED BY <2>10, <2>11, <2>12 DEF OperandFollows, Position
<1>3. ASSUME NEW i \in RsIndex, NEW k \in 1 .. Len(d), StationFresh(i, k, d, cdb0, cdb1)
      PROVE  /\ OperandFollows(rs_q[i], rs_q[i].uop.ins.rs1, rs_q[i].src1)'
             /\ OperandFollows(rs_q[i], rs_q[i].uop.ins.rs2, rs_q[i].src2)'
  <2>1. /\ rs_q'[i].uop = renamed(d)[k] /\ rs_q'[i].rob = After(tail_q, k - 1)
        /\ rs_q'[i].src1 = source(d, k, d[k].rs1_used, d[k].ins.rs1, cdb0, cdb1)
        /\ rs_q'[i].src2 = source(d, k, d[k].rs2_used, d[k].ins.rs2, cdb0, cdb1)
    BY <1>3, FreshEntries
  <2>2. /\ renamed(d)[k].ins = d[k].ins /\ d[k].ins.rs1 \in Arch /\ d[k].ins.rs2 \in Arch
        /\ d[k].rs1_used \in BOOLEAN /\ d[k].rs2_used \in BOOLEAN
    BY <1>3, NewFields
  <2>3. PICK t : t = After(tail_q, k - 1)
    OBVIOUS
  <2>4. PICK w1, w2 : w1 = rs_q'[i].src1 /\ w2 = rs_q'[i].src2
    OBVIOUS
  <2>5. PICK i1 \in Arch, i2 \in Arch : i1 = d[k].ins.rs1 /\ i2 = d[k].ins.rs2
    BY <2>2
  <2>6. PICK u1 \in BOOLEAN, u2 \in BOOLEAN : u1 = d[k].rs1_used /\ u2 = d[k].rs2_used
    BY <2>2
  <2>7. w1 = source(d, k, u1, i1, cdb0, cdb1) /\ w2 = source(d, k, u2, i2, cdb0, cdb1)
    BY <2>1, <2>4, <2>5, <2>6
  <2>8. w1.used => /\ Names(i1, Position(t), w1.tag)'
                   /\ w1.ready <=> reg_ready'[w1.tag]
                   /\ w1.ready => w1.value = reg_value'[w1.tag]
    BY <2>3, <2>7, NewOperand
  <2>9. w2.used => /\ Names(i2, Position(t), w2.tag)'
                   /\ w2.ready <=> reg_ready'[w2.tag]
                   /\ w2.ready => w2.value = reg_value'[w2.tag]
    BY <2>3, <2>7, NewOperand
  <2>10. /\ rs_q'[i].uop.ins.rs1 = i1 /\ rs_q'[i].uop.ins.rs2 = i2
         /\ rs_q'[i].src1 = w1 /\ rs_q'[i].src2 = w2 /\ rs_q'[i].rob = t
    BY <2>1, <2>2, <2>3, <2>4, <2>5
  <2> QED BY <2>8, <2>9, <2>10 DEF OperandFollows, Position
<1>4. ASSUME NEW i \in RsIndex, rs_q'[i].valid
      PROVE  /\ OperandFollows(rs_q[i], rs_q[i].uop.ins.rs1, rs_q[i].src1)'
             /\ OperandFollows(rs_q[i], rs_q[i].uop.ins.rs2, rs_q[i].src2)'
  <2>1. \/ StationStays(i, cdb0, cdb1)
        \/ \E k \in 1 .. Len(d) : StationFresh(i, k, d, cdb0, cdb1)
    BY <1>4, StationHolds
  <2> QED BY <1>2, <1>3, <2>1
<1> QED BY <1>4 DEF OperandsFollow

LEMMA TypesStep ==
  ASSUME CoreInv, NEW d, NEW cdb0, NEW cdb1, NEW accept \in BOOLEAN, NEW answer \in BOOLEAN,
         Edge(d, cdb0, cdb1, accept, answer)
  PROVE  CoreTypes'
<1>1. /\ RenameTypes /\ RobTypeOK /\ ProgramOrder /\ CoreTypes /\ StationsOwned /\ QueuesOwned
      /\ RatTypeOK
  BY DEF CoreInv, RenameInv, RenameTypes, UnitsOwned
<1>2. /\ cdb0.valid => cdb0.value \in Data
      /\ cdb1.valid => cdb1.value \in Data
      /\ RegTick(renamed(d), cdb0, cdb1)
      /\ prog' = prog /\ fetch_pc' = plus(fetch_pc, Len(d))
      /\ Len(d) \in 0 .. 2 /\ next_seq_q \in Nat
  BY <1>1 DEF Edge, Spoken, Honest, UnitsTick, Bundled, RobTypeOK
<1>3. prog' \in Programs /\ fetch_pc' \in Data
  <2>1. \A x \in 0 .. 2 : plus(fetch_pc, x) \in Data
    <3>1. WORDS \in Nat /\ WORDS >= 2 /\ fetch_pc \in Nat
      BY <1>1, WordsAssumption DEF CoreTypes, Data
    <3>2. \A x \in Nat : x % WORDS \in Data
      BY <3>1, SMT DEF Data
    <3> QED BY <3>1, <3>2 DEF plus
  <2> QED BY <1>1, <1>2, <2>1 DEF CoreTypes
<1>4. reg_value' \in [Phys -> Data]
  <2>1. 0 \in Data /\ reg_value \in [Phys -> Data]
    BY <1>1, WordsAssumption DEF Data, CoreTypes
  <2>2. \A p : /\ Writes(cdb0, p) => cdb0.value \in Data
               /\ Writes(cdb1, p) => cdb1.value \in Data
    BY <1>2 DEF Writes
  <2>3. reg_value' = [p \in Phys |-> IF p = 0 THEN 0
                                     ELSE IF Writes(cdb1, p) THEN cdb1.value
                                     ELSE IF Writes(cdb0, p) THEN cdb0.value ELSE reg_value[p]]
    BY <1>2 DEF RegTick
  <2> QED BY <2>1, <2>2, <2>3
<1>5. rs_q' \in [RsIndex -> Stations \cup {RsFree}]
  <2>1. ASSUME NEW i \in RsIndex, StationStays(i, cdb0, cdb1) PROVE rs_q'[i] \in Stations
    <3>1. PICK e : e = rs_q[i]
      OBVIOUS
    <3>2. PICK w1, w2 : w1 = Woken(e.src1, cdb0, cdb1) /\ w2 = Woken(e.src2, cdb0, cdb1)
      OBVIOUS
    <3>3. e.valid /\ rs_q'[i] = [e EXCEPT !.src1 = w1, !.src2 = w2]
      BY <2>1, <3>1, <3>2 DEF StationStays
    <3>4. e \in Stations
      BY <1>1, <3>1, <3>3, StationTypes
    <3>5. w1 \in Operands /\ w2 \in Operands
      <4>1. e.src1 \in Operands /\ e.src2 \in Operands
        BY <3>4 DEF Stations
      <4> QED BY <1>2, <3>2, <4>1, WokenIs
    <3> QED BY <3>3, <3>4, <3>5 DEF Stations
  <2>2. ASSUME NEW i \in RsIndex, NEW k \in 1 .. Len(d), StationFresh(i, k, d, cdb0, cdb1)
        PROVE  rs_q'[i] \in Stations
    <3>1. PICK u, s, t, l, s1, s2 :
            /\ u = renamed(d)[k] /\ s = next_seq_q + k - 1 /\ t = After(tail_q, k - 1)
            /\ l = lsq_index(d, k)
            /\ s1 = source(d, k, d[k].rs1_used, d[k].ins.rs1, cdb0, cdb1)
            /\ s2 = source(d, k, d[k].rs2_used, d[k].ins.rs2, cdb0, cdb1)
      OBVIOUS
    <3>2. rs_q'[i] = [valid |-> TRUE, uop |-> u, seq |-> s, rob |-> t, lsq |-> l,
                      src1 |-> s1, src2 |-> s2]
      BY <2>2, <3>1 DEF StationFresh, rs_entry, RsEntry
    <3>3. /\ u \in Uop /\ d[k].ins.rs1 \in Arch /\ d[k].ins.rs2 \in Arch
          /\ d[k].rs1_used \in BOOLEAN /\ d[k].rs2_used \in BOOLEAN
      BY <3>1, NewFields
    <3>4. s1 \in Operands /\ s2 \in Operands
      BY <3>1, <3>3, NewOperand
    <3>5. t \in Tag
      <4>1. Comes(d, k)
        BY EdgeBrings
      <4> QED BY <3>1, <4>1 DEF Comes
    <3>6. l \in LsqIndex
      <4>1. \A j : lsq_index(d, j) \in LsqIndex
        BY QueuePlaces DEF Edge, Bundled
      <4> QED BY <3>1, <4>1
    <3>7. s \in Nat
      BY <1>2, <3>1
    <3> QED BY <3>2, <3>3, <3>4, <3>5, <3>6, <3>7 DEF Stations
  <2>3. ASSUME NEW i \in RsIndex PROVE rs_q'[i] \in Stations \cup {RsFree}
    <3>1. PICK at \in [ToStation(d) -> RsIndex] :
            /\ \A k \in ToStation(d) : StationFresh(at[k], k, d, cdb0, cdb1)
            /\ \A k, l \in ToStation(d) : at[k] = at[l] => k = l
            /\ \A j \in RsIndex : \/ rs_q'[j] = RsFree
                                  \/ StationStays(j, cdb0, cdb1)
                                  \/ \E k \in ToStation(d) : j = at[k]
            /\ \A j \in RsIndex : rs_q[j].valid /\ j \notin Gone(FALSE)
                                    => StationStays(j, cdb0, cdb1)
      BY StationAfter
    <3> QED BY <2>1, <2>2, <2>3, <3>1 DEF ToStation
  <2>4. rs_q' = [i \in RsIndex |-> rs_q'[i]]
    BY DEF Edge, UnitsTick, RsTick
  <2> QED BY <2>3, <2>4
<1>6. lsq_q' \in [LsqIndex -> QueueEntries \cup {LsqFree}]
  <2>1. ASSUME NEW i \in LsqIndex, NEW k \in ToQueue(d), QueueFresh(i, k, d)
        PROVE  lsq_q'[i] \in QueueEntries
    <3>0. k \in 1 .. Len(d)
      BY DEF ToQueue
    <3>1. PICK x, s, t, p, w :
            /\ x = (d[k].class = "store") /\ s = next_seq_q + k - 1 /\ t = After(tail_q, k - 1)
            /\ p = renamed(d)[k].pdst /\ w = d[k].writes
      OBVIOUS
    <3>2. lsq_q'[i] = [valid |-> TRUE, is_store |-> x, addr_valid |-> FALSE, issued |-> FALSE,
                       seq |-> s, rob |-> t, pdst |-> p, writes |-> w, addr |-> 0, wdata |-> 0]
      BY <2>1, <3>1 DEF QueueFresh, lsq_entry, LsqEntry
    <3>3. p \in Phys /\ w \in BOOLEAN
      BY <3>0, <3>1, NewFields
    <3>4. t \in Tag
      <4>1. Comes(d, k)
        BY <3>0, EdgeBrings
      <4> QED BY <3>1, <4>1 DEF Comes
    <3>5. s \in Nat /\ x \in BOOLEAN /\ 0 \in Data
      BY <1>2, <3>0, <3>1, WordsAssumption DEF Data
    <3> QED BY <3>2, <3>3, <3>4, <3>5 DEF QueueEntries
  <2>2. ASSUME NEW i \in LsqIndex PROVE lsq_q'[i] \in QueueEntries \cup {LsqFree}
    <3>1. \/ lsq_q'[i] = LsqFree
          \/ QueueStays(i)
          \/ \E k \in ToQueue(d) : i = lsq_index(d, k) /\ QueueFresh(i, k, d)
      BY QueueAfter
    <3> QED BY <2>1, <3>1 DEF QueueStays
  <2>3. lsq_q' = [i \in LsqIndex |-> lsq_q'[i]]
    BY DEF Edge, UnitsTick, LsqTick, LsqAdvance, LsqFlush
  <2> QED BY <2>2, <2>3
<1>7. ASSUME NEW t \in Tag, rob_q'[t].valid PROVE Fetched(rob_q[t].uop)'
  <2>1. PICK n \in 0 .. 2 : n = retire_count(fence_complete) /\ n <= count_q
    BY <1>1, CommittedAre
  <2>2. InputOK(renamed(d), cdb0, cdb1) /\ Moves(renamed(d), n, cdb0, cdb1, Completing)
    BY <2>1 DEF Edge
  <2>3. Len(renamed(d)) = Len(d)
    BY DEF Edge
  <2>4. \/ rob_q[t].valid /\ rob_q'[t].uop = rob_q[t].uop
        \/ Len(d) >= 1 /\ rob_q'[t].uop = renamed(d)[1]
        \/ Len(d) = 2 /\ rob_q'[t].uop = renamed(d)[2]
    BY <1>1, <1>7, <2>1, <2>2, <2>3, InFlightAfter
  <2>5. CASE rob_q[t].valid /\ rob_q'[t].uop = rob_q[t].uop
    <3>1. PICK u : u = rob_q[t].uop
      OBVIOUS
    <3>2. Fetched(u)
      BY <1>1, <2>5, <3>1 DEF CoreTypes
    <3> QED BY <1>2, <2>5, <3>1, <3>2 DEF Fetched
  <2>6. ASSUME NEW k \in 1 .. Len(d), rob_q'[t].uop = renamed(d)[k]
        PROVE  Fetched(rob_q[t].uop)'
    <3>1. PICK u : u = renamed(d)[k]
      OBVIOUS
    <3>2. Fetched(u)
      BY <3>1, NewFields DEF Fetched
    <3> QED BY <1>2, <2>6, <3>1, <3>2 DEF Fetched
  <2>7. /\ Len(d) >= 1 => 1 \in 1 .. Len(d)
        /\ Len(d) = 2 => 2 \in 1 .. Len(d)
    BY <1>2
  <2> QED BY <2>4, <2>5, <2>6, <2>7
<1>8. req_q' \in Requests
  BY RequestStep
<1>9. load_q' \in Loads
  BY LoadStep
<1>10. store_q' \in [valid: BOOLEAN, rob: Tag]
  BY StoreStep
<1>11. md_q' \in Operations
  BY MulDivStep
<1>12. dm_q' \in Transactions /\ mem' \in [Data -> Data]
  BY MemoryStep
<1> QED BY <1>3, <1>4, <1>5, <1>6, <1>7, <1>8, <1>9, <1>10, <1>11, <1>12 DEF CoreTypes

LEMMA EdgeStep ==
  ASSUME CoreInv, NEW d, NEW cdb0, NEW cdb1, NEW accept \in BOOLEAN, NEW answer \in BOOLEAN,
         Edge(d, cdb0, cdb1, accept, answer)
  PROVE  CoreInv'
<1>1. RenameInv'
  BY DEF Edge
<1>2. CoreTypes'
  BY TypesStep
<1>3. StationsOwned' /\ QueuesOwned'
  BY StationsStep, QueuesStep
<1>4. MulDivOwned' /\ LoadOwned' /\ StoreOwned'
  BY MulDivStep, LoadStep, StoreStep
<1>5. RequestOwned' /\ MemoryServes'
  BY RequestStep, MemoryStep
<1>6. OperandsFollow'
  BY OperandsStep
<1> QED BY <1>1, <1>2, <1>3, <1>4, <1>5, <1>6 DEF CoreInv, UnitsOwned
----------------------------------------------------------------------------
(***************************************************************************)
(* The recovery edge and the initial states: nothing is in flight.         *)
(***************************************************************************)
Empty ==
  /\ \A t \in Tag : ~rob_q[t].valid
  /\ rs_q = [i \in RsIndex |-> RsFree] /\ lsq_q = [i \in LsqIndex |-> LsqFree]
  /\ req_q = NoRequest /\ drop_q = NoDrop /\ load_q = NoLoad /\ store_q = NoStore
  /\ md_q = MdIdle /\ ~dm_q.busy

Holding ==
  /\ prog \in Programs /\ fetch_pc \in Data /\ mem \in [Data -> Data]
  /\ reg_value \in [Phys -> Data] /\ dm_q \in Transactions

LEMMA EmptyInv == RenameInv /\ Empty /\ Holding => CoreInv
<1> SUFFICES ASSUME RenameInv, Empty, Holding PROVE CoreInv
  OBVIOUS
<1>1. 0 \in Data /\ 0 \in Tag /\ 0 \in Phys /\ 0 \in LsqIndex
  BY WordsAssumption, RobDepthAssumption, RegCountAssumption, LsqDepthAssumption
     DEF Data, Tag, Phys, LsqIndex
<1>2. /\ \A i \in RsIndex : ~rs_q[i].valid
      /\ \A i \in LsqIndex : ~lsq_q[i].valid
  BY DEF Empty, RsFree, LsqFree
<1>3. CoreTypes
  <2>1. rs_q \in [RsIndex -> Stations \cup {RsFree}] /\ lsq_q \in [LsqIndex -> QueueEntries \cup {LsqFree}]
    BY DEF Empty
  <2>2. req_q \in Requests
    BY <1>1 DEF Empty, NoRequest, Requests
  <2>3. load_q \in Loads /\ store_q \in [valid: BOOLEAN, rob: Tag]
    BY <1>1 DEF Empty, NoLoad, Loads, NoStore
  <2>4. md_q \in Operations
    BY <1>1 DEF Empty, MdIdle, Operations
  <2>5. \A t \in Tag : rob_q[t].valid => Fetched(rob_q[t].uop)
    BY DEF Empty
  <2> QED BY <2>1, <2>2, <2>3, <2>4, <2>5 DEF CoreTypes, Holding
<1>4. StationsOwned /\ QueuesOwned /\ OperandsFollow
  BY <1>2 DEF StationsOwned, QueuesOwned, OperandsFollow
<1>5. MulDivOwned /\ LoadOwned /\ StoreOwned
  BY DEF Empty, MulDivOwned, MdIdle, LoadOwned, NoLoad, StoreOwned, NoStore
<1>6. RequestOwned /\ MemoryServes
  BY DEF Empty, RequestOwned, MemoryServes, NoRequest
<1> QED BY <1>3, <1>4, <1>5, <1>6 DEF CoreInv, UnitsOwned

LEMMA FlushStep ==
  ASSUME CoreInv, NEW avail \in 0 .. 2, NEW accept \in BOOLEAN, NEW answer \in BOOLEAN,
         Cycle(avail, accept, answer), recovery(fence_complete)
  PROVE  /\ CoreInv' /\ Empty' /\ count_q' = 0
         /\ fetch_pc' = rob_q[head_q].target /\ mem' = mem /\ prog' = prog
         /\ regs' = Retired(regs, commit(fence_complete))
<1>1. /\ RenameInv /\ RenameTypes /\ RobTypeOK /\ ProgramOrder /\ CoreTypes /\ UnitsOwned
  BY DEF CoreInv, RenameInv, RenameTypes
<1>2. CoreTick(avail, accept, answer)
  BY DEF Cycle
<1> DEFINE R == recovery(fence_complete)
<1>3. R = TRUE
  BY DEF recovery
<1>4. PICK d, cdb0, cdb1 :
        /\ RenameInput(d, cdb0, cdb1, fence_complete)
        /\ RenameTick(d, cdb0, cdb1, Completing, fence_complete)
        /\ Bundled(d) /\ Spoken(cdb0, cdb1, R)
        /\ UnitsTick(d, cdb0, cdb1, accept, answer, R)
        /\ fetch_pc' = IF R THEN rob_q[head_q].target ELSE plus(fetch_pc, Len(d))
  BY <1>2, CycleWires
<1>5. RenameInv'
  BY <1>1, <1>4, RenameStep
<1>6. /\ ~req_q.pending /\ ~req_q.busy /\ ~dm_q.busy /\ drop_q = NoDrop
      /\ head_q \in Tag
  <2>1. req_q \in Requests
    BY <1>1 DEF CoreTypes
  <2>2. /\ QueuesOwned /\ LoadOwned /\ StoreOwned /\ RequestOwned /\ MemoryServes
    BY <1>1 DEF UnitsOwned
  <2> QED BY <1>1, <2>1, <2>2, RecoveryQuiet DEF MemoryServes
<1>7. ~accept /\ ~answer
  BY <1>3, <1>6 DEF Cycle, rvalid, wvalid
<1> HIDE DEF R
<1>8. UnitsTick(d, cdb0, cdb1, FALSE, FALSE, TRUE) /\ fetch_pc' = rob_q[head_q].target
  BY <1>3, <1>4, <1>7
<1>9. /\ rob_q' = [t \in Tag |-> [Clear(rob_q[t]) EXCEPT !.control_complete = FALSE,
                                                        !.mispredict = FALSE]]
      /\ count_q' = 0
  BY <1>4 DEF RenameTick, RobTick, Recover
<1>10. \A t \in Tag : ~rob_q'[t].valid
  <2>1. \A t \in Tag : rob_q[t] \in Entry
    BY <1>1 DEF RobTypeOK
  <2> QED BY <1>9, <2>1 DEF Clear, Entry
<1>11. rs_q' = [i \in RsIndex |-> RsFree]
  BY <1>8 DEF UnitsTick, RsTick
<1>12. /\ lsq_q' = [i \in LsqIndex |-> LsqFree] /\ req_q' = NoRequest
       /\ load_q' = NoLoad /\ store_q' = NoStore /\ drop_q' = NoDrop
  <2>1. LsqFlush(DmIO(FALSE, FALSE))
    BY <1>8 DEF UnitsTick, LsqTick
  <2> QED BY <1>6, <2>1 DEF LsqFlush, NoDrop
<1>13. md_q' = MdIdle /\ dm_q' = dm_q /\ mem' = mem /\ prog' = prog
  BY <1>8 DEF UnitsTick, MdTick, DmTick, serving
<1>14. Empty'
  BY <1>6, <1>10, <1>11, <1>12, <1>13 DEF Empty
<1>15. fetch_pc' \in Data
  <2>1. rob_q[head_q] \in Entry
    BY <1>1, <1>6 DEF RobTypeOK
  <2> QED BY <1>8, <2>1, CoreWordsAssumption DEF Entry
<1>16. reg_value' \in [Phys -> Data]
  <2>1. RegTick(renamed(d), cdb0, cdb1) /\ ~cdb0.valid /\ ~cdb1.valid
    BY <1>4 DEF RenameTick, RenameInput
  <2>2. reg_value' = [p \in Phys |-> IF p = 0 THEN 0 ELSE reg_value[p]]
    BY <2>1 DEF RegTick, Writes
  <2>3. 0 \in Data /\ reg_value \in [Phys -> Data]
    BY <1>1, WordsAssumption DEF Data, CoreTypes
  <2> QED BY <2>2, <2>3
<1>17. prog' \in Programs /\ mem' \in [Data -> Data] /\ dm_q' \in Transactions
  BY <1>1, <1>13 DEF CoreTypes
<1>18. Holding'
  BY <1>15, <1>16, <1>17 DEF Holding
<1>19. regs' = Retired(regs, commit(fence_complete))
  BY <1>1, <1>4, PreciseTick
<1>20. CoreInv'
  BY <1>5, <1>14, <1>18, EmptyInv, PTL
<1> QED BY <1>8, <1>9, <1>13, <1>14, <1>19, <1>20

LEMMA CoreInits == CoreInit => CoreInv
<1> SUFFICES ASSUME CoreInit PROVE CoreInv
  OBVIOUS
<1>1. RenameInv
  BY RenameInits DEF CoreInit
<1>2. Empty
  BY DEF CoreInit, RenameInit, RobInit, EmptyEntry, RsInit, LsqInit, MdInit, DmIdle, Empty
<1>3. 0 \in Data
  BY WordsAssumption DEF Data
<1>4. Holding
  BY <1>3 DEF CoreInit, RenameInit, RegInit, DmIdle, Transactions, Holding
<1> QED BY <1>1, <1>2, <1>4, EmptyInv

LEMMA CoreInvStep == CoreInv /\ [CoreNext]_coreVars => CoreInv'
<1>1. ASSUME CoreInv, CoreNext PROVE CoreInv'
  <2>1. PICK avail \in 0 .. 2, accept \in BOOLEAN, answer \in BOOLEAN : Cycle(avail, accept, answer)
    BY <1>1 DEF CoreNext
  <2>2. CASE recovery(fence_complete)
    BY <1>1, <2>1, <2>2, FlushStep
  <2>3. CASE ~recovery(fence_complete)
    <3>1. PICK d, cdb0, cdb1 : Edge(d, cdb0, cdb1, accept, answer)
      BY <1>1, <2>1, <2>3, CycleIsEdge
    <3> QED BY <1>1, <3>1, EdgeStep
  <2> QED BY <2>2, <2>3
<1>2. ASSUME CoreInv, UNCHANGED coreVars PROVE CoreInv'
  <2>1. /\ UNCHANGED renameVars /\ UNCHANGED lsqVars
        /\ rs_q' = rs_q /\ md_q' = md_q /\ prog' = prog /\ fetch_pc' = fetch_pc
        /\ mem' = mem /\ dm_q' = dm_q
    BY <1>2 DEF coreVars
  <2>2. /\ rob_q' = rob_q /\ head_q' = head_q /\ amt' = amt
        /\ reg_value' = reg_value /\ reg_ready' = reg_ready
        /\ lsq_q' = lsq_q /\ req_q' = req_q /\ drop_q' = drop_q /\ load_q' = load_q
        /\ store_q' = store_q
    BY <2>1 DEF renameVars, robVars, ratVars, regVars, lsqVars
  <2>3. RenameInv'
    BY <1>2, <2>1, RenameInvStep DEF CoreInv
  <2>4. CoreTypes'
    BY <1>2, <2>1, <2>2 DEF CoreInv, CoreTypes, Fetched
  <2>5. StationsOwned' /\ QueuesOwned'
    BY <1>2, <2>1, <2>2 DEF CoreInv, UnitsOwned, StationsOwned, StationOwned, QueuesOwned,
       QueueOwned, Uncompleted, NoStation
  <2>6. MulDivOwned' /\ LoadOwned' /\ StoreOwned'
    BY <1>2, <2>1, <2>2 DEF CoreInv, UnitsOwned, MulDivOwned, LoadOwned, StoreOwned, ResultOwed,
       Uncompleted, NoStation, NoQueue, BarrierBefore, InFlight
  <2>7. RequestOwned' /\ MemoryServes'
    BY <1>2, <2>1, <2>2 DEF CoreInv, UnitsOwned, RequestOwned, MemoryServes, DmRequest,
       BarrierBefore, InFlight
  <2>8. OperandsFollow'
    BY <1>2, <2>1, <2>2 DEF CoreInv, OperandsFollow, OperandFollows, Names, NoneBefore, Youngest,
       WritersOf, Writers, Dst, Position
  <2> QED BY <2>3, <2>4, <2>5, <2>6, <2>7, <2>8 DEF CoreInv, UnitsOwned
<1> QED BY <1>1, <1>2

LEMMA CoreInvariant == CoreSpec => []CoreInv
BY CoreInits, CoreInvStep, PTL DEF CoreSpec
----------------------------------------------------------------------------
(***************************************************************************)
(* What follows.                                                           *)
(***************************************************************************)
LEMMA HonestBus == CoreInv => BusHonest
<1> SUFFICES ASSUME CoreInv PROVE BusHonest
  OBVIOUS
<1>1. RobTypeOK /\ ProgramOrder /\ CoreTypes /\ UnitsOwned
  BY DEF CoreInv, RenameInv, RenameTypes
<1>2. PICK R \in BOOLEAN : R = recovery(fence_complete)
  BY DEF recovery
<1>3. PICK req : req = requests(R)
  OBVIOUS
<1>4. \A k \in 1 .. 4 : Honest(req[k]) /\ (req[k].valid => Offers(k, req[k].tag))
  BY <1>1, <1>3, RequestsAre
<1>5. \A k \in 1 .. 4 : req[k].valid =>
        LET e == rob_q[req[k].tag]
        IN /\ e.valid /\ ~e.ready
           /\ req[k].writes = e.uop.writes /\ req[k].pdst = e.uop.pdst
           /\ req[k].control <=> e.uop.class = "control"
  BY <1>4 DEF Honest, Uncompleted
<1>6. \A k, l \in 1 .. 4 : req[k].valid /\ req[l].valid /\ k # l => req[k].tag # req[l].tag
  BY <1>1, <1>4, OffersDiffer
<1>7. store_q.valid => head_is_store /\ store_q.rob = head_q /\ ~rob_q[head_q].ready
  <2>1. head_q \in Tag /\ Position(head_q) = 0
    BY <1>1, Positions DEF RobTypeOK
  <2>2. rob_q[head_q].valid => 0 < count_q
    BY <1>1, <2>1 DEF ProgramOrder
  <2>3. count_q \in 0 .. ROB_DEPTH
    BY <1>1 DEF RobTypeOK
  <2>4. rob_q[head_q].valid => head_valid
    BY <2>2, <2>3, RobDepthAssumption DEF head_valid
  <2> QED BY <1>1, <2>4 DEF UnitsOwned, StoreOwned, Uncompleted, head_is_store
<1> QED BY <1>2, <1>3, <1>5, <1>6, <1>7 DEF BusHonest

LEMMA OwnedEntries == CoreInv => EntriesOwned
<1> SUFFICES ASSUME CoreInv PROVE EntriesOwned
  OBVIOUS
<1>1. RobTypeOK /\ ProgramOrder /\ StationsOwned /\ QueuesOwned /\ CoreTypes
  BY DEF CoreInv, RenameInv, RenameTypes, UnitsOwned
<1>2. /\ \A i \in RsIndex : rs_q[i].valid => StationOwned(rs_q[i]) /\ Uncompleted(rs_q[i].rob)
      /\ \A i \in LsqIndex : lsq_q[i].valid => QueueOwned(lsq_q[i]) /\ Uncompleted(lsq_q[i].rob)
  BY <1>1 DEF StationsOwned, QueuesOwned, StationOwned, QueueOwned
<1>3. /\ \A i \in RsIndex : rs_q[i].valid => Owns(rs_q[i]) /\ rs_q[i].rob \in Tag
      /\ \A i \in LsqIndex : lsq_q[i].valid => Owns(lsq_q[i]) /\ lsq_q[i].rob \in Tag
  BY <1>2 DEF StationOwned, QueueOwned, Owns, Uncompleted
<1>4. \A t, u \in Tag : rob_q[t].valid /\ rob_q[u].valid /\ rob_q[t].seq = rob_q[u].seq => t = u
  BY <1>1, SeqNames
<1>5. ASSUME NEW i \in RsIndex, NEW j \in RsIndex, rs_q[i].valid, rs_q[j].valid, i # j
      PROVE  rs_q[i].seq # rs_q[j].seq
  BY <1>1, <1>3, <1>4, <1>5 DEF StationsOwned, Owns
<1>6. ASSUME NEW i \in LsqIndex, NEW j \in LsqIndex, lsq_q[i].valid, lsq_q[j].valid, i # j
      PROVE  lsq_q[i].seq # lsq_q[j].seq
  BY <1>1, <1>3, <1>4, <1>6 DEF QueuesOwned, Owns
<1>7. ASSUME NEW i \in LsqIndex, lsq_q[i].valid
      PROVE  lsq_q[i].is_store <=> rob_q[lsq_q[i].rob].uop.class = "store"
  BY <1>2, <1>7 DEF QueueOwned
<1>8. ASSUME NEW i \in LsqIndex, lsq_q[i].valid, ~lsq_q[i].addr_valid
      PROVE  \E j \in RsIndex : rs_q[j].valid /\ rs_q[j].seq = lsq_q[i].seq /\ rs_q[j].lsq = i
  <2>1. ~NoStation(lsq_q[i].rob) /\ rob_q[lsq_q[i].rob].seq = lsq_q[i].seq
        /\ rob_q[lsq_q[i].rob].uop.class \in {"load", "store"}
    BY <1>2, <1>8 DEF QueueOwned
  <2>2. PICK j \in RsIndex : rs_q[j].valid /\ rs_q[j].rob = lsq_q[i].rob
    BY <2>1 DEF NoStation
  <2>3. StationOwned(rs_q[j]) /\ needs_lsq(rs_q[j].uop)
    BY <1>2, <2>1, <2>2 DEF StationOwned, needs_lsq
  <2>4. PICK l : l = rs_q[j].lsq
    OBVIOUS
  <2>5. lsq_q[l].valid /\ lsq_q[l].rob = rs_q[j].rob
    BY <2>3, <2>4 DEF StationOwned
  <2>6. l \in LsqIndex
    <3>1. rs_q[j] \in Stations
      BY <1>1, <2>2, StationTypes
    <3> QED BY <2>4, <3>1 DEF Stations
  <2>7. l = i
    BY <1>1, <1>8, <2>2, <2>5, <2>6 DEF QueuesOwned
  <2>8. rs_q[j].seq = lsq_q[i].seq
    BY <2>1, <2>2, <2>3 DEF StationOwned
  <2> QED BY <2>2, <2>4, <2>7, <2>8
<1> QED BY <1>3, <1>5, <1>6, <1>7, <1>8 DEF EntriesOwned

LEMMA NoSpeculation == CoreInv => NoSpeculativeAccess
<1> SUFFICES ASSUME CoreInv PROVE NoSpeculativeAccess
  OBVIOUS
<1>1. /\ RobTypeOK /\ ProgramOrder /\ QueuesOwned /\ LoadOwned /\ StoreOwned /\ RequestOwned
      /\ MemoryServes /\ req_q \in Requests
  BY DEF CoreInv, RenameInv, RenameTypes, UnitsOwned, CoreTypes
<1>2. ASSUME req_q.pending \/ req_q.busy
      PROVE  /\ rob_q[req_q.rob].valid /\ ~rob_q[req_q.rob].ready
             /\ ~BarrierBefore(rob_q[req_q.rob].seq)
             /\ req_q.write => req_q.rob = head_q
  <2>1. PICK i \in LsqIndex : i = req_q.index
    BY <1>1 DEF Requests
  <2>2. /\ lsq_q[i].valid /\ lsq_q[i].rob = req_q.rob /\ ~BarrierBefore(lsq_q[i].seq)
        /\ req_q.write => req_q.rob = head_q
    BY <1>1, <1>2, <2>1 DEF RequestOwned
  <2>3. Uncompleted(req_q.rob) /\ rob_q[req_q.rob].seq = lsq_q[i].seq
    BY <1>1, <2>2 DEF QueuesOwned, QueueOwned
  <2> QED BY <2>2, <2>3 DEF Uncompleted
<1>3. recovery(fence_complete) => memory_idle
  BY <1>1, RecoveryQuiet
<1> QED BY <1>1, <1>2, <1>3 DEF NoSpeculativeAccess, MemoryServes, NoDrop

LEMMA SoundOperands == CoreInv => OperandsSound
<1> SUFFICES ASSUME CoreInv PROVE OperandsSound
  OBVIOUS
<1>1. /\ RobTypeOK /\ ProgramOrder /\ ResultsAgree /\ OperandsFollow /\ StationsOwned /\ CoreTypes
  BY DEF CoreInv, RenameInv, RenameTypes, UnitsOwned
<1>2. ASSUME NEW e, Uncompleted(e.rob), rob_q[e.rob].seq = e.seq, NEW r \in Arch, NEW s,
             OperandFollows(e, r, s)
      PROVE  OperandSound(e, s)
  <2> SUFFICES ASSUME s.used, ~s.ready
               PROVE  \E t \in Writers : Dst(t) = s.tag /\ ~rob_q[t].ready /\ rob_q[t].seq < e.seq
    BY <1>2 DEF OperandSound, OperandFollows
  <2>1. Names(r, Position(e.rob), s.tag) /\ ~reg_ready[s.tag]
    BY <1>2 DEF OperandFollows
  <2>2. s.tag # amt[r]
    BY <1>1, <2>1 DEF ResultsAgree
  <2>3. PICK t \in Tag : Youngest(r, Position(e.rob), t) /\ s.tag = Dst(t)
    BY <2>1, <2>2 DEF Names
  <2>4. t \in Writers /\ Position(t) < Position(e.rob)
    BY <2>3 DEF Youngest, WritersOf
  <2>5. ~rob_q[t].ready
    BY <1>1, <2>1, <2>3, <2>4 DEF ResultsAgree
  <2>6. rob_q[t].seq < e.seq
    BY <1>1, <1>2, <2>4, SeqNames DEF Writers, Uncompleted
  <2> QED BY <2>3, <2>4, <2>5, <2>6
<1>3. ASSUME NEW i \in RsIndex, rs_q[i].valid
      PROVE  OperandSound(rs_q[i], rs_q[i].src1) /\ OperandSound(rs_q[i], rs_q[i].src2)
  <2>1. PICK e, i1, i2, s1, s2 :
          e = rs_q[i] /\ i1 = e.uop.ins.rs1 /\ i2 = e.uop.ins.rs2 /\ s1 = e.src1 /\ s2 = e.src2
    OBVIOUS
  <2>2. Uncompleted(e.rob) /\ rob_q[e.rob].seq = e.seq /\ Fetched(e.uop)
    BY <1>1, <1>3, <2>1, StationTypes
  <2>3. i1 \in Arch /\ i2 \in Arch
    BY <1>1, <2>1, <2>2, FetchedFields DEF CoreTypes
  <2>4. OperandFollows(e, i1, s1) /\ OperandFollows(e, i2, s2)
    BY <1>1, <1>3, <2>1 DEF OperandsFollow
  <2>5. OperandSound(e, s1) /\ OperandSound(e, s2)
    BY <1>2, <2>2, <2>3, <2>4
  <2> QED BY <2>1, <2>5
<1> QED BY <1>3 DEF OperandsSound

\* Whatever a producer offers the bus is for an instruction in flight that has
\* not completed, under the register it was renamed to, and no two offer for the
\* same one: no late or doubled result reaches a recycled tag.
THEOREM BusAlwaysHonest == CoreSpec => []BusHonest
BY CoreInvariant, HonestBus, PTL

\* Every station and queue entry belongs to an instruction in flight that has not
\* completed, no two to the same one, and a memory instruction without an address
\* still has its station entry: none is orphaned and none outlives a recovery.
THEOREM EntriesAlwaysOwned == CoreSpec => []EntriesOwned
BY CoreInvariant, OwnedEntries, PTL

\* No data access is presented or served with a control or fence instruction
\* older than it in flight, a store only at the head, and recovery finds the
\* memory pipeline idle, however long the memory takes.
THEOREM NothingSpeculative == CoreSpec => []NoSpeculativeAccess
BY CoreInvariant, NoSpeculation, PTL

\* An operand that waits has an older producer in flight that has not completed,
\* and one that was captured holds the value of its register: no wake-up is lost,
\* not even that of the cycle of dispatch, and none is wrong.
THEOREM OperandsAlwaysSound == CoreSpec => []OperandsSound
BY CoreInvariant, SoundOperands, PTL

\* The renaming invariants hold in the composed core: the bus that its producers
\* drive and the admission of its dispatch stage are what they need.
THEOREM RenamingHolds == CoreSpec => [](FreeListPartition /\ RenameChain /\ ResultsAgree)
<1>1. CoreInv => FreeListPartition /\ RenameChain /\ ResultsAgree
  BY ChainIs DEF CoreInv, RenameInv
<1> QED BY <1>1, CoreInvariant, PTL

\* In the core too the architectural registers change only by the results of the
\* instructions that retire, in program order.
THEOREM CoreIsPrecise == CoreSpec => [][regs' = Retired(regs, commit(fence_complete))]_coreVars
<1>1. CoreInv /\ [CoreNext]_coreVars => [regs' = Retired(regs, commit(fence_complete))]_coreVars
  <2> SUFFICES ASSUME CoreInv, CoreNext PROVE regs' = Retired(regs, commit(fence_complete))
    OBVIOUS
  <2>1. PICK avail \in 0 .. 2, accept \in BOOLEAN, answer \in BOOLEAN : Cycle(avail, accept, answer)
    BY DEF CoreNext
  <2>2. CoreTick(avail, accept, answer)
    BY <2>1 DEF Cycle
  <2>3. PICK d, cdb0, cdb1 : /\ RenameInput(d, cdb0, cdb1, fence_complete)
                             /\ RenameTick(d, cdb0, cdb1, Completing, fence_complete)
    BY <2>2, CycleWires
  <2> QED BY <2>3, PreciseTick DEF CoreInv
<1> QED BY <1>1, CoreInvariant, PTL DEF CoreSpec
----------------------------------------------------------------------------
(***************************************************************************)
(* The core implements the sequential machine.  The inductive invariant    *)
(* says what every result, address and request under way is worth: it is   *)
(* computed from the operands that the instruction's position in program   *)
(* order prescribes.                                                       *)
(***************************************************************************)
\* A reader behind the first m instructions in flight finds v in register r.
Reads(r, m, v) == \E p \in Phys : Names(r, m, p) /\ reg_ready[p] /\ v = reg_value[p]

\* The instruction of tag t has the operands v1 and v2, as far as it uses them.
Inputs(t, v1, v2) ==
  LET u == rob_q[t].uop
  IN /\ v1 \in Data /\ v2 \in Data
     /\ u.rs1_used => Reads(u.ins.rs1, Position(t), v1)
     /\ u.rs2_used => Reads(u.ins.rs2, Position(t), v2)

\* No memory instruction before sequence number s is in the queue.
NoOlder(s) == \A i \in LsqIndex : lsq_q[i].valid => lsq_q[i].seq >= s

(***************************************************************************)
(* value is the result of instruction t, and for a control instruction     *)
(* target is where it goes and mispredict whether that is not the next     *)
(* one.  A loaded value is that of the memory, which no older instruction  *)
(* will write any more.                                                    *)
(***************************************************************************)
Exact(t, value, target, mispredict) ==
  LET u == rob_q[t].uop
  IN \E v1, v2 \in Data :
       /\ Inputs(t, v1, v2)
       /\ value = IF u.class = "load" THEN mem[EffectiveAddr(u.ins, v1)]
                  ELSE Result(u.ins, u.pc, v1, v2)
       /\ u.class = "load" => NoOlder(rob_q[t].seq)
       /\ u.class = "control" => /\ target = Target(u.ins, u.pc, v1, v2)
                                 /\ mispredict = (target # pc_plus_4(u.pc))

\* The memory instruction t accesses address a; a store writes w there.
Addressed(t, a, w) ==
  LET u == rob_q[t].uop
  IN \E v1, v2 \in Data : /\ Inputs(t, v1, v2) /\ a = EffectiveAddr(u.ins, v1)
                          /\ u.class = "store" => w = v2

Reporting == {"alu", "muldiv", "load", "control"}
ResultExact(t) ==
  rob_q[t].valid /\ rob_q[t].ready /\ rob_q[t].uop.class \in Reporting =>
    /\ Exact(t, rob_q[t].value, rob_q[t].target, rob_q[t].mispredict)
    /\ rob_q[t].uop.class = "control" => rob_q[t].control_complete
ResultsExact == \A t \in Tag : ResultExact(t)
MulDivExact ==
  md_q.computing \/ md_q.result_valid => Exact(md_q.rob, md_q.value, 0, FALSE)
LoadExact == load_q.valid => Exact(load_q.rob, load_q.value, 0, FALSE)
QueuesExact ==
  \A i \in LsqIndex : lsq_q[i].valid /\ lsq_q[i].addr_valid =>
    Addressed(lsq_q[i].rob, lsq_q[i].addr, lsq_q[i].wdata)
RequestExact ==
  req_q.pending \/ req_q.busy => /\ Addressed(req_q.rob, req_q.addr, req_q.wdata)
                                 /\ ~req_q.write => NoOlder(lsq_q[req_q.index].seq)

\* Only the store at the head can have left the queue.
StoresQueued ==
  \A t \in Tag : rob_q[t].valid /\ rob_q[t].uop.class = "store" /\ NoQueue(t) => t = head_q

\* x is the program counter of the instruction at position m: one in flight, or
\* the next to be fetched.  They are consecutive.
PcIs(m, x) ==
  \/ \E t \in Tag : rob_q[t].valid /\ Position(t) = m /\ x = rob_q[t].uop.pc
  \/ m = count_q /\ x = fetch_pc
PcsFollow ==
  \A m \in Nat : \A x, y \in Data : PcIs(m, x) /\ PcIs(m + 1, y) => y = pc_plus_4(x)

ExactInv ==
  /\ ResultsExact /\ MulDivExact /\ LoadExact /\ QueuesExact /\ RequestExact
  /\ StoresQueued /\ PcsFollow

Leaving == retire_count(fence_complete)

(***************************************************************************)
(* What is known of operands stays known.                                  *)
(***************************************************************************)
LEMMA ReadsUnique ==
  ASSUME RobTypeOK, NEW r \in Arch, NEW m \in Nat, NEW v, NEW w, Reads(r, m, v), Reads(r, m, w)
  PROVE  v = w
BY MapIsNamed DEF Reads

LEMMA ReadsKept ==
  ASSUME CoreInv, NEW d, NEW cdb0, NEW cdb1, NEW accept, NEW answer,
         Edge(d, cdb0, cdb1, accept, answer), NEW r \in Arch, NEW j \in Nat,
         Leaving + j <= count_q, NEW v, Reads(r, Leaving + j, v)
  PROVE  Reads(r, j, v)'
<1>1. RenameTypes /\ RatTypeOK /\ FreeListPartition /\ ResultsAgree
  BY DEF CoreInv, RenameInv, RenameTypes
<1>2. PICK p \in Phys : Names(r, Leaving + j, p) /\ reg_ready[p] /\ v = reg_value[p]
  BY DEF Reads
<1>3. Names(r, j, p)'
  BY <1>2, EdgeNames DEF Leaving
<1>4. /\ BusOK(cdb0) /\ BusOK(cdb1) /\ RegTick(renamed(d), cdb0, cdb1)
      /\ RenameInput(d, cdb0, cdb1, fence_complete)
  BY DEF Edge, RenameInput
<1>5. /\ p \notin free_mask
      /\ \A b : BusOK(b) /\ Writes(b, p) /\ p # 0 => ~reg_ready[p]
  BY <1>1, <1>2, NamedRegister
<1>6. p \notin Allocated(renamed(d))
  BY <1>1, <1>4, <1>5, Allocates
<1>7. reg_value[0] = 0
  BY <1>1 DEF RatTypeOK
<1>8. reg_ready'[p] /\ v = reg_value'[p]
  BY <1>2, <1>4, <1>5, <1>6, <1>7, RegTickAt
<1> QED BY <1>3, <1>8 DEF Reads

\* What an instruction that stays in flight keeps.
Remains(t) ==
  /\ t \in Tag /\ rob_q[t].valid /\ Leaving <= Position(t)

LEMMA StaysWhole ==
  ASSUME CoreInv, NEW d, NEW cdb0, NEW cdb1, NEW accept, NEW answer,
         Edge(d, cdb0, cdb1, accept, answer), NEW t, Remains(t)
  PROVE  /\ rob_q'[t].valid /\ rob_q'[t].uop = rob_q[t].uop /\ rob_q'[t].seq = rob_q[t].seq
         /\ Position(t)' = Position(t) - Leaving /\ Position(t) < count_q
         /\ Leaving \in 0 .. 2 /\ Leaving <= count_q /\ Position(t) \in Nat /\ count_q \in Nat
<1>1. RobTypeOK /\ ProgramOrder
  BY DEF CoreInv, RenameInv, RenameTypes
<1>2. /\ InputOK(renamed(d), cdb0, cdb1)
      /\ Moves(renamed(d), Leaving, cdb0, cdb1, Completing)
  BY DEF Edge, Leaving
<1>3. Leaving \in 0 .. 2 /\ Leaving <= count_q
  BY <1>1, CommittedAre DEF Leaving
<1>4. t \in Tag /\ Position(t) < count_q /\ Leaving <= Position(t)
  BY <1>1 DEF Remains, ProgramOrder
<1>5. Position(t) \in Nat /\ count_q \in Nat
  BY <1>1, <1>4, Positions DEF RobTypeOK
<1> HIDE DEF Leaving
<1> QED BY <1>1, <1>2, <1>3, <1>4, <1>5, InFlightAfter

LEMMA InputsKept ==
  ASSUME CoreInv, NEW d, NEW cdb0, NEW cdb1, NEW accept, NEW answer,
         Edge(d, cdb0, cdb1, accept, answer), NEW t, Remains(t),
         NEW v1, NEW v2, Inputs(t, v1, v2)
  PROVE  Inputs(t, v1, v2)'
<1> DEFINE u == rob_q[t].uop
<1>1. /\ rob_q'[t].uop = u /\ Position(t)' = Position(t) - Leaving
      /\ Position(t) < count_q /\ Leaving \in Nat /\ Position(t) \in Nat /\ count_q \in Nat
      /\ Leaving <= Position(t)
  BY StaysWhole DEF Remains
<1>2. u.ins.rs1 \in Arch /\ u.ins.rs2 \in Arch
  <2>1. prog \in Programs /\ Fetched(u)
    BY DEF CoreInv, CoreTypes, Remains
  <2> QED BY <2>1, FetchedFields
<1>3. PICK j \in Nat : j = Position(t) - Leaving
  BY <1>1
<1>4. Leaving + j = Position(t) /\ Leaving + j <= count_q
  BY <1>1, <1>3
<1>5. \A r \in Arch : \A v : Reads(r, Position(t), v) => Reads(r, j, v)'
  BY <1>4, ReadsKept
<1> HIDE DEF u
<1>6. /\ v1 \in Data /\ v2 \in Data
      /\ u.rs1_used => Reads(u.ins.rs1, Position(t), v1)
      /\ u.rs2_used => Reads(u.ins.rs2, Position(t), v2)
  BY DEF Inputs, u
<1>7. PICK a, b, x, y : a = u.ins.rs1 /\ b = u.ins.rs2 /\ x = u.rs1_used /\ y = u.rs2_used
  OBVIOUS
<1>8. (x => Reads(a, j, v1)') /\ (y => Reads(b, j, v2)')
  BY <1>2, <1>5, <1>6, <1>7
<1>9. Position(t)' = j
  BY <1>1, <1>3
<1>10. /\ a = rob_q'[t].uop.ins.rs1 /\ b = rob_q'[t].uop.ins.rs2
       /\ x = rob_q'[t].uop.rs1_used /\ y = rob_q'[t].uop.rs2_used
  BY <1>1, <1>7
<1> QED BY <1>6, <1>8, <1>9, <1>10 DEF Inputs

(***************************************************************************)
(* What the memory does, and when.                                         *)
(***************************************************************************)
\* The memory performs the store that it was asked for.
Performs(answer) == answer /\ req_q.write

LEMMA MemoryAfter ==
  ASSUME CoreInv, NEW d, NEW cdb0, NEW cdb1, NEW accept \in BOOLEAN, NEW answer \in BOOLEAN,
         Edge(d, cdb0, cdb1, accept, answer)
  PROVE  /\ mem' = IF Performs(answer) THEN [mem EXCEPT ![req_q.addr] = req_q.wdata] ELSE mem
         /\ answer => /\ req_q.pending \/ req_q.busy
                      /\ serving(accept).addr = req_q.addr
         /\ accept => req_q.pending
<1>1. /\ DmTick(accept, answer) /\ (accept => req_q.pending) /\ (answer => req_q.busy \/ accept)
  BY DEF Edge, UnitsTick
<1>2. (dm_q.busy <=> req_q.busy) /\ (dm_q.busy => dm_q = DmRequest)
  BY DEF CoreInv, UnitsOwned, MemoryServes
<1>3. answer => serving(accept) = DmRequest
  BY <1>1, <1>2 DEF serving
<1>4. DmRequest.write = req_q.write /\ DmRequest.addr = req_q.addr /\ DmRequest.data = req_q.wdata
  BY DEF DmRequest
<1> QED BY <1>1, <1>3, <1>4 DEF DmTick, Performs

\* While a store is performed it heads the buffer, nothing retires, and no load
\* behind it has been answered.
LEMMA StoreAlone ==
  ASSUME CoreInv, NEW d, NEW cdb0, NEW cdb1, NEW accept \in BOOLEAN, NEW answer \in BOOLEAN,
         Edge(d, cdb0, cdb1, accept, answer), Performs(answer)
  PROVE  /\ req_q.rob = head_q /\ Remains(head_q) /\ ~rob_q[head_q].ready
         /\ rob_q[head_q].uop.class = "store" /\ Leaving = 0 /\ ~NoQueue(head_q)
         /\ \A t \in Tag : rob_q[t].valid /\ rob_q[t].uop.class = "load" => ~NoOlder(rob_q[t].seq)
<1> DEFINE q == lsq_q[req_q.index]
<1>1. RobTypeOK /\ ProgramOrder /\ CoreTypes
  BY DEF CoreInv, RenameInv, RenameTypes
<1>2. /\ q.valid /\ q.rob = req_q.rob /\ q.is_store /\ req_q.rob = head_q
      /\ req_q.index \in LsqIndex
  <2>1. (req_q.pending \/ req_q.busy) /\ req_q.write
    BY MemoryAfter DEF Performs
  <2>2. req_q.index \in LsqIndex
    BY <1>1 DEF CoreTypes, Requests
  <2>3. RequestOwned
    BY DEF CoreInv, UnitsOwned
  <2> QED BY <2>1, <2>2, <2>3 DEF RequestOwned
<1>3. /\ Uncompleted(head_q) /\ rob_q[head_q].seq = q.seq /\ rob_q[head_q].uop.class = "store"
  BY <1>2 DEF CoreInv, UnitsOwned, QueuesOwned, QueueOwned
<1>4. Waits(head_q, cdb0, cdb1)
  BY <1>2, UnitsWait
<1>5. Leaving <= Position(head_q) /\ Leaving \in Nat /\ Position(head_q) = 0
  BY <1>1, <1>4, EdgeKeeps, CommittedAre, Positions DEF Leaving
<1>6. ASSUME NEW t \in Tag, rob_q[t].valid, rob_q[t].uop.class = "load" PROVE ~NoOlder(rob_q[t].seq)
  <2>1. rob_q[head_q].valid /\ head_q \in Tag /\ t # head_q
    BY <1>3, <1>6 DEF Uncompleted
  <2>2. /\ rob_q[head_q].seq \in Nat /\ rob_q[t].seq \in Nat
        /\ rob_q[head_q].seq <= rob_q[t].seq /\ rob_q[head_q].seq # rob_q[t].seq
    BY <1>1, <1>6, <2>1, SeqNames
  <2> QED BY <1>2, <1>3, <2>2 DEF NoOlder
<1>7. ~NoQueue(head_q)
  BY <1>2 DEF NoQueue
<1> QED BY <1>2, <1>3, <1>5, <1>6, <1>7 DEF Remains, Uncompleted

LEMMA NoOlderKept ==
  ASSUME CoreInv, NEW d, NEW cdb0, NEW cdb1, NEW accept \in BOOLEAN, NEW answer \in BOOLEAN,
         Edge(d, cdb0, cdb1, accept, answer),
         NEW s \in Nat, s < next_seq_q, NoOlder(s)
  PROVE  NoOlder(s)'
<1>1. next_seq_q \in Nat
  BY DEF CoreInv, RenameInv, RenameTypes, RobTypeOK
<1>2. ASSUME NEW i \in LsqIndex, lsq_q'[i].valid PROVE lsq_q'[i].seq >= s
  <2>1. CASE lsq_q'[i] = LsqFree
    BY <1>2, <2>1 DEF LsqFree
  <2>2. CASE QueueStays(i)
    BY <2>2 DEF QueueStays, NoOlder
  <2>3. ASSUME NEW k \in ToQueue(d), i = lsq_index(d, k) PROVE lsq_q'[i].seq >= s
    <3>1. QueueFresh(i, k, d)
      BY <2>3, QueueAfter
    <3>2. k \in 1 .. Len(d) /\ lsq_q'[i].seq = next_seq_q + k - 1
      BY <3>1, FreshEntries
    <3>3. Len(d) \in Nat
      BY EdgeBrings
    <3> QED BY <1>1, <3>2, <3>3
  <2> QED BY <2>1, <2>2, <2>3, QueueAfter
<1> QED BY <1>2 DEF NoOlder

LEMMA ExactKept ==
  ASSUME CoreInv, NEW d, NEW cdb0, NEW cdb1, NEW accept \in BOOLEAN, NEW answer \in BOOLEAN,
         Edge(d, cdb0, cdb1, accept, answer), NEW t, Remains(t),
         NEW x, NEW y, NEW z, Exact(t, x, y, z)
  PROVE  Exact(t, x, y, z)'
<1> DEFINE u == rob_q[t].uop
<1>1. PICK v1 \in Data, v2 \in Data :
        /\ Inputs(t, v1, v2)
        /\ x = IF u.class = "load" THEN mem[EffectiveAddr(u.ins, v1)]
               ELSE Result(u.ins, u.pc, v1, v2)
        /\ u.class = "load" => NoOlder(rob_q[t].seq)
        /\ u.class = "control" => y = Target(u.ins, u.pc, v1, v2) /\ z = (y # pc_plus_4(u.pc))
  BY DEF Exact
<1>2. Inputs(t, v1, v2)'
  BY <1>1, InputsKept
<1>3. rob_q'[t].uop = u /\ rob_q'[t].seq = rob_q[t].seq
  BY StaysWhole
<1>4. rob_q[t].valid /\ t \in Tag
  BY DEF Remains
<1>5. ASSUME u.class = "load" PROVE mem' = mem /\ NoOlder(rob_q[t].seq)'
  <2>1. ~Performs(answer)
    BY <1>1, <1>4, <1>5, StoreAlone
  <2>2. PICK s : s = rob_q[t].seq
    OBVIOUS
  <2>3. s \in Nat /\ s < next_seq_q
    BY <1>4, <2>2, SeqNames DEF CoreInv, RenameInv, RenameTypes
  <2>4. NoOlder(s)
    BY <1>1, <1>5, <2>2
  <2>5. NoOlder(s)'
    BY <2>3, <2>4, NoOlderKept
  <2>6. NoOlder(rob_q[t].seq)'
    BY <1>3, <2>2, <2>5 DEF NoOlder
  <2>7. mem' = mem
    BY <2>1, MemoryAfter
  <2> QED BY <2>6, <2>7
<1> DEFINE v == rob_q'[t].uop
<1>6. /\ x = IF v.class = "load" THEN mem'[EffectiveAddr(v.ins, v1)]
             ELSE Result(v.ins, v.pc, v1, v2)
      /\ v.class = "load" => NoOlder(rob_q[t].seq)'
      /\ v.class = "control" => y = Target(v.ins, v.pc, v1, v2) /\ z = (y # pc_plus_4(v.pc))
  BY <1>1, <1>3, <1>5
<1> QED BY <1>2, <1>6 DEF Exact

LEMMA AddressedKept ==
  ASSUME CoreInv, NEW d, NEW cdb0, NEW cdb1, NEW accept, NEW answer,
         Edge(d, cdb0, cdb1, accept, answer), NEW t, Remains(t),
         NEW a, NEW w, Addressed(t, a, w)
  PROVE  Addressed(t, a, w)'
<1> DEFINE u == rob_q[t].uop
<1>1. PICK v1 \in Data, v2 \in Data :
        /\ Inputs(t, v1, v2) /\ a = EffectiveAddr(u.ins, v1)
        /\ u.class = "store" => w = v2
  BY DEF Addressed
<1>2. Inputs(t, v1, v2)'
  BY <1>1, InputsKept
<1>3. rob_q'[t].uop = u
  BY StaysWhole
<1> QED BY <1>1, <1>2, <1>3 DEF Addressed

\* What the units hold stays in flight, unless the bus takes it.
LEMMA UnitsRemain ==
  ASSUME CoreInv, NEW d, NEW cdb0, NEW cdb1, NEW accept, NEW answer,
         Edge(d, cdb0, cdb1, accept, answer)
  PROVE  /\ \A i \in RsIndex :
              rs_q[i].valid /\ (i \notin Gone(FALSE) \/ rs_q[i].uop.class \notin {"alu", "control"})
                => Remains(rs_q[i].rob)
         /\ \A i \in LsqIndex : lsq_q[i].valid => Remains(lsq_q[i].rob)
         /\ md_q.computing \/ (md_q.result_valid /\ 2 \notin granted(requests(FALSE)))
              => Remains(md_q.rob)
         /\ load_q.valid /\ 1 \notin granted(requests(FALSE)) => Remains(load_q.rob)
<1>1. \A t : Waits(t, cdb0, cdb1) => Remains(t)
  BY EdgeKeeps DEF Remains, Waits, Uncompleted, Leaving
<1> QED BY <1>1, UnitsWait

(***************************************************************************)
(* The producers: what leaves the station, and what the bus says, is exact. *)
(***************************************************************************)
LEMMA LanesReady ==
  ASSUME NEW i \in int0 \cup int1 \cup m_lane \cup lsu_lane
  PROVE  /\ i \in RsIndex /\ rs_q[i].valid
         /\ OperandReady(rs_q[i].src1) /\ OperandReady(rs_q[i].src2)
BY DEF int0, int1, m_lane, lsu_lane, Oldest, ReadyToIssue

LEMMA StationInputs ==
  ASSUME CoreInv, NEW i \in int0 \cup int1 \cup m_lane \cup lsu_lane
  PROVE  /\ Inputs(rs_q[i].rob, rs_q[i].src1.value, rs_q[i].src2.value)
         /\ rob_q[rs_q[i].rob].uop = rs_q[i].uop
<1> DEFINE e == rs_q[i]
<1>1. /\ i \in RsIndex /\ e.valid /\ OperandReady(e.src1) /\ OperandReady(e.src2)
  BY LanesReady
<1>2. CoreTypes /\ StationsOwned /\ OperandsFollow
  BY DEF CoreInv, UnitsOwned
<1>3. /\ e \in Stations /\ rob_q[e.rob].uop = e.uop
      /\ e.src1.value \in Data /\ e.src2.value \in Data
  BY <1>1, <1>2, StationTypes
<1>4. e.src1.used = e.uop.rs1_used /\ e.src2.used = e.uop.rs2_used
  BY <1>1, <1>2 DEF StationsOwned, StationOwned
<1>5. /\ OperandFollows(e, e.uop.ins.rs1, e.src1) /\ OperandFollows(e, e.uop.ins.rs2, e.src2)
  BY <1>1, <1>2 DEF OperandsFollow
<1>6. e.src1.tag \in Phys /\ e.src2.tag \in Phys
  BY <1>3 DEF Stations, Operands
<1> HIDE DEF e
<1>7. /\ e.uop.rs1_used => Reads(e.uop.ins.rs1, Position(e.rob), e.src1.value)
      /\ e.uop.rs2_used => Reads(e.uop.ins.rs2, Position(e.rob), e.src2.value)
  BY <1>1, <1>4, <1>5, <1>6 DEF OperandFollows, OperandReady, Reads
<1> QED BY <1>3, <1>7 DEF Inputs, e

\* What an entry of the issue lanes computes is the result of its instruction.
LEMMA IssuedExact ==
  ASSUME CoreInv, NEW i \in int0 \cup int1 \cup m_lane,
         rs_q[i].uop.class \in {"alu", "muldiv", "control"},
         NEW target, NEW mispredict,
         rs_q[i].uop.class = "control" =>
           /\ target = Target(rs_q[i].uop.ins, rs_q[i].uop.pc,
                              rs_q[i].src1.value, rs_q[i].src2.value)
           /\ mispredict = (target # pc_plus_4(rs_q[i].uop.pc))
  PROVE  Exact(rs_q[i].rob,
               Result(rs_q[i].uop.ins, rs_q[i].uop.pc, rs_q[i].src1.value, rs_q[i].src2.value),
               target, mispredict)
<1>1. /\ Inputs(rs_q[i].rob, rs_q[i].src1.value, rs_q[i].src2.value)
      /\ rob_q[rs_q[i].rob].uop = rs_q[i].uop
  BY StationInputs
<1>2. rs_q[i].src1.value \in Data /\ rs_q[i].src2.value \in Data
  BY <1>1 DEF Inputs
<1> QED BY <1>1, <1>2 DEF Exact

\* m is an exact report.
ExactReport(m) == m.valid => Exact(m.tag, m.value, m.target, m.mispredict)

LEMMA LaneReports ==
  ASSUME CoreInv, NEW i \in int0 \cup int1, rs_q[i].uop.class \in {"alu", "control"}
  PROVE  ExactReport(executed(rs_q[i]))
<1> DEFINE e == rs_q[i]
           target == Target(e.uop.ins, e.uop.pc, e.src1.value, e.src2.value)
           mispredict == e.uop.class = "control" /\ target # pc_plus_4(e.uop.pc)
<1>1. /\ executed(e).tag = e.rob /\ executed(e).target = target
      /\ executed(e).mispredict = mispredict
      /\ executed(e).value = Result(e.uop.ins, e.uop.pc, e.src1.value, e.src2.value)
  BY DEF executed
<1>2. Exact(e.rob, Result(e.uop.ins, e.uop.pc, e.src1.value, e.src2.value), target, mispredict)
  BY IssuedExact
<1> QED BY <1>1, <1>2 DEF ExactReport

LEMMA RequestsExact ==
  ASSUME CoreInv, ExactInv, NEW k \in 1 .. 4
  PROVE  ExactReport(requests(FALSE)[k])
<1> DEFINE req == requests(FALSE)
<1>1. CdbQuiet.valid = FALSE
  BY DEF CdbQuiet
<1>2. RobTypeOK /\ ProgramOrder /\ CoreTypes /\ StationsOwned
  BY DEF CoreInv, RenameInv, RenameTypes, UnitsOwned
<1>3. ExactReport(req[1])
  <2> DEFINE m == BusResult(load_q.rob, load_q.value, load_q.writes, load_q.pdst)
  <2>1. req[1] = IF load_q.valid THEN m ELSE CdbQuiet
    BY DEF requests
  <2>2. /\ m.tag = load_q.rob /\ m.value = load_q.value /\ m.target = 0 /\ m.mispredict = FALSE
    BY DEF BusResult
  <2>3. load_q.valid => Exact(load_q.rob, load_q.value, 0, FALSE)
    BY DEF ExactInv, LoadExact
  <2> HIDE DEF m, req
  <2> QED BY <1>1, <2>1, <2>2, <2>3 DEF ExactReport
<1>4. ExactReport(req[2])
  <2> DEFINE m == BusResult(md_q.rob, md_q.value, md_q.writes, md_q.pdst)
  <2>1. req[2] = IF md_q.result_valid THEN m ELSE CdbQuiet
    BY DEF requests
  <2>2. /\ m.tag = md_q.rob /\ m.value = md_q.value /\ m.target = 0 /\ m.mispredict = FALSE
    BY DEF BusResult
  <2>3. md_q.result_valid => Exact(md_q.rob, md_q.value, 0, FALSE)
    BY DEF ExactInv, MulDivExact
  <2> HIDE DEF m, req
  <2> QED BY <1>1, <2>1, <2>2, <2>3 DEF ExactReport
<1>5. ExactReport(req[3])
  <2>1. req[3] = IF int0 # {} THEN executed(rs_q[Only(int0)]) ELSE CdbQuiet
    BY DEF requests
  <2>2. int0 # {} => Only(int0) \in int0 /\ rs_q[Only(int0)].uop.class \in {"alu", "control"}
    BY <1>2, IssueLanes DEF LaneIs
  <2>3. \A i \in int0 : rs_q[i].uop.class \in {"alu", "control"} => ExactReport(executed(rs_q[i]))
    BY LaneReports
  <2> QED BY <1>1, <2>1, <2>2, <2>3 DEF ExactReport
<1>6. ExactReport(req[4])
  <2>1. req[4] = IF int1 # {} THEN executed(rs_q[Only(int1)]) ELSE CdbQuiet
    BY DEF requests
  <2>2. int1 # {} => Only(int1) \in int1 /\ rs_q[Only(int1)].uop.class = "alu"
    BY <1>2, IssueLanes DEF LaneIs
  <2>3. \A i \in int1 : rs_q[i].uop.class \in {"alu", "control"} => ExactReport(executed(rs_q[i]))
    BY LaneReports
  <2> QED BY <1>1, <2>1, <2>2, <2>3 DEF ExactReport
<1>7. k = 1 \/ k = 2 \/ k = 3 \/ k = 4
  OBVIOUS
<1> HIDE DEF req
<1>8. ExactReport(req[k])
  BY <1>3, <1>4, <1>5, <1>6, <1>7
<1> QED BY <1>8 DEF req

LEMMA BusExact ==
  ASSUME CoreInv, ExactInv, NEW d, NEW cdb0, NEW cdb1, NEW accept, NEW answer,
         Edge(d, cdb0, cdb1, accept, answer)
  PROVE  ExactReport(cdb0) /\ ExactReport(cdb1)
<1> DEFINE req == requests(FALSE)
<1>1. cdb0 = lane(req, 1) /\ cdb1 = lane(req, 2)
  BY DEF Edge, Spoken
<1>2. Len(req) = 4
  BY DEF requests
<1>3. \A k \in 1 .. 4 : ExactReport(req[k])
  BY RequestsExact
<1> HIDE DEF req
<1>4. /\ \A n \in {1, 2} : \/ lane(req, n) = CdbQuiet
                           \/ \E k \in granted(req) : lane(req, n) = req[k]
      /\ \A k \in granted(req) : k \in 1 .. 4
  BY <1>2, BusLanes
<1>5. ExactReport(CdbQuiet)
  BY DEF CdbQuiet, ExactReport
<1> QED BY <1>1, <1>3, <1>4, <1>5

\* Address generation finds the address, and the word to store.
LEMMA AguExact ==
  ASSUME CoreInv, agu(FALSE).valid
  PROVE  \E j \in RsIndex :
           /\ rs_q[j].valid /\ agu(FALSE).index = rs_q[j].lsq
           /\ needs_lsq(rs_q[j].uop)
           /\ Addressed(rs_q[j].rob, agu(FALSE).addr, agu(FALSE).wdata)
<1> DEFINE o == Only(lsu_lane)
<1>1. RobTypeOK /\ ProgramOrder /\ CoreTypes /\ StationsOwned
  BY DEF CoreInv, RenameInv, RenameTypes, UnitsOwned
<1>2. /\ lsu_lane # {} /\ agu(FALSE).index = rs_q[o].lsq
      /\ agu(FALSE).addr = EffectiveAddr(rs_q[o].uop.ins, rs_q[o].src1.value)
      /\ agu(FALSE).wdata = rs_q[o].src2.value
  BY DEF agu
<1>3. o \in lsu_lane /\ rs_q[o].uop.class \in {"load", "store"}
  BY <1>1, <1>2, IssueLanes DEF LaneIs
<1> HIDE DEF o
<1>4. /\ o \in RsIndex /\ rs_q[o].valid
      /\ Inputs(rs_q[o].rob, rs_q[o].src1.value, rs_q[o].src2.value)
      /\ rob_q[rs_q[o].rob].uop = rs_q[o].uop
  BY <1>3, LanesReady, StationInputs
<1>5. Addressed(rs_q[o].rob, agu(FALSE).addr, agu(FALSE).wdata)
  BY <1>2, <1>4 DEF Addressed, Inputs
<1> QED BY <1>2, <1>3, <1>4, <1>5 DEF needs_lsq

(***************************************************************************)
(* The results that wait in the buffer over an ordinary edge.              *)
(***************************************************************************)
\* One bus lane reaching an entry, as far as its result goes.
LEMMA CompleteIs ==
  ASSUME NEW e \in Entry, NEW t, NEW m, LaneOK(m)
  PROVE  LET h == Complete(e, t, m)
         IN /\ h \in Entry /\ h.valid = e.valid /\ h.uop = e.uop /\ h.seq = e.seq
            /\ m.valid /\ m.tag = t /\ e.valid =>
                 /\ h.value = m.value
                 /\ m.control => h.control_complete /\ h.target = m.target
                                 /\ h.mispredict = m.mispredict
            /\ ~(m.valid /\ m.tag = t) => h = e
<1>1. Complete(e, t, m) \in Entry
  BY CompleteEntry
<1> QED BY <1>1 DEF Complete, Entry, LaneOK

\* A report reaches the entry it names, the younger lane's over the older one's;
\* an entry that is not named keeps its result.
LEMMA HeardIs ==
  ASSUME RobTypeOK, NEW t \in Tag, NEW cdb0, NEW cdb1, NEW done,
         LaneOK(cdb0), LaneOK(cdb1), rob_q[t].valid, rob_q[t].uop.class # "store"
  PROVE  LET e == StoreDone(Heard(t, cdb0, cdb1), t, done)
             Takes(m) == /\ m.valid /\ m.tag = t /\ e.value = m.value
                         /\ m.control => e.control_complete /\ e.target = m.target
                                         /\ e.mispredict = m.mispredict
         IN Takes(cdb0) \/ Takes(cdb1) \/ e = rob_q[t]
<1> DEFINE h0 == Complete(rob_q[t], t, cdb0)
           h1 == Complete(h0, t, cdb1)
<1>1. rob_q[t] \in Entry
  BY DEF RobTypeOK
<1>2. /\ h0 \in Entry /\ h0.valid = rob_q[t].valid /\ h0.uop = rob_q[t].uop
      /\ cdb0.valid /\ cdb0.tag = t =>
           /\ h0.value = cdb0.value
           /\ cdb0.control => h0.control_complete /\ h0.target = cdb0.target
                              /\ h0.mispredict = cdb0.mispredict
      /\ ~(cdb0.valid /\ cdb0.tag = t) => h0 = rob_q[t]
  <2>1. PICK e \in Entry : e = rob_q[t]
    BY <1>1
  <2> DEFINE h == Complete(e, t, cdb0)
  <2>2. /\ h \in Entry /\ h.valid = e.valid /\ h.uop = e.uop
        /\ cdb0.valid /\ cdb0.tag = t /\ e.valid =>
             /\ h.value = cdb0.value
             /\ cdb0.control => h.control_complete /\ h.target = cdb0.target
                                /\ h.mispredict = cdb0.mispredict
        /\ ~(cdb0.valid /\ cdb0.tag = t) => h = e
    BY CompleteIs
  <2>3. h0 = h
    BY <2>1
  <2> HIDE DEF h0, h
  <2> QED BY <2>1, <2>2, <2>3
<1> HIDE DEF h0
<1>3. /\ h1 \in Entry /\ h1.valid = h0.valid /\ h1.uop = h0.uop
      /\ cdb1.valid /\ cdb1.tag = t =>
           /\ h1.value = cdb1.value
           /\ cdb1.control => h1.control_complete /\ h1.target = cdb1.target
                              /\ h1.mispredict = cdb1.mispredict
      /\ ~(cdb1.valid /\ cdb1.tag = t) => h1 = h0
  BY <1>2, CompleteIs
<1> HIDE DEF h1
<1>4. StoreDone(h1, t, done) = h1
  BY <1>2, <1>3 DEF StoreDone
<1>5. StoreDone(Heard(t, cdb0, cdb1), t, done) = h1
  BY <1>4 DEF Heard, h0, h1
<1> QED BY <1>2, <1>3, <1>5

LEMMA ResultsExactStep ==
  ASSUME CoreInv, ExactInv, NEW d, NEW cdb0, NEW cdb1,
         NEW accept \in BOOLEAN, NEW answer \in BOOLEAN, Edge(d, cdb0, cdb1, accept, answer)
  PROVE  ResultsExact'
<1>1. RobTypeOK /\ ProgramOrder
  BY DEF CoreInv, RenameInv, RenameTypes
<1>2. /\ InputOK(renamed(d), cdb0, cdb1) /\ Len(renamed(d)) = Len(d)
      /\ Moves(renamed(d), Leaving, cdb0, cdb1, Completing)
      /\ BusOK(cdb0) /\ BusOK(cdb1) /\ Honest(cdb0) /\ Honest(cdb1)
  BY DEF Edge, Leaving, Spoken, RenameInput
<1>3. Leaving \in 0 .. 2 /\ Leaving <= count_q
  BY <1>1, CommittedAre DEF Leaving
<1>4. LaneOK(cdb0) /\ LaneOK(cdb1)
  BY <1>2 DEF InputOK
<1> SUFFICES ASSUME NEW t \in Tag PROVE ResultExact(t)'
  BY DEF ResultsExact
<1> SUFFICES ASSUME rob_q'[t].valid, rob_q'[t].ready, rob_q'[t].uop.class \in Reporting
             PROVE  /\ Exact(t, rob_q[t].value, rob_q[t].target, rob_q[t].mispredict)'
                    /\ rob_q'[t].uop.class = "control" => rob_q'[t].control_complete
  BY DEF ResultExact
<1>5. ASSUME Remains(t)
      PROVE  /\ Exact(t, rob_q[t].value, rob_q[t].target, rob_q[t].mispredict)'
             /\ rob_q'[t].uop.class = "control" => rob_q'[t].control_complete
  <2>1. /\ rob_q'[t].uop = rob_q[t].uop /\ rob_q[t].valid
        /\ Leaving <= Position(t) /\ Position(t) < count_q
    BY <1>5, StaysWhole DEF Remains
  <2>2. rob_q'[t] = StoreDone(Heard(t, cdb0, cdb1), t, Completing)
    BY <1>2, <2>1 DEF Moves
  <2>3. rob_q[t].uop.class # "store"
    BY <2>1 DEF Reporting
  <2> DEFINE Takes(m) == /\ m.valid /\ m.tag = t /\ rob_q'[t].value = m.value
                         /\ m.control => /\ rob_q'[t].control_complete
                                         /\ rob_q'[t].target = m.target
                                         /\ rob_q'[t].mispredict = m.mispredict
  <2>4. Takes(cdb0) \/ Takes(cdb1) \/ rob_q'[t] = rob_q[t]
    BY <1>1, <1>4, <2>1, <2>2, <2>3, HeardIs
  <2>5. ASSUME NEW m, Takes(m), Honest(m), ExactReport(m)
        PROVE  /\ Exact(t, rob_q[t].value, rob_q[t].target, rob_q[t].mispredict)'
               /\ rob_q'[t].uop.class = "control" => rob_q'[t].control_complete
    <3>1. m.control <=> rob_q[t].uop.class = "control"
      BY <2>5 DEF Honest
    <3>2. PICK y, z : y = rob_q'[t].target /\ z = rob_q'[t].mispredict
      OBVIOUS
    <3>3. Exact(t, m.value, m.target, m.mispredict)
      BY <2>5 DEF ExactReport
    <3>4. Exact(t, m.value, y, z)
      <4>1. rob_q[t].uop.class = "control" => y = m.target /\ z = m.mispredict
        BY <2>5, <3>1, <3>2
      <4> QED BY <3>3, <4>1 DEF Exact
    <3>5. PICK x : x = m.value
      OBVIOUS
    <3>6. Exact(t, x, y, z)'
      BY <1>5, <3>4, <3>5, ExactKept
    <3>7. x = rob_q'[t].value
      BY <2>5, <3>5
    <3>8. rob_q'[t].uop.class = "control" => rob_q'[t].control_complete
      BY <2>1, <2>5, <3>1
    <3> QED BY <3>2, <3>6, <3>7, <3>8
  <2>6. CASE rob_q'[t] = rob_q[t]
    <3>1. /\ Exact(t, rob_q[t].value, rob_q[t].target, rob_q[t].mispredict)
          /\ rob_q[t].uop.class = "control" => rob_q[t].control_complete
      BY <2>6 DEF ExactInv, ResultsExact, ResultExact
    <3>2. PICK x, y, z : x = rob_q[t].value /\ y = rob_q[t].target /\ z = rob_q[t].mispredict
      OBVIOUS
    <3>3. Exact(t, x, y, z)'
      BY <1>5, <3>1, <3>2, ExactKept
    <3> QED BY <2>6, <3>1, <3>2, <3>3
  <2> HIDE DEF Takes
  <2> QED BY <1>2, <2>4, <2>5, <2>6, BusExact
<1>6. ASSUME NEW k \in 1 .. Len(d), rob_q'[t].ready = ~renamed(d)[k].supported,
             rob_q'[t].uop = renamed(d)[k]
      PROVE  FALSE
  <2> DEFINE u == renamed(d)[k]
  <2>1. u.pc \in Data /\ u = RenamedTo(decode(u.pc, prog[u.pc]), u.pdst, u.old_pdst)
    BY NewFields
  <2>2. Fetched(u) /\ prog \in Programs
    BY <2>1 DEF Fetched, CoreInv, CoreTypes
  <2>3. u.class = ClassOf(prog[u.pc].op) /\ u.supported = (prog[u.pc].op # "illegal")
    BY <2>2, FetchedFields
  <2> QED BY <1>6, <2>3 DEF ClassOf, Reporting, Control
<1>7. \/ Remains(t)
      \/ Len(d) >= 1 /\ rob_q'[t].ready = ~renamed(d)[1].supported /\ rob_q'[t].uop = renamed(d)[1]
      \/ Len(d) = 2 /\ rob_q'[t].ready = ~renamed(d)[2].supported /\ rob_q'[t].uop = renamed(d)[2]
  <2> HIDE DEF Leaving
  <2> QED BY <1>1, <1>2, <1>3, InFlightAfter DEF Remains
<1>8. Remains(t)
  <2>1. Len(d) \in 0 .. 2
    BY EdgeBrings
  <2>2. \A m \in 0 .. 2 : (m >= 1 => 1 \in 1 .. m) /\ (m = 2 => 2 \in 1 .. m)
    OBVIOUS
  <2> QED BY <1>6, <1>7, <2>1, <2>2
<1> QED BY <1>5, <1>8

(***************************************************************************)
(* The units over an ordinary edge.                                        *)
(***************************************************************************)
LEMMA MulDivExactStep ==
  ASSUME CoreInv, ExactInv, NEW d, NEW cdb0, NEW cdb1,
         NEW accept \in BOOLEAN, NEW answer \in BOOLEAN, Edge(d, cdb0, cdb1, accept, answer)
  PROVE  MulDivExact'
<1> DEFINE start == m_start(FALSE)  g == 2 \in granted(requests(FALSE))
<1>1. MdTick(start, g, FALSE)
  BY DEF Edge, UnitsTick
<1>2. CASE start # {}
  <2>1. LaneIs(m_lane, {"muldiv"})
    BY IssueLanes DEF CoreInv, RenameInv, RenameTypes, UnitsOwned
  <2>2. PICK s : s \in start /\ md_q'.value = s.value /\ md_q'.rob = s.rob
    BY <1>1, <1>2 DEF MdTick
  <2>3. PICK i \in m_lane :
          s = [value |-> Result(rs_q[i].uop.ins, rs_q[i].uop.pc, rs_q[i].src1.value,
                                rs_q[i].src2.value),
               rob |-> rs_q[i].rob, pdst |-> rs_q[i].uop.pdst, writes |-> rs_q[i].uop.writes]
    BY <2>2 DEF m_start
  <2>4. i \in RsIndex /\ rs_q[i].valid /\ rs_q[i].uop.class = "muldiv"
    BY <2>1 DEF LaneIs
  <2>5. PICK t, x : /\ t = rs_q[i].rob
                    /\ x = Result(rs_q[i].uop.ins, rs_q[i].uop.pc, rs_q[i].src1.value,
                                  rs_q[i].src2.value)
    OBVIOUS
  <2>6. Exact(t, x, 0, FALSE)
    BY <2>4, <2>5, IssuedExact
  <2>7. Remains(t)
    BY <2>4, <2>5, UnitsRemain
  <2>8. Exact(t, x, 0, FALSE)'
    BY <2>6, <2>7, ExactKept
  <2>9. md_q'.rob = t /\ md_q'.value = x
    BY <2>2, <2>3, <2>5
  <2> QED BY <2>8, <2>9 DEF MulDivExact
<1>3. CASE start = {} /\ (md_q.computing \/ (md_q.result_valid /\ ~g))
  <2>1. PICK t, x : t = md_q.rob /\ x = md_q.value
    OBVIOUS
  <2>2. Exact(t, x, 0, FALSE) /\ Remains(t)
    BY <1>3, <2>1, UnitsRemain DEF ExactInv, MulDivExact
  <2>3. Exact(t, x, 0, FALSE)'
    BY <2>2, ExactKept
  <2>4. md_q'.rob = md_q.rob /\ md_q'.value = md_q.value
    <3>1. md_q \in Operations
      BY DEF CoreInv, CoreTypes
    <3> QED BY <1>1, <1>3, <3>1 DEF MdTick, Operations
  <2> QED BY <2>1, <2>3, <2>4 DEF MulDivExact
<1>4. CASE start = {} /\ ~md_q.computing /\ ~(md_q.result_valid /\ ~g)
  <2>1. ~md_q'.computing /\ ~md_q'.result_valid
    <3>1. md_q \in Operations
      BY DEF CoreInv, CoreTypes
    <3> QED BY <1>1, <1>4, <3>1 DEF MdTick, Operations, MdIdle
  <2> QED BY <2>1 DEF MulDivExact
<1> HIDE DEF start, g
<1> QED BY <1>2, <1>3, <1>4

\* The instruction of a request, and its queue entry.
LEMMA RequestIs ==
  ASSUME CoreInv, NEW d, NEW cdb0, NEW cdb1, NEW accept, NEW answer,
         Edge(d, cdb0, cdb1, accept, answer), req_q.pending \/ req_q.busy
  PROVE  LET i == req_q.index  t == req_q.rob
         IN /\ i \in LsqIndex /\ lsq_q[i].valid /\ lsq_q[i].rob = t /\ lsq_q[i].addr_valid
            /\ lsq_q[i].is_store = req_q.write
            /\ Remains(t) /\ rob_q[t].seq = lsq_q[i].seq
            /\ rob_q[t].uop.class = IF req_q.write THEN "store" ELSE "load"
<1> DEFINE i == req_q.index
<1>1. i \in LsqIndex
  BY DEF CoreInv, CoreTypes, Requests
<1>2. /\ lsq_q[i].valid /\ lsq_q[i].rob = req_q.rob /\ lsq_q[i].addr_valid
      /\ lsq_q[i].is_store = req_q.write
  BY DEF CoreInv, UnitsOwned, RequestOwned
<1>3. Remains(lsq_q[i].rob) /\ QueueOwned(lsq_q[i])
  BY <1>1, <1>2, UnitsRemain DEF CoreInv, UnitsOwned, QueuesOwned
<1> HIDE DEF i
<1>4. /\ rob_q[lsq_q[i].rob].seq = lsq_q[i].seq
      /\ rob_q[lsq_q[i].rob].uop.class = IF lsq_q[i].is_store THEN "store" ELSE "load"
  BY <1>3 DEF QueueOwned
<1> QED BY <1>1, <1>2, <1>3, <1>4 DEF i

LEMMA LoadExactStep ==
  ASSUME CoreInv, ExactInv, NEW d, NEW cdb0, NEW cdb1,
         NEW accept \in BOOLEAN, NEW answer \in BOOLEAN, Edge(d, cdb0, cdb1, accept, answer)
  PROVE  LoadExact'
<1>1. LoadNext(accept, answer)
  BY LsqEdge
<1>2. CASE answer /\ ~req_q.write
  <2>1. (req_q.pending \/ req_q.busy) /\ serving(accept).addr = req_q.addr
    BY <1>2, MemoryAfter
  <2>2. load_q'.rob = req_q.rob /\ load_q'.value = mem[req_q.addr]
    BY <1>1, <1>2, <2>1 DEF LoadNext
  <2>3. PICK t, x : t = req_q.rob /\ x = mem[req_q.addr]
    OBVIOUS
  <2>4. Addressed(t, req_q.addr, req_q.wdata) /\ NoOlder(lsq_q[req_q.index].seq)
    BY <1>2, <2>1, <2>3 DEF ExactInv, RequestExact
  <2>5. /\ Remains(t) /\ rob_q[t].seq = lsq_q[req_q.index].seq /\ rob_q[t].uop.class = "load"
    BY <1>2, <2>1, <2>3, RequestIs
  <2>6. Exact(t, x, 0, FALSE)
    <3>1. NoOlder(rob_q[t].seq)
      BY <2>4, <2>5
    <3> QED BY <2>3, <2>4, <2>5, <3>1 DEF Addressed, Exact
  <2>7. Exact(t, x, 0, FALSE)'
    BY <2>5, <2>6, ExactKept
  <2> QED BY <2>2, <2>3, <2>7 DEF LoadExact
<1>3. CASE ~(answer /\ ~req_q.write) /\ 1 \in granted(requests(FALSE))
  BY <1>1, <1>3 DEF LoadNext, NoLoad, LoadExact
<1>4. CASE ~(answer /\ ~req_q.write) /\ 1 \notin granted(requests(FALSE))
  <2>1. load_q' = load_q
    BY <1>1, <1>4 DEF LoadNext
  <2>2. PICK t, x : t = load_q.rob /\ x = load_q.value
    OBVIOUS
  <2>3. load_q.valid => Exact(t, x, 0, FALSE) /\ Remains(t)
    BY <1>4, <2>2, UnitsRemain DEF ExactInv, LoadExact
  <2>4. load_q.valid => Exact(t, x, 0, FALSE)'
    BY <2>3, ExactKept
  <2> QED BY <2>1, <2>2, <2>4 DEF LoadExact
<1> QED BY <1>2, <1>3, <1>4

LEMMA QueuesExactStep ==
  ASSUME CoreInv, ExactInv, NEW d, NEW cdb0, NEW cdb1,
         NEW accept \in BOOLEAN, NEW answer \in BOOLEAN, Edge(d, cdb0, cdb1, accept, answer)
  PROVE  QueuesExact'
<1> SUFFICES ASSUME NEW i \in LsqIndex, lsq_q'[i].valid, lsq_q'[i].addr_valid
             PROVE  Addressed(lsq_q[i].rob, lsq_q[i].addr, lsq_q[i].wdata)'
  BY DEF QueuesExact
<1>1. LsqNext(d, accept, answer) /\ QueuesOwned /\ StationsOwned
  BY LsqEdge DEF CoreInv, UnitsOwned
<1>2. QueueStays(i) /\ ~(answer /\ i = req_q.index) /\ i \notin DOMAIN lsq_new(d)
  <2>1. lsq_q'[i] # LsqFree
    BY DEF LsqFree
  <2>2. \A k \in ToQueue(d) : i # lsq_index(d, k)
    <3> SUFFICES ASSUME NEW k \in ToQueue(d), i = lsq_index(d, k) PROVE FALSE
      OBVIOUS
    <3>1. QueueFresh(i, k, d)
      BY QueueAfter
    <3> QED BY <3>1, FreshEntries
  <2>3. DOMAIN lsq_new(d) = {lsq_index(d, k) : k \in ToQueue(d)}
    <3>1. Len(d) \in 0 .. 2 /\ (Len(d) >= 1 => fits(d))
      BY DEF Edge, Bundled
    <3> QED BY <3>1, QueuePlaces
  <2> QED BY <2>1, <2>2, <2>3, QueueAfter
<1>3. /\ lsq_q[i].valid /\ lsq_q'[i].rob = lsq_q[i].rob /\ Remains(lsq_q[i].rob)
  BY <1>2, UnitsRemain DEF QueueStays
<1>4. PICK t, a, w : t = lsq_q[i].rob /\ a = lsq_q'[i].addr /\ w = lsq_q'[i].wdata
  OBVIOUS
<1>5. Addressed(t, a, w)
  <2>1. lsq_q[i] \in QueueEntries
    BY <1>3 DEF CoreInv, CoreTypes, LsqFree
  <2>2. CASE lsq_q'[i] = lsq_q[i] \/ lsq_q'[i] = [lsq_q[i] EXCEPT !.issued = TRUE]
    <3>1. /\ lsq_q[i].addr_valid /\ a = lsq_q[i].addr /\ w = lsq_q[i].wdata
      BY <1>4, <2>1, <2>2 DEF QueueEntries
    <3> QED BY <1>3, <1>4, <3>1 DEF ExactInv, QueuesExact
  <2>3. CASE /\ agu(FALSE).valid /\ i = agu(FALSE).index
             /\ lsq_q'[i] = [lsq_q[i] EXCEPT !.addr_valid = TRUE, !.addr = agu(FALSE).addr,
                                             !.wdata = agu(FALSE).wdata]
    <3>1. a = agu(FALSE).addr /\ w = agu(FALSE).wdata
      BY <1>4, <2>1, <2>3 DEF QueueEntries
    <3>2. PICK j \in RsIndex : /\ rs_q[j].valid /\ agu(FALSE).index = rs_q[j].lsq
                               /\ needs_lsq(rs_q[j].uop)
                               /\ Addressed(rs_q[j].rob, agu(FALSE).addr, agu(FALSE).wdata)
      BY <2>3, AguExact
    <3>3. lsq_q[rs_q[j].lsq].rob = rs_q[j].rob
      BY <1>1, <3>2 DEF StationsOwned, StationOwned
    <3> QED BY <1>4, <2>3, <3>1, <3>2, <3>3
  <2> QED BY <1>1, <1>2, <2>2, <2>3 DEF LsqNext
<1>6. Addressed(t, a, w)'
  BY <1>3, <1>4, <1>5, AddressedKept
<1> QED BY <1>3, <1>4, <1>6

LEMMA RequestExactStep ==
  ASSUME CoreInv, ExactInv, NEW d, NEW cdb0, NEW cdb1,
         NEW accept \in BOOLEAN, NEW answer \in BOOLEAN, Edge(d, cdb0, cdb1, accept, answer)
  PROVE  RequestExact'
<1>1. /\ RequestNext(accept, answer) /\ (Candidate # {} => ~accept /\ ~answer)
  BY LsqEdge
<1>2. CoreTypes /\ RobTypeOK /\ ProgramOrder /\ QueuesOwned
  BY DEF CoreInv, RenameInv, RenameTypes, UnitsOwned
\* A request for entry i of an instruction that stays, with nothing older.
<1>3. ASSUME NEW i \in LsqIndex, lsq_q[i].valid, ~(answer /\ i = req_q.index),
             NEW a, NEW w, NEW write, Addressed(lsq_q[i].rob, a, w),
             ~write => NoOlder(lsq_q[i].seq),
             req_q'.index = i, req_q'.rob = lsq_q[i].rob, req_q'.addr = a, req_q'.wdata = w,
             req_q'.write = write
      PROVE  RequestExact'
  <2>1. QueueStays(i) /\ Remains(lsq_q[i].rob)
    BY <1>3, QueueAfter, UnitsRemain
  <2>2. PICK t, s : t = lsq_q[i].rob /\ s = lsq_q[i].seq
    OBVIOUS
  <2>3. Addressed(t, a, w)'
    BY <1>3, <2>1, <2>2, AddressedKept
  <2>4. s \in Nat /\ s < next_seq_q
    <3>1. Uncompleted(t) /\ rob_q[t].seq = s
      BY <1>2, <1>3, <2>2 DEF QueuesOwned, QueueOwned
    <3> QED BY <1>2, <3>1, SeqNames DEF Uncompleted
  <2>5. ~write => NoOlder(s)'
    BY <1>3, <2>2, <2>4, NoOlderKept
  <2>6. lsq_q'[i].seq = s
    BY <2>1, <2>2 DEF QueueStays
  <2>7. Addressed(req_q.rob, req_q.addr, req_q.wdata)'
    BY <1>3, <2>2, <2>3
  <2>8. ~req_q'.write => NoOlder(lsq_q[req_q.index].seq)'
    BY <1>3, <2>5, <2>6 DEF NoOlder
  <2> QED BY <2>7, <2>8 DEF RequestExact
<1>4. CASE Candidate # {}
  <2>1. PICK i : /\ i \in Candidate
                 /\ req_q' = [pending |-> TRUE, busy |-> FALSE, write |-> lsq_q[i].is_store,
                              index |-> i, addr |-> lsq_q[i].addr, wdata |-> lsq_q[i].wdata,
                              rob |-> lsq_q[i].rob, pdst |-> lsq_q[i].pdst,
                              writes |-> lsq_q[i].writes]
    BY <1>1, <1>4 DEF RequestNext
  <2>2. /\ i \in LsqIndex /\ lsq_q[i].valid /\ lsq_q[i].addr_valid
        /\ ~lsq_q[i].is_store => ~older_access(i)
    BY <2>1 DEF Candidate, candidate, Unissued
  <2>3. Addressed(lsq_q[i].rob, lsq_q[i].addr, lsq_q[i].wdata)
    BY <2>2 DEF ExactInv, QueuesExact
  <2>4. ~lsq_q[i].is_store => NoOlder(lsq_q[i].seq)
    <3>1. \A j \in LsqIndex : lsq_q[j].valid => lsq_q[j].seq \in Nat
      <4> SUFFICES ASSUME NEW j \in LsqIndex, lsq_q[j].valid PROVE lsq_q[j].seq \in Nat
        OBVIOUS
      <4>1. lsq_q[j] \in QueueEntries
        BY <1>2 DEF CoreTypes, LsqFree
      <4> QED BY <4>1 DEF QueueEntries
    <3> QED BY <2>2, <3>1 DEF older_access, NoOlder
  <2>5. PICK a, w, write : a = lsq_q[i].addr /\ w = lsq_q[i].wdata /\ write = lsq_q[i].is_store
    OBVIOUS
  <2>6. /\ req_q'.index = i /\ req_q'.rob = lsq_q[i].rob /\ req_q'.addr = a /\ req_q'.wdata = w
        /\ req_q'.write = write
    BY <2>1, <2>5
  <2> QED BY <1>1, <1>3, <1>4, <2>2, <2>3, <2>4, <2>5, <2>6
<1>5. CASE Candidate = {} /\ answer
  BY <1>1, <1>5 DEF RequestNext, NoRequest, RequestExact
<1>6. CASE Candidate = {} /\ ~answer /\ (req_q.pending \/ req_q.busy)
  <2>1. /\ req_q'.index = req_q.index /\ req_q'.rob = req_q.rob /\ req_q'.addr = req_q.addr
        /\ req_q'.wdata = req_q.wdata /\ req_q'.write = req_q.write
    <3>1. req_q \in Requests
      BY <1>2 DEF CoreTypes
    <3> QED BY <1>1, <1>6, <3>1 DEF RequestNext, Requests
  <2>2. /\ Addressed(req_q.rob, req_q.addr, req_q.wdata)
        /\ ~req_q.write => NoOlder(lsq_q[req_q.index].seq)
    BY <1>6 DEF ExactInv, RequestExact
  <2>3. /\ req_q.index \in LsqIndex /\ lsq_q[req_q.index].valid
        /\ lsq_q[req_q.index].rob = req_q.rob
    BY <1>6, RequestIs
  <2>4. PICK i, a, w, write :
          /\ i = req_q.index /\ a = req_q.addr /\ w = req_q.wdata /\ write = req_q.write
    OBVIOUS
  <2> QED BY <1>3, <1>6, <2>1, <2>2, <2>3, <2>4
<1>7. CASE Candidate = {} /\ ~answer /\ ~(req_q.pending \/ req_q.busy)
  <2>1. ~accept
    BY <1>7, MemoryAfter
  <2> QED BY <1>1, <1>7, <2>1 DEF RequestNext, RequestExact
<1> QED BY <1>4, <1>5, <1>6, <1>7

\* A store that is not in the queue is at the head, where it was before the edge:
\* it had left the queue already, or memory performs it now.
LEMMA StoresLeave ==
  ASSUME CoreInv, ExactInv, NEW d, NEW cdb0, NEW cdb1,
         NEW accept \in BOOLEAN, NEW answer \in BOOLEAN, Edge(d, cdb0, cdb1, accept, answer),
         NEW t \in Tag, rob_q'[t].valid, rob_q'[t].uop.class = "store", NoQueue(t)'
  PROVE  /\ t = head_q /\ Leaving = 0 /\ head_q' = head_q /\ Remains(t)
         /\ NoQueue(t) \/ Performs(answer)
<1>1. RobTypeOK /\ ProgramOrder /\ QueuesOwned
  BY DEF CoreInv, RenameInv, RenameTypes, UnitsOwned
<1>2. /\ InputOK(renamed(d), cdb0, cdb1) /\ Len(renamed(d)) = Len(d)
      /\ Moves(renamed(d), Leaving, cdb0, cdb1, Completing)
      /\ head_q' = After(head_q, Leaving)
  BY DEF Edge, Leaving
<1>3. Leaving \in 0 .. 2 /\ Leaving <= count_q
  BY <1>1, CommittedAre DEF Leaving
<1>4. ASSUME NEW k \in 1 .. Len(d), t = After(tail_q, k - 1) PROVE FALSE
  <2>1. rob_q'[t].uop = renamed(d)[k] /\ renamed(d)[k].class = d[k].class
    BY <1>4, EdgeBrings, NewFields DEF Comes
  <2>2. k \in ToQueue(d)
    BY <2>1 DEF ToQueue, needs_lsq
  <2>3. QueueFresh(lsq_index(d, k), k, d)
    <3>1. \A j \in ToQueue(d) : QueueFresh(lsq_index(d, j), j, d)
      BY QueueAfter
    <3> QED BY <2>2, <3>1
  <2>4. PICK i : i = lsq_index(d, k)
    OBVIOUS
  <2>5. i \in LsqIndex /\ lsq_q'[i].valid /\ lsq_q'[i].rob = t
    BY <1>4, <2>3, <2>4, FreshEntries
  <2> QED BY <2>5 DEF NoQueue
<1>5. Remains(t)
  <2>1. \/ Remains(t)
        \/ Len(d) >= 1 /\ Position(t) = count_q
        \/ Len(d) = 2 /\ Position(t) = count_q + 1
    <3> HIDE DEF Leaving
    <3> QED BY <1>1, <1>2, <1>3, InFlightAfter DEF Remains
  <2>2. \A k \in 1 .. Len(d) : /\ After(tail_q, k - 1) \in Tag
                               /\ Position(After(tail_q, k - 1)) = count_q + k - 1
    BY EdgeBrings DEF Comes
  <2>3. \A u \in Tag : Position(u) = Position(t) => u = t
    BY <1>1, Positions
  <2>4. Len(d) \in 0 .. 2 /\ count_q \in Nat
    BY <1>1, EdgeBrings DEF RobTypeOK
  <2>5. \A k \in 1 .. Len(d) : Position(t) # count_q + k - 1
    BY <1>4, <2>2, <2>3
  <2>6. ~(Len(d) >= 1 /\ Position(t) = count_q)
    <3>1. Len(d) >= 1 => 1 \in 1 .. Len(d) /\ count_q + 1 - 1 = count_q
      BY <2>4
    <3> QED BY <2>5, <3>1
  <2>7. ~(Len(d) = 2 /\ Position(t) = count_q + 1)
    <3>1. Len(d) = 2 => 2 \in 1 .. Len(d) /\ count_q + 2 - 1 = count_q + 1
      BY <2>4
    <3> QED BY <2>5, <3>1
  <2> QED BY <2>1, <2>6, <2>7
<1>6. rob_q[t].valid /\ rob_q[t].uop.class = "store"
  BY <1>5, StaysWhole DEF Remains
<1>7. CASE NoQueue(t)
  <2>1. t = head_q
    BY <1>6, <1>7 DEF ExactInv, StoresQueued
  <2> QED BY <1>1, <1>2, <1>3, <1>5, <1>7, <2>1, Positions DEF Remains, After, Tag
<1>8. CASE ~NoQueue(t)
  <2>1. PICK i \in LsqIndex : lsq_q[i].valid /\ lsq_q[i].rob = t
    BY <1>8 DEF NoQueue
  <2>2. answer /\ i = req_q.index
    <3> SUFFICES ASSUME ~(answer /\ i = req_q.index) PROVE FALSE
      OBVIOUS
    <3>1. QueueStays(i)
      BY <2>1, QueueAfter
    <3> QED BY <2>1, <3>1 DEF QueueStays, NoQueue
  <2>3. (req_q.pending \/ req_q.busy) /\ req_q.rob = t
    BY <2>1, <2>2, MemoryAfter, RequestIs
  <2>4. req_q.write
    BY <1>6, <2>3, RequestIs
  <2>5. Performs(answer)
    BY <2>2, <2>4 DEF Performs
  <2>6. t = head_q /\ Leaving = 0
    BY <2>3, <2>5, StoreAlone
  <2>7. head_q' = head_q
    BY <1>1, <1>2, <2>6, RobDepthAssumption DEF RobTypeOK, After, Tag
  <2> QED BY <1>5, <2>5, <2>6, <2>7
<1> QED BY <1>7, <1>8

LEMMA StoresQueuedStep ==
  ASSUME CoreInv, ExactInv, NEW d, NEW cdb0, NEW cdb1,
         NEW accept \in BOOLEAN, NEW answer \in BOOLEAN, Edge(d, cdb0, cdb1, accept, answer)
  PROVE  StoresQueued'
<1> SUFFICES ASSUME NEW t \in Tag, rob_q'[t].valid, rob_q'[t].uop.class = "store", NoQueue(t)'
             PROVE  t = head_q'
  BY DEF StoresQueued
<1> QED BY StoresLeave

(***************************************************************************)
(* The program counters over an ordinary edge: the positions move up, and  *)
(* the dispatched instructions follow those in flight.                     *)
(***************************************************************************)
LEMMA PlusNext ==
  ASSUME NEW f \in Data
  PROVE  /\ plus(f, 0) = f /\ plus(f, 1) = pc_plus_4(f)
         /\ plus(f, 2) = pc_plus_4(plus(f, 1))
<1>1. WORDS \in Nat /\ WORDS >= 2 /\ f \in Nat /\ f < WORDS
  BY WordsAssumption DEF Data
<1>2. \A x \in Nat : x < WORDS => x % WORDS = x
  BY <1>1
<1>3. \A x \in Nat : x >= WORDS /\ x < WORDS + WORDS => x % WORDS = x - WORDS
  BY <1>1
<1>4. f + 0 = f /\ (f + 0) % WORDS = f
  BY <1>1, <1>2
<1>5. (f + 2) % WORDS = (((f + 1) % WORDS) + 1) % WORDS
  <2>1. CASE f + 2 < WORDS
    <3>1. (f + 1) % WORDS = f + 1 /\ f + 1 \in Nat
      BY <1>1, <1>2, <2>1
    <3>2. f + 1 + 1 = f + 2
      BY <1>1
    <3> QED BY <3>1, <3>2
  <2>2. CASE f + 2 = WORDS
    <3>1. (f + 1) % WORDS = f + 1 /\ f + 1 \in Nat
      BY <1>1, <1>2, <2>2
    <3>2. f + 1 + 1 = f + 2
      BY <1>1
    <3> QED BY <3>1, <3>2
  <2>3. CASE f + 1 = WORDS
    <3>1. (f + 1) % WORDS = 0
      BY <1>1, <1>3, <2>3
    <3>2. (f + 2) % WORDS = 1
      BY <1>1, <1>3, <2>3
    <3>3. (0 + 1) % WORDS = 1
      BY <1>1, <1>2
    <3> QED BY <3>1, <3>2, <3>3
  <2> QED BY <1>1, <2>1, <2>2, <2>3
<1> QED BY <1>4, <1>5 DEF plus, pc_plus_4

LEMMA PcUnique ==
  ASSUME CoreInv, NEW m, NEW x, NEW y, PcIs(m, x), PcIs(m, y)
  PROVE  x = y
<1>1. RobTypeOK /\ ProgramOrder
  BY DEF CoreInv, RenameInv, RenameTypes
<1>2. \A t \in Tag : rob_q[t].valid => Position(t) # count_q
  BY <1>1, Positions DEF ProgramOrder, RobTypeOK
<1> QED BY <1>1, <1>2, Positions DEF PcIs

\* The instruction at position m after the edge was in flight at position
\* Leaving + m before, or is one of those dispatched or the next to be fetched.
LEMMA PcMoves ==
  ASSUME CoreInv, NEW d, NEW cdb0, NEW cdb1, NEW accept, NEW answer,
         Edge(d, cdb0, cdb1, accept, answer), NEW m \in Nat, NEW x, PcIs(m, x)'
  PROVE  \/ Leaving + m < count_q /\ PcIs(Leaving + m, x)
         \/ \E k \in 1 .. Len(d) + 1 : Leaving + m = count_q + k - 1 /\ x = plus(fetch_pc, k - 1)
<1>1. RobTypeOK /\ ProgramOrder /\ fetch_pc \in Data
  BY DEF CoreInv, RenameInv, RenameTypes, CoreTypes
<1>2. /\ InputOK(renamed(d), cdb0, cdb1) /\ Len(renamed(d)) = Len(d)
      /\ Moves(renamed(d), Leaving, cdb0, cdb1, Completing)
      /\ fetch_pc' = plus(fetch_pc, Len(d))
  BY DEF Edge, Leaving
<1>3. /\ Leaving \in 0 .. 2 /\ Leaving <= count_q /\ count_q \in Nat
      /\ Len(d) \in 0 .. 2
  BY <1>1, CommittedAre, EdgeBrings DEF Leaving, RobTypeOK
<1>4. count_q' = count_q + Len(d) - Leaving
  BY <1>2 DEF Moves
<1>5. CASE m = count_q' /\ x = fetch_pc'
  <2>1. PICK k : k = Len(d) + 1
    OBVIOUS
  <2>2. k \in 1 .. Len(d) + 1 /\ Leaving + m = count_q + k - 1 /\ k - 1 = Len(d)
    BY <1>3, <1>4, <1>5, <2>1
  <2> QED BY <1>2, <1>5, <2>2
<1>6. ASSUME NEW t \in Tag, rob_q'[t].valid, Position(t)' = m, x = rob_q'[t].uop.pc
      PROVE  \/ Leaving + m < count_q /\ PcIs(Leaving + m, x)
             \/ \E k \in 1 .. Len(d) : Leaving + m = count_q + k - 1 /\ x = plus(fetch_pc, k - 1)
  <2>1. Position(t) \in Nat
    BY <1>1, Positions
  <2>2. CASE Leaving <= Position(t) /\ Position(t) < count_q
    <3>1. Remains(t)
      BY <1>1, <2>2 DEF Remains, ProgramOrder
    <3>2. rob_q'[t].uop = rob_q[t].uop /\ Position(t)' = Position(t) - Leaving /\ rob_q[t].valid
      BY <3>1, StaysWhole DEF Remains
    <3>3. Leaving + m = Position(t)
      BY <1>3, <1>6, <2>1, <3>2
    <3> QED BY <1>6, <2>2, <3>2, <3>3 DEF PcIs
  <2>3. ASSUME NEW k \in 1 .. Len(d), rob_q'[t].uop = renamed(d)[k],
               Position(t)' = count_q + k - 1 - Leaving
        PROVE  Leaving + m = count_q + k - 1 /\ x = plus(fetch_pc, k - 1)
    <3>1. d[k] = decode(plus(fetch_pc, k - 1), prog[plus(fetch_pc, k - 1)])
      BY DEF Edge, Bundled
    <3>2. renamed(d)[k] = RenamedTo(d[k], renamed(d)[k].pdst, renamed(d)[k].old_pdst)
      BY DEF Edge
    <3>3. \A pc, i, p, q : RenamedTo(decode(pc, i), p, q).pc = pc
      BY DEF RenamedTo, decode
    <3>4. renamed(d)[k].pc = plus(fetch_pc, k - 1)
      BY <3>1, <3>2, <3>3
    <3>5. k \in Nat /\ Position(t)' = m
      BY <1>3, <1>6
    <3> QED BY <1>3, <1>6, <2>3, <3>4, <3>5
  <2>4. \/ Leaving <= Position(t) /\ Position(t) < count_q
        \/ /\ Len(d) >= 1 /\ rob_q'[t].uop = renamed(d)[1] /\ Position(t)' = count_q - Leaving
        \/ /\ Len(d) = 2 /\ rob_q'[t].uop = renamed(d)[2] /\ Position(t)' = count_q + 1 - Leaving
    BY <1>1, <1>2, <1>3, <1>6, InFlightAfter
  <2>5. \A c, l \in Nat : c - l = c + 1 - 1 - l /\ c + 1 - l = c + 2 - 1 - l
    OBVIOUS
  <2>6. \A l \in 0 .. 2 : (l >= 1 => 1 \in 1 .. l) /\ (l = 2 => 2 \in 1 .. l)
    OBVIOUS
  <2>7. Leaving \in Nat
    BY <1>3
  <2>8. CASE Len(d) >= 1 /\ rob_q'[t].uop = renamed(d)[1] /\ Position(t)' = count_q - Leaving
    BY <1>3, <2>3, <2>5, <2>6, <2>7, <2>8
  <2>9. CASE Len(d) = 2 /\ rob_q'[t].uop = renamed(d)[2] /\ Position(t)' = count_q + 1 - Leaving
    BY <1>3, <2>3, <2>5, <2>6, <2>7, <2>9
  <2> QED BY <2>2, <2>4, <2>8, <2>9
<1>7. \A k \in 1 .. Len(d) : k \in 1 .. Len(d) + 1
  BY <1>3
<1>8. \/ \E t \in Tag : rob_q'[t].valid /\ Position(t)' = m /\ x = rob_q'[t].uop.pc
      \/ m = count_q' /\ x = fetch_pc'
  BY DEF PcIs
<1> QED BY <1>5, <1>6, <1>7, <1>8

LEMMA PcsFollowStep ==
  ASSUME CoreInv, ExactInv, NEW d, NEW cdb0, NEW cdb1, NEW accept, NEW answer,
         Edge(d, cdb0, cdb1, accept, answer)
  PROVE  PcsFollow'
<1> SUFFICES ASSUME NEW m \in Nat, NEW x \in Data, NEW y \in Data, PcIs(m, x)', PcIs(m + 1, y)'
             PROVE  y = pc_plus_4(x)
  BY DEF PcsFollow
<1>1. Leaving \in Nat /\ Leaving <= count_q /\ count_q \in Nat /\ fetch_pc \in Data
  BY CommittedAre DEF CoreInv, RenameInv, RenameTypes, CoreTypes, Leaving, RobTypeOK
<1>2. Len(d) \in 0 .. 2
  BY EdgeBrings
<1> DEFINE Old(j, z) == Leaving + j < count_q /\ PcIs(Leaving + j, z)
           New(j, z) == \E k \in 1 .. Len(d) + 1 : /\ Leaving + j = count_q + k - 1
                                                   /\ z = plus(fetch_pc, k - 1)
<1>3. /\ Old(m, x) \/ New(m, x)
      /\ Old(m + 1, y) \/ New(m + 1, y)
  BY PcMoves
<1>4. CASE Old(m, x) /\ Old(m + 1, y)
  <2>1. PICK j \in Nat : j = Leaving + m
    BY <1>1
  <2>2. PcIs(j, x) /\ PcIs(j + 1, y)
    <3>1. Leaving + (m + 1) = j + 1
      BY <1>1, <2>1
    <3> QED BY <1>4, <2>1, <3>1
  <2> QED BY <2>2 DEF ExactInv, PcsFollow
<1>5. CASE Old(m, x) /\ New(m + 1, y)
  <2>1. PICK j \in Nat : j = Leaving + m
    BY <1>1
  <2>2. PICK k \in 1 .. Len(d) + 1 : Leaving + (m + 1) = count_q + k - 1 /\ y = plus(fetch_pc, k - 1)
    BY <1>5
  <2>3. k = 1 /\ j + 1 = count_q
    BY <1>1, <1>2, <1>5, <2>1, <2>2
  <2>4. y = fetch_pc
    BY <1>1, <2>2, <2>3, PlusNext
  <2>5. PcIs(j, x) /\ PcIs(j + 1, y)
    BY <1>5, <2>1, <2>3, <2>4 DEF PcIs
  <2> QED BY <2>5 DEF ExactInv, PcsFollow
<1>6. CASE New(m, x)
  <2>1. PICK k \in 1 .. Len(d) + 1 : Leaving + m = count_q + k - 1 /\ x = plus(fetch_pc, k - 1)
    BY <1>6
  <2>2. ~Old(m + 1, y)
    BY <1>1, <1>2, <2>1
  <2>3. PICK l \in 1 .. Len(d) + 1 : Leaving + (m + 1) = count_q + l - 1 /\ y = plus(fetch_pc, l - 1)
    BY <1>3, <2>2
  <2>4. (k = 1 /\ l = 2) \/ (k = 2 /\ l = 3)
    <3>1. k \in Nat /\ l \in Nat /\ l <= 3 /\ 1 <= k
      <4>1. \A n \in 0 .. 2 : \A j \in 1 .. n + 1 : j \in Nat /\ j <= 3 /\ 1 <= j
        OBVIOUS
      <4> QED BY <1>2, <4>1
    <3>2. l = k + 1
      BY <1>1, <2>1, <2>3, <3>1
    <3> QED BY <3>1, <3>2
  <2> QED BY <1>1, <2>1, <2>3, <2>4, PlusNext
<1> QED BY <1>3, <1>4, <1>5, <1>6

(***************************************************************************)
(* The invariant.                                                          *)
(***************************************************************************)
\* With nothing in flight there is nothing to say.
LEMMA EmptyExact ==
  Empty /\ count_q = 0 => ExactInv
<1> SUFFICES ASSUME Empty, count_q = 0 PROVE ExactInv
  OBVIOUS
<1>1. /\ \A t \in Tag : ~rob_q[t].valid
      /\ \A i \in LsqIndex : ~lsq_q[i].valid
      /\ ~req_q.pending /\ ~req_q.busy /\ ~load_q.valid /\ ~md_q.computing /\ ~md_q.result_valid
  BY DEF Empty, LsqFree, NoRequest, NoLoad, MdIdle
<1>2. ResultsExact /\ MulDivExact /\ LoadExact /\ QueuesExact /\ RequestExact /\ StoresQueued
  BY <1>1 DEF ResultsExact, ResultExact, MulDivExact, LoadExact, QueuesExact, RequestExact,
     StoresQueued
<1>3. \A m \in Nat : \A x, y \in Data : ~(PcIs(m, x) /\ PcIs(m + 1, y))
  BY <1>1 DEF PcIs
<1> QED BY <1>2, <1>3 DEF ExactInv, PcsFollow

LEMMA EmptyExactNext == Empty' /\ count_q' = 0 => ExactInv'
<1> DEFINE Idle == Empty /\ count_q = 0
<1>1. Idle => ExactInv
  BY EmptyExact
<1>2. Empty' /\ count_q' = 0 => Idle'
  OBVIOUS
<1> HIDE DEF Idle
<1> QED BY <1>1, <1>2, PTL

LEMMA ExactEdge ==
  ASSUME CoreInv, ExactInv, NEW d, NEW cdb0, NEW cdb1,
         NEW accept \in BOOLEAN, NEW answer \in BOOLEAN, Edge(d, cdb0, cdb1, accept, answer)
  PROVE  ExactInv'
<1>1. ResultsExact' /\ MulDivExact' /\ LoadExact'
  BY ResultsExactStep, MulDivExactStep, LoadExactStep
<1>2. QueuesExact' /\ RequestExact'
  BY QueuesExactStep, RequestExactStep
<1>3. StoresQueued' /\ PcsFollow'
  BY StoresQueuedStep, PcsFollowStep
<1> QED BY <1>1, <1>2, <1>3 DEF ExactInv

LEMMA ExactInvStep == CoreInv /\ ExactInv /\ [CoreNext]_coreVars => ExactInv'
<1>1. ASSUME CoreInv, ExactInv, CoreNext PROVE ExactInv'
  <2>1. PICK avail \in 0 .. 2, accept \in BOOLEAN, answer \in BOOLEAN : Cycle(avail, accept, answer)
    BY <1>1 DEF CoreNext
  <2>2. CASE recovery(fence_complete)
    <3>1. Empty' /\ count_q' = 0
      BY <1>1, <2>1, <2>2, FlushStep
    <3> QED BY <3>1, EmptyExactNext
  <2>3. CASE ~recovery(fence_complete)
    <3>1. PICK d, cdb0, cdb1 : Edge(d, cdb0, cdb1, accept, answer)
      BY <1>1, <2>1, <2>3, CycleIsEdge
    <3> QED BY <1>1, <3>1, ExactEdge
  <2> QED BY <2>2, <2>3
<1>2. ASSUME ExactInv, UNCHANGED coreVars PROVE ExactInv'
  <2>1. /\ UNCHANGED renameVars /\ UNCHANGED lsqVars
        /\ md_q' = md_q /\ fetch_pc' = fetch_pc /\ mem' = mem
    BY <1>2 DEF coreVars
  <2>2. /\ rob_q' = rob_q /\ head_q' = head_q /\ count_q' = count_q /\ amt' = amt
        /\ reg_value' = reg_value /\ reg_ready' = reg_ready
        /\ lsq_q' = lsq_q /\ req_q' = req_q /\ load_q' = load_q
    BY <2>1 DEF renameVars, robVars, ratVars, regVars, lsqVars
  <2>3. \A r, m, p : Names(r, m, p)' <=> Names(r, m, p)
    BY <2>2 DEF Names, NoneBefore, Youngest, WritersOf, Writers, Dst, Position
  <2>4. \A r, m, v : Reads(r, m, v)' <=> Reads(r, m, v)
    BY <2>2, <2>3 DEF Reads
  <2>5. \A t, v, w : Inputs(t, v, w)' <=> Inputs(t, v, w)
    BY <2>2, <2>4 DEF Inputs, Position
  <2>6. \A s : NoOlder(s)' <=> NoOlder(s)
    BY <2>2 DEF NoOlder
  <2>7. \A t, x, y, z : Exact(t, x, y, z)' <=> Exact(t, x, y, z)
    BY <2>1, <2>2, <2>5, <2>6 DEF Exact
  <2>8. \A t, a, w : Addressed(t, a, w)' <=> Addressed(t, a, w)
    BY <2>2, <2>5 DEF Addressed
  <2>9. ResultsExact' /\ MulDivExact' /\ LoadExact'
    BY <1>2, <2>1, <2>2, <2>7 DEF ExactInv, ResultsExact, ResultExact, MulDivExact, LoadExact
  <2>10. QueuesExact' /\ RequestExact' /\ StoresQueued'
    BY <1>2, <2>2, <2>6, <2>8 DEF ExactInv, QueuesExact, RequestExact, StoresQueued, NoQueue
  <2>11. PcsFollow'
    BY <1>2, <2>1, <2>2 DEF ExactInv, PcsFollow, PcIs, Position
  <2> QED BY <2>9, <2>10, <2>11 DEF ExactInv
<1> QED BY <1>1, <1>2

LEMMA ExactInits == CoreInit => ExactInv
<1>1. CoreInit => Empty /\ count_q = 0
  BY DEF CoreInit, RenameInit, RobInit, EmptyEntry, RsInit, LsqInit, MdInit, DmIdle, Empty
<1> QED BY <1>1, EmptyExact

LEMMA ExactInvariant == CoreSpec => [](CoreInv /\ ExactInv)
BY CoreInits, CoreInvStep, ExactInits, ExactInvStep, PTL DEF CoreSpec
----------------------------------------------------------------------------
(***************************************************************************)
(* The refinement.  What retires takes the sequential machine's step: its  *)
(* operands are those of the registers under the committed map.            *)
(***************************************************************************)
\* An instruction computes from the operands that it uses.
LEMMA OperandsMatter ==
  ASSUME prog \in Programs, NEW u, Fetched(u), NEW v1, NEW v2, NEW w1, NEW w2,
         u.rs1_used => v1 = w1, u.rs2_used => v2 = w2
  PROVE  /\ Result(u.ins, u.pc, v1, v2) = Result(u.ins, u.pc, w1, w2)
         /\ Target(u.ins, u.pc, v1, v2) = Target(u.ins, u.pc, w1, w2)
         /\ u.class \in {"load", "store"} => EffectiveAddr(u.ins, v1) = EffectiveAddr(u.ins, w1)
         /\ u.class = "store" => v2 = w2
<1> DEFINE op == u.ins.op
<1>1. /\ op \in Op /\ u.class = ClassOf(op)
      /\ u.rs1_used = (op \in {"add", "addi", "mul", "lw", "sw", "beq", "jalr"})
      /\ u.rs2_used = (op \in {"add", "mul", "sw", "beq"})
  BY FetchedFields
<1>2. op \in {"add", "addi", "mul", "lw", "sw", "beq", "jalr"} => v1 = w1
  BY <1>1
<1>3. op \in {"add", "mul", "sw", "beq"} => v2 = w2
  BY <1>1
<1>4. u.class = "load" => op = "lw"
  BY <1>1 DEF ClassOf, Op, Control
<1>5. u.class = "store" => op = "sw"
  BY <1>1 DEF ClassOf, Op, Control
<1>6. Result(u.ins, u.pc, v1, v2) = Result(u.ins, u.pc, w1, w2)
  BY <1>2, <1>3 DEF Result
<1>7. Target(u.ins, u.pc, v1, v2) = Target(u.ins, u.pc, w1, w2)
  BY <1>2, <1>3 DEF Target
<1> QED BY <1>2, <1>3, <1>4, <1>5, <1>6, <1>7

\* The register file after instruction t.
Put(file, t) ==
  IF effective_write(rob_q[t].uop) THEN [file EXCEPT ![rob_q[t].uop.rd] = rob_q[t].value] ELSE file

\* A register file that agrees with what instruction t has to read.
Agrees(file, t) ==
  \A r \in Arch : \A v \in Data : Reads(r, Position(t), v) => v = file[r]

\* The operands of t are those of such a file.
LEMMA FromFile ==
  ASSUME CoreInv, NEW t \in Tag, rob_q[t].valid, NEW file, Agrees(file, t),
         NEW v1, NEW v2, Inputs(t, v1, v2)
  PROVE  LET u == rob_q[t].uop
             w1 == file[u.ins.rs1]
             w2 == file[u.ins.rs2]
         IN /\ Result(u.ins, u.pc, v1, v2) = Result(u.ins, u.pc, w1, w2)
            /\ Target(u.ins, u.pc, v1, v2) = Target(u.ins, u.pc, w1, w2)
            /\ u.class \in {"load", "store"} => EffectiveAddr(u.ins, v1) = EffectiveAddr(u.ins, w1)
            /\ u.class = "store" => v2 = w2
<1> DEFINE u == rob_q[t].uop
<1>1. prog \in Programs /\ Fetched(u)
  BY DEF CoreInv, CoreTypes
<1>2. u.ins.rs1 \in Arch /\ u.ins.rs2 \in Arch
  BY <1>1, FetchedFields
<1>3. u.rs1_used => v1 = file[u.ins.rs1]
  BY <1>2 DEF Inputs, Agrees
<1>4. u.rs2_used => v2 = file[u.ins.rs2]
  BY <1>2 DEF Inputs, Agrees
<1> HIDE DEF u
<1>5. PICK w1, w2 : w1 = file[u.ins.rs1] /\ w2 = file[u.ins.rs2]
  OBVIOUS
<1>6. (u.rs1_used => v1 = w1) /\ (u.rs2_used => v2 = w2)
  BY <1>3, <1>4, <1>5
<1>7. /\ Result(u.ins, u.pc, v1, v2) = Result(u.ins, u.pc, w1, w2)
      /\ Target(u.ins, u.pc, v1, v2) = Target(u.ins, u.pc, w1, w2)
      /\ u.class \in {"load", "store"} => EffectiveAddr(u.ins, v1) = EffectiveAddr(u.ins, w1)
      /\ u.class = "store" => v2 = w2
  BY <1>1, <1>6, OperandsMatter
<1> QED BY <1>5, <1>7 DEF u

LEMMA StepDone ==
  ASSUME CoreInv, ExactInv, NEW t \in Tag, rob_q[t].valid, Ready(rob_q[t], fence_complete),
         rob_q[t].uop.class # "store", NEW file, Agrees(file, t)
  PROVE  Step([pc |-> rob_q[t].uop.pc, regs |-> file, mem |-> mem], prog) =
           [pc |-> IF rob_q[t].uop.class = "control" THEN rob_q[t].target
                   ELSE pc_plus_4(rob_q[t].uop.pc),
            regs |-> Put(file, t), mem |-> mem]
<1> DEFINE u == rob_q[t].uop  i == prog[u.pc]
           w1 == file[i.rs1]  w2 == file[i.rs2]
           value == IF i.op = "lw" THEN mem[EffectiveAddr(i, w1)] ELSE Result(i, u.pc, w1, w2)
<1>1. prog \in Programs /\ Fetched(u)
  BY DEF CoreInv, CoreTypes
<1>2. /\ u.ins = i /\ u.class = ClassOf(i.op) /\ i.op \in Op
      /\ u.writes = (sel_rd(i.op) /\ i.rd # 0) /\ u.rd = i.rd
  BY <1>1, FetchedFields
<1>3. Step([pc |-> u.pc, regs |-> file, mem |-> mem], prog) =
        [pc |-> Target(i, u.pc, w1, w2),
         regs |-> IF sel_rd(i.op) /\ i.rd # 0 THEN [file EXCEPT ![i.rd] = value] ELSE file,
         mem |-> IF i.op = "sw" THEN [mem EXCEPT ![EffectiveAddr(i, w1)] = w2] ELSE mem]
  BY DEF Step
<1> HIDE DEF i, u
<1>4. i.op # "sw"
  BY <1>2 DEF ClassOf, Op, Control, u
<1>5. (sel_rd(i.op) /\ i.rd # 0) = effective_write(u)
  BY <1>2 DEF effective_write
<1>6. /\ u.class \in Reporting \/ (~sel_rd(i.op) /\ u.class # "control")
      /\ u.class = "load" <=> i.op = "lw"
      /\ u.class \in Reporting => u.class # "fence"
      /\ u.class # "control" => Target(i, u.pc, w1, w2) = pc_plus_4(u.pc)
  <2>1. i.op \in Op /\ u.class = ClassOf(i.op) /\ i.op # "sw"
    BY <1>2, <1>4
  <2>2. u.class \in Reporting \/ (~sel_rd(i.op) /\ u.class # "control")
    BY <2>1 DEF ClassOf, Op, Control, Reporting, sel_rd
  <2>3. u.class = "load" <=> i.op = "lw"
    BY <2>1 DEF ClassOf, Op, Control
  <2>4. u.class # "control" => i.op \notin {"jal", "jalr", "beq"}
    BY <2>1 DEF ClassOf, Op, Control
  <2>5. i.op \notin {"jal", "jalr", "beq"} => Target(i, u.pc, w1, w2) = pc_plus_4(u.pc)
    BY DEF Target
  <2>6. u.class \in Reporting => u.class # "fence"
    BY DEF Reporting
  <2> QED BY <2>2, <2>3, <2>4, <2>5, <2>6
<1>7. ASSUME u.class \in Reporting
      PROVE  /\ rob_q[t].value = value
             /\ u.class = "control" => rob_q[t].target = Target(i, u.pc, w1, w2)
  <2>1. rob_q[t].ready
    BY <1>6, <1>7 DEF Ready, u
  <2>2. Exact(t, rob_q[t].value, rob_q[t].target, rob_q[t].mispredict)
    BY <1>7, <2>1 DEF ExactInv, ResultsExact, ResultExact, u
  <2>3. PICK v1 \in Data, v2 \in Data :
          /\ Inputs(t, v1, v2)
          /\ rob_q[t].value = IF u.class = "load" THEN mem[EffectiveAddr(u.ins, v1)]
                              ELSE Result(u.ins, u.pc, v1, v2)
          /\ u.class = "control" => rob_q[t].target = Target(u.ins, u.pc, v1, v2)
    BY <2>2 DEF Exact, u
  <2>4. /\ Result(u.ins, u.pc, v1, v2) = Result(u.ins, u.pc, file[u.ins.rs1], file[u.ins.rs2])
        /\ Target(u.ins, u.pc, v1, v2) = Target(u.ins, u.pc, file[u.ins.rs1], file[u.ins.rs2])
        /\ u.class = "load" => EffectiveAddr(u.ins, v1) = EffectiveAddr(u.ins, file[u.ins.rs1])
    BY <2>3, FromFile DEF u
  <2> QED BY <1>2, <1>6, <2>3, <2>4
<1>8. Put(file, t) = IF sel_rd(i.op) /\ i.rd # 0 THEN [file EXCEPT ![i.rd] = value] ELSE file
  <2>1. Put(file, t) = IF effective_write(u) THEN [file EXCEPT ![i.rd] = rob_q[t].value] ELSE file
    BY <1>2 DEF Put, u
  <2> HIDE DEF value
  <2> QED BY <1>5, <1>6, <1>7, <2>1
<1>9. Target(i, u.pc, w1, w2) = IF u.class = "control" THEN rob_q[t].target ELSE pc_plus_4(u.pc)
  BY <1>6, <1>7 DEF Reporting
<1> HIDE DEF w1, w2, value
<1> QED BY <1>3, <1>4, <1>8, <1>9 DEF u

LEMMA StepStore ==
  ASSUME CoreInv, NEW t \in Tag, rob_q[t].valid, rob_q[t].uop.class = "store",
         NEW a, NEW w, Addressed(t, a, w), NEW file, Agrees(file, t)
  PROVE  Step([pc |-> rob_q[t].uop.pc, regs |-> file, mem |-> mem], prog) =
           [pc |-> pc_plus_4(rob_q[t].uop.pc), regs |-> file, mem |-> [mem EXCEPT ![a] = w]]
<1> DEFINE u == rob_q[t].uop  i == prog[u.pc]
           w1 == file[i.rs1]  w2 == file[i.rs2]
           value == IF i.op = "lw" THEN mem[EffectiveAddr(i, w1)] ELSE Result(i, u.pc, w1, w2)
<1>1. prog \in Programs /\ Fetched(u)
  BY DEF CoreInv, CoreTypes
<1>2. u.ins = i /\ u.class = ClassOf(i.op) /\ i.op \in Op
  BY <1>1, FetchedFields
<1>3. Step([pc |-> u.pc, regs |-> file, mem |-> mem], prog) =
        [pc |-> Target(i, u.pc, w1, w2),
         regs |-> IF sel_rd(i.op) /\ i.rd # 0 THEN [file EXCEPT ![i.rd] = value] ELSE file,
         mem |-> IF i.op = "sw" THEN [mem EXCEPT ![EffectiveAddr(i, w1)] = w2] ELSE mem]
  BY DEF Step
<1>4. PICK v1 \in Data, v2 \in Data : Inputs(t, v1, v2) /\ a = EffectiveAddr(u.ins, v1) /\ w = v2
  BY DEF Addressed
<1>5. a = EffectiveAddr(i, w1) /\ w = w2
  BY <1>2, <1>4, FromFile
<1> HIDE DEF i
<1>6. i.op = "sw" /\ ~sel_rd(i.op)
  BY <1>2 DEF ClassOf, Op, Control, sel_rd
<1>7. Target(i, u.pc, w1, w2) = pc_plus_4(u.pc)
  BY <1>6 DEF Target
<1> HIDE DEF w1, w2, value
<1> QED BY <1>3, <1>5, <1>6, <1>7

(***************************************************************************)
(* The files that the head and the instruction behind it read.             *)
(***************************************************************************)
LEMMA HeadReads ==
  ASSUME CoreInv PROVE head_q \in Tag /\ Position(head_q) = 0 /\ Agrees(regs, head_q)
<1>1. RobTypeOK
  BY DEF CoreInv, RenameInv, RenameTypes
<1>2. head_q \in Tag /\ Position(head_q) = 0
  BY <1>1, Positions
<1>3. ASSUME NEW r \in Arch, NEW p, Names(r, 0, p) PROVE p = amt[r]
  <2>1. \A t \in Tag : ~(Position(t) < 0)
    BY <1>1, Positions
  <2> QED BY <1>3, <2>1 DEF Names, Youngest, WritersOf, Writers
<1> QED BY <1>2, <1>3 DEF Agrees, Reads, regs

LEMMA SecondReads ==
  ASSUME CoreInv, rob_q[head_q].valid, rob_q[head_q].ready \/ ~effective_write(rob_q[head_q].uop)
  PROVE  second_tag \in Tag /\ Position(second_tag) = 1 /\ Agrees(Put(regs, head_q), second_tag)
<1>1. RobTypeOK /\ ProgramOrder /\ ResultsAgree /\ UopsOK
  BY DEF CoreInv, RenameInv, RenameTypes
<1>2. /\ second_tag \in Tag /\ head_q \in Tag
      /\ \A t \in Tag : (Position(t) = 0 <=> t = head_q) /\ (Position(t) = 1 <=> t = second_tag)
      /\ \A t \in Tag : Position(t) \in Nat
  BY <1>1, CommittedAre, Positions
<1> DEFINE u == rob_q[head_q].uop
<1>3. ASSUME NEW r \in Arch, NEW v \in Data, Reads(r, 1, v) PROVE v = Put(regs, head_q)[r]
  <2>1. PICK p \in Phys : Names(r, 1, p) /\ v = reg_value[p]
    BY <1>3 DEF Reads
  <2>2. Put(regs, head_q)[r] = IF effective_write(u) /\ u.rd = r THEN rob_q[head_q].value
                               ELSE reg_value[amt[r]]
    BY DEF Put, regs
  <2>3. head_q \in WritersOf(r) <=> effective_write(u) /\ u.rd = r
    BY <1>2 DEF WritersOf, Writers
  <2>4. \A t \in Tag : Position(t) < 1 <=> t = head_q
    <3>1. \A n \in Nat : n < 1 <=> n = 0
      OBVIOUS
    <3> QED BY <1>2, <3>1
  <2>5. CASE NoneBefore(r, 1) /\ p = amt[r]
    <3>1. head_q \notin WritersOf(r)
      BY <1>2, <2>4, <2>5 DEF NoneBefore
    <3> QED BY <2>1, <2>2, <2>3, <2>5, <3>1
  <2>6. ASSUME NEW t \in Tag, Youngest(r, 1, t), p = Dst(t) PROVE v = Put(regs, head_q)[r]
    <3>1. t = head_q /\ t \in WritersOf(r)
      BY <2>4, <2>6 DEF Youngest
    <3>2. effective_write(u) /\ u.rd = r /\ head_q \in Writers
      BY <2>3, <3>1 DEF WritersOf
    <3>3. reg_value[Dst(head_q)] = rob_q[head_q].value
      BY <1>1, <3>2 DEF ResultsAgree
    <3> QED BY <2>1, <2>2, <2>6, <3>1, <3>2, <3>3
  <2> QED BY <2>1, <2>5, <2>6 DEF Names
<1>4. Position(second_tag) = 1
  BY <1>2
<1> QED BY <1>2, <1>3, <1>4 DEF Agrees

\* The registers after the instructions that retire.
LEMMA RegsAfter ==
  ASSUME CoreInv, regs' = Retired(regs, commit(fence_complete))
  PROVE  /\ Leaving = 0 => regs' = regs
         /\ Leaving = 1 => regs' = Put(regs, head_q)
         /\ Leaving = 2 => regs' = Put(Put(regs, head_q), second_tag)
<1> DEFINE c == commit(fence_complete)  h == head_q  s == second_tag  n == Leaving
<1>1. RobTypeOK /\ ProgramOrder
  BY DEF CoreInv, RenameInv, RenameTypes
<1>2. /\ n \in 0 .. 2 /\ Len(c) = n
      /\ n >= 1 => c[1] = rob_q[h]
      /\ n = 2 => c[2] = rob_q[s]
  <2>1. n \in 0 .. 2
    BY <1>1, RetireCountBound DEF Leaving
  <2>2. After(head_q, 0) = head_q /\ second_tag = After(head_q, 1)
    BY <1>1, RobDepthAssumption DEF RobTypeOK, Tag, After, second_tag
  <2> QED BY <2>1, <2>2 DEF commit, Leaving
<1>3. regs \in [Arch -> {regs[r] : r \in Arch}] /\ regs = [r \in Arch |-> regs[r]]
  BY DEF regs
<1>4. regs' = [r \in Arch |-> regs'[r]]
  BY DEF regs
<1> HIDE DEF c, h, s, n
<1>5. \A r \in Arch : regs'[r] =
        IF n = 2 /\ effective_write(rob_q[s].uop) /\ rob_q[s].uop.rd = r THEN rob_q[s].value
        ELSE IF n >= 1 /\ effective_write(rob_q[h].uop) /\ rob_q[h].uop.rd = r THEN rob_q[h].value
        ELSE regs[r]
  <2> TAKE r \in Arch
  <2>1. Len(c) \in 0 .. 2
    BY <1>2
  <2>2. Retired(regs, c)[r] =
           IF Len(c) = 2 /\ effective_write(c[2].uop) /\ c[2].uop.rd = r THEN c[2].value
           ELSE IF Len(c) >= 1 /\ effective_write(c[1].uop) /\ c[1].uop.rd = r THEN c[1].value
           ELSE regs[r]
    BY <2>1, RetiredAt
  <2>3. regs'[r] = Retired(regs, c)[r]
    BY DEF c
  <2> QED BY <1>2, <2>2, <2>3
<1>6. PICK f, g : f = regs /\ g = regs'
  OBVIOUS
<1>7. /\ f = [r \in Arch |-> f[r]] /\ g = [r \in Arch |-> g[r]]
      /\ \A r \in Arch : g[r] =
           IF n = 2 /\ effective_write(rob_q[s].uop) /\ rob_q[s].uop.rd = r THEN rob_q[s].value
           ELSE IF n >= 1 /\ effective_write(rob_q[h].uop) /\ rob_q[h].uop.rd = r THEN rob_q[h].value
           ELSE f[r]
  BY <1>3, <1>4, <1>5, <1>6
<1>8. n = 0 => g = f
  BY <1>7
<1>9. n = 1 => g = Put(f, h)
  BY <1>7 DEF Put
<1>10. n = 2 => g = Put(Put(f, h), s)
  <2>1. PICK m : m = Put(f, h)
    OBVIOUS
  <2>2. /\ m = [r \in Arch |-> m[r]]
        /\ \A r \in Arch : m[r] = IF effective_write(rob_q[h].uop) /\ rob_q[h].uop.rd = r
                                  THEN rob_q[h].value ELSE f[r]
    BY <1>7, <2>1 DEF Put
  <2>3. n = 2 => g = Put(m, s)
    BY <1>7, <2>2 DEF Put
  <2> QED BY <2>1, <2>3
<1> QED BY <1>6, <1>8, <1>9, <1>10 DEF n, h, s

(***************************************************************************)
(* The program counter: it is that of the oldest instruction, or of the    *)
(* next one when that is a store that memory has performed.                *)
(***************************************************************************)
oldest_pc == IF count_q = 0 THEN fetch_pc ELSE rob_q[head_q].uop.pc

LEMMA ArchPcIs ==
  ASSUME CoreInv
  PROVE  /\ PcIs(0, oldest_pc) /\ oldest_pc \in Data
         /\ store_performed <=> /\ rob_q[head_q].valid /\ rob_q[head_q].uop.class = "store"
                                /\ NoQueue(head_q)
         /\ arch_pc = IF store_performed THEN pc_plus_4(oldest_pc) ELSE oldest_pc
         /\ rob_q[head_q].valid => oldest_pc = rob_q[head_q].uop.pc
<1>1. RobTypeOK /\ ProgramOrder /\ CoreTypes
  BY DEF CoreInv, RenameInv, RenameTypes
<1>2. head_q \in Tag /\ Position(head_q) = 0 /\ count_q \in Nat
  BY <1>1, Positions DEF RobTypeOK
<1>3. rob_q[head_q].valid <=> count_q # 0
  BY <1>1, <1>2 DEF ProgramOrder
<1>4. head_valid <=> rob_q[head_q].valid
  BY <1>3 DEF head_valid
<1>5. PcIs(0, oldest_pc)
  BY <1>2, <1>3 DEF PcIs, oldest_pc
<1>6. oldest_pc \in Data
  BY <1>1, <1>2, <1>3 DEF oldest_pc, CoreTypes, Fetched
<1>7. store_performed <=> /\ rob_q[head_q].valid /\ rob_q[head_q].uop.class = "store"
                          /\ NoQueue(head_q)
  BY <1>4 DEF store_performed, head_is_store, NoQueue
<1>8. arch_pc = IF store_performed THEN pc_plus_4(oldest_pc) ELSE oldest_pc
  BY <1>3, <1>4, <1>7 DEF arch_pc, oldest_pc
<1> QED BY <1>3, <1>5, <1>6, <1>7, <1>8 DEF oldest_pc

LEMMA ArchPcNext ==
  CoreInv' => /\ PcIs(0, oldest_pc)' /\ oldest_pc' \in Data
              /\ store_performed' <=> /\ rob_q'[head_q'].valid
                                      /\ rob_q'[head_q'].uop.class = "store" /\ NoQueue(head_q)'
              /\ arch_pc' = IF store_performed' THEN pc_plus_4(oldest_pc') ELSE oldest_pc'
<1> DEFINE P == /\ PcIs(0, oldest_pc) /\ oldest_pc \in Data
                /\ store_performed <=> /\ rob_q[head_q].valid
                                       /\ rob_q[head_q].uop.class = "store" /\ NoQueue(head_q)
                /\ arch_pc = IF store_performed THEN pc_plus_4(oldest_pc) ELSE oldest_pc
<1>1. CoreInv => P
  BY ArchPcIs
<1>2. CoreInv' => P'
  <2> HIDE DEF P
  <2> QED BY <1>1, PTL
<1> QED BY <1>2

\* After an ordinary edge the oldest program counter is that behind those that
\* retired.
LEMMA OldestMoves ==
  ASSUME CoreInv, CoreInv', NEW d, NEW cdb0, NEW cdb1, NEW accept, NEW answer,
         Edge(d, cdb0, cdb1, accept, answer)
  PROVE  PcIs(Leaving, oldest_pc')
<1>1. PICK x : x = oldest_pc'
  OBVIOUS
<1>2. PcIs(0, x)'
  BY <1>1, ArchPcNext
<1>3. \/ Leaving + 0 < count_q /\ PcIs(Leaving + 0, x)
      \/ \E k \in 1 .. Len(d) + 1 : Leaving + 0 = count_q + k - 1 /\ x = plus(fetch_pc, k - 1)
  BY <1>2, PcMoves
<1>4. Leaving \in Nat /\ Leaving <= count_q /\ count_q \in Nat /\ fetch_pc \in Data
  BY CommittedAre DEF CoreInv, RenameInv, RenameTypes, CoreTypes, Leaving, RobTypeOK
<1>5. Len(d) \in Nat
  BY EdgeBrings
<1> HIDE DEF Leaving
<1>6. ASSUME NEW k \in 1 .. Len(d) + 1, Leaving + 0 = count_q + k - 1, x = plus(fetch_pc, k - 1)
      PROVE  PcIs(Leaving, x)
  <2>1. k = 1 /\ Leaving = count_q
    BY <1>4, <1>5, <1>6
  <2>2. k - 1 = 0
    BY <2>1
  <2>3. x = fetch_pc
    BY <1>4, <1>6, <2>2, PlusNext
  <2> QED BY <2>1, <2>3 DEF PcIs
<1>7. Leaving + 0 = Leaving
  BY <1>4
<1> QED BY <1>1, <1>3, <1>6, <1>7

LEMMA OldestAfter ==
  ASSUME CoreInv, ExactInv, CoreInv', NEW d, NEW cdb0, NEW cdb1, NEW accept, NEW answer,
         Edge(d, cdb0, cdb1, accept, answer)
  PROVE  /\ Leaving = 0 => oldest_pc' = oldest_pc
         /\ Leaving = 1 => oldest_pc' = pc_plus_4(oldest_pc)
         /\ Leaving = 2 => /\ rob_q[second_tag].uop.pc = pc_plus_4(oldest_pc)
                           /\ oldest_pc' = pc_plus_4(rob_q[second_tag].uop.pc)
<1>1. PICK x : x = oldest_pc'
  OBVIOUS
<1>2. x \in Data /\ PcIs(Leaving, x) /\ PcIs(0, oldest_pc) /\ oldest_pc \in Data
  BY <1>1, ArchPcNext, ArchPcIs, OldestMoves
<1>3. \A m \in Nat : \A v, w \in Data : PcIs(m, v) /\ PcIs(m + 1, w) => w = pc_plus_4(v)
  BY DEF ExactInv, PcsFollow
<1>4. Leaving = 0 => x = oldest_pc
  BY <1>2, PcUnique
<1>5. Leaving = 1 => x = pc_plus_4(oldest_pc)
  <2>1. 0 \in Nat /\ 0 + 1 = 1
    OBVIOUS
  <2> QED BY <1>2, <1>3, <2>1
<1>6. ASSUME Leaving = 2
      PROVE  /\ rob_q[second_tag].uop.pc = pc_plus_4(oldest_pc)
             /\ x = pc_plus_4(rob_q[second_tag].uop.pc)
  <2>1. PICK y : y = rob_q[second_tag].uop.pc
    OBVIOUS
  <2>2. PcIs(1, y) /\ y \in Data
    <3>1. RobTypeOK /\ ProgramOrder /\ CoreTypes
      BY DEF CoreInv, RenameInv, RenameTypes
    <3>2. second_tag \in Tag /\ rob_q[second_tag].valid /\ Position(second_tag) = 1
      BY <1>6, <3>1, CommittedAre DEF Leaving
    <3> QED BY <2>1, <3>1, <3>2 DEF PcIs, CoreTypes, Fetched
  <2>3. 0 \in Nat /\ 1 \in Nat /\ 0 + 1 = 1 /\ 1 + 1 = 2
    OBVIOUS
  <2>4. y = pc_plus_4(oldest_pc)
    BY <1>2, <1>3, <2>2, <2>3
  <2>5. x = pc_plus_4(y)
    BY <1>2, <1>3, <1>6, <2>2, <2>3
  <2> QED BY <2>1, <2>4, <2>5
<1> QED BY <1>1, <1>4, <1>5, <1>6

\* A store has been performed after the edge if it had been before, or memory
\* performs it now; it still heads the buffer.
LEMMA PerformedAfter ==
  ASSUME CoreInv, ExactInv, CoreInv', NEW d, NEW cdb0, NEW cdb1,
         NEW accept \in BOOLEAN, NEW answer \in BOOLEAN, Edge(d, cdb0, cdb1, accept, answer)
  PROVE  /\ Leaving # 0 => ~store_performed' /\ ~Performs(answer)
         /\ Leaving = 0 => (store_performed' <=> store_performed \/ Performs(answer))
         /\ Performs(answer) => ~store_performed
<1>1. RobTypeOK /\ RobTypeOK' /\ ProgramOrder /\ QueuesOwned /\ RequestOwned
  BY DEF CoreInv, RenameInv, RenameTypes, UnitsOwned
<1>2. ASSUME store_performed'
      PROVE  Leaving = 0 /\ (store_performed \/ Performs(answer))
  <2>1. PICK t : t = head_q'
    OBVIOUS
  <2>2. t \in Tag /\ rob_q'[t].valid /\ rob_q'[t].uop.class = "store"
    BY <1>1, <1>2, <2>1, ArchPcNext DEF RobTypeOK
  <2>3. NoQueue(t)'
    BY <1>2, <2>1, ArchPcNext DEF NoQueue
  <2>4. t = head_q /\ Leaving = 0 /\ Remains(t) /\ (NoQueue(t) \/ Performs(answer))
    BY <2>2, <2>3, StoresLeave
  <2>5. rob_q[head_q].valid /\ rob_q[head_q].uop.class = "store"
    BY <2>2, <2>4, StaysWhole DEF Remains
  <2> QED BY <2>4, <2>5, ArchPcIs
<1>3. ASSUME Performs(answer) PROVE Leaving = 0 /\ ~store_performed
  BY <1>3, StoreAlone, ArchPcIs
<1>4. ASSUME Leaving = 0, store_performed \/ Performs(answer) PROVE store_performed'
  <2>1. Remains(head_q) /\ rob_q[head_q].uop.class = "store"
    <3>1. CASE Performs(answer)
      BY <3>1, StoreAlone
    <3>2. CASE store_performed
      <4>1. rob_q[head_q].valid /\ rob_q[head_q].uop.class = "store"
        BY <3>2, ArchPcIs
      <4>2. head_q \in Tag /\ Position(head_q) = 0
        BY HeadReads
      <4> QED BY <1>4, <4>1, <4>2 DEF Remains
    <3> QED BY <1>4, <3>1, <3>2
  <2>2. rob_q'[head_q].valid /\ rob_q'[head_q].uop.class = "store" /\ rob_q[head_q].valid
    BY <2>1, StaysWhole DEF Remains
  <2>3. head_q' = head_q
    <3>1. head_q' = After(head_q, Leaving)
      BY DEF Edge, Leaving
    <3> QED BY <1>1, <1>4, <3>1, RobDepthAssumption DEF RobTypeOK, After, Tag
  <2>4. \A i \in LsqIndex : lsq_q[i].valid /\ ~(answer /\ i = req_q.index) => lsq_q[i].rob # head_q
    <3>1. CASE store_performed
      BY <3>1, ArchPcIs DEF NoQueue
    <3>2. CASE Performs(answer)
      <4>1. req_q.rob = head_q /\ (req_q.pending \/ req_q.busy) /\ answer
        BY <3>2, StoreAlone, MemoryAfter DEF Performs
      <4>2. /\ lsq_q[req_q.index].valid /\ lsq_q[req_q.index].rob = head_q
            /\ req_q.index \in LsqIndex
        BY <1>1, <4>1 DEF RequestOwned, CoreInv, CoreTypes, Requests
      <4> QED BY <1>1, <4>1, <4>2 DEF QueuesOwned
    <3> QED BY <1>4, <3>1, <3>2
  <2>5. PICK t : t = head_q
    OBVIOUS
  <2>6. NoQueue(t)'
    BY <2>2, <2>4, <2>5, StillGone
  <2>7. NoQueue(head_q)'
    BY <2>3, <2>5, <2>6 DEF NoQueue
  <2> QED BY <2>2, <2>3, <2>7, ArchPcNext
<1> QED BY <1>2, <1>3, <1>4

(***************************************************************************)
(* Every cycle is one or two steps of the sequential machine, or none.     *)
(***************************************************************************)
ArchState == [pc |-> arch_pc, regs |-> regs, mem |-> mem]

\* The memory answers a store: the store takes its step, before it retires.
LEMMA StoreStepsOnce ==
  ASSUME CoreInv, ExactInv, CoreInv', NEW d, NEW cdb0, NEW cdb1,
         NEW accept \in BOOLEAN, NEW answer \in BOOLEAN, Edge(d, cdb0, cdb1, accept, answer),
         regs' = Retired(regs, commit(fence_complete)), Performs(answer)
  PROVE  ArchState' = Step(ArchState, prog)
<1>1. /\ Leaving = 0 /\ Remains(head_q) /\ rob_q[head_q].uop.class = "store" /\ req_q.rob = head_q
      /\ rob_q[head_q].valid
  BY StoreAlone DEF Remains
<1>2. ~store_performed /\ store_performed'
  BY <1>1, PerformedAfter
<1>3. arch_pc = rob_q[head_q].uop.pc /\ arch_pc' = pc_plus_4(rob_q[head_q].uop.pc)
  <2>1. oldest_pc' = oldest_pc /\ oldest_pc = rob_q[head_q].uop.pc
    BY <1>1, OldestAfter, ArchPcIs
  <2> QED BY <1>2, <2>1, ArchPcIs, ArchPcNext
<1>4. regs' = regs
  BY <1>1, RegsAfter
<1>5. mem' = [mem EXCEPT ![req_q.addr] = req_q.wdata] /\ (req_q.pending \/ req_q.busy)
  BY MemoryAfter DEF Performs
<1>6. Addressed(head_q, req_q.addr, req_q.wdata)
  BY <1>1, <1>5 DEF ExactInv, RequestExact
<1>7. head_q \in Tag /\ Agrees(regs, head_q)
  BY HeadReads
<1>8. Step([pc |-> rob_q[head_q].uop.pc, regs |-> regs, mem |-> mem], prog) =
        [pc |-> pc_plus_4(rob_q[head_q].uop.pc), regs |-> regs,
         mem |-> [mem EXCEPT ![req_q.addr] = req_q.wdata]]
  BY <1>1, <1>6, <1>7, StepStore
<1> QED BY <1>3, <1>4, <1>5, <1>8 DEF ArchState

\* Nothing retires and no store is performed: nothing has happened.
LEMMA NothingHappens ==
  ASSUME CoreInv, ExactInv, CoreInv', NEW d, NEW cdb0, NEW cdb1,
         NEW accept \in BOOLEAN, NEW answer \in BOOLEAN, Edge(d, cdb0, cdb1, accept, answer),
         regs' = Retired(regs, commit(fence_complete)), Leaving = 0, ~Performs(answer)
  PROVE  ArchState' = ArchState
<1>1. oldest_pc' = oldest_pc /\ (store_performed' <=> store_performed)
  BY OldestAfter, PerformedAfter
<1>2. arch_pc' = arch_pc
  BY <1>1, ArchPcIs, ArchPcNext
<1>3. regs' = regs /\ mem' = mem
  BY RegsAfter, MemoryAfter
<1> QED BY <1>2, <1>3 DEF ArchState

\* What the head and the second do when they leave, stated of the state before.
LEMMA HeadSteps ==
  ASSUME CoreInv, ExactInv, Leaving >= 1, rob_q[head_q].uop.class # "store"
  PROVE  /\ ~store_performed /\ arch_pc = rob_q[head_q].uop.pc
         /\ Step(ArchState, prog) =
              [pc |-> IF rob_q[head_q].uop.class = "control" THEN rob_q[head_q].target
                      ELSE pc_plus_4(rob_q[head_q].uop.pc),
               regs |-> Put(regs, head_q), mem |-> mem]
         /\ rob_q[head_q].uop.class = "control" =>
              /\ rob_q[head_q].control_complete
              /\ ~rob_q[head_q].mispredict
                   => rob_q[head_q].target = pc_plus_4(rob_q[head_q].uop.pc)
<1>1. rob_q[head_q].valid /\ Ready(rob_q[head_q], fence_complete) /\ head_q \in Tag
  BY CommittedAre DEF CoreInv, RenameInv, RenameTypes, Leaving
<1>2. ~store_performed /\ arch_pc = rob_q[head_q].uop.pc
  BY <1>1, ArchPcIs
<1>3. Agrees(regs, head_q)
  BY HeadReads
<1>4. Step([pc |-> rob_q[head_q].uop.pc, regs |-> regs, mem |-> mem], prog) =
        [pc |-> IF rob_q[head_q].uop.class = "control" THEN rob_q[head_q].target
                ELSE pc_plus_4(rob_q[head_q].uop.pc),
         regs |-> Put(regs, head_q), mem |-> mem]
  BY <1>1, <1>3, StepDone
<1>5. ASSUME rob_q[head_q].uop.class = "control"
      PROVE  /\ rob_q[head_q].control_complete
             /\ ~rob_q[head_q].mispredict
                  => rob_q[head_q].target = pc_plus_4(rob_q[head_q].uop.pc)
  <2>1. rob_q[head_q].ready
    BY <1>1, <1>5 DEF Ready
  <2>2. /\ Exact(head_q, rob_q[head_q].value, rob_q[head_q].target, rob_q[head_q].mispredict)
        /\ rob_q[head_q].control_complete
    BY <1>1, <1>5, <2>1 DEF ExactInv, ResultsExact, ResultExact, Reporting
  <2>3. rob_q[head_q].mispredict = (rob_q[head_q].target # pc_plus_4(rob_q[head_q].uop.pc))
    BY <1>5, <2>2 DEF Exact
  <2> QED BY <2>2, <2>3
<1> QED BY <1>2, <1>4, <1>5 DEF ArchState

\* One instruction retires without recovery: a step, unless it is a store, whose
\* step was taken when memory performed it.
LEMMA OneRetires ==
  ASSUME CoreInv, ExactInv, CoreInv', NEW d, NEW cdb0, NEW cdb1,
         NEW accept \in BOOLEAN, NEW answer \in BOOLEAN, Edge(d, cdb0, cdb1, accept, answer),
         regs' = Retired(regs, commit(fence_complete)), ~recovery(fence_complete), Leaving = 1
  PROVE  ArchState' = Step(ArchState, prog) \/ ArchState' = ArchState
<1>1. rob_q[head_q].valid /\ Ready(rob_q[head_q], fence_complete) /\ head_q \in Tag
  BY CommittedAre DEF CoreInv, RenameInv, RenameTypes, Leaving
<1>2. ~store_performed' /\ mem' = mem
  BY PerformedAfter, MemoryAfter
<1>3. arch_pc' = pc_plus_4(rob_q[head_q].uop.pc)
  BY <1>1, <1>2, ArchPcIs, ArchPcNext, OldestAfter
<1>4. regs' = Put(regs, head_q)
  BY RegsAfter
<1>5. CASE rob_q[head_q].uop.class # "store"
  <2>1. rob_q[head_q].uop.class = "control" => ~rob_q[head_q].mispredict
    BY <1>5, HeadSteps DEF recovery, Leaving
  <2> QED BY <1>2, <1>3, <1>4, <1>5, <2>1, HeadSteps DEF ArchState
<1>6. CASE rob_q[head_q].uop.class = "store"
  <2>1. rob_q[head_q].ready
    BY <1>1, <1>6 DEF Ready
  <2>2. NoQueue(head_q)
    BY <2>1 DEF NoQueue, CoreInv, UnitsOwned, QueuesOwned, QueueOwned, Uncompleted
  <2>3. arch_pc = pc_plus_4(rob_q[head_q].uop.pc)
    BY <1>1, <1>6, <2>2, ArchPcIs
  <2>4. ~effective_write(rob_q[head_q].uop)
    BY <1>1, <1>6 DEF CoreInv, RenameInv, RenameTypes, UopsOK, UopOK, effective_write
  <2> QED BY <1>2, <1>3, <1>4, <2>3, <2>4 DEF ArchState, Put
<1> QED BY <1>5, <1>6

\* Two instructions retire: two steps.
LEMMA TwoRetire ==
  ASSUME CoreInv, ExactInv, CoreInv', NEW d, NEW cdb0, NEW cdb1,
         NEW accept \in BOOLEAN, NEW answer \in BOOLEAN, Edge(d, cdb0, cdb1, accept, answer),
         regs' = Retired(regs, commit(fence_complete)), Leaving = 2
  PROVE  ArchState' = Step(Step(ArchState, prog), prog)
<1>1. /\ rob_q[head_q].valid /\ Ready(rob_q[head_q], fence_complete) /\ head_q \in Tag
      /\ rob_q[second_tag].valid /\ Ready(rob_q[second_tag], fence_complete)
      /\ second_tag \in Tag
  BY CommittedAre DEF CoreInv, RenameInv, RenameTypes, Leaving
<1>2. ~Special(rob_q[head_q]) /\ ~Special(rob_q[second_tag])
  BY DEF Leaving, retire_count
<1>3. ~store_performed' /\ mem' = mem
  BY PerformedAfter, MemoryAfter
<1>4. /\ rob_q[second_tag].uop.pc = pc_plus_4(rob_q[head_q].uop.pc)
      /\ arch_pc' = pc_plus_4(rob_q[second_tag].uop.pc)
  BY <1>1, <1>3, ArchPcIs, ArchPcNext, OldestAfter
<1>5. regs' = Put(Put(regs, head_q), second_tag)
  BY RegsAfter
<1>6. Step(ArchState, prog) =
        [pc |-> rob_q[second_tag].uop.pc, regs |-> Put(regs, head_q), mem |-> mem]
  BY <1>2, <1>4, HeadSteps DEF Special
<1>7. Agrees(Put(regs, head_q), second_tag)
  <2>1. rob_q[head_q].ready
    BY <1>1, <1>2 DEF Ready, Special
  <2> QED BY <1>1, <2>1, SecondReads
<1>8. Step([pc |-> rob_q[second_tag].uop.pc, regs |-> Put(regs, head_q), mem |-> mem], prog) =
        [pc |-> pc_plus_4(rob_q[second_tag].uop.pc),
         regs |-> Put(Put(regs, head_q), second_tag), mem |-> mem]
  <2>1. rob_q[second_tag].uop.class # "store" /\ rob_q[second_tag].uop.class # "control"
    BY <1>2 DEF Special
  <2>2. PICK file : file = Put(regs, head_q)
    OBVIOUS
  <2>3. Step([pc |-> rob_q[second_tag].uop.pc, regs |-> file, mem |-> mem], prog) =
          [pc |-> pc_plus_4(rob_q[second_tag].uop.pc), regs |-> Put(file, second_tag), mem |-> mem]
    BY <1>1, <1>7, <2>1, <2>2, StepDone
  <2> QED BY <2>2, <2>3
<1> QED BY <1>3, <1>4, <1>5, <1>6, <1>8 DEF ArchState

\* The head recovers: its step leads to its target, where the core starts anew.
LEMMA RecoverySteps ==
  ASSUME CoreInv, ExactInv, NEW avail \in 0 .. 2, NEW accept \in BOOLEAN, NEW answer \in BOOLEAN,
         Cycle(avail, accept, answer), recovery(fence_complete)
  PROVE  ArchState' = Step(ArchState, prog)
<1>1. /\ CoreInv' /\ Empty' /\ count_q' = 0
      /\ fetch_pc' = rob_q[head_q].target /\ mem' = mem
      /\ regs' = Retired(regs, commit(fence_complete))
  BY FlushStep
<1>2. arch_pc' = rob_q[head_q].target
  <2>1. ~head_valid'
    BY <1>1 DEF head_valid
  <2> QED BY <1>1, <2>1 DEF arch_pc
<1>3. rob_q[head_q].uop.class = "control" /\ Leaving = 1
  <2>1. rob_q[head_q].uop.class = "control" /\ retire_count(fence_complete) # 0
    BY DEF recovery
  <2> QED BY <2>1 DEF retire_count, Special, Leaving
<1>4. regs' = Put(regs, head_q)
  BY <1>1, <1>3, RegsAfter
<1> QED BY <1>1, <1>2, <1>3, <1>4, HeadSteps DEF ArchState

LEMMA CycleSteps ==
  ASSUME CoreInv, ExactInv, CoreInv', [CoreNext]_coreVars
  PROVE  /\ prog' = prog
         /\ \/ ArchState' = Step(ArchState, prog)
            \/ ArchState' = Step(Step(ArchState, prog), prog)
            \/ ArchState' = ArchState
<1>1. CASE CoreNext
  <2>1. PICK avail \in 0 .. 2, accept \in BOOLEAN, answer \in BOOLEAN : Cycle(avail, accept, answer)
    BY <1>1 DEF CoreNext
  <2>2. prog' = prog
    BY <2>1 DEF Cycle, CoreTick
  <2>3. regs' = Retired(regs, commit(fence_complete))
    <3>1. CoreTick(avail, accept, answer)
      BY <2>1 DEF Cycle
    <3>2. PICK d, cdb0, cdb1 : /\ RenameInput(d, cdb0, cdb1, fence_complete)
                               /\ RenameTick(d, cdb0, cdb1, Completing, fence_complete)
      BY <3>1, CycleWires
    <3> QED BY <3>2, PreciseTick DEF CoreInv
  <2>4. CASE recovery(fence_complete)
    BY <2>1, <2>2, <2>4, RecoverySteps
  <2>5. CASE ~recovery(fence_complete)
    <3>1. PICK d, cdb0, cdb1 : Edge(d, cdb0, cdb1, accept, answer)
      BY <2>1, <2>5, CycleIsEdge
    <3>2. Leaving \in 0 .. 2
      BY CommittedAre DEF CoreInv, RenameInv, RenameTypes, Leaving
    <3>3. CASE Leaving = 0 /\ Performs(answer)
      BY <2>2, <2>3, <3>1, <3>3, StoreStepsOnce
    <3>4. CASE Leaving = 0 /\ ~Performs(answer)
      BY <2>2, <2>3, <3>1, <3>4, NothingHappens
    <3>5. CASE Leaving = 1
      BY <2>2, <2>3, <2>5, <3>1, <3>5, OneRetires
    <3>6. CASE Leaving = 2
      BY <2>2, <2>3, <3>1, <3>6, TwoRetire
    <3> QED BY <3>2, <3>3, <3>4, <3>5, <3>6
  <2> QED BY <2>4, <2>5
<1>2. CASE UNCHANGED coreVars
  <2>1. UNCHANGED renameVars /\ UNCHANGED lsqVars /\ prog' = prog /\ fetch_pc' = fetch_pc /\ mem' = mem
    BY <1>2 DEF coreVars
  <2>2. /\ rob_q' = rob_q /\ head_q' = head_q /\ count_q' = count_q /\ amt' = amt
        /\ reg_value' = reg_value /\ lsq_q' = lsq_q
    BY <2>1 DEF renameVars, robVars, ratVars, regVars, lsqVars
  <2>3. regs' = regs
    BY <2>2 DEF regs
  <2>4. arch_pc' = arch_pc
    BY <2>1, <2>2 DEF arch_pc, store_performed, head_is_store, head_valid
  <2> QED BY <2>1, <2>3, <2>4 DEF ArchState
<1> QED BY <1>1, <1>2

\* The instruction set is that of the sequential machine.
LEMMA SequentialStep == \A s, p : Sequential!Step(s, p) = Step(s, p)
BY DEF Sequential!Step, Step, Sequential!Target, Target, Sequential!Result, Result,
   Sequential!EffectiveAddr, EffectiveAddr, Sequential!plus, plus,
   Sequential!pc_plus_4, pc_plus_4, Sequential!sel_rd, sel_rd

LEMMA SequentialInit == CoreInit => Sequential!IsaInit
<1> SUFFICES ASSUME CoreInit PROVE Sequential!IsaInit
  OBVIOUS
<1>1. prog \in Programs /\ fetch_pc = 0 /\ mem = [a \in Data |-> 0]
  BY DEF CoreInit
<1>2. arch_pc = 0
  BY <1>1 DEF CoreInit, RenameInit, RobInit, arch_pc, head_valid
<1>3. regs = [r \in 0 .. ARCH_REGS - 1 |-> 0]
  <2>1. /\ amt = [r \in Arch |-> r]
        /\ \A p \in Phys : reg_value[p] = 0
    BY DEF CoreInit, RenameInit, RatInit, RegInit
  <2>2. \A r \in Arch : r \in Phys
    BY RegCountAssumption DEF Arch, Phys
  <2>3. \A r \in Arch : reg_value[amt[r]] = 0
    BY <2>1, <2>2
  <2> QED BY <2>3 DEF regs, Arch
<1> QED BY <1>1, <1>2, <1>3 DEF Sequential!IsaInit, Sequential!Data, Data

(***************************************************************************)
(* The core implements the instruction set: seen through the committed     *)
(* map, the data memory and the program counter of the oldest instruction, *)
(* every behaviour of the out-of-order core of mycore.v is one of the      *)
(* sequential reference model of src/C_model, for every program and every  *)
(* size of the core's structures.  Speculation, wake-up, the order of      *)
(* execution and the moments at which memory answers cannot be seen.       *)
(***************************************************************************)
THEOREM CoreImplementsIsa == CoreSpec => ImplementsIsa
<1>1. CoreInit => Sequential!IsaInit
  BY SequentialInit
<1>2. CoreInv /\ ExactInv /\ CoreInv' /\ [CoreNext]_coreVars
        => [Sequential!Retire1 \/ Sequential!Retire2]_Sequential!isaVars
  <2> SUFFICES ASSUME CoreInv, ExactInv, CoreInv', [CoreNext]_coreVars
               PROVE  [Sequential!Retire1 \/ Sequential!Retire2]_Sequential!isaVars
    OBVIOUS
  <2>1. prog' = prog /\ \/ ArchState' = Step(ArchState, prog)
                        \/ ArchState' = Step(Step(ArchState, prog), prog)
                        \/ ArchState' = ArchState
    BY CycleSteps
  <2>2. CASE ArchState' = Step(ArchState, prog)
    BY <2>1, <2>2, SequentialStep DEF Sequential!Retire1, ArchState
  <2>3. CASE ArchState' = Step(Step(ArchState, prog), prog)
    BY <2>1, <2>3, SequentialStep DEF Sequential!Retire2, ArchState
  <2>4. CASE ArchState' = ArchState
    BY <2>1, <2>4 DEF Sequential!isaVars, ArchState
  <2> QED BY <2>1, <2>2, <2>3, <2>4
<1> QED BY <1>1, <1>2, ExactInvariant, PTL DEF CoreSpec, ImplementsIsa, Sequential!IsaSpec
=============================================================================

------------------------------- MODULE Rename -------------------------------
(***************************************************************************)
(* Reorder buffer, rename maps and physical register file wired together   *)
(* as in src/dut/mycore/mycore.v: dispatch renames and allocates in all    *)
(* three, the bus completes in the buffer and writes the register file,    *)
(* retirement commits the map and releases registers, recovery rebuilds    *)
(* the maps while the buffer discards everything younger than its head.    *)
(***************************************************************************)
EXTENDS Rob, RegFile, FiniteSets

CONSTANT Decoded   \* decoded instructions: uops not renamed yet, pdst = old_pdst = 0

\* What the decoder guarantees: only a supported instruction of a class that
\* reports a result on the bus writes a register.  Renamed, it is a uop.
ASSUME DecodedAssumption ==
  \A a \in Decoded :
    /\ {"class", "supported", "writes", "rd", "pdst", "old_pdst"} \subseteq DOMAIN a
    /\ a.writes \in BOOLEAN /\ a.rd \in Arch
    /\ a.writes => a.supported /\ a.class \in {"alu", "muldiv", "load", "control"}
    /\ \A p, q \in Phys : [a EXCEPT !.pdst = p, !.old_pdst = q] \in Uop

renameVars == <<robVars, ratVars, regVars>>
-----------------------------------------------------------------------------
\* The uops of the decoded instructions i, at most two.
renamed(i) ==
  [k \in 1 .. Len(i) |->
     IF k = 1 THEN [i[1] EXCEPT !.pdst = new_pdst0(i[1]), !.old_pdst = old_pdst0(i[1])]
     ELSE [i[2] EXCEPT !.pdst = new_pdst1(i[1], i[2]), !.old_pdst = old_pdst1(i[1], i[2])]]

phys_need(i) == Cardinality({k \in 1 .. Len(i) : effective_write(i[k])})

\* The uops that leave the reorder buffer this cycle.
committed(fenceOk) ==
  [k \in 1 .. retire_count(fenceOk) |-> commit(fenceOk)[k].uop]

RenameTick(i, cdb0, cdb1, done, fenceOk) ==
  /\ RobTick(renamed(i), cdb0, cdb1, done, fenceOk)
  /\ RatTick(renamed(i), committed(fenceOk), recovery(fenceOk))
  /\ RegTick(renamed(i), cdb0, cdb1)

RenameInit == RobInit /\ RatInit /\ RegInit
-----------------------------------------------------------------------------
(***************************************************************************)
(* Environment: admission by free entries and free registers, a silent     *)
(* front end and bus in the recovery cycle, and a bus that speaks to an    *)
(* instruction still waiting, under the register it was renamed to.        *)
(***************************************************************************)
Bundle == {i \in {<<>>} \cup {<<a>> : a \in Decoded} \cup {<<a, b>> : a, b \in Decoded} :
             /\ Len(i) <= rob_free_count
             /\ phys_need(i) <= Cardinality(free_mask)
             /\ next_seq_q + Len(i) <= MaxSeq}

BusSilence == [valid |-> FALSE, tag |-> 0, value |-> 0, control |-> FALSE,
               target |-> 0, mispredict |-> FALSE, writes |-> FALSE, pdst |-> 0]

BusMsg ==
  {[valid |-> TRUE, tag |-> m.tag, value |-> m.value, control |-> m.control,
    target |-> m.target, mispredict |-> m.mispredict,
    writes |-> rob_q[m.tag].uop.writes, pdst |-> rob_q[m.tag].uop.pdst] : m \in Broadcast}

RenameNext ==
  \E i \in Bundle, cdb0, cdb1 \in {BusSilence} \cup BusMsg,
     done \in {{}} \cup {{t} : t \in Waiting({"store"})} :
       /\ cdb0.valid /\ cdb1.valid => cdb0.tag # cdb1.tag
       /\ recovery(FALSE) => i = <<>> /\ ~cdb0.valid /\ ~cdb1.valid
       /\ RenameTick(i, cdb0, cdb1, done, FALSE)

RenameSpec == RenameInit /\ [][RenameNext]_renameVars
-----------------------------------------------------------------------------
\* The instructions in flight that write a register, and those that write r.
Writers == {t \in Tag : rob_q[t].valid /\ effective_write(rob_q[t].uop)}
WritersOf(r) == {t \in Writers : rob_q[t].uop.rd = r}
Dst(t) == rob_q[t].uop.pdst
Mapped == {amt[r] : r \in Arch}

(***************************************************************************)
(* Every physical register is in exactly one place: free, committed, or    *)
(* the destination of one instruction in flight.  None leaks and none is   *)
(* handed out twice, through dual allocation, release and recovery.        *)
(***************************************************************************)
FreeListPartition ==
  /\ Phys = free_mask \cup Mapped \cup {Dst(t) : t \in Writers}
  /\ free_mask \cap Mapped = {}
  /\ \A t \in Writers : Dst(t) \notin free_mask \cup Mapped
  /\ \A t, u \in Writers : t # u => Dst(t) # Dst(u)
  /\ \A r, s \in Arch : r # s => amt[r] # amt[s]

\* The register that a reader placed after position n of the buffer must see.
MapBefore(r, n) ==
  LET older == {t \in WritersOf(r) : Position(t) < n}
  IN IF older = {} THEN amt[r]
     ELSE Dst(CHOOSE t \in older : \A u \in older : Position(u) <= Position(t))

(***************************************************************************)
(* The speculative map names the youngest writer in flight of each         *)
(* register, and what an instruction will release is the mapping it hid:   *)
(* the chain of old_pdst from rat_map leads to amt.                        *)
(***************************************************************************)
RenameChain ==
  \A r \in Arch \ {0} :
    /\ rat_map[r] = MapBefore(r, count_q)
    /\ \A t \in WritersOf(r) : rob_q[t].uop.old_pdst = MapBefore(r, Position(t))

(***************************************************************************)
(* Register file and reorder buffer agree: a destination is ready exactly  *)
(* when its instruction has completed, with the same value, and committed  *)
(* registers are ready.                                                    *)
(***************************************************************************)
ResultsAgree ==
  /\ \A r \in Arch : reg_ready[amt[r]]
  /\ \A t \in Writers :
       /\ reg_ready[Dst(t)] <=> rob_q[t].ready
       /\ rob_q[t].ready => reg_value[Dst(t)] = rob_q[t].value

\* The architectural registers, as read_arch_reg of mycore.v sees them.
regs == [r \in Arch |-> reg_value[amt[r]]]

Retired(file, c) ==
  [r \in Arch |->
     LET W == {k \in 1 .. Len(c) : effective_write(c[k].uop) /\ c[k].uop.rd = r}
     IN IF 2 \in W THEN c[2].value ELSE IF 1 \in W THEN c[1].value ELSE file[r]]

(***************************************************************************)
(* Precise architectural state: the architectural registers change only by *)
(* the results of the instructions that retire, in program order, however  *)
(* speculative results are written, registers recycled or maps rebuilt.    *)
(***************************************************************************)
PreciseRegisters == [][regs' = Retired(regs, commit(FALSE))]_renameVars
=============================================================================

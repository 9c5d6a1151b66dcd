------------------------- MODULE ReservationStation -------------------------
(***************************************************************************)
(* The unified reservation station                                         *)
(* (src/dut/mycore/reg/reservation_station.v): renamed instructions wait   *)
(* here for their operands, woken by the two bus lanes, and leave for the  *)
(* function units oldest first per class.                                  *)
(***************************************************************************)
EXTENDS Naturals, Sequences

CONSTANT RS_DEPTH     \* entries; 12 in the RTL

ASSUME RsDepthAssumption == RS_DEPTH \in Nat /\ RS_DEPTH >= 2

VARIABLE rs_q

RsIndex == 0 .. RS_DEPTH - 1

\* The rest of a free entry is never read, so it is not kept.
RsFree == [valid |-> FALSE]

\* An operand: does the instruction use it, under which physical register,
\* has it been seen, and with which value.
Operand(used, tag, ready, value) ==
  [used |-> used, tag |-> tag, ready |-> ready, value |-> value]

RsEntry(u, seq, rob, lsq, src1, src2) ==
  [valid |-> TRUE, uop |-> u, seq |-> seq, rob |-> rob, lsq |-> lsq,
   src1 |-> src1, src2 |-> src2]
----------------------------------------------------------------------------
rs_free == {i \in RsIndex : ~rs_q[i].valid}

\* The lowest slots of those free: each empty or one index.
FirstOf(S) == {i \in S : \A j \in S : i <= j}
free_index0 == FirstOf(rs_free)
free_index1 == FirstOf(rs_free \ free_index0)

\* Mutant of OperandReady: the second source is taken as it is.
OperandReadyAlways(s) == TRUE

OperandReady(s) == ~s.used \/ s.ready

ReadyToIssue(classes) ==
  {i \in RsIndex : /\ rs_q[i].valid
                   /\ OperandReady(rs_q[i].src1) /\ OperandReady(rs_q[i].src2)
                   /\ rs_q[i].uop.class \in classes}

\* The oldest of S: empty or one index.
Oldest(S) == {i \in S : \A j \in S : rs_q[i].seq <= rs_q[j].seq}

\* The four issue lanes.  Control instructions use integer lane 0 only.
int0 == Oldest(ReadyToIssue({"alu", "control"}))
int1 == Oldest(ReadyToIssue({"alu"}) \ int0)
m_lane == Oldest(ReadyToIssue({"muldiv"}))
lsu_lane == Oldest(ReadyToIssue({"load", "store"}))

\* Wake-up of one operand: lane 1 wins over lane 0.
Hears(s, m) == m.valid /\ m.writes /\ s.tag = m.pdst /\ s.used /\ ~s.ready

Woken(s, cdb0, cdb1) ==
  IF Hears(s, cdb1) THEN [s EXCEPT !.ready = TRUE, !.value = cdb1.value]
  ELSE IF Hears(s, cdb0) THEN [s EXCEPT !.ready = TRUE, !.value = cdb0.value]
  ELSE s

\* The clock edge: the entries in gone leave, the slots of new take theirs.
RsTick(new, gone, cdb0, cdb1, flush) ==
  rs_q' = [i \in RsIndex |->
    IF flush THEN RsFree
    ELSE IF i \in DOMAIN new THEN new[i]
    ELSE IF i \in gone \/ ~rs_q[i].valid THEN RsFree
    ELSE [rs_q[i] EXCEPT !.src1 = Woken(rs_q[i].src1, cdb0, cdb1),
                         !.src2 = Woken(rs_q[i].src2, cdb0, cdb1)]]

RsInit == rs_q = [i \in RsIndex |-> RsFree]
=============================================================================

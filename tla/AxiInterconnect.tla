-------------------------- MODULE AxiInterconnect ---------------------------
(***************************************************************************)
(* Between the adapters and the slaves: the arbiter of the two read        *)
(* masters (src/dut/axi/axi_read_arbiter.v) and the address decoder        *)
(* (src/dut/axi/axi_addr_decoder.v).                                       *)
(***************************************************************************)
EXTENDS AxiDefs

CONSTANTS RamWindow, MmioWindow      \* lines in the two windows

ASSUME WindowAssumption == RamWindow \cap MmioWindow = {}

(***************************************************************************)
(* The arbiter: one burst at a time, its owner locked from the choice to   *)
(* the last beat.                                                          *)
(***************************************************************************)
IdleArbiter == [state |-> "SELECT", owner |-> "icache", next_priority |-> "icache",
                arid |-> "icache", araddr |-> 0]

choose_s1(arb, s0_arvalid, s1_arvalid) ==
  s1_arvalid /\ (~s0_arvalid \/ arb.next_priority = "dcache")

\* In ST_SELECT a master wants the bus: its address is latched.
select(arb, s0_arvalid, s0_araddr, s1_arvalid, s1_araddr) ==
  LET s1 == choose_s1(arb, s0_arvalid, s1_arvalid)
      source == IF s1 THEN "dcache" ELSE "icache"
  IN [arb EXCEPT !.state = "AR", !.owner = source, !.arid = source,
                 !.araddr = IF s1 THEN s1_araddr ELSE s0_araddr]

arb_address_taken(arb) == [arb EXCEPT !.state = "R"]

\* The last beat gives the other master the first choice.
arb_burst_over(arb) ==
  [arb EXCEPT !.state = "SELECT",
              !.next_priority = IF arb.owner = "icache" THEN "dcache" ELSE "icache"]
-----------------------------------------------------------------------------
(***************************************************************************)
(* The decoder: the target of a burst is chosen with its address and kept  *)
(* to its end; a burst for no window is drained by the decoder itself and  *)
(* refused.                                                                *)
(***************************************************************************)
target_now(line) ==
  IF line \in RamWindow THEN "RAM" ELSE IF line \in MmioWindow THEN "MMIO" ELSE "ERR"

IdleReadDecoder == [state |-> "IDLE", target |-> "ERR", id |-> "icache", len |-> 0, beat |-> 0]

\* Mutant of read_routed: the target is not remembered for the burst.
read_routed_ram(d, id, line, len) ==
  IF target_now(line) = "ERR"
  THEN [d EXCEPT !.state = "ERR", !.id = id, !.len = len, !.beat = 0]
  ELSE [d EXCEPT !.state = "RESP", !.target = "RAM"]

read_routed(d, id, line, len) ==
  IF target_now(line) = "ERR"
  THEN [d EXCEPT !.state = "ERR", !.id = id, !.len = len, !.beat = 0]
  ELSE [d EXCEPT !.state = "RESP", !.target = target_now(line)]

\* The beats of a refused read, all but the last one followed by another.
refused_out(d) == [id |-> d.id, data |-> 0, last |-> d.beat = d.len, resp |-> "DECERR"]

read_passed(d, last) ==
  IF last THEN [d EXCEPT !.state = "IDLE", !.beat = IF d.state = "ERR" THEN 0 ELSE @]
  ELSE IF d.state = "ERR" THEN [d EXCEPT !.beat = @ + 1] ELSE d
-----------------------------------------------------------------------------
IdleWriteDecoder == [state |-> "IDLE", target |-> "ERR", id |-> "dcache"]

write_routed(d, id, line) ==
  IF target_now(line) = "ERR" THEN [d EXCEPT !.state = "ERR_DATA", !.id = id]
  ELSE [d EXCEPT !.state = "DATA", !.target = target_now(line)]

\* The beats of a refused write are taken and dropped.
write_passed(d, last) ==
  IF ~last THEN d
  ELSE [d EXCEPT !.state = IF @ = "ERR_DATA" THEN "ERR_RESP" ELSE "RESP"]

write_answered(d) == [d EXCEPT !.state = "IDLE"]
=============================================================================

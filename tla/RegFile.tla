------------------------------ MODULE RegFile ------------------------------
(***************************************************************************)
(* The physical register file (src/dut/mycore/reg/reg_R.v): a value and a  *)
(* ready bit per physical register, written by the two bus lanes, made     *)
(* not ready by allocation, read through bypasses.                         *)
(***************************************************************************)
EXTENDS Rat

CONSTANT Value     \* contents of a register

VARIABLES reg_value, reg_ready

regVars == <<reg_value, reg_ready>>

\* Does bus message m write physical register p?
Writes(m, p) == m.valid /\ m.writes /\ m.pdst = p

\* What a dispatching instruction reads through tag p: allocation hides the
\* old contents, then the bus lanes bypass the array, lane 1 over lane 0.
read_data(p, d, cdb0, cdb1) ==
  IF p = 0 \/ p \in Allocated(d) THEN 0
  ELSE IF Writes(cdb1, p) THEN cdb1.value
  ELSE IF Writes(cdb0, p) THEN cdb0.value
  ELSE reg_value[p]

\* Mutant of read_ready: the bus is not bypassed.
read_ready_late(p, d, cdb0, cdb1) ==
  p = 0 \/ (p \notin Allocated(d) /\ reg_ready[p])

read_ready(p, d, cdb0, cdb1) ==
  \/ p = 0
  \/ /\ p \notin Allocated(d)
     /\ Writes(cdb1, p) \/ Writes(cdb0, p) \/ reg_ready[p]

\* Mutant of RegTick: allocation does not clear the ready bit.
RegTickNoClear(d, cdb0, cdb1) ==
  /\ reg_value' = [p \in Phys |->
       IF p = 0 THEN 0
       ELSE IF Writes(cdb1, p) THEN cdb1.value
       ELSE IF Writes(cdb0, p) THEN cdb0.value
       ELSE reg_value[p]]
  /\ reg_ready' = [p \in Phys |->
       p = 0 \/ Writes(cdb1, p) \/ Writes(cdb0, p) \/ reg_ready[p]]

\* The clock edge.  Allocation beats a write of the same register.
RegTick(d, cdb0, cdb1) ==
  /\ reg_value' = [p \in Phys |->
       IF p = 0 THEN 0
       ELSE IF Writes(cdb1, p) THEN cdb1.value
       ELSE IF Writes(cdb0, p) THEN cdb0.value
       ELSE reg_value[p]]
  /\ reg_ready' = [p \in Phys |->
       \/ p = 0
       \/ /\ p \notin Allocated(d)
          /\ Writes(cdb1, p) \/ Writes(cdb0, p) \/ reg_ready[p]]

RegInit ==
  /\ reg_value = [p \in Phys |-> 0]
  /\ reg_ready = [p \in Phys |-> p \in Arch]
=============================================================================

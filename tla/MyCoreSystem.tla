---------------------------- MODULE MyCoreSystem -----------------------------
(***************************************************************************)
(* The memory side with the fault report of the top level                  *)
(* (src/dut/mycore_system.v): each cache turns an error answer into a      *)
(* fault one cycle later, and the top level keeps the first one for good.  *)
(* The flush of the instruction cache is tied low, so every request of a   *)
(* cache stays with it to its answer.                                      *)
(***************************************************************************)
EXTENDS MemorySystem

VARIABLES
  ic_line, dc_line,     \* the line a cache waits for: req_addr_q, wb_addr_q
  ic_fault, dc_fault,   \* fault outputs of the caches: empty or one record
  bus_fault,            \* bus_fault_*_out: empty or one record
  first                 \* history: the faults of the first cycle that had any, by side

NoFaults == [ic |-> {}, dc |-> {}]
faultVars == <<ic_line, dc_line, ic_fault, dc_fault, bus_fault, first>>
topVars == <<systemVars, faultVars>>

ic_faults == {[write |-> FALSE, line |-> ic_line, resp |-> r.resp] :
                r \in {a \in ic_resp : a.resp # "OKAY"}}
dc_faults == {[write |-> r.write, line |-> dc_line, resp |-> r.resp] :
                r \in {a \in dc_resp : a.resp # "OKAY"}}

\* Mutant of bus_fault_next: a later fault replaces the one that is reported.
bus_fault_latest ==
  IF dc_fault # {} THEN dc_fault ELSE IF ic_fault # {} THEN ic_fault ELSE bus_fault

\* The data side goes first when both report in one cycle.
bus_fault_next ==
  IF bus_fault # {} THEN bus_fault ELSE IF dc_fault # {} THEN dc_fault ELSE ic_fault

Faults(ireq, dreq) ==
  /\ ic_line' = IF ireq # {} THEN the(ireq) ELSE IF ic_resp # {} THEN 0 ELSE ic_line
  /\ dc_line' = IF dreq # {} THEN the(dreq).line ELSE IF dc_resp # {} THEN 0 ELSE dc_line
  /\ ic_fault' = ic_faults /\ dc_fault' = dc_faults
  /\ bus_fault' = bus_fault_next
  /\ first' = IF first # NoFaults THEN first ELSE [ic |-> ic_faults, dc |-> dc_faults]

TopInit ==
  /\ SystemInit
  /\ ic_line = 0 /\ dc_line = 0
  /\ ic_fault = {} /\ dc_fault = {} /\ bus_fault = {}
  /\ first = NoFaults

TopNext ==
  \E ireq \in InstrRequests, dreq \in DataRequests,
     slip \in IF to("RAM") THEN Slips ELSE {Faithful} :
    Clock(ireq, dreq, slip) /\ Faults(ireq, dreq)

TopSpec == TopInit /\ [][TopNext]_topVars
TopFairSpec == TopSpec /\ WF_topVars(TopNext)
-----------------------------------------------------------------------------
(***************************************************************************)
(* The fault that is reported is the first one answered to either cache,   *)
(* the data side's if both fail in one cycle, with the line, direction and *)
(* response of that very access; it is reported two cycles later and no    *)
(* later fault replaces it.                                                *)
(***************************************************************************)
FirstFaultKept ==
  /\ bus_fault # {} => bus_fault = IF first.dc # {} THEN first.dc ELSE first.ic
  /\ bus_fault = {} => first = [ic |-> ic_fault, dc |-> dc_fault]
=============================================================================

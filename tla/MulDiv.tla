------------------------------- MODULE MulDiv -------------------------------
(***************************************************************************)
(* The multiply/divide tracker (src/dut/mycore/controller/                 *)
(* muldiv_tracker.v): one operation at a time, a fixed latency, then a     *)
(* result that is held until the common data bus takes it.                 *)
(***************************************************************************)
EXTENDS Naturals

CONSTANT FIXED_LATENCY    \* cycles; 12 in the RTL

ASSUME LatencyAssumption == FIXED_LATENCY \in Nat \ {0}

VARIABLE md_q

MdIdle == [computing |-> FALSE, count |-> 0, result_valid |-> FALSE,
           value |-> 0, rob |-> 0, pdst |-> 0, writes |-> FALSE]

start_ready == ~md_q.computing /\ ~md_q.result_valid

\* start: the empty set, or the one operation handed over with its result.
MdTick(start, grant, flush) ==
  md_q' =
    IF flush THEN MdIdle
    ELSE IF start # {}
    THEN LET s == CHOOSE x \in start : TRUE
         IN [computing |-> TRUE, count |-> FIXED_LATENCY, result_valid |-> FALSE,
             value |-> s.value, rob |-> s.rob, pdst |-> s.pdst, writes |-> s.writes]
    ELSE IF md_q.computing
    THEN IF md_q.count > 1 THEN [md_q EXCEPT !.count = @ - 1]
         ELSE [md_q EXCEPT !.computing = FALSE, !.count = 0, !.result_valid = TRUE]
    ELSE IF md_q.result_valid /\ grant THEN MdIdle
    ELSE md_q

MdInit == md_q = MdIdle
=============================================================================

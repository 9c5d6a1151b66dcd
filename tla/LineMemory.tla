----------------------------- MODULE LineMemory ------------------------------
(***************************************************************************)
(* What the two caches assume behind them: a memory of lines with a read   *)
(* port for instructions and a port for data, each with one access at a    *)
(* time.  The data port is exact.  The instruction port is not a snapshot: *)
(* while the data port writes the line it reads, each word may be old or   *)
(* new.  Modules Icache and Dcache have such a memory as environment.      *)
(***************************************************************************)
EXTENDS AxiDefs

CONSTANTS
  Lines,          \* lines a cache may ask for
  RamLines,       \* those that exist
  FLAKY           \* whether a read of one that exists may fail

VARIABLES
  mem,                  \* the lines that exist
  instr, data,          \* the access of a port: empty or one record
  instr_resp, data_resp \* the answer of the last step: empty or one record

lineVars == <<mem, instr, data, instr_resp, data_resp>>

\* What a word of a line can be seen to be after this step.
Visible(line) ==
  [k \in Beat |-> IF line \notin RamLines THEN {}
                  ELSE {mem'[line][k]} \cup {d.before[k] : d \in {e \in data' : e.write /\ e.line = line}}]

Errors == {"SLVERR", "DECERR"}
MayFail(line) == line \notin RamLines \/ FLAKY
-----------------------------------------------------------------------------
InstrWait ==
  /\ instr' = {[p EXCEPT !.seen = [k \in Beat |-> @[k] \cup Visible(p.line)[k]]] : p \in instr}
  /\ instr_resp' = {}

InstrRequest ==
  /\ instr = {}
  /\ \E line \in Lines : instr' = {[line |-> line, seen |-> Visible(line)]}
  /\ instr_resp' = {}

InstrAnswer ==
  /\ instr' = {}
  /\ \E p \in instr, r \in instr_resp' :
       /\ instr_resp' = {r}
       /\ IF r.resp = "OKAY"
          THEN p.line \in RamLines /\ \A k \in Beat : r.data[k] \in p.seen[k]
          ELSE r.resp \in Errors /\ MayFail(p.line)

DataWait == UNCHANGED <<mem, data>> /\ data_resp' = {}

ReadRequest ==
  /\ data = {}
  /\ \E line \in Lines : data' = {[write |-> FALSE, line |-> line, before |-> ZeroLine]}
  /\ data_resp' = {}
  /\ UNCHANGED mem

\* A write is in force from its request on.
WriteRequest ==
  /\ data = {}
  /\ \E line \in Lines :
       /\ data' = {[write |-> TRUE, line |-> line,
                    before |-> IF line \in RamLines THEN mem[line] ELSE ZeroLine]}
       /\ mem' = [mem EXCEPT ![line] = mem'[line]]
  /\ data_resp' = {}

DataAnswer ==
  /\ data' = {}
  /\ \E p \in data, r \in data_resp' :
       /\ data_resp' = {r} /\ r.write = p.write
       /\ IF r.resp = "OKAY"
          THEN p.line \in RamLines /\ (~p.write => r.data = mem[p.line])
          ELSE r.resp \in Errors /\ (p.line \notin RamLines \/ (FLAKY /\ ~p.write))
  /\ UNCHANGED mem
-----------------------------------------------------------------------------
LineInit ==
  /\ mem \in [RamLines -> LineData]
  /\ instr = {} /\ data = {} /\ instr_resp = {} /\ data_resp = {}

LineNext ==
  /\ InstrWait \/ InstrRequest \/ InstrAnswer
  /\ DataWait \/ ReadRequest \/ WriteRequest \/ DataAnswer

LineSpec == LineInit /\ [][LineNext]_lineVars
=============================================================================

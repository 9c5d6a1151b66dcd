------------------------------- MODULE Icache -------------------------------
(***************************************************************************)
(* The instruction cache (src/dut/mem/Icache.v): reads of whole lines, one *)
(* at a time, and a flush that may come in any cycle.  A line memory       *)
(* cannot be told to forget a request it has taken, so a flush that meets  *)
(* one waits for its answer and throws it away.                            *)
(*                                                                         *)
(* The contents of a line are its version, raised whenever the backing     *)
(* memory is written by someone else.                                      *)
(***************************************************************************)
EXTENDS OneSet

CONSTANTS
  SETS,           \* PM_SET_NUM; 16 in the RTL
  TAGS,           \* lines that share a set
  MaxVersion      \* bound on the number of times a line is written

ASSUME IcacheAssumption ==
  SETS \in Nat \ {0} /\ TAGS \in Nat \ {0} /\ MaxVersion \in Nat

VARIABLES
  current_state, req_line_q, mem_req_sent, refill_done_q,
  sets,           \* the sets
  read_port,      \* the hit of the last cycle: rd_hit_DLY1, hit_way_DLY1
  lines,          \* versions of the lines in memory
  port,           \* the read the line memory works on, and the version when taken
  pm_resp,        \* the answer to the CPU in the last cycle: empty or one record
  asked,          \* the line the CPU waits for: empty or one line
  flushed         \* versions of the lines at the last flush

icacheVars == <<current_state, req_line_q, mem_req_sent, refill_done_q, sets, read_port,
                lines, port, pm_resp, asked, flushed>>

Lines == 0 .. SETS * TAGS - 1
Index(line) == line % SETS
TagOf(line) == line \div SETS
Empty == [i \in 0 .. SETS - 1 |-> EmptySet(0)]

set_of(line) == sets[Index(line)]
is_hit(line) == hit(set_of(line), TagOf(line))
NoRead == [hit |-> FALSE, index |-> 0, way |-> 0]
lookup(line) ==
  IF is_hit(line)
  THEN [hit |-> TRUE, index |-> Index(line), way |-> hit_way(set_of(line), TagOf(line))]
  ELSE NoRead
selected_rd_fire == read_port.hit /\ read_port.index = Index(req_line_q)

Line(version) == {[nop |-> FALSE, version |-> version]}
Nops == {[nop |-> TRUE, version |-> 0]}
----------------------------------------------------------------------------
Accept(line) ==
  /\ current_state = "IDLE"
  /\ req_line_q' = line /\ asked' = {line}
  /\ mem_req_sent' = FALSE /\ refill_done_q' = FALSE
  /\ current_state' = IF is_hit(line) THEN "BUSY"
                      ELSE IF needs_writeback(set_of(line)) THEN "WRMEM" ELSE "RDMEM"
  /\ read_port' = lookup(line)
  /\ pm_resp' = {}
  /\ UNCHANGED <<sets, lines, port, flushed>>

Rest ==
  /\ current_state = "IDLE"
  /\ mem_req_sent' = FALSE /\ refill_done_q' = FALSE
  /\ read_port' = NoRead /\ pm_resp' = {}
  /\ UNCHANGED <<current_state, req_line_q, sets, lines, port, asked, flushed>>

\* After a refill the set is read again; the answer waits for its port.
Busy ==
  /\ current_state = "BUSY"
  /\ read_port' = IF refill_done_q THEN lookup(req_line_q) ELSE NoRead
  /\ IF selected_rd_fire
     THEN /\ current_state' = "IDLE" /\ refill_done_q' = FALSE
          /\ pm_resp' = Line(sets[read_port.index][read_port.way].data) /\ asked' = {}
     ELSE pm_resp' = {} /\ UNCHANGED <<current_state, refill_done_q, asked>>
  /\ UNCHANGED <<req_line_q, mem_req_sent, sets, lines, port, flushed>>

\* The request is on the port; memory takes it or lets it wait.
Request(taken) ==
  /\ current_state = "RDMEM" /\ ~mem_req_sent
  /\ mem_req_sent' = taken
  /\ port' = IF taken THEN {[line |-> req_line_q, version |-> lines[req_line_q]]} ELSE {}
  /\ read_port' = NoRead /\ pm_resp' = {}
  /\ UNCHANGED <<current_state, req_line_q, refill_done_q, sets, lines, asked, flushed>>

\* Nothing to do but wait; a set is never dirty, so WRMEM only falls through.
Await ==
  /\ current_state \in {"RDMEM", "WRMEM", "DRAIN"}
  /\ current_state = "RDMEM" => mem_req_sent
  /\ current_state' = IF current_state = "DRAIN" THEN "DRAIN" ELSE "RDMEM"
  /\ read_port' = NoRead /\ pm_resp' = {}
  /\ UNCHANGED <<req_line_q, mem_req_sent, refill_done_q, sets, lines, port, asked, flushed>>

\* The line memory has read the line when it took the request, or just now.
read_versions == UNION {{p.version, lines[p.line]} : p \in port}

\* An error fills nothing and is answered with NOPs.
LineRead(error) ==
  /\ current_state = "RDMEM" /\ mem_req_sent /\ port # {}
  /\ mem_req_sent' = FALSE /\ refill_done_q' = ~error
  /\ IF error
     THEN /\ current_state' = "IDLE" /\ pm_resp' = Nops /\ asked' = {}
          /\ UNCHANGED sets
     ELSE /\ current_state' = "BUSY" /\ pm_resp' = {}
          /\ \E v \in read_versions :
               sets' = [sets EXCEPT ![Index(req_line_q)] = Refill(@, TagOf(req_line_q), v)]
          /\ UNCHANGED asked
  /\ read_port' = NoRead /\ port' = {}
  /\ UNCHANGED <<req_line_q, lines, flushed>>

Drained ==
  /\ current_state = "DRAIN" /\ port # {}
  /\ current_state' = "IDLE"
  /\ mem_req_sent' = FALSE /\ refill_done_q' = FALSE
  /\ port' = {} /\ read_port' = NoRead /\ pm_resp' = {}
  /\ UNCHANGED <<req_line_q, sets, lines, asked, flushed>>

\* Mutant of Flush: a waiting miss survives and fills its line.
FlushLeavesMiss(resp) ==
  /\ resp => port # {}
  /\ current_state' = IF current_state = "RDMEM" /\ ~resp THEN "RDMEM" ELSE "IDLE"
  /\ mem_req_sent' = (mem_req_sent /\ ~resp)
  /\ refill_done_q' = FALSE
  /\ sets' = Empty /\ read_port' = NoRead
  /\ port' = IF resp THEN {} ELSE port
  /\ pm_resp' = {} /\ asked' = {} /\ flushed' = lines
  /\ UNCHANGED <<lines, req_line_q>>

\* Mutant of Flush: an answer in the cycle of the flush is waited for again.
FlushMissesAnswer(resp) ==
  /\ resp => port # {}
  /\ current_state' = IF mem_req_sent THEN "DRAIN" ELSE "IDLE"
  /\ req_line_q' = 0 /\ refill_done_q' = FALSE
  /\ sets' = Empty /\ read_port' = NoRead
  /\ port' = IF resp THEN {} ELSE port
  /\ pm_resp' = {} /\ asked' = {} /\ flushed' = lines
  /\ UNCHANGED <<lines, mem_req_sent>>

\* A flush empties the sets, accepts and answers nothing; resp, the answer of
\* the line memory comes in this very cycle and is dropped.
Flush(resp) ==
  /\ resp => port # {}
  /\ current_state' = IF mem_req_sent /\ ~resp THEN "DRAIN" ELSE "IDLE"
  /\ mem_req_sent' = (mem_req_sent /\ ~resp)
  /\ req_line_q' = 0 /\ refill_done_q' = FALSE
  /\ sets' = Empty /\ read_port' = NoRead
  /\ port' = IF resp THEN {} ELSE port
  /\ pm_resp' = {} /\ asked' = {} /\ flushed' = lines
  /\ UNCHANGED lines

\* Someone else writes a line; the cache does not see it.
Rewrite(line) ==
  /\ lines[line] < MaxVersion
  /\ lines' = [lines EXCEPT ![line] = @ + 1]
  /\ pm_resp' = {}
  /\ UNCHANGED <<current_state, req_line_q, mem_req_sent, refill_done_q, sets, read_port,
                 port, asked, flushed>>

IcacheInit ==
  /\ current_state = "IDLE" /\ req_line_q = 0
  /\ mem_req_sent = FALSE /\ refill_done_q = FALSE
  /\ sets = Empty /\ read_port = NoRead
  /\ lines = [l \in Lines |-> 0] /\ port = {}
  /\ pm_resp = {} /\ asked = {} /\ flushed = lines

Respond == (\E error \in BOOLEAN : LineRead(error)) \/ Drained
FlushAny == \E resp \in BOOLEAN : Flush(resp)

IcacheNext ==
  \/ (\E line \in Lines : Accept(line) \/ Rewrite(line))
  \/ Rest \/ Busy \/ Await \/ Respond \/ FlushAny
  \/ \E taken \in BOOLEAN : Request(taken)

IcacheSpec == IcacheInit /\ [][IcacheNext]_icacheVars

IcacheFairSpec ==
  /\ IcacheSpec
  /\ WF_icacheVars(Busy)
  /\ WF_icacheVars(Request(TRUE))
  /\ WF_icacheVars(Respond \/ Flush(TRUE))
----------------------------------------------------------------------------
(***************************************************************************)
(* Properties.                                                             *)
(***************************************************************************)
(***************************************************************************)
(* Nothing of before a flush is seen after it: what the CPU is given is    *)
(* the line it waits for, no older than the last flush, and lines that are *)
(* cached are no older either.  A miss that was under way in the flush     *)
(* neither fills the cache nor answers a later request.                    *)
(***************************************************************************)
FreshAfterFlush ==
  [][\A r \in pm_resp' :
       \E line \in asked : ~r.nop => r.version >= flushed[line]]_icacheVars

CachedAfterFlush ==
  \A i \in 0 .. SETS - 1, w \in Way :
    sets[i][w].valid => sets[i][w].data >= flushed[sets[i][w].tag * SETS + i]

(***************************************************************************)
(* The cache becomes ready again: fetches are answered, a flushed request  *)
(* is drained, however often flushes come.                                 *)
(***************************************************************************)
ReadyAgain == current_state # "IDLE" ~> current_state = "IDLE"
=============================================================================

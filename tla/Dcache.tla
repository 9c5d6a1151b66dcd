------------------------------- MODULE Dcache -------------------------------
(***************************************************************************)
(* The write-back data cache (src/dut/mem/Dcache.v): one CPU access at a   *)
(* time, write allocation, a dirty victim written back before its way is   *)
(* refilled, and a load that runs over the end of a line done as two line  *)
(* accesses.  Behind it, a line memory that takes a request when it likes, *)
(* answers in any later cycle, and may answer with an error.               *)
(*                                                                         *)
(* One action is one clock cycle in one state of the controller.           *)
(***************************************************************************)
EXTENDS OneSet

CONSTANTS
  SETS,           \* DM_SET_NUM; 16 in the RTL
  TAGS,           \* lines that share a set
  LINE_BYTES,     \* DM_LINE_BYTES; 16 in the RTL
  ACCESS,         \* bytes of a load; 4 in the RTL
  RAM_LINES,      \* lines that exist; an access to another one is an error
  FLAKY,          \* whether the line memory may fail on a line that exists
  StoreData,      \* what stores may write
  MaxStores       \* bound on the number of stores

ASSUME DcacheAssumption ==
  /\ SETS \in Nat \ {0} /\ TAGS \in Nat \ {0}
  /\ ACCESS \in Nat \ {0} /\ LINE_BYTES \in Nat /\ LINE_BYTES >= ACCESS
  /\ RAM_LINES \in Nat /\ FLAKY \in BOOLEAN /\ MaxStores \in Nat
  /\ StoreData \subseteq [0 .. ACCESS - 1 -> Nat]

VARIABLES
  current_state, req_q, mem_req_sent, refill_done_q, wb_q, cross_q,
  sets,           \* the sets
  read_port,      \* the hit of the last cycle, per set: rd_hit_DLY1, hit_way_DLY1
  wr_fire,        \* the set written in the last cycle: empty or one index
  lines,          \* the line memory
  port,           \* the transaction the line memory works on
  cpu_resp,       \* the answer to the CPU in the last cycle: empty or one record
  stores          \* number of stores so far

ctrlVars == <<current_state, req_q, mem_req_sent, refill_done_q, wb_q, cross_q>>
dcacheVars == <<ctrlVars, sets, read_port, wr_fire, lines, port, cpu_resp, stores>>

Lines == 0 .. SETS * TAGS - 1
Offset == 0 .. LINE_BYTES - 1
Lane == 0 .. ACCESS - 1
Index(line) == line % SETS
TagOf(line) == line \div SETS
LineAt(tag, index) == tag * SETS + index
line2(line) == (line + 1) % (SETS * TAGS)
ZeroLine == [b \in Offset |-> 0]
ZeroWord == [b \in Lane |-> 0]

\* The load does not fit in its line.
crosses(r) == ~r.write /\ r.offset + ACCESS - 1 >= LINE_BYTES

\* The store's strobes and data moved to its place in the line; what lies
\* beyond the end of the line is dropped.
cpu_wstrb_line(r) == {r.offset + b : b \in r.strb} \cap Offset
cpu_wdata_line(r) == [b \in Offset |-> IF b >= r.offset /\ b - r.offset \in Lane
                                       THEN r.data[b - r.offset] ELSE 0]

set_of(line) == sets[Index(line)]
is_hit(line) == hit(set_of(line), TagOf(line))

\* The dirty victim that has to leave before line can come in.
victim(line) ==
  LET v == set_of(line)[victim_way(set_of(line))]
  IN [line |-> LineAt(v.tag, Index(line)), data |-> v.data]

\* Where a miss goes first.
miss_state(line) == IF needs_writeback(set_of(line)) THEN "WRMEM" ELSE "RDMEM"
captured(line) == IF needs_writeback(set_of(line)) THEN victim(line) ELSE wb_q

NoRead == [hit |-> FALSE, index |-> 0, way |-> 0]
lookup(line) ==
  IF is_hit(line)
  THEN [hit |-> TRUE, index |-> Index(line), way |-> hit_way(set_of(line), TagOf(line))]
  ELSE NoRead

selected_rd_fire == read_port.hit /\ read_port.index = Index(req_q.line)
selected_wr_fire == Index(req_q.line) \in wr_fire

\* The bytes of the access that the line on the read port has.
selected_read_word ==
  LET data == sets[read_port.index][read_port.way].data
  IN [b \in Lane |-> IF req_q.offset + b < LINE_BYTES THEN data[req_q.offset + b] ELSE 0]

\* Mutant of merged: the second line is read from the offset of the access.
merged_unshifted ==
  [b \in Lane |-> IF cross_q.offset + b < LINE_BYTES
                  THEN cross_q.data[b] ELSE selected_read_word[b]]

\* A load over two lines: the first part kept, the second one just read.
merged ==
  [b \in Lane |-> IF cross_q.offset + b < LINE_BYTES
                  THEN cross_q.data[b]
                  ELSE selected_read_word[cross_q.offset + b - LINE_BYTES]]

Response(data, fault) == {[write |-> req_q.write, fault |-> fault, data |-> data]}
Quiet == cpu_resp' = {}
----------------------------------------------------------------------------
(***************************************************************************)
(* IDLE: a request is accepted, or none comes.                             *)
(***************************************************************************)
Accept(r) ==
  /\ current_state = "IDLE" /\ ~cross_q.active
  /\ req_q' = r
  /\ current_state' = IF is_hit(r.line) THEN "BUSY" ELSE miss_state(r.line)
  /\ mem_req_sent' = FALSE /\ refill_done_q' = FALSE
  /\ cross_q' = [cross_q EXCEPT !.active = crosses(r), !.phase = FALSE,
                                !.offset = IF crosses(r) THEN r.offset ELSE 0]
  /\ wb_q' = IF is_hit(r.line) THEN wb_q ELSE captured(r.line)
  /\ sets' = IF r.write /\ is_hit(r.line)
             THEN [sets EXCEPT ![Index(r.line)] =
                     WriteHit(@, TagOf(r.line), cpu_wstrb_line(r), cpu_wdata_line(r))]
             ELSE sets
  /\ wr_fire' = IF r.write /\ is_hit(r.line) THEN {Index(r.line)} ELSE {}
  /\ read_port' = IF r.write THEN NoRead ELSE lookup(r.line)
  /\ Quiet
  /\ UNCHANGED <<lines, port>>

Rest ==
  /\ current_state = "IDLE"
  /\ mem_req_sent' = FALSE /\ refill_done_q' = FALSE
  /\ wr_fire' = {} /\ read_port' = NoRead
  /\ Quiet
  /\ UNCHANGED <<current_state, req_q, wb_q, cross_q, sets, lines, port, stores>>

(***************************************************************************)
(* BUSY: the line is there.  After a refill the set is accessed again; the *)
(* answer waits for the port to fire.                                      *)
(***************************************************************************)
first_half_read == cross_q.active /\ ~cross_q.phase /\ ~req_q.write /\ selected_rd_fire
fired == IF req_q.write THEN selected_wr_fire ELSE selected_rd_fire

\* The set ports in a BUSY cycle.
BusyPorts ==
  LET write == refill_done_q /\ req_q.write /\ is_hit(req_q.line)
  IN
  /\ sets' = IF write
             THEN [sets EXCEPT ![Index(req_q.line)] =
                     WriteHit(@, TagOf(req_q.line), cpu_wstrb_line(req_q),
                              cpu_wdata_line(req_q))]
             ELSE sets
  /\ wr_fire' = IF write THEN {Index(req_q.line)} ELSE {}
  /\ read_port' = IF refill_done_q /\ ~req_q.write THEN lookup(req_q.line) ELSE NoRead

BusyWait ==
  /\ current_state = "BUSY" /\ ~fired
  /\ BusyPorts /\ Quiet
  /\ UNCHANGED <<ctrlVars, lines, port, stores>>

BusyFirstHalf ==
  /\ current_state = "BUSY" /\ first_half_read
  /\ current_state' = "CROSSLINE"
  /\ cross_q' = [cross_q EXCEPT !.data = selected_read_word, !.phase = TRUE]
  /\ req_q' = [req_q EXCEPT !.line = line2(@), !.offset = 0]
  /\ refill_done_q' = FALSE /\ mem_req_sent' = FALSE
  /\ BusyPorts /\ Quiet
  /\ UNCHANGED <<wb_q, lines, port, stores>>

BusyDone ==
  /\ current_state = "BUSY" /\ fired /\ ~first_half_read
  /\ current_state' = "IDLE"
  /\ cross_q' = [cross_q EXCEPT !.active = FALSE,
                                !.phase = IF cross_q.active THEN FALSE ELSE @]
  /\ refill_done_q' = FALSE
  /\ cpu_resp' = Response(IF req_q.write THEN ZeroWord
                          ELSE IF cross_q.active THEN merged ELSE selected_read_word, FALSE)
  /\ BusyPorts
  /\ UNCHANGED <<req_q, mem_req_sent, wb_q, lines, port, stores>>

(***************************************************************************)
(* CROSSLINE: the second line of a load is looked up.                      *)
(***************************************************************************)
CrossLine ==
  /\ current_state = "CROSSLINE"
  /\ current_state' = IF is_hit(req_q.line) THEN "BUSY" ELSE miss_state(req_q.line)
  /\ IF ~is_hit(req_q.line) /\ needs_writeback(set_of(req_q.line))
     THEN wb_q' = victim(req_q.line) /\ mem_req_sent' = FALSE
     ELSE UNCHANGED <<wb_q, mem_req_sent>>
  /\ read_port' = lookup(req_q.line) /\ wr_fire' = {}
  /\ Quiet
  /\ UNCHANGED <<req_q, refill_done_q, cross_q, sets, lines, port, stores>>

(***************************************************************************)
(* WRMEM and RDMEM: the victim is written back, the line is read.  The     *)
(* answer comes after the cycle of the request, never in it.               *)
(***************************************************************************)
no_set_access == read_port' = NoRead /\ wr_fire' = {} /\ UNCHANGED sets

\* Mutant of Request: a request that memory lets wait counts as sent.
RequestUnheard(taken) ==
  /\ current_state \in {"WRMEM", "RDMEM"} /\ ~mem_req_sent
  /\ mem_req_sent' = TRUE
  /\ port' = IF taken
             THEN IF current_state = "WRMEM"
                  THEN [kind |-> "write", line |-> wb_q.line, data |-> wb_q.data]
                  ELSE [kind |-> "read", line |-> req_q.line, data |-> ZeroLine]
             ELSE port
  /\ no_set_access /\ Quiet
  /\ UNCHANGED <<current_state, req_q, refill_done_q, wb_q, cross_q, lines, stores>>

\* A request is on the port; memory takes it or lets it wait.
Request(taken) ==
  /\ current_state \in {"WRMEM", "RDMEM"} /\ ~mem_req_sent
  /\ mem_req_sent' = taken
  /\ port' = IF taken
             THEN IF current_state = "WRMEM"
                  THEN [kind |-> "write", line |-> wb_q.line, data |-> wb_q.data]
                  ELSE [kind |-> "read", line |-> req_q.line, data |-> ZeroLine]
             ELSE port
  /\ no_set_access /\ Quiet
  /\ UNCHANGED <<current_state, req_q, refill_done_q, wb_q, cross_q, lines, stores>>

Await ==
  /\ current_state \in {"WRMEM", "RDMEM"} /\ mem_req_sent
  /\ no_set_access /\ Quiet
  /\ UNCHANGED <<ctrlVars, lines, port, stores>>

NoPort == [kind |-> "none", line |-> 0, data |-> ZeroLine]
may_fail == FLAKY \/ port.line >= RAM_LINES
must_fail == port.line >= RAM_LINES

\* An access that fails is answered, and its cross-line state forgotten.
Abort ==
  /\ current_state' = "IDLE"
  /\ cross_q' = [cross_q EXCEPT !.active = FALSE, !.phase = FALSE]
  /\ refill_done_q' = FALSE
  /\ cpu_resp' = Response(ZeroWord, TRUE)

WrittenBack(error) ==
  /\ current_state = "WRMEM" /\ mem_req_sent /\ port.kind = "write"
  /\ (error => may_fail) /\ (must_fail => error)
  /\ mem_req_sent' = FALSE
  /\ IF error THEN Abort /\ UNCHANGED lines
     ELSE /\ current_state' = "RDMEM"
          /\ lines' = [lines EXCEPT ![port.line] = port.data]
          /\ Quiet /\ UNCHANGED <<refill_done_q, cross_q>>
  /\ port' = NoPort
  /\ no_set_access
  /\ UNCHANGED <<req_q, wb_q, stores>>

LineRead(error) ==
  /\ current_state = "RDMEM" /\ mem_req_sent /\ port.kind = "read"
  /\ (error => may_fail) /\ (must_fail => error)
  /\ mem_req_sent' = FALSE
  /\ IF error THEN Abort /\ no_set_access
     ELSE /\ current_state' = "BUSY" /\ refill_done_q' = TRUE
          /\ sets' = [sets EXCEPT ![Index(req_q.line)] =
                        Refill(@, TagOf(req_q.line), lines[port.line])]
          /\ wr_fire' = {Index(req_q.line)} /\ read_port' = NoRead
          /\ Quiet /\ UNCHANGED cross_q
  /\ port' = NoPort
  /\ UNCHANGED <<req_q, wb_q, lines, stores>>
----------------------------------------------------------------------------
NoRequest == [write |-> FALSE, line |-> 0, offset |-> 0, strb |-> {}, data |-> ZeroWord]

\* Loads anywhere; stores that stay in their line, as aligned ones do.
Loads == [write : {FALSE}, line : Lines, offset : Offset, strb : {{}}, data : {ZeroWord}]
Stores ==
  {r \in [write : {TRUE}, line : Lines, offset : Offset,
          strb : SUBSET Lane, data : StoreData] :
     \A b \in r.strb : r.offset + b < LINE_BYTES}

DcacheInit ==
  /\ current_state = "IDLE" /\ req_q = NoRequest
  /\ mem_req_sent = FALSE /\ refill_done_q = FALSE
  /\ wb_q = [line |-> 0, data |-> ZeroLine]
  /\ cross_q = [active |-> FALSE, phase |-> FALSE, data |-> ZeroWord, offset |-> 0]
  /\ sets = [i \in 0 .. SETS - 1 |-> EmptySet(ZeroLine)]
  /\ read_port = NoRead /\ wr_fire = {}
  /\ lines = [l \in Lines |-> ZeroLine]
  /\ port = NoPort /\ cpu_resp = {} /\ stores = 0

AcceptAny ==
  \/ \E r \in Loads : Accept(r) /\ UNCHANGED stores
  \/ \E r \in Stores : stores < MaxStores /\ Accept(r) /\ stores' = stores + 1

Busy == BusyWait \/ BusyFirstHalf \/ BusyDone
Respond == \E error \in BOOLEAN : WrittenBack(error) \/ LineRead(error)

DcacheNext ==
  \/ AcceptAny \/ Rest \/ Busy \/ CrossLine
  \/ (\E taken \in BOOLEAN : Request(taken)) \/ Await \/ Respond

DcacheSpec == DcacheInit /\ [][DcacheNext]_dcacheVars

DcacheFairSpec ==
  /\ DcacheSpec
  /\ WF_dcacheVars(Busy \/ CrossLine)
  /\ WF_dcacheVars(Request(TRUE))
  /\ WF_dcacheVars(Respond)
----------------------------------------------------------------------------
(***************************************************************************)
(* Properties.                                                             *)
(***************************************************************************)
(***************************************************************************)
(* The cache is invisible: with the line memory behind it, it is a memory  *)
(* of bytes that serves one access at a time.  What an address holds is    *)
(* the cached copy where there is one, else the line in memory; a store    *)
(* that hit has taken place when it is answered.                           *)
(***************************************************************************)
held(line) ==
  IF is_hit(line) THEN set_of(line)[hit_way(set_of(line), TagOf(line))].data ELSE lines[line]

space ==
  [a \in 0 .. SETS * TAGS * LINE_BYTES - 1 |-> held(a \div LINE_BYTES)[a % LINE_BYTES]]

\* The line of the access in service; of a load over two lines, the first.
first_line ==
  IF cross_q.active /\ cross_q.phase
  THEN (req_q.line + SETS * TAGS - 1) % (SETS * TAGS) ELSE req_q.line

access ==
  [write |-> req_q.write,
   addr |-> first_line * LINE_BYTES + (IF cross_q.active THEN cross_q.offset ELSE req_q.offset),
   strb |-> req_q.strb, data |-> req_q.data,
   done |-> req_q.write /\ current_state = "BUSY" /\ ~refill_done_q]
served == IF current_state = "IDLE" THEN {} ELSE {access}

Bytes == INSTANCE ByteMemory WITH
  BYTES <- SETS * TAGS * LINE_BYTES, bytes <- space, request <- served, answer <- cpu_resp
ImplementsMemory == Bytes!ByteSpec

(***************************************************************************)
(* No line is cached twice, and the ages of a set order its ways by        *)
(* filling, so the victim of a full set is its oldest line.                *)
(***************************************************************************)
FilledInOrder ==
  \A i \in 0 .. SETS - 1 : OneCopyEach(sets[i]) /\ AgesOrdered(sets[i])

(***************************************************************************)
(* A line that is not marked dirty may be dropped: it equals memory.       *)
(***************************************************************************)
CleanMatchesMemory ==
  \A i \in 0 .. SETS - 1, w \in Way :
    LET e == sets[i][w]
    IN e.valid /\ ~e.dirty => e.data = lines[LineAt(e.tag, i)]

(***************************************************************************)
(* Every access is answered, as long as the line memory takes requests and *)
(* answers them, be it with an error.                                      *)
(***************************************************************************)
EveryAccessAnswered == current_state # "IDLE" ~> cpu_resp # {}

(***************************************************************************)
(* An access to bytes that exist does not fail when memory does not: the   *)
(* contract of the README for naturally aligned accesses in RAM.  A byte   *)
(* load is aligned everywhere.                                             *)
(***************************************************************************)
ExistingBytesReadable ==
  [][\A r \in cpu_resp' : r.fault => \A q \in served : q.addr \div LINE_BYTES >= RAM_LINES]_dcacheVars
=============================================================================

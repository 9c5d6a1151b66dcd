----------------------------- MODULE InstrQueue -----------------------------
(***************************************************************************)
(* The instruction queue (src/dut/mycore/reg/instr_queue.v): a ring of     *)
(* fetched lines between the instruction memory, which answers requests in *)
(* order and cannot be told to forget one, and two-wide dispatch.  A       *)
(* redirect empties the ring and counts the responses that are still to    *)
(* come and must be thrown away.                                           *)
(*                                                                         *)
(* Addresses are counted in instructions; the contents of a line are       *)
(* represented by the address of its first instruction.                    *)
(***************************************************************************)
EXTENDS Naturals, Sequences

CONSTANTS
  QUEUE_DEPTH,      \* lines in the ring; 8 in the RTL
  LINE,             \* instructions per line; 4 in the RTL
  PCS,              \* instruction addresses, a multiple of LINE
  MaxInflight,      \* requests the memory may hold unanswered
  MaxRedirects      \* bound on the number of redirects

ASSUME QueueAssumption ==
  /\ QUEUE_DEPTH \in Nat \ {0} /\ LINE \in Nat /\ LINE >= 2
  /\ PCS \in Nat /\ PCS > 0 /\ PCS % LINE = 0
  /\ MaxInflight \in Nat /\ MaxRedirects \in Nat

VARIABLES
  read_ptr, alloc_ptr, response_ptr,   \* ring pointers, one bit wider than an index
  fetch_pc_q,                          \* the next address to request
  stale_response_count_q,              \* responses to throw away
  fifo,                                \* the lines
  inflight,                            \* lines requested from memory, unanswered
  taken, redirected,                   \* what happened in the last cycle
  redirects                            \* number of redirects so far

queueVars == <<read_ptr, alloc_ptr, response_ptr, fetch_pc_q, stale_response_count_q,
               fifo, inflight, taken, redirected, redirects>>

PC == 0 .. PCS - 1
Pointer == 0 .. 2 * QUEUE_DEPTH - 1
Bump(p) == (p + 1) % (2 * QUEUE_DEPTH)
Index(p) == p % QUEUE_DEPTH
LineOf(pc) == pc - (pc % LINE)
EmptySlot == [line |-> 0, base |-> 0, word |-> 0, valid |-> FALSE]
----------------------------------------------------------------------------
queue_empty == alloc_ptr = read_ptr
queue_full == Index(alloc_ptr) = Index(read_ptr) /\ alloc_ptr # read_ptr
outstanding_count == (alloc_ptr + 2 * QUEUE_DEPTH - response_ptr) % (2 * QUEUE_DEPTH)

slot == fifo[Index(read_ptr)]
head_ready == ~queue_empty /\ slot.valid

\* The instruction words on offer: two, or one at the end of a line.
offered ==
  IF ~head_ready THEN <<>>
  ELSE IF slot.word = LINE - 1 THEN <<slot.line + slot.word>>
  ELSE <<slot.line + slot.word, slot.line + slot.word + 1>>

consume_actual(count) == IF count < Len(offered) THEN count ELSE Len(offered)

\* Mutant of stale_total: the response of the redirect cycle is counted too.
stale_total_late(resp) == stale_response_count_q + outstanding_count

\* Mutant of stale_total: a second redirect forgets what the first still waits for.
stale_total_forgets(resp) ==
  IF resp /\ outstanding_count # 0 THEN outstanding_count - 1 ELSE outstanding_count

stale_total(resp) ==
  LET all == stale_response_count_q + outstanding_count
  IN IF resp /\ all # 0 THEN all - 1 ELSE all
----------------------------------------------------------------------------
\* A redirect: nothing else happens in this cycle but the drop of a response.
QueueRedirect(target, resp) ==
  /\ read_ptr' = 0 /\ alloc_ptr' = 0 /\ response_ptr' = 0
  /\ fetch_pc_q' = target
  /\ stale_response_count_q' = stale_total(resp)
  /\ fifo' = [i \in 0 .. QUEUE_DEPTH - 1 |-> [fifo[i] EXCEPT !.word = 0, !.valid = FALSE]]

\* An ordinary cycle: fire, a request is accepted; n words are consumed; resp,
\* memory answers with a line.
QueueAdvance(fire, n, resp, line) ==
  LET finishes == n # 0 /\ slot.word + n >= LINE
      keep == resp /\ stale_response_count_q = 0 /\ (response_ptr # alloc_ptr \/ fire)
  IN
  /\ alloc_ptr' = IF fire THEN Bump(alloc_ptr) ELSE alloc_ptr
  /\ fetch_pc_q' = IF fire THEN (LineOf(fetch_pc_q) + LINE) % PCS ELSE fetch_pc_q
  /\ read_ptr' = IF finishes THEN Bump(read_ptr) ELSE read_ptr
  /\ response_ptr' = IF keep THEN Bump(response_ptr) ELSE response_ptr
  /\ stale_response_count_q' =
       IF resp /\ stale_response_count_q # 0 THEN stale_response_count_q - 1
       ELSE stale_response_count_q
  /\ fifo' = [i \in 0 .. QUEUE_DEPTH - 1 |->
       LET requested == IF fire /\ i = Index(alloc_ptr)
             THEN [fifo[i] EXCEPT !.base = LineOf(fetch_pc_q),
                                  !.word = fetch_pc_q % LINE, !.valid = FALSE]
             ELSE fifo[i]
           consumed == IF n # 0 /\ i = Index(read_ptr)
             THEN IF finishes THEN [requested EXCEPT !.word = 0, !.valid = FALSE]
                  ELSE [requested EXCEPT !.word = @ + n]
             ELSE requested
       IN IF keep /\ i = Index(response_ptr)
          THEN [consumed EXCEPT !.line = line, !.valid = TRUE] ELSE consumed]

\* One cycle.  Memory may answer a request in the cycle it accepts it.
QueueCycle(accept, resp, count, target) ==
  LET fire == accept /\ target = {} /\ ~queue_full
      pending == IF fire THEN Append(inflight, LineOf(fetch_pc_q)) ELSE inflight
      n == IF target = {} THEN consume_actual(count) ELSE 0
  IN
  /\ accept => target = {} /\ ~queue_full /\ Len(inflight) < MaxInflight
  /\ resp => pending # <<>>
  /\ Len(inflight) <= MaxInflight
  /\ \/ target = {} /\ QueueAdvance(fire, n, resp, IF resp THEN Head(pending) ELSE 0)
     \/ target # {} /\ QueueRedirect(CHOOSE t \in target : TRUE, resp)
  /\ inflight' = IF resp THEN Tail(pending) ELSE pending
  /\ taken' = SubSeq(offered, 1, n)
  /\ redirected' = target
  /\ redirects' = redirects + (IF target = {} THEN 0 ELSE 1)

QueueInit ==
  /\ read_ptr = 0 /\ alloc_ptr = 0 /\ response_ptr = 0
  /\ fetch_pc_q = 0 /\ stale_response_count_q = 0
  /\ fifo = [i \in 0 .. QUEUE_DEPTH - 1 |-> EmptySlot]
  /\ inflight = <<>> /\ taken = <<>> /\ redirected = {} /\ redirects = 0

Targets == {{}} \cup {{t} : t \in IF redirects < MaxRedirects THEN PC ELSE {}}

QueueNext ==
  \E accept, resp \in BOOLEAN, count \in 0 .. 2, target \in Targets :
    /\ target # {} => count = 0
    /\ QueueCycle(accept, resp, count, target)

QueueSpec == QueueInit /\ [][QueueNext]_queueVars
----------------------------------------------------------------------------
(***************************************************************************)
(* Properties.                                                             *)
(***************************************************************************)
(***************************************************************************)
(* Requests and responses stay paired across redirects: memory owes        *)
(* exactly the stale responses and then those of the ring's outstanding    *)
(* lines, in the order of the ring.                                        *)
(***************************************************************************)
ResponsesOwed ==
  /\ Len(inflight) = stale_response_count_q + outstanding_count
  /\ \A k \in 1 .. outstanding_count :
       inflight[stale_response_count_q + k] = fifo[Index(response_ptr + k - 1)].base

\* The next instruction to be delivered, delivered or not yet requested.
next_pc == IF queue_empty THEN fetch_pc_q ELSE slot.base + slot.word

(***************************************************************************)
(* The queue implements the in-order instruction stream: what dispatch     *)
(* takes are the instructions of consecutive addresses, none skipped,      *)
(* repeated or left over from before a redirect.                           *)
(***************************************************************************)
Stream == INSTANCE FetchStream WITH stream_pc <- next_pc
ImplementsStream == Stream!StreamSpec

(***************************************************************************)
(* The queue never runs dry for good: while the clock ticks and memory     *)
(* accepts and answers, an instruction is eventually on offer.             *)
(***************************************************************************)
NeverStarves == ~head_ready ~> head_ready

QueueFairSpec ==
  /\ QueueSpec
  /\ WF_queueVars(\E resp \in BOOLEAN, count \in 0 .. 2, target \in Targets :
                    QueueCycle(TRUE, resp, count, target))
  /\ WF_queueVars(\E accept \in BOOLEAN, count \in 0 .. 2, target \in Targets :
                    QueueCycle(accept, TRUE, count, target))
=============================================================================

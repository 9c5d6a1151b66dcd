-------------------------------- MODULE Lsq --------------------------------
(***************************************************************************)
(* The load/store queue (src/dut/mycore/reg/lsq.v): memory instructions in *)
(* program order, one data-memory transaction at a time.  Loads wait for   *)
(* every older memory instruction and every older control or fence; a      *)
(* store waits until it heads the reorder buffer.  A flush that meets an   *)
(* accepted request must still swallow its response: the drop state.       *)
(*                                                                         *)
(* Accesses are of whole words: lane strobes and load extension do not     *)
(* take part in ordering.                                                  *)
(***************************************************************************)
EXTENDS Naturals, Sequences

CONSTANT LSQ_DEPTH     \* entries; 8 in the RTL

ASSUME LsqDepthAssumption == LSQ_DEPTH \in Nat /\ LSQ_DEPTH >= 2

VARIABLES
  lsq_q,       \* the queue entries
  req_q,       \* the request being presented (pending) or served (busy)
  drop_q,      \* a flushed transaction whose response is still to come
  load_q,      \* a loaded value waiting for the bus
  store_q      \* the one-cycle completion pulse of a store

lsqVars == <<lsq_q, req_q, drop_q, load_q, store_q>>

LsqIndex == 0 .. LSQ_DEPTH - 1

\* The rest of a free entry is never read, so it is not kept.
LsqFree == [valid |-> FALSE]
LsqEntry(isStore, seq, rob, pdst, writes) ==
  [valid |-> TRUE, is_store |-> isStore, addr_valid |-> FALSE, issued |-> FALSE,
   seq |-> seq, rob |-> rob, pdst |-> pdst, writes |-> writes, addr |-> 0, wdata |-> 0]

NoRequest == [pending |-> FALSE, busy |-> FALSE, write |-> FALSE, index |-> 0,
              addr |-> 0, wdata |-> 0, rob |-> 0, pdst |-> 0, writes |-> FALSE]
NoLoad == [valid |-> FALSE, rob |-> 0, pdst |-> 0, writes |-> FALSE, value |-> 0]
NoStore == [valid |-> FALSE, rob |-> 0]
NoDrop == [active |-> FALSE, write |-> FALSE]
----------------------------------------------------------------------------
lsq_free == {i \in LsqIndex : ~lsq_q[i].valid}
MinOf(S) == IF S = {} THEN 0 ELSE CHOOSE i \in S : \A j \in S : i <= j
first_free_index == MinOf(lsq_free)
second_free_index == MinOf(lsq_free \ {first_free_index})

memory_idle == ~req_q.pending /\ ~req_q.busy /\ ~drop_q.active /\ ~load_q.valid

Unissued == {i \in LsqIndex : /\ lsq_q[i].valid /\ lsq_q[i].addr_valid
                              /\ ~lsq_q[i].issued}

\* Mutant of older_access: younger loads may pass an older store.
older_load_only(i) ==
  \E j \in LsqIndex : /\ lsq_q[j].valid /\ ~lsq_q[j].is_store
                      /\ lsq_q[j].seq < lsq_q[i].seq
older_access(i) ==
  \E j \in LsqIndex : lsq_q[j].valid /\ lsq_q[j].seq < lsq_q[i].seq

\* Mutant of candidate: control and fence instructions do not hold loads back.
candidate_no_barrier(head, barriers, flush) ==
  IF flush \/ ~memory_idle THEN {}
  ELSE IF head.is_store
       THEN {i \in Unissued : lsq_q[i].is_store /\ lsq_q[i].rob = head.tag}
       ELSE {i \in Unissued : ~lsq_q[i].is_store /\ ~older_access(i)}

\* The access to prepare next: empty or one index.  head tells whether a store
\* heads the reorder buffer, and its tag; barriers are the sequence numbers of
\* the control and fence instructions in flight.
candidate(head, barriers, flush) ==
  IF flush \/ ~memory_idle THEN {}
  ELSE IF head.is_store
       THEN {i \in Unissued : lsq_q[i].is_store /\ lsq_q[i].rob = head.tag}
       ELSE {i \in Unissued : /\ ~lsq_q[i].is_store
                              /\ ~older_access(i)
                              /\ \A b \in barriers : b >= lsq_q[i].seq}

rvalid(flush) == req_q.pending /\ ~req_q.write /\ ~flush
wvalid(flush) == req_q.pending /\ req_q.write /\ ~flush

\* io is what the data memory drives: two ready lines and two response lines.
request_fire(io, flush) == (rvalid(flush) /\ io.rready) \/ (wvalid(flush) /\ io.wready)
response_for(write, io) == IF write THEN io.wresp ELSE io.rresp
active_response(io) == response_for(req_q.write, io)
----------------------------------------------------------------------------
(***************************************************************************)
(* The clock edge.                                                         *)
(***************************************************************************)
\* Mutant of LsqFlush: a response still to come is forgotten.
LsqFlushForgets(io) ==
  /\ lsq_q' = [i \in LsqIndex |-> LsqFree]
  /\ req_q' = [req_q EXCEPT !.pending = FALSE, !.busy = FALSE]
  /\ load_q' = NoLoad /\ store_q' = NoStore /\ drop_q' = NoDrop

LsqFlush(io) ==
  /\ lsq_q' = [i \in LsqIndex |-> LsqFree]
  /\ req_q' = NoRequest
  /\ load_q' = NoLoad
  /\ store_q' = NoStore
  /\ drop_q' =
       IF drop_q.active
       THEN IF response_for(drop_q.write, io) THEN NoDrop ELSE drop_q
       ELSE IF req_q.busy /\ ~active_response(io)
            THEN [active |-> TRUE, write |-> req_q.write]
            ELSE NoDrop

\* new: the entries dispatched, keyed by the index they go to.  agu: the address
\* generation result, if valid.  grant: the bus takes the loaded value.
LsqAdvance(new, agu, cand, io, grant) ==
  LET fire == request_fire(io, FALSE)
      answered == (req_q.busy \/ fire) /\ active_response(io)
  IN
  /\ lsq_q' = [i \in LsqIndex |->
       IF answered /\ i = req_q.index THEN LsqFree
       ELSE IF i \in DOMAIN new THEN new[i]
       ELSE IF fire /\ i = req_q.index THEN [lsq_q[i] EXCEPT !.issued = TRUE]
       ELSE IF agu.valid /\ i = agu.index /\ lsq_q[i].valid
            THEN [lsq_q[i] EXCEPT !.addr_valid = TRUE, !.addr = agu.addr,
                                  !.wdata = agu.wdata]
       ELSE lsq_q[i]]
  /\ req_q' =
       IF cand # {}
       THEN LET i == CHOOSE j \in cand : TRUE
            IN [pending |-> TRUE, busy |-> FALSE, write |-> lsq_q[i].is_store,
                index |-> i, addr |-> lsq_q[i].addr, wdata |-> lsq_q[i].wdata,
                rob |-> lsq_q[i].rob, pdst |-> lsq_q[i].pdst,
                writes |-> lsq_q[i].writes]
       ELSE IF answered THEN NoRequest
       ELSE IF fire THEN [req_q EXCEPT !.pending = FALSE, !.busy = TRUE]
       ELSE req_q
  /\ drop_q' = IF drop_q.active /\ response_for(drop_q.write, io) THEN NoDrop ELSE drop_q
  /\ load_q' =
       IF answered /\ ~req_q.write
       THEN [valid |-> TRUE, rob |-> req_q.rob, pdst |-> req_q.pdst,
             writes |-> req_q.writes, value |-> io.rdata]
       ELSE IF grant THEN NoLoad ELSE load_q
  /\ store_q' =
       IF answered /\ req_q.write THEN [valid |-> TRUE, rob |-> req_q.rob] ELSE NoStore

\* Mutant of LsqTick: a flush does not reach the queue.
LsqTickUnflushed(new, agu, head, barriers, io, grant, flush) ==
  LsqAdvance(new, agu, candidate(head, barriers, FALSE), io, grant)

LsqTick(new, agu, head, barriers, io, grant, flush) ==
  IF flush THEN LsqFlush(io)
  ELSE LsqAdvance(new, agu, candidate(head, barriers, FALSE), io, grant)

LsqInit ==
  /\ lsq_q = [i \in LsqIndex |-> LsqFree]
  /\ req_q = NoRequest /\ drop_q = NoDrop /\ load_q = NoLoad /\ store_q = NoStore
=============================================================================

------------------------------ MODULE LsqUnit ------------------------------
(***************************************************************************)
(* The load/store queue on its own, with everything its ports allow: loads *)
(* and stores and barriers enter in program order, addresses arrive in any *)
(* order, memory accepts and answers when it likes, loaded values wait for *)
(* the bus, and a flush may come in any cycle, a transaction in progress   *)
(* or not.  (In the core a flush never meets a transaction: module Core.)  *)
(***************************************************************************)
EXTENDS Lsq, FiniteSets

CONSTANTS
  WINDOW,     \* instructions in flight, and reorder-buffer tags
  MaxSeq      \* bound on sequence numbers

ASSUME WindowAssumption == WINDOW \in Nat \ {0} /\ MaxSeq \in Nat

VARIABLES
  window,     \* instructions in flight, oldest first
  next_seq,   \* sequence number of the next one
  dm,         \* the transaction the memory works on, and for which instruction
  performed   \* history: the sequence numbers of all accesses the memory performed

unitVars == <<lsqVars, window, next_seq, dm, performed>>

Kind == {"load", "store", "barrier"}
TagOf(seq) == seq % WINDOW
DmFree == [busy |-> FALSE, write |-> FALSE, seq |-> 0]

UnitHead == IF window = <<>> THEN [is_store |-> FALSE, tag |-> 0]
            ELSE [is_store |-> window[1].kind = "store", tag |-> TagOf(window[1].seq)]
Barriers == {window[k].seq : k \in {j \in 1 .. Len(window) : window[j].kind = "barrier"}}

\* The kinds dispatched in one cycle, as far as there is room.
UnitDispatch ==
  {ks \in {<<>>} \cup {<<a>> : a \in Kind} \cup {<<a, b>> : a, b \in Kind} :
     /\ Len(window) + Len(ks) <= WINDOW
     /\ Cardinality({k \in 1 .. Len(ks) : ks[k] # "barrier"}) <= Cardinality(lsq_free)
     /\ next_seq + Len(ks) <= MaxSeq}

UnitIndex(ks, k) ==
  IF k = 2 /\ ks[1] # "barrier" THEN second_free_index ELSE first_free_index

UnitNew(ks) ==
  LET K == {k \in 1 .. Len(ks) : ks[k] # "barrier"}
  IN [i \in {UnitIndex(ks, k) : k \in K} |->
        LET k == CHOOSE j \in K : UnitIndex(ks, j) = i
        IN LsqEntry(ks[k] = "store", next_seq + k - 1, TagOf(next_seq + k - 1), 0,
                    ks[k] = "load")]

UnitAgu ==
  {[valid |-> FALSE]} \cup
  {[valid |-> TRUE, index |-> i, addr |-> 0, wdata |-> 0] :
     i \in {j \in LsqIndex : lsq_q[j].valid /\ ~lsq_q[j].addr_valid}}

\* A completed store or load, or a barrier, is marked; the oldest may retire.
Marked(grant, resolve) ==
  [k \in 1 .. Len(window) |->
     IF \/ store_q.valid /\ store_q.rob = TagOf(window[k].seq)
        \/ load_q.valid /\ grant /\ load_q.rob = TagOf(window[k].seq)
        \/ resolve /\ window[k].kind = "barrier"
     THEN [window[k] EXCEPT !.done = TRUE] ELSE window[k]]
Retire(w) == IF window # <<>> /\ window[1].done THEN Tail(w) ELSE w

UnitServing(accept) ==
  IF accept THEN [busy |-> TRUE, write |-> req_q.write, seq |-> lsq_q[req_q.index].seq]
  ELSE dm

UnitTick(ks, flush, accept, answer, agu, grant, resolve) ==
  LET io == [rready |-> accept, wready |-> accept,
             rresp |-> answer /\ ~UnitServing(accept).write,
             wresp |-> answer /\ UnitServing(accept).write, rdata |-> 0]
  IN
  /\ LsqTick(UnitNew(ks), agu, UnitHead, Barriers, io, grant, flush)
  /\ window' = IF flush THEN <<>>
               ELSE Retire(Marked(grant, resolve)) \o
                    [k \in 1 .. Len(ks) |->
                       [seq |-> next_seq + k - 1, kind |-> ks[k], done |-> FALSE]]
  /\ next_seq' = next_seq + Len(ks)
  /\ dm' = IF answer THEN DmFree ELSE UnitServing(accept)
  /\ performed' = IF answer THEN Append(performed, UnitServing(accept).seq) ELSE performed

UnitInit ==
  /\ LsqInit /\ window = <<>> /\ next_seq = 1 /\ dm = DmFree /\ performed = <<>>

UnitNext ==
  \E ks \in UnitDispatch, flush, accept, answer, grant, resolve \in BOOLEAN, agu \in UnitAgu :
    /\ flush => ks = <<>> /\ ~agu.valid /\ ~grant /\ ~resolve
    /\ grant => load_q.valid
    /\ resolve => Barriers # {}
    /\ accept => ~dm.busy /\ (rvalid(flush) \/ wvalid(flush))
    /\ answer => dm.busy \/ accept
    /\ UnitTick(ks, flush, accept, answer, agu, grant, resolve)

UnitSpec == UnitInit /\ [][UnitNext]_unitVars
----------------------------------------------------------------------------
(***************************************************************************)
(* Properties.                                                             *)
(***************************************************************************)
(***************************************************************************)
(* Every response finds its request: while the queue waits for an answer   *)
(* the memory works on exactly that access; while it drops one, the memory *)
(* still works on a flushed access; no request is presented meanwhile.     *)
(***************************************************************************)
ResponsePaired ==
  /\ req_q.busy => /\ dm.busy /\ dm.write = req_q.write /\ ~drop_q.active
                   /\ lsq_q[req_q.index].valid /\ lsq_q[req_q.index].seq = dm.seq
  /\ drop_q.active => dm.busy /\ dm.write = drop_q.write
  /\ dm.busy => req_q.busy \/ drop_q.active
  /\ req_q.pending => ~dm.busy

(***************************************************************************)
(* No result outlives a flush: a loaded value on offer, or a store         *)
(* completion, is for an instruction in flight of that kind that has not   *)
(* completed.                                                              *)
(***************************************************************************)
NoStaleResult ==
  /\ load_q.valid => \E k \in 1 .. Len(window) :
       /\ window[k].kind = "load" /\ ~window[k].done
       /\ TagOf(window[k].seq) = load_q.rob
  /\ store_q.valid => window # <<>> /\ window[1].kind = "store" /\ ~window[1].done
                      /\ TagOf(window[1].seq) = store_q.rob

(***************************************************************************)
(* Memory performs the accesses in program order, each at most once:       *)
(* however often the queue is flushed and in whichever cycle, no access    *)
(* is performed after a younger one, and none a second time.               *)
(***************************************************************************)
MemoryInProgramOrder ==
  \A j, k \in 1 .. Len(performed) : j < k => performed[j] < performed[k]

(***************************************************************************)
(* Memory works on a store only when it is the oldest instruction in       *)
(* flight (or was, before a flush).                                        *)
(***************************************************************************)
StoreAtHead ==
  dm.busy /\ dm.write /\ ~drop_q.active => window # <<>> /\ window[1].seq = dm.seq
=============================================================================

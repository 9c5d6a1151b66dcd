-------------------------------- MODULE Rob --------------------------------
(***************************************************************************)
(* The reorder buffer of the out-of-order core (src/dut/mycore/reg/rob.v): *)
(* a ring of ROB_DEPTH entries, allocated in program order by dispatch,    *)
(* completed in any order by the two lanes of the common data bus, by the  *)
(* store queue's completion pulse and by the fence interlock, and retired  *)
(* strictly from the head.  A mispredicted control instruction takes       *)
(* effect when it retires: every younger entry is discarded in that cycle. *)
(*                                                                         *)
(* One step is one rising clock edge.  What the RTL stores per entry at    *)
(* dispatch and never changes (pc, instruction, destination, class) is the *)
(* record uop.                                                             *)
(***************************************************************************)
EXTENDS Naturals, Sequences

CONSTANTS
  ROB_DEPTH,   \* number of entries; 8 in the RTL
  Uop,         \* renamed instructions that dispatch may allocate
  NopUop,      \* the one an entry holds after reset
  Word,        \* result values
  Addr,        \* instruction addresses
  MaxSeq       \* bound on next_seq_q, a 64-bit counter in the RTL

(***************************************************************************)
(* What the buffer reads of an instruction: its class and whether the      *)
(* decoder supports it (an unsupported instruction is born ready).         *)
(***************************************************************************)
Class == {"alu", "muldiv", "load", "store", "control", "fence", "invalid"}

ASSUME RobDepthAssumption == ROB_DEPTH \in Nat /\ ROB_DEPTH >= 2
ASSUME MaxSeqAssumption == MaxSeq \in Nat
ASSUME ZeroAssumption == 0 \in Word /\ 0 \in Addr
ASSUME UopAssumption ==
  /\ NopUop \in Uop
  /\ \A u \in Uop : u.class \in Class /\ u.supported \in BOOLEAN

VARIABLES
  head_q, tail_q,   \* ring pointers
  count_q,          \* occupied entries
  next_seq_q,       \* sequence number of the next dispatched instruction
  rob_q             \* the entries

robVars == <<head_q, tail_q, count_q, next_seq_q, rob_q>>

Tag == 0 .. ROB_DEPTH - 1

\* Mutant of After: a pointer one bit too wide.
AfterNoWrap(t, n) == t + n

\* Tag arithmetic of the 3-bit pointers: n steps after t, n at most ROB_DEPTH.
After(t, n) == IF t + n < ROB_DEPTH THEN t + n ELSE t + n - ROB_DEPTH

\* One lane of the common data bus.
CdbMsg == [valid: BOOLEAN, tag: Tag, value: Word, control: BOOLEAN,
           target: Addr, mispredict: BOOLEAN]

Entry == [valid: BOOLEAN, ready: BOOLEAN, seq: Nat, uop: Uop, value: Word,
          control_complete: BOOLEAN, target: Addr, mispredict: BOOLEAN]
----------------------------------------------------------------------------
(***************************************************************************)
(* Combinational outputs.                                                  *)
(***************************************************************************)
rob_free_count == ROB_DEPTH - count_q
head_valid == count_q # 0 /\ rob_q[head_q].valid

second_tag == After(head_q, 1)
second_valid == count_q >= 2 /\ rob_q[second_tag].valid
head_is_store == head_valid /\ rob_q[head_q].uop.class = "store"
head_is_fence == head_valid /\ rob_q[head_q].uop.class = "fence"

Special(e) == e.uop.class \in {"control", "fence", "store"}

\* An entry may retire once completed; a fence also when the interlock says
\* that the memory pipeline behind it is idle.
Ready(e, fenceOk) == e.ready \/ (e.uop.class = "fence" /\ fenceOk)

\* Mutant of retire_count: the second entry's completion is not asked for.
retire_count_hasty(fenceOk) ==
  IF ~(head_valid /\ Ready(rob_q[head_q], fenceOk)) THEN 0
  ELSE IF second_valid /\ ~Special(rob_q[head_q]) /\ ~Special(rob_q[second_tag])
       THEN 2 ELSE 1

retire_count(fenceOk) ==
  IF ~(head_valid /\ Ready(rob_q[head_q], fenceOk)) THEN 0
  ELSE IF /\ second_valid
          /\ Ready(rob_q[second_tag], fenceOk)
          /\ ~Special(rob_q[head_q])
          /\ ~Special(rob_q[second_tag])
       THEN 2 ELSE 1

recovery(fenceOk) ==
  /\ retire_count(fenceOk) # 0
  /\ rob_q[head_q].uop.class = "control"
  /\ rob_q[head_q].control_complete
  /\ rob_q[head_q].mispredict

\* The entries leaving the head this cycle, oldest first.
commit(fenceOk) ==
  [i \in 1 .. retire_count(fenceOk) |-> rob_q[After(head_q, i - 1)]]

\* The scans over every valid entry.
InFlight(classes) == {t \in Tag : rob_q[t].valid /\ rob_q[t].uop.class \in classes}
any_control == InFlight({"control"}) # {}
any_fence == InFlight({"fence"}) # {}

\* barrier_valid_out && barrier_seq_out < seq: some control or fence is older.
BarrierBefore(seq) == \E t \in InFlight({"control", "fence"}) : rob_q[t].seq < seq
----------------------------------------------------------------------------
(***************************************************************************)
(* The clock edge.                                                         *)
(***************************************************************************)
EmptyEntry ==
  [valid |-> FALSE, ready |-> FALSE, seq |-> 0, uop |-> NopUop, value |-> 0,
   control_complete |-> FALSE, target |-> 0, mispredict |-> FALSE]

\* Dispatch lane k (0 or 1) writes every field of the entry.
NewEntry(u, k) ==
  [valid |-> TRUE, ready |-> ~u.supported, seq |-> next_seq_q + k, uop |-> u,
   value |-> 0, control_complete |-> FALSE, target |-> 0, mispredict |-> FALSE]

\* Mutant of Complete: the tag is not compared.
CompleteAnyTag(e, t, m) ==
  IF ~(m.valid /\ e.valid) THEN e
  ELSE [e EXCEPT !.ready = TRUE, !.mispredict = m.mispredict]

\* One bus lane reaching entry e under tag t: ignored unless the entry is valid.
Complete(e, t, m) ==
  IF ~(m.valid /\ m.tag = t /\ e.valid) THEN e
  ELSE IF m.control
       THEN [e EXCEPT !.ready = TRUE, !.value = m.value,
                      !.control_complete = TRUE, !.target = m.target,
                      !.mispredict = m.mispredict]
       ELSE [e EXCEPT !.ready = TRUE, !.value = m.value]

\* The memory accepted the store of entry t.
StoreDone(e, t, done) ==
  IF t \in done /\ e.valid /\ e.uop.class = "store"
  THEN [e EXCEPT !.ready = TRUE] ELSE e

Clear(e) == [e EXCEPT !.valid = FALSE, !.ready = FALSE]

\* Mutant of Recover: the tail pointer is not pulled back.
RecoverKeepsTail ==
  /\ head_q' = After(head_q, 1)
  /\ count_q' = 0
  /\ rob_q' = [t \in Tag |-> Clear(rob_q[t])]
  /\ UNCHANGED <<tail_q, next_seq_q>>

\* Mispredict recovery: the head retires, everything younger is discarded.
\* Sequence numbers are not reused.
Recover ==
  /\ head_q' = After(head_q, 1)
  /\ tail_q' = After(head_q, 1)
  /\ count_q' = 0
  /\ rob_q' = [t \in Tag |-> [Clear(rob_q[t]) EXCEPT !.control_complete = FALSE,
                                                   !.mispredict = FALSE]]
  /\ UNCHANGED next_seq_q

\* An ordinary edge: n entries retire and the instructions d are dispatched.
\* Where the RTL assigns an entry twice the later assignment wins: dispatch
\* over retirement over store completion over bus lane 1 over bus lane 0.
Advance(d, n, cdb0, cdb1, done) ==
  /\ head_q' = After(head_q, n)
  /\ tail_q' = After(tail_q, Len(d))
  /\ count_q' = count_q + Len(d) - n
  /\ next_seq_q' = next_seq_q + Len(d)
  /\ rob_q' = [t \in Tag |->
       IF Len(d) >= 1 /\ t = tail_q THEN NewEntry(d[1], 0)
       ELSE IF Len(d) = 2 /\ t = After(tail_q, 1) THEN NewEntry(d[2], 1)
       ELSE IF (n >= 1 /\ t = head_q) \/ (n = 2 /\ t = second_tag)
            THEN Clear(Complete(Complete(rob_q[t], t, cdb0), t, cdb1))
       ELSE StoreDone(Complete(Complete(rob_q[t], t, cdb0), t, cdb1), t, done)]

RobTick(d, cdb0, cdb1, done, fenceOk) ==
  \/ recovery(fenceOk) /\ Recover
  \/ ~recovery(fenceOk) /\ Advance(d, retire_count(fenceOk), cdb0, cdb1, done)

RobInit ==
  /\ head_q = 0 /\ tail_q = 0 /\ count_q = 0 /\ next_seq_q = 0
  /\ rob_q = [t \in Tag |-> EmptyEntry]
----------------------------------------------------------------------------
(***************************************************************************)
(* The buffer in the environment that mycore.v gives it: the hazard unit   *)
(* never dispatches more than fits, the bus completes an instruction that  *)
(* waits for it, at most once (module Core composes the real producers and *)
(* checks this), the fence interlock speaks of a fence at the head.        *)
(***************************************************************************)
Dispatch == {d \in {<<>>} \cup {<<u>> : u \in Uop} \cup {<<u, v>> : u, v \in Uop} :
               Len(d) <= rob_free_count /\ next_seq_q + Len(d) <= MaxSeq}

Waiting(classes) == {t \in InFlight(classes) : ~rob_q[t].ready}

Silence == [valid |-> FALSE, tag |-> 0, value |-> 0, control |-> FALSE,
            target |-> 0, mispredict |-> FALSE]

Broadcast ==
  {m \in CdbMsg : /\ m.valid
                  /\ m.tag \in Waiting({"alu", "muldiv", "load", "control"})
                  /\ m.control = (rob_q[m.tag].uop.class = "control")
                  /\ m.mispredict => m.control}

RobNext ==
  \E d \in Dispatch, cdb0, cdb1 \in {Silence} \cup Broadcast,
     done \in {{}} \cup {{t} : t \in Waiting({"store"})},
     fenceOk \in {FALSE, head_is_fence} :
       /\ cdb0.valid /\ cdb1.valid => cdb0.tag # cdb1.tag
       /\ RobTick(d, cdb0, cdb1, done, fenceOk)

RobSpec == RobInit /\ [][RobNext]_robVars
----------------------------------------------------------------------------
(***************************************************************************)
(* Properties.                                                             *)
(***************************************************************************)
\* Type invariant of the buffer's registers.
RobTypeOK ==
  /\ head_q \in Tag /\ tail_q \in Tag
  /\ count_q \in 0 .. ROB_DEPTH
  /\ next_seq_q \in Nat
  /\ rob_q \in [Tag -> Entry]

\* How many entries tag t is behind the head.
Position(t) == IF t >= head_q THEN t - head_q ELSE t + ROB_DEPTH - head_q

(***************************************************************************)
(* The ring is a queue in program order: the valid entries are exactly the *)
(* count_q tags from head_q on, tail_q is the next free tag, and sequence  *)
(* numbers are consecutive up to next_seq_q - 1 along the ring.  The head  *)
(* is therefore always the oldest instruction in flight, across wrap       *)
(* around, dual allocation, dual retirement and recovery.                  *)
(***************************************************************************)
ProgramOrder ==
  /\ tail_q = After(head_q, count_q)
  /\ \A t \in Tag :
       /\ rob_q[t].valid <=> Position(t) < count_q
       /\ rob_q[t].valid => rob_q[t].seq + count_q = next_seq_q + Position(t)

(***************************************************************************)
(* Retirement is in order, complete and precise.  Whatever leaves the      *)
(* buffer in a cycle, everything older leaves with it, and it is one of:   *)
(*   - the oldest instruction, completed, or a fence, which the interlock  *)
(*     lets go; if it is a control instruction that was mispredicted,      *)
(*     nothing at all stays behind it;                                     *)
(*   - the second oldest, completed too, if neither is a control           *)
(*     instruction, a fence or a store;                                    *)
(*   - any instruction behind an oldest one that was mispredicted.         *)
(* So at most two retire in a cycle, nothing unfinished ever does, and     *)
(* only a misprediction discards, and then the whole wrong path.           *)
(***************************************************************************)
Live == {rob_q[t].seq : t \in {u \in Tag : rob_q[u].valid}}
Older(s) == {rob_q[t] : t \in {u \in Tag : rob_q[u].valid /\ rob_q[u].seq < s}}
Mispredicted(e) == e.uop.class = "control" /\ e.control_complete /\ e.mispredict

MayLeave(e) ==
  \/ /\ Older(e.seq) = {}
     /\ e.ready \/ e.uop.class = "fence"
     /\ Mispredicted(e) => Live' = {}
  \/ \E o \in Older(e.seq) :
       /\ Older(o.seq) = {}
       /\ \/ Older(e.seq) = {o} /\ e.ready /\ ~Special(e) /\ ~Special(o)
          \/ Mispredicted(o)

RetiresOldest ==
  \A t \in Tag :
    rob_q[t].valid /\ rob_q[t].seq \notin Live' =>
      /\ \A o \in Older(rob_q[t].seq) : o.seq \notin Live'
      /\ MayLeave(rob_q[t])

InOrderRetirement == [][RetiresOldest]_robVars

(***************************************************************************)
(* A completion is never lost: an entry that is ready and stays keeps its  *)
(* result, target and prediction outcome until it retires, whatever is     *)
(* dispatched, broadcast or retired around it.                             *)
(***************************************************************************)
CompletionKept ==
  [][\A t \in Tag :
       /\ rob_q[t].valid /\ rob_q'[t].valid /\ rob_q'[t].seq = rob_q[t].seq
       /\ rob_q[t].ready
       => /\ rob_q'[t].ready
          /\ rob_q'[t].value = rob_q[t].value
          /\ rob_q'[t].target = rob_q[t].target
          /\ rob_q'[t].mispredict = rob_q[t].mispredict]_robVars
=============================================================================

---------------------------- MODULE RenameProofs ----------------------------
(***************************************************************************)
(* Proofs about renaming, for every depth of the buffer and any number of  *)
(* architectural and physical registers: no physical register is lost or   *)
(* shared, the maps name the right producers, register file and buffer     *)
(* agree, and the architectural registers change only by retirement.       *)
(*                                                                         *)
(* The lemmas about one clock edge speak of RenameTick under RenameInput,  *)
(* which says no more of the other units than the composed core keeps.     *)
(***************************************************************************)
EXTENDS Rename, FiniteSetTheorems, NaturalsInduction, TLAPS

-----------------------------------------------------------------------------
(***************************************************************************)
(* The reorder buffer alone, for every depth and every set of              *)
(* instructions: its type invariant, the program order of its ring, and    *)
(* what follows for retirement and for results.                            *)
(***************************************************************************)
(***************************************************************************)
(* Tag arithmetic.                                                         *)
(***************************************************************************)
\* The tag after a tag, one or two places on, is a tag.
LEMMA AfterTag ==
  ASSUME NEW t \in Tag, NEW n \in 0 .. ROB_DEPTH
  PROVE  After(t, n) \in Tag
BY RobDepthAssumption DEF After, Tag

\* What the buffer reads of a bus lane that speaks is well typed.
LaneOK(m) ==
  m.valid => /\ m.tag \in Tag /\ m.value \in Word /\ m.target \in Addr
             /\ m.control \in BOOLEAN /\ m.mispredict \in BOOLEAN

\* A completion keeps an entry an entry, in place and in order.
LEMMA CompleteEntry ==
  ASSUME NEW e \in Entry, NEW t, NEW m, LaneOK(m)
  PROVE  /\ Complete(e, t, m) \in Entry
         /\ Complete(e, t, m).valid = e.valid
         /\ Complete(e, t, m).seq = e.seq
BY DEF Complete, Entry, LaneOK

\* A store completion keeps an entry an entry, in place and in order.
LEMMA StoreDoneEntry ==
  ASSUME NEW e \in Entry, NEW t, NEW done
  PROVE  /\ StoreDone(e, t, done) \in Entry
         /\ StoreDone(e, t, done).valid = e.valid
         /\ StoreDone(e, t, done).seq = e.seq
BY DEF StoreDone, Entry

\* Retirement empties an entry but leaves its other fields well typed.
LEMMA ClearEntry ==
  ASSUME NEW e \in Entry
  PROVE  Clear(e) \in Entry /\ Clear(e).valid = FALSE
BY DEF Clear, Entry

\* What dispatch allocates is an entry.
LEMMA NewEntryType ==
  ASSUME NEW u \in Uop, NEW k \in Nat, next_seq_q \in Nat
  PROVE  /\ NewEntry(u, k) \in Entry
         /\ NewEntry(u, k).valid = TRUE
         /\ NewEntry(u, k).seq = next_seq_q + k
BY UopAssumption, ZeroAssumption DEF NewEntry, EmptyEntry, Entry

(***************************************************************************)
(* One clock edge, whatever the other units offer, as long as dispatch     *)
(* respects the free count.                                                *)
(***************************************************************************)
InputOK(d, cdb0, cdb1) ==
  /\ d \in Seq(Uop)
  /\ Len(d) \in 0 .. 2
  /\ Len(d) <= rob_free_count
  /\ LaneOK(cdb0) /\ LaneOK(cdb1)

\* No more entries retire than the buffer holds.
LEMMA RetireCountBound ==
  ASSUME RobTypeOK, NEW fenceOk
  PROVE  /\ retire_count(fenceOk) \in 0 .. 2
         /\ retire_count(fenceOk) <= count_q
BY DEF RobTypeOK, retire_count, head_valid, second_valid

\* A recovery resets the ring to registers of their types.
LEMMA RecoverTypeOK ==
  ASSUME RobTypeOK, Recover
  PROVE  RobTypeOK'
<1>1. head_q' \in Tag /\ tail_q' \in Tag
  <2>1. 1 \in 0 .. ROB_DEPTH
    BY RobDepthAssumption
  <2> QED
    BY <2>1, AfterTag DEF RobTypeOK, Recover
<1>2. rob_q' \in [Tag -> Entry]
  BY DEF RobTypeOK, Recover, Clear, Entry
<1>3. count_q' \in 0 .. ROB_DEPTH /\ next_seq_q' \in Nat
  <2>1. count_q' = 0 /\ next_seq_q' = next_seq_q
    BY DEF Recover
  <2> QED
    BY <2>1, RobDepthAssumption DEF RobTypeOK
<1> QED
  BY <1>1, <1>2, <1>3 DEF RobTypeOK

\* An ordinary clock edge keeps the registers within their types: what is
\* allocated fits the free count and what retires is no more than is there.
LEMMA AdvanceTypeOK ==
  ASSUME RobTypeOK, NEW n \in 0 .. 2, n <= count_q,
         NEW d, NEW cdb0, NEW cdb1, NEW done, InputOK(d, cdb0, cdb1),
         Advance(d, n, cdb0, cdb1, done)
  PROVE  RobTypeOK'
<1> USE RobDepthAssumption
<1>1. head_q' \in Tag
  <2>1. n \in 0 .. ROB_DEPTH
    OBVIOUS
  <2> QED
    BY <2>1, AfterTag DEF RobTypeOK, Advance
<1>2. tail_q' \in Tag
  <2>1. Len(d) \in 0 .. ROB_DEPTH
    BY DEF InputOK, RobTypeOK, rob_free_count
  <2> QED
    BY <2>1, AfterTag DEF RobTypeOK, Advance
<1>3. count_q' \in 0 .. ROB_DEPTH /\ next_seq_q' \in Nat
  BY DEF RobTypeOK, Advance, InputOK, rob_free_count
<1>4. ASSUME NEW t \in Tag
      PROVE  rob_q'[t] \in Entry
  <2> DEFINE e == Complete(Complete(rob_q[t], t, cdb0), t, cdb1)
  <2>0. rob_q[t] \in Entry /\ next_seq_q \in Nat
    BY DEF RobTypeOK
  <2>a. LaneOK(cdb0) /\ LaneOK(cdb1)
    BY DEF InputOK
  <2>c. Len(d) \in 0 .. 2 /\ \A k \in 1 .. Len(d) : d[k] \in Uop
    <3>1. d \in Seq(Uop) /\ Len(d) \in 0 .. 2
      BY DEF InputOK
    <3>2. \A k \in 1 .. Len(d) : d[k] \in Uop
      BY <3>1
    <3> QED BY <3>1, <3>2
  <2>b. Complete(rob_q[t], t, cdb0) \in Entry
    BY <2>0, <2>a, CompleteEntry
  <2>1. e \in Entry
    BY <2>b, <2>a, CompleteEntry
  <2> HIDE DEF e
  <2>2. StoreDone(e, t, done) \in Entry /\ Clear(e) \in Entry
    BY <2>1, StoreDoneEntry, ClearEntry
  <2>3. Len(d) >= 1 => NewEntry(d[1], 0) \in Entry
    <3>1. Len(d) >= 1 => d[1] \in Uop
      BY <2>c
    <3> QED
      BY <3>1, <2>0, NewEntryType
  <2>4. Len(d) = 2 => NewEntry(d[2], 1) \in Entry
    <3>1. Len(d) = 2 => d[2] \in Uop
      BY <2>c
    <3> QED
      BY <3>1, <2>0, NewEntryType
  <2> QED
    BY <2>2, <2>3, <2>4 DEF Advance, e
<1>5. rob_q' \in [Tag -> Entry]
  BY <1>4 DEF Advance
<1> QED
  BY <1>1, <1>2, <1>3, <1>5 DEF RobTypeOK

\* A step of the buffer in its environment is a recovery or an ordinary edge
\* with inputs that respect the free count.
OrdinaryEdge(f, n) ==
  /\ n = retire_count(f) /\ n <= count_q /\ ~recovery(f)
  /\ \E d, cdb0, cdb1, done : InputOK(d, cdb0, cdb1) /\ Advance(d, n, cdb0, cdb1, done)

LEMMA RobNextEdges ==
  ASSUME RobTypeOK, RobNext
  PROVE  \/ Recover /\ \E f : recovery(f)
         \/ \E f : \E n \in 0 .. 2 : OrdinaryEdge(f, n)
<1>1. PICK d \in Dispatch, cdb0 \in {Silence} \cup Broadcast,
           cdb1 \in {Silence} \cup Broadcast,
           done \in {{}} \cup {{t} : t \in Waiting({"store"})},
           fenceOk \in {FALSE, head_is_fence} :
             RobTick(d, cdb0, cdb1, done, fenceOk)
  BY DEF RobNext
<1>2. InputOK(d, cdb0, cdb1)
  <2>1. LaneOK(cdb0) /\ LaneOK(cdb1)
    BY DEF Silence, Broadcast, LaneOK, CdbMsg
  <2>2. d \in Seq(Uop) /\ Len(d) \in 0 .. 2
    <3>1. CASE d = <<>>
      BY <3>1
    <3>2. CASE d \in {<<u>> : u \in Uop}
      <4>1. PICK u \in Uop : d = <<u>>
        BY <3>2
      <4> QED
        BY <4>1
    <3>3. CASE d \in {<<u, v>> : u, v \in Uop}
      <4>1. PICK u \in Uop, v \in Uop : d = <<u, v>>
        BY <3>3
      <4> QED
        BY <4>1
    <3> QED
      BY <3>1, <3>2, <3>3 DEF Dispatch
  <2>3. Len(d) <= rob_free_count
    BY DEF Dispatch
  <2> QED
    BY <2>1, <2>2, <2>3 DEF InputOK
<1>3. CASE recovery(fenceOk) /\ Recover
  BY <1>3
<1>4. CASE ~recovery(fenceOk) /\ Advance(d, retire_count(fenceOk), cdb0, cdb1, done)
  <2>1. OrdinaryEdge(fenceOk, retire_count(fenceOk))
    BY <1>2, <1>4, RetireCountBound DEF OrdinaryEdge
  <2> QED
    BY <2>1, RetireCountBound
<1> QED
  BY <1>1, <1>3, <1>4 DEF RobTick

\* The same for a proof that needs to know neither what retires nor why.
LEMMA RobNextCases ==
  ASSUME RobTypeOK, RobNext,
         NEW P,
         Recover => P,
         \A n \in 0 .. 2 : \A d, cdb0, cdb1, done :
           n <= count_q /\ InputOK(d, cdb0, cdb1) /\ Advance(d, n, cdb0, cdb1, done) => P
  PROVE  P
<1>1. ASSUME NEW f, NEW n \in 0 .. 2, OrdinaryEdge(f, n) PROVE P
  BY <1>1 DEF OrdinaryEdge
<1> QED
  BY <1>1, RobNextEdges

\* The type invariant is inductive: every step of the buffer preserves it.
LEMMA RobTypeStep == RobTypeOK /\ [RobNext]_robVars => RobTypeOK'
<1>1. ASSUME RobTypeOK, RobNext PROVE RobTypeOK'
  BY <1>1, RobNextCases, RecoverTypeOK, AdvanceTypeOK
<1>2. ASSUME RobTypeOK, UNCHANGED robVars PROVE RobTypeOK'
  BY <1>2 DEF RobTypeOK, robVars
<1> QED
  BY <1>1, <1>2

\* The registers of the reorder buffer stay within their types: the ring never
\* overflows and no pointer leaves it.
THEOREM RobTypeCorrect == RobSpec => []RobTypeOK
<1>1. RobInit => RobTypeOK
  BY RobDepthAssumption, ZeroAssumption, UopAssumption
     DEF RobInit, RobTypeOK, EmptyEntry, Entry, Tag
<1> QED
  BY <1>1, RobTypeStep, PTL DEF RobSpec

(***************************************************************************)
(* The ring in program order.                                              *)
(***************************************************************************)
\* The ring is empty after a recovery, with head and tail together.
LEMMA RecoverOrder ==
  ASSUME RobTypeOK, Recover
  PROVE  ProgramOrder'
<1>1. /\ head_q' = After(head_q, 1) /\ tail_q' = head_q' /\ count_q' = 0
      /\ head_q' \in Tag
  <2>1. 1 \in 0 .. ROB_DEPTH
    BY RobDepthAssumption
  <2> QED
    BY <2>1, AfterTag DEF RobTypeOK, Recover
<1>2. tail_q' = After(head_q', count_q')
  BY <1>1, RobDepthAssumption DEF After, Tag
<1>3. ASSUME NEW t \in Tag PROVE rob_q'[t].valid = FALSE
  BY DEF Recover, RobTypeOK, Clear, Entry
<1>4. ASSUME NEW t \in Tag PROVE ~(Position(t)' < count_q')
  BY <1>1, RobDepthAssumption DEF Position, Tag
<1> QED
  BY <1>2, <1>3, <1>4 DEF ProgramOrder

\* Where the entries of an ordinary edge come from.
LEMMA AdvanceEntries ==
  ASSUME RobTypeOK, NEW n \in 0 .. 2, n <= count_q,
         NEW d, NEW cdb0, NEW cdb1, NEW done, InputOK(d, cdb0, cdb1),
         Advance(d, n, cdb0, cdb1, done),
         NEW t \in Tag
  PROVE  /\ Len(d) >= 1 /\ t = tail_q
              => rob_q'[t].valid = TRUE /\ rob_q'[t].seq = next_seq_q
         /\ Len(d) = 2 /\ t = After(tail_q, 1) /\ t # tail_q
              => rob_q'[t].valid = TRUE /\ rob_q'[t].seq = next_seq_q + 1
         /\ ~(Len(d) >= 1 /\ t = tail_q) /\ ~(Len(d) = 2 /\ t = After(tail_q, 1))
              => IF (n >= 1 /\ t = head_q) \/ (n = 2 /\ t = second_tag)
                 THEN rob_q'[t].valid = FALSE
                 ELSE /\ rob_q'[t].valid = rob_q[t].valid
                      /\ rob_q'[t].seq = rob_q[t].seq
<1> DEFINE e == Complete(Complete(rob_q[t], t, cdb0), t, cdb1)
<1>1. LaneOK(cdb0) /\ LaneOK(cdb1)
  BY DEF InputOK
<1>2. rob_q[t] \in Entry /\ next_seq_q \in Nat
  BY DEF RobTypeOK
<1>3. /\ Complete(rob_q[t], t, cdb0) \in Entry
      /\ Complete(rob_q[t], t, cdb0).valid = rob_q[t].valid
      /\ Complete(rob_q[t], t, cdb0).seq = rob_q[t].seq
  BY <1>1, <1>2, CompleteEntry
<1>4. e \in Entry /\ e.valid = rob_q[t].valid /\ e.seq = rob_q[t].seq
  BY <1>1, <1>3, CompleteEntry
<1> HIDE DEF e
<1>5. /\ Clear(e).valid = FALSE
      /\ StoreDone(e, t, done).valid = e.valid
      /\ StoreDone(e, t, done).seq = e.seq
  <2>1. e \in Entry
    BY <1>4
  <2>2. Clear(e).valid = FALSE
    BY <2>1, ClearEntry
  <2>3. /\ StoreDone(e, t, done).valid = e.valid
        /\ StoreDone(e, t, done).seq = e.seq
    BY <2>1, StoreDoneEntry
  <2> QED
    BY <2>2, <2>3
<1>6. Len(d) >= 1 => /\ NewEntry(d[1], 0).valid = TRUE
                     /\ NewEntry(d[1], 0).seq = next_seq_q
  BY <1>2 DEF NewEntry
<1>7. Len(d) = 2 => /\ NewEntry(d[2], 1).valid = TRUE
                    /\ NewEntry(d[2], 1).seq = next_seq_q + 1
  BY <1>2 DEF NewEntry
<1>8. rob_q'[t] = IF Len(d) >= 1 /\ t = tail_q THEN NewEntry(d[1], 0)
                  ELSE IF Len(d) = 2 /\ t = After(tail_q, 1) THEN NewEntry(d[2], 1)
                  ELSE IF (n >= 1 /\ t = head_q) \/ (n = 2 /\ t = second_tag)
                  THEN Clear(e) ELSE StoreDone(e, t, done)
  BY DEF Advance, e
<1> QED
  BY <1>4, <1>5, <1>6, <1>7, <1>8

\* An ordinary clock edge keeps the ring in program order: it drops entries at
\* the head and adds the youngest behind the tail.
LEMMA AdvanceOrder ==
  ASSUME RobTypeOK, ProgramOrder, NEW n \in 0 .. 2, n <= count_q,
         NEW d, NEW cdb0, NEW cdb1, NEW done, InputOK(d, cdb0, cdb1),
         Advance(d, n, cdb0, cdb1, done)
  PROVE  ProgramOrder'
<1> DEFINE k == Len(d)
<1>1. /\ k \in 0 .. 2 /\ count_q \in Nat /\ next_seq_q \in Nat
      /\ k + count_q <= ROB_DEPTH
      /\ head_q \in Nat /\ head_q < ROB_DEPTH
      /\ tail_q \in Nat /\ tail_q < ROB_DEPTH
      /\ tail_q = After(head_q, count_q)
      /\ ROB_DEPTH \in Nat /\ ROB_DEPTH >= 2
  BY RobDepthAssumption DEF RobTypeOK, ProgramOrder, InputOK, rob_free_count, Tag
<1>2. /\ head_q' = After(head_q, n) /\ tail_q' = After(tail_q, k)
      /\ count_q' = count_q + k - n /\ next_seq_q' = next_seq_q + k
  BY DEF Advance
<1> HIDE DEF k
<1>3. tail_q' = After(head_q', count_q')
  BY <1>1, <1>2 DEF After
<1>4. ASSUME NEW t \in Tag
      PROVE  /\ rob_q'[t].valid <=> Position(t)' < count_q'
             /\ rob_q'[t].valid
                  => rob_q'[t].seq + count_q' = next_seq_q' + Position(t)'
  <2>0. /\ k >= 1 /\ t = tail_q
             => rob_q'[t].valid = TRUE /\ rob_q'[t].seq = next_seq_q
        /\ k = 2 /\ t = After(tail_q, 1) /\ t # tail_q
             => rob_q'[t].valid = TRUE /\ rob_q'[t].seq = next_seq_q + 1
        /\ ~(k >= 1 /\ t = tail_q) /\ ~(k = 2 /\ t = After(tail_q, 1))
             => IF (n >= 1 /\ t = head_q) \/ (n = 2 /\ t = second_tag)
                THEN rob_q'[t].valid = FALSE
                ELSE /\ rob_q'[t].valid = rob_q[t].valid
                     /\ rob_q'[t].seq = rob_q[t].seq
    BY AdvanceEntries DEF k
  <2> USE <1>1, <1>2 DEF After, Position
  <2>1. t \in Nat /\ t < ROB_DEPTH
    BY DEF Tag
  <2>2. /\ rob_q[t].valid <=> Position(t) < count_q
        /\ rob_q[t].valid => rob_q[t].seq + count_q = next_seq_q + Position(t)
        /\ rob_q[t].seq \in Nat
    BY DEF ProgramOrder, RobTypeOK, Entry
  <2>3. CASE k >= 1 /\ t = tail_q
    <3>1. rob_q'[t].valid = TRUE /\ rob_q'[t].seq = next_seq_q
      BY <2>0, <2>3
    <3>2. Position(t)' = count_q - n
      BY <2>1, <2>3
    <3>3. count_q' \in Nat /\ count_q - n < count_q'
      BY <2>3
    <3> QED
      BY <2>3, <3>1, <3>2, <3>3
  <2>4. CASE k = 2 /\ t = After(tail_q, 1)
    <3>1. rob_q'[t].valid = TRUE /\ rob_q'[t].seq = next_seq_q + 1
      <4>1. t # tail_q
        BY <2>4
      <4> QED
        BY <2>0, <2>4, <4>1
    <3> QED
      BY <2>1, <2>4, <3>1
  <2>5. CASE /\ ~(k >= 1 /\ t = tail_q) /\ ~(k = 2 /\ t = After(tail_q, 1))
             /\ (n >= 1 /\ t = head_q) \/ (n = 2 /\ t = second_tag)
    <3>1. rob_q'[t].valid = FALSE
      BY <2>0, <2>5
    <3>2. Position(t) < n
      BY <2>1, <2>5 DEF second_tag
    <3>3. Position(t)' = Position(t) + ROB_DEPTH - n
      BY <2>1, <3>2
    <3>4. Position(t) \in Nat
      BY <2>1
    <3>5. ~(Position(t)' < count_q')
      BY <3>2, <3>3, <3>4
    <3> QED
      BY <3>1, <3>5
  <2>6. CASE /\ ~(k >= 1 /\ t = tail_q) /\ ~(k = 2 /\ t = After(tail_q, 1))
             /\ ~((n >= 1 /\ t = head_q) \/ (n = 2 /\ t = second_tag))
    <3>1. rob_q'[t].valid = rob_q[t].valid /\ rob_q'[t].seq = rob_q[t].seq
      BY <2>0, <2>6
    <3>2. /\ rob_q'[t].valid <=> Position(t) < count_q
          /\ rob_q'[t].valid => rob_q'[t].seq + count_q = next_seq_q + Position(t)
      BY <2>2, <3>1
    <3>3. Position(t) < count_q => Position(t) >= n
      BY <2>1, <2>6 DEF second_tag
    <3>4. Position(t) >= n => Position(t)' = Position(t) - n
      BY <2>1, <2>6 DEF second_tag
    <3>5. Position(t) < n => Position(t)' = Position(t) + ROB_DEPTH - n
      BY <2>1
    <3>6. ~(Position(t) >= count_q /\ Position(t) < count_q + k)
      BY <2>1, <2>6
    <3>7. Position(t) \in Nat /\ Position(t) < ROB_DEPTH /\ rob_q[t].seq \in Nat
      BY <2>1, <2>2
    <3> QED
      BY <2>1, <3>1, <3>2, <3>3, <3>4, <3>5, <3>6, <3>7
  <2> QED
    BY <2>3, <2>4, <2>5, <2>6
<1> QED
  BY <1>3, <1>4 DEF ProgramOrder

\* The ring holds the instructions in flight in program order, in every
\* reachable state: across wrap around, dual dispatch, dual retirement and
\* recovery, for every depth of the buffer.
THEOREM RobProgramOrder == RobSpec => []ProgramOrder
<1>1. RobInit => ProgramOrder
  BY RobDepthAssumption
     DEF RobInit, ProgramOrder, EmptyEntry, Tag, Position, After
<1>2. RobTypeOK /\ ProgramOrder /\ [RobNext]_robVars => ProgramOrder'
  <2>1. ASSUME RobTypeOK, ProgramOrder, RobNext PROVE ProgramOrder'
    BY <2>1, RobNextCases, RecoverOrder, AdvanceOrder
  <2>2. ASSUME ProgramOrder, UNCHANGED robVars PROVE ProgramOrder'
    BY <2>2 DEF ProgramOrder, Position, robVars
  <2> QED
    BY <2>1, <2>2
<1> QED
  BY <1>1, <1>2, RobTypeCorrect, PTL DEF RobSpec

(***************************************************************************)
(* What happens to the instructions in flight.                             *)
(***************************************************************************)
\* The numbers in flight are the last count_q ones, without a gap.
LEMMA LiveRange ==
  RobTypeOK /\ ProgramOrder =>
    Live = {s \in Nat : next_seq_q <= s + count_q /\ s < next_seq_q}
<1> SUFFICES ASSUME RobTypeOK, ProgramOrder
             PROVE  Live = {s \in Nat : next_seq_q <= s + count_q /\ s < next_seq_q}
  OBVIOUS
<1>1. /\ count_q \in Nat /\ count_q <= ROB_DEPTH /\ next_seq_q \in Nat
      /\ head_q \in Nat /\ head_q < ROB_DEPTH /\ ROB_DEPTH \in Nat
  BY RobDepthAssumption DEF RobTypeOK, Tag
<1>2. \A t \in Tag : /\ Position(t) \in Nat
                     /\ rob_q[t].seq \in Nat
                     /\ rob_q[t].valid <=> Position(t) < count_q
                     /\ rob_q[t].valid => rob_q[t].seq + count_q = next_seq_q + Position(t)
  BY <1>1 DEF ProgramOrder, RobTypeOK, Entry, Position, Tag
<1>3. ASSUME NEW s \in Live
      PROVE  s \in Nat /\ next_seq_q <= s + count_q /\ s < next_seq_q
  <2>1. PICK t \in Tag : rob_q[t].valid /\ s = rob_q[t].seq
    BY DEF Live
  <2>2. /\ Position(t) \in Nat /\ rob_q[t].seq \in Nat /\ Position(t) < count_q
        /\ rob_q[t].seq + count_q = next_seq_q + Position(t)
    BY <1>2, <2>1
  <2> QED
    BY <1>1, <2>1, <2>2
<1>4. ASSUME NEW s \in Nat, next_seq_q <= s + count_q, s < next_seq_q
      PROVE  s \in Live
  <2> DEFINE p == s + count_q - next_seq_q
             t == After(head_q, p)
  <2>1. p \in Nat /\ p < count_q /\ s + count_q = next_seq_q + p
    BY <1>1, <1>4
  <2>2. t \in Tag /\ Position(t) = p
    <3> HIDE DEF p
    <3> QED
      BY <1>1, <2>1 DEF After, Position, Tag
  <2> HIDE DEF p, t
  <2>3. rob_q[t].valid /\ rob_q[t].seq = s
    BY <1>1, <1>2, <1>4, <2>1, <2>2
  <2> QED
    BY <2>2, <2>3 DEF Live
<1> QED
  BY <1>3, <1>4

\* The entries in flight by their distance from the head, the oldest at it.
LEMMA RingOrder ==
  ASSUME RobTypeOK, ProgramOrder, NEW t \in Tag, rob_q[t].valid
  PROVE  /\ rob_q[head_q].valid /\ rob_q[t].seq \in Nat
         /\ Older(rob_q[head_q].seq) = {}
         /\ t # head_q => rob_q[head_q] \in Older(rob_q[t].seq)
         /\ t = second_tag => Older(rob_q[t].seq) \subseteq {rob_q[head_q]}
         /\ rob_q[head_q].seq + count_q = next_seq_q
         /\ t # head_q => rob_q[t].seq + count_q >= next_seq_q + 1
         /\ t # head_q /\ t # second_tag => rob_q[t].seq + count_q >= next_seq_q + 2
<1>1. /\ count_q \in Nat /\ next_seq_q \in Nat
      /\ head_q \in Tag /\ head_q \in Nat /\ head_q < ROB_DEPTH /\ ROB_DEPTH \in Nat
  BY RobDepthAssumption DEF RobTypeOK, Tag
<1>2. ASSUME NEW u \in Tag
      PROVE  /\ Position(u) \in Nat /\ rob_q[u].seq \in Nat
             /\ rob_q[u].valid <=> Position(u) < count_q
             /\ rob_q[u].valid => rob_q[u].seq + count_q = next_seq_q + Position(u)
  BY <1>1, <1>2 DEF ProgramOrder, RobTypeOK, Entry, Position, Tag
<1>3. Position(head_q) = 0 /\ rob_q[head_q].valid
  <2>1. Position(head_q) = 0
    BY <1>1 DEF Position
  <2> QED
    BY <1>1, <1>2, <2>1
<1>4. ASSUME NEW u \in Tag, u # head_q
      PROVE  Position(u) >= 1 /\ (u # second_tag => Position(u) >= 2)
                              /\ (u = second_tag => Position(u) = 1)
  BY <1>1, <1>4, RobDepthAssumption DEF Position, Tag, After, second_tag
<1>5. rob_q[head_q].seq + count_q = next_seq_q /\ rob_q[head_q].seq \in Nat
  BY <1>1, <1>2, <1>3
<1>6. ASSUME NEW u \in Tag, rob_q[u].valid, u # head_q
      PROVE  /\ rob_q[u].seq + count_q >= next_seq_q + 1
             /\ u # second_tag => rob_q[u].seq + count_q >= next_seq_q + 2
             /\ u = second_tag => rob_q[u].seq + count_q = next_seq_q + 1
  BY <1>1, <1>2, <1>4, <1>6
<1>7. Older(rob_q[head_q].seq) = {}
  <2> SUFFICES ASSUME NEW u \in Tag, rob_q[u].valid, rob_q[u].seq < rob_q[head_q].seq
               PROVE  FALSE
    BY DEF Older
  <2> QED
    BY <1>1, <1>2, <1>5, <1>6
<1>8. ASSUME t # head_q PROVE rob_q[head_q] \in Older(rob_q[t].seq)
  <2>1. rob_q[head_q].seq < rob_q[t].seq
    BY <1>1, <1>2, <1>5, <1>6, <1>8
  <2> QED
    BY <1>1, <1>3, <2>1 DEF Older
<1>9. ASSUME t = second_tag, NEW o \in Older(rob_q[t].seq) PROVE o = rob_q[head_q]
  <2>1. PICK u \in Tag : rob_q[u].valid /\ rob_q[u].seq < rob_q[t].seq /\ o = rob_q[u]
    BY DEF Older
  <2>2. u = head_q
    BY <1>1, <1>2, <1>5, <1>6, <1>9, <2>1
  <2> QED
    BY <2>1, <2>2
<1> QED
  BY <1>2, <1>3, <1>5, <1>6, <1>7, <1>8, <1>9

\* What retires has completed, and a second one is ordinary, like the first.
LEMMA RetiringCompleted ==
  ASSUME NEW f
  PROVE  /\ retire_count(f) # 0 =>
              rob_q[head_q].ready \/ rob_q[head_q].uop.class = "fence"
         /\ retire_count(f) = 2 =>
              /\ rob_q[second_tag].ready
              /\ ~Special(rob_q[head_q]) /\ ~Special(rob_q[second_tag])
         /\ retire_count(f) # 0 /\ ~recovery(f) => ~Mispredicted(rob_q[head_q])
BY DEF retire_count, recovery, Ready, Special, Mispredicted

\* A recovery removes the mispredicted head, and everything behind it.
LEMMA RecoveryLeaves ==
  ASSUME RobTypeOK, ProgramOrder, NEW f, recovery(f), Live' = {}
  PROVE  RetiresOldest
<1> SUFFICES ASSUME NEW t \in Tag, rob_q[t].valid
             PROVE  MayLeave(rob_q[t])
  BY DEF RetiresOldest
<1>1. Mispredicted(rob_q[head_q])
  BY DEF recovery, Mispredicted
<1>2. rob_q[head_q].ready \/ rob_q[head_q].uop.class = "fence"
  BY RetiringCompleted DEF recovery
<1>3. CASE t = head_q
  BY <1>2, <1>3, RingOrder DEF MayLeave
<1>4. CASE t # head_q
  BY <1>1, <1>4, RingOrder DEF MayLeave
<1> QED
  BY <1>3, <1>4

\* An ordinary edge removes the n oldest.
LEMMA RetirementLeaves ==
  ASSUME RobTypeOK, ProgramOrder, NEW f, NEW n \in 0 .. 2, n = retire_count(f), ~recovery(f),
         \A s \in Nat : s \in Live' <=> next_seq_q + n <= s + count_q /\ s < next_seq_q',
         next_seq_q' \in Nat, next_seq_q' >= next_seq_q
  PROVE  RetiresOldest
<1> SUFFICES ASSUME NEW t \in Tag, rob_q[t].valid, rob_q[t].seq \notin Live'
             PROVE  /\ \A o \in Older(rob_q[t].seq) : o.seq \notin Live'
                    /\ MayLeave(rob_q[t])
  BY DEF RetiresOldest
<1>1. count_q \in Nat /\ next_seq_q \in Nat
  BY DEF RobTypeOK
<1>2. rob_q[t].seq \in Nat /\ rob_q[t].seq < next_seq_q
  <2>1. rob_q[t].seq \in Live
    BY DEF Live
  <2> QED
    BY <2>1, LiveRange
<1>3. rob_q[t].seq + count_q < next_seq_q + n
  BY <1>1, <1>2
<1>4. ASSUME NEW o \in Older(rob_q[t].seq) PROVE o.seq \notin Live'
  <2>1. PICK u \in Tag : rob_q[u].valid /\ rob_q[u].seq < rob_q[t].seq /\ o = rob_q[u]
    BY DEF Older
  <2>2. o.seq \in Nat /\ o.seq < rob_q[t].seq
    BY <2>1, RingOrder
  <2> QED
    BY <1>1, <1>2, <1>3, <2>2
<1>5. CASE t = head_q
  <2>1. n # 0
    BY <1>1, <1>2, <1>3, <1>5, RingOrder
  <2> QED
    BY <1>5, <2>1, RingOrder, RetiringCompleted DEF MayLeave
<1>6. CASE t # head_q
  <2>1. n = 2 /\ t = second_tag
    BY <1>1, <1>2, <1>3, <1>6, RingOrder
  <2>2. Older(rob_q[t].seq) = {rob_q[head_q]}
    BY <1>6, <2>1, RingOrder
  <2>3. /\ rob_q[t].ready /\ ~Special(rob_q[t]) /\ ~Special(rob_q[head_q])
        /\ rob_q[head_q] \in Older(rob_q[t].seq) /\ Older(rob_q[head_q].seq) = {}
    BY <1>6, <2>1, RingOrder, RetiringCompleted
  <2>4. MayLeave(rob_q[t])
    BY <2>2, <2>3 DEF MayLeave
  <2> QED
    BY <1>4, <2>4
<1> QED
  BY <1>4, <1>5, <1>6

\* Whatever leaves in one edge, older instructions leave with it, and it may.
LEMMA OldestLeaves ==
  ASSUME RobTypeOK, ProgramOrder, RobTypeOK', ProgramOrder', RobNext
  PROVE  RetiresOldest
<1>1. Live' = {s \in Nat : next_seq_q' <= s + count_q' /\ s < next_seq_q'}
  <2>1. (RobTypeOK /\ ProgramOrder =>
           Live = {s \in Nat : next_seq_q <= s + count_q /\ s < next_seq_q})'
    BY LiveRange, PTL
  <2> QED
    BY <2>1
<1>2. ASSUME NEW f, recovery(f), Recover PROVE RetiresOldest
  <2>1. count_q' = 0 /\ next_seq_q' = next_seq_q /\ next_seq_q \in Nat
    BY <1>2 DEF Recover, RobTypeOK
  <2>2. Live' = {}
    BY <1>1, <2>1
  <2> QED
    BY <1>2, <2>2, RecoveryLeaves
<1>3. ASSUME NEW f, NEW n \in 0 .. 2, OrdinaryEdge(f, n) PROVE RetiresOldest
  <2>1. /\ n = retire_count(f) /\ n <= count_q /\ ~recovery(f)
        /\ \E d, cdb0, cdb1, done : InputOK(d, cdb0, cdb1) /\ Advance(d, n, cdb0, cdb1, done)
    BY <1>3 DEF OrdinaryEdge
  <2>2. PICK k \in Nat : count_q' = count_q + k - n /\ next_seq_q' = next_seq_q + k
    BY <2>1 DEF Advance, InputOK
  <2>3. count_q \in Nat /\ next_seq_q \in Nat
    BY DEF RobTypeOK
  <2>4. /\ \A s \in Nat : s \in Live' <=> next_seq_q + n <= s + count_q /\ s < next_seq_q'
        /\ next_seq_q' \in Nat /\ next_seq_q' >= next_seq_q
    BY <1>1, <2>1, <2>2, <2>3
  <2> QED
    BY <2>1, <2>4, RetirementLeaves
<1> QED
  BY <1>2, <1>3, RobNextEdges

\* Retirement is in order, complete and precise, for every depth: what leaves
\* the ring (retire_count) is the oldest instruction and perhaps the second
\* oldest, completed, or, if the oldest was mispredicted (recovery), all.
THEOREM RobInOrderRetirement == RobSpec => InOrderRetirement
<1>1. /\ RobTypeOK /\ ProgramOrder /\ RobTypeOK' /\ ProgramOrder' /\ [RobNext]_robVars
      => [RetiresOldest]_robVars
  BY OldestLeaves
<1> QED
  BY <1>1, RobTypeCorrect, RobProgramOrder, PTL DEF RobSpec, InOrderRetirement

\* A result that is there is not touched by an edge that leaves its entry.
LEMMA ResultStays ==
  ASSUME RobTypeOK, ProgramOrder, RobNext, NEW t \in Tag,
         rob_q[t].valid, rob_q'[t].valid, rob_q'[t].seq = rob_q[t].seq, rob_q[t].ready
  PROVE  /\ rob_q'[t].ready
         /\ rob_q'[t].value = rob_q[t].value
         /\ rob_q'[t].target = rob_q[t].target
         /\ rob_q'[t].mispredict = rob_q[t].mispredict
<1>1. PICK d \in Dispatch, cdb0 \in {Silence} \cup Broadcast,
           cdb1 \in {Silence} \cup Broadcast,
           done \in {{}} \cup {{u} : u \in Waiting({"store"})},
           fenceOk \in {FALSE, head_is_fence} :
             RobTick(d, cdb0, cdb1, done, fenceOk)
  BY DEF RobNext
<1>2. rob_q[t] \in Entry /\ next_seq_q \in Nat
  BY DEF RobTypeOK
<1>3. ASSUME NEW m \in {Silence} \cup Broadcast
      PROVE  Complete(rob_q[t], t, m) = rob_q[t]
  <2>1. CASE m = Silence
    BY <2>1 DEF Silence, Complete
  <2>2. CASE m \in Broadcast
    <3>1. m.tag # t
      BY <2>2 DEF Broadcast, Waiting
    <3> QED
      BY <3>1 DEF Complete
  <2> QED
    BY <2>1, <2>2
<1>4. CASE Recover
  <2>1. rob_q'[t].valid = FALSE
    BY <1>2, <1>4 DEF Recover, Clear, Entry
  <2> QED
    BY <2>1
<1>5. CASE Advance(d, retire_count(fenceOk), cdb0, cdb1, done)
  <2>1. rob_q[t].seq < next_seq_q
    <3>1. rob_q[t].seq \in Nat /\ rob_q[t].seq \in Live
      BY <1>2 DEF Entry, Live
    <3> QED
      BY <3>1, LiveRange
  <2>2. /\ Len(d) >= 1 => NewEntry(d[1], 0).seq = next_seq_q
        /\ Len(d) = 2 => NewEntry(d[2], 1).seq = next_seq_q + 1
    BY <1>2 DEF NewEntry
  <2>3. /\ ~(Len(d) >= 1 /\ t = tail_q)
        /\ ~(Len(d) = 2 /\ t = After(tail_q, 1))
    <3>1. /\ Len(d) >= 1 /\ t = tail_q => rob_q'[t] = NewEntry(d[1], 0)
          /\ ~(Len(d) >= 1 /\ t = tail_q) /\ Len(d) = 2 /\ t = After(tail_q, 1)
               => rob_q'[t] = NewEntry(d[2], 1)
      BY <1>5 DEF Advance
    <3>2. rob_q'[t].seq # next_seq_q /\ rob_q'[t].seq # next_seq_q + 1
      BY <1>2, <2>1 DEF Entry
    <3> QED
      BY <2>2, <3>1, <3>2
  <2>4. rob_q'[t] \in {Clear(rob_q[t]), StoreDone(rob_q[t], t, done)}
    BY <1>3, <1>5, <2>3 DEF Advance
  <2>5. rob_q'[t] = StoreDone(rob_q[t], t, done)
    <3>1. Clear(rob_q[t]).valid = FALSE
      BY <1>2, ClearEntry
    <3> QED
      BY <2>4, <3>1
  <2> QED
    BY <1>2, <2>5 DEF StoreDone, Entry
<1> QED
  BY <1>1, <1>4, <1>5 DEF RobTick

\* A completed instruction keeps its result, target and misprediction until it
\* retires, for every depth and whatever else happens in the edge (Advance).
THEOREM RobCompletionKept == RobSpec => CompletionKept
<1>1. RobTypeOK /\ ProgramOrder /\ [RobNext]_robVars =>
        [\A t \in Tag :
           /\ rob_q[t].valid /\ rob_q'[t].valid /\ rob_q'[t].seq = rob_q[t].seq
           /\ rob_q[t].ready
           => /\ rob_q'[t].ready
              /\ rob_q'[t].value = rob_q[t].value
              /\ rob_q'[t].target = rob_q[t].target
              /\ rob_q'[t].mispredict = rob_q[t].mispredict]_robVars
  BY ResultStays
<1> QED
  BY <1>1, RobTypeCorrect, RobProgramOrder, PTL DEF RobSpec, CompletionKept
-----------------------------------------------------------------------------
(***************************************************************************)
(* The lowest register of a set, and the registers that renaming takes.    *)
(***************************************************************************)
\* A set of numbers that is not empty has a lowest one.
LEMMA LowestExists ==
  ASSUME NEW S, S \subseteq Nat, S # {}
  PROVE  \E x \in S : \A y \in S : x <= y
<1> DEFINE R == OpToRel(<, Nat)
<1>1. \E x \in S : \A y \in S : ~(<<y, x>> \in R)
  <2>1. IsWellFoundedOn(R, Nat)
    BY NatLessThanWellFounded
  <2> HIDE DEF R
  <2> QED
    BY <2>1, WFMin
<1>2. R = {ss \in Nat \X Nat : ss[1] < ss[2]}
  BY DEF OpToRel
<1> HIDE DEF R
<1>3. \A x, y \in S : <<y, x>> \in R <=> y < x
  BY <1>2
<1>4. PICK x \in S : \A y \in S : ~(<<y, x>> \in R)
  BY <1>1
<1>5. \A y \in S : ~(y < x)
  BY <1>3, <1>4
<1>6. \A y \in S : x <= y
  BY <1>5
<1> QED
  BY <1>6

\* Below a bound, a set of numbers that is not empty has a highest one.
LEMMA HighestExists ==
  ASSUME NEW S, S \subseteq Nat, S # {}, NEW m \in Nat, \A x \in S : x < m
  PROVE  \E x \in S : \A y \in S : y <= x
<1> DEFINE D == {m - x : x \in S}
<1>1. D \subseteq Nat /\ D # {}
  <2>1. \A x \in S : m - x \in Nat
    <3>1. \A x \in Nat : x < m => m - x \in Nat
      OBVIOUS
    <3> QED
      BY <3>1
  <2> QED
    BY <2>1
<1>2. PICK a \in D : \A b \in D : a <= b
  <2> HIDE DEF D
  <2> QED
    BY <1>1, LowestExists
<1>3. PICK x \in S : a = m - x
  OBVIOUS
<1>4. ASSUME NEW y \in S PROVE y <= x
  <2>1. m - y \in D
    OBVIOUS
  <2>2. m - x <= m - y
    BY <1>2, <1>3, <2>1
  <2>3. m \in Nat /\ x \in Nat /\ y \in Nat
    OBVIOUS
  <2> HIDE DEF D
  <2> QED
    BY <2>2, <2>3
<1> QED
  BY <1>4

LEMMA LowestIn ==
  ASSUME NEW S \in SUBSET Phys, S # {}
  PROVE  Lowest(S) \in S
<1>1. S \subseteq Nat
  BY RegCountAssumption DEF Phys
<1> QED
  BY <1>1, LowestExists DEF Lowest

\* Renaming takes free registers, and two different ones for two writers, as
\* long as admission left it as many as it needs.
LEMMA FreshRegisters ==
  ASSUME free_mask \in SUBSET Phys, NEW i, Len(i) \in 0 .. 2,
         phys_need(i) <= Cardinality(free_mask)
  PROVE  /\ Len(i) >= 1 /\ effective_write(i[1]) => new_pdst0(i[1]) \in free_mask
         /\ Len(i) = 2 /\ effective_write(i[2]) => new_pdst1(i[1], i[2]) \in free_mask
         /\ Len(i) = 2 /\ effective_write(i[1]) /\ effective_write(i[2])
              => new_pdst0(i[1]) # new_pdst1(i[1], i[2])
<1> DEFINE K == {k \in 1 .. Len(i) : effective_write(i[k])}
<1>1. Cardinality(K) <= Cardinality(free_mask)
  BY DEF phys_need
<1>2. IsFiniteSet(free_mask) /\ IsFiniteSet(K)
  <2>1. IsFiniteSet(Phys) /\ IsFiniteSet(1 .. Len(i))
    BY RegCountAssumption, FS_Interval DEF Phys
  <2> QED
    BY <2>1, FS_Subset
<1>3. Cardinality(free_mask) \in Nat /\ Cardinality(K) \in Nat
  BY <1>2, FS_CardinalityType
<1>4. K # {} => first_free_tag \in free_mask
  <2>1. ASSUME K # {} PROVE free_mask # {}
    <3>1. Cardinality(K) # 0
      BY <2>1, <1>2, FS_EmptySet
    <3>2. ASSUME free_mask = {} PROVE FALSE
      <4>1. Cardinality(free_mask) = 0
        BY <3>2, FS_EmptySet
      <4> HIDE DEF K
      <4> QED
        BY <3>1, <4>1, <1>1, <1>3
    <3> QED
      BY <3>2
  <2> QED
    BY <2>1, LowestIn DEF first_free_tag
<1>5. ASSUME 1 \in K, 2 \in K
      PROVE  second_free_tag \in free_mask /\ second_free_tag # first_free_tag
  <2>1. K = {1} \cup {2}
    BY <1>5
  <2>2. Cardinality({1} \cup {2}) = 2
    <3>1. Cardinality({1}) = 1 /\ IsFiniteSet({1})
      BY FS_Singleton
    <3>2. Cardinality({1} \cup {2}) = Cardinality({1}) + 1
      <4>1. 2 \notin {1}
        OBVIOUS
      <4> QED
        BY <3>1, <4>1, FS_AddElement, Zenon
    <3>3. Cardinality({1} \cup {2}) = 1 + 1
      BY <3>1, <3>2, Zenon
    <3> DEFINE two == Cardinality({1} \cup {2})
    <3>4. two = 1 + 1
      BY <3>3
    <3> HIDE DEF two
    <3>5. two = 2
      BY <3>4
    <3> QED
      BY <3>5 DEF two
  <2>3. Cardinality(free_mask) >= 2
    BY <1>1, <1>3, <2>1, <2>2
  <2>4. free_mask # {first_free_tag}
    <3>1. Cardinality({first_free_tag}) = 1
      BY FS_Singleton
    <3>2. ASSUME free_mask = {first_free_tag} PROVE FALSE
      <4>1. Cardinality(free_mask) = 1
        BY <3>1, <3>2
      <4> QED
        BY <4>1, <2>3
    <3> QED
      BY <3>2
  <2>5. free_mask \ {first_free_tag} # {}
    BY <2>3, <2>4, FS_EmptySet
  <2>6. free_mask \ {first_free_tag} \in SUBSET Phys
    OBVIOUS
  <2> QED
    BY <2>5, <2>6, LowestIn DEF second_free_tag
<1>6. /\ Len(i) >= 1 /\ effective_write(i[1]) => 1 \in K
      /\ Len(i) = 2 /\ effective_write(i[2]) => 2 \in K
  OBVIOUS
<1> HIDE DEF K
<1> QED
  BY <1>4, <1>5, <1>6 DEF new_pdst0, new_pdst1
-----------------------------------------------------------------------------
(***************************************************************************)
(* The invariants.                                                         *)
(***************************************************************************)
RatTypeOK ==
  /\ rat_map \in [Arch -> Phys] /\ amt \in [Arch -> Phys] /\ free_mask \in SUBSET Phys
  /\ rat_map[0] = 0 /\ amt[0] = 0
  /\ reg_ready \in [Phys -> BOOLEAN] /\ reg_value[0] = 0

\* What the buffer holds of an instruction comes from the decoder and from
\* renaming; one without a destination is renamed to register 0.
UopOK(u) ==
  /\ u.writes \in BOOLEAN /\ u.rd \in Arch /\ u.pdst \in Phys /\ u.old_pdst \in Phys
  /\ u.writes => u.supported /\ u.class \in {"alu", "muldiv", "load", "control"}
  /\ ~effective_write(u) => u.pdst = 0
UopsOK == \A t \in Tag : rob_q[t].valid => UopOK(rob_q[t].uop)

RenameTypes == RobTypeOK /\ RatTypeOK /\ UopsOK

(***************************************************************************)
(* The other units, as renaming meets them: a bus lane that speaks names   *)
(* an instruction that waits, under the register it was renamed to.        *)
(***************************************************************************)
BusOK(m) ==
  /\ LaneOK(m)
  /\ m.valid => LET e == rob_q[m.tag]
                IN e.valid /\ ~e.ready /\ m.writes = e.uop.writes /\ m.pdst = e.uop.pdst

RenameInput(i, cdb0, cdb1, fenceOk) ==
  /\ i \in Seq(Decoded) /\ Len(i) \in 0 .. 2 /\ Len(i) <= rob_free_count
  /\ phys_need(i) <= Cardinality(free_mask)
  /\ BusOK(cdb0) /\ BusOK(cdb1)
  /\ fenceOk => head_is_fence
  /\ recovery(fenceOk) => i = <<>> /\ ~cdb0.valid /\ ~cdb1.valid

\* Renaming a decoded instruction changes its two registers and nothing else.
RenamedTo(a, p, q) == [a EXCEPT !.pdst = p, !.old_pdst = q]
Keeps(u, a) ==
  /\ u \in Uop /\ UopOK(u)
  /\ u.rd = a.rd /\ u.writes = a.writes /\ u.supported = a.supported /\ u.class = a.class
  /\ effective_write(u) <=> effective_write(a)

LEMMA RenamedOne ==
  ASSUME NEW a \in Decoded, NEW p \in Phys, NEW q \in Phys,
         ~effective_write(a) => p = 0
  PROVE  /\ Keeps(RenamedTo(a, p, q), a)
         /\ RenamedTo(a, p, q).pdst = p /\ RenamedTo(a, p, q).old_pdst = q
<1> DEFINE u == RenamedTo(a, p, q)
<1>1. u \in Uop
  BY DecodedAssumption DEF RenamedTo
<1>2. /\ u.pdst = p /\ u.old_pdst = q /\ u.rd = a.rd /\ u.writes = a.writes
      /\ u.supported = a.supported /\ u.class = a.class
  <2>1. {"class", "supported", "writes", "rd", "pdst", "old_pdst"} \subseteq DOMAIN a
    BY DecodedAssumption
  <2> QED
    BY <2>1 DEF RenamedTo
<1> HIDE DEF u
<1>3. effective_write(u) <=> effective_write(a)
  BY <1>2 DEF effective_write
<1>4. UopOK(u)
  <2>1. /\ a.writes \in BOOLEAN /\ a.rd \in Arch
        /\ a.writes => a.supported /\ a.class \in {"alu", "muldiv", "load", "control"}
    BY DecodedAssumption
  <2> QED
    BY <2>1, <1>2, <1>3 DEF UopOK
<1> QED
  BY <1>1, <1>2, <1>3, <1>4 DEF u, Keeps

\* The uops that dispatch hands to the buffer, and the registers they take.
LEMMA RenamedUops ==
  ASSUME RatTypeOK, NEW i \in Seq(Decoded), Len(i) \in 0 .. 2,
         phys_need(i) <= Cardinality(free_mask)
  PROVE  /\ renamed(i) \in Seq(Uop) /\ Len(renamed(i)) = Len(i)
         /\ \A k \in 1 .. Len(i) :
              /\ Keeps(renamed(i)[k], i[k])
              /\ effective_write(i[k]) => renamed(i)[k].pdst \in free_mask
         /\ Len(i) >= 1 => /\ renamed(i)[1].pdst = new_pdst0(i[1])
                           /\ renamed(i)[1].old_pdst = rat_map[i[1].rd]
         /\ Len(i) = 2 => /\ renamed(i)[2].pdst = new_pdst1(i[1], i[2])
                          /\ renamed(i)[2].old_pdst = old_pdst1(i[1], i[2])
         /\ Len(i) = 2 /\ effective_write(i[1]) /\ effective_write(i[2])
              => renamed(i)[1].pdst # renamed(i)[2].pdst
<1>1. /\ free_mask \in SUBSET Phys /\ 0 \in Phys
      /\ \A r \in Arch : rat_map[r] \in Phys
      /\ \A k \in 1 .. Len(i) : i[k] \in Decoded /\ i[k].rd \in Arch
  <2>1. 0 \in Phys
    BY RegCountAssumption DEF Phys
  <2>2. \A k \in 1 .. Len(i) : i[k] \in Decoded
    OBVIOUS
  <2> QED
    BY <2>1, <2>2, DecodedAssumption DEF RatTypeOK
<1>2. /\ Len(i) >= 1 /\ effective_write(i[1]) => new_pdst0(i[1]) \in free_mask
      /\ Len(i) = 2 /\ effective_write(i[2]) => new_pdst1(i[1], i[2]) \in free_mask
      /\ Len(i) = 2 /\ effective_write(i[1]) /\ effective_write(i[2])
           => new_pdst0(i[1]) # new_pdst1(i[1], i[2])
  BY <1>1, FreshRegisters
<1> DEFINE u1 == RenamedTo(i[1], new_pdst0(i[1]), old_pdst0(i[1]))
           u2 == RenamedTo(i[2], new_pdst1(i[1], i[2]), old_pdst1(i[1], i[2]))
<1>3. ASSUME Len(i) >= 1
      PROVE  /\ Keeps(u1, i[1])
             /\ u1.pdst = new_pdst0(i[1]) /\ u1.old_pdst = rat_map[i[1].rd]
             /\ effective_write(i[1]) => u1.pdst \in free_mask
  <2>1. /\ i[1] \in Decoded /\ new_pdst0(i[1]) \in Phys /\ old_pdst0(i[1]) \in Phys
        /\ old_pdst0(i[1]) = rat_map[i[1].rd]
        /\ ~effective_write(i[1]) => new_pdst0(i[1]) = 0
    BY <1>1, <1>2, <1>3 DEF new_pdst0, old_pdst0
  <2>2. Keeps(u1, i[1]) /\ u1.pdst = new_pdst0(i[1]) /\ u1.old_pdst = old_pdst0(i[1])
    BY <2>1, RenamedOne
  <2> QED
    BY <2>1, <2>2, <1>2, <1>3
<1>4. ASSUME Len(i) = 2
      PROVE  /\ Keeps(u2, i[2])
             /\ u2.pdst = new_pdst1(i[1], i[2]) /\ u2.old_pdst = old_pdst1(i[1], i[2])
             /\ effective_write(i[2]) => u2.pdst \in free_mask
  <2>1. /\ i[2] \in Decoded /\ new_pdst1(i[1], i[2]) \in Phys
        /\ ~effective_write(i[2]) => new_pdst1(i[1], i[2]) = 0
    BY <1>1, <1>2, <1>4 DEF new_pdst1
  <2>2. old_pdst1(i[1], i[2]) \in Phys
    <3>1. i[1] \in Decoded /\ i[2] \in Decoded /\ i[2].rd \in Arch
      BY <1>1, <1>4
    <3> QED
      BY <3>1, <1>1, <1>2, <1>4 DEF old_pdst1
  <2>3. /\ Keeps(u2, i[2])
        /\ u2.pdst = new_pdst1(i[1], i[2]) /\ u2.old_pdst = old_pdst1(i[1], i[2])
    BY <2>1, <2>2, RenamedOne
  <2> QED
    BY <2>3, <1>2, <1>4
<1>5. /\ Len(renamed(i)) = Len(i) /\ DOMAIN renamed(i) = 1 .. Len(i)
      /\ Len(i) >= 1 => renamed(i)[1] = u1
      /\ Len(i) = 2 => renamed(i)[2] = u2
  <2>1. renamed(i) = [k \in 1 .. Len(i) |-> IF k = 1 THEN u1 ELSE u2]
    BY DEF renamed, RenamedTo
  <2> HIDE DEF u1, u2
  <2> QED
    BY <2>1
<1> HIDE DEF u1, u2
<1>6. ASSUME NEW k \in 1 .. Len(i)
      PROVE  /\ Keeps(renamed(i)[k], i[k])
             /\ effective_write(i[k]) => renamed(i)[k].pdst \in free_mask
  <2>1. CASE k = 1
    BY <2>1, <1>3, <1>5, <1>6
  <2>2. CASE k = 2
    BY <2>2, <1>4, <1>5, <1>6
  <2> QED
    BY <2>1, <2>2
<1>7. renamed(i) \in Seq(Uop)
  <2>1. \A k \in 1 .. Len(i) : renamed(i)[k] \in Uop
    BY <1>6 DEF Keeps
  <2>2. renamed(i) = [k \in 1 .. Len(i) |-> renamed(i)[k]]
    BY DEF renamed
  <2> QED
    BY <2>1, <2>2
<1> QED
  BY <1>2, <1>3, <1>4, <1>5, <1>6, <1>7
-----------------------------------------------------------------------------
(***************************************************************************)
(* A clock edge by positions in the buffer.                                *)
(***************************************************************************)
LEMMA Positions ==
  ASSUME RobTypeOK
  PROVE  /\ \A t \in Tag : Position(t) \in Nat /\ Position(t) < ROB_DEPTH
         /\ \A t, u \in Tag : Position(t) = Position(u) => t = u
         /\ \A p \in Nat : p < ROB_DEPTH =>
              After(head_q, p) \in Tag /\ Position(After(head_q, p)) = p
         /\ head_q \in Tag /\ Position(head_q) = 0
<1>1. /\ head_q \in Nat /\ head_q < ROB_DEPTH /\ ROB_DEPTH \in Nat /\ head_q \in Tag
      /\ \A t \in Tag : t \in Nat /\ t < ROB_DEPTH
  BY RobDepthAssumption DEF RobTypeOK, Tag
<1>2. \A p \in Nat : p < ROB_DEPTH =>
        After(head_q, p) \in Tag /\ Position(After(head_q, p)) = p
  BY <1>1 DEF After, Position, Tag
<1>3. \A t \in Tag : Position(t) \in Nat /\ Position(t) < ROB_DEPTH
  BY <1>1 DEF Position
<1>4. \A t, u \in Tag : Position(t) = Position(u) => t = u
  BY <1>1 DEF Position
<1>5. Position(head_q) = 0
  BY <1>1 DEF Position
<1> QED
  BY <1>1, <1>2, <1>3, <1>4, <1>5

\* In an ordinary edge the first n entries leave, the others move up by n, and
\* the entries dispatched follow the last one.
Heard(t, cdb0, cdb1) == Complete(Complete(rob_q[t], t, cdb0), t, cdb1)

Moves(d, n, cdb0, cdb1, done) ==
  /\ count_q' = count_q + Len(d) - n
  /\ \A t \in Tag :
       /\ Position(t) < n => ~rob_q'[t].valid
       /\ n <= Position(t) /\ Position(t) < count_q =>
            /\ rob_q'[t] = StoreDone(Heard(t, cdb0, cdb1), t, done)
            /\ Position(t)' = Position(t) - n
       /\ Len(d) >= 1 /\ Position(t) = count_q =>
            rob_q'[t] = NewEntry(d[1], 0) /\ Position(t)' = count_q - n
       /\ Len(d) = 2 /\ Position(t) = count_q + 1 =>
            rob_q'[t] = NewEntry(d[2], 1) /\ Position(t)' = count_q + 1 - n
       /\ Position(t) >= count_q + Len(d) => ~rob_q'[t].valid

LEMMA AdvanceMoves ==
  ASSUME RobTypeOK, ProgramOrder, NEW n \in 0 .. 2, n <= count_q,
         NEW d, NEW cdb0, NEW cdb1, NEW done, InputOK(d, cdb0, cdb1),
         Advance(d, n, cdb0, cdb1, done)
  PROVE  Moves(d, n, cdb0, cdb1, done)
<1> DEFINE k == Len(d)
<1>1. /\ k \in 0 .. 2 /\ count_q \in Nat
      /\ k + count_q <= ROB_DEPTH
      /\ head_q \in Nat /\ head_q < ROB_DEPTH
      /\ tail_q \in Nat /\ tail_q < ROB_DEPTH
      /\ tail_q = After(head_q, count_q)
      /\ ROB_DEPTH \in Nat /\ ROB_DEPTH >= 2
      /\ second_tag = After(head_q, 1)
  BY RobDepthAssumption DEF RobTypeOK, ProgramOrder, InputOK, rob_free_count, Tag, second_tag
<1>2. /\ head_q' = After(head_q, n) /\ count_q' = count_q + k - n
  BY DEF Advance
<1>3. ASSUME NEW t \in Tag
      PROVE  /\ Position(t) < n => ~rob_q'[t].valid
             /\ n <= Position(t) /\ Position(t) < count_q =>
                  /\ rob_q'[t] = StoreDone(Heard(t, cdb0, cdb1), t, done)
                  /\ Position(t)' = Position(t) - n
             /\ k >= 1 /\ Position(t) = count_q =>
                  rob_q'[t] = NewEntry(d[1], 0) /\ Position(t)' = count_q - n
             /\ k = 2 /\ Position(t) = count_q + 1 =>
                  rob_q'[t] = NewEntry(d[2], 1) /\ Position(t)' = count_q + 1 - n
             /\ Position(t) >= count_q + k => ~rob_q'[t].valid
  <2> HIDE DEF k
  <2>1. rob_q'[t] = IF k >= 1 /\ t = tail_q THEN NewEntry(d[1], 0)
                    ELSE IF k = 2 /\ t = After(tail_q, 1) THEN NewEntry(d[2], 1)
                    ELSE IF (n >= 1 /\ t = head_q) \/ (n = 2 /\ t = second_tag)
                    THEN Clear(Heard(t, cdb0, cdb1))
                    ELSE StoreDone(Heard(t, cdb0, cdb1), t, done)
    BY DEF Advance, Heard, k
  <2>2. t \in Nat /\ t < ROB_DEPTH
    BY <1>1 DEF Tag
  <2>3. /\ Position(t) \in Nat /\ Position(t) < ROB_DEPTH
        /\ n <= Position(t) => Position(t)' = Position(t) - n
    BY <1>1, <1>2, <2>2 DEF Position, After
  <2>4. /\ k >= 1 => (t = tail_q <=> Position(t) = count_q)
        /\ k = 2 => (t = After(tail_q, 1) <=> Position(t) = count_q + 1)
        /\ ((n >= 1 /\ t = head_q) \/ (n = 2 /\ t = second_tag)) <=> Position(t) < n
    BY <1>1, <1>2, <2>2 DEF Position, After
  <2>5. rob_q[t] \in Entry /\ (rob_q[t].valid <=> Position(t) < count_q)
    BY DEF RobTypeOK, ProgramOrder
  <2>6. Heard(t, cdb0, cdb1) \in Entry /\ Heard(t, cdb0, cdb1).valid = rob_q[t].valid
    <3>1. LaneOK(cdb0) /\ LaneOK(cdb1)
      BY DEF InputOK
    <3>2. /\ Complete(rob_q[t], t, cdb0) \in Entry
          /\ Complete(rob_q[t], t, cdb0).valid = rob_q[t].valid
      BY <2>5, <3>1, CompleteEntry
    <3> QED
      BY <3>1, <3>2, CompleteEntry DEF Heard
  <2>7. /\ Clear(Heard(t, cdb0, cdb1)).valid = FALSE
        /\ StoreDone(Heard(t, cdb0, cdb1), t, done).valid = rob_q[t].valid
    <3>1. Heard(t, cdb0, cdb1) \in Entry
      BY <2>6
    <3>2. Clear(Heard(t, cdb0, cdb1)).valid = FALSE
      BY <3>1, ClearEntry
    <3>3. StoreDone(Heard(t, cdb0, cdb1), t, done).valid = Heard(t, cdb0, cdb1).valid
      BY <3>1, StoreDoneEntry
    <3> QED
      BY <2>6, <3>2, <3>3
  <2> QED
    BY <1>1, <2>1, <2>3, <2>4, <2>5, <2>7
<1> QED
  BY <1>2, <1>3 DEF Moves

\* The entry of an instruction that stays: its uop and number are what they were, and
\* nothing happens to it that a bus lane or its store completion does not do.
LEMMA StaysAs ==
  ASSUME RobTypeOK, NEW t \in Tag, NEW cdb0, NEW cdb1, NEW done, LaneOK(cdb0), LaneOK(cdb1)
  PROVE  LET e == StoreDone(Heard(t, cdb0, cdb1), t, done)
         IN /\ e.valid = rob_q[t].valid /\ e.uop = rob_q[t].uop /\ e.seq = rob_q[t].seq
            /\ rob_q[t].valid /\ cdb1.valid /\ cdb1.tag = t => e.ready /\ e.value = cdb1.value
            /\ rob_q[t].valid /\ cdb0.valid /\ cdb0.tag = t /\ ~(cdb1.valid /\ cdb1.tag = t)
                 => e.ready /\ e.value = cdb0.value
            /\ ~(cdb0.valid /\ cdb0.tag = t) /\ ~(cdb1.valid /\ cdb1.tag = t)
                 => /\ e.value = rob_q[t].value
                    /\ e.ready <=> rob_q[t].ready \/ (/\ t \in done /\ rob_q[t].valid
                                                      /\ rob_q[t].uop.class = "store")
<1> DEFINE h0 == Complete(rob_q[t], t, cdb0)
           h1 == Complete(h0, t, cdb1)
           e == StoreDone(h1, t, done)
<1>1. rob_q[t] \in Entry
  BY DEF RobTypeOK
<1>2. /\ h0 \in Entry /\ h0.valid = rob_q[t].valid /\ h0.uop = rob_q[t].uop
      /\ h0.seq = rob_q[t].seq
      /\ rob_q[t].valid /\ cdb0.valid /\ cdb0.tag = t => h0.ready /\ h0.value = cdb0.value
      /\ ~(cdb0.valid /\ cdb0.tag = t) => h0 = rob_q[t]
  <2>1. h0 \in Entry /\ h0.valid = rob_q[t].valid /\ h0.seq = rob_q[t].seq
    BY <1>1, CompleteEntry
  <2> QED
    BY <1>1, <2>1 DEF Complete, Entry
<1> HIDE DEF h0
<1>3. /\ h1 \in Entry /\ h1.valid = h0.valid /\ h1.uop = h0.uop /\ h1.seq = h0.seq
      /\ h0.valid /\ cdb1.valid /\ cdb1.tag = t => h1.ready /\ h1.value = cdb1.value
      /\ ~(cdb1.valid /\ cdb1.tag = t) => h1 = h0
  <2>1. h1 \in Entry /\ h1.valid = h0.valid /\ h1.seq = h0.seq
    BY <1>2, CompleteEntry
  <2> QED
    BY <1>2, <2>1 DEF Complete, Entry
<1> HIDE DEF h1
<1>4. /\ e.valid = h1.valid /\ e.uop = h1.uop /\ e.seq = h1.seq /\ e.value = h1.value
      /\ e.ready <=> h1.ready \/ (t \in done /\ h1.valid /\ h1.uop.class = "store")
  BY <1>3 DEF StoreDone, Entry
<1>5. Heard(t, cdb0, cdb1) = h1
  BY DEF Heard, h0, h1
<1> QED
  BY <1>2, <1>3, <1>4, <1>5

\* After an ordinary edge an instruction in flight was there before, or is one of
\* those dispatched.
LEMMA InFlightAfter ==
  ASSUME RobTypeOK, ProgramOrder, NEW n \in 0 .. 2, n <= count_q,
         NEW d, NEW cdb0, NEW cdb1, NEW done, InputOK(d, cdb0, cdb1),
         Moves(d, n, cdb0, cdb1, done), NEW t \in Tag
  PROVE  /\ n <= Position(t) /\ Position(t) < count_q =>
              /\ rob_q'[t].valid /\ rob_q[t].valid
              /\ rob_q'[t].uop = rob_q[t].uop /\ rob_q'[t].seq = rob_q[t].seq
              /\ Position(t)' = Position(t) - n
         /\ Len(d) >= 1 /\ Position(t) = count_q =>
              /\ rob_q'[t].valid /\ rob_q'[t].uop = d[1] /\ ~rob_q[t].valid
              /\ rob_q'[t].ready = ~d[1].supported
              /\ Position(t)' = count_q - n
         /\ Len(d) = 2 /\ Position(t) = count_q + 1 =>
              /\ rob_q'[t].valid /\ rob_q'[t].uop = d[2] /\ ~rob_q[t].valid
              /\ rob_q'[t].ready = ~d[2].supported
              /\ Position(t)' = count_q + 1 - n
         /\ rob_q'[t].valid =>
              \/ n <= Position(t) /\ Position(t) < count_q
              \/ Len(d) >= 1 /\ Position(t) = count_q
              \/ Len(d) = 2 /\ Position(t) = count_q + 1
<1>1. /\ Len(d) \in 0 .. 2 /\ count_q \in Nat /\ Position(t) \in Nat
      /\ LaneOK(cdb0) /\ LaneOK(cdb1)
      /\ rob_q[t].valid <=> Position(t) < count_q
  BY Positions DEF InputOK, RobTypeOK, ProgramOrder
<1> DEFINE e == StoreDone(Heard(t, cdb0, cdb1), t, done)
<1>2. /\ e.valid = rob_q[t].valid /\ e.uop = rob_q[t].uop /\ e.seq = rob_q[t].seq
  BY <1>1, StaysAs
<1>3. /\ Position(t) < n => ~rob_q'[t].valid
      /\ n <= Position(t) /\ Position(t) < count_q =>
           rob_q'[t] = e /\ Position(t)' = Position(t) - n
      /\ Len(d) >= 1 /\ Position(t) = count_q =>
           rob_q'[t] = NewEntry(d[1], 0) /\ Position(t)' = count_q - n
      /\ Len(d) = 2 /\ Position(t) = count_q + 1 =>
           rob_q'[t] = NewEntry(d[2], 1) /\ Position(t)' = count_q + 1 - n
      /\ Position(t) >= count_q + Len(d) => ~rob_q'[t].valid
  BY DEF Moves
<1> HIDE DEF e
<1>4. /\ NewEntry(d[1], 0).valid /\ NewEntry(d[1], 0).uop = d[1]
      /\ NewEntry(d[1], 0).ready = ~d[1].supported
      /\ NewEntry(d[2], 1).valid /\ NewEntry(d[2], 1).uop = d[2]
      /\ NewEntry(d[2], 1).ready = ~d[2].supported
  BY DEF NewEntry
<1>5. n <= Position(t) /\ Position(t) < count_q =>
        /\ rob_q'[t].valid /\ rob_q[t].valid
        /\ rob_q'[t].uop = rob_q[t].uop /\ rob_q'[t].seq = rob_q[t].seq
        /\ Position(t)' = Position(t) - n
  BY <1>1, <1>2, <1>3
<1>6. Len(d) >= 1 /\ Position(t) = count_q =>
        /\ rob_q'[t].valid /\ rob_q'[t].uop = d[1] /\ ~rob_q[t].valid
        /\ rob_q'[t].ready = ~d[1].supported
        /\ Position(t)' = count_q - n
  BY <1>1, <1>3, <1>4
<1>7. Len(d) = 2 /\ Position(t) = count_q + 1 =>
        /\ rob_q'[t].valid /\ rob_q'[t].uop = d[2] /\ ~rob_q[t].valid
        /\ rob_q'[t].ready = ~d[2].supported
        /\ Position(t)' = count_q + 1 - n
  BY <1>1, <1>3, <1>4
<1>8. rob_q'[t].valid =>
        \/ n <= Position(t) /\ Position(t) < count_q
        \/ Len(d) >= 1 /\ Position(t) = count_q
        \/ Len(d) = 2 /\ Position(t) = count_q + 1
  <2>1. rob_q'[t].valid => n <= Position(t) /\ Position(t) < count_q + Len(d)
    BY <1>1, <1>3
  <2> DEFINE k == Len(d)
             x == Position(t)
  <2>2. k \in 0 .. 2 /\ x \in Nat /\ count_q \in Nat
    BY <1>1
  <2>3. rob_q'[t].valid => n <= x /\ x < count_q + k
    BY <2>1
  <2> HIDE DEF k, x
  <2>4. rob_q'[t].valid =>
          \/ n <= x /\ x < count_q
          \/ k >= 1 /\ x = count_q
          \/ k = 2 /\ x = count_q + 1
    BY <2>2, <2>3
  <2> QED
    BY <2>4 DEF k, x
<1> QED
  BY <1>5, <1>6, <1>7, <1>8
-----------------------------------------------------------------------------
(***************************************************************************)
(* The chain of mappings.                                                  *)
(***************************************************************************)
\* t is the youngest of the first m instructions in flight that write r.
Youngest(r, m, t) ==
  /\ t \in WritersOf(r) /\ Position(t) < m
  /\ \A u \in WritersOf(r) : Position(u) < m => Position(u) <= Position(t)
NoneBefore(r, m) == \A u \in WritersOf(r) : ~(Position(u) < m)

\* A reader behind the first m instructions in flight finds r in register p.
Names(r, m, p) ==
  \/ NoneBefore(r, m) /\ p = amt[r]
  \/ \E t \in Tag : Youngest(r, m, t) /\ p = Dst(t)

LEMMA MapIsNamed ==
  ASSUME RobTypeOK, NEW r \in Arch, NEW m \in Nat
  PROVE  \A p : Names(r, m, p) <=> p = MapBefore(r, m)
<1> DEFINE older == {t \in WritersOf(r) : Position(t) < m}
           top == CHOOSE t \in older : \A u \in older : Position(u) <= Position(t)
<1>1. /\ \A t \in Tag : Position(t) \in Nat
      /\ \A t, u \in Tag : Position(t) = Position(u) => t = u
      /\ older \subseteq Tag
  BY Positions DEF WritersOf, Writers
<1>2. MapBefore(r, m) = IF older = {} THEN amt[r] ELSE Dst(top)
  BY DEF MapBefore
<1>3. CASE older = {}
  <2>1. NoneBefore(r, m)
    BY <1>3 DEF NoneBefore
  <2>2. \A t \in Tag : ~Youngest(r, m, t)
    BY <1>3 DEF Youngest
  <2> QED
    BY <1>2, <1>3, <2>1, <2>2 DEF Names
<1>4. CASE older # {}
  <2>1. \E t \in older : \A u \in older : Position(u) <= Position(t)
    <3> DEFINE P == {Position(t) : t \in older}
    <3>1. P \subseteq Nat /\ P # {} /\ \A x \in P : x < m
      BY <1>1, <1>4
    <3>2. PICK x \in P : \A y \in P : y <= x
      <4> HIDE DEF P
      <4> QED
        BY <3>1, HighestExists
    <3> QED
      BY <3>2
  <2>2. top \in older /\ \A u \in older : Position(u) <= Position(top)
    BY <2>1
  <2> HIDE DEF top
  <2>3. Youngest(r, m, top) /\ top \in Tag
    BY <1>1, <2>2 DEF Youngest
  <2>4. ASSUME NEW t \in Tag, Youngest(r, m, t) PROVE t = top
    <3>1. t \in older /\ Position(top) <= Position(t)
      BY <2>2, <2>4 DEF Youngest
    <3>2. Position(t) <= Position(top)
      BY <2>2, <3>1
    <3>3. Position(t) \in Nat /\ Position(top) \in Nat
      BY <1>1, <2>3
    <3>4. Position(t) = Position(top)
      BY <3>1, <3>2, <3>3
    <3> QED
      BY <1>1, <2>3, <3>4
  <2>5. ~NoneBefore(r, m)
    BY <2>2 DEF NoneBefore
  <2> QED
    BY <1>2, <1>4, <2>3, <2>4, <2>5 DEF Names
<1> QED
  BY <1>3, <1>4

\* The invariant with its terms named, so that it can be read in the next state.
Chain ==
  \A r \in Arch \ {0}, m \in Nat, p \in Phys :
    /\ m = count_q /\ p = rat_map[r] => Names(r, m, p)
    /\ \A t \in WritersOf(r) :
         m = Position(t) /\ p = rob_q[t].uop.old_pdst => Names(r, m, p)

LEMMA ChainIs ==
  RenameTypes => (RenameChain <=> Chain)
<1> SUFFICES ASSUME RenameTypes PROVE RenameChain <=> Chain
  OBVIOUS
<1>1. /\ count_q \in Nat /\ \A t \in Tag : Position(t) \in Nat
      /\ \A r \in Arch : WritersOf(r) \subseteq Tag /\ rat_map[r] \in Phys
      /\ \A r \in Arch : \A t \in WritersOf(r) : rob_q[t].uop.old_pdst \in Phys
  <2>1. \A t \in Tag : Position(t) \in Nat
    BY Positions DEF RenameTypes
  <2> QED
    BY <2>1 DEF RenameTypes, RobTypeOK, RatTypeOK, UopsOK, UopOK, WritersOf, Writers
<1>2. \A r \in Arch, m \in Nat : \A p : Names(r, m, p) <=> p = MapBefore(r, m)
  BY MapIsNamed DEF RenameTypes
<1> QED
  BY <1>1, <1>2 DEF RenameChain, Chain
-----------------------------------------------------------------------------
(***************************************************************************)
(* What retirement commits.                                                *)
(***************************************************************************)
\* A map after a bundle has been written to it.
LEMMA WrittenAt ==
  ASSUME NEW map, NEW u, Len(u) \in 0 .. 2, NEW r \in Arch
  PROVE  Written(map, u)[r] =
           IF r = 0 THEN 0
           ELSE IF Len(u) = 2 /\ effective_write(u[2]) /\ u[2].rd = r THEN u[2].pdst
           ELSE IF Len(u) >= 1 /\ effective_write(u[1]) /\ u[1].rd = r THEN u[1].pdst
           ELSE map[r]
<1> DEFINE W == {k \in 1 .. Len(u) : effective_write(u[k]) /\ u[k].rd = r}
<1>1. Written(map, u)[r] = IF r = 0 THEN 0
                           ELSE IF 2 \in W THEN u[2].pdst
                           ELSE IF 1 \in W THEN u[1].pdst ELSE map[r]
  BY DEF Written
<1>2. /\ 2 \in W <=> Len(u) = 2 /\ effective_write(u[2]) /\ u[2].rd = r
      /\ 1 \in W <=> Len(u) >= 1 /\ effective_write(u[1]) /\ u[1].rd = r
  OBVIOUS
<1> HIDE DEF W
<1> QED
  BY <1>1, <1>2

\* The uops that retire are those of the head and of the entry behind it.
LEMMA CommittedAre ==
  ASSUME RobTypeOK, ProgramOrder, NEW f
  PROVE  /\ retire_count(f) \in 0 .. 2 /\ retire_count(f) <= count_q
         /\ Len(committed(f)) = retire_count(f)
         /\ retire_count(f) >= 1 => /\ committed(f)[1] = rob_q[head_q].uop
                                    /\ rob_q[head_q].valid
                                    /\ Ready(rob_q[head_q], f)
         /\ retire_count(f) = 2 => /\ committed(f)[2] = rob_q[second_tag].uop
                                   /\ rob_q[second_tag].valid
                                   /\ Ready(rob_q[second_tag], f)
         /\ \A t \in Tag : /\ Position(t) = 0 <=> t = head_q
                           /\ Position(t) = 1 <=> t = second_tag
         /\ head_q \in Tag /\ second_tag \in Tag
<1> DEFINE n == retire_count(f)
<1>1. n \in 0 .. 2 /\ n <= count_q
  BY RetireCountBound
<1>2. Len(committed(f)) = n
  BY <1>1 DEF committed
<1>3. /\ n >= 1 => committed(f)[1] = commit(f)[1].uop
      /\ n = 2 => committed(f)[2] = commit(f)[2].uop
  BY <1>1 DEF committed
<1>4. /\ n >= 1 => commit(f)[1] = rob_q[After(head_q, 0)]
      /\ n = 2 => commit(f)[2] = rob_q[After(head_q, 1)]
  BY <1>1 DEF commit
<1>5. After(head_q, 0) = head_q /\ second_tag = After(head_q, 1)
  BY RobDepthAssumption DEF RobTypeOK, Tag, After, second_tag
<1>6. /\ n >= 1 => rob_q[head_q].valid /\ Ready(rob_q[head_q], f)
      /\ n = 2 => rob_q[second_tag].valid /\ Ready(rob_q[second_tag], f)
  BY DEF retire_count, head_valid, second_valid
<1>7. /\ \A t \in Tag : /\ Position(t) = 0 <=> t = head_q
                        /\ Position(t) = 1 <=> t = second_tag
      /\ head_q \in Tag /\ second_tag \in Tag
  BY <1>5, Positions, RobDepthAssumption
<1> QED
  BY <1>1, <1>2, <1>3, <1>4, <1>5, <1>6, <1>7

\* The committed map after an edge names what a reader behind the entries
\* that retired had to see.
LEMMA CommitNames ==
  ASSUME RenameTypes, ProgramOrder, NEW f, NEW r \in Arch \ {0}
  PROVE  Names(r, retire_count(f), Written(amt, committed(f))[r])
<1> DEFINE n == retire_count(f)
           c == committed(f)
           s == second_tag
<1>1. RobTypeOK /\ UopsOK
  BY DEF RenameTypes
<1>2. /\ n \in 0 .. 2 /\ Len(c) = n
      /\ n >= 1 => c[1] = rob_q[head_q].uop /\ rob_q[head_q].valid
      /\ n = 2 => c[2] = rob_q[s].uop /\ rob_q[s].valid
      /\ \A t \in Tag : (Position(t) = 0 <=> t = head_q) /\ (Position(t) = 1 <=> t = s)
      /\ head_q \in Tag /\ s \in Tag
  BY <1>1, CommittedAre
<1>3. \A t \in Tag : Position(t) \in Nat
  BY <1>1, Positions
<1> HIDE DEF n, c, s
<1>4. Written(amt, c)[r] =
        IF n = 2 /\ effective_write(c[2]) /\ c[2].rd = r THEN c[2].pdst
        ELSE IF n >= 1 /\ effective_write(c[1]) /\ c[1].rd = r THEN c[1].pdst
        ELSE amt[r]
  <2>1. Len(c) \in 0 .. 2 /\ r \in Arch /\ r # 0
    BY <1>2
  <2>2. Written(amt, c)[r] =
          IF r = 0 THEN 0
          ELSE IF Len(c) = 2 /\ effective_write(c[2]) /\ c[2].rd = r THEN c[2].pdst
          ELSE IF Len(c) >= 1 /\ effective_write(c[1]) /\ c[1].rd = r THEN c[1].pdst
          ELSE amt[r]
    BY <2>1, WrittenAt
  <2> QED
    BY <1>2, <2>1, <2>2
<1>5. \A t \in WritersOf(r) : /\ t \in Tag /\ rob_q[t].valid
                              /\ effective_write(rob_q[t].uop) /\ rob_q[t].uop.rd = r
  BY DEF WritersOf, Writers
<1>6. CASE n = 2 /\ effective_write(c[2]) /\ c[2].rd = r
  <2>1. s \in WritersOf(r) /\ Position(s) = 1
    BY <1>2, <1>6 DEF WritersOf, Writers
  <2>2. Youngest(r, n, s)
    BY <1>3, <1>5, <1>6, <2>1 DEF Youngest
  <2>3. Written(amt, c)[r] = Dst(s)
    BY <1>2, <1>4, <1>6 DEF Dst
  <2> QED
    BY <1>2, <2>2, <2>3 DEF Names, n, c
<1>7. CASE ~(n = 2 /\ effective_write(c[2]) /\ c[2].rd = r)
           /\ n >= 1 /\ effective_write(c[1]) /\ c[1].rd = r
  <2>1. head_q \in WritersOf(r) /\ Position(head_q) = 0
    BY <1>2, <1>7 DEF WritersOf, Writers
  <2>2. ASSUME NEW u \in WritersOf(r), Position(u) < n PROVE Position(u) <= 0
    <3>1. Position(u) # 1
      BY <1>2, <1>5, <1>7, <2>2
    <3> QED
      BY <1>2, <1>3, <1>5, <2>2, <3>1
  <2>3. Youngest(r, n, head_q)
    BY <1>2, <1>7, <2>1, <2>2 DEF Youngest
  <2>4. Written(amt, c)[r] = Dst(head_q)
    BY <1>2, <1>4, <1>7 DEF Dst
  <2> QED
    BY <1>2, <2>3, <2>4 DEF Names, n, c
<1>8. CASE ~(n = 2 /\ effective_write(c[2]) /\ c[2].rd = r)
           /\ ~(n >= 1 /\ effective_write(c[1]) /\ c[1].rd = r)
  <2>1. ASSUME NEW u \in WritersOf(r), Position(u) < n PROVE FALSE
    <3>1. Position(u) # 1 /\ Position(u) # 0
      BY <1>2, <1>5, <1>8, <2>1
    <3> QED
      BY <1>2, <1>3, <1>5, <2>1, <3>1
  <2>2. NoneBefore(r, n)
    BY <2>1 DEF NoneBefore
  <2>3. Written(amt, c)[r] = amt[r]
    BY <1>4, <1>8
  <2> QED
    BY <2>2, <2>3 DEF Names, n, c
<1> QED
  BY <1>6, <1>7, <1>8
-----------------------------------------------------------------------------
(***************************************************************************)
(* The chain over an ordinary edge.                                        *)
(***************************************************************************)
\* Where a register is found does not change for a reader that stays: what retires
\* in front of it is in the committed map by then.
LEMMA NamesKept ==
  ASSUME RobTypeOK, ProgramOrder, NEW n \in 0 .. 2, n <= count_q,
         NEW d, NEW cdb0, NEW cdb1, NEW done, InputOK(d, cdb0, cdb1),
         Moves(d, n, cdb0, cdb1, done),
         NEW r \in Arch, Names(r, n, amt'[r]),
         NEW j \in Nat, n + j <= count_q, NEW p, Names(r, n + j, p)
  PROVE  Names(r, j, p)'
<1> DEFINE m == n + j
<1>1. count_q \in Nat /\ m \in Nat /\ n <= m /\ m <= count_q /\ n \in Nat
  BY DEF RobTypeOK
<1>2. \A t \in Tag : Position(t) \in Nat
  BY Positions
<1>3. \A q : Names(r, n, q) <=> q = amt'[r]
  BY <1>1, MapIsNamed
<1>4. Names(r, m, p) /\ m = n + j
  OBVIOUS
<1> HIDE DEF m
<1>5. ASSUME NEW t \in Tag, n <= Position(t), Position(t) < count_q
      PROVE  /\ t \in WritersOf(r)' <=> t \in WritersOf(r)
             /\ Dst(t)' = Dst(t) /\ Position(t)' = Position(t) - n
  <2>1. /\ rob_q'[t].valid /\ rob_q[t].valid /\ rob_q'[t].uop = rob_q[t].uop
        /\ Position(t)' = Position(t) - n
    BY <1>5, InFlightAfter
  <2> QED
    BY <2>1 DEF WritersOf, Writers, Dst
<1>6. ASSUME NEW t \in Tag, t \in WritersOf(r)', Position(t)' < j
      PROVE  n <= Position(t) /\ Position(t) < m
  <2>1. rob_q'[t].valid
    BY <1>6 DEF WritersOf, Writers
  <2>2. \/ n <= Position(t) /\ Position(t) < count_q /\ Position(t)' = Position(t) - n
        \/ Position(t)' = count_q - n
        \/ Position(t)' = count_q + 1 - n
    BY <2>1, InFlightAfter
  <2> QED
    BY <1>1, <1>2, <1>4, <1>6, <2>2
<1>7. WritersOf(r) \subseteq Tag /\ WritersOf(r)' \subseteq Tag
  BY DEF WritersOf, Writers
<1>8. ASSUME NEW t \in Tag, Youngest(r, m, t), p = Dst(t), n <= Position(t)
      PROVE  Names(r, j, p)'
  <2>1. /\ t \in WritersOf(r) /\ Position(t) < m
        /\ \A u \in WritersOf(r) : Position(u) < m => Position(u) <= Position(t)
    BY <1>8 DEF Youngest
  <2>2. /\ t \in WritersOf(r)' /\ Dst(t)' = Dst(t) /\ Position(t)' = Position(t) - n
    BY <1>1, <1>2, <1>5, <1>8, <2>1
  <2>3. Position(t)' < j
    BY <1>1, <1>2, <1>4, <1>8, <2>1, <2>2
  <2>4. ASSUME NEW u \in WritersOf(r)', Position(u)' < j
        PROVE  Position(u)' <= Position(t)'
    <3>1. u \in Tag /\ n <= Position(u) /\ Position(u) < m
      BY <1>6, <1>7, <2>4
    <3>2. u \in WritersOf(r) /\ Position(u)' = Position(u) - n
      BY <1>1, <1>2, <1>5, <2>4, <3>1
    <3> QED
      BY <1>1, <1>2, <2>1, <2>2, <3>1, <3>2
  <2> QED
    BY <1>8, <2>2, <2>3, <2>4 DEF Names, Youngest
<1>9. ASSUME \A u \in WritersOf(r) : Position(u) < m => Position(u) < n,
             p = amt'[r]
      PROVE  Names(r, j, p)'
  <2>1. ASSUME NEW u \in WritersOf(r)', Position(u)' < j PROVE FALSE
    <3>1. u \in Tag /\ n <= Position(u) /\ Position(u) < m
      BY <1>6, <1>7, <2>1
    <3>2. u \in WritersOf(r)
      BY <1>1, <1>2, <1>5, <2>1, <3>1
    <3> QED
      BY <1>1, <1>2, <1>9, <3>1, <3>2
  <2> QED
    BY <1>9, <2>1 DEF Names, NoneBefore
<1>10. CASE \E t \in Tag : Youngest(r, m, t) /\ p = Dst(t)
  <2>1. PICK t \in Tag : Youngest(r, m, t) /\ p = Dst(t)
    BY <1>10
  <2>2. CASE n <= Position(t)
    BY <1>8, <2>1, <2>2
  <2>3. CASE ~(n <= Position(t))
    <3>1. /\ t \in WritersOf(r)
          /\ \A u \in WritersOf(r) : Position(u) < m => Position(u) <= Position(t)
      BY <2>1 DEF Youngest
    <3>2. \A u \in WritersOf(r) : Position(u) < m => Position(u) < n
      BY <1>1, <1>2, <1>7, <2>3, <3>1
    <3>3. Youngest(r, n, t)
      BY <1>1, <1>2, <1>7, <2>3, <3>1 DEF Youngest
    <3>4. p = amt'[r]
      BY <1>3, <2>1, <3>3 DEF Names
    <3> QED
      BY <1>9, <3>2, <3>4
  <2> QED
    BY <2>2, <2>3
<1>11. CASE NoneBefore(r, m) /\ p = amt[r]
  <2>1. \A u \in WritersOf(r) : ~(Position(u) < m)
    BY <1>11 DEF NoneBefore
  <2>2. NoneBefore(r, n)
    BY <1>1, <1>2, <1>7, <2>1 DEF NoneBefore
  <2>3. p = amt'[r]
    BY <1>3, <1>11, <2>2 DEF Names
  <2> QED
    BY <1>9, <2>1, <2>3
<1> QED
  BY <1>4, <1>10, <1>11 DEF Names

\* The maps and the buffer in an ordinary edge.
MapsAdvance(d, f) == amt' = Written(amt, committed(f)) /\ rat_map' = Written(rat_map, d)

\* After an edge the first b instructions in flight were there before, and those of
\* the bundle d are behind them, under the tags t1 and t2.
Lands(d, n, b, t1, t2) ==
  /\ n + b = count_q /\ count_q' = b + Len(d)
  /\ Len(d) >= 1 => /\ t1 \in Tag /\ Position(t1) = count_q
                    /\ rob_q'[t1].valid /\ rob_q'[t1].uop = d[1]
                    /\ rob_q'[t1].ready = ~d[1].supported
                    /\ Position(t1)' = b
  /\ Len(d) = 2 => /\ t2 \in Tag /\ Position(t2) = count_q + 1
                   /\ rob_q'[t2].valid /\ rob_q'[t2].uop = d[2]
                   /\ rob_q'[t2].ready = ~d[2].supported
                   /\ Position(t2)' = b + 1
  /\ \A t \in Tag : rob_q'[t].valid =>
       \/ /\ n <= Position(t) /\ Position(t) < count_q
          /\ Position(t)' = Position(t) - n
       \/ Len(d) >= 1 /\ t = t1
       \/ Len(d) = 2 /\ t = t2

\* An ordinary edge has such a place for its bundle.
LEMMA Dispatched ==
  ASSUME RenameTypes, ProgramOrder, NEW n \in 0 .. 2, n <= count_q,
         NEW d, NEW cdb0, NEW cdb1, NEW done, InputOK(d, cdb0, cdb1),
         Moves(d, n, cdb0, cdb1, done)
  PROVE  \E b \in Nat : \E t1, t2 : Lands(d, n, b, t1, t2)
<1> DEFINE b == count_q - n
           k == Len(d)
<1>1. /\ count_q \in Nat /\ k \in 0 .. 2 /\ count_q + k <= ROB_DEPTH /\ n \in Nat
      /\ ROB_DEPTH \in Nat
      /\ count_q' = count_q + k - n
  BY RobDepthAssumption DEF RenameTypes, RobTypeOK, InputOK, rob_free_count, Moves
<1>2. RobTypeOK
  BY DEF RenameTypes
<1>3. b \in Nat /\ n + b = count_q /\ count_q' = b + k /\ b + 1 = count_q + 1 - n
  BY <1>1
<1>4. PICK t1, t2 : /\ k >= 1 => t1 \in Tag /\ Position(t1) = count_q
                    /\ k = 2 => t2 \in Tag /\ Position(t2) = count_q + 1
  <2> HIDE DEF k
  <2>1. /\ k >= 1 => count_q < ROB_DEPTH
        /\ k = 2 => count_q + 1 < ROB_DEPTH /\ count_q + 1 \in Nat
    BY <1>1
  <2> QED
    BY <1>1, <1>2, <2>1, Positions
<1> HIDE DEF b
<1>5. ASSUME Len(d) >= 1
      PROVE  /\ rob_q'[t1].valid /\ rob_q'[t1].uop = d[1]
             /\ rob_q'[t1].ready = ~d[1].supported
             /\ Position(t1)' = b
  <2>1. t1 \in Tag /\ Position(t1) = count_q
    BY <1>4, <1>5
  <2>2. /\ rob_q'[t1].valid /\ rob_q'[t1].uop = d[1]
        /\ rob_q'[t1].ready = ~d[1].supported
        /\ Position(t1)' = count_q - n
    BY <1>2, <1>5, <2>1, InFlightAfter
  <2> QED
    BY <2>2 DEF b
<1>6. ASSUME Len(d) = 2
      PROVE  /\ rob_q'[t2].valid /\ rob_q'[t2].uop = d[2]
             /\ rob_q'[t2].ready = ~d[2].supported
             /\ Position(t2)' = b + 1
  <2>1. t2 \in Tag /\ Position(t2) = count_q + 1
    BY <1>4, <1>6
  <2>2. /\ rob_q'[t2].valid /\ rob_q'[t2].uop = d[2]
        /\ rob_q'[t2].ready = ~d[2].supported
        /\ Position(t2)' = count_q + 1 - n
    BY <1>2, <1>6, <2>1, InFlightAfter
  <2> QED
    BY <1>3, <2>2
<1>7. ASSUME NEW t \in Tag, rob_q'[t].valid
      PROVE  \/ /\ n <= Position(t) /\ Position(t) < count_q
                /\ Position(t)' = Position(t) - n
             \/ Len(d) >= 1 /\ t = t1
             \/ Len(d) = 2 /\ t = t2
  <2>1. \/ /\ n <= Position(t) /\ Position(t) < count_q
           /\ Position(t)' = Position(t) - n
        \/ Len(d) >= 1 /\ Position(t) = count_q
        \/ Len(d) = 2 /\ Position(t) = count_q + 1
    BY <1>2, <1>7, InFlightAfter
  <2>2. \A u, v \in Tag : Position(u) = Position(v) => u = v
    BY <1>2, Positions
  <2>3. Len(d) = 2 => Len(d) >= 1
    OBVIOUS
  <2> QED
    BY <1>4, <1>7, <2>1, <2>2, <2>3
<1>8. Lands(d, n, b, t1, t2)
  BY <1>3, <1>4, <1>5, <1>6, <1>7 DEF Lands
<1> QED
  BY <1>3, <1>8

\* A reader further back finds a register in the same place if nothing between
\* writes it.
LEMMA NamesFurther ==
  ASSUME NEW r, NEW b \in Nat, NEW m \in Nat, b <= m, NEW p, Names(r, b, p)',
         \A u \in WritersOf(r)' : Position(u)' \in Nat,
         \A u \in WritersOf(r)' : Position(u)' < m => Position(u)' < b
  PROVE  Names(r, m, p)'
<1>1. CASE NoneBefore(r, b)' /\ p = amt'[r]
  <2>1. NoneBefore(r, m)'
    BY <1>1 DEF NoneBefore
  <2> QED
    BY <1>1, <2>1 DEF Names
<1>2. CASE \E t \in Tag : Youngest(r, b, t)' /\ p = Dst(t)'
  <2>1. PICK t \in Tag : Youngest(r, b, t)' /\ p = Dst(t)'
    BY <1>2
  <2>2. /\ t \in WritersOf(r)' /\ Position(t)' < b
        /\ \A u \in WritersOf(r)' : Position(u)' < b => Position(u)' <= Position(t)'
    BY <2>1 DEF Youngest
  <2>3. Youngest(r, m, t)'
    BY <2>2 DEF Youngest
  <2> QED
    BY <2>1, <2>3 DEF Names
<1> QED
  BY <1>1, <1>2 DEF Names

LEMMA ChainAdvance ==
  ASSUME RenameTypes, ProgramOrder, Chain,
         NEW i, NEW cdb0, NEW cdb1, NEW done, NEW f, RenameInput(i, cdb0, cdb1, f),
         InputOK(renamed(i), cdb0, cdb1), MapsAdvance(renamed(i), f),
         Moves(renamed(i), retire_count(f), cdb0, cdb1, done)
  PROVE  Chain'
<1> DEFINE d == renamed(i)
           n == retire_count(f)
<1>1. RobTypeOK /\ RatTypeOK /\ n \in 0 .. 2 /\ n <= count_q /\ n \in Nat /\ count_q \in Nat
  BY CommittedAre DEF RenameTypes, RobTypeOK
<1>2. /\ Len(d) = Len(i) /\ Len(i) \in 0 .. 2
      /\ \A k \in 1 .. Len(i) : Keeps(d[k], i[k])
      /\ Len(i) >= 1 => d[1].pdst = new_pdst0(i[1]) /\ d[1].old_pdst = rat_map[i[1].rd]
      /\ Len(i) = 2 => d[2].old_pdst = old_pdst1(i[1], i[2])
  BY <1>1, RenamedUops DEF RenameInput
<1>3. PICK b \in Nat : \E t1, t2 : Lands(d, n, b, t1, t2)
  BY <1>1, Dispatched
<1>4. PICK t1, t2 : Lands(d, n, b, t1, t2)
  BY <1>3
<1>5. /\ n + b = count_q /\ count_q' = b + Len(d)
      /\ Len(d) >= 1 => /\ t1 \in Tag /\ Position(t1) = count_q
                        /\ rob_q'[t1].valid /\ rob_q'[t1].uop = d[1] /\ Position(t1)' = b
      /\ Len(d) = 2 => /\ t2 \in Tag /\ Position(t2) = count_q + 1
                       /\ rob_q'[t2].valid /\ rob_q'[t2].uop = d[2] /\ Position(t2)' = b + 1
  BY <1>4 DEF Lands
<1>6. \A t \in Tag : rob_q'[t].valid =>
        \/ /\ n <= Position(t) /\ Position(t) < count_q
           /\ Position(t)' = Position(t) - n
        \/ Len(d) >= 1 /\ t = t1
        \/ Len(d) = 2 /\ t = t2
  BY <1>4 DEF Lands
<1>7. \A t \in Tag : Position(t) \in Nat
  BY <1>1, Positions
<1>8. ASSUME NEW r \in Arch \ {0}
      PROVE  /\ Names(r, n, amt'[r])
             /\ \A j \in Nat : \A p : n + j <= count_q /\ Names(r, n + j, p) => Names(r, j, p)'
             /\ \A p : p = rat_map[r] => Names(r, b, p)'
  <2>1. Names(r, n, amt'[r])
    BY CommitNames DEF MapsAdvance
  <2>2. ASSUME NEW j \in Nat, NEW p, n + j <= count_q, Names(r, n + j, p)
        PROVE  Names(r, j, p)'
    BY <1>1, <2>1, <2>2, NamesKept
  <2>3. rat_map[r] \in Phys
    BY <1>1 DEF RatTypeOK
  <2>4. \A m \in Nat, p \in Phys : m = count_q /\ p = rat_map[r] => Names(r, m, p)
    BY DEF Chain
  <2>5. ASSUME NEW p, p = rat_map[r] PROVE Names(r, b, p)'
    <3>1. n + b <= count_q /\ n + b \in Nat /\ n + b = count_q
      BY <1>1, <1>5
    <3>2. Names(r, n + b, p)
      BY <2>3, <2>4, <2>5, <3>1
    <3> QED
      BY <2>2, <3>1, <3>2
  <2> QED
    BY <2>1, <2>2, <2>5
<1> DEFINE W1(r) == Len(d) >= 1 /\ effective_write(d[1]) /\ d[1].rd = r
           W2(r) == Len(d) = 2 /\ effective_write(d[2]) /\ d[2].rd = r
<1> HIDE DEF d, n
<1>9. ASSUME NEW r, NEW t \in WritersOf(r)'
      PROVE  /\ t \in Tag /\ rob_q'[t].valid
             /\ effective_write(rob_q'[t].uop) /\ rob_q'[t].uop.rd = r
             /\ Position(t)' \in Nat
             /\ \/ /\ n <= Position(t) /\ Position(t) < count_q
                   /\ Position(t)' = Position(t) - n /\ Position(t)' < b
                \/ t = t1 /\ W1(r) /\ Position(t)' = b
                \/ t = t2 /\ W2(r) /\ Position(t)' = b + 1
  <2>1. /\ t \in Tag /\ rob_q'[t].valid
        /\ effective_write(rob_q'[t].uop) /\ rob_q'[t].uop.rd = r
    BY DEF WritersOf, Writers
  <2>2. CASE /\ n <= Position(t) /\ Position(t) < count_q
             /\ Position(t)' = Position(t) - n
    BY <1>1, <1>5, <1>7, <2>1, <2>2
  <2>3. CASE Len(d) >= 1 /\ t = t1
    BY <1>5, <2>1, <2>3
  <2>4. CASE Len(d) = 2 /\ t = t2
    BY <1>5, <2>1, <2>4
  <2> QED
    BY <1>6, <2>1, <2>2, <2>3, <2>4
<1>10. ASSUME NEW r, W1(r), NEW m \in Nat, b < m, ~(W2(r) /\ b + 1 < m),
              NEW p, p = d[1].pdst
       PROVE  Names(r, m, p)'
  <2>1. t1 \in Tag /\ t1 \in WritersOf(r)' /\ Dst(t1)' = d[1].pdst /\ Position(t1)' = b
    BY <1>5, <1>10 DEF WritersOf, Writers, Dst
  <2>2. \A u \in WritersOf(r)' : Position(u)' < m => Position(u)' <= b
    BY <1>9, <1>10
  <2>3. Youngest(r, m, t1)'
    BY <1>10, <2>1, <2>2 DEF Youngest
  <2> QED
    BY <1>10, <2>1, <2>3 DEF Names
<1>11. ASSUME NEW r, W2(r), NEW m \in Nat, b + 1 < m, NEW p, p = d[2].pdst
       PROVE  Names(r, m, p)'
  <2>1. t2 \in Tag /\ t2 \in WritersOf(r)' /\ Dst(t2)' = d[2].pdst /\ Position(t2)' = b + 1
    BY <1>5, <1>11 DEF WritersOf, Writers, Dst
  <2>2. \A u \in WritersOf(r)' : Position(u)' <= b + 1
    BY <1>9, <1>11
  <2>3. Youngest(r, m, t2)'
    BY <1>11, <2>1, <2>2 DEF Youngest
  <2> QED
    BY <1>11, <2>1, <2>3 DEF Names
<1>12. ASSUME NEW r \in Arch \ {0}, NEW m \in Nat, b <= m, NEW p, p = rat_map[r],
              ~(W1(r) /\ b < m), ~(W2(r) /\ b + 1 < m)
       PROVE  Names(r, m, p)'
  <2>1. Names(r, b, p)'
    BY <1>8, <1>12
  <2>2. \A u \in WritersOf(r)' : Position(u)' \in Nat
    BY <1>9
  <2>3. \A u \in WritersOf(r)' : Position(u)' < m => Position(u)' < b
    BY <1>9, <1>12
  <2> QED
    BY <1>12, <2>1, <2>2, <2>3, NamesFurther
<1>13. ASSUME NEW r \in Arch \ {0}, NEW m \in Nat, NEW p, m = count_q', p = rat_map'[r]
       PROVE  Names(r, m, p)'
  <2>1. p = IF W2(r) THEN d[2].pdst ELSE IF W1(r) THEN d[1].pdst ELSE rat_map[r]
    <3>1. Len(d) \in 0 .. 2 /\ r \in Arch /\ r # 0
      BY <1>2
    <3>2. Written(rat_map, d)[r] =
            IF r = 0 THEN 0
            ELSE IF Len(d) = 2 /\ effective_write(d[2]) /\ d[2].rd = r THEN d[2].pdst
            ELSE IF Len(d) >= 1 /\ effective_write(d[1]) /\ d[1].rd = r THEN d[1].pdst
            ELSE rat_map[r]
      BY <3>1, WrittenAt
    <3>3. p = Written(rat_map, d)[r]
      BY <1>13 DEF MapsAdvance, d
    <3> QED
      BY <3>1, <3>2, <3>3
  <2>2. /\ m = b + Len(d) /\ Len(d) \in 0 .. 2 /\ b <= m
        /\ W1(r) => b < m
        /\ W2(r) => b + 1 < m
    BY <1>2, <1>5, <1>13
  <2>3. CASE W2(r)
    BY <1>11, <2>1, <2>2, <2>3
  <2>4. CASE ~W2(r) /\ W1(r)
    BY <1>10, <2>1, <2>2, <2>4
  <2>5. CASE ~W2(r) /\ ~W1(r)
    BY <1>12, <2>1, <2>2, <2>5
  <2> QED
    BY <2>3, <2>4, <2>5
<1>14. ASSUME NEW r \in Arch \ {0}, NEW m \in Nat, NEW p, NEW t \in WritersOf(r)',
              m = Position(t)', p = rob_q'[t].uop.old_pdst
       PROVE  Names(r, m, p)'
  <2>1. CASE n <= Position(t) /\ Position(t) < count_q /\ Position(t)' = Position(t) - n
    <3>1. t \in Tag /\ rob_q'[t].valid
      BY <1>9
    <3>2. rob_q[t].valid /\ rob_q'[t].uop = rob_q[t].uop
      BY <1>1, <2>1, <3>1, InFlightAfter DEF d, n
    <3>3. t \in WritersOf(r)
      BY <1>9, <3>1, <3>2 DEF WritersOf, Writers
    <3>4. n + m = Position(t) /\ n + m \in Nat /\ n + m <= count_q
      BY <1>1, <1>7, <1>14, <2>1, <3>1
    <3>5. UopOK(rob_q[t].uop)
      BY <3>1, <3>2 DEF RenameTypes, UopsOK
    <3>6. p \in Phys /\ p = rob_q[t].uop.old_pdst
      BY <1>14, <3>2, <3>5 DEF UopOK
    <3>7. Names(r, n + m, p)
      BY <3>3, <3>4, <3>6 DEF Chain
    <3> QED
      BY <1>8, <3>4, <3>7
  <2>2. CASE t = t1 /\ W1(r) /\ Position(t)' = b
    <3>1. p = rat_map[r]
      BY <1>2, <1>5, <1>14, <2>2 DEF Keeps
    <3>2. b <= m /\ ~(b < m) /\ ~(b + 1 < m)
      BY <1>14, <2>2
    <3> QED
      BY <1>12, <3>1, <3>2
  <2>3. CASE t = t2 /\ W2(r) /\ Position(t)' = b + 1
    <3>1. m = b + 1 /\ b <= m /\ b < m /\ ~(b + 1 < m)
      BY <1>14, <2>3
    <3>2. /\ p = old_pdst1(i[1], i[2]) /\ effective_write(i[2]) /\ i[2].rd = r
          /\ effective_write(i[1]) <=> effective_write(d[1])
          /\ i[1].rd = d[1].rd /\ d[1].pdst = new_pdst0(i[1])
      BY <1>2, <1>5, <1>14, <2>3 DEF Keeps
    <3>3. p = IF W1(r) THEN d[1].pdst ELSE rat_map[r]
      BY <2>3, <3>2 DEF old_pdst1
    <3> QED
      BY <1>10, <1>12, <3>1, <3>3
  <2> QED
    BY <1>9, <2>1, <2>2, <2>3
<1> QED
  BY <1>13, <1>14 DEF Chain
-----------------------------------------------------------------------------
(***************************************************************************)
(* Where the physical registers go.                                        *)
(***************************************************************************)
\* The head retires a result, and so does the entry behind it.
Retires1(f) == retire_count(f) >= 1 /\ effective_write(rob_q[head_q].uop)
Retires2(f) == retire_count(f) = 2 /\ effective_write(rob_q[second_tag].uop)

\* What retirement writes to the committed map and what it releases: the mapping
\* of the register before, which for a second writer is the first one's result.
LEMMA CommitMoves ==
  ASSUME RenameTypes, ProgramOrder, Chain, NEW f
  PROVE  LET h == head_q  s == second_tag  rh == rob_q[h].uop.rd  rs == rob_q[s].uop.rd
         IN /\ Retires1(f) => h \in WritersOf(rh) /\ rh \in Arch \ {0} /\ rob_q[h].ready
            /\ Retires2(f) => s \in WritersOf(rs) /\ rs \in Arch \ {0} /\ rob_q[s].ready
            /\ \A r \in Arch :
                 Written(amt, committed(f))[r] =
                   IF r = 0 THEN 0
                   ELSE IF Retires2(f) /\ rs = r THEN Dst(s)
                   ELSE IF Retires1(f) /\ rh = r THEN Dst(h) ELSE amt[r]
            /\ \A p : p \in Released(committed(f)) <=>
                 \/ Retires1(f) /\ p = amt[rh]
                 \/ Retires2(f) /\ p = IF Retires1(f) /\ rh = rs THEN Dst(h) ELSE amt[rs]
<1> DEFINE h == head_q  s == second_tag  rh == rob_q[h].uop.rd  rs == rob_q[s].uop.rd
           n == retire_count(f)
           c == committed(f)
<1>1. RobTypeOK /\ UopsOK
  BY DEF RenameTypes
<1>2. /\ n \in 0 .. 2 /\ Len(c) = n
      /\ n >= 1 => c[1] = rob_q[h].uop /\ rob_q[h].valid /\ Ready(rob_q[h], f)
      /\ n = 2 => c[2] = rob_q[s].uop /\ rob_q[s].valid /\ Ready(rob_q[s], f)
      /\ \A t \in Tag : (Position(t) = 0 <=> t = h) /\ (Position(t) = 1 <=> t = s)
      /\ h \in Tag /\ s \in Tag
  BY <1>1, CommittedAre
<1>3. \A t \in Tag : Position(t) \in Nat
  BY <1>1, Positions
<1> HIDE DEF n, c, h, s, rh, rs
<1>4. /\ Retires1(f) <=> n >= 1 /\ effective_write(rob_q[h].uop)
      /\ Retires2(f) <=> n = 2 /\ effective_write(rob_q[s].uop)
  BY DEF Retires1, Retires2, n, h, s
<1>5. ASSUME NEW t \in Tag, rob_q[t].valid, effective_write(rob_q[t].uop), Ready(rob_q[t], f)
      PROVE  /\ t \in WritersOf(rob_q[t].uop.rd) /\ rob_q[t].uop.rd \in Arch \ {0}
             /\ rob_q[t].ready
             /\ rob_q[t].uop.old_pdst \in Phys
  <2>1. t \in WritersOf(rob_q[t].uop.rd)
    BY <1>5 DEF WritersOf, Writers
  <2>2. UopOK(rob_q[t].uop)
    BY <1>1, <1>5 DEF UopsOK
  <2>3. rob_q[t].uop.class # "fence"
    BY <1>5, <2>2 DEF UopOK, effective_write
  <2> QED
    BY <1>5, <2>1, <2>2, <2>3 DEF UopOK, effective_write, Ready
<1>6. /\ Retires1(f) => /\ h \in WritersOf(rh) /\ rh \in Arch \ {0} /\ rob_q[h].ready
                        /\ rob_q[h].uop.old_pdst \in Phys
      /\ Retires2(f) => /\ s \in WritersOf(rs) /\ rs \in Arch \ {0} /\ rob_q[s].ready
                        /\ rob_q[s].uop.old_pdst \in Phys
  BY <1>2, <1>4, <1>5 DEF rh, rs
<1>7. ASSUME NEW r \in Arch
      PROVE  Written(amt, c)[r] = IF r = 0 THEN 0
                                  ELSE IF Retires2(f) /\ rs = r THEN Dst(s)
                                  ELSE IF Retires1(f) /\ rh = r THEN Dst(h) ELSE amt[r]
  <2>1. Len(c) \in 0 .. 2
    BY <1>2
  <2>2. Written(amt, c)[r] =
          IF r = 0 THEN 0
          ELSE IF Len(c) = 2 /\ effective_write(c[2]) /\ c[2].rd = r THEN c[2].pdst
          ELSE IF Len(c) >= 1 /\ effective_write(c[1]) /\ c[1].rd = r THEN c[1].pdst
          ELSE amt[r]
    BY <2>1, WrittenAt
  <2>3. /\ Len(c) = 2 /\ effective_write(c[2]) /\ c[2].rd = r <=> Retires2(f) /\ rs = r
        /\ Len(c) >= 1 /\ effective_write(c[1]) /\ c[1].rd = r <=> Retires1(f) /\ rh = r
    BY <1>2, <1>4 DEF rh, rs
  <2>4. /\ Retires2(f) => c[2].pdst = Dst(s)
        /\ Retires1(f) => c[1].pdst = Dst(h)
    BY <1>2, <1>4 DEF Dst
  <2> QED
    BY <2>2, <2>3, <2>4
<1>8. Retires1(f) => rob_q[h].uop.old_pdst = amt[rh]
  <2> SUFFICES ASSUME Retires1(f) PROVE rob_q[h].uop.old_pdst = amt[rh]
    OBVIOUS
  <2> DEFINE p == rob_q[h].uop.old_pdst
  <2>1. Position(h) = 0 /\ 0 \in Nat /\ p \in Phys /\ h \in WritersOf(rh) /\ rh \in Arch \ {0}
    BY <1>2, <1>6
  <2>2. Names(rh, 0, p)
    BY <2>1 DEF Chain
  <2>3. \A t \in Tag : ~Youngest(rh, 0, t)
    BY <1>3 DEF Youngest
  <2> QED
    BY <2>2, <2>3 DEF Names
<1>9. Retires2(f) => rob_q[s].uop.old_pdst = IF Retires1(f) /\ rh = rs THEN Dst(h) ELSE amt[rs]
  <2> SUFFICES ASSUME Retires2(f)
               PROVE  rob_q[s].uop.old_pdst =
                        IF Retires1(f) /\ rh = rs THEN Dst(h) ELSE amt[rs]
    OBVIOUS
  <2> DEFINE p == rob_q[s].uop.old_pdst
  <2>1. Position(s) = 1 /\ 1 \in Nat /\ p \in Phys /\ s \in WritersOf(rs) /\ rs \in Arch \ {0}
    BY <1>2, <1>6
  <2>2. Names(rs, 1, p)
    BY <2>1 DEF Chain
  <2>3. Retires1(f) <=> effective_write(rob_q[h].uop)
    BY <1>4, <1>6
  <2>4. \A t \in WritersOf(rs) : Position(t) < 1 => t = h /\ Retires1(f) /\ rh = rs
    <3>1. \A t \in WritersOf(rs) : t \in Tag /\ effective_write(rob_q[t].uop)
                                  /\ rob_q[t].uop.rd = rs
      BY DEF WritersOf, Writers
    <3>2. \A t \in Tag : Position(t) < 1 => t = h
      BY <1>2, <1>3
    <3> QED
      BY <2>3, <3>1, <3>2 DEF rh
  <2>5. Retires1(f) /\ rh = rs => h \in WritersOf(rs) /\ Position(h) < 1
    BY <1>2, <1>6
  <2>6. CASE Retires1(f) /\ rh = rs
    <3>1. ~NoneBefore(rs, 1)
      BY <2>5, <2>6 DEF NoneBefore
    <3> QED
      BY <2>2, <2>4, <2>6, <3>1 DEF Names, Youngest
  <2>7. CASE ~(Retires1(f) /\ rh = rs)
    BY <2>2, <2>4, <2>7 DEF Names, Youngest
  <2> QED
    BY <2>6, <2>7
<1>10. ASSUME NEW p
       PROVE  p \in Released(c) <=>
                \/ Retires1(f) /\ p = amt[rh]
                \/ Retires2(f) /\ p = IF Retires1(f) /\ rh = rs THEN Dst(h) ELSE amt[rs]
  <2>1. p \in Released(c) <=> \E k \in 1 .. Len(c) : effective_write(c[k]) /\ p = c[k].old_pdst
    BY DEF Released
  <2>2. p \in Released(c) <=>
          \/ Len(c) >= 1 /\ effective_write(c[1]) /\ p = c[1].old_pdst
          \/ Len(c) = 2 /\ effective_write(c[2]) /\ p = c[2].old_pdst
    <3>1. 1 .. Len(c) = {k \in {1, 2} : k <= Len(c)}
      BY <1>2
    <3> QED
      BY <1>2, <2>1, <3>1
  <2> QED
    BY <1>2, <1>4, <1>8, <1>9, <2>2
<1> QED
  BY <1>6, <1>7, <1>10 DEF c, h, s, rh, rs

\* The first and the second instruction dispatched take a register.
Takes1(d) == Len(d) >= 1 /\ effective_write(d[1])
Takes2(d) == Len(d) = 2 /\ effective_write(d[2])

LEMMA AllocatedAre ==
  ASSUME NEW d, Len(d) \in 0 .. 2
  PROVE  \A p : p \in Allocated(d) <=>
           (Takes1(d) /\ p = d[1].pdst) \/ (Takes2(d) /\ p = d[2].pdst)
<1>1. \A p : p \in Allocated(d) <=> \E k \in 1 .. Len(d) : effective_write(d[k]) /\ p = d[k].pdst
  BY DEF Allocated
<1> DEFINE n == Len(d)
<1>2. n \in 0 .. 2
  OBVIOUS
<1> HIDE DEF n
<1>3. \A k \in 1 .. n : k = 1 \/ k = 2
  BY <1>2
<1>4. (1 \in 1 .. n <=> n >= 1) /\ (2 \in 1 .. n <=> n = 2)
  BY <1>2
<1>5. /\ Takes1(d) <=> 1 \in 1 .. n /\ effective_write(d[1])
      /\ Takes2(d) <=> 2 \in 1 .. n /\ effective_write(d[2])
  BY <1>4 DEF Takes1, Takes2, n
<1>6. \A p : p \in Allocated(d) <=> \E k \in 1 .. n : effective_write(d[k]) /\ p = d[k].pdst
  BY <1>1 DEF n
<1>7. ASSUME NEW p, p \in Allocated(d)
      PROVE  (Takes1(d) /\ p = d[1].pdst) \/ (Takes2(d) /\ p = d[2].pdst)
  <2>1. PICK k \in 1 .. n : effective_write(d[k]) /\ p = d[k].pdst
    BY <1>6, <1>7
  <2>2. CASE k = 1
    BY <1>5, <2>1, <2>2, Zenon
  <2>3. CASE k = 2
    BY <1>5, <2>1, <2>3, Zenon
  <2> QED
    BY <1>3, <2>2, <2>3
<1>8. ASSUME NEW p, (Takes1(d) /\ p = d[1].pdst) \/ (Takes2(d) /\ p = d[2].pdst)
      PROVE  p \in Allocated(d)
  BY <1>5, <1>6, <1>8, Zenon
<1> QED
  BY <1>7, <1>8, Zenon

\* The writers in flight after an ordinary edge: those that did not retire, with
\* their registers, and those dispatched, not ready, under the tags t1 and t2.
WritersMove(d, f, t1, t2) ==
  /\ \A t \in Tag : t \in Writers' <=>
       \/ /\ t \in Writers
          /\ ~(Retires1(f) /\ t = head_q) /\ ~(Retires2(f) /\ t = second_tag)
       \/ Takes1(d) /\ t = t1
       \/ Takes2(d) /\ t = t2
  /\ \A t \in Writers : t \in Writers' =>
       Dst(t)' = Dst(t) /\ retire_count(f) <= Position(t) /\ Position(t) < count_q
  /\ Takes1(d) => /\ t1 \in Tag /\ t1 \notin Writers
                   /\ Dst(t1)' = d[1].pdst /\ ~rob_q'[t1].ready
  /\ Takes2(d) => /\ t2 \in Tag /\ t2 \notin Writers
                   /\ Dst(t2)' = d[2].pdst /\ ~rob_q'[t2].ready
  /\ Takes1(d) /\ Takes2(d) => t1 # t2

LEMMA WritersAfter ==
  ASSUME RenameTypes, ProgramOrder,
         NEW i, NEW cdb0, NEW cdb1, NEW done, NEW f, RenameInput(i, cdb0, cdb1, f),
         InputOK(renamed(i), cdb0, cdb1), Moves(renamed(i), retire_count(f), cdb0, cdb1, done)
  PROVE  \E t1, t2 : WritersMove(renamed(i), f, t1, t2)
<1> DEFINE d == renamed(i)
           n == retire_count(f)
<1>1. /\ RobTypeOK /\ RatTypeOK /\ n \in 0 .. 2 /\ n <= count_q /\ n \in Nat /\ count_q \in Nat
      /\ \A t \in Tag : (Position(t) = 0 <=> t = head_q) /\ (Position(t) = 1 <=> t = second_tag)
  BY CommittedAre DEF RenameTypes, RobTypeOK
<1>2. /\ Len(d) = Len(i) /\ Len(i) \in 0 .. 2
      /\ \A k \in 1 .. Len(i) : Keeps(d[k], i[k])
  BY <1>1, RenamedUops DEF RenameInput
<1>3. PICK b \in Nat : \E t1, t2 : Lands(d, n, b, t1, t2)
  BY <1>1, Dispatched
<1>4. PICK t1, t2 : Lands(d, n, b, t1, t2)
  BY <1>3
<1>5. /\ Len(d) >= 1 => /\ t1 \in Tag /\ Position(t1) = count_q
                        /\ rob_q'[t1].valid /\ rob_q'[t1].uop = d[1]
                        /\ rob_q'[t1].ready = ~d[1].supported
      /\ Len(d) = 2 => /\ t2 \in Tag /\ Position(t2) = count_q + 1
                       /\ rob_q'[t2].valid /\ rob_q'[t2].uop = d[2]
                       /\ rob_q'[t2].ready = ~d[2].supported
      /\ \A t \in Tag : rob_q'[t].valid =>
           \/ n <= Position(t) /\ Position(t) < count_q
           \/ Len(d) >= 1 /\ t = t1
           \/ Len(d) = 2 /\ t = t2
  BY <1>4 DEF Lands
<1>6. \A t \in Tag : /\ Position(t) \in Nat
                     /\ rob_q[t].valid <=> Position(t) < count_q
  BY <1>1, Positions DEF ProgramOrder
<1>7. ASSUME NEW t \in Tag, n <= Position(t), Position(t) < count_q
      PROVE  rob_q'[t].valid /\ rob_q[t].valid /\ rob_q'[t].uop = rob_q[t].uop
  BY <1>1, <1>7, InFlightAfter
<1>8. /\ Takes1(d) => Len(d) >= 1 /\ d[1].supported /\ effective_write(d[1])
      /\ Takes2(d) => Len(d) = 2 /\ d[2].supported /\ effective_write(d[2])
  <2>1. ASSUME NEW k \in 1 .. Len(i), effective_write(d[k]) PROVE d[k].supported
    BY <1>2, <2>1 DEF Keeps, UopOK, effective_write
  <2> QED
    BY <1>2, <2>1 DEF Takes1, Takes2
<1> HIDE DEF d, n
<1>9. /\ Takes1(d) => t1 \notin Writers /\ Dst(t1)' = d[1].pdst /\ ~rob_q'[t1].ready
      /\ Takes2(d) => /\ t2 \in Tag /\ t2 \notin Writers
                   /\ Dst(t2)' = d[2].pdst /\ ~rob_q'[t2].ready
      /\ Takes1(d) /\ Takes2(d) => t1 # t2
  <2>1. ASSUME NEW t \in Tag, Position(t) >= count_q PROVE t \notin Writers
    BY <1>1, <1>6, <2>1 DEF Writers
  <2>2. ASSUME Takes1(d) PROVE t1 \notin Writers /\ Dst(t1)' = d[1].pdst /\ ~rob_q'[t1].ready
    <3>1. rob_q'[t1].uop = d[1] /\ rob_q'[t1].ready = ~d[1].supported /\ d[1].supported
      BY <1>5, <1>8, <2>2
    <3>2. t1 \in Tag /\ Position(t1) >= count_q
      BY <1>1, <1>5, <1>8, <2>2
    <3> QED
      BY <2>1, <3>1, <3>2 DEF Dst
  <2>3. ASSUME Takes2(d) PROVE t2 \notin Writers /\ Dst(t2)' = d[2].pdst /\ ~rob_q'[t2].ready
    <3>1. rob_q'[t2].uop = d[2] /\ rob_q'[t2].ready = ~d[2].supported /\ d[2].supported
      BY <1>5, <1>8, <2>3
    <3>2. t2 \in Tag /\ Position(t2) >= count_q
      BY <1>1, <1>5, <1>8, <2>3
    <3> QED
      BY <2>1, <3>1, <3>2 DEF Dst
  <2>4. Takes1(d) /\ Takes2(d) => t1 # t2
    BY <1>1, <1>5, <1>8
  <2> QED
    BY <1>5, <1>8, <2>2, <2>3, <2>4
<1>10. ASSUME NEW t \in Tag, n <= Position(t), Position(t) < count_q
       PROVE  Dst(t)' = Dst(t) /\ (t \in Writers' <=> t \in Writers)
  BY <1>7, <1>10 DEF Writers, Dst
<1>11. ASSUME NEW t \in Writers
       PROVE  /\ t \in Tag /\ Position(t) < count_q
              /\ Position(t) < n <=>
                   (Retires1(f) /\ t = head_q) \/ (Retires2(f) /\ t = second_tag)
  <2>1. t \in Tag /\ rob_q[t].valid /\ effective_write(rob_q[t].uop)
    BY DEF Writers
  <2>2. Position(t) < n <=> (n >= 1 /\ Position(t) = 0) \/ (n = 2 /\ Position(t) = 1)
    BY <1>1, <1>6, <2>1 DEF n
  <2> QED
    BY <1>1, <1>6, <2>1, <2>2 DEF Retires1, Retires2, n
<1>12. ASSUME NEW t \in Tag
       PROVE  t \in Writers' <=>
                \/ /\ t \in Writers
                   /\ ~(Retires1(f) /\ t = head_q) /\ ~(Retires2(f) /\ t = second_tag)
                \/ Takes1(d) /\ t = t1
                \/ Takes2(d) /\ t = t2
  <2>1. ASSUME t \in Writers'
        PROVE  \/ /\ t \in Writers /\ ~(Position(t) < n)
               \/ Takes1(d) /\ t = t1
               \/ Takes2(d) /\ t = t2
    <3>1. rob_q'[t].valid /\ effective_write(rob_q'[t].uop)
      BY <2>1 DEF Writers
    <3>2. CASE n <= Position(t) /\ Position(t) < count_q
      BY <1>1, <1>6, <1>10, <2>1, <3>2
    <3>3. CASE Len(d) >= 1 /\ t = t1
      BY <1>5, <3>1, <3>3 DEF Takes1
    <3>4. CASE Len(d) = 2 /\ t = t2
      BY <1>5, <3>1, <3>4 DEF Takes2
    <3> QED
      BY <1>5, <3>1, <3>2, <3>3, <3>4
  <2>2. ASSUME t \in Writers, ~(Position(t) < n) PROVE t \in Writers'
    BY <1>1, <1>6, <1>10, <1>11, <2>2
  <2>3. ASSUME Takes1(d) /\ t = t1 PROVE t \in Writers'
    BY <1>5, <1>8, <2>3 DEF Writers
  <2>4. ASSUME Takes2(d) /\ t = t2 PROVE t \in Writers'
    BY <1>5, <1>8, <2>4 DEF Writers
  <2> QED
    BY <1>11, <2>1, <2>2, <2>3, <2>4
<1>13. ASSUME NEW t \in Writers, t \in Writers'
       PROVE  Dst(t)' = Dst(t) /\ retire_count(f) <= Position(t) /\ Position(t) < count_q
  <2>1. ~(Position(t) < n)
    BY <1>9, <1>11, <1>12, <1>13
  <2>2. n <= Position(t) /\ Position(t) < count_q /\ t \in Tag
    BY <1>1, <1>6, <1>11, <2>1
  <2> QED
    BY <1>10, <2>2 DEF n
<1>14. (Takes1(d) => t1 \in Tag) /\ (Takes2(d) => t2 \in Tag)
  BY <1>5, <1>8
<1>15. WritersMove(d, f, t1, t2)
  BY <1>9, <1>12, <1>13, <1>14 DEF WritersMove
<1> QED
  BY <1>15 DEF d

\* Renaming allocates free registers, different ones for two writers.
LEMMA Allocates ==
  ASSUME RenameTypes, NEW i, NEW cdb0, NEW cdb1, NEW f, RenameInput(i, cdb0, cdb1, f)
  PROVE  LET d == renamed(i)
         IN /\ Len(d) = Len(i) /\ Len(i) \in 0 .. 2
            /\ Takes1(d) => d[1].pdst \in free_mask
            /\ Takes2(d) => d[2].pdst \in free_mask
            /\ Takes1(d) /\ Takes2(d) => d[1].pdst # d[2].pdst
            /\ \A p : p \in Allocated(d) <=>
                 (Takes1(d) /\ p = d[1].pdst) \/ (Takes2(d) /\ p = d[2].pdst)
<1> DEFINE d == renamed(i)
<1>1. /\ Len(d) = Len(i) /\ Len(i) \in 0 .. 2
      /\ \A k \in 1 .. Len(i) : /\ Keeps(d[k], i[k])
                                /\ effective_write(i[k]) => d[k].pdst \in free_mask
      /\ Len(i) = 2 /\ effective_write(i[1]) /\ effective_write(i[2])
            => d[1].pdst # d[2].pdst
  BY RenamedUops DEF RenameInput, RenameTypes
<1>2. \A k \in 1 .. Len(i) : effective_write(d[k]) <=> effective_write(i[k])
  BY <1>1 DEF Keeps
<1>3. /\ Takes1(d) => d[1].pdst \in free_mask
      /\ Takes2(d) => d[2].pdst \in free_mask
      /\ Takes1(d) /\ Takes2(d) => d[1].pdst # d[2].pdst
  BY <1>1, <1>2 DEF Takes1, Takes2
<1>4. \A p : p \in Allocated(d) <=>
        (Takes1(d) /\ p = d[1].pdst) \/ (Takes2(d) /\ p = d[2].pdst)
  BY <1>1, AllocatedAre
<1> QED
  BY <1>1, <1>3, <1>4

\* What the partition says of each register.
LEMMA PartitionMeans ==
  ASSUME RenameTypes, FreeListPartition
  PROVE  /\ 0 \in Phys /\ 0 \in Arch /\ 0 \notin free_mask /\ free_mask \subseteq Phys
         /\ \A r \in Arch : /\ amt[r] \in Phys /\ amt[r] \notin free_mask
                            /\ amt[r] = 0 <=> r = 0
         /\ \A r, s \in Arch : amt[r] = amt[s] => r = s
         /\ \A t \in Writers : /\ t \in Tag /\ Dst(t) \in Phys /\ Dst(t) # 0
                               /\ Dst(t) \notin free_mask
                               /\ \A r \in Arch : Dst(t) # amt[r]
                               /\ rob_q[t].uop.rd \in Arch \ {0}
         /\ \A t, u \in Writers : Dst(t) = Dst(u) => t = u
         /\ \A p \in Phys : \/ p \in free_mask
                            \/ \E r \in Arch : p = amt[r]
                            \/ \E t \in Writers : p = Dst(t)
<1>1. 0 \in Phys /\ 0 \in Arch /\ amt[0] = 0 /\ free_mask \subseteq Phys
      /\ \A r \in Arch : amt[r] \in Phys
  BY RegCountAssumption DEF Phys, Arch, RenameTypes, RatTypeOK
<1>2. /\ Phys = free_mask \cup Mapped \cup {Dst(t) : t \in Writers}
      /\ free_mask \cap Mapped = {}
      /\ \A t \in Writers : Dst(t) \notin free_mask \cup Mapped
      /\ \A t, u \in Writers : t # u => Dst(t) # Dst(u)
      /\ \A r, s \in Arch : r # s => amt[r] # amt[s]
  BY DEF FreeListPartition
<1>3. \A p : p \in Mapped <=> \E r \in Arch : p = amt[r]
  BY DEF Mapped
<1>4. \A t \in Writers : t \in Tag /\ UopOK(rob_q[t].uop) /\ effective_write(rob_q[t].uop)
  BY DEF Writers, RenameTypes, UopsOK
<1>5. \A t \in Writers : Dst(t) \in Phys /\ rob_q[t].uop.rd \in Arch \ {0}
  BY <1>4 DEF UopOK, Dst, effective_write
<1>6. \A p \in Phys : \/ p \in free_mask
                      \/ \E r \in Arch : p = amt[r]
                      \/ \E t \in Writers : p = Dst(t)
  BY <1>2, <1>3
<1> QED
  BY <1>1, <1>2, <1>3, <1>4, <1>5, <1>6

LEMMA PartitionAdvance ==
  ASSUME RenameTypes, ProgramOrder, Chain, FreeListPartition,
         NEW i, NEW cdb0, NEW cdb1, NEW done, NEW f, RenameInput(i, cdb0, cdb1, f),
         InputOK(renamed(i), cdb0, cdb1), Moves(renamed(i), retire_count(f), cdb0, cdb1, done),
         RatAdvance(renamed(i), committed(f))
  PROVE  FreeListPartition'
<1> DEFINE d == renamed(i)
           h == head_q  s == second_tag  rh == rob_q[h].uop.rd  rs == rob_q[s].uop.rd
<1>1. PICK t1, t2 : WritersMove(d, f, t1, t2)
  BY WritersAfter
<1>2. /\ Len(d) = Len(i) /\ Len(i) \in 0 .. 2
      /\ Takes1(d) => d[1].pdst \in free_mask
      /\ Takes2(d) => d[2].pdst \in free_mask
      /\ Takes1(d) /\ Takes2(d) => d[1].pdst # d[2].pdst
      /\ \A p : p \in Allocated(d) <=>
           (Takes1(d) /\ p = d[1].pdst) \/ (Takes2(d) /\ p = d[2].pdst)
  BY Allocates
<1>3. /\ Retires1(f) => h \in Writers /\ rh \in Arch \ {0}
      /\ Retires2(f) => s \in Writers /\ rs \in Arch \ {0}
      /\ \A r \in Arch : amt'[r] = IF r = 0 THEN 0
                                   ELSE IF Retires2(f) /\ rs = r THEN Dst(s)
                                   ELSE IF Retires1(f) /\ rh = r THEN Dst(h) ELSE amt[r]
      /\ \A p : p \in Released(committed(f)) <=>
           \/ Retires1(f) /\ p = amt[rh]
           \/ Retires2(f) /\ p = IF Retires1(f) /\ rh = rs THEN Dst(h) ELSE amt[rs]
  BY CommitMoves DEF RatAdvance, WritersOf
<1>4. Retires1(f) /\ Retires2(f) => h # s
  <2>1. \A t \in Tag : (Position(t) = 0 <=> t = h) /\ (Position(t) = 1 <=> t = s)
    BY CommittedAre DEF RenameTypes
  <2> QED
    BY <1>3, <2>1 DEF Writers
<1>5. /\ 0 \in Phys /\ 0 \in Arch /\ 0 \notin free_mask /\ free_mask \subseteq Phys
      /\ \A r \in Arch : /\ amt[r] \in Phys /\ amt[r] \notin free_mask
                         /\ amt[r] = 0 <=> r = 0
      /\ \A r, q \in Arch : amt[r] = amt[q] => r = q
      /\ \A t \in Writers : /\ t \in Tag /\ Dst(t) \in Phys /\ Dst(t) # 0
                            /\ Dst(t) \notin free_mask
                            /\ \A r \in Arch : Dst(t) # amt[r]
      /\ \A t, u \in Writers : Dst(t) = Dst(u) => t = u
      /\ \A p \in Phys : \/ p \in free_mask
                         \/ \E r \in Arch : p = amt[r]
                         \/ \E t \in Writers : p = Dst(t)
  BY PartitionMeans
<1>6. \A p : p \in Allocated(d) <=>
        (Takes1(d) /\ p = d[1].pdst) \/ (Takes2(d) /\ p = d[2].pdst)
  BY <1>2
<1>7. \A p : p \in free_mask' <=>
        /\ p \in free_mask \/ p \in Released(committed(f))
        /\ p \notin Allocated(d) /\ p # 0
  BY DEF RatAdvance
<1> HIDE DEF d, h, s, rh, rs
<1>8. /\ \A t \in Tag : t \in Writers' <=>
           \/ t \in Writers /\ ~(Retires1(f) /\ t = h) /\ ~(Retires2(f) /\ t = s)
           \/ Takes1(d) /\ t = t1
           \/ Takes2(d) /\ t = t2
      /\ \A t \in Writers : t \in Writers' => Dst(t)' = Dst(t)
      /\ Takes1(d) => t1 \in Tag /\ t1 \notin Writers /\ Dst(t1)' = d[1].pdst
      /\ Takes2(d) => t2 \in Tag /\ t2 \notin Writers /\ Dst(t2)' = d[2].pdst
      /\ Takes1(d) /\ Takes2(d) => t1 # t2
      /\ Writers' \subseteq Tag
  BY <1>1 DEF WritersMove, Writers, h, s
<1>9. ASSUME NEW t \in Writers'
      PROVE  \/ /\ t \in Writers /\ ~(Retires1(f) /\ t = h) /\ ~(Retires2(f) /\ t = s)
                /\ Dst(t)' = Dst(t)
             \/ Takes1(d) /\ t = t1 /\ Dst(t)' = d[1].pdst
             \/ Takes2(d) /\ t = t2 /\ Dst(t)' = d[2].pdst
  BY <1>8
<1>10. ASSUME NEW p \in Phys
       PROVE  \/ p \in free_mask'
              \/ \E r \in Arch : p = amt'[r]
              \/ \E t \in Writers' : p = Dst(t)'
  <2>1. CASE p \in free_mask
    <3>1. CASE p \in Allocated(d)
      BY <1>6, <1>8, <3>1
    <3>2. CASE p \notin Allocated(d)
      BY <1>5, <1>7, <2>1, <3>2
    <3> QED
      BY <3>1, <3>2
  <2>2. ASSUME NEW r \in Arch, p = amt[r]
        PROVE  p \in free_mask' \/ p = amt'[r]
    <3>1. CASE r = 0
      BY <1>3, <1>5, <2>2, <3>1
    <3>2. CASE r # 0 /\ ((Retires1(f) /\ rh = r) \/ (Retires2(f) /\ rs = r))
      <4>1. p \in Released(committed(f))
        BY <1>3, <2>2, <3>2
      <4>2. p \notin Allocated(d) /\ p # 0
        BY <1>2, <1>5, <1>6, <2>2, <3>2
      <4> QED
        BY <1>7, <4>1, <4>2
    <3>3. CASE r # 0 /\ ~(Retires1(f) /\ rh = r) /\ ~(Retires2(f) /\ rs = r)
      BY <1>3, <2>2, <3>3
    <3> QED
      BY <3>1, <3>2, <3>3
  <2>3. ASSUME NEW t \in Writers, p = Dst(t)
        PROVE  \/ p \in free_mask'
               \/ \E r \in Arch : p = amt'[r]
               \/ \E u \in Writers' : p = Dst(u)'
    <3>1. CASE ~(Retires1(f) /\ t = h) /\ ~(Retires2(f) /\ t = s)
      BY <1>5, <1>8, <2>3, <3>1
    <3>2. CASE Retires1(f) /\ t = h /\ ~(Retires2(f) /\ rs = rh)
      BY <1>3, <2>3, <3>2
    <3>3. CASE Retires1(f) /\ t = h /\ Retires2(f) /\ rs = rh
      <4>1. p \in Released(committed(f))
        BY <1>3, <2>3, <3>3
      <4>2. p \notin Allocated(d) /\ p # 0
        BY <1>2, <1>5, <1>6, <2>3
      <4> QED
        BY <1>7, <4>1, <4>2
    <3>4. CASE Retires2(f) /\ t = s
      BY <1>3, <2>3, <3>4
    <3> QED
      BY <3>1, <3>2, <3>3, <3>4
  <2> QED
    BY <1>5, <2>1, <2>2, <2>3
<1>11. ASSUME NEW r \in Arch PROVE amt'[r] \in Phys /\ amt'[r] \notin free_mask'
  <2>1. amt'[r] \in Phys
    BY <1>3, <1>5
  <2>2. CASE r = 0
    BY <1>3, <1>7, <2>1, <2>2
  <2>3. CASE r # 0
    <3>1. amt'[r] \notin Released(committed(f))
      BY <1>3, <1>4, <1>5, <2>3
    <3>2. amt'[r] \notin free_mask
      BY <1>3, <1>5, <2>3
    <3> QED
      BY <1>7, <2>1, <3>1, <3>2
  <2> QED
    BY <2>1, <2>2, <2>3
<1>12. ASSUME NEW t \in Writers' PROVE Dst(t)' \in Phys /\ Dst(t)' \notin free_mask'
  <2>1. Dst(t)' \in Phys
    BY <1>2, <1>5, <1>9
  <2>2. CASE Dst(t)' \in Allocated(d)
    BY <1>7, <2>1, <2>2
  <2>3. CASE Dst(t)' \notin Allocated(d)
    <3>1. /\ t \in Writers /\ ~(Retires1(f) /\ t = h) /\ ~(Retires2(f) /\ t = s)
          /\ Dst(t)' = Dst(t)
      BY <1>6, <1>9, <2>3
    <3>2. Dst(t) \notin free_mask /\ Dst(t) \notin Released(committed(f))
      BY <1>3, <1>5, <3>1
    <3> QED
      BY <1>7, <2>1, <3>1, <3>2
  <2> QED
    BY <2>1, <2>2, <2>3
<1>13. ASSUME NEW t \in Writers', NEW r \in Arch PROVE Dst(t)' # amt'[r]
  <2>1. amt'[r] \notin free_mask
    BY <1>3, <1>5
  <2>2. CASE Dst(t)' \in free_mask
    BY <2>1, <2>2
  <2>3. CASE Dst(t)' \notin free_mask
    <3>1. /\ t \in Writers /\ ~(Retires1(f) /\ t = h) /\ ~(Retires2(f) /\ t = s)
          /\ Dst(t)' = Dst(t)
      BY <1>2, <1>9, <2>3
    <3> QED
      BY <1>3, <1>5, <3>1
  <2> QED
    BY <2>2, <2>3
<1>14. \A t, u \in Writers' : t # u => Dst(t)' # Dst(u)'
  BY <1>2, <1>5, <1>8, <1>9
<1>15. \A r, q \in Arch : r # q => amt'[r] # amt'[q]
  BY <1>3, <1>4, <1>5
<1>16. /\ Phys = free_mask' \cup Mapped' \cup {Dst(t)' : t \in Writers'}
       /\ free_mask' \cap Mapped' = {}
       /\ \A t \in Writers' : Dst(t)' \notin free_mask' \cup Mapped'
  <2>1. \A p : p \in Mapped' <=> \E r \in Arch : p = amt'[r]
    BY DEF Mapped
  <2>2. free_mask' \subseteq Phys
    <3>1. \A p \in Released(committed(f)) : p \in Phys
      BY <1>3, <1>5
    <3> QED
      BY <1>5, <1>7, <3>1
  <2>3. free_mask' \cap Mapped' = {}
    BY <1>11, <2>1
  <2>4. \A t \in Writers' : Dst(t)' \notin free_mask' \cup Mapped'
    BY <1>12, <1>13, <2>1
  <2>5. Phys = free_mask' \cup Mapped' \cup {Dst(t)' : t \in Writers'}
    BY <1>10, <1>11, <1>12, <2>1, <2>2
  <2> QED
    BY <2>3, <2>4, <2>5
<1> QED
  BY <1>14, <1>15, <1>16 DEF FreeListPartition
-----------------------------------------------------------------------------
(***************************************************************************)
(* Register file against buffer.                                           *)
(***************************************************************************)
\* A bus lane writes the register of a writer in flight exactly when it names
\* that writer, which waits for it, and never a committed register.
LEMMA BusNames ==
  ASSUME RenameTypes, FreeListPartition, NEW m, BusOK(m)
  PROVE  /\ \A t \in Writers : /\ Writes(m, Dst(t)) <=> m.valid /\ m.tag = t
                               /\ m.valid /\ m.tag = t => ~rob_q[t].ready
         /\ \A r \in Arch \ {0} : ~Writes(m, amt[r])
<1>1. /\ \A t \in Writers : /\ t \in Tag /\ Dst(t) # 0
                            /\ \A r \in Arch : Dst(t) # amt[r]
      /\ \A t, u \in Writers : Dst(t) = Dst(u) => t = u
      /\ \A r \in Arch : amt[r] = 0 <=> r = 0
  BY PartitionMeans
<1>2. CASE ~m.valid
  BY <1>2 DEF Writes
<1>3. CASE m.valid
  <2>1. /\ m.tag \in Tag /\ rob_q[m.tag].valid /\ ~rob_q[m.tag].ready
        /\ m.writes = rob_q[m.tag].uop.writes /\ m.pdst = rob_q[m.tag].uop.pdst
    BY <1>3 DEF BusOK, LaneOK
  <2>2. UopOK(rob_q[m.tag].uop)
    BY <2>1 DEF RenameTypes, UopsOK
  <2>3. m.pdst # 0 => m.tag \in Writers
    BY <2>1, <2>2 DEF UopOK, Writers
  <2>4. m.pdst = Dst(m.tag)
    BY <2>1 DEF Dst
  <2>5. \A t \in Writers : rob_q[t].uop.writes
    BY DEF Writers, effective_write
  <2>6. \A p : Writes(m, p) <=> m.writes /\ m.pdst = p
    BY <1>3 DEF Writes
  <2>7. ASSUME NEW t \in Writers PROVE Writes(m, Dst(t)) <=> m.tag = t
    <3>1. Writes(m, Dst(t)) => m.tag = t
      BY <1>1, <2>3, <2>4, <2>6
    <3>2. m.tag = t => Writes(m, Dst(t))
      BY <2>1, <2>4, <2>5, <2>6
    <3> QED
      BY <3>1, <3>2
  <2>8. ASSUME NEW r \in Arch \ {0} PROVE ~Writes(m, amt[r])
    BY <1>1, <2>3, <2>4, <2>6
  <2> QED
    BY <1>3, <2>1, <2>7, <2>8
<1> QED
  BY <1>2, <1>3

\* What the edge does to one register of the file.
LEMMA RegTickAt ==
  ASSUME NEW d, NEW cdb0, NEW cdb1, RegTick(d, cdb0, cdb1), NEW p \in Phys
  PROVE  /\ reg_value'[p] = IF p = 0 THEN 0
                            ELSE IF Writes(cdb1, p) THEN cdb1.value
                            ELSE IF Writes(cdb0, p) THEN cdb0.value ELSE reg_value[p]
         /\ reg_ready'[p] <=> \/ p = 0
                              \/ /\ p \notin Allocated(d)
                                 /\ Writes(cdb1, p) \/ Writes(cdb0, p) \/ reg_ready[p]
BY DEF RegTick

LEMMA ResultsAdvance ==
  ASSUME RenameTypes, ProgramOrder, Chain, FreeListPartition, ResultsAgree,
         NEW i, NEW cdb0, NEW cdb1, NEW done, NEW f, RenameInput(i, cdb0, cdb1, f),
         InputOK(renamed(i), cdb0, cdb1), Moves(renamed(i), retire_count(f), cdb0, cdb1, done),
         RatAdvance(renamed(i), committed(f)), RegTick(renamed(i), cdb0, cdb1)
  PROVE  ResultsAgree'
<1> DEFINE d == renamed(i)
<1>1. PICK t1, t2 : WritersMove(d, f, t1, t2)
  BY WritersAfter
<1>2. \A p \in Allocated(d) : p \in free_mask
  BY Allocates
<1>3. /\ 0 \in Phys
      /\ \A r \in Arch : /\ amt[r] \in Phys /\ amt[r] \notin free_mask
                         /\ amt[r] = 0 <=> r = 0
      /\ \A t \in Writers : /\ t \in Tag /\ Dst(t) \in Phys /\ Dst(t) # 0
                            /\ Dst(t) \notin free_mask
  BY PartitionMeans
<1>4. /\ \A t \in Writers : /\ Writes(cdb0, Dst(t)) <=> cdb0.valid /\ cdb0.tag = t
                            /\ cdb0.valid /\ cdb0.tag = t => ~rob_q[t].ready
      /\ \A t \in Writers : /\ Writes(cdb1, Dst(t)) <=> cdb1.valid /\ cdb1.tag = t
                            /\ cdb1.valid /\ cdb1.tag = t => ~rob_q[t].ready
  BY BusNames DEF RenameInput
<1>5. \A p \in Phys :
        /\ reg_value'[p] = IF p = 0 THEN 0
                           ELSE IF Writes(cdb1, p) THEN cdb1.value
                           ELSE IF Writes(cdb0, p) THEN cdb0.value ELSE reg_value[p]
        /\ reg_ready'[p] <=> \/ p = 0
                             \/ /\ p \notin Allocated(d)
                                /\ Writes(cdb1, p) \/ Writes(cdb0, p) \/ reg_ready[p]
  BY RegTickAt
<1>6. /\ \A r \in Arch : reg_ready[amt[r]]
      /\ \A t \in Writers : /\ reg_ready[Dst(t)] <=> rob_q[t].ready
                            /\ rob_q[t].ready => reg_value[Dst(t)] = rob_q[t].value
  BY DEF ResultsAgree
<1>7. ASSUME NEW r \in Arch PROVE reg_ready'[amt'[r]]
  <2>1. \/ amt'[r] = 0
        \/ amt'[r] = amt[r]
        \/ \E t \in Writers : amt'[r] = Dst(t) /\ rob_q[t].ready
    BY CommitMoves DEF RatAdvance, WritersOf
  <2>2. \/ amt'[r] = 0
        \/ amt'[r] \in Phys /\ amt'[r] \notin Allocated(d) /\ reg_ready[amt'[r]]
    <3> HIDE DEF d
    <3> QED
      BY <1>2, <1>3, <1>6, <2>1
  <2> HIDE DEF d
  <2> QED
    BY <1>3, <1>5, <2>2
<1>8. ASSUME NEW t \in Writers', t \in Writers
      PROVE  /\ reg_ready'[Dst(t)'] <=> rob_q'[t].ready
             /\ rob_q'[t].ready => reg_value'[Dst(t)'] = rob_q'[t].value
  <2> DEFINE e == StoreDone(Heard(t, cdb0, cdb1), t, done)
  <2>1. /\ Dst(t)' = Dst(t) /\ retire_count(f) <= Position(t) /\ Position(t) < count_q
        /\ t \in Tag
    BY <1>1, <1>3, <1>8 DEF WritersMove
  <2>2. rob_q'[t] = e
    BY <2>1 DEF Moves
  <2>3. rob_q[t].valid /\ effective_write(rob_q[t].uop) /\ rob_q[t].uop.class # "store"
    BY <1>8 DEF Writers, RenameTypes, UopsOK, UopOK, effective_write
  <2>4. /\ cdb1.valid /\ cdb1.tag = t => e.ready /\ e.value = cdb1.value
        /\ cdb0.valid /\ cdb0.tag = t /\ ~(cdb1.valid /\ cdb1.tag = t)
             => e.ready /\ e.value = cdb0.value
        /\ ~(cdb0.valid /\ cdb0.tag = t) /\ ~(cdb1.valid /\ cdb1.tag = t)
             => e.value = rob_q[t].value /\ (e.ready <=> rob_q[t].ready)
    <3>1. RobTypeOK /\ LaneOK(cdb0) /\ LaneOK(cdb1)
      BY DEF RenameTypes, InputOK
    <3>2. /\ rob_q[t].valid /\ cdb1.valid /\ cdb1.tag = t => e.ready /\ e.value = cdb1.value
          /\ rob_q[t].valid /\ cdb0.valid /\ cdb0.tag = t /\ ~(cdb1.valid /\ cdb1.tag = t)
               => e.ready /\ e.value = cdb0.value
          /\ ~(cdb0.valid /\ cdb0.tag = t) /\ ~(cdb1.valid /\ cdb1.tag = t)
               => /\ e.value = rob_q[t].value
                  /\ e.ready <=> rob_q[t].ready \/ (/\ t \in done /\ rob_q[t].valid
                                                    /\ rob_q[t].uop.class = "store")
      BY <2>1, <3>1, StaysAs
    <3> HIDE DEF e
    <3> QED
      BY <2>3, <3>2
  <2> HIDE DEF d, e
  <2> DEFINE p == Dst(t)
  <2>5. p \in Phys /\ p # 0 /\ p \notin Allocated(d)
    BY <1>2, <1>3, <1>8
  <2>6. /\ reg_value'[p] = IF Writes(cdb1, p) THEN cdb1.value
                           ELSE IF Writes(cdb0, p) THEN cdb0.value ELSE reg_value[p]
        /\ reg_ready'[p] <=> Writes(cdb1, p) \/ Writes(cdb0, p) \/ reg_ready[p]
    BY <1>5, <2>5
  <2>7. /\ Writes(cdb0, p) <=> cdb0.valid /\ cdb0.tag = t
        /\ Writes(cdb1, p) <=> cdb1.valid /\ cdb1.tag = t
        /\ reg_ready[p] <=> rob_q[t].ready
        /\ rob_q[t].ready => reg_value[p] = rob_q[t].value
    BY <1>4, <1>6, <1>8
  <2> HIDE DEF p
  <2>8. /\ reg_ready'[p] <=> e.ready
        /\ e.ready => reg_value'[p] = e.value
    BY <2>4, <2>6, <2>7
  <2> QED
    BY <2>1, <2>2, <2>8 DEF p
<1>9. ASSUME NEW t \in Writers', t \notin Writers
      PROVE  ~reg_ready'[Dst(t)'] /\ ~rob_q'[t].ready
  <2>1. t \in Tag
    BY DEF Writers
  <2>2. /\ ~rob_q'[t].ready
        /\ \/ Takes1(d) /\ Dst(t)' = d[1].pdst
           \/ Takes2(d) /\ Dst(t)' = d[2].pdst
    BY <1>1, <1>9, <2>1 DEF WritersMove
  <2>3. \A q : (Takes1(d) /\ q = d[1].pdst) \/ (Takes2(d) /\ q = d[2].pdst)
               => q \in Allocated(d)
    BY Allocates
  <2>4. 0 \notin free_mask /\ free_mask \subseteq Phys
    BY PartitionMeans
  <2> HIDE DEF d
  <2>5. Dst(t)' \in Allocated(d)
    BY <2>2, <2>3
  <2> QED
    BY <1>2, <1>5, <2>2, <2>4, <2>5
<1> QED
  BY <1>7, <1>8, <1>9 DEF ResultsAgree
-----------------------------------------------------------------------------
(***************************************************************************)
(* One clock edge.                                                         *)
(***************************************************************************)
RenameInv == RenameTypes /\ ProgramOrder /\ Chain /\ FreeListPartition /\ ResultsAgree

\* The bundle reaches the buffer as uops that fit.
LEMMA BundleFits ==
  ASSUME RenameTypes, NEW i, NEW cdb0, NEW cdb1, NEW f, RenameInput(i, cdb0, cdb1, f)
  PROVE  /\ InputOK(renamed(i), cdb0, cdb1)
         /\ Len(renamed(i)) = Len(i) /\ Len(i) \in 0 .. 2
         /\ \A k \in 1 .. Len(i) : UopOK(renamed(i)[k])
<1>1. /\ renamed(i) \in Seq(Uop) /\ Len(renamed(i)) = Len(i) /\ Len(i) \in 0 .. 2
      /\ \A k \in 1 .. Len(i) : Keeps(renamed(i)[k], i[k])
  BY RenamedUops DEF RenameInput, RenameTypes
<1>2. LaneOK(cdb0) /\ LaneOK(cdb1) /\ Len(i) <= rob_free_count
  BY DEF RenameInput, BusOK
<1> QED
  BY <1>1, <1>2 DEF InputOK, Keeps

LEMMA MapTypes ==
  ASSUME NEW map, NEW u, Len(u) \in 0 .. 2, \A r \in Arch : map[r] \in Phys,
         \A k \in 1 .. Len(u) : u[k].pdst \in Phys
  PROVE  Written(map, u) \in [Arch -> Phys] /\ Written(map, u)[0] = 0
<1>1. 0 \in Phys /\ 0 \in Arch
  BY RegCountAssumption DEF Phys, Arch
<1>2. ASSUME NEW r \in Arch
      PROVE  Written(map, u)[r] \in Phys /\ (r = 0 => Written(map, u)[r] = 0)
  <2>1. Written(map, u)[r] =
          IF r = 0 THEN 0
          ELSE IF Len(u) = 2 /\ effective_write(u[2]) /\ u[2].rd = r THEN u[2].pdst
          ELSE IF Len(u) >= 1 /\ effective_write(u[1]) /\ u[1].rd = r THEN u[1].pdst
          ELSE map[r]
    BY WrittenAt
  <2>2. /\ Len(u) = 2 => u[2].pdst \in Phys
        /\ Len(u) >= 1 => u[1].pdst \in Phys
    OBVIOUS
  <2> QED
    BY <1>1, <2>1, <2>2
<1>3. Written(map, u) = [r \in Arch |-> Written(map, u)[r]]
  BY DEF Written
<1> QED
  BY <1>1, <1>2, <1>3

\* The uops that retire are uops of the buffer.
LEMMA CommittedTyped ==
  ASSUME RenameTypes, ProgramOrder, NEW f
  PROVE  /\ Len(committed(f)) \in 0 .. 2
         /\ \A k \in 1 .. Len(committed(f)) : /\ committed(f)[k].pdst \in Phys
                                              /\ committed(f)[k].old_pdst \in Phys
<1> DEFINE c == committed(f)  n == retire_count(f)
<1>1. /\ n \in 0 .. 2 /\ Len(c) = n
      /\ n >= 1 => c[1] = rob_q[head_q].uop /\ rob_q[head_q].valid
      /\ n = 2 => c[2] = rob_q[second_tag].uop /\ rob_q[second_tag].valid
      /\ head_q \in Tag /\ second_tag \in Tag
  BY CommittedAre DEF RenameTypes
<1>2. \A t \in Tag : rob_q[t].valid => rob_q[t].uop.pdst \in Phys /\ rob_q[t].uop.old_pdst \in Phys
  BY DEF RenameTypes, UopsOK, UopOK
<1> HIDE DEF c, n
<1>3. ASSUME NEW k \in 1 .. n PROVE c[k].pdst \in Phys /\ c[k].old_pdst \in Phys
  <2>1. k = 1 \/ (k = 2 /\ n = 2)
    BY <1>1
  <2>2. n >= 1
    BY <1>1
  <2> QED
    BY <1>1, <1>2, <2>1, <2>2
<1> QED
  BY <1>1, <1>3 DEF c

\* The register file keeps its shape.
LEMMA RegTypes ==
  ASSUME NEW d, NEW cdb0, NEW cdb1, RegTick(d, cdb0, cdb1)
  PROVE  reg_ready' \in [Phys -> BOOLEAN] /\ reg_value'[0] = 0
<1>1. 0 \in Phys
  BY RegCountAssumption DEF Phys
<1>2. reg_value'[0] = 0
  BY <1>1, RegTickAt
<1>3. reg_ready' \in [Phys -> BOOLEAN]
  BY DEF RegTick
<1> QED
  BY <1>2, <1>3

LEMMA TypesAdvance ==
  ASSUME RenameTypes, ProgramOrder,
         NEW i, NEW cdb0, NEW cdb1, NEW done, NEW f, RenameInput(i, cdb0, cdb1, f),
         Advance(renamed(i), retire_count(f), cdb0, cdb1, done),
         RatAdvance(renamed(i), committed(f)), RegTick(renamed(i), cdb0, cdb1)
  PROVE  RenameTypes' /\ ProgramOrder' /\ Moves(renamed(i), retire_count(f), cdb0, cdb1, done)
<1> DEFINE d == renamed(i)  n == retire_count(f)
<1>1. /\ InputOK(d, cdb0, cdb1) /\ Len(d) = Len(i) /\ Len(i) \in 0 .. 2
      /\ \A k \in 1 .. Len(d) : UopOK(d[k])
  BY BundleFits
<1>2. RobTypeOK /\ RatTypeOK /\ UopsOK /\ n \in 0 .. 2 /\ n <= count_q
  BY RetireCountBound DEF RenameTypes
<1>3. RobTypeOK' /\ ProgramOrder' /\ Moves(d, n, cdb0, cdb1, done)
  BY <1>1, <1>2, AdvanceTypeOK, AdvanceOrder, AdvanceMoves
<1>4. RatTypeOK'
  <2>1. /\ \A r \in Arch : amt[r] \in Phys /\ rat_map[r] \in Phys
        /\ free_mask \subseteq Phys
    BY <1>2 DEF RatTypeOK
  <2>2. /\ Len(committed(f)) \in 0 .. 2
        /\ \A k \in 1 .. Len(committed(f)) : /\ committed(f)[k].pdst \in Phys
                                             /\ committed(f)[k].old_pdst \in Phys
    BY CommittedTyped
  <2>3. \A k \in 1 .. Len(d) : d[k].pdst \in Phys
    BY <1>1 DEF UopOK
  <2>4. amt' \in [Arch -> Phys] /\ amt'[0] = 0
    BY <2>1, <2>2, MapTypes DEF RatAdvance
  <2>5. rat_map' \in [Arch -> Phys] /\ rat_map'[0] = 0
    <3>1. Written(rat_map, d) \in [Arch -> Phys] /\ Written(rat_map, d)[0] = 0
      <4> HIDE DEF d
      <4> QED
        BY <1>1, <2>1, <2>3, MapTypes
    <3> QED
      BY <3>1 DEF RatAdvance
  <2>6. free_mask' \subseteq Phys
    <3>1. Released(committed(f)) \subseteq Phys
      BY <2>2 DEF Released
    <3> QED
      BY <2>1, <3>1 DEF RatAdvance
  <2>7. reg_ready' \in [Phys -> BOOLEAN] /\ reg_value'[0] = 0
    BY RegTypes
  <2> QED
    BY <2>4, <2>5, <2>6, <2>7 DEF RatTypeOK
<1>5. UopsOK'
  <2> SUFFICES ASSUME NEW t \in Tag, rob_q'[t].valid PROVE UopOK(rob_q'[t].uop)
    BY DEF UopsOK, UopOK, effective_write
  <2>1. /\ n <= Position(t) /\ Position(t) < count_q =>
             rob_q[t].valid /\ rob_q'[t].uop = rob_q[t].uop
        /\ Len(d) >= 1 /\ Position(t) = count_q => rob_q'[t].uop = d[1]
        /\ Len(d) = 2 /\ Position(t) = count_q + 1 => rob_q'[t].uop = d[2]
        /\ \/ n <= Position(t) /\ Position(t) < count_q
           \/ Len(d) >= 1 /\ Position(t) = count_q
           \/ Len(d) = 2 /\ Position(t) = count_q + 1
    BY <1>1, <1>2, <1>3, InFlightAfter
  <2>2. rob_q[t].valid => UopOK(rob_q[t].uop)
    BY <1>2 DEF UopsOK
  <2>3. /\ Len(d) >= 1 => UopOK(d[1])
        /\ Len(d) = 2 => UopOK(d[2])
    BY <1>1
  <2> HIDE DEF d, n
  <2> QED
    BY <2>1, <2>2, <2>3
<1> QED
  BY <1>3, <1>4, <1>5 DEF RenameTypes

\* A recovery: the head commits its result, nothing is left in flight, and both
\* maps and the free list follow from the committed map.
LEMMA RecoverKeeps ==
  ASSUME RenameInv, NEW i, NEW cdb0, NEW cdb1, NEW f, RenameInput(i, cdb0, cdb1, f),
         recovery(f), Recover, RatRecover(committed(f)), RegTick(renamed(i), cdb0, cdb1)
  PROVE  RenameInv'
<1>1. /\ RenameTypes /\ ProgramOrder /\ Chain /\ FreeListPartition /\ ResultsAgree
      /\ RobTypeOK /\ RatTypeOK
  BY DEF RenameInv, RenameTypes
<1>2. RobTypeOK' /\ ProgramOrder'
  BY <1>1, RecoverTypeOK, RecoverOrder
<1>3. \A t \in Tag : ~rob_q'[t].valid
  BY <1>1 DEF Recover, RobTypeOK, Clear, Entry
<1>4. Writers' = {} /\ \A r : WritersOf(r)' = {}
  BY <1>3 DEF Writers, WritersOf
<1>5. /\ amt' = Written(amt, committed(f)) /\ rat_map' = amt'
      /\ \A p : p \in free_mask' <=> p \in Phys /\ p # 0 /\ \A r \in Arch : p # amt'[r]
  BY DEF RatRecover
<1>6. amt' \in [Arch -> Phys] /\ amt'[0] = 0 /\ 0 \in Arch
  <2>1. \A r \in Arch : amt[r] \in Phys
    BY <1>1 DEF RatTypeOK
  <2>2. 0 \in Arch
    BY RegCountAssumption DEF Arch
  <2>3. /\ Len(committed(f)) \in 0 .. 2
        /\ \A k \in 1 .. Len(committed(f)) : committed(f)[k].pdst \in Phys
    BY <1>1, CommittedTyped
  <2> QED
    BY <1>5, <2>1, <2>2, <2>3, MapTypes
<1>7. RenameTypes'
  <2>1. reg_ready' \in [Phys -> BOOLEAN] /\ reg_value'[0] = 0
    BY RegTypes
  <2>2. free_mask' \subseteq Phys
    BY <1>5
  <2>3. RatTypeOK'
    BY <1>5, <1>6, <2>1, <2>2 DEF RatTypeOK
  <2>4. UopsOK'
    BY <1>3 DEF UopsOK
  <2> QED
    BY <1>2, <2>3, <2>4 DEF RenameTypes
<1>8. Chain'
  <2>1. ASSUME NEW r \in Arch \ {0}, NEW m, NEW p, p = rat_map'[r] PROVE Names(r, m, p)'
    BY <1>4, <1>5, <2>1 DEF Names, NoneBefore
  <2> QED
    BY <1>4, <2>1 DEF Chain
<1> DEFINE h == head_q  rh == rob_q[h].uop.rd
<1>9. ~Retires2(f)
  BY DEF Retires2, recovery, retire_count, Special
<1>10. /\ Retires1(f) => h \in Writers /\ rob_q[h].ready
       /\ \A r \in Arch : amt'[r] = IF r = 0 THEN 0
                                    ELSE IF Retires1(f) /\ rh = r THEN Dst(h) ELSE amt[r]
  <2>1. /\ Retires1(f) => h \in Writers /\ rob_q[h].ready
        /\ \A r \in Arch : Written(amt, committed(f))[r] =
             IF r = 0 THEN 0
             ELSE IF Retires2(f) /\ rob_q[second_tag].uop.rd = r THEN Dst(second_tag)
             ELSE IF Retires1(f) /\ rh = r THEN Dst(h) ELSE amt[r]
    BY <1>1, CommitMoves DEF WritersOf
  <2> QED
    BY <1>5, <1>9, <2>1
<1> HIDE DEF h, rh
<1>11. FreeListPartition'
  <2>1. \A r, q \in Arch : r # q => amt'[r] # amt'[q]
    <3>1. /\ \A r \in Arch : amt[r] = 0 <=> r = 0
          /\ \A r, q \in Arch : amt[r] = amt[q] => r = q
          /\ \A t \in Writers : Dst(t) # 0 /\ \A r \in Arch : Dst(t) # amt[r]
      BY <1>1, PartitionMeans
    <3> QED
      BY <1>10, <3>1
  <2>2. \A p : p \in Mapped' <=> \E r \in Arch : p = amt'[r]
    BY DEF Mapped
  <2>3. Phys = free_mask' \cup Mapped' /\ free_mask' \cap Mapped' = {}
    BY <1>5, <1>6, <2>2
  <2> QED
    BY <1>4, <2>1, <2>3 DEF FreeListPartition
<1>12. ResultsAgree'
  <2>1. i = <<>> /\ ~cdb0.valid /\ ~cdb1.valid
    BY DEF RenameInput
  <2>2. \A p : p \notin Allocated(renamed(i))
    <3>1. Len(renamed(i)) = Len(i) /\ Len(i) = 0
      BY <1>1, <2>1, BundleFits
    <3> QED
      BY <3>1 DEF Allocated
  <2>3. \A p \in Phys : reg_ready'[p] <=> p = 0 \/ reg_ready[p]
    BY <2>1, <2>2, RegTickAt DEF Writes
  <2>4. ASSUME NEW r \in Arch PROVE reg_ready'[amt'[r]]
    <3>1. \A q \in Arch : reg_ready[amt[q]]
      BY <1>1 DEF ResultsAgree
    <3>2. \A t \in Writers : reg_ready[Dst(t)] <=> rob_q[t].ready
      BY <1>1 DEF ResultsAgree
    <3>3. amt'[r] = 0 \/ reg_ready[amt'[r]]
      BY <1>10, <3>1, <3>2
    <3> QED
      BY <1>6, <2>3, <3>3
  <2> QED
    BY <1>4, <2>4 DEF ResultsAgree
<1> QED
  BY <1>2, <1>7, <1>8, <1>11, <1>12 DEF RenameInv

\* The invariant over one edge of the three units, whatever the others do.
LEMMA RenameStep ==
  ASSUME RenameInv, NEW i, NEW cdb0, NEW cdb1, NEW done, NEW f,
         RenameInput(i, cdb0, cdb1, f), RenameTick(i, cdb0, cdb1, done, f)
  PROVE  RenameInv'
<1>1. RenameTypes /\ ProgramOrder /\ Chain /\ FreeListPartition /\ ResultsAgree
  BY DEF RenameInv
<1>2. /\ RobTick(renamed(i), cdb0, cdb1, done, f)
      /\ RatTick(renamed(i), committed(f), recovery(f))
      /\ RegTick(renamed(i), cdb0, cdb1)
  BY DEF RenameTick
<1>3. CASE recovery(f)
  BY <1>2, <1>3, RecoverKeeps DEF RobTick, RatTick
<1>4. CASE ~recovery(f)
  <2>1. /\ Advance(renamed(i), retire_count(f), cdb0, cdb1, done)
        /\ RatAdvance(renamed(i), committed(f))
    BY <1>2, <1>4 DEF RobTick, RatTick
  <2>2. /\ RenameTypes' /\ ProgramOrder'
        /\ Moves(renamed(i), retire_count(f), cdb0, cdb1, done)
    BY <1>1, <1>2, <2>1, TypesAdvance
  <2>3. InputOK(renamed(i), cdb0, cdb1)
    BY <1>1, BundleFits
  <2>4. Chain'
    <3>1. MapsAdvance(renamed(i), f)
      BY <2>1 DEF RatAdvance, MapsAdvance
    <3> QED
      BY <1>1, <2>2, <2>3, <3>1, ChainAdvance
  <2>5. FreeListPartition'
    BY <1>1, <2>1, <2>2, <2>3, PartitionAdvance
  <2>6. ResultsAgree'
    BY <1>1, <1>2, <2>1, <2>2, <2>3, ResultsAdvance
  <2> QED
    BY <2>2, <2>4, <2>5, <2>6 DEF RenameInv
<1> QED
  BY <1>3, <1>4
-----------------------------------------------------------------------------
(***************************************************************************)
(* Precise registers.                                                      *)
(***************************************************************************)
LEMMA RetiredAt ==
  ASSUME NEW file, NEW c, Len(c) \in 0 .. 2, NEW r \in Arch
  PROVE  Retired(file, c)[r] =
           IF Len(c) = 2 /\ effective_write(c[2].uop) /\ c[2].uop.rd = r THEN c[2].value
           ELSE IF Len(c) >= 1 /\ effective_write(c[1].uop) /\ c[1].uop.rd = r THEN c[1].value
           ELSE file[r]
<1> DEFINE W == {k \in 1 .. Len(c) : effective_write(c[k].uop) /\ c[k].uop.rd = r}
<1>1. Retired(file, c)[r] = IF 2 \in W THEN c[2].value
                            ELSE IF 1 \in W THEN c[1].value ELSE file[r]
  BY DEF Retired
<1>2. /\ 2 \in W <=> Len(c) = 2 /\ effective_write(c[2].uop) /\ c[2].uop.rd = r
      /\ 1 \in W <=> Len(c) >= 1 /\ effective_write(c[1].uop) /\ c[1].uop.rd = r
  OBVIOUS
<1> HIDE DEF W
<1> QED
  BY <1>1, <1>2

LEMMA PreciseTick ==
  ASSUME RenameInv, NEW i, NEW cdb0, NEW cdb1, NEW done, NEW f,
         RenameInput(i, cdb0, cdb1, f), RenameTick(i, cdb0, cdb1, done, f)
  PROVE  regs' = Retired(regs, commit(f))
<1> DEFINE d == renamed(i)  n == retire_count(f)  c == commit(f)
           h == head_q  s == second_tag  rh == rob_q[h].uop.rd  rs == rob_q[s].uop.rd
<1>1. /\ RenameTypes /\ ProgramOrder /\ Chain /\ FreeListPartition /\ ResultsAgree
      /\ RobTypeOK /\ RatTypeOK
  BY DEF RenameInv, RenameTypes
<1>2. amt' = Written(amt, committed(f)) /\ RegTick(d, cdb0, cdb1)
  BY DEF RenameTick, RatTick, RatAdvance, RatRecover
<1>3. /\ Retires1(f) => h \in Writers /\ rh \in Arch \ {0} /\ rob_q[h].ready
      /\ Retires2(f) => s \in Writers /\ rs \in Arch \ {0} /\ rob_q[s].ready
      /\ \A r \in Arch : amt'[r] = IF r = 0 THEN 0
                                   ELSE IF Retires2(f) /\ rs = r THEN Dst(s)
                                   ELSE IF Retires1(f) /\ rh = r THEN Dst(h) ELSE amt[r]
  BY <1>1, <1>2, CommitMoves DEF WritersOf
<1>4. /\ n \in 0 .. 2 /\ Len(c) = n
      /\ n >= 1 => c[1] = rob_q[h]
      /\ n = 2 => c[2] = rob_q[s]
  <2>1. n \in 0 .. 2
    BY <1>1, RetireCountBound
  <2>2. After(head_q, 0) = head_q /\ second_tag = After(head_q, 1)
    BY <1>1, RobDepthAssumption DEF RobTypeOK, Tag, After, second_tag
  <2> QED
    BY <2>1, <2>2 DEF commit
<1>5. /\ Retires1(f) <=> n >= 1 /\ effective_write(rob_q[h].uop)
      /\ Retires2(f) <=> n = 2 /\ effective_write(rob_q[s].uop)
  BY DEF Retires1, Retires2
<1>6. /\ 0 \in Phys
      /\ \A r \in Arch : amt[r] \in Phys /\ (amt[r] = 0 <=> r = 0)
      /\ \A t \in Writers : Dst(t) \in Phys /\ Dst(t) # 0
  BY <1>1, PartitionMeans
<1>7. ASSUME NEW p \in Phys, ~Writes(cdb0, p), ~Writes(cdb1, p)
      PROVE  reg_value'[p] = reg_value[p]
  <2>1. reg_value[0] = 0
    BY <1>1 DEF RatTypeOK
  <2> QED
    BY <1>2, <1>7, <2>1, RegTickAt
<1>8. ASSUME NEW t \in Writers, rob_q[t].ready
      PROVE  reg_value'[Dst(t)] = rob_q[t].value
  <2>1. ~Writes(cdb0, Dst(t)) /\ ~Writes(cdb1, Dst(t))
    BY <1>1, <1>8, BusNames DEF RenameInput
  <2>2. reg_value[Dst(t)] = rob_q[t].value
    BY <1>1, <1>8 DEF ResultsAgree
  <2> QED
    BY <1>6, <1>7, <2>1, <2>2
<1>9. ASSUME NEW r \in Arch PROVE reg_value'[amt[r]] = reg_value[amt[r]]
  <2>1. CASE r = 0
    <3>1. reg_value[0] = 0 /\ reg_value'[0] = 0 /\ amt[r] = 0
      BY <1>1, <1>2, <1>6, <2>1, RegTypes DEF RatTypeOK
    <3> QED
      BY <3>1
  <2>2. CASE r # 0
    <3>1. ~Writes(cdb0, amt[r]) /\ ~Writes(cdb1, amt[r])
      BY <1>1, <2>2, BusNames DEF RenameInput
    <3> QED
      BY <1>6, <1>7, <3>1
  <2> QED
    BY <2>1, <2>2
<1> HIDE DEF d, n, c, h, s, rh, rs
<1>10. ASSUME NEW r \in Arch PROVE reg_value'[amt'[r]] = Retired(regs, c)[r]
  <2>1. Retired(regs, c)[r] =
          IF Len(c) = 2 /\ effective_write(c[2].uop) /\ c[2].uop.rd = r THEN c[2].value
          ELSE IF Len(c) >= 1 /\ effective_write(c[1].uop) /\ c[1].uop.rd = r THEN c[1].value
          ELSE regs[r]
    <3>1. Len(c) \in 0 .. 2
      BY <1>4
    <3> QED
      BY <3>1, RetiredAt
  <2>2. Retired(regs, c)[r] = IF Retires2(f) /\ rs = r THEN rob_q[s].value
                              ELSE IF Retires1(f) /\ rh = r THEN rob_q[h].value
                              ELSE regs[r]
    BY <1>4, <1>5, <2>1 DEF rh, rs
  <2>3. regs[r] = reg_value[amt[r]]
    BY DEF regs
  <2>4. CASE Retires2(f) /\ rs = r
    BY <1>3, <1>8, <2>2, <2>4
  <2>5. CASE ~(Retires2(f) /\ rs = r) /\ Retires1(f) /\ rh = r
    BY <1>3, <1>8, <2>2, <2>5
  <2>6. CASE ~(Retires2(f) /\ rs = r) /\ ~(Retires1(f) /\ rh = r)
    <3>1. amt'[r] = amt[r]
      BY <1>3, <1>6, <2>6
    <3> QED
      BY <1>9, <2>2, <2>3, <2>6, <3>1
  <2> QED
    BY <2>4, <2>5, <2>6
<1> QED
  BY <1>10 DEF regs, Retired, c
-----------------------------------------------------------------------------
(***************************************************************************)
(* The theorems.                                                           *)
(***************************************************************************)
LEMMA RenameInits == RenameInit => RenameInv
<1> SUFFICES ASSUME RenameInit PROVE RenameInv
  OBVIOUS
<1>1. /\ head_q = 0 /\ tail_q = 0 /\ count_q = 0 /\ next_seq_q = 0
      /\ rob_q = [t \in Tag |-> EmptyEntry]
      /\ rat_map = [r \in Arch |-> r] /\ amt = [r \in Arch |-> r]
      /\ free_mask = Phys \ Arch
      /\ reg_value = [p \in Phys |-> 0] /\ reg_ready = [p \in Phys |-> p \in Arch]
  BY DEF RenameInit, RobInit, RatInit, RegInit
<1>2. Arch \subseteq Phys /\ 0 \in Arch
  BY RegCountAssumption DEF Arch, Phys
<1>3. RobTypeOK
  BY <1>1, RobDepthAssumption, ZeroAssumption, UopAssumption
     DEF RobTypeOK, EmptyEntry, Entry, Tag
<1>4. ProgramOrder
  BY <1>1, RobDepthAssumption DEF ProgramOrder, EmptyEntry, Tag, Position, After
<1>5. \A t \in Tag : ~rob_q[t].valid
  BY <1>1 DEF EmptyEntry
<1>6. Writers = {} /\ \A r : WritersOf(r) = {}
  BY <1>5 DEF Writers, WritersOf
<1>7. RenameTypes
  BY <1>1, <1>2, <1>3, <1>5 DEF RenameTypes, RatTypeOK, UopsOK
<1>8. Chain
  BY <1>1, <1>6 DEF Chain, Names, NoneBefore
<1>9. FreeListPartition
  <2>1. Mapped = Arch
    BY <1>1 DEF Mapped
  <2> QED
    BY <1>1, <1>2, <1>6, <2>1 DEF FreeListPartition
<1>10. ResultsAgree
  BY <1>1, <1>2, <1>6 DEF ResultsAgree
<1> QED
  BY <1>4, <1>7, <1>8, <1>9, <1>10 DEF RenameInv

\* The environment of this module is one that the lemmas allow.
LEMMA RenameNextCases ==
  ASSUME RenameInv, RenameNext
  PROVE  \E i, cdb0, cdb1, done : /\ RenameInput(i, cdb0, cdb1, FALSE)
                                  /\ RenameTick(i, cdb0, cdb1, done, FALSE)
<1>1. PICK i \in Bundle, cdb0 \in {BusSilence} \cup BusMsg, cdb1 \in {BusSilence} \cup BusMsg,
           done \in {{}} \cup {{t} : t \in Waiting({"store"})} :
             /\ recovery(FALSE) => i = <<>> /\ ~cdb0.valid /\ ~cdb1.valid
             /\ RenameTick(i, cdb0, cdb1, done, FALSE)
  BY DEF RenameNext
<1>2. i \in Seq(Decoded) /\ Len(i) \in 0 .. 2
  <2>1. CASE i = <<>>
    BY <2>1
  <2>2. CASE i \in {<<a>> : a \in Decoded}
    <3>1. PICK a \in Decoded : i = <<a>>
      BY <2>2
    <3> QED
      BY <3>1
  <2>3. CASE i \in {<<a, b>> : a, b \in Decoded}
    <3>1. PICK a \in Decoded, b \in Decoded : i = <<a, b>>
      BY <2>3
    <3> QED
      BY <3>1
  <2> QED
    BY <2>1, <2>2, <2>3 DEF Bundle
<1>3. Len(i) <= rob_free_count /\ phys_need(i) <= Cardinality(free_mask)
  BY DEF Bundle
<1>4. ASSUME NEW m \in {BusSilence} \cup BusMsg PROVE BusOK(m)
  <2>1. CASE m = BusSilence
    BY <2>1 DEF BusSilence, BusOK, LaneOK
  <2>2. CASE m \in BusMsg
    <3>1. PICK b \in Broadcast :
            m = [valid |-> TRUE, tag |-> b.tag, value |-> b.value, control |-> b.control,
                 target |-> b.target, mispredict |-> b.mispredict,
                 writes |-> rob_q[b.tag].uop.writes, pdst |-> rob_q[b.tag].uop.pdst]
      BY <2>2 DEF BusMsg
    <3>2. b \in CdbMsg /\ b.tag \in Tag /\ rob_q[b.tag].valid /\ ~rob_q[b.tag].ready
      BY DEF Broadcast, Waiting, InFlight
    <3> QED
      BY <3>1, <3>2 DEF BusOK, LaneOK, CdbMsg
  <2> QED
    BY <2>1, <2>2
<1>5. RenameInput(i, cdb0, cdb1, FALSE)
  BY <1>1, <1>2, <1>3, <1>4 DEF RenameInput
<1> QED
  BY <1>1, <1>5

\* The invariant is inductive.
LEMMA RenameInvStep == RenameInv /\ [RenameNext]_renameVars => RenameInv'
<1>1. ASSUME RenameInv, RenameNext PROVE RenameInv'
  <2>1. PICK i, cdb0, cdb1, done : /\ RenameInput(i, cdb0, cdb1, FALSE)
                                   /\ RenameTick(i, cdb0, cdb1, done, FALSE)
    BY <1>1, RenameNextCases
  <2> QED
    BY <1>1, <2>1, RenameStep
<1>2. ASSUME RenameInv, UNCHANGED renameVars PROVE RenameInv'
  BY <1>2 DEF renameVars, robVars, ratVars, regVars, RenameInv, RenameTypes, RobTypeOK, RatTypeOK,
     UopsOK, UopOK, ProgramOrder, Position, Chain, Names, NoneBefore, Youngest, WritersOf,
     Writers, Dst, Mapped, FreeListPartition, ResultsAgree, effective_write
<1> QED
  BY <1>1, <1>2

LEMMA RenameInvariant == RenameSpec => []RenameInv
BY RenameInits, RenameInvStep, PTL DEF RenameSpec

\* No physical register is lost and none is in two places: each is free, committed,
\* or the destination of one instruction in flight, for any number of registers,
\* through dual allocation, dual retirement and recovery.
THEOREM RegistersNeverLeak == RenameSpec => []FreeListPartition
<1>1. RenameInv => FreeListPartition
  BY DEF RenameInv
<1> QED
  BY <1>1, RenameInvariant, PTL

\* The speculative map names the youngest producer in flight of every register, and
\* what an instruction releases when it retires is the mapping it hid.
THEOREM MapsNameProducers == RenameSpec => []RenameChain
<1>1. RenameInv => RenameChain
  BY ChainIs DEF RenameInv
<1> QED
  BY <1>1, RenameInvariant, PTL

\* Register file and reorder buffer never disagree about what has completed, nor
\* about the result.
THEOREM ResultsAlwaysAgree == RenameSpec => []ResultsAgree
<1>1. RenameInv => ResultsAgree
  BY DEF RenameInv
<1> QED
  BY <1>1, RenameInvariant, PTL

\* The architectural registers change only by the results of the instructions that
\* retire, in program order, whatever is written speculatively, recycled or rebuilt.
THEOREM RegistersArePrecise == RenameSpec => PreciseRegisters
<1>1. RenameInv /\ [RenameNext]_renameVars => [regs' = Retired(regs, commit(FALSE))]_renameVars
  <2> SUFFICES ASSUME RenameInv, RenameNext PROVE regs' = Retired(regs, commit(FALSE))
    OBVIOUS
  <2>1. PICK i, cdb0, cdb1, done : /\ RenameInput(i, cdb0, cdb1, FALSE)
                                   /\ RenameTick(i, cdb0, cdb1, done, FALSE)
    BY RenameNextCases
  <2> QED
    BY <2>1, PreciseTick
<1> QED
  BY <1>1, RenameInvariant, PTL DEF RenameSpec, PreciseRegisters
=============================================================================

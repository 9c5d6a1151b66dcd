----------------------------- MODULE LsqProofs ------------------------------
(***************************************************************************)
(* The load/store queue, for every depth, every window and every latency:  *)
(* its answers are its own, its results belong to instructions in flight,  *)
(* and memory performs the accesses in program order.                      *)
(*                                                                         *)
(* The argument: a request keeps the entry it was made from, which is the  *)
(* oldest one (and heads the window, if it is a store), until its answer   *)
(* removes the entry; so a result on offer has no entry any more, and      *)
(* tags, taken from a window no longer than their range, name instructions *)
(* uniquely.                                                               *)
(***************************************************************************)
EXTENDS LsqUnit, FiniteSetTheorems, WellFoundedInduction, TLAPS

Instr == [seq : Nat, kind : Kind, done : BOOLEAN]
Entry == [valid : {TRUE}, is_store : BOOLEAN, addr_valid : BOOLEAN, issued : BOOLEAN,
          seq : Nat, rob : Nat, pdst : {0}, writes : BOOLEAN, addr : {0}, wdata : {0}]
Request == [pending : BOOLEAN, busy : BOOLEAN, write : BOOLEAN, index : LsqIndex,
            addr : {0}, wdata : {0}, rob : Nat, pdst : {0}, writes : BOOLEAN]

LsqTypeOK ==
  /\ lsq_q \in [LsqIndex -> {LsqFree} \cup Entry]
  /\ req_q \in Request
  /\ drop_q \in [active : BOOLEAN, write : BOOLEAN]
  /\ load_q \in [valid : BOOLEAN, rob : Nat, pdst : {0}, writes : BOOLEAN, value : {0}]
  /\ store_q \in [valid : BOOLEAN, rob : Nat]
  /\ window \in Seq(Instr)
  /\ next_seq \in Nat
  /\ dm \in [busy : BOOLEAN, write : BOOLEAN, seq : Nat]
  /\ performed \in Seq(Nat)

\* The youngest access performed; sequence numbers start at one.
last_performed == IF performed = <<>> THEN 0 ELSE performed[Len(performed)]

Used == {i \in LsqIndex : lsq_q[i].valid}
KindOf(e) == IF e.is_store THEN "store" ELSE "load"
Requesting == req_q.pending \/ req_q.busy

\* An instruction in flight that has not completed, and the oldest one.
InFlight(s, kind) ==
  \E k \in 1 .. Len(window) :
    window[k].seq = s /\ window[k].kind = kind /\ ~window[k].done
AtHead(s) == window # <<>> /\ window[1].seq = s

\* The window holds consecutive instructions, no more than there are tags.
WindowOK ==
  /\ Len(window) <= WINDOW /\ Len(window) < next_seq
  /\ \A k \in 1 .. Len(window) : window[k].seq = next_seq - Len(window) + k - 1

\* An entry is there for an access that memory has still to perform.
EntriesOK ==
  /\ \A i \in Used : /\ lsq_q[i].rob = TagOf(lsq_q[i].seq)
                     /\ InFlight(lsq_q[i].seq, KindOf(lsq_q[i]))
                     /\ last_performed < lsq_q[i].seq
  /\ \A i, j \in Used : lsq_q[i].seq = lsq_q[j].seq => i = j

\* A request is for the oldest entry, a write for the oldest instruction.
RequestOK ==
  /\ ~(req_q.pending /\ req_q.busy)
  /\ Requesting =>
       /\ req_q.index \in Used
       /\ req_q.write = lsq_q[req_q.index].is_store
       /\ req_q.rob = lsq_q[req_q.index].rob
       /\ req_q.write => AtHead(lsq_q[req_q.index].seq)
       /\ \A i \in Used : lsq_q[req_q.index].seq <= lsq_q[i].seq
       /\ ~load_q.valid /\ ~store_q.valid

\* The access under way comes after those performed, before those to come.
MemoryOK ==
  /\ MemoryInProgramOrder
  /\ last_performed < next_seq
  /\ dm.busy => last_performed < dm.seq /\ dm.seq < next_seq
  /\ drop_q.active => \A i \in Used : dm.seq < lsq_q[i].seq

\* A result is for an instruction in flight whose entry is gone.
ResultOK ==
  /\ load_q.valid =>
       /\ ~store_q.valid
       /\ \E s \in Nat : /\ InFlight(s, "load") /\ load_q.rob = TagOf(s)
                         /\ \A i \in Used : lsq_q[i].seq # s
  /\ store_q.valid =>
       \E s \in Nat : /\ AtHead(s) /\ InFlight(s, "store") /\ store_q.rob = TagOf(s)
                      /\ \A i \in Used : lsq_q[i].seq # s

IInv ==
  /\ LsqTypeOK /\ WindowOK /\ EntriesOK /\ RequestOK
  /\ ResponsePaired /\ MemoryOK /\ ResultOK
-----------------------------------------------------------------------------
(***************************************************************************)
(* Tags and free entries.                                                  *)
(***************************************************************************)
\* A tag is a number.
LEMMA TagType == ASSUME NEW s \in Nat PROVE TagOf(s) \in Nat
BY WindowAssumption DEF TagOf

\* Within a window's length a tag names one instruction.
LEMMA TagNames ==
  ASSUME NEW x \in Nat, NEW y \in Nat, TagOf(x) = TagOf(y), x <= y, y - x < WINDOW
  PROVE  x = y
<1>1. WINDOW \in Nat /\ WINDOW > 0
  BY WindowAssumption
<1>2. /\ (x \div WINDOW) * WINDOW + (x % WINDOW) = x /\ x \div WINDOW \in Nat
      /\ (y \div WINDOW) * WINDOW + (y % WINDOW) = y /\ y \div WINDOW \in Nat
      /\ x % WINDOW \in Nat /\ y % WINDOW \in Nat
  BY <1>1
<1>3. PICK p \in Nat, q \in Nat, r \in Nat :
        p * WINDOW + r = x /\ q * WINDOW + r = y
  BY <1>2 DEF TagOf
<1>4. PICK d \in Int : d = q - p
  BY <1>3
<1>5. d * WINDOW = y - x
  BY <1>1, <1>3, <1>4
<1>6. ~(d >= 1)
  <2> SUFFICES ASSUME d >= 1 PROVE FALSE
    OBVIOUS
  <2>1. d * WINDOW >= WINDOW
    BY <1>1
  <2> QED
    BY <2>1, <1>1, <1>5
<1>7. ~(d <= -1)
  <2> SUFFICES ASSUME d <= -1 PROVE FALSE
    OBVIOUS
  <2>1. d * WINDOW <= -WINDOW
    BY <1>1
  <2> QED
    BY <2>1, <1>1, <1>5
<1>8. d = 0
  BY <1>6, <1>7
<1>9. d * WINDOW = 0
  BY <1>1, <1>8
<1> QED
  BY <1>5, <1>9

\* The lowest index of a set that has one.
LEMMA LowestIn ==
  ASSUME NEW S \in SUBSET LsqIndex, S # {}
  PROVE  MinOf(S) \in S
<1> DEFINE R == OpToRel(<, Nat)
<1>1. S \subseteq Nat
  BY LsqDepthAssumption DEF LsqIndex
<1>2. \E x \in S : \A y \in S : ~(<<y, x>> \in R)
  <2>1. IsWellFoundedOn(R, Nat)
    BY NatLessThanWellFounded
  <2> HIDE DEF R
  <2> QED
    BY <1>1, <2>1, WFMin
<1>3. R = {ss \in Nat \X Nat : ss[1] < ss[2]}
  BY DEF OpToRel
<1> HIDE DEF R
<1>4. \A x, y \in S : <<y, x>> \in R <=> y < x
  BY <1>1, <1>3
<1>5. \E x \in S : \A y \in S : x <= y
  <2>1. PICK x \in S : \A y \in S : ~(<<y, x>> \in R)
    BY <1>2
  <2>2. \A y \in S : ~(y < x)
    BY <2>1, <1>4
  <2>3. \A y \in S : x <= y
    BY <2>2, <1>1
  <2> QED
    BY <2>3
<1> QED
  BY <1>5 DEF MinOf

\* The two indices dispatch may use are free when there are as many.
LEMMA FreeIndices ==
  /\ lsq_free # {} => first_free_index \in lsq_free
  /\ Cardinality(lsq_free) >= 2 => second_free_index \in lsq_free
<1>1. lsq_free \in SUBSET LsqIndex
  BY DEF lsq_free
<1>2. lsq_free # {} => first_free_index \in lsq_free
  BY <1>1, LowestIn DEF first_free_index
<1>3. ASSUME Cardinality(lsq_free) >= 2 PROVE second_free_index \in lsq_free
  <2>1. lsq_free # {first_free_index}
    <3>1. Cardinality({first_free_index}) = 1
      BY FS_Singleton
    <3> QED
      BY <3>1, <1>3
  <2>2. lsq_free # {}
    BY <1>3, FS_EmptySet
  <2>3. lsq_free \ {first_free_index} # {}
    BY <2>1, <2>2
  <2> QED
    BY <2>3, <1>1, LowestIn DEF second_free_index
<1> QED
  BY <1>2, <1>3

\* What is dispatched together: at most two kinds, and room for both.
LEMMA DispatchIs ==
  ASSUME NEW ks \in UnitDispatch, LsqTypeOK, WindowOK
  PROVE  /\ ks \in Seq(Kind) /\ Len(ks) \in 0 .. 2
         /\ Len(window) + Len(ks) <= WINDOW
         /\ \A k \in 1 .. Len(ks) : ks[k] # "barrier" => UnitIndex(ks, k) \in lsq_free
<1>1. ks \in Seq(Kind) /\ Len(ks) \in 0 .. 2 /\ Len(window) + Len(ks) <= WINDOW
  <2>1. /\ ks \in {<<>>} \cup {<<a>> : a \in Kind} \cup {<<a, b>> : a, b \in Kind}
        /\ Len(window) + Len(ks) <= WINDOW
    BY DEF UnitDispatch
  <2>2. CASE ks = <<>>
    BY <2>1, <2>2
  <2>3. CASE \E a \in Kind : ks = <<a>>
    BY <2>1, <2>3
  <2>4. CASE \E a, b \in Kind : ks = <<a, b>>
    BY <2>1, <2>4
  <2> QED
    BY <2>1, <2>2, <2>3, <2>4
<1> DEFINE K == {k \in 1 .. Len(ks) : ks[k] # "barrier"}
<1>2. Cardinality(K) <= Cardinality(lsq_free)
  BY DEF UnitDispatch
<1>3. IsFiniteSet(lsq_free) /\ IsFiniteSet(K)
  <2>1. IsFiniteSet(LsqIndex) /\ IsFiniteSet(1 .. Len(ks))
    BY <1>1, LsqDepthAssumption, FS_Interval DEF LsqIndex
  <2> QED
    BY <2>1, FS_Subset DEF lsq_free
<1>4. Cardinality(lsq_free) \in Nat /\ Cardinality(K) \in Nat
  BY <1>3, FS_CardinalityType
<1>5. ASSUME NEW k \in 1 .. Len(ks), ks[k] # "barrier"
      PROVE  UnitIndex(ks, k) \in lsq_free
  <2>1. CASE k = 2 /\ ks[1] # "barrier"
    <3>1. K = {1} \cup {2}
      BY <1>1, <1>5, <2>1
    <3>2. Cardinality({1} \cup {2}) = 2
      <4>1. Cardinality({1}) = 1 /\ IsFiniteSet({1})
        BY FS_Singleton
      <4>2. Cardinality({1} \cup {2}) = Cardinality({1}) + 1
        <5>1. 2 \notin {1}
          OBVIOUS
        <5> QED
          BY <4>1, <5>1, FS_AddElement, Zenon
      <4>3. Cardinality({1}) + 1 = 2
        BY <4>1
      <4> QED
        BY <4>2, <4>3, Zenon
    <3> QED
      BY <3>1, <3>2, <1>2, <1>4, <2>1, FreeIndices DEF UnitIndex
  <2>2. CASE ~(k = 2 /\ ks[1] # "barrier")
    <3>1. K # {}
      BY <1>5
    <3>2. Cardinality(K) # 0
      BY <3>1, <1>3, FS_EmptySet
    <3>3. lsq_free # {}
      BY <3>2, <1>2, <1>4, FS_EmptySet
    <3> QED
      BY <3>3, <2>2, FreeIndices DEF UnitIndex
  <2> QED
    BY <2>1, <2>2
<1> QED
  BY <1>1, <1>5
-----------------------------------------------------------------------------
(***************************************************************************)
(* One clock edge without a flush, with its wires evaluated: a request is  *)
(* taken when memory accepts it, and an answer reaches the request under   *)
(* way or the access that was flushed.                                     *)
(***************************************************************************)
Inputs(ks, accept, answer, agu, grant, resolve) ==
  /\ ks \in UnitDispatch /\ agu \in UnitAgu
  /\ accept \in BOOLEAN /\ answer \in BOOLEAN /\ grant \in BOOLEAN /\ resolve \in BOOLEAN
  /\ grant => load_q.valid
  /\ accept => ~dm.busy /\ req_q.pending
  /\ answer => dm.busy \/ accept

Answered(accept, answer) == answer /\ (req_q.busy \/ accept)
Candidate == candidate(UnitHead, Barriers, FALSE)

Fresh(ks) == [k \in 1 .. Len(ks) |-> [seq |-> next_seq + k - 1, kind |-> ks[k], done |-> FALSE]]

EdgeEntries(ks, accept, answer, agu) ==
  lsq_q' = [i \in LsqIndex |->
    IF Answered(accept, answer) /\ i = req_q.index THEN LsqFree
    ELSE IF i \in DOMAIN UnitNew(ks) THEN UnitNew(ks)[i]
    ELSE IF accept /\ i = req_q.index THEN [lsq_q[i] EXCEPT !.issued = TRUE]
    ELSE IF agu.valid /\ i = agu.index /\ lsq_q[i].valid
         THEN [lsq_q[i] EXCEPT !.addr_valid = TRUE, !.addr = agu.addr, !.wdata = agu.wdata]
    ELSE lsq_q[i]]

EdgeRequest(accept, answer) ==
  req_q' =
    IF Candidate # {}
    THEN LET i == CHOOSE j \in Candidate : TRUE
         IN [pending |-> TRUE, busy |-> FALSE, write |-> lsq_q[i].is_store,
             index |-> i, addr |-> lsq_q[i].addr, wdata |-> lsq_q[i].wdata,
             rob |-> lsq_q[i].rob, pdst |-> lsq_q[i].pdst, writes |-> lsq_q[i].writes]
    ELSE IF Answered(accept, answer) THEN NoRequest
    ELSE IF accept THEN [req_q EXCEPT !.pending = FALSE, !.busy = TRUE]
    ELSE req_q

EdgeResults(accept, answer, grant) ==
  /\ drop_q' = IF drop_q.active /\ answer THEN NoDrop ELSE drop_q
  /\ load_q' =
       IF Answered(accept, answer) /\ ~req_q.write
       THEN [valid |-> TRUE, rob |-> req_q.rob, pdst |-> req_q.pdst,
             writes |-> req_q.writes, value |-> 0]
       ELSE IF grant THEN NoLoad ELSE load_q
  /\ store_q' = IF Answered(accept, answer) /\ req_q.write
                THEN [valid |-> TRUE, rob |-> req_q.rob] ELSE NoStore

EdgeWindow(ks, grant, resolve) ==
  /\ window' = Retire(Marked(grant, resolve)) \o Fresh(ks)
  /\ next_seq' = next_seq + Len(ks)

EdgeMemory(accept, answer) ==
  /\ dm' = IF answer THEN DmFree ELSE UnitServing(accept)
  /\ performed' = IF answer THEN Append(performed, UnitServing(accept).seq) ELSE performed

Edge(ks, accept, answer, agu, grant, resolve) ==
  /\ EdgeEntries(ks, accept, answer, agu)
  /\ EdgeRequest(accept, answer)
  /\ EdgeResults(accept, answer, grant)
  /\ EdgeWindow(ks, grant, resolve)
  /\ EdgeMemory(accept, answer)

\* Without a flush the clock edge is the one above.
LEMMA TickIsEdge ==
  ASSUME LsqTypeOK, RequestOK, ResponsePaired,
         NEW ks, NEW accept, NEW answer, NEW agu, NEW grant, NEW resolve,
         Inputs(ks, accept, answer, agu, grant, resolve),
         UnitTick(ks, FALSE, accept, answer, agu, grant, resolve)
  PROVE  Edge(ks, accept, answer, agu, grant, resolve)
<1> DEFINE io == [rready |-> accept, wready |-> accept,
                  rresp |-> answer /\ ~UnitServing(accept).write,
                  wresp |-> answer /\ UnitServing(accept).write, rdata |-> 0]
<1>1. /\ req_q.pending \in BOOLEAN /\ req_q.busy \in BOOLEAN /\ req_q.write \in BOOLEAN
      /\ drop_q.active \in BOOLEAN /\ drop_q.write \in BOOLEAN
      /\ dm.write \in BOOLEAN /\ dm.busy \in BOOLEAN
  BY DEF LsqTypeOK, Request
<1>2. /\ accept \in BOOLEAN /\ answer \in BOOLEAN
      /\ accept => ~dm.busy /\ req_q.pending
      /\ answer => dm.busy \/ accept
  BY DEF Inputs
<1>3. UnitServing(accept).write = IF accept THEN req_q.write ELSE dm.write
  BY DEF UnitServing
<1>4. request_fire(io, FALSE) = accept
  BY <1>1, <1>2 DEF request_fire, rvalid, wvalid
<1>5. ((req_q.busy \/ request_fire(io, FALSE)) /\ active_response(io)) = Answered(accept, answer)
  <2>1. req_q.busy => dm.busy /\ dm.write = req_q.write
    BY DEF ResponsePaired
  <2>2. active_response(io) = (answer /\ UnitServing(accept).write = req_q.write)
    BY <1>1, <1>2, <1>3 DEF active_response, response_for
  <2> QED
    BY <1>1, <1>2, <1>3, <1>4, <2>1, <2>2 DEF Answered
<1>6. (drop_q.active /\ response_for(drop_q.write, io)) = (drop_q.active /\ answer)
  <2>1. drop_q.active => dm.busy /\ dm.write = drop_q.write
    BY DEF ResponsePaired
  <2> QED
    BY <1>1, <1>2, <1>3, <2>1 DEF response_for
<1>7. LsqAdvance(UnitNew(ks), agu, Candidate, io, grant)
  BY DEF UnitTick, LsqTick, Candidate
<1>8. io.rdata = 0
  OBVIOUS
<1> HIDE DEF io
<1>9. EdgeEntries(ks, accept, answer, agu)
  BY <1>4, <1>5, <1>7 DEF EdgeEntries, LsqAdvance
<1>10. EdgeRequest(accept, answer)
  BY <1>4, <1>5, <1>7 DEF EdgeRequest, LsqAdvance
<1>11. EdgeResults(accept, answer, grant)
  BY <1>4, <1>5, <1>6, <1>7, <1>8 DEF EdgeResults, LsqAdvance
<1>12. EdgeWindow(ks, grant, resolve) /\ EdgeMemory(accept, answer)
  BY DEF UnitTick, EdgeWindow, EdgeMemory, Fresh
<1> QED
  BY <1>9, <1>10, <1>11, <1>12 DEF Edge

\* What dispatch writes: fields of a new instruction, in a free entry.
NewAt(ks, i, e) ==
  /\ i \notin Used
  /\ \E k \in 1 .. Len(ks) :
       /\ ks[k] # "barrier" /\ i = UnitIndex(ks, k)
       /\ e = LsqEntry(ks[k] = "store", next_seq + k - 1, TagOf(next_seq + k - 1), 0, ks[k] = "load")

\* Dispatch writes free entries only, each for one instruction of the cycle.
LEMMA NewEntries ==
  ASSUME NEW ks \in UnitDispatch, LsqTypeOK, WindowOK, NEW i \in DOMAIN UnitNew(ks)
  PROVE  i \in LsqIndex /\ NewAt(ks, i, UnitNew(ks)[i])
<1> DEFINE K == {k \in 1 .. Len(ks) : ks[k] # "barrier"}
           k == CHOOSE j \in K : UnitIndex(ks, j) = i
<1>1. \E j \in K : UnitIndex(ks, j) = i
  BY DEF UnitNew
<1>2. k \in K /\ UnitIndex(ks, k) = i
  BY <1>1
<1>3. UnitNew(ks)[i] = LsqEntry(ks[k] = "store", next_seq + k - 1, TagOf(next_seq + k - 1), 0,
                                ks[k] = "load")
  BY DEF UnitNew
<1>4. i \in lsq_free
  BY <1>2, DispatchIs
<1> HIDE DEF k
<1> QED
  BY <1>2, <1>3, <1>4 DEF NewAt, Used, lsq_free

\* What a new entry says, field by field.
LEMMA NewFields ==
  ASSUME NEW ks \in UnitDispatch, LsqTypeOK, WindowOK, NEW i, NEW e, NewAt(ks, i, e)
  PROVE  /\ e \in Entry /\ i \notin Used
         /\ \E k \in 1 .. Len(ks) :
              /\ ks[k] # "barrier" /\ i = UnitIndex(ks, k)
              /\ e.seq = next_seq + k - 1 /\ e.rob = TagOf(e.seq) /\ KindOf(e) = ks[k]
<1>1. ks \in Seq(Kind) /\ next_seq \in Nat
  BY DispatchIs DEF LsqTypeOK
<1>2. PICK k \in 1 .. Len(ks) :
       /\ ks[k] # "barrier" /\ i = UnitIndex(ks, k)
       /\ e = LsqEntry(ks[k] = "store", next_seq + k - 1, TagOf(next_seq + k - 1), 0, ks[k] = "load")
  BY DEF NewAt
<1>3. next_seq + k - 1 \in Nat
  BY <1>1
<1>4. TagOf(next_seq + k - 1) \in Nat
  BY <1>3, TagType
<1>5. ks[k] \in {"load", "store"}
  BY <1>1, <1>2 DEF Kind
<1>6. e \in Entry
  BY <1>2, <1>3, <1>4 DEF LsqEntry, Entry
<1>7. e.seq = next_seq + k - 1 /\ e.rob = TagOf(e.seq) /\ KindOf(e) = ks[k]
  BY <1>2, <1>5 DEF LsqEntry, KindOf
<1> QED
  BY <1>2, <1>6, <1>7 DEF NewAt

\* Entry i is still there and says what it said.
Stayed(i, accept, answer) ==
  /\ i \in Used /\ ~(Answered(accept, answer) /\ i = req_q.index)
  /\ lsq_q'[i].seq = lsq_q[i].seq
  /\ lsq_q'[i].rob = lsq_q[i].rob
  /\ lsq_q'[i].is_store = lsq_q[i].is_store

\* After the edge an entry is one that stayed or a new one.
LEMMA EntryStep ==
  ASSUME LsqTypeOK, WindowOK, RequestOK,
         NEW ks, NEW accept, NEW answer, NEW agu, NEW grant, NEW resolve,
         Inputs(ks, accept, answer, agu, grant, resolve),
         EdgeEntries(ks, accept, answer, agu)
  PROVE  /\ lsq_q' \in [LsqIndex -> {LsqFree} \cup Entry]
         /\ \A i \in Used : \/ Answered(accept, answer) /\ i = req_q.index
                            \/ i \in Used' /\ Stayed(i, accept, answer)
         /\ \A i \in Used' : Stayed(i, accept, answer) \/ NewAt(ks, i, lsq_q'[i])
<1>1. ks \in UnitDispatch /\ agu \in UnitAgu /\ (accept => Requesting)
  BY DEF Inputs, Requesting
<1>2. accept => req_q.index \in Used
  BY <1>1 DEF RequestOK
<1>3. lsq_q \in [LsqIndex -> {LsqFree} \cup Entry]
  BY DEF LsqTypeOK
<1>4. ASSUME NEW i \in LsqIndex
      PROVE  \/ /\ i \in Used /\ Answered(accept, answer) /\ i = req_q.index
                /\ lsq_q'[i] = LsqFree
             \/ i \notin Used /\ lsq_q'[i] = LsqFree
             \/ Stayed(i, accept, answer) /\ lsq_q'[i] \in Entry
             \/ NewAt(ks, i, lsq_q'[i]) /\ lsq_q'[i] \in Entry
  <2>1. lsq_q[i] \in {LsqFree} \cup Entry
    BY <1>3
  <2>2. CASE i \notin Used /\ i \in DOMAIN UnitNew(ks) /\ ~(Answered(accept, answer) /\ i = req_q.index)
    <3>1. lsq_q'[i] = UnitNew(ks)[i]
      BY <2>2 DEF EdgeEntries
    <3>2. NewAt(ks, i, lsq_q'[i])
      BY <1>1, <2>2, <3>1, NewEntries
    <3> QED
      BY <1>1, <3>2, NewFields
  <2>3. CASE Answered(accept, answer) /\ i = req_q.index
    <3>1. lsq_q'[i] = LsqFree
      BY <2>3 DEF EdgeEntries
    <3> QED
      BY <2>3, <3>1
  <2>4. CASE i \notin Used /\ i \notin DOMAIN UnitNew(ks) /\ ~(Answered(accept, answer) /\ i = req_q.index)
    <3>1. ~lsq_q[i].valid
      BY <2>4 DEF Used
    <3>2. lsq_q'[i] = lsq_q[i]
      BY <1>2, <2>4, <3>1 DEF EdgeEntries
    <3>3. lsq_q[i] = LsqFree
      BY <2>1, <3>1 DEF Entry
    <3> QED
      BY <2>4, <3>2, <3>3
  <2>5. CASE i \in Used /\ ~(Answered(accept, answer) /\ i = req_q.index)
    <3>1. i \notin DOMAIN UnitNew(ks)
      BY <1>1, <2>5, NewEntries DEF NewAt
    <3>2. lsq_q[i] \in Entry
      BY <2>1, <2>5 DEF Used, LsqFree
    <3>3. lsq_q'[i] = IF accept /\ i = req_q.index THEN [lsq_q[i] EXCEPT !.issued = TRUE]
            ELSE IF agu.valid /\ i = agu.index /\ lsq_q[i].valid
                 THEN [lsq_q[i] EXCEPT !.addr_valid = TRUE, !.addr = agu.addr, !.wdata = agu.wdata]
            ELSE lsq_q[i]
      BY <2>5, <3>1 DEF EdgeEntries
    <3>4. agu.valid => agu.addr = 0 /\ agu.wdata = 0
      BY <1>1 DEF UnitAgu
    <3>5. /\ lsq_q'[i] \in Entry
          /\ lsq_q'[i].seq = lsq_q[i].seq
          /\ lsq_q'[i].rob = lsq_q[i].rob
          /\ lsq_q'[i].is_store = lsq_q[i].is_store
      <4>1. CASE accept /\ i = req_q.index
        <5>1. lsq_q'[i] = [lsq_q[i] EXCEPT !.issued = TRUE]
          BY <3>3, <4>1
        <5> QED
          BY <5>1, <3>2 DEF Entry
      <4>2. CASE ~(accept /\ i = req_q.index) /\ agu.valid /\ i = agu.index /\ lsq_q[i].valid
        <5>1. lsq_q'[i] = [lsq_q[i] EXCEPT !.addr_valid = TRUE, !.addr = 0, !.wdata = 0]
          BY <3>3, <3>4, <4>2
        <5> QED
          BY <5>1, <3>2 DEF Entry
      <4>3. CASE lsq_q'[i] = lsq_q[i]
        BY <4>3, <3>2
      <4> QED
        BY <3>3, <4>1, <4>2, <4>3
    <3> QED
      BY <2>5, <3>5 DEF Stayed
  <2> QED
    BY <2>2, <2>3, <2>4, <2>5
<1>5. lsq_q' \in [LsqIndex -> {LsqFree} \cup Entry]
  BY <1>4 DEF EdgeEntries
<1>6. ~LsqFree.valid /\ \A e \in Entry : e.valid
  BY DEF LsqFree, Entry
<1>7. ASSUME NEW i \in Used
      PROVE  \/ Answered(accept, answer) /\ i = req_q.index
             \/ i \in Used' /\ Stayed(i, accept, answer)
  BY <1>4, <1>6 DEF Used, NewAt
<1>8. ASSUME NEW i \in Used'
      PROVE  Stayed(i, accept, answer) \/ NewAt(ks, i, lsq_q'[i])
  BY <1>4, <1>6 DEF Used
<1> QED
  BY <1>5, <1>7, <1>8
-----------------------------------------------------------------------------
(***************************************************************************)
(* The window moves on: what has not completed stays, and the oldest stays *)
(* the oldest until it has.                                                *)
(***************************************************************************)
\* No result of this cycle is for instruction s.
Unmarked(s, grant) ==
  /\ ~(store_q.valid /\ store_q.rob = TagOf(s))
  /\ ~(load_q.valid /\ grant /\ load_q.rob = TagOf(s))

\* What Tail returns, element by element.
LEMMA TailIs ==
  ASSUME NEW S, NEW a \in Seq(S), Len(a) >= 1
  PROVE  /\ Tail(a) \in Seq(S) /\ Len(Tail(a)) = Len(a) - 1
         /\ \A k \in 1 .. Len(a) - 1 : Tail(a)[k] = a[k + 1]
OBVIOUS

\* What \o returns, element by element.
LEMMA ConcatIs ==
  ASSUME NEW S, NEW a \in Seq(S), NEW b \in Seq(S), NEW c, c = a \o b
  PROVE  /\ c \in Seq(S) /\ Len(c) = Len(a) + Len(b)
         /\ \A k \in 1 .. Len(a) : c[k] = a[k]
         /\ \A k \in 1 .. Len(b) : c[Len(a) + k] = b[k]
OBVIOUS

\* Marking changes nothing but done, and only where a result or a resolution is.
LEMMA MarkedIs ==
  ASSUME LsqTypeOK, NEW grant, NEW resolve, NEW m, m = Marked(grant, resolve)
  PROVE  /\ m \in Seq(Instr) /\ Len(m) = Len(window)
         /\ \A k \in 1 .. Len(window) :
              /\ m[k].seq = window[k].seq /\ m[k].kind = window[k].kind
              /\ window[k].kind # "barrier" /\ Unmarked(window[k].seq, grant) => m[k] = window[k]
<1>1. window \in Seq(Instr) /\ Len(window) \in Nat
  BY DEF LsqTypeOK
<1>2. ASSUME NEW k \in 1 .. Len(window)
      PROVE  /\ m[k] \in Instr
             /\ m[k].seq = window[k].seq /\ m[k].kind = window[k].kind
             /\ window[k].kind # "barrier" /\ Unmarked(window[k].seq, grant) => m[k] = window[k]
  <2>1. window[k] \in Instr
    BY <1>1
  <2>2. m[k] = window[k] \/ m[k] = [window[k] EXCEPT !.done = TRUE]
    BY DEF Marked
  <2>3. window[k].kind # "barrier" /\ Unmarked(window[k].seq, grant) => m[k] = window[k]
    BY DEF Marked, Unmarked
  <2> QED
    BY <2>1, <2>2, <2>3 DEF Instr
<1>3. m = [k \in 1 .. Len(window) |-> m[k]]
  BY DEF Marked
<1> QED
  BY <1>1, <1>2, <1>3

\* Instructions that get no result stay, in their order; the new ones follow.
LEMMA WindowStep ==
  ASSUME LsqTypeOK, WindowOK,
         NEW ks, NEW accept, NEW answer, NEW agu, NEW grant, NEW resolve,
         Inputs(ks, accept, answer, agu, grant, resolve),
         EdgeWindow(ks, grant, resolve)
  PROVE  /\ window' \in Seq(Instr) /\ next_seq' \in Nat /\ next_seq <= next_seq' /\ WindowOK'
         /\ \A s \in Nat, kind \in {"load", "store"} :
              Unmarked(s, grant) /\ InFlight(s, kind) =>
                InFlight(s, kind)' /\ (AtHead(s) => AtHead(s)')
         /\ \A s \in Nat, k \in 1 .. Len(ks) :
              s = next_seq + k - 1 => InFlight(s, ks[k])'
<1> DEFINE m == Marked(grant, resolve)
           n == Len(window)
           cut == IF window # <<>> /\ window[1].done THEN 1 ELSE 0
           r == Retire(m)
<1>1. /\ window \in Seq(Instr) /\ n \in Nat /\ next_seq \in Nat
      /\ n <= WINDOW /\ n < next_seq /\ WINDOW \in Nat
      /\ \A k \in 1 .. n : window[k].seq = next_seq - n + k - 1
  BY WindowAssumption DEF LsqTypeOK, WindowOK
<1>2. /\ ks \in Seq(Kind) /\ Len(ks) \in 0 .. 2 /\ n + Len(ks) <= WINDOW
  BY DispatchIs DEF Inputs
<1>3. /\ m \in Seq(Instr) /\ Len(m) = n
      /\ \A k \in 1 .. n :
           /\ m[k].seq = window[k].seq /\ m[k].kind = window[k].kind
           /\ window[k].kind # "barrier" /\ Unmarked(window[k].seq, grant) => m[k] = window[k]
  BY MarkedIs
<1>4. cut \in 0 .. 1 /\ cut <= n /\ (cut = 1 => n >= 1 /\ window[1].done)
  BY <1>1
<1> HIDE DEF m
<1>5. /\ r \in Seq(Instr) /\ Len(r) = n - cut
      /\ \A k \in 1 .. n - cut : r[k] = m[k + cut]
  <2>1. CASE cut = 1
    <3>1. r = Tail(m)
      BY <2>1 DEF Retire
    <3> QED
      <4>1. Len(m) >= 1
        BY <1>1, <1>3, <1>4, <2>1
      <4>2. /\ Tail(m) \in Seq(Instr) /\ Len(Tail(m)) = Len(m) - 1
            /\ \A k \in 1 .. Len(m) - 1 : Tail(m)[k] = m[k + 1]
        BY <4>1, <1>3, TailIs
      <4> QED
        BY <4>2, <1>3, <2>1, <3>1
  <2>2. CASE cut = 0
    <3>1. r = m
      BY <2>2 DEF Retire
    <3> QED
      BY <1>1, <1>3, <2>2, <3>1
  <2> QED
    BY <1>4, <2>1, <2>2
<1>6. /\ Fresh(ks) \in Seq(Instr) /\ Len(Fresh(ks)) = Len(ks)
      /\ \A k \in 1 .. Len(ks) :
           /\ Fresh(ks)[k].seq = next_seq + k - 1
           /\ Fresh(ks)[k].kind = ks[k] /\ Fresh(ks)[k].done = FALSE
  <2>1. \A k \in 1 .. Len(ks) : ks[k] \in Kind /\ next_seq + k - 1 \in Nat
    BY <1>1, <1>2
  <2> QED
    BY <1>2, <2>1 DEF Fresh, Instr
<1>7. window' = r \o Fresh(ks) /\ next_seq' = next_seq + Len(ks)
  BY DEF EdgeWindow, m
<1> HIDE DEF r, cut
<1>8. /\ window' \in Seq(Instr) /\ Len(window') = n - cut + Len(ks)
      /\ \A k \in 1 .. n - cut : window'[k] = m[k + cut]
      /\ \A k \in 1 .. Len(ks) : window'[n - cut + k] = Fresh(ks)[k]
  <2>1. r \in Seq(Instr) /\ Fresh(ks) \in Seq(Instr) /\ window' = r \o Fresh(ks)
    BY <1>5, <1>6, <1>7
  <2>2. /\ window' \in Seq(Instr) /\ Len(window') = Len(r) + Len(Fresh(ks))
        /\ \A k \in 1 .. Len(r) : window'[k] = r[k]
        /\ \A k \in 1 .. Len(Fresh(ks)) : window'[Len(r) + k] = Fresh(ks)[k]
    BY <2>1, ConcatIs
  <2>3. ASSUME NEW k \in 1 .. n - cut PROVE window'[k] = m[k + cut]
    BY <2>2, <1>5
  <2>4. window' \in Seq(Instr) /\ Len(window') = n - cut + Len(ks)
    BY <2>2, <1>5, <1>6
  <2>5. ASSUME NEW k \in 1 .. Len(ks) PROVE window'[n - cut + k] = Fresh(ks)[k]
    BY <2>2, <1>5, <1>6
  <2> QED
    BY <2>3, <2>4, <2>5
<1>9. next_seq' \in Nat /\ next_seq <= next_seq'
  BY <1>1, <1>2, <1>7
<1>10. WindowOK'
  <2>0. /\ n \in Nat /\ next_seq \in Nat /\ cut \in 0 .. 1 /\ Len(ks) \in 0 .. 2
        /\ Len(window') = n - cut + Len(ks) /\ next_seq' = next_seq + Len(ks)
    BY <1>1, <1>2, <1>4, <1>7, <1>8
  <2>1. Len(window') <= WINDOW /\ Len(window') < next_seq'
    BY <1>1, <1>2, <1>4, <2>0
  <2>2. ASSUME NEW k \in 1 .. Len(window')
        PROVE  window'[k].seq = next_seq' - Len(window') + k - 1
    <3>1. CASE k <= n - cut
      <4>1. k + cut \in 1 .. n /\ k \in 1 .. n - cut
        BY <1>1, <1>4, <2>2, <3>1
      <4>2. window'[k].seq = next_seq - n + (k + cut) - 1
        BY <4>1, <1>1, <1>3, <1>8
      <4> QED
        BY <4>1, <4>2, <2>0
    <3>2. CASE ~(k <= n - cut)
      <4>1. PICK j \in 1 .. Len(ks) : k = n - cut + j
        <5>1. k - (n - cut) \in 1 .. Len(ks) /\ k = n - cut + (k - (n - cut))
          BY <1>1, <1>2, <1>4, <1>8, <2>2, <3>2
        <5> QED
          BY <5>1
      <4>2. window'[k].seq = next_seq + j - 1
        BY <4>1, <1>6, <1>8
      <4> QED
        BY <4>1, <4>2, <2>0
    <3> QED
      BY <3>1, <3>2
  <2> QED
    BY <2>1, <2>2 DEF WindowOK
<1>11. ASSUME NEW s \in Nat, NEW kind \in {"load", "store"}, Unmarked(s, grant), InFlight(s, kind)
       PROVE  InFlight(s, kind)' /\ (AtHead(s) => AtHead(s)')
  <2>1. PICK k \in 1 .. n : window[k].seq = s /\ window[k].kind = kind /\ ~window[k].done
    BY <1>11 DEF InFlight
  <2>2. m[k] = window[k]
    BY <1>3, <1>11, <2>1
  <2>3. k - cut \in 1 .. n - cut
    <3>1. k # 1 \/ cut = 0
      BY <1>4, <2>1
    <3> QED
      BY <1>1, <1>4, <3>1
  <2>4. window'[k - cut] = window[k]
    <3>1. window'[k - cut] = m[(k - cut) + cut]
      BY <1>8, <2>3
    <3>2. (k - cut) + cut = k
      BY <1>1, <1>4
    <3> QED
      BY <2>2, <3>1, <3>2
  <2>5. k - cut \in 1 .. Len(window')
    BY <1>1, <1>2, <1>4, <1>8, <2>3
  <2>6. InFlight(s, kind)'
    BY <2>1, <2>4, <2>5 DEF InFlight
  <2>7. ASSUME AtHead(s) PROVE AtHead(s)'
    <3>1. n >= 1 /\ window[1].seq = s
      BY <1>1, <2>7 DEF AtHead
    <3>2. k = 1
      <4>1. next_seq - n + 1 - 1 = next_seq - n + k - 1
        BY <1>1, <2>1, <3>1
      <4> QED
        BY <1>1, <4>1
    <3>3. k - cut = 1
      BY <1>4, <2>1, <2>3, <3>2
    <3>4. window'[1].seq = s /\ Len(window') >= 1
      BY <2>1, <2>4, <2>5, <3>3, <1>1, <1>8
    <3> QED
      BY <3>4, <1>8 DEF AtHead
  <2> QED
    BY <2>6, <2>7
<1>12. ASSUME NEW s \in Nat, NEW k \in 1 .. Len(ks), s = next_seq + k - 1
       PROVE  InFlight(s, ks[k])'
  <2>1. n - cut + k \in 1 .. Len(window')
    BY <1>1, <1>2, <1>4, <1>8
  <2>2. /\ window'[n - cut + k].seq = next_seq + k - 1
        /\ window'[n - cut + k].kind = ks[k] /\ ~window'[n - cut + k].done
    BY <1>6, <1>8
  <2> QED
    BY <1>12, <2>1, <2>2 DEF InFlight
<1> QED
  BY <1>8, <1>9, <1>10, <1>11, <1>12
-----------------------------------------------------------------------------
(***************************************************************************)
(* What the invariant says of tags, of entries and of the next request.    *)
(***************************************************************************)
\* An instruction in flight is older than what comes and no older than the head.
LEMMA InFlightRange ==
  ASSUME LsqTypeOK, WindowOK, NEW s, NEW kind, InFlight(s, kind)
  PROVE  /\ s \in Nat /\ s < next_seq /\ next_seq - s <= WINDOW
         /\ window # <<>> /\ window[1].seq <= s
         /\ window[1].seq \in Nat /\ next_seq - window[1].seq <= WINDOW
         /\ AtHead(s) => window[1].kind = kind /\ ~window[1].done
<1>1. /\ window \in Seq(Instr) /\ Len(window) \in Nat /\ next_seq \in Nat /\ WINDOW \in Nat
      /\ Len(window) <= WINDOW /\ Len(window) < next_seq
      /\ \A k \in 1 .. Len(window) : window[k].seq = next_seq - Len(window) + k - 1
  BY WindowAssumption DEF LsqTypeOK, WindowOK
<1>2. PICK k \in 1 .. Len(window) :
        window[k].seq = s /\ window[k].kind = kind /\ ~window[k].done
  BY DEF InFlight
<1>3. 1 \in 1 .. Len(window)
  BY <1>1
<1>4. window[1].seq = next_seq - Len(window) /\ s = next_seq - Len(window) + k - 1
  <2>1. window[1].seq = next_seq - Len(window) + 1 - 1
    BY <1>1, <1>3
  <2> QED
    BY <2>1, <1>1, <1>2
<1>5. AtHead(s) => k = 1
  BY <1>1, <1>4 DEF AtHead
<1>6. window # <<>>
  BY <1>1, <1>3
<1>7. /\ Len(window) \in Nat /\ next_seq \in Nat /\ WINDOW \in Nat
      /\ Len(window) <= WINDOW /\ Len(window) < next_seq /\ k \in 1 .. Len(window)
  BY <1>1
<1>8. /\ s \in Nat /\ s < next_seq /\ next_seq - s <= WINDOW
      /\ window[1].seq <= s
      /\ window[1].seq \in Nat /\ next_seq - window[1].seq <= WINDOW
  BY <1>4, <1>7
<1>9. AtHead(s) => window[1].kind = kind /\ ~window[1].done
  BY <1>2, <1>5
<1> QED
  BY <1>6, <1>8, <1>9

\* Two instructions in flight have two tags.
LEMMA TagsInFlight ==
  ASSUME LsqTypeOK, WindowOK, NEW s, NEW t, NEW kind, NEW kind2,
         InFlight(s, kind), InFlight(t, kind2), TagOf(s) = TagOf(t)
  PROVE  s = t
<1>1. /\ s \in Nat /\ s < next_seq /\ next_seq - s <= WINDOW
      /\ t \in Nat /\ t < next_seq /\ next_seq - t <= WINDOW
      /\ next_seq \in Nat /\ WINDOW \in Nat
  BY InFlightRange, WindowAssumption DEF LsqTypeOK
<1>2. CASE s <= t
  <2>1. t - s < WINDOW
    BY <1>1
  <2> QED
    BY <1>1, <1>2, <2>1, TagNames
<1>3. CASE t <= s
  <2>1. s - t < WINDOW
    BY <1>1
  <2> QED
    BY <1>1, <1>3, <2>1, TagNames
<1> QED
  BY <1>1, <1>2, <1>3

\* No result of this cycle is for an instruction that still has its entry.
LEMMA EntryUnmarked ==
  ASSUME IInv, NEW i \in Used, NEW grant
  PROVE  /\ lsq_q[i].seq \in Nat /\ KindOf(lsq_q[i]) \in {"load", "store"}
         /\ InFlight(lsq_q[i].seq, KindOf(lsq_q[i])) /\ lsq_q[i].seq < next_seq
         /\ Unmarked(lsq_q[i].seq, grant)
<1>1. LsqTypeOK /\ WindowOK /\ EntriesOK /\ ResultOK
  BY DEF IInv
<1> DEFINE s == lsq_q[i].seq
<1>2. InFlight(s, KindOf(lsq_q[i]))
  BY <1>1 DEF EntriesOK
<1>3. s \in Nat /\ s < next_seq
  BY <1>1, <1>2, InFlightRange
<1>4. ASSUME store_q.valid, store_q.rob = TagOf(s) PROVE FALSE
  <2>1. PICK t \in Nat : InFlight(t, "store") /\ store_q.rob = TagOf(t) /\ t # s
    BY <1>1, <1>4 DEF ResultOK
  <2> QED
    BY <1>1, <1>2, <1>4, <2>1, TagsInFlight
<1>5. ASSUME load_q.valid, load_q.rob = TagOf(s) PROVE FALSE
  <2>1. PICK t \in Nat : InFlight(t, "load") /\ load_q.rob = TagOf(t) /\ t # s
    BY <1>1, <1>5 DEF ResultOK
  <2> QED
    BY <1>1, <1>2, <1>5, <2>1, TagsInFlight
<1> QED
  BY <1>2, <1>3, <1>4, <1>5 DEF Unmarked, KindOf

\* The access that is made the next request: the oldest, and a store heads the
\* window.
LEMMA CandidateIs ==
  ASSUME IInv, Candidate # {}, NEW i, i = CHOOSE j \in Candidate : TRUE
  PROVE  /\ i \in Used
         /\ ~Requesting /\ ~drop_q.active /\ ~load_q.valid
         /\ lsq_q[i].is_store => AtHead(lsq_q[i].seq)
         /\ \A j \in Used : lsq_q[i].seq <= lsq_q[j].seq
<1>1. LsqTypeOK /\ WindowOK /\ EntriesOK
  BY DEF IInv
<1>2. i \in Candidate
  OBVIOUS
<1>3. memory_idle /\ i \in Unissued
  BY <1>2 DEF Candidate, candidate
<1>4. i \in Used
  BY <1>3 DEF Unissued, Used
<1>5. ~Requesting /\ ~drop_q.active /\ ~load_q.valid
  BY <1>3 DEF memory_idle, Requesting
<1>6. ASSUME NEW j \in Used
      PROVE  /\ lsq_q[j].seq \in Nat
             /\ InFlight(lsq_q[j].seq, KindOf(lsq_q[j]))
             /\ lsq_q[j].rob = TagOf(lsq_q[j].seq)
             /\ window # <<>> /\ window[1].seq <= lsq_q[j].seq
  BY <1>1, InFlightRange DEF EntriesOK
<1>7. CASE UnitHead.is_store
  <2>1. lsq_q[i].is_store /\ lsq_q[i].rob = UnitHead.tag
    BY <1>2, <1>7 DEF Candidate, candidate
  <2>2. window # <<>> /\ UnitHead.tag = TagOf(window[1].seq) /\ window[1].kind = "store"
    BY <1>7 DEF UnitHead
  <2>3. window[1].seq = lsq_q[i].seq
    <3>1. TagOf(window[1].seq) = TagOf(lsq_q[i].seq)
      BY <1>4, <1>6, <2>1, <2>2
    <3>2. /\ window[1].seq \in Nat /\ next_seq - window[1].seq <= WINDOW
          /\ lsq_q[i].seq < next_seq /\ window[1].seq <= lsq_q[i].seq
      BY <1>1, <1>4, <1>6, InFlightRange
    <3>3. lsq_q[i].seq - window[1].seq < WINDOW
      BY <3>2, <1>1, <1>4, <1>6, WindowAssumption DEF LsqTypeOK
    <3> QED
      BY <1>4, <1>6, <3>1, <3>2, <3>3, TagNames
  <2> QED
    BY <1>4, <1>5, <1>6, <2>2, <2>3 DEF AtHead
<1>8. CASE ~UnitHead.is_store
  <2>1. ~lsq_q[i].is_store /\ ~older_access(i)
    BY <1>2, <1>8 DEF Candidate, candidate
  <2>2. \A j \in Used : ~(lsq_q[j].seq < lsq_q[i].seq)
    BY <2>1 DEF older_access, Used
  <2>3. ASSUME NEW j \in Used PROVE lsq_q[i].seq <= lsq_q[j].seq
    <3>1. lsq_q[i].seq \in Nat /\ lsq_q[j].seq \in Nat
      BY <1>4, <1>6
    <3> QED
      BY <2>2, <3>1
  <2> QED
    BY <1>4, <1>5, <2>1, <2>3
<1> QED
  BY <1>7, <1>8

\* The youngest access performed is a number.
LEMMA LastType == ASSUME performed \in Seq(Nat) PROVE last_performed \in Nat
BY DEF last_performed

\* Performing an access younger than the youngest keeps the history in order.
LEMMA HistoryGrows ==
  ASSUME performed \in Seq(Nat), NEW s \in Nat, performed' = Append(performed, s)
  PROVE  /\ last_performed' = s
         /\ last_performed < s /\ MemoryInProgramOrder => MemoryInProgramOrder'
<1>1. /\ Len(performed') = Len(performed) + 1 /\ Len(performed) \in Nat
      /\ performed'[Len(performed) + 1] = s
      /\ \A k \in 1 .. Len(performed) : performed'[k] = performed[k] /\ performed[k] \in Nat
  OBVIOUS
<1>2. last_performed' = s
  BY <1>1 DEF last_performed
<1>3. ASSUME last_performed < s, MemoryInProgramOrder PROVE MemoryInProgramOrder'
  <2>1. ASSUME NEW k \in 1 .. Len(performed) PROVE performed[k] < s
    <3>1. performed # <<>> /\ last_performed = performed[Len(performed)]
      BY <2>1 DEF last_performed
    <3>2. performed[k] <= performed[Len(performed)]
      BY <1>1, <1>3 DEF MemoryInProgramOrder
    <3> QED
      BY <1>1, <1>3, <3>1, <3>2
  <2>2. ASSUME NEW j \in 1 .. Len(performed'), NEW k \in 1 .. Len(performed'), j < k
        PROVE  performed'[j] < performed'[k]
    <3>1. j \in 1 .. Len(performed)
      BY <1>1, <2>2
    <3>2. CASE k \in 1 .. Len(performed)
      BY <1>1, <1>3, <2>2, <3>1, <3>2 DEF MemoryInProgramOrder
    <3>3. CASE k = Len(performed) + 1
      BY <1>1, <2>1, <3>1, <3>3
    <3> QED
      BY <1>1, <3>2, <3>3
  <2> QED
    BY <2>2 DEF MemoryInProgramOrder
<1> QED
  BY <1>2, <1>3

\* The access memory serves in this cycle: after all that it has performed,
\* before all that wait.
LEMMA ServedOrder ==
  ASSUME IInv, NEW ks, NEW accept, NEW answer, NEW agu, NEW grant, NEW resolve,
         Inputs(ks, accept, answer, agu, grant, resolve), dm.busy \/ accept,
         NEW s, s = UnitServing(accept).seq
  PROVE  /\ s \in Nat /\ last_performed < s /\ s < next_seq
         /\ \/ Requesting /\ (req_q.busy \/ accept)
            \/ drop_q.active /\ ~accept /\ ~Requesting
         /\ req_q.busy \/ accept =>
              /\ req_q.index \in Used /\ s = lsq_q[req_q.index].seq
              /\ UnitServing(accept).write = req_q.write /\ ~drop_q.active
         /\ \A i \in Used : s < lsq_q[i].seq \/ (Requesting /\ i = req_q.index)
<1>1. /\ LsqTypeOK /\ EntriesOK /\ RequestOK /\ ResponsePaired /\ MemoryOK
      /\ (accept => ~dm.busy /\ req_q.pending)
  BY DEF IInv, Inputs
<1>2. /\ req_q.pending \in BOOLEAN /\ req_q.busy \in BOOLEAN /\ drop_q.active \in BOOLEAN
      /\ dm.seq \in Nat
  BY <1>1 DEF LsqTypeOK, Request
<1>3. CASE req_q.busy \/ accept
  <2>1. Requesting /\ req_q.index \in Used /\ ~drop_q.active
    BY <1>1, <1>3 DEF Requesting, RequestOK, ResponsePaired
  <2>2. s = lsq_q[req_q.index].seq
    <3>1. CASE accept
      BY <3>1 DEF UnitServing
    <3>2. CASE ~accept
      <4>1. dm.seq = lsq_q[req_q.index].seq
        BY <1>1, <1>3, <3>2 DEF ResponsePaired
      <4> QED
        BY <4>1, <3>2 DEF UnitServing
    <3> QED
      BY <3>1, <3>2
  <2>3. UnitServing(accept).write = req_q.write
    BY <1>1, <1>3 DEF UnitServing, ResponsePaired
  <2>4. /\ lsq_q[req_q.index].seq \in Nat /\ lsq_q[req_q.index].seq < next_seq
        /\ last_performed < lsq_q[req_q.index].seq
    BY <1>1, <2>1, EntryUnmarked DEF EntriesOK
  <2>5. ASSUME NEW i \in Used, i # req_q.index PROVE lsq_q[req_q.index].seq < lsq_q[i].seq
    <3>1. lsq_q[i].seq \in Nat
      BY EntryUnmarked
    <3>2. lsq_q[req_q.index].seq <= lsq_q[i].seq
      BY <1>1, <2>1 DEF RequestOK
    <3>3. lsq_q[req_q.index].seq # lsq_q[i].seq
      BY <1>1, <2>1, <2>5 DEF EntriesOK
    <3> QED
      BY <2>4, <3>1, <3>2, <3>3
  <2>6. s \in Nat /\ last_performed < s /\ s < next_seq
    BY <2>2, <2>4
  <2>7. ASSUME NEW i \in Used PROVE s < lsq_q[i].seq \/ (Requesting /\ i = req_q.index)
    BY <2>1, <2>2, <2>5
  <2> QED
    BY <1>3, <2>1, <2>2, <2>3, <2>6, <2>7
<1>4. CASE ~(req_q.busy \/ accept)
  <2>1. dm.busy /\ drop_q.active /\ ~accept /\ ~Requesting
    BY <1>1, <1>4 DEF ResponsePaired, Requesting
  <2>2. s = dm.seq
    BY <2>1 DEF UnitServing
  <2>3. /\ s \in Nat /\ last_performed < s /\ s < next_seq
        /\ \A i \in Used : s < lsq_q[i].seq
    BY <1>1, <1>2, <2>1, <2>2 DEF MemoryOK
  <2> QED
    BY <1>4, <2>1, <2>3
<1> QED
  BY <1>3, <1>4
-----------------------------------------------------------------------------
(***************************************************************************)
(* The invariant over a clock edge without a flush, part by part.          *)
(***************************************************************************)
\* The entries that are there afterwards: kept ones, older than next_seq, and
\* new ones, of this cycle's instructions.
LEMMA EntriesAfter ==
  ASSUME IInv,
         NEW ks, NEW accept, NEW answer, NEW agu, NEW grant, NEW resolve,
         Inputs(ks, accept, answer, agu, grant, resolve),
         Edge(ks, accept, answer, agu, grant, resolve),
         NEW i \in Used'
  PROVE  \/ /\ Stayed(i, accept, answer) /\ i \in Used
            /\ lsq_q'[i].seq < next_seq
         \/ /\ lsq_q'[i] \in Entry /\ i \notin Used /\ next_seq <= lsq_q'[i].seq
            /\ \E k \in 1 .. Len(ks) :
                 /\ ks[k] # "barrier" /\ i = UnitIndex(ks, k)
                 /\ lsq_q'[i].seq = next_seq + k - 1
                 /\ lsq_q'[i].rob = TagOf(lsq_q'[i].seq) /\ KindOf(lsq_q'[i]) = ks[k]
<1>1. LsqTypeOK /\ WindowOK /\ RequestOK /\ ks \in UnitDispatch /\ next_seq \in Nat
  BY DEF IInv, Inputs, LsqTypeOK
<1>2. Stayed(i, accept, answer) \/ NewAt(ks, i, lsq_q'[i])
  BY <1>1, EntryStep DEF Edge
<1>3. CASE Stayed(i, accept, answer)
  <2>1. i \in Used /\ lsq_q'[i].seq = lsq_q[i].seq
    BY <1>3 DEF Stayed
  <2>2. lsq_q[i].seq < next_seq
    BY <2>1, EntryUnmarked
  <2> QED
    BY <1>3, <2>1, <2>2
<1>4. CASE NewAt(ks, i, lsq_q'[i])
  <2>1. /\ lsq_q'[i] \in Entry /\ i \notin Used
        /\ \E k \in 1 .. Len(ks) :
             /\ ks[k] # "barrier" /\ i = UnitIndex(ks, k)
             /\ lsq_q'[i].seq = next_seq + k - 1
             /\ lsq_q'[i].rob = TagOf(lsq_q'[i].seq) /\ KindOf(lsq_q'[i]) = ks[k]
    BY <1>1, <1>4, NewFields
  <2>2. next_seq <= lsq_q'[i].seq
    BY <1>1, <2>1
  <2> QED
    BY <2>1, <2>2
<1> QED
  BY <1>2, <1>3, <1>4

\* The registers and the window keep their types, the window its order.
LEMMA TypeStep ==
  ASSUME IInv,
         NEW ks, NEW accept, NEW answer, NEW agu, NEW grant, NEW resolve,
         Inputs(ks, accept, answer, agu, grant, resolve),
         Edge(ks, accept, answer, agu, grant, resolve)
  PROVE  LsqTypeOK' /\ WindowOK'
<1>1. LsqTypeOK /\ WindowOK /\ RequestOK /\ 0 \in LsqIndex
  BY LsqDepthAssumption DEF IInv, LsqIndex
<1>2. lsq_q' \in [LsqIndex -> {LsqFree} \cup Entry]
  BY <1>1, EntryStep DEF Edge
<1>3. window' \in Seq(Instr) /\ next_seq' \in Nat /\ WindowOK'
  BY <1>1, WindowStep DEF Edge
<1>4. req_q' \in Request
  <2>1. CASE Candidate # {}
    <3>1. PICK i : i = CHOOSE j \in Candidate : TRUE
      OBVIOUS
    <3>2. i \in Used
      BY <2>1, <3>1, CandidateIs
    <3>3. lsq_q[i] \in Entry /\ i \in LsqIndex
      BY <1>1, <3>2 DEF Used, LsqTypeOK, LsqFree
    <3>4. req_q' = [pending |-> TRUE, busy |-> FALSE, write |-> lsq_q[i].is_store,
                    index |-> i, addr |-> lsq_q[i].addr, wdata |-> lsq_q[i].wdata,
                    rob |-> lsq_q[i].rob, pdst |-> lsq_q[i].pdst, writes |-> lsq_q[i].writes]
      BY <2>1, <3>1 DEF Edge, EdgeRequest
    <3> QED
      BY <3>3, <3>4 DEF Entry, Request
  <2>2. CASE Candidate = {}
    <3>1. req_q \in Request /\ NoRequest \in Request
      BY <1>1 DEF LsqTypeOK, NoRequest, Request
    <3>2. [req_q EXCEPT !.pending = FALSE, !.busy = TRUE] \in Request
      BY <3>1 DEF Request
    <3> QED
      BY <2>2, <3>1, <3>2 DEF Edge, EdgeRequest
  <2> QED
    BY <2>1, <2>2
<1>5. drop_q' \in [active : BOOLEAN, write : BOOLEAN]
  BY <1>1 DEF Edge, EdgeResults, LsqTypeOK, NoDrop
<1>6. load_q' \in [valid : BOOLEAN, rob : Nat, pdst : {0}, writes : BOOLEAN, value : {0}]
  <2>1. [valid |-> TRUE, rob |-> req_q.rob, pdst |-> req_q.pdst, writes |-> req_q.writes,
         value |-> 0] \in [valid : BOOLEAN, rob : Nat, pdst : {0}, writes : BOOLEAN, value : {0}]
    BY <1>1 DEF LsqTypeOK, Request
  <2> QED
    BY <1>1, <2>1 DEF Edge, EdgeResults, LsqTypeOK, NoLoad
<1>7. store_q' \in [valid : BOOLEAN, rob : Nat]
  BY <1>1 DEF Edge, EdgeResults, LsqTypeOK, NoStore, Request
<1>8. dm' \in [busy : BOOLEAN, write : BOOLEAN, seq : Nat] /\ performed' \in Seq(Nat)
  <2>1. UnitServing(accept) \in [busy : BOOLEAN, write : BOOLEAN, seq : Nat]
    <3>1. CASE accept
      <4>1. req_q.index \in Used
        BY <1>1, <3>1 DEF Inputs, RequestOK, Requesting
      <4>2. lsq_q[req_q.index].seq \in Nat
        BY <4>1, EntryUnmarked
      <4> QED
        BY <1>1, <3>1, <4>2 DEF UnitServing, LsqTypeOK, Request
    <3> QED
      BY <1>1, <3>1 DEF UnitServing, LsqTypeOK
  <2> QED
    BY <1>1, <2>1 DEF Edge, EdgeMemory, DmFree, LsqTypeOK
<1> QED
  BY <1>2, <1>3, <1>4, <1>5, <1>6, <1>7, <1>8 DEF LsqTypeOK

\* A waiting entry still belongs to an instruction in flight, alone.
LEMMA EntriesStep ==
  ASSUME IInv,
         NEW ks, NEW accept, NEW answer, NEW agu, NEW grant, NEW resolve,
         Inputs(ks, accept, answer, agu, grant, resolve),
         Edge(ks, accept, answer, agu, grant, resolve)
  PROVE  EntriesOK'
<1>1. LsqTypeOK /\ WindowOK /\ RequestOK /\ EntriesOK /\ MemoryOK /\ next_seq \in Nat
  BY DEF IInv, LsqTypeOK
<1>2. /\ \A s \in Nat, kind \in {"load", "store"} :
           Unmarked(s, grant) /\ InFlight(s, kind) =>
             InFlight(s, kind)' /\ (AtHead(s) => AtHead(s)')
      /\ \A s \in Nat, k \in 1 .. Len(ks) : s = next_seq + k - 1 => InFlight(s, ks[k])'
  BY <1>1, WindowStep DEF Edge
<1>3. /\ last_performed' \in Nat /\ last_performed' < next_seq
      /\ \A i \in Used : ~(Answered(accept, answer) /\ i = req_q.index) => last_performed' < lsq_q[i].seq
  <2>1. CASE answer
    <3>1. dm.busy \/ accept
      BY <2>1 DEF Inputs
    <3>2. PICK s : s = UnitServing(accept).seq
      OBVIOUS
    <3>3. /\ s \in Nat /\ s < next_seq
          /\ (Requesting /\ (req_q.busy \/ accept)) \/ ~Requesting
          /\ \A i \in Used : s < lsq_q[i].seq \/ (Requesting /\ i = req_q.index)
      BY <3>1, <3>2, ServedOrder
    <3>4. last_performed' = s
      <4>1. performed' = Append(performed, s) /\ performed \in Seq(Nat)
        BY <1>1, <2>1, <3>2 DEF Edge, EdgeMemory, LsqTypeOK
      <4> QED
        BY <3>3, <4>1, HistoryGrows
    <3> QED
      BY <2>1, <3>3, <3>4 DEF Answered
  <2>2. CASE ~answer
    <3>1. last_performed' = last_performed /\ last_performed \in Nat
      <4>1. performed' = performed
        BY <2>2 DEF Edge, EdgeMemory
      <4> QED
        BY <1>1, <4>1, LastType DEF LsqTypeOK, last_performed
    <3> QED
      BY <1>1, <3>1 DEF LsqTypeOK, MemoryOK, EntriesOK
  <2> QED
    BY <2>1, <2>2
<1>4. ASSUME NEW i \in Used'
      PROVE  /\ lsq_q'[i].rob = TagOf(lsq_q'[i].seq)
             /\ InFlight(lsq_q[i].seq, KindOf(lsq_q[i]))'
             /\ last_performed' < lsq_q'[i].seq
  <2>1. CASE Stayed(i, accept, answer) /\ i \in Used
    <3>1. /\ lsq_q'[i].seq = lsq_q[i].seq /\ lsq_q'[i].rob = lsq_q[i].rob
          /\ KindOf(lsq_q'[i]) = KindOf(lsq_q[i])
          /\ ~(Answered(accept, answer) /\ i = req_q.index)
      BY <2>1 DEF Stayed, KindOf
    <3>2. PICK s \in Nat, kind \in {"load", "store"} :
            /\ s = lsq_q[i].seq /\ kind = KindOf(lsq_q[i])
            /\ InFlight(s, kind) /\ Unmarked(s, grant)
      BY <2>1, EntryUnmarked
    <3>3. InFlight(s, kind)'
      BY <1>2, <3>2
    <3>4. s = lsq_q'[i].seq /\ kind = KindOf(lsq_q'[i])
      BY <3>1, <3>2
    <3>5. InFlight(lsq_q[i].seq, KindOf(lsq_q[i]))'
      BY <3>3, <3>4
    <3>6. lsq_q[i].rob = TagOf(lsq_q[i].seq)
      BY <1>1, <2>1 DEF EntriesOK
    <3> QED
      BY <1>3, <2>1, <3>1, <3>5, <3>6
  <2>2. CASE /\ next_seq <= lsq_q'[i].seq /\ lsq_q'[i] \in Entry
             /\ \E k \in 1 .. Len(ks) :
                  /\ ks[k] # "barrier" /\ i = UnitIndex(ks, k)
                  /\ lsq_q'[i].seq = next_seq + k - 1
                  /\ lsq_q'[i].rob = TagOf(lsq_q'[i].seq) /\ KindOf(lsq_q'[i]) = ks[k]
    <3>1. PICK k \in 1 .. Len(ks), s \in Nat :
            /\ s = lsq_q'[i].seq /\ s = next_seq + k - 1
            /\ lsq_q'[i].rob = TagOf(lsq_q'[i].seq) /\ KindOf(lsq_q'[i]) = ks[k]
      BY <2>2 DEF Entry
    <3>2. InFlight(s, ks[k])'
      BY <1>2, <3>1
    <3>3. InFlight(lsq_q[i].seq, KindOf(lsq_q[i]))'
      BY <3>1, <3>2
    <3>4. last_performed' < lsq_q'[i].seq
      BY <1>1, <1>3, <2>2, <3>1
    <3> QED
      BY <3>1, <3>3, <3>4
  <2> QED
    BY <2>1, <2>2, EntriesAfter
<1>5. ASSUME NEW i \in Used', NEW j \in Used', lsq_q'[i].seq = lsq_q'[j].seq
      PROVE  i = j
  <2>1. CASE i \in Used /\ j \in Used
    <3>1. lsq_q[i].seq = lsq_q[j].seq
      BY <1>5, <2>1, EntriesAfter DEF Stayed
    <3> QED
      BY <1>1, <2>1, <3>1 DEF EntriesOK
  <2>2. CASE i \notin Used /\ j \notin Used
    <3>1. PICK k \in 1 .. Len(ks) : i = UnitIndex(ks, k) /\ lsq_q'[i].seq = next_seq + k - 1
      BY <2>2, EntriesAfter
    <3>2. PICK l \in 1 .. Len(ks) : j = UnitIndex(ks, l) /\ lsq_q'[j].seq = next_seq + l - 1
      BY <2>2, EntriesAfter
    <3>3. k = l
      BY <1>1, <1>5, <3>1, <3>2
    <3> QED
      BY <3>1, <3>2, <3>3
  <2>3. CASE ~(i \in Used <=> j \in Used)
    <3>1. \A x \in Used' : x \in Used => lsq_q'[x].seq < next_seq
      BY EntriesAfter
    <3>2. \A x \in Used' : x \notin Used => lsq_q'[x].seq \in Nat /\ next_seq <= lsq_q'[x].seq
      BY EntriesAfter DEF Entry
    <3>3. \A x \in Used' : x \in Used => lsq_q'[x].seq \in Nat
      BY EntriesAfter, EntryUnmarked DEF Stayed
    <3> QED
      BY <1>1, <1>5, <2>3, <3>1, <3>2, <3>3
  <2> QED
    BY <2>1, <2>2, <2>3
<1> QED
  BY <1>4, <1>5 DEF EntriesOK
\* An entry that is not answered is there afterwards, saying the same.
LEMMA EntryStays ==
  ASSUME IInv,
         NEW ks, NEW accept, NEW answer, NEW agu, NEW grant, NEW resolve,
         Inputs(ks, accept, answer, agu, grant, resolve),
         Edge(ks, accept, answer, agu, grant, resolve),
         NEW i \in Used, ~(Answered(accept, answer) /\ i = req_q.index)
  PROVE  /\ i \in Used' /\ lsq_q'[i].valid
         /\ lsq_q'[i].seq = lsq_q[i].seq /\ lsq_q'[i].rob = lsq_q[i].rob
         /\ lsq_q'[i].is_store = lsq_q[i].is_store
         /\ AtHead(lsq_q[i].seq) => \A s \in Nat : s = lsq_q[i].seq => AtHead(s)'
<1>1. LsqTypeOK /\ WindowOK /\ RequestOK
  BY DEF IInv
<1>2. i \in Used' /\ Stayed(i, accept, answer)
  BY <1>1, EntryStep DEF Edge
<1>3. \A s \in Nat, kind \in {"load", "store"} :
        Unmarked(s, grant) /\ InFlight(s, kind) =>
          InFlight(s, kind)' /\ (AtHead(s) => AtHead(s)')
  BY <1>1, WindowStep DEF Edge
<1>4. ASSUME AtHead(lsq_q[i].seq), NEW s \in Nat, s = lsq_q[i].seq PROVE AtHead(s)'
  <2>1. Unmarked(s, grant) /\ \E kind \in {"load", "store"} : InFlight(s, kind)
    BY <1>4, EntryUnmarked
  <2>2. AtHead(s)
    BY <1>4
  <2> QED
    BY <1>3, <2>1, <2>2
<1> QED
  BY <1>2, <1>4 DEF Stayed, Used

\* What the request registers hold after the edge: a new request, made when
\* nothing was under way; nothing; or the old one, perhaps accepted.
LEMMA RequestCases ==
  ASSUME IInv,
         NEW ks, NEW accept, NEW answer, NEW agu, NEW grant, NEW resolve,
         Inputs(ks, accept, answer, agu, grant, resolve),
         Edge(ks, accept, answer, agu, grant, resolve)
  PROVE  \/ /\ Candidate # {} /\ ~Requesting /\ ~drop_q.active /\ ~load_q.valid
            /\ ~accept /\ ~Answered(accept, answer)
            /\ req_q'.pending /\ ~req_q'.busy /\ req_q'.index \in Used
            /\ req_q'.write = lsq_q[req_q'.index].is_store
            /\ req_q'.rob = lsq_q[req_q'.index].rob
            /\ req_q'.write => AtHead(lsq_q[req_q'.index].seq)
            /\ \A j \in Used : lsq_q[req_q'.index].seq <= lsq_q[j].seq
         \/ ~req_q'.pending /\ ~req_q'.busy /\ (Answered(accept, answer) \/ ~Requesting)
         \/ /\ Requesting /\ ~Answered(accept, answer)
            /\ req_q'.pending = (req_q.pending /\ ~accept) /\ req_q'.busy = (req_q.busy \/ accept)
            /\ req_q'.index = req_q.index /\ req_q'.write = req_q.write /\ req_q'.rob = req_q.rob
<1>1. /\ LsqTypeOK /\ RequestOK /\ EdgeRequest(accept, answer)
      /\ (accept => req_q.pending) /\ accept \in BOOLEAN /\ answer \in BOOLEAN
  BY DEF IInv, Inputs, Edge
<1>2. req_q \in Request /\ req_q.pending \in BOOLEAN /\ req_q.busy \in BOOLEAN
  BY <1>1 DEF LsqTypeOK, Request
<1>3. CASE Candidate # {}
  <2>1. PICK i : i = CHOOSE j \in Candidate : TRUE
    OBVIOUS
  <2>2. /\ i \in Used /\ ~Requesting /\ ~drop_q.active /\ ~load_q.valid
        /\ lsq_q[i].is_store => AtHead(lsq_q[i].seq)
        /\ \A j \in Used : lsq_q[i].seq <= lsq_q[j].seq
    BY <1>3, <2>1, CandidateIs
  <2>3. /\ req_q'.pending /\ ~req_q'.busy /\ req_q'.index = i
        /\ req_q'.write = lsq_q[i].is_store /\ req_q'.rob = lsq_q[i].rob
    BY <1>1, <1>3, <2>1 DEF EdgeRequest
  <2>4. ~accept /\ ~Answered(accept, answer)
    BY <1>1, <2>2 DEF Requesting, Answered
  <2> QED
    BY <1>3, <2>2, <2>3, <2>4
<1>4. CASE Candidate = {} /\ Answered(accept, answer)
  <2>1. req_q' = NoRequest
    BY <1>1, <1>4 DEF EdgeRequest
  <2> QED
    BY <1>4, <2>1 DEF NoRequest
<1>5. CASE Candidate = {} /\ ~Answered(accept, answer) /\ accept
  <2>1. req_q' = [req_q EXCEPT !.pending = FALSE, !.busy = TRUE]
    BY <1>1, <1>5 DEF EdgeRequest
  <2>2. /\ req_q'.pending = FALSE /\ req_q'.busy = TRUE
        /\ req_q'.index = req_q.index /\ req_q'.write = req_q.write /\ req_q'.rob = req_q.rob
    BY <1>2, <2>1 DEF Request
  <2>3. Requesting
    BY <1>1, <1>5 DEF Requesting
  <2> QED
    BY <1>5, <2>2, <2>3
<1>6. CASE Candidate = {} /\ ~Answered(accept, answer) /\ ~accept
  <2>1. req_q' = req_q
    BY <1>1, <1>6 DEF EdgeRequest
  <2> QED
    BY <1>2, <1>6, <2>1 DEF Requesting
<1> QED
  BY <1>3, <1>4, <1>5, <1>6

\* A request stays with its entry, and its entry the oldest.
LEMMA RequestStep ==
  ASSUME IInv,
         NEW ks, NEW accept, NEW answer, NEW agu, NEW grant, NEW resolve,
         Inputs(ks, accept, answer, agu, grant, resolve),
         Edge(ks, accept, answer, agu, grant, resolve)
  PROVE  RequestOK'
<1>1. /\ RequestOK /\ LsqTypeOK /\ EdgeResults(accept, answer, grant) /\ next_seq \in Nat
      /\ (grant => load_q.valid)
  BY DEF IInv, Inputs, Edge, LsqTypeOK
<1>2. /\ req_q.pending \in BOOLEAN /\ req_q.busy \in BOOLEAN
      /\ accept \in BOOLEAN /\ (accept => req_q.pending)
  BY <1>1 DEF LsqTypeOK, Request, Inputs
<1>3. ~(req_q'.pending /\ req_q'.busy)
  BY <1>1, <1>2, RequestCases DEF RequestOK
<1>4. ASSUME req_q'.pending \/ req_q'.busy
      PROVE  /\ ~Answered(accept, answer) /\ ~load_q.valid
             /\ req_q'.index \in Used
             /\ req_q'.write = lsq_q[req_q'.index].is_store
             /\ req_q'.rob = lsq_q[req_q'.index].rob
             /\ req_q'.write => AtHead(lsq_q[req_q'.index].seq)
             /\ \A j \in Used : lsq_q[req_q'.index].seq <= lsq_q[j].seq
  BY <1>1, <1>4, RequestCases DEF RequestOK
<1>5. ASSUME req_q'.pending \/ req_q'.busy
      PROVE  /\ req_q'.index \in Used'
             /\ req_q'.write = lsq_q'[req_q'.index].is_store
             /\ req_q'.rob = lsq_q'[req_q'.index].rob
             /\ req_q'.write => AtHead(lsq_q[req_q.index].seq)'
             /\ \A j \in Used' : lsq_q'[req_q'.index].seq <= lsq_q'[j].seq
             /\ ~load_q'.valid /\ ~store_q'.valid
  <2>1. PICK i \in Used, s \in Nat : i = req_q'.index /\ s = lsq_q[i].seq /\ s < next_seq
    BY <1>4, <1>5, EntryUnmarked
  <2>2. /\ i \in Used' /\ lsq_q'[i].seq = s /\ lsq_q'[i].rob = lsq_q[i].rob
        /\ lsq_q'[i].is_store = lsq_q[i].is_store
        /\ AtHead(s) => AtHead(s)'
    BY <1>4, <1>5, <2>1, EntryStays
  <2>3. ASSUME req_q'.write PROVE AtHead(lsq_q[req_q.index].seq)'
    <3>1. AtHead(s)'
      BY <1>4, <1>5, <2>1, <2>2, <2>3
    <3> QED
      BY <2>1, <2>2, <3>1
  <2>4. ASSUME NEW j \in Used' PROVE s <= lsq_q'[j].seq
    <3>1. CASE j \in Used /\ lsq_q'[j].seq = lsq_q[j].seq
      BY <1>4, <1>5, <2>1, <3>1
    <3>2. CASE lsq_q'[j] \in Entry /\ next_seq <= lsq_q'[j].seq
      <4>1. lsq_q'[j].seq \in Nat
        BY <3>2 DEF Entry
      <4> QED
        BY <1>1, <2>1, <3>2, <4>1
    <3> QED
      BY <3>1, <3>2, EntriesAfter DEF Stayed
  <2>5. load_q' = NoLoad \/ load_q' = load_q
    BY <1>1, <1>4, <1>5 DEF EdgeResults
  <2>6. ~load_q'.valid /\ ~store_q'.valid
    BY <1>1, <1>4, <1>5, <2>5 DEF EdgeResults, NoLoad, NoStore
  <2> QED
    BY <1>4, <1>5, <2>1, <2>2, <2>3, <2>4, <2>6
<1> QED
  BY <1>3, <1>5 DEF RequestOK, Requesting

\* Memory, request and drop registers keep step.
LEMMA PairedStep ==
  ASSUME IInv,
         NEW ks, NEW accept, NEW answer, NEW agu, NEW grant, NEW resolve,
         Inputs(ks, accept, answer, agu, grant, resolve),
         Edge(ks, accept, answer, agu, grant, resolve)
  PROVE  ResponsePaired'
<1>1. /\ LsqTypeOK /\ RequestOK /\ ResponsePaired
      /\ EdgeResults(accept, answer, grant) /\ EdgeMemory(accept, answer)
      /\ (accept => ~dm.busy /\ req_q.pending) /\ (answer => dm.busy \/ accept)
      /\ accept \in BOOLEAN /\ answer \in BOOLEAN
  BY DEF IInv, Inputs, Edge
<1>2. /\ req_q.pending \in BOOLEAN /\ req_q.busy \in BOOLEAN /\ drop_q.active \in BOOLEAN
      /\ dm.busy \in BOOLEAN
  BY <1>1 DEF LsqTypeOK, Request
<1>3. dm' = IF answer THEN DmFree
            ELSE IF accept
                 THEN [busy |-> TRUE, write |-> req_q.write, seq |-> lsq_q[req_q.index].seq]
                 ELSE dm
  BY <1>1 DEF EdgeMemory, UnitServing
<1>4. drop_q'.active <=> drop_q.active /\ ~answer
  BY <1>1, <1>2 DEF EdgeResults, NoDrop
<1>5. drop_q'.active => drop_q' = drop_q
  BY <1>1, <1>4 DEF EdgeResults
<1>6. ASSUME req_q'.busy
      PROVE  /\ dm'.busy /\ dm'.write = req_q'.write /\ ~drop_q'.active
             /\ lsq_q'[req_q'.index].valid /\ lsq_q'[req_q'.index].seq = dm'.seq
  <2>1. /\ Requesting /\ ~Answered(accept, answer) /\ (req_q.busy \/ accept)
        /\ req_q'.index = req_q.index /\ req_q'.write = req_q.write
    BY <1>1, <1>2, <1>6, RequestCases
  <2>2. ~answer
    BY <1>1, <2>1 DEF Answered
  <2>3. req_q.index \in Used
    BY <1>1, <2>1 DEF RequestOK
  <2>4. lsq_q'[req_q.index].valid /\ lsq_q'[req_q.index].seq = lsq_q[req_q.index].seq
    BY <2>1, <2>3, EntryStays
  <2>5. dm'.busy /\ dm'.write = req_q.write /\ dm'.seq = lsq_q[req_q.index].seq
    <3>1. CASE accept
      BY <1>3, <2>2, <3>1
    <3>2. CASE ~accept
      BY <1>1, <1>3, <2>1, <2>2, <3>2 DEF ResponsePaired
    <3> QED
      BY <3>1, <3>2
  <2>6. ~drop_q'.active
    BY <1>1, <1>4, <2>1 DEF ResponsePaired
  <2> QED
    BY <2>1, <2>4, <2>5, <2>6
<1>7. ASSUME drop_q'.active
      PROVE  dm'.busy /\ dm'.write = drop_q'.write
  <2>1. dm' = dm /\ drop_q' = drop_q
    BY <1>1, <1>3, <1>4, <1>5, <1>7 DEF ResponsePaired
  <2> QED
    BY <1>1, <1>4, <1>7, <2>1 DEF ResponsePaired
<1>8. ASSUME dm'.busy PROVE req_q'.busy \/ drop_q'.active
  <2>1. ~answer
    BY <1>3, <1>8 DEF DmFree
  <2>2. accept \/ req_q.busy \/ drop_q.active
    BY <1>1, <1>3, <1>8, <2>1 DEF ResponsePaired
  <2>3. accept \/ req_q.busy => req_q'.busy
    BY <1>1, <1>2, <2>1, RequestCases DEF Answered, Requesting
  <2> QED
    BY <1>4, <2>1, <2>2, <2>3
<1>9. ASSUME req_q'.pending PROVE ~dm'.busy
  <2>1. ~accept /\ ~dm.busy
    BY <1>1, <1>2, <1>9, RequestCases DEF ResponsePaired, Requesting
  <2> QED
    BY <1>1, <1>3, <2>1
<1> QED
  BY <1>6, <1>7, <1>8, <1>9 DEF ResponsePaired

\* Memory performs an access younger than all it has performed.
LEMMA MemoryStep ==
  ASSUME IInv,
         NEW ks, NEW accept, NEW answer, NEW agu, NEW grant, NEW resolve,
         Inputs(ks, accept, answer, agu, grant, resolve),
         Edge(ks, accept, answer, agu, grant, resolve)
  PROVE  MemoryOK'
<1>1. /\ LsqTypeOK /\ WindowOK /\ MemoryOK /\ ResponsePaired
      /\ EdgeResults(accept, answer, grant) /\ EdgeMemory(accept, answer)
      /\ next_seq \in Nat /\ performed \in Seq(Nat) /\ dm.seq \in Nat
      /\ (answer => dm.busy \/ accept) /\ (accept => ~dm.busy)
  BY DEF IInv, Inputs, Edge, LsqTypeOK
<1>2. next_seq' \in Nat /\ next_seq <= next_seq'
  BY <1>1, WindowStep DEF Edge
<1>3. PICK s : s = UnitServing(accept).seq
  OBVIOUS
<1>4. dm.busy \/ accept => s \in Nat /\ last_performed < s /\ s < next_seq
  BY <1>3, ServedOrder
<1>5. answer => last_performed' = s /\ MemoryInProgramOrder' /\ ~dm'.busy
  <2> SUFFICES ASSUME answer
               PROVE  last_performed' = s /\ MemoryInProgramOrder' /\ ~dm'.busy
    OBVIOUS
  <2>1. performed' = Append(performed, s) /\ ~dm'.busy
    BY <1>1, <1>3 DEF EdgeMemory, DmFree
  <2>2. s \in Nat /\ last_performed < s /\ MemoryInProgramOrder
    BY <1>1, <1>4 DEF MemoryOK
  <2> QED
    BY <1>1, <2>1, <2>2, HistoryGrows
<1>6. ~answer => /\ last_performed' = last_performed /\ dm' = UnitServing(accept)
                 /\ MemoryInProgramOrder'
  BY <1>1 DEF EdgeMemory, MemoryOK, last_performed, MemoryInProgramOrder
<1>7. last_performed' < next_seq' /\ MemoryInProgramOrder'
  BY <1>1, <1>2, <1>4, <1>5, <1>6, LastType DEF MemoryOK
<1>8. ASSUME dm'.busy PROVE last_performed' < dm'.seq /\ dm'.seq < next_seq'
  <2>1. ~answer /\ dm'.seq = s /\ last_performed' = last_performed
    BY <1>3, <1>5, <1>6, <1>8
  <2>2. dm.busy \/ accept
    BY <1>6, <1>8, <2>1 DEF UnitServing
  <2> QED
    BY <1>1, <1>2, <1>4, <2>1, <2>2
<1>9. ASSUME drop_q'.active, NEW i \in Used' PROVE dm'.seq < lsq_q'[i].seq
  <2>1. drop_q.active /\ ~answer /\ dm.busy /\ ~accept
    BY <1>1, <1>9 DEF EdgeResults, NoDrop, ResponsePaired
  <2>2. dm'.seq = dm.seq /\ dm.seq < next_seq
    BY <1>1, <1>6, <2>1 DEF UnitServing, MemoryOK
  <2>3. CASE i \in Used /\ lsq_q'[i].seq = lsq_q[i].seq
    BY <1>1, <2>1, <2>2, <2>3 DEF MemoryOK
  <2>4. CASE lsq_q'[i] \in Entry /\ next_seq <= lsq_q'[i].seq
    <3>1. lsq_q'[i].seq \in Nat
      BY <2>4 DEF Entry
    <3> QED
      BY <1>1, <2>2, <2>4, <3>1
  <2> QED
    BY <2>3, <2>4, EntriesAfter DEF Stayed
<1> QED
  BY <1>7, <1>8, <1>9 DEF MemoryOK

\* An answer removes the entry of its instruction, which stays in flight.
LEMMA AnswerGives ==
  ASSUME IInv,
         NEW ks, NEW accept, NEW answer, NEW agu, NEW grant, NEW resolve,
         Inputs(ks, accept, answer, agu, grant, resolve),
         Edge(ks, accept, answer, agu, grant, resolve),
         Answered(accept, answer)
  PROVE  \E s \in Nat, kind \in {"load", "store"} :
           /\ kind = (IF req_q.write THEN "store" ELSE "load") /\ InFlight(s, kind)'
           /\ req_q.rob = TagOf(s)
           /\ req_q.write => AtHead(s)'
           /\ \A i \in Used' : lsq_q'[i].seq # s
<1>1. /\ LsqTypeOK /\ WindowOK /\ RequestOK /\ EntriesOK /\ next_seq \in Nat
      /\ (accept => req_q.pending)
  BY DEF IInv, Inputs, LsqTypeOK
<1>2. /\ req_q.index \in Used
      /\ req_q.write = lsq_q[req_q.index].is_store
      /\ req_q.rob = lsq_q[req_q.index].rob
      /\ req_q.write => AtHead(lsq_q[req_q.index].seq)
  BY <1>1 DEF Answered, RequestOK, Requesting
<1>3. PICK s \in Nat, kind \in {"load", "store"} :
        /\ s = lsq_q[req_q.index].seq /\ kind = KindOf(lsq_q[req_q.index])
        /\ InFlight(s, kind) /\ Unmarked(s, grant) /\ s < next_seq
  BY <1>2, EntryUnmarked
<1>4. InFlight(s, kind)' /\ (AtHead(s) => AtHead(s)')
  BY <1>1, <1>3, WindowStep DEF Edge
<1>5. kind = IF req_q.write THEN "store" ELSE "load"
  BY <1>2, <1>3 DEF KindOf
<1>6. ASSUME NEW i \in Used' PROVE lsq_q'[i].seq # s
  <2>1. CASE Stayed(i, accept, answer)
    BY <1>1, <1>2, <1>3, <2>1 DEF Stayed, EntriesOK
  <2>2. CASE lsq_q'[i] \in Entry /\ next_seq <= lsq_q'[i].seq
    <3>1. lsq_q'[i].seq \in Nat
      BY <2>2 DEF Entry
    <3> QED
      BY <1>1, <1>3, <2>2, <3>1
  <2> QED
    BY <2>1, <2>2, EntriesAfter
<1>7. req_q.rob = TagOf(s)
  BY <1>1, <1>2, <1>3 DEF EntriesOK
<1> QED
  BY <1>2, <1>3, <1>4, <1>5, <1>6, <1>7

\* A result made by an answer, or kept, is for an instruction in flight.
LEMMA ResultStep ==
  ASSUME IInv,
         NEW ks, NEW accept, NEW answer, NEW agu, NEW grant, NEW resolve,
         Inputs(ks, accept, answer, agu, grant, resolve),
         Edge(ks, accept, answer, agu, grant, resolve)
  PROVE  ResultOK'
<1>1. /\ LsqTypeOK /\ WindowOK /\ RequestOK /\ ResultOK
      /\ EdgeResults(accept, answer, grant)
      /\ next_seq \in Nat /\ (grant => load_q.valid) /\ (accept => req_q.pending)
      /\ grant \in BOOLEAN /\ load_q.valid \in BOOLEAN
  BY DEF IInv, Inputs, Edge, LsqTypeOK
<1>2. CASE Answered(accept, answer)
  <2>1. Requesting
    BY <1>1, <1>2 DEF Answered, Requesting
  <2>2. ~load_q.valid
    BY <1>1, <2>1 DEF RequestOK
  <2>3. PICK s \in Nat, kind \in {"load", "store"} :
          /\ kind = (IF req_q.write THEN "store" ELSE "load") /\ InFlight(s, kind)'
          /\ req_q.rob = TagOf(s)
          /\ req_q.write => AtHead(s)'
          /\ \A i \in Used' : lsq_q'[i].seq # s
    BY <1>2, AnswerGives
  <2>4. CASE req_q.write
    <3>1. ~load_q'.valid
      BY <1>1, <1>2, <2>2, <2>4 DEF EdgeResults, NoLoad
    <3>2. store_q'.rob = req_q.rob
      BY <1>1, <1>2, <2>4 DEF EdgeResults
    <3>3. kind = "store"
      BY <2>3, <2>4
    <3>4. /\ AtHead(s)' /\ InFlight(s, "store")' /\ store_q'.rob = TagOf(s)
          /\ \A i \in Used' : lsq_q'[i].seq # s
      BY <2>3, <2>4, <3>2, <3>3
    <3> QED
      BY <3>1, <3>4 DEF ResultOK
  <2>5. CASE ~req_q.write
    <3>1. ~store_q'.valid
      BY <1>1, <1>2, <2>5 DEF EdgeResults, NoStore
    <3>2. load_q'.rob = req_q.rob
      BY <1>1, <1>2, <2>5 DEF EdgeResults
    <3>3. kind = "load"
      BY <2>3, <2>5
    <3>4. /\ InFlight(s, "load")' /\ load_q'.rob = TagOf(s)
          /\ \A i \in Used' : lsq_q'[i].seq # s
      BY <2>3, <3>2, <3>3
    <3> QED
      BY <3>1, <3>4 DEF ResultOK
  <2> QED
    BY <2>4, <2>5
<1>3. CASE ~Answered(accept, answer)
  <2>1. ~store_q'.valid
    BY <1>1, <1>3 DEF EdgeResults, NoStore
  <2>2. ASSUME load_q'.valid
        PROVE  \E s \in Nat : /\ InFlight(s, "load")' /\ load_q'.rob = TagOf(s)
                              /\ \A i \in Used' : lsq_q'[i].seq # s
    <3>1. load_q' = load_q /\ ~grant /\ load_q.valid
      BY <1>1, <1>3, <2>2 DEF EdgeResults, NoLoad
    <3>2. PICK s \in Nat : /\ InFlight(s, "load") /\ load_q.rob = TagOf(s)
                           /\ \A i \in Used : lsq_q[i].seq # s
      BY <1>1, <3>1 DEF ResultOK
    <3>3. Unmarked(s, grant) /\ s < next_seq
      BY <1>1, <3>1, <3>2, InFlightRange DEF Unmarked, ResultOK
    <3>4. InFlight(s, "load")'
      BY <1>1, <3>2, <3>3, WindowStep DEF Edge
    <3>5. ASSUME NEW i \in Used' PROVE lsq_q'[i].seq # s
      <4>1. CASE Stayed(i, accept, answer)
        BY <3>2, <4>1 DEF Stayed
      <4>2. CASE lsq_q'[i] \in Entry /\ next_seq <= lsq_q'[i].seq
        <5>1. lsq_q'[i].seq \in Nat
          BY <4>2 DEF Entry
        <5> QED
          BY <1>1, <3>2, <3>3, <4>2, <5>1
      <4> QED
        BY <4>1, <4>2, EntriesAfter
    <3> QED
      BY <3>1, <3>2, <3>4, <3>5
  <2> QED
    BY <2>1, <2>2 DEF ResultOK
<1> QED
  BY <1>2, <1>3

\* All parts together.
LEMMA EdgeInvariant ==
  ASSUME IInv,
         NEW ks, NEW accept, NEW answer, NEW agu, NEW grant, NEW resolve,
         Inputs(ks, accept, answer, agu, grant, resolve),
         Edge(ks, accept, answer, agu, grant, resolve)
  PROVE  IInv'
<1>1. LsqTypeOK' /\ WindowOK'
  BY TypeStep
<1>2. EntriesOK'
  BY EntriesStep
<1>3. RequestOK'
  BY RequestStep
<1>4. ResponsePaired'
  BY PairedStep
<1>5. MemoryOK'
  BY MemoryStep
<1>6. ResultOK'
  BY ResultStep
<1> QED
  BY <1>1, <1>2, <1>3, <1>4, <1>5, <1>6 DEF IInv

-----------------------------------------------------------------------------
(***************************************************************************)
(* A flush: the queue is empty, and an access under way is to be dropped.  *)
(***************************************************************************)
\* The access under way, if it is not answered in this very cycle, becomes the
\* one to drop; a request only presented is withdrawn.
LEMMA FlushInvariant ==
  ASSUME IInv, NEW answer \in BOOLEAN, NEW agu, NEW grant, NEW resolve,
         answer => dm.busy,
         UnitTick(<<>>, TRUE, FALSE, answer, agu, grant, resolve)
  PROVE  IInv'
<1> DEFINE io == [rready |-> FALSE, wready |-> FALSE,
                  rresp |-> answer /\ ~UnitServing(FALSE).write,
                  wresp |-> answer /\ UnitServing(FALSE).write, rdata |-> 0]
<1>1. LsqTypeOK /\ WindowOK /\ ResponsePaired /\ MemoryOK
  BY DEF IInv
<1>2. UnitServing(FALSE) = dm
  BY DEF UnitServing
<1>3. /\ LsqFlush(io)
      /\ window' = <<>> /\ next_seq' = next_seq
      /\ dm' = (IF answer THEN DmFree ELSE dm)
      /\ performed' = (IF answer THEN Append(performed, dm.seq) ELSE performed)
  <2>1. Len(<<>>) = 0 /\ next_seq + 0 = next_seq
    BY <1>1 DEF LsqTypeOK
  <2> QED
    BY <1>2, <2>1 DEF UnitTick, LsqTick
<1>4. /\ drop_q.active \in BOOLEAN /\ drop_q.write \in BOOLEAN /\ req_q.busy \in BOOLEAN
      /\ req_q.write \in BOOLEAN /\ dm.write \in BOOLEAN /\ dm.busy \in BOOLEAN
      /\ dm \in [busy : BOOLEAN, write : BOOLEAN, seq : Nat] /\ dm.seq \in Nat
      /\ performed \in Seq(Nat) /\ next_seq \in Nat
  BY <1>1 DEF LsqTypeOK, Request
<1>5. dm.write = req_q.write => active_response(io) = answer
  BY <1>2, <1>4 DEF active_response, response_for
<1>6. dm.write = drop_q.write => response_for(drop_q.write, io) = answer
  BY <1>2, <1>4 DEF response_for
<1> HIDE DEF io
<1>7. /\ lsq_q' = [i \in LsqIndex |-> LsqFree]
      /\ req_q' = NoRequest /\ load_q' = NoLoad /\ store_q' = NoStore
  BY <1>3 DEF LsqFlush
<1>8. drop_q' = IF dm.busy /\ ~answer THEN [active |-> TRUE, write |-> dm.write] ELSE NoDrop
  <2>1. CASE drop_q.active
    <3>1. dm.busy /\ dm.write = drop_q.write
      BY <1>1, <2>1 DEF ResponsePaired
    <3>2. drop_q = [active |-> TRUE, write |-> drop_q.write]
      BY <1>1, <1>4, <2>1 DEF LsqTypeOK
    <3> QED
      BY <1>3, <1>6, <2>1, <3>1, <3>2 DEF LsqFlush
  <2>2. CASE ~drop_q.active
    <3>1. dm.busy <=> req_q.busy
      BY <1>1, <2>2 DEF ResponsePaired
    <3>2. req_q.busy => dm.write = req_q.write
      BY <1>1 DEF ResponsePaired
    <3> QED
      BY <1>3, <1>5, <2>2, <3>1, <3>2 DEF LsqFlush
  <2> QED
    BY <2>1, <2>2
<1>9. Used' = {} /\ ~req_q'.pending /\ ~req_q'.busy /\ ~load_q'.valid /\ ~store_q'.valid
  BY <1>7 DEF Used, LsqFree, NoRequest, NoLoad, NoStore
<1>10. LsqTypeOK'
  <2>1. req_q' \in Request
    BY <1>7, LsqDepthAssumption DEF NoRequest, Request, LsqIndex
  <2>2. drop_q' \in [active : BOOLEAN, write : BOOLEAN]
    BY <1>4, <1>8 DEF NoDrop
  <2>3. /\ load_q' \in [valid : BOOLEAN, rob : Nat, pdst : {0}, writes : BOOLEAN, value : {0}]
        /\ store_q' \in [valid : BOOLEAN, rob : Nat]
    BY <1>7 DEF NoLoad, NoStore
  <2>4. /\ dm' \in [busy : BOOLEAN, write : BOOLEAN, seq : Nat] /\ performed' \in Seq(Nat)
        /\ next_seq' \in Nat /\ window' \in Seq(Instr)
    BY <1>3, <1>4 DEF DmFree
  <2>5. lsq_q' \in [LsqIndex -> {LsqFree} \cup Entry]
    BY <1>7
  <2> QED
    BY <2>1, <2>2, <2>3, <2>4, <2>5 DEF LsqTypeOK
<1>11. WindowOK'
  <2>1. Len(window') = 0 /\ next_seq > 0 /\ WINDOW \in Nat
    BY <1>1, <1>3, WindowAssumption DEF WindowOK, LsqTypeOK
  <2> QED
    BY <1>3, <1>4, <2>1 DEF WindowOK
<1>12. EntriesOK' /\ RequestOK' /\ ResultOK'
  BY <1>9 DEF EntriesOK, RequestOK, ResultOK, Requesting
<1>13. /\ drop_q'.active <=> dm.busy /\ ~answer
       /\ drop_q'.active => drop_q'.write = dm.write
  BY <1>4, <1>8 DEF NoDrop
<1>14. dm'.busy <=> dm.busy /\ ~answer
  BY <1>3, <1>4 DEF DmFree
<1>15. ResponsePaired'
  <2>1. drop_q'.active => dm'.busy /\ dm'.write = drop_q'.write
    BY <1>3, <1>13, <1>14
  <2> QED
    BY <1>9, <1>13, <1>14, <2>1 DEF ResponsePaired
<1>16. MemoryOK'
  <2>1. dm.busy => last_performed < dm.seq /\ dm.seq < next_seq
    BY <1>1 DEF MemoryOK
  <2>2. /\ last_performed' = (IF answer THEN dm.seq ELSE last_performed)
        /\ MemoryInProgramOrder'
    <3>1. CASE answer
      BY <1>1, <1>3, <1>4, <2>1, <3>1, HistoryGrows DEF MemoryOK
    <3>2. CASE ~answer
      BY <1>1, <1>3, <3>2 DEF MemoryOK, last_performed, MemoryInProgramOrder
    <3> QED
      BY <3>1, <3>2
  <2>4. last_performed' < next_seq'
    BY <1>1, <1>3, <2>1, <2>2 DEF MemoryOK
  <2>3. dm'.busy => last_performed' < dm'.seq /\ dm'.seq < next_seq'
    BY <1>3, <1>14, <2>1, <2>2
  <2> QED
    BY <1>9, <2>2, <2>3, <2>4 DEF MemoryOK
<1> QED
  BY <1>10, <1>11, <1>12, <1>15, <1>16 DEF IInv

-----------------------------------------------------------------------------
(***************************************************************************)
(* The invariant, and what follows from it.                                *)
(***************************************************************************)
\* Every step of the unit is one of the two.
LEMMA UnitStep ==
  ASSUME IInv, UnitNext
  PROVE  IInv'
<1>1. PICK ks \in UnitDispatch, flush \in BOOLEAN, accept \in BOOLEAN, answer \in BOOLEAN,
           grant \in BOOLEAN, resolve \in BOOLEAN, agu \in UnitAgu :
        /\ flush => ks = <<>> /\ ~agu.valid /\ ~grant /\ ~resolve
        /\ grant => load_q.valid
        /\ resolve => Barriers # {}
        /\ accept => ~dm.busy /\ (rvalid(flush) \/ wvalid(flush))
        /\ answer => dm.busy \/ accept
        /\ UnitTick(ks, flush, accept, answer, agu, grant, resolve)
  BY DEF UnitNext
<1>2. CASE flush
  <2>1. ~accept
    BY <1>1, <1>2 DEF rvalid, wvalid
  <2>2. UnitTick(<<>>, TRUE, FALSE, answer, agu, grant, resolve)
    BY <1>1, <1>2, <2>1
  <2> QED
    BY <1>1, <2>1, <2>2, FlushInvariant
<1>3. CASE ~flush
  <2>1. Inputs(ks, accept, answer, agu, grant, resolve)
    BY <1>1 DEF Inputs, rvalid, wvalid
  <2>2. UnitTick(ks, FALSE, accept, answer, agu, grant, resolve)
    BY <1>1, <1>3
  <2>3. LsqTypeOK /\ RequestOK /\ ResponsePaired
    BY DEF IInv
  <2>4. Edge(ks, accept, answer, agu, grant, resolve)
    BY <2>1, <2>2, <2>3, TickIsEdge
  <2> QED
    BY <2>1, <2>4, EdgeInvariant
<1> QED
  BY <1>2, <1>3

\* The invariant holds at reset.
LEMMA InitInvariant == UnitInit => IInv
<1> SUFFICES ASSUME UnitInit PROVE IInv
  OBVIOUS
<1>1. /\ lsq_q = [i \in LsqIndex |-> LsqFree]
      /\ req_q = NoRequest /\ drop_q = NoDrop /\ load_q = NoLoad /\ store_q = NoStore
      /\ window = <<>> /\ next_seq = 1 /\ dm = DmFree /\ performed = <<>>
  BY DEF UnitInit, LsqInit
<1>2. /\ Used = {} /\ ~req_q.pending /\ ~req_q.busy /\ ~load_q.valid /\ ~store_q.valid
      /\ ~drop_q.active /\ ~dm.busy /\ Len(window) = 0 /\ WINDOW \in Nat
  BY <1>1, WindowAssumption DEF Used, LsqFree, NoRequest, NoLoad, NoStore, NoDrop, DmFree
<1>3. LsqTypeOK
  <2>1. req_q \in Request
    BY <1>1, LsqDepthAssumption DEF NoRequest, Request, LsqIndex
  <2> QED
    BY <1>1, <2>1 DEF LsqTypeOK, NoLoad, NoStore, NoDrop, DmFree
<1>4. WindowOK /\ EntriesOK /\ RequestOK /\ ResponsePaired /\ ResultOK
  BY <1>1, <1>2 DEF WindowOK, EntriesOK, RequestOK, ResponsePaired, ResultOK, Requesting
<1>5. MemoryOK
  BY <1>1, <1>2 DEF MemoryOK, MemoryInProgramOrder, last_performed
<1> QED
  BY <1>3, <1>4, <1>5 DEF IInv

\* Every step keeps it.
LEMMA StepInvariant == IInv /\ [UnitNext]_unitVars => IInv'
<1>1. ASSUME IInv, UnitNext PROVE IInv'
  BY <1>1, UnitStep
<1>2. ASSUME IInv, UNCHANGED unitVars PROVE IInv'
  <2>1. /\ UNCHANGED <<lsq_q, req_q, drop_q, load_q, store_q>>
        /\ UNCHANGED <<window, next_seq, dm, performed>>
    BY <1>2 DEF unitVars, lsqVars
  <2> QED
    BY <1>2, <2>1 DEF IInv, LsqTypeOK, WindowOK, EntriesOK, RequestOK, ResponsePaired,
                      MemoryOK, MemoryInProgramOrder, last_performed,
                      ResultOK, Requesting, Used, InFlight, AtHead
<1> QED
  BY <1>1, <1>2

\* It holds in every state.
LEMMA Invariant == UnitSpec => []IInv
  BY InitInvariant, StepInvariant, PTL DEF UnitSpec

(***************************************************************************)
(* Every response finds its request, flushed or not (lsq.v, drop_active_q).*)
(***************************************************************************)
THEOREM ResponsesFindRequests == UnitSpec => []ResponsePaired
<1>1. IInv => ResponsePaired
  BY DEF IInv
<1> QED
  BY <1>1, Invariant, PTL

(***************************************************************************)
(* No loaded value and no store completion outlives its instruction.       *)
(***************************************************************************)
THEOREM ResultsFresh == UnitSpec => []NoStaleResult
<1>1. ASSUME IInv PROVE NoStaleResult
  <2>1. LsqTypeOK /\ WindowOK /\ ResultOK
    BY <1>1 DEF IInv
  <2>2. ASSUME load_q.valid
        PROVE  \E k \in 1 .. Len(window) :
                 /\ window[k].kind = "load" /\ ~window[k].done
                 /\ TagOf(window[k].seq) = load_q.rob
    BY <2>1, <2>2 DEF ResultOK, InFlight
  <2>3. ASSUME store_q.valid
        PROVE  /\ window # <<>> /\ window[1].kind = "store" /\ ~window[1].done
               /\ TagOf(window[1].seq) = store_q.rob
    <3>1. PICK s \in Nat : AtHead(s) /\ InFlight(s, "store") /\ store_q.rob = TagOf(s)
      BY <2>1, <2>3 DEF ResultOK
    <3>2. window[1].kind = "store" /\ ~window[1].done
      BY <2>1, <3>1, InFlightRange
    <3> QED
      BY <3>1, <3>2 DEF AtHead
  <2> QED
    BY <2>2, <2>3 DEF NoStaleResult
<1> QED
  BY <1>1, Invariant, PTL

(***************************************************************************)
(* A store that memory performs is the oldest instruction in flight.       *)
(***************************************************************************)
THEOREM StoresAtHead == UnitSpec => []StoreAtHead
<1>1. ASSUME IInv PROVE StoreAtHead
  <2>1. RequestOK /\ ResponsePaired
    BY <1>1 DEF IInv
  <2>2. ASSUME dm.busy, dm.write, ~drop_q.active
        PROVE  window # <<>> /\ window[1].seq = dm.seq
    <3>1. /\ req_q.busy /\ req_q.write
          /\ lsq_q[req_q.index].seq = dm.seq
      BY <2>1, <2>2 DEF ResponsePaired
    <3>2. AtHead(lsq_q[req_q.index].seq)
      BY <2>1, <3>1 DEF RequestOK, Requesting
    <3> QED
      BY <3>1, <3>2 DEF AtHead
  <2> QED
    BY <2>2 DEF StoreAtHead
<1> QED
  BY <1>1, Invariant, PTL

(***************************************************************************)
(* Memory performs the accesses in program order, each at most once.       *)
(***************************************************************************)
THEOREM AccessesInOrder == UnitSpec => []MemoryInProgramOrder
<1>1. IInv => MemoryInProgramOrder
  BY DEF IInv, MemoryOK
<1> QED
  BY <1>1, Invariant, PTL
=============================================================================

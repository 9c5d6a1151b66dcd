---------------------------- MODULE IcacheProofs -----------------------------
(***************************************************************************)
(* The instruction cache never goes back behind a flush, for any number of *)
(* sets, ways and lines.  The invariant says where a version older than    *)
(* the last flush may still be: only on the port of a miss that is being   *)
(* drained.  Whatever is cached, looked up or about to fill a way is not.  *)
(***************************************************************************)
EXTENDS Icache, FiniteSetTheorems, WellFoundedInduction, TLAPS

SetIndex == 0 .. SETS - 1
WayContents == [valid : BOOLEAN, dirty : BOOLEAN, tag : Nat, time : Nat, data : Nat]

TypeI ==
  /\ current_state \in {"IDLE", "BUSY", "RDMEM", "WRMEM", "DRAIN"}
  /\ req_line_q \in Lines
  /\ lines \in [Lines -> Nat] /\ flushed \in [Lines -> Nat]
  /\ port \subseteq [line : Lines, version : Nat]
  /\ sets \in [SetIndex -> [Way -> WayContents]]

\* A request is on the port exactly while the controller waits for it.
Pending ==
  /\ mem_req_sent <=> port # {}
  /\ mem_req_sent => current_state \in {"RDMEM", "DRAIN"}
  /\ current_state \in {"BUSY", "WRMEM", "RDMEM"} => asked = {req_line_q}

\* Nothing is older than the flush, except the answer to be drained.
NotStale ==
  /\ \A l \in Lines : flushed[l] <= lines[l]
  /\ current_state = "RDMEM" =>
       \A p \in port : p.line = req_line_q /\ flushed[req_line_q] <= p.version

\* A hit that was looked up is one.
LookedUp ==
  current_state = "BUSY" /\ selected_rd_fire =>
    LET w == sets[read_port.index][read_port.way]
    IN /\ read_port.way \in Way /\ w.valid /\ w.tag = TagOf(req_line_q)

IInv == TypeI /\ Pending /\ NotStale /\ CachedAfterFlush /\ LookedUp
-----------------------------------------------------------------------------
\* By the well-founded inclusion of the initial segments of S.
LEMMA LeastElement ==
  ASSUME NEW S, S \subseteq Nat, IsFiniteSet(S), S # {}
  PROVE  Min(S) \in S
<1> DEFINE Upto(x) == {y \in S : y <= x}
           Segments == {Upto(x) : x \in S}
           R == StrictSubsetOrdering(S)
<1>1. IsWellFoundedOn(R, SUBSET S)
  BY FS_StrictSubsetOrderingWellFounded, FS_FiniteSubsetsOfFinite
<1>2. Segments \subseteq SUBSET S /\ Segments # {}
  OBVIOUS
<1>3. PICK T \in Segments : \A U \in Segments : <<U, T>> \notin R
  <2>1. ASSUME NEW Rel, NEW Dom, IsWellFoundedOn(Rel, Dom), NEW T, T \subseteq Dom, T # {}
        PROVE  \E x \in T : \A y \in T : <<y, x>> \notin Rel
    BY <2>1, WFMin
  <2> HIDE DEF R, Segments
  <2> QED
    BY <1>1, <1>2, <2>1
<1>4. PICK x \in S : T = Upto(x)
  BY <1>3
<1>5. ASSUME NEW y \in S, ~(x <= y)
      PROVE  FALSE
  <2>1. Upto(y) \subseteq Upto(x) /\ x \notin Upto(y) /\ x \in Upto(x)
    <3>1. \A z \in S : z <= y => z <= x
      <4>1. \A a, b, c \in Nat : ~(a <= b) /\ c <= b => c <= a
        OBVIOUS
      <4> QED
        BY <1>5, <4>1
    <3>2. x <= x
      OBVIOUS
    <3> QED
      BY <1>5, <3>1, <3>2
  <2>2. <<Upto(y), Upto(x)>> \in R
    BY <2>1 DEF StrictSubsetOrdering
  <2> QED
    BY <1>3, <1>4, <2>2
<1>6. \E z \in S : \A y \in S : z <= y
  BY <1>5
<1> QED
  BY <1>6 DEF Min

\* Index and tag together are the line.
LEMMA LineParts ==
  ASSUME NEW line \in Lines
  PROVE  Index(line) \in SetIndex /\ TagOf(line) * SETS + Index(line) = line
<1>1. SETS \in Nat /\ SETS > 0 /\ line \in Nat
  BY IcacheAssumption DEF Lines
<1>2. line % SETS \in 0 .. SETS - 1 /\ (line \div SETS) * SETS + (line % SETS) = line
  BY <1>1
<1> QED
  BY <1>2 DEF Index, TagOf, SetIndex
-----------------------------------------------------------------------------
LEMMA LookupHit ==
  ASSUME TypeI, NEW line \in Lines, is_hit(line)
  PROVE  LET s == sets[Index(line)]
             w == hit_way(s, TagOf(line))
         IN w \in Way /\ s[w].valid /\ s[w].tag = TagOf(line)
<1> DEFINE S == hits(sets[Index(line)], TagOf(line))
<1>1. S \subseteq Way /\ S # {}
  BY DEF hits, is_hit, hit, set_of
<1>2. IsFiniteSet(Way) /\ Way \subseteq Nat
  BY WaysAssumption, FS_Interval DEF Way
<1>3. IsFiniteSet(S)
  BY <1>1, <1>2, FS_Subset
<1>4. Min(S) \in S
  BY <1>1, <1>2, <1>3, LeastElement
<1> QED
  BY <1>1, <1>4 DEF hit_way, hits

\* After the lookup of the requested line, a read port that fires is right.
LEMMA LookedUpRight ==
  ASSUME TypeI, NEW line \in Lines, lookup(line).hit
  PROVE  LET w == sets[lookup(line).index][lookup(line).way]
         IN lookup(line).way \in Way /\ w.valid /\ w.tag = TagOf(line)
<1>1. is_hit(line)
  BY DEF lookup, NoRead
<1>2. /\ lookup(line).index = Index(line)
      /\ lookup(line).way = hit_way(sets[Index(line)], TagOf(line))
  BY <1>1 DEF lookup, set_of
<1> QED
  BY <1>1, <1>2, LookupHit

LEMMA InitInvariant == IcacheInit => IInv
<1> SUFFICES ASSUME IcacheInit PROVE IInv
  OBVIOUS
<1> USE DEF IcacheInit
<1>1. 0 \in Lines
  <2>1. \A a, b \in Nat \ {0} : a * b \in Nat /\ a * b >= 1
    OBVIOUS
  <2> QED
    BY <2>1, IcacheAssumption DEF Lines
<1>2. TypeI
  BY <1>1 DEF TypeI, Empty, EmptySet, SetIndex, WayContents
<1>3. Pending /\ LookedUp
  BY DEF Pending, LookedUp
<1>4. NotStale
  BY DEF NotStale
<1>5. CachedAfterFlush
  BY DEF CachedAfterFlush, Empty, EmptySet
<1> QED
  BY <1>2, <1>3, <1>4, <1>5 DEF IInv
-----------------------------------------------------------------------------
(***************************************************************************)
(* One lemma per action.                                                   *)
(***************************************************************************)
LEMMA AcceptStep ==
  ASSUME IInv, NEW line \in Lines, Accept(line)
  PROVE  IInv'
<1>1. TypeI /\ Pending /\ NotStale /\ CachedAfterFlush
  BY DEF IInv
<1>2. TypeI'
  BY <1>1 DEF TypeI, Accept
<1>3. Pending'
  BY <1>1 DEF Pending, Accept
<1>4. NotStale' /\ CachedAfterFlush'
  BY <1>1 DEF NotStale, Pending, CachedAfterFlush, Accept
<1>5. LookedUp'
  <2> SUFFICES ASSUME selected_rd_fire'
               PROVE  LET w == sets'[read_port'.index][read_port'.way]
                      IN /\ read_port'.way \in Way /\ w.valid /\ w.tag = TagOf(req_line_q')
    BY DEF LookedUp, TagOf
  <2>1. lookup(line).hit
    BY DEF selected_rd_fire, Accept
  <2> QED
    BY <1>1, <2>1, LookedUpRight DEF Accept
<1> QED
  BY <1>2, <1>3, <1>4, <1>5 DEF IInv

LEMMA BusyStep ==
  ASSUME IInv, Busy
  PROVE  IInv'
<1>1. TypeI /\ Pending /\ NotStale /\ CachedAfterFlush
  BY DEF IInv
<1>2. TypeI'
  BY <1>1 DEF TypeI, Busy
<1>3. Pending'
  BY <1>1 DEF Pending, Busy
<1>4. NotStale' /\ CachedAfterFlush'
  BY <1>1 DEF NotStale, CachedAfterFlush, Busy
<1>5. LookedUp'
  <2> SUFFICES ASSUME selected_rd_fire'
               PROVE  LET w == sets'[read_port'.index][read_port'.way]
                      IN /\ read_port'.way \in Way /\ w.valid /\ w.tag = TagOf(req_line_q')
    BY DEF LookedUp, TagOf
  <2>1. read_port' = lookup(req_line_q) /\ lookup(req_line_q).hit
    BY DEF selected_rd_fire, Busy, NoRead
  <2> QED
    BY <1>1, <2>1, LookedUpRight DEF Busy, TypeI
<1> QED
  BY <1>2, <1>3, <1>4, <1>5 DEF IInv

LEMMA WaitingStep ==
  ASSUME IInv, Rest \/ Await \/ (\E taken \in BOOLEAN : Request(taken)) \/ Drained
  PROVE  IInv'
<1>1. TypeI /\ Pending /\ NotStale /\ CachedAfterFlush
  BY DEF IInv
<1>2. NoRead.hit = FALSE
  BY DEF NoRead
<1>3. LookedUp'
  <2>1. read_port' = NoRead
    BY DEF Rest, Await, Request, Drained
  <2> QED
    BY <1>2, <2>1 DEF LookedUp, selected_rd_fire
<1>4. CASE Rest
  BY <1>1, <1>3, <1>4 DEF IInv, TypeI, Pending, NotStale, CachedAfterFlush, Rest
<1>5. CASE Await
  <2>1. TypeI' /\ CachedAfterFlush'
    BY <1>1, <1>5 DEF TypeI, CachedAfterFlush, Await
  <2>2. Pending' /\ NotStale'
    BY <1>1, <1>5 DEF Pending, NotStale, Await
  <2> QED
    BY <1>3, <2>1, <2>2 DEF IInv
<1>6. ASSUME NEW taken \in BOOLEAN, Request(taken)
      PROVE  IInv'
  <2>1. req_line_q \in Lines /\ lines[req_line_q] \in Nat
    BY <1>1 DEF TypeI
  <2>2. TypeI' /\ CachedAfterFlush'
    BY <1>1, <1>6, <2>1 DEF TypeI, CachedAfterFlush, Request
  <2>3. Pending'
    <3>1. taken <=> port' # {}
      BY <1>6 DEF Request
    <3> QED
      BY <1>1, <1>6, <3>1 DEF Pending, Request
  <2>4. \A p \in port' : p.line = req_line_q /\ p.version = lines[req_line_q]
    BY <1>6 DEF Request
  <2>5. NotStale'
    BY <1>1, <1>6, <2>1, <2>4 DEF NotStale, Request
  <2> QED
    BY <1>3, <2>2, <2>3, <2>5 DEF IInv
<1>7. CASE Drained
  BY <1>1, <1>3, <1>7 DEF IInv, TypeI, Pending, NotStale, CachedAfterFlush, Drained
<1> QED
  BY <1>4, <1>5, <1>6, <1>7

\* A refill puts into the set what is not older than the last flush.
LEMMA RefillStep ==
  ASSUME IInv, NEW error \in BOOLEAN, LineRead(error)
  PROVE  IInv'
<1>1. TypeI /\ Pending /\ NotStale /\ CachedAfterFlush
  BY DEF IInv
<1>2. LookedUp'
  BY DEF LookedUp, selected_rd_fire, LineRead, NoRead
<1>3. Pending' /\ NotStale'
  BY <1>1 DEF Pending, NotStale, LineRead
<1>4. CASE error
  BY <1>1, <1>2, <1>3, <1>4 DEF IInv, TypeI, CachedAfterFlush, LineRead
<1>5. CASE ~error
  <2> DEFINE i == Index(req_line_q)
             tag == TagOf(req_line_q)
  <2>1. PICK v \in read_versions : sets' = [sets EXCEPT ![i] = Refill(@, tag, v)]
    BY <1>5 DEF LineRead
  <2>2. i \in SetIndex /\ tag * SETS + i = req_line_q /\ req_line_q \in Lines
    BY <1>1, LineParts DEF TypeI
  <2>3. v \in Nat /\ flushed[req_line_q] <= v
    <3>1. PICK p \in port : v \in {p.version, lines[p.line]}
      BY DEF read_versions
    <3>2. p.line = req_line_q /\ flushed[req_line_q] <= p.version
      BY <1>1, <3>1 DEF LineRead, NotStale
    <3> QED
      BY <1>1, <2>2, <3>1, <3>2 DEF TypeI, NotStale
  <2>4. tag \in Nat /\ MaxTime \in Nat
    BY <2>2, IcacheAssumption, WaysAssumption DEF TagOf, Lines, MaxTime
  <2>5. sets[i] \in [Way -> WayContents]
    BY <1>1, <2>2 DEF TypeI
  <2>6. \A w \in Way :
          LET new == Refill(sets[i], tag, v)[w]
              old == sets[i][w]
          IN /\ new \in WayContents
             /\ \/ new.tag = tag /\ new.data = v
                \/ new.valid = old.valid /\ new.tag = old.tag /\ new.data = old.data
    <3> TAKE w \in Way
    <3>1. CASE w = victim_way(sets[i])
      BY <2>3, <2>4, <3>1 DEF Refill, WayContents
    <3>2. CASE w # victim_way(sets[i])
      BY <2>5, <3>2 DEF Refill, WayContents
    <3> QED
      BY <3>1, <3>2
  <2>7. sets' \in [SetIndex -> [Way -> WayContents]]
    <3>1. Refill(sets[i], tag, v) \in [Way -> WayContents]
      BY <2>6 DEF Refill
    <3> QED
      BY <1>1, <2>1, <2>2, <3>1 DEF TypeI
  <2>8. TypeI'
    BY <1>1, <1>5, <2>7 DEF TypeI, LineRead
  <2>9. CachedAfterFlush'
    <3> SUFFICES ASSUME NEW j \in SetIndex, NEW w \in Way, sets'[j][w].valid
                 PROVE  sets'[j][w].data >= flushed[sets'[j][w].tag * SETS + j]
      BY DEF CachedAfterFlush, SetIndex, LineRead
    <3>1. CASE j # i
      BY <1>1, <2>1, <3>1 DEF CachedAfterFlush, SetIndex, TypeI
    <3>2. CASE j = i
      <4>1. sets'[i][w] = Refill(sets[i], tag, v)[w]
        BY <1>1, <2>1, <2>2 DEF TypeI
      <4>2. CASE Refill(sets[i], tag, v)[w].tag = tag /\ Refill(sets[i], tag, v)[w].data = v
        BY <1>1, <2>2, <2>3, <3>2, <4>1, <4>2 DEF TypeI
      <4>3. CASE /\ Refill(sets[i], tag, v)[w].valid = sets[i][w].valid
                 /\ Refill(sets[i], tag, v)[w].tag = sets[i][w].tag
                 /\ Refill(sets[i], tag, v)[w].data = sets[i][w].data
        BY <1>1, <2>2, <3>2, <4>1, <4>3 DEF CachedAfterFlush, SetIndex
      <4> QED
        BY <2>6, <4>2, <4>3
    <3> QED
      BY <3>1, <3>2
  <2> QED
    BY <1>2, <1>3, <2>8, <2>9 DEF IInv
<1> QED
  BY <1>4, <1>5

LEMMA FlushStep ==
  ASSUME IInv, NEW resp \in BOOLEAN, Flush(resp)
  PROVE  IInv'
<1>1. TypeI /\ Pending
  BY DEF IInv
<1>2. 0 \in Lines
  BY <1>1, IcacheAssumption DEF TypeI, Lines
<1>3. TypeI'
  BY <1>1, <1>2 DEF TypeI, Flush, Empty, EmptySet, SetIndex, WayContents
<1>4. Pending' /\ LookedUp'
  BY <1>1 DEF Pending, LookedUp, selected_rd_fire, NoRead, Flush
<1>5. NotStale'
  BY <1>1 DEF NotStale, TypeI, Flush
<1>6. CachedAfterFlush'
  BY DEF CachedAfterFlush, Flush, Empty, EmptySet
<1> QED
  BY <1>3, <1>4, <1>5, <1>6 DEF IInv

LEMMA RewriteStep ==
  ASSUME IInv, NEW line \in Lines, Rewrite(line)
  PROVE  IInv'
<1>1. TypeI /\ Pending /\ NotStale /\ CachedAfterFlush /\ LookedUp
  BY DEF IInv
<1>2. TypeI'
  BY <1>1 DEF TypeI, Rewrite
<1>3. Pending' /\ CachedAfterFlush' /\ LookedUp'
  BY <1>1 DEF Pending, CachedAfterFlush, LookedUp, selected_rd_fire, Rewrite
<1>4. NotStale'
  BY <1>1 DEF NotStale, TypeI, Rewrite
<1> QED
  BY <1>2, <1>3, <1>4 DEF IInv

LEMMA StepInvariant == IInv /\ [IcacheNext]_icacheVars => IInv'
<1>1. ASSUME IInv, IcacheNext
      PROVE  IInv'
  BY <1>1, AcceptStep, BusyStep, WaitingStep, RefillStep, FlushStep, RewriteStep
     DEF IcacheNext, Respond, FlushAny
<1>2. ASSUME IInv, UNCHANGED icacheVars
      PROVE  IInv'
  BY <1>2 DEF IInv, TypeI, Pending, NotStale, CachedAfterFlush, LookedUp, selected_rd_fire, icacheVars
<1> QED
  BY <1>1, <1>2

(***************************************************************************)
(* What is cached is never older than the last flush (Flush, LineRead), for*)
(* any shape of the cache.                                                 *)
(***************************************************************************)
THEOREM CachedLinesFresh == IcacheSpec => []CachedAfterFlush
BY InitInvariant, StepInvariant, PTL DEF IcacheSpec, IInv

LEMMA AnswerFresh ==
  ASSUME IInv, IcacheNext, NEW r \in pm_resp'
  PROVE  \E line \in asked : ~r.nop => r.version >= flushed[line]
<1>1. TypeI /\ Pending /\ CachedAfterFlush /\ LookedUp
  BY DEF IInv
<1>2. CASE Busy
  <2> DEFINE w == sets[read_port.index][read_port.way]
  <2>1. selected_rd_fire /\ r.version = w.data /\ current_state = "BUSY"
    BY <1>2 DEF Busy, Line
  <2>2. /\ read_port.index = Index(req_line_q) /\ req_line_q \in Lines
        /\ read_port.way \in Way /\ w.valid /\ w.tag = TagOf(req_line_q)
    BY <1>1, <2>1 DEF LookedUp, selected_rd_fire, TypeI
  <2>3. /\ Index(req_line_q) \in SetIndex
        /\ TagOf(req_line_q) * SETS + Index(req_line_q) = req_line_q
    BY <2>2, LineParts
  <2>4. w.data >= flushed[req_line_q]
    BY <1>1, <2>2, <2>3 DEF CachedAfterFlush, SetIndex
  <2> QED
    BY <1>1, <2>1, <2>4 DEF Pending
<1>3. CASE \E error \in BOOLEAN : LineRead(error)
  <2>1. r.nop /\ current_state = "RDMEM"
    BY <1>3 DEF LineRead, Nops
  <2> QED
    BY <1>1, <2>1 DEF Pending
<1>4. CASE ~Busy /\ ~(\E error \in BOOLEAN : LineRead(error))
  BY <1>4 DEF IcacheNext, Accept, Rewrite, Rest, Await, Respond, Drained, FlushAny, Flush, Request
<1> QED
  BY <1>2, <1>3, <1>4

(***************************************************************************)
(* The CPU is never given a line older than the last flush: a miss that a  *)
(* flush met answers nothing, and one asked for after it is read after it. *)
(***************************************************************************)
THEOREM AnswersFresh == IcacheSpec => FreshAfterFlush
<1>1. IInv /\ [IcacheNext]_icacheVars =>
        [\A r \in pm_resp' :
           \E line \in asked : ~r.nop => r.version >= flushed[line]]_icacheVars
  BY AnswerFresh
<1> QED
  BY InitInvariant, StepInvariant, <1>1, PTL DEF IcacheSpec, FreshAfterFlush
=============================================================================

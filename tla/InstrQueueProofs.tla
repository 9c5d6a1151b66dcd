-------------------------- MODULE InstrQueueProofs ---------------------------
(***************************************************************************)
(* The instruction queue implements the in-order stream, for every depth,  *)
(* line length and address space, any latency of memory and any redirects. *)
(*                                                                         *)
(* The ring is described by positions: place j is j lines behind the read  *)
(* pointer.  The first Filled places hold lines, Held places are requested *)
(* or filled, and the bases of the lines in them follow on each other up   *)
(* to the next address to fetch.                                           *)
(***************************************************************************)
EXTENDS InstrQueue, SequenceTheorems, TLAPS

Slots == 0 .. QUEUE_DEPTH - 1

\* How far pointer q is ahead of pointer p.
Ahead(p, q) == IF q >= p THEN q - p ELSE q + 2 * QUEUE_DEPTH - p

Held == Ahead(read_ptr, alloc_ptr)
Filled == Ahead(read_ptr, response_ptr)
At(j) == Index(read_ptr + j)

Aligned(pc) == pc \in PC /\ pc % LINE = 0
NextLine(pc) == (pc + LINE) % PCS

Line == [line : Nat, base : Nat, word : Nat, valid : BOOLEAN]

TypeI ==
  /\ read_ptr \in Pointer /\ alloc_ptr \in Pointer /\ response_ptr \in Pointer
  /\ fetch_pc_q \in PC /\ stale_response_count_q \in Nat
  /\ fifo \in [Slots -> Line]
  /\ inflight \in Seq(Nat)

PointersOrdered == Filled <= Held /\ Held <= QUEUE_DEPTH

PlaceOK(j) ==
  LET s == fifo[At(j)]
  IN /\ Aligned(s.base) /\ s.word < LINE
     /\ j > 0 => s.word = 0
     /\ s.valid <=> j < Filled
     /\ s.valid => s.line = s.base
     /\ NextLine(s.base) = IF j + 1 < Held THEN fifo[At(j + 1)].base ELSE fetch_pc_q

Consecutive == \A j \in 0 .. Held - 1 : PlaceOK(j)

Owed ==
  /\ Len(inflight) = stale_response_count_q + (Held - Filled)
  /\ \A j \in Filled .. Held - 1 :
       inflight[stale_response_count_q + 1 + (j - Filled)] = fifo[At(j)].base

IInv == TypeI /\ PointersOrdered /\ Consecutive /\ Owed
-----------------------------------------------------------------------------
(***************************************************************************)
(* Arithmetic of the ring and of lines.                                    *)
(***************************************************************************)
LEMMA Remainder ==
  ASSUME NEW m \in Nat, m > 0, NEW x \in Nat
  PROVE  /\ x < m => x % m = x
         /\ m <= x /\ x < 2 * m => x % m = x - m
         /\ 2 * m <= x /\ x < 3 * m => x % m = x - 2 * m
         /\ 3 * m <= x /\ x < 4 * m => x % m = x - 3 * m
OBVIOUS

LEMMA BumpIs ==
  ASSUME NEW p \in Pointer
  PROVE  /\ p \in Nat /\ p < 2 * QUEUE_DEPTH /\ QUEUE_DEPTH \in Nat /\ QUEUE_DEPTH > 0
         /\ Bump(p) = IF p + 1 = 2 * QUEUE_DEPTH THEN 0 ELSE p + 1
<1> DEFINE m == 2 * QUEUE_DEPTH
<1>1. QUEUE_DEPTH \in Nat /\ QUEUE_DEPTH > 0 /\ p \in Nat /\ p < 2 * QUEUE_DEPTH
  BY QueueAssumption DEF Pointer
<1>2. m \in Nat /\ m > 0 /\ p + 1 \in Nat /\ p + 1 <= m
  BY <1>1
<1>3. Bump(p) = (p + 1) % m
  BY DEF Bump
<1> HIDE DEF m
<1>4. (p + 1) % m = IF p + 1 = m THEN 0 ELSE p + 1
  BY <1>2, Remainder
<1> QED
  BY <1>1, <1>3, <1>4 DEF m

LEMMA IndexIs ==
  ASSUME NEW x \in Nat, x < 4 * QUEUE_DEPTH
  PROVE  Index(x) = IF x < QUEUE_DEPTH THEN x
                    ELSE IF x < 2 * QUEUE_DEPTH THEN x - QUEUE_DEPTH
                    ELSE IF x < 3 * QUEUE_DEPTH THEN x - 2 * QUEUE_DEPTH
                    ELSE x - 3 * QUEUE_DEPTH
BY QueueAssumption, Remainder DEF Index

LEMMA OutstandingIs ==
  ASSUME NEW p \in Pointer, NEW q \in Pointer
  PROVE  (q + 2 * QUEUE_DEPTH - p) % (2 * QUEUE_DEPTH) = Ahead(p, q)
<1> DEFINE m == 2 * QUEUE_DEPTH
           x == q + 2 * QUEUE_DEPTH - p
<1>1. /\ x \in Nat /\ m \in Nat /\ m > 0 /\ x < 2 * m
      /\ Ahead(p, q) = IF x < m THEN x ELSE x - m
  BY QueueAssumption DEF Pointer, Ahead
<1> HIDE DEF m, x
<1>2. x % m = IF x < m THEN x ELSE x - m
  BY <1>1, Remainder
<1> QED
  BY <1>1, <1>2 DEF m, x

\* Places and slots: consecutive places are different slots, and taking a line
\* moves every place one nearer.
LEMMA Places ==
  ASSUME NEW p \in Pointer, NEW j \in 0 .. QUEUE_DEPTH
  PROVE  /\ QUEUE_DEPTH \in Nat /\ QUEUE_DEPTH > 0
         /\ Bump(p) \in Pointer
         /\ Index(p + j) \in Slots
         /\ \A k \in 0 .. QUEUE_DEPTH - 1 :
              j < QUEUE_DEPTH => (Index(p + j) = Index(p + k) <=> j = k)
         /\ j < QUEUE_DEPTH => Index(Bump(p) + j) = Index(p + (j + 1))
         /\ Index(p + 0) = Index(p) /\ Index(p + QUEUE_DEPTH) = Index(p)
<1> DEFINE at(x) == IF x < QUEUE_DEPTH THEN x
                    ELSE IF x < 2 * QUEUE_DEPTH THEN x - QUEUE_DEPTH
                    ELSE IF x < 3 * QUEUE_DEPTH THEN x - 2 * QUEUE_DEPTH
                    ELSE x - 3 * QUEUE_DEPTH
<1>1. /\ QUEUE_DEPTH \in Nat /\ QUEUE_DEPTH > 0 /\ p \in Nat /\ p < 2 * QUEUE_DEPTH
      /\ Bump(p) = IF p + 1 = 2 * QUEUE_DEPTH THEN 0 ELSE p + 1
  BY BumpIs
<1>2. Bump(p) \in Pointer /\ Bump(p) \in Nat
  BY <1>1 DEF Pointer
<1>3. ASSUME NEW q \in Nat, q < 2 * QUEUE_DEPTH, NEW k \in 0 .. QUEUE_DEPTH
      PROVE  Index(q + k) = at(q + k)
  <2>1. q + k \in Nat /\ q + k < 4 * QUEUE_DEPTH
    BY <1>1, <1>3
  <2> QED
    BY <2>1, IndexIs
<1>4. Index(p + j) \in Slots
  <2>1. Index(p + j) = at(p + j)
    BY <1>1, <1>3
  <2> QED
    BY <1>1, <2>1 DEF Slots
<1>5. ASSUME NEW k \in 0 .. QUEUE_DEPTH - 1, j < QUEUE_DEPTH
      PROVE  Index(p + j) = Index(p + k) <=> j = k
  <2>1. k \in 0 .. QUEUE_DEPTH
    BY <1>1
  <2>2. Index(p + j) = at(p + j) /\ Index(p + k) = at(p + k)
    BY <1>1, <1>3, <2>1
  <2> QED
    BY <1>1, <1>5, <2>2
<1>6. ASSUME j < QUEUE_DEPTH
      PROVE  Index(Bump(p) + j) = Index(p + (j + 1))
  <2>1. j + 1 \in 0 .. QUEUE_DEPTH /\ Bump(p) < 2 * QUEUE_DEPTH
    BY <1>1, <1>6
  <2>2. Index(Bump(p) + j) = at(Bump(p) + j) /\ Index(p + (j + 1)) = at(p + (j + 1))
    BY <1>1, <1>2, <1>3, <2>1
  <2> QED
    BY <1>1, <1>6, <2>2
<1>7. Index(p + 0) = Index(p) /\ Index(p + QUEUE_DEPTH) = Index(p)
  <2>1. 0 \in 0 .. QUEUE_DEPTH /\ QUEUE_DEPTH \in 0 .. QUEUE_DEPTH /\ p + 0 = p
    BY <1>1
  <2>2. Index(p + 0) = at(p + 0) /\ Index(p + QUEUE_DEPTH) = at(p + QUEUE_DEPTH)
    BY <1>1, <1>3, <2>1
  <2> QED
    BY <1>1, <2>1, <2>2
<1> QED
  BY <1>1, <1>2, <1>4, <1>5, <1>6, <1>7

\* Distances: how two pointers lie to each other, and how a step of either
\* changes it.
LEMMA Distances ==
  ASSUME NEW p \in Pointer, NEW q \in Pointer
  PROVE  /\ Ahead(p, q) \in Nat /\ Ahead(p, q) < 2 * QUEUE_DEPTH
         /\ Ahead(p, q) = 0 <=> q = p
         /\ Ahead(p, q) <= QUEUE_DEPTH => Index(q) = Index(p + Ahead(p, q))
         /\ Ahead(p, q) + 1 < 2 * QUEUE_DEPTH => Ahead(p, Bump(q)) = Ahead(p, q) + 1
         /\ Ahead(p, q) > 0 => Ahead(Bump(p), q) = Ahead(p, q) - 1
         /\ \A r \in Pointer :
              Ahead(p, r) <= Ahead(p, q) => Ahead(r, q) = Ahead(p, q) - Ahead(p, r)
<1>1. /\ QUEUE_DEPTH \in Nat /\ QUEUE_DEPTH > 0
      /\ p \in Nat /\ p < 2 * QUEUE_DEPTH /\ q \in Nat /\ q < 2 * QUEUE_DEPTH
      /\ Bump(p) = IF p + 1 = 2 * QUEUE_DEPTH THEN 0 ELSE p + 1
      /\ Bump(q) = IF q + 1 = 2 * QUEUE_DEPTH THEN 0 ELSE q + 1
  BY BumpIs
<1>2. Ahead(p, q) \in Nat /\ Ahead(p, q) < 2 * QUEUE_DEPTH
  BY <1>1 DEF Ahead
<1>3. Ahead(p, q) = 0 <=> q = p
  BY <1>1 DEF Ahead
<1>4. ASSUME Ahead(p, q) <= QUEUE_DEPTH
      PROVE  Index(q) = Index(p + Ahead(p, q))
  <2> DEFINE x == p + Ahead(p, q)
  <2>1. /\ x \in Nat /\ x < 4 * QUEUE_DEPTH /\ q < 4 * QUEUE_DEPTH
        /\ x = IF q >= p THEN q ELSE q + 2 * QUEUE_DEPTH
    BY <1>1, <1>4 DEF Ahead
  <2> HIDE DEF x
  <2>2. Index(x) = Index(q)
    BY <1>1, <2>1, IndexIs
  <2> QED
    BY <2>2 DEF x
<1>5. Ahead(p, q) + 1 < 2 * QUEUE_DEPTH => Ahead(p, Bump(q)) = Ahead(p, q) + 1
  BY <1>1 DEF Ahead
<1>6. Ahead(p, q) > 0 => Ahead(Bump(p), q) = Ahead(p, q) - 1
  BY <1>1 DEF Ahead
<1>7. ASSUME NEW r \in Pointer, Ahead(p, r) <= Ahead(p, q)
      PROVE  Ahead(r, q) = Ahead(p, q) - Ahead(p, r)
  <2>1. r \in Nat /\ r < 2 * QUEUE_DEPTH
    BY BumpIs
  <2> QED
    BY <1>1, <1>7, <2>1 DEF Ahead
<1> QED
  BY <1>2, <1>3, <1>4, <1>5, <1>6, <1>7
-----------------------------------------------------------------------------
\* Lines of the address space: the line after an aligned one is aligned.
LEMMA Multiple ==
  ASSUME NEW x \in Nat, x % LINE = 0
  PROVE  \E k \in Nat : x = LINE * k
<1>1. LINE \in Nat /\ LINE > 0
  BY QueueAssumption
<1>2. (x \div LINE) * LINE + (x % LINE) = x /\ x \div LINE \in Nat
  BY <1>1
<1>3. x = LINE * (x \div LINE)
  BY <1>1, <1>2
<1> QED
  BY <1>2, <1>3

LEMMA IsMultiple ==
  ASSUME NEW k \in Nat
  PROVE  LINE * k \in Nat /\ (LINE * k) % LINE = 0
<1>1. LINE \in Nat /\ LINE > 0
  BY QueueAssumption
<1> DEFINE x == LINE * k
<1>2. x \in Nat
  BY <1>1
<1>3. /\ (x \div LINE) * LINE + (x % LINE) = x
      /\ x \div LINE \in Nat /\ x % LINE \in 0 .. LINE - 1
  BY <1>1, <1>2
<1>4. PICK d \in Nat, r \in 0 .. LINE - 1 : d = x \div LINE /\ r = x % LINE /\ d * LINE + r = x
  BY <1>3
<1>5. r = LINE * (k - d)
  BY <1>1, <1>4
<1>6. CASE k - d >= 1
  <2>1. LINE * (k - d) >= LINE
    BY <1>1, <1>6
  <2> QED
    BY <1>1, <1>5, <2>1
<1>7. CASE k - d <= 0 - 1
  <2>1. LINE * (k - d) < 0
    BY <1>1, <1>7
  <2> QED
    BY <1>1, <1>5, <2>1
<1>8. CASE k - d = 0
  BY <1>1, <1>2, <1>4, <1>5, <1>8
<1> QED
  BY <1>6, <1>7, <1>8

LEMMA AlignedLine ==
  ASSUME NEW b, Aligned(b)
  PROVE  /\ b \in Nat /\ b + LINE <= PCS /\ LineOf(b) = b
         /\ NextLine(b) = IF b + LINE = PCS THEN 0 ELSE b + LINE
         /\ Aligned(NextLine(b))
<1>1. /\ LINE \in Nat /\ LINE > 0 /\ PCS \in Nat /\ PCS > 0 /\ PCS % LINE = 0
      /\ b \in Nat /\ b < PCS /\ b % LINE = 0
  BY QueueAssumption DEF Aligned, PC
<1>2. PICK k \in Nat : b = LINE * k
  BY <1>1, Multiple
<1>3. PICK n \in Nat : PCS = LINE * n
  BY <1>1, Multiple
<1>4. k < n
  <2>1. SUFFICES ASSUME n <= k
                 PROVE  FALSE
    OBVIOUS
  <2>2. LINE * n <= LINE * k
    BY <1>1, <2>1
  <2> QED
    BY <1>1, <1>2, <1>3, <2>2
<1>5. b + LINE = LINE * (k + 1)
  BY <1>1, <1>2
<1>6. LINE * (k + 1) <= LINE * n
  <2>1. k + 1 <= n
    BY <1>4
  <2> QED
    BY <1>1, <2>1
<1>7. b + LINE <= PCS
  BY <1>3, <1>5, <1>6
<1>8. (b + LINE) % LINE = 0
  BY <1>5, IsMultiple
<1>9. NextLine(b) = IF b + LINE = PCS THEN 0 ELSE b + LINE
  <2>1. b + LINE \in Nat
    BY <1>1
  <2> QED
    BY <1>1, <1>7, <2>1, Remainder DEF NextLine
<1>10. Aligned(NextLine(b))
  <2>1. 0 % LINE = 0
    BY <1>1
  <2> QED
    BY <1>1, <1>7, <1>8, <1>9, <2>1 DEF Aligned, PC
<1> QED
  BY <1>1, <1>7, <1>9, <1>10 DEF LineOf

LEMMA InLine ==
  ASSUME NEW pc \in PC
  PROVE  /\ Aligned(LineOf(pc)) /\ pc % LINE \in Nat /\ pc % LINE < LINE
         /\ LineOf(pc) + (pc % LINE) = pc
         /\ (LineOf(pc) + LINE) % PCS = NextLine(LineOf(pc))
<1>1. /\ LINE \in Nat /\ LINE > 0 /\ pc \in Nat /\ pc < PCS /\ PCS \in Nat
  BY QueueAssumption DEF PC
<1>2. /\ (pc \div LINE) * LINE + (pc % LINE) = pc /\ pc \div LINE \in Nat
      /\ pc % LINE \in Nat /\ pc % LINE < LINE
  BY <1>1
<1>3. LineOf(pc) = LINE * (pc \div LINE) /\ LineOf(pc) \in Nat /\ LineOf(pc) <= pc
  BY <1>1, <1>2 DEF LineOf
<1>4. LineOf(pc) % LINE = 0
  BY <1>2, <1>3, IsMultiple
<1> QED
  BY <1>1, <1>2, <1>3, <1>4 DEF Aligned, PC, NextLine, LineOf
-----------------------------------------------------------------------------
(***************************************************************************)
(* What the pointers of a state say.                                       *)
(***************************************************************************)
LEMMA Ring ==
  ASSUME TypeI, PointersOrdered
  PROVE  /\ QUEUE_DEPTH \in Nat /\ QUEUE_DEPTH > 0
         /\ Held \in Nat /\ Filled \in Nat /\ Filled <= Held /\ Held <= QUEUE_DEPTH
         /\ queue_empty <=> Held = 0
         /\ queue_full <=> Held = QUEUE_DEPTH
         /\ outstanding_count = Held - Filled
         /\ response_ptr = alloc_ptr <=> Filled = Held
         /\ \A j \in 0 .. QUEUE_DEPTH : At(j) \in Slots
         /\ \A j, k \in 0 .. QUEUE_DEPTH - 1 : At(j) = At(k) <=> j = k
         /\ Index(read_ptr) = At(0) /\ Index(alloc_ptr) = At(Held)
         /\ Index(response_ptr) = At(Filled)
<1>1. /\ read_ptr \in Pointer /\ alloc_ptr \in Pointer /\ response_ptr \in Pointer
      /\ Filled <= Held /\ Held <= QUEUE_DEPTH
  BY DEF TypeI, PointersOrdered
<1>2. QUEUE_DEPTH \in Nat /\ QUEUE_DEPTH > 0
  BY QueueAssumption
<1>3. /\ Held \in Nat /\ Filled \in Nat
      /\ Held = 0 <=> alloc_ptr = read_ptr
      /\ Index(alloc_ptr) = At(Held) /\ Index(response_ptr) = At(Filled)
      /\ Ahead(response_ptr, alloc_ptr) = Held - Filled
  <2>1. /\ Held \in Nat /\ Filled \in Nat
        /\ Held = 0 <=> alloc_ptr = read_ptr
        /\ Index(alloc_ptr) = At(Held)
        /\ Ahead(response_ptr, alloc_ptr) = Held - Filled
    BY <1>1, Distances DEF Held, Filled, At
  <2>2. Filled <= QUEUE_DEPTH
    BY <1>1, <1>2, <2>1, Distances DEF Filled
  <2>3. Index(response_ptr) = At(Filled)
    BY <1>1, <2>2, Distances DEF Filled, At
  <2> QED
    BY <1>1, <2>1, <2>3, Distances DEF Filled
<1>4. \A j \in 0 .. QUEUE_DEPTH : At(j) \in Slots
  BY <1>1, Places DEF At
<1>5. \A j, k \in 0 .. QUEUE_DEPTH - 1 : At(j) = At(k) <=> j = k
  <2> TAKE j, k \in 0 .. QUEUE_DEPTH - 1
  <2>1. j \in 0 .. QUEUE_DEPTH /\ j < QUEUE_DEPTH
    BY <1>2
  <2> QED
    BY <1>1, <2>1, Places DEF At
<1>6. Index(read_ptr) = At(0) /\ At(QUEUE_DEPTH) = At(0)
  BY <1>1, <1>2, Places DEF At
<1>7. queue_full <=> Held = QUEUE_DEPTH
  <2>1. CASE Held = QUEUE_DEPTH
    BY <1>2, <1>3, <1>6, <2>1 DEF queue_full
  <2>2. CASE Held < QUEUE_DEPTH
    <3>1. At(Held) = At(0) <=> Held = 0
      BY <1>2, <1>3, <1>5, <2>2
    <3> QED
      BY <1>2, <1>3, <1>6, <2>2, <3>1 DEF queue_full
  <2> QED
    BY <1>1, <1>2, <1>3, <2>1, <2>2
<1>8. outstanding_count = Held - Filled
  BY <1>1, <1>3, OutstandingIs DEF outstanding_count
<1>9. response_ptr = alloc_ptr <=> Filled = Held
  BY <1>1, <1>3, Distances
<1> QED
  BY <1>1, <1>2, <1>3, <1>4, <1>5, <1>6, <1>7, <1>8, <1>9 DEF queue_empty

\* What is on offer: at most what is left of the oldest line, which has come.
LEMMA Offer ==
  ASSUME IInv, NEW n \in Nat, n <= Len(offered)
  PROVE  /\ n <= 2
         /\ n # 0 => /\ Filled > 0 /\ Held > 0 /\ slot.word \in Nat /\ slot.word + n <= LINE
                     /\ slot.base \in Nat /\ slot.line = slot.base /\ Aligned(slot.base)
                     /\ offered = IF slot.word = LINE - 1 THEN <<slot.base + slot.word>>
                                  ELSE <<slot.base + slot.word, slot.base + slot.word + 1>>
<1>1. /\ Held \in Nat /\ Filled \in Nat
      /\ queue_empty <=> Held = 0
      /\ slot = fifo[At(0)] /\ At(0) \in Slots
  BY Ring DEF IInv, slot
<1>2. CASE ~head_ready
  BY <1>2 DEF offered
<1>3. CASE head_ready
  <2>1. Held > 0 /\ slot.valid
    BY <1>1, <1>3 DEF head_ready
  <2>2. PlaceOK(0)
    BY <1>1, <2>1 DEF IInv, Consecutive
  <2>3. /\ Filled > 0 /\ slot.line = slot.base /\ slot.word < LINE /\ Aligned(slot.base)
    BY <1>1, <2>1, <2>2 DEF PlaceOK
  <2>4. slot.word \in Nat /\ slot.base \in Nat /\ LINE \in Nat
    BY <1>1, QueueAssumption DEF IInv, TypeI, Line
  <2>5. CASE slot.word = LINE - 1
    <3>1. offered = <<slot.base + slot.word>> /\ Len(offered) = 1
      BY <1>3, <2>3, <2>5 DEF offered
    <3> QED
      BY <2>1, <2>3, <2>4, <2>5, <3>1
  <2>6. CASE slot.word # LINE - 1
    <3>1. offered = <<slot.base + slot.word, slot.base + slot.word + 1>> /\ Len(offered) = 2
      BY <1>3, <2>3, <2>6 DEF offered
    <3> QED
      BY <2>1, <2>3, <2>4, <2>6, <3>1
  <2> QED
    BY <2>5, <2>6
<1> QED
  BY <1>2, <1>3
-----------------------------------------------------------------------------
(***************************************************************************)
(* An ordinary cycle.                                                      *)
(***************************************************************************)
pending(fire) == IF fire THEN Append(inflight, LineOf(fetch_pc_q)) ELSE inflight
finishes(n) == n # 0 /\ slot.word + n >= LINE
keeps(resp) == resp /\ stale_response_count_q = 0
one(b) == IF b THEN 1 ELSE 0

Advance(fire, n, resp) ==
  /\ fire \in BOOLEAN /\ resp \in BOOLEAN /\ n \in Nat /\ n <= Len(offered)
  /\ fire => ~queue_full
  /\ resp => pending(fire) # <<>>
  /\ QueueAdvance(fire, n, resp, IF resp THEN Head(pending(fire)) ELSE 0)
  /\ inflight' = IF resp THEN Tail(pending(fire)) ELSE pending(fire)

\* A response that is not stale is for a line that waits for it.
LEMMA KeptWanted ==
  ASSUME IInv, NEW fire, NEW n, NEW resp, Advance(fire, n, resp)
  PROVE  /\ keeps(resp) => Filled < Held + one(fire)
         /\ keeps(resp) = (resp /\ stale_response_count_q = 0 /\ (response_ptr # alloc_ptr \/ fire))
<1>1. /\ Held \in Nat /\ Filled \in Nat /\ Filled <= Held
      /\ response_ptr = alloc_ptr <=> Filled = Held
  BY Ring DEF IInv
<1>2. inflight \in Seq(Nat) /\ Len(inflight) = stale_response_count_q + (Held - Filled)
  BY DEF IInv, TypeI, Owed
<1>3. ASSUME keeps(resp)
      PROVE  fire \/ Filled < Held
  <2>1. SUFFICES ASSUME ~fire, Filled = Held
                 PROVE  FALSE
    BY <1>1
  <2>2. inflight # <<>>
    BY <1>3, <2>1 DEF Advance, pending, keeps
  <2> QED
    BY <1>1, <1>2, <1>3, <2>1, <2>2 DEF keeps
<1> QED
  BY <1>1, <1>3 DEF keeps, one, Advance

\* Where the pointers go, and that places move one nearer with a line taken.
LEMMA PointerStep ==
  ASSUME IInv, NEW fire, NEW n, NEW resp, Advance(fire, n, resp)
  PROVE  /\ read_ptr' \in Pointer /\ alloc_ptr' \in Pointer /\ response_ptr' \in Pointer
         /\ Held' = Held + one(fire) - one(finishes(n))
         /\ Filled' = Filled + one(keeps(resp)) - one(finishes(n))
         /\ PointersOrdered'
         /\ \A j \in 0 .. QUEUE_DEPTH - 1 : At(j)' = At(j + one(finishes(n)))
<1>1. /\ read_ptr \in Pointer /\ alloc_ptr \in Pointer /\ response_ptr \in Pointer
      /\ QUEUE_DEPTH \in Nat /\ QUEUE_DEPTH > 0
      /\ Held \in Nat /\ Filled \in Nat /\ Filled <= Held /\ Held <= QUEUE_DEPTH
      /\ fire => Held < QUEUE_DEPTH
  BY Ring DEF IInv, TypeI, Advance
<1>2. /\ alloc_ptr' = IF fire THEN Bump(alloc_ptr) ELSE alloc_ptr
      /\ read_ptr' = IF finishes(n) THEN Bump(read_ptr) ELSE read_ptr
      /\ response_ptr' = IF keeps(resp) THEN Bump(response_ptr) ELSE response_ptr
  BY KeptWanted DEF Advance, QueueAdvance, finishes
<1>3. /\ read_ptr' \in Pointer /\ alloc_ptr' \in Pointer /\ response_ptr' \in Pointer
      /\ Bump(read_ptr) \in Pointer
  <2>1. 0 \in 0 .. QUEUE_DEPTH
    BY <1>1
  <2> QED
    BY <1>1, <1>2, <2>1, Places
<1>4. /\ finishes(n) => Filled > 0 /\ Held > 0
      /\ keeps(resp) => Filled < Held + one(fire)
  BY KeptWanted, Offer DEF Advance, finishes
<1>5. /\ Ahead(read_ptr, alloc_ptr') = Held + one(fire)
      /\ Ahead(read_ptr, response_ptr') = Filled + one(keeps(resp))
  <2>1. fire => Held + 1 < 2 * QUEUE_DEPTH
    BY <1>1
  <2>2. keeps(resp) => Filled + 1 < 2 * QUEUE_DEPTH
    BY <1>1, <1>4 DEF one
  <2>3. Ahead(read_ptr, alloc_ptr') = Held + one(fire)
    BY <1>1, <1>2, <2>1, Distances DEF Held, one
  <2>4. Ahead(read_ptr, response_ptr') = Filled + one(keeps(resp))
    BY <1>1, <1>2, <2>2, Distances DEF Filled, one
  <2> QED
    BY <2>3, <2>4
<1>6. Held' = Held + one(fire) - one(finishes(n))
  <2>1. CASE finishes(n)
    <3>1. Ahead(read_ptr, alloc_ptr') > 0
      BY <1>1, <1>4, <1>5, <2>1 DEF one
    <3>2. Ahead(Bump(read_ptr), alloc_ptr') = Ahead(read_ptr, alloc_ptr') - 1
      BY <1>1, <1>3, <3>1, Distances
    <3> QED
      BY <1>1, <1>2, <1>5, <2>1, <3>2 DEF Held, one
  <2>2. CASE ~finishes(n)
    <3>1. Held' = Ahead(read_ptr, alloc_ptr')
      BY <1>2, <2>2 DEF Held
    <3> QED
      BY <1>1, <1>5, <2>2, <3>1 DEF one
  <2> QED
    BY <2>1, <2>2
<1>7. Filled' = Filled + one(keeps(resp)) - one(finishes(n))
  <2>1. CASE finishes(n)
    <3>1. Ahead(read_ptr, response_ptr') > 0
      BY <1>1, <1>4, <1>5, <2>1 DEF one
    <3>2. Ahead(Bump(read_ptr), response_ptr') = Ahead(read_ptr, response_ptr') - 1
      BY <1>1, <1>3, <3>1, Distances
    <3> QED
      BY <1>1, <1>2, <1>5, <2>1, <3>2 DEF Filled, one
  <2>2. CASE ~finishes(n)
    <3>1. Filled' = Ahead(read_ptr, response_ptr')
      BY <1>2, <2>2 DEF Filled
    <3> QED
      BY <1>1, <1>5, <2>2, <3>1 DEF one
  <2> QED
    BY <2>1, <2>2
<1>8. PointersOrdered'
  BY <1>1, <1>4, <1>6, <1>7 DEF PointersOrdered, one
<1>9. ASSUME NEW j \in 0 .. QUEUE_DEPTH - 1
      PROVE  At(j)' = At(j + one(finishes(n)))
  <2>1. j \in 0 .. QUEUE_DEPTH /\ j < QUEUE_DEPTH /\ j + 0 = j
    BY <1>1
  <2>2. Index(Bump(read_ptr) + j) = Index(read_ptr + (j + 1))
    BY <1>1, <2>1, Places
  <2> QED
    BY <1>2, <2>1, <2>2 DEF At, one
<1> QED
  BY <1>3, <1>6, <1>7, <1>8, <1>9

\* What is in a place after the cycle.
LEMMA SlotStep ==
  ASSUME IInv, NEW fire, NEW n, NEW resp, Advance(fire, n, resp),
         NEW j \in 0 .. QUEUE_DEPTH - 1
  PROVE  LET s == fifo[At(j)]
             t == fifo'[At(j)]
         IN /\ t.base = IF fire /\ j = Held THEN LineOf(fetch_pc_q) ELSE s.base
            /\ t.word = IF j = 0 /\ n # 0 THEN IF finishes(n) THEN 0 ELSE s.word + n
                        ELSE IF fire /\ j = Held THEN fetch_pc_q % LINE ELSE s.word
            /\ t.valid = IF keeps(resp) /\ j = Filled THEN TRUE
                         ELSE IF (j = 0 /\ finishes(n)) \/ (fire /\ j = Held) THEN FALSE
                         ELSE s.valid
            /\ t.line = IF keeps(resp) /\ j = Filled THEN Head(pending(fire)) ELSE s.line
<1>1. /\ Held \in Nat /\ Filled \in Nat /\ Filled <= Held
      /\ fire => Held \in 0 .. QUEUE_DEPTH - 1
      /\ keeps(resp) => Filled \in 0 .. QUEUE_DEPTH - 1
      /\ 0 \in 0 .. QUEUE_DEPTH - 1
  <2>1. /\ Held \in Nat /\ Filled \in Nat /\ Filled <= Held /\ Held <= QUEUE_DEPTH
        /\ QUEUE_DEPTH \in Nat /\ QUEUE_DEPTH > 0
    BY Ring DEF IInv
  <2>2. /\ fire => Held # QUEUE_DEPTH
        /\ keeps(resp) => Filled < Held + one(fire)
    BY Ring, KeptWanted DEF IInv, Advance
  <2> QED
    BY <2>1, <2>2 DEF one
<1>2. /\ At(j) = Index(read_ptr) <=> j = 0
      /\ fire => (At(j) = Index(alloc_ptr) <=> j = Held)
      /\ keeps(resp) => (At(j) = Index(response_ptr) <=> j = Filled)
      /\ At(j) \in 0 .. QUEUE_DEPTH - 1
  <2>1. /\ Index(read_ptr) = At(0) /\ Index(alloc_ptr) = At(Held)
        /\ Index(response_ptr) = At(Filled)
        /\ \A k \in 0 .. QUEUE_DEPTH - 1 : At(j) = At(k) <=> j = k
    BY Ring DEF IInv
  <2>2. At(j) \in 0 .. QUEUE_DEPTH - 1
    BY Ring DEF IInv, Slots
  <2> QED
    BY <1>1, <2>1, <2>2
<1>3. n # 0 => Held > 0 /\ slot.word \in Nat
  BY Offer DEF Advance
<1>4. fifo[At(j)] \in Line
  BY <1>2 DEF IInv, TypeI, Slots
<1>5. fifo'[At(j)] =
        LET requested == IF fire /\ j = Held
              THEN [fifo[At(j)] EXCEPT !.base = LineOf(fetch_pc_q),
                                       !.word = fetch_pc_q % LINE, !.valid = FALSE]
              ELSE fifo[At(j)]
            consumed == IF n # 0 /\ j = 0
              THEN IF finishes(n) THEN [requested EXCEPT !.word = 0, !.valid = FALSE]
                   ELSE [requested EXCEPT !.word = @ + n]
              ELSE requested
        IN IF keeps(resp) /\ j = Filled
           THEN [consumed EXCEPT !.line = Head(pending(fire)), !.valid = TRUE] ELSE consumed
  <2>1. keeps(resp) = (resp /\ stale_response_count_q = 0 /\ (response_ptr # alloc_ptr \/ fire))
    BY KeptWanted
  <2>2. keeps(resp) => resp
    BY DEF keeps
  <2> QED
    BY <1>2, <2>1, <2>2 DEF Advance, QueueAdvance, finishes
<1>6. ~(n # 0 /\ j = 0 /\ j = Held)
  BY <1>1, <1>3
<1>7. finishes(n) => n # 0
  BY DEF finishes
<1> QED
  BY <1>4, <1>5, <1>6, <1>7 DEF Line

\* The next address to fetch, and the line that is asked for.
LEMMA FetchStep ==
  ASSUME IInv, NEW fire, NEW n, NEW resp, Advance(fire, n, resp)
  PROVE  /\ fetch_pc_q \in PC /\ fetch_pc_q' \in PC
         /\ Held > 0 => Aligned(fetch_pc_q)
         /\ Aligned(fetch_pc_q) => LineOf(fetch_pc_q) = fetch_pc_q /\ fetch_pc_q % LINE = 0
         /\ Aligned(LineOf(fetch_pc_q)) /\ LineOf(fetch_pc_q) \in Nat
         /\ fetch_pc_q % LINE \in Nat /\ fetch_pc_q % LINE < LINE
         /\ fire => fetch_pc_q' = NextLine(LineOf(fetch_pc_q))
         /\ ~fire => fetch_pc_q' = fetch_pc_q
<1>1. fetch_pc_q \in PC
  BY DEF IInv, TypeI
<1>2. /\ Aligned(LineOf(fetch_pc_q)) /\ LineOf(fetch_pc_q) \in Nat
      /\ fetch_pc_q % LINE \in Nat /\ fetch_pc_q % LINE < LINE
      /\ (LineOf(fetch_pc_q) + LINE) % PCS = NextLine(LineOf(fetch_pc_q))
  BY <1>1, InLine DEF Aligned, PC
<1>3. ASSUME Held > 0
      PROVE  Aligned(fetch_pc_q)
  <2>1. Held \in Nat
    BY Ring DEF IInv
  <2>2. PlaceOK(Held - 1)
    BY <1>3, <2>1 DEF IInv, Consecutive
  <2>3. fetch_pc_q = NextLine(fifo[At(Held - 1)].base) /\ Aligned(fifo[At(Held - 1)].base)
    BY <2>1, <2>2 DEF PlaceOK
  <2> QED
    BY <2>3, AlignedLine
<1>4. /\ fire => fetch_pc_q' = NextLine(LineOf(fetch_pc_q))
      /\ ~fire => fetch_pc_q' = fetch_pc_q
  BY <1>2 DEF Advance, QueueAdvance
<1>5. fetch_pc_q' \in PC
  BY <1>1, <1>2, <1>4, AlignedLine DEF Aligned, Advance
<1> QED
  BY <1>1, <1>2, <1>3, <1>4, <1>5, AlignedLine DEF Aligned

LEMMA InflightStep ==
  ASSUME IInv, NEW fire, NEW n, NEW resp, Advance(fire, n, resp)
  PROVE  /\ pending(fire) \in Seq(Nat)
         /\ inflight' \in Seq(Nat)
         /\ Len(pending(fire)) = Len(inflight) + one(fire)
         /\ \A i \in 1 .. Len(inflight) : pending(fire)[i] = inflight[i]
         /\ fire => pending(fire)[Len(inflight) + 1] = LineOf(fetch_pc_q)
         /\ resp => /\ Head(pending(fire)) = pending(fire)[1]
                    /\ Len(inflight') = Len(pending(fire)) - 1
                    /\ \A i \in 1 .. Len(inflight') : inflight'[i] = pending(fire)[i + 1]
         /\ ~resp => inflight' = pending(fire)
<1>1. inflight \in Seq(Nat) /\ LineOf(fetch_pc_q) \in Nat
  BY FetchStep DEF IInv, TypeI
<1>2. /\ pending(fire) \in Seq(Nat)
      /\ Len(pending(fire)) = Len(inflight) + one(fire)
      /\ \A i \in 1 .. Len(inflight) : pending(fire)[i] = inflight[i]
      /\ fire => pending(fire)[Len(inflight) + 1] = LineOf(fetch_pc_q)
  BY <1>1 DEF pending, one
<1>3. inflight' = IF resp THEN Tail(pending(fire)) ELSE pending(fire)
  BY DEF Advance
<1>4. ASSUME resp
      PROVE  /\ inflight' \in Seq(Nat)
             /\ Head(pending(fire)) = pending(fire)[1]
             /\ Len(inflight') = Len(pending(fire)) - 1
             /\ \A i \in 1 .. Len(inflight') : inflight'[i] = pending(fire)[i + 1]
  <2>1. pending(fire) # <<>> /\ inflight' = Tail(pending(fire))
    BY <1>3, <1>4 DEF Advance
  <2> QED
    BY <1>2, <2>1
<1> QED
  BY <1>2, <1>3, <1>4

LEMMA TypeStep ==
  ASSUME IInv, NEW fire, NEW n, NEW resp, Advance(fire, n, resp)
  PROVE  TypeI'
<1>1. stale_response_count_q' \in Nat
  <2>1. stale_response_count_q' =
          IF resp /\ stale_response_count_q # 0 THEN stale_response_count_q - 1
          ELSE stale_response_count_q
    BY DEF Advance, QueueAdvance
  <2> QED
    BY <2>1 DEF IInv, TypeI
<1>2. fifo' \in [Slots -> Line]
  <2> DEFINE line == IF resp THEN Head(pending(fire)) ELSE 0
             base == LineOf(fetch_pc_q)
             word == fetch_pc_q % LINE
             kept == resp /\ stale_response_count_q = 0 /\ (response_ptr # alloc_ptr \/ fire)
             requested(i) == IF fire /\ i = Index(alloc_ptr)
                             THEN [fifo[i] EXCEPT !.base = base, !.word = word, !.valid = FALSE]
                             ELSE fifo[i]
             consumed(i) == IF n # 0 /\ i = Index(read_ptr)
                            THEN IF finishes(n)
                                 THEN [requested(i) EXCEPT !.word = 0, !.valid = FALSE]
                                 ELSE [requested(i) EXCEPT !.word = @ + n]
                            ELSE requested(i)
  <2>1. fifo' = [i \in Slots |-> IF kept /\ i = Index(response_ptr)
                                 THEN [consumed(i) EXCEPT !.line = line, !.valid = TRUE]
                                 ELSE consumed(i)]
    BY DEF Advance, QueueAdvance, Slots, finishes
  <2>2. n \in Nat /\ base \in Nat /\ word \in Nat
    BY FetchStep DEF Advance
  <2>3. line \in Nat
    <3>1. CASE resp
      <4>1. pending(fire) # <<>> /\ pending(fire) \in Seq(Nat) /\ Head(pending(fire)) = pending(fire)[1]
        BY <3>1, InflightStep DEF Advance
      <4> QED
        BY <3>1, <4>1
    <3> QED
      BY <3>1
  <2> HIDE DEF line, base, word, kept
  <2>4. ASSUME NEW i \in Slots
        PROVE  requested(i) \in Line /\ consumed(i) \in Line
    <3>1. fifo[i] \in Line
      BY DEF IInv, TypeI
    <3>2. requested(i) \in Line
      BY <2>2, <3>1 DEF Line
    <3>3. \A r \in Line : /\ [r EXCEPT !.word = 0, !.valid = FALSE] \in Line
                          /\ [r EXCEPT !.word = @ + n] \in Line
      <4> TAKE r \in Line
      <4>1. [r EXCEPT !.word = 0, !.valid = FALSE] \in Line
        BY DEF Line
      <4>2. r.word + n \in Nat
        BY <2>2 DEF Line
      <4>3. \A w \in Nat : [r EXCEPT !.word = w] \in Line
        BY DEF Line
      <4>4. [r EXCEPT !.word = r.word + n] \in Line
        BY <4>2, <4>3
      <4> QED
        BY <4>1, <4>4
    <3> HIDE DEF requested
    <3> QED
      BY <3>2, <3>3
  <2> HIDE DEF consumed
  <2> QED
    BY <2>1, <2>3, <2>4 DEF Line
<1> QED
  BY <1>1, <1>2, PointerStep, FetchStep, InflightStep DEF TypeI

\* The numbers of a cycle, gathered.
LEMMA Counts ==
  ASSUME IInv, NEW fire, NEW n, NEW resp, Advance(fire, n, resp)
  PROVE  /\ fire \in BOOLEAN /\ resp \in BOOLEAN /\ n \in Nat /\ keeps(resp) \in BOOLEAN
         /\ QUEUE_DEPTH \in Nat /\ QUEUE_DEPTH > 0
         /\ Held \in Nat /\ Filled \in Nat /\ Filled <= Held /\ Held <= QUEUE_DEPTH
         /\ fire => Held < QUEUE_DEPTH
         /\ keeps(resp) => Filled < Held + one(fire)
         /\ keeps(resp) <=> resp /\ stale_response_count_q = 0
         /\ finishes(n) => Filled > 0
         /\ Held' = Held + one(fire) - one(finishes(n))
         /\ Filled' = Filled + one(keeps(resp)) - one(finishes(n))
         /\ stale_response_count_q \in Nat
         /\ stale_response_count_q' = IF resp /\ stale_response_count_q # 0
                                      THEN stale_response_count_q - 1
                                      ELSE stale_response_count_q
         /\ Len(inflight) = stale_response_count_q + (Held - Filled)
<1>1. /\ TypeI /\ PointersOrdered
      /\ Len(inflight) = stale_response_count_q + (Held - Filled)
      /\ stale_response_count_q \in Nat
  BY DEF IInv, Owed, TypeI
<1>2. /\ fire \in BOOLEAN /\ resp \in BOOLEAN /\ n \in Nat /\ n <= Len(offered)
      /\ fire => ~queue_full
      /\ stale_response_count_q' = IF resp /\ stale_response_count_q # 0
                                   THEN stale_response_count_q - 1
                                   ELSE stale_response_count_q
  BY DEF Advance, QueueAdvance
<1>3. /\ QUEUE_DEPTH \in Nat /\ QUEUE_DEPTH > 0
      /\ Held \in Nat /\ Filled \in Nat /\ Filled <= Held /\ Held <= QUEUE_DEPTH
      /\ queue_full <=> Held = QUEUE_DEPTH
  BY <1>1, Ring
<1>4. keeps(resp) => Filled < Held + one(fire)
  BY KeptWanted
<1>5. finishes(n) => Filled > 0
  BY <1>2, Offer DEF finishes
<1>6. /\ Held' = Held + one(fire) - one(finishes(n))
      /\ Filled' = Filled + one(keeps(resp)) - one(finishes(n))
  BY PointerStep
<1>7. keeps(resp) \in BOOLEAN /\ (keeps(resp) <=> resp /\ stale_response_count_q = 0)
  BY <1>2 DEF keeps
<1> QED
  BY <1>1, <1>2, <1>3, <1>4, <1>5, <1>6, <1>7

\* A place after the cycle is the place it was, the line taken aside, or the
\* place of the line just asked for.
LEMMA PlaceStep ==
  ASSUME IInv, NEW fire, NEW n, NEW resp, Advance(fire, n, resp), NEW j \in Nat, j < Held'
  PROVE  LET k == j + one(finishes(n))
             s == fifo[At(k)]
             t == fifo'[At(j)']
         IN /\ j \in Nat /\ k \in Nat /\ k < Held + one(fire) /\ k \in 0 .. QUEUE_DEPTH - 1
            /\ j > 0 => k > 0
            /\ k = 0 => ~finishes(n)
            /\ At(j)' = At(k)
            /\ t.base = IF fire /\ k = Held THEN LineOf(fetch_pc_q) ELSE s.base
            /\ k = 0 /\ n # 0 => t.word = s.word + n
            /\ k # 0 \/ n = 0 =>
                 t.word = IF fire /\ k = Held THEN fetch_pc_q % LINE ELSE s.word
            /\ t.valid = IF keeps(resp) /\ k = Filled THEN TRUE
                         ELSE IF fire /\ k = Held THEN FALSE ELSE s.valid
            /\ t.line = IF keeps(resp) /\ k = Filled THEN Head(pending(fire)) ELSE s.line
<1> DEFINE k == j + one(finishes(n))
<1>1. /\ QUEUE_DEPTH \in Nat /\ Held \in Nat /\ Held <= QUEUE_DEPTH
      /\ fire => Held < QUEUE_DEPTH
      /\ Held' = Held + one(fire) - one(finishes(n))
  BY Counts
<1>2. /\ j \in Nat /\ k \in Nat /\ k < Held + one(fire) /\ k \in 0 .. QUEUE_DEPTH - 1
      /\ j \in 0 .. QUEUE_DEPTH - 1
      /\ j > 0 => k > 0
      /\ k = 0 => ~finishes(n)
  BY <1>1 DEF one
<1>3. At(j)' = At(k)
  BY <1>2, PointerStep
<1> HIDE DEF k
<1>4. LET s == fifo[At(k)]
          t == fifo'[At(k)]
      IN /\ t.base = IF fire /\ k = Held THEN LineOf(fetch_pc_q) ELSE s.base
         /\ t.word = IF k = 0 /\ n # 0 THEN IF finishes(n) THEN 0 ELSE s.word + n
                     ELSE IF fire /\ k = Held THEN fetch_pc_q % LINE ELSE s.word
         /\ t.valid = IF keeps(resp) /\ k = Filled THEN TRUE
                      ELSE IF (k = 0 /\ finishes(n)) \/ (fire /\ k = Held) THEN FALSE
                      ELSE s.valid
         /\ t.line = IF keeps(resp) /\ k = Filled THEN Head(pending(fire)) ELSE s.line
  BY <1>2, SlotStep
<1>5. LET s == fifo[At(k)]
          t == fifo'[At(j)']
      IN /\ t.base = IF fire /\ k = Held THEN LineOf(fetch_pc_q) ELSE s.base
         /\ k = 0 /\ n # 0 => t.word = s.word + n
         /\ k # 0 \/ n = 0 =>
              t.word = IF fire /\ k = Held THEN fetch_pc_q % LINE ELSE s.word
         /\ t.valid = IF keeps(resp) /\ k = Filled THEN TRUE
                      ELSE IF fire /\ k = Held THEN FALSE ELSE s.valid
         /\ t.line = IF keeps(resp) /\ k = Filled THEN Head(pending(fire)) ELSE s.line
  BY <1>2, <1>3, <1>4
<1> QED
  BY <1>2, <1>3, <1>5 DEF k

\* Which line a response is: the first that the ring waits for.
LEMMA AnswerStep ==
  ASSUME IInv, NEW fire, NEW n, NEW resp, Advance(fire, n, resp), keeps(resp)
  PROVE  Head(pending(fire)) =
           IF fire /\ Filled = Held THEN LineOf(fetch_pc_q) ELSE fifo[At(Filled)].base
<1>1. /\ Held \in Nat /\ Filled \in Nat /\ Filled <= Held /\ Filled < Held + one(fire)
      /\ stale_response_count_q = 0 /\ resp
      /\ Len(inflight) = Held - Filled /\ fire \in BOOLEAN
  BY Counts
<1>2. Head(pending(fire)) = pending(fire)[1]
  BY <1>1, InflightStep
<1>3. CASE Filled = Held
  <2>1. fire /\ Len(inflight) + 1 = 1
    BY <1>1, <1>3 DEF one
  <2>2. fire => pending(fire)[Len(inflight) + 1] = LineOf(fetch_pc_q)
    BY InflightStep
  <2> QED
    BY <1>2, <1>3, <2>1, <2>2
<1>4. CASE Filled < Held
  <2>1. inflight[stale_response_count_q + 1 + (Filled - Filled)] = fifo[At(Filled)].base
    BY <1>1, <1>4 DEF IInv, Owed
  <2>2. stale_response_count_q + 1 + (Filled - Filled) = 1 /\ 1 \in 1 .. Len(inflight)
    BY <1>1, <1>4
  <2>3. pending(fire)[1] = inflight[1]
    BY <2>2, InflightStep
  <2> QED
    BY <1>1, <1>2, <1>4, <2>1, <2>2, <2>3
<1> QED
  BY <1>1, <1>3, <1>4

LEMMA ConsecutiveStep ==
  ASSUME IInv, NEW fire, NEW n, NEW resp, Advance(fire, n, resp)
  PROVE  Consecutive'
<1> SUFFICES ASSUME NEW j \in Nat, j < Held'
             PROVE  PlaceOK(j)'
  BY Counts DEF Consecutive, one
<1> DEFINE k == j + one(finishes(n))
           s == fifo[At(k)]
           t == fifo'[At(j)']
<1>1. /\ j \in Nat /\ k \in Nat /\ k < Held + one(fire) /\ k \in 0 .. QUEUE_DEPTH - 1
      /\ j > 0 => k > 0
      /\ k = 0 => ~finishes(n)
      /\ t.base = IF fire /\ k = Held THEN LineOf(fetch_pc_q) ELSE s.base
      /\ t.word = IF k = 0 /\ n # 0 THEN s.word + n
                  ELSE IF fire /\ k = Held THEN fetch_pc_q % LINE ELSE s.word
      /\ t.valid = IF keeps(resp) /\ k = Filled THEN TRUE
                   ELSE IF fire /\ k = Held THEN FALSE ELSE s.valid
      /\ t.line = IF keeps(resp) /\ k = Filled THEN Head(pending(fire)) ELSE s.line
  <2>1. /\ j \in Nat /\ k \in Nat /\ k < Held + one(fire) /\ k \in 0 .. QUEUE_DEPTH - 1
        /\ j > 0 => k > 0
        /\ k = 0 => ~finishes(n)
    BY PlaceStep
  <2>2. t.base = IF fire /\ k = Held THEN LineOf(fetch_pc_q) ELSE s.base
    BY PlaceStep
  <2>3. t.word = IF k = 0 /\ n # 0 THEN s.word + n
                 ELSE IF fire /\ k = Held THEN fetch_pc_q % LINE ELSE s.word
    <3>1. k = 0 /\ n # 0 => t.word = s.word + n
      BY PlaceStep
    <3>2. k # 0 \/ n = 0 =>
            t.word = IF fire /\ k = Held THEN fetch_pc_q % LINE ELSE s.word
      BY PlaceStep
    <3> HIDE DEF k, s, t
    <3> QED
      BY <3>1, <3>2
  <2>4. t.valid = IF keeps(resp) /\ k = Filled THEN TRUE
                  ELSE IF fire /\ k = Held THEN FALSE ELSE s.valid
    BY PlaceStep
  <2>5. t.line = IF keeps(resp) /\ k = Filled THEN Head(pending(fire)) ELSE s.line
    BY PlaceStep
  <2> HIDE DEF k, s, t
  <2> QED
    BY <2>1, <2>2, <2>3, <2>4, <2>5
<1>2. /\ Held \in Nat /\ Filled \in Nat /\ Filled <= Held /\ Held <= QUEUE_DEPTH
      /\ QUEUE_DEPTH \in Nat
      /\ Held' = Held + one(fire) - one(finishes(n))
      /\ Filled' = Filled + one(keeps(resp)) - one(finishes(n))
      /\ fire \in BOOLEAN
  BY Counts
<1>3. k < Held =>
        /\ Aligned(s.base) /\ s.word < LINE /\ s.word \in Nat
        /\ k > 0 => s.word = 0
        /\ s.valid <=> k < Filled
        /\ s.valid => s.line = s.base
        /\ NextLine(s.base) = IF k + 1 < Held THEN fifo[At(k + 1)].base ELSE fetch_pc_q
  <2>1. k < Held => PlaceOK(k)
    BY <1>1, <1>2 DEF IInv, Consecutive
  <2>2. s \in Line
    BY <1>1, <1>2, Ring DEF IInv, TypeI
  <2> QED
    BY <2>1, <2>2 DEF PlaceOK, Line
<1>4. /\ Held > 0 => Aligned(fetch_pc_q)
      /\ Aligned(fetch_pc_q) => LineOf(fetch_pc_q) = fetch_pc_q /\ fetch_pc_q % LINE = 0
      /\ Aligned(LineOf(fetch_pc_q))
      /\ fetch_pc_q % LINE \in Nat /\ fetch_pc_q % LINE < LINE
      /\ fire => fetch_pc_q' = NextLine(LineOf(fetch_pc_q))
      /\ ~fire => fetch_pc_q' = fetch_pc_q
  BY FetchStep
<1>5. k < Held \/ (fire /\ k = Held)
  BY <1>1, <1>2 DEF one
<1>6. Aligned(t.base)
  BY <1>1, <1>2, <1>3, <1>4, <1>5
<1>7. t.word < LINE /\ (j > 0 => t.word = 0)
  <2>1. CASE k = 0 /\ n # 0
    <3>1. k < Held /\ s = slot
      BY <1>2, <2>1, Offer, Ring DEF Advance, IInv, slot
    <3>2. s.word + n < LINE
      BY <1>1, <1>3, <2>1, <3>1, QueueAssumption DEF finishes, Advance
    <3> QED
      BY <1>1, <2>1, <3>2
  <2>2. CASE ~(k = 0 /\ n # 0)
    BY <1>1, <1>2, <1>3, <1>4, <1>5, <2>2
  <2> QED
    BY <2>1, <2>2
<1>8. t.valid <=> j < Filled'
  <2>1. j < Filled' <=> k < Filled + one(keeps(resp))
    BY <1>1, <1>2 DEF one
  <2> HIDE DEF k, s, t
  <2> QED
    BY <1>1, <1>2, <1>3, <1>5, <2>1 DEF one
<1>9. t.valid => t.line = t.base
  <2>1. CASE keeps(resp) /\ k = Filled
    <3>1. Head(pending(fire)) = IF fire /\ k = Held THEN LineOf(fetch_pc_q) ELSE s.base
      BY <2>1, AnswerStep
    <3> QED
      BY <1>1, <2>1, <3>1
  <2>2. CASE ~(keeps(resp) /\ k = Filled)
    BY <1>1, <1>2, <1>3, <1>5, <2>2
  <2> QED
    BY <2>1, <2>2
<1>10. NextLine(t.base) = IF j + 1 < Held' THEN fifo'[At(j + 1)'].base ELSE fetch_pc_q'
  <2>1. ASSUME j + 1 < Held'
        PROVE  fifo'[At(j + 1)'].base =
                 IF fire /\ k + 1 = Held THEN LineOf(fetch_pc_q) ELSE fifo[At(k + 1)].base
    <3>1. j + 1 \in Nat /\ j + 1 < Held'
      BY <2>1
    <3>2. (j + 1) + one(finishes(n)) = k + 1
      BY <1>1 DEF one
    <3>3. fifo'[At(j + 1)'].base =
            IF fire /\ (j + 1) + one(finishes(n)) = Held THEN LineOf(fetch_pc_q)
            ELSE fifo[At((j + 1) + one(finishes(n)))].base
      BY <3>1, PlaceStep
    <3> QED
      BY <3>2, <3>3
  <2>2. j + 1 < Held' <=> k + 1 < Held + one(fire)
    BY <1>1, <1>2 DEF one
  <2>3. CASE fire /\ k = Held
    BY <1>1, <1>2, <1>4, <2>2, <2>3 DEF one
  <2>4. CASE k + 1 < Held
    BY <1>1, <1>2, <1>3, <2>1, <2>2, <2>4 DEF one
  <2>5. CASE k + 1 = Held
    BY <1>1, <1>2, <1>3, <1>4, <2>1, <2>2, <2>5 DEF one
  <2> QED
    BY <1>1, <1>2, <1>5, <2>3, <2>4, <2>5
<1> QED
  BY <1>6, <1>7, <1>8, <1>9, <1>10 DEF PlaceOK, Aligned, NextLine, PC

LEMMA OwedStep ==
  ASSUME IInv, NEW fire, NEW n, NEW resp, Advance(fire, n, resp)
  PROVE  Owed'
<1>1. /\ Held \in Nat /\ Filled \in Nat /\ Filled <= Held
      /\ Held' = Held + one(fire) - one(finishes(n))
      /\ Filled' = Filled + one(keeps(resp)) - one(finishes(n))
      /\ stale_response_count_q \in Nat
      /\ fire \in BOOLEAN /\ resp \in BOOLEAN
      /\ keeps(resp) => Filled < Held + one(fire)
  BY Counts
<1>2. stale_response_count_q' =
        IF resp /\ stale_response_count_q # 0 THEN stale_response_count_q - 1
        ELSE stale_response_count_q
  BY Counts
<1>3. Len(inflight) = stale_response_count_q + (Held - Filled)
  BY Counts
<1>4. /\ Len(inflight') = Len(inflight) + one(fire) - one(resp)
      /\ Len(inflight) \in Nat
  BY InflightStep DEF one, IInv, TypeI
<1>5. Len(inflight') = stale_response_count_q' + (Held' - Filled')
  BY <1>1, <1>2, <1>3, <1>4 DEF one, keeps
<1>6. ASSUME NEW j \in Nat, Filled' <= j, j < Held'
      PROVE  inflight'[stale_response_count_q' + 1 + (j - Filled')] = fifo'[At(j)'].base
  <2> DEFINE k == j + one(finishes(n))
             x == stale_response_count_q + 1 + (k - Filled)
             y == stale_response_count_q' + 1 + (j - Filled')
  <2>1. Filled' \in Nat /\ Held' \in Nat
    BY Counts DEF one
  <2>2. fifo'[At(j)'].base = IF fire /\ k = Held THEN LineOf(fetch_pc_q) ELSE fifo[At(k)].base
    BY <1>6, PlaceStep
  <2>4. k \in Nat /\ Filled <= k /\ k < Held + one(fire)
    BY <1>1, <1>6, PlaceStep DEF one
  <2>5. pending(fire)[x] = fifo'[At(j)'].base
    <3>1. CASE k < Held
      <4>1. inflight[x] = fifo[At(k)].base
        BY <1>1, <2>4, <3>1 DEF IInv, Owed
      <4>2. x \in 1 .. Len(inflight)
        BY <1>1, <1>3, <2>4, <3>1
      <4> QED
        BY <1>1, <2>2, <2>4, <3>1, <4>1, <4>2, InflightStep
    <3>2. CASE fire /\ k = Held
      <4>1. x = Len(inflight) + 1
        BY <1>1, <1>3, <3>2
      <4> QED
        BY <2>2, <3>2, <4>1, InflightStep
    <3> QED
      BY <1>1, <2>4, <3>1, <3>2 DEF one
  <2>6. CASE resp
    <3>1. y + 1 = x /\ y \in Nat /\ y >= 1
      BY <1>1, <1>2, <1>6, <2>1, <2>4, <2>6 DEF one, keeps
    <3>2. x <= Len(inflight) + one(fire)
      BY <1>1, <1>3, <2>4 DEF one
    <3>3. y \in 1 .. Len(inflight')
      <4> HIDE DEF k, x, y
      <4> QED
        BY <1>1, <1>4, <2>6, <3>1, <3>2 DEF one
    <3>4. inflight'[y] = pending(fire)[y + 1]
      BY <2>6, <3>3, InflightStep
    <3> QED
      BY <2>5, <3>1, <3>4
  <2>7. CASE ~resp
    <3>1. y = x
      BY <1>1, <1>2, <2>1, <2>4, <2>7 DEF one, keeps
    <3>2. inflight' = pending(fire)
      BY <2>7, InflightStep
    <3> QED
      BY <2>5, <3>1, <3>2
  <2> QED
    BY <2>6, <2>7, <1>1
<1>7. Filled' \in Nat /\ Held' \in Nat
  BY Counts DEF one
<1> QED
  BY <1>5, <1>6, <1>7 DEF Owed

LEMMA AdvanceStep ==
  ASSUME IInv, NEW fire, NEW n, NEW resp, Advance(fire, n, resp)
  PROVE  IInv'
BY TypeStep, PointerStep, ConsecutiveStep, OwedStep DEF IInv
-----------------------------------------------------------------------------
(***************************************************************************)
(* A redirect, and the invariant of the queue.                             *)
(***************************************************************************)
Redirected(target, resp) ==
  /\ target \in PC /\ resp \in BOOLEAN
  /\ resp => inflight # <<>>
  /\ QueueRedirect(target, resp)
  /\ inflight' = IF resp THEN Tail(inflight) ELSE inflight

LEMMA RedirectStep ==
  ASSUME IInv, NEW target, NEW resp, Redirected(target, resp)
  PROVE  IInv' /\ Held' = 0
<1>1. /\ read_ptr' = 0 /\ alloc_ptr' = 0 /\ response_ptr' = 0
      /\ fetch_pc_q' = target /\ target \in PC /\ resp \in BOOLEAN
      /\ stale_response_count_q' = stale_total(resp)
      /\ fifo' = [i \in Slots |-> [fifo[i] EXCEPT !.word = 0, !.valid = FALSE]]
  BY DEF Redirected, QueueRedirect, Slots
<1>2. QUEUE_DEPTH \in Nat /\ QUEUE_DEPTH > 0 /\ 0 \in Pointer
  BY QueueAssumption DEF Pointer
<1>3. Held' = 0 /\ Filled' = 0
  <2>1. Ahead(0, 0) = 0
    BY DEF Ahead
  <2> QED
    BY <1>1, <2>1 DEF Held, Filled
<1>4. /\ stale_response_count_q \in Nat /\ outstanding_count \in Nat
      /\ inflight \in Seq(Nat)
      /\ Len(inflight) = stale_response_count_q + outstanding_count
  BY Ring DEF IInv, TypeI, Owed
<1>5. /\ inflight' \in Seq(Nat)
      /\ Len(inflight') = IF resp THEN Len(inflight) - 1 ELSE Len(inflight)
      /\ resp => Len(inflight) # 0
  <2>1. CASE resp
    <3>1. inflight # <<>> /\ inflight' = Tail(inflight)
      BY <2>1 DEF Redirected
    <3> QED
      BY <1>4, <2>1, <3>1
  <2>2. CASE ~resp
    BY <1>4, <2>2 DEF Redirected
  <2> QED
    BY <1>1, <2>1, <2>2
<1>6. stale_response_count_q' \in Nat /\ Len(inflight') = stale_response_count_q'
  <2>1. stale_total(resp) = IF resp THEN Len(inflight) - 1 ELSE Len(inflight)
    BY <1>1, <1>4, <1>5 DEF stale_total
  <2>2. Len(inflight) \in Nat
    BY <1>4
  <2>3. stale_response_count_q' = stale_total(resp)
    BY <1>1
  <2>4. stale_total(resp) \in Nat
    BY <1>5, <2>1, <2>2
  <2> QED
    BY <1>5, <2>1, <2>3, <2>4
<1>7. fifo' \in [Slots -> Line]
  <2>1. \A i \in Slots : [fifo[i] EXCEPT !.word = 0, !.valid = FALSE] \in Line
    BY DEF IInv, TypeI, Line
  <2> QED
    BY <1>1, <2>1
<1>8. TypeI'
  BY <1>1, <1>2, <1>5, <1>6, <1>7 DEF TypeI
<1>9. PointersOrdered'
  BY <1>2, <1>3 DEF PointersOrdered
<1>10. Consecutive'
  BY <1>3 DEF Consecutive
<1>11. Owed'
  <2>1. \A c \in Nat : c + (0 - 0) = c
    OBVIOUS
  <2>2. \A j \in Filled' .. Held' - 1 : FALSE
    BY <1>3
  <2> QED
    BY <1>3, <1>6, <2>1, <2>2 DEF Owed
<1> QED
  BY <1>3, <1>8, <1>9, <1>10, <1>11 DEF IInv

\* Each cycle is one of the two.
LEMMA CycleCases ==
  ASSUME IInv, NEW accept \in BOOLEAN, NEW resp \in BOOLEAN, NEW count \in 0 .. 2,
         NEW target \in Targets, QueueCycle(accept, resp, count, target)
  PROVE  \/ \E fire \in BOOLEAN, n \in Nat :
              Advance(fire, n, resp) /\ taken' = SubSeq(offered, 1, n) /\ redirected' = {}
         \/ \E t \in PC :
              Redirected(t, resp) /\ taken' = SubSeq(offered, 1, 0) /\ redirected' = {t}
<1>1. CASE target = {}
  <2> DEFINE fire == accept /\ target = {} /\ ~queue_full
             n == consume_actual(count)
  <2>1. fire \in BOOLEAN
    BY <1>1
  <2>2. n \in Nat /\ n <= Len(offered)
    <3>1. Len(offered) \in Nat
      BY DEF offered
    <3> QED
      BY <3>1 DEF consume_actual
  <2>3. /\ resp => pending(fire) # <<>>
        /\ QueueAdvance(fire, n, resp, IF resp THEN Head(pending(fire)) ELSE 0)
        /\ inflight' = IF resp THEN Tail(pending(fire)) ELSE pending(fire)
        /\ taken' = SubSeq(offered, 1, n) /\ redirected' = {}
    BY <1>1 DEF QueueCycle, pending
  <2>4. Advance(fire, n, resp)
    BY <2>1, <2>2, <2>3 DEF Advance
  <2> QED
    BY <2>1, <2>2, <2>3, <2>4
<1>2. CASE target # {}
  <2>1. PICK t \in PC : target = {t}
    BY <1>2 DEF Targets
  <2>2. (CHOOSE u \in target : TRUE) = t
    BY <2>1
  <2>3. /\ resp => inflight # <<>>
        /\ QueueRedirect(t, resp)
        /\ inflight' = IF resp THEN Tail(inflight) ELSE inflight
        /\ taken' = SubSeq(offered, 1, 0) /\ redirected' = {t}
    BY <1>2, <2>1, <2>2 DEF QueueCycle
  <2> QED
    BY <2>1, <2>3 DEF Redirected
<1> QED
  BY <1>1, <1>2

LEMMA InitInvariant == QueueInit => IInv
<1> SUFFICES ASSUME QueueInit PROVE IInv
  OBVIOUS
<1>1. QUEUE_DEPTH \in Nat /\ QUEUE_DEPTH > 0 /\ 0 \in Pointer /\ 0 \in PC
  BY QueueAssumption DEF Pointer, PC
<1>2. Held = 0 /\ Filled = 0
  BY <1>1 DEF QueueInit, Held, Filled, Ahead
<1>3. TypeI
  BY <1>1 DEF QueueInit, TypeI, Slots, Line, EmptySlot
<1> QED
  BY <1>1, <1>2, <1>3 DEF IInv, PointersOrdered, Consecutive, Owed, QueueInit

LEMMA StepInvariant == IInv /\ [QueueNext]_queueVars => IInv'
<1>1. ASSUME IInv, QueueNext
      PROVE  IInv'
  BY <1>1, CycleCases, AdvanceStep, RedirectStep DEF QueueNext
<1>2. ASSUME IInv, UNCHANGED queueVars
      PROVE  IInv'
  BY <1>2 DEF IInv, TypeI, PointersOrdered, Consecutive, PlaceOK, Owed, Held, Filled, At, queueVars
<1> QED
  BY <1>1, <1>2

LEMMA Invariant == QueueSpec => []IInv
BY InitInvariant, StepInvariant, PTL DEF QueueSpec
-----------------------------------------------------------------------------
\* The slots from the response pointer on are the places from Filled on.
LEMMA Outstanding ==
  ASSUME IInv, NEW m \in Nat, Filled + m <= QUEUE_DEPTH
  PROVE  Index(response_ptr + m) = At(Filled + m)
<1>1. /\ QUEUE_DEPTH \in Nat /\ QUEUE_DEPTH > 0
      /\ read_ptr \in Nat /\ read_ptr < 2 * QUEUE_DEPTH
      /\ response_ptr \in Nat /\ response_ptr < 2 * QUEUE_DEPTH
  BY BumpIs DEF IInv, TypeI
<1>2. Filled \in Nat
  BY Ring DEF IInv
<1> DEFINE x == response_ptr + m
           y == read_ptr + (Filled + m)
<1>3. /\ x \in Nat /\ y \in Nat /\ x < 4 * QUEUE_DEPTH /\ y < 4 * QUEUE_DEPTH
      /\ y = x \/ y = x + 2 * QUEUE_DEPTH
  <2>1. Filled = IF response_ptr >= read_ptr THEN response_ptr - read_ptr
                 ELSE response_ptr + 2 * QUEUE_DEPTH - read_ptr
    BY DEF Filled, Ahead
  <2> QED
    BY <1>1, <1>2, <2>1
<1> HIDE DEF x, y
<1>4. Index(x) = Index(y)
  BY <1>1, <1>3, IndexIs
<1> QED
  BY <1>4 DEF x, y, At

(***************************************************************************)
(* Memory owes exactly the stale responses and then those of the lines     *)
(* that the ring waits for, in its order (QueueAdvance, QueueRedirect).    *)
(***************************************************************************)
THEOREM ResponsesPaired == QueueSpec => []ResponsesOwed
<1>1. ASSUME IInv
      PROVE  ResponsesOwed
  <2>1. /\ Held \in Nat /\ Filled \in Nat /\ Filled <= Held /\ Held <= QUEUE_DEPTH
        /\ QUEUE_DEPTH \in Nat
        /\ outstanding_count = Held - Filled
        /\ read_ptr \in Nat /\ response_ptr \in Nat
        /\ stale_response_count_q \in Nat
    BY <1>1, Ring, BumpIs DEF IInv, TypeI
  <2>2. ASSUME NEW k \in 1 .. outstanding_count
        PROVE  inflight[stale_response_count_q + k] = fifo[Index(response_ptr + k - 1)].base
    <3> DEFINE j == Filled + (k - 1)
    <3>1. /\ j \in Filled .. Held - 1 /\ k - 1 \in Nat /\ j <= QUEUE_DEPTH
          /\ stale_response_count_q + 1 + (j - Filled) = stale_response_count_q + k
          /\ response_ptr + k - 1 = response_ptr + (k - 1)
      BY <2>1
    <3>2. inflight[stale_response_count_q + 1 + (j - Filled)] = fifo[At(j)].base
      BY <1>1, <3>1 DEF IInv, Owed
    <3>3. Index(response_ptr + (k - 1)) = At(j)
      BY <1>1, <3>1, Outstanding
    <3> QED
      BY <3>1, <3>2, <3>3
  <2> QED
    BY <1>1, <2>1, <2>2 DEF ResponsesOwed, IInv, Owed
<1> QED
  BY <1>1, Invariant, PTL
-----------------------------------------------------------------------------
(***************************************************************************)
(* The in-order stream.  Its next address is the word to be taken from the *)
(* oldest line, or the next address to fetch.                              *)
(***************************************************************************)
LEMMA StreamPc ==
  ASSUME IInv
  PROVE  next_pc = IF Held = 0 THEN fetch_pc_q ELSE fifo[At(0)].base + fifo[At(0)].word
BY Ring DEF IInv, next_pc, slot

LEMMA StreamPcNext ==
  ASSUME IInv'
  PROVE  next_pc' = IF Held' = 0 THEN fetch_pc_q'
                    ELSE fifo'[At(0)'].base + fifo'[At(0)'].word
<1>1. read_ptr' \in Pointer /\ alloc_ptr' \in Pointer
  BY DEF IInv, TypeI
<1>2. Held' = 0 <=> alloc_ptr' = read_ptr'
  BY <1>1, Distances DEF Held
<1>3. Index(read_ptr') = At(0)'
  <2>1. 0 \in 0 .. QUEUE_DEPTH
    BY QueueAssumption
  <2> QED
    BY <1>1, <2>1, Places DEF At
<1> QED
  BY <1>2, <1>3 DEF next_pc, queue_empty, slot

\* Where the stream goes on after n words.
LEMMA StreamMoves ==
  ASSUME IInv, NEW fire, NEW n, NEW resp, Advance(fire, n, resp)
  PROVE  /\ n = 0 => next_pc' = next_pc
         /\ n # 0 => /\ next_pc = slot.base + slot.word
                     /\ next_pc' = IF next_pc + n = PCS THEN 0 ELSE next_pc + n
<1>1. /\ fire \in BOOLEAN /\ n \in Nat /\ n <= Len(offered)
      /\ Held \in Nat /\ Held' = Held + one(fire) - one(finishes(n))
      /\ finishes(n) => Held > 0
  <2>1. n <= Len(offered)
    BY DEF Advance
  <2> QED
    BY <2>1, Counts
<1>2. next_pc = IF Held = 0 THEN fetch_pc_q ELSE fifo[At(0)].base + fifo[At(0)].word
  BY StreamPc
<1>3. next_pc' = IF Held' = 0 THEN fetch_pc_q' ELSE fifo'[At(0)'].base + fifo'[At(0)'].word
  BY AdvanceStep, StreamPcNext
<1>4. /\ fetch_pc_q \in PC /\ fetch_pc_q \in Nat
      /\ Held > 0 => LineOf(fetch_pc_q) = fetch_pc_q /\ fetch_pc_q % LINE = 0
      /\ LineOf(fetch_pc_q) + (fetch_pc_q % LINE) = fetch_pc_q
      /\ ~fire => fetch_pc_q' = fetch_pc_q
  BY FetchStep, InLine DEF PC
<1>5. Held' > 0 =>
        LET k == one(finishes(n))
        IN /\ fifo'[At(0)'].base = IF fire /\ k = Held THEN LineOf(fetch_pc_q) ELSE fifo[At(k)].base
           /\ k = 0 /\ n # 0 => fifo'[At(0)'].word = fifo[At(k)].word + n
           /\ k # 0 \/ n = 0 =>
                fifo'[At(0)'].word = IF fire /\ k = Held THEN fetch_pc_q % LINE
                                     ELSE fifo[At(k)].word
  <2> SUFFICES ASSUME Held' > 0 PROVE LET k == one(finishes(n))
        IN /\ fifo'[At(0)'].base = IF fire /\ k = Held THEN LineOf(fetch_pc_q) ELSE fifo[At(k)].base
           /\ k = 0 /\ n # 0 => fifo'[At(0)'].word = fifo[At(k)].word + n
           /\ k # 0 \/ n = 0 =>
                fifo'[At(0)'].word = IF fire /\ k = Held THEN fetch_pc_q % LINE
                                     ELSE fifo[At(k)].word
    OBVIOUS
  <2> DEFINE k == 0 + one(finishes(n))
  <2>1. 0 \in Nat /\ 0 < Held' /\ k = one(finishes(n))
    BY DEF one
  <2>2. fifo'[At(0)'].base = IF fire /\ k = Held THEN LineOf(fetch_pc_q) ELSE fifo[At(k)].base
    BY <2>1, PlaceStep
  <2>3. k = 0 /\ n # 0 => fifo'[At(0)'].word = fifo[At(k)].word + n
    BY <2>1, PlaceStep
  <2>4. k # 0 \/ n = 0 =>
          fifo'[At(0)'].word = IF fire /\ k = Held THEN fetch_pc_q % LINE ELSE fifo[At(k)].word
    BY <2>1, PlaceStep
  <2> HIDE DEF k
  <2> QED
    BY <2>1, <2>2, <2>3, <2>4
<1>6. CASE n = 0
  <2>1. ~finishes(n) /\ one(finishes(n)) = 0
    BY <1>6 DEF finishes, one
  <2>2. CASE Held > 0
    BY <1>1, <1>2, <1>3, <1>5, <1>6, <2>1, <2>2 DEF one
  <2>3. CASE Held = 0 /\ fire
    BY <1>1, <1>2, <1>3, <1>4, <1>5, <1>6, <2>1, <2>3 DEF one
  <2>4. CASE Held = 0 /\ ~fire
    <3>1. Held' = 0
      BY <1>1, <2>1, <2>4 DEF one
    <3> QED
      BY <1>2, <1>3, <1>4, <1>6, <2>4, <3>1
  <2> QED
    BY <1>1, <1>6, <2>2, <2>3, <2>4
<1>7. CASE n # 0
  <2>1. /\ Held > 0 /\ slot.word \in Nat /\ slot.word + n <= LINE /\ slot.base \in Nat
        /\ Aligned(slot.base) /\ LINE \in Nat /\ PCS \in Nat
    BY <1>1, <1>7, Offer, QueueAssumption
  <2>2. slot = fifo[At(0)]
    BY Ring DEF IInv, slot
  <2>3. next_pc = slot.base + slot.word
    BY <1>1, <1>2, <2>1, <2>2
  <2>4. /\ slot.base + LINE <= PCS
        /\ NextLine(slot.base) = IF slot.base + LINE = PCS THEN 0 ELSE slot.base + LINE
    BY <2>1, AlignedLine
  <2>5. CASE ~finishes(n)
    <3>1. one(finishes(n)) = 0 /\ slot.word + n < LINE /\ Held' > 0
      BY <1>1, <1>7, <2>1, <2>5 DEF one, finishes
    <3>2. next_pc' = slot.base + (slot.word + n)
      BY <1>1, <1>3, <1>5, <1>7, <2>1, <2>2, <3>1
    <3> QED
      BY <1>1, <1>7, <2>1, <2>3, <2>4, <3>1, <3>2
  <2>6. CASE finishes(n)
    <3>1. one(finishes(n)) = 1 /\ slot.word + n = LINE
      BY <1>1, <2>1, <2>6 DEF one, finishes
    <3>2. NextLine(slot.base) = IF 1 < Held THEN fifo[At(1)].base ELSE fetch_pc_q
      <4>1. PlaceOK(0)
        BY <1>1, <2>1 DEF IInv, Consecutive
      <4> QED
        BY <2>2, <4>1 DEF PlaceOK
    <3>3. next_pc' = NextLine(slot.base)
      <4>1. CASE 1 < Held
        <5>1. PlaceOK(1)
          BY <1>1, <4>1 DEF IInv, Consecutive
        <5>2. fifo[At(1)].word = 0 /\ fifo[At(1)].base \in Nat
          BY <5>1 DEF PlaceOK, Aligned, PC
        <5> QED
          BY <1>1, <1>3, <1>5, <3>1, <3>2, <4>1, <5>2 DEF one
      <4>2. CASE Held = 1 /\ fire
        BY <1>1, <1>3, <1>4, <1>5, <3>1, <3>2, <4>2 DEF one
      <4>3. CASE Held = 1 /\ ~fire
        BY <1>1, <1>3, <1>4, <3>1, <3>2, <4>3 DEF one
      <4> QED
        BY <1>1, <2>1, <4>1, <4>2, <4>3
    <3>4. next_pc + n = slot.base + LINE
      BY <1>1, <2>1, <2>3, <3>1
    <3> QED
      BY <1>7, <2>3, <2>4, <3>3, <3>4
  <2> QED
    BY <2>5, <2>6
<1> QED
  BY <1>6, <1>7

LEMMA Prefixes ==
  ASSUME NEW a \in Nat, NEW b \in Nat
  PROVE  /\ SubSeq(<<a>>, 1, 1) = <<a>>
         /\ SubSeq(<<a, b>>, 1, 1) = <<a>>
         /\ SubSeq(<<a, b>>, 1, 2) = <<a, b>>
<1>1. /\ <<a>> \in Seq(Nat) /\ <<a, b>> \in Seq(Nat) /\ Len(<<a>>) = 1 /\ Len(<<a, b>>) = 2
      /\ <<a>>[1] = a /\ <<a, b>>[1] = a /\ <<a, b>>[2] = b
  OBVIOUS
<1>2. SubSeq(<<a>>, 1, 1) = <<a>>
  BY <1>1, SubSeqFull
<1>3. SubSeq(<<a, b>>, 1, 2) = <<a, b>>
  BY <1>1, SubSeqFull
<1>4. SubSeq(<<a, b>>, 1, 1) = <<a>>
  <2> DEFINE s == SubSeq(<<a, b>>, 1, 1)
  <2>1. s \in Seq(Nat) /\ Len(s) = 1 /\ s[1] = a
    BY <1>1, SubSeqProperties
  <2> HIDE DEF s
  <2>2. s = <<a>>
    BY <1>1, <2>1, SeqEqual
  <2> QED
    BY <2>2 DEF s
<1> QED
  BY <1>2, <1>3, <1>4

LEMMA DeliverStep ==
  ASSUME IInv, NEW fire, NEW n, NEW resp, Advance(fire, n, resp),
         taken' = SubSeq(offered, 1, n), redirected' = {}
  PROVE  Stream!Deliver
<1>1. n \in Nat /\ n <= Len(offered)
  BY DEF Advance
<1>2. CASE n = 0
  <2>1. taken' = <<>>
    BY <1>2 DEF offered
  <2> QED
    BY <1>2, <2>1, StreamMoves DEF Stream!Deliver
<1>3. CASE n # 0
  <2>1. /\ n <= 2 /\ slot.word \in Nat /\ slot.word + n <= LINE /\ slot.base \in Nat
        /\ Aligned(slot.base)
        /\ offered = IF slot.word = LINE - 1 THEN <<slot.base + slot.word>>
                     ELSE <<slot.base + slot.word, slot.base + slot.word + 1>>
    BY <1>1, <1>3, Offer
  <2>2. /\ next_pc = slot.base + slot.word
        /\ next_pc' = IF next_pc + n = PCS THEN 0 ELSE next_pc + n
    BY <1>3, StreamMoves
  <2>3. slot.base + LINE <= PCS /\ PCS \in Nat /\ PCS > 0 /\ LINE \in Nat
    BY <2>1, AlignedLine, QueueAssumption
  <2>4. next_pc \in Nat /\ next_pc + n <= PCS
    BY <1>1, <2>1, <2>2, <2>3
  <2>5. Stream!pc_after(next_pc, n) = next_pc'
    <3>1. next_pc + n \in Nat
      BY <1>1, <2>4
    <3> QED
      BY <2>2, <2>3, <2>4, <3>1, Remainder DEF Stream!pc_after
  <2>6. CASE n = 1
    <3>1. taken' = <<next_pc>>
      BY <2>1, <2>2, <2>6, Prefixes
    <3> QED
      BY <2>5, <2>6, <3>1 DEF Stream!Deliver
  <2>7. CASE n = 2
    <3>1. slot.word # LINE - 1 /\ offered = <<next_pc, next_pc + 1>>
      BY <2>1, <2>2, <2>3, <2>7
    <3>2. taken' = <<next_pc, next_pc + 1>>
      <4>1. next_pc \in Nat /\ next_pc + 1 \in Nat
        BY <2>4
      <4> QED
        BY <2>7, <3>1, <4>1, Prefixes
    <3>3. Stream!pc_after(next_pc, 1) = next_pc + 1
      <4>1. next_pc + 1 \in Nat /\ next_pc + 1 < PCS
        BY <2>3, <2>4, <2>7
      <4> QED
        BY <2>3, <4>1, Remainder DEF Stream!pc_after
    <3> QED
      BY <2>5, <2>7, <3>2, <3>3 DEF Stream!Deliver
  <2> QED
    BY <1>1, <1>3, <2>1, <2>6, <2>7
<1> QED
  BY <1>2, <1>3

(***************************************************************************)
(* The queue implements the in-order stream: every cycle delivers the next *)
(* words of it, or none, or follows a redirect (QueueAdvance,              *)
(* QueueRedirect).                                                         *)
(***************************************************************************)
THEOREM QueueIsStream == QueueSpec => ImplementsStream
<1>1. QueueInit => Stream!StreamInit
  BY DEF QueueInit, Stream!StreamInit, next_pc, queue_empty
<1>2. ASSUME IInv, QueueNext
      PROVE  Stream!Deliver \/ Stream!Redirect
  <2>1. PICK accept \in BOOLEAN, resp \in BOOLEAN, count \in 0 .. 2, target \in Targets :
          QueueCycle(accept, resp, count, target)
    BY <1>2 DEF QueueNext
  <2>2. CASE \E fire \in BOOLEAN, n \in Nat :
               Advance(fire, n, resp) /\ taken' = SubSeq(offered, 1, n) /\ redirected' = {}
    BY <1>2, <2>2, DeliverStep
  <2>3. CASE \E t \in PC :
               Redirected(t, resp) /\ taken' = SubSeq(offered, 1, 0) /\ redirected' = {t}
    <3>1. PICK t \in PC :
            Redirected(t, resp) /\ taken' = SubSeq(offered, 1, 0) /\ redirected' = {t}
      BY <2>3
    <3>2. taken' = <<>>
      BY <3>1 DEF offered
    <3>3. next_pc' = t
      <4>1. IInv' /\ Held' = 0
        BY <1>2, <3>1, RedirectStep
      <4>2. fetch_pc_q' = t
        BY <3>1 DEF Redirected, QueueRedirect
      <4> QED
        BY <4>1, <4>2, StreamPcNext
    <3> QED
      BY <3>1, <3>2, <3>3 DEF Stream!Redirect, Stream!PC, PC
  <2> QED
    BY <1>2, <2>1, <2>2, <2>3, CycleCases
<1>3. ASSUME UNCHANGED queueVars
      PROVE  UNCHANGED Stream!streamVars
  BY <1>3 DEF queueVars, Stream!streamVars, next_pc, queue_empty, slot
<1>4. IInv /\ [QueueNext]_queueVars =>
        [Stream!Deliver \/ Stream!Redirect]_(Stream!streamVars)
  BY <1>2, <1>3
<1> QED
  BY <1>1, <1>4, Invariant, PTL DEF QueueSpec, ImplementsStream, Stream!StreamSpec
=============================================================================

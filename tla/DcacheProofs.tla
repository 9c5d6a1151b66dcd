---------------------------- MODULE DcacheProofs -----------------------------
(***************************************************************************)
(* The data cache is invisible, for any shape of the cache, any stores and *)
(* a memory that may fail: no line is cached twice, a clean line equals    *)
(* memory, the victim is the oldest line, and the cache with the memory    *)
(* behind it is a memory of bytes.                                         *)
(***************************************************************************)
EXTENDS Dcache, FiniteSetTheorems, NaturalsInduction, TLAPS

SetIndex == 0 .. SETS - 1
LineData == [Offset -> Nat]
WordData == [Lane -> Nat]
WayContents ==
  [valid : BOOLEAN, dirty : BOOLEAN, tag : 0 .. TAGS - 1, time : Nat, data : LineData]
Access ==
  [write : BOOLEAN, line : Lines, offset : Offset, strb : SUBSET Lane, data : WordData]

TypeD ==
  /\ current_state \in {"IDLE", "BUSY", "CROSSLINE", "WRMEM", "RDMEM"}
  /\ req_q \in Access /\ mem_req_sent \in BOOLEAN /\ refill_done_q \in BOOLEAN
  /\ wb_q \in [line : Lines, data : LineData]
  /\ cross_q \in [active : BOOLEAN, phase : BOOLEAN, data : WordData, offset : Offset]
  /\ sets \in [SetIndex -> [Way -> WayContents]]
  /\ read_port \in [hit : BOOLEAN, index : SetIndex, way : Way]
  /\ wr_fire \subseteq SetIndex
  /\ lines \in [Lines -> LineData]
  /\ port \in [kind : {"none", "read", "write"}, line : Lines, data : LineData]

\* The ages of k valid ways are the k highest, each once.
ValidWays(s) == {w \in Way : s[w].valid}
Aged(s) ==
  /\ \A v, w \in ValidWays(s) : v # w => s[v].time # s[w].time
  /\ \A w \in ValidWays(s) :
       WAYS > 1 => s[w].time < WAYS /\ s[w].time + Cardinality(ValidWays(s)) >= WAYS

SetsOK == \A i \in SetIndex : OneCopyEach(sets[i]) /\ Aged(sets[i])

\* The access in service: a store stays in its line; a load over two lines is
\* at its first or second half.
InService ==
  /\ req_q.write => \A b \in req_q.strb : req_q.offset + b < LINE_BYTES
  /\ current_state = "IDLE" => ~cross_q.active
  /\ current_state = "CROSSLINE" => cross_q.active /\ cross_q.phase
  /\ cross_q.active =>
       /\ ~req_q.write /\ cross_q.offset + ACCESS - 1 >= LINE_BYTES
       /\ req_q.offset = IF cross_q.phase THEN 0 ELSE cross_q.offset
  /\ current_state # "IDLE" /\ ~cross_q.active /\ ~req_q.write =>
       req_q.offset + ACCESS - 1 < LINE_BYTES
  /\ current_state # "IDLE" => cpu_resp = {}

\* A miss: the line is nowhere, a dirty victim is in the write-back buffer, and
\* when its line is read the victim can be dropped.
Missing ==
  /\ current_state \in {"WRMEM", "RDMEM"} => ~is_hit(req_q.line)
  /\ current_state = "WRMEM" => needs_writeback(set_of(req_q.line)) /\ wb_q = victim(req_q.line)
  /\ current_state = "RDMEM" =>
       LET v == set_of(req_q.line)[victim_way(set_of(req_q.line))]
       IN v.valid => v.data = lines[LineAt(v.tag, Index(req_q.line))]

\* What memory works on is what the controller waits for.
Sent ==
  mem_req_sent =>
    /\ current_state = "WRMEM" => port.line = wb_q.line /\ port.data = wb_q.data
    /\ current_state = "RDMEM" => port.line = req_q.line

\* A hit is still one when its port fires.
LookedUp ==
  /\ current_state = "BUSY" =>
       /\ is_hit(req_q.line)
       /\ read_port \in {NoRead, lookup(req_q.line)}
       /\ req_q.write => selected_wr_fire
  /\ mem_req_sent => current_state \in {"WRMEM", "RDMEM"}

\* The first half of a load over two lines is still what its line holds.
HalfKept ==
  cross_q.active /\ cross_q.phase =>
    \A b \in Lane : cross_q.offset + b < LINE_BYTES =>
      cross_q.data[b] = held(first_line)[cross_q.offset + b]

IInv ==
  /\ TypeD /\ SetsOK /\ CleanMatchesMemory /\ InService /\ Missing /\ Sent /\ LookedUp
  /\ HalfKept

-----------------------------------------------------------------------------
(***************************************************************************)
(* Arithmetic of addresses.                                                *)
(***************************************************************************)
\* Multiplication grows with its factors.
LEMMA Grows ==
  ASSUME NEW n \in Nat, NEW a \in Nat, NEW b \in Nat, a < b
  PROVE  /\ a * n \in Nat /\ b * n \in Nat
         /\ a * n + n <= b * n
<1> DEFINE d == b - (a + 1)
<1>1. d \in Nat /\ b = (a + 1) + d
  OBVIOUS
<1> HIDE DEF d
<1>2. /\ d * n \in Nat /\ a * n \in Nat /\ b * n \in Nat
      /\ ((a + 1) + d) * n = (a * n + n) + d * n
  BY <1>1
<1> QED
  BY <1>1, <1>2

\* Quotient and remainder of a number given by them.
LEMMA Divided ==
  ASSUME NEW n \in Nat, n > 0, NEW q \in Nat, NEW r \in Nat, r < n
  PROVE  /\ q * n + r \in Nat
         /\ (q * n + r) % n = r
         /\ (q * n + r) \div n = q
<1> DEFINE x == q * n + r
           d == x \div n
           m == x % n
<1>1. x \in Nat /\ q * n \in Nat
  OBVIOUS
<1>2. d \in Nat /\ m \in Nat /\ m < n /\ d * n + m = x
  BY <1>1
<1>3. d * n \in Nat
  BY <1>2
<1>4. x = q * n + r
  OBVIOUS
<1> HIDE DEF x, d, m
<1>5. d = q
  <2>1. CASE d < q
    <3>1. d * n + n <= q * n
      BY <1>2, <2>1, Grows
    <3> QED
      BY <1>1, <1>2, <1>3, <1>4, <3>1
  <2>2. CASE q < d
    <3>1. q * n + n <= d * n
      BY <1>2, <2>2, Grows
    <3> QED
      BY <1>1, <1>2, <1>3, <1>4, <3>1
  <2> QED
    BY <1>2, <2>1, <2>2
<1>6. m = r
  BY <1>1, <1>2, <1>4, <1>5
<1> QED
  BY <1>1, <1>5, <1>6 DEF x, d, m

\* Numbers below a product, as quotient and remainder.
LEMMA Parted ==
  ASSUME NEW n \in Nat, n > 0, NEW k \in Nat, NEW x \in Nat, x < k * n
  PROVE  /\ x % n \in Nat /\ x % n < n
         /\ x \div n \in Nat /\ x \div n < k
         /\ (x \div n) * n + (x % n) = x
<1>1. ASSUME NEW d \in Nat, NEW m \in Nat, m < n, d * n + m = x
      PROVE  d < k
  <2> SUFFICES ASSUME ~(d < k)
               PROVE  FALSE
    OBVIOUS
  <2>1. CASE d = k
    BY <1>1, <2>1
  <2>2. CASE k < d
    <3>1. k * n + n <= d * n /\ k * n \in Nat /\ d * n \in Nat
      BY <1>1, <2>2, Grows
    <3> QED
      BY <1>1, <3>1
  <2> QED
    BY <1>1, <2>1, <2>2
<1>2. x % n \in Nat /\ x % n < n /\ x \div n \in Nat /\ (x \div n) * n + (x % n) = x
  OBVIOUS
<1>3. x \div n < k
  BY <1>1, <1>2
<1> QED
  BY <1>2, <1>3

\* The shape of the cache.
LEMMA Shape ==
  /\ SETS \in Nat /\ SETS > 0 /\ TAGS \in Nat /\ TAGS > 0
  /\ LINE_BYTES \in Nat /\ ACCESS \in Nat /\ ACCESS > 0 /\ ACCESS <= LINE_BYTES
  /\ SETS * TAGS \in Nat /\ SETS * TAGS > 0 /\ SETS * TAGS = TAGS * SETS
  /\ 0 \in Lines /\ 0 \in Offset /\ 0 \in SetIndex /\ 0 \in Way
  /\ WAYS \in Nat /\ WAYS > 0
<1>1. \A a, b \in Nat \ {0} : a * b \in Nat /\ a * b > 0 /\ a * b = b * a
  OBVIOUS
<1>2. SETS \in Nat \ {0} /\ TAGS \in Nat \ {0} /\ ACCESS \in Nat \ {0} /\ LINE_BYTES \in Nat
      /\ LINE_BYTES >= ACCESS /\ WAYS \in Nat \ {0}
  BY DcacheAssumption, WaysAssumption
<1>3. SETS * TAGS \in Nat /\ SETS * TAGS > 0 /\ SETS * TAGS = TAGS * SETS
  BY <1>1, <1>2
<1> QED
  BY <1>2, <1>3 DEF Lines, Offset, SetIndex, Way

\* A line is its tag and index.
LEMMA LineParts ==
  ASSUME NEW line \in Lines
  PROVE  /\ Index(line) \in SetIndex /\ TagOf(line) \in 0 .. TAGS - 1
         /\ LineAt(TagOf(line), Index(line)) = line
<1>1. line \in Nat /\ line < TAGS * SETS
  BY Shape DEF Lines
<1>2. /\ Index(line) \in Nat /\ Index(line) < SETS
      /\ TagOf(line) \in Nat /\ TagOf(line) < TAGS
      /\ TagOf(line) * SETS + Index(line) = line
  BY <1>1, Shape, Parted DEF Index, TagOf
<1> QED
  BY <1>2, Shape DEF SetIndex, LineAt

LEMMA PartsLine ==
  ASSUME NEW tag \in 0 .. TAGS - 1, NEW i \in SetIndex
  PROVE  /\ LineAt(tag, i) \in Lines
         /\ Index(LineAt(tag, i)) = i /\ TagOf(LineAt(tag, i)) = tag
<1>1. tag \in Nat /\ tag < TAGS /\ i \in Nat /\ i < SETS
  BY Shape DEF SetIndex
<1>2. /\ tag * SETS + i \in Nat
      /\ (tag * SETS + i) % SETS = i /\ (tag * SETS + i) \div SETS = tag
  BY <1>1, Shape, Divided
<1>3. tag * SETS + SETS <= TAGS * SETS /\ tag * SETS \in Nat
  BY <1>1, Shape, Grows
<1>4. tag * SETS + i < SETS * TAGS
  BY <1>1, <1>2, <1>3, Shape
<1> QED
  BY <1>2, <1>4, Shape DEF LineAt, Lines, Index, TagOf
-----------------------------------------------------------------------------
(***************************************************************************)
(* One set: hits, victims, refills and stores.                             *)
(***************************************************************************)
\* A set of numbers that is not empty has a lowest one.
LEMMA LowestExists ==
  ASSUME NEW S, S \subseteq Nat, S # {}
  PROVE  \E x \in S : \A y \in S : x <= y
<1> DEFINE R == OpToRel(<, Nat)
<1>1. \E x \in S : \A y \in S : ~(<<y, x>> \in R)
  <2>1. IsWellFoundedOn(R, Nat)
    BY NatLessThanWellFounded
  <2> HIDE DEF R
  <2> QED
    BY <2>1, WFMin
<1>2. R = {ss \in Nat \X Nat : ss[1] < ss[2]}
  BY DEF OpToRel
<1> HIDE DEF R
<1>3. \A x, y \in S : <<y, x>> \in R <=> y < x
  BY <1>2
<1>4. PICK x \in S : \A y \in S : ~(<<y, x>> \in R)
  BY <1>1
<1>5. \A y \in S : ~(y < x)
  BY <1>3, <1>4
<1>6. \A y \in S : x <= y
  BY <1>5
<1> QED
  BY <1>6

\* Below a bound, a set of numbers that is not empty has a highest one.
LEMMA HighestExists ==
  ASSUME NEW S, S \subseteq Nat, S # {}, NEW m \in Nat, \A x \in S : x < m
  PROVE  \E x \in S : \A y \in S : y <= x
<1> DEFINE D == {m - x : x \in S}
<1>1. D \subseteq Nat /\ D # {}
  <2>1. \A x \in S : m - x \in Nat
    <3>1. \A x \in Nat : x < m => m - x \in Nat
      OBVIOUS
    <3> QED
      BY <3>1
  <2> QED
    BY <2>1
<1>2. PICK a \in D : \A b \in D : a <= b
  <2> HIDE DEF D
  <2> QED
    BY <1>1, LowestExists
<1>3. PICK x \in S : a = m - x
  OBVIOUS
<1>4. ASSUME NEW y \in S PROVE y <= x
  <2>1. m - y \in D
    OBVIOUS
  <2>2. m - x <= m - y
    BY <1>2, <1>3, <2>1
  <2>3. m \in Nat /\ x \in Nat /\ y \in Nat
    OBVIOUS
  <2> HIDE DEF D
  <2> QED
    BY <2>2, <2>3
<1> QED
  BY <1>4

LEMMA WaysFinite == IsFiniteSet(Way) /\ Cardinality(Way) = WAYS /\ Way \subseteq Nat
<1>1. WAYS \in Nat /\ WAYS > 0
  BY Shape
<1>2. 0 \in Int /\ WAYS - 1 \in Int /\ ~(0 > WAYS - 1) /\ (WAYS - 1) - 0 + 1 = WAYS
  BY <1>1
<1>3. IsFiniteSet(0 .. WAYS - 1) /\ Cardinality(0 .. WAYS - 1) = WAYS
  BY <1>2, FS_Interval
<1> QED
  BY <1>1, <1>3 DEF Way

\* A hit way is a hit, and with one copy of each line the only one.
LEMMA HitWay ==
  ASSUME NEW s, NEW tag, hit(s, tag)
  PROVE  hit_way(s, tag) \in hits(s, tag)
<1>1. hits(s, tag) \subseteq Nat /\ hits(s, tag) # {}
  BY WaysFinite DEF hits, hit
<1>2. \E x \in hits(s, tag) : \A y \in hits(s, tag) : x <= y
  BY <1>1, LowestExists
<1> QED
  BY <1>2 DEF hit_way, Min

LEMMA OneHit ==
  ASSUME NEW s, NEW tag, OneCopyEach(s), NEW w \in hits(s, tag)
  PROVE  hit(s, tag) /\ hits(s, tag) = {w} /\ hit_way(s, tag) = w
<1>1. hits(s, tag) = {w}
  BY DEF OneCopyEach, hits
<1>2. hit(s, tag)
  BY DEF hit
<1>3. hit_way(s, tag) \in hits(s, tag)
  BY <1>2, HitWay
<1> QED
  BY <1>1, <1>2, <1>3

\* A full set has a way of age zero.
LEMMA OldestExists ==
  ASSUME NEW s \in [Way -> WayContents], Aged(s), ValidWays(s) = Way, WAYS > 1
  PROVE  \E w \in Way : s[w].time = 0
<1> SUFFICES ASSUME \A w \in Way : s[w].time # 0
             PROVE  FALSE
  OBVIOUS
<1> DEFINE f == [w \in Way |-> s[w].time]
           T == 1 .. WAYS - 1
<1>1. WAYS \in Nat
  BY Shape
<1>2. f \in [Way -> T]
  <2>1. \A w \in Way : s[w].time \in Nat /\ s[w].time # 0 /\ s[w].time < WAYS
    BY DEF Aged, WayContents
  <2> QED
    BY <1>1, <2>1
<1>3. IsFiniteSet(T) /\ Cardinality(T) < Cardinality(Way)
  <2>1. 1 \in Int /\ WAYS - 1 \in Int /\ ~(1 > WAYS - 1) /\ (WAYS - 1) - 1 + 1 < WAYS
    BY <1>1
  <2>2. IsFiniteSet(T) /\ Cardinality(T) = (WAYS - 1) - 1 + 1
    BY <2>1, FS_Interval
  <2> QED
    BY <2>1, <2>2, WaysFinite
<1>4. \E x, y \in Way : x # y /\ f[x] = f[y]
  <2> HIDE DEF f, T
  <2> QED
    BY <1>2, <1>3, WaysFinite, FS_PigeonHole
<1> QED
  BY <1>4 DEF Aged

\* The victim is an invalid way, or else the oldest of a full set.
LEMMA VictimIs ==
  ASSUME NEW s \in [Way -> WayContents], Aged(s)
  PROVE  /\ victim_way(s) \in Way
         /\ s[victim_way(s)].valid =>
              ValidWays(s) = Way /\ (WAYS > 1 => s[victim_way(s)].time = 0)
<1> DEFINE invalid == {w \in Way : ~s[w].valid}
           oldest == {w \in Way : s[w].time = 0}
<1>1. \A S \in SUBSET Way : S # {} => Max(S) \in S
  <2> TAKE S \in SUBSET Way
  <2> HAVE S # {}
  <2>1. S \subseteq Nat /\ WAYS \in Nat /\ \A x \in S : x < WAYS
    BY Shape DEF Way
  <2>2. PICK x \in S : \A y \in S : y <= x
    BY <2>1, HighestExists
  <2>3. \A y \in S : x >= y
    BY <2>1, <2>2
  <2> QED
    BY <2>3 DEF Max
<1>2. CASE invalid # {}
  BY <1>1, <1>2 DEF victim_way
<1>3. CASE invalid = {}
  <2>1. ValidWays(s) = Way
    BY <1>3 DEF ValidWays
  <2>2. victim_way(s) = IF oldest # {} THEN Max(oldest) ELSE 0
    BY <1>3 DEF victim_way
  <2>3. CASE oldest # {}
    BY <1>1, <2>1, <2>2, <2>3
  <2>4. CASE oldest = {}
    BY <2>1, <2>2, <2>4, Shape, OldestExists
  <2> QED
    BY <2>3, <2>4
<1> QED
  BY <1>2, <1>3

\* What a refill makes of a set: the victim has the line, the other ways their
\* contents at another age.
LEMMA RefillIs ==
  ASSUME NEW s \in [Way -> WayContents], Aged(s), NEW tag \in 0 .. TAGS - 1,
         NEW line \in LineData
  PROVE  LET r == Refill(s, tag, line)
             v == victim_way(s)
         IN /\ r \in [Way -> WayContents] /\ v \in Way
            /\ r[v] = [valid |-> TRUE, dirty |-> FALSE, tag |-> tag, time |-> MaxTime,
                       data |-> line]
            /\ \A w \in Way \ {v} :
                 /\ r[w].valid = s[w].valid /\ r[w].dirty = s[w].dirty
                 /\ r[w].tag = s[w].tag /\ r[w].data = s[w].data
                 /\ r[w].time = IF s[w].time = 0 THEN 0 ELSE s[w].time - 1
<1> DEFINE r == Refill(s, tag, line)
           v == victim_way(s)
<1>1. v \in Way
  BY VictimIs
<1>2. MaxTime \in Nat
  BY Shape DEF MaxTime
<1> HIDE DEF v
<1>3. r = [w \in Way |->
             IF w = v
             THEN [valid |-> TRUE, dirty |-> FALSE, tag |-> tag, time |-> MaxTime, data |-> line]
             ELSE [s[w] EXCEPT !.time = IF @ = 0 THEN 0 ELSE @ - 1]]
  BY DEF Refill, v
<1> HIDE DEF r
<1>4. r[v] = [valid |-> TRUE, dirty |-> FALSE, tag |-> tag, time |-> MaxTime, data |-> line]
  BY <1>1, <1>3
<1>5. ASSUME NEW w \in Way \ {v}
      PROVE  /\ r[w] \in WayContents
             /\ r[w].valid = s[w].valid /\ r[w].dirty = s[w].dirty
             /\ r[w].tag = s[w].tag /\ r[w].data = s[w].data
             /\ r[w].time = IF s[w].time = 0 THEN 0 ELSE s[w].time - 1
  <2>1. s[w] \in WayContents /\ s[w].time \in Nat
    BY DEF WayContents
  <2>2. r[w] = [s[w] EXCEPT !.time = IF @ = 0 THEN 0 ELSE @ - 1]
    BY <1>3
  <2>3. (IF s[w].time = 0 THEN 0 ELSE s[w].time - 1) \in Nat
    BY <2>1
  <2> QED
    BY <2>1, <2>2, <2>3 DEF WayContents
<1>6. r[v] \in WayContents
  BY <1>2, <1>4 DEF WayContents
<1>7. r \in [Way -> WayContents]
  BY <1>3, <1>5, <1>6
<1> QED
  BY <1>1, <1>4, <1>5, <1>7 DEF r, v

\* A refill with a line that is not there keeps one copy of each.
LEMMA RefillHits ==
  ASSUME NEW s \in [Way -> WayContents], Aged(s), NEW tag \in 0 .. TAGS - 1,
         NEW line \in LineData, ~hit(s, tag)
  PROVE  LET r == Refill(s, tag, line)
             v == victim_way(s)
         IN /\ hits(r, tag) = {v}
            /\ \A other : other # tag => hits(r, other) = hits(s, other) \ {v}
            /\ OneCopyEach(s) => OneCopyEach(r)
<1> DEFINE r == Refill(s, tag, line)
           v == victim_way(s)
<1>1. /\ v \in Way /\ r[v].valid /\ r[v].tag = tag
      /\ \A w \in Way \ {v} : r[w].valid = s[w].valid /\ r[w].tag = s[w].tag
  <2>1. /\ v \in Way
        /\ r[v] = [valid |-> TRUE, dirty |-> FALSE, tag |-> tag, time |-> MaxTime,
                   data |-> line]
        /\ \A w \in Way \ {v} : r[w].valid = s[w].valid /\ r[w].tag = s[w].tag
    BY RefillIs
  <2> HIDE DEF r, v
  <2> QED
    BY <2>1
<1>2. \A w \in Way : ~(s[w].valid /\ s[w].tag = tag)
  BY DEF hit, hits
<1> HIDE DEF r, v
<1>3. hits(r, tag) = {v}
  BY <1>1, <1>2 DEF hits
<1>4. \A other : other # tag => hits(r, other) = hits(s, other) \ {v}
  BY <1>1 DEF hits
<1>5. OneCopyEach(s) => OneCopyEach(r)
  BY <1>1, <1>2 DEF OneCopyEach
<1> QED
  BY <1>3, <1>4, <1>5 DEF r, v

\* A refill keeps the ages.
LEMMA RefillAges ==
  ASSUME NEW s \in [Way -> WayContents], Aged(s), NEW tag \in 0 .. TAGS - 1,
         NEW line \in LineData
  PROVE  Aged(Refill(s, tag, line))
<1> DEFINE r == Refill(s, tag, line)
           v == victim_way(s)
           V == ValidWays(s)
           k == Cardinality(V)
<1>1. /\ v \in Way
      /\ r[v] = [valid |-> TRUE, dirty |-> FALSE, tag |-> tag, time |-> MaxTime,
                 data |-> line]
      /\ \A w \in Way \ {v} :
           /\ r[w].valid = s[w].valid
           /\ r[w].time = IF s[w].time = 0 THEN 0 ELSE s[w].time - 1
      /\ s[v].valid => V = Way /\ (WAYS > 1 => s[v].time = 0)
  BY RefillIs, VictimIs
<1> HIDE DEF r, v
<1>2. ValidWays(r) = V \cup {v}
  BY <1>1 DEF ValidWays
<1>3. /\ IsFiniteSet(V) /\ k \in Nat /\ IsFiniteSet(V \cup {v}) /\ Cardinality(V \cup {v}) <= WAYS
      /\ Cardinality(V \cup {v}) = IF v \in V THEN k ELSE k + 1
  <2>1. V \in SUBSET Way /\ V \cup {v} \in SUBSET Way
    BY <1>1 DEF ValidWays
  <2>2. IsFiniteSet(V) /\ IsFiniteSet(V \cup {v}) /\ Cardinality(V \cup {v}) <= WAYS
    BY <2>1, WaysFinite, FS_Subset
  <2> QED
    BY <2>2, FS_CardinalityType, FS_AddElement
<1>4. v \in V => V = Way /\ k = WAYS /\ (WAYS > 1 => s[v].time = 0)
  BY <1>1, WaysFinite DEF ValidWays
<1>5. \A w \in V : w \in Way /\ s[w].time \in Nat
  BY DEF ValidWays, WayContents
<1>6. CASE WAYS > 1
  <2>1. ASSUME NEW w \in V, w # v
        PROVE  /\ s[w].time > 0 /\ s[w].time < WAYS /\ s[w].time + k >= WAYS
               /\ r[w].time = s[w].time - 1
    <3>1. s[w].time < WAYS /\ s[w].time + k >= WAYS
      BY <1>6 DEF Aged
    <3>2. s[w].time # 0
      <4>1. CASE v \in V
        BY <1>4, <1>6, <2>1, <4>1 DEF Aged
      <4>2. CASE v \notin V
        BY <1>3, <1>5, <3>1, <4>2, Shape
      <4> QED
        BY <4>1, <4>2
    <3> QED
      BY <1>1, <1>5, <2>1, <3>1, <3>2
  <2>2. r[v].time = WAYS - 1 /\ WAYS \in Nat
    BY <1>1, <1>6, Shape DEF MaxTime
  <2>3. ASSUME NEW a \in V \cup {v}, NEW b \in V \cup {v}, a # b
        PROVE  r[a].time # r[b].time
    <3>1. CASE a = v
      BY <1>5, <2>1, <2>2, <2>3, <3>1
    <3>2. CASE b = v
      BY <1>5, <2>1, <2>2, <2>3, <3>2
    <3>3. CASE a # v /\ b # v
      <4>1. s[a].time # s[b].time
        BY <2>3, <3>3 DEF Aged
      <4> QED
        BY <1>5, <2>1, <3>3, <4>1
    <3> QED
      BY <3>1, <3>2, <3>3
  <2>4. ASSUME NEW a \in V \cup {v}
        PROVE  r[a].time < WAYS /\ r[a].time + Cardinality(V \cup {v}) >= WAYS
    <3>1. CASE a = v
      <4>1. Cardinality(V \cup {v}) \in Nat /\ Cardinality(V \cup {v}) >= 1
        BY <1>3, <1>4, <1>6, Shape
      <4> QED
        BY <2>2, <3>1, <4>1
    <3>2. CASE a # v
      <4>1. /\ s[a].time > 0 /\ s[a].time < WAYS /\ s[a].time + k >= WAYS
            /\ r[a].time = s[a].time - 1 /\ s[a].time \in Nat
        BY <1>5, <2>1, <3>2
      <4>2. CASE v \in V
        <5>1. k = WAYS /\ Cardinality(V \cup {v}) = WAYS
          BY <1>3, <1>4, <4>2
        <5> HIDE DEF k
        <5> QED
          BY <2>2, <4>1, <5>1
      <4>3. CASE v \notin V
        <5>1. Cardinality(V \cup {v}) = k + 1 /\ k \in Nat
          BY <1>3, <4>3
        <5> HIDE DEF k
        <5> QED
          BY <2>2, <4>1, <5>1
      <4> QED
        BY <4>2, <4>3
    <3> QED
      BY <3>1, <3>2
  <2>5. Aged(r)
    BY <1>2, <2>3, <2>4 DEF Aged
  <2> QED
    BY <2>5 DEF r
<1>7. CASE ~(WAYS > 1)
  <2>1. \A a, b \in Way : a = b
    BY <1>7, Shape DEF Way
  <2>2. Aged(r)
    BY <1>7, <2>1 DEF Aged, ValidWays
  <2> QED
    BY <2>2 DEF r
<1> QED
  BY <1>6, <1>7

\* What a store makes of a set in which its line is.
LEMMA WriteHitIs ==
  ASSUME NEW s \in [Way -> WayContents], NEW tag, hit(s, tag), NEW strb, NEW line \in LineData
  PROVE  LET r == WriteHit(s, tag, strb, line)
             h == hit_way(s, tag)
         IN /\ r \in [Way -> WayContents] /\ h \in Way /\ s[h].valid /\ s[h].tag = tag
            /\ r[h].dirty /\ r[h].data = merge(s[h].data, strb, line)
            /\ \A w \in Way : /\ r[w].valid = s[w].valid /\ r[w].tag = s[w].tag
                              /\ r[w].time = s[w].time
            /\ \A w \in Way \ {h} : r[w] = s[w]
<1> DEFINE r == WriteHit(s, tag, strb, line)
           h == hit_way(s, tag)
           d == merge(s[h].data, strb, line)
<1>1. h \in Way /\ s[h].valid /\ s[h].tag = tag
  BY HitWay DEF hits
<1>2. s[h] \in WayContents
  BY <1>1
<1>3. d \in LineData
  <2>1. s[h].data \in LineData
    BY <1>2 DEF WayContents
  <2> HIDE DEF h
  <2> QED
    BY <2>1 DEF merge, LineData
<1> HIDE DEF h
<1>4. r = [s EXCEPT ![h].data = d, ![h].dirty = TRUE]
  BY DEF WriteHit, h
<1> HIDE DEF d
<1>5. r = [s EXCEPT ![h] = [s[h] EXCEPT !.data = d, !.dirty = TRUE]]
  BY <1>1, <1>2, <1>4 DEF WayContents
<1> HIDE DEF r
<1>6. [s[h] EXCEPT !.data = d, !.dirty = TRUE] \in WayContents
  BY <1>2, <1>3 DEF WayContents
<1>7. r \in [Way -> WayContents] /\ r[h] = [s[h] EXCEPT !.data = d, !.dirty = TRUE]
      /\ \A w \in Way \ {h} : r[w] = s[w]
  BY <1>1, <1>5, <1>6
<1>8. r[h].dirty /\ r[h].data = d /\ r[h].valid = s[h].valid /\ r[h].tag = s[h].tag
      /\ r[h].time = s[h].time
  BY <1>2, <1>7 DEF WayContents
<1>9. \A w \in Way : /\ r[w].valid = s[w].valid /\ r[w].tag = s[w].tag
                     /\ r[w].time = s[w].time
  BY <1>7, <1>8
<1> QED
  BY <1>1, <1>7, <1>8, <1>9 DEF r, h, d
-----------------------------------------------------------------------------
(***************************************************************************)
(* What the address space holds, through a refill, a store and a           *)
(* write-back.                                                             *)
(***************************************************************************)
\* The copy of a line that is cached, else memory's.
LEMMA HeldIs ==
  ASSUME NEW line \in Lines
  PROVE  /\ ~hit(sets[Index(line)], TagOf(line)) => held(line) = lines[line]
         /\ OneCopyEach(sets[Index(line)]) =>
              \A w \in hits(sets[Index(line)], TagOf(line)) : held(line) = sets[Index(line)][w].data
<1>1. \A w \in hits(sets[Index(line)], TagOf(line)) :
        OneCopyEach(sets[Index(line)]) =>
          /\ hit(sets[Index(line)], TagOf(line))
          /\ hit_way(sets[Index(line)], TagOf(line)) = w
  BY OneHit
<1> QED
  BY <1>1 DEF held, is_hit, set_of

LEMMA HeldNext ==
  ASSUME NEW line \in Lines
  PROVE  /\ ~hit(sets'[Index(line)], TagOf(line)) => held(line)' = lines'[line]
         /\ OneCopyEach(sets'[Index(line)]) =>
              \A w \in hits(sets'[Index(line)], TagOf(line)) :
                 held(line)' = sets'[Index(line)][w].data
<1>1. \A w \in hits(sets'[Index(line)], TagOf(line)) :
        OneCopyEach(sets'[Index(line)]) =>
          /\ hit(sets'[Index(line)], TagOf(line))
          /\ hit_way(sets'[Index(line)], TagOf(line)) = w
  BY OneHit
<1>2. held(line)' = IF hit(sets'[Index(line)], TagOf(line))
                    THEN sets'[Index(line)][hit_way(sets'[Index(line)], TagOf(line))].data
                    ELSE lines'[line]
  BY DEF held, is_hit, set_of, Index, TagOf
<1> QED
  BY <1>1, <1>2

\* The bytes of a store.
LEMMA StoreLine ==
  ASSUME NEW r \in Access
  PROVE  cpu_wdata_line(r) \in LineData
<1>1. r.data \in WordData
  BY DEF Access
<1>2. \A b \in Offset :
        (IF b >= r.offset /\ b - r.offset \in Lane THEN r.data[b - r.offset] ELSE 0) \in Nat
  BY <1>1 DEF WordData
<1> QED
  BY <1>2 DEF cpu_wdata_line, LineData

\* A refill loses nothing, if the victim can be dropped.
LEMMA RefillKeeps ==
  ASSUME TypeD, SetsOK, CleanMatchesMemory, NEW line \in Lines, ~is_hit(line),
         LET v == set_of(line)[victim_way(set_of(line))]
         IN v.valid => v.data = lines[LineAt(v.tag, Index(line))],
         sets' = [sets EXCEPT ![Index(line)] = Refill(@, TagOf(line), lines[line])],
         lines' = lines
  PROVE  /\ sets' \in [SetIndex -> [Way -> WayContents]]
         /\ SetsOK' /\ CleanMatchesMemory'
         /\ is_hit(line)'
         /\ \A l \in Lines : held(l)' = held(l)
<1> DEFINE i == Index(line)
           tag == TagOf(line)
           s == sets[i]
           v == victim_way(s)
           r == Refill(s, tag, lines[line])
<1>1. /\ i \in SetIndex /\ tag \in 0 .. TAGS - 1 /\ LineAt(tag, i) = line
      /\ lines[line] \in LineData /\ s \in [Way -> WayContents]
      /\ OneCopyEach(s) /\ Aged(s) /\ ~hit(s, tag)
  BY LineParts DEF TypeD, SetsOK, is_hit, set_of
<1>2. /\ r \in [Way -> WayContents] /\ v \in Way
      /\ r[v].valid /\ ~r[v].dirty /\ r[v].tag = tag /\ r[v].data = lines[line]
      /\ \A w \in Way \ {v} :
           /\ r[w].valid = s[w].valid /\ r[w].dirty = s[w].dirty
           /\ r[w].tag = s[w].tag /\ r[w].data = s[w].data
  <2>1. /\ r \in [Way -> WayContents] /\ v \in Way
        /\ r[v] = [valid |-> TRUE, dirty |-> FALSE, tag |-> tag, time |-> MaxTime,
                   data |-> lines[line]]
        /\ \A w \in Way \ {v} :
             /\ r[w].valid = s[w].valid /\ r[w].dirty = s[w].dirty
             /\ r[w].tag = s[w].tag /\ r[w].data = s[w].data
    BY <1>1, RefillIs
  <2> HIDE DEF r, v, s, i, tag
  <2> QED
    BY <2>1
<1>3. /\ hits(r, tag) = {v} /\ OneCopyEach(r) /\ Aged(r)
      /\ \A other : other # tag => hits(r, other) = hits(s, other) \ {v}
  BY <1>1, RefillHits, RefillAges
<1>4. s[v].valid => s[v].data = lines[LineAt(s[v].tag, i)]
  BY DEF set_of
<1>5. sets' = [sets EXCEPT ![i] = r] /\ sets \in [SetIndex -> [Way -> WayContents]]
  BY DEF TypeD
<1>6. set_of(line)' = sets'[i] /\ is_hit(line)' = hit(sets'[i], tag)
  BY DEF is_hit, set_of, Index, TagOf
<1> HIDE DEF r, v, s, tag, i
<1>7. sets' \in [SetIndex -> [Way -> WayContents]] /\ sets'[i] = r
      /\ \A j \in SetIndex : j # i => sets'[j] = sets[j]
  <2>1. i \in SetIndex /\ r \in [Way -> WayContents]
    BY <1>1, <1>2
  <2> QED
    BY <1>5, <2>1
<1>8. SetsOK'
  BY <1>3, <1>7 DEF SetsOK, SetIndex
<1>9. CleanMatchesMemory'
  <2> SUFFICES ASSUME NEW j \in SetIndex, NEW w \in Way, sets'[j][w].valid, ~sets'[j][w].dirty
               PROVE  sets'[j][w].data = lines[LineAt(sets'[j][w].tag, j)]
    BY DEF CleanMatchesMemory, SetIndex, LineAt
  <2>1. CASE j # i
    BY <1>7, <2>1 DEF CleanMatchesMemory, SetIndex
  <2>2. CASE j = i /\ w = v
    BY <1>1, <1>2, <1>7, <2>2
  <2>3. CASE j = i /\ w # v
    <3>1. s = sets[i]
      BY DEF s
    <3> QED
      BY <1>1, <1>2, <1>7, <2>3, <3>1 DEF CleanMatchesMemory, SetIndex
  <2> QED
    BY <2>1, <2>2, <2>3
<1>10. is_hit(line)'
  BY <1>3, <1>6, <1>7 DEF hit
<1>11. ASSUME NEW l \in Lines
       PROVE  held(l)' = held(l)
  <2>1. Index(l) \in SetIndex /\ TagOf(l) \in 0 .. TAGS - 1 /\ LineAt(TagOf(l), Index(l)) = l
    BY LineParts
  <2>2. s = sets[i]
    BY DEF s
  <2>3. CASE Index(l) # i
    BY <1>7, <2>1, <2>3 DEF held, is_hit, set_of, Index, TagOf
  <2>4. CASE Index(l) = i /\ TagOf(l) = tag
    <3>1. l = line
      BY <1>1, <2>1, <2>4
    <3>2. held(l) = lines[line]
      BY <1>1, <2>2, <2>4, <3>1, HeldIs
    <3>3. held(l)' = r[v].data
      BY <1>3, <1>7, <2>4, HeldNext
    <3> QED
      BY <1>2, <3>2, <3>3
  <2>5. CASE Index(l) = i /\ TagOf(l) # tag
    <3>1. hits(r, TagOf(l)) = hits(s, TagOf(l)) \ {v}
      BY <1>3, <2>5
    <3>2. CASE v \in hits(s, TagOf(l))
      <4>1. s[v].valid /\ s[v].tag = TagOf(l) /\ hits(s, TagOf(l)) = {v}
        BY <1>1, <3>2, OneHit DEF hits
      <4>2. held(l) = s[v].data
        BY <1>1, <2>2, <2>5, <3>2, HeldIs
      <4>3. held(l)' = lines'[l]
        BY <1>7, <2>5, <3>1, <4>1, HeldNext DEF hit
      <4> QED
        BY <1>4, <2>1, <2>5, <4>1, <4>2, <4>3
    <3>3. CASE v \notin hits(s, TagOf(l)) /\ hits(s, TagOf(l)) # {}
      <4>1. PICK w \in hits(s, TagOf(l)) : w # v
        BY <3>3
      <4>2. w \in hits(r, TagOf(l)) /\ w \in Way
        BY <3>1, <4>1 DEF hits
      <4>3. held(l) = s[w].data /\ held(l)' = r[w].data
        BY <1>1, <1>3, <1>7, <2>2, <2>5, <4>1, <4>2, HeldIs, HeldNext
      <4> QED
        BY <1>2, <4>1, <4>2, <4>3
    <3>4. CASE hits(s, TagOf(l)) = {}
      BY <1>7, <2>2, <2>5, <3>1, <3>4, HeldIs, HeldNext DEF hit
    <3> QED
      BY <3>2, <3>3, <3>4
  <2> QED
    BY <2>3, <2>4, <2>5
<1> QED
  BY <1>7, <1>8, <1>9, <1>10, <1>11

\* A store changes what its line holds, and nothing else.
LEMMA StoreKeeps ==
  ASSUME TypeD, SetsOK, CleanMatchesMemory, NEW q \in Access, is_hit(q.line),
         sets' = [sets EXCEPT ![Index(q.line)] =
                    WriteHit(@, TagOf(q.line), cpu_wstrb_line(q), cpu_wdata_line(q))],
         lines' = lines
  PROVE  /\ sets' \in [SetIndex -> [Way -> WayContents]]
         /\ SetsOK' /\ CleanMatchesMemory'
         /\ \A l \in Lines : is_hit(l)' = is_hit(l)
         /\ held(q.line)' = merge(held(q.line), cpu_wstrb_line(q), cpu_wdata_line(q))
         /\ \A l \in Lines \ {q.line} : held(l)' = held(l)
<1> DEFINE i == Index(q.line)
           tag == TagOf(q.line)
           s == sets[i]
           h == hit_way(s, tag)
           strb == cpu_wstrb_line(q)
           data == cpu_wdata_line(q)
           r == WriteHit(s, tag, strb, data)
<1>1. /\ q.line \in Lines /\ i \in SetIndex /\ LineAt(tag, i) = q.line
      /\ s \in [Way -> WayContents]
      /\ OneCopyEach(s) /\ Aged(s) /\ hit(s, tag)
  BY LineParts DEF TypeD, SetsOK, is_hit, set_of, Access
<1>2. data \in LineData
  BY StoreLine
<1>3. /\ r \in [Way -> WayContents] /\ h \in Way /\ s[h].valid /\ s[h].tag = tag
      /\ r[h].dirty /\ r[h].data = merge(s[h].data, strb, data)
      /\ \A w \in Way : /\ r[w].valid = s[w].valid /\ r[w].tag = s[w].tag
                        /\ r[w].time = s[w].time
      /\ \A w \in Way \ {h} : r[w] = s[w]
  <2> HIDE DEF data, strb, i, s, tag
  <2> QED
    BY <1>1, <1>2, WriteHitIs
<1>4. sets' = [sets EXCEPT ![i] = r] /\ sets \in [SetIndex -> [Way -> WayContents]]
  BY DEF TypeD
<1>5. s = sets[i] /\ h \in hits(s, tag)
  BY <1>1, HitWay
<1> HIDE DEF r, h, s, strb, data
<1>6. sets' \in [SetIndex -> [Way -> WayContents]] /\ sets'[i] = r
      /\ \A j \in SetIndex : j # i => sets'[j] = sets[j]
  BY <1>1, <1>3, <1>4
<1>7. OneCopyEach(r) /\ Aged(r) /\ \A t : hits(r, t) = hits(s, t)
  <2>1. ValidWays(r) = ValidWays(s) /\ OneCopyEach(r) /\ \A t : hits(r, t) = hits(s, t)
    BY <1>1, <1>3 DEF ValidWays, OneCopyEach, hits
  <2>2. \A w \in ValidWays(s) : r[w].time = s[w].time
    BY <1>3 DEF ValidWays
  <2> QED
    BY <1>1, <2>1, <2>2 DEF Aged
<1>8. SetsOK'
  BY <1>6, <1>7 DEF SetsOK, SetIndex
<1>9. CleanMatchesMemory'
  <2> SUFFICES ASSUME NEW j \in SetIndex, NEW w \in Way, sets'[j][w].valid, ~sets'[j][w].dirty
               PROVE  sets'[j][w].data = lines[LineAt(sets'[j][w].tag, j)]
    BY DEF CleanMatchesMemory, SetIndex, LineAt
  <2>1. CASE j # i
    BY <1>6, <2>1 DEF CleanMatchesMemory, SetIndex
  <2>2. CASE j = i
    BY <1>3, <1>5, <1>6, <2>2 DEF CleanMatchesMemory, SetIndex
  <2> QED
    BY <2>1, <2>2
<1>10. ASSUME NEW l \in Lines
       PROVE  is_hit(l)' = is_hit(l)
  <2>1. is_hit(l)' = hit(sets'[Index(l)], TagOf(l)) /\ is_hit(l) = hit(sets[Index(l)], TagOf(l))
    BY DEF is_hit, set_of, Index, TagOf
  <2>2. Index(l) \in SetIndex
    BY LineParts
  <2> QED
    BY <1>5, <1>6, <1>7, <2>1, <2>2 DEF hit
<1>11. held(q.line)' = merge(held(q.line), strb, data)
  <2>1. held(q.line) = s[h].data
    BY <1>1, <1>5, HeldIs
  <2>2. h \in hits(sets'[i], tag) /\ OneCopyEach(sets'[i])
    BY <1>5, <1>6, <1>7
  <2>3. \A w \in hits(sets'[Index(q.line)], TagOf(q.line)) :
           OneCopyEach(sets'[Index(q.line)]) => hit(sets'[Index(q.line)], TagOf(q.line))
              /\ hit_way(sets'[Index(q.line)], TagOf(q.line)) = w
    BY OneHit
  <2>4. \A l \in Lines : OneCopyEach(sets'[Index(l)]) =>
            \A w \in hits(sets'[Index(l)], TagOf(l)) : held(l)' = sets'[Index(l)][w].data
    BY HeldNext
  <2>5. held(q.line)' = sets'[i][h].data
    BY <1>1, <2>2, <2>4
  <2> QED
    BY <1>3, <1>6, <2>1, <2>5
<1>12. ASSUME NEW l \in Lines, l # q.line
       PROVE  held(l)' = held(l)
  <2>1. Index(l) \in SetIndex /\ LineAt(TagOf(l), Index(l)) = l
    BY LineParts
  <2>2. CASE Index(l) # i
    BY <1>6, <2>1, <2>2 DEF held, is_hit, set_of, Index, TagOf
  <2>3. CASE Index(l) = i
    <3>1. TagOf(l) # tag
      BY <1>1, <1>12, <2>1, <2>3
    <3>2. CASE hits(s, TagOf(l)) = {}
      BY <1>5, <1>6, <1>7, <2>3, <3>2, HeldIs, HeldNext DEF hit
    <3>3. CASE hits(s, TagOf(l)) # {}
      <4>1. PICK w \in hits(s, TagOf(l)) : TRUE
        BY <3>3
      <4>2. w \in Way /\ w # h
        BY <1>3, <3>1, <4>1 DEF hits
      <4>3. held(l) = s[w].data /\ held(l)' = r[w].data
        BY <1>1, <1>5, <1>6, <1>7, <2>3, <4>1, HeldIs, HeldNext
      <4> QED
        BY <1>3, <4>2, <4>3
    <3> QED
      BY <3>2, <3>3
  <2> QED
    BY <2>2, <2>3
<1> QED
  BY <1>6, <1>8, <1>9, <1>10, <1>11, <1>12 DEF strb, data

\* Writing a cached line back makes memory agree with it.
LEMMA WriteBackKeeps ==
  ASSUME TypeD, SetsOK, CleanMatchesMemory, NEW line \in Lines,
         NEW w \in Way, sets[Index(line)][w].valid,
         LineAt(sets[Index(line)][w].tag, Index(line)) = line,
         lines' = [lines EXCEPT ![line] = sets[Index(line)][w].data],
         sets' = sets
  PROVE  /\ lines' \in [Lines -> LineData] /\ CleanMatchesMemory'
         /\ \A l \in Lines : held(l)' = held(l)
         /\ sets[Index(line)][w].data = lines'[line]
<1> DEFINE i == Index(line)
           e == sets[i][w]
<1>1. /\ i \in SetIndex /\ OneCopyEach(sets[i]) /\ e \in WayContents
      /\ lines \in [Lines -> LineData]
  BY LineParts DEF SetsOK, TypeD
<1>2. e.data \in LineData /\ e.tag \in 0 .. TAGS - 1
  BY <1>1 DEF WayContents
<1>3. TagOf(line) = e.tag
  BY <1>1, <1>2, PartsLine
<1>4. lines' \in [Lines -> LineData] /\ lines'[line] = e.data
      /\ \A l \in Lines : l # line => lines'[l] = lines[l]
  BY <1>1, <1>2
<1>5. w \in hits(sets[i], TagOf(line))
  BY <1>3 DEF hits
<1>6. CleanMatchesMemory'
  <2> SUFFICES ASSUME NEW j \in SetIndex, NEW x \in Way, sets[j][x].valid, ~sets[j][x].dirty
               PROVE  sets[j][x].data = lines'[LineAt(sets[j][x].tag, j)]
    BY DEF CleanMatchesMemory, SetIndex, LineAt
  <2>1. sets[j][x].data = lines[LineAt(sets[j][x].tag, j)]
    BY DEF CleanMatchesMemory, SetIndex
  <2>2. sets[j][x].tag \in 0 .. TAGS - 1
    BY DEF TypeD, WayContents
  <2>3. LineAt(sets[j][x].tag, j) \in Lines /\ Index(LineAt(sets[j][x].tag, j)) = j
        /\ TagOf(LineAt(sets[j][x].tag, j)) = sets[j][x].tag
    BY <2>2, PartsLine
  <2>4. CASE LineAt(sets[j][x].tag, j) = line
    <3>1. j = i /\ x \in hits(sets[i], TagOf(line))
      BY <2>3, <2>4 DEF hits
    <3>2. hits(sets[i], TagOf(line)) = {w}
      BY <1>1, <1>5, OneHit
    <3> QED
      BY <1>4, <2>4, <3>1, <3>2
  <2>5. CASE LineAt(sets[j][x].tag, j) # line
    BY <1>4, <2>1, <2>3, <2>5
  <2> QED
    BY <2>4, <2>5
<1>7. ASSUME NEW l \in Lines
      PROVE  held(l)' = held(l)
  <2>1. CASE l # line
    BY <1>4, <2>1 DEF held, is_hit, set_of, Index, TagOf
  <2>2. CASE l = line
    <3>1. hit(sets[Index(l)], TagOf(l))
      BY <1>5, <2>2 DEF hit
    <3> QED
      BY <3>1 DEF held, is_hit, set_of, Index, TagOf
  <2> QED
    BY <2>1, <2>2
<1> QED
  BY <1>4, <1>6, <1>7
-----------------------------------------------------------------------------
(***************************************************************************)
(* One lemma per action.                                                   *)
(***************************************************************************)
\* A request of the CPU.
LEMMA Requests ==
  ASSUME NEW r \in Loads \cup Stores
  PROVE  /\ r \in Access
         /\ r.write => \A b \in r.strb : r.offset + b < LINE_BYTES
<1>1. CASE r \in Loads
  <2>1. ZeroWord \in WordData
    BY DEF ZeroWord, WordData
  <2> QED
    BY <1>1, <2>1 DEF Loads, Access
<1>2. CASE r \in Stores
  <2>1. StoreData \subseteq WordData
    BY DcacheAssumption DEF WordData, Lane
  <2> QED
    BY <1>2, <2>1 DEF Stores, Access
<1> QED
  BY <1>1, <1>2

\* The victim of a miss is written back, or can be dropped.
LEMMA Victims ==
  ASSUME TypeD, SetsOK, CleanMatchesMemory, NEW line \in Lines
  PROVE  /\ set_of(line) \in [Way -> WayContents] /\ victim_way(set_of(line)) \in Way
         /\ victim(line) \in [line : Lines, data : LineData]
         /\ ~needs_writeback(set_of(line)) =>
              LET v == set_of(line)[victim_way(set_of(line))]
              IN v.valid => v.data = lines[LineAt(v.tag, Index(line))]
<1> DEFINE s == set_of(line)
           w == victim_way(s)
<1>1. Index(line) \in SetIndex /\ s \in [Way -> WayContents] /\ Aged(s)
  BY LineParts DEF TypeD, SetsOK, set_of
<1>2. w \in Way
  BY <1>1, VictimIs
<1>3. s = sets[Index(line)]
  BY DEF set_of
<1>4. victim(line) = [line |-> LineAt(s[w].tag, Index(line)), data |-> s[w].data]
  BY DEF victim
<1>5. ~needs_writeback(set_of(line)) => ~s[w].valid \/ ~s[w].dirty
  BY DEF needs_writeback
<1> HIDE DEF s, w
<1>6. s[w] \in WayContents
  BY <1>1, <1>2
<1>7. victim(line) \in [line : Lines, data : LineData]
  BY <1>1, <1>4, <1>6, PartsLine DEF WayContents
<1>8. s[w].valid /\ ~s[w].dirty => s[w].data = lines[LineAt(s[w].tag, Index(line))]
  BY <1>1, <1>2, <1>3 DEF CleanMatchesMemory, SetIndex
<1> QED
  BY <1>1, <1>2, <1>5, <1>7, <1>8 DEF s, w

\* As long as sets and memory stay, so does everything read of them.
LEMMA SameContents ==
  ASSUME sets' = sets, lines' = lines
  PROVE  /\ SetsOK => SetsOK'
         /\ CleanMatchesMemory => CleanMatchesMemory'
         /\ \A l : /\ held(l)' = held(l) /\ is_hit(l)' = is_hit(l)
                   /\ set_of(l)' = set_of(l) /\ victim(l)' = victim(l)
                   /\ lookup(l)' = lookup(l)
BY DEF SetsOK, CleanMatchesMemory, held, is_hit, set_of, victim, lookup, Index, TagOf, LineAt, NoRead

LEMMA LookupIs ==
  ASSUME TypeD, NEW line \in Lines
  PROVE  /\ lookup(line) \in [hit : BOOLEAN, index : SetIndex, way : Way]
         /\ NoRead \in [hit : BOOLEAN, index : SetIndex, way : Way] /\ ~NoRead.hit
         /\ lookup(line).hit =>
              /\ is_hit(line) /\ lookup(line).index = Index(line)
              /\ held(line) = sets[Index(line)][lookup(line).way].data
<1>1. Index(line) \in SetIndex
  BY LineParts
<1>2. is_hit(line) => hit_way(set_of(line), TagOf(line)) \in Way
  BY HitWay DEF is_hit, hits
<1> QED
  BY <1>1, <1>2, Shape DEF lookup, NoRead, held, set_of

\* Half of a load is kept as long as the lines hold what they do.
LEMMA HalfStays ==
  ASSUME TypeD, HalfKept, cross_q' = cross_q, req_q' = req_q,
         \A l \in Lines : held(l)' = held(l)
  PROVE  HalfKept'
<1>1. first_line \in Lines /\ first_line' = first_line
  <2>1. \A x \in Nat, n \in Nat : n > 0 => x % n \in 0 .. n - 1
    OBVIOUS
  <2>2. \A l \in Lines : l + SETS * TAGS - 1 \in Nat
    BY Shape DEF Lines
  <2>3. \A l \in Lines : (l + SETS * TAGS - 1) % (SETS * TAGS) \in Lines
    BY <2>1, <2>2, Shape DEF Lines
  <2> QED
    BY <2>3 DEF first_line, TypeD, Access
<1>2. held(first_line)' = held(first_line)
  BY <1>1
<1> QED
  BY <1>1, <1>2 DEF HalfKept

LEMMA InitInvariant == DcacheInit => IInv
<1> SUFFICES ASSUME DcacheInit PROVE IInv
  OBVIOUS
<1> USE DEF DcacheInit
<1>1. ZeroLine \in LineData /\ ZeroWord \in WordData
  BY DEF ZeroLine, ZeroWord, LineData, WordData
<1>2. TypeD
  <2>1. EmptySet(ZeroLine) \in [Way -> WayContents]
    BY <1>1, Shape DEF EmptySet, WayContents
  <2>2. sets \in [SetIndex -> [Way -> WayContents]]
    BY <2>1 DEF SetIndex
  <2>3. req_q \in Access /\ read_port \in [hit : BOOLEAN, index : SetIndex, way : Way]
        /\ port \in [kind : {"none", "read", "write"}, line : Lines, data : LineData]
    BY <1>1, Shape DEF NoRequest, Access, NoRead, NoPort
  <2>4. wb_q \in [line : Lines, data : LineData]
        /\ cross_q \in [active : BOOLEAN, phase : BOOLEAN, data : WordData, offset : Offset]
    BY <1>1, Shape
  <2> QED
    BY <1>1, <2>2, <2>3, <2>4 DEF TypeD
<1>3. SetsOK /\ CleanMatchesMemory
  BY DEF SetsOK, CleanMatchesMemory, OneCopyEach, Aged, ValidWays, EmptySet, SetIndex
<1>4. InService /\ Missing /\ Sent /\ LookedUp /\ HalfKept
  BY DEF InService, Missing, Sent, LookedUp, HalfKept, NoRequest
<1> QED
  BY <1>2, <1>3, <1>4 DEF IInv

LEMMA AcceptStep ==
  ASSUME IInv, NEW r \in Loads \cup Stores, Accept(r)
  PROVE  IInv'
<1>1. TypeD /\ SetsOK /\ CleanMatchesMemory
  BY DEF IInv
<1>2. r \in Access /\ r.line \in Lines /\ r.write \in BOOLEAN /\ r.offset \in Offset
      /\ (r.write => \A b \in r.strb : r.offset + b < LINE_BYTES)
      /\ crosses(r) \in BOOLEAN /\ Index(r.line) \in SetIndex
  BY Requests, LineParts DEF Access, crosses
<1>3. /\ req_q' = r /\ mem_req_sent' = FALSE /\ refill_done_q' = FALSE /\ cpu_resp' = {}
      /\ cross_q' = [cross_q EXCEPT !.active = crosses(r), !.phase = FALSE,
                                    !.offset = IF crosses(r) THEN r.offset ELSE 0]
      /\ lines' = lines /\ port' = port
  BY DEF Accept, Quiet
<1>4. cross_q'.active = crosses(r) /\ cross_q'.phase = FALSE
      /\ (crosses(r) => cross_q'.offset = r.offset)
      /\ cross_q' \in [active : BOOLEAN, phase : BOOLEAN, data : WordData, offset : Offset]
  BY <1>1, <1>2, <1>3, Shape DEF TypeD
<1>5. InService' /\ HalfKept' /\ Sent'
  <2>1. crosses(r) <=> ~r.write /\ r.offset + ACCESS - 1 >= LINE_BYTES
    BY DEF crosses
  <2>2. current_state' \notin {"IDLE", "CROSSLINE"}
    BY DEF Accept, miss_state
  <2>3. r.offset + ACCESS - 1 \in Int /\ LINE_BYTES \in Int
    BY <1>2, Shape DEF Offset
  <2>4. InService'
    BY <1>2, <1>3, <1>4, <2>1, <2>2, <2>3 DEF InService
  <2> QED
    BY <1>3, <1>4, <2>4 DEF HalfKept, Sent
<1>6. CASE is_hit(r.line)
  <2>1. current_state' = "BUSY" /\ wb_q' = wb_q
    BY <1>6 DEF Accept
  <2>2. Missing'
    BY <2>1 DEF Missing
  <2>3. CASE r.write
    <3>1. sets' = [sets EXCEPT ![Index(r.line)] =
                     WriteHit(@, TagOf(r.line), cpu_wstrb_line(r), cpu_wdata_line(r))]
          /\ wr_fire' = {Index(r.line)} /\ read_port' = NoRead
      BY <1>6, <2>3 DEF Accept
    <3>2. /\ sets' \in [SetIndex -> [Way -> WayContents]]
          /\ SetsOK' /\ CleanMatchesMemory' /\ is_hit(r.line)'
      BY <1>1, <1>2, <1>3, <1>6, <3>1, StoreKeeps
    <3>3. TypeD'
      BY <1>1, <1>2, <1>3, <1>4, <2>1, <3>1, <3>2, LookupIs DEF TypeD
    <3>4. is_hit(req_q.line)'
      BY <1>3, <3>2 DEF is_hit, set_of, Index, TagOf
    <3>5. LookedUp'
      BY <1>3, <3>1, <3>4 DEF LookedUp, selected_wr_fire, Index, NoRead
    <3> QED
      BY <1>5, <2>2, <3>2, <3>3, <3>5 DEF IInv
  <2>4. CASE ~r.write
    <3>1. sets' = sets /\ wr_fire' = {} /\ read_port' = lookup(r.line)
      BY <2>4 DEF Accept
    <3>2. TypeD'
      BY <1>1, <1>2, <1>3, <1>4, <2>1, <3>1, LookupIs DEF TypeD
    <3>3. SetsOK' /\ CleanMatchesMemory' /\ is_hit(r.line)' /\ lookup(r.line)' = lookup(r.line)
      BY <1>1, <1>3, <1>6, <3>1, SameContents
    <3>4. is_hit(req_q.line)' /\ lookup(req_q.line)' = lookup(r.line)
      BY <1>3, <3>3 DEF is_hit, lookup, set_of, Index, TagOf, NoRead
    <3>5. LookedUp'
      BY <1>3, <2>4, <3>1, <3>4 DEF LookedUp
    <3> QED
      BY <1>5, <2>2, <3>2, <3>3, <3>5 DEF IInv
  <2> QED
    BY <1>2, <2>3, <2>4
<1>7. CASE ~is_hit(r.line)
  <2>1. /\ current_state' = miss_state(r.line) /\ wb_q' = captured(r.line)
        /\ sets' = sets /\ wr_fire' = {}
    BY <1>7 DEF Accept
  <2>2. read_port' \in {NoRead, lookup(r.line)}
    BY DEF Accept
  <2>3. /\ SetsOK' /\ CleanMatchesMemory' /\ ~is_hit(r.line)'
        /\ set_of(r.line)' = set_of(r.line) /\ victim(r.line)' = victim(r.line)
    BY <1>1, <1>3, <1>7, <2>1, SameContents
  <2>4. /\ victim(r.line) \in [line : Lines, data : LineData]
        /\ ~needs_writeback(set_of(r.line)) =>
              LET v == set_of(r.line)[victim_way(set_of(r.line))]
              IN v.valid => v.data = lines[LineAt(v.tag, Index(r.line))]
    BY <1>1, <1>2, Victims
  <2>5. TypeD'
    <3>1. read_port' \in [hit : BOOLEAN, index : SetIndex, way : Way]
      BY <1>1, <1>2, <2>2, LookupIs
    <3>2. wb_q' \in [line : Lines, data : LineData]
      BY <1>1, <2>1, <2>4 DEF captured, TypeD
    <3>3. current_state' \in {"WRMEM", "RDMEM"}
      BY <2>1 DEF miss_state
    <3> QED
      BY <1>1, <1>2, <1>3, <1>4, <2>1, <3>1, <3>2, <3>3 DEF TypeD
  <2>6. /\ is_hit(req_q.line)' = is_hit(r.line) /\ set_of(req_q.line)' = set_of(r.line)
        /\ victim(req_q.line)' = victim(r.line)
    BY <1>3, <2>1, <2>3 DEF is_hit, victim, set_of, Index, TagOf, LineAt
  <2>7. Missing'
    BY <1>3, <1>7, <2>1, <2>4, <2>6 DEF Missing, miss_state, captured, Index, LineAt
  <2>8. LookedUp'
    BY <1>3, <2>1 DEF LookedUp, miss_state
  <2> QED
    BY <1>5, <2>3, <2>5, <2>7, <2>8 DEF IInv
<1> QED
  BY <1>6, <1>7

\* Nothing happens, or the controller waits.
LEMMA WaitingStep ==
  ASSUME IInv, Rest \/ Await
  PROVE  IInv'
<1>1. TypeD /\ SetsOK /\ CleanMatchesMemory
  BY DEF IInv
<1>2. /\ sets' = sets /\ lines' = lines /\ port' = port
      /\ current_state' = current_state /\ req_q' = req_q /\ wb_q' = wb_q /\ cross_q' = cross_q
      /\ wr_fire' = {} /\ read_port' = NoRead /\ cpu_resp' = {}
      /\ current_state # "BUSY"
  BY DEF Rest, Await, no_set_access, ctrlVars, Quiet
<1>3. mem_req_sent' \in {mem_req_sent, FALSE} /\ refill_done_q' \in {refill_done_q, FALSE}
  BY DEF Rest, Await, ctrlVars
<1>4. TypeD'
  <2>1. NoRead \in [hit : BOOLEAN, index : SetIndex, way : Way]
    BY Shape DEF NoRead
  <2> QED
    BY <1>1, <1>2, <1>3, <2>1 DEF TypeD
<1>5. SetsOK' /\ CleanMatchesMemory' /\ \A l \in Lines : held(l)' = held(l)
  BY <1>1, <1>2, SameContents
<1>6. InService'
  BY <1>2 DEF IInv, InService
<1>7. Missing'
  <2>1. /\ is_hit(req_q.line)' = is_hit(req_q.line) /\ set_of(req_q.line)' = set_of(req_q.line)
        /\ victim(req_q.line)' = victim(req_q.line)
    BY <1>2 DEF is_hit, set_of, victim, Index, TagOf, LineAt
  <2> QED
    BY <1>2, <2>1 DEF IInv, Missing, Index, LineAt
<1>8. Sent' /\ LookedUp'
  <2>1. Sent'
    BY <1>2, <1>3 DEF IInv, Sent
  <2>2. mem_req_sent' => current_state' \in {"WRMEM", "RDMEM"}
    BY <1>2, <1>3 DEF IInv, LookedUp
  <2> QED
    BY <1>2, <2>1, <2>2 DEF LookedUp
<1>9. HalfKept'
  BY <1>1, <1>2, <1>5, HalfStays DEF IInv
<1> QED
  BY <1>4, <1>5, <1>6, <1>7, <1>8, <1>9 DEF IInv

\* What the read port shows when it fires.
LEMMA Selected ==
  ASSUME IInv, current_state = "BUSY", selected_rd_fire
  PROVE  /\ read_port = lookup(req_q.line) /\ is_hit(req_q.line)
         /\ selected_read_word =
              [b \in Lane |-> IF req_q.offset + b < LINE_BYTES
                              THEN held(req_q.line)[req_q.offset + b] ELSE 0]
         /\ selected_read_word \in WordData
<1>1. TypeD /\ req_q.line \in Lines /\ read_port.hit
  BY DEF IInv, TypeD, Access, selected_rd_fire
<1>2. read_port = lookup(req_q.line)
  <2>1. read_port \in {NoRead, lookup(req_q.line)}
    BY DEF IInv, LookedUp
  <2> QED
    BY <1>1, <2>1 DEF NoRead
<1>3. /\ is_hit(req_q.line) /\ read_port.index = Index(req_q.line)
      /\ held(req_q.line) = sets[read_port.index][read_port.way].data
  BY <1>1, <1>2, LookupIs
<1>4. selected_read_word =
        [b \in Lane |-> IF req_q.offset + b < LINE_BYTES
                        THEN held(req_q.line)[req_q.offset + b] ELSE 0]
  BY <1>3 DEF selected_read_word
<1>5. selected_read_word \in WordData
  <2>1. held(req_q.line) \in LineData /\ req_q.offset \in Nat
    <3>1. sets[read_port.index][read_port.way] \in WayContents
      BY <1>1 DEF TypeD
    <3> QED
      BY <1>1, <1>3, <3>1 DEF WayContents, TypeD, Access, Offset
  <2>2. ASSUME NEW b \in Lane
        PROVE  (IF req_q.offset + b < LINE_BYTES
                THEN held(req_q.line)[req_q.offset + b] ELSE 0) \in Nat
    <3>1. req_q.offset + b < LINE_BYTES => req_q.offset + b \in Offset
      BY <2>1, Shape DEF Lane, Offset
    <3> QED
      BY <2>1, <3>1 DEF LineData
  <2> QED
    BY <1>4, <2>2 DEF WordData
<1> QED
  BY <1>2, <1>3, <1>4, <1>5

\* What the set ports do in a BUSY cycle: they write for a store after its
\* refill, else read or rest.
LEMMA Ports ==
  ASSUME IInv, current_state = "BUSY", BusyPorts, lines' = lines
  PROVE  /\ sets' \in [SetIndex -> [Way -> WayContents]] /\ wr_fire' \subseteq SetIndex
         /\ read_port' \in [hit : BOOLEAN, index : SetIndex, way : Way]
         /\ read_port' \in {NoRead, lookup(req_q.line)}
         /\ SetsOK' /\ CleanMatchesMemory'
         /\ req_q.write /\ refill_done_q =>
              \A l \in Lines :
                held(l)' = IF l = req_q.line
                           THEN merge(held(l), cpu_wstrb_line(req_q), cpu_wdata_line(req_q))
                           ELSE held(l)
         /\ ~(req_q.write /\ refill_done_q) =>
              /\ sets' = sets /\ wr_fire' = {}
              /\ \A l \in Lines : held(l)' = held(l)
<1>1. /\ TypeD /\ SetsOK /\ CleanMatchesMemory /\ req_q \in Access /\ req_q.line \in Lines
      /\ is_hit(req_q.line)
  BY DEF IInv, TypeD, Access, LookedUp
<1>2. read_port' \in {NoRead, lookup(req_q.line)}
  BY DEF BusyPorts
<1>3. read_port' \in [hit : BOOLEAN, index : SetIndex, way : Way]
  BY <1>1, <1>2, LookupIs
<1>4. CASE req_q.write /\ refill_done_q
  <2>1. sets' = [sets EXCEPT ![Index(req_q.line)] =
                   WriteHit(@, TagOf(req_q.line), cpu_wstrb_line(req_q), cpu_wdata_line(req_q))]
        /\ wr_fire' = {Index(req_q.line)}
    BY <1>1, <1>4 DEF BusyPorts
  <2>2. Index(req_q.line) \in SetIndex
    BY <1>1, LineParts
  <2>3. ASSUME NEW q, q = req_q
        PROVE  /\ sets' \in [SetIndex -> [Way -> WayContents]]
               /\ SetsOK' /\ CleanMatchesMemory'
               /\ \A l \in Lines :
                    held(l)' = IF l = q.line
                               THEN merge(held(l), cpu_wstrb_line(q), cpu_wdata_line(q))
                               ELSE held(l)
    <3>1. /\ q \in Access /\ is_hit(q.line)
          /\ sets' = [sets EXCEPT ![Index(q.line)] =
                   WriteHit(@, TagOf(q.line), cpu_wstrb_line(q), cpu_wdata_line(q))]
      BY <1>1, <2>1, <2>3
    <3>2. /\ sets' \in [SetIndex -> [Way -> WayContents]]
          /\ SetsOK' /\ CleanMatchesMemory'
          /\ held(q.line)' = merge(held(q.line), cpu_wstrb_line(q), cpu_wdata_line(q))
          /\ \A l \in Lines \ {q.line} : held(l)' = held(l)
      BY <1>1, <3>1, StoreKeeps
    <3> QED
      BY <3>2
  <2> QED
    BY <1>2, <1>3, <1>4, <2>1, <2>2, <2>3
<1>5. CASE ~(req_q.write /\ refill_done_q)
  <2>1. sets' = sets /\ wr_fire' = {}
    BY <1>5 DEF BusyPorts
  <2>2. sets \in [SetIndex -> [Way -> WayContents]]
    BY <1>1 DEF TypeD
  <2> QED
    BY <1>1, <1>2, <1>3, <1>5, <2>1, <2>2, SameContents
<1> QED
  BY <1>4, <1>5

\* A store has its answer in the cycle after its write: it never waits.
LEMMA BusyWaitStep ==
  ASSUME IInv, BusyWait
  PROVE  IInv' /\ ~req_q.write /\ sets' = sets
<1>1. TypeD /\ SetsOK /\ CleanMatchesMemory /\ current_state = "BUSY" /\ ~fired /\ BusyPorts
  BY DEF IInv, BusyWait
<1>2. ~req_q.write
  BY <1>1 DEF IInv, LookedUp, fired
<1>3. /\ current_state' = current_state /\ req_q' = req_q /\ mem_req_sent' = mem_req_sent
      /\ refill_done_q' = refill_done_q /\ wb_q' = wb_q /\ cross_q' = cross_q
      /\ lines' = lines /\ port' = port /\ cpu_resp' = {}
  BY DEF BusyWait, ctrlVars, Quiet
<1>4. /\ sets' \in [SetIndex -> [Way -> WayContents]] /\ wr_fire' \subseteq SetIndex
      /\ read_port' \in [hit : BOOLEAN, index : SetIndex, way : Way]
      /\ read_port' \in {NoRead, lookup(req_q.line)}
      /\ SetsOK' /\ CleanMatchesMemory' /\ sets' = sets
      /\ \A l \in Lines : held(l)' = held(l)
  BY <1>1, <1>2, <1>3, Ports
<1>5. TypeD'
  BY <1>1, <1>3, <1>4 DEF TypeD
<1>6. InService' /\ Missing' /\ Sent'
  BY <1>1, <1>3 DEF IInv, InService, Missing, Sent, LookedUp
<1>7. LookedUp'
  <2>1. is_hit(req_q.line)' = is_hit(req_q.line) /\ lookup(req_q.line)' = lookup(req_q.line)
    BY <1>3, <1>4 DEF is_hit, lookup, set_of, Index, TagOf, NoRead
  <2> QED
    BY <1>2, <1>3, <1>4, <2>1 DEF IInv, LookedUp, NoRead
<1>8. HalfKept'
  BY <1>1, <1>3, <1>4, HalfStays DEF IInv
<1> QED
  BY <1>2, <1>4, <1>5, <1>6, <1>7, <1>8 DEF IInv

\* The line after a line, and back.
LEMMA NextLine ==
  ASSUME NEW line \in Lines
  PROVE  /\ line2(line) \in Lines
         /\ (line2(line) + SETS * TAGS - 1) % (SETS * TAGS) = line
         /\ line2(line) = IF line + 1 = SETS * TAGS THEN 0 ELSE line + 1
<1> DEFINE n == SETS * TAGS
<1>1. n \in Nat /\ n > 0 /\ line \in Nat /\ line < n /\ Lines = 0 .. n - 1
  BY Shape DEF Lines
<1>2. line2(line) = (line + 1) % n
  BY DEF line2
<1> HIDE DEF n
<1>3. \A x \in Nat : /\ x < n => x % n = x
                     /\ n <= x /\ x < 2 * n => x % n = x - n
  BY <1>1
<1>4. line2(line) = IF line + 1 = n THEN 0 ELSE line + 1
  BY <1>1, <1>2, <1>3
<1>5. (line2(line) + n - 1) % n = line
  <2>1. CASE line + 1 = n
    <3>1. line2(line) + n - 1 = line /\ line \in Nat /\ line < n
      BY <1>1, <1>4, <2>1
    <3> QED
      BY <1>3, <3>1
  <2>2. CASE line + 1 # n
    <3>1. line2(line) + n - 1 = line + n /\ line + n \in Nat /\ n <= line + n /\ line + n < 2 * n
          /\ (line + n) - n = line
      BY <1>1, <1>4, <2>2
    <3> QED
      BY <1>3, <3>1
  <2> QED
    BY <2>1, <2>2
<1> QED
  BY <1>1, <1>4, <1>5 DEF n

LEMMA FirstHalfStep ==
  ASSUME IInv, BusyFirstHalf
  PROVE  IInv' /\ sets' = sets
<1>1. /\ TypeD /\ SetsOK /\ CleanMatchesMemory /\ current_state = "BUSY" /\ BusyPorts
      /\ cross_q.active /\ ~cross_q.phase /\ ~req_q.write /\ selected_rd_fire
      /\ req_q.line \in Lines
  BY DEF IInv, BusyFirstHalf, first_half_read, TypeD, Access
<1>2. /\ current_state' = "CROSSLINE" /\ refill_done_q' = FALSE /\ mem_req_sent' = FALSE
      /\ cross_q' = [cross_q EXCEPT !.data = selected_read_word, !.phase = TRUE]
      /\ req_q' = [req_q EXCEPT !.line = line2(req_q.line), !.offset = 0]
      /\ wb_q' = wb_q /\ lines' = lines /\ port' = port /\ cpu_resp' = {}
  BY DEF BusyFirstHalf, Quiet
<1>3. /\ sets' \in [SetIndex -> [Way -> WayContents]] /\ wr_fire' \subseteq SetIndex
      /\ read_port' \in [hit : BOOLEAN, index : SetIndex, way : Way]
      /\ SetsOK' /\ CleanMatchesMemory' /\ sets' = sets
      /\ \A l \in Lines : held(l)' = held(l)
  BY <1>1, <1>2, Ports
<1>4. /\ selected_read_word =
           [b \in Lane |-> IF req_q.offset + b < LINE_BYTES
                           THEN held(req_q.line)[req_q.offset + b] ELSE 0]
      /\ selected_read_word \in WordData
  BY <1>1, Selected
<1>5. line2(req_q.line) \in Lines
      /\ (line2(req_q.line) + SETS * TAGS - 1) % (SETS * TAGS) = req_q.line
  BY <1>1, NextLine
<1>6. /\ cross_q' \in [active : BOOLEAN, phase : BOOLEAN, data : WordData, offset : Offset]
      /\ cross_q'.active /\ cross_q'.phase /\ cross_q'.data = selected_read_word
      /\ cross_q'.offset = cross_q.offset
  BY <1>1, <1>2, <1>4 DEF TypeD
<1>7. /\ req_q' \in Access /\ req_q'.line = line2(req_q.line) /\ req_q'.offset = 0
      /\ req_q'.write = req_q.write
  BY <1>1, <1>2, <1>5, Shape DEF TypeD, Access
<1>8. TypeD'
  BY <1>1, <1>2, <1>3, <1>6, <1>7 DEF TypeD
<1>9. cross_q.offset + ACCESS - 1 >= LINE_BYTES /\ req_q.offset = cross_q.offset
  BY <1>1 DEF IInv, InService
<1>10. InService' /\ Missing' /\ Sent' /\ LookedUp'
  BY <1>1, <1>2, <1>6, <1>7, <1>9 DEF InService, Missing, Sent, LookedUp
<1>11. HalfKept'
  <2>1. first_line' = req_q.line
    BY <1>5, <1>6, <1>7 DEF first_line
  <2>2. held(first_line)' = held(req_q.line)
    <3>1. \A l \in Lines : first_line' = l => held(first_line)' = held(l)
      BY <1>3
    <3> QED
      BY <1>1, <2>1, <3>1
  <2>3. ASSUME NEW b \in Lane, cross_q'.offset + b < LINE_BYTES
        PROVE  cross_q'.data[b] = held(req_q.line)[cross_q'.offset + b]
    BY <1>4, <1>6, <1>9, <2>3
  <2> QED
    BY <2>2, <2>3 DEF HalfKept, Lane
<1> QED
  BY <1>3, <1>8, <1>10, <1>11 DEF IInv

LEMMA DoneStep ==
  ASSUME IInv, BusyDone
  PROVE  IInv'
<1>1. /\ TypeD /\ SetsOK /\ CleanMatchesMemory /\ current_state = "BUSY" /\ BusyPorts
  BY DEF IInv, BusyDone
<1>2. /\ current_state' = "IDLE" /\ refill_done_q' = FALSE
      /\ cross_q' = [cross_q EXCEPT !.active = FALSE,
                                    !.phase = IF cross_q.active THEN FALSE ELSE @]
      /\ req_q' = req_q /\ mem_req_sent' = mem_req_sent /\ wb_q' = wb_q /\ lines' = lines
      /\ port' = port
  BY DEF BusyDone
<1>3. /\ sets' \in [SetIndex -> [Way -> WayContents]] /\ wr_fire' \subseteq SetIndex
      /\ read_port' \in [hit : BOOLEAN, index : SetIndex, way : Way]
      /\ SetsOK' /\ CleanMatchesMemory'
  BY <1>1, <1>2, Ports
<1>4. /\ cross_q' \in [active : BOOLEAN, phase : BOOLEAN, data : WordData, offset : Offset]
      /\ ~cross_q'.active
  BY <1>1, <1>2 DEF TypeD
<1>5. TypeD'
  BY <1>1, <1>2, <1>3, <1>4 DEF TypeD
<1>6. InService'
  BY <1>2, <1>4 DEF IInv, InService
<1>7. Missing' /\ Sent' /\ LookedUp' /\ HalfKept'
  <2>1. ~mem_req_sent
    BY <1>1 DEF IInv, LookedUp
  <2> QED
    BY <1>2, <1>4, <2>1 DEF Missing, Sent, LookedUp, HalfKept
<1> QED
  BY <1>3, <1>5, <1>6, <1>7 DEF IInv

LEMMA CrossLineStep ==
  ASSUME IInv, CrossLine
  PROVE  IInv'
<1>1. /\ TypeD /\ SetsOK /\ CleanMatchesMemory /\ current_state = "CROSSLINE"
      /\ req_q.line \in Lines /\ ~mem_req_sent /\ cross_q.active /\ ~req_q.write
  BY DEF IInv, CrossLine, TypeD, Access, LookedUp, InService
<1>2. /\ sets' = sets /\ lines' = lines /\ port' = port
      /\ req_q' = req_q /\ cross_q' = cross_q /\ refill_done_q' = refill_done_q
      /\ wr_fire' = {} /\ read_port' = lookup(req_q.line) /\ cpu_resp' = {}
      /\ mem_req_sent' = FALSE
      /\ current_state' = IF is_hit(req_q.line) THEN "BUSY" ELSE miss_state(req_q.line)
      /\ wb_q' = IF ~is_hit(req_q.line) /\ needs_writeback(set_of(req_q.line))
                 THEN victim(req_q.line) ELSE wb_q
  BY <1>1 DEF CrossLine, Quiet
<1>3. current_state' \in {"BUSY", "WRMEM", "RDMEM"}
  BY <1>2 DEF miss_state
<1>4. /\ victim(req_q.line) \in [line : Lines, data : LineData]
      /\ ~needs_writeback(set_of(req_q.line)) =>
            LET v == set_of(req_q.line)[victim_way(set_of(req_q.line))]
            IN v.valid => v.data = lines[LineAt(v.tag, Index(req_q.line))]
  BY <1>1, Victims
<1>5. TypeD'
  <2>1. read_port' \in [hit : BOOLEAN, index : SetIndex, way : Way]
    BY <1>1, <1>2, LookupIs
  <2>2. wb_q' \in [line : Lines, data : LineData]
    BY <1>1, <1>2, <1>4 DEF TypeD
  <2> QED
    BY <1>1, <1>2, <1>3, <2>1, <2>2 DEF TypeD
<1>6. SetsOK' /\ CleanMatchesMemory' /\ \A l \in Lines : held(l)' = held(l)
  BY <1>1, <1>2, SameContents
<1>7. /\ is_hit(req_q.line)' = is_hit(req_q.line) /\ set_of(req_q.line)' = set_of(req_q.line)
      /\ victim(req_q.line)' = victim(req_q.line) /\ lookup(req_q.line)' = lookup(req_q.line)
  BY <1>2 DEF is_hit, set_of, victim, lookup, Index, TagOf, LineAt, NoRead
<1>8. InService'
  BY <1>1, <1>2, <1>3 DEF IInv, InService
<1>9. Missing'
  BY <1>2, <1>4, <1>7 DEF Missing, miss_state, Index, LineAt
<1>10. Sent' /\ LookedUp'
  <2>1. current_state' = "BUSY" => is_hit(req_q.line)
    BY <1>2 DEF miss_state
  <2> QED
    BY <1>1, <1>2, <1>7, <2>1 DEF Sent, LookedUp
<1>11. HalfKept'
  BY <1>1, <1>2, <1>6, HalfStays DEF IInv
<1> QED
  BY <1>5, <1>6, <1>8, <1>9, <1>10, <1>11 DEF IInv

\* Reading a line and writing one back start alike.
LEMMA RequestStep ==
  ASSUME IInv, NEW taken \in BOOLEAN, Request(taken)
  PROVE  IInv'
<1>1. /\ TypeD /\ SetsOK /\ CleanMatchesMemory /\ current_state \in {"WRMEM", "RDMEM"}
      /\ req_q.line \in Lines
  BY DEF IInv, Request, TypeD, Access
<1>2. /\ sets' = sets /\ lines' = lines /\ mem_req_sent' = taken
      /\ current_state' = current_state /\ req_q' = req_q /\ wb_q' = wb_q /\ cross_q' = cross_q
      /\ refill_done_q' = refill_done_q
      /\ wr_fire' = {} /\ read_port' = NoRead /\ cpu_resp' = {}
      /\ port' = IF taken
                 THEN IF current_state = "WRMEM"
                      THEN [kind |-> "write", line |-> wb_q.line, data |-> wb_q.data]
                      ELSE [kind |-> "read", line |-> req_q.line, data |-> ZeroLine]
                 ELSE port
  BY DEF Request, no_set_access, Quiet
<1>3. TypeD'
  <2>1. NoRead \in [hit : BOOLEAN, index : SetIndex, way : Way]
    BY Shape DEF NoRead
  <2>2. port' \in [kind : {"none", "read", "write"}, line : Lines, data : LineData]
    <3>1. ZeroLine \in LineData
      BY DEF ZeroLine, LineData
    <3> QED
      BY <1>1, <1>2, <3>1 DEF TypeD
  <2> QED
    BY <1>1, <1>2, <2>1, <2>2 DEF TypeD
<1>4. SetsOK' /\ CleanMatchesMemory' /\ \A l \in Lines : held(l)' = held(l)
  BY <1>1, <1>2, SameContents
<1>5. InService'
  BY <1>2 DEF IInv, InService
<1>6. Missing'
  <2>1. /\ is_hit(req_q.line)' = is_hit(req_q.line) /\ set_of(req_q.line)' = set_of(req_q.line)
        /\ victim(req_q.line)' = victim(req_q.line)
    BY <1>2 DEF is_hit, set_of, victim, Index, TagOf, LineAt
  <2> QED
    BY <1>2, <2>1 DEF IInv, Missing, Index, LineAt
<1>7. Sent' /\ LookedUp'
  BY <1>1, <1>2 DEF Sent, LookedUp
<1>8. HalfKept'
  BY <1>1, <1>2, <1>4, HalfStays DEF IInv
<1> QED
  BY <1>3, <1>4, <1>5, <1>6, <1>7, <1>8 DEF IInv

\* An access that fails leaves sets and memory alone.
LEMMA AbortStep ==
  ASSUME IInv, Abort, current_state \in {"WRMEM", "RDMEM"}, no_set_access, lines' = lines,
         port' = NoPort, mem_req_sent' = FALSE, req_q' = req_q, wb_q' = wb_q
  PROVE  IInv' /\ \A l \in Lines : held(l)' = held(l)
<1>1. TypeD /\ SetsOK /\ CleanMatchesMemory
  BY DEF IInv
<1>2. /\ sets' = sets /\ read_port' = NoRead /\ wr_fire' = {}
      /\ current_state' = "IDLE" /\ refill_done_q' = FALSE
      /\ cross_q' = [cross_q EXCEPT !.active = FALSE, !.phase = FALSE]
  BY DEF Abort, no_set_access
<1>3. /\ cross_q' \in [active : BOOLEAN, phase : BOOLEAN, data : WordData, offset : Offset]
      /\ ~cross_q'.active
  BY <1>1, <1>2 DEF TypeD
<1>4. TypeD'
  <2>1. NoRead \in [hit : BOOLEAN, index : SetIndex, way : Way]
        /\ NoPort \in [kind : {"none", "read", "write"}, line : Lines, data : LineData]
    BY Shape DEF NoRead, NoPort, ZeroLine, LineData
  <2> QED
    BY <1>1, <1>2, <1>3, <2>1 DEF TypeD
<1>5. SetsOK' /\ CleanMatchesMemory' /\ \A l \in Lines : held(l)' = held(l)
  BY <1>1, <1>2, SameContents
<1>6. InService'
  BY <1>2, <1>3 DEF IInv, InService
<1>7. Missing' /\ Sent' /\ LookedUp' /\ HalfKept'
  BY <1>2, <1>3 DEF Missing, Sent, LookedUp, HalfKept
<1> QED
  BY <1>4, <1>5, <1>6, <1>7 DEF IInv

\* The victim is written back: memory agrees with the cached copy.
LEMMA WrittenBackStep ==
  ASSUME IInv, NEW error \in BOOLEAN, WrittenBack(error)
  PROVE  IInv' /\ \A l \in Lines : held(l)' = held(l)
<1>1. /\ TypeD /\ SetsOK /\ CleanMatchesMemory /\ current_state = "WRMEM" /\ mem_req_sent
      /\ req_q.line \in Lines
  BY DEF IInv, WrittenBack, TypeD, Access
<1>2. /\ mem_req_sent' = FALSE /\ port' = NoPort /\ no_set_access /\ req_q' = req_q
      /\ wb_q' = wb_q
  BY DEF WrittenBack
<1>3. CASE error
  BY <1>1, <1>2, <1>3, AbortStep DEF WrittenBack
<1>4. CASE ~error
  <2> DEFINE line == wb_q.line
             i == Index(req_q.line)
             w == victim_way(set_of(req_q.line))
             v == sets[i][w]
  <2>1. /\ current_state' = "RDMEM" /\ lines' = [lines EXCEPT ![port.line] = port.data]
        /\ cpu_resp' = {} /\ refill_done_q' = refill_done_q /\ cross_q' = cross_q
    BY <1>4 DEF WrittenBack, Quiet
  <2>2. sets' = sets /\ read_port' = NoRead /\ wr_fire' = {}
    BY <1>2 DEF no_set_access
  <2>3. /\ port.line = line /\ port.data = wb_q.data
        /\ needs_writeback(set_of(req_q.line)) /\ wb_q = victim(req_q.line)
        /\ ~is_hit(req_q.line)
    BY <1>1 DEF IInv, Sent, Missing
  <2>4. w \in Way /\ i \in SetIndex /\ sets[i] \in [Way -> WayContents]
    BY <1>1, Victims, LineParts DEF TypeD
  <2>5. v.valid /\ line = LineAt(v.tag, i) /\ wb_q.data = v.data
    BY <2>3 DEF needs_writeback, victim, set_of
  <2> HIDE DEF w, i
  <2>6. /\ v.tag \in 0 .. TAGS - 1 /\ line \in Lines /\ Index(line) = i
    BY <2>4, <2>5, PartsLine DEF WayContents
  <2>7. lines' = [lines EXCEPT ![line] = sets[Index(line)][w].data]
    BY <2>1, <2>3, <2>5, <2>6
  <2>8. /\ lines' \in [Lines -> LineData] /\ CleanMatchesMemory'
        /\ \A l \in Lines : held(l)' = held(l)
        /\ v.data = lines'[line]
    <3> HIDE DEF line
    <3>1. sets[Index(line)][w].valid /\ LineAt(sets[Index(line)][w].tag, Index(line)) = line
      BY <2>5, <2>6
    <3>2. line \in Lines /\ w \in Way
      BY <2>4, <2>6
    <3>3. /\ lines' \in [Lines -> LineData] /\ CleanMatchesMemory'
          /\ \A l \in Lines : held(l)' = held(l)
          /\ sets[Index(line)][w].data = lines'[line]
      BY <1>1, <2>2, <2>7, <3>1, <3>2, WriteBackKeeps
    <3> QED
      BY <2>6, <3>3
  <2>9. TypeD'
    <3>1. NoRead \in [hit : BOOLEAN, index : SetIndex, way : Way]
          /\ NoPort \in [kind : {"none", "read", "write"}, line : Lines, data : LineData]
      BY Shape DEF NoRead, NoPort, ZeroLine, LineData
    <3> QED
      BY <1>1, <1>2, <2>1, <2>2, <2>8, <3>1 DEF TypeD
  <2>10. SetsOK' /\ InService'
    BY <1>1, <1>2, <2>1, <2>2 DEF IInv, SetsOK, InService
  <2>11. Missing'
    <3>1. /\ set_of(req_q.line)' = sets[i] /\ is_hit(req_q.line)' = is_hit(req_q.line)
          /\ Index(req_q.line)' = i
      BY <1>2, <2>2 DEF set_of, is_hit, Index, TagOf, i
    <3>2. w = victim_way(sets[i])
      BY DEF w, i, set_of
    <3>3. sets[i][victim_way(sets[i])].data = lines'[LineAt(sets[i][victim_way(sets[i])].tag, i)]
      BY <2>5, <2>8, <3>2
    <3> QED
      BY <2>1, <2>3, <3>1, <3>3 DEF Missing, LineAt
  <2>12. Sent' /\ LookedUp'
    BY <1>2, <2>1 DEF Sent, LookedUp
  <2>13. HalfKept'
    BY <1>1, <1>2, <2>1, <2>8, HalfStays DEF IInv
  <2> QED
    BY <2>8, <2>9, <2>10, <2>11, <2>12, <2>13 DEF IInv
<1> QED
  BY <1>3, <1>4

\* The line comes in, and nothing is lost with the victim.
LEMMA LineReadStep ==
  ASSUME IInv, NEW error \in BOOLEAN, LineRead(error)
  PROVE  IInv' /\ \A l \in Lines : held(l)' = held(l)
<1>1. /\ TypeD /\ SetsOK /\ CleanMatchesMemory /\ current_state = "RDMEM" /\ mem_req_sent
      /\ req_q.line \in Lines
  BY DEF IInv, LineRead, TypeD, Access
<1>2. /\ mem_req_sent' = FALSE /\ port' = NoPort /\ req_q' = req_q
      /\ wb_q' = wb_q /\ lines' = lines
  BY DEF LineRead
<1>3. CASE error
  BY <1>1, <1>2, <1>3, AbortStep DEF LineRead
<1>4. CASE ~error
  <2>1. port.line = req_q.line
    BY <1>1 DEF IInv, Sent
  <2>2. /\ current_state' = "BUSY" /\ refill_done_q' = TRUE
        /\ sets' = [sets EXCEPT ![Index(req_q.line)] =
                      Refill(@, TagOf(req_q.line), lines[req_q.line])]
        /\ wr_fire' = {Index(req_q.line)} /\ read_port' = NoRead
        /\ cpu_resp' = {} /\ cross_q' = cross_q
    BY <1>4, <2>1 DEF LineRead, Quiet
  <2>3. ~is_hit(req_q.line)
        /\ LET v == set_of(req_q.line)[victim_way(set_of(req_q.line))]
           IN v.valid => v.data = lines[LineAt(v.tag, Index(req_q.line))]
    BY <1>1 DEF IInv, Missing
  <2>4. ASSUME NEW line, line = req_q.line
        PROVE  /\ sets' \in [SetIndex -> [Way -> WayContents]]
               /\ SetsOK' /\ CleanMatchesMemory' /\ is_hit(line)'
               /\ \A l \in Lines : held(l)' = held(l)
    <3>1. /\ line \in Lines /\ ~is_hit(line)
          /\ LET v == set_of(line)[victim_way(set_of(line))]
             IN v.valid => v.data = lines[LineAt(v.tag, Index(line))]
          /\ sets' = [sets EXCEPT ![Index(line)] = Refill(@, TagOf(line), lines[line])]
      BY <1>1, <2>2, <2>3, <2>4
    <3> QED
      BY <1>1, <1>2, <3>1, RefillKeeps
  <2>5. Index(req_q.line) \in SetIndex
    BY <1>1, LineParts
  <2>6. TypeD'
    <3>1. NoRead \in [hit : BOOLEAN, index : SetIndex, way : Way]
          /\ NoPort \in [kind : {"none", "read", "write"}, line : Lines, data : LineData]
      BY Shape DEF NoRead, NoPort, ZeroLine, LineData
    <3> QED
      BY <1>1, <1>2, <2>2, <2>4, <2>5, <3>1 DEF TypeD
  <2>7. InService' /\ Missing' /\ Sent'
    BY <1>1, <1>2, <2>2 DEF IInv, InService, Missing, Sent
  <2>8. LookedUp'
    <3>1. is_hit(req_q.line)'
      BY <1>2, <2>4 DEF is_hit, set_of, Index, TagOf
    <3> QED
      BY <1>2, <2>2, <3>1 DEF LookedUp, selected_wr_fire, Index, NoRead
  <2>9. HalfKept'
    BY <1>1, <1>2, <2>2, <2>4, HalfStays DEF IInv
  <2> QED
    BY <2>4, <2>6, <2>7, <2>8, <2>9 DEF IInv
<1> QED
  BY <1>3, <1>4

LEMMA StepInvariant == IInv /\ [DcacheNext]_dcacheVars => IInv'
<1>1. ASSUME IInv, DcacheNext
      PROVE  IInv'
  <2>1. CASE AcceptAny
    BY <1>1, <2>1, AcceptStep DEF AcceptAny
  <2>2. CASE Rest \/ Await
    BY <1>1, <2>2, WaitingStep
  <2>3. CASE Busy
    BY <1>1, <2>3, BusyWaitStep, FirstHalfStep, DoneStep DEF Busy
  <2>4. CASE CrossLine
    BY <1>1, <2>4, CrossLineStep
  <2>5. CASE \E taken \in BOOLEAN : Request(taken)
    BY <1>1, <2>5, RequestStep
  <2>6. CASE Respond
    BY <1>1, <2>6, WrittenBackStep, LineReadStep DEF Respond
  <2> QED
    BY <1>1, <2>1, <2>2, <2>3, <2>4, <2>5, <2>6 DEF DcacheNext
<1>2. ASSUME IInv, UNCHANGED dcacheVars
      PROVE  IInv'
  <2>1. TypeD' /\ SetsOK' /\ CleanMatchesMemory' /\ InService'
    BY <1>2 DEF dcacheVars, ctrlVars, IInv, TypeD, SetsOK, CleanMatchesMemory, InService, LineAt
  <2>2. Missing' /\ Sent' /\ LookedUp'
    BY <1>2 DEF dcacheVars, ctrlVars, IInv, Missing, Sent, LookedUp, is_hit, set_of, victim,
                lookup, NoRead, selected_wr_fire, Index, TagOf, LineAt
  <2>3. HalfKept'
    BY <1>2 DEF dcacheVars, ctrlVars, IInv, HalfKept, held, first_line, is_hit, set_of, Index, TagOf
  <2> QED
    BY <2>1, <2>2, <2>3 DEF IInv
<1> QED
  BY <1>1, <1>2

LEMMA Invariant == DcacheSpec => []IInv
BY InitInvariant, StepInvariant, PTL DEF DcacheSpec
-----------------------------------------------------------------------------
(***************************************************************************)
(* No line is ever cached twice, and the victim of a full set is its       *)
(* oldest line (Refill), for any number of sets and ways.                  *)
(***************************************************************************)
THEOREM FilledOldestFirst == DcacheSpec => []FilledInOrder
<1>1. IInv => FilledInOrder
  <2> SUFFICES ASSUME IInv, NEW i \in SetIndex
               PROVE  OneCopyEach(sets[i]) /\ AgesOrdered(sets[i])
    BY DEF FilledInOrder, SetIndex
  <2>1. sets[i] \in [Way -> WayContents] /\ OneCopyEach(sets[i]) /\ Aged(sets[i])
    BY DEF IInv, TypeD, SetsOK
  <2>2. WAYS > 1 /\ (\A w \in Way : sets[i][w].valid) => \E w \in Way : sets[i][w].time = 0
    BY <2>1, OldestExists DEF ValidWays
  <2> QED
    BY <2>1, <2>2 DEF AgesOrdered, Aged, ValidWays
<1> QED
  BY <1>1, Invariant, PTL

(***************************************************************************)
(* A line that is not dirty may always be dropped: memory has the same     *)
(* (Refill, WriteHit, WrittenBack).                                        *)
(***************************************************************************)
THEOREM CleanLinesMatch == DcacheSpec => []CleanMatchesMemory
BY Invariant, PTL DEF IInv
-----------------------------------------------------------------------------
(***************************************************************************)
(* The cache with its memory is a memory of bytes.                         *)
(***************************************************************************)
\* An address is a line and an offset.
LEMMA AddressParts ==
  /\ SETS * TAGS * LINE_BYTES \in Nat /\ SETS * TAGS * LINE_BYTES > 0
  /\ \A a \in 0 .. SETS * TAGS * LINE_BYTES - 1 :
       /\ a \div LINE_BYTES \in Lines /\ a % LINE_BYTES \in Offset
       /\ (a \div LINE_BYTES) * LINE_BYTES + (a % LINE_BYTES) = a
  /\ \A line \in Lines, o \in Offset :
       /\ line * LINE_BYTES + o \in 0 .. SETS * TAGS * LINE_BYTES - 1
       /\ (line * LINE_BYTES + o) \div LINE_BYTES = line
       /\ (line * LINE_BYTES + o) % LINE_BYTES = o
<1> DEFINE n == SETS * TAGS
           m == LINE_BYTES
<1>1. n \in Nat /\ n > 0 /\ m \in Nat /\ m > 0 /\ Lines = 0 .. n - 1 /\ Offset = 0 .. m - 1
  BY Shape DEF Lines, Offset
<1> HIDE DEF n
<1>2. n * m \in Nat /\ n * m > 0
  <2>1. 0 * m + m <= n * m /\ n * m \in Nat /\ 0 * m = 0
    BY <1>1, Grows
  <2> QED
    BY <1>1, <2>1
<1>3. ASSUME NEW a \in 0 .. n * m - 1
      PROVE  a \div m \in Lines /\ a % m \in Offset /\ (a \div m) * m + (a % m) = a
  <2>1. a \in Nat /\ a < n * m
    BY <1>2
  <2>2. /\ a % m \in Nat /\ a % m < m /\ a \div m \in Nat /\ a \div m < n
        /\ (a \div m) * m + (a % m) = a
    BY <1>1, <2>1, Parted
  <2> QED
    BY <1>1, <2>2
<1>4. ASSUME NEW line \in Lines, NEW o \in Offset
      PROVE  /\ line * m + o \in 0 .. n * m - 1
             /\ (line * m + o) \div m = line /\ (line * m + o) % m = o
  <2>1. line \in Nat /\ line < n /\ o \in Nat /\ o < m
    BY <1>1
  <2>2. line * m + m <= n * m /\ line * m \in Nat
    BY <1>1, <2>1, Grows
  <2>3. (line * m + o) \div m = line /\ (line * m + o) % m = o
    BY <1>1, <2>1, Divided
  <2> QED
    BY <1>1, <1>2, <2>1, <2>2, <2>3
<1> QED
  BY <1>2, <1>3, <1>4 DEF n

LEMMA SpaceAt ==
  ASSUME NEW line \in Lines, NEW o \in Offset
  PROVE  space[line * LINE_BYTES + o] = held(line)[o]
BY AddressParts DEF space

LEMMA SpaceSame ==
  ASSUME \A l \in Lines : held(l)' = held(l)
  PROVE  space' = space
<1>1. \A a \in 0 .. SETS * TAGS * LINE_BYTES - 1 :
        held(a \div LINE_BYTES)' = held(a \div LINE_BYTES)
  BY AddressParts
<1> QED
  BY <1>1 DEF space

\* The bytes of a store in its line are those at the addresses it names.
LEMMA SpaceStored ==
  ASSUME NEW q \in Access, \A b \in q.strb : q.offset + b < LINE_BYTES,
         \A l \in Lines : held(l) \in LineData,
         \A l \in Lines :
           held(l)' = IF l = q.line THEN merge(held(l), cpu_wstrb_line(q), cpu_wdata_line(q))
                      ELSE held(l),
         NEW r, r.addr = q.line * LINE_BYTES + q.offset, r.strb = q.strb, r.data = q.data
  PROVE  space' = Bytes!Stored(r)
<1> DEFINE n == SETS * TAGS * LINE_BYTES
           Here(a) == \E b \in q.strb : a = Bytes!At(r.addr, b)
<1>1. /\ q.line \in Lines /\ q.offset \in Offset /\ q.strb \subseteq Lane
      /\ n \in Nat /\ n > 0 /\ q.line * LINE_BYTES \in Nat
  <2>1. \A l \in Lines : l * LINE_BYTES \in Nat
    <3>1. \A x \in Nat, y \in Nat : x * y \in Nat
      OBVIOUS
    <3> QED
      BY <3>1, Shape DEF Lines
  <2> QED
    BY <2>1, AddressParts DEF Access
<1>2. \A b \in Lane : b \in Nat
  BY Shape DEF Lane
<1>3. \A x \in Nat : x < n => x % n = x
  BY <1>1
<1>4. ASSUME NEW b \in q.strb
      PROVE  q.offset + b \in Offset
             /\ Bytes!At(r.addr, b) = q.line * LINE_BYTES + (q.offset + b)
  <2>1. b \in Nat /\ q.offset + b < LINE_BYTES /\ q.offset \in Nat
    BY <1>1, <1>2 DEF Offset
  <2>2. q.offset + b \in Offset
    BY <2>1, Shape DEF Offset
  <2>3. q.line * LINE_BYTES + (q.offset + b) \in 0 .. n - 1
    BY <1>1, <2>2, AddressParts
  <2>4. r.addr + b = q.line * LINE_BYTES + (q.offset + b)
    BY <1>1, <2>1
  <2>5. r.addr + b \in Nat /\ r.addr + b < n
    BY <1>1, <2>3, <2>4
  <2>6. (r.addr + b) % n = r.addr + b
    BY <1>3, <2>5
  <2> QED
    BY <2>2, <2>4, <2>6 DEF Bytes!At
<1>5. ASSUME NEW a \in 0 .. n - 1
      PROVE  held(a \div LINE_BYTES)'[a % LINE_BYTES] =
               IF Here(a) THEN r.data[CHOOSE b \in r.strb : a = Bytes!At(r.addr, b)]
               ELSE space[a]
  <2> DEFINE l == a \div LINE_BYTES
             o == a % LINE_BYTES
  <2>1. l \in Lines /\ o \in Offset /\ l * LINE_BYTES + o = a
    BY <1>5, AddressParts
  <2>2. space[a] = held(l)[o]
    BY DEF space
  <2>3. held(l)' = IF l = q.line THEN merge(held(l), cpu_wstrb_line(q), cpu_wdata_line(q))
                   ELSE held(l)
    BY <2>1
  <2>4. held(l) \in LineData
    BY <2>1
  <2> HIDE DEF l, o
  <2>5. CASE Here(a)
    <3>1. PICK b \in q.strb : a = Bytes!At(r.addr, b)
      BY <2>5
    <3>2. q.offset + b \in Offset /\ a = q.line * LINE_BYTES + (q.offset + b) /\ b \in Lane
      BY <1>1, <1>4, <3>1
    <3>3. l = q.line /\ o = q.offset + b
      BY <1>1, <3>2, AddressParts DEF l, o
    <3>4. \A c \in q.strb : a = Bytes!At(r.addr, c) => c = b
      <4> SUFFICES ASSUME NEW c \in q.strb, a = Bytes!At(r.addr, c)
                   PROVE  c = b
        OBVIOUS
      <4>1. q.offset + c \in Offset /\ a = q.line * LINE_BYTES + (q.offset + c)
        BY <1>4
      <4>2. o = q.offset + c
        BY <1>1, <4>1, AddressParts DEF o
      <4>3. b \in Nat /\ c \in Nat /\ q.offset \in Nat
        BY <1>1, <1>2 DEF Offset
      <4> QED
        BY <3>3, <4>2, <4>3
    <3>5. (CHOOSE c \in r.strb : a = Bytes!At(r.addr, c)) = b
      BY <3>1, <3>4
    <3>6. o \in cpu_wstrb_line(q)
      BY <3>2, <3>3 DEF cpu_wstrb_line
    <3>7. cpu_wdata_line(q)[o] = q.data[b]
      <4>1. q.offset \in Nat /\ b \in Nat
        BY <1>1, <1>2, <3>2 DEF Offset
      <4>2. o >= q.offset /\ o - q.offset = b
        BY <3>3, <4>1
      <4> QED
        BY <2>1, <3>2, <4>2 DEF cpu_wdata_line
    <3>8. merge(held(l), cpu_wstrb_line(q), cpu_wdata_line(q))[o] = cpu_wdata_line(q)[o]
      BY <2>1, <2>4, <3>6 DEF merge, LineData
    <3> QED
      BY <2>3, <2>5, <3>3, <3>5, <3>7, <3>8 DEF l, o
  <2>6. CASE ~Here(a)
    <3>1. CASE l # q.line
      BY <2>2, <2>3, <2>6, <3>1 DEF l, o
    <3>2. CASE l = q.line
      <4>1. o \notin cpu_wstrb_line(q)
        <5> SUFFICES ASSUME NEW b \in q.strb, o = q.offset + b
                     PROVE  FALSE
          BY DEF cpu_wstrb_line
        <5>1. a = q.line * LINE_BYTES + (q.offset + b)
          BY <2>1, <3>2
        <5>2. a = Bytes!At(r.addr, b)
          BY <1>4, <5>1
        <5> QED
          BY <2>6, <5>2
      <4>2. merge(held(l), cpu_wstrb_line(q), cpu_wdata_line(q))[o] = held(l)[o]
        BY <2>1, <2>4, <4>1 DEF merge, LineData
      <4> QED
        BY <2>2, <2>3, <2>6, <3>2, <4>2 DEF l, o
    <3> QED
      BY <3>1, <3>2
  <2> QED
    BY <2>5, <2>6
<1>6. space' = [a \in 0 .. n - 1 |-> held(a \div LINE_BYTES)'[a % LINE_BYTES]]
  BY DEF space
<1>7. DOMAIN space = 0 .. n - 1
  BY DEF space
<1> DEFINE After(a) == IF Here(a) THEN r.data[CHOOSE b \in r.strb : a = Bytes!At(r.addr, b)]
                       ELSE space[a]
<1>8. Bytes!Stored(r) = [a \in 0 .. n - 1 |-> After(a)]
  BY <1>7 DEF Bytes!Stored
<1>9. \A a \in 0 .. n - 1 : held(a \div LINE_BYTES)'[a % LINE_BYTES] = After(a)
  BY <1>5
<1> HIDE DEF n, After
<1> QED
  BY <1>6, <1>8, <1>9

LEMMA HeldTyped ==
  ASSUME TypeD, NEW line \in Lines
  PROVE  held(line) \in LineData
<1>1. CASE is_hit(line)
  <2> DEFINE s == sets[Index(line)]
  <2>1. Index(line) \in SetIndex /\ s \in [Way -> WayContents]
    BY LineParts DEF TypeD
  <2>2. hit_way(s, TagOf(line)) \in Way
    BY <1>1, HitWay DEF is_hit, set_of, hits
  <2> HIDE DEF s
  <2>3. s[hit_way(s, TagOf(line))].data \in LineData
    BY <2>1, <2>2 DEF WayContents
  <2> QED
    BY <1>1, <2>3 DEF held, set_of, s
<1>2. CASE ~is_hit(line)
  BY <1>2 DEF held, TypeD
<1> QED
  BY <1>1, <1>2

\* The line before one, and the line after that.
LEMMA LineBefore ==
  ASSUME NEW line \in Lines
  PROVE  /\ (line + SETS * TAGS - 1) % (SETS * TAGS) \in Lines
         /\ line2((line + SETS * TAGS - 1) % (SETS * TAGS)) = line
<1> DEFINE n == SETS * TAGS
<1>1. n \in Nat /\ n > 0 /\ Lines = 0 .. n - 1 /\ line \in Nat /\ line < n
  BY Shape DEF Lines
<1>2. line2((line + n - 1) % n) = (((line + n - 1) % n) + 1) % n
  BY DEF line2
<1> HIDE DEF n
<1>3. (line + n - 1) % n \in Lines /\ line2((line + n - 1) % n) = line
  <2>1. CASE line = 0
    <3>1. line + n - 1 = 0 * n + (n - 1) /\ n - 1 \in Nat /\ n - 1 < n
      BY <1>1, <2>1
    <3>2. (line + n - 1) % n = n - 1
      BY <1>1, <3>1, Divided
    <3>3. n - 1 + 1 = 1 * n + 0
      BY <1>1
    <3>4. (n - 1 + 1) % n = 0
      BY <1>1, <3>3, Divided
    <3>5. (line + n - 1) % n \in Lines
      BY <1>1, <3>1, <3>2
    <3> QED
      BY <2>1, <1>2, <3>2, <3>4, <3>5
  <2>2. CASE line # 0
    <3>1. line + n - 1 = 1 * n + (line - 1) /\ line - 1 \in Nat /\ line - 1 < n
      BY <1>1, <2>2
    <3>2. (line + n - 1) % n = line - 1
      BY <1>1, <3>1, Divided
    <3>3. line - 1 + 1 = 0 * n + line
      BY <1>1
    <3>4. (line - 1 + 1) % n = line
      BY <1>1, <3>3, Divided
    <3>5. (line + n - 1) % n \in Lines
      BY <1>1, <3>1, <3>2
    <3> QED
      BY <1>2, <3>2, <3>4, <3>5
  <2> QED
    BY <2>1, <2>2
<1> QED
  BY <1>3 DEF n

\* The bytes of a load: those of its line, and beyond it those of the next one.
LEMMA LoadedIs ==
  ASSUME NEW line \in Lines, NEW o \in Offset, NEW r, r.addr = line * LINE_BYTES + o
  PROVE  Bytes!Loaded(r) =
           [b \in Lane |-> IF o + b < LINE_BYTES THEN held(line)[o + b]
                           ELSE held(line2(line))[o + b - LINE_BYTES]]
<1> DEFINE n == SETS * TAGS
           m == LINE_BYTES
<1>1. /\ n \in Nat /\ n > 0 /\ Lines = 0 .. n - 1 /\ Offset = 0 .. m - 1 /\ m \in Nat /\ m > 0
      /\ ACCESS \in Nat /\ ACCESS <= m /\ Lane = 0 .. ACCESS - 1
      /\ line \in Nat /\ line < n /\ o \in Nat /\ o < m
  BY Shape, DcacheAssumption DEF Lines, Offset, Lane
<1>2. n * m \in Nat /\ n * m > 0 /\ line * m \in Nat
  <2>1. \A x \in Nat, y \in Nat : x * y \in Nat
    OBVIOUS
  <2> QED
    BY <1>1, <2>1, AddressParts
<1>3. \A x \in Nat : x < n * m => x % (n * m) = x
  BY <1>2
<1>4. ASSUME NEW b \in Lane
      PROVE  space[Bytes!At(r.addr, b)] =
               IF o + b < m THEN held(line)[o + b] ELSE held(line2(line))[o + b - m]
  <2>1. b \in Nat /\ b < m /\ r.addr + b = line * m + (o + b)
    BY <1>1, <1>2
  <2>2. Bytes!At(r.addr, b) = (r.addr + b) % (n * m)
    BY DEF Bytes!At
  <2>3. CASE o + b < m
    <3>1. o + b \in Offset
      BY <1>1, <2>1, <2>3
    <3>2. line * m + (o + b) \in Nat /\ line * m + (o + b) < n * m
      BY <1>2, <3>1, AddressParts
    <3>3. Bytes!At(r.addr, b) = line * m + (o + b)
      BY <1>3, <2>1, <2>2, <3>2
    <3> QED
      BY <2>3, <3>1, <3>3, SpaceAt
  <2>4. CASE ~(o + b < m)
    <3> DEFINE k == o + b - m
    <3>1. k \in Offset /\ k \in Nat /\ k < m /\ o + b = m + k
      BY <1>1, <2>1, <2>4
    <3> HIDE DEF k
    <3>2. line2(line) \in Lines /\ line2(line) = IF line + 1 = n THEN 0 ELSE line + 1
      BY NextLine
    <3>3. Bytes!At(r.addr, b) = line2(line) * m + k
      <4>1. CASE line + 1 = n
        <5>1. (line + 1) * m = line * m + m
          BY <1>1
        <5>2. r.addr + b = 1 * (n * m) + k
          <6>1. n * m = line * m + m
            BY <4>1, <5>1
          <6>2. \A x \in Nat, y \in Nat : y = x + m => x + (o + b) = 1 * y + k
            BY <1>1, <2>1, <3>1
          <6> QED
            BY <1>2, <2>1, <6>1, <6>2
        <5>3. m <= n * m
          BY <1>1, <1>2, <4>1, <5>1
        <5>4. k < n * m
          BY <1>1, <1>2, <3>1, <5>3
        <5>5. (r.addr + b) % (n * m) = k
          BY <1>2, <3>1, <5>2, <5>4, Divided
        <5>6. line2(line) * m + k = k
          BY <1>1, <3>1, <3>2, <4>1
        <5> QED
          BY <2>2, <5>5, <5>6
      <4>2. CASE line + 1 # n
        <5>1. (line + 1) * m = line * m + m
          BY <1>1
        <5>2. r.addr + b = (line + 1) * m + k
          BY <1>1, <1>2, <2>1, <3>1, <5>1
        <5>3. (line + 1) * m + k \in 0 .. n * m - 1
          BY <3>1, <3>2, <4>2, AddressParts
        <5>4. (r.addr + b) % (n * m) = r.addr + b
          BY <1>2, <1>3, <5>2, <5>3
        <5> QED
          BY <2>2, <3>2, <4>2, <5>2, <5>4
      <4> QED
        BY <4>1, <4>2
    <3>4. space[line2(line) * m + k] = held(line2(line))[k]
      BY <3>1, <3>2, SpaceAt
    <3> QED
      BY <2>4, <3>3, <3>4 DEF k
  <2> QED
    BY <2>3, <2>4
<1> QED
  BY <1>4 DEF Bytes!Loaded, Bytes!Within, Lane

ByteStep == [Bytes!ByteNext]_(Bytes!byteVars)

LEMMA Stutters ==
  ASSUME served' = served, space' = space, cpu_resp' = cpu_resp
  PROVE  ByteStep
BY DEF ByteStep, Bytes!byteVars

\* A request is accepted; a store that hits takes place.
LEMMA AcceptServed ==
  ASSUME IInv, NEW r \in Loads \cup Stores, Accept(r)
  PROVE  ByteStep
<1> DEFINE a == [write |-> r.write, addr |-> r.line * LINE_BYTES + r.offset,
                 strb |-> r.strb, data |-> r.data, done |-> r.write /\ is_hit(r.line)]
<1>1. r \in Access /\ (r.write => \A b \in r.strb : r.offset + b < LINE_BYTES)
  BY Requests
<1>2. r.line \in Lines /\ r.write \in BOOLEAN
  BY <1>1 DEF Access
<1>3. served = {} /\ cpu_resp' = {}
  BY DEF Accept, served, Quiet
<1>4. served' = {a}
  <2>1. /\ current_state' = IF is_hit(r.line) THEN "BUSY" ELSE miss_state(r.line)
        /\ req_q' = r /\ refill_done_q' = FALSE
        /\ cross_q'.active = crosses(r) /\ cross_q'.phase = FALSE
        /\ cross_q'.offset = IF crosses(r) THEN r.offset ELSE 0
    BY DEF Accept, IInv, TypeD
  <2>2. miss_state(r.line) \in {"WRMEM", "RDMEM"}
    BY DEF miss_state
  <2>3. current_state' # "IDLE" /\ (current_state' = "BUSY" <=> is_hit(r.line))
    BY <2>1, <2>2
  <2>4. first_line' = r.line /\ crosses(r) \in BOOLEAN
    BY <2>1 DEF first_line, crosses
  <2>5. access'.done = (r.write /\ is_hit(r.line))
    BY <1>2, <2>1, <2>3 DEF access
  <2>6. access' = [write |-> r.write, addr |-> r.line * LINE_BYTES + r.offset,
                   strb |-> r.strb, data |-> r.data, done |-> access'.done]
    BY <2>1, <2>4 DEF access
  <2> QED
    BY <2>3, <2>5, <2>6 DEF served
<1>5. IF a.done THEN a.write /\ space' = Bytes!Stored(a) ELSE space' = space
  <2>1. lines' = lines
    BY DEF Accept
  <2>2. CASE r.write /\ is_hit(r.line)
    <3>1. sets' = [sets EXCEPT ![Index(r.line)] =
                     WriteHit(@, TagOf(r.line), cpu_wstrb_line(r), cpu_wdata_line(r))]
      BY <2>2 DEF Accept
    <3>2. /\ held(r.line)' = merge(held(r.line), cpu_wstrb_line(r), cpu_wdata_line(r))
          /\ \A l \in Lines \ {r.line} : held(l)' = held(l)
      BY <1>1, <2>1, <2>2, <3>1, StoreKeeps DEF IInv
    <3>3. \A l \in Lines :
            held(l)' = IF l = r.line THEN merge(held(l), cpu_wstrb_line(r), cpu_wdata_line(r))
                       ELSE held(l)
      BY <3>2
    <3>4. \A l \in Lines : held(l) \in LineData
      BY HeldTyped DEF IInv
    <3>5. a.addr = r.line * LINE_BYTES + r.offset /\ a.strb = r.strb /\ a.data = r.data
      OBVIOUS
    <3> HIDE DEF a
    <3>6. space' = Bytes!Stored(a)
      BY <1>1, <2>2, <3>3, <3>4, <3>5, SpaceStored
    <3> QED
      BY <2>2, <3>6 DEF a
  <2>3. CASE ~(r.write /\ is_hit(r.line))
    <3>1. sets' = sets
      BY <2>3 DEF Accept
    <3>2. space' = space
      BY <2>1, <3>1, SameContents, SpaceSame
    <3> QED
      BY <2>3, <3>2
  <2> QED
    BY <2>2, <2>3
<1> HIDE DEF a
<1>6. Bytes!Accept
  BY <1>3, <1>4, <1>5 DEF Bytes!Accept
<1> QED
  BY <1>6 DEF ByteStep, Bytes!ByteNext

\* While the access is in service, its description and the bytes stay.
LEMMA StillServed ==
  ASSUME current_state # "IDLE", current_state' # "IDLE", IInv, cpu_resp' = {},
         req_q' = req_q, cross_q' = cross_q, \A l \in Lines : held(l)' = held(l),
         ~access.done, ~access'.done
  PROVE  ByteStep
<1>1. cpu_resp' = cpu_resp
  BY DEF IInv, InService
<1>2. space' = space
  BY SpaceSame
<1>3. access.done \in BOOLEAN /\ access'.done \in BOOLEAN
  BY DEF access
<1>4. first_line' = first_line
  BY DEF first_line
<1>5. access' = access
  <2>1. access' = [access EXCEPT !.done = access'.done]
    BY <1>4 DEF access
  <2>2. access = [access EXCEPT !.done = access.done]
    BY DEF access
  <2> QED
    BY <1>3, <2>1, <2>2
<1>6. served' = served
  BY <1>5 DEF served
<1> QED
  BY <1>1, <1>2, <1>6, Stutters

LEMMA WaitingServed ==
  ASSUME IInv, Rest \/ Await \/ BusyWait \/ CrossLine \/ \E taken \in BOOLEAN : Request(taken)
  PROVE  ByteStep
<1>1. CASE Rest
  <2>1. served = {} /\ served' = {} /\ cpu_resp' = {}
    BY <1>1 DEF Rest, served, Quiet
  <2>2. sets' = sets /\ lines' = lines
    BY <1>1 DEF Rest
  <2>3. space' = space
    BY <2>2, SameContents, SpaceSame
  <2>4. CASE cpu_resp = {}
    BY <2>1, <2>3, <2>4, Stutters
  <2>5. CASE cpu_resp # {}
    BY <2>1, <2>3, <2>5 DEF ByteStep, Bytes!ByteNext, Bytes!Withdraw
  <2> QED
    BY <2>4, <2>5
<1>2. CASE Await \/ BusyWait \/ CrossLine \/ \E taken \in BOOLEAN : Request(taken)
  <2>1. /\ sets' = sets /\ lines' = lines /\ req_q' = req_q /\ cross_q' = cross_q
        /\ cpu_resp' = {} /\ current_state # "IDLE"
    BY <1>2, BusyWaitStep
       DEF Await, BusyWait, CrossLine, Request, no_set_access, Quiet, ctrlVars
  <2>2. current_state' # "IDLE" /\ ~access.done /\ ~access'.done
    <3>1. CASE Await \/ \E taken \in BOOLEAN : Request(taken)
      BY <3>1 DEF Await, Request, ctrlVars, access
    <3>2. CASE BusyWait
      BY <3>2, BusyWaitStep DEF BusyWait, ctrlVars, access
    <3>3. CASE CrossLine
      <4>1. ~req_q.write /\ req_q' = req_q
        BY <3>3 DEF CrossLine, IInv, InService
      <4>2. current_state' \in {"BUSY", "WRMEM", "RDMEM"}
        BY <3>3 DEF CrossLine, miss_state
      <4> QED
        BY <4>1, <4>2 DEF access
    <3> QED
      BY <1>2, <3>1, <3>2, <3>3
  <2>3. \A l \in Lines : held(l)' = held(l)
    BY <2>1, SameContents
  <2> QED
    BY <2>1, <2>2, <2>3, StillServed
<1> QED
  BY <1>1, <1>2

\* The first half is read: the access is still the whole load.
LEMMA FirstHalfServed ==
  ASSUME IInv, BusyFirstHalf
  PROVE  ByteStep
<1> DEFINE n == SETS * TAGS
<1>1. /\ cross_q.active /\ ~cross_q.phase /\ ~req_q.write /\ current_state = "BUSY"
      /\ current_state' = "CROSSLINE" /\ cpu_resp' = {} /\ lines' = lines
  BY DEF BusyFirstHalf, first_half_read, Quiet
<1>2. /\ cross_q'.active /\ cross_q'.phase /\ cross_q'.offset = cross_q.offset
      /\ req_q'.line = line2(req_q.line) /\ req_q'.write = req_q.write
      /\ req_q'.strb = req_q.strb /\ req_q'.data = req_q.data
  BY <1>1 DEF BusyFirstHalf, IInv, TypeD, Access
<1>3. first_line' = first_line
  <2>1. ASSUME NEW q, q = req_q
        PROVE  (line2(q.line) + SETS * TAGS - 1) % (SETS * TAGS) = q.line
    <3>1. q.line \in Lines
      BY <2>1 DEF IInv, TypeD, Access
    <3> QED
      BY <3>1, NextLine
  <2>2. first_line' = (req_q'.line + SETS * TAGS - 1) % (SETS * TAGS)
    BY <1>2 DEF first_line
  <2>3. first_line = req_q.line
    BY <1>1 DEF first_line
  <2> QED
    BY <1>2, <2>1, <2>2, <2>3
<1>4. access' = access
  BY <1>1, <1>2, <1>3 DEF access
<1>5. served' = served
  BY <1>1, <1>4 DEF served
<1>6. space' = space
  BY <1>1, FirstHalfStep, SameContents, SpaceSame
<1>7. cpu_resp' = cpu_resp
  BY <1>1 DEF IInv, InService
<1> QED
  BY <1>5, <1>6, <1>7, Stutters

\* Memory answers: the access goes on, or it fails and nothing has changed.
LEMMA RespondServed ==
  ASSUME IInv, Respond
  PROVE  ByteStep
<1>1. PICK error \in BOOLEAN : WrittenBack(error) \/ LineRead(error)
  BY DEF Respond
<1>2. \A l \in Lines : held(l)' = held(l)
  BY <1>1, WrittenBackStep, LineReadStep
<1>3. current_state \in {"WRMEM", "RDMEM"} /\ ~access.done /\ req_q' = req_q
  BY <1>1 DEF WrittenBack, LineRead, access
<1>4. CASE ~error
  <2>1. cross_q' = cross_q /\ cpu_resp' = {}
    BY <1>1, <1>4 DEF WrittenBack, LineRead, Quiet
  <2>2. current_state' # "IDLE" /\ ~access'.done
    BY <1>1, <1>4 DEF WrittenBack, LineRead, access
  <2> QED
    BY <1>2, <1>3, <2>1, <2>2, StillServed
<1>5. CASE error
  <2>1. Abort
    BY <1>1, <1>5 DEF WrittenBack, LineRead
  <2>2. served = {access} /\ served' = {}
    BY <1>3, <2>1 DEF served, Abort
  <2>3. cpu_resp' = {[write |-> access.write, fault |-> TRUE,
                      data |-> [b \in Bytes!Within |-> 0]]}
    BY <2>1 DEF Abort, Response, access, ZeroWord, Bytes!Within, Lane
  <2>4. space' = space
    BY <1>2, SpaceSame
  <2>5. Bytes!Fail(access)
    BY <1>3, <2>2, <2>3, <2>4 DEF Bytes!Fail
  <2> QED
    BY <2>2, <2>5 DEF ByteStep, Bytes!ByteNext
<1> QED
  BY <1>4, <1>5

\* The answer to a load is what its bytes hold.
LEMMA WordRead ==
  ASSUME IInv, BusyDone, ~req_q.write
  PROVE  (IF cross_q.active THEN merged ELSE selected_read_word) = Bytes!Loaded(access)
<1>1. current_state = "BUSY" /\ selected_rd_fire /\ (cross_q.active => cross_q.phase)
  BY DEF BusyDone, fired, first_half_read
<1>2. selected_read_word =
        [b \in Lane |-> IF req_q.offset + b < LINE_BYTES
                        THEN held(req_q.line)[req_q.offset + b] ELSE 0]
  BY <1>1, Selected
<1>3. /\ req_q.line \in Lines /\ req_q.offset \in Offset /\ cross_q.offset \in Offset
      /\ cross_q.active \in BOOLEAN
  BY DEF IInv, TypeD, Access
<1>4. /\ \A o \in Offset : o \in Nat /\ o < LINE_BYTES
      /\ \A b \in Lane : b \in Nat /\ b < ACCESS /\ b <= ACCESS - 1
      /\ ACCESS \in Nat /\ ACCESS <= LINE_BYTES /\ LINE_BYTES \in Nat
  BY Shape, DcacheAssumption DEF Offset, Lane
<1>5. CASE ~cross_q.active
  <2>1. first_line = req_q.line /\ access.addr = req_q.line * LINE_BYTES + req_q.offset
    BY <1>5 DEF access, first_line
  <2>2. req_q.offset + ACCESS - 1 < LINE_BYTES
    BY <1>1, <1>5 DEF IInv, InService
  <2>3. \A b \in Lane : req_q.offset + b < LINE_BYTES
    BY <1>3, <1>4, <2>2
  <2>4. Bytes!Loaded(access) =
          [b \in Lane |-> IF req_q.offset + b < LINE_BYTES
                          THEN held(req_q.line)[req_q.offset + b]
                          ELSE held(line2(req_q.line))[req_q.offset + b - LINE_BYTES]]
    BY <1>3, <2>1, LoadedIs
  <2> QED
    BY <1>2, <1>5, <2>3, <2>4
<1>6. CASE cross_q.active
  <2>1. /\ first_line \in Lines /\ line2(first_line) = req_q.line
        /\ access.addr = first_line * LINE_BYTES + cross_q.offset
    BY <1>1, <1>3, <1>6, LineBefore DEF access, first_line
  <2>2. req_q.offset = 0
    BY <1>1, <1>6 DEF IInv, InService
  <2>3. Bytes!Loaded(access) =
          [b \in Lane |-> IF cross_q.offset + b < LINE_BYTES
                          THEN held(first_line)[cross_q.offset + b]
                          ELSE held(line2(first_line))[cross_q.offset + b - LINE_BYTES]]
    BY <1>3, <2>1, LoadedIs
  <2>4. ASSUME NEW b \in Lane, cross_q.offset + b < LINE_BYTES
        PROVE  cross_q.data[b] = held(first_line)[cross_q.offset + b]
    BY <1>1, <1>6, <2>4 DEF IInv, HalfKept
  <2>5. ASSUME NEW b \in Lane, ~(cross_q.offset + b < LINE_BYTES)
        PROVE  selected_read_word[cross_q.offset + b - LINE_BYTES] =
                 held(line2(first_line))[cross_q.offset + b - LINE_BYTES]
    <3> DEFINE k == cross_q.offset + b - LINE_BYTES
    <3>1. k \in Lane /\ 0 + k < LINE_BYTES /\ 0 + k = k
      BY <1>3, <1>4, <2>5 DEF Lane
    <3> HIDE DEF k
    <3>2. selected_read_word[k] = held(req_q.line)[k]
      BY <1>2, <2>2, <3>1
    <3> QED
      BY <2>1, <3>2 DEF k
  <2>6. merged = [b \in Lane |-> IF cross_q.offset + b < LINE_BYTES
                                 THEN held(first_line)[cross_q.offset + b]
                                 ELSE held(line2(first_line))[cross_q.offset + b - LINE_BYTES]]
    BY <2>4, <2>5 DEF merged
  <2> QED
    BY <1>6, <2>3, <2>6
<1> QED
  BY <1>3, <1>5, <1>6

\* The answer: a store that missed takes place now.
LEMMA DoneServed ==
  ASSUME IInv, BusyDone
  PROVE  ByteStep
<1>1. /\ current_state = "BUSY" /\ current_state' = "IDLE" /\ BusyPorts /\ lines' = lines
      /\ refill_done_q \in BOOLEAN /\ req_q.write \in BOOLEAN
  BY DEF BusyDone, IInv, TypeD, Access
<1>2. served = {access} /\ served' = {}
  BY <1>1 DEF served
<1>3. cpu_resp' = {[write |-> access.write, fault |-> FALSE,
                    data |-> IF access.write THEN [b \in Bytes!Within |-> 0]
                             ELSE Bytes!Loaded(access)]}
  <2>1. access.write = req_q.write
    BY DEF access
  <2>2. cpu_resp' = Response(IF req_q.write THEN ZeroWord
                             ELSE IF cross_q.active THEN merged ELSE selected_read_word, FALSE)
    BY DEF BusyDone
  <2>3. ZeroWord = [b \in Bytes!Within |-> 0]
    BY DEF ZeroWord, Bytes!Within, Lane
  <2>4. CASE req_q.write
    BY <2>1, <2>2, <2>3, <2>4 DEF Response
  <2>5. CASE ~req_q.write
    <3>1. cpu_resp' = Response(Bytes!Loaded(access), FALSE)
      BY <2>2, <2>5, WordRead
    <3> QED
      BY <2>1, <2>5, <3>1 DEF Response
  <2> QED
    BY <2>4, <2>5
<1>4. CASE ~req_q.write
  <2>1. space' = space
    BY <1>1, <1>4, Ports, SpaceSame
  <2>2. Bytes!Serve(access)
    BY <1>2, <1>3, <1>4, <2>1 DEF Bytes!Serve, access
  <2> QED
    BY <1>2, <2>2 DEF ByteStep, Bytes!ByteNext
<1>5. CASE req_q.write
  <2>1. CASE ~refill_done_q
    <3>1. space' = space /\ access.done /\ access.write
      BY <1>1, <1>5, <2>1, Ports, SpaceSame DEF access
    <3>2. Bytes!Serve(access)
      BY <1>2, <1>3, <3>1 DEF Bytes!Serve
    <3> QED
      BY <1>2, <3>2 DEF ByteStep, Bytes!ByteNext
  <2>2. CASE refill_done_q
    <3>1. ~cross_q.active /\ access.write /\ ~access.done
      BY <1>1, <1>5, <2>2 DEF IInv, InService, access
    <3>2. space' = Bytes!Stored(access)
      <4>1. ASSUME NEW q, q = req_q
            PROVE  \A l \in Lines :
                     held(l)' = IF l = q.line
                                THEN merge(held(l), cpu_wstrb_line(q), cpu_wdata_line(q))
                                ELSE held(l)
        BY <1>1, <1>5, <2>2, <4>1, Ports
      <4>2. ASSUME NEW q, q = req_q, NEW r, r = access
            PROVE  space' = Bytes!Stored(r)
        <5>1. q \in Access /\ \A b \in q.strb : q.offset + b < LINE_BYTES
          BY <1>5, <4>2 DEF IInv, TypeD, InService
        <5>2. r.addr = q.line * LINE_BYTES + q.offset /\ r.strb = q.strb /\ r.data = q.data
          BY <3>1, <4>2 DEF access, first_line
        <5>3. \A l \in Lines : held(l) \in LineData
          BY HeldTyped DEF IInv
        <5> QED
          BY <4>1, <4>2, <5>1, <5>2, <5>3, SpaceStored
      <4> QED
        BY <4>2
    <3>3. Bytes!Serve(access)
      BY <1>2, <1>3, <3>1, <3>2 DEF Bytes!Serve
    <3> QED
      BY <1>2, <3>3 DEF ByteStep, Bytes!ByteNext
  <2> QED
    BY <1>1, <2>1, <2>2
<1> QED
  BY <1>1, <1>4, <1>5

LEMMA InitialBytes == DcacheInit => Bytes!ByteInit
<1> SUFFICES ASSUME DcacheInit
             PROVE  Bytes!ByteInit
  OBVIOUS
<1>1. served = {} /\ cpu_resp = {}
  BY DEF DcacheInit, served
<1>2. ASSUME NEW l \in Lines
      PROVE  held(l) = ZeroLine
  <2>1. Index(l) \in SetIndex
    BY LineParts
  <2>2. ~is_hit(l)
    BY <2>1 DEF DcacheInit, is_hit, set_of, hit, hits, EmptySet, SetIndex
  <2> QED
    BY <2>2 DEF DcacheInit, held
<1>3. ASSUME NEW a \in 0 .. SETS * TAGS * LINE_BYTES - 1
      PROVE  space[a] = 0
  <2>1. a \div LINE_BYTES \in Lines /\ a % LINE_BYTES \in Offset
    BY AddressParts
  <2>2. space[a] = held(a \div LINE_BYTES)[a % LINE_BYTES]
    BY DEF space
  <2> QED
    BY <1>2, <2>1, <2>2 DEF ZeroLine
<1> QED
  BY <1>1, <1>3 DEF Bytes!ByteInit, space

(***************************************************************************)
(* The cache with the line memory behind it is a memory of bytes that      *)
(* serves one access at a time (Dcache.v): a store takes place when it     *)
(* hits or after its refill, a load returns the bytes as they are, also    *)
(* over two lines, and an access that fails changes nothing.               *)
(***************************************************************************)
THEOREM CacheIsMemory == DcacheSpec => ImplementsMemory
<1>1. IInv /\ [DcacheNext]_dcacheVars => ByteStep
  <2>1. ASSUME IInv, DcacheNext
        PROVE  ByteStep
    <3>1. CASE AcceptAny
      BY <2>1, <3>1, AcceptServed DEF AcceptAny
    <3>2. CASE Rest \/ Await \/ BusyWait \/ CrossLine \/ \E taken \in BOOLEAN : Request(taken)
      BY <2>1, <3>2, WaitingServed
    <3>3. CASE BusyFirstHalf
      BY <2>1, <3>3, FirstHalfServed
    <3>4. CASE BusyDone
      BY <2>1, <3>4, DoneServed
    <3>5. CASE Respond
      BY <2>1, <3>5, RespondServed
    <3> QED
      BY <2>1, <3>1, <3>2, <3>3, <3>4, <3>5 DEF DcacheNext, Busy
  <2>2. ASSUME UNCHANGED dcacheVars
        PROVE  ByteStep
    <3>1. sets' = sets /\ lines' = lines /\ cpu_resp' = cpu_resp
      BY <2>2 DEF dcacheVars
    <3>2. space' = space
      BY <3>1, SameContents, SpaceSame
    <3>3. served' = served
      BY <2>2 DEF dcacheVars, ctrlVars, served, access, first_line
    <3> QED
      BY <3>1, <3>2, <3>3, Stutters
  <2> QED
    BY <2>1, <2>2
<1> QED
  BY <1>1, InitialBytes, Invariant, PTL
     DEF DcacheSpec, ImplementsMemory, Bytes!ByteSpec, ByteStep
=============================================================================

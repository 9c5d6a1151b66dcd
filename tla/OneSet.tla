------------------------------- MODULE OneSet -------------------------------
(***************************************************************************)
(* One set of a set-associative cache (src/dut/mem/one_set.v), used by     *)
(* both caches: tag match, choice of the victim by age of filling, and the *)
(* write port.  A set is a function from its ways to their contents; the   *)
(* registers behind the read port are in the modules of the caches.        *)
(***************************************************************************)
EXTENDS Naturals, FiniteSetsExt

CONSTANT WAYS         \* ways of a set, a power of two; 4 in the RTL

ASSUME WaysAssumption == WAYS \in Nat \ {0}

Way == 0 .. WAYS - 1
MaxTime == IF WAYS = 1 THEN 1 ELSE WAYS - 1

\* A reset clears state and age; tag and data of an invalid way are never read.
EmptySet(data) ==
  [w \in Way |-> [valid |-> FALSE, dirty |-> FALSE, tag |-> 0, time |-> 0, data |-> data]]

hits(s, tag) == {w \in Way : s[w].valid /\ s[w].tag = tag}
hit(s, tag) == hits(s, tag) # {}
hit_way(s, tag) == Min(hits(s, tag))

\* The last invalid way, else the last of age zero.
victim_way(s) ==
  LET invalid == {w \in Way : ~s[w].valid}
      oldest == {w \in Way : s[w].time = 0}
  IN IF invalid # {} THEN Max(invalid) ELSE IF oldest # {} THEN Max(oldest) ELSE 0

needs_writeback(s) == s[victim_way(s)].valid /\ s[victim_way(s)].dirty

\* The bytes of line that strb selects, over old.
merge(old, strb, line) == [b \in DOMAIN old |-> IF b \in strb THEN line[b] ELSE old[b]]

\* Mutant of WriteHit: the dirty bit is not set.
WriteHitClean(s, tag, strb, line) ==
  [s EXCEPT ![hit_way(s, tag)].data = merge(@, strb, line)]

WriteHit(s, tag, strb, line) ==
  [s EXCEPT ![hit_way(s, tag)].data = merge(@, strb, line),
            ![hit_way(s, tag)].dirty = TRUE]

\* Mutant of Refill: the other ways do not age.
RefillAgeless(s, tag, line) ==
  [s EXCEPT ![victim_way(s)] =
     [valid |-> TRUE, dirty |-> FALSE, tag |-> tag, time |-> MaxTime, data |-> line]]

\* The victim takes the line; every other way ages.
Refill(s, tag, line) ==
  [w \in Way |->
     IF w = victim_way(s)
     THEN [valid |-> TRUE, dirty |-> FALSE, tag |-> tag, time |-> MaxTime, data |-> line]
     ELSE [s[w] EXCEPT !.time = IF @ = 0 THEN 0 ELSE @ - 1]]

(***************************************************************************)
(* Ages order the ways by filling: no two valid ways have the same age,    *)
(* and a full set has a way of age zero, its oldest.                       *)
(***************************************************************************)
AgesOrdered(s) ==
  /\ \A v, w \in Way : s[v].valid /\ s[w].valid /\ v # w => s[v].time # s[w].time
  /\ WAYS > 1 /\ (\A w \in Way : s[w].valid) => \E w \in Way : s[w].time = 0

\* No line is in a set twice.
OneCopyEach(s) ==
  \A v, w \in Way : s[v].valid /\ s[w].valid /\ v # w => s[v].tag # s[w].tag
=============================================================================

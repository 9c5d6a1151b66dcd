-------------------------------- MODULE Rat --------------------------------
(***************************************************************************)
(* Two-wide register renaming (src/dut/mycore/reg/rat.v): the speculative  *)
(* map rat_map, the committed map amt and the free list of physical        *)
(* registers.  Renaming is combinational on the state at the start of the  *)
(* cycle; dispatch, commit and recovery meet on the clock edge.            *)
(***************************************************************************)
EXTENDS Naturals, Sequences

CONSTANTS
  ARCH_REGS,        \* architectural registers; 32 in the RTL
  PHYS_REG_COUNT    \* physical registers; 48 in the RTL

ASSUME RegCountAssumption ==
  /\ ARCH_REGS \in Nat /\ PHYS_REG_COUNT \in Nat
  /\ 1 <= ARCH_REGS /\ ARCH_REGS <= PHYS_REG_COUNT

VARIABLES
  rat_map,     \* speculative map: architectural to physical
  amt,         \* committed map
  free_mask    \* physical registers that may be allocated

ratVars == <<rat_map, amt, free_mask>>

Arch == 0 .. ARCH_REGS - 1
Phys == 0 .. PHYS_REG_COUNT - 1

\* Register 0 is hard-wired: a write to it is no write.
effective_write(i) == i.writes /\ i.rd # 0
----------------------------------------------------------------------------
(***************************************************************************)
(* Renaming.  i0 and i1 are the two dispatch slots, i1 the younger.        *)
(***************************************************************************)
Lowest(S) == IF S = {} THEN 0 ELSE CHOOSE p \in S : \A q \in S : p <= q

first_free_tag == Lowest(free_mask)
second_free_tag == Lowest(free_mask \ {first_free_tag})

new_pdst0(i0) == IF effective_write(i0) THEN first_free_tag ELSE 0

\* Mutant of new_pdst1: both lanes take the same register.
new_pdst1_shared(i0, i1) == IF effective_write(i1) THEN first_free_tag ELSE 0

new_pdst1(i0, i1) ==
  IF ~effective_write(i1) THEN 0
  ELSE IF effective_write(i0) THEN second_free_tag ELSE first_free_tag

old_pdst0(i0) == rat_map[i0.rd]

\* Mutant of old_pdst1: no bypass between the lanes.
old_pdst1_stale(i0, i1) == rat_map[i1.rd]

old_pdst1(i0, i1) ==
  IF effective_write(i0) /\ effective_write(i1) /\ i1.rd = i0.rd
  THEN new_pdst0(i0) ELSE rat_map[i1.rd]

\* The tag of source register r, for the older lane and for the younger one.
src0_tag(used, r) == IF used THEN rat_map[r] ELSE 0
src1_tag(used, r, i0) ==
  IF ~used THEN 0
  ELSE IF effective_write(i0) /\ r = i0.rd THEN new_pdst0(i0) ELSE rat_map[r]
----------------------------------------------------------------------------
(***************************************************************************)
(* The clock edge.  d and c are the instructions dispatched and committed  *)
(* this cycle, at most two of each, oldest first.                          *)
(***************************************************************************)
\* A map after the writes of u, the youngest winning.
Written(map, u) ==
  [r \in Arch |->
     LET W == {k \in 1 .. Len(u) : effective_write(u[k]) /\ u[k].rd = r}
     IN IF r = 0 THEN 0
        ELSE IF 2 \in W THEN u[2].pdst
        ELSE IF 1 \in W THEN u[1].pdst
        ELSE map[r]]

Allocated(d) == {d[k].pdst : k \in {j \in 1 .. Len(d) : effective_write(d[j])}}
Released(c) == {c[k].old_pdst : k \in {j \in 1 .. Len(c) : effective_write(c[j])}}

\* Mutant of RatRecover: the commit of the recovery cycle is forgotten.
RatRecoverStale(c) ==
  /\ amt' = amt
  /\ rat_map' = amt
  /\ free_mask' = Phys \ ({amt[r] : r \in Arch} \cup {0})

\* Recovery rebuilds both maps from the committed one, the commits of this
\* very cycle included.
RatRecover(c) ==
  /\ amt' = Written(amt, c)
  /\ rat_map' = amt'
  /\ free_mask' = Phys \ ({amt'[r] : r \in Arch} \cup {0})

RatAdvance(d, c) ==
  /\ amt' = Written(amt, c)
  /\ rat_map' = Written(rat_map, d)
  /\ free_mask' = ((free_mask \cup Released(c)) \ Allocated(d)) \ {0}

RatTick(d, c, recover) ==
  IF recover THEN RatRecover(c) ELSE RatAdvance(d, c)

RatInit ==
  /\ rat_map = [r \in Arch |-> r]
  /\ amt = [r \in Arch |-> r]
  /\ free_mask = Phys \ Arch
=============================================================================

-------------------------------- MODULE Isa --------------------------------
(***************************************************************************)
(* The sequential machine: the reference model of src/C_model, stepping    *)
(* through a program one instruction at a time.  It is what the            *)
(* out-of-order core promises; a cycle of the core retires up to two       *)
(* instructions.                                                           *)
(***************************************************************************)
EXTENDS RV

CONSTANTS
  ARCH_REGS,
  Programs     \* programs under test, functions from Data to instructions

VARIABLES arch, prog

isaVars == <<arch, prog>>

IsaInit ==
  /\ prog \in Programs
  /\ arch = [pc |-> 0, regs |-> [r \in 0 .. ARCH_REGS - 1 |-> 0],
             mem |-> [a \in Data |-> 0]]

Retire1 == arch' = Step(arch, prog) /\ UNCHANGED prog
Retire2 == arch' = Step(Step(arch, prog), prog) /\ UNCHANGED prog

IsaSpec == IsaInit /\ [][Retire1 \/ Retire2]_isaVars
=============================================================================

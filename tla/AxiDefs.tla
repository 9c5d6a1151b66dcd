------------------------------- MODULE AxiDefs -------------------------------
(***************************************************************************)
(* AXI responses (src/dut/axi/axi_defs.vh) and the shape of a line burst.  *)
(* The adapters only make aligned full-width INCR bursts of one whole line, *)
(* so an address is the number of a line, and the checks of size, burst    *)
(* type, lock and alignment in decoder and RAM, which such a burst always  *)
(* passes, are left out.                                                   *)
(***************************************************************************)
EXTENDS Naturals

CONSTANTS
  LINE_BEATS,     \* beats of a line; 4 in the RTL
  COUNT,          \* values of an 8-bit beat counter; 256 in the RTL
  Datum           \* what one beat carries

ASSUME BeatsAssumption ==
  /\ LINE_BEATS \in Nat \ {0} /\ COUNT \in Nat /\ LINE_BEATS <= COUNT
  /\ 0 \in Datum

Beat == 0 .. LINE_BEATS - 1
LineData == [Beat -> Datum]
ZeroLine == [k \in Beat |-> 0]

Response == {"OKAY", "EXOKAY", "SLVERR", "DECERR"}
Id == {"icache", "dcache"}

\* A decode error outweighs every other; an EXOKAY nobody asked for is an error.
merge_resp(accumulated, incoming) ==
  LET both == {accumulated, incoming}
  IN IF "DECERR" \in both THEN "DECERR"
     ELSE IF both = {"OKAY"} THEN "OKAY" ELSE "SLVERR"
=============================================================================

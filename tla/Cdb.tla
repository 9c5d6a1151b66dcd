-------------------------------- MODULE Cdb --------------------------------
(***************************************************************************)
(* The arbiter of the two-lane common data bus                             *)
(* (src/dut/mycore/controller/cdb_arbiter.v).  Four producers ask every    *)
(* cycle: a load, the multiply/divide unit and the two integer lanes.      *)
(* Whoever is not granted asks again.                                      *)
(***************************************************************************)
EXTENDS Naturals, Sequences

CdbQuiet == [valid |-> FALSE, tag |-> 0, value |-> 0, control |-> FALSE, target |-> 0,
             mispredict |-> FALSE, writes |-> FALSE, pdst |-> 0]

asking(req) == {k \in 1 .. Len(req) : req[k].valid}
Foremost(S) == {k \in S : \A j \in S : k <= j}

\* Bus lane 1 is for the first of the producers asking, lane 2 for the next
\* one: empty or one index.
speaker(req, n) ==
  IF n = 1 THEN Foremost(asking(req))
  ELSE Foremost(asking(req) \ Foremost(asking(req)))

granted(req) == speaker(req, 1) \cup speaker(req, 2)

lane(req, n) ==
  IF speaker(req, n) = {} THEN CdbQuiet
  ELSE req[CHOOSE k \in speaker(req, n) : TRUE]
=============================================================================

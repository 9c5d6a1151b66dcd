------------------------------ MODULE MCRename ------------------------------
(* Writers of two registers, a writer and a non-writer that may mispredict. *)
EXTENDS Rename, TLC
Make(c, w, r, pd, old) ==
  [class |-> c, supported |-> TRUE, writes |-> w, rd |-> r, pdst |-> pd, old_pdst |-> old]
MCDecoded == {Make("alu", TRUE, 1, 0, 0), Make("alu", TRUE, 2, 0, 0),
              Make("control", TRUE, 1, 0, 0), Make("control", FALSE, 0, 0, 0)}
MCUop == {Make(c, w, r, pd, old) :
            c \in {"alu", "control"}, w \in BOOLEAN, r \in Arch, pd, old \in Phys}
MCNop == Make("alu", FALSE, 0, 0, 0)
=============================================================================

------------------------------- MODULE MCRob -------------------------------
(* One uop per class the buffer treats differently; two result values. *)
EXTENDS Rob, TLC
MCUop == {[class |-> c, supported |-> c # "invalid"] :
            c \in {"alu", "store", "control", "fence", "invalid"}}
MCNop == [class |-> "alu", supported |-> TRUE]
=============================================================================

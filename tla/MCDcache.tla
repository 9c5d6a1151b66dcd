------------------------------ MODULE MCDcache ------------------------------
EXTENDS Dcache
\* Words of two bytes that tell their halves apart.
MCStoreData == {[b \in Lane |-> IF b = 0 THEN 1 ELSE 2]}
=============================================================================

----------------------------- MODULE ByteMemory -----------------------------
(***************************************************************************)
(* What the data cache promises the core: a memory of bytes that serves    *)
(* one access at a time.  An access either takes place, at one instant     *)
(* between its acceptance and its answer, or it fails, changes nothing,    *)
(* reads as zero and is reported as a fault.                               *)
(***************************************************************************)
EXTENDS Naturals

CONSTANTS
  BYTES,      \* size of the address space
  ACCESS      \* bytes of a load

VARIABLES
  bytes,      \* the contents
  request,    \* the access in service: empty or one record
  answer      \* the answer of the last cycle: empty or one record

byteVars == <<bytes, request, answer>>

Within == 0 .. ACCESS - 1
At(addr, b) == (addr + b) % BYTES
Loaded(r) == [b \in Within |-> bytes[At(r.addr, b)]]
Stored(r) ==
  [a \in DOMAIN bytes |->
     IF \E b \in r.strb : a = At(r.addr, b)
     THEN r.data[CHOOSE b \in r.strb : a = At(r.addr, b)] ELSE bytes[a]]

\* done: a store has already taken place.
Accept ==
  /\ request = {} /\ answer' = {}
  /\ \E r \in request' :
       /\ request' = {r}
       /\ IF r.done THEN r.write /\ bytes' = Stored(r) ELSE UNCHANGED bytes

Serve(r) ==
  /\ request = {r} /\ request' = {}
  /\ \/ r.write /\ bytes' = IF r.done THEN bytes ELSE Stored(r)
     \/ ~r.write /\ UNCHANGED bytes
  /\ answer' = {[write |-> r.write, fault |-> FALSE,
                 data |-> IF r.write THEN [b \in Within |-> 0] ELSE Loaded(r)]}

Fail(r) ==
  /\ request = {r} /\ request' = {} /\ ~r.done
  /\ answer' = {[write |-> r.write, fault |-> TRUE, data |-> [b \in Within |-> 0]]}
  /\ UNCHANGED bytes

\* The answer is on the port for one cycle.
Withdraw == answer # {} /\ answer' = {} /\ UNCHANGED <<bytes, request>>

ByteInit ==
  /\ \A a \in DOMAIN bytes : bytes[a] = 0
  /\ request = {} /\ answer = {}
ByteNext == Accept \/ (\E r \in request : Serve(r) \/ Fail(r)) \/ Withdraw
ByteSpec == ByteInit /\ [][ByteNext]_byteVars
=============================================================================

---------------------------- MODULE FetchStream ----------------------------
(***************************************************************************)
(* What the front end promises the core: instructions of consecutive       *)
(* addresses, in order, each exactly once, at most two per cycle, until a  *)
(* redirect names the next address.  The variable fetch_pc of module Core  *)
(* is this stream.  An instruction word is represented by the address it   *)
(* was fetched from.                                                       *)
(***************************************************************************)
EXTENDS Naturals

CONSTANT PCS          \* instruction addresses, counted in instructions

VARIABLES
  stream_pc,    \* the next instruction to be delivered
  taken,        \* the instruction words consumed in the last cycle
  redirected    \* the redirect of the last cycle: empty or one address

streamVars == <<stream_pc, taken, redirected>>
PC == 0 .. PCS - 1
pc_after(pc, n) == (pc + n) % PCS

StreamInit == stream_pc = 0 /\ taken = <<>> /\ redirected = {}

Deliver ==
  /\ taken' \in {<<>>, <<stream_pc>>, <<stream_pc, pc_after(stream_pc, 1)>>}
  /\ redirected' = {}
  /\ \/ taken' = <<>> /\ UNCHANGED stream_pc
     \/ taken' = <<stream_pc>> /\ stream_pc' = pc_after(stream_pc, 1)
     \/ taken' = <<stream_pc, pc_after(stream_pc, 1)>> /\ stream_pc' = pc_after(stream_pc, 2)

Redirect ==
  /\ taken' = <<>>
  /\ \E t \in PC : redirected' = {t} /\ stream_pc' = t

StreamSpec == StreamInit /\ [][Deliver \/ Redirect]_streamVars
=============================================================================

---------------------------- MODULE MemorySystem -----------------------------
(***************************************************************************)
(* The memory side of the system (src/dut/axi/cache_axi_memory_system.v):  *)
(* adapters, arbiter, decoder and slaves, all on one clock.  The caches    *)
(* are the environment: each asks for a line when it has no request under  *)
(* way, and the data cache either reads or writes.                         *)
(*                                                                         *)
(* The slaves in the repository keep to the protocol; the adapters do not  *)
(* count on it.  A slip is a burst for which the RAM read a wrong length   *)
(* or a wrong id from the address channel, as another slave might.         *)
(***************************************************************************)
EXTENDS AxiAdapters, AxiInterconnect, AxiSlaves

CONSTANTS
  Lines,          \* lines the caches ask for
  WriteData,      \* lines the data cache writes back
  Slips           \* [len, foreign]: what the RAM takes a read request for

ASSUME MemorySystemAssumption ==
  /\ RamLines \subseteq RamWindow
  /\ WriteData \subseteq LineData
  /\ Slips \subseteq [len : Nat, foreign : BOOLEAN]
  /\ [len |-> LINE_BEATS - 1, foreign |-> FALSE] \in Slips

VARIABLES
  ic, dc,                       \* adapters
  ic_resp, dc_resp,             \* line answers registered with the last clock
  arb,                          \* arbiter
  rdec, wdec,                   \* decoder, read and write side
  ram, ram_r, ram_w,            \* RAM: array, read and write channel
  mmio_r, mmio_w,               \* the slave behind the MMIO window
  slipped,                      \* history: the burst under way is a slip
  seen, before                  \* history: values of the line ic reads, line dc overwrites

axiVars == <<ic, dc, ic_resp, dc_resp, arb, rdec, wdec, ram, ram_r, ram_w, mmio_r, mmio_w>>
systemVars == <<axiVars, slipped, seen, before>>

LastBeat == LINE_BEATS - 1
Faithful == [len |-> LastBeat, foreign |-> FALSE]
the(S) == CHOOSE x \in S : TRUE
other(id) == IF id = "icache" THEN "dcache" ELSE "icache"
-----------------------------------------------------------------------------
(***************************************************************************)
(* Wires of this cycle.                                                    *)
(***************************************************************************)
owner_adapter == IF arb.owner = "icache" THEN ic ELSE dc

m_axi_arvalid == arb.state = "AR" /\ owner_adapter.state = "AR"
m_axi_arready ==
  /\ rdec.state = "IDLE"
  /\ target_now(arb.araddr) = "RAM" => ~ram_r.active
  /\ target_now(arb.araddr) = "MMIO" => ~mmio_r.active
ar_fire(id) == arb.owner = id /\ m_axi_arvalid /\ m_axi_arready
ar_fire_any == \E id \in Id : ar_fire(id)

selected_read(target) == rdec.state = "RESP" /\ rdec.target = target
m_axi_rvalid ==
  \/ rdec.state = "ERR"
  \/ selected_read("RAM") /\ ram_r.active
  \/ selected_read("MMIO") /\ mmio_r.active
rbeat == IF selected_read("RAM") THEN read_out(ram_r)
         ELSE IF selected_read("MMIO") THEN error_read_out(mmio_r) ELSE refused_out(rdec)
r_fire(id) ==
  /\ arb.state = "R" /\ arb.owner = id
  /\ m_axi_rvalid /\ owner_adapter.state = "R"
r_fire_any == \E id \in Id : r_fire(id)

aw_fire ==
  /\ dc.state = "AW" /\ wdec.state = "IDLE"
  /\ target_now(dc.addr) = "RAM" => awready(ram_w)
  /\ target_now(dc.addr) = "MMIO" => awready(mmio_w)

selected_write(state, target) == wdec.state = state /\ wdec.target = target
w_fire ==
  /\ dc.state = "W"
  /\ \/ wdec.state = "ERR_DATA"
     \/ selected_write("DATA", "RAM") /\ ram_w.active
     \/ selected_write("DATA", "MMIO") /\ mmio_w.active

b_fire ==
  /\ dc.state = "B"
  /\ \/ wdec.state = "ERR_RESP"
     \/ selected_write("RESP", "RAM") /\ ram_w.resp_valid
     \/ selected_write("RESP", "MMIO") /\ mmio_w.resp_valid
bresp == IF wdec.state = "ERR_RESP" THEN [id |-> wdec.id, resp |-> "DECERR"]
         ELSE IF wdec.target = "RAM" THEN [id |-> ram_w.id, resp |-> ram_w.resp]
         ELSE [id |-> mmio_w.id, resp |-> "DECERR"]
-----------------------------------------------------------------------------
\* An idle unit is back in its reset state: registers that will be written
\* before they are read again keep their contents in the RTL and lose them
\* here, so that states differ in nothing but what matters.
settled(idle, unit, reset) == IF idle THEN reset ELSE unit
-----------------------------------------------------------------------------
(***************************************************************************)
(* One clock edge.  ireq: the line the instruction cache asks for; dreq:   *)
(* what the data cache asks for; slip: what the RAM takes a request for.   *)
(***************************************************************************)
icache_next(ireq) ==
  CASE ireq # {}         -> take_read(ic, the(ireq))
    [] ar_fire("icache") -> read_address_taken(ic)
    [] r_fire("icache")  -> read_beat(ic, "icache", rbeat)
    [] OTHER             -> ic

dcache_next(dreq) ==
  CASE \E q \in dreq : q.write  -> take_write(dc, the(dreq).line, the(dreq).data)
    [] \E q \in dreq : ~q.write -> take_read(dc, the(dreq).line)
    [] ar_fire("dcache")        -> read_address_taken(dc)
    [] r_fire("dcache")         -> read_beat(dc, "dcache", rbeat)
    [] aw_fire                  -> write_address_taken(dc)
    [] w_fire                   -> write_beat(dc)
    [] b_fire                   -> write_done(dc)
    [] OTHER                    -> dc

Adapters(ireq, dreq) ==
  /\ LET next == icache_next(ireq) IN ic' = settled(next.state = "IDLE", next, IdleRead)
  /\ ic_resp' = IF r_fire("icache") /\ rbeat.last THEN {line_resp(ic, "icache", rbeat)} ELSE {}
  /\ LET next == dcache_next(dreq) IN dc' = settled(next.state = "IDLE", next, IdleAdapter)
  /\ dc_resp' =
       IF r_fire("dcache") /\ rbeat.last
       THEN LET r == line_resp(dc, "dcache", rbeat)
            IN {[write |-> FALSE, resp |-> r.resp, data |-> r.data]}
       ELSE IF b_fire
       THEN {[write |-> TRUE, resp |-> write_resp("dcache", bresp), data |-> ZeroLine]}
       ELSE {}

arb_next ==
  CASE arb.state = "SELECT" /\ "AR" \in {ic.state, dc.state}
         -> select(arb, ic.state = "AR", ic.addr, dc.state = "AR", dc.addr)
    [] ar_fire_any              -> arb_address_taken(arb)
    [] r_fire_any /\ rbeat.last -> arb_burst_over(arb)
    [] OTHER                    -> arb

Arbiter == arb' = settled(arb_next.state = "SELECT", arb_next,
                          [IdleArbiter EXCEPT !.next_priority = arb_next.next_priority])

rdec_next ==
  CASE ar_fire_any -> read_routed(rdec, arb.arid, arb.araddr, LastBeat)
    [] r_fire_any  -> read_passed(rdec, rbeat.last)
    [] OTHER       -> rdec

wdec_next ==
  CASE aw_fire -> write_routed(wdec, "dcache", dc.addr)
    [] w_fire  -> write_passed(wdec, wlast(dc))
    [] b_fire  -> write_answered(wdec)
    [] OTHER   -> wdec

Decoder ==
  /\ rdec' = settled(rdec_next.state = "IDLE", rdec_next, IdleReadDecoder)
  /\ wdec' = settled(wdec_next.state = "IDLE", wdec_next, IdleWriteDecoder)

to(target) == ar_fire_any /\ target_now(arb.araddr) = target
wto(target) == aw_fire /\ target_now(dc.addr) = target
read_beat_of(target) == selected_read(target) /\ r_fire_any
write_beat_of(target) == selected_write("DATA", target) /\ w_fire
write_resp_of(target) == selected_write("RESP", target) /\ b_fire

ram_r_next(slip) ==
  CASE to("RAM") -> read_taken(ram, IF slip.foreign THEN other(arb.arid) ELSE arb.arid,
                               arb.araddr, slip.len)
    [] read_beat_of("RAM") -> read_next(ram_r, ram)
    [] OTHER -> ram_r

ram_w_next ==
  CASE wto("RAM") -> write_taken(ram_w, "dcache", dc.addr, LastBeat)
    [] write_beat_of("RAM") -> write_next(ram_w, wlast(dc))
    [] write_resp_of("RAM") -> write_resp_taken(ram_w)
    [] OTHER -> ram_w

mmio_r_next ==
  CASE to("MMIO") -> error_read_taken(arb.arid, LastBeat)
    [] read_beat_of("MMIO") -> error_read_next(mmio_r)
    [] OTHER -> mmio_r

mmio_w_next ==
  CASE wto("MMIO") -> error_write_taken("dcache")
    [] write_beat_of("MMIO") -> error_write_next(mmio_w, wlast(dc))
    [] write_resp_of("MMIO") -> write_resp_taken(mmio_w)
    [] OTHER -> mmio_w

Slaves(slip) ==
  /\ ram' = IF write_beat_of("RAM") THEN ram_written(ram, ram_w, wdata(dc)) ELSE ram
  /\ ram_r' = settled(~ram_r_next(slip).active, ram_r_next(slip), IdleReadChannel)
  /\ ram_w' = settled(awready(ram_w_next), ram_w_next, IdleWriteChannel)
  /\ mmio_r' = settled(~mmio_r_next.active, mmio_r_next, ErrorReadChannel)
  /\ mmio_w' = settled(awready(mmio_w_next), mmio_w_next, ErrorWriteChannel)
-----------------------------------------------------------------------------
\* The memory as the data cache sees it: its write counts from the request on.
writing(d) == d.state \in {"AW", "W", "B"}
mem_now == [l \in RamLines |-> IF writing(dc) /\ dc.addr = l THEN dc.write_buf ELSE ram[l]]

visible(line) ==
  [k \in Beat |-> IF line \notin RamLines THEN {}
                  ELSE {mem_now'[line][k]}
                         \cup (IF writing(dc') /\ dc'.addr = line THEN {before'[k]} ELSE {})]

History(ireq, dreq, slip) ==
  /\ slipped' = CASE to("RAM")                -> slip # Faithful
                  [] r_fire_any /\ rbeat.last -> FALSE
                  [] OTHER                    -> slipped
  /\ before' = IF \E q \in dreq : q.write
               THEN IF the(dreq).line \in RamLines THEN ram[the(dreq).line] ELSE ZeroLine
               ELSE IF writing(dc') THEN before ELSE ZeroLine
  /\ seen' = CASE ireq # {}           -> visible(the(ireq))
               [] ic'.state = "IDLE"  -> [k \in Beat |-> {}]
               [] OTHER -> [k \in Beat |-> seen[k] \cup visible(ic.addr)[k]]

Clock(ireq, dreq, slip) ==
  /\ Adapters(ireq, dreq)
  /\ Arbiter /\ Decoder /\ Slaves(slip)
  /\ History(ireq, dreq, slip)

\* A cache takes an answer before it asks again.
InstrRequests == {{}} \cup (IF ic.state = "IDLE" /\ ic_resp = {} THEN {{l} : l \in Lines} ELSE {})
DataRequests ==
  {{}} \cup (IF dc.state = "IDLE" /\ dc_resp = {}
             THEN {{[write |-> FALSE, line |-> l]} : l \in Lines}
                    \cup {{[write |-> TRUE, line |-> l, data |-> d]} : l \in Lines, d \in WriteData}
             ELSE {})

SystemInit ==
  /\ ic = IdleRead /\ dc = IdleAdapter /\ ic_resp = {} /\ dc_resp = {}
  /\ arb = IdleArbiter /\ rdec = IdleReadDecoder /\ wdec = IdleWriteDecoder
  /\ ram = [l \in RamLines |-> ZeroLine]
  /\ ram_r = IdleReadChannel /\ ram_w = IdleWriteChannel
  /\ mmio_r = ErrorReadChannel /\ mmio_w = ErrorWriteChannel
  /\ slipped = FALSE /\ seen = [k \in Beat |-> {}] /\ before = ZeroLine

SystemNext ==
  \E ireq \in InstrRequests, dreq \in DataRequests,
     slip \in IF to("RAM") THEN Slips ELSE {Faithful} : Clock(ireq, dreq, slip)

SystemSpec == SystemInit /\ [][SystemNext]_systemVars
SystemFairSpec == SystemSpec /\ WF_systemVars(SystemNext)
-----------------------------------------------------------------------------
(***************************************************************************)
(* The caches get the line memory they count on: an answer that is not an  *)
(* error is the line, whole, in order and from the right burst, whatever   *)
(* the slave does with RLAST and RID and however the bursts of the two     *)
(* caches interleave; and no access has two answers or another's.          *)
(***************************************************************************)
Access == IF writing(dc) THEN {[write |-> TRUE, line |-> dc.addr, before |-> before]}
          ELSE IF dc.state = "IDLE" THEN {}
          ELSE {[write |-> FALSE, line |-> dc.addr, before |-> ZeroLine]}

Memory == INSTANCE LineMemory WITH
  FLAKY <- Slips # {Faithful},
  mem <- mem_now,
  instr <- IF ic.state = "IDLE" THEN {} ELSE {[line |-> ic.addr, seen |-> seen]},
  data <- Access,
  instr_resp <- ic_resp,
  data_resp <- dc_resp

ImplementsLineMemory == Memory!LineSpec

(***************************************************************************)
(* An error is answered exactly to an access of a line that does not exist *)
(* and to a burst that slipped: a slip spoils no later burst, and none of  *)
(* the other cache.                                                        *)
(***************************************************************************)
ErrorDeserved ==
  /\ \A r \in ic_resp' : r.resp # "OKAY" <=> ic.addr \notin RamLines \/ slipped
  /\ \A r \in dc_resp' : r.resp # "OKAY" <=> dc.addr \notin RamLines \/ (~r.write /\ slipped)

ErrorsDeserved == [][ErrorDeserved]_systemVars

(***************************************************************************)
(* Arbiter, decoder and slaves agree on whose burst is under way and where *)
(* it goes; none of them is left in a burst the others have finished, so a *)
(* beat never reaches an adapter that does not wait for it.                *)
(***************************************************************************)
PathsAgree ==
  /\ arb.state = "R" <=> rdec.state # "IDLE"
  /\ arb.state = "R" => owner_adapter.state = "R" /\ owner_adapter.addr = arb.araddr
  /\ arb.state = "AR" => owner_adapter.state = "AR" /\ owner_adapter.addr = arb.araddr
  /\ ic.state = "R" => arb.state = "R" /\ arb.owner = "icache"
  /\ dc.state = "R" => arb.state = "R" /\ arb.owner = "dcache"
  /\ selected_read("RAM") <=> ram_r.active
  /\ selected_read("MMIO") <=> mmio_r.active
  /\ wdec.state # "IDLE" <=> dc.state \in {"W", "B"}
  /\ wdec.state \in {"DATA", "ERR_DATA"} <=> dc.state = "W"
  /\ selected_write("DATA", "RAM") <=> ram_w.active
  /\ selected_write("RESP", "RAM") <=> ram_w.resp_valid
  /\ selected_write("DATA", "MMIO") <=> mmio_w.active
  /\ selected_write("RESP", "MMIO") <=> mmio_w.resp_valid

(***************************************************************************)
(* Every line asked for is answered, however the other cache competes for  *)
(* the bus and wherever the burst goes.                                    *)
(***************************************************************************)
EveryLineAnswered ==
  /\ ic.state # "IDLE" ~> ic.state = "IDLE"
  /\ dc.state # "IDLE" ~> dc.state = "IDLE"
=============================================================================

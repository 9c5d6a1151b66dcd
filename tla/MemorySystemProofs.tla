------------------------- MODULE MemorySystemProofs --------------------------
(***************************************************************************)
(* The memory side, for every line length, counter width, address map and  *)
(* misbehaving slave: its units agree on the burst under way, an error is  *)
(* answered exactly where one is deserved, and what is answered without    *)
(* one is the line itself, so the caches have the line memory they assume. *)
(*                                                                         *)
(* The argument: on every clock the handshake that a unit waits for takes  *)
(* place (Handshakes), so all units see a burst begin and end in the same  *)
(* cycle; and as long as an adapter has seen nothing wrong, it has counted *)
(* the beats of the slave.                                                 *)
(***************************************************************************)
EXTENDS MyCoreSystem, TLAPS

\* A register file: a record with at least the given fields.
Record(a, F) == a = [f \in DOMAIN a |-> a[f]] /\ F \subseteq DOMAIN a
AdapterFields == {"state", "addr", "buf", "beat", "resp"}

RegistersOK ==
  /\ Record(ic, AdapterFields) /\ ic.state \in {"IDLE", "AR", "R"}
  /\ Record(dc, AdapterFields \cup {"write_buf"})
  /\ dc.state \in {"IDLE", "AR", "R", "AW", "W", "B"}
  /\ Record(arb, {"state", "owner", "next_priority", "arid", "araddr"})
  /\ arb.state \in {"SELECT", "AR", "R"} /\ arb.owner \in Id
  /\ Record(rdec, {"state", "target", "id", "len", "beat"})
  /\ rdec.state \in {"IDLE", "RESP", "ERR"}
  /\ Record(wdec, {"state", "target", "id"})
  /\ wdec.state \in {"IDLE", "DATA", "RESP", "ERR_DATA", "ERR_RESP"}
  /\ Record(ram_r, {"active", "error", "id", "addr", "len", "beat", "data"})
  /\ ram_r.active \in BOOLEAN
  /\ Record(ram_w, {"active", "resp_valid", "request_error", "protocol_error", "id",
                    "addr", "len", "beat", "resp"})
  /\ ram_w.active \in BOOLEAN /\ ram_w.resp_valid \in BOOLEAN
  /\ Record(mmio_r, {"active", "id", "len", "beat"}) /\ mmio_r.active \in BOOLEAN
  /\ Record(mmio_w, {"active", "resp_valid", "id"})
  /\ mmio_w.active \in BOOLEAN /\ mmio_w.resp_valid \in BOOLEAN

\* A burst goes where its address belongs and keeps the name of its master.
Routed ==
  /\ arb.state # "SELECT" => arb.arid = arb.owner
  /\ rdec.state = "RESP" => rdec.target = target_now(arb.araddr) /\ rdec.target \in {"RAM", "MMIO"}
  /\ rdec.state = "ERR" => target_now(arb.araddr) = "ERR"
  /\ wdec.state \in {"DATA", "RESP"} =>
       wdec.target = target_now(dc.addr) /\ wdec.target \in {"RAM", "MMIO"}
  /\ wdec.state \in {"ERR_DATA", "ERR_RESP"} => target_now(dc.addr) = "ERR" /\ wdec.id = "dcache"

\* While the adapter has seen nothing wrong it counts the beats of the RAM.
ReadCounted ==
  selected_read("RAM") =>
    /\ ram_r.beat \in Nat /\ ram_r.len \in Nat
    /\ ram_r.error <=> arb.araddr \notin RamLines
    /\ slipped <=> (ram_r.len # LastBeat \/ ram_r.id # arb.owner)
    /\ owner_adapter.resp = "OKAY" => owner_adapter.beat = ram_r.beat /\ ram_r.beat <= LastBeat
    /\ ~slipped /\ ~ram_r.error => owner_adapter.resp = "OKAY" /\ ram_r.beat <= ram_r.len

\* The adapter and the RAM count the beats of a write alike.
WriteCounted ==
  /\ ram_w.active =>
       /\ ~ram_w.protocol_error
       /\ ram_w.request_error <=> dc.addr \notin RamLines
       /\ ram_w.id = "dcache" /\ ram_w.len = LastBeat
       /\ ram_w.beat = dc.beat /\ dc.beat \in Beat
  /\ ram_w.resp_valid => ram_w.id = "dcache" /\ (ram_w.resp # "OKAY" <=> dc.addr \notin RamLines)
  /\ mmio_w.active \/ mmio_w.resp_valid => mmio_w.id = "dcache"

IInv == RegistersOK /\ PathsAgree /\ Routed /\ ReadCounted /\ WriteCounted
-----------------------------------------------------------------------------
(***************************************************************************)
(* Nobody waits: each unit's handshake happens in the cycle it is ready.   *)
(***************************************************************************)
LEMMA Handshakes ==
  ASSUME RegistersOK, PathsAgree, Routed
  PROVE  /\ \A id \in Id : ar_fire(id) <=> arb.state = "AR" /\ arb.owner = id
         /\ \A id \in Id : r_fire(id) <=> arb.state = "R" /\ arb.owner = id
         /\ ar_fire_any <=> arb.state = "AR"
         /\ r_fire_any <=> arb.state = "R"
         /\ aw_fire <=> dc.state = "AW"
         /\ w_fire <=> dc.state = "W"
         /\ b_fire <=> dc.state = "B"
<1>1. \A id \in Id : ar_fire(id) <=> arb.state = "AR" /\ arb.owner = id
  BY DEF RegistersOK, PathsAgree, ar_fire, m_axi_arvalid, m_axi_arready, selected_read
<1>2. \A id \in Id : r_fire(id) <=> arb.state = "R" /\ arb.owner = id
  <2>1. arb.state = "R" => m_axi_rvalid
    BY DEF RegistersOK, PathsAgree, Routed, m_axi_rvalid, selected_read
  <2> QED
    BY <2>1 DEF RegistersOK, PathsAgree, r_fire
<1>3. arb.owner \in Id
  BY DEF RegistersOK
<1>4. aw_fire <=> dc.state = "AW"
  BY DEF RegistersOK, PathsAgree, aw_fire, awready, selected_write
<1>5. w_fire <=> dc.state = "W"
  BY DEF RegistersOK, PathsAgree, Routed, w_fire, selected_write
<1>6. b_fire <=> dc.state = "B"
  BY DEF RegistersOK, PathsAgree, Routed, b_fire, selected_write
<1> QED
  BY <1>1, <1>2, <1>3, <1>4, <1>5, <1>6 DEF ar_fire_any, r_fire_any
-----------------------------------------------------------------------------
(***************************************************************************)
(* What one clock does to each unit, given that nobody waits.  b is the    *)
(* unit after the clock; a beat that is read is rbeat.                     *)
(***************************************************************************)
AdapterReads(a, b, id) ==
  /\ a.state = "AR" =>
       IF arb.state = "AR" /\ arb.owner = id
       THEN b.state = "R" /\ b.addr = a.addr /\ b.beat = 0 /\ b.resp = "OKAY"
       ELSE b = a
  /\ a.state = "R" =>
       IF rbeat.last THEN b.state = "IDLE"
       ELSE /\ b.state = "R" /\ b.addr = a.addr
            /\ b.beat = (a.beat + 1) % COUNT
            /\ b.resp = IF expected_last(a) THEN "SLVERR" ELSE merged_rresp(a, id, rbeat)

AdapterWrites(a, b) ==
  /\ a.state = "AW" => b.state = "W" /\ b.addr = a.addr /\ b.beat = 0
  /\ a.state = "W" => /\ b.addr = a.addr
                      /\ IF wlast(a) THEN b.state = "B"
                         ELSE b.state = "W" /\ b.beat = (a.beat + 1) % COUNT
  /\ a.state = "B" => b.state = "IDLE"

LEMMA TakeRead ==
  ASSUME NEW a, Record(a, AdapterFields), NEW line, NEW b, b = take_read(a, line)
  PROVE  Record(b, AdapterFields) /\ DOMAIN b = DOMAIN a /\ b.state = "AR"
BY DEF Record, AdapterFields, take_read

LEMMA ReadAddressTaken ==
  ASSUME NEW a, Record(a, AdapterFields), NEW b, b = read_address_taken(a)
  PROVE  /\ Record(b, AdapterFields) /\ DOMAIN b = DOMAIN a
         /\ b.state = "R" /\ b.addr = a.addr /\ b.beat = 0 /\ b.resp = "OKAY"
BY DEF Record, AdapterFields, read_address_taken

LEMMA ReadBeat ==
  ASSUME NEW a, Record(a, AdapterFields), NEW id, NEW beat, NEW b, b = read_beat(a, id, beat)
  PROVE  /\ Record(b, AdapterFields) /\ DOMAIN b = DOMAIN a
         /\ IF beat.last THEN b.state = "IDLE"
            ELSE /\ b.state = a.state /\ b.addr = a.addr
                 /\ b.beat = (a.beat + 1) % COUNT
                 /\ b.resp = IF expected_last(a) THEN "SLVERR" ELSE merged_rresp(a, id, beat)
BY DEF Record, AdapterFields, read_beat

LEMMA IdleRecords ==
  Record(IdleRead, AdapterFields) /\ Record(IdleAdapter, AdapterFields \cup {"write_buf"})
BY DEF Record, AdapterFields, IdleRead, IdleAdapter

LEMMA IcacheStep ==
  ASSUME RegistersOK, PathsAgree, Routed,
         NEW ireq \in InstrRequests, NEW dreq, Adapters(ireq, dreq)
  PROVE  /\ Record(ic', AdapterFields) /\ ic'.state \in {"IDLE", "AR", "R"}
         /\ ic.state = "IDLE" => ic'.state \in {"IDLE", "AR"}
         /\ AdapterReads(ic, ic', "icache")
<1> DEFINE next == icache_next(ireq)
<1>1. Record(ic, AdapterFields) /\ ic.state \in {"IDLE", "AR", "R"}
  BY DEF RegistersOK
<1>2. ic' = IF next.state = "IDLE" THEN IdleRead ELSE next
  BY DEF Adapters, settled
<1>3. ireq # {} => ic.state = "IDLE"
  BY DEF InstrRequests
<1>4. /\ ar_fire("icache") <=> arb.state = "AR" /\ arb.owner = "icache"
      /\ r_fire("icache") <=> arb.state = "R" /\ arb.owner = "icache"
  BY Handshakes DEF Id
<1>5. /\ arb.state = "AR" /\ arb.owner = "icache" => ic.state = "AR"
      /\ arb.state = "R" /\ arb.owner = "icache" <=> ic.state = "R"
  BY DEF PathsAgree, owner_adapter
<1>6. CASE ic.state = "IDLE"
  <2>1. next = IF ireq # {} THEN take_read(ic, the(ireq)) ELSE ic
    BY <1>4, <1>5, <1>6 DEF icache_next
  <2>2. Record(next, AdapterFields) /\ next.state \in {"IDLE", "AR"}
    BY <1>1, <1>6, <2>1, TakeRead
  <2> QED
    BY <1>2, <1>6, <2>2, IdleRecords DEF AdapterReads, IdleRead
<1>7. CASE ic.state = "AR"
  <2>1. next = IF arb.state = "AR" /\ arb.owner = "icache" THEN read_address_taken(ic) ELSE ic
    BY <1>3, <1>4, <1>5, <1>7 DEF icache_next
  <2>2. CASE arb.state = "AR" /\ arb.owner = "icache"
    BY <1>1, <1>2, <1>7, <2>1, <2>2, ReadAddressTaken DEF AdapterReads
  <2>3. CASE ~(arb.state = "AR" /\ arb.owner = "icache")
    BY <1>1, <1>2, <1>7, <2>1, <2>3 DEF AdapterReads
  <2> QED
    BY <2>2, <2>3
<1>8. CASE ic.state = "R"
  <2>1. next = read_beat(ic, "icache", rbeat)
    BY <1>3, <1>4, <1>5, <1>8 DEF icache_next
  <2>2. CASE rbeat.last
    BY <1>1, <1>2, <1>8, <2>1, <2>2, ReadBeat, IdleRecords DEF AdapterReads, IdleRead
  <2>3. CASE ~rbeat.last
    BY <1>1, <1>2, <1>8, <2>1, <2>3, ReadBeat DEF AdapterReads
  <2> QED
    BY <2>2, <2>3
<1> QED
  BY <1>1, <1>6, <1>7, <1>8

LEMMA TakeWrite ==
  ASSUME NEW a, Record(a, AdapterFields \cup {"write_buf"}), NEW line, NEW data,
         NEW b, b = take_write(a, line, data)
  PROVE  Record(b, AdapterFields \cup {"write_buf"}) /\ b.state = "AW"
BY DEF Record, AdapterFields, take_write

LEMMA WriteSteps ==
  ASSUME NEW a, Record(a, AdapterFields \cup {"write_buf"})
  PROVE  /\ Record(write_address_taken(a), AdapterFields \cup {"write_buf"})
         /\ write_address_taken(a).state = "W"
         /\ write_address_taken(a).addr = a.addr /\ write_address_taken(a).beat = 0
         /\ Record(write_beat(a), AdapterFields \cup {"write_buf"})
         /\ write_beat(a).addr = a.addr
         /\ write_beat(a).state = IF wlast(a) THEN "B" ELSE a.state
         /\ write_beat(a).beat = IF wlast(a) THEN 0 ELSE (a.beat + 1) % COUNT
         /\ Record(write_done(a), AdapterFields \cup {"write_buf"})
         /\ write_done(a).state = "IDLE"
<1>1. /\ Record(write_address_taken(a), AdapterFields \cup {"write_buf"})
      /\ write_address_taken(a).state = "W"
      /\ write_address_taken(a).addr = a.addr /\ write_address_taken(a).beat = 0
  BY DEF Record, AdapterFields, write_address_taken
<1>2. /\ Record(write_beat(a), AdapterFields \cup {"write_buf"})
      /\ write_beat(a).addr = a.addr
      /\ write_beat(a).state = IF wlast(a) THEN "B" ELSE a.state
      /\ write_beat(a).beat = IF wlast(a) THEN 0 ELSE (a.beat + 1) % COUNT
  BY DEF Record, AdapterFields, write_beat
<1>3. /\ Record(write_done(a), AdapterFields \cup {"write_buf"})
      /\ write_done(a).state = "IDLE"
  BY DEF Record, AdapterFields, write_done
<1> QED
  BY <1>1, <1>2, <1>3

LEMMA DataAdapterRecord ==
  ASSUME NEW a
  PROVE  /\ Record(a, AdapterFields \cup {"write_buf"}) => Record(a, AdapterFields)
         /\ Record(a, AdapterFields) /\ "write_buf" \in DOMAIN a
              => Record(a, AdapterFields \cup {"write_buf"})
         /\ Record(a, AdapterFields \cup {"write_buf"}) => "write_buf" \in DOMAIN a
BY DEF Record

LEMMA DcacheStep ==
  ASSUME RegistersOK, PathsAgree, Routed,
         NEW ireq, NEW dreq \in DataRequests, Adapters(ireq, dreq)
  PROVE  /\ Record(dc', AdapterFields \cup {"write_buf"})
         /\ dc'.state \in {"IDLE", "AR", "R", "AW", "W", "B"}
         /\ dc.state = "IDLE" => dc'.state \in {"IDLE", "AR", "AW"}
         /\ AdapterReads(dc, dc', "dcache")
         /\ AdapterWrites(dc, dc')
<1> DEFINE next == dcache_next(dreq)
           Fields == AdapterFields \cup {"write_buf"}
<1>1. Record(dc, Fields) /\ dc.state \in {"IDLE", "AR", "R", "AW", "W", "B"}
  BY DEF RegistersOK
<1>2. dc' = IF next.state = "IDLE" THEN IdleAdapter ELSE next
  BY DEF Adapters, settled
<1>3. dc.state # "IDLE" => dreq = {}
  BY DEF DataRequests
<1>4. /\ ar_fire("dcache") <=> arb.state = "AR" /\ arb.owner = "dcache"
      /\ r_fire("dcache") <=> arb.state = "R" /\ arb.owner = "dcache"
      /\ aw_fire <=> dc.state = "AW"
      /\ w_fire <=> dc.state = "W"
      /\ b_fire <=> dc.state = "B"
  BY Handshakes DEF Id
<1>5. /\ arb.state = "AR" /\ arb.owner = "dcache" => dc.state = "AR"
      /\ arb.state = "R" /\ arb.owner = "dcache" <=> dc.state = "R"
  BY DEF PathsAgree, owner_adapter
<1>6. Record(dc, AdapterFields) /\ "write_buf" \in DOMAIN dc
  BY <1>1, DataAdapterRecord
<1>7. IdleAdapter.state = "IDLE" /\ Record(IdleAdapter, Fields)
  BY IdleRecords DEF IdleAdapter
<1>8. CASE dc.state = "IDLE"
  <2>1. next \in {take_write(dc, the(dreq).line, the(dreq).data),
                  take_read(dc, the(dreq).line), dc}
    BY <1>4, <1>5, <1>8 DEF dcache_next
  <2>2. Record(next, Fields) /\ next.state \in {"IDLE", "AR", "AW"}
    <3>1. CASE next = take_write(dc, the(dreq).line, the(dreq).data)
      BY <1>1, <3>1, TakeWrite
    <3>2. CASE next = take_read(dc, the(dreq).line)
      BY <1>6, <3>2, TakeRead, DataAdapterRecord
    <3>3. CASE next = dc
      BY <1>1, <1>8, <3>3
    <3> HIDE DEF next
    <3> QED
      BY <2>1, <3>1, <3>2, <3>3
  <2> QED
    BY <1>2, <1>7, <1>8, <2>2 DEF AdapterReads, AdapterWrites
<1>9. CASE dc.state = "AR"
  <2>1. next = IF arb.state = "AR" /\ arb.owner = "dcache" THEN read_address_taken(dc) ELSE dc
    BY <1>3, <1>4, <1>5, <1>9 DEF dcache_next
  <2>2. CASE arb.state = "AR" /\ arb.owner = "dcache"
    <3>1. /\ Record(next, Fields)
          /\ next.state = "R" /\ next.addr = dc.addr /\ next.beat = 0 /\ next.resp = "OKAY"
      BY <1>6, <2>1, <2>2, ReadAddressTaken, DataAdapterRecord
    <3> QED
      BY <1>2, <1>9, <2>2, <3>1 DEF AdapterReads, AdapterWrites
  <2>3. CASE ~(arb.state = "AR" /\ arb.owner = "dcache")
    BY <1>1, <1>2, <1>9, <2>1, <2>3 DEF AdapterReads, AdapterWrites
  <2> QED
    BY <2>2, <2>3
<1>10. CASE dc.state = "R"
  <2>1. next = read_beat(dc, "dcache", rbeat)
    BY <1>3, <1>4, <1>5, <1>10 DEF dcache_next
  <2>2. /\ Record(next, AdapterFields) /\ DOMAIN next = DOMAIN dc
        /\ IF rbeat.last THEN next.state = "IDLE"
           ELSE /\ next.state = dc.state /\ next.addr = dc.addr
                /\ next.beat = (dc.beat + 1) % COUNT
                /\ next.resp = IF expected_last(dc) THEN "SLVERR"
                               ELSE merged_rresp(dc, "dcache", rbeat)
    <3> HIDE DEF next
    <3> QED
      BY <1>6, <2>1, ReadBeat
  <2>3. Record(next, Fields)
    <3> HIDE DEF next
    <3> QED
      BY <1>6, <2>2, DataAdapterRecord
  <2> HIDE DEF next
  <2> QED
    BY <1>2, <1>7, <1>10, <2>2, <2>3 DEF AdapterReads, AdapterWrites
<1>11. CASE dc.state \in {"AW", "W", "B"}
  <2>1. next = CASE dc.state = "AW" -> write_address_taken(dc)
                 [] dc.state = "W"  -> write_beat(dc)
                 [] dc.state = "B"  -> write_done(dc)
    BY <1>3, <1>4, <1>5, <1>11 DEF dcache_next
  <2>2. CASE dc.state = "AW"
    BY <1>1, <1>2, <2>1, <2>2, WriteSteps DEF AdapterReads, AdapterWrites
  <2>3. CASE dc.state = "W"
    BY <1>1, <1>2, <2>1, <2>3, WriteSteps DEF AdapterReads, AdapterWrites
  <2>4. CASE dc.state = "B"
    BY <1>1, <1>2, <1>7, <2>1, <2>4, WriteSteps DEF AdapterReads, AdapterWrites
  <2> QED
    BY <1>11, <2>2, <2>3, <2>4
<1> QED
  BY <1>1, <1>8, <1>9, <1>10, <1>11
-----------------------------------------------------------------------------
LEMMA ArbiterStep ==
  ASSUME RegistersOK, PathsAgree, Routed, Arbiter
  PROVE  /\ Record(arb', {"state", "owner", "next_priority", "arid", "araddr"})
         /\ arb'.owner \in Id
         /\ arb.state = "SELECT" =>
              IF ic.state = "AR" \/ dc.state = "AR"
              THEN /\ arb'.state = "AR" /\ arb'.arid = arb'.owner
                   /\ arb'.owner = "icache" => ic.state = "AR" /\ arb'.araddr = ic.addr
                   /\ arb'.owner = "dcache" => dc.state = "AR" /\ arb'.araddr = dc.addr
              ELSE arb'.state = "SELECT"
         /\ arb.state = "AR" => /\ arb'.state = "R" /\ arb'.owner = arb.owner
                                /\ arb'.arid = arb.arid /\ arb'.araddr = arb.araddr
         /\ arb.state = "R" =>
              IF rbeat.last THEN arb'.state = "SELECT"
              ELSE /\ arb'.state = "R" /\ arb'.owner = arb.owner
                   /\ arb'.arid = arb.arid /\ arb'.araddr = arb.araddr
<1> DEFINE Fields == {"state", "owner", "next_priority", "arid", "araddr"}
           Reset(b) == [IdleArbiter EXCEPT !.next_priority = b.next_priority]
<1>1. Record(arb, Fields) /\ arb.state \in {"SELECT", "AR", "R"} /\ arb.owner \in Id
  BY DEF RegistersOK
<1>2. arb' = IF arb_next.state = "SELECT" THEN Reset(arb_next) ELSE arb_next
  BY DEF Arbiter, settled
<1>3. \A b : Record(Reset(b), Fields) /\ Reset(b).state = "SELECT" /\ Reset(b).owner \in Id
  BY DEF Record, IdleArbiter, Id
<1>4. (ar_fire_any <=> arb.state = "AR") /\ (r_fire_any <=> arb.state = "R")
  BY Handshakes
<1> HIDE DEF Reset
<1>5. CASE arb.state = "SELECT"
  <2>1. CASE ic.state = "AR" \/ dc.state = "AR"
    <3>1. arb_next = select(arb, ic.state = "AR", ic.addr, dc.state = "AR", dc.addr)
      BY <1>4, <1>5, <2>1 DEF arb_next
    <3>2. /\ Record(arb_next, Fields) /\ arb_next.owner \in Id
          /\ arb_next.state = "AR" /\ arb_next.arid = arb_next.owner
          /\ arb_next.owner = "icache" => ic.state = "AR" /\ arb_next.araddr = ic.addr
          /\ arb_next.owner = "dcache" => dc.state = "AR" /\ arb_next.araddr = dc.addr
      <4> DEFINE s1 == choose_s1(arb, ic.state = "AR", dc.state = "AR")
                 source == IF s1 THEN "dcache" ELSE "icache"
      <4>1. arb_next = [arb EXCEPT !.state = "AR", !.owner = source, !.arid = source,
                                   !.araddr = IF s1 THEN dc.addr ELSE ic.addr]
        BY <3>1 DEF select
      <4>2. IF s1 THEN dc.state = "AR" ELSE ic.state = "AR"
        BY <2>1 DEF choose_s1
      <4> HIDE DEF s1
      <4> QED
        BY <1>1, <4>1, <4>2 DEF Record, Id
    <3> QED
      BY <1>2, <1>5, <2>1, <3>2
  <2>2. CASE ~(ic.state = "AR" \/ dc.state = "AR")
    <3>1. arb_next = arb
      BY <1>4, <1>5, <2>2 DEF arb_next
    <3> QED
      BY <1>2, <1>3, <1>5, <2>2, <3>1
  <2> QED
    BY <2>1, <2>2
<1>6. CASE arb.state = "AR"
  <2>1. arb_next = [arb EXCEPT !.state = "R"]
    BY <1>4, <1>6 DEF arb_next, arb_address_taken
  <2>2. /\ Record(arb_next, Fields) /\ arb_next.state = "R" /\ arb_next.owner = arb.owner
        /\ arb_next.arid = arb.arid /\ arb_next.araddr = arb.araddr
    BY <1>1, <2>1 DEF Record
  <2> QED
    BY <1>1, <1>2, <1>6, <2>2
<1>7. CASE arb.state = "R"
  <2>1. CASE rbeat.last
    <3>1. arb_next = arb_burst_over(arb)
      BY <1>4, <1>7, <2>1 DEF arb_next
    <3>2. arb_next.state = "SELECT"
      BY <1>1, <3>1 DEF Record, arb_burst_over
    <3> QED
      BY <1>2, <1>3, <1>7, <2>1, <3>2
  <2>2. CASE ~rbeat.last
    <3>1. arb_next = arb
      BY <1>4, <1>7, <2>2 DEF arb_next
    <3> QED
      BY <1>1, <1>2, <1>7, <2>2, <3>1
  <2> QED
    BY <2>1, <2>2
<1> QED
  BY <1>1, <1>5, <1>6, <1>7

LEMMA ReadDecoderStep ==
  ASSUME RegistersOK, PathsAgree, Routed, Decoder
  PROVE  /\ Record(rdec', {"state", "target", "id", "len", "beat"})
         /\ arb.state = "SELECT" => rdec'.state = "IDLE"
         /\ arb.state = "AR" =>
              IF target_now(arb.araddr) = "ERR" THEN rdec'.state = "ERR"
              ELSE rdec'.state = "RESP" /\ rdec'.target = target_now(arb.araddr)
         /\ arb.state = "R" =>
              IF rbeat.last THEN rdec'.state = "IDLE"
              ELSE rdec'.state = rdec.state /\ rdec'.target = rdec.target
<1> DEFINE Fields == {"state", "target", "id", "len", "beat"}
<1>1. /\ Record(rdec, Fields) /\ rdec.state \in {"IDLE", "RESP", "ERR"}
      /\ arb.state \in {"SELECT", "AR", "R"} /\ (arb.state = "R" <=> rdec.state # "IDLE")
  BY DEF RegistersOK, PathsAgree
<1>2. rdec' = IF rdec_next.state = "IDLE" THEN IdleReadDecoder ELSE rdec_next
  BY DEF Decoder, settled
<1>3. Record(IdleReadDecoder, Fields) /\ IdleReadDecoder.state = "IDLE"
  BY DEF Record, IdleReadDecoder
<1>4. (ar_fire_any <=> arb.state = "AR") /\ (r_fire_any <=> arb.state = "R")
  BY Handshakes
<1>5. CASE arb.state = "SELECT"
  <2>1. rdec_next = rdec
    BY <1>4, <1>5 DEF rdec_next
  <2> QED
    BY <1>1, <1>2, <1>3, <1>5, <2>1
<1>6. CASE arb.state = "AR"
  <2>1. rdec_next = read_routed(rdec, arb.arid, arb.araddr, LastBeat)
    BY <1>4, <1>6 DEF rdec_next
  <2>2. /\ Record(rdec_next, Fields)
        /\ IF target_now(arb.araddr) = "ERR" THEN rdec_next.state = "ERR"
           ELSE rdec_next.state = "RESP" /\ rdec_next.target = target_now(arb.araddr)
    BY <1>1, <2>1 DEF Record, read_routed
  <2> QED
    BY <1>2, <1>6, <2>2
<1>7. CASE arb.state = "R"
  <2>1. rdec_next = read_passed(rdec, rbeat.last)
    BY <1>4, <1>7 DEF rdec_next
  <2>2. /\ Record(rdec_next, Fields)
        /\ IF rbeat.last THEN rdec_next.state = "IDLE"
           ELSE rdec_next.state = rdec.state /\ rdec_next.target = rdec.target
    BY <1>1, <2>1 DEF Record, read_passed
  <2> QED
    BY <1>1, <1>2, <1>3, <1>7, <2>2
<1> QED
  BY <1>1, <1>5, <1>6, <1>7

LEMMA RamReadStep ==
  ASSUME RegistersOK, PathsAgree, Routed, NEW slip, Slaves(slip)
  PROVE  /\ Record(ram_r', {"active", "error", "id", "addr", "len", "beat", "data"})
         /\ ram_r'.active \in BOOLEAN
         /\ arb.state = "SELECT" => ~ram_r'.active
         /\ arb.state = "AR" =>
              IF target_now(arb.araddr) = "RAM"
              THEN /\ ram_r'.active /\ ram_r'.error = (arb.araddr \notin RamLines)
                   /\ ram_r'.id = IF slip.foreign THEN other(arb.arid) ELSE arb.arid
                   /\ ram_r'.len = slip.len /\ ram_r'.beat = 0
              ELSE ~ram_r'.active
         /\ arb.state = "R" =>
              IF selected_read("RAM") /\ ram_r.beat # ram_r.len
              THEN /\ ram_r'.active /\ ram_r'.error = ram_r.error /\ ram_r'.id = ram_r.id
                   /\ ram_r'.len = ram_r.len /\ ram_r'.beat = ram_r.beat + 1
              ELSE ~ram_r'.active
<1> DEFINE Fields == {"active", "error", "id", "addr", "len", "beat", "data"}
           next == ram_r_next(slip)
<1>1. /\ Record(ram_r, Fields) /\ ram_r.active \in BOOLEAN
      /\ arb.state \in {"SELECT", "AR", "R"} /\ (selected_read("RAM") <=> ram_r.active)
      /\ selected_read("RAM") => arb.state = "R"
  BY DEF RegistersOK, PathsAgree, selected_read
<1>2. ram_r' = IF ~next.active THEN IdleReadChannel ELSE next
  BY DEF Slaves, settled
<1>3. Record(IdleReadChannel, Fields) /\ IdleReadChannel.active = FALSE
  BY DEF Record, IdleReadChannel
<1>4. /\ to("RAM") <=> arb.state = "AR" /\ target_now(arb.araddr) = "RAM"
      /\ read_beat_of("RAM") <=> selected_read("RAM")
  BY <1>1, Handshakes DEF to, read_beat_of
<1>5. CASE arb.state = "AR" /\ target_now(arb.araddr) = "RAM"
  <2>1. next = read_taken(ram, IF slip.foreign THEN other(arb.arid) ELSE arb.arid,
                          arb.araddr, slip.len)
    BY <1>1, <1>4, <1>5 DEF ram_r_next
  <2>2. /\ Record(next, Fields) /\ next.active = TRUE
        /\ next.error = (arb.araddr \notin RamLines)
        /\ next.id = IF slip.foreign THEN other(arb.arid) ELSE arb.arid
        /\ next.len = slip.len /\ next.beat = 0
    BY <2>1 DEF Record, read_taken, request_valid
  <2> HIDE DEF next
  <2> QED
    BY <1>2, <1>5, <2>2
<1>6. CASE selected_read("RAM")
  <2>1. next = read_next(ram_r, ram)
    BY <1>1, <1>4, <1>6 DEF ram_r_next
  <2>2. CASE ram_r.beat = ram_r.len
    <3>1. Record(next, Fields) /\ next.active = FALSE
      BY <1>1, <1>6, <2>1, <2>2 DEF Record, read_next, rlast
    <3> HIDE DEF next
    <3> QED
      BY <1>1, <1>2, <1>3, <1>6, <2>2, <3>1
  <2>3. CASE ram_r.beat # ram_r.len
    <3>1. /\ Record(next, Fields) /\ next.active = ram_r.active
          /\ next.error = ram_r.error /\ next.id = ram_r.id
          /\ next.len = ram_r.len /\ next.beat = ram_r.beat + 1
      BY <1>1, <1>6, <2>1, <2>3 DEF Record, read_next, rlast
    <3> HIDE DEF next
    <3> QED
      BY <1>1, <1>2, <1>6, <2>3, <3>1
  <2> QED
    BY <2>2, <2>3
<1>7. CASE ~selected_read("RAM") /\ ~(arb.state = "AR" /\ target_now(arb.araddr) = "RAM")
  <2>1. next = ram_r
    BY <1>4, <1>7 DEF ram_r_next
  <2> HIDE DEF next
  <2> QED
    BY <1>1, <1>2, <1>3, <1>7, <2>1
<1> QED
  BY <1>5, <1>6, <1>7

LEMMA MmioReadStep ==
  ASSUME RegistersOK, PathsAgree, Routed, NEW slip, Slaves(slip)
  PROVE  /\ Record(mmio_r', {"active", "id", "len", "beat"})
         /\ mmio_r'.active \in BOOLEAN
         /\ arb.state = "SELECT" => ~mmio_r'.active
         /\ arb.state = "AR" => (mmio_r'.active <=> target_now(arb.araddr) = "MMIO")
         /\ arb.state = "R" =>
              (mmio_r'.active <=> selected_read("MMIO") /\ mmio_r.beat # mmio_r.len)
<1> DEFINE Fields == {"active", "id", "len", "beat"}
           next == mmio_r_next
<1>1. /\ Record(mmio_r, Fields) /\ mmio_r.active \in BOOLEAN
      /\ arb.state \in {"SELECT", "AR", "R"} /\ (selected_read("MMIO") <=> mmio_r.active)
      /\ selected_read("MMIO") => arb.state = "R"
  BY DEF RegistersOK, PathsAgree, selected_read
<1>2. mmio_r' = IF ~next.active THEN ErrorReadChannel ELSE next
  BY DEF Slaves, settled
<1>3. Record(ErrorReadChannel, Fields) /\ ErrorReadChannel.active = FALSE
  BY DEF Record, ErrorReadChannel
<1>4. /\ to("MMIO") <=> arb.state = "AR" /\ target_now(arb.araddr) = "MMIO"
      /\ read_beat_of("MMIO") <=> selected_read("MMIO")
  BY <1>1, Handshakes DEF to, read_beat_of
<1>5. CASE arb.state = "AR" /\ target_now(arb.araddr) = "MMIO"
  <2>1. next = error_read_taken(arb.arid, LastBeat)
    BY <1>1, <1>4, <1>5 DEF mmio_r_next
  <2>2. Record(next, Fields) /\ next.active = TRUE
    BY <2>1 DEF Record, error_read_taken
  <2> HIDE DEF next
  <2> QED
    BY <1>2, <1>5, <2>2
<1>6. CASE selected_read("MMIO")
  <2>1. next = error_read_next(mmio_r)
    BY <1>1, <1>4, <1>6 DEF mmio_r_next
  <2>2. Record(next, Fields) /\ next.active = (mmio_r.beat # mmio_r.len)
    BY <1>1, <1>6, <2>1 DEF Record, error_read_next, rlast
  <2> HIDE DEF next
  <2> QED
    BY <1>1, <1>2, <1>3, <1>6, <2>2
<1>7. CASE ~selected_read("MMIO") /\ ~(arb.state = "AR" /\ target_now(arb.araddr) = "MMIO")
  <2>1. next = mmio_r
    BY <1>4, <1>7 DEF mmio_r_next
  <2> HIDE DEF next
  <2> QED
    BY <1>1, <1>2, <1>3, <1>7, <2>1
<1> QED
  BY <1>5, <1>6, <1>7
-----------------------------------------------------------------------------
LEMMA WriteDecoderStep ==
  ASSUME RegistersOK, PathsAgree, Routed, Decoder
  PROVE  /\ Record(wdec', {"state", "target", "id"})
         /\ dc.state \notin {"AW", "W"} => wdec'.state = "IDLE"
         /\ dc.state = "AW" =>
              IF target_now(dc.addr) = "ERR" THEN wdec'.state = "ERR_DATA" /\ wdec'.id = "dcache"
              ELSE wdec'.state = "DATA" /\ wdec'.target = target_now(dc.addr)
         /\ dc.state = "W" =>
              /\ wdec'.target = wdec.target /\ wdec'.id = wdec.id
              /\ wdec'.state = IF ~wlast(dc) THEN wdec.state
                               ELSE IF wdec.state = "ERR_DATA" THEN "ERR_RESP" ELSE "RESP"
<1> DEFINE Fields == {"state", "target", "id"}
<1>1. /\ Record(wdec, Fields)
      /\ wdec.state \in {"IDLE", "DATA", "RESP", "ERR_DATA", "ERR_RESP"}
      /\ dc.state \in {"IDLE", "AR", "R", "AW", "W", "B"}
      /\ (wdec.state # "IDLE" <=> dc.state \in {"W", "B"})
      /\ (wdec.state \in {"DATA", "ERR_DATA"} <=> dc.state = "W")
  BY DEF RegistersOK, PathsAgree
<1>2. wdec' = IF wdec_next.state = "IDLE" THEN IdleWriteDecoder ELSE wdec_next
  BY DEF Decoder, settled
<1>3. Record(IdleWriteDecoder, Fields) /\ IdleWriteDecoder.state = "IDLE"
  BY DEF Record, IdleWriteDecoder
<1>4. (aw_fire <=> dc.state = "AW") /\ (w_fire <=> dc.state = "W") /\ (b_fire <=> dc.state = "B")
  BY Handshakes
<1>5. CASE dc.state = "AW"
  <2>1. wdec_next = write_routed(wdec, "dcache", dc.addr)
    BY <1>4, <1>5 DEF wdec_next
  <2>2. /\ Record(wdec_next, Fields)
        /\ IF target_now(dc.addr) = "ERR" THEN wdec_next.state = "ERR_DATA" /\ wdec_next.id = "dcache"
           ELSE wdec_next.state = "DATA" /\ wdec_next.target = target_now(dc.addr)
    BY <1>1, <2>1 DEF Record, write_routed
  <2> QED
    BY <1>2, <1>5, <2>2
<1>6. CASE dc.state = "W"
  <2>1. wdec_next = write_passed(wdec, wlast(dc))
    BY <1>4, <1>6 DEF wdec_next
  <2>2. /\ Record(wdec_next, Fields)
        /\ wdec_next.target = wdec.target /\ wdec_next.id = wdec.id
        /\ wdec_next.state = IF ~wlast(dc) THEN wdec.state
                             ELSE IF wdec.state = "ERR_DATA" THEN "ERR_RESP" ELSE "RESP"
    BY <1>1, <2>1 DEF Record, write_passed
  <2> QED
    BY <1>1, <1>2, <1>6, <2>2
<1>7. CASE dc.state = "B"
  <2>1. wdec_next = write_answered(wdec)
    BY <1>4, <1>7 DEF wdec_next
  <2>2. wdec_next.state = "IDLE"
    BY <1>1, <2>1 DEF Record, write_answered
  <2> QED
    BY <1>2, <1>3, <1>7, <2>2
<1>8. CASE dc.state \notin {"AW", "W", "B"}
  <2>1. wdec_next = wdec
    BY <1>4, <1>8 DEF wdec_next
  <2> QED
    BY <1>1, <1>2, <1>3, <1>8, <2>1
<1> QED
  BY <1>5, <1>6, <1>7, <1>8

LEMMA RamWriteStep ==
  ASSUME RegistersOK, PathsAgree, Routed, NEW slip, Slaves(slip)
  PROVE  /\ Record(ram_w', {"active", "resp_valid", "request_error", "protocol_error", "id",
                            "addr", "len", "beat", "resp"})
         /\ ram_w'.active \in BOOLEAN /\ ram_w'.resp_valid \in BOOLEAN
         /\ dc.state \notin {"AW", "W"} => ~ram_w'.active /\ ~ram_w'.resp_valid
         /\ dc.state = "AW" =>
              /\ ~ram_w'.resp_valid
              /\ ram_w'.active <=> target_now(dc.addr) = "RAM"
              /\ ram_w'.active => /\ ram_w'.request_error = (dc.addr \notin RamLines)
                                  /\ ram_w'.protocol_error = FALSE /\ ram_w'.id = "dcache"
                                  /\ ram_w'.len = LastBeat /\ ram_w'.beat = 0
         /\ dc.state = "W" =>
              IF ~selected_write("DATA", "RAM") THEN ~ram_w'.active /\ ~ram_w'.resp_valid
              ELSE /\ ram_w'.id = ram_w.id
                   /\ IF wlast(dc)
                      THEN /\ ~ram_w'.active /\ ram_w'.resp_valid
                           /\ ram_w'.resp = IF \/ ram_w.request_error \/ ram_w.protocol_error
                                               \/ ram_w.beat # ram_w.len
                                            THEN "SLVERR" ELSE "OKAY"
                      ELSE /\ ram_w'.active /\ ~ram_w'.resp_valid
                           /\ ram_w'.request_error = ram_w.request_error
                           /\ ram_w'.protocol_error = (ram_w.protocol_error \/ ram_w.beat = ram_w.len)
                           /\ ram_w'.len = ram_w.len
                           /\ ram_w'.beat = IF ram_w.beat < COUNT THEN ram_w.beat + 1 ELSE ram_w.beat
<1> DEFINE Fields == {"active", "resp_valid", "request_error", "protocol_error", "id",
                      "addr", "len", "beat", "resp"}
           next == ram_w_next
<1>1. /\ Record(ram_w, Fields) /\ ram_w.active \in BOOLEAN /\ ram_w.resp_valid \in BOOLEAN
      /\ dc.state \in {"IDLE", "AR", "R", "AW", "W", "B"}
      /\ (selected_write("DATA", "RAM") <=> ram_w.active)
      /\ (selected_write("RESP", "RAM") <=> ram_w.resp_valid)
      /\ (wdec.state # "IDLE" <=> dc.state \in {"W", "B"})
      /\ (wdec.state \in {"DATA", "ERR_DATA"} <=> dc.state = "W")
  BY DEF RegistersOK, PathsAgree
<1>2. ram_w' = IF awready(next) THEN IdleWriteChannel ELSE next
  BY DEF Slaves, settled
<1>3. /\ Record(IdleWriteChannel, Fields)
      /\ IdleWriteChannel.active = FALSE /\ IdleWriteChannel.resp_valid = FALSE
  BY DEF Record, IdleWriteChannel
<1>4. /\ selected_write("DATA", "RAM") => dc.state = "W"
      /\ selected_write("RESP", "RAM") => dc.state = "B"
  BY <1>1 DEF selected_write
<1>5. /\ wto("RAM") <=> dc.state = "AW" /\ target_now(dc.addr) = "RAM"
      /\ write_beat_of("RAM") <=> selected_write("DATA", "RAM")
      /\ write_resp_of("RAM") <=> selected_write("RESP", "RAM")
  BY <1>4, Handshakes DEF wto, write_beat_of, write_resp_of
<1>6. CASE dc.state = "AW" /\ target_now(dc.addr) = "RAM"
  <2>1. next = write_taken(ram_w, "dcache", dc.addr, LastBeat)
    BY <1>4, <1>5, <1>6 DEF ram_w_next
  <2>2. /\ Record(next, Fields) /\ next.active = TRUE /\ next.resp_valid = ram_w.resp_valid
        /\ next.request_error = (dc.addr \notin RamLines) /\ next.protocol_error = FALSE
        /\ next.id = "dcache" /\ next.len = LastBeat /\ next.beat = 0
    BY <1>1, <2>1 DEF Record, write_taken, request_valid
  <2> HIDE DEF next
  <2> QED
    BY <1>1, <1>2, <1>4, <1>6, <2>2 DEF awready
<1>7. CASE selected_write("DATA", "RAM")
  <2>1. next = write_next(ram_w, wlast(dc))
    BY <1>4, <1>5, <1>7 DEF ram_w_next
  <2>2. CASE wlast(dc)
    <3>1. /\ Record(next, Fields) /\ next.active = FALSE /\ next.resp_valid = TRUE
          /\ next.id = ram_w.id
          /\ next.resp = IF \/ ram_w.request_error \/ ram_w.protocol_error
                            \/ ram_w.beat # ram_w.len
                         THEN "SLVERR" ELSE "OKAY"
      BY <1>1, <2>1, <2>2 DEF Record, write_next, write_last_mismatch
    <3> HIDE DEF next
    <3> QED
      BY <1>2, <1>4, <1>7, <2>2, <3>1 DEF awready
  <2>3. CASE ~wlast(dc)
    <3>1. /\ Record(next, Fields)
          /\ next.active = ram_w.active /\ next.resp_valid = ram_w.resp_valid
          /\ next.id = ram_w.id /\ next.len = ram_w.len
          /\ next.request_error = ram_w.request_error
          /\ next.protocol_error = (ram_w.protocol_error \/ ram_w.beat = ram_w.len)
          /\ next.beat = IF ram_w.beat < COUNT THEN ram_w.beat + 1 ELSE ram_w.beat
      BY <1>1, <2>1, <2>3 DEF Record, write_next, write_last_mismatch, wlast
    <3>2. ~ram_w.resp_valid /\ ram_w.active
      BY <1>1, <1>7 DEF selected_write
    <3> HIDE DEF next
    <3> QED
      BY <1>1, <1>2, <1>4, <1>7, <2>3, <3>1, <3>2 DEF awready
  <2> QED
    BY <2>2, <2>3
<1>8. CASE selected_write("RESP", "RAM")
  <2>1. next = write_resp_taken(ram_w)
    BY <1>4, <1>5, <1>8 DEF ram_w_next
  <2>2. next.active = ram_w.active /\ next.resp_valid = FALSE
    BY <1>1, <2>1 DEF Record, write_resp_taken
  <2>3. ~ram_w.active
    BY <1>1, <1>8 DEF selected_write
  <2> HIDE DEF next
  <2> QED
    BY <1>2, <1>3, <1>4, <1>8, <2>2, <2>3 DEF awready
<1>9. CASE ~wto("RAM") /\ ~selected_write("DATA", "RAM") /\ ~selected_write("RESP", "RAM")
  <2>1. next = ram_w
    BY <1>5, <1>9 DEF ram_w_next
  <2> HIDE DEF next
  <2> QED
    BY <1>1, <1>2, <1>3, <1>5, <1>9, <2>1 DEF awready
<1> QED
  BY <1>5, <1>6, <1>7, <1>8, <1>9

LEMMA MmioWriteStep ==
  ASSUME RegistersOK, PathsAgree, Routed, NEW slip, Slaves(slip)
  PROVE  /\ Record(mmio_w', {"active", "resp_valid", "id"})
         /\ mmio_w'.active \in BOOLEAN /\ mmio_w'.resp_valid \in BOOLEAN
         /\ dc.state \notin {"AW", "W"} => ~mmio_w'.active /\ ~mmio_w'.resp_valid
         /\ dc.state = "AW" =>
              /\ ~mmio_w'.resp_valid
              /\ mmio_w'.active <=> target_now(dc.addr) = "MMIO"
              /\ mmio_w'.active => mmio_w'.id = "dcache"
         /\ dc.state = "W" =>
              IF ~selected_write("DATA", "MMIO") THEN ~mmio_w'.active /\ ~mmio_w'.resp_valid
              ELSE /\ mmio_w'.id = mmio_w.id
                   /\ mmio_w'.resp_valid = wlast(dc) /\ mmio_w'.active = ~wlast(dc)
<1> DEFINE Fields == {"active", "resp_valid", "id"}
           next == mmio_w_next
<1>1. /\ Record(mmio_w, Fields) /\ mmio_w.active \in BOOLEAN /\ mmio_w.resp_valid \in BOOLEAN
      /\ dc.state \in {"IDLE", "AR", "R", "AW", "W", "B"}
      /\ (selected_write("DATA", "MMIO") <=> mmio_w.active)
      /\ (selected_write("RESP", "MMIO") <=> mmio_w.resp_valid)
      /\ (wdec.state # "IDLE" <=> dc.state \in {"W", "B"})
      /\ (wdec.state \in {"DATA", "ERR_DATA"} <=> dc.state = "W")
  BY DEF RegistersOK, PathsAgree
<1>2. mmio_w' = IF awready(next) THEN ErrorWriteChannel ELSE next
  BY DEF Slaves, settled
<1>3. /\ Record(ErrorWriteChannel, Fields)
      /\ ErrorWriteChannel.active = FALSE /\ ErrorWriteChannel.resp_valid = FALSE
  BY DEF Record, ErrorWriteChannel
<1>4. /\ selected_write("DATA", "MMIO") => dc.state = "W"
      /\ selected_write("RESP", "MMIO") => dc.state = "B"
  BY <1>1 DEF selected_write
<1>5. /\ wto("MMIO") <=> dc.state = "AW" /\ target_now(dc.addr) = "MMIO"
      /\ write_beat_of("MMIO") <=> selected_write("DATA", "MMIO")
      /\ write_resp_of("MMIO") <=> selected_write("RESP", "MMIO")
  BY <1>4, Handshakes DEF wto, write_beat_of, write_resp_of
<1>6. CASE dc.state = "AW" /\ target_now(dc.addr) = "MMIO"
  <2>1. next = error_write_taken("dcache")
    BY <1>4, <1>5, <1>6 DEF mmio_w_next
  <2>2. /\ Record(next, Fields) /\ next.active = TRUE /\ next.resp_valid = FALSE
        /\ next.id = "dcache"
    BY <2>1 DEF Record, error_write_taken
  <2> HIDE DEF next
  <2> QED
    BY <1>2, <1>4, <1>6, <2>2 DEF awready
<1>7. CASE selected_write("DATA", "MMIO")
  <2>1. next = error_write_next(mmio_w, wlast(dc))
    BY <1>4, <1>5, <1>7 DEF mmio_w_next
  <2>2. ~mmio_w.resp_valid /\ mmio_w.active
    BY <1>1, <1>7 DEF selected_write
  <2>3. CASE wlast(dc)
    <3>1. /\ Record(next, Fields) /\ next.id = mmio_w.id
          /\ next.resp_valid = TRUE /\ next.active = FALSE
      BY <1>1, <2>1, <2>3 DEF Record, error_write_next
    <3> HIDE DEF next
    <3> QED
      BY <1>2, <1>4, <1>7, <2>3, <3>1 DEF awready, wlast
  <2>4. CASE ~wlast(dc)
    <3>1. next = mmio_w
      BY <2>1, <2>4 DEF error_write_next
    <3> HIDE DEF next
    <3> QED
      BY <1>1, <1>2, <1>4, <1>7, <2>2, <2>4, <3>1 DEF awready, wlast
  <2> QED
    BY <2>3, <2>4
<1>8. CASE selected_write("RESP", "MMIO")
  <2>1. next = write_resp_taken(mmio_w)
    BY <1>4, <1>5, <1>8 DEF mmio_w_next
  <2>2. next.active = mmio_w.active /\ next.resp_valid = FALSE
    BY <1>1, <2>1 DEF Record, write_resp_taken
  <2>3. ~mmio_w.active
    BY <1>1, <1>8 DEF selected_write
  <2> HIDE DEF next
  <2> QED
    BY <1>2, <1>3, <1>4, <1>8, <2>2, <2>3 DEF awready
<1>9. CASE ~wto("MMIO") /\ ~selected_write("DATA", "MMIO") /\ ~selected_write("RESP", "MMIO")
  <2>1. next = mmio_w
    BY <1>5, <1>9 DEF mmio_w_next
  <2> HIDE DEF next
  <2> QED
    BY <1>1, <1>2, <1>3, <1>5, <1>9, <2>1 DEF awready
<1> QED
  BY <1>5, <1>6, <1>7, <1>8, <1>9
-----------------------------------------------------------------------------
(***************************************************************************)
(* The invariant is inductive.                                             *)
(***************************************************************************)
LEMMA LastBeats ==
  ASSUME RegistersOK, PathsAgree
  PROVE  /\ selected_read("RAM") => rbeat = read_out(ram_r) /\ (rbeat.last <=> ram_r.beat = ram_r.len)
         /\ selected_read("MMIO") =>
              rbeat = error_read_out(mmio_r) /\ (rbeat.last <=> mmio_r.beat = mmio_r.len)
         /\ ~selected_read("RAM") /\ ~selected_read("MMIO") => rbeat = refused_out(rdec)
<1>1. selected_read("RAM") => rbeat = read_out(ram_r) /\ (rbeat.last <=> ram_r.beat = ram_r.len)
  BY DEF PathsAgree, rbeat, read_out, rlast
<1>2. selected_read("MMIO") =>
        rbeat = error_read_out(mmio_r) /\ (rbeat.last <=> mmio_r.beat = mmio_r.len)
  BY DEF PathsAgree, rbeat, error_read_out, rlast, selected_read
<1>3. ~selected_read("RAM") /\ ~selected_read("MMIO") => rbeat = refused_out(rdec)
  BY DEF rbeat
<1> QED
  BY <1>1, <1>2, <1>3

LEMMA RegistersStep ==
  ASSUME RegistersOK, PathsAgree, Routed,
         NEW ireq \in InstrRequests, NEW dreq \in DataRequests, NEW slip, Clock(ireq, dreq, slip)
  PROVE  RegistersOK'
<1>1. /\ Adapters(ireq, dreq) /\ Arbiter /\ Decoder /\ Slaves(slip)
      /\ arb.state \in {"SELECT", "AR", "R"} /\ rdec.state \in {"IDLE", "RESP", "ERR"}
      /\ wdec.state \in {"IDLE", "DATA", "RESP", "ERR_DATA", "ERR_RESP"}
  BY DEF Clock, RegistersOK
<1>2. Record(ic', AdapterFields) /\ ic'.state \in {"IDLE", "AR", "R"}
  BY <1>1, IcacheStep
<1>3. /\ Record(dc', AdapterFields \cup {"write_buf"})
      /\ dc'.state \in {"IDLE", "AR", "R", "AW", "W", "B"}
  BY <1>1, DcacheStep
<1>4. /\ Record(arb', {"state", "owner", "next_priority", "arid", "araddr"})
      /\ arb'.state \in {"SELECT", "AR", "R"} /\ arb'.owner \in Id
  BY <1>1, ArbiterStep
<1>5. Record(rdec', {"state", "target", "id", "len", "beat"}) /\ rdec'.state \in {"IDLE", "RESP", "ERR"}
  BY <1>1, ReadDecoderStep
<1>6. /\ Record(wdec', {"state", "target", "id"})
      /\ wdec'.state \in {"IDLE", "DATA", "RESP", "ERR_DATA", "ERR_RESP"}
  BY <1>1, WriteDecoderStep
<1>7. /\ Record(ram_r', {"active", "error", "id", "addr", "len", "beat", "data"})
      /\ ram_r'.active \in BOOLEAN
  BY <1>1, RamReadStep
<1>8. Record(mmio_r', {"active", "id", "len", "beat"}) /\ mmio_r'.active \in BOOLEAN
  BY <1>1, MmioReadStep
<1>9. /\ Record(ram_w', {"active", "resp_valid", "request_error", "protocol_error", "id",
                         "addr", "len", "beat", "resp"})
      /\ ram_w'.active \in BOOLEAN /\ ram_w'.resp_valid \in BOOLEAN
  BY <1>1, RamWriteStep
<1>10. /\ Record(mmio_w', {"active", "resp_valid", "id"})
       /\ mmio_w'.active \in BOOLEAN /\ mmio_w'.resp_valid \in BOOLEAN
  BY <1>1, MmioWriteStep
<1> QED
  BY <1>2, <1>3, <1>4, <1>5, <1>6, <1>7, <1>8, <1>9, <1>10 DEF RegistersOK, Record

LEMMA RoutedStep ==
  ASSUME RegistersOK, PathsAgree, Routed,
         NEW ireq \in InstrRequests, NEW dreq \in DataRequests, NEW slip, Clock(ireq, dreq, slip)
  PROVE  Routed'
<1>1. /\ Adapters(ireq, dreq) /\ Arbiter /\ Decoder
      /\ arb.state \in {"SELECT", "AR", "R"} /\ dc.state \in {"IDLE", "AR", "R", "AW", "W", "B"}
  BY DEF Clock, RegistersOK
<1>2. \A line : target_now(line) \in {"RAM", "MMIO", "ERR"}
  BY DEF target_now
<1>3. (arb.state # "SELECT" => arb.arid = arb.owner)'
  BY <1>1, ArbiterStep DEF Routed
<1>4. /\ (rdec.state = "RESP" => rdec.target = target_now(arb.araddr) /\ rdec.target \in {"RAM", "MMIO"})'
      /\ (rdec.state = "ERR" => target_now(arb.araddr) = "ERR")'
  <2>1. CASE arb.state = "SELECT"
    BY <1>1, <2>1, ReadDecoderStep
  <2>2. CASE arb.state = "AR"
    <3>1. arb'.araddr = arb.araddr
      BY <1>1, <2>2, ArbiterStep
    <3>2. target_now(arb.araddr)' = target_now(arb.araddr)
      BY <3>1 DEF target_now
    <3> QED
      BY <1>1, <1>2, <2>2, <3>2, ReadDecoderStep
  <2>3. CASE arb.state = "R"
    <3>1. ~rbeat.last => arb'.araddr = arb.araddr
      BY <1>1, <2>3, ArbiterStep
    <3>2. ~rbeat.last => target_now(arb.araddr)' = target_now(arb.araddr)
      BY <3>1 DEF target_now
    <3>3. IF rbeat.last THEN rdec'.state = "IDLE"
          ELSE rdec'.state = rdec.state /\ rdec'.target = rdec.target
      BY <1>1, <2>3, ReadDecoderStep
    <3> QED
      BY <3>2, <3>3 DEF Routed
  <2> QED
    BY <1>1, <2>1, <2>2, <2>3
<1>5. /\ (wdec.state \in {"DATA", "RESP"} =>
            wdec.target = target_now(dc.addr) /\ wdec.target \in {"RAM", "MMIO"})'
      /\ (wdec.state \in {"ERR_DATA", "ERR_RESP"} => target_now(dc.addr) = "ERR" /\ wdec.id = "dcache")'
  <2>1. CASE dc.state \notin {"AW", "W"}
    BY <1>1, <2>1, WriteDecoderStep
  <2>2. dc.state \in {"AW", "W"} => dc'.addr = dc.addr
    BY <1>1, DcacheStep DEF AdapterWrites
  <2>3. dc.state \in {"AW", "W"} => target_now(dc.addr)' = target_now(dc.addr)
    BY <2>2 DEF target_now
  <2>4. CASE dc.state = "AW"
    BY <1>1, <1>2, <2>3, <2>4, WriteDecoderStep
  <2>5. CASE dc.state = "W"
    <3>1. /\ wdec'.target = wdec.target /\ wdec'.id = wdec.id
          /\ wdec'.state = IF ~wlast(dc) THEN wdec.state
                           ELSE IF wdec.state = "ERR_DATA" THEN "ERR_RESP" ELSE "RESP"
      BY <1>1, <2>5, WriteDecoderStep
    <3>2. wdec.state \in {"DATA", "ERR_DATA"}
      BY <2>5 DEF PathsAgree
    <3> QED
      BY <2>3, <2>5, <3>1, <3>2 DEF Routed
  <2> QED
    BY <1>1, <2>1, <2>4, <2>5
<1> QED
  BY <1>3, <1>4, <1>5 DEF Routed

LEMMA ReadPathStep ==
  ASSUME RegistersOK, PathsAgree, Routed,
         NEW ireq \in InstrRequests, NEW dreq \in DataRequests, NEW slip, Clock(ireq, dreq, slip)
  PROVE  /\ (arb.state = "R" <=> rdec.state # "IDLE")'
         /\ (arb.state = "R" => owner_adapter.state = "R" /\ owner_adapter.addr = arb.araddr)'
         /\ (arb.state = "AR" => owner_adapter.state = "AR" /\ owner_adapter.addr = arb.araddr)'
         /\ (ic.state = "R" => arb.state = "R" /\ arb.owner = "icache")'
         /\ (dc.state = "R" => arb.state = "R" /\ arb.owner = "dcache")'
         /\ (selected_read("RAM") <=> ram_r.active)'
         /\ (selected_read("MMIO") <=> mmio_r.active)'
<1>1. /\ Adapters(ireq, dreq) /\ Arbiter /\ Decoder /\ Slaves(slip)
      /\ arb.state \in {"SELECT", "AR", "R"} /\ arb.owner \in {"icache", "dcache"}
      /\ ic.state \in {"IDLE", "AR", "R"} /\ dc.state \in {"IDLE", "AR", "R", "AW", "W", "B"}
  BY DEF Clock, RegistersOK, Id
<1>2. /\ ic.state = "IDLE" => ic'.state \in {"IDLE", "AR"}
      /\ AdapterReads(ic, ic', "icache")
  BY <1>1, IcacheStep
<1>3. /\ dc.state = "IDLE" => dc'.state \in {"IDLE", "AR", "AW"}
      /\ AdapterReads(dc, dc', "dcache") /\ AdapterWrites(dc, dc')
  BY <1>1, DcacheStep
<1>4. dc.state \in {"AW", "W", "B"} => dc'.state \notin {"AR", "R"}
  BY <1>3 DEF AdapterWrites
<1>5. arb'.owner \in {"icache", "dcache"}
  BY <1>1, ArbiterStep DEF Id
<1>6. /\ arb.state = "R" <=> rdec.state # "IDLE"
      /\ ic.state = "R" => arb.state = "R" /\ arb.owner = "icache"
      /\ dc.state = "R" => arb.state = "R" /\ arb.owner = "dcache"
      /\ arb.owner = "icache" => /\ arb.state = "R" => ic.state = "R" /\ ic.addr = arb.araddr
                                 /\ arb.state = "AR" => ic.state = "AR" /\ ic.addr = arb.araddr
      /\ arb.owner = "dcache" => /\ arb.state = "R" => dc.state = "R" /\ dc.addr = arb.araddr
                                 /\ arb.state = "AR" => dc.state = "AR" /\ dc.addr = arb.araddr
  BY DEF PathsAgree, owner_adapter
<1>7. CASE arb.state = "SELECT"
  <2>1. IF ic.state = "AR" \/ dc.state = "AR"
        THEN /\ arb'.state = "AR"
             /\ arb'.owner = "icache" => ic.state = "AR" /\ arb'.araddr = ic.addr
             /\ arb'.owner = "dcache" => dc.state = "AR" /\ arb'.araddr = dc.addr
        ELSE arb'.state = "SELECT"
    BY <1>1, <1>7, ArbiterStep
  <2>2. /\ ic.state = "AR" => ic' = ic
        /\ dc.state = "AR" => dc' = dc
        /\ ic'.state # "R" /\ dc'.state # "R"
    BY <1>1, <1>2, <1>3, <1>4, <1>6, <1>7 DEF AdapterReads
  <2>3. rdec'.state = "IDLE" /\ ~ram_r'.active /\ ~mmio_r'.active
    BY <1>1, <1>7, ReadDecoderStep, RamReadStep, MmioReadStep
  <2> QED
    BY <1>5, <2>1, <2>2, <2>3 DEF owner_adapter, selected_read
<1>8. CASE arb.state = "AR"
  <2>1. /\ arb'.state = "R" /\ arb'.owner = arb.owner /\ arb'.araddr = arb.araddr
    BY <1>1, <1>8, ArbiterStep
  <2>2. /\ arb.owner = "icache" => /\ ic'.state = "R" /\ ic'.addr = arb.araddr
                                   /\ dc'.state # "R"
        /\ arb.owner = "dcache" => /\ dc'.state = "R" /\ dc'.addr = arb.araddr
                                   /\ ic'.state # "R"
    BY <1>1, <1>2, <1>3, <1>4, <1>6, <1>8 DEF AdapterReads
  <2>3. /\ rdec'.state # "IDLE"
        /\ rdec'.state = "RESP" => rdec'.target = target_now(arb.araddr)
        /\ target_now(arb.araddr) = "ERR" <=> rdec'.state # "RESP"
    BY <1>1, <1>8, ReadDecoderStep
  <2>4. /\ ram_r'.active <=> target_now(arb.araddr) = "RAM"
        /\ mmio_r'.active <=> target_now(arb.araddr) = "MMIO"
    BY <1>1, <1>8, RamReadStep, MmioReadStep
  <2> QED
    BY <1>1, <2>1, <2>2, <2>3, <2>4 DEF owner_adapter, selected_read
<1>9. CASE arb.state = "R" /\ rbeat.last
  <2>1. arb'.state = "SELECT" /\ rdec'.state = "IDLE"
    BY <1>1, <1>9, ArbiterStep, ReadDecoderStep
  <2>2. ic'.state # "R" /\ dc'.state # "R"
    BY <1>1, <1>2, <1>3, <1>4, <1>6, <1>9 DEF AdapterReads
  <2>3. ~ram_r'.active /\ ~mmio_r'.active
    BY <1>1, <1>9, LastBeats, RamReadStep, MmioReadStep
  <2> QED
    BY <2>1, <2>2, <2>3 DEF selected_read
<1>10. CASE arb.state = "R" /\ ~rbeat.last
  <2>1. /\ arb'.state = "R" /\ arb'.owner = arb.owner /\ arb'.araddr = arb.araddr
        /\ rdec'.state = rdec.state /\ rdec'.target = rdec.target
    BY <1>1, <1>10, ArbiterStep, ReadDecoderStep
  <2>2. /\ arb.owner = "icache" => /\ ic'.state = "R" /\ ic'.addr = arb.araddr
                                   /\ dc'.state # "R"
        /\ arb.owner = "dcache" => /\ dc'.state = "R" /\ dc'.addr = arb.araddr
                                   /\ ic'.state # "R"
    BY <1>1, <1>2, <1>3, <1>4, <1>6, <1>10 DEF AdapterReads
  <2>3. /\ ram_r'.active <=> selected_read("RAM")
        /\ mmio_r'.active <=> selected_read("MMIO")
    BY <1>1, <1>10, LastBeats, RamReadStep, MmioReadStep
  <2> QED
    BY <1>1, <1>6, <1>10, <2>1, <2>2, <2>3 DEF owner_adapter, selected_read
<1> QED
  BY <1>1, <1>7, <1>8, <1>9, <1>10

LEMMA WritePathStep ==
  ASSUME RegistersOK, PathsAgree, Routed,
         NEW ireq \in InstrRequests, NEW dreq \in DataRequests, NEW slip, Clock(ireq, dreq, slip)
  PROVE  /\ (wdec.state # "IDLE" <=> dc.state \in {"W", "B"})'
         /\ (wdec.state \in {"DATA", "ERR_DATA"} <=> dc.state = "W")'
         /\ (selected_write("DATA", "RAM") <=> ram_w.active)'
         /\ (selected_write("RESP", "RAM") <=> ram_w.resp_valid)'
         /\ (selected_write("DATA", "MMIO") <=> mmio_w.active)'
         /\ (selected_write("RESP", "MMIO") <=> mmio_w.resp_valid)'
<1>1. /\ Adapters(ireq, dreq) /\ Decoder /\ Slaves(slip)
      /\ dc.state \in {"IDLE", "AR", "R", "AW", "W", "B"}
  BY DEF Clock, RegistersOK
<1>2. /\ dc.state = "IDLE" => dc'.state \in {"IDLE", "AR", "AW"}
      /\ AdapterReads(dc, dc', "dcache") /\ AdapterWrites(dc, dc')
  BY <1>1, DcacheStep
<1>3. CASE dc.state \notin {"AW", "W"}
  <2>1. dc'.state \notin {"W", "B"}
    BY <1>1, <1>2, <1>3 DEF AdapterReads, AdapterWrites
  <2>2. /\ wdec'.state = "IDLE"
        /\ ~ram_w'.active /\ ~ram_w'.resp_valid /\ ~mmio_w'.active /\ ~mmio_w'.resp_valid
    BY <1>1, <1>3, WriteDecoderStep, RamWriteStep, MmioWriteStep
  <2> QED
    BY <2>1, <2>2 DEF selected_write
<1>4. CASE dc.state = "AW"
  <2>1. dc'.state = "W"
    BY <1>2, <1>4 DEF AdapterWrites
  <2>2. IF target_now(dc.addr) = "ERR" THEN wdec'.state = "ERR_DATA"
        ELSE wdec'.state = "DATA" /\ wdec'.target = target_now(dc.addr)
    BY <1>1, <1>4, WriteDecoderStep
  <2>3. /\ ~ram_w'.resp_valid /\ ~mmio_w'.resp_valid
        /\ ram_w'.active <=> target_now(dc.addr) = "RAM"
        /\ mmio_w'.active <=> target_now(dc.addr) = "MMIO"
    BY <1>1, <1>4, RamWriteStep, MmioWriteStep
  <2> QED
    BY <2>1, <2>2, <2>3 DEF selected_write
<1>5. CASE dc.state = "W"
  <2>1. dc'.state = IF wlast(dc) THEN "B" ELSE "W"
    BY <1>2, <1>5 DEF AdapterWrites
  <2>2. wdec.state \in {"DATA", "ERR_DATA"}
    BY <1>5 DEF PathsAgree
  <2>3. /\ wdec'.target = wdec.target
        /\ wdec'.state = IF ~wlast(dc) THEN wdec.state
                         ELSE IF wdec.state = "ERR_DATA" THEN "ERR_RESP" ELSE "RESP"
    BY <1>1, <1>5, WriteDecoderStep
  <2>4. /\ ram_w'.active <=> selected_write("DATA", "RAM") /\ ~wlast(dc)
        /\ ram_w'.resp_valid <=> selected_write("DATA", "RAM") /\ wlast(dc)
    BY <1>1, <1>5, RamWriteStep
  <2>5. /\ mmio_w'.active <=> selected_write("DATA", "MMIO") /\ ~wlast(dc)
        /\ mmio_w'.resp_valid <=> selected_write("DATA", "MMIO") /\ wlast(dc)
    BY <1>1, <1>5, MmioWriteStep DEF wlast
  <2> QED
    BY <2>1, <2>2, <2>3, <2>4, <2>5 DEF selected_write
<1> QED
  BY <1>3, <1>4, <1>5

LEMMA PathsStep ==
  ASSUME RegistersOK, PathsAgree, Routed,
         NEW ireq \in InstrRequests, NEW dreq \in DataRequests, NEW slip, Clock(ireq, dreq, slip)
  PROVE  PathsAgree'
BY ReadPathStep, WritePathStep DEF PathsAgree

LEMMA MergeOkay ==
  ASSUME NEW a, NEW x
  PROVE  merge_resp(a, x) = "OKAY" <=> a = "OKAY" /\ x = "OKAY"
BY DEF merge_resp

LEMMA NextBeat ==
  ASSUME NEW beat \in Nat, beat < LastBeat
  PROVE  (beat + 1) % COUNT = beat + 1 /\ beat + 1 \in Beat
<1>1. LINE_BEATS \in Nat /\ COUNT \in Nat /\ LINE_BEATS <= COUNT
  BY BeatsAssumption
<1>2. beat + 1 \in Nat /\ beat + 1 < COUNT /\ beat + 1 <= LINE_BEATS - 1
  BY <1>1 DEF LastBeat
<1>3. \A n, m \in Nat : n < m => n % m = n
  OBVIOUS
<1> QED
  BY <1>1, <1>2, <1>3 DEF Beat

\* The answer of the RAM's burst is an error exactly when it deserves to be.
LEMMA BeatOkay ==
  ASSUME RegistersOK, PathsAgree, ReadCounted, selected_read("RAM")
  PROVE  /\ merged_rresp(owner_adapter, arb.owner, rbeat) = "OKAY" =>
              owner_adapter.resp = "OKAY" /\ ram_r.id = arb.owner /\ arb.araddr \in RamLines
         /\ ~slipped /\ arb.araddr \in RamLines =>
              merged_rresp(owner_adapter, arb.owner, rbeat) = "OKAY"
<1>1. rbeat = read_out(ram_r)
  BY LastBeats
<1>2. rbeat.id = ram_r.id /\ rbeat.resp = IF ram_r.error THEN "SLVERR" ELSE "OKAY"
  BY <1>1 DEF read_out
<1>3. /\ ram_r.error <=> arb.araddr \notin RamLines
      /\ slipped <=> (ram_r.len # LastBeat \/ ram_r.id # arb.owner)
      /\ ~slipped /\ ~ram_r.error => owner_adapter.resp = "OKAY"
  BY DEF ReadCounted
<1>4. rid_checked_resp(arb.owner, rbeat) = "OKAY" <=> ram_r.id = arb.owner /\ ~ram_r.error
  BY <1>2 DEF rid_checked_resp
<1> QED
  BY <1>3, <1>4, MergeOkay DEF merged_rresp

LEMMA ReadCountedStep ==
  ASSUME RegistersOK, PathsAgree, Routed, ReadCounted,
         NEW ireq \in InstrRequests, NEW dreq \in DataRequests, NEW slip \in Slips,
         Clock(ireq, dreq, slip)
  PROVE  ReadCounted'
<1>1. /\ Adapters(ireq, dreq) /\ Arbiter /\ Decoder /\ Slaves(slip) /\ History(ireq, dreq, slip)
      /\ arb.state \in {"SELECT", "AR", "R"} /\ arb.owner \in {"icache", "dcache"}
  BY DEF Clock, RegistersOK, Id
<1>2. LastBeat \in Nat
  BY BeatsAssumption DEF LastBeat
<1>3. /\ arb.owner = "icache" => owner_adapter = ic
      /\ arb.owner = "dcache" => owner_adapter = dc
      /\ arb'.owner = "icache" => owner_adapter' = ic'
      /\ arb'.owner = "dcache" => owner_adapter' = dc'
  BY DEF owner_adapter
<1>4. /\ AdapterReads(ic, ic', "icache")
      /\ AdapterReads(dc, dc', "dcache")
  BY <1>1, IcacheStep, DcacheStep
<1>5. CASE arb.state = "SELECT" \/ (arb.state = "R" /\ rbeat.last)
  <2>1. rdec'.state = "IDLE"
    BY <1>1, <1>5, ReadDecoderStep
  <2> QED
    BY <2>1 DEF ReadCounted, selected_read
<1>6. CASE arb.state = "AR"
  <2> SUFFICES ASSUME selected_read("RAM")'
               PROVE  ReadCounted'
    BY DEF ReadCounted
  <2>1. target_now(arb.araddr) = "RAM"
    BY <1>1, <1>6, ReadDecoderStep DEF selected_read
  <2>2. /\ ram_r'.error = (arb.araddr \notin RamLines)
        /\ ram_r'.id = IF slip.foreign THEN other(arb.arid) ELSE arb.arid
        /\ ram_r'.len = slip.len /\ ram_r'.beat = 0
    BY <1>1, <1>6, <2>1, RamReadStep
  <2>3. /\ arb'.owner = arb.owner /\ arb'.araddr = arb.araddr /\ arb.arid = arb.owner
    BY <1>1, <1>6, ArbiterStep DEF Routed
  <2>4. owner_adapter'.resp = "OKAY" /\ owner_adapter'.beat = 0
    <3>1. /\ arb.owner = "icache" => ic.state = "AR"
          /\ arb.owner = "dcache" => dc.state = "AR"
      BY <1>6 DEF PathsAgree, owner_adapter
    <3> QED
      BY <1>1, <1>3, <1>4, <1>6, <2>3, <3>1 DEF AdapterReads
  <2>5. slipped' = (slip # Faithful)
    <3>1. to("RAM") /\ ~r_fire_any
      BY <1>6, <2>1, Handshakes DEF to
    <3> QED
      BY <1>1, <3>1 DEF History
  <2>6. slip \in [len : Nat, foreign : BOOLEAN]
    BY MemorySystemAssumption
  <2>7. slip = Faithful <=> slip.len = LastBeat /\ ~slip.foreign
    BY <2>6 DEF Faithful
  <2>8. other(arb.owner) # arb.owner
    BY <1>1 DEF other
  <2>9. slipped' <=> ram_r'.len # LastBeat \/ ram_r'.id # arb'.owner
    BY <2>2, <2>3, <2>5, <2>6, <2>7, <2>8
  <2>10. /\ ram_r'.beat \in Nat /\ ram_r'.len \in Nat
         /\ ram_r'.beat <= LastBeat /\ ram_r'.beat <= ram_r'.len
    BY <1>2, <2>2, <2>6
  <2>11. ram_r'.error <=> arb'.araddr \notin RamLines
    BY <2>2, <2>3
  <2>12. owner_adapter'.resp = "OKAY" /\ owner_adapter'.beat = ram_r'.beat
    BY <2>2, <2>4
  <2> QED
    BY <2>9, <2>10, <2>11, <2>12 DEF ReadCounted
<1>7. CASE arb.state = "R" /\ ~rbeat.last
  <2>1. /\ arb'.owner = arb.owner /\ arb'.araddr = arb.araddr
        /\ rdec'.state = rdec.state /\ rdec'.target = rdec.target
    BY <1>1, <1>7, ArbiterStep, ReadDecoderStep
  <2> SUFFICES ASSUME selected_read("RAM")
               PROVE  ReadCounted'
    BY <2>1 DEF ReadCounted, selected_read
  <2>2. ram_r.beat # ram_r.len
    BY <1>7, LastBeats
  <2>3. /\ ram_r'.error = ram_r.error /\ ram_r'.id = ram_r.id
        /\ ram_r'.len = ram_r.len /\ ram_r'.beat = ram_r.beat + 1
    BY <1>1, <1>7, <2>2, RamReadStep
  <2>4. slipped' = slipped
    <3>1. ~to("RAM") /\ ~(r_fire_any /\ rbeat.last)
      BY <1>7, Handshakes DEF to
    <3> QED
      BY <1>1, <3>1 DEF History
  <2>5. /\ owner_adapter'.beat = (owner_adapter.beat + 1) % COUNT
        /\ owner_adapter'.resp = IF expected_last(owner_adapter) THEN "SLVERR"
                                 ELSE merged_rresp(owner_adapter, arb.owner, rbeat)
    <3>1. /\ arb.owner = "icache" => ic.state = "R"
          /\ arb.owner = "dcache" => dc.state = "R"
      BY <1>7 DEF PathsAgree, owner_adapter
    <3> QED
      BY <1>1, <1>3, <1>4, <1>7, <2>1, <3>1 DEF AdapterReads
  <2>6. /\ ram_r.beat \in Nat /\ ram_r.len \in Nat
        /\ ram_r.error <=> arb.araddr \notin RamLines
        /\ slipped <=> (ram_r.len # LastBeat \/ ram_r.id # arb.owner)
        /\ owner_adapter.resp = "OKAY" => owner_adapter.beat = ram_r.beat /\ ram_r.beat <= LastBeat
        /\ ~slipped /\ ~ram_r.error => owner_adapter.resp = "OKAY" /\ ram_r.beat <= ram_r.len
    BY DEF ReadCounted
  <2>7. expected_last(owner_adapter) <=> owner_adapter.beat = LastBeat
    BY DEF expected_last, LastBeat
  <2>8. owner_adapter'.resp = "OKAY" =>
          owner_adapter'.beat = ram_r'.beat /\ ram_r'.beat <= LastBeat
    <3> SUFFICES ASSUME owner_adapter'.resp = "OKAY"
                 PROVE  owner_adapter'.beat = ram_r'.beat /\ ram_r'.beat <= LastBeat
      OBVIOUS
    <3>1. owner_adapter.resp = "OKAY" /\ owner_adapter.beat # LastBeat
      BY <2>5, <2>7, BeatOkay
    <3>2. owner_adapter.beat = ram_r.beat /\ ram_r.beat < LastBeat
      BY <1>2, <2>6, <3>1
    <3> QED
      BY <1>2, <2>3, <2>5, <2>6, <3>2, NextBeat
  <2>9. ~slipped /\ ~ram_r.error => owner_adapter'.resp = "OKAY" /\ ram_r'.beat <= ram_r'.len
    <3> SUFFICES ASSUME ~slipped, ~ram_r.error
                 PROVE  owner_adapter'.resp = "OKAY" /\ ram_r'.beat <= ram_r'.len
      OBVIOUS
    <3>1. ram_r.beat < ram_r.len /\ ram_r.len = LastBeat /\ owner_adapter.beat = ram_r.beat
      BY <2>2, <2>6
    <3> QED
      BY <2>3, <2>5, <2>6, <2>7, <3>1, BeatOkay
  <2> QED
    BY <2>1, <2>3, <2>4, <2>6, <2>8, <2>9 DEF ReadCounted
<1> QED
  BY <1>1, <1>5, <1>6, <1>7

LEMMA WriteCountedStep ==
  ASSUME RegistersOK, PathsAgree, Routed, WriteCounted,
         NEW ireq \in InstrRequests, NEW dreq \in DataRequests, NEW slip, Clock(ireq, dreq, slip)
  PROVE  WriteCounted'
<1>1. /\ Adapters(ireq, dreq) /\ Decoder /\ Slaves(slip)
  BY DEF Clock
<1>2. AdapterWrites(dc, dc')
  BY <1>1, DcacheStep
<1>3. LastBeat \in Nat /\ Beat = 0 .. LastBeat /\ COUNT \in Nat /\ LastBeat < COUNT
  BY BeatsAssumption DEF LastBeat, Beat
<1>4. CASE dc.state \notin {"AW", "W"}
  <2>1. ~ram_w'.active /\ ~ram_w'.resp_valid /\ ~mmio_w'.active /\ ~mmio_w'.resp_valid
    BY <1>1, <1>4, RamWriteStep, MmioWriteStep
  <2> QED
    BY <2>1 DEF WriteCounted
<1>5. CASE dc.state = "AW"
  <2>1. dc'.addr = dc.addr /\ dc'.beat = 0
    BY <1>2, <1>5 DEF AdapterWrites
  <2>2. /\ ~ram_w'.resp_valid
        /\ ram_w'.active => /\ ram_w'.request_error = (dc.addr \notin RamLines)
                            /\ ram_w'.protocol_error = FALSE /\ ram_w'.id = "dcache"
                            /\ ram_w'.len = LastBeat /\ ram_w'.beat = 0
    BY <1>1, <1>5, RamWriteStep
  <2>3. /\ ~mmio_w'.resp_valid
        /\ mmio_w'.active => mmio_w'.id = "dcache"
    BY <1>1, <1>5, MmioWriteStep
  <2>4. dc'.beat \in Beat
    BY <1>3, <2>1
  <2> QED
    BY <2>1, <2>2, <2>3, <2>4 DEF WriteCounted
<1>6. CASE dc.state = "W"
  <2>1. /\ dc'.addr = dc.addr
        /\ ~wlast(dc) => dc'.beat = (dc.beat + 1) % COUNT
    BY <1>2, <1>6 DEF AdapterWrites
  <2>2. mmio_w'.active \/ mmio_w'.resp_valid => mmio_w'.id = "dcache"
    <3>1. IF ~selected_write("DATA", "MMIO") THEN ~mmio_w'.active /\ ~mmio_w'.resp_valid
          ELSE mmio_w'.id = mmio_w.id
      BY <1>1, <1>6, MmioWriteStep
    <3> QED
      BY <3>1 DEF WriteCounted, PathsAgree
  <2>3. CASE ~selected_write("DATA", "RAM")
    <3>1. ~ram_w'.active /\ ~ram_w'.resp_valid
      BY <1>1, <1>6, <2>3, RamWriteStep
    <3> QED
      BY <2>2, <3>1 DEF WriteCounted
  <2>4. CASE selected_write("DATA", "RAM")
    <3>1. /\ ~ram_w.protocol_error
          /\ ram_w.request_error <=> dc.addr \notin RamLines
          /\ ram_w.id = "dcache" /\ ram_w.len = LastBeat
          /\ ram_w.beat = dc.beat /\ dc.beat \in Beat
      BY <2>4 DEF WriteCounted, PathsAgree
    <3>2. wlast(dc) <=> dc.beat = LastBeat
      BY DEF wlast, LastBeat
    <3>3. CASE wlast(dc)
      <4>1. /\ ~ram_w'.active /\ ram_w'.id = ram_w.id
            /\ ram_w'.resp = IF \/ ram_w.request_error \/ ram_w.protocol_error
                                \/ ram_w.beat # ram_w.len
                             THEN "SLVERR" ELSE "OKAY"
        BY <1>1, <1>6, <2>4, <3>3, RamWriteStep
      <4>2. ram_w'.resp # "OKAY" <=> dc.addr \notin RamLines
        BY <3>1, <3>2, <3>3, <4>1
      <4> QED
        BY <2>1, <2>2, <3>1, <4>1, <4>2 DEF WriteCounted
    <3>4. CASE ~wlast(dc)
      <4>1. /\ ~ram_w'.resp_valid /\ ram_w'.id = ram_w.id
            /\ ram_w'.request_error = ram_w.request_error
            /\ ram_w'.protocol_error = (ram_w.protocol_error \/ ram_w.beat = ram_w.len)
            /\ ram_w'.len = ram_w.len
            /\ ram_w'.beat = IF ram_w.beat < COUNT THEN ram_w.beat + 1 ELSE ram_w.beat
        BY <1>1, <1>6, <2>4, <3>4, RamWriteStep
      <4>2. dc.beat \in Nat /\ dc.beat < LastBeat /\ dc.beat < COUNT
        BY <1>3, <3>1, <3>2, <3>4
      <4>3. dc'.beat = dc.beat + 1 /\ dc'.beat \in Beat
        BY <2>1, <3>4, <4>2, NextBeat
      <4>4. ram_w'.beat = dc'.beat /\ ~ram_w'.protocol_error
        BY <3>1, <3>2, <3>4, <4>1, <4>2, <4>3
      <4> QED
        BY <2>1, <2>2, <3>1, <4>1, <4>3, <4>4 DEF WriteCounted
    <3> QED
      BY <3>3, <3>4
  <2> QED
    BY <2>3, <2>4
<1> QED
  BY <1>4, <1>5, <1>6

LEMMA InitInvariant ==
  ASSUME SystemInit
  PROVE  IInv
<1> USE DEF SystemInit
<1>1. RegistersOK
  BY IdleRecords DEF RegistersOK, Record, IdleRead, IdleAdapter, IdleArbiter, Id, IdleReadDecoder,
     IdleWriteDecoder, IdleReadChannel, IdleWriteChannel, ErrorReadChannel, ErrorWriteChannel
<1>2. PathsAgree
  BY DEF PathsAgree, owner_adapter, selected_read, selected_write, IdleRead, IdleAdapter,
     IdleArbiter, IdleReadDecoder, IdleWriteDecoder, IdleReadChannel, IdleWriteChannel,
     ErrorReadChannel, ErrorWriteChannel
<1>3. Routed
  BY DEF Routed, IdleArbiter, IdleReadDecoder, IdleWriteDecoder
<1>4. ReadCounted
  BY DEF ReadCounted, selected_read, IdleReadDecoder
<1>5. WriteCounted
  BY DEF WriteCounted, IdleWriteChannel, ErrorWriteChannel
<1> QED
  BY <1>1, <1>2, <1>3, <1>4, <1>5 DEF IInv

LEMMA StepInvariant ==
  ASSUME IInv, SystemNext
  PROVE  IInv'
<1>1. RegistersOK /\ PathsAgree /\ Routed /\ ReadCounted /\ WriteCounted
  BY DEF IInv
<1>2. PICK ireq \in InstrRequests, dreq \in DataRequests, slip \in Slips : Clock(ireq, dreq, slip)
  BY MemorySystemAssumption DEF SystemNext, Faithful, LastBeat
<1> QED
  BY <1>1, <1>2, RegistersStep, PathsStep, RoutedStep, ReadCountedStep, WriteCountedStep DEF IInv

LEMMA StutterInvariant ==
  ASSUME IInv, UNCHANGED systemVars
  PROVE  IInv'
BY DEF IInv, RegistersOK, Record, PathsAgree, Routed, ReadCounted, WriteCounted, systemVars, axiVars,
   owner_adapter, selected_read, selected_write, target_now

LEMMA Invariant == SystemSpec => []IInv
<1>1. IInv /\ [SystemNext]_systemVars => IInv'
  BY StepInvariant, StutterInvariant
<1> QED
  BY InitInvariant, <1>1, PTL DEF SystemSpec

(***************************************************************************)
(* The units of the memory side always agree on whose burst is under way,  *)
(* where it goes and how far it is (PathsAgree, cache_axi_memory_system.v),*)
(* for every number of beats, every map and every slip of the RAM.         *)
(***************************************************************************)
THEOREM PathsAlwaysAgree == SystemSpec => []PathsAgree
BY Invariant, PTL DEF IInv
-----------------------------------------------------------------------------
(***************************************************************************)
(* Errors.                                                                 *)
(***************************************************************************)
LEMMA LineAnswer ==
  ASSUME IInv, arb.state = "R", rbeat.last
  PROVE  line_resp(owner_adapter, arb.owner, rbeat).resp # "OKAY" <=>
           arb.araddr \notin RamLines \/ slipped
<1> DEFINE answer == line_resp(owner_adapter, arb.owner, rbeat).resp
<1>1. RegistersOK /\ PathsAgree /\ Routed /\ ReadCounted
  BY DEF IInv
<1>2. answer = IF expected_last(owner_adapter) THEN merged_rresp(owner_adapter, arb.owner, rbeat)
               ELSE "SLVERR"
  BY DEF line_resp
<1>3. expected_last(owner_adapter) <=> owner_adapter.beat = LastBeat
  BY DEF expected_last, LastBeat
<1> HIDE DEF answer
<1>4. CASE selected_read("RAM")
  <2>1. ram_r.beat = ram_r.len
    BY <1>1, <1>4, LastBeats
  <2>2. /\ ram_r.error <=> arb.araddr \notin RamLines
        /\ slipped <=> (ram_r.len # LastBeat \/ ram_r.id # arb.owner)
        /\ owner_adapter.resp = "OKAY" => owner_adapter.beat = ram_r.beat
        /\ ~slipped /\ ~ram_r.error => owner_adapter.resp = "OKAY"
    BY <1>1, <1>4 DEF ReadCounted
  <2>3. /\ merged_rresp(owner_adapter, arb.owner, rbeat) = "OKAY" =>
             owner_adapter.resp = "OKAY" /\ ram_r.id = arb.owner /\ arb.araddr \in RamLines
        /\ ~slipped /\ arb.araddr \in RamLines =>
             merged_rresp(owner_adapter, arb.owner, rbeat) = "OKAY"
    BY <1>1, <1>4, BeatOkay
  <2> QED
    BY <1>2, <1>3, <2>1, <2>2, <2>3 DEF answer
<1>5. CASE ~selected_read("RAM")
  <2>1. rbeat.resp = "DECERR"
    BY <1>1, <1>5, LastBeats DEF error_read_out, refused_out
  <2>2. rid_checked_resp(arb.owner, rbeat) # "OKAY"
    BY <2>1 DEF rid_checked_resp
  <2>3. answer # "OKAY"
    BY <1>2, <2>2, MergeOkay DEF merged_rresp
  <2>4. target_now(arb.araddr) # "RAM"
    BY <1>1, <1>5 DEF RegistersOK, PathsAgree, Routed, selected_read
  <2>5. arb.araddr \notin RamLines
    BY <2>4, MemorySystemAssumption DEF target_now
  <2> QED
    BY <2>3, <2>5 DEF answer
<1> QED
  BY <1>4, <1>5

LEMMA WriteAnswer ==
  ASSUME IInv, dc.state = "B"
  PROVE  write_resp("dcache", bresp) # "OKAY" <=> dc.addr \notin RamLines
<1>1. RegistersOK /\ PathsAgree /\ Routed /\ WriteCounted
  BY DEF IInv
<1>2. /\ wdec.state \in {"RESP", "ERR_RESP"}
      /\ wdec.state = "RESP" => wdec.target \in {"RAM", "MMIO"} /\ wdec.target = target_now(dc.addr)
      /\ wdec.state = "ERR_RESP" => target_now(dc.addr) = "ERR" /\ wdec.id = "dcache"
  BY <1>1 DEF RegistersOK, PathsAgree, Routed
<1>3. target_now(dc.addr) # "RAM" => dc.addr \notin RamLines
  BY MemorySystemAssumption DEF target_now
<1>4. write_resp("dcache", bresp) = "OKAY" <=> bresp.id = "dcache" /\ bresp.resp = "OKAY"
  BY MergeOkay DEF write_resp
<1>5. CASE wdec.state = "ERR_RESP"
  BY <1>2, <1>3, <1>4, <1>5 DEF bresp
<1>6. CASE wdec.state = "RESP" /\ wdec.target = "RAM"
  <2>1. ram_w.id = "dcache" /\ (ram_w.resp # "OKAY" <=> dc.addr \notin RamLines)
    BY <1>1, <1>6 DEF PathsAgree, WriteCounted, selected_write
  <2> QED
    BY <1>4, <1>6, <2>1 DEF bresp
<1>7. CASE wdec.state = "RESP" /\ wdec.target = "MMIO"
  BY <1>2, <1>3, <1>4, <1>7 DEF bresp
<1> QED
  BY <1>2, <1>5, <1>6, <1>7

LEMMA DeservedStep ==
  ASSUME IInv, SystemNext
  PROVE  ErrorDeserved
<1>1. RegistersOK /\ PathsAgree /\ Routed
  BY DEF IInv
<1>2. PICK ireq \in InstrRequests, dreq \in DataRequests, slip \in Slips : Adapters(ireq, dreq)
  BY MemorySystemAssumption DEF SystemNext, Faithful, LastBeat, Clock
<1>3. /\ r_fire("icache") <=> arb.state = "R" /\ arb.owner = "icache"
      /\ r_fire("dcache") <=> arb.state = "R" /\ arb.owner = "dcache"
      /\ b_fire <=> dc.state = "B"
  BY <1>1, Handshakes DEF Id
<1>4. /\ r_fire("icache") => owner_adapter = ic /\ ic.addr = arb.araddr
      /\ r_fire("dcache") => owner_adapter = dc /\ dc.addr = arb.araddr
  BY <1>1, <1>3 DEF PathsAgree, owner_adapter
<1>5. ASSUME NEW r \in ic_resp'
      PROVE  r.resp # "OKAY" <=> ic.addr \notin RamLines \/ slipped
  <2>1. r_fire("icache") /\ rbeat.last /\ r = line_resp(ic, "icache", rbeat)
    BY <1>2, <1>5 DEF Adapters
  <2> QED
    BY <1>3, <1>4, <2>1, LineAnswer
<1>6. ASSUME NEW r \in dc_resp'
      PROVE  r.resp # "OKAY" <=> dc.addr \notin RamLines \/ (~r.write /\ slipped)
  <2>1. CASE r_fire("dcache") /\ rbeat.last
    <3>1. /\ r.write = FALSE
          /\ r.resp = line_resp(dc, "dcache", rbeat).resp
      BY <1>2, <1>6, <2>1 DEF Adapters
    <3> QED
      BY <1>3, <1>4, <2>1, <3>1, LineAnswer
  <2>2. CASE ~(r_fire("dcache") /\ rbeat.last)
    <3>1. b_fire /\ r.write = TRUE /\ r.resp = write_resp("dcache", bresp)
      BY <1>2, <1>6, <2>2 DEF Adapters
    <3> QED
      BY <1>3, <3>1, WriteAnswer
  <2> QED
    BY <2>1, <2>2
<1> QED
  BY <1>5, <1>6 DEF ErrorDeserved

(***************************************************************************)
(* A cache is answered an error exactly when it asked for a line that does *)
(* not exist or its own read burst slipped (merged_rresp and the early and *)
(* late ends of both adapters).                                            *)
(***************************************************************************)
THEOREM ErrorsAlwaysDeserved == SystemSpec => ErrorsDeserved
<1>1. IInv /\ [SystemNext]_systemVars => [ErrorDeserved]_systemVars
  BY DeservedStep
<1> QED
  BY Invariant, <1>1, PTL DEF SystemSpec, ErrorsDeserved
-----------------------------------------------------------------------------
(***************************************************************************)
(* The caches get the line memory they count on.  The argument: RAM and    *)
(* write buffer together always hold the old and the new line of a write,  *)
(* split at the beat under way; and what a read that has not slipped has   *)
(* gathered up to its beat is what its cache may see.                      *)
(***************************************************************************)
LinesTyped ==
  /\ ram \in [RamLines -> LineData]
  /\ writing(dc) => dc.write_buf \in LineData /\ before \in LineData
  /\ seen = [k \in Beat |-> seen[k]]
  /\ slipped => Slips # {Faithful}

\* The beats of a write that have reached the RAM.
arrived(d) == {k \in Beat : d.state = "B" \/ (d.state = "W" /\ k < d.beat)}

WriteUnderWay ==
  /\ ram_w.active => ram_w.addr = dc.addr
  /\ writing(dc) /\ dc.addr \in RamLines =>
       \A k \in Beat : ram[dc.addr][k] = IF k \in arrived(dc) THEN dc.write_buf[k] ELSE before[k]

\* What the master of a read burst may be given as word k of its line.
readable(k) == IF arb.owner = "icache" THEN seen[k] ELSE {ram[arb.araddr][k]}

InstrReadFresh ==
  ic.state # "IDLE" /\ ic.addr \in RamLines => \A k \in Beat : ram[ic.addr][k] \in seen[k]

ReadUnderWay ==
  selected_read("RAM") /\ ~slipped /\ arb.araddr \in RamLines =>
    /\ ram_r.addr = arb.araddr
    /\ \A k \in Beat : /\ k = ram_r.beat => ram_r.data \in readable(k)
                       /\ k < ram_r.beat => owner_adapter.buf[k] \in readable(k)

LinesInv == LinesTyped /\ WriteUnderWay /\ InstrReadFresh /\ ReadUnderWay
-----------------------------------------------------------------------------
LEMMA TheOnly ==
  ASSUME NEW x
  PROVE  the({x}) = x
BY DEF the

\* What one clock does to the line an adapter carries.
LEMMA ReadBeatFills ==
  ASSUME NEW a, Record(a, AdapterFields), NEW id, NEW b, ~b.last
  PROVE  read_beat(a, id, b).buf = filled(a, b) /\ read_beat(a, id, b).state = a.state
BY DEF Record, AdapterFields, read_beat

LEMMA TakeReadLine ==
  ASSUME NEW a, Record(a, AdapterFields), NEW line
  PROVE  take_read(a, line).state = "AR" /\ take_read(a, line).addr = line
BY DEF Record, AdapterFields, take_read

LEMMA InstrLine ==
  ASSUME RegistersOK, PathsAgree, Routed,
         NEW ireq \in InstrRequests, NEW dreq, Adapters(ireq, dreq)
  PROVE  /\ ic.state # "IDLE" => ireq = {}
         /\ ic.state = "IDLE" =>
              \/ ireq = {} /\ ic'.state = "IDLE"
              \/ \E line \in Lines : /\ ireq = {line} /\ the(ireq) = line
                                     /\ ic'.state = "AR" /\ ic'.addr = line
         /\ ic.state = "R" /\ ~rbeat.last => ic'.buf = filled(ic, rbeat)
<1> DEFINE next == icache_next(ireq)
<1>1. Record(ic, AdapterFields) /\ ic.state \in {"IDLE", "AR", "R"}
  BY DEF RegistersOK
<1>2. ic' = IF next.state = "IDLE" THEN IdleRead ELSE next
  BY DEF Adapters, settled
<1>3. ic.state # "IDLE" => ireq = {}
  BY DEF InstrRequests
<1>4. /\ ar_fire("icache") <=> arb.state = "AR" /\ arb.owner = "icache"
      /\ r_fire("icache") <=> arb.state = "R" /\ arb.owner = "icache"
  BY Handshakes DEF Id
<1>5. /\ arb.state = "AR" /\ arb.owner = "icache" => ic.state = "AR"
      /\ arb.state = "R" /\ arb.owner = "icache" <=> ic.state = "R"
  BY DEF PathsAgree, owner_adapter
<1>6. ASSUME ic.state = "IDLE"
      PROVE  \/ ireq = {} /\ ic'.state = "IDLE"
             \/ \E line \in Lines : /\ ireq = {line} /\ the(ireq) = line
                                    /\ ic'.state = "AR" /\ ic'.addr = line
  <2>1. CASE ireq = {}
    <3>1. next = ic
      BY <1>4, <1>5, <1>6, <2>1 DEF icache_next
    <3> QED
      BY <1>2, <1>6, <2>1, <3>1 DEF IdleRead
  <2>2. CASE ireq # {}
    <3>1. PICK line \in Lines : ireq = {line}
      BY <2>2 DEF InstrRequests
    <3>2. the(ireq) = line
      BY <3>1, TheOnly
    <3>3. next = take_read(ic, line)
      <4>1. next = take_read(ic, the(ireq))
        BY <1>4, <1>5, <1>6, <2>2 DEF icache_next
      <4> QED
        BY <3>2, <4>1
    <3>4. next.state = "AR" /\ next.addr = line
      <4> HIDE DEF next
      <4> QED
        BY <1>1, <3>3, TakeReadLine
    <3> QED
      BY <1>2, <3>1, <3>2, <3>4
  <2> QED
    BY <2>1, <2>2
<1>7. ASSUME ic.state = "R", ~rbeat.last
      PROVE  ic'.buf = filled(ic, rbeat)
  <2>1. next = read_beat(ic, "icache", rbeat)
    BY <1>3, <1>4, <1>5, <1>7 DEF icache_next
  <2> HIDE DEF next
  <2> QED
    BY <1>1, <1>2, <1>7, <2>1, ReadBeatFills
<1> QED
  BY <1>3, <1>6, <1>7

LEMMA WriteBufferKept ==
  ASSUME NEW a, Record(a, AdapterFields \cup {"write_buf"})
  PROVE  /\ write_address_taken(a).write_buf = a.write_buf
         /\ write_beat(a).write_buf = a.write_buf
BY DEF Record, AdapterFields, write_address_taken, write_beat

LEMMA TakeWriteLine ==
  ASSUME NEW a, Record(a, AdapterFields \cup {"write_buf"}), NEW line, NEW data
  PROVE  /\ take_write(a, line, data).state = "AW"
         /\ take_write(a, line, data).addr = line
         /\ take_write(a, line, data).write_buf = data
BY DEF Record, AdapterFields, take_write

LEMMA DataRequest ==
  ASSUME NEW dreq \in DataRequests
  PROVE  \/ dreq = {}
         \/ \E line \in Lines :
              /\ dreq = {[write |-> FALSE, line |-> line]}
              /\ \E q \in dreq : ~q.write
              /\ ~ \E q \in dreq : q.write
              /\ the(dreq).line = line
         \/ \E line \in Lines, d \in WriteData :
              /\ dreq = {[write |-> TRUE, line |-> line, data |-> d]}
              /\ \E q \in dreq : q.write
              /\ ~ \E q \in dreq : ~q.write
              /\ the(dreq).line = line /\ the(dreq).data = d
<1>1. CASE \E line \in Lines : dreq = {[write |-> FALSE, line |-> line]}
  <2>1. PICK line \in Lines : dreq = {[write |-> FALSE, line |-> line]}
    BY <1>1
  <2>2. the(dreq) = [write |-> FALSE, line |-> line]
    BY <2>1, TheOnly
  <2>3. [write |-> FALSE, line |-> line].write = FALSE /\ [write |-> FALSE, line |-> line].line = line
    OBVIOUS
  <2> QED
    BY <2>1, <2>2, <2>3
<1>2. CASE \E line \in Lines, d \in WriteData : dreq = {[write |-> TRUE, line |-> line, data |-> d]}
  <2>1. PICK line \in Lines, d \in WriteData : dreq = {[write |-> TRUE, line |-> line, data |-> d]}
    BY <1>2
  <2>2. the(dreq) = [write |-> TRUE, line |-> line, data |-> d]
    BY <2>1, TheOnly
  <2> QED
    BY <2>1, <2>2
<1> QED
  BY <1>1, <1>2 DEF DataRequests

LEMMA DataLine ==
  ASSUME RegistersOK, PathsAgree, Routed,
         NEW ireq, NEW dreq \in DataRequests, Adapters(ireq, dreq)
  PROVE  /\ dc.state # "IDLE" => dreq = {}
         /\ dc.state = "IDLE" =>
              \/ dreq = {} /\ dc'.state = "IDLE"
              \/ \E line \in Lines :
                   /\ ~ \E q \in dreq : q.write
                   /\ dc'.state = "AR" /\ dc'.addr = line
              \/ \E line \in Lines, d \in WriteData :
                   /\ \E q \in dreq : q.write
                   /\ the(dreq).line = line
                   /\ dc'.state = "AW" /\ dc'.addr = line /\ dc'.write_buf = d
         /\ dc.state = "R" /\ ~rbeat.last => dc'.buf = filled(dc, rbeat)
         /\ dc.state \in {"AW", "W"} => dc'.write_buf = dc.write_buf
<1> DEFINE next == dcache_next(dreq)
           Fields == AdapterFields \cup {"write_buf"}
<1>1. Record(dc, Fields) /\ dc.state \in {"IDLE", "AR", "R", "AW", "W", "B"}
  BY DEF RegistersOK
<1>2. dc' = IF next.state = "IDLE" THEN IdleAdapter ELSE next
  BY DEF Adapters, settled
<1>3. dc.state # "IDLE" => dreq = {}
  BY DEF DataRequests
<1>4. /\ ar_fire("dcache") <=> arb.state = "AR" /\ arb.owner = "dcache"
      /\ r_fire("dcache") <=> arb.state = "R" /\ arb.owner = "dcache"
      /\ aw_fire <=> dc.state = "AW"
      /\ w_fire <=> dc.state = "W"
      /\ b_fire <=> dc.state = "B"
  BY Handshakes DEF Id
<1>5. /\ arb.state = "AR" /\ arb.owner = "dcache" => dc.state = "AR"
      /\ arb.state = "R" /\ arb.owner = "dcache" <=> dc.state = "R"
  BY DEF PathsAgree, owner_adapter
<1>6. Record(dc, AdapterFields)
  BY <1>1, DataAdapterRecord
<1>7. ASSUME dc.state = "IDLE"
      PROVE  \/ dreq = {} /\ dc'.state = "IDLE"
             \/ \E line \in Lines :
                  /\ ~ \E q \in dreq : q.write
                  /\ dc'.state = "AR" /\ dc'.addr = line
             \/ \E line \in Lines, d \in WriteData :
                  /\ \E q \in dreq : q.write
                  /\ the(dreq).line = line
                  /\ dc'.state = "AW" /\ dc'.addr = line /\ dc'.write_buf = d
  <2>1. CASE dreq = {}
    <3>1. next = dc
      BY <1>4, <1>5, <1>7, <2>1 DEF dcache_next
    <3> QED
      BY <1>2, <1>7, <2>1, <3>1 DEF IdleAdapter
  <2>2. ASSUME NEW line \in Lines, \E q \in dreq : ~q.write, ~ \E q \in dreq : q.write,
               the(dreq).line = line
        PROVE  dc'.state = "AR" /\ dc'.addr = line
    <3>1. next = take_read(dc, line)
      <4>1. next = take_read(dc, the(dreq).line)
        BY <1>4, <1>5, <1>7, <2>2 DEF dcache_next
      <4> QED
        BY <2>2, <4>1
    <3> HIDE DEF next
    <3> QED
      BY <1>2, <1>6, <3>1, TakeReadLine
  <2>3. ASSUME NEW line \in Lines, NEW d \in WriteData, \E q \in dreq : q.write,
               ~ \E q \in dreq : ~q.write, the(dreq).line = line, the(dreq).data = d
        PROVE  dc'.state = "AW" /\ dc'.addr = line /\ dc'.write_buf = d
    <3>1. next = take_write(dc, line, d)
      <4>1. next = take_write(dc, the(dreq).line, the(dreq).data)
        BY <1>4, <1>5, <1>7, <2>3 DEF dcache_next
      <4> QED
        BY <2>3, <4>1
    <3> HIDE DEF next
    <3> QED
      BY <1>1, <1>2, <3>1, TakeWriteLine
  <2> HIDE DEF next
  <2> QED
    BY <2>1, <2>2, <2>3, DataRequest
<1>8. ASSUME dc.state = "R", ~rbeat.last
      PROVE  dc'.buf = filled(dc, rbeat)
  <2>1. next = read_beat(dc, "dcache", rbeat)
    BY <1>3, <1>4, <1>5, <1>8 DEF dcache_next
  <2> HIDE DEF next
  <2> QED
    BY <1>2, <1>6, <1>8, <2>1, ReadBeatFills
<1>9. ASSUME dc.state \in {"AW", "W"}
      PROVE  dc'.write_buf = dc.write_buf
  <2>1. next = IF dc.state = "AW" THEN write_address_taken(dc) ELSE write_beat(dc)
    BY <1>3, <1>4, <1>5, <1>9 DEF dcache_next
  <2>2. dc'.state # "IDLE"
    BY <1>9, DcacheStep DEF AdapterWrites
  <2>3. dc' = next
    BY <1>2, <2>2 DEF IdleAdapter
  <2> HIDE DEF next
  <2> QED
    BY <1>1, <2>1, <2>3, WriteBufferKept
<1> QED
  BY <1>3, <1>7, <1>8, <1>9
-----------------------------------------------------------------------------
\* What one clock does to the words in the RAM and on its channels.
LEMMA WordOfLine ==
  ASSUME NEW line \in RamLines, NEW beat \in Beat
  PROVE  read_data(ram, line, beat) = ram[line][beat]
<1>1. LINE_BEATS \in Nat \ {0} /\ beat \in Nat /\ beat < LINE_BEATS
  BY BeatsAssumption DEF Beat
<1>2. \A n, m \in Nat : n < m => n \div m = 0 /\ n % m = n
  OBVIOUS
<1>3. beat \div LINE_BEATS = 0 /\ beat % LINE_BEATS = beat
  BY <1>1, <1>2
<1>4. line + 0 = line
  BY RamAssumption DEF RamLines
<1> QED
  BY <1>3, <1>4 DEF read_data

LEMMA RamReadData ==
  ASSUME RegistersOK, PathsAgree, Routed, NEW slip, Slaves(slip)
  PROVE  /\ arb.state = "AR" /\ target_now(arb.araddr) = "RAM" =>
              /\ ram_r'.addr = arb.araddr
              /\ arb.araddr \in RamLines => ram_r'.data = read_data(ram, arb.araddr, 0)
         /\ selected_read("RAM") /\ ram_r.beat # ram_r.len =>
              /\ ram_r'.addr = ram_r.addr
              /\ ~ram_r.error => ram_r'.data = read_data(ram, ram_r.addr, ram_r.beat + 1)
<1> DEFINE Fields == {"active", "error", "id", "addr", "len", "beat", "data"}
           next == ram_r_next(slip)
<1>1. /\ Record(ram_r, Fields) /\ ram_r.active \in BOOLEAN
      /\ arb.state \in {"SELECT", "AR", "R"} /\ (selected_read("RAM") <=> ram_r.active)
      /\ selected_read("RAM") => arb.state = "R"
  BY DEF RegistersOK, PathsAgree, selected_read
<1>2. ram_r' = IF ~next.active THEN IdleReadChannel ELSE next
  BY DEF Slaves, settled
<1>3. /\ to("RAM") <=> arb.state = "AR" /\ target_now(arb.araddr) = "RAM"
      /\ read_beat_of("RAM") <=> selected_read("RAM")
  BY <1>1, Handshakes DEF to, read_beat_of
<1>4. ASSUME arb.state = "AR", target_now(arb.araddr) = "RAM"
      PROVE  /\ ram_r'.addr = arb.araddr
             /\ arb.araddr \in RamLines => ram_r'.data = read_data(ram, arb.araddr, 0)
  <2>1. next = read_taken(ram, IF slip.foreign THEN other(arb.arid) ELSE arb.arid,
                          arb.araddr, slip.len)
    BY <1>1, <1>3, <1>4 DEF ram_r_next
  <2>2. /\ next.active = TRUE /\ next.addr = arb.araddr
        /\ arb.araddr \in RamLines => next.data = read_data(ram, arb.araddr, 0)
    BY <2>1 DEF read_taken, request_valid
  <2> HIDE DEF next
  <2> QED
    BY <1>2, <2>2
<1>5. ASSUME selected_read("RAM"), ram_r.beat # ram_r.len
      PROVE  /\ ram_r'.addr = ram_r.addr
             /\ ~ram_r.error => ram_r'.data = read_data(ram, ram_r.addr, ram_r.beat + 1)
  <2>1. next = read_next(ram_r, ram)
    BY <1>1, <1>3, <1>5 DEF ram_r_next
  <2>2. /\ next.active = ram_r.active /\ next.addr = ram_r.addr
        /\ ~ram_r.error => next.data = read_data(ram, ram_r.addr, ram_r.beat + 1)
    BY <1>1, <1>5, <2>1 DEF Record, read_next, rlast
  <2> HIDE DEF next
  <2> QED
    BY <1>1, <1>2, <1>5, <2>2
<1> QED
  BY <1>4, <1>5

LEMMA RamWriteLine ==
  ASSUME RegistersOK, PathsAgree, Routed, NEW slip, Slaves(slip), ram_w'.active
  PROVE  /\ dc.state = "AW" => ram_w'.addr = dc.addr
         /\ dc.state = "W" => ram_w.active /\ ram_w'.addr = ram_w.addr
         /\ dc.state \in {"AW", "W"}
<1> DEFINE Fields == {"active", "resp_valid", "request_error", "protocol_error", "id",
                      "addr", "len", "beat", "resp"}
           next == ram_w_next
<1>1. /\ Record(ram_w, Fields)
      /\ ram_w.active \in BOOLEAN /\ ram_w'.active \in BOOLEAN
      /\ selected_write("DATA", "RAM") <=> ram_w.active
  BY RamWriteStep DEF RegistersOK, PathsAgree
<1>2. dc.state \in {"AW", "W"}
  BY RamWriteStep
<1>3. ram_w' = next
  BY DEF Slaves, settled, IdleWriteChannel
<1>4. /\ aw_fire <=> dc.state = "AW"
      /\ w_fire <=> dc.state = "W"
      /\ b_fire <=> dc.state = "B"
  BY Handshakes
<1>5. ASSUME dc.state = "AW"
      PROVE  ram_w'.addr = dc.addr
  <2>1. target_now(dc.addr) = "RAM"
    BY <1>5, RamWriteStep
  <2>2. next = write_taken(ram_w, "dcache", dc.addr, LastBeat)
    BY <1>4, <1>5, <2>1 DEF ram_w_next, wto, write_beat_of, write_resp_of
  <2> HIDE DEF next
  <2> QED
    BY <1>1, <1>3, <2>2 DEF Record, write_taken
<1>6. ASSUME dc.state = "W"
      PROVE  ram_w.active /\ ram_w'.addr = ram_w.addr
  <2>1. selected_write("DATA", "RAM")
    BY <1>6, RamWriteStep
  <2>2. next = write_next(ram_w, wlast(dc))
    BY <1>4, <1>6, <2>1 DEF ram_w_next, wto, write_beat_of, write_resp_of
  <2>3. write_next(ram_w, wlast(dc)).addr = ram_w.addr
    BY <1>1 DEF Record, write_next
  <2> HIDE DEF next
  <2> QED
    BY <1>1, <1>3, <2>1, <2>2, <2>3
<1> QED
  BY <1>2, <1>5, <1>6

\* A beat of a write changes its own word of its own line, and nothing else does.
LEMMA RamStep ==
  ASSUME IInv, LinesInv, NEW slip, Slaves(slip)
  PROVE  ram' = IF dc.state = "W" /\ dc.addr \in RamLines
                THEN [ram EXCEPT ![dc.addr][dc.beat] = dc.write_buf[dc.beat]]
                ELSE ram
<1>1. RegistersOK /\ PathsAgree /\ Routed /\ WriteCounted /\ WriteUnderWay
  BY DEF IInv, LinesInv
<1>2. w_fire <=> dc.state = "W"
  BY <1>1, Handshakes
<1>3. ram' = IF write_beat_of("RAM") THEN ram_written(ram, ram_w, wdata(dc)) ELSE ram
  BY DEF Slaves
<1>4. dc.state = "W" /\ dc.addr \in RamLines => selected_write("DATA", "RAM")
  <2>1. dc.state = "W" => wdec.state \in {"DATA", "ERR_DATA"}
    BY <1>1 DEF PathsAgree
  <2>2. dc.addr \in RamLines => target_now(dc.addr) = "RAM"
    BY MemorySystemAssumption DEF target_now
  <2> QED
    BY <1>1, <2>1, <2>2 DEF Routed, selected_write
<1>5. ASSUME selected_write("DATA", "RAM")
      PROVE  /\ ram_w.request_error <=> dc.addr \notin RamLines
             /\ ram_w.beat = dc.beat /\ ram_w.beat <= ram_w.len /\ ram_w.addr = dc.addr
  <2>1. /\ ram_w.request_error <=> dc.addr \notin RamLines
        /\ ram_w.beat = dc.beat /\ dc.beat \in Beat /\ ram_w.len = LastBeat
        /\ ram_w.addr = dc.addr
    BY <1>1, <1>5 DEF PathsAgree, WriteCounted, WriteUnderWay
  <2> QED
    BY <2>1, BeatsAssumption DEF Beat, LastBeat
<1> QED
  BY <1>2, <1>3, <1>4, <1>5 DEF write_beat_of, ram_written, wdata
-----------------------------------------------------------------------------
\* The access of the data cache, clock by clock.
LEMMA AccessStep ==
  ASSUME IInv, LinesInv,
         NEW ireq \in InstrRequests, NEW dreq \in DataRequests, NEW slip, Clock(ireq, dreq, slip)
  PROVE  /\ writing(dc) /\ writing(dc') =>
              /\ dc'.addr = dc.addr /\ dc'.write_buf = dc.write_buf /\ before' = before
         /\ ~writing(dc) /\ writing(dc') =>
              /\ dc.state = "IDLE" /\ dc'.state = "AW"
              /\ dc'.addr \in Lines /\ dc'.write_buf \in LineData
              /\ before' = IF dc'.addr \in RamLines THEN ram[dc'.addr] ELSE ZeroLine
         /\ writing(dc) /\ ~writing(dc') => dc.state = "B" /\ dc'.state = "IDLE"
         /\ dc.state \in {"AR", "R"} =>
              dc'.state = "IDLE" \/ (dc'.state \in {"AR", "R"} /\ dc'.addr = dc.addr)
         /\ dc'.state = "IDLE" => dc.state = "IDLE" \/ dc.state = "B" \/ (dc.state = "R" /\ rbeat.last)
         /\ dc.state = "IDLE" /\ dc'.state = "AR" => dc'.addr \in Lines
         /\ dc.state = "IDLE" => dc'.state \in {"IDLE", "AR", "AW"}
<1>1. /\ RegistersOK /\ PathsAgree /\ Routed
      /\ Adapters(ireq, dreq) /\ History(ireq, dreq, slip)
      /\ dc.state \in {"IDLE", "AR", "R", "AW", "W", "B"}
  BY DEF IInv, Clock, RegistersOK
<1>2. AdapterReads(dc, dc', "dcache") /\ AdapterWrites(dc, dc')
  BY <1>1, DcacheStep
<1>3. before' = IF \E q \in dreq : q.write
                THEN IF the(dreq).line \in RamLines THEN ram[the(dreq).line] ELSE ZeroLine
                ELSE IF writing(dc') THEN before ELSE ZeroLine
  BY <1>1 DEF History
<1>4. CASE dc.state = "IDLE"
  <2>1. CASE dreq = {} /\ dc'.state = "IDLE"
    BY <1>4, <2>1 DEF writing
  <2>2. CASE \E line \in Lines : dc'.state = "AR" /\ dc'.addr = line
    BY <1>4, <2>2 DEF writing
  <2>3. CASE \E line \in Lines, d \in WriteData :
               /\ \E q \in dreq : q.write
               /\ the(dreq).line = line
               /\ dc'.state = "AW" /\ dc'.addr = line /\ dc'.write_buf = d
    <3>1. /\ dc'.state = "AW" /\ dc'.addr \in Lines /\ dc'.write_buf \in LineData
          /\ before' = IF dc'.addr \in RamLines THEN ram[dc'.addr] ELSE ZeroLine
      BY <1>3, <2>3, MemorySystemAssumption
    <3> QED
      BY <1>4, <3>1 DEF writing
  <2> QED
    BY <1>1, <1>4, <2>1, <2>2, <2>3, DataLine
<1>5. CASE dc.state \in {"AR", "R"}
  <2>1. \/ dc'.state = "IDLE" /\ dc.state = "R" /\ rbeat.last
        \/ dc'.state \in {"AR", "R"} /\ dc'.addr = dc.addr
    BY <1>2, <1>5 DEF AdapterReads
  <2> QED
    BY <1>5, <2>1 DEF writing
<1>6. CASE dc.state \in {"AW", "W"}
  <2>1. /\ dc'.state \in {"W", "B"} /\ dc'.addr = dc.addr
        /\ dc'.write_buf = dc.write_buf /\ dreq = {}
    BY <1>1, <1>2, <1>6, DataLine DEF AdapterWrites
  <2>2. before' = before
    BY <1>3, <2>1 DEF writing
  <2> QED
    BY <1>6, <2>1, <2>2 DEF writing
<1>7. CASE dc.state = "B"
  BY <1>2, <1>7 DEF AdapterWrites, writing
<1> QED
  BY <1>1, <1>4, <1>5, <1>6, <1>7

LEMMA TypedStep ==
  ASSUME IInv, LinesInv,
         NEW ireq \in InstrRequests, NEW dreq \in DataRequests, NEW slip \in Slips,
         Clock(ireq, dreq, slip)
  PROVE  LinesTyped'
<1>1. /\ LinesTyped /\ RegistersOK /\ PathsAgree /\ Routed /\ WriteCounted
      /\ Slaves(slip) /\ History(ireq, dreq, slip)
  BY DEF LinesInv, IInv, Clock
<1>2. ram' \in [RamLines -> LineData]
  <2>1. dc.state = "W" => dc.write_buf \in LineData
    BY <1>1 DEF LinesTyped, writing
  <2>2. ASSUME dc.state = "W", dc.addr \in RamLines
        PROVE  dc.beat \in Beat
    <3>1. target_now(dc.addr) = "RAM"
      BY <2>2, MemorySystemAssumption DEF target_now
    <3>2. wdec.state \in {"DATA", "ERR_DATA"}
      BY <1>1, <2>2 DEF PathsAgree
    <3>3. selected_write("DATA", "RAM")
      BY <1>1, <3>1, <3>2 DEF Routed, selected_write
    <3> QED
      BY <1>1, <3>3 DEF PathsAgree, WriteCounted
  <2>3. ASSUME dc.state = "W", dc.addr \in RamLines
        PROVE  [ram EXCEPT ![dc.addr][dc.beat] = dc.write_buf[dc.beat]] \in [RamLines -> LineData]
    BY <1>1, <2>1, <2>2, <2>3 DEF LinesTyped, LineData
  <2> QED
    BY <1>1, <2>3, RamStep DEF LinesTyped
<1>3. writing(dc') => dc'.write_buf \in LineData /\ before' \in LineData
  <2>1. ZeroLine \in LineData
    BY BeatsAssumption DEF ZeroLine, LineData
  <2>2. ASSUME writing(dc'), writing(dc)
        PROVE  dc'.write_buf \in LineData /\ before' \in LineData
    BY <1>1, <2>2, AccessStep DEF LinesTyped
  <2>3. ASSUME writing(dc'), ~writing(dc)
        PROVE  dc'.write_buf \in LineData /\ before' \in LineData
    BY <1>1, <2>1, <2>3, AccessStep DEF LinesTyped
  <2> QED
    BY <2>2, <2>3
<1>4. seen' = [k \in Beat |-> seen'[k]]
  <2>1. \/ seen' = visible(the(ireq))
        \/ seen' = [k \in Beat |-> {}]
        \/ seen' = [k \in Beat |-> seen[k] \cup visible(ic.addr)[k]]
    BY <1>1 DEF History
  <2>2. CASE seen' = visible(the(ireq))
    BY <2>2 DEF visible
  <2>3. CASE seen' = [k \in Beat |-> {}]
    BY <2>3
  <2>4. CASE seen' = [k \in Beat |-> seen[k] \cup visible(ic.addr)[k]]
    BY <2>4
  <2> QED
    BY <2>1, <2>2, <2>3, <2>4
<1>5. slipped' => Slips # {Faithful}
  <2>1. ~(to("RAM") /\ r_fire_any)
    BY <1>1, Handshakes DEF to
  <2>2. CASE to("RAM")
    <3>1. slipped' = (slip # Faithful)
      BY <1>1, <2>1, <2>2 DEF History
    <3> QED
      BY <3>1
  <2>3. CASE r_fire_any /\ rbeat.last
    <3>1. slipped' = FALSE
      BY <1>1, <2>1, <2>3 DEF History
    <3> QED
      BY <3>1
  <2>4. CASE ~to("RAM") /\ ~(r_fire_any /\ rbeat.last)
    <3>1. slipped' = slipped
      BY <1>1, <2>4 DEF History
    <3> QED
      BY <1>1, <3>1 DEF LinesTyped
  <2> QED
    BY <2>2, <2>3, <2>4
<1> QED
  BY <1>2, <1>3, <1>4, <1>5 DEF LinesTyped, writing

LEMMA WriteUnderWayStep ==
  ASSUME IInv, LinesInv,
         NEW ireq \in InstrRequests, NEW dreq \in DataRequests, NEW slip, Clock(ireq, dreq, slip)
  PROVE  WriteUnderWay'
<1>1. /\ LinesTyped /\ WriteUnderWay /\ RegistersOK /\ PathsAgree /\ Routed /\ WriteCounted
      /\ Adapters(ireq, dreq) /\ Slaves(slip) /\ History(ireq, dreq, slip)
  BY DEF LinesInv, IInv, Clock
<1>2. AdapterWrites(dc, dc')
  BY <1>1, DcacheStep
<1>3. ram_w'.active => ram_w'.addr = dc'.addr
  <2> SUFFICES ASSUME ram_w'.active
               PROVE  ram_w'.addr = dc'.addr
    OBVIOUS
  <2>1. /\ dc.state \in {"AW", "W"}
        /\ dc.state = "AW" => ram_w'.addr = dc.addr
        /\ dc.state = "W" => ram_w.active /\ ram_w'.addr = ram_w.addr
    BY <1>1, RamWriteLine
  <2>2. dc'.addr = dc.addr
    BY <1>2, <2>1 DEF AdapterWrites
  <2> QED
    BY <1>1, <2>1, <2>2 DEF WriteUnderWay
<1>4. ASSUME writing(dc'), dc'.addr \in RamLines, NEW k \in Beat
      PROVE  ram'[dc'.addr][k] = IF k \in arrived(dc') THEN dc'.write_buf[k] ELSE before'[k]
  <2>1. CASE ~writing(dc)
    <3>1. /\ dc.state = "IDLE" /\ dc'.state = "AW" /\ before' = ram[dc'.addr]
      BY <1>4, <2>1, AccessStep
    <3>2. ram' = ram
      BY <1>1, <3>1, RamStep
    <3>3. k \notin arrived(dc')
      BY <3>1 DEF arrived
    <3> QED
      BY <3>1, <3>2, <3>3
  <2>2. CASE writing(dc)
    <3>1. dc'.addr = dc.addr /\ dc'.write_buf = dc.write_buf /\ before' = before
      BY <1>4, <2>2, AccessStep
    <3>2. ram[dc.addr][k] = IF k \in arrived(dc) THEN dc.write_buf[k] ELSE before[k]
      BY <1>1, <1>4, <2>2, <3>1 DEF WriteUnderWay
    <3>3. CASE dc.state = "AW"
      <4>1. ram' = ram
        BY <1>1, <3>3, RamStep
      <4>2. dc'.state = "W" /\ dc'.beat = 0
        BY <1>2, <3>3 DEF AdapterWrites
      <4>3. k \notin arrived(dc) /\ k \notin arrived(dc')
        BY <3>3, <4>2 DEF arrived, Beat
      <4> QED
        BY <3>1, <3>2, <4>1, <4>3
    <3>4. CASE dc.state = "W"
      <4>1. ram' = [ram EXCEPT ![dc.addr][dc.beat] = dc.write_buf[dc.beat]]
        BY <1>1, <1>4, <3>1, <3>4, RamStep
      <4>2. dc.addr \in RamLines /\ ram \in [RamLines -> LineData]
        BY <1>1, <1>4, <3>1 DEF LinesTyped
      <4>3. ram'[dc.addr][k] = IF k = dc.beat THEN dc.write_buf[k] ELSE ram[dc.addr][k]
        BY <4>1, <4>2 DEF LineData
      <4>4. dc.beat \in Beat
        <5>1. target_now(dc.addr) = "RAM"
          BY <4>2, MemorySystemAssumption DEF target_now
        <5>2. wdec.state \in {"DATA", "ERR_DATA"}
          BY <1>1, <3>4 DEF PathsAgree
        <5>3. selected_write("DATA", "RAM")
          BY <1>1, <5>1, <5>2 DEF Routed, selected_write
        <5> QED
          BY <1>1, <5>3 DEF PathsAgree, WriteCounted
      <4>5. k \in arrived(dc') <=> k = dc.beat \/ k \in arrived(dc)
        <5>1. k \in arrived(dc) <=> k < dc.beat
          BY <3>4 DEF arrived
        <5>2. CASE wlast(dc)
          <6>1. dc'.state = "B"
            BY <1>2, <3>4, <5>2 DEF AdapterWrites
          <6>2. k = dc.beat \/ k < dc.beat
            BY <5>2, BeatsAssumption DEF wlast, Beat
          <6> QED
            BY <5>1, <6>1, <6>2 DEF arrived
        <5>3. CASE ~wlast(dc)
          <6>1. dc'.state = "W" /\ dc'.beat = (dc.beat + 1) % COUNT
            BY <1>2, <3>4, <5>3 DEF AdapterWrites
          <6>2. dc.beat \in Nat /\ dc.beat < LastBeat
            BY <4>4, <5>3, BeatsAssumption DEF wlast, Beat, LastBeat
          <6>3. dc'.beat = dc.beat + 1
            BY <6>1, <6>2, NextBeat
          <6>4. k < dc.beat + 1 <=> k = dc.beat \/ k < dc.beat
            BY <6>2 DEF Beat
          <6> QED
            BY <5>1, <6>1, <6>3, <6>4 DEF arrived
        <5> QED
          BY <5>2, <5>3
      <4> QED
        BY <3>1, <3>2, <4>3, <4>5
    <3>5. CASE dc.state = "B"
      BY <1>2, <1>4, <3>5 DEF AdapterWrites, writing
    <3> QED
      BY <2>2, <3>3, <3>4, <3>5 DEF writing
  <2> QED
    BY <2>1, <2>2
<1> QED
  BY <1>3, <1>4 DEF WriteUnderWay, writing, arrived
-----------------------------------------------------------------------------
\* What is in memory after a clock can be seen.
LEMMA MemoryVisible ==
  ASSUME LinesTyped', WriteUnderWay', NEW line \in RamLines, NEW k \in Beat
  PROVE  ram'[line][k] \in visible(line)[k]
<1>1. visible(line)[k] = {mem_now'[line][k]}
                           \cup (IF writing(dc') /\ dc'.addr = line THEN {before'[k]} ELSE {})
  BY DEF visible
<1>2. mem_now'[line] = IF writing(dc') /\ dc'.addr = line THEN dc'.write_buf ELSE ram'[line]
  BY DEF mem_now, writing
<1>3. writing(dc') /\ dc'.addr = line => ram'[line][k] \in {dc'.write_buf[k], before'[k]}
  BY DEF WriteUnderWay, writing
<1> QED
  BY <1>1, <1>2, <1>3

\* What is read keeps everything it could see, until it is answered.
LEMMA SeenStep ==
  ASSUME IInv, LinesInv,
         NEW ireq \in InstrRequests, NEW dreq, NEW slip, Clock(ireq, dreq, slip)
  PROVE  /\ ic.state # "IDLE" /\ ic'.state # "IDLE" =>
              /\ ic'.addr = ic.addr
              /\ seen' = [k \in Beat |-> seen[k] \cup visible(ic.addr)[k]]
         /\ ic.state = "IDLE" /\ ic'.state # "IDLE" =>
              \E line \in Lines : ic'.addr = line /\ seen' = visible(line)
         /\ ic'.state = "IDLE" => ic.state = "IDLE" \/ (ic.state = "R" /\ rbeat.last)
<1>1. /\ RegistersOK /\ PathsAgree /\ Routed /\ ic.state \in {"IDLE", "AR", "R"}
      /\ Adapters(ireq, dreq) /\ History(ireq, dreq, slip)
  BY DEF IInv, Clock, RegistersOK
<1>2. AdapterReads(ic, ic', "icache")
  BY <1>1, IcacheStep
<1>3. seen' = CASE ireq # {}           -> visible(the(ireq))
                [] ic'.state = "IDLE"  -> [k \in Beat |-> {}]
                [] OTHER -> [k \in Beat |-> seen[k] \cup visible(ic.addr)[k]]
  BY <1>1 DEF History
<1>4. CASE ic.state = "IDLE"
  <2>1. CASE ireq = {} /\ ic'.state = "IDLE"
    BY <1>4, <2>1
  <2>2. CASE \E line \in Lines : /\ ireq = {line} /\ the(ireq) = line
                                 /\ ic'.state = "AR" /\ ic'.addr = line
    <3>1. PICK line \in Lines : /\ ireq = {line} /\ the(ireq) = line
                                /\ ic'.state = "AR" /\ ic'.addr = line
      BY <2>2
    <3>2. seen' = visible(the(ireq))
      BY <1>3, <3>1
    <3>3. seen' = visible(line)
      BY <3>1, <3>2
    <3> QED
      BY <1>4, <3>1, <3>3
  <2> QED
    BY <1>1, <1>4, <2>1, <2>2, InstrLine
<1>5. CASE ic.state # "IDLE"
  <2>1. ireq = {}
    BY <1>1, <1>5, InstrLine
  <2>2. ic'.state # "IDLE" => ic'.addr = ic.addr
    BY <1>1, <1>2, <1>5 DEF AdapterReads
  <2>3. ic'.state = "IDLE" => ic.state = "R" /\ rbeat.last
    BY <1>1, <1>2, <1>5 DEF AdapterReads
  <2>4. ic'.state # "IDLE" => seen' = [k \in Beat |-> seen[k] \cup visible(ic.addr)[k]]
    BY <1>3, <2>1
  <2> QED
    BY <1>5, <2>2, <2>3, <2>4
<1> QED
  BY <1>4, <1>5

LEMMA InstrReadFreshStep ==
  ASSUME IInv, LinesInv, LinesTyped', WriteUnderWay',
         NEW ireq \in InstrRequests, NEW dreq, NEW slip, Clock(ireq, dreq, slip)
  PROVE  InstrReadFresh'
<1> SUFFICES ASSUME ic'.state # "IDLE", ic'.addr \in RamLines, NEW k \in Beat
             PROVE  ram'[ic'.addr][k] \in seen'[k]
  BY DEF InstrReadFresh
<1>1. ram'[ic'.addr][k] \in visible(ic'.addr)[k]
  BY MemoryVisible
<1>2. CASE ic.state = "IDLE"
  BY <1>1, <1>2, SeenStep
<1>3. CASE ic.state # "IDLE"
  <2>1. ic'.addr = ic.addr /\ seen' = [j \in Beat |-> seen[j] \cup visible(ic.addr)[j]]
    BY <1>3, SeenStep
  <2>2. seen'[k] = seen[k] \cup visible(ic.addr)[k]
    BY <2>1
  <2> QED
    BY <1>1, <2>1, <2>2
<1> QED
  BY <1>2, <1>3

\* While a burst goes on, what its master may be given stays so.
LEMMA ReadableKept ==
  ASSUME IInv, LinesInv,
         NEW ireq \in InstrRequests, NEW dreq \in DataRequests, NEW slip, Clock(ireq, dreq, slip),
         arb.state = "AR" \/ (arb.state = "R" /\ ~rbeat.last),
         NEW k \in Beat, NEW x, x \in readable(k)
  PROVE  x \in readable(k)'
<1>1. /\ RegistersOK /\ PathsAgree /\ Routed
      /\ Adapters(ireq, dreq) /\ Arbiter /\ Slaves(slip) /\ arb.owner \in {"icache", "dcache"}
  BY DEF IInv, Clock, RegistersOK, Id
<1>2. arb'.owner = arb.owner /\ arb'.araddr = arb.araddr
  BY <1>1, ArbiterStep
<1>3. CASE arb.owner = "icache"
  <2>1. ic.state \in {"AR", "R"} /\ (ic.state = "R" => ~rbeat.last)
    BY <1>1, <1>3 DEF PathsAgree, owner_adapter
  <2>2. ic'.state # "IDLE"
    BY <2>1, SeenStep
  <2>3. seen' = [j \in Beat |-> seen[j] \cup visible(ic.addr)[j]]
    BY <2>1, <2>2, SeenStep
  <2>4. seen'[k] = seen[k] \cup visible(ic.addr)[k]
    BY <2>3
  <2>5. readable(k)' = seen'[k] /\ readable(k) = seen[k]
    BY <1>2, <1>3 DEF readable
  <2> QED
    BY <2>4, <2>5
<1>4. CASE arb.owner = "dcache"
  <2>1. dc.state \in {"AR", "R"}
    BY <1>1, <1>4 DEF PathsAgree, owner_adapter
  <2>2. ram' = ram
    BY <1>1, <2>1, RamStep
  <2> QED
    BY <1>2, <1>4, <2>2 DEF readable
<1> QED
  BY <1>1, <1>3, <1>4

\* The words in the RAM are readable when they are fetched.
LEMMA FetchedReadable ==
  ASSUME IInv, LinesInv, arb.state \in {"AR", "R"}, arb.araddr \in RamLines, NEW k \in Beat
  PROVE  ram[arb.araddr][k] \in readable(k)
<1>1. PathsAgree /\ InstrReadFresh /\ arb.owner \in {"icache", "dcache"}
  BY DEF IInv, LinesInv, RegistersOK, Id
<1>2. arb.owner = "icache" => ic.state # "IDLE" /\ ic.addr = arb.araddr
  BY <1>1 DEF PathsAgree, owner_adapter
<1> QED
  BY <1>1, <1>2 DEF InstrReadFresh, readable

LEMMA ReadUnderWayStep ==
  ASSUME IInv, LinesInv,
         NEW ireq \in InstrRequests, NEW dreq \in DataRequests, NEW slip \in Slips,
         Clock(ireq, dreq, slip)
  PROVE  ReadUnderWay'
<1>1. /\ LinesTyped /\ ReadUnderWay /\ RegistersOK /\ PathsAgree /\ Routed /\ ReadCounted
      /\ Adapters(ireq, dreq) /\ Arbiter /\ Decoder /\ Slaves(slip) /\ History(ireq, dreq, slip)
      /\ arb.state \in {"SELECT", "AR", "R"} /\ arb.owner \in {"icache", "dcache"}
  BY DEF LinesInv, IInv, Clock, RegistersOK, Id
<1>2. LastBeat \in Nat /\ Beat = 0 .. LastBeat
  BY BeatsAssumption DEF LastBeat, Beat
<1>3. CASE arb.state = "SELECT" \/ (arb.state = "R" /\ rbeat.last)
  <2>1. rdec'.state = "IDLE"
    BY <1>1, <1>3, ReadDecoderStep
  <2> QED
    BY <2>1 DEF ReadUnderWay, selected_read
<1>4. CASE arb.state = "AR"
  <2> SUFFICES ASSUME selected_read("RAM")', arb'.araddr \in RamLines
               PROVE  /\ ram_r'.addr = arb'.araddr
                      /\ \A k \in Beat : /\ k = ram_r'.beat => ram_r'.data \in readable(k)'
                                         /\ ~ k < ram_r'.beat
    BY DEF ReadUnderWay
  <2>1. target_now(arb.araddr) = "RAM" /\ arb'.araddr = arb.araddr
    BY <1>1, <1>4, ReadDecoderStep, ArbiterStep DEF selected_read
  <2>2. ram_r'.beat = 0 /\ 0 \in Beat
    BY <1>1, <1>2, <1>4, <2>1, RamReadStep
  <2>3. ram_r'.addr = arb.araddr /\ ram_r'.data = ram[arb.araddr][0]
    BY <1>1, <1>4, <2>1, <2>2, RamReadData, WordOfLine
  <2>4. ASSUME NEW k \in Beat, k = 0
        PROVE  ram_r'.data \in readable(k)'
    <3>1. PICK x : x = ram_r'.data
      OBVIOUS
    <3>2. x \in readable(k)
      BY <1>4, <2>1, <2>3, <2>4, <3>1, FetchedReadable
    <3> QED
      BY <1>4, <3>1, <3>2, ReadableKept
  <2>5. \A k \in Beat : ~ k < 0
    BY <1>2
  <2> QED
    BY <2>1, <2>2, <2>3, <2>4, <2>5
<1>5. CASE arb.state = "R" /\ ~rbeat.last
  <2>1. /\ arb'.owner = arb.owner /\ arb'.araddr = arb.araddr
        /\ rdec'.state = rdec.state /\ rdec'.target = rdec.target
    BY <1>1, <1>5, ArbiterStep, ReadDecoderStep
  <2>2. slipped' = slipped
    <3>1. ~to("RAM") /\ ~(r_fire_any /\ rbeat.last)
      BY <1>1, <1>5, Handshakes DEF to
    <3> QED
      BY <1>1, <3>1 DEF History
  <2>3. selected_read("RAM")' <=> selected_read("RAM")
    BY <2>1 DEF selected_read
  <2> SUFFICES ASSUME selected_read("RAM"), ~slipped, arb.araddr \in RamLines
               PROVE  /\ ram_r'.addr = arb'.araddr
                      /\ \A k \in Beat :
                           /\ k = ram_r'.beat => ram_r'.data \in readable(k)'
                           /\ k < ram_r'.beat => owner_adapter'.buf[k] \in readable(k)'
    BY <2>1, <2>2, <2>3 DEF ReadUnderWay
  <2>4. ram_r.beat # ram_r.len /\ rbeat = read_out(ram_r)
    BY <1>1, <1>5, LastBeats
  <2>5. /\ ram_r.beat \in Nat /\ ram_r.len = LastBeat /\ ~ram_r.error
        /\ owner_adapter.beat = ram_r.beat /\ ram_r.beat < LastBeat
    BY <1>1, <1>2, <2>4 DEF ReadCounted
  <2>6. ram_r'.beat = ram_r.beat + 1 /\ ram_r.beat + 1 \in Beat /\ ram_r.beat \in Beat
    BY <1>1, <1>2, <1>5, <2>4, <2>5, RamReadStep
  <2>7. /\ ram_r.addr = arb.araddr
        /\ \A k \in Beat : /\ k = ram_r.beat => ram_r.data \in readable(k)
                           /\ k < ram_r.beat => owner_adapter.buf[k] \in readable(k)
    BY <1>1 DEF ReadUnderWay
  <2>8. ram_r'.addr = arb.araddr /\ ram_r'.data = ram[arb.araddr][ram_r.beat + 1]
    BY <1>1, <2>4, <2>5, <2>6, <2>7, RamReadData, WordOfLine
  <2>9. ASSUME NEW k \in Beat, k = ram_r'.beat
        PROVE  ram_r'.data \in readable(k)'
    <3>1. PICK x : x = ram_r'.data
      OBVIOUS
    <3>2. x \in readable(k)
      BY <1>5, <2>6, <2>8, <2>9, <3>1, FetchedReadable
    <3> QED
      BY <1>5, <3>1, <3>2, ReadableKept
  <2>10. owner_adapter'.buf = filled(owner_adapter, rbeat)
    <3>1. /\ arb.owner = "icache" => ic.state = "R"
          /\ arb.owner = "dcache" => dc.state = "R"
      BY <1>1, <1>5 DEF PathsAgree, owner_adapter
    <3>2. /\ arb.owner = "icache" => owner_adapter = ic /\ owner_adapter' = ic'
          /\ arb.owner = "dcache" => owner_adapter = dc /\ owner_adapter' = dc'
      BY <2>1 DEF owner_adapter
    <3> QED
      BY <1>1, <1>5, <3>1, <3>2, InstrLine, DataLine
  <2>11. ASSUME NEW k \in Beat, k < ram_r'.beat
         PROVE  owner_adapter'.buf[k] \in readable(k)'
    <3>1. owner_adapter'.buf[k] = IF k = ram_r.beat THEN ram_r.data ELSE owner_adapter.buf[k]
      BY <2>4, <2>5, <2>10 DEF filled, read_out
    <3>2. k = ram_r.beat \/ k < ram_r.beat
      BY <1>2, <2>5, <2>6, <2>11
    <3>3. PICK x : x = owner_adapter'.buf[k]
      OBVIOUS
    <3>4. x \in readable(k)
      BY <2>7, <3>1, <3>2, <3>3
    <3> QED
      BY <1>5, <3>3, <3>4, ReadableKept
  <2> QED
    BY <2>1, <2>8, <2>9, <2>11
<1> QED
  BY <1>1, <1>3, <1>4, <1>5
-----------------------------------------------------------------------------
LEMMA LinesInit ==
  ASSUME SystemInit
  PROVE  LinesInv
<1> USE DEF SystemInit
<1>1. ZeroLine \in LineData
  BY BeatsAssumption DEF ZeroLine, LineData
<1>2. ~writing(dc) /\ dc.state = "IDLE" /\ ic.state = "IDLE"
  BY DEF writing, IdleAdapter, IdleRead
<1>3. LinesTyped
  BY <1>1, <1>2 DEF LinesTyped
<1>4. WriteUnderWay
  BY <1>2 DEF WriteUnderWay, IdleWriteChannel
<1>5. InstrReadFresh
  BY <1>2 DEF InstrReadFresh
<1>6. ReadUnderWay
  BY DEF ReadUnderWay, selected_read, IdleReadDecoder
<1> QED
  BY <1>3, <1>4, <1>5, <1>6 DEF LinesInv

LEMMA LinesStep ==
  ASSUME IInv, LinesInv, SystemNext
  PROVE  LinesInv'
<1>1. PICK ireq \in InstrRequests, dreq \in DataRequests, slip \in Slips : Clock(ireq, dreq, slip)
  BY MemorySystemAssumption DEF SystemNext, Faithful, LastBeat
<1>2. LinesTyped' /\ WriteUnderWay' /\ ReadUnderWay'
  BY <1>1, TypedStep, WriteUnderWayStep, ReadUnderWayStep
<1> QED
  BY <1>1, <1>2, InstrReadFreshStep DEF LinesInv

LEMMA LinesStutter ==
  ASSUME LinesInv, UNCHANGED systemVars
  PROVE  LinesInv'
BY DEF LinesInv, LinesTyped, WriteUnderWay, InstrReadFresh, ReadUnderWay, systemVars, axiVars,
   writing, arrived, readable, selected_read, owner_adapter

LEMMA LinesInvariant == SystemSpec => []LinesInv
<1>1. IInv /\ LinesInv /\ [SystemNext]_systemVars => LinesInv'
  BY LinesStep, LinesStutter
<1> QED
  BY LinesInit, Invariant, <1>1, PTL DEF SystemSpec
-----------------------------------------------------------------------------
(***************************************************************************)
(* The refinement: each side of a clock is a step of its port.             *)
(***************************************************************************)
LEMMA LinesTypedMemory ==
  ASSUME LinesTyped
  PROVE  mem_now \in [RamLines -> LineData]
BY DEF LinesTyped, mem_now

LEMMA LinesTypedNext ==
  ASSUME LinesTyped'
  PROVE  mem_now' \in [RamLines -> LineData]
BY DEF LinesTyped, mem_now, writing

LEMMA SameLines ==
  Memory!Beat = Beat /\ Memory!LineData = LineData /\ Memory!ZeroLine = ZeroLine
BY DEF Memory!Beat, Memory!LineData, Memory!ZeroLine, Beat, LineData, ZeroLine

LEMMA SameVisible ==
  ASSUME NEW line, NEW k \in Beat
  PROVE  Memory!Visible(line)[k] = visible(line)[k]
<1>1. Memory!Visible(line)[k] =
        IF line \notin RamLines THEN {}
        ELSE {mem_now'[line][k]} \cup {d.before[k] : d \in {e \in Access' : e.write /\ e.line = line}}
  BY SameLines DEF Memory!Visible
<1>2. visible(line)[k] =
        IF line \notin RamLines THEN {}
        ELSE {mem_now'[line][k]} \cup (IF writing(dc') /\ dc'.addr = line THEN {before'[k]} ELSE {})
  BY DEF visible
<1>3. {d.before[k] : d \in {e \in Access' : e.write /\ e.line = line}} =
        IF writing(dc') /\ dc'.addr = line THEN {before'[k]} ELSE {}
  <2>1. CASE writing(dc')
    <3>1. Access' = {[write |-> TRUE, line |-> dc'.addr, before |-> before']}
      BY <2>1 DEF Access, writing
    <3> DEFINE access == [write |-> TRUE, line |-> dc'.addr, before |-> before']
    <3>2. access.write = TRUE /\ access.line = dc'.addr /\ access.before = before'
      OBVIOUS
    <3> HIDE DEF access
    <3>3. {e \in Access' : e.write /\ e.line = line} = IF dc'.addr = line THEN {access} ELSE {}
      BY <3>1, <3>2 DEF access
    <3> QED
      BY <2>1, <3>2, <3>3
  <2>2. CASE ~writing(dc')
    <3>1. \A e \in Access' : e.write = FALSE
      BY <2>2 DEF Access, writing
    <3> QED
      BY <2>2, <3>1
  <2> QED
    BY <2>1, <2>2
<1> QED
  BY <1>1, <1>2, <1>3

LEMMA SameVisibleLine ==
  ASSUME NEW line
  PROVE  visible(line) = Memory!Visible(line)
<1>1. PICK v, w : v = visible(line) /\ w = Memory!Visible(line)
  OBVIOUS
<1>2. v = [k \in Beat |-> v[k]]
  <2>1. visible(line) = [k \in Beat |-> visible(line)[k]]
    BY DEF visible
  <2> QED
    BY <1>1, <2>1
<1>3. w = [k \in Beat |-> w[k]]
  <2>1. Memory!Visible(line) = [k \in Memory!Beat |-> Memory!Visible(line)[k]]
    BY DEF Memory!Visible
  <2> QED
    BY <1>1, <2>1, SameLines
<1>4. \A k \in Beat : v[k] = w[k]
  BY <1>1, SameVisible
<1> QED
  BY <1>1, <1>2, <1>3, <1>4

LEMMA MergeErrors ==
  ASSUME NEW a, NEW x
  PROVE  merge_resp(a, x) \in {"OKAY", "SLVERR", "DECERR"}
BY DEF merge_resp

LEMMA LineResponse ==
  ASSUME NEW a, NEW id, NEW b
  PROVE  line_resp(a, id, b).resp \in {"OKAY", "SLVERR", "DECERR"}
BY MergeErrors DEF line_resp, merged_rresp

LEMMA WriteResponse ==
  ASSUME NEW id, NEW b
  PROVE  write_resp(id, b) \in {"OKAY", "SLVERR", "DECERR"}
BY MergeErrors DEF write_resp

\* A line that is answered without an error holds only words its master may be given.
LEMMA LineReadable ==
  ASSUME IInv, LinesInv, arb.state = "R", rbeat.last, arb.araddr \in RamLines, ~slipped
  PROVE  \A k \in Beat : filled(owner_adapter, rbeat)[k] \in readable(k)
<1>1. /\ RegistersOK /\ PathsAgree /\ Routed /\ ReadCounted /\ ReadUnderWay
  BY DEF IInv, LinesInv
<1>2. LastBeat \in Nat /\ Beat = 0 .. LastBeat
  BY BeatsAssumption DEF LastBeat, Beat
<1>3. selected_read("RAM")
  BY <1>1, MemorySystemAssumption DEF RegistersOK, PathsAgree, Routed, selected_read, target_now
<1>4. ram_r.beat = ram_r.len /\ rbeat = read_out(ram_r)
  BY <1>1, <1>3, LastBeats
<1>5. /\ ram_r.len = LastBeat /\ owner_adapter.beat = ram_r.beat
  BY <1>1, <1>3, <1>4 DEF ReadCounted
<1>6. \A k \in Beat : /\ k = ram_r.beat => ram_r.data \in readable(k)
                      /\ k < ram_r.beat => owner_adapter.buf[k] \in readable(k)
  BY <1>1, <1>3 DEF ReadUnderWay
<1> SUFFICES ASSUME NEW k \in Beat
             PROVE  filled(owner_adapter, rbeat)[k] \in readable(k)
  OBVIOUS
<1>7. filled(owner_adapter, rbeat)[k] = IF k = ram_r.beat THEN ram_r.data ELSE owner_adapter.buf[k]
  BY <1>4, <1>5 DEF filled, read_out
<1>8. k = ram_r.beat \/ k < ram_r.beat
  BY <1>2, <1>4, <1>5
<1> QED
  BY <1>6, <1>7, <1>8

LEMMA InstrSide ==
  ASSUME IInv, LinesInv,
         NEW ireq \in InstrRequests, NEW dreq \in DataRequests, NEW slip, Clock(ireq, dreq, slip)
  PROVE  Memory!InstrWait \/ Memory!InstrRequest \/ Memory!InstrAnswer
<1> DEFINE port == IF ic.state = "IDLE" THEN {} ELSE {[line |-> ic.addr, seen |-> seen]}
<1>1. /\ RegistersOK /\ PathsAgree /\ Routed /\ LinesTyped
      /\ ic.state \in {"IDLE", "AR", "R"} /\ Adapters(ireq, dreq)
  BY DEF IInv, LinesInv, Clock, RegistersOK
<1>2. ic_resp' = IF r_fire("icache") /\ rbeat.last THEN {line_resp(ic, "icache", rbeat)} ELSE {}
  BY <1>1 DEF Adapters
<1>3. r_fire("icache") <=> ic.state = "R"
  BY <1>1, Handshakes DEF Id, PathsAgree, owner_adapter
<1>4. port' = IF ic'.state = "IDLE" THEN {} ELSE {[line |-> ic'.addr, seen |-> seen']}
  OBVIOUS
<1>5. CASE ic'.state # "IDLE"
  <2>1. ic_resp' = {}
    <3>1. AdapterReads(ic, ic', "icache")
      BY <1>1, IcacheStep
    <3> QED
      BY <1>2, <1>3, <1>5, <3>1 DEF AdapterReads
  <2>2. CASE ic.state = "IDLE"
    <3>1. PICK line \in Lines : ic'.addr = line /\ seen' = visible(line)
      BY <1>5, <2>2, SeenStep
    <3>2. visible(line) = Memory!Visible(line)
      BY SameVisibleLine
    <3>3. port = {} /\ port' = {[line |-> line, seen |-> Memory!Visible(line)]}
      BY <1>5, <2>2, <3>1, <3>2
    <3> QED
      BY <2>1, <3>3 DEF Memory!InstrRequest
  <2>3. CASE ic.state # "IDLE"
    <3>1. /\ ic'.addr = ic.addr
          /\ seen' = [k \in Beat |-> seen[k] \cup visible(ic.addr)[k]]
      BY <1>5, <2>3, SeenStep
    <3>2. seen' = [k \in Beat |-> seen[k] \cup Memory!Visible(ic.addr)[k]]
      BY <3>1, SameVisible
    <3> DEFINE old == [line |-> ic.addr, seen |-> seen]
    <3>3. [old EXCEPT !.seen = [k \in Beat |-> @[k] \cup Memory!Visible(old.line)[k]]] =
            [line |-> ic'.addr, seen |-> seen']
      <4>1. old.line = ic.addr /\ old.seen = seen
        OBVIOUS
      <4>2. [k \in Beat |-> old.seen[k] \cup Memory!Visible(old.line)[k]] = seen'
        BY <3>2, <4>1
      <4>3. \A a, s, t : [[line |-> a, seen |-> s] EXCEPT !.seen = t] = [line |-> a, seen |-> t]
        OBVIOUS
      <4>4. [old EXCEPT !.seen = seen'] = [line |-> ic.addr, seen |-> seen']
        BY <4>3
      <4>5. [line |-> ic.addr, seen |-> seen'] = [line |-> ic'.addr, seen |-> seen']
        BY <3>1
      <4> HIDE DEF old
      <4> QED
        BY <4>2, <4>4, <4>5
    <3>4. port = {old} /\ port' = {[line |-> ic'.addr, seen |-> seen']}
      BY <1>5, <2>3
    <3>5. port' = {[p EXCEPT !.seen = [k \in Beat |-> @[k] \cup Memory!Visible(p.line)[k]]] : p \in port}
      <4> HIDE DEF old, port
      <4>1. {[p EXCEPT !.seen = [k \in Beat |-> @[k] \cup Memory!Visible(p.line)[k]]] : p \in {old}} =
              {[old EXCEPT !.seen = [k \in Beat |-> @[k] \cup Memory!Visible(old.line)[k]]]}
        OBVIOUS
      <4> QED
        BY <3>3, <3>4, <4>1
    <3> QED
      BY <2>1, <3>5, SameLines DEF Memory!InstrWait
  <2> QED
    BY <2>2, <2>3
<1>6. CASE ic.state = "IDLE" /\ ic'.state = "IDLE"
  <2>1. port = {} /\ port' = {} /\ ic_resp' = {}
    BY <1>2, <1>3, <1>6
  <2>2. port' = {[p EXCEPT !.seen = [k \in Beat |-> @[k] \cup Memory!Visible(p.line)[k]]] : p \in port}
    BY <2>1
  <2> QED
    BY <2>1, <2>2 DEF Memory!InstrWait
<1>7. CASE ic.state # "IDLE" /\ ic'.state = "IDLE"
  <2>1. ic.state = "R" /\ rbeat.last
    BY <1>7, SeenStep
  <2>2. /\ arb.state = "R" /\ arb.owner = "icache"
        /\ owner_adapter = ic /\ arb.araddr = ic.addr
    BY <1>1, <2>1 DEF PathsAgree, owner_adapter
  <2> DEFINE r == line_resp(ic, "icache", rbeat)
             p == [line |-> ic.addr, seen |-> seen]
  <2>3. ic_resp' = {r}
    BY <1>2, <1>3, <2>1
  <2>4. r.resp # "OKAY" <=> ic.addr \notin RamLines \/ slipped
    BY <2>1, <2>2, LineAnswer
  <2>5. r.resp \in {"OKAY", "SLVERR", "DECERR"}
    BY LineResponse
  <2>6. r.resp = "OKAY" => p.line \in RamLines /\ \A k \in Beat : r.data[k] \in p.seen[k]
    <3> SUFFICES ASSUME r.resp = "OKAY"
                 PROVE  ic.addr \in RamLines /\ \A k \in Beat : r.data[k] \in seen[k]
      OBVIOUS
    <3>1. ic.addr \in RamLines /\ ~slipped
      BY <2>4
    <3>2. \A k \in Beat : filled(ic, rbeat)[k] \in readable(k)
      BY <2>1, <2>2, <3>1, LineReadable
    <3>3. r.data = filled(ic, rbeat)
      BY DEF line_resp
    <3> QED
      BY <2>2, <3>1, <3>2, <3>3 DEF readable
  <2>7. r.resp # "OKAY" => r.resp \in Memory!Errors /\ Memory!MayFail(p.line)
    <3>1. r.resp # "OKAY" => p.line \notin RamLines \/ slipped
      BY <2>4
    <3> QED
      BY <1>1, <2>5, <3>1 DEF LinesTyped, Memory!Errors, Memory!MayFail
  <2>8. p \in port /\ port' = {}
    BY <1>7
  <2> HIDE DEF r, p
  <2> QED
    BY <2>3, <2>6, <2>7, <2>8, SameLines DEF Memory!InstrAnswer
<1> QED
  BY <1>5, <1>6, <1>7

LEMMA DataSide ==
  ASSUME IInv, LinesInv, LinesTyped',
         NEW ireq \in InstrRequests, NEW dreq \in DataRequests, NEW slip, Clock(ireq, dreq, slip)
  PROVE  Memory!DataWait \/ Memory!ReadRequest \/ Memory!WriteRequest \/ Memory!DataAnswer
<1>1. /\ RegistersOK /\ PathsAgree /\ Routed /\ LinesTyped /\ WriteUnderWay
      /\ dc.state \in {"IDLE", "AR", "R", "AW", "W", "B"}
      /\ Adapters(ireq, dreq) /\ Slaves(slip)
  BY DEF IInv, LinesInv, Clock, RegistersOK
<1>2. dc_resp' =
        IF r_fire("dcache") /\ rbeat.last
        THEN LET r == line_resp(dc, "dcache", rbeat)
             IN {[write |-> FALSE, resp |-> r.resp, data |-> r.data]}
        ELSE IF b_fire
        THEN {[write |-> TRUE, resp |-> write_resp("dcache", bresp), data |-> ZeroLine]}
        ELSE {}
  BY <1>1 DEF Adapters
<1>3. (r_fire("dcache") <=> dc.state = "R") /\ (b_fire <=> dc.state = "B")
  BY <1>1, Handshakes DEF Id, PathsAgree, owner_adapter
<1>4. AdapterReads(dc, dc', "dcache") /\ AdapterWrites(dc, dc')
  BY <1>1, DcacheStep
<1>5. /\ mem_now \in [RamLines -> LineData] /\ mem_now' \in [RamLines -> LineData]
      /\ ram \in [RamLines -> LineData]
  BY <1>1, LinesTypedMemory, LinesTypedNext DEF LinesTyped
\* Outside of a write request the memory stays as it is.
<1>6. ASSUME writing(dc) \/ ~writing(dc')
      PROVE  mem_now' = mem_now
  <2> SUFFICES ASSUME NEW l \in RamLines
               PROVE  mem_now'[l] = mem_now[l]
    BY <1>5
  <2>1. /\ mem_now[l] = IF writing(dc) /\ dc.addr = l THEN dc.write_buf ELSE ram[l]
        /\ mem_now'[l] = IF writing(dc') /\ dc'.addr = l THEN dc'.write_buf ELSE ram'[l]
    BY DEF mem_now, writing
  <2>2. CASE ~writing(dc)
    <3>1. ram' = ram
      BY <1>1, <2>2, RamStep DEF writing
    <3> QED
      BY <1>6, <2>1, <2>2, <3>1
  <2>3. CASE writing(dc) /\ writing(dc')
    <3>1. dc'.addr = dc.addr /\ dc'.write_buf = dc.write_buf
      BY <2>3, AccessStep
    <3>2. dc.addr # l => ram'[l] = ram[l]
      BY <1>1, <1>5, RamStep
    <3> QED
      BY <2>1, <2>3, <3>1, <3>2
  <2>4. CASE writing(dc) /\ ~writing(dc')
    <3>1. dc.state = "B"
      BY <2>4, AccessStep
    <3>2. ram' = ram
      BY <1>1, <3>1, RamStep
    <3>3. ASSUME dc.addr = l
          PROVE  ram[l] = dc.write_buf
      <4>1. dc.write_buf \in LineData /\ ram[l] \in LineData
        BY <1>1, <1>5, <2>4 DEF LinesTyped
      <4>2. \A k \in Beat : ram[l][k] = dc.write_buf[k]
        BY <1>1, <2>4, <3>1, <3>3 DEF WriteUnderWay, arrived
      <4> QED
        BY <4>1, <4>2 DEF LineData
    <3> QED
      BY <2>1, <2>4, <3>2, <3>3
  <2> QED
    BY <2>2, <2>3, <2>4
<1>7. CASE dc.state = "IDLE"
  <2>1. dc_resp' = {} /\ Access = {}
    BY <1>2, <1>3, <1>7 DEF Access, writing
  <2>2. CASE dc'.state = "IDLE"
    <3>1. Access' = {} /\ mem_now' = mem_now
      BY <1>6, <2>2 DEF Access, writing
    <3> QED
      BY <2>1, <3>1 DEF Memory!DataWait
  <2>3. CASE dc'.state = "AR"
    <3>1. mem_now' = mem_now /\ dc'.addr \in Lines
      BY <1>6, <1>7, <2>3, AccessStep DEF writing
    <3>2. Access' = {[write |-> FALSE, line |-> dc'.addr, before |-> ZeroLine]}
      BY <2>3 DEF Access, writing
    <3> QED
      BY <2>1, <3>1, <3>2, SameLines DEF Memory!ReadRequest
  <2>4. CASE dc'.state = "AW"
    <3>1. /\ dc'.addr \in Lines
          /\ before' = IF dc'.addr \in RamLines THEN ram[dc'.addr] ELSE ZeroLine
      BY <1>7, <2>4, AccessStep DEF writing
    <3>2. ram' = ram
      BY <1>1, <1>7, RamStep
    <3>3. mem_now = ram
      <4>1. \A l \in RamLines : mem_now[l] = ram[l]
        BY <1>7 DEF mem_now, writing
      <4> QED
        BY <1>5, <4>1
    <3>4. \A l \in RamLines : l # dc'.addr => mem_now'[l] = mem_now[l]
      BY <3>2, <3>3 DEF mem_now
    <3>5. mem_now' = [mem_now EXCEPT ![dc'.addr] = mem_now'[dc'.addr]]
      BY <1>5, <3>4
    <3>6. Access' = {[write |-> TRUE, line |-> dc'.addr,
                      before |-> IF dc'.addr \in RamLines THEN mem_now[dc'.addr] ELSE ZeroLine]}
      BY <2>4, <3>1, <3>3 DEF Access, writing
    <3> QED
      BY <2>1, <3>1, <3>5, <3>6, SameLines DEF Memory!WriteRequest
  <2> QED
    BY <1>7, <2>2, <2>3, <2>4, AccessStep
<1>8. CASE dc.state # "IDLE" /\ dc'.state # "IDLE"
  <2>1. dc_resp' = {}
    BY <1>2, <1>3, <1>4, <1>8 DEF AdapterReads, AdapterWrites
  <2>2. CASE writing(dc)
    <3>1. writing(dc')
      BY <1>8, <2>2, AccessStep
    <3>2. dc'.addr = dc.addr /\ before' = before
      BY <2>2, <3>1, AccessStep
    <3>3. Access' = Access
      BY <2>2, <3>1, <3>2 DEF Access, writing
    <3> QED
      BY <1>6, <2>1, <2>2, <3>3 DEF Memory!DataWait
  <2>3. CASE ~writing(dc)
    <3>1. dc.state \in {"AR", "R"} /\ dc'.state \in {"AR", "R"} /\ dc'.addr = dc.addr
      BY <1>1, <1>8, <2>3, AccessStep DEF writing
    <3>2. ~writing(dc') /\ Access' = Access
      BY <3>1 DEF Access, writing
    <3> QED
      BY <1>6, <2>1, <3>2 DEF Memory!DataWait
  <2> QED
    BY <2>2, <2>3
<1>9. CASE dc.state # "IDLE" /\ dc'.state = "IDLE"
  <2>1. Access' = {} /\ mem_now' = mem_now
    BY <1>6, <1>9 DEF Access, writing
  <2>2. CASE dc.state = "R" /\ rbeat.last
    <3> DEFINE a == line_resp(dc, "dcache", rbeat)
               r == [write |-> FALSE, resp |-> a.resp, data |-> a.data]
               p == [write |-> FALSE, line |-> dc.addr, before |-> ZeroLine]
    <3>1. Access = {p} /\ p.write = FALSE /\ p.line = dc.addr
      BY <2>2 DEF Access, writing
    <3>2. dc_resp' = {r} /\ r.write = FALSE /\ r.resp = a.resp /\ r.data = filled(dc, rbeat)
      BY <1>2, <1>3, <2>2 DEF line_resp
    <3>3. /\ arb.state = "R" /\ arb.owner = "dcache"
          /\ owner_adapter = dc /\ arb.araddr = dc.addr
      BY <1>1, <2>2 DEF PathsAgree, owner_adapter
    <3>4. a.resp # "OKAY" <=> dc.addr \notin RamLines \/ slipped
      BY <2>2, <3>3, LineAnswer
    <3>5. a.resp \in {"OKAY", "SLVERR", "DECERR"}
      BY LineResponse
    <3>6. r.resp # "OKAY" => r.resp \in Memory!Errors /\ (p.line \notin RamLines \/ Slips # {Faithful})
      BY <1>1, <3>1, <3>2, <3>4, <3>5 DEF LinesTyped, Memory!Errors
    <3>7. ASSUME r.resp = "OKAY"
          PROVE  p.line \in RamLines /\ r.data = mem_now[p.line]
      <4>1. dc.addr \in RamLines /\ ~slipped
        BY <3>2, <3>4, <3>7
      <4>2. \A k \in Beat : filled(dc, rbeat)[k] \in readable(k)
        BY <2>2, <3>3, <4>1, LineReadable
      <4>3. \A k \in Beat : filled(dc, rbeat)[k] = ram[dc.addr][k]
        BY <3>3, <4>2 DEF readable
      <4>4. ram[dc.addr] \in LineData
        BY <1>5, <4>1
      <4>5. filled(dc, rbeat) = ram[dc.addr]
        BY <4>3, <4>4 DEF filled, LineData
      <4>6. mem_now[dc.addr] = ram[dc.addr]
        BY <2>2, <4>1 DEF mem_now, writing
      <4> QED
        BY <3>1, <3>2, <4>1, <4>5, <4>6
    <3> HIDE DEF a, r, p
    <3> QED
      BY <2>1, <3>1, <3>2, <3>6, <3>7 DEF Memory!DataAnswer
  <2>3. CASE dc.state = "B"
    <3> DEFINE r == [write |-> TRUE, resp |-> write_resp("dcache", bresp), data |-> ZeroLine]
               p == [write |-> TRUE, line |-> dc.addr, before |-> before]
    <3>1. Access = {p} /\ p.write = TRUE /\ p.line = dc.addr
      BY <2>3 DEF Access, writing
    <3>2. dc_resp' = {r} /\ r.write = TRUE /\ r.resp = write_resp("dcache", bresp)
      BY <1>2, <1>3, <2>3
    <3>3. r.resp # "OKAY" <=> p.line \notin RamLines
      BY <2>3, <3>1, <3>2, WriteAnswer
    <3>4. r.resp \in {"OKAY", "SLVERR", "DECERR"}
      BY <3>2, WriteResponse
    <3>5. r.resp # "OKAY" => r.resp \in Memory!Errors
      BY <3>4 DEF Memory!Errors
    <3> HIDE DEF r, p
    <3> QED
      BY <2>1, <3>1, <3>2, <3>3, <3>5 DEF Memory!DataAnswer
  <2> QED
    BY <1>9, <2>2, <2>3, AccessStep
<1> QED
  BY <1>7, <1>8, <1>9
-----------------------------------------------------------------------------
(***************************************************************************)
(* Adapters, arbiter, decoder and slaves together are the line memory the  *)
(* caches count on, for every line length, address map and slip: an answer *)
(* without an error is the line, whole and in order (the refinement of     *)
(* LineMemory by cache_axi_memory_system.v).                               *)
(***************************************************************************)
THEOREM MemoryIsLines == SystemSpec => ImplementsLineMemory
<1>1. SystemInit => Memory!LineInit
  <2> SUFFICES ASSUME SystemInit
               PROVE  Memory!LineInit
    OBVIOUS
  <2>1. mem_now \in [RamLines -> LineData]
    BY LinesInit, LinesTypedMemory DEF LinesInv
  <2>2. ic.state = "IDLE" /\ dc.state = "IDLE" /\ ic_resp = {} /\ dc_resp = {}
    BY DEF SystemInit, IdleRead, IdleAdapter
  <2>3. Access = {}
    BY <2>2 DEF Access, writing
  <2> QED
    BY <2>1, <2>2, <2>3, SameLines DEF Memory!LineInit
<1>2. IInv /\ LinesInv /\ LinesInv' /\ [SystemNext]_systemVars => [Memory!LineNext]_(Memory!lineVars)
  <2>1. ASSUME IInv, LinesInv, LinesInv', SystemNext
        PROVE  Memory!LineNext
    <3>1. PICK ireq \in InstrRequests, dreq \in DataRequests, slip \in Slips : Clock(ireq, dreq, slip)
      BY <2>1, MemorySystemAssumption DEF SystemNext, Faithful, LastBeat
    <3>2. LinesTyped'
      BY <2>1 DEF LinesInv
    <3> QED
      BY <2>1, <3>1, <3>2, InstrSide, DataSide DEF Memory!LineNext
  <2>2. ASSUME UNCHANGED systemVars
        PROVE  UNCHANGED Memory!lineVars
    BY <2>2 DEF Memory!lineVars, systemVars, axiVars, mem_now, Access, writing
  <2> QED
    BY <2>1, <2>2
<1> QED
  BY <1>1, <1>2, Invariant, LinesInvariant, PTL DEF SystemSpec, ImplementsLineMemory, Memory!LineSpec
-----------------------------------------------------------------------------
(***************************************************************************)
(* The fault report of the top level, for every memory side below it.      *)
(***************************************************************************)
\* No fault is reported before the cycle after the first one.
LEMMA FaultStep ==
  ASSUME FirstFaultKept, NEW ireq, NEW dreq, Faults(ireq, dreq)
  PROVE  FirstFaultKept'
<1> DEFINE fresh == [ic |-> ic_faults, dc |-> dc_faults]
<1>1. /\ ic_fault' = ic_faults /\ dc_fault' = dc_faults
      /\ bus_fault' = bus_fault_next
      /\ first' = IF first # NoFaults THEN first ELSE fresh
  BY DEF Faults
<1>2. CASE bus_fault # {}
  <2>1. bus_fault' = bus_fault
    BY <1>1, <1>2 DEF bus_fault_next
  <2>2. bus_fault = IF first.dc # {} THEN first.dc ELSE first.ic
    BY <1>2 DEF FirstFaultKept
  <2>3. first # NoFaults
    BY <1>2, <2>2 DEF NoFaults
  <2> QED
    BY <1>1, <1>2, <2>1, <2>2, <2>3 DEF FirstFaultKept
<1>3. CASE bus_fault = {} /\ first = NoFaults
  <2>1. ic_fault = {} /\ dc_fault = {}
    BY <1>3 DEF FirstFaultKept, NoFaults
  <2>2. bus_fault' = {}
    BY <1>1, <1>3, <2>1 DEF bus_fault_next
  <2> QED
    BY <1>1, <1>3, <2>2 DEF FirstFaultKept
<1>4. CASE bus_fault = {} /\ first # NoFaults
  <2>1. first = [ic |-> ic_fault, dc |-> dc_fault]
    BY <1>4 DEF FirstFaultKept
  <2>2. first.ic = ic_fault /\ first.dc = dc_fault
    BY <2>1
  <2>3. ic_fault # {} \/ dc_fault # {}
    BY <1>4, <2>1 DEF NoFaults
  <2>4. bus_fault' = IF first.dc # {} THEN first.dc ELSE first.ic
    BY <1>1, <1>4, <2>2 DEF bus_fault_next
  <2> QED
    BY <1>1, <1>4, <2>2, <2>3, <2>4 DEF FirstFaultKept
<1> QED
  BY <1>2, <1>3, <1>4

(***************************************************************************)
(* The reported fault is the first one answered to either cache.           *)
(***************************************************************************)
THEOREM FirstFaultReported == TopSpec => []FirstFaultKept
<1>1. TopInit => FirstFaultKept
  BY DEF TopInit, FirstFaultKept, NoFaults
<1>2. FirstFaultKept /\ [TopNext]_topVars => FirstFaultKept'
  <2>1. ASSUME FirstFaultKept, TopNext PROVE FirstFaultKept'
    BY <2>1, FaultStep DEF TopNext
  <2>2. ASSUME FirstFaultKept, UNCHANGED topVars PROVE FirstFaultKept'
    BY <2>2 DEF FirstFaultKept, topVars, faultVars
  <2> QED
    BY <2>1, <2>2
<1> QED
  BY <1>1, <1>2, PTL DEF TopSpec
=============================================================================

---------------------------- MODULE AxiAdapters -----------------------------
(***************************************************************************)
(* From a line request of a cache to an AXI burst                          *)
(* (src/dut/axi/icache_axi_adapter.v, src/dut/axi/dcache_axi_adapter.v).   *)
(* An adapter is a record of its registers; each operator is what one      *)
(* handshake does to them.  The slave is not trusted: a burst that ends    *)
(* early or late, or comes back with another id, is answered with an       *)
(* error.                                                                  *)
(***************************************************************************)
EXTENDS AxiDefs

(***************************************************************************)
(* Line reads: the adapter of the instruction cache, and the read half of  *)
(* the data cache's, which is the same over again.                         *)
(***************************************************************************)
IdleRead == [state |-> "IDLE", addr |-> 0, buf |-> ZeroLine, beat |-> 0, resp |-> "OKAY"]

\* A line request in ST_IDLE.
take_read(a, line) ==
  [a EXCEPT !.state = "AR", !.addr = line, !.buf = ZeroLine, !.beat = 0, !.resp = "OKAY"]

\* The address handshake.
read_address_taken(a) == [a EXCEPT !.state = "R", !.beat = 0, !.resp = "OKAY"]

rid_checked_resp(id, b) == IF b.id = id THEN b.resp ELSE "SLVERR"
merged_rresp(a, id, b) == merge_resp(a.resp, rid_checked_resp(id, b))
expected_last(a) == a.beat = LINE_BEATS - 1
filled(a, b) == [k \in Beat |-> IF k = a.beat THEN b.data ELSE a.buf[k]]

\* Mutant of read_beat: the adapter counts beats and does not wait for RLAST.
read_beat_counted(a, id, b) ==
  IF expected_last(a)
  THEN [a EXCEPT !.buf = filled(a, b), !.state = "IDLE", !.beat = 0, !.resp = "OKAY"]
  ELSE [a EXCEPT !.buf = filled(a, b), !.beat = (a.beat + 1) % COUNT,
                 !.resp = merged_rresp(a, id, b)]

\* One beat b in ST_R: {id, data, resp, last}.  The counter wraps in a burst
\* that does not end.
read_beat(a, id, b) ==
  IF b.last
  THEN [a EXCEPT !.buf = filled(a, b), !.state = "IDLE", !.beat = 0, !.resp = "OKAY"]
  ELSE [a EXCEPT !.buf = filled(a, b), !.beat = (a.beat + 1) % COUNT,
                 !.resp = IF expected_last(a) THEN "SLVERR" ELSE merged_rresp(a, id, b)]

\* Mutant of line_resp: a burst that ends early or late is taken as it comes.
line_resp_trusting(a, id, b) == [resp |-> merged_rresp(a, id, b), data |-> filled(a, b)]

\* The answer registered with the last beat.
line_resp(a, id, b) ==
  [resp |-> IF expected_last(a) THEN merged_rresp(a, id, b) ELSE "SLVERR",
   data |-> filled(a, b)]
-----------------------------------------------------------------------------
(***************************************************************************)
(* Line writes: the other half of the data cache's adapter, which works on *)
(* one line read or one line write at a time.                              *)
(***************************************************************************)
IdleAdapter == [state |-> "IDLE", addr |-> 0, buf |-> ZeroLine, beat |-> 0, resp |-> "OKAY",
                write_buf |-> ZeroLine]

\* A line write in ST_IDLE.
take_write(a, line, data) ==
  [a EXCEPT !.state = "AW", !.addr = line, !.write_buf = data, !.beat = 0]

write_address_taken(a) == [a EXCEPT !.state = "W", !.beat = 0]

wdata(a) == a.write_buf[a.beat]
wlast(a) == a.beat = LINE_BEATS - 1

\* One beat in ST_W.
write_beat(a) ==
  IF wlast(a) THEN [a EXCEPT !.state = "B", !.beat = 0]
  ELSE [a EXCEPT !.beat = (a.beat + 1) % COUNT]

\* The response handshake.
write_done(a) == [a EXCEPT !.state = "IDLE"]
write_resp(id, b) == IF b.id = id THEN merge_resp("OKAY", b.resp) ELSE "SLVERR"
=============================================================================

------------------------------ MODULE AxiSlaves ------------------------------
(***************************************************************************)
(* The slaves: the RAM (src/dut/mem/axi_ram_slave.v) and the slave that    *)
(* refuses everything behind the MMIO window (axi_error_slave.v).  A read  *)
(* channel and a write channel are records of their registers; both serve  *)
(* one burst at a time and never make a master wait for a beat.            *)
(***************************************************************************)
EXTENDS AxiDefs

CONSTANT RAM_LINES      \* MEM_BYTES in lines

ASSUME RamAssumption == RAM_LINES \in Nat \ {0}

RamLines == 0 .. RAM_LINES - 1
request_valid(line) == line \in RamLines

\* Words past the end of a line are those of the next one; what lies past the
\* end of the array is never looked at.
read_data(ram, line, beat) ==
  LET l == line + beat \div LINE_BEATS
  IN IF l \in RamLines THEN ram[l][beat % LINE_BEATS] ELSE 0

IdleReadChannel == [active |-> FALSE, error |-> FALSE, id |-> "icache", addr |-> 0,
                    len |-> 0, beat |-> 0, data |-> 0]

read_taken(ram, id, line, len) ==
  [active |-> TRUE, error |-> ~request_valid(line), id |-> id, addr |-> line,
   len |-> len, beat |-> 0,
   data |-> IF request_valid(line) THEN read_data(ram, line, 0) ELSE 0]

rlast(ch) == ch.active /\ ch.beat = ch.len
read_out(ch) == [id |-> ch.id, data |-> ch.data, last |-> rlast(ch),
                 resp |-> IF ch.error THEN "SLVERR" ELSE "OKAY"]

\* Mutant of read_next: the word before the next one.
read_next_late(ch, ram) ==
  IF rlast(ch) THEN [ch EXCEPT !.active = FALSE, !.beat = 0]
  ELSE [ch EXCEPT !.beat = @ + 1,
                  !.data = IF ch.error THEN 0 ELSE read_data(ram, ch.addr, ch.beat)]

\* A beat is taken: the next word is fetched, from memory as it is now.
read_next(ch, ram) ==
  IF rlast(ch) THEN [ch EXCEPT !.active = FALSE, !.beat = 0]
  ELSE [ch EXCEPT !.beat = @ + 1,
                  !.data = IF ch.error THEN 0 ELSE read_data(ram, ch.addr, ch.beat + 1)]
-----------------------------------------------------------------------------
IdleWriteChannel == [active |-> FALSE, resp_valid |-> FALSE, request_error |-> FALSE,
                     protocol_error |-> FALSE, id |-> "dcache", addr |-> 0, len |-> 0,
                     beat |-> 0, resp |-> "OKAY"]

awready(ch) == ~ch.active /\ ~ch.resp_valid

write_taken(ch, id, line, len) ==
  [ch EXCEPT !.active = TRUE, !.request_error = ~request_valid(line),
             !.protocol_error = FALSE, !.id = id, !.addr = line, !.len = len,
             !.beat = 0, !.resp = "OKAY"]

write_last_mismatch(ch, last) == last # (ch.beat = ch.len)

write_next(ch, last) ==
  LET bad == ch.protocol_error \/ write_last_mismatch(ch, last)
  IN IF last
     THEN [ch EXCEPT !.active = FALSE, !.resp_valid = TRUE, !.beat = 0,
                     !.protocol_error = bad,
                     !.resp = IF ch.request_error \/ bad THEN "SLVERR" ELSE "OKAY"]
     ELSE [ch EXCEPT !.protocol_error = bad, !.beat = IF @ < COUNT THEN @ + 1 ELSE @]

\* The word of a beat goes to memory, unless the request was bad.
ram_written(ram, ch, data) ==
  IF ~ch.request_error /\ ch.beat <= ch.len
  THEN [ram EXCEPT ![ch.addr][ch.beat] = data]
  ELSE ram

write_resp_taken(ch) == [ch EXCEPT !.resp_valid = FALSE]
-----------------------------------------------------------------------------
\* The error slave counts beats the same way and looks at nothing else.
ErrorReadChannel == [active |-> FALSE, id |-> "icache", len |-> 0, beat |-> 0]
error_read_taken(id, len) == [active |-> TRUE, id |-> id, len |-> len, beat |-> 0]
error_read_out(ch) == [id |-> ch.id, data |-> 0, last |-> rlast(ch), resp |-> "DECERR"]
error_read_next(ch) ==
  IF rlast(ch) THEN [ch EXCEPT !.active = FALSE, !.beat = 0]
  ELSE [ch EXCEPT !.beat = @ + 1]

\* Its write length and beat registers drive nothing.
ErrorWriteChannel == [active |-> FALSE, resp_valid |-> FALSE, id |-> "dcache"]
error_write_taken(id) == [active |-> TRUE, resp_valid |-> FALSE, id |-> id]
error_write_next(ch, last) ==
  IF last THEN [ch EXCEPT !.active = FALSE, !.resp_valid = TRUE] ELSE ch
=============================================================================

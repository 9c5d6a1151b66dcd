---------------------------- MODULE SparseMemory ----------------------------
(***************************************************************************)
(* class memory of src/C_model/state.cpp: a std::map from byte addresses   *)
(* to bytes, modelled as a function whose DOMAIN is the set of addresses   *)
(* ever written.  A word has four bytes of XLEN / 4 bits, little end       *)
(* first, and addresses wrap at 2^XLEN.                                    *)
(***************************************************************************)
EXTENDS MachineWord, Sequences

CONSTANTS
  NOP,         \* the word of addi x0, x0, 0 (0x00000013)
  Unreadable   \* a token of an image file that is not a hexadecimal word

ASSUME NopAssumption == NOP \in 0 .. 2^(XLEN \div 4) - 1

BYTE == XLEN \div 4
plus(a, k) == word(a + k)

byte(data, k) == (data \div 2^(BYTE * k)) % 2^BYTE

clear == [a \in {} |-> 0]

\* write8, write16 and write32: n = 1, 2, 4.
write(mem, addr, data, n) ==
  LET written == {plus(addr, k) : k \in 0 .. n - 1}
  IN [a \in DOMAIN mem \cup written |->
        IF a \in written THEN byte(data, word(a - addr)) ELSE mem[a]]

\* A byte never written reads as that byte of a nop word, or peeks as zero.
read8(mem, a) == IF a \in DOMAIN mem THEN mem[a]
                 ELSE IF a % 4 = 0 THEN NOP ELSE 0
peek8(mem, a) == IF a \in DOMAIN mem THEN mem[a] ELSE 0

fromBytes(b) == MapThenSumSet(LAMBDA k : b[k] * 2^(BYTE * k), 0 .. 3)
read32(mem, addr) == fromBytes([k \in 0 .. 3 |-> read8(mem, plus(addr, k))])
peek32(mem, addr) == fromBytes([k \in 0 .. 3 |-> peek8(mem, plus(addr, k))])

has_word(mem, addr) == \A k \in 0 .. 3 : plus(addr, k) \in DOMAIN mem

\* The words of an image up to the first token that does not parse, stored
\* from address 0; what follows that token is silently dropped.
parsed(image) ==
  Max({n \in 0 .. Len(image) : \A i \in 1 .. n : image[i] # Unreadable})
load_image(image) ==
  [a \in 0 .. 4 * parsed(image) - 1 |-> byte(image[a \div 4 + 1], a % 4)]
=============================================================================

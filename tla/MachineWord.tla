----------------------------- MODULE MachineWord -----------------------------
(***************************************************************************)
(* Unsigned machine words and the C++ operators that src/C_model/model.cpp *)
(* applies to them, for words of XLEN bits (uint32_t: XLEN = 32).  A word  *)
(* is a number of 0 .. 2^XLEN - 1; signed(v) is its int32_t reading.       *)
(***************************************************************************)
EXTENDS Integers, FiniteSetsExt

CONSTANT XLEN

ASSUME XlenAssumption == XLEN \in Nat /\ XLEN >= 4 /\ XLEN % 4 = 0

Word == 0 .. 2^XLEN - 1
AllOnes == 2^XLEN - 1
SignBit == 2^(XLEN - 1)
word(z) == z % 2^XLEN                 \* what storing z in a uint32_t keeps
signed(v) == IF v >= SignBit THEN v - 2^XLEN ELSE v
sign_extend(v, width) == word(IF v >= 2^(width - 1) THEN v - 2^width ELSE v)
flag(b) == IF b THEN 1 ELSE 0

bits(v) == {i \in 0 .. XLEN - 1 : (v \div 2^i) % 2 = 1}
ofBits(B) == MapThenSumSet(LAMBDA i : 2^i, B)
xor(a, b) == ofBits((bits(a) \ bits(b)) \cup (bits(b) \ bits(a)))
or(a, b) == ofBits(bits(a) \cup bits(b))
and(a, b) == ofBits(bits(a) \cap bits(b))

\* C++ division truncates towards zero; the remainder has the dividend's sign.
magnitude(z) == IF z < 0 THEN -z ELSE z
quotient(x, y) == LET q == magnitude(x) \div magnitude(y)
                  IN IF (x < 0) = (y < 0) THEN q ELSE -q
remainder(x, y) == x - y * quotient(x, y)

div_signed(lhs, rhs) ==
  CASE rhs = 0 -> AllOnes
    [] lhs = SignBit /\ rhs = AllOnes -> SignBit
    [] OTHER -> word(quotient(signed(lhs), signed(rhs)))

rem_signed(lhs, rhs) ==
  CASE rhs = 0 -> lhs
    [] lhs = SignBit /\ rhs = AllOnes -> 0
    [] OTHER -> word(remainder(signed(lhs), signed(rhs)))

div_unsigned(lhs, rhs) == IF rhs = 0 THEN AllOnes ELSE lhs \div rhs
rem_unsigned(lhs, rhs) == IF rhs = 0 THEN lhs ELSE lhs % rhs

\* The upper word of a 64-bit product.
high(z) == (z % (2^XLEN * 2^XLEN)) \div 2^XLEN

\* Mutant of mulhsu: both operands are read as signed.
mulhsu_signed(v1, v2) == high(signed(v1) * signed(v2))

mulh(v1, v2) == high(signed(v1) * signed(v2))
mulhsu(v1, v2) == high(signed(v1) * v2)
mulhu(v1, v2) == high(v1 * v2)

shl(v, s) == word(v * 2^s)
shr(v, s) == v \div 2^s
sar(v, s) == word(signed(v) \div 2^s)
=============================================================================

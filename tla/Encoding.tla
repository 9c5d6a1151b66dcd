------------------------------ MODULE Encoding -------------------------------
(***************************************************************************)
(* The bit layout of an instruction word, read three times: by the         *)
(* reference model with shifts and masks (mycore::step), by the decoder    *)
(* with concatenations (decoder.v), and written by the assembler of the    *)
(* model's own tests (tests.cpp).  An instruction is its opcode and the    *)
(* set `ones' of the other bit positions that are 1; a step of the         *)
(* specification sets one more bit.                                        *)
(***************************************************************************)
EXTENDS Integers, FiniteSets, FiniteSetsExt

CONSTANTS
  Formats,    \* immediate formats under test
  MaxOnes     \* bound: bits set outside the opcode

ASSUME EncodingAssumption ==
  /\ Formats \subseteq {"I", "S", "B", "U", "J"}
  /\ MaxOnes \in 0 .. 25

VARIABLES format, ones

encodingVars == <<format, ones>>

field(B, hi, lo) == MapThenSumSet(LAMBDA i : 2^(i - lo), B \cap lo .. hi)
extended(v, width) == IF v >= 2^(width - 1) THEN v - 2^width ELSE v
-----------------------------------------------------------------------------
\* mycore::step: fields shifted into place, then sign-extended.
imm_i(B) == extended(field(B, 31, 20), 12)
imm_s(B) == extended(field(B, 31, 25) * 2^5 + field(B, 11, 7), 12)

\* Mutant of imm_b: bits 11 and 12 of a branch displacement are swapped.
imm_b_swapped(B) == extended(field(B, 7, 7) * 2^12 + field(B, 31, 31) * 2^11
                                  + field(B, 30, 25) * 2^5 + field(B, 11, 8) * 2, 13)

imm_b(B) == extended(field(B, 31, 31) * 2^12 + field(B, 7, 7) * 2^11
                          + field(B, 30, 25) * 2^5 + field(B, 11, 8) * 2, 13)
imm_j(B) == extended(field(B, 31, 31) * 2^20 + field(B, 19, 12) * 2^12
                          + field(B, 20, 20) * 2^11 + field(B, 30, 21) * 2, 21)
imm_u(B) == extended(field(B, 31, 12), 20) * 2^12

step_imm(fmt, B) ==
  CASE fmt = "I" -> imm_i(B)
    [] fmt = "S" -> imm_s(B)
    [] fmt = "B" -> imm_b(B)
    [] fmt = "J" -> imm_j(B)
    [] fmt = "U" -> imm_u(B)

step_fields(B) ==
  [rd |-> field(B, 11, 7), funct3 |-> field(B, 14, 12), rs1 |-> field(B, 19, 15),
   rs2 |-> field(B, 24, 20), funct7 |-> field(B, 31, 25)]
-----------------------------------------------------------------------------
\* decoder.v: bit k of the immediate is bit wire(fmt, k) of the instruction,
\* or the constant 0 (Ground).
Ground == -1

\* Mutant of wire: the low part of a store offset is taken one bit too high.
wire_store_off(fmt, k) ==
  CASE fmt = "S" -> IF k >= 12 THEN 31 ELSE IF k >= 5 THEN k + 20 ELSE k + 8
    [] OTHER -> 31

wire(fmt, k) ==
  CASE fmt = "I" -> IF k >= 12 THEN 31 ELSE k + 20
    [] fmt = "S" -> IF k >= 12 THEN 31 ELSE IF k >= 5 THEN k + 20 ELSE k + 7
    [] fmt = "B" -> IF k >= 12 THEN 31 ELSE IF k = 11 THEN 7
                    ELSE IF k >= 5 THEN k + 20 ELSE IF k >= 1 THEN k + 7 ELSE Ground
    [] fmt = "J" -> IF k >= 20 THEN 31 ELSE IF k >= 12 THEN k
                    ELSE IF k = 11 THEN 20 ELSE IF k >= 1 THEN k + 20 ELSE Ground
    [] fmt = "U" -> IF k >= 12 THEN k ELSE Ground

decoder_imm(fmt, B) == {k \in 0 .. 31 : wire(fmt, k) \in B}

\* Two's complement: bit 31 weighs -2^31.
signed_value(K) == field(K, 30, 0) + (IF 31 \in K THEN -2147483647 - 1 ELSE 0)
-----------------------------------------------------------------------------
\* tests.cpp: the bits that encode_i, encode_s, encode_b, encode_u and encode_j
\* set for an immediate, as `from' bits of it shifted to `to'.
placed(K, from, to, n) == {i - from + to : i \in K \cap from .. from + n - 1}
encode(fmt, K) ==
  CASE fmt = "I" -> placed(K, 0, 20, 12)
    [] fmt = "S" -> placed(K, 5, 25, 7) \cup placed(K, 0, 7, 5)
    [] fmt = "B" -> placed(K, 12, 31, 1) \cup placed(K, 5, 25, 6)
                      \cup placed(K, 1, 8, 4) \cup placed(K, 11, 7, 1)
    [] fmt = "U" -> placed(K, 12, 12, 20)
    [] fmt = "J" -> placed(K, 20, 31, 1) \cup placed(K, 1, 21, 10)
                      \cup placed(K, 11, 20, 1) \cup placed(K, 12, 12, 8)

\* Positions of the immediate in each format; the rest of the word holds
\* registers and function codes.
ImmBits(fmt) == encode(fmt, 0 .. 31)
-----------------------------------------------------------------------------
EncodingInit == format \in Formats /\ ones = {}

SetBit == \E i \in 7 .. 31 \ ones :
            /\ Cardinality(ones) < MaxOnes
            /\ ones' = ones \cup {i}
            /\ UNCHANGED format

EncodingSpec == EncodingInit /\ [][SetBit]_encodingVars
-----------------------------------------------------------------------------
(***************************************************************************)
(* The decoder and the reference model read the same immediate in every    *)
(* instruction word, sign included.                                        *)
(***************************************************************************)
ImmediatesAgree == signed_value(decoder_imm(format, ones)) = step_imm(format, ones)

(***************************************************************************)
(* Assembling the immediate that was read gives back the bits it was read  *)
(* from, and no bit is both immediate and destination, source or function  *)
(* code: the assembler of the tests and the two readers share one layout.  *)
(***************************************************************************)
AssembledBack ==
  LET imm == decoder_imm(format, ones)
      other == step_fields(ones \ ImmBits(format))
      whole == step_fields(ones)
  IN /\ encode(format, imm) = ones \cap ImmBits(format)
     /\ format \in {"I", "U", "J"} => other.rd = whole.rd
     /\ format \in {"I", "S", "B"} => other.rs1 = whole.rs1 /\ other.funct3 = whole.funct3
     /\ format \in {"S", "B"} => other.rs2 = whole.rs2
=============================================================================

------------------------------ MODULE VnpuInt8 ------------------------------
(***************************************************************************)
(* Signed INT8 operands and the 32-bit words that carry them: how the HAL  *)
(* packs four into a word (pack_int8_input), how the device takes them out *)
(* (unpack_i8) and what it adds up per word.  A uint32_t operand word is   *)
(* the function from its byte lanes, lane 0 lowest, to bytes: the shifts   *)
(* by 8 * lane on both sides are indexing.                                 *)
(***************************************************************************)
EXTENDS Integers

Int8 == -128..127
Byte == 0..255
Lane == 0..3
Packed == [Lane -> Byte]

\* static_cast<std::uint8_t> of an int8_t.
ToByte(x) == x % 256

\* Word number out of input, a vector [0..size - 1 -> Int8]; bytes past the end
\* stay zero.
PackWord(input, size, out) ==
  [k \in Lane |-> IF 4 * out + k < size THEN ToByte(input[4 * out + k]) ELSE 0]

\* Mutant: no sign extension.
unpack_i8_Unsigned(word, lane) == word[lane]

\* Bit 7 of the byte is its sign.
unpack_i8(word, lane) == IF word[lane] >= 128 THEN word[lane] - 256 ELSE word[lane]

LaneProduct(a, b, lane) == unpack_i8(a, lane) * unpack_i8(b, lane)

\* The four statements of the loop body of vnpu_dot_product.
WordProduct(a, b) ==
  LaneProduct(a, b, 0) + LaneProduct(a, b, 1) + LaneProduct(a, b, 2) + LaneProduct(a, b, 3)

\* x ^ 1 on a two's complement int32_t.
FlipLowBit(x) == IF x % 2 = 0 THEN x + 1 ELSE x - 1
=============================================================================

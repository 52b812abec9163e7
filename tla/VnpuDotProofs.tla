---------------------------- MODULE VnpuDotProofs ----------------------------
(***************************************************************************)
(* The arithmetic for every operand vector, which no run can enumerate:    *)
(* what the device sums over packed words is what the mock and the Python  *)
(* reference sum over INT8 vectors, and it fits in 32 bits.                *)
(***************************************************************************)
EXTENDS VnpuDotLoop, TLAPS

\* The cast to uint8_t yields a byte, the sign extension of that byte the value.
LEMMA ByteRoundTrip ==
  ASSUME NEW x \in Int8
  PROVE  /\ ToByte(x) \in Byte
         /\ (IF ToByte(x) >= 128 THEN ToByte(x) - 256 ELSE ToByte(x)) = x
<1>1. CASE x >= 0
  <2>1. x % 256 = x
    BY <1>1 DEF Int8
  <2>. QED
    BY <2>1, <1>1 DEF ToByte, Int8, Byte
<1>2. CASE x < 0
  <2>1. x % 256 = x + 256
    BY <1>2 DEF Int8
  <2>. QED
    BY <2>1, <1>2 DEF ToByte, Int8, Byte
<1>. QED
  BY <1>1, <1>2 DEF Int8

\* Lane k of packed word out holds element 4 * out + k, sign and all.
LEMMA UnpackPack ==
  ASSUME NEW size \in Nat, NEW input \in [0..(size - 1) -> Int8],
         NEW out \in Nat, NEW k \in Lane, 4 * out + k < size
  PROVE  unpack_i8(PackWord(input, size, out), k) = input[4 * out + k]
<1>1. 4 * out + k \in 0..(size - 1)
  BY DEF Lane
<1>2. input[4 * out + k] \in Int8
  BY <1>1
<1>3. PackWord(input, size, out)[k] = ToByte(input[4 * out + k])
  BY DEF PackWord
<1>. QED
  BY <1>2, <1>3, ByteRoundTrip DEF unpack_i8

\* Packed words are words: unused lanes are zero bytes.
LEMMA PackWordType ==
  ASSUME NEW size \in Nat, NEW input \in [0..(size - 1) -> Int8], NEW out \in Nat
  PROVE  PackWord(input, size, out) \in Packed
<1>1. SUFFICES ASSUME NEW k \in Lane
      PROVE (IF 4 * out + k < size THEN ToByte(input[4 * out + k]) ELSE 0) \in Byte
  BY DEF PackWord, Packed
<1>2. CASE 4 * out + k < size
  <2>1. 4 * out + k \in 0..(size - 1)
    BY <1>2 DEF Lane
  <2>. QED
    BY <1>2, <2>1, ByteRoundTrip
<1>3. CASE ~(4 * out + k < size)
  BY <1>3 DEF Byte
<1>. QED
  BY <1>2, <1>3

\* The product of two INT8 values.
LEMMA ProductBound ==
  ASSUME NEW x \in Int8, NEW y \in Int8
  PROVE  x * y \in Int /\ -16256 <= x * y /\ x * y <= 16384
<1>1. x \in Int /\ y \in Int /\ -128 <= x /\ x <= 127 /\ -128 <= y /\ y <= 127
  BY DEF Int8
<1>2. CASE y >= 0
  <2>1. x * y >= (-128) * y /\ x * y <= 127 * y
    BY <1>1, <1>2
  <2>. QED
    BY <1>1, <1>2, <2>1
<1>3. CASE y < 0
  <2>1. x * y <= (-128) * y /\ x * y >= 127 * y
    BY <1>1, <1>3
  <2>. QED
    BY <1>1, <1>3, <2>1
<1>. QED
  BY <1>1, <1>2, <1>3
----------------------------------------------------------------------------
\* The operands never change, and i counts words consumed.
Operands ==
  /\ len \in {8, 16}
  /\ input_a \in [0..(len - 1) -> Int8]
  /\ input_b \in [0..(len - 1) -> Int8]
  /\ i \in 0..(len \div 4)

\* Both sums so far, with the bound that four products per word give.
Bounded ==
  /\ result \in Int
  /\ -65024 * i <= result /\ result <= 65536 * i

IInv == Operands /\ DeviceSumsWhatMockSums /\ Bounded

\* One turn adds the same four products on both sides.
LEMMA TurnAddsSame ==
  ASSUME Operands, i < len \div 4
  PROVE  /\ \A k \in Lane :
              /\ input_a[4 * i + k] \in Int8 /\ input_b[4 * i + k] \in Int8
              /\ LaneProduct(PackWord(input_a, len, i), PackWord(input_b, len, i), k)
                   = ElementProduct(4 * i + k)
<1>1. SUFFICES ASSUME NEW k \in Lane
      PROVE /\ input_a[4 * i + k] \in Int8 /\ input_b[4 * i + k] \in Int8
            /\ LaneProduct(PackWord(input_a, len, i), PackWord(input_b, len, i), k)
                 = ElementProduct(4 * i + k)
  OBVIOUS
<1>2. len \in Nat /\ i \in Nat /\ 4 * i + k < len /\ 4 * i + k \in 0..(len - 1)
  BY DEF Operands, Lane
<1>3. input_a[4 * i + k] \in Int8 /\ input_b[4 * i + k] \in Int8
  BY <1>2 DEF Operands
<1>4. unpack_i8(PackWord(input_a, len, i), k) = input_a[4 * i + k]
  BY <1>2, UnpackPack DEF Operands
<1>5. unpack_i8(PackWord(input_b, len, i), k) = input_b[4 * i + k]
  BY <1>2, UnpackPack DEF Operands
<1>. QED
  BY <1>3, <1>4, <1>5 DEF LaneProduct, ElementProduct

\* The invariant holds initially and is kept by every turn.
THEOREM LoopInvariant == Spec => []IInv
<1>1. Init => IInv
  BY DEF Init, IInv, Operands, DeviceSumsWhatMockSums, Bounded
<1>2. IInv /\ [Turn]_vars => IInv'
  <2>. SUFFICES ASSUME IInv, [Turn]_vars
       PROVE  IInv'
    OBVIOUS
  <2>1. CASE Turn
    <3>. DEFINE p0 == ElementProduct(4 * i)
                p1 == ElementProduct(4 * i + 1)
                p2 == ElementProduct(4 * i + 2)
                p3 == ElementProduct(4 * i + 3)
    <3>1. Operands /\ i < len \div 4 /\ i \in Nat
      BY <2>1 DEF IInv, Turn, Operands
    <3>2. \A k \in Lane :
            LaneProduct(PackWord(input_a, len, i), PackWord(input_b, len, i), k)
              = ElementProduct(4 * i + k)
      BY <3>1, TurnAddsSame
    <3>3. \A k \in Lane :
            /\ ElementProduct(4 * i + k) \in Int
            /\ -16256 <= ElementProduct(4 * i + k)
            /\ ElementProduct(4 * i + k) <= 16384
      BY <3>1, TurnAddsSame, ProductBound DEF ElementProduct
    <3>4. 0 \in Lane /\ 1 \in Lane /\ 2 \in Lane /\ 3 \in Lane /\ 4 * i + 0 = 4 * i
      BY <3>1 DEF Lane
    <3>5. WordProduct(PackWord(input_a, len, i), PackWord(input_b, len, i))
            = p0 + p1 + p2 + p3
      BY <3>2, <3>4 DEF WordProduct
    <3>6. /\ p0 \in Int /\ p1 \in Int /\ p2 \in Int /\ p3 \in Int
          /\ -65024 <= p0 + p1 + p2 + p3 /\ p0 + p1 + p2 + p3 <= 65536
      BY <3>3, <3>4
    <3>7. result' = result + (p0 + p1 + p2 + p3) /\ mock' = mock + p0 + p1 + p2 + p3
      BY <2>1, <3>5 DEF Turn
    <3>. HIDE DEF p0, p1, p2, p3
    <3>8. DeviceSumsWhatMockSums' /\ Bounded'
      <4>1. result' = mock'
        BY <3>6, <3>7 DEF IInv, DeviceSumsWhatMockSums, Bounded
      <4>2. result' \in Int /\ -65024 * (i + 1) <= result' /\ result' <= 65536 * (i + 1)
        BY <3>1, <3>6, <3>7 DEF IInv, Bounded
      <4>. QED
        BY <2>1, <4>1, <4>2 DEF DeviceSumsWhatMockSums, Bounded, Turn
    <3>9. Operands'
      BY <2>1, <3>1 DEF Operands, Turn
    <3>. QED
      BY <3>8, <3>9 DEF IInv
  <2>2. CASE UNCHANGED vars
    BY <2>2 DEF IInv, Operands, DeviceSumsWhatMockSums, Bounded, vars
  <2>. QED
    BY <2>1, <2>2
<1>. QED
  BY <1>1, <1>2, PTL DEF Spec

\* The device computes the mock's dot product, for all operands and lengths.
THEOREM DeviceMatchesMock == Spec => []DeviceSumsWhatMockSums
BY LoopInvariant, PTL DEF IInv

\* No operand vector overflows the device's 32-bit accumulator.
THEOREM AccumulatorFits == Spec => []NoOverflow
<1>1. IInv => NoOverflow
  <2>. SUFFICES ASSUME IInv PROVE NoOverflow
    OBVIOUS
  <2>1. i \in 0..4 /\ result \in Int /\ -65024 * i <= result /\ result <= 65536 * i
    BY DEF IInv, Operands, Bounded
  <2>2. -260096 <= result /\ result <= 262144
    BY <2>1
  <2>3. -260096 <= FlipLowBit(result) /\ FlipLowBit(result) <= 262145
    <3>1. CASE result % 2 = 0
      BY <2>1, <2>2, <3>1 DEF FlipLowBit
    <3>2. CASE result % 2 # 0
      <4>1. result # -260096
        BY <3>2
      <4>. QED
        BY <2>1, <2>2, <3>2, <4>1 DEF FlipLowBit
    <3>. QED
      BY <3>1, <3>2
  <2>. QED
    BY <2>2, <2>3 DEF NoOverflow
<1>. QED
  BY <1>1, LoopInvariant, PTL
=============================================================================

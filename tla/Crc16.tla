------------------------------- MODULE Crc16 -------------------------------
(***************************************************************************)
(* crc16_xmodem, bit by bit.  The 16-bit register is the set of its bits    *)
(* that are one, numbered from the least significant: exclusive or is the   *)
(* symmetric difference, a left shift adds one to every member, and bit 15, *)
(* shifted out, is gone.                                                   *)
(*                                                                         *)
(* Where an argument is a long computation it is handed to a function,      *)
(* [x \in S |-> e][a], so that TLC has its value before it goes on.        *)
(***************************************************************************)
EXTENDS Integers, Sequences

Register == SUBSET (0..15)

Weight(k) == <<1, 2, 4, 8, 16, 32, 64, 128, 256>>[k + 1]

(* Bit k is the remainder when k halvings of the byte are halved once more. *)
IsOne(byte, k) == byte \div Weight(k) # 2 * (byte \div Weight(k + 1))

Bits(byte) == {k \in 0..7 : IsOne(byte, k)}

High(byte) == {k + 8 : k \in Bits(byte)}   \* (b as u16) << 8

Xor(a, b) == (a \ b) \cup (b \ a)

Poly == {12, 5, 0}   \* 0x1021

Shifted(crc) == {k + 1 : k \in crc \ {15}}

BitStep(from) ==
  [crc \in Register |-> IF 15 \in crc THEN Xor(Shifted(crc), Poly) ELSE Shifted(crc)][from]

(* The eight steps of a byte.                                              *)
TwoSteps(crc) == BitStep(BitStep(crc))
BitLoop(crc) == TwoSteps(TwoSteps(TwoSteps(TwoSteps(crc))))

OneByte(from, byte) == [crc \in Register |-> BitLoop(Xor(crc, High(byte)))][from]

(* The register after each byte, the first value being the one before any.  *)
Registers(bytes) ==
  LET reg[k \in 0..Len(bytes)] == IF k = 0 THEN {} ELSE OneByte(reg[k - 1], bytes[k])
  IN  reg

crc16_xmodem(bytes) == [data \in Seq(0..255) |-> Registers(data)[Len(data)]][bytes]
=============================================================================

-------------------------- MODULE MCFwpkgRoundTrip --------------------------
(* Up to MaxParts partitions, equal ones and empty ones included, handed    *)
(* over through files cut at every length or with one byte damaged.        *)
EXTENDS FwpkgRoundTrip

CONSTANT MaxParts

MCByteOf == [c \in Chars |-> CASE c = NUL -> 0 [] c = "a" -> 97 [] c = "b" -> 98]

Part(name, size, known, code) ==
  [name |-> name, size |-> size, burn_addr |-> 1, burn_size |-> 2 + size,
   type |-> [known |-> known, code |-> code]]

MCPartitions ==
  {Part(<<"a", NUL, "b">>, 0, TRUE, 1), Part(<<"a", NUL, "b">>, 1, TRUE, 1),
   Part(<<"a", NUL, "b">>, 1, FALSE, 1), Part(<<"a", "b">>, 3, FALSE, 9),
   Part(<< >>, 2, TRUE, 0)}

MCInputs == UNION {[1..n -> MCPartitions] : n \in 0..MaxParts}

(* crc16_xmodem("123456789") = 0x31C3, the test vector of the repository.   *)
ASSUME Crc16Vector ==
  P!crc16_xmodem([k \in 1..9 |-> 48 + k]) = {0, 1, 6, 7, 8, 12, 13}
=============================================================================

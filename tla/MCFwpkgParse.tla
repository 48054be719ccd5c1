--------------------------- MODULE MCFwpkgParse ---------------------------
(* Small files of both versions, of no version, whole and cut anywhere,     *)
(* with up to one partition more than the parser takes.                    *)
EXTENDS FwpkgParse

CONSTANTS MaxSize, MaxCnt

MCByteOf == [c \in {"a", "b", NUL} |-> CASE c = NUL -> 0 [] c = "a" -> 97 [] c = "b" -> 98]

MCTables ==
  LET D == {[name |-> n, offset |-> o, length |-> l, burn_addr |-> 0, burn_size |-> 0,
             type |-> 1] : n \in {<<"a", NUL, "b">>}, o \in {4, 9}, l \in {0, 3}}
  IN  UNION {[1..n -> D] : n \in 0..MaxCnt}

MCFiles ==
  {[size |-> s, version |-> v, cnt |-> Len(t), len |-> MaxSize,
    crc |-> {}, table |-> t] :
     s \in 0..MaxSize, v \in {"V1", "V2", "none"}, t \in MCTables}
=============================================================================

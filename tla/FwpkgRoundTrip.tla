--------------------------- MODULE FwpkgRoundTrip ---------------------------
(***************************************************************************)
(* One tool builds a package, another opens it and asks verify_crc.  In     *)
(* between the file may have been cut short (an interrupted copy or        *)
(* download), or one byte of its header or table have been changed: nothing *)
(* but the file connects the two.                                          *)
(***************************************************************************)
EXTENDS FwpkgBuild

CONSTANTS HEADER_SIZE_V2, BIN_INFO_SIZE_V2, NAME_SIZE_V2, MAX_PARTITIONS,
          NUL, KnownCodes, ByteOf,
          Stray    \* what a damaged byte, or the field it is in, may turn into

(* Characters are bytes, of which NUL is zero; payloads are kept apart.    *)
ASSUME HandOverAssumption ==
  /\ Stray \subseteq 0..(U32 - 1) /\ TypeCodes \subseteq 0..(U32 - 1)
  /\ PAYLOAD_SEPARATOR > 0 /\ MAX_PARTITIONS \in Nat
  /\ NUL \in Chars /\ ByteOf \in [Chars -> 0..255] /\ ByteOf[NUL] = 0
  /\ \A c, d \in Chars : ByteOf[c] = ByteOf[d] => c = d

VARIABLES
  file, ppc, j, bins,
  crc_valid   \* what verify_crc said: "unknown", "valid" or "invalid"

P == INSTANCE FwpkgParse WITH Files <- {}

parser == <<file, ppc, j, bins>>

reader == <<parser, crc_valid>>

NoFile == << >>   \* nothing handed over yet

all == <<vars, reader>>

RTInit ==
  /\ Init
  /\ file = NoFile /\ ppc = "idle" /\ j = 1 /\ bins = << >>
  /\ crc_valid = "unknown"

Build == Step /\ UNCHANGED reader

Packed ==
  [size |-> outLen, version |-> "V1", cnt |-> cnt, len |-> len, table |-> table,
   crc |-> P!crc16_xmodem(P!head_bytes(crc[1], crc[2], crc[3]))]

Fields == {"offset", "length", "burn_addr", "burn_size", "type"}

(* One byte of header or table is another one.  Left out are a count that   *)
(* grows and a magic that becomes one of V2: with them payload bytes are   *)
(* read as descriptors, and those have no content here.                    *)
OneByteApart(p, q) ==
  /\ Len(p) = Len(q)
  /\ \E k \in 1..Len(p) : \A l \in 1..Len(p) : p[l] = q[l] <=> l # k

Mistaken(field) == {v \in Stray : OneByteApart(P!LE32(v), P!LE32(field))}

Flips == UNION {{P!Bits(v), P!High(v)} : v \in Stray \cap 1..255}

OtherMagic(f) == {[f EXCEPT !.version = "none"]}
OtherSum(f) == {[f EXCEPT !.crc = P!Xor(@, flips)] : flips \in Flips}
OtherLength(f) == {[f EXCEPT !.len = v] : v \in Mistaken(f.len)}
SmallerCount(f) == {[f EXCEPT !.cnt = v] : v \in {w \in Mistaken(f.cnt) : w < f.cnt}}

WithRow(f, k, d) == [f EXCEPT !.table = [@ EXCEPT ![k] = d]]

NameField(name) == [c \in 1..NAME_SIZE |-> IF c <= Len(name) THEN name[c] ELSE NUL]
Misread(name) == {n \in [1..NAME_SIZE -> Chars] : OneByteApart(n, NameField(name))}

WithName(f, k) ==
  {WithRow(f, k, [f.table[k] EXCEPT !.name = n]) : n \in Misread(f.table[k].name)}
OtherName(f) == UNION {WithName(f, k) : k \in 1..f.cnt}

WithField(f, k, field) ==
  {WithRow(f, k, [f.table[k] EXCEPT ![field] = v]) : v \in Mistaken(f.table[k][field])}
OtherField(f) == UNION {WithField(f, k, field) : k \in 1..f.cnt, field \in Fields}

Damaged(f) ==
  OtherMagic(f) \cup OtherSum(f) \cup OtherLength(f) \cup SmallerCount(f)
    \cup OtherName(f) \cup OtherField(f)

(* fs::write and fs::read of the package, by way of a medium that may keep *)
(* only the first `kept` bytes, or damage one.                             *)
HandOver ==
  /\ pc = "done" /\ ppc = "idle"
  /\ \E packed \in {Packed} :
       file' \in {[packed EXCEPT !.size = kept] : kept \in 0..outLen} \cup Damaged(packed)
  /\ ppc' = "open"
  /\ UNCHANGED <<vars, j, bins, crc_valid>>

Parse == ppc # "idle" /\ P!Step /\ UNCHANGED <<vars, crc_valid>>

VerifyCrc ==
  /\ ppc = "ok" /\ crc_valid = "unknown"
  /\ crc_valid' = IF P!verify_crc THEN "valid" ELSE "invalid"
  /\ UNCHANGED <<vars, parser>>

BuildFailed == pc \in Errors /\ UNCHANGED all

Answered ==
  /\ ppc # "idle" /\ P!Answered /\ (ppc = "ok" => crc_valid # "unknown")
  /\ UNCHANGED all

RTStep == Build \/ HandOver \/ Parse \/ VerifyCrc

RTNext == RTStep \/ BuildFailed \/ Answered

RTSpec == RTInit /\ [][RTNext]_all /\ WF_all(RTStep)

-----------------------------------------------------------------------------
(* The payload bin_data returns, named by the partition it belongs to: 0   *)
(* when the range is not exactly one payload.                              *)
bin_data(bin) ==
  LET owners == {k \in 1..Len(at) : at[k] = bin.offset /\ parts[k].size = bin.length}
  IN  IF owners = {} \/ bin.offset + bin.length > file.size THEN 0
      ELSE CHOOSE k \in owners : TRUE

Seen(name, type, bin, payload) ==
  [name |-> name, code |-> as_u32(type), burn_addr |-> bin.burn_addr,
   burn_size |-> bin.burn_size, payload |-> payload]

(* What the writer put in, as a reader can see it: a name ends at its first *)
(* zero byte, and a type is its code.                                      *)
Written == [k \in 1..Len(parts) |->
              Seen(P!read_name(parts[k].name), parts[k].type, parts[k], k)]

Read == [k \in 1..Len(bins) |-> Seen(bins[k].name, bins[k].type, bins[k], bin_data(bins[k]))]

(* The reader goes on with whatever from_bytes accepts; what verify_crc     *)
(* says of it is one more field of its report.                             *)
Answer ==
  IF pc \in Errors \/ ppc \in P!Refusals THEN "refused"
  ELSE IF crc_valid = "valid" THEN "confirmed"
  ELSE IF crc_valid = "invalid" THEN "doubtful"
  ELSE "pending"

Got == IF crc_valid = "unknown" THEN << >> ELSE Read

Tampered == file # [Packed EXCEPT !.size = file.size]

Promise == INSTANCE FwpkgPromise WITH sent <- Written, answer <- Answer, got <- Got

-----------------------------------------------------------------------------
(* The types of the file between the tools.                                *)
RTTypeOK ==
  /\ TypeOK
  /\ file # NoFile => file.size \in 0..outLen /\ file.len \in 0..(U32 - 1)
  /\ ppc = "idle" <=> file = NoFile
  /\ Len(bins) <= Len(parts)
  /\ crc_valid \in {"unknown", "valid", "invalid"} /\ (crc_valid # "unknown" => ppc = "ok")

(* Building, handing over and parsing together keep the promise: however   *)
(* much of the file arrives, and whichever of its bytes Damaged has        *)
(* changed, the reader is refused, or has exactly the writer's partitions   *)
(* and payloads, or a report that says crc_valid is false, and then all    *)
(* but one of them or the first ones; and it stays with that.              *)
KeepsThePromise == Promise!Spec

(* And it ends up with one of the three: the loops of from_bytes reach the   *)
(* end of every table, or an Err.                                          *)
ReaderIsAnswered == <>(Answer # "pending")

(* A package that nobody changed is refused for one reason only: a payload *)
(* byte is missing.  What comes after the last payload, the parser never   *)
(* needs.                                                                  *)
RefusedOnlyIfCut ==
  ppc \in P!Refusals =>
    \/ \E k \in 1..Len(parts) : file.size < at[k] + parts[k].size
    \/ Tampered

(* What the reader accepts of an unchanged package, verify_crc confirms:   *)
(* the sum build_fwpkg fixed up covers the very table the parser read.     *)
AcceptedVerifies == crc_valid = "invalid" => Tampered

(* from_bytes takes a damaged table whose ranges still lie in the file;     *)
(* then verify_crc, and so the crc_valid of the plan's report, says so.    *)
DamageIsReported == crc_valid = "valid" => ~Tampered

(* "The output ... parses cleanly": a package that arrives whole, with      *)
(* every byte as it was written, is opened.                                *)
ParsesCleanly == file # NoFile /\ ppc \in P!Refusals => file.size < outLen \/ Tampered
=============================================================================

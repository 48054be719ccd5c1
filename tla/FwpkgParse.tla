----------------------------- MODULE FwpkgParse -----------------------------
(***************************************************************************)
(* Fwpkg::from_bytes and the accessors of the parsed package.              *)
(*                                                                         *)
(* A file is what the bytes at each field's place hold, and how many bytes *)
(* there are: a file that was cut short still has a header and a table,    *)
(* but the parser may only look at fields below file.size.  Every Err is a *)
(* control point of its own, so the order of the checks is the code's.     *)
(***************************************************************************)
EXTENDS Crc16, SequencesExt

CONSTANTS
  HEADER_SIZE, HEADER_SIZE_V2,      \* bytes before the descriptor table, V1 and V2
  BIN_INFO_SIZE, BIN_INFO_SIZE_V2,  \* bytes of one descriptor
  NAME_SIZE, NAME_SIZE_V2,          \* bytes of a partition's, of the V2 package's name
  MAX_PARTITIONS,
  NUL,                              \* the zero byte, which ends a name
  KnownCodes,                       \* type codes that have a named PartitionType
  ByteOf,                           \* the number of each character
  Files                             \* the files handed to from_bytes

ASSUME ParseAssumption ==
  /\ {HEADER_SIZE, HEADER_SIZE_V2, BIN_INFO_SIZE, BIN_INFO_SIZE_V2, NAME_SIZE_V2,
      MAX_PARTITIONS} \subseteq Nat
  /\ HEADER_SIZE_V2 >= HEADER_SIZE + NAME_SIZE_V2

(* A descriptor as its bytes are read; the name is the whole field.        *)
RawDescriptor == [name: Seq(STRING), offset: Nat, length: Nat, burn_addr: Nat,
                  burn_size: Nat, type: Nat]

(* There is a descriptor at every place the count speaks of, in the file or *)
(* cut off.                                                                *)
ASSUME FilesAssumption ==
  \A f \in Files : /\ f.size \in Nat /\ f.cnt \in Nat
                   /\ f.table \in Seq(RawDescriptor) /\ f.cnt <= Len(f.table)

VARIABLES
  file,   \* the argument: [size, version, cnt, len, crc, table]
  ppc,    \* "open", "table", "bounds", "ok" or the reason of the Err
  j,      \* the descriptor the current loop is at
  bins    \* the descriptors parsed so far

vars == <<file, ppc, j, bins>>

Refusals == {"header short", "package name short", "bad magic", "too many partitions",
             "table short", "out of bounds"}

(* file.version stands for the magic: "none" is a magic of neither version. *)
header_size   == IF file.version = "V1" THEN HEADER_SIZE ELSE HEADER_SIZE_V2
bin_info_size == IF file.version = "V1" THEN BIN_INFO_SIZE ELSE BIN_INFO_SIZE_V2
table_end     == header_size + file.cnt * bin_info_size

(* From<u32>: a code that has a name always becomes the named variant.     *)
type_from(code) == [known |-> code \in KnownCodes, code |-> code]

(* read_name: the bytes up to the first zero byte, or all of the field.    *)
read_name(field) ==
  LET ends == {k \in 1..Len(field) : field[k] = NUL}
  IN  IF ends = {} THEN field
      ELSE SubSeq(field, 1, (CHOOSE k \in ends : \A l \in ends : k <= l) - 1)

Init ==
  /\ file \in Files
  /\ ppc = "open" /\ j = 1 /\ bins = << >>

Refuse(reason) == ppc' = reason /\ UNCHANGED <<file, j, bins>>

(* The checks on the header, in the order from_bytes makes them: each one  *)
(* guards on those before it having passed.                                *)
HeaderRead == ppc = "open" /\ file.size >= HEADER_SIZE

HeaderShort == ppc = "open" /\ file.size < HEADER_SIZE /\ Refuse("header short")

WrongMagic == HeaderRead /\ file.version = "none" /\ Refuse("bad magic")

PackageNameShort ==
  /\ HeaderRead /\ file.version = "V2" /\ file.size < HEADER_SIZE + NAME_SIZE_V2
  /\ Refuse("package name short")

VersionRead ==
  /\ HeaderRead /\ file.version # "none"
  /\ file.version = "V2" => file.size >= HEADER_SIZE + NAME_SIZE_V2

TooManyPartitions ==
  VersionRead /\ file.cnt > MAX_PARTITIONS /\ Refuse("too many partitions")

TableShort ==
  /\ VersionRead /\ file.cnt <= MAX_PARTITIONS /\ file.size < table_end
  /\ Refuse("table short")

(* A bug to be caught: only the header has to be there, not the table.     *)
HeaderAccepted_NoTableCheck ==
  /\ VersionRead /\ file.cnt <= MAX_PARTITIONS
  /\ ppc' = IF file.cnt = 0 THEN "ok" ELSE "table"
  /\ UNCHANGED <<file, j, bins>>

(* A bug to be caught: any number of partitions is taken.                  *)
HeaderAccepted_AnyCount ==
  /\ VersionRead /\ file.size >= table_end
  /\ ppc' = IF file.cnt = 0 THEN "ok" ELSE "table"
  /\ UNCHANGED <<file, j, bins>>

HeaderAccepted ==
  /\ VersionRead /\ file.cnt <= MAX_PARTITIONS /\ file.size >= table_end
  /\ ppc' = IF file.cnt = 0 THEN "ok" ELSE "table"
  /\ UNCHANGED <<file, j, bins>>

(* The name and the five fields of a descriptor, which fill it exactly in   *)
(* both versions: the code's test of desc_end never fires.                 *)
BinInfo(d) == [d EXCEPT !.name = read_name(d.name), !.type = type_from(d.type)]

ReadDescriptor ==
  /\ ppc = "table"
  /\ bins' = Append(bins, BinInfo(file.table[j]))
  /\ IF j = file.cnt THEN j' = 1 /\ ppc' = "bounds" ELSE j' = j + 1 /\ UNCHANGED ppc
  /\ UNCHANGED file

(* Two bugs to be caught: the length is ignored; the last byte may not be   *)
(* the last of the file.                                                   *)
InBounds_StartOnly(bin) == bin.offset <= file.size
InBounds_Strict(bin) == bin.offset + bin.length < file.size

InBounds(bin) == bin.offset + bin.length <= file.size

(* A bug to be caught: the loop ends at the first partition.               *)
CheckBounds_FirstOnly ==
  /\ ppc = "bounds" /\ InBounds(bins[j])
  /\ ppc' = "ok"
  /\ UNCHANGED <<file, bins, j>>

(* A bug to be caught: the loop comes back to the same partition.          *)
CheckBounds_NoAdvance ==
  /\ ppc = "bounds" /\ InBounds(bins[j])
  /\ IF j = file.cnt THEN j' = 1 /\ ppc' = "ok" ELSE UNCHANGED <<j, ppc>>
  /\ UNCHANGED <<file, bins>>

CheckBounds ==
  /\ ppc = "bounds" /\ InBounds(bins[j])
  /\ IF j = file.cnt THEN j' = 1 /\ ppc' = "ok" ELSE j' = j + 1 /\ UNCHANGED ppc
  /\ UNCHANGED <<file, bins>>

OutOfBounds == ppc = "bounds" /\ ~InBounds(bins[j]) /\ Refuse("out of bounds")

Answered == ppc \in Refusals \cup {"ok"} /\ UNCHANGED vars

Step == HeaderShort \/ WrongMagic \/ PackageNameShort \/ TooManyPartitions \/ TableShort
          \/ HeaderAccepted \/ ReadDescriptor \/ CheckBounds \/ OutOfBounds

Next == Step \/ Answered

Spec == Init /\ [][Next]_vars

(* to_le_bytes of a u16 and of a u32.                                      *)
LE16(v) == <<v % 256, (v \div 256) % 256>>
LE32(v) == <<v % 256, (v \div 256) % 256, (v \div 65536) % 256, (v \div 16777216) % 256>>

NameBytes(name) == [c \in 1..NAME_SIZE |-> IF c <= Len(name) THEN ByteOf[name[c]] ELSE 0]

(* A bug to be caught: the sum leaves the addresses out of each descriptor. *)
DescriptorBytes_NoAddress(d) ==
  NameBytes(d.name) \o LE32(d.offset) \o LE32(d.length) \o LE32(d.type)

(* The bytes [6 .. table_end): count, total length and the descriptors,     *)
(* names filled up with zeros.                                             *)
DescriptorBytes(d) ==
  NameBytes(d.name) \o LE32(d.offset) \o LE32(d.length) \o LE32(d.burn_addr)
    \o LE32(d.burn_size) \o LE32(d.type)

head_bytes(count, length, table) ==
  LE16(count) \o LE32(length) \o FlattenSeq([k \in DOMAIN table |-> DescriptorBytes(table[k])])

verify_crc ==
  file.crc = crc16_xmodem(head_bytes(file.cnt, file.len, SubSeq(file.table, 1, Len(bins))))

-----------------------------------------------------------------------------
(* The types of the parser's state.                                        *)
ParseTypeOK ==
  /\ ppc \in Refusals \cup {"open", "table", "bounds", "ok"}
  /\ j \in Nat \ {0}
  /\ bins \in Seq([name: Seq(STRING), offset: Nat, length: Nat, burn_addr: Nat,
                    burn_size: Nat, type: [known: BOOLEAN, code: Nat]])
  /\ Len(bins) <= MAX_PARTITIONS

(* The format, stated without the order of the checks.                     *)
WellFormed ==
  /\ file.version # "none"
  /\ file.cnt <= MAX_PARTITIONS
  /\ file.size >= table_end
  /\ \A k \in 1..file.cnt : InBounds(file.table[k])

(* from_bytes takes a file exactly when it is well formed: no check masks   *)
(* another, none is skipped, and the loops reach every descriptor.         *)
AcceptsTheFormat ==
  /\ ppc = "ok" => WellFormed
  /\ ppc \in Refusals => ~WellFormed

(* Whatever from_bytes accepts, the accessors can serve: verify_crc slices  *)
(* [6 .. table_end) by the number of parsed descriptors without a check,   *)
(* and bin_data of any of them stays inside the file.                      *)
AccessorsAreTotal ==
  ppc = "ok" =>
    /\ header_size + Len(bins) * bin_info_size <= file.size
    /\ Len(bins) = file.cnt
    /\ \A k \in 1..Len(bins) : InBounds(bins[k])
=============================================================================

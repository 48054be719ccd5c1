----------------------------- MODULE FwpkgBuild -----------------------------
(***************************************************************************)
(* build_fwpkg: serialising a list of partitions into a fwpkg V1 container. *)
(*                                                                         *)
(* The function walks its input three times: once to add up the payload    *)
(* lengths (the total goes into the header), once to write the descriptor  *)
(* table, advancing start_index, and once to append the payloads.  Nothing *)
(* but arithmetic ties the three walks together; each is a loop here, one  *)
(* partition per step, so that the properties can relate them.             *)
(*                                                                         *)
(* Payload bytes are abstracted to their number.  Lengths and positions    *)
(* are in bytes; the on-disk fields are truncated where the code casts.    *)
(***************************************************************************)
EXTENDS Integers, Sequences

CONSTANTS
  HEADER_SIZE,       \* bytes of FWPKG_HEAD
  BIN_INFO_SIZE,     \* bytes of one IMAGE_INFO descriptor
  PAYLOAD_SEPARATOR, \* zero bytes after each payload
  NAME_SIZE,         \* width of the name field
  U16, U32,          \* 2^16 and 2^32: one past the largest u16 and u32
  Chars,             \* the bytes a name is made of
  TypeCodes,         \* the values a u32 type field takes
  Inputs             \* the partition lists handed to build_fwpkg

(* A PartitionType: a named variant, or Unknown(code), which a caller may  *)
(* construct with any code, a named one's included.                        *)
PartitionType == [known: BOOLEAN, code: TypeCodes]

as_u32(type) == type.code

Partition == [name: Seq(Chars), size: Nat, burn_addr: 0..(U32 - 1),
              burn_size: 0..(U32 - 1), type: PartitionType]

Descriptor == [name: Seq(Chars), offset: 0..(U32 - 1), length: 0..(U32 - 1),
               burn_addr: 0..(U32 - 1), burn_size: 0..(U32 - 1), type: TypeCodes]

ASSUME BuildAssumption ==
  /\ {HEADER_SIZE, BIN_INFO_SIZE, PAYLOAD_SEPARATOR, NAME_SIZE} \subseteq Nat
  /\ U16 \in Nat \ {0} /\ U32 \in Nat \ {0}
  /\ Inputs \subseteq Seq(Partition)

VARIABLES
  parts,       \* the argument
  pc,          \* "check", "sum", "head", "table", "payload", "crc", "done" or an Error
  i,           \* the partition the current loop is at
  sums,        \* sums[k]: what iter().sum() holds before partition k
  start_index, \* offset the next descriptor records
  cnt, len,    \* the header fields
  crc,         \* the header CRC, taken as the content it is computed over
  table,       \* the descriptors written so far
  at,          \* at[k]: where in out payload k was really appended
  outLen       \* out.len()

vars == <<parts, pc, i, sums, start_index, cnt, len, crc, table, at, outLen>>

Errors == {"EmptyPackage", "NameTooLong", "OutOfRange"}

HeadLen == HEADER_SIZE + Len(parts) * BIN_INFO_SIZE

(* A bug to be caught: separators counted between payloads only.           *)
TotalLen_SeparatorBetween ==
  HeadLen + sums[Len(parts) + 1] + PAYLOAD_SEPARATOR * (Len(parts) - 1)

TotalLen == HeadLen + sums[Len(parts) + 1] + PAYLOAD_SEPARATOR * Len(parts)

Init ==
  /\ parts \in Inputs
  /\ pc = "check"
  /\ i = 1
  /\ sums = <<0>>
  /\ table = << >> /\ at = << >>
  /\ start_index = 0 /\ cnt = 0 /\ len = 0 /\ outLen = 0
  /\ crc = << >>

RejectEmpty ==
  /\ pc = "check" /\ parts = << >>
  /\ pc' = "EmptyPackage"
  /\ UNCHANGED <<parts, i, sums, start_index, cnt, len, crc, table, at, outLen>>

TooLong == \E k \in 1..Len(parts) : Len(parts[k].name) >= NAME_SIZE

RejectName ==
  /\ pc = "check" /\ TooLong
  /\ pc' = "NameTooLong"
  /\ UNCHANGED <<parts, i, sums, start_index, cnt, len, crc, table, at, outLen>>

Accept ==
  /\ pc = "check" /\ parts # << >> /\ ~TooLong
  /\ pc' = "sum"
  /\ UNCHANGED <<parts, i, sums, start_index, cnt, len, crc, table, at, outLen>>

(* payload_len: one step of parts.iter().map(len).sum().                   *)
SumPayload ==
  /\ pc = "sum"
  /\ sums' = Append(sums, sums[i] + parts[i].size)
  /\ IF i = Len(parts) THEN i' = 1 /\ pc' = "head" ELSE i' = i + 1 /\ UNCHANGED pc
  /\ UNCHANGED <<parts, start_index, cnt, len, crc, table, at, outLen>>

RejectSize ==
  /\ pc = "head" /\ TotalLen >= U32
  /\ pc' = "OutOfRange"
  /\ UNCHANGED <<parts, i, sums, start_index, cnt, len, crc, table, at, outLen>>

(* A bug to be caught: the total is written without try_from.              *)
EmitHeader_Unchecked ==
  /\ pc = "head"
  /\ pc' = "table"
  /\ cnt' = Len(parts) % U16
  /\ len' = TotalLen
  /\ outLen' = HEADER_SIZE
  /\ start_index' = HeadLen
  /\ UNCHANGED <<parts, i, sums, crc, table, at>>

EmitHeader ==
  /\ pc = "head" /\ TotalLen < U32
  /\ pc' = "table"
  /\ cnt' = Len(parts) % U16
  /\ len' = TotalLen
  /\ outLen' = HEADER_SIZE
  /\ start_index' = HeadLen
  /\ UNCHANGED <<parts, i, sums, crc, table, at>>

DescriptorOf(p, start) ==
  [name |-> p.name, offset |-> start % U32, length |-> p.size % U32,
   burn_addr |-> p.burn_addr, burn_size |-> p.burn_size, type |-> as_u32(p.type)]

(* A bug to be caught: the next payload is looked for right after this one. *)
NextStart_NoSeparator(p, start) == start + p.size

NextStart(p, start) == start + p.size + PAYLOAD_SEPARATOR

EmitDescriptor ==
  /\ pc = "table"
  /\ table' = Append(table, DescriptorOf(parts[i], start_index))
  /\ start_index' = NextStart(parts[i], start_index)
  /\ outLen' = outLen + BIN_INFO_SIZE
  /\ IF i = Len(parts) THEN i' = 1 /\ pc' = "payload" ELSE i' = i + 1 /\ UNCHANGED pc
  /\ UNCHANGED <<parts, sums, cnt, len, crc, at>>

(* A bug to be caught: the zero bytes after a payload are left out.        *)
EmitPayload_NoSeparator ==
  /\ pc = "payload"
  /\ at' = Append(at, outLen)
  /\ outLen' = outLen + parts[i].size
  /\ IF i = Len(parts) THEN i' = 1 /\ pc' = "crc" ELSE i' = i + 1 /\ UNCHANGED pc
  /\ UNCHANGED <<parts, sums, start_index, cnt, len, crc, table>>

EmitPayload ==
  /\ pc = "payload"
  /\ at' = Append(at, outLen)
  /\ outLen' = outLen + parts[i].size + PAYLOAD_SEPARATOR
  /\ IF i = Len(parts) THEN i' = 1 /\ pc' = "crc" ELSE i' = i + 1 /\ UNCHANGED pc
  /\ UNCHANGED <<parts, sums, start_index, cnt, len, crc, table>>

(* A bug to be caught: the sum stops at the end of the fixed header.       *)
FixCrc_CountOnly ==
  /\ pc = "crc"
  /\ crc' = <<cnt, len, << >>>>
  /\ pc' = "done"
  /\ UNCHANGED <<parts, i, sums, start_index, cnt, len, table, at, outLen>>

(* The CRC covers [6 .. head_len): count, total length and the whole table. *)
FixCrc ==
  /\ pc = "crc"
  /\ crc' = <<cnt, len, table>>
  /\ pc' = "done"
  /\ UNCHANGED <<parts, i, sums, start_index, cnt, len, table, at, outLen>>

(* A call that has returned stays returned.                                *)
Returned == pc \in Errors \cup {"done"} /\ UNCHANGED vars

Step == RejectEmpty \/ RejectName \/ Accept \/ SumPayload \/ RejectSize
          \/ EmitHeader \/ EmitDescriptor \/ EmitPayload \/ FixCrc

Next == Step \/ Returned

Spec == Init /\ [][Next]_vars

-----------------------------------------------------------------------------
(* The types of the builder's state: what goes into the header and the     *)
(* table always fits the field it is written to.                           *)
TypeOK ==
  /\ parts \in Seq(Partition)
  /\ pc \in Errors \cup {"check", "sum", "head", "table", "payload", "crc", "done"}
  /\ i \in Nat \ {0}
  /\ sums \in Seq(Nat)
  /\ start_index \in Nat /\ outLen \in Nat
  /\ cnt \in 0..(U16 - 1) /\ len \in 0..(U32 - 1)
  /\ table \in Seq(Descriptor)
  /\ at \in Seq(Nat)

(* In a finished package every descriptor names the place and the length   *)
(* of its own payload: the offsets the second walk predicts are where the  *)
(* third walk puts the bytes, and no u32 cast has cut any of them.         *)
DescriptorsLocatePayloads ==
  pc = "done" =>
    /\ Len(table) = Len(parts) /\ Len(at) = Len(parts)
    /\ \A k \in 1..Len(parts) : /\ table[k].offset = at[k]
                                /\ table[k].length = parts[k].size

(* Payloads lie after the table, in order, and each is followed by a full  *)
(* separator before the next one or the end of the buffer.                 *)
PayloadsDisjoint ==
  pc = "done" =>
    \A k \in 1..Len(at) :
      /\ at[k] >= HeadLen
      /\ at[k] + parts[k].size + PAYLOAD_SEPARATOR <= outLen
      /\ \A l \in (k + 1)..Len(at) :
           at[k] + parts[k].size + PAYLOAD_SEPARATOR <= at[l]

(* debug_assert_eq!(out.len(), total_len): the length the header declares, *)
(* fixed before anything is written, is the length of the finished buffer. *)
DeclaredLength == pc = "done" => outLen = len
=============================================================================

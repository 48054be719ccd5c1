-------------------------- MODULE FwpkgBuildProofs --------------------------
(***************************************************************************)
(* Proofs about build_fwpkg, for every list of partitions and every layout *)
(* of the constants.  The three walks over the input meet in one closed    *)
(* form: Pos(k), the place of payload k, in terms of the running sums that *)
(* the first walk leaves behind.                                           *)
(***************************************************************************)
EXTENDS FwpkgBuild, SequenceTheorems, TLAPS

Pos(k) == HeadLen + sums[k] + PAYLOAD_SEPARATOR * (k - 1)

(* The running sums: exact at every step, hence never decreasing.          *)
SumsInv ==
  /\ Len(sums) \in 1..(Len(parts) + 1)
  /\ sums[1] = 0
  /\ \A k \in 1..(Len(sums) - 1) : sums[k + 1] = sums[k] + parts[k].size
  /\ \A k, l \in 1..Len(sums) : k <= l => sums[k] <= sums[l]

(* How far each walk has come at each control point.                       *)
Progress ==
  /\ pc = "check" => i = 1 /\ Len(sums) = 1
  /\ pc = "sum" => i \in 1..Len(parts) /\ Len(sums) = i
  /\ pc \in {"head", "table", "payload", "crc", "done"} =>
       Len(parts) >= 1 /\ Len(sums) = Len(parts) + 1
  /\ pc = "head" => i = 1
  /\ pc \in {"check", "sum", "head"} => table = << >>
  /\ pc \in {"check", "sum", "head", "table"} => at = << >>
  /\ pc = "table" => i \in 1..Len(parts) /\ Len(table) = i - 1
  /\ pc \in {"payload", "crc", "done"} => Len(table) = Len(parts)
  /\ pc = "payload" => i \in 1..Len(parts) /\ Len(at) = i - 1
  /\ pc \in {"crc", "done"} => Len(at) = Len(parts)

(* Every length and offset is a value of Pos.                              *)
Layout ==
  /\ pc \in {"table", "payload", "crc", "done"} => TotalLen < U32 /\ len = TotalLen
  /\ pc = "table" => start_index = Pos(i) /\ outLen = HEADER_SIZE + BIN_INFO_SIZE * (i - 1)
  /\ pc \in {"table", "payload", "crc", "done"} =>
       \A k \in 1..Len(table) : table[k].offset = Pos(k) /\ table[k].length = parts[k].size
  /\ pc = "payload" => outLen = Pos(i)
  /\ pc \in {"payload", "crc", "done"} => \A k \in 1..Len(at) : at[k] = Pos(k)
  /\ pc \in {"crc", "done"} => outLen = TotalLen

IInv == TypeOK /\ SumsInv /\ Progress /\ Layout

-----------------------------------------------------------------------------
(* Multiplication, once for all: the products the layout uses are naturals *)
(* and grow by one separator, or one descriptor, per partition.            *)
LEMMA Products ==
  ASSUME NEW c \in Nat, NEW k \in Nat
  PROVE  /\ c * k \in Nat /\ k * c \in Nat /\ c * k = k * c
         /\ c * (k + 1) = c * k + c
         /\ \A l \in Nat : k <= l => c * k <= c * l
  OBVIOUS

(* The layout constants are lengths.                                       *)
LEMMA Sizes ==
  /\ HEADER_SIZE \in Nat /\ BIN_INFO_SIZE \in Nat /\ PAYLOAD_SEPARATOR \in Nat
  /\ U32 \in Nat \ {0} /\ U16 \in Nat \ {0}
  BY BuildAssumption

(* A cast to u32 keeps a number that fits.                                 *)
LEMMA Fits ==
  ASSUME NEW n \in Nat, NEW m \in Nat \ {0}, n < m
  PROVE  n % m = n
  OBVIOUS

(* A partition of a well-typed list has a size and header fields of the    *)
(* declared types.                                                         *)
LEMMA PartitionFields ==
  ASSUME TypeOK, NEW k \in 1..Len(parts)
  PROVE  /\ parts[k] \in Partition
         /\ parts[k].size \in Nat
         /\ parts[k].type \in PartitionType
  <1>1. parts[k] \in Partition
    BY DEF TypeOK
  <1> QED BY <1>1 DEF Partition

(* The head of the package has a length.                                   *)
LEMMA HeadLenNat == TypeOK => HeadLen \in Nat /\ Len(parts) \in Nat
  BY BuildAssumption, Products DEF TypeOK, HeadLen

(* A descriptor the builder writes has the on-disk field types.            *)
LEMMA DescriptorType ==
  ASSUME NEW p \in Partition, NEW start \in Nat
  PROVE  DescriptorOf(p, start) \in Descriptor
  BY BuildAssumption DEF Partition, PartitionType, DescriptorOf, Descriptor, as_u32

(* Appending to a sequence: what the loops do with sums, table and at.     *)
LEMMA Appended ==
  ASSUME NEW S, NEW s \in Seq(S), NEW e \in S
  PROVE  /\ Append(s, e) \in Seq(S)
         /\ Len(Append(s, e)) = Len(s) + 1
         /\ Append(s, e)[Len(s) + 1] = e
         /\ \A k \in 1..Len(s) : Append(s, e)[k] = s[k]
  OBVIOUS

-----------------------------------------------------------------------------
(* The initial state satisfies the invariant.                              *)
LEMMA InitIInv == Init => IInv
  <1> SUFFICES ASSUME Init PROVE IInv
    OBVIOUS
  <1>1. TypeOK
    <2>1. parts \in Seq(Partition) /\ cnt \in 0..(U16 - 1) /\ len \in 0..(U32 - 1)
      BY BuildAssumption DEF Init
    <2>2. sums \in Seq(Nat) /\ table \in Seq(Descriptor) /\ at \in Seq(Nat)
      BY DEF Init
    <2> QED BY <2>1, <2>2 DEF Init, TypeOK, Errors
  <1>2. SumsInv /\ Progress
    BY <1>1 DEF Init, SumsInv, Progress, TypeOK
  <1>3. Layout
    BY DEF Init, Layout
  <1> QED BY <1>1, <1>2, <1>3 DEF IInv

(* Leaving the checks, towards an error or towards the walks, changes      *)
(* nothing but pc.                                                         *)
LEMMA CheckStep == IInv /\ (RejectEmpty \/ RejectName \/ Accept) => IInv'
  <1> SUFFICES ASSUME IInv, RejectEmpty \/ RejectName \/ Accept PROVE IInv'
    OBVIOUS
  <1> USE DEF RejectEmpty, RejectName, Accept, IInv
  <1>1. TypeOK'
    BY DEF TypeOK, Errors
  <1>2. SumsInv'
    BY DEF SumsInv
  <1>3. Progress'
    <2>1. pc' = "sum" => parts # << >>
      OBVIOUS
    <2>2. pc' = "sum" => 1 \in 1..Len(parts)
      BY <2>1, EmptySeq DEF TypeOK
    <2> QED BY <2>2 DEF Progress
  <1>4. Layout'
    BY DEF Layout
  <1> QED BY <1>1, <1>2, <1>3, <1>4

(* The summing walk extends the running sums by one exact entry.           *)
LEMMA SumStep == IInv /\ SumPayload => IInv'
  <1> SUFFICES ASSUME IInv, SumPayload PROVE IInv'
    OBVIOUS
  <1> USE DEF IInv, SumPayload
  <1>1. i \in 1..Len(parts) /\ Len(sums) = i /\ sums \in Seq(Nat) /\ Len(parts) \in Nat
    BY DEF Progress, TypeOK
  <1>2. parts[i].size \in Nat /\ sums[i] \in Nat
    BY <1>1, PartitionFields
  <1>3. /\ sums' \in Seq(Nat) /\ Len(sums') = i + 1
        /\ sums'[i + 1] = sums[i] + parts[i].size
        /\ \A k \in 1..i : sums'[k] = sums[k]
    BY <1>1, <1>2, Appended
  <1>4. TypeOK'
    BY <1>1, <1>3 DEF TypeOK
  <1>5. SumsInv'
    <2>1. \A k \in 1..i : sums[k] \in Nat /\ sums[k] <= sums[i]
      BY <1>1 DEF SumsInv
    <2>2. \A k, l \in 1..(i + 1) : k <= l => sums'[k] <= sums'[l]
      BY <2>1, <1>1, <1>2, <1>3 DEF SumsInv
    <2> QED BY <2>2, <1>1, <1>3 DEF SumsInv
  <1>6. Progress'
    BY <1>1, <1>3 DEF Progress
  <1>7. Layout'
    BY DEF Layout, Progress
  <1> QED BY <1>4, <1>5, <1>6, <1>7

(* The header is written only when the total fits, and the offsets start   *)
(* right after the table.                                                  *)
LEMMA HeadStep == IInv /\ (RejectSize \/ EmitHeader) => IInv'
  <1> SUFFICES ASSUME IInv, RejectSize \/ EmitHeader PROVE IInv'
    OBVIOUS
  <1> USE DEF IInv
  <1>1. CASE RejectSize
    <2>1. pc' \in Errors /\ pc' \notin {"check", "sum", "head", "table", "payload", "crc", "done"}
      BY <1>1 DEF RejectSize, Errors
    <2>2. TypeOK'
      BY <1>1, <2>1 DEF RejectSize, TypeOK
    <2>3. SumsInv' /\ Progress' /\ Layout'
      BY <1>1, <2>1 DEF RejectSize, SumsInv, Progress, Layout
    <2> QED BY <2>2, <2>3
  <1>2. CASE EmitHeader
    <2> USE <1>2 DEF EmitHeader
    <2>1. /\ i = 1 /\ Len(parts) \in Nat \ {0} /\ Len(sums) = Len(parts) + 1
          /\ table = << >> /\ at = << >>
      BY DEF Progress, TypeOK
    <2>2. HeadLen \in Nat /\ sums[Len(parts) + 1] \in Nat
      BY <2>1, HeadLenNat DEF TypeOK
    <2>3. TotalLen \in Nat
      BY <2>1, <2>2, Products, BuildAssumption DEF TotalLen
    <2>4. TypeOK'
      BY <2>1, <2>2, <2>3, BuildAssumption DEF TypeOK
    <2>5. SumsInv' /\ Progress'
      BY <2>1 DEF SumsInv, Progress
    <2>6. Layout'
      <3>1. HeadLen' = HeadLen /\ TotalLen' = TotalLen
        BY DEF HeadLen, TotalLen
      <3>2. PAYLOAD_SEPARATOR * 0 = 0 /\ BIN_INFO_SIZE * 0 = 0
        BY BuildAssumption
      <3>3. Pos(1)' = HeadLen
        BY <3>1, <3>2, <2>2 DEF Pos, SumsInv
      <3>4. start_index' = Pos(i)' /\ outLen' = HEADER_SIZE + BIN_INFO_SIZE * (i' - 1)
        BY <2>1, <3>2, <3>3, BuildAssumption
      <3>5. Len(table') = 0
        BY <2>1
      <3> QED BY <3>1, <3>4, <3>5 DEF Layout
    <2> QED BY <2>4, <2>5, <2>6
  <1> QED BY <1>1, <1>2

(* From one partition to the next, Pos advances by what the two later      *)
(* walks add to start_index and to out; past the last partition it is the  *)
(* declared total, which fits in a u32.                                    *)
LEMMA PosStep ==
  ASSUME TypeOK, SumsInv, Len(parts) >= 1, Len(sums) = Len(parts) + 1
  PROVE  /\ \A k \in 1..Len(parts) :
              Pos(k) \in Nat /\ Pos(k) + parts[k].size + PAYLOAD_SEPARATOR = Pos(k + 1)
         /\ \A k \in 1..Len(parts) : HeadLen <= Pos(k) /\ Pos(k) <= TotalLen
         /\ \A k \in 1..Len(parts) : parts[k].size <= TotalLen
         /\ TotalLen = Pos(Len(parts) + 1)
         /\ TotalLen \in Nat
  <1>1. /\ Len(parts) \in Nat \ {0} /\ HeadLen \in Nat /\ PAYLOAD_SEPARATOR \in Nat
        /\ \A k \in 1..(Len(parts) + 1) : sums[k] \in Nat
    BY HeadLenNat, BuildAssumption DEF TypeOK
  <1>2. ASSUME NEW k \in 1..Len(parts)
        PROVE  /\ parts[k].size \in Nat
               /\ sums[k + 1] = sums[k] + parts[k].size
               /\ sums[k] <= sums[Len(parts) + 1] /\ sums[k + 1] <= sums[Len(parts) + 1]
    <2>1. /\ k \in 1..(Len(sums) - 1) /\ k \in 1..Len(sums) /\ k + 1 \in 1..Len(sums)
          /\ Len(parts) + 1 \in 1..Len(sums) /\ k <= Len(parts) + 1 /\ k + 1 <= Len(parts) + 1
      BY <1>1
    <2>2. sums[k + 1] = sums[k] + parts[k].size
      BY <2>1 DEF SumsInv
    <2>3. sums[k] <= sums[Len(parts) + 1] /\ sums[k + 1] <= sums[Len(parts) + 1]
      BY <2>1 DEF SumsInv
    <2> QED BY <2>2, <2>3, PartitionFields
  <1>3. TotalLen = HeadLen + sums[Len(parts) + 1] + PAYLOAD_SEPARATOR * Len(parts)
    BY DEF TotalLen
  <1>4. TotalLen \in Nat /\ TotalLen = Pos(Len(parts) + 1)
    BY <1>1, <1>3, Products DEF Pos
  <1>5. ASSUME NEW k \in 1..Len(parts)
        PROVE  /\ Pos(k) \in Nat /\ Pos(k) + parts[k].size + PAYLOAD_SEPARATOR = Pos(k + 1)
               /\ HeadLen <= Pos(k) /\ Pos(k) <= TotalLen
               /\ parts[k].size <= TotalLen
    <2>1. /\ k - 1 \in Nat /\ (k - 1) + 1 = k /\ (k + 1) - 1 = k
          /\ k \in Nat /\ k - 1 <= Len(parts) /\ k \in 1..(Len(parts) + 1)
      BY <1>1
    <2>2. /\ PAYLOAD_SEPARATOR * (k - 1) \in Nat
          /\ PAYLOAD_SEPARATOR * Len(parts) \in Nat
          /\ PAYLOAD_SEPARATOR * k = PAYLOAD_SEPARATOR * (k - 1) + PAYLOAD_SEPARATOR
          /\ PAYLOAD_SEPARATOR * (k - 1) <= PAYLOAD_SEPARATOR * Len(parts)
      <3>1. PAYLOAD_SEPARATOR * ((k - 1) + 1) = PAYLOAD_SEPARATOR * (k - 1) + PAYLOAD_SEPARATOR
        BY <1>1, <2>1, Products
      <3> QED BY <1>1, <2>1, <3>1, Products
    <2>3. Pos(k) = HeadLen + sums[k] + PAYLOAD_SEPARATOR * (k - 1)
      BY DEF Pos
    <2>4. Pos(k + 1) = HeadLen + sums[k + 1] + PAYLOAD_SEPARATOR * k
      BY <2>1 DEF Pos
    <2>5. /\ sums[k] \in Nat /\ sums[Len(parts) + 1] \in Nat /\ parts[k].size \in Nat
          /\ sums[k + 1] = sums[k] + parts[k].size
          /\ sums[k] <= sums[Len(parts) + 1]
          /\ sums[k + 1] <= sums[Len(parts) + 1]
      BY <1>1, <1>2, <2>1
    <2> DEFINE before == PAYLOAD_SEPARATOR * (k - 1)
               all == PAYLOAD_SEPARATOR * Len(parts)
    <2>6. before \in Nat /\ all \in Nat /\ before <= all
      BY <2>2
    <2>7. HeadLen \in Nat /\ PAYLOAD_SEPARATOR \in Nat /\ sums[k] \in Nat /\ parts[k].size \in Nat
      BY <1>1, <2>5
    <2>8. Pos(k) = HeadLen + sums[k] + before
      BY <2>3
    <2>9. Pos(k + 1) = HeadLen + (sums[k] + parts[k].size) + (before + PAYLOAD_SEPARATOR)
      BY <2>2, <2>4, <2>5
    <2>10. sums[k] + parts[k].size <= sums[Len(parts) + 1] /\ sums[Len(parts) + 1] \in Nat
      BY <2>5
    <2>11. TotalLen = HeadLen + sums[Len(parts) + 1] + all
      BY <1>3
    <2> HIDE DEF before, all
    <2>12. Pos(k) \in Nat /\ HeadLen <= Pos(k)
      BY <2>6, <2>7, <2>8
    <2>13. Pos(k) + parts[k].size + PAYLOAD_SEPARATOR = Pos(k + 1)
      BY <2>6, <2>7, <2>8, <2>9
    <2>14. Pos(k) <= TotalLen /\ parts[k].size <= TotalLen
      <3>1. sums[k] <= sums[Len(parts) + 1] /\ parts[k].size <= sums[Len(parts) + 1]
        BY <2>7, <2>10
      <3> QED BY <2>6, <2>7, <2>8, <2>10, <2>11, <3>1
    <2> QED BY <2>12, <2>13, <2>14
  <1> QED BY <1>4, <1>5

(* One descriptor: its offset is Pos(i), which no cast changes.            *)
LEMMA TableStep == IInv /\ EmitDescriptor => IInv'
  <1> SUFFICES ASSUME IInv, EmitDescriptor PROVE IInv'
    OBVIOUS
  <1> USE DEF IInv
  <1> DEFINE d == DescriptorOf(parts[i], start_index)
  <1>1. /\ i \in 1..Len(parts) /\ Len(table) = i - 1 /\ at = << >>
        /\ Len(parts) \in Nat /\ Len(parts) >= 1 /\ Len(sums) = Len(parts) + 1
        /\ table \in Seq(Descriptor) /\ TotalLen < U32 /\ len = TotalLen
        /\ start_index = Pos(i) /\ outLen = HEADER_SIZE + BIN_INFO_SIZE * (i - 1)
    BY DEF EmitDescriptor, Progress, Layout, TypeOK
  <1>2. /\ parts[i] \in Partition /\ parts[i].size \in Nat /\ Pos(i) \in Nat
        /\ Pos(i) + parts[i].size + PAYLOAD_SEPARATOR = Pos(i + 1)
        /\ Pos(i) <= TotalLen /\ parts[i].size <= TotalLen /\ TotalLen \in Nat
        /\ TotalLen = Pos(Len(parts) + 1)
    BY <1>1, PosStep, PartitionFields
  <1>3. d \in Descriptor /\ d.offset = Pos(i) /\ d.length = parts[i].size
    <2>1. Pos(i) % U32 = Pos(i) /\ parts[i].size % U32 = parts[i].size
      <3>1. Pos(i) < U32 /\ parts[i].size < U32
        <4>1. /\ Pos(i) \in Nat /\ parts[i].size \in Nat /\ TotalLen \in Nat
              /\ Pos(i) <= TotalLen /\ parts[i].size <= TotalLen
          BY <1>2
        <4>2. TotalLen < U32
          BY <1>1
        <4> QED BY <4>1, <4>2, Sizes
      <3> QED BY <1>2, <3>1, Sizes, Fits
    <2>2. d \in Descriptor
      BY <1>1, <1>2, DescriptorType
    <2> QED BY <1>1, <2>1, <2>2 DEF DescriptorOf
  <1>4. /\ table' \in Seq(Descriptor) /\ Len(table') = i
        /\ table'[i] = d /\ \A k \in 1..(i - 1) : table'[k] = table[k]
    <2>1. table' = Append(table, d)
      BY DEF EmitDescriptor
    <2> HIDE DEF d
    <2> QED BY <1>1, <1>3, <2>1, Appended
  <1>5. start_index' = Pos(i + 1) /\ outLen' = outLen + BIN_INFO_SIZE
    <2>1. start_index = Pos(i) /\ Pos(i) + parts[i].size + PAYLOAD_SEPARATOR = Pos(i + 1)
      BY <1>1, <1>2
    <2> QED BY <2>1 DEF EmitDescriptor, NextStart
  <1>6. outLen' = HEADER_SIZE + BIN_INFO_SIZE * i /\ outLen' \in Nat
    <2>1. BIN_INFO_SIZE * ((i - 1) + 1) = BIN_INFO_SIZE * (i - 1) + BIN_INFO_SIZE
      BY <1>1, Products, BuildAssumption
    <2>2. BIN_INFO_SIZE * (i - 1) \in Nat /\ (i - 1) + 1 = i
      BY <1>1, Products, BuildAssumption
    <2> DEFINE before == BIN_INFO_SIZE * (i - 1)
               upto == BIN_INFO_SIZE * i
    <2>3. /\ outLen = HEADER_SIZE + before /\ upto = before + BIN_INFO_SIZE
          /\ before \in Nat
      BY <1>1, <2>1, <2>2
    <2> SUFFICES outLen' = HEADER_SIZE + upto /\ outLen' \in Nat
      OBVIOUS
    <2> HIDE DEF before, upto
    <2> QED BY <1>5, <2>3, Sizes
  <1>7. UNCHANGED <<parts, sums, cnt, len, crc, at>> /\ HeadLen' = HeadLen /\ TotalLen' = TotalLen
    BY DEF EmitDescriptor, HeadLen, TotalLen
  <1>8. TypeOK'
    <2>1. start_index' \in Nat
      <3>1. start_index' = Pos(i) + parts[i].size + PAYLOAD_SEPARATOR
        BY <1>1 DEF EmitDescriptor, NextStart
      <3>2. Pos(i) \in Nat /\ parts[i].size \in Nat
        BY <1>2
      <3> QED BY <3>1, <3>2, Sizes
    <2>2. i' \in Nat \ {0} /\ pc' \in {"table", "payload"}
      BY <1>1 DEF EmitDescriptor
    <2> QED BY <1>4, <1>6, <1>7, <2>1, <2>2 DEF TypeOK
  <1>9. SumsInv'
    BY <1>7 DEF SumsInv
  <1>10. Progress'
    BY <1>1, <1>4, <1>7 DEF EmitDescriptor, Progress
  <1>11. \A k \in 1..Len(table') : table'[k].offset = Pos(k)' /\ table'[k].length = parts'[k].size
    <2>1. \A k : Pos(k)' = HeadLen + sums[k] + PAYLOAD_SEPARATOR * (k - 1)
      BY <1>7 DEF Pos
    <2>2. \A k : Pos(k) = HeadLen + sums[k] + PAYLOAD_SEPARATOR * (k - 1)
      BY DEF Pos
    <2>3. \A k \in 1..(i - 1) : table[k].offset = Pos(k) /\ table[k].length = parts[k].size
      BY <1>1 DEF Layout, EmitDescriptor
    <2>4. \A k \in 1..i : table'[k].offset = Pos(k) /\ table'[k].length = parts[k].size
      <3> HIDE DEF d
      <3> QED BY <1>1, <1>3, <1>4, <2>3
    <2> QED BY <1>4, <1>7, <2>1, <2>2, <2>4
  <1>12. Layout'
    <2>1. Pos(1) = HeadLen /\ \A k : Pos(k)' = Pos(k)
      <3>1. PAYLOAD_SEPARATOR * (1 - 1) = 0 /\ HeadLen \in Nat
        BY HeadLenNat, BuildAssumption
      <3> QED BY <1>7, <3>1 DEF Pos, SumsInv
    <2>2. CASE i = Len(parts)
      <3>1. pc' = "payload" /\ i' = 1
        BY <2>2 DEF EmitDescriptor
      <3>2. outLen' = HeadLen
        <4>1. BIN_INFO_SIZE * i = i * BIN_INFO_SIZE
          BY <1>1, Products, BuildAssumption
        <4> QED BY <1>6, <2>2, <4>1 DEF HeadLen
      <3>3. Len(at') = 0
        BY <1>1, <1>7
      <3> QED BY <1>1, <1>7, <1>11, <2>1, <3>1, <3>2, <3>3 DEF Layout
    <2>3. CASE i # Len(parts)
      <3>1. pc' = "table" /\ i' = i + 1
        BY <2>3 DEF EmitDescriptor
      <3>2. outLen' = HEADER_SIZE + BIN_INFO_SIZE * (i' - 1)
        <4>1. i' - 1 = i
          BY <1>1, <3>1
        <4> QED BY <1>6, <4>1
      <3> QED BY <1>1, <1>5, <1>7, <1>11, <2>1, <3>1, <3>2 DEF Layout
    <2> QED BY <2>2, <2>3
  <1> QED BY <1>8, <1>9, <1>10, <1>12

(* One payload: it lands at Pos(i), where its descriptor says.             *)
LEMMA PayloadStep == IInv /\ EmitPayload => IInv'
  <1> SUFFICES ASSUME IInv, EmitPayload PROVE IInv'
    OBVIOUS
  <1> USE DEF IInv
  <1>1. /\ i \in 1..Len(parts) /\ Len(at) = i - 1 /\ Len(table) = Len(parts)
        /\ Len(parts) \in Nat /\ Len(parts) >= 1 /\ Len(sums) = Len(parts) + 1
        /\ at \in Seq(Nat) /\ TotalLen < U32 /\ len = TotalLen
        /\ outLen = Pos(i)
        /\ \A k \in 1..Len(at) : at[k] = Pos(k)
        /\ \A k \in 1..Len(table) : table[k].offset = Pos(k) /\ table[k].length = parts[k].size
    BY DEF EmitPayload, Progress, Layout, TypeOK
  <1>2. /\ parts[i].size \in Nat /\ Pos(i) \in Nat
        /\ Pos(i) + parts[i].size + PAYLOAD_SEPARATOR = Pos(i + 1)
        /\ TotalLen = Pos(Len(parts) + 1)
    BY <1>1, PosStep, PartitionFields
  <1>3. /\ at' \in Seq(Nat) /\ Len(at') = i
        /\ at'[i] = Pos(i) /\ \A k \in 1..(i - 1) : at'[k] = at[k]
    <2>1. at' = Append(at, Pos(i))
      BY <1>1 DEF EmitPayload
    <2> QED BY <1>1, <1>2, <2>1, Appended
  <1>4. outLen' = Pos(i + 1) /\ outLen' \in Nat
    <2>1. outLen = Pos(i) /\ Pos(i) + parts[i].size + PAYLOAD_SEPARATOR = Pos(i + 1)
      BY <1>1, <1>2
    <2>2. Pos(i) \in Nat /\ parts[i].size \in Nat
      BY <1>2
    <2> QED BY <2>1, <2>2, Sizes DEF EmitPayload
  <1>5. UNCHANGED <<parts, sums, start_index, cnt, len, crc, table>>
    BY DEF EmitPayload
  <1>6. HeadLen' = HeadLen /\ TotalLen' = TotalLen /\ \A k : Pos(k)' = Pos(k)
    BY <1>5 DEF HeadLen, TotalLen, Pos
  <1>7. TypeOK'
    <2>1. i' \in Nat \ {0} /\ pc' \in {"payload", "crc"}
      BY <1>1 DEF EmitPayload
    <2> QED BY <1>3, <1>4, <1>5, <2>1 DEF TypeOK
  <1>8. SumsInv'
    BY <1>5 DEF SumsInv
  <1>9. Progress'
    BY <1>1, <1>3, <1>5 DEF EmitPayload, Progress
  <1>10. Layout'
    <2>1. \A k \in 1..Len(at') : at'[k] = Pos(k)
      BY <1>1, <1>3
    <2>2. CASE i = Len(parts)
      <3>1. pc' = "crc" /\ outLen' = TotalLen
        BY <1>2, <1>4, <2>2 DEF EmitPayload
      <3> QED BY <1>1, <1>5, <1>6, <2>1, <3>1 DEF Layout
    <2>3. CASE i # Len(parts)
      <3>1. pc' = "payload" /\ i' = i + 1
        BY <2>3 DEF EmitPayload
      <3> QED BY <1>1, <1>4, <1>5, <1>6, <2>1, <3>1 DEF Layout
    <2> QED BY <2>2, <2>3
  <1> QED BY <1>7, <1>8, <1>9, <1>10

(* Fixing the CRC up, or staying returned, moves nothing.                  *)
LEMMA LastStep == IInv /\ (FixCrc \/ Returned \/ UNCHANGED vars) => IInv'
  <1> SUFFICES ASSUME IInv, FixCrc \/ UNCHANGED vars PROVE IInv'
    BY DEF Returned
  <1>1. CASE FixCrc
    <2> USE <1>1 DEF FixCrc, IInv
    <2>1. UNCHANGED <<parts, i, sums, start_index, cnt, len, table, at, outLen>> /\ pc' = "done"
      OBVIOUS
    <2>2. TypeOK'
      BY <2>1 DEF TypeOK
    <2>3. SumsInv' /\ Progress'
      BY <2>1 DEF SumsInv, Progress
    <2>4. Layout'
      BY <2>1 DEF Layout, Pos, HeadLen, TotalLen
    <2> QED BY <2>2, <2>3, <2>4
  <1>2. CASE UNCHANGED vars
    BY <1>2 DEF vars, IInv, TypeOK, SumsInv, Progress, Layout, Pos, HeadLen, TotalLen
  <1> QED BY <1>1, <1>2

-----------------------------------------------------------------------------
(* The invariant is inductive.                                             *)
LEMMA Invariance == Spec => []IInv
  <1>1. IInv /\ [Next]_vars => IInv'
    BY CheckStep, SumStep, HeadStep, TableStep, PayloadStep, LastStep DEF Next, Step
  <1> QED BY InitIInv, <1>1, PTL DEF Spec

(* The builder's state is well typed: in particular the count and the      *)
(* descriptor fields always fit the on-disk integers they are stored in.   *)
THEOREM BuildTypeOK == Spec => []TypeOK
  <1>1. IInv => TypeOK
    BY DEF IInv
  <1> QED BY Invariance, <1>1, PTL

(* The closed form is that of the walk and of the write.                   *)
LEMMA TableLocates == IInv => DescriptorsLocatePayloads
  BY DEF IInv, TypeOK, Progress, Layout, DescriptorsLocatePayloads

(* A returned package is found where its table says it is: whatever the    *)
(* number and the lengths of the partitions, every descriptor of a package *)
(* build_fwpkg returns holds the exact offset and length of its payload.   *)
THEOREM BuildLocatesPayloads == Spec => []DescriptorsLocatePayloads
  BY Invariance, TableLocates, PTL

(* debug_assert_eq!(out.len(), total_len) cannot fire, and the header of a *)
(* returned package declares its real length.                              *)
THEOREM BuildDeclaredLength == Spec => []DeclaredLength
  <1>1. IInv => DeclaredLength
    BY DEF IInv, Layout, DeclaredLength
  <1> QED BY Invariance, <1>1, PTL

(* Positions grow by a payload and a separator each.                       *)
LEMMA PayloadsApart == IInv => PayloadsDisjoint
  <1> SUFFICES ASSUME IInv, pc = "done", NEW k \in 1..Len(at)
               PROVE  /\ at[k] >= HeadLen
                      /\ at[k] + parts[k].size + PAYLOAD_SEPARATOR <= outLen
                      /\ \A l \in (k + 1)..Len(at) :
                           at[k] + parts[k].size + PAYLOAD_SEPARATOR <= at[l]
    BY DEF PayloadsDisjoint
  <1>1. /\ Len(at) = Len(parts) /\ Len(parts) \in Nat /\ Len(parts) >= 1
        /\ Len(sums) = Len(parts) + 1 /\ outLen = TotalLen
        /\ \A l \in 1..Len(parts) : at[l] = Pos(l)
    BY DEF IInv, TypeOK, Progress, Layout
  <1>2. /\ HeadLen <= Pos(k) /\ Pos(k) + parts[k].size + PAYLOAD_SEPARATOR = Pos(k + 1)
        /\ HeadLen \in Nat /\ Pos(k) \in Nat /\ TotalLen \in Nat
        /\ TotalLen = Pos(Len(parts) + 1)
    BY <1>1, PosStep, HeadLenNat DEF IInv
  <1>3. ASSUME NEW l \in (k + 1)..(Len(parts) + 1) PROVE Pos(k + 1) <= Pos(l)
    <2>1. sums[k + 1] \in Nat /\ sums[l] \in Nat /\ sums[k + 1] <= sums[l]
      <3>1. k + 1 \in 1..Len(sums) /\ l \in 1..Len(sums) /\ k + 1 <= l
        BY <1>1
      <3>2. sums \in Seq(Nat)
        BY DEF IInv, TypeOK
      <3>3. sums[k + 1] <= sums[l]
        BY <3>1 DEF IInv, SumsInv
      <3> QED BY <3>1, <3>2, <3>3
    <2>2. /\ PAYLOAD_SEPARATOR * ((k + 1) - 1) <= PAYLOAD_SEPARATOR * (l - 1)
          /\ PAYLOAD_SEPARATOR * ((k + 1) - 1) \in Nat
          /\ PAYLOAD_SEPARATOR * (l - 1) \in Nat
      <3>1. (k + 1) - 1 \in Nat /\ l - 1 \in Nat /\ (k + 1) - 1 <= l - 1
        BY <1>1
      <3> QED BY <3>1, Products, BuildAssumption
    <2> DEFINE low == PAYLOAD_SEPARATOR * ((k + 1) - 1)
               high == PAYLOAD_SEPARATOR * (l - 1)
    <2>3. /\ Pos(k + 1) = HeadLen + sums[k + 1] + low /\ Pos(l) = HeadLen + sums[l] + high
          /\ low \in Nat /\ high \in Nat /\ low <= high
      BY <2>2 DEF Pos
    <2> HIDE DEF low, high
    <2> QED BY <1>2, <2>1, <2>3
  <1>4. Pos(k + 1) <= TotalLen
    BY <1>1, <1>2, <1>3
  <1>5. \A l \in (k + 1)..Len(at) : Pos(k + 1) <= at[l]
    BY <1>1, <1>3
  <1> QED BY <1>1, <1>2, <1>4, <1>5

(* No payload of a package that build_fwpkg returns touches the table or    *)
(* another payload: the separator is between them, and after the last.     *)
THEOREM BuildPayloadsDisjoint == Spec => []PayloadsDisjoint
  BY Invariance, PayloadsApart, PTL
=============================================================================

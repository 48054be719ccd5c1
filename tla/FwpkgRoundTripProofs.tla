------------------------- MODULE FwpkgRoundTripProofs -------------------------
(***************************************************************************)
(* Proofs about a package handed over, for every list of partitions, every *)
(* cut and every byte that Damaged changes.  The builder's invariant says   *)
(* what is in the file, the parser's what has been read of it; between     *)
(* them only the file is known.  The CRC is reasoned about by what its     *)
(* steps keep: each can be undone, so what one wrong byte has changed      *)
(* stays changed.                                                          *)
(***************************************************************************)
EXTENDS FwpkgRoundTrip, FwpkgBuildProofs, WellFoundedInduction

(* The table says of every partition what the writer said, and the header  *)
(* is the finished one.                                                    *)
Described ==
  /\ parts \in Inputs
  /\ \A k \in 1..Len(table) :
       /\ table[k].name = parts[k].name
       /\ table[k].burn_addr = parts[k].burn_addr
       /\ table[k].burn_size = parts[k].burn_size
       /\ table[k].type = as_u32(parts[k].type)
  /\ pc \in {"table", "payload", "crc", "done"} => cnt = Len(parts) % U16
  /\ pc = "done" => crc = <<cnt, len, table>>

Arrivals == {[Packed EXCEPT !.size = kept] : kept \in 0..outLen} \cup Damaged(Packed)

(* Nothing is read before the package is finished and handed over.         *)
Handed ==
  /\ ppc = "idle" => file = NoFile /\ j = 1 /\ bins = << >>
  /\ ppc # "idle" => pc = "done" /\ file \in Arrivals

(* How far the parser's loops have come, and what they have found.         *)
Reading ==
  ppc # "idle" =>
    /\ ppc \in P!Refusals \cup {"open", "table", "bounds", "ok"}
    /\ bins = [k \in 1..Len(bins) |-> P!BinInfo(file.table[k])]
    /\ Len(bins) \in Nat /\ Len(bins) <= file.cnt
    /\ ppc = "open" => j = 1 /\ bins = << >>
    /\ ppc \in {"table", "bounds", "ok"} => file.version # "none"
    /\ ppc = "table" => j \in 1..file.cnt /\ Len(bins) = j - 1
    /\ ppc = "bounds" => j \in 1..file.cnt /\ \A k \in 1..(j - 1) : P!InBounds(bins[k])
    /\ ppc \in {"bounds", "ok"} => Len(bins) = file.cnt
    /\ ppc = "ok" => \A k \in 1..file.cnt : P!InBounds(bins[k])

(* What verify_crc has answered is what it would answer now.               *)
Verified ==
  /\ crc_valid \in {"unknown", "valid", "invalid"}
  /\ crc_valid # "unknown" => ppc = "ok"
  /\ crc_valid = "valid" => P!verify_crc
  /\ crc_valid = "invalid" => ~P!verify_crc

HandOverInv == IInv /\ Described /\ Handed /\ Reading /\ Verified

-----------------------------------------------------------------------------
(* The count in the header is at most the number of partitions.            *)
LEMMA Remainder ==
  ASSUME NEW n \in Nat, NEW m \in Nat \ {0}
  PROVE  n % m \in Nat /\ n % m <= n
  <1>1. n % m \in 0..(m - 1)
    OBVIOUS
  <1>2. CASE n < m
    BY <1>2
  <1>3. CASE ~(n < m)
    BY <1>1, <1>3
  <1> QED
    BY <1>1, <1>2, <1>3

(* A package that arrives, whole, cut or damaged, still has a length and a  *)
(* count, and none of them is more than what was packed.                   *)
LEMMA ArrivalFields ==
  ASSUME TypeOK, NEW f \in Arrivals
  PROVE  /\ f # NoFile
         /\ f.version \in {"V1", "none"}
         /\ f.size \in 0..outLen
         /\ f.cnt \in Nat /\ f.cnt <= cnt
         /\ f.len \in 0..(U32 - 1)
  <1> DEFINE sum == P!crc16_xmodem(P!head_bytes(crc[1], crc[2], crc[3]))
  <1>1. Packed = [size |-> outLen, version |-> "V1", cnt |-> cnt, len |-> len, table |-> table,
                  crc |-> sum]
    BY DEF Packed
  <1>2. outLen \in Nat /\ cnt \in Nat /\ len \in 0..(U32 - 1) /\ Stray \subseteq 0..(U32 - 1)
    BY HandOverAssumption, Sizes DEF TypeOK
  <1> HIDE DEF sum
  <1>3. CASE f \in {[Packed EXCEPT !.size = kept] : kept \in 0..outLen}
    <2>1. PICK kept \in 0..outLen : f = [Packed EXCEPT !.size = kept]
      BY <1>3, Zenon
    <2> QED
      BY <1>1, <1>2, <2>1 DEF NoFile
  <1>4. CASE f \in OtherMagic(Packed) \cup OtherSum(Packed)
    BY <1>1, <1>2, <1>4 DEF NoFile, OtherMagic, OtherSum
  <1>5. CASE f \in OtherLength(Packed)
    <2>1. PICK v \in Mistaken(Packed.len) : f = [Packed EXCEPT !.len = v]
      BY <1>5, Zenon DEF OtherLength
    <2>2. v \in Stray
      BY DEF Mistaken
    <2> QED
      BY <1>1, <1>2, <2>1, <2>2 DEF NoFile
  <1>6. CASE f \in SmallerCount(Packed)
    <2>1. PICK v \in {w \in Mistaken(Packed.cnt) : w < Packed.cnt} : f = [Packed EXCEPT !.cnt = v]
      BY <1>6, Zenon DEF SmallerCount
    <2>2. v \in Stray /\ v < Packed.cnt
      BY DEF Mistaken
    <2> QED
      BY <1>1, <1>2, <2>1, <2>2, Sizes DEF NoFile
  <1>7. CASE f \in OtherName(Packed)
    <2>1. PICK k, d : f = WithRow(Packed, k, d)
      BY <1>7, Zenon DEF OtherName, WithName
    <2> QED
      BY <1>1, <1>2, <2>1 DEF NoFile, WithRow
  <1>8. CASE f \in OtherField(Packed)
    <2>1. PICK k, field : f \in WithField(Packed, k, field)
      BY <1>8 DEF OtherField
    <2>2. PICK d : f = WithRow(Packed, k, d)
      BY <2>1, Zenon DEF WithField
    <2> QED
      BY <1>1, <1>2, <2>2 DEF NoFile, WithRow
  <1> QED
    BY <1>3, <1>4, <1>5, <1>6, <1>7, <1>8, Zenon DEF Arrivals, Damaged

-----------------------------------------------------------------------------
(* What depends on the builder's state only stays when that does.          *)
LEMMA BuilderUnchanged ==
  ASSUME IInv, Described, UNCHANGED vars
  PROVE  /\ IInv' /\ Described' /\ Packed' = Packed /\ Arrivals' = Arrivals
         /\ UNCHANGED <<parts, pc, cnt, len, crc, table, at, outLen>>
  <1>1. IInv'
    BY LastStep
  <1>2. UNCHANGED <<parts, pc, cnt, len, crc, table, at, outLen>>
    BY DEF vars
  <1>3. Described'
    BY <1>2 DEF Described, as_u32
  <1>4. Packed' = Packed
    BY <1>2, Zenon DEF Packed
  <1>5. Arrivals' = Arrivals
    BY <1>2, <1>4, Zenon DEF Arrivals
  <1> QED
    BY <1>1, <1>2, <1>3, <1>4, <1>5

(* And what depends on the file and the bins, when those do.               *)
LEMMA VerdictUnchanged ==
  ASSUME UNCHANGED <<file, bins>>
  PROVE  P!verify_crc' = P!verify_crc
  BY Zenon DEF P!verify_crc

(* Nothing is built, nothing handed over.                                  *)
LEMMA Initially == RTInit => HandOverInv
  <1> SUFFICES ASSUME RTInit PROVE HandOverInv
    OBVIOUS
  <1>1. IInv
    BY InitIInv DEF RTInit
  <1>2. Described
    BY DEF RTInit, Init, Described
  <1>3. Handed /\ Reading /\ Verified
    BY DEF RTInit, Handed, Reading, Verified
  <1> QED
    BY <1>1, <1>2, <1>3 DEF HandOverInv

(* The builder works before anything is handed over.                       *)
LEMMA Building == ASSUME HandOverInv, Build PROVE HandOverInv'
  <1>1. Step /\ UNCHANGED <<file, ppc, j, bins, crc_valid>> /\ pc # "done"
    BY DEF Build, reader, parser, Step, RejectEmpty, RejectName, Accept, SumPayload, RejectSize,
           EmitHeader, EmitDescriptor, EmitPayload, FixCrc
  <1>2. ppc = "idle" /\ crc_valid = "unknown"
    BY <1>1 DEF HandOverInv, Handed, Verified
  <1>3. IInv'
    BY <1>1, CheckStep, SumStep, HeadStep, TableStep, PayloadStep, LastStep DEF Step, HandOverInv
  <1>4. Handed' /\ Reading' /\ Verified'
    BY <1>1, <1>2 DEF HandOverInv, Handed, Reading, Verified
  <1>5. Described'
    <2>1. TypeOK /\ Progress /\ Described /\ IInv
      BY DEF HandOverInv, IInv
    <2>4. UNCHANGED parts
      BY <1>1 DEF Step, RejectEmpty, RejectName, Accept, SumPayload, RejectSize,
                  EmitHeader, EmitDescriptor, EmitPayload, FixCrc
    <2>2. CASE EmitDescriptor
      <3>1. /\ pc = "table" /\ i \in 1..Len(parts) /\ Len(table) = i - 1
            /\ table \in Seq(Descriptor) /\ parts \in Seq(Partition)
            /\ table' = Append(table, DescriptorOf(parts[i], start_index))
            /\ UNCHANGED <<parts, cnt, len, crc>> /\ pc' \in {"table", "payload"}
            /\ start_index \in Nat
        BY <2>1, <2>2 DEF EmitDescriptor, Progress, TypeOK
      <3>2. parts[i] \in Partition
        BY <3>1
      <3>3. DescriptorOf(parts[i], start_index) \in Descriptor
        BY <3>1, <3>2, DescriptorType
      <3>4. ASSUME NEW k \in 1..Len(table')
            PROVE  /\ table'[k].name = parts[k].name
                   /\ table'[k].burn_addr = parts[k].burn_addr
                   /\ table'[k].burn_size = parts[k].burn_size
                   /\ table'[k].type = as_u32(parts[k].type)
        <4>1. Len(table') = i
          BY <3>1, <3>3
        <4>2. CASE k = i
          <5>1. table'[k] = DescriptorOf(parts[i], start_index)
            BY <3>1, <3>3, <4>2
          <5> QED
            BY <4>2, <5>1 DEF DescriptorOf
        <4>3. CASE k # i
          <5>1. k \in 1..Len(table) /\ table'[k] = table[k]
            BY <3>1, <3>3, <4>1, <4>3
          <5> QED
            BY <2>1, <5>1 DEF Described
        <4> QED
          BY <4>2, <4>3
      <3> QED
        BY <2>1, <3>1, <3>4 DEF Described, as_u32
    <2>3. CASE ~EmitDescriptor
      <3>1. UNCHANGED table
        BY <1>1, <2>3 DEF Step, RejectEmpty, RejectName, Accept, SumPayload, RejectSize,
           EmitHeader, EmitPayload, FixCrc
      <3>2. pc' \in {"table", "payload", "crc", "done"} => cnt' = Len(parts) % U16
        BY <1>1, <2>1, <2>3 DEF Described, Step, RejectEmpty, RejectName, Accept, SumPayload,
           RejectSize, EmitHeader, EmitPayload, FixCrc
      <3>3. pc' = "done" => crc' = <<cnt', len', table'>>
        BY <1>1, <2>1, <2>3 DEF Step, RejectEmpty, RejectName, Accept, SumPayload,
           RejectSize, EmitHeader, EmitPayload, FixCrc
      <3> QED
        BY <2>1, <2>4, <3>1, <3>2, <3>3 DEF Described, as_u32
    <2> QED
      BY <2>2, <2>3
  <1> QED
    BY <1>3, <1>4, <1>5 DEF HandOverInv

(* Whatever arrives is one of the arrivals.                                *)
LEMMA HandingOver == ASSUME HandOverInv, HandOver PROVE HandOverInv'
  <1>1. /\ pc = "done" /\ ppc = "idle" /\ ppc' = "open"
        /\ UNCHANGED <<vars, j, bins, crc_valid>>
    BY DEF HandOver
  <1>2. file' \in Arrivals
    BY Zenon DEF HandOver, Arrivals
  <1>3. /\ IInv' /\ Described' /\ Arrivals' = Arrivals /\ pc' = "done"
    BY <1>1, BuilderUnchanged DEF HandOverInv
  <1>4. Handed' /\ j' = 1 /\ bins' = << >>
    BY <1>1, <1>2, <1>3 DEF HandOverInv, Handed
  <1>5. crc_valid' = "unknown"
    BY <1>1 DEF HandOverInv, Verified
  <1>6. Verified'
    BY <1>5 DEF Verified
  <1>7. file'.cnt \in Nat
    BY <1>2, ArrivalFields DEF HandOverInv, IInv
  <1>8. Reading'
    BY <1>1, <1>4, <1>7 DEF Reading
  <1> QED
    BY <1>3, <1>4, <1>6, <1>8 DEF HandOverInv

(* While the file is read, it and the package it was made of stay.         *)
LEMMA ParserSteps ==
  ASSUME HandOverInv, Parse
  PROVE  /\ IInv' /\ Described' /\ Handed' /\ Verified'
         /\ UNCHANGED file /\ file.cnt \in Nat /\ ppc # "idle" /\ ppc' # "idle"
  <1>1. ppc # "idle" /\ P!Step /\ UNCHANGED vars /\ crc_valid' = crc_valid
    BY DEF Parse
  <1>2. pc = "done" /\ file \in Arrivals
    BY <1>1 DEF HandOverInv, Handed
  <1>3. file.cnt \in Nat
    BY <1>2, ArrivalFields DEF HandOverInv, IInv
  <1>4. UNCHANGED file /\ ppc # "ok" /\ ppc' # "idle"
    BY <1>1 DEF P!Step, P!HeaderShort, P!WrongMagic, P!PackageNameShort, P!TooManyPartitions,
                P!TableShort, P!HeaderAccepted, P!ReadDescriptor, P!CheckBounds, P!OutOfBounds,
                P!Refuse, P!VersionRead, P!HeaderRead
  <1>5. IInv' /\ Described' /\ Arrivals' = Arrivals /\ pc' = pc
    BY <1>1, BuilderUnchanged DEF HandOverInv
  <1>6. Handed'
    BY <1>1, <1>2, <1>4, <1>5 DEF Handed
  <1>7. Verified'
    BY <1>1, <1>4 DEF HandOverInv, Verified
  <1> QED
    BY <1>1, <1>3, <1>4, <1>5, <1>6, <1>7

(* A refusal reads nothing more.                                           *)
LEMMA Refusing ==
  ASSUME HandOverInv, Parse, NEW reason \in P!Refusals, P!Refuse(reason)
  PROVE  Reading'
  <1>1. ppc' = reason /\ UNCHANGED <<file, j, bins>>
    BY DEF P!Refuse
  <1>2. ppc # "idle"
    BY ParserSteps
  <1>3. reason \notin {"open", "table", "bounds", "ok"}
    BY DEF P!Refusals
  <1>4. /\ bins = [k \in 1..Len(bins) |-> P!BinInfo(file.table[k])]
        /\ Len(bins) \in Nat /\ Len(bins) <= file.cnt
    BY <1>2 DEF HandOverInv, Reading
  <1>5. /\ bins' = [k \in 1..Len(bins') |-> P!BinInfo(file'.table[k])]
        /\ Len(bins') \in Nat /\ Len(bins') <= file'.cnt
    BY <1>1, <1>4
  <1> QED
    BY <1>1, <1>3, <1>5 DEF Reading

(* The table is to be read, unless it is empty.                            *)
LEMMA Accepting == ASSUME HandOverInv, Parse, P!HeaderAccepted PROVE Reading'
  <1>1. /\ ppc = "open" /\ ppc' = (IF file.cnt = 0 THEN "ok" ELSE "table")
        /\ UNCHANGED <<file, j, bins>> /\ file.version # "none"
    BY DEF P!HeaderAccepted, P!VersionRead, P!HeaderRead
  <1>2. j = 1 /\ bins = << >>
    BY <1>1 DEF HandOverInv, Reading
  <1>3. file.cnt \in Nat
    BY ParserSteps
  <1> QED
    BY <1>1, <1>2, <1>3 DEF Reading

(* One more descriptor of the table.                                       *)
LEMMA ReadingOne == ASSUME HandOverInv, Parse, P!ReadDescriptor PROVE Reading'
  <1>1. /\ ppc = "table" /\ bins' = Append(bins, P!BinInfo(file.table[j])) /\ UNCHANGED file
        /\ IF j = file.cnt THEN j' = 1 /\ ppc' = "bounds" ELSE j' = j + 1 /\ ppc' = "table"
    BY DEF P!ReadDescriptor
  <1>2. /\ j \in 1..file.cnt /\ Len(bins) = j - 1 /\ file.cnt \in Nat /\ file.version # "none"
        /\ bins = [k \in 1..Len(bins) |-> P!BinInfo(file.table[k])]
    BY <1>1, ParserSteps DEF HandOverInv, Reading
  <1>3. bins = [k \in 1..(j - 1) |-> P!BinInfo(file.table[k])]
    BY <1>2
  <1>4. bins' = [k \in 1..j |-> P!BinInfo(file.table[k])]
    BY <1>1, <1>2, <1>3
  <1>5. Len(bins') = j
    BY <1>2, <1>4
  <1>6. /\ bins' = [k \in 1..Len(bins') |-> P!BinInfo(file'.table[k])]
        /\ Len(bins') \in Nat /\ Len(bins') <= file'.cnt
    BY <1>1, <1>2, <1>4, <1>5
  <1>7. CASE j = file.cnt
    BY <1>1, <1>2, <1>5, <1>6, <1>7 DEF Reading
  <1>8. CASE j # file.cnt
    BY <1>1, <1>2, <1>5, <1>6, <1>8 DEF Reading
  <1> QED
    BY <1>7, <1>8

(* One more range is inside the file.                                      *)
LEMMA Bounding == ASSUME HandOverInv, Parse, P!CheckBounds PROVE Reading'
  <1>1. /\ ppc = "bounds" /\ P!InBounds(bins[j]) /\ UNCHANGED <<file, bins>>
        /\ IF j = file.cnt THEN j' = 1 /\ ppc' = "ok" ELSE j' = j + 1 /\ ppc' = "bounds"
    BY DEF P!CheckBounds
  <1>2. /\ j \in 1..file.cnt /\ file.cnt \in Nat /\ Len(bins) = file.cnt
        /\ file.version # "none"
        /\ bins = [k \in 1..Len(bins) |-> P!BinInfo(file.table[k])]
        /\ \A k \in 1..(j - 1) : P!InBounds(bins[k])
    BY <1>1, ParserSteps DEF HandOverInv, Reading
  <1>3. \A k \in 1..j : P!InBounds(bins[k])
    BY <1>1, <1>2
  <1>4. \A k \in 1..j : P!InBounds(bins[k])'
    BY <1>1, <1>3 DEF P!InBounds
  <1>5. /\ bins' = [k \in 1..Len(bins') |-> P!BinInfo(file'.table[k])]
        /\ Len(bins') \in Nat /\ Len(bins') <= file'.cnt /\ Len(bins') = file'.cnt
    BY <1>1, <1>2
  <1>6. CASE j = file.cnt
    BY <1>1, <1>2, <1>4, <1>5, <1>6 DEF Reading, P!InBounds
  <1>7. CASE j # file.cnt
    BY <1>1, <1>2, <1>4, <1>5, <1>7 DEF Reading, P!InBounds
  <1> QED
    BY <1>6, <1>7

(* All of from_bytes.                                                      *)
LEMMA Parsing == ASSUME HandOverInv, Parse PROVE HandOverInv'
  <1>1. P!Step
    BY DEF Parse
  <1>2. CASE P!HeaderAccepted \/ P!ReadDescriptor \/ P!CheckBounds
    BY <1>2, ParserSteps, Accepting, ReadingOne, Bounding DEF HandOverInv
  <1>3. CASE \E reason \in P!Refusals : P!Refuse(reason)
    BY <1>3, ParserSteps, Refusing DEF HandOverInv
  <1>4. CASE P!HeaderShort \/ P!WrongMagic \/ P!PackageNameShort \/ P!TooManyPartitions
               \/ P!TableShort \/ P!OutOfBounds
    <2>1. \E reason \in P!Refusals : P!Refuse(reason)
      BY <1>4 DEF P!HeaderShort, P!WrongMagic, P!PackageNameShort, P!TooManyPartitions,
                  P!TableShort, P!OutOfBounds, P!Refusals
    <2> QED
      BY <1>3, <2>1
  <1> QED
    BY <1>1, <1>2, <1>4 DEF P!Step

(* The verdict is that of the file as it was read.                         *)
LEMMA Verifying == ASSUME HandOverInv, VerifyCrc PROVE HandOverInv'
  <1>1. /\ ppc = "ok" /\ UNCHANGED <<vars, file, ppc, j, bins>>
        /\ crc_valid' = IF P!verify_crc THEN "valid" ELSE "invalid"
    BY DEF VerifyCrc, parser
  <1>2. IInv' /\ Described' /\ Arrivals' = Arrivals /\ pc' = pc
    BY <1>1, BuilderUnchanged DEF HandOverInv
  <1>3. Handed' /\ Reading'
    BY <1>1, <1>2 DEF HandOverInv, Handed, Reading, P!InBounds
  <1>4. P!verify_crc' = P!verify_crc
    BY <1>1, VerdictUnchanged
  <1>5. Verified'
    BY <1>1, <1>4 DEF Verified
  <1> QED
    BY <1>2, <1>3, <1>5 DEF HandOverInv

(* All steps together.                                                     *)
LEMMA Inductive == HandOverInv /\ [RTNext]_all => HandOverInv'
  <1> SUFFICES ASSUME HandOverInv, [RTNext]_all PROVE HandOverInv'
    OBVIOUS
  <1>1. CASE BuildFailed \/ Answered \/ UNCHANGED all
    <2>1. UNCHANGED <<vars, file, ppc, j, bins, crc_valid>>
      BY <1>1 DEF BuildFailed, Answered, all, reader, parser
    <2>2. IInv' /\ Described' /\ Arrivals' = Arrivals /\ pc' = pc
      BY <2>1, BuilderUnchanged DEF HandOverInv
    <2>3. Handed' /\ Reading'
      BY <2>1, <2>2 DEF HandOverInv, Handed, Reading, P!InBounds
    <2>4. P!verify_crc' = P!verify_crc
      BY <2>1, VerdictUnchanged
    <2>5. Verified'
      BY <2>1, <2>4 DEF HandOverInv, Verified
    <2> QED
      BY <2>2, <2>3, <2>5 DEF HandOverInv
  <1> QED
    BY <1>1, Building, HandingOver, Parsing, Verifying DEF RTNext, RTStep

(* So the invariant holds throughout.                                      *)
LEMMA HandOverInvariance == RTSpec => []HandOverInv
  BY Initially, Inductive, PTL DEF RTSpec

-----------------------------------------------------------------------------
(* The types of the file between the tools, of the parts it is made of and *)
(* of what is read of it.                                                  *)
THEOREM RoundTripTypes == RTSpec => []RTTypeOK
  <1>1. HandOverInv => RTTypeOK
    <2> SUFFICES ASSUME HandOverInv PROVE RTTypeOK
      OBVIOUS
    <2>1. TypeOK
      BY DEF HandOverInv, IInv
    <2>2. CASE ppc = "idle"
      <3>1. file = NoFile /\ Len(bins) = 0
        BY <2>2 DEF HandOverInv, Handed
      <3>2. Len(parts) \in Nat
        BY <2>1 DEF TypeOK
      <3> QED
        BY <2>1, <2>2, <3>1, <3>2 DEF RTTypeOK, HandOverInv, Verified
    <2>3. CASE ppc # "idle"
      <3>1. pc = "done" /\ file \in Arrivals
        BY <2>3 DEF HandOverInv, Handed
      <3>2. /\ file # NoFile /\ file.size \in 0..outLen /\ file.len \in 0..(U32 - 1)
            /\ file.cnt \in Nat /\ file.cnt <= cnt
        BY <2>1, <3>1, ArrivalFields
      <3>3. cnt = Len(parts) % U16 /\ Len(parts) \in Nat
        BY <2>1, <3>1 DEF TypeOK, HandOverInv, Described
      <3>4. cnt \in Nat /\ cnt <= Len(parts)
        BY <3>3, Remainder, Sizes
      <3>5. Len(bins) \in Nat /\ Len(bins) <= file.cnt
        BY <2>3 DEF HandOverInv, Reading
      <3>6. Len(bins) <= Len(parts)
        BY <3>2, <3>3, <3>4, <3>5
      <3> QED
        BY <2>1, <2>3, <3>2, <3>6 DEF RTTypeOK, HandOverInv, Verified
    <2> QED
      BY <2>2, <2>3
  <1> QED
    BY <1>1, HandOverInvariance, PTL

-----------------------------------------------------------------------------
(* build_fwpkg casts the number of partitions to u16, and from_bytes takes  *)
(* MAX_PARTITIONS of them.                                                 *)
CountsFit == \A list \in Inputs : Len(list) < U16

CountsParse == \A list \in Inputs : Len(list) <= MAX_PARTITIONS

(* What an undamaged file says, however short, is what was packed.         *)
LEMMA Undamaged ==
  ASSUME HandOverInv, ppc # "idle", ~Tampered
  PROVE  /\ file.version = "V1" /\ file.cnt = cnt /\ file.len = len /\ file.table = table
         /\ file.crc = P!crc16_xmodem(P!head_bytes(cnt, len, table))
         /\ cnt = Len(parts) % U16 /\ pc = "done"
         /\ file.size \in 0..outLen
  <1>1. pc = "done" /\ file \in Arrivals /\ TypeOK
    BY DEF HandOverInv, Handed, IInv
  <1>2. file = [Packed EXCEPT !.size = file.size]
    BY DEF Tampered
  <1>3. crc = <<cnt, len, table>> /\ cnt = Len(parts) % U16
    BY <1>1 DEF HandOverInv, Described
  <1>4. crc[1] = cnt /\ crc[2] = len /\ crc[3] = table
    BY <1>3
  <1> DEFINE sum == P!crc16_xmodem(P!head_bytes(cnt, len, table))
  <1>5. Packed = [size |-> outLen, version |-> "V1", cnt |-> cnt, len |-> len, table |-> table,
                  crc |-> sum]
    BY <1>4, Zenon DEF Packed
  <1> HIDE DEF sum
  <1>6. /\ file.version = "V1" /\ file.cnt = cnt /\ file.len = len /\ file.table = table
        /\ file.crc = sum
    BY <1>2, <1>5
  <1>7. file.size \in 0..outLen
    BY <1>1, ArrivalFields
  <1> QED
    BY <1>1, <1>3, <1>6, <1>7 DEF sum

(* verify_crc sums what FixCrc has summed.                                 *)
LEMMA UndamagedVerifies ==
  ASSUME HandOverInv, CountsFit, ppc = "ok", ~Tampered
  PROVE  P!verify_crc
  <1>1. /\ file.cnt = cnt /\ file.len = len /\ file.table = table
        /\ file.crc = P!crc16_xmodem(P!head_bytes(cnt, len, table))
        /\ cnt = Len(parts) % U16 /\ pc = "done"
    BY Undamaged
  <1>2. Len(parts) \in Nat /\ Len(parts) < U16 /\ table \in Seq(Descriptor) /\ Len(table) = Len(parts)
    BY <1>1 DEF CountsFit, HandOverInv, IInv, TypeOK, Progress, Described
  <1>3. cnt = Len(table)
    BY <1>1, <1>2, Fits, Sizes
  <1>4. Len(bins) = Len(table)
    BY <1>1, <1>3 DEF HandOverInv, Reading
  <1>5. SubSeq(table, 1, Len(table)) = table
    BY <1>2
  <1> QED
    BY <1>1, <1>4, <1>5, Zenon DEF P!verify_crc

(* What the reader accepts of a package that nobody changed, verify_crc    *)
(* confirms, for every list of partitions that the count can number.       *)
THEOREM RoundTripAcceptedVerifies ==
  ASSUME CountsFit
  PROVE  RTSpec => []AcceptedVerifies
  <1>1. HandOverInv => AcceptedVerifies
    BY UndamagedVerifies DEF AcceptedVerifies, HandOverInv, Verified
  <1> QED
    BY <1>1, HandOverInvariance, PTL

-----------------------------------------------------------------------------
(* A partition whose descriptor is intact lies where its payload was        *)
(* appended.                                                               *)
LEMMA IntactBin ==
  ASSUME HandOverInv, ppc # "idle", NEW k \in 1..Len(bins), file.table[k] = table[k]
  PROVE  /\ k \in 1..Len(parts)
         /\ bins[k] = P!BinInfo(table[k])
         /\ table[k] \in Descriptor
         /\ table[k].offset = at[k] /\ table[k].length = parts[k].size
         /\ at[k] \in Nat /\ parts[k].size \in Nat
  <1>1. /\ pc = "done" /\ cnt = Len(parts) % U16 /\ file.cnt \in Nat /\ file.cnt <= cnt
    BY ArrivalFields DEF HandOverInv, Handed, Described, IInv
  <1>2. IInv /\ TypeOK /\ Progress
    BY DEF HandOverInv, IInv
  <1>3. Len(parts) \in Nat /\ cnt \in Nat /\ cnt <= Len(parts)
    <2>1. Len(parts) \in Nat
      BY <1>2 DEF TypeOK
    <2> QED
      BY <1>1, <2>1, Remainder, Sizes
  <1>4. /\ bins = [l \in 1..Len(bins) |-> P!BinInfo(file.table[l])]
        /\ Len(bins) \in Nat /\ Len(bins) <= file.cnt
    BY DEF HandOverInv, Reading
  <1>5. k \in 1..Len(parts) /\ bins[k] = P!BinInfo(table[k])
    BY <1>1, <1>3, <1>4
  <1>6. /\ Len(table) = Len(parts) /\ Len(at) = Len(parts) /\ table[k].offset = at[k]
        /\ table[k].length = parts[k].size
    BY <1>1, <1>2, <1>5, TableLocates DEF DescriptorsLocatePayloads
  <1>7. table[k] \in Descriptor /\ at[k] \in Nat
    BY <1>2, <1>5, <1>6 DEF TypeOK
  <1>8. parts[k].size \in Nat
    BY <1>2, <1>5, PartitionFields
  <1> QED
    BY <1>5, <1>6, <1>7, <1>8

(* What read_name and From<u32> make of a descriptor.                      *)
LEMMA BinFields ==
  ASSUME NEW d \in Descriptor
  PROVE  LET bin == P!BinInfo(d)
         IN  /\ bin.name = P!read_name(d.name) /\ bin.type = P!type_from(d.type)
             /\ bin.offset = d.offset /\ bin.length = d.length
             /\ bin.burn_addr = d.burn_addr /\ bin.burn_size = d.burn_size
  <1>1. d = [name |-> d.name, offset |-> d.offset, length |-> d.length,
             burn_addr |-> d.burn_addr, burn_size |-> d.burn_size, type |-> d.type]
    BY DEF Descriptor
  <1>2. [d EXCEPT !.name = P!read_name(d.name)] =
          [name |-> P!read_name(d.name), offset |-> d.offset, length |-> d.length,
           burn_addr |-> d.burn_addr, burn_size |-> d.burn_size, type |-> d.type]
    BY <1>1
  <1>3. ASSUME NEW e,
               e = [name |-> P!read_name(d.name), offset |-> d.offset, length |-> d.length,
                    burn_addr |-> d.burn_addr, burn_size |-> d.burn_size, type |-> d.type]
        PROVE  [e EXCEPT !.type = P!type_from(d.type)] =
                 [name |-> P!read_name(d.name), offset |-> d.offset, length |-> d.length,
                  burn_addr |-> d.burn_addr, burn_size |-> d.burn_size,
                  type |-> P!type_from(d.type)]
    BY <1>3
  <1>4. P!BinInfo(d) =
          [[d EXCEPT !.name = P!read_name(d.name)] EXCEPT !.type = P!type_from(d.type)]
    BY Zenon DEF P!BinInfo
  <1>5. P!BinInfo(d) =
          [name |-> P!read_name(d.name), offset |-> d.offset, length |-> d.length,
           burn_addr |-> d.burn_addr, burn_size |-> d.burn_size, type |-> P!type_from(d.type)]
    BY <1>2, <1>3, <1>4, Zenon
  <1> QED
    BY <1>5

(* bin_data finds exactly that payload: no other one begins at its place,  *)
(* separators being between them, and none is cut.                         *)
LEMMA IntactPayload ==
  ASSUME HandOverInv, ppc = "ok", NEW k \in 1..Len(bins), file.table[k] = table[k]
  PROVE  bin_data(bins[k]) = k
  <1>1. /\ k \in 1..Len(parts) /\ bins[k] = P!BinInfo(table[k])
        /\ table[k] \in Descriptor
        /\ table[k].offset = at[k] /\ table[k].length = parts[k].size
        /\ at[k] \in Nat /\ parts[k].size \in Nat
    BY IntactBin
  <1>2. bins[k].offset = at[k] /\ bins[k].length = parts[k].size
    BY <1>1, BinFields
  <1>3. pc = "done" /\ file.size \in 0..outLen /\ IInv
    BY ArrivalFields DEF HandOverInv, Handed, IInv
  <1>4. Len(at) = Len(parts) /\ outLen \in Nat /\ Len(parts) \in Nat
    BY <1>3, TableLocates DEF DescriptorsLocatePayloads, IInv, TypeOK
  <1>5. P!InBounds(bins[k])
    BY DEF HandOverInv, Reading
  <1>6. ~(bins[k].offset + bins[k].length > file.size)
    BY <1>1, <1>2, <1>3, <1>4, <1>5 DEF P!InBounds
  <1> DEFINE owners == {l \in 1..Len(at) : at[l] = bins[k].offset /\ parts[l].size = bins[k].length}
  <1>7. k \in owners
    BY <1>1, <1>2, <1>4
  <1>8. ASSUME NEW l \in 1..Len(at), l # k PROVE at[l] # at[k]
    <2>1. at \in Seq(Nat) /\ parts[l].size \in Nat /\ PAYLOAD_SEPARATOR \in Nat \ {0}
      BY <1>3, <1>4, PartitionFields, Sizes, HandOverAssumption DEF IInv, TypeOK
    <2>2. at[l] \in Nat
      BY <2>1
    <2>3. CASE l < k
      <3>1. at[l] + parts[l].size + PAYLOAD_SEPARATOR <= at[k]
        <4>1. k \in (l + 1)..Len(at)
          BY <1>1, <1>4, <2>3
        <4> QED
          BY <1>3, <4>1, PayloadsApart DEF PayloadsDisjoint
      <3> QED
        BY <1>1, <2>1, <2>2, <3>1
    <2>4. CASE k < l
      <3>1. at[k] + parts[k].size + PAYLOAD_SEPARATOR <= at[l]
        <4>1. l \in (k + 1)..Len(at) /\ k \in 1..Len(at)
          BY <1>1, <1>4, <2>4
        <4> QED
          BY <1>3, <4>1, PayloadsApart DEF PayloadsDisjoint
      <3> QED
        BY <1>1, <2>1, <2>2, <3>1
    <2> QED
      BY <1>1, <1>4, <1>8, <2>3, <2>4
  <1>9. owners = {k}
    BY <1>2, <1>7, <1>8
  <1>10. bin_data(bins[k]) = CHOOSE l \in owners : TRUE
    BY <1>6, <1>9 DEF bin_data
  <1> HIDE DEF owners
  <1> QED
    BY <1>9, <1>10

(* So it is read as it was written, whatever the other descriptors say.    *)
LEMMA IntactRow ==
  ASSUME HandOverInv, ppc = "ok", NEW k \in 1..Len(bins), file.table[k] = table[k]
  PROVE  k \in 1..Len(parts) /\ Read[k] = Written[k]
  <1>1. /\ k \in 1..Len(parts) /\ bins[k] = P!BinInfo(table[k]) /\ table[k] \in Descriptor
        /\ Len(bins) \in Nat /\ Len(parts) \in Nat
    BY IntactBin DEF HandOverInv, Reading, IInv, TypeOK
  <1>2. k \in 1..Len(table)
    <2>1. pc = "done"
      BY DEF HandOverInv, Handed
    <2> QED
      BY <1>1, <2>1 DEF HandOverInv, IInv, Progress
  <1>3. /\ table[k].name = parts[k].name /\ table[k].type = as_u32(parts[k].type)
        /\ table[k].burn_addr = parts[k].burn_addr /\ table[k].burn_size = parts[k].burn_size
    BY <1>2 DEF HandOverInv, Described
  <1>4. /\ bins[k].name = P!read_name(parts[k].name)
        /\ bins[k].type = P!type_from(as_u32(parts[k].type))
        /\ bins[k].burn_addr = parts[k].burn_addr /\ bins[k].burn_size = parts[k].burn_size
    BY <1>1, <1>3, BinFields
  <1>5. as_u32(bins[k].type) = as_u32(parts[k].type)
    BY <1>4 DEF as_u32, P!type_from
  <1>6. bin_data(bins[k]) = k
    BY IntactPayload
  <1>7. Seen(bins[k].name, bins[k].type, bins[k], bin_data(bins[k]))
          = Seen(P!read_name(parts[k].name), parts[k].type, parts[k], k)
    BY <1>4, <1>5, <1>6, Zenon DEF Seen
  <1> QED
    BY <1>1, <1>7, Zenon DEF Read, Written

(* How many partitions there are to read, and how many were written.       *)
LEMMA Lengths ==
  ASSUME HandOverInv, CountsFit, ppc = "ok"
  PROVE  /\ Len(bins) = file.cnt /\ Len(Read) = file.cnt /\ Len(Written) = cnt
         /\ Len(parts) = cnt /\ cnt \in Nat /\ file.cnt \in Nat /\ file.cnt <= cnt
  <1>1. pc = "done" /\ file \in Arrivals /\ TypeOK /\ cnt = Len(parts) % U16
    BY DEF HandOverInv, Handed, IInv, Described
  <1>2. Len(parts) \in Nat /\ Len(parts) < U16
    BY DEF CountsFit, HandOverInv, IInv, TypeOK, Described
  <1>3. Len(parts) = cnt
    BY <1>1, <1>2, Fits, Sizes
  <1>4. file.cnt \in Nat /\ file.cnt <= cnt
    BY <1>1, ArrivalFields
  <1>5. Len(bins) = file.cnt
    BY DEF HandOverInv, Reading
  <1>6. Len(Read) = Len(bins) /\ Len(Written) = Len(parts)
    BY <1>2, <1>4, <1>5 DEF Read, Written
  <1> QED
    BY <1>2, <1>3, <1>4, <1>5, <1>6

(* An accepted, undamaged package is read as it was written.               *)
LEMMA UndamagedIsRead ==
  ASSUME HandOverInv, CountsFit, ppc = "ok", ~Tampered
  PROVE  Read = Written
  <1>1. file.cnt = cnt /\ file.table = table
    BY Undamaged
  <1>2. Len(bins) = Len(parts)
    BY <1>1, Lengths
  <1>3. \A k \in 1..Len(bins) : Read[k] = Written[k]
    BY <1>1, IntactRow
  <1> QED
    BY <1>2, <1>3, Zenon DEF Read, Written

-----------------------------------------------------------------------------
(* The file ends behind the last byte of every payload.                    *)
AllThere == \A k \in 1..Len(parts) : ~(file.size < at[k] + parts[k].size)

(* Then it has room for its header and its table: payloads come after them. *)
LEMMA TableIsThere ==
  ASSUME HandOverInv, ppc # "idle", ~Tampered, AllThere
  PROVE  /\ file.size >= HEADER_SIZE /\ file.size >= P!table_end
         /\ file.version = "V1" /\ file.cnt \in Nat /\ file.cnt <= Len(parts)
         /\ Len(parts) \in Nat
  <1>1. /\ file.version = "V1" /\ file.cnt = Len(parts) % U16 /\ pc = "done"
        /\ file.size \in 0..outLen
    BY Undamaged
  <1>2. IInv /\ TypeOK /\ Progress
    BY DEF HandOverInv, IInv
  <1>3. /\ Len(parts) \in Nat /\ Len(parts) >= 1 /\ Len(at) = Len(parts) /\ HeadLen \in Nat
        /\ file.size \in Nat
    BY <1>1, <1>2, HeadLenNat, TableLocates
      DEF Progress, TypeOK, DescriptorsLocatePayloads
  <1>4. file.cnt \in Nat /\ file.cnt <= Len(parts)
    BY <1>1, <1>3, Remainder, Sizes
  <1>5. at[1] >= HeadLen /\ at[1] \in Nat /\ parts[1].size \in Nat
    <2>1. 1 \in 1..Len(at) /\ 1 \in 1..Len(parts)
      BY <1>3
    <2> QED
      BY <1>1, <1>2, <2>1, PayloadsApart, PartitionFields DEF PayloadsDisjoint, TypeOK
  <1>6. file.size >= HeadLen
    BY <1>3, <1>5 DEF AllThere
  <1>7. /\ HEADER_SIZE \in Nat /\ BIN_INFO_SIZE \in Nat
        /\ Len(parts) * BIN_INFO_SIZE \in Nat /\ file.cnt * BIN_INFO_SIZE \in Nat
        /\ file.cnt * BIN_INFO_SIZE <= Len(parts) * BIN_INFO_SIZE
    <2>1. HEADER_SIZE \in Nat /\ BIN_INFO_SIZE \in Nat
      BY BuildAssumption
    <2>2. /\ BIN_INFO_SIZE * file.cnt <= BIN_INFO_SIZE * Len(parts)
          /\ BIN_INFO_SIZE * file.cnt = file.cnt * BIN_INFO_SIZE
          /\ BIN_INFO_SIZE * Len(parts) = Len(parts) * BIN_INFO_SIZE
          /\ file.cnt * BIN_INFO_SIZE \in Nat /\ Len(parts) * BIN_INFO_SIZE \in Nat
      BY <1>3, <1>4, <2>1, Products
    <2> QED
      BY <2>1, <2>2
  <1>8. P!table_end = HEADER_SIZE + file.cnt * BIN_INFO_SIZE
    BY <1>1 DEF P!table_end, P!header_size, P!bin_info_size
  <1>9. HeadLen = HEADER_SIZE + Len(parts) * BIN_INFO_SIZE
    BY DEF HeadLen
  <1> DEFINE less == file.cnt * BIN_INFO_SIZE
             more == Len(parts) * BIN_INFO_SIZE
  <1>10. /\ less \in Nat /\ more \in Nat /\ less <= more
         /\ P!table_end = HEADER_SIZE + less /\ HeadLen = HEADER_SIZE + more
    BY <1>7, <1>8, <1>9
  <1> HIDE DEF less, more
  <1>11. file.size >= HEADER_SIZE /\ file.size >= P!table_end
    BY <1>3, <1>6, <1>7, <1>10
  <1> QED
    BY <1>1, <1>3, <1>4, <1>11

(* So none of from_bytes's refusals applies.                               *)
LEMMA WholeIsTaken ==
  ASSUME CountsParse, HandOverInv, Parse, ~Tampered, AllThere
  PROVE  ppc' \notin P!Refusals
  <1>1. P!Step /\ ppc # "idle"
    BY DEF Parse
  <1>2. /\ file.size >= HEADER_SIZE /\ file.size >= P!table_end
        /\ file.version = "V1" /\ file.cnt \in Nat /\ file.cnt <= Len(parts)
        /\ Len(parts) \in Nat
    BY <1>1, TableIsThere
  <1>3. file.cnt <= MAX_PARTITIONS /\ MAX_PARTITIONS \in Nat
    <2>1. Len(parts) <= MAX_PARTITIONS
      BY DEF CountsParse, HandOverInv, Described
    <2> QED
      BY <1>2, <2>1, HandOverAssumption
  <1>4. HEADER_SIZE \in Nat /\ file.size \in Nat /\ P!table_end \in Nat
    <2>1. file.size \in Nat
      BY <1>1, Undamaged DEF HandOverInv, IInv, TypeOK
    <2>2. HEADER_SIZE \in Nat /\ BIN_INFO_SIZE \in Nat
      BY BuildAssumption
    <2>3. file.cnt * BIN_INFO_SIZE \in Nat
      BY <1>2, <2>2, Products
    <2>4. P!table_end = HEADER_SIZE + file.cnt * BIN_INFO_SIZE
      BY <1>2 DEF P!table_end, P!header_size, P!bin_info_size
    <2> QED
      BY <2>1, <2>2, <2>3, <2>4
  <1>5. ~P!HeaderShort /\ ~P!WrongMagic /\ ~P!PackageNameShort
    <2>1. P!HeaderShort => file.size < HEADER_SIZE
      BY DEF P!HeaderShort
    <2>2. P!WrongMagic => file.version = "none"
      BY DEF P!WrongMagic
    <2>3. P!PackageNameShort => file.version = "V2"
      BY DEF P!PackageNameShort
    <2> QED
      BY <1>2, <1>4, <2>1, <2>2, <2>3
  <1>6. ~P!TooManyPartitions
    <2>1. P!TooManyPartitions => file.cnt > MAX_PARTITIONS
      BY DEF P!TooManyPartitions
    <2> QED
      BY <1>2, <1>3, <2>1
  <1>7. ~P!TableShort
    <2>1. P!TableShort => file.size < P!table_end
      BY DEF P!TableShort
    <2> QED
      BY <1>2, <1>4, <2>1
  <1>8. ~P!OutOfBounds
    <2> SUFFICES ASSUME P!OutOfBounds PROVE FALSE
      OBVIOUS
    <2>1. ppc = "bounds" /\ ~P!InBounds(bins[j])
      BY DEF P!OutOfBounds
    <2>2. j \in 1..Len(bins)
      BY <2>1 DEF HandOverInv, Reading
    <2>3. /\ j \in 1..Len(parts) /\ bins[j] = P!BinInfo(table[j]) /\ table[j] \in Descriptor
          /\ table[j].offset = at[j] /\ table[j].length = parts[j].size
          /\ at[j] \in Nat /\ parts[j].size \in Nat
      BY <1>1, <2>2, IntactBin, Undamaged
    <2>4. bins[j].offset = at[j] /\ bins[j].length = parts[j].size
      BY <2>3, BinFields
    <2>5. at[j] + parts[j].size <= file.size
      BY <1>4, <2>3 DEF AllThere
    <2> QED
      BY <2>1, <2>4, <2>5 DEF P!InBounds
  <1>9. CASE P!HeaderAccepted
    BY <1>9 DEF P!HeaderAccepted, P!Refusals
  <1>10. CASE P!ReadDescriptor
    BY <1>10 DEF P!ReadDescriptor, P!Refusals
  <1>11. CASE P!CheckBounds
    BY <1>11 DEF P!CheckBounds, P!Refusals
  <1> QED
    BY <1>1, <1>5, <1>6, <1>7, <1>8, <1>9, <1>10, <1>11 DEF P!Step

(* A package that nobody changed is refused only if a payload byte of it is *)
(* missing, for every list of partitions that the parser has room for.     *)
THEOREM RoundTripRefusedOnlyIfCut ==
  ASSUME CountsParse
  PROVE  RTSpec => []RefusedOnlyIfCut
  <1>1. RefusedOnlyIfCut <=> (ppc \in P!Refusals => ~AllThere \/ Tampered)
    BY DEF RefusedOnlyIfCut, AllThere
  <1>2. RTInit => RefusedOnlyIfCut
    BY DEF RTInit, RefusedOnlyIfCut, P!Refusals
  <1>3. ASSUME HandOverInv, RefusedOnlyIfCut, [RTNext]_all
        PROVE  RefusedOnlyIfCut'
    <2>1. CASE Parse
      <3>1. UNCHANGED <<vars, file>>
        BY <1>3, <2>1, ParserSteps DEF Parse
      <3>2. UNCHANGED <<parts, at, outLen, cnt, len, table, crc>>
        BY <3>1 DEF vars
      <3>3. AllThere' = AllThere
        BY <3>1, <3>2 DEF AllThere
      <3>4. Packed' = Packed
        BY <3>2, Zenon DEF Packed
      <3>5. Tampered' = Tampered
        BY <3>1, <3>4, Zenon DEF Tampered
      <3>6. ppc' \in P!Refusals => ~AllThere \/ Tampered
        BY <1>3, <2>1, WholeIsTaken
      <3> QED
        BY <3>1, <3>2, <3>3, <3>5, <3>6 DEF RefusedOnlyIfCut, AllThere
    <2>2. CASE Build \/ HandOver
      <3>1. ppc' \in {"idle", "open"}
        BY <1>3, <2>2 DEF Build, HandOver, reader, parser, HandOverInv, Handed, Step, RejectEmpty,
             RejectName, Accept, SumPayload, RejectSize, EmitHeader, EmitDescriptor, EmitPayload,
             FixCrc
      <3> QED
        BY <3>1 DEF RefusedOnlyIfCut, P!Refusals
    <2>3. CASE VerifyCrc \/ BuildFailed \/ Answered \/ UNCHANGED all
      <3>1. UNCHANGED <<vars, file, ppc>>
        BY <2>3 DEF VerifyCrc, BuildFailed, Answered, all, reader, parser
      <3>2. UNCHANGED <<parts, at, outLen, cnt, len, table, crc>>
        BY <3>1 DEF vars
      <3>3. Packed' = Packed
        BY <3>2, Zenon DEF Packed
      <3>4. Tampered' = Tampered
        BY <3>1, <3>3, Zenon DEF Tampered
      <3> QED
        BY <1>3, <3>1, <3>2, <3>4 DEF RefusedOnlyIfCut
    <2> QED
      BY <1>3, <2>1, <2>2, <2>3 DEF RTNext, RTStep
  <1> QED
    BY <1>2, <1>3, HandOverInvariance, PTL DEF RTSpec

-----------------------------------------------------------------------------
Byte == 0..255

(* The weights are the powers of two.                                      *)
LEMMA Weights ==
  /\ P!Weight(0) = 1 /\ P!Weight(1) = 2 /\ P!Weight(2) = 4 /\ P!Weight(3) = 8 /\ P!Weight(4) = 16
  /\ P!Weight(5) = 32 /\ P!Weight(6) = 64 /\ P!Weight(7) = 128 /\ P!Weight(8) = 256
  BY DEF P!Weight

(* What is left of a byte without its last k bits.                         *)
Halved(byte, k) == byte \div P!Weight(k)

(* The next halving takes off one bit.                                     *)
LEMMA OneHalving ==
  ASSUME NEW a \in Byte, NEW k \in 0..7
  PROVE  /\ Halved(a, k) \in Nat /\ Halved(a, k + 1) \in Nat
         /\ Halved(a, k) - 2 * Halved(a, k + 1) \in 0..1
  <1> DEFINE Halves(w, v) == a \div w \in Nat /\ a \div v \in Nat /\ a \div w - 2 * (a \div v) \in 0..1
  <1>1. /\ Halves(1, 2) /\ Halves(2, 4) /\ Halves(4, 8) /\ Halves(8, 16)
        /\ Halves(16, 32) /\ Halves(32, 64) /\ Halves(64, 128) /\ Halves(128, 256)
    BY DEF Byte
  <1> HIDE DEF Halves
  <1>2. Halves(P!Weight(k), P!Weight(k + 1))
    <2>1. k \in {0, 1, 2, 3, 4, 5, 6, 7}
      OBVIOUS
    <2>2. /\ Halves(P!Weight(0), P!Weight(1)) /\ Halves(P!Weight(1), P!Weight(2))
          /\ Halves(P!Weight(2), P!Weight(3)) /\ Halves(P!Weight(3), P!Weight(4))
          /\ Halves(P!Weight(4), P!Weight(5)) /\ Halves(P!Weight(5), P!Weight(6))
          /\ Halves(P!Weight(6), P!Weight(7)) /\ Halves(P!Weight(7), P!Weight(8))
      BY <1>1, Weights, Zenon
    <2> QED
      BY <2>1, <2>2
  <1> QED
    BY <1>2 DEF Halves, Halved

(* Bytes with the same bits that are equal without their last k + 1 bits are*)
(* equal without their last k.                                             *)
LEMMA LastBit ==
  ASSUME NEW a \in Byte, NEW b \in Byte, P!Bits(a) = P!Bits(b), NEW k \in 0..7,
         Halved(a, k + 1) = Halved(b, k + 1)
  PROVE  Halved(a, k) = Halved(b, k)
  <1>1. \A c : k \in P!Bits(c) <=> Halved(c, k) # 2 * Halved(c, k + 1)
    BY DEF P!Bits, P!IsOne, Halved
  <1>2. /\ Halved(a, k) \in Nat /\ Halved(a, k + 1) \in Nat
        /\ Halved(a, k) - 2 * Halved(a, k + 1) \in 0..1
    BY OneHalving
  <1>3. /\ Halved(b, k) \in Nat /\ Halved(b, k + 1) \in Nat
        /\ Halved(b, k) - 2 * Halved(b, k + 1) \in 0..1
    BY OneHalving
  <1>4. Halved(a, k) # 2 * Halved(a, k + 1) <=> Halved(b, k) # 2 * Halved(b, k + 1)
    BY <1>1
  <1> QED
    BY <1>2, <1>3, <1>4

(* So a byte is known by its bits: from no bits left, back to all eight.   *)
LEMMA BitsTellBytesApart ==
  ASSUME NEW a \in Byte, NEW b \in Byte, P!Bits(a) = P!Bits(b)
  PROVE  a = b
  <1>1. ASSUME NEW c \in Byte PROVE Halved(c, 8) = 0 /\ Halved(c, 0) = c
    BY Weights DEF Halved, Byte
  <1>2. ASSUME NEW k \in 0..7, Halved(a, k + 1) = Halved(b, k + 1)
        PROVE  Halved(a, k) = Halved(b, k)
    BY <1>2, LastBit
  <1>3. Halved(a, 8) = Halved(b, 8)
    BY <1>1
  <1>4. Halved(a, 7) = Halved(b, 7)
    <2>1. 7 \in 0..7 /\ Halved(a, 7 + 1) = Halved(b, 7 + 1)
      BY <1>3
    <2> QED
      BY <1>2, <2>1
  <1>5. Halved(a, 6) = Halved(b, 6)
    BY <1>4, <1>2
  <1>6. Halved(a, 5) = Halved(b, 5)
    BY <1>5, <1>2
  <1>7. Halved(a, 4) = Halved(b, 4)
    BY <1>6, <1>2
  <1>8. Halved(a, 3) = Halved(b, 3)
    BY <1>7, <1>2
  <1>9. Halved(a, 2) = Halved(b, 2)
    BY <1>8, <1>2
  <1>10. Halved(a, 1) = Halved(b, 1)
    BY <1>9, <1>2
  <1>11. Halved(a, 0) = Halved(b, 0)
    BY <1>10, <1>2
  <1> QED
    BY <1>1, <1>11

(* A step of the bit loop leaves sixteen bits.                             *)
LEMMA StepTypes ==
  ASSUME NEW r \in P!Register
  PROVE  P!BitStep(r) \in P!Register
  BY DEF P!BitStep, P!Shifted, P!Xor, P!Poly, P!Register

(* And from what it leaves, the register before can be told: bit 0 says    *)
(* whether the polynomial was added, the others say the rest.              *)
LEMMA StepLosesNothing ==
  ASSUME NEW r \in P!Register, NEW s \in P!Register, P!BitStep(r) = P!BitStep(s)
  PROVE  r = s
  <1>1. ASSUME NEW t \in P!Register PROVE 0 \notin P!Shifted(t)
    BY DEF P!Shifted, P!Register
  <1>2. ASSUME NEW t \in P!Register PROVE 0 \in P!BitStep(t) <=> 15 \in t
    BY <1>1 DEF P!BitStep, P!Xor, P!Poly
  <1>3. 15 \in r <=> 15 \in s
    BY <1>2
  <1>4. P!Shifted(r) = P!Shifted(s)
    <2>1. CASE 15 \in r
      BY <1>3, <2>1 DEF P!BitStep, P!Xor
    <2>2. CASE 15 \notin r
      BY <1>3, <2>2 DEF P!BitStep
    <2> QED
      BY <2>1, <2>2
  <1>5. ASSUME NEW t \in P!Register, NEW k \in 0..14 PROVE k \in t <=> k + 1 \in P!Shifted(t)
    BY DEF P!Shifted, P!Register
  <1>6. \A k \in 0..15 : k \in r <=> k \in s
    BY <1>3, <1>4, <1>5
  <1> QED
    BY <1>6 DEF P!Register

(* So can it from what two steps leave,                                    *)
LEMMA TwoStepsLoseNothing ==
  ASSUME NEW r \in P!Register
  PROVE  /\ P!TwoSteps(r) \in P!Register
         /\ \A s \in P!Register : P!TwoSteps(r) = P!TwoSteps(s) => r = s
  BY StepTypes, StepLosesNothing DEF P!TwoSteps

(* and from what all eight steps leave.                                    *)
LEMMA LoopLosesNothing ==
  ASSUME NEW r \in P!Register
  PROVE  /\ P!BitLoop(r) \in P!Register
         /\ \A s \in P!Register : P!BitLoop(r) = P!BitLoop(s) => r = s
  <1> DEFINE Four(t) == P!TwoSteps(P!TwoSteps(t))
  <1>1. ASSUME NEW t \in P!Register
        PROVE  Four(t) \in P!Register /\ \A s \in P!Register : Four(t) = Four(s) => t = s
    BY TwoStepsLoseNothing
  <1>2. \A t : P!BitLoop(t) = Four(Four(t))
    BY Zenon DEF P!BitLoop
  <1> HIDE DEF Four
  <1> QED
    BY <1>1, <1>2

(* Exclusive or with the same thing keeps different registers different.   *)
LEMMA XorLosesNothing ==
  ASSUME NEW r \in P!Register, NEW s \in P!Register, NEW d \in P!Register
  PROVE  /\ P!Xor(r, d) \in P!Register
         /\ P!Xor(r, d) = P!Xor(s, d) => r = s
         /\ P!Xor(d, r) = P!Xor(d, s) => r = s
  BY DEF P!Xor, P!Register

(* A byte in the upper half of the register is still known by its bits.    *)
LEMMA HighTellsBytesApart ==
  ASSUME NEW a \in Byte, NEW b \in Byte
  PROVE  P!High(a) \in P!Register /\ (P!High(a) = P!High(b) => a = b)
  <1>1. P!Bits(a) \subseteq 0..7 /\ P!Bits(b) \subseteq 0..7
    BY DEF P!Bits
  <1>2. P!High(a) \in P!Register
    BY <1>1 DEF P!High, P!Register
  <1>3. ASSUME P!High(a) = P!High(b) PROVE P!Bits(a) = P!Bits(b)
    <2>1. ASSUME NEW c \in Byte, NEW k \in 0..7 PROVE k \in P!Bits(c) <=> k + 8 \in P!High(c)
      <3>1. P!Bits(c) \subseteq 0..7
        BY DEF P!Bits
      <3> QED
        BY <3>1 DEF P!High
    <2> QED
      BY <1>1, <1>3, <2>1
  <1> QED
    BY <1>2, <1>3, BitsTellBytesApart

(* One byte makes different registers of different registers, and of the   *)
(* same register when the byte is another one.                             *)
LEMMA OneByteLosesNothing ==
  ASSUME NEW r \in P!Register, NEW b \in Byte
  PROVE  /\ P!OneByte(r, b) \in P!Register
         /\ \A s \in P!Register : P!OneByte(r, b) = P!OneByte(s, b) => r = s
         /\ \A c \in Byte : P!OneByte(r, b) = P!OneByte(r, c) => b = c
  BY LoopLosesNothing, XorLosesNothing, HighTellsBytesApart DEF P!OneByte

(* Some naturals have a least one among them.                              *)
LEMMA LeastNatural ==
  ASSUME NEW T \in SUBSET Nat, T # {}
  PROVE  \E n \in T : \A m \in T : n <= m
  <1> DEFINE Less == {ss \in Nat \X Nat : ss[1] < ss[2]}
  <1>1. IsWellFoundedOn(Less, Nat)
    <2>1. OpToRel(<, Nat) = Less
      BY Zenon DEF OpToRel
    <2> QED
      BY <2>1, NatLessThanWellFounded, Zenon
  <1>2. \A m, n \in Nat : <<m, n>> \in Less <=> m < n
    OBVIOUS
  <1> HIDE DEF Less
  <1>3. PICK n \in T : \A m \in T : <<m, n>> \notin Less
    BY <1>1, WFMin
  <1>4. ASSUME NEW m \in T PROVE n <= m
    <2>1. m \in Nat /\ n \in Nat /\ ~(m < n)
      BY <1>2, <1>3
    <2> QED
      BY <2>1
  <1> QED
    BY <1>4

(* A set of numbers that goes on from each to the next reaches the end.    *)
LEMMA UpTo ==
  ASSUME NEW n \in Nat, NEW T, 0 \in T, \A k \in 0..(n - 1) : k \in T => k + 1 \in T
  PROVE  \A k \in 0..n : k \in T
  <1> DEFINE Missing == {k \in 0..n : k \notin T}
  <1> SUFFICES ASSUME Missing # {} PROVE FALSE
    OBVIOUS
  <1>1. Missing \in SUBSET Nat
    OBVIOUS
  <1>2. PICK m \in Missing : \A k \in Missing : m <= k
    <2> HIDE DEF Missing
    <2> QED
      BY <1>1, LeastNatural
  <1>3. m \in 0..n /\ m \notin T /\ m # 0
    BY <1>2
  <1>4. m - 1 \in 0..(n - 1) /\ m - 1 \notin Missing
    BY <1>2, <1>3
  <1>5. m - 1 \in T
    BY <1>4
  <1>6. (m - 1) + 1 \in T /\ (m - 1) + 1 = m
    BY <1>3, <1>4, <1>5
  <1> QED
    BY <1>3, <1>6

(* Values that each follow from the one before exist all together.         *)
Follows(f, n, base, next) == f[0] = base /\ \A k \in 1..n : f[k] = next[k][f[k - 1]]

(* By the least length that could not be had: there is none.               *)
LEMMA Chain ==
  ASSUME NEW n \in Nat, NEW S, NEW base \in S, NEW next \in [1..n -> [S -> S]]
  PROVE  \E f \in [0..n -> S] : Follows(f, n, base, next)
  <1> DEFINE Has(m) == \E f \in [0..m -> S] : f[0] = base /\ \A k \in 1..m : f[k] = next[k][f[k - 1]]
             T == {m \in 0..n : Has(m)}
  <1>1. 0 \in T
    <2> DEFINE h == [k \in 0..0 |-> base]
    <2>1. h \in [0..0 -> S] /\ h[0] = base /\ \A k \in 1..0 : h[k] = next[k][h[k - 1]]
      OBVIOUS
    <2> HIDE DEF h
    <2>2. Has(0)
      BY <2>1
    <2> QED
      BY <2>2
  <1>2. ASSUME NEW m \in 0..(n - 1), m \in T PROVE m + 1 \in T
    <2>1. PICK f \in [0..m -> S] : f[0] = base /\ \A k \in 1..m : f[k] = next[k][f[k - 1]]
      BY <1>2
    <2> DEFINE g == [k \in 0..(m + 1) |-> IF k = m + 1 THEN next[m + 1][f[m]] ELSE f[k]]
    <2>2. m + 1 \in 1..n /\ m \in 0..m /\ f[m] \in S
      OBVIOUS
    <2>3. next[m + 1][f[m]] \in S
      BY <2>2
    <2>4. g \in [0..(m + 1) -> S]
      BY <2>3
    <2>5. g[0] = base
      BY <2>1
    <2>6. ASSUME NEW k \in 1..(m + 1) PROVE g[k] = next[k][g[k - 1]]
      <3>1. k - 1 \in 0..(m + 1) /\ k \in 0..(m + 1) /\ k - 1 # m + 1
        OBVIOUS
      <3>2. g[k - 1] = f[k - 1]
        BY <3>1
      <3>3. CASE k = m + 1
        BY <3>1, <3>2, <3>3
      <3>4. CASE k # m + 1
        BY <2>1, <3>1, <3>2, <3>4
      <3> QED
        BY <3>3, <3>4
    <2>7. Has(m + 1)
      <3> HIDE DEF g
      <3> QED
        BY <2>4, <2>5, <2>6
    <2> QED
      BY <2>2, <2>7
  <1> HIDE DEF T
  <1>3. \A k \in 0..n : k \in T
    BY <1>1, <1>2, UpTo
  <1>4. n \in T
    BY <1>3
  <1> QED
    BY <1>4 DEF T, Follows

(* The recursive function crc16_xmodem is built from has the values its    *)
(* definition speaks of.                                                   *)
LEMMA RegisterByByte ==
  ASSUME NEW bytes \in Seq(Byte)
  PROVE  /\ P!Registers(bytes) \in [0..Len(bytes) -> P!Register]
         /\ P!Registers(bytes)[0] = {}
         /\ \A k \in 1..Len(bytes) :
              P!Registers(bytes)[k] = P!OneByte(P!Registers(bytes)[k - 1], bytes[k])
  <1> DEFINE n == Len(bytes)
             IsReg(reg) == reg = [k \in 0..n |->
                                    IF k = 0 THEN {} ELSE P!OneByte(reg[k - 1], bytes[k])]
  <1>1. n \in Nat /\ \A k \in 1..n : bytes[k] \in Byte
    OBVIOUS
  <1>2. P!Registers(bytes) = CHOOSE reg : IsReg(reg)
    BY Zenon DEF P!Registers
  <1>3. \E f : IsReg(f)
    <2> DEFINE next == [k \in 1..n |-> [r \in P!Register |-> P!OneByte(r, bytes[k])]]
    <2>1. next \in [1..n -> [P!Register -> P!Register]]
      BY <1>1, OneByteLosesNothing
    <2>2. {} \in P!Register
      BY DEF P!Register
    <2>3. PICK f \in [0..n -> P!Register] : Follows(f, n, {}, next)
      <3> HIDE DEF next, n, IsReg
      <3>1. n \in Nat
        BY <1>1
      <3> QED
        BY <2>1, <2>2, <3>1, Chain, Zenon
    <2>4. ASSUME NEW k \in 0..n
          PROVE  f[k] = IF k = 0 THEN {} ELSE P!OneByte(f[k - 1], bytes[k])
      <3>1. CASE k = 0
        BY <2>3, <3>1 DEF Follows
      <3>2. CASE k # 0
        <4>1. k \in 1..n /\ k - 1 \in 0..n
          BY <1>1, <3>2
        <4>2. f[k] = P!OneByte(f[k - 1], bytes[k])
          BY <2>3, <4>1 DEF Follows
        <4> QED
          BY <3>2, <4>2 DEF P!OneByte
      <3> QED
        BY <3>1, <3>2
    <2>5. IsReg(f)
      BY <2>4
    <2> QED
      BY <2>5
  <1>4. IsReg(P!Registers(bytes))
    <2> HIDE DEF IsReg
    <2> QED
      BY <1>2, <1>3
  <1> DEFINE R == P!Registers(bytes)
  <1>5. /\ DOMAIN R = 0..n
        /\ \A k \in 0..n : R[k] = IF k = 0 THEN {} ELSE P!OneByte(R[k - 1], bytes[k])
        /\ R = [k \in 0..n |-> R[k]]
    BY <1>4
  <1> HIDE DEF R
  <1>6. R[0] = {} /\ \A k \in 1..n : R[k] = P!OneByte(R[k - 1], bytes[k])
    <2>1. R[0] = {}
      BY <1>1, <1>5
    <2>2. ASSUME NEW k \in 1..n PROVE R[k] = P!OneByte(R[k - 1], bytes[k])
      <3>1. k \in 0..n /\ k # 0
        BY <1>1
      <3> QED
        BY <1>5, <3>1 DEF P!OneByte
    <2> QED
      BY <2>1, <2>2
  <1> HIDE DEF n
  <1>7. \A k \in 0..n : R[k] \in P!Register
    <2> DEFINE T == {k \in 0..n : R[k] \in P!Register}
    <2>1. 0 \in T
      BY <1>1, <1>6 DEF P!Register
    <2>2. ASSUME NEW k \in 0..(n - 1), k \in T PROVE k + 1 \in T
      <3>1. k + 1 \in 1..n /\ (k + 1) - 1 = k /\ k + 1 \in 0..n
        BY <1>1
      <3>2. R[k + 1] = P!OneByte(R[k], bytes[k + 1])
        BY <1>6, <3>1
      <3>3. R[k] \in P!Register
        BY <2>2
      <3>4. R[k + 1] \in P!Register
        BY <1>1, <3>1, <3>2, <3>3, OneByteLosesNothing
      <3> QED
        BY <3>1, <3>4
    <2> HIDE DEF T
    <2>3. \A k \in 0..n : k \in T
      BY <1>1, <2>1, <2>2, UpTo
    <2> QED
      BY <2>3 DEF T
  <1>8. R \in [0..n -> P!Register]
    BY <1>5, <1>7
  <1> QED
    BY <1>6, <1>8 DEF R, n

(* The registers are the same before the wrong byte, different after it, and*)
(* nothing that follows makes them the same again.                         *)
LEMMA OneWrongByte ==
  ASSUME NEW bytes \in Seq(Byte), NEW other \in Seq(Byte), OneByteApart(bytes, other)
  PROVE  P!crc16_xmodem(bytes) # P!crc16_xmodem(other)
  <1> DEFINE n == Len(bytes)
             R == P!Registers(bytes)
             Q == P!Registers(other)
  <1>1. n \in Nat /\ Len(other) = n
    BY DEF OneByteApart
  <1>2. PICK m \in 1..n : \A l \in 1..n : bytes[l] = other[l] <=> l # m
    BY DEF OneByteApart
  <1>3. \A k \in 1..n : bytes[k] \in Byte /\ other[k] \in Byte
    BY <1>1
  <1>4. /\ R[0] = {} /\ \A k \in 1..n : R[k] = P!OneByte(R[k - 1], bytes[k])
        /\ Q[0] = {} /\ \A k \in 1..n : Q[k] = P!OneByte(Q[k - 1], other[k])
        /\ \A k \in 0..n : R[k] \in P!Register /\ Q[k] \in P!Register
    BY <1>1, RegisterByByte
  <1>5. P!crc16_xmodem(bytes) = R[n] /\ P!crc16_xmodem(other) = Q[n]
    <2>1. ASSUME NEW data \in Seq(Byte) PROVE P!crc16_xmodem(data) = P!Registers(data)[Len(data)]
      BY DEF P!crc16_xmodem, Byte
    <2> QED
      BY <1>1, <2>1
  <1> HIDE DEF n, R, Q
  <1> DEFINE T == {k \in 0..n : R[k] = Q[k] <=> k < m}
  <1>6. 0 \in T
    <2>1. R[0] = Q[0]
      BY <1>4
    <2>2. 0 < m /\ 0 \in 0..n
      BY <1>1, <1>2
    <2> QED
      BY <2>1, <2>2
  <1>7. ASSUME NEW k \in 0..(n - 1), k \in T PROVE k + 1 \in T
    <2>1. k + 1 \in 1..n /\ (k + 1) - 1 = k /\ k + 1 \in 0..n /\ k \in 0..n
      BY <1>1
    <2>2. R[k + 1] = P!OneByte(R[k], bytes[k + 1]) /\ Q[k + 1] = P!OneByte(Q[k], other[k + 1])
      BY <1>4, <2>1
    <2>3. /\ R[k] \in P!Register /\ Q[k] \in P!Register
          /\ bytes[k + 1] \in Byte /\ other[k + 1] \in Byte
      BY <1>3, <1>4, <2>1
    <2>4. CASE k + 1 < m
      <3>1. R[k] = Q[k] /\ bytes[k + 1] = other[k + 1]
        BY <1>2, <1>7, <2>1, <2>4
      <3> QED
        BY <2>1, <2>2, <2>4, <3>1
    <2>5. CASE k + 1 = m
      <3>1. R[k] = Q[k] /\ bytes[k + 1] # other[k + 1]
        BY <1>2, <1>7, <2>1, <2>5
      <3>2. R[k + 1] # Q[k + 1]
        BY <2>2, <2>3, <3>1, OneByteLosesNothing
      <3> QED
        BY <2>1, <2>5, <3>2
    <2>6. CASE k + 1 > m
      <3>1. R[k] # Q[k] /\ bytes[k + 1] = other[k + 1]
        BY <1>2, <1>7, <2>1, <2>6
      <3>2. R[k + 1] # Q[k + 1]
        BY <2>2, <2>3, <3>1, OneByteLosesNothing
      <3> QED
        BY <2>1, <2>6, <3>2
    <2> QED
      BY <1>2, <2>1, <2>4, <2>5, <2>6
  <1> HIDE DEF T
  <1>8. \A k \in 0..n : k \in T
    BY <1>1, <1>6, <1>7, UpTo
  <1>9. n \in T
    BY <1>1, <1>8
  <1> QED
    BY <1>1, <1>2, <1>5, <1>9 DEF T

(* One wrong byte is one wrong byte with more bytes after it,              *)
LEMMA ThenSame ==
  ASSUME NEW p \in Seq(Byte), NEW q \in Seq(Byte), NEW s \in Seq(Byte), OneByteApart(p, q)
  PROVE  OneByteApart(p \o s, q \o s)
  <1>1. Len(p) = Len(q) /\ Len(p) \in Nat /\ Len(s) \in Nat
    BY DEF OneByteApart
  <1>2. PICK k \in 1..Len(p) : \A l \in 1..Len(p) : p[l] = q[l] <=> l # k
    BY DEF OneByteApart
  <1>3. Len(p \o s) = Len(p) + Len(s) /\ Len(q \o s) = Len(p) + Len(s)
    BY <1>1
  <1>4. ASSUME NEW l \in 1..(Len(p) + Len(s)) PROVE (p \o s)[l] = (q \o s)[l] <=> l # k
    <2>1. CASE l <= Len(p)
      <3>1. l \in 1..Len(p) /\ (p \o s)[l] = p[l] /\ (q \o s)[l] = q[l]
        BY <1>1, <2>1
      <3> QED
        BY <1>2, <3>1
    <2>2. CASE ~(l <= Len(p))
      <3>1. (p \o s)[l] = s[l - Len(p)] /\ (q \o s)[l] = s[l - Len(p)] /\ l # k
        BY <1>1, <2>2
      <3> QED
        BY <3>1
    <2> QED
      BY <2>1, <2>2
  <1>5. k \in 1..(Len(p) + Len(s))
    BY <1>1
  <1> QED
    BY <1>3, <1>4, <1>5 DEF OneByteApart

(* and before it.                                                          *)
LEMMA SameThen ==
  ASSUME NEW p \in Seq(Byte), NEW q \in Seq(Byte), NEW s \in Seq(Byte), OneByteApart(p, q)
  PROVE  OneByteApart(s \o p, s \o q)
  <1>1. Len(p) = Len(q) /\ Len(p) \in Nat /\ Len(s) \in Nat
    BY DEF OneByteApart
  <1>2. PICK k \in 1..Len(p) : \A l \in 1..Len(p) : p[l] = q[l] <=> l # k
    BY DEF OneByteApart
  <1>3. Len(s \o p) = Len(s) + Len(p) /\ Len(s \o q) = Len(s) + Len(p)
    BY <1>1
  <1>4. ASSUME NEW l \in 1..(Len(s) + Len(p)) PROVE (s \o p)[l] = (s \o q)[l] <=> l # Len(s) + k
    <2>1. CASE l <= Len(s)
      <3>1. (s \o p)[l] = s[l] /\ (s \o q)[l] = s[l] /\ l # Len(s) + k
        BY <1>1, <2>1
      <3> QED
        BY <3>1
    <2>2. CASE ~(l <= Len(s))
      <3>1. /\ (s \o p)[l] = p[l - Len(s)] /\ (s \o q)[l] = q[l - Len(s)]
            /\ l - Len(s) \in 1..Len(p) /\ (l # Len(s) + k <=> l - Len(s) # k)
        BY <1>1, <2>2
      <3> QED
        BY <1>2, <3>1
    <2> QED
      BY <2>1, <2>2
  <1>5. Len(s) + k \in 1..(Len(s) + Len(p))
    BY <1>1
  <1> QED
    BY <1>3, <1>4, <1>5 DEF OneByteApart

(* FlattenSeq puts one row after the other.                                *)
LEMMA Flattened ==
  ASSUME NEW rows \in Seq(Seq(Byte)), Len(rows) >= 1
  PROVE  \E f \in [0..Len(rows) -> Seq(Byte)] :
           /\ f[0] = << >> /\ \A k \in 1..Len(rows) : f[k] = f[k - 1] \o rows[k]
           /\ P!FlattenSeq(rows) = f[Len(rows)]
  <1> DEFINE n == Len(rows)
             IsFlat(g) == g = [k \in 1..n |-> IF k = 1 THEN rows[k] ELSE g[k - 1] \o rows[k]]
             next == [k \in 1..n |-> [s \in Seq(Byte) |-> s \o rows[k]]]
  <1>1. n \in Nat /\ n >= 1 /\ \A k \in 1..n : rows[k] \in Seq(Byte)
    OBVIOUS
  <1>2. P!FlattenSeq(rows) = (CHOOSE g : IsFlat(g))[n]
    <2>1. Len(rows) # 0
      BY <1>1
    <2> QED
      BY <2>1, Zenon DEF P!FlattenSeq
  <1>3. next \in [1..n -> [Seq(Byte) -> Seq(Byte)]]
    <2>1. ASSUME NEW k \in 1..n, NEW s \in Seq(Byte) PROVE s \o rows[k] \in Seq(Byte)
      BY <1>1
    <2> QED
      BY <2>1
  <1>4. << >> \in Seq(Byte)
    OBVIOUS
  <1>5. PICK f \in [0..n -> Seq(Byte)] : Follows(f, n, << >>, next)
    <2> HIDE DEF n, next, IsFlat
    <2>1. n \in Nat
      BY <1>1
    <2> QED
      BY <1>3, <1>4, <2>1, Chain, Zenon
  <1>6. f[0] = << >> /\ \A k \in 1..n : f[k] = f[k - 1] \o rows[k]
    <2>1. f[0] = << >>
      BY <1>5 DEF Follows
    <2>2. ASSUME NEW k \in 1..n PROVE f[k] = f[k - 1] \o rows[k]
      <3>1. k - 1 \in 0..n
        BY <1>1
      <3>2. f[k - 1] \in Seq(Byte)
        BY <3>1
      <3>3. f[k] = next[k][f[k - 1]]
        BY <1>5, Zenon DEF Follows
      <3> QED
        BY <3>2, <3>3
    <2> QED
      BY <2>1, <2>2
  <1>7. f[1] = << >> \o rows[1] /\ rows[1] \in Seq(Byte)
    <2>1. 1 \in 1..n /\ 1 - 1 = 0
      BY <1>1
    <2>2. f[1] = f[1 - 1] \o rows[1]
      BY <1>6, <2>1
    <2> QED
      BY <1>1, <1>6, <2>1, <2>2
  <1> DEFINE h == [k \in 1..n |-> f[k]]
  <1>8. IsFlat(h)
    <2>1. ASSUME NEW k \in 1..n
          PROVE  f[k] = IF k = 1 THEN rows[k] ELSE h[k - 1] \o rows[k]
      <3>1. CASE k = 1
        <4>1. f[1] = << >> \o rows[1] /\ rows[1] \in Seq(Byte)
          BY <1>7
        <4> QED
          BY <3>1, <4>1
      <3>2. CASE k # 1
        <4>1. k - 1 \in 1..n /\ h[k - 1] = f[k - 1]
          BY <1>1, <3>2
        <4> QED
          BY <1>6, <3>2, <4>1
      <3> QED
        BY <3>1, <3>2
    <2> QED
      BY <2>1
  <1> DEFINE g == CHOOSE g : IsFlat(g)
  <1>9. IsFlat(g)
    <2> HIDE DEF IsFlat, h
    <2> QED
      BY <1>8
  <1>10. \A k \in 1..n : g[k] = IF k = 1 THEN rows[k] ELSE g[k - 1] \o rows[k]
    <2> HIDE DEF g
    <2> QED
      BY <1>9
  <1> HIDE DEF g, h, next, IsFlat
  <1> DEFINE T == {k \in 0..n : k = 0 \/ g[k] = f[k]}
  <1>11. 0 \in T
    BY <1>1
  <1>12. ASSUME NEW k \in 0..(n - 1), k \in T PROVE k + 1 \in T
    <2>1. k + 1 \in 1..n /\ (k + 1) - 1 = k /\ k + 1 \in 0..n
      BY <1>1
    <2>2. f[k + 1] = f[k] \o rows[k + 1]
      BY <1>6, <2>1
    <2>3. CASE k = 0
      <3>1. f[1] = << >> \o rows[1] /\ rows[1] \in Seq(Byte) /\ g[1] = rows[1]
        BY <1>1, <1>10, <1>7
      <3> QED
        BY <2>1, <2>3, <3>1
    <2>4. CASE k # 0
      <3>1. g[k + 1] = g[k] \o rows[k + 1]
        <4>1. k + 1 # 1
          BY <2>4
        <4>2. g[k + 1] = g[(k + 1) - 1] \o rows[k + 1]
          BY <1>10, <2>1, <4>1, Zenon
        <4> QED
          BY <2>1, <4>2, Zenon
      <3> QED
        BY <1>12, <2>1, <2>2, <2>4, <3>1
    <2> QED
      BY <2>3, <2>4
  <1> HIDE DEF T
  <1>13. \A k \in 0..n : k \in T
    BY <1>1, <1>11, <1>12, UpTo
  <1>14. g[n] = f[n]
    BY <1>1, <1>13 DEF T
  <1> QED
    BY <1>2, <1>6, <1>14 DEF g

(* One wrong byte of one row is one wrong byte of the whole.               *)
LEMMA OneRowApart ==
  ASSUME NEW rows \in Seq(Seq(Byte)), NEW others \in Seq(Seq(Byte)), Len(rows) = Len(others),
         NEW m \in 1..Len(rows), OneByteApart(rows[m], others[m]),
         \A k \in 1..Len(rows) : k # m => rows[k] = others[k]
  PROVE  /\ P!FlattenSeq(rows) \in Seq(Byte) /\ P!FlattenSeq(others) \in Seq(Byte)
         /\ OneByteApart(P!FlattenSeq(rows), P!FlattenSeq(others))
  <1> DEFINE n == Len(rows)
  <1>1. n \in Nat /\ n >= 1 /\ \A k \in 1..n : rows[k] \in Seq(Byte) /\ others[k] \in Seq(Byte)
    OBVIOUS
  <1>2. PICK f \in [0..n -> Seq(Byte)] :
          /\ f[0] = << >> /\ \A k \in 1..n : f[k] = f[k - 1] \o rows[k]
          /\ P!FlattenSeq(rows) = f[n]
    BY <1>1, Flattened
  <1>3. PICK g \in [0..n -> Seq(Byte)] :
          /\ g[0] = << >> /\ \A k \in 1..n : g[k] = g[k - 1] \o others[k]
          /\ P!FlattenSeq(others) = g[n]
    BY <1>1, Flattened
  <1> HIDE DEF n
  <1> DEFINE T == {k \in 0..n : /\ k < m => f[k] = g[k]
                                /\ ~(k < m) => OneByteApart(f[k], g[k])}
  <1>4. m \in 1..n /\ \A k \in 1..n : k # m => rows[k] = others[k]
    BY DEF n
  <1>5. 0 \in T
    BY <1>1, <1>2, <1>3, <1>4
  <1>6. ASSUME NEW k \in 0..(n - 1), k \in T PROVE k + 1 \in T
    <2>1. k + 1 \in 1..n /\ (k + 1) - 1 = k /\ k + 1 \in 0..n /\ k \in 0..n
      BY <1>1
    <2>2. f[k + 1] = f[k] \o rows[k + 1] /\ g[k + 1] = g[k] \o others[k + 1]
      BY <1>2, <1>3, <2>1
    <2>3. /\ f[k] \in Seq(Byte) /\ g[k] \in Seq(Byte)
          /\ rows[k + 1] \in Seq(Byte) /\ others[k + 1] \in Seq(Byte)
      BY <1>1, <2>1
    <2>4. CASE k + 1 < m
      <3>1. f[k] = g[k] /\ rows[k + 1] = others[k + 1]
        BY <1>4, <1>6, <2>1, <2>4
      <3> QED
        BY <2>1, <2>2, <2>4, <3>1
    <2>5. CASE k + 1 = m
      <3>1. f[k] = g[k] /\ OneByteApart(rows[k + 1], others[k + 1])
        BY <1>6, <2>1, <2>5
      <3>2. OneByteApart(f[k + 1], g[k + 1])
        BY <2>2, <2>3, <3>1, SameThen
      <3> QED
        BY <2>1, <2>5, <3>2
    <2>6. CASE k + 1 > m
      <3>1. OneByteApart(f[k], g[k]) /\ rows[k + 1] = others[k + 1]
        BY <1>4, <1>6, <2>1, <2>6
      <3>2. OneByteApart(f[k + 1], g[k + 1])
        BY <2>2, <2>3, <3>1, ThenSame
      <3> QED
        BY <2>1, <2>6, <3>2
    <2> QED
      BY <1>4, <2>1, <2>4, <2>5, <2>6
  <1> HIDE DEF T
  <1>7. \A k \in 0..n : k \in T
    BY <1>1, <1>5, <1>6, UpTo
  <1>8. OneByteApart(f[n], g[n])
    BY <1>1, <1>4, <1>7 DEF T
  <1>9. n \in 0..n
    BY <1>1
  <1> QED
    BY <1>2, <1>3, <1>8, <1>9

(* Bits of a zero byte, and of any other.                                  *)
LEMMA FlipsFlip ==
  ASSUME NEW flips \in Flips
  PROVE  flips # {}
  <1>1. PICK v \in Stray \cap 1..255 : flips \in {P!Bits(v), P!High(v)}
    BY DEF Flips
  <1>2. \A w \in {1, 2, 4, 8, 16, 32, 64, 128, 256} : 0 \div w = 0
    OBVIOUS
  <1>3. ASSUME NEW k \in 0..7 PROVE k \notin P!Bits(0)
    <2>1. P!Weight(k) \in {1, 2, 4, 8, 16, 32, 64, 128, 256}
      BY DEF P!Weight
    <2>2. P!Weight(k + 1) \in {1, 2, 4, 8, 16, 32, 64, 128, 256}
      BY DEF P!Weight
    <2> QED
      BY <1>2, <2>1, <2>2 DEF P!Bits, P!IsOne
  <1>4. P!Bits(0) = {} /\ P!High(0) = {}
    BY <1>3 DEF P!Bits, P!High
  <1>5. v \in Byte /\ 0 \in Byte /\ v # 0
    BY DEF Byte
  <1> QED
    BY <1>1, <1>4, <1>5, BitsTellBytesApart, HighTellsBytesApart

(* What to_le_bytes and the name field come to are bytes.                  *)
LEMMA Encoded ==
  ASSUME NEW v \in Nat
  PROVE  P!LE16(v) \in Seq(Byte) /\ P!LE32(v) \in Seq(Byte)
  <1>1. ASSUME NEW w \in Nat PROVE w % 256 \in Byte
    BY DEF Byte
  <1>2. /\ v \div 256 \in Nat /\ v \div 65536 \in Nat /\ v \div 16777216 \in Nat
    OBVIOUS
  <1>3. /\ v % 256 \in Byte /\ (v \div 256) % 256 \in Byte
        /\ (v \div 65536) % 256 \in Byte /\ (v \div 16777216) % 256 \in Byte
    BY <1>1, <1>2
  <1> DEFINE b1 == v % 256
             b2 == (v \div 256) % 256
             b3 == (v \div 65536) % 256
             b4 == (v \div 16777216) % 256
  <1>4. P!LE16(v) = <<b1, b2>> /\ P!LE32(v) = <<b1, b2, b3, b4>>
    BY DEF P!LE16, P!LE32
  <1>5. b1 \in Byte /\ b2 \in Byte /\ b3 \in Byte /\ b4 \in Byte
    BY <1>3
  <1> HIDE DEF b1, b2, b3, b4
  <1> QED
    BY <1>4, <1>5

(* So is what the name field holds.                                        *)
LEMMA EncodedName ==
  ASSUME NEW name \in Seq(Chars)
  PROVE  P!NameBytes(name) \in Seq(Byte)
  <1>1. NAME_SIZE \in Nat
    BY BuildAssumption
  <1>2. ASSUME NEW c \in 1..NAME_SIZE
        PROVE  (IF c <= Len(name) THEN ByteOf[name[c]] ELSE 0) \in Byte
    <2>1. CASE c <= Len(name)
      <3>1. name[c] \in Chars
        BY <2>1
      <3> QED
        BY <2>1, <3>1, HandOverAssumption DEF Byte
    <2>2. CASE ~(c <= Len(name))
      BY <2>2 DEF Byte
    <2> QED
      BY <2>1, <2>2
  <1> QED
    BY <1>1, <1>2 DEF P!NameBytes

(* A name field with one wrong character: characters are bytes.            *)
LEMMA NameApart ==
  ASSUME NEW name \in Seq(Chars), NEW n \in Misread(name)
  PROVE  /\ n \in Seq(Chars)
         /\ OneByteApart(P!NameBytes(n), P!NameBytes(name))
  <1>1. NAME_SIZE \in Nat /\ Len(name) \in Nat /\ NUL \in Chars
    BY BuildAssumption, HandOverAssumption
  <1>2. n \in [1..NAME_SIZE -> Chars] /\ OneByteApart(n, NameField(name))
    BY DEF Misread
  <1>3. n \in Seq(Chars) /\ Len(n) = NAME_SIZE
    BY <1>1, <1>2
  <1>4. PICK m \in 1..NAME_SIZE : \A c \in 1..NAME_SIZE : n[c] = NameField(name)[c] <=> c # m
    BY <1>2, <1>3 DEF OneByteApart
  <1> DEFINE p == P!NameBytes(n)
             q == P!NameBytes(name)
  <1>5. Len(p) = NAME_SIZE /\ Len(q) = NAME_SIZE
    BY <1>1 DEF P!NameBytes
  <1>6. ASSUME NEW c \in 1..NAME_SIZE PROVE p[c] = q[c] <=> c # m
    <2>1. n[c] \in Chars /\ p[c] = ByteOf[n[c]]
      BY <1>1, <1>2, <1>3 DEF P!NameBytes
    <2>2. NameField(name)[c] \in Chars /\ q[c] = ByteOf[NameField(name)[c]]
      <3>1. CASE c <= Len(name)
        BY <1>1, <3>1 DEF NameField, P!NameBytes
      <3>2. CASE ~(c <= Len(name))
        BY <1>1, <3>2, HandOverAssumption DEF NameField, P!NameBytes
      <3> QED
        BY <3>1, <3>2
    <2> HIDE DEF p, q
    <2> QED
      BY <1>4, <2>1, <2>2, HandOverAssumption
  <1> HIDE DEF p, q
  <1>7. OneByteApart(p, q)
    BY <1>5, <1>6 DEF OneByteApart
  <1> QED
    BY <1>3, <1>7 DEF p, q

(* A row of the table, as it is read.                                      *)
Row == [name: Seq(Chars), offset: Nat, length: Nat, burn_addr: Nat, burn_size: Nat, type: Nat]

(* It comes to a sequence of bytes.                                        *)
LEMMA RowIsBytes ==
  ASSUME NEW d \in Row
  PROVE  P!DescriptorBytes(d) \in Seq(Byte)
  <1>1. /\ P!NameBytes(d.name) \in Seq(Byte) /\ P!LE32(d.offset) \in Seq(Byte)
        /\ P!LE32(d.length) \in Seq(Byte) /\ P!LE32(d.burn_addr) \in Seq(Byte)
        /\ P!LE32(d.burn_size) \in Seq(Byte) /\ P!LE32(d.type) \in Seq(Byte)
    BY Encoded, EncodedName DEF Row
  <1>2. \A p, q \in Seq(Byte) : p \o q \in Seq(Byte)
    OBVIOUS
  <1> QED
    BY <1>1, <1>2 DEF P!DescriptorBytes

(* A row of six pieces, one of which has a wrong byte.                     *)
Six(a, b, c, d, e, f) == a \o b \o c \o d \o e \o f

(* Whichever piece the wrong byte is in, it is one of the row.             *)
LEMMA OnePieceApart ==
  ASSUME NEW a \in Seq(Byte), NEW b \in Seq(Byte), NEW c \in Seq(Byte), NEW d \in Seq(Byte),
         NEW e \in Seq(Byte), NEW f \in Seq(Byte), NEW x \in Seq(Byte)
  PROVE  /\ OneByteApart(x, a) => OneByteApart(Six(x, b, c, d, e, f), Six(a, b, c, d, e, f))
         /\ OneByteApart(x, b) => OneByteApart(Six(a, x, c, d, e, f), Six(a, b, c, d, e, f))
         /\ OneByteApart(x, c) => OneByteApart(Six(a, b, x, d, e, f), Six(a, b, c, d, e, f))
         /\ OneByteApart(x, d) => OneByteApart(Six(a, b, c, x, e, f), Six(a, b, c, d, e, f))
         /\ OneByteApart(x, e) => OneByteApart(Six(a, b, c, d, x, f), Six(a, b, c, d, e, f))
         /\ OneByteApart(x, f) => OneByteApart(Six(a, b, c, d, e, x), Six(a, b, c, d, e, f))
  <1>1. \A p, q \in Seq(Byte) : p \o q \in Seq(Byte)
    OBVIOUS
  <1>2. \A p, q, s \in Seq(Byte) : OneByteApart(p, q) => OneByteApart(p \o s, q \o s)
    BY ThenSame
  <1>3. \A p, q, s \in Seq(Byte) : OneByteApart(p, q) => OneByteApart(s \o p, s \o q)
    BY SameThen
  <1>4. ASSUME OneByteApart(x, a)
        PROVE  OneByteApart(Six(x, b, c, d, e, f), Six(a, b, c, d, e, f))
    BY <1>1, <1>2, <1>4 DEF Six
  <1>5. ASSUME OneByteApart(x, b)
        PROVE  OneByteApart(Six(a, x, c, d, e, f), Six(a, b, c, d, e, f))
    BY <1>1, <1>2, <1>3, <1>5 DEF Six
  <1>6. ASSUME OneByteApart(x, c)
        PROVE  OneByteApart(Six(a, b, x, d, e, f), Six(a, b, c, d, e, f))
    BY <1>1, <1>2, <1>3, <1>6 DEF Six
  <1>7. ASSUME OneByteApart(x, d)
        PROVE  OneByteApart(Six(a, b, c, x, e, f), Six(a, b, c, d, e, f))
    BY <1>1, <1>2, <1>3, <1>7 DEF Six
  <1>8. ASSUME OneByteApart(x, e)
        PROVE  OneByteApart(Six(a, b, c, d, x, f), Six(a, b, c, d, e, f))
    BY <1>1, <1>2, <1>3, <1>8 DEF Six
  <1>9. ASSUME OneByteApart(x, f)
        PROVE  OneByteApart(Six(a, b, c, d, e, x), Six(a, b, c, d, e, f))
    BY <1>1, <1>3, <1>9 DEF Six
  <1> QED
    BY <1>4, <1>5, <1>6, <1>7, <1>8, <1>9

(* A descriptor is a name and five numbers.                                *)
LEMMA RowAsPieces ==
  ASSUME NEW d
  PROVE  P!DescriptorBytes(d) =
           Six(P!NameBytes(d.name), P!LE32(d.offset), P!LE32(d.length), P!LE32(d.burn_addr),
               P!LE32(d.burn_size), P!LE32(d.type))
  BY Zenon DEF P!DescriptorBytes, Six

(* A row with a wrong byte in its name, or in a field.                     *)
LEMMA NameRowApart ==
  ASSUME NEW d \in Row, NEW n \in Misread(d.name)
  PROVE  LET e == [d EXCEPT !.name = n]
         IN  e \in Row /\ OneByteApart(P!DescriptorBytes(e), P!DescriptorBytes(d))
  <1> DEFINE e == [d EXCEPT !.name = n]
  <1>1. /\ d.name \in Seq(Chars) /\ d.offset \in Nat /\ d.length \in Nat
        /\ d.burn_addr \in Nat /\ d.burn_size \in Nat /\ d.type \in Nat
    BY DEF Row
  <1>2. /\ n \in Seq(Chars)
        /\ OneByteApart(P!NameBytes(n), P!NameBytes(d.name))
    BY <1>1, NameApart
  <1>3. e \in Row
    BY <1>2 DEF Row
  <1>4. /\ e.name = n /\ e.offset = d.offset /\ e.length = d.length
        /\ e.burn_addr = d.burn_addr /\ e.burn_size = d.burn_size /\ e.type = d.type
    BY DEF Row
  <1> HIDE DEF e
  <1>5. OneByteApart(P!DescriptorBytes(e), P!DescriptorBytes(d))
    BY <1>1, <1>2, <1>4, RowAsPieces, OnePieceApart, Encoded, EncodedName
  <1> QED
    BY <1>3, <1>5 DEF e

(* A row with one wrong byte in one of its five numbers.                   *)
LEMMA FieldRowApart ==
  ASSUME NEW d \in Row, NEW field \in Fields, NEW v \in Mistaken(d[field])
  PROVE  LET e == [d EXCEPT ![field] = v]
         IN  e \in Row /\ OneByteApart(P!DescriptorBytes(e), P!DescriptorBytes(d))
  <1> DEFINE e == [d EXCEPT ![field] = v]
  <1>1. /\ d.name \in Seq(Chars) /\ d.offset \in Nat /\ d.length \in Nat
        /\ d.burn_addr \in Nat /\ d.burn_size \in Nat /\ d.type \in Nat
    BY DEF Row
  <1>2. v \in Nat /\ OneByteApart(P!LE32(v), P!LE32(d[field]))
    BY HandOverAssumption, Sizes DEF Mistaken
  <1>3. e \in Row
    BY <1>2 DEF Row, Fields
  <1>4. \A g \in {"name"} \cup Fields : e[g] = IF g = field THEN v ELSE d[g]
    BY DEF Row, Fields
  <1> SUFFICES OneByteApart(P!DescriptorBytes(e), P!DescriptorBytes(d))
    BY <1>3
  <1> HIDE DEF e
  <1> DEFINE N == P!NameBytes(d.name)
             o == P!LE32(d.offset)
             l == P!LE32(d.length)
             a == P!LE32(d.burn_addr)
             s == P!LE32(d.burn_size)
             t == P!LE32(d.type)
             w == P!LE32(v)
  <1>5. /\ N \in Seq(Byte) /\ o \in Seq(Byte) /\ l \in Seq(Byte) /\ a \in Seq(Byte)
        /\ s \in Seq(Byte) /\ t \in Seq(Byte) /\ w \in Seq(Byte)
    BY <1>1, <1>2, Encoded, EncodedName
  <1>6. P!DescriptorBytes(d) = Six(N, o, l, a, s, t)
    BY RowAsPieces, Zenon
  <1>7. CASE field = "offset"
    <2>1. /\ e.name = d.name /\ e.offset = v /\ e.length = d.length
          /\ e.burn_addr = d.burn_addr /\ e.burn_size = d.burn_size /\ e.type = d.type
      BY <1>4, <1>7 DEF Fields
    <2>2. OneByteApart(w, o)
      BY <1>2, <1>7
    <2>3. P!DescriptorBytes(e) = Six(N, w, l, a, s, t)
      BY <2>1, RowAsPieces, Zenon
    <2> HIDE DEF N, o, l, a, s, t, w
    <2>4. OneByteApart(Six(N, w, l, a, s, t), Six(N, o, l, a, s, t))
      BY <1>5, <2>2, OnePieceApart
    <2> QED
      BY <1>6, <2>3, <2>4
  <1>8. CASE field = "length"
    <2>1. /\ e.name = d.name /\ e.offset = d.offset /\ e.length = v
          /\ e.burn_addr = d.burn_addr /\ e.burn_size = d.burn_size /\ e.type = d.type
      BY <1>4, <1>8 DEF Fields
    <2>2. OneByteApart(w, l)
      BY <1>2, <1>8
    <2>3. P!DescriptorBytes(e) = Six(N, o, w, a, s, t)
      BY <2>1, RowAsPieces, Zenon
    <2> HIDE DEF N, o, l, a, s, t, w
    <2>4. OneByteApart(Six(N, o, w, a, s, t), Six(N, o, l, a, s, t))
      BY <1>5, <2>2, OnePieceApart
    <2> QED
      BY <1>6, <2>3, <2>4
  <1>9. CASE field = "burn_addr"
    <2>1. /\ e.name = d.name /\ e.offset = d.offset /\ e.length = d.length
          /\ e.burn_addr = v /\ e.burn_size = d.burn_size /\ e.type = d.type
      BY <1>4, <1>9 DEF Fields
    <2>2. OneByteApart(w, a)
      BY <1>2, <1>9
    <2>3. P!DescriptorBytes(e) = Six(N, o, l, w, s, t)
      BY <2>1, RowAsPieces, Zenon
    <2> HIDE DEF N, o, l, a, s, t, w
    <2>4. OneByteApart(Six(N, o, l, w, s, t), Six(N, o, l, a, s, t))
      BY <1>5, <2>2, OnePieceApart
    <2> QED
      BY <1>6, <2>3, <2>4
  <1>10. CASE field = "burn_size"
    <2>1. /\ e.name = d.name /\ e.offset = d.offset /\ e.length = d.length
          /\ e.burn_addr = d.burn_addr /\ e.burn_size = v /\ e.type = d.type
      BY <1>4, <1>10 DEF Fields
    <2>2. OneByteApart(w, s)
      BY <1>2, <1>10
    <2>3. P!DescriptorBytes(e) = Six(N, o, l, a, w, t)
      BY <2>1, RowAsPieces, Zenon
    <2> HIDE DEF N, o, l, a, s, t, w
    <2>4. OneByteApart(Six(N, o, l, a, w, t), Six(N, o, l, a, s, t))
      BY <1>5, <2>2, OnePieceApart
    <2> QED
      BY <1>6, <2>3, <2>4
  <1>11. CASE field = "type"
    <2>1. /\ e.name = d.name /\ e.offset = d.offset /\ e.length = d.length
          /\ e.burn_addr = d.burn_addr /\ e.burn_size = d.burn_size /\ e.type = v
      BY <1>4, <1>11 DEF Fields
    <2>2. OneByteApart(w, t)
      BY <1>2, <1>11
    <2>3. P!DescriptorBytes(e) = Six(N, o, l, a, s, w)
      BY <2>1, RowAsPieces, Zenon
    <2> HIDE DEF N, o, l, a, s, t, w
    <2>4. OneByteApart(Six(N, o, l, a, s, w), Six(N, o, l, a, s, t))
      BY <1>5, <2>2, OnePieceApart
    <2> QED
      BY <1>6, <2>3, <2>4
  <1> QED
    BY <1>7, <1>8, <1>9, <1>10, <1>11 DEF Fields

(* The rows of a table.                                                    *)
RowsOf(t) == [k \in DOMAIN t |-> P!DescriptorBytes(t[k])]

(* They are bytes, one row for each descriptor.                            *)
LEMMA RowsAreBytes ==
  ASSUME NEW t \in Seq(Row)
  PROVE  /\ RowsOf(t) \in Seq(Seq(Byte)) /\ Len(RowsOf(t)) = Len(t)
         /\ \A k \in 1..Len(t) : RowsOf(t)[k] = P!DescriptorBytes(t[k])
  <1>1. DOMAIN t = 1..Len(t) /\ Len(t) \in Nat
    OBVIOUS
  <1>2. ASSUME NEW k \in 1..Len(t) PROVE P!DescriptorBytes(t[k]) \in Seq(Byte)
    <2>1. t[k] \in Row
      OBVIOUS
    <2> QED
      BY <2>1, RowIsBytes
  <1> QED
    BY <1>1, <1>2 DEF RowsOf

(* What the sum covers: with a wrong byte in the length, or in one row.    *)
LEMMA LengthApart ==
  ASSUME NEW c \in Nat, NEW l \in Nat, NEW m \in Nat, NEW t \in Seq(Row), Len(t) >= 1,
         OneByteApart(P!LE32(m), P!LE32(l))
  PROVE  P!crc16_xmodem(P!head_bytes(c, m, t)) # P!crc16_xmodem(P!head_bytes(c, l, t))
  <1> DEFINE rest == P!FlattenSeq(RowsOf(t))
  <1>1. rest \in Seq(Byte)
    <2>1. RowsOf(t) \in Seq(Seq(Byte)) /\ Len(RowsOf(t)) >= 1 /\ Len(RowsOf(t)) \in Nat
      BY RowsAreBytes
    <2>2. PICK f \in [0..Len(RowsOf(t)) -> Seq(Byte)] : rest = f[Len(RowsOf(t))]
      BY <2>1, Flattened
    <2> QED
      BY <2>1, <2>2
  <1>2. P!LE16(c) \in Seq(Byte) /\ P!LE32(l) \in Seq(Byte) /\ P!LE32(m) \in Seq(Byte)
    BY Encoded
  <1>3. /\ P!head_bytes(c, m, t) = P!LE16(c) \o P!LE32(m) \o rest
        /\ P!head_bytes(c, l, t) = P!LE16(c) \o P!LE32(l) \o rest
    BY Zenon DEF P!head_bytes, RowsOf
  <1> HIDE DEF rest
  <1>4. OneByteApart(P!LE16(c) \o P!LE32(m), P!LE16(c) \o P!LE32(l))
    BY <1>2, SameThen
  <1>5. P!LE16(c) \o P!LE32(m) \in Seq(Byte) /\ P!LE16(c) \o P!LE32(l) \in Seq(Byte)
    BY <1>2
  <1>6. OneByteApart(P!LE16(c) \o P!LE32(m) \o rest, P!LE16(c) \o P!LE32(l) \o rest)
    BY <1>1, <1>4, <1>5, ThenSame
  <1>7. /\ P!LE16(c) \o P!LE32(m) \o rest \in Seq(Byte)
        /\ P!LE16(c) \o P!LE32(l) \o rest \in Seq(Byte)
    BY <1>1, <1>5
  <1> QED
    BY <1>3, <1>6, <1>7, OneWrongByte

(* So does one in a row of the table.                                      *)
LEMMA RowApart ==
  ASSUME NEW c \in Nat, NEW l \in Nat, NEW t \in Seq(Row), NEW k \in 1..Len(t), NEW d \in Row,
         OneByteApart(P!DescriptorBytes(d), P!DescriptorBytes(t[k]))
  PROVE  P!crc16_xmodem(P!head_bytes(c, l, [t EXCEPT ![k] = d]))
           # P!crc16_xmodem(P!head_bytes(c, l, t))
  <1> DEFINE u == [t EXCEPT ![k] = d]
             before == P!LE16(c) \o P!LE32(l)
  <1>1. /\ u \in Seq(Row) /\ Len(u) = Len(t) /\ u[k] = d /\ Len(t) \in Nat
        /\ \A n \in 1..Len(t) : n # k => u[n] = t[n]
    OBVIOUS
  <1> HIDE DEF u
  <1>2. /\ RowsOf(u) \in Seq(Seq(Byte)) /\ RowsOf(t) \in Seq(Seq(Byte))
        /\ Len(RowsOf(u)) = Len(t) /\ Len(RowsOf(t)) = Len(t)
        /\ \A n \in 1..Len(t) : /\ RowsOf(u)[n] = P!DescriptorBytes(u[n])
                                /\ RowsOf(t)[n] = P!DescriptorBytes(t[n])
    BY <1>1, RowsAreBytes
  <1>3. /\ OneByteApart(RowsOf(u)[k], RowsOf(t)[k])
        /\ \A n \in 1..Len(t) : n # k => RowsOf(u)[n] = RowsOf(t)[n]
    BY <1>1, <1>2
  <1> DEFINE p == P!FlattenSeq(RowsOf(u))
             q == P!FlattenSeq(RowsOf(t))
  <1>4. p \in Seq(Byte) /\ q \in Seq(Byte) /\ OneByteApart(p, q)
    BY <1>2, <1>3, OneRowApart
  <1>5. P!head_bytes(c, l, u) = before \o p /\ P!head_bytes(c, l, t) = before \o q
    BY Zenon DEF P!head_bytes, RowsOf
  <1>6. before \in Seq(Byte)
    <2>1. P!LE16(c) \in Seq(Byte) /\ P!LE32(l) \in Seq(Byte)
      BY Encoded
    <2> QED
      BY <2>1
  <1> HIDE DEF before, p, q
  <1>7. OneByteApart(before \o p, before \o q)
    BY <1>4, <1>6, SameThen
  <1>8. before \o p \in Seq(Byte) /\ before \o q \in Seq(Byte)
    BY <1>4, <1>6
  <1>9. P!crc16_xmodem(P!head_bytes(c, l, u)) # P!crc16_xmodem(P!head_bytes(c, l, t))
    BY <1>5, <1>7, <1>8, OneWrongByte
  <1> QED
    BY <1>9 DEF u

-----------------------------------------------------------------------------
(* A damaged count may be smaller, and then fewer bytes are summed: what a  *)
(* sum of fewer bytes comes to is chance.                                  *)
CountIsRight == ppc # "idle" => file.cnt = cnt

(* The finished table, as rows of bytes.                                   *)
LEMMA FinishedTable ==
  ASSUME HandOverInv, CountsFit, pc = "done"
  PROVE  /\ table \in Seq(Row) /\ cnt = Len(table) /\ Len(table) >= 1 /\ len \in Nat
  <1>1. /\ TypeOK /\ Progress /\ Described /\ Len(table) = Len(parts)
        /\ cnt = Len(parts) % U16 /\ parts \in Inputs
    BY TableLocates DEF HandOverInv, IInv, Described, DescriptorsLocatePayloads
  <1>2. Len(parts) \in Nat /\ Len(parts) >= 1 /\ Len(parts) < U16
    BY <1>1 DEF TypeOK, Progress, CountsFit
  <1>3. cnt = Len(table)
    BY <1>1, <1>2, Fits, Sizes
  <1>4. Descriptor \subseteq Row
    <2> SUFFICES ASSUME NEW d \in Descriptor PROVE d \in Row
      OBVIOUS
    <2>1. U32 \in Nat
      BY Sizes
    <2>2. /\ d = [name |-> d.name, offset |-> d.offset, length |-> d.length,
                  burn_addr |-> d.burn_addr, burn_size |-> d.burn_size, type |-> d.type]
          /\ d.name \in Seq(Chars) /\ d.offset \in 0..(U32 - 1) /\ d.length \in 0..(U32 - 1)
          /\ d.burn_addr \in 0..(U32 - 1) /\ d.burn_size \in 0..(U32 - 1) /\ d.type \in TypeCodes
      BY DEF Descriptor
    <2>3. /\ d.offset \in Nat /\ d.length \in Nat /\ d.burn_addr \in Nat
          /\ d.burn_size \in Nat /\ d.type \in Nat
      BY <2>1, <2>2, HandOverAssumption
    <2> QED
      BY <2>2, <2>3 DEF Row
  <1>5. table \in Seq(Row) /\ len \in Nat
    BY <1>1, <1>4, Sizes DEF TypeOK
  <1> QED
    BY <1>1, <1>2, <1>3, <1>5

(* Whichever byte is wrong, the sum is not that of the rest.               *)
LEMMA DamageIsSummed ==
  ASSUME HandOverInv, CountsFit, pc = "done",
         NEW f \in Damaged(Packed), f.cnt = cnt, f.version # "none"
  PROVE  /\ f.table \in Seq(Row) /\ Len(f.table) = cnt
         /\ f.crc # P!crc16_xmodem(P!head_bytes(f.cnt, f.len, f.table))
  <1> DEFINE Sum(m, t) == P!crc16_xmodem(P!head_bytes(cnt, m, t))
  <1>1. /\ table \in Seq(Row) /\ cnt = Len(table) /\ Len(table) >= 1 /\ len \in Nat
    BY FinishedTable
  <1>2. Len(table) \in Nat /\ cnt \in Nat
    BY <1>1
  <1>3. Packed = [size |-> outLen, version |-> "V1", cnt |-> cnt, len |-> len, table |-> table,
                  crc |-> Sum(len, table)]
    <2>1. crc = <<cnt, len, table>>
      BY DEF HandOverInv, Described
    <2>2. crc[1] = cnt /\ crc[2] = len /\ crc[3] = table
      BY <2>1
    <2> QED
      BY <2>2, Zenon DEF Packed
  <1>4. ASSUME NEW m \in Nat, OneByteApart(P!LE32(m), P!LE32(len))
        PROVE  Sum(m, table) # Sum(len, table)
    BY <1>1, <1>2, <1>4, LengthApart
  <1>5. ASSUME NEW k \in 1..Len(table), NEW d \in Row,
               OneByteApart(P!DescriptorBytes(d), P!DescriptorBytes(table[k]))
        PROVE  Sum(len, [table EXCEPT ![k] = d]) # Sum(len, table)
    BY <1>1, <1>2, <1>5, RowApart
  <1> SUFFICES /\ f.table \in Seq(Row) /\ Len(f.table) = cnt
               /\ f.crc # Sum(f.len, f.table)
    OBVIOUS
  <1> HIDE DEF Sum
  <1>6. CASE f \in OtherSum(Packed)
    <2>1. PICK flips \in Flips : f = [Packed EXCEPT !.crc = P!Xor(@, flips)]
      BY <1>6, Zenon DEF OtherSum
    <2>2. flips # {}
      BY FlipsFlip
    <2>3. P!Xor(Sum(len, table), flips) # Sum(len, table)
      BY <2>2 DEF P!Xor
    <2>4. f.table = table /\ f.len = len /\ f.crc = P!Xor(Sum(len, table), flips)
      BY <1>3, <2>1
    <2> QED
      BY <1>1, <2>3, <2>4
  <1>7. CASE f \in OtherLength(Packed)
    <2>1. PICK v \in Mistaken(Packed.len) : f = [Packed EXCEPT !.len = v]
      BY <1>7, Zenon DEF OtherLength
    <2>2. v \in Nat /\ OneByteApart(P!LE32(v), P!LE32(len))
      BY <1>3, HandOverAssumption, Sizes DEF Mistaken
    <2>3. f.table = table /\ f.len = v /\ f.crc = Sum(len, table)
      BY <1>3, <2>1
    <2> QED
      BY <1>1, <1>4, <2>2, <2>3
  <1>8. CASE f \in SmallerCount(Packed)
    <2>1. PICK v \in {w \in Mistaken(Packed.cnt) : w < Packed.cnt} : f = [Packed EXCEPT !.cnt = v]
      BY <1>8, Zenon DEF SmallerCount
    <2>2. f.cnt = v /\ v < cnt
      BY <1>3, <2>1
    <2> QED
      BY <1>2, <2>2
  <1>9. ASSUME NEW k \in 1..Len(table), NEW d \in Row, f = WithRow(Packed, k, d),
               OneByteApart(P!DescriptorBytes(d), P!DescriptorBytes(table[k]))
        PROVE  /\ f.table \in Seq(Row) /\ Len(f.table) = cnt /\ f.crc # Sum(f.len, f.table)
    <2>1. f.table = [table EXCEPT ![k] = d] /\ f.len = len /\ f.crc = Sum(len, table)
      BY <1>3, <1>9 DEF WithRow
    <2>2. f.table \in Seq(Row) /\ Len(f.table) = Len(table)
      BY <1>1, <2>1
    <2> QED
      BY <1>1, <1>5, <1>9, <2>1, <2>2
  <1>10. CASE f \in OtherName(Packed)
    <2>1. PICK k \in 1..Packed.cnt : f \in WithName(Packed, k)
      BY <1>10, Zenon DEF OtherName
    <2>2. PICK n \in Misread(Packed.table[k].name) :
            f = WithRow(Packed, k, [Packed.table[k] EXCEPT !.name = n])
      BY <2>1, Zenon DEF WithName
    <2> DEFINE d == [table[k] EXCEPT !.name = n]
    <2>3. k \in 1..Len(table) /\ n \in Misread(table[k].name) /\ f = WithRow(Packed, k, d)
      BY <1>1, <1>3, <2>1, <2>2
    <2>4. table[k] \in Row
      BY <1>1, <2>3
    <2>5. d \in Row /\ OneByteApart(P!DescriptorBytes(d), P!DescriptorBytes(table[k]))
      BY <2>3, <2>4, NameRowApart
    <2> HIDE DEF d
    <2> QED
      BY <1>9, <2>3, <2>5
  <1>11. CASE f \in OtherField(Packed)
    <2>1. PICK k \in 1..Packed.cnt, field \in Fields : f \in WithField(Packed, k, field)
      BY <1>11 DEF OtherField
    <2>2. PICK v \in Mistaken(Packed.table[k][field]) :
            f = WithRow(Packed, k, [Packed.table[k] EXCEPT ![field] = v])
      BY <2>1, Zenon DEF WithField
    <2> DEFINE d == [table[k] EXCEPT ![field] = v]
    <2>3. k \in 1..Len(table) /\ v \in Mistaken(table[k][field]) /\ f = WithRow(Packed, k, d)
      BY <1>1, <1>3, <2>1, <2>2
    <2>4. table[k] \in Row
      BY <1>1, <2>3
    <2>5. d \in Row /\ OneByteApart(P!DescriptorBytes(d), P!DescriptorBytes(table[k]))
      BY <2>3, <2>4, FieldRowApart
    <2> HIDE DEF d
    <2> QED
      BY <1>9, <2>3, <2>5
  <1>12. CASE f \in OtherMagic(Packed)
    BY <1>3, <1>12 DEF OtherMagic
  <1> QED
    BY <1>6, <1>7, <1>8, <1>10, <1>11, <1>12, Zenon DEF Damaged

(* So what verify_crc confirms has no wrong byte.                          *)
LEMMA ConfirmedIsUndamaged ==
  ASSUME HandOverInv, CountsFit, CountIsRight
  PROVE  DamageIsReported
  <1> SUFFICES ASSUME crc_valid = "valid", Tampered PROVE FALSE
    BY DEF DamageIsReported
  <1>1. /\ ppc = "ok" /\ P!verify_crc /\ pc = "done" /\ file \in Arrivals
        /\ file.cnt = cnt /\ file.version # "none"
    BY DEF HandOverInv, Verified, Handed, Reading, CountIsRight
  <1>2. CASE file \in {[Packed EXCEPT !.size = kept] : kept \in 0..outLen}
    <2>1. PICK kept : file = [Packed EXCEPT !.size = kept]
      BY <1>2, Zenon
    <2>2. file.size = kept
      BY <2>1 DEF Packed
    <2> QED
      BY <2>1, <2>2 DEF Tampered
  <1>3. CASE file \in Damaged(Packed)
    <2>1. /\ file.table \in Seq(Row) /\ Len(file.table) = cnt
          /\ file.crc # P!crc16_xmodem(P!head_bytes(file.cnt, file.len, file.table))
      BY <1>1, <1>3, DamageIsSummed
    <2>2. Len(bins) = Len(file.table)
      BY <1>1, <2>1 DEF HandOverInv, Reading
    <2>3. SubSeq(file.table, 1, Len(file.table)) = file.table
      BY <2>1
    <2>4. file.crc = P!crc16_xmodem(P!head_bytes(file.cnt, file.len, file.table))
      BY <1>1, <2>2, <2>3, Zenon DEF P!verify_crc
    <2> QED
      BY <2>1, <2>4
  <1> QED
    BY <1>1, <1>2, <1>3 DEF Arrivals

(* A byte that is wrong in the header's sum or length, or anywhere in the   *)
(* table, makes verify_crc say invalid (one that is wrong in the magic is   *)
(* not even read that far), for every list of partitions that the count    *)
(* can number: the register loses nothing from one byte to the next, so    *)
(* what one byte has changed, equal ones cannot change back.               *)
THEOREM RoundTripDamageIsReported ==
  ASSUME CountsFit
  PROVE  RTSpec => [](CountIsRight => DamageIsReported)
  <1>1. HandOverInv => (CountIsRight => DamageIsReported)
    BY ConfirmedIsUndamaged
  <1> QED
    BY <1>1, HandOverInvariance, PTL

-----------------------------------------------------------------------------
(* Damage of one byte leaves all descriptors but one as they were, or       *)
(* leaves fewer of them.                                                   *)
LEMMA ArrivalRows ==
  ASSUME HandOverInv, CountsFit, pc = "done", NEW f \in Arrivals
  PROVE  \/ \A l \in 1..f.cnt : f.table[l] = table[l]
         \/ /\ f.cnt = cnt
            /\ \E k \in 1..cnt : \A l \in 1..cnt : l # k => f.table[l] = table[l]
  <1>1. table \in Seq(Row) /\ cnt = Len(table) /\ cnt \in Nat
    BY FinishedTable
  <1> DEFINE sum == P!crc16_xmodem(P!head_bytes(crc[1], crc[2], crc[3]))
  <1>2. Packed = [size |-> outLen, version |-> "V1", cnt |-> cnt, len |-> len, table |-> table,
                  crc |-> sum]
    BY DEF Packed
  <1> HIDE DEF sum
  <1>3. CASE f \in {[Packed EXCEPT !.size = kept] : kept \in 0..outLen}
    <2>1. PICK kept \in 0..outLen : f = [Packed EXCEPT !.size = kept]
      BY <1>3, Zenon
    <2> QED
      BY <1>2, <2>1
  <1>4. CASE f \in OtherMagic(Packed) \cup OtherSum(Packed)
    BY <1>2, <1>4 DEF OtherMagic, OtherSum
  <1>5. CASE f \in OtherLength(Packed)
    <2>1. PICK v : f = [Packed EXCEPT !.len = v]
      BY <1>5, Zenon DEF OtherLength
    <2> QED
      BY <1>2, <2>1
  <1>6. CASE f \in SmallerCount(Packed)
    <2>1. PICK v : f = [Packed EXCEPT !.cnt = v]
      BY <1>6, Zenon DEF SmallerCount
    <2> QED
      BY <1>2, <2>1
  <1>7. ASSUME NEW k \in 1..Packed.cnt, NEW d, f = WithRow(Packed, k, d)
        PROVE  /\ f.cnt = cnt
               /\ \E n \in 1..cnt : \A l \in 1..cnt : l # n => f.table[l] = table[l]
    <2>1. k \in 1..cnt /\ f.cnt = cnt /\ f.table = [table EXCEPT ![k] = d]
      BY <1>2, <1>7 DEF WithRow
    <2>2. \A l \in 1..cnt : l # k => f.table[l] = table[l]
      BY <1>1, <2>1
    <2> QED
      BY <2>1, <2>2
  <1>8. CASE f \in OtherName(Packed)
    <2>1. PICK k \in 1..Packed.cnt : f \in WithName(Packed, k)
      BY <1>8, Zenon DEF OtherName
    <2>2. PICK d : f = WithRow(Packed, k, d)
      BY <2>1, Zenon DEF WithName
    <2> QED
      BY <1>7, <2>2
  <1>9. CASE f \in OtherField(Packed)
    <2>1. PICK k \in 1..Packed.cnt, field \in Fields : f \in WithField(Packed, k, field)
      BY <1>9 DEF OtherField
    <2>2. PICK d : f = WithRow(Packed, k, d)
      BY <2>1, Zenon DEF WithField
    <2> QED
      BY <1>7, <2>2
  <1> QED
    BY <1>3, <1>4, <1>5, <1>6, <1>8, <1>9, Zenon DEF Arrivals, Damaged

(* So whatever the reader accepts, it has all partitions but one, or the    *)
(* first ones.                                                             *)
LEMMA WhatIsReadWasWritten ==
  ASSUME HandOverInv, CountsFit, ppc = "ok"
  PROVE  Promise!AllButOne(Read, Written) \/ Promise!IsPrefix(Read, Written)
  <1>1. pc = "done" /\ file \in Arrivals
    BY DEF HandOverInv, Handed
  <1>2. /\ Len(bins) = file.cnt /\ Len(Read) = file.cnt /\ Len(Written) = cnt
        /\ cnt \in Nat /\ file.cnt \in Nat /\ file.cnt <= cnt
    BY Lengths
  <1>3. CASE \A l \in 1..file.cnt : file.table[l] = table[l]
    <2>1. \A l \in 1..file.cnt : Read[l] = Written[l]
      BY <1>2, <1>3, IntactRow
    <2>2. SubSeq(Read, 1, Len(Read)) = SubSeq(Written, 1, Len(Read))
      BY <1>2, <2>1
    <2> QED
      BY <1>2, <2>2 DEF Promise!IsPrefix
  <1>4. ASSUME file.cnt = cnt,
               NEW k \in 1..cnt, \A l \in 1..cnt : l # k => file.table[l] = table[l]
        PROVE  Promise!AllButOne(Read, Written)
    <2>1. \A l \in 1..cnt : l # k => Read[l] = Written[l]
      BY <1>2, <1>4, IntactRow
    <2> QED
      BY <1>2, <1>4, <2>1 DEF Promise!AllButOne
  <1> QED
    BY <1>1, <1>3, <1>4, ArrivalRows

-----------------------------------------------------------------------------
(* The reader waits until from_bytes or verify_crc has answered.           *)
LEMMA StillPending ==
  ASSUME HandOverInv, pc \notin Errors, ppc \notin P!Refusals, crc_valid = "unknown"
  PROVE  Answer = "pending" /\ Got = << >>
  BY DEF Answer, Got

(* At first there is nothing to be had.                                    *)
LEMMA PromiseInitially == RTInit => Promise!Init
  <1> SUFFICES ASSUME RTInit PROVE Promise!Init
    OBVIOUS
  <1>1. pc \notin Errors /\ ppc \notin P!Refusals /\ crc_valid = "unknown"
    BY DEF RTInit, Init, Errors, P!Refusals
  <1> QED
    BY <1>1, Initially, StillPending DEF Promise!Init

(* What has been read is a matter of these four.                           *)
ReadOf(places, list, f, descriptors) ==
  [k \in 1..Len(descriptors) |->
     Seen(descriptors[k].name, descriptors[k].type, descriptors[k],
          LET owners == {l \in 1..Len(places) : places[l] = descriptors[k].offset
                                                 /\ list[l].size = descriptors[k].length}
          IN  IF owners = {} \/ descriptors[k].offset + descriptors[k].length > f.size THEN 0
              ELSE CHOOSE l \in owners : TRUE)]

(* So when they stay, it stays.                                            *)
LEMMA ReadUnchanged ==
  ASSUME UNCHANGED <<at, parts, file, bins>>
  PROVE  Read' = Read
  <1>1. Read = ReadOf(at, parts, file, bins)
    BY Zenon DEF Read, ReadOf, bin_data
  <1>2. Read' = ReadOf(at', parts', file', bins')
    BY Zenon DEF Read, ReadOf, bin_data
  <1> QED
    BY <1>1, <1>2, Zenon

(* Steps after which the reader still waits, or has been refused.          *)
LEMMA PendingOrRefused ==
  ASSUME Answer = "pending", Got = << >>, UNCHANGED parts,
         crc_valid' = "unknown"
  PROVE  [Promise!Next]_Promise!vars
  <1>1. Written' = Written
    BY Zenon DEF Written
  <1>2. Answer' \in {"pending", "refused"} /\ Got' = << >>
    BY DEF Answer, Got
  <1> QED
    BY <1>1, <1>2 DEF Promise!Next, Promise!Refuse, Promise!vars

(* A step is a refusal, a confirmed package, a doubtful one, or none of the *)
(* reader's business.                                                      *)
LEMMA StepKeepsThePromise ==
  ASSUME CountsFit, HandOverInv, HandOverInv', DamageIsReported', [RTNext]_all
  PROVE  [Promise!Next]_Promise!vars
  <1>1. CASE Build
    <2>1. /\ Step /\ UNCHANGED <<file, ppc, j, bins, crc_valid>> /\ pc \notin Errors
          /\ pc # "done" /\ UNCHANGED parts
      BY <1>1 DEF Build, reader, parser, Step, RejectEmpty, RejectName, Accept, SumPayload,
           RejectSize, EmitHeader, EmitDescriptor, EmitPayload, FixCrc, Errors
    <2>2. ppc = "idle" /\ crc_valid = "unknown"
      BY <2>1 DEF HandOverInv, Handed, Verified
    <2>3. Answer = "pending" /\ Got = << >>
      BY <2>1, <2>2, StillPending DEF P!Refusals
    <2> QED
      BY <2>1, <2>2, <2>3, PendingOrRefused
  <1>2. CASE HandOver
    <2>1. pc = "done" /\ ppc = "idle" /\ UNCHANGED <<parts, crc_valid>>
      BY <1>2 DEF HandOver, vars
    <2>2. crc_valid = "unknown"
      BY <2>1 DEF HandOverInv, Verified
    <2>3. Answer = "pending" /\ Got = << >>
      BY <2>1, <2>2, StillPending DEF P!Refusals, Errors
    <2> QED
      BY <2>1, <2>2, <2>3, PendingOrRefused
  <1>3. CASE Parse
    <2>1. ppc \in {"open", "table", "bounds"} /\ ppc # "idle" /\ UNCHANGED <<parts, crc_valid>>
      BY <1>3 DEF Parse, vars,
                P!Step, P!HeaderShort, P!WrongMagic, P!PackageNameShort, P!TooManyPartitions,
                P!TableShort, P!HeaderAccepted, P!ReadDescriptor, P!CheckBounds, P!OutOfBounds,
                P!Refuse, P!VersionRead, P!HeaderRead
    <2>2. crc_valid = "unknown" /\ pc = "done"
      BY <2>1 DEF HandOverInv, Handed, Verified
    <2>3. Answer = "pending" /\ Got = << >>
      BY <2>1, <2>2, StillPending DEF P!Refusals, Errors
    <2> QED
      BY <2>1, <2>2, <2>3, PendingOrRefused
  <1>4. CASE VerifyCrc
    <2>1. /\ ppc = "ok" /\ crc_valid = "unknown" /\ UNCHANGED <<vars, file, ppc, j, bins>>
          /\ crc_valid' \in {"valid", "invalid"}
      BY <1>4 DEF VerifyCrc, parser
    <2>2. UNCHANGED <<parts, pc, cnt, len, crc, table, at, outLen>>
      BY <2>1 DEF vars
    <2>3. pc = "done"
      BY <2>1 DEF HandOverInv, Handed
    <2>4. Answer = "pending" /\ Got = << >>
      BY <2>1, <2>3, StillPending DEF P!Refusals, Errors
    <2>5. Written' = Written /\ Read' = Read
      BY <2>1, <2>2, ReadUnchanged, Zenon DEF Written
    <2>6. pc' \notin Errors /\ ppc' \notin P!Refusals
      BY <2>1, <2>2, <2>3 DEF Errors, P!Refusals
    <2>7. CASE crc_valid' = "invalid"
      <3>1. Promise!AllButOne(Read, Written) \/ Promise!IsPrefix(Read, Written)
        BY <2>1, WhatIsReadWasWritten
      <3>2. Answer' = "doubtful" /\ Got' = Read
        BY <2>7, <2>5, <2>6 DEF Answer, Got
      <3>3. Promise!AllButOne(Got', Written) \/ Promise!IsPrefix(Got', Written)
        BY <3>1, <3>2, Zenon
      <3> QED
        BY <2>4, <2>5, <3>2, <3>3, Zenon DEF Promise!Next, Promise!Doubt
    <2>8. CASE crc_valid' = "valid"
      <3>1. ~Tampered'
        BY <2>8 DEF DamageIsReported
      <3>2. Packed' = Packed
        BY <2>2, Zenon DEF Packed
      <3>3. ~Tampered
        BY <2>1, <3>1, <3>2, Zenon DEF Tampered
      <3>4. Read = Written
        BY <2>1, <3>3, UndamagedIsRead
      <3>5. Answer' = "confirmed" /\ Got' = Written
        BY <2>8, <2>5, <2>6, <3>4 DEF Answer, Got
      <3> QED
        BY <2>4, <2>5, <3>5, Zenon DEF Promise!Next, Promise!Confirm
    <2> QED
      BY <2>1, <2>7, <2>8
  <1>5. CASE BuildFailed \/ Answered \/ UNCHANGED all
    <2>1. UNCHANGED <<vars, file, ppc, j, bins, crc_valid>>
      BY <1>5 DEF BuildFailed, Answered, all, reader, parser
    <2>2. UNCHANGED <<parts, pc, cnt, len, crc, table, at, outLen>>
      BY <2>1 DEF vars
    <2>3. Written' = Written
      BY <2>2, Zenon DEF Written
    <2>4. Read' = Read
      BY <2>1, <2>2, ReadUnchanged
    <2>5. Answer' = Answer
      BY <2>1, <2>2, Zenon DEF Answer
    <2>6. Got' = Got
      BY <2>1, <2>4, Zenon DEF Got
    <2> QED
      BY <2>3, <2>5, <2>6 DEF Promise!vars
  <1> QED
    BY <1>1, <1>2, <1>3, <1>4, <1>5 DEF RTNext, RTStep

(* Builder, medium and parser together implement the hand-over, for every  *)
(* list of partitions that the count can number, cut anywhere or with any  *)
(* one byte of magic, sum, length or table wrong: the reader is refused, or *)
(* has exactly the writer's partitions and payloads, or a report that says *)
(* crc_valid is false, and then all of them but one.                       *)
THEOREM RoundTripKeepsThePromise ==
  ASSUME CountsFit
  PROVE  RTSpec /\ []CountIsRight => KeepsThePromise
  <1>1. HandOverInv /\ HandOverInv' /\ DamageIsReported' /\ [RTNext]_all
          => [Promise!Next]_Promise!vars
    BY StepKeepsThePromise
  <1> QED
    BY <1>1, PromiseInitially, HandOverInvariance, RoundTripDamageIsReported, PTL
      DEF RTSpec, KeepsThePromise, Promise!Spec
=============================================================================

-------------------------- MODULE FwpkgParseProofs --------------------------
(***************************************************************************)
(* Proofs about from_bytes, for files with any number of descriptors and   *)
(* any sizes of the format: the chain of refusals decides exactly          *)
(* well-formedness, and what is accepted can be sliced without a check.    *)
(***************************************************************************)
EXTENDS FwpkgParse, WellFoundedInduction, TLAPS

(* How far the two loops have come.                                        *)
Progress ==
  /\ file \in Files
  /\ ppc \in Refusals \cup {"open", "table", "bounds", "ok"}
  /\ j \in Nat \ {0}
  /\ ppc = "open" => j = 1 /\ bins = << >>
  /\ ppc = "table" => j \in 1..file.cnt /\ Len(bins) = j - 1
  /\ ppc = "bounds" => j \in 1..file.cnt
  /\ ppc \in {"bounds", "ok"} => Len(bins) = file.cnt

(* What they have read is what the table says.                             *)
Faithful ==
  /\ bins = [k \in 1..Len(bins) |-> BinInfo(file.table[k])]
  /\ Len(bins) \in Nat /\ Len(bins) <= file.cnt /\ Len(bins) <= MAX_PARTITIONS

(* Which checks have been passed, and which one has not.                   *)
Checked ==
  /\ ppc \in {"table", "bounds", "ok"} =>
       file.version # "none" /\ file.cnt <= MAX_PARTITIONS /\ file.size >= table_end
  /\ ppc = "bounds" => \A k \in 1..(j - 1) : InBounds(bins[k])
  /\ ppc = "ok" => \A k \in 1..file.cnt : InBounds(bins[k])
  /\ ppc \in Refusals => ~WellFormed

IInv == Progress /\ Faithful /\ Checked

-----------------------------------------------------------------------------
(* Reading a descriptor keeps the fields InBounds looks at.                *)
LEMMA BoundsAsRead ==
  ASSUME NEW f \in Files, NEW k \in 1..f.cnt
  PROVE  /\ BinInfo(f.table[k]).offset = f.table[k].offset
         /\ BinInfo(f.table[k]).length = f.table[k].length
         /\ f.table[k].offset \in Nat /\ f.table[k].length \in Nat
  <1>1. f.table[k] \in RawDescriptor
    BY FilesAssumption
  <1> QED
    BY <1>1 DEF RawDescriptor, BinInfo

(* The first zero byte of a name is well defined.                          *)
LEMMA LeastNatural ==
  ASSUME NEW T \in SUBSET Nat, T # {}
  PROVE  \E n \in T : \A m \in T : n <= m
  <1> DEFINE Less == {ss \in Nat \X Nat : ss[1] < ss[2]}
  <1>1. IsWellFoundedOn(Less, Nat)
    <2>1. OpToRel(<, Nat) = Less
      BY Zenon DEF OpToRel
    <2> QED
      BY <2>1, NatLessThanWellFounded, Zenon
  <1>2. \A m, n \in Nat : <<m, n>> \in Less <=> m < n
    OBVIOUS
  <1> HIDE DEF Less
  <1>3. PICK n \in T : \A m \in T : <<m, n>> \notin Less
    BY <1>1, WFMin
  <1>4. ASSUME NEW m \in T PROVE n <= m
    <2>1. m \in Nat /\ n \in Nat /\ ~(m < n)
      BY <1>2, <1>3
    <2> QED
      BY <2>1
  <1> QED
    BY <1>4

(* read_name returns a name without its filling, and it is a prefix.       *)
LEMMA NameAsRead ==
  ASSUME NEW field \in Seq(STRING)
  PROVE  read_name(field) \in Seq(STRING)
  <1> DEFINE ends == {k \in 1..Len(field) : field[k] = NUL}
             first == CHOOSE k \in ends : \A l \in ends : k <= l
  <1>1. read_name(field) = IF ends = {} THEN field ELSE SubSeq(field, 1, first - 1)
    BY DEF read_name
  <1>2. CASE ends = {}
    BY <1>1, <1>2
  <1>3. CASE ends # {}
    <2>1. ends \in SUBSET Nat
      OBVIOUS
    <2>2. first \in ends
      <3> HIDE DEF ends
      <3> QED
        BY <1>3, <2>1, LeastNatural
    <2>3. first \in 1..Len(field)
      BY <2>2
    <2> HIDE DEF first, ends
    <2>4. SubSeq(field, 1, first - 1) \in Seq(STRING)
      BY <2>3
    <2> QED
      BY <1>1, <1>3, <2>4
  <1> QED
    BY <1>2, <1>3

ParsedBin == [name: Seq(STRING), offset: Nat, length: Nat, burn_addr: Nat,
              burn_size: Nat, type: [known: BOOLEAN, code: Nat]]

(* A descriptor as it is read has the types of a parsed one.               *)
LEMMA DescriptorAsRead ==
  ASSUME NEW d \in RawDescriptor
  PROVE  BinInfo(d) \in ParsedBin
  <1>1. /\ d.name \in Seq(STRING) /\ d.offset \in Nat /\ d.length \in Nat
        /\ d.burn_addr \in Nat /\ d.burn_size \in Nat /\ d.type \in Nat
    BY DEF RawDescriptor
  <1>2. read_name(d.name) \in Seq(STRING)
    BY <1>1, NameAsRead
  <1>3. type_from(d.type) \in [known: BOOLEAN, code: Nat]
    BY <1>1 DEF type_from
  <1>4. BinInfo(d) = [name |-> read_name(d.name), offset |-> d.offset, length |-> d.length,
                      burn_addr |-> d.burn_addr, burn_size |-> d.burn_size,
                      type |-> type_from(d.type)]
    <2>1. d = [name |-> d.name, offset |-> d.offset, length |-> d.length,
               burn_addr |-> d.burn_addr, burn_size |-> d.burn_size, type |-> d.type]
      BY DEF RawDescriptor
    <2>2. [d EXCEPT !.name = read_name(d.name)] =
            [name |-> read_name(d.name), offset |-> d.offset, length |-> d.length,
             burn_addr |-> d.burn_addr, burn_size |-> d.burn_size, type |-> d.type]
      BY <2>1
    <2>3. ASSUME NEW e,
                 e = [name |-> read_name(d.name), offset |-> d.offset, length |-> d.length,
                      burn_addr |-> d.burn_addr, burn_size |-> d.burn_size, type |-> d.type]
          PROVE  [e EXCEPT !.type = type_from(d.type)] =
                   [name |-> read_name(d.name), offset |-> d.offset, length |-> d.length,
                    burn_addr |-> d.burn_addr, burn_size |-> d.burn_size,
                    type |-> type_from(d.type)]
      BY <2>3
    <2>4. BinInfo(d) = [[d EXCEPT !.name = read_name(d.name)] EXCEPT !.type = type_from(d.type)]
      BY Zenon DEF BinInfo
    <2> QED
      BY <2>2, <2>3, <2>4, Zenon
  <1> HIDE DEF read_name, type_from
  <1> QED
    BY <1>1, <1>2, <1>3, <1>4 DEF ParsedBin

(* All of a header, of whatever version, is in front of the table.         *)
LEMMA TableIsBehind ==
  ASSUME file \in Files, file.version # "none", file.size >= table_end
  PROVE  /\ file.size >= HEADER_SIZE
         /\ file.version = "V2" => file.size >= HEADER_SIZE + NAME_SIZE_V2
         /\ table_end \in Nat
  <1>1. file.size \in Nat /\ file.cnt \in Nat
    BY FilesAssumption
  <1>2. file.cnt * BIN_INFO_SIZE \in Nat /\ file.cnt * BIN_INFO_SIZE_V2 \in Nat
    BY <1>1, ParseAssumption
  <1>3. CASE file.version = "V1"
    BY <1>1, <1>2, <1>3, ParseAssumption DEF table_end, header_size, bin_info_size
  <1>4. CASE file.version # "V1"
    BY <1>1, <1>2, <1>4, ParseAssumption DEF table_end, header_size, bin_info_size
  <1> QED
    BY <1>3, <1>4

(* The first file, nothing read.                                           *)
LEMMA Initially == Init => IInv
  <1> SUFFICES ASSUME Init PROVE IInv
    OBVIOUS
  <1>1. file.cnt \in Nat
    BY FilesAssumption DEF Init
  <1> QED
    BY <1>1, ParseAssumption DEF Init, IInv, Progress, Faithful, Checked, Refusals

(* A refusal of the header contradicts well-formedness.                    *)
LEMMA HeaderRefusals ==
  ASSUME IInv, HeaderShort \/ WrongMagic \/ PackageNameShort \/ TooManyPartitions \/ TableShort
  PROVE  IInv'
  <1>1. file \in Files /\ file.size \in Nat /\ file.cnt \in Nat
    BY FilesAssumption DEF IInv, Progress
  <1>2. ppc' \in Refusals /\ UNCHANGED <<file, j, bins>> /\ ppc = "open"
    BY DEF HeaderShort, WrongMagic, PackageNameShort, TooManyPartitions, TableShort, Refuse,
           Refusals, VersionRead, HeaderRead
  <1>3. ~WellFormed
    <2> SUFFICES ASSUME WellFormed PROVE FALSE
      OBVIOUS
    <2>1. /\ file.size >= HEADER_SIZE /\ table_end \in Nat
          /\ file.version = "V2" => file.size >= HEADER_SIZE + NAME_SIZE_V2
      <3>1. file.version # "none" /\ file.size >= table_end
        BY DEF WellFormed
      <3> QED
        BY <1>1, <3>1, TableIsBehind
    <2>2. HEADER_SIZE \in Nat /\ NAME_SIZE_V2 \in Nat /\ MAX_PARTITIONS \in Nat
      BY ParseAssumption
    <2>3. file.version # "none" /\ file.cnt <= MAX_PARTITIONS /\ file.size >= table_end
      BY DEF WellFormed
    <2>4. CASE HeaderShort
      <3>1. file.size < HEADER_SIZE
        BY <2>4 DEF HeaderShort
      <3> QED
        BY <1>1, <2>1, <2>2, <3>1
    <2>5. CASE WrongMagic
      <3>1. file.version = "none"
        BY <2>5 DEF WrongMagic
      <3> QED
        BY <2>3, <3>1
    <2>6. CASE PackageNameShort
      <3>1. file.version = "V2" /\ file.size < HEADER_SIZE + NAME_SIZE_V2
        BY <2>6 DEF PackageNameShort
      <3> QED
        BY <1>1, <2>1, <2>2, <3>1
    <2>7. CASE TooManyPartitions
      <3>1. file.cnt > MAX_PARTITIONS
        BY <2>7 DEF TooManyPartitions
      <3> QED
        BY <1>1, <2>2, <2>3, <3>1
    <2>8. CASE TableShort
      <3>1. file.size < table_end
        BY <2>8 DEF TableShort
      <3> QED
        BY <1>1, <2>1, <2>3, <3>1
    <2> QED
      BY <2>4, <2>5, <2>6, <2>7, <2>8
  <1>4. ~WellFormed'
    BY <1>2, <1>3 DEF WellFormed, InBounds, table_end, header_size, bin_info_size
  <1> QED
    BY <1>2, <1>4 DEF IInv, Progress, Faithful, Checked, Refusals, BinInfo

(* All checks on the header have passed.                                   *)
LEMMA HeaderAcceptance == ASSUME IInv, HeaderAccepted PROVE IInv'
  <1>1. file \in Files /\ file.size \in Nat /\ file.cnt \in Nat
    BY FilesAssumption DEF IInv, Progress
  <1>2. /\ ppc = "open" /\ file.version # "none" /\ file.cnt <= MAX_PARTITIONS
        /\ file.size >= table_end
        /\ ppc' = IF file.cnt = 0 THEN "ok" ELSE "table"
        /\ UNCHANGED <<file, j, bins>> /\ j = 1 /\ bins = << >>
    BY DEF HeaderAccepted, VersionRead, HeaderRead, IInv, Progress
  <1>3. Progress'
    BY <1>1, <1>2 DEF Progress, Refusals
  <1>4. Faithful'
    BY <1>2 DEF IInv, Faithful, BinInfo
  <1>5. Checked'
    BY <1>1, <1>2 DEF Checked, Refusals, table_end, header_size, bin_info_size
  <1> QED
    BY <1>3, <1>4, <1>5 DEF IInv

(* One more descriptor.                                                    *)
LEMMA Reading == ASSUME IInv, ReadDescriptor PROVE IInv'
  <1>1. file \in Files /\ file.size \in Nat /\ file.cnt \in Nat
    BY FilesAssumption DEF IInv, Progress
  <1>2. /\ ppc = "table" /\ j \in 1..file.cnt /\ Len(bins) = j - 1
        /\ file.version # "none" /\ file.cnt <= MAX_PARTITIONS /\ file.size >= table_end
    BY DEF ReadDescriptor, IInv, Progress, Checked
  <1>3. bins' = Append(bins, BinInfo(file.table[j])) /\ UNCHANGED file
    BY DEF ReadDescriptor
  <1>4. bins = [k \in 1..(j - 1) |-> BinInfo(file.table[k])]
    BY <1>2 DEF IInv, Faithful
  <1>5. bins' = [k \in 1..j |-> BinInfo(file.table[k])]
    BY <1>1, <1>2, <1>3, <1>4
  <1>6. Len(bins') = j
    BY <1>2, <1>5
  <1>10. Faithful'
    <2>1. bins' = [k \in 1..Len(bins') |-> BinInfo(file'.table[k])]
      BY <1>3, <1>5, <1>6 DEF BinInfo
    <2>2. Len(bins') \in Nat /\ Len(bins') <= file'.cnt /\ Len(bins') <= MAX_PARTITIONS
      BY <1>1, <1>2, <1>3, <1>6, ParseAssumption
    <2> QED
      BY <2>1, <2>2 DEF Faithful, BinInfo
  <1>7. CASE j = file.cnt
    <2>1. j' = 1 /\ ppc' = "bounds"
      BY <1>7 DEF ReadDescriptor
    <2>2. Progress'
      BY <1>1, <1>2, <1>3, <1>6, <1>7, <2>1 DEF Progress, Refusals
    <2>3. Checked'
      BY <1>2, <1>3, <2>1 DEF Checked, Refusals, table_end, header_size, bin_info_size
    <2> QED
      BY <1>10, <2>2, <2>3 DEF IInv
  <1>8. CASE j # file.cnt
    <2>1. j' = j + 1 /\ ppc' = "table"
      BY <1>2, <1>8 DEF ReadDescriptor
    <2>2. Progress'
      BY <1>1, <1>2, <1>3, <1>6, <1>8, <2>1 DEF IInv, Progress, Refusals
    <2>3. Checked'
      BY <1>2, <1>3, <2>1 DEF Checked, Refusals, table_end, header_size, bin_info_size
    <2> QED
      BY <1>10, <2>2, <2>3 DEF IInv
  <1> QED
    BY <1>7, <1>8

(* One more range is inside the file.                                      *)
LEMMA Bounding == ASSUME IInv, CheckBounds PROVE IInv'
  <1>1. file \in Files /\ file.size \in Nat /\ file.cnt \in Nat
    BY FilesAssumption DEF IInv, Progress
  <1>2. /\ ppc = "bounds" /\ j \in 1..file.cnt /\ Len(bins) = file.cnt
        /\ file.version # "none" /\ file.cnt <= MAX_PARTITIONS /\ file.size >= table_end
        /\ \A k \in 1..(j - 1) : InBounds(bins[k])
    BY DEF CheckBounds, IInv, Progress, Checked
  <1>3. InBounds(bins[j]) /\ UNCHANGED <<file, bins>>
    BY DEF CheckBounds
  <1>4. \A k \in 1..j : InBounds(bins[k])
    BY <1>1, <1>2, <1>3
  <1>5. Faithful'
    BY <1>3 DEF IInv, Faithful, BinInfo
  <1>6. CASE j = file.cnt
    <2>1. j' = 1 /\ ppc' = "ok"
      BY <1>6 DEF CheckBounds
    <2>2. Progress'
      BY <1>1, <1>2, <1>3, <2>1 DEF Progress, Refusals
    <2>3. Checked'
      BY <1>2, <1>3, <1>4, <1>6, <2>1
        DEF Checked, Refusals, InBounds, table_end, header_size, bin_info_size
    <2> QED
      BY <1>5, <2>2, <2>3 DEF IInv
  <1>7. CASE j # file.cnt
    <2>1. j' = j + 1 /\ ppc' = "bounds"
      BY <1>2, <1>7 DEF CheckBounds
    <2>2. Progress'
      BY <1>1, <1>2, <1>3, <1>7, <2>1 DEF Progress, Refusals
    <2>3. Checked'
      BY <1>1, <1>2, <1>3, <1>4, <2>1
        DEF Checked, Refusals, InBounds, table_end, header_size, bin_info_size
    <2> QED
      BY <1>5, <2>2, <2>3 DEF IInv
  <1> QED
    BY <1>6, <1>7

(* The one that is not makes the file ill-formed.                          *)
LEMMA Unbounded == ASSUME IInv, OutOfBounds PROVE IInv'
  <1>1. file \in Files /\ j \in 1..file.cnt
    BY DEF IInv, Progress, OutOfBounds
  <1>2. ~InBounds(bins[j]) /\ UNCHANGED <<file, j, bins>> /\ ppc' = "out of bounds"
    BY DEF OutOfBounds, Refuse
  <1>3. bins[j] = BinInfo(file.table[j])
    <2>1. Len(bins) = file.cnt /\ bins = [k \in 1..Len(bins) |-> BinInfo(file.table[k])]
      BY DEF IInv, Progress, Faithful, OutOfBounds
    <2> QED
      BY <1>1, <2>1
  <1>4. ~InBounds(file.table[j])
    BY <1>1, <1>2, <1>3, BoundsAsRead DEF InBounds
  <1>5. ~WellFormed'
    BY <1>1, <1>2, <1>4 DEF WellFormed, InBounds
  <1> QED
    BY <1>2, <1>5 DEF IInv, Progress, Faithful, Checked, Refusals, BinInfo

(* All steps together.                                                     *)
LEMMA Inductive == IInv /\ [Next]_vars => IInv'
  <1> SUFFICES ASSUME IInv, [Next]_vars PROVE IInv'
    OBVIOUS
  <1>1. CASE Answered \/ UNCHANGED vars
    <2>1. UNCHANGED <<file, ppc, j, bins>>
      BY <1>1 DEF Answered, vars
    <2>2. Progress'
      BY <2>1 DEF IInv, Progress, Refusals
    <2>3. Faithful'
      BY <2>1 DEF IInv, Faithful, BinInfo
    <2>4. Checked'
      BY <2>1 DEF IInv, Checked, Refusals, WellFormed, InBounds, table_end, header_size,
                  bin_info_size
    <2> QED
      BY <2>2, <2>3, <2>4 DEF IInv
  <1> QED
    BY <1>1, HeaderRefusals, HeaderAcceptance, Reading, Bounding, Unbounded DEF Next, Step

(* So the invariant holds throughout.                                      *)
LEMMA Invariance == Spec => []IInv
  BY Initially, Inductive, PTL DEF Spec

-----------------------------------------------------------------------------
(* What from_bytes has parsed is typed, whatever the file's names hold,     *)
(* and never more than MAX_PARTITIONS descriptors of it.                   *)
THEOREM ParseTypes == Spec => []ParseTypeOK
  <1>1. IInv => ParseTypeOK
    <2> SUFFICES ASSUME IInv PROVE ParseTypeOK
      OBVIOUS
    <2>1. /\ file \in Files /\ j \in Nat \ {0} /\ Len(bins) \in Nat
          /\ ppc \in Refusals \cup {"open", "table", "bounds", "ok"}
          /\ bins = [k \in 1..Len(bins) |-> BinInfo(file.table[k])]
          /\ Len(bins) <= file.cnt /\ Len(bins) <= MAX_PARTITIONS
      BY DEF IInv, Progress, Faithful
    <2>2. ASSUME NEW k \in 1..Len(bins) PROVE BinInfo(file.table[k]) \in ParsedBin
      <3>1. file.table[k] \in RawDescriptor
        BY <2>1, FilesAssumption
      <3> QED
        BY <3>1, DescriptorAsRead
    <2>3. bins \in Seq(ParsedBin)
      <3>1. bins \in [1..Len(bins) -> ParsedBin]
        BY <2>1, <2>2
      <3> QED
        BY <2>1, <3>1
    <2> QED
      BY <2>1, <2>3 DEF ParseTypeOK, ParsedBin
  <1> QED
    BY <1>1, Invariance, PTL

(* from_bytes takes exactly the well-formed files, for every limit and      *)
(* every size of the format: no refusal masks another.                     *)
THEOREM ParseAcceptsTheFormat == Spec => []AcceptsTheFormat
  <1>1. IInv => AcceptsTheFormat
    <2> SUFFICES ASSUME IInv, ppc = "ok" PROVE WellFormed
      BY DEF AcceptsTheFormat, IInv, Checked
    <2>1. /\ file \in Files /\ file.version # "none" /\ file.cnt <= MAX_PARTITIONS
          /\ file.size >= table_end /\ Len(bins) = file.cnt
          /\ \A k \in 1..file.cnt : InBounds(bins[k])
          /\ bins = [k \in 1..Len(bins) |-> BinInfo(file.table[k])]
      BY DEF IInv, Progress, Faithful, Checked
    <2>2. ASSUME NEW k \in 1..file.cnt PROVE InBounds(file.table[k])
      BY <2>1, BoundsAsRead DEF InBounds
    <2> QED
      BY <2>1, <2>2 DEF WellFormed
  <1> QED
    BY <1>1, Invariance, PTL

(* verify_crc and bin_data slice inside the file, whatever it contains.    *)
THEOREM ParseAccessorsAreTotal == Spec => []AccessorsAreTotal
  <1>1. IInv => AccessorsAreTotal
    BY DEF IInv, Progress, Checked, AccessorsAreTotal, table_end
  <1> QED
    BY <1>1, Invariance, PTL
=============================================================================

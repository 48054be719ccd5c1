-------------------------- MODULE FlashingProofs --------------------------
(***************************************************************************)
(* Proofs about a planned update carried out: for every input, flash and   *)
(* sector size, and every number of power failures.                        *)
(***************************************************************************)
EXTENDS Flashing, FlashPlanProofs, SequenceTheorems

Cell == [header: Header \cup {NoHeader}, byte: Byte \cup {Leftover, Garbage}]

(* The sectors the transport erases: from the start of the base's sector to *)
(* the end of the last one.                                                *)
Erased0 == SectorStart(plan.erase_range.start)
ErasedEnd == SectorsEnd(plan.erase_range)

WriteEnd == plan.write_chunk.addr + plan.write_chunk.len

DeviceTypes ==
  /\ flash \in [Addr -> Cell]
  /\ phase \in {"idle", "erase", "program", "done", "refused"}
  /\ losses \in 0..MaxLosses /\ at \in 0..FlashEnd

(* The board's partition table is right about the app.                     *)
Placed ==
  boot_addr = IF Intended(input, app_addr) \in Addr THEN Intended(input, app_addr)
              ELSE app_partition_addr[chip]

Carried == phase \in {"erase", "program", "done"} => pc = "planned" /\ FitsFlash

(* Whole sectors have been erased, from the first one on.                  *)
Erasing ==
  phase = "erase" =>
    /\ Erased0 <= at /\ at <= ErasedEnd /\ \E n \in Nat : at = n * SectorSize
    /\ \A a \in Erased0..(at - 1) : flash[a] = ByteCell(Erased)

(* The image is in flash as far as it has been written, and all around it   *)
(* is erased.                                                              *)
Programming ==
  phase \in {"program", "done"} =>
    /\ plan.write_chunk.addr <= at /\ at <= WriteEnd
    /\ \A a \in Erased0..(ErasedEnd - 1) :
         flash[a] = IF plan.write_chunk.addr <= a /\ a < at
                    THEN Cells(plan.image)[a - plan.write_chunk.addr] ELSE ByteCell(Erased)

(* The update is still the one that was asked for.                         *)
Asked ==
  input \in Inputs /\ chip \in Chips /\ app_addr \in AppAddrs /\ app_name \in AppNames

IInv ==
  /\ PlanInv /\ Asked
  /\ DeviceTypes /\ Placed /\ Carried /\ Erasing /\ Programming
  /\ phase = "done" => at = WriteEnd

-----------------------------------------------------------------------------
(* Sectors.                                                                *)
LEMMA SectorStartIs ==
  ASSUME NEW a \in Nat
  PROVE  /\ SectorStart(a) \in Nat /\ SectorStart(a) <= a /\ a < SectorStart(a) + SectorSize
         /\ \E q \in Nat : SectorStart(a) = q * SectorSize
  <1>1. a % SectorSize \in 0..(SectorSize - 1) /\ a % SectorSize <= a
    BY FlashAssumption
  <1>2. a = SectorSize * (a \div SectorSize) + (a % SectorSize) /\ a \div SectorSize \in Nat
    BY FlashAssumption
  <1>3. SectorStart(a) = (a \div SectorSize) * SectorSize
    BY <1>2, FlashAssumption DEF SectorStart
  <1>4. \E q \in Nat : SectorStart(a) = q * SectorSize
    BY <1>2, <1>3
  <1> QED
    BY <1>1, <1>4, FlashAssumption DEF SectorStart

(* The next sector after one that is not the last ends in time.            *)
LEMMA NextSector ==
  ASSUME NEW p \in Nat, NEW q \in Nat, p * SectorSize < q * SectorSize
  PROVE  p * SectorSize + SectorSize <= q * SectorSize /\ p * SectorSize + SectorSize = (p + 1) * SectorSize
  <1>1. p < q
    BY FlashAssumption
  <1>2. p * SectorSize + SectorSize = (p + 1) * SectorSize
    BY FlashAssumption
  <1>3. (p + 1) * SectorSize <= q * SectorSize
    BY <1>1, FlashAssumption
  <1> QED
    BY <1>2, <1>3, FlashAssumption

(* The sectors of the plan hold its ranges.                                *)
LEMMA SectorsOfThePlan ==
  ASSUME PlanInv, pc = "planned"
  PROVE  /\ Erased0 \in Nat /\ ErasedEnd \in Nat
         /\ Erased0 <= plan.write_chunk.addr /\ plan.write_chunk.addr < Erased0 + SectorSize
         /\ WriteEnd <= ErasedEnd /\ plan.write_chunk.addr < WriteEnd
         /\ plan.erase_range.start + plan.erase_range.len <= ErasedEnd
         /\ plan.write_chunk.addr \in Nat /\ WriteEnd \in Nat
         /\ WriteEnd = plan.write_chunk.addr + IMAGE_HEADER_LEN + Len(plan.image.body)
         /\ \E q \in Nat : Erased0 = q * SectorSize
         /\ \E q \in Nat : ErasedEnd = q * SectorSize
  <1> DEFINE start == plan.erase_range.start
             len == plan.erase_range.len
             reach == start + len + SectorSize - 1
  <1>1. /\ base_addr \in Nat /\ len \in Nat /\ start = base_addr
        /\ plan.write_chunk.addr = base_addr /\ plan.write_chunk.len = plan.image_len
        /\ plan.image_len <= len /\ plan.image_len = IMAGE_HEADER_LEN + Len(plan.image.body)
        /\ Len(plan.image.body) \in Nat /\ IMAGE_HEADER_LEN \in Nat /\ IMAGE_HEADER_LEN > 0
    BY PlannedRanges, PlanAssumption, ElfAssumption
  <1>2. reach \in Nat /\ SectorSize \in Nat \ {0}
    <2> HIDE DEF start, len
    <2> QED
      BY <1>1, FlashAssumption
  <1>3. /\ SectorStart(start) \in Nat /\ SectorStart(start) <= start
        /\ start < SectorStart(start) + SectorSize
        /\ \E q \in Nat : SectorStart(start) = q * SectorSize
    BY <1>1, SectorStartIs
  <1>4. /\ SectorStart(reach) \in Nat /\ reach < SectorStart(reach) + SectorSize
        /\ \E q \in Nat : SectorStart(reach) = q * SectorSize
    <2> HIDE DEF reach
    <2> QED
      BY <1>2, SectorStartIs
  <1>5. Erased0 = SectorStart(start) /\ ErasedEnd = SectorStart(reach)
    BY DEF Erased0, ErasedEnd, SectorsEnd
  <1>6. start + len <= ErasedEnd
    <2>1. SectorStart(reach) \in Nat /\ start + len + SectorSize - 1 < SectorStart(reach) + SectorSize
      BY <1>4
    <2> HIDE DEF start, len, reach
    <2> QED
      BY <1>1, <1>2, <1>5, <2>1
  <1>7. WriteEnd = base_addr + plan.image_len
    BY <1>1 DEF WriteEnd
  <1> HIDE DEF reach
  <1>8. /\ WriteEnd <= ErasedEnd /\ base_addr < WriteEnd /\ WriteEnd \in Nat /\ ErasedEnd \in Nat
        /\ WriteEnd = base_addr + IMAGE_HEADER_LEN + Len(plan.image.body)
    <2>1. start + len <= ErasedEnd /\ ErasedEnd \in Nat
      BY <1>4, <1>5, <1>6
    <2>2. /\ base_addr \in Nat /\ len \in Nat /\ start = base_addr
          /\ plan.image_len <= len /\ plan.image_len = IMAGE_HEADER_LEN + Len(plan.image.body)
          /\ Len(plan.image.body) \in Nat /\ IMAGE_HEADER_LEN \in Nat /\ IMAGE_HEADER_LEN > 0
      BY <1>1
    <2> HIDE DEF start, len
    <2>3. plan.image_len \in Nat /\ plan.image_len > 0
      BY <2>2
    <2>4. WriteEnd \in Nat /\ base_addr < WriteEnd /\ WriteEnd <= ErasedEnd
      BY <1>7, <2>1, <2>2, <2>3
    <2>5. base_addr + (IMAGE_HEADER_LEN + Len(plan.image.body))
            = base_addr + IMAGE_HEADER_LEN + Len(plan.image.body)
      <3>1. \A a, b, c \in Nat : a + (b + c) = a + b + c
        OBVIOUS
      <3>2. base_addr \in Nat /\ IMAGE_HEADER_LEN \in Nat /\ Len(plan.image.body) \in Nat
        BY <2>2
      <3> QED
        BY <3>1, <3>2, Zenon
    <2>6. WriteEnd = base_addr + (IMAGE_HEADER_LEN + Len(plan.image.body))
      BY <1>7, <2>2
    <2> QED
      BY <2>1, <2>4, <2>5, <2>6
  <1>9. Erased0 \in Nat /\ Erased0 <= base_addr /\ base_addr < Erased0 + SectorSize
    BY <1>1, <1>3, <1>5
  <1> QED
    BY <1>1, <1>3, <1>4, <1>5, <1>6, <1>8, <1>9

(* The base address is the one that was meant, and a plan that fits the    *)
(* flash is carried out where flashboot looks.                             *)
LEMMA BaseIsIntended ==
  ASSUME PlanInv, pc = "planned"
  PROVE  base_addr = Intended(input, app_addr)
  <1>1. /\ input.kind = "fwpkg" <=> source # NoBin
        /\ source # NoBin => source = selected(input.bins)
    BY PlannedImage
  <1> QED
    BY <1>1 DEF base_addr, Intended

(* What is carried out starts where flashboot looks for the app.           *)
LEMMA CarriedToTheApp ==
  ASSUME IInv, phase \in {"erase", "program", "done"}
  PROVE  boot_addr = plan.write_chunk.addr /\ boot_addr \in Addr
  <1>1. pc = "planned" /\ FitsFlash /\ PlanInv
    BY DEF IInv, Carried
  <1>2. plan.write_chunk.addr = base_addr
    BY <1>1, PlannedRanges
  <1>3. plan.write_chunk.addr \in Addr
    BY <1>1, SectorsOfThePlan, FlashAssumption DEF FitsFlash, ErasedEnd, Addr
  <1> QED
    BY <1>1, <1>2, <1>3, BaseIsIntended DEF IInv, Placed

-----------------------------------------------------------------------------
(* The bytes and cells of a device have their types.                       *)
LEMMA CellTypes ==
  /\ ByteCell(Erased) \in Cell /\ ByteCell(Garbage) \in Cell /\ ByteCell(Leftover) \in Cell
  /\ \A blob \in Blob :
       /\ DOMAIN Cells(blob) = 0..(IMAGE_HEADER_LEN + Len(blob.body) - 1)
       /\ \A c \in DOMAIN Cells(blob) : Cells(blob)[c] \in Cell
  <1>1. ByteCell(Erased) \in Cell /\ ByteCell(Garbage) \in Cell /\ ByteCell(Leftover) \in Cell
    BY DEF ByteCell, Cell, Byte
  <1>2. ASSUME NEW blob \in Blob, NEW c \in 0..(IMAGE_HEADER_LEN + Len(blob.body) - 1)
        PROVE  Cells(blob)[c] \in Cell
    <2>1. /\ blob.header \in Header \cup {NoHeader} /\ blob.body \in Seq(Byte)
          /\ Len(blob.body) \in Nat /\ IMAGE_HEADER_LEN \in Nat
      BY ElfAssumption DEF Blob
    <2>2. CASE c < IMAGE_HEADER_LEN
      BY <2>1, <2>2 DEF Cells, HeaderCell, Cell, Byte
    <2>3. CASE ~(c < IMAGE_HEADER_LEN)
      <3>1. c - IMAGE_HEADER_LEN + 1 \in 1..Len(blob.body)
        BY <2>1, <2>3
      <3>2. blob.body[c - IMAGE_HEADER_LEN + 1] \in Byte
        BY <2>1, <3>1
      <3> QED
        BY <2>3, <3>2 DEF Cells, ByteCell, Cell
    <2> QED
      BY <2>2, <2>3
  <1> QED
    BY <1>1, <1>2 DEF Cells

(* A board with its old app and nothing planned satisfies it.              *)
LEMMA Initially == Init => IInv
  <1> SUFFICES ASSUME Init PROVE IInv
    OBVIOUS
  <1>1. PlanInv
    BY PlanInitInv DEF Init
  <1>2. DeviceTypes
    <2>1. OldImage \in Blob
      BY OldAppAssumption
    <2>2. flash \in [Addr -> Cell]
      BY <2>1, CellTypes DEF Init, Holding
    <2> QED
      BY <2>2, FlashAssumption DEF Init, DeviceTypes
  <1>3. Asked /\ Placed /\ Carried /\ Erasing /\ Programming /\ phase # "done"
    BY DEF Init, PlanInit, Asked, Placed, Carried, Erasing, Programming
  <1> QED
    BY <1>1, <1>2, <1>3 DEF IInv

(* The host plans; the device does nothing meanwhile.                      *)
LEMMA Planning == ASSUME IInv, Plan PROVE IInv'
  <1>1. PlanStep /\ UNCHANGED deviceVars
    BY DEF Plan
  <1>2. PlanInv'
    BY <1>1, PlanStepInv DEF IInv
  <1>3. UNCHANGED args /\ pc # "planned"
    BY <1>1 DEF PlanStep, HeaderedElf, BareElf, ElfFails, HeaderedBlob, RawBlob, PackageRefused,
                FromPackage, NoAppInPackage, ImageTooShort, ImageWithoutHeader, ImageTooLong, BuildPlan, Detected,
                PlanError
  <1>4. DeviceTypes'
    BY <1>1 DEF IInv, DeviceTypes, deviceVars
  <1>5. Placed' /\ Asked'
    BY <1>1, <1>3 DEF IInv, Placed, Asked, Intended, selected, find_by_name, args, deviceVars
  <1>6. phase' \notin {"erase", "program", "done"}
    BY <1>1, <1>3 DEF IInv, Carried, deviceVars
  <1> QED
    BY <1>2, <1>4, <1>5, <1>6 DEF IInv, Carried, Erasing, Programming

(* The steps that leave the plan and the board's layout alone.             *)
LEMMA SamePlan ==
  ASSUME IInv, UNCHANGED <<planVars, boot_addr>>
  PROVE  /\ PlanInv' /\ Asked' /\ Placed' /\ FitsFlash' = FitsFlash
         /\ Erased0' = Erased0 /\ ErasedEnd' = ErasedEnd /\ WriteEnd' = WriteEnd
  <1>1. PlanInv'
    BY SamePlanInv DEF IInv
  <1>2. Placed' /\ Asked'
    BY DEF IInv, Placed, Asked, Intended, selected, find_by_name, planVars, args
  <1> QED
    BY <1>1, <1>2 DEF FitsFlash, Erased0, ErasedEnd, WriteEnd, planVars

(* Refusing a plan, or starting on it, touches no cell.                    *)
LEMMA Starting == ASSUME IInv, RefusePlan \/ StartErase PROVE IInv'
  <1>1. UNCHANGED <<planVars, boot_addr, flash, losses>> /\ pc = "planned" /\ PlanInv
    BY DEF RefusePlan, StartErase, IInv
  <1>2. /\ PlanInv' /\ Asked' /\ Placed' /\ FitsFlash' = FitsFlash /\ pc' = pc
        /\ Erased0' = Erased0 /\ ErasedEnd' = ErasedEnd /\ WriteEnd' = WriteEnd
    BY <1>1, SamePlan DEF planVars
  <1>3. CASE RefusePlan
    <2>1. phase' = "refused" /\ at' = at
      BY <1>3 DEF RefusePlan
    <2>2. DeviceTypes'
      BY <1>1, <2>1 DEF IInv, DeviceTypes
    <2> QED
      BY <1>2, <2>1, <2>2 DEF IInv, Carried, Erasing, Programming
  <1>4. CASE StartErase
    <2>1. phase' = "erase" /\ at' = Erased0 /\ FitsFlash
      BY <1>4 DEF StartErase, Erased0
    <2>2. /\ Erased0 \in Nat /\ ErasedEnd \in Nat /\ Erased0 <= ErasedEnd /\ ErasedEnd <= FlashEnd
          /\ \E q \in Nat : Erased0 = q * SectorSize
      BY <1>1, <2>1, SectorsOfThePlan DEF FitsFlash, ErasedEnd
    <2>3. DeviceTypes'
      BY <1>1, <2>1, <2>2, FlashAssumption DEF IInv, DeviceTypes
    <2>4. Erasing'
      <3>1. Erased0..(Erased0 - 1) = {}
        BY <2>2
      <3>2. (\A a \in Erased0..(at - 1) : flash[a] = ByteCell(Erased))'
        BY <1>2, <2>1, <3>1
      <3> QED
        BY <1>2, <2>1, <2>2, <3>2 DEF Erasing
    <2> QED
      BY <1>1, <1>2, <2>1, <2>3, <2>4 DEF IInv, Carried, Programming
  <1> QED
    BY <1>3, <1>4

(* One more sector erased: it is the next one, so there is no gap.         *)
LEMMA ErasingASector == ASSUME IInv, EraseSector PROVE IInv'
  <1>1. /\ phase = "erase" /\ phase' = "erase" /\ at < ErasedEnd /\ at' = at + SectorSize
        /\ flash' = [a \in Addr |-> IF a \in Sector THEN ByteCell(Erased) ELSE flash[a]]
        /\ UNCHANGED <<planVars, boot_addr, losses>>
    BY DEF EraseSector, ErasedEnd
  <1>2. /\ pc = "planned" /\ FitsFlash /\ PlanInv /\ DeviceTypes
        /\ Erased0 <= at /\ at <= ErasedEnd
        /\ \A a \in Erased0..(at - 1) : flash[a] = ByteCell(Erased)
    BY <1>1 DEF IInv, Carried, Erasing
  <1>3. /\ PlanInv' /\ Asked' /\ Placed' /\ FitsFlash' = FitsFlash /\ pc' = pc
        /\ Erased0' = Erased0 /\ ErasedEnd' = ErasedEnd
    BY <1>1, SamePlan DEF planVars
  <1>4. Erased0 \in Nat /\ ErasedEnd \in Nat /\ ErasedEnd <= FlashEnd
    BY <1>2, SectorsOfThePlan DEF FitsFlash, ErasedEnd
  <1>5. at + SectorSize <= ErasedEnd /\ \E n \in Nat : at + SectorSize = n * SectorSize
    <2>1. PICK p \in Nat : at = p * SectorSize
      BY <1>1 DEF IInv, Erasing
    <2>2. PICK q \in Nat : ErasedEnd = q * SectorSize
      BY <1>2, SectorsOfThePlan
    <2>3. p * SectorSize + SectorSize <= q * SectorSize
          /\ p * SectorSize + SectorSize = (p + 1) * SectorSize
      BY <1>1, <2>1, <2>2, NextSector
    <2>4. p + 1 \in Nat /\ at + SectorSize = (p + 1) * SectorSize
      BY <2>1, <2>3
    <2>5. at + SectorSize <= ErasedEnd
      BY <2>1, <2>2, <2>3
    <2> QED
      BY <2>4, <2>5
  <1>6. at \in Nat /\ SectorSize \in Nat \ {0} /\ FlashEnd \in Nat
    BY <1>2, FlashAssumption DEF DeviceTypes
  <1>7. ASSUME NEW a \in Erased0..(at + SectorSize - 1) PROVE flash'[a] = ByteCell(Erased)
    <2>1. a \in Addr
      BY <1>4, <1>5, <1>6 DEF Addr
    <2>2. a \in Sector \/ a \in Erased0..(at - 1)
      BY <1>4, <1>6 DEF Sector
    <2> QED
      BY <1>1, <1>2, <2>1, <2>2
  <1>8. DeviceTypes'
    <2>1. flash' \in [Addr -> Cell]
      BY <1>1, <1>2, CellTypes DEF DeviceTypes
    <2>2. at' \in 0..FlashEnd
      BY <1>1, <1>4, <1>5, <1>6
    <2> QED
      BY <1>1, <1>2, <2>1, <2>2 DEF DeviceTypes
  <1>9. Erasing'
    <2>1. Erased0 <= at + SectorSize
      BY <1>2, <1>4, <1>6
    <2>2. Erased0' <= at' /\ at' <= ErasedEnd'
      BY <1>1, <1>3, <1>5, <2>1
    <2>3. PICK n \in Nat : at + SectorSize = n * SectorSize
      BY <1>5
    <2>4. at' = n * SectorSize
      BY <1>1, <2>3
    <2>5. \A a \in Erased0'..(at' - 1) : flash'[a] = ByteCell(Erased)
      <3>1. Erased0' = Erased0 /\ at' - 1 = at + SectorSize - 1
        BY <1>1, <1>3, <1>6
      <3>2. \A a \in Erased0..(at + SectorSize - 1) : flash'[a] = ByteCell(Erased)
        BY <1>7
      <3> QED
        BY <3>1, <3>2
    <2> QED
      BY <2>2, <2>4, <2>5 DEF Erasing
  <1> QED
    BY <1>1, <1>2, <1>3, <1>8, <1>9 DEF IInv, Carried, Programming

(* All sectors are erased when programming starts.                         *)
LEMMA StartingToProgram == ASSUME IInv, StartProgram PROVE IInv'
  <1>1. /\ phase = "erase" /\ phase' = "program" /\ at >= ErasedEnd /\ at' = plan.write_chunk.addr
        /\ UNCHANGED <<planVars, boot_addr, flash, losses>>
    BY DEF StartProgram, ErasedEnd
  <1>2. /\ pc = "planned" /\ FitsFlash /\ PlanInv /\ DeviceTypes
        /\ Erased0 <= at /\ at <= ErasedEnd /\ at \in Nat
        /\ \A a \in Erased0..(at - 1) : flash[a] = ByteCell(Erased)
    BY <1>1 DEF IInv, Carried, Erasing, DeviceTypes
  <1>3. /\ PlanInv' /\ Asked' /\ Placed' /\ FitsFlash' = FitsFlash /\ pc' = pc /\ plan' = plan
        /\ Erased0' = Erased0 /\ ErasedEnd' = ErasedEnd /\ WriteEnd' = WriteEnd
    BY <1>1, SamePlan DEF planVars
  <1>4. /\ Erased0 \in Nat /\ ErasedEnd \in Nat /\ ErasedEnd <= FlashEnd
        /\ plan.write_chunk.addr \in Nat /\ plan.write_chunk.addr < WriteEnd
        /\ WriteEnd \in Nat /\ WriteEnd <= ErasedEnd
    BY <1>2, SectorsOfThePlan DEF FitsFlash, ErasedEnd
  <1>5. at = ErasedEnd
    BY <1>1, <1>2, <1>4
  <1>6. DeviceTypes'
    <2>1. at' \in 0..FlashEnd
      BY <1>1, <1>4, FlashAssumption
    <2> QED
      BY <1>1, <1>2, <2>1 DEF DeviceTypes
  <1>7. Programming'
    <2>1. \A a \in Erased0..(ErasedEnd - 1) : flash'[a] = ByteCell(Erased)
      BY <1>1, <1>2, <1>5
    <2>2. \A a \in Erased0..(ErasedEnd - 1) : ~(plan.write_chunk.addr <= a /\ a < plan.write_chunk.addr)
      BY <1>4
    <2>3. plan.write_chunk.addr <= plan.write_chunk.addr /\ plan.write_chunk.addr <= WriteEnd
      BY <1>4
    <2> QED
      BY <1>1, <1>3, <2>1, <2>2, <2>3 DEF Programming
  <1> QED
    BY <1>1, <1>2, <1>3, <1>6, <1>7 DEF IInv, Carried, Erasing

(* One more cell programmed, and it was erased.                            *)
LEMMA ProgrammingACell == ASSUME IInv, ProgramCell PROVE IInv'
  <1> DEFINE addr == plan.write_chunk.addr
             new == Cells(plan.image)[at - addr]
  <1>1. /\ phase = "program" /\ phase' = "program" /\ at < WriteEnd /\ at' = at + 1
        /\ flash' = [flash EXCEPT ![at] = Programmed(@, new)]
        /\ UNCHANGED <<planVars, boot_addr, losses>>
    BY DEF ProgramCell, WriteEnd
  <1>2. /\ pc = "planned" /\ FitsFlash /\ PlanInv /\ DeviceTypes
        /\ addr <= at /\ at <= WriteEnd /\ at \in Nat
        /\ \A a \in Erased0..(ErasedEnd - 1) :
             flash[a] = IF addr <= a /\ a < at THEN Cells(plan.image)[a - addr] ELSE ByteCell(Erased)
    BY <1>1 DEF IInv, Carried, Programming, DeviceTypes
  <1>3. /\ PlanInv' /\ Asked' /\ Placed' /\ FitsFlash' = FitsFlash /\ pc' = pc /\ plan' = plan
        /\ Erased0' = Erased0 /\ ErasedEnd' = ErasedEnd /\ WriteEnd' = WriteEnd
    BY <1>1, SamePlan DEF planVars
  <1>4. /\ Erased0 \in Nat /\ ErasedEnd \in Nat /\ ErasedEnd <= FlashEnd
        /\ addr \in Nat /\ Erased0 <= addr
        /\ WriteEnd \in Nat /\ WriteEnd <= ErasedEnd
        /\ WriteEnd = addr + IMAGE_HEADER_LEN + Len(plan.image.body)
    BY <1>2, SectorsOfThePlan DEF FitsFlash, ErasedEnd
  <1>5. at \in Erased0..(ErasedEnd - 1) /\ at \in Addr /\ flash[at] = ByteCell(Erased)
    <2>1. at \in Erased0..(ErasedEnd - 1)
      BY <1>1, <1>2, <1>4
    <2>2. at \in Addr /\ ~(at < at)
      BY <1>4, <2>1, FlashAssumption DEF Addr
    <2> QED
      BY <1>2, <2>1, <2>2
  <1>6. flash' = [flash EXCEPT ![at] = new]
    BY <1>1, <1>5 DEF Programmed
  <1>7. DeviceTypes'
    <2>1. plan.image \in Blob /\ Len(plan.image.body) \in Nat /\ IMAGE_HEADER_LEN \in Nat
      BY <1>2, PlannedImage, PlannedRanges, ElfAssumption
    <2>2. at - addr \in DOMAIN Cells(plan.image)
      <3>1. at - addr \in 0..(IMAGE_HEADER_LEN + Len(plan.image.body) - 1)
        <4>1. \A a, h, l, c \in Nat : a <= c /\ c < a + h + l => c - a \in 0..(h + l - 1)
          OBVIOUS
        <4>2. at < addr + IMAGE_HEADER_LEN + Len(plan.image.body)
          BY <1>1, <1>4
        <4> HIDE DEF addr
        <4> QED
          BY <1>2, <1>4, <2>1, <4>1, <4>2
      <3> QED
        BY <2>1, <3>1, CellTypes
    <2>3. new \in Cell
      BY <2>1, <2>2, CellTypes
    <2>4. flash' \in [Addr -> Cell]
      <3> HIDE DEF new
      <3> QED
        BY <1>2, <1>6, <2>3 DEF DeviceTypes
    <2>5. at' \in 0..FlashEnd
      BY <1>1, <1>2, <1>4, FlashAssumption
    <2> QED
      BY <1>1, <1>2, <2>4, <2>5 DEF DeviceTypes
  <1>8. Programming'
    <2>1. addr <= at + 1 /\ at + 1 <= WriteEnd
      BY <1>1, <1>2, <1>4
    <2>2. ASSUME NEW a \in Erased0..(ErasedEnd - 1)
          PROVE  flash'[a] = IF addr <= a /\ a < at + 1 THEN Cells(plan.image)[a - addr]
                             ELSE ByteCell(Erased)
      <3>1. a \in Addr /\ a \in Nat
        BY <1>4, FlashAssumption DEF Addr
      <3>2. CASE a = at
        <4>1. flash'[a] = new
          <5> HIDE DEF new
          <5> QED
            BY <1>2, <1>6, <3>1, <3>2 DEF DeviceTypes
        <4>2. addr <= a /\ a < at + 1
          BY <1>2, <3>2
        <4> QED
          BY <3>2, <4>1, <4>2
      <3>3. CASE a # at
        <4>1. flash'[a] = flash[a]
          <5> HIDE DEF new
          <5> QED
            BY <1>2, <1>6, <3>1, <3>3 DEF DeviceTypes
        <4>2. a < at + 1 <=> a < at
          BY <1>2, <3>1, <3>3
        <4> QED
          BY <1>2, <4>1, <4>2
      <3> QED
        BY <3>2, <3>3
    <2>3. (plan.write_chunk.addr)' = addr /\ (plan.image)' = plan.image
      BY <1>3
    <2> QED
      BY <1>1, <1>3, <2>1, <2>2, <2>3 DEF Programming
  <1> QED
    BY <1>1, <1>2, <1>3, <1>7, <1>8 DEF IInv, Carried, Erasing

(* The last cell written, the whole image has been.                        *)
LEMMA Finishing == ASSUME IInv, Finish PROVE IInv'
  <1>1. /\ phase = "program" /\ phase' = "done" /\ at >= WriteEnd
        /\ UNCHANGED <<planVars, boot_addr, flash, at, losses>>
    BY DEF Finish, WriteEnd
  <1>2. /\ pc = "planned" /\ FitsFlash /\ PlanInv /\ DeviceTypes /\ Programming
        /\ at <= WriteEnd /\ at \in Nat
    BY <1>1 DEF IInv, Carried, Programming, DeviceTypes
  <1>3. /\ PlanInv' /\ Asked' /\ Placed' /\ FitsFlash' = FitsFlash /\ pc' = pc /\ plan' = plan
        /\ Erased0' = Erased0 /\ ErasedEnd' = ErasedEnd /\ WriteEnd' = WriteEnd
    BY <1>1, SamePlan DEF planVars
  <1>4. at = WriteEnd
    BY <1>1, <1>2, SectorsOfThePlan
  <1>5. DeviceTypes' /\ Programming'
    BY <1>1, <1>2, <1>3 DEF DeviceTypes, Programming
  <1> QED
    BY <1>1, <1>2, <1>3, <1>4, <1>5 DEF IInv, Carried, Erasing

(* After a power failure nothing is known of the flash, and nothing is     *)
(* relied on.                                                              *)
LEMMA LosingPower == ASSUME IInv, PowerLoss PROVE IInv'
  <1>1. /\ phase' = "idle" /\ at' = 0 /\ losses' = losses + 1 /\ losses < MaxLosses
        /\ UNCHANGED <<planVars, boot_addr>>
        /\ \/ UNCHANGED flash
           \/ flash' = [a \in Addr |-> IF a \in Sector THEN ByteCell(Garbage) ELSE flash[a]]
    BY DEF PowerLoss
  <1>2. PlanInv' /\ Asked' /\ Placed'
    BY <1>1, SamePlan
  <1>3. flash' \in [Addr -> Cell]
    BY <1>1, CellTypes DEF IInv, DeviceTypes
  <1>4. losses' \in 0..MaxLosses /\ at' \in 0..FlashEnd
    BY <1>1, FlashAssumption DEF IInv, DeviceTypes
  <1> QED
    BY <1>1, <1>2, <1>3, <1>4 DEF IInv, DeviceTypes, Carried, Erasing, Programming

(* A stutter changes nothing it speaks of.                                 *)
LEMMA NoStep == ASSUME IInv, UNCHANGED all PROVE IInv'
  <1>1. UNCHANGED <<planVars, boot_addr, flash, phase, at, losses>> /\ plan' = plan /\ pc' = pc
    BY DEF all, deviceVars, planVars
  <1>2. /\ PlanInv' /\ Asked' /\ Placed' /\ FitsFlash' = FitsFlash
        /\ Erased0' = Erased0 /\ ErasedEnd' = ErasedEnd /\ WriteEnd' = WriteEnd
    BY <1>1, SamePlan
  <1> QED
    BY <1>1, <1>2 DEF IInv, DeviceTypes, Carried, Erasing, Programming

(* Every step keeps the invariant.                                         *)
LEMMA Inductive == IInv /\ [Next]_all => IInv'
  BY Planning, Starting, ErasingASector, StartingToProgram, ProgrammingACell, Finishing, LosingPower,
     NoStep DEF Next, Work, Ended

(* The invariant holds throughout, whatever is planned and however often   *)
(* power fails.                                                            *)
THEOREM FlashingInvariant == Spec => []IInv
  BY Initially, Inductive, PTL DEF Spec

(* A board stays the kind it is.                                           *)
LEMMA SameBoard == [Next]_all => UNCHANGED verifies
  BY DEF Next, Work, Plan, RefusePlan, StartErase, EraseSector, StartProgram, ProgramCell, Finish,
         PowerLoss, Ended, all, deviceVars

-----------------------------------------------------------------------------
(* The properties.                                                         *)

(* Bytes are bytes, and a planned body address is a u32.                   *)
THEOREM FlashingTypes == Spec => []FlashTypeOK
  <1>1. ASSUME IInv, verifies \in BOOLEAN PROVE FlashTypeOK
    <2>1. pc \in PlanErrors \cup {"detect", "build", "planned"} /\ PlanInv /\ DeviceTypes
      BY <1>1 DEF IInv, PlanInv
    <2>2. ASSUME pc = "planned"
          PROVE  /\ plan.image \in [header: Header, body: Seq(Byte)]
                 /\ plan.image_len = IMAGE_HEADER_LEN + Len(plan.image.body)
                 /\ plan.body_range.flash_addr \in 0..(U32 - 1)
      <3>1. /\ plan.image = image /\ image \in Blob /\ image.header # NoHeader
            /\ plan.image_len = IMAGE_HEADER_LEN + Len(plan.image.body)
            /\ plan.body_range.flash_addr = (base_addr + IMAGE_HEADER_LEN) % U32
            /\ base_addr \in 0..(U32 - 1)
        BY <2>1, <2>2, PlannedImage, PlannedRanges
      <3>2. image \in [header: Header, body: Seq(Byte)]
        BY <3>1 DEF Blob
      <3>3. (base_addr + IMAGE_HEADER_LEN) % U32 \in 0..(U32 - 1)
        BY <3>1, PlanAssumption, ElfAssumption
      <3> QED
        BY <3>1, <3>2, <3>3
    <2>3. \A a \in Addr : flash[a].byte \in Byte \cup {Leftover, Garbage}
      <3>1. \A a \in Addr : flash[a] \in Cell
        BY <2>1 DEF DeviceTypes
      <3> QED
        BY <3>1 DEF Cell
    <2> QED
      BY <1>1, <2>1, <2>2, <2>3 DEF FlashTypeOK, DeviceTypes
  <1>2. Init => verifies \in BOOLEAN
    BY DEF Init
  <1>3. ASSUME verifies \in BOOLEAN, [Next]_all PROVE (verifies \in BOOLEAN)'
    BY <1>3, SameBoard
  <1> QED
    BY <1>1, <1>2, <1>3, FlashingInvariant, PTL DEF Spec

(* What is still to be programmed is erased: Programming says of every     *)
(* address of the sectors what is there, and the chunk lies in them.       *)
THEOREM FlashingProgramsErasedFlash == Spec => []ProgramsErasedFlash
  <1>1. ASSUME IInv PROVE ProgramsErasedFlash
    <2>1. SUFFICES ASSUME phase = "program"
                   PROVE  \A a \in at..(plan.write_chunk.addr + plan.write_chunk.len - 1) :
                            flash[a] = ByteCell(Erased)
      BY DEF ProgramsErasedFlash
    <2>2. /\ pc = "planned" /\ PlanInv /\ at \in Nat /\ plan.write_chunk.addr <= at
          /\ \A b \in Erased0..(ErasedEnd - 1) :
               flash[b] = IF plan.write_chunk.addr <= b /\ b < at
                          THEN Cells(plan.image)[b - plan.write_chunk.addr] ELSE ByteCell(Erased)
      BY <1>1, <2>1 DEF IInv, Carried, Programming, DeviceTypes
    <2>3. /\ Erased0 \in Nat /\ ErasedEnd \in Nat /\ Erased0 <= plan.write_chunk.addr
          /\ plan.write_chunk.addr \in Nat /\ WriteEnd \in Nat /\ WriteEnd <= ErasedEnd
      BY <2>2, SectorsOfThePlan
    <2>4. plan.write_chunk.len \in Nat /\ WriteEnd = plan.write_chunk.addr + plan.write_chunk.len
      BY <2>2, PlannedRanges, ElfAssumption DEF WriteEnd
    <2>5. \A a \in at..(plan.write_chunk.addr + plan.write_chunk.len - 1) :
            a \in Erased0..(ErasedEnd - 1) /\ ~(a < at)
      BY <2>2, <2>3, <2>4
    <2> QED
      BY <2>2, <2>5
  <1> QED
    BY <1>1, FlashingInvariant, PTL

(* The ranges that are carried out nest, and the body's address has not     *)
(* wrapped around: what fits the flash is below U32.                       *)
THEOREM FlashingRangesNest == Spec => []ExecutedRangesNest
  <1>1. ASSUME IInv PROVE ExecutedRangesNest
    <2>1. SUFFICES ASSUME phase \in {"erase", "program", "done"}
                   PROVE  /\ plan.body_range.flash_addr = plan.write_chunk.addr + IMAGE_HEADER_LEN
                          /\ plan.body_range.flash_addr + plan.body_range.len <= WriteEnd
                          /\ plan.erase_range.start <= plan.write_chunk.addr
                          /\ WriteEnd <= plan.erase_range.start + plan.erase_range.len
      BY DEF ExecutedRangesNest, WriteEnd
    <2>2. pc = "planned" /\ FitsFlash /\ PlanInv
      BY <1>1, <2>1 DEF IInv, Carried
    <2>3. /\ base_addr \in Nat /\ Len(plan.image.body) \in Nat
          /\ plan.write_chunk.addr = base_addr /\ plan.erase_range.start = base_addr
          /\ plan.write_chunk.len = plan.image_len
          /\ plan.image_len = IMAGE_HEADER_LEN + Len(plan.image.body)
          /\ plan.erase_range.len \in Nat /\ plan.image_len <= plan.erase_range.len
          /\ plan.body_range.flash_addr = (base_addr + IMAGE_HEADER_LEN) % U32
          /\ plan.body_range.len \in Nat /\ plan.body_range.len <= Len(plan.image.body)
      BY <2>2, PlannedRanges
    <2>4. WriteEnd \in Nat /\ ErasedEnd \in Nat /\ WriteEnd <= ErasedEnd /\ ErasedEnd <= FlashEnd
          /\ WriteEnd = base_addr + IMAGE_HEADER_LEN + Len(plan.image.body)
      BY <2>2, <2>3, SectorsOfThePlan DEF FitsFlash, ErasedEnd
    <2>5. /\ FlashEnd \in Nat /\ FlashEnd < U32 /\ U32 \in Nat \ {0} /\ IMAGE_HEADER_LEN \in Nat
      BY FlashAssumption, PlanAssumption, ElfAssumption
    <2>6. base_addr + IMAGE_HEADER_LEN \in Nat /\ base_addr + IMAGE_HEADER_LEN < U32
      <3>1. base_addr \in Nat /\ Len(plan.image.body) \in Nat
        BY <2>3
      <3>2. \A a, h, l \in Nat : a + h <= a + h + l
        OBVIOUS
      <3>3. base_addr + IMAGE_HEADER_LEN <= WriteEnd
        BY <2>4, <2>5, <3>1, <3>2
      <3>4. /\ WriteEnd \in Nat /\ ErasedEnd \in Nat /\ WriteEnd <= ErasedEnd
            /\ ErasedEnd <= FlashEnd
        BY <2>4
      <3>5. base_addr + IMAGE_HEADER_LEN \in Nat
        BY <2>5, <3>1
      <3> QED
        BY <2>5, <3>3, <3>4, <3>5
    <2>7. (base_addr + IMAGE_HEADER_LEN) % U32 = base_addr + IMAGE_HEADER_LEN
      BY <2>5, <2>6
    <2>8. plan.body_range.flash_addr + plan.body_range.len <= WriteEnd
      <3>1. plan.body_range.flash_addr = base_addr + IMAGE_HEADER_LEN
        BY <2>3, <2>7
      <3>2. /\ base_addr \in Nat /\ Len(plan.image.body) \in Nat
            /\ plan.body_range.len \in Nat /\ plan.body_range.len <= Len(plan.image.body)
        BY <2>3
      <3>3. \A a, h, l, n \in Nat : n <= l => a + h + n <= a + h + l
        OBVIOUS
      <3>4. WriteEnd = base_addr + IMAGE_HEADER_LEN + Len(plan.image.body) /\ IMAGE_HEADER_LEN \in Nat
        BY <2>4, <2>5
      <3>5. base_addr + IMAGE_HEADER_LEN + plan.body_range.len <= WriteEnd
        BY <3>2, <3>3, <3>4
      <3> QED
        BY <3>1, <3>5
    <2>9. WriteEnd = base_addr + plan.image_len
      BY <2>3 DEF WriteEnd
    <2>10. WriteEnd <= base_addr + plan.erase_range.len
      BY <2>3, <2>5, <2>9
    <2> QED
      BY <2>3, <2>7, <2>8, <2>10
  <1> QED
    BY <1>1, FlashingInvariant, PTL

(* What a finished update has left behind, from the app's address on.      *)
LEMMA FinishedFlash ==
  ASSUME IInv, phase = "done"
  PROVE  /\ pc = "planned" /\ PlanInv /\ plan.image = image /\ image \in Blob
         /\ boot_addr \in Nat /\ Len(image.body) \in Nat
         /\ boot_addr + IMAGE_HEADER_LEN + Len(image.body) <= FlashEnd
         /\ DOMAIN Cells(image) = 0..(IMAGE_HEADER_LEN + Len(image.body) - 1)
         /\ \A c \in 0..(plan.erase_range.len - 1) :
              flash[boot_addr + c] = IF c \in DOMAIN Cells(image) THEN Cells(image)[c] ELSE ByteCell(Erased)
         /\ plan.erase_range.len \in Nat
         /\ IMAGE_HEADER_LEN + Len(image.body) <= plan.erase_range.len
  <1>1. /\ pc = "planned" /\ FitsFlash /\ PlanInv /\ at = WriteEnd
        /\ \A a \in Erased0..(ErasedEnd - 1) :
             flash[a] = IF plan.write_chunk.addr <= a /\ a < at
                        THEN Cells(plan.image)[a - plan.write_chunk.addr] ELSE ByteCell(Erased)
    BY DEF IInv, Carried, Programming
  <1>2. /\ plan.image = image /\ image \in Blob /\ Len(image.body) \in Nat
        /\ plan.erase_range.len \in Nat /\ plan.erase_range.start = base_addr
        /\ plan.image_len <= plan.erase_range.len
        /\ plan.image_len = IMAGE_HEADER_LEN + Len(image.body)
        /\ plan.write_chunk.addr = base_addr
    BY <1>1, PlannedImage, PlannedRanges
  <1>3. boot_addr = plan.write_chunk.addr
    BY CarriedToTheApp
  <1>4. /\ Erased0 \in Nat /\ ErasedEnd \in Nat /\ Erased0 <= boot_addr /\ ErasedEnd <= FlashEnd
        /\ WriteEnd <= ErasedEnd /\ boot_addr + plan.erase_range.len <= ErasedEnd
        /\ WriteEnd = boot_addr + IMAGE_HEADER_LEN + Len(image.body)
        /\ boot_addr \in Nat /\ WriteEnd \in Nat
    BY <1>1, <1>2, <1>3, SectorsOfThePlan DEF FitsFlash, ErasedEnd
  <1>5. IMAGE_HEADER_LEN \in Nat /\ FlashEnd \in Nat
    BY ElfAssumption, FlashAssumption
  <1>6. DOMAIN Cells(image) = 0..(IMAGE_HEADER_LEN + Len(image.body) - 1)
    BY <1>2, CellTypes
  <1>7. ASSUME NEW c \in 0..(plan.erase_range.len - 1)
        PROVE  flash[boot_addr + c]
                 = IF c \in DOMAIN Cells(image) THEN Cells(image)[c] ELSE ByteCell(Erased)
    <2>1. boot_addr + c \in Erased0..(ErasedEnd - 1) /\ boot_addr <= boot_addr + c
      BY <1>2, <1>4
    <2>2. boot_addr + c < WriteEnd <=> c \in DOMAIN Cells(image)
      <3>1. \A a, h, l, d \in Nat : a + d < a + h + l <=> d \in 0..(h + l - 1)
        OBVIOUS
      <3>2. c \in Nat /\ boot_addr \in Nat /\ Len(image.body) \in Nat
        BY <1>2, <1>4
      <3> QED
        BY <1>4, <1>5, <1>6, <3>1, <3>2
    <2>3. \A a \in Erased0..(ErasedEnd - 1) :
            flash[a] = IF boot_addr <= a /\ a < WriteEnd THEN Cells(image)[a - boot_addr]
                       ELSE ByteCell(Erased)
      BY <1>1, <1>2, <1>3
    <2>4. CASE c \in DOMAIN Cells(image)
      <3>1. (boot_addr + c) - boot_addr = c
        BY <1>4
      <3>2. flash[boot_addr + c] = Cells(image)[(boot_addr + c) - boot_addr]
        BY <2>1, <2>2, <2>3, <2>4
      <3> QED
        BY <2>4, <3>1, <3>2
    <2>5. CASE c \notin DOMAIN Cells(image)
      BY <2>1, <2>2, <2>3, <2>5
    <2> QED
      BY <2>4, <2>5
  <1>8. boot_addr + IMAGE_HEADER_LEN + Len(image.body) <= FlashEnd
    <2>1. /\ WriteEnd \in Nat /\ ErasedEnd \in Nat /\ FlashEnd \in Nat
          /\ WriteEnd <= ErasedEnd /\ ErasedEnd <= FlashEnd
      BY <1>4, <1>5
    <2>2. WriteEnd <= FlashEnd
      BY <2>1
    <2> QED
      BY <1>4, <2>2
  <1> QED
    BY <1>1, <1>2, <1>4, <1>6, <1>7, <1>8

(* No old byte is left in the app partition.                               *)
THEOREM FlashingNoStaleByte == Spec => []NoStaleByte
  <1>1. ASSUME IInv PROVE NoStaleByte
    <2>1. SUFFICES ASSUME phase = "done",
                          NEW c \in 0..(Len(plan.image.body) + IMAGE_HEADER_LEN - 1)
                                   \cup (IF source = NoBin THEN {} ELSE 0..(source.burn_size - 1))
                   PROVE  flash[boot_addr + c] =
                            IF c \in DOMAIN Cells(plan.image) THEN Cells(plan.image)[c]
                            ELSE ByteCell(Erased)
      BY DEF NoStaleByte
    <2>2. /\ pc = "planned" /\ PlanInv /\ plan.image = image /\ Len(image.body) \in Nat
          /\ plan.erase_range.len \in Nat
          /\ IMAGE_HEADER_LEN + Len(image.body) <= plan.erase_range.len
          /\ \A d \in 0..(plan.erase_range.len - 1) :
               flash[boot_addr + d] = IF d \in DOMAIN Cells(image) THEN Cells(image)[d] ELSE ByteCell(Erased)
      BY <1>1, <2>1, FinishedFlash
    <2>3. source # NoBin => source.burn_size \in Nat /\ source.burn_size <= plan.erase_range.len
      BY <2>2, PlannedRanges
    <2>4. c \in 0..(plan.erase_range.len - 1)
      <3>1. CASE c \in 0..(Len(image.body) + IMAGE_HEADER_LEN - 1)
        BY <2>2, <3>1, ElfAssumption
      <3>2. CASE source # NoBin /\ c \in 0..(source.burn_size - 1)
        BY <2>2, <2>3, <3>2
      <3> QED
        BY <2>1, <2>2, <3>1, <3>2
    <2> QED
      BY <2>2, <2>4
  <1> QED
    BY <1>1, FlashingInvariant, PTL

-----------------------------------------------------------------------------
(* Flashboot.                                                              *)

(* The cells of an image: its header, then its body.                       *)
LEMMA CellsOfAnImage ==
  ASSUME NEW blob \in Blob
  PROVE  /\ \A c \in 0..(IMAGE_HEADER_LEN - 1) : Cells(blob)[c].header = blob.header
         /\ \A c \in 1..Len(blob.body) :
              LET cell == Cells(blob)[IMAGE_HEADER_LEN + c - 1]
              IN  cell = ByteCell(blob.body[c]) /\ cell.byte = blob.body[c]
  <1>1. Len(blob.body) \in Nat /\ IMAGE_HEADER_LEN \in Nat
    BY ElfAssumption DEF Blob
  <1>2. ASSUME NEW c \in 0..(IMAGE_HEADER_LEN - 1) PROVE Cells(blob)[c].header = blob.header
    <2>1. c \in 0..(IMAGE_HEADER_LEN + Len(blob.body) - 1) /\ c < IMAGE_HEADER_LEN
      BY <1>1
    <2> QED
      BY <2>1 DEF Cells, HeaderCell
  <1>3. ASSUME NEW c \in 1..Len(blob.body)
        PROVE  LET cell == Cells(blob)[IMAGE_HEADER_LEN + c - 1]
               IN  cell = ByteCell(blob.body[c]) /\ cell.byte = blob.body[c]
    <2> DEFINE d == IMAGE_HEADER_LEN + c - 1
    <2>1. d \in 0..(IMAGE_HEADER_LEN + Len(blob.body) - 1) /\ ~(d < IMAGE_HEADER_LEN)
          /\ d - IMAGE_HEADER_LEN + 1 = c
      BY <1>1
    <2> HIDE DEF d
    <2>2. Cells(blob)[d] = ByteCell(blob.body[d - IMAGE_HEADER_LEN + 1])
      BY <2>1 DEF Cells
    <2>3. Cells(blob)[d] = ByteCell(blob.body[c]) /\ Cells(blob)[d].byte = blob.body[c]
      BY <2>1, <2>2 DEF ByteCell
    <2> QED
      BY <2>3 DEF d
  <1> QED
    BY <1>2, <1>3

(* Flashboot starts an image that is in flash as a whole and verifies.     *)
LEMMA WholeImageBoots ==
  ASSUME NEW blob \in Blob, is_headered_image(blob), blob.header.code_id, Verifies(blob),
         boot_addr \in Nat,
         \A c \in DOMAIN Cells(blob) : flash[boot_addr + c] = Cells(blob)[c]
  PROVE  /\ Boots /\ HeaderInFlash = blob.header
         /\ CodeInFlash = SubSeq(blob.body, 1, blob.header.code_area_len)
  <1> DEFINE h == blob.header
             len == h.code_area_len
  <1>1. /\ h \in Header /\ h # NoHeader /\ h.key_id /\ blob.body \in Seq(Byte)
        /\ len \in Nat /\ Len(blob.body) \in Nat /\ len <= Len(blob.body)
        /\ h.code_area_hash = SubSeq(blob.body, 1, len)
    BY BlobFields DEF is_headered_image, Verifies
  <1>2. IMAGE_HEADER_LEN \in Nat /\ IMAGE_HEADER_LEN > 0
    BY ElfAssumption, PlanAssumption
  <1>3. DOMAIN Cells(blob) = 0..(IMAGE_HEADER_LEN + Len(blob.body) - 1)
    BY CellTypes
  <1>4. \A c \in 0..(IMAGE_HEADER_LEN - 1) : flash[boot_addr + c].header = h
    <2>1. \A c \in 0..(IMAGE_HEADER_LEN - 1) : c \in DOMAIN Cells(blob)
      BY <1>1, <1>2, <1>3
    <2> QED
      BY <2>1, CellsOfAnImage
  <1>5. HeaderInFlash = h
    <2>1. 0 \in 0..(IMAGE_HEADER_LEN - 1) /\ boot_addr + 0 = boot_addr
      BY <1>2
    <2> QED
      BY <1>4, <2>1 DEF HeaderInFlash
  <1>6. \A c \in 1..len : flash[boot_addr + IMAGE_HEADER_LEN + c - 1].byte = blob.body[c]
    <2>1. SUFFICES ASSUME NEW c \in 1..len
                   PROVE  flash[boot_addr + IMAGE_HEADER_LEN + c - 1].byte = blob.body[c]
      OBVIOUS
    <2>2. c \in 1..Len(blob.body)
      BY <1>1
    <2>3. IMAGE_HEADER_LEN + c - 1 \in DOMAIN Cells(blob)
      BY <1>1, <1>2, <1>3, <2>2
    <2>4. boot_addr + (IMAGE_HEADER_LEN + c - 1) = boot_addr + IMAGE_HEADER_LEN + c - 1
      <3> HIDE DEF len
      <3> QED
        BY <1>2, <2>2
    <2>5. flash[boot_addr + (IMAGE_HEADER_LEN + c - 1)].byte = blob.body[c]
      <3> DEFINE d == IMAGE_HEADER_LEN + c - 1
      <3>1. d \in DOMAIN Cells(blob)
        BY <2>3
      <3>2. Cells(blob)[d].byte = blob.body[c]
        BY <2>2, CellsOfAnImage
      <3> HIDE DEF d
      <3>3. flash[boot_addr + d].byte = blob.body[c]
        BY <3>1, <3>2
      <3> QED
        BY <3>3 DEF d
    <2> QED
      BY <2>4, <2>5
  <1>7. CodeInFlash = SubSeq(blob.body, 1, len)
    <2>1. CodeInFlash = [c \in 1..len |-> flash[boot_addr + IMAGE_HEADER_LEN + c - 1].byte]
      BY <1>5 DEF CodeInFlash
    <2>2. CodeInFlash = [c \in 1..len |-> blob.body[c]]
      BY <1>6, <2>1
    <2>3. CodeInFlash \in Seq(Byte) /\ Len(CodeInFlash) = len
          /\ \A c \in 1..len : CodeInFlash[c] = blob.body[c]
      <3>1. \A c \in 1..len : blob.body[c] \in Byte
        BY <1>1
      <3> HIDE DEF len
      <3> QED
        BY <1>1, <2>2, <3>1
    <2>4. SubSeq(blob.body, 1, len) \in Seq(Byte) /\ Len(SubSeq(blob.body, 1, len)) = len
          /\ \A c \in 1..len : SubSeq(blob.body, 1, len)[c] = blob.body[c]
      <3> HIDE DEF len
      <3> QED
        BY <1>1
    <2> HIDE DEF len
    <2> QED
      BY <2>3, <2>4, SeqEqual
  <1>8. HeaderComplete
    BY <1>1, <1>4, <1>5 DEF HeaderComplete
  <1> QED
    BY <1>1, <1>5, <1>7, <1>8 DEF Boots, sha256

(* And one that jumps starts it, whether it verifies or not.               *)
LEMMA WholeBodyIsThere ==
  ASSUME NEW blob \in Blob,
         boot_addr \in Nat, boot_addr + IMAGE_HEADER_LEN + Len(blob.body) <= FlashEnd,
         \A c \in DOMAIN Cells(blob) : flash[boot_addr + c] = Cells(blob)[c]
  PROVE  BodyInFlash(blob.body)
  <1>1. /\ IMAGE_HEADER_LEN \in Nat /\ Len(blob.body) \in Nat /\ FlashEnd \in Nat
        /\ DOMAIN Cells(blob) = 0..(IMAGE_HEADER_LEN + Len(blob.body) - 1)
    BY CellTypes, ElfAssumption, FlashAssumption DEF Blob
  <1> SUFFICES ASSUME NEW c \in 1..Len(blob.body)
               PROVE  /\ boot_addr + IMAGE_HEADER_LEN + c - 1 \in Addr
                      /\ flash[boot_addr + IMAGE_HEADER_LEN + c - 1] = ByteCell(blob.body[c])
    BY DEF BodyInFlash
  <1> DEFINE d == IMAGE_HEADER_LEN + c - 1
  <1>2. /\ d \in DOMAIN Cells(blob) /\ boot_addr + d = boot_addr + IMAGE_HEADER_LEN + c - 1
        /\ boot_addr + d \in Addr
    <2>1. \A b, h, l, e \in Nat : \A k \in 1..l :
            b + h + l <= e =>
              /\ h + k - 1 \in 0..(h + l - 1) /\ b + (h + k - 1) = b + h + k - 1
              /\ b + (h + k - 1) \in 0..(e - 1)
      OBVIOUS
    <2> DEFINE l == Len(blob.body)
    <2>2. l \in Nat /\ c \in 1..l /\ boot_addr + IMAGE_HEADER_LEN + l <= FlashEnd
      BY <1>1
    <2>3. DOMAIN Cells(blob) = 0..(IMAGE_HEADER_LEN + l - 1)
      BY <1>1
    <2> HIDE DEF l
    <2> QED
      BY <1>1, <2>1, <2>2, <2>3 DEF Addr
  <1>3. Cells(blob)[d] = ByteCell(blob.body[c])
    BY CellsOfAnImage
  <1> HIDE DEF d
  <1>4. flash[boot_addr + d] = ByteCell(blob.body[c])
    BY <1>2, <1>3
  <1> QED
    BY <1>2, <1>4

(* A good input has both magics, and a package's image verifies.           *)
LEMMA GoodInputIsPlanned ==
  ASSUME PlanInv, pc = "planned", GoodInput
  PROVE  /\ is_headered_image(image) /\ image.header.code_id /\ Verifies(image)
         /\ plan.body_range.len = image.header.code_area_len
  <1>1. PICK blob \in Blob : /\ DetectedFrom(blob) /\ is_headered_image(blob)
                             /\ image = pad_image_to_code_area_len(blob) /\ plan = PlanFor(image)
    BY DEF PlanInv
  <1>2. blob.header # NoHeader /\ image.header = blob.header /\ image.header.key_id
    BY <1>1, PaddedImage DEF is_headered_image
  <1>3. is_headered_image(image)
    BY <1>2 DEF is_headered_image
  <1>4. input \in Input
    BY DEF PlanInv
  <1>5. source # NoBin => PackagedImageVerifies /\ image.header.code_id
    <2>1. SUFFICES ASSUME source # NoBin PROVE PackagedImageVerifies /\ image.header.code_id
      OBVIOUS
    <2>2. input.kind = "fwpkg" /\ source = selected(input.bins) /\ blob = source.blob
      BY <1>1, <2>1 DEF DetectedFrom
    <2>3. Verifiable(source.blob)
      BY <2>1, <2>2 DEF GoodInput
    <2> QED
      BY <1>2, <2>2, <2>3 DEF Verifiable, PackagedImageVerifies
  <1>6. source = NoBin => image.header.code_id
    <2>1. CASE input.kind = "elf" /\ input.elf.boot_header # NoSection
      <3>1. input.header.code_id
        BY <2>1 DEF GoodInput
      <3> DEFINE body == layout(input.elf, "locate")
      <3>2. /\ input.header \in Header /\ body \in Seq(Byte)
            /\ blob = pad_image_to_code_area_len(Patched(input.header, body))
        BY <1>1, <1>4, <2>1, InputFields, LayoutIsABody DEF DetectedFrom
      <3> HIDE DEF body
      <3> QED
        BY <1>2, <3>1, <3>2, PatchedVerifies
    <2>2. CASE input.kind = "elf" /\ input.elf.boot_header = NoSection
      <3> DEFINE body == layout(input.elf, "flatten")
      <3>1. body \in Seq(Byte) /\ blob = build_app_image(body)
        BY <1>1, <1>4, <2>2, InputFields, LayoutIsABody DEF DetectedFrom
      <3> HIDE DEF body
      <3> QED
        BY <1>2, <3>1, BuiltVerifies
    <2>3. CASE input.kind = "blob" /\ is_headered_image(input.blob)
      <3>1. blob = Patched(input.blob.header, input.blob.body) /\ input.blob.header.code_id
        BY <1>1, <2>3 DEF DetectedFrom, GoodInput
      <3>2. input.blob.header \in Header /\ input.blob.body \in Seq(Byte)
        BY <1>4, <2>3, InputFields, BlobFields DEF is_headered_image
      <3>3. blob.header = patch_header(input.blob.header, input.blob.body)
        BY <3>1 DEF Patched
      <3> QED
        BY <1>2, <3>1, <3>2, <3>3, PatchedHeader
    <2>4. CASE input.kind = "blob" /\ ~is_headered_image(input.blob)
      <3>1. blob = build_app_image(bytes(input.blob)) /\ bytes(input.blob) \in Seq(Byte)
        BY <1>1, <1>4, <2>4, InputFields, BytesOfAFile DEF DetectedFrom
      <3> QED
        BY <1>2, <3>1, BuiltVerifies
    <2>5. CASE input.kind = "fwpkg"
      BY <1>1, <2>5 DEF DetectedFrom
    <2> QED
      BY <1>4, <2>1, <2>2, <2>3, <2>4, <2>5, InputFields
  <1>7. Verifies(image) /\ plan.body_range.len = image.header.code_area_len
    BY <1>5, PlannedImageVerifies
  <1> QED
    BY <1>3, <1>5, <1>6, <1>7

(* When the update is finished, flashboot finds the new app whole.         *)
LEMMA FinishedBoots ==
  ASSUME IInv, phase = "done", GoodInput
  PROVE  Boots /\ CodeInFlash = PlannedCode /\ HeaderInFlash = image.header
  <1>1. /\ pc = "planned" /\ PlanInv /\ plan.image = image /\ image \in Blob
        /\ boot_addr \in Nat /\ Len(image.body) \in Nat
        /\ DOMAIN Cells(image) = 0..(IMAGE_HEADER_LEN + Len(image.body) - 1)
        /\ \A c \in 0..(plan.erase_range.len - 1) :
             flash[boot_addr + c] = IF c \in DOMAIN Cells(image) THEN Cells(image)[c] ELSE ByteCell(Erased)
        /\ plan.erase_range.len \in Nat
        /\ IMAGE_HEADER_LEN + Len(image.body) <= plan.erase_range.len
    BY FinishedFlash
  <1>2. \A c \in DOMAIN Cells(image) : c \in 0..(plan.erase_range.len - 1)
    BY <1>1, ElfAssumption
  <1>3. \A c \in DOMAIN Cells(image) : flash[boot_addr + c] = Cells(image)[c]
    BY <1>1, <1>2
  <1>4. /\ is_headered_image(image) /\ image.header.code_id /\ Verifies(image)
        /\ plan.body_range.len = image.header.code_area_len
    BY <1>1, GoodInputIsPlanned
  <1> QED
    BY <1>1, <1>3, <1>4, WholeImageBoots DEF PlannedCode

(* Nor does one that jumps find anything else.                             *)
LEMMA FinishedIsRun ==
  ASSUME IInv, phase = "done"
  PROVE  Jumped = "new"
  <1>1. /\ pc = "planned" /\ plan.image = image /\ image \in Blob
        /\ boot_addr \in Nat /\ Len(image.body) \in Nat
        /\ boot_addr + IMAGE_HEADER_LEN + Len(image.body) <= FlashEnd
        /\ DOMAIN Cells(image) = 0..(IMAGE_HEADER_LEN + Len(image.body) - 1)
        /\ \A c \in 0..(plan.erase_range.len - 1) :
             flash[boot_addr + c] = IF c \in DOMAIN Cells(image) THEN Cells(image)[c] ELSE ByteCell(Erased)
        /\ plan.erase_range.len \in Nat
        /\ IMAGE_HEADER_LEN + Len(image.body) <= plan.erase_range.len
    BY FinishedFlash
  <1>2. \A c \in DOMAIN Cells(image) : c \in 0..(plan.erase_range.len - 1)
    BY <1>1, ElfAssumption
  <1>3. \A c \in DOMAIN Cells(image) : flash[boot_addr + c] = Cells(image)[c]
    BY <1>1, <1>2
  <1> QED
    BY <1>1, <1>3, WholeBodyIsThere DEF Jumped

(* A finished update boots, also where the hash is checked.                *)
THEOREM FlashingBoots == Spec => []FlashedImageBoots
  <1>1. ASSUME IInv PROVE FlashedImageBoots
    BY <1>1, FinishedBoots DEF FlashedImageBoots
  <1> QED
    BY <1>1, FlashingInvariant, PTL

(* The body of a headered ELF, tail included, is the load map.             *)
LEMMA HeaderedElfBody ==
  ASSUME PlanInv, pc = "planned", input.kind = "elf", input.elf.boot_header # NoSection,
         NEW c \in 1..Len(image.body)
  PROVE  image.body[c] = LoadMap(input.elf, Kept(input.elf, "locate"), BODY_VADDR + c - 1)
  <1> DEFINE e == input.elf
             body == layout(e, "locate")
             kept == Kept(e, "locate")
             raw == Patched(input.header, body)
  <1>1. PICK blob \in Blob : /\ DetectedFrom(blob) /\ is_headered_image(blob)
                             /\ image = pad_image_to_code_area_len(blob)
    BY DEF PlanInv
  <1>2. /\ e \in Elf /\ ~LayoutFails(e, "locate") /\ input.header \in Header /\ body \in Seq(Byte)
        /\ blob = pad_image_to_code_area_len(raw)
    BY <1>1, InputFields, LayoutIsABody DEF PlanInv, DetectedFrom
  <1>3. raw \in Blob /\ raw.header # NoHeader
    <2> HIDE DEF body
    <2> QED
      BY <1>2, PatchedVerifies
  <1>4. raw.body = body
    BY DEF Patched
  <1>5. image = blob
    <2> HIDE DEF raw
    <2> QED
      BY <1>1, <1>2, <1>3, PaddedImage
  <1>6. /\ \A d \in 1..Len(body) : image.body[d] = body[d]
        /\ \A d \in (Len(body) + 1)..Len(image.body) : image.body[d] = Erased
    <2> HIDE DEF raw, body
    <2> QED
      BY <1>2, <1>3, <1>4, <1>5, PaddedImage
  <1>7. /\ Len(body) = LastEnd(e, kept) - BODY_VADDR /\ Len(body) \in Nat
        /\ \A d \in 1..Len(body) : body[d] = LoadMap(e, kept, BODY_VADDR + d - 1)
    <2>1. Len(body) \in Nat
      BY <1>2
    <2> QED
      BY <1>2, <2>1, LayoutBytes
  <1>8. Len(image.body) \in Nat /\ c \in Nat /\ c >= 1
    <2>1. image \in Blob /\ image.header # NoHeader
      BY PlannedImage
    <2>2. Len(image.body) \in Nat
      BY <2>1, BlobFields
    <2> QED
      BY <2>2
  <1>9. CASE c <= Len(body)
    <2>1. c \in 1..Len(body)
      BY <1>7, <1>8, <1>9
    <2> HIDE DEF body, kept
    <2> QED
      BY <1>6, <1>7, <2>1 DEF kept
  <1>10. CASE ~(c <= Len(body))
    <2>1. c \in (Len(body) + 1)..Len(image.body)
      BY <1>7, <1>8, <1>10
    <2>2. image.body[c] = Erased
      BY <1>6, <2>1
    <2>3. kept # {} /\ \A s \in kept : DataInFile(e, s)
      BY <1>2 DEF LayoutFails
    <2>4. BODY_VADDR \in Nat /\ BODY_VADDR + c - 1 \in Nat
      BY <1>8, ElfAssumption
    <2>5. LastEnd(e, kept) \in Nat /\ \A s \in kept : End(e.segments[s]) <= LastEnd(e, kept)
      BY <1>2, <2>3, LastEndIsLast
    <2>6. LastEnd(e, kept) <= BODY_VADDR + c - 1
      <3> HIDE DEF body, kept
      <3> QED
        BY <1>7, <1>8, <1>10, <2>4, <2>5
    <2>7. ASSUME NEW s \in kept PROVE ~Covers(e.segments[s], BODY_VADDR + c - 1)
      <3>1. End(e.segments[s]) \in Nat /\ End(e.segments[s]) <= LastEnd(e, kept)
        BY <1>2, <2>5, KeptFields
      <3> HIDE DEF kept
      <3> QED
        BY <2>4, <2>5, <2>6, <3>1 DEF Covers
    <2>8. LoadMap(e, kept, BODY_VADDR + c - 1) = Erased
      <3> DEFINE addr == BODY_VADDR + c - 1
      <3>1. addr \in Nat /\ \A s \in kept : ~Covers(e.segments[s], addr)
        BY <2>4, <2>7
      <3> HIDE DEF addr
      <3>2. LoadMap(e, kept, addr) = Erased
        BY <1>2, <2>3, <3>1, LoadMapIsInFile
      <3> QED
        BY <3>2 DEF addr
    <2> QED
      BY <2>2, <2>8
  <1> QED
    BY <1>9, <1>10

(* A headered ELF is in flash where its program headers put it.            *)
THEOREM FlashingElfAtItsAddress == Spec => []HeaderedElfAtItsAddress
  <1>1. ASSUME IInv PROVE HeaderedElfAtItsAddress
    <2>1. SUFFICES ASSUME phase = "done", input.kind = "elf", input.elf.boot_header # NoSection,
                          boot_addr + IMAGE_HEADER_LEN = BODY_VADDR,
                          NEW c \in 0..(Len(plan.image.body) - 1)
                   PROVE  flash[BODY_VADDR + c].byte
                            = LoadMap(input.elf, Kept(input.elf, "locate"), BODY_VADDR + c)
      BY DEF HeaderedElfAtItsAddress
    <2>2. /\ pc = "planned" /\ PlanInv /\ plan.image = image /\ image \in Blob
          /\ boot_addr \in Nat /\ Len(image.body) \in Nat
          /\ DOMAIN Cells(image) = 0..(IMAGE_HEADER_LEN + Len(image.body) - 1)
          /\ \A d \in 0..(plan.erase_range.len - 1) :
               flash[boot_addr + d] = IF d \in DOMAIN Cells(image) THEN Cells(image)[d] ELSE ByteCell(Erased)
          /\ plan.erase_range.len \in Nat
          /\ IMAGE_HEADER_LEN + Len(image.body) <= plan.erase_range.len
      BY <1>1, <2>1, FinishedFlash
    <2>3. IMAGE_HEADER_LEN \in Nat /\ BODY_VADDR \in Nat /\ c \in Nat
      BY <2>2, ElfAssumption
    <2> DEFINE d == IMAGE_HEADER_LEN + c
    <2>4. d \in DOMAIN Cells(image) /\ d \in 0..(plan.erase_range.len - 1)
      BY <2>1, <2>2, <2>3
    <2>5. c + 1 \in 1..Len(image.body) /\ IMAGE_HEADER_LEN + (c + 1) - 1 = d
          /\ boot_addr + d = BODY_VADDR + c /\ BODY_VADDR + (c + 1) - 1 = BODY_VADDR + c
      BY <2>1, <2>2, <2>3
    <2>6. Cells(image)[IMAGE_HEADER_LEN + (c + 1) - 1].byte = image.body[c + 1]
      BY <2>2, <2>5, CellsOfAnImage
    <2>7. image.body[c + 1]
            = LoadMap(input.elf, Kept(input.elf, "locate"), BODY_VADDR + (c + 1) - 1)
      BY <2>1, <2>2, <2>5, HeaderedElfBody
    <2> HIDE DEF d
    <2>8. flash[boot_addr + d] = Cells(image)[d]
      BY <2>2, <2>4
    <2> QED
      BY <2>5, <2>6, <2>7, <2>8
  <1> QED
    BY <1>1, FlashingInvariant, PTL

(* The only app of a package is found: by its name, or because no other     *)
(* has the requested one.                                                  *)
LEMMA TheOnlyAppIsSelected ==
  ASSUME NEW bins \in Seq(PackageBin), NEW k \in DOMAIN bins, bins[k].app_like, ~bins[k].loader,
         \A l \in DOMAIN bins \ {k} : bins[l].name # app_name /\ (bins[l].app_like => bins[l].loader)
  PROVE  selected(bins) = bins[k]
  <1> DEFINE named == {l \in DOMAIN bins : bins[l].name = app_name}
             liked == {l \in normal_bins(bins) : bins[l].app_like}
  <1>1. named \subseteq {k} /\ liked = {k} /\ named \in SUBSET DOMAIN bins
    BY DEF normal_bins
  <1>2. app_like_bin(bins) = bins[k] /\ bins[k] # NoBin
    <2>1. app_like_bin(bins) = FirstBin(bins, liked)
      BY DEF app_like_bin
    <2> HIDE DEF liked
    <2> QED
      BY <1>1, <2>1, FirstBinIsOne
  <1>3. find_by_name(bins, app_name) # NoBin => find_by_name(bins, app_name) = bins[k]
    <2>1. find_by_name(bins, app_name) = FirstBin(bins, named)
      BY DEF find_by_name
    <2> HIDE DEF named
    <2> QED
      BY <1>1, <2>1, FirstBinIsOne
  <1> QED
    BY <1>2, <1>3 DEF selected

(* A package with one app has that app planned, whatever else is packed and*)
(* whatever the app is called, unless another partition is asked for by name.*)
THEOREM FlashingPlansTheApp == Spec => []PackagedAppIsPlanned
  <1>1. ASSUME IInv PROVE PackagedAppIsPlanned
    <2>1. SUFFICES ASSUME input.kind = "fwpkg", pc \in {"build", "planned"}, NEW k \in DOMAIN input.bins,
                          input.bins[k].app_like, ~input.bins[k].loader,
                          \A l \in DOMAIN input.bins \ {k} :
                            input.bins[l].name # app_name /\ (input.bins[l].app_like => input.bins[l].loader)
                   PROVE  source = input.bins[k]
      BY DEF PackagedAppIsPlanned
    <2>2. PlanInv /\ input \in Input
      BY <1>1 DEF IInv, PlanInv
    <2>3. source = selected(input.bins)
      <3>1. CASE pc = "build"
        BY <2>1, <2>2, <3>1 DEF PlanInv, DetectedFrom
      <3>2. CASE pc = "planned"
        BY <2>1, <2>2, <3>2, PlannedImage
      <3> QED
        BY <2>1, <3>1, <3>2
    <2>4. input.bins \in Seq(PackageBin)
      BY <2>1, <2>2, InputFields
    <2> QED
      BY <2>1, <2>3, <2>4, TheOnlyAppIsSelected
  <1> QED
    BY <1>1, FlashingInvariant, PTL

-----------------------------------------------------------------------------
(* The refinement of AppUpdate.                                            *)

(* The header that is planned is a new one.                                *)
LEMMA PlannedHeaderIsNew ==
  ASSUME PlanInv, Asked, pc = "planned"
  PROVE  image.header # OldImage.header
  <1>1. PICK blob \in Blob : /\ DetectedFrom(blob) /\ is_headered_image(blob)
                             /\ image = pad_image_to_code_area_len(blob)
    BY DEF PlanInv
  <1>2. image.header = blob.header
    BY <1>1, PaddedImage DEF is_headered_image
  <1>3. input \in Input /\ input \in Inputs
    BY DEF PlanInv, Asked
  <1>4. blob.header \in HeadersOf(input)
    <2>1. CASE input.kind = "elf" /\ input.elf.boot_header # NoSection
      <3> DEFINE body == layout(input.elf, "locate")
      <3>1. /\ input.header \in Header /\ body \in Seq(Byte) /\ ~LayoutFails(input.elf, "locate")
            /\ blob = pad_image_to_code_area_len(Patched(input.header, body))
        BY <1>1, <1>3, <2>1, InputFields, LayoutIsABody DEF DetectedFrom
      <3>2. blob.header = patch_header(input.header, body)
        <4> HIDE DEF body
        <4> QED
          BY <3>1, PatchedVerifies
      <3>3. HeadersOf(input) = {patch_header(input.header, body)}
        BY <2>1, <3>1 DEF HeadersOf
      <3> QED
        BY <3>2, <3>3
    <2>2. CASE input.kind = "elf" /\ input.elf.boot_header = NoSection
      <3> DEFINE body == layout(input.elf, "flatten")
      <3>1. /\ body \in Seq(Byte) /\ ~LayoutFails(input.elf, "flatten") /\ blob = build_app_image(body)
        BY <1>1, <1>3, <2>2, InputFields, LayoutIsABody DEF DetectedFrom
      <3>2. HeadersOf(input) = {build_image_header(body)}
        BY <2>2, <3>1 DEF HeadersOf
      <3>3. blob.header = build_image_header(body)
        BY <3>1 DEF build_app_image
      <3> QED
        BY <3>2, <3>3
    <2>3. CASE input.kind = "blob" /\ is_headered_image(input.blob)
      <3>1. blob = Patched(input.blob.header, input.blob.body)
        BY <1>1, <2>3 DEF DetectedFrom
      <3>2. HeadersOf(input) = {patch_header(input.blob.header, input.blob.body)}
        BY <2>3 DEF HeadersOf
      <3> QED
        BY <3>1, <3>2 DEF Patched
    <2>4. CASE input.kind = "blob" /\ ~is_headered_image(input.blob)
      <3>1. blob = build_app_image(bytes(input.blob))
        BY <1>1, <2>4 DEF DetectedFrom
      <3>2. HeadersOf(input) = {build_image_header(bytes(input.blob))}
        BY <2>4 DEF HeadersOf
      <3> QED
        BY <3>1, <3>2 DEF build_app_image
    <2>5. CASE input.kind = "fwpkg"
      <3>1. blob = source.blob /\ source # NoBin /\ source = selected(input.bins)
        BY <1>1, <2>5 DEF DetectedFrom
      <3>2. input.bins \in Seq(PackageBin)
        BY <1>3, <2>5, InputFields
      <3>3. PICK k \in DOMAIN input.bins : source = input.bins[k]
        BY <3>1, <3>2, SelectedIsOne
      <3>4. HeadersOf(input) = {input.bins[l].blob.header : l \in DOMAIN input.bins}
        BY <2>5 DEF HeadersOf
      <3> QED
        BY <3>1, <3>3, <3>4
    <2> QED
      BY <1>3, <2>1, <2>2, <2>3, <2>4, <2>5, InputFields
  <1> QED
    BY <1>2, <1>3, <1>4, NewAppAssumption

(* Before the update the old app runs.                                     *)
LEMMA OldAppRuns == ASSUME Init PROVE Runs = "old"
  <1> DEFINE len == Len(OldImage.body)
  <1>1. /\ OldImage \in Blob /\ is_headered_image(OldImage) /\ OldImage.header.code_id
        /\ Verifies(OldImage)
        /\ \A c \in Chips : app_partition_addr[c] \in Addr
        /\ \A a \in BoardAddrs \cap Addr : a + IMAGE_HEADER_LEN + len <= FlashEnd
    BY OldAppAssumption DEF Verifies, sha256
  <1>2. input \in Inputs /\ input \in Input /\ chip \in Chips /\ app_addr \in AppAddrs
    BY PlanAssumption DEF Init, PlanInit
  <1>3. boot_addr \in BoardAddrs \cap Addr
    <2>1. app_partition_addr[chip] \in BoardAddrs \cap Addr
      BY <1>1, <1>2 DEF BoardAddrs
    <2>2. ASSUME app_addr = NoAddr, input.kind = "fwpkg", selected(input.bins) # NoBin
          PROVE  selected(input.bins).burn_addr \in BoardAddrs
      <3>1. input.bins \in Seq(PackageBin)
        BY <1>2, <2>2, InputFields
      <3>2. PICK k \in DOMAIN input.bins : selected(input.bins) = input.bins[k]
        BY <2>2, <3>1, SelectedIsOne
      <3>3. input \in {i \in Inputs : i.kind = "fwpkg"}
        BY <1>2, <2>2
      <3>4. input.bins[k].burn_addr \in {input.bins[l].burn_addr : l \in DOMAIN input.bins}
        OBVIOUS
      <3> QED
        BY <3>2, <3>3, <3>4 DEF BoardAddrs
    <2>3. Intended(input, app_addr) \in BoardAddrs
      BY <1>2, <2>1, <2>2 DEF Intended, BoardAddrs
    <2> QED
      BY <2>1, <2>3 DEF Init
  <1>4. /\ boot_addr \in Nat /\ boot_addr + IMAGE_HEADER_LEN + len <= FlashEnd
        /\ IMAGE_HEADER_LEN \in Nat /\ len \in Nat /\ FlashEnd \in Nat
    <2>1. boot_addr + IMAGE_HEADER_LEN + len <= FlashEnd /\ boot_addr \in Nat
      BY <1>1, <1>3 DEF Addr
    <2>2. len \in Nat
      BY <1>1 DEF Blob
    <2> QED
      BY <2>1, <2>2, ElfAssumption, FlashAssumption
  <1>5. ASSUME NEW c \in DOMAIN Cells(OldImage) PROVE flash[boot_addr + c] = Cells(OldImage)[c]
    <2>1. c \in 0..(IMAGE_HEADER_LEN + len - 1)
      BY <1>1, CellTypes
    <2>2. \A b, h, l, d, e \in Nat : b + h + l <= e /\ d \in 0..(h + l - 1) => b + d \in 0..(e - 1)
      OBVIOUS
    <2>3. c \in Nat
      BY <2>1
    <2>4. boot_addr + c \in Addr /\ (boot_addr + c) - boot_addr = c
      <3> HIDE DEF len
      <3>1. boot_addr + c \in 0..(FlashEnd - 1)
        BY <1>4, <2>1, <2>2, <2>3
      <3> QED
        BY <1>4, <2>3, <3>1 DEF Addr
    <2>5. flash = [a \in Addr |-> IF a - boot_addr \in DOMAIN Cells(OldImage)
                                  THEN Cells(OldImage)[a - boot_addr] ELSE ByteCell(Leftover)]
      BY DEF Init, Holding
    <2> QED
      BY <2>4, <2>5
  <1>6. Boots /\ HeaderInFlash = OldImage.header
    BY <1>1, <1>4, <1>5, WholeImageBoots
  <1>7. BodyInFlash(OldImage.body)
    BY <1>1, <1>4, <1>5, WholeBodyIsThere
  <1>8. pc # "planned"
    BY DEF Init, PlanInit
  <1>9. Checked = "old" /\ Jumped = "old"
    BY <1>6, <1>7, <1>8 DEF Checked, Jumped
  <1> QED
    BY <1>9, Zenon DEF Runs

(* What a flashboot that verifies says depends on the flash and the         *)
(* partition table alone, what is run by a jump on the plan as well.       *)
LEMMA SameFlashChecksTheSame == ASSUME UNCHANGED <<flash, boot_addr>> PROVE Checked' = Checked
  BY DEF Checked, Boots, HeaderComplete, CodeInFlash, HeaderInFlash

LEMMA SameFlashRunsTheSame ==
  ASSUME UNCHANGED <<flash, boot_addr, verifies, pc, plan>>
  PROVE  Runs' = Runs
  <1>1. Checked' = Checked
    BY SameFlashChecksTheSame
  <1>2. Jumped' = Jumped
    BY DEF Jumped, BodyInFlash
  <1> QED
    BY <1>1, <1>2, Zenon DEF Runs

(* Erasing, and losing power while erasing, takes the app down: its header  *)
(* is in the first sector.                                                 *)
LEMMA ErasingTakesDown == ASSUME IInv, EraseSector PROVE Checked' = "none"
  <1>1. /\ phase = "erase" /\ boot_addr' = boot_addr
        /\ flash' = [a \in Addr |-> IF a \in Sector THEN ByteCell(Erased) ELSE flash[a]]
    BY DEF EraseSector
  <1>2. boot_addr = plan.write_chunk.addr /\ boot_addr \in Addr
    BY <1>1, CarriedToTheApp
  <1>3. /\ PlanInv /\ pc = "planned" /\ at \in Nat /\ Erased0 <= at
        /\ \A a \in Erased0..(at - 1) : flash[a] = ByteCell(Erased)
    BY <1>1 DEF IInv, Carried, Erasing, DeviceTypes
  <1>4. Erased0 \in Nat /\ Erased0 <= boot_addr /\ boot_addr < Erased0 + SectorSize /\ boot_addr \in Nat
    BY <1>2, <1>3, SectorsOfThePlan
  <1>5. boot_addr \in Sector \/ boot_addr \in Erased0..(at - 1)
    BY <1>3, <1>4, FlashAssumption DEF Sector
  <1>6. flash'[boot_addr] = ByteCell(Erased)
    BY <1>1, <1>2, <1>3, <1>5
  <1>7. flash'[boot_addr'].header = NoHeader
    BY <1>1, <1>6 DEF ByteCell
  <1> QED
    BY <1>7 DEF Checked, Boots, HeaderComplete, HeaderInFlash

(* An erase cut short takes down whatever could be booted.                 *)
LEMMA LosingPowerTakesDown == ASSUME IInv, PowerLoss, flash' # flash PROVE Checked' = "none"
  <1>1. /\ phase = "erase" /\ boot_addr' = boot_addr
        /\ flash' = [a \in Addr |-> IF a \in Sector THEN ByteCell(Garbage) ELSE flash[a]]
    BY DEF PowerLoss
  <1>2. boot_addr = plan.write_chunk.addr /\ boot_addr \in Addr
    BY <1>1, CarriedToTheApp
  <1>3. /\ PlanInv /\ pc = "planned" /\ at \in Nat /\ Erased0 <= at
        /\ \A a \in Erased0..(at - 1) : flash[a] = ByteCell(Erased)
    BY <1>1 DEF IInv, Carried, Erasing, DeviceTypes
  <1>4. Erased0 \in Nat /\ Erased0 <= boot_addr /\ boot_addr < Erased0 + SectorSize /\ boot_addr \in Nat
    BY <1>2, <1>3, SectorsOfThePlan
  <1>5. boot_addr \in Sector \/ boot_addr \in Erased0..(at - 1)
    BY <1>3, <1>4, FlashAssumption DEF Sector
  <1>6. flash'[boot_addr] \in {ByteCell(Garbage), ByteCell(Erased)}
    BY <1>1, <1>2, <1>3, <1>5
  <1>7. flash'[boot_addr'].header = NoHeader
    BY <1>1, <1>6 DEF ByteCell
  <1> QED
    BY <1>7 DEF Checked, Boots, HeaderComplete, HeaderInFlash

(* From the first cell programmed on the old app does not verify, and when  *)
(* all are, the new one does; it is also what a jump runs.                 *)
RunsInv ==
  /\ phase \in {"program", "done"} => Checked # "old"
  /\ phase = "done" /\ GoodInput => Checked = "new"
  /\ phase = "done" => Jumped = "new"

(* What flashboot would start follows from how far the update is.          *)
LEMMA RunsFollow == IInv => RunsInv
  <1>1. ASSUME IInv, phase \in {"program", "done"} PROVE Checked # "old"
    <2>1. /\ PlanInv /\ Asked /\ pc = "planned" /\ at \in Nat
          /\ \A a \in Erased0..(ErasedEnd - 1) :
               flash[a] = IF plan.write_chunk.addr <= a /\ a < at
                          THEN Cells(plan.image)[a - plan.write_chunk.addr] ELSE ByteCell(Erased)
      BY <1>1 DEF IInv, Carried, Programming, DeviceTypes
    <2>2. boot_addr = plan.write_chunk.addr /\ plan.image = image /\ image \in Blob
      BY <1>1, <2>1, CarriedToTheApp, PlannedImage, PlannedRanges
    <2>3. /\ Erased0 \in Nat /\ ErasedEnd \in Nat /\ boot_addr \in Nat
          /\ Erased0 <= boot_addr /\ boot_addr < ErasedEnd
      <3>1. /\ Erased0 \in Nat /\ ErasedEnd \in Nat /\ boot_addr \in Nat /\ WriteEnd \in Nat
            /\ Erased0 <= boot_addr /\ boot_addr < WriteEnd /\ WriteEnd <= ErasedEnd
        BY <2>1, <2>2, SectorsOfThePlan
      <3> QED
        BY <3>1
    <2>4. boot_addr \in Erased0..(ErasedEnd - 1) /\ boot_addr - boot_addr = 0
      BY <2>3
    <2>5. flash[boot_addr] \in {Cells(image)[0], ByteCell(Erased)}
      BY <2>1, <2>2, <2>4
    <2>6. Cells(image)[0].header = image.header
      <3>1. 0 \in 0..(IMAGE_HEADER_LEN - 1)
        BY ElfAssumption, PlanAssumption
      <3> QED
        BY <2>2, <3>1, CellsOfAnImage
    <2>7. HeaderInFlash \in {image.header, NoHeader}
      BY <2>5, <2>6 DEF HeaderInFlash, ByteCell
    <2>8. image.header # OldImage.header /\ OldImage.header # NoHeader
      BY <2>1, PlannedHeaderIsNew, OldAppAssumption DEF is_headered_image
    <2> QED
      BY <2>7, <2>8 DEF Checked
  <1>2. ASSUME IInv, phase = "done", GoodInput PROVE Checked = "new"
    BY <1>1, <1>2, FinishedBoots DEF Checked
  <1> QED
    BY <1>1, <1>2, FinishedIsRun DEF RunsInv

(* No step before the end changes what makes an input good.                *)
LEMMA SameGoodInput == ASSUME UNCHANGED args PROVE GoodInput' = GoodInput
  BY DEF GoodInput, args, selected, find_by_name

(* Every step of the update is one the promise allows, or none at all.     *)
LEMMA StepKeepsThePromise ==
  ASSUME IInv, RunsInv, RunsInv', [Next]_all
  PROVE  [Update!Next]_(Update!vars)
  <1> USE DEF Update!Next, Update!vars, Update!TakeDown, Update!BringUp, Update!Jump, Update!Finish
  <1>1. UNCHANGED verifies
    BY SameBoard
  <1>2. ASSUME phase # "done", phase' # "done", verifies, Checked' \in {Checked, "none"}
        PROVE  [Update!Next]_(Update!vars)
    <2>1. Runs = Checked /\ Runs' = Checked'
      BY <1>1, <1>2, Zenon DEF Runs
    <2> QED
      BY <1>1, <1>2, <2>1
  <1>3. ASSUME phase # "done", phase' # "done", ~verifies
        PROVE  [Update!Next]_(Update!vars)
    <2>1. Runs' = Jumped'
      BY <1>1, <1>3, Zenon DEF Runs
    <2>2. Runs' \in {"old", "new", "broken"}
      BY <2>1 DEF Jumped
    <2> QED
      BY <1>1, <1>3, <2>2
  <1>4. ASSUME UNCHANGED <<flash, boot_addr>>, phase # "done", phase' # "done"
        PROVE  [Update!Next]_(Update!vars)
    BY <1>2, <1>3, <1>4, SameFlashChecksTheSame
  <1>5. CASE Plan
    <2>1. UNCHANGED <<flash, boot_addr, phase>> /\ pc # "planned"
      BY <1>5 DEF Plan, deviceVars, PlanStep, HeaderedElf, BareElf, ElfFails, HeaderedBlob, RawBlob,
                  PackageRefused, FromPackage, NoAppInPackage, ImageTooShort, ImageWithoutHeader, ImageTooLong, BuildPlan
    <2> QED
      BY <1>4, <2>1 DEF IInv, Carried
  <1>6. CASE RefusePlan \/ StartErase \/ StartProgram
    BY <1>4, <1>6 DEF RefusePlan, StartErase, StartProgram
  <1>7. CASE EraseSector
    <2>1. Checked' = "none" /\ phase # "done" /\ phase' # "done"
      BY <1>7, ErasingTakesDown DEF EraseSector
    <2> QED
      BY <1>2, <1>3, <2>1
  <1>8. CASE ProgramCell
    <2>1. phase = "program" /\ phase' = "program"
      BY <1>8 DEF ProgramCell
    <2>2. Checked \in {"none", "new"} /\ Checked' \in {"none", "new"}
      <3>1. Checked # "old" /\ Checked' # "old"
        BY <2>1 DEF RunsInv
      <3> QED
        BY <3>1 DEF Checked
    <2>3. CASE verifies
      <3>1. Runs = Checked /\ Runs' = Checked'
        BY <1>1, <2>3, Zenon DEF Runs
      <3> QED
        BY <1>1, <2>1, <2>2, <2>3, <3>1
    <2> QED
      BY <1>3, <2>1, <2>3
  <1>9. CASE Finish
    <2>1. /\ UNCHANGED <<flash, boot_addr, pc, plan>> /\ phase = "program" /\ phase' = "done"
          /\ UNCHANGED args
      BY <1>9 DEF Finish, planVars
    <2>2. Runs' = Runs /\ GoodInput' = GoodInput
      BY <1>1, <2>1, SameFlashRunsTheSame, SameGoodInput
    <2>3. Startable' = Startable
      BY <1>1, <2>2, Zenon DEF Startable
    <2>4. Startable' => Runs' = "new"
      <3>1. CASE verifies
        <4>1. Runs' = Checked' /\ (Startable' => GoodInput')
          BY <1>1, <3>1, Zenon DEF Runs, Startable
        <4> QED
          BY <2>1, <4>1 DEF RunsInv
      <3>2. CASE ~verifies
        <4>1. Runs' = Jumped'
          BY <1>1, <3>2, Zenon DEF Runs
        <4> QED
          BY <2>1, <4>1 DEF RunsInv
      <3> QED
        BY <3>1, <3>2
    <2>5. CASE Startable
      BY <1>1, <2>1, <2>2, <2>3, <2>4, <2>5
    <2>6. CASE ~Startable
      BY <1>1, <2>1, <2>2, <2>3, <2>6
    <2> QED
      BY <2>5, <2>6
  <1>10. CASE PowerLoss
    <2>1. phase # "done" /\ phase' # "done" /\ boot_addr' = boot_addr
      BY <1>10 DEF PowerLoss
    <2>2. CASE flash' = flash
      BY <1>4, <2>1, <2>2
    <2>3. CASE flash' # flash
      BY <1>2, <1>3, <1>10, <2>1, <2>3, LosingPowerTakesDown
    <2> QED
      BY <2>2, <2>3
  <1>11. CASE UNCHANGED all
    <2>1. UNCHANGED <<flash, boot_addr, phase, pc, plan>> /\ UNCHANGED args
      BY <1>11 DEF all, planVars, deviceVars
    <2>2. Runs' = Runs /\ GoodInput' = GoodInput
      BY <1>1, <2>1, SameFlashRunsTheSame, SameGoodInput
    <2>3. Startable' = Startable
      BY <1>1, <2>2, Zenon DEF Startable
    <2> QED
      BY <1>1, <2>1, <2>2, <2>3
  <1> QED
    BY <1>5, <1>6, <1>7, <1>8, <1>9, <1>10, <1>11 DEF Next, Work, Ended

(* The update keeps its promise on boards of both kinds: every behaviour of *)
(* plan, transport, power and flashboot is one of AppUpdate.  Where the    *)
(* hash is checked nothing but the old app, then none or the new one is    *)
(* ever started; where it is not, whatever the flash holds is; and the     *)
(* update is finished on neither before the whole new app is in place.     *)
THEOREM FlashingKeepsThePromise == Spec => KeepsTheUpdatePromise
  <1>1. ASSUME Init PROVE Update!Init
    BY <1>1, OldAppRuns DEF Update!Init, Init
  <1>2. IInv /\ RunsInv /\ RunsInv' /\ [Next]_all => [Update!Next]_(Update!vars)
    BY StepKeepsThePromise
  <1> QED
    BY <1>1, <1>2, RunsFollow, FlashingInvariant, PTL DEF Spec, KeepsTheUpdatePromise, Update!Spec
=============================================================================

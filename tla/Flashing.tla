------------------------------ MODULE Flashing ------------------------------
(***************************************************************************)
(* A planned update carried out: the host plans, a transport erases and    *)
(* programs the flash, power may fail, the host tries again, and flashboot *)
(* decides what runs.  The transport and flashboot are not part of the     *)
(* crate; they are what its comments say of them: a transport aligns the   *)
(* erase range outward to sectors and writes the chunk, programming only   *)
(* clears bits, and a transport refuses what does not fit the flash it     *)
(* knows.  Of flashboot the comments say two things.  With secure boot     *)
(* enabled, and by patch.rs and main.rs even without, it compares the      *)
(* SHA-256 of code_area_len contiguous bytes after the header with         *)
(* code_area_hash; by the README, lib.rs and image.rs it checks nothing    *)
(* when secure boot is disabled and jumps unconditionally to what follows  *)
(* the header.  Both kinds of boards are here.                             *)
(***************************************************************************)
EXTENDS FlashPlan

CONSTANTS
  SectorSize, FlashEnd,  \* addresses are 0 .. FlashEnd - 1
  OldImage,              \* the app on the board before the update
  Leftover,              \* other old bytes, of this and of other partitions
  Garbage,               \* what programming over a byte leaves
  MaxLosses              \* bound on power failures

VARIABLES
  flash,     \* address -> Cell
  boot_addr, \* where this board's partition table puts the app
  verifies,  \* does this board's flashboot check code_area_hash?
  phase,     \* the transport: "idle", "erase", "program", "done" or "refused"
  at,        \* the next address to erase or to program
  losses

deviceVars == <<flash, boot_addr, verifies, phase, at, losses>>

all == <<planVars, deviceVars>>

Addr == 0..(FlashEnd - 1)

(* A cell holds a byte, or a piece of a header.                            *)
ByteCell(b) == [header |-> NoHeader, byte |-> b]
HeaderCell(h) == [header |-> h, byte |-> Erased]

Cells(blob) ==
  [c \in 0..(IMAGE_HEADER_LEN + Len(blob.body) - 1) |->
     IF c < IMAGE_HEADER_LEN THEN HeaderCell(blob.header)
     ELSE ByteCell(blob.body[c - IMAGE_HEADER_LEN + 1])]

Holding(blob, base) ==
  [a \in Addr |-> IF a - base \in DOMAIN Cells(blob) THEN Cells(blob)[a - base]
                  ELSE ByteCell(Leftover)]

(* The board runs an old app before, wherever an update may mean to go, and *)
(* the update is to another one.                                           *)
BoardAddrs ==
  AppAddrs \cup {app_partition_addr[c] : c \in Chips}
    \cup UNION {{in.bins[k].burn_addr : k \in DOMAIN in.bins} : in \in {i \in Inputs : i.kind = "fwpkg"}}

HeadersOf(in) ==
  CASE in.kind = "elf" /\ in.elf.boot_header # NoSection /\ ~LayoutFails(in.elf, "locate") ->
         {patch_header(in.header, layout(in.elf, "locate"))}
    [] in.kind = "elf" /\ in.elf.boot_header = NoSection /\ ~LayoutFails(in.elf, "flatten") ->
         {build_image_header(layout(in.elf, "flatten"))}
    [] in.kind = "blob" /\ is_headered_image(in.blob) -> {patch_header(in.blob.header, in.blob.body)}
    [] in.kind = "blob" /\ ~is_headered_image(in.blob) -> {build_image_header(bytes(in.blob))}
    [] in.kind = "fwpkg" -> {in.bins[k].blob.header : k \in DOMAIN in.bins}
    [] OTHER -> {}

ASSUME FlashAssumption ==
  /\ SectorSize \in Nat \ {0} /\ FlashEnd \in Nat /\ FlashEnd < U32 /\ MaxLosses \in Nat

ASSUME OldAppAssumption ==
  /\ OldImage \in Blob /\ is_headered_image(OldImage) /\ OldImage.header.code_id
  /\ OldImage.header.code_area_len <= Len(OldImage.body)
  /\ OldImage.header.code_area_hash = sha256(SubSeq(OldImage.body, 1, OldImage.header.code_area_len))
  /\ \A c \in Chips : app_partition_addr[c] \in Addr
  /\ \A a \in BoardAddrs \cap Addr : a + IMAGE_HEADER_LEN + Len(OldImage.body) <= FlashEnd

ASSUME NewAppAssumption == \A in \in Inputs : OldImage.header \notin HeadersOf(in)

(* The address whoever starts the update means, rightly: what --app-addr    *)
(* says, else what the package says of its app, else the chip's default.   *)
Intended(in, app) ==
  IF app # NoAddr THEN app
  ELSE IF in.kind = "fwpkg" /\ selected(in.bins) # NoBin THEN selected(in.bins).burn_addr
  ELSE app_partition_addr[chip]

Init ==
  /\ PlanInit
  /\ boot_addr = IF Intended(input, app_addr) \in Addr THEN Intended(input, app_addr)
                 ELSE app_partition_addr[chip]
  /\ flash = Holding(OldImage, boot_addr) /\ verifies \in BOOLEAN
  /\ phase = "idle" /\ at = 0 /\ losses = 0

Plan == PlanStep /\ UNCHANGED deviceVars

SectorStart(a) == a - (a % SectorSize)
SectorsEnd(range) == SectorStart(range.start + range.len + SectorSize - 1)

FitsFlash == SectorsEnd(plan.erase_range) <= FlashEnd

RefusePlan ==
  /\ pc = "planned" /\ phase = "idle" /\ ~FitsFlash
  /\ phase' = "refused"
  /\ UNCHANGED <<planVars, flash, boot_addr, verifies, at, losses>>

StartErase ==
  /\ pc = "planned" /\ phase = "idle" /\ FitsFlash
  /\ phase' = "erase" /\ at' = SectorStart(plan.erase_range.start)
  /\ UNCHANGED <<planVars, flash, boot_addr, verifies, losses>>

Sector == at..(at + SectorSize - 1)

EraseSector ==
  /\ phase = "erase" /\ at < SectorsEnd(plan.erase_range)
  /\ flash' = [a \in Addr |-> IF a \in Sector THEN ByteCell(Erased) ELSE flash[a]]
  /\ at' = at + SectorSize
  /\ UNCHANGED <<planVars, boot_addr, verifies, phase, losses>>

StartProgram ==
  /\ phase = "erase" /\ at >= SectorsEnd(plan.erase_range)
  /\ phase' = "program" /\ at' = plan.write_chunk.addr
  /\ UNCHANGED <<planVars, flash, boot_addr, verifies, losses>>

Programmed(old, new) == IF old = ByteCell(Erased) \/ old = new THEN new ELSE ByteCell(Garbage)

ProgramCell ==
  /\ phase = "program" /\ at < plan.write_chunk.addr + plan.write_chunk.len
  /\ flash' = [flash EXCEPT ![at] =
                 Programmed(@, Cells(plan.image)[at - plan.write_chunk.addr])]
  /\ at' = at + 1
  /\ UNCHANGED <<planVars, boot_addr, verifies, phase, losses>>

Finish ==
  /\ phase = "program" /\ at >= plan.write_chunk.addr + plan.write_chunk.len
  /\ phase' = "done"
  /\ UNCHANGED <<planVars, flash, boot_addr, verifies, at, losses>>

(* Power fails; a sector that was being erased may be left undefined.  The *)
(* host starts over with the same plan.                                    *)
PowerLoss ==
  /\ phase \in {"erase", "program"} /\ losses < MaxLosses
  /\ losses' = losses + 1 /\ phase' = "idle" /\ at' = 0
  /\ \/ UNCHANGED flash
     \/ /\ phase = "erase" /\ at < SectorsEnd(plan.erase_range)
        /\ flash' = [a \in Addr |-> IF a \in Sector THEN ByteCell(Garbage) ELSE flash[a]]
  /\ UNCHANGED <<planVars, boot_addr, verifies>>

Ended == (phase \in {"done", "refused"} \/ pc \in PlanErrors) /\ UNCHANGED all

Work == Plan \/ RefusePlan \/ StartErase \/ EraseSector \/ StartProgram \/ ProgramCell \/ Finish

Next == Work \/ PowerLoss \/ Ended

Spec == Init /\ [][Next]_all /\ WF_all(Work)

-----------------------------------------------------------------------------
(* A flashboot that verifies needs a complete header and the right hash.   *)
HeaderInFlash == flash[boot_addr].header

HeaderComplete ==
  /\ HeaderInFlash # NoHeader /\ HeaderInFlash.key_id /\ HeaderInFlash.code_id
  /\ \A c \in 0..(IMAGE_HEADER_LEN - 1) : flash[boot_addr + c].header = HeaderInFlash

CodeInFlash ==
  [c \in 1..HeaderInFlash.code_area_len |-> flash[boot_addr + IMAGE_HEADER_LEN + c - 1].byte]

Boots == HeaderComplete /\ HeaderInFlash.code_area_hash = sha256(CodeInFlash)

(* The body flashboot is to verify, and whether the image can be verified  *)
(* at all: a package brings its own hash, right or wrong.                  *)
PlannedCode == SubSeq(plan.image.body, 1, plan.body_range.len)

Verifiable(blob) ==
  is_headered_image(blob) /\ blob.header.code_id
    /\ blob.header.code_area_hash = sha256(hashed(blob.header, blob.body))
    /\ blob.header.code_area_len # 0

GoodInput ==
  CASE input.kind = "elf" -> input.elf.boot_header # NoSection => input.header.code_id
    [] input.kind = "blob" -> is_headered_image(input.blob) => input.blob.header.code_id
    [] input.kind = "fwpkg" -> selected(input.bins) # NoBin => Verifiable(selected(input.bins).blob)

Checked ==
  IF ~Boots THEN "none"
  ELSE IF HeaderInFlash = OldImage.header THEN "old" ELSE "new"

(* One that jumps runs whatever comes after the header's place.            *)
BodyInFlash(body) ==
  \A c \in 1..Len(body) :
    LET a == boot_addr + IMAGE_HEADER_LEN + c - 1
    IN  a \in Addr /\ flash[a] = ByteCell(body[c])

Jumped ==
  IF pc = "planned" /\ BodyInFlash(plan.image.body) THEN "new"
  ELSE IF BodyInFlash(OldImage.body) THEN "old" ELSE "broken"

Runs == IF verifies THEN Checked ELSE Jumped

(* What the header says is of no matter to a flashboot that does not look. *)
Startable == verifies => GoodInput

Update == INSTANCE AppUpdate WITH runs <- Runs, finished <- phase = "done" /\ Startable

-----------------------------------------------------------------------------
(* The types of plan and device.                                           *)
FlashTypeOK ==
  /\ pc \in PlanErrors \cup {"detect", "build", "planned"}
  /\ pc = "planned" => /\ plan.image \in [header: Header, body: Seq(Byte)]
                       /\ plan.image_len = IMAGE_HEADER_LEN + Len(plan.image.body)
                       /\ plan.body_range.flash_addr \in 0..(U32 - 1)
  /\ phase \in {"idle", "erase", "program", "done", "refused"}
  /\ at \in 0..FlashEnd /\ losses \in 0..MaxLosses /\ verifies \in BOOLEAN
  /\ \A a \in Addr : flash[a].byte \in Byte \cup {Leftover, Garbage}

(* A finished update can be verified: a flashboot that does so finds the   *)
(* planned header at the app partition, and the bytes it hashes are the    *)
(* planned body, all of it, whatever was in flash before and however often *)
(* power failed.                                                           *)
FlashedImageBoots ==
  phase = "done" /\ GoodInput =>
    /\ Boots
    /\ CodeInFlash = PlannedCode

(* "Old bytes cannot survive": after an update the app partition, as large *)
(* as the image and the package say it is, holds the image and erased      *)
(* flash, and nothing of an app that was there before.                     *)
NoStaleByte ==
  phase = "done" =>
    \A c \in 0..(Len(plan.image.body) + IMAGE_HEADER_LEN - 1)
              \cup (IF source = NoBin THEN {} ELSE 0..(source.burn_size - 1)) :
      flash[boot_addr + c] =
        IF c \in DOMAIN Cells(plan.image) THEN Cells(plan.image)[c] ELSE ByteCell(Erased)

(* Nothing is ever programmed that is not erased: the erase range, which    *)
(* must not be shrunk, covers the write chunk.                             *)
ProgramsErasedFlash ==
  phase = "program" =>
    \A a \in at..(plan.write_chunk.addr + plan.write_chunk.len - 1) : flash[a] = ByteCell(Erased)

(* What is carried out is consistent: the verified body comes right after   *)
(* the header, inside the write chunk, and the chunk is inside the erase   *)
(* range.  A base address so high that the u32 addition wraps the body's   *)
(* address around never gets this far.                                     *)
ExecutedRangesNest ==
  phase \in {"erase", "program", "done"} =>
    /\ plan.body_range.flash_addr = plan.write_chunk.addr + IMAGE_HEADER_LEN
    /\ plan.body_range.flash_addr + plan.body_range.len
         <= plan.write_chunk.addr + plan.write_chunk.len
    /\ plan.erase_range.start <= plan.write_chunk.addr
    /\ plan.write_chunk.addr + plan.write_chunk.len
         <= plan.erase_range.start + plan.erase_range.len

(* A headered ELF planned for the address it is linked for has every byte  *)
(* of its body where its program headers put it.                           *)
HeaderedElfAtItsAddress ==
  phase = "done" /\ input.kind = "elf" /\ input.elf.boot_header # NoSection
    /\ boot_addr + IMAGE_HEADER_LEN = BODY_VADDR =>
      \A c \in 0..(Len(plan.image.body) - 1) :
        flash[BODY_VADDR + c].byte = LoadMap(input.elf, Kept(input.elf, "locate"), BODY_VADDR + c)

(* A package with one app among its normal partitions, no other partition  *)
(* having the requested name, is planned from that one, wherever it stands. *)
PackagedAppIsPlanned ==
  input.kind = "fwpkg" /\ pc \in {"build", "planned"} =>
    \A k \in DOMAIN input.bins :
      /\ input.bins[k].app_like /\ ~input.bins[k].loader
      /\ \A l \in DOMAIN input.bins \ {k} :
           input.bins[l].name # app_name /\ (input.bins[l].app_like => input.bins[l].loader)
      => source = input.bins[k]

(* A flashboot that verifies starts the old app, then none or the new one:  *)
(* no interrupted or repeated update lets it start a mixture or the old    *)
(* one again.  On a board that jumps unconditionally an interrupted update *)
(* runs what is there, erased or garbage; but on both the update never     *)
(* counts as finished without the whole new app in place.                  *)
KeepsTheUpdatePromise == Update!Spec

(* What is planned and fits gets to run, once power stays on.              *)
UpdateCompletes == (pc = "planned" /\ FitsFlash /\ Startable) ~> (Runs = "new")

(* "Every ELF image path places PT_LOAD payloads at their physical flash    *)
(* address."                                                               *)
ElfPayloadsAtPhysicalAddress ==
  phase = "done" /\ input.kind = "elf" /\ app_addr = NoAddr =>
    \A s \in Kept(input.elf, "flatten") :
      \A c \in 0..(input.elf.segments[s].filesz - 1) :
        LET a == input.elf.segments[s].paddr + c
        IN  a \in Addr /\ flash[a].byte = LoadMap(input.elf, Kept(input.elf, "flatten"), a)

(* "Header `code_area_len` value."                                         *)
PlanReportsTheHeader ==
  pc = "planned" => plan.code_area_len = plan.image.header.code_area_len
=============================================================================

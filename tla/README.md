# hisi-fwpkg in TLA+

A verification development of `hisi-fwpkg`: the library and command that turn an
application (an ELF, a raw binary, an image that already has a header, a
package) into what a HiSilicon WS63/BS2x board boots. All paths are relative to
the repository's root; `fwpkg.rs`, `plan.rs`, ... are in
`crates/hisi-fwpkg/src/`.

The crate is a small sequential program. What makes it hard is not threads but
agreement: several loops walk the same list and must come to the same offsets;
three functions read one header field and must mean the same bytes by it; and
the result is judged later and elsewhere, by a boot ROM that hashes flash which a
transport has erased and programmed, perhaps after two power failures. A test
compares one output with one expectation. The models here relate the parts.

## 1. Inventory

| Component | Code | State it keeps | Operations | Talks to |
|---|---|---|---|---|
| fwpkg builder | `fwpkg.rs` 471-589 | the output buffer, a running offset | `build_fwpkg` | its bytes go to a file, the parser reads them |
| fwpkg parser | `fwpkg.rs` 216-466 | header, descriptors, the file's bytes | `from_bytes`, `verify_crc`, `bin_data`, `find_by_name`, `normal_bins` | planning |
| ELF layout | `elf.rs`, `patch.rs` 66-157 | collected segments, the image | `flatten_elf`, `locate_elf` | object crate below, image construction above |
| App image | `image.rs`, `patch.rs` 161-228, `lib.rs` 118-209 | header fields, body | `build_image_header`, `patch_header`, `pad_image_to_code_area_len`, ... | planning, `patch-hash` |
| Flash planning | `plan.rs` | the plan | `plan_app_flash` | a flash transport carries it out |
| Chip presets, options | `lib.rs` 76-113 | none | `app_partition_addr`, `from_name` | planning |
| Packing | `lib.rs` 209-240 | none | `pack_app_fwpkg`, `input_to_app_image` | planning, then the builder |
| Command line | `crates/hisi-fwpkg-cli/src/main.rs` | files | `image`, `pack`, `patch-hash`, `plan` | one library call each |
| CRC | `fwpkg.rs` 510-525 | none | `crc16_xmodem` | builder, parser |
| Release workflow | `.github/workflows/publish.yml` | the registry | `pub()` and its retries | crates.io |
| Errors, tests | `error.rs`, `tests/vendor_parity.rs` | none | | |

Outside the crate, and known from what its comments say of them: the flash
transport (probe-rs, hisiflash, J-Link), NOR flash, and flashboot.

### Hard behaviours, and what correct means

* **Builder.** Three walks over the list (sum of lengths, descriptor table,
  payloads) are tied together by arithmetic alone, and the fields are narrower
  than `usize`. Correct: every descriptor locates its own payload, payloads and
  separators do not overlap, the declared length is the real one.
* **Parser.** Six refusals in sequence for two format versions, then accessors
  that slice without checking. Correct: it accepts exactly the well-formed files;
  no accessor leaves the file.
* **Builder and parser.** A file may arrive cut short or damaged, and a reader goes on
  with what `from_bytes` accepts, whatever `verify_crc` says of it. Correct: what the
  sum confirms is exactly what was written; what is accepted without its blessing is
  reported so, and is the package but for one partition, or its first ones.
* **ELF layout.** Segments in any order, with gaps and overlaps, by load address,
  in two copies of one loop. Correct: the image is what a loader leaves in flash,
  and no slice is out of range.
* **Image and plan.** `code_area_len` may be longer than the file (linker
  alignment), shorter than the body, or zero. Hash, file, erase range and write
  chunk must cover the same bytes, whatever the input was. Correct: flashboot
  accepts what was planned, and nothing of the old app survives in the partition.
* **Carrying out a plan.** Power fails at any point, the update is repeated.
  Correct: the repetition succeeds, and where flashboot checks the hash no mixture of
  two apps ever boots. Where it does not, only the finished update can be relied on.
* **Commands on files.** The output of one is the input of the next, only the
  magics say what a file is, and `fs::write` empties a file before it fills it.
  Correct: the app that went in comes out, under one header, at its address;
  doing it again changes nothing; nothing but the output is touched.
* **Release.** Two crates, one after the other, an index that lags, calls that fail
  after they have succeeded, two runs of the workflow at once. Correct: the command
  line never comes first, green means both are out, and a rerun finishes what
  a failed run began.

`PROJECT.json` lists each hazard at its line with the properties that cover it.

## 2. Modules

| Module | Models | Composes |
|---|---|---|
| `FwpkgBuild` | `build_fwpkg`, one loop iteration per step | |
| `FwpkgBuildProofs` | theorems | `FwpkgBuild` |
| `Crc16` | `crc16_xmodem` on a 16-bit register | |
| `FwpkgParse` | `from_bytes`, `verify_crc` | `Crc16` |
| `FwpkgParseProofs` | theorems | `FwpkgParse` |
| `FwpkgPromise` | abstract: a hand-over is refused, confirmed or doubtful | |
| `FwpkgRoundTrip` | builder, a medium that may cut or damage the file, parser | `FwpkgBuild`, `FwpkgParse`; implements `FwpkgPromise` |
| `FwpkgRoundTripProofs` | theorems | `FwpkgRoundTrip`, `FwpkgBuildProofs` |
| `ElfImage` | operators: segments, what is kept, the load map | |
| `ElfLayout` | `flatten_elf` and `locate_elf` | `ElfImage` |
| `ElfLayoutProofs` | theorems | `ElfLayout` |
| `AppImage` | operators: header, hash, tail, the layouts in closed form | `ElfImage` |
| `FlashPlan` | `plan_app_flash` | `AppImage` |
| `FlashPlanProofs` | lemmas on layouts, images and plans | `FlashPlan` |
| `AppUpdate` | abstract: what a board runs during an update, if it verifies and if it does not | |
| `Flashing` | plan, transport, power failures, flashboot of both kinds | `FlashPlan`; implements `AppUpdate` |
| `FlashingProofs` | theorems | `Flashing`, `FlashPlanProofs` |
| `Toolchain` | the commands on files: `image`, `pack`, `patch-hash`, `plan`; `pack_app_fwpkg`, `input_to_app_image` | `FlashPlan` |
| `ToolchainProofs` | theorems | `Toolchain`, `FlashPlanProofs` |
| `Release` | abstract: asked for, library, command line, reported | |
| `Publish` | the release workflow | implements `Release` |
| `PublishProofs` | theorems | `Publish` |
| `MC...` | small instances | |

### How state and actions correspond to the code

**`FwpkgBuild`.** `pc` is the statement `build_fwpkg` is at; `i` the loop
variable; `sums` what the `sum()` of line 547 has held so far (all its values are
kept, so that the proofs can name them); `start_index` the variable of line 564;
`outLen` is `out.len()`; `table` and `at` record what was written and where. The
two early returns of lines 532-543 are `RejectEmpty` and `RejectName`, the
`try_from` of line 557 is `RejectSize`. Casts (`as u16`, `as u32`) are remainders.
Payload bytes are abstracted to their number, and `crc` is the content the CRC
covers; `FwpkgRoundTrip` computes the sum of it.

**`Crc16`.** The register is the set of its bits that are one. `MCFwpkgRoundTrip`
assumes, and TLC evaluates, the vector of the repository's test ("123456789" gives
0x31C3). `Registers` keeps the register after every byte: it is a recursive function
of the position, so that the proofs can speak of each of its values.

**`FwpkgParse`.** A file is what its fields hold plus its size; a file cut short
keeps its fields but the parser may not look beyond the size. Each `Err` of lines
313-395 is an action whose guard contains the passing of all earlier checks, in
the code's order. The names of `Refusals` stand for the messages.
`read_name` is modelled by what it does (it ends at the first zero byte), as is
`From<u32>` (a code that has a name becomes the named variant).

**`FwpkgRoundTrip`.** `HandOver` gives the parser any prefix of the buffer, or the
whole of it with one byte of header or table changed; `Damaged` is the union of the
ways a byte may be wrong (`OtherMagic`, `OtherSum`, `OtherLength`, `SmallerCount`,
`OtherName`, `OtherField`). A changed field is another number whose four bytes differ in
exactly one (`OneByteApart`, `LE32`); a changed name field has one other character, in its
padding too. Two single bytes are left out, a count that grows and a magic that becomes
that of V2: with them the parser reads payload bytes as descriptors, and those have no
content here. Before the hand-over there is `NoFile`. The reader then asks `verify_crc`
(`VerifyCrc`), as `fwpkg_source_info` does (`plan.rs` 297-307), which puts the answer in
its report as `crc_valid` and goes on: a sum that does not match is no refusal. So
`Answer` is `refused` only by an `Err`, and else `confirmed` or `doubtful`; `Got` is what
the reader has either way. The sum is taken over the little-endian bytes of lines 555-573. A payload that `bin_data` returns is
identified with the partition whose exact range it is.

**`ElfImage`, `ElfLayout`.** A byte of an ELF is named by its file offset, so
"which byte is where" can be asked of every image. The two functions share their
shape; `mode` says which one runs and appears where they differ: the section search
(only `locate`), `paddr < BODY_VADDR` (only `locate`), the base. `sort_by_key`
is stable, so `Before` breaks ties by the order of the headers.
`LoadMap` is the reference: what a loader that erases and then writes the segments
in address order leaves behind.

**`AppImage`.** A blob is a header record and a body. A digest is the content that
was hashed, so equal digests mean equal contents. `layout` is the closed form of
the two loops; that the loops compute it is what `ElfLayout`'s `ImageIsLoadMap`
checks, and no later module repeats the loops.

**`FlashPlan`.** `intact` says whether the object crate or `from_bytes` would take a
file that has the magic; `chip` and `app_partition_addr` are the presets. One action
per path through `plan_app_flash` up to the image
(`HeaderedElf`, `BareElf`, `HeaderedBlob`, `RawBlob`, `FromPackage`, and the
failing ones), then `build_plan_from_image` with its errors, among them that of a
padded image whose length is no `u32` (`ImageTooLong`). The check of `body_end`
(`plan.rs` 212-217) and that of the length at 182-187 are left out:
`pad_image_to_code_area_len` has run before and has removed the one and reported
the other. `PlanFor` is the plan of an image, so that the proofs can speak of it.

**`Flashing`.** The transport follows `plan.rs` 122-127: it aligns the erase range
outward, erases sector by sector, then programs the chunk cell by cell.
Programming only works on erased flash, else it leaves `Garbage`. `PowerLoss` may
leave the sector that was being erased undefined, and the host then repeats the
plan. A cell is a byte or a piece of a header. A plan that does not fit the flash is
refused (`RefusePlan`): no transport could carry it out.

The repository contradicts itself about flashboot on a board with secure boot
disabled. Its README (100-117), `lib.rs` 19-27 and `image.rs` 16-24 say that it checks
nothing, "or even the body hash", and jumps unconditionally to what follows the header;
`patch.rs` 5-7, `lib.rs` 137-142, the command line's help (`main.rs` 73) and
`CHANGELOG.md` 70 say that it checks the hash even then. Flashboot is not in
the repository and neither is decided here: `verifies` says which of the two this board
is, and never changes. One that verifies hashes `code_area_len` contiguous bytes of flash
after the header (`Boots`, `Checked`) and starts the app or nothing; one that jumps
(`Jumped`) runs whatever is there, so that the old app, the new one and anything else
(`broken`) are told apart by their bodies (`BodyInFlash`).

**`Toolchain`.** `files` maps names to contents, which are inputs of `FlashPlan`. A
command reads its input (`Start`), plans (`PlanIt`) or patches, makes its output in
memory (`MakeImage`, `MakePackage`, `PatchElf`, `PatchBin`) or fails, and only then
opens it, which empties it (`Truncate`), and writes it (`Complete`). `Kill` stops it
anywhere; in the middle of writing it leaves the first bytes of the output (`Torn`).
A torn package or ELF still has its magic, a torn image is a shorter image, or a
raw body when not even the header is complete. `history` belongs to the properties:
what went into each file, as its owner sees it. `plan --image-output` writes the
file `image` writes. `input_to_app_image`, which no command calls, is an operator
that is compared with what planning makes of the same input.

**`Publish`.** A job is one run of the workflow; `Trigger` computes `DRY`, `Checks`
stands for the steps before, and from `call` on a job is in `pub()`: `crate` is its
argument, `tries` the failed calls. `Answer` is what cargo says, `Upload` and
`Uploaded` are the two ends of a call that works, so that the reply can be lost in
between. `lag` is how many pauses of 30 s the index still needs; time passes in `Tick`,
which ends the sleeps. The wait cargo itself makes for the index can only shorten
what the model lets the jobs wait, since any number of ticks fits into a call.

## 3. Runs

`tlc -config <cfg> <module>` in this directory. Deadlock is checked in all of
them; a call that has returned stutters explicitly.

| cfg (module) | Question | Result |
|---|---|---|
| `FwpkgBuild.cfg` (`MCFwpkgBuild`) | do the three walks agree, do the fields fit | holds |
| `FwpkgParse.cfg` (`MCFwpkgParse`) | is acceptance exactly well-formedness, are the accessors total | holds |
| `FwpkgRoundTrip.cfg` (`MCFwpkgRoundTrip`) | is what a reader accepts what was written, and else reported; refinement of `FwpkgPromise`; an answer | holds |
| `FwpkgRoundTripMany.cfg` (`MCFwpkgRoundTrip`) | does every package that is built parse | violated, finding 1 |
| `ElfLayout.cfg` (`MCElfLayout`) | are the images load maps, do the slices stay inside | holds |
| `ElfLayoutStraddle.cfg` (`MCElfLayout`) | is all flash content from `BODY_VADDR` on in the body | violated, finding 2 |
| `Flashing.cfg` (`MCFlashing`) | does flashboot accept what was planned, and what does a board of either kind run meanwhile, through power failures; refinement of `AppUpdate`; completion | holds |
| `FlashingBareElf.cfg` (`MCFlashing`) | is every ELF placed at its load addresses | violated, finding 3 |
| `FlashingPlanHeader.cfg` (`MCFlashing`) | is the plan's `code_area_len` the header's | violated, finding 4 |
| `Toolchain.cfg` (`MCToolchain`) | do chains of commands keep the app, its address, and the other files | holds |
| `ToolchainPatchedBin.cfg` (`MCToolchain`) | can what `patch-hash` makes of a bin be flashed as it is | violated, finding 5 |
| `Publish.cfg` (`MCPublish`) | is the release complete and in order; refinement of `Release`; completion | holds |

### Properties

* `DescriptorsLocatePayloads`, `PayloadsDisjoint`, `DeclaredLength`: relate the
  walks of `build_fwpkg`.
* `AcceptsTheFormat`: no refusal masks another, no loop ends early.
  `AccessorsAreTotal`: what `verify_crc` and `bin_data` slice exists.
* `KeepsThePromise`: the refinement of `FwpkgPromise`. However much of the file arrives,
  and whichever byte `Damaged` has changed, the reader is refused; or is confirmed, and
  has exactly the writer's partitions and payloads; or has a report that says `crc_valid`
  is false, and then all of them but one, or the first ones. `ReaderIsAnswered`: one of
  the three comes, whatever the file's count says. `RefusedOnlyIfCut`: the
  parser asks for no byte it does not need. `AcceptedVerifies`: builder and
  parser sum the same range. `DamageIsReported`: no damaged package that the parser
  accepts has `crc_valid` true.
* `ParsesCleanly` (`FwpkgRoundTripMany.cfg`): a package that arrives whole, with every byte as
  it was written, is opened.
* `CopiesStayInside`, `ImageIsLoadMap`: the unsigned subtraction and the slice of
  the copy loop; and its result.
* `FlashedImageBoots`, `NoStaleByte`, `ProgramsErasedFlash`: hash, tail, erase range
  and chunk fit together on a device; the first says what a flashboot that verifies
  finds there, whichever this board's does. `ExecutedRangesNest`: so do the plan's ranges,
  also at addresses whose sum with the header's length leaves the `u32`.
* `HeaderedElfAtItsAddress`: ELF offsets end up at their load addresses in flash.
* `PackagedAppIsPlanned`: the three searches find the app.
* `KeepsTheUpdatePromise`: the refinement of `AppUpdate`. A flashboot that verifies runs
  the old app, then nothing or the new one, never a mixture, and never the old one again.
  For one that jumps the promise is weaker, since in between it does run mixtures (TLC
  reaches them): once the update has finished, the new app runs, for good.
  `UpdateCompletes`: progress, on both.
* `KeepsTheApp`: no chain of commands wraps, moves or cuts the code.
  `PackagesPlaceTheirApp`: nor does it lose the last address it was given.
  `MadeImagesAreSelfContained`: every byte the hash covers is in the file.
  `SettledImagesStay`: a finished image is a fixed point of every command.
  `LibraryMakesTheSameImage`: two functions with one purpose agree.
  `OnlyTheOutputChanges`: failing and being killed leave everything else alone.
* `KeepsTheReleasePromise`, `RedForAReason`, `ReleaseCompletes`: the refinement of
  `Release`, six pauses are six pauses, and a rerun is the remedy.

One type invariant per module goes with them (`TypeOK`, `ParseTypeOK`,
`RTTypeOK`, `ElfTypeOK`, `FlashTypeOK`, `ToolTypeOK`, `PublishTypeOK`). Every property of a passing run has a
mutant: an operator of the module, marked "A bug to be caught", that replaces the
definition of its base name and violates the property.

### Bounds

* `FwpkgBuild`: 0-3 partitions with payloads of 0, 1 or 3 bytes. `U32 = 24` is
  small enough for three partitions to be too large, `U16 = 3` for the
  count to wrap. Four partitions would bring no new alignment of the walks; the
  theorems hold for every number.
* `FwpkgParse`: files of 0-14 bytes, every length, both versions and neither;
  0-3 descriptors with a maximum of 2; payloads inside, touching and across the
  end.
* `FwpkgRoundTrip`: 0-3 partitions, equal and empty ones included, names with a
  zero byte in them, cut at every length. Some packages are too large for
  `U32 = 25`. A damaged field becomes another member of `Stray`, 0 or 6, a damaged
  name field (`NAME_SIZE = 4`) any other one of the three characters at any of its four
  places. A damaged magic is no magic. The limit of
  the parser is out of reach here; `FwpkgRoundTripMany.cfg` sets it to 1, so that two
  partitions pass it.
* `ElfLayout`: 0-3 program headers around the body's address, of 0-2 bytes. Three
  are needed for an overlap and a gap at once; data runs past the end of the
  file by one byte.
* `Flashing`: headers of one cell, bodies of up to four, sectors of two, addresses
  unaligned with them (3 and 5) and aligned (4), and one outside the flash, 15, whose sum
  with the header's length is `U32`; `code_area_len` zero, shorter than
  the body, equal, longer, and so long that the padded image's length is no `u32`.
  Packages of up to two of seven partitions. Two power
  failures (`MaxLosses`): one to interrupt, one to interrupt the repetition; what
  the third finds in flash, the second has left before.
* `Toolchain`: two names, one file to begin with, of every kind; three commands
  (`MaxCommands`), enough to make an image, patch it and pack it, and to pack a package
  of a package; one kill (`MaxCrashes`), since nothing remembers it but the file it
  tore. The names are interchangeable (symmetry).
* `Publish`: two jobs; a lag of up to `MaxDelay = 8` pauses, two more than all the tries;
  two faults (`MaxFaults`), one for each job or for each crate of one.

### Fairness

`Publish` assumes weak fairness of each job's own steps (calls return, sleeps end)
and of time, but of no fault, and that somebody does rerun a failed run: the
workflow has no retry of its own beyond its tries, so `ReleaseCompletes` says that
rerunning is enough, not that it happens.

`FwpkgRoundTrip` and `Flashing` assume weak fairness of the working step as a
whole. The code justifies it: both are straight-line programs whose loops count,
a step is enabled until the end, and nothing else competes for it. In `Flashing` the
transport is assumed to go on, and to repeat its plan after a power failure, of
which there are finitely many; with infinitely many nothing could be promised.

## 4. Findings

1. `build_fwpkg` does not know `MAX_PARTITIONS`: it serialises lists which
   `from_bytes` answers with "invalid partition count" (and past 65535, a count
   that is wrong). Lines 530 and 5 of `fwpkg.rs` say that the output parses. TLC's trace
   has a limit of one, two partitions, and a file that arrives whole and undamaged.
2. `locate_elf` drops a segment that starts below `BODY_VADDR` and reaches past
   it, although `patch.rs` 68-69 defines the body by the addresses of its content. A
   linker script that puts header and code in one segment meets it.
3. For an ELF without `.boot_header` the base address is discarded (`lib.rs` 172);
   the content goes to the preset's address plus the header, also when the ELF is
   linked elsewhere. `CHANGELOG.md` 7-8 says that every path places payloads at their
   physical flash address.
4. A packaged image is planned with its own header. If that has `code_area_len = 0`,
   the plan says otherwise (`plan.rs` 231 and 118), and flashboot will not
   verify what the plan calls the verified body.
5. `patch-hash` of a bin whose `code_area_len` reaches past its end hashes the erased
   tail and does not write it. `main.rs` 71 says that it makes such a bin bootable,
   `lib.rs` 140-142 that every path must write the tail; `image` and `pack` do.

## 5. Proofs

### The builder

`tlapm FwpkgBuildProofs.tla` proves for every list of partitions, and all values
of the constants that satisfy `BuildAssumption` (sizes are naturals, the field widths
are positive, the inputs are sequences of partitions whose `u32` fields fit):

* `BuildTypeOK`: `Spec => []TypeOK`
* `BuildLocatesPayloads`: `Spec => []DescriptorsLocatePayloads`
* `BuildDeclaredLength`: `Spec => []DeclaredLength`
* `BuildPayloadsDisjoint`: `Spec => []PayloadsDisjoint`

None of them is inductive. The inductive invariant `IInv` rests on a closed form:
`Pos(k)`, head length plus the running sum of the payloads before `k` plus a
separator for each. It says that `sums` holds the running sums, which never
decrease (`SumsInv`); how far each walk has come at each control point (`Progress`);
and that every length and offset in state is a value of `Pos` (`Layout`): the
second walk's `start_index` is `Pos(i)` and so, in the third walk, is `outLen`. From
`TotalLen < U32`, checked once, and the monotony of the sums follows that no single
offset or length is cut by its cast (`Fits`). There is one lemma per group of
actions, and one step per conjunct an action disturbs. `sums` is in the model for
this: a sum over a list would need induction over data, while the loop that
computes it only needs its own steps.

### The parser

`tlapm FwpkgParseProofs.tla` proves, for files with any number of descriptors and
all values of the constants that satisfy `ParseAssumption` (sizes are naturals, the V2
header has room for its name) and `FilesAssumption` (fields are naturals, and there
is a descriptor at each place the count speaks of, in the file or cut off):

* `ParseTypes`: `Spec => []ParseTypeOK`
* `ParseAcceptsTheFormat`: `Spec => []AcceptsTheFormat`
* `ParseAccessorsAreTotal`: `Spec => []AccessorsAreTotal`

`IInv` is how far the two loops have come (`Progress`), that the parsed descriptors
are the table's up to there (`Faithful`), and which checks have passed (`Checked`): the
header's once the table is being read, the bounds of those before `j` in the last
loop. `InBounds` of a parsed descriptor is that of the raw one, because
`read_name` and `From<u32>` leave the offset and the length alone (`BoundsAsRead`).
An early refusal is right because a well-formed file reaches past the header,
whatever its version (`TableIsBehind`). `ParseTypes` also needs `read_name` to return a
name: the first zero byte exists because the naturals are well founded
(`LeastNatural`).

### Builder, medium and parser

`tlapm FwpkgRoundTripProofs.tla` proves, for every list of partitions, every cut and
every damaged byte, under the builder's assumption and `HandOverAssumption` (damaged
fields and type codes are `u32` values; characters are bytes, different ones different
bytes, and NUL is zero; the separator is not empty, as in the code, where it has 16
bytes; the parser's limit is a natural):

* `RoundTripTypes`: `RTSpec => []RTTypeOK`
* `RoundTripRefusedOnlyIfCut`: `RTSpec => []RefusedOnlyIfCut`, if `CountsParse`
* `RoundTripAcceptedVerifies`: `RTSpec => []AcceptedVerifies`, if `CountsFit`
* `RoundTripDamageIsReported`: `RTSpec => [](CountIsRight => DamageIsReported)`, if
  `CountsFit`
* `RoundTripKeepsThePromise`: `RTSpec /\ []CountIsRight => KeepsThePromise`, if
  `CountsFit`

`CountsParse` says that no list is longer than `MAX_PARTITIONS`, `CountsFit` that none
is longer than a `u16` counts. The code checks neither: what happens without them is
finding 1. `CountIsRight` leaves one kind of damage out, that of the count itself: a
smaller count also shortens the range that is summed, and whether two sums over
different ranges agree is chance, so nothing can hold for every package. TLC confirms
both on the instance for damaged counts too.

`HandOverInv` says what the two processes know of each other: the builder's `IInv`;
that the table holds the writer's words (`Described`); that what is read is an
arrival, the package cut or damaged (`Handed`); how far the parser is and what it
has found in bounds (`Reading`); and that the verdict is `verify_crc`'s (`Verified`).
TLC has checked it with the constants of `FwpkgRoundTrip.cfg` and up to two
partitions. A descriptor nobody changed is then read
back whole, whatever happened to the rest of the file: each bin is a descriptor, each
descriptor names its payload (`TableLocates`), and since separators keep payloads apart,
no other payload begins there (`IntactPayload`, `IntactRow`). What arrives differs from
what was sent in one row at most (`ArrivalRows`), so a reader that goes on has all rows
but that one (`WhatIsReadWasWritten`), and all of them if nobody changed any
(`UndamagedIsRead`). That the sum confirms nothing else is the next argument.

That a damaged package is noticed rests on what `crc16_xmodem` keeps, not on what it
computes. A step of the bit loop loses nothing: bit 0 of its result says whether the
polynomial was added, the rest says what was there before (`StepLosesNothing`), hence
neither do eight of them (`LoopLosesNothing`), nor the exclusive or with a byte, which
is itself known by its bits (`BitsTellBytesApart`). So the registers over two byte
strings that differ in one place are the same up to there, different after it, and
never the same again (`OneWrongByte`). Every kind of damage is one wrong byte of one
piece of one descriptor, or of the length, and so of the whole range
(`OnePieceApart`, `OneRowApart`, `LengthApart`); a wrong sum is wrong by itself
(`FlipsFlip`). `Registers` and `FlattenSeq` are recursive functions: that they have the
values their definitions speak of is proved with the least natural for which they would
not (`Chain`, `UpTo`). `ConfirmedIsUndamaged` then gives `DamageIsReported`, and the
half of `KeepsThePromise` that is about confirmed packages.

### The ELF layout

`tlapm ElfLayoutProofs.tla` proves, for every list of program headers, under
`ElfAssumption` and `ElfsAssumption` (addresses are naturals, `Erased` is no byte):

* `LayoutTypes`: `Spec => []ElfTypeOK`
* `LayoutCopiesStayInside`: `Spec => []CopiesStayInside`
* `LayoutImageIsLoadMap`: `Spec => []ImageIsLoadMap`

`IInv` follows the three phases: the first loop has collected what is kept so far
(`Collected`); the sort keeps the set, orders it by `Before`, a strict order
(`BeforeIsStrict`), and base and size enclose every segment (`Sorted`); the image is the
load map of the segments before `k` (`LaidOut`). The step of the copy is one fact about
the load map: one more segment, later in the order than all before, wins exactly
on its own bytes (`LoadMapOfOneMore`).

### Planning and flashing

`FlashPlanProofs` holds the lemmas that the next two proofs share: the layout of an ELF
is a body of bytes, a built or patched header verifies, padding fills in exactly
what the hash covers (`HashedIsPadded`), the searches return a partition of the
package, and `PlanInv`: what the image is when planning has come so far. `PlanAssumption`
says that the inputs are typed and that the markers for "none" are no values.

`tlapm FlashingProofs.tla` proves, for every input, sector size, size of flash and number
of power failures:

* `FlashingTypes`, `FlashingProgramsErasedFlash`, `FlashingRangesNest`,
  `FlashingNoStaleByte`, `FlashingBoots`, `FlashingElfAtItsAddress`,
  `FlashingPlansTheApp`: each invariant of the run
* `FlashingKeepsThePromise`: `Spec => KeepsTheUpdatePromise`

Assumptions: flash ends below `2^32` (`FlashAssumption`; it is memory-mapped in the 32-bit
address space); an old app that verifies fits where the board may boot from
(`OldAppAssumption`; else there is nothing to be replaced); and no input contains the old
app's header (`NewAppAssumption`; an update to the same header could not be told from
the old app by looking at flash).

`IInv` is `PlanInv`, the arguments (`Asked`, `Placed`), that only plans that fit are
carried out (`Carried`), and two facts about flash: while erasing, the sectors before
`at` are erased (`Erasing`), from then on the sectors hold the image up to `at` and erased
bytes everywhere else (`Programming`). A power failure goes back to the start of the
erase range and so to `Erasing` with nothing to show. `FlashedImageBoots` then has two
halves, that flash holds the planned image (`FinishedFlash`) and that a planned
image verifies (`PlannedImageVerifies`). For the refinement, `RunsFollow` shows from
`IInv` that the old app cannot run from the first erased sector on, whatever is
programmed over it, and that the new one runs when the last cell is written. That is
for a flashboot that verifies. For one that jumps, nothing needs to be shown of the way,
and of the end that the whole body is in flash after the header's place
(`WholeBodyIsThere`), which does not ask what the header says; `FinishedIsRun` is the
end for both, and `SameBoard` that a board stays what it is.

### The commands on files

`tlapm ToolchainProofs.tla` proves, for any number of files, commands and kills:

* `ToolTypes`, `ToolKeepsTheApp`, `ToolPlacesTheApp`, `ToolChangesTheOutput`,
  `ToolImagesAreSelfContained`, `ToolSettledImagesStay`, `ToolLibraryAgrees`: each
  invariant of the run

`ToolAssumption` says of the files one begins with that a header is recognised by its
magic, and that a package has one app which `--name` finds, not larger than its erase
range, with the hash of what its header says (`GoodPackage`). `IInv` says that every file
is again such a file (`Sound`) and is what its history says (`FilesInv`), that a running
command still has the input it read (`CommandInv`), that what it is about to write
is one of the four things it can make of it (`OutputInv`), and that other files
are as before (`BeforeInv`). The step that matters is `Complete`: what a command makes
keeps the code up to erased bytes at its end (`MadeFileKeeps`), because a tail that
padding adds is erased (`TrimIgnoresTheTail`). So the bound of three commands in the run
is no bound of the result.

### The release

`tlapm PublishProofs.tla` proves, for any jobs, tries, faults and lags of the index
(`PublishAssumption`: `Tries` is positive, the bounds are naturals):

* `PublishTypes`: `Spec => []PublishTypeOK`
* `PublishRedForAReason`: `Spec => []RedForAReason`
* `PublishKeepsThePromise`: `Spec => KeepsTheReleasePromise`

`IInv` is the types; what a job at each point has already done (`Stage`, `Backed`); that
the library is uploaded first, and only on demand (`Chain`); and
`Waited`, which `RedForAReason` needs: a job no fault has met fails a try only because
the index lags, and pauses after it, so the lag was longer than its tries and has
been counted down by at least as many, whichever job uploaded. The
refinement maps the jobs to `Asked` and `Reported`; every step is an upload, a report
or a request of `Release`, or leaves its three variables alone, by one lemma for each
group of actions.

### Only model-checked

* `DamageIsReported` and `KeepsThePromise` when it is the count that is damaged (see above).
* Liveness (`ReaderIsAnswered`, `UpdateCompletes`, `ReleaseCompletes`) and anything with
  ENABLED.

Induction over data is out of the prover's reach in general, since the theorems that
state it take an operator. Four ways around it are used: the loops of the code
are steps, so their invariants are induction over time; what a recursive function would
compute is a variable (`sums`) or is defined by its result (`LoadMap`, `Trim`); and
where a first or a last element must exist, the naturals are well founded as a set
of pairs (`LeastNatural`); and what holds along a recursive function is a set of
positions that goes on from each to the next (`UpTo`). No module declares a recursive operator.

## 6. Not modelled, and why

* SHA-256 as an algorithm: a digest is its content, two contents never collide.
* The signature, version, key and option fields of the header: written once, read by
  nothing in the repository.
* ELF parsing: the object crate's. Byte order and alignment of fields.
* Bodies and sections over 4 GiB, whose lengths `build_image_header` casts (a padded
  image that is too long is modelled: `ImageTooLong`); `usize` of 32 bits; the build without the `elf`
  feature.
* A `.boot_header` that is also part of a segment of the body, where patching would
  change what was hashed: see the hazards.
* A damaged package whose partition count grew, or whose magic became that of V2: the
  end of its table would be payload bytes, which have no content here. The CRC covers
  the count like any other byte of the range, but not the magic.
* Damage in a payload: the CRC is that of header and table (`fwpkg.rs` 25-26), so nothing in
  the format could notice it.
* What the commands print, among it the address `pack` reports, which is not the
  packed one when the input is a package (`main.rs` 162); the JSON of `plan`.
* `Chip::from_name`, `patched_hash`, `loaderboot`: lookups that change nothing.
* Which source a published crate was built from: "already uploaded" counts as success
  for any.
* `error.rs`, `vendor_parity.rs`: messages; byte comparison with vendor files.

## 7. Plan

Done, in this order: `FwpkgBuild` and its proofs; `FwpkgParse`; the round trip with
its abstract specification; `ElfLayout`; `FlashPlan`; `Flashing` with `AppUpdate`;
`Crc16` and damage in the round trip; `Toolchain`; `Publish` with `Release`; the proofs of
`Publish` and `FwpkgParse`. Then the proofs of `ElfLayout`, `FlashPlan`, `Flashing`,
`Toolchain` and of the round trip, what `crc16_xmodem` keeps, and last what a reader has
that goes on without a valid sum, and the boards that jump. Every safety property of every passing run is now
stated by a theorem, with no hypothesis but those named in section 5.

Next: payload bytes with a content, for the two kinds of damage that make descriptors of
them; the source a crate was published from, if the workflow ever compares it.

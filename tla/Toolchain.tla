----------------------------- MODULE Toolchain -----------------------------
(***************************************************************************)
(* The command line on files: each command reads one, makes an image, a    *)
(* package or a patched copy of it, and writes one, perhaps the same; the  *)
(* next command may take any of them.  A command may be killed, also       *)
(* between the truncation that opens the output and the end of its writing. *)
(* `plan --image-output` writes what `image` writes; both are "image" here. *)
(***************************************************************************)
EXTENDS FlashPlan

CONSTANTS
  Names, NoFile,
  AppLikeNames,  \* names that contain "app"
  LongNames,     \* names that build_fwpkg refuses
  MaxCommands, MaxCrashes   \* bounds

VARIABLES
  files,     \* name -> content (an element of Inputs, or made of one), or NoFile
  phase,     \* "idle", "work", "write", "done", "failed" or "killed"
  cmd,       \* [op, in, out, was], was being the history of the input
  output,    \* what it is going to write, or NoFile
  before,    \* the files when it started
  history,   \* name -> what went into the file: see History
  commands, crashes

fileVars == <<files, phase, cmd, output, before, history, commands, crashes>>

all == <<planVars, fileVars>>

Ops == {"image", "pack", "patch-hash"}

DefaultChip == "Ws63"

RawFile(body) == [kind |-> "blob", blob |-> [header |-> NoHeader, body |-> body]]

ImageFile(blob) == [kind |-> "blob", blob |-> blob]

(* What the first bytes of a file leave: less than a header is a raw body,  *)
(* more is an image with a shorter body; an ELF or a package is refused.    *)
Torn(file) ==
  {RawFile([c \in 1..n |-> HeaderByte]) : n \in 0..(IMAGE_HEADER_LEN - 1)}
  \cup (IF file.kind = "blob"
        THEN {[file EXCEPT !.blob.body = SubSeq(@, 1, n)] : n \in 0..(Len(file.blob.body) - 1)}
        ELSE {[file EXCEPT !.intact = FALSE]})

-----------------------------------------------------------------------------
(* The app a file holds, as its owner sees it: its code, up to erased bytes *)
(* at the end, and where a package says it goes.                           *)
Trim(code) ==
  SubSeq(code, 1, CHOOSE n \in 0..Len(code) :
                    /\ n > 0 => code[n] # Erased
                    /\ \A c \in (n + 1)..Len(code) : code[c] = Erased)

app_bin(bins) ==
  IF app_like_bin(bins) # NoBin THEN app_like_bin(bins) ELSE FirstBin(bins, normal_bins(bins))

CodeOf(file) ==
  CASE file.kind = "blob" -> file.blob.body
    [] file.kind = "fwpkg" -> app_bin(file.bins).blob.body
    [] file.kind = "elf" ->
         LET mode == IF file.elf.boot_header = NoSection THEN "flatten" ELSE "locate"
         IN  IF LayoutFails(file.elf, mode) THEN << >> ELSE layout(file.elf, mode)

AddrOf(file) == IF file.kind = "fwpkg" THEN app_bin(file.bins).burn_addr ELSE NoAddr

(* whole: no file on the way was torn.                                     *)
History(file) == [whole |-> TRUE, code |-> Trim(CodeOf(file)), addr |-> AddrOf(file)]

NoHistory == [whole |-> FALSE, code |-> << >>, addr |-> NoAddr]

-----------------------------------------------------------------------------
(* What a file may hold: outside an ELF, a header is one by its magic.      *)
HasMagic(blob) == blob.header # NoHeader => blob.header.key_id

Contents ==
  {file \in Input :
     /\ file.kind = "blob" => HasMagic(file.blob)
     /\ file.kind = "fwpkg" =>
          \A k \in DOMAIN file.bins :
            HasMagic(file.bins[k].blob) /\ file.bins[k].name \notin LongNames}

(* A package has one app, that --name finds unless it finds no image at all, *)
(* that is not larger than what is erased for it, and that carries the hash *)
(* of what its header says.                                                *)
GoodPackage(bins) ==
  LET app == app_bin(bins)
  IN  /\ app # NoBin /\ ImageLen(app.blob) <= app.burn_size
      /\ \A name \in AppNames :
           LET found == find_by_name(bins, name)
           IN  found = NoBin \/ found = app \/ ~is_headered_image(found.blob)
      /\ is_headered_image(app.blob) =>
           /\ app.blob.header.code_area_hash = sha256(hashed(app.blob.header, app.blob.body))
           /\ app.blob.header.code_area_len = 0 => app.blob.body = << >>

ASSUME ToolAssumption ==
  /\ DefaultChip \in Chips /\ AppNames \subseteq STRING /\ "app" \in AppNames
  /\ NoFile \notin Input /\ Inputs \subseteq Contents
  /\ \A file \in Inputs : file.kind = "fwpkg" => GoodPackage(file.bins)

-----------------------------------------------------------------------------
NoCmd == [op |-> "none", in |-> "none", out |-> "none", was |-> NoHistory]

Arguments(in, c, addr, name) ==
  /\ input' = in /\ chip' = c /\ app_addr' = addr /\ app_name' = name
  /\ pc' = "detect" /\ image' = << >> /\ source' = NoBin /\ plan' = NoPlan

NoInput == RawFile(<< >>)

Init ==
  /\ \E first \in Names, file \in Inputs :
       /\ files = [n \in Names |-> IF n = first THEN file ELSE NoFile]
       /\ history = [n \in Names |-> IF n = first THEN History(file) ELSE NoHistory]
  /\ input = NoInput /\ chip = DefaultChip /\ app_addr = NoAddr /\ app_name = "app"
  /\ pc = "detect" /\ image = << >> /\ source = NoBin /\ plan = NoPlan
  /\ phase = "idle" /\ cmd = NoCmd /\ output = NoFile /\ before = files
  /\ commands = 0 /\ crashes = 0

(* The arguments: only pack has --name, patch-hash has no chip or address.  *)
Start(op, in, out) ==
  /\ phase = "idle" /\ commands < MaxCommands /\ files[in] # NoFile
  /\ \E c \in Chips, addr \in AppAddrs, name \in AppNames :
       /\ op # "pack" => name = "app"
       /\ op = "patch-hash" => c = DefaultChip /\ addr = NoAddr
       /\ Arguments(files[in], c, addr, name)
  /\ cmd' = [op |-> op, in |-> in, out |-> out, was |-> history[in]]
  /\ phase' = "work" /\ before' = files /\ commands' = commands + 1
  /\ UNCHANGED <<files, output, history, crashes>>

Working == phase = "work" /\ output = NoFile

PlanIt == Working /\ cmd.op # "patch-hash" /\ PlanStep /\ UNCHANGED fileVars

Fail ==
  /\ phase' = "failed"
  /\ UNCHANGED <<planVars, files, cmd, output, before, history, commands, crashes>>

Produce(file) ==
  /\ output' = file
  /\ UNCHANGED <<planVars, files, phase, cmd, before, history, commands, crashes>>

PlanFailed == Working /\ pc \in PlanErrors /\ Fail

MakeImage == Working /\ cmd.op = "image" /\ pc = "planned" /\ Produce(ImageFile(plan.image))

(* Partition::new takes the length of the data for burn_size.              *)
Packed ==
  [name |-> app_name, app_like |-> app_name \in AppLikeNames, loader |-> FALSE,
   burn_addr |-> plan.base_addr, burn_size |-> ImageLen(plan.image), blob |-> plan.image]

(* A bug to be caught: names of any length are written.                    *)
MakePackage_AnyName ==
  /\ Working /\ cmd.op = "pack" /\ pc = "planned"
  /\ Produce([kind |-> "fwpkg", bins |-> <<Packed>>, intact |-> TRUE])

MakePackage ==
  /\ Working /\ cmd.op = "pack" /\ pc = "planned" /\ app_name \notin LongNames
  /\ Produce([kind |-> "fwpkg", bins |-> <<Packed>>, intact |-> TRUE])

NameTooLong ==
  Working /\ cmd.op = "pack" /\ pc = "planned" /\ app_name \in LongNames /\ Fail

Located ==
  /\ IntactElf /\ input.elf.boot_header # NoSection
  /\ ~LayoutFails(input.elf, "locate")

(* patch_hash_elf writes into a copy of the ELF, patch_hash_bin into a copy *)
(* of the image: neither adds a byte.                                      *)
PatchElf ==
  /\ Working /\ cmd.op = "patch-hash" /\ Located
  /\ Produce([input EXCEPT !.header = patch_header(@, layout(input.elf, "locate"))])

PatchBin ==
  /\ Working /\ cmd.op = "patch-hash" /\ input.kind = "blob" /\ is_headered_image(input.blob)
  /\ Produce([input EXCEPT !.blob.header = patch_header(@, input.blob.body)])

PatchFails ==
  /\ Working /\ cmd.op = "patch-hash"
  /\ ~Located /\ ~(input.kind = "blob" /\ is_headered_image(input.blob))
  /\ Fail

(* A bug to be caught: the output is opened before there is anything to    *)
(* write.                                                                  *)
Truncate_Early ==
  /\ phase = "work"
  /\ files' = [files EXCEPT ![cmd.out] = RawFile(<< >>)]
  /\ history' = [history EXCEPT ![cmd.out] = NoHistory]
  /\ phase' = IF output = NoFile THEN "work" ELSE "write"
  /\ UNCHANGED <<planVars, cmd, output, before, commands, crashes>>

(* fs::write opens the output, which empties it, and then writes.          *)
Truncate ==
  /\ phase = "work" /\ output # NoFile
  /\ files' = [files EXCEPT ![cmd.out] = RawFile(<< >>)]
  /\ history' = [history EXCEPT ![cmd.out] = NoHistory]
  /\ phase' = "write"
  /\ UNCHANGED <<planVars, cmd, output, before, commands, crashes>>

Addressed ==
  IF cmd.op # "pack" THEN NoAddr
  ELSE IF app_addr # NoAddr THEN app_addr
  ELSE IF cmd.was.addr # NoAddr THEN cmd.was.addr ELSE app_partition_addr[chip]

Complete ==
  /\ phase = "write"
  /\ files' = [files EXCEPT ![cmd.out] = output]
  /\ history' = [history EXCEPT ![cmd.out] = [cmd.was EXCEPT !.addr = Addressed]]
  /\ phase' = "done"
  /\ UNCHANGED <<planVars, cmd, output, before, commands, crashes>>

(* The process is killed, or the disk is full.                             *)
Kill ==
  /\ phase \in {"work", "write"} /\ crashes < MaxCrashes
  /\ IF phase = "work" THEN UNCHANGED files
     ELSE \E torn \in Torn(output) : files' = [files EXCEPT ![cmd.out] = torn]
  /\ phase' = "killed" /\ crashes' = crashes + 1
  /\ UNCHANGED <<planVars, cmd, output, before, history, commands>>

Return ==
  /\ phase \in {"done", "failed", "killed"}
  /\ Arguments(NoInput, DefaultChip, NoAddr, "app")
  /\ phase' = "idle" /\ cmd' = NoCmd /\ output' = NoFile /\ before' = files
  /\ UNCHANGED <<files, history, commands, crashes>>

OutOfCommands == phase = "idle" /\ commands = MaxCommands /\ UNCHANGED all

Next ==
  \/ \E op \in Ops, in, out \in Names : Start(op, in, out)
  \/ PlanIt \/ PlanFailed \/ MakeImage \/ MakePackage \/ NameTooLong
  \/ PatchElf \/ PatchBin \/ PatchFails
  \/ Truncate \/ Complete \/ Kill \/ Return \/ OutOfCommands

Spec == Init /\ [][Next]_all

-----------------------------------------------------------------------------
(* input_to_app_image, the library's other way from a file to an image, for *)
(* the kinds of input it knows.  It asks for both magics.                  *)
is_headered_app_image(blob) == is_headered_image(blob) /\ blob.header.code_id

(* A bug to be caught: the image's erased tail is not written here.        *)
input_to_app_image_Unpadded(in) ==
  IF in.kind = "elf" THEN
    IF in.elf.boot_header = NoSection THEN build_app_image(layout(in.elf, "flatten"))
    ELSE LET body == layout(in.elf, "locate")
         IN  [header |-> patch_header(in.header, body), body |-> body]
  ELSE IF is_headered_app_image(in.blob)
    THEN [in.blob EXCEPT !.header = patch_header(@, in.blob.body)]
    ELSE build_app_image(bytes(in.blob))

input_to_app_image(in) ==
  IF in.kind = "elf" THEN
    IF in.elf.boot_header = NoSection THEN build_app_image(layout(in.elf, "flatten"))
    ELSE LET body == layout(in.elf, "locate")
         IN  pad_image_to_code_area_len([header |-> patch_header(in.header, body), body |-> body])
  ELSE IF is_headered_app_image(in.blob)
    THEN pad_image_to_code_area_len([in.blob EXCEPT !.header = patch_header(@, in.blob.body)])
    ELSE build_app_image(bytes(in.blob))

-----------------------------------------------------------------------------
(* The types of the files and of the command's state.                      *)
ToolTypeOK ==
  /\ \A n \in Names : files[n] # NoFile => files[n] \in Contents
  /\ output # NoFile => output \in Contents
  /\ phase \in {"idle", "work", "write", "done", "failed", "killed"}
  /\ phase \in {"write", "done"} => output # NoFile
  /\ phase \in {"failed", "idle"} => output = NoFile
  /\ \A n \in Names : history[n].whole => files[n] # NoFile

(* However commands are chained, the app that went in is the app that comes *)
(* out: a file nothing on whose way was torn holds its origin's code, not  *)
(* wrapped in a second header, not moved, not cut.                         *)
KeepsTheApp ==
  \A n \in Names : history[n].whole => Trim(CodeOf(files[n])) = history[n].code

(* A package says where its app goes: where the last --app-addr on its way *)
(* said, or else the package it was made of, or else the chip; and what it *)
(* has erased there is at least what it writes there.                      *)
PackagesPlaceTheirApp ==
  \A n \in Names :
    history[n].whole /\ files[n].kind = "fwpkg" =>
      /\ app_bin(files[n].bins).burn_addr = history[n].addr
      /\ app_bin(files[n].bins).burn_size >= ImageLen(app_bin(files[n].bins).blob)

SelfContained(blob) ==
  /\ is_headered_image(blob)
  /\ blob.header.code_area_len \in 1..Len(blob.body)
  /\ blob.header.code_area_hash = sha256(SubSeq(blob.body, 1, blob.header.code_area_len))

Result == IF cmd.op = "pack" THEN output.bins[1].blob ELSE output.blob

(* "Every image-producing path must write the missing tail": what image and *)
(* pack write can be flashed as it is, every byte that the hash covers     *)
(* being in the file, whatever the input was.                              *)
MadeImagesAreSelfContained ==
  phase = "done" /\ cmd.op \in {"image", "pack"} /\ Result.body # << >> => SelfContained(Result)

(* Doing it again changes nothing: a self-contained image comes out of      *)
(* every command as it went in.                                            *)
SettledImagesStay ==
  phase = "done" /\ input.kind = "blob" /\ SelfContained(input.blob) => Result = input.blob

(* The library's two ways from a file to an image agree on every input that *)
(* has both magics or none.                                                *)
LibraryMakesTheSameImage ==
  pc = "planned" /\ input.kind # "fwpkg"
    /\ (input.kind = "blob" /\ input.blob.header # NoHeader => input.blob.header.code_id) =>
      plan.image = input_to_app_image(input)

(* Until there is something to write no file is touched, and then only the *)
(* output: a command that fails has changed nothing, and one that is killed *)
(* leaves its input for another try, unless it was told to overwrite it.   *)
OnlyTheOutputChanges ==
  \A n \in Names :
    phase \in {"work", "failed"} \/ n # cmd.out => files[n] = before[n]

(* "Makes a raw headered bin bootable": what patch-hash returns for one can *)
(* be flashed as it is.                                                    *)
PatchedBinsAreSelfContained ==
  phase = "done" /\ cmd.op = "patch-hash" /\ output.kind = "blob" /\ output.blob.body # << >> =>
    SelfContained(output.blob)
=============================================================================

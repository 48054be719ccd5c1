----------------------------- MODULE FlashPlan -----------------------------
(***************************************************************************)
(* plan_app_flash: from an input of any kind to the plan a flash transport *)
(* executes.  Detection decides which function makes the image; the image  *)
(* then passes build_plan_from_image.  Packages are taken as from_bytes    *)
(* delivers them (see FwpkgParse), each partition holding a blob.          *)
(***************************************************************************)
EXTENDS AppImage

CONSTANTS
  Inputs,          \* the inputs there are
  Chips,
  app_partition_addr,  \* of each chip
  AppAddrs,        \* --app-addr: an address, or NoAddr
  AppNames,        \* --name, "app" when it is not given
  NoAddr,
  NoBin,           \* find() = None
  U32

(* app_like: the name contains "app", or the type is AppsA, App or AppSign. *)
PackageBin == [name: STRING, app_like: BOOLEAN, loader: BOOLEAN,
        burn_addr: 0..(U32 - 1), burn_size: 0..(U32 - 1), blob: Blob]

(* An ELF's header is what .boot_header holds, in no segment that is laid   *)
(* out.  A file that is not intact still starts with the magic of its kind, *)
(* but the object crate or from_bytes refuses it.                          *)
Input == [kind: {"elf"}, elf: Elf, header: Header, intact: BOOLEAN]
           \cup [kind: {"blob"}, blob: Blob]
           \cup [kind: {"fwpkg"}, bins: Seq(PackageBin), intact: BOOLEAN]

ASSUME PlanAssumption ==
  /\ U32 \in Nat \ {0} /\ IMAGE_HEADER_LEN > 0
  /\ Inputs \subseteq Input
  /\ app_partition_addr \in [Chips -> 0..(U32 - 1)]
  /\ AppAddrs \subseteq 0..(U32 - 1) \cup {NoAddr}
  /\ NoAddr \notin Nat /\ NoBin \notin PackageBin /\ NoHeader \notin Header

VARIABLES
  input, chip, app_addr, app_name,   \* the arguments
  pc,                 \* "detect", "build", "planned" or the reason of the Err
  image,              \* the image under construction
  source,             \* the partition it came from, or NoBin
  plan

args == <<input, chip, app_addr, app_name>>

planVars == <<args, pc, image, source, plan>>

PlanErrors == {"elf", "package", "package has no app", "image too short", "image without header",
               "image too long"}

NoPlan == << >>

PlanInit ==
  /\ input \in Inputs /\ chip \in Chips /\ app_addr \in AppAddrs /\ app_name \in AppNames
  /\ pc = "detect" /\ image = << >> /\ source = NoBin /\ plan = NoPlan

Detected(blob, from) ==
  /\ pc' = "build" /\ image' = blob /\ source' = from
  /\ UNCHANGED <<args, plan>>

PlanError(reason) == pc' = reason /\ UNCHANGED <<args, image, source, plan>>

IntactElf == input.kind = "elf" /\ input.intact

(* A bug to be caught: all segments are laid out, not only the body's.     *)
HeaderedElf_Flattened ==
  /\ pc = "detect" /\ IntactElf /\ input.elf.boot_header # NoSection
  /\ ~LayoutFails(input.elf, "locate")
  /\ LET body == layout(input.elf, "flatten")
     IN  Detected(pad_image_to_code_area_len(
                    [header |-> patch_header(input.header, body), body |-> body]), NoBin)

(* headered_elf_to_app_image: patch the header by the located body, then    *)
(* put the two together.                                                   *)
HeaderedElf ==
  /\ pc = "detect" /\ IntactElf /\ input.elf.boot_header # NoSection
  /\ ~LayoutFails(input.elf, "locate")
  /\ LET body == layout(input.elf, "locate")
     IN  Detected(pad_image_to_code_area_len(
                    [header |-> patch_header(input.header, body), body |-> body]), NoBin)

(* Only the missing section makes plan_app_flash wrap the flattened ELF.   *)
BareElf ==
  /\ pc = "detect" /\ IntactElf /\ input.elf.boot_header = NoSection
  /\ ~LayoutFails(input.elf, "flatten")
  /\ Detected(build_app_image(layout(input.elf, "flatten")), NoBin)

ElfFails ==
  /\ pc = "detect" /\ input.kind = "elf"
  /\ \/ ~input.intact
     \/ LayoutFails(input.elf, IF input.elf.boot_header = NoSection THEN "flatten" ELSE "locate")
  /\ PlanError("elf")

HeaderedBlob ==
  /\ pc = "detect" /\ input.kind = "blob" /\ is_headered_image(input.blob)
  /\ Detected([input.blob EXCEPT !.header = patch_header(@, input.blob.body)], NoBin)

RawBlob ==
  /\ pc = "detect" /\ input.kind = "blob" /\ ~is_headered_image(input.blob)
  /\ Detected(build_app_image(bytes(input.blob)), NoBin)

-----------------------------------------------------------------------------
(* Selecting the app partition of a package.                               *)
FirstBin(bins, indices) ==
  IF indices = {} THEN NoBin
  ELSE bins[CHOOSE k \in indices : \A l \in indices : k <= l]

find_by_name(bins, name) == FirstBin(bins, {k \in DOMAIN bins : bins[k].name = name})

normal_bins(bins) == {k \in DOMAIN bins : ~bins[k].loader}

(* A bug to be caught: the loader is not left out of the search.           *)
app_like_bin_AnyBin(bins) == FirstBin(bins, {k \in DOMAIN bins : bins[k].app_like})

app_like_bin(bins) == FirstBin(bins, {k \in normal_bins(bins) : bins[k].app_like})

only_bin(bins) ==
  IF Cardinality(normal_bins(bins)) = 1 THEN FirstBin(bins, normal_bins(bins)) ELSE NoBin

(* The first of the three searches that finds something.                   *)
selected(bins) ==
  IF find_by_name(bins, app_name) # NoBin THEN find_by_name(bins, app_name)
  ELSE IF app_like_bin(bins) # NoBin THEN app_like_bin(bins) ELSE only_bin(bins)

IntactPackage == input.kind = "fwpkg" /\ input.intact

PackageRefused ==
  /\ pc = "detect" /\ input.kind = "fwpkg" /\ ~input.intact
  /\ PlanError("package")

FromPackage ==
  /\ pc = "detect" /\ IntactPackage /\ selected(input.bins) # NoBin
  /\ LET bin == selected(input.bins) IN Detected(bin.blob, bin)

NoAppInPackage ==
  /\ pc = "detect" /\ IntactPackage /\ selected(input.bins) = NoBin
  /\ PlanError("package has no app")

-----------------------------------------------------------------------------
(* build_plan_from_image, and the erase range plan_app_flash widens after. *)
(* A bug to be caught: the length leaves the header out.                   *)
ImageLen_BodyOnly(blob) == Len(blob.body)

ImageLen(blob) ==
  (IF blob.header # NoHeader THEN IMAGE_HEADER_LEN ELSE 0) + Len(blob.body)

(* The tail is filled in before the magic is looked at; an Err drops it.   *)
ImageTooShort ==
  /\ pc = "build" /\ ImageLen(image) < IMAGE_HEADER_LEN
  /\ PlanError("image too short")

ImageWithoutHeader ==
  /\ pc = "build" /\ ImageLen(image) >= IMAGE_HEADER_LEN /\ ~is_headered_image(image)
  /\ PlanError("image without header")

(* A bug to be caught: what the package says of the address is forgotten.  *)
base_addr_NoPackage == IF app_addr # NoAddr THEN app_addr ELSE app_partition_addr[chip]

(* app_addr, or the package's burn_addr, or the chip's default.            *)
base_addr ==
  IF app_addr # NoAddr THEN app_addr
  ELSE IF source # NoBin THEN source.burn_addr ELSE app_partition_addr[chip]

(* Two bugs to be caught: burn_size is ignored; burn_size replaces the     *)
(* length it may not shrink.                                               *)
erase_len_ImageOnly(image_len) == image_len
erase_len_BurnSize(image_len) == IF source = NoBin THEN image_len ELSE source.burn_size

erase_len(image_len) ==
  IF source # NoBin /\ source.burn_size > image_len THEN source.burn_size ELSE image_len

body_len(blob) ==
  IF blob.header.code_area_len = 0 THEN Len(blob.body) ELSE blob.header.code_area_len

(* base_addr + IMAGE_HEADER_LEN is plain u32 addition: a release build wraps *)
(* around.                                                                 *)
PlanFor(blob) ==
  [base_addr |-> base_addr, image |-> blob, image_len |-> ImageLen(blob),
   body_range |-> [flash_addr |-> (base_addr + IMAGE_HEADER_LEN) % U32, len |-> body_len(blob)],
   code_area_len |-> body_len(blob),
   erase_range |-> [start |-> base_addr, len |-> erase_len(ImageLen(blob))],
   write_chunk |-> [addr |-> base_addr, len |-> ImageLen(blob)]]

(* The header may ask for a tail that makes the length leave the u32.      *)
ImageTooLong ==
  /\ pc = "build" /\ is_headered_image(image)
  /\ ImageLen(pad_image_to_code_area_len(image)) >= U32
  /\ PlanError("image too long")

BuildPlan ==
  /\ pc = "build" /\ is_headered_image(image)
  /\ LET padded == pad_image_to_code_area_len(image)
     IN  ImageLen(padded) < U32 /\ image' = padded /\ plan' = PlanFor(padded)
  /\ pc' = "planned"
  /\ UNCHANGED <<args, source>>

PlanStep == HeaderedElf \/ BareElf \/ ElfFails \/ HeaderedBlob \/ RawBlob \/ PackageRefused
              \/ FromPackage \/ NoAppInPackage \/ ImageTooShort \/ ImageWithoutHeader
              \/ ImageTooLong \/ BuildPlan
=============================================================================

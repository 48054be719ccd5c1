-------------------------- MODULE ToolchainProofs --------------------------
(***************************************************************************)
(* Proofs about the commands on files: for every file there may be, every  *)
(* chain of commands however long, and every number of kills.              *)
(***************************************************************************)
EXTENDS Toolchain, FlashPlanProofs

HistoryRecord == [whole: BOOLEAN, code: Seq(Byte), addr: Nat \cup {NoAddr}]

(* What every file is, torn or not.                                        *)
Sound(file) == file \in Contents /\ (file.kind = "fwpkg" => GoodPackage(file.bins))

(* The file is what its history says.                                      *)
Keeps(file, was) == was.whole => Trim(CodeOf(file)) = was.code /\ AddrOf(file) = was.addr

FilesInv ==
  /\ files \in [Names -> Contents \cup {NoFile}] /\ history \in [Names -> HistoryRecord]
  /\ \A n \in Names :
       /\ files[n] # NoFile => Sound(files[n])
       /\ history[n].whole => files[n] # NoFile /\ Keeps(files[n], history[n])

CommandInv ==
  /\ phase \in {"idle", "work", "write", "done", "failed", "killed"} /\ app_name \in AppNames
  /\ phase # "idle" => /\ cmd.op \in Ops /\ cmd.out \in Names /\ cmd.was \in HistoryRecord
                       /\ Sound(input) /\ Keeps(input, cmd.was)
  /\ phase = "write" => ~history[cmd.out].whole
  /\ phase \in {"write", "done"} => output # NoFile
  /\ phase \in {"failed", "idle"} => output = NoFile

(* What is written is what the command makes of its input.                 *)
MadeImage == cmd.op = "image" /\ pc = "planned" /\ output = ImageFile(plan.image)

PackageFile == [kind |-> "fwpkg", bins |-> <<Packed>>, intact |-> TRUE]

MadePackage ==
  cmd.op = "pack" /\ pc = "planned" /\ app_name \notin LongNames /\ output = PackageFile

PatchedElf ==
  /\ cmd.op = "patch-hash" /\ Located
  /\ output = [input EXCEPT !.header = patch_header(@, layout(input.elf, "locate"))]

PatchedBin ==
  /\ cmd.op = "patch-hash" /\ input.kind = "blob" /\ is_headered_image(input.blob)
  /\ output = [input EXCEPT !.blob.header = patch_header(@, input.blob.body)]

OutputInv == output # NoFile => MadeImage \/ MadePackage \/ PatchedElf \/ PatchedBin

BeforeInv ==
  \A n \in Names : phase \in {"idle", "work", "failed"} \/ n # cmd.out => files[n] = before[n]

IInv == PlanInv /\ FilesInv /\ CommandInv /\ OutputInv /\ BeforeInv

-----------------------------------------------------------------------------
(* Code up to its last byte that is not erased.                            *)
LEMMA TrimIs ==
  ASSUME NEW code \in Seq(Byte)
  PROVE  \E n \in 0..Len(code) :
           /\ n > 0 => code[n] # Erased
           /\ \A c \in (n + 1)..Len(code) : code[c] = Erased
           /\ Trim(code) = SubSeq(code, 1, n)
  <1> DEFINE Ends(n) == /\ n > 0 => code[n] # Erased
                        /\ \A c \in (n + 1)..Len(code) : code[c] = Erased
             written == {c \in 1..Len(code) : code[c] # Erased}
  <1>1. \E n \in 0..Len(code) : Ends(n)
    <2>1. CASE written = {}
      <3>1. Ends(0) /\ 0 \in 0..Len(code)
        BY <2>1
      <3> QED
        BY <3>1
    <2>2. CASE written # {}
      <3>1. PICK n \in written : \A c \in written : c <= n
        <4>1. written \in SUBSET Nat /\ Len(code) \in Nat /\ \A c \in written : c <= Len(code)
          OBVIOUS
        <4> HIDE DEF written
        <4> QED
          BY <2>2, <4>1, GreatestNatural
      <3>2. Ends(n) /\ n \in 0..Len(code)
        BY <3>1
      <3> QED
        BY <3>2
    <2> QED
      BY <2>1, <2>2
  <1> DEFINE n0 == CHOOSE n \in 0..Len(code) : Ends(n)
  <1>2. n0 \in 0..Len(code) /\ Ends(n0)
    <2> HIDE DEF Ends
    <2> QED
      BY <1>1
  <1>3. Trim(code) = SubSeq(code, 1, n0)
    BY DEF Trim
  <1> HIDE DEF n0
  <1> QED
    BY <1>2, <1>3

(* Erased bytes behind it do not count.                                    *)
LEMMA TrimIgnoresTheTail ==
  ASSUME NEW code \in Seq(Byte), NEW longer \in Seq(Byte), Len(code) <= Len(longer),
         \A c \in 1..Len(code) : longer[c] = code[c],
         \A c \in (Len(code) + 1)..Len(longer) : longer[c] = Erased
  PROVE  Trim(longer) = Trim(code)
  <1>1. PICK m \in 0..Len(code) :
          /\ m > 0 => code[m] # Erased
          /\ \A c \in (m + 1)..Len(code) : code[c] = Erased
          /\ Trim(code) = SubSeq(code, 1, m)
    BY TrimIs
  <1>2. PICK n \in 0..Len(longer) :
          /\ n > 0 => longer[n] # Erased
          /\ \A c \in (n + 1)..Len(longer) : longer[c] = Erased
          /\ Trim(longer) = SubSeq(longer, 1, n)
    BY TrimIs
  <1>3. Len(code) \in Nat /\ Len(longer) \in Nat /\ m \in Nat /\ n \in Nat
    OBVIOUS
  <1>4. ~(m < n)
    <2>1. SUFFICES ASSUME m < n PROVE FALSE
      OBVIOUS
    <2>2. n \in (m + 1)..Len(code) \/ n \in (Len(code) + 1)..Len(longer)
      BY <1>3, <2>1
    <2>3. n \in (m + 1)..Len(code) => n \in 1..Len(code)
      BY <1>3
    <2> QED
      BY <1>1, <1>2, <1>3, <2>1, <2>2, <2>3
  <1>5. ~(n < m)
    <2>1. SUFFICES ASSUME n < m PROVE FALSE
      OBVIOUS
    <2>2. m \in (n + 1)..Len(longer) /\ m \in 1..Len(code)
      BY <1>3, <2>1
    <2> QED
      BY <1>1, <1>2, <1>3, <2>1, <2>2
  <1>6. m = n
    BY <1>3, <1>4, <1>5
  <1>7. SubSeq(longer, 1, m) = SubSeq(code, 1, m)
    <2>1. \A c \in 1..m : longer[c] = code[c]
      BY <1>3
    <2>2. SubSeq(longer, 1, m) = [c \in 1..m |-> longer[c]] /\ SubSeq(code, 1, m) = [c \in 1..m |-> code[c]]
      BY <1>3, SMT
    <2> QED
      BY <2>1, <2>2
  <1> QED
    BY <1>1, <1>2, <1>6, <1>7
-----------------------------------------------------------------------------
(* A package's app is one of its partitions.                               *)
LEMMA AppBinIsOne ==
  ASSUME NEW bins \in Seq(PackageBin), app_bin(bins) # NoBin
  PROVE  \E k \in DOMAIN bins : app_bin(bins) = bins[k] /\ app_bin(bins) \in PackageBin
  <1> DEFINE liked == {k \in normal_bins(bins) : bins[k].app_like}
  <1>1. liked \subseteq DOMAIN bins /\ normal_bins(bins) \subseteq DOMAIN bins
    BY DEF normal_bins
  <1>2. app_bin(bins) \in {FirstBin(bins, liked), FirstBin(bins, normal_bins(bins))}
    BY DEF app_bin, app_like_bin
  <1> HIDE DEF liked
  <1>3. PICK indices \in SUBSET DOMAIN bins : app_bin(bins) = FirstBin(bins, indices)
    BY <1>1, <1>2
  <1>4. PICK k \in DOMAIN bins : app_bin(bins) = bins[k]
    BY <1>3, FirstBinIsOne
  <1> QED
    BY <1>4

(* The one partition of a package is its app, by any name.                 *)
LEMMA OnlyPartition ==
  ASSUME NEW bin \in PackageBin, ~bin.loader
  PROVE  /\ <<bin>> \in Seq(PackageBin) /\ app_bin(<<bin>>) = bin
         /\ \A name : find_by_name(<<bin>>, name) \in {NoBin, bin}
  <1> DEFINE bins == <<bin>>
  <1>1. bins \in Seq(PackageBin) /\ DOMAIN bins = {1} /\ bins[1] = bin
    OBVIOUS
  <1> HIDE DEF bins
  <1>2. \A indices \in SUBSET DOMAIN bins :
          FirstBin(bins, indices) = IF indices = {} THEN NoBin ELSE bin
    BY <1>1, FirstBinIsOne
  <1>3. normal_bins(bins) = {1} /\ bin # NoBin
    BY <1>1, PlanAssumption DEF normal_bins
  <1>4. app_bin(bins) = bin
    <2> DEFINE liked == {k \in normal_bins(bins) : bins[k].app_like}
    <2>1. app_like_bin(bins) \in {NoBin, bin}
      <3>1. liked \in SUBSET DOMAIN bins /\ app_like_bin(bins) = FirstBin(bins, liked)
        BY <1>1, <1>3 DEF app_like_bin
      <3> HIDE DEF liked
      <3> QED
        BY <1>2, <3>1
    <2>2. FirstBin(bins, normal_bins(bins)) = bin
      BY <1>1, <1>2, <1>3
    <2> QED
      BY <1>3, <2>1, <2>2 DEF app_bin
  <1>5. ASSUME NEW name PROVE find_by_name(bins, name) \in {NoBin, bin}
    <2> DEFINE named == {k \in DOMAIN bins : bins[k].name = name}
    <2>1. named \in SUBSET DOMAIN bins /\ find_by_name(bins, name) = FirstBin(bins, named)
      BY DEF find_by_name
    <2> HIDE DEF named
    <2> QED
      BY <1>2, <2>1
  <1> QED
    BY <1>1, <1>4, <1>5 DEF bins

(* The app of a package that is good is a partition with its image in it.  *)
LEMMA GoodApp ==
  ASSUME NEW bins \in Seq(PackageBin), GoodPackage(bins)
  PROVE  /\ app_bin(bins) \in PackageBin /\ app_bin(bins).blob \in Blob
         /\ app_bin(bins).blob.body \in Seq(Byte)
         /\ app_bin(bins).burn_addr \in 0..(U32 - 1) /\ app_bin(bins).burn_addr \in Nat
  <1>1. app_bin(bins) \in PackageBin
    BY AppBinIsOne DEF GoodPackage
  <1>2. U32 \in Nat
    BY PlanAssumption
  <1> QED
    BY <1>1, <1>2 DEF PackageBin, Blob

(* The code of a file is a sequence of bytes, and so is its trimmed form.   *)
LEMMA CodeIsBytes ==
  ASSUME NEW file, Sound(file)
  PROVE  /\ file \in Input /\ CodeOf(file) \in Seq(Byte) /\ AddrOf(file) \in Nat \cup {NoAddr}
         /\ History(file) \in HistoryRecord
  <1>1. file \in Input
    BY DEF Sound, Contents
  <1>2. ASSUME file.kind = "elf"
       PROVE  CodeOf(file) \in Seq(Byte) /\ AddrOf(file) \in Nat \cup {NoAddr}
    <2> DEFINE mode == IF file.elf.boot_header = NoSection THEN "flatten" ELSE "locate"
    <2>1. CodeOf(file) = IF LayoutFails(file.elf, mode) THEN << >> ELSE layout(file.elf, mode)
      BY <1>2 DEF CodeOf
    <2>2. file.elf \in Elf /\ mode \in {"flatten", "locate"} /\ << >> \in Seq(Byte)
      BY <1>1, <1>2, InputFields
    <2> HIDE DEF mode
    <2>3. CodeOf(file) \in Seq(Byte)
      BY <2>1, <2>2, LayoutIsABody
    <2>4. AddrOf(file) = NoAddr
      BY <1>2 DEF AddrOf
    <2> QED
      BY <2>3, <2>4
  <1>3. ASSUME file.kind = "blob"
       PROVE  CodeOf(file) \in Seq(Byte) /\ AddrOf(file) \in Nat \cup {NoAddr}
    <2>1. CodeOf(file) = file.blob.body /\ AddrOf(file) = NoAddr
      BY <1>3 DEF CodeOf, AddrOf
    <2>2. file.blob.body \in Seq(Byte)
      BY <1>1, <1>3, InputFields DEF Blob
    <2> QED
      BY <2>1, <2>2
  <1>4. ASSUME file.kind = "fwpkg"
       PROVE  CodeOf(file) \in Seq(Byte) /\ AddrOf(file) \in Nat \cup {NoAddr}
    <2>1. file.bins \in Seq(PackageBin) /\ GoodPackage(file.bins)
      BY <1>1, <1>4, InputFields DEF Sound
    <2>2. CodeOf(file) = app_bin(file.bins).blob.body /\ AddrOf(file) = app_bin(file.bins).burn_addr
      BY <1>4 DEF CodeOf, AddrOf
    <2> QED
      BY <2>1, <2>2, GoodApp
  <1>5. CodeOf(file) \in Seq(Byte) /\ AddrOf(file) \in Nat \cup {NoAddr}
    BY <1>1, <1>2, <1>3, <1>4, InputFields
  <1>6. Trim(CodeOf(file)) \in Seq(Byte)
    <2>1. \A code \in Seq(Byte) : Trim(code) \in Seq(Byte)
      BY TrimIs
    <2> QED
      BY <1>5, <2>1
  <1> QED
    BY <1>1, <1>5, <1>6 DEF History, HistoryRecord
-----------------------------------------------------------------------------
(* A good package that is planned has its app planned.                     *)
LEMMA TheAppIsPlanned ==
  ASSUME PlanInv, pc = "planned", Sound(input), app_name \in AppNames, input.kind = "fwpkg"
  PROVE  /\ source = app_bin(input.bins) /\ source # NoBin /\ source \in PackageBin
         /\ PackagedImageVerifies
  <1>1. PICK blob \in Blob : DetectedFrom(blob) /\ is_headered_image(blob)
    BY DEF PlanInv
  <1>2. /\ source = selected(input.bins) /\ source # NoBin /\ is_headered_image(source.blob)
    BY <1>1 DEF DetectedFrom
  <1>3. GoodPackage(input.bins) /\ input.bins \in Seq(PackageBin)
    BY InputFields DEF Sound, PlanInv
  <1>4. source \in PackageBin
    BY <1>2, <1>3, SelectedIsOne
  <1>5. source = app_bin(input.bins)
    <2> DEFINE found == find_by_name(input.bins, app_name)
    <2>1. found = NoBin \/ found = app_bin(input.bins) \/ ~is_headered_image(found.blob)
      BY <1>3 DEF GoodPackage
    <2>2. CASE found # NoBin
      <3>1. source = found
        BY <1>2, <2>2 DEF selected
      <3> QED
        BY <1>2, <2>1, <2>2, <3>1
    <2>3. CASE found = NoBin /\ app_like_bin(input.bins) # NoBin
      BY <1>2, <2>3 DEF selected, app_bin
    <2>4. CASE found = NoBin /\ app_like_bin(input.bins) = NoBin
      <3>1. source = only_bin(input.bins)
        BY <1>2, <2>4 DEF selected
      <3>2. source = FirstBin(input.bins, normal_bins(input.bins))
        BY <1>2, <3>1 DEF only_bin
      <3> QED
        BY <2>4, <3>2 DEF app_bin
    <2> QED
      BY <2>2, <2>3, <2>4
  <1>6. PackagedImageVerifies
    <2>1. /\ source.blob.header.code_area_hash = sha256(hashed(source.blob.header, source.blob.body))
          /\ source.blob.header.code_area_len = 0 => source.blob.body = << >>
      BY <1>2, <1>3, <1>5 DEF GoodPackage
    <2>2. Len(<< >>) = 0
      OBVIOUS
    <2> QED
      BY <2>1, <2>2 DEF PackagedImageVerifies
  <1> QED
    BY <1>2, <1>4, <1>5, <1>6

(* Images of files that are no packages verify, and so do those of good     *)
(* packages.                                                               *)
LEMMA ToolImageVerifies ==
  ASSUME PlanInv, pc = "planned", Sound(input), app_name \in AppNames
  PROVE  /\ Verifies(image)
         /\ image.header.code_area_len = 0 => Len(image.body) = 0
         /\ image \in Blob /\ image.header # NoHeader /\ image.header.key_id
         /\ plan = PlanFor(image) /\ ImageLen(image) \in 0..(U32 - 1)
         /\ base_addr \in 0..(U32 - 1)
  <1>1. source # NoBin => PackagedImageVerifies
    BY PlannedImage, TheAppIsPlanned
  <1>2. Verifies(image) /\ plan.body_range.len = image.header.code_area_len
    BY <1>1, PlannedImageVerifies
  <1>3. /\ image \in Blob /\ image.header # NoHeader /\ image.header.key_id /\ plan = PlanFor(image)
    BY PlannedImage
  <1>4. plan.body_range.len = body_len(image)
    BY PlannedRanges
  <1>5. image.header.code_area_len = 0 => Len(image.body) = 0
    BY <1>2, <1>4 DEF body_len
  <1>6. ImageLen(image) \in 0..(U32 - 1)
    <2>1. Len(image.body) \in Nat /\ IMAGE_HEADER_LEN \in Nat /\ U32 \in Nat
      BY <1>3, BlobFields, ElfAssumption, PlanAssumption
    <2>2. ImageLen(image) < U32
      BY DEF PlanInv
    <2> QED
      BY <1>3, <2>1, <2>2 DEF ImageLen
  <1> QED
    BY <1>2, <1>3, <1>5, <1>6, PlannedRanges

(* What is planned is the code that went in, but for erased bytes behind it. *)
LEMMA PlanningKeepsTheCode ==
  ASSUME PlanInv, pc = "planned", Sound(input), app_name \in AppNames
  PROVE  Trim(image.body) = Trim(CodeOf(input))
  <1>1. PICK blob \in Blob : /\ DetectedFrom(blob) /\ is_headered_image(blob)
                             /\ image = pad_image_to_code_area_len(blob)
    BY DEF PlanInv
  <1>2. input \in Input /\ blob.header # NoHeader
    BY <1>1 DEF PlanInv, is_headered_image
  <1>3. \A b \in Blob : b.header # NoHeader =>
          /\ pad_image_to_code_area_len(b) \in Blob
          /\ pad_image_to_code_area_len(b).header = b.header
          /\ Trim(pad_image_to_code_area_len(b).body) = Trim(b.body)
    <2>1. SUFFICES ASSUME NEW b \in Blob, b.header # NoHeader
                   PROVE  /\ pad_image_to_code_area_len(b) \in Blob
                          /\ pad_image_to_code_area_len(b).header = b.header
                          /\ Trim(pad_image_to_code_area_len(b).body) = Trim(b.body)
      OBVIOUS
    <2> DEFINE p == pad_image_to_code_area_len(b)
    <2>2. /\ p \in Blob /\ p.header = b.header /\ Len(b.body) <= Len(p.body)
          /\ \A c \in 1..Len(b.body) : p.body[c] = b.body[c]
          /\ \A c \in (Len(b.body) + 1)..Len(p.body) : p.body[c] = Erased
      BY <2>1, PaddedImage
    <2>3. p.body \in Seq(Byte) /\ b.body \in Seq(Byte)
      BY <2>1, <2>2, BlobFields
    <2> HIDE DEF p
    <2>4. Trim(p.body) = Trim(b.body)
      BY <2>2, <2>3, TrimIgnoresTheTail
    <2> QED
      BY <2>2, <2>4 DEF p
  <1>4. Trim(image.body) = Trim(blob.body)
    BY <1>1, <1>2, <1>3
  <1>5. Trim(blob.body) = Trim(CodeOf(input))
    <2>1. CASE input.kind = "elf" /\ input.elf.boot_header # NoSection
      <3> DEFINE body == layout(input.elf, "locate")
      <3>1. /\ input.header \in Header /\ body \in Seq(Byte)
            /\ blob = pad_image_to_code_area_len(Patched(input.header, body))
            /\ ~LayoutFails(input.elf, "locate")
        BY <1>1, <1>2, <2>1, InputFields, LayoutIsABody DEF DetectedFrom
      <3>2. CodeOf(input) = body
        BY <2>1, <3>1 DEF CodeOf
      <3> HIDE DEF body
      <3>3. /\ Patched(input.header, body) \in Blob /\ Patched(input.header, body).body = body
            /\ Patched(input.header, body).header # NoHeader
        <4>1. Patched(input.header, body) \in Blob
          BY <3>1, PatchedVerifies
        <4>2. patch_header(input.header, body) # NoHeader
          BY <3>1, PatchedHeader
        <4> QED
          BY <4>1, <4>2 DEF Patched
      <3> QED
        BY <1>3, <3>1, <3>2, <3>3
    <2>2. CASE input.kind = "elf" /\ input.elf.boot_header = NoSection
      <3>1. blob = build_app_image(layout(input.elf, "flatten")) /\ ~LayoutFails(input.elf, "flatten")
        BY <1>1, <2>2 DEF DetectedFrom
      <3>2. CodeOf(input) = layout(input.elf, "flatten")
        BY <2>2, <3>1 DEF CodeOf
      <3> QED
        BY <3>1, <3>2 DEF build_app_image
    <2>3. CASE input.kind = "blob" /\ is_headered_image(input.blob)
      <3>1. blob = Patched(input.blob.header, input.blob.body)
        BY <1>1, <2>3 DEF DetectedFrom
      <3>2. CodeOf(input) = input.blob.body
        BY <2>3 DEF CodeOf
      <3> QED
        BY <3>1, <3>2 DEF Patched
    <2>4. CASE input.kind = "blob" /\ ~is_headered_image(input.blob)
      <3>1. blob = build_app_image(bytes(input.blob))
        BY <1>1, <2>4 DEF DetectedFrom
      <3>2. CodeOf(input) = input.blob.body
        BY <2>4 DEF CodeOf
      <3>3. input.blob.header = NoHeader /\ input.blob.body \in Seq(Byte)
        BY <1>2, <2>4, InputFields DEF Sound, Contents, HasMagic, is_headered_image, Blob
      <3>4. bytes(input.blob) = input.blob.body
        BY <3>3 DEF bytes
      <3> QED
        BY <3>1, <3>2, <3>4 DEF build_app_image
    <2>5. CASE input.kind = "fwpkg"
      <3>1. blob = source.blob /\ source = app_bin(input.bins)
        BY <1>1, <2>5, TheAppIsPlanned DEF DetectedFrom
      <3>2. CodeOf(input) = app_bin(input.bins).blob.body
        BY <2>5 DEF CodeOf
      <3> QED
        BY <3>1, <3>2
    <2> QED
      BY <1>2, <2>1, <2>2, <2>3, <2>4, <2>5, InputFields
  <1> QED
    BY <1>4, <1>5
-----------------------------------------------------------------------------
(* Files of one blob.                                                      *)
LEMMA BlobFile ==
  ASSUME NEW blob \in Blob, HasMagic(blob)
  PROVE  /\ Sound(ImageFile(blob)) /\ ImageFile(blob).kind = "blob" /\ ImageFile(blob).blob = blob
         /\ CodeOf(ImageFile(blob)) = blob.body /\ AddrOf(ImageFile(blob)) = NoAddr
  <1>1. ImageFile(blob) = [kind |-> "blob", blob |-> blob]
    BY DEF ImageFile
  <1>2. ImageFile(blob) \in Input
    BY <1>1 DEF Input
  <1>3. ImageFile(blob) \in Contents
    BY <1>1, <1>2 DEF Contents
  <1>4. CodeOf(ImageFile(blob)) = blob.body /\ AddrOf(ImageFile(blob)) = NoAddr
    BY <1>1 DEF CodeOf, AddrOf
  <1> QED
    BY <1>1, <1>3, <1>4 DEF Sound

(* The package that is made is a good one, with the planned image in it.   *)
LEMMA MadePackageIsGood ==
  ASSUME PlanInv, pc = "planned", Sound(input), app_name \in AppNames, app_name \notin LongNames
  PROVE  /\ Sound(PackageFile) /\ PackageFile.kind = "fwpkg" /\ PackageFile.bins[1].blob = image
         /\ CodeOf(PackageFile) = image.body /\ AddrOf(PackageFile) = base_addr
         /\ app_bin(PackageFile.bins) = Packed
         /\ Packed.burn_addr = base_addr /\ Packed.burn_size = ImageLen(Packed.blob)
  <1>1. /\ Verifies(image)
        /\ image.header.code_area_len = 0 => Len(image.body) = 0
        /\ image \in Blob /\ image.header # NoHeader /\ image.header.key_id
        /\ ImageLen(image) \in 0..(U32 - 1) /\ base_addr \in 0..(U32 - 1)
        /\ plan.image = image /\ plan.base_addr = base_addr
    BY ToolImageVerifies, PlannedRanges
  <1>2. /\ Packed = [name |-> app_name, app_like |-> app_name \in AppLikeNames, loader |-> FALSE,
                     burn_addr |-> base_addr, burn_size |-> ImageLen(image), blob |-> image]
        /\ app_name \in STRING
    BY <1>1, ToolAssumption DEF Packed
  <1>3. /\ Packed \in PackageBin /\ ~Packed.loader /\ Packed.blob = image
        /\ Packed.burn_addr = base_addr /\ Packed.burn_size = ImageLen(image) /\ Packed.name = app_name
    BY <1>1, <1>2 DEF PackageBin
  <1> HIDE DEF Packed
  <1>4. /\ <<Packed>> \in Seq(PackageBin) /\ app_bin(<<Packed>>) = Packed
        /\ \A name : find_by_name(<<Packed>>, name) \in {NoBin, Packed}
    BY <1>3, OnlyPartition
  <1>5. image.header.code_area_hash = sha256(hashed(image.header, image.body))
    <2>1. hashed(image.header, image.body) =
            SubSeq(pad_image_to_code_area_len(image).body, 1, image.header.code_area_len)
      BY <1>1, HashedIsPadded
    <2>2. pad_image_to_code_area_len(image) = image
      BY <1>1 DEF Verifies, pad_image_to_code_area_len
    <2> QED
      BY <1>1, <2>1, <2>2 DEF Verifies, sha256
  <1>6. image.header.code_area_len = 0 => image.body = << >>
    <2>1. image.body \in Seq(Byte)
      BY <1>1, BlobFields
    <2> QED
      BY <1>1, <2>1
  <1>7. GoodPackage(<<Packed>>)
    <2>1. Packed # NoBin /\ ImageLen(Packed.blob) <= Packed.burn_size
      <3>1. U32 \in Nat
        BY PlanAssumption
      <3> QED
        BY <1>1, <1>3, <3>1, PlanAssumption
    <2> QED
      BY <1>3, <1>4, <1>5, <1>6, <2>1 DEF GoodPackage
  <1>8. PackageFile = [kind |-> "fwpkg", bins |-> <<Packed>>, intact |-> TRUE]
    BY DEF PackageFile
  <1>9. PackageFile \in Contents
    <2>1. PackageFile \in Input
      BY <1>4, <1>8 DEF Input
    <2>2. DOMAIN <<Packed>> = {1} /\ <<Packed>>[1] = Packed
      OBVIOUS
    <2> QED
      BY <1>1, <1>3, <1>8, <2>1, <2>2 DEF Contents, HasMagic
  <1>10. CodeOf(PackageFile) = image.body /\ AddrOf(PackageFile) = base_addr
    BY <1>3, <1>4, <1>8 DEF CodeOf, AddrOf
  <1> QED
    BY <1>3, <1>4, <1>7, <1>8, <1>9, <1>10 DEF Sound

(* What a command makes is sound, holds the code of its input, and goes    *)
(* where the plan says, if it says.                                        *)
LEMMA MadeFromTheInput ==
  ASSUME PlanInv, CommandInv, OutputInv, output # NoFile
  PROVE  /\ Sound(output) /\ Trim(CodeOf(output)) = Trim(CodeOf(input))
         /\ AddrOf(output) = IF cmd.op = "pack" THEN base_addr ELSE NoAddr
         /\ cmd.op = "pack" => pc = "planned"
  <1>1. Sound(input) /\ app_name \in AppNames /\ input \in Input
    BY DEF CommandInv, PlanInv
  <1>2. ASSUME MadeImage
        PROVE  /\ Sound(output) /\ Trim(CodeOf(output)) = Trim(CodeOf(input))
               /\ AddrOf(output) = NoAddr /\ cmd.op # "pack"
    <2>1. /\ pc = "planned" /\ output = ImageFile(image) /\ image \in Blob /\ HasMagic(image)
          /\ cmd.op = "image"
      BY <1>1, <1>2, PlannedImage, PlannedRanges DEF MadeImage, HasMagic
    <2> QED
      BY <1>1, <2>1, BlobFile, PlanningKeepsTheCode
  <1>3. ASSUME MadePackage
        PROVE  /\ Sound(output) /\ Trim(CodeOf(output)) = Trim(CodeOf(input))
               /\ AddrOf(output) = base_addr /\ cmd.op = "pack" /\ pc = "planned"
    BY <1>1, <1>3, MadePackageIsGood, PlanningKeepsTheCode DEF MadePackage
  <1>4. ASSUME PatchedElf
        PROVE  /\ Sound(output) /\ Trim(CodeOf(output)) = Trim(CodeOf(input))
               /\ AddrOf(output) = NoAddr /\ cmd.op # "pack"
    <2> DEFINE body == layout(input.elf, "locate")
               header == patch_header(input.header, body)
    <2>1. /\ input.kind = "elf" /\ ~LayoutFails(input.elf, "locate") /\ cmd.op = "patch-hash"
          /\ output = [input EXCEPT !.header = header]
      BY <1>4 DEF PatchedElf, Located, IntactElf
    <2>2. input \in [kind: {"elf"}, elf: Elf, header: Header, intact: BOOLEAN]
      BY <1>1, <2>1 DEF Input
    <2>3. header \in Header
      <3>1. input.header \in Header /\ body \in Seq(Byte)
        BY <2>1, <2>2, LayoutIsABody
      <3> HIDE DEF body
      <3> QED
        BY <3>1, PatchedHeader
    <2> HIDE DEF header
    <2>4. /\ output \in [kind: {"elf"}, elf: Elf, header: Header, intact: BOOLEAN]
          /\ output.kind = "elf" /\ output.elf = input.elf
      BY <2>1, <2>2, <2>3
    <2>5. Sound(output)
      BY <2>4 DEF Sound, Contents, Input
    <2>6. CodeOf(output) = CodeOf(input)
      BY <2>1, <2>4 DEF CodeOf
    <2>7. AddrOf(output) = NoAddr
      BY <2>4 DEF AddrOf
    <2> QED
      BY <2>1, <2>5, <2>6, <2>7
  <1>5. ASSUME PatchedBin
        PROVE  /\ Sound(output) /\ Trim(CodeOf(output)) = Trim(CodeOf(input))
               /\ AddrOf(output) = NoAddr /\ cmd.op # "pack"
    <2> DEFINE header == patch_header(input.blob.header, input.blob.body)
               blob == Patched(input.blob.header, input.blob.body)
    <2>1. /\ input.kind = "blob" /\ is_headered_image(input.blob) /\ cmd.op = "patch-hash"
          /\ output = [input EXCEPT !.blob.header = header]
      BY <1>5 DEF PatchedBin
    <2>2. /\ input \in [kind: {"blob"}, blob: Blob] /\ input.blob.header # NoHeader
          /\ input.blob.header.key_id
      BY <1>1, <2>1 DEF Input, is_headered_image
    <2>3. output = ImageFile(blob)
      BY <2>1, <2>2 DEF ImageFile, Patched, Blob
    <2>4. /\ header.key_id = input.blob.header.key_id /\ blob \in Blob
      BY <2>2, BlobFields, PatchedHeader, PatchedVerifies
    <2>5. blob.header = header /\ blob.body = input.blob.body
      BY DEF Patched
    <2>6. HasMagic(blob)
      BY <2>2, <2>4, <2>5 DEF HasMagic
    <2>7. CodeOf(input) = input.blob.body
      BY <2>1 DEF CodeOf
    <2> HIDE DEF blob, header
    <2> QED
      BY <2>1, <2>3, <2>4, <2>5, <2>6, <2>7, BlobFile
  <1> QED
    BY <1>2, <1>3, <1>4, <1>5 DEF OutputInv

(* What is left of a sound file is sound.                                  *)
LEMMA TornIsSound ==
  ASSUME NEW file, Sound(file), NEW torn \in Torn(file)
  PROVE  Sound(torn)
  <1>1. file \in Input /\ file.kind \in {"elf", "blob", "fwpkg"}
    BY InputFields DEF Sound, Contents
  <1>2. ASSUME NEW n \in Nat, torn = RawFile([c \in 1..n |-> HeaderByte]) PROVE Sound(torn)
    <2> DEFINE front == [c \in 1..n |-> HeaderByte]
               blob == [header |-> NoHeader, body |-> front]
    <2>1. front \in Seq(Byte)
      BY DEF Byte
    <2>2. torn = ImageFile(blob)
      BY <1>2 DEF RawFile, ImageFile
    <2> HIDE DEF front
    <2>3. blob \in Blob /\ HasMagic(blob)
      BY <2>1 DEF Blob, HasMagic
    <2> HIDE DEF blob
    <2> QED
      BY <2>2, <2>3, BlobFile
  <1>3. ASSUME file.kind = "blob", NEW n \in Nat, n <= Len(file.blob.body),
               torn = [file EXCEPT !.blob.body = SubSeq(@, 1, n)]
        PROVE  Sound(torn)
    <2> DEFINE body == SubSeq(file.blob.body, 1, n)
               blob == [file.blob EXCEPT !.body = body]
    <2>1. file \in [kind: {"blob"}, blob: Blob] /\ HasMagic(file.blob)
      BY <1>1, <1>3 DEF Input, Sound, Contents
    <2>2. file.blob.body \in Seq(Byte)
      BY <2>1 DEF Blob
    <2>3. body \in Seq(Byte)
      BY <1>3, <2>2
    <2>4. torn = ImageFile(blob)
      BY <1>3, <2>1 DEF ImageFile, Blob
    <2> HIDE DEF body
    <2>5. blob \in Blob /\ HasMagic(blob)
      BY <2>1, <2>3 DEF Blob, HasMagic
    <2> HIDE DEF blob
    <2> QED
      BY <2>4, <2>5, BlobFile
  <1>4. ASSUME file.kind # "blob", torn = [file EXCEPT !.intact = FALSE] PROVE Sound(torn)
    <2>1. CASE file.kind = "elf"
      <3>1. file \in [kind: {"elf"}, elf: Elf, header: Header, intact: BOOLEAN]
        BY <1>1, <2>1 DEF Input
      <3>2. torn \in [kind: {"elf"}, elf: Elf, header: Header, intact: BOOLEAN]
        BY <1>4, <3>1
      <3> QED
        BY <3>2 DEF Sound, Contents, Input
    <2>2. CASE file.kind = "fwpkg"
      <3>1. file \in [kind: {"fwpkg"}, bins: Seq(PackageBin), intact: BOOLEAN]
        BY <1>1, <2>2 DEF Input
      <3>2. /\ torn \in [kind: {"fwpkg"}, bins: Seq(PackageBin), intact: BOOLEAN]
            /\ torn.bins = file.bins /\ torn.kind = "fwpkg"
        BY <1>4, <3>1
      <3> QED
        BY <2>2, <3>2 DEF Sound, Contents, Input
    <2> QED
      BY <1>1, <1>4, <2>1, <2>2
  <1> QED
    <2>1. CASE file.kind = "blob"
      <3>1. file.blob.body \in Seq(Byte)
        BY <1>1, <2>1, InputFields DEF Blob
      <3>2. Len(file.blob.body) \in Nat /\ IMAGE_HEADER_LEN \in Nat
        BY <3>1, ElfAssumption
      <3>3. \/ \E n \in 0..(IMAGE_HEADER_LEN - 1) : torn = RawFile([c \in 1..n |-> HeaderByte])
            \/ \E n \in 0..(Len(file.blob.body) - 1) : torn = [file EXCEPT !.blob.body = SubSeq(@, 1, n)]
        BY <2>1 DEF Torn
      <3>4. \A n \in 0..(Len(file.blob.body) - 1) : n \in Nat /\ n <= Len(file.blob.body)
        BY <3>2
      <3>5. ASSUME NEW n \in 0..(IMAGE_HEADER_LEN - 1), torn = RawFile([c \in 1..n |-> HeaderByte])
            PROVE  Sound(torn)
        <4>1. n \in Nat
          BY <3>2
        <4> QED
          BY <1>2, <3>5, <4>1
      <3>6. ASSUME NEW n \in 0..(Len(file.blob.body) - 1),
                   torn = [file EXCEPT !.blob.body = SubSeq(@, 1, n)]
            PROVE  Sound(torn)
        <4>1. n \in Nat /\ n <= Len(file.blob.body)
          BY <3>4
        <4> QED
          BY <1>3, <2>1, <3>6, <4>1
      <3> QED
        BY <3>3, <3>5, <3>6
    <2>2. CASE file.kind # "blob"
      <3>1. IMAGE_HEADER_LEN \in Nat
        BY ElfAssumption
      <3>2. \/ \E n \in 0..(IMAGE_HEADER_LEN - 1) : torn = RawFile([c \in 1..n |-> HeaderByte])
            \/ torn = [file EXCEPT !.intact = FALSE]
        BY <2>2 DEF Torn
      <3>3. ASSUME NEW n \in 0..(IMAGE_HEADER_LEN - 1), torn = RawFile([c \in 1..n |-> HeaderByte])
            PROVE  Sound(torn)
        <4>1. n \in Nat
          BY <3>1
        <4> QED
          BY <1>2, <3>3, <4>1
      <3>4. ASSUME torn = [file EXCEPT !.intact = FALSE] PROVE Sound(torn)
        BY <1>4, <2>2, <3>4
      <3> QED
        BY <3>2, <3>3, <3>4
    <2> QED
      BY <2>1, <2>2
-----------------------------------------------------------------------------
(* The files there are, and none has been asked for anything.              *)
LEMMA Initially == Init => IInv
  <1> SUFFICES ASSUME Init PROVE IInv
    OBVIOUS
  <1>1. PICK first \in Names, file \in Inputs :
          /\ files = [n \in Names |-> IF n = first THEN file ELSE NoFile]
          /\ history = [n \in Names |-> IF n = first THEN History(file) ELSE NoHistory]
    BY DEF Init
  <1>2. Sound(file) /\ file \in Contents /\ file # NoFile
    BY ToolAssumption DEF Sound, Contents
  <1>3. NoHistory \in HistoryRecord /\ ~NoHistory.whole /\ History(file) \in HistoryRecord
    BY <1>2, CodeIsBytes DEF NoHistory, HistoryRecord
  <1>4. Keeps(file, History(file))
    BY DEF Keeps, History
  <1>5. FilesInv
    BY <1>1, <1>2, <1>3, <1>4 DEF FilesInv
  <1>6. PlanInv
    <2>1. NoInput \in Input
      BY DEF NoInput, RawFile, Input, Blob
    <2>2. app_partition_addr[DefaultChip] \in 0..(U32 - 1)
      BY ToolAssumption, PlanAssumption
    <2> QED
      BY <2>1, <2>2 DEF Init, PlanInv
  <1>7. CommandInv /\ OutputInv /\ BeforeInv
    BY ToolAssumption DEF Init, CommandInv, OutputInv, BeforeInv
  <1> QED
    BY <1>5, <1>6, <1>7 DEF IInv

(* What has been made stays what the command makes of its input.           *)
LEMMA SameOutput ==
  ASSUME OutputInv, UNCHANGED <<planVars, cmd, output>>
  PROVE  OutputInv'
  BY DEF OutputInv, MadeImage, MadePackage, PackageFile, Packed, PatchedElf, PatchedBin, Located, IntactElf,
         planVars, args

(* Arguments given, planning begins.                                       *)
LEMMA NewArguments ==
  ASSUME NEW in \in Input, NEW c \in Chips, NEW addr \in 0..(U32 - 1) \cup {NoAddr}, NEW name,
         Arguments(in, c, addr, name)
  PROVE  PlanInv'
  <1>1. app_partition_addr[c] \in 0..(U32 - 1)
    BY PlanAssumption
  <1> QED
    BY <1>1 DEF Arguments, PlanInv

(* A command starts on a file as its history has it.                       *)
LEMMA Starting ==
  ASSUME IInv, NEW op \in Ops, NEW in \in Names, NEW out \in Names, Start(op, in, out)
  PROVE  IInv'
  <1>1. PICK c \in Chips, addr \in AppAddrs, name \in AppNames : Arguments(files[in], c, addr, name)
    BY DEF Start
  <1>2. /\ phase = "idle" /\ phase' = "work" /\ files[in] # NoFile /\ before' = files
        /\ cmd' = [op |-> op, in |-> in, out |-> out, was |-> history[in]]
        /\ UNCHANGED <<files, output, history>>
    BY DEF Start
  <1>3. Sound(files[in]) /\ Keeps(files[in], history[in]) /\ history[in] \in HistoryRecord
    BY <1>2 DEF IInv, FilesInv, Keeps
  <1>4. files[in] \in Input /\ addr \in 0..(U32 - 1) \cup {NoAddr}
    BY <1>3, PlanAssumption DEF Sound, Contents
  <1>5. PlanInv'
    BY <1>1, <1>4, NewArguments
  <1>6. FilesInv'
    BY <1>2 DEF IInv, FilesInv
  <1>7. CommandInv'
    <2>1. input' = files[in] /\ app_name' = name
      BY <1>1 DEF Arguments
    <2>2. /\ cmd'.op = op /\ cmd'.out = out /\ cmd'.was = history[in] /\ output' = NoFile
      BY <1>2 DEF IInv, CommandInv
    <2> QED
      BY <1>2, <1>3, <2>1, <2>2 DEF CommandInv
  <1>8. OutputInv' /\ BeforeInv'
    BY <1>2 DEF IInv, CommandInv, OutputInv, BeforeInv
  <1> QED
    BY <1>5, <1>6, <1>7, <1>8 DEF IInv

(* Planning is FlashPlan's.                                                *)
LEMMA PlanningIt == ASSUME IInv, PlanIt PROVE IInv'
  <1>1. PlanStep /\ output = NoFile /\ UNCHANGED fileVars
    BY DEF PlanIt, Working
  <1>2. PlanInv'
    BY <1>1, PlanStepInv DEF IInv
  <1>3. UNCHANGED args
    BY <1>1 DEF PlanStep, HeaderedElf, BareElf, ElfFails, HeaderedBlob, RawBlob, PackageRefused,
                FromPackage, NoAppInPackage, ImageTooShort, ImageWithoutHeader, ImageTooLong,
                BuildPlan, Detected, PlanError
  <1>4. FilesInv' /\ CommandInv' /\ OutputInv' /\ BeforeInv'
    BY <1>1, <1>3 DEF IInv, FilesInv, CommandInv, OutputInv, BeforeInv, fileVars, args
  <1> QED
    BY <1>2, <1>4 DEF IInv

(* A command that fails leaves everything as it is.                        *)
LEMMA Failing == ASSUME IInv, PlanFailed \/ NameTooLong \/ PatchFails PROVE IInv'
  <1>1. /\ phase = "work" /\ phase' = "failed" /\ output = NoFile
        /\ UNCHANGED <<planVars, files, cmd, output, before, history>>
    BY DEF PlanFailed, NameTooLong, PatchFails, Fail, Working
  <1>2. PlanInv'
    BY <1>1, SamePlanInv DEF IInv
  <1>3. FilesInv' /\ CommandInv' /\ OutputInv' /\ BeforeInv'
    BY <1>1 DEF IInv, FilesInv, CommandInv, OutputInv, BeforeInv, planVars, args
  <1> QED
    BY <1>2, <1>3 DEF IInv

(* Each of the four ways to an output makes what OutputInv says of it.     *)
LEMMA Producing == ASSUME IInv, MakeImage \/ MakePackage \/ PatchElf \/ PatchBin PROVE IInv'
  <1>1. /\ phase = "work" /\ UNCHANGED <<planVars, files, phase, cmd, before, history>>
    BY DEF MakeImage, MakePackage, PatchElf, PatchBin, Produce, Working
  <1>2. PlanInv'
    BY <1>1, SamePlanInv DEF IInv
  <1>3. FilesInv' /\ CommandInv' /\ BeforeInv'
    BY <1>1 DEF IInv, FilesInv, CommandInv, BeforeInv, planVars, args
  <1>4. MadeImage' \/ MadePackage' \/ PatchedElf' \/ PatchedBin'
    <2>1. UNCHANGED <<cmd, input, app_name, pc, plan>>
      BY <1>1 DEF planVars, args
    <2>2. CASE MakeImage
      BY <2>1, <2>2 DEF MakeImage, MadeImage, Produce
    <2>3. CASE MakePackage
      BY <2>1, <2>3 DEF MakePackage, MadePackage, PackageFile, Packed, Produce
    <2>4. CASE PatchElf
      BY <2>1, <2>4 DEF PatchElf, PatchedElf, Located, IntactElf, Produce
    <2>5. CASE PatchBin
      BY <2>1, <2>5 DEF PatchBin, PatchedBin, Produce
    <2> QED
      BY <2>2, <2>3, <2>4, <2>5
  <1> QED
    BY <1>2, <1>3, <1>4 DEF IInv, OutputInv

(* An empty file is a raw body without a byte.                             *)
LEMMA EmptyIsSound == Sound(RawFile(<< >>))
  <1> DEFINE blob == [header |-> NoHeader, body |-> << >>]
  <1>1. blob \in Blob /\ HasMagic(blob)
    BY DEF Blob, HasMagic
  <1>2. RawFile(<< >>) = ImageFile(blob)
    BY DEF RawFile, ImageFile
  <1> HIDE DEF blob
  <1> QED
    BY <1>1, <1>2, BlobFile

(* What the output held is gone, and so is its history.                    *)
LEMMA Truncating == ASSUME IInv, Truncate PROVE IInv'
  <1>1. /\ phase = "work" /\ phase' = "write" /\ output # NoFile
        /\ files' = [files EXCEPT ![cmd.out] = RawFile(<< >>)]
        /\ history' = [history EXCEPT ![cmd.out] = NoHistory]
        /\ UNCHANGED <<planVars, cmd, output, before>>
    BY DEF Truncate
  <1>2. PlanInv' /\ OutputInv'
    BY <1>1, SamePlanInv, SameOutput DEF IInv
  <1>3. cmd.out \in Names
    BY <1>1 DEF IInv, CommandInv
  <1>4. FilesInv'
    <2>1. Sound(RawFile(<< >>)) /\ RawFile(<< >>) \in Contents
      BY EmptyIsSound DEF Sound
    <2>2. NoHistory \in HistoryRecord /\ ~NoHistory.whole
      BY DEF NoHistory, HistoryRecord
    <2> QED
      BY <1>1, <1>3, <2>1, <2>2 DEF IInv, FilesInv
  <1>5. CommandInv'
    <2>1. ~history'[cmd.out].whole
      BY <1>1, <1>3 DEF IInv, FilesInv, NoHistory
    <2> QED
      BY <1>1, <2>1 DEF IInv, CommandInv, planVars, args
  <1>6. BeforeInv'
    BY <1>1 DEF IInv, FilesInv, BeforeInv
  <1> QED
    BY <1>2, <1>4, <1>5, <1>6 DEF IInv

(* Where a made file goes is where its history says.                       *)
LEMMA MadeFileKeeps ==
  ASSUME PlanInv, CommandInv, OutputInv, output # NoFile, phase # "idle"
  PROVE  LET was == [cmd.was EXCEPT !.addr = Addressed]
         IN  /\ was \in HistoryRecord /\ was.whole = cmd.was.whole
             /\ Keeps(output, was)
  <1> DEFINE was == [cmd.was EXCEPT !.addr = Addressed]
  <1>1. /\ Sound(input) /\ app_name \in AppNames /\ Keeps(input, cmd.was) /\ cmd.was \in HistoryRecord
        /\ input \in Input
    BY DEF CommandInv, PlanInv
  <1>2. /\ Sound(output) /\ Trim(CodeOf(output)) = Trim(CodeOf(input))
        /\ AddrOf(output) = IF cmd.op = "pack" THEN base_addr ELSE NoAddr
        /\ cmd.op = "pack" => pc = "planned"
    BY MadeFromTheInput
  <1>3. /\ cmd.was.addr \in Nat \cup {NoAddr} /\ cmd.was.code \in Seq(Byte)
        /\ cmd.was.whole \in BOOLEAN /\ NoAddr \notin Nat
    BY <1>1, PlanAssumption DEF HistoryRecord
  <1>4. Addressed \in Nat \cup {NoAddr}
    <2>1. app_addr \in 0..(U32 - 1) \cup {NoAddr} /\ app_partition_addr[chip] \in 0..(U32 - 1)
      BY DEF PlanInv
    <2> QED
      BY <1>3, <2>1, PlanAssumption DEF Addressed
  <1>5. /\ was \in HistoryRecord /\ was.whole = cmd.was.whole /\ was.code = cmd.was.code
        /\ was.addr = Addressed
    BY <1>1, <1>4 DEF HistoryRecord
  <1>6. ASSUME cmd.was.whole, cmd.op = "pack" PROVE base_addr = Addressed
    <2>1. AddrOf(input) = cmd.was.addr
      BY <1>1, <1>6 DEF Keeps
    <2>2. CASE app_addr # NoAddr
      BY <1>6, <2>2 DEF base_addr, Addressed
    <2>3. CASE app_addr = NoAddr /\ input.kind = "fwpkg"
      <3>1. source = app_bin(input.bins) /\ source # NoBin
        BY <1>1, <1>2, <1>6, <2>3, TheAppIsPlanned
      <3>2. AddrOf(input) = source.burn_addr
        BY <2>3, <3>1 DEF AddrOf
      <3>3. source.burn_addr \in Nat
        BY <1>1, <2>3, <3>1, InputFields, GoodApp DEF Sound
      <3> QED
        BY <1>3, <1>6, <2>1, <2>3, <3>1, <3>2, <3>3 DEF base_addr, Addressed
    <2>4. CASE app_addr = NoAddr /\ input.kind # "fwpkg"
      <3>1. source = NoBin /\ AddrOf(input) = NoAddr
        BY <1>2, <1>6, <2>4, PlannedImage DEF AddrOf
      <3> QED
        BY <1>6, <2>1, <2>4, <3>1 DEF base_addr, Addressed
    <2> QED
      BY <2>2, <2>3, <2>4
  <1>7. cmd.op # "pack" => Addressed = NoAddr
    BY DEF Addressed
  <1>8. Keeps(output, was)
    <2> HIDE DEF was
    <2>1. SUFFICES ASSUME was.whole
                   PROVE  Trim(CodeOf(output)) = was.code /\ AddrOf(output) = was.addr
      BY DEF Keeps
    <2>2. Trim(CodeOf(input)) = cmd.was.code
      BY <1>1, <1>5, <2>1 DEF Keeps
    <2> QED
      BY <1>2, <1>5, <1>6, <1>7, <2>1, <2>2
  <1> QED
    BY <1>5, <1>8

(* The output is there, and has the history of the input.                  *)
LEMMA Completing == ASSUME IInv, Complete PROVE IInv'
  <1> DEFINE was == [cmd.was EXCEPT !.addr = Addressed]
  <1>1. /\ phase = "write" /\ phase' = "done" /\ files' = [files EXCEPT ![cmd.out] = output]
        /\ history' = [history EXCEPT ![cmd.out] = was]
        /\ UNCHANGED <<planVars, cmd, output, before>>
    BY DEF Complete
  <1>2. PlanInv' /\ OutputInv'
    BY <1>1, SamePlanInv, SameOutput DEF IInv
  <1>3. cmd.out \in Names /\ output # NoFile
    BY <1>1 DEF IInv, CommandInv
  <1>4. FilesInv'
    <2>1. Sound(output) /\ output \in Contents
      BY <1>3, MadeFromTheInput DEF IInv, Sound
    <2>2. was \in HistoryRecord /\ Keeps(output, was)
      BY <1>1, <1>3, MadeFileKeeps DEF IInv
    <2> HIDE DEF was
    <2> QED
      BY <1>1, <1>3, <2>1, <2>2 DEF IInv, FilesInv
  <1>5. CommandInv'
    BY <1>1, <1>3 DEF IInv, CommandInv, planVars, args
  <1>6. BeforeInv'
    BY <1>1 DEF IInv, FilesInv, BeforeInv
  <1> QED
    BY <1>2, <1>4, <1>5, <1>6 DEF IInv

(* A kill leaves the files, or a torn one that has no history.             *)
LEMMA Killing == ASSUME IInv, Kill PROVE IInv'
  <1>1. /\ phase \in {"work", "write"} /\ phase' = "killed"
        /\ UNCHANGED <<planVars, cmd, output, before, history>>
        /\ IF phase = "work" THEN UNCHANGED files
           ELSE \E torn \in Torn(output) : files' = [files EXCEPT ![cmd.out] = torn]
    BY DEF Kill
  <1>2. PlanInv' /\ OutputInv'
    BY <1>1, SamePlanInv, SameOutput DEF IInv
  <1>3. cmd.out \in Names
    BY <1>1 DEF IInv, CommandInv
  <1>4. CommandInv'
    BY <1>1 DEF IInv, CommandInv, planVars, args
  <1>5. CASE phase = "work"
    BY <1>1, <1>2, <1>4, <1>5 DEF IInv, FilesInv, BeforeInv
  <1>6. CASE phase = "write"
    <2>1. PICK torn \in Torn(output) : files' = [files EXCEPT ![cmd.out] = torn]
      BY <1>1, <1>6
    <2>2. Sound(torn) /\ torn \in Contents
      <3>1. Sound(output)
        BY <1>6, MadeFromTheInput DEF IInv, CommandInv
      <3> QED
        BY <3>1, TornIsSound DEF Sound
    <2>3. ~history[cmd.out].whole
      BY <1>6 DEF IInv, CommandInv
    <2>4. FilesInv'
      BY <1>1, <1>3, <2>1, <2>2, <2>3 DEF IInv, FilesInv
    <2>5. BeforeInv'
      BY <1>1, <1>6, <2>1 DEF IInv, FilesInv, BeforeInv
    <2> QED
      BY <1>2, <1>4, <2>4, <2>5 DEF IInv
  <1> QED
    BY <1>1, <1>5, <1>6

(* The next command finds the files as they are.                           *)
LEMMA Returning == ASSUME IInv, Return PROVE IInv'
  <1>1. /\ Arguments(NoInput, DefaultChip, NoAddr, "app")
        /\ phase' = "idle" /\ output' = NoFile /\ before' = files /\ UNCHANGED <<files, history>>
    BY DEF Return
  <1>2. PlanInv'
    <2>1. NoInput \in Input
      BY DEF NoInput, RawFile, Input, Blob
    <2> QED
      BY <1>1, <2>1, ToolAssumption, NewArguments
  <1>3. app_name' \in AppNames
    BY <1>1, ToolAssumption DEF Arguments
  <1>4. FilesInv' /\ CommandInv' /\ OutputInv' /\ BeforeInv'
    BY <1>1, <1>3 DEF IInv, FilesInv, CommandInv, OutputInv, BeforeInv
  <1> QED
    BY <1>2, <1>4 DEF IInv

(* A stutter changes nothing it speaks of.                                 *)
LEMMA NoStep == ASSUME IInv, UNCHANGED all PROVE IInv'
  <1>1. PlanInv' /\ OutputInv'
    BY SamePlanInv, SameOutput DEF IInv, all, fileVars
  <1>2. FilesInv' /\ CommandInv' /\ BeforeInv'
    BY DEF IInv, FilesInv, CommandInv, BeforeInv, all, fileVars, planVars, args
  <1> QED
    BY <1>1, <1>2 DEF IInv

(* Every step keeps the invariant.                                         *)
LEMMA Inductive == IInv /\ [Next]_all => IInv'
  BY Starting, PlanningIt, Failing, Producing, Truncating, Completing, Killing, Returning, NoStep
  DEF Next, OutOfCommands

(* It holds throughout, however commands are chained.                      *)
THEOREM ToolInvariant == Spec => []IInv
  BY Initially, Inductive, PTL DEF Spec

-----------------------------------------------------------------------------
(* Files and commands keep their types: no name that build_fwpkg refuses    *)
(* gets into a package, and what a command writes is there.                *)
THEOREM ToolTypes == Spec => []ToolTypeOK
  <1>1. ASSUME IInv PROVE ToolTypeOK
    <2>1. output # NoFile => output \in Contents
      BY <1>1, MadeFromTheInput DEF IInv, Sound
    <2> QED
      BY <1>1, <2>1 DEF IInv, FilesInv, CommandInv, ToolTypeOK, Sound
  <1> QED
    BY <1>1, ToolInvariant, PTL

(* The app that went in comes out, up to erased bytes at its end, whatever  *)
(* commands it has passed.                                                 *)
THEOREM ToolKeepsTheApp == Spec => []KeepsTheApp
  <1>1. ASSUME IInv PROVE KeepsTheApp
    BY <1>1 DEF IInv, FilesInv, Keeps, KeepsTheApp
  <1> QED
    BY <1>1, ToolInvariant, PTL

(* A package places its app where it was told last, and erases as much as   *)
(* it writes.                                                              *)
THEOREM ToolPlacesTheApp == Spec => []PackagesPlaceTheirApp
  <1>1. ASSUME IInv PROVE PackagesPlaceTheirApp
    <2>1. SUFFICES ASSUME NEW n \in Names, history[n].whole, files[n].kind = "fwpkg"
                   PROVE  /\ app_bin(files[n].bins).burn_addr = history[n].addr
                          /\ app_bin(files[n].bins).burn_size >= ImageLen(app_bin(files[n].bins).blob)
      BY DEF PackagesPlaceTheirApp
    <2>2. Sound(files[n]) /\ Keeps(files[n], history[n])
      BY <1>1, <2>1 DEF IInv, FilesInv
    <2>3. GoodPackage(files[n].bins) /\ AddrOf(files[n]) = history[n].addr
      BY <2>1, <2>2 DEF Sound, Keeps
    <2> QED
      BY <2>1, <2>3 DEF AddrOf, GoodPackage
  <1> QED
    BY <1>1, ToolInvariant, PTL

(* Failing and being killed leave every file but the output alone.         *)
THEOREM ToolChangesTheOutput == Spec => []OnlyTheOutputChanges
  <1>1. IInv => OnlyTheOutputChanges
    BY DEF IInv, BeforeInv, OnlyTheOutputChanges
  <1> QED
    BY <1>1, ToolInvariant, PTL

-----------------------------------------------------------------------------
(* What image and pack write is the planned image.                         *)
LEMMA ResultIsTheImage ==
  ASSUME IInv, phase = "done", cmd.op \in {"image", "pack"}
  PROVE  pc = "planned" /\ Result = image
  <1>1. MadeImage \/ MadePackage
    BY DEF IInv, CommandInv, OutputInv, PatchedElf, PatchedBin
  <1>2. pc = "planned" /\ plan.image = image
    BY <1>1, PlannedRanges DEF IInv, MadeImage, MadePackage
  <1>3. CASE MadeImage
    BY <1>2, <1>3 DEF MadeImage, ImageFile, Result
  <1>4. CASE MadePackage
    BY <1>2, <1>4 DEF MadePackage, PackageFile, Packed, Result
  <1> QED
    BY <1>1, <1>2, <1>3, <1>4

(* Every image that is made holds the bytes its hash covers: planning fills *)
(* in the tail, and a package brought a hash of no less.                   *)
THEOREM ToolImagesAreSelfContained == Spec => []MadeImagesAreSelfContained
  <1>1. ASSUME IInv PROVE MadeImagesAreSelfContained
    <2>1. SUFFICES ASSUME phase = "done", cmd.op \in {"image", "pack"}, Result.body # << >>
                   PROVE  SelfContained(Result)
      BY DEF MadeImagesAreSelfContained
    <2>2. pc = "planned" /\ Result = image
      BY <1>1, <2>1, ResultIsTheImage
    <2>3. /\ Verifies(image) /\ image \in Blob /\ image.header # NoHeader /\ image.header.key_id
          /\ image.header.code_area_len = 0 => Len(image.body) = 0
      BY <1>1, <2>1, <2>2, ToolImageVerifies DEF IInv, CommandInv
    <2>4. image.body \in Seq(Byte) /\ image.header.code_area_len \in Nat /\ Len(image.body) \in Nat
      BY <2>3, BlobFields
    <2>5. Len(image.body) # 0
      BY <2>1, <2>2, <2>4
    <2>6. image.header.code_area_len \in 1..Len(image.body)
      BY <2>3, <2>4, <2>5 DEF Verifies
    <2> QED
      BY <2>2, <2>3, <2>6 DEF SelfContained, Verifies, sha256, is_headered_image
  <1> QED
    BY <1>1, ToolInvariant, PTL

(* Hashing a self-contained image again, or filling it up, changes nothing. *)
LEMMA SelfContainedIsFixed ==
  ASSUME NEW blob \in Blob, SelfContained(blob)
  PROVE  /\ Patched(blob.header, blob.body) = blob /\ pad_image_to_code_area_len(blob) = blob
         /\ [blob EXCEPT !.header = patch_header(@, blob.body)] = blob
  <1>1. /\ blob.header \in Header /\ blob.body \in Seq(Byte) /\ Len(blob.body) \in Nat
        /\ blob.header.code_area_len \in Nat
    BY BlobFields DEF SelfContained, is_headered_image
  <1>2. /\ blob.header.code_area_len # 0 /\ blob.header.code_area_len <= Len(blob.body)
        /\ blob.header.code_area_hash = SubSeq(blob.body, 1, blob.header.code_area_len)
    BY <1>1 DEF SelfContained, sha256
  <1>3. hashed(blob.header, blob.body) = blob.header.code_area_hash
    BY <1>2 DEF hashed
  <1>4. patch_header(blob.header, blob.body) = blob.header
    BY <1>1, <1>2, <1>3 DEF patch_header, sha256, Header
  <1>5. pad_image_to_code_area_len(blob) = blob
    BY <1>2 DEF pad_image_to_code_area_len
  <1> QED
    BY <1>4, <1>5 DEF Patched, Blob

(* A self-contained image comes out of every command as it went in.        *)
THEOREM ToolSettledImagesStay == Spec => []SettledImagesStay
  <1>1. ASSUME IInv PROVE SettledImagesStay
    <2>1. SUFFICES ASSUME phase = "done", input.kind = "blob", SelfContained(input.blob)
                   PROVE  Result = input.blob
      BY DEF SettledImagesStay
    <2>2. PlanInv /\ input \in Input /\ input.blob \in Blob /\ is_headered_image(input.blob)
      BY <1>1, <2>1, InputFields DEF IInv, PlanInv, SelfContained
    <2>3. cmd.op \in Ops /\ output # NoFile
      BY <1>1, <2>1 DEF IInv, CommandInv
    <2>4. CASE cmd.op \in {"image", "pack"}
      <3>1. pc = "planned" /\ Result = image
        BY <1>1, <2>1, <2>4, ResultIsTheImage
      <3>2. PICK blob \in Blob : DetectedFrom(blob) /\ image = pad_image_to_code_area_len(blob)
        BY <2>2, <3>1 DEF PlanInv
      <3>3. blob = Patched(input.blob.header, input.blob.body)
        BY <2>1, <2>2, <3>2 DEF DetectedFrom
      <3> QED
        BY <2>1, <2>2, <3>1, <3>2, <3>3, SelfContainedIsFixed
    <2>5. CASE cmd.op = "patch-hash"
      <3>1. PatchedBin
        BY <1>1, <2>1, <2>3, <2>5 DEF IInv, OutputInv, MadeImage, MadePackage, PatchedElf, Located, IntactElf
      <3>2. input \in [kind: {"blob"}, blob: Blob]
        BY <2>1, <2>2 DEF Input
      <3>3. output.blob = [input.blob EXCEPT !.header = patch_header(@, input.blob.body)]
        BY <3>1, <3>2 DEF PatchedBin
      <3>4. Result = output.blob
        BY <2>5 DEF Result
      <3> QED
        BY <2>1, <2>2, <3>3, <3>4, SelfContainedIsFixed
    <2> QED
      BY <2>3, <2>4, <2>5 DEF Ops
  <1> QED
    BY <1>1, ToolInvariant, PTL

(* input_to_app_image makes what planning makes, of every input with both   *)
(* magics or none.                                                         *)
THEOREM ToolLibraryAgrees == Spec => []LibraryMakesTheSameImage
  <1>1. ASSUME IInv PROVE LibraryMakesTheSameImage
    <2>1. SUFFICES ASSUME pc = "planned", input.kind # "fwpkg",
                          input.kind = "blob" /\ input.blob.header # NoHeader => input.blob.header.code_id
                   PROVE  plan.image = input_to_app_image(input)
      BY DEF LibraryMakesTheSameImage
    <2>2. PlanInv /\ input \in Input /\ plan.image = image
      BY <1>1, <2>1, PlannedRanges DEF IInv, PlanInv
    <2>3. PICK blob \in Blob : /\ DetectedFrom(blob) /\ is_headered_image(blob)
                               /\ image = pad_image_to_code_area_len(blob)
      BY <2>1, <2>2 DEF PlanInv
    <2>4. CASE input.kind = "elf" /\ input.elf.boot_header # NoSection
      <3> DEFINE body == layout(input.elf, "locate")
                 patched == Patched(input.header, body)
      <3>1. input.header \in Header /\ body \in Seq(Byte) /\ blob = pad_image_to_code_area_len(patched)
        BY <2>2, <2>3, <2>4, InputFields, LayoutIsABody DEF DetectedFrom
      <3>2. input_to_app_image(input) = pad_image_to_code_area_len(patched)
        BY <2>4 DEF input_to_app_image, Patched
      <3>3. patched \in Blob /\ patched.header # NoHeader
        <4> HIDE DEF body
        <4>1. patched \in Blob /\ patch_header(input.header, body) # NoHeader
          BY <3>1, PatchedVerifies, PatchedHeader
        <4> QED
          BY <4>1 DEF Patched
      <3> HIDE DEF patched, body
      <3> QED
        BY <2>2, <2>3, <3>1, <3>2, <3>3, PaddedImage
    <2>5. CASE input.kind = "elf" /\ input.elf.boot_header = NoSection
      <3> DEFINE body == layout(input.elf, "flatten")
      <3>1. body \in Seq(Byte) /\ blob = build_app_image(body)
        BY <2>2, <2>3, <2>5, InputFields, LayoutIsABody DEF DetectedFrom
      <3>2. input_to_app_image(input) = build_app_image(body)
        BY <2>5 DEF input_to_app_image
      <3> HIDE DEF body
      <3> QED
        BY <2>2, <2>3, <3>1, <3>2, BuiltVerifies
    <2>6. CASE input.kind = "blob" /\ is_headered_image(input.blob)
      <3>1. blob = Patched(input.blob.header, input.blob.body)
        BY <2>3, <2>6 DEF DetectedFrom
      <3>2. input.blob \in Blob /\ is_headered_app_image(input.blob)
        BY <2>1, <2>2, <2>6, InputFields DEF is_headered_app_image, is_headered_image
      <3>3. [input.blob EXCEPT !.header = patch_header(@, input.blob.body)] = blob
        BY <3>1, <3>2 DEF Patched, Blob
      <3>4. input_to_app_image(input) = pad_image_to_code_area_len(blob)
        BY <2>6, <3>2, <3>3 DEF input_to_app_image
      <3> QED
        BY <2>2, <2>3, <3>4
    <2>7. CASE input.kind = "blob" /\ ~is_headered_image(input.blob)
      <3>1. blob = build_app_image(bytes(input.blob)) /\ bytes(input.blob) \in Seq(Byte)
        BY <2>2, <2>3, <2>7, InputFields, BytesOfAFile DEF DetectedFrom
      <3>2. input_to_app_image(input) = build_app_image(bytes(input.blob))
        BY <2>7 DEF input_to_app_image, is_headered_app_image
      <3> QED
        BY <2>2, <2>3, <3>1, <3>2, BuiltVerifies
    <2> QED
      BY <2>1, <2>2, <2>4, <2>5, <2>6, <2>7, InputFields
  <1> QED
    BY <1>1, ToolInvariant, PTL
=============================================================================

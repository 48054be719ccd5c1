---------------------------- MODULE MCToolchain ----------------------------
(* Two file names and one file to start from, of every kind: ELFs with and  *)
(* without a header, with a gap, with a linker-aligned tail; raw and       *)
(* headered blobs; packages with a loader and other data around the app.   *)
EXTENDS Toolchain, TLC

H(len) ==
  [key_id |-> TRUE, code_id |-> TRUE, code_area_len |-> len, code_uncompress_len |-> len,
   code_area_hash |-> NoDigest]

MCAppPartitionAddr == [c \in Chips |-> IF c = "Ws63" THEN 3 ELSE 1]

Seg(paddr, filesz, offset) ==
  [load |-> TRUE, paddr |-> paddr, filesz |-> filesz, offset |-> offset]

Elfs ==
  LET ElfFile(boot_header, segments, len) ==
        [kind |-> "elf", elf |-> [size |-> 6, boot_header |-> boot_header, segments |-> segments],
         header |-> H(len), intact |-> TRUE]
      Body == <<Seg(BODY_VADDR - 2, 2, 0), Seg(BODY_VADDR, 1, 3), Seg(BODY_VADDR + 2, 1, 4)>>
  IN  {ElfFile(0, Body, len) : len \in {0, 4}}
        \cup {ElfFile(NoSection, <<Seg(BODY_VADDR, 2, 3)>>, 0), ElfFile(0, <<Seg(0, 2, 0)>>, 0)}

Blobs ==
  {RawFile(<<1, 2>>), RawFile(<<1, Erased>>)}
    \cup {ImageFile([header |-> H(len), body |-> <<1, 2>>]) : len \in {0, 1, 3}}
    \cup {ImageFile([header |-> [H(1) EXCEPT !.code_area_hash = <<1>>], body |-> <<1, 2>>])}

Good == build_app_image(<<1, 2>>)

Bin(name, loader, size, blob) ==
  [name |-> name, app_like |-> name \in AppLikeNames, loader |-> loader,
   burn_addr |-> 5, burn_size |-> size, blob |-> blob]

Packages ==
  {[kind |-> "fwpkg", bins |-> bins, intact |-> TRUE] :
     bins \in {<<Bin("app", TRUE, 2, [header |-> NoHeader, body |-> <<7>>]),
                 Bin("nv", FALSE, 1, [header |-> NoHeader, body |-> <<8>>]),
                 Bin("my-app", FALSE, 9, Good)>>,
               <<Bin("nv", FALSE, 1, [header |-> NoHeader, body |-> <<8>>])>>}}

CONSTANTS a, b

FileSymmetry == Permutations(Names)

MCInputs == Elfs \cup Blobs \cup Packages
=============================================================================

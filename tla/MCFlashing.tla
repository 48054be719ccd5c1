----------------------------- MODULE MCFlashing -----------------------------
(* Headered and bare ELFs with gaps, linker-aligned tails and lengths       *)
(* shorter than the body; headered and raw blobs, one longer than an image *)
(* may be; packages whose app is found by each of the three searches, or   *)
(* not at all.  The header is one cell, a sector two; BODY_VADDR is right   *)
(* after one chip's app address.                                           *)
EXTENDS Flashing

H(id, len, hash) ==
  [key_id |-> TRUE, code_id |-> id, code_area_len |-> len, code_uncompress_len |-> len, code_area_hash |-> hash]

MCOldImage == [header |-> H(TRUE, 2, <<90, 91>>), body |-> <<90, 91>>]

Seg(load, paddr, filesz, offset) ==
  [load |-> load, paddr |-> paddr, filesz |-> filesz, offset |-> offset]

MCSegments ==
  {<<Seg(TRUE, BODY_VADDR - 1, 1, 0), Seg(TRUE, BODY_VADDR, 1, 1)>>,
   <<Seg(TRUE, BODY_VADDR + 2, 1, 2), Seg(FALSE, 0, 1, 0), Seg(TRUE, BODY_VADDR, 1, 1)>>,
   <<Seg(TRUE, BODY_VADDR, 2, 1), Seg(TRUE, BODY_VADDR + 1, 1, 3)>>,
   <<Seg(TRUE, BODY_VADDR - 1, 1, 0)>>,
   <<Seg(TRUE, BODY_VADDR, 2, 3)>>}

MCAppPartitionAddr == [c \in Chips |-> IF c = "Ws63" THEN 3 ELSE 1]

MCElfInputs ==
  [kind: {"elf"},
   elf: [size: {4}, boot_header: {0, 4, NoSection}, segments: MCSegments],
   header: {H(TRUE, len, NoDigest) : len \in {0, 1, 2, 4}}
             \cup {[H(TRUE, 1, NoDigest) EXCEPT !.key_id = FALSE]},
   intact: {TRUE}]

MCBlobs ==
  [header: {NoHeader, H(FALSE, 0, NoDigest)} \cup {H(TRUE, len, NoDigest) : len \in {0, 1, 3, U32 - 1}},
   body: {<< >>, <<1, 2>>}]

MCBlobInputs == [kind: {"blob"}, blob: MCBlobs]

Good == build_app_image(<<1, 2>>)

(* One whose verified length reaches past its end, one that gives none.    *)
Short == [header |-> H(TRUE, 4, <<1, 2, 3, Erased>>), body |-> <<1, 2, 3>>]
NoLength == [header |-> H(TRUE, 0, <<1, 2>>), body |-> <<1, 2>>]

MCBins ==
  LET Bin(name, app_like, loader, size, blob) ==
        [name |-> name, app_like |-> app_like, loader |-> loader,
         burn_addr |-> 5, burn_size |-> size, blob |-> blob]
  IN  {Bin("app", TRUE, FALSE, 3, Good),
       Bin("my-app", TRUE, FALSE, 6, Good),
       Bin("ota", TRUE, FALSE, 4, Short),
       Bin("nolen", FALSE, FALSE, 3, NoLength),
       Bin("app-loader", TRUE, TRUE, 3, [header |-> NoHeader, body |-> <<7>>]),
       Bin("nv", FALSE, FALSE, 1, [Good EXCEPT !.header.code_area_hash = NoDigest]),
       Bin("boot", FALSE, FALSE, 2, [header |-> NoHeader, body |-> << >>])}

MCPackages ==
  [kind: {"fwpkg"}, bins: UNION {[1..n -> MCBins] : n \in 0..2}, intact: {TRUE}]

MCDamaged ==
  {[kind |-> "fwpkg", bins |-> << >>, intact |-> FALSE],
   [kind |-> "elf", elf |-> [size |-> 0, boot_header |-> NoSection, segments |-> << >>],
    header |-> H(TRUE, 0, NoDigest), intact |-> FALSE]}

MCInputs == MCElfInputs \cup MCBlobInputs \cup MCPackages \cup MCDamaged
=============================================================================

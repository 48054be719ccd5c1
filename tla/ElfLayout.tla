------------------------------ MODULE ElfLayout ------------------------------
(***************************************************************************)
(* Laying an ELF out as a flash image.  Two functions of the crate do it,  *)
(* and every later step relies on their agreement:                         *)
(*   flatten_elf (elf.rs)   everything, from the lowest load address up;   *)
(*   locate_elf  (patch.rs) the body of a headered app, from BODY_VADDR up.*)
(* They share their shape, so one machine with a `mode` stands for both:   *)
(* a loop over the program headers, a stable sort by load address, a loop  *)
(* that copies the segments over an erased image.                          *)
(***************************************************************************)
EXTENDS ElfImage, Functions

CONSTANT Elfs       \* the files handed to the two functions

ASSUME ElfsAssumption == Elfs \subseteq Elf

Modes == {"flatten", "locate"}

VARIABLES
  elf, mode,   \* the argument, and which of the two functions runs
  pc,          \* "section", "collect", "copy", "done" or the reason of the Err
  k,           \* the program header, or the load, the current loop is at
  loads,       \* the collected segments, as indices of program headers
  base,        \* the flash address of the image's first byte
  image        \* the image: a function from 0 .. size - 1

vars == <<elf, mode, pc, k, loads, base, image>>

Failures == {"no boot header", "header truncated", "data out of bounds", "no load"}

segment(s) == elf.segments[s]

Init ==
  /\ elf \in Elfs /\ mode \in Modes
  /\ pc = IF mode = "locate" THEN "section" ELSE "collect"
  /\ k = 1 /\ loads = << >> /\ base = 0 /\ image = << >>

Fail(reason) == pc' = reason /\ UNCHANGED <<elf, mode, k, loads, base, image>>

NoHeaderSection == pc = "section" /\ elf.boot_header = NoSection /\ Fail("no boot header")

HeaderInFile == elf.boot_header + IMAGE_HEADER_LEN <= elf.size

HeaderTruncated ==
  pc = "section" /\ elf.boot_header # NoSection /\ ~HeaderInFile /\ Fail("header truncated")

HeaderFound ==
  /\ pc = "section" /\ elf.boot_header # NoSection /\ HeaderInFile
  /\ pc' = "collect"
  /\ UNCHANGED <<elf, mode, k, loads, base, image>>

(* The program headers that are `continue`d past are those not Kept.       *)
CollectSkip ==
  /\ pc = "collect" /\ k <= Len(elf.segments) /\ k \notin Kept(elf, mode)
  /\ k' = k + 1
  /\ UNCHANGED <<elf, mode, pc, loads, base, image>>

CollectLoad ==
  /\ pc = "collect" /\ k <= Len(elf.segments) /\ k \in Kept(elf, mode) /\ DataInFile(elf, k)
  /\ loads' = Append(loads, k)
  /\ k' = k + 1
  /\ UNCHANGED <<elf, mode, pc, base, image>>

CollectFail ==
  /\ pc = "collect" /\ k <= Len(elf.segments) /\ k \in Kept(elf, mode) /\ ~DataInFile(elf, k)
  /\ Fail("data out of bounds")

NothingCollected ==
  pc = "collect" /\ k > Len(elf.segments) /\ loads = << >> /\ Fail("no load")

(* A bug to be caught: the loads are left in the order of the headers.     *)
SortedLoads_FileOrder == {loads}

SortedLoads ==
  {order \in [1..Len(loads) -> Range(loads)] :
     /\ Range(order) = Range(loads)
     /\ \A a, b \in 1..Len(loads) : a < b => Before(elf, order[a], order[b])}

(* Sort, take the base and the highest end, and erase an image that large. *)
Sort ==
  /\ pc = "collect" /\ k > Len(elf.segments) /\ loads # << >>
  /\ \E order \in SortedLoads, last \in Range(loads) :
       /\ \A s \in Range(loads) : End(segment(s)) <= End(segment(last))
       /\ loads' = order
       /\ base' = IF mode = "locate" THEN BODY_VADDR ELSE segment(order[1]).paddr
       /\ image' = [c \in 0..(End(segment(last)) - base' - 1) |-> Erased]
  /\ pc' = "copy" /\ k' = 1
  /\ UNCHANGED <<elf, mode>>

(* The cells of the slice image[start .. start + data.len()].              *)
Slice(s) == (segment(s).paddr - base)..(End(segment(s)) - base - 1)

(* A bug to be caught: bytes a segment has written are not overwritten.    *)
Copied_FirstWins(s) ==
  [c \in DOMAIN image |->
     IF c \in Slice(s) /\ image[c] = Erased THEN ByteAt(segment(s), base + c) ELSE image[c]]

Copied(s) ==
  [c \in DOMAIN image |-> IF c \in Slice(s) THEN ByteAt(segment(s), base + c) ELSE image[c]]

Copy ==
  /\ pc = "copy"
  /\ image' = Copied(loads[k])
  /\ IF k = Len(loads) THEN pc' = "done" /\ UNCHANGED k ELSE k' = k + 1 /\ UNCHANGED pc
  /\ UNCHANGED <<elf, mode, loads, base>>

Returned == pc \in Failures \cup {"done"} /\ UNCHANGED vars

Step == NoHeaderSection \/ HeaderTruncated \/ HeaderFound \/ CollectSkip \/ CollectLoad
          \/ CollectFail \/ NothingCollected \/ Sort \/ Copy

Next == Step \/ Returned

Spec == Init /\ [][Next]_vars

-----------------------------------------------------------------------------
(* The types of the layout's state; every byte of the image is a byte of   *)
(* the file or erased.                                                     *)
ElfTypeOK ==
  /\ elf \in Elf /\ mode \in Modes
  /\ pc \in Failures \cup {"section", "collect", "copy", "done"}
  /\ k \in 1..(Len(elf.segments) + 1)
  /\ loads \in Seq(1..Len(elf.segments))
  /\ base \in Nat
  /\ DOMAIN image \subseteq Nat
  /\ image \in [DOMAIN image -> 0..(elf.size - 1) \cup {Erased}]

(* image[start..start + data.len()] never panics: no segment starts below  *)
(* the base (the subtraction is unsigned) or ends past the image.          *)
CopiesStayInside ==
  pc = "copy" =>
    /\ base <= segment(loads[k]).paddr
    /\ Slice(loads[k]) \subseteq DOMAIN image

(* The finished image is the load map of the segments that were kept: every *)
(* address one of them covers is there, with the byte a loader would leave *)
(* in flash, and every other byte is erased.  Both functions satisfy it,   *)
(* so where both keep a segment they agree byte for byte.                  *)
ImageIsLoadMap ==
  pc = "done" =>
    /\ \A s \in Kept(elf, mode) : Slice(s) \subseteq DOMAIN image
    /\ \A c \in DOMAIN image : image[c] = LoadMap(elf, Kept(elf, mode), base + c)

(* "The body is the flash-resident PT_LOAD content at vaddr >= 0x230300":  *)
(* no byte an ELF loads there is missing from the body that gets hashed.   *)
BodyIsFlashContent ==
  pc = "done" /\ mode = "locate" =>
    \A c \in DOMAIN image : image[c] = LoadMap(elf, Loadable(elf), base + c)
=============================================================================

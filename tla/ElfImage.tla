------------------------------ MODULE ElfImage ------------------------------
(***************************************************************************)
(* ELF files and the flash they describe, without the code that lays them  *)
(* out: what a segment covers, which segments each function keeps, and the *)
(* byte every flash address ends up with.  ElfLayout models the loops that *)
(* compute it; the modules that only need the result take it from here.    *)
(*                                                                         *)
(* A byte of the file is named by its offset.  An ELF is its size, where   *)
(* its .boot_header section starts (NoSection: it has none), and its       *)
(* program headers.                                                        *)
(***************************************************************************)
EXTENDS Integers, Sequences

CONSTANTS
  BODY_VADDR,        \* where the body of a headered app starts in flash
  IMAGE_HEADER_LEN,
  Erased,            \* 0xFF, the byte of erased NOR flash
  NoSection

Segment == [load: BOOLEAN, paddr: Nat, filesz: Nat, offset: Nat]

Elf == [size: Nat, boot_header: Nat \cup {NoSection}, segments: Seq(Segment)]

ASSUME ElfAssumption ==
  /\ BODY_VADDR \in Nat /\ IMAGE_HEADER_LEN \in Nat
  /\ Erased \notin Nat /\ NoSection \notin Nat

End(segment) == segment.paddr + segment.filesz

(* PT_LOAD segments with bytes in the file.                                *)
Loadable(e) == {s \in 1..Len(e.segments) : e.segments[s].load /\ e.segments[s].filesz # 0}

(* What flatten_elf keeps, and what locate_elf does.                       *)
Kept(e, mode) ==
  {s \in Loadable(e) : mode = "locate" => e.segments[s].paddr >= BODY_VADDR}

(* A bug to be caught: only the start of the data is looked at.            *)
DataInFile_StartOnly(e, s) == e.segments[s].offset < e.size

DataInFile(e, s) == e.segments[s].offset + e.segments[s].filesz <= e.size

(* sort_by_key is stable: equal addresses keep the order of the headers.   *)
Before(e, s, t) ==
  \/ e.segments[s].paddr < e.segments[t].paddr
  \/ e.segments[s].paddr = e.segments[t].paddr /\ s < t

Covers(segment, addr) == segment.paddr <= addr /\ addr < End(segment)

ByteAt(segment, addr) == segment.offset + (addr - segment.paddr)

(* The flash a loader leaves behind when it erases it and writes the given *)
(* segments in address order: the last one that covers an address wins.    *)
LoadMap(e, segments, addr) ==
  LET covering == {s \in segments : Covers(e.segments[s], addr)}
  IN  IF covering = {} THEN Erased
      ELSE LET top == CHOOSE s \in covering : \A t \in covering : ~Before(e, s, t)
           IN  ByteAt(e.segments[top], addr)
=============================================================================

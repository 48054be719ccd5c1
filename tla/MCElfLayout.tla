---------------------------- MODULE MCElfLayout ----------------------------
(* Up to three program headers around BODY_VADDR: below it, straddling it,  *)
(* at it, above it with gaps, overlapping, empty, and cut off by the end of *)
(* the file.                                                               *)
EXTENDS ElfLayout

CONSTANTS MaxSegments, FileSize

MCSegments ==
  [load: {TRUE}, paddr: 2..5, filesz: 0..2, offset: {0, FileSize - 2, FileSize - 1}]
    \cup [load: {FALSE}, paddr: {3}, filesz: {1}, offset: {0}]

MCElfs ==
  [size: {FileSize}, boot_header: {NoSection, 0, FileSize},
   segments: UNION {[1..n -> MCSegments] : n \in 0..(MaxSegments - 1)}]
  \cup
  [size: {FileSize}, boot_header: {0},
   segments: [1..MaxSegments -> {s \in MCSegments : s.load /\ s.filesz > 0 /\ s.offset < FileSize - 1}]]
=============================================================================

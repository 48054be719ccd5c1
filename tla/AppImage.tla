------------------------------ MODULE AppImage ------------------------------
(***************************************************************************)
(* App images, headered blobs, and the functions that make them: header    *)
(* construction, re-hashing, and the erased tail.                          *)
(*                                                                         *)
(* A blob is a sequence of bytes that may start with an image header; the  *)
(* header is a record of the fields the code reads and writes, NoHeader    *)
(* when the blob does not start with the key-area magic: all its bytes are *)
(* body then.  Only an ELF's .boot_header is taken for a header whether or *)
(* not the magic (key_id) is in it.  A byte is an ELF file offset, another *)
(* natural, or Erased; HeaderByte is any byte of a header that is taken for *)
(* body.  A SHA-256 digest is the content that was hashed: equal digests   *)
(* mean equal contents.                                                    *)
(***************************************************************************)
EXTENDS ElfImage, FiniteSets

CONSTANTS
  NoHeader,
  NoDigest,    \* the hash field before it is filled in
  HeaderByte

Byte == Nat \cup {Erased, HeaderByte}

Header == [key_id: BOOLEAN, code_id: BOOLEAN,  \* the two magics are there
           code_area_len: Nat, code_uncompress_len: Nat,
           code_area_hash: Seq(Byte) \cup {NoDigest}]

Blob == [header: Header \cup {NoHeader}, body: Seq(Byte)]

sha256(bytes) == bytes

erased_tail(n) == [c \in 1..n |-> Erased]

(* The whole file as bytes, which is what a function gets that takes it for *)
(* a raw body.                                                             *)
bytes(blob) ==
  (IF blob.header = NoHeader THEN << >> ELSE [c \in 1..IMAGE_HEADER_LEN |-> HeaderByte])
    \o blob.body

(* A bug to be caught: a header that waits for its hash is taken for body.  *)
is_headered_image_Patched(blob) ==
  blob.header # NoHeader /\ blob.header.key_id /\ blob.header.code_area_hash # NoDigest

(* is_headered_image: only the key-area magic counts.                      *)
is_headered_image(blob) == blob.header # NoHeader /\ blob.header.key_id

build_image_header(body) ==
  [key_id |-> TRUE, code_id |-> TRUE, code_area_len |-> Len(body),
   code_uncompress_len |-> Len(body), code_area_hash |-> sha256(body)]

build_app_image(body) == [header |-> build_image_header(body), body |-> body]

(* A bug to be caught: the tail is hashed, but not written.                *)
pad_image_NoTail(blob) == blob

(* Bytes up to code_area_len that the file does not have become erased.    *)
pad_image_to_code_area_len(blob) ==
  IF blob.header.code_area_len <= Len(blob.body) THEN blob
  ELSE [blob EXCEPT !.body =
          blob.body \o erased_tail(blob.header.code_area_len - Len(blob.body))]

(* The content patch_header hashes: code_area_len bytes, all of the body    *)
(* when that is zero, with an erased tail where the body ends early.       *)
hashed(header, body) ==
  LET hashed_len == IF header.code_area_len = 0 THEN Len(body) ELSE header.code_area_len
  IN  IF hashed_len <= Len(body) THEN SubSeq(body, 1, hashed_len)
      ELSE body \o erased_tail(hashed_len - Len(body))

(* A bug to be caught: the whole body is hashed, whatever code_area_len.   *)
patch_header_WholeBody(header, body) == [header EXCEPT !.code_area_hash = sha256(body)]

patch_header(header, body) ==
  LET len == IF header.code_area_len = 0 THEN Len(body) ELSE header.code_area_len
      unc == IF header.code_area_len = 0 THEN Len(body) ELSE header.code_uncompress_len
  IN  [header EXCEPT !.code_area_len = len, !.code_uncompress_len = unc,
                     !.code_area_hash = sha256(hashed(header, body))]

-----------------------------------------------------------------------------
(* The bodies the two layout functions return, in closed form: that the    *)
(* loops compute it is ElfLayout's ImageIsLoadMap.                         *)
LastEnd(e, kept) == CHOOSE n \in {End(e.segments[s]) : s \in kept} :
                      \A s \in kept : End(e.segments[s]) <= n

FirstPaddr(e, kept) == CHOOSE n \in {e.segments[s].paddr : s \in kept} :
                         \A s \in kept : n <= e.segments[s].paddr

layout(e, mode) ==
  LET kept == Kept(e, mode)
      base == IF mode = "locate" THEN BODY_VADDR ELSE FirstPaddr(e, kept)
  IN  [c \in 1..(LastEnd(e, kept) - base) |-> LoadMap(e, kept, base + c - 1)]

(* The errors they return in its place.                                    *)
LayoutFails(e, mode) ==
  \/ mode = "locate" /\ e.boot_header + IMAGE_HEADER_LEN > e.size
  \/ Kept(e, mode) = {}
  \/ \E s \in Kept(e, mode) : ~DataInFile(e, s)
=============================================================================

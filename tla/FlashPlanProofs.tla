-------------------------- MODULE FlashPlanProofs --------------------------
(***************************************************************************)
(* What planning makes of an input, for every input: the image is one that *)
(* can be verified, its bytes are those of the input, and the plan is that *)
(* image's.  Flashing's proofs build on it.                                *)
(***************************************************************************)
EXTENDS FlashPlan, WellFoundedInduction, TLAPS

-----------------------------------------------------------------------------
(* Least and greatest naturals.                                            *)
LEMMA LeastNatural ==
  ASSUME NEW T \in SUBSET Nat, T # {}
  PROVE  \E n \in T : \A m \in T : n <= m
  <1> DEFINE Less == {ss \in Nat \X Nat : ss[1] < ss[2]}
  <1>1. IsWellFoundedOn(Less, Nat)
    <2>1. OpToRel(<, Nat) = Less
      BY Zenon DEF OpToRel
    <2> QED
      BY <2>1, NatLessThanWellFounded, Zenon
  <1>2. \A m, n \in Nat : <<m, n>> \in Less <=> m < n
    OBVIOUS
  <1> HIDE DEF Less
  <1>3. PICK n \in T : \A m \in T : <<m, n>> \notin Less
    BY <1>1, WFMin
  <1>4. ASSUME NEW m \in T PROVE n <= m
    <2>1. m \in Nat /\ n \in Nat /\ ~(m < n)
      BY <1>2, <1>3
    <2> QED
      BY <2>1
  <1> QED
    BY <1>4

(* The greatest of a bounded set of naturals.                              *)
LEMMA GreatestNatural ==
  ASSUME NEW T \in SUBSET Nat, T # {}, NEW b \in Nat, \A m \in T : m <= b
  PROVE  \E n \in T : \A m \in T : m <= n
  <1> DEFINE U == {b - m : m \in T}
  <1>1. U \in SUBSET Nat
    OBVIOUS
  <1>2. U # {}
    OBVIOUS
  <1>3. PICK d \in U : \A e \in U : d <= e
    BY <1>1, <1>2, LeastNatural
  <1>4. PICK n \in T : d = b - n
    OBVIOUS
  <1>5. ASSUME NEW m \in T PROVE m <= n
    <2>1. m \in Nat /\ n \in Nat /\ b - m \in U
      OBVIOUS
    <2>2. b - n <= b - m
      BY <1>3, <1>4, <2>1
    <2> QED
      BY <2>1, <2>2
  <1> QED
    BY <1>5

(* A function with finitely many arguments has a greatest value: the least  *)
(* n up to which it has no bound does not exist.                           *)
LEMMA GreatestValue ==
  ASSUME NEW N \in Nat, NEW S \in SUBSET (1..N), S # {}, NEW F \in [S -> Nat]
  PROVE  \E t \in S : \A s \in S : F[s] <= F[t]
  <1> DEFINE Bounded(n) == \E b \in Nat : \A s \in S : s <= n => F[s] <= b
             Bad == {n \in Nat : ~Bounded(n)}
  <1>1. Bad = {}
    <2>1. SUFFICES ASSUME Bad # {} PROVE FALSE
      OBVIOUS
    <2>2. PICK n \in Bad : \A m \in Bad : n <= m
      <3>1. Bad \in SUBSET Nat
        OBVIOUS
      <3> HIDE DEF Bad
      <3> QED
        BY <2>1, <3>1, LeastNatural
    <2>3. n # 0
      <3>1. \A s \in S : ~(s <= 0)
        OBVIOUS
      <3>2. Bounded(0)
        BY <3>1
      <3> QED
        BY <3>2
    <2>4. n - 1 \in Nat /\ Bounded(n - 1)
      <3>1. n - 1 \in Nat /\ n \in Nat /\ ~(n <= n - 1)
        BY <2>3
      <3>2. n - 1 \notin Bad
        BY <2>2, <3>1
      <3> HIDE DEF Bounded
      <3> QED
        BY <3>1, <3>2
    <2>5. PICK b \in Nat : \A s \in S : s <= n - 1 => F[s] <= b
      BY <2>4
    <2>6. CASE n \in S
      <3>1. F[n] \in Nat
        BY <2>6
      <3> DEFINE c == IF F[n] <= b THEN b ELSE F[n]
      <3>2. c \in Nat /\ b <= c /\ F[n] <= c
        BY <3>1, <2>5
      <3>3. ASSUME NEW s \in S, s <= n PROVE F[s] <= c
        <4>1. F[s] \in Nat /\ s \in Nat /\ n \in Nat
          OBVIOUS
        <4>2. CASE s = n
          BY <3>2, <4>2
        <4>3. CASE s # n
          <5>1. s <= n - 1
            BY <3>3, <4>1, <4>3
          <5>2. F[s] <= b
            BY <2>5, <5>1
          <5> QED
            BY <3>2, <4>1, <5>2
        <4> QED
          BY <4>2, <4>3
      <3> HIDE DEF c
      <3>4. Bounded(n)
        BY <3>2, <3>3
      <3> QED
        BY <3>4
    <2>7. CASE n \notin S
      <3>1. \A s \in S : s <= n => s <= n - 1
        BY <2>7
      <3>2. Bounded(n)
        BY <2>5, <3>1
      <3> QED
        BY <3>2
    <2> QED
      BY <2>6, <2>7
  <1>2. Bounded(N)
    <2> HIDE DEF Bounded
    <2> QED
      BY <1>1
  <1>3. PICK b \in Nat : \A s \in S : F[s] <= b
    <2>1. \A s \in S : s <= N
      OBVIOUS
    <2> QED
      BY <1>2, <2>1
  <1> DEFINE T == {F[s] : s \in S}
  <1>4. T \in SUBSET Nat /\ T # {} /\ \A m \in T : m <= b
    BY <1>3
  <1>5. PICK n \in T : \A m \in T : m <= n
    <2> HIDE DEF T
    <2> QED
      BY <1>4, GreatestNatural
  <1>6. PICK t \in S : n = F[t]
    OBVIOUS
  <1>7. \A s \in S : F[s] \in T
    OBVIOUS
  <1> HIDE DEF T
  <1> QED
    BY <1>5, <1>6, <1>7

-----------------------------------------------------------------------------
(* What an ELF is made of.                                                 *)
LEMMA KeptFields ==
  ASSUME NEW e \in Elf, NEW mode, NEW s \in Kept(e, mode)
  PROVE  /\ s \in 1..Len(e.segments) /\ Len(e.segments) \in Nat /\ e.size \in Nat
         /\ e.segments[s].paddr \in Nat /\ e.segments[s].filesz \in Nat \ {0}
         /\ e.segments[s].offset \in Nat
         /\ End(e.segments[s]) \in Nat /\ e.segments[s].paddr < End(e.segments[s])
         /\ mode = "locate" => BODY_VADDR <= e.segments[s].paddr
  <1>1. e.segments \in Seq(Segment) /\ e.size \in Nat
    BY DEF Elf
  <1>2. /\ s \in 1..Len(e.segments) /\ e.segments[s].filesz # 0
        /\ mode = "locate" => e.segments[s].paddr >= BODY_VADDR
    BY DEF Kept, Loadable
  <1>3. e.segments[s] \in Segment
    BY <1>1, <1>2
  <1>4. e.segments[s].paddr \in Nat /\ e.segments[s].filesz \in Nat /\ e.segments[s].offset \in Nat
    BY <1>3 DEF Segment
  <1> QED
    BY <1>1, <1>2, <1>4, ElfAssumption DEF End

(* The image reaches to the end of the last segment.                       *)
LEMMA LastEndIsLast ==
  ASSUME NEW e \in Elf, NEW mode, Kept(e, mode) # {}
  PROVE  /\ LastEnd(e, Kept(e, mode)) \in Nat
         /\ \E s \in Kept(e, mode) : LastEnd(e, Kept(e, mode)) = End(e.segments[s])
         /\ \A s \in Kept(e, mode) : End(e.segments[s]) <= LastEnd(e, Kept(e, mode))
  <1> DEFINE kept == Kept(e, mode)
             F == [s \in kept |-> End(e.segments[s])]
             Ends == {End(e.segments[s]) : s \in kept}
  <1>1. /\ F \in [kept -> Nat] /\ kept \in SUBSET (1..Len(e.segments)) /\ Len(e.segments) \in Nat
        /\ \A s \in kept : End(e.segments[s]) \in Nat
    BY KeptFields
  <1>2. PICK t \in kept : \A s \in kept : F[s] <= F[t]
    <2> HIDE DEF F, kept
    <2>1. kept # {}
      BY DEF kept
    <2> QED
      BY <1>1, <2>1, GreatestValue
  <1>3. End(e.segments[t]) \in Ends /\ \A s \in kept : End(e.segments[s]) <= End(e.segments[t])
    BY <1>2
  <1>4. LastEnd(e, kept) = CHOOSE n \in Ends : \A s \in kept : End(e.segments[s]) <= n
    BY Zenon DEF LastEnd
  <1> HIDE DEF Ends, kept
  <1>5. LastEnd(e, kept) \in Ends /\ \A s \in kept : End(e.segments[s]) <= LastEnd(e, kept)
    BY <1>3, <1>4
  <1>6. \E s \in kept : LastEnd(e, kept) = End(e.segments[s])
    BY <1>5 DEF Ends
  <1> QED
    BY <1>1, <1>5, <1>6 DEF kept

(* The flattened image starts with the first segment.                      *)
LEMMA FirstPaddrIsFirst ==
  ASSUME NEW e \in Elf, NEW mode, Kept(e, mode) # {}
  PROVE  /\ FirstPaddr(e, Kept(e, mode)) \in Nat
         /\ \A s \in Kept(e, mode) : FirstPaddr(e, Kept(e, mode)) <= e.segments[s].paddr
  <1> DEFINE kept == Kept(e, mode)
             Starts == {e.segments[s].paddr : s \in kept}
  <1>1. Starts \in SUBSET Nat /\ Starts # {}
    BY KeptFields
  <1>2. PICK n \in Starts : \A m \in Starts : n <= m
    <2> HIDE DEF Starts
    <2> QED
      BY <1>1, LeastNatural
  <1>3. \A s \in kept : n <= e.segments[s].paddr
    BY <1>2
  <1>4. FirstPaddr(e, kept) = CHOOSE x \in Starts : \A s \in kept : x <= e.segments[s].paddr
    BY Zenon DEF FirstPaddr
  <1> HIDE DEF Starts, kept
  <1>5. FirstPaddr(e, kept) \in Starts /\ \A s \in kept : FirstPaddr(e, kept) <= e.segments[s].paddr
    BY <1>3, <1>4
  <1> QED
    BY <1>1, <1>5 DEF kept

(* Of the segments that cover an address one is the last in address order: *)
(* of those that start highest, the one with the greatest index.           *)
LEMMA SomeSegmentIsLast ==
  ASSUME NEW e \in Elf, NEW mode, NEW covering \in SUBSET Kept(e, mode), covering # {}
  PROVE  \E s \in covering : \A t \in covering : ~Before(e, s, t)
  <1> DEFINE F == [s \in covering |-> e.segments[s].paddr]
  <1>1. /\ \A s \in covering : e.segments[s].paddr \in Nat /\ s \in 1..Len(e.segments)
        /\ Len(e.segments) \in Nat
    BY KeptFields
  <1>2. F \in [covering -> Nat] /\ covering \in SUBSET (1..Len(e.segments))
    BY <1>1
  <1>3. PICK u \in covering : \A s \in covering : F[s] <= F[u]
    <2> HIDE DEF F
    <2> QED
      BY <1>1, <1>2, GreatestValue
  <1>4. \A s \in covering : e.segments[s].paddr <= e.segments[u].paddr
    BY <1>3
  <1> DEFINE Highest == {s \in covering : e.segments[s].paddr = e.segments[u].paddr}
  <1>5. Highest \in SUBSET Nat /\ Highest # {} /\ \A s \in Highest : s <= Len(e.segments)
    BY <1>1
  <1>6. PICK s \in Highest : \A t \in Highest : t <= s
    <2> HIDE DEF Highest
    <2> QED
      BY <1>1, <1>5, GreatestNatural
  <1>7. ASSUME NEW t \in covering PROVE ~Before(e, s, t)
    <2>1. e.segments[s].paddr = e.segments[u].paddr /\ e.segments[t].paddr <= e.segments[u].paddr
      BY <1>4
    <2>2. e.segments[t].paddr = e.segments[u].paddr => t <= s
      BY <1>6
    <2>3. /\ e.segments[s].paddr \in Nat /\ e.segments[t].paddr \in Nat
          /\ s \in Nat /\ t \in Nat
      BY <1>1
    <2> HIDE DEF Highest
    <2> QED
      BY <2>1, <2>2, <2>3 DEF Before
  <1> QED
    BY <1>7

(* Every byte of a load map is a byte of the file, or erased.              *)
LEMMA LoadMapIsInFile ==
  ASSUME NEW e \in Elf, NEW mode, \A s \in Kept(e, mode) : DataInFile(e, s), NEW addr \in Nat
  PROVE  /\ LoadMap(e, Kept(e, mode), addr) \in 0..(e.size - 1) \cup {Erased}
         /\ (\A s \in Kept(e, mode) : ~Covers(e.segments[s], addr))
              => LoadMap(e, Kept(e, mode), addr) = Erased
  <1> DEFINE kept == Kept(e, mode)
             covering == {s \in kept : Covers(e.segments[s], addr)}
             top == CHOOSE s \in covering : \A t \in covering : ~Before(e, s, t)
  <1>1. LoadMap(e, kept, addr) = IF covering = {} THEN Erased ELSE ByteAt(e.segments[top], addr)
    BY Zenon DEF LoadMap
  <1>2. CASE covering = {}
    BY <1>1, <1>2
  <1>3. CASE covering # {}
    <2>1. \E s \in covering : \A t \in covering : ~Before(e, s, t)
      BY <1>3, SomeSegmentIsLast
    <2>2. top \in covering
      <3> HIDE DEF covering
      <3> QED
        BY <2>1
    <2> HIDE DEF top
    <2>3. top \in Kept(e, mode) /\ Covers(e.segments[top], addr) /\ DataInFile(e, top)
      BY <2>2
    <2>4. ByteAt(e.segments[top], addr) \in 0..(e.size - 1)
      <3>1. /\ e.segments[top].paddr \in Nat /\ e.segments[top].filesz \in Nat
            /\ e.segments[top].offset \in Nat /\ e.size \in Nat
        BY <2>3, KeptFields
      <3>2. /\ e.segments[top].paddr <= addr
            /\ addr < e.segments[top].paddr + e.segments[top].filesz
            /\ e.segments[top].offset + e.segments[top].filesz <= e.size
        BY <2>3 DEF Covers, DataInFile, End
      <3> QED
        BY <3>1, <3>2 DEF ByteAt
    <2> QED
      BY <1>1, <1>3, <2>3, <2>4
  <1> QED
    BY <1>2, <1>3

(* The bytes of a layout, and what each of them is.                        *)
LEMMA LayoutBytes ==
  ASSUME NEW e \in Elf, NEW mode \in {"flatten", "locate"}, ~LayoutFails(e, mode)
  PROVE  /\ layout(e, mode) \in Seq(0..(e.size - 1) \cup {Erased})
         /\ Len(layout(e, mode)) > 0
         /\ mode = "locate" =>
              /\ Len(layout(e, mode)) = LastEnd(e, Kept(e, mode)) - BODY_VADDR
              /\ \A c \in 1..Len(layout(e, mode)) :
                   layout(e, mode)[c] = LoadMap(e, Kept(e, mode), BODY_VADDR + c - 1)
  <1> DEFINE kept == Kept(e, mode)
             base == IF mode = "locate" THEN BODY_VADDR ELSE FirstPaddr(e, kept)
             n == LastEnd(e, kept) - base
  <1>1. kept # {} /\ \A s \in kept : DataInFile(e, s)
    BY DEF LayoutFails
  <1>2. layout(e, mode) = [c \in 1..n |-> LoadMap(e, kept, base + c - 1)]
    BY Zenon DEF layout
  <1>3. base \in Nat /\ \A s \in kept : base <= e.segments[s].paddr
    BY <1>1, KeptFields, FirstPaddrIsFirst, ElfAssumption
  <1>4. n \in Nat /\ n > 0
    <2>1. PICK s \in kept : LastEnd(e, kept) = End(e.segments[s])
      BY <1>1, LastEndIsLast
    <2>2. base <= e.segments[s].paddr /\ e.segments[s].paddr \in Nat
          /\ End(e.segments[s]) \in Nat /\ e.segments[s].paddr < End(e.segments[s])
      BY <1>3, KeptFields
    <2> HIDE DEF base, kept
    <2> QED
      BY <1>3, <2>1, <2>2
  <1>5. ASSUME NEW c \in 1..n
        PROVE  LoadMap(e, kept, base + c - 1) \in 0..(e.size - 1) \cup {Erased}
    <2>1. base + c - 1 \in Nat
      <3> HIDE DEF n, base
      <3> QED
        BY <1>3, <1>4
    <2> HIDE DEF base
    <2> QED
      BY <1>1, <2>1, LoadMapIsInFile
  <1>6. /\ layout(e, mode) \in Seq(0..(e.size - 1) \cup {Erased}) /\ Len(layout(e, mode)) = n
        /\ \A c \in 1..n : layout(e, mode)[c] = LoadMap(e, kept, base + c - 1)
    <2> HIDE DEF n, base, kept
    <2> QED
      BY <1>2, <1>4, <1>5
  <1> QED
    BY <1>4, <1>6

-----------------------------------------------------------------------------
(* A body with erased bytes after it.                                      *)
LEMMA ErasedTail ==
  ASSUME NEW body \in Seq(Byte), NEW n \in Nat
  PROVE  /\ body \o erased_tail(n) \in Seq(Byte)
         /\ Len(body \o erased_tail(n)) = Len(body) + n
         /\ \A c \in 1..Len(body) : (body \o erased_tail(n))[c] = body[c]
         /\ \A c \in (Len(body) + 1)..(Len(body) + n) : (body \o erased_tail(n))[c] = Erased
  <1>1. erased_tail(n) \in Seq(Byte) /\ Len(erased_tail(n)) = n
        /\ \A c \in 1..n : erased_tail(n)[c] = Erased
    BY DEF erased_tail, Byte
  <1> QED
    BY <1>1

(* The fields of a header and of a blob.                                   *)
LEMMA BlobFields ==
  ASSUME NEW blob \in Blob, blob.header # NoHeader
  PROVE  /\ blob.header \in Header /\ blob.body \in Seq(Byte)
         /\ blob.header.key_id \in BOOLEAN /\ blob.header.code_id \in BOOLEAN
         /\ blob.header.code_area_len \in Nat /\ Len(blob.body) \in Nat
  <1>1. blob.header \in Header /\ blob.body \in Seq(Byte)
    BY DEF Blob
  <1>2. blob.header.key_id \in BOOLEAN /\ blob.header.code_id \in BOOLEAN
    BY <1>1 DEF Header
  <1>3. blob.header.code_area_len \in Nat
    BY <1>1 DEF Header
  <1> QED
    BY <1>1, <1>2, <1>3

(* Filling in the tail keeps the header and the bytes there are, reaches to *)
(* code_area_len, adds nothing but erased bytes, and is done once.         *)
LEMMA PaddedImage ==
  ASSUME NEW blob \in Blob, blob.header # NoHeader
  PROVE  LET p == pad_image_to_code_area_len(blob)
         IN  /\ p \in Blob /\ p.header = blob.header
             /\ Len(p.body) \in Nat /\ Len(blob.body) \in Nat
             /\ p.header.code_area_len <= Len(p.body) /\ Len(blob.body) <= Len(p.body)
             /\ \A c \in 1..Len(blob.body) : p.body[c] = blob.body[c]
             /\ \A c \in (Len(blob.body) + 1)..Len(p.body) : p.body[c] = Erased
             /\ pad_image_to_code_area_len(p) = p
             /\ blob.header.code_area_len <= Len(blob.body) => p = blob
  <1> DEFINE len == blob.header.code_area_len
             p == pad_image_to_code_area_len(blob)
             tailed == blob.body \o erased_tail(len - Len(blob.body))
  <1>1. blob.header \in Header /\ blob.body \in Seq(Byte) /\ len \in Nat /\ Len(blob.body) \in Nat
    BY BlobFields
  <1>2. CASE len <= Len(blob.body)
    <2>1. p = blob
      BY <1>2 DEF pad_image_to_code_area_len
    <2> QED
      BY <1>1, <1>2, <2>1
  <1>3. CASE ~(len <= Len(blob.body))
    <2>1. len - Len(blob.body) \in Nat
      BY <1>1, <1>3
    <2>2. p = [blob EXCEPT !.body = tailed]
      BY <1>3 DEF pad_image_to_code_area_len
    <2>3. /\ tailed \in Seq(Byte) /\ Len(tailed) = len
          /\ \A c \in 1..Len(blob.body) : tailed[c] = blob.body[c]
          /\ \A c \in (Len(blob.body) + 1)..len : tailed[c] = Erased
      <3> HIDE DEF len
      <3>1. Len(blob.body) + (len - Len(blob.body)) = len
        BY <1>1
      <3> QED
        BY <1>1, <2>1, <3>1, ErasedTail
    <2>4. p \in Blob /\ p.header = blob.header /\ p.body = tailed
      <3> HIDE DEF tailed
      <3> QED
        BY <2>2, <2>3 DEF Blob
    <2>5. pad_image_to_code_area_len(p) = p
      <3> HIDE DEF p, tailed
      <3>1. p.header.code_area_len <= Len(p.body)
        BY <1>1, <2>3, <2>4
      <3> QED
        BY <3>1 DEF pad_image_to_code_area_len
    <2>6. p = pad_image_to_code_area_len(blob)
      OBVIOUS
    <2> HIDE DEF p, tailed
    <2> QED
      BY <1>1, <1>3, <2>3, <2>4, <2>5, <2>6
  <1> QED
    BY <1>2, <1>3

(* What patch_header hashes is what the padded image has there.            *)
LEMMA HashedIsPadded ==
  ASSUME NEW blob \in Blob, blob.header # NoHeader,
         blob.header.code_area_len = 0 => Len(blob.body) = 0
  PROVE  hashed(blob.header, blob.body) =
           SubSeq(pad_image_to_code_area_len(blob).body, 1, blob.header.code_area_len)
  <1> DEFINE len == blob.header.code_area_len
             tailed == blob.body \o erased_tail(len - Len(blob.body))
  <1>1. blob.header \in Header /\ blob.body \in Seq(Byte) /\ len \in Nat /\ Len(blob.body) \in Nat
    BY BlobFields
  <1>2. hashed(blob.header, blob.body) =
          IF len <= Len(blob.body) THEN SubSeq(blob.body, 1, len) ELSE tailed
    BY <1>1 DEF hashed
  <1>3. CASE len <= Len(blob.body)
    BY <1>2, <1>3 DEF pad_image_to_code_area_len
  <1>4. CASE ~(len <= Len(blob.body))
    <2>1. pad_image_to_code_area_len(blob).body = tailed
      BY <1>4 DEF pad_image_to_code_area_len, Blob
    <2>2. tailed \in Seq(Byte) /\ Len(tailed) = len
      <3>1. len - Len(blob.body) \in Nat /\ Len(blob.body) + (len - Len(blob.body)) = len
        BY <1>1, <1>4
      <3> HIDE DEF len
      <3> QED
        BY <1>1, <3>1, ErasedTail
    <2>3. SubSeq(tailed, 1, len) = tailed
      <3> HIDE DEF tailed, len
      <3> QED
        BY <2>2
    <2> HIDE DEF tailed
    <2> QED
      BY <1>2, <1>4, <2>1, <2>3
  <1> QED
    BY <1>3, <1>4

(* patch_header changes the lengths that are zero and the hash.            *)
LEMMA PatchedHeader ==
  ASSUME NEW header \in Header, NEW body \in Seq(Byte)
  PROVE  LET h == patch_header(header, body)
         IN  /\ h \in Header /\ h # NoHeader /\ h.key_id = header.key_id /\ h.code_id = header.code_id
             /\ h.code_area_len = IF header.code_area_len = 0 THEN Len(body) ELSE header.code_area_len
             /\ h.code_area_hash = hashed(h, body)
  <1> DEFINE len == IF header.code_area_len = 0 THEN Len(body) ELSE header.code_area_len
             unc == IF header.code_area_len = 0 THEN Len(body) ELSE header.code_uncompress_len
             hash == hashed(header, body)
             h == patch_header(header, body)
  <1>1. /\ header.code_area_len \in Nat /\ header.code_uncompress_len \in Nat
        /\ header.key_id \in BOOLEAN /\ header.code_id \in BOOLEAN
    BY DEF Header
  <1>2. Len(body) \in Nat /\ len \in Nat /\ unc \in Nat
    BY <1>1
  <1>3. hash = IF len <= Len(body) THEN SubSeq(body, 1, len)
               ELSE body \o erased_tail(len - Len(body))
    BY DEF hashed
  <1>4. hash \in Seq(Byte)
    <2> HIDE DEF len, hash
    <2>1. CASE len <= Len(body)
      BY <1>2, <1>3, <2>1
    <2>2. CASE ~(len <= Len(body))
      <3>1. len - Len(body) \in Nat
        BY <1>2, <2>2
      <3> QED
        BY <1>3, <2>2, <3>1, ErasedTail
    <2> QED
      BY <2>1, <2>2
  <1>5. h = [header EXCEPT !.code_area_len = len, !.code_uncompress_len = unc,
                           !.code_area_hash = hash]
    BY DEF patch_header, sha256
  <1>6. /\ h \in Header /\ h.key_id = header.key_id /\ h.code_id = header.code_id
        /\ h.code_area_len = len /\ h.code_area_hash = hash
    <2> HIDE DEF len, unc, hash, h
    <2> QED
      BY <1>2, <1>4, <1>5 DEF Header
  <1>7. hashed(h, body) = hash
    <2>1. (IF len = 0 THEN Len(body) ELSE len) = len
      BY <1>1, <1>2
    <2> HIDE DEF len, unc, hash, h
    <2> QED
      BY <1>3, <1>6, <2>1 DEF hashed
  <1>8. h # NoHeader
    BY <1>6, PlanAssumption
  <1> HIDE DEF hash
  <1> QED
    BY <1>6, <1>7, <1>8

(* An image whose hash the bytes it holds satisfy.                         *)
Verifies(blob) ==
  /\ blob.header.code_area_len <= Len(blob.body)
  /\ blob.header.code_area_hash = SubSeq(blob.body, 1, blob.header.code_area_len)

Patched(header, body) == [header |-> patch_header(header, body), body |-> body]

(* A patched image verifies once it has its tail; its length is zero only   *)
(* when there is nothing to verify.                                        *)
LEMMA PatchedVerifies ==
  ASSUME NEW header \in Header, NEW body \in Seq(Byte)
  PROVE  LET p == pad_image_to_code_area_len(Patched(header, body))
         IN  /\ Patched(header, body) \in Blob /\ Patched(header, body).header # NoHeader
             /\ p \in Blob /\ p.header = patch_header(header, body) /\ p.header # NoHeader
             /\ p.header.key_id = header.key_id /\ p.header.code_id = header.code_id
             /\ Verifies(p)
             /\ p.header.code_area_len = 0 => Len(p.body) = 0
  <1> DEFINE h == patch_header(header, body)
             blob == Patched(header, body)
             p == pad_image_to_code_area_len(blob)
  <1>1. /\ h \in Header /\ h # NoHeader /\ h.key_id = header.key_id /\ h.code_id = header.code_id
        /\ h.code_area_len = IF header.code_area_len = 0 THEN Len(body) ELSE header.code_area_len
        /\ h.code_area_hash = hashed(h, body)
    BY PatchedHeader
  <1>2. blob \in Blob /\ blob.header = h /\ blob.body = body
    <2> HIDE DEF h
    <2>1. blob = [header |-> h, body |-> body]
      BY DEF Patched, h
    <2> QED
      BY <1>1, <2>1 DEF Blob
  <1>3. h.code_area_len = 0 => Len(body) = 0
    <2>1. header.code_area_len \in Nat /\ Len(body) \in Nat
      BY DEF Header
    <2> QED
      BY <1>1, <2>1
  <1>4. /\ p \in Blob /\ p.header = h /\ h.code_area_len <= Len(p.body)
        /\ h.code_area_len <= Len(body) => p = blob
    <2> HIDE DEF blob, h
    <2> QED
      BY <1>1, <1>2, PaddedImage
  <1>5. h.code_area_hash = SubSeq(p.body, 1, h.code_area_len)
    <2> HIDE DEF blob, h
    <2> QED
      BY <1>1, <1>2, <1>3, HashedIsPadded
  <1>6. h.code_area_len = 0 => Len(p.body) = 0
    <2>1. Len(body) \in Nat /\ h.code_area_len \in Nat
      BY <1>1, <1>2, BlobFields
    <2> HIDE DEF p, h
    <2> QED
      BY <1>2, <1>3, <1>4, <2>1
  <1>7. p = pad_image_to_code_area_len(blob)
    OBVIOUS
  <1> HIDE DEF h, p, blob
  <1> QED
    BY <1>1, <1>2, <1>4, <1>5, <1>6, <1>7 DEF Verifies, h, blob

(* An image wrapped around a body verifies, and is as long as its body.    *)
LEMMA BuiltVerifies ==
  ASSUME NEW body \in Seq(Byte)
  PROVE  LET p == build_app_image(body)
         IN  /\ p \in Blob /\ is_headered_image(p) /\ p.header.code_id /\ p.body = body
             /\ p.header.code_area_len = Len(body) /\ p.header = build_image_header(body)
             /\ Verifies(p) /\ pad_image_to_code_area_len(p) = p
  <1> DEFINE h == build_image_header(body)
             p == build_app_image(body)
  <1>1. /\ h \in Header /\ h.key_id /\ h.code_id
        /\ h.code_area_len = Len(body) /\ h.code_area_hash = body
    BY DEF build_image_header, Header, sha256
  <1>2. h # NoHeader
    BY <1>1, PlanAssumption
  <1>3. p \in Blob /\ p.header = h /\ p.body = body
    <2> HIDE DEF h
    <2>1. p = [header |-> h, body |-> body]
      BY DEF build_app_image, h
    <2> QED
      BY <1>1, <2>1 DEF Blob
  <1>4. SubSeq(body, 1, Len(body)) = body
    OBVIOUS
  <1>5. p = build_app_image(body) /\ h = build_image_header(body)
    OBVIOUS
  <1>6. Len(body) \in Nat /\ Len(body) <= Len(body)
    OBVIOUS
  <1> HIDE DEF h, p
  <1>7. Verifies(p) /\ is_headered_image(p) /\ pad_image_to_code_area_len(p) = p
    BY <1>1, <1>2, <1>3, <1>4, <1>6 DEF Verifies, is_headered_image, pad_image_to_code_area_len
  <1> QED
    BY <1>1, <1>3, <1>5, <1>7

(* A file taken for a raw body is a sequence of bytes.                     *)
LEMMA BytesOfAFile == ASSUME NEW blob \in Blob PROVE bytes(blob) \in Seq(Byte)
  <1> DEFINE front == [c \in 1..IMAGE_HEADER_LEN |-> HeaderByte]
  <1>1. front \in Seq(Byte) /\ << >> \in Seq(Byte) /\ blob.body \in Seq(Byte)
    BY ElfAssumption DEF Byte, Blob
  <1> HIDE DEF front
  <1>2. front \o blob.body \in Seq(Byte) /\ << >> \o blob.body \in Seq(Byte)
    BY <1>1
  <1>3. bytes(blob) = (IF blob.header = NoHeader THEN << >> ELSE front) \o blob.body
    BY DEF bytes, front
  <1> QED
    BY <1>2, <1>3

-----------------------------------------------------------------------------
(* What a search finds is one of the partitions searched.                  *)
LEMMA FirstBinIsOne ==
  ASSUME NEW bins \in Seq(PackageBin), NEW indices \in SUBSET DOMAIN bins
  PROVE  /\ indices = {} => FirstBin(bins, indices) = NoBin
         /\ indices # {} => /\ FirstBin(bins, indices) # NoBin
                            /\ \E k \in indices : FirstBin(bins, indices) = bins[k]
  <1>1. CASE indices = {}
    BY <1>1 DEF FirstBin
  <1>2. CASE indices # {}
    <2>1. \E k \in indices : \A l \in indices : k <= l
      <3>1. indices \in SUBSET Nat
        OBVIOUS
      <3> QED
        BY <1>2, <3>1, LeastNatural
    <2> DEFINE first == CHOOSE k \in indices : \A l \in indices : k <= l
    <2>2. first \in indices
      BY <2>1
    <2>3. FirstBin(bins, indices) = bins[first]
      BY <1>2, Zenon DEF FirstBin
    <2> HIDE DEF first
    <2>4. bins[first] \in PackageBin
      BY <2>2
    <2> QED
      BY <1>2, <2>2, <2>3, <2>4, PlanAssumption
  <1> QED
    BY <1>1, <1>2

(* So is what the three searches together select.                          *)
LEMMA SelectedIsOne ==
  ASSUME NEW bins \in Seq(PackageBin), selected(bins) # NoBin
  PROVE  \E k \in DOMAIN bins : selected(bins) = bins[k] /\ selected(bins) \in PackageBin
  <1> DEFINE named == {k \in DOMAIN bins : bins[k].name = app_name}
             liked == {k \in normal_bins(bins) : bins[k].app_like}
  <1>1. named \subseteq DOMAIN bins /\ liked \subseteq DOMAIN bins /\ normal_bins(bins) \subseteq DOMAIN bins
    BY DEF normal_bins
  <1>2. \E indices \in {named, liked, normal_bins(bins)} :
          selected(bins) = FirstBin(bins, indices) /\ FirstBin(bins, indices) # NoBin
    BY DEF selected, find_by_name, app_like_bin, only_bin
  <1> HIDE DEF named, liked
  <1>3. PICK indices \in SUBSET DOMAIN bins :
          selected(bins) = FirstBin(bins, indices) /\ FirstBin(bins, indices) # NoBin
    BY <1>1, <1>2
  <1>4. PICK k \in DOMAIN bins : selected(bins) = bins[k]
    BY <1>3, FirstBinIsOne
  <1> QED
    BY <1>4

-----------------------------------------------------------------------------
(* The inputs are of three kinds.                                          *)
LEMMA InputFields ==
  ASSUME NEW file \in Input
  PROVE  /\ file.kind \in {"elf", "blob", "fwpkg"}
         /\ file.kind = "elf" => /\ file.elf \in Elf /\ file.header \in Header
                                  /\ file.intact \in BOOLEAN
         /\ file.kind = "blob" => file.blob \in Blob
         /\ file.kind = "fwpkg" => file.bins \in Seq(PackageBin) /\ file.intact \in BOOLEAN
  <1>1. CASE file \in [kind: {"elf"}, elf: Elf, header: Header, intact: BOOLEAN]
    BY <1>1
  <1>2. CASE file \in [kind: {"blob"}, blob: Blob]
    BY <1>2
  <1>3. CASE file \in [kind: {"fwpkg"}, bins: Seq(PackageBin), intact: BOOLEAN]
    BY <1>3
  <1> QED
    BY <1>1, <1>2, <1>3 DEF Input

(* A layout's bytes are bytes.                                             *)
LEMMA LayoutIsABody ==
  ASSUME NEW e \in Elf, NEW mode \in {"flatten", "locate"}, ~LayoutFails(e, mode)
  PROVE  layout(e, mode) \in Seq(Byte)
  <1>1. layout(e, mode) \in Seq(0..(e.size - 1) \cup {Erased})
    BY LayoutBytes
  <1>2. 0..(e.size - 1) \cup {Erased} \subseteq Byte
    BY DEF Byte
  <1> QED
    BY <1>1, <1>2

(* What detection makes of the input, and where it took it from.           *)
DetectedFrom(blob) ==
  /\ input.kind = "elf" /\ input.elf.boot_header # NoSection =>
       /\ ~LayoutFails(input.elf, "locate")
       /\ blob = pad_image_to_code_area_len(Patched(input.header, layout(input.elf, "locate")))
  /\ input.kind = "elf" /\ input.elf.boot_header = NoSection =>
       /\ ~LayoutFails(input.elf, "flatten")
       /\ blob = build_app_image(layout(input.elf, "flatten"))
  /\ input.kind = "blob" /\ is_headered_image(input.blob) =>
       blob = Patched(input.blob.header, input.blob.body)
  /\ input.kind = "blob" /\ ~is_headered_image(input.blob) =>
       blob = build_app_image(bytes(input.blob))
  /\ input.kind = "fwpkg" =>
       source = selected(input.bins) /\ source # NoBin /\ blob = source.blob
  /\ input.kind # "fwpkg" => source = NoBin

(* The invariant of planning: the arguments are what they were, what is     *)
(* built is what was detected, what is planned is that with its tail.      *)
PlanInv ==
  /\ input \in Input /\ app_addr \in 0..(U32 - 1) \cup {NoAddr}
  /\ app_partition_addr[chip] \in 0..(U32 - 1)
  /\ pc \in PlanErrors \cup {"detect", "build", "planned"}
  /\ pc = "detect" => source = NoBin
  /\ pc = "build" => image \in Blob /\ DetectedFrom(image)
  /\ pc = "planned" => \E blob \in Blob :
                         /\ DetectedFrom(blob) /\ is_headered_image(blob)
                         /\ image = pad_image_to_code_area_len(blob) /\ plan = PlanFor(image)
  /\ pc = "planned" => ImageLen(image) < U32

(* It holds of every argument there may be.                                *)
LEMMA PlanInitInv == PlanInit => PlanInv
  <1> SUFFICES ASSUME PlanInit PROVE PlanInv
    OBVIOUS
  <1>1. input \in Input /\ app_addr \in 0..(U32 - 1) \cup {NoAddr}
    BY PlanAssumption DEF PlanInit
  <1>2. app_partition_addr[chip] \in 0..(U32 - 1)
    BY PlanAssumption DEF PlanInit
  <1> QED
    BY <1>1, <1>2 DEF PlanInit, PlanInv

(* Every Err leaves the arguments and the source alone.                    *)
LEMMA PlanErrorInv ==
  ASSUME PlanInv, ElfFails \/ PackageRefused \/ NoAppInPackage \/ ImageTooShort \/ ImageWithoutHeader
                   \/ ImageTooLong
  PROVE  PlanInv'
  <1>1. pc' \in PlanErrors /\ UNCHANGED <<args, image, source, plan>>
    BY DEF ElfFails, PackageRefused, NoAppInPackage, ImageTooShort, ImageWithoutHeader,
           ImageTooLong, PlanError, PlanErrors
  <1>2. pc' \notin {"detect", "build", "planned"}
    BY <1>1 DEF PlanErrors
  <1> QED
    BY <1>1, <1>2 DEF PlanInv, args

(* Detection, one kind of input after the other.                           *)
LEMMA DetectionInv ==
  ASSUME PlanInv, HeaderedElf \/ BareElf \/ HeaderedBlob \/ RawBlob \/ FromPackage
  PROVE  PlanInv'
  <1>1. pc' = "build" /\ UNCHANGED <<args, plan>>
    BY DEF HeaderedElf, BareElf, HeaderedBlob, RawBlob, FromPackage, Detected
  <1>2. input \in Input
    BY DEF PlanInv
  <1>3. image' \in Blob /\ DetectedFrom(image)'
    <2>1. CASE HeaderedElf
      <3> DEFINE body == layout(input.elf, "locate")
      <3>1. /\ input.kind = "elf" /\ input.elf.boot_header # NoSection
            /\ ~LayoutFails(input.elf, "locate")
            /\ image' = pad_image_to_code_area_len(Patched(input.header, body)) /\ source' = NoBin
        BY <2>1 DEF HeaderedElf, IntactElf, Detected, Patched
      <3>2. input.header \in Header /\ body \in Seq(Byte)
        BY <1>2, <3>1, InputFields, LayoutIsABody
      <3>3. image' \in Blob
        <4> HIDE DEF body
        <4> QED
          BY <3>1, <3>2, PatchedVerifies
      <3> QED
        BY <1>1, <3>1, <3>3 DEF DetectedFrom, args
    <2>2. CASE BareElf
      <3> DEFINE body == layout(input.elf, "flatten")
      <3>1. /\ input.kind = "elf" /\ input.elf.boot_header = NoSection
            /\ ~LayoutFails(input.elf, "flatten")
            /\ image' = build_app_image(body) /\ source' = NoBin
        BY <2>2 DEF BareElf, IntactElf, Detected
      <3>2. body \in Seq(Byte)
        BY <1>2, <3>1, InputFields, LayoutIsABody
      <3>3. image' \in Blob
        <4> HIDE DEF body
        <4> QED
          BY <3>1, <3>2, BuiltVerifies
      <3> QED
        BY <1>1, <3>1, <3>3 DEF DetectedFrom, args
    <2>3. CASE HeaderedBlob
      <3>1. /\ input.kind = "blob" /\ is_headered_image(input.blob) /\ source' = NoBin
            /\ image' = [input.blob EXCEPT !.header = patch_header(@, input.blob.body)]
        BY <2>3 DEF HeaderedBlob, Detected
      <3>2. input.blob \in Blob /\ input.blob.header # NoHeader
        BY <1>2, <3>1, InputFields DEF is_headered_image
      <3>3. image' = Patched(input.blob.header, input.blob.body)
        BY <3>1, <3>2 DEF Patched, Blob
      <3>4. image' \in Blob
        BY <3>2, <3>3, BlobFields, PatchedVerifies
      <3> QED
        BY <1>1, <3>1, <3>3, <3>4 DEF DetectedFrom, args
    <2>4. CASE RawBlob
      <3>1. /\ input.kind = "blob" /\ ~is_headered_image(input.blob) /\ source' = NoBin
            /\ image' = build_app_image(bytes(input.blob))
        BY <2>4 DEF RawBlob, Detected
      <3>2. bytes(input.blob) \in Seq(Byte)
        BY <1>2, <3>1, InputFields, BytesOfAFile
      <3>3. image' \in Blob
        BY <3>1, <3>2, BuiltVerifies
      <3> QED
        BY <1>1, <3>1, <3>3 DEF DetectedFrom, args
    <2>5. CASE FromPackage
      <3>1. /\ input.kind = "fwpkg" /\ source' = selected(input.bins) /\ source' # NoBin
            /\ image' = source'.blob
        BY <2>5 DEF FromPackage, IntactPackage, Detected
      <3>2. source' \in PackageBin
        BY <1>2, <3>1, InputFields, SelectedIsOne
      <3>3. image' \in Blob
        BY <3>1, <3>2 DEF PackageBin
      <3>4. selected(input.bins)' = selected(input.bins)
        BY <1>1 DEF selected, find_by_name, args
      <3> QED
        BY <1>1, <3>1, <3>3, <3>4 DEF DetectedFrom, args
    <2> QED
      BY <2>1, <2>2, <2>3, <2>4, <2>5
  <1> QED
    BY <1>1, <1>3 DEF PlanInv, args

(* A plan is made of what was detected, with its tail filled in.           *)
LEMMA BuildPlanInv == ASSUME PlanInv, BuildPlan PROVE PlanInv'
  <1>1. /\ pc = "build" /\ pc' = "planned" /\ is_headered_image(image)
        /\ image' = pad_image_to_code_area_len(image) /\ plan' = PlanFor(image')
        /\ UNCHANGED <<args, source>>
    BY DEF BuildPlan
  <1>2. image \in Blob /\ DetectedFrom(image)
    BY <1>1 DEF PlanInv
  <1>3. PICK blob \in Blob : blob = image
    BY <1>2
  <1>4. DetectedFrom(blob)'
    <2>1. DetectedFrom(blob)
      BY <1>2, <1>3
    <2>2. selected(input.bins)' = selected(input.bins)
      BY <1>1 DEF selected, find_by_name, args
    <2> QED
      BY <1>1, <2>1, <2>2 DEF DetectedFrom, args
  <1>5. plan' = PlanFor(image)'
    BY <1>1 DEF PlanFor, base_addr, erase_len, args
  <1>6. is_headered_image(blob) /\ image' = pad_image_to_code_area_len(blob)
    BY <1>1, <1>3
  <1>8. ImageLen(image)' < U32
    BY <1>1 DEF BuildPlan
  <1>7. (input \in Input /\ app_addr \in 0..(U32 - 1) \cup {NoAddr}
         /\ app_partition_addr[chip] \in 0..(U32 - 1))'
    BY <1>1 DEF PlanInv, args
  <1> QED
    BY <1>1, <1>4, <1>5, <1>6, <1>7, <1>8 DEF PlanInv

(* Every step of planning keeps it.                                        *)
LEMMA PlanStepInv == ASSUME PlanInv, PlanStep PROVE PlanInv'
  BY PlanErrorInv, DetectionInv, BuildPlanInv DEF PlanStep

(* A step that is not of planning changes nothing it speaks of.            *)
LEMMA SamePlanInv == ASSUME PlanInv, UNCHANGED planVars PROVE PlanInv'
  <1>1. UNCHANGED <<args, input, chip, app_addr, app_name, pc, image, source, plan>>
    BY DEF planVars, args
  <1>2. \A blob : DetectedFrom(blob) => DetectedFrom(blob)'
    <2>1. selected(input.bins)' = selected(input.bins)
      BY <1>1 DEF selected, find_by_name
    <2> QED
      BY <1>1, <2>1 DEF DetectedFrom
  <1>3. pc' = "build" => image' \in Blob /\ DetectedFrom(image)'
    BY <1>1, <1>2 DEF PlanInv
  <1>4. pc' = "planned" => \E blob \in Blob :
                             /\ DetectedFrom(blob)' /\ is_headered_image(blob)
                             /\ image' = pad_image_to_code_area_len(blob) /\ plan' = PlanFor(image)'
    <2>1. PlanFor(image)' = PlanFor(image)
      BY <1>1 DEF PlanFor, base_addr, erase_len
    <2> QED
      BY <1>1, <1>2, <2>1 DEF PlanInv
  <1> QED
    BY <1>1, <1>3, <1>4 DEF PlanInv

-----------------------------------------------------------------------------
(* What a plan says.                                                       *)
LEMMA PlannedImage ==
  ASSUME PlanInv, pc = "planned"
  PROVE  /\ image \in Blob /\ image.header # NoHeader /\ image.header.key_id
         /\ image.header.code_area_len <= Len(image.body)
         /\ plan = PlanFor(image)
         /\ input.kind = "fwpkg" <=> source # NoBin
         /\ source # NoBin => source = selected(input.bins) /\ source \in PackageBin
  <1>1. PICK blob \in Blob : /\ DetectedFrom(blob) /\ is_headered_image(blob)
                             /\ image = pad_image_to_code_area_len(blob) /\ plan = PlanFor(image)
    BY DEF PlanInv
  <1>2. blob.header # NoHeader /\ blob.header.key_id
    BY <1>1 DEF is_headered_image
  <1>3. image \in Blob /\ image.header = blob.header /\ image.header.code_area_len <= Len(image.body)
    BY <1>1, <1>2, PaddedImage
  <1>4. input.kind = "fwpkg" <=> source # NoBin
    BY <1>1 DEF DetectedFrom
  <1>5. source # NoBin => source = selected(input.bins) /\ source \in PackageBin
    <2>1. SUFFICES ASSUME source # NoBin PROVE source = selected(input.bins) /\ source \in PackageBin
      OBVIOUS
    <2>2. input.kind = "fwpkg" /\ source = selected(input.bins)
      BY <1>1, <2>1 DEF DetectedFrom
    <2>3. input.bins \in Seq(PackageBin)
      BY <2>2, InputFields DEF PlanInv
    <2> QED
      BY <2>1, <2>2, <2>3, SelectedIsOne
  <1> QED
    BY <1>1, <1>2, <1>3, <1>4, <1>5

(* The base address is a u32, the ranges start there, and what is erased is *)
(* at least what is written and what the package asks for.                 *)
LEMMA PlannedRanges ==
  ASSUME PlanInv, pc = "planned"
  PROVE  /\ base_addr \in 0..(U32 - 1) /\ Len(plan.image.body) \in Nat
         /\ plan.image = image /\ plan.base_addr = base_addr
         /\ plan.image_len = IMAGE_HEADER_LEN + Len(plan.image.body)
         /\ plan.write_chunk = [addr |-> base_addr, len |-> plan.image_len]
         /\ plan.erase_range.start = base_addr /\ plan.erase_range.len \in Nat
         /\ plan.image_len <= plan.erase_range.len
         /\ source # NoBin => source.burn_size \in Nat /\ source.burn_size <= plan.erase_range.len
         /\ plan.body_range.flash_addr = (base_addr + IMAGE_HEADER_LEN) % U32
         /\ plan.body_range.len = body_len(image)
         /\ plan.body_range.len \in Nat /\ plan.body_range.len <= Len(plan.image.body)
  <1>1. /\ image \in Blob /\ image.header # NoHeader /\ plan = PlanFor(image)
        /\ image.header.code_area_len <= Len(image.body)
        /\ source # NoBin => source \in PackageBin
    BY PlannedImage
  <1>2. Len(image.body) \in Nat /\ image.header.code_area_len \in Nat
    BY <1>1, BlobFields
  <1>3. source # NoBin => source.burn_addr \in 0..(U32 - 1) /\ source.burn_size \in Nat
    <2>1. U32 \in Nat
      BY PlanAssumption
    <2> QED
      BY <1>1, <2>1 DEF PackageBin
  <1>4. base_addr \in 0..(U32 - 1)
    BY <1>3 DEF base_addr, PlanInv
  <1>5. IMAGE_HEADER_LEN \in Nat /\ ImageLen(image) = IMAGE_HEADER_LEN + Len(image.body)
    BY <1>1, ElfAssumption DEF ImageLen
  <1>6. /\ erase_len(ImageLen(image)) \in Nat /\ ImageLen(image) <= erase_len(ImageLen(image))
        /\ source # NoBin => source.burn_size <= erase_len(ImageLen(image))
    BY <1>2, <1>3, <1>5 DEF erase_len
  <1>7. body_len(image) \in Nat /\ body_len(image) <= Len(image.body)
    BY <1>1, <1>2 DEF body_len
  <1>8. /\ plan.image = image /\ plan.base_addr = base_addr /\ plan.image_len = ImageLen(image)
        /\ plan.write_chunk = [addr |-> base_addr, len |-> ImageLen(image)]
        /\ plan.erase_range = [start |-> base_addr, len |-> erase_len(ImageLen(image))]
        /\ plan.body_range = [flash_addr |-> (base_addr + IMAGE_HEADER_LEN) % U32, len |-> body_len(image)]
    BY <1>1 DEF PlanFor
  <1> HIDE DEF PlanFor
  <1> QED
    BY <1>2, <1>3, <1>4, <1>5, <1>6, <1>7, <1>8

(* Whether a packaged image can be verified is the package's business.     *)
PackagedImageVerifies ==
  /\ source.blob.header.code_area_hash = sha256(hashed(source.blob.header, source.blob.body))
  /\ source.blob.header.code_area_len = 0 => Len(source.blob.body) = 0

(* What is planned verifies, and its verified body is what the plan says,   *)
(* unless the package brought an image that does not.                      *)
LEMMA PlannedImageVerifies ==
  ASSUME PlanInv, pc = "planned", source # NoBin => PackagedImageVerifies
  PROVE  Verifies(image) /\ plan.body_range.len = image.header.code_area_len
  <1>1. PICK blob \in Blob : /\ DetectedFrom(blob) /\ is_headered_image(blob)
                             /\ image = pad_image_to_code_area_len(blob) /\ plan = PlanFor(image)
    BY DEF PlanInv
  <1>2. input \in Input
    BY DEF PlanInv
  <1>3. blob.header # NoHeader
    BY <1>1 DEF is_headered_image
  <1>4. Verifies(image) /\ (image.header.code_area_len = 0 => Len(image.body) = 0)
    <2>1. CASE input.kind = "elf" /\ input.elf.boot_header # NoSection
      <3> DEFINE body == layout(input.elf, "locate")
      <3>1. /\ input.header \in Header /\ body \in Seq(Byte)
            /\ blob = pad_image_to_code_area_len(Patched(input.header, body))
        BY <1>1, <1>2, <2>1, InputFields, LayoutIsABody DEF DetectedFrom
      <3> HIDE DEF body
      <3>2. image = blob
        BY <1>1, <3>1, PatchedVerifies, PaddedImage
      <3> QED
        BY <3>1, <3>2, PatchedVerifies
    <2>2. CASE input.kind = "elf" /\ input.elf.boot_header = NoSection
      <3> DEFINE body == layout(input.elf, "flatten")
      <3>1. body \in Seq(Byte) /\ blob = build_app_image(body)
        BY <1>1, <1>2, <2>2, InputFields, LayoutIsABody DEF DetectedFrom
      <3> HIDE DEF body
      <3> QED
        BY <1>1, <3>1, BuiltVerifies
    <2>3. CASE input.kind = "blob" /\ is_headered_image(input.blob)
      <3>1. blob = Patched(input.blob.header, input.blob.body)
        BY <1>1, <2>3 DEF DetectedFrom
      <3>2. input.blob.header \in Header /\ input.blob.body \in Seq(Byte)
        BY <1>2, <2>3, InputFields, BlobFields DEF is_headered_image
      <3> QED
        BY <1>1, <3>1, <3>2, PatchedVerifies
    <2>4. CASE input.kind = "blob" /\ ~is_headered_image(input.blob)
      <3>1. blob = build_app_image(bytes(input.blob)) /\ bytes(input.blob) \in Seq(Byte)
        BY <1>1, <1>2, <2>4, InputFields, BytesOfAFile DEF DetectedFrom
      <3> QED
        BY <1>1, <3>1, BuiltVerifies
    <2>5. CASE input.kind = "fwpkg"
      <3>1. source # NoBin /\ blob = source.blob
        BY <1>1, <2>5 DEF DetectedFrom
      <3>2. /\ blob.header.code_area_hash = hashed(blob.header, blob.body)
            /\ blob.header.code_area_len = 0 => Len(blob.body) = 0
        BY <3>1 DEF PackagedImageVerifies, sha256
      <3>3. /\ image.header = blob.header /\ image.header.code_area_len <= Len(image.body)
            /\ hashed(blob.header, blob.body) = SubSeq(image.body, 1, image.header.code_area_len)
        BY <1>1, <1>3, <3>2, PaddedImage, HashedIsPadded
      <3>4. image.header.code_area_len = 0 => Len(image.body) = 0
        <4>1. blob.header.code_area_len <= Len(blob.body) => image = blob
          BY <1>1, <1>3, PaddedImage
        <4>2. Len(blob.body) = 0 => 0 <= Len(blob.body)
          OBVIOUS
        <4> QED
          BY <3>2, <3>3, <4>1, <4>2
      <3> QED
        BY <3>2, <3>3, <3>4 DEF Verifies
    <2> QED
      BY <1>2, <2>1, <2>2, <2>3, <2>4, <2>5, InputFields
  <1>5. plan.body_range.len = body_len(image)
    BY PlannedRanges
  <1> QED
    BY <1>4, <1>5 DEF body_len
=============================================================================

-------------------------- MODULE ElfLayoutProofs --------------------------
(***************************************************************************)
(* Proofs about flatten_elf and locate_elf, for every ELF file: copying    *)
(* the collected segments in the order of their addresses yields the load  *)
(* map, and never leaves the image.                                        *)
(***************************************************************************)
EXTENDS ElfLayout, FiniteSetTheorems, TLAPS

(* The segments the copying loop has behind it.                            *)
Behind(n) == {loads[a] : a \in 1..n}

(* The first loop collects what is kept, as far as it has come, and only   *)
(* what has its data in the file.                                          *)
Collected ==
  /\ pc = "section" => k = 1
  /\ pc \in {"section", "collect"} => Range(loads) = {s \in Kept(elf, mode) : s < k}
  /\ pc \in {"section", "collect", "copy"} => \A s \in Range(loads) : DataInFile(elf, s)

(* The sort keeps the segments; the base is below all of them, the image   *)
(* reaches to the end of all of them.                                      *)
Sorted ==
  pc \in {"copy", "done"} =>
    /\ Range(loads) = Kept(elf, mode)
    /\ \A a, b \in 1..Len(loads) : a < b => Before(elf, loads[a], loads[b])
    /\ \A s \in Range(loads) : base <= segment(s).paddr /\ Slice(s) \subseteq DOMAIN image

(* The image is the load map of the segments copied so far.                *)
LaidOut ==
  /\ pc = "copy" =>
       /\ k \in 1..Len(loads)
       /\ \A c \in DOMAIN image : image[c] = LoadMap(elf, Behind(k - 1), base + c)
  /\ pc = "done" => \A c \in DOMAIN image : image[c] = LoadMap(elf, Kept(elf, mode), base + c)

IInv == ElfTypeOK /\ Collected /\ Sorted /\ LaidOut

-----------------------------------------------------------------------------
(* What an ELF is made of.                                                 *)
LEMMA SegmentFields ==
  ASSUME NEW e \in Elf, NEW s \in 1..Len(e.segments)
  PROVE  /\ e.segments[s].paddr \in Nat /\ e.segments[s].filesz \in Nat
         /\ e.segments[s].offset \in Nat /\ End(e.segments[s]) \in Nat
         /\ e.size \in Nat
  <1>1. e.segments \in Seq(Segment) /\ e.size \in Nat
    BY DEF Elf
  <1>2. e.segments[s] \in Segment
    BY <1>1
  <1>3. e.segments[s].paddr \in Nat /\ e.segments[s].filesz \in Nat /\ e.segments[s].offset \in Nat
    BY <1>2 DEF Segment
  <1> QED
    BY <1>1, <1>3 DEF End

(* What either function keeps are program headers; locate_elf keeps none   *)
(* below BODY_VADDR.                                                       *)
LEMMA KeptSegments ==
  ASSUME NEW e \in Elf, NEW m
  PROVE  /\ Kept(e, m) \subseteq 1..Len(e.segments)
         /\ Len(e.segments) \in Nat
         /\ m = "locate" => \A s \in Kept(e, m) : e.segments[s].paddr >= BODY_VADDR
  BY DEF Elf, Kept, Loadable

(* The order of the sort is strict.                                        *)
LEMMA BeforeIsStrict ==
  ASSUME NEW e \in Elf, NEW s \in 1..Len(e.segments), NEW t \in 1..Len(e.segments)
  PROVE  /\ ~Before(e, s, s)
         /\ Before(e, s, t) => ~Before(e, t, s) /\ e.segments[s].paddr <= e.segments[t].paddr
  BY SegmentFields DEF Before, Elf

(* Writing one more segment, a later one than all there are, onto a load    *)
(* map: it wins wherever it is.                                            *)
LEMMA LoadMapOfOneMore ==
  ASSUME NEW e \in Elf, NEW S \in SUBSET (1..Len(e.segments)), NEW t \in 1..Len(e.segments),
         \A s \in S : Before(e, s, t), NEW addr \in Nat
  PROVE  LoadMap(e, S \cup {t}, addr) =
           IF Covers(e.segments[t], addr) THEN ByteAt(e.segments[t], addr)
           ELSE LoadMap(e, S, addr)
  <1> DEFINE covering == {s \in S : Covers(e.segments[s], addr)}
             more == {s \in S \cup {t} : Covers(e.segments[s], addr)}
  <1>0. /\ LoadMap(e, S, addr) =
             IF covering = {} THEN Erased
             ELSE ByteAt(e.segments[CHOOSE s \in covering : \A u \in covering : ~Before(e, s, u)],
                         addr)
        /\ LoadMap(e, S \cup {t}, addr) =
             IF more = {} THEN Erased
             ELSE ByteAt(e.segments[CHOOSE s \in more : \A u \in more : ~Before(e, s, u)], addr)
    BY Zenon DEF LoadMap
  <1>1. CASE Covers(e.segments[t], addr)
    <2>1. t \in more
      BY <1>1
    <2>2. \A s \in more : ~Before(e, t, s)
      BY BeforeIsStrict
    <2>3. ASSUME NEW top \in more, \A s \in more : ~Before(e, top, s) PROVE top = t
      BY <2>1, <2>3
    <2>4. t = CHOOSE s \in more : \A u \in more : ~Before(e, s, u)
      BY <2>1, <2>2, <2>3
    <2> HIDE DEF more
    <2> QED
      BY <1>1, <2>1, <2>4, <1>0
  <1>2. CASE ~Covers(e.segments[t], addr)
    <2>1. more = covering
      BY <1>2
    <2> QED
      BY <1>2, <2>1, <1>0
  <1> QED
    BY <1>1, <1>2

(* Flash that is only erased.                                              *)
LEMMA LoadMapOfNothing ==
  ASSUME NEW e, NEW addr
  PROVE  LoadMap(e, {}, addr) = Erased
  BY DEF LoadMap

(* Appending puts one more element into the range.                         *)
LEMMA RangeAppended ==
  ASSUME NEW S, NEW seq \in Seq(S), NEW x \in S
  PROVE  Append(seq, x) \in Seq(S) /\ Range(Append(seq, x)) = Range(seq) \cup {x}
  <1>1. /\ Append(seq, x) \in Seq(S) /\ DOMAIN Append(seq, x) = 1..(Len(seq) + 1)
        /\ DOMAIN seq = 1..Len(seq) /\ Len(seq) \in Nat
        /\ Append(seq, x)[Len(seq) + 1] = x
        /\ \A a \in 1..Len(seq) : Append(seq, x)[a] = seq[a]
    OBVIOUS
  <1>2. 1..(Len(seq) + 1) = (1..Len(seq)) \cup {Len(seq) + 1}
    BY <1>1
  <1> QED
    BY <1>1, <1>2 DEF Range

-----------------------------------------------------------------------------
(* No program header looked at yet.                                        *)
LEMMA Initially == Init => IInv
  <1> SUFFICES ASSUME Init PROVE IInv
    OBVIOUS
  <1>1. elf \in Elf /\ Len(elf.segments) \in Nat
    BY ElfsAssumption DEF Init, Elf
  <1>2. loads = << >> /\ Range(loads) = {}
    BY DEF Init, Range
  <1>3. ElfTypeOK
    BY <1>1 DEF Init, ElfTypeOK, Failures
  <1>4. Kept(elf, mode) \subseteq 1..Len(elf.segments)
    BY <1>1, KeptSegments
  <1>5. Collected
    BY <1>1, <1>2, <1>4 DEF Init, Collected
  <1>6. Sorted /\ LaidOut
    BY DEF Init, Sorted, LaidOut
  <1> QED
    BY <1>3, <1>5, <1>6 DEF IInv

(* Steps that only change pc: the search for the section, and every Err.   *)
LEMMA SectionSteps ==
  ASSUME IInv, NoHeaderSection \/ HeaderTruncated \/ HeaderFound \/ CollectFail \/ NothingCollected
  PROVE  IInv'
  <1>1. /\ UNCHANGED <<elf, mode, k, loads, base, image>>
        /\ \/ pc' \in Failures
           \/ pc = "section" /\ pc' = "collect"
    BY DEF NoHeaderSection, HeaderTruncated, HeaderFound, CollectFail, NothingCollected, Fail,
           Failures
  <1>2. ElfTypeOK'
    BY <1>1 DEF IInv, ElfTypeOK, Failures
  <1>3. Collected'
    BY <1>1 DEF IInv, Collected, Failures
  <1>4. Sorted' /\ LaidOut'
    BY <1>1 DEF Sorted, LaidOut, Failures
  <1> QED
    BY <1>2, <1>3, <1>4 DEF IInv

(* One more program header looked at.                                      *)
LEMMA Collecting == ASSUME IInv, CollectSkip \/ CollectLoad PROVE IInv'
  <1> DEFINE N == Len(elf.segments)
  <1>1. /\ pc = "collect" /\ pc' = "collect" /\ k' = k + 1 /\ k <= N
        /\ UNCHANGED <<elf, mode, base, image>>
    BY DEF CollectSkip, CollectLoad
  <1>2. /\ elf \in Elf /\ N \in Nat /\ k \in 1..N /\ loads \in Seq(1..N)
        /\ Range(loads) = {s \in Kept(elf, mode) : s < k}
        /\ \A s \in Range(loads) : DataInFile(elf, s)
        /\ Kept(elf, mode) \subseteq 1..N
    <2>1. elf \in Elf /\ k \in 1..(N + 1) /\ loads \in Seq(1..N)
      BY DEF IInv, ElfTypeOK
    <2>2. N \in Nat /\ Kept(elf, mode) \subseteq 1..N
      BY <2>1, KeptSegments
    <2> QED
      BY <1>1, <2>1, <2>2 DEF IInv, Collected
  <1>3. /\ loads' \in Seq(1..N)
        /\ Range(loads') = {s \in Kept(elf, mode) : s < k + 1}
        /\ \A s \in Range(loads') : DataInFile(elf, s)
    <2>1. CASE CollectSkip
      <3>1. loads' = loads /\ k \notin Kept(elf, mode)
        BY <2>1 DEF CollectSkip
      <3>2. {s \in Kept(elf, mode) : s < k + 1} = {s \in Kept(elf, mode) : s < k}
        BY <1>2, <3>1
      <3> QED
        BY <1>2, <3>1, <3>2
    <2>2. CASE CollectLoad
      <3>1. loads' = Append(loads, k) /\ k \in Kept(elf, mode) /\ DataInFile(elf, k)
        BY <2>2 DEF CollectLoad
      <3>2. {s \in Kept(elf, mode) : s < k + 1} = {s \in Kept(elf, mode) : s < k} \cup {k}
        BY <1>2, <3>1
      <3>3. loads' \in Seq(1..N) /\ Range(loads') = Range(loads) \cup {k}
        BY <1>2, <3>1, RangeAppended
      <3> QED
        BY <1>2, <3>1, <3>2, <3>3
    <2> QED
      BY <2>1, <2>2
  <1>4. ElfTypeOK'
    BY <1>1, <1>2, <1>3 DEF IInv, ElfTypeOK, Failures
  <1>5. Collected'
    BY <1>1, <1>3 DEF Collected
  <1>6. Sorted' /\ LaidOut'
    BY <1>1 DEF Sorted, LaidOut
  <1> QED
    BY <1>4, <1>5, <1>6 DEF IInv

(* Every kept segment lies between the base and the end of the image.      *)
LEMMA Sorting == ASSUME IInv, Sort PROVE IInv'
  <1> DEFINE N == Len(elf.segments)
  <1>1. /\ elf \in Elf /\ mode \in Modes /\ N \in Nat /\ loads \in Seq(1..N) /\ base \in Nat
        /\ Range(loads) = Kept(elf, mode) /\ Kept(elf, mode) \subseteq 1..N
        /\ \A s \in Range(loads) : DataInFile(elf, s)
    <2>1. elf \in Elf /\ mode \in Modes /\ loads \in Seq(1..N) /\ base \in Nat /\ k \in Nat
      BY DEF IInv, ElfTypeOK
    <2>2. N \in Nat /\ Kept(elf, mode) \subseteq 1..N
      BY <2>1, KeptSegments
    <2>3. pc = "collect" /\ k > N
      BY DEF Sort
    <2>4. {s \in Kept(elf, mode) : s < k} = Kept(elf, mode)
      BY <2>1, <2>2, <2>3
    <2> QED
      BY <2>1, <2>2, <2>3, <2>4 DEF IInv, Collected
  <1>2. PICK order \in SortedLoads, last \in Range(loads) :
          /\ \A s \in Range(loads) : End(segment(s)) <= End(segment(last))
          /\ loads' = order
          /\ base' = IF mode = "locate" THEN BODY_VADDR ELSE segment(order[1]).paddr
          /\ image' = [c \in 0..(End(segment(last)) - base' - 1) |-> Erased]
    BY DEF Sort
  <1>3. pc' = "copy" /\ k' = 1 /\ elf' = elf /\ mode' = mode /\ loads # << >>
    BY DEF Sort
  <1>4. /\ Len(loads) \in Nat \ {0} /\ Range(loads) \subseteq 1..N
        /\ order \in [1..Len(loads) -> Range(loads)] /\ Range(order) = Range(loads)
        /\ \A a, b \in 1..Len(loads) : a < b => Before(elf, order[a], order[b])
    BY <1>1, <1>2, <1>3 DEF SortedLoads
  <1>5. /\ loads' \in Seq(1..N) /\ Len(loads') = Len(loads) /\ DOMAIN order = 1..Len(loads)
        /\ Range(loads') = Kept(elf, mode)
    <2>1. order \in Seq(1..N) /\ Len(order) = Len(loads) /\ DOMAIN order = 1..Len(loads)
      BY <1>1, <1>4
    <2> QED
      BY <1>1, <1>2, <1>4, <2>1
  <1>6. \A s \in Range(loads) : \E a \in 1..Len(loads) : order[a] = s
    BY <1>4, <1>5 DEF Range
  <1>7. \A s \in Range(loads) :
          /\ segment(s).paddr \in Nat /\ segment(s).filesz \in Nat /\ End(segment(s)) \in Nat
    BY <1>1, SegmentFields DEF segment
  <1>8. base' \in Nat /\ \A s \in Range(loads) : base' <= segment(s).paddr
    <2>1. CASE mode = "locate"
      BY <1>1, <1>2, <2>1, KeptSegments, ElfAssumption DEF segment
    <2>2. CASE mode # "locate"
      <3>1. 1 \in 1..Len(loads) /\ order[1] \in Range(loads)
        BY <1>4
      <3>2. base' = segment(order[1]).paddr
        BY <1>2, <2>2
      <3>3. ASSUME NEW s \in Range(loads) PROVE base' <= segment(s).paddr
        <4>1. PICK a \in 1..Len(loads) : order[a] = s
          BY <1>6
        <4>2. a = 1 \/ Before(elf, order[1], order[a])
          BY <1>4, <3>1
        <4>3. order[1] \in 1..N /\ order[a] \in 1..N
          BY <1>4, <3>1
        <4>4. segment(order[1]).paddr <= segment(order[a]).paddr
          <5>1. CASE a = 1
            BY <1>7, <3>1, <5>1
          <5>2. CASE Before(elf, order[1], order[a])
            BY <1>1, <4>3, <5>2, BeforeIsStrict DEF segment
          <5> QED
            BY <4>2, <5>1, <5>2
        <4> QED
          BY <3>2, <4>1, <4>4
      <3> QED
        BY <1>7, <3>1, <3>2, <3>3
    <2> QED
      BY <2>1, <2>2
  <1>9. ASSUME NEW s \in Range(loads)
        PROVE  (segment(s).paddr - base')..(End(segment(s)) - base' - 1) \subseteq DOMAIN image'
    <2>1. DOMAIN image' = 0..(End(segment(last)) - base' - 1)
      BY <1>2
    <2>2. base' <= segment(s).paddr /\ End(segment(s)) <= End(segment(last))
      BY <1>2, <1>8
    <2> QED
      BY <1>7, <1>8, <2>1, <2>2
  <1>10. DOMAIN image' \subseteq Nat /\ image' \in [DOMAIN image' -> {Erased}]
    BY <1>2
  <1>11. ElfTypeOK'
    BY <1>1, <1>3, <1>5, <1>8, <1>10 DEF ElfTypeOK
  <1>12. Collected'
    BY <1>1, <1>3, <1>5 DEF Collected, DataInFile
  <1>13. Sorted'
    <2>1. \A a, b \in 1..Len(loads') : a < b => Before(elf', loads'[a], loads'[b])
      BY <1>2, <1>3, <1>4, <1>5 DEF Before
    <2>2. \A s \in Range(loads') : base' <= segment(s)'.paddr /\ Slice(s)' \subseteq DOMAIN image'
      BY <1>1, <1>3, <1>5, <1>8, <1>9 DEF segment, Slice
    <2> QED
      BY <1>1, <1>3, <1>5, <2>1, <2>2 DEF Sorted, Kept, Loadable
  <1>14. LaidOut'
    <2>1. Behind(k - 1)' = {}
      BY <1>3 DEF Behind
    <2>2. \A c \in DOMAIN image' : image'[c] = Erased
      BY <1>2
    <2>3. \A c \in DOMAIN image' : image'[c] = LoadMap(elf, Behind(k - 1), base + c)'
      BY <2>1, <2>2, LoadMapOfNothing
    <2>4. pc' = "copy" /\ k' \in 1..Len(loads')
      BY <1>3, <1>4, <1>5
    <2> QED
      BY <2>3, <2>4 DEF LaidOut
  <1> QED
    BY <1>11, <1>12, <1>13, <1>14 DEF IInv

(* A cell of the image is in a segment's slice if its address is covered.  *)
LEMMA SliceIsCovered ==
  ASSUME NEW p \in Nat, NEW f \in Nat, NEW b \in Nat, NEW c \in Nat
  PROVE  c \in (p - b)..(p + f - b - 1) <=> p <= b + c /\ b + c < p + f
  OBVIOUS

(* Different loads are different segments, so there are at most as many.   *)
LEMMA AtMostAllSegments ==
  ASSUME IInv, pc = "copy"
  PROVE  Len(loads) <= Len(elf.segments)
  <1> DEFINE N == Len(elf.segments)
             L == Len(loads)
  <1>1. elf \in Elf /\ loads \in Seq(1..N) /\ L \in Nat /\ N \in Nat
    BY KeptSegments DEF IInv, ElfTypeOK
  <1>2. loads \in [1..L -> 1..N]
    BY <1>1
  <1>3. \A a, b \in 1..L : a < b => Before(elf, loads[a], loads[b])
    BY DEF IInv, Sorted
  <1>4. ASSUME NEW a \in 1..L, NEW b \in 1..L, a # b PROVE loads[a] # loads[b]
    <2>1. loads[a] \in 1..N /\ loads[b] \in 1..N /\ (a < b \/ b < a)
      BY <1>1, <1>4
    <2>2. Before(elf, loads[a], loads[b]) \/ Before(elf, loads[b], loads[a])
      BY <1>3, <2>1
    <2> QED
      BY <1>1, <2>1, <2>2, BeforeIsStrict
  <1>5. ASSUME NEW n \in Nat PROVE IsFiniteSet(1..n) /\ Cardinality(1..n) = n
    <2>1. IsFiniteSet(1..n) /\ Cardinality(1..n) = IF 1 > n THEN 0 ELSE n - 1 + 1
      BY FS_Interval
    <2> QED
      BY <2>1
  <1>6. ~(N < L)
    <2> HIDE DEF L, N
    <2>1. /\ IsFiniteSet(1..L) /\ IsFiniteSet(1..N)
          /\ Cardinality(1..L) = L /\ Cardinality(1..N) = N
      BY <1>1, <1>5
    <2> QED
      BY <1>2, <1>4, <2>1, FS_PigeonHole
  <1> QED
    BY <1>1, <1>6

(* One more segment over those behind it: the image stays a load map.      *)
LEMMA Copying == ASSUME IInv, Copy PROVE IInv'
  <1> DEFINE N == Len(elf.segments)
             t == loads[k]
  <1>1. /\ elf \in Elf /\ N \in Nat /\ loads \in Seq(1..N) /\ base \in Nat
        /\ DOMAIN image \subseteq Nat /\ image \in [DOMAIN image -> 0..(elf.size - 1) \cup {Erased}]
        /\ k \in 1..Len(loads) /\ Len(loads) \in Nat
    <2>1. elf \in Elf
      BY DEF IInv, ElfTypeOK
    <2> QED
      BY <2>1, KeptSegments DEF IInv, ElfTypeOK, LaidOut, Copy
  <1>2. /\ Range(loads) = Kept(elf, mode)
        /\ \A a, b \in 1..Len(loads) : a < b => Before(elf, loads[a], loads[b])
        /\ \A s \in Range(loads) : base <= segment(s).paddr /\ Slice(s) \subseteq DOMAIN image
        /\ \A s \in Range(loads) : DataInFile(elf, s)
        /\ \A c \in DOMAIN image : image[c] = LoadMap(elf, Behind(k - 1), base + c)
    BY DEF IInv, Collected, Sorted, LaidOut, Copy
  <1>3. t \in 1..N /\ t \in Range(loads)
    BY <1>1 DEF Range
  <1>4. /\ segment(t).paddr \in Nat /\ segment(t).filesz \in Nat /\ segment(t).offset \in Nat
        /\ End(segment(t)) = segment(t).paddr + segment(t).filesz /\ elf.size \in Nat
        /\ segment(t).offset + segment(t).filesz <= elf.size
    BY <1>1, <1>2, <1>3, SegmentFields DEF segment, End, DataInFile
  <1>5. /\ UNCHANGED <<elf, mode, loads, base>> /\ DOMAIN image' = DOMAIN image
        /\ \A c \in DOMAIN image :
             image'[c] = IF c \in Slice(t) THEN ByteAt(segment(t), base + c) ELSE image[c]
        /\ image' = [c \in DOMAIN image |-> image'[c]]
    BY DEF Copy, Copied
  <1> HIDE DEF t
  <1>6. ASSUME NEW c \in DOMAIN image
        PROVE  /\ base + c \in Nat
               /\ c \in Slice(t) <=> Covers(segment(t), base + c)
               /\ c \in Slice(t) => ByteAt(segment(t), base + c) \in 0..(elf.size - 1)
    <2>1. c \in Nat /\ base \in Nat
      BY <1>1
    <2>2. c \in Slice(t) <=>
            segment(t).paddr <= base + c /\ base + c < segment(t).paddr + segment(t).filesz
      BY <1>4, <2>1, SliceIsCovered DEF Slice
    <2>3. c \in Slice(t) <=> Covers(segment(t), base + c)
      BY <1>4, <2>2 DEF Covers
    <2>4. ASSUME c \in Slice(t) PROVE ByteAt(segment(t), base + c) \in 0..(elf.size - 1)
      <3> DEFINE d == base + c - segment(t).paddr
      <3>1. d \in Nat /\ d < segment(t).filesz
        BY <1>4, <2>1, <2>2, <2>4
      <3>2. ByteAt(segment(t), base + c) = segment(t).offset + d
        BY <1>4, <2>1 DEF ByteAt
      <3> HIDE DEF d
      <3> QED
        BY <1>4, <3>1, <3>2
    <2> QED
      BY <2>1, <2>3, <2>4
  <1>7. /\ Behind(k) = Behind(k - 1) \cup {t}
        /\ Behind(k - 1) \in SUBSET (1..N)
        /\ \A s \in Behind(k - 1) : Before(elf, s, t)
    <2>1. 1..k = 1..(k - 1) \cup {k}
      BY <1>1
    <2>2. \A a \in 1..(k - 1) : a \in 1..Len(loads) /\ a < k
      BY <1>1
    <2>3. Behind(k) = Behind(k - 1) \cup {t}
      BY <2>1 DEF Behind, t
    <2>4. Behind(k - 1) \in SUBSET (1..N)
      BY <1>1, <2>2 DEF Behind
    <2>5. \A s \in Behind(k - 1) : Before(elf, s, t)
      BY <1>1, <1>2, <2>2 DEF Behind, t
    <2> QED
      BY <2>3, <2>4, <2>5
  <1>8. ASSUME NEW c \in DOMAIN image
        PROVE  image'[c] = LoadMap(elf, Behind(k), base + c)
    <2>1. LoadMap(elf, Behind(k), base + c) =
            IF Covers(segment(t), base + c) THEN ByteAt(segment(t), base + c)
            ELSE LoadMap(elf, Behind(k - 1), base + c)
      <3>1. elf \in Elf /\ t \in 1..N /\ base + c \in Nat
        BY <1>1, <1>3, <1>6
      <3> QED
        BY <1>7, <3>1, LoadMapOfOneMore DEF segment
    <2> QED
      BY <1>2, <1>5, <1>6, <2>1
  <1>9. image' \in [DOMAIN image' -> 0..(elf.size - 1) \cup {Erased}]
    BY <1>1, <1>5, <1>6
  <1>10. Behind(Len(loads)) = Kept(elf, mode)
    BY <1>1, <1>2 DEF Behind, Range
  <1>11. /\ pc = "copy"
         /\ \/ k = Len(loads) /\ pc' = "done" /\ k' = k
            \/ k # Len(loads) /\ pc' = "copy" /\ k' = k + 1
    BY DEF Copy
  <1>12. k' \in 1..(N + 1) /\ (pc' = "copy" => k' \in 1..Len(loads))
    <2>1. CASE k' = k
      BY <1>1, <1>11, <2>1 DEF IInv, ElfTypeOK
    <2>2. CASE k # Len(loads) /\ k' = k + 1
      <3>1. k + 1 \in 1..Len(loads)
        BY <1>1, <2>2
      <3>2. Len(loads) <= N
        BY AtMostAllSegments DEF Copy
      <3> QED
        BY <1>1, <2>2, <3>1, <3>2
    <2> QED
      BY <1>11, <2>1, <2>2
  <1>13. ElfTypeOK'
    BY <1>1, <1>5, <1>9, <1>11, <1>12 DEF IInv, ElfTypeOK
  <1>14. Collected' /\ Sorted'
    BY <1>2, <1>5, <1>11 DEF Collected, Sorted, segment, Slice
  <1>15. LaidOut'
    <2>1. \A n : Behind(n)' = Behind(n)
      BY <1>5 DEF Behind
    <2>2. CASE pc' = "done"
      <3>1. k = Len(loads)
        BY <1>11, <2>2
      <3>2. \A c \in DOMAIN image' : image'[c] = LoadMap(elf', Kept(elf', mode'), base' + c)
        BY <1>5, <1>8, <1>10, <3>1
      <3> QED
        BY <2>2, <3>2 DEF LaidOut
    <2>3. CASE pc' = "copy"
      <3>1. k' = k + 1 /\ k' - 1 = k
        BY <1>1, <1>11, <2>3
      <3>2. Behind(k - 1)' = Behind(k)
        BY <1>5, <3>1 DEF Behind
      <3>3. \A c \in DOMAIN image' : image'[c] = LoadMap(elf, Behind(k - 1), base + c)'
        BY <1>5, <1>8, <3>2
      <3> QED
        BY <1>5, <1>12, <2>3, <3>3 DEF LaidOut
    <2> QED
      BY <1>11, <2>2, <2>3
  <1> QED
    BY <1>13, <1>14, <1>15 DEF IInv

(* All steps together.                                                     *)
LEMMA Inductive == IInv /\ [Next]_vars => IInv'
  <1> SUFFICES ASSUME IInv, [Next]_vars PROVE IInv'
    OBVIOUS
  <1>1. CASE Returned \/ UNCHANGED vars
    <2>1. UNCHANGED <<elf, mode, pc, k, loads, base, image>>
      BY <1>1 DEF Returned, vars
    <2> QED
      BY <2>1 DEF IInv, ElfTypeOK, Collected, Sorted, LaidOut, Behind, segment, Slice
  <1> QED
    BY <1>1, SectionSteps, Collecting, Sorting, Copying DEF Next, Step

(* So the invariant holds throughout.                                      *)
LEMMA Invariance == Spec => []IInv
  BY Initially, Inductive, PTL DEF Spec

-----------------------------------------------------------------------------
(* Every byte of an image is a byte of the file or erased, for every ELF.  *)
THEOREM LayoutTypes == Spec => []ElfTypeOK
  <1>1. IInv => ElfTypeOK
    BY DEF IInv
  <1> QED
    BY <1>1, Invariance, PTL

(* No slice of the copying loop panics and no subtraction of the base goes *)
(* below zero, for any number, order and overlap of segments.              *)
THEOREM LayoutCopiesStayInside == Spec => []CopiesStayInside
  <1>1. IInv => CopiesStayInside
    <2> SUFFICES ASSUME IInv, pc = "copy"
                 PROVE  loads[k] \in Range(loads)
      BY DEF IInv, Sorted, CopiesStayInside
    <2>1. loads \in Seq(1..Len(elf.segments)) /\ k \in 1..Len(loads)
      BY DEF IInv, ElfTypeOK, LaidOut
    <2> QED
      BY <2>1 DEF Range
  <1> QED
    BY <1>1, Invariance, PTL

(* flatten_elf and locate_elf compute the load map: each byte is the one of *)
(* the last segment, in address order, that covers it.                     *)
THEOREM LayoutImageIsLoadMap == Spec => []ImageIsLoadMap
  <1>1. IInv => ImageIsLoadMap
    BY DEF IInv, Sorted, LaidOut, ImageIsLoadMap
  <1> QED
    BY <1>1, Invariance, PTL
=============================================================================

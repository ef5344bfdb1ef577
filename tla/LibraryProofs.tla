--------------------------- MODULE LibraryProofs ----------------------------
(***************************************************************************)
(* eD2k, in both versions and with chunks of any size, implements          *)
(* StreamHash: its digest is that of the whole file, however the file was  *)
(* cut into buffers.  And the conversions of Codec invert each other, for  *)
(* every hash, text, table, version number and path.                       *)
(***************************************************************************)
EXTENDS Ed2k, Codec, FoldProofs

EdNames == {"eD2k"}
EdByte(name) == Byte
EdDigest(name, data) == Ed2kDigest(data)

(* StreamHash with this one algorithm.                                     *)
Hash == INSTANCE StreamHash WITH
          Names <- EdNames, Byte <- EdByte, Digest <- EdDigest, algorithm <- "eD2k"
-----------------------------------------------------------------------------
(* What an unfinished context says of the data it was fed: the digests of  *)
(* the whole chunks, the last of these once more, and the rest.            *)
Whole(data) == Len(data) \div ChunkSize
Describes(c, data) ==
  c = [current_chunk   |-> SubSeq(data, Whole(data) * ChunkSize + 1, Len(data)),
       root_hash       |-> Chunks(data, Whole(data)),
       last_chunk_hash |-> IF Whole(data) = 0 THEN MD4(<<>>)
                           ELSE MD4(Chunk(data, Whole(data))),
       hashed          |-> Len(data)]

LEMMA FillsUp ==
  ASSUME NEW n \in Nat, NEW d \in Nat \ {0}, NEW m \in Nat, m = d - (n % d)
  PROVE  (n + m) % d = 0
<1> DEFINE q == n \div d
           p == q + 1
<1>1. q \in Nat /\ q * d <= n /\ n % d = n - q * d
  BY QuotientBounds
<1> HIDE DEF q
<1>2. q * d \in Nat /\ p * d = q * d + d /\ p \in Nat /\ p * d \in Nat
      /\ (p + 1) * d = p * d + d
  BY <1>1, TimesKeepsOrder
<1>3. n + m = p * d
  BY <1>1, <1>2
<1> HIDE DEF p
<1>4. (n + m) \div d = p
  <2>1. n + m \in Nat /\ p * d <= n + m /\ n + m < (p + 1) * d
    BY <1>2, <1>3
  <2> QED BY <1>2, <2>1, QuotientIs
<1>5. (n + m) % d = (n + m) - ((n + m) \div d) * d
  <2>1. n + m \in Nat
    OBVIOUS
  <2> QED BY <2>1, QuotientBounds
<1> QED BY <1>2, <1>3, <1>4, <1>5

(* A buffer that does not reach beyond the present chunk either fills it   *)
(* or leaves the number of whole chunks as it was.                         *)
LEMMA WholeAfter ==
  ASSUME Ed2kAssumption,
         NEW n \in Nat, NEW m \in Nat, (n % ChunkSize) + m <= ChunkSize
  PROVE  /\ (n + m) % ChunkSize = 0 /\ m # 0 =>
              /\ (n + m) \div ChunkSize = n \div ChunkSize + 1
              /\ (n \div ChunkSize + 1) * ChunkSize = n + m
         /\ (n + m) % ChunkSize # 0 \/ m = 0 =>
              (n + m) \div ChunkSize = n \div ChunkSize
<1> DEFINE w == n \div ChunkSize
           r == n % ChunkSize
           next == (w + 1) * ChunkSize
<1>1. ChunkSize \in Nat \ {0} /\ n + m \in Nat
  BY DEF Ed2kAssumption
<1>2. w \in Nat /\ r \in 0..(ChunkSize - 1) /\ w * ChunkSize <= n /\ r = n - w * ChunkSize
  BY <1>1, QuotientBounds
<1>3. w * ChunkSize \in Nat /\ next = w * ChunkSize + ChunkSize /\ next \in Nat
  BY <1>1, <1>2, TimesKeepsOrder
<1>4. w + 1 \in Nat /\ (w + 1 + 1) * ChunkSize = next + ChunkSize
  BY <1>1, <1>2, TimesKeepsOrder
<1> HIDE DEF w, r, next
<1>5. r + m <= ChunkSize
  BY DEF r
<1>6. w * ChunkSize <= n + m /\ n + m <= next
  BY <1>1, <1>2, <1>3, <1>5
<1>7. CASE n + m = next
  <2>1. next <= n + m /\ n + m < (w + 1 + 1) * ChunkSize
    BY <1>1, <1>4, <1>7
  <2>2. (n + m) \div ChunkSize = w + 1
    BY <1>1, <1>4, <2>1, QuotientIs DEF next
  <2>3. (n + m) % ChunkSize = (n + m) - ((n + m) \div ChunkSize) * ChunkSize
    BY <1>1, QuotientBounds
  <2>4. (n + m) % ChunkSize = 0
    BY <1>1, <1>7, <2>2, <2>3 DEF next
  <2>5. m # 0
    BY <1>1, <1>2, <1>3, <1>7
  <2> QED BY <1>7, <2>2, <2>4, <2>5 DEF w, next
<1>8. CASE n + m < next
  <2>1. (n + m) \div ChunkSize = w
    BY <1>1, <1>2, <1>6, <1>8, QuotientIs DEF next
  <2>2. (n + m) % ChunkSize = (n + m) - ((n + m) \div ChunkSize) * ChunkSize
    BY <1>1, QuotientBounds
  <2>3. (n + m) % ChunkSize = 0 => m = 0
    BY <1>1, <1>2, <1>3, <2>1, <2>2
  <2> QED BY <2>1, <2>3 DEF w
<1> QED BY <1>1, <1>3, <1>6, <1>7, <1>8

-----------------------------------------------------------------------------
(* A chunk that is all there, and one that is not.                         *)
LEMMA WholeChunk ==
  ASSUME Ed2kAssumption, NEW data \in Seq(Byte),
         NEW i \in Nat \ {0}, i * ChunkSize <= Len(data)
  PROVE  /\ Chunk(data, i) = SubSeq(data, (i - 1) * ChunkSize + 1, i * ChunkSize)
         /\ (i - 1) * ChunkSize + 1 \in 1..Len(data)
         /\ i * ChunkSize \in 1..Len(data)
<1>1. ChunkSize \in Nat \ {0} /\ i - 1 \in Nat /\ Len(data) \in Nat
  BY DEF Ed2kAssumption
<1>2. (i - 1) * ChunkSize \in Nat /\ ((i - 1) + 1) * ChunkSize = (i - 1) * ChunkSize + ChunkSize
  BY <1>1, TimesKeepsOrder
<1>3. (i - 1) + 1 = i
  BY <1>1
<1>4. i * ChunkSize = (i - 1) * ChunkSize + ChunkSize
  BY <1>2, <1>3
<1>5. (IF i * ChunkSize < Len(data) THEN i * ChunkSize ELSE Len(data)) = i * ChunkSize
  BY <1>1, <1>2, <1>4
<1> DEFINE a == (i - 1) * ChunkSize
           b == i * ChunkSize
<1>6. a \in Nat /\ b = a + ChunkSize /\ b <= Len(data)
  BY <1>2, <1>4
<1>7. Chunk(data, i) = SubSeq(data, a + 1, b)
  BY <1>5 DEF Chunk
<1> HIDE DEF a, b
<1>8. a + 1 \in 1..Len(data) /\ b \in 1..Len(data)
  BY <1>1, <1>6
<1> QED BY <1>7, <1>8 DEF a, b

LEMMA LastChunk ==
  ASSUME Ed2kAssumption, NEW data \in Seq(Byte),
         NEW n \in Nat, Len(data) < (n + 1) * ChunkSize
  PROVE  Chunk(data, n + 1) = SubSeq(data, n * ChunkSize + 1, Len(data))
<1>1. (n + 1) - 1 = n
  OBVIOUS
<1>2. ~ ((n + 1) * ChunkSize < Len(data))
  <2>1. (n + 1) * ChunkSize \in Nat /\ Len(data) \in Nat
    BY TimesKeepsOrder DEF Ed2kAssumption
  <2> QED BY <2>1
<1> QED BY <1>1, <1>2 DEF Chunk

(* What is appended does not change the chunks before it.                  *)
LEMMA ChunksBefore ==
  ASSUME Ed2kAssumption, NEW data \in Seq(Byte), NEW more \in Seq(Byte),
         NEW n \in Nat, n * ChunkSize <= Len(data)
  PROVE  /\ \A i \in 1..n : Chunk(data \o more, i) = Chunk(data, i)
         /\ Chunks(data \o more, n) = Chunks(data, n)
<1>1. ASSUME NEW i \in 1..n PROVE Chunk(data \o more, i) = Chunk(data, i)
  <2>1. i \in Nat \ {0} /\ i * ChunkSize <= n * ChunkSize /\ i * ChunkSize \in Nat
        /\ n * ChunkSize \in Nat
    BY TimesKeepsOrder DEF Ed2kAssumption
  <2>2. data \o more \in Seq(Byte) /\ Len(data \o more) = Len(data) + Len(more)
    BY ConcatProperties
  <2>3. Len(data) \in Nat /\ Len(more) \in Nat
    OBVIOUS
  <2>4. i * ChunkSize <= Len(data) /\ i * ChunkSize <= Len(data \o more)
    BY <2>1, <2>2, <2>3
  <2>5. Chunk(data \o more, i) =
          SubSeq(data \o more, (i - 1) * ChunkSize + 1, i * ChunkSize)
    BY <2>1, <2>2, <2>4, WholeChunk
  <2>6. /\ Chunk(data, i) = SubSeq(data, (i - 1) * ChunkSize + 1, i * ChunkSize)
        /\ (i - 1) * ChunkSize + 1 \in 1..Len(data)
        /\ i * ChunkSize \in 1..Len(data)
    BY <2>1, <2>4, WholeChunk
  <2>7. SubSeq(data \o more, (i - 1) * ChunkSize + 1, i * ChunkSize)
          = SubSeq(data, (i - 1) * ChunkSize + 1, i * ChunkSize)
    BY <2>6, SubSeqOfConcat1
  <2> QED BY <2>5, <2>6, <2>7
<1>2. Chunks(data \o more, n) = Chunks(data, n)
  BY <1>1 DEF Chunks
<1> QED BY <1>1, <1>2

(* The rest of the data, with what is appended, is the rest of all.        *)
LEMMA RestGrows ==
  ASSUME NEW data \in Seq(Byte), NEW more \in Seq(Byte), NEW a \in 0..Len(data)
  PROVE  SubSeq(data, a + 1, Len(data)) \o more
           = SubSeq(data \o more, a + 1, Len(data \o more))
<1> DEFINE all == data \o more
           l == Len(data)
<1>1. all \in Seq(Byte) /\ Len(all) = l + Len(more) /\ l \in Nat /\ Len(more) \in Nat
  BY ConcatProperties
<1>2. SubSeq(all, a + 1, l) = SubSeq(data, a + 1, l)
  <2>1. CASE a = l
    <3>1. a + 1 \in Int /\ l \in Int /\ l < a + 1
      BY <1>1, <2>1
    <3> HIDE DEF all, l
    <3> QED BY <3>1, SubSeqEmpty
  <2>2. CASE a # l
    <3>1. a + 1 \in 1..Len(data) /\ l \in 1..Len(data)
      BY <1>1, <2>2
    <3> QED BY <3>1, SubSeqOfConcat1
  <2> QED BY <2>1, <2>2
<1>3. SubSeq(all, l + 1, Len(all)) = more
  <2>1. CASE more = <<>>
    <3>1. l + 1 \in Int /\ Len(all) \in Int /\ Len(all) < l + 1
      BY <1>1, <2>1
    <3> HIDE DEF all, l
    <3> QED BY <2>1, <3>1, SubSeqEmpty
  <2>2. CASE more # <<>>
    <3>1. Len(more) # 0
      BY <2>2
    <3>2. /\ l + 1 \in (Len(data) + 1)..(Len(data) + Len(more))
          /\ Len(all) \in (Len(data) + 1)..(Len(data) + Len(more))
          /\ (l + 1) - Len(data) = 1 /\ Len(all) - Len(data) = Len(more)
      BY <1>1, <3>1
    <3>3. SubSeq(all, l + 1, Len(all)) = SubSeq(more, 1, Len(more))
      <4>1. SubSeq(data \o more, l + 1, Len(all))
              = SubSeq(more, (l + 1) - Len(data), Len(all) - Len(data))
        BY <3>2, SubSeqOfConcat2
      <4> QED BY <3>2, <4>1
    <3> QED BY <3>3, SubSeqFull
  <2> QED BY <2>1, <2>2
<1>4. SubSeq(all, a + 1, l) \o SubSeq(all, l + 1, Len(all)) = SubSeq(all, a + 1, Len(all))
  <2>1. /\ a + 1 \in 1..(Len(all) + 1) /\ l \in ((a + 1) - 1)..Len(all)
        /\ Len(all) \in l..Len(all)
    BY <1>1
  <2> HIDE DEF all, l
  <2> QED BY <1>1, <2>1, ConcatAdjacentSubSeq
<1> QED BY <1>2, <1>3, <1>4

-----------------------------------------------------------------------------
LEMMA WholeIs ==
  ASSUME Ed2kAssumption, NEW data \in Seq(Byte)
  PROVE  /\ Whole(data) \in Nat /\ Whole(data) * ChunkSize \in Nat
         /\ Whole(data) * ChunkSize <= Len(data)
         /\ Len(data) < (Whole(data) + 1) * ChunkSize
         /\ Len(data) % ChunkSize = Len(data) - Whole(data) * ChunkSize
<1> DEFINE l == Len(data)
<1>1. l \in Nat /\ ChunkSize \in Nat \ {0}
  BY DEF Ed2kAssumption
<1> HIDE DEF l
<1>2. /\ l \div ChunkSize \in Nat /\ (l \div ChunkSize) * ChunkSize <= l
      /\ l < (l \div ChunkSize + 1) * ChunkSize
      /\ l % ChunkSize = l - (l \div ChunkSize) * ChunkSize
  BY <1>1, QuotientBounds
<1>3. (l \div ChunkSize) * ChunkSize \in Nat
  BY <1>1, <1>2, TimesKeepsOrder
<1> QED BY <1>2, <1>3 DEF l, Whole

(* UpdateInternal keeps a context true, if what it is given does not reach *)
(* beyond the present chunk.                                               *)
LEMMA UpdateDescribes ==
  ASSUME Ed2kAssumption, NEW data \in Seq(Byte), NEW more \in Seq(Byte),
         NEW c, Describes(c, data), (Len(data) % ChunkSize) + Len(more) <= ChunkSize
  PROVE  Describes(UpdateInternal(c, more), data \o more)
<1> DEFINE all == data \o more
           w == Whole(data)
           chunk == c.current_chunk \o more
           rest == SubSeq(all, w * ChunkSize + 1, Len(all))
<1>1. all \in Seq(Byte) /\ Len(all) = Len(data) + Len(more)
      /\ Len(data) \in Nat /\ Len(more) \in Nat
  BY ConcatProperties
<1>2. ChunkSize \in Nat \ {0}
  BY DEF Ed2kAssumption
<1>3. w \in Nat /\ w * ChunkSize <= Len(data) /\ w * ChunkSize \in Nat
  BY WholeIs
<1>4. chunk = rest
  <2>1. c.current_chunk = SubSeq(data, w * ChunkSize + 1, Len(data))
    BY DEF Describes
  <2>2. w * ChunkSize \in 0..Len(data)
    BY <1>1, <1>3
  <2> QED BY <2>1, <2>2, RestGrows
<1>5. Chunks(all, w) = Chunks(data, w) /\ \A i \in 1..w : Chunk(all, i) = Chunk(data, i)
  BY <1>3, ChunksBefore
<1>6. more = <<>> <=> Len(more) = 0
  OBVIOUS
<1>7. c.hashed + Len(more) = Len(all)
  BY <1>1 DEF Describes
<1>8. CASE more # <<>> /\ Len(all) % ChunkSize = 0
  <2>1. Whole(all) = w + 1 /\ (w + 1) * ChunkSize = Len(all)
    BY <1>1, <1>6, <1>8, WholeAfter DEF Whole
  <2>2. Chunk(all, w + 1) = rest
    <3>1. w + 1 \in Nat \ {0} /\ (w + 1) - 1 = w
      BY <1>3
    <3>3. (w + 1) * ChunkSize <= Len(all)
      BY <1>1, <2>1
    <3>2. Chunk(all, w + 1) = SubSeq(all, ((w + 1) - 1) * ChunkSize + 1, (w + 1) * ChunkSize)
      BY <1>1, <3>1, <3>3, WholeChunk
    <3> QED BY <2>1, <3>1, <3>2
  <2>3. UpdateInternal(c, more) =
          [current_chunk |-> <<>>, hashed |-> Len(all), last_chunk_hash |-> MD4(rest),
           root_hash |-> Append(Chunks(data, w), MD4(rest))]
    BY <1>4, <1>7, <1>8 DEF UpdateInternal, Describes
  <2>4. SubSeq(all, Whole(all) * ChunkSize + 1, Len(all)) = <<>>
    BY <1>1, <2>1, SubSeqEmpty
  <2>5. Append(Chunks(data, w), MD4(rest)) = Chunks(all, w + 1)
    <3> DEFINE part == MD4(rest)
               before == Chunks(data, w)
    <3>1. before = [i \in 1..w |-> MD4(Chunk(all, i))]
      BY <1>5 DEF Chunks
    <3>2. Chunks(all, w + 1) = [i \in 1..(w + 1) |-> MD4(Chunk(all, i))]
      BY DEF Chunks
    <3>3. part = MD4(Chunk(all, w + 1))
      BY <2>2
    <3> HIDE DEF part, before, w, rest, all
    <3> QED BY <1>3, <3>1, <3>2, <3>3 DEF part, before
  <2>6. Whole(all) # 0
    BY <1>3, <2>1
  <2> QED BY <2>1, <2>2, <2>3, <2>4, <2>5, <2>6 DEF Describes
<1>9. CASE more = <<>> \/ Len(all) % ChunkSize # 0
  <2>1. Whole(all) = w
    BY <1>1, <1>6, <1>9, WholeAfter DEF Whole
  <2>2. UpdateInternal(c, more) = [c EXCEPT !.current_chunk = rest, !.hashed = Len(all)]
    BY <1>4, <1>7, <1>9 DEF UpdateInternal
  <2>3. w # 0 => Chunk(all, w) = Chunk(data, w)
    BY <1>3, <1>5
  <2> QED BY <1>5, <2>1, <2>2, <2>3, ZenonT(40) DEF Describes
<1> QED BY <1>8, <1>9

-----------------------------------------------------------------------------
(* The inductive invariant.                                                *)
Ed2kInv == fed \in Seq(Byte) /\ Describes(Context, fed)

LEMMA Ed2kInitial ==
  ASSUME Ed2kAssumption, Ed2kInit
  PROVE  Ed2kInv
<1>1. fed = <<>> /\ <<>> \in Seq(Byte) /\ Len(fed) = 0
  BY DEF Ed2kInit
<1>2. Whole(fed) = 0 /\ 0 * ChunkSize = 0
  <2>1. ChunkSize \in Nat \ {0}
    BY DEF Ed2kAssumption
  <2>2. 0 \div ChunkSize = 0
    BY <2>1, QuotientIs
  <2> QED BY <1>1, <2>1, <2>2 DEF Whole
<1>3. SubSeq(fed, 0 + 1, Len(fed)) = <<>>
  BY <1>1, SubSeqEmpty
<1>4. Chunks(fed, 0) = <<>>
  BY DEF Chunks
<1>5. Context = [current_chunk |-> <<>>, root_hash |-> <<>>, last_chunk_hash |-> MD4(<<>>),
                 hashed |-> 0]
  BY DEF Ed2kInit, Context
<1> QED BY <1>1, <1>2, <1>3, <1>4, <1>5 DEF Ed2kInv, Describes

(* The buffer is cut once, where the present chunk ends; since it is no    *)
(* longer than a chunk, the second part does not reach beyond the next.    *)
LEMMA UpdateKeeps ==
  ASSUME Ed2kAssumption, Ed2kInv, NEW data \in Buffers, Ed2kUpdate(data)
  PROVE  /\ data \in Seq(Byte)
         /\ Ed2kInv'
<1> DEFINE first == IF NeededForNextChunk < Len(data) THEN NeededForNextChunk ELSE Len(data)
           one == SubSeq(data, 1, first)
           two == SubSeq(data, first + 1, Len(data))
           c == UpdateInternal(Context, one)
           d == UpdateInternal(c, two)
<1>1. data \in Seq(Byte) /\ Len(data) \in Nat /\ Len(data) <= ChunkSize
  <2>1. PICK n \in 0..BlockSize : data \in [1..n -> Byte]
    BY DEF Buffers
  <2>2. data \in Seq(Byte) /\ Len(data) = n
    BY <2>1 DEF Ed2kAssumption
  <2> QED BY <2>1, <2>2 DEF Ed2kAssumption
<1>2. /\ fed \in Seq(Byte) /\ Describes(Context, fed)
      /\ hashed = Len(fed) /\ Len(fed) \in Nat /\ ChunkSize \in Nat \ {0}
  BY DEF Ed2kInv, Describes, Context, Ed2kAssumption
<1> DEFINE r == Len(fed) % ChunkSize
<1>3. NeededForNextChunk = ChunkSize - r /\ r \in 0..(ChunkSize - 1)
  <2>1. /\ Whole(fed) \in Nat /\ Whole(fed) * ChunkSize \in Nat
        /\ r = Len(fed) - Whole(fed) * ChunkSize
    BY <1>2, WholeIs
  <2>2. (Whole(fed) + 1) * ChunkSize = Whole(fed) * ChunkSize + ChunkSize
    BY <1>2, <2>1, TimesKeepsOrder
  <2>3. NeededForNextChunk = (Whole(fed) + 1) * ChunkSize - Len(fed)
    BY <1>2 DEF NeededForNextChunk, Whole
  <2>4. r \in 0..(ChunkSize - 1)
    BY <1>2, QuotientBounds
  <2> DEFINE a == Whole(fed) * ChunkSize
             b == (Whole(fed) + 1) * ChunkSize
             l == Len(fed)
  <2>5. a \in Nat /\ l \in Nat /\ r = l - a /\ b = a + ChunkSize
        /\ NeededForNextChunk = b - l
    BY <1>2, <2>1, <2>2, <2>3
  <2> HIDE DEF r, a, b, l
  <2> QED BY <1>2, <2>4, <2>5
<1>4. first \in 0..Len(data) /\ r + first <= ChunkSize
  <2> HIDE DEF r
  <2> QED BY <1>1, <1>2, <1>3
<1>5. one \in Seq(Byte) /\ Len(one) = first /\ two \in Seq(Byte)
      /\ Len(two) = Len(data) - first /\ one \o two = data
  <2> HIDE DEF first
  <2>1. one \in Seq(Byte) /\ Len(one) = first
    BY <1>1, <1>4, SubSeqProperties
  <2>2. two \in Seq(Byte) /\ Len(two) = Len(data) - first
    BY <1>1, <1>4, SubSeqProperties
  <2>3. one \o two = SubSeq(data, 1, Len(data))
    <3>1. /\ 1 \in 1..(Len(data) + 1) /\ first \in (1 - 1)..Len(data)
          /\ Len(data) \in first..Len(data)
      BY <1>1, <1>4
    <3> QED BY <1>1, <3>1, ConcatAdjacentSubSeq
  <2> QED BY <1>1, <2>1, <2>2, <2>3, SubSeqFull
<1> DEFINE half == fed \o one
<1>6. half \in Seq(Byte) /\ Len(half) = Len(fed) + first
  BY <1>2, <1>5, ConcatProperties
<1>7. (Len(half) % ChunkSize) + Len(two) <= ChunkSize
  <2>1. CASE NeededForNextChunk < Len(data)
    <3>1. first = ChunkSize - r
      BY <1>3, <2>1
    <3> HIDE DEF first
    <3>2. (Len(fed) + first) % ChunkSize = 0
      <4>1. first \in Nat
        BY <1>1, <1>4
      <4> QED BY <1>2, <3>1, <4>1, FillsUp DEF r
    <3>3. Len(half) % ChunkSize = 0
      BY <1>6, <3>2
    <3> HIDE DEF half, two, r
    <3>4. Len(two) <= ChunkSize /\ Len(two) \in Nat
      BY <1>1, <1>2, <1>4, <1>5
    <3> QED BY <3>3, <3>4
  <2>2. CASE ~ (NeededForNextChunk < Len(data))
    <3>1. Len(two) = 0
      BY <1>1, <1>5, <2>2
    <3>2. Len(half) \in Nat
      BY <1>6
    <3> DEFINE l == Len(half)
    <3> HIDE DEF half, two, first, l
    <3>3. l % ChunkSize \in 0..(ChunkSize - 1)
      BY <1>2, <3>2, QuotientBounds DEF l
    <3> QED BY <1>2, <3>1, <3>3 DEF l
  <2> QED BY <2>1, <2>2
<1>8. Describes(c, half)
  <2>1. (Len(fed) % ChunkSize) + Len(one) <= ChunkSize
    BY <1>4, <1>5
  <2> HIDE DEF one
  <2> QED BY <1>2, <1>5, <2>1, UpdateDescribes
<1>9. Describes(d, half \o two)
  <2> HIDE DEF c, half, two
  <2> QED BY <1>5, <1>6, <1>7, <1>8, UpdateDescribes
<1>10. half \o two = fed \o data
  <2>1. (fed \o one) \o two = fed \o (one \o two)
    <3>1. fed \in Seq(Byte) /\ one \in Seq(Byte) /\ two \in Seq(Byte)
      BY <1>2, <1>5
    <3> HIDE DEF one, two
    <3>2. \A x, y, z \in Seq(Byte) : (x \o y) \o z = x \o (y \o z)
      BY ConcatAssociative
    <3> QED BY <3>1, <3>2, Zenon
  <2> QED BY <1>5, <2>1
<1>11. fed' = fed \o data /\ fed' \in Seq(Byte)
  BY <1>1, <1>2, ConcatProperties DEF Ed2kUpdate
<1>12. Context' = d
  <2>1. d = [current_chunk |-> d.current_chunk, root_hash |-> d.root_hash,
             last_chunk_hash |-> d.last_chunk_hash, hashed |-> d.hashed]
    <3> HIDE DEF d, half, two
    <3> QED BY <1>9 DEF Describes
  <2>2. /\ current_chunk' = d.current_chunk /\ root_hash' = d.root_hash
        /\ last_chunk_hash' = d.last_chunk_hash /\ hashed' = d.hashed
    BY DEF Ed2kUpdate
  <2> HIDE DEF d
  <2> QED BY <2>1, <2>2 DEF Context
<1>13. Describes(Context', fed')
  BY <1>9, <1>10, <1>11, <1>12
<1> QED BY <1>1, <1>11, <1>13 DEF Ed2kInv, Describes, Whole, Chunks, Chunk, MD4

(* Finish gives the digest of the whole, and leaves the context alone.     *)
LEMMA FinishIsDigest ==
  ASSUME Ed2kAssumption, Ed2kInv, Ed2kFinish
  PROVE  out' = <<Ed2kDigest(fed)>>
<1> DEFINE w == Whole(fed)
           l == Len(fed)
           isWhole == l % ChunkSize = 0
<1>1. /\ fed \in Seq(Byte) /\ l \in Nat /\ ChunkSize \in Nat \ {0}
      /\ hashed = l /\ root_hash = Chunks(fed, w)
      /\ current_chunk = SubSeq(fed, w * ChunkSize + 1, l)
      /\ last_chunk_hash = IF w = 0 THEN MD4(<<>>) ELSE MD4(Chunk(fed, w))
      /\ ExtraNullVersion \in BOOLEAN
  BY DEF Ed2kInv, Describes, Context, Ed2kAssumption
<1>2. /\ w \in Nat /\ w * ChunkSize \in Nat /\ w * ChunkSize <= l
      /\ l < (w + 1) * ChunkSize /\ l % ChunkSize = l - w * ChunkSize
      /\ (w + 1) * ChunkSize = w * ChunkSize + ChunkSize
  BY <1>1, WholeIs, TimesKeepsOrder
<1>3. w = 0 => w * ChunkSize = 0
  BY <1>1
<1>4. w = 1 => w * ChunkSize = ChunkSize
  BY <1>1
<1>5. w >= 2 => w * ChunkSize > ChunkSize
  <2>1. ASSUME w >= 2 PROVE w * ChunkSize > ChunkSize
    <3>1. 2 * ChunkSize <= w * ChunkSize
      BY <1>1, <1>2, <2>1, TimesKeepsOrder
    <3>2. QED  BY <1>1, <1>2, <3>1, SMTT(30)
  <2>2. QED  BY <2>1
<1>6. Ed2kDigest(fed) =
        LET begun == IF isWhole THEN w ELSE w + 1
            n == IF ExtraNullVersion THEN w + 1 ELSE begun
        IN  IF n <= 1 THEN MD4(fed) ELSE MD4(Chunks(fed, n))
  BY DEF Ed2kDigest, Whole
<1>7. fed = SubSeq(fed, 1, l)
  BY <1>1, SubSeqFull
<1>8. Append(root_hash, MD4(current_chunk)) = Chunks(fed, w + 1)
  <2> DEFINE last == MD4(current_chunk)
  <2>1. last = MD4(Chunk(fed, w + 1))
    BY <1>1, <1>2, LastChunk
  <2>2. root_hash = [i \in 1..w |-> MD4(Chunk(fed, i))]
    BY <1>1 DEF Chunks
  <2>3. Chunks(fed, w + 1) = [i \in 1..(w + 1) |-> MD4(Chunk(fed, i))]
    BY DEF Chunks
  <2> HIDE DEF last, w
  <2>4. QED  BY <1>2, <2>1, <2>2, <2>3 DEF last
<1> DEFINE asWhole == ~Short /\ ~ExtraNullVersion /\ hashed % ChunkSize = 0
<1>9. out' = << CASE Short                             -> MD4(current_chunk)
                  [] asWhole /\ hashed = ChunkSize -> last_chunk_hash
                  [] asWhole /\ hashed # ChunkSize -> MD4(root_hash)
                  [] OTHER                             -> WithPartial >>
  BY DEF Ed2kFinish
<1> DEFINE wc == w * ChunkSize
<1>10. isWhole <=> l = wc
  <2>1. l \in Nat /\ wc \in Nat /\ l % ChunkSize = l - wc
    BY <1>1, <1>2
  <2> DEFINE r == l % ChunkSize
  <2> HIDE DEF l, wc, r
  <2>2. r = 0 <=> l = wc
    BY <2>1 DEF r
  <2>3. QED  BY <2>2 DEF r
<1>11. /\ w \in Nat /\ wc \in Nat /\ wc <= l /\ l < wc + ChunkSize
       /\ (w = 0 => wc = 0) /\ (w = 1 => wc = ChunkSize) /\ (w >= 2 => wc > ChunkSize)
  BY <1>2, <1>3, <1>4, <1>5
<1>12. CASE Short
  <2>1. l < ChunkSize
    BY <1>1, <1>12 DEF Short
  <2>2. w = 0
    <3> HIDE DEF w, wc, l
    <3>1. QED  BY <1>1, <1>11, <2>1
  <2>3. MD4(current_chunk) = MD4(fed)
    <3>1. w * ChunkSize + 1 = 1
      BY <1>3, <2>2
    <3> HIDE DEF w, l
    <3>2. QED  BY <1>1, <1>7, <3>1
  <2>4. Ed2kDigest(fed) = MD4(fed)
    <3> HIDE DEF isWhole, w
    <3>1. QED  BY <1>6, <2>2
  <2>5. out' = <<MD4(current_chunk)>>
    BY <1>9, <1>12
  <2>6. QED  BY <2>3, <2>4, <2>5
<1>13. CASE asWhole /\ hashed = ChunkSize
  <2>1. isWhole /\ ~ExtraNullVersion /\ l = ChunkSize
    BY <1>1, <1>13
  <2>2. w = 1
    <3> HIDE DEF w, wc, l, isWhole
    <3>1. QED  BY <1>1, <1>10, <1>11, <2>1
  <2>3. Chunk(fed, 1) = fed
    <3>1. 1 * ChunkSize = ChunkSize /\ (1 - 1) * ChunkSize = 0 /\ 1 \in Nat \ {0}
      BY <1>1
    <3>2. Chunk(fed, 1) = SubSeq(fed, (1 - 1) * ChunkSize + 1, 1 * ChunkSize)
      BY <1>1, <2>1, <3>1, WholeChunk
    <3>3. (1 - 1) * ChunkSize + 1 = 1 /\ 1 * ChunkSize = l
      BY <2>1, <3>1
    <3> HIDE DEF l
    <3>4. QED  BY <1>7, <3>2, <3>3
  <2>4. last_chunk_hash = MD4(fed)
    BY <1>1, <2>2, <2>3
  <2>5. Ed2kDigest(fed) = MD4(fed)
    <3> HIDE DEF isWhole, w
    <3>1. QED  BY <1>6, <2>1, <2>2
  <2>6. out' = <<last_chunk_hash>>
    BY <1>9, <1>13
  <2>7. QED  BY <2>4, <2>5, <2>6
<1>14. CASE asWhole /\ hashed # ChunkSize
  <2>1. isWhole /\ ~ExtraNullVersion /\ l # ChunkSize /\ l >= ChunkSize
    BY <1>1, <1>14 DEF Short
  <2>2. w >= 2
    <3> HIDE DEF w, wc, l, isWhole
    <3>1. QED  BY <1>1, <1>10, <1>11, <2>1
  <2>3. Ed2kDigest(fed) = MD4(Chunks(fed, w))
    <3> HIDE DEF isWhole, w
    <3>1. QED  BY <1>2, <1>6, <2>1, <2>2
  <2>4. out' = <<MD4(root_hash)>>
    BY <1>9, <1>14
  <2>5. QED  BY <1>1, <2>3, <2>4
<1>15. CASE ~Short /\ ~asWhole
  <2>1. l >= ChunkSize /\ (ExtraNullVersion \/ ~isWhole)
    BY <1>1, <1>15 DEF Short
  <2>2. w >= 1
    <3> HIDE DEF w, wc, l, isWhole
    <3>1. QED  BY <1>1, <1>11, <2>1
  <2>3. Ed2kDigest(fed) = MD4(Chunks(fed, w + 1))
    <3> HIDE DEF isWhole, w
    <3>1. QED  BY <1>2, <1>6, <2>1, <2>2
  <2>4. out' = <<WithPartial>>
    BY <1>9, <1>15
  <2>5. QED  BY <1>8, <2>3, <2>4 DEF WithPartial
<1>16. QED  BY <1>12, <1>13, <1>14, <1>15
-----------------------------------------------------------------------------
(* The digest is that of the whole of what was fed, for any bytes, chunks  *)
(* and buffers no longer than a chunk, and for both versions: every step   *)
(* of the context is one of the abstract hash.                             *)
THEOREM Ed2kImplemented ==
  ASSUME Ed2kAssumption
  PROVE  Ed2kSpec => Hash!StreamSpec
<1>1. Ed2kInit => Ed2kInv
  BY Ed2kInitial
<1>2. Ed2kInv /\ [Ed2kNext]_edVars => Ed2kInv'
  <2> SUFFICES ASSUME Ed2kInv, [Ed2kNext]_edVars PROVE Ed2kInv'
    OBVIOUS
  <2>1. ASSUME NEW data \in Buffers, Ed2kUpdate(data) PROVE Ed2kInv'
    BY <2>1, UpdateKeeps
  <2>2. CASE Ed2kFinish \/ UNCHANGED edVars
    BY <2>2 DEF Ed2kFinish, edVars, context, Ed2kInv, Describes, Context, Whole, Chunks,
                Chunk, MD4
  <2>3. QED  BY <2>1, <2>2 DEF Ed2kNext
<1>3. Ed2kInit => Hash!StreamInit
  BY DEF Ed2kInit, Hash!StreamInit, EdNames
<1>4. Ed2kInv /\ [Ed2kNext]_edVars => [Hash!StreamNext]_<<"eD2k", fed, out>>
  <2> SUFFICES ASSUME Ed2kInv, [Ed2kNext]_edVars
               PROVE  [Hash!StreamNext]_<<"eD2k", fed, out>>
    OBVIOUS
  <2>1. ASSUME NEW data \in Buffers, Ed2kUpdate(data) PROVE Hash!Update
    <3>1. data \in Seq(Byte) /\ fed \in Seq(Byte) /\ fed' = fed \o data
      BY <2>1, UpdateKeeps DEF Ed2kInv, Ed2kUpdate
    <3>2. fed' \in Seq(Byte) /\ IsPrefix(fed, fed')
      <4>1. fed \o data \in Seq(Byte) /\ Len(fed \o data) = Len(fed) + Len(data)
        BY <3>1, ConcatProperties
      <4>2. SubSeq(fed \o data, 1, Len(fed)) = SubSeq(fed, 1, Len(fed))
        <5>1. CASE fed = <<>>
          BY <3>1, <5>1, SubSeqEmpty
        <5>2. CASE fed # <<>>
          <6>1. 1 \in 1..Len(fed) /\ Len(fed) \in 1..Len(fed)
            BY <3>1, <5>2
          <6>2. QED  BY <3>1, <6>1, SubSeqOfConcat1
        <5>3. QED  BY <5>1, <5>2
      <4>3. QED  BY <3>1, <4>1, <4>2 DEF IsPrefix
    <3>3. out = <<>> /\ out' = out
      BY <2>1 DEF Ed2kUpdate
    <3>4. QED  BY <3>2, <3>3 DEF Hash!Update, EdByte, IsPrefix, Hash!IsPrefix
  <2>2. ASSUME Ed2kFinish PROVE Hash!Finish
    <3>1. out' = <<Ed2kDigest(fed)>>
      BY <2>2, FinishIsDigest
    <3>2. QED  BY <2>2, <3>1 DEF Ed2kFinish, Hash!Finish, EdDigest
  <2>3. CASE UNCHANGED edVars
    BY <2>3 DEF edVars
  <2>4. QED  BY <2>1, <2>2, <2>3 DEF Ed2kNext, Hash!StreamNext
<1>5. QED  BY <1>1, <1>2, <1>3, <1>4, PTL DEF Ed2kSpec, Hash!StreamSpec
-----------------------------------------------------------------------------
(* The digits.                                                             *)
LEMMA Digits ==
  /\ \A ch \in 48..57 : Unhex(ch) = ch - 48
  /\ \A ch \in 97..102 : Unhex(ch) = ch - 97 + 10
  /\ \A ch \in 65..70 : Unhex(ch) = ch - 65 + 10
  BY DEF Unhex

LEMMA HexIs ==
  ASSUME NEW n \in 0..15, NEW u \in BOOLEAN
  PROVE  Hex(n, u) \in Nat /\ Hex(n, u) # Blank /\ Unhex(Hex(n, u)) = n
<1>1. CASE n < 10
  <2>1. Hex(n, u) = 48 + n
    BY <1>1 DEF Hex
  <2>2. QED  BY <1>1, <2>1, Digits DEF Blank
<1>2. CASE n >= 10 /\ u = TRUE
  <2>1. Hex(n, u) = 65 + (n - 10)
    BY <1>2 DEF Hex
  <2>2. QED  BY <1>2, <2>1, Digits DEF Blank
<1>3. CASE n >= 10 /\ u = FALSE
  <2>1. Hex(n, u) = 97 + (n - 10)
    BY <1>3 DEF Hex
  <2>2. QED  BY <1>3, <2>1, Digits DEF Blank
<1>4. n < 10 \/ n >= 10
  OBVIOUS
<1>5. QED  BY <1>1, <1>2, <1>3, <1>4

LEMMA UnhexIs ==
  \A ch \in Nat : /\ Unhex(ch) \in 0..15 \/ Unhex(ch) = 255
                  /\ Unhex(ch) # 255 => ch \in 48..57 \cup 65..70 \cup 97..102
  BY DEF Unhex

(* Where the inner loop stops: at a character or at the last one, with     *)
(* nothing but blanks before.                                              *)
LEMMA BoundIs ==
  ASSUME NEW str \in Seq(Nat), Len(str) < SizeMod, str # <<>>
  PROVE  Bound(str) = Len(str) - 1
<1>1. Len(str) \in Nat \ {0} /\ SizeMod \in Nat \ {0}
  BY CodecAssumption
<1>2. Len(str) - 1 \in Nat /\ Len(str) - 1 < SizeMod
  BY <1>1
<1>3. \A k, n \in Nat : k < n => k % n = k
  OBVIOUS
<1>4. (Len(str) - 1) % SizeMod = Len(str) - 1
  BY <1>1, <1>2, <1>3
<1>5. QED  BY <1>4 DEF Bound

LEMMA SkipIs ==
  ASSUME NEW str \in Seq(Nat), Len(str) < SizeMod, NEW i \in 0..(Len(str) - 1),
         NEW outside \in Seq(Nat)
  PROVE  LET j == SkipBlanks(str, i, outside)
         IN  /\ j \in i..(Len(str) - 1)
             /\ j = Len(str) - 1 \/ str[j + 1] # Blank
             /\ \A k \in i..(j - 1) : str[k + 1] = Blank
<1> DEFINE last == Len(str) - 1
           end == End(str, outside)
           stops == {j \in i..end : j >= Bound(str) \/ Char(str, j, outside) # Blank}
<1>1. /\ Len(str) \in Nat /\ str # <<>> /\ last \in Nat /\ i \in Nat /\ i <= last
      /\ end \in Nat /\ last <= end
  BY DEF End
<1>2. Bound(str) = last
  BY <1>1, BoundIs
<1>3. SkipBlanks(str, i, outside) = Min(stops)
  BY DEF SkipBlanks
<1>4. stops \subseteq Nat /\ last \in stops
  BY <1>1, <1>2
<1>10. \A k \in i..last : Char(str, k, outside) = str[k + 1]
  BY <1>1 DEF Char
<1> HIDE DEF end
<1> HIDE DEF last
<1>5. \E j \in stops : \A k \in stops : j <= k
  <2> HIDE DEF stops
  <2>1. QED  BY <1>4, LeastExists, Zenon
<1> DEFINE j == Min(stops)
<1>6. j \in stops /\ \A k \in stops : j <= k
  <2> HIDE DEF stops
  <2>1. QED  BY <1>5 DEF Min
<1> HIDE DEF j
<1>7. j \in i..last /\ (j = last \/ str[j + 1] # Blank)
  <2>1. j \in i..last
    BY <1>1, <1>4, <1>6
  <2>2. j >= last \/ Char(str, j, outside) # Blank
    BY <1>2, <1>6
  <2>3. QED  BY <1>1, <1>10, <2>1, <2>2
<1>8. ASSUME NEW k \in i..(j - 1) PROVE str[k + 1] = Blank
  <2>1. k \in i..last /\ k \in i..end /\ ~(j <= k)
    BY <1>1, <1>7
  <2>2. Char(str, k, outside) = Blank
    BY <1>6, <2>1
  <2>3. QED  BY <1>10, <2>1, <2>2
<1>9. QED  BY <1>3, <1>7, <1>8 DEF j, last

-----------------------------------------------------------------------------
(* What HashStringToBytes reads from each index on.                        *)
ParseStep(g, str, outside, i) ==
  IF i >= Bound(str) \/ i > End(str, outside) THEN <<>>
  ELSE LET j == SkipBlanks(str, i, outside)
           a == Unhex(Char(str, j, outside))
           b == Unhex(Char(str, j + 1, outside))
           rest == g[j + 2]
       IN  IF a = 255 \/ b = 255 \/ rest = Invalid THEN Invalid
           ELSE <<a * 16 + b>> \o rest
Parsing(str, outside) ==
  CHOOSE g : g = [i \in 0..(End(str, outside) + 2) |-> ParseStep(g, str, outside, i)]

LEMMA ParsingIs ==
  \A str, outside : HashStringToBytes(str, outside) =
    IF Parsing(str, outside)[0] = Invalid THEN <<>> ELSE Parsing(str, outside)[0]
  BY DEF HashStringToBytes, Parsing, ParseStep

(* Each step looks further on, but not beyond the zero behind all.         *)
LEMMA EndIs ==
  ASSUME NEW str \in Seq(Nat), NEW outside \in Seq(Nat)
  PROVE  /\ End(str, outside) \in Nat /\ End(str, outside) >= Len(str) /\ Len(str) \in Nat
         /\ Char(str, End(str, outside), outside) = 0
  BY DEF End, Char

LEMMA SkipsOn ==
  ASSUME NEW str \in Seq(Nat), NEW outside \in Seq(Nat), NEW i \in 0..End(str, outside)
  PROVE  SkipBlanks(str, i, outside) \in i..End(str, outside)
<1> DEFINE end == End(str, outside)
           stops == {j \in i..end : j >= Bound(str) \/ Char(str, j, outside) # Blank}
<1>1. end \in Nat /\ i \in Nat /\ i <= end /\ Char(str, end, outside) # Blank
  BY EndIs DEF Blank
<1>2. SkipBlanks(str, i, outside) = Min(stops)
  BY DEF SkipBlanks
<1> HIDE DEF end
<1>3. stops \subseteq Nat /\ end \in stops
  BY <1>1
<1>4. \E j \in stops : \A k \in stops : j <= k
  <2> HIDE DEF stops
  <2>1. QED  BY <1>3, LeastExists, Zenon
<1>5. Min(stops) \in stops
  <2> HIDE DEF stops
  <2>1. QED  BY <1>4 DEF Min
<1>6. stops \subseteq i..end
  OBVIOUS
<1> HIDE DEF stops
<1>7. QED  BY <1>2, <1>5, <1>6 DEF end

LEMMA ParseUnfolds ==
  ASSUME NEW str \in Seq(Nat), NEW outside \in Seq(Nat)
  PROVE  \A i \in 0..(End(str, outside) + 2) :
           Parsing(str, outside)[i] = ParseStep(Parsing(str, outside), str, outside, i)
<1> DEFINE E == End(str, outside)
           N == E + 2
           Right(m, g) == \A k \in 0..N : k + m >= N => g[k] = ParseStep(g, str, outside, k)
           Good == {m \in Nat : \E g : Right(m, g)}
<1>0. N \in Nat /\ E \in Nat /\ N = E + 2
  BY EndIs
<1>1. 0 \in Good
  <2> DEFINE g == [k \in 0..N |-> <<>>]
  <2>1. ASSUME NEW k \in 0..N, k + 0 >= N PROVE g[k] = ParseStep(g, str, outside, k)
    <3>1. k > E
      BY <1>0, <2>1
    <3>2. QED  BY <3>1 DEF ParseStep
  <2>2. Right(0, g)
    BY <2>1
  <2> HIDE DEF g, Right
  <2>3. QED  BY <2>2
<1>2. ASSUME NEW m \in Nat, m \in Good PROVE m + 1 \in Good
  <2>1. PICK g : Right(m, g)
    BY <1>2
  <2> DEFINE h == [k \in 0..N |-> ParseStep(g, str, outside, k)]
  <2>2. ASSUME NEW k \in 0..N, k + (m + 1) >= N PROVE h[k] = ParseStep(h, str, outside, k)
    <3>1. CASE k > E
      BY <3>1 DEF ParseStep
    <3>2. CASE k <= E
      <4> DEFINE j == SkipBlanks(str, k, outside)
      <4>1. j \in k..E
        <5>1. k \in 0..E
          BY <1>0, <3>2
        <5>2. QED  BY <5>1, SkipsOn
      <4> HIDE DEF j
      <4>2. j + 2 \in 0..N /\ (j + 2) + m >= N
        BY <1>0, <2>2, <4>1
      <4>3. h[j + 2] = g[j + 2]
        BY <2>1, <4>2
      <4>4. QED  BY <4>3 DEF ParseStep, j
    <3>3. QED  BY <1>0, <3>1, <3>2
  <2>3. Right(m + 1, h)
    BY <2>2
  <2> HIDE DEF h, Right
  <2>4. QED  BY <2>3
<1>3. Nat \subseteq Good
  <2> HIDE DEF Good
  <2>1. QED  BY <1>1, <1>2, NumberInduction
<1>4. PICK g : Right(N, g)
  BY <1>0, <1>3
<1> HIDE DEF N
<1>5. \A k \in 0..N : g[k] = ParseStep(g, str, outside, k)
  BY <1>0, <1>4
<1> DEFINE h == [k \in 0..N |-> g[k]]
<1>6. ASSUME NEW k \in 0..N PROVE h[k] = ParseStep(h, str, outside, k)
  <2>1. CASE k > E
    BY <1>5, <2>1 DEF ParseStep
  <2>2. CASE k <= E
    <3> DEFINE j == SkipBlanks(str, k, outside)
    <3>1. j \in k..E
      <4>1. k \in 0..E
        BY <1>0, <2>2
      <4>2. QED  BY <4>1, SkipsOn
    <3> HIDE DEF j
    <3>2. j + 2 \in 0..N
      BY <1>0, <3>1
    <3>3. h[j + 2] = g[j + 2]
      BY <3>2
    <3>4. QED  BY <1>5, <3>3 DEF ParseStep, j
  <2>3. QED  BY <1>0, <2>1, <2>2
<1>7. h = [k \in 0..N |-> ParseStep(h, str, outside, k)]
  <2> DEFINE f == [k \in 0..N |-> ParseStep(h, str, outside, k)]
  <2>1. \A k \in 0..N : h[k] = f[k]
    BY <1>6
  <2>2. QED  BY <2>1
<1> HIDE DEF h
<1> DEFINE t == Parsing(str, outside)
<1>8. t = [k \in 0..N |-> ParseStep(t, str, outside, k)]
  BY <1>7 DEF Parsing, N
<1> HIDE DEF t
<1>9. \A k \in 0..N : t[k] = ParseStep(t, str, outside, k)
  BY <1>8
<1>10. QED  BY <1>9 DEF t, N

-----------------------------------------------------------------------------
(* A text of the digits of a hash, each byte at the end of a stretch of    *)
(* two or, with a blank before, three characters.                          *)
Spells(str, hash, w, u) ==
  /\ hash \in Seq(0..255) /\ w \in {2, 3} /\ u \in BOOLEAN
  /\ str \in Seq(Nat) /\ Len(str) < SizeMod /\ Len(str) = w * Len(hash)
  /\ \A k \in 1..Len(hash) : /\ str[w * k - 1] = Hex(hash[k] \div 16, u)
                             /\ str[w * k] = Hex(hash[k] % 16, u)
                             /\ w = 3 => str[w * k - 2] = Blank

LEMMA Nibbles ==
  ASSUME NEW b \in 0..255
  PROVE  b \div 16 \in 0..15 /\ b % 16 \in 0..15 /\ (b \div 16) * 16 + (b % 16) = b
OBVIOUS

LEMMA Stretch ==
  ASSUME NEW w \in {2, 3}, NEW n \in Nat, NEW k \in 1..n
  PROVE  /\ w * (k - 1) \in Nat /\ w * (k - 1) + w = w * k /\ w * k \in Nat
         /\ w * k <= w * n /\ w * n \in Nat /\ w * (k - 1) + 2 <= w * n
<1>1. CASE w = 2
  BY <1>1
<1>2. CASE w = 3
  BY <1>2
<1>3. QED  BY <1>1, <1>2

(* One turn of the loop reads one byte.                                    *)
ReadsEachByte(str, hash, w, outside) ==
  \A k \in 1..Len(hash) : \A g :
    g[w * k] # Invalid =>
      ParseStep(g, str, outside, w * (k - 1)) = <<hash[k]>> \o g[w * k]

LEMMA ReadsByte ==
  ASSUME NEW hash, NEW str, NEW w, NEW u, NEW outside \in Seq(Nat), Spells(str, hash, w, u)
  PROVE  ReadsEachByte(str, hash, w, outside)
<1> USE DEF ReadsEachByte
<1> TAKE k \in 1..Len(hash)
<1> TAKE g
<1> HAVE g[w * k] # Invalid
<1> DEFINE n == Len(hash)
           i == w * (k - 1)
           last == Len(str) - 1
           j == SkipBlanks(str, i, outside)
           a == Unhex(Char(str, j, outside))
           b == Unhex(Char(str, j + 1, outside))
           rest == g[j + 2]
<1>1. n \in Nat /\ k \in Nat /\ k >= 1 /\ k <= n /\ str \in Seq(Nat) /\ Len(str) = w * n
      /\ Len(str) \in Nat /\ hash \in Seq(0..255) /\ w \in {2, 3} /\ u \in BOOLEAN
      /\ Len(str) < SizeMod
  BY DEF Spells
<1>2. /\ i \in Nat /\ i + w = w * k /\ w * k <= Len(str) /\ w * k \in Nat
      /\ i + 2 <= Len(str)
  <2> HIDE DEF n
  <2>1. k \in 1..n
    BY <1>1
  <2>2. QED  BY <1>1, <2>1, Stretch
<1>3. str # <<>>
  BY <1>1, <1>2
<1>4. Bound(str) = last
  BY <1>1, <1>3, BoundIs
<1>5. hash[k] \in 0..255
  BY <1>1, ElementOfSeq
<1> DEFINE hi == hash[k] \div 16
           lo == hash[k] % 16
<1>6. hi \in 0..15 /\ lo \in 0..15 /\ hi * 16 + lo = hash[k]
  BY <1>5, Nibbles
<1>7. /\ Hex(hi, u) # Blank /\ Unhex(Hex(hi, u)) = hi
      /\ Unhex(Hex(lo, u)) = lo
  BY <1>1, <1>6, HexIs
<1>8. /\ str[w * k - 1] = Hex(hi, u) /\ str[w * k] = Hex(lo, u)
      /\ w = 3 => str[w * k - 2] = Blank
  BY DEF Spells
<1> HIDE DEF hi, lo, n, i
<1>9. /\ i \in 0..(Len(str) - 1) /\ j \in i..(Len(str) - 1)
      /\ j = Len(str) - 1 \/ str[j + 1] # Blank
      /\ \A m \in i..(j - 1) : str[m + 1] = Blank
  <2>1. i \in 0..(Len(str) - 1)
    BY <1>1, <1>2
  <2>2. QED  BY <1>1, <2>1, SkipIs
<1> HIDE DEF j
<1>10. j = w * k - 2
  <2>1. CASE w = 2
    <3>1. i + 1 = w * k - 1 /\ i = w * k - 2
      BY <1>1, <1>2, <2>1
    <3>2. str[i + 1] # Blank
      BY <1>7, <1>8, <3>1
    <3>3. ~(i \in i..(j - 1))
      BY <1>9, <3>2
    <3>4. QED  BY <1>1, <1>2, <1>9, <3>1, <3>3
  <2>2. CASE w = 3
    <3>1. i + 1 = w * k - 2 /\ (i + 1) + 1 = w * k - 1
      BY <1>1, <1>2, <2>2
    <3>2. str[i + 1] = Blank /\ str[(i + 1) + 1] # Blank
      BY <1>7, <1>8, <2>2, <3>1
    <3>3. ~(i + 1 \in i..(j - 1))
      BY <1>9, <3>2
    <3>4. i \in Int /\ str[i + 1] = Blank /\ i # Len(str) - 1
      BY <1>1, <1>2, <2>2, <3>2
    <3>5. j # i
      BY <1>9, <3>4
    <3>6. j \in Int /\ i \in Int /\ j >= i /\ ~(i + 1 <= j - 1)
      BY <1>2, <1>9, <3>3
    <3>7. j = i + 1
      BY <3>5, <3>6
    <3>8. QED  BY <1>1, <3>1, <3>7
  <2>3. QED  BY <1>1, <2>1, <2>2
<1>11. a = hi /\ b = lo /\ rest = g[w * k]
  <2>1. /\ j < Len(str) /\ j + 1 < Len(str)
        /\ j + 1 = w * k - 1 /\ (j + 1) + 1 = w * k /\ j + 2 = w * k
    BY <1>1, <1>2, <1>10
  <2>2. Char(str, j, outside) = str[j + 1] /\ Char(str, j + 1, outside) = str[(j + 1) + 1]
    BY <2>1 DEF Char
  <2>3. QED  BY <1>7, <1>8, <2>1, <2>2
<1>12. ~(i >= Bound(str) \/ i > End(str, outside))
  BY <1>1, <1>2, <1>4, EndIs
<1>13. a # 255 /\ b # 255 /\ rest # Invalid
  BY <1>6, <1>11
<1>14. ParseStep(g, str, outside, i) = <<a * 16 + b>> \o rest
  BY <1>12, <1>13 DEF ParseStep, j
<1> HIDE DEF a, b, rest
<1>15. QED  BY <1>6, <1>11, <1>14 DEF i

LEMMA ReadsHash ==
  ASSUME NEW hash, hash # <<>>, NEW str, NEW w, NEW u, NEW outside \in Seq(Nat),
         Spells(str, hash, w, u)
  PROVE  HashStringToBytes(str, outside) = hash
<1> DEFINE n == Len(hash)
           P == Parsing(str, outside)
           Rest(m) == SubSeq(hash, n - m + 1, n)
           Good == {m \in Nat : m <= n => P[w * (n - m)] = Rest(m)}
<1>1. /\ n \in Nat \ {0} /\ str \in Seq(Nat) /\ Len(str) = w * n /\ Len(str) \in Nat
      /\ hash \in Seq(0..255) /\ w \in {2, 3} /\ Len(str) < SizeMod
  BY DEF Spells
<1>2. \A i \in 0..Len(str) : P[i] = ParseStep(P, str, outside, i)
  <2>1. \A i \in 0..(End(str, outside) + 2) : P[i] = ParseStep(P, str, outside, i)
    BY <1>1, ParseUnfolds
  <2> HIDE DEF P
  <2>2. \A i \in 0..Len(str) : i \in 0..(End(str, outside) + 2)
    BY <1>1, EndIs
  <2>3. QED  BY <2>1, <2>2
<1>3. ASSUME NEW m \in 0..n PROVE Rest(m) \in Seq(0..255) /\ Rest(m) # Invalid
  <2>1. n - m + 1 \in Int /\ n \in Int /\ \A i \in (n - m + 1)..n : hash[i] \in 0..255
    <3>1. ASSUME NEW i \in (n - m + 1)..n PROVE hash[i] \in 0..255
      <4>1. i \in 1..Len(hash)
        BY <1>1
      <4>2. QED  BY <1>1, <4>1, ElementOfSeq
    <3>2. QED  BY <1>1, <3>1
  <2>2. Rest(m) \in Seq(0..255)
    <3> HIDE DEF n
    <3>1. QED  BY <2>1, SubSeqProperties
  <2>3. Invalid \notin Seq(0..255)
    BY DEF Invalid
  <2>4. QED  BY <2>2, <2>3
<1> HIDE DEF P
<1>4. 0 \in Good
  <2>1. w * (n - 0) = Len(str) /\ Len(str) \in 0..Len(str)
    BY <1>1
  <2>2. Bound(str) = Len(str) - 1
    <3>1. Len(str) # 0
      BY <1>1
    <3>2. str # <<>>
      BY <3>1
    <3>3. QED  BY <1>1, <3>2, BoundIs
  <2>3. P[Len(str)] = <<>>
    <3>1. P[Len(str)] = ParseStep(P, str, outside, Len(str))
      BY <1>2, <2>1
    <3>2. Len(str) >= Bound(str)
      BY <1>1, <2>2
    <3>3. QED  BY <3>1, <3>2 DEF ParseStep
  <2>4. Rest(0) = <<>>
    BY <1>1, SubSeqEmpty
  <2>5. QED  BY <2>1, <2>3, <2>4
<1>5. ASSUME NEW m \in Nat, m \in Good PROVE m + 1 \in Good
  <2> SUFFICES ASSUME m + 1 <= n PROVE P[w * (n - (m + 1))] = Rest(m + 1)
    OBVIOUS
  <2> DEFINE k == n - m
  <2>1. k \in 1..n /\ n - (m + 1) = k - 1 /\ m \in 0..n
    BY <1>1
  <2>2. P[w * k] = Rest(m)
    BY <1>5
  <2>3. P[w * k] # Invalid
    BY <1>3, <2>1, <2>2
  <2> HIDE DEF k
  <2>4. ParseStep(P, str, outside, w * (k - 1)) = <<hash[k]>> \o P[w * k]
    <3>1. k \in 1..Len(hash)
      BY <2>1
    <3>2. ReadsEachByte(str, hash, w, outside)
      BY ReadsByte, Zenon
    <3> HIDE DEF n, Rest, Good
    <3>3. QED  BY <2>3, <3>1, <3>2, Zenon DEF ReadsEachByte
  <2>5. w * (k - 1) \in 0..Len(str)
    <3>1. w * (k - 1) \in Nat /\ w * (k - 1) + 2 <= w * n
      <4> HIDE DEF n
      <4>1. QED  BY <1>1, <2>1, Stretch
    <3>2. QED  BY <1>1, <3>1
  <2>6. P[w * (k - 1)] = <<hash[k]>> \o Rest(m)
    BY <1>2, <2>2, <2>4, <2>5
  <2>7. <<hash[k]>> \o SubSeq(hash, k + 1, n) = SubSeq(hash, k, n)
    <3>1. n \in k..Len(hash)
      BY <2>1
    <3>2. QED  BY <2>1, <3>1, SubSeqRecursiveFirst
  <2>8. n - m + 1 = k + 1 /\ n - (m + 1) + 1 = k
    BY <1>1 DEF k
  <2>9. QED  BY <2>1, <2>6, <2>7, <2>8
<1>6. n \in Good
  <2>1. Nat \subseteq Good
    <3> HIDE DEF Good
    <3>1. QED  BY <1>4, <1>5, NumberInduction
  <2>2. QED  BY <1>1, <2>1
<1>7. P[0] = hash
  <2>1. w * (n - n) = 0 /\ n - n + 1 = 1 /\ n <= n
    BY <1>1
  <2>2. Rest(n) = hash
    BY <1>1, <2>1, SubSeqFull
  <2>3. QED  BY <1>6, <2>1, <2>2
<1>8. hash # Invalid
  <2>1. n \in 0..n /\ n - n + 1 = 1
    BY <1>1
  <2>2. QED  BY <1>1, <1>3, <2>1, SubSeqFull
<1>9. QED  BY <1>7, <1>8, ParsingIs DEF P

-----------------------------------------------------------------------------
(* The text of a hash spells it, and so it does with blanks between.       *)
LEMMA TextSpells ==
  ASSUME NEW hash \in Seq(0..255), NEW u \in BOOLEAN, 3 * Len(hash) < SizeMod
  PROVE  Spells(HashBytesToString(hash, u), hash, 2, u)
<1> DEFINE n == Len(hash)
           Digit(k) == LET byte == hash[(k + 1) \div 2]
                       IN  Hex(IF k % 2 = 1 THEN byte \div 16 ELSE byte % 16, u)
           str == [k \in 1..(2 * n) |-> Digit(k)]
<1>1. n \in Nat /\ 2 * n \in Nat /\ 2 * n < SizeMod
  BY CodecAssumption
<1>2. ASSUME NEW k \in 1..n
      PROVE  /\ 2 * k - 1 \in 1..(2 * n) /\ 2 * k \in 1..(2 * n)
             /\ ((2 * k - 1) + 1) \div 2 = k /\ (2 * k + 1) \div 2 = k
             /\ (2 * k - 1) % 2 = 1 /\ (2 * k) % 2 = 0
  BY <1>1
<1>3. ASSUME NEW k \in 1..n PROVE hash[k] \div 16 \in 0..15 /\ hash[k] % 16 \in 0..15
  <2>1. hash[k] \in 0..255
    BY ElementOfSeq
  <2>2. QED  BY <2>1, Nibbles
<1>4. ASSUME NEW k \in 1..(2 * n) PROVE Digit(k) \in Nat
  <2>1. (k + 1) \div 2 \in 1..n
    BY <1>1
  <2> DEFINE i == (k + 1) \div 2
  <2>2. hash[i] \div 16 \in 0..15 /\ hash[i] % 16 \in 0..15
    <3>1. i \in 1..n
      BY <2>1
    <3> HIDE DEF i, n
    <3>2. QED  BY <1>3, <3>1
  <2> HIDE DEF i
  <2>3. Hex(hash[i] \div 16, u) \in Nat /\ Hex(hash[i] % 16, u) \in Nat
    BY <2>2, HexIs
  <2>4. QED  BY <2>3 DEF i
<1>5. ASSUME NEW k \in 1..n
      PROVE  str[2 * k - 1] = Hex(hash[k] \div 16, u) /\ str[2 * k] = Hex(hash[k] % 16, u)
  <2>1. str[2 * k - 1] = Digit(2 * k - 1) /\ str[2 * k] = Digit(2 * k)
    <3> HIDE DEF Digit
    <3>1. QED  BY <1>2
  <2>2. QED  BY <1>2, <2>1
<1>6. str \in Seq(Nat) /\ Len(str) = 2 * n
  <2> HIDE DEF Digit
  <2>1. QED  BY <1>1, <1>4
<1>7. str = HashBytesToString(hash, u)
  BY DEF HashBytesToString
<1> HIDE DEF str, n
<1>8. Spells(str, hash, 2, u)
  BY <1>1, <1>5, <1>6 DEF Spells, n
<1>9. QED  BY <1>7, <1>8

Spaced(text, n) ==
  [k \in 1..(3 * n) |-> IF k % 3 = 1 THEN Blank ELSE text[k - (k + 2) \div 3]]

LEMMA SpacedSpells ==
  ASSUME NEW hash \in Seq(0..255), NEW u \in BOOLEAN, 3 * Len(hash) < SizeMod
  PROVE  Spells(Spaced(HashBytesToString(hash, u), Len(hash)), hash, 3, u)
<1> DEFINE n == Len(hash)
           text == HashBytesToString(hash, u)
           str == Spaced(text, n)
<1>1. n \in Nat /\ 3 * n \in Nat /\ 3 * n < SizeMod
  BY CodecAssumption
<1>2. /\ text \in Seq(Nat) /\ Len(text) = 2 * n
      /\ \A k \in 1..n : text[2 * k - 1] = Hex(hash[k] \div 16, u)
                         /\ text[2 * k] = Hex(hash[k] % 16, u)
  BY TextSpells DEF Spells
<1> HIDE DEF text, n
<1>3. ASSUME NEW k \in 1..n
      PROVE  /\ 3 * k - 2 \in 1..(3 * n) /\ 3 * k - 1 \in 1..(3 * n) /\ 3 * k \in 1..(3 * n)
             /\ (3 * k - 2) % 3 = 1 /\ (3 * k - 1) % 3 # 1 /\ (3 * k) % 3 # 1
             /\ (3 * k - 1) - ((3 * k - 1) + 2) \div 3 = 2 * k - 1
             /\ 3 * k - (3 * k + 2) \div 3 = 2 * k
  BY <1>1
<1>4. ASSUME NEW k \in 1..n
      PROVE  /\ str[3 * k - 2] = Blank /\ str[3 * k - 1] = text[2 * k - 1]
             /\ str[3 * k] = text[2 * k]
  BY <1>3 DEF Spaced
<1>5. ASSUME NEW k \in 1..(3 * n), k % 3 # 1 PROVE k - (k + 2) \div 3 \in 1..(2 * n)
  BY <1>1, <1>5
<1>6. str \in Seq(Nat) /\ Len(str) = 3 * n
  <2> DEFINE At(k) == IF k % 3 = 1 THEN Blank ELSE text[k - (k + 2) \div 3]
  <2>1. ASSUME NEW k \in 1..(3 * n) PROVE At(k) \in Nat
    <3>1. CASE k % 3 = 1
      BY <3>1 DEF Blank
    <3>2. CASE k % 3 # 1
      <4> DEFINE i == k - (k + 2) \div 3
      <4>1. i \in 1..Len(text)
        BY <1>2, <1>5, <3>2
      <4> HIDE DEF i
      <4>2. text[i] \in Nat
        BY <1>2, <4>1, ElementOfSeq
      <4>3. QED  BY <3>2, <4>2 DEF i
    <3>3. QED  BY <3>1, <3>2
  <2>2. str = [k \in 1..(3 * n) |-> At(k)]
    BY DEF Spaced
  <2> HIDE DEF At, str
  <2>3. QED  BY <1>1, <2>1, <2>2
<1> HIDE DEF str
<1>7. \A k \in 1..n : /\ str[3 * k - 1] = Hex(hash[k] \div 16, u)
                      /\ str[3 * k] = Hex(hash[k] % 16, u)
                      /\ str[3 * k - 2] = Blank
  BY <1>2, <1>4, Zenon
<1>8. Spells(str, hash, 3, u)
  BY <1>1, <1>6, <1>7 DEF Spells, n
<1>9. QED  BY <1>8 DEF str, text, n

(* HexReadBack, of a hash.                                                 *)
LEMMA HexReadsBack ==
  ASSUME NEW hash \in Seq(0..255), hash # <<>>, 3 * Len(hash) < SizeMod,
         NEW u \in BOOLEAN, NEW o \in Seq(Nat)
  PROVE  /\ HashStringToBytes(HashBytesToString(hash, u), o) = hash
         /\ HashStringToBytes(Spaced(HashBytesToString(hash, u), Len(hash)), o) = hash
<1>1. Spells(HashBytesToString(hash, u), hash, 2, u)
  BY TextSpells
<1>2. Spells(Spaced(HashBytesToString(hash, u), Len(hash)), hash, 3, u)
  BY SpacedSpells
<1>3. QED  BY <1>1, <1>2, ReadsHash, Zenon

-----------------------------------------------------------------------------
(* Base64: a digit is read as what it stands for, and no digit is the pad. *)
LEMMA Base64Digits ==
  ASSUME NEW n \in 0..63
  PROVE  /\ EncodeTable[n] \in Nat /\ EncodeTable[n] # Pad
         /\ DecodeTable(EncodeTable[n]) = n
<1>1. CASE n < 26
  <2>1. EncodeTable[n] = 65 + n
    BY <1>1 DEF EncodeTable
  <2>2. QED  BY <1>1, <2>1 DEF DecodeTable, Pad
<1>2. CASE n \in 26..51
  <2>1. EncodeTable[n] = 71 + n
    BY <1>2 DEF EncodeTable
  <2>2. QED  BY <1>2, <2>1 DEF DecodeTable, Pad
<1>3. CASE n \in 52..61
  <2>1. EncodeTable[n] = n - 4
    BY <1>3 DEF EncodeTable
  <2>2. QED  BY <1>3, <2>1 DEF DecodeTable, Pad
<1>4. CASE n = 62
  <2>1. EncodeTable[n] = 43
    BY <1>4 DEF EncodeTable
  <2>2. QED  BY <1>4, <2>1 DEF DecodeTable, Pad
<1>5. CASE n = 63
  <2>1. EncodeTable[n] = 47
    BY <1>5 DEF EncodeTable
  <2>2. QED  BY <1>5, <2>1 DEF DecodeTable, Pad
<1>6. QED  BY <1>1, <1>2, <1>3, <1>4, <1>5

LEMMA PadIsZero == DecodeTable(Pad) = 0
  BY DEF DecodeTable, Pad

(* Three bytes in four sextets, and back.                                  *)
First(b0) == b0 \div 4
Second(b0, b1) == (b0 % 4) * 16 + b1 \div 16
Third(b1, b2) == (b1 % 16) * 4 + b2 \div 64
Fourth(b2) == b2 % 64

AreSextets(b0, b1, b2) ==
  /\ First(b0) \in 0..63 /\ Second(b0, b1) \in 0..63
  /\ Third(b1, b2) \in 0..63 /\ Fourth(b2) \in 0..63
AreBytes(b0, b1, b2) ==
  /\ First(b0) * 4 + Second(b0, b1) \div 16 = b0
  /\ (Second(b0, b1) % 16) * 16 + Third(b1, b2) \div 4 = b1
  /\ (Third(b1, b2) % 4) * 64 + Fourth(b2) = b2

LEMMA Sextets ==
  ASSUME NEW b0 \in 0..255, NEW b1 \in 0..255, NEW b2 \in 0..255
  PROVE  AreSextets(b0, b1, b2) /\ AreBytes(b0, b1, b2)
<1>1. First(b0) \in 0..63 /\ Fourth(b2) \in 0..63
  BY DEF First, Fourth
<1>2. /\ b0 % 4 \in 0..3 /\ b1 \div 16 \in 0..15 /\ b1 % 16 \in 0..15 /\ b2 \div 64 \in 0..3
      /\ (b0 \div 4) * 4 + (b0 % 4) = b0 /\ (b1 \div 16) * 16 + (b1 % 16) = b1
      /\ (b2 \div 64) * 64 + (b2 % 64) = b2
  OBVIOUS
<1>3. /\ \A h \in 0..3, l \in 0..15 : /\ h * 16 + l \in 0..63 /\ (h * 16 + l) \div 16 = h
                                      /\ (h * 16 + l) % 16 = l
      /\ \A h \in 0..15, l \in 0..3 : /\ h * 4 + l \in 0..63 /\ (h * 4 + l) \div 4 = h
                                      /\ (h * 4 + l) % 4 = l
  OBVIOUS
<1>4. Second(b0, b1) \in 0..63 /\ Second(b0, b1) \div 16 = b0 % 4
      /\ Second(b0, b1) % 16 = b1 \div 16
  BY <1>2, <1>3 DEF Second
<1>5. Third(b1, b2) \in 0..63 /\ Third(b1, b2) \div 4 = b1 % 16
      /\ Third(b1, b2) % 4 = b2 \div 64
  BY <1>2, <1>3 DEF Third
<1>6. QED  BY <1>1, <1>2, <1>4, <1>5 DEF First, Fourth, AreSextets, AreBytes

(* Where the characters of a group are, and what they stand for.           *)
ByteAt(src, i) == IF i <= Len(src) THEN src[i] ELSE 0
Groups(src) == (Len(src) + 2) \div 3

LEMMA ByteAtIs ==
  ASSUME NEW src \in Seq(0..255), NEW i \in Nat \ {0}
  PROVE  ByteAt(src, i) \in 0..255
<1>1. CASE i <= Len(src)
  <2>1. i \in 1..Len(src)
    BY <1>1
  <2>2. QED  BY <1>1, <2>1, ElementOfSeq DEF ByteAt
<1>2. CASE ~(i <= Len(src))
  BY <1>2 DEF ByteAt
<1>3. QED  BY <1>1, <1>2

LEMMA GroupIs ==
  ASSUME NEW src \in Seq(0..255), NEW g \in Nat \ {0}
  PROVE  LET b0 == ByteAt(src, 3 * g - 2)
             b1 == ByteAt(src, 3 * g - 1)
             b2 == ByteAt(src, 3 * g)
             c == Group(src, g)
         IN  /\ \A p \in 1..4 : c[p] \in Nat
             /\ DecodeTable(c[1]) = First(b0) /\ DecodeTable(c[2]) = Second(b0, b1)
             /\ DecodeTable(c[3]) = Third(b1, b2) /\ DecodeTable(c[4]) = Fourth(b2)
             /\ c[1] # Pad /\ c[2] # Pad
             /\ c[3] # Pad <=> 3 * g - 1 <= Len(src)
             /\ c[4] # Pad <=> 3 * g <= Len(src)
<1> DEFINE b0 == ByteAt(src, 3 * g - 2)
           b1 == ByteAt(src, 3 * g - 1)
           b2 == ByteAt(src, 3 * g)
<1>1. 3 * g - 2 \in Nat \ {0} /\ 3 * g - 1 \in Nat \ {0} /\ 3 * g \in Nat \ {0}
      /\ Len(src) \in Nat
  OBVIOUS
<1>2. b0 \in 0..255 /\ b1 \in 0..255 /\ b2 \in 0..255
  BY <1>1, ByteAtIs
<1>3. Group(src, g) =
        <<EncodeTable[First(b0)], EncodeTable[Second(b0, b1)],
          IF 3 * g - 1 <= Len(src) THEN EncodeTable[Third(b1, b2)] ELSE Pad,
          IF 3 * g <= Len(src) THEN EncodeTable[Fourth(b2)] ELSE Pad>>
  BY DEF Group, First, Second, Third, Fourth, ByteAt
<1>4. /\ ~(3 * g - 1 <= Len(src)) => b1 = 0
      /\ ~(3 * g <= Len(src)) => b2 = 0
      /\ 3 * g <= Len(src) => 3 * g - 1 <= Len(src)
  BY <1>1 DEF ByteAt
<1>5. /\ ~(3 * g - 1 <= Len(src)) => Third(b1, b2) = 0
      /\ ~(3 * g <= Len(src)) => Fourth(b2) = 0
  <2>1. Third(0, 0) = 0 /\ Fourth(0) = 0
    BY DEF Third, Fourth
  <2>2. QED  BY <1>4, <2>1
<1> HIDE DEF b0, b1, b2
<1>6. /\ First(b0) \in 0..63 /\ Second(b0, b1) \in 0..63
      /\ Third(b1, b2) \in 0..63 /\ Fourth(b2) \in 0..63
  <2>1. AreSextets(b0, b1, b2)
    BY <1>2, Sextets, Zenon
  <2>2. QED  BY <2>1 DEF AreSextets
<1>7. \A n \in 0..63 : /\ EncodeTable[n] \in Nat /\ EncodeTable[n] # Pad
                       /\ DecodeTable(EncodeTable[n]) = n
  BY Base64Digits
<1>8. Pad \in Nat
  BY DEF Pad
<1> DEFINE c == Group(src, g)
<1>9. /\ c[1] = EncodeTable[First(b0)] /\ c[2] = EncodeTable[Second(b0, b1)]
      /\ c[3] = IF 3 * g - 1 <= Len(src) THEN EncodeTable[Third(b1, b2)] ELSE Pad
      /\ c[4] = IF 3 * g <= Len(src) THEN EncodeTable[Fourth(b2)] ELSE Pad
  BY <1>3
<1> HIDE DEF c
<1>10. /\ c[1] \in Nat /\ c[1] # Pad /\ DecodeTable(c[1]) = First(b0)
       /\ c[2] \in Nat /\ c[2] # Pad /\ DecodeTable(c[2]) = Second(b0, b1)
  BY <1>6, <1>7, <1>9
<1>11. /\ c[3] \in Nat /\ DecodeTable(c[3]) = Third(b1, b2)
       /\ c[3] # Pad <=> 3 * g - 1 <= Len(src)
  <2>1. CASE 3 * g - 1 <= Len(src)
    BY <1>6, <1>7, <1>9, <2>1
  <2>2. CASE ~(3 * g - 1 <= Len(src))
    BY <1>5, <1>8, <1>9, <2>2, PadIsZero
  <2>3. QED  BY <2>1, <2>2
<1>12. /\ c[4] \in Nat /\ DecodeTable(c[4]) = Fourth(b2)
       /\ c[4] # Pad <=> 3 * g <= Len(src)
  <2>1. CASE 3 * g <= Len(src)
    BY <1>6, <1>7, <1>9, <2>1
  <2>2. CASE ~(3 * g <= Len(src))
    BY <1>5, <1>8, <1>9, <2>2, PadIsZero
  <2>3. QED  BY <2>1, <2>2
<1>13. \A p \in 1..4 : p = 1 \/ p = 2 \/ p = 3 \/ p = 4
  OBVIOUS
<1>14. \A p \in 1..4 : c[p] \in Nat
  BY <1>10, <1>11, <1>12, <1>13
<1>15. QED  BY <1>10, <1>11, <1>12, <1>14 DEF c, b0, b1, b2

(* The encoded text, and any beginning of it that lacks pads only.         *)
LEMMA EncodeIs ==
  ASSUME NEW src \in Seq(0..255)
  PROVE  /\ Encode(src) \in Seq(Nat) /\ Len(Encode(src)) = 4 * Groups(src)
         /\ \A g \in 1..Groups(src) : \A p \in 1..4 :
              Encode(src)[4 * (g - 1) + p] = Group(src, g)[p]
<1> DEFINE G == Groups(src)
           At(k) == Group(src, (k + 3) \div 4)[((k + 3) % 4) + 1]
           str == [k \in 1..(4 * G) |-> At(k)]
<1>1. G \in Nat /\ 4 * G \in Nat
  BY DEF Groups
<1>2. str = Encode(src)
  BY DEF Encode, Groups
<1> HIDE DEF G
<1>3. ASSUME NEW k \in 1..(4 * G) PROVE At(k) \in Nat
  <2> DEFINE g == (k + 3) \div 4
             p == ((k + 3) % 4) + 1
  <2>1. g \in Nat \ {0} /\ p \in 1..4
    BY <1>1
  <2> HIDE DEF g, p
  <2>2. Group(src, g)[p] \in Nat
    BY <2>1, GroupIs
  <2>3. QED  BY <2>2 DEF g, p
<1>4. ASSUME NEW g \in 1..G, NEW p \in 1..4 PROVE str[4 * (g - 1) + p] = Group(src, g)[p]
  <2>1. /\ 4 * (g - 1) + p \in 1..(4 * G) /\ ((4 * (g - 1) + p) + 3) \div 4 = g
        /\ (((4 * (g - 1) + p) + 3) % 4) + 1 = p
    BY <1>1
  <2> DEFINE k == 4 * (g - 1) + p
  <2>2. k \in 1..(4 * G) /\ At(k) = Group(src, g)[p]
    BY <2>1
  <2> HIDE DEF k, At
  <2>3. str[k] = Group(src, g)[p]
    BY <2>2
  <2>4. QED  BY <2>3 DEF k
<1>5. str \in Seq(Nat) /\ Len(str) = 4 * G
  <2> HIDE DEF At
  <2>1. QED  BY <1>1, <1>3
<1> HIDE DEF str
<1>6. \A g \in 1..G : \A p \in 1..4 : str[4 * (g - 1) + p] = Group(src, g)[p]
  BY <1>4
<1>7. QED  BY <1>2, <1>5, <1>6 DEF G

(* The characters that are no pads.                                        *)
Unpadded(src) == 4 * (Len(src) \div 3) + (IF Len(src) % 3 = 0 THEN 0 ELSE (Len(src) % 3) + 1)

LEMMA PadsAtEnd ==
  ASSUME NEW src \in Seq(0..255)
  PROVE  /\ Unpadded(src) \in Nat /\ Unpadded(src) <= Len(Encode(src))
         /\ \A k \in 1..Len(Encode(src)) : Encode(src)[k] # Pad <=> k <= Unpadded(src)
<1> DEFINE n == Len(src)
           U == Unpadded(src)
           e == Encode(src)
<1>1. n \in Nat
  OBVIOUS
<1>2. /\ e \in Seq(Nat) /\ Len(e) = 4 * Groups(src)
      /\ \A g \in 1..Groups(src) : \A p \in 1..4 : e[4 * (g - 1) + p] = Group(src, g)[p]
  BY EncodeIs
<1>3. /\ U \in Nat /\ U <= 4 * Groups(src)
      /\ \A g \in 1..Groups(src) : /\ 4 * (g - 1) + 2 <= U
                                   /\ 4 * (g - 1) + 3 <= U <=> 3 * g - 1 <= n
                                   /\ 4 * (g - 1) + 4 <= U <=> 3 * g <= n
  <2>1. PICK q \in Nat, r \in 0..2 : n = 3 * q + r /\ n \div 3 = q /\ n % 3 = r
    <3>1. n \div 3 \in Nat /\ n % 3 \in 0..2 /\ n = 3 * (n \div 3) + (n % 3)
      BY <1>1
    <3>2. QED  BY <3>1
  <2>2. U = 4 * q + (IF r = 0 THEN 0 ELSE r + 1)
    BY <2>1 DEF Unpadded
  <2>3. Groups(src) = IF r = 0 THEN q ELSE q + 1
    BY <2>1 DEF Groups
  <2> HIDE DEF U, n
  <2>4. QED  BY <2>1, <2>2, <2>3
<1> HIDE DEF n, U, e
<1>4. ASSUME NEW k \in 1..Len(e) PROVE e[k] # Pad <=> k <= U
  <2> DEFINE g == (k + 3) \div 4
             p == ((k + 3) % 4) + 1
  <2>1. Groups(src) \in Nat
    BY DEF Groups
  <2>2. g \in 1..Groups(src) /\ p \in 1..4 /\ k = 4 * (g - 1) + p
    <3>1. \A G \in Nat : \A i \in 1..(4 * G) :
            /\ (i + 3) \div 4 \in 1..G /\ ((i + 3) % 4) + 1 \in 1..4
            /\ i = 4 * (((i + 3) \div 4) - 1) + (((i + 3) % 4) + 1)
      OBVIOUS
    <3>2. k \in 1..(4 * Groups(src))
      BY <1>2
    <3>3. QED  BY <2>1, <3>1, <3>2
  <2> HIDE DEF g, p
  <2>3. /\ Group(src, g)[1] # Pad /\ Group(src, g)[2] # Pad
        /\ Group(src, g)[3] # Pad <=> 3 * g - 1 <= n
        /\ Group(src, g)[4] # Pad <=> 3 * g <= n
    <3>1. g \in Nat \ {0}
      BY <2>1, <2>2
    <3>2. QED  BY <3>1, GroupIs DEF n
  <2>4. e[k] = Group(src, g)[p]
    BY <1>2, <2>2
  <2>5. /\ 4 * (g - 1) + 2 <= U /\ 4 * (g - 1) + 3 <= U <=> 3 * g - 1 <= n
        /\ 4 * (g - 1) + 4 <= U <=> 3 * g <= n
    BY <1>3, <2>2
  <2>6. p = 1 \/ p = 2 \/ p = 3 \/ p = 4
    BY <2>2
  <2>7. CASE p = 1
    BY <1>3, <2>1, <2>2, <2>3, <2>4, <2>5, <2>7
  <2>8. CASE p = 2
    BY <1>3, <2>1, <2>2, <2>3, <2>4, <2>5, <2>8
  <2>9. CASE p = 3
    BY <1>3, <2>1, <2>2, <2>3, <2>4, <2>5, <2>9
  <2>10. CASE p = 4
    BY <1>3, <2>1, <2>2, <2>3, <2>4, <2>5, <2>10
  <2>11. QED  BY <2>6, <2>7, <2>8, <2>9, <2>10
<1>5. QED  BY <1>2, <1>3, <1>4 DEF e, U

(* Both are decoded to what was encoded.                                   *)
Begins(str, src) ==
  /\ str \in Seq(Nat) /\ Len(str) \in {Unpadded(src), 4 * Groups(src)}
  /\ \A k \in 1..Len(str) : str[k] = Encode(src)[k]

LEMMA GroupDecoded ==
  ASSUME NEW src \in Seq(0..255), NEW str, Begins(str, src), NEW g \in 1..Groups(src)
  PROVE  /\ FirstByte(str, 4 * (g - 1)) = ByteAt(src, 3 * g - 2)
         /\ SecondByte(str, 4 * (g - 1)) = ByteAt(src, 3 * g - 1)
         /\ ThirdByte(str, 4 * (g - 1)) = ByteAt(src, 3 * g)
<1> DEFINE b0 == ByteAt(src, 3 * g - 2)
           b1 == ByteAt(src, 3 * g - 1)
           b2 == ByteAt(src, 3 * g)
           i == 4 * (g - 1)
           e == Encode(src)
           U == Unpadded(src)
<1>1. Groups(src) \in Nat /\ g \in Nat \ {0} /\ i \in Nat
      /\ i + 4 <= 4 * Groups(src)
  BY DEF Groups
<1>2. /\ Len(str) \in Nat /\ Len(str) \in {U, Len(e)}
      /\ \A k \in 1..Len(str) : str[k] = e[k]
  <2>1. Len(e) = 4 * Groups(src)
    BY EncodeIs
  <2>2. QED  BY <2>1 DEF Begins
<1>3. /\ Len(e) = 4 * Groups(src) /\ \A p \in 1..4 : e[i + p] = Group(src, g)[p]
  BY EncodeIs
<1>4. /\ U \in Nat /\ U <= Len(e)
      /\ \A k \in 1..Len(e) : e[k] # Pad <=> k <= U
  BY PadsAtEnd
<1> DEFINE c == Group(src, g)
<1> HIDE DEF U, e, c, i
<1>5. ASSUME NEW p \in 1..4 PROVE Sextet(str, i + (p - 1)) = DecodeTable(c[p])
  <2> DEFINE k == i + p
  <2>1. k \in 1..Len(e) /\ i + (p - 1) = k - 1 /\ (k - 1) + 1 = k
    <3>1. \A a, G \in Nat : \A b \in 1..4 :
            a + 4 <= 4 * G =>
              a + b \in 1..(4 * G) /\ a + (b - 1) = (a + b) - 1 /\ ((a + b) - 1) + 1 = a + b
      OBVIOUS
    <3>2. QED  BY <1>1, <1>3, <3>1
  <2>2. e[k] = c[p]
    BY <1>3 DEF c
  <2> HIDE DEF k
  <2>3. CASE k <= Len(str)
    <3>1. str[k] = c[p] /\ k - 1 < Len(str)
      BY <1>2, <2>1, <2>2, <2>3
    <3>2. Sextet(str, k - 1) = DecodeTable(str[(k - 1) + 1])
      BY <3>1 DEF Sextet
    <3>3. QED  BY <2>1, <3>1, <3>2
  <2>4. CASE ~(k <= Len(str))
    <3>1. e[k] = Pad /\ ~(k - 1 < Len(str))
      BY <1>2, <1>4, <2>1, <2>4
    <3>2. Sextet(str, k - 1) = 0
      BY <3>1 DEF Sextet
    <3>3. QED  BY <2>1, <2>2, <3>1, <3>2, PadIsZero
  <2>5. QED  BY <2>3, <2>4
<1>6. /\ DecodeTable(c[1]) = First(b0) /\ DecodeTable(c[2]) = Second(b0, b1)
      /\ DecodeTable(c[3]) = Third(b1, b2) /\ DecodeTable(c[4]) = Fourth(b2)
  BY <1>1, GroupIs DEF c
<1>7. /\ i + (1 - 1) = i /\ i + (2 - 1) = i + 1 /\ i + (3 - 1) = i + 2 /\ i + (4 - 1) = i + 3
      /\ 1 \in 1..4 /\ 2 \in 1..4 /\ 3 \in 1..4 /\ 4 \in 1..4
  BY <1>1
<1>8. /\ Sextet(str, i) = First(b0) /\ Sextet(str, i + 1) = Second(b0, b1)
      /\ Sextet(str, i + 2) = Third(b1, b2) /\ Sextet(str, i + 3) = Fourth(b2)
  <2>1. /\ Sextet(str, i + (1 - 1)) = First(b0) /\ Sextet(str, i + (2 - 1)) = Second(b0, b1)
        /\ Sextet(str, i + (3 - 1)) = Third(b1, b2) /\ Sextet(str, i + (4 - 1)) = Fourth(b2)
    BY <1>5, <1>6
  <2>2. QED  BY <1>7, <2>1
<1>9. b0 \in 0..255 /\ b1 \in 0..255 /\ b2 \in 0..255
  <2>1. 3 * g - 2 \in Nat \ {0} /\ 3 * g - 1 \in Nat \ {0} /\ 3 * g \in Nat \ {0}
    BY <1>1
  <2>2. QED  BY <2>1, ByteAtIs
<1> HIDE DEF b0, b1, b2
<1>10. AreBytes(b0, b1, b2)
  BY <1>9, Sextets, Zenon
<1>11. /\ FirstByte(str, i) = b0 /\ SecondByte(str, i) = b1 /\ ThirdByte(str, i) = b2
  BY <1>8, <1>10 DEF FirstByte, SecondByte, ThirdByte, AreBytes
<1>12. QED  BY <1>11 DEF i, b0, b1, b2

LEMMA DecodesBack ==
  ASSUME NEW src \in Seq(0..255), NEW str, Begins(str, src)
  PROVE  Decode(str) = src
<1> DEFINE n == Len(src)
           m == Len(str)
           G == Groups(src)
           U == Unpadded(src)
           e == Encode(src)
           whole == [k \in 1..(3 * (LastGroup(str) \div 4)) |->
                       LET i == 4 * ((k - 1) \div 3)
                       IN  <<FirstByte(str, i), SecondByte(str, i), ThirdByte(str, i)>>[((k - 1) % 3) + 1]]
           L == LastGroup(str)
           rest == IF m > L + 2 /\ str[L + 3] # Pad
                   THEN <<FirstByte(str, L), SecondByte(str, L)>> ELSE <<FirstByte(str, L)>>
<1>0. Decode(str) = IF Padded(str) THEN whole \o rest ELSE whole
  BY DEF Decode
<1> HIDE DEF whole, rest, L
<1>1. n \in Nat /\ m \in Nat
  BY DEF Begins
<1>2. PICK q \in Nat, r \in 0..2 : n = 3 * q + r /\ n \div 3 = q /\ n % 3 = r
  <2>1. n \div 3 \in Nat /\ n % 3 \in 0..2 /\ n = 3 * (n \div 3) + (n % 3)
    BY <1>1
  <2>2. QED  BY <2>1
<1>3. U = 4 * q + (IF r = 0 THEN 0 ELSE r + 1)
  BY <1>2 DEF Unpadded
<1>4. G = IF r = 0 THEN q ELSE q + 1
  BY <1>2 DEF Groups
<1>5. /\ m \in {U, 4 * G} /\ \A k \in 1..m : str[k] = e[k]
      /\ \A k \in 1..(4 * G) : e[k] # Pad <=> k <= U
  <2>1. Len(e) = 4 * G
    BY EncodeIs
  <2>2. QED  BY <2>1, PadsAtEnd DEF Begins
<1> HIDE DEF U, G, e, n, m
<1>6. \A k \in 1..m : str[k] # Pad <=> k <= U
  BY <1>1, <1>2, <1>3, <1>4, <1>5
<1>7. Padded(str) <=> r # 0
  <2>1. CASE r = 0
    <3>1. m = 4 * q /\ U = m
      BY <1>2, <1>3, <1>4, <1>5, <2>1
    <3>2. m % 4 = 0 /\ (m > 0 => str[m] # Pad)
      BY <1>2, <1>6, <3>1
    <3>3. QED  BY <2>1, <3>2 DEF Padded, m
  <2>2. CASE r # 0
    <3>1. CASE m = U
      <4>1. m > 0 /\ m % 4 # 0
        BY <1>2, <1>3, <2>2, <3>1
      <4>2. QED  BY <2>2, <4>1 DEF Padded, m
    <3>2. CASE m # U
      <4>1. m = 4 * q + 4 /\ U < m /\ m \in 1..m
        BY <1>2, <1>3, <1>4, <1>5, <2>2, <3>2
      <4>2. str[m] = Pad
        BY <1>1, <1>2, <1>3, <1>6, <4>1
      <4>3. m > 0
        BY <1>2, <4>1
      <4>4. QED  BY <2>2, <4>2, <4>3 DEF Padded, m
    <3>3. QED  BY <3>1, <3>2
  <2>3. QED  BY <2>1, <2>2
<1>8. L = 4 * q /\ L \div 4 = q
  <2>1. (m + 3) \div 4 = G
    BY <1>2, <1>3, <1>4, <1>5
  <2>2. L = (G - IF r # 0 THEN 1 ELSE 0) * 4
    <3>1. L = ((m + 3) \div 4 - IF Padded(str) THEN 1 ELSE 0) * 4
      BY DEF L, LastGroup, m
    <3>2. QED  BY <1>7, <2>1, <3>1
  <2>3. L = q * 4
    BY <1>2, <1>4, <2>2
  <2>4. QED  BY <1>2, <2>3
<1>9. \A g \in 1..G : /\ FirstByte(str, 4 * (g - 1)) = ByteAt(src, 3 * g - 2)
                      /\ SecondByte(str, 4 * (g - 1)) = ByteAt(src, 3 * g - 1)
                      /\ ThirdByte(str, 4 * (g - 1)) = ByteAt(src, 3 * g)
  BY GroupDecoded DEF G
<1>10. /\ whole \in Seq(0..255) /\ Len(whole) = 3 * q
       /\ \A k \in 1..(3 * q) : whole[k] = src[k]
  <2> DEFINE At(k) == LET i == 4 * ((k - 1) \div 3)
                      IN  <<FirstByte(str, i), SecondByte(str, i), ThirdByte(str, i)>>[((k - 1) % 3) + 1]
  <2>1. whole = [k \in 1..(3 * q) |-> At(k)]
    BY <1>8 DEF whole, L
  <2>2. ASSUME NEW k \in 1..(3 * q) PROVE At(k) = src[k]
    <3> DEFINE g == (k - 1) \div 3 + 1
               p == ((k - 1) % 3) + 1
               i == 4 * ((k - 1) \div 3)
    <3>1. /\ g \in 1..q /\ p \in 1..3 /\ i = 4 * (g - 1)
          /\ 3 * g - 2 <= n /\ 3 * g - 1 <= n /\ 3 * g <= n /\ k = 3 * g - 3 + p
      BY <1>2
    <3>2. At(k) = <<FirstByte(str, i), SecondByte(str, i), ThirdByte(str, i)>>[p]
      OBVIOUS
    <3> HIDE DEF g, p, i
    <3>3. /\ FirstByte(str, i) = src[3 * g - 2] /\ SecondByte(str, i) = src[3 * g - 1]
          /\ ThirdByte(str, i) = src[3 * g]
      <4>1. g \in 1..G
        BY <1>2, <1>4, <3>1
      <4>2. QED  BY <1>9, <3>1, <4>1 DEF ByteAt, n
    <3>4. p = 1 \/ p = 2 \/ p = 3
      BY <3>1
    <3>5. CASE p = 1
      <4>1. k = 3 * g - 2
        BY <3>1, <3>5
      <4>2. QED  BY <3>2, <3>3, <3>5, <4>1
    <3>6. CASE p = 2
      <4>1. k = 3 * g - 1
        BY <3>1, <3>6
      <4>2. QED  BY <3>2, <3>3, <3>6, <4>1
    <3>7. CASE p = 3
      <4>1. k = 3 * g
        BY <3>1, <3>7
      <4>2. QED  BY <3>2, <3>3, <3>7, <4>1
    <3>8. QED  BY <3>4, <3>5, <3>6, <3>7
  <2>3. ASSUME NEW k \in 1..(3 * q) PROVE src[k] \in 0..255
    <3>1. k \in 1..Len(src)
      BY <1>2 DEF n
    <3>2. QED  BY <3>1, ElementOfSeq
  <2> DEFINE N == 3 * q
  <2>4. N \in Nat
    BY <1>2
  <2> HIDE DEF At, N
  <2>5. whole = [k \in 1..N |-> At(k)]
    BY <2>1 DEF N
  <2>6. ASSUME NEW k \in 1..N PROVE At(k) = src[k] /\ At(k) \in 0..255
    <3>1. k \in 1..(3 * q)
      BY DEF N
    <3>2. At(k) = src[k] /\ src[k] \in 0..255
      BY <2>2, <2>3, <3>1, Zenon
    <3>3. QED  BY <3>2, Zenon
  <2>7. whole \in Seq(0..255) /\ Len(whole) = N /\ \A k \in 1..N : whole[k] = src[k]
    BY <2>4, <2>5, <2>6
  <2>8. QED  BY <2>7 DEF N
<1>11. CASE r = 0
  <2>1. Decode(str) = whole
    BY <1>0, <1>7, <1>11
  <2>2. n = 3 * q
    BY <1>2, <1>11
  <2>3. QED  BY <1>10, <2>1, <2>2 DEF n
<1>12. CASE r # 0
  <2>1. Decode(str) = whole \o rest
    BY <1>0, <1>7, <1>12
  <2>2. FirstByte(str, L) = src[3 * q + 1] /\ (r = 2 => SecondByte(str, L) = src[3 * q + 2])
    <3> DEFINE g == q + 1
    <3>1. g \in 1..G /\ 4 * (g - 1) = L /\ 3 * g - 2 = 3 * q + 1 /\ 3 * g - 1 = 3 * q + 2
          /\ 3 * q + 1 <= n /\ (r = 2 => 3 * q + 2 <= n)
      BY <1>2, <1>4, <1>8, <1>12
    <3> HIDE DEF g
    <3>2. QED  BY <1>9, <3>1 DEF ByteAt, n
  <2>3. (m > L + 2 /\ str[L + 3] # Pad) <=> r = 2
    <3>1. m > L + 2 => L + 3 \in 1..m
      BY <1>1, <1>2, <1>8
    <3>2. CASE r = 2
      <4>1. U = 4 * q + 3
        BY <1>2, <1>3, <3>2
      <4>2. m > L + 2 /\ L + 3 <= U
        BY <1>1, <1>2, <1>4, <1>5, <1>8, <3>2, <4>1
      <4>3. QED  BY <1>6, <3>1, <3>2, <4>2
    <3>3. CASE r = 1
      <4>1. U = 4 * q + 2
        BY <1>2, <1>3, <3>3
      <4>2. ~(L + 3 <= U)
        BY <1>2, <1>8, <4>1
      <4>3. QED  BY <1>6, <3>1, <3>3, <4>2
    <3>4. QED  BY <1>2, <1>12, <3>2, <3>3
  <2>4. \A k \in 1..n : src[k] \in 0..255
    BY ElementOfSeq DEF n
  <2>5. CASE r = 2
    <3>1. rest = <<src[3 * q + 1], src[3 * q + 2]>>
      BY <2>2, <2>3, <2>5 DEF rest, L, m
    <3>2. n = 3 * q + 2
      BY <1>2, <2>5
    <3>3. src[3 * q + 1] \in 0..255 /\ src[3 * q + 2] \in 0..255
      BY <1>2, <2>4, <3>2
    <3>4. rest \in Seq(0..255) /\ Len(rest) = 2 /\ rest[1] = src[3 * q + 1] /\ rest[2] = src[3 * q + 2]
      BY <3>1, <3>3
    <3>5. /\ Len(src) = Len(whole) + Len(rest)
          /\ \A k \in 1..Len(whole) : whole[k] = src[k]
          /\ \A k \in 1..Len(rest) : rest[k] = src[Len(whole) + k]
      BY <1>2, <1>10, <3>2, <3>4 DEF n
    <3>6. QED  BY <1>10, <2>1, <3>4, <3>5, Joined, ZenonT(40)
  <2>6. CASE r = 1
    <3>1. rest = <<src[3 * q + 1]>>
      BY <2>2, <2>3, <2>6 DEF rest, L, m
    <3>2. n = 3 * q + 1
      BY <1>2, <2>6
    <3>3. src[3 * q + 1] \in 0..255
      BY <1>2, <2>4, <3>2
    <3>4. rest \in Seq(0..255) /\ Len(rest) = 1 /\ rest[1] = src[3 * q + 1]
      BY <3>1, <3>3
    <3>5. /\ Len(src) = Len(whole) + Len(rest)
          /\ \A k \in 1..Len(whole) : whole[k] = src[k]
          /\ \A k \in 1..Len(rest) : rest[k] = src[Len(whole) + k]
      BY <1>2, <1>10, <3>2, <3>4 DEF n
    <3>6. QED  BY <1>10, <2>1, <3>4, <3>5, Joined, ZenonT(40)
  <2>7. QED  BY <1>2, <1>12, <2>5, <2>6
<1>13. QED  BY <1>11, <1>12

-----------------------------------------------------------------------------
(* Base64ReadBack, of a hash.                                              *)
LEMMA Base64ReadsBack ==
  ASSUME NEW src \in Seq(0..255)
  PROVE  LET padded == Encode(src)
             bare == Selected(padded, {i \in DOMAIN padded : padded[i] # Pad})
         IN  Decode(padded) = src /\ Decode(bare) = src
<1> DEFINE e == Encode(src)
           U == Unpadded(src)
           bare == Selected(e, {i \in DOMAIN e : e[i] # Pad})
<1>1. e \in Seq(Nat) /\ Len(e) = 4 * Groups(src)
  BY EncodeIs
<1>2. /\ U \in Nat /\ U <= Len(e)
      /\ \A k \in 1..Len(e) : e[k] # Pad <=> k <= U
  BY PadsAtEnd
<1>3. Begins(e, src)
  BY <1>1 DEF Begins
<1> HIDE DEF U, e
<1>4. {i \in DOMAIN e : e[i] # Pad} = 1..U
  <2>1. DOMAIN e = 1..Len(e) /\ Len(e) \in Nat
    BY <1>1
  <2>2. QED  BY <1>2, <2>1
<1>5. bare = SubSeq(e, 1, U)
  <2>1. U \in 0..Len(e)
    BY <1>1, <1>2
  <2>2. Selected(e, 1..U) = SubSeq(e, 1, U)
    BY <1>1, <2>1, CollectsBeginning
  <2>3. QED  BY <1>4, <2>2
<1> HIDE DEF bare
<1>6. Begins(bare, src)
  <2>1. bare \in Seq(Nat) /\ Len(bare) = U /\ \A k \in 1..U : bare[k] = e[k]
    BY <1>1, <1>2, <1>5
  <2>2. QED  BY <2>1 DEF Begins, U, e
<1>7. Decode(e) = src /\ Decode(bare) = src
  BY <1>3, <1>6, DecodesBack, Zenon
<1>8. QED  BY <1>7 DEF e, bare

-----------------------------------------------------------------------------
(* The strings of a table, one after another.                              *)
TableStep(g, lengths, n) ==
  IF n = 0 THEN <<>> ELSE g[n - 1] \o <<lengths[n]>> \o Letters(n, lengths[n])
Tabling(lengths) == CHOOSE g : g = [n \in 0..TableSize |-> TableStep(g, lengths, n)]

LEMMA TablingIs == \A lengths : TableOf(lengths) = Tabling(lengths)
  BY DEF TableOf, Tabling, TableStep

LEMMA LettersAre ==
  ASSUME NEW i \in Nat, NEW n \in Nat
  PROVE  Letters(i, n) \in Seq(Nat) /\ Len(Letters(i, n)) = n
<1> DEFINE At(k) == 100 * i + k
<1>1. \A k \in 1..n : At(k) \in Nat
  OBVIOUS
<1>2. Letters(i, n) = [k \in 1..n |-> At(k)]
  BY DEF Letters
<1> HIDE DEF At
<1>3. QED  BY <1>1, <1>2

LEMMA TableUnfolds ==
  ASSUME NEW lengths \in [1..TableSize -> Nat]
  PROVE  /\ TableOf(lengths)[0] = <<>>
         /\ \A n \in 1..TableSize :
              TableOf(lengths)[n] =
                TableOf(lengths)[n - 1] \o <<lengths[n]>> \o Letters(n, lengths[n])
<1> DEFINE N == TableSize
           Next1(s, n) == s \o <<lengths[n]>> \o Letters(n, lengths[n])
           F == [p \in Seq(Nat) \X (1..N) |-> Next1(p[1], p[2])]
<1>1. N \in Nat /\ \A n \in 1..N : lengths[n] \in Nat /\ n \in Nat
  BY CodecAssumption
<1>2. ASSUME NEW s \in Seq(Nat), NEW n \in 1..N PROVE Next1(s, n) \in Seq(Nat)
  <2>1. Letters(n, lengths[n]) \in Seq(Nat) /\ <<lengths[n]>> \in Seq(Nat)
    BY <1>1, LettersAre
  <2>2. QED  BY <2>1
<1> HIDE DEF Next1
<1>3. F \in [Seq(Nat) \X (1..N) -> Seq(Nat)]
  BY <1>2
<1>4. \A s \in Seq(Nat), n \in 1..N : F[<<s, n>>] = Next1(s, n)
  OBVIOUS
<1> HIDE DEF F, N
<1>5. PICK f \in [0..N -> Seq(Nat)] : Stepwise(f, N, <<>>, F)
  <2>1. <<>> \in Seq(Nat)
    OBVIOUS
  <2>2. QED  BY <1>1, <1>3, <2>1, StepsExist
<1>6. ASSUME NEW n \in 0..N PROVE f[n] = TableStep(f, lengths, n)
  <2>1. CASE n = 0
    BY <1>5, <2>1 DEF TableStep, Stepwise
  <2>2. CASE n # 0
    <3>1. n - 1 \in 0..N /\ n \in 1..N
      BY <1>1, <2>2
    <3>2. f[n] = F[<<f[n - 1], n>>]
      BY <1>5, <2>2 DEF Stepwise
    <3>3. f[n - 1] \in Seq(Nat)
      BY <1>5, <3>1
    <3>4. f[n] = Next1(f[n - 1], n)
      BY <1>4, <3>1, <3>2, <3>3
    <3>5. QED  BY <2>2, <3>4 DEF TableStep, Next1
  <2>3. QED  BY <2>1, <2>2
<1>7. f = [n \in 0..N |-> TableStep(f, lengths, n)]
  <2> DEFINE h == [n \in 0..N |-> TableStep(f, lengths, n)]
  <2>1. \A n \in 0..N : f[n] = h[n]
    BY <1>6
  <2>2. f = h
    BY <1>5, <2>1
  <2>3. QED  BY <2>2
<1> DEFINE t == Tabling(lengths)
<1>8. t = [n \in 0..N |-> TableStep(t, lengths, n)]
  BY <1>7 DEF Tabling, N
<1> HIDE DEF t
<1>9. \A n \in 0..N : t[n] = TableStep(t, lengths, n)
  BY <1>8
<1>10. t[0] = <<>>
  <2>1. t[0] = TableStep(t, lengths, 0)
    BY <1>1, <1>9
  <2>2. TableStep(t, lengths, 0) = <<>>
    BY DEF TableStep
  <2>3. QED  BY <2>1, <2>2
<1>11. ASSUME NEW n \in 1..N
       PROVE  t[n] = t[n - 1] \o <<lengths[n]>> \o Letters(n, lengths[n])
  <2>1. n \in 0..N /\ n # 0
    BY <1>1
  <2>2. QED  BY <1>9, <2>1 DEF TableStep
<1>12. TableOf(lengths) = t
  BY TablingIs DEF t
<1>13. QED  BY <1>10, <1>11, <1>12 DEF N

(* What stands in a table, and where.                                      *)
StandsAt(t, n, lengths) ==
  LET o == Len(t[n - 1])
      l == lengths[n]
  IN  /\ Len(t[n]) = o + 1 + l
      /\ t[n][o + 1] = l
      /\ \A k \in 1..l : t[n][o + 1 + k] = Letters(n, l)[k]
      /\ \A k \in 1..o : t[n][k] = t[n - 1][k]

LEMMA TableGrows ==
  ASSUME NEW lengths \in [1..TableSize -> Nat]
  PROVE  /\ \A n \in 0..TableSize : TableOf(lengths)[n] \in Seq(Nat)
         /\ \A n \in 1..TableSize : StandsAt(TableOf(lengths), n, lengths)
<1> DEFINE t == TableOf(lengths)
           N == TableSize
           Good == {n \in Nat : n <= N => t[n] \in Seq(Nat)}
<1>1. /\ N \in Nat /\ t[0] = <<>>
      /\ \A n \in 1..N : t[n] = t[n - 1] \o <<lengths[n]>> \o Letters(n, lengths[n])
      /\ \A n \in 1..N : n \in Nat /\ lengths[n] \in Nat
  <2>1. t[0] = <<>> /\ \A n \in 1..N : t[n] = t[n - 1] \o <<lengths[n]>> \o Letters(n, lengths[n])
    BY TableUnfolds
  <2>2. N \in Nat /\ \A n \in 1..N : n \in Nat /\ lengths[n] \in Nat
    BY CodecAssumption
  <2>3. QED  BY <2>1, <2>2, Zenon
<1> HIDE DEF t
<1>2. ASSUME NEW n \in 1..N, t[n - 1] \in Seq(Nat)
      PROVE  t[n] \in Seq(Nat) /\ StandsAt(t, n, lengths)
  <2> DEFINE s == t[n - 1]
             l == lengths[n]
             x == <<l>>
             y == Letters(n, l)
  <2>1. t[n] = (s \o x) \o y
    BY <1>1
  <2>2. /\ s \in Seq(Nat) /\ x \in Seq(Nat) /\ y \in Seq(Nat) /\ l \in Nat
        /\ Len(x) = 1 /\ x[1] = l /\ Len(y) = l
    <3>1. l \in Nat /\ n \in Nat
      BY <1>1
    <3>2. y \in Seq(Nat) /\ Len(y) = l
      BY <3>1, LettersAre
    <3> HIDE DEF l, y
    <3>3. x \in Seq(Nat) /\ Len(x) = 1 /\ x[1] = l
      BY <3>1
    <3>4. QED  BY <1>2, <3>1, <3>2, <3>3
  <2> HIDE DEF s, l, x, y
  <2> DEFINE z == s \o x
             o == Len(s)
  <2>3. o \in Nat
    BY <2>2
  <2>4. /\ z \in Seq(Nat) /\ Len(z) = o + 1 /\ z[o + 1] = l
        /\ \A k \in 1..o : z[k] = s[k]
    <3>1. z \in Seq(Nat) /\ Joins(z, s, x)
      BY <2>2, ConcatIs
    <3>2. 1 \in 1..Len(x)
      BY <2>2
    <3> HIDE DEF z
    <3>3. QED  BY <2>2, <3>1, <3>2 DEF Joins
  <2> HIDE DEF z, o
  <2>5. /\ t[n] \in Seq(Nat) /\ Len(t[n]) = o + 1 + l
        /\ \A k \in 1..l : t[n][o + 1 + k] = y[k]
        /\ \A k \in 1..(o + 1) : t[n][k] = z[k]
    <3>1. t[n] \in Seq(Nat) /\ Joins(t[n], z, y)
      <4>1. t[n] = z \o y
        BY <2>1 DEF z
      <4>2. QED  BY <2>2, <2>4, <4>1, ConcatIs
    <3>2. QED  BY <2>2, <2>4, <3>1 DEF Joins
  <2>6. /\ t[n][o + 1] = l /\ \A k \in 1..o : t[n][k] = s[k]
    <3>1. o + 1 \in 1..(o + 1) /\ \A k \in 1..o : k \in 1..(o + 1)
      BY <2>3
    <3>2. QED  BY <2>4, <2>5, <3>1, Zenon
  <2>7. QED  BY <2>5, <2>6 DEF StandsAt, s, o, l, y
<1>3. 0 \in Good
  <2>1. <<>> \in Seq(Nat)
    OBVIOUS
  <2>2. t[0] \in Seq(Nat)
    BY <1>1, <2>1
  <2>3. QED  BY <2>2
<1>4. ASSUME NEW n \in Nat, n \in Good PROVE n + 1 \in Good
  <2> SUFFICES ASSUME n + 1 <= N PROVE t[n + 1] \in Seq(Nat)
    OBVIOUS
  <2>1. n + 1 \in 1..N /\ (n + 1) - 1 = n
    BY <1>1
  <2>2. t[n] \in Seq(Nat)
    BY <1>1, <1>4
  <2>3. QED  BY <1>2, <2>1, <2>2
<1>5. Nat \subseteq Good
  <2> HIDE DEF Good
  <2>1. QED  BY <1>3, <1>4, NumberInduction
<1>6. \A n \in 0..N : t[n] \in Seq(Nat)
  BY <1>1, <1>5
<1>7. ASSUME NEW n \in 1..N PROVE StandsAt(t, n, lengths)
  <2>1. n - 1 \in 0..N
    BY <1>1
  <2>2. QED  BY <1>2, <1>6, <2>1
<1>8. QED  BY <1>6, <1>7 DEF t

(* What stands in the beginning of a table stands in the whole.            *)
LEMMA TableKeeps ==
  ASSUME NEW lengths \in [1..TableSize -> Nat], NEW n \in 0..TableSize
  PROVE  LET t == TableOf(lengths)
         IN  /\ Len(t[TableSize]) >= Len(t[n]) + (TableSize - n)
             /\ \A k \in 1..Len(t[n]) : t[TableSize][k] = t[n][k]
<1> DEFINE t == TableOf(lengths)
           N == TableSize
           Holds(m) == /\ Len(t[m]) >= Len(t[n]) + (m - n)
                       /\ \A k \in 1..Len(t[n]) : t[m][k] = t[n][k]
           Good == {d \in Nat : n + d <= N => Holds(n + d)}
<1>1. /\ N \in Nat /\ n \in Nat /\ n <= N
      /\ \A m \in 0..N : t[m] \in Seq(Nat) /\ Len(t[m]) \in Nat
      /\ \A m \in 1..N : lengths[m] \in Nat /\ StandsAt(t, m, lengths)
  BY CodecAssumption, TableGrows
<1> HIDE DEF t
<1>2. 0 \in Good
  <2>1. n + 0 = n /\ n - n = 0 /\ Len(t[n]) \in Nat
    BY <1>1
  <2>2. QED  BY <2>1
<1>3. ASSUME NEW d \in Nat, d \in Good PROVE d + 1 \in Good
  <2> SUFFICES ASSUME n + (d + 1) <= N PROVE Holds(n + (d + 1))
    OBVIOUS
  <2> DEFINE m == n + d
  <2>1. /\ m + 1 = n + (d + 1) /\ m \in 0..N /\ m + 1 \in 1..N /\ (m + 1) - 1 = m
        /\ (m + 1) - n = (m - n) + 1
    BY <1>1
  <2>2. Holds(m)
    BY <1>1, <1>3
  <2> HIDE DEF m
  <2>3. /\ Len(t[m + 1]) = Len(t[m]) + 1 + lengths[m + 1]
        /\ \A k \in 1..Len(t[m]) : t[m + 1][k] = t[m][k]
    <3>1. StandsAt(t, m + 1, lengths)
      BY <1>1, <2>1
    <3>2. QED  BY <2>1, <3>1 DEF StandsAt
  <2>4. Len(t[m]) \in Nat /\ Len(t[n]) \in Nat /\ lengths[m + 1] \in Nat /\ m \in Nat /\ m >= n
    BY <1>1, <2>1 DEF m
  <2>5. Len(t[m + 1]) >= Len(t[n]) + ((m + 1) - n)
    <3>1. \A a, b, c, l, i, j \in Nat :
            a = b + 1 + l /\ b >= c + (i - j) => a >= c + ((i + 1) - j)
      OBVIOUS
    <3> DEFINE a == Len(t[m + 1])
               b == Len(t[m])
               c == Len(t[n])
               l == lengths[m + 1]
    <3>2. /\ a \in Nat /\ b \in Nat /\ c \in Nat /\ l \in Nat /\ m \in Nat /\ n \in Nat
          /\ a = b + 1 + l /\ b >= c + (m - n)
      BY <1>1, <2>1, <2>2, <2>3, <2>4
    <3> HIDE DEF a, b, c, l
    <3>3. a >= c + ((m + 1) - n)
      BY <3>1, <3>2
    <3>4. QED  BY <3>3 DEF a, c
  <2>6. ASSUME NEW k \in 1..Len(t[n]) PROVE t[m + 1][k] = t[n][k]
    <3>1. k \in 1..Len(t[m])
      BY <1>1, <2>2, <2>4
    <3>2. QED  BY <2>2, <2>3, <3>1
  <2>7. Holds(m + 1)
    BY <2>5, <2>6
  <2> HIDE DEF Holds
  <2>8. QED  BY <2>1, <2>7
<1>4. Nat \subseteq Good
  <2> HIDE DEF Good
  <2>1. QED  BY <1>2, <1>3, NumberInduction
<1>5. Holds(N)
  <2> DEFINE d == N - n
  <2>1. d \in Nat /\ n + d = N /\ N <= N
    BY <1>1
  <2> HIDE DEF Holds, d
  <2>2. d \in Good
    BY <1>4, <2>1
  <2>3. QED  BY <2>1, <2>2
<1>6. QED  BY <1>5 DEF t

(* The walk of load_string over a table.                                   *)
LoadStep(g, words, i) ==
  IF i = 0 THEN 0
  ELSE IF g[i - 1] >= Len(words) - 1 THEN g[i - 1] ELSE g[i - 1] + 1 + words[g[i - 1] + 1]
Loading(words) == CHOOSE g : g = [i \in 0..(TableSize - 1) |-> LoadStep(g, words, i)]

LEMMA LoadingIs ==
  \A words, id : LoadString(words, id) =
    LET at == Loading(words)[TableEntry(id)]
    IN  IF at >= Len(words) - 1 THEN <<>> ELSE SubSeq(words, at + 2, at + 1 + words[at + 1])
  BY DEF LoadString, Loading, LoadStep

LEMMA LoadUnfolds ==
  ASSUME NEW words \in Seq(Nat)
  PROVE  \A i \in 0..(TableSize - 1) : Loading(words)[i] = LoadStep(Loading(words), words, i)
<1> DEFINE N == TableSize - 1
           end == Len(words) - 1
           Next1(v) == IF v >= end THEN v ELSE v + 1 + words[v + 1]
           F == [p \in Nat \X (1..N) |-> Next1(p[1])]
<1>1. N \in Nat
  BY CodecAssumption
<1>2. ASSUME NEW v \in Nat PROVE Next1(v) \in Nat
  <2>1. CASE v >= end
    BY <2>1
  <2>2. CASE ~(v >= end)
    <3>1. v + 1 \in 1..Len(words)
      BY <2>2
    <3>2. words[v + 1] \in Nat
      BY <3>1, ElementOfSeq
    <3>3. QED  BY <2>2, <3>2
  <2>3. QED  BY <2>1, <2>2
<1> HIDE DEF Next1
<1>3. F \in [Nat \X (1..N) -> Nat] /\ \A v \in Nat, n \in 1..N : F[<<v, n>>] = Next1(v)
  BY <1>2
<1> HIDE DEF F, N
<1>4. PICK f \in [0..N -> Nat] : Stepwise(f, N, 0, F)
  BY <1>1, <1>3, StepsExist
<1>5. ASSUME NEW n \in 0..N PROVE f[n] = LoadStep(f, words, n)
  <2>1. CASE n = 0
    BY <1>4, <2>1 DEF LoadStep, Stepwise
  <2>2. CASE n # 0
    <3>1. n - 1 \in 0..N /\ n \in 1..N
      BY <1>1, <2>2
    <3>2. f[n] = F[<<f[n - 1], n>>] /\ f[n - 1] \in Nat
      BY <1>4, <2>2, <3>1 DEF Stepwise
    <3>3. f[n] = Next1(f[n - 1])
      BY <1>3, <3>1, <3>2
    <3>4. QED  BY <2>2, <3>3 DEF LoadStep, Next1
  <2>3. QED  BY <2>1, <2>2
<1>6. f = [n \in 0..N |-> LoadStep(f, words, n)]
  <2> DEFINE h == [n \in 0..N |-> LoadStep(f, words, n)]
  <2>1. \A n \in 0..N : f[n] = h[n]
    BY <1>5
  <2>2. f = h
    BY <1>4, <2>1
  <2>3. QED  BY <2>2
<1> DEFINE t == Loading(words)
<1>7. t = [n \in 0..N |-> LoadStep(t, words, n)]
  BY <1>6 DEF Loading, N
<1> HIDE DEF t
<1>8. \A n \in 0..N : t[n] = LoadStep(t, words, n)
  BY <1>7
<1>9. QED  BY <1>8 DEF t, N

(* Each string of a table is loaded as it is.                              *)
LEMMA LoadsEach ==
  ASSUME NEW lengths \in [1..TableSize -> Nat], NEW i \in 1..TableSize
  PROVE  LoadString(TableOf(lengths)[TableSize], TableSize + (i - 1)) = Letters(i, lengths[i])
<1> DEFINE t == TableOf(lengths)
           N == TableSize
           words == t[N]
           it == Loading(words)
           end == Len(words) - 1
           Good == {n \in Nat : n + 1 <= N => it[n] = Len(t[n])}
<1>1. /\ N \in Nat \ {0} /\ i \in Nat /\ words \in Seq(Nat) /\ Len(words) \in Nat
      /\ t[0] = <<>> /\ \A n \in 0..N : Len(t[n]) \in Nat
      /\ \A n \in 1..N : lengths[n] \in Nat /\ StandsAt(t, n, lengths)
  <2>1. N \in Nat \ {0} /\ i \in Nat /\ N \in 0..N
    BY CodecAssumption
  <2>2. t[0] = <<>>
    BY TableUnfolds
  <2>3. /\ \A n \in 0..N : t[n] \in Seq(Nat)
        /\ \A n \in 1..N : StandsAt(t, n, lengths)
    BY TableGrows
  <2>4. \A n \in 1..N : lengths[n] \in Nat
    OBVIOUS
  <2> HIDE DEF t, N
  <2>5. QED  BY <2>1, <2>2, <2>3, <2>4
<1>2. \A n \in 0..(N - 1) : it[n] = LoadStep(it, words, n)
  BY <1>1, LoadUnfolds
<1>3. \A n \in 0..N : /\ Len(words) >= Len(t[n]) + (N - n)
                      /\ \A k \in 1..Len(t[n]) : words[k] = t[n][k]
  BY TableKeeps
<1> HIDE DEF t, it
<1>4. ASSUME NEW n \in 1..N
      PROVE  LET o == Len(t[n - 1])
             IN  /\ Len(t[n]) = o + 1 + lengths[n]
                 /\ words[o + 1] = lengths[n]
                 /\ o + 1 + lengths[n] + (N - n) <= Len(words)
                 /\ \A k \in 1..lengths[n] : words[o + 1 + k] = Letters(n, lengths[n])[k]
  <2> DEFINE o == Len(t[n - 1])
             l == lengths[n]
  <2>1. o \in Nat /\ l \in Nat /\ n \in 0..N /\ N \in Nat
    <3>1. n - 1 \in 0..N /\ n \in 0..N
      BY <1>1
    <3>2. QED  BY <1>1, <3>1
  <2>2. /\ Len(t[n]) = o + 1 + l /\ t[n][o + 1] = l
        /\ \A k \in 1..l : t[n][o + 1 + k] = Letters(n, l)[k]
    BY <1>1 DEF StandsAt
  <2>3. /\ Len(words) >= (o + 1 + l) + (N - n)
        /\ \A k \in 1..(o + 1 + l) : words[k] = t[n][k]
    BY <1>3, <2>1, <2>2
  <2> HIDE DEF o, l, words
  <2>4. words[o + 1] = l
    BY <2>1, <2>2, <2>3
  <2>5. ASSUME NEW k \in 1..l PROVE words[o + 1 + k] = Letters(n, l)[k]
    <3>1. o + 1 + k \in 1..(o + 1 + l)
      BY <2>1
    <3>2. QED  BY <2>2, <2>3, <3>1
  <2>6. o + 1 + l + (N - n) <= Len(words)
    BY <1>1, <2>1, <2>3
  <2>7. QED  BY <2>2, <2>4, <2>5, <2>6 DEF o, l
<1>5. 0 \in Good
  <2>1. it[0] = 0
    <3>1. 0 \in 0..(N - 1)
      BY <1>1
    <3>2. QED  BY <1>2, <3>1 DEF LoadStep
  <2>2. QED  BY <1>1, <2>1
<1>6. ASSUME NEW n \in Nat, n \in Good PROVE n + 1 \in Good
  <2> SUFFICES ASSUME n + 2 <= N PROVE it[n + 1] = Len(t[n + 1])
    BY <1>1
  <2> DEFINE o == Len(t[n])
  <2>1. n + 1 \in 0..(N - 1) /\ n + 1 # 0 /\ (n + 1) - 1 = n /\ n + 1 \in 1..N /\ n + 1 <= N
        /\ n \in 0..N
    BY <1>1
  <2>2. it[n] = o /\ o \in Nat /\ lengths[n + 1] \in Nat
    BY <1>1, <1>6, <2>1
  <2>3. /\ Len(t[n + 1]) = o + 1 + lengths[n + 1] /\ words[o + 1] = lengths[n + 1]
        /\ o + 1 + lengths[n + 1] + (N - (n + 1)) <= Len(words)
    BY <1>4, <2>1
  <2>4. it[n + 1] = LoadStep(it, words, n + 1)
    BY <1>2, <2>1
  <2> HIDE DEF o, words
  <2>5. ~(o >= end)
    <3>1. \A a, l, w, d \in Nat : d >= 1 /\ a + 1 + l + d <= w => ~(a >= w - 1)
      OBVIOUS
    <3>2. N - (n + 1) \in Nat /\ N - (n + 1) >= 1
      BY <1>1
    <3>3. QED  BY <1>1, <2>2, <2>3, <3>1, <3>2
  <2>6. it[n + 1] = o + 1 + words[o + 1]
    BY <2>1, <2>2, <2>4, <2>5 DEF LoadStep
  <2>7. QED  BY <2>3, <2>6
<1>7. Nat \subseteq Good
  <2> HIDE DEF Good
  <2>1. QED  BY <1>5, <1>6, NumberInduction
<1> DEFINE at == it[i - 1]
           l == lengths[i]
<1>8. TableEntry(N + (i - 1)) = i - 1
  <2>1. \A n \in Nat \ {0}, k \in Nat : k < n => (n + k) % n = k
    <3> TAKE n \in Nat \ {0}, k \in Nat
    <3> HAVE k < n
    <3>1. n + k = n * 1 + k
      OBVIOUS
    <3>2. QED  BY <3>1
  <2>2. i - 1 \in Nat /\ i - 1 < N
    BY <1>1
  <2>3. QED  BY <1>1, <2>1, <2>2 DEF TableEntry
<1>9. /\ at \in Nat /\ l \in Nat /\ words[at + 1] = l
      /\ at + 1 + l + (N - i) <= Len(words)
      /\ \A k \in 1..l : words[at + 1 + k] = Letters(i, l)[k]
  <2>1. i - 1 \in Nat /\ (i - 1) + 1 <= N /\ i - 1 \in 0..N
    BY <1>1
  <2>2. at = Len(t[i - 1])
    BY <1>7, <2>1
  <2>3. at \in Nat /\ l \in Nat
    BY <1>1, <2>1, <2>2
  <2>4. QED  BY <1>4, <2>2, <2>3
<1>10. LoadString(words, N + (i - 1)) =
         IF at >= end THEN <<>> ELSE SubSeq(words, at + 2, at + 1 + words[at + 1])
  BY <1>8, LoadingIs DEF it
<1>11. Letters(i, l) \in Seq(Nat) /\ Len(Letters(i, l)) = l
  BY <1>1, <1>9, LettersAre
<1> DEFINE y == Letters(i, l)
<1> HIDE DEF at, l, y, words, N
<1>12. CASE at >= end
  <2>1. l = 0
    BY <1>1, <1>9, <1>12 DEF N
  <2>2. y = <<>>
    BY <1>11, <2>1 DEF y
  <2>3. QED  BY <1>10, <1>12, <2>2 DEF words, N, t, l, y
<1>13. CASE ~(at >= end)
  <2> DEFINE z == SubSeq(words, at + 2, at + 1 + l)
  <2>1. /\ at + 2 \in 1..(Len(words) + 1) /\ at + 1 + l <= Len(words)
        /\ at + 1 + l >= (at + 2) - 1 /\ (at + 1 + l) - (at + 2) + 1 = l
    BY <1>1, <1>9 DEF N
  <2>2. /\ z \in Seq(Nat) /\ Len(z) = l
        /\ \A k \in 1..l : z[k] = words[(at + 2) + k - 1]
    <3> DEFINE from == at + 2
               to == at + 1 + l
    <3>1. ASSUME NEW k \in from..to PROVE words[k] \in Nat
      <4>1. k \in 1..Len(words)
        BY <1>1, <1>9, <2>1
      <4>2. QED  BY <1>1, <4>1, ElementOfSeq
    <3>2. from \in Int /\ to \in Int /\ to - from + 1 = l /\ l \in Nat
          /\ (from <= to => to - from + 1 = l) /\ (~(from <= to) => l = 0)
      BY <1>9, <2>1
    <3>3. z = SubSeq(words, from, to)
      OBVIOUS
    <3> HIDE DEF from, to, z
    <3>4. /\ z \in Seq(Nat) /\ Len(z) = IF from <= to THEN to - from + 1 ELSE 0
          /\ \A k \in 1..(to - from + 1) : z[k] = words[from + k - 1]
      BY <3>1, <3>2, <3>3, SubSeqProperties
    <3>5. QED  BY <3>2, <3>4 DEF from
  <2> HIDE DEF z
  <2>3. ASSUME NEW k \in 1..l PROVE z[k] = y[k]
    <3>1. (at + 2) + k - 1 = at + 1 + k
      BY <1>9
    <3>2. QED  BY <1>9, <2>2, <3>1 DEF y
  <2>4. z = y
    <3>1. y \in Seq(Nat) /\ Len(y) = l
      BY <1>11 DEF y
    <3>2. QED  BY <2>2, <2>3, <3>1
  <2>5. LoadString(words, N + (i - 1)) = z
    BY <1>9, <1>10, <1>13 DEF z
  <2>6. QED  BY <2>4, <2>5 DEF words, N, t, l, y
<1>14. QED  BY <1>12, <1>13

-----------------------------------------------------------------------------
(* A number of two digits compares digit by digit.                         *)
LEMMA DigitByDigit ==
  ASSUME NEW P \in Nat \ {0}, NEW a \in Nat, NEW b \in Nat, NEW x \in 0..(P - 1), NEW y \in 0..(P - 1)
  PROVE  /\ a * P + x \in Nat
         /\ a * P + x > b * P + y <=> a > b \/ (a = b /\ x > y)
<1>1. a * P \in Nat /\ b * P \in Nat
  OBVIOUS
<1>2. ASSUME NEW c \in Nat, NEW d \in Nat, c > d PROVE c * P >= d * P + P
  <2>1. (c - d) \in Nat /\ c - d >= 1
    BY <1>2
  <2>2. (c - d) * P >= P
    BY <2>1
  <2>3. (c - d) * P = c * P - d * P
    OBVIOUS
  <2>4. c * P \in Nat /\ d * P \in Nat
    OBVIOUS
  <2>5. QED  BY <2>2, <2>3, <2>4
<1>3. CASE a > b
  <2>1. a * P >= b * P + P
    BY <1>2, <1>3
  <2>2. QED  BY <1>1, <1>3, <2>1
<1>4. CASE a = b
  BY <1>1, <1>4
<1>5. CASE b > a
  <2>1. b * P >= a * P + P
    BY <1>2, <1>5
  <2>2. QED  BY <1>1, <1>5, <2>1
<1>6. QED  BY <1>3, <1>4, <1>5

LEMMA VersionsCompare ==
  ASSUME NEW n \in Parts \X Parts \X Parts, NEW o \in Parts \X Parts \X Parts
  PROVE  (AsNumber(n) > AsNumber(o)) = PartByPart(n, o)
<1> DEFINE P == PartMod
           hi(v) == v[1] * P + v[2]
<1>1. P \in Nat \ {0}
  BY CodecAssumption
<1>2. ASSUME NEW v \in Parts \X Parts \X Parts
      PROVE  /\ v[1] \in 0..(P - 1) /\ v[2] \in 0..(P - 1) /\ v[3] \in 0..(P - 1)
             /\ hi(v) \in Nat /\ AsNumber(v) = hi(v) * P + v[3]
  <2>1. v[1] \in 0..(P - 1) /\ v[2] \in 0..(P - 1) /\ v[3] \in 0..(P - 1)
    BY DEF Parts
  <2>2. \A a, b, c \in Nat : a * P * P + b * P + c = (a * P + b) * P + c
    BY <1>1
  <2>3. hi(v) \in Nat
    BY <1>1, <2>1
  <2>4. v[1] \in Nat /\ v[2] \in Nat /\ v[3] \in Nat
    BY <1>1, <2>1
  <2>5. QED  BY <2>1, <2>2, <2>3, <2>4 DEF AsNumber
<1> HIDE DEF P
<1>3. ASSUME NEW v \in Parts \X Parts \X Parts, NEW w \in Parts \X Parts \X Parts
      PROVE  hi(v) > hi(w) <=> v[1] > w[1] \/ (v[1] = w[1] /\ v[2] > w[2])
  <2>1. /\ v[1] \in Nat /\ w[1] \in Nat
        /\ v[2] \in 0..(P - 1) /\ w[2] \in 0..(P - 1)
    BY <1>1, <1>2
  <2>2. QED  BY <1>1, <2>1, DigitByDigit
<1>4. /\ hi(n) > hi(o) <=> n[1] > o[1] \/ (n[1] = o[1] /\ n[2] > o[2])
      /\ hi(o) > hi(n) <=> o[1] > n[1] \/ (o[1] = n[1] /\ o[2] > n[2])
  BY <1>3, Zenon
<1> HIDE DEF hi
<1>5. hi(n) = hi(o) <=> n[1] = o[1] /\ n[2] = o[2]
  <2>1. \A i, j \in Nat : i = j <=> ~(i > j) /\ ~(j > i)
    OBVIOUS
  <2>2. /\ hi(n) \in Nat /\ hi(o) \in Nat /\ n[1] \in Nat /\ n[2] \in Nat
        /\ o[1] \in Nat /\ o[2] \in Nat
    BY <1>1, <1>2
  <2>3. QED  BY <1>4, <2>1, <2>2
<1>6. hi(n) * P + n[3] > hi(o) * P + o[3] <=> hi(n) > hi(o) \/ (hi(n) = hi(o) /\ n[3] > o[3])
  BY <1>1, <1>2, DigitByDigit
<1>7. AsNumber(n) > AsNumber(o) <=> PartByPart(n, o)
  BY <1>2, <1>4, <1>5, <1>6 DEF PartByPart
<1>8. (AsNumber(n) > AsNumber(o)) \in BOOLEAN /\ PartByPart(n, o) \in BOOLEAN
  BY DEF PartByPart
<1>9. QED  BY <1>7, <1>8

(* A path made long ends with the path, and is not made longer again.      *)
LEMMA LongPaths ==
  ASSUME NEW file \in Seq(Nat)
  PROVE  LET long == MakePathLongCompatible(file)
         IN  MakePathLongCompatible(long) = long /\ IsSuffix(file, long)
<1> DEFINE long == MakePathLongCompatible(file)
<1>1. LongPrefix \in Seq(Nat) /\ Len(LongPrefix) = 4
      /\ LongPrefix[1] = Backslash /\ LongPrefix[2] = Backslash
  BY DEF LongPrefix, Backslash
<1>2. ASSUME NEW s \in Seq(Nat), Len(s) >= 2
      PROVE  SubSeq(s, 1, 2) = <<s[1], s[2]>>
  <2> DEFINE z == SubSeq(s, 1, 2)
  <2>1. \A k \in 1..2 : s[k] \in Nat
    BY <1>2, ElementOfSeq
  <2>2. z \in Seq(Nat) /\ Len(z) = 2 /\ \A k \in 1..2 : z[k] = s[1 + k - 1]
    BY <2>1, SubSeqProperties
  <2> HIDE DEF z
  <2>3. z[1] = s[1] /\ z[2] = s[2]
    BY <2>2
  <2>4. z = <<s[1], s[2]>>
    BY <2>2, <2>3
  <2>5. QED  BY <2>4 DEF z
<1>3. CASE long = file
  <2>1. MakePathLongCompatible(long) = long
    BY <1>3
  <2>2. IsSuffix(file, file)
    BY DEF IsSuffix, IsPrefix
  <2>3. QED  BY <1>3, <2>1, <2>2
<1>4. CASE long # file
  <2>1. long = LongPrefix \o file
    BY <1>4 DEF MakePathLongCompatible
  <2> HIDE DEF long
  <2>2. long \in Seq(Nat) /\ Joins(long, LongPrefix, file)
    BY <1>1, <2>1, ConcatIs
  <2> DEFINE n == Len(file)
  <2>3. /\ n \in Nat /\ Len(long) = n + 4
        /\ long[1] = Backslash /\ long[2] = Backslash
        /\ \A k \in 1..n : long[4 + k] = file[k]
    BY <1>1, <2>2 DEF Joins
  <2>4. SubSeq(long, 1, 2) = <<Backslash, Backslash>> /\ ~(Len(long) < 2)
    BY <1>2, <2>2, <2>3
  <2>5. MakePathLongCompatible(long) = long
    BY <2>4 DEF MakePathLongCompatible
  <2> DEFINE r == Reverse(long)
             s == Reverse(file)
  <2> HIDE DEF n
  <2>6. /\ r \in Seq(Nat) /\ Len(r) = n + 4
        /\ \A k \in 1..(n + 4) : r[k] = long[((n + 4) - k) + 1]
    <3> DEFINE N == n + 4
               At(k) == long[(N - k) + 1]
    <3>1. N \in Nat /\ N = Len(long)
      BY <2>3
    <3>2. r = [k \in 1..N |-> At(k)]
      BY <3>1 DEF Reverse
    <3>3. ASSUME NEW k \in 1..N PROVE At(k) \in Nat
      <4>1. (N - k) + 1 \in 1..Len(long)
        BY <3>1
      <4>2. QED  BY <2>2, <4>1, ElementOfSeq
    <3> HIDE DEF N, r
    <3>4. \A k \in 1..N : r[k] = At(k)
      BY <3>2
    <3> HIDE DEF At
    <3>5. r \in Seq(Nat) /\ Len(r) = N
      BY <3>1, <3>2, <3>3
    <3>6. QED  BY <3>4, <3>5 DEF N, At
  <2>7. /\ s \in Seq(Nat) /\ Len(s) = n /\ \A k \in 1..n : s[k] = file[(n - k) + 1]
    <3> DEFINE At(k) == file[(n - k) + 1]
    <3>1. s = [k \in 1..n |-> At(k)]
      BY DEF Reverse, n
    <3>2. ASSUME NEW k \in 1..n PROVE At(k) \in Nat
      <4>1. (n - k) + 1 \in 1..Len(file)
        BY <2>3 DEF n
      <4>2. QED  BY <4>1, ElementOfSeq
    <3> HIDE DEF s
    <3>3. \A k \in 1..n : s[k] = At(k)
      BY <3>1
    <3> HIDE DEF At
    <3>4. s \in Seq(Nat) /\ Len(s) = n
      BY <2>3, <3>1, <3>2
    <3>5. QED  BY <3>3, <3>4 DEF At
  <2> HIDE DEF r, s
  <2>8. ASSUME NEW k \in 1..n PROVE r[k] = s[k]
    <3>1. /\ k \in 1..(n + 4) /\ ((n + 4) - k) + 1 = 4 + ((n - k) + 1)
          /\ (n - k) + 1 \in 1..n
      BY <2>3
    <3>2. QED  BY <2>3, <2>6, <2>7, <3>1, SMTT(30)
  <2>9. IsPrefix(s, r)
    <3>1. n <= n + 4 /\ SubSeq(s, 1, n) = s
      BY <2>3, <2>7, SubSeqFull
    <3>2. SubSeq(r, 1, n) = s
      <4>1. /\ SubSeq(r, 1, n) \in Seq(Nat) /\ Len(SubSeq(r, 1, n)) = n
            /\ \A k \in 1..n : SubSeq(r, 1, n)[k] = r[k]
        BY <2>3, <2>6
      <4> DEFINE q == SubSeq(r, 1, n)
      <4> HIDE DEF q
      <4>2. q = s
        BY <2>7, <2>8, <4>1 DEF q
      <4>3. QED  BY <4>2 DEF q
    <3>3. QED  BY <2>6, <2>7, <3>1, <3>2 DEF IsPrefix
  <2>10. IsSuffix(file, long)
    BY <2>9 DEF IsSuffix, r, s
  <2>11. QED  BY <2>5, <2>10 DEF long
<1>5. QED  BY <1>3, <1>4

-----------------------------------------------------------------------------
InputsFit ==
  /\ job \in {"hash", "text", "table", "versions"}
  /\ job = "hash" => input \in Seq(0..255) /\ 3 * Len(input) < SizeMod
  /\ job = "text" => input \in Seq(Nat) /\ Len(input) < SizeMod
  /\ job = "table" => input \in [1..TableSize -> Nat]
  /\ job = "versions" => input \in [{"old", "new"} -> Parts \X Parts \X Parts]

LEMMA BoundedSeqIs ==
  ASSUME NEW S, NEW n \in Nat, NEW s \in BoundedSeq(S, n)
  PROVE  s \in Seq(S) /\ Len(s) <= n
<1>1. PICK m \in 0..n : s \in [1..m -> S]
  BY DEF BoundedSeq, SeqOf
<1>2. m \in Nat /\ m <= n
  BY <1>1
<1>3. s \in Seq(S) /\ Len(s) = m
  BY <1>1, <1>2
<1>4. QED  BY <1>2, <1>3

LEMMA InputsFitFirst == CodecInit => InputsFit /\ result = <<>>
<1> SUFFICES ASSUME CodecInit PROVE InputsFit /\ result = <<>>
  OBVIOUS
<1>0. result = <<>>
  BY DEF CodecInit
<1>1. CASE job = "hash" /\ input \in BoundedSeq(Bytes, MaxBytes)
  <2>1. input \in Seq(Bytes) /\ Len(input) <= MaxBytes
    BY <1>1, InputsAssumption, BoundedSeqIs
  <2>2. input \in Seq(0..255)
    <3>1. Bytes \subseteq 0..255
      BY InputsAssumption
    <3>2. \A S : Bytes \subseteq S => input \in Seq(S)
      BY <2>1, SeqMonotonic
    <3>3. QED  BY <3>1, <3>2
  <2>3. 3 * Len(input) < SizeMod
    <3>1. Len(input) \in Nat /\ MaxBytes \in Nat /\ 3 * MaxBytes < SizeMod /\ SizeMod \in Nat
      BY <2>1, InputsAssumption, CodecAssumption
    <3>2. QED  BY <2>1, <3>1
  <2>4. QED  BY <1>0, <1>1, <2>2, <2>3 DEF InputsFit
<1>2. CASE job = "text" /\ input \in BoundedSeq(Chars, MaxChars)
  <2>1. input \in Seq(Chars) /\ Len(input) <= MaxChars
    BY <1>2, InputsAssumption, BoundedSeqIs
  <2>2. input \in Seq(Nat)
    <3>1. Chars \subseteq Nat
      BY InputsAssumption
    <3>2. QED  BY <2>1, <3>1, SeqMonotonic
  <2>3. Len(input) < SizeMod
    <3>1. Len(input) \in Nat /\ MaxChars \in Nat /\ MaxChars < SizeMod /\ SizeMod \in Nat
      BY <2>1, InputsAssumption, CodecAssumption
    <3>2. QED  BY <2>1, <3>1
  <2>4. QED  BY <1>0, <1>2, <2>2, <2>3 DEF InputsFit
<1>3. CASE job = "table" /\ input \in [1..TableSize -> TableWords]
  <2>1. TableWords \subseteq Nat
    BY InputsAssumption
  <2>2. input \in [1..TableSize -> Nat]
    BY <1>3, <2>1
  <2>3. QED  BY <1>0, <1>3, <2>2 DEF InputsFit
<1>4. CASE job = "versions" /\ input \in [{"old", "new"} -> Parts \X Parts \X Parts]
  BY <1>0, <1>4 DEF InputsFit
<1>5. QED  BY <1>1, <1>2, <1>3, <1>4 DEF CodecInit

(* The call of a job computes what ConversionsInvert says of it.           *)
LEMMA CallInverts ==
  ASSUME InputsFit, Call
  PROVE  InputsFit' /\ ConversionsInvert'
<1>1. result = <<>> /\ job' = job /\ input' = input
  BY DEF Call
<1>2. InputsFit'
  BY <1>1 DEF InputsFit
<1>3. ASSUME job = "hash" PROVE HexReadBack' /\ Base64ReadBack'
  <2>1. result' = <<[hex |-> [u \in BOOLEAN |-> HashBytesToString(input, u)],
                     base64 |-> Encode(input)]>>
    BY <1>3 DEF Call
  <2>2. /\ \A u \in BOOLEAN : result'[1].hex[u] = HashBytesToString(input, u)
        /\ result'[1].base64 = Encode(input)
    BY <2>1
  <2>3. input \in Seq(0..255) /\ 3 * Len(input) < SizeMod
    BY <1>3 DEF InputsFit
  <2>4. ASSUME NEW u \in BOOLEAN, NEW blanks \in BOOLEAN, NEW o \in {<<>>, <<48, 48>>}, input # <<>>
        PROVE  LET text == result'[1].hex[u]
                   spaced == [k \in 1..(3 * Len(input)) |->
                                IF k % 3 = 1 THEN Blank ELSE text[k - (k + 2) \div 3]]
               IN  HashStringToBytes(IF blanks THEN spaced ELSE text, o) = input
    <3> DEFINE text == result'[1].hex[u]
               spaced == [k \in 1..(3 * Len(input)) |->
                            IF k % 3 = 1 THEN Blank ELSE text[k - (k + 2) \div 3]]
    <3>1. text = HashBytesToString(input, u)
      BY <2>2
    <3>2. spaced = Spaced(HashBytesToString(input, u), Len(input))
      BY <3>1 DEF Spaced
    <3> HIDE DEF text, spaced
    <3>6. o \in Seq(Nat)
      <4>1. <<>> \in Seq(Nat) /\ <<48, 48>> \in Seq(Nat)
        OBVIOUS
      <4>2. o = <<>> \/ o = <<48, 48>>
        OBVIOUS
      <4>3. QED  BY <4>1, <4>2
    <3>3. HashStringToBytes(text, o) = input /\ HashStringToBytes(spaced, o) = input
      BY <2>3, <2>4, <3>1, <3>2, <3>6, HexReadsBack
    <3>4. HashStringToBytes(IF blanks THEN spaced ELSE text, o) = input
      BY <3>3
    <3>5. QED  BY <3>4 DEF text, spaced
  <2>5. HexReadBack'
    BY <1>1, <2>4 DEF HexReadBack
  <2>6. Base64ReadBack'
    BY <1>1, <2>2, <2>3, Base64ReadsBack DEF Base64ReadBack
  <2>7. QED  BY <2>5, <2>6
<1>4. ASSUME job = "table"
      PROVE  \A i \in 1..TableSize : result'[1][i - 1] = Letters(i, input[i])
  <2>1. result' = <<[i \in 0..(TableSize - 1) |-> LoadString(TableOf(input)[TableSize], TableSize + i)]>>
    BY <1>4 DEF Call
  <2>2. input \in [1..TableSize -> Nat]
    BY <1>4 DEF InputsFit
  <2>3. ASSUME NEW i \in 1..TableSize PROVE result'[1][i - 1] = Letters(i, input[i])
    <3>1. i - 1 \in 0..(TableSize - 1)
      BY CodecAssumption
    <3>2. result'[1][i - 1] = LoadString(TableOf(input)[TableSize], TableSize + (i - 1))
      BY <2>1, <3>1
    <3>3. QED  BY <2>2, <3>2, LoadsEach
  <2>4. QED  BY <2>3
<1>5. ASSUME job = "versions" PROVE result'[1] = PartByPart(input["new"], input["old"])
  <2>1. result' = <<AsNumber(input["new"]) > AsNumber(input["old"])>>
    BY <1>5 DEF Call
  <2>2. /\ input["new"] \in Parts \X Parts \X Parts
        /\ input["old"] \in Parts \X Parts \X Parts
    BY <1>5 DEF InputsFit
  <2>3. (AsNumber(input["new"]) > AsNumber(input["old"])) = PartByPart(input["new"], input["old"])
    BY <2>2, VersionsCompare
  <2>4. QED  BY <2>1, <2>3
<1>6. ASSUME job = "text"
      PROVE  /\ MakePathLongCompatible(result'[1].path) = result'[1].path
             /\ IsSuffix(input, result'[1].path)
  <2>1. result' = <<[bytes |-> HashStringToBytes(input, <<>>),
                     path |-> MakePathLongCompatible(input)]>>
    BY <1>6 DEF Call
  <2>2. result'[1].path = MakePathLongCompatible(input)
    BY <2>1
  <2>3. input \in Seq(Nat)
    BY <1>6 DEF InputsFit
  <2>4. QED  BY <2>2, <2>3, LongPaths
<1>7. ConversionsInvert'
  BY <1>1, <1>3, <1>4, <1>5, <1>6 DEF ConversionsInvert, Called
<1>8. QED  BY <1>2, <1>7

(* What was written is read as what it was: ConversionsInvert, for every   *)
(* hash, text, table and version number (utl.cpp, base64.cpp).             *)
THEOREM ConversionsInvertAlways == CodecSpec => []ConversionsInvert
<1> DEFINE Inv == InputsFit /\ ConversionsInvert
<1>1. CodecInit => Inv
  BY InputsFitFirst DEF ConversionsInvert, Called
<1>2. Inv /\ [CodecNext]_codecVars => Inv'
  <2> SUFFICES ASSUME Inv, [CodecNext]_codecVars PROVE Inv'
    OBVIOUS
  <2>1. CASE CodecNext
    BY <2>1, CallInverts DEF CodecNext
  <2>2. CASE UNCHANGED codecVars
    BY <2>2, ZenonT(40) DEF codecVars, InputsFit, ConversionsInvert, Called, HexReadBack, Base64ReadBack
  <2>3. QED  BY <2>1, <2>2
<1>3. QED  BY <1>1, <1>2, PTL DEF CodecSpec

-----------------------------------------------------------------------------
(* A text means its pairs.  First: what stands behind it does not matter   *)
(* when it begins with no digit.                                           *)
Pair(str, j, rest) ==
  IF j + 2 > Len(str) \/ Unhex(str[j + 1]) = 255 \/ Unhex(str[j + 2]) = 255 \/ rest = Invalid
  THEN Invalid ELSE <<Unhex(str[j + 1]) * 16 + Unhex(str[j + 2])>> \o rest

NoDigitBehind(str, o) == Unhex(Char(str, Len(str), o)) = 255

LEMMA PairRead ==
  ASSUME NEW str \in Seq(Nat), Len(str) < SizeMod, str # <<>>, NEW o \in Seq(Nat),
         NoDigitBehind(str, o), NEW i \in Nat, i < Len(str) - 1
  PROVE  \A g : ParseStep(g, str, o, i) =
                 Pair(str, SkipBlanks(str, i, o), g[SkipBlanks(str, i, o) + 2])
<1> TAKE g
<1> DEFINE j == SkipBlanks(str, i, o)
<1>1. Bound(str) = Len(str) - 1 /\ Len(str) \in Nat
  BY BoundIs
<1>2. j \in i..(Len(str) - 1)
  <2>1. i \in 0..(Len(str) - 1)
    BY <1>1
  <2>2. QED  BY <2>1, SkipIs
<1> DEFINE a == Unhex(Char(str, j, o))
           c == Unhex(Char(str, j + 1, o))
           rest == g[j + 2]
<1>3. ParseStep(g, str, o, i) =
        IF a = 255 \/ c = 255 \/ rest = Invalid THEN Invalid ELSE <<a * 16 + c>> \o rest
  <2>1. ~(i >= Bound(str) \/ i > End(str, o))
    BY <1>1, EndIs
  <2>2. QED  BY <2>1 DEF ParseStep
<1> HIDE DEF j, a, c, rest
<1>4. a = Unhex(str[j + 1])
  <2>1. Char(str, j, o) = str[j + 1]
    BY <1>1, <1>2 DEF Char
  <2>2. QED  BY <2>1 DEF a
<1>5. CASE j + 2 > Len(str)
  <2>1. j + 1 = Len(str)
    BY <1>1, <1>2, <1>5
  <2>3. c = 255
    BY <2>1 DEF c, NoDigitBehind
  <2>4. ParseStep(g, str, o, i) = Invalid /\ Pair(str, j, rest) = Invalid
    BY <1>3, <1>5, <2>3 DEF Pair
  <2>5. QED  BY <2>4 DEF j, rest
<1>6. CASE ~(j + 2 > Len(str))
  <2>1. j + 1 < Len(str) /\ (j + 1) + 1 = j + 2
    BY <1>1, <1>2, <1>6
  <2>2. Char(str, j + 1, o) = str[j + 2]
    BY <2>1 DEF Char
  <2>3. c = Unhex(str[j + 2])
    BY <2>2 DEF c
  <2>4. ParseStep(g, str, o, i) = Pair(str, j, rest)
    BY <1>3, <1>4, <1>6, <2>3 DEF Pair
  <2>5. QED  BY <2>4 DEF j, rest
<1>7. QED  BY <1>5, <1>6

LEMMA SkipsAlike ==
  ASSUME NEW str \in Seq(Nat), Len(str) < SizeMod, NEW i \in 0..(Len(str) - 1),
         NEW o \in Seq(Nat), NEW q \in Seq(Nat)
  PROVE  SkipBlanks(str, i, o) = SkipBlanks(str, i, q)
<1> DEFINE j == SkipBlanks(str, i, o)
           k == SkipBlanks(str, i, q)
<1>1. /\ j \in i..(Len(str) - 1) /\ (j = Len(str) - 1 \/ str[j + 1] # Blank)
      /\ \A m \in i..(j - 1) : str[m + 1] = Blank
  BY SkipIs
<1>2. /\ k \in i..(Len(str) - 1) /\ (k = Len(str) - 1 \/ str[k + 1] # Blank)
      /\ \A m \in i..(k - 1) : str[m + 1] = Blank
  BY SkipIs
<1> HIDE DEF j, k
<1>3. ~(j < k)
  <2> SUFFICES ASSUME j < k PROVE FALSE
    OBVIOUS
  <2>1. j \in i..(k - 1) /\ j # Len(str) - 1
    BY <1>1, <1>2
  <2>2. QED  BY <1>1, <1>2, <2>1
<1>4. ~(k < j)
  <2> SUFFICES ASSUME k < j PROVE FALSE
    OBVIOUS
  <2>1. k \in i..(j - 1) /\ k # Len(str) - 1
    BY <1>1, <1>2
  <2>2. QED  BY <1>1, <1>2, <2>1
<1>5. j = k
  BY <1>1, <1>2, <1>3, <1>4
<1>6. QED  BY <1>5 DEF j, k

(* The walk over an empty text ends with an invalid digit only, wherever   *)
(* that is: at last the zero behind what is outside.                       *)
LEMMA EmptyText ==
  ASSUME NEW str \in Seq(Nat), Len(str) = 0, NEW o \in Seq(Nat), Len(o) + 1 < SizeMod
  PROVE  HashStringToBytes(str, o) = <<>>
<1> DEFINE P == Parsing(str, o)
           E == End(str, o)
           Good == {m \in Nat : \A i \in 0..E : i + m >= E => P[i] = Invalid}
<1>1. \A i \in 0..(E + 2) : P[i] = ParseStep(P, str, o, i)
  BY ParseUnfolds
<1>2. E \in Nat /\ Char(str, E, o) = 0 /\ E + 1 < SizeMod
  <2>1. E = Len(o)
    BY DEF End
  <2>2. QED  BY <2>1, EndIs
<1>3. \A i \in 0..E : i < Bound(str)
  <2>1. (0 - 1) % SizeMod = SizeMod - 1
    <3>1. SizeMod \in Nat /\ SizeMod > 1
      BY <1>2, CodecAssumption
    <3>2. SizeMod - 1 \in 0..(SizeMod - 1) /\ 0 - 1 = SizeMod * (-1) + (SizeMod - 1)
      BY <3>1
    <3>3. QED  BY <3>1, <3>2
  <2>2. Bound(str) = SizeMod - 1
    BY <2>1 DEF Bound
  <2>3. SizeMod \in Nat
    BY CodecAssumption
  <2>4. QED  BY <1>2, <2>2, <2>3
<1>4. \A i \in 0..E : SkipBlanks(str, i, o) \in i..E
  BY SkipsOn
<1> HIDE DEF P, E
<1>5. Unhex(0) = 255
  BY DEF Unhex
<1>6. ASSUME NEW i \in 0..E,
             \A j \in 0..E : j >= i + 2 => P[j] = Invalid
      PROVE  P[i] = Invalid
  <2> DEFINE j == SkipBlanks(str, i, o)
             a == Unhex(Char(str, j, o))
             b == Unhex(Char(str, j + 1, o))
             rest == P[j + 2]
  <2>1. P[i] = IF a = 255 \/ b = 255 \/ rest = Invalid THEN Invalid
               ELSE <<a * 16 + b>> \o rest
    <3>1. P[i] = ParseStep(P, str, o, i)
      BY <1>1, <1>2
    <3>2. ~(i >= Bound(str) \/ i > E)
      <4>1. Bound(str) \in Int
        BY CodecAssumption DEF Bound
      <4>2. QED  BY <1>2, <1>3, <4>1
    <3>3. QED  BY <3>1, <3>2 DEF ParseStep, E
  <2>2. j \in i..E
    BY <1>4
  <2> HIDE DEF j
  <2>3. CASE j = E
    BY <1>2, <1>5, <2>1, <2>3
  <2>4. CASE j + 1 = E
    BY <1>2, <1>5, <2>1, <2>4
  <2>5. CASE j + 2 <= E
    <3>1. j + 2 \in 0..E /\ j + 2 >= i + 2
      BY <1>2, <2>2, <2>5
    <3>2. QED  BY <1>6, <2>1, <3>1
  <2>6. QED  BY <1>2, <2>2, <2>3, <2>4, <2>5
<1>7. 0 \in Good
  <2>1. ASSUME NEW i \in 0..E, i + 0 >= E PROVE P[i] = Invalid
    <3>1. \A j \in 0..E : ~(j >= i + 2)
      BY <1>2, <2>1
    <3>2. QED  BY <1>6, <3>1
  <2>2. QED  BY <2>1
<1>8. ASSUME NEW m \in Nat, m \in Good PROVE m + 1 \in Good
  <2>1. ASSUME NEW i \in 0..E, i + (m + 1) >= E PROVE P[i] = Invalid
    <3>1. ASSUME NEW j \in 0..E, j >= i + 2 PROVE P[j] = Invalid
      <4>1. j + m >= E
        BY <1>2, <2>1, <3>1
      <4>2. QED  BY <1>8, <4>1
    <3>2. QED  BY <1>6, <3>1
  <2>2. QED  BY <2>1
<1>9. Nat \subseteq Good
  <2> HIDE DEF Good
  <2>1. QED  BY <1>7, <1>8, NumberInduction
<1>10. P[0] = Invalid
  <2>1. E \in Good
    <3> HIDE DEF Good
    <3>1. QED  BY <1>2, <1>9
  <2>2. 0 \in 0..E /\ 0 + E >= E
    BY <1>2
  <2>3. QED  BY <2>1, <2>2
<1>11. QED  BY <1>10, ParsingIs DEF P

LEMMA OutsideIrrelevant ==
  ASSUME NEW str \in Seq(Nat), Len(str) < SizeMod, NEW o \in Seq(Nat), NEW q \in Seq(Nat),
         Len(o) + 1 < SizeMod, Len(q) + 1 < SizeMod,
         str = <<>> \/ (NoDigitBehind(str, o) /\ NoDigitBehind(str, q))
  PROVE  HashStringToBytes(str, o) = HashStringToBytes(str, q)
<1>1. CASE str = <<>>
  <2>1. Len(str) = 0
    BY <1>1
  <2>2. HashStringToBytes(str, o) = <<>> /\ HashStringToBytes(str, q) = <<>>
    BY <2>1, EmptyText
  <2>3. QED  BY <2>2
<1>2. CASE str # <<>>
  <2>0. NoDigitBehind(str, o) /\ NoDigitBehind(str, q)
    BY <1>2
  <2> DEFINE N == Len(str)
             f == Parsing(str, o)
             h == Parsing(str, q)
             Good == {m \in Nat : \A i \in 0..N : i + m >= N => f[i] = h[i]}
  <2>1. /\ N \in Nat /\ Bound(str) = N - 1
        /\ \A i \in 0..N : f[i] = ParseStep(f, str, o, i) /\ h[i] = ParseStep(h, str, q, i)
    <3>1. Bound(str) = N - 1 /\ N \in Nat
      BY <1>2, BoundIs
    <3>2. \A i \in 0..(End(str, o) + 2) : f[i] = ParseStep(f, str, o, i)
      BY ParseUnfolds
    <3>3. \A i \in 0..(End(str, q) + 2) : h[i] = ParseStep(h, str, q, i)
      BY ParseUnfolds
    <3> HIDE DEF f, h
    <3>4. \A i \in 0..N : i \in 0..(End(str, o) + 2) /\ i \in 0..(End(str, q) + 2)
      <4>1. End(str, o) \in Nat /\ End(str, o) >= Len(str)
        BY EndIs
      <4>2. End(str, q) \in Nat /\ End(str, q) >= Len(str)
        BY EndIs
      <4>3. QED  BY <3>1, <4>1, <4>2
    <3>5. QED  BY <3>1, <3>2, <3>3, <3>4
  <2> HIDE DEF f, h
  <2>2. ASSUME NEW i \in 0..N, i >= N - 1 PROVE f[i] = <<>> /\ h[i] = <<>>
    <3>1. i >= Bound(str)
      BY <2>1, <2>2
    <3>2. QED  BY <2>1, <3>1 DEF ParseStep
  <2>3. 0 \in Good
    <3>1. ASSUME NEW i \in 0..N, i + 0 >= N PROVE f[i] = h[i]
      <4>1. i >= N - 1
        BY <2>1, <3>1
      <4>2. QED  BY <2>2, <4>1
    <3>2. QED  BY <3>1
  <2>4. ASSUME NEW m \in Nat, m \in Good PROVE m + 1 \in Good
    <3>1. ASSUME NEW i \in 0..N, i + (m + 1) >= N PROVE f[i] = h[i]
      <4>1. CASE i >= N - 1
        BY <2>2, <4>1
      <4>2. CASE ~(i >= N - 1)
        <5> DEFINE j == SkipBlanks(str, i, o)
        <5>1. i \in Nat /\ i < Len(str) - 1 /\ j \in i..(Len(str) - 1)
          <6>1. i \in Nat /\ i < Len(str) - 1 /\ i \in 0..(Len(str) - 1)
            BY <2>1, <4>2
          <6>2. QED  BY <6>1, SkipIs
        <5>2. f[i] = Pair(str, j, f[j + 2])
          BY <1>2, <2>0, <2>1, <5>1, PairRead
        <5>3. h[i] = Pair(str, j, h[j + 2])
          <6>1. SkipBlanks(str, i, q) = j
            <7>1. i \in 0..(Len(str) - 1)
              BY <5>1
            <7>2. QED  BY <7>1, SkipsAlike
          <6>2. ParseStep(h, str, q, i) =
                  Pair(str, SkipBlanks(str, i, q), h[SkipBlanks(str, i, q) + 2])
            BY <1>2, <2>0, <5>1, PairRead
          <6>3. QED  BY <2>1, <6>1, <6>2
        <5> HIDE DEF j
        <5>4. CASE j + 2 > Len(str)
          BY <5>2, <5>3, <5>4 DEF Pair
        <5>5. CASE ~(j + 2 > Len(str))
          <6>1. j + 2 \in 0..N /\ (j + 2) + m >= N
            BY <2>1, <3>1, <5>1, <5>5
          <6>2. f[j + 2] = h[j + 2]
            BY <2>4, <6>1
          <6>3. QED  BY <5>2, <5>3, <6>2
        <5>6. QED  BY <5>4, <5>5
      <4>3. QED  BY <4>1, <4>2
    <3>2. QED  BY <3>1
  <2>5. Nat \subseteq Good
    <3> HIDE DEF Good
    <3>1. QED  BY <2>3, <2>4, NumberInduction
  <2>6. f[0] = h[0]
    <3>1. N \in Nat /\ 0 \in 0..N /\ 0 + N >= N
      BY <2>1
    <3> HIDE DEF N
    <3>2. N \in Good
      <4> HIDE DEF Good
      <4>1. QED  BY <2>5, <3>1
    <3>3. QED  BY <3>1, <3>2
  <2>7. QED  BY <2>6, ParsingIs DEF f, h
<1>3. QED  BY <1>1, <1>2

(* Then the pairs.                                                         *)
(* The collected text b means p behind its beginning a.                    *)
DigitChars == 48..57 \cup 65..70 \cup 97..102
Means(b, a, p) ==
  /\ a \in Seq(Nat) /\ b \in Seq(Nat) /\ p \in Seq(Nat)
  /\ Len(b) = Len(a) + 2 * Len(p)
  /\ \A k \in 1..Len(a) : b[k] = a[k]
  /\ \A k \in 1..Len(p) :
       /\ p[k] = 16 * Unhex(b[Len(a) + (2 * k - 1)]) + Unhex(b[Len(a) + 2 * k])
       /\ b[Len(a) + (2 * k - 1)] \in DigitChars /\ b[Len(a) + 2 * k] \in DigitChars

LEMMA MeansNothing ==
  ASSUME NEW a \in Seq(Nat)
  PROVE  Means(a, a, <<>>)
<1>1. <<>> \in Seq(Nat) /\ Len(<<>>) = 0 /\ Len(a) + 2 * 0 = Len(a)
  OBVIOUS
<1> DEFINE p == <<>>
<1>2. p \in Seq(Nat) /\ Len(p) = 0 /\ 1..Len(p) = {} /\ Len(a) = Len(a) + 2 * Len(p)
  BY <1>1
<1> HIDE DEF p
<1>3. Means(a, a, p)
  BY <1>2 DEF Means
<1>4. QED  BY <1>3 DEF p

(* A pair more in front.                                                   *)
LEMMA MeansOneMore ==
  ASSUME NEW a \in Seq(Nat), NEW b, NEW p, NEW x \in Nat, NEW y \in Nat,
         Unhex(x) # 255, Unhex(y) # 255, Means(b, Append(Append(a, x), y), p)
  PROVE  Means(b, a, <<Unhex(x) * 16 + Unhex(y)>> \o p)
<1> DEFINE c == Append(Append(a, x), y)
           v == Unhex(x) * 16 + Unhex(y)
           q == <<v>> \o p
           l == Len(a)
           n == Len(p)
<1>1. /\ l \in Nat /\ c \in Seq(Nat) /\ Len(c) = l + 2 /\ c[l + 1] = x /\ c[l + 2] = y
      /\ \A k \in 1..l : c[k] = a[k]
  OBVIOUS
<1> HIDE DEF c
<1>2. /\ b \in Seq(Nat) /\ p \in Seq(Nat) /\ n \in Nat /\ Len(b) = (l + 2) + 2 * n
      /\ \A k \in 1..(l + 2) : b[k] = c[k]
      /\ \A k \in 1..n :
           /\ p[k] = 16 * Unhex(b[(l + 2) + (2 * k - 1)]) + Unhex(b[(l + 2) + 2 * k])
           /\ b[(l + 2) + (2 * k - 1)] \in DigitChars /\ b[(l + 2) + 2 * k] \in DigitChars
  BY <1>1 DEF Means, c
<1>3. Unhex(x) \in 0..15 /\ Unhex(y) \in 0..15 /\ x \in DigitChars /\ y \in DigitChars
  BY UnhexIs DEF DigitChars
<1>4. v \in Nat /\ v = 16 * Unhex(x) + Unhex(y)
  <2>1. \A h, g \in 0..15 : h * 16 + g \in Nat /\ h * 16 + g = 16 * h + g
    OBVIOUS
  <2>2. QED  BY <1>3, <2>1
<1> HIDE DEF v, n
<1>5. /\ q \in Seq(Nat) /\ Len(q) = n + 1 /\ q[1] = v
      /\ \A k \in 1..n : q[k + 1] = p[k]
  <2> DEFINE one == <<v>>
  <2>1. one \in Seq(Nat) /\ Len(one) = 1 /\ one[1] = v
    BY <1>4
  <2> HIDE DEF one
  <2>2. one \o p \in Seq(Nat) /\ Joins(one \o p, one, p)
    BY <1>2, <2>1, ConcatIs
  <2> DEFINE r == one \o p
  <2>3. q = r
    BY DEF one
  <2>4. r \in Seq(Nat) /\ Joins(r, one, p)
    BY <2>2
  <2> HIDE DEF r, q
  <2>5. \A k \in 1..n : 1 + k = k + 1
    BY <1>2
  <2>6. 1 \in 1..Len(one)
    BY <2>1
  <2>7. QED  BY <1>2, <2>1, <2>3, <2>4, <2>5, <2>6 DEF Joins, n
<1> HIDE DEF q, l
<1>6. Len(b) = l + 2 * (n + 1)
  BY <1>1, <1>2
<1>7. \A k \in 1..l : b[k] = a[k]
  BY <1>1, <1>2
<1>8. ASSUME NEW k \in 1..(n + 1)
      PROVE  /\ q[k] = 16 * Unhex(b[l + (2 * k - 1)]) + Unhex(b[l + 2 * k])
             /\ b[l + (2 * k - 1)] \in DigitChars /\ b[l + 2 * k] \in DigitChars
  <2>1. CASE k = 1
    <3>1. l + (2 * k - 1) = l + 1 /\ l + 2 * k = l + 2 /\ l + 1 \in 1..(l + 2) /\ l + 2 \in 1..(l + 2)
      BY <1>1, <2>1
    <3>2. b[l + 1] = x /\ b[l + 2] = y
      BY <1>1, <1>2, <3>1
    <3>3. q[k] = 16 * Unhex(x) + Unhex(y)
      BY <1>4, <1>5, <2>1
    <3>4. QED  BY <1>3, <3>1, <3>2, <3>3
  <2>2. CASE k # 1
    <3> DEFINE m == k - 1
    <3>1. /\ m \in 1..n /\ m + 1 = k /\ l + (2 * k - 1) = (l + 2) + (2 * m - 1)
          /\ l + 2 * k = (l + 2) + 2 * m
      BY <1>1, <1>2, <2>2
    <3> HIDE DEF m
    <3>2. q[k] = p[m]
      BY <1>5, <3>1
    <3>3. QED  BY <1>2, <3>1, <3>2
  <2>3. QED  BY <2>1, <2>2
<1>9. Means(b, a, q)
  BY <1>2, <1>5, <1>6, <1>7, <1>8 DEF Means, l
<1>10. QED  BY <1>9 DEF q, v

LEMMA TextMeans ==
  ASSUME NEW str \in Seq(Nat), Len(str) < SizeMod, str # <<>>, NEW o \in Seq(Nat),
         NoDigitBehind(str, o)
  PROVE  LET c == Collected(str, {i \in DOMAIN str : str[i] # Blank})
             p == Parsing(str, o)[0]
         IN  p # Invalid => \E cut \in {0, 1} : Means(c[Len(str) - cut], <<>>, p)
<1> DEFINE N == Len(str)
           places == {i \in DOMAIN str : str[i] # Blank}
           c == Collected(str, places)
           f == Parsing(str, o)
           Reads(i) == f[i] # Invalid => \E cut \in {0, 1} : Means(c[N - cut], c[i], f[i])
           Good == {m \in Nat : \A i \in 0..N : i + m >= N => Reads(i)}
<1>1. N \in Nat \ {0} /\ Bound(str) = N - 1 /\ DOMAIN str = 1..N
  <2>1. Bound(str) = N - 1
    BY BoundIs
  <2>2. QED  BY <2>1
<1>2. \A i \in 0..N : f[i] = ParseStep(f, str, o, i)
  <2>1. \A i \in 0..(End(str, o) + 2) : f[i] = ParseStep(f, str, o, i)
    BY ParseUnfolds
  <2> HIDE DEF f
  <2>2. \A i \in 0..N : i \in 0..(End(str, o) + 2)
    BY EndIs
  <2>3. QED  BY <2>1, <2>2
<1>3. /\ \A n \in 0..N : c[n] \in Seq(Nat)
      /\ c[0] = <<>>
      /\ \A n \in 0..N : n + 1 \in 0..N =>
           c[n + 1] = IF n + 1 \in places THEN Append(c[n], str[n + 1]) ELSE c[n]
  <2>1. \A n \in 0..N : c[n] \in Seq(Nat)
    BY CollectedMeans
  <2>2. /\ c[0] = <<>>
        /\ \A n \in 0..N : n + 1 \in 0..N =>
             c[n + 1] = IF n + 1 \in places THEN Append(c[n], str[n + 1]) ELSE c[n]
    BY CollectedSteps
  <2>3. QED  BY <2>1, <2>2
<1>4. \A i \in 0..N, j \in 0..N :
        i <= j /\ (\A k \in (i + 1)..j : k \notin places) => c[j] = c[i]
  <2> SUFFICES ASSUME NEW i \in 0..N, NEW j \in 0..N, i <= j,
                      \A k \in (i + 1)..j : k \notin places
               PROVE  c[j] = c[i]
    OBVIOUS
  <2>1. j \in i..Len(str)
    BY <1>1
  <2> HIDE DEF places
  <2>2. QED  BY <2>1, CollectsNothing
<1>5. \A k \in 1..N : k \in places <=> str[k] # Blank
  BY <1>1
<1>6. N = Len(str)
  OBVIOUS
<1> HIDE DEF f, c, places, N
<1>7. ASSUME NEW i \in 0..N, i >= N - 1 PROVE Reads(i)
  <2>1. f[i] = <<>>
    <3>1. i >= Bound(str)
      BY <1>1, <1>7
    <3>2. f[i] = ParseStep(f, str, o, i)
      BY <1>2
    <3>3. QED  BY <3>1, <3>2 DEF ParseStep
  <2> DEFINE cut == N - i
  <2>2. cut \in {0, 1} /\ N - cut = i
    BY <1>1, <1>7
  <2>3. Means(c[i], c[i], <<>>)
    BY <1>3, MeansNothing
  <2>4. Means(c[N - cut], c[i], f[i])
    BY <2>1, <2>2, <2>3
  <2> HIDE DEF cut
  <2>5. QED  BY <2>2, <2>4
<1>8. 0 \in Good
  <2>1. ASSUME NEW i \in 0..N, i + 0 >= N PROVE Reads(i)
    <3>1. i >= N - 1
      BY <1>1, <2>1
    <3> HIDE DEF Reads
    <3>2. QED  BY <1>7, <3>1
  <2> HIDE DEF Reads
  <2>2. QED  BY <2>1
<1>9. ASSUME NEW m \in Nat, m \in Good PROVE m + 1 \in Good
  <2>1. ASSUME NEW i \in 0..N, i + (m + 1) >= N, i < N - 1, f[i] # Invalid
        PROVE  \E cut \in {0, 1} : Means(c[N - cut], c[i], f[i])
    <3> DEFINE j == SkipBlanks(str, i, o)
    <3>1. /\ i \in Nat /\ j \in i..(N - 1) /\ (j = N - 1 \/ str[j + 1] # Blank)
          /\ \A k \in i..(j - 1) : str[k + 1] = Blank
      <4>1. i \in 0..(Len(str) - 1)
        BY <1>1, <1>6, <2>1
      <4>2. QED  BY <1>1, <1>6, <2>1, <4>1, SkipIs, SMTT(30)
    <3>2. f[i] = Pair(str, j, f[j + 2])
      <4>1. i \in Nat /\ i < Len(str) - 1
        BY <1>1, <1>6, <2>1
      <4>2. QED  BY <1>2, <4>1, PairRead
    <3> HIDE DEF j
    <3> DEFINE x == str[j + 1]
               y == str[j + 2]
               rest == f[j + 2]
    <3>3. /\ j + 2 <= N /\ Unhex(x) # 255 /\ Unhex(y) # 255 /\ rest # Invalid
          /\ f[i] = <<Unhex(x) * 16 + Unhex(y)>> \o rest
      <4>1. Pair(str, j, rest) # Invalid
        BY <2>1, <3>2
      <4>2. /\ ~(j + 2 > N) /\ Unhex(x) # 255 /\ Unhex(y) # 255 /\ rest # Invalid
            /\ Pair(str, j, rest) = <<Unhex(x) * 16 + Unhex(y)>> \o rest
        BY <1>6, <4>1 DEF Pair
      <4>3. j + 2 <= N
        BY <1>1, <2>1, <3>1, <4>2
      <4>4. QED  BY <3>2, <4>2, <4>3
    <3>4. /\ j \in Nat /\ j \in 0..N /\ j + 1 \in 0..N /\ j + 2 \in 0..N /\ (j + 1) + 1 = j + 2
          /\ j + 1 \in 1..N /\ j + 2 \in 1..N /\ (j + 2) + m >= N /\ i <= j
      <4>1. j \in Nat /\ i \in Nat /\ i <= j /\ j + 2 <= N
        BY <3>1, <3>3
      <4>2. i + (m + 1) >= N
        BY <2>1
      <4>3. QED  BY <1>1, <4>1, <4>2
    <3>5. x \in Nat /\ y \in Nat
      BY <1>6, <3>4, ElementOfSeq
    <3>6. x # Blank /\ y # Blank
      <4>1. Unhex(Blank) = 255
        BY DEF Unhex, Blank
      <4>2. QED  BY <3>3, <4>1
    <3>7. c[j] = c[i]
      <4>1. ASSUME NEW k \in (i + 1)..j PROVE k \notin places
        <5>1. k - 1 \in i..(j - 1) /\ (k - 1) + 1 = k
          BY <3>1, <3>4
        <5>2. str[(k - 1) + 1] = Blank
          BY <3>1, <5>1
        <5>3. str[k] = Blank /\ k \in 1..N
          BY <1>1, <3>1, <3>4, <5>1, <5>2
        <5>4. QED  BY <1>5, <5>3
      <4>2. QED  BY <1>4, <3>4, <4>1
    <3>8. c[j + 2] = Append(Append(c[i], x), y)
      <4>1. j + 1 \in places /\ j + 2 \in places
        BY <1>5, <3>4, <3>6
      <4>2. c[j + 1] = Append(c[j], x)
        BY <1>3, <3>4, <4>1
      <4>3. c[(j + 1) + 1] = Append(c[j + 1], str[(j + 1) + 1])
        <5>1. (j + 1) + 1 \in 0..N /\ (j + 1) + 1 \in places
          BY <3>4, <4>1
        <5>2. QED  BY <1>3, <3>4, <5>1, Zenon
      <4>4. QED  BY <3>4, <3>7, <4>2, <4>3
    <3>9. PICK cut \in {0, 1} : Means(c[N - cut], c[j + 2], rest)
      BY <1>9, <3>3, <3>4
    <3>10. c[i] \in Seq(Nat)
      BY <1>3
    <3> HIDE DEF x, y, rest
    <3>11. Means(c[N - cut], Append(Append(c[i], x), y), rest)
      BY <3>8, <3>9
    <3>12. Means(c[N - cut], c[i], <<Unhex(x) * 16 + Unhex(y)>> \o rest)
      BY <3>3, <3>5, <3>10, <3>11, MeansOneMore
    <3>13. Means(c[N - cut], c[i], f[i])
      BY <3>3, <3>12
    <3>14. QED  BY <3>13
  <2>2. ASSUME NEW i \in 0..N, i + (m + 1) >= N PROVE Reads(i)
    <3>1. CASE i >= N - 1
      <4> HIDE DEF Reads
      <4>1. QED  BY <1>7, <3>1
    <3>2. CASE ~(i >= N - 1)
      <4>1. i < N - 1
        BY <1>1, <3>2
      <4>2. QED  BY <2>1, <2>2, <4>1
    <3>3. QED  BY <3>1, <3>2
  <2> HIDE DEF Reads
  <2>3. QED  BY <2>2
<1>10. Nat \subseteq Good
  <2> HIDE DEF Good
  <2>1. QED  BY <1>8, <1>9, NumberInduction
<1>11. Reads(0)
  <2>1. N \in Nat /\ 0 \in 0..N /\ 0 + N >= N
    BY <1>1
  <2> HIDE DEF N, Reads
  <2>2. N \in Good
    <3> HIDE DEF Good
    <3>1. QED  BY <1>10, <2>1
  <2>3. QED  BY <2>1, <2>2
<1>12. QED  BY <1>3, <1>11 DEF f, c, places, N

LEMMA MeaningIsPairs ==
  ASSUME NEW b, NEW p, Means(b, <<>>, p)
  PROVE  ArePairs(b, p)
<1> DEFINE a == <<>>
           n == Len(p)
<1>1. Len(a) = 0
  OBVIOUS
<1> HIDE DEF a
<1>2. /\ b \in Seq(Nat) /\ n \in Nat /\ Len(b) = 0 + 2 * n
      /\ \A k \in 1..n :
           /\ p[k] = 16 * Unhex(b[0 + (2 * k - 1)]) + Unhex(b[0 + 2 * k])
           /\ b[0 + (2 * k - 1)] \in DigitChars /\ b[0 + 2 * k] \in DigitChars
  <2>1. Means(b, a, p)
    BY DEF a
  <2>2. QED  BY <1>1, <2>1 DEF Means
<1> HIDE DEF n
<1>3. Len(b) = 2 * n
  BY <1>2
<1>4. ASSUME NEW k \in 1..n
      PROVE  /\ p[k] = 16 * Unhex(b[2 * k - 1]) + Unhex(b[2 * k])
             /\ b[2 * k - 1] \in DigitChars /\ b[2 * k] \in DigitChars
  <2>1. 0 + (2 * k - 1) = 2 * k - 1 /\ 0 + 2 * k = 2 * k
    BY <1>2
  <2>2. QED  BY <1>2, <2>1
<1>5. ASSUME NEW i \in DOMAIN b PROVE b[i] \in DigitChars
  <2>1. i \in 1..(2 * n)
    BY <1>2, <1>3
  <2>2. \E k \in 1..n : i = 2 * k - 1 \/ i = 2 * k
    <3> DEFINE k == (i + 1) \div 2
    <3>1. k \in 1..n /\ (i = 2 * k - 1 \/ i = 2 * k)
      <4>1. \A m \in Nat : \A h \in 1..(2 * m) :
              /\ (h + 1) \div 2 \in 1..m
              /\ h = 2 * ((h + 1) \div 2) - 1 \/ h = 2 * ((h + 1) \div 2)
        OBVIOUS
      <4>2. QED  BY <1>2, <2>1, <4>1
    <3> HIDE DEF k
    <3>2. QED  BY <3>1
  <2>3. QED  BY <1>4, <2>2
<1>6. QED  BY <1>3, <1>4, <1>5 DEF n, DigitChars, ArePairs

LEMMA PairsMeant ==
  ASSUME NEW str \in Seq(Nat), Len(str) < SizeMod
  PROVE  MeansItsPairs(str, HashStringToBytes(str, <<>>))
<1> DEFINE zeros == <<>>
           bytes == HashStringToBytes(str, zeros)
           c == Collected(str, {i \in DOMAIN str : str[i] # Blank})
<1>1. zeros \in Seq(Nat) /\ NoDigitBehind(str, zeros) /\ Len(zeros) + 1 < SizeMod
  <2>1. zeros \in Seq(Nat) /\ Len(zeros) = 0
    OBVIOUS
  <2> HIDE DEF zeros
  <2>2. Char(str, Len(str), zeros) = 0
    BY <2>1 DEF Char, End
  <2>3. NoDigitBehind(str, zeros)
    BY <2>2 DEF NoDigitBehind, Unhex
  <2>4. QED  BY <2>1, <2>3, InputsAssumption, CodecAssumption
<1> HIDE DEF zeros
<1>2. ASSUME NEW o \in AnyOutside, str = <<>> \/ Unhex(Char(str, Len(str), o)) = 255
      PROVE  HashStringToBytes(str, o) = bytes
  <2>1. o \in Seq(OutsideChars) /\ Len(o) <= MaxOutside
    BY InputsAssumption, BoundedSeqIs DEF AnyOutside
  <2>2. o \in Seq(Nat)
    <3>1. OutsideChars \subseteq Nat
      BY InputsAssumption
    <3>2. QED  BY <2>1, <3>1, SeqMonotonic
  <2>3. Len(o) + 1 < SizeMod
    BY <2>1, <2>2, InputsAssumption, CodecAssumption
  <2>4. str = <<>> \/ (NoDigitBehind(str, o) /\ NoDigitBehind(str, zeros))
    BY <1>1, <1>2 DEF NoDigitBehind
  <2>5. QED  BY <1>1, <2>2, <2>3, <2>4, OutsideIrrelevant
<1>3. ASSUME Len(bytes) > 0
      PROVE  ArePairs(c[Len(str) - 0], bytes) \/ ArePairs(c[Len(str) - 1], bytes)
  <2> DEFINE p == Parsing(str, zeros)[0]
  <2>1. Len(<<>>) = 0
    OBVIOUS
  <2>2. bytes # <<>>
    BY <1>3
  <2>3. str # <<>>
    <3>1. Len(str) = 0 => bytes = <<>>
      <4> HIDE DEF c
      <4>1. QED  BY <1>1, EmptyText
    <3>2. QED  BY <2>2, <3>1
  <2>4. p # Invalid /\ bytes = p
    BY <2>2, ParsingIs
  <2>5. PICK cut \in {0, 1} : Means(c[Len(str) - cut], <<>>, p)
    BY <1>1, <2>3, <2>4, TextMeans
  <2> DEFINE b == c[Len(str) - cut]
  <2> HIDE DEF p, bytes, c
  <2>6. Means(b, <<>>, bytes)
    BY <2>4, <2>5
  <2> HIDE DEF b
  <2>7. ArePairs(b, bytes)
    BY <2>6, MeaningIsPairs
  <2>8. cut = 0 \/ cut = 1
    BY <2>5
  <2>9. QED  BY <2>7, <2>8 DEF b
<1> HIDE DEF bytes
<1>4. MeansItsPairs(str, bytes)
  BY <1>2, <1>3 DEF MeansItsPairs
<1>5. QED  BY <1>4 DEF bytes, zeros

LEMMA CallMeansPairs ==
  ASSUME InputsFit, Call
  PROVE  TextMeansItsPairs'
<1>1. job' = job /\ input' = input
  BY DEF Call
<1>2. CASE job = "text"
  <2>1. input \in Seq(Nat) /\ Len(input) < SizeMod
    BY <1>2 DEF InputsFit
  <2>2. result'[1].bytes = HashStringToBytes(input, <<>>)
    BY <1>2 DEF Call
  <2>3. MeansItsPairs(input, result'[1].bytes)
    BY <2>1, <2>2, PairsMeant
  <2>4. QED  BY <1>1, <2>3 DEF TextMeansItsPairs
<1>3. CASE job # "text"
  BY <1>1, <1>3 DEF TextMeansItsPairs, Called
<1>4. QED  BY <1>2, <1>3

(* A text means a hash only if it is pairs of digits, and what stands      *)
(* behind it does not matter if it begins with no digit, or if the text is *)
(* empty: TextMeansItsPairs, for every text (utl::HashStringToBytes).      *)
THEOREM TextMeansItsPairsAlways == CodecSpec => []TextMeansItsPairs
<1> DEFINE Inv == InputsFit /\ TextMeansItsPairs
<1>1. CodecInit => Inv
  BY InputsFitFirst DEF TextMeansItsPairs, Called
<1>2. Inv /\ [CodecNext]_codecVars => Inv'
  <2> SUFFICES ASSUME Inv, [CodecNext]_codecVars PROVE Inv'
    OBVIOUS
  <2>1. CASE CodecNext
    BY <2>1, CallInverts, CallMeansPairs DEF CodecNext
  <2>2. CASE UNCHANGED codecVars
    BY <2>2 DEF codecVars, InputsFit, TextMeansItsPairs, Called
  <2>3. QED  BY <2>1, <2>2
<1>3. QED  BY <1>1, <1>2, PTL DEF CodecSpec
=============================================================================

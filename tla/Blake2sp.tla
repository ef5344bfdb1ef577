------------------------------ MODULE Blake2sp ------------------------------
(***************************************************************************)
(* blake2sp.c: blocks are dealt to the leaves in turn; each leaf hashes    *)
(* its own, and the root hashes the leaves' digests.  The compression      *)
(* function is collision free here: the state h is the sequence of all     *)
(* that was compressed.  A digest is DigestSize symbols of that sequence.  *)
(***************************************************************************)
EXTENDS Integers, Sequences, Selection

CONSTANTS
  Byte, Zero,  \* the bytes, and the zero byte
  BlockSize,   \* BLAKE2S_BLOCK_SIZE
  DigestSize,  \* BLAKE2S_DIGEST_SIZE
  Degree,      \* BLAKE2SP_PARALLEL_DEGREE
  WordMod,     \* 2^32
  MaxLength    \* bound on the bytes fed

BlakeAssumption ==
  /\ BlockSize \in Nat \ {0} /\ DigestSize \in 1..BlockSize /\ Degree \in Nat \ {0}
  /\ WordMod \in Nat /\ BlockSize <= WordMod /\ MaxLength \in Nat

VARIABLES
  S, bufPos,  \* CBlake2sp
  fed, out    \* as in StreamHash

blakeVars == <<S, bufPos, fed, out>>

(* Blake2sp_Init_Spec: h is xored with the node's place in the tree.       *)
Blake2sp_Init_Spec(node_offset, node_depth) ==
  [h |-> <<<<node_offset, node_depth>>>>, t |-> <<0, 0>>, f |-> <<FALSE, FALSE>>,
   buf |-> [i \in 0..(BlockSize - 1) |-> Zero], bufPos |-> 0, lastNode |-> FALSE]

Blake2s_Compress(p) == [p EXCEPT !.h = Append(@, <<p.buf, p.t, p.f>>)]

Carry(t0, inc) == IF t0 < inc THEN 1 ELSE 0

Blake2s_Increment_Counter(p, inc) ==
  LET t0 == (p.t[1] + inc) % WordMod
  IN  [p EXCEPT !.t = <<t0, (p.t[2] + Carry(t0, inc)) % WordMod>>]

(* memcpy to buf + pos                                                     *)
Copied(p, data) ==
  [p EXCEPT !.buf = [i \in DOMAIN @ |->
     IF i \in p.bufPos..(p.bufPos + Len(data) - 1) THEN data[i - p.bufPos + 1] ELSE @[i]]]

(* A full block stays in the buffer until more comes, for it may be the    *)
(* last one.                                                               *)
Fits(size, rem) == size <= rem

(* A turn of the loop: the rest of the data, or what fills the buffer.     *)
Taken(s) ==
  LET p == s.node
      rem == BlockSize - p.bufPos
  IN  IF s.data = <<>> THEN s
      ELSE IF Fits(Len(s.data), rem)
      THEN [node |-> [Copied(p, s.data) EXCEPT !.bufPos = p.bufPos + Len(s.data)],
            data |-> <<>>]
      ELSE LET full == Copied(p, SubSeq(s.data, 1, rem))
               next == Blake2s_Compress(Blake2s_Increment_Counter(full, BlockSize))
           IN  [node |-> [next EXCEPT !.bufPos = 0],
                data |-> SubSeq(s.data, rem + 1, Len(s.data))]

(* Every turn takes a byte or more, but the first if the buffer is full.   *)
Blake2s_Update(p, data) ==
  LET after[k \in 0..(Len(data) + 1)] ==
        IF k = 0 THEN [node |-> p, data |-> data] ELSE Taken(after[k - 1])
  IN  after[Len(data) + 1].node

Wiped(p) == [i \in DOMAIN p.buf |-> IF i >= p.bufPos THEN Zero ELSE p.buf[i]]

Blake2s_Final(p) ==
  LET last == [Blake2s_Increment_Counter(p, p.bufPos) EXCEPT !.f = <<TRUE, p.lastNode>>]
      h == Blake2s_Compress([last EXCEPT !.buf = Wiped(p)]).h
  IN  [i \in 1..DigestSize |-> <<h, i>>]

Blake2sp_Init ==
  /\ S = [i \in 0..(Degree - 1) |->
            [Blake2sp_Init_Spec(i, 0) EXCEPT !.lastNode = (i = Degree - 1)]]
  /\ bufPos = 0
  /\ fed = <<>> /\ out = <<>>

(* A turn: what is left of a block, or all there is, to the block's leaf.  *)
DealtBlock(s) ==
  LET index == s.pos \div BlockSize
      left == BlockSize - (s.pos % BlockSize)
      rem == IF left > Len(s.data) THEN Len(s.data) ELSE left
  IN  IF s.data = <<>> THEN s
      ELSE [leaves |-> [s.leaves EXCEPT ![index] = Blake2s_Update(@, SubSeq(s.data, 1, rem))],
            pos |-> (s.pos + rem) % (BlockSize * Degree),
            data |-> SubSeq(s.data, rem + 1, Len(s.data))]

Dealt(leaves, pos, data) ==
  LET after[k \in 0..Len(data)] ==
        IF k = 0 THEN [leaves |-> leaves, pos |-> pos, data |-> data]
        ELSE DealtBlock(after[k - 1])
  IN  after[Len(data)]

Blake2sp_Update(data) ==
  /\ out = <<>>
  /\ LET dealt == Dealt(S, bufPos, data) IN S' = dealt.leaves /\ bufPos' = dealt.pos
  /\ fed' = fed \o data
  /\ UNCHANGED out

(* The digests of the leaves, one after the other, into the root.          *)
Root(leaves) ==
  LET R[i \in 0..Degree] ==
        IF i = 0 THEN [Blake2sp_Init_Spec(0, 1) EXCEPT !.lastNode = TRUE]
        ELSE Blake2s_Update(R[i - 1], Blake2s_Final(leaves[i - 1]))
  IN  R[Degree]

Blake2sp_Final ==
  /\ out = <<>>
  /\ out' = <<Blake2s_Final(Root(S))>>
  /\ UNCHANGED <<S, bufPos, fed>>

Buffers == UNION {[1..n -> Byte] : n \in 0..(MaxLength - Len(fed))}
BlakeNext == (\E data \in Buffers : Blake2sp_Update(data)) \/ Blake2sp_Final
BlakeSpec == Blake2sp_Init /\ [][BlakeNext]_blakeVars
-----------------------------------------------------------------------------
(* The hash by its definition: the message is padded with zeros to whole   *)
(* blocks, at least one; each block has the number of bytes up to its end, *)
(* the last the length, and it alone is marked as the last.                *)
Counter(n) == <<n % WordMod, (n \div WordMod) % WordMod>>
Blake2s(offset, depth, lastNode, data) ==
  LET n == IF data = <<>> THEN 1 ELSE (Len(data) + BlockSize - 1) \div BlockSize
      at(i) == IF i <= Len(data) THEN data[i] ELSE Zero
      block(k) == <<[i \in 0..(BlockSize - 1) |-> at((k - 1) * BlockSize + i + 1)],
                    Counter(IF k = n THEN Len(data) ELSE k * BlockSize),
                    IF k = n THEN <<TRUE, lastNode>> ELSE <<FALSE, FALSE>>>>
      h == <<<<offset, depth>>>> \o [k \in 1..n |-> block(k)]
  IN  [i \in 1..DigestSize |-> <<h, i>>]

(* Block k of the stream belongs to leaf k mod Degree.                     *)
OfLeaf(leaf, data) ==
  Selected(data, {i \in 1..Len(data) : ((i - 1) \div BlockSize) % Degree = leaf})

LeafDigests(data) ==
  [leaf \in 1..Degree |-> Blake2s(leaf - 1, 0, leaf = Degree, OfLeaf(leaf - 1, data))]

BlakeDigest(data) ==
  Blake2s(0, 1, TRUE, [i \in 1..(Degree * DigestSize) |->
    LeafDigests(data)[(i - 1) \div DigestSize + 1][((i - 1) % DigestSize) + 1]])
=============================================================================
